--------------------------- MODULE Documents_proofs ---------------------------
(***************************************************************************)
(* Proofs about the documents and where they come from: the log of         *)
(* statements for leaves of any number, one document between its signer    *)
(* and its readers for any keys and any number of changes, the extract of  *)
(* a chain of any length and any transactions, and the key at rest for any *)
(* number of sessions.  Each has its own inductive invariant: LogInv,      *)
(* DocInv, BaseInv, KeyInv.                                                *)
(***************************************************************************)
EXTENDS SignedDocuments, TransparencyLog, BaseExtract, KeySeal,
        FiniteSetTheorems, SequenceTheorems, WellFoundedInduction, TLAPS

-----------------------------------------------------------------------------
(* THE LOG OF STATEMENTS (TransparencyLog).                                *)

IsSeq(s) == s \in Seq(Range(s))

(* There is a least of any natural numbers.                                *)
LEMMA LeastExists == ASSUME NEW S \in SUBSET Nat, S # {} PROVE \E n \in S : \A m \in S : n <= m
  <1>1. PICK n \in S : \A m \in S : ~(<<m, n>> \in OpToRel(<, Nat))
    BY NatLessThanWellFounded, WFMin
  <1>2. \A m \in S : ~(m < n)
    BY <1>1 DEF OpToRel
  <1> QED BY <1>2

(* The first of the numbers up to a bound at which something fails is      *)
(* after one at which it does not: what holds of 0 and goes on to hold,    *)
(* holds up to the bound.                                                  *)
LEMMA GoesOn ==
  ASSUME NEW N \in Nat, NEW S, 0 \in S, \A n \in 0 .. N - 1 : n \in S => n + 1 \in S
  PROVE  0 .. N \subseteq S
  <1> DEFINE outside == {n \in 0 .. N : n \notin S}
  <1>1. SUFFICES ASSUME outside # {} PROVE FALSE
    OBVIOUS
  <1>2. PICK n \in outside : \A m \in outside : n <= m
    <2>1. outside \in SUBSET Nat
      OBVIOUS
    <2> HIDE DEF outside
    <2> QED BY <1>1, <2>1, LeastExists
  <1>3. n \in 0 .. N /\ n \notin S /\ n # 0
    OBVIOUS
  <1>4. n - 1 \in 0 .. N - 1 /\ n - 1 \in 0 .. N /\ ~(n <= n - 1) /\ (n - 1) + 1 = n
    BY <1>3
  <1>5. n - 1 \in S
    BY <1>2, <1>4
  <1> QED BY <1>3, <1>4, <1>5

LEMMA TuplesDiffer == \A a, b, c : <<a>> # <<b, c>>
  <1> SUFFICES ASSUME NEW a, NEW b, NEW c, <<a>> = <<b, c>> PROVE FALSE
    OBVIOUS
  <1>1. Len(<<a>>) = 1 /\ Len(<<b, c>>) = 2
    OBVIOUS
  <1> QED BY <1>1

LEMMA SeqHas ==
  ASSUME NEW s, IsSeq(s)
  PROVE  Len(s) \in Nat /\ DOMAIN s = 1 .. Len(s) /\ s = [i \in 1 .. Len(s) |-> s[i]]
  BY LenProperties DEF IsSeq

LEMMA FnIsSeq ==
  ASSUME NEW n \in Nat, NEW s, DOMAIN s = 1 .. n, s = [i \in 1 .. n |-> s[i]]
  PROVE  IsSeq(s) /\ Len(s) = n
  <1>1. \A i \in 1 .. n : s[i] \in Range(s)
    BY DEF Range
  <1>2. s \in [1 .. n -> Range(s)]
    BY <1>1
  <1>3. s \in Seq(Range(s))
    BY <1>2
  <1>4. Len(s) \in Nat /\ 1 .. Len(s) = 1 .. n
    BY <1>3, LenProperties
  <1> QED BY <1>3, <1>4 DEF IsSeq

LEMMA SeqAppend ==
  ASSUME NEW s, IsSeq(s), NEW x
  PROVE  /\ IsSeq(Append(s, x)) /\ Len(Append(s, x)) = Len(s) + 1
         /\ Append(s, x)[Len(s) + 1] = x
         /\ \A i \in 1 .. Len(s) : Append(s, x)[i] = s[i]
  <1>1. s \in Seq(Range(s) \cup {x}) /\ x \in Range(s) \cup {x}
    BY SeqMonotonic DEF IsSeq
  <1>2. /\ Append(s, x) \in Seq(Range(s) \cup {x}) /\ Len(Append(s, x)) = Len(s) + 1
        /\ Append(s, x)[Len(s) + 1] = x
        /\ \A i \in 1 .. Len(s) : Append(s, x)[i] = s[i]
    BY <1>1
  <1>3. IsSeq(Append(s, x))
    <2>1. DOMAIN Append(s, x) = 1 .. Len(Append(s, x)) /\ Len(Append(s, x)) \in Nat
      BY <1>2, LenProperties
    <2>2. Append(s, x) = [i \in 1 .. Len(Append(s, x)) |-> Append(s, x)[i]]
      BY <1>2, <2>1, LenProperties
    <2> QED BY <2>1, <2>2, FnIsSeq
  <1> QED BY <1>2, <1>3

LEMMA SeqPrefix ==
  ASSUME NEW s, IsSeq(s), NEW m \in 1 .. Len(s)
  PROVE  /\ IsSeq(SubSeq(s, 1, m)) /\ Len(SubSeq(s, 1, m)) = m
         /\ \A i \in 1 .. m : SubSeq(s, 1, m)[i] = s[i]
  <1>1. Len(s) \in Nat
    BY SeqHas
  <1>0. \A i \in 1 .. m : s[i] \in Range(s)
    BY <1>1, ElementOfSeq DEF IsSeq
  <1>2. m \in Nat /\ m \in Int /\ 1 \in Int /\ 1 <= m
    BY <1>1
  <1>3. /\ SubSeq(s, 1, m) \in Seq(Range(s)) /\ Len(SubSeq(s, 1, m)) = m
        /\ \A i \in 1 .. m : SubSeq(s, 1, m)[i] = s[i]
    BY <1>0, <1>2, SubSeqProperties
  <1>4. /\ DOMAIN SubSeq(s, 1, m) = 1 .. m
        /\ SubSeq(s, 1, m) = [i \in 1 .. m |-> SubSeq(s, 1, m)[i]]
    BY <1>3, LenProperties
  <1> QED BY <1>2, <1>3, <1>4, FnIsSeq

-----------------------------------------------------------------------------
(* The levels of the tree.                                                 *)

LEMMA PaddedIs ==
  ASSUME NEW s, IsSeq(s), Len(s) > 0
  PROVE  /\ IsSeq(PadEven(s)) /\ Len(PadEven(s)) % 2 = 0
         /\ Len(PadEven(s)) \in {Len(s), Len(s) + 1}
         /\ \A i \in 1 .. Len(s) : PadEven(s)[i] = s[i]
         /\ (Len(PadEven(s)) = Len(s) + 1 => PadEven(s)[Len(s) + 1] = s[Len(s)])
  <1>1. Len(s) \in Nat
    BY SeqHas
  <1>2. CASE Len(s) % 2 = 1
    <2>1. PadEven(s) = Append(s, s[Len(s)])
      BY <1>2 DEF PadEven
    <2>2. /\ IsSeq(PadEven(s)) /\ Len(PadEven(s)) = Len(s) + 1
          /\ PadEven(s)[Len(s) + 1] = s[Len(s)]
          /\ \A i \in 1 .. Len(s) : PadEven(s)[i] = s[i]
      BY <2>1, SeqAppend
    <2>3. (Len(s) + 1) % 2 = 0
      BY <1>1, <1>2
    <2> QED BY <2>2, <2>3
  <1>3. CASE Len(s) % 2 # 1
    <2>1. PadEven(s) = s /\ Len(s) % 2 = 0
      BY <1>1, <1>3 DEF PadEven
    <2> QED BY <2>1, <1>1
  <1> QED BY <1>2, <1>3

LEMMA AboveIs ==
  ASSUME NEW s, IsSeq(s), Len(s) > 1
  PROVE  /\ IsSeq(Above(s)) /\ Len(Above(s)) \in 1 .. Len(s) - 1
         /\ 2 * Len(Above(s)) = Len(PadEven(s))
         /\ \A i \in 1 .. Len(Above(s)) : Above(s)[i] = <<PadEven(s)[2 * i - 1], PadEven(s)[2 * i]>>
  <1> DEFINE half == Len(PadEven(s)) \div 2
  <1>1. Len(s) \in Nat /\ Len(PadEven(s)) % 2 = 0 /\ Len(PadEven(s)) \in {Len(s), Len(s) + 1}
    BY SeqHas, PaddedIs
  <1>2. half \in 1 .. Len(s) - 1 /\ half \in Nat /\ 2 * half = Len(PadEven(s))
    BY <1>1
  <1>3. Above(s) = [i \in 1 .. half |-> <<PadEven(s)[2 * i - 1], PadEven(s)[2 * i]>>]
    BY DEF Above, MerkleParent, Sha
  <1> HIDE DEF half
  <1>4. /\ DOMAIN Above(s) = 1 .. half /\ Above(s) = [i \in 1 .. half |-> Above(s)[i]]
        /\ \A i \in 1 .. half : Above(s)[i] = <<PadEven(s)[2 * i - 1], PadEven(s)[2 * i]>>
    BY <1>3
  <1>5. IsSeq(Above(s)) /\ Len(Above(s)) = half
    BY <1>2, <1>4, FnIsSeq
  <1> QED BY <1>2, <1>4, <1>5

LEMMA LevelsExist ==
  ASSUME NEW S, NEW N \in Nat
  PROVE  \E f : f = [n \in 0 .. N |-> IF n = 0 THEN S ELSE Raise(f[n - 1])]
  <1> DEFINE Climbs(n, f) == f = [k \in 0 .. n |-> IF k = 0 THEN S ELSE Raise(f[k - 1])]
             some == {n \in Nat : \E f : Climbs(n, f)}
  <1>1. 0 \in some
    <2> DEFINE f == [k \in 0 .. 0 |-> S]
    <2>1. \A k \in 0 .. 0 : k = 0
      OBVIOUS
    <2>2. Climbs(0, f)
      BY <2>1
    <2> QED BY <2>2
  <1>2. \A n \in 0 .. N - 1 : n \in some => n + 1 \in some
    <2> SUFFICES ASSUME NEW n \in 0 .. N - 1, NEW f, Climbs(n, f) PROVE \E g : Climbs(n + 1, g)
      OBVIOUS
    <2> DEFINE g == [k \in 0 .. n + 1 |-> IF k <= n THEN f[k] ELSE Raise(f[n])]
    <2>1. \A k \in 0 .. n + 1 : g[k] = IF k = 0 THEN S ELSE Raise(g[k - 1])
      <3> TAKE k \in 0 .. n + 1
      <3>1. CASE k = n + 1
        <4>1. k - 1 = n /\ n \in 0 .. n + 1 /\ ~(k <= n) /\ k # 0 /\ n <= n
          BY <3>1
        <4> QED BY <4>1
      <3>2. CASE k # n + 1
        <4>1. k \in 0 .. n /\ k <= n /\ (k # 0 => k - 1 \in 0 .. n + 1 /\ k - 1 <= n)
          BY <3>2
        <4>2. f[k] = IF k = 0 THEN S ELSE Raise(f[k - 1])
          BY <4>1
        <4> QED BY <4>1, <4>2
      <3> QED BY <3>1, <3>2
    <2>2. g = [k \in 0 .. n + 1 |-> g[k]]
      OBVIOUS
    <2>3. Climbs(n + 1, g)
      <3> HIDE DEF g
      <3> QED BY <2>1, <2>2
    <2> QED BY <2>3
  <1>3. N \in some
    <2>1. N \in 0 .. N
      OBVIOUS
    <2> HIDE DEF some
    <2> QED BY <1>1, <1>2, <2>1, GoesOn
  <1> QED BY <1>3

LEMMA LevelsAre ==
  ASSUME NEW S, IsSeq(S)
  PROVE  /\ Levels(S)[0] = S
         /\ \A n \in 0 .. Len(S) - 1 : Levels(S)[n + 1] = Raise(Levels(S)[n])
  <1> DEFINE f == CHOOSE f : f = [n \in 0 .. Len(S) |-> IF n = 0 THEN S ELSE Raise(f[n - 1])]
  <1>1. Len(S) \in Nat
    BY SeqHas
  <1>2. f = [n \in 0 .. Len(S) |-> IF n = 0 THEN S ELSE Raise(f[n - 1])]
    BY <1>1, LevelsExist
  <1>3. Levels(S) = f
    BY DEF Levels
  <1> HIDE DEF f
  <1>4. 0 \in 0 .. Len(S) /\ \A n \in 0 .. Len(S) - 1 : n + 1 \in 0 .. Len(S) /\ n + 1 # 0 /\ (n + 1) - 1 = n
    BY <1>1
  <1>5. \A n \in 0 .. Len(S) - 1 : f[n + 1] = Raise(f[n])
    BY <1>2, <1>4
  <1> QED BY <1>2, <1>3, <1>4, <1>5

LEMMA RaisedIs ==
  ASSUME NEW s, IsSeq(s), Len(s) > 0
  PROVE  /\ IsSeq(Raise(s)) /\ Len(Raise(s)) > 0
         /\ (Len(s) > 1 => Len(Raise(s)) < Len(s))
         /\ (Len(s) = 1 => Len(Raise(s)) = 1)
  <1>1. Len(s) \in Nat
    BY SeqHas
  <1>2. CASE Len(s) > 1
    <2>1. IsSeq(Above(s)) /\ Len(Above(s)) \in 1 .. Len(s) - 1
      BY <1>2, AboveIs
    <2> QED BY <1>1, <1>2, <2>1 DEF Raise
  <1>3. CASE ~(Len(s) > 1)
    BY <1>1, <1>3 DEF Raise
  <1> QED BY <1>2, <1>3

LEMMA LevelLengths ==
  ASSUME NEW S, IsSeq(S), Len(S) > 0, NEW n \in 0 .. Len(S)
  PROVE  /\ IsSeq(Levels(S)[n]) /\ Len(Levels(S)[n]) > 0
         /\ (Len(Levels(S)[n]) = 1 \/ Len(Levels(S)[n]) + n <= Len(S))
  <1> DEFINE L == Levels(S)
             good == {k \in 0 .. Len(S) : /\ IsSeq(L[k]) /\ Len(L[k]) > 0
                                          /\ (Len(L[k]) = 1 \/ Len(L[k]) + k <= Len(S))}
  <1>1. Len(S) \in Nat /\ L[0] = S /\ \A k \in 0 .. Len(S) - 1 : L[k + 1] = Raise(L[k])
    BY SeqHas, LevelsAre
  <1> HIDE DEF L
  <1>2. 0 \in good
    BY <1>1
  <1>3. \A k \in 0 .. Len(S) - 1 : k \in good => k + 1 \in good
    <2> SUFFICES ASSUME NEW k \in 0 .. Len(S) - 1, k \in good PROVE k + 1 \in good
      OBVIOUS
    <2>1. /\ IsSeq(L[k]) /\ Len(L[k]) > 0 /\ Len(L[k]) \in Nat
          /\ (Len(L[k]) = 1 \/ Len(L[k]) + k <= Len(S))
      BY SeqHas
    <2>2. /\ IsSeq(L[k + 1]) /\ Len(L[k + 1]) > 0 /\ Len(L[k + 1]) \in Nat
          /\ (Len(L[k]) > 1 => Len(L[k + 1]) < Len(L[k]))
          /\ (Len(L[k]) = 1 => Len(L[k + 1]) = 1)
      BY <1>1, <2>1, RaisedIs, SeqHas
    <2>3. k + 1 \in 0 .. Len(S)
      BY <1>1
    <2>4. Len(L[k + 1]) = 1 \/ Len(L[k + 1]) + (k + 1) <= Len(S)
      <3>1. CASE Len(L[k]) = 1
        BY <2>2, <3>1
      <3>2. CASE Len(L[k]) > 1
        <4> DEFINE a == Len(L[k])
                   b == Len(L[k + 1])
                   d == Len(S)
        <4>1. a \in Nat /\ b \in Nat /\ d \in Nat /\ k \in Nat /\ a > 1
              /\ (a = 1 \/ a + k <= d) /\ b < a
          BY <1>1, <2>1, <2>2, <3>2
        <4>2. b = 1 \/ b + (k + 1) <= d
          <5> HIDE DEF a, b, d
          <5> QED BY <4>1
        <4> QED BY <4>2
      <3>3. Len(L[k]) = 1 \/ Len(L[k]) > 1
        <4> DEFINE a == Len(L[k])
        <4>1. a \in Nat /\ a > 0
          BY <2>1
        <4>2. a = 1 \/ a > 1
          <5> HIDE DEF a
          <5> QED BY <4>1
        <4> QED BY <4>2
      <3> QED BY <3>3, <3>1, <3>2
    <2> QED BY <2>2, <2>3, <2>4
  <1>4. n \in good
    <2> HIDE DEF good
    <2> QED BY <1>1, <1>2, <1>3, GoesOn
  <1> QED BY <1>4 DEF L

LEMMA HeightIs ==
  ASSUME NEW S, IsSeq(S), Len(S) > 0
  PROVE  /\ Height(S) \in 0 .. Len(S) /\ Len(Levels(S)[Height(S)]) = 1
         /\ \A n \in 0 .. Height(S) - 1 :
              /\ IsSeq(Levels(S)[n]) /\ Len(Levels(S)[n]) > 1
              /\ Levels(S)[n + 1] = Above(Levels(S)[n])
  <1> DEFINE L == Levels(S)
             low == {k \in 0 .. Len(S) : Len(L[k]) <= 1}
             Top(h) == Len(L[h]) <= 1 /\ \A n \in 0 .. h - 1 : Len(L[n]) > 1
  <1>1. Len(S) \in Nat /\ \A k \in 0 .. Len(S) - 1 : L[k + 1] = Raise(L[k])
    BY SeqHas, LevelsAre
  <1>2. \A k \in 0 .. Len(S) : /\ IsSeq(L[k]) /\ Len(L[k]) > 0 /\ Len(L[k]) \in Nat
                              /\ (Len(L[k]) = 1 \/ Len(L[k]) + k <= Len(S))
    BY LevelLengths, SeqHas
  <1>3. Height(S) = CHOOSE h \in 0 .. Len(S) : Top(h)
    BY DEF Height
  <1> HIDE DEF L
  <1>4. low \in SUBSET Nat /\ low # {}
    <2>1. Len(S) \in 0 .. Len(S)
      BY <1>1
    <2>2. Len(L[Len(S)]) \in Nat /\ (Len(L[Len(S)]) = 1 \/ Len(L[Len(S)]) + Len(S) <= Len(S))
      BY <1>2, <2>1
    <2> DEFINE a == Len(L[Len(S)])
               b == Len(S)
    <2>3. a \in Nat /\ b \in Nat /\ (a = 1 \/ a + b <= b)
      BY <1>1, <2>2
    <2>4. a <= 1
      <3> HIDE DEF a, b
      <3> QED BY <2>3
    <2> QED BY <2>1, <2>4
  <1>5. PICK h \in low : \A m \in low : h <= m
    <2> HIDE DEF low
    <2> QED BY <1>4, LeastExists
  <1>6. Top(h)
    <2> SUFFICES ASSUME NEW n \in 0 .. h - 1 PROVE Len(L[n]) > 1
      BY <1>5
    <2>1. n \in 0 .. Len(S) /\ ~(h <= n)
      BY <1>1, <1>5
    <2>2. n \notin low
      BY <1>5, <2>1
    <2> QED BY <1>2, <2>1, <2>2
  <1>7. Height(S) \in 0 .. Len(S) /\ Top(Height(S))
    <2>1. h \in 0 .. Len(S)
      BY <1>5
    <2> HIDE DEF Top
    <2> QED BY <1>3, <1>6, <2>1
  <1>8. Len(L[Height(S)]) = 1
    <2> DEFINE a == Len(L[Height(S)])
    <2>1. a <= 1 /\ a > 0 /\ a \in Nat
      BY <1>2, <1>7
    <2>2. a = 1
      <3> HIDE DEF a
      <3> QED BY <2>1
    <2> QED BY <2>2
  <1>9. ASSUME NEW n \in 0 .. Height(S) - 1
        PROVE  IsSeq(L[n]) /\ Len(L[n]) > 1 /\ L[n + 1] = Above(L[n])
    <2>1. n \in 0 .. Len(S) - 1 /\ n \in 0 .. Len(S)
      BY <1>1, <1>7
    <2>2. IsSeq(L[n]) /\ Len(L[n]) > 1 /\ L[n + 1] = Raise(L[n])
      BY <1>1, <1>2, <1>7, <2>1
    <2> QED BY <2>2 DEF Raise
  <1> QED BY <1>7, <1>8, <1>9 DEF L

LEMMA RootIs ==
  ASSUME NEW S, IsSeq(S), Len(S) > 0
  PROVE  MerkleRoot(S) = Levels(S)[Height(S)][1]
  BY SeqHas DEF MerkleRoot

(* What is joined with a node on the way up, and where.                    *)
LEMMA StepUp ==
  ASSUME NEW s, IsSeq(s), Len(s) > 1, NEW x \in 0 .. Len(s) - 1
  PROVE  /\ x \div 2 \in 0 .. Len(Above(s)) - 1
         /\ Above(s)[x \div 2 + 1] = Join(s[x + 1], Sibling(PadEven(s), x), x)
  <1> DEFINE q == x \div 2
             n == Len(s)
             p == Len(PadEven(s))
             a == Len(Above(s))
  <1>1. /\ n \in Nat /\ n > 1 /\ p \in {n, n + 1} /\ 2 * a = p /\ a \in Nat
        /\ \A i \in 1 .. n : PadEven(s)[i] = s[i]
        /\ \A i \in 1 .. a : Above(s)[i] = <<PadEven(s)[2 * i - 1], PadEven(s)[2 * i]>>
    BY SeqHas, PaddedIs, AboveIs
  <1>2. x \in 0 .. n - 1
    OBVIOUS
  <1> HIDE DEF n, p, a
  <1>3. q \in Nat /\ (x % 2 = 0 => x = 2 * q) /\ (x % 2 # 0 => x = 2 * q + 1)
    BY <1>1, <1>2
  <1>4. x \div 2 = q
    OBVIOUS
  <1> HIDE DEF q
  <1>5. q \in 0 .. a - 1 /\ q + 1 \in 1 .. a /\ x + 1 \in 1 .. n
    BY <1>1, <1>2, <1>3
  <1>6. 2 * (q + 1) - 1 = 2 * q + 1 /\ 2 * (q + 1) = 2 * q + 2
    BY <1>3
  <1>7. Above(s)[q + 1] = <<PadEven(s)[2 * q + 1], PadEven(s)[2 * q + 2]>>
    BY <1>1, <1>5, <1>6
  <1>8. PadEven(s)[x + 1] = s[x + 1]
    BY <1>1, <1>5
  <1>9. CASE x % 2 = 0
    <2>1. x + 1 = 2 * q + 1 /\ x + 2 = 2 * q + 2
      BY <1>2, <1>3, <1>9
    <2>2. Above(s)[q + 1] = <<s[x + 1], PadEven(s)[x + 2]>>
      BY <1>7, <1>8, <2>1
    <2>3. Join(s[x + 1], Sibling(PadEven(s), x), x) = <<s[x + 1], PadEven(s)[x + 2]>>
      BY <1>9 DEF Join, Sibling, MerkleParent, Sha
    <2> QED BY <1>4, <1>5, <2>2, <2>3 DEF a
  <1>10. CASE x % 2 # 0
    <2>1. x = 2 * q + 1 /\ x + 1 = 2 * q + 2
      BY <1>2, <1>3, <1>10
    <2>2. Above(s)[q + 1] = <<PadEven(s)[x], s[x + 1]>>
      BY <1>7, <1>8, <2>1
    <2>3. Join(s[x + 1], Sibling(PadEven(s), x), x) = <<PadEven(s)[x], s[x + 1]>>
      BY <1>10 DEF Join, Sibling, MerkleParent, Sha
    <2> QED BY <1>4, <1>5, <2>2, <2>3 DEF a
  <1> QED BY <1>9, <1>10

LEMMA IndicesExist ==
  ASSUME NEW x, NEW N \in Nat
  PROVE  \E f : f = [n \in 0 .. N |-> IF n = 0 THEN x ELSE f[n - 1] \div 2]
  <1> DEFINE Climbs(n, f) == f = [k \in 0 .. n |-> IF k = 0 THEN x ELSE f[k - 1] \div 2]
             some == {n \in Nat : \E f : Climbs(n, f)}
  <1>1. 0 \in some
    <2> DEFINE f == [k \in 0 .. 0 |-> x]
    <2>1. \A k \in 0 .. 0 : k = 0
      OBVIOUS
    <2>2. Climbs(0, f)
      BY <2>1
    <2> QED BY <2>2
  <1>2. \A n \in 0 .. N - 1 : n \in some => n + 1 \in some
    <2> SUFFICES ASSUME NEW n \in 0 .. N - 1, NEW f, Climbs(n, f) PROVE \E g : Climbs(n + 1, g)
      OBVIOUS
    <2> DEFINE g == [k \in 0 .. n + 1 |-> IF k <= n THEN f[k] ELSE f[n] \div 2]
    <2>1. \A k \in 0 .. n + 1 : g[k] = IF k = 0 THEN x ELSE g[k - 1] \div 2
      <3> TAKE k \in 0 .. n + 1
      <3>1. CASE k = n + 1
        <4>1. k - 1 = n /\ n \in 0 .. n + 1 /\ ~(k <= n) /\ k # 0 /\ n <= n
          BY <3>1
        <4> QED BY <4>1
      <3>2. CASE k # n + 1
        <4>1. k \in 0 .. n /\ k <= n /\ (k # 0 => k - 1 \in 0 .. n + 1 /\ k - 1 <= n)
          BY <3>2
        <4>2. f[k] = IF k = 0 THEN x ELSE f[k - 1] \div 2
          BY <4>1
        <4> QED BY <4>1, <4>2
      <3> QED BY <3>1, <3>2
    <2>2. g = [k \in 0 .. n + 1 |-> g[k]]
      OBVIOUS
    <2>3. Climbs(n + 1, g)
      <3> HIDE DEF g
      <3> QED BY <2>1, <2>2
    <2> QED BY <2>3
  <1>3. N \in some
    <2>1. N \in 0 .. N
      OBVIOUS
    <2> HIDE DEF some
    <2> QED BY <1>1, <1>2, <2>1, GoesOn
  <1> QED BY <1>3

LEMMA IndicesAre ==
  ASSUME NEW x, NEW N \in Nat
  PROVE  /\ Indices(x, N)[0] = x
         /\ \A n \in 0 .. N - 1 : Indices(x, N)[n + 1] = Indices(x, N)[n] \div 2
  <1> DEFINE f == CHOOSE f : f = [n \in 0 .. N |-> IF n = 0 THEN x ELSE f[n - 1] \div 2]
  <1>1. f = [n \in 0 .. N |-> IF n = 0 THEN x ELSE f[n - 1] \div 2]
    BY IndicesExist
  <1>2. Indices(x, N) = f
    BY DEF Indices
  <1> HIDE DEF f
  <1>3. 0 \in 0 .. N /\ \A n \in 0 .. N - 1 : n + 1 \in 0 .. N /\ n + 1 # 0 /\ (n + 1) - 1 = n
    OBVIOUS
  <1>4. \A n \in 0 .. N - 1 : f[n + 1] = f[n] \div 2
    BY <1>1, <1>3
  <1> QED BY <1>1, <1>2, <1>3, <1>4

LEMMA WalkExists ==
  ASSUME NEW leaf, NEW sib, NEW idx, NEW N \in Nat
  PROVE  \E f : f = [n \in 0 .. N |-> IF n = 0 THEN leaf ELSE Join(f[n - 1], sib[n], idx[n - 1])]
  <1> DEFINE Climbs(n, f) ==
               f = [k \in 0 .. n |-> IF k = 0 THEN leaf ELSE Join(f[k - 1], sib[k], idx[k - 1])]
             some == {n \in Nat : \E f : Climbs(n, f)}
  <1>1. 0 \in some
    <2> DEFINE f == [k \in 0 .. 0 |-> leaf]
    <2>1. \A k \in 0 .. 0 : k = 0
      OBVIOUS
    <2>2. Climbs(0, f)
      BY <2>1
    <2> QED BY <2>2
  <1>2. \A n \in 0 .. N - 1 : n \in some => n + 1 \in some
    <2> SUFFICES ASSUME NEW n \in 0 .. N - 1, NEW f, Climbs(n, f) PROVE \E g : Climbs(n + 1, g)
      OBVIOUS
    <2> DEFINE g == [k \in 0 .. n + 1 |-> IF k <= n THEN f[k] ELSE Join(f[n], sib[n + 1], idx[n])]
    <2>1. \A k \in 0 .. n + 1 : g[k] = IF k = 0 THEN leaf ELSE Join(g[k - 1], sib[k], idx[k - 1])
      <3> TAKE k \in 0 .. n + 1
      <3>1. CASE k = n + 1
        <4>1. k - 1 = n /\ n \in 0 .. n + 1 /\ ~(k <= n) /\ k # 0 /\ n <= n
          BY <3>1
        <4> QED BY <3>1, <4>1
      <3>2. CASE k # n + 1
        <4>1. k \in 0 .. n /\ k <= n /\ (k # 0 => k - 1 \in 0 .. n + 1 /\ k - 1 <= n)
          BY <3>2
        <4>2. f[k] = IF k = 0 THEN leaf ELSE Join(f[k - 1], sib[k], idx[k - 1])
          BY <4>1
        <4> QED BY <4>1, <4>2
      <3> QED BY <3>1, <3>2
    <2>2. g = [k \in 0 .. n + 1 |-> g[k]]
      OBVIOUS
    <2>3. Climbs(n + 1, g)
      <3> HIDE DEF g
      <3> QED BY <2>1, <2>2
    <2> QED BY <2>3
  <1>3. N \in some
    <2>1. N \in 0 .. N
      OBVIOUS
    <2> HIDE DEF some
    <2> QED BY <1>1, <1>2, <2>1, GoesOn
  <1> QED BY <1>3

IsWalk(w, leaf, sib, idx, N) ==
  w[0] = leaf /\ \A n \in 0 .. N - 1 : w[n + 1] = Join(w[n], sib[n + 1], idx[n])

LEMMA WalkIs ==
  ASSUME NEW leaf, NEW proof, NEW N \in Nat, Len(proof.siblings) = N
  PROVE  \E w : /\ IsWalk(w, leaf, proof.siblings, Indices(proof.leafIndex, N), N)
                /\ ApplyInclusionProof(leaf, proof) = w[N]
  <1> DEFINE sib == proof.siblings
             idx == Indices(proof.leafIndex, N)
             f == CHOOSE f : f = [n \in 0 .. N |->
                                  IF n = 0 THEN leaf ELSE Join(f[n - 1], sib[n], idx[n - 1])]
  <1>1. f = [n \in 0 .. N |-> IF n = 0 THEN leaf ELSE Join(f[n - 1], sib[n], idx[n - 1])]
    <2> HIDE DEF sib, idx
    <2> QED BY WalkExists
  <1>2. ApplyInclusionProof(leaf, proof) = f[N]
    BY DEF ApplyInclusionProof
  <1>3. N \in Nat
    OBVIOUS
  <1> SUFFICES /\ f[0] = leaf
               /\ \A n \in 0 .. N - 1 : f[n + 1] = Join(f[n], sib[n + 1], idx[n])
    BY <1>2 DEF IsWalk
  <1> HIDE DEF f, idx, sib
  <1>4. 0 \in 0 .. N /\ \A n \in 0 .. N - 1 : n + 1 \in 0 .. N /\ n + 1 # 0 /\ (n + 1) - 1 = n
    BY <1>3
  <1>5. f[0] = leaf
    BY <1>1, <1>4
  <1>6. \A n \in 0 .. N - 1 : f[n + 1] = Join(f[n], sib[n + 1], idx[n])
    BY <1>1, <1>4
  <1> QED BY <1>5, <1>6

(* The path built for a leaf leads to the root, in a log of any size: at   *)
(* every level the walk is at the node the index points to.                *)
LEMMA PathLeadsToRoot ==
  ASSUME NEW S, IsSeq(S), NEW i \in 1 .. Len(S)
  PROVE  /\ ValidInclusionProof(BuildInclusionProof(S, i - 1))
         /\ ApplyInclusionProof(S[i], BuildInclusionProof(S, i - 1)) = MerkleRoot(S)
  <1> DEFINE proof == BuildInclusionProof(S, i - 1)
             H == Height(S)
             L == Levels(S)
             I == Indices(i - 1, H)
             sib == [n \in 1 .. H |-> Sibling(PadEven(L[n - 1]), I[n - 1])]
  <1>1. Len(S) \in Nat /\ Len(S) > 0
    BY SeqHas
  <1>2. /\ H \in Nat /\ Len(L[H]) = 1
        /\ \A n \in 0 .. H - 1 : IsSeq(L[n]) /\ Len(L[n]) > 1 /\ L[n + 1] = Above(L[n])
    <2>1. H \in 0 .. Len(S) /\ Len(L[H]) = 1
      BY <1>1, HeightIs
    <2>2. \A n \in 0 .. H - 1 : IsSeq(L[n]) /\ Len(L[n]) > 1 /\ L[n + 1] = Above(L[n])
      BY <1>1, HeightIs
    <2>3. H \in Nat
      BY <1>1, <2>1
    <2> QED BY <2>1, <2>2, <2>3
  <1>3. L[0] = S
    BY LevelsAre
  <1>4. proof = [leafIndex |-> i - 1, siblings |-> sib]
    BY DEF BuildInclusionProof
  <1>5. MerkleRoot(S) = L[H][1]
    BY <1>1, RootIs
  <1> HIDE DEF L, H
  <1>6. I[0] = i - 1 /\ \A n \in 0 .. H - 1 : I[n + 1] = I[n] \div 2
    BY <1>2, IndicesAre
  <1>7. Len(sib) = H
    <2>1. DOMAIN sib = 1 .. H /\ sib = [n \in 1 .. H |-> sib[n]]
      OBVIOUS
    <2> HIDE DEF sib
    <2> QED BY <1>2, <2>1, FnIsSeq
  <1>8. proof.siblings = sib /\ proof.leafIndex = i - 1 /\ Len(proof.siblings) = H
    <2> HIDE DEF sib, proof
    <2>1. proof.siblings = sib /\ proof.leafIndex = i - 1
      BY <1>4
    <2> QED BY <1>7, <2>1
  <1>9. \A n \in 0 .. H - 1 : sib[n + 1] = Sibling(PadEven(L[n]), I[n])
    <2> SUFFICES ASSUME NEW n \in 0 .. H - 1 PROVE sib[n + 1] = Sibling(PadEven(L[n]), I[n])
      OBVIOUS
    <2>1. n + 1 \in 1 .. H /\ (n + 1) - 1 = n
      BY <1>2
    <2> QED BY <2>1
  <1> HIDE DEF proof, sib
  <1>10. PICK w : /\ w[0] = S[i]
                  /\ \A n \in 0 .. H - 1 : w[n + 1] = Join(w[n], sib[n + 1], I[n])
                  /\ ApplyInclusionProof(S[i], proof) = w[H]
    <2>1. Len(proof.siblings) = H /\ H \in Nat
      BY <1>2, <1>8
    <2>2. \E w : /\ IsWalk(w, S[i], proof.siblings, Indices(proof.leafIndex, H), H)
                 /\ ApplyInclusionProof(S[i], proof) = w[H]
      BY <2>1, WalkIs
    <2>3. Indices(proof.leafIndex, H) = I
      BY <1>8
    <2> HIDE DEF I
    <2> QED BY <1>8, <2>2, <2>3 DEF IsWalk
  <1> HIDE DEF I
  <1> DEFINE good == {n \in 0 .. H : /\ I[n] \in 0 .. Len(L[n]) - 1
                                     /\ w[n] = L[n][I[n] + 1]}
  <1>11. 0 \in good
    <2>1. i - 1 \in 0 .. Len(S) - 1 /\ (i - 1) + 1 = i
      BY <1>1
    <2> QED BY <1>2, <1>3, <1>6, <1>10, <2>1
  <1>12. \A n \in 0 .. H - 1 : n \in good => n + 1 \in good
    <2> SUFFICES ASSUME NEW n \in 0 .. H - 1, n \in good PROVE n + 1 \in good
      OBVIOUS
    <2> DEFINE s == L[n]
               x == I[n]
    <2>1. IsSeq(s) /\ Len(s) > 1 /\ x \in 0 .. Len(s) - 1 /\ w[n] = s[x + 1] /\ L[n + 1] = Above(s)
      BY <1>2
    <2>2. sib[n + 1] = Sibling(PadEven(s), x) /\ I[n + 1] = x \div 2
          /\ w[n + 1] = Join(w[n], sib[n + 1], x)
      BY <1>6, <1>9, <1>10
    <2>3. n + 1 \in 0 .. H
      BY <1>2
    <2> HIDE DEF s, x
    <2>4. /\ x \div 2 \in 0 .. Len(Above(s)) - 1
          /\ Above(s)[x \div 2 + 1] = Join(s[x + 1], Sibling(PadEven(s), x), x)
      BY <2>1, StepUp
    <2>5. I[n + 1] \in 0 .. Len(L[n + 1]) - 1
      BY <2>1, <2>2, <2>4
    <2>6. w[n + 1] = L[n + 1][I[n + 1] + 1]
      BY <2>1, <2>2, <2>4
    <2> QED BY <2>3, <2>5, <2>6
  <1>13. H \in good
    <2>1. H \in 0 .. H
      BY <1>2
    <2> HIDE DEF good
    <2> QED BY <1>2, <1>11, <1>12, <2>1, GoesOn
  <1>14. I[H] = 0 /\ w[H] = L[H][1]
    <2>1. I[H] \in 0 .. Len(L[H]) - 1 /\ w[H] = L[H][I[H] + 1]
      BY <1>13
    <2>2. I[H] = 0
      BY <1>2, <2>1
    <2> QED BY <2>1, <2>2
  <1>15. ValidInclusionProof(proof)
    BY <1>8, <1>14 DEF ValidInclusionProof, I
  <1> QED BY <1>5, <1>10, <1>14, <1>15 DEF proof

-----------------------------------------------------------------------------
(* What the root says of the leaves.                                       *)

(* Every node of a level is half of one of the next.                       *)
LEMMA HalfOfANode ==
  ASSUME NEW a, IsSeq(a), Len(a) > 1, NEW i \in 1 .. Len(a)
  PROVE  \E k \in 1 .. Len(Above(a)) : \E h \in 1 .. 2 : Above(a)[k][h] = a[i]
  <1> DEFINE q == (i - 1) \div 2
             n == Len(a)
             u == Len(Above(a))
  <1>1. /\ n \in Nat /\ u \in Nat /\ 2 * u = Len(PadEven(a)) /\ Len(PadEven(a)) \in {n, n + 1}
        /\ PadEven(a)[i] = a[i]
        /\ \A j \in 1 .. u : Above(a)[j] = <<PadEven(a)[2 * j - 1], PadEven(a)[2 * j]>>
    BY SeqHas, PaddedIs, AboveIs
  <1>2. i \in 1 .. n
    OBVIOUS
  <1> HIDE DEF n, u
  <1>3. i \in Nat /\ q \in Nat /\ (i = 2 * q + 1 \/ i = 2 * q + 2)
    BY <1>1, <1>2
  <1> HIDE DEF q
  <1>4. q + 1 \in 1 .. u
    BY <1>1, <1>2, <1>3
  <1>5. 2 * (q + 1) - 1 = 2 * q + 1 /\ 2 * (q + 1) = 2 * q + 2
    BY <1>3
  <1>6. Above(a)[q + 1] = <<PadEven(a)[2 * q + 1], PadEven(a)[2 * q + 2]>>
    BY <1>1, <1>4, <1>5
  <1>7. Above(a)[q + 1][1] = a[i] \/ Above(a)[q + 1][2] = a[i]
    <2>1. PadEven(a)[i] = a[i]
      BY <1>1
    <2>2. Above(a)[q + 1][1] = PadEven(a)[2 * q + 1] /\ Above(a)[q + 1][2] = PadEven(a)[2 * q + 2]
      BY <1>6
    <2> QED BY <1>3, <2>1, <2>2
  <1> QED BY <1>4, <1>7 DEF u

HalvesAre(u, b) == \A j \in 1 .. Len(u), h \in 1 .. 2 : \E k \in 1 .. Len(b) : u[j][h] = b[k]

LEMMA HalvesAreBelow ==
  ASSUME NEW b, IsSeq(b), Len(b) > 1
  PROVE  HalvesAre(Above(b), b)
  <1> SUFFICES ASSUME NEW j \in 1 .. Len(Above(b)), NEW h \in 1 .. 2
               PROVE  \E k \in 1 .. Len(b) : Above(b)[j][h] = b[k]
    BY DEF HalvesAre
  <1> DEFINE n == Len(b)
             u == Len(Above(b))
             p == Len(PadEven(b))
  <1>1. /\ n \in Nat /\ n > 1 /\ u \in Nat /\ 2 * u = p /\ p \in {n, n + 1}
        /\ \A i \in 1 .. n : PadEven(b)[i] = b[i]
        /\ (p = n + 1 => PadEven(b)[n + 1] = b[n])
        /\ Above(b)[j] = <<PadEven(b)[2 * j - 1], PadEven(b)[2 * j]>>
    <2>1. n \in Nat /\ n > 1
      BY SeqHas
    <2>2. IsSeq(b) /\ Len(b) > 0
      BY <2>1
    <2>3. /\ p \in {n, n + 1}
          /\ \A i \in 1 .. n : PadEven(b)[i] = b[i]
          /\ (p = n + 1 => PadEven(b)[n + 1] = b[n])
      BY <2>2, PaddedIs
    <2>4. u \in 1 .. n - 1 /\ 2 * u = p
          /\ Above(b)[j] = <<PadEven(b)[2 * j - 1], PadEven(b)[2 * j]>>
      BY AboveIs
    <2>5. u \in Nat
      BY <2>1, <2>4
    <2> QED BY <2>1, <2>3, <2>4, <2>5
  <1>2. j \in 1 .. u /\ (h = 1 \/ h = 2)
    OBVIOUS
  <1> HIDE DEF n, u, p
  <1>3. \A x \in 1 .. p : \E k \in 1 .. n : PadEven(b)[x] = b[k]
    <2> TAKE x \in 1 .. p
    <2>1. CASE x \in 1 .. n
      BY <1>1, <2>1
    <2>2. CASE x \notin 1 .. n
      <3>1. x = n + 1 /\ p = n + 1 /\ n \in 1 .. n
        BY <1>1, <2>2
      <3> QED BY <1>1, <3>1
    <2> QED BY <2>1, <2>2
  <1>4. 2 * j - 1 \in 1 .. p /\ 2 * j \in 1 .. p
    BY <1>1, <1>2
  <1>5. Above(b)[j][h] = PadEven(b)[2 * j - 1] \/ Above(b)[j][h] = PadEven(b)[2 * j]
    BY <1>1, <1>2
  <1> QED BY <1>3, <1>4, <1>5 DEF n

Within(a, b) == \A i \in 1 .. Len(a) : \E j \in 1 .. Len(b) : a[i] = b[j]

LEMMA WithinGoesDown ==
  ASSUME NEW a, IsSeq(a), Len(a) > 1, NEW b, IsSeq(b), Len(b) > 1, Within(Above(a), Above(b))
  PROVE  Within(a, b)
  <1> SUFFICES ASSUME NEW i \in 1 .. Len(a) PROVE \E j \in 1 .. Len(b) : a[i] = b[j]
    BY DEF Within
  <1>1. PICK k \in 1 .. Len(Above(a)) : \E h \in 1 .. 2 : Above(a)[k][h] = a[i]
    BY HalfOfANode
  <1>2. PICK h \in 1 .. 2 : Above(a)[k][h] = a[i]
    BY <1>1
  <1>3. PICK j \in 1 .. Len(Above(b)) : Above(a)[k] = Above(b)[j]
    BY DEF Within
  <1>4. \E x \in 1 .. Len(b) : Above(b)[j][h] = b[x]
    <2>1. HalvesAre(Above(b), b)
      BY HalvesAreBelow
    <2> QED BY <2>1 DEF HalvesAre
  <1> QED BY <1>2, <1>3, <1>4

LEMMA SameHeight ==
  ASSUME NEW A, IsSeq(A), Len(A) > 0, NEW B, IsSeq(B), Len(B) > 0,
         Height(A) = Height(B), MerkleRoot(A) = MerkleRoot(B)
  PROVE  Within(A, B)
  <1> DEFINE H == Height(A)
             LA == Levels(A)
             LB == Levels(B)
             good == {k \in 0 .. H : Within(LA[H - k], LB[H - k])}
  <1>1. LA[0] = A /\ LB[0] = B /\ LA[H][1] = LB[H][1]
    BY LevelsAre, RootIs
  <1>2. H \in Nat /\ Len(LA[H]) = 1 /\ Len(LB[H]) = 1
    <2>1. H \in 0 .. Len(A) /\ Len(LA[H]) = 1 /\ Len(LB[H]) = 1
      BY HeightIs
    <2> QED BY <2>1
  <1>3. \A n \in 0 .. H - 1 : IsSeq(LA[n]) /\ Len(LA[n]) > 1 /\ LA[n + 1] = Above(LA[n])
    BY HeightIs
  <1>4. \A n \in 0 .. H - 1 : IsSeq(LB[n]) /\ Len(LB[n]) > 1 /\ LB[n + 1] = Above(LB[n])
    BY HeightIs
  <1> HIDE DEF H, LA, LB
  <1>5. 0 \in good
    <2>1. H - 0 = H /\ 0 \in 0 .. H
      BY <1>2
    <2>2. \A i \in 1 .. 1 : i = 1
      OBVIOUS
    <2>3. Within(LA[H], LB[H])
      BY <1>1, <1>2, <2>2 DEF Within
    <2> QED BY <2>1, <2>3
  <1>6. \A k \in 0 .. H - 1 : k \in good => k + 1 \in good
    <2> SUFFICES ASSUME NEW k \in 0 .. H - 1, k \in good PROVE k + 1 \in good
      OBVIOUS
    <2> DEFINE n == H - (k + 1)
    <2>1. n \in 0 .. H - 1 /\ n + 1 = H - k /\ k + 1 \in 0 .. H
      BY <1>2
    <2>2. Within(LA[H - k], LB[H - k])
      OBVIOUS
    <2> HIDE DEF n
    <2>3. Within(LA[n], LB[n])
      BY <1>3, <1>4, <2>1, <2>2, WithinGoesDown
    <2> QED BY <2>1, <2>3 DEF n
  <1>7. H \in good
    <2>1. H \in 0 .. H
      BY <1>2
    <2> HIDE DEF good
    <2> QED BY <1>2, <1>5, <1>6, <2>1, GoesOn
  <1>8. H - H = 0
    BY <1>2
  <1> QED BY <1>1, <1>7, <1>8

(* The first node of a level is the left half of the first of the next.    *)
LEMMA FirstOfNext ==
  ASSUME NEW S, IsSeq(S), Len(S) > 0, NEW n \in 0 .. Height(S) - 1
  PROVE  \E y : Levels(S)[n + 1][1] = <<Levels(S)[n][1], y>>
  <1> DEFINE s == Levels(S)[n]
  <1>1. IsSeq(s) /\ Len(s) > 1 /\ Levels(S)[n + 1] = Above(s)
    BY HeightIs
  <1> HIDE DEF s
  <1>2. Len(s) \in Nat
    BY <1>1, SeqHas
  <1>3. PadEven(s)[1] = s[1]
    <2>1. 1 \in 1 .. Len(s) /\ Len(s) > 0
      BY <1>1, <1>2
    <2> QED BY <1>1, <2>1, PaddedIs
  <1>4. Above(s)[1] = <<PadEven(s)[1], PadEven(s)[2]>>
    <2>1. Len(Above(s)) \in 1 .. Len(s) - 1
      BY <1>1, AboveIs
    <2>2. 1 \in 1 .. Len(Above(s))
      BY <1>2, <2>1
    <2>3. Above(s)[1] = <<PadEven(s)[2 * 1 - 1], PadEven(s)[2 * 1]>>
      BY <1>1, <2>2, AboveIs
    <2> QED BY <2>3
  <1> QED BY <1>1, <1>3, <1>4 DEF s

(* Two logs with one first statement and one head are of one height: a     *)
(* statement is no node of a tree it is the first statement of.            *)
LEMMA HeadTellsTheHeight ==
  ASSUME NEW A, IsSeq(A), Len(A) > 0, NEW B, IsSeq(B), Len(B) > 0,
         A[1] = B[1], A[1] \in Statements, MerkleRoot(A) = MerkleRoot(B)
  PROVE  ~(Height(A) < Height(B))
  <1> SUFFICES ASSUME Height(A) < Height(B) PROVE FALSE
    OBVIOUS
  <1> DEFINE h == Height(A)
             H == Height(B)
             LA == Levels(A)
             LB == Levels(B)
             good == {k \in 0 .. h : LA[h - k][1] = LB[H - k][1]}
  <1>1. LA[0] = A /\ LB[0] = B /\ LA[h][1] = LB[H][1]
    BY LevelsAre, RootIs
  <1>2. h \in Nat /\ H \in Nat /\ h < H
    <2>1. h \in 0 .. Len(A) /\ H \in 0 .. Len(B)
      BY HeightIs
    <2> QED BY <2>1
  <1>3. \A n \in 0 .. h - 1 : \E y : LA[n + 1][1] = <<LA[n][1], y>>
    BY FirstOfNext
  <1>4. \A n \in 0 .. H - 1 : \E y : LB[n + 1][1] = <<LB[n][1], y>>
    BY FirstOfNext
  <1> HIDE DEF h, H, LA, LB
  <1>5. 0 \in good
    <2>1. h - 0 = h /\ H - 0 = H /\ 0 \in 0 .. h
      BY <1>2
    <2> QED BY <1>1, <2>1
  <1>6. \A k \in 0 .. h - 1 : k \in good => k + 1 \in good
    <2> SUFFICES ASSUME NEW k \in 0 .. h - 1, k \in good PROVE k + 1 \in good
      OBVIOUS
    <2> DEFINE n == h - (k + 1)
               m == H - (k + 1)
    <2>1. n \in 0 .. h - 1 /\ n + 1 = h - k /\ m \in 0 .. H - 1 /\ m + 1 = H - k /\ k + 1 \in 0 .. h
      BY <1>2
    <2>2. LA[h - k][1] = LB[H - k][1]
      OBVIOUS
    <2> HIDE DEF n, m
    <2>3. PICK y : LA[n + 1][1] = <<LA[n][1], y>>
      BY <1>3, <2>1
    <2>4. PICK z : LB[m + 1][1] = <<LB[m][1], z>>
      BY <1>4, <2>1
    <2>5. LA[n][1] = LB[m][1]
      BY <2>1, <2>2, <2>3, <2>4
    <2> QED BY <2>1, <2>5 DEF n, m
  <1>7. h \in good
    <2>1. h \in 0 .. h
      BY <1>2
    <2> HIDE DEF good
    <2> QED BY <1>2, <1>5, <1>6, <2>1, GoesOn
  <1> DEFINE d == H - h - 1
  <1>8. h - h = 0 /\ H - h = d + 1 /\ d \in Nat /\ d \in 0 .. H - 1
    BY <1>2
  <1>9. A[1] = LB[d + 1][1]
    BY <1>1, <1>7, <1>8
  <1> HIDE DEF d
  <1>10. PICK y : A[1] = <<LB[d][1], y>>
    BY <1>4, <1>8, <1>9
  <1>11. PICK x : LB[d][1] = <<x>>
    <2>1. A[1] \notin Plain
      <3> SUFFICES ASSUME NEW a \in Atoms, A[1] = <<a>> PROVE FALSE
        BY DEF Plain, Statement
      <3> QED BY <1>10, TuplesDiffer
    <2>2. A[1] \in Plain \X Plain
      BY <2>1 DEF Statements
    <2>3. LB[d][1] \in Plain
      BY <1>10, <2>2
    <2> QED BY <2>3 DEF Plain, Statement
  <1>12. \E u, v : LB[d][1] = <<u, v>>
    <2>1. CASE d = 0
      BY <1>1, <1>10, <2>1
    <2>2. CASE d # 0
      <3>1. d - 1 \in 0 .. H - 1 /\ (d - 1) + 1 = d
        BY <1>2, <1>8, <2>2
      <3> QED BY <1>4, <3>1
    <2> QED BY <2>1, <2>2
  <1> QED BY <1>11, <1>12, TuplesDiffer

-----------------------------------------------------------------------------
(* What every reachable log is: what was registered are statements, and    *)
(* the receipts name them where they are.                                  *)

LogInv ==
  /\ IsSeq(leaves)
  /\ \A i \in 1 .. Len(leaves) : leaves[i] \in Statements
  /\ \A r \in receipts :
       /\ r.index + 1 \in 1 .. Len(leaves)
       /\ leaves[r.index + 1] = r.statementHash

LEMMA LogInvInit == LogInit => LogInv
  <1> SUFFICES ASSUME LogInit PROVE LogInv
    OBVIOUS
  <1>1. leaves = <<>> /\ receipts = {}
    BY DEF LogInit
  <1>2. IsSeq(<<>>)
    BY DEF IsSeq
  <1>3. Len(<<>>) = 0
    OBVIOUS
  <1>4. \A i \in 1 .. 0 : FALSE
    OBVIOUS
  <1> QED BY <1>1, <1>2, <1>3, <1>4 DEF LogInv

LEMMA LogInvStep == LogInv /\ [LogNext]_logVars => LogInv'
  <1> SUFFICES ASSUME LogInv, [LogNext]_logVars PROVE LogInv'
    OBVIOUS
  <1>1. CASE UNCHANGED logVars
    BY <1>1 DEF LogInv, logVars, IsSeq, Range
  <1>2. CASE LogNext
    <2>1. PICK statement \in Statements :
            /\ leaves' = Append(leaves, statement)
            /\ receipts' = receipts \cup
                 {[statementHash |-> statement, index |-> Len(leaves),
                   treeHead |-> MerkleRoot(Append(leaves, statement)),
                   inclusionProof |-> BuildInclusionProof(Append(leaves, statement), Len(leaves))]}
      BY <1>2 DEF LogNext, Register, Sha, Statements
    <2> DEFINE n == Len(leaves)
               grown == Append(leaves, statement)
    <2>2. /\ IsSeq(grown) /\ Len(grown) = n + 1 /\ grown[n + 1] = statement
          /\ \A i \in 1 .. n : grown[i] = leaves[i]
      BY SeqAppend DEF LogInv
    <2>3. n \in Nat
      BY SeqHas DEF LogInv
    <2>4. leaves' = grown
      BY <2>1
    <2> HIDE DEF grown
    <2>5. IsSeq(leaves)'
      BY <2>2, <2>4 DEF IsSeq, Range
    <2>6. Len(leaves') = n + 1
      BY <2>2, <2>4
    <2>7. \A i \in 1 .. n + 1 : i \in 1 .. n \/ i = n + 1
      BY <2>3
    <2>8. \A i \in 1 .. Len(leaves') : leaves'[i] \in Statements
      BY <2>2, <2>4, <2>6, <2>7 DEF LogInv
    <2>9. ASSUME NEW r \in receipts'
          PROVE  r.index + 1 \in 1 .. Len(leaves') /\ leaves'[r.index + 1] = r.statementHash
      <3>1. CASE r \in receipts
        <4>1. r.index + 1 \in 1 .. n /\ leaves[r.index + 1] = r.statementHash
          BY <3>1 DEF LogInv
        <4>2. r.index + 1 \in 1 .. n + 1
          BY <2>3, <4>1
        <4> QED BY <2>2, <2>4, <2>6, <4>1, <4>2
      <3>2. CASE r \notin receipts
        <4>1. r.index = n /\ r.statementHash = statement
          BY <2>1, <2>9, <3>2
        <4>2. n + 1 \in 1 .. n + 1
          BY <2>3
        <4> QED BY <2>2, <2>4, <2>6, <4>1, <4>2
      <3> QED BY <3>1, <3>2
    <2> QED BY <2>5, <2>8, <2>9 DEF LogInv
  <1> QED BY <1>1, <1>2

LEMMA LogReaches == LogSpec => []LogInv
  BY LogInvInit, LogInvStep, PTL DEF LogSpec

(* Whatever proof is attached to a receipt, of any length and any terms,   *)
(* what it is accepted for was registered at its index: the log has signed *)
(* the hash and the index together.                                        *)
LEMMA AcceptedIsAtItsIndex ==
  ASSUME LogInv
  PROVE  \A r \in receipts : \A candidate, proof :
           VerifyInclusion([r EXCEPT !.inclusionProof = proof], candidate)
           => leaves[r.index + 1] = Sha(candidate)
  <1> SUFFICES ASSUME NEW r \in receipts, NEW candidate, NEW proof,
                      VerifyInclusion([r EXCEPT !.inclusionProof = proof], candidate)
               PROVE  leaves[r.index + 1] = Sha(candidate)
    OBVIOUS
  <1> DEFINE exposed == [r EXCEPT !.inclusionProof = proof]
  <1>1. PICK q \in receipts : Envelope(exposed) = Envelope(q)
    BY DEF VerifyInclusion, VerifyInclusionEnvelope
  <1>2. exposed.statementHash = Sha(candidate)
    BY DEF VerifyInclusion
  <1>3. exposed.index = q.index /\ exposed.statementHash = q.statementHash
    BY <1>1 DEF Envelope
  <1>4. leaves[q.index + 1] = q.statementHash
    BY DEF LogInv
  <1>5. exposed.index = r.index
    OBVIOUS
  <1> QED BY <1>2, <1>3, <1>4, <1>5

(* Every leaf of a log of any size can be proved to be where it is, and no *)
(* receipt, whatever proof is attached to it, is accepted for anything but *)
(* the statement registered at its index (buildInclusionProof,             *)
(* verifyInclusion).                                                       *)
THEOREM LogAnswers == LogSpec => []LogAnswersForItsLeaves
  <1>1. LogInv => LogAnswersForItsLeaves
    <2> SUFFICES ASSUME LogInv PROVE LogAnswersForItsLeaves
      OBVIOUS
    <2>1. EveryLeafIsProvable
      <3> SUFFICES ASSUME NEW i \in 1 .. Len(leaves)
                   PROVE  /\ ValidInclusionProof(BuildInclusionProof(leaves, i - 1))
                          /\ ApplyInclusionProof(leaves[i], BuildInclusionProof(leaves, i - 1))
                             = MerkleRoot(leaves)
        BY DEF EveryLeafIsProvable
      <3> QED BY PathLeadsToRoot DEF LogInv
    <2>2. AcceptedWasRegistered
      BY AcceptedIsAtItsIndex DEF AcceptedWasRegistered
    <2> QED BY <2>1, <2>2 DEF LogAnswersForItsLeaves
  <1> QED BY <1>1, LogReaches, PTL

(* A log of any size has the head it had before only when everything       *)
(* registered since had been registered before: of two logs with one head  *)
(* each node of one, level by level down, is a node of the other; and a    *)
(* statement that is the bytes of a node is no node it is itself a leaf    *)
(* of, so the two trees have one height (merkleRoot, register).            *)
THEOREM HeadsAreDistinct == LogSpec => []HeadsTellTheLogsApart
  <1>1. LogInv => HeadsTellTheLogsApart
    <2> SUFFICES ASSUME LogInv, NEW m \in 1 .. Len(leaves),
                        MerkleRoot(SubSeq(leaves, 1, m)) = MerkleRoot(leaves)
                 PROVE  \A i \in DOMAIN leaves : \E j \in 1 .. m : leaves[i] = leaves[j]
      BY DEF HeadsTellTheLogsApart
    <2> DEFINE P == SubSeq(leaves, 1, m)
               n == Len(leaves)
    <2>1. IsSeq(leaves) /\ n \in Nat /\ DOMAIN leaves = 1 .. n /\ m \in 1 .. n
      BY SeqHas DEF LogInv
    <2>2. IsSeq(P) /\ Len(P) = m /\ \A i \in 1 .. m : P[i] = leaves[i]
      BY <2>1, SeqPrefix
    <2>3. MerkleRoot(P) = MerkleRoot(leaves)
      OBVIOUS
    <2> HIDE DEF P
    <2>4. Len(P) > 0 /\ Len(leaves) > 0 /\ 1 \in 1 .. m /\ 1 \in 1 .. Len(leaves)
      BY <2>1, <2>2
    <2>5. P[1] = leaves[1] /\ leaves[1] \in Statements
      BY <2>2, <2>4 DEF LogInv
    <2>6. ~(Height(P) < Height(leaves))
      BY <2>1, <2>2, <2>3, <2>4, <2>5, HeadTellsTheHeight
    <2>7. ~(Height(leaves) < Height(P))
      BY <2>1, <2>2, <2>3, <2>4, <2>5, HeadTellsTheHeight
    <2>8. Height(P) \in 0 .. Len(P)
      BY <2>2, <2>4, HeightIs
    <2>9. Height(leaves) \in 0 .. Len(leaves)
      BY <2>1, <2>4, HeightIs
    <2>10. Height(leaves) = Height(P)
      BY <2>1, <2>2, <2>6, <2>7, <2>8, <2>9
    <2>11. Within(leaves, P)
      BY <2>1, <2>2, <2>3, <2>4, <2>10, SameHeight
    <2> QED BY <2>1, <2>2, <2>11 DEF Within
  <1> QED BY <1>1, LogReaches, PTL

-----------------------------------------------------------------------------
(* ONE DOCUMENT (SignedDocuments).                                         *)

CoseKinds == {"receipt", "decision", "token", "checkpoint", "manifest"}

IsClaims(k, c) == c = [x \in DOMAIN Table(k) \cup {"unlisted"} |-> c[x]]

(* What the octets of a document say to whoever reads them.                *)
Decoded(k, payload) ==
  IF k = "manifest" THEN ManifestFromCbor(payload) ELSE ReadClaims(Table(k), payload)

(* The claim by which the earlier document differs from those that come.   *)
Mark(k) ==
  CASE k = "checkpoint" -> "epoch" [] IsExtract(k) -> "windowStartMs" [] k = "receipt" -> "nonce"
    [] k = "token" -> "nonce" [] k = "decision" -> "requestHash" [] k = "manifest" -> "description"
MarkOfBase(k) ==
  CASE k = "checkpoint" -> "n1" [] IsExtract(k) -> "n0" [] k = "receipt" -> "long"
    [] k = "token" -> "a" [] k = "decision" -> "h1" [] k = "manifest" -> "a"
MarkOfEarlier(k) ==
  CASE k = "checkpoint" -> "n2" [] IsExtract(k) -> "minus" [] k = "receipt" -> "long2"
    [] k = "token" -> "b" [] k = "decision" -> "h2" [] k = "manifest" -> "b"

EarlierClaims(k) == [(CHOOSE b \in Bases[k] : TRUE) EXCEPT ![Mark(k)] = MarkOfEarlier(k)]

LEMMA KindsAre == \A k \in Kinds : (k \in CoseKinds) = ~IsExtract(k)
  BY DEF Kinds, CoseKinds, IsExtract

LEMMA Marks ==
  ASSUME NEW k \in Kinds
  PROVE  /\ Mark(k) \in DOMAIN Table(k) /\ "unlisted" \notin DOMAIN Table(k)
         /\ MarkOfBase(k) # MarkOfEarlier(k) /\ Mark(k) # "unlisted"
  <1>1. CASE k = "receipt"
    BY <1>1 DEF Mark, MarkOfBase, MarkOfEarlier, IsExtract, Table, ReceiptClaims
  <1>2. CASE k = "decision"
    BY <1>2 DEF Mark, MarkOfBase, MarkOfEarlier, IsExtract, Table, DecisionRecordClaims
  <1>3. CASE k = "token"
    BY <1>3 DEF Mark, MarkOfBase, MarkOfEarlier, IsExtract, Table, DecisionTokenClaims
  <1>4. CASE k = "checkpoint"
    BY <1>4 DEF Mark, MarkOfBase, MarkOfEarlier, IsExtract, Table, CheckpointClaimTypes
  <1>5. CASE k = "manifest"
    BY <1>5 DEF Mark, MarkOfBase, MarkOfEarlier, IsExtract, Table, ManifestClaims
  <1>6. CASE k = "rail"
    BY <1>6 DEF Mark, MarkOfBase, MarkOfEarlier, IsExtract, Table, RailBody
  <1>7. CASE k = "effect"
    BY <1>7 DEF Mark, MarkOfBase, MarkOfEarlier, IsExtract, Table, EffectBody
  <1> QED BY <1>1, <1>2, <1>3, <1>4, <1>5, <1>6, <1>7 DEF Kinds

LEMMA WithIs ==
  ASSUME NEW k, NEW changes
  PROVE  /\ IsClaims(k, With(k, changes))
         /\ \A x \in DOMAIN Table(k) \cup {"unlisted"} :
              With(k, changes)[x] = IF x \in DOMAIN changes THEN changes[x] ELSE "absent"
  BY DEF With, IsClaims

IsBase(k, b) ==
  IsClaims(k, b) /\ b["unlisted"] = "absent" /\ b[Mark(k)] = MarkOfBase(k)

LEMMA BaseClaims ==
  ASSUME NEW k \in Kinds
  PROVE  /\ Bases[k] = BasesOf(k) /\ BasesOf(k) # {}
         /\ \A b \in BasesOf(k) : IsBase(k, b)
  <1>0. Bases[k] = BasesOf(k)
    BY DEF Bases
  <1> DEFINE Marked(changes) ==
        "unlisted" \notin DOMAIN changes /\ Mark(k) \in DOMAIN changes /\ changes[Mark(k)] = MarkOfBase(k)
  <1>00. \A changes : Marked(changes) => IsBase(k, With(k, changes))
    <2> SUFFICES ASSUME NEW changes, Marked(changes) PROVE IsBase(k, With(k, changes))
      OBVIOUS
    <2>1. /\ IsClaims(k, With(k, changes))
          /\ \A x \in DOMAIN Table(k) \cup {"unlisted"} :
               With(k, changes)[x] = IF x \in DOMAIN changes THEN changes[x] ELSE "absent"
      BY WithIs
    <2> QED BY <2>1, Marks DEF IsBase
  <1> SUFFICES BasesOf(k) # {} /\ \A b \in BasesOf(k) : \E changes : b = With(k, changes) /\ Marked(changes)
    BY <1>0, <1>00
  <1>1. CASE k = "receipt"
    BY <1>1 DEF BasesOf, Mark, MarkOfBase, IsExtract
  <1>2. CASE k = "decision"
    BY <1>2 DEF BasesOf, Mark, MarkOfBase, IsExtract
  <1>3. CASE k = "token"
    BY <1>3 DEF BasesOf, Mark, MarkOfBase, IsExtract
  <1>4. CASE k = "checkpoint"
    BY <1>4 DEF BasesOf, Mark, MarkOfBase, IsExtract
  <1>5. CASE k = "manifest"
    BY <1>5 DEF BasesOf, Mark, MarkOfBase, IsExtract
  <1>6. CASE k = "rail"
    BY <1>6 DEF BasesOf, Mark, MarkOfBase, IsExtract
  <1>7. CASE k = "effect"
    BY <1>7 DEF BasesOf, Mark, MarkOfBase, IsExtract
  <1> QED BY <1>1, <1>2, <1>3, <1>4, <1>5, <1>6, <1>7 DEF Kinds

LEMMA BaseManifests ==
  \A b \in BasesOf("manifest") : b["ap2MandateHash"] \in {"absent", "h1"} /\ b["payee"] \in {"absent", "a"}
  <1> DEFINE Fine(changes) ==
        /\ "ap2MandateHash" \in DOMAIN changes => changes["ap2MandateHash"] = "h1"
        /\ "payee" \in DOMAIN changes => changes["payee"] = "a"
  <1>1. \A b \in BasesOf("manifest") : \E changes : b = With("manifest", changes) /\ Fine(changes)
    BY DEF BasesOf
  <1>2. ASSUME NEW changes, Fine(changes)
        PROVE  /\ With("manifest", changes)["ap2MandateHash"] \in {"absent", "h1"}
               /\ With("manifest", changes)["payee"] \in {"absent", "a"}
    <2>1. "payee" \in DOMAIN Table("manifest") /\ "ap2MandateHash" \in DOMAIN Table("manifest")
      BY DEF Table, ManifestClaims
    <2> QED BY <1>2, <2>1, WithIs
  <1> QED BY <1>1, <1>2

OneChangeOf(k, base, claims) ==
  \/ claims = [base EXCEPT !["unlisted"] = "a"]
  \/ \E x \in DOMAIN Table(k) : \E v : claims = [base EXCEPT ![x] = v]

LEMMA ChangedIs ==
  ASSUME NEW k \in Kinds, NEW base, IsClaims(k, base), NEW claims \in OneChanged(k, base)
  PROVE  IsClaims(k, claims) /\ OneChangeOf(k, base, claims)
  <1>1. OneChangeOf(k, base, claims)
    BY DEF OneChangeOf, OneChanged
  <1>2. CASE claims = [base EXCEPT !["unlisted"] = "a"]
    BY <1>1, <1>2 DEF IsClaims
  <1>3. CASE \E x \in DOMAIN Table(k) : \E v : claims = [base EXCEPT ![x] = v]
    <2>1. PICK x \in DOMAIN Table(k) : \E v : claims = [base EXCEPT ![x] = v]
      BY <1>3
    <2>2. PICK v : claims = [base EXCEPT ![x] = v]
      BY <2>1
    <2>3. IsClaims(k, claims)
      BY <2>2 DEF IsClaims
    <2> QED BY <1>1, <2>3
  <1> QED BY <1>1, <1>2, <1>3 DEF OneChangeOf

LEMMA VariantIs ==
  ASSUME NEW k \in Kinds, NEW claims \in Variants[k]
  PROVE  IsClaims(k, claims) /\ \E base \in BasesOf(k) : OneChangeOf(k, base, claims)
  <1>1. PICK base \in BasesOf(k) : claims \in OneChanged(k, base)
    BY DEF Variants
  <1>2. IsClaims(k, base)
    BY BaseClaims DEF IsBase
  <1> QED BY <1>1, <1>2, ChangedIs

LEMMA EarlierIs ==
  ASSUME NEW k \in Kinds
  PROVE  /\ IsClaims(k, EarlierClaims(k)) /\ EarlierClaims(k)["unlisted"] = "absent"
         /\ EarlierClaims(k)[Mark(k)] = MarkOfEarlier(k)
         /\ k = "manifest" => /\ EarlierClaims(k)["ap2MandateHash"] \in {"absent", "h1"}
                              /\ EarlierClaims(k)["payee"] \in {"absent", "a"}
  <1> DEFINE b == CHOOSE b \in Bases[k] : TRUE
  <1>1. b \in BasesOf(k) /\ IsBase(k, b)
    BY BaseClaims
  <1>2. EarlierClaims(k) = [b EXCEPT ![Mark(k)] = MarkOfEarlier(k)]
    BY DEF EarlierClaims
  <1> HIDE DEF b
  <1>3. Mark(k) \in DOMAIN Table(k) /\ Mark(k) # "unlisted"
    BY Marks
  <1>4. /\ IsClaims(k, EarlierClaims(k)) /\ EarlierClaims(k)["unlisted"] = "absent"
        /\ EarlierClaims(k)[Mark(k)] = MarkOfEarlier(k)
    BY <1>1, <1>2, <1>3 DEF IsBase, IsClaims
  <1>5. ASSUME k = "manifest"
        PROVE  /\ EarlierClaims(k)["ap2MandateHash"] \in {"absent", "h1"}
               /\ EarlierClaims(k)["payee"] \in {"absent", "a"}
    <2>1. Mark(k) = "description"
      BY <1>5 DEF Mark, IsExtract
    <2>2. b["ap2MandateHash"] \in {"absent", "h1"} /\ b["payee"] \in {"absent", "a"}
      BY <1>1, <1>5, BaseManifests
    <2>3. "payee" \in DOMAIN Table(k) /\ "ap2MandateHash" \in DOMAIN Table(k)
      BY <1>5 DEF Table, ManifestClaims
    <2> QED BY <1>1, <1>2, <2>1, <2>2, <2>3 DEF IsBase, IsClaims
  <1> QED BY <1>4, <1>5

-----------------------------------------------------------------------------
(* What the signers return.                                                *)

SignedTerm(k, by, payload) == <<by, SigStructure(ProtectedHeader(ContentType(k), by), payload)>>

CoseDoc(k, by, claims, payload) ==
  [claims |-> claims,
   signature |-> IF k \in {"receipt", "manifest"} THEN Base64(SignedTerm(k, by, payload)) ELSE Missing,
   publicKeyPem |-> Pem(by), encoding |-> "cose",
   coseHex |-> Hex(Message(ProtectedHeader(ContentType(k), by), payload, SignedTerm(k, by, payload))),
   counterCoseHex |-> Missing, payeePublicKeyPem |-> Missing, unlisted |-> Missing]

JsonDoc(by, claims) ==
  [claims |-> claims, signature |-> Base64(<<by, claims>>), publicKeyPem |-> Pem(by),
   encoding |-> "json", coseHex |-> Missing, counterCoseHex |-> Missing,
   payeePublicKeyPem |-> Missing, unlisted |-> Missing]

ExtractDoc(by, claims) ==
  [claims |-> claims, signature |-> Base64(<<by, claims>>), publicKeyPem |-> Pem(by),
   encoding |-> "missing", coseHex |-> Missing, counterCoseHex |-> Missing,
   payeePublicKeyPem |-> Missing, unlisted |-> Missing]

PackagePayload(k, claims) == IF k = "manifest" THEN ManifestToCbor(claims) ELSE {Payload(claims)}

LEMMA PackageSigns ==
  ASSUME NEW k \in CoseKinds, NEW claims, NEW key, NEW doc \in Sign(k, claims, key)
  PROVE  key \in Ed25519Keys /\ \E payload \in PackagePayload(k, claims) : doc = CoseDoc(k, key, claims, payload)
  <1> DEFINE M(payload) == Message(ProtectedHeader(ContentType(k), key), payload, SignedTerm(k, key, payload))
  <1>0. \A payload : SignCoseSign1(payload, key, ContentType(k)) = IF key \in Ed25519Keys THEN {M(payload)} ELSE {}
    BY DEF SignCoseSign1, When, CanSign, SignedTerm
  <1>00. k # "rail" /\ k # "effect"
    BY DEF CoseKinds
  <1> HIDE DEF M
  <1>1. CASE k = "receipt"
    <2>1. doc \in SignReceiptUnchecked(claims, key)
      BY <1>1 DEF Sign, SignReceiptCose
    <2>2. PICK payload \in ClaimsToCbor(claims) : \E octets \in SignCoseSign1(payload, key, ContentType(k)) :
             doc = WithSignature(Presented(claims, key, octets), octets.signature)
      BY <1>1, <2>1 DEF SignReceiptUnchecked, ContentType
    <2>3. key \in Ed25519Keys /\ doc = WithSignature(Presented(claims, key, M(payload)), M(payload).signature)
      BY <1>0, <2>2
    <2>4. doc = CoseDoc(k, key, claims, payload)
      BY <1>1, <2>3 DEF CoseDoc, WithSignature, Presented, M, Message
    <2>5. payload \in PackagePayload(k, claims)
      BY <1>1, <2>2 DEF ClaimsToCbor, When, PackagePayload
    <2> QED BY <2>3, <2>4, <2>5
  <1>2. CASE k = "manifest"
    <2>2. PICK payload \in ManifestToCbor(claims) : \E octets \in SignCoseSign1(payload, key, ContentType(k)) :
             doc = WithSignature(Presented(claims, key, octets), octets.signature)
      BY <1>2 DEF Sign, SignManifest, ContentType
    <2>3. key \in Ed25519Keys /\ doc = WithSignature(Presented(claims, key, M(payload)), M(payload).signature)
      BY <1>0, <2>2
    <2>4. doc = CoseDoc(k, key, claims, payload)
      BY <1>2, <2>3 DEF CoseDoc, WithSignature, Presented, M, Message
    <2>5. payload \in PackagePayload(k, claims)
      BY <1>2, <2>2 DEF PackagePayload
    <2> QED BY <2>3, <2>4, <2>5
  <1>3. CASE k \in {"decision", "token", "checkpoint"}
    <2>1. doc \in SignAs(claims, {}, key, ContentType(k))
      BY <1>3 DEF Sign, SignDecisionRecord, SignDecisionToken, SignCheckpoint, ContentType
    <2>2. \E octets \in SignCoseSign1(Payload(claims), key, ContentType(k)) : doc = Presented(claims, key, octets)
      BY <2>1 DEF SignAs, When
    <2>3. key \in Ed25519Keys /\ doc = Presented(claims, key, M(Payload(claims)))
      BY <1>0, <2>2
    <2>4. doc = CoseDoc(k, key, claims, Payload(claims))
      BY <1>3, <2>3 DEF CoseDoc, Presented, M
    <2>5. Payload(claims) \in PackagePayload(k, claims)
      BY <1>3 DEF PackagePayload
    <2> QED BY <2>3, <2>4, <2>5
  <1> QED BY <1>1, <1>2, <1>3 DEF CoseKinds

LEMMA OwnSigns ==
  ASSUME NEW k \in CoseKinds, NEW claims, IsClaims(k, claims), NEW key, NEW doc \in SignOwn(k, claims, key)
  PROVE  \E payload, seen : /\ doc = CoseDoc(k, key, seen, payload) /\ IsClaims(k, seen)
                            /\ \A c \in Decoded(k, payload) : c = seen
                            /\ \/ seen = claims
                               \/ seen \in Decoded(k, payload)
  <1> DEFINE payload == [fault |-> None, claims |-> claims]
             octets == Message(ProtectedHeader(ContentType(k), key), payload, SignedTerm(k, key, payload))
             read == Decoded(k, payload)
             seen == IF read = {} THEN claims ELSE CHOOSE c \in read : TRUE
  <1>1. ~IsExtract(k)
    BY DEF CoseKinds, IsExtract
  <1>2. (IF HasForm(k) THEN DecodeClaims(FormKind[k], payload) ELSE DecisionTokenFromCbor(payload)) = read
    BY DEF CoseKinds, HasForm, FormKind, DecodeClaims, Decoded, Table, ClaimsFromCbor,
           DecisionRecordFromCbor, CheckpointFromCbor, DecisionTokenFromCbor
  <1>3. doc = IF k \in {"receipt", "manifest"} THEN WithSignature(Presented(seen, key, octets), SignedTerm(k, key, payload))
              ELSE Presented(seen, key, octets)
    BY <1>1, <1>2 DEF SignOwn, When, SignedTerm
  <1>4. doc = CoseDoc(k, key, seen, payload)
    <2> HIDE DEF seen, payload
    <2> QED BY <1>3 DEF CoseDoc, Presented, WithSignature
  <1>5. \A c, e \in read : c = e
    BY DEF Decoded, ManifestFromCbor, ReadClaims, When
  <1>6. \A c \in read : IsClaims(k, c)
    <2> SUFFICES ASSUME NEW c \in read PROVE IsClaims(k, c)
      OBVIOUS
    <2>1. CASE k # "manifest"
      <3>1. c = [claims EXCEPT !["unlisted"] = "absent"]
        BY <2>1 DEF Decoded, ReadClaims, When
      <3> QED BY <3>1 DEF IsClaims
    <2>2. CASE k = "manifest"
      <3>1. PICK e \in ReadClaims(ManifestClaims, payload) :
              c = [e EXCEPT !.ap2MandateHash = IF @ = "null" THEN "absent" ELSE @]
        BY <2>2 DEF Decoded, ManifestFromCbor
      <3>2. e = [claims EXCEPT !["unlisted"] = "absent"]
        BY <3>1 DEF ReadClaims, When
      <3> QED BY <3>1, <3>2 DEF IsClaims
    <2> QED BY <2>1, <2>2
  <1> HIDE DEF read
  <1>7. IsClaims(k, seen) /\ (seen = claims \/ seen \in read) /\ \A c \in read : c = seen
    BY <1>5, <1>6
  <1> QED BY <1>4, <1>7 DEF read

LEMMA JsonSigns ==
  ASSUME NEW claims, NEW key, NEW doc \in SignReceiptJson(claims, key)
  PROVE  key \in Ed25519Keys /\ doc = JsonDoc(key, claims)
  BY DEF SignReceiptJson, When, CanSign, WithSignature, Presented, JsonDoc

LEMMA ExtractIs == \A claims, key : Extract(claims, key) = ExtractDoc(key, claims)
  <1> SUFFICES ASSUME NEW claims, NEW key PROVE Extract(claims, key) = ExtractDoc(key, claims)
    OBVIOUS
  <1> DEFINE hex == Hex(None)
             signature == Base64(<<key, claims>>)
             pem == Pem(key)
             m == Missing
  <1>1. Extract(claims, key) =
          [[claims |-> claims, signature |-> m, publicKeyPem |-> pem, encoding |-> "cose", coseHex |-> hex,
            counterCoseHex |-> m, payeePublicKeyPem |-> m, unlisted |-> m]
           EXCEPT !.signature = signature, !.encoding = "missing", !.coseHex = m]
    BY DEF Extract, Presented
  <1>2. ExtractDoc(key, claims) =
          [claims |-> claims, signature |-> signature, publicKeyPem |-> pem, encoding |-> "missing",
           coseHex |-> m, counterCoseHex |-> m, payeePublicKeyPem |-> m, unlisted |-> m]
    BY DEF ExtractDoc
  <1> HIDE DEF hex, signature, pem, m
  <1> QED BY <1>1, <1>2

LEMMA ExtractSigns ==
  ASSUME NEW k \in {"rail", "effect"}, NEW claims, NEW key, NEW doc \in Sign(k, claims, key)
  PROVE  key \in Ed25519Keys /\ doc = ExtractDoc(key, claims)
  BY ExtractIs DEF Sign, SignRailExtract, SignEffectExtract, When, CanSign

LEMMA OwnExtractSigns ==
  ASSUME NEW k \in {"rail", "effect"}, NEW claims, NEW key, NEW doc \in SignOwn(k, claims, key)
  PROVE  doc = ExtractDoc(key, claims)
  <1>1. IsExtract(k)
    BY DEF IsExtract
  <1> QED BY <1>1, ExtractIs DEF SignOwn, When

-----------------------------------------------------------------------------
(* What the octets of the package's signers decode to.                     *)

LEMMA PackageDecodes ==
  ASSUME NEW k \in CoseKinds, NEW claims, IsClaims(k, claims),
         NEW payload \in PackagePayload(k, claims), NEW c \in Decoded(k, payload)
  PROVE  /\ IsClaims(k, c) /\ c["unlisted"] = "absent"
         /\ \A x \in DOMAIN Table(k) :
              \/ c[x] = claims[x]
              \/ k = "manifest" /\ x = "ap2MandateHash" /\ claims[x] = "null"
              \/ k = "manifest" /\ x = "payee" /\ claims[x] \notin Optional(Texts)
  <1>1. CASE k # "manifest"
    <2>1. payload = Payload(claims)
      BY <1>1 DEF PackagePayload
    <2>2. c = [[claims EXCEPT !["unlisted"] = "absent"] EXCEPT !["unlisted"] = "absent"]
      BY <1>1, <2>1 DEF Decoded, ReadClaims, When, Payload
    <2>3. k \in Kinds
      BY DEF CoseKinds, Kinds
    <2>4. "unlisted" \notin DOMAIN Table(k)
      BY <2>3, Marks
    <2>5. IsClaims(k, c) /\ c["unlisted"] = "absent"
      BY <2>2 DEF IsClaims
    <2>6. \A x \in DOMAIN Table(k) : c[x] = claims[x]
      BY <2>2, <2>4 DEF IsClaims
    <2> QED BY <2>5, <2>6
  <1>2. CASE k = "manifest"
    <2> DEFINE written == [claims EXCEPT
                    !.ap2MandateHash = IF @ = "absent" THEN "null" ELSE @,
                    !.payee = IF @ \in Texts \cup {"surrogate"} THEN @ ELSE "absent"]
    <2>1. payload = Payload(written)
      BY <1>2 DEF PackagePayload, ManifestToCbor, When
    <2>2. PICK e \in ReadClaims(ManifestClaims, payload) :
            c = [e EXCEPT !.ap2MandateHash = IF @ = "null" THEN "absent" ELSE @]
      BY <1>2 DEF Decoded, ManifestFromCbor
    <2>3. e = [[written EXCEPT !["unlisted"] = "absent"] EXCEPT !["unlisted"] = "absent"]
      BY <2>1, <2>2 DEF ReadClaims, When, Payload
    <2>4. DOMAIN Table(k) = {"description", "amount", "acceptanceCriteriaHash", "expiresAtMs", "ap2MandateHash", "payee"}
      BY <1>2 DEF Table, ManifestClaims
    <2>5. IsClaims(k, c) /\ c["unlisted"] = "absent"
      BY <2>2, <2>3, <2>4 DEF IsClaims
    <2>6. /\ c["ap2MandateHash"] = claims["ap2MandateHash"] \/ claims["ap2MandateHash"] = "null"
          /\ c["payee"] = claims["payee"] \/ claims["payee"] \notin Optional(Texts)
      BY <2>2, <2>3, <2>4 DEF IsClaims, Texts, Optional
    <2>7. \A x \in DOMAIN Table(k) \ {"ap2MandateHash", "payee"} : c[x] = claims[x]
      BY <2>2, <2>3, <2>4 DEF IsClaims
    <2>8. ASSUME NEW x \in DOMAIN Table(k)
          PROVE  \/ c[x] = claims[x]
                 \/ k = "manifest" /\ x = "ap2MandateHash" /\ claims[x] = "null"
                 \/ k = "manifest" /\ x = "payee" /\ claims[x] \notin Optional(Texts)
      <3>1. CASE x \in DOMAIN Table(k) \ {"ap2MandateHash", "payee"}
        BY <3>1, <2>7
      <3>2. CASE x = "ap2MandateHash"
        BY <1>2, <2>6, <3>2
      <3>3. CASE x = "payee"
        BY <1>2, <2>6, <3>3
      <3> QED BY <3>1, <3>2, <3>3
    <2> QED BY <2>5, <2>8
  <1> QED BY <1>1, <1>2

(* Two sets of claims that say the same are the same.                      *)
LEMMA SameClaims ==
  ASSUME NEW k, NEW c, IsClaims(k, c), NEW e, IsClaims(k, e),
         c["unlisted"] = e["unlisted"], \A x \in DOMAIN Table(k) : c[x] = e[x]
  PROVE  c = e
  BY DEF IsClaims

(* Claims that octets say as they are said beside them.                    *)
Plainly(k, c) ==
  /\ c["unlisted"] = "absent"
  /\ k = "manifest" => c["ap2MandateHash"] # "null"
  /\ k = "manifest" => c["payee"] \in Optional(Texts)

LEMMA PlainDecodes ==
  ASSUME NEW k \in CoseKinds, NEW claims, IsClaims(k, claims), Plainly(k, claims),
         NEW payload \in PackagePayload(k, claims), NEW c \in Decoded(k, payload)
  PROVE  c = claims
  <1>1. /\ IsClaims(k, c) /\ c["unlisted"] = "absent"
        /\ \A x \in DOMAIN Table(k) :
              \/ c[x] = claims[x]
              \/ k = "manifest" /\ x = "ap2MandateHash" /\ claims[x] = "null"
              \/ k = "manifest" /\ x = "payee" /\ claims[x] \notin Optional(Texts)
    BY PackageDecodes
  <1>2. \A x \in DOMAIN Table(k) : c[x] = claims[x]
    BY <1>1 DEF Plainly
  <1>3. c["unlisted"] = claims["unlisted"]
    BY <1>1 DEF Plainly
  <1> QED BY <1>1, <1>2, <1>3, SameClaims

LEMMA BasesPlain ==
  ASSUME NEW k \in Kinds, NEW b \in BasesOf(k)
  PROVE  IsClaims(k, b) /\ Plainly(k, b) /\ b[Mark(k)] = MarkOfBase(k)
  <1>1. IsClaims(k, b) /\ b["unlisted"] = "absent" /\ b[Mark(k)] = MarkOfBase(k)
    BY BaseClaims DEF IsBase
  <1>2. k = "manifest" => b["ap2MandateHash"] \in {"absent", "h1"} /\ b["payee"] \in {"absent", "a"}
    BY BaseManifests
  <1> QED BY <1>1, <1>2 DEF Plainly, Optional, Texts

LEMMA EarlierPlain ==
  ASSUME NEW k \in Kinds
  PROVE  IsClaims(k, EarlierClaims(k)) /\ Plainly(k, EarlierClaims(k))
  BY EarlierIs DEF Plainly, Optional, Texts

(* What a reader makes of a document is what it says, or shows by its mark *)
(* that it is not the earlier one's.                                       *)
Tells(k, claims, payload) ==
  \A c \in Decoded(k, payload) :
    c = claims \/ (claims \notin Bases[k] /\ c[Mark(k)] = MarkOfBase(k))

LEMMA VariantTells ==
  ASSUME NEW k \in CoseKinds, NEW claims \in Variants[k], NEW payload \in PackagePayload(k, claims)
  PROVE  Tells(k, claims, payload)
  <1> SUFFICES ASSUME NEW c \in Decoded(k, payload), c # claims
               PROVE  claims \notin Bases[k] /\ c[Mark(k)] = MarkOfBase(k)
    BY DEF Tells
  <1>1. k \in Kinds /\ Bases[k] = BasesOf(k)
    BY BaseClaims DEF CoseKinds, Kinds
  <1>2. IsClaims(k, claims)
    BY <1>1, VariantIs
  <1>3. PICK base \in BasesOf(k) : OneChangeOf(k, base, claims)
    BY <1>1, VariantIs
  <1>4. IsClaims(k, base) /\ Plainly(k, base) /\ base[Mark(k)] = MarkOfBase(k)
    BY <1>1, BasesPlain
  <1>5. ~Plainly(k, claims)
    BY <1>2, PlainDecodes
  <1>6. claims \notin Bases[k]
    BY <1>1, <1>5, BasesPlain
  <1>7. Mark(k) \in DOMAIN Table(k) /\ Mark(k) # "unlisted" /\ "unlisted" \notin DOMAIN Table(k)
    BY <1>1, Marks
  <1>8. k = "manifest" => /\ Mark(k) = "description"
                         /\ "payee" \in DOMAIN Table(k) /\ "ap2MandateHash" \in DOMAIN Table(k)
    BY DEF Mark, IsExtract, Table, ManifestClaims
  <1>9. c[Mark(k)] = claims[Mark(k)]
    BY <1>2, <1>7, <1>8, PackageDecodes
  <1>10. claims[Mark(k)] = base[Mark(k)]
    <2>1. CASE claims = [base EXCEPT !["unlisted"] = "a"]
      BY <1>4, <1>7, <2>1 DEF IsClaims
    <2>2. CASE \E x \in DOMAIN Table(k) : \E v : claims = [base EXCEPT ![x] = v]
      <3>1. PICK x \in DOMAIN Table(k) : \E v : claims = [base EXCEPT ![x] = v]
        BY <2>2
      <3>2. PICK v : claims = [base EXCEPT ![x] = v]
        BY <3>1
      <3>3. x # Mark(k)
        <4> SUFFICES ASSUME x = Mark(k) PROVE FALSE
          OBVIOUS
        <4>1. \A y \in DOMAIN Table(k) \cup {"unlisted"} : y # x => claims[y] = base[y]
          BY <1>4, <3>2 DEF IsClaims
        <4>2. claims["unlisted"] = base["unlisted"]
          BY <1>7, <4>1
        <4>3. k = "manifest" => claims["ap2MandateHash"] = base["ap2MandateHash"] /\ claims["payee"] = base["payee"]
          BY <1>8, <4>1
        <4> QED BY <1>4, <1>5, <4>2, <4>3 DEF Plainly
      <3> QED BY <1>4, <1>7, <3>2, <3>3 DEF IsClaims
    <2> QED BY <1>3, <2>1, <2>2 DEF OneChangeOf
  <1> QED BY <1>4, <1>6, <1>9, <1>10

LEMMA EarlierTells ==
  ASSUME NEW k \in CoseKinds, NEW payload \in PackagePayload(k, EarlierClaims(k)),
         NEW c \in Decoded(k, payload)
  PROVE  c = EarlierClaims(k)
  <1>1. k \in Kinds
    BY DEF CoseKinds, Kinds
  <1> QED BY <1>1, EarlierPlain, PlainDecodes

-----------------------------------------------------------------------------
(* What it takes to be accepted under a key.                               *)

LEMMA TextsAreThere ==
  /\ \A octets : Has(Hex(octets))
  /\ \A key : Has(Pem(key))
  /\ \A signature : Has(Base64(signature))
  <1>1. \A octets : "octets" \in DOMAIN Hex(octets)
    BY DEF Hex
  <1>2. \A key : "key" \in DOMAIN Pem(key)
    BY DEF Pem
  <1>3. \A signature : "signature" \in DOMAIN Base64(signature)
    BY DEF Base64
  <1>4. DOMAIN Missing = {"missing"}
    BY DEF Missing
  <1> QED BY <1>1, <1>2, <1>3, <1>4 DEF Has

(* The key a reader takes from a document that carries the pinned one.     *)
LEMMA CarriedKey ==
  ASSUME NEW doc, NEW key, CarriesPinned(doc, Pem(key)), CreatePublicKey(doc.publicKeyPem) # None
  PROVE  CreatePublicKey(doc.publicKeyPem) = key
  <1>1. SameSpkiKey(doc.publicKeyPem, Pem(key))
    BY TextsAreThere DEF CarriesPinned
  <1>2. ToSpkiDer(doc.publicKeyPem) = ToSpkiDer(Pem(key)) /\ ToSpkiDer(Pem(key)) = key
    BY <1>1 DEF SameSpkiKey, ToSpkiDer, Pem
  <1>3. CreatePublicKey(doc.publicKeyPem) = doc.publicKeyPem.key /\ doc.publicKeyPem.spelling = "pem"
    BY DEF CreatePublicKey
  <1> QED BY <1>2, <1>3 DEF ToSpkiDer

OctetsVouch(octets, key) ==
  /\ octets.fault = None /\ octets.unprotected = ""
  /\ key \in Ed25519Keys
  /\ octets.signature = <<key, SigStructure(octets.header, octets.payload)>>

LEMMA VerifiedVouches ==
  ASSUME NEW octets, NEW keyText, NEW contentType, VerifyCoseSign1(octets, keyText, contentType)
  PROVE  OctetsVouch(octets, CreatePublicKey(keyText))
  BY DEF VerifyCoseSign1, Sign1Refusal, OctetsVouch, None

LEMMA PinnedKey == \A key : CreatePublicKey(Pem(key)) = key
  BY DEF CreatePublicKey, Pem

Says(k, doc, key) ==
  /\ Has(doc.coseHex)
  /\ OctetsVouch(doc.coseHex.octets, key)
  /\ doc.claims \in Decoded(k, doc.coseHex.octets.payload)
  /\ k = "receipt" => doc.encoding = "cose"
  /\ k = "decision" => AssertDecisionRecordClaims(doc.claims)

LEMMA ReceiptSays ==
  ASSUME NEW doc, NEW key, VerifyReceipt(doc, Pem(key)) \/ VerifyReceiptUnderPin(doc, Pem(key))
  PROVE  Says("receipt", doc, key)
  <1>1. PICK keyText : ReceiptOctetsVerify(doc, keyText)
                       /\ (keyText = Pem(key) \/ (keyText = doc.publicKeyPem /\ CarriesPinned(doc, Pem(key))))
    BY DEF VerifyReceipt, VerifyReceiptUnderPin, VerifyReceiptCose
  <1>2. doc.encoding = "cose"
    BY DEF VerifyReceipt, VerifyReceiptUnderPin
  <1>3. /\ Has(doc.coseHex) /\ VerifyCoseSign1(doc.coseHex.octets, keyText, "receipt")
        /\ \E decoded \in ClaimsFromCbor(doc.coseHex.octets.payload) : SameCanonical(decoded, doc.claims)
    BY <1>1 DEF ReceiptOctetsVerify, BufferFromHex
  <1>4. doc.claims \in Decoded("receipt", doc.coseHex.octets.payload)
    BY <1>3 DEF Decoded, ClaimsFromCbor, Table, SameCanonical
  <1>5. CreatePublicKey(keyText) \in Ed25519Keys /\ OctetsVouch(doc.coseHex.octets, CreatePublicKey(keyText))
    BY <1>3, VerifiedVouches DEF OctetsVouch
  <1>6. CreatePublicKey(keyText) = key
    <2>1. CreatePublicKey(keyText) # None
      BY <1>5, KeysAssumption
    <2> QED BY <1>1, <2>1, CarriedKey, PinnedKey
  <1> QED BY <1>2, <1>3, <1>4, <1>5, <1>6 DEF Says

LEMMA OctetsSayIt ==
  ASSUME NEW doc, NEW keyText, NEW contentType, NEW decoded, OctetsSay(doc, keyText, contentType, decoded)
  PROVE  /\ Has(doc.coseHex) /\ doc.claims \in decoded
         /\ CreatePublicKey(keyText) # None
         /\ OctetsVouch(doc.coseHex.octets, CreatePublicKey(keyText))
  <1>1. /\ Has(doc.coseHex) /\ doc.claims \in decoded
        /\ VerifyCoseSign1(doc.coseHex.octets, keyText, contentType)
    BY DEF OctetsSay, BufferFromHex, SameCanonical
  <1>2. OctetsVouch(doc.coseHex.octets, CreatePublicKey(keyText))
    BY <1>1, VerifiedVouches
  <1>3. CreatePublicKey(keyText) # None
    BY <1>2, KeysAssumption DEF OctetsVouch
  <1> QED BY <1>1, <1>2, <1>3

LEMMA StatementSays ==
  ASSUME NEW k \in {"decision", "token", "checkpoint", "manifest"}, NEW doc, NEW key,
         Verify(k, doc, Pem(key)) \/ VerifyUnderPin(k, doc, Pem(key))
  PROVE  Says(k, doc, key)
  <1>1. CASE k = "decision"
    <2>1. OctetsSay(doc, Pem(key), "decision-record", ReadDecisionRecord(PayloadOf(doc)))
      BY <1>1, TextsAreThere DEF Verify, VerifyUnderPin, VerifyDecisionRecord
    <2>2. /\ Has(doc.coseHex) /\ doc.claims \in ReadDecisionRecord(PayloadOf(doc))
          /\ OctetsVouch(doc.coseHex.octets, key)
      BY <2>1, OctetsSayIt, PinnedKey
    <2>3. doc.claims \in DecisionRecordFromCbor(doc.coseHex.octets.payload) /\ AssertDecisionRecordClaims(doc.claims)
      BY <2>2 DEF ReadDecisionRecord, PayloadOf, BufferFromHex
    <2>4. doc.claims \in Decoded(k, doc.coseHex.octets.payload)
      BY <1>1, <2>3 DEF Decoded, DecisionRecordFromCbor, Table
    <2> QED BY <1>1, <2>2, <2>3, <2>4 DEF Says
  <1>2. CASE k = "token"
    <2>1. CarriesPinned(doc, Pem(key)) /\ OctetsSay(doc, doc.publicKeyPem, "decision", DecisionTokenFromCbor(PayloadOf(doc)))
      BY <1>2 DEF Verify, VerifyUnderPin, VerifyDecisionToken
    <2>2. /\ Has(doc.coseHex) /\ doc.claims \in DecisionTokenFromCbor(PayloadOf(doc))
          /\ OctetsVouch(doc.coseHex.octets, key)
      BY <2>1, OctetsSayIt, CarriedKey
    <2>4. doc.claims \in Decoded(k, doc.coseHex.octets.payload)
      BY <1>2, <2>2 DEF Decoded, DecisionTokenFromCbor, Table, PayloadOf, BufferFromHex
    <2> QED BY <1>2, <2>2, <2>4 DEF Says
  <1>3. CASE k = "checkpoint"
    <2>1. PICK keyText : /\ OctetsSay(doc, keyText, "checkpoint", CheckpointFromCbor(PayloadOf(doc)))
                         /\ (keyText = Pem(key) \/ (keyText = doc.publicKeyPem /\ CarriesPinned(doc, Pem(key))))
      BY <1>3 DEF Verify, VerifyUnderPin, VerifyCheckpoint, VerifyCheckpointUnderPin
    <2>2. /\ Has(doc.coseHex) /\ doc.claims \in CheckpointFromCbor(PayloadOf(doc))
          /\ OctetsVouch(doc.coseHex.octets, key)
      BY <2>1, OctetsSayIt, CarriedKey, PinnedKey
    <2>4. doc.claims \in Decoded(k, doc.coseHex.octets.payload)
      BY <1>3, <2>2 DEF Decoded, CheckpointFromCbor, Table, PayloadOf, BufferFromHex
    <2> QED BY <1>3, <2>2, <2>4 DEF Says
  <1>4. CASE k = "manifest"
    <2>1. CarriesPinned(doc, Pem(key)) /\ OctetsSay(doc, doc.publicKeyPem, "manifest", ManifestFromCbor(PayloadOf(doc)))
      BY <1>4 DEF Verify, VerifyUnderPin, VerifyManifest
    <2>2. /\ Has(doc.coseHex) /\ doc.claims \in ManifestFromCbor(PayloadOf(doc))
          /\ OctetsVouch(doc.coseHex.octets, key)
      BY <2>1, OctetsSayIt, CarriedKey
    <2>4. doc.claims \in Decoded(k, doc.coseHex.octets.payload)
      BY <1>4, <2>2 DEF Decoded, PayloadOf, BufferFromHex
    <2> QED BY <1>4, <2>2, <2>4 DEF Says
  <1> QED BY <1>1, <1>2, <1>3, <1>4

LEMMA VerifiedSays ==
  ASSUME NEW k \in CoseKinds, NEW doc, NEW key,
         Verify(k, doc, Pem(key)) \/ VerifyUnderPin(k, doc, Pem(key))
  PROVE  Says(k, doc, key)
  <1>1. CASE k = "receipt"
    <2>1. VerifyReceipt(doc, Pem(key)) \/ VerifyReceiptUnderPin(doc, Pem(key))
      BY <1>1 DEF Verify, VerifyUnderPin
    <2> QED BY <1>1, <2>1, ReceiptSays
  <1>2. CASE k # "receipt"
    <2>1. k \in {"decision", "token", "checkpoint", "manifest"}
      BY <1>2 DEF CoseKinds
    <2> QED BY <2>1, StatementSays
  <1> QED BY <1>1, <1>2

LEMMA ExtractSays ==
  ASSUME NEW k \in {"rail", "effect"}, NEW doc, NEW key,
         Verify(k, doc, Pem(key)) \/ VerifyUnderPin(k, doc, Pem(key))
  PROVE  /\ Has(doc.signature) /\ JcsEncodable(doc.claims)
         /\ k = "rail" => RailExtractShapeHolds(doc.claims)
         /\ k = "effect" => EffectExtractShapeHolds(doc.claims)
         /\ CarriesPinned(doc, Pem(key))
         /\ doc.signature.signature = <<CreatePublicKey(doc.publicKeyPem), doc.claims>>
  BY DEF Verify, VerifyUnderPin, VerifyRailExtract, VerifyEffectExtract, BodyVerifies

-----------------------------------------------------------------------------
(* What every reachable document is.                                       *)

(* What of a document no one but its signer wrote.                         *)
SameSigned(a, b) ==
  a.signature = b.signature /\ a.encoding = b.encoding /\ a.coseHex = b.coseHex /\ a.unlisted = b.unlisted

PayloadIn(doc) == doc.coseHex.octets.payload

AsCose(k, d) ==
  /\ Has(d.doc.coseHex)
  /\ SameSigned(d.doc, CoseDoc(k, d.by, d.doc.claims, PayloadIn(d.doc)))
  /\ Tells(k, d.doc.claims, PayloadIn(d.doc))
  /\ d.how = "earlier" => \A c \in Decoded(k, PayloadIn(d.doc)) : c = d.doc.claims

IssuedDoc(k, d) ==
  /\ d.by \in {Issuer, Stranger, Weak}
  /\ IsClaims(k, d.doc.claims)
  /\ d.how = "earlier" => d.doc.claims = EarlierClaims(k)
  /\ d.how \in {"signer", "ledger"} => d.by \in {Issuer, Weak} /\ d.doc \in Sign(k, d.doc.claims, d.by)
  /\ d.how = "json" => k = "receipt" /\ d.doc \in SignReceiptJson(d.doc.claims, Issuer)
  /\ \/ IsExtract(k) /\ SameSigned(d.doc, ExtractDoc(d.by, d.doc.claims))
     \/ k = "receipt" /\ d.how = "json" /\ d.by = Issuer /\ SameSigned(d.doc, JsonDoc(d.by, d.doc.claims))
     \/ ~IsExtract(k) /\ AsCose(k, d)

CounterTerm(octets, delivered) ==
  <<Payee, SigStructure(ProtectedHeader("countersign", Payee),
                        [fault |-> None,
                         claims |-> [receiptCose |-> octets, deliveredHash |-> delivered]])>>

CounterFounded(doc, given) ==
  Has(doc.counterCoseHex) =>
    \E a \in given : doc.counterCoseHex.octets.signature = CounterTerm(a.octets, a.delivered)

ApprovalFounded(a, all) ==
  /\ a.delivered \in {"absent", "h1", "h2"}
  /\ Has(a.pin) => \E d \in all : /\ Pem(d.by) = a.pin /\ Has(d.doc.coseHex)
                                   /\ BufferFromHex(d.doc.coseHex) = a.octets

IsDocument(doc) ==
  doc = [claims |-> doc.claims, signature |-> doc.signature, publicKeyPem |-> doc.publicKeyPem,
         encoding |-> doc.encoding, coseHex |-> doc.coseHex, counterCoseHex |-> doc.counterCoseHex,
         payeePublicKeyPem |-> doc.payeePublicKeyPem, unlisted |-> doc.unlisted]

SignatureFounded(doc, all) ==
  Has(doc.signature) =>
    /\ doc.signature = [signature |-> doc.signature.signature, spelling |-> doc.signature.spelling]
    /\ \E d \in all : Has(d.doc.signature) /\ doc.signature.signature = d.doc.signature.signature

IsMessage(octets) ==
  octets = [fault |-> octets.fault, unprotected |-> octets.unprotected, header |-> octets.header,
            payload |-> octets.payload, signature |-> octets.signature]

OctetsFounded(doc, all) ==
  Has(doc.coseHex) =>
    /\ doc.coseHex = [octets |-> doc.coseHex.octets, spelling |-> doc.coseHex.spelling]
    /\ IsMessage(doc.coseHex.octets)
    /\ \E d \in all : /\ Has(d.doc.coseHex)
                      /\ doc.coseHex.octets.signature = d.doc.coseHex.octets.signature

(* The claims shown are read from no octets but those they were signed in. *)
ClaimsFounded(k, claims, d) ==
  Has(d.doc.coseHex) /\ claims \in Decoded(k, PayloadIn(d.doc)) => d.doc.claims = claims

ShownDoc(k, doc, all, given) ==
  /\ IsDocument(doc)
  /\ IsClaims(k, doc.claims)
  /\ doc.encoding \in {"cose", "json", "missing"}
  /\ SignatureFounded(doc, all)
  /\ OctetsFounded(doc, all)
  /\ CounterFounded(doc, given)
  /\ \A d \in all : ClaimsFounded(k, doc.claims, d)

DocInv ==
  /\ kind \in Kinds
  /\ \A d \in issued : IssuedDoc(kind, d) /\ CounterFounded(d.doc, approvals)
  /\ \A a \in approvals : ApprovalFounded(a, issued)
  /\ shown = Missing => \A d \in issued : d.how = "earlier"
  /\ shown # Missing => ShownDoc(kind, shown, issued, approvals)
  /\ shown # Missing /\ touched = {} => \A d \in issued : d.how # "earlier" => d.doc.claims = shown.claims

LEMMA ClaimsAreNoTuple ==
  ASSUME NEW c, IsClaims("receipt", c), NEW x, NEW y, NEW z
  PROVE  c # <<x, y, z>>
  <1> SUFFICES ASSUME c = <<x, y, z>> PROVE FALSE
    OBVIOUS
  <1>1. {"payer", "amount", "nonce", "outcome"} \subseteq DOMAIN c
    BY DEF IsClaims, Table, ReceiptClaims
  <1>2. DOMAIN c = {1, 2, 3}
    <2>1. DOMAIN <<x, y, z>> = 1 .. 3
      OBVIOUS
    <2>2. 1 .. 3 = {1, 2, 3}
      OBVIOUS
    <2> QED BY <2>1, <2>2
  <1>3. "payer" \in {1, 2, 3} /\ "amount" \in {1, 2, 3} /\ "nonce" \in {1, 2, 3} /\ "outcome" \in {1, 2, 3}
    BY <1>1, <1>2
  <1> QED BY <1>3

(* Octets that vouch for the claims beside them are those a signer wrote,  *)
(* member for member.                                                      *)
LEMMA SaysSigned ==
  ASSUME NEW k \in CoseKinds, NEW doc, NEW all, NEW given, ShownDoc(k, doc, all, given),
         \A d \in all : IssuedDoc(k, d), NEW key, Says(k, doc, key)
  PROVE  \E d \in all : /\ d.by = key /\ d.doc.claims = doc.claims
                        /\ AsCose(k, d) /\ d.doc.coseHex = Hex(doc.coseHex.octets)
  <1> DEFINE o == doc.coseHex.octets
  <1>1. /\ Has(doc.coseHex) /\ o.fault = None /\ o.unprotected = ""
        /\ o.signature = <<key, SigStructure(o.header, o.payload)>>
        /\ doc.claims \in Decoded(k, o.payload)
    BY DEF Says, OctetsVouch
  <1>2. PICK d \in all : Has(d.doc.coseHex) /\ o.signature = d.doc.coseHex.octets.signature
    BY <1>1 DEF ShownDoc, OctetsFounded
  <1>3. IsMessage(o)
    BY <1>1 DEF ShownDoc, OctetsFounded
  <1>4. AsCose(k, d)
    <2>1. ~IsExtract(k)
      BY DEF CoseKinds, IsExtract
    <2>2. ~SameSigned(d.doc, JsonDoc(d.by, d.doc.claims))
      BY <1>2 DEF SameSigned, JsonDoc, Has
    <2> QED BY <2>1, <2>2 DEF IssuedDoc
  <1> DEFINE p == PayloadIn(d.doc)
             h == ProtectedHeader(ContentType(k), d.by)
  <1>5. d.doc.coseHex = Hex(Message(h, p, SignedTerm(k, d.by, p)))
    BY <1>4 DEF AsCose, SameSigned, CoseDoc
  <1>6. d.doc.coseHex.octets = Message(h, p, SignedTerm(k, d.by, p))
    BY <1>5 DEF Hex
  <1>7. d.doc.coseHex.octets.signature = SignedTerm(k, d.by, p)
    <2>1. \A x, y, z : Message(x, y, z).signature = z
      BY DEF Message
    <2> HIDE DEF h, p
    <2> QED BY <1>6, <2>1
  <1> HIDE DEF o, p, h
  <1>8. <<key, SigStructure(o.header, o.payload)>> = <<d.by, SigStructure(h, p)>>
    BY <1>1, <1>2, <1>7 DEF SignedTerm, h
  <1>9. key = d.by /\ o.header = h /\ o.payload = p
    BY <1>8 DEF SigStructure
  <1>10. o = Message(h, p, SignedTerm(k, d.by, p))
    BY <1>1, <1>2, <1>3, <1>7, <1>9 DEF IsMessage, Message
  <1>11. d.doc.coseHex = Hex(o)
    BY <1>5, <1>10
  <1>12. d.doc.claims = doc.claims
    <2>1. ClaimsFounded(k, doc.claims, d)
      BY DEF ShownDoc
    <2> QED BY <1>1, <1>2, <1>9, <2>1 DEF ClaimsFounded, p
  <1> QED BY <1>4, <1>9, <1>11, <1>12 DEF o

LEMMA SignersHaveKeys == \A x \in {Issuer, Stranger, Weak} : x \in Ed25519Keys \cup OtherKeys /\ x # None
  BY KeysAssumption, PartiesAssumption

LEMMA ExtractSigned ==
  ASSUME NEW k \in {"rail", "effect"}, NEW doc, NEW all, NEW given, ShownDoc(k, doc, all, given),
         \A d \in all : IssuedDoc(k, d), NEW key,
         Verify(k, doc, Pem(key)) \/ VerifyUnderPin(k, doc, Pem(key))
  PROVE  \E d \in all : /\ d.by = key /\ d.doc.claims = doc.claims
                        /\ SameSigned(d.doc, ExtractDoc(d.by, d.doc.claims))
  <1>1. /\ Has(doc.signature) /\ CarriesPinned(doc, Pem(key))
        /\ doc.signature.signature = <<CreatePublicKey(doc.publicKeyPem), doc.claims>>
    BY ExtractSays
  <1>2. PICK d \in all : doc.signature.signature = d.doc.signature.signature
    BY <1>1 DEF ShownDoc, SignatureFounded
  <1>3. SameSigned(d.doc, ExtractDoc(d.by, d.doc.claims)) /\ d.by \in {Issuer, Stranger, Weak}
    BY DEF IssuedDoc, IsExtract
  <1>4. d.doc.signature = Base64(<<d.by, d.doc.claims>>)
    BY <1>3 DEF SameSigned, ExtractDoc
  <1>5. d.doc.signature.signature = <<d.by, d.doc.claims>>
    BY <1>4 DEF Base64
  <1>6. CreatePublicKey(doc.publicKeyPem) = d.by /\ doc.claims = d.doc.claims
    BY <1>1, <1>2, <1>5
  <1>7. d.by = key
    BY <1>1, <1>3, <1>6, SignersHaveKeys, CarriedKey
  <1> QED BY <1>3, <1>6, <1>7

LEMMA JsonSigned ==
  ASSUME NEW doc, NEW all, NEW given, ShownDoc("receipt", doc, all, given),
         \A d \in all : IssuedDoc("receipt", d), NEW key, VerifyReceiptJson(doc, Pem(key))
  PROVE  \E d \in all : /\ d.by = key /\ d.by = Issuer /\ d.doc.claims = doc.claims
                        /\ SameSigned(d.doc, JsonDoc(d.by, d.doc.claims))
                        /\ d.doc.signature = doc.signature
  <1>1. /\ Has(doc.signature) /\ CarriesPinned(doc, Pem(key)) /\ doc.signature.spelling = "padded"
        /\ doc.signature.signature = <<CreatePublicKey(doc.publicKeyPem), doc.claims>>
    BY DEF VerifyReceiptJson, IsRewrittenSame
  <1>2. PICK d \in all : Has(d.doc.signature) /\ doc.signature.signature = d.doc.signature.signature
    BY <1>1 DEF ShownDoc, SignatureFounded
  <1>3. doc.signature = [signature |-> doc.signature.signature, spelling |-> doc.signature.spelling]
    BY <1>1 DEF ShownDoc, SignatureFounded
  <1>4. IssuedDoc("receipt", d) /\ d.by \in {Issuer, Stranger, Weak} /\ ~IsExtract("receipt")
    BY DEF IssuedDoc, IsExtract
  <1>5. ~AsCose("receipt", d)
    <2> SUFFICES ASSUME AsCose("receipt", d) PROVE FALSE
      OBVIOUS
    <2>1. d.doc.signature = Base64(SignedTerm("receipt", d.by, PayloadIn(d.doc)))
      BY DEF AsCose, SameSigned, CoseDoc
    <2>2. d.doc.signature.signature = SignedTerm("receipt", d.by, PayloadIn(d.doc))
      BY <2>1 DEF Base64
    <2>3. <<CreatePublicKey(doc.publicKeyPem), doc.claims>> = SignedTerm("receipt", d.by, PayloadIn(d.doc))
      BY <1>1, <1>2, <2>2
    <2>4. doc.claims = SigStructure(ProtectedHeader(ContentType("receipt"), d.by), PayloadIn(d.doc))
      BY <2>3 DEF SignedTerm
    <2>5. IsClaims("receipt", doc.claims)
      BY DEF ShownDoc
    <2> QED BY <2>4, <2>5, ClaimsAreNoTuple DEF SigStructure
  <1>6. SameSigned(d.doc, JsonDoc(d.by, d.doc.claims)) /\ d.by = Issuer
    BY <1>4, <1>5 DEF IssuedDoc
  <1>7. d.doc.signature = Base64(<<d.by, d.doc.claims>>)
    BY <1>6 DEF SameSigned, JsonDoc
  <1>8. d.doc.signature.signature = <<d.by, d.doc.claims>>
    BY <1>7 DEF Base64
  <1>9. CreatePublicKey(doc.publicKeyPem) = d.by /\ doc.claims = d.doc.claims
    BY <1>1, <1>2, <1>8
  <1>10. d.by = key
    BY <1>1, <1>4, <1>9, SignersHaveKeys, CarriedKey
  <1>11. doc.signature = d.doc.signature
    BY <1>1, <1>2, <1>3, <1>7, <1>8 DEF Base64
  <1> QED BY <1>6, <1>9, <1>10, <1>11

LEMMA AcceptedIsSigned ==
  ASSUME DocInv, shown # Missing, NEW key \in Ed25519Keys \cup OtherKeys, AcceptedUnder(key)
  PROVE  /\ IsExtract(kind) \/ key \in Ed25519Keys
         /\ \E d \in issued : /\ d.by = key
                              /\ d.doc.claims = shown.claims
                              /\ Identity(kind, d.doc) = Identity(kind, shown)
  <1>1. /\ kind \in Kinds /\ ShownDoc(kind, shown, issued, approvals)
        /\ \A d \in issued : IssuedDoc(kind, d)
    BY DEF DocInv
  <1>2. CASE kind \in CoseKinds /\ (Verify(kind, shown, Pem(key)) \/ VerifyUnderPin(kind, shown, Pem(key)))
    <2>1. Says(kind, shown, key)
      BY <1>2, VerifiedSays
    <2>2. PICK d \in issued : /\ d.by = key /\ d.doc.claims = shown.claims /\ AsCose(kind, d)
                              /\ d.doc.coseHex = Hex(shown.coseHex.octets)
      BY <1>1, <1>2, <2>1, SaysSigned
    <2>3. ~IsExtract(kind) /\ key \in Ed25519Keys
      BY <1>2, <2>1 DEF Says, OctetsVouch, CoseKinds, IsExtract
    <2>4. BufferFromHex(d.doc.coseHex) = BufferFromHex(shown.coseHex)
      BY <2>2 DEF BufferFromHex, Hex
    <2>5. kind = "receipt" => ReceiptHash(d.doc) = BufferFromHex(d.doc.coseHex) /\ ReceiptHash(shown) = BufferFromHex(shown.coseHex)
      <3> SUFFICES ASSUME kind = "receipt"
                   PROVE ReceiptHash(d.doc) = BufferFromHex(d.doc.coseHex) /\ ReceiptHash(shown) = BufferFromHex(shown.coseHex)
        OBVIOUS
      <3>1. d.doc.encoding = "cose" /\ Has(d.doc.coseHex)
        BY <2>2 DEF AsCose, SameSigned, CoseDoc
      <3>2. shown.encoding = "cose" /\ Has(shown.coseHex)
        BY <2>1 DEF Says
      <3> QED BY <3>1, <3>2 DEF ReceiptHash
    <2>6. Identity(kind, d.doc) = Identity(kind, shown)
      BY <2>3, <2>4, <2>5 DEF Identity
    <2> QED BY <2>2, <2>3, <2>6
  <1>3. CASE kind \notin CoseKinds /\ (Verify(kind, shown, Pem(key)) \/ VerifyUnderPin(kind, shown, Pem(key)))
    <2>1. kind \in {"rail", "effect"} /\ IsExtract(kind) /\ kind # "receipt"
      BY <1>1, <1>3 DEF Kinds, CoseKinds, IsExtract
    <2>2. PICK d \in issued : d.by = key /\ d.doc.claims = shown.claims
      BY <1>1, <1>3, <2>1, ExtractSigned
    <2>3. Identity(kind, d.doc) = Identity(kind, shown)
      BY <2>1, <2>2 DEF Identity
    <2> QED BY <2>1, <2>2, <2>3
  <1>4. CASE kind = "receipt" /\ shown.encoding = "json" /\ VerifyReceiptJson(shown, Pem(key))
    <2>1. PICK d \in issued : /\ d.by = key /\ d.by = Issuer /\ d.doc.claims = shown.claims
                              /\ SameSigned(d.doc, JsonDoc(d.by, d.doc.claims))
                              /\ d.doc.signature = shown.signature
      BY <1>1, <1>4, JsonSigned
    <2>2. key \in Ed25519Keys
      BY <2>1, PartiesAssumption
    <2>3. d.doc.encoding = "json"
      BY <2>1 DEF SameSigned, JsonDoc
    <2>4. Identity(kind, d.doc) = Identity(kind, shown)
      BY <1>4, <2>1, <2>3 DEF Identity, ReceiptHash
    <2> QED BY <2>1, <2>2, <2>4
  <1> QED BY <1>2, <1>3, <1>4 DEF AcceptedUnder

LEMMA CounterSays ==
  ASSUME DocInv, shown # Missing, VerifyCounterSignature(shown, Pem(Payee))
  PROVE  \E a \in approvals :
           /\ a.octets = ReceiptHash(shown)
           /\ CountersignDeliveredHashHex(shown) = {a.delivered} \ {"absent"}
           /\ Has(a.pin) => \E d \in issued : /\ Pem(d.by) = a.pin
                                              /\ BufferFromHex(d.doc.coseHex) = a.octets
  <1> DEFINE o == shown.counterCoseHex.octets
             payload(a) == [fault |-> None,
                            claims |-> [receiptCose |-> a.octets, deliveredHash |-> a.delivered]]
  <1>1. /\ Has(shown.counterCoseHex) /\ Has(shown.coseHex) /\ shown.encoding = "cose"
        /\ VerifyCoseSign1(o, Pem(Payee), "countersign")
        /\ \E claims \in CounterClaims(shown) : claims.receiptCose = shown.coseHex.octets
    BY DEF VerifyCounterSignature, BufferFromHex
  <1>2. o.fault = None /\ o.unprotected = "" /\ o.signature = <<Payee, SigStructure(o.header, o.payload)>>
    <2>1. OctetsVouch(o, CreatePublicKey(Pem(Payee)))
      BY <1>1, VerifiedVouches
    <2>2. OctetsVouch(o, Payee)
      BY <2>1, PinnedKey
    <2> HIDE DEF o
    <2> QED BY <2>2 DEF OctetsVouch
  <1>3. PICK a \in approvals : o.signature = CounterTerm(a.octets, a.delivered)
    BY <1>1 DEF DocInv, ShownDoc, CounterFounded
  <1>4. o.payload = payload(a)
    <2> HIDE DEF o
    <2>1. <<Payee, SigStructure(o.header, o.payload)>> = CounterTerm(a.octets, a.delivered)
      BY <1>2, <1>3
    <2>2. SigStructure(o.header, o.payload) = SigStructure(ProtectedHeader("countersign", Payee), payload(a))
      BY <2>1 DEF CounterTerm
    <2> HIDE DEF payload
    <2> QED BY <2>2 DEF SigStructure
  <1>5. Sign1Refusal(o) = None
    BY <1>2 DEF Sign1Refusal, None
  <1>6. CounterClaims(shown) = {payload(a).claims}
    <2>1. o.payload.fault = None /\ o.payload.claims = payload(a).claims
      BY <1>4
    <2> QED BY <1>1, <1>5, <2>1 DEF CounterClaims, When, BufferFromHex
  <1>7. a.octets = shown.coseHex.octets
    BY <1>1, <1>6
  <1>8. ReceiptHash(shown) = shown.coseHex.octets
    BY <1>1 DEF ReceiptHash, BufferFromHex
  <1>9. ApprovalFounded(a, issued)
    BY DEF DocInv
  <1>10. CountersignDeliveredHashHex(shown) = {a.delivered} \ {"absent"}
    <2>1. CountersignDeliveredHashHex(shown) = {c.deliveredHash : c \in {e \in {payload(a).claims} : IsValidHashText(e.deliveredHash)}}
      BY <1>6 DEF CountersignDeliveredHashHex
    <2>2. payload(a).claims.deliveredHash = a.delivered
      OBVIOUS
    <2> HIDE DEF payload
    <2>3. CASE a.delivered = "absent"
      <3>1. ~IsValidHashText(a.delivered)
        BY <2>3 DEF IsValidHashText
      <3> QED BY <2>1, <2>2, <2>3, <3>1
    <2>4. CASE a.delivered \in {"h1", "h2"}
      <3>1. IsValidHashText(a.delivered) /\ a.delivered # "absent"
        BY <2>4 DEF IsValidHashText
      <3> QED BY <2>1, <2>2, <3>1
    <2> QED BY <1>9, <2>3, <2>4 DEF ApprovalFounded
  <1> QED BY <1>7, <1>8, <1>9, <1>10 DEF ApprovalFounded

-----------------------------------------------------------------------------
(* What the presented form asks.                                           *)

LEMMA FormAsks ==
  ASSUME NEW f \in {"spend", "decision", "checkpoint", "manifest", "extract"}, NEW obj, InForm(f, obj)
  PROVE  /\ \A m \in Members \ Allowed(f) : ~HasMember(obj, m)
         /\ \A m \in Required(f, obj.encoding) : HasMember(obj, m)
         /\ "encoding" \in Allowed(f) /\ HasMember(obj, "encoding") => obj.encoding = "cose"
         /\ "signature" \in Allowed(f) /\ HasMember(obj, "signature") => IsPaddedBase64(obj["signature"])
         /\ "coseHex" \in HexMembers(f, obj) => HexProblem(obj["coseHex"]) = None
         /\ CoseReady(f, obj) => SignatureMatches(f, obj, obj.coseHex.octets)
  <1>1. /\ MemberProblems(f, obj) = {} /\ TextProblems(f, obj) = {} /\ HexProblems(f, obj) = {}
        /\ OctetProblems(f, obj) = {}
    BY DEF InForm, CheckSignedObject
  <1>2. \A m \in Members \ Allowed(f) : ~HasMember(obj, m)
    BY <1>1 DEF MemberProblems
  <1>3. \A m \in Required(f, obj.encoding) : HasMember(obj, m)
    BY <1>1 DEF MemberProblems
  <1>4. "encoding" \in Allowed(f) /\ HasMember(obj, "encoding") => obj.encoding = "cose"
    BY <1>1 DEF TextProblems
  <1>5. "signature" \in Allowed(f) /\ HasMember(obj, "signature") => IsPaddedBase64(obj["signature"])
    BY <1>1 DEF TextProblems
  <1>6. "coseHex" \in HexMembers(f, obj) => HexProblem(obj["coseHex"]) = None
    BY <1>1 DEF HexProblems
  <1>7. CoseReady(f, obj) => SignatureMatches(f, obj, obj.coseHex.octets)
    BY <1>1 DEF OctetProblems, When
  <1> QED BY <1>2, <1>3, <1>4, <1>5, <1>6, <1>7

LEMMA CoseFormAsks ==
  ASSUME NEW f \in {"spend", "decision", "checkpoint", "manifest"}, NEW obj, InForm(f, obj)
  PROVE  /\ obj.encoding = "cose" /\ obj.unlisted = Missing
         /\ Has(obj.coseHex) /\ obj.coseHex.spelling = "lower"
         /\ f \in {"spend", "manifest"} =>
              (Sign1Refusal(obj.coseHex.octets) = None => obj.signature = Base64(obj.coseHex.octets.signature))
         /\ f \notin {"spend", "manifest"} => obj.signature = Missing
  <1>1. "encoding" \in Required(f, obj.encoding) /\ "encoding" \in Allowed(f)
    BY DEF Required, Allowed
  <1>2. obj.encoding = "cose"
    BY <1>1, FormAsks
  <1>3. "coseHex" \in Required(f, obj.encoding) /\ "coseHex" \in Allowed(f)
    BY <1>2 DEF Required, Allowed
  <1>4. HasMember(obj, "coseHex")
    BY <1>3, FormAsks
  <1>5. "coseHex" \in HexMembers(f, obj)
    BY <1>3, <1>4 DEF HexMembers
  <1>6. HexProblem(obj.coseHex) = None
    BY <1>5, FormAsks
  <1>7. obj.coseHex.spelling = "lower"
    BY <1>6 DEF HexProblem, IsLowercaseHex, None
  <1>8. CoseReady(f, obj)
    BY <1>5, <1>6 DEF CoseReady
  <1>9. SignatureMatches(f, obj, obj.coseHex.octets)
    BY <1>8, FormAsks
  <1>10. "unlisted" \in Members \ Allowed(f)
    BY DEF Members, Allowed, Required
  <1>11. obj.unlisted = Missing
    BY <1>10, FormAsks DEF HasMember, Has
  <1>12. Has(obj.coseHex)
    BY <1>4 DEF HasMember
  <1>13. CASE f \in {"spend", "manifest"}
    <2>1. "signature" \in Required(f, obj.encoding) /\ "signature" \in Allowed(f)
      BY <1>13 DEF Required, Allowed
    <2>2. HasMember(obj, "signature")
      BY <2>1, FormAsks
    <2>3. IsPaddedBase64(obj.signature)
      BY <2>1, <2>2, FormAsks
    <2>4. Sign1Refusal(obj.coseHex.octets) = None => obj.signature = Base64(obj.coseHex.octets.signature)
      BY <1>9, <1>13, <2>2, <2>3 DEF SignatureMatches
    <2> QED BY <1>2, <1>7, <1>11, <1>12, <1>13, <2>4
  <1>14. CASE f \notin {"spend", "manifest"}
    <2>1. "signature" \in Members \ Allowed(f)
      BY <1>14 DEF Members, Allowed, Required
    <2>2. obj.signature = Missing
      BY <2>1, FormAsks DEF HasMember, Has
    <2> QED BY <1>2, <1>7, <1>11, <1>12, <1>14, <2>2
  <1> QED BY <1>13, <1>14

LEMMA ExtractFormAsks ==
  ASSUME NEW obj, InForm("extract", obj), obj.encoding \in {"cose", "json", "missing"}
  PROVE  obj.encoding = "missing" /\ obj.coseHex = Missing /\ obj.unlisted = Missing
  <1>1. "encoding" \in Members \ Allowed("extract") /\ "coseHex" \in Members \ Allowed("extract")
        /\ "unlisted" \in Members \ Allowed("extract")
    BY DEF Members, Allowed, Required
  <1>2. ~HasMember(obj, "encoding") /\ ~HasMember(obj, "coseHex") /\ ~HasMember(obj, "unlisted")
    BY <1>1, FormAsks
  <1> QED BY <1>2 DEF HasMember, Has

LEMMA FormLeavesNothing ==
  ASSUME DocInv, NEW key \in Ed25519Keys, HasForm(kind), Attested(key), InForm(FormKind[kind], shown)
  PROVE  \E d \in issued :
           /\ d.by = key
           /\ \A m \in {"claims", "encoding", "coseHex", "unlisted"} : shown[m] = d.doc[m]
           /\ IsExtract(kind) \/ shown.signature = d.doc.signature
  <1>1. /\ kind \in Kinds /\ ShownDoc(kind, shown, issued, approvals)
        /\ \A d \in issued : IssuedDoc(kind, d)
        /\ VerifyUnderPin(kind, shown, Pem(key))
    BY DEF DocInv, Attested
  <1>2. CASE kind \in CoseKinds
    <2>1. FormKind[kind] \in {"spend", "decision", "checkpoint", "manifest"}
          /\ (FormKind[kind] \in {"spend", "manifest"} <=> kind \in {"receipt", "manifest"})
      BY <1>2 DEF HasForm, FormKind, CoseKinds
    <2>2. /\ shown.encoding = "cose" /\ shown.unlisted = Missing
          /\ Has(shown.coseHex) /\ shown.coseHex.spelling = "lower"
      BY <2>1, CoseFormAsks
    <2>3. Says(kind, shown, key)
      BY <1>1, <1>2, VerifiedSays
    <2>4. PICK d \in issued : /\ d.by = key /\ d.doc.claims = shown.claims /\ AsCose(kind, d)
                              /\ d.doc.coseHex = Hex(shown.coseHex.octets)
      BY <1>1, <1>2, <2>3, SaysSigned
    <2>5. shown.coseHex = d.doc.coseHex
      <3>1. shown.coseHex = [octets |-> shown.coseHex.octets, spelling |-> shown.coseHex.spelling]
        BY <1>1, <2>2 DEF ShownDoc, OctetsFounded
      <3> QED BY <2>2, <2>4, <3>1 DEF Hex
    <2>6. d.doc.encoding = "cose" /\ d.doc.unlisted = Missing
          /\ d.doc.signature = IF kind \in {"receipt", "manifest"} THEN Base64(SignedTerm(kind, d.by, PayloadIn(d.doc))) ELSE Missing
      BY <2>4 DEF AsCose, SameSigned, CoseDoc
    <2>7. shown.signature = d.doc.signature
      <3>1. CASE kind \in {"receipt", "manifest"}
        <4>1. Sign1Refusal(shown.coseHex.octets) = None
          BY <2>3 DEF Says, OctetsVouch, Sign1Refusal, None
        <4>2. shown.signature = Base64(shown.coseHex.octets.signature)
          BY <2>1, <3>1, <4>1, CoseFormAsks
        <4>3. shown.coseHex.octets.signature = SignedTerm(kind, d.by, PayloadIn(d.doc))
          <5>1. d.doc.coseHex = Hex(Message(ProtectedHeader(ContentType(kind), d.by), PayloadIn(d.doc),
                                            SignedTerm(kind, d.by, PayloadIn(d.doc))))
            BY <2>4 DEF AsCose, SameSigned, CoseDoc
          <5> DEFINE m == Message(ProtectedHeader(ContentType(kind), d.by), PayloadIn(d.doc),
                                  SignedTerm(kind, d.by, PayloadIn(d.doc)))
          <5>2. m.signature = SignedTerm(kind, d.by, PayloadIn(d.doc))
            BY DEF Message
          <5> HIDE DEF m
          <5>3. d.doc.coseHex.octets = m
            BY <5>1 DEF Hex, m
          <5> QED BY <2>5, <5>2, <5>3
        <4> QED BY <2>6, <3>1, <4>2, <4>3
      <3>2. CASE kind \notin {"receipt", "manifest"}
        <4>1. shown.signature = Missing
          BY <2>1, <3>2, CoseFormAsks
        <4> QED BY <2>6, <3>2, <4>1
      <3> QED BY <3>1, <3>2
    <2> QED BY <2>2, <2>4, <2>5, <2>6, <2>7
  <1>3. CASE kind \notin CoseKinds
    <2>1. kind \in {"rail", "effect"} /\ IsExtract(kind) /\ FormKind[kind] = "extract"
      BY <1>1, <1>3 DEF Kinds, CoseKinds, IsExtract, FormKind
    <2>2. PICK d \in issued : /\ d.by = key /\ d.doc.claims = shown.claims
                              /\ SameSigned(d.doc, ExtractDoc(d.by, d.doc.claims))
      BY <1>1, <2>1, ExtractSigned
    <2>3. shown.encoding = "missing" /\ shown.coseHex = Missing /\ shown.unlisted = Missing
      BY <1>1, <2>1, ExtractFormAsks DEF ShownDoc
    <2>4. d.doc.encoding = "missing" /\ d.doc.coseHex = Missing /\ d.doc.unlisted = Missing
      BY <2>2 DEF SameSigned, ExtractDoc
    <2> QED BY <2>1, <2>2, <2>3, <2>4
  <1> QED BY <1>2, <1>3

LEMMA RulesKept ==
  ASSUME DocInv, NEW key \in Ed25519Keys, kind \in {"decision", "rail", "effect"}, Attested(key)
  PROVE  Sign(kind, shown.claims, key) # {}
  <1>1. ShownDoc(kind, shown, issued, approvals) /\ VerifyUnderPin(kind, shown, Pem(key)) /\ CanSign(key)
    BY DEF DocInv, Attested, CanSign
  <1>2. CASE kind = "decision"
    <2> DEFINE c == shown.claims
               o == shown.coseHex.octets
    <2>1. Says("decision", shown, key)
      BY <1>1, <1>2, VerifiedSays DEF CoseKinds
    <2>2. AssertDecisionRecordClaims(c) /\ c \in Decoded("decision", o.payload) /\ IsClaims("decision", c)
      BY <1>1, <1>2, <2>1 DEF Says, ShownDoc
    <2> HIDE DEF c, o
    <2>3. c = [o.payload.claims EXCEPT !["unlisted"] = "absent"]
          /\ \A x \in DOMAIN DecisionRecordClaims : o.payload.claims[x] \in DecisionRecordClaims[x]
      BY <2>2 DEF Decoded, ReadClaims, When, Table
    <2>4. \A x \in DOMAIN c \ {"unlisted"} : c[x] = o.payload.claims[x] /\ x \in DOMAIN DecisionRecordClaims
      BY <2>2, <2>3 DEF IsClaims, Table
    <2>5. \A x \in DOMAIN DecisionRecordClaims :
            \A v \in DecisionRecordClaims[x] : v \notin {"surrogate", "fraction", "absent"}
      BY DEF DecisionRecordClaims, Texts, Hashes, OrNull, Numbers
    <2>6. CborEncodable(c, {})
      BY <2>3, <2>4, <2>5 DEF CborEncodable
    <2>7. SignCoseSign1(Payload(c), key, "decision-record") # {}
      BY <1>1 DEF SignCoseSign1, When
    <2>8. SignAs(c, {}, key, "decision-record") # {}
      BY <2>6, <2>7 DEF SignAs, When
    <2> QED BY <1>2, <2>2, <2>8 DEF Sign, SignDecisionRecord, c
  <1>3. CASE kind = "rail"
    BY <1>1, <1>3, ExtractSays DEF Sign, SignRailExtract, When
  <1>4. CASE kind = "effect"
    BY <1>1, <1>4, ExtractSays DEF Sign, SignEffectExtract, When
  <1> QED BY <1>2, <1>3, <1>4

-----------------------------------------------------------------------------
(* What the package signs, it accepts.                                     *)

LEMMA TablesAreText ==
  ASSUME NEW k \in Kinds
  PROVE  \A x \in DOMAIN Table(k) : "surrogate" \notin Table(k)[x]
  <1>1. CASE k = "receipt"
    BY <1>1 DEF Table, ReceiptClaims, Texts, Amounts, Hashes, OrNull, Flags, Numbers, Nonces
  <1>2. CASE k = "decision"
    BY <1>2 DEF Table, DecisionRecordClaims, Texts, Hashes, OrNull, Numbers
  <1>3. CASE k = "token"
    BY <1>3 DEF Table, DecisionTokenClaims, Texts, Hashes, Numbers
  <1>4. CASE k = "checkpoint"
    BY <1>4 DEF Table, CheckpointClaimTypes, Hashes, OrNull, Numbers
  <1>5. CASE k = "manifest"
    BY <1>5 DEF Table, ManifestClaims, Texts, Amounts, Hashes, OrNull, Numbers, Optional
  <1>6. CASE k = "rail"
    BY <1>6 DEF Table, RailBody, Texts, Amounts, Numbers, Optional, Lists
  <1>7. CASE k = "effect"
    BY <1>7 DEF Table, EffectBody, Texts, Hashes, Numbers, Optional, Lists
  <1> QED BY <1>1, <1>2, <1>3, <1>4, <1>5, <1>6, <1>7 DEF Kinds

LEMMA TypedIsText ==
  ASSUME NEW k \in Kinds, NEW claims, IsClaims(k, claims), WellTyped(k, claims)
  PROVE  JcsEncodable(claims)
  <1>1. claims["unlisted"] = "absent" /\ \A x \in DOMAIN Table(k) : claims[x] \in Table(k)[x]
    BY DEF WellTyped
  <1>2. DOMAIN claims = DOMAIN Table(k) \cup {"unlisted"}
    BY DEF IsClaims
  <1> QED BY <1>1, <1>2, TablesAreText DEF JcsEncodable

LEMMA TypedIsRead ==
  ASSUME NEW k \in CoseKinds, NEW claims, IsClaims(k, claims), WellTyped(k, claims),
         k = "manifest" => claims["ap2MandateHash"] # "null",
         NEW payload \in PackagePayload(k, claims)
  PROVE  payload.fault = None /\ claims \in Decoded(k, payload)
  <1>1. claims["unlisted"] = "absent" /\ \A x \in DOMAIN Table(k) : claims[x] \in Table(k)[x]
    BY DEF WellTyped
  <1>2. [claims EXCEPT !["unlisted"] = "absent"] = claims
    BY <1>1 DEF IsClaims
  <1>3. payload = [fault |-> None, claims |-> claims]
    <2>1. CASE k # "manifest"
      BY <1>2, <2>1 DEF PackagePayload, Payload
    <2>2. CASE k = "manifest"
      <3>1. claims["ap2MandateHash"] \in OrNull(Hashes) /\ claims["payee"] \in Optional(Texts)
        BY <1>1, <2>2 DEF Table, ManifestClaims
      <3>2. claims["ap2MandateHash"] # "absent"
        BY <3>1 DEF OrNull, Hashes
      <3> DEFINE written == [claims EXCEPT
                    !.ap2MandateHash = IF @ = "absent" THEN "null" ELSE @,
                    !.payee = IF @ \in Texts \cup {"surrogate"} THEN @ ELSE "absent"]
      <3>3. written = claims
        BY <3>1, <3>2 DEF IsClaims, Optional
      <3>4. payload = Payload(written)
        BY <2>2 DEF PackagePayload, ManifestToCbor, When
      <3> HIDE DEF written
      <3> QED BY <1>2, <3>3, <3>4 DEF Payload
    <2> QED BY <2>1, <2>2
  <1>4. ReadClaims(Table(k), payload) = {claims}
    BY <1>1, <1>2, <1>3 DEF ReadClaims, When
  <1>5. CASE k = "manifest"
    <2>1. [claims EXCEPT !.ap2MandateHash = IF @ = "null" THEN "absent" ELSE @] = claims
      BY <1>5 DEF IsClaims
    <2> QED BY <1>3, <1>4, <1>5, <2>1 DEF Decoded, ManifestFromCbor, Table
  <1> QED BY <1>3, <1>4, <1>5 DEF Decoded

FreshOctets(k, key, payload) ==
  Message(ProtectedHeader(ContentType(k), key), payload, SignedTerm(k, key, payload))

LEMMA FreshVerifies ==
  ASSUME NEW k, NEW key \in Ed25519Keys, NEW payload, payload.fault = None
  PROVE  /\ VerifyCoseSign1(FreshOctets(k, key, payload), Pem(key), ContentType(k))
         /\ Sign1Refusal(FreshOctets(k, key, payload)) = None
         /\ CoseDecodeRefusal(FreshOctets(k, key, payload)) = None
         /\ FreshOctets(k, key, payload).payload = payload
         /\ FreshOctets(k, key, payload).signature = SignedTerm(k, key, payload)
  <1> DEFINE h == ProtectedHeader(ContentType(k), key)
             o == FreshOctets(k, key, payload)
  <1>1. /\ o.fault = None /\ o.unprotected = "" /\ o.header = h /\ o.payload = payload
        /\ o.signature = SignedTerm(k, key, payload)
    BY DEF FreshOctets, Message
  <1>2. /\ h.fault = None /\ h.crit = FALSE /\ h.alg = "Ed25519" /\ h.contentType = ContentType(k)
        /\ h.kid = KidFromPublicKey(key)
    BY DEF ProtectedHeader
  <1>3. SignedTerm(k, key, payload) = <<key, SigStructure(h, payload)>>
    BY DEF SignedTerm
  <1> HIDE DEF h, o
  <1>4. Sign1Refusal(o) = None /\ HeaderRefusal(o.header) = None
    BY <1>1, <1>2 DEF Sign1Refusal, HeaderRefusal
  <1>5. VerifyCoseSign1(o, Pem(key), ContentType(k))
    BY <1>1, <1>2, <1>3, <1>4, PinnedKey DEF VerifyCoseSign1
  <1>6. CoseDecodeRefusal(o) = None
    BY <1>1, <1>4 DEF CoseDecodeRefusal
  <1> QED BY <1>1, <1>4, <1>5, <1>6 DEF o

LEMMA OwnPin ==
  \A key \in Ed25519Keys : \A doc : doc.publicKeyPem = Pem(key) => CarriesPinned(doc, Pem(key))
  <1> SUFFICES ASSUME NEW key \in Ed25519Keys, NEW doc, doc.publicKeyPem = Pem(key)
               PROVE  CarriesPinned(doc, Pem(key))
    OBVIOUS
  <1>1. key # None
    BY KeysAssumption
  <1>2. ToSpkiDer(Pem(key)) = key
    BY DEF ToSpkiDer, Pem
  <1> QED BY <1>1, <1>2, TextsAreThere DEF CarriesPinned, SameSpkiKey

(* A document as the package's COSE signers return it.                     *)
Offers(k, doc, key, claims, payload) ==
  /\ doc.claims = claims /\ doc.encoding = "cose" /\ doc.publicKeyPem = Pem(key)
  /\ doc.coseHex = Hex(FreshOctets(k, key, payload))
  /\ doc.coseHex.octets = FreshOctets(k, key, payload) /\ doc.coseHex.spelling = "lower"
  /\ Has(doc.coseHex) /\ Has(doc.publicKeyPem)
  /\ doc.counterCoseHex = Missing /\ doc.payeePublicKeyPem = Missing /\ doc.unlisted = Missing
  /\ doc.signature = IF k \in {"receipt", "manifest"} THEN Base64(SignedTerm(k, key, payload)) ELSE Missing

LEMMA CoseDocOffers ==
  ASSUME NEW k, NEW key, NEW claims, NEW payload
  PROVE  Offers(k, CoseDoc(k, key, claims, payload), key, claims, payload)
  <1> DEFINE o == FreshOctets(k, key, payload)
             doc == CoseDoc(k, key, claims, payload)
  <1>1. /\ doc.claims = claims /\ doc.encoding = "cose" /\ doc.publicKeyPem = Pem(key)
        /\ doc.coseHex = Hex(o)
        /\ doc.counterCoseHex = Missing /\ doc.payeePublicKeyPem = Missing /\ doc.unlisted = Missing
        /\ doc.signature = IF k \in {"receipt", "manifest"} THEN Base64(SignedTerm(k, key, payload)) ELSE Missing
    BY DEF CoseDoc, FreshOctets
  <1> HIDE DEF o, doc
  <1>2. doc.coseHex.octets = o /\ doc.coseHex.spelling = "lower"
    BY <1>1 DEF Hex
  <1>3. Has(doc.coseHex) /\ Has(doc.publicKeyPem)
    BY <1>1, TextsAreThere
  <1> QED BY <1>1, <1>2, <1>3 DEF Offers, o, doc

LEMMA OfferedSays ==
  ASSUME NEW k, NEW doc, NEW key \in Ed25519Keys, NEW claims, NEW payload,
         Offers(k, doc, key, claims, payload), payload.fault = None, JcsEncodable(claims),
         NEW decoded, claims \in decoded
  PROVE  OctetsSay(doc, Pem(key), ContentType(k), decoded)
  <1>1. VerifyCoseSign1(FreshOctets(k, key, payload), Pem(key), ContentType(k))
    BY FreshVerifies
  <1>2. BufferFromHex(doc.coseHex) = FreshOctets(k, key, payload) /\ Has(doc.coseHex) /\ doc.claims = claims
    BY DEF Offers, BufferFromHex
  <1> QED BY <1>1, <1>2 DEF OctetsSay, SameCanonical

LEMMA OfferedVerifies ==
  ASSUME NEW k \in CoseKinds, NEW doc, NEW key \in Ed25519Keys, NEW claims, NEW payload,
         Offers(k, doc, key, claims, payload), payload.fault = None, JcsEncodable(claims),
         claims \in Decoded(k, payload),
         k = "receipt" => FlagMatchesHash(claims),
         k = "decision" => AssertDecisionRecordClaims(claims),
         k = "token" => NumberOf[claims["expiryMs"]] >= NumberOf.n1
  PROVE  Verify(k, doc, Pem(key)) /\ VerifyUnderPin(k, doc, Pem(key))
  <1>1. /\ CarriesPinned(doc, Pem(key)) /\ Has(Pem(key)) /\ Has(doc.coseHex)
        /\ doc.publicKeyPem = Pem(key) /\ doc.claims = claims /\ doc.encoding = "cose"
        /\ BufferFromHex(doc.coseHex) = FreshOctets(k, key, payload)
    BY OwnPin, TextsAreThere DEF Offers, BufferFromHex
  <1>2. PayloadOf(doc) = payload
    <2>1. FreshOctets(k, key, payload).payload = payload
      BY FreshVerifies
    <2> QED BY <1>1, <2>1 DEF PayloadOf
  <1>3. OctetsSay(doc, Pem(key), ContentType(k), Decoded(k, payload))
    BY OfferedSays
  <1>4. CASE k = "receipt"
    <2>1. /\ VerifyCoseSign1(FreshOctets(k, key, payload), Pem(key), "receipt")
          /\ FreshOctets(k, key, payload).payload = payload
      BY <1>4, FreshVerifies DEF ContentType
    <2>2. claims \in ClaimsFromCbor(payload)
      BY <1>4 DEF Decoded, ClaimsFromCbor, Table
    <2>3. SameCanonical(claims, claims)
      BY DEF SameCanonical
    <2>4. ReceiptOctetsVerify(doc, Pem(key))
      BY <1>1, <1>4, <2>1, <2>2, <2>3 DEF ReceiptOctetsVerify
    <2>5. VerifyReceipt(doc, Pem(key)) /\ VerifyReceiptUnderPin(doc, Pem(key))
      BY <1>1, <2>4 DEF VerifyReceipt, VerifyReceiptCose, VerifyReceiptUnderPin
    <2> QED BY <1>4, <2>5 DEF Verify, VerifyUnderPin
  <1>5. CASE k = "decision"
    <2>1. claims \in ReadDecisionRecord(payload)
      BY <1>5 DEF ReadDecisionRecord, DecisionRecordFromCbor, Decoded, Table
    <2>2. OctetsSay(doc, Pem(key), "decision-record", ReadDecisionRecord(payload))
      BY <1>5, <2>1, OfferedSays DEF ContentType
    <2>3. VerifyDecisionRecord(doc, Pem(key))
      BY <1>1, <1>2, <2>2 DEF VerifyDecisionRecord
    <2> QED BY <1>5, <2>3 DEF Verify, VerifyUnderPin
  <1>6. CASE k = "token"
    <2>1. Decoded(k, payload) = DecisionTokenFromCbor(payload)
      BY <1>6 DEF Decoded, DecisionTokenFromCbor, Table
    <2>2. VerifyDecisionToken(doc, NumberOf.n1, Pem(key))
      BY <1>1, <1>2, <1>3, <1>6, <2>1 DEF VerifyDecisionToken, ContentType
    <2> QED BY <1>6, <2>2 DEF Verify, VerifyUnderPin
  <1>7. CASE k = "checkpoint"
    <2>1. Decoded(k, payload) = CheckpointFromCbor(payload)
      BY <1>7 DEF Decoded, CheckpointFromCbor, Table
    <2>2. VerifyCheckpoint(doc, Pem(key)) /\ VerifyCheckpointUnderPin(doc, Pem(key))
      BY <1>1, <1>2, <1>3, <1>7, <2>1 DEF VerifyCheckpoint, VerifyCheckpointUnderPin, ContentType
    <2> QED BY <1>7, <2>2 DEF Verify, VerifyUnderPin
  <1>8. CASE k = "manifest"
    <2>1. Decoded(k, payload) = ManifestFromCbor(payload)
      BY <1>8 DEF Decoded
    <2>2. VerifyManifest(doc, Pem(key))
      BY <1>1, <1>2, <1>3, <1>8, <2>1 DEF VerifyManifest, ContentType
    <2> QED BY <1>8, <2>2 DEF Verify, VerifyUnderPin
  <1> QED BY <1>4, <1>5, <1>6, <1>7, <1>8 DEF CoseKinds

LEMMA OfferedInForm ==
  ASSUME NEW k \in CoseKinds \ {"token"}, NEW doc, NEW key \in Ed25519Keys, NEW claims, NEW payload,
         Offers(k, doc, key, claims, payload), payload.fault = None, JcsEncodable(claims),
         claims \in Decoded(k, payload), Has(claims)
  PROVE  InForm(FormKind[k], doc)
  <1> DEFINE f == FormKind[k]
             o == FreshOctets(k, key, payload)
  <1>1. /\ f \in {"spend", "decision", "checkpoint", "manifest"}
        /\ f \in {"spend", "manifest"} <=> k \in {"receipt", "manifest"}
    BY DEF FormKind, CoseKinds
  <1>2. Decoded(k, payload) = DecodeClaims(f, payload)
    BY DEF CoseKinds, FormKind, DecodeClaims, Decoded, Table, ClaimsFromCbor,
           DecisionRecordFromCbor, CheckpointFromCbor
  <1>3. Sign1Refusal(o) = None /\ CoseDecodeRefusal(o) = None /\ o.payload = payload
        /\ o.signature = SignedTerm(k, key, payload)
    BY FreshVerifies
  <1> HIDE DEF f, o
  <1>4. /\ doc.claims = claims /\ doc.encoding = "cose" /\ doc.publicKeyPem = Pem(key)
        /\ doc.coseHex = Hex(o) /\ doc.coseHex.octets = o /\ doc.coseHex.spelling = "lower"
        /\ Has(doc.coseHex) /\ Has(doc.publicKeyPem)
        /\ ~Has(doc.counterCoseHex) /\ ~Has(doc.payeePublicKeyPem) /\ ~Has(doc.unlisted)
        /\ doc.signature = IF k \in {"receipt", "manifest"} THEN Base64(o.signature) ELSE Missing
    BY <1>3 DEF Offers, Has, o
  <1>5. Has(doc.signature) <=> k \in {"receipt", "manifest"}
    BY <1>4, TextsAreThere DEF Has
  <1>6. MemberProblems(f, doc) = {}
    <2>1. \A m \in Members \ Allowed(f) : ~HasMember(doc, m)
      BY <1>1, <1>4, <1>5 DEF Members, Allowed, Required, HasMember
    <2>2. \A m \in Required(f, doc.encoding) : HasMember(doc, m)
      BY <1>1, <1>4, <1>5 DEF Required, HasMember
    <2> QED BY <2>1, <2>2 DEF MemberProblems
  <1>7. TextProblems(f, doc) = {}
    <2>1. Has(doc.signature) => IsPaddedBase64(doc.signature)
      BY <1>4, <1>5 DEF Base64, IsPaddedBase64
    <2>2. IsSpkiPem(doc.publicKeyPem)
      BY <1>4 DEF IsSpkiPem, Pem
    <2> QED BY <1>4, <2>1, <2>2 DEF TextProblems, HasMember
  <1>8. HexProblem(doc.coseHex) = None
    BY <1>3, <1>4 DEF HexProblem, IsLowercaseHex, CoseDecodeRefusalHex
  <1>9. HexProblems(f, doc) = {}
    BY <1>4, <1>8 DEF HexProblems, HexMembers, HasMember
  <1>10. OctetProblems(f, doc) = {}
    <2>1. ClaimsMatch(f, doc, o)
      BY <1>2, <1>3, <1>4 DEF ClaimsMatch, SameCanonical
    <2>2. SignatureMatches(f, doc, o)
      BY <1>1, <1>4 DEF SignatureMatches
    <2> QED BY <1>4, <2>1, <2>2 DEF OctetProblems, When
  <1> QED BY <1>6, <1>7, <1>9, <1>10 DEF InForm, CheckSignedObject, f

LEMMA ClaimsAreThere ==
  ASSUME NEW k, NEW claims, IsClaims(k, claims)
  PROVE  Has(claims)
  <1>1. "unlisted" \in DOMAIN claims
    BY DEF IsClaims
  <1>2. DOMAIN Missing = {"missing"}
    BY DEF Missing
  <1> QED BY <1>1, <1>2 DEF Has

LEMMA CoseSignedAccepted ==
  ASSUME NEW k \in CoseKinds, NEW claims, IsClaims(k, claims), WellTyped(k, claims),
         k = "manifest" => claims["ap2MandateHash"] # "null",
         k = "token" => NumberOf[claims["expiryMs"]] >= NumberOf.n1,
         NEW key, NEW doc \in Sign(k, claims, key)
  PROVE  /\ Verify(k, doc, Pem(key)) /\ VerifyUnderPin(k, doc, Pem(key))
         /\ HasForm(k) => InForm(FormKind[k], doc)
  <1>0. k \in Kinds
    BY DEF CoseKinds, Kinds
  <1>1. PICK payload \in PackagePayload(k, claims) : doc = CoseDoc(k, key, claims, payload)
    BY PackageSigns
  <1>2. key \in Ed25519Keys
    BY PackageSigns
  <1>3. payload.fault = None /\ claims \in Decoded(k, payload) /\ JcsEncodable(claims) /\ Has(claims)
    BY <1>0, TypedIsRead, TypedIsText, ClaimsAreThere
  <1>4. Offers(k, doc, key, claims, payload)
    BY <1>1, CoseDocOffers
  <1>5. k = "receipt" => FlagMatchesHash(claims)
    BY DEF Sign, SignReceiptCose, AssertClaimConsistency
  <1>6. k = "decision" => AssertDecisionRecordClaims(claims)
    BY DEF Sign, SignDecisionRecord
  <1>7. Verify(k, doc, Pem(key)) /\ VerifyUnderPin(k, doc, Pem(key))
    BY <1>2, <1>3, <1>4, <1>5, <1>6, OfferedVerifies
  <1>8. HasForm(k) => k # "token"
    BY DEF HasForm, FormKind
  <1>9. HasForm(k) => InForm(FormKind[k], doc)
    BY <1>2, <1>3, <1>4, <1>8, OfferedInForm
  <1> QED BY <1>7, <1>9

LEMMA ExtractSignedAccepted ==
  ASSUME NEW k \in {"rail", "effect"}, NEW claims, Has(claims), NEW key, NEW doc \in Sign(k, claims, key)
  PROVE  /\ Verify(k, doc, Pem(key)) /\ VerifyUnderPin(k, doc, Pem(key))
         /\ InForm(FormKind[k], doc)
  <1>1. doc = ExtractDoc(key, claims) /\ key \in Ed25519Keys
    BY ExtractSigns
  <1>2. /\ doc.claims = claims /\ doc.signature = Base64(<<key, claims>>) /\ doc.publicKeyPem = Pem(key)
        /\ doc.encoding = "missing" /\ doc.coseHex = Missing /\ doc.counterCoseHex = Missing
        /\ doc.payeePublicKeyPem = Missing /\ doc.unlisted = Missing
    BY <1>1 DEF ExtractDoc
  <1>3. JcsEncodable(claims) /\ (k = "rail" => RailExtractShapeHolds(claims))
        /\ (k = "effect" => EffectExtractShapeHolds(claims))
    BY DEF Sign, SignRailExtract, SignEffectExtract, When
  <1>4. BodyVerifies(doc, Pem(key))
    <2>1. CarriesPinned(doc, Pem(key)) /\ Has(doc.signature)
      BY <1>1, <1>2, OwnPin, TextsAreThere
    <2>2. doc.signature.signature = <<key, claims>>
      BY <1>2 DEF Base64
    <2>3. CreatePublicKey(doc.publicKeyPem) = key
      BY <1>2, PinnedKey
    <2> QED BY <1>2, <1>3, <2>1, <2>2, <2>3 DEF BodyVerifies
  <1>5. Verify(k, doc, Pem(key)) /\ VerifyUnderPin(k, doc, Pem(key))
    BY <1>2, <1>3, <1>4 DEF Verify, VerifyUnderPin, VerifyRailExtract, VerifyEffectExtract
  <1>6. FormKind[k] = "extract"
    BY DEF FormKind
  <1>7. ~Has(doc.coseHex) /\ ~Has(doc.counterCoseHex) /\ ~Has(doc.payeePublicKeyPem) /\ ~Has(doc.unlisted)
        /\ Has(doc.publicKeyPem) /\ Has(doc.signature) /\ ~HasMember(doc, "encoding")
    BY <1>2, TextsAreThere DEF Has, HasMember
  <1>8. Allowed("extract") = {"claims", "signature", "publicKeyPem"}
        /\ Required("extract", doc.encoding) = {"claims", "signature", "publicKeyPem"}
    BY DEF Allowed, Required
  <1>9. MemberProblems("extract", doc) = {}
    BY <1>2, <1>7, <1>8 DEF MemberProblems, Members, HasMember
  <1>10. TextProblems("extract", doc) = {}
    <2>1. IsPaddedBase64(doc.signature)
      BY <1>2 DEF Base64, IsPaddedBase64
    <2>2. IsSpkiPem(doc.publicKeyPem)
      BY <1>2 DEF IsSpkiPem, Pem
    <2> QED BY <1>8, <2>1, <2>2 DEF TextProblems
  <1>11. HexMembers("extract", doc) = {}
    BY <1>8 DEF HexMembers
  <1>12. HexProblems("extract", doc) = {} /\ OctetProblems("extract", doc) = {}
    BY <1>11 DEF HexProblems, OctetProblems, CoseReady
  <1> QED BY <1>5, <1>6, <1>9, <1>10, <1>12 DEF InForm, CheckSignedObject

LEMMA JsonAccepted ==
  ASSUME NEW claims, NEW key, NEW doc \in SignReceiptJson(claims, key)
  PROVE  VerifyReceiptJson(doc, Pem(key)) /\ ~VerifyReceipt(doc, Pem(key))
  <1>1. doc = JsonDoc(key, claims) /\ key \in Ed25519Keys
    BY JsonSigns
  <1>2. /\ doc.claims = claims /\ doc.signature = Base64(<<key, claims>>) /\ doc.publicKeyPem = Pem(key)
        /\ doc.encoding = "json"
    BY <1>1 DEF JsonDoc
  <1>3. JcsEncodable(claims) /\ FlagMatchesHash(claims)
    BY DEF SignReceiptJson, AssertClaimConsistency, When
  <1>4. CarriesPinned(doc, Pem(key)) /\ Has(doc.signature)
    BY <1>1, <1>2, OwnPin, TextsAreThere
  <1>5. doc.signature.signature = <<key, claims>> /\ IsRewrittenSame(doc.signature)
    BY <1>2 DEF Base64, IsRewrittenSame
  <1>6. CreatePublicKey(doc.publicKeyPem) = key
    BY <1>2, PinnedKey
  <1>7. VerifyReceiptJson(doc, Pem(key))
    BY <1>2, <1>3, <1>4, <1>5, <1>6 DEF VerifyReceiptJson
  <1> QED BY <1>2, <1>7 DEF VerifyReceipt

(* A ledger of no row has the first instant, one of a row the row's.       *)
LEMMA RailBases ==
  ASSUME NEW row \in Bases["rail"]
  PROVE  /\ IsClaims("rail", row)
         /\ \A x \in DOMAIN row : row[x] # "surrogate"
         /\ row["clockSkewMs"] \in {"absent", "n1"}
         /\ row["settlements"] \in Lists
         /\ row["settlements"] = "one" =>
              /\ row["ref"] = "a" /\ row["amount"] = "1" /\ row["timestampMs"] = "n1"
              /\ row["beneficiary"] = "absent"
  <1> DEFINE one == [accountId |-> "a", windowStartMs |-> "n0", windowEndMs |-> "n2",
                     settlements |-> "one", ref |-> "a", amount |-> "1", timestampMs |-> "n1"]
             none == [accountId |-> "a", windowStartMs |-> "n0", windowEndMs |-> "n2",
                      settlements |-> "none", clockSkewMs |-> "n1"]
  <1>0. "rail" \in Kinds
    BY DEF Kinds
  <1>1. row \in BasesOf("rail") /\ IsClaims("rail", row)
    BY <1>0, BaseClaims DEF IsBase
  <1>2. row = With("rail", one) \/ row = With("rail", none)
    BY <1>1 DEF BasesOf
  <1>3. DOMAIN Table("rail") = {"accountId", "windowStartMs", "windowEndMs", "settlements", "clockSkewMs",
                                "ref", "amount", "timestampMs", "beneficiary", "rowUnlisted"}
    BY DEF Table, RailBody
  <1>4. CASE row = With("rail", one)
    <2>1. \A x \in DOMAIN Table("rail") \cup {"unlisted"} :
            row[x] = IF x \in DOMAIN one THEN one[x] ELSE "absent"
      BY <1>4, WithIs
    <2>2. DOMAIN one = {"accountId", "windowStartMs", "windowEndMs", "settlements", "ref", "amount", "timestampMs"}
      OBVIOUS
    <2>3. \A x \in DOMAIN one : one[x] # "surrogate"
      BY <2>2
    <2>4. DOMAIN row = DOMAIN Table("rail") \cup {"unlisted"}
      BY <1>1 DEF IsClaims
    <2>5. one["settlements"] = "one" /\ one["ref"] = "a" /\ one["amount"] = "1" /\ one["timestampMs"] = "n1"
      OBVIOUS
    <2> HIDE DEF one
    <2>6. \A x \in DOMAIN row : row[x] # "surrogate"
      BY <2>1, <2>3, <2>4
    <2>7. row["clockSkewMs"] = "absent" /\ row["beneficiary"] = "absent" /\ row["settlements"] = "one"
          /\ row["ref"] = "a" /\ row["amount"] = "1" /\ row["timestampMs"] = "n1"
      BY <1>3, <2>1, <2>2, <2>5
    <2> QED BY <1>1, <2>6, <2>7 DEF Lists
  <1>5. CASE row = With("rail", none)
    <2>1. \A x \in DOMAIN Table("rail") \cup {"unlisted"} :
            row[x] = IF x \in DOMAIN none THEN none[x] ELSE "absent"
      BY <1>5, WithIs
    <2>2. DOMAIN none = {"accountId", "windowStartMs", "windowEndMs", "settlements", "clockSkewMs"}
      OBVIOUS
    <2>3. \A x \in DOMAIN none : none[x] # "surrogate"
      BY <2>2
    <2>4. DOMAIN row = DOMAIN Table("rail") \cup {"unlisted"}
      BY <1>1 DEF IsClaims
    <2>5. none["settlements"] = "none" /\ none["clockSkewMs"] = "n1"
      OBVIOUS
    <2> HIDE DEF none
    <2>6. \A x \in DOMAIN row : row[x] # "surrogate"
      BY <2>1, <2>3, <2>4
    <2>7. row["clockSkewMs"] = "n1" /\ row["settlements"] = "none"
      BY <1>3, <2>1, <2>2, <2>5
    <2> QED BY <1>1, <2>6, <2>7 DEF Lists
  <1> QED BY <1>2, <1>4, <1>5

LEMMA LedgerSigns ==
  ASSUME NEW row \in Bases["rail"], NEW key \in Ed25519Keys
  PROVE  SignedLedger(row, key) # {}
  <1> DEFINE start == IF row.settlements = "none" THEN "n0" ELSE row.timestampMs
             end == IF row.settlements = "none" THEN "n1" ELSE After(row.timestampMs)
             body == ExtractBodyOf(row, "a")
  <1>0. After("n1") = "n2"
    <2>1. /\ "n2" \in Numbers /\ NumberOf["n2"] = NumberOf["n1"] + 1
          /\ \A n \in Numbers : NumberOf[n] = NumberOf["n1"] + 1 => n = "n2"
      BY DEF Numbers, NumberOf
    <2> QED BY <2>1 DEF After
  <1>1. DOMAIN row = {"accountId", "windowStartMs", "windowEndMs", "settlements", "clockSkewMs",
                      "ref", "amount", "timestampMs", "beneficiary", "rowUnlisted", "unlisted"}
    BY RailBases DEF IsClaims, Table, RailBody
  <1>2. /\ start \in Numbers /\ end \in Numbers /\ NumberOf[start] < NumberOf[end]
        /\ start # "surrogate" /\ end # "surrogate"
    <2>1. CASE row.settlements = "none"
      BY <2>1 DEF Numbers, NumberOf
    <2>2. CASE row.settlements = "one"
      <3>1. start = "n1" /\ end = "n2"
        BY <1>0, <2>2, RailBases
      <3> HIDE DEF start, end
      <3> QED BY <3>1 DEF Numbers, NumberOf
    <2> QED BY <2>1, <2>2, RailBases DEF Lists
  <1>3. body = [row EXCEPT !.accountId = "a", !.windowStartMs = start, !.windowEndMs = end,
                           !.clockSkewMs = "absent"]
    BY DEF ExtractBodyOf
  <1> HIDE DEF start, end, body
  <1>4. /\ DOMAIN body = DOMAIN row
        /\ body["accountId"] = "a" /\ body["windowStartMs"] = start /\ body["windowEndMs"] = end
        /\ body["clockSkewMs"] = "absent"
        /\ \A x \in DOMAIN row \ {"accountId", "windowStartMs", "windowEndMs", "clockSkewMs"} :
             body[x] = row[x]
    BY <1>1, <1>3
  <1>5. JcsEncodable(body)
    BY <1>2, <1>4, RailBases DEF JcsEncodable
  <1>6. body["settlements"] = row["settlements"] /\ body["ref"] = row["ref"] /\ body["amount"] = row["amount"]
        /\ body["timestampMs"] = row["timestampMs"] /\ body["beneficiary"] = row["beneficiary"]
    BY <1>1, <1>4
  <1>7. IsWindow(body)
    BY <1>2, <1>4 DEF IsWindow, IsSafeInteger
  <1>8. body["settlements"] = "one" => SettlementHolds(body)
    BY <1>6, RailBases DEF SettlementHolds, IsText, Texts, IsValidAmountText, IsSafeInteger, Numbers
  <1>9. RailExtractShapeHolds(body)
    BY <1>4, <1>6, <1>7, <1>8, RailBases DEF RailExtractShapeHolds, IsText, Texts
  <1> QED BY <1>5, <1>9 DEF SignedLedger, SignRailExtract, When, CanSign, body

LEMMA UntouchedAccepted == ASSUME DocInv PROVE SignedIsAccepted
  <1>0. kind \in Kinds /\ \A d \in issued : IssuedDoc(kind, d)
    BY DEF DocInv
  <1>1. ASSUME shown # Missing, Unchanged("signer") \/ Unchanged("ledger"), ~ExplicitNull,
               WellTyped(kind, shown.claims), ~Expired
        PROVE  Accepted(shown, Issuer)
    <2>1. PICK d \in issued : d.how \in {"signer", "ledger"} /\ d.doc = shown
      BY <1>1 DEF Unchanged
    <2>2. /\ IsClaims(kind, shown.claims) /\ d.by \in {Issuer, Weak} /\ shown \in Sign(kind, shown.claims, d.by)
      BY <1>0, <2>1 DEF IssuedDoc
    <2>3. kind = "manifest" => shown.claims["ap2MandateHash"] # "null"
      BY <1>1 DEF ExplicitNull
    <2>4. kind = "token" => NumberOf[shown.claims["expiryMs"]] >= NumberOf.n1
      <3> SUFFICES ASSUME kind = "token" PROVE NumberOf[shown.claims["expiryMs"]] >= NumberOf.n1
        OBVIOUS
      <3>1. shown.claims["expiryMs"] \in Numbers
        BY <1>1 DEF WellTyped, Table, DecisionTokenClaims
      <3>2. ~(NumberOf[shown.claims["expiryMs"]] < NumberOf.n1)
        BY <1>1 DEF Expired
      <3> DEFINE e == shown.claims["expiryMs"]
      <3> HIDE DEF e
      <3>3. e \in Numbers /\ ~(NumberOf[e] < NumberOf.n1)
        BY <3>1, <3>2 DEF e
      <3>4. NumberOf[e] \in Int /\ NumberOf.n1 \in Int
        BY <3>3 DEF Numbers, NumberOf
      <3>5. NumberOf[e] >= NumberOf.n1
        BY <3>3, <3>4
      <3> QED BY <3>5 DEF e
    <2>5. CASE kind \in CoseKinds
      <3>1. d.by \in Ed25519Keys
        BY <2>2, <2>5, PackageSigns
      <3>2. d.by = Issuer
        BY <2>2, <3>1, KeysAssumption, PartiesAssumption
      <3>3. /\ Verify(kind, shown, Pem(Issuer)) /\ VerifyUnderPin(kind, shown, Pem(Issuer))
            /\ HasForm(kind) => InForm(FormKind[kind], shown)
        BY <1>1, <2>2, <2>3, <2>4, <2>5, <3>2, CoseSignedAccepted
      <3> QED BY <3>3 DEF Accepted
    <2>6. CASE kind \notin CoseKinds
      <3>1. kind \in {"rail", "effect"}
        BY <1>0, <2>6 DEF Kinds, CoseKinds
      <3>2. d.by \in Ed25519Keys
        BY <2>2, <3>1, ExtractSigns
      <3>3. d.by = Issuer /\ Has(shown.claims)
        BY <2>2, <3>2, KeysAssumption, PartiesAssumption, ClaimsAreThere
      <3>4. /\ Verify(kind, shown, Pem(Issuer)) /\ VerifyUnderPin(kind, shown, Pem(Issuer))
            /\ InForm(FormKind[kind], shown)
        BY <2>2, <3>1, <3>3, ExtractSignedAccepted
      <3> QED BY <3>4 DEF Accepted
    <2> QED BY <2>5, <2>6
  <1>2. ASSUME shown # Missing, Unchanged("json")
        PROVE  VerifyReceiptJson(shown, Pem(Issuer)) /\ ~VerifyReceipt(shown, Pem(Issuer))
    <2>1. PICK d \in issued : d.how = "json" /\ d.doc = shown
      BY <1>2 DEF Unchanged
    <2>2. shown \in SignReceiptJson(shown.claims, Issuer)
      BY <1>0, <2>1 DEF IssuedDoc
    <2> QED BY <2>2, JsonAccepted
  <1>3. ASSUME kind = "rail", NEW row \in Bases[kind]
        PROVE  SignedLedger(row, Issuer) # {}
    BY <1>3, LedgerSigns, PartiesAssumption
  <1> QED BY <1>1, <1>2, <1>3 DEF SignedIsAccepted

-----------------------------------------------------------------------------
(* What is about at the start.                                             *)

LEMMA EarlierDocIs ==
  ASSUME NEW k \in Kinds, NEW key \in {Issuer, Stranger}, NEW doc \in Earlier(k, key)
  PROVE  \E signed \in Sign(k, EarlierClaims(k), key) :
           \/ k # "receipt" /\ doc = signed
           \/ k = "receipt" /\ doc \in CounterSigned(signed, Payee, "h1")
  <1> DEFINE base == CHOOSE b \in Bases[k] : TRUE
             claims == CASE k = "checkpoint" -> [base EXCEPT !.epoch = "n2"]
                  [] IsExtract(k) -> [base EXCEPT !.windowStartMs = "minus"]
                  [] k = "receipt" -> [base EXCEPT !.nonce = "long2"]
                  [] k = "token" -> [base EXCEPT !.nonce = "b"]
                  [] k = "decision" -> [base EXCEPT !.requestHash = "h2"]
                  [] k = "manifest" -> [base EXCEPT !.description = "b"]
  <1> HIDE DEF base
  <1>1. claims = [base EXCEPT ![Mark(k)] = MarkOfEarlier(k)]
    BY DEF Mark, MarkOfEarlier, Kinds, IsExtract
  <1>2. claims = EarlierClaims(k)
    BY <1>1 DEF EarlierClaims, base
  <1> HIDE DEF claims
  <1>3. \E signed \in Sign(k, claims, key) :
          doc \in IF k = "receipt" THEN CounterSign(signed, Payee, Pem(key), "h1") ELSE {signed}
    BY DEF Earlier, claims, base
  <1>4. \A signed : CounterSign(signed, Payee, Pem(key), "h1") \subseteq CounterSigned(signed, Payee, "h1")
    BY DEF CounterSign
  <1> QED BY <1>2, <1>3, <1>4

LEMMA CounterSignedIs ==
  ASSUME NEW signed, IsDocument(signed), NEW delivered, NEW doc \in CounterSigned(signed, Payee, delivered)
  PROVE  /\ IsDocument(doc) /\ doc.claims = signed.claims /\ doc.publicKeyPem = signed.publicKeyPem
         /\ SameSigned(doc, signed)
         /\ Has(doc.counterCoseHex)
         /\ doc.counterCoseHex.octets.signature = CounterTerm(BufferFromHex(signed.coseHex), delivered)
  <1> DEFINE payload == [fault |-> None, claims |->
                          [receiptCose |-> BufferFromHex(signed.coseHex), deliveredHash |-> delivered]]
             term == <<Payee, SigStructure(ProtectedHeader("countersign", Payee), payload)>>
             octets == Message(ProtectedHeader("countersign", Payee), payload, term)
             hex == Hex(octets)
             pem == Pem(Payee)
  <1>1. doc = [signed EXCEPT !.counterCoseHex = hex, !.payeePublicKeyPem = pem]
    <2> DEFINE with(x) == [signed EXCEPT !.counterCoseHex = Hex(x), !.payeePublicKeyPem = Pem(Payee)]
    <2>1. \E x \in SignCoseSign1(payload, Payee, "countersign") : doc = with(x)
      BY Zenon DEF CounterSigned
    <2>2. \A x \in SignCoseSign1(payload, Payee, "countersign") : x = octets
      BY DEF SignCoseSign1, When
    <2>3. doc = with(octets)
      <3> HIDE DEF with, octets, payload
      <3> QED BY <2>1, <2>2
    <2> QED BY <2>3
  <1>2. term = CounterTerm(BufferFromHex(signed.coseHex), delivered)
    BY DEF CounterTerm
  <1>3. octets.signature = term
    BY DEF Message
  <1>4. hex.octets = octets /\ Has(hex)
    BY TextsAreThere DEF Hex
  <1> HIDE DEF term, octets, payload, hex, pem
  <1>5. doc.counterCoseHex = hex /\ doc.payeePublicKeyPem = pem /\ IsDocument(doc)
        /\ doc.claims = signed.claims /\ doc.publicKeyPem = signed.publicKeyPem
        /\ doc.signature = signed.signature /\ doc.encoding = signed.encoding
        /\ doc.coseHex = signed.coseHex /\ doc.unlisted = signed.unlisted
    BY <1>1 DEF IsDocument
  <1> QED BY <1>1, <1>2, <1>3, <1>4, <1>5 DEF SameSigned

(* A document as some signer leaves it, before it is countersigned.        *)
WellFormed(doc) ==
  /\ IsDocument(doc)
  /\ doc.encoding \in {"cose", "json", "missing"}
  /\ Has(doc.signature) =>
       doc.signature = [signature |-> doc.signature.signature, spelling |-> doc.signature.spelling]
  /\ Has(doc.coseHex) =>
       /\ doc.coseHex = [octets |-> doc.coseHex.octets, spelling |-> doc.coseHex.spelling]
       /\ IsMessage(doc.coseHex.octets)

LEMMA TextsAreRecords ==
  /\ \A signature : Base64(signature) = [signature |-> Base64(signature).signature, spelling |-> Base64(signature).spelling]
  /\ \A octets : Hex(octets) = [octets |-> Hex(octets).octets, spelling |-> Hex(octets).spelling] /\ Hex(octets).octets = octets
  /\ \A header, payload, signature : IsMessage(Message(header, payload, signature))
  <1>1. \A signature : Base64(signature) = [signature |-> Base64(signature).signature, spelling |-> Base64(signature).spelling]
    BY DEF Base64
  <1>2. \A octets : Hex(octets) = [octets |-> Hex(octets).octets, spelling |-> Hex(octets).spelling] /\ Hex(octets).octets = octets
    BY DEF Hex
  <1>3. \A header, payload, signature : IsMessage(Message(header, payload, signature))
    BY DEF Message, IsMessage
  <1> QED BY <1>1, <1>2, <1>3

LEMMA RecordIsDocument ==
  ASSUME NEW c, NEW s, NEW p, NEW e \in {"cose", "json", "missing"}, NEW h, NEW u, NEW x, NEW y,
         Has(s) => \E t : s = Base64(t),
         Has(h) => \E header, payload, signature : h = Hex(Message(header, payload, signature))
  PROVE  WellFormed([claims |-> c, signature |-> s, publicKeyPem |-> p, encoding |-> e, coseHex |-> h,
                     counterCoseHex |-> u, payeePublicKeyPem |-> x, unlisted |-> y])
  <1> DEFINE doc == [claims |-> c, signature |-> s, publicKeyPem |-> p, encoding |-> e, coseHex |-> h,
                     counterCoseHex |-> u, payeePublicKeyPem |-> x, unlisted |-> y]
  <1>1. IsDocument(doc) /\ doc.encoding = e /\ doc.signature = s /\ doc.coseHex = h
    BY DEF IsDocument
  <1>2. ASSUME Has(s) PROVE s = [signature |-> s.signature, spelling |-> s.spelling]
    <2>1. PICK t : s = Base64(t)
      BY <1>2
    <2> QED BY <2>1, TextsAreRecords
  <1>3. ASSUME Has(h) PROVE h = [octets |-> h.octets, spelling |-> h.spelling] /\ IsMessage(h.octets)
    <2>1. PICK a, b, t : h = Hex(Message(a, b, t))
      BY <1>3
    <2> DEFINE m == Message(a, b, t)
    <2>2. IsMessage(m)
      BY TextsAreRecords
    <2> HIDE DEF m
    <2>3. Hex(m) = [octets |-> Hex(m).octets, spelling |-> Hex(m).spelling] /\ Hex(m).octets = m
      BY TextsAreRecords
    <2>4. h = Hex(m)
      BY <2>1 DEF m
    <2> QED BY <2>2, <2>3, <2>4
  <1> HIDE DEF doc
  <1>4. WellFormed(doc)
    BY <1>1, <1>2, <1>3 DEF WellFormed
  <1> QED BY <1>4 DEF doc

LEMMA CoseDocIsDocument ==
  ASSUME NEW k, NEW by, NEW claims, NEW payload
  PROVE  /\ WellFormed(CoseDoc(k, by, claims, payload))
         /\ CoseDoc(k, by, claims, payload).claims = claims
         /\ ~Has(CoseDoc(k, by, claims, payload).counterCoseHex)
         /\ Has(CoseDoc(k, by, claims, payload).coseHex)
         /\ PayloadIn(CoseDoc(k, by, claims, payload)) = payload
  <1> DEFINE doc == CoseDoc(k, by, claims, payload)
             h == ProtectedHeader(ContentType(k), by)
             s == IF k \in {"receipt", "manifest"} THEN Base64(SignedTerm(k, by, payload)) ELSE Missing
             x == Hex(Message(h, payload, SignedTerm(k, by, payload)))
             p == Pem(by)
  <1>1. doc = [claims |-> claims, signature |-> s, publicKeyPem |-> p, encoding |-> "cose", coseHex |-> x,
               counterCoseHex |-> Missing, payeePublicKeyPem |-> Missing, unlisted |-> Missing]
    BY DEF CoseDoc
  <1>2. Has(s) => \E t : s = Base64(t)
    BY DEF Has
  <1>3. \E a, b, t : x = Hex(Message(a, b, t))
    <2> HIDE DEF h
    <2>1. x = Hex(Message(h, payload, SignedTerm(k, by, payload)))
      OBVIOUS
    <2> HIDE DEF x
    <2> QED BY <2>1
  <1>4. Has(x) /\ x.octets.payload = payload
    <2>1. Message(h, payload, SignedTerm(k, by, payload)).payload = payload
      BY DEF Message
    <2>2. x.octets = Message(h, payload, SignedTerm(k, by, payload))
      BY TextsAreRecords
    <2> QED BY <2>1, <2>2, TextsAreThere
  <1> HIDE DEF s, x, p, doc, h
  <1>5. WellFormed(doc)
    BY <1>1, <1>2, <1>3, RecordIsDocument
  <1>6. doc.claims = claims /\ doc.counterCoseHex = Missing /\ doc.coseHex = x
    BY <1>1
  <1>7. PayloadIn(doc) = payload
    BY <1>4, <1>6 DEF PayloadIn
  <1> QED BY <1>4, <1>5, <1>6, <1>7 DEF Has, doc

LEMMA OtherDocIsDocument ==
  ASSUME NEW by, NEW claims, NEW doc, doc \in {ExtractDoc(by, claims), JsonDoc(by, claims)}
  PROVE  WellFormed(doc) /\ doc.claims = claims /\ ~Has(doc.counterCoseHex)
  <1> DEFINE s == Base64(<<by, claims>>)
             p == Pem(by)
  <1>1. PICK e \in {"json", "missing"} :
          doc = [claims |-> claims, signature |-> s, publicKeyPem |-> p, encoding |-> e, coseHex |-> Missing,
                 counterCoseHex |-> Missing, payeePublicKeyPem |-> Missing, unlisted |-> Missing]
    BY DEF ExtractDoc, JsonDoc
  <1>2. \E t : s = Base64(t)
    OBVIOUS
  <1>3. ~Has(Missing)
    BY DEF Has
  <1> HIDE DEF s, p
  <1>4. WellFormed(doc)
    BY <1>1, <1>2, <1>3, RecordIsDocument
  <1> QED BY <1>1, <1>4 DEF Has

(* A document that leaves a signer in any of the ways there are.           *)
Leaves(k, by, how, doc) ==
  /\ WellFormed(doc) /\ IsClaims(k, doc.claims)
  /\ ~Has(doc.counterCoseHex) /\ IssuedDoc(k, Leave(by, how, doc))

LEMMA LeaveIs == \A by, how, doc : Leave(by, how, doc).by = by /\ Leave(by, how, doc).how = how /\ Leave(by, how, doc).doc = doc
  BY DEF Leave

LEMMA CoseLeaves ==
  ASSUME NEW k \in CoseKinds, NEW by \in {Issuer, Stranger, Weak}, NEW how, NEW claims, NEW payload,
         NEW doc, doc = CoseDoc(k, by, claims, payload),
         IsClaims(k, claims), Tells(k, claims, payload),
         how = "earlier" => claims = EarlierClaims(k) /\ \A c \in Decoded(k, payload) : c = claims,
         how \in {"signer", "ledger"} => by \in {Issuer, Weak} /\ doc \in Sign(k, claims, by),
         how # "json"
  PROVE  Leaves(k, by, how, doc)
  <1>1. /\ WellFormed(doc) /\ doc.claims = claims /\ ~Has(doc.counterCoseHex)
        /\ Has(doc.coseHex) /\ PayloadIn(doc) = payload
    BY CoseDocIsDocument
  <1> DEFINE d == Leave(by, how, doc)
  <1>2. d.by = by /\ d.how = how /\ d.doc = doc
    BY LeaveIs
  <1> HIDE DEF d
  <1>3. SameSigned(d.doc, CoseDoc(k, d.by, d.doc.claims, PayloadIn(d.doc)))
    BY <1>1, <1>2 DEF SameSigned
  <1>4. AsCose(k, d)
    BY <1>1, <1>2, <1>3 DEF AsCose
  <1>5. ~IsExtract(k)
    BY DEF CoseKinds, IsExtract
  <1>6. IssuedDoc(k, d)
    BY <1>1, <1>2, <1>4, <1>5 DEF IssuedDoc
  <1> QED BY <1>1, <1>6 DEF Leaves, d

LEMMA ExtractLeaves ==
  ASSUME NEW k \in {"rail", "effect"}, NEW by \in {Issuer, Stranger, Weak}, NEW how, NEW claims,
         NEW doc, doc = ExtractDoc(by, claims), IsClaims(k, claims),
         how = "earlier" => claims = EarlierClaims(k),
         how \in {"signer", "ledger"} => by \in {Issuer, Weak} /\ doc \in Sign(k, claims, by),
         how # "json"
  PROVE  Leaves(k, by, how, doc)
  <1>1. WellFormed(doc) /\ doc.claims = claims /\ ~Has(doc.counterCoseHex)
    BY OtherDocIsDocument
  <1> DEFINE d == Leave(by, how, doc)
  <1>2. d.by = by /\ d.how = how /\ d.doc = doc
    BY LeaveIs
  <1> HIDE DEF d
  <1>3. SameSigned(d.doc, ExtractDoc(d.by, d.doc.claims)) /\ IsExtract(k)
    BY <1>1, <1>2 DEF SameSigned, IsExtract
  <1>4. IssuedDoc(k, d)
    BY <1>1, <1>2, <1>3 DEF IssuedDoc
  <1> QED BY <1>1, <1>4 DEF Leaves, d

LEMMA JsonLeaves ==
  ASSUME NEW claims, IsClaims("receipt", claims), NEW doc \in SignReceiptJson(claims, Issuer)
  PROVE  Leaves("receipt", Issuer, "json", doc)
  <1>1. doc = JsonDoc(Issuer, claims)
    BY JsonSigns
  <1>2. WellFormed(doc) /\ doc.claims = claims /\ ~Has(doc.counterCoseHex)
    BY <1>1, OtherDocIsDocument
  <1> DEFINE d == Leave(Issuer, "json", doc)
  <1>3. d.by = Issuer /\ d.how = "json" /\ d.doc = doc
    BY LeaveIs
  <1> HIDE DEF d
  <1>4. SameSigned(d.doc, JsonDoc(d.by, d.doc.claims))
    BY <1>1, <1>2, <1>3 DEF SameSigned
  <1>5. IssuedDoc("receipt", d)
    BY <1>2, <1>3, <1>4 DEF IssuedDoc
  <1> QED BY <1>2, <1>5 DEF Leaves, d

LEMMA SignerLeaves ==
  ASSUME NEW k \in Kinds, NEW by \in {Issuer, Weak}, NEW claims \in Variants[k], NEW doc \in Sign(k, claims, by)
  PROVE  Leaves(k, by, "signer", doc)
  <1>1. IsClaims(k, claims)
    BY VariantIs
  <1>2. CASE k \in CoseKinds
    <2>1. PICK payload \in PackagePayload(k, claims) : doc = CoseDoc(k, by, claims, payload)
      BY <1>2, PackageSigns
    <2>2. Tells(k, claims, payload)
      BY <1>2, VariantTells
    <2> QED BY <1>1, <1>2, <2>1, <2>2, CoseLeaves
  <1>3. CASE k \notin CoseKinds
    <2>1. k \in {"rail", "effect"}
      BY <1>3 DEF Kinds, CoseKinds
    <2>2. doc = ExtractDoc(by, claims)
      BY <2>1, ExtractSigns
    <2> QED BY <1>1, <2>1, <2>2, ExtractLeaves
  <1> QED BY <1>2, <1>3

LEMMA OwnLeaves ==
  ASSUME NEW k \in Kinds, NEW by \in {Issuer, Weak}, NEW claims, IsClaims(k, claims),
         NEW doc \in SignOwn(k, claims, by)
  PROVE  Leaves(k, by, "own", doc)
  <1>1. CASE k \in CoseKinds
    <2>1. PICK payload, seen : /\ doc = CoseDoc(k, by, seen, payload) /\ IsClaims(k, seen)
                               /\ \A c \in Decoded(k, payload) : c = seen
      BY <1>1, OwnSigns
    <2>2. Tells(k, seen, payload)
      BY <2>1 DEF Tells
    <2> QED BY <1>1, <2>1, <2>2, CoseLeaves
  <1>2. CASE k \notin CoseKinds
    <2>1. k \in {"rail", "effect"}
      BY <1>2 DEF Kinds, CoseKinds
    <2>2. doc = ExtractDoc(by, claims)
      BY <2>1, OwnExtractSigns
    <2> QED BY <2>1, <2>2, ExtractLeaves
  <1> QED BY <1>1, <1>2

LEMMA LedgerLeaves ==
  ASSUME NEW row \in Bases["rail"], NEW doc \in SignedLedger(row, Issuer)
  PROVE  Leaves("rail", Issuer, "ledger", doc)
  <1> DEFINE body == ExtractBodyOf(row, "a")
  <1>1. IsClaims("rail", row)
    BY RailBases
  <1>2. IsClaims("rail", body)
    <2> DEFINE start == IF row.settlements = "none" THEN "n0" ELSE row.timestampMs
               end == IF row.settlements = "none" THEN "n1" ELSE After(row.timestampMs)
    <2>1. body = [row EXCEPT !.accountId = "a", !.windowStartMs = start, !.windowEndMs = end,
                             !.clockSkewMs = "absent"]
      BY DEF ExtractBodyOf
    <2>2. \A c, x, v : IsClaims("rail", c) => IsClaims("rail", [c EXCEPT ![x] = v])
      BY DEF IsClaims
    <2> HIDE DEF start, end, body
    <2> DEFINE first == [row EXCEPT !["accountId"] = "a"]
               second == [first EXCEPT !["windowStartMs"] = start]
               third == [second EXCEPT !["windowEndMs"] = end]
    <2>3. body = [third EXCEPT !["clockSkewMs"] = "absent"]
      BY <2>1
    <2>4. IsClaims("rail", first)
      BY <1>1, <2>2
    <2> HIDE DEF first
    <2>5. IsClaims("rail", second)
      BY <2>2, <2>4
    <2> HIDE DEF second
    <2>6. IsClaims("rail", third)
      BY <2>2, <2>5
    <2> HIDE DEF third
    <2> QED BY <2>2, <2>3, <2>6
  <1>3. doc \in Sign("rail", body, Issuer)
    BY DEF SignedLedger, Sign
  <1> HIDE DEF body
  <1>4. doc = ExtractDoc(Issuer, body)
    BY <1>3, ExtractSigns
  <1> QED BY <1>2, <1>3, <1>4, ExtractLeaves

(* The earlier documents.                                                  *)
LEMMA EarlierLeaves ==
  ASSUME NEW k \in Kinds, NEW by \in {Issuer, Stranger}, NEW doc \in Sign(k, EarlierClaims(k), by)
  PROVE  Leaves(k, by, "earlier", doc)
  <1>1. IsClaims(k, EarlierClaims(k))
    BY EarlierIs
  <1>2. CASE k \in CoseKinds
    <2>1. PICK payload \in PackagePayload(k, EarlierClaims(k)) : doc = CoseDoc(k, by, EarlierClaims(k), payload)
      BY <1>2, PackageSigns
    <2>2. \A c \in Decoded(k, payload) : c = EarlierClaims(k)
      BY <1>2, EarlierTells
    <2>3. Tells(k, EarlierClaims(k), payload)
      BY <2>2 DEF Tells
    <2> HIDE DEF EarlierClaims
    <2> QED BY <1>1, <1>2, <2>1, <2>2, <2>3, CoseLeaves
  <1>3. CASE k \notin CoseKinds
    <2>1. k \in {"rail", "effect"}
      BY <1>3 DEF Kinds, CoseKinds
    <2>2. doc = ExtractDoc(by, EarlierClaims(k))
      BY <2>1, ExtractSigns
    <2> QED BY <1>1, <2>1, <2>2, ExtractLeaves
  <1> QED BY <1>2, <1>3

LEMMA SameDocIssued ==
  ASSUME NEW k, NEW by, NEW a, NEW b, IssuedDoc(k, Leave(by, "earlier", a)), SameSigned(b, a), b.claims = a.claims
  PROVE  IssuedDoc(k, Leave(by, "earlier", b))
  <1> DEFINE d == Leave(by, "earlier", a)
             e == Leave(by, "earlier", b)
  <1>1. d.by = by /\ d.how = "earlier" /\ d.doc = a /\ e.by = by /\ e.how = "earlier" /\ e.doc = b
    BY LeaveIs
  <1> HIDE DEF d, e
  <1>2. PayloadIn(a) = PayloadIn(b) /\ \A x : SameSigned(a, x) => SameSigned(b, x)
    BY DEF SameSigned, PayloadIn
  <1>3. AsCose(k, d) => AsCose(k, e)
    BY <1>1, <1>2 DEF AsCose, SameSigned
  <1> QED BY <1>1, <1>2, <1>3 DEF IssuedDoc, d, e

LEMMA EarlierDocIssued ==
  ASSUME NEW k \in Kinds, NEW by \in {Issuer, Stranger}, NEW doc \in Earlier(k, by)
  PROVE  /\ IssuedDoc(k, Leave(by, "earlier", doc))
         /\ k = "receipt" => /\ doc.counterCoseHex.octets.signature = CounterTerm(BufferFromHex(doc.coseHex), "h1")
                             /\ Has(doc.coseHex)
         /\ k # "receipt" => ~Has(doc.counterCoseHex)
  <1>1. PICK signed \in Sign(k, EarlierClaims(k), by) :
           \/ k # "receipt" /\ doc = signed
           \/ k = "receipt" /\ doc \in CounterSigned(signed, Payee, "h1")
    BY EarlierDocIs
  <1>2. Leaves(k, by, "earlier", signed)
    BY EarlierLeaves
  <1>3. IssuedDoc(k, Leave(by, "earlier", signed)) /\ IsDocument(signed)
    BY <1>2 DEF Leaves, WellFormed
  <1>4. CASE k # "receipt"
    BY <1>1, <1>2, <1>3, <1>4 DEF Leaves
  <1>5. CASE k = "receipt"
    <2>1. /\ doc.claims = signed.claims /\ SameSigned(doc, signed) /\ Has(doc.counterCoseHex)
          /\ doc.counterCoseHex.octets.signature = CounterTerm(BufferFromHex(signed.coseHex), "h1")
      BY <1>1, <1>3, <1>5, CounterSignedIs
    <2>2. doc.coseHex = signed.coseHex
      BY <2>1 DEF SameSigned
    <2>3. Has(signed.coseHex)
      <3>1. PICK payload \in PackagePayload(k, EarlierClaims(k)) : signed = CoseDoc(k, by, EarlierClaims(k), payload)
        BY <1>1, <1>5, PackageSigns DEF CoseKinds
      <3> QED BY <3>1, CoseDocIsDocument
    <2>4. IssuedDoc(k, Leave(by, "earlier", doc))
      BY <1>3, <2>1, SameDocIssued
    <2> QED BY <1>5, <2>1, <2>2, <2>3, <2>4
  <1> QED BY <1>4, <1>5

LEMMA DocInitInv == ASSUME DocInit PROVE DocInv
  <1>1. kind \in Kinds /\ issued = Pool(kind) /\ shown = Missing
    BY DEF DocInit
  <1>2. ASSUME NEW d \in issued
        PROVE  \E by \in {Issuer, Stranger} : \E doc \in Earlier(kind, by) : d = Leave(by, "earlier", doc)
    BY <1>1 DEF Pool
  <1>3. ASSUME NEW d \in issued
        PROVE  /\ d.how = "earlier" /\ IssuedDoc(kind, d)
               /\ kind = "receipt" =>
                    /\ d.doc.counterCoseHex.octets.signature = CounterTerm(BufferFromHex(d.doc.coseHex), "h1")
                    /\ Has(d.doc.coseHex)
               /\ kind # "receipt" => ~Has(d.doc.counterCoseHex)
    <2>1. PICK by \in {Issuer, Stranger} : \E doc \in Earlier(kind, by) : d = Leave(by, "earlier", doc)
      BY <1>2
    <2>2. PICK doc \in Earlier(kind, by) : d = Leave(by, "earlier", doc)
      BY <2>1
    <2>3. d.how = "earlier" /\ d.doc = doc
      BY <2>2, LeaveIs
    <2> QED BY <1>1, <2>2, <2>3, EarlierDocIssued
  <1>4. CASE kind = "receipt"
    <2>1. approvals = {Approval(Payee, Pem(d.by), d.doc, "h1") : d \in issued}
      BY <1>4 DEF DocInit
    <2>2. \A d \in issued : /\ Approval(Payee, Pem(d.by), d.doc, "h1").octets = BufferFromHex(d.doc.coseHex)
                            /\ Approval(Payee, Pem(d.by), d.doc, "h1").delivered = "h1"
                            /\ Approval(Payee, Pem(d.by), d.doc, "h1").pin = Pem(d.by)
      BY DEF Approval
    <2>3. \A d \in issued : CounterFounded(d.doc, approvals)
      BY <1>3, <1>4, <2>1, <2>2 DEF CounterFounded
    <2>4. \A a \in approvals : ApprovalFounded(a, issued)
      BY <1>3, <1>4, <2>1, <2>2 DEF ApprovalFounded
    <2> QED BY <1>1, <1>3, <2>3, <2>4 DEF DocInv
  <1>5. CASE kind # "receipt"
    <2>1. approvals = {}
      BY <1>5 DEF DocInit
    <2>2. \A d \in issued : CounterFounded(d.doc, approvals)
      BY <1>3, <1>5 DEF CounterFounded
    <2> QED BY <1>1, <1>3, <2>1, <2>2 DEF DocInv
  <1> QED BY <1>4, <1>5

-----------------------------------------------------------------------------
(* Every step keeps the invariant.                                         *)

LEMMA DocumentsAreThere ==
  ASSUME NEW doc, IsDocument(doc)
  PROVE  doc # Missing
  <1>1. "encoding" \in DOMAIN doc
    BY DEF IsDocument
  <1>2. DOMAIN Missing = {"missing"}
    BY DEF Missing
  <1> QED BY <1>1, <1>2

(* No earlier document says the claims of another.                         *)
LEMMA FoundedOnEarlier ==
  ASSUME NEW k \in Kinds, NEW d, IssuedDoc(k, d), d.how = "earlier", NEW claims
  PROVE  ClaimsFounded(k, claims, d)
  <1>1. Has(d.doc.coseHex) => AsCose(k, d)
    BY DEF IssuedDoc, SameSigned, ExtractDoc, JsonDoc, Has
  <1> QED BY <1>1 DEF ClaimsFounded, AsCose

LEMMA ShowStep ==
  ASSUME DocInv, NothingShown, NEW by, NEW how, how # "earlier", NEW doc, Leaves(kind, by, how, doc),
         Show(by, how, doc)
  PROVE  DocInv'
  <1> DEFINE d == Leave(by, how, doc)
  <1>1. /\ issued' = issued \cup {d} /\ shown' = doc
        /\ kind' = kind /\ approvals' = approvals /\ touched' = touched
    BY DEF Show
  <1>2. d.by = by /\ d.how = how /\ d.doc = doc
    BY LeaveIs
  <1>3. IssuedDoc(kind, d) /\ WellFormed(doc) /\ IsClaims(kind, doc.claims) /\ ~Has(doc.counterCoseHex)
    BY DEF Leaves
  <1> HIDE DEF d
  <1>4. \A e \in issued : e.how = "earlier" /\ IssuedDoc(kind, e) /\ CounterFounded(e.doc, approvals)
    BY DEF DocInv, NothingShown
  <1>5. CounterFounded(doc, approvals)
    BY <1>3 DEF CounterFounded
  <1>6. shown' # Missing
    BY <1>1, <1>3, DocumentsAreThere DEF WellFormed
  <1>7. \A e \in issued' : IssuedDoc(kind, e) /\ CounterFounded(e.doc, approvals)
    BY <1>1, <1>2, <1>3, <1>4, <1>5
  <1>8. \A a \in approvals : ApprovalFounded(a, issued')
    BY <1>1 DEF DocInv, ApprovalFounded
  <1>9. \A e \in issued' : ClaimsFounded(kind, doc.claims, e)
    <2>1. \A e \in issued : ClaimsFounded(kind, doc.claims, e)
      BY <1>4, FoundedOnEarlier DEF DocInv
    <2>2. ClaimsFounded(kind, doc.claims, d)
      BY <1>2 DEF ClaimsFounded
    <2> QED BY <1>1, <2>1, <2>2
  <1>10. ShownDoc(kind, doc, issued', approvals)
    <2>1. SignatureFounded(doc, issued')
      BY <1>1, <1>2, <1>3 DEF SignatureFounded, WellFormed
    <2>2. OctetsFounded(doc, issued')
      BY <1>1, <1>2, <1>3 DEF OctetsFounded, WellFormed
    <2> QED BY <1>3, <1>5, <1>9, <2>1, <2>2 DEF ShownDoc, WellFormed
  <1>11. \A e \in issued' : e.how # "earlier" => e.doc.claims = doc.claims
    BY <1>1, <1>2, <1>4
  <1>12. kind \in Kinds
    BY DEF DocInv
  <1> QED BY <1>1, <1>6, <1>7, <1>8, <1>10, <1>11, <1>12 DEF DocInv

LEMMA IssueStep ==
  ASSUME DocInv, IssueSigned \/ IssueJson \/ IssueUnchecked \/ IssueWeak \/ IssueLedger
  PROVE  DocInv'
  <1>0. kind \in Kinds
    BY DEF DocInv
  <1>1. CASE IssueSigned
    <2>1. NothingShown /\ \E key \in {Issuer, Weak} : \E claims \in Variants[kind] :
                            \E doc \in Sign(kind, claims, key) : Show(key, "signer", doc)
      BY <1>1 DEF IssueSigned
    <2> QED BY <1>0, <2>1, SignerLeaves, ShowStep
  <1>2. CASE IssueJson
    <2>1. NothingShown /\ kind = "receipt"
          /\ \E claims \in Variants[kind] : \E doc \in SignReceiptJson(claims, Issuer) : Show(Issuer, "json", doc)
      BY <1>2 DEF IssueJson
    <2> QED BY <1>0, <2>1, JsonLeaves, VariantIs, ShowStep
  <1>3. CASE IssueUnchecked
    <2>1. NothingShown /\ \E claims \in Variants[kind] :
                            \E doc \in SignOwn(kind, claims, Issuer) : Show(Issuer, "own", doc)
      BY <1>3 DEF IssueUnchecked
    <2> QED BY <1>0, <2>1, OwnLeaves, VariantIs, ShowStep
  <1>4. CASE IssueWeak
    <2>1. NothingShown /\ \E claims \in Bases[kind] :
                            \E doc \in SignOwn(kind, claims, Weak) : Show(Weak, "own", doc)
      BY <1>4 DEF IssueWeak
    <2>2. \A b \in Bases[kind] : IsClaims(kind, b)
      BY <1>0, BaseClaims DEF IsBase
    <2> QED BY <1>0, <2>1, <2>2, OwnLeaves, ShowStep
  <1>5. CASE IssueLedger
    <2>1. NothingShown /\ kind = "rail"
          /\ \E row \in Bases[kind] : \E doc \in SignedLedger(row, Issuer) : Show(Issuer, "ledger", doc)
      BY <1>5 DEF IssueLedger
    <2> QED BY <1>0, <2>1, LedgerLeaves, ShowStep
  <1> QED BY <1>1, <1>2, <1>3, <1>4, <1>5

LEMMA CounterStep == ASSUME DocInv, CounterSigns PROVE DocInv'
  <1>1. PICK pin \in {Missing, Pem(Issuer)}, delivered \in DeliveredHashes :
          \E doc \in CounterSign(shown, Payee, pin, delivered) :
            shown' = doc /\ approvals' = approvals \cup {Approval(Payee, pin, shown, delivered)}
    BY DEF CounterSigns
  <1>2. /\ kind = "receipt" /\ shown # Missing /\ kind' = kind /\ issued' = issued /\ touched' = touched
        /\ shown' \in CounterSign(shown, Payee, pin, delivered)
        /\ approvals' = approvals \cup {Approval(Payee, pin, shown, delivered)}
    BY <1>1 DEF CounterSigns
  <1> DEFINE a == Approval(Payee, pin, shown, delivered)
  <1>3. a.octets = BufferFromHex(shown.coseHex) /\ a.delivered = delivered /\ a.pin = pin
    BY DEF Approval
  <1>4. /\ VerifyReceipt(shown, pin) /\ (delivered = "absent" \/ IsValidHashText(delivered))
        /\ shown' \in CounterSigned(shown, Payee, delivered)
    BY <1>2 DEF CounterSign, HashClaimHolds
  <1> HIDE DEF a
  <1>5. ShownDoc(kind, shown, issued, approvals) /\ \A d \in issued : IssuedDoc(kind, d)
    BY <1>2 DEF DocInv
  <1>6. /\ IsDocument(shown') /\ shown'.claims = shown.claims /\ SameSigned(shown', shown)
        /\ shown'.counterCoseHex.octets.signature = CounterTerm(BufferFromHex(shown.coseHex), delivered)
    BY <1>4, <1>5, CounterSignedIs DEF ShownDoc
  <1>7. ApprovalFounded(a, issued)
    <2>1. a.delivered \in {"absent", "h1", "h2"}
      BY <1>3, <1>4 DEF IsValidHashText
    <2>2. ASSUME Has(a.pin)
          PROVE  \E d \in issued : Pem(d.by) = a.pin /\ Has(d.doc.coseHex) /\ BufferFromHex(d.doc.coseHex) = a.octets
      <3>1. pin = Pem(Issuer)
        BY <1>3, <2>2 DEF Has
      <3>2. Says("receipt", shown, Issuer)
        BY <1>4, <3>1, ReceiptSays
      <3>3. PICK d \in issued : d.by = Issuer /\ AsCose(kind, d) /\ d.doc.coseHex = Hex(shown.coseHex.octets)
        BY <1>2, <1>5, <3>2, SaysSigned DEF CoseKinds
      <3>4. Has(d.doc.coseHex) /\ BufferFromHex(d.doc.coseHex) = shown.coseHex.octets
        BY <3>3, TextsAreRecords DEF AsCose, BufferFromHex
      <3> QED BY <1>3, <3>1, <3>3, <3>4 DEF BufferFromHex
    <2> QED BY <2>1, <2>2 DEF ApprovalFounded
  <1>8. \A doc : CounterFounded(doc, approvals) => CounterFounded(doc, approvals')
    BY <1>2 DEF CounterFounded
  <1>9. CounterFounded(shown', approvals')
    <2>1. a \in approvals' /\ shown'.counterCoseHex.octets.signature = CounterTerm(a.octets, a.delivered)
      BY <1>2, <1>3, <1>6 DEF a
    <2> QED BY <2>1 DEF CounterFounded
  <1>10. ShownDoc(kind, shown', issued, approvals')
    BY <1>5, <1>6, <1>9 DEF ShownDoc, SameSigned, SignatureFounded, OctetsFounded
  <1>11. shown' # Missing
    BY <1>6, DocumentsAreThere
  <1>12. \A b \in approvals' : ApprovalFounded(b, issued)
    BY <1>2, <1>7 DEF DocInv, a
  <1>13. \A d \in issued : CounterFounded(d.doc, approvals')
    BY <1>8 DEF DocInv
  <1>14. touched = {} => \A d \in issued : d.how # "earlier" => d.doc.claims = shown'.claims
    BY <1>2, <1>6 DEF DocInv
  <1> QED BY <1>2, <1>5, <1>10, <1>11, <1>12, <1>13, <1>14 DEF DocInv

(* One member of a document changes and no other.                          *)
ChangedTo(old, doc, part, value) ==
  /\ IsDocument(doc) /\ doc[part] = value
  /\ \A m \in Members \ {part} : doc[m] = old[m]

LEMMA ChangedMember ==
  ASSUME NEW old, IsDocument(old), NEW part \in Members, NEW value, NEW doc, doc = [old EXCEPT ![part] = value]
  PROVE  ChangedTo(old, doc, part, value)
  <1>1. DOMAIN old = Members
    BY DEF IsDocument, Members
  <1>2. doc = [m \in Members |-> IF m = part THEN value ELSE old[m]]
    BY <1>1 DEF IsDocument
  <1>3. doc = [claims |-> doc.claims, signature |-> doc.signature, publicKeyPem |-> doc.publicKeyPem,
               encoding |-> doc.encoding, coseHex |-> doc.coseHex, counterCoseHex |-> doc.counterCoseHex,
               payeePublicKeyPem |-> doc.payeePublicKeyPem, unlisted |-> doc.unlisted]
    BY <1>2 DEF Members
  <1> QED BY <1>2, <1>3 DEF ChangedTo, IsDocument

LEMMA ChangeIs ==
  ASSUME DocInv, NEW part \in Members, NEW values, Change(part, values)
  PROVE  /\ shown # Missing /\ ShownDoc(kind, shown, issued, approvals)
         /\ \A d \in issued : IssuedDoc(kind, d)
         /\ \E value \in values : ChangedTo(shown, shown', part, value)
         /\ UNCHANGED <<kind, issued, approvals>> /\ touched' # {}
  <1>1. shown # Missing /\ UNCHANGED <<kind, issued, approvals>> /\ touched' = touched \cup {part}
    BY DEF Change
  <1>2. ShownDoc(kind, shown, issued, approvals) /\ \A d \in issued : IssuedDoc(kind, d)
    BY <1>1 DEF DocInv
  <1>3. PICK value \in values : shown' = [shown EXCEPT ![part] = value]
    BY DEF Change
  <1>4. ChangedTo(shown, shown', part, value)
    BY <1>2, <1>3, ChangedMember DEF ShownDoc
  <1> QED BY <1>1, <1>2, <1>4

LEMMA ChangeKeeps ==
  ASSUME DocInv, NEW part \in Members, NEW values, Change(part, values),
         ShownDoc(kind, shown', issued, approvals)
  PROVE  DocInv'
  <1>1. shown # Missing /\ UNCHANGED <<kind, issued, approvals>> /\ touched' # {}
    BY ChangeIs
  <1>2. shown' # Missing
    BY DocumentsAreThere DEF ShownDoc
  <1> QED BY <1>1, <1>2 DEF DocInv

(* What is about of another document.                                      *)
IsOther(doc) ==
  /\ \E d \in issued : d.doc = doc /\ d.how = "earlier"
  /\ doc.claims = EarlierClaims(kind) /\ CounterFounded(doc, approvals)
  /\ Has(doc.signature) =>
       doc.signature = [signature |-> doc.signature.signature, spelling |-> doc.signature.spelling]
  /\ kind \in CoseKinds => Has(doc.coseHex)
  /\ Has(doc.coseHex) =>
       /\ doc.coseHex = [octets |-> doc.coseHex.octets, spelling |-> doc.coseHex.spelling]
       /\ IsMessage(doc.coseHex.octets)

LEMMA OtherDocIs ==
  ASSUME DocInv, NEW doc \in OtherDocs
  PROVE  IsOther(doc)
  <1>1. PICK d \in issued : d.how = "earlier" /\ d.doc = doc
    BY DEF OtherDocs
  <1>2. IssuedDoc(kind, d) /\ CounterFounded(doc, approvals)
    BY <1>1 DEF DocInv
  <1>3. PICK signed : SameSigned(doc, signed) /\ WellFormed(signed) /\ (kind \in CoseKinds => Has(signed.coseHex))
    <2>1. CASE AsCose(kind, d)
      BY <1>1, <2>1, CoseDocIsDocument DEF AsCose
    <2>2. CASE IsExtract(kind) /\ SameSigned(d.doc, ExtractDoc(d.by, d.doc.claims))
      <3>1. kind \notin CoseKinds
        BY <2>2 DEF IsExtract, CoseKinds
      <3> QED BY <1>1, <2>2, <3>1, OtherDocIsDocument
    <2> QED BY <1>1, <1>2, <2>1, <2>2 DEF IssuedDoc
  <1> QED BY <1>1, <1>2, <1>3 DEF IssuedDoc, SameSigned, WellFormed, IsOther

LEMMA ClaimsStep == ASSUME DocInv, ChangeClaims PROVE DocInv'
  <1> DEFINE values == {d.claims : d \in OtherDocs}
                       \cup IF touched = {} /\ shown.claims \in Bases[kind]
                            THEN OneChanged(kind, shown.claims) ELSE {}
  <1>1. Change("claims", values) /\ "claims" \in Members
    BY DEF ChangeClaims, Members
  <1> HIDE DEF values
  <1>2. /\ shown # Missing /\ ShownDoc(kind, shown, issued, approvals) /\ \A d \in issued : IssuedDoc(kind, d)
    BY <1>1, ChangeIs
  <1>3. PICK value \in values : ChangedTo(shown, shown', "claims", value)
    BY <1>1, ChangeIs
  <1>4. kind \in Kinds
    BY DEF DocInv
  <1>5. IsClaims(kind, value) /\ \A d \in issued : ClaimsFounded(kind, value, d)
    <2>1. \A d \in issued : Has(d.doc.coseHex) => AsCose(kind, d)
      BY <1>2 DEF IssuedDoc, SameSigned, ExtractDoc, JsonDoc, Has
    <2>2. CASE value \in {d.claims : d \in OtherDocs}
      <3>0. PICK other \in OtherDocs : value = other.claims
        BY <2>2
      <3>1. value = EarlierClaims(kind)
        BY <3>0, OtherDocIs DEF IsOther
      <3>2. IsClaims(kind, value) /\ value[Mark(kind)] # MarkOfBase(kind)
        BY <1>4, <3>1, EarlierIs, Marks
      <3>3. \A d \in issued : ClaimsFounded(kind, value, d)
        BY <2>1, <3>2 DEF ClaimsFounded, AsCose, Tells
      <3> QED BY <3>2, <3>3
    <2>3. CASE touched = {} /\ shown.claims \in Bases[kind] /\ value \in OneChanged(kind, shown.claims)
      <3>1. IsClaims(kind, shown.claims)
        BY <1>2 DEF ShownDoc
      <3>2. IsClaims(kind, value)
        BY <1>4, <2>3, <3>1, ChangedIs
      <3>3. ASSUME NEW d \in issued PROVE ClaimsFounded(kind, value, d)
        <4>1. CASE d.how = "earlier"
          BY <1>2, <1>4, <4>1, FoundedOnEarlier
        <4>2. CASE d.how # "earlier"
          <5>1. d.doc.claims \in Bases[kind]
            BY <1>2, <2>3, <4>2 DEF DocInv
          <5> QED BY <2>1, <5>1 DEF ClaimsFounded, AsCose, Tells
        <4> QED BY <4>1, <4>2
      <3> QED BY <3>2, <3>3
    <2> QED BY <2>2, <2>3 DEF values
  <1>6. ShownDoc(kind, shown', issued, approvals)
    <2>1. \A m \in Members \ {"claims"} : shown'[m] = shown[m]
      BY <1>3 DEF ChangedTo
    <2>2. /\ shown'.encoding = shown.encoding /\ shown'.signature = shown.signature
          /\ shown'.coseHex = shown.coseHex /\ shown'.counterCoseHex = shown.counterCoseHex
      BY <2>1 DEF Members
    <2>3. shown'.claims = value /\ IsDocument(shown')
      BY <1>3 DEF ChangedTo
    <2> QED BY <1>2, <1>5, <2>2, <2>3 DEF ShownDoc, SignatureFounded, OctetsFounded, CounterFounded
  <1> QED BY <1>1, <1>6, ChangeKeeps

LEMMA SignatureStep == ASSUME DocInv, ChangeSignature PROVE DocInv'
  <1> DEFINE values == {Missing} \cup {d.signature : d \in OtherDocs}
               \cup IF Has(shown.signature)
                    THEN {[shown.signature EXCEPT !.spelling = s] : s \in Base64Spellings} ELSE {}
  <1>1. Change("signature", values) /\ "signature" \in Members
    BY DEF ChangeSignature, Members
  <1> HIDE DEF values
  <1>2. ShownDoc(kind, shown, issued, approvals)
    BY <1>1, ChangeIs
  <1>3. PICK value \in values : ChangedTo(shown, shown', "signature", value)
    BY <1>1, ChangeIs
  <1>4. Has(value) => /\ value = [signature |-> value.signature, spelling |-> value.spelling]
                      /\ \E d \in issued : Has(d.doc.signature) /\ value.signature = d.doc.signature.signature
    <2>1. CASE value = Missing
      BY <2>1 DEF Has
    <2>2. CASE value \in {d.signature : d \in OtherDocs}
      <3>1. PICK other \in OtherDocs : value = other.signature
        BY <2>2
      <3>2. IsOther(other)
        BY OtherDocIs
      <3> QED BY <3>1, <3>2 DEF IsOther
    <2>3. CASE Has(shown.signature) /\ \E s \in Base64Spellings : value = [shown.signature EXCEPT !.spelling = s]
      <3>1. PICK s \in Base64Spellings : value = [shown.signature EXCEPT !.spelling = s]
        BY <2>3
      <3> DEFINE old == shown.signature
      <3>2. /\ old = [signature |-> old.signature, spelling |-> old.spelling]
            /\ \E d \in issued : Has(d.doc.signature) /\ old.signature = d.doc.signature.signature
        BY <1>2, <2>3 DEF ShownDoc, SignatureFounded
      <3>3. value = [old EXCEPT !.spelling = s]
        BY <3>1
      <3> HIDE DEF old
      <3>4. value.signature = old.signature /\ value = [signature |-> value.signature, spelling |-> value.spelling]
        BY <3>2, <3>3
      <3> QED BY <3>2, <3>4
    <2> QED BY <2>1, <2>2, <2>3 DEF values
  <1>5. ShownDoc(kind, shown', issued, approvals)
    <2>1. \A m \in Members \ {"signature"} : shown'[m] = shown[m]
      BY <1>3 DEF ChangedTo
    <2>2. /\ shown'.encoding = shown.encoding /\ shown'.claims = shown.claims
          /\ shown'.coseHex = shown.coseHex /\ shown'.counterCoseHex = shown.counterCoseHex
      BY <2>1 DEF Members
    <2>3. shown'.signature = value /\ IsDocument(shown')
      BY <1>3 DEF ChangedTo
    <2> QED BY <1>2, <1>4, <2>2, <2>3 DEF ShownDoc, SignatureFounded, OctetsFounded, CounterFounded
  <1> QED BY <1>1, <1>5, ChangeKeeps

LEMMA CounterChangeStep == ASSUME DocInv, ChangeCounter PROVE DocInv'
  <1> DEFINE values == {Missing} \cup {d.counterCoseHex : d \in OtherDocs}
            \cup IF ~Has(shown.counterCoseHex) THEN {}
                 ELSE {[shown.counterCoseHex EXCEPT !.spelling = s] : s \in HexSpellings}
                      \cup {Hex([shown.counterCoseHex.octets EXCEPT !.unprotected = "kid"])}
  <1>1. Change("counterCoseHex", values) /\ "counterCoseHex" \in Members
    BY DEF ChangeCounter, Members
  <1> HIDE DEF values
  <1>2. ShownDoc(kind, shown, issued, approvals)
    BY <1>1, ChangeIs
  <1>3. PICK value \in values : ChangedTo(shown, shown', "counterCoseHex", value)
    BY <1>1, ChangeIs
  <1>4. Has(value) => \E a \in approvals : value.octets.signature = CounterTerm(a.octets, a.delivered)
    <2>1. CASE value = Missing
      BY <2>1 DEF Has
    <2>2. CASE value \in {d.counterCoseHex : d \in OtherDocs}
      <3>1. PICK other \in OtherDocs : value = other.counterCoseHex
        BY <2>2
      <3>2. IsOther(other)
        BY OtherDocIs
      <3> QED BY <3>1, <3>2 DEF IsOther, CounterFounded
    <2> DEFINE old == shown.counterCoseHex
    <2>3. ASSUME Has(old) PROVE \E a \in approvals : old.octets.signature = CounterTerm(a.octets, a.delivered)
      BY <1>2, <2>3 DEF ShownDoc, CounterFounded
    <2>4. CASE Has(old) /\ \E s \in HexSpellings : value = [old EXCEPT !.spelling = s]
      <3>1. PICK s \in HexSpellings : value = [old EXCEPT !.spelling = s]
        BY <2>4
      <3> HIDE DEF old
      <3>2. value.octets = old.octets
        BY <3>1
      <3> QED BY <2>3, <2>4, <3>2
    <2>5. CASE Has(old) /\ value = Hex([old.octets EXCEPT !.unprotected = "kid"])
      <3> HIDE DEF old
      <3> DEFINE o == old.octets
                 x == [o EXCEPT !.unprotected = "kid"]
      <3>1. x.signature = o.signature
        OBVIOUS
      <3> HIDE DEF x
      <3>2. value.octets = x
        BY <2>5, TextsAreRecords DEF x
      <3> QED BY <2>3, <2>5, <3>1, <3>2
    <2> QED BY <2>1, <2>2, <2>4, <2>5 DEF values
  <1>5. ShownDoc(kind, shown', issued, approvals)
    <2>1. \A m \in Members \ {"counterCoseHex"} : shown'[m] = shown[m]
      BY <1>3 DEF ChangedTo
    <2>2. /\ shown'.encoding = shown.encoding /\ shown'.claims = shown.claims
          /\ shown'.coseHex = shown.coseHex /\ shown'.signature = shown.signature
      BY <2>1 DEF Members
    <2>3. shown'.counterCoseHex = value /\ IsDocument(shown')
      BY <1>3 DEF ChangedTo
    <2> QED BY <1>2, <1>4, <2>2, <2>3 DEF ShownDoc, SignatureFounded, OctetsFounded, CounterFounded
  <1> QED BY <1>1, <1>5, ChangeKeeps

LEMMA PlainStep ==
  ASSUME DocInv, ChangeKey \/ ChangeEncoding \/ ChangePayeeKey \/ AddUnlisted
  PROVE  DocInv'
  <1>1. PICK part \in {"publicKeyPem", "encoding", "payeePublicKeyPem", "unlisted"} : \E values :
          Change(part, values) /\ (part = "encoding" => values = {"json", "missing"})
    BY DEF ChangeKey, ChangeEncoding, ChangePayeeKey, AddUnlisted
  <1>2. PICK values : Change(part, values) /\ (part = "encoding" => values = {"json", "missing"})
    BY <1>1
  <1>3. part \in Members
    BY DEF Members
  <1>4. ShownDoc(kind, shown, issued, approvals)
    BY <1>2, <1>3, ChangeIs
  <1>5. PICK value \in values : ChangedTo(shown, shown', part, value)
    BY <1>2, <1>3, ChangeIs
  <1>6. /\ shown'.claims = shown.claims /\ shown'.signature = shown.signature
        /\ shown'.coseHex = shown.coseHex /\ shown'.counterCoseHex = shown.counterCoseHex
    BY <1>5 DEF ChangedTo, Members
  <1>7. shown'.encoding \in {"cose", "json", "missing"}
    <2>1. CASE part = "encoding"
      BY <1>2, <1>5, <2>1 DEF ChangedTo
    <2>2. CASE part # "encoding"
      BY <1>4, <1>5, <2>2 DEF ChangedTo, Members, ShownDoc
    <2> QED BY <2>1, <2>2
  <1>8. ShownDoc(kind, shown', issued, approvals)
    BY <1>4, <1>5, <1>6, <1>7 DEF ShownDoc, SignatureFounded, OctetsFounded, CounterFounded, ChangedTo
  <1> QED BY <1>2, <1>3, <1>8, ChangeKeeps

LEMMA ChangedOctets ==
  ASSUME DocInv, ~IsExtract(kind), NEW old, IsMessage(old), NEW octets \in OctetsChanged(old)
  PROVE  /\ IsMessage(octets)
         /\ \/ octets.signature = old.signature
            \/ \E other \in OtherDocs : octets.signature = other.coseHex.octets.signature
  <1>1. \A f : \A x : x = [old EXCEPT !.fault = f] => IsMessage(x) /\ x.signature = old.signature
    BY DEF IsMessage
  <1>2. \A f : \A x : x = [old EXCEPT !.unprotected = f] => IsMessage(x) /\ x.signature = old.signature
    BY DEF IsMessage
  <1>3. \A f : \A x : x = [old EXCEPT !.header = f] => IsMessage(x) /\ x.signature = old.signature
    BY DEF IsMessage
  <1>4. \A f : \A x : x = [old EXCEPT !.payload = f] => IsMessage(x) /\ x.signature = old.signature
    BY DEF IsMessage
  <1>5. \A f : \A x : x = [old EXCEPT !.signature = f] => IsMessage(x) /\ x.signature = f
    BY DEF IsMessage
  <1>6. CASE octets \in {[old EXCEPT !.fault = f] : f \in {"cose-sign1-length", "cbor-non-deterministic"}}
    BY <1>1, <1>6
  <1>7. CASE octets = [old EXCEPT !.unprotected = "kid"]
    BY <1>2, <1>7
  <1>8. CASE octets \in {[old EXCEPT !.header.crit = TRUE], [old EXCEPT !.header.alg = "EdDSA"],
                         [old EXCEPT !.header.kid = KidFromPublicKey(Stranger)]}
    <2>1. \E f : octets = [old EXCEPT !.header = f]
      BY <1>8
    <2> QED BY <1>3, <2>1
  <1>9. CASE octets = [old EXCEPT !.payload.fault = "cbor-too-deep"]
    <2>1. \E f : octets = [old EXCEPT !.payload = f]
      BY <1>9
    <2> QED BY <1>4, <2>1
  <1>10. CASE \E other \in OtherDocs : octets = [old EXCEPT !.payload = other.coseHex.octets.payload]
    BY <1>4, <1>10
  <1>11. CASE \E other \in OtherDocs : octets = [old EXCEPT !.signature = other.coseHex.octets.signature]
    BY <1>5, <1>11
  <1>12. \/ octets \in {[old EXCEPT !.fault = f] : f \in {"cose-sign1-length", "cbor-non-deterministic"}}
         \/ octets = [old EXCEPT !.unprotected = "kid"]
         \/ octets \in {[old EXCEPT !.header.crit = TRUE], [old EXCEPT !.header.alg = "EdDSA"],
                        [old EXCEPT !.header.kid = KidFromPublicKey(Stranger)]}
         \/ octets = [old EXCEPT !.payload.fault = "cbor-too-deep"]
         \/ \E other \in OtherDocs : octets = [old EXCEPT !.payload = other.coseHex.octets.payload]
         \/ \E other \in OtherDocs : octets = [old EXCEPT !.signature = other.coseHex.octets.signature]
    BY Zenon DEF OctetsChanged
  <1> QED BY <1>6, <1>7, <1>8, <1>9, <1>10, <1>11, <1>12

LEMMA OctetsStep == ASSUME DocInv, ChangeOctets PROVE DocInv'
  <1> DEFINE values == {Missing} \cup {d.coseHex : d \in OtherDocs}
            \cup IF ~Has(shown.coseHex) THEN {}
                 ELSE {[shown.coseHex EXCEPT !.spelling = s] : s \in HexSpellings}
                      \cup {Hex(octets) : octets \in OctetsChanged(shown.coseHex.octets)}
  <1>1. Change("coseHex", values) /\ "coseHex" \in Members /\ ~IsExtract(kind)
    BY DEF ChangeOctets, Members
  <1> HIDE DEF values
  <1>2. ShownDoc(kind, shown, issued, approvals)
    BY <1>1, ChangeIs
  <1>3. PICK value \in values : ChangedTo(shown, shown', "coseHex", value)
    BY <1>1, ChangeIs
  <1> DEFINE old == shown.coseHex
             Founded(octets) == \E d \in issued : Has(d.doc.coseHex) /\ octets.signature = d.doc.coseHex.octets.signature
  <1>4. ASSUME NEW other \in OtherDocs
        PROVE  /\ Has(other.coseHex) /\ Founded(other.coseHex.octets)
               /\ other.coseHex = [octets |-> other.coseHex.octets, spelling |-> other.coseHex.spelling]
               /\ IsMessage(other.coseHex.octets)
    <2>1. IsOther(other) /\ kind \in CoseKinds
      BY <1>1, OtherDocIs, KindsAre DEF DocInv
    <2> QED BY <2>1 DEF IsOther
  <1>5. ASSUME Has(old)
        PROVE  old = [octets |-> old.octets, spelling |-> old.spelling] /\ IsMessage(old.octets) /\ Founded(old.octets)
    BY <1>2, <1>5 DEF ShownDoc, OctetsFounded
  <1> HIDE DEF Founded
  <1>6. Has(value) => /\ value = [octets |-> value.octets, spelling |-> value.spelling]
                      /\ IsMessage(value.octets) /\ Founded(value.octets)
    <2>1. CASE value = Missing
      BY <2>1 DEF Has
    <2>2. CASE value \in {d.coseHex : d \in OtherDocs}
      <3>1. PICK other \in OtherDocs : value = other.coseHex
        BY <2>2
      <3> QED BY <1>4, <3>1
    <2>3. CASE Has(old) /\ \E s \in HexSpellings : value = [old EXCEPT !.spelling = s]
      <3>1. PICK s \in HexSpellings : value = [old EXCEPT !.spelling = s]
        BY <2>3
      <3> HIDE DEF old
      <3>2. value.octets = old.octets /\ value = [octets |-> value.octets, spelling |-> value.spelling]
        BY <1>5, <2>3, <3>1
      <3> QED BY <1>5, <2>3, <3>2
    <2>4. CASE Has(old) /\ \E octets \in OctetsChanged(old.octets) : value = Hex(octets)
      <3>1. PICK octets \in OctetsChanged(old.octets) : value = Hex(octets)
        BY <2>4
      <3>2. IsMessage(old.octets) /\ Founded(old.octets)
        BY <1>5, <2>4
      <3> HIDE DEF old
      <3>3. /\ IsMessage(octets)
            /\ \/ octets.signature = old.octets.signature
               \/ \E other \in OtherDocs : octets.signature = other.coseHex.octets.signature
        BY <1>1, <3>2, ChangedOctets
      <3>4. Founded(octets)
        BY <1>4, <3>2, <3>3 DEF Founded
      <3>5. value.octets = octets /\ value = [octets |-> value.octets, spelling |-> value.spelling]
        BY <3>1, TextsAreRecords
      <3> QED BY <3>3, <3>4, <3>5
    <2> QED BY <2>1, <2>2, <2>3, <2>4 DEF values
  <1>7. ShownDoc(kind, shown', issued, approvals)
    <2>1. \A m \in Members \ {"coseHex"} : shown'[m] = shown[m]
      BY <1>3 DEF ChangedTo
    <2>2. /\ shown'.encoding = shown.encoding /\ shown'.claims = shown.claims
          /\ shown'.signature = shown.signature /\ shown'.counterCoseHex = shown.counterCoseHex
      BY <2>1 DEF Members
    <2>3. shown'.coseHex = value /\ IsDocument(shown')
      BY <1>3 DEF ChangedTo
    <2> QED BY <1>2, <1>6, <2>2, <2>3 DEF ShownDoc, SignatureFounded, OctetsFounded, CounterFounded, Founded
  <1> QED BY <1>1, <1>7, ChangeKeeps

LEMMA DocInvHolds == DocSpec => []DocInv
  <1>1. DocInit => DocInv
    BY DocInitInv
  <1>2. DocInv /\ [DocNext]_docVars => DocInv'
    <2> SUFFICES ASSUME DocInv, [DocNext]_docVars PROVE DocInv'
      OBVIOUS
    <2>1. CASE IssueSigned \/ IssueJson \/ IssueUnchecked \/ IssueWeak \/ IssueLedger
      BY <2>1, IssueStep
    <2>2. CASE CounterSigns
      BY <2>2, CounterStep
    <2>3. CASE ChangeClaims
      BY <2>3, ClaimsStep
    <2>4. CASE ChangeSignature
      BY <2>4, SignatureStep
    <2>5. CASE ChangeOctets
      BY <2>5, OctetsStep
    <2>6. CASE ChangeCounter
      BY <2>6, CounterChangeStep
    <2>7. CASE ChangeKey \/ ChangeEncoding \/ ChangePayeeKey \/ AddUnlisted
      BY <2>7, PlainStep
    <2>8. CASE UNCHANGED docVars
      BY <2>8 DEF docVars, DocInv
    <2> QED BY <2>1, <2>2, <2>3, <2>4, <2>5, <2>6, <2>7, <2>8 DEF DocNext
  <1> QED BY <1>1, <1>2, PTL DEF DocSpec

(* Whatever is changed in a document or beside it, one accepted under a    *)
(* key is what the owner of that key signed, for any number of changes and *)
(* whatever the keys are (verifyReceipt, verifyDecisionRecord and their    *)
(* kin).                                                                   *)
THEOREM AcceptedIsWhatWasSigned == DocSpec => []VerifiedIsSigned
  <1>1. DocInv => VerifiedIsSigned
    <2> SUFFICES ASSUME DocInv, NEW key \in Ed25519Keys \cup OtherKeys, AcceptedUnder(key)
                 PROVE  /\ IsExtract(kind) \/ key \in Ed25519Keys
                        /\ \E d \in issued : /\ d.by = key
                                             /\ d.doc.claims = shown.claims
                                             /\ Identity(kind, d.doc) = Identity(kind, shown)
      BY DEF VerifiedIsSigned
    <2>1. shown # Missing
      BY DEF AcceptedUnder
    <2> QED BY <2>1, AcceptedIsSigned
  <1> QED BY <1>1, DocInvHolds, PTL

(* A countersignature that verifies approves this receipt, with the        *)
(* delivery the payee stated, and under a pin one the issuer signed        *)
(* (counterSign, verifyCounterSignature).                                  *)
THEOREM ApprovalIsMeant == DocSpec => []ApprovalIsOfThisReceipt
  <1>1. DocInv => ApprovalIsOfThisReceipt
    BY CounterSays DEF ApprovalIsOfThisReceipt
  <1> QED BY <1>1, DocInvHolds, PTL

(* A document in the presented form that verifies under a pin is, but for  *)
(* the carried keys and the countersignature, the one that left the signer *)
(* (checkPresentedForm).                                                   *)
THEOREM FormAndPinFixTheDocument == DocSpec => []FormAndPinLeaveNothingUnsigned
  <1>1. DocInv => FormAndPinLeaveNothingUnsigned
    BY FormLeavesNothing DEF FormAndPinLeaveNothingUnsigned
  <1> QED BY <1>1, DocInvHolds, PTL

(* A Decision Record or an extract that verifies is one the package's own  *)
(* signer would have signed, whoever signed it (verifyDecisionRecord,      *)
(* verifyRailExtract, verifyEffectExtract).                                *)
THEOREM VerifierKeepsTheRules == DocSpec => []RulesOutliveTheSigner
  <1>1. DocInv => RulesOutliveTheSigner
    BY RulesKept DEF RulesOutliveTheSigner
  <1> QED BY <1>1, DocInvHolds, PTL

(* What the package signs, of claims of their declared types, its own      *)
(* verifiers accept and find in the presented form, the manifest with its  *)
(* mandate spelled null and the expired token aside; and a ledger's        *)
(* extract is never refused (signReceipt, signManifest, signedExtract and  *)
(* the verifiers beside them).                                             *)
THEOREM SignersAndVerifiersAgree == DocSpec => []SignedIsAccepted
  BY UntouchedAccepted, DocInvHolds, PTL

-----------------------------------------------------------------------------
(* THE EXTRACT OF A CHAIN (BaseExtract).                                   *)

(* What is kept of a sequence.                                             *)

(* Every number up to how many there are is the rank of one place.         *)
LEMMA PlacesRanked ==
  ASSUME NEW N \in Nat, NEW places \in SUBSET (1 .. N)
  PROVE  /\ IsFiniteSet(places) /\ Cardinality(places) \in Nat
         /\ \A n \in 1 .. Cardinality(places) :
              Nth(places, n) \in places /\ Cardinality({j \in places : j <= Nth(places, n)}) = n
         /\ \A i \in places : \E n \in 1 .. Cardinality(places) : Nth(places, n) = i
  <1> DEFINE upTo(i) == {j \in places : j <= i}
             rank == [i \in places |-> Cardinality(upTo(i))]
             size == Cardinality(places)
  <1>0. \A i \in places : i \in Int
    OBVIOUS
  <1>1. IsFiniteSet(places) /\ size \in Nat
    <2>1. IsFiniteSet(1 .. N)
      BY FS_Interval
    <2>2. IsFiniteSet(places)
      BY <2>1, FS_Subset
    <2> QED BY <2>2, FS_CardinalityType
  <1>2. \A i \in places : /\ IsFiniteSet(upTo(i)) /\ Cardinality(upTo(i)) \in 1 .. size
    <2> TAKE i \in places
    <2>1. upTo(i) \in SUBSET places /\ i \in upTo(i)
      OBVIOUS
    <2> HIDE DEF upTo
    <2>2. IsFiniteSet(upTo(i)) /\ Cardinality(upTo(i)) <= size /\ Cardinality(upTo(i)) \in Nat
      BY <1>1, <2>1, FS_Subset, FS_CardinalityType
    <2>3. Cardinality(upTo(i)) # 0
      BY <2>1, <2>2, FS_EmptySet
    <2> HIDE DEF size
    <2> QED BY <1>1, <2>2, <2>3
  <1>3. \A i, k \in places : i < k => Cardinality(upTo(i)) # Cardinality(upTo(k))
    <2> SUFFICES ASSUME NEW i \in places, NEW k \in places, i < k
                 PROVE  Cardinality(upTo(i)) # Cardinality(upTo(k))
      OBVIOUS
    <2>0. i \in Int /\ k \in Int /\ \A j \in places : j \in Int
      BY <1>0
    <2>1. upTo(i) \in SUBSET upTo(k) /\ k \in upTo(k) /\ k \notin upTo(i)
      <3>1. \A j \in places : j <= i => j <= k
        BY <2>0
      <3>2. k <= k /\ ~(k <= i)
        BY <2>0
      <3> QED BY <3>1, <3>2
    <2> HIDE DEF upTo
    <2>2. IsFiniteSet(upTo(k))
      BY <1>2
    <2> QED BY <2>1, <2>2, FS_Subset
  <1>4. rank \in Injection(places, 1 .. size)
    <2>1. rank \in [places -> 1 .. size]
      <3> HIDE DEF upTo, size
      <3> QED BY <1>2
    <2>2. ASSUME NEW a \in places, NEW b \in places, rank[a] = rank[b] PROVE a = b
      <3>1. Cardinality(upTo(a)) = Cardinality(upTo(b))
        BY <2>2
      <3>2. a \in Int /\ b \in Int
        OBVIOUS
      <3> HIDE DEF upTo
      <3> QED BY <3>1, <3>2, <1>3
    <2> HIDE DEF rank
    <2> QED BY <2>1, <2>2 DEF Injection, IsInjective
  <1>5. \A n \in 1 .. size : \E i \in places : rank[i] = n
    <2> HIDE DEF rank, size
    <2>1. IsFiniteSet(1 .. size) /\ Cardinality(1 .. size) = size
      BY <1>1, FS_Interval
    <2>2. rank \in Surjection(places, 1 .. size)
      BY <1>4, <2>1, FS_Injection DEF size
    <2> QED BY <2>2 DEF Surjection
  <1>6. \A n \in 1 .. size : Nth(places, n) \in places /\ Cardinality(upTo(Nth(places, n))) = n
    <2> TAKE n \in 1 .. size
    <2>1. \E i \in places : Cardinality(upTo(i)) = n
      BY <1>5
    <2> QED BY <2>1 DEF Nth
  <1>7. ASSUME NEW i \in places PROVE \E n \in 1 .. size : Nth(places, n) = i
    <2>1. Cardinality(upTo(i)) \in 1 .. size
      BY <1>2
    <2> DEFINE n == Cardinality(upTo(i))
    <2>2. n \in 1 .. size /\ Nth(places, n) \in places /\ Cardinality(upTo(Nth(places, n))) = n
      BY <2>1, <1>6
    <2>3. Cardinality(upTo(Nth(places, n))) = Cardinality(upTo(i))
      BY <2>2
    <2>4. i \in Int /\ Nth(places, n) \in Int
      <3> HIDE DEF n, upTo, size
      <3> QED BY <2>2, <1>0
    <2> HIDE DEF n
    <2>5. Nth(places, n) = i
      <3> HIDE DEF upTo
      <3> QED BY <2>2, <2>3, <2>4, <1>3
    <2> HIDE DEF size
    <2> QED BY <2>2, <2>5
  <1> QED BY <1>1, <1>6, <1>7

(* What is kept is what was at the places, once for each place.            *)
IsKept(kept, seq, places) ==
  /\ Cardinality(places) \in Nat /\ DOMAIN kept = 1 .. Cardinality(places)
  /\ IsSeq(kept) /\ Len(kept) = Cardinality(places)
  /\ \A n \in DOMAIN kept : Nth(places, n) \in places /\ kept[n] = seq[Nth(places, n)]
  /\ \A i \in places : \E n \in DOMAIN kept : Nth(places, n) = i
  /\ \A m, n \in DOMAIN kept : Nth(places, m) = Nth(places, n) => m = n

LEMMA KeptIs ==
  ASSUME NEW N \in Nat, NEW seq, NEW places \in SUBSET (1 .. N)
  PROVE  IsKept(Kept(seq, places), seq, places)
  <1> DEFINE size == Cardinality(places)
             kept == Kept(seq, places)
  <1>1. size \in Nat /\ kept = [n \in 1 .. size |-> seq[Nth(places, n)]] /\ DOMAIN kept = 1 .. size
    BY PlacesRanked DEF Kept
  <1>2. IsSeq(kept) /\ Len(kept) = size
    <2>1. kept = [n \in 1 .. size |-> kept[n]]
      BY <1>1
    <2> HIDE DEF kept, size
    <2> QED BY <1>1, <2>1, FnIsSeq
  <1>3. /\ \A n \in 1 .. size : /\ Nth(places, n) \in places
                               /\ Cardinality({j \in places : j <= Nth(places, n)}) = n
        /\ \A i \in places : \E n \in 1 .. size : Nth(places, n) = i
    BY PlacesRanked
  <1>4. \A n \in 1 .. size : kept[n] = seq[Nth(places, n)]
    BY <1>1
  <1>5. ASSUME NEW m \in 1 .. size, NEW n \in 1 .. size, Nth(places, m) = Nth(places, n) PROVE m = n
    BY <1>3, <1>5
  <1> HIDE DEF kept, size
  <1> QED BY <1>1, <1>2, <1>3, <1>4, <1>5 DEF kept, size, IsKept

(* The first places of each value have every value, each once.             *)
Firsts(N, value) == {i \in 1 .. N : \A j \in 1 .. i - 1 : value[j] # value[i]}

LEMMA FirstsAre ==
  ASSUME NEW N \in Nat, NEW value
  PROVE  /\ Firsts(N, value) \in SUBSET (1 .. N)
         /\ \A i \in 1 .. N : \E f \in Firsts(N, value) : value[f] = value[i]
         /\ \A f, g \in Firsts(N, value) : value[f] = value[g] => f = g
  <1>1. Firsts(N, value) \in SUBSET (1 .. N)
    BY DEF Firsts
  <1>2. ASSUME NEW i \in 1 .. N PROVE \E f \in Firsts(N, value) : value[f] = value[i]
    <2> DEFINE same == {j \in 1 .. N : value[j] = value[i]}
    <2>1. same \in SUBSET Nat /\ i \in same
      OBVIOUS
    <2>2. PICK f \in same : \A j \in same : f <= j
      <3> HIDE DEF same
      <3> QED BY <2>1, LeastExists
    <2>3. \A j \in 1 .. f - 1 : value[j] # value[f]
      <3> SUFFICES ASSUME NEW j \in 1 .. f - 1, value[j] = value[f] PROVE FALSE
        OBVIOUS
      <3>1. j \in 1 .. N /\ ~(f <= j)
        OBVIOUS
      <3>2. j \in same
        BY <3>1
      <3> QED BY <2>2, <3>1, <3>2
    <2> QED BY <2>3 DEF Firsts
  <1>3. ASSUME NEW f \in Firsts(N, value), NEW g \in Firsts(N, value), value[f] = value[g] PROVE f = g
    <2>1. f \in 1 .. N /\ g \in 1 .. N
      BY <1>1
    <2>2. ~(f < g) /\ ~(g < f)
      BY <1>3, <2>1 DEF Firsts
    <2> QED BY <2>1, <2>2
  <1> QED BY <1>1, <1>2, <1>3

-----------------------------------------------------------------------------
(* The chain.                                                              *)

(* A transaction is in one place of one block, or waits.                   *)
OnePlaceEach ==
  \A i, k \in DOMAIN chain : \A p \in DOMAIN chain[i], q \in DOMAIN chain[k] :
    chain[i][p] = chain[k][q] => i = k /\ p = q

ChainInv ==
  /\ chain \in Seq(Seq(Transactions)) /\ pending \in SUBSET Transactions
  /\ OnePlaceEach
  /\ \A i \in DOMAIN chain : \A p \in DOMAIN chain[i] : chain[i][p] \notin pending

LEMMA ChainHas ==
  ASSUME ChainInv
  PROVE  /\ Len(chain) \in Nat /\ DOMAIN chain = 1 .. Len(chain)
         /\ \A i \in DOMAIN chain :
              /\ chain[i] \in Seq(Transactions) /\ Len(chain[i]) \in Nat
              /\ DOMAIN chain[i] = 1 .. Len(chain[i])
              /\ \A p \in DOMAIN chain[i] : chain[i][p] \in Transactions
  <1>1. Len(chain) \in Nat /\ DOMAIN chain = 1 .. Len(chain)
    BY LenProperties DEF ChainInv
  <1>2. \A i \in DOMAIN chain : chain[i] \in Seq(Transactions)
    BY <1>1, ElementOfSeq DEF ChainInv
  <1>3. ASSUME NEW i \in DOMAIN chain
        PROVE  /\ Len(chain[i]) \in Nat /\ DOMAIN chain[i] = 1 .. Len(chain[i])
               /\ \A p \in DOMAIN chain[i] : chain[i][p] \in Transactions
    BY <1>2, LenProperties, ElementOfSeq
  <1> QED BY <1>1, <1>2, <1>3

LEMMA SendKeepsChain ==
  ASSUME ChainInv, NEW tx \in Transactions \ (Mined \cup pending),
         pending' = pending \cup {tx}, chain' = chain
  PROVE  ChainInv'
  <1>1. \A i \in DOMAIN chain : \A p \in DOMAIN chain[i] : chain[i][p] # tx
    BY DEF Mined, ToSet
  <1> QED BY <1>1 DEF ChainInv, OnePlaceEach

(* A new block comes after the others, which stay.                         *)
LEMMA MineIs ==
  ASSUME ChainInv, Mine
  PROVE  /\ ChainInv'
         /\ Len(chain') = Len(chain) + 1 /\ DOMAIN chain' = 1 .. Len(chain) + 1
         /\ \A i \in DOMAIN chain : i \in DOMAIN chain' /\ chain'[i] = chain[i]
  <1>0. PICK txs \in SUBSET pending : \E order \in SetToSeqs(txs) :
          chain' = Append(chain, order) /\ pending' = pending \ txs
    BY DEF Mine
  <1>1. PICK order \in SetToSeqs(txs) : chain' = Append(chain, order) /\ pending' = pending \ txs
    BY <1>0
  <1>2. IsFiniteSet(txs)
    <2>1. IsFiniteSet(Transactions) /\ txs \in SUBSET Transactions
      BY TransactionsAssumption DEF ChainInv
    <2> QED BY <2>1, FS_Subset
  <1> DEFINE size == Cardinality(txs)
  <1>3. size \in Nat
    BY <1>2, FS_CardinalityType
  <1>4. order \in [1 .. size -> txs] /\ \A p, q \in 1 .. size : p # q => order[p] # order[q]
    BY <1>1 DEF SetToSeqs
  <1> HIDE DEF size
  <1>5. order \in Seq(txs) /\ DOMAIN order = 1 .. size
    BY <1>3, <1>4
  <1>6. order \in Seq(Transactions)
    BY <1>5, SeqMonotonic DEF ChainInv
  <1>7. /\ chain' \in Seq(Seq(Transactions)) /\ Len(chain') = Len(chain) + 1
        /\ \A i \in 1 .. Len(chain) : chain'[i] = chain[i]
        /\ chain'[Len(chain) + 1] = order
    BY <1>1, <1>6, AppendProperties DEF ChainInv
  <1>8. DOMAIN chain' = 1 .. Len(chain) + 1
    BY <1>7, LenProperties
  <1>9. Len(chain) \in Nat /\ DOMAIN chain = 1 .. Len(chain)
    BY ChainHas
  <1>10. \A i \in DOMAIN chain' : i \in DOMAIN chain \/ i = Len(chain) + 1
    BY <1>8, <1>9
  <1>11. \A i \in DOMAIN chain : i \in DOMAIN chain' /\ chain'[i] = chain[i]
    BY <1>7, <1>8, <1>9
  <1>12. \A p \in 1 .. size : order[p] \in txs /\ order[p] \in pending
    BY <1>4
  <1>13. \A p \in 1 .. size : \A i \in DOMAIN chain : \A q \in DOMAIN chain[i] : chain[i][q] # order[p]
    BY <1>12 DEF ChainInv
  <1>14. OnePlaceEach'
    <2> SUFFICES ASSUME NEW i \in DOMAIN chain', NEW k \in DOMAIN chain',
                        NEW p \in DOMAIN chain'[i], NEW q \in DOMAIN chain'[k],
                        chain'[i][p] = chain'[k][q]
                 PROVE  i = k /\ p = q
      BY DEF OnePlaceEach
    <2>1. CASE i \in DOMAIN chain /\ k \in DOMAIN chain
      BY <2>1, <1>11 DEF ChainInv, OnePlaceEach
    <2>2. CASE i \in DOMAIN chain /\ k = Len(chain) + 1
      BY <2>2, <1>5, <1>7, <1>11, <1>13
    <2>3. CASE i = Len(chain) + 1 /\ k \in DOMAIN chain
      BY <2>3, <1>5, <1>7, <1>11, <1>13
    <2>4. CASE i = Len(chain) + 1 /\ k = Len(chain) + 1
      BY <2>4, <1>4, <1>5, <1>7
    <2> QED BY <1>10, <2>1, <2>2, <2>3, <2>4
  <1>15. ASSUME NEW i \in DOMAIN chain', NEW p \in DOMAIN chain'[i] PROVE chain'[i][p] \notin pending'
    <2>1. CASE i \in DOMAIN chain
      BY <2>1, <1>1, <1>11 DEF ChainInv
    <2>2. CASE i = Len(chain) + 1
      BY <2>2, <1>1, <1>5, <1>7, <1>12
    <2> QED BY <1>10, <2>1, <2>2
  <1> QED BY <1>1, <1>7, <1>8, <1>11, <1>14, <1>15 DEF ChainInv

(* The last block is taken back, its transactions wait again.              *)
LEMMA ReorgIs ==
  ASSUME ChainInv, Reorg
  PROVE  /\ ChainInv'
         /\ Len(chain) \in Nat \ {0} /\ Len(chain') = Len(chain) - 1
         /\ DOMAIN chain' = 1 .. Len(chain) - 1
         /\ \A i \in DOMAIN chain' : i \in DOMAIN chain /\ chain'[i] = chain[i]
  <1>1. /\ chain # <<>> /\ chain' = SubSeq(chain, 1, Len(chain) - 1)
        /\ pending' = pending \cup ToSet(chain[Len(chain)])
    BY DEF Reorg, Front, Last
  <1>2. Len(chain) \in Nat /\ DOMAIN chain = 1 .. Len(chain)
    BY ChainHas
  <1>3. Len(chain) # 0
    BY <1>1, EmptySeq DEF ChainInv
  <1> DEFINE m == Len(chain) - 1
  <1>4. m \in Nat /\ m <= Len(chain) /\ \A i \in 1 .. m : i \in 1 .. Len(chain)
    BY <1>2, <1>3
  <1>5. /\ chain' \in Seq(Seq(Transactions)) /\ Len(chain') = m
        /\ \A i \in 1 .. m : chain'[i] = chain[i]
    <2>1. chain \in Seq(Seq(Transactions)) /\ chain' = SubSeq(chain, 1, m)
      BY <1>1 DEF ChainInv
    <2>2. \A i \in 1 .. m : chain[i] \in Seq(Transactions)
      BY <1>2, <1>4, ChainHas
    <2> HIDE DEF m
    <2>3. 1 \in Int /\ m \in Int /\ (m < 1 => m = 0)
      BY <1>4
    <2> QED BY <2>1, <2>2, <2>3, <1>4, SubSeqProperties
  <1>6. DOMAIN chain' = 1 .. m
    BY <1>5, LenProperties
  <1>7. \A i \in DOMAIN chain' : i \in DOMAIN chain /\ chain'[i] = chain[i] /\ i # Len(chain)
    BY <1>2, <1>4, <1>5, <1>6
  <1>8. OnePlaceEach'
    BY <1>7 DEF ChainInv, OnePlaceEach
  <1>9. ASSUME NEW i \in DOMAIN chain', NEW p \in DOMAIN chain'[i] PROVE chain'[i][p] \notin pending'
    <2>1. chain[i][p] \notin pending
      BY <1>7 DEF ChainInv
    <2>2. Len(chain) \in DOMAIN chain
      BY <1>2, <1>3
    <2>3. \A q \in DOMAIN chain[Len(chain)] : chain[Len(chain)][q] # chain[i][p]
      BY <1>7, <2>2 DEF ChainInv, OnePlaceEach
    <2> QED BY <1>1, <1>7, <2>1, <2>3 DEF ToSet
  <1>10. pending' \in SUBSET Transactions
    <2>1. Len(chain) \in DOMAIN chain
      BY <1>2, <1>3
    <2>2. \A q \in DOMAIN chain[Len(chain)] : chain[Len(chain)][q] \in Transactions
      BY <2>1, ChainHas
    <2> QED BY <1>1, <2>2 DEF ToSet, ChainInv
  <1> QED BY <1>2, <1>3, <1>5, <1>6, <1>7, <1>8, <1>9, <1>10 DEF ChainInv

-----------------------------------------------------------------------------
(* What the node has.                                                      *)

LogAt(n, tx, i, j) ==
  [blockNumber |-> n, logIndex |-> <<i, j>>, transactionHash |-> tx.id,
   from |-> tx.transfers[j].from, to |-> tx.transfers[j].to, amount |-> tx.transfers[j].amount]

LEMMA LogsInAre ==
  ASSUME NEW n, NEW txs, NEW log
  PROVE  log \in LogsIn(n, txs) <=>
           \E i \in DOMAIN txs : \E j \in DOMAIN txs[i].transfers : log = LogAt(n, txs[i], i, j)
  BY DEF LogsIn, LogAt

Comes(range, log) ==
  \E n, i, j : /\ n \in range.from .. range.to /\ n \in DOMAIN chain
                /\ i \in DOMAIN chain[n] /\ j \in DOMAIN chain[n][i].transfers
                /\ log = LogAt(n, chain[n][i], i, j)

LEMMA LogsOfAre ==
  ASSUME NEW range, NEW log \in LogsOf(range)
  PROVE  Comes(range, log)
  <1>1. PICK n \in (range.from .. range.to) \cap DOMAIN chain : log \in LogsIn(n, chain[n])
    BY DEF LogsOf
  <1> QED BY <1>1, LogsInAre DEF Comes

(* A log is known by its transaction and its place.                        *)
LEMMA LogIsKnown ==
  ASSUME ChainInv, NEW range, NEW a \in LogsOf(range), NEW b \in LogsOf(range),
         SettlementRef(a) = SettlementRef(b)
  PROVE  a = b
  <1>0. Comes(range, a) /\ Comes(range, b)
    BY LogsOfAre
  <1>1. PICK n, i, j : /\ n \in DOMAIN chain /\ i \in DOMAIN chain[n]
                       /\ a = LogAt(n, chain[n][i], i, j)
    BY <1>0 DEF Comes
  <1>2. PICK m, k, l : /\ m \in DOMAIN chain /\ k \in DOMAIN chain[m]
                       /\ b = LogAt(m, chain[m][k], k, l)
    BY <1>0 DEF Comes
  <1>3. chain[n][i].id = chain[m][k].id /\ i = k /\ j = l
    BY <1>1, <1>2 DEF SettlementRef, LogAt
  <1>4. chain[n][i] = chain[m][k]
    BY <1>1, <1>2, <1>3, ChainHas, TransactionsAssumption
  <1>5. n = m
    BY <1>1, <1>2, <1>4 DEF ChainInv, OnePlaceEach
  <1> QED BY <1>1, <1>2, <1>3, <1>5

LEMMA FiniteImage ==
  ASSUME NEW S, IsFiniteSet(S), NEW f
  PROVE  IsFiniteSet({f[x] : x \in S})
  <1> DEFINE image == {f[x] : x \in S}
             g == [x \in S |-> f[x]]
  <1>1. g \in Surjection(S, image)
    BY DEF Surjection
  <1> HIDE DEF g, image
  <1>2. IsFiniteSet(image)
    BY <1>1, FS_Surjection
  <1> QED BY <1>2 DEF image

LEMMA NodeHasFinite ==
  ASSUME ChainInv, NEW range, NEW side
  PROVE  IsFiniteSet(NodeHas(range, side))
  <1>1. ASSUME NEW n \in DOMAIN chain PROVE IsFiniteSet(LogsIn(n, chain[n]))
    <2> DEFINE of == [i \in DOMAIN chain[n] |->
                        {LogAt(n, chain[n][i], i, j) : j \in DOMAIN chain[n][i].transfers}]
               all == {of[i] : i \in DOMAIN chain[n]}
    <2>1. ASSUME NEW i \in DOMAIN chain[n] PROVE IsFiniteSet(of[i])
      <3> DEFINE S == DOMAIN chain[n][i].transfers
                 log == [j \in S |-> LogAt(n, chain[n][i], i, j)]
      <3>1. IsFiniteSet(S)
        BY ChainHas, TransactionsAssumption
      <3>2. of[i] = {log[j] : j \in S}
        OBVIOUS
      <3>3. IsFiniteSet({log[j] : j \in S})
        <4> HIDE DEF S, log
        <4> QED BY <3>1, FiniteImage
      <3> QED BY <3>2, <3>3
    <2>2. IsFiniteSet(DOMAIN chain[n])
      BY ChainHas, FS_Interval
    <2>3. IsFiniteSet(all)
      <3> HIDE DEF of
      <3> QED BY <2>2, FiniteImage
    <2>4. \A T \in all : IsFiniteSet(T)
      <3> HIDE DEF of
      <3> QED BY <2>1
    <2>5. LogsIn(n, chain[n]) = UNION all
      BY DEF LogsIn, LogAt
    <2> HIDE DEF all
    <2> QED BY <2>3, <2>4, <2>5, FS_UNION
  <1> DEFINE blocks == (range.from .. range.to) \cap DOMAIN chain
             in == [n \in blocks |-> LogsIn(n, chain[n])]
             all == {in[n] : n \in blocks}
  <1>2. IsFiniteSet(blocks)
    <2>1. IsFiniteSet(DOMAIN chain)
      BY ChainHas, FS_Interval
    <2> QED BY <2>1, FS_Subset
  <1>3. IsFiniteSet(all)
    <2> HIDE DEF in, blocks
    <2> QED BY <1>2, FiniteImage
  <1>4. \A T \in all : IsFiniteSet(T)
    BY <1>1
  <1>5. LogsOf(range) = UNION all
    BY DEF LogsOf
  <1>6. IsFiniteSet(LogsOf(range))
    <2> HIDE DEF all
    <2> QED BY <1>3, <1>4, <1>5, FS_UNION
  <1>7. NodeHas(range, side) \in SUBSET LogsOf(range)
    BY DEF NodeHas
  <1> QED BY <1>6, <1>7, FS_Subset

(* A sequence has what is in a set, each once.                             *)
Enumerates(seq, set) ==
  /\ IsSeq(seq) /\ ToSet(seq) = set
  /\ \A i, j \in DOMAIN seq : seq[i] = seq[j] => i = j

LEMMA NodeLists ==
  ASSUME ChainInv, NEW range, NEW side
  PROVE  Enumerates(GetLogs(range, side), NodeHas(range, side))
  <1> DEFINE set == NodeHas(range, side)
             answer == GetLogs(range, side)
             size == Cardinality(set)
  <1>1. IsFiniteSet(set)
    BY NodeHasFinite
  <1>2. size \in Nat /\ ExistsBijection(1 .. size, set)
    <2> HIDE DEF set
    <2> QED BY <1>1, FS_CardinalityType
  <1>3. answer \in [1 .. size -> set] /\ IsInjective(answer)
    <2> HIDE DEF set
    <2>1. \E f \in [1 .. size -> set] : IsInjective(f)
      BY <1>2 DEF ExistsBijection, Bijection, Injection
    <2>2. answer = CHOOSE f \in [1 .. size -> set] : IsInjective(f)
      BY DEF GetLogs, SetToSeq, set
    <2> HIDE DEF answer, size
    <2> QED BY <2>1, <2>2
  <1> HIDE DEF answer, size, set
  <1>4. DOMAIN answer = 1 .. size /\ \A i, j \in DOMAIN answer : answer[i] = answer[j] => i = j
    BY <1>3 DEF IsInjective
  <1>5. IsSeq(answer)
    BY <1>2, <1>3, FnIsSeq
  <1>6. ToSet(answer) = set
    <2>1. answer \in Injection(1 .. size, set)
      BY <1>3 DEF Injection
    <2>2. IsFiniteSet(1 .. size) /\ Cardinality(1 .. size) = size
      BY <1>2, FS_Interval
    <2>3. answer \in Surjection(1 .. size, set)
      BY <2>1, <2>2, <1>1, FS_Injection DEF size
    <2> QED BY <2>3, <1>3, <1>4 DEF Surjection, ToSet
  <1> QED BY <1>4, <1>5, <1>6 DEF Enumerates, answer, set

-----------------------------------------------------------------------------
(* What the reader makes of the answers.                                   *)

Involved(range) == {log \in LogsOf(range) : InvolvesAccount(log)}

LEMMA SeqSet ==
  ASSUME NEW s, IsSeq(s)
  PROVE  /\ Len(s) \in Nat /\ DOMAIN s = 1 .. Len(s)
         /\ \A i \in DOMAIN s : s[i] \in ToSet(s)
         /\ \A x \in ToSet(s) : \E i \in DOMAIN s : s[i] = x
  BY SeqHas DEF ToSet

LEMMA SeqConcat ==
  ASSUME NEW a, NEW b, IsSeq(a), IsSeq(b)
  PROVE  IsSeq(a \o b) /\ ToSet(a \o b) = ToSet(a) \cup ToSet(b)
  <1> DEFINE all == Range(a) \cup Range(b)
  <1>1. a \in Seq(all) /\ b \in Seq(all)
    BY SeqMonotonic DEF IsSeq
  <1>2. /\ a \o b \in Seq(all) /\ Len(a \o b) = Len(a) + Len(b)
        /\ \A i \in 1 .. Len(a) + Len(b) :
             (a \o b)[i] = IF i <= Len(a) THEN a[i] ELSE b[i - Len(a)]
    <2> HIDE DEF all
    <2> QED BY <1>1, ConcatProperties
  <1>3. /\ Len(a) \in Nat /\ DOMAIN a = 1 .. Len(a)
        /\ Len(b) \in Nat /\ DOMAIN b = 1 .. Len(b)
    BY SeqHas
  <1> HIDE DEF all
  <1>4. DOMAIN (a \o b) = 1 .. Len(a) + Len(b) /\ Len(a) + Len(b) \in Nat
    BY <1>2, <1>3, LenProperties
  <1>5. a \o b = [i \in 1 .. Len(a) + Len(b) |-> (a \o b)[i]]
    BY <1>2, LenProperties
  <1>6. IsSeq(a \o b)
    BY <1>4, <1>5, FnIsSeq
  <1>7. ASSUME NEW i \in DOMAIN a PROVE a[i] \in ToSet(a \o b)
    <2>1. i \in 1 .. Len(a) + Len(b) /\ i <= Len(a)
      BY <1>3
    <2>2. (a \o b)[i] = a[i]
      BY <1>2, <2>1
    <2> QED BY <1>4, <2>1, <2>2 DEF ToSet
  <1>8. ASSUME NEW i \in DOMAIN b PROVE b[i] \in ToSet(a \o b)
    <2> DEFINE k == i + Len(a)
    <2>1. k \in 1 .. Len(a) + Len(b) /\ ~(k <= Len(a)) /\ k - Len(a) = i
      BY <1>3
    <2> HIDE DEF k
    <2>2. (a \o b)[k] = b[i]
      BY <1>2, <2>1
    <2> QED BY <1>4, <2>1, <2>2 DEF ToSet
  <1>9. ASSUME NEW i \in DOMAIN (a \o b) PROVE (a \o b)[i] \in ToSet(a) \cup ToSet(b)
    <2>1. i \in 1 .. Len(a) + Len(b)
      BY <1>4
    <2>2. CASE i <= Len(a)
      <3>1. (a \o b)[i] = a[i] /\ i \in DOMAIN a
        BY <1>2, <1>3, <2>1, <2>2
      <3> QED BY <3>1 DEF ToSet
    <2>3. CASE ~(i <= Len(a))
      <3>1. (a \o b)[i] = b[i - Len(a)] /\ i - Len(a) \in DOMAIN b
        BY <1>2, <1>3, <2>1, <2>3
      <3> QED BY <3>1 DEF ToSet
    <2> QED BY <2>2, <2>3
  <1>10. ToSet(a \o b) = ToSet(a) \cup ToSet(b)
    BY <1>7, <1>8, <1>9 DEF ToSet
  <1> QED BY <1>6, <1>10

(* One of each transfer stays.                                             *)
LEMMA DedupeIs ==
  ASSUME NEW logs, IsSeq(logs)
  PROVE  /\ IsSeq(DedupeLogs(logs)) /\ ToSet(DedupeLogs(logs)) \subseteq ToSet(logs)
         /\ \A i \in DOMAIN logs : \E n \in DOMAIN DedupeLogs(logs) :
              SettlementRef(DedupeLogs(logs)[n]) = SettlementRef(logs[i])
         /\ \A m, n \in DOMAIN DedupeLogs(logs) :
              SettlementRef(DedupeLogs(logs)[m]) = SettlementRef(DedupeLogs(logs)[n]) => m = n
  <1> DEFINE N == Len(logs)
             ref == [i \in 1 .. N |-> SettlementRef(logs[i])]
             places == Firsts(N, ref)
             kept == Kept(logs, places)
  <1>1. N \in Nat /\ DOMAIN logs = 1 .. N
    BY SeqSet
  <1>2. DedupeLogs(logs) = kept
    <2>1. \A i \in 1 .. N : \A j \in 1 .. i - 1 : j \in 1 .. N
      BY <1>1
    <2>2. places = {i \in 1 .. N : \A j \in 1 .. i - 1 : SettlementRef(logs[j]) # SettlementRef(logs[i])}
      BY <2>1 DEF Firsts
    <2> HIDE DEF places, N
    <2> QED BY <1>1, <2>2 DEF DedupeLogs, SettlementRef
  <1>3. \A i \in 1 .. N : ref[i] = SettlementRef(logs[i])
    OBVIOUS
  <1> HIDE DEF N, ref
  <1>4. /\ places \in SUBSET (1 .. N)
        /\ \A i \in 1 .. N : \E f \in places : ref[f] = ref[i]
        /\ \A f, g \in places : ref[f] = ref[g] => f = g
    BY <1>1, FirstsAre
  <1> HIDE DEF places
  <1>0. IsKept(kept, logs, places)
    BY <1>1, <1>4, KeptIs
  <1> HIDE DEF kept
  <1>5. /\ DOMAIN kept = 1 .. Cardinality(places) /\ IsSeq(kept)
        /\ \A n \in DOMAIN kept : Nth(places, n) \in places /\ kept[n] = logs[Nth(places, n)]
        /\ \A i \in places : \E n \in DOMAIN kept : Nth(places, n) = i
        /\ \A m, n \in DOMAIN kept : Nth(places, m) = Nth(places, n) => m = n
    BY <1>0 DEF IsKept
  <1>6. ToSet(kept) \subseteq ToSet(logs)
    <2> SUFFICES ASSUME NEW n \in DOMAIN kept PROVE kept[n] \in ToSet(logs)
      BY DEF ToSet
    <2>1. kept[n] = logs[Nth(places, n)] /\ Nth(places, n) \in DOMAIN logs
      BY <1>1, <1>4, <1>5
    <2> QED BY <2>1 DEF ToSet
  <1>7. ASSUME NEW i \in DOMAIN logs
        PROVE  \E n \in DOMAIN kept : SettlementRef(kept[n]) = SettlementRef(logs[i])
    <2>1. PICK f \in places : ref[f] = ref[i]
      BY <1>1, <1>4
    <2>2. PICK n \in DOMAIN kept : Nth(places, n) = f
      BY <1>5
    <2>3. kept[n] = logs[f] /\ f \in 1 .. N /\ i \in 1 .. N
      BY <1>1, <1>4, <1>5, <2>2
    <2> QED BY <1>3, <2>1, <2>3
  <1>8. ASSUME NEW m \in DOMAIN kept, NEW n \in DOMAIN kept,
               SettlementRef(kept[m]) = SettlementRef(kept[n])
        PROVE  m = n
    <2>0. /\ Nth(places, m) \in 1 .. N /\ kept[m] = logs[Nth(places, m)]
          /\ Nth(places, n) \in 1 .. N /\ kept[n] = logs[Nth(places, n)]
      BY <1>4, <1>5
    <2>1. ref[Nth(places, m)] = ref[Nth(places, n)]
      BY <1>3, <1>8, <2>0
    <2> QED BY <1>4, <1>5, <2>1
  <1> QED BY <1>2, <1>5, <1>6, <1>7, <1>8

(* The two answers together have the account's transfers, and one of each  *)
(* is left.                                                                *)
LEMMA LogsAreListed ==
  ASSUME ChainInv, NEW range, NEW both,
         Enumerates(both.from, NodeHas(range, "from")), Enumerates(both.to, NodeHas(range, "to"))
  PROVE  Enumerates(Logs(both), Involved(range))
  <1> DEFINE cat == both.from \o both.to
             left == DedupeLogs(cat)
  <1>1. IsSeq(cat) /\ ToSet(cat) = ToSet(both.from) \cup ToSet(both.to)
    BY SeqConcat DEF Enumerates
  <1>2. ToSet(cat) = Involved(range)
    <2>1. NodeHas(range, "from") = {log \in LogsOf(range) : log.from = Account}
      BY DEF NodeHas
    <2>2. NodeHas(range, "to") = {log \in LogsOf(range) : log.to = Account}
      BY DEF NodeHas
    <2> HIDE DEF cat
    <2> QED BY <1>1, <2>1, <2>2 DEF Enumerates, Involved, InvolvesAccount
  <1> HIDE DEF cat
  <1>3. /\ IsSeq(left) /\ ToSet(left) \subseteq ToSet(cat)
        /\ \A i \in DOMAIN cat : \E n \in DOMAIN left : SettlementRef(left[n]) = SettlementRef(cat[i])
        /\ \A m, n \in DOMAIN left : SettlementRef(left[m]) = SettlementRef(left[n]) => m = n
    BY <1>1, DedupeIs
  <1> HIDE DEF left
  <1>4. \A n \in DOMAIN left : left[n] \in Involved(range) /\ left[n] \in LogsOf(range)
    BY <1>2, <1>3 DEF ToSet, Involved
  <1>5. ASSUME NEW log \in Involved(range) PROVE log \in ToSet(left)
    <2>1. PICK i \in DOMAIN cat : cat[i] = log
      BY <1>2 DEF ToSet
    <2>2. PICK n \in DOMAIN left : SettlementRef(left[n]) = SettlementRef(log)
      BY <1>3, <2>1
    <2>3. log \in LogsOf(range) /\ left[n] \in LogsOf(range)
      BY <1>4 DEF Involved
    <2>4. left[n] = log
      BY <2>2, <2>3, LogIsKnown
    <2> QED BY <2>4 DEF ToSet
  <1>6. ToSet(left) = Involved(range)
    BY <1>4, <1>5 DEF ToSet
  <1> QED BY <1>3, <1>6 DEF Enumerates, Logs, cat, left

(* The boundary blocks and those of the logs are asked for.                *)
LEMMA BlocksAsked ==
  ASSUME NEW logs, IsSeq(logs)
  PROVE  /\ IsSeq(BlocksToAsk(logs)) /\ BlocksToAsk(logs) # <<>>
         /\ asked.from \in ToSet(BlocksToAsk(logs)) /\ asked.to \in ToSet(BlocksToAsk(logs))
         /\ \A log \in ToSet(logs) : log.blockNumber \in ToSet(BlocksToAsk(logs))
  <1> DEFINE bounds == <<asked.from, asked.to>>
             own == [i \in DOMAIN logs |-> logs[i].blockNumber]
             numbers == bounds \o own
             N == Len(numbers)
             places == Firsts(N, numbers)
             kept == Kept(numbers, places)
  <1>1. IsSeq(bounds) /\ ToSet(bounds) = {asked.from, asked.to}
    <2>1. bounds = [i \in 1 .. 2 |-> bounds[i]] /\ DOMAIN bounds = 1 .. 2
      OBVIOUS
    <2>2. bounds[1] = asked.from /\ bounds[2] = asked.to
      OBVIOUS
    <2> HIDE DEF bounds
    <2>3. IsSeq(bounds)
      BY <2>1, FnIsSeq
    <2>4. 1 .. 2 = {1, 2}
      OBVIOUS
    <2> QED BY <2>1, <2>2, <2>3, <2>4 DEF ToSet
  <1>2. IsSeq(own) /\ \A log \in ToSet(logs) : log.blockNumber \in ToSet(own)
    <2>1. Len(logs) \in Nat /\ DOMAIN logs = 1 .. Len(logs)
      BY SeqSet
    <2>2. DOMAIN own = 1 .. Len(logs) /\ own = [i \in 1 .. Len(logs) |-> own[i]]
      BY <2>1
    <2>3. IsSeq(own)
      <3> HIDE DEF own
      <3> QED BY <2>1, <2>2, FnIsSeq
    <2> QED BY <2>3 DEF ToSet
  <1> HIDE DEF bounds, own
  <1>3. IsSeq(numbers) /\ ToSet(numbers) = ToSet(bounds) \cup ToSet(own)
    BY <1>1, <1>2, SeqConcat
  <1> HIDE DEF numbers
  <1>4. N \in Nat /\ DOMAIN numbers = 1 .. N
    BY <1>3, SeqSet
  <1>5. BlocksToAsk(logs) = kept
    BY <1>4 DEF BlocksToAsk, Firsts, numbers, bounds, own
  <1> HIDE DEF N
  <1>6. /\ places \in SUBSET (1 .. N)
        /\ \A i \in 1 .. N : \E f \in places : numbers[f] = numbers[i]
    BY <1>4, FirstsAre
  <1> HIDE DEF places
  <1>0. IsKept(kept, numbers, places)
    BY <1>4, <1>6, KeptIs
  <1> HIDE DEF kept
  <1>7. /\ IsSeq(kept)
        /\ \A n \in DOMAIN kept : kept[n] = numbers[Nth(places, n)]
        /\ \A i \in places : \E n \in DOMAIN kept : Nth(places, n) = i
    BY <1>0 DEF IsKept
  <1>8. ASSUME NEW b \in ToSet(numbers) PROVE b \in ToSet(kept)
    <2>1. PICK i \in 1 .. N : numbers[i] = b
      BY <1>4 DEF ToSet
    <2>2. PICK f \in places : numbers[f] = b
      BY <1>6, <2>1
    <2>3. PICK n \in DOMAIN kept : Nth(places, n) = f
      BY <1>7
    <2> QED BY <1>7, <2>2, <2>3 DEF ToSet
  <1>9. asked.from \in ToSet(kept)
    BY <1>1, <1>3, <1>8
  <1>10. kept # <<>>
    BY <1>9 DEF ToSet
  <1> QED BY <1>1, <1>2, <1>3, <1>5, <1>7, <1>8, <1>9, <1>10

-----------------------------------------------------------------------------
(* The extract.                                                            *)

Row(log) ==
  [ref |-> SettlementRef(log), amount |-> log.amount, timestampMs |-> TimeOf(log.blockNumber) * 1000]

LEMMA RowIs ==
  \A log : Row(log).ref = SettlementRef(log) /\ Row(log).timestampMs = TimeOf(log.blockNumber) * 1000
  BY DEF Row

(* With the times of the blocks it asks for, it has the rows of the range. *)
IsExact(body) ==
  /\ ToSet(body.settlements) = TransfersOf(asked)
  /\ Len(body.settlements) = Cardinality(TransfersOf(asked))
  /\ \A i \in DOMAIN body.settlements :
       /\ body.windowStartMs <= body.settlements[i].timestampMs
       /\ body.settlements[i].timestampMs < body.windowEndMs

LEMMA ExtractIsExact ==
  ASSUME ChainInv, asked.from \in Int, asked.to \in Int, NEW logs, Enumerates(logs, Involved(asked)), NEW known,
         known[asked.from] = TimeOf(asked.from), known[asked.to] = TimeOf(asked.to),
         \A log \in Involved(asked) : known[log.blockNumber] = TimeOf(log.blockNumber)
  PROVE  IsExact(LogsToExtract(logs, known))
  <1> DEFINE N == Len(logs)
             places == {i \in DOMAIN logs : InvolvesAccount(logs[i])}
             mine == Kept(logs, places)
             size == Cardinality(places)
             rows == [i \in DOMAIN mine |->
                        [ref |-> SettlementRef(mine[i]), amount |-> mine[i].amount,
                         timestampMs |-> known[mine[i].blockNumber] * 1000]]
  <1>1. /\ IsSeq(logs) /\ N \in Nat /\ DOMAIN logs = 1 .. N
        /\ ToSet(logs) = Involved(asked)
        /\ \A i, j \in DOMAIN logs : logs[i] = logs[j] => i = j
    BY SeqSet DEF Enumerates
  <1>2. places = 1 .. N
    BY <1>1 DEF ToSet, Involved
  <1> HIDE DEF N, places
  <1>3. IsKept(mine, logs, places)
    BY <1>1, <1>2, KeptIs
  <1> HIDE DEF mine
  <1>4. /\ size \in Nat /\ DOMAIN mine = 1 .. size
        /\ \A n \in 1 .. size : Nth(places, n) \in DOMAIN logs /\ mine[n] = logs[Nth(places, n)]
        /\ \A i \in DOMAIN logs : \E n \in 1 .. size : Nth(places, n) = i
        /\ \A m, n \in 1 .. size : Nth(places, m) = Nth(places, n) => m = n
    BY <1>1, <1>2, <1>3 DEF IsKept
  <1> HIDE DEF size
  <1>5. \A n \in 1 .. size : mine[n] \in Involved(asked)
    BY <1>1, <1>4 DEF ToSet
  <1>6. \A n \in 1 .. size : rows[n] = Row(mine[n])
    BY <1>4, <1>5 DEF Row
  <1>7. DOMAIN rows = 1 .. size /\ IsSeq(rows) /\ Len(rows) = size
    <2>1. DOMAIN rows = 1 .. size /\ rows = [n \in 1 .. size |-> rows[n]]
      BY <1>4
    <2> HIDE DEF rows
    <2> QED BY <1>4, <2>1, FnIsSeq
  <1> HIDE DEF rows
  <1>8. TransfersOf(asked) = {Row(log) : log \in Involved(asked)}
    BY DEF TransfersOf, Row, Involved
  <1>9. ASSUME NEW log \in Involved(asked) PROVE \E n \in 1 .. size : rows[n] = Row(log)
    <2>1. PICK i \in DOMAIN logs : logs[i] = log
      BY <1>1 DEF ToSet
    <2>2. PICK n \in 1 .. size : Nth(places, n) = i
      BY <1>4
    <2> QED BY <1>4, <1>6, <2>1, <2>2
  <1>10. ASSUME NEW m \in 1 .. size, NEW n \in 1 .. size, rows[m] = rows[n] PROVE m = n
    <2>1. SettlementRef(mine[m]) = SettlementRef(mine[n])
      <3>1. Row(mine[m]) = Row(mine[n])
        BY <1>6, <1>10
      <3>2. Row(mine[m]).ref = SettlementRef(mine[m]) /\ Row(mine[n]).ref = SettlementRef(mine[n])
        BY RowIs
      <3> QED BY <3>1, <3>2
    <2>2. mine[m] \in LogsOf(asked) /\ mine[n] \in LogsOf(asked)
      BY <1>5 DEF Involved
    <2>3. mine[m] = mine[n]
      BY <2>1, <2>2, LogIsKnown
    <2> QED BY <1>1, <1>4, <2>3
  <1>11. ToSet(rows) = TransfersOf(asked)
    BY <1>5, <1>6, <1>7, <1>8, <1>9 DEF ToSet
  <1>12. Len(rows) = Cardinality(TransfersOf(asked))
    <2>1. rows \in [1 .. size -> TransfersOf(asked)]
      <3>1. rows = [n \in 1 .. size |-> rows[n]]
        BY <1>7, SeqHas
      <3> QED BY <1>5, <1>6, <1>8, <3>1
    <2>2. rows \in Bijection(1 .. size, TransfersOf(asked))
      BY <2>1, <1>8, <1>9, <1>10 DEF Bijection, Injection, Surjection, IsInjective
    <2> QED BY <1>4, <1>7, <2>2, FS_CountingElements DEF ExistsBijection
  <1> DEFINE body == LogsToExtract(logs, known)
  <1>13. /\ body.settlements = rows
         /\ body.windowStartMs = TimeOf(asked.from) * 1000
         /\ body.windowEndMs = TimeOf(asked.to) * 1000 + 1
    BY DEF LogsToExtract, rows, mine, places
  <1> HIDE DEF body
  <1>14. ASSUME NEW n \in 1 .. size
         PROVE  body.windowStartMs <= rows[n].timestampMs /\ rows[n].timestampMs < body.windowEndMs
    <2> DEFINE b == mine[n].blockNumber
    <2>1. Comes(asked, mine[n])
      BY <1>5, LogsOfAre DEF Involved
    <2>2. b \in asked.from .. asked.to
      BY <2>1 DEF Comes, LogAt
    <2>3. rows[n].timestampMs = TimeOf(b) * 1000
      <3>1. rows[n] = Row(mine[n])
        BY <1>6
      <3>2. Row(mine[n]).timestampMs = TimeOf(mine[n].blockNumber) * 1000
        BY RowIs
      <3> QED BY <3>1, <3>2
    <2> HIDE DEF b
    <2>4. asked.from * 2 * 1000 <= b * 2 * 1000 /\ b * 2 * 1000 <= asked.to * 2 * 1000 /\ b \in Int
      BY <2>2
    <2> QED BY <1>13, <2>3, <2>4 DEF TimeOf
  <1>15. IsExact(body)
    BY <1>7, <1>11, <1>12, <1>13, <1>14 DEF IsExact
  <1> QED BY <1>15 DEF body

-----------------------------------------------------------------------------
(* The reader: while the range it asks for stays as it was mined, an       *)
(* answer it has is what the node still has; it has asked for, or is still *)
(* to ask for, the times it will need; and what it is told of a block is   *)
(* its time.                                                               *)

NeededBlocks(both) == {asked.from, asked.to} \cup {log.blockNumber : log \in ToSet(Logs(both))}

ReadInv ==
  /\ pc \in {"idle", "chain"} => answers = <<>> /\ times = <<>>
  /\ pc = "logs" => times = <<>>
  /\ pc = "idle" => ~settled
  /\ \A b \in DOMAIN times : times[b] = TimeOf(b)
  /\ settled =>
       /\ asked.from \in Int /\ asked.to \in Int /\ asked.from >= 1 /\ asked.to <= Len(chain)
       /\ \A side \in DOMAIN answers : Enumerates(answers[side], NodeHas(asked, side))
       /\ pc \in {"blocks", "done"} => DOMAIN answers = {"from", "to"}
       /\ pc = "blocks" =>
            IsSeq(queue) /\ queue # <<>> /\ NeededBlocks(answers) \subseteq DOMAIN times \cup ToSet(queue)
       /\ pc = "done" =>
            extract = LogsToExtract(Logs(answers), times) /\ NeededBlocks(answers) \subseteq DOMAIN times

BaseInv == ChainInv /\ ReadInv

LEMMA DoneIsExact == ASSUME BaseInv PROVE SettledRangeIsExact
  <1> SUFFICES ASSUME pc = "done", settled PROVE IsExact(extract)
    BY DEF SettledRangeIsExact, IsExact
  <1>1. ChainInv /\ asked.from \in Int /\ asked.to \in Int
    BY DEF BaseInv, ReadInv
  <1>2. Enumerates(answers.from, NodeHas(asked, "from")) /\ Enumerates(answers.to, NodeHas(asked, "to"))
    BY DEF BaseInv, ReadInv
  <1>3. Enumerates(Logs(answers), Involved(asked))
    BY <1>1, <1>2, LogsAreListed
  <1>4. \A b \in NeededBlocks(answers) : times[b] = TimeOf(b)
    BY DEF BaseInv, ReadInv
  <1>5. \A log \in Involved(asked) : times[log.blockNumber] = TimeOf(log.blockNumber)
    BY <1>3, <1>4 DEF NeededBlocks, Enumerates
  <1>6. times[asked.from] = TimeOf(asked.from) /\ times[asked.to] = TimeOf(asked.to)
    BY <1>4 DEF NeededBlocks
  <1>7. IsExact(LogsToExtract(Logs(answers), times))
    BY <1>1, <1>3, <1>5, <1>6, ExtractIsExact
  <1> QED BY <1>7 DEF BaseInv, ReadInv

(* A range that stays as it was mined has what it had.                     *)
LEMMA RangeStays ==
  ASSUME asked' = asked, NEW side, asked.from \in Int, asked.to \in Int,
         \A i \in asked.from .. asked.to :
           (i \in DOMAIN chain' <=> i \in DOMAIN chain) /\ (i \in DOMAIN chain => chain'[i] = chain[i])
  PROVE  NodeHas(asked, side)' = NodeHas(asked, side)
  <1>1. (LogsOf(asked))' = LogsOf(asked)
    BY DEF LogsOf, LogsIn
  <1> QED BY <1>1 DEF NodeHas

LEMMA ReaderStays ==
  ASSUME ReadInv, UNCHANGED <<pc, asked, answers, queue, times, extract>>, settled' => settled,
         settled' => /\ asked.to <= Len(chain')
                     /\ \A i \in asked.from .. asked.to :
                          /\ i \in DOMAIN chain' <=> i \in DOMAIN chain
                          /\ i \in DOMAIN chain => chain'[i] = chain[i]
  PROVE  ReadInv'
  <1>1. NeededBlocks(answers)' = NeededBlocks(answers)
    BY DEF NeededBlocks, Logs
  <1>2. ASSUME settled' PROVE \A side \in DOMAIN answers : Enumerates(answers'[side], NodeHas(asked, side)')
    <2>1. settled /\ asked.from \in Int /\ asked.to \in Int
      BY <1>2 DEF ReadInv
    <2>2. \A side : NodeHas(asked, side)' = NodeHas(asked, side)
      BY <1>2, <2>1, RangeStays
    <2> QED BY <2>1, <2>2 DEF ReadInv
  <1>3. LogsToExtract(Logs(answers), times)' = LogsToExtract(Logs(answers), times)
    BY DEF LogsToExtract, Logs
  <1> QED BY <1>1, <1>2, <1>3 DEF ReadInv, Enumerates, IsSeq

-----------------------------------------------------------------------------
(* Every step keeps the invariant.                                         *)

LEMMA BaseInvInit == BaseInit => BaseInv
  <1> SUFFICES ASSUME BaseInit PROVE BaseInv
    OBVIOUS
  <1>1. chain = <<>> /\ pending = {} /\ DOMAIN chain = {}
    BY DEF BaseInit
  <1>2. ChainInv
    BY <1>1 DEF ChainInv, OnePlaceEach
  <1>3. ReadInv
    BY DEF BaseInit, ReadInv
  <1> QED BY <1>2, <1>3 DEF BaseInv

LEMMA ChainMoves == ASSUME BaseInv, Arrive \/ Write \/ Mine \/ Reorg PROVE BaseInv'
  <1>1. CASE Arrive \/ Write
    <2>1. PICK tx \in Transactions \ (Mined \cup pending) : pending' = pending \cup {tx}
      BY <1>1 DEF Arrive, Write
    <2>2. UNCHANGED <<chain, pc, asked, answers, queue, times, extract, settled>>
      BY <1>1 DEF Arrive, Write
    <2>3. ChainInv'
      BY <2>1, <2>2, SendKeepsChain DEF BaseInv
    <2>4. ReadInv'
      <3>1. settled => asked.to <= Len(chain)
        BY DEF BaseInv, ReadInv
      <3> QED BY <2>2, <3>1, ReaderStays DEF BaseInv
    <2> QED BY <2>3, <2>4 DEF BaseInv
  <1>2. CASE Mine
    <2>1. /\ ChainInv' /\ Len(chain') = Len(chain) + 1 /\ DOMAIN chain' = 1 .. Len(chain) + 1
          /\ \A i \in DOMAIN chain : i \in DOMAIN chain' /\ chain'[i] = chain[i]
      BY <1>2, MineIs DEF BaseInv
    <2>2. UNCHANGED <<pc, asked, answers, queue, times, extract, settled>>
      BY <1>2 DEF Mine
    <2>3. Len(chain) \in Nat /\ DOMAIN chain = 1 .. Len(chain)
      BY ChainHas DEF BaseInv
    <2>4. ASSUME settled
          PROVE  /\ asked.to <= Len(chain')
                 /\ \A i \in asked.from .. asked.to :
                      /\ i \in DOMAIN chain' <=> i \in DOMAIN chain
                      /\ i \in DOMAIN chain => chain'[i] = chain[i]
      <3>1. asked.from \in Int /\ asked.to \in Int /\ asked.from >= 1 /\ asked.to <= Len(chain)
        BY <2>4 DEF BaseInv, ReadInv
      <3>2. asked.to <= Len(chain')
        BY <2>1, <2>3, <3>1
      <3>3. \A i \in asked.from .. asked.to : i \in DOMAIN chain
        BY <2>3, <3>1
      <3> QED BY <2>1, <3>2, <3>3
    <2>5. ReadInv'
      BY <2>2, <2>4, ReaderStays DEF BaseInv
    <2> QED BY <2>1, <2>5 DEF BaseInv
  <1>3. CASE Reorg
    <2>1. /\ ChainInv' /\ Len(chain) \in Nat \ {0} /\ Len(chain') = Len(chain) - 1
          /\ DOMAIN chain' = 1 .. Len(chain) - 1
          /\ \A i \in DOMAIN chain' : i \in DOMAIN chain /\ chain'[i] = chain[i]
      BY <1>3, ReorgIs DEF BaseInv
    <2>2. /\ UNCHANGED <<pc, asked, answers, queue, times, extract>>
          /\ settled' = (settled /\ Len(chain) > asked.to)
      BY <1>3 DEF Reorg
    <2>3. ASSUME settled'
          PROVE  /\ asked.to <= Len(chain')
                 /\ \A i \in asked.from .. asked.to :
                      /\ i \in DOMAIN chain' <=> i \in DOMAIN chain
                      /\ i \in DOMAIN chain => chain'[i] = chain[i]
      <3>1. asked.from \in Int /\ asked.to \in Int /\ asked.from >= 1 /\ Len(chain) > asked.to
        BY <2>2, <2>3 DEF BaseInv, ReadInv
      <3>2. asked.to <= Len(chain')
        BY <2>1, <3>1
      <3>3. \A i \in asked.from .. asked.to : i \in DOMAIN chain'
        BY <2>1, <3>1
      <3> QED BY <2>1, <3>2, <3>3
    <2>4. ReadInv'
      BY <2>2, <2>3, ReaderStays DEF BaseInv
    <2> QED BY <2>1, <2>4 DEF BaseInv
  <1> QED BY <1>1, <1>2, <1>3

LEMMA ChainInvStays == ASSUME ChainInv, UNCHANGED chainVars PROVE ChainInv'
  BY DEF ChainInv, OnePlaceEach, chainVars

LEMMA NodeStays ==
  ASSUME UNCHANGED chainVars, asked' = asked, NEW side
  PROVE  NodeHas(asked, side)' = NodeHas(asked, side)
  BY DEF NodeHas, LogsOf, LogsIn, chainVars

LEMMA FailStep == ASSUME BaseInv, Fail, UNCHANGED chainVars PROVE BaseInv'
  <1>1. ChainInv'
    BY ChainInvStays DEF BaseInv
  <1>2. pc' = "failed" /\ UNCHANGED <<asked, answers, queue, times, extract, settled>> /\ chain' = chain
    BY DEF Fail, chainVars
  <1>3. \A side : NodeHas(asked, side)' = NodeHas(asked, side)
    BY <1>2, NodeStays
  <1>4. ReadInv'
    BY <1>2, <1>3 DEF BaseInv, ReadInv
  <1> QED BY <1>1, <1>4 DEF BaseInv

LEMMA FetchStep == ASSUME BaseInv, Fetch PROVE BaseInv'
  <1>1. pc = "idle" /\ UNCHANGED chainVars /\ answers = <<>> /\ times = <<>>
    BY DEF Fetch, BaseInv, ReadInv
  <1>2. CASE Fail
    BY <1>1, <1>2, FailStep
  <1>3. CASE ~Fail
    <2>0. PICK from \in 1 .. MaxBlocks, to \in 1 .. MaxBlocks :
            \E usdc \in Contracts :
              /\ pc' = IF usdc = "known" THEN "chain" ELSE "logs"
              /\ asked' = [from |-> from, to |-> to]
              /\ settled' = (to <= Len(chain))
              /\ UNCHANGED <<answers, queue, times, extract>>
      BY <1>3 DEF Fetch
    <2>1. /\ pc' \in {"chain", "logs"} /\ asked' = [from |-> from, to |-> to]
          /\ settled' = (to <= Len(chain)) /\ UNCHANGED <<answers, queue, times, extract>>
      BY <2>0
    <2>2. ChainInv'
      BY <1>1, ChainInvStays DEF BaseInv
    <2>3. answers' = <<>> /\ times' = <<>> /\ DOMAIN answers' = {} /\ DOMAIN times' = {} /\ chain' = chain
      BY <1>1, <2>1 DEF chainVars
    <2>4. asked'.from \in Int /\ asked'.to \in Int /\ asked'.from >= 1 /\ (settled' => asked'.to <= Len(chain'))
      <3>1. asked'.from = from /\ asked'.to = to
        BY <2>1
      <3>2. from \in Int /\ from >= 1 /\ to \in Int
        OBVIOUS
      <3> QED BY <2>1, <2>3, <3>1, <3>2
    <2>5. ReadInv'
      BY <2>1, <2>3, <2>4 DEF ReadInv
    <2> QED BY <2>2, <2>5 DEF BaseInv
  <1> QED BY <1>2, <1>3

LEMMA ChainIdStep == ASSUME BaseInv, ChainId PROVE BaseInv'
  <1>1. pc = "chain" /\ UNCHANGED chainVars /\ answers = <<>> /\ times = <<>>
    BY DEF ChainId, BaseInv, ReadInv
  <1>2. CASE Fail
    BY <1>1, <1>2, FailStep
  <1>3. CASE pc' = "logs" /\ UNCHANGED <<asked, answers, queue, times, extract, settled>>
    <2>1. ChainInv'
      BY <1>1, ChainInvStays DEF BaseInv
    <2>2. \A side : NodeHas(asked, side)' = NodeHas(asked, side)
      BY <1>1, <1>3, NodeStays
    <2>3. ReadInv'
      BY <1>1, <1>3, <2>2 DEF BaseInv, ReadInv, chainVars
    <2> QED BY <2>1, <2>3 DEF BaseInv
  <1> QED BY <1>2, <1>3 DEF ChainId

LEMMA AnswerLogsStep == ASSUME BaseInv, AnswerLogs PROVE BaseInv'
  <1> DEFINE with(side) == [s \in DOMAIN answers \cup {side} |->
                             IF s = side THEN GetLogs(asked, side) ELSE answers[s]]
  <1>1. /\ pc = "logs" /\ UNCHANGED chainVars /\ UNCHANGED <<asked, times, extract, settled>>
        /\ times = <<>>
    BY DEF AnswerLogs, BaseInv, ReadInv
  <1>2. PICK side \in {"from", "to"} \ DOMAIN answers :
          /\ answers' = with(side)
          /\ IF DOMAIN with(side) = {"from", "to"}
             THEN pc' = "blocks" /\ queue' = BlocksToAsk(Logs(with(side)))
             ELSE UNCHANGED <<pc, queue>>
    BY DEF AnswerLogs
  <1>3. DOMAIN answers' = DOMAIN answers \cup {side}
    BY <1>2
  <1>4. answers'[side] = GetLogs(asked, side) /\ \A s \in DOMAIN answers : answers'[s] = answers[s]
    BY <1>2
  <1>5. /\ IF DOMAIN answers' = {"from", "to"}
           THEN pc' = "blocks" /\ queue' = BlocksToAsk(Logs(answers'))
           ELSE UNCHANGED <<pc, queue>>
    BY <1>2
  <1> HIDE DEF with
  <1>6. ChainInv' /\ ChainInv
    BY <1>1, ChainInvStays DEF BaseInv
  <1>7. \A s : NodeHas(asked, s)' = NodeHas(asked, s)
    BY <1>1, NodeStays
  <1>8. ASSUME settled, NEW s \in DOMAIN answers' PROVE Enumerates(answers'[s], NodeHas(asked, s))
    <2>1. CASE s = side
      BY <2>1, <1>4, <1>6, NodeLists
    <2>2. CASE s \in DOMAIN answers
      BY <2>2, <1>4, <1>8 DEF BaseInv, ReadInv
    <2> QED BY <1>3, <2>1, <2>2
  <1>9. ASSUME settled, DOMAIN answers' = {"from", "to"}
        PROVE  /\ IsSeq(queue') /\ queue' # <<>>
               /\ NeededBlocks(answers)' \subseteq ToSet(queue')
    <2>1. Enumerates(answers'.from, NodeHas(asked, "from")) /\ Enumerates(answers'.to, NodeHas(asked, "to"))
      BY <1>8, <1>9
    <2> DEFINE logs == Logs(answers')
    <2>2. Enumerates(logs, Involved(asked))
      BY <1>6, <2>1, LogsAreListed
    <2> HIDE DEF logs
    <2>3. IsSeq(logs)
      BY <2>2 DEF Enumerates
    <2>4. /\ IsSeq(BlocksToAsk(logs)) /\ BlocksToAsk(logs) # <<>>
          /\ asked.from \in ToSet(BlocksToAsk(logs)) /\ asked.to \in ToSet(BlocksToAsk(logs))
          /\ \A log \in ToSet(logs) : log.blockNumber \in ToSet(BlocksToAsk(logs))
      BY <2>3, BlocksAsked
    <2>5. queue' = BlocksToAsk(logs)
      BY <1>5, <1>9 DEF logs
    <2>6. NeededBlocks(answers)' = {asked.from, asked.to} \cup {log.blockNumber : log \in ToSet(logs)}
      BY <1>1 DEF NeededBlocks, logs, Logs
    <2> QED BY <2>4, <2>5, <2>6
  <1>10. ReadInv'
    <2>1. pc' \in {"logs", "blocks"} /\ (pc' = "blocks" <=> DOMAIN answers' = {"from", "to"})
      BY <1>1, <1>5
    <2>2. settled' = settled /\ times' = times /\ asked' = asked /\ chain' = chain
      BY <1>1 DEF chainVars
    <2>3. settled' => asked.from \in Int /\ asked.to \in Int /\ asked.from >= 1 /\ asked.to <= Len(chain)
      BY <2>2 DEF BaseInv, ReadInv
    <2>4. settled' => \A s \in DOMAIN answers' : Enumerates(answers'[s], NodeHas(asked, s)')
      BY <1>7, <1>8, <2>2
    <2>5. pc' = "blocks" /\ settled' => /\ IsSeq(queue') /\ queue' # <<>>
                                        /\ NeededBlocks(answers)' \subseteq DOMAIN times' \cup ToSet(queue')
      BY <1>9, <2>1, <2>2
    <2>6. \A b \in DOMAIN times' : times'[b] = TimeOf(b)
      BY <2>2 DEF BaseInv, ReadInv
    <2> HIDE DEF NeededBlocks
    <2> QED BY <1>1, <2>1, <2>2, <2>3, <2>4, <2>5, <2>6 DEF ReadInv, Enumerates, IsSeq
  <1> QED BY <1>6, <1>10 DEF BaseInv

LEMMA TailHas ==
  ASSUME NEW s, IsSeq(s), s # <<>>
  PROVE  IsSeq(Tail(s)) /\ ToSet(s) = {Head(s)} \cup ToSet(Tail(s)) /\ (Tail(s) = <<>> => ToSet(Tail(s)) = {})
  <1>1. s \in Seq(Range(s)) /\ Len(s) \in Nat /\ DOMAIN s = 1 .. Len(s)
    BY SeqHas DEF IsSeq
  <1>2. /\ Head(s) = s[1] /\ Tail(s) \in Seq(Range(s)) /\ Len(Tail(s)) = Len(s) - 1
        /\ \A i \in 1 .. Len(Tail(s)) : Tail(s)[i] = s[i + 1]
    BY <1>1, HeadTailProperties
  <1>3. DOMAIN Tail(s) = 1 .. Len(s) - 1 /\ Len(s) - 1 \in Nat
    BY <1>2, LenProperties
  <1>4. Tail(s) = [i \in 1 .. Len(s) - 1 |-> Tail(s)[i]]
    BY <1>2, LenProperties
  <1>5. IsSeq(Tail(s))
    BY <1>3, <1>4, FnIsSeq
  <1>6. ASSUME NEW i \in DOMAIN s PROVE s[i] \in {Head(s)} \cup ToSet(Tail(s))
    <2>1. CASE i = 1
      BY <2>1, <1>2
    <2>2. CASE i # 1
      <3>1. i - 1 \in DOMAIN Tail(s) /\ (i - 1) + 1 = i /\ i - 1 \in 1 .. Len(Tail(s))
        BY <1>1, <1>2, <1>3, <2>2
      <3>2. Tail(s)[i - 1] = s[i]
        BY <1>2, <3>1
      <3> QED BY <3>1, <3>2 DEF ToSet
    <2> QED BY <2>1, <2>2
  <1>7. ASSUME NEW i \in DOMAIN Tail(s) PROVE Tail(s)[i] \in ToSet(s)
    <2>1. i + 1 \in DOMAIN s /\ i \in 1 .. Len(Tail(s))
      BY <1>1, <1>2, <1>3
    <2> QED BY <1>2, <2>1 DEF ToSet
  <1>8. 1 \in DOMAIN s
    BY <1>1, <1>3
  <1>9. Head(s) \in ToSet(s)
    BY <1>2, <1>8 DEF ToSet
  <1> QED BY <1>5, <1>6, <1>7, <1>9 DEF ToSet

LEMMA AnswerBlockStep == ASSUME BaseInv, AnswerBlock PROVE BaseInv'
  <1> DEFINE n == Head(queue)
             told == [b \in DOMAIN times \cup {n} |-> IF b = n THEN TimeOf(n) ELSE times[b]]
  <1>1. pc = "blocks" /\ UNCHANGED chainVars
    BY DEF AnswerBlock
  <1>2. CASE Fail
    BY <1>1, <1>2, FailStep
  <1>3. CASE ~Fail
    <2>1. /\ queue' = Tail(queue) /\ times' = told
          /\ IF Tail(queue) = <<>>
             THEN pc' = "done" /\ extract' = LogsToExtract(Logs(answers), told)
             ELSE UNCHANGED <<pc, extract>>
          /\ UNCHANGED <<asked, answers, settled>>
      BY <1>3 DEF AnswerBlock
    <2>2. DOMAIN times' = DOMAIN times \cup {n}
      BY <2>1
    <2>3. \A b \in DOMAIN times' : times'[b] = TimeOf(b)
      BY <2>1 DEF BaseInv, ReadInv
    <2>4. /\ queue' = Tail(queue)
          /\ IF queue' = <<>>
             THEN pc' = "done" /\ extract' = LogsToExtract(Logs(answers), times')
             ELSE UNCHANGED <<pc, extract>>
      BY <2>1
    <2> HIDE DEF told
    <2>5. ChainInv'
      BY <1>1, ChainInvStays DEF BaseInv
    <2>6. \A s : NodeHas(asked, s)' = NodeHas(asked, s)
      BY <1>1, <2>1, NodeStays
    <2>7. NeededBlocks(answers)' = NeededBlocks(answers)
      BY <2>1 DEF NeededBlocks, Logs
    <2>8. LogsToExtract(Logs(answers), times)' = LogsToExtract(Logs(answers), times')
      BY <2>1 DEF LogsToExtract, Logs
    <2>9. settled => /\ IsSeq(queue')
                     /\ NeededBlocks(answers) \subseteq DOMAIN times' \cup ToSet(queue')
                     /\ (queue' = <<>> => NeededBlocks(answers) \subseteq DOMAIN times')
      <3> SUFFICES ASSUME settled
                   PROVE  /\ IsSeq(queue')
                          /\ NeededBlocks(answers) \subseteq DOMAIN times' \cup ToSet(queue')
                          /\ (queue' = <<>> => NeededBlocks(answers) \subseteq DOMAIN times')
        OBVIOUS
      <3>1. IsSeq(queue) /\ queue # <<>> /\ NeededBlocks(answers) \subseteq DOMAIN times \cup ToSet(queue)
        BY <1>1 DEF BaseInv, ReadInv
      <3>2. /\ IsSeq(Tail(queue)) /\ ToSet(queue) = {n} \cup ToSet(Tail(queue))
            /\ (Tail(queue) = <<>> => ToSet(Tail(queue)) = {})
        BY <3>1, TailHas
      <3> QED BY <2>2, <2>4, <3>1, <3>2
    <2>10. pc' \in {"blocks", "done"} /\ (pc' = "done" <=> queue' = <<>>)
      BY <1>1, <2>4
    <2>11. ReadInv'
      <3>1. settled' = settled /\ chain' = chain /\ asked' = asked /\ answers' = answers
        BY <1>1, <2>1 DEF chainVars
      <3>2. settled => /\ asked.from \in Int /\ asked.to \in Int /\ asked.from >= 1 /\ asked.to <= Len(chain)
                       /\ \A s \in DOMAIN answers : Enumerates(answers[s], NodeHas(asked, s))
                       /\ DOMAIN answers = {"from", "to"}
        BY <1>1 DEF BaseInv, ReadInv
      <3>3. pc' = "done" => extract' = LogsToExtract(Logs(answers), times)'
        BY <2>4, <2>8, <2>10
      <3>4. pc' = "done" /\ settled' => NeededBlocks(answers)' \subseteq DOMAIN times'
        BY <2>7, <2>9, <2>10, <3>1
      <3>5. pc' = "blocks" /\ settled' =>
              /\ IsSeq(queue') /\ queue' # <<>>
              /\ NeededBlocks(answers)' \subseteq DOMAIN times' \cup ToSet(queue')
        BY <2>7, <2>9, <2>10, <3>1
      <3>6. settled' => \A s \in DOMAIN answers' : Enumerates(answers'[s], NodeHas(asked, s)')
        BY <2>6, <3>1, <3>2
      <3> QED BY <2>3, <2>10, <3>1, <3>2, <3>3, <3>4, <3>5, <3>6 DEF ReadInv, Enumerates, IsSeq
    <2> QED BY <2>5, <2>11 DEF BaseInv
  <1> QED BY <1>2, <1>3

LEMMA BaseInvStep == BaseInv /\ [BaseNext]_baseVars => BaseInv'
  <1> SUFFICES ASSUME BaseInv, [BaseNext]_baseVars PROVE BaseInv'
    OBVIOUS
  <1>1. CASE Arrive \/ Write \/ Mine \/ Reorg
    BY <1>1, ChainMoves
  <1>2. CASE Fetch
    BY <1>2, FetchStep
  <1>3. CASE ChainId
    BY <1>3, ChainIdStep
  <1>4. CASE AnswerLogs
    BY <1>4, AnswerLogsStep
  <1>5. CASE AnswerBlock
    BY <1>5, AnswerBlockStep
  <1>6. CASE RpcFails
    BY <1>6, FailStep DEF RpcFails
  <1>7. CASE UNCHANGED baseVars
    <2>1. UNCHANGED <<chain, pending, pc, asked, answers, queue, times, extract, settled>>
      BY <1>7 DEF baseVars
    <2>2. ChainInv'
      BY <2>1 DEF BaseInv, ChainInv, OnePlaceEach
    <2>3. ReadInv'
      <3>1. settled => asked.to <= Len(chain)
        BY DEF BaseInv, ReadInv
      <3> QED BY <2>1, <3>1, ReaderStays DEF BaseInv
    <2> QED BY <2>2, <2>3 DEF BaseInv
  <1> QED BY <1>1, <1>2, <1>3, <1>4, <1>5, <1>6, <1>7 DEF BaseNext

LEMMA BaseInvHolds == BaseSpec => []BaseInv
  BY BaseInvInit, BaseInvStep, PTL DEF BaseSpec

(* However the chain goes on meanwhile, whatever else is sent, and in      *)
(* whichever order the questions are answered: if the range was mined      *)
(* before the first question and stayed, the extract fetchUsdcExtract      *)
(* returns has every transfer of the account in the range, once, and       *)
(* inside its window.                                                      *)
THEOREM SettledRangeRead == BaseSpec => []SettledRangeIsExact
  <1>1. BaseInv => SettledRangeIsExact
    BY DoneIsExact
  <1> QED BY <1>1, BaseInvHolds, PTL

-----------------------------------------------------------------------------
(* THE KEY AT REST (KeySeal).                                              *)

(* What a session and a file may be, whatever keys they hold.              *)
Issued == [nonce : Int, by : Int]
Files == [pub : Int, form : {"pem", "dpapi"}, private : Int, receipts : SUBSET Issued]
Holdings ==
  [phase : {"down", "loaded", "up", "unreadable"}, pub : Int, priv : Int, sealed : Int,
   receipts : SUBSET Issued, seen : {NoFile} \cup Files]

Typed ==
  /\ file \in {NoFile} \cup Files
  /\ session \in [Sessions -> Holdings] /\ undo \in [Sessions -> Holdings]
  /\ generated \in Nat /\ spends \in Nat

(* One key holds a session together, in whatever phase, and what it would  *)
(* go back to; a session that is down holds the pair nobody has.           *)
Whole(now) ==
  /\ now.priv = now.pub
  /\ now.sealed \in {NotSealed, now.priv}
  /\ \A r \in now.receipts : r.by = now.priv

FileWhole ==
  Exists(file) => file.private = file.pub /\ \A r \in file.receipts : r.by = file.pub

KeyInv ==
  /\ Typed
  /\ FileWhole
  /\ \A s \in Sessions : Whole(session[s]) /\ Whole(undo[s])

LEMMA MarksAreInt == NotSealed \in Int /\ Lost \in Int
  BY DEF NotSealed, Lost

LEMMA DownWhole == Down \in Holdings /\ Whole(Down)
  BY DEF Down, Holdings, Whole, NotSealed, NoFile

LEMMA InitInv == KeyInit => KeyInv
  BY DownWhole DEF KeyInit, KeyInv, Typed, FileWhole, Exists

(* Whoever has these fields has these keys.                                *)
LEMMA SameKeys ==
  ASSUME NEW now, NEW key \in Int, now.pub = key, now.priv = key,
         now.sealed \in {NotSealed, key}, \A r \in now.receipts : r.by = key
  PROVE  Whole(now)
  BY DEF Whole

(* Loading leaves a session with the file's pair, or with its own when     *)
(* there is no file, and only a session that could not open it mixes both. *)
LEMMA LoadedWhole ==
  ASSUME Typed, FileWhole, NEW now \in Holdings, Whole(now), NEW after \in Loaded(now)
  PROVE  after \in Holdings /\ (after.phase = "loaded" => Whole(after))
  <1>1. CASE ~Exists(file)
    BY <1>1 DEF Loaded, Holdings, Whole
  <1>2. CASE Exists(file)
    <2>1. file \in Files
      BY <1>2 DEF Typed, Exists
    <2>2. PICK priv \in {Lost, file.private} :
            after = IF priv = Lost THEN CannotOpen(now)
                    ELSE [now EXCEPT !.phase = "loaded", !.pub = file.pub, !.priv = priv,
                                     !.receipts = file.receipts,
                                     !.sealed = IF file.form = "dpapi" THEN file.private ELSE NotSealed]
      BY <1>2 DEF Loaded, UnprotectPrivatePem
    <2>3. CASE priv = Lost
      BY <2>1, <2>2, <2>3 DEF CannotOpen, Holdings, Files
    <2>4. CASE priv # Lost
      <3>1. after \in Holdings
        BY <2>1, <2>2, <2>4, MarksAreInt DEF Holdings, Files
      <3>2. /\ after.pub = file.pub /\ after.priv = priv /\ after.receipts = file.receipts
            /\ after.sealed \in {NotSealed, file.private}
        BY <2>1, <2>2, <2>4 DEF Holdings, Files
      <3>3. file.private = file.pub /\ \A r \in file.receipts : r.by = file.pub
        BY <1>2 DEF FileWhole
      <3>4. priv = file.private /\ file.pub \in Int
        BY <2>1, <2>2, <2>4 DEF Files
      <3> QED BY <3>1, <3>2, <3>3, <3>4, SameKeys
    <2> QED BY <2>3, <2>4
  <1> QED BY <1>1, <1>2

(* What is written opens to the key in hand, sealed or not.                *)
LEMMA KeysForDiskHold ==
  ASSUME NEW now \in Holdings, Whole(now), NEW blob \in KeysForDisk(now)
  PROVE  blob \in {NotSealed, now.priv}
  <1>1. CASE now.sealed # NotSealed
    BY <1>1 DEF KeysForDisk, Whole
  <1>2. CASE now.sealed = NotSealed
    <2>1. PICK tried \in ProtectPrivatePem(now.priv) :
            blob \in IF tried = NotSealed THEN {NotSealed}
                     ELSE {IF back = now.priv THEN tried ELSE NotSealed : back \in UnprotectPrivatePem(tried)}
      BY <1>2 DEF KeysForDisk
    <2>2. blob # NotSealed => blob = tried /\ now.priv \in {Lost, tried}
      BY <2>1 DEF UnprotectPrivatePem
    <2> QED BY <2>1, <2>2 DEF ProtectPrivatePem
  <1> QED BY <1>1, <1>2

LEMMA OnDiskWhole ==
  ASSUME NEW now \in Holdings, Whole(now), NEW blob \in {NotSealed, now.priv}
  PROVE  LET f == OnDisk(now, blob)
         IN  f \in Files /\ f.private = f.pub /\ \A r \in f.receipts : r.by = f.pub
  BY DEF OnDisk, Files, Holdings, Whole

(* A step that only gives one session something whole.                     *)
LEMMA PutWhole ==
  ASSUME KeyInv, NEW s \in Sessions, NEW now \in Holdings, Whole(now), Put(s, now)
  PROVE  /\ session' \in [Sessions -> Holdings]
         /\ \A t \in Sessions : Whole(session'[t])
  BY DEF KeyInv, Typed, Put

LEMMA UndoWhole ==
  ASSUME KeyInv, NEW s \in Sessions, NEW now \in Holdings, Whole(now), undo' = [undo EXCEPT ![s] = now]
  PROVE  /\ undo' \in [Sessions -> Holdings]
         /\ \A t \in Sessions : Whole(undo'[t])
  BY DEF KeyInv, Typed

LEMMA HeldWhole ==
  ASSUME KeyInv, NEW s \in Sessions
  PROVE  session[s] \in Holdings /\ Whole(session[s]) /\ undo[s] \in Holdings /\ Whole(undo[s])
  BY DEF KeyInv, Typed

LEMMA StartInv == ASSUME KeyInv, NEW s \in Sessions, Start(s) PROVE KeyInv'
  <1> DEFINE fresh == [Down EXCEPT !.pub = generated + 1, !.priv = generated + 1]
  <1>1. fresh \in Holdings /\ Whole(fresh)
    <2>1. generated + 1 \in Int
      BY DEF KeyInv, Typed
    <2>2. fresh \in Holdings
      BY <2>1, DownWhole DEF Holdings
    <2>3. /\ fresh.pub = generated + 1 /\ fresh.priv = generated + 1
          /\ fresh.sealed = NotSealed /\ fresh.receipts = {}
      BY DEF Down
    <2> QED BY <2>1, <2>2, <2>3, SameKeys
  <1>2. PICK now \in Loaded(fresh) : Put(s, IF now.phase = "loaded" THEN now ELSE Down)
    BY DEF Start
  <1>3. now \in Holdings /\ (now.phase = "loaded" => Whole(now))
    BY <1>1, <1>2, LoadedWhole DEF KeyInv
  <1>4. /\ session' \in [Sessions -> Holdings]
        /\ \A t \in Sessions : Whole(session'[t])
    BY <1>2, <1>3, DownWhole, PutWhole
  <1> QED BY <1>4 DEF Start, KeyInv, Typed, FileWhole, Exists

LEMMA ReloadInv == ASSUME KeyInv, NEW s \in Sessions, Reload(s) PROVE KeyInv'
  <1> DEFINE emptied == [session[s] EXCEPT !.receipts = {}, !.sealed = NotSealed]
  <1>1. emptied \in Holdings /\ Whole(emptied)
    <2>1. emptied \in Holdings
      BY HeldWhole, MarksAreInt DEF Holdings
    <2>2. /\ emptied.pub = session[s].pub /\ emptied.priv = session[s].priv
          /\ emptied.receipts = {} /\ emptied.sealed = NotSealed
      BY HeldWhole DEF Holdings
    <2>3. session[s].priv = session[s].pub /\ session[s].pub \in Int
      BY HeldWhole DEF Holdings, Whole
    <2> QED BY <2>1, <2>2, <2>3, SameKeys
  <1>2. PICK now \in Loaded(emptied) :
          IF now.phase = "loaded" THEN Put(s, now) /\ undo' = [undo EXCEPT ![s] = session[s]]
          ELSE Put(s, session[s]) /\ UNCHANGED undo
    BY DEF Reload, Restore
  <1>3. now \in Holdings /\ (now.phase = "loaded" => Whole(now))
    BY <1>1, <1>2, LoadedWhole DEF KeyInv
  <1>4. CASE now.phase = "loaded"
    <2>1. /\ session' \in [Sessions -> Holdings]
          /\ \A t \in Sessions : Whole(session'[t])
      BY <1>2, <1>3, <1>4, PutWhole
    <2>2. /\ undo' \in [Sessions -> Holdings]
          /\ \A t \in Sessions : Whole(undo'[t])
      BY <1>2, <1>4, HeldWhole, UndoWhole
    <2> QED BY <2>1, <2>2 DEF Reload, KeyInv, Typed, FileWhole, Exists
  <1>5. CASE now.phase # "loaded"
    <2>1. /\ session' \in [Sessions -> Holdings]
          /\ \A t \in Sessions : Whole(session'[t])
      BY <1>2, <1>5, HeldWhole, PutWhole
    <2> QED BY <1>2, <1>5, <2>1 DEF Reload, KeyInv, Typed, FileWhole, Exists
  <1> QED BY <1>4, <1>5

LEMMA TakeFingerprintInv == ASSUME KeyInv, NEW s \in Sessions, TakeFingerprint(s) PROVE KeyInv'
  <1> DEFINE up == [session[s] EXCEPT !.phase = "up", !.seen = file]
  <1>1. up \in Holdings /\ Whole(up)
    BY HeldWhole DEF Holdings, Whole, KeyInv, Typed
  <1>2. /\ session' \in [Sessions -> Holdings]
        /\ \A t \in Sessions : Whole(session'[t])
    BY <1>1, PutWhole DEF TakeFingerprint
  <1>3. /\ undo' \in [Sessions -> Holdings]
        /\ \A t \in Sessions : Whole(undo'[t])
    BY DownWhole, UndoWhole DEF TakeFingerprint
  <1> QED BY <1>2, <1>3 DEF TakeFingerprint, KeyInv, Typed, FileWhole, Exists

LEMMA FailToRecoverInv == ASSUME KeyInv, NEW s \in Sessions, FailToRecover(s) PROVE KeyInv'
  <1>1. /\ session' \in [Sessions -> Holdings]
        /\ \A t \in Sessions : Whole(session'[t])
    BY DownWhole, HeldWhole, PutWhole DEF FailToRecover, Restore
  <1>2. /\ undo' \in [Sessions -> Holdings]
        /\ \A t \in Sessions : Whole(undo'[t])
    BY DownWhole, UndoWhole DEF FailToRecover
  <1> QED BY <1>1, <1>2 DEF FailToRecover, KeyInv, Typed, FileWhole, Exists

LEMMA IssueInv == ASSUME KeyInv, NEW s \in Sessions, Issue(s) PROVE KeyInv'
  <1> DEFINE receipt == [nonce |-> spends + 1, by |-> session[s].priv]
             signed == [session[s] EXCEPT !.receipts = @ \cup {receipt}]
  <1>1. signed \in Holdings /\ Whole(signed) /\ signed.priv = session[s].priv
    BY HeldWhole DEF Holdings, Issued, Whole, KeyInv, Typed
  <1>2. PICK blob \in KeysForDisk(signed) :
          \/ /\ file' = OnDisk(signed, blob)
             /\ Put(s, [signed EXCEPT !.sealed = blob, !.seen = file'])
          \/ /\ UNCHANGED file
             /\ Put(s, [session[s] EXCEPT !.sealed = blob])
    BY DEF Issue
  <1>3. blob \in {NotSealed, session[s].priv}
    BY <1>1, <1>2, KeysForDiskHold
  <1>4. CASE file' = OnDisk(signed, blob) /\ Put(s, [signed EXCEPT !.sealed = blob, !.seen = file'])
    <2>1. file' \in Files /\ FileWhole'
      BY <1>1, <1>3, <1>4, OnDiskWhole DEF FileWhole
    <2> DEFINE saved == [signed EXCEPT !.sealed = blob, !.seen = file']
    <2>2. saved \in Holdings /\ Whole(saved)
      <3> HIDE DEF signed
      <3>1. saved \in Holdings
        BY <1>1, <1>3, <2>1, HeldWhole, MarksAreInt DEF Holdings
      <3>2. /\ saved.pub = signed.pub /\ saved.priv = signed.priv
            /\ saved.receipts = signed.receipts /\ saved.sealed = blob
        BY <1>1 DEF Holdings
      <3>3. /\ signed.priv = signed.pub /\ signed.pub \in Int
            /\ \A r \in signed.receipts : r.by = signed.pub
        BY <1>1 DEF Holdings, Whole
      <3> QED BY <1>1, <1>3, <3>1, <3>2, <3>3, SameKeys
    <2>3. /\ session' \in [Sessions -> Holdings]
          /\ \A t \in Sessions : Whole(session'[t])
      BY <1>4, <2>2, PutWhole
    <2> QED BY <2>1, <2>3 DEF Issue, KeyInv, Typed
  <1>5. CASE UNCHANGED file /\ Put(s, [session[s] EXCEPT !.sealed = blob])
    <2>1. [session[s] EXCEPT !.sealed = blob] \in Holdings /\ Whole([session[s] EXCEPT !.sealed = blob])
      BY <1>3, HeldWhole DEF Holdings, Whole, NotSealed
    <2>2. /\ session' \in [Sessions -> Holdings]
          /\ \A t \in Sessions : Whole(session'[t])
      BY <1>5, <2>1, PutWhole
    <2> QED BY <1>5, <2>2 DEF Issue, KeyInv, Typed, FileWhole, Exists
  <1> QED BY <1>2, <1>4, <1>5

LEMMA StopInv == ASSUME KeyInv, NEW s \in Sessions, Stop(s) PROVE KeyInv'
  <1>1. /\ session' \in [Sessions -> Holdings]
        /\ \A t \in Sessions : Whole(session'[t])
    BY DownWhole, PutWhole DEF Stop
  <1>2. /\ undo' \in [Sessions -> Holdings]
        /\ \A t \in Sessions : Whole(undo'[t])
    BY DownWhole, UndoWhole DEF Stop
  <1> QED BY <1>1, <1>2 DEF Stop, KeyInv, Typed, FileWhole, Exists

LEMMA NextInv == KeyInv /\ [KeyNext]_keyVars => KeyInv'
  <1> SUFFICES ASSUME KeyInv, [KeyNext]_keyVars PROVE KeyInv'
    OBVIOUS
  <1>1. CASE \E s \in Sessions :
               Start(s) \/ Reload(s) \/ TakeFingerprint(s) \/ FailToRecover(s) \/ Issue(s) \/ Stop(s)
    BY <1>1, StartInv, ReloadInv, TakeFingerprintInv, FailToRecoverInv, IssueInv, StopInv
  <1>2. CASE RemoveFile
    BY <1>2 DEF RemoveFile, KeyInv, Typed, FileWhole, Exists
  <1>3. CASE UNCHANGED keyVars
    BY <1>3 DEF keyVars, KeyInv, Typed, FileWhole, Exists
  <1> QED BY <1>1, <1>2, <1>3 DEF KeyNext

(* The private half at rest opens to the pair of the public half beside it *)
(* and of every receipt in the file, and a session's halves are a pair and *)
(* the pair that signed all it holds, for any number of sessions on one    *)
(* file and whatever the platform fails to seal or to open.                *)
THEOREM KeyOneKeyThroughout == KeySpec => []OneKeyThroughout
  <1>1. KeyInv => OneKeyThroughout
    BY DEF KeyInv, FileWhole, Whole, OneKeyThroughout
  <1> QED BY InitInv, NextInv, <1>1, PTL DEF KeySpec

=============================================================================
