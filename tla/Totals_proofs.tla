---------------------------- MODULE Totals_proofs ----------------------------
(***************************************************************************)
(* Facts about totals: of any finite set of records with natural amounts.  *)
(***************************************************************************)
EXTENDS Totals, FiniteSetTheorems, FunctionTheorems, TLAPS

HasAmounts(S) == IsFiniteSet(S) /\ \A x \in S : x.amount \in Nat

(* A set of which no two are different.                                    *)
LEMMA AtMostOne ==
  ASSUME NEW S, IsFiniteSet(S), ~(Cardinality(S) > 1), NEW x \in S
  PROVE  S = {x}
  <1>1. IsFiniteSet({x}) /\ Cardinality({x}) = 1 /\ Cardinality(S) \in Nat /\ {x} \in SUBSET S
    BY FS_Singleton, FS_CardinalityType
  <1>2. Cardinality({x}) <= Cardinality(S)
    BY <1>1, FS_Subset
  <1> QED BY <1>1, <1>2, FS_Subset

LEMMA CoinsOfOne ==
  ASSUME NEW x, x.amount \in Nat
  PROVE  IsFiniteSet({x} \X (1 .. x.amount)) /\ Cardinality({x} \X (1 .. x.amount)) = x.amount
  <1>1. IsFiniteSet({x}) /\ Cardinality({x}) = 1
    BY FS_Singleton
  <1>2. IsFiniteSet(1 .. x.amount) /\ Cardinality(1 .. x.amount) = x.amount
    BY FS_Interval
  <1>3. /\ IsFiniteSet({x} \X (1 .. x.amount))
        /\ Cardinality({x} \X (1 .. x.amount)) = Cardinality({x}) * Cardinality(1 .. x.amount)
    BY <1>1, <1>2, FS_Product
  <1> QED BY <1>1, <1>2, <1>3

LEMMA CoinsFinite ==
  ASSUME NEW S, HasAmounts(S)
  PROVE  IsFiniteSet(Coins(S)) /\ Total(S) \in Nat
  <1> DEFINE parts == {{x} \X (1 .. x.amount) : x \in S}
             part == [x \in S |-> {x} \X (1 .. x.amount)]
  <1>1. part \in Surjection(S, parts)
    BY Fun_IsSurj, Zenon
  <1>2. IsFiniteSet(parts)
    BY <1>1, FS_Surjection DEF HasAmounts
  <1>3. \A p \in parts : IsFiniteSet(p)
    BY CoinsOfOne DEF HasAmounts
  <1>4. IsFiniteSet(UNION parts)
    BY <1>2, <1>3, FS_UNION
  <1> QED BY <1>4, FS_CardinalityType DEF Coins, Total

LEMMA TotalOfNone == Total({}) = 0
  <1>1. Coins({}) = {}
    BY DEF Coins
  <1> QED BY <1>1, FS_EmptySet DEF Total

LEMMA TotalOfOne == ASSUME NEW x, x.amount \in Nat PROVE Total({x}) = x.amount
  <1>1. Coins({x}) = {x} \X (1 .. x.amount)
    BY DEF Coins
  <1> QED BY <1>1, CoinsOfOne DEF Total

LEMMA SubsetHasAmounts ==
  ASSUME NEW S, HasAmounts(S), NEW T \in SUBSET S
  PROVE  HasAmounts(T)
  BY FS_Subset DEF HasAmounts

LEMMA TotalOfDisjoint ==
  ASSUME NEW S, NEW T, HasAmounts(S), HasAmounts(T), S \cap T = {}
  PROVE  HasAmounts(S \cup T) /\ Total(S \cup T) = Total(S) + Total(T)
  <1>1. Coins(S \cup T) = Coins(S) \cup Coins(T)
    BY DEF Coins
  <1>2. Coins(S) \cap Coins(T) = {}
    BY DEF Coins
  <1>3. IsFiniteSet(Coins(S)) /\ IsFiniteSet(Coins(T)) /\ Total(S) \in Nat /\ Total(T) \in Nat
    BY CoinsFinite
  <1>4. Cardinality(Coins(S) \cup Coins(T))
          = Cardinality(Coins(S)) + Cardinality(Coins(T)) - Cardinality(Coins(S) \cap Coins(T))
    BY <1>3, FS_Union
  <1>5. Cardinality(Coins(S) \cap Coins(T)) = 0
    BY <1>2, FS_EmptySet
  <1>6. HasAmounts(S \cup T)
    BY FS_Union DEF HasAmounts
  <1>7. /\ Total(S \cup T) = Cardinality(Coins(S) \cup Coins(T))
        /\ Total(S) = Cardinality(Coins(S)) /\ Total(T) = Cardinality(Coins(T))
    BY <1>1 DEF Total
  <1> QED BY <1>3, <1>4, <1>5, <1>6, <1>7

LEMMA TotalAdds ==
  ASSUME NEW S, HasAmounts(S), NEW x, x.amount \in Nat, x \notin S
  PROVE  HasAmounts(S \cup {x}) /\ Total(S \cup {x}) = Total(S) + x.amount
  <1>1. HasAmounts({x})
    BY FS_Singleton DEF HasAmounts
  <1> QED BY <1>1, TotalOfOne, TotalOfDisjoint

LEMMA TotalLoses ==
  ASSUME NEW S, HasAmounts(S), NEW x \in S
  PROVE  HasAmounts(S \ {x}) /\ Total(S \ {x}) = Total(S) - x.amount
  <1>1. HasAmounts(S \ {x})
    BY SubsetHasAmounts
  <1>2. Total((S \ {x}) \cup {x}) = Total(S \ {x}) + x.amount
    BY <1>1, TotalAdds DEF HasAmounts
  <1>3. (S \ {x}) \cup {x} = S
    OBVIOUS
  <1>4. Total(S \ {x}) \in Nat /\ x.amount \in Nat
    BY <1>1, CoinsFinite DEF HasAmounts
  <1>5. Total(S) = Total(S \ {x}) + x.amount
    BY <1>2, <1>3, Zenon
  <1> QED BY <1>1, <1>4, <1>5

LEMMA TotalOfPart ==
  ASSUME NEW S, HasAmounts(S), NEW T \in SUBSET S
  PROVE  Total(T) <= Total(S)
  <1>1. Coins(T) \in SUBSET Coins(S)
    BY DEF Coins
  <1> QED BY <1>1, CoinsFinite, FS_Subset DEF Total

(* Two sets of records that pair off, each with one of its own amount, add *)
(* up to the same.                                                         *)
LEMMA TotalOfPairs ==
  ASSUME NEW S, NEW T, HasAmounts(S), NEW f \in Bijection(S, T),
         \A x \in S : f[x].amount = x.amount
  PROVE  Total(T) = Total(S)
  <1> DEFINE g == [c \in Coins(S) |-> <<f[c[1]], c[2]>>]
  <1>1. f \in [S -> T] /\ (\A a, b \in S : f[a] = f[b] => a = b) /\ \A t \in T : \E s \in S : f[s] = t
    BY Fun_IsBij, Zenon DEF Bijection, Injection, Surjection, IsInjective
  <1>2. \A c \in Coins(S) : c[1] \in S /\ c[2] \in 1 .. c[1].amount /\ c = <<c[1], c[2]>>
    BY DEF Coins
  <1>3. \A c \in Coins(S) : g[c] \in Coins(T)
    <2> SUFFICES ASSUME NEW c \in Coins(S) PROVE <<f[c[1]], c[2]>> \in Coins(T)
      OBVIOUS
    <2>1. f[c[1]] \in T /\ c[2] \in 1 .. f[c[1]].amount
      BY <1>1, <1>2
    <2> QED BY <2>1 DEF Coins
  <1>4. \A c, d \in Coins(S) : g[c] = g[d] => c = d
    BY <1>1, <1>2
  <1>5. \A e \in Coins(T) : \E c \in Coins(S) : g[c] = e
    <2> SUFFICES ASSUME NEW e \in Coins(T) PROVE \E c \in Coins(S) : g[c] = e
      OBVIOUS
    <2>1. PICK t \in T : e[1] = t /\ e[2] \in 1 .. t.amount /\ e = <<e[1], e[2]>>
      BY DEF Coins
    <2>2. PICK s \in S : f[s] = t
      BY <1>1
    <2>3. <<s, e[2]>> \in Coins(S)
      BY <2>1, <2>2 DEF Coins
    <2>4. g[<<s, e[2]>>] = e
      BY <2>1, <2>2, <2>3
    <2> QED BY <2>3, <2>4
  <1>6. g \in Bijection(Coins(S), Coins(T))
    BY <1>3, <1>4, <1>5, Fun_IsBij
  <1>7. ExistsBijection(Coins(S), Coins(T))
    BY <1>6 DEF ExistsBijection
  <1> QED BY <1>7, CoinsFinite, FS_Bijection DEF Total
=============================================================================
