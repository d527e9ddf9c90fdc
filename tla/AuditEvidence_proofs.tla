------------------------- MODULE AuditEvidence_proofs -------------------------
(***************************************************************************)
(* Proofs about AuditEvidence, for any scenarios: any number of receipts,  *)
(* epochs and windows, whatever the issuer, others and the presenter do.   *)
(*                                                                         *)
(* The invariant says what the issuer and the log have signed, what part   *)
(* of it is presented, and of the audit only that each report is what      *)
(* auditDetailed makes of its window; what the properties ask is then      *)
(* proved of the documents and of auditDetailed.                           *)
(***************************************************************************)
EXTENDS AuditEvidence, FiniteSetTheorems, SequenceTheorems, WellFoundedInduction, TLAPS

Parties == {"issuer", "other"}
ReceiptDocs ==
  [id : Nat \ {0}, by : Parties, key : Parties, intact : BOOLEAN, prev : Nat, ts : Nat,
   settled : BOOLEAN, copy : Nat]
CheckpointDocs ==
  [id : Nat \ {0}, by : Parties, intact : {TRUE}, epoch : Nat, start : Nat, end : Nat,
   count : Nat, head : Nat, total : Int, prev : Nat]

Named(S) == \A d, x \in S : d.id = x.id => d = x

(* What has been signed.                                                   *)
Signed ==
  /\ scenario \in DOMAIN Scenarios
  /\ receipts \in SUBSET ReceiptDocs /\ IsFiniteSet(receipts) /\ Named(receipts)
  /\ checkpoints \in SUBSET CheckpointDocs /\ IsFiniteSet(checkpoints) /\ Named(checkpoints)
  /\ \A r \in receipts : r.intact /\ r.id < NextId
  /\ \A cp \in checkpoints : cp.start = cp.epoch /\ cp.end = cp.epoch + 1 /\ cp.id < NextId
  /\ open \in Nat \ {0}
  /\ \A r \in Issuers(receipts) : r.ts \in 1 .. open
  /\ \A cp \in Issuers(checkpoints) : cp.epoch \in 1 .. open - 1
  /\ \A r, x \in Issuers(receipts) : r.id < x.id => r.ts <= x.ts
  /\ log \subseteq Id(checkpoints) /\ (log # {} => Witnessed)

(* Each closed epoch has a checkpoint over all its receipts; every one of  *)
(* the issuer's is linked to one of the epoch before.                      *)
Closes(cp, epoch) ==
  /\ cp.epoch = epoch
  /\ cp.count = Cardinality(CutIn(epoch))
  /\ cp.head = HeadOf(CutIn(epoch))
  /\ cp.total \in {Redacted, Cardinality(Settled(CutIn(epoch)))}

Closings ==
  /\ \A epoch \in 1 .. open - 1 : \E cp \in Issuers(checkpoints) : Closes(cp, epoch)
  /\ \A cp \in Issuers(checkpoints) : cp.prev \in PrevOf(cp.epoch)
  /\ ~May("quiet") => \A epoch \in 1 .. open - 1 : CutIn(epoch) # {}

(* What is presented: receipts R and checkpoints C, cut into windows.      *)
PresentedAs(cut, R, C) ==
  /\ cut \in Cuts(open - 1)
  /\ R \in ShowReceipts /\ C \in SUBSET checkpoints
  /\ DOMAIN shown = DOMAIN cut
  /\ \A i \in DOMAIN cut : /\ shown[i].receipts = {r \in R : r.ts \in cut[i]}
                           /\ shown[i].checkpoints \in Orders({cp \in C : cp.epoch \in cut[i]})

Presentation ==
  shown # <<>> =>
    /\ open > 1
    /\ \E cut, R, C : PresentedAs(cut, R, C)
    /\ \A w \in inclusions : w.statement \in log
    /\ \A s \in log : \E w \in inclusions : w.statement = s

IsSeq(s) == s \in Seq(Range(s))

Reports ==
  /\ IsSeq(shown) /\ IsSeq(details) /\ Len(details) <= Len(shown)
  /\ \A i \in DOMAIN details :
       details[i] = AuditDetailed(shown[i].receipts, shown[i].checkpoints, AnchorOf(i), inclusions)

IInv == Signed /\ Closings /\ Presentation /\ Reports

-----------------------------------------------------------------------------
(* Greatest elements, and sequences.                                       *)

LEMMA LeastExists == ASSUME NEW S \in SUBSET Nat, S # {} PROVE \E n \in S : \A m \in S : n <= m
  <1>1. PICK n \in S : \A m \in S : ~(<<m, n>> \in OpToRel(<, Nat))
    BY NatLessThanWellFounded, WFMin
  <1>2. \A m \in S : ~(m < n)
    BY <1>1 DEF OpToRel
  <1> QED BY <1>2

LEMMA MaxIs ==
  ASSUME NEW S \in SUBSET Nat, S # {}, NEW b \in Nat, \A x \in S : x <= b
  PROVE  Max(S) \in S /\ \A x \in S : x <= Max(S)
  <1> DEFINE above == {n \in Nat : \A x \in S : x <= n}
  <1>1. PICK n \in above : \A m \in above : n <= m
    <2>1. above \in SUBSET Nat /\ above # {}
      OBVIOUS
    <2> QED BY <2>1, LeastExists
  <1>2. n \in S
    <2> SUFFICES ASSUME n \notin S PROVE FALSE
      OBVIOUS
    <2>1. n \in Nat /\ \A x \in S : x \in Nat /\ x <= n - 1
      BY <1>1
    <2>2. n - 1 \in Nat
      <3>1. PICK x \in S : TRUE
        OBVIOUS
      <3> QED BY <2>1, <3>1
    <2>3. n - 1 \in above
      BY <2>1, <2>2
    <2> QED BY <2>1, <2>3, <1>1
  <1>3. \E x \in S : \A y \in S : x >= y
    BY <1>1, <1>2
  <1> QED BY <1>3 DEF Max

(* The head of a set of receipts is its last one.                          *)
LEMMA HeadIsLast ==
  ASSUME NEW S, Id(S) \in SUBSET Nat, NEW b \in Nat, \A r \in S : r.id <= b
  PROVE  /\ HeadOf(S) \in Nat
         /\ S = {} => HeadOf(S) = NoHash
         /\ S # {} => HeadOf(S) \in Id(S)
         /\ \A r \in S : r.id <= HeadOf(S)
  <1>1. CASE S = {}
    BY <1>1 DEF HeadOf, NoHash
  <1>2. CASE S # {}
    <2>1. Id(S) # {} /\ \A x \in Id(S) : x <= b
      BY <1>2 DEF Id
    <2>2. Max(Id(S)) \in Id(S) /\ \A x \in Id(S) : x <= Max(Id(S))
      BY <2>1, MaxIs
    <2> QED BY <2>2, <1>2 DEF HeadOf, Id
  <1> QED BY <1>1, <1>2

LEMMA SeqHas ==
  ASSUME NEW s, IsSeq(s)
  PROVE  Len(s) \in Nat /\ DOMAIN s = 1 .. Len(s)
  BY LenProperties DEF IsSeq

LEMMA FnIsSeq ==
  ASSUME NEW n \in Nat, NEW s, DOMAIN s = 1 .. n, s = [i \in 1 .. n |-> s[i]]
  PROVE  IsSeq(s) /\ Len(s) = n
  <1>1. \A i \in 1 .. n : s[i] \in Range(s)
    BY DEF Range
  <1>2. s \in [1 .. n -> Range(s)]
    BY <1>1
  <1>3. s \in Seq(Range(s))
    BY <1>2
  <1>4. Len(s) \in Nat /\ 1 .. Len(s) = 1 .. n
    BY <1>3, LenProperties
  <1> QED BY <1>3, <1>4 DEF IsSeq

LEMMA SeqAppend ==
  ASSUME NEW s, IsSeq(s), NEW x
  PROVE  /\ IsSeq(Append(s, x)) /\ Len(Append(s, x)) = Len(s) + 1
         /\ Append(s, x)[Len(s) + 1] = x
         /\ \A i \in 1 .. Len(s) : Append(s, x)[i] = s[i]
  <1>1. s \in Seq(Range(s) \cup {x}) /\ x \in Range(s) \cup {x}
    BY SeqMonotonic DEF IsSeq
  <1>2. /\ Append(s, x) \in Seq(Range(s) \cup {x}) /\ Len(Append(s, x)) = Len(s) + 1
        /\ Append(s, x)[Len(s) + 1] = x
        /\ \A i \in 1 .. Len(s) : Append(s, x)[i] = s[i]
    BY <1>1
  <1>3. IsSeq(Append(s, x))
    <2>1. DOMAIN Append(s, x) = 1 .. Len(Append(s, x)) /\ Len(Append(s, x)) \in Nat
      BY <1>2, LenProperties
    <2>2. Append(s, x) = [i \in 1 .. Len(Append(s, x)) |-> Append(s, x)[i]]
      BY <1>2, <2>1, LenProperties
    <2> QED BY <2>1, <2>2, FnIsSeq
  <1> QED BY <1>2, <1>3

-----------------------------------------------------------------------------
(* The invariant holds.                                                    *)

LEMMA SettingStays ==
  ASSUME UNCHANGED scenario
  PROVE  /\ MaxReceipts' = MaxReceipts /\ MaxCheckpoints' = MaxCheckpoints
         /\ MaxEpochs' = MaxEpochs /\ MaxWindows' = MaxWindows
         /\ Witnessed' = Witnessed /\ Liberties' = Liberties
         /\ \A liberty : May(liberty)' = May(liberty)
  BY DEF MaxReceipts, MaxCheckpoints, MaxEpochs, MaxWindows, Witnessed, Liberties, May

LEMMA NextIdIs ==
  ASSUME Signed
  PROVE  NextId \in Nat \ {0}
  <1>1. Cardinality(receipts) \in Nat /\ Cardinality(checkpoints) \in Nat
    BY FS_CardinalityType DEF Signed
  <1> QED BY <1>1 DEF NextId

LEMMA HeadOfReceipts ==
  ASSUME Signed, NEW S \in SUBSET receipts
  PROVE  /\ HeadOf(S) \in Nat
         /\ S = {} => HeadOf(S) = NoHash
         /\ S # {} => HeadOf(S) \in Id(S)
         /\ \A r \in S : r.id <= HeadOf(S)
  <1>1. Id(S) \in SUBSET Nat
    BY DEF Id, Signed, ReceiptDocs
  <1>2. \A r \in S : r.id <= NextId
    <2>1. \A r \in S : r.id \in Nat /\ r.id < NextId
      BY DEF Signed, ReceiptDocs
    <2> QED BY <2>1, NextIdIs
  <1> QED BY <1>1, <1>2, HeadIsLast, NextIdIs

LEMMA NothingAuditedYet ==
  ASSUME Reports, World
  PROVE  /\ IsSeq(details) /\ Len(details) = 0 /\ DOMAIN details = {}
         /\ IsSeq(shown) /\ Len(shown) = 0
  <1>1. Len(shown) = 0
    BY DEF World
  <1>2. Len(details) \in Nat /\ DOMAIN details = 1 .. Len(details)
    BY SeqHas DEF Reports
  <1>3. Len(details) = 0
    BY <1>1, <1>2 DEF Reports
  <1> QED BY <1>1, <1>2, <1>3 DEF Reports

LEMMA NothingShownStays ==
  ASSUME IInv, World, UNCHANGED <<shown, details>>
  PROVE  Presentation' /\ Reports'
  <1>1. Presentation'
    BY DEF Presentation, World
  <1>2. Reports'
    BY NothingAuditedYet DEF IInv, Reports, IsSeq
  <1> QED BY <1>1, <1>2

LEMMA InitIsSound ==
  ASSUME Init
  PROVE  IInv
  <1>1. Signed
    BY FS_EmptySet DEF Init, Signed, Named, Issuers, Id
  <1>2. Closings
    BY DEF Init, Closings, Issuers
  <1>3. Presentation
    BY DEF Init, Presentation
  <1>4. IsSeq(<<>>) /\ Len(<<>>) = 0 /\ DOMAIN <<>> = {}
    <2>1. <<>> \in Seq(Range(<<>>))
      BY EmptySeq
    <2> QED BY <2>1 DEF IsSeq
  <1>5. Reports
    BY <1>4 DEF Init, Reports
  <1> QED BY <1>1, <1>2, <1>3, <1>5 DEF IInv

LEMMA AddReceipt ==
  ASSUME IInv, World, UNCHANGED <<scenario, checkpoints, open, log, shown, inclusions, details>>,
         NEW r \in ReceiptDocs, r.id = NextId, r.intact, r.by = "issuer" => r.ts = open,
         receipts' = receipts \cup {r}
  PROVE  IInv'
  <1> USE DEF IInv
  <1>1. /\ IsFiniteSet(receipts') /\ Cardinality(receipts') = Cardinality(receipts) + 1
        /\ r \notin receipts
    <2>1. r \notin receipts
      BY NextIdIs DEF Signed, ReceiptDocs
    <2> QED BY <2>1, FS_AddElement DEF Signed
  <1>2. NextId' = NextId + 1
    <2>1. Cardinality(receipts) \in Nat /\ Cardinality(checkpoints) \in Nat
      BY FS_CardinalityType DEF Signed
    <2> QED BY <2>1, <1>1 DEF NextId
  <1>3. Issuers(receipts') \subseteq Issuers(receipts) \cup {r}
    BY DEF Issuers
  <1>4. Signed'
    <2>1. scenario' \in DOMAIN Scenarios /\ receipts' \in SUBSET ReceiptDocs
      BY DEF Signed
    <2>2. Named(receipts)'
      BY NextIdIs DEF Signed, Named, ReceiptDocs
    <2>3. /\ (checkpoints \in SUBSET CheckpointDocs)' /\ IsFiniteSet(checkpoints)'
          /\ Named(checkpoints)'
      BY DEF Signed, Named
    <2>4. \A x \in receipts' : x.intact /\ x.id < NextId'
      BY <1>2, NextIdIs DEF Signed, ReceiptDocs
    <2>5. \A cp \in checkpoints' : cp.start = cp.epoch /\ cp.end = cp.epoch + 1 /\ cp.id < NextId'
      <3>1. \A cp \in checkpoints : cp.id \in Nat /\ cp.id < NextId
        BY DEF Signed, CheckpointDocs
      <3>2. \A cp \in checkpoints : cp.start = cp.epoch /\ cp.end = cp.epoch + 1
        BY DEF Signed
      <3> QED BY <1>2, <3>1, <3>2, NextIdIs
    <2>6. open' \in Nat \ {0} /\ \A cp \in Issuers(checkpoints') : cp.epoch \in 1 .. open' - 1
      BY DEF Signed
    <2>7. \A x \in Issuers(receipts') : x.ts \in 1 .. open'
      <3>1. \A x \in Issuers(receipts) : x.ts \in 1 .. open'
        BY DEF Signed
      <3>2. r.by = "issuer" => r.ts \in 1 .. open'
        BY DEF Signed
      <3> QED BY <3>1, <3>2, <1>3 DEF Issuers
    <2>8. \A x, y \in Issuers(receipts') : x.id < y.id => x.ts <= y.ts
      <3> SUFFICES ASSUME NEW x \in Issuers(receipts'), NEW y \in Issuers(receipts'), x.id < y.id
                   PROVE  x.ts <= y.ts
        OBVIOUS
      <3>1. CASE y = r
        <4>1. x.ts \in 1 .. open /\ y.ts = open
          BY <3>1, <2>7 DEF Issuers
        <4> QED BY <4>1 DEF Signed
      <3>2. CASE y # r
        <4>1. y \in Issuers(receipts) /\ y.id < NextId /\ y.id \in Nat
          BY <3>2, <1>3 DEF Signed, Issuers, ReceiptDocs
        <4>2. x # r
          BY <4>1, NextIdIs
        <4>3. x \in Issuers(receipts)
          BY <4>2, <1>3
        <4> QED BY <4>1, <4>3 DEF Signed
      <3> QED BY <3>1, <3>2
    <2>9. log' \subseteq Id(checkpoints') /\ (log' # {} => Witnessed')
      BY SettingStays DEF Signed
    <2> QED BY <1>1, <2>1, <2>2, <2>3, <2>4, <2>5, <2>6, <2>7, <2>8, <2>9 DEF Signed
  <1>5. \A epoch \in 1 .. open - 1 : CutIn(epoch)' = CutIn(epoch)
    BY DEF CutIn, Issuers, Signed
  <1>6. \A cp : \A epoch \in 1 .. open - 1 : Closes(cp, epoch)' <=> Closes(cp, epoch)
    BY <1>5 DEF Closes
  <1>7. Closings'
    <2>1. \A epoch \in 1 .. open' - 1 : \E cp \in Issuers(checkpoints') : Closes(cp, epoch)'
      BY <1>6 DEF Closings
    <2>2. \A cp \in Issuers(checkpoints') : cp.prev \in PrevOf(cp.epoch)'
      BY DEF Closings, PrevOf, Closing
    <2>3. ~May("quiet")' => \A epoch \in 1 .. open' - 1 : CutIn(epoch)' # {}
      BY <1>5, SettingStays DEF Closings
    <2> QED BY <2>1, <2>2, <2>3 DEF Closings
  <1> QED BY <1>4, <1>7, NothingShownStays

LEMMA AddCheckpoint ==
  ASSUME IInv, World, UNCHANGED <<scenario, receipts, log, shown, inclusions, details>>,
         NEW cp \in CheckpointDocs, cp.id = NextId, cp.start = cp.epoch, cp.end = cp.epoch + 1,
         checkpoints' = checkpoints \cup {cp},
         \/ open' = open
         \/ /\ open' = open + 1 /\ cp.by = "issuer" /\ Closes(cp, open)
            /\ CutIn(open) # {} \/ May("quiet"),
         cp.by = "issuer" => cp.epoch \in 1 .. open' - 1 /\ cp.prev \in PrevOf(cp.epoch)
  PROVE  IInv'
  <1> USE DEF IInv
  <1>1. /\ IsFiniteSet(checkpoints') /\ Cardinality(checkpoints') = Cardinality(checkpoints) + 1
        /\ cp \notin checkpoints
    <2>1. cp \notin checkpoints
      BY NextIdIs DEF Signed, CheckpointDocs
    <2> QED BY <2>1, FS_AddElement DEF Signed
  <1>2. NextId' = NextId + 1
    <2>1. Cardinality(receipts) \in Nat /\ Cardinality(checkpoints) \in Nat
      BY FS_CardinalityType DEF Signed
    <2> QED BY <2>1, <1>1 DEF NextId
  <1>3. Issuers(checkpoints') = Issuers(checkpoints) \cup (IF cp.by = "issuer" THEN {cp} ELSE {})
    BY DEF Issuers
  <1>4. open \in Nat \ {0} /\ open' \in Nat \ {0} /\ open <= open'
    BY DEF Signed
  <1>5. Signed'
    <2>1. scenario' \in DOMAIN Scenarios /\ checkpoints' \in SUBSET CheckpointDocs
      BY DEF Signed
    <2>2. Named(checkpoints)'
      BY NextIdIs DEF Signed, Named, CheckpointDocs
    <2>3. (receipts \in SUBSET ReceiptDocs)' /\ IsFiniteSet(receipts)' /\ Named(receipts)'
      BY DEF Signed, Named
    <2>4. \A x \in receipts' : x.intact /\ x.id < NextId'
      <3>1. \A x \in receipts : x.intact /\ x.id \in Nat /\ x.id < NextId
        BY DEF Signed, ReceiptDocs
      <3> QED BY <1>2, <3>1, NextIdIs
    <2>5. \A x \in checkpoints' : x.start = x.epoch /\ x.end = x.epoch + 1 /\ x.id < NextId'
      <3>1. \A x \in checkpoints : x.id \in Nat /\ x.id < NextId
        BY DEF Signed, CheckpointDocs
      <3>2. \A x \in checkpoints : x.start = x.epoch /\ x.end = x.epoch + 1
        BY DEF Signed
      <3> QED BY <1>2, <3>1, <3>2, NextIdIs
    <2>6. \A x \in Issuers(checkpoints') : x.epoch \in 1 .. open' - 1
      <3>1. \A x \in Issuers(checkpoints) : x.epoch \in 1 .. open' - 1
        <4>1. \A x \in Issuers(checkpoints) : x.epoch \in 1 .. open - 1
          BY DEF Signed
        <4> QED BY <4>1, <1>4
      <3> QED BY <3>1, <1>3
    <2>7. \A x \in Issuers(receipts') : x.ts \in 1 .. open'
      <3>1. \A x \in Issuers(receipts) : x.ts \in 1 .. open
        BY DEF Signed
      <3> QED BY <3>1, <1>4
    <2>8. \A x, y \in Issuers(receipts') : x.id < y.id => x.ts <= y.ts
      BY DEF Signed
    <2>9. log' \subseteq Id(checkpoints') /\ (log' # {} => Witnessed')
      BY SettingStays DEF Signed, Id
    <2> QED BY <1>1, <1>4, <2>1, <2>2, <2>3, <2>4, <2>5, <2>6, <2>7, <2>8, <2>9 DEF Signed
  <1>6. \A epoch : CutIn(epoch)' = CutIn(epoch)
    BY DEF CutIn
  <1>7. \A x, epoch : Closes(x, epoch)' <=> Closes(x, epoch)
    BY <1>6 DEF Closes
  <1>8. \A epoch : PrevOf(epoch) \subseteq PrevOf(epoch)'
    BY <1>3 DEF PrevOf, Closing, Id
  <1>9. \A epoch \in 1 .. open' - 1 : epoch \in 1 .. open - 1 \/ (epoch = open /\ open' = open + 1)
    <2>1. CASE open' = open
      BY <2>1
    <2>2. CASE open' = open + 1
      <3>1. open' - 1 = open
        BY <2>2, <1>4
      <3>2. \A epoch \in 1 .. open : epoch \in 1 .. open - 1 \/ epoch = open
        BY <1>4
      <3> QED BY <2>2, <3>1, <3>2
    <2> QED BY <2>1, <2>2
  <1>10. Closings'
    <2>1. \A epoch \in 1 .. open' - 1 : \E x \in Issuers(checkpoints') : Closes(x, epoch)'
      BY <1>3, <1>4, <1>7, <1>9 DEF Closings
    <2>2. \A x \in Issuers(checkpoints') : x.prev \in PrevOf(x.epoch)'
      BY <1>3, <1>8 DEF Closings
    <2>3. ~May("quiet")' => \A epoch \in 1 .. open' - 1 : CutIn(epoch)' # {}
      BY <1>4, <1>6, <1>9, SettingStays DEF Closings
    <2> QED BY <2>1, <2>2, <2>3 DEF Closings
  <1> QED BY <1>5, <1>10, NothingShownStays

(* A checkpoint's claims are of their types.                               *)
LEMMA CountsAre ==
  ASSUME Signed, NEW S \in SUBSET receipts
  PROVE  Cardinality(S) \in Nat /\ Cardinality(Settled(S)) \in Nat
  <1>1. IsFiniteSet(S) /\ IsFiniteSet(Settled(S))
    BY FS_Subset DEF Signed, Settled
  <1> QED BY <1>1, FS_CardinalityType

LEMMA PrevOfIs ==
  ASSUME Signed, NEW epoch, NEW prev \in PrevOf(epoch)
  PROVE  prev \in Nat
  <1>1. CASE epoch = 1
    BY <1>1 DEF PrevOf, NoHash
  <1>2. CASE epoch # 1
    BY <1>2 DEF PrevOf, Closing, Id, Issuers, Signed, CheckpointDocs
  <1> QED BY <1>1, <1>2

LEMMA BoundsAre ==
  ASSUME Signed
  PROVE  MaxEpochs \in Nat /\ MaxWindows \in Nat
  BY EvidenceAssumption DEF Signed, MaxEpochs, MaxWindows

LEMMA WorldKeepsIInv ==
  ASSUME IInv, CutReceipt \/ ForeignReceipt \/ CloseEpoch \/ CloseAgain \/ ForeignCheckpoint
  PROVE  IInv'
  <1> USE DEF IInv
  <1>1. CASE CutReceipt
    <2>1. PICK settled \in BOOLEAN,
               prev \in {HeadOf(Issuers(receipts))} \cup Id(Issuers(receipts)) \cup {NoHash} :
            receipts' = receipts \cup {NewReceipt("issuer", "issuer", prev, open, settled)}
      BY <1>1 DEF CutReceipt
    <2>2. prev \in Nat
      <3>1. Issuers(receipts) \in SUBSET receipts
        BY DEF Issuers
      <3>2. HeadOf(Issuers(receipts)) \in Nat
        BY <3>1, HeadOfReceipts
      <3> QED BY <3>1, <3>2 DEF Id, NoHash, Signed, ReceiptDocs
    <2> DEFINE r == NewReceipt("issuer", "issuer", prev, open, settled)
    <2>3. r \in ReceiptDocs /\ r.id = NextId /\ r.intact /\ r.ts = open
      BY <2>2, NextIdIs DEF NewReceipt, ReceiptDocs, Parties, Signed
    <2> QED BY <1>1, <2>1, <2>3, AddReceipt DEF CutReceipt
  <1>2. CASE ForeignReceipt
    <2>1. PICK key \in {"other", "issuer"}, prev \in Id(receipts) \cup {NoHash}, ts \in 1 .. MaxEpochs :
            receipts' = receipts \cup {NewReceipt("other", key, prev, ts, TRUE)}
      BY <1>2 DEF ForeignReceipt
    <2>2. prev \in Nat /\ ts \in Nat
      BY BoundsAre DEF Id, NoHash, Signed, ReceiptDocs
    <2> DEFINE r == NewReceipt("other", key, prev, ts, TRUE)
    <2>3. r \in ReceiptDocs /\ r.id = NextId /\ r.intact /\ r.by # "issuer"
      BY <2>2, NextIdIs DEF NewReceipt, ReceiptDocs, Parties
    <2> QED BY <1>2, <2>1, <2>3, AddReceipt DEF ForeignReceipt
  <1>3. CASE CloseEpoch
    <2>1. PICK redacted \in MaybeRedacted, prev \in PrevOf(open) :
            checkpoints' = checkpoints
              \cup {CheckpointClaims("issuer", open, CutIn(open), prev, redacted)}
      BY <1>3 DEF CloseEpoch
    <2>2. /\ redacted \in BOOLEAN /\ prev \in Nat /\ open \in Nat /\ "issuer" \in Parties
          /\ CutIn(open) \in SUBSET receipts
      BY PrevOfIs DEF MaybeRedacted, Signed, CutIn, Issuers, Parties
    <2> DEFINE cp == CheckpointClaims("issuer", open, CutIn(open), prev, redacted)
    <2>3. /\ cp \in CheckpointDocs /\ cp.id = NextId /\ cp.by = "issuer" /\ cp.epoch = open
          /\ cp.start = cp.epoch /\ cp.end = cp.epoch + 1 /\ cp.prev \in PrevOf(cp.epoch)
          /\ Closes(cp, open)
      <3>1. PICK x : x = cp
        OBVIOUS
      <3> HIDE DEF cp
      <3>2. x = CheckpointClaims("issuer", open, CutIn(open), prev, redacted)
        BY <3>1 DEF cp
      <3>3. /\ x \in CheckpointDocs /\ x.id = NextId /\ x.by = "issuer" /\ x.epoch = open
            /\ x.start = x.epoch /\ x.end = x.epoch + 1 /\ x.prev = prev
            /\ x.count = Cardinality(CutIn(open)) /\ x.head = HeadOf(CutIn(open))
            /\ x.total \in {Redacted, Cardinality(Settled(CutIn(open)))}
        <4> DEFINE S == CutIn(open)
        <4> SUFFICES /\ x \in CheckpointDocs /\ x.id = NextId /\ x.by = "issuer" /\ x.epoch = open
                     /\ x.start = x.epoch /\ x.end = x.epoch + 1 /\ x.prev = prev
                     /\ x.count = Cardinality(S) /\ x.head = HeadOf(S)
                     /\ x.total \in {Redacted, Cardinality(Settled(S))}
          OBVIOUS
        <4>1. S \in SUBSET receipts /\ x = CheckpointClaims("issuer", open, S, prev, redacted)
          BY <2>2, <3>2
        <4> HIDE DEF S
        <4>2. HeadOf(S) \in Nat /\ NextId \in Nat \ {0} /\ Cardinality(S) \in Nat
              /\ Cardinality(Settled(S)) \in Nat
          BY <4>1, HeadOfReceipts, NextIdIs, CountsAre
        <4> QED BY <2>2, <4>1, <4>2 DEF CheckpointClaims, CheckpointDocs, Redacted, Parties
      <3> QED BY <3>1, <3>3 DEF Closes
    <2>4. open' = open + 1 /\ cp.epoch \in 1 .. open' - 1
      BY <1>3, <2>3 DEF CloseEpoch, Signed
    <2> HIDE DEF cp
    <2>5. checkpoints' = checkpoints \cup {cp}
      BY <2>1 DEF cp
    <2> QED BY <1>3, <2>3, <2>4, <2>5, AddCheckpoint DEF CloseEpoch
  <1>4. CASE CloseAgain
    <2>1. PICK epoch \in 1 .. open - 1 :
            \E S \in SUBSET CutIn(epoch) \ {CutIn(epoch)}, prev \in PrevOf(epoch) :
              checkpoints' = checkpoints
                \cup {CheckpointClaims("issuer", epoch, S, prev, FALSE)}
      BY <1>4 DEF CloseAgain
    <2>2. PICK S \in SUBSET CutIn(epoch), prev \in PrevOf(epoch), redacted \in BOOLEAN :
            checkpoints' = checkpoints
              \cup {CheckpointClaims("issuer", epoch, S, prev, redacted)}
      BY <2>1
    <2>3. /\ prev \in Nat /\ epoch \in Nat /\ "issuer" \in Parties /\ redacted \in BOOLEAN
          /\ S \in SUBSET receipts
      BY PrevOfIs DEF Signed, CutIn, Issuers, Parties
    <2> DEFINE cp == CheckpointClaims("issuer", epoch, S, prev, redacted)
    <2>4. /\ cp \in CheckpointDocs /\ cp.id = NextId /\ cp.by = "issuer" /\ cp.epoch = epoch
          /\ cp.start = cp.epoch /\ cp.end = cp.epoch + 1 /\ cp.prev \in PrevOf(cp.epoch)
      <3>1. PICK x : x = cp
        OBVIOUS
      <3> HIDE DEF cp
      <3>2. x = CheckpointClaims("issuer", epoch, S, prev, redacted)
        BY <3>1 DEF cp
      <3>3. /\ x \in CheckpointDocs /\ x.id = NextId /\ x.by = "issuer" /\ x.epoch = epoch
            /\ x.start = x.epoch /\ x.end = x.epoch + 1 /\ x.prev = prev
            /\ x.count = Cardinality(S) /\ x.head = HeadOf(S)
            /\ x.total \in {Redacted, Cardinality(Settled(S))}
        <4>1. HeadOf(S) \in Nat /\ NextId \in Nat \ {0} /\ Cardinality(S) \in Nat
              /\ Cardinality(Settled(S)) \in Nat
          BY <2>3, HeadOfReceipts, NextIdIs, CountsAre
        <4> QED BY <2>3, <3>2, <4>1 DEF CheckpointClaims, CheckpointDocs, Redacted, Parties
      <3> QED BY <3>1, <3>3
    <2>5. open' = open /\ cp.epoch \in 1 .. open' - 1
      BY <1>4, <2>4 DEF CloseAgain
    <2> HIDE DEF cp
    <2>6. checkpoints' = checkpoints \cup {cp}
      BY <2>2 DEF cp
    <2> QED BY <1>4, <2>4, <2>5, <2>6, AddCheckpoint DEF CloseAgain
  <1>5. CASE ForeignCheckpoint
    <2>1. PICK epoch \in 1 .. MaxEpochs, prev \in Id(checkpoints) \cup {NoHash}, redacted \in BOOLEAN :
            checkpoints' = checkpoints
              \cup {CheckpointClaims("other", epoch, {r \in receipts : r.ts = epoch}, prev, redacted)}
      BY <1>5 DEF ForeignCheckpoint
    <2> DEFINE S == {r \in receipts : r.ts = epoch}
               cp == CheckpointClaims("other", epoch, S, prev, redacted)
    <2>2. /\ prev \in Nat /\ epoch \in Nat /\ "other" \in Parties /\ redacted \in BOOLEAN
          /\ S \in SUBSET receipts
      <3>1. epoch \in Nat /\ "other" \in Parties /\ S \in SUBSET receipts
        BY BoundsAre DEF Parties
      <3>2. \A x \in checkpoints : x.id \in Nat
        BY DEF Signed, CheckpointDocs
      <3> QED BY <3>1, <3>2 DEF Id, NoHash
    <2>3. /\ cp \in CheckpointDocs /\ cp.id = NextId /\ cp.by = "other" /\ cp.epoch = epoch
          /\ cp.start = cp.epoch /\ cp.end = cp.epoch + 1
      <3>1. PICK x : x = cp
        OBVIOUS
      <3> HIDE DEF cp
      <3>2. x = CheckpointClaims("other", epoch, S, prev, redacted)
        BY <3>1 DEF cp
      <3>3. /\ x \in CheckpointDocs /\ x.id = NextId /\ x.by = "other" /\ x.epoch = epoch
            /\ x.start = x.epoch /\ x.end = x.epoch + 1 /\ x.prev = prev
            /\ x.count = Cardinality(S) /\ x.head = HeadOf(S)
            /\ x.total \in {Redacted, Cardinality(Settled(S))}
        <4> HIDE DEF S
        <4>1. HeadOf(S) \in Nat /\ NextId \in Nat \ {0} /\ Cardinality(S) \in Nat
              /\ Cardinality(Settled(S)) \in Nat
          BY <2>2, HeadOfReceipts, NextIdIs, CountsAre
        <4> QED BY <2>2, <3>2, <4>1 DEF CheckpointClaims, CheckpointDocs, Redacted, Parties
      <3> QED BY <3>1, <3>3
    <2> HIDE DEF cp
    <2>4. checkpoints' = checkpoints \cup {cp}
      BY <2>1 DEF cp
    <2> QED BY <1>5, <2>3, <2>4, AddCheckpoint DEF ForeignCheckpoint
  <1> QED BY <1>1, <1>2, <1>3, <1>4, <1>5

LEMMA PresentingStays ==
  ASSUME UNCHANGED <<scenario, receipts, checkpoints, open>>
  PROVE  /\ \A n : Cuts(n)' = Cuts(n)
         /\ ShowReceipts' = ShowReceipts
         /\ \A S : Orders(S)' = Orders(S)
  <1>1. \A n : Cuts(n)' = Cuts(n)
    BY SettingStays DEF Cuts
  <1>2. ShowReceipts' = ShowReceipts
    <2>1. Doctored' = Doctored
      BY SettingStays DEF Doctored
    <2>2. Closed(receipts)' = Closed(receipts)
      BY DEF Closed
    <2> QED BY <2>1, <2>2, SettingStays DEF ShowReceipts
  <1>3. \A S : Orders(S)' = Orders(S)
    BY SettingStays DEF Orders
  <1> QED BY <1>1, <1>2, <1>3

LEMMA AuditStays ==
  ASSUME UNCHANGED <<scenario, checkpoints>>
  PROVE  \A R, presented, anchor, W :
           AuditDetailed(R, presented, anchor, W)' = AuditDetailed(R, presented, anchor, W)
  <1>1. \A W : WitnessBodies(W)' = WitnessBodies(W) /\ Accusing(W)' = Accusing(W)
    BY DEF WitnessBodies, Accusing
  <1>2. \A W, C : Withheld(W, C)' = Withheld(W, C) /\ Warnings(W, C)' = Warnings(W, C)
    BY <1>1, SettingStays DEF Withheld, Warnings
  <1> SUFFICES ASSUME NEW R, NEW presented, NEW anchor, NEW W
               PROVE  AuditDetailed(R, presented, anchor, W)' = AuditDetailed(R, presented, anchor, W)
    OBVIOUS
  <1> QED BY <1>1, <1>2 DEF AuditDetailed

LEMMA RegisterKeepsIInv ==
  ASSUME IInv, Register
  PROVE  IInv'
  <1> USE DEF IInv
  <1>1. NextId' = NextId
    BY DEF Register, NextId
  <1>2. Witnessed' /\ log' \subseteq Id(checkpoints')
    BY SettingStays DEF Register, Signed, Id
  <1>3. Signed'
    BY <1>1, <1>2 DEF Register, Signed, Named
  <1>4. \A cp, epoch : (Closes(cp, epoch)' <=> Closes(cp, epoch)) /\ CutIn(epoch)' = CutIn(epoch)
    BY DEF Register, Closes, CutIn
  <1>5. \A epoch : PrevOf(epoch)' = PrevOf(epoch)
    BY DEF Register, PrevOf, Closing
  <1>6. Closings'
    BY <1>4, <1>5, SettingStays DEF Register, Closings
  <1> QED BY <1>3, <1>6, NothingShownStays DEF Register

LEMMA SignedStays ==
  ASSUME Signed, Closings, UNCHANGED <<scenario, receipts, checkpoints, open, log>>
  PROVE  Signed' /\ Closings'
  <1>1. NextId' = NextId
    BY DEF NextId
  <1>2. Signed'
    BY <1>1, SettingStays DEF Signed, Named
  <1>3. \A cp, epoch : (Closes(cp, epoch)' <=> Closes(cp, epoch)) /\ CutIn(epoch)' = CutIn(epoch)
    BY DEF Closes, CutIn
  <1>4. \A epoch : PrevOf(epoch)' = PrevOf(epoch)
    BY DEF PrevOf, Closing
  <1>5. Closings'
    BY <1>3, <1>4, SettingStays DEF Closings
  <1> QED BY <1>2, <1>5

LEMMA PresentKeepsIInv ==
  ASSUME IInv, Present
  PROVE  IInv'
  <1> USE DEF IInv
  <1>1. UNCHANGED <<scenario, receipts, checkpoints, open, log>>
    BY DEF Present
  <1>2. PICK cut \in Cuts(open - 1), R \in ShowReceipts, C \in ShowCheckpoints :
          LET part(i) == {cp \in C : cp.epoch \in cut[i]}
          IN  \E seqs \in [DOMAIN cut -> UNION {Orders(part(i)) : i \in DOMAIN cut}] :
                /\ \A i \in DOMAIN cut : seqs[i] \in Orders(part(i))
                /\ shown' = [i \in DOMAIN cut |->
                               [receipts |-> {r \in R : r.ts \in cut[i]},
                                checkpoints |-> seqs[i]]]
    BY DEF Present
  <1>3. PICK seqs :
          /\ \A i \in DOMAIN cut : seqs[i] \in Orders({cp \in C : cp.epoch \in cut[i]})
          /\ shown' = [i \in DOMAIN cut |->
                         [receipts |-> {r \in R : r.ts \in cut[i]}, checkpoints |-> seqs[i]]]
    BY <1>2
  <1>4. C \in SUBSET checkpoints
    BY DEF ShowCheckpoints, Issuers
  <1>5. PresentedAs(cut, R, C)'
    BY <1>1, <1>3, <1>4, PresentingStays DEF PresentedAs
  <1>6. /\ \A w \in inclusions' : w.statement \in log
        /\ \A s \in log : \E w \in inclusions' : w.statement = s
    <2>1. PICK body : inclusions' = {[statement |-> s, body |-> body[s]] : s \in log}
      BY DEF Present
    <2>2. \A w \in inclusions' : \E s \in log : w = [statement |-> s, body |-> body[s]]
      BY <2>1
    <2>3. \A s \in log : [statement |-> s, body |-> body[s]] \in inclusions'
      BY <2>1
    <2>4. \A s \in log : [statement |-> s, body |-> body[s]].statement = s
      OBVIOUS
    <2> QED BY <2>2, <2>3, <2>4
  <1>7. Presentation'
    BY <1>1, <1>5, <1>6 DEF Present, Presentation
  <1>8. PICK m \in Nat : DOMAIN cut = 1 .. m
    BY DEF Cuts
  <1>9. IsSeq(shown') /\ Len(shown') = m
    <2>1. DOMAIN shown' = 1 .. m /\ shown' = [i \in 1 .. m |-> shown'[i]]
      BY <1>3, <1>8
    <2> QED BY <2>1, FnIsSeq
  <1>10. Reports'
    <2>1. details' = details /\ IsSeq(details) /\ Len(details) = 0 /\ DOMAIN details = {}
      BY NothingAuditedYet DEF Present
    <2> QED BY <1>9, <2>1 DEF Reports, IsSeq
  <1> QED BY <1>1, <1>7, <1>10, SignedStays

LEMMA AuditKeepsIInv ==
  ASSUME IInv, AuditWindow
  PROVE  IInv'
  <1> USE DEF IInv
  <1>1. UNCHANGED <<scenario, receipts, checkpoints, open, log, shown, inclusions>>
    BY DEF AuditWindow
  <1>2. Presentation'
    <2>1. \A cut, R, C : PresentedAs(cut, R, C)' <=> PresentedAs(cut, R, C)
      BY <1>1, PresentingStays DEF PresentedAs
    <2> QED BY <1>1, <2>1 DEF Presentation
  <1> DEFINE n == Len(details)
             report == AuditDetailed(shown[n + 1].receipts, shown[n + 1].checkpoints,
                                     AnchorOf(n + 1), inclusions)
  <1>3. IsSeq(details) /\ n \in Nat /\ DOMAIN details = 1 .. n /\ n < Len(shown) /\ Len(shown) \in Nat
    BY SeqHas DEF AuditWindow, Reports
  <1>4. details' = Append(details, report)
    BY DEF AuditWindow
  <1> HIDE DEF report
  <1>5. /\ IsSeq(details') /\ Len(details') = n + 1 /\ details'[n + 1] = report
        /\ \A i \in 1 .. n : details'[i] = details[i]
    BY <1>3, <1>4, SeqAppend
  <1>6. DOMAIN details' = 1 .. n + 1
    BY <1>5, SeqHas
  <1>7. \A i \in 1 .. n + 1 : AnchorOf(i)' = AnchorOf(i)
    <2> TAKE i \in 1 .. n + 1
    <2>1. CASE i = 1
      BY <2>1 DEF AnchorOf
    <2>2. CASE i # 1
      <3>1. i - 1 \in 1 .. n
        BY <2>2, <1>3
      <3> QED BY <2>2, <3>1, <1>5 DEF AnchorOf
    <2> QED BY <2>1, <2>2
  <1>8. \A i \in DOMAIN details' :
          details'[i] = AuditDetailed(shown[i].receipts, shown[i].checkpoints, AnchorOf(i), inclusions)
    <2> TAKE i \in DOMAIN details'
    <2>1. CASE i = n + 1
      BY <2>1, <1>5 DEF report
    <2>2. CASE i # n + 1
      <3>1. i \in 1 .. n
        BY <2>2, <1>3, <1>6
      <3> QED BY <3>1, <1>3, <1>5 DEF Reports
    <2> QED BY <2>1, <2>2
  <1>9. Reports'
    <2>1. IsSeq(shown)' /\ IsSeq(details)' /\ (Len(details) <= Len(shown))'
      BY <1>1, <1>3, <1>5 DEF Reports, IsSeq
    <2>2. \A i \in DOMAIN details' :
            details'[i] = AuditDetailed(shown[i].receipts, shown[i].checkpoints, AnchorOf(i), inclusions)'
      BY <1>1, <1>6, <1>7, <1>8, AuditStays
    <2> QED BY <2>1, <2>2 DEF Reports
  <1> QED BY <1>1, <1>2, <1>9, SignedStays

(* What is signed, closed and presented is so in every reachable state,    *)
(* and each report is auditDetailed's of its window                        *)
(* (audit/src/windows.ts:126-153).                                         *)
THEOREM EvidenceIInv == Spec => []IInv
  <1>1. Init => IInv
    BY InitIsSound
  <1>2. IInv /\ [Next]_vars => IInv'
    <2> SUFFICES ASSUME IInv, [Next]_vars PROVE IInv'
      OBVIOUS
    <2>1. CASE CutReceipt \/ ForeignReceipt \/ CloseEpoch \/ CloseAgain \/ ForeignCheckpoint
      BY <2>1, WorldKeepsIInv
    <2>2. CASE Register
      BY <2>2, RegisterKeepsIInv
    <2>3. CASE Present
      BY <2>3, PresentKeepsIInv
    <2>4. CASE AuditWindow
      BY <2>4, AuditKeepsIInv
    <2>5. CASE UNCHANGED vars
      <3>1. UNCHANGED <<scenario, receipts, checkpoints, open, log, shown, inclusions, details>>
        BY <2>5 DEF vars
      <3>2. Signed' /\ Closings'
        BY <3>1, SignedStays DEF IInv
      <3>3. Presentation'
        <4>1. \A cut, R, C : PresentedAs(cut, R, C)' <=> PresentedAs(cut, R, C)
          BY <3>1, PresentingStays DEF PresentedAs
        <4> QED BY <3>1, <4>1 DEF IInv, Presentation
      <3>4. Reports'
        <4>1. \A i : AnchorOf(i)' = AnchorOf(i)
          BY <3>1 DEF AnchorOf
        <4> QED BY <3>1, <4>1, AuditStays DEF IInv, Reports, IsSeq
      <3> QED BY <3>2, <3>3, <3>4 DEF IInv
    <2> QED BY <2>1, <2>2, <2>3, <2>4, <2>5 DEF Next
  <1> QED BY <1>1, <1>2, PTL DEF Spec

-----------------------------------------------------------------------------
(* What one report says: its findings by their codes.                      *)

LEMMA CodesAre ==
  /\ \A R, C : \A f \in IssuerMismatches(R, C) : f.code = "issuer-key-mismatch"
  /\ \A a, C : \A f \in AnchorFindings(a, C) : f.code = "window-coverage"
  /\ \A R, root : \A f \in ReceiptChainBreak(R, root) : f.code = "receipt-chain-break"
  /\ \A R, C, root : \A f \in TotalMismatches(R, C, root) :
       f.code \in {"checkpoint-total-mismatch", "checkpoint-head-mismatch"}
  /\ \A C, h : \A f \in CheckpointChainBreak(C, h) : f.code = "checkpoint-total-mismatch"
  /\ \A R, C : \A f \in WindowCoverage(R, C) : f.code = "window-coverage"
  /\ \A S : \A f \in Equivocation(S) : f.code = "equivocation"
  /\ \A W, C : \A f \in Withheld(W, C) : f.code = "checkpoint-withheld"
  <1> USE DEF Finding, FindingIf
  <1>1. \A R, C : \A f \in IssuerMismatches(R, C) : f.code = "issuer-key-mismatch"
    BY DEF IssuerMismatches
  <1>2. \A a, C : \A f \in AnchorFindings(a, C) : f.code = "window-coverage"
    BY DEF AnchorFindings
  <1>3. \A R, root : \A f \in ReceiptChainBreak(R, root) : f.code = "receipt-chain-break"
    BY DEF ReceiptChainBreak
  <1>4. \A R, C, root : \A f \in TotalMismatches(R, C, root) :
          f.code \in {"checkpoint-total-mismatch", "checkpoint-head-mismatch"}
    <2> TAKE R, C, root
    <2>1. \A f \in TotalMismatches(R, C, root) : \E cp :
            f \in {Finding("checkpoint-total-mismatch", cp.id), Finding("checkpoint-head-mismatch", cp.id)}
      BY DEF TotalMismatches
    <2> QED BY <2>1
  <1>5. \A C, h : \A f \in CheckpointChainBreak(C, h) : f.code = "checkpoint-total-mismatch"
    BY DEF CheckpointChainBreak
  <1>6. \A R, C : \A f \in WindowCoverage(R, C) : f.code = "window-coverage"
    BY DEF WindowCoverage
  <1>7. \A S : \A f \in Equivocation(S) : f.code = "equivocation"
    BY DEF Equivocation
  <1>8. \A W, C : \A f \in Withheld(W, C) : f.code = "checkpoint-withheld"
    BY DEF Withheld
  <1> QED BY <1>1, <1>2, <1>3, <1>4, <1>5, <1>6, <1>7, <1>8

LEMMA FindingsAre ==
  ASSUME NEW R, NEW P, NEW anchor, NEW W, NEW C, C = AttestedIn(P), NEW root, root = RootPrev(anchor, C)
  PROVE  AuditDetailed(R, P, anchor, W).findings =
           IssuerMismatches(R, P) \cup AnchorFindings(anchor, C)
           \cup ReceiptChainBreak(R, root) \cup TotalMismatches(Attested(R), C, root)
           \cup CheckpointChainBreak(C, FirstPrev(anchor, C))
           \cup WindowCoverage(Attested(R), C)
           \cup Equivocation(Range(C) \cup WitnessBodies(W)) \cup Withheld(W, C)
  BY DEF AuditDetailed

LEMMA AttestedTwice ==
  ASSUME NEW P
  PROVE  /\ AttestedIn(AttestedIn(P)) = AttestedIn(P)
         /\ \A i \in DOMAIN AttestedIn(P) : i \in DOMAIN P /\ AttestedIn(P)[i] = P[i] /\ Attests(P[i])
         /\ \A i \in DOMAIN P : Attests(P[i]) => i \in DOMAIN AttestedIn(P)
  BY DEF AttestedIn, Restrict

(* The walk reports a break as soon as something in it does not verify:    *)
(* that receipt is on the chain it builds, or it could not be placed.      *)
LEMMA DressedIsNamed ==
  ASSUME NEW R, NEW root, NEW r \in ChainWalk(R), ~Attests(r)
  PROVE  NamedByWalk(R, root) # {}
  <1> DEFINE chain == IssuerChain(ChainWalk(R), root)
             failed == {i \in DOMAIN chain : ~Attests(chain[i])}
  <1>1. CASE r \in Range(chain)
    <2>1. PICK i \in DOMAIN chain : chain[i] = r
      BY <1>1 DEF Range
    <2>2. failed # {}
      BY <2>1
    <2> HIDE DEF failed
    <2> QED BY <2>2 DEF NamedByWalk, failed
  <1>2. CASE r \notin Range(chain)
    BY <1>2 DEF NamedByWalk
  <1> QED BY <1>1, <1>2

(* Nothing named: all that is walked is on the chain and verifies.         *)
LEMMA NothingNamed ==
  ASSUME NEW R, NEW root, NamedByWalk(R, root) = {}
  PROVE  /\ ChainWalk(R) \subseteq Range(IssuerChain(ChainWalk(R), root))
         /\ \A r \in ChainWalk(R) : Attests(r)
  <1>1. ChainWalk(R) \subseteq Range(IssuerChain(ChainWalk(R), root))
    BY DEF NamedByWalk
  <1>2. \A r \in ChainWalk(R) : Attests(r)
    BY DressedIsNamed
  <1> QED BY <1>1, <1>2

(* A report is the same of the issuer's own documents, except for the      *)
(* findings that name the others.                                          *)
LEMMA OursOnly ==
  ASSUME NEW R, NEW P, NEW anchor, NEW W
  PROVE  Charges(AuditDetailed(R, P, anchor, W))
           = Charges(AuditDetailed(Issuers(R), AttestedIn(P), anchor, W))
             \cup FindingIf(Dressed(R) # {}, "receipt-chain-break", Whole)
  <1> DEFINE C == AttestedIn(P)
             root == RootPrev(anchor, C)
             broken == FindingIf(Dressed(R) # {}, "receipt-chain-break", Whole)
  <1>1. AttestedIn(C) = C
    BY AttestedTwice
  <1>2. Attested(Issuers(R)) = Attested(R)
    BY DEF Attested, Attests, Issuers
  <1>3. ReceiptChainBreak(R, root) = ReceiptChainBreak(Issuers(R), root) \cup broken
    <2>1. CASE Dressed(R) = {}
      <3>1. ChainWalk(Issuers(R)) = ChainWalk(R)
        BY <2>1 DEF Dressed, ChainWalk, Issuers, Attests
      <3>2. ReceiptChainBreak(Issuers(R), root) = ReceiptChainBreak(R, root)
        BY <3>1 DEF ReceiptChainBreak, NamedByWalk
      <3> QED BY <2>1, <3>2 DEF FindingIf
    <2>2. CASE Dressed(R) # {}
      <3>1. PICK r \in ChainWalk(R) : ~Attests(r)
        BY <2>2 DEF Dressed, ChainWalk, Attests
      <3>2. NamedByWalk(R, root) # {}
        BY <3>1, DressedIsNamed
      <3> QED BY <2>2, <3>2 DEF ReceiptChainBreak, FindingIf
    <2> QED BY <2>1, <2>2
  <1> DEFINE rest == AnchorFindings(anchor, C)
                       \cup TotalMismatches(Attested(R), C, root)
                       \cup CheckpointChainBreak(C, FirstPrev(anchor, C))
                       \cup WindowCoverage(Attested(R), C)
                       \cup Equivocation(Range(C) \cup WitnessBodies(W))
                       \cup Withheld(W, C)
  <1>4. AuditDetailed(R, P, anchor, W).findings
          = IssuerMismatches(R, P) \cup ReceiptChainBreak(R, root) \cup rest
    BY DEF AuditDetailed
  <1>5. AuditDetailed(Issuers(R), C, anchor, W).findings
          = IssuerMismatches(Issuers(R), C) \cup ReceiptChainBreak(Issuers(R), root) \cup rest
    BY <1>1, <1>2 DEF AuditDetailed
  <1>6. \A f \in rest \cup ReceiptChainBreak(R, root) \cup ReceiptChainBreak(Issuers(R), root)
                     \cup broken : f.code # "issuer-key-mismatch"
    <2>1. \A f \in broken : f.code = "receipt-chain-break"
      BY DEF FindingIf, Finding
    <2> QED BY <2>1, CodesAre
  <1>7. \A f \in IssuerMismatches(R, P) \cup IssuerMismatches(Issuers(R), C) :
          f.code = "issuer-key-mismatch"
    BY CodesAre
  <1> HIDE DEF rest, broken
  <1>8. Charges(AuditDetailed(R, P, anchor, W)) = ReceiptChainBreak(R, root) \cup rest
    BY <1>4, <1>6, <1>7 DEF Charges
  <1>9. Charges(AuditDetailed(Issuers(R), C, anchor, W))
          = ReceiptChainBreak(Issuers(R), root) \cup rest
    BY <1>5, <1>6, <1>7 DEF Charges
  <1> QED BY <1>3, <1>8, <1>9 DEF broken

(* Documents another key signed change nothing but the findings that name  *)
(* them, in any window of any run (audit/src/index.ts:1895-2428); one that *)
(* carries the issuer's key is always named, as a break of the walked      *)
(* chain, and nothing else it does reaches the report.                     *)
THEOREM EvidenceForeignChangesNothing == Spec => []ForeignChangesNothing
  <1>1. IInv => ForeignChangesNothing
    <2> SUFFICES ASSUME IInv, NEW i \in DOMAIN details
                 PROVE  Charges(details[i])
                          = Charges(AuditDetailed(Issuers(shown[i].receipts),
                                                  AttestedIn(shown[i].checkpoints),
                                                  AnchorOf(i), inclusions))
                            \cup FindingIf(Dressed(shown[i].receipts) # {},
                                          "receipt-chain-break", Whole)
      BY DEF ForeignChangesNothing
    <2>1. details[i] = AuditDetailed(shown[i].receipts, shown[i].checkpoints, AnchorOf(i), inclusions)
      BY DEF IInv, Reports
    <2> QED BY <2>1, OursOnly
  <1> QED BY <1>1, EvidenceIInv, PTL

-----------------------------------------------------------------------------
(* What is presented.                                                      *)

LEMMA OrdersHave ==
  ASSUME NEW S, IsFiniteSet(S), NEW seq \in Orders(S)
  PROVE  /\ IsSeq(seq) /\ Range(seq) = S
         /\ \A i, j \in DOMAIN seq : seq[i] = seq[j] => i = j
  <1> DEFINE D == 1 .. Cardinality(S)
  <1>1. Cardinality(S) \in Nat
    BY FS_CardinalityType
  <1>2. seq \in [D -> S] /\ \A i, j \in D : i # j => seq[i] # seq[j]
    BY DEF Orders, SetToSeqs
  <1>3. IsSeq(seq)
    BY <1>1, <1>2, FnIsSeq
  <1>4. Range(seq) = S
    <2>1. seq \in Injection(D, S)
      BY <1>2 DEF Injection, IsInjective
    <2>2. Cardinality(D) = Cardinality(S)
      BY <1>1, FS_Interval
    <2>3. seq \in Surjection(D, S)
      BY <2>1, <2>2, FS_Injection
    <2> QED BY <1>2, <2>3 DEF Surjection, Range
  <1> QED BY <1>2, <1>3, <1>4

LEMMA ShownAre ==
  ASSUME IInv, NEW i \in DOMAIN shown
  PROVE  /\ shown # <<>> /\ i \in 1 .. Len(shown) /\ Len(shown) \in Nat
         /\ IsSeq(shown[i].checkpoints) /\ Range(shown[i].checkpoints) \subseteq checkpoints
         /\ \A j, k \in DOMAIN shown[i].checkpoints :
              shown[i].checkpoints[j] = shown[i].checkpoints[k] => j = k
  <1>1. i \in 1 .. Len(shown) /\ Len(shown) \in Nat
    BY SeqHas DEF IInv, Reports
  <1>2. shown # <<>>
    BY <1>1
  <1>3. PICK cut, R, C : PresentedAs(cut, R, C)
    BY <1>2 DEF IInv, Presentation
  <1> DEFINE S == {cp \in C : cp.epoch \in cut[i]}
  <1>4. shown[i].checkpoints \in Orders(S) /\ S \in SUBSET checkpoints
    BY <1>3 DEF PresentedAs
  <1>5. IsFiniteSet(S)
    BY <1>4, FS_Subset DEF IInv, Signed
  <1> HIDE DEF S
  <1> QED BY <1>1, <1>2, <1>4, <1>5, OrdersHave

(* Two windows' receipts are of different epochs.                          *)
LEMMA ShownReceiptsAre ==
  ASSUME IInv, NEW i \in DOMAIN shown, NEW r \in shown[i].receipts
  PROVE  /\ r \in ReceiptDocs
         /\ \E x \in receipts : /\ x.id = r.id /\ x.by = r.by /\ x.ts = r.ts /\ x.prev = r.prev
                               /\ x.settled = r.settled
         /\ \A j \in DOMAIN shown \ {i} : \A x \in shown[j].receipts : x.ts # r.ts
  <1>1. shown # <<>>
    BY ShownAre
  <1>2. PICK cut, R, C : PresentedAs(cut, R, C)
    BY <1>1 DEF IInv, Presentation
  <1>3. PICK S \in SUBSET receipts, D \in Doctored : R = S \cup D
    <2>1. {} \in Doctored /\ Closed(receipts) \in SUBSET receipts
      BY DEF Doctored, Closed, Issuers
    <2>2. CASE May("withhold")
      BY <2>2, <1>2 DEF PresentedAs, ShowReceipts
    <2>3. CASE ~May("withhold")
      <3>1. R = Closed(receipts) \cup {}
        BY <2>3, <1>2 DEF PresentedAs, ShowReceipts
      <3> QED BY <3>1, <2>1
    <2> QED BY <2>2, <2>3
  <1>4. r \in R
    BY <1>2 DEF PresentedAs
  <1>5. r \in receipts \/ \E x \in receipts : r \in Copies(x)
    BY <1>3, <1>4 DEF Doctored
  <1>6. r \in ReceiptDocs /\ \E x \in receipts : /\ x.id = r.id /\ x.by = r.by /\ x.ts = r.ts
                                               /\ x.prev = r.prev /\ x.settled = r.settled
    <2>1. \A x \in receipts : x \in ReceiptDocs
      BY DEF IInv, Signed
    <2>2. CASE r \in receipts
      BY <2>1, <2>2
    <2>3. CASE \E x \in receipts : r \in Copies(x)
      <3>1. PICK x \in receipts : r = [x EXCEPT !.copy = 2] \/ r = [x EXCEPT !.intact = FALSE]
        BY <2>3 DEF Copies
      <3>2. x \in ReceiptDocs
        BY <2>1
      <3>3. CASE r = [x EXCEPT !.copy = 2]
        BY <3>2, <3>3 DEF ReceiptDocs
      <3>4. CASE r = [x EXCEPT !.intact = FALSE]
        BY <3>2, <3>4 DEF ReceiptDocs
      <3> QED BY <3>1, <3>3, <3>4
    <2> QED BY <1>5, <2>2, <2>3
  <1>7. \A j \in DOMAIN shown \ {i} : \A x \in shown[j].receipts : x.ts # r.ts
    <2> SUFFICES ASSUME NEW j \in DOMAIN shown, j # i, NEW x \in shown[j].receipts, x.ts = r.ts
                 PROVE  FALSE
      OBVIOUS
    <2>1. r.ts \in cut[i] /\ r.ts \in cut[j] /\ i \in DOMAIN cut /\ j \in DOMAIN cut
      BY <1>2 DEF PresentedAs
    <2>2. i < j \/ j < i
      BY <2>1, ShownAre
    <2>3. r.ts < r.ts
      BY <2>1, <2>2, <1>2 DEF PresentedAs, Cuts
    <2> QED BY <2>3, <1>6 DEF ReceiptDocs
  <1> QED BY <1>6, <1>7

-----------------------------------------------------------------------------
(* What the log's entries tell.                                            *)

LEMMA AuditedIs ==
  ASSUME IInv, Audited
  PROVE  /\ DOMAIN details = DOMAIN shown /\ DOMAIN shown = 1 .. Len(shown)
         /\ Len(shown) \in Nat /\ 1 \in DOMAIN shown
         /\ \A i \in DOMAIN shown :
              details[i] = AuditDetailed(shown[i].receipts, shown[i].checkpoints, AnchorOf(i), inclusions)
         /\ \A i \in DOMAIN shown : details[i].findings \subseteq Findings
  <1>1. /\ DOMAIN details = 1 .. Len(details) /\ DOMAIN shown = 1 .. Len(shown)
        /\ Len(shown) \in Nat /\ shown \in Seq(Range(shown))
    BY SeqHas DEF IInv, Reports, IsSeq
  <1>2. Len(shown) # 0
    BY <1>1, EmptySeq DEF Audited
  <1> QED BY <1>1, <1>2 DEF Audited, IInv, Reports, Findings

(* One window of the run.                                                  *)
ReceiptsOf(i) == shown[i].receipts
AttestedOf(i) == AttestedIn(shown[i].checkpoints)
RootOf(i) == RootPrev(AnchorOf(i), AttestedOf(i))

LEMMA ReportIs ==
  ASSUME IInv, Audited, NEW i \in DOMAIN shown
  PROVE  /\ details[i].last = LastAttested(AttestedOf(i))
         /\ details[i].warnings = Warnings(inclusions, AttestedOf(i))
         /\ details[i].findings =
              IssuerMismatches(ReceiptsOf(i), shown[i].checkpoints)
              \cup AnchorFindings(AnchorOf(i), AttestedOf(i))
              \cup ReceiptChainBreak(ReceiptsOf(i), RootOf(i))
              \cup TotalMismatches(Attested(ReceiptsOf(i)), AttestedOf(i), RootOf(i))
              \cup CheckpointChainBreak(AttestedOf(i), FirstPrev(AnchorOf(i), AttestedOf(i)))
              \cup WindowCoverage(Attested(ReceiptsOf(i)), AttestedOf(i))
              \cup Equivocation(Range(AttestedOf(i)) \cup WitnessBodies(inclusions))
              \cup Withheld(inclusions, AttestedOf(i))
  <1>1. details[i] = AuditDetailed(ReceiptsOf(i), shown[i].checkpoints, AnchorOf(i), inclusions)
    BY AuditedIs DEF ReceiptsOf
  <1> QED BY <1>1, FindingsAre DEF AuditDetailed, AttestedOf, RootOf

LEMMA AnEntry ==
  ASSUME IInv, NEW cp \in checkpoints
  PROVE  cp.id \in Nat \ {0} /\ cp.id # NoHash /\ \A x \in checkpoints : x.id = cp.id => x = cp
  BY DEF IInv, Signed, CheckpointDocs, Named, NoHash

(* What a window is charged to have withheld is a recorded statement of    *)
(* the issuer that this window was not shown.                              *)
LEMMA WithheldFromWindow ==
  ASSUME IInv, Audited, BodiesBelong, NEW i \in DOMAIN shown, NEW f \in details[i].findings,
         f.code = "checkpoint-withheld"
  PROVE  /\ f.on \in Id(Issuers(checkpoints)) \cap log
         /\ f.on \notin Id({cp \in Range(shown[i].checkpoints) : Attests(cp)})
  <1> DEFINE C == AttestedOf(i)
  <1>1. f \in Withheld(inclusions, C)
    <2> HIDE DEF C
    <2>1. f \notin IssuerMismatches(ReceiptsOf(i), shown[i].checkpoints)
      BY CodesAre
    <2>2. f \notin AnchorFindings(AnchorOf(i), C)
      BY CodesAre
    <2>3. f \notin ReceiptChainBreak(ReceiptsOf(i), RootOf(i))
      BY CodesAre
    <2>4. f \notin TotalMismatches(Attested(ReceiptsOf(i)), C, RootOf(i))
      BY CodesAre
    <2>5. f \notin CheckpointChainBreak(C, FirstPrev(AnchorOf(i), C))
      BY CodesAre
    <2>6. f \notin WindowCoverage(Attested(ReceiptsOf(i)), C)
      BY CodesAre
    <2>7. f \notin Equivocation(Range(C) \cup WitnessBodies(inclusions))
      BY CodesAre
    <2> QED BY <2>1, <2>2, <2>3, <2>4, <2>5, <2>6, <2>7, ReportIs DEF C
  <1>2. PICK w \in Accusing(inclusions) : /\ w.statement \notin Id(Range(C))
                                         /\ f = Finding("checkpoint-withheld", w.statement)
    BY <1>1 DEF Withheld
  <1>3. PICK cp \in checkpoints : cp.id = w.body /\ Attests(cp)
    BY <1>2 DEF Accusing
  <1>4. w.body = w.statement
    BY <1>2, <1>3, AnEntry DEF BodiesBelong, Accusing
  <1>5. w.statement \in log
    BY <1>2 DEF Accusing, IInv, Presentation, Audited
  <1>6. Range(C) = {x \in Range(shown[i].checkpoints) : Attests(x)}
    BY DEF AttestedOf, AttestedIn, Restrict, Range
  <1> QED BY <1>2, <1>3, <1>4, <1>5, <1>6 DEF Finding, Id, Issuers, Attests

(* The entries go to every window of a run (windows.ts:136), so what has   *)
(* been shown is asked of one window.                                      *)
WitnessInOneWindow ==
  \A name \in DOMAIN Scenarios : Scenarios[name].witnessed => Scenarios[name].maxWindows <= 1

LEMMA OneWindow ==
  ASSUME IInv, WitnessInOneWindow, Witnessed, shown # <<>>
  PROVE  DOMAIN shown = {1} /\ ShownCheckpoints = Range(shown[1].checkpoints)
         /\ ShownReceipts = shown[1].receipts
  <1>1. MaxWindows <= 1 /\ MaxWindows \in Nat
    BY BoundsAre DEF WitnessInOneWindow, Witnessed, MaxWindows, IInv, Signed
  <1>2. PICK cut, R, C : PresentedAs(cut, R, C)
    BY DEF IInv, Presentation
  <1>3. PICK m \in 1 .. MaxWindows : cut \in [1 .. m -> SUBSET (1 .. open - 1)]
    BY <1>2 DEF PresentedAs, Cuts
  <1>4. m = 1
    BY <1>1
  <1>5. DOMAIN shown = {1}
    BY <1>2, <1>3, <1>4 DEF PresentedAs
  <1> QED BY <1>5 DEF ShownCheckpoints, ShownReceipts

(* The issuer is charged with withholding only what it signed, the log     *)
(* recorded and the run was not shown (audit/src/index.ts:1280-1327).      *)
THEOREM EvidenceWithheldIsWithheld ==
  ASSUME WitnessInOneWindow
  PROVE  Spec => []WithheldIsWithheld
  <1>1. IInv => WithheldIsWithheld
    <2> SUFFICES ASSUME IInv, Audited, BodiesBelong, NEW f \in Findings,
                        f.code = "checkpoint-withheld"
                 PROVE  /\ f.on \in Id(Issuers(checkpoints)) \cap log
                        /\ f.on \notin Id(ShownCheckpoints)
      BY DEF WithheldIsWithheld
    <2>1. PICK i \in DOMAIN shown : f \in details[i].findings
      BY AuditedIs DEF Findings
    <2>2. /\ f.on \in Id(Issuers(checkpoints)) \cap log
          /\ f.on \notin Id({cp \in Range(shown[i].checkpoints) : Attests(cp)})
      BY <2>1, WithheldFromWindow
    <2>3. Witnessed /\ shown # <<>>
      BY <2>2 DEF IInv, Signed, Audited
    <2>4. i = 1 /\ ShownCheckpoints = Range(shown[1].checkpoints)
      BY <2>3, OneWindow
    <2>5. PICK x \in checkpoints : x.id = f.on /\ x.by = "issuer"
      BY <2>2 DEF Id, Issuers
    <2>6. SUFFICES ASSUME NEW cp \in Range(shown[1].checkpoints), cp.id = f.on PROVE FALSE
      BY <2>2, <2>4 DEF Id
    <2>7. cp = x /\ Attests(cp)
      <3>1. cp \in checkpoints
        BY <2>4, ShownAre
      <3> QED BY <2>5, <2>6, <3>1, AnEntry DEF Attests, IInv, Signed, CheckpointDocs
    <2> QED BY <2>2, <2>4, <2>6, <2>7 DEF Id
  <1> QED BY <1>1, EvidenceIInv, PTL

(* Two recorded checkpoints of one epoch whose entries come with their     *)
(* bodies are named, in any window (checkpoint/src/checkpoint.ts:283-304,  *)
(* audit/src/index.ts:1241-1265).                                          *)
THEOREM EvidenceEquivocationIsNamed == Spec => []EquivocationIsNamed
  <1>1. IInv => EquivocationIsNamed
    <2> SUFFICES ASSUME IInv, Audited,
                        NEW cp \in Issuers(checkpoints), NEW x \in Issuers(checkpoints),
                        cp.epoch = x.epoch, cp # x,
                        {[statement |-> id, body |-> id] : id \in {cp.id, x.id}} \subseteq inclusions
                 PROVE  Finding("equivocation", Whole) \in Findings
      BY DEF EquivocationIsNamed
    <2> DEFINE C == AttestedOf(1)
    <2>1. cp \in checkpoints /\ x \in checkpoints /\ Attests(cp) /\ Attests(x) /\ cp.id # x.id
      BY AnEntry DEF Issuers, Attests, IInv, Signed, CheckpointDocs
    <2>2. cp \in WitnessBodies(inclusions) /\ x \in WitnessBodies(inclusions)
      <3>1. /\ [statement |-> cp.id, body |-> cp.id] \in inclusions
            /\ [statement |-> x.id, body |-> x.id] \in inclusions
        OBVIOUS
      <3> QED BY <2>1, <3>1 DEF WitnessBodies
    <2>3. Finding("equivocation", Whole) \in Equivocation(Range(C) \cup WitnessBodies(inclusions))
      BY <2>1, <2>2 DEF Equivocation, FindingIf
    <2>4. Finding("equivocation", Whole) \in details[1].findings
      BY <2>3, AuditedIs, ReportIs
    <2> QED BY <2>4, AuditedIs
  <1> QED BY <1>1, EvidenceIInv, PTL

(* A run accepted with a witness, with no entry left unattributable, has   *)
(* shown every checkpoint of the issuer's the log recorded                 *)
(* (audit/src/index.ts:1280-1317).                                         *)
THEOREM EvidenceRecordedIsShown == Spec => []RecordedIsShown
  <1>1. IInv => RecordedIsShown
    <2> SUFFICES ASSUME IInv, Accepted, BodiesBelong,
                        \A i \in DOMAIN details : \A w \in details[i].warnings :
                          w.code # "witness-entry-unattributable",
                        NEW cp \in Issuers(checkpoints), cp.id \in log
                 PROVE  cp \in ShownCheckpoints
      BY DEF RecordedIsShown
    <2> DEFINE C == AttestedOf(1)
    <2>1. /\ 1 \in DOMAIN shown /\ 1 \in DOMAIN details
          /\ details[1].findings = {} /\ Witnessed /\ shown # <<>>
      BY AuditedIs DEF Accepted, IInv, Signed, Audited
    <2>2. cp \in checkpoints /\ Attests(cp)
      BY DEF Issuers, Attests, IInv, Signed, CheckpointDocs
    <2>3. PICK w \in inclusions : w.statement = cp.id
      BY <2>1 DEF IInv, Presentation
    <2>4. cp.id \in Id(Range(C))
      <3>1. CASE w.body = NoHash
        <4>1. \A f \in Warnings(inclusions, C) : f.code # "witness-entry-unattributable"
          BY <2>1, ReportIs DEF Accepted
        <4>2. SUFFICES ASSUME w.statement \notin Id(Range(C)) PROVE FALSE
          BY <2>3
        <4>3. Finding("witness-entry-unattributable", Whole) \in Warnings(inclusions, C)
          BY <2>1, <3>1, <4>2 DEF Warnings, FindingIf
        <4> QED BY <4>1, <4>3 DEF Finding
      <3>2. CASE w.body # NoHash
        <4>1. w.body = cp.id
          BY <2>3, <3>2 DEF BodiesBelong
        <4>2. w \in Accusing(inclusions)
          BY <2>2, <4>1 DEF Accusing
        <4>3. Withheld(inclusions, C) = {}
          BY <2>1, ReportIs DEF Accepted
        <4> QED BY <2>3, <4>2, <4>3 DEF Withheld
      <3> QED BY <3>1, <3>2
    <2>5. PICK j \in DOMAIN C : C[j].id = cp.id
      BY <2>4 DEF Id, Range
    <2>6. j \in DOMAIN shown[1].checkpoints /\ C[j] = shown[1].checkpoints[j]
      BY AttestedTwice DEF AttestedOf
    <2>7. C[j] \in Range(shown[1].checkpoints)
      BY <2>6 DEF Range
    <2>8. C[j] = cp
      BY <2>1, <2>2, <2>5, <2>7, ShownAre, AnEntry
    <2> QED BY <2>1, <2>7, <2>8 DEF ShownCheckpoints
  <1> QED BY <1>1, EvidenceIInv, PTL

-----------------------------------------------------------------------------
(* The walk along the issuer's links.                                      *)

LEMMA WalkExists ==
  ASSUME NEW R, NEW root, NEW N \in Nat
  PROVE  \E walk : walk = [n \in 0 .. N |-> IF n = 0 THEN <<>> ELSE PlaceNext(R, walk[n - 1], root)]
  <1> DEFINE Walks(n, walk) ==
               walk = [k \in 0 .. n |-> IF k = 0 THEN <<>> ELSE PlaceNext(R, walk[k - 1], root)]
             none == {n \in Nat : ~\E walk : Walks(n, walk)}
  <1>1. SUFFICES ASSUME none # {} PROVE FALSE
    OBVIOUS
  <1>2. PICK n \in none : \A m \in none : n <= m
    <2>1. none \in SUBSET Nat
      OBVIOUS
    <2> HIDE DEF none
    <2> QED BY <1>1, <2>1, LeastExists
  <1>3. n \in Nat /\ ~\E walk : Walks(n, walk)
    OBVIOUS
  <1>4. CASE n = 0
    <2> DEFINE f == [k \in 0 .. 0 |-> <<>>]
    <2>1. Walks(0, f)
      <3>1. \A k \in 0 .. 0 : k = 0
        OBVIOUS
      <3> QED BY <3>1
    <2> QED BY <1>3, <1>4, <2>1
  <1>5. CASE n # 0
    <2>1. n - 1 \in Nat /\ n - 1 \notin none
      <3>1. n - 1 \in Nat /\ ~(n <= n - 1)
        BY <1>3, <1>5
      <3> HIDE DEF none
      <3> QED BY <1>2, <3>1
    <2>2. PICK f : Walks(n - 1, f)
      BY <2>1
    <2> DEFINE g == [k \in 0 .. n |-> IF k <= n - 1 THEN f[k] ELSE PlaceNext(R, f[n - 1], root)]
    <2>3. \A k \in 0 .. n : g[k] = IF k = 0 THEN <<>> ELSE PlaceNext(R, g[k - 1], root)
      <3> TAKE k \in 0 .. n
      <3>1. CASE k = n
        <4>1. n - 1 \in 0 .. n /\ ~(n <= n - 1)
          BY <1>3, <2>1
        <4> QED BY <3>1, <4>1, <1>5
      <3>2. CASE k # n
        <4>1. k \in 0 .. n - 1 /\ k <= n - 1 /\ (k # 0 => k - 1 \in 0 .. n /\ k - 1 <= n - 1)
          BY <3>2, <1>3, <2>1
        <4>2. f[k] = IF k = 0 THEN <<>> ELSE PlaceNext(R, f[k - 1], root)
          BY <2>2, <4>1
        <4> QED BY <4>1, <4>2
      <3> QED BY <3>1, <3>2
    <2>4. Walks(n, g)
      <3>1. g = [k \in 0 .. n |-> g[k]]
        OBVIOUS
      <3> HIDE DEF g
      <3> QED BY <2>3, <3>1
    <2> QED BY <1>3, <2>4
  <1> QED BY <1>4, <1>5

(* What holds of nothing placed, and is kept by placing one more, holds of *)
(* the chain.                                                              *)
LEMMA ChainHas ==
  ASSUME NEW R, IsFiniteSet(R), NEW root, NEW G, <<>> \in G[0],
         \A n \in 0 .. Cardinality(R) - 1 : \A placed \in G[n] : PlaceNext(R, placed, root) \in G[n + 1]
  PROVE  IssuerChain(R, root) \in G[Cardinality(R)]
  <1> DEFINE N == Cardinality(R)
  <1>1. N \in Nat
    BY FS_CardinalityType
  <1>2. PICK walk : /\ walk = [n \in 0 .. N |-> IF n = 0 THEN <<>> ELSE PlaceNext(R, walk[n - 1], root)]
                    /\ IssuerChain(R, root) = walk[N]
    <2> DEFINE W == CHOOSE walk : walk = [n \in 0 .. N |->
                                  IF n = 0 THEN <<>> ELSE PlaceNext(R, walk[n - 1], root)]
    <2>1. W = [n \in 0 .. N |-> IF n = 0 THEN <<>> ELSE PlaceNext(R, W[n - 1], root)]
      BY <1>1, WalkExists
    <2>2. IssuerChain(R, root) = W[N]
      BY DEF IssuerChain
    <2> QED BY <2>1, <2>2
  <1> DEFINE bad == {n \in 0 .. N : walk[n] \notin G[n]}
  <1>3. SUFFICES ASSUME bad # {} PROVE FALSE
    BY <1>1, <1>2
  <1>4. PICK n \in bad : \A m \in bad : n <= m
    <2>1. bad \in SUBSET Nat
      BY <1>1
    <2> HIDE DEF bad
    <2> QED BY <1>3, <2>1, LeastExists
  <1>5. n \in 0 .. N /\ walk[n] \notin G[n] /\ n # 0
    BY <1>1, <1>2
  <1>6. n - 1 \in 0 .. N - 1 /\ n - 1 \in 0 .. N /\ n - 1 < n
    BY <1>1, <1>5
  <1>7. walk[n - 1] \in G[n - 1]
    BY <1>4, <1>6
  <1>8. walk[n] = PlaceNext(R, walk[n - 1], root)
    BY <1>2, <1>5
  <1>9. PlaceNext(R, walk[n - 1], root) \in G[n - 1 + 1]
    BY <1>6, <1>7
  <1>10. n - 1 + 1 = n
    BY <1>5
  <1> QED BY <1>5, <1>8, <1>9, <1>10

(* Whatever is walked, what is placed is presented, and nothing else is    *)
(* linked to where a placed receipt is: no document is placed twice.       *)
LEMMA ChainIsSingle ==
  ASSUME NEW R, IsFiniteSet(R), NEW root
  PROVE  /\ IssuerChain(R, root) \in Seq(R)
         /\ \A r, x \in Range(IssuerChain(R, root)) : r.prev = x.prev => r = x
  <1> DEFINE Alone(placed) ==
               \A k \in DOMAIN placed :
                 \A x \in R : x.prev = placed[k].prev => \E j \in 1 .. k : placed[j] = x
             Distinct(placed) == \A j, k \in DOMAIN placed : placed[j] = placed[k] => j = k
             good == {placed \in Seq(R) : Alone(placed) /\ Distinct(placed)}
             G == [n \in Nat |-> good]
  <1>1. <<>> \in good
    OBVIOUS
  <1>2. \A placed \in good : PlaceNext(R, placed, root) \in good
    <2> TAKE placed \in good
    <2>1. CASE ~\E r \in R : Linked(R, placed, root) = {r}
      BY <2>1 DEF PlaceNext
    <2>2. CASE \E r \in R : Linked(R, placed, root) = {r}
      <3>1. PICK r \in R : /\ Linked(R, placed, root) = {r}
                           /\ PlaceNext(R, placed, root) = Append(placed, r)
        BY <2>2 DEF PlaceNext
      <3> DEFINE after == Append(placed, r)
                 n == Len(placed)
      <3>2. /\ n \in Nat /\ DOMAIN placed = 1 .. n /\ after \in Seq(R) /\ DOMAIN after = 1 .. n + 1
            /\ after[n + 1] = r /\ \A k \in 1 .. n : after[k] = placed[k]
        <4>1. placed \in Seq(R) /\ r \in R
          OBVIOUS
        <4>2. n \in Nat /\ DOMAIN placed = 1 .. n
          BY <4>1, LenProperties
        <4> QED BY <4>1, <4>2
      <3>3. r \notin Range(placed) /\ r.prev = HashAfter(placed, root)
            /\ \A x \in R : x.prev = HashAfter(placed, root) /\ x \notin Range(placed) => x = r
        BY <3>1 DEF Linked
      <3> HIDE DEF after
      <3>4. Distinct(after)
        <4>1. \A k \in 1 .. n : placed[k] # r
          BY <3>2, <3>3 DEF Range
        <4>2. \A j, k \in 1 .. n : placed[j] = placed[k] => j = k
          BY <3>2
        <4>3. \A k \in 1 .. n + 1 : k = n + 1 \/ k \in 1 .. n
          BY <3>2
        <4> QED BY <3>2, <4>1, <4>2, <4>3
      <3>5. Alone(after)
        <4> SUFFICES ASSUME NEW k \in 1 .. n + 1, NEW x \in R, x.prev = after[k].prev
                     PROVE  \E j \in 1 .. k : after[j] = x
          BY <3>2
        <4>1. CASE k = n + 1
          <5>1. x = r \/ x \in Range(placed)
            BY <4>1, <3>2, <3>3
          <5>2. CASE x = r
            BY <5>2, <4>1, <3>2
          <5>3. CASE x \in Range(placed)
            <6>1. PICK j \in 1 .. n : placed[j] = x
              BY <5>3, <3>2 DEF Range
            <6>2. j \in 1 .. k /\ after[j] = x
              BY <6>1, <4>1, <3>2
            <6> QED BY <6>2
          <5> QED BY <5>1, <5>2, <5>3
        <4>2. CASE k # n + 1
          <5>1. k \in 1 .. n /\ after[k] = placed[k]
            BY <4>2, <3>2
          <5>2. PICK j \in 1 .. k : placed[j] = x
            BY <5>1, <3>2
          <5>3. j \in 1 .. n
            BY <5>1, <5>2, <3>2
          <5> QED BY <5>2, <5>3, <3>2
        <4> QED BY <4>1, <4>2
      <3>6. after \in good
        <4> HIDE DEF Alone, Distinct
        <4> QED BY <3>2, <3>4, <3>5
      <3> HIDE DEF good
      <3> QED BY <3>1, <3>6 DEF after
    <2> QED BY <2>1, <2>2
  <1> HIDE DEF good
  <1>3. Cardinality(R) \in Nat
    BY FS_CardinalityType
  <1>4. IssuerChain(R, root) \in good
    <2>1. <<>> \in G[0]
      BY <1>1
    <2>2. \A n \in 0 .. Cardinality(R) - 1 : G[n] = good /\ G[n + 1] = good
      BY <1>3
    <2>3. G[Cardinality(R)] = good
      BY <1>3
    <2> HIDE DEF G
    <2>4. IssuerChain(R, root) \in G[Cardinality(R)]
      BY <2>1, <2>2, <1>2, ChainHas
    <2> QED BY <2>3, <2>4
  <1> DEFINE chain == IssuerChain(R, root)
  <1>5. chain \in Seq(R) /\ Alone(chain) /\ Distinct(chain)
    BY <1>4 DEF good
  <1> HIDE DEF chain
  <1>6. \A r, x \in Range(chain) : r.prev = x.prev => r = x
    <2> SUFFICES ASSUME NEW j \in DOMAIN chain, NEW k \in DOMAIN chain, chain[j].prev = chain[k].prev
                 PROVE  chain[j] = chain[k]
      BY DEF Range
    <2>1. DOMAIN chain = 1 .. Len(chain) /\ Len(chain) \in Nat /\ chain[j] \in R /\ chain[k] \in R
      BY <1>5, LenProperties, ElementOfSeq
    <2>2. PICK p \in 1 .. j : chain[p] = chain[k]
      BY <1>5, <2>1
    <2>3. PICK q \in 1 .. k : chain[q] = chain[j]
      BY <1>5, <2>1
    <2>4. p \in DOMAIN chain /\ q \in DOMAIN chain
      BY <2>1
    <2>5. p = k /\ q = j
      BY <1>5, <2>2, <2>3, <2>4
    <2>6. k <= j /\ j <= k
      BY <2>5
    <2> QED BY <2>1, <2>6
  <1> QED BY <1>5, <1>6 DEF chain

-----------------------------------------------------------------------------
(* What an accepted window has been shown.                                 *)

LEMMA ShownFinite ==
  ASSUME IInv, NEW i \in DOMAIN shown
  PROVE  IsFiniteSet(shown[i].receipts)
  <1>1. PICK cut, R, C : PresentedAs(cut, R, C)
    BY ShownAre DEF IInv, Presentation
  <1>2. IsFiniteSet(R)
    <2>1. \A S \in SUBSET receipts : IsFiniteSet(S)
      BY FS_Subset DEF IInv, Signed
    <2>2. \A D \in Doctored : IsFiniteSet(D)
      BY FS_EmptySet, FS_Singleton DEF Doctored
    <2>3. Closed(receipts) \in SUBSET receipts
      BY DEF Closed, Issuers
    <2>4. R \in {S \cup D : S \in SUBSET receipts, D \in Doctored} \cup {Closed(receipts)}
      BY <1>1 DEF PresentedAs, ShowReceipts
    <2>5. CASE R = Closed(receipts)
      BY <2>1, <2>3, <2>5
    <2>6. CASE R \in {S \cup D : S \in SUBSET receipts, D \in Doctored}
      <3>1. PICK S \in SUBSET receipts, D \in Doctored : R = S \cup D
        BY <2>6
      <3>2. IsFiniteSet(S) /\ IsFiniteSet(D)
        BY <2>1, <2>2
      <3> QED BY <3>1, <3>2, FS_Union
    <2> QED BY <2>4, <2>5, <2>6
  <1>3. shown[i].receipts \in SUBSET R
    BY <1>1 DEF PresentedAs
  <1> QED BY <1>2, <1>3, FS_Subset

LEMMA NothingFound ==
  ASSUME IInv, Accepted, NEW i \in DOMAIN shown
  PROVE  /\ IssuerMismatches(ReceiptsOf(i), shown[i].checkpoints) = {}
         /\ AnchorFindings(AnchorOf(i), AttestedOf(i)) = {}
         /\ ReceiptChainBreak(ReceiptsOf(i), RootOf(i)) = {}
         /\ TotalMismatches(Attested(ReceiptsOf(i)), AttestedOf(i), RootOf(i)) = {}
         /\ CheckpointChainBreak(AttestedOf(i), FirstPrev(AnchorOf(i), AttestedOf(i))) = {}
         /\ WindowCoverage(Attested(ReceiptsOf(i)), AttestedOf(i)) = {}
  <1>1. Audited /\ details[i].findings = {}
    BY AuditedIs DEF Accepted
  <1> QED BY <1>1, ReportIs

LEMMA AllAttested ==
  ASSUME IInv, Accepted, NEW i \in DOMAIN shown
  PROVE  /\ AttestedOf(i) = shown[i].checkpoints
         /\ Range(AttestedOf(i)) \subseteq Issuers(checkpoints)
         /\ \A r \in ReceiptsOf(i) : r.by = "issuer"
  <1> DEFINE P == shown[i].checkpoints
  <1>1. IssuerMismatches(ReceiptsOf(i), P) = {}
    BY NothingFound
  <1>2. \A cp \in Range(P) : Attests(cp)
    BY <1>1 DEF IssuerMismatches
  <1>3. \A r \in ReceiptsOf(i) : r.by = "issuer"
    <2>1. \A r \in ReceiptsOf(i) : Attests(r) \/ BelongsToPin(r)
      BY <1>1 DEF IssuerMismatches
    <2>2. NamedByWalk(ReceiptsOf(i), RootOf(i)) = {}
      BY NothingFound DEF ReceiptChainBreak, FindingIf
    <2> QED BY <2>1, <2>2, NothingNamed DEF ChainWalk, Attests
  <1>4. IsSeq(P) /\ Range(P) \subseteq checkpoints
    BY ShownAre
  <1>5. P = [k \in DOMAIN P |-> P[k]]
    BY <1>4, LenProperties DEF IsSeq
  <1>6. \A k \in DOMAIN P : Attests(P[k])
    BY <1>2 DEF Range
  <1> HIDE DEF P
  <1>7. AttestedIn(P) = P
    BY <1>5, <1>6 DEF AttestedIn, Restrict
  <1> QED BY <1>2, <1>3, <1>4, <1>7 DEF P, AttestedOf, Attests, Issuers

(* All receipts shown are on the chain, and so no two are one receipt's.   *)
LEMMA ReceiptsShownOnce ==
  ASSUME IInv, Accepted, NEW i \in DOMAIN shown
  PROVE  Attested(ReceiptsOf(i)) = ReceiptsOf(i) /\ Named(ReceiptsOf(i))
  <1> DEFINE R == ReceiptsOf(i)
             chain == IssuerChain(R, RootOf(i))
  <1>1. ChainWalk(R) = R
    <2>1. IssuerMismatches(R, shown[i].checkpoints) = {}
      BY NothingFound
    <2> QED BY <2>1 DEF IssuerMismatches, ChainWalk
  <1>2. NamedByWalk(R, RootOf(i)) = {}
    BY NothingFound DEF ReceiptChainBreak, FindingIf
  <1>3. R \ Range(chain) = {} /\ \A r \in R : Attests(r)
    BY <1>1, <1>2, NothingNamed
  <1>4. Attested(R) = R
    BY <1>3 DEF Attested
  <1>5. \A r, x \in Range(chain) : r.prev = x.prev => r = x
    <2>1. IsFiniteSet(R)
      BY ShownFinite DEF ReceiptsOf
    <2> HIDE DEF R
    <2> QED BY <2>1, ChainIsSingle
  <1>6. Named(R)
    <2> SUFFICES ASSUME NEW r \in R, NEW x \in R, r.id = x.id PROVE r = x
      BY DEF Named
    <2>1. PICK y \in receipts : y.id = r.id /\ y.prev = r.prev
      BY ShownReceiptsAre DEF ReceiptsOf
    <2>2. PICK z \in receipts : z.id = x.id /\ z.prev = x.prev
      BY ShownReceiptsAre DEF ReceiptsOf
    <2>3. y = z
      BY <2>1, <2>2 DEF IInv, Signed, Named
    <2> QED BY <1>3, <1>5, <2>1, <2>2, <2>3
  <1> QED BY <1>4, <1>6

(* A checkpoint covers the receipts of its epoch.                          *)
LEMMA CoversItsEpoch ==
  ASSUME IInv, NEW cp \in checkpoints, NEW r \in ReceiptDocs
  PROVE  InWindow(r, cp) <=> r.ts = cp.epoch
  <1>1. cp.start = cp.epoch /\ cp.end = cp.epoch + 1 /\ cp.epoch \in Nat /\ r.ts \in Nat
    BY DEF IInv, Signed, CheckpointDocs, ReceiptDocs
  <1> QED BY <1>1 DEF InWindow

LEMMA HonestCloses ==
  ASSUME IInv, IssuerIsHonest, NEW cp \in Issuers(checkpoints)
  PROVE  cp.epoch \in 1 .. open - 1 /\ Closes(cp, cp.epoch)
  <1>1. cp.epoch \in 1 .. open - 1
    BY DEF IInv, Signed
  <1>2. PICK x \in Issuers(checkpoints) : Closes(x, cp.epoch)
    BY <1>1 DEF IInv, Closings
  <1>3. x = cp
    BY <1>2 DEF IssuerIsHonest, Closes
  <1> QED BY <1>1, <1>2, <1>3

(* The receipts shown of an epoch are those that were cut in it.           *)
LEMMA EpochIsWhole ==
  ASSUME IInv, Accepted, IssuerIsHonest, NEW i \in DOMAIN shown, NEW cp \in Range(AttestedOf(i))
  PROVE  Id({r \in ReceiptsOf(i) : r.ts = cp.epoch}) = Id(CutIn(cp.epoch))
  <1> DEFINE S == {r \in ReceiptsOf(i) : r.ts = cp.epoch}
             T == CutIn(cp.epoch)
  <1>1. cp \in Issuers(checkpoints) /\ cp \in checkpoints
    BY AllAttested DEF Issuers
  <1>2. ~Miscounts(cp, {r \in ReceiptsOf(i) : InWindow(r, cp)})
    BY NothingFound, ReceiptsShownOnce DEF TotalMismatches
  <1>3. {r \in ReceiptsOf(i) : InWindow(r, cp)} = S
    BY <1>1, CoversItsEpoch, ShownReceiptsAre DEF ReceiptsOf
  <1>4. cp.count = Cardinality(S) /\ cp.count = Cardinality(T)
    BY <1>1, <1>2, <1>3, HonestCloses DEF Miscounts, Closes
  <1>5. IsFiniteSet(T) /\ T \in SUBSET receipts
    BY FS_Subset DEF IInv, Signed, CutIn, Issuers
  <1> DEFINE f == [r \in S |-> CHOOSE x \in receipts : x.id = r.id]
  <1>6. \A r \in S : f[r] \in T /\ f[r].id = r.id
    <2> SUFFICES ASSUME NEW r \in S PROVE f[r] \in T /\ f[r].id = r.id
      OBVIOUS
    <2>1. PICK x \in receipts : x.id = r.id /\ x.by = r.by /\ x.ts = r.ts
      BY ShownReceiptsAre DEF ReceiptsOf
    <2>2. f[r] = x
      BY <2>1 DEF IInv, Signed, Named
    <2>3. r.by = "issuer" /\ r.ts = cp.epoch
      BY AllAttested
    <2> QED BY <2>1, <2>2, <2>3 DEF CutIn, Issuers
  <1> HIDE DEF f, T
  <1>7. f \in Injection(S, T)
    <2>1. f \in [S -> T]
      BY <1>6 DEF f
    <2>2. \A a, b \in S : f[a] = f[b] => a = b
      <3>1. Named(ReceiptsOf(i))
        BY ReceiptsShownOnce
      <3> QED BY <1>6, <3>1 DEF Named
    <2> HIDE DEF S
    <2> QED BY <2>1, <2>2 DEF Injection, IsInjective
  <1> HIDE DEF S
  <1>8. f \in Surjection(S, T)
    BY <1>4, <1>5, <1>7, FS_Injection
  <1>9. \A x \in T : \E r \in S : f[r] = x
    BY <1>8 DEF Surjection
  <1>10. Id(S) = Id(T)
    BY <1>6, <1>9 DEF Id
  <1> QED BY <1>10 DEF S, T

(* A receipt shown is of an epoch whose checkpoint is shown beside it.     *)
LEMMA EpochIsShown ==
  ASSUME IInv, Accepted, NEW i \in DOMAIN shown, NEW r \in ReceiptsOf(i)
  PROVE  \E cp \in Range(AttestedOf(i)) : cp.epoch = r.ts
  <1> DEFINE C == AttestedOf(i)
  <1>1. Cardinality(Covering(r, C)) = 1
    BY NothingFound, ReceiptsShownOnce DEF WindowCoverage
  <1>2. Covering(r, C) # {}
    BY <1>1, FS_EmptySet
  <1>3. PICK k \in DOMAIN C : InWindow(r, C[k])
    BY <1>2 DEF Covering
  <1>4. C[k] \in Range(C) /\ C[k] \in checkpoints
    BY AllAttested DEF Range, Issuers
  <1>5. r \in ReceiptDocs
    BY ShownReceiptsAre DEF ReceiptsOf
  <1> QED BY <1>3, <1>4, <1>5, CoversItsEpoch

(* What a checkpoint of the issuer is linked to.                           *)
LEMMA LinkIs ==
  ASSUME IInv, NEW cp \in Issuers(checkpoints), NEW prev, cp.prev = prev
  PROVE  /\ cp.epoch \in Nat \ {0} /\ cp.id \in Nat \ {0}
         /\ prev = NoHash => cp.epoch = 1
         /\ \A x \in Issuers(checkpoints) : x.id = prev => cp.epoch = x.epoch + 1
  <1>1. cp.epoch \in Nat \ {0} /\ \A x \in Issuers(checkpoints) : x.epoch \in Nat /\ x.id \in Nat \ {0}
    <2>1. open \in Nat \ {0} /\ cp.epoch \in 1 .. open - 1
      BY DEF IInv, Signed
    <2>2. \A x \in Issuers(checkpoints) : x \in CheckpointDocs
      BY DEF IInv, Signed, Issuers
    <2>3. \A x \in Issuers(checkpoints) : x.epoch \in Nat /\ x.id \in Nat \ {0}
      BY <2>2 DEF CheckpointDocs
    <2>4. cp.epoch \in Nat \ {0}
      BY <2>1
    <2> QED BY <2>3, <2>4
  <1>2. cp.prev \in PrevOf(cp.epoch)
    BY DEF IInv, Closings
  <1>3. CASE cp.epoch = 1
    BY <1>1, <1>2, <1>3 DEF PrevOf, NoHash
  <1>4. CASE cp.epoch # 1
    <2>1. PICK y \in Issuers(checkpoints) : y.epoch = cp.epoch - 1 /\ y.id = prev
      BY <1>2, <1>4 DEF PrevOf, Closing, Id
    <2>2. \A x \in Issuers(checkpoints) : x.id = prev => x = y
      BY <2>1, AnEntry DEF Issuers
    <2>3. cp.epoch = y.epoch + 1 /\ prev # NoHash
      BY <1>1, <2>1 DEF NoHash
    <2> QED BY <1>1, <2>2, <2>3
  <1> QED BY <1>3, <1>4

(* A window's checkpoints go on from where its anchor ends.                *)
EndsAt(last, a) ==
  \/ a = 0 /\ last = NoCheckpoint
  \/ last \in Issuers(checkpoints) /\ last.epoch = a

LEMMA EpochsGoOn ==
  ASSUME IInv, Accepted, NEW i \in DOMAIN shown, NEW a \in Nat, EndsAt(AnchorOf(i), a)
  PROVE  /\ Len(AttestedOf(i)) \in Nat /\ DOMAIN AttestedOf(i) = 1 .. Len(AttestedOf(i))
         /\ \A k \in DOMAIN AttestedOf(i) : AttestedOf(i)[k].epoch = a + k
         /\ Len(AttestedOf(i)) = 0 => a = 0
  <1> DEFINE C == AttestedOf(i)
             anchor == AnchorOf(i)
             n == Len(C)
  <1> USE DEF EndsAt
  <1>1. n \in Nat /\ DOMAIN C = 1 .. n
    BY AllAttested, ShownAre, SeqHas
  <1>2. \A k \in DOMAIN C : C[k] \in Issuers(checkpoints) /\ C[k].prev = HashBefore(C, k, FirstPrev(anchor, C))
    <2>1. \A k \in DOMAIN C : C[k] \in Range(C)
      BY DEF Range
    <2>2. CheckpointChainBreak(C, FirstPrev(anchor, C)) = {}
      BY NothingFound
    <2> QED BY <2>1, <2>2, AllAttested DEF CheckpointChainBreak, FindingIf
  <1>3. anchor # NoCheckpoint => Anchors(anchor, C)
    BY NothingFound DEF AnchorFindings, FindingIf
  <1>4. n = 0 => a = 0
    <2> SUFFICES ASSUME n = 0, AnchorOf(i) \in Issuers(checkpoints) PROVE FALSE
      OBVIOUS
    <2>1. DOMAIN C = {}
      BY <1>1
    <2>2. anchor = NoCheckpoint
      <3> HIDE DEF C, anchor
      <3> QED BY <1>3, <2>1 DEF Anchors
    <2>3. anchor.id # NoHash
      BY AnEntry DEF Issuers
    <2> QED BY <2>2, <2>3 DEF NoCheckpoint, NoHash
  <1>5. FirstPrev(anchor, C) = IF anchor = NoCheckpoint THEN NoHash ELSE anchor.id
    BY <1>3 DEF FirstPrev, Anchors
  <1> HIDE DEF C, anchor
  <1>6. 1 \in DOMAIN C => HashBefore(C, 1, FirstPrev(anchor, C)) = FirstPrev(anchor, C)
    <2>1. {j \in DOMAIN C : j < 1} = {}
      BY <1>1
    <2> QED BY <2>1 DEF HashBefore
  <1>7. \A k \in DOMAIN C \ {1} : HashBefore(C, k, FirstPrev(anchor, C)) = C[k - 1].id
    <2> TAKE k \in DOMAIN C \ {1}
    <2> DEFINE before == {j \in DOMAIN C : j < k}
    <2>1. before \in SUBSET Nat /\ k - 1 \in before /\ \A j \in before : j <= k - 1
      BY <1>1
    <2>2. Max(before) \in before /\ \A j \in before : j <= Max(before)
      <3> HIDE DEF before
      <3>1. k - 1 \in Nat
        BY <2>1
      <3> QED BY <2>1, <3>1, MaxIs
    <2>3. Max(before) = k - 1
      <3> HIDE DEF before
      <3>1. Max(before) \in Nat /\ k - 1 \in Nat
        BY <2>1, <2>2
      <3> QED BY <2>1, <2>2, <3>1
    <2> QED BY <2>1, <2>3 DEF HashBefore
  <1> DEFINE off == {k \in DOMAIN C : C[k].epoch # a + k}
  <1>8. off = {}
    <2> SUFFICES ASSUME off # {} PROVE FALSE
      OBVIOUS
    <2>1. PICK k \in off : \A m \in off : k <= m
      <3>1. off \in SUBSET Nat
        BY <1>1
      <3> HIDE DEF off
      <3> QED BY <3>1, LeastExists
    <2>2. k \in 1 .. n /\ k \in DOMAIN C /\ C[k].epoch # a + k /\ C[k] \in Issuers(checkpoints)
      BY <1>1, <1>2
    <2>3. CASE k = 1
      <3>1. C[1].prev = FirstPrev(anchor, C)
        BY <1>2, <1>6, <2>2, <2>3
      <3>2. CASE anchor = NoCheckpoint
        <4>1. a = 0
          BY <3>2, AnEntry DEF anchor, NoCheckpoint, Issuers
        <4>2. C[1].epoch = 1
          BY <1>5, <2>2, <2>3, <3>1, <3>2, LinkIs
        <4> QED BY <2>2, <2>3, <4>1, <4>2
      <3>3. CASE anchor # NoCheckpoint
        <4>1. anchor \in Issuers(checkpoints) /\ anchor.epoch = a
          BY <3>3 DEF anchor
        <4>2. C[1].epoch = a + 1
          BY <1>5, <2>2, <2>3, <3>1, <3>3, <4>1, LinkIs
        <4> QED BY <2>2, <2>3, <4>2
      <3> QED BY <3>2, <3>3
    <2>4. CASE k # 1
      <3>1. k - 1 \in DOMAIN C /\ ~(k <= k - 1)
        BY <1>1, <2>2, <2>4
      <3>2. C[k - 1].epoch = a + (k - 1)
        BY <2>1, <3>1
      <3>3. C[k].epoch = C[k - 1].epoch + 1
        BY <1>2, <1>7, <2>2, <2>4, <3>1, LinkIs
      <3> QED BY <2>2, <3>2, <3>3
    <2> QED BY <2>3, <2>4
  <1> QED BY <1>1, <1>4, <1>8 DEF C

LEMMA LastGoesOn ==
  ASSUME IInv, Accepted, NEW i \in DOMAIN shown, NEW a \in Nat, EndsAt(AnchorOf(i), a)
  PROVE  EndsAt(details[i].last, a + Len(AttestedOf(i)))
  <1> DEFINE C == AttestedOf(i)
             n == Len(C)
  <1>1. details[i].last = LastAttested(C)
    BY ReportIs DEF Accepted
  <1>2. n \in Nat /\ DOMAIN C = 1 .. n /\ (\A k \in DOMAIN C : C[k].epoch = a + k) /\ (n = 0 => a = 0)
    BY EpochsGoOn
  <1>3. \A k \in DOMAIN C : C[k] \in Issuers(checkpoints)
    BY AllAttested DEF Range
  <1> SUFFICES EndsAt(details[i].last, a + n)
    OBVIOUS
  <1> HIDE DEF C
  <1>4. CASE n = 0
    <2>1. DOMAIN C = {}
      BY <1>2, <1>4
    <2> QED BY <1>1, <1>2, <1>4, <2>1 DEF LastAttested, EndsAt
  <1>5. CASE n # 0
    <2> DEFINE Latest(k) == \A j \in DOMAIN C : IF j < k THEN C[j].epoch < C[k].epoch
                                                       ELSE C[j].epoch <= C[k].epoch
    <2>1. n \in DOMAIN C
      BY <1>2, <1>5
    <2>2. Latest(n)
      <3> SUFFICES ASSUME NEW j \in DOMAIN C
                   PROVE  IF j < n THEN C[j].epoch < C[n].epoch ELSE C[j].epoch <= C[n].epoch
        OBVIOUS
      <3>1. C[j].epoch = a + j /\ C[n].epoch = a + n /\ j <= n /\ j \in Nat
        BY <1>2, <2>1
      <3> QED BY <3>1, <1>2
    <2>3. \A k \in DOMAIN C : Latest(k) => k = n
      <3> SUFFICES ASSUME NEW k \in DOMAIN C, Latest(k) PROVE k = n
        OBVIOUS
      <3>1. C[k].epoch = a + k /\ C[n].epoch = a + n /\ k <= n /\ k \in Nat
        BY <1>2, <2>1
      <3>2. ~(n < k)
        BY <3>1, <1>2
      <3>3. C[n].epoch <= C[k].epoch
        BY <2>1, <3>2
      <3> QED BY <3>1, <3>3, <1>2
    <2>4. LastAttested(C) = C[CHOOSE k \in DOMAIN C : Latest(k)]
      BY <2>1 DEF LastAttested
    <2> HIDE DEF Latest
    <2>5. (CHOOSE k \in DOMAIN C : Latest(k)) = n
      BY <2>1, <2>2, <2>3
    <2> QED BY <1>1, <1>2, <1>3, <2>1, <2>4, <2>5 DEF EndsAt
  <1> QED BY <1>4, <1>5

(* The epochs of the windows so far are the first ones.                    *)
EpochsTo(i) == {cp.epoch : cp \in UNION {Range(AttestedOf(j)) : j \in 1 .. i}}

LEMMA EpochsAreFirst ==
  ASSUME IInv, Accepted, NEW i \in 0 .. Len(shown)
  PROVE  \E k \in Nat : EpochsTo(i) = 1 .. k /\ (i < Len(shown) => EndsAt(AnchorOf(i + 1), k))
  <1> DEFINE N == Len(shown)
             FirstOnes(m) == \E k \in Nat : EpochsTo(m) = 1 .. k /\ (m < N => EndsAt(AnchorOf(m + 1), k))
             bad == {m \in 0 .. N : ~FirstOnes(m)}
  <1>1. N \in Nat /\ DOMAIN shown = 1 .. N
    BY AuditedIs DEF Accepted
  <1>2. SUFFICES ASSUME bad # {} PROVE FALSE
    OBVIOUS
  <1>3. PICK m \in bad : \A p \in bad : m <= p
    <2>1. bad \in SUBSET Nat
      BY <1>1
    <2> HIDE DEF bad
    <2> QED BY <1>2, <2>1, LeastExists
  <1>4. m \in 0 .. N /\ ~FirstOnes(m)
    OBVIOUS
  <1>5. CASE m = 0
    <2>1. EpochsTo(0) = {}
      BY DEF EpochsTo
    <2>2. EndsAt(AnchorOf(0 + 1), 0)
      BY DEF AnchorOf, EndsAt
    <2>3. {} = 1 .. 0 /\ 0 \in Nat
      OBVIOUS
    <2> QED BY <1>4, <1>5, <2>1, <2>2, <2>3
  <1>6. CASE m # 0
    <2>1. m - 1 \in 0 .. N /\ m - 1 < N /\ ~(m <= m - 1) /\ m - 1 + 1 = m /\ m \in DOMAIN shown
      BY <1>1, <1>4, <1>6
    <2>2. FirstOnes(m - 1)
      <3>1. m - 1 \notin bad
        <4> HIDE DEF bad
        <4> QED BY <1>3, <2>1
      <3> QED BY <2>1, <3>1
    <2>3. PICK a \in Nat : EpochsTo(m - 1) = 1 .. a /\ EndsAt(AnchorOf(m), a)
      BY <2>1, <2>2
    <2> DEFINE C == AttestedOf(m)
               n == Len(C)
    <2>4. n \in Nat /\ DOMAIN C = 1 .. n /\ \A k \in DOMAIN C : C[k].epoch = a + k
      BY <2>1, <2>3, EpochsGoOn
    <2>5. EndsAt(details[m].last, a + n)
      BY <2>1, <2>3, LastGoesOn
    <2>6. EpochsTo(m) = EpochsTo(m - 1) \cup {C[k].epoch : k \in DOMAIN C}
      <3>1. 1 .. m = 1 .. m - 1 \cup {m}
        BY <1>4, <1>6
      <3>2. UNION {Range(AttestedOf(j)) : j \in 1 .. m}
              = (UNION {Range(AttestedOf(j)) : j \in 1 .. m - 1}) \cup Range(AttestedOf(m))
        BY <3>1
      <3>3. Range(C) = {C[k] : k \in DOMAIN C}
        BY DEF Range
      <3> QED BY <3>2, <3>3 DEF EpochsTo
    <2> HIDE DEF C
    <2>7. {C[k].epoch : k \in DOMAIN C} = a + 1 .. a + n
      <3>1. \A e \in a + 1 .. a + n : e - a \in DOMAIN C /\ a + (e - a) = e
        BY <2>3, <2>4
      <3>2. \A k \in DOMAIN C : C[k].epoch \in a + 1 .. a + n
        BY <2>3, <2>4
      <3>3. \A e \in a + 1 .. a + n : \E k \in DOMAIN C : e = C[k].epoch
        <4> TAKE e \in a + 1 .. a + n
        <4>1. C[e - a].epoch = a + (e - a)
          BY <2>4, <3>1
        <4> QED BY <3>1, <4>1
      <3> QED BY <3>2, <3>3
    <2>8. 1 .. a \cup (a + 1 .. a + n) = 1 .. a + n /\ a + n \in Nat
      BY <2>3, <2>4
    <2>9. EpochsTo(m) = 1 .. a + n
      BY <2>3, <2>6, <2>7, <2>8
    <2>10. AnchorOf(m + 1) = details[m].last
      <3>1. m + 1 # 1 /\ m + 1 - 1 = m
        BY <1>4, <1>6
      <3> QED BY <3>1 DEF AnchorOf
    <2> QED BY <1>4, <2>5, <2>8, <2>9, <2>10
  <1> QED BY <1>5, <1>6

(* What an accepted run says of an issuer that told one story: what is     *)
(* presented is all it cut in its first epochs, each receipt once          *)
(* (audit/src/index.ts:1047-1192, windows.ts:119-148).                     *)
THEOREM EvidenceAcceptedIsComplete == Spec => []AcceptedIsComplete
  <1>1. IInv => AcceptedIsComplete
    <2> SUFFICES ASSUME IInv, Accepted, IssuerIsHonest
                 PROVE  LET epochs == {cp.epoch : cp \in ShownCheckpoints}
                        IN  /\ epochs = 1 .. Cardinality(epochs)
                            /\ Id(ShownReceipts) = Id({r \in Issuers(receipts) : r.ts \in epochs})
                            /\ \A r, x \in ShownReceipts : r.id = x.id => r = x
      BY DEF AcceptedIsComplete
    <2> DEFINE epochs == {cp.epoch : cp \in ShownCheckpoints}
    <2>1. Len(shown) \in 0 .. Len(shown) /\ DOMAIN shown = 1 .. Len(shown)
      BY AuditedIs DEF Accepted
    <2>2. \A i \in DOMAIN shown : Range(AttestedOf(i)) = Range(shown[i].checkpoints)
      BY AllAttested
    <2>3. epochs = EpochsTo(Len(shown))
      BY <2>1, <2>2 DEF EpochsTo, ShownCheckpoints
    <2>4. \A e : e \in epochs <=> \E i \in DOMAIN shown : \E cp \in Range(AttestedOf(i)) : cp.epoch = e
      BY <2>2 DEF ShownCheckpoints
    <2> HIDE DEF epochs
    <2>5. epochs = 1 .. Cardinality(epochs)
      <3>1. PICK k \in Nat : epochs = 1 .. k
        BY <2>1, <2>3, EpochsAreFirst
      <3>2. Cardinality(epochs) = k
        BY <3>1, FS_Interval
      <3> QED BY <3>1, <3>2
    <2>6. \A r : r \in ShownReceipts <=> \E i \in DOMAIN shown : r \in ReceiptsOf(i)
      BY DEF ShownReceipts, ReceiptsOf
    <2>7. Id(ShownReceipts) = Id({r \in Issuers(receipts) : r.ts \in epochs})
      <3>1. \A r \in ShownReceipts : \E x \in Issuers(receipts) : x.id = r.id /\ x.ts \in epochs
        <4> TAKE r \in ShownReceipts
        <4>1. PICK i \in DOMAIN shown : r \in ReceiptsOf(i)
          BY <2>6
        <4>2. PICK cp \in Range(AttestedOf(i)) : cp.epoch = r.ts
          BY <4>1, EpochIsShown
        <4>3. PICK x \in receipts : x.id = r.id /\ x.by = r.by /\ x.ts = r.ts
          BY <4>1, ShownReceiptsAre DEF ReceiptsOf
        <4>4. r.by = "issuer"
          BY <4>1, AllAttested
        <4> QED BY <4>1, <4>2, <4>3, <4>4, <2>4 DEF Issuers
      <3>2. \A x \in Issuers(receipts) : x.ts \in epochs => \E r \in ShownReceipts : r.id = x.id
        <4> SUFFICES ASSUME NEW x \in Issuers(receipts), x.ts \in epochs
                     PROVE  \E r \in ShownReceipts : r.id = x.id
          OBVIOUS
        <4>1. PICK i \in DOMAIN shown : \E cp \in Range(AttestedOf(i)) : cp.epoch = x.ts
          BY <2>4
        <4>2. PICK cp \in Range(AttestedOf(i)) : cp.epoch = x.ts
          BY <4>1
        <4>3. Id({r \in ReceiptsOf(i) : r.ts = cp.epoch}) = Id(CutIn(cp.epoch))
          BY EpochIsWhole
        <4>4. x.id \in Id(CutIn(cp.epoch))
          BY <4>2 DEF CutIn, Id
        <4> QED BY <4>3, <4>4, <2>6 DEF Id
      <3> QED BY <3>1, <3>2 DEF Id
    <2>8. \A r, x \in ShownReceipts : r.id = x.id => r = x
      <3> SUFFICES ASSUME NEW r \in ShownReceipts, NEW x \in ShownReceipts, r.id = x.id
                   PROVE  r = x
        OBVIOUS
      <3>1. PICK i \in DOMAIN shown : r \in ReceiptsOf(i)
        BY <2>6
      <3>2. PICK j \in DOMAIN shown : x \in ReceiptsOf(j)
        BY <2>6
      <3>3. PICK y \in receipts : y.id = r.id /\ y.ts = r.ts
        BY <3>1, ShownReceiptsAre DEF ReceiptsOf
      <3>4. PICK z \in receipts : z.id = x.id /\ z.ts = x.ts
        BY <3>2, ShownReceiptsAre DEF ReceiptsOf
      <3>5. r.ts = x.ts
        BY <3>3, <3>4 DEF IInv, Signed, Named
      <3>6. i = j
        BY <3>1, <3>2, <3>5, ShownReceiptsAre DEF ReceiptsOf
      <3> QED BY <3>1, <3>2, <3>6, ReceiptsShownOnce DEF Named
    <2> QED BY <2>5, <2>7, <2>8 DEF epochs
  <1> QED BY <1>1, EvidenceIInv, PTL

-----------------------------------------------------------------------------
(* An unbroken line of receipts is placed whole, in its order.             *)

Before(R, r) == {x \in R : x.id < r.id}

InLine(R, root) ==
  \A r \in R : r.prev = IF Before(R, r) = {} THEN root ELSE HeadOf(Before(R, r))

LEMMA HeadIs ==
  ASSUME Signed, NEW S \in SUBSET receipts, NEW h \in Id(S), \A x \in S : x.id <= h
  PROVE  HeadOf(S) = h
  <1>1. S # {} /\ Id(S) \in SUBSET Nat
    BY DEF Id, Signed, ReceiptDocs
  <1>2. HeadOf(S) \in Id(S) /\ \A x \in S : x.id <= HeadOf(S)
    BY <1>1, HeadOfReceipts
  <1>3. HeadOf(S) <= h /\ h <= HeadOf(S)
    BY <1>2 DEF Id
  <1> QED BY <1>1, <1>2, <1>3

LEMMA NextInLine ==
  ASSUME Signed, NEW R \in SUBSET receipts, NEW root, root \notin Id(R), InLine(R, root),
         NEW p, IsSeq(p), Range(p) \subseteq R, Range(p) # R,
         \A j, k \in DOMAIN p : j < k => p[j].id < p[k].id,
         \A x \in Range(p) : Before(R, x) \subseteq Range(p)
  PROVE  \E m \in R : /\ PlaceNext(R, p, root) = Append(p, m)
                      /\ Before(R, m) = Range(p)
  <1> DEFINE rest == R \ Range(p)
             n == Len(p)
  <1>1. \A x \in R : x.id \in Nat /\ \A y \in R : y.id = x.id => y = x
    BY DEF Signed, ReceiptDocs, Named
  <1>2. n \in Nat /\ DOMAIN p = 1 .. n
    BY SeqHas
  <1>3. PICK m \in rest : \A x \in rest : m.id <= x.id
    <2>1. Id(rest) \in SUBSET Nat /\ Id(rest) # {}
      BY <1>1 DEF Id
    <2>2. PICK b \in Id(rest) : \A c \in Id(rest) : b <= c
      <3> HIDE DEF rest
      <3> QED BY <2>1, LeastExists
    <2>3. PICK d \in rest : d.id = b
      BY <2>2 DEF Id
    <2> QED BY <2>2, <2>3 DEF Id
  <1>4. m \in R /\ m \notin Range(p)
    OBVIOUS
  <1>5. Before(R, m) = Range(p)
    <2>1. \A x \in R : x \notin Range(p) => ~(x.id < m.id)
      BY <1>1, <1>3, <1>4
    <2>2. \A x \in Range(p) : x.id < m.id
      <3> TAKE x \in Range(p)
      <3>1. x # m /\ x \in R /\ m \notin Before(R, x)
        BY <1>4
      <3>2. ~(m.id < x.id) /\ m.id # x.id
        BY <1>1, <1>4, <3>1 DEF Before
      <3> QED BY <1>1, <1>4, <3>1, <3>2
    <2> QED BY <2>1, <2>2 DEF Before
  <1>6. HashAfter(p, root) = IF n = 0 THEN root ELSE p[n].id
    <2>1. p = <<>> <=> n = 0
      BY EmptySeq DEF IsSeq
    <2> QED BY <2>1 DEF HashAfter, Last
  <1>7. n = 0 => Range(p) = {}
    BY <1>2 DEF Range
  <1>8. n # 0 => n \in DOMAIN p /\ p[n] \in Range(p) /\ \A x \in Range(p) : x.id <= p[n].id
    <2> HAVE n # 0
    <2>1. n \in DOMAIN p
      BY <1>2
    <2>2. p[n] \in Range(p)
      BY <2>1 DEF Range
    <2>3. \A x \in Range(p) : x.id <= p[n].id
      <3> TAKE x \in Range(p)
      <3>1. PICK k \in DOMAIN p : p[k] = x
        BY DEF Range
      <3>2. k = n \/ k < n
        BY <1>2, <3>1
      <3>3. k < n => p[k].id < p[n].id
        BY <2>1, <3>1
      <3> QED BY <1>1, <2>2, <3>1, <3>2, <3>3
    <2> QED BY <2>1, <2>2, <2>3
  <1>9. m.prev = HashAfter(p, root)
    <2>1. m.prev = IF Range(p) = {} THEN root ELSE HeadOf(Range(p))
      BY <1>4, <1>5 DEF InLine
    <2>2. CASE n = 0
      BY <1>6, <1>7, <2>1, <2>2
    <2>3. CASE n # 0
      <3>1. p[n].id \in Id(Range(p)) /\ Range(p) \in SUBSET receipts
        BY <1>8, <2>3 DEF Id
      <3>2. HeadOf(Range(p)) = p[n].id
        BY <1>8, <2>3, <3>1, HeadIs
      <3> QED BY <1>6, <1>8, <2>1, <2>3, <3>2
    <2> QED BY <2>2, <2>3
  <1>10. \A r \in rest : r.prev = HashAfter(p, root) => r = m
    <2> SUFFICES ASSUME NEW r \in rest, r.prev = HashAfter(p, root), r # m PROVE FALSE
      OBVIOUS
    <2>1. r \in R /\ m.id < r.id
      BY <1>1, <1>3, <1>4
    <2>2. m \in Before(R, r) /\ Before(R, r) \in SUBSET receipts
      BY <1>4, <2>1 DEF Before
    <2>3. r.prev = HeadOf(Before(R, r))
      BY <2>1, <2>2 DEF InLine
    <2>4. r.prev \in Id(R) /\ m.id <= r.prev
      <3>1. r.prev \in Id(Before(R, r)) /\ m.id <= r.prev
        BY <2>2, <2>3, HeadOfReceipts
      <3> QED BY <3>1 DEF Id, Before
    <2>5. n # 0
      BY <1>6, <2>4
    <2>6. p[n].id < m.id /\ p[n] \in R
      BY <1>5, <1>8, <2>5 DEF Before
    <2> QED BY <1>1, <1>4, <1>6, <2>4, <2>5, <2>6
  <1>11. Linked(R, p, root) = {m}
    BY <1>4, <1>9, <1>10 DEF Linked
  <1>12. PlaceNext(R, p, root) = Append(p, m)
    BY <1>4, <1>11 DEF PlaceNext
  <1> QED BY <1>4, <1>5, <1>12

LEMMA ChainIsWhole ==
  ASSUME Signed, NEW R \in SUBSET receipts, NEW root, root \notin Id(R), InLine(R, root)
  PROVE  /\ IsSeq(IssuerChain(R, root)) /\ Range(IssuerChain(R, root)) = R
         /\ \A j, k \in DOMAIN IssuerChain(R, root) :
              j < k => IssuerChain(R, root)[j].id < IssuerChain(R, root)[k].id
  <1> DEFINE N == Cardinality(R)
             Rising(p) == \A j, k \in DOMAIN p : j < k => p[j].id < p[k].id
             Complete(p) == \A x \in Range(p) : Before(R, x) \subseteq Range(p)
             Line(n) == {p \in Seq(R) : Len(p) = n /\ Rising(p) /\ Complete(p)}
             G == [n \in Nat |-> Line(n)]
  <1>1. IsFiniteSet(R) /\ N \in Nat
    BY FS_Subset, FS_CardinalityType DEF Signed
  <1>2. \A x \in R : x.id \in Nat
    BY DEF Signed, ReceiptDocs
  <1>3. \A n, p : p \in Line(n) => IsSeq(p) /\ Range(p) \subseteq R /\ n \in Nat /\ DOMAIN p = 1 .. n
                                  /\ Rising(p) /\ Complete(p)
    <2> SUFFICES ASSUME NEW n, NEW p \in Seq(R), Len(p) = n
                 PROVE  IsSeq(p) /\ Range(p) \subseteq R /\ n \in Nat /\ DOMAIN p = 1 .. n
      OBVIOUS
    <2>1. Len(p) \in Nat /\ DOMAIN p = 1 .. Len(p) /\ (\A k \in DOMAIN p : p[k] \in R)
          /\ p = [k \in 1 .. Len(p) |-> p[k]]
      BY LenProperties, ElementOfSeq
    <2>2. IsSeq(p)
      BY <2>1, FnIsSeq
    <2> QED BY <2>1, <2>2 DEF Range
  <1>4. <<>> \in Line(0)
    BY DEF Range
  <1>5. \A n \in 0 .. N - 1 : \A p \in Line(n) : PlaceNext(R, p, root) \in Line(n + 1)
    <2> SUFFICES ASSUME NEW n \in 0 .. N - 1, NEW p \in Line(n)
                 PROVE  PlaceNext(R, p, root) \in Line(n + 1)
      OBVIOUS
    <2>1. /\ IsSeq(p) /\ Range(p) \subseteq R /\ n \in Nat /\ DOMAIN p = 1 .. n
          /\ Rising(p) /\ Complete(p) /\ Len(p) = n /\ p \in Seq(R)
      BY <1>3
    <2>2. Range(p) # R
      <3> SUFFICES ASSUME Range(p) = R PROVE FALSE
        OBVIOUS
      <3>1. p \in Surjection(1 .. n, R)
        <4>1. p \in [1 .. n -> R]
          BY <2>1
        <4>2. \A x \in R : \E k \in 1 .. n : p[k] = x
          BY <2>1 DEF Range
        <4> QED BY <4>1, <4>2 DEF Surjection
      <3>2. IsFiniteSet(1 .. n) /\ Cardinality(1 .. n) = n
        BY <2>1, FS_Interval
      <3>3. N <= n
        BY <3>1, <3>2, FS_Surjection
      <3> QED BY <1>1, <2>1, <3>3
    <2> HIDE DEF Line, N
    <2>3. PICK m \in R : PlaceNext(R, p, root) = Append(p, m) /\ Before(R, m) = Range(p)
      BY <2>1, <2>2, NextInLine
    <2> DEFINE after == Append(p, m)
    <2>4. /\ after \in Seq(R) /\ Len(after) = n + 1 /\ DOMAIN after = 1 .. n + 1
          /\ after[n + 1] = m /\ \A k \in 1 .. n : after[k] = p[k]
      <3>1. after \in Seq(R) /\ Len(after) = n + 1 /\ after[n + 1] = m
            /\ \A k \in 1 .. n : after[k] = p[k]
        BY <2>1
      <3> HIDE DEF after
      <3> QED BY <3>1, LenProperties
    <2> HIDE DEF after
    <2>5. \A k \in 1 .. n + 1 : k = n + 1 \/ k \in 1 .. n
      BY <2>1
    <2>6. Range(after) = Range(p) \cup {m}
      <3>1. 1 .. n + 1 = (1 .. n) \cup {n + 1}
        BY <2>1
      <3>2. \A k \in 1 .. n : p[k] \in Range(p) /\ after[k] = p[k]
        BY <2>1, <2>4 DEF Range
      <3>3. Range(after) = {after[k] : k \in 1 .. n + 1} /\ Range(p) = {p[k] : k \in 1 .. n}
        BY <2>1, <2>4 DEF Range
      <3>4. \A x \in Range(after) : x \in Range(p) \/ x = m
        BY <2>4, <2>5, <3>2, <3>3
      <3>5. \A x \in Range(p) : x \in Range(after)
        <4> TAKE x \in Range(p)
        <4>1. PICK k \in 1 .. n : p[k] = x
          BY <3>3
        <4>2. k \in 1 .. n + 1 /\ after[k] = x
          BY <2>4, <3>1, <4>1
        <4> QED BY <3>3, <4>2
      <3>6. m \in Range(after)
        <4>1. n + 1 \in 1 .. n + 1
          BY <2>1
        <4> QED BY <2>4, <3>3, <4>1
      <3> QED BY <3>4, <3>5, <3>6
    <2>7. Rising(after)
      <3> SUFFICES ASSUME NEW j \in 1 .. n + 1, NEW k \in 1 .. n + 1, j < k
                   PROVE  after[j].id < after[k].id
        BY <2>4
      <3>1. j \in 1 .. n /\ p[j] \in Range(p) /\ after[j] = p[j]
        <4>1. j \in 1 .. n
          BY <2>1
        <4> QED BY <4>1, <2>1, <2>4 DEF Range
      <3>2. CASE k = n + 1
        <4>1. p[j] \in Before(R, m)
          BY <2>3, <3>1
        <4> QED BY <2>4, <3>1, <3>2, <4>1 DEF Before
      <3>3. CASE k \in 1 .. n
        BY <2>1, <2>4, <3>1, <3>3
      <3> QED BY <2>5, <3>2, <3>3
    <2>8. Complete(after)
      <3> SUFFICES ASSUME NEW x \in Range(p) \cup {m} PROVE Before(R, x) \subseteq Range(p)
        BY <2>6
      <3> QED BY <2>1, <2>3
    <2>9. after \in Line(n + 1)
      BY <2>4, <2>7, <2>8 DEF Line
    <2> QED BY <2>3, <2>9 DEF after
  <1> DEFINE chain == IssuerChain(R, root)
  <1>6. chain \in Line(N)
    <2> HIDE DEF Line
    <2>1. \A n \in Nat : G[n] = Line(n)
      OBVIOUS
    <2>2. \A n \in 0 .. N - 1 : n \in Nat /\ n + 1 \in Nat
      BY <1>1
    <2>3. 0 \in Nat
      OBVIOUS
    <2>4. <<>> \in G[0] /\ \A n \in 0 .. N - 1 : \A p \in G[n] : PlaceNext(R, p, root) \in G[n + 1]
      <3> HIDE DEF G
      <3> QED BY <1>4, <1>5, <2>1, <2>2, <2>3
    <2> HIDE DEF G
    <2>5. chain \in G[N]
      BY <1>1, <2>4, ChainHas
    <2> QED BY <1>1, <2>1, <2>5
  <1> HIDE DEF chain, Line
  <1>7. /\ IsSeq(chain) /\ Range(chain) \subseteq R /\ DOMAIN chain = 1 .. N /\ Rising(chain)
    BY <1>3, <1>6
  <1>8. Range(chain) = R
    <2>1. \A k \in 1 .. N : chain[k] \in R
      BY <1>7 DEF Range
    <2>2. \A j, k \in 1 .. N : chain[j] = chain[k] => j = k
      <3> SUFFICES ASSUME NEW j \in 1 .. N, NEW k \in 1 .. N, chain[j] = chain[k], j # k PROVE FALSE
        OBVIOUS
      <3>1. chain[j].id \in Nat /\ chain[k].id = chain[j].id
        BY <1>2, <2>1
      <3>2. j < k \/ k < j
        BY <1>1
      <3> QED BY <1>7, <3>1, <3>2
    <2>3. chain \in Injection(1 .. N, R)
      <3>1. chain = [k \in DOMAIN chain |-> chain[k]]
        BY <1>7, LenProperties DEF IsSeq
      <3> QED BY <1>7, <2>1, <2>2, <3>1 DEF Injection, IsInjective
    <2>4. Cardinality(1 .. N) = Cardinality(R)
      BY <1>1, FS_Interval
    <2>5. chain \in Surjection(1 .. N, R)
      BY <1>1, <2>3, <2>4, FS_Injection
    <2> QED BY <1>7, <2>5 DEF Surjection, Range
  <1> QED BY <1>7, <1>8 DEF chain

-----------------------------------------------------------------------------
(* An honest issuer, all of whose evidence is shown.                       *)

HonestlyShown ==
  /\ Audited /\ IssuerIsHonest /\ AllIsShown
  /\ \A i \in DOMAIN shown : i # 1 => \A epoch \in 1 .. open - 1 : CutIn(epoch) # {}

EpochsIn(i) == {cp.epoch : cp \in Range(AttestedOf(i))}

(* The windows are consecutive groups of the closed epochs, each with its  *)
(* receipts and its checkpoints, these in the order of their epochs.       *)
LEMMA HonestWindows ==
  ASSUME IInv, HonestlyShown
  PROVE  /\ \A i \in DOMAIN shown :
              /\ EpochsIn(i) # {} /\ EpochsIn(i) \subseteq 1 .. open - 1
              /\ AttestedOf(i) = shown[i].checkpoints /\ IsSeq(AttestedOf(i))
              /\ Range(AttestedOf(i)) = {cp \in Issuers(checkpoints) : cp.epoch \in EpochsIn(i)}
              /\ ReceiptsOf(i) = {r \in Issuers(receipts) : r.ts \in EpochsIn(i)}
              /\ \A j, k \in DOMAIN AttestedOf(i) : j < k => AttestedOf(i)[j].epoch < AttestedOf(i)[k].epoch
         /\ \A epoch \in 1 .. open - 1 : \E i \in DOMAIN shown : epoch \in EpochsIn(i)
         /\ \A i, j \in DOMAIN shown : i < j => \A e \in EpochsIn(i), f \in EpochsIn(j) : e < f
  <1>1. DOMAIN shown = 1 .. Len(shown) /\ Len(shown) \in Nat /\ shown # <<>>
    BY AuditedIs DEF HonestlyShown, Audited
  <1>2. PICK cut, R, C : PresentedAs(cut, R, C)
    BY <1>1 DEF IInv, Presentation
  <1> DEFINE P(i) == shown[i].checkpoints
  <1>3. /\ DOMAIN shown = DOMAIN cut /\ UNION Range(cut) = 1 .. open - 1
        /\ \A i \in DOMAIN shown : cut[i] # {}
        /\ \A i, j \in DOMAIN shown : i < j => \A e \in cut[i], f \in cut[j] : e < f
        /\ \A i \in DOMAIN shown : ReceiptsOf(i) = {r \in R : r.ts \in cut[i]}
        /\ \A i \in DOMAIN shown : P(i) \in Orders({cp \in C : cp.epoch \in cut[i]})
        /\ C \in SUBSET checkpoints
    BY <1>2 DEF PresentedAs, Cuts, ReceiptsOf
  <1>4. \A i \in DOMAIN shown : IsSeq(P(i)) /\ Range(P(i)) = {cp \in C : cp.epoch \in cut[i]}
    <2> TAKE i \in DOMAIN shown
    <2> DEFINE S == {cp \in C : cp.epoch \in cut[i]}
    <2>1. IsFiniteSet(S)
      BY <1>3, FS_Subset DEF IInv, Signed
    <2>2. P(i) \in Orders(S)
      BY <1>3
    <2> HIDE DEF S
    <2>3. IsSeq(P(i)) /\ Range(P(i)) = S
      BY <2>1, <2>2, OrdersHave
    <2> QED BY <2>3 DEF S
  <1>5. /\ ShownReceipts = Closed(receipts) /\ ShownCheckpoints = Issuers(checkpoints)
        /\ \A i \in DOMAIN shown : \A j, k \in DOMAIN P(i) : j < k => P(i)[j].epoch < P(i)[k].epoch
    BY DEF HonestlyShown, AllIsShown
  <1>6. \A cp \in checkpoints : cp.intact
    BY DEF IInv, Signed, CheckpointDocs
  <1>7. \A i \in DOMAIN shown : AttestedOf(i) = P(i)
    <2> TAKE i \in DOMAIN shown
    <2>1. \A cp \in Range(P(i)) : cp \in Issuers(checkpoints)
      BY <1>5 DEF ShownCheckpoints
    <2>2. \A k \in DOMAIN P(i) : Attests(P(i)[k])
      BY <2>1, <1>6 DEF Range, Issuers, Attests
    <2>3. P(i) = [k \in DOMAIN P(i) |-> P(i)[k]]
      BY <1>4, LenProperties DEF IsSeq
    <2> HIDE DEF P
    <2>4. AttestedIn(P(i)) = P(i)
      BY <2>2, <2>3 DEF AttestedIn, Restrict
    <2> QED BY <2>4 DEF AttestedOf, P
  <1>8. \A i \in DOMAIN shown : Range(P(i)) = {cp \in Issuers(checkpoints) : cp.epoch \in cut[i]}
    <2> TAKE i \in DOMAIN shown
    <2>1. \A cp \in Range(P(i)) : cp \in Issuers(checkpoints) /\ cp.epoch \in cut[i]
      BY <1>4, <1>5 DEF ShownCheckpoints
    <2>2. ASSUME NEW cp \in Issuers(checkpoints), cp.epoch \in cut[i] PROVE cp \in Range(P(i))
      <3>1. PICK j \in DOMAIN shown : cp \in Range(P(j))
        BY <1>5 DEF ShownCheckpoints
      <3>2. cp \in C
        BY <1>4, <3>1
      <3> QED BY <1>4, <2>2, <3>2
    <2> QED BY <2>1, <2>2
  <1>9. \A i \in DOMAIN shown : \A e \in cut[i] : e \in 1 .. open - 1
    BY <1>3 DEF Range
  <1>10. \A i \in DOMAIN shown : EpochsIn(i) = cut[i]
    <2> TAKE i \in DOMAIN shown
    <2>1. \A e \in EpochsIn(i) : e \in cut[i]
      BY <1>7, <1>8 DEF EpochsIn
    <2>2. ASSUME NEW e \in cut[i] PROVE e \in EpochsIn(i)
      <3>1. PICK cp \in Issuers(checkpoints) : Closes(cp, e)
        BY <1>9, <2>2 DEF IInv, Closings
      <3>2. cp.epoch = e
        BY <3>1 DEF Closes
      <3>3. cp \in Range(AttestedOf(i))
        BY <1>7, <1>8, <2>2, <3>2
      <3> QED BY <3>2, <3>3 DEF EpochsIn
    <2> QED BY <2>1, <2>2
  <1>11. \A i \in DOMAIN shown : ReceiptsOf(i) = {r \in Issuers(receipts) : r.ts \in cut[i]}
    <2> TAKE i \in DOMAIN shown
    <2>1. \A r \in ReceiptsOf(i) : r \in Issuers(receipts) /\ r.ts \in cut[i]
      BY <1>3, <1>5 DEF ShownReceipts, ReceiptsOf, Closed, Issuers
    <2>2. ASSUME NEW r \in Issuers(receipts), r.ts \in cut[i] PROVE r \in ReceiptsOf(i)
      <3>1. r.ts < open
        <4>1. open \in Nat \ {0} /\ r.ts \in 1 .. open - 1
          BY <1>9, <2>2 DEF IInv, Signed
        <4> QED BY <4>1
      <3>2. r \in Closed(receipts)
        BY <3>1 DEF Closed, Issuers
      <3>3. PICK j \in DOMAIN shown : r \in ReceiptsOf(j)
        BY <1>5, <3>2 DEF ShownReceipts, ReceiptsOf
      <3>4. r \in R
        BY <1>3, <3>3
      <3> QED BY <1>3, <2>2, <3>4
    <2> QED BY <2>1, <2>2
  <1>12. \A epoch \in 1 .. open - 1 : \E i \in DOMAIN shown : epoch \in cut[i]
    BY <1>3 DEF Range
  <1> HIDE DEF P
  <1>13. \A i \in DOMAIN shown :
           \A j, k \in DOMAIN AttestedOf(i) : j < k => AttestedOf(i)[j].epoch < AttestedOf(i)[k].epoch
    BY <1>5, <1>7
  <1>14. \A i \in DOMAIN shown : EpochsIn(i) # {} /\ EpochsIn(i) \subseteq 1 .. open - 1
    BY <1>3, <1>9, <1>10
  <1>15. \A i \in DOMAIN shown : AttestedOf(i) = shown[i].checkpoints /\ IsSeq(AttestedOf(i))
    BY <1>4, <1>7 DEF P
  <1>16. \A i \in DOMAIN shown :
           /\ Range(AttestedOf(i)) = {cp \in Issuers(checkpoints) : cp.epoch \in EpochsIn(i)}
           /\ ReceiptsOf(i) = {r \in Issuers(receipts) : r.ts \in EpochsIn(i)}
    BY <1>7, <1>8, <1>10, <1>11
  <1>17. \A i, j \in DOMAIN shown : i < j => \A e \in EpochsIn(i), f \in EpochsIn(j) : e < f
    BY <1>3, <1>10
  <1>18. \A epoch \in 1 .. open - 1 : \E i \in DOMAIN shown : epoch \in EpochsIn(i)
    BY <1>10, <1>12
  <1> QED BY <1>13, <1>14, <1>15, <1>16, <1>17, <1>18

(* Each has one checkpoint per epoch, and skips no epoch.                  *)
LEMMA NoEpochSkipped ==
  ASSUME IInv, HonestlyShown, NEW i \in DOMAIN shown, NEW x \in EpochsIn(i), NEW e \in Nat, x <= e,
         NEW j \in DOMAIN shown, NEW y \in EpochsIn(j), e <= y, i <= j
  PROVE  \E k \in DOMAIN shown : i <= k /\ k <= j /\ e \in EpochsIn(k)
  <1>1. DOMAIN shown = 1 .. Len(shown) /\ Len(shown) \in Nat
    BY AuditedIs DEF HonestlyShown
  <1>2. x \in 1 .. open - 1 /\ y \in 1 .. open - 1 /\ open \in Nat
    BY HonestWindows DEF IInv, Signed
  <1>3. e \in 1 .. open - 1
    BY <1>2
  <1>4. PICK k \in DOMAIN shown : e \in EpochsIn(k)
    BY <1>3, HonestWindows
  <1>5. ~(k < i)
    <2> SUFFICES ASSUME k < i PROVE FALSE
      OBVIOUS
    <2>1. e < x
      BY <1>4, HonestWindows
    <2> QED BY <1>2, <2>1
  <1>6. ~(j < k)
    <2> SUFFICES ASSUME j < k PROVE FALSE
      OBVIOUS
    <2>1. y < e
      BY <1>4, HonestWindows
    <2> QED BY <1>2, <2>1
  <1> QED BY <1>1, <1>4, <1>5, <1>6

(* The checkpoints of a window by their epochs.                            *)
LEMMA HonestCheckpoint ==
  ASSUME IInv, HonestlyShown, NEW cp \in Issuers(checkpoints)
  PROVE  /\ cp \in checkpoints /\ cp.by = "issuer" /\ cp.intact
         /\ cp.epoch \in 1 .. open - 1 /\ cp.epoch \in Nat \ {0} /\ cp.start = cp.epoch /\ cp.end = cp.epoch + 1
         /\ Closes(cp, cp.epoch) /\ cp.prev \in PrevOf(cp.epoch)
         /\ \A x \in Issuers(checkpoints) : x.epoch = cp.epoch => x = cp
         /\ \A x \in Issuers(checkpoints) : cp.epoch = x.epoch + 1 => cp.prev = x.id
         /\ cp.epoch = 1 => cp.prev = NoHash
  <1>1. cp \in checkpoints /\ cp.by = "issuer"
    BY DEF Issuers
  <1>2. cp.start = cp.epoch /\ cp.end = cp.epoch + 1 /\ cp.intact
    BY <1>1 DEF IInv, Signed, CheckpointDocs
  <1>3. cp.epoch \in 1 .. open - 1 /\ Closes(cp, cp.epoch)
    BY HonestCloses DEF HonestlyShown
  <1>4. open \in Nat
    BY DEF IInv, Signed
  <1>5. cp.epoch \in Nat \ {0}
    BY <1>3, <1>4
  <1>6. cp.prev \in PrevOf(cp.epoch)
    BY DEF IInv, Closings
  <1>7. \A x \in Issuers(checkpoints) : x.epoch = cp.epoch => x = cp
    BY DEF HonestlyShown, IssuerIsHonest
  <1>8. \A x \in Issuers(checkpoints) : cp.epoch = x.epoch + 1 => cp.prev = x.id
    <2> TAKE x \in Issuers(checkpoints)
    <2> HAVE cp.epoch = x.epoch + 1
    <2>1. x.epoch \in 1 .. open - 1
      BY HonestCloses DEF HonestlyShown
    <2>2. cp.epoch # 1 /\ cp.epoch - 1 = x.epoch
      BY <1>4, <2>1
    <2>3. PICK y \in Closing(x.epoch) : y.id = cp.prev
      BY <1>6, <2>2 DEF PrevOf, Id
    <2>4. y = x
      BY <2>3 DEF Closing, HonestlyShown, IssuerIsHonest
    <2> QED BY <2>3, <2>4
  <1>9. cp.epoch = 1 => cp.prev = NoHash
    BY <1>6 DEF PrevOf
  <1> QED BY <1>1, <1>2, <1>3, <1>5, <1>6, <1>7, <1>8, <1>9

(* The epochs of a window follow one another.                              *)
LEMMA EpochsInARow ==
  ASSUME IInv, HonestlyShown, NEW i \in DOMAIN shown, NEW C, C = AttestedOf(i)
  PROVE  /\ Len(C) \in Nat \ {0} /\ DOMAIN C = 1 .. Len(C)
         /\ \A k \in DOMAIN C : C[k] \in Issuers(checkpoints) /\ C[k].epoch \in EpochsIn(i) /\ C[k].epoch \in Nat
         /\ \A e \in EpochsIn(i) : \E k \in DOMAIN C : C[k].epoch = e
         /\ \A j, k \in DOMAIN C : C[j].epoch = C[k].epoch => j = k
         /\ \A k \in DOMAIN C : k # 1 => k - 1 \in DOMAIN C /\ C[k].epoch = C[k - 1].epoch + 1
         /\ \A k \in DOMAIN C : C[1].epoch <= C[k].epoch /\ C[k].epoch <= C[Len(C)].epoch
  <1> DEFINE n == Len(C)
  <1>1. /\ IsSeq(C) /\ EpochsIn(i) # {}
        /\ Range(C) = {cp \in Issuers(checkpoints) : cp.epoch \in EpochsIn(i)}
        /\ \A j, k \in DOMAIN C : j < k => C[j].epoch < C[k].epoch
    BY HonestWindows
  <1>2. n \in Nat /\ DOMAIN C = 1 .. n
    BY <1>1, SeqHas
  <1>3. \A k \in DOMAIN C : C[k] \in Issuers(checkpoints) /\ C[k].epoch \in EpochsIn(i) /\ C[k].epoch \in Nat
    <2> TAKE k \in DOMAIN C
    <2>1. C[k] \in Range(C)
      BY DEF Range
    <2>2. C[k] \in Issuers(checkpoints) /\ C[k].epoch \in EpochsIn(i)
      BY <1>1, <2>1
    <2> QED BY <2>2, HonestCheckpoint
  <1>4. \A e \in EpochsIn(i) : \E k \in DOMAIN C : C[k].epoch = e
    BY DEF EpochsIn, Range
  <1>5. n # 0
    BY <1>1, <1>2, <1>4
  <1>6. \A j, k \in DOMAIN C : C[j].epoch = C[k].epoch => j = k
    <2> SUFFICES ASSUME NEW j \in DOMAIN C, NEW k \in DOMAIN C, C[j].epoch = C[k].epoch, j # k
                 PROVE  FALSE
      OBVIOUS
    <2>1. j < k \/ k < j
      BY <1>2
    <2> QED BY <1>1, <1>3, <2>1
  <1>7. \A k \in DOMAIN C : k # 1 => k - 1 \in DOMAIN C /\ C[k].epoch = C[k - 1].epoch + 1
    <2> SUFFICES ASSUME NEW k \in DOMAIN C, k # 1
                 PROVE  k - 1 \in DOMAIN C /\ C[k].epoch = C[k - 1].epoch + 1
      OBVIOUS
    <2>1. k - 1 \in DOMAIN C /\ k - 1 < k /\ k \in Nat
      BY <1>2
    <2>2. C[k - 1].epoch < C[k].epoch /\ C[k - 1].epoch \in Nat /\ C[k].epoch \in Nat
      BY <1>1, <1>3, <2>1
    <2> SUFFICES ASSUME C[k].epoch # C[k - 1].epoch + 1 PROVE FALSE
      BY <2>1
    <2> DEFINE e == C[k - 1].epoch + 1
    <2>3. e \in Nat /\ C[k - 1].epoch < e /\ e < C[k].epoch
      BY <2>2
    <2>4. e \in EpochsIn(i)
      <3>1. C[k - 1].epoch \in EpochsIn(i) /\ C[k].epoch \in EpochsIn(i) /\ C[k - 1].epoch <= e
            /\ e <= C[k].epoch /\ i <= i /\ i \in Nat
        <4>1. i \in Nat
          BY AuditedIs DEF HonestlyShown
        <4> QED BY <1>3, <2>1, <2>2, <2>3, <4>1
      <3> HIDE DEF e
      <3>2. PICK w \in DOMAIN shown : i <= w /\ w <= i /\ e \in EpochsIn(w)
        BY <2>3, <3>1, NoEpochSkipped
      <3>3. w \in Nat
        BY AuditedIs DEF HonestlyShown
      <3> QED BY <3>1, <3>2, <3>3
    <2>5. PICK p \in DOMAIN C : C[p].epoch = e
      BY <1>4, <2>4
    <2> HIDE DEF e
    <2>6. ~(p < k - 1) /\ ~(k < p) /\ p # k /\ p # k - 1
      <3>1. p < k - 1 => C[p].epoch < C[k - 1].epoch
        BY <1>1, <2>1
      <3>2. k < p => C[k].epoch < C[p].epoch
        BY <1>1
      <3> QED BY <2>2, <2>3, <2>5, <3>1, <3>2
    <2> QED BY <1>2, <2>1, <2>6
  <1>8. \A k \in DOMAIN C : C[1].epoch <= C[k].epoch /\ C[k].epoch <= C[n].epoch
    <2> TAKE k \in DOMAIN C
    <2>1. 1 \in DOMAIN C /\ n \in DOMAIN C /\ (k = 1 \/ 1 < k) /\ (k = n \/ k < n)
      BY <1>2, <1>5
    <2>2. (1 < k => C[1].epoch < C[k].epoch) /\ (k < n => C[k].epoch < C[n].epoch)
      BY <1>1, <2>1
    <2> QED BY <1>3, <2>1, <2>2
  <1> QED BY <1>2, <1>3, <1>4, <1>5, <1>6, <1>7, <1>8

(* Each window is anchored on the last checkpoint of the one before.       *)
LEMMA LastIsLatest ==
  ASSUME IInv, HonestlyShown, NEW i \in DOMAIN shown, NEW C, C = AttestedOf(i)
  PROVE  details[i].last = C[Len(C)]
  <1> DEFINE n == Len(C)
             Latest(k) == \A j \in DOMAIN C : IF j < k THEN C[j].epoch < C[k].epoch
                                                       ELSE C[j].epoch <= C[k].epoch
  <1>1. details[i].last = LastAttested(C)
    BY ReportIs DEF HonestlyShown
  <1>2. /\ n \in Nat \ {0} /\ DOMAIN C = 1 .. n /\ \A k \in DOMAIN C : C[k].epoch \in Nat
        /\ \A k \in DOMAIN C : C[k].epoch <= C[n].epoch
        /\ \A j, k \in DOMAIN C : C[j].epoch = C[k].epoch => j = k
        /\ \A j, k \in DOMAIN C : j < k => C[j].epoch < C[k].epoch
    BY EpochsInARow, HonestWindows
  <1>3. n \in DOMAIN C
    BY <1>2
  <1>4. Latest(n)
    BY <1>2, <1>3
  <1>5. \A k \in DOMAIN C : Latest(k) => k = n
    <2> SUFFICES ASSUME NEW k \in DOMAIN C, Latest(k) PROVE k = n
      OBVIOUS
    <2>1. ~(n < k)
      BY <1>2
    <2>2. C[n].epoch <= C[k].epoch /\ C[k].epoch <= C[n].epoch
      BY <1>2, <1>3, <2>1
    <2>3. C[n].epoch = C[k].epoch
      BY <1>2, <1>3, <2>2
    <2> QED BY <1>2, <1>3, <2>3
  <1>6. LastAttested(C) = C[CHOOSE k \in DOMAIN C : Latest(k)]
    BY <1>3 DEF LastAttested
  <1> HIDE DEF Latest
  <1>7. (CHOOSE k \in DOMAIN C : Latest(k)) = n
    BY <1>3, <1>4, <1>5
  <1> QED BY <1>1, <1>6, <1>7

LEMMA Anchored ==
  ASSUME IInv, HonestlyShown, NEW i \in DOMAIN shown, i # 1, NEW C, C = AttestedOf(i),
         NEW a, a = AnchorOf(i)
  PROVE  /\ i - 1 \in DOMAIN shown /\ a \in Issuers(checkpoints) /\ a.epoch \in EpochsIn(i - 1)
         /\ \A e \in EpochsIn(i - 1) : e <= a.epoch
         /\ C[1].epoch = a.epoch + 1 /\ Anchors(a, C)
  <1>1. i - 1 \in DOMAIN shown /\ i - 1 < i /\ i \in Nat
    BY AuditedIs DEF HonestlyShown
  <1> DEFINE B == AttestedOf(i - 1)
             m == Len(B)
  <1>2. a = B[m]
    BY <1>1, LastIsLatest DEF AnchorOf
  <1>3. /\ m \in Nat \ {0} /\ DOMAIN B = 1 .. m
        /\ \A k \in DOMAIN B : B[k] \in Issuers(checkpoints) /\ B[k].epoch \in EpochsIn(i - 1) /\ B[k].epoch \in Nat
        /\ \A e \in EpochsIn(i - 1) : \E k \in DOMAIN B : B[k].epoch = e
        /\ \A k \in DOMAIN B : B[k].epoch <= B[m].epoch
    BY <1>1, EpochsInARow
  <1> HIDE DEF B
  <1>4. m \in DOMAIN B
    BY <1>3
  <1>5. /\ a \in Issuers(checkpoints) /\ a.epoch \in EpochsIn(i - 1) /\ a.epoch \in Nat
        /\ \A e \in EpochsIn(i - 1) : e <= a.epoch
    BY <1>2, <1>3, <1>4
  <1>6. /\ Len(C) \in Nat \ {0} /\ DOMAIN C = 1 .. Len(C)
        /\ \A k \in DOMAIN C : C[k] \in Issuers(checkpoints) /\ C[k].epoch \in EpochsIn(i) /\ C[k].epoch \in Nat
        /\ \A e \in EpochsIn(i) : \E k \in DOMAIN C : C[k].epoch = e
        /\ \A k \in DOMAIN C : C[1].epoch <= C[k].epoch
    BY EpochsInARow
  <1>7. 1 \in DOMAIN C
    BY <1>6
  <1>8. C[1].epoch = a.epoch + 1
    <2>1. a.epoch < C[1].epoch
      BY <1>1, <1>5, <1>6, <1>7, HonestWindows
    <2> SUFFICES ASSUME C[1].epoch # a.epoch + 1 PROVE FALSE
      OBVIOUS
    <2> DEFINE e == a.epoch + 1
    <2>2. e \in Nat /\ a.epoch <= e /\ e <= C[1].epoch /\ ~(e <= a.epoch) /\ ~(C[1].epoch <= e) /\ i - 1 <= i
      BY <1>1, <1>5, <1>6, <1>7, <2>1
    <2> HIDE DEF e
    <2>3. PICK w \in DOMAIN shown : i - 1 <= w /\ w <= i /\ e \in EpochsIn(w)
      BY <1>1, <1>5, <1>6, <1>7, <2>2, NoEpochSkipped
    <2>4. w = i - 1 \/ w = i
      <3>1. w \in Nat
        BY AuditedIs DEF HonestlyShown
      <3> QED BY <1>1, <2>3, <3>1
    <2>5. CASE w = i - 1
      BY <1>5, <2>2, <2>3, <2>5
    <2>6. CASE w = i
      BY <1>6, <2>2, <2>3, <2>6
    <2> QED BY <2>4, <2>5, <2>6
  <1>9. First(C) = C[1]
    <2>1. C[1] \in Range(C) /\ \A x \in Range(C) : C[1].epoch <= x.epoch
      BY <1>6, <1>7 DEF Range
    <2>2. \A cp \in Range(C) : (\A x \in Range(C) : cp.epoch <= x.epoch) => cp = C[1]
      <3> SUFFICES ASSUME NEW cp \in Range(C), \A x \in Range(C) : cp.epoch <= x.epoch
                   PROVE  cp = C[1]
        OBVIOUS
      <3>1. cp \in Issuers(checkpoints) /\ cp.epoch \in Nat /\ C[1] \in Issuers(checkpoints) /\ C[1].epoch \in Nat
        BY <1>6, <1>7 DEF Range
      <3>2. cp.epoch <= C[1].epoch /\ C[1].epoch <= cp.epoch
        BY <2>1
      <3>3. cp.epoch = C[1].epoch
        BY <3>1, <3>2
      <3> QED BY <3>1, <3>3, HonestCheckpoint
    <2> QED BY <2>1, <2>2 DEF First
  <1>10. Meets(a, C[1])
    <2>1. C[1] \in Issuers(checkpoints)
      BY <1>6, <1>7
    <2>2. C[1].prev = a.id /\ C[1].start = C[1].epoch /\ a.end = a.epoch + 1
      BY <1>5, <1>8, <2>1, HonestCheckpoint
    <2> QED BY <1>8, <2>2 DEF Meets
  <1>11. a # NoCheckpoint
    <2>1. a.id # NoHash
      BY <1>5, AnEntry DEF Issuers
    <2> QED BY <2>1 DEF NoCheckpoint, NoHash
  <1>12. DOMAIN C # {}
    BY <1>7
  <1> QED BY <1>1, <1>5, <1>8, <1>9, <1>10, <1>11, <1>12 DEF Anchors

LEMMA NoAnchorAtFirst ==
  ASSUME IInv, HonestlyShown
  PROVE  /\ 1 \in DOMAIN shown /\ AnchorOf(1) = NoCheckpoint /\ RootOf(1) = NoHash
         /\ AttestedOf(1)[1].epoch = 1
  <1>1. 1 \in DOMAIN shown /\ DOMAIN shown = 1 .. Len(shown) /\ Len(shown) \in Nat
    BY AuditedIs DEF HonestlyShown
  <1>2. AnchorOf(1) = NoCheckpoint /\ RootOf(1) = NoHash
    BY DEF AnchorOf, RootOf, RootPrev, Anchors
  <1> DEFINE C == AttestedOf(1)
  <1>3. /\ Len(C) \in Nat \ {0} /\ DOMAIN C = 1 .. Len(C)
        /\ \A k \in DOMAIN C : C[k].epoch \in EpochsIn(1) /\ C[k] \in Issuers(checkpoints)
        /\ \A e \in EpochsIn(1) : \E k \in DOMAIN C : C[k].epoch = e
        /\ \A k \in DOMAIN C : C[1].epoch <= C[k].epoch
    BY <1>1, EpochsInARow
  <1> HIDE DEF C
  <1>4. 1 \in DOMAIN C
    BY <1>3
  <1>5. C[1].epoch \in 1 .. open - 1 /\ open \in Nat /\ C[1].epoch \in EpochsIn(1)
    BY <1>3, <1>4, HonestCheckpoint DEF IInv, Signed
  <1>6. 1 \in 1 .. open - 1
    BY <1>5
  <1>7. PICK j \in DOMAIN shown : 1 \in EpochsIn(j)
    BY <1>6, HonestWindows
  <1>8. CASE j = 1
    <2>1. C[1].epoch <= 1
      BY <1>3, <1>7, <1>8
    <2> QED BY <1>1, <1>2, <1>5, <2>1 DEF C
  <1>9. CASE j # 1
    <2>1. 1 < j
      BY <1>1, <1>9
    <2>2. C[1].epoch < 1
      BY <1>1, <1>5, <1>7, <2>1, HonestWindows
    <2> QED BY <1>5, <2>2
  <1> QED BY <1>8, <1>9

(* The receipts of a window are an unbroken line from its root.            *)
LEMMA FromEarlierWindow ==
  ASSUME IInv, HonestlyShown, NEW i \in DOMAIN shown, NEW r \in ReceiptsOf(i),
         NEW x \in Issuers(receipts), x.id < r.id, x \notin ReceiptsOf(i)
  PROVE  \E j \in DOMAIN shown : j < i /\ x.ts \in EpochsIn(j)
  <1>1. r \in Issuers(receipts) /\ r.ts \in EpochsIn(i) /\ r.ts \in 1 .. open - 1
    BY HonestWindows
  <1>2. x.ts <= r.ts /\ x.ts \in 1 .. open /\ open \in Nat
    BY <1>1 DEF IInv, Signed
  <1>3. x.ts \in 1 .. open - 1
    BY <1>1, <1>2
  <1>4. PICK j \in DOMAIN shown : x.ts \in EpochsIn(j)
    BY <1>3, HonestWindows
  <1>5. j # i
    BY <1>4, HonestWindows
  <1>6. ~(i < j)
    <2> SUFFICES ASSUME i < j PROVE FALSE
      OBVIOUS
    <2>1. r.ts < x.ts
      BY <1>1, <1>4, HonestWindows
    <2> QED BY <1>1, <1>2, <2>1
  <1>7. i \in Nat /\ j \in Nat
    BY AuditedIs DEF HonestlyShown
  <1> QED BY <1>4, <1>5, <1>6, <1>7

LEMMA WindowInLine ==
  ASSUME IInv, HonestlyShown, NEW i \in DOMAIN shown, NEW R, R = ReceiptsOf(i)
  PROVE  RootOf(i) \notin Id(R) /\ InLine(R, RootOf(i))
  <1>1. /\ R \in SUBSET receipts /\ \A r \in R : r \in Issuers(receipts) /\ r.ts \in EpochsIn(i)
        /\ \A r \in receipts : r.id \in Nat \ {0} /\ r.ts \in Nat
        /\ \A r, x \in receipts : r.id = x.id => r = x
    <2>1. \A r \in R : r \in Issuers(receipts) /\ r.ts \in EpochsIn(i)
      BY HonestWindows
    <2>2. R \in SUBSET receipts
      BY <2>1 DEF Issuers
    <2>3. \A r \in receipts : r \in ReceiptDocs
      BY DEF IInv, Signed
    <2>4. \A r \in receipts : r.id \in Nat \ {0} /\ r.ts \in Nat
      BY <2>3 DEF ReceiptDocs
    <2> QED BY <2>1, <2>2, <2>4 DEF IInv, Signed, Named
  <1>2. Signed /\ Issuers(receipts) \in SUBSET receipts
    BY DEF IInv, Issuers
  <1>3. \A r, x \in Issuers(receipts) : r.id <= x.id => r.ts <= x.ts
    <2> SUFFICES ASSUME NEW r \in Issuers(receipts), NEW x \in Issuers(receipts), r.id <= x.id
                 PROVE  r.ts <= x.ts
      OBVIOUS
    <2>1. r.id < x.id => r.ts <= x.ts
      BY DEF IInv, Signed
    <2>2. r.id = x.id => r = x
      BY <1>1, <1>2
    <2> QED BY <1>1, <1>2, <2>1, <2>2
  <1> DEFINE S(r) == {x \in Issuers(receipts) : x.id < r.id}
  <1>4. \A r \in R : r.prev = HeadOf(S(r)) /\ S(r) \in SUBSET receipts
    BY <1>1 DEF HonestlyShown, IssuerIsHonest, Issuers
  <1>5. ASSUME NEW r \in R, Before(R, r) # {}
        PROVE  r.prev = HeadOf(Before(R, r))
    <2>1. PICK y \in Before(R, r) : TRUE
      BY <1>5
    <2>2. y \in R /\ y.id < r.id /\ y \in S(r) /\ Before(R, r) \subseteq S(r) /\ Before(R, r) \in SUBSET receipts
      BY <1>1 DEF Before
    <2> DEFINE h == HeadOf(S(r))
    <2>3. h \in Id(S(r)) /\ \A x \in S(r) : x.id <= h
      BY <1>2, <1>4, <2>2, HeadOfReceipts
    <2>4. PICK x \in S(r) : x.id = h
      BY <2>3 DEF Id
    <2>5. x \in Issuers(receipts) /\ x.id < r.id /\ y.id <= x.id /\ x \in receipts
      BY <1>2, <2>2, <2>3, <2>4
    <2>6. x \in R
      <3> SUFFICES ASSUME x \notin R PROVE FALSE
        OBVIOUS
      <3>1. PICK j \in DOMAIN shown : j < i /\ x.ts \in EpochsIn(j)
        BY <2>5, FromEarlierWindow
      <3>2. x.ts < y.ts
        BY <1>1, <2>2, <3>1, HonestWindows
      <3>3. y.ts <= x.ts
        BY <1>1, <1>3, <2>2, <2>5
      <3> QED BY <1>1, <2>2, <2>5, <3>2, <3>3
    <2> HIDE DEF h
    <2>7. h \in Id(Before(R, r))
      BY <2>4, <2>5, <2>6 DEF Id, Before
    <2>8. \A z \in Before(R, r) : z.id <= h
      BY <2>2, <2>3
    <2>9. HeadOf(Before(R, r)) = h
      BY <1>2, <2>2, <2>7, <2>8, HeadIs
    <2> QED BY <1>4, <2>9 DEF h
  <1>6. CASE i = 1
    <2>1. RootOf(i) = NoHash
      BY <1>6, NoAnchorAtFirst
    <2>2. RootOf(i) \notin Id(R)
      BY <1>1, <2>1 DEF Id, NoHash
    <2>3. ASSUME NEW r \in R, Before(R, r) = {} PROVE r.prev = NoHash
      <3>1. S(r) = {}
        <4> SUFFICES ASSUME NEW x \in S(r) PROVE FALSE
          OBVIOUS
        <4>1. x \notin R
          BY <2>3 DEF Before
        <4>2. PICK j \in DOMAIN shown : j < 1
          BY <1>6, <4>1, FromEarlierWindow
        <4> QED BY <4>2, AuditedIs DEF HonestlyShown
      <3> QED BY <1>4, <3>1 DEF HeadOf
    <2> QED BY <1>5, <2>1, <2>2, <2>3 DEF InLine
  <1>7. CASE i # 1
    <2> DEFINE a == AnchorOf(i)
               T == CutIn(a.epoch)
    <2>1. /\ i - 1 \in DOMAIN shown /\ a \in Issuers(checkpoints) /\ a.epoch \in EpochsIn(i - 1)
          /\ \A e \in EpochsIn(i - 1) : e <= a.epoch
          /\ Anchors(a, AttestedOf(i)) /\ i - 1 < i /\ i \in Nat
      <3>1. i \in Nat /\ i - 1 < i
        BY AuditedIs DEF HonestlyShown
      <3> QED BY <1>7, <3>1, Anchored
    <2>2. RootOf(i) = a.head /\ a.head = HeadOf(T) /\ a.epoch \in 1 .. open - 1 /\ a.epoch \in Nat
      BY <2>1, HonestCheckpoint DEF RootOf, RootPrev, Closes
    <2>3. T # {} /\ T \in SUBSET receipts /\ \A t \in T : t \in Issuers(receipts) /\ t.ts = a.epoch
      BY <1>7, <2>2 DEF HonestlyShown, CutIn, Issuers
    <2> HIDE DEF a
    <2> DEFINE h == HeadOf(T)
    <2> HIDE DEF T
    <2>4. h \in Id(T) /\ \A t \in T : t.id <= h
      BY <1>2, <2>3, HeadOfReceipts
    <2>5. PICK t \in T : t.id = h
      BY <2>4 DEF Id
    <2> HIDE DEF h
    <2>6. \A r \in R : a.epoch < r.ts
      BY <1>1, <2>1, HonestWindows
    <2>7. RootOf(i) \notin Id(R)
      <3> SUFFICES ASSUME NEW r \in R, r.id = h PROVE FALSE
        BY <2>2 DEF Id, h
      <3>1. r = t
        BY <1>1, <2>3, <2>5
      <3> QED BY <2>2, <2>3, <2>6, <3>1
    <2>8. ASSUME NEW r \in R, Before(R, r) = {} PROVE r.prev = h
      <3>1. t \in S(r)
        <4>1. ~(r.id <= t.id)
          <5> SUFFICES ASSUME r.id <= t.id PROVE FALSE
            OBVIOUS
          <5>1. r.ts <= t.ts
            BY <1>1, <1>3, <2>3, <2>5
          <5> QED BY <1>1, <2>2, <2>3, <2>5, <2>6, <5>1
        <4> QED BY <1>1, <2>3, <2>5, <4>1
      <3>2. \A x \in S(r) : x.id <= h
        <4> SUFFICES ASSUME NEW x \in S(r), ~(x.id <= h) PROVE FALSE
          OBVIOUS
        <4>1. x \notin R /\ x \in Issuers(receipts) /\ x.id < r.id
          BY <2>8 DEF Before
        <4>2. PICK j \in DOMAIN shown : j < i /\ x.ts \in EpochsIn(j)
          BY <4>1, FromEarlierWindow
        <4>3. x.ts <= a.epoch
          <5>1. j \in Nat
            BY AuditedIs DEF HonestlyShown
          <5>2. CASE j = i - 1
            BY <2>1, <4>2, <5>2
          <5>3. CASE j # i - 1
            <6>1. j < i - 1
              BY <2>1, <4>2, <5>1, <5>3
            <6>2. x.ts < a.epoch
              BY <2>1, <4>2, <6>1, HonestWindows
            <6> QED BY <1>1, <1>2, <2>2, <4>1, <6>2
          <5> QED BY <5>2, <5>3
        <4>4. t.id <= x.id
          BY <1>1, <1>2, <2>3, <2>5, <4>1
        <4>5. t.ts <= x.ts
          BY <1>3, <2>3, <2>5, <4>1, <4>4
        <4>6. x.ts = a.epoch
          BY <1>1, <1>2, <2>2, <2>3, <2>5, <4>1, <4>3, <4>5
        <4>7. x \in T
          BY <4>1, <4>6 DEF T, CutIn
        <4> QED BY <2>4, <4>7
      <3>3. h \in Id(S(r))
        BY <2>5, <3>1 DEF Id
      <3>4. HeadOf(S(r)) = h
        BY <1>2, <1>4, <3>2, <3>3, HeadIs
      <3> QED BY <1>4, <3>4
    <2>9. RootOf(i) = h
      BY <2>2 DEF h
    <2> QED BY <1>5, <2>7, <2>8, <2>9 DEF InLine
  <1> QED BY <1>6, <1>7

(* No list of findings has anything in it.                                 *)
LEMMA HonestChain ==
  ASSUME IInv, HonestlyShown, NEW i \in DOMAIN shown, NEW R, R = ReceiptsOf(i),
         NEW chain, chain = IssuerChain(R, RootOf(i))
  PROVE  /\ IsSeq(chain) /\ Range(chain) = R /\ R \in SUBSET receipts
         /\ \A j, k \in DOMAIN chain : j < k => chain[j].id < chain[k].id
         /\ Attested(R) = R /\ ReceiptChainBreak(R, RootOf(i)) = {}
         /\ \A r \in R : r.by = "issuer" /\ r.intact /\ r.id \in Nat \ {0} /\ r \in ReceiptDocs
  <1>1. \A r \in R : r.by = "issuer" /\ r \in receipts
    BY HonestWindows DEF Issuers
  <1>2. \A r \in R : r.intact /\ r \in ReceiptDocs
    BY <1>1 DEF IInv, Signed
  <1>3. \A r \in R : r.id \in Nat \ {0}
    BY <1>2 DEF ReceiptDocs
  <1>4. RootOf(i) \notin Id(R) /\ InLine(R, RootOf(i)) /\ R \in SUBSET receipts /\ Signed
    BY <1>1, WindowInLine DEF IInv
  <1>5. /\ IsSeq(chain) /\ Range(chain) = R
        /\ \A j, k \in DOMAIN chain : j < k => chain[j].id < chain[k].id
    BY <1>4, ChainIsWhole
  <1>6. Attested(R) = R /\ ChainWalk(R) = R
    BY <1>1, <1>2 DEF Attested, Attests, ChainWalk
  <1>7. ReceiptChainBreak(R, RootOf(i)) = {}
    <2>1. \A k \in DOMAIN chain : Attests(chain[k])
      BY <1>1, <1>2, <1>5 DEF Attests, Range
    <2> QED BY <1>5, <1>6, <2>1 DEF ReceiptChainBreak, NamedByWalk, FindingIf
  <1> QED BY <1>1, <1>2, <1>3, <1>4, <1>5, <1>6, <1>7

LEMMA NoMismatch ==
  ASSUME IInv, HonestlyShown, NEW i \in DOMAIN shown
  PROVE  IssuerMismatches(ReceiptsOf(i), shown[i].checkpoints) = {}
  <1>1. \A r \in ReceiptsOf(i) : Attests(r)
    BY HonestChain DEF Attests
  <1>2. \A cp \in Range(shown[i].checkpoints) : cp \in Issuers(checkpoints)
    BY HonestWindows
  <1>3. \A cp \in Range(shown[i].checkpoints) : Attests(cp)
    BY <1>2, HonestCheckpoint DEF Attests
  <1> QED BY <1>1, <1>3 DEF IssuerMismatches

LEMMA NoAnchorFinding ==
  ASSUME IInv, HonestlyShown, NEW i \in DOMAIN shown
  PROVE  AnchorFindings(AnchorOf(i), AttestedOf(i)) = {}
  <1>1. CASE i = 1
    BY <1>1, NoAnchorAtFirst DEF AnchorFindings, FindingIf
  <1>2. CASE i # 1
    BY <1>2, Anchored DEF AnchorFindings, FindingIf
  <1> QED BY <1>1, <1>2

(* A checkpoint's head is the last receipt of its epoch on the chain.      *)
LEMMA HeadIsOnChain ==
  ASSUME IInv, HonestlyShown, NEW i \in DOMAIN shown, NEW cp \in Range(AttestedOf(i)),
         NEW chain, chain = IssuerChain(ReceiptsOf(i), RootOf(i))
  PROVE  /\ {r \in ReceiptsOf(i) : InWindow(r, cp)} = CutIn(cp.epoch)
         /\ HeadOnChain(chain, cp) = HeadOf(CutIn(cp.epoch))
  <1> DEFINE R == ReceiptsOf(i)
             T == CutIn(cp.epoch)
             on == {k \in DOMAIN chain : InWindow(chain[k], cp)}
  <1>1. cp \in Issuers(checkpoints) /\ cp.epoch \in EpochsIn(i)
    BY HonestWindows DEF EpochsIn
  <1>2. cp \in checkpoints /\ R \in SUBSET receipts /\ \A r \in R : r \in ReceiptDocs
    BY <1>1, HonestCheckpoint, HonestChain
  <1>3. \A r \in R : InWindow(r, cp) <=> r.ts = cp.epoch
    BY <1>2, CoversItsEpoch
  <1>4. {r \in R : InWindow(r, cp)} = T
    BY <1>1, <1>3, HonestWindows DEF CutIn
  <1>5. IsSeq(chain) /\ Range(chain) = R /\ \A j, k \in DOMAIN chain : j < k => chain[j].id < chain[k].id
    BY HonestChain
  <1>6. Len(chain) \in Nat /\ DOMAIN chain = 1 .. Len(chain)
    BY <1>5, SeqHas
  <1>7. \A k \in DOMAIN chain : chain[k] \in R
    BY <1>5 DEF Range
  <1>8. \A k \in DOMAIN chain : k \in on <=> chain[k] \in T
    BY <1>4, <1>7
  <1>9. \A t \in T : \E k \in on : chain[k] = t
    BY <1>4, <1>5, <1>8 DEF Range
  <1> HIDE DEF R
  <1>10. T \in SUBSET receipts /\ Signed /\ \A t \in T : t.id \in Nat
    BY DEF CutIn, Issuers, IInv, Signed, ReceiptDocs
  <1>11. on \in SUBSET Nat /\ \A k \in on : k <= Len(chain) /\ k \in DOMAIN chain
    BY <1>6
  <1> DEFINE head == HeadOnChain(chain, cp)
  <1>12. head = IF on = {} THEN NoHash ELSE chain[Max(on)].id
    BY DEF HeadOnChain
  <1> HIDE DEF T, on, head
  <1>13. CASE on = {}
    <2>1. T = {}
      BY <1>9, <1>13
    <2> QED BY <1>4, <1>12, <1>13, <2>1 DEF HeadOf, head, T, R
  <1>14. CASE on # {}
    <2>1. Max(on) \in on /\ \A k \in on : k <= Max(on)
      BY <1>6, <1>11, <1>14, MaxIs
    <2>2. chain[Max(on)] \in T /\ Max(on) \in DOMAIN chain
      BY <1>8, <1>11, <2>1
    <2>3. \A t \in T : t.id <= chain[Max(on)].id
      <3> TAKE t \in T
      <3>1. PICK k \in on : chain[k] = t
        BY <1>9
      <3>2. k = Max(on) \/ k < Max(on)
        <4>1. k \in Nat /\ Max(on) \in Nat /\ k <= Max(on)
          BY <1>11, <2>1, <3>1
        <4> QED BY <4>1
      <3>3. k < Max(on) => chain[k].id < chain[Max(on)].id
        BY <1>5, <1>11, <2>2, <3>1
      <3> QED BY <1>10, <2>2, <3>1, <3>2, <3>3
    <2>4. chain[Max(on)].id \in Id(T)
      BY <2>2 DEF Id
    <2>5. HeadOf(T) = chain[Max(on)].id
      BY <1>10, <2>3, <2>4, HeadIs
    <2> QED BY <1>4, <1>12, <1>14, <2>5 DEF head, T, R
  <1> QED BY <1>13, <1>14

LEMMA NoTotalMismatch ==
  ASSUME IInv, HonestlyShown, NEW i \in DOMAIN shown
  PROVE  TotalMismatches(Attested(ReceiptsOf(i)), AttestedOf(i), RootOf(i)) = {}
  <1> DEFINE R == ReceiptsOf(i)
             chain == IssuerChain(R, RootOf(i))
  <1>1. Attested(R) = R
    BY HonestChain
  <1>2. \A cp \in Range(AttestedOf(i)) : ~Miscounts(cp, {r \in R : InWindow(r, cp)})
    <2> TAKE cp \in Range(AttestedOf(i))
    <2>1. {r \in R : InWindow(r, cp)} = CutIn(cp.epoch)
      BY HeadIsOnChain
    <2>2. Closes(cp, cp.epoch)
      BY HonestWindows, HonestCheckpoint
    <2> QED BY <2>1, <2>2 DEF Miscounts, Closes
  <1>3. \A cp \in Range(AttestedOf(i)) : cp.head = HeadOnChain(chain, cp)
    <2> TAKE cp \in Range(AttestedOf(i))
    <2>1. HeadOnChain(chain, cp) = HeadOf(CutIn(cp.epoch))
      BY HeadIsOnChain
    <2>2. Closes(cp, cp.epoch)
      BY HonestWindows, HonestCheckpoint
    <2> QED BY <2>1, <2>2 DEF Closes
  <1> HIDE DEF R
  <1> QED BY <1>1, <1>2, <1>3 DEF TotalMismatches, R

LEMMA NoCheckpointChainBreak ==
  ASSUME IInv, HonestlyShown, NEW i \in DOMAIN shown
  PROVE  CheckpointChainBreak(AttestedOf(i), FirstPrev(AnchorOf(i), AttestedOf(i))) = {}
  <1> DEFINE C == AttestedOf(i)
             firstPrev == FirstPrev(AnchorOf(i), C)
  <1>1. /\ Len(C) \in Nat \ {0} /\ DOMAIN C = 1 .. Len(C)
        /\ \A k \in DOMAIN C : C[k] \in Issuers(checkpoints)
        /\ \A k \in DOMAIN C : k # 1 => k - 1 \in DOMAIN C /\ C[k].epoch = C[k - 1].epoch + 1
    BY EpochsInARow
  <1>2. C[1].prev = firstPrev
    <2>1. C[1] \in Issuers(checkpoints)
      <3>1. 1 \in DOMAIN C
        <4> HIDE DEF C
        <4> QED BY <1>1
      <3> QED BY <1>1, <3>1
    <2>2. CASE i = 1
      <3>1. AnchorOf(i) = NoCheckpoint /\ C[1].epoch = 1
        BY <2>2, NoAnchorAtFirst
      <3>2. firstPrev = NoHash
        BY <3>1 DEF FirstPrev, Anchors
      <3> QED BY <2>1, <3>1, <3>2, HonestCheckpoint
    <2>3. CASE i # 1
      <3>1. AnchorOf(i) \in Issuers(checkpoints) /\ C[1].epoch = AnchorOf(i).epoch + 1 /\ Anchors(AnchorOf(i), C)
        BY <2>3, Anchored
      <3>2. firstPrev = AnchorOf(i).id
        BY <3>1 DEF FirstPrev
      <3> QED BY <2>1, <3>1, <3>2, HonestCheckpoint
    <2> QED BY <2>2, <2>3
  <1>3. \A k \in DOMAIN C \ {1} : C[k].prev = C[k - 1].id
    BY <1>1, HonestCheckpoint
  <1> HIDE DEF C, firstPrev
  <1>4. \A k \in DOMAIN C : HashBefore(C, k, firstPrev) = IF k = 1 THEN firstPrev ELSE C[k - 1].id
    <2> TAKE k \in DOMAIN C
    <2> DEFINE before == {j \in DOMAIN C : j < k}
    <2>1. CASE k = 1
      <3>1. before = {}
        BY <1>1, <2>1
      <3> QED BY <2>1, <3>1 DEF HashBefore
    <2>2. CASE k # 1
      <3>1. before \in SUBSET Nat /\ k - 1 \in before /\ (\A j \in before : j <= k - 1) /\ k - 1 \in Nat
        BY <1>1, <2>2
      <3>2. HashBefore(C, k, firstPrev) = C[Max(before)].id
        BY <3>1 DEF HashBefore
      <3> HIDE DEF before
      <3>3. Max(before) \in before /\ \A j \in before : j <= Max(before)
        BY <3>1, MaxIs
      <3>4. Max(before) \in Nat
        BY <3>1, <3>3
      <3>5. Max(before) = k - 1
        BY <3>1, <3>3, <3>4
      <3> QED BY <2>2, <3>2, <3>5
    <2> QED BY <2>1, <2>2
  <1>5. \A k \in DOMAIN C : C[k].prev = HashBefore(C, k, firstPrev)
    BY <1>2, <1>3, <1>4
  <1>6. CheckpointChainBreak(C, firstPrev) = {}
    BY <1>5 DEF CheckpointChainBreak, FindingIf
  <1> QED BY <1>6 DEF C, firstPrev

LEMMA NoGap ==
  ASSUME IInv, HonestlyShown, NEW i \in DOMAIN shown
  PROVE  WindowCoverage(Attested(ReceiptsOf(i)), AttestedOf(i)) = {}
  <1> DEFINE C == AttestedOf(i)
             R == ReceiptsOf(i)
  <1>1. Attested(R) = R /\ \A r \in R : r \in ReceiptDocs
    BY HonestChain
  <1>2. /\ Len(C) \in Nat \ {0} /\ DOMAIN C = 1 .. Len(C)
        /\ \A k \in DOMAIN C : C[k] \in Issuers(checkpoints) /\ C[k].epoch \in EpochsIn(i) /\ C[k].epoch \in Nat
        /\ \A e \in EpochsIn(i) : \E k \in DOMAIN C : C[k].epoch = e
        /\ \A j, k \in DOMAIN C : C[j].epoch = C[k].epoch => j = k
        /\ \A k \in DOMAIN C : k # 1 => k - 1 \in DOMAIN C /\ C[k].epoch = C[k - 1].epoch + 1
        /\ \A j, k \in DOMAIN C : j < k => C[j].epoch < C[k].epoch
    BY EpochsInARow, HonestWindows
  <1>3. \A r \in R : Cardinality(Covering(r, C)) = 1
    <2> TAKE r \in R
    <2>1. r.ts \in EpochsIn(i)
      BY HonestWindows
    <2>2. PICK k \in DOMAIN C : C[k].epoch = r.ts
      BY <1>2, <2>1
    <2>3. \A j \in DOMAIN C : InWindow(r, C[j]) <=> r.ts = C[j].epoch
      BY <1>1, <1>2, HonestCheckpoint, CoversItsEpoch
    <2> HIDE DEF C, R
    <2>4. Covering(r, C) = {k}
      BY <1>2, <2>2, <2>3 DEF Covering
    <2> QED BY <2>4, FS_Singleton
  <1>4. \A j, k \in DOMAIN C : Precedes(C, j, k) <=> j < k
    <2> SUFFICES ASSUME NEW j \in DOMAIN C, NEW k \in DOMAIN C PROVE Precedes(C, j, k) <=> j < k
      OBVIOUS
    <2> HIDE DEF C
    <2>1. j < k \/ j = k \/ k < j
      BY <1>2
    <2>2. CASE j < k
      BY <1>2, <2>2 DEF Precedes
    <2>3. CASE j = k
      BY <1>2, <2>3 DEF Precedes
    <2>4. CASE k < j
      <3>1. C[k].epoch < C[j].epoch /\ C[k].epoch \in Nat /\ C[j].epoch \in Nat
        BY <1>2, <2>4
      <3>2. ~(j < k) /\ ~(C[j].epoch < C[k].epoch) /\ C[j].epoch # C[k].epoch
        BY <1>2, <2>4, <3>1
      <3> QED BY <3>2 DEF Precedes
    <2> QED BY <2>1, <2>2, <2>3, <2>4
  <1>5. \A j, k \in DOMAIN C : NextTo(C, j, k) => Abut(C[j], C[k])
    <2> SUFFICES ASSUME NEW j \in DOMAIN C, NEW k \in DOMAIN C, NextTo(C, j, k) PROVE Abut(C[j], C[k])
      OBVIOUS
    <2>1. j < k
      BY <1>4 DEF NextTo
    <2>2. k # 1 /\ k - 1 \in DOMAIN C /\ k - 1 < k /\ (j # k - 1 => j < k - 1)
      <3> HIDE DEF C
      <3> QED BY <1>2, <2>1
    <2>3. j = k - 1
      <3> SUFFICES ASSUME j # k - 1 PROVE FALSE
        OBVIOUS
      <3>1. Precedes(C, j, k - 1) /\ Precedes(C, k - 1, k)
        BY <1>4, <2>2
      <3> QED BY <2>2, <3>1 DEF NextTo
    <2>4. C[k].epoch = C[j].epoch + 1
      BY <1>2, <2>2, <2>3
    <2>5. C[k].start = C[k].epoch /\ C[j].end = C[j].epoch + 1
      BY <1>2, HonestCheckpoint
    <2> QED BY <2>4, <2>5 DEF Abut
  <1> HIDE DEF C, R
  <1>6. WindowCoverage(R, C) = {}
    BY <1>3, <1>5 DEF WindowCoverage
  <1> QED BY <1>1, <1>6 DEF C, R

LEMMA NoEquivocation ==
  ASSUME IInv, HonestlyShown, NEW i \in DOMAIN shown
  PROVE  Equivocation(Range(AttestedOf(i)) \cup WitnessBodies(inclusions)) = {}
  <1> DEFINE S == Range(AttestedOf(i)) \cup WitnessBodies(inclusions)
  <1>1. \A cp \in WitnessBodies(inclusions) : cp \in Issuers(checkpoints)
    BY DEF WitnessBodies, Attests, Issuers
  <1>2. \A cp \in S : cp \in Issuers(checkpoints)
    BY <1>1, HonestWindows
  <1>3. \A cp, x \in S : cp.epoch = x.epoch => cp = x
    BY <1>2 DEF HonestlyShown, IssuerIsHonest
  <1> HIDE DEF S
  <1>4. Equivocation(S) = {}
    BY <1>3 DEF Equivocation, FindingIf
  <1> QED BY <1>4 DEF S

LEMMA NothingWithheld ==
  ASSUME IInv, HonestlyShown, WitnessInOneWindow, NEW i \in DOMAIN shown
  PROVE  Withheld(inclusions, AttestedOf(i)) = {}
  <1> SUFFICES ASSUME NEW w \in Accusing(inclusions), w.statement \notin Id(Range(AttestedOf(i)))
               PROVE  FALSE
    BY DEF Withheld
  <1>1. w \in inclusions /\ shown # <<>>
    BY DEF Accusing, HonestlyShown, Audited
  <1>2. w.statement \in log
    BY <1>1 DEF IInv, Presentation
  <1>3. Witnessed
    BY <1>2 DEF IInv, Signed
  <1>4. i = 1 /\ ShownCheckpoints = Range(shown[1].checkpoints)
    BY <1>1, <1>3, OneWindow
  <1>5. PICK cp \in checkpoints : cp.id = w.body /\ Attests(cp)
    BY DEF Accusing
  <1>6. w.body = w.statement /\ ShownCheckpoints = Issuers(checkpoints)
    BY <1>1 DEF HonestlyShown, AllIsShown
  <1>7. cp \in Range(AttestedOf(i))
    BY <1>4, <1>5, <1>6, HonestWindows DEF Attests, Issuers
  <1> QED BY <1>5, <1>6, <1>7 DEF Id

(* A quiet epoch leaves the next window without a root (see evidence_quiet *)
(* in the README), so an issuer that has them is asked of one window.      *)
QuietInOneWindow ==
  \A name \in DOMAIN Scenarios :
    "quiet" \in Scenarios[name].liberties => Scenarios[name].maxWindows <= 1

LEMMA QuietOrRooted ==
  ASSUME IInv, QuietInOneWindow, Audited, NEW i \in DOMAIN shown, i # 1, NEW epoch \in 1 .. open - 1
  PROVE  CutIn(epoch) # {}
  <1>1. CASE ~May("quiet")
    BY <1>1 DEF IInv, Closings
  <1>2. CASE May("quiet")
    <2>1. MaxWindows <= 1 /\ MaxWindows \in Nat
      BY <1>2, BoundsAre DEF QuietInOneWindow, May, Liberties, MaxWindows, IInv, Signed
    <2>2. PICK cut, R, C : PresentedAs(cut, R, C)
      BY DEF Audited, IInv, Presentation
    <2>3. PICK m \in 1 .. MaxWindows : cut \in [1 .. m -> SUBSET (1 .. open - 1)]
      BY <2>2 DEF PresentedAs, Cuts
    <2>4. m = 1
      BY <2>1
    <2> QED BY <2>2, <2>3, <2>4 DEF PresentedAs
  <1> QED BY <1>1, <1>2

(* An issuer that links each receipt to the one before and closes each     *)
(* epoch once, over all its receipts, is accepted when all of it is        *)
(* presented, in however many windows (audit/src/index.ts:1895-2428,       *)
(* windows.ts:119-148).                                                    *)
THEOREM EvidenceHonestEvidencePasses ==
  ASSUME WitnessInOneWindow, QuietInOneWindow
  PROVE  Spec => []HonestEvidencePasses
  <1>1. IInv => HonestEvidencePasses
    <2> SUFFICES ASSUME IInv, Audited, IssuerIsHonest, AllIsShown PROVE Findings = {}
      BY DEF HonestEvidencePasses
    <2>1. HonestlyShown
      BY QuietOrRooted DEF HonestlyShown
    <2>2. \A i \in DOMAIN shown : details[i].findings = {}
      <3> TAKE i \in DOMAIN shown
      <3>1. ReceiptChainBreak(ReceiptsOf(i), RootOf(i)) = {}
        BY <2>1, HonestChain
      <3>2. /\ IssuerMismatches(ReceiptsOf(i), shown[i].checkpoints) = {}
            /\ AnchorFindings(AnchorOf(i), AttestedOf(i)) = {}
            /\ TotalMismatches(Attested(ReceiptsOf(i)), AttestedOf(i), RootOf(i)) = {}
            /\ CheckpointChainBreak(AttestedOf(i), FirstPrev(AnchorOf(i), AttestedOf(i))) = {}
            /\ WindowCoverage(Attested(ReceiptsOf(i)), AttestedOf(i)) = {}
        BY <2>1, NoMismatch, NoAnchorFinding, NoTotalMismatch, NoCheckpointChainBreak, NoGap
      <3>3. /\ Equivocation(Range(AttestedOf(i)) \cup WitnessBodies(inclusions)) = {}
            /\ Withheld(inclusions, AttestedOf(i)) = {}
        BY <2>1, NoEquivocation, NothingWithheld
      <3> QED BY <3>1, <3>2, <3>3, ReportIs
    <2> QED BY <2>2, AuditedIs DEF Findings
  <1> QED BY <1>1, EvidenceIInv, PTL
=============================================================================
