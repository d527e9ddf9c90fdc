-------------------------- MODULE AuditWindows_proofs --------------------------
(***************************************************************************)
(* Proofs about AuditWindows, for any scenarios: any number of windows,    *)
(* rows and receipts, whatever they say and wherever they were filed.      *)
(*                                                                         *)
(* The invariant says of a closed run only that each report is what        *)
(* auditDetailed makes of its window and the run what runWindows makes of  *)
(* the reports; what the properties ask is then proved of those two.       *)
(***************************************************************************)
EXTENDS AuditWindows, Totals_proofs, WellFoundedInduction

-----------------------------------------------------------------------------
(* The documents do not change once an audit has begun.                    *)
DocumentsStay == UNCHANGED <<scenario, bounds, refused, rows, receipts>>

LEMMA WorldStays ==
  ASSUME DocumentsStay
  PROVE  /\ N' = N /\ Windows' = Windows /\ (Decision' <=> Decision) /\ Skew' = Skew
         /\ RunStart' = RunStart /\ RunEnd' = RunEnd /\ Units' = Units /\ Ref' = Ref /\ Code' = Code
         /\ (TilingOk' <=> TilingOk)
         /\ \A i : Row(i)' = Row(i) /\ Bag(i)' = Bag(i)
         /\ \A ts, i : InWindow(ts, i)' <=> InWindow(ts, i)
         /\ \A ts, i : NearOpen(i, ts)' <=> NearOpen(i, ts)
         /\ \A ts, i : NearClose(i, ts)' <=> NearClose(i, ts)
  <1>1. N' = N /\ Windows' = Windows /\ Skew' = Skew /\ RunStart' = RunStart /\ RunEnd' = RunEnd
    BY DEF DocumentsStay, N, Windows, Skew, RunStart, RunEnd
  <1>2. (Decision' <=> Decision) /\ Units' = Units /\ Ref' = Ref
    BY DEF DocumentsStay, Decision, Units, Ref, RowSays, ReceiptSays
  <1>3. Code' = Code
    BY <1>2 DEF Code
  <1>4. TilingOk' <=> TilingOk
    BY <1>1 DEF DocumentsStay, TilingOk, Meets
  <1>5. \A i : Row(i)' = Row(i) /\ Bag(i)' = Bag(i)
    BY DEF DocumentsStay, Row, Bag
  <1>6. \A ts, i : /\ InWindow(ts, i)' <=> InWindow(ts, i)
                   /\ NearOpen(i, ts)' <=> NearOpen(i, ts)
                   /\ NearClose(i, ts)' <=> NearClose(i, ts)
    BY <1>1 DEF DocumentsStay, InWindow, NearOpen, NearClose
  <1> QED BY <1>1, <1>2, <1>3, <1>4, <1>5, <1>6

LEMMA SinglesStay ==
  ASSUME DocumentsStay
  PROVE  /\ \A i : /\ OutsideRows(i)' = OutsideRows(i) /\ InsideRows(i)' = InsideRows(i)
                   /\ InScope(i)' = InScope(i) /\ Settled(i)' = Settled(i) /\ Naming(i)' = Naming(i)
                   /\ Skip(i)' = Skip(i)
                   /\ SingleReceipts(i)' = SingleReceipts(i) /\ SingleRows(i)' = SingleRows(i)
                   /\ UnmatchedReceipts(i)' = UnmatchedReceipts(i)
                   /\ UnmatchedRows(i)' = UnmatchedRows(i)
         /\ \A i : /\ NextOk(i)' <=> NextOk(i)
                   /\ PrevOk(i)' <=> PrevOk(i)
                   /\ Consecutive(i)' <=> Consecutive(i)
                   /\ ConsecutivePrev(i)' <=> ConsecutivePrev(i)
  <1>1. \A i : OutsideRows(i)' = OutsideRows(i)
    BY WorldStays DEF OutsideRows
  <1>2. \A i : InsideRows(i)' = InsideRows(i)
    BY <1>1, WorldStays DEF InsideRows
  <1>3. \A i : InScope(i)' = InScope(i)
    BY WorldStays DEF DocumentsStay, InScope, Refs
  <1>4. \A i : Settled(i)' = Settled(i)
    BY <1>3 DEF Settled
  <1>5. \A i : Naming(i)' = Naming(i)
    BY <1>4 DEF Naming
  <1>6. \A i : Skip(i)' = Skip(i)
    BY <1>5, WorldStays DEF Skip
  <1>7. \A i : SingleReceipts(i)' = SingleReceipts(i)
    BY <1>5, <1>6 DEF SingleReceipts
  <1>8. \A i : SingleRows(i)' = SingleRows(i)
    BY <1>6, WorldStays DEF SingleRows
  <1>9. \A i : UnmatchedReceipts(i)' = UnmatchedReceipts(i) /\ UnmatchedRows(i)' = UnmatchedRows(i)
    BY <1>7, <1>8 DEF UnmatchedReceipts, UnmatchedRows, Refs
  <1>10. \A i : (NextOk(i)' <=> NextOk(i)) /\ (PrevOk(i)' <=> PrevOk(i))
    BY WorldStays DEF DocumentsStay, NextOk, PrevOk, ExtractVerifies, Meets
  <1>11. \A i : (Consecutive(i)' <=> Consecutive(i)) /\ (ConsecutivePrev(i)' <=> ConsecutivePrev(i))
    BY <1>2, <1>10, WorldStays DEF Consecutive, ConsecutivePrev
  <1> QED BY <1>1, <1>2, <1>3, <1>4, <1>5, <1>6, <1>7, <1>8, <1>9, <1>10, <1>11

LEMMA LeftoversStay ==
  ASSUME DocumentsStay
  PROVE  /\ \A i, r : CarriedOpening(i, r)' <=> CarriedOpening(i, r)
         /\ \A i : /\ CarriedReceipts(i)' = CarriedReceipts(i)
                   /\ HardReceipts(i)' = HardReceipts(i)
                   /\ DeferredReceipts(i)' = DeferredReceipts(i)
                   /\ DeferredRows(i)' = DeferredRows(i)
                   /\ HardRows(i)' = HardRows(i)
         /\ \A i, s : Edges(i, s)' = Edges(i, s)
  <1>1. \A i, r : (NamedByNext(i, r)' <=> NamedByNext(i, r)) /\ (NamedByPrev(i, r)' <=> NamedByPrev(i, r))
    BY WorldStays, SinglesStay DEF DocumentsStay, NamedByNext, NamedByPrev, AdjacentNames
  <1>2. \A i, r : /\ CarriedOpening(i, r)' <=> CarriedOpening(i, r)
                  /\ CarriedClosing(i, r)' <=> CarriedClosing(i, r)
    BY <1>1, WorldStays DEF CarriedOpening, CarriedClosing
  <1>3. \A i : CarriedReceipts(i)' = CarriedReceipts(i)
    BY <1>2, SinglesStay DEF CarriedReceipts
  <1>4. \A i : HardReceipts(i)' = HardReceipts(i)
    BY <1>3, WorldStays, SinglesStay DEF HardReceipts
  <1>5. \A i : DeferredReceipts(i)' = DeferredReceipts(i)
    BY <1>3, <1>4, SinglesStay DEF DeferredReceipts
  <1>6. \A i : DeferredRows(i)' = DeferredRows(i)
    BY WorldStays, SinglesStay DEF DeferredRows
  <1>7. \A i : HardRows(i)' = HardRows(i)
    BY <1>6, SinglesStay DEF HardRows
  <1>8. \A i, s : Edges(i, s)' = Edges(i, s)
    BY WorldStays DEF Edges
  <1> QED BY <1>2, <1>3, <1>4, <1>5, <1>6, <1>7, <1>8

LEMMA FindingsStay ==
  ASSUME DocumentsStay
  PROVE  \A i : /\ SelfFindings(i)' = SelfFindings(i)
                /\ ExtractFindings(i)' = ExtractFindings(i)
                /\ ClassifyFindings(i)' = ClassifyFindings(i)
                /\ ExtractWarnings(i)' = ExtractWarnings(i)
                /\ ClassifyWarnings(i)' = ClassifyWarnings(i)
  <1>1. \A i : Spends(i)' = Spends(i)
    BY WorldStays DEF Spends
  <1>2. \A i : SelfFindings(i)' = SelfFindings(i)
    <2>1. \A i : {r \in Bag(i) : ~InWindow(r.ts, i)}' = {r \in Bag(i) : ~InWindow(r.ts, i)}
      BY WorldStays
    <2> QED BY <1>1, <2>1 DEF SelfFindings
  <1>3. \A i : ExtractFindings(i)' = ExtractFindings(i)
    <2> SUFFICES ASSUME NEW i PROVE ExtractFindings(i)' = ExtractFindings(i)
      OBVIOUS
    <2>1. (IF NextOk(i) THEN Refs(OutsideRows(i + 1)) ELSE {})'
             = IF NextOk(i) THEN Refs(OutsideRows(i + 1)) ELSE {}
      BY SinglesStay
    <2>2. (IF PrevOk(i) THEN Refs(OutsideRows(i - 1)) ELSE {})'
             = IF PrevOk(i) THEN Refs(OutsideRows(i - 1)) ELSE {}
      BY SinglesStay
    <2>3. {j \in {i - 1, i + 1} \cap Windows :
             /\ ~refused[i] /\ ~refused[j]
             /\ ~(IF j < i THEN Meets(j, i) ELSE Meets(i, j))}'
            = {j \in {i - 1, i + 1} \cap Windows :
                 /\ ~refused[i] /\ ~refused[j]
                 /\ ~(IF j < i THEN Meets(j, i) ELSE Meets(i, j))}
      BY WorldStays DEF DocumentsStay, Meets
    <2> QED BY <2>1, <2>2, <2>3, SinglesStay DEF DocumentsStay, ExtractFindings
  <1>4. \A i : SpendAggregate(i)' = SpendAggregate(i)
    <2>1. \A i, ref, u : /\ SettledSum(i, ref, u)' = SettledSum(i, ref, u)
                         /\ ReceiptSum(i, ref, u)' = ReceiptSum(i, ref, u)
      BY WorldStays, SinglesStay DEF SettledSum, ReceiptSum
    <2>2. Units' = Units
      BY WorldStays
    <2>3. \A i : Skip(i)' = Skip(i)
      BY SinglesStay
    <2>4. \A i : {ref \in Skip(i) : \E u \in Units : SettledSum(i, ref, u) > ReceiptSum(i, ref, u)}'
                  = {ref \in Skip(i) : \E u \in Units : SettledSum(i, ref, u) > ReceiptSum(i, ref, u)}
      BY <2>1, <2>2, <2>3
    <2>5. \A i : {ref \in Skip(i) : \E u \in Units : SettledSum(i, ref, u) < ReceiptSum(i, ref, u)}'
                  = {ref \in Skip(i) : \E u \in Units : SettledSum(i, ref, u) < ReceiptSum(i, ref, u)}
      BY <2>1, <2>2, <2>3
    <2> QED BY <2>4, <2>5 DEF SpendAggregate
  <1>5. \A i : DecisionAggregate(i)' = DecisionAggregate(i)
    <2>1. \A i, ref : EffectsOf(i, ref)' = EffectsOf(i, ref) /\ DecisionsOf(i, ref)' = DecisionsOf(i, ref)
      BY WorldStays, SinglesStay DEF EffectsOf, DecisionsOf
    <2> QED BY <2>1, WorldStays, SinglesStay DEF DecisionAggregate
  <1>6. \A i : Aggregate(i)' = Aggregate(i)
    BY <1>4, <1>5, WorldStays DEF Aggregate
  <1>7. \A r, s : BindFailure(r, s)' = BindFailure(r, s)
    BY WorldStays DEF BindFailure
  <1>8. \A i : Mismatches(i)' = Mismatches(i)
    BY <1>7, SinglesStay DEF Mismatches
  <1>9. \A i : UncoveredRows(i)' = UncoveredRows(i)
    BY WorldStays, SinglesStay, LeftoversStay DEF UncoveredRows, RefusalRefs
  <1>10. \A i : ClassifyFindings(i)' = ClassifyFindings(i)
    BY <1>6, <1>8, <1>9, WorldStays, LeftoversStay DEF ClassifyFindings
  <1>11. \A i : ExtractWarnings(i)' = ExtractWarnings(i)
    BY WorldStays DEF DocumentsStay, ExtractWarnings
  <1>12. \A i : ClassifyWarnings(i)' = ClassifyWarnings(i)
    BY LeftoversStay DEF ClassifyWarnings
  <1> QED BY <1>2, <1>3, <1>10, <1>11, <1>12

LEMMA ReportStays == ASSUME DocumentsStay, NEW i PROVE AuditDetailed(i)' = AuditDetailed(i)
  <1> DEFINE accepted(S) == IF refused[i] THEN {} ELSE S
             matched == Refs(SingleRows(i) \ UnmatchedRows(i))
             carried == {[ref |-> r.ref,
                          edge |-> IF CarriedOpening(i, r) THEN "opening" ELSE "closing"] :
                           r \in CarriedReceipts(i)}
             deferredRows == {[ref |-> s.ref, edges |-> Edges(i, s)] : s \in DeferredRows(i)}
  <1>1. (SingleRows(i) \ UnmatchedRows(i))' = SingleRows(i) \ UnmatchedRows(i)
    BY SinglesStay
  <1>2. matched' = matched
    BY <1>1
  <1>3. carried' = carried
    BY LeftoversStay
  <1>4. deferredRows' = deferredRows
    BY LeftoversStay
  <1>5. AuditDetailed(i) =
          [findings |-> SelfFindings(i) \cup ExtractFindings(i) \cup accepted(ClassifyFindings(i)),
           warnings |-> ExtractWarnings(i) \cup accepted(ClassifyWarnings(i)),
           matched |-> accepted(matched), carried |-> accepted(carried),
           deferredRows |-> accepted(deferredRows)]
    BY DEF AuditDetailed
  <1>6. AuditDetailed(i)' =
          [findings |-> (SelfFindings(i) \cup ExtractFindings(i) \cup accepted(ClassifyFindings(i)))',
           warnings |-> (ExtractWarnings(i) \cup accepted(ClassifyWarnings(i)))',
           matched |-> accepted(matched)', carried |-> accepted(carried)',
           deferredRows |-> accepted(deferredRows)']
    BY DEF AuditDetailed
  <1>7. refused' = refused
    BY DEF DocumentsStay
  <1> HIDE DEF matched, carried, deferredRows
  <1>8. /\ accepted(matched)' = accepted(matched) /\ accepted(carried)' = accepted(carried)
        /\ accepted(deferredRows)' = accepted(deferredRows)
    BY <1>2, <1>3, <1>4, <1>7
  <1>9. (SelfFindings(i) \cup ExtractFindings(i) \cup accepted(ClassifyFindings(i)))'
           = SelfFindings(i) \cup ExtractFindings(i) \cup accepted(ClassifyFindings(i))
    BY <1>7, FindingsStay
  <1>10. (ExtractWarnings(i) \cup accepted(ClassifyWarnings(i)))'
           = ExtractWarnings(i) \cup accepted(ClassifyWarnings(i))
    BY <1>7, FindingsStay
  <1> HIDE DEF accepted
  <1> QED BY <1>5, <1>6, <1>8, <1>9, <1>10, Zenon

(* Nor does what the run makes of the reports.                             *)
LEMMA RunStays ==
  ASSUME DocumentsStay, details' = details
  PROVE  RunFindings' = RunFindings /\ RunWarnings' = RunWarnings
  <1>1. \A i, d : InnerEdges(i, d)' = InnerEdges(i, d)
    BY WorldStays DEF InnerEdges, IsInner
  <1>2. \A i, d : CarriedAcross(i, d)' <=> CarriedAcross(i, d)
    BY <1>1 DEF CarriedAcross
  <1>3. \A i : ResolvedRows(i)' = ResolvedRows(i)
    BY <1>2 DEF ResolvedRows
  <1>4. \A i : HardenedRows(i)' = HardenedRows(i)
    BY <1>1, <1>3 DEF HardenedRows
  <1>5. \A i, ref : Uses(i, ref)' = Uses(i, ref)
    BY WorldStays DEF Uses
  <1>6. RunFindings' = RunFindings
    BY <1>4, <1>5, WorldStays DEF RunFindings
  <1>7. RunWarnings' = RunWarnings
    BY <1>3, <1>4, WorldStays DEF RunWarnings
  <1> QED BY <1>6, <1>7

-----------------------------------------------------------------------------
(* What the world is made of.  A receipt handed in twice is the same one;  *)
(* numbers are not given out twice.                                        *)
RowIsWhole(s) ==
  /\ s.win \in Windows /\ s.ts \in Int
  /\ s.ref \in Ref /\ s.ref # NoRef /\ s.amount \in Nat /\ s.unit \in Units
ReceiptIsWhole(r, most) ==
  /\ r.bag \in Windows /\ r.ts \in Int /\ r.id \in Int /\ r.id <= most
  /\ r.amount \in Nat /\ r.settled \in BOOLEAN
  /\ Decision /\ r.settled => r.ref # NoRef
SameReceipt(r, q) ==
  /\ r.ts = q.ts /\ r.ref = q.ref /\ r.amount = q.amount /\ r.unit = q.unit
  /\ r.settled = q.settled

World ==
  /\ scenario \in DOMAIN Scenarios /\ bounds \in Tilings
  /\ IsFiniteSet(rows) /\ \A s \in rows : RowIsWhole(s)
  /\ IsFiniteSet(receipts)
  /\ \A r \in receipts : ReceiptIsWhole(r, Cardinality(receipts))
  /\ \A r, q \in receipts : r.id = q.id => SameReceipt(r, q)

Shape ==
  /\ phase \in {"world", "audit", "done"}
  /\ N \in Nat
  /\ Len(details) \in Nat /\ Len(details) <= N
  /\ \E S : details \in Seq(S)
  /\ phase = "world" => details = <<>>
  /\ phase = "done" => Len(details) = N

(* A report is what the audit makes of its window, whatever has happened   *)
(* since; the run is what it makes of the reports.                         *)
Reported ==
  /\ \A i \in 1 .. Len(details) : details[i] = AuditDetailed(i)
  /\ phase = "done" => run.findings = RunFindings /\ run.warnings = RunWarnings

IInv == Shape /\ World /\ Reported

LEMMA Bounds ==
  ASSUME World
  PROVE  /\ bounds \in Seq([start : Int, end : Int]) /\ N \in Nat /\ N > 0 /\ Windows = 1 .. N
         /\ \A i \in Windows : bounds[i].start \in Int /\ bounds[i].end \in Int
                              /\ bounds[i].start < bounds[i].end
         /\ Skew \in Nat /\ RunStart \in Nat /\ RunEnd \in Nat /\ MayMisfile \in BOOLEAN
         /\ \A k \in RowSays : k.ref # NoRef /\ k.amount \in Nat
         /\ \A k \in ReceiptSays : k.amount \in Nat /\ k.settled \in BOOLEAN
         /\ Decision => \A k \in ReceiptSays : k.settled => k.ref # NoRef
  <1>1. /\ bounds \in Seq([start : Int, end : Int]) /\ Len(bounds) > 0
        /\ \A i \in DOMAIN bounds : bounds[i].start < bounds[i].end
    BY AuditAssumption DEF World, Tilings
  <1>2. N \in Nat /\ N > 0 /\ Windows = 1 .. N /\ Windows = DOMAIN bounds
    BY <1>1 DEF N, Windows
  <1>3. \A i \in Windows : bounds[i] \in [start : Int, end : Int]
    <2> DEFINE span == [start : Int, end : Int]
    <2>1. bounds \in Seq(span)
      BY <1>1
    <2> HIDE DEF span
    <2>2. \A i \in 1 .. Len(bounds) : bounds[i] \in span
      BY <2>1
    <2> QED BY <2>2 DEF span, Windows, N
  <1>4. Skew \in Nat /\ RunStart \in Nat /\ RunEnd \in Nat /\ MayMisfile \in BOOLEAN
    BY AuditAssumption DEF World, Skew, RunStart, RunEnd, MayMisfile
  <1>5. /\ \A k \in RowSays : k.ref # NoRef /\ k.amount \in Nat
        /\ \A k \in ReceiptSays : k.amount \in Nat /\ k.settled \in BOOLEAN
        /\ Decision => \A k \in ReceiptSays : k.settled => k.ref # NoRef
    BY AuditAssumption DEF World, RowSays, ReceiptSays, Decision
  <1> QED BY <1>1, <1>2, <1>3, <1>4, <1>5

LEMMA InitInv == Init => IInv
  <1> SUFFICES ASSUME Init PROVE IInv
    OBVIOUS
  <1>1. IsFiniteSet({})
    BY FS_EmptySet
  <1>2. World
    BY <1>1 DEF Init, World
  <1>3. N \in Nat
    BY <1>2, Bounds
  <1>4. Len(details) = 0 /\ phase = "world" /\ details = <<>>
    BY DEF Init
  <1>5. Shape
    BY <1>3, <1>4 DEF Shape
  <1> QED BY <1>2, <1>4, <1>5 DEF IInv, Reported

LEMMA SettleInv == ASSUME IInv, Settle PROVE IInv'
  <1>1. /\ phase = "world" /\ UNCHANGED <<scenario, bounds, refused, receipts, phase, details, run>>
    BY DEF Settle
  <1>2. PICK k \in RowSays, ts \in Time, i \in Windows :
          rows' = rows \cup {[id |-> Cardinality(rows) + 1, ref |-> k.ref,
                              amount |-> k.amount, unit |-> k.unit, ts |-> ts, win |-> i]}
    BY DEF Settle, FiledUnder
  <1> DEFINE new == [id |-> Cardinality(rows) + 1, ref |-> k.ref,
                     amount |-> k.amount, unit |-> k.unit, ts |-> ts, win |-> i]
  <1>3. i \in Windows /\ ts \in Int /\ k.ref # NoRef /\ k.amount \in Nat
    BY Bounds DEF IInv, Time
  <1>4. k.ref \in Ref /\ k.unit \in Units
    BY DEF Ref, Units
  <1>5. RowIsWhole(new)
    BY <1>3, <1>4 DEF RowIsWhole
  <1> HIDE DEF new
  <1>6. N' = N /\ Windows' = Windows /\ Ref' = Ref /\ Units' = Units /\ (Decision' <=> Decision)
    BY <1>1 DEF N, Windows, Ref, Units, RowSays, ReceiptSays, Decision
  <1>7. IsFiniteSet(rows') /\ \A s \in rows' : RowIsWhole(s)
    BY <1>2, <1>5, FS_AddElement DEF new, IInv, World
  <1>8. World'
    BY <1>1, <1>6, <1>7 DEF IInv, World, RowIsWhole, ReceiptIsWhole, SameReceipt, Tilings
  <1>9. Shape' /\ Reported'
    BY <1>1, <1>6 DEF IInv, Shape, Reported
  <1> QED BY <1>8, <1>9 DEF IInv

(* What one more receipt in a bag leaves of the world.                     *)
LEMMA MoreReceipts ==
  ASSUME IInv, UNCHANGED <<scenario, bounds, refused, rows, phase, details, run>>, phase = "world",
         NEW new, receipts' = receipts \cup {new},
         ReceiptIsWhole(new, Cardinality(receipts \cup {new})),
         \A r \in receipts : r.id = new.id => SameReceipt(r, new)
  PROVE  IInv'
  <1>1. /\ IsFiniteSet(receipts) /\ Cardinality(receipts) \in Nat
        /\ IsFiniteSet(receipts') /\ Cardinality(receipts') \in Nat
        /\ Cardinality(receipts) <= Cardinality(receipts')
    <2>1. IsFiniteSet(receipts) /\ Cardinality(receipts) \in Nat
      BY FS_CardinalityType DEF IInv, World
    <2>2. /\ IsFiniteSet(receipts \cup {new})
          /\ \/ Cardinality(receipts \cup {new}) = Cardinality(receipts)
             \/ Cardinality(receipts \cup {new}) = Cardinality(receipts) + 1
      BY <2>1, FS_AddElement
    <2> QED BY <2>1, <2>2
  <1>2. N' = N /\ Windows' = Windows /\ Ref' = Ref /\ Units' = Units /\ (Decision' <=> Decision)
    BY DEF N, Windows, Ref, Units, RowSays, ReceiptSays, Decision
  <1>3. \A r \in receipts' : ReceiptIsWhole(r, Cardinality(receipts'))
    BY <1>1 DEF IInv, World, ReceiptIsWhole
  <1>4. \A r, q \in receipts' : r.id = q.id => SameReceipt(r, q)
    BY DEF IInv, World, SameReceipt
  <1>5. World'
    BY <1>1, <1>2, <1>3, <1>4 DEF IInv, World, RowIsWhole, ReceiptIsWhole, SameReceipt, Tilings
  <1>6. Shape' /\ Reported'
    BY <1>2 DEF IInv, Shape, Reported
  <1> QED BY <1>5, <1>6 DEF IInv

LEMMA SignInv == ASSUME IInv, Sign PROVE IInv'
  <1>1. phase = "world" /\ UNCHANGED <<scenario, bounds, refused, rows, phase, details, run>>
    BY DEF Sign
  <1>2. PICK k \in ReceiptSays, ts \in Time, i \in Windows :
          receipts' = receipts \cup {[id |-> Cardinality(receipts) + 1, ref |-> k.ref,
                                      amount |-> k.amount, unit |-> k.unit,
                                      ts |-> ts, settled |-> k.settled, bag |-> i]}
    BY DEF Sign, FiledUnder
  <1> DEFINE n == Cardinality(receipts)
             new == [id |-> n + 1, ref |-> k.ref, amount |-> k.amount, unit |-> k.unit,
                     ts |-> ts, settled |-> k.settled, bag |-> i]
  <1>3. /\ i \in Windows /\ ts \in Int /\ k.amount \in Nat /\ k.settled \in BOOLEAN
        /\ Decision /\ k.settled => k.ref # NoRef
    BY Bounds DEF IInv, Time
  <1>4. n \in Nat /\ \A r \in receipts : r.id \in Int /\ r.id <= n
    BY FS_CardinalityType DEF IInv, World, ReceiptIsWhole
  <1>5. new.id = n + 1 /\ ReceiptIsWhole(new, n + 1)
    BY <1>3, <1>4 DEF ReceiptIsWhole
  <1>6. receipts' = receipts \cup {new}
    BY <1>2
  <1> HIDE DEF new
  <1>7. new \notin receipts /\ \A r \in receipts : r.id # new.id
    BY <1>4, <1>5
  <1>8. Cardinality(receipts \cup {new}) = n + 1
    BY <1>7, FS_AddElement DEF IInv, World
  <1> QED BY <1>1, <1>5, <1>6, <1>7, <1>8, MoreReceipts

LEMMA PresentAgainInv == ASSUME IInv, PresentAgain PROVE IInv'
  <1>1. phase = "world" /\ UNCHANGED <<scenario, bounds, refused, rows, phase, details, run>>
    BY DEF PresentAgain
  <1>2. PICK r \in receipts, i \in Windows : receipts' = receipts \cup {[r EXCEPT !.bag = i]}
    BY DEF PresentAgain
  <1> DEFINE new == [r EXCEPT !.bag = i]
  <1>3. /\ new.id = r.id /\ SameReceipt(r, new)
        /\ ReceiptIsWhole(new, Cardinality(receipts))
    BY DEF IInv, World, ReceiptIsWhole, SameReceipt
  <1> HIDE DEF new
  <1>4. Cardinality(receipts) \in Nat /\ Cardinality(receipts \cup {new}) \in Nat
        /\ Cardinality(receipts) <= Cardinality(receipts \cup {new})
    <2>1. IsFiniteSet(receipts) /\ Cardinality(receipts) \in Nat
      BY FS_CardinalityType DEF IInv, World
    <2>2. \/ Cardinality(receipts \cup {new}) = Cardinality(receipts)
          \/ Cardinality(receipts \cup {new}) = Cardinality(receipts) + 1
      BY <2>1, FS_AddElement
    <2> QED BY <2>1, <2>2
  <1>5. ReceiptIsWhole(new, Cardinality(receipts \cup {new}))
    BY <1>3, <1>4 DEF ReceiptIsWhole
  <1>6. \A q \in receipts : q.id = new.id => SameReceipt(q, new)
    BY <1>3 DEF IInv, World, SameReceipt
  <1>7. receipts' = receipts \cup {new}
    BY <1>2 DEF new
  <1> QED BY <1>1, <1>5, <1>6, <1>7, MoreReceipts

LEMMA AuditWindowInv == ASSUME IInv, AuditWindow PROVE IInv'
  <1> DEFINE n == Len(details)
             report == AuditDetailed(n + 1)
  <1>1. /\ DocumentsStay /\ run' = run
        /\ details' = Append(details, report) /\ phase' = "audit" /\ n < N
    BY DEF AuditWindow, DocumentsStay
  <1>2. PICK S : details \in Seq(S)
    BY DEF IInv, Shape
  <1>3. N \in Nat /\ n \in Nat /\ N' = N
    BY <1>1 DEF DocumentsStay, IInv, Shape, N
  <1> HIDE DEF report
  <1>4. /\ details \in Seq(S \cup {report}) /\ details' \in Seq(S \cup {report})
        /\ Len(details') = n + 1
        /\ \A j \in 1 .. n : details'[j] = details[j]
        /\ details'[n + 1] = report
    BY <1>1, <1>2
  <1>5. Shape'
    BY <1>1, <1>3, <1>4 DEF Shape
  <1>6. ASSUME NEW j \in 1 .. n + 1 PROVE details'[j] = AuditDetailed(j)'
    <2>1. details'[j] = AuditDetailed(j)
      BY <1>3, <1>4 DEF IInv, Reported, report
    <2> QED BY <1>1, <2>1, ReportStays
  <1>7. Reported'
    BY <1>1, <1>4, <1>6 DEF Reported
  <1>8. World'
    BY <1>1, WorldStays DEF DocumentsStay, IInv, World, RowIsWhole, ReceiptIsWhole, SameReceipt, Tilings
  <1> QED BY <1>5, <1>7, <1>8 DEF IInv

(* A step after which the reports are those there were.                    *)
LEMMA ReportsStay ==
  ASSUME IInv, DocumentsStay, details' = details
  PROVE  World' /\ \A i \in 1 .. Len(details) : details'[i] = AuditDetailed(i)'
  <1>1. World'
    BY WorldStays DEF DocumentsStay, IInv, World, RowIsWhole, ReceiptIsWhole, SameReceipt, Tilings
  <1> QED BY <1>1, ReportStays DEF IInv, Reported

LEMMA CloseRunInv == ASSUME IInv, CloseRun PROVE IInv'
  <1>1. /\ DocumentsStay /\ details' = details /\ phase' = "done" /\ Len(details) = N
        /\ run'.findings = RunFindings /\ run'.warnings = RunWarnings
    BY DEF CloseRun, DocumentsStay
  <1>2. N' = N
    BY <1>1, WorldStays
  <1>3. Shape'
    BY <1>1, <1>2 DEF IInv, Shape
  <1>4. Reported'
    BY <1>1, ReportsStay, RunStays DEF Reported
  <1> QED BY <1>1, <1>3, <1>4, ReportsStay DEF IInv

LEMMA StutterInv == ASSUME IInv, UNCHANGED vars PROVE IInv'
  <1>1. DocumentsStay /\ UNCHANGED <<phase, details, run>>
    BY DEF vars, DocumentsStay
  <1>2. Shape'
    BY <1>1, WorldStays DEF IInv, Shape
  <1>3. Reported'
    BY <1>1, ReportsStay, RunStays DEF IInv, Reported
  <1> QED BY <1>1, <1>2, <1>3, ReportsStay DEF IInv

LEMMA NextInv == IInv /\ [Next]_vars => IInv'
  BY SettleInv, SignInv, PresentAgainInv, AuditWindowInv, CloseRunInv, StutterInv DEF Next

-----------------------------------------------------------------------------
(* Windows that meet each other lie one after the other, whatever their    *)
(* number: the first that did not would start before the one it meets ends.*)

LEMMA LeastExists == ASSUME NEW S \in SUBSET Nat, S # {} PROVE \E n \in S : \A m \in S : n <= m
  <1>1. PICK n \in S : \A m \in S : ~(<<m, n>> \in OpToRel(<, Nat))
    BY NatLessThanWellFounded, WFMin
  <1>2. \A m \in S : ~(m < n)
    BY <1>1 DEF OpToRel
  <1> QED BY <1>2

LEMMA WindowBounds ==
  ASSUME World
  PROVE  /\ N \in Nat /\ N > 0 /\ Windows = 1 .. N /\ Skew \in Nat
         /\ \A i \in Windows : /\ i \in Nat /\ bounds[i].start \in Int /\ bounds[i].end \in Int
                              /\ bounds[i].start < bounds[i].end
  <1>1. /\ N \in Nat /\ N > 0 /\ Windows = 1 .. N /\ Skew \in Nat
        /\ \A i \in Windows : /\ bounds[i].start \in Int /\ bounds[i].end \in Int
                             /\ bounds[i].start < bounds[i].end
    BY Bounds
  <1>2. \A i \in 1 .. N : i \in Nat
    BY <1>1
  <1> QED BY <1>1, <1>2

LEMMA WindowsInOrder ==
  ASSUME World, TilingOk, NEW i \in Windows, NEW j \in Windows, i < j
  PROVE  bounds[i].end <= bounds[j].start
  <1> DEFINE early == {k \in Windows : i < k /\ bounds[k].start < bounds[i].end}
  <1>1. early \in SUBSET Nat
    BY WindowBounds
  <1>2. ASSUME early # {} PROVE FALSE
    <2>1. PICK k \in early : \A m \in early : k <= m
      BY <1>1, <1>2, LeastExists
    <2>2. k \in Windows /\ i < k /\ bounds[k].start < bounds[i].end
      BY <2>1
    <2>3. k - 1 \in Windows /\ k - 1 \in 1 .. N - 1 /\ (k - 1) + 1 = k
      BY <2>2, WindowBounds
    <2>4. bounds[k - 1].end = bounds[k].start
      BY <2>3 DEF TilingOk, Meets
    <2>5. bounds[k - 1].start < bounds[k - 1].end /\ bounds[k - 1].start \in Int /\ bounds[k - 1].end \in Int
      BY <2>3, WindowBounds
    <2>6. CASE k - 1 = i
      BY <2>2, <2>4, <2>6, WindowBounds
    <2>7. CASE k - 1 # i
      <3>1. i < k - 1 /\ bounds[k - 1].start < bounds[i].end
        BY <2>2, <2>4, <2>5, <2>7, WindowBounds
      <3>2. k - 1 \in early
        BY <2>3, <3>1
      <3> QED BY <2>1, <2>2, <3>2, WindowBounds
    <2> QED BY <2>6, <2>7
  <1> QED BY <1>2, WindowBounds

LEMMA OneWindow ==
  ASSUME World, TilingOk, NEW i \in Windows, NEW j \in Windows, NEW ts \in Int,
         InWindow(ts, i), InWindow(ts, j)
  PROVE  i = j
  <1>1. ~(i < j) /\ ~(j < i)
    BY WindowsInOrder, WindowBounds DEF InWindow
  <1> QED BY <1>1, WindowBounds

-----------------------------------------------------------------------------
(* The report of a window: an extract refused or out of its window is a    *)
(* finding, a deferred row is one near the edges it was deferred at, a     *)
(* deferral in the warnings is of such a row or of a receipt left open.    *)

(* A receipt that a window left open: near an edge, and near none that an  *)
(* adjacent extract closes.                                                *)
LeftOpen(i, r) ==
  /\ NearOpen(i, r.ts) \/ NearClose(i, r.ts)
  /\ NearOpen(i, r.ts) => ~ConsecutivePrev(i)
  /\ NearClose(i, r.ts) => ~Consecutive(i)

LEMMA AuditCharges ==
  ASSUME NEW i
  PROVE  /\ refused[i] => Finding("extract-key-mismatch", <<"extract", i>>) \in AuditDetailed(i).findings
         /\ \A s \in OutsideRows(i) :
              Finding("extract-scope-mismatch", <<"row", s.ref>>) \in AuditDetailed(i).findings
  <1>1. ExtractFindings(i) \subseteq AuditDetailed(i).findings
    BY DEF AuditDetailed
  <1>2. refused[i] => Finding("extract-key-mismatch", <<"extract", i>>) \in ExtractFindings(i)
    BY DEF ExtractFindings
  <1>3. \A s \in OutsideRows(i) : Finding("extract-scope-mismatch", <<"row", s.ref>>) \in ExtractFindings(i)
    BY DEF ExtractFindings, Named, Refs
  <1> QED BY <1>1, <1>2, <1>3

LEMMA AuditDefersNear ==
  ASSUME NEW i
  PROVE  \A d \in AuditDetailed(i).deferredRows : \E s \in DeferredRows(i) : s.ref = d.ref /\ d.edges = Edges(i, s)
  BY DEF AuditDetailed

LEMMA AuditOpensForAReason ==
  ASSUME NEW i, NEW w \in AuditDetailed(i).warnings, w.code = "boundary-deferred"
  PROVE  \/ \E d \in AuditDetailed(i).deferredRows : w = Finding("boundary-deferred", <<"row", d.ref>>)
         \/ \E r \in receipts : w = Finding("boundary-deferred", <<"receipt", r.id>>) /\ LeftOpen(i, r)
  <1>1. ~refused[i] /\ w \in ClassifyWarnings(i)
    <2>1. \A x \in ExtractWarnings(i) : x.code # "boundary-deferred"
      BY DEF ExtractWarnings, Finding
    <2> QED BY <2>1 DEF AuditDetailed
  <1>2. CASE w \in Named("boundary-deferred", "row", Refs(DeferredRows(i)))
    <2>1. PICK s \in DeferredRows(i) : w = Finding("boundary-deferred", <<"row", s.ref>>)
      BY <1>2 DEF Named, Refs
    <2>2. [ref |-> s.ref, edges |-> Edges(i, s)] \in AuditDetailed(i).deferredRows
      BY <1>1 DEF AuditDetailed
    <2> QED BY <2>1, <2>2
  <1>3. CASE w \in Named("boundary-deferred", "receipt", Ids(DeferredReceipts(i)))
    <2>1. PICK r \in DeferredReceipts(i) : w = Finding("boundary-deferred", <<"receipt", r.id>>)
      BY <1>3 DEF Named, Ids
    <2>2. r \in receipts
      BY DEF DeferredReceipts, UnmatchedReceipts, SingleReceipts, Naming, Settled, InScope, Bag
    <2>3. LeftOpen(i, r)
      BY DEF DeferredReceipts, HardReceipts, LeftOpen
    <2> QED BY <2>1, <2>2, <2>3
  <1> QED BY <1>1, <1>2, <1>3 DEF ClassifyWarnings

LEMMA AtTheEnd ==
  ASSUME IInv, phase = "done"
  PROVE  /\ World /\ Windows = 1 .. N /\ N \in Nat /\ N > 0
         /\ \A i \in Windows : details[i] = AuditDetailed(i)
         /\ run.findings = RunFindings /\ run.warnings = RunWarnings
  BY WindowBounds DEF IInv, Shape, Reported

-----------------------------------------------------------------------------
(* With no doubt about a document every window is accepted, holds only its *)
(* own rows and meets its neighbours, so that only the two ends of the run *)
(* have no adjacent extract.                                               *)
NoDoubts == \A f \in AllFindings : f.code \notin Doubts

LEMMA DocumentsAreInOrder ==
  ASSUME IInv, phase = "done", NoDoubts
  PROVE  TilingOk /\ \A i \in Windows : ~refused[i] /\ OutsideRows(i) = {}
  <1>1. TilingOk
    <2>1. ~TilingOk => Finding("extract-scope-mismatch", <<"extract", 0>>) \in AllFindings
      BY AtTheEnd DEF RunFindings, AllFindings
    <2> QED BY <2>1 DEF NoDoubts, Finding, Doubts
  <1>2. ASSUME NEW i \in Windows PROVE ~refused[i] /\ OutsideRows(i) = {}
    <2>1. details[i] = AuditDetailed(i)
      BY AtTheEnd
    <2>2. \A f \in details[i].findings : f.code \notin {"extract-key-mismatch", "extract-scope-mismatch"}
      BY DEF NoDoubts, Doubts, AllFindings
    <2>3. \A f \in AuditDetailed(i).findings : f.code \notin {"extract-key-mismatch", "extract-scope-mismatch"}
      BY <2>1, <2>2
    <2>4. \A on : /\ Finding("extract-key-mismatch", on) \notin AuditDetailed(i).findings
                  /\ Finding("extract-scope-mismatch", on) \notin AuditDetailed(i).findings
      BY <2>3 DEF Finding
    <2>5. ~refused[i]
      BY <2>4, AuditCharges
    <2>6. \A s \in OutsideRows(i) : FALSE
      BY <2>4, AuditCharges
    <2> QED BY <2>5, <2>6
  <1> QED BY <1>1, <1>2

LEMMA EndsAreOpen ==
  ASSUME World, TilingOk, \A i \in Windows : ~refused[i] /\ OutsideRows(i) = {}, NEW i \in Windows
  PROVE  /\ i # N => /\ i + 1 \in Windows /\ Consecutive(i) /\ InsideRows(i + 1) = Row(i + 1)
                     /\ bounds[i].end = bounds[i + 1].start
         /\ i # 1 => /\ i - 1 \in Windows /\ ConsecutivePrev(i) /\ InsideRows(i - 1) = Row(i - 1)
                     /\ bounds[i - 1].end = bounds[i].start
  <1>1. ASSUME i # N
        PROVE  /\ i + 1 \in Windows /\ Consecutive(i) /\ InsideRows(i + 1) = Row(i + 1)
               /\ bounds[i].end = bounds[i + 1].start
    <2>1. i + 1 \in Windows /\ i \in 1 .. N - 1
      BY <1>1, WindowBounds
    <2>2. NextOk(i) /\ bounds[i].end = bounds[i + 1].start
      BY <2>1 DEF NextOk, ExtractVerifies, TilingOk, Meets
    <2>3. InsideRows(i + 1) = Row(i + 1)
      BY <2>1 DEF InsideRows
    <2> QED BY <2>1, <2>2, <2>3 DEF Consecutive
  <1>2. ASSUME i # 1
        PROVE  /\ i - 1 \in Windows /\ ConsecutivePrev(i) /\ InsideRows(i - 1) = Row(i - 1)
               /\ bounds[i - 1].end = bounds[i].start
    <2>1. i - 1 \in Windows /\ i - 1 \in 1 .. N - 1 /\ (i - 1) + 1 = i
      BY <1>2, WindowBounds
    <2>2. PrevOk(i) /\ bounds[i - 1].end = bounds[i].start
      BY <2>1 DEF PrevOk, ExtractVerifies, TilingOk, Meets
    <2>3. InsideRows(i - 1) = Row(i - 1)
      BY <2>1 DEF InsideRows
    <2> QED BY <2>1, <2>2, <2>3 DEF ConsecutivePrev
  <1> QED BY <1>1, <1>2

NearTheEnds(ts) == ts < RunStart + Skew \/ ts >= RunEnd - Skew

LEMMA OnlyEndsWarn ==
  ASSUME IInv, phase = "done", NoDoubts, NEW w \in run.warnings, w.code = "boundary-deferred"
  PROVE  IF w.on[1] = "row" THEN \E s \in rows : s.ref = w.on[2] /\ NearTheEnds(s.ts)
                            ELSE \E r \in receipts : r.id = w.on[2] /\ NearTheEnds(r.ts)
  <1>1. PICK i \in Windows :
          /\ w \in details[i].warnings
          /\ w \notin Named("boundary-deferred", "row", Refs(ResolvedRows(i) \cup HardenedRows(i)))
    BY AtTheEnd DEF RunWarnings
  <1>2. /\ TilingOk
        /\ ~Consecutive(i) => i = N
        /\ ~ConsecutivePrev(i) => i = 1
    BY DocumentsAreInOrder, EndsAreOpen DEF IInv
  <1>3. bounds[1].start = RunStart /\ bounds[N].end = RunEnd
    BY <1>2 DEF TilingOk
  <1>4. details[i] = AuditDetailed(i) /\ i \in 1 .. N /\ N \in Nat
    BY AtTheEnd
  <1>5. CASE \E d \in details[i].deferredRows : w = Finding("boundary-deferred", <<"row", d.ref>>)
    <2>1. PICK d \in details[i].deferredRows : w = Finding("boundary-deferred", <<"row", d.ref>>)
      BY <1>5
    <2>2. w.on[1] = "row" /\ w.on[2] = d.ref
      BY <2>1 DEF Finding
    <2>3. PICK s \in DeferredRows(i) : s.ref = d.ref /\ d.edges = Edges(i, s)
      BY <1>4, AuditDefersNear
    <2>4. s \in rows
      BY DEF DeferredRows, UnmatchedRows, SingleRows, Row
    <2>5. d \notin ResolvedRows(i) \cup HardenedRows(i)
      BY <1>1, <2>1 DEF Named, Refs
    <2>6. InnerEdges(i, d) # d.edges
      BY <2>5 DEF HardenedRows
    <2>7. PICK e \in d.edges : ~IsInner(i, e)
      BY <2>6 DEF InnerEdges
    <2>8. CASE e = "opening"
      <3>1. i = 1
        BY <1>4, <2>7, <2>8 DEF IsInner
      <3>2. NearOpen(i, s.ts)
        BY <2>3, <2>7, <2>8 DEF Edges
      <3> QED BY <1>3, <2>2, <2>3, <2>4, <3>1, <3>2 DEF NearOpen, NearTheEnds
    <2>9. CASE e = "closing"
      <3>1. i = N
        BY <1>4, <2>7, <2>9 DEF IsInner
      <3>2. NearClose(i, s.ts)
        BY <2>3, <2>7, <2>9 DEF Edges
      <3> QED BY <1>3, <2>2, <2>3, <2>4, <3>1, <3>2 DEF NearClose, NearTheEnds
    <2> QED BY <2>3, <2>7, <2>8, <2>9 DEF Edges
  <1>6. CASE \E r \in receipts : w = Finding("boundary-deferred", <<"receipt", r.id>>) /\ LeftOpen(i, r)
    <2>1. PICK r \in receipts : w = Finding("boundary-deferred", <<"receipt", r.id>>) /\ LeftOpen(i, r)
      BY <1>6
    <2>2. w.on[1] # "row" /\ w.on[2] = r.id
      BY <2>1 DEF Finding
    <2>3. NearTheEnds(r.ts)
      BY <1>2, <1>3, <2>1 DEF LeftOpen, NearOpen, NearClose, NearTheEnds
    <2> QED BY <2>2, <2>3
  <1> QED BY <1>1, <1>4, <1>5, <1>6, AuditOpensForAReason

(* With no document refused or out of scope, what a run over any number of *)
(* consecutive windows still leaves open is within the allowance of where  *)
(* the run starts or ends: every inner edge is settled by the windows on   *)
(* its two sides (runWindows, the passes over deferredRows).               *)
THEOREM WindowsOnlyOuterEdgesStayOpen == Spec => []OnlyOuterEdgesStayOpen
  <1>1. IInv => OnlyOuterEdgesStayOpen
    <2> SUFFICES ASSUME IInv, phase = "done", NoDoubts,
                        NEW w \in run.warnings, w.code = "boundary-deferred"
                 PROVE  IF w.on[1] = "row"
                        THEN \E s \in rows : s.ref = w.on[2] /\ NearTheEnds(s.ts)
                        ELSE \E r \in receipts : r.id = w.on[2] /\ NearTheEnds(r.ts)
      BY DEF OnlyOuterEdgesStayOpen, NearTheEnds, NoDoubts
    <2> QED BY OnlyEndsWarn
  <1> QED BY <1>1, InitInv, NextInv, PTL DEF Spec

-----------------------------------------------------------------------------
(* What is in which list.                                                  *)

LEMMA OwnReport ==
  ASSUME IInv, phase = "done", NEW i \in Windows, ~refused[i]
  PROVE  /\ details[i].findings = SelfFindings(i) \cup ExtractFindings(i) \cup ClassifyFindings(i)
         /\ details[i].warnings = ExtractWarnings(i) \cup ClassifyWarnings(i)
         /\ details[i].matched = Refs(SingleRows(i) \ UnmatchedRows(i))
         /\ details[i].carried = {[ref |-> r.ref,
                                   edge |-> IF CarriedOpening(i, r) THEN "opening" ELSE "closing"] :
                                    r \in CarriedReceipts(i)}
         /\ details[i].deferredRows = {[ref |-> s.ref, edges |-> Edges(i, s)] : s \in DeferredRows(i)}
  <1> DEFINE report == AuditDetailed(i)
  <1>1. details[i] = report
    BY AtTheEnd
  <1>2. /\ report.findings = SelfFindings(i) \cup ExtractFindings(i) \cup ClassifyFindings(i)
        /\ report.warnings = ExtractWarnings(i) \cup ClassifyWarnings(i)
    BY DEF AuditDetailed
  <1>3. report.matched = Refs(SingleRows(i) \ UnmatchedRows(i))
    BY DEF AuditDetailed
  <1>4. report.carried = {[ref |-> r.ref,
                           edge |-> IF CarriedOpening(i, r) THEN "opening" ELSE "closing"] :
                            r \in CarriedReceipts(i)}
    BY DEF AuditDetailed
  <1>5. report.deferredRows = {[ref |-> s.ref, edges |-> Edges(i, s)] : s \in DeferredRows(i)}
    BY DEF AuditDetailed
  <1> HIDE DEF report
  <1> QED BY <1>1, <1>2, <1>3, <1>4, <1>5, Zenon

(* What a window carries, whether or not its extract was refused.          *)
LEMMA CarriedIsOfAReceipt ==
  ASSUME NEW i, NEW c \in AuditDetailed(i).carried
  PROVE  /\ ~refused[i] /\ c.edge \in {"opening", "closing"}
         /\ \E r \in CarriedReceipts(i) :
              /\ c.ref = r.ref
              /\ c.edge = IF CarriedOpening(i, r) THEN "opening" ELSE "closing"
  BY DEF AuditDetailed

LEMMA RowsOfAWindow ==
  ASSUME World, NEW i
  PROVE  /\ SingleRows(i) \subseteq Row(i) /\ Row(i) \subseteq rows
         /\ HasAmounts(Row(i))
         /\ \A s, t \in Row(i) : s.ref = t.ref /\ s.ref \notin Repeats(Row(i)) => s = t
  <1>1. SingleRows(i) \subseteq Row(i) /\ Row(i) \subseteq rows
    BY DEF SingleRows, Row
  <1>2. HasAmounts(rows)
    BY DEF World, RowIsWhole, HasAmounts
  <1>3. HasAmounts(Row(i))
    BY <1>1, <1>2, SubsetHasAmounts
  <1> QED BY <1>1, <1>3 DEF Repeats, Refs

LEMMA ReceiptsOfAWindow ==
  ASSUME World, NEW i
  PROVE  /\ SingleReceipts(i) \subseteq Naming(i) /\ Naming(i) \subseteq Bag(i) /\ Bag(i) \subseteq receipts
         /\ \A r \in Naming(i) : r.settled /\ r.ref # NoRef
         /\ HasAmounts(Naming(i))
         /\ \A r, q \in Naming(i) : r.ref = q.ref /\ r.ref \notin Repeats(Naming(i)) => r = q
         /\ CarriedReceipts(i) \subseteq UnmatchedReceipts(i) /\ UnmatchedReceipts(i) \subseteq SingleReceipts(i)
  <1>1. SingleReceipts(i) \subseteq Naming(i) /\ Naming(i) \subseteq Bag(i) /\ Bag(i) \subseteq receipts
    BY DEF SingleReceipts, Naming, Settled, InScope, Bag
  <1>2. \A r \in Naming(i) : r.settled /\ r.ref # NoRef
    BY DEF Naming, Settled
  <1>3. HasAmounts(receipts)
    BY DEF World, ReceiptIsWhole, HasAmounts
  <1>4. HasAmounts(Naming(i))
    BY <1>1, <1>3, SubsetHasAmounts
  <1>5. CarriedReceipts(i) \subseteq UnmatchedReceipts(i) /\ UnmatchedReceipts(i) \subseteq SingleReceipts(i)
    BY DEF CarriedReceipts, UnmatchedReceipts
  <1>6. \A r, q \in Naming(i) : r.ref = q.ref /\ r.ref \notin Repeats(Naming(i)) => r = q
    BY DEF Repeats, Refs
  <1> QED BY <1>1, <1>2, <1>4, <1>5, <1>6

-----------------------------------------------------------------------------
(* A row no receipt of the run names.                                      *)
Uncovered(s) == ~refused[s.win] /\ \A r \in receipts : r.settled => r.ref # s.ref

(* Repeated in its window: the total of its ref, or the count, says so.    *)
LEMMA RepeatedIsNamed ==
  ASSUME World, NEW s \in rows, Uncovered(s), s.ref \in Skip(s.win)
  PROVE  \E f \in ClassifyFindings(s.win) : f.on = <<"row", s.ref>> /\ f.code \in Accusations(s)
  <1> DEFINE i == s.win
             mine == {t \in Row(i) : t.ref = s.ref}
  <1>1. s \in Row(i) /\ RowIsWhole(s)
    BY DEF Row, World
  <1>2. \A r \in Naming(i) : r.ref # s.ref
    BY ReceiptsOfAWindow DEF Uncovered
  <1>3. s.ref \in Repeats(Row(i))
    BY <1>2 DEF Skip, Repeats, Refs
  <1>4. HasAmounts(Row(i))
    BY RowsOfAWindow
  <1>5. CASE Decision
    <2>1. IsFiniteSet(mine) /\ s \in mine
      BY <1>1, <1>4, FS_Subset DEF HasAmounts
    <2>2. Cardinality(mine) \in Nat /\ Cardinality(mine) # 0
      BY <2>1, FS_CardinalityType, FS_EmptySet
    <2>3. {r \in Naming(i) : r.ref = s.ref} = {}
      BY <1>2
    <2>4. EffectsOf(i, s.ref) > DecisionsOf(i, s.ref)
      <3>1. EffectsOf(i, s.ref) = Cardinality(mine) /\ DecisionsOf(i, s.ref) = Cardinality({})
        BY <2>3 DEF EffectsOf, DecisionsOf
      <3> QED BY <2>2, <3>1, FS_EmptySet
    <2>5. Finding("effect-without-decision", <<"row", s.ref>>) \in ClassifyFindings(i)
      BY <1>5, <2>4 DEF ClassifyFindings, Aggregate, DecisionAggregate, Named
    <2>6. "effect-without-decision" \in Accusations(s)
      BY <1>5 DEF Accusations, Code
    <2> QED BY <2>5, <2>6 DEF Finding
  <1>6. CASE ~Decision /\ s.amount = 0
    <2>1. Finding("duplicate-ref", <<"row", s.ref>>) \in ClassifyFindings(i)
      BY <1>3 DEF ClassifyFindings, Named
    <2>2. "duplicate-ref" \in Accusations(s)
      BY <1>6 DEF Accusations
    <2> QED BY <2>1, <2>2 DEF Finding
  <1>7. CASE ~Decision /\ s.amount # 0
    <2> DEFINE settled == {t \in Row(i) : t.ref = s.ref /\ t.unit = s.unit}
    <2>1. HasAmounts(settled) /\ {s} \in SUBSET settled
      BY <1>1, <1>4, SubsetHasAmounts
    <2>2. Total({s}) = s.amount /\ Total({s}) <= Total(settled) /\ Total(settled) \in Nat
      BY <1>1, <2>1, TotalOfOne, TotalOfPart, CoinsFinite DEF RowIsWhole
    <2>3. {r \in Naming(i) : r.ref = s.ref /\ r.unit = s.unit} = {}
      BY <1>2
    <2>4. SettledSum(i, s.ref, s.unit) > ReceiptSum(i, s.ref, s.unit)
      <3>1. SettledSum(i, s.ref, s.unit) = Total(settled) /\ ReceiptSum(i, s.ref, s.unit) = Total({})
        BY <2>3 DEF SettledSum, ReceiptSum
      <3>2. s.amount \in Nat /\ s.amount # 0
        BY <1>1, <1>7 DEF RowIsWhole
      <3> QED BY <2>2, <3>1, <3>2, TotalOfNone
    <2>5. s.unit \in Units
      BY <1>1 DEF RowIsWhole
    <2>6. Finding("settlement-without-receipt", <<"row", s.ref>>) \in SpendAggregate(i)
      BY <2>4, <2>5 DEF SpendAggregate, Named
    <2>7. Finding("settlement-without-receipt", <<"row", s.ref>>) \in ClassifyFindings(i)
      BY <1>7, <2>6 DEF ClassifyFindings, Aggregate
    <2>8. "settlement-without-receipt" \in Accusations(s)
      BY DEF Accusations
    <2> QED BY <2>7, <2>8 DEF Finding
  <1> QED BY <1>5, <1>6, <1>7

(* Deferred at its window: nothing is carried for it, so that it is        *)
(* hardened unless one of its edges is an outer one.                       *)
LEMMA DeferredIsNamed ==
  ASSUME IInv, phase = "done", NEW s \in rows, Uncovered(s), s \in DeferredRows(s.win)
  PROVE  \/ Finding("settlement-without-receipt", <<"row", s.ref>>) \in AllFindings
         \/ AtOuterEdge(s) /\ Finding("boundary-deferred", <<"row", s.ref>>) \in run.warnings
  <1> DEFINE i == s.win
             d == [ref |-> s.ref, edges |-> Edges(i, s)]
             warning == Finding("boundary-deferred", <<"row", s.ref>>)
  <1>1. World /\ i \in Windows /\ ~refused[i] /\ i \in 1 .. N /\ N \in Nat
    BY AtTheEnd DEF IInv, World, RowIsWhole, Uncovered
  <1>2. details[i].deferredRows = {[ref |-> t.ref, edges |-> Edges(i, t)] : t \in DeferredRows(i)}
    <2> HIDE DEF i
    <2> QED BY <1>1, OwnReport, Zenon
  <1>3. d \in details[i].deferredRows /\ warning \in details[i].warnings
    <2>1. d \in details[i].deferredRows
      BY <1>2
    <2>2. warning \in ClassifyWarnings(i)
      BY DEF ClassifyWarnings, Named, Refs
    <2> QED BY <1>1, <2>1, <2>2, OwnReport
  <1>4. \A o \in details[i].deferredRows : o.ref = s.ref => o = d
    <2> SUFFICES ASSUME NEW t \in DeferredRows(i), t.ref = s.ref PROVE t = s
      BY <1>2
    <2>1. s \in SingleRows(i) /\ t \in SingleRows(i)
      BY DEF DeferredRows, UnmatchedRows
    <2>2. s \in Row(i) /\ t \in Row(i) /\ s.ref \notin Repeats(Row(i))
      BY <2>1 DEF SingleRows, Skip
    <2> QED BY <1>1, <2>2, RowsOfAWindow
  <1>5. \A j \in Windows : \A c \in details[j].carried : c.ref # s.ref
    <2> SUFFICES ASSUME NEW j \in Windows, NEW c \in details[j].carried PROVE c.ref # s.ref
      OBVIOUS
    <2>1. c \in AuditDetailed(j).carried
      BY AtTheEnd
    <2>2. PICK r \in CarriedReceipts(j) : c.ref = r.ref
      BY <2>1, CarriedIsOfAReceipt
    <2>3. r \in receipts /\ r.settled
      BY <1>1, ReceiptsOfAWindow
    <2> QED BY <2>2, <2>3 DEF Uncovered
  <1>6. d \notin ResolvedRows(i)
    <2> SUFFICES ASSUME NEW e \in InnerEdges(i, d)
                 PROVE  [ref |-> d.ref, edge |-> Facing(e)] \notin details[Across(i, e)].carried
      BY DEF ResolvedRows, CarriedAcross
    <2>1. e \in {"opening", "closing"} /\ IsInner(i, e)
      BY DEF InnerEdges, Edges
    <2>2. Across(i, e) \in Windows
      BY <1>1, <2>1 DEF Across, IsInner, Windows
    <2> QED BY <1>5, <2>2
  <1>7. CASE InnerEdges(i, d) = d.edges
    <2>1. d \in HardenedRows(i)
      BY <1>3, <1>6, <1>7 DEF HardenedRows
    <2>2. s.ref \in UNION {Refs(HardenedRows(j)) : j \in Windows}
      BY <1>1, <2>1 DEF Refs
    <2>3. Finding("settlement-without-receipt", <<"row", s.ref>>) \in RunFindings
      BY <2>2 DEF RunFindings, Named
    <2> QED BY <2>3, AtTheEnd DEF AllFindings
  <1>8. CASE InnerEdges(i, d) # d.edges
    <2>1. PICK e \in Edges(i, s) : ~IsInner(i, e)
      BY <1>8 DEF InnerEdges
    <2>2. AtOuterEdge(s)
      BY <1>1, <2>1 DEF Edges, IsInner, AtOuterEdge, NearOpen, NearClose
    <2>3. d \notin HardenedRows(i)
      BY <1>8 DEF HardenedRows
    <2>4. ResolvedRows(i) \cup HardenedRows(i) \subseteq details[i].deferredRows
      BY DEF ResolvedRows, HardenedRows
    <2>5. s.ref \notin Refs(ResolvedRows(i) \cup HardenedRows(i))
      BY <1>4, <1>6, <2>3, <2>4 DEF Refs
    <2>6. warning \notin Named("boundary-deferred", "row", Refs(ResolvedRows(i) \cup HardenedRows(i)))
      BY <2>5 DEF Named, Finding
    <2>7. warning \in RunWarnings
      <3> DEFINE left(j) == details[j].warnings
                            \ Named("boundary-deferred", "row", Refs(ResolvedRows(j) \cup HardenedRows(j)))
      <3>1. warning \in left(i)
        BY <1>3, <2>6
      <3>2. RunWarnings = UNION {left(j) : j \in Windows}
        BY DEF RunWarnings
      <3> HIDE DEF left, warning
      <3> QED BY <1>1, <3>1, <3>2
    <2> QED BY <2>2, <2>7, AtTheEnd
  <1> QED BY <1>7, <1>8

(* Whatever the windows, the documents and where they were filed: a row no *)
(* receipt of the run names is charged by its ref (runWindows and          *)
(* classifyMatches), or still named as deferred at an end of the run,      *)
(* unless its own extract was refused.                                     *)
THEOREM WindowsUncoveredIsNamed == Spec => []UncoveredIsNamed
  <1>1. IInv => UncoveredIsNamed
    <2> SUFFICES ASSUME IInv, phase = "done", NEW s \in rows, Uncovered(s)
                 PROVE  \/ \E f \in AllFindings : f.on = <<"row", s.ref>> /\ f.code \in Accusations(s)
                        \/ /\ AtOuterEdge(s)
                           /\ Finding("boundary-deferred", <<"row", s.ref>>) \in run.warnings
      BY DEF UncoveredIsNamed, Uncovered
    <2> DEFINE i == s.win
    <2>1. World /\ i \in Windows /\ ~refused[i] /\ s \in Row(i)
      BY DEF IInv, World, RowIsWhole, Uncovered, Row
    <2>2. ClassifyFindings(i) \subseteq AllFindings
      <3>1. ClassifyFindings(i) \subseteq details[i].findings
        BY <2>1, OwnReport
      <3> QED BY <2>1, <3>1 DEF AllFindings
    <2>3. CASE s.ref \in Skip(i)
      BY <2>1, <2>2, <2>3, RepeatedIsNamed
    <2>4. CASE s.ref \notin Skip(i)
      <3>1. \A r \in SingleReceipts(i) : r.ref # s.ref
        BY <2>1, ReceiptsOfAWindow DEF Uncovered
      <3>2. s \in UnmatchedRows(i)
        BY <2>1, <2>4, <3>1 DEF UnmatchedRows, SingleRows, Refs
      <3>3. CASE s \in HardRows(i)
        <4>1. PICK code \in {Code.rowAgainstRefusal, Code.rowWithoutRecord} :
                Finding(code, <<"row", s.ref>>) \in UncoveredRows(i)
          BY <3>3 DEF UncoveredRows, Named, Refs
        <4>2. Finding(code, <<"row", s.ref>>) \in AllFindings /\ code \in Accusations(s)
          BY <2>2, <4>1 DEF ClassifyFindings, Accusations
        <4> QED BY <4>2 DEF Finding
      <3>4. CASE s \in DeferredRows(i)
        <4>1. "settlement-without-receipt" \in Accusations(s)
          BY DEF Accusations
        <4> QED BY <3>4, <4>1, DeferredIsNamed DEF Finding
      <3> QED BY <3>2, <3>3, <3>4 DEF HardRows
    <2> QED BY <2>3, <2>4
  <1> QED BY <1>1, InitInv, NextInv, PTL DEF Spec

-----------------------------------------------------------------------------
(* A balanced run: every window is in order, each ref is used at most once *)
(* in it, nothing is left over but what the next window carries.           *)

LEMMA NothingIsSaid ==
  ASSUME IInv, Balanced
  PROVE  /\ phase = "done" /\ World /\ RunFindings = {} /\ RunWarnings = {} /\ TilingOk
         /\ \A i \in Windows : /\ ~refused[i] /\ OutsideRows(i) = {}
                               /\ SelfFindings(i) = {} /\ ClassifyFindings(i) = {}
  <1>1. phase = "done" /\ AllFindings = {} /\ run.warnings = {} /\ World
    BY DEF Balanced, RunOk, Unconditional, IInv
  <1>2. TilingOk /\ \A i \in Windows : ~refused[i] /\ OutsideRows(i) = {}
    BY <1>1, DocumentsAreInOrder DEF NoDoubts
  <1>3. RunFindings = {} /\ RunWarnings = {}
    BY <1>1, AtTheEnd DEF AllFindings
  <1>4. \A i \in Windows : details[i].findings = {}
    BY <1>1 DEF AllFindings
  <1>5. ASSUME NEW i \in Windows PROVE SelfFindings(i) = {} /\ ClassifyFindings(i) = {}
    <2>1. SelfFindings(i) \cup ExtractFindings(i) \cup ClassifyFindings(i) = details[i].findings
      BY <1>1, <1>2, OwnReport
    <2> QED BY <1>4, <2>1
  <1> QED BY <1>1, <1>2, <1>3, <1>5

LEMMA NamedNone ==
  ASSUME NEW code, NEW kind, NEW ids, Named(code, kind, ids) = {} PROVE ids = {}
  BY DEF Named

(* A receipt is in its own window, and a settled one names its settlement. *)
LEMMA BagsAreInOrder ==
  ASSUME IInv, Balanced, NEW i \in Windows
  PROVE  /\ \A r \in Bag(i) : InWindow(r.ts, i)
         /\ \A r \in Bag(i) : r.settled => r \in Naming(i)
  <1>1. World /\ SelfFindings(i) = {}
    BY NothingIsSaid
  <1>2. /\ Named("window-coverage", "receipt", Ids({r \in Bag(i) : ~InWindow(r.ts, i)})) = {}
        /\ Named("settled-without-ref", "receipt", Ids({r \in Spends(i) : r.ref = NoRef})) = {}
    BY <1>1 DEF SelfFindings
  <1>3. /\ Ids({r \in Bag(i) : ~InWindow(r.ts, i)}) = {}
        /\ Ids({r \in Spends(i) : r.ref = NoRef}) = {}
    BY <1>2, NamedNone
  <1>4. \A r \in Bag(i) : InWindow(r.ts, i)
    BY <1>3 DEF Ids
  <1>5. ASSUME NEW r \in Bag(i), r.settled PROVE r.ref # NoRef
    <2>1. CASE Decision
      BY <1>1, <1>5, <2>1 DEF World, ReceiptIsWhole, Bag
    <2>2. CASE ~Decision
      BY <1>3, <1>5, <2>2 DEF Ids, Spends
    <2> QED BY <2>1, <2>2
  <1>6. \A r \in Bag(i) : r.settled => r \in Naming(i)
    BY <1>4, <1>5 DEF Naming, Settled, InScope
  <1> QED BY <1>4, <1>6

LEMMA NothingRepeats ==
  ASSUME IInv, Balanced, NEW i \in Windows
  PROVE  Repeats(Row(i)) = {} /\ Repeats(Naming(i)) = {} /\ Skip(i) = {}
  <1>1. World /\ SelfFindings(i) = {} /\ ClassifyFindings(i) = {}
    BY NothingIsSaid
  <1>2. Repeats(Row(i)) = {}
    <2>1. Named("duplicate-ref", "row", Repeats(Row(i))) = {}
      BY <1>1 DEF ClassifyFindings
    <2> QED BY <2>1, NamedNone
  <1>3. ASSUME NEW ref \in Repeats(Naming(i)) PROVE FALSE
    <2>1. PICK x, y \in Naming(i) : x # y /\ x.ref = ref /\ y.ref = ref
      BY <1>3 DEF Repeats
    <2>2. CASE Decision
      <3> DEFINE R == {r \in Naming(i) : r.ref = ref}
                 S == {s \in Row(i) : s.ref = ref}
      <3>1. IsFiniteSet(R) /\ IsFiniteSet(S)
        BY <1>1, RowsOfAWindow, ReceiptsOfAWindow, FS_Subset DEF HasAmounts
      <3>2. Cardinality(R) > 1
        <4>1. x \in R /\ y \in R
          BY <2>1
        <4>2. R # {x}
          BY <2>1, <4>1
        <4> HIDE DEF R
        <4> QED BY <3>1, <4>1, <4>2, AtMostOne
      <3>3. ~(Cardinality(S) > 1)
        <4>1. ASSUME NEW s \in S PROVE S = {s}
          BY <1>1, <1>2, RowsOfAWindow
        <4>2. S = {} \/ \E s : S = {s}
          BY <4>1
        <4> HIDE DEF S
        <4> QED BY <4>2, FS_EmptySet, FS_Singleton
      <3>4. Cardinality(R) \in Nat /\ Cardinality(S) \in Nat
        BY <3>1, FS_CardinalityType
      <3>5. EffectsOf(i, ref) = Cardinality(S) /\ DecisionsOf(i, ref) = Cardinality(R)
        BY DEF EffectsOf, DecisionsOf
      <3>6. EffectsOf(i, ref) < DecisionsOf(i, ref)
        BY <3>2, <3>3, <3>4, <3>5
      <3>7. Finding("decision-without-effect", <<"row", ref>>) \in DecisionAggregate(i)
        BY <1>3, <3>6 DEF DecisionAggregate, Named, Skip
      <3> QED BY <1>1, <2>2, <3>7 DEF ClassifyFindings, Aggregate
    <2>3. CASE ~Decision
      <3>1. x \in Spends(i) /\ y \in Spends(i) /\ x.ref # NoRef /\ y.ref # NoRef
        BY <1>1, <2>1, <2>3, ReceiptsOfAWindow DEF Spends
      <3>2. ref \in Repeats({r \in Spends(i) : r.ref # NoRef})
        BY <2>1, <3>1 DEF Repeats, Refs
      <3>3. Finding("duplicate-ref", <<"row", ref>>) \in SelfFindings(i)
        BY <3>2 DEF SelfFindings, Named
      <3> QED BY <1>1, <3>3
    <2> QED BY <2>2, <2>3
  <1> QED BY <1>2, <1>3 DEF Skip

LEMMA LeftoversAreCarried ==
  ASSUME IInv, Balanced, NEW i \in Windows
  PROVE  /\ SingleRows(i) = Row(i) /\ SingleReceipts(i) = Naming(i)
         /\ UnmatchedReceipts(i) = CarriedReceipts(i)
         /\ \A s \in UnmatchedRows(i) : \E d \in ResolvedRows(i) : d.ref = s.ref
         /\ \A s \in Row(i), r \in Naming(i) : r.ref = s.ref => Same(r, s)
  <1>1. World /\ phase = "done" /\ ~refused[i] /\ ClassifyFindings(i) = {} /\ RunWarnings = {} /\ RunFindings = {}
    BY NothingIsSaid
  <1>2. SingleRows(i) = Row(i) /\ SingleReceipts(i) = Naming(i)
    BY NothingRepeats DEF SingleRows, SingleReceipts
  <1>3. HardReceipts(i) = {}
    <2>1. Named(Code.recordWithoutRow, "receipt", Ids(HardReceipts(i))) = {}
      BY <1>1 DEF ClassifyFindings
    <2>2. Ids(HardReceipts(i)) = {}
      BY <2>1, NamedNone
    <2> QED BY <2>2 DEF Ids
  <1>4. HardRows(i) = {}
    <2>1. UncoveredRows(i) = {}
      BY <1>1 DEF ClassifyFindings
    <2>2. /\ Named(Code.rowAgainstRefusal, "row", Refs(HardRows(i)) \cap RefusalRefs(i)) = {}
          /\ Named(Code.rowWithoutRecord, "row", Refs(HardRows(i)) \ RefusalRefs(i)) = {}
      BY <2>1 DEF UncoveredRows
    <2>3. Refs(HardRows(i)) \cap RefusalRefs(i) = {} /\ Refs(HardRows(i)) \ RefusalRefs(i) = {}
      BY <2>2, NamedNone
    <2> QED BY <2>3 DEF Refs
  <1> DEFINE closed == Named("boundary-deferred", "row", Refs(ResolvedRows(i) \cup HardenedRows(i)))
  <1>5. ClassifyWarnings(i) \subseteq closed
    <2> DEFINE left(j) == details[j].warnings
                          \ Named("boundary-deferred", "row", Refs(ResolvedRows(j) \cup HardenedRows(j)))
    <2>1. RunWarnings = UNION {left(j) : j \in Windows}
      BY DEF RunWarnings
    <2>2. left(i) = details[i].warnings \ closed
      OBVIOUS
    <2>3. ClassifyWarnings(i) \subseteq details[i].warnings
      BY <1>1, OwnReport
    <2> HIDE DEF left, closed
    <2>4. left(i) = {}
      BY <1>1, <2>1
    <2> QED BY <2>2, <2>3, <2>4
  <1>6. DeferredReceipts(i) = {}
    <2> SUFFICES ASSUME NEW r \in DeferredReceipts(i) PROVE FALSE
      OBVIOUS
    <2>1. Finding("boundary-deferred", <<"receipt", r.id>>) \in ClassifyWarnings(i)
      BY DEF ClassifyWarnings, Named, Ids
    <2>2. \A w \in closed : w.on[1] = "row"
      BY DEF Named, Finding
    <2> QED BY <1>5, <2>1, <2>2 DEF Finding
  <1>7. HardenedRows(i) = {}
    <2>1. Named("settlement-without-receipt", "row", UNION {Refs(HardenedRows(j)) : j \in Windows}) = {}
      BY <1>1 DEF RunFindings
    <2>2. UNION {Refs(HardenedRows(j)) : j \in Windows} = {}
      BY <2>1, NamedNone
    <2> QED BY <2>2 DEF Refs
  <1>8. ASSUME NEW s \in UnmatchedRows(i) PROVE \E d \in ResolvedRows(i) : d.ref = s.ref
    <2>1. s \in DeferredRows(i)
      BY <1>4 DEF HardRows
    <2>2. Finding("boundary-deferred", <<"row", s.ref>>) \in closed
      BY <1>5, <2>1 DEF ClassifyWarnings, Named, Refs
    <2>3. s.ref \in Refs(ResolvedRows(i) \cup HardenedRows(i))
      BY <2>2 DEF Named, Finding
    <2> QED BY <1>7, <2>3 DEF Refs
  <1>9. ASSUME NEW s \in Row(i), NEW r \in Naming(i), r.ref = s.ref, ~Same(r, s) PROVE FALSE
    <2>1. Finding(BindFailure(r, s), <<"row", s.ref>>) \in Mismatches(i)
      BY <1>2, <1>9 DEF Mismatches
    <2> QED BY <1>1, <2>1 DEF ClassifyFindings
  <1>10. UnmatchedReceipts(i) = CarriedReceipts(i)
    BY <1>3, <1>6 DEF DeferredReceipts, CarriedReceipts
  <1> QED BY <1>2, <1>8, <1>9, <1>10

-----------------------------------------------------------------------------
(* Who counts for whom.  A settled receipt counts for the row of its ref   *)
(* in its own window, or for the one across the edge it is carried over.   *)

Edge(i, r) == IF CarriedOpening(i, r) THEN "opening" ELSE "closing"

Counts(r, s) ==
  /\ r \in receipts /\ r.settled /\ s \in rows /\ r.ref = s.ref
  /\ \/ r.bag = s.win
     \/ r \in CarriedReceipts(r.bag) /\ Across(r.bag, Edge(r.bag, r)) = s.win

LEMMA RowHasReceipt ==
  ASSUME IInv, Balanced, NEW s \in rows
  PROVE  \E r \in receipts : Counts(r, s)
  <1> DEFINE i == s.win
  <1>1. World /\ phase = "done" /\ i \in Windows /\ i \in Int /\ s \in Row(i)
    <2>1. World /\ phase = "done"
      BY NothingIsSaid
    <2>2. i \in Windows /\ s \in Row(i)
      BY <2>1 DEF World, RowIsWhole, Row
    <2> QED BY <2>1, <2>2, WindowBounds
  <1>2. CASE s.ref \in Refs(SingleReceipts(i))
    <2>1. PICK r \in SingleReceipts(i) : r.ref = s.ref
      BY <1>2 DEF Refs
    <2>2. r \in Bag(i) /\ r \in receipts /\ r.settled
      BY <1>1, ReceiptsOfAWindow
    <2> QED BY <2>1, <2>2 DEF Counts, Bag
  <1>3. CASE s.ref \notin Refs(SingleReceipts(i))
    <2>1. s \in UnmatchedRows(i)
      BY <1>1, <1>3, LeftoversAreCarried DEF UnmatchedRows
    <2>2. PICK d \in ResolvedRows(i) : d.ref = s.ref
      BY <1>1, <2>1, LeftoversAreCarried
    <2>3. PICK e \in InnerEdges(i, d) : [ref |-> d.ref, edge |-> Facing(e)] \in details[Across(i, e)].carried
      BY <2>2 DEF ResolvedRows, CarriedAcross
    <2>4. e \in {"opening", "closing"}
      <3>1. d \in AuditDetailed(i).deferredRows
        BY <1>1, <2>2, AtTheEnd DEF ResolvedRows
      <3>2. PICK t \in DeferredRows(i) : d.edges = Edges(i, t)
        BY <3>1, AuditDefersNear
      <3> QED BY <2>3, <3>2 DEF InnerEdges, Edges
    <2> DEFINE j == Across(i, e)
    <2>5. j \in Windows /\ Across(j, Facing(e)) = i
      BY <1>1, <2>3, <2>4, WindowBounds DEF InnerEdges, IsInner, Across, Facing
    <2> HIDE DEF j
    <2>6. [ref |-> d.ref, edge |-> Facing(e)] \in AuditDetailed(j).carried
      BY <1>1, <2>3, <2>5, AtTheEnd DEF j
    <2>7. PICK r \in CarriedReceipts(j) : d.ref = r.ref /\ Facing(e) = Edge(j, r)
      BY <2>6, CarriedIsOfAReceipt DEF Edge
    <2>8. r \in Bag(j) /\ r \in receipts /\ r.settled
      BY <1>1, <2>7, ReceiptsOfAWindow
    <2> QED BY <2>2, <2>5, <2>7, <2>8 DEF Counts, Bag
  <1> QED BY <1>2, <1>3

(* What a carried receipt is carried for.                                  *)
LEMMA CarriedFor ==
  ASSUME IInv, Balanced, NEW i \in Windows, NEW r \in CarriedReceipts(i)
  PROVE  \E s \in rows : /\ s.win = Across(i, Edge(i, r)) /\ s.ref = r.ref
                         /\ Decision \/ Same(r, s)
  <1>1. CASE CarriedOpening(i, r)
    <2>1. PICK s \in InsideRows(i - 1) : s.ref = r.ref /\ (Decision \/ Same(r, s))
      BY <1>1 DEF CarriedOpening, NamedByPrev, AdjacentNames
    <2>2. s \in rows /\ s.win = i - 1
      BY DEF InsideRows, Row
    <2> QED BY <1>1, <2>1, <2>2 DEF Across, Edge
  <1>2. CASE ~CarriedOpening(i, r)
    <2>1. CarriedClosing(i, r)
      BY <1>2 DEF CarriedReceipts
    <2>2. PICK s \in InsideRows(i + 1) : s.ref = r.ref /\ (Decision \/ Same(r, s))
      BY <2>1 DEF CarriedClosing, NamedByNext, AdjacentNames
    <2>3. s \in rows /\ s.win = i + 1
      BY DEF InsideRows, Row
    <2> QED BY <1>2, <2>2, <2>3 DEF Across, Edge
  <1> QED BY <1>1, <1>2

LEMMA ReceiptHasRow ==
  ASSUME IInv, Balanced, NEW r \in receipts, r.settled
  PROVE  \E s \in rows : Counts(r, s)
  <1> DEFINE i == r.bag
  <1>1. World /\ i \in Windows /\ r \in Bag(i)
    BY NothingIsSaid DEF World, ReceiptIsWhole, Bag
  <1>2. r \in Naming(i) /\ r \in SingleReceipts(i)
    BY <1>1, BagsAreInOrder, LeftoversAreCarried
  <1>3. CASE r.ref \in Refs(SingleRows(i))
    <2>1. PICK s \in SingleRows(i) : s.ref = r.ref
      BY <1>3 DEF Refs
    <2>2. s \in rows /\ s.win = i
      BY DEF SingleRows, Row
    <2> QED BY <2>1, <2>2 DEF Counts
  <1>4. CASE r.ref \notin Refs(SingleRows(i))
    <2>1. r \in CarriedReceipts(i)
      BY <1>1, <1>2, <1>4, LeftoversAreCarried DEF UnmatchedReceipts
    <2>2. PICK s \in rows : s.win = Across(i, Edge(i, r)) /\ s.ref = r.ref
      BY <1>1, <2>1, CarriedFor
    <2> QED BY <2>1, <2>2 DEF Counts
  <1> QED BY <1>3, <1>4

(* A window has one row and one settled receipt of a ref.                  *)
LEMMA OneOfARef ==
  ASSUME IInv, Balanced
  PROVE  /\ \A s, t \in rows : s.win = t.win /\ s.ref = t.ref => s = t
         /\ \A r, q \in receipts : r.settled /\ q.settled /\ r.bag = q.bag /\ r.ref = q.ref => r = q
  <1>1. World
    BY NothingIsSaid
  <1>2. ASSUME NEW s \in rows, NEW t \in rows, s.win = t.win, s.ref = t.ref PROVE s = t
    <2>1. s.win \in Windows /\ s \in Row(s.win) /\ t \in Row(s.win)
      BY <1>1, <1>2 DEF World, RowIsWhole, Row
    <2>2. Repeats(Row(s.win)) = {}
      BY <2>1, NothingRepeats
    <2> QED BY <1>1, <1>2, <2>1, <2>2, RowsOfAWindow
  <1>3. ASSUME NEW r \in receipts, NEW q \in receipts, r.settled, q.settled, r.bag = q.bag, r.ref = q.ref
        PROVE  r = q
    <2>1. r.bag \in Windows /\ r \in Bag(r.bag) /\ q \in Bag(r.bag)
      BY <1>1, <1>3 DEF World, ReceiptIsWhole, Bag
    <2>2. r \in Naming(r.bag) /\ q \in Naming(r.bag) /\ Repeats(Naming(r.bag)) = {}
      BY <1>3, <2>1, BagsAreInOrder, NothingRepeats
    <2> QED BY <1>1, <1>3, <2>2, ReceiptsOfAWindow
  <1> QED BY <1>2, <1>3

(* The uses of a ref the run counts are the windows of the receipts that   *)
(* count for its row: there is one.                                        *)
LEMMA CountingIsAUse ==
  ASSUME IInv, Balanced, NEW r, NEW s, Counts(r, s)
  PROVE  r.bag \in Uses(s.win, s.ref)
  <1>1. World /\ phase = "done" /\ r.bag \in Windows /\ s.win \in Windows /\ r \in Bag(r.bag) /\ s \in Row(s.win)
    BY NothingIsSaid DEF Counts, World, RowIsWhole, ReceiptIsWhole, Bag, Row
  <1>2. ~refused[r.bag]
    BY <1>1, NothingIsSaid
  <1>3. CASE r.bag = s.win
    <2>1. s \in SingleRows(r.bag) /\ r \in SingleReceipts(r.bag) /\ r.ref = s.ref
      BY <1>1, <1>3, BagsAreInOrder, LeftoversAreCarried DEF Counts
    <2>2. s.ref \in Refs(SingleRows(r.bag) \ UnmatchedRows(r.bag))
      BY <2>1 DEF UnmatchedRows, Refs
    <2>3. s.ref \in details[r.bag].matched
      BY <1>1, <1>2, <2>2, OwnReport
    <2> QED BY <1>1, <1>3, <2>3 DEF Uses
  <1>4. CASE r \in CarriedReceipts(r.bag) /\ Across(r.bag, Edge(r.bag, r)) = s.win
    <2>1. [ref |-> r.ref, edge |-> Edge(r.bag, r)] \in AuditDetailed(r.bag).carried
      BY <1>2, <1>4 DEF AuditDetailed, Edge
    <2>2. [ref |-> r.ref, edge |-> Edge(r.bag, r)] \in details[r.bag].carried
      BY <1>1, <2>1, AtTheEnd
    <2>3. r.ref = s.ref
      BY DEF Counts
    <2> QED BY <1>1, <1>4, <2>2, <2>3 DEF Uses
  <1> QED BY <1>3, <1>4 DEF Counts

LEMMA OneCountsForARow ==
  ASSUME IInv, Balanced, NEW r, NEW q, NEW s, Counts(r, s), Counts(q, s)
  PROVE  r = q
  <1>1. World /\ RunFindings = {} /\ s.win \in Windows /\ s.ref \in Ref
    BY NothingIsSaid DEF Counts, World, RowIsWhole
  <1> DEFINE uses == Uses(s.win, s.ref)
  <1>2. IsFiniteSet(uses)
    <2>1. IsFiniteSet(Windows)
      BY <1>1, WindowBounds, FS_Interval
    <2>2. uses \in SUBSET Windows
      BY DEF Uses
    <2> QED BY <2>1, <2>2, FS_Subset
  <1>3. ~(Cardinality(uses) > 1)
    <2>1. Named("duplicate-ref", "row", {ref \in Ref : \E i \in Windows : Cardinality(Uses(i, ref)) > 1}) = {}
      BY <1>1 DEF RunFindings
    <2>2. {ref \in Ref : \E i \in Windows : Cardinality(Uses(i, ref)) > 1} = {}
      BY <2>1, NamedNone
    <2> QED BY <1>1, <2>2
  <1>4. r.bag \in uses /\ q.bag \in uses
    BY CountingIsAUse
  <1> HIDE DEF uses
  <1>5. r.bag = q.bag
    BY <1>2, <1>3, <1>4, AtMostOne
  <1> QED BY <1>5, OneOfARef DEF Counts

(* A receipt that has a row in its own window is not carried, and one that *)
(* is carried is carried over one edge.                                    *)
LEMMA OneRowIsCounted ==
  ASSUME IInv, Balanced, NEW r, NEW s, NEW t, Counts(r, s), Counts(r, t)
  PROVE  s = t
  <1>1. World /\ r.bag \in Windows /\ r.ref = s.ref /\ r.ref = t.ref /\ s \in rows /\ t \in rows
    BY NothingIsSaid DEF Counts, World, ReceiptIsWhole
  <1>2. ASSUME NEW x \in rows, x.win = r.bag, x.ref = r.ref PROVE r \notin CarriedReceipts(r.bag)
    <2>1. x \in SingleRows(r.bag)
      BY <1>1, <1>2, LeftoversAreCarried DEF Row
    <2> QED BY <1>2, <2>1 DEF CarriedReceipts, UnmatchedReceipts, Refs
  <1>3. s.win = t.win
    BY <1>1, <1>2 DEF Counts
  <1> QED BY <1>1, <1>3, OneOfARef

LEMMA CountedIsSame ==
  ASSUME IInv, Balanced, NEW r, NEW s, Counts(r, s)
  PROVE  Decision \/ Same(r, s)
  <1>1. World /\ r.bag \in Windows /\ r \in Bag(r.bag) /\ r.ref = s.ref /\ s \in rows
    BY NothingIsSaid DEF Counts, World, ReceiptIsWhole, Bag
  <1>2. CASE r.bag = s.win
    <2>1. s \in Row(r.bag) /\ r \in Naming(r.bag)
      BY <1>1, <1>2, BagsAreInOrder DEF Counts, Row
    <2> QED BY <1>1, <2>1, LeftoversAreCarried
  <1>3. CASE r \in CarriedReceipts(r.bag) /\ Across(r.bag, Edge(r.bag, r)) = s.win
    <2>1. PICK x \in rows : /\ x.win = Across(r.bag, Edge(r.bag, r)) /\ x.ref = r.ref
                            /\ Decision \/ Same(r, x)
      BY <1>1, <1>3, CarriedFor
    <2>2. x = s
      BY <1>1, <1>3, <2>1, OneOfARef
    <2> QED BY <2>1, <2>2
  <1> QED BY <1>2, <1>3 DEF Counts

(* One receipt handed in twice is in two windows only if its time is, and  *)
(* windows in order have no time in common.                                *)
LEMMA HandedInOnce ==
  ASSUME IInv, Balanced, NEW r \in receipts, NEW q \in receipts, r.settled, q.settled, r.id = q.id
  PROVE  r = q
  <1>1. World /\ TilingOk /\ SameReceipt(r, q)
    BY NothingIsSaid DEF World
  <1>2. /\ r.bag \in Windows /\ q.bag \in Windows /\ r.ts \in Int
        /\ r \in Bag(r.bag) /\ q \in Bag(q.bag)
    BY <1>1 DEF World, ReceiptIsWhole, Bag
  <1>3. InWindow(r.ts, r.bag) /\ InWindow(r.ts, q.bag)
    BY <1>1, <1>2, BagsAreInOrder DEF SameReceipt
  <1>4. r.bag = q.bag
    BY <1>1, <1>2, <1>3, OneWindow
  <1> QED BY <1>1, <1>4, OneOfARef DEF SameReceipt

-----------------------------------------------------------------------------
(* Rows and settled receipts pair off, ref by ref and currency by currency. *)

LEMMA PairsAreABijection ==
  ASSUME NEW S, NEW T, NEW M,
         \A s \in S : \E t \in T : <<s, t>> \in M,
         \A t \in T : \E s \in S : <<s, t>> \in M,
         \A s \in S : \A t, u \in T : <<s, t>> \in M /\ <<s, u>> \in M => t = u,
         \A t \in T : \A s, u \in S : <<s, t>> \in M /\ <<u, t>> \in M => s = u
  PROVE  \E f \in Bijection(S, T) : \A s \in S : <<s, f[s]>> \in M
  <1> DEFINE f == [s \in S |-> CHOOSE t \in T : <<s, t>> \in M]
  <1>1. \A s \in S : f[s] \in T /\ <<s, f[s]>> \in M
    OBVIOUS
  <1>2. f \in [S -> T]
    BY <1>1
  <1> HIDE DEF f
  <1>3. \A s, u \in S : f[s] = f[u] => s = u
    BY <1>1
  <1>4. \A t \in T : \E s \in S : f[s] = t
    BY <1>1
  <1>5. f \in Bijection(S, T)
    BY <1>2, <1>3, <1>4, Fun_IsBij
  <1> QED BY <1>1, <1>5

Distinct(r) == [id |-> r.id, amount |-> r.amount, unit |-> r.unit]

LEMMA RefPairsOff ==
  ASSUME IInv, Balanced, NEW ref, NEW S, NEW T,
         S \subseteq RowsOf(ref), T \subseteq DistinctSettled(ref),
         \A r, s : Counts(r, s) /\ s.ref = ref => (s \in S <=> Distinct(r) \in T)
  PROVE  \E f \in Bijection(S, T) : \A s \in S : \E r : Counts(r, s) /\ f[s] = Distinct(r)
  <1> DEFINE M == {m \in S \X T : \E r : Counts(r, m[1]) /\ m[2] = Distinct(r)}
  <1>1. ASSUME NEW s \in S PROVE \E t \in T : <<s, t>> \in M
    <2>1. s \in rows /\ s.ref = ref
      BY DEF RowsOf
    <2>2. PICK r \in receipts : Counts(r, s)
      BY <2>1, RowHasReceipt
    <2>3. Distinct(r) \in T
      BY <2>1, <2>2
    <2> QED BY <2>2, <2>3
  <1>2. ASSUME NEW t \in T PROVE \E s \in S : <<s, t>> \in M
    <2>1. PICK r \in receipts : r.settled /\ r.ref = ref /\ t = Distinct(r)
      BY DEF DistinctSettled, Distinct
    <2>2. PICK s \in rows : Counts(r, s)
      BY <2>1, ReceiptHasRow
    <2>3. s \in S
      BY <2>1, <2>2 DEF Counts
    <2> QED BY <2>1, <2>2, <2>3
  <1>3. ASSUME NEW s \in S, NEW t \in T, NEW u \in T, <<s, t>> \in M, <<s, u>> \in M PROVE t = u
    <2>1. PICK r, q : Counts(r, s) /\ t = Distinct(r) /\ Counts(q, s) /\ u = Distinct(q)
      BY <1>3
    <2> QED BY <2>1, OneCountsForARow
  <1>4. ASSUME NEW t \in T, NEW s \in S, NEW u \in S, <<s, t>> \in M, <<u, t>> \in M PROVE s = u
    <2>1. PICK r, q : Counts(r, s) /\ t = Distinct(r) /\ Counts(q, u) /\ t = Distinct(q)
      BY <1>4
    <2>2. r.id = q.id /\ r \in receipts /\ q \in receipts /\ r.settled /\ q.settled
      BY <2>1 DEF Distinct, Counts
    <2>3. r = q
      BY <2>2, HandedInOnce
    <2> QED BY <2>1, <2>3, OneRowIsCounted
  <1> HIDE DEF M
  <1>5. PICK f \in Bijection(S, T) : \A s \in S : <<s, f[s]>> \in M
    BY <1>1, <1>2, <1>3, <1>4, PairsAreABijection
  <1>6. \A s \in S : \E r : Counts(r, s) /\ f[s] = Distinct(r)
    BY <1>5 DEF M
  <1> QED BY <1>5, <1>6

LEMMA RefIsCovered ==
  ASSUME IInv, Balanced, NEW ref
  PROVE  /\ ~Decision => \A u : Total({s \in RowsOf(ref) : s.unit = u})
                                 = Total({r \in DistinctSettled(ref) : r.unit = u})
         /\ Decision => Cardinality(RowsOf(ref)) = Cardinality(DistinctSettled(ref))
  <1>1. HasAmounts(RowsOf(ref))
    <2>1. HasAmounts(rows)
      BY NothingIsSaid DEF World, RowIsWhole, HasAmounts
    <2> QED BY <2>1, SubsetHasAmounts DEF RowsOf
  <1>2. \A r, s : Counts(r, s) /\ s.ref = ref => s \in RowsOf(ref) /\ Distinct(r) \in DistinctSettled(ref)
    BY DEF Counts, RowsOf, DistinctSettled, Distinct
  <1>3. ASSUME ~Decision, NEW u
        PROVE  Total({s \in RowsOf(ref) : s.unit = u}) = Total({r \in DistinctSettled(ref) : r.unit = u})
    <2> DEFINE S == {s \in RowsOf(ref) : s.unit = u}
               T == {r \in DistinctSettled(ref) : r.unit = u}
    <2>1. \A r, s : Counts(r, s) /\ s.ref = ref => (s \in S <=> Distinct(r) \in T)
      <3> SUFFICES ASSUME NEW r, NEW s, Counts(r, s), s.ref = ref PROVE s \in S <=> Distinct(r) \in T
        OBVIOUS
      <3>1. r.unit = s.unit /\ Distinct(r).unit = r.unit
        BY <1>3, CountedIsSame DEF Same, Distinct
      <3> QED BY <1>2, <3>1
    <2>2. S \subseteq RowsOf(ref) /\ T \subseteq DistinctSettled(ref)
      OBVIOUS
    <2> HIDE DEF S, T
    <2>3. PICK f \in Bijection(S, T) : \A s \in S : \E r : Counts(r, s) /\ f[s] = Distinct(r)
      BY <2>1, <2>2, RefPairsOff
    <2>4. \A s \in S : f[s].amount = s.amount
      <3> SUFFICES ASSUME NEW s \in S PROVE f[s].amount = s.amount
        OBVIOUS
      <3>1. PICK r : Counts(r, s) /\ f[s] = Distinct(r)
        BY <2>3
      <3>2. r.amount = s.amount
        BY <1>3, <3>1, CountedIsSame DEF Same
      <3> QED BY <3>1, <3>2 DEF Distinct
    <2>5. HasAmounts(S)
      BY <1>1, <2>2, SubsetHasAmounts
    <2>6. Total(T) = Total(S)
      BY <2>3, <2>4, <2>5, TotalOfPairs
    <2> QED BY <2>6 DEF S, T
  <1>4. Cardinality(RowsOf(ref)) = Cardinality(DistinctSettled(ref))
    <2>1. PICK f \in Bijection(RowsOf(ref), DistinctSettled(ref)) : TRUE
      BY <1>2, RefPairsOff
    <2>2. ExistsBijection(RowsOf(ref), DistinctSettled(ref))
      BY <2>1 DEF ExistsBijection
    <2> QED BY <1>1, <2>2, FS_Bijection DEF HasAmounts
  <1> QED BY <1>3, <1>4

(* Over any number of windows, with documents filed, handed in and refused *)
(* in any way: a run that balances without a condition has, ref by ref,    *)
(* exactly the settled receipts for its rows, in each currency, each       *)
(* receipt counted once.  The pairing is the run's own: a row with the     *)
(* receipt of its window, or with the one that runWindows resolved it by.  *)
THEOREM WindowsBalancedMeansCovered == Spec => []BalancedMeansCovered
  <1>1. IInv => BalancedMeansCovered
    BY RefIsCovered DEF BalancedMeansCovered
  <1> QED BY <1>1, InitInv, NextInv, PTL DEF Spec

-----------------------------------------------------------------------------
(* A run over what was honestly done.                                      *)

LEMMA ExactlyOneThing ==
  ASSUME NEW S, IsFiniteSet(S), NEW T, T \subseteq S, Cardinality(T) = 1
  PROVE  \E x : T = {x}
  <1>1. IsFiniteSet(T)
    BY FS_Subset
  <1> QED BY <1>1, FS_Singleton

Honest == World /\ HonestWorld /\ WindowsAreLong

LEMMA HonestPayment ==
  ASSUME Honest
  PROVE  /\ \A s \in rows : InWindow(s.ts, s.win) /\ \E r \in receipts : Pairs(s, r)
         /\ \A s, t \in rows : s.ref = t.ref => s = t
         /\ \A r \in receipts : InWindow(r.ts, r.bag) /\ (r.settled => \E s \in rows : Pairs(s, r))
         /\ \A r, q \in receipts : r.settled /\ q.settled /\ r.ref = q.ref => r = q
  <1>1. IsFiniteSet(rows) /\ IsFiniteSet(receipts)
    BY DEF Honest, World
  <1>2. ASSUME NEW s \in rows
        PROVE  /\ InWindow(s.ts, s.win) /\ \E r \in receipts : Pairs(s, r)
               /\ \A t \in rows : s.ref = t.ref => s = t
    <2> DEFINE paired == {r \in receipts : Pairs(s, r)}
               named == {x \in rows : x.ref = s.ref}
    <2>1. InWindow(s.ts, s.win) /\ Cardinality(paired) = 1 /\ Cardinality(named) = 1
      BY DEF Honest, HonestWorld, HonestPayments, ExactlyOne
    <2>2. paired \subseteq receipts /\ named \subseteq rows
      OBVIOUS
    <2>3. (\E x : paired = {x}) /\ (\E x : named = {x})
      <3> HIDE DEF paired, named
      <3> QED BY <1>1, <2>1, <2>2, ExactlyOneThing
    <2>4. \E r \in receipts : Pairs(s, r)
      BY <2>3
    <2>5. \A t \in rows : t.ref = s.ref => t \in named
      OBVIOUS
    <2>6. s \in named
      OBVIOUS
    <2> HIDE DEF paired, named
    <2> QED BY <2>1, <2>3, <2>4, <2>5, <2>6
  <1>3. ASSUME NEW r \in receipts
        PROVE  /\ InWindow(r.ts, r.bag)
               /\ r.settled => /\ \E s \in rows : Pairs(s, r)
                               /\ \A q \in receipts : q.settled /\ r.ref = q.ref => r = q
    <2> DEFINE paired == {s \in rows : Pairs(s, r)}
               named == {x \in receipts : x.settled /\ x.ref = r.ref}
    <2>1. /\ InWindow(r.ts, r.bag)
          /\ r.settled => Cardinality(paired) = 1 /\ Cardinality(named) = 1
      BY DEF Honest, HonestWorld, HonestPayments, ExactlyOne
    <2>2. paired \subseteq rows /\ named \subseteq receipts
      OBVIOUS
    <2>3. r.settled => (\E x : paired = {x}) /\ (\E x : named = {x})
      <3> HIDE DEF paired, named
      <3> QED BY <1>1, <2>1, <2>2, ExactlyOneThing
    <2>4. r.settled => \E s \in rows : Pairs(s, r)
      BY <2>3
    <2>5. \A q \in receipts : q.settled /\ r.ref = q.ref => q \in named
      OBVIOUS
    <2>6. r.settled => r \in named
      OBVIOUS
    <2> HIDE DEF paired, named
    <2> QED BY <2>1, <2>3, <2>4, <2>5, <2>6
  <1> QED BY <1>2, <1>3

(* Two clocks closer than the allowance are in one window or in two that   *)
(* meet, each near the edge between them.                                  *)
LEMMA HonestNeighbours ==
  ASSUME Honest, NEW s \in rows, NEW r \in receipts, Pairs(s, r)
  PROVE  /\ s.win \in Windows /\ r.bag \in Windows
         /\ \/ r.bag = s.win
            \/ /\ r.bag = s.win + 1 /\ NearClose(s.win, s.ts) /\ NearOpen(r.bag, r.ts)
            \/ /\ r.bag = s.win - 1 /\ NearOpen(s.win, s.ts) /\ NearClose(r.bag, r.ts)
  <1> DEFINE i == s.win
             j == r.bag
  <1>1. /\ World /\ TilingOk /\ i \in Windows /\ j \in Windows /\ s.ts \in Int /\ r.ts \in Int
        /\ \A k \in Windows : bounds[k].end - bounds[k].start >= Skew
    BY DEF Honest, World, RowIsWhole, ReceiptIsWhole, HonestWorld, WindowsAreLong
  <1>2. /\ bounds[i].start <= s.ts /\ s.ts < bounds[i].end
        /\ bounds[j].start <= r.ts /\ r.ts < bounds[j].end
        /\ s.ts < r.ts + Skew /\ r.ts < s.ts + Skew
    BY HonestPayment DEF InWindow, Pairs
  <1>3. \A k \in Windows : k # N => k + 1 \in Windows /\ bounds[k].end = bounds[k + 1].start
    <2> SUFFICES ASSUME NEW k \in Windows, k # N PROVE k + 1 \in Windows /\ bounds[k].end = bounds[k + 1].start
      OBVIOUS
    <2>1. k + 1 \in Windows /\ k \in 1 .. N - 1
      BY <1>1, WindowBounds
    <2> QED BY <1>1, <2>1 DEF TilingOk, Meets
  <1> HIDE DEF i, j
  <1>4. ASSUME i < j PROVE j = i + 1 /\ NearClose(i, s.ts) /\ NearOpen(j, r.ts)
    <2>1. i # N /\ i + 1 \in Windows /\ bounds[i].end = bounds[i + 1].start
      BY <1>1, <1>3, <1>4, WindowBounds
    <2>2. j = i + 1
      <3> SUFFICES ASSUME i + 1 < j PROVE FALSE
        BY <1>1, <1>4, WindowBounds
      <3>1. bounds[i + 1].end <= bounds[j].start
        BY <1>1, <2>1, WindowsInOrder
      <3>2. /\ bounds[i + 1].end - bounds[i + 1].start >= Skew /\ Skew \in Nat
            /\ bounds[i + 1].end \in Int /\ bounds[i + 1].start \in Int
            /\ bounds[j].start \in Int /\ bounds[i].end \in Int
        BY <1>1, <2>1, WindowBounds
      <3> QED BY <1>1, <1>2, <2>1, <3>1, <3>2
    <2>3. Skew \in Nat /\ bounds[j].start \in Int /\ bounds[i].end \in Int
      BY <1>1, WindowBounds
    <2> QED BY <1>1, <1>2, <2>1, <2>2, <2>3 DEF NearClose, NearOpen
  <1>5. ASSUME j < i PROVE j = i - 1 /\ NearOpen(i, s.ts) /\ NearClose(j, r.ts)
    <2>1. j # N /\ j + 1 \in Windows /\ bounds[j].end = bounds[j + 1].start
      BY <1>1, <1>3, <1>5, WindowBounds
    <2>2. i = j + 1
      <3> SUFFICES ASSUME j + 1 < i PROVE FALSE
        BY <1>1, <1>5, WindowBounds
      <3>1. bounds[j + 1].end <= bounds[i].start
        BY <1>1, <2>1, WindowsInOrder
      <3>2. /\ bounds[j + 1].end - bounds[j + 1].start >= Skew /\ Skew \in Nat
            /\ bounds[j + 1].end \in Int /\ bounds[j + 1].start \in Int
            /\ bounds[i].start \in Int /\ bounds[j].end \in Int
        BY <1>1, <2>1, WindowBounds
      <3> QED BY <1>1, <1>2, <2>1, <3>1, <3>2
    <2>3. Skew \in Nat /\ bounds[i].start \in Int /\ bounds[j].end \in Int /\ j \in Int
      BY <1>1, WindowBounds
    <2> QED BY <1>1, <1>2, <2>1, <2>2, <2>3 DEF NearClose, NearOpen
  <1>6. i \in Int /\ j \in Int
    BY <1>1, WindowBounds
  <1> QED BY <1>1, <1>4, <1>5, <1>6 DEF i, j

LEMMA HonestDocuments ==
  ASSUME Honest
  PROVE  World /\ TilingOk /\ \A i \in Windows : ~refused[i] /\ OutsideRows(i) = {}
  <1>1. World /\ TilingOk /\ \A i \in Windows : ~refused[i]
    BY DEF Honest, HonestWorld
  <1>2. \A i : OutsideRows(i) = {}
    BY HonestPayment DEF OutsideRows, Row
  <1> QED BY <1>1, <1>2

LEMMA HonestSingles ==
  ASSUME Honest, NEW i \in Windows
  PROVE  /\ Repeats(Row(i)) = {} /\ Skip(i) = {} /\ SingleRows(i) = Row(i)
         /\ SingleReceipts(i) = {r \in Bag(i) : r.settled}
         /\ \A r \in Bag(i) : r.settled => r.ref # NoRef
  <1>1. \A r \in Bag(i) : r.settled => r.ref # NoRef
    <2> SUFFICES ASSUME NEW r \in Bag(i), r.settled PROVE r.ref # NoRef
      OBVIOUS
    <2>1. PICK s \in rows : Pairs(s, r)
      BY HonestPayment DEF Bag
    <2> QED BY <2>1 DEF Pairs, Honest, World, RowIsWhole
  <1>2. Naming(i) = {r \in Bag(i) : r.settled}
    BY <1>1, HonestPayment DEF Naming, Settled, InScope, Bag
  <1>3. Repeats(Row(i)) = {} /\ Repeats(Naming(i)) = {}
    BY <1>2, HonestPayment DEF Repeats, Row, Bag
  <1> QED BY <1>1, <1>2, <1>3 DEF Skip, SingleRows, SingleReceipts

(* A receipt whose row is across an edge is carried over that edge.        *)
LEMMA HonestCarried ==
  ASSUME Honest, NEW s \in rows, NEW r \in receipts, Pairs(s, r), r.bag # s.win
  PROVE  /\ r \in CarriedReceipts(r.bag)
         /\ Edge(r.bag, r) = IF r.bag = s.win + 1 THEN "opening" ELSE "closing"
  <1> DEFINE i == s.win
             j == r.bag
  <1>1. i \in Windows /\ j \in Windows /\ i \in Int /\ j \in Int /\ r \in Bag(j) /\ s \in Row(i) /\ r.settled /\ r.ref = s.ref
    BY HonestNeighbours, HonestDocuments, WindowBounds DEF Bag, Row, Pairs
  <1>2. r \in UnmatchedReceipts(j)
    <2>1. r \in SingleReceipts(j) /\ SingleRows(j) = Row(j)
      BY <1>1, HonestSingles
    <2>2. r.ref \notin Refs(Row(j))
      BY <1>1, HonestPayment DEF Refs, Row
    <2> QED BY <2>1, <2>2 DEF UnmatchedReceipts
  <1>3. Same(r, s)
    BY DEF Pairs
  <1>4. CASE j = i + 1
    <2>1. NearClose(i, s.ts) /\ NearOpen(j, r.ts) /\ i = j - 1
      BY <1>1, <1>4, HonestNeighbours
    <2>2. ConsecutivePrev(j) /\ InsideRows(j - 1) = Row(j - 1)
      <3>1. j # 1
        BY <1>1, <1>4, HonestDocuments, WindowBounds
      <3> QED BY <1>1, <3>1, HonestDocuments, EndsAreOpen
    <2>3. s \in InsideRows(j - 1) /\ s.ts >= bounds[j - 1].end - Skew
      BY <1>1, <2>1, <2>2 DEF NearClose
    <2>4. CarriedOpening(j, r)
      BY <1>1, <1>3, <2>1, <2>2, <2>3 DEF CarriedOpening, NamedByPrev, AdjacentNames
    <2> QED BY <1>2, <1>4, <2>4 DEF CarriedReceipts, Edge
  <1>5. CASE j # i + 1
    <2>1. NearOpen(i, s.ts) /\ NearClose(j, r.ts) /\ i = j + 1
      BY <1>1, <1>5, HonestNeighbours
    <2>2. Consecutive(j) /\ InsideRows(j + 1) = Row(j + 1)
      <3>1. j # N
        BY <1>1, <2>1, HonestDocuments, WindowBounds
      <3> QED BY <1>1, <3>1, HonestDocuments, EndsAreOpen
    <2>3. s \in InsideRows(j + 1) /\ s.ts < bounds[j + 1].start + Skew
      BY <1>1, <2>1, <2>2 DEF NearOpen
    <2>4. CarriedClosing(j, r)
      BY <1>1, <1>3, <2>1, <2>2, <2>3 DEF CarriedClosing, NamedByNext, AdjacentNames
    <2>5. ~CarriedOpening(j, r)
      <3> SUFFICES ASSUME CarriedOpening(j, r) PROVE FALSE
        OBVIOUS
      <3>1. PICK x \in rows : x.win = j - 1 /\ x.ref = r.ref
        BY DEF CarriedOpening, NamedByPrev, AdjacentNames, InsideRows, Row
      <3>2. x = s
        BY <1>1, <3>1, HonestPayment
      <3> QED BY <1>1, <2>1, <3>1, <3>2
    <2> QED BY <1>2, <1>5, <2>4, <2>5 DEF CarriedReceipts, Edge
  <1> QED BY <1>4, <1>5

(* So nothing is hard, no receipt is left, and each row that is left is    *)
(* resolved by what its neighbour carried.                                 *)
LEMMA HonestLeftovers ==
  ASSUME IInv, phase = "done", Honest, NEW i \in Windows
  PROVE  /\ HardReceipts(i) = {} /\ DeferredReceipts(i) = {} /\ HardRows(i) = {}
         /\ details[i].deferredRows = ResolvedRows(i)
         /\ Refs(DeferredRows(i)) \subseteq Refs(ResolvedRows(i))
  <1>1. ASSUME NEW r \in UnmatchedReceipts(i) PROVE r \in CarriedReceipts(i)
    <2>1. r \in SingleReceipts(i) /\ r.ref \notin Refs(Row(i))
      BY HonestSingles DEF UnmatchedReceipts
    <2>2. r \in receipts /\ r.settled /\ r.bag = i
      BY <2>1, HonestSingles DEF Bag
    <2>3. PICK s \in rows : Pairs(s, r)
      BY <2>2, HonestPayment
    <2>4. s.win # i
      BY <2>1, <2>3 DEF Pairs, Refs, Row
    <2> QED BY <2>2, <2>3, <2>4, HonestCarried
  <1>2. ASSUME NEW s \in UnmatchedRows(i)
        PROVE  /\ s \in DeferredRows(i)
               /\ [ref |-> s.ref, edges |-> Edges(i, s)] \in details[i].deferredRows
                    => [ref |-> s.ref, edges |-> Edges(i, s)] \in ResolvedRows(i)
    <2> DEFINE d == [ref |-> s.ref, edges |-> Edges(i, s)]
    <2>1. s \in Row(i) /\ s.ref \notin Refs(SingleReceipts(i))
      BY HonestSingles DEF UnmatchedRows
    <2>2. s \in rows /\ s.win = i
      BY <2>1 DEF Row
    <2>3. PICK r \in receipts : Pairs(s, r)
      BY <2>2, HonestPayment
    <2> DEFINE j == r.bag
               e == IF j = i + 1 THEN "closing" ELSE "opening"
    <2>4. r.settled /\ r.ref = s.ref
      BY <2>3 DEF Pairs
    <2>5. j # i
      BY <2>1, <2>4, HonestSingles DEF Refs, Bag
    <2>6. /\ i \in 1 .. N /\ j \in 1 .. N /\ N \in Nat /\ j \in Windows
          /\ \/ j = i + 1 /\ NearClose(i, s.ts)
             \/ j = i - 1 /\ NearOpen(i, s.ts)
      BY <2>2, <2>3, <2>5, HonestNeighbours, HonestDocuments, WindowBounds
    <2>7. s \in DeferredRows(i)
      BY <2>6 DEF DeferredRows
    <2>8. e \in Edges(i, s) /\ IsInner(i, e) /\ Across(i, e) = j
      BY <2>6 DEF Edges, IsInner, Across
    <2>9. r \in CarriedReceipts(j) /\ Edge(j, r) = Facing(e)
      BY <2>2, <2>3, <2>5, HonestCarried DEF Facing
    <2>10. [ref |-> s.ref, edge |-> Facing(e)] \in details[j].carried
      <3>1. [ref |-> r.ref, edge |-> Edge(j, r)] \in AuditDetailed(j).carried
        BY <2>6, <2>9, HonestDocuments DEF AuditDetailed, Edge
      <3> QED BY <2>4, <2>6, <2>9, <3>1, AtTheEnd
    <2> HIDE DEF e, j
    <2>11. CarriedAcross(i, d)
      BY <2>8, <2>10 DEF CarriedAcross, InnerEdges
    <2> QED BY <2>7, <2>11 DEF ResolvedRows
  <1>3. \A d \in details[i].deferredRows :
          \E s \in UnmatchedRows(i) : d = [ref |-> s.ref, edges |-> Edges(i, s)]
    <2>1. details[i].deferredRows = {[ref |-> s.ref, edges |-> Edges(i, s)] : s \in DeferredRows(i)}
      BY HonestDocuments, OwnReport
    <2> QED BY <2>1 DEF DeferredRows
  <1>4. details[i].deferredRows = ResolvedRows(i)
    <2>1. \A d \in details[i].deferredRows : d \in ResolvedRows(i)
      BY <1>2, <1>3
    <2> QED BY <2>1 DEF ResolvedRows
  <1>5. Refs(DeferredRows(i)) \subseteq Refs(ResolvedRows(i))
    <2> SUFFICES ASSUME NEW s \in DeferredRows(i) PROVE s.ref \in Refs(ResolvedRows(i))
      BY DEF Refs
    <2>1. details[i].deferredRows = {[ref |-> t.ref, edges |-> Edges(i, t)] : t \in DeferredRows(i)}
      BY HonestDocuments, OwnReport
    <2>2. [ref |-> s.ref, edges |-> Edges(i, s)] \in ResolvedRows(i)
      BY <1>4, <2>1
    <2> QED BY <2>2 DEF Refs
  <1> QED BY <1>1, <1>2, <1>4, <1>5 DEF HardReceipts, DeferredReceipts, HardRows

(* A use of a ref is in the bag of a settled receipt of that ref: of an    *)
(* honest payment there is one.                                            *)
LEMMA HonestUses ==
  ASSUME IInv, phase = "done", Honest, NEW i \in Windows, NEW ref
  PROVE  ~(Cardinality(Uses(i, ref)) > 1)
  <1>1. ASSUME NEW j \in Uses(i, ref)
        PROVE  \E r \in receipts : r.settled /\ r.ref = ref /\ r.bag = j
    <2>1. j \in Windows /\ World /\ ~refused[j] /\ details[j] = AuditDetailed(j)
      BY HonestDocuments, AtTheEnd DEF Uses
    <2>2. \A r \in SingleReceipts(j) : r \in receipts /\ r.settled /\ r.bag = j
      BY <2>1, ReceiptsOfAWindow DEF Bag
    <2>3. CASE ref \in details[j].matched
      <3>1. ref \in Refs(SingleRows(j) \ UnmatchedRows(j))
        BY <2>1, <2>3, OwnReport
      <3>2. ref \in Refs(SingleReceipts(j))
        BY <3>1 DEF UnmatchedRows, Refs
      <3> QED BY <2>2, <3>2 DEF Refs
    <2>4. CASE \E c \in details[j].carried : c.ref = ref
      <3>1. PICK r \in CarriedReceipts(j) : r.ref = ref
        BY <2>1, <2>4, CarriedIsOfAReceipt
      <3> QED BY <2>1, <2>2, <3>1, ReceiptsOfAWindow
    <2> QED BY <2>3, <2>4 DEF Uses
  <1>2. \A j, k \in Uses(i, ref) : j = k
    BY <1>1, HonestPayment
  <1>3. Uses(i, ref) = {} \/ \E j : Uses(i, ref) = {j}
    BY <1>2
  <1> QED BY <1>3, FS_EmptySet, FS_Singleton

LEMMA HonestReport ==
  ASSUME IInv, phase = "done", Honest, NEW i \in Windows
  PROVE  /\ details[i].findings = {}
         /\ details[i].warnings \subseteq Named("boundary-deferred", "row", Refs(ResolvedRows(i)))
  <1>1. \A code, kind : Named(code, kind, {}) = {}
    BY DEF Named
  <1>2. World /\ TilingOk /\ \A j \in Windows : ~refused[j] /\ OutsideRows(j) = {}
    BY HonestDocuments
  <1>3. SelfFindings(i) = {}
    <2>1. Ids({r \in Spends(i) : r.ref = NoRef}) = {}
      BY HonestSingles DEF Spends, Ids
    <2>2. Repeats({r \in Spends(i) : r.ref # NoRef}) = {}
      BY HonestPayment DEF Spends, Bag, Repeats
    <2>3. Ids({r \in Bag(i) : ~InWindow(r.ts, i)}) = {}
      BY HonestPayment DEF Bag, Ids
    <2> QED BY <1>1, <2>1, <2>2, <2>3 DEF SelfFindings
  <1>4. ExtractFindings(i) = {}
    <2>1. Refs({}) = {}
      BY DEF Refs
    <2>2. Refs(OutsideRows(i)) = {}
      BY <1>2, <2>1
    <2>3. (IF NextOk(i) THEN Refs(OutsideRows(i + 1)) ELSE {}) = {}
      BY <1>2, <2>1 DEF NextOk, ExtractVerifies
    <2>4. (IF PrevOk(i) THEN Refs(OutsideRows(i - 1)) ELSE {}) = {}
      BY <1>2, <2>1 DEF PrevOk, ExtractVerifies
    <2> DEFINE apart == {j \in {i - 1, i + 1} \cap Windows :
                           /\ ~refused[i] /\ ~refused[j]
                           /\ ~(IF j < i THEN Meets(j, i) ELSE Meets(i, j))}
    <2>5. apart = {}
      <3>1. i + 1 \in Windows => Meets(i, i + 1)
        <4> SUFFICES ASSUME i + 1 \in Windows PROVE Meets(i, i + 1)
          OBVIOUS
        <4>1. i \in 1 .. N - 1
          BY <1>2, WindowBounds
        <4> QED BY <1>2, <4>1 DEF TilingOk
      <3>2. i - 1 \in Windows => Meets(i - 1, i)
        <4> SUFFICES ASSUME i - 1 \in Windows PROVE Meets(i - 1, i)
          OBVIOUS
        <4>1. i - 1 \in 1 .. N - 1 /\ (i - 1) + 1 = i
          BY <1>2, WindowBounds
        <4> QED BY <1>2, <4>1 DEF TilingOk
      <3>3. i \in Int
        BY <1>2, WindowBounds
      <3> QED BY <3>1, <3>2, <3>3
    <2> HIDE DEF apart
    <2>6. ExtractFindings(i) =
            Named("extract-scope-mismatch", "row",
                  Refs(OutsideRows(i))
                  \cup (IF NextOk(i) THEN Refs(OutsideRows(i + 1)) ELSE {})
                  \cup (IF PrevOk(i) THEN Refs(OutsideRows(i - 1)) ELSE {}))
            \cup (IF refused[i] THEN {Finding("extract-key-mismatch", <<"extract", i>>)} ELSE {})
            \cup Named("extract-scope-mismatch", "extract", apart)
      BY DEF ExtractFindings, apart
    <2> QED BY <1>1, <1>2, <2>2, <2>3, <2>4, <2>5, <2>6
  <1>5. ClassifyFindings(i) = {}
    <2>1. Repeats(Row(i)) = {} /\ Skip(i) = {} /\ SingleRows(i) = Row(i)
          /\ SingleReceipts(i) = {r \in Bag(i) : r.settled}
      BY HonestSingles
    <2>2. Aggregate(i) = {}
      <3>1. SpendAggregate(i) = {} /\ DecisionAggregate(i) = {}
        BY <2>1 DEF SpendAggregate, DecisionAggregate, Named
      <3> QED BY <3>1 DEF Aggregate
    <2>3. Mismatches(i) = {}
      <3>1. ASSUME NEW s \in SingleRows(i), NEW r \in SingleReceipts(i), r.ref = s.ref PROVE Same(r, s)
        <4>1. s \in rows /\ r \in receipts /\ r.settled
          BY <2>1 DEF Row, Bag
        <4>2. PICK x \in receipts : Pairs(s, x)
          BY <4>1, HonestPayment
        <4>3. x = r
          BY <3>1, <4>1, <4>2, HonestPayment DEF Pairs
        <4> QED BY <4>2, <4>3 DEF Pairs
      <3> QED BY <3>1 DEF Mismatches
    <2>4. UncoveredRows(i) = {}
      <3>1. Refs(HardRows(i)) = {}
        BY HonestLeftovers DEF Refs
      <3> QED BY <1>1, <3>1 DEF UncoveredRows
    <2>5. Ids(HardReceipts(i)) = {}
      BY HonestLeftovers DEF Ids
    <2> QED BY <1>1, <2>1, <2>2, <2>3, <2>4, <2>5 DEF ClassifyFindings
  <1>6. ExtractWarnings(i) = {}
    BY <1>2 DEF ExtractWarnings
  <1>7. ClassifyWarnings(i) \subseteq Named("boundary-deferred", "row", Refs(ResolvedRows(i)))
    <2>1. Named("boundary-deferred", "receipt", Ids(DeferredReceipts(i))) = {}
      BY HonestLeftovers DEF Ids, Named
    <2>2. Named("boundary-deferred", "row", Refs(DeferredRows(i)))
            \subseteq Named("boundary-deferred", "row", Refs(ResolvedRows(i)))
      BY HonestLeftovers DEF Named
    <2> QED BY <2>1, <2>2 DEF ClassifyWarnings
  <1>8. /\ details[i].findings = SelfFindings(i) \cup ExtractFindings(i) \cup ClassifyFindings(i)
        /\ details[i].warnings = ExtractWarnings(i) \cup ClassifyWarnings(i)
    BY <1>2, OwnReport
  <1> QED BY <1>3, <1>4, <1>5, <1>6, <1>7, <1>8

LEMMA HonestRun ==
  ASSUME IInv, phase = "done", Honest
  PROVE  RunFindings = {} /\ RunWarnings = {}
  <1>1. \A code, kind : Named(code, kind, {}) = {}
    BY DEF Named
  <1>2. \A i \in Windows : HardenedRows(i) = {}
    BY HonestLeftovers DEF HardenedRows
  <1>3. UNION {Refs(HardenedRows(i)) : i \in Windows} = {}
    BY <1>2 DEF Refs
  <1>4. {ref \in Ref : \E i \in Windows : Cardinality(Uses(i, ref)) > 1} = {}
    BY HonestUses
  <1>5. RunFindings = {}
    BY <1>1, <1>3, <1>4, HonestDocuments DEF RunFindings
  <1> DEFINE left(i) == details[i].warnings
                        \ Named("boundary-deferred", "row", Refs(ResolvedRows(i) \cup HardenedRows(i)))
  <1>6. \A i \in Windows : left(i) = {}
    <2> SUFFICES ASSUME NEW i \in Windows PROVE left(i) = {}
      OBVIOUS
    <2>1. ResolvedRows(i) \cup HardenedRows(i) = ResolvedRows(i)
      BY <1>2
    <2> QED BY <2>1, HonestReport
  <1>7. RunWarnings = UNION {left(i) : i \in Windows}
    BY DEF RunWarnings
  <1> HIDE DEF left
  <1>8. RunWarnings = {}
    BY <1>6, <1>7
  <1> QED BY <1>5, <1>8

(* Over any number of windows at least as long as the allowance, any       *)
(* number of payments: what was honestly done and completely presented     *)
(* accuses nobody and leaves nothing open, on whichever side of an edge    *)
(* the two clocks put a payment (classifyMatches and runWindows).          *)
THEOREM WindowsHonestRunBalances == Spec => []HonestRunBalances
  <1>1. IInv => HonestRunBalances
    <2> SUFFICES ASSUME IInv, phase = "done", HonestWorld, WindowsAreLong PROVE RunOk /\ Unconditional
      BY DEF HonestRunBalances
    <2>1. Honest
      BY AtTheEnd DEF Honest
    <2>2. run.findings = {} /\ run.warnings = {} /\ \A i \in Windows : details[i].findings = {}
      BY <2>1, AtTheEnd, HonestRun, HonestReport
    <2>3. AllFindings = {}
      BY <2>2 DEF AllFindings
    <2> QED BY <2>2, <2>3 DEF RunOk, Unconditional
  <1> QED BY <1>1, InitInv, NextInv, PTL DEF Spec
=============================================================================
