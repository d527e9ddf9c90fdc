---------------------------- MODULE AuditWindows ----------------------------
(***************************************************************************)
(* The money axis of the audit (audit/src/index.ts and windows.ts): a rail *)
(* settles, an issuer signs receipts, each with its own clock, and a       *)
(* verifier reconciles consecutive windows as one run.  In the decision    *)
(* profile (profiles/decision.ts) a channel reports effects and a decider  *)
(* signs what it allowed or refused, and the same walk reconciles them.    *)
(* A payment near the edge of a window may have its row in one extract and *)
(* its receipt in the bag of the next, so each window defers what the      *)
(* other side of an edge may explain and the run resolves or hardens those *)
(* deferrals.                                                              *)
(*                                                                         *)
(* The verifier pins a rail key and an issuer key; every receipt here is   *)
(* attested, and the checkpoints presented with a window cover exactly     *)
(* that window.  The world is built first, the audit then runs over it.    *)
(***************************************************************************)
EXTENDS Totals, FiniteSetsExt, Sequences

CONSTANTS NoRef,         \* the ref of a receipt that names no settlement
          Scenarios      \* the worlds to audit, by name

(* A scenario's fields, below under their own names.                       *)
ASSUME AuditAssumption ==
  \A name \in DOMAIN Scenarios :
    LET world == Scenarios[name]
    IN  /\ world.profile \in {"spend", "decision"}
        /\ \A k \in world.rowSays : k.ref # NoRef /\ k.amount \in Nat
        /\ \A k \in world.receiptSays : k.amount \in Nat /\ k.settled \in BOOLEAN
        (* An effect extract with a row outside its window does not verify,  *)
        (* and an allow names its row.                                       *)
        /\ world.profile = "decision" =>
             /\ ~world.mayMisfile
             /\ \A k \in world.receiptSays : k.settled => k.ref # NoRef
        /\ {world.skew, world.runStart, world.runEnd, world.maxRows, world.maxReceipts}
             \subseteq Nat
        /\ {world.mayMisfile, world.mayRefuse} \subseteq BOOLEAN
        /\ \A t \in world.tilings : /\ t \in Seq([start : Int, end : Int]) /\ Len(t) > 0
                                   /\ \A i \in DOMAIN t : t[i].start < t[i].end

VARIABLES scenario,   \* the world of this behaviour
          bounds,     \* the declared window of each extract, half-open
          refused,    \* whether the rail pin refuses the extract
          rows,       \* what the extracts carry
          receipts,   \* what the bags carry
          phase,      \* "world", "audit", "done"
          details,    \* what auditDetailed returned for the windows so far
          run         \* what runWindows adds: findings, removed, resolved

vars == <<scenario, bounds, refused, rows, receipts, phase, details, run>>

(* What a row may say: a ref and what it is of, an amount in a currency or *)
(* the hash and the class of an effect; a receipt says that and whether    *)
(* the payment settled, a decision record whether it was allowed.          *)
RowSays == Scenarios[scenario].rowSays
ReceiptSays == Scenarios[scenario].receiptSays
Decision == Scenarios[scenario].profile = "decision"
Skew == Scenarios[scenario].skew                 \* clockSkewMs of every extract
Tilings == Scenarios[scenario].tilings           \* the windows that may be presented
RunStart == Scenarios[scenario].runStart         \* trust.windowStartMs, the stated run
RunEnd == Scenarios[scenario].runEnd             \* trust.windowEndMs
MaxRows == Scenarios[scenario].maxRows
MaxReceipts == Scenarios[scenario].maxReceipts
MayMisfile == Scenarios[scenario].mayMisfile     \* documents go with any window
MayRefuse == Scenarios[scenario].mayRefuse       \* the rail pin may refuse an extract

N == Len(bounds)
Windows == 1 .. N
Time == RunStart .. RunEnd - 1
Ref == {k.ref : k \in RowSays}
Units == {k.unit : k \in RowSays \cup ReceiptSays}

Code ==
  IF Decision
  THEN [recordWithoutRow |-> "decision-without-effect",
        rowWithoutRecord |-> "effect-without-decision",
        bindFailure |-> "effect-mismatch", rowAgainstRefusal |-> "effect-against-refusal"]
  ELSE [recordWithoutRow |-> "receipt-without-settlement",
        rowWithoutRecord |-> "settlement-without-receipt",
        bindFailure |-> "settlement-mismatch",
        rowAgainstRefusal |-> "settlement-without-receipt"]

InWindow(ts, i) == bounds[i].start <= ts /\ ts < bounds[i].end
Row(i) == {s \in rows : s.win = i}
Bag(i) == {r \in receipts : r.bag = i}
Refs(S) == {x.ref : x \in S}

-----------------------------------------------------------------------------
(* The single-window audit.                                                *)

OutsideRows(i) == {s \in Row(i) : ~InWindow(s.ts, i)}
InsideRows(i) == Row(i) \ OutsideRows(i)

ExtractVerifies(i) == i \in Windows /\ ~refused[i]
Meets(i, j) == bounds[i].end = bounds[j].start

(* An adjacent extract is read when it verifies and, unless the presented  *)
(* one was refused, meets it.                                              *)
NextOk(i) == ExtractVerifies(i + 1) /\ (refused[i] \/ Meets(i, i + 1))
PrevOk(i) == ExtractVerifies(i - 1) /\ (refused[i] \/ Meets(i - 1, i))

(* It closes its edge unless every row it has lies outside its window.     *)
Consecutive(i) == NextOk(i) /\ (Row(i + 1) = {} \/ InsideRows(i + 1) # {})
ConsecutivePrev(i) == PrevOk(i) /\ (Row(i - 1) = {} \/ InsideRows(i - 1) # {})

NearOpen(i, ts) == ts < bounds[i].start + Skew
NearClose(i, ts) == ts >= bounds[i].end - Skew

(* A receipt whose ref is on the extract is reconciled against it whatever *)
(* its own clock says; the time sieve is for the rest.                     *)
InScope(i) ==
  {r \in Bag(i) : \/ refused[i]
                  \/ r.ref \in Refs(Row(i))
                  \/ InWindow(r.ts, i)}

Settled(i) == {r \in InScope(i) : r.settled}
Naming(i) == {r \in Settled(i) : r.ref # NoRef}

Repeats(S) == {ref \in Refs(S) : \E x, y \in S : x # y /\ x.ref = ref /\ y.ref = ref}
Skip(i) == Repeats(Naming(i)) \cup Repeats(Row(i))
SingleReceipts(i) == {r \in Naming(i) : r.ref \notin Skip(i)}
SingleRows(i) == {s \in Row(i) : s.ref \notin Skip(i)}

Same(r, s) == r.amount = s.amount /\ r.unit = s.unit

(* A neighbour's row among those at the shared edge is this payment's; of  *)
(* an effect only the ref is compared.                                     *)
AdjacentNames(r, facingRows) ==
  \E s \in facingRows : s.ref = r.ref /\ (Decision \/ Same(r, s))

NamedByNext(i, r) ==
  /\ Consecutive(i)
  /\ AdjacentNames(r, {s \in InsideRows(i + 1) : s.ts < bounds[i + 1].start + Skew})
NamedByPrev(i, r) ==
  /\ ConsecutivePrev(i)
  /\ AdjacentNames(r, {s \in InsideRows(i - 1) : s.ts >= bounds[i - 1].end - Skew})

CarriedOpening(i, r) == NearOpen(i, r.ts) /\ NamedByPrev(i, r)
CarriedClosing(i, r) == NearClose(i, r.ts) /\ NamedByNext(i, r)

UnmatchedReceipts(i) == {r \in SingleReceipts(i) : r.ref \notin Refs(SingleRows(i))}
UnmatchedRows(i) == {s \in SingleRows(i) : s.ref \notin Refs(SingleReceipts(i))}

CarriedReceipts(i) ==
  {r \in UnmatchedReceipts(i) : CarriedOpening(i, r) \/ CarriedClosing(i, r)}

HardReceipts(i) ==
  {r \in UnmatchedReceipts(i) \ CarriedReceipts(i) :
     \/ NearClose(i, r.ts) /\ Consecutive(i)
     \/ NearOpen(i, r.ts) /\ ConsecutivePrev(i)
     \/ ~NearClose(i, r.ts) /\ ~NearOpen(i, r.ts)}
DeferredReceipts(i) == UnmatchedReceipts(i) \ (CarriedReceipts(i) \cup HardReceipts(i))

DeferredRows(i) == {s \in UnmatchedRows(i) : NearOpen(i, s.ts) \/ NearClose(i, s.ts)}
HardRows(i) == UnmatchedRows(i) \ DeferredRows(i)

Edges(i, s) ==
  {e \in {"opening", "closing"} :
     IF e = "opening" THEN NearOpen(i, s.ts) ELSE NearClose(i, s.ts)}

Finding(code, on) == [code |-> code, on |-> on]
Named(code, kind, ids) == {Finding(code, <<kind, x>>) : x \in ids}
Ids(S) == {r.id : r \in S}

(* One ref used more than once on a side is compared by its total in each  *)
(* currency; effects are counted.                                          *)
SettledSum(i, ref, u) == Total({s \in Row(i) : s.ref = ref /\ s.unit = u})
ReceiptSum(i, ref, u) == Total({r \in Naming(i) : r.ref = ref /\ r.unit = u})

SpendAggregate(i) ==
  Named("settlement-without-receipt", "row",
        {ref \in Skip(i) : \E u \in Units : SettledSum(i, ref, u) > ReceiptSum(i, ref, u)})
  \cup Named("settlement-mismatch", "row",
        {ref \in Skip(i) : \E u \in Units : SettledSum(i, ref, u) < ReceiptSum(i, ref, u)})

EffectsOf(i, ref) == Cardinality({s \in Row(i) : s.ref = ref})
DecisionsOf(i, ref) == Cardinality({r \in Naming(i) : r.ref = ref})

DecisionAggregate(i) ==
  Named("effect-without-decision", "row",
        {ref \in Skip(i) : EffectsOf(i, ref) > DecisionsOf(i, ref)})
  \cup Named("decision-without-effect", "row",
        {ref \in Skip(i) : EffectsOf(i, ref) < DecisionsOf(i, ref)})

Aggregate(i) == IF Decision THEN DecisionAggregate(i) ELSE SpendAggregate(i)

(* What a one-to-one pair says when it does not agree; an effect of the    *)
(* hash that was allowed but another class has a code of its own.          *)
BindFailure(r, s) ==
  IF Decision /\ r.amount = s.amount THEN "effect-class-mismatch" ELSE Code.bindFailure

Mismatches(i) ==
  UNION {{Finding(BindFailure(r, s), <<"row", s.ref>>) :
            r \in {r \in SingleReceipts(i) : r.ref = s.ref /\ ~Same(r, s)}} :
         s \in SingleRows(i)}

(* A row nobody claims, or one a refusal in scope names.                   *)
RefusalRefs(i) == Refs(InScope(i) \ Settled(i)) \ {NoRef}

UncoveredRows(i) ==
  Named(Code.rowAgainstRefusal, "row", Refs(HardRows(i)) \cap RefusalRefs(i))
  \cup Named(Code.rowWithoutRecord, "row", Refs(HardRows(i)) \ RefusalRefs(i))

ClassifyFindings(i) ==
  Named("duplicate-ref", "row", Repeats(Row(i)))
  \cup Aggregate(i) \cup Mismatches(i)
  \cup UncoveredRows(i)
  \cup Named(Code.recordWithoutRow, "receipt", Ids(HardReceipts(i)))

ClassifyWarnings(i) ==
  Named("boundary-deferred", "row", Refs(DeferredRows(i)))
  \cup Named("boundary-deferred", "receipt", Ids(DeferredReceipts(i)))

(* The checks on the receipts alone: one that settled without a ref, two   *)
(* that claim one ref, neither asked of decisions; one that is in no       *)
(* checkpoint window.                                                      *)
Spends(i) == IF Decision THEN {} ELSE {r \in Bag(i) : r.settled}

SelfFindings(i) ==
  Named("settled-without-ref", "receipt", Ids({r \in Spends(i) : r.ref = NoRef}))
  \cup Named("duplicate-ref", "row", Repeats({r \in Spends(i) : r.ref # NoRef}))
  \cup Named("window-coverage", "receipt", Ids({r \in Bag(i) : ~InWindow(r.ts, i)}))

(* What the extract and its neighbours are charged with as documents.      *)
ExtractFindings(i) ==
  Named("extract-scope-mismatch", "row",
        Refs(OutsideRows(i))
        \cup (IF NextOk(i) THEN Refs(OutsideRows(i + 1)) ELSE {})
        \cup (IF PrevOk(i) THEN Refs(OutsideRows(i - 1)) ELSE {}))
  \cup (IF refused[i] THEN {Finding("extract-key-mismatch", <<"extract", i>>)} ELSE {})
  \cup Named("extract-scope-mismatch", "extract",
        {j \in {i - 1, i + 1} \cap Windows :
           /\ ~refused[i] /\ ~refused[j]
           /\ ~(IF j < i THEN Meets(j, i) ELSE Meets(i, j))})

(* The windows meet each other and span the stated run.                    *)
TilingOk ==
  /\ bounds[1].start = RunStart
  /\ \A i \in 1 .. N - 1 : Meets(i, i + 1)
  /\ bounds[N].end = RunEnd

ExtractWarnings(i) ==
  (IF refused[i] THEN {Finding("settlement-comparison-skipped", <<"extract", i>>)} ELSE {})
  \cup (IF TilingOk THEN {} ELSE {Finding("unstated-audit-window", <<"extract", i>>)})

(* auditDetailed: the report of window i and the lists the run reads.      *)
AuditDetailed(i) ==
  [findings |-> SelfFindings(i) \cup ExtractFindings(i)
                \cup (IF refused[i] THEN {} ELSE ClassifyFindings(i)),
   warnings |-> ExtractWarnings(i)
                \cup (IF refused[i] THEN {} ELSE ClassifyWarnings(i)),
   matched |-> IF refused[i] THEN {} ELSE Refs(SingleRows(i) \ UnmatchedRows(i)),
   carried |-> IF refused[i] THEN {}
               ELSE {[ref |-> r.ref,
                      edge |-> IF CarriedOpening(i, r) THEN "opening" ELSE "closing"] :
                       r \in CarriedReceipts(i)},
   deferredRows |-> IF refused[i] THEN {}
                    ELSE {[ref |-> s.ref, edges |-> Edges(i, s)] : s \in DeferredRows(i)}]

-----------------------------------------------------------------------------
(* The run over the windows.                                               *)

IsInner(i, edge) == IF edge = "opening" THEN i > 1 ELSE i < N
Across(i, edge) == IF edge = "opening" THEN i - 1 ELSE i + 1
Facing(edge) == IF edge = "opening" THEN "closing" ELSE "opening"
InnerEdges(i, d) == {e \in d.edges : IsInner(i, e)}

(* Mutant of CarriedAcross: the neighbour's edge of the same name answers. *)
CarriedAcrossSameEdge(i, d) ==
  \E e \in InnerEdges(i, d) :
    [ref |-> d.ref, edge |-> e] \in details[Across(i, e)].carried

CarriedAcross(i, d) ==
  \E e \in InnerEdges(i, d) :
    [ref |-> d.ref, edge |-> Facing(e)] \in details[Across(i, e)].carried

(* Mutant of ResolvedRows: every deferral at an inner edge is forgotten.   *)
ResolvedRowsAll(i) ==
  {d \in details[i].deferredRows : InnerEdges(i, d) # {}}

ResolvedRows(i) == {d \in details[i].deferredRows : CarriedAcross(i, d)}
(* Mutant of HardenedRows: nothing is hardened.                            *)
HardenedRowsNone(i) == {d \in ResolvedRows(i) : ~CarriedAcross(i, d)}

HardenedRows(i) ==
  {d \in details[i].deferredRows \ ResolvedRows(i) : InnerEdges(i, d) = d.edges}

(* Mutant of Uses: only the window itself.                                 *)
UsesOwn(i, ref) == {j \in {i} : ref \in details[j].matched}

(* Who counts row `ref` of window i: its own window, and each neighbour    *)
(* that carried a receipt for it.                                          *)
Uses(i, ref) ==
  {j \in Windows :
     \/ j = i /\ ref \in details[j].matched
     \/ \E c \in details[j].carried : c.ref = ref /\ Across(j, c.edge) = i}

RunFindings ==
  (IF TilingOk THEN {} ELSE {Finding("extract-scope-mismatch", <<"extract", 0>>)})
  \cup Named("duplicate-ref", "row",
        {ref \in Ref : \E i \in Windows : Cardinality(Uses(i, ref)) > 1})
  \cup Named("settlement-without-receipt", "row",
        UNION {Refs(HardenedRows(i)) : i \in Windows})

RunWarnings ==
  UNION {details[i].warnings
         \ Named("boundary-deferred", "row", Refs(ResolvedRows(i) \cup HardenedRows(i))) :
           i \in Windows}

ResolvedCount == FoldSet(LAMBDA i, n : n + Cardinality(ResolvedRows(i)), 0, Windows)

(* "extract-key-mismatch" and its like put the evidence itself in doubt.   *)
Doubts == {"extract-key-mismatch", "extract-scope-mismatch"}

AllFindings == run.findings \cup UNION {details[i].findings : i \in Windows}
RunOk == AllFindings = {}
Unconditional == run.warnings = {} /\ \A f \in AllFindings : f.code \notin Doubts

NoRun == [findings |-> {}, warnings |-> {}, resolved |-> 0]

-----------------------------------------------------------------------------
Init ==
  /\ scenario \in DOMAIN Scenarios
  /\ bounds \in Tilings
  /\ refused \in [1 .. Len(bounds) -> IF MayRefuse THEN BOOLEAN ELSE {FALSE}]
  /\ rows = {} /\ receipts = {}
  /\ phase = "world" /\ details = <<>> /\ run = NoRun

FiledUnder(ts) == IF MayMisfile THEN Windows ELSE {i \in Windows : InWindow(ts, i)}

(* The rail settles, in the order of its own clock, and reports the row.   *)
Settle ==
  /\ phase = "world" /\ receipts = {} /\ Cardinality(rows) < MaxRows
  /\ \E k \in RowSays, ts \in Time :
       /\ \A s \in rows : s.ts <= ts
       /\ \E i \in FiledUnder(ts) :
            rows' = rows \cup {[id |-> Cardinality(rows) + 1, ref |-> k.ref,
                                amount |-> k.amount, unit |-> k.unit, ts |-> ts,
                                win |-> i]}
  /\ UNCHANGED <<scenario, bounds, refused, receipts, phase, details, run>>

(* The issuer signs a receipt, in the order of its own clock.              *)
Sign ==
  /\ phase = "world" /\ Cardinality(receipts) < MaxReceipts
  /\ \E k \in ReceiptSays, ts \in Time :
       /\ \A r \in receipts : r.ts <= ts
       /\ \E i \in FiledUnder(ts) :
            receipts' = receipts \cup {[id |-> Cardinality(receipts) + 1, ref |-> k.ref,
                                        amount |-> k.amount, unit |-> k.unit,
                                        ts |-> ts, settled |-> k.settled, bag |-> i]}
  /\ UNCHANGED <<scenario, bounds, refused, rows, phase, details, run>>

(* The same receipt is handed in with a second window.                     *)
PresentAgain ==
  /\ phase = "world" /\ MayMisfile /\ Cardinality(receipts) < MaxReceipts
  /\ \E r \in receipts, i \in Windows :
       /\ i # r.bag
       /\ receipts' = receipts \cup {[r EXCEPT !.bag = i]}
  /\ UNCHANGED <<scenario, bounds, refused, rows, phase, details, run>>

(* Windows are audited in turn.                                            *)
AuditWindow ==
  /\ phase \in {"world", "audit"} /\ Len(details) < N
  /\ phase' = "audit"
  /\ details' = Append(details, AuditDetailed(Len(details) + 1))
  /\ UNCHANGED <<scenario, bounds, refused, rows, receipts, run>>

(* The run's own passes over what the windows returned.                    *)
CloseRun ==
  /\ phase = "audit" /\ Len(details) = N /\ phase' = "done"
  /\ run' = [findings |-> RunFindings, warnings |-> RunWarnings,
             resolved |-> ResolvedCount]
  /\ UNCHANGED <<scenario, bounds, refused, rows, receipts, details>>

Next == Settle \/ Sign \/ PresentAgain \/ AuditWindow \/ CloseRun
Spec == Init /\ [][Next]_vars
-----------------------------------------------------------------------------
(* Properties.                                                             *)

Balanced == phase = "done" /\ RunOk /\ Unconditional

RowsOf(ref) == {s \in rows : s.ref = ref}
DistinctSettled(ref) ==
  {[id |-> r.id, amount |-> r.amount, unit |-> r.unit] :
     r \in {r \in receipts : r.settled /\ r.ref = ref}}

(* What "balanced" under an unconditional guarantee is worth: over the     *)
(* whole run, whatever was presented where, the settled receipts of each   *)
(* ref (each counted once, however often it was handed in) add up to       *)
(* exactly the rows of that ref, in each currency; of decisions, as many   *)
(* were allowed under a ref as it had effects.                             *)
BalancedMeansCovered ==
  Balanced =>
    \A ref \in Ref :
      /\ ~Decision => \A u \in Units : Total({s \in RowsOf(ref) : s.unit = u})
                                        = Total({r \in DistinctSettled(ref) : r.unit = u})
      /\ Decision => Cardinality(RowsOf(ref)) = Cardinality(DistinctSettled(ref))

(* "`effectHash` binds the content of the effect itself": in a balanced    *)
(* run every effect is the one some decision of its ref allowed.  The      *)
(* resolver of adjacent windows compares refs only (adjacentNamesReceipt). *)
EffectsAreAsDecided ==
  Balanced /\ Decision =>
    \A s \in rows : \E r \in receipts : r.settled /\ r.ref = s.ref /\ Same(r, s)

(* A payment the rail and the issuer agree on, their clocks closer than    *)
(* the allowance, each document presented with its own window.             *)
Pairs(s, r) ==
  /\ r.settled /\ r.ref = s.ref /\ Same(r, s)
  /\ s.ts < r.ts + Skew /\ r.ts < s.ts + Skew

ExactlyOne(S, P(_)) == Cardinality({x \in S : P(x)}) = 1

HonestPayments ==
  /\ \A s \in rows :
       /\ InWindow(s.ts, s.win)
       /\ ExactlyOne(receipts, LAMBDA r : Pairs(s, r))
       /\ ExactlyOne(rows, LAMBDA x : x.ref = s.ref)
  /\ \A r \in receipts :
       /\ InWindow(r.ts, r.bag)
       /\ r.settled => /\ ExactlyOne(rows, LAMBDA s : Pairs(s, r))
                       /\ ExactlyOne(receipts, LAMBDA x : x.settled /\ x.ref = r.ref)

HonestWorld == TilingOk /\ HonestPayments /\ \A i \in Windows : ~refused[i]

(* Clocks that disagree by less than the allowance then disagree by at     *)
(* most one window.                                                        *)
WindowsAreLong == \A i \in Windows : bounds[i].end - bounds[i].start >= Skew

(* A run over what was honestly done and completely presented accuses      *)
(* nobody and leaves nothing open, on whichever side of an inner edge the  *)
(* two clocks put the payment.                                             *)
HonestRunBalances ==
  phase = "done" /\ HonestWorld /\ WindowsAreLong => RunOk /\ Unconditional

(* A settlement or effect no receipt of the run names is charged by its    *)
(* ref, whether or not it was refused (an aborted receipt, a deny), or is  *)
(* still named as deferred at one of the run's two outer edges, unless its *)
(* own extract was refused (MUST-T10-2 over the run).                      *)
AtOuterEdge(s) ==
  \/ bounds[s.win].start + Skew > s.ts /\ s.win = 1
  \/ s.ts >= bounds[s.win].end - Skew /\ s.win = N

(* What a row with nothing behind it is accused of.  Repeated rows are     *)
(* compared by their total, and where that is nothing all that is said is  *)
(* that the ref repeats.                                                   *)
Accusations(s) ==
  {"settlement-without-receipt", Code.rowWithoutRecord, Code.rowAgainstRefusal}
  \cup (IF ~Decision /\ s.amount = 0 THEN {"duplicate-ref"} ELSE {})

UncoveredIsNamed ==
  phase = "done" =>
    \A s \in rows :
      (~refused[s.win] /\ \A r \in receipts : r.settled => r.ref # s.ref)
      => \/ \E f \in AllFindings : f.on = <<"row", s.ref>> /\ f.code \in Accusations(s)
         \/ /\ AtOuterEdge(s)
            /\ Finding("boundary-deferred", <<"row", s.ref>>) \in run.warnings

(* "only deferrals at the run's two outer edges leave that guarantee       *)
(* conditional": with no document refused or out of scope, a deferral that *)
(* is still open is within the allowance of where the run starts or ends.  *)
OnlyOuterEdgesStayOpen ==
  phase = "done" /\ (\A f \in AllFindings : f.code \notin Doubts) =>
    \A w \in run.warnings :
      w.code = "boundary-deferred" =>
        LET near(ts) == ts < RunStart + Skew \/ ts >= RunEnd - Skew IN
        IF w.on[1] = "row" THEN \E s \in rows : s.ref = w.on[2] /\ near(s.ts)
                           ELSE \E r \in receipts : r.id = w.on[2] /\ near(r.ts)
=============================================================================
