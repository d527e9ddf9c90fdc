-------------------------- MODULE SettlementSession --------------------------
(***************************************************************************)
(* CedulonSession (mcp-server/src/session.ts, journal.ts): servers that    *)
(* share one state file, settle payments on an external rail through a     *)
(* durable journal, and can stop between any two of their writes.          *)
(*                                                                         *)
(* A view is what a session persists: receipts, used nonces, the policy    *)
(* window's counters and the journal, folded to its last row per nonce     *)
(* with the times resolveIndeterminate reads from the earlier ones.  The   *)
(* file holds one view and each session has one in memory.                 *)
(*                                                                         *)
(* lastSeenState, the SHA-256 of the file a session last saw, is only ever *)
(* compared with that of the file there is.  Every save has a receipt or a *)
(* journal row more than the view it grew from, so it ends the agreement   *)
(* of all other sessions with the file.  The model keeps who agrees.       *)
(*                                                                         *)
(* Calls that are refused and change nothing are not steps.  The lock file *)
(* is taken as the mutual exclusion it is meant to be; StateLock has its   *)
(* steps.                                                                  *)
(***************************************************************************)
EXTENDS PolicyRules, Sequences, FiniteSets

CONSTANTS Sessions, Nonces,
          Amount,          \* of every payment
          IdempotentRail,  \* rail.idempotentSubmit
          RailLag,         \* clock ticks from a call's nowMs to the rail's own date
          QuietLoads,      \* nobody saves between a load and its fingerprint
          Nobody, NoPrior,
          MaxTime, MaxFaults, MaxCrashes  \* bounds of one behaviour

(* One payment fits an empty window.  So a request that finds no room was  *)
(* judged against a window that is still open, and refusing it changes     *)
(* nothing.                                                                *)
ASSUME SessionAssumption ==
  /\ Amount \in Nat \ {0} /\ Amount <= MaxAmount /\ Amount <= MaxCumulative
  /\ MaxPayments > 0
  /\ IdempotentRail \in BOOLEAN /\ QuietLoads \in BOOLEAN
  /\ RailLag \in Nat /\ MaxTime \in Nat /\ MaxFaults \in Nat /\ MaxCrashes \in Nat
  /\ Nobody \notin Sessions /\ IsFiniteSet(Nonces)

(* What may be persisted; a session with nothing to put back has no view.  *)
Phases == {"none", "prepared", "submitted", "indeterminate", "settled", "failed"}
Receipts == [nonce : Nonces, on : {"rail", "ledger"}]
Rows == [phase : Phases, reservedAt : Nat, submits : SUBSET Nat, lastSubmit : Nat]
Views == [receipts : Seq(Receipts), used : SUBSET Nonces, counters : Counters, rows : [Nonces -> Rows]]

ASSUME PriorAssumption == NoPrior \notin Views

VARIABLES disk,     \* the view in the state file
          mem,      \* the view of each session
          agrees,   \* sessions whose lastSeenState is the file's
          pc,       \* where each session is
          op,       \* the call a session is in: its nonce and its nowMs
          prior,    \* the view a reload puts back if it fails
          agreed,   \* reloading sessions that put back agreement with it
          holder,   \* who holds the state lock
          rail,     \* the times the external rail moved money for a nonce
          now, faults, crashes

vars == <<disk, mem, agrees, pc, op, prior, agreed, holder, rail, now, faults, crashes>>

(* Inside submitExternal or retryIndeterminate: the journal row is durable *)
(* as "prepared" or "submitted", or the rail has answered.                 *)
Answers == {"settled", "failed", "silent"}
InCall == {"prepared", "submitted"} \cup Answers

NoRow == [phase |-> "none", reservedAt |-> 0, submits |-> {}, lastSubmit |-> 0]

EmptyView == [receipts |-> <<>>, used |-> {}, counters |-> FreshCounters,
              rows |-> [n \in Nonces |-> NoRow]]

NoOp == [nonce |-> Nobody, at |-> 0]

Init ==
  /\ disk = EmptyView
  /\ mem = [s \in Sessions |-> EmptyView]
  /\ agrees = {}
  /\ agreed = {}
  /\ pc = [s \in Sessions |-> "down"]
  /\ op = [s \in Sessions |-> NoOp]
  /\ prior = [s \in Sessions |-> NoPrior]
  /\ holder = Nobody
  /\ rail = [n \in Nonces |-> <<>>]
  /\ now = 1
  /\ faults = 0
  /\ crashes = 0

-----------------------------------------------------------------------------
(* What calls do to a view.                                                *)

Phase(view, n) == view.rows[n].phase

SetPhase(view, n, phase) == [view EXCEPT !.rows[n].phase = phase]

Allowed(view, n, at) ==
  n \notin view.used /\ HasRoom(RollWindow(view.counters, at), Amount)

Reserve(view, n, at) ==
  [view EXCEPT !.used = @ \cup {n},
               !.counters = Take(RollWindow(@, at), Amount)]

Prepare(view, n, at) ==
  [Reserve(view, n, at) EXCEPT
     !.rows[n].phase = "prepared", !.rows[n].reservedAt = at,
     !.rows[n].submits = {}]

MarkSubmitted(view, n, at) ==
  [view EXCEPT !.rows[n].phase = "submitted",
               !.rows[n].submits = @ \cup {at},
               !.rows[n].lastSubmit = at]

CutReceipt(view, n, on) ==
  [view EXCEPT !.receipts = Append(@, [nonce |-> n, on |-> on])]

Settle(view, n) == SetPhase(CutReceipt(view, n, "rail"), n, "settled")
(* Mutant of GiveUp: the refund goes to whatever window is open.           *)
GiveUpIntoAnyWindow(view, n) ==
  SetPhase([view EXCEPT
              !.used = @ \ {n},
              !.counters = GiveBack(@, Amount, @.windowStartMs)],
           n, "failed")


GiveUp(view, n) ==
  SetPhase([view EXCEPT
              !.used = @ \ {n},
              !.counters = GiveBack(@, Amount, view.rows[n].reservedAt)],
           n, "failed")

(* Mutants of Recovered: a submitted row is returned like a prepared one,  *)
(* and a submitted row is left as it is.                                   *)
RecoveredAsUnpaid(view) ==
  LET open == {n \in Nonces : Phase(view, n) \in {"prepared", "submitted"}} IN
  [view EXCEPT !.used = @ \ open,
               !.rows = [n \in Nonces |->
                           IF n \in open THEN [@[n] EXCEPT !.phase = "failed"]
                                         ELSE @[n]]]

RecoveredPreparedOnly(view) ==
  LET prepared == {n \in Nonces : Phase(view, n) = "prepared"} IN
  [view EXCEPT !.used = @ \ prepared,
               !.rows = [n \in Nonces |->
                           IF n \in prepared THEN [@[n] EXCEPT !.phase = "failed"]
                                             ELSE @[n]]]

(* recoverJournal: a prepared row never reached the rail and is returned,  *)
(* a submitted row may have and is kept.  The releases of several rows     *)
(* together take their number off the counters.                            *)
Recovered(view) ==
  LET prepared == {n \in Nonces : Phase(view, n) = "prepared"}
      counted  == {n \in prepared : InCounters(view.counters, view.rows[n].reservedAt)}
      back     == Cardinality(counted)
      Less(x, y) == IF x >= y THEN x - y ELSE 0
  IN
  [view EXCEPT
     !.used = @ \ prepared,
     !.counters = [windowStartMs |-> @.windowStartMs,
                   allowedCount  |-> Less(@.allowedCount, back),
                   allowedSum    |-> Less(@.allowedSum, back * Amount)],
     !.rows = [n \in Nonces |->
                 CASE @[n].phase = "prepared"  -> [@[n] EXCEPT !.phase = "failed"]
                   [] @[n].phase = "submitted" -> [@[n] EXCEPT !.phase = "indeterminate"]
                   [] OTHER -> @[n]]]

-----------------------------------------------------------------------------
(* Saving: compare the file with what was last seen, write, rename.  The   *)
(* write can fail; memory keeps the new view unless the caller undoes it.  *)

NobodyIsLoading(s) == QuietLoads => \A t \in Sessions \ {s} : pc[t] # "loaded"

(* Mutant of Writes: the file is replaced whatever is in it.               *)
WritesOverAnything(s, view) ==
  /\ NobodyIsLoading(s)
  /\ disk' = view
  /\ agrees' = {s}
  /\ agreed' = {}
  /\ mem' = [mem EXCEPT ![s] = view]
  /\ UNCHANGED faults

Writes(s, view) ==
  /\ s \in agrees
  /\ NobodyIsLoading(s)
  /\ disk' = view
  /\ agrees' = {s}
  /\ agreed' = {}
  /\ mem' = [mem EXCEPT ![s] = view]
  /\ UNCHANGED faults

Fault ==
  /\ faults < MaxFaults
  /\ faults' = faults + 1
  /\ UNCHANGED <<disk, agrees, agreed>>

WriteFails(s, view) ==
  /\ Fault
  /\ mem' = [mem EXCEPT ![s] = view]

Goto(s, place) == pc' = [pc EXCEPT ![s] = place]

(* An idle server takes the lock and finds the file as it last saw it;     *)
(* otherwise the call answers state-locked or state-conflict.              *)
Ready(s) ==
  /\ pc[s] = "idle"
  /\ holder = Nobody
  /\ s \in agrees

(* The call goes on to place, or ends and gives the lock back.             *)
GoesOn(s, n, at, place) ==
  /\ Goto(s, place)
  /\ op' = [op EXCEPT ![s] = [nonce |-> n, at |-> at]]
  /\ holder' = s

Ends(s) ==
  /\ Goto(s, "idle")
  /\ op' = [op EXCEPT ![s] = NoOp]
  /\ holder' = Nobody

-----------------------------------------------------------------------------
(* submitExternal.  A prepared row that cannot be written is undone, so    *)
(* only the write that succeeds is a step.                                 *)
SubmitPrepare(s, n) ==
  /\ Ready(s)
  /\ Allowed(mem[s], n, now)
  /\ Writes(s, Prepare(mem[s], n, now))
  /\ GoesOn(s, n, now, "prepared")
  /\ UNCHANGED <<prior, rail, now, crashes>>

(* Mutant of Mark: the rail is called whether or not the row was written.  *)
MarkAndGoOn(s, n, at) ==
  LET marked == MarkSubmitted(mem[s], n, at) IN
  /\ Writes(s, marked) \/ WriteFails(s, marked)
  /\ GoesOn(s, n, at, "submitted")

(* The submitted row, before the rail is called.  A write that fails ends  *)
(* the call with the row in memory only.                                   *)
Mark(s, n, at) ==
  LET marked == MarkSubmitted(mem[s], n, at) IN
  \/ Writes(s, marked) /\ GoesOn(s, n, at, "submitted")
  \/ WriteFails(s, marked) /\ Ends(s)

SubmitMark(s) ==
  /\ pc[s] = "prepared"
  /\ Mark(s, op[s].nonce, op[s].at)
  /\ UNCHANGED <<prior, rail, now, crashes>>

RetryIndeterminate(s, n) ==
  /\ Ready(s)
  /\ Phase(mem[s], n) = "indeterminate"
  /\ IdempotentRail
  /\ Mark(s, n, now)
  /\ UNCHANGED <<prior, rail, now, crashes>>

(* The rail.  It answers settled or failed, or throws, and then the money  *)
(* may or may not have moved.  An idempotent rail takes a payment once.    *)
Paid(n) == rail[n] # <<>>

KnowsPayment(n) == IdempotentRail /\ Paid(n)

Moves(n) ==
  IF KnowsPayment(n) THEN UNCHANGED rail
                     ELSE rail' = [rail EXCEPT ![n] = Append(@, now)]

RailSubmit(s, answer) ==
  LET n == op[s].nonce IN
  /\ pc[s] = "submitted"
  /\ \/ answer \in {"settled", "silent"} /\ Moves(n)
     \/ answer = "failed" /\ ~KnowsPayment(n) /\ UNCHANGED rail
     \/ answer = "silent" /\ UNCHANGED rail
  /\ Goto(s, answer)
  /\ UNCHANGED <<disk, mem, agrees, op, prior, agreed, holder, now, faults, crashes>>

(* Mutant of AfterAnswer: a rail that throws is taken for a refusal.       *)
AfterAnswerSilentIsNo(view, n, answer) ==
  IF answer = "settled" THEN Settle(view, n) ELSE GiveUp(view, n)

(* Whatever the rail answered is recorded and saved; when that write fails *)
(* the call ends with the record in memory.                                *)
AfterAnswer(view, n, answer) ==
  CASE answer = "settled" -> Settle(view, n)
    [] answer = "failed"  -> GiveUp(view, n)
    [] answer = "silent"  -> SetPhase(view, n, "indeterminate")

Record(s) ==
  /\ pc[s] \in Answers
  /\ LET view == AfterAnswer(mem[s], op[s].nonce, pc[s]) IN
     Writes(s, view) \/ WriteFails(s, view)
  /\ Ends(s)
  /\ UNCHANGED <<prior, rail, now, crashes>>

-----------------------------------------------------------------------------
(* resolveIndeterminate: the evidence is the rail's signed extract of the  *)
(* window [from, to), which the rail only signs once it is over.           *)
InExtract(t, from, to) == from <= t /\ t < to
(* Mutant of Hit: any covering extract is taken for evidence of payment.   *)
HitWithoutRow(n, from, to) == from < to


Hit(n, from, to) == \E i \in DOMAIN rail[n] : InExtract(rail[n][i], from, to)
(* Mutant of AbsenceCounts: only the last attempt has to be covered.       *)
AbsenceOfLast(row, from, to) == InExtract(row.lastSubmit, from, to)


AbsenceCounts(row, from, to) == \A t \in row.submits : InExtract(t, from, to)

ResolveIndeterminate(s, n, from, to) ==
  LET row == mem[s].rows[n] IN
  /\ Ready(s)
  /\ to <= now
  /\ row.phase = "indeterminate"
  /\ InExtract(row.lastSubmit, from, to)
  /\ Hit(n, from, to) \/ AbsenceCounts(row, from, to)
  /\ LET view == IF Hit(n, from, to) THEN Settle(mem[s], n) ELSE GiveUp(mem[s], n)
     IN Writes(s, view) \/ WriteFails(s, view)
  /\ UNCHANGED <<pc, op, prior, holder, rail, now, crashes>>

(* spend: authorised, settled on the server's own ledger and saved, or     *)
(* undone together.                                                        *)
Spend(s, n) ==
  /\ Ready(s)
  /\ Allowed(mem[s], n, now)
  /\ Writes(s, CutReceipt(Reserve(mem[s], n, now), n, "ledger"))
  /\ UNCHANGED <<pc, op, prior, holder, rail, now, crashes>>

-----------------------------------------------------------------------------
(* Starting a server and reloading a running one: read the file, then read *)
(* it again for its fingerprint, then recover the journal.  No lock is     *)
(* held until recovery has something to save.                              *)
Start(s) ==
  /\ pc[s] = "down"
  /\ mem' = [mem EXCEPT ![s] = disk]
  /\ Goto(s, "loaded")
  /\ UNCHANGED <<disk, agrees, op, prior, agreed, holder, rail, now, faults, crashes>>

Reload(s) ==
  /\ pc[s] = "idle"
  /\ prior' = [prior EXCEPT ![s] = mem[s]]
  /\ agreed' = IF s \in agrees THEN agreed \cup {s} ELSE agreed
  /\ mem' = [mem EXCEPT ![s] = disk]
  /\ Goto(s, "loaded")
  /\ UNCHANGED <<disk, agrees, op, holder, rail, now, faults, crashes>>

Fingerprint(s) ==
  /\ pc[s] = "loaded"
  /\ agrees' = agrees \cup {s}
  /\ Goto(s, "stamped")
  /\ UNCHANGED <<disk, mem, op, prior, agreed, holder, rail, now, faults, crashes>>

IsClean(view) == Recovered(view) = view

RecoverJournal(s) ==
  /\ pc[s] = "stamped"
  /\ \/ /\ IsClean(mem[s])
        /\ agreed' = agreed \ {s}
        /\ UNCHANGED <<disk, mem, agrees, faults>>
     \/ /\ ~IsClean(mem[s])
        /\ holder = Nobody
        /\ Writes(s, Recovered(mem[s]))
  /\ prior' = [prior EXCEPT ![s] = NoPrior]
  /\ Goto(s, "idle")
  /\ UNCHANGED <<op, holder, rail, now, crashes>>

(* The lock is taken, the file has changed, or the write fails: a start    *)
(* gives up, a reload puts everything back.                                *)
RecoverFails(s) ==
  /\ pc[s] = "stamped"
  /\ ~IsClean(mem[s])
  /\ \/ (holder # Nobody \/ s \notin agrees) /\ UNCHANGED faults
     \/ holder = Nobody /\ faults < MaxFaults /\ faults' = faults + 1
  /\ IF prior[s] = NoPrior
     THEN mem' = [mem EXCEPT ![s] = EmptyView] /\ Goto(s, "down")
     ELSE mem' = [mem EXCEPT ![s] = prior[s]] /\ Goto(s, "idle")
  /\ agrees' = (agrees \ {s}) \cup ({s} \cap agreed)
  /\ agreed' = agreed \ {s}
  /\ prior' = [prior EXCEPT ![s] = NoPrior]
  /\ UNCHANGED <<disk, op, holder, rail, now, crashes>>

(* A stopped server's lock is taken over by whoever comes next.            *)
Crash(s) ==
  /\ pc[s] # "down"
  /\ crashes < MaxCrashes
  /\ crashes' = crashes + 1
  /\ mem' = [mem EXCEPT ![s] = EmptyView]
  /\ agrees' = agrees \ {s}
  /\ agreed' = agreed \ {s}
  /\ op' = [op EXCEPT ![s] = NoOp]
  /\ prior' = [prior EXCEPT ![s] = NoPrior]
  /\ holder' = IF holder = s THEN Nobody ELSE holder
  /\ Goto(s, "down")
  /\ UNCHANGED <<disk, rail, now, faults>>

(* A call reads the clock once, at its start; the rail dates the payment   *)
(* at most RailLag later.                                                  *)
Tick ==
  /\ now < MaxTime
  /\ \A s \in Sessions :
       pc[s] \in {"prepared", "submitted"} => now < op[s].at + RailLag
  /\ now' = now + 1
  /\ UNCHANGED <<disk, mem, agrees, pc, op, prior, agreed, holder, rail, faults, crashes>>

(* Steps a running server takes by itself once it has begun something.     *)
Proceed(s) ==
  \/ SubmitMark(s)
  \/ \E answer \in Answers : RailSubmit(s, answer)
  \/ Record(s)
  \/ Fingerprint(s) \/ RecoverJournal(s) \/ RecoverFails(s)

Next ==
  \/ \E s \in Sessions :
       \/ Proceed(s)
       \/ \E n \in Nonces :
            \/ SubmitPrepare(s, n) \/ RetryIndeterminate(s, n) \/ Spend(s, n)
            \/ \E from \in 0..now, to \in 1..now : ResolveIndeterminate(s, n, from, to)
       \/ Start(s) \/ Reload(s) \/ Crash(s)
  \/ Tick

Spec == Init /\ [][Next]_vars

(* Calls end, and a server that is down is started again.  Nobody has to   *)
(* ask for anything.                                                       *)
FairSpec == Spec /\ \A s \in Sessions : WF_vars(Proceed(s)) /\ WF_vars(Start(s))
-----------------------------------------------------------------------------
ReceiptsFor(view, n) == {i \in DOMAIN view.receipts : view.receipts[i].nonce = n}

HasReceipt(view, n) == ReceiptsFor(view, n) # {}

(* Views a call may still carry to disk: those of sessions that agree with *)
(* the file.                                                               *)
Live == {mem[s] : s \in {t \in Sessions :
           pc[t] \in {"idle"} \cup InCall /\ t \in agrees}} \cup {disk}

(* "A settlement with no receipt - the one condition this project exists   *)
(* to make impossible": once money has moved, what a restart reads has its *)
(* receipt, or a row from which the receipt can still be cut.              *)
MoneyIsAccountedFor ==
  \A n \in Nonces : Paid(n) =>
    HasReceipt(disk, n) \/ Phase(disk, n) \in {"submitted", "indeterminate"}

(* MUST-T12-4: a nonce whose payment may have moved is not given back, in  *)
(* the file or in any view that can still be saved over it.                *)
ReleasedMeansUnpaid ==
  \A n \in Nonces : Paid(n) => \A view \in Live : n \in view.used

(* Money moved under a nonce, on the external rail or the server's ledger. *)
MovedOn(n) ==
  Len(rail[n]) + Cardinality({i \in ReceiptsFor(disk, n) :
                                disk.receipts[i].on = "ledger"})

(* What the nonce is for: one payment, however often servers stop, writes  *)
(* fail and calls are retried; and on one of the two rails only.           *)
NoDoublePay == \A n \in Nonces : MovedOn(n) <= 1

(* A receipt says a payment settled.  No view that reaches the file holds  *)
(* two for one nonce, or one for money the external rail never moved.      *)
ReceiptsAreTrue ==
  \A view \in Live : \A i, j \in DOMAIN view.receipts :
    /\ view.receipts[i].nonce = view.receipts[j].nonce => i = j
    /\ view.receipts[i].on = "rail" => Paid(view.receipts[i].nonce)

(* The window's count in the file, and in what may replace it, covers      *)
(* every external payment reserved in that window and not given back.      *)
HeldInWindow(view) ==
  {n \in Nonces :
    /\ Phase(view, n) \in {"prepared", "submitted", "indeterminate", "settled"}
    /\ InCounters(view.counters, view.rows[n].reservedAt)}

ReserveHeld ==
  \A view \in Live :
    /\ Cardinality(HeldInWindow(view)) <= view.counters.allowedCount
    /\ view.counters.allowedSum = view.counters.allowedCount * Amount

(* The lost write writeLocked is there to stop ("the other one's receipt   *)
(* is simply gone"): a save only adds to the receipts in the file.         *)
Extends(longer, shorter) ==
  /\ Len(shorter) <= Len(longer)
  /\ SubSeq(longer, 1, Len(shorter)) = shorter

ReceiptsOnlyGrow == [][Extends(disk'.receipts, disk.receipts)]_vars

(* A server that is between calls can retry or resolve whatever it has     *)
(* begun (markIndeterminate: "written now so this session can retry or     *)
(* resolve it"): it holds no row that only a restart would move on.        *)
NoStuckRow ==
  \A s \in Sessions, n \in Nonces :
    pc[s] = "idle" => Phase(mem[s], n) \notin {"prepared", "submitted"}

(* However servers stop, the file does not keep a row that is neither      *)
(* finished nor open to retry and resolution.                              *)
RowsMoveOn ==
  \A n \in Nonces :
    Phase(disk, n) \in {"prepared", "submitted"}
      ~> Phase(disk, n) \notin {"prepared", "submitted"}

-----------------------------------------------------------------------------
(* The abstract authority read off the file and the rails.                 *)
Authority ==
  [n \in Nonces |-> CASE HasReceipt(disk, n)                       -> "spent"
                      [] ~HasReceipt(disk, n) /\ n \in disk.used     -> "held"
                      [] ~HasReceipt(disk, n) /\ n \notin disk.used  -> "free"]

Abstract == INSTANCE SpendAuthority
              WITH authority <- Authority, moved <- [n \in Nonces |-> MovedOn(n)]

(* Through stops, failed writes, retries, reloads and restarts, the        *)
(* durable record treats each nonce as an authority that is held before    *)
(* money moves and given back only when none did.                          *)
HoldsAuthority == Abstract!ASpec
=============================================================================
