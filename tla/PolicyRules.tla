----------------------------- MODULE PolicyRules -----------------------------
(***************************************************************************)
(* The arithmetic of the policy engine (core/src/policy.ts): the tumbling  *)
(* window with its two counters, what a request takes from it and what a   *)
(* release gives back.  No state here: PolicyEngine keeps one set of       *)
(* counters, SettlementSession keeps one in memory and one on disk.        *)
(***************************************************************************)
EXTENDS Integers

CONSTANTS MaxAmount,      \* policy.maxAmount, per payment
          MaxCumulative,  \* policy.maxCumulative, per window
          MaxPayments,    \* policy.maxPayments, per window
          WindowMs        \* policy.windowMs

(* A window of no length would let every call start a fresh one.  The      *)
(* other limits are any naturals the environment configures, zero          *)
(* included.                                                               *)
ASSUME PolicyAssumption ==
  /\ MaxAmount \in Nat
  /\ MaxCumulative \in Nat
  /\ MaxPayments \in Nat
  /\ WindowMs \in Nat \ {0}

Counters == [windowStartMs : Nat, allowedCount : Nat, allowedSum : Nat]

(* 0 is the mark of a store no window was opened in yet, so a clock        *)
(* reading is a positive number wherever these operators are used.         *)
FreshCounters == [windowStartMs |-> 0, allowedCount |-> 0, allowedSum |-> 0]

WindowIsOver(c, now) ==
  c.windowStartMs = 0 \/ now - c.windowStartMs >= WindowMs

RollWindow(c, now) ==
  IF WindowIsOver(c, now)
  THEN [windowStartMs |-> now, allowedCount |-> 0, allowedSum |-> 0]
  ELSE c

(* Mutant of HasRoom: the total is looked at without the payment asked for. *)
HasRoomBeforeThis(c, amount) ==
  /\ c.allowedCount < MaxPayments
  /\ c.allowedSum <= MaxCumulative

HasRoom(c, amount) ==
  /\ c.allowedCount < MaxPayments
  /\ c.allowedSum + amount <= MaxCumulative

Take(c, amount) ==
  [windowStartMs |-> c.windowStartMs,
   allowedCount  |-> c.allowedCount + 1,
   allowedSum    |-> c.allowedSum + amount]

(* A reserve older than the window is not in its counters.                 *)
InCounters(c, reservedAtMs) == reservedAtMs >= c.windowStartMs

(* Mutant of GiveBack: a refund to whatever window is open.                *)
GiveBackToAnyWindow(c, amount, reservedAtMs) ==
  [windowStartMs |-> c.windowStartMs,
   allowedCount  |-> IF c.allowedCount > 0 THEN c.allowedCount - 1 ELSE 0,
   allowedSum    |-> IF c.allowedSum >= amount THEN c.allowedSum - amount ELSE 0]

GiveBack(c, amount, reservedAtMs) ==
  IF InCounters(c, reservedAtMs)
  THEN [windowStartMs |-> c.windowStartMs,
        allowedCount  |-> IF c.allowedCount > 0 THEN c.allowedCount - 1 ELSE 0,
        allowedSum    |-> IF c.allowedSum >= amount
                          THEN c.allowedSum - amount ELSE 0]
  ELSE c
=============================================================================
