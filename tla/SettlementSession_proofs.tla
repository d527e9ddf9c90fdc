------------------------ MODULE SettlementSession_proofs ------------------------
(***************************************************************************)
(* Proofs about SettlementSession, for any number of servers and payments, *)
(* stops and failed writes, and for any policy.  In all but the last part, *)
(* the one about reserves, two things are assumed of the constants: no     *)
(* server saves between another's load and the fingerprint it takes of the *)
(* file, and the rail dates a payment at the instant of the call that made *)
(* it.  Without the first receipts are lost (the run session_torn),        *)
(* without the second a paid nonce is released.                            *)
(***************************************************************************)
EXTENDS SettlementSession, FiniteSetTheorems, TLAPS

(* What is true of a view wherever it is held: a row is settled with its   *)
(* receipt, an open row holds its nonce and has none, and no nonce has two.*)
Open == {"prepared", "submitted", "indeterminate"}

Consistent(v) ==
  /\ \A n \in Nonces : Phase(v, n) = "settled" => HasReceipt(v, n)
  /\ \A n \in Nonces : Phase(v, n) \in Open => n \in v.used /\ ~HasReceipt(v, n)
  /\ \A i \in DOMAIN v.receipts : v.receipts[i].nonce \in v.used
  /\ \A i, j \in DOMAIN v.receipts : v.receipts[i].nonce = v.receipts[j].nonce => i = j

(* What a view says of the money that moved, m: a nonce with payments has  *)
(* a row that knows the time of each and was not returned; its receipts    *)
(* say on which rail.                                                      *)
Sound(v, m) ==
  /\ \A n \in Nonces : m[n] # <<>> =>
       /\ n \in v.used /\ Phase(v, n) \in {"submitted", "indeterminate", "settled"}
       /\ \A i \in DOMAIN m[n] : m[n][i] \in v.rows[n].submits
  /\ \A i \in DOMAIN v.receipts :
       v.receipts[i].on = "rail" <=> m[v.receipts[i].nonce] # <<>>

Good(v, m) == Consistent(v) /\ Sound(v, m)

Longer(a, b) == Len(b) <= Len(a) /\ \A i \in 1 .. Len(b) : a[i] = b[i]

(* A view that may be written over the file.                               *)
Follows(v) ==
  Good(v, rail) /\ Longer(v.receipts, disk.receipts)

Places == {"down", "loaded", "stamped", "idle"} \cup InCall

Shape ==
  /\ disk \in Views
  /\ mem \in [Sessions -> Views]
  /\ prior \in [Sessions -> Views \cup {NoPrior}]
  /\ agrees \subseteq Sessions /\ agreed \subseteq Sessions
  /\ pc \in [Sessions -> Places]
  /\ op \in [Sessions -> [nonce : Nonces \cup {Nobody}, at : Nat]]
  /\ holder \in Sessions \cup {Nobody}
  /\ rail \in [Nonces -> Seq(Nat)]
  /\ now \in Nat \ {0}

Followers ==
  /\ Follows(disk)
  /\ \A s \in agrees : Follows(mem[s])
  /\ \A s \in agreed : Follows(prior[s])

(* A session that is loading has what is in the file.                      *)
Loading ==
  \A s \in Sessions :
    /\ pc[s] = "down" => s \notin agrees
    /\ pc[s] = "loaded" => mem[s] = disk
    /\ pc[s] = "stamped" /\ s \in agrees => mem[s] = disk
    /\ prior[s] # NoPrior => pc[s] \in {"loaded", "stamped"}
    /\ s \in agreed => prior[s] # NoPrior

(* A session in a call has the lock, the file is as it last wrote it, and  *)
(* nobody else could write: who agrees with the file is only loading it.   *)
InStep(s) ==
  LET n == op[s].nonce IN
  /\ n \in Nonces /\ s \in agrees /\ disk = mem[s] /\ agreed = {} /\ holder = s
  /\ \A t \in agrees \ {s} : pc[t] \in {"loaded", "stamped"}
  /\ Phase(disk, n) = IF pc[s] = "prepared" THEN "prepared" ELSE "submitted"
  /\ pc[s] \in {"prepared", "submitted"} => op[s].at = now
  /\ pc[s] = "submitted" => now \in disk.rows[n].submits /\ (rail[n] # <<>> => IdempotentRail)
  /\ pc[s] = "settled" => rail[n] # <<>>
  /\ pc[s] = "failed" => rail[n] = <<>>

Calls == \A s \in Sessions : pc[s] \in InCall => InStep(s)

PaidOnce == \A n \in Nonces : Len(rail[n]) <= 1

IInv == Shape /\ Followers /\ Loading /\ Calls /\ PaidOnce

-----------------------------------------------------------------------------
(* What the calls do to a view.                                            *)

(* One field of one row at a time.                                         *)
SetReservedAt(v, n, at) == [v EXCEPT !.rows[n].reservedAt = at]
SetSubmits(v, n, times) == [v EXCEPT !.rows[n].submits = times]
SetLastSubmit(v, n, at) == [v EXCEPT !.rows[n].lastSubmit = at]

LEMMA SetPhaseDoes ==
  ASSUME NEW v \in Views, NEW n \in Nonces, NEW p \in Phases
  PROVE  LET w == SetPhase(v, n, p)
         IN  /\ w \in Views /\ w.receipts = v.receipts /\ w.used = v.used /\ w.counters = v.counters
             /\ w.rows[n].phase = p /\ w.rows[n].submits = v.rows[n].submits
             /\ w.rows[n].reservedAt = v.rows[n].reservedAt
             /\ \A m \in Nonces \ {n} : w.rows[m] = v.rows[m]
  BY DEF SetPhase, Views, Rows

LEMMA SetReservedAtDoes ==
  ASSUME NEW v \in Views, NEW n \in Nonces, NEW at \in Nat
  PROVE  LET w == SetReservedAt(v, n, at)
         IN  /\ w \in Views /\ w.receipts = v.receipts /\ w.used = v.used /\ w.counters = v.counters
             /\ w.rows[n].phase = v.rows[n].phase /\ w.rows[n].submits = v.rows[n].submits
             /\ w.rows[n].reservedAt = at
             /\ \A m \in Nonces \ {n} : w.rows[m] = v.rows[m]
  BY DEF SetReservedAt, Views, Rows

LEMMA SetSubmitsDoes ==
  ASSUME NEW v \in Views, NEW n \in Nonces, NEW times \in SUBSET Nat
  PROVE  LET w == SetSubmits(v, n, times)
         IN  /\ w \in Views /\ w.receipts = v.receipts /\ w.used = v.used /\ w.counters = v.counters
             /\ w.rows[n].phase = v.rows[n].phase /\ w.rows[n].submits = times
             /\ w.rows[n].reservedAt = v.rows[n].reservedAt
             /\ \A m \in Nonces \ {n} : w.rows[m] = v.rows[m]
  BY DEF SetSubmits, Views, Rows

LEMMA SetLastSubmitDoes ==
  ASSUME NEW v \in Views, NEW n \in Nonces, NEW at \in Nat
  PROVE  LET w == SetLastSubmit(v, n, at)
         IN  /\ w \in Views /\ w.receipts = v.receipts /\ w.used = v.used /\ w.counters = v.counters
             /\ w.rows[n].phase = v.rows[n].phase /\ w.rows[n].submits = v.rows[n].submits
             /\ w.rows[n].reservedAt = v.rows[n].reservedAt
             /\ \A m \in Nonces \ {n} : w.rows[m] = v.rows[m]
  BY DEF SetLastSubmit, Views, Rows

LEMMA CutReceiptDoes ==
  ASSUME NEW v \in Views, NEW n \in Nonces, NEW on \in {"rail", "ledger"}
  PROVE  LET w == CutReceipt(v, n, on)
         IN  /\ w \in Views /\ w.used = v.used /\ w.counters = v.counters /\ w.rows = v.rows
             /\ w.receipts = Append(v.receipts, [nonce |-> n, on |-> on])
  <1> DEFINE receipt == [nonce |-> n, on |-> on]
  <1>1. receipt \in Receipts
    BY DEF Receipts
  <1>2. v.receipts \in Seq(Receipts)
    BY DEF Views
  <1>3. Append(v.receipts, receipt) \in Seq(Receipts)
    BY <1>1, <1>2
  <1> HIDE DEF receipt
  <1>4. CutReceipt(v, n, on) = [v EXCEPT !.receipts = Append(v.receipts, receipt)]
    BY DEF CutReceipt, receipt
  <1>5. Append(v.receipts, receipt) = Append(v.receipts, [nonce |-> n, on |-> on])
    BY DEF receipt
  <1> QED BY <1>3, <1>4, <1>5 DEF Views

LEMMA CountersDo ==
  ASSUME NEW c \in Counters, NEW at \in Nat
  PROVE  RollWindow(c, at) \in Counters /\ Take(c, Amount) \in Counters
         /\ GiveBack(c, Amount, at) \in Counters
  BY SessionAssumption DEF Counters, RollWindow, Take, GiveBack

LEMMA ReserveDoes ==
  ASSUME NEW v \in Views, NEW n \in Nonces, NEW at \in Nat
  PROVE  LET w == Reserve(v, n, at)
         IN  /\ w \in Views /\ w.receipts = v.receipts /\ w.rows = v.rows
             /\ w.used = v.used \cup {n}
             /\ w.counters = Take(RollWindow(v.counters, at), Amount)
  <1>1. v.counters \in Counters
    BY DEF Views
  <1>2. Take(RollWindow(v.counters, at), Amount) \in Counters
    BY <1>1, CountersDo
  <1> QED BY <1>2 DEF Reserve, Views

LEMMA PreparedRow ==
  ASSUME NEW u \in Views, NEW n \in Nonces, NEW at \in Nat
  PROVE  LET w == SetSubmits(SetReservedAt(SetPhase(u, n, "prepared"), n, at), n, {})
         IN  /\ w \in Views /\ w.receipts = u.receipts /\ w.used = u.used
             /\ w.counters = u.counters /\ w.rows[n].reservedAt = at
             /\ w.rows[n].phase = "prepared" /\ w.rows[n].submits = {}
             /\ \A m \in Nonces \ {n} : w.rows[m] = u.rows[m]
  <1> DEFINE u1 == SetPhase(u, n, "prepared")
             u2 == SetReservedAt(u1, n, at)
             u3 == SetSubmits(u2, n, {})
  <1>1. /\ u1 \in Views /\ u1.receipts = u.receipts /\ u1.used = u.used /\ u1.counters = u.counters
        /\ u1.rows[n].phase = "prepared" /\ \A m \in Nonces \ {n} : u1.rows[m] = u.rows[m]
    BY SetPhaseDoes DEF Phases
  <1> HIDE DEF u1
  <1>2. /\ u2 \in Views /\ u2.receipts = u.receipts /\ u2.used = u.used /\ u2.counters = u.counters
        /\ u2.rows[n].reservedAt = at /\ u2.rows[n].phase = "prepared" /\ \A m \in Nonces \ {n} : u2.rows[m] = u.rows[m]
    BY <1>1, SetReservedAtDoes
  <1> HIDE DEF u2
  <1>3. /\ u3 \in Views /\ u3.receipts = u.receipts /\ u3.used = u.used /\ u3.counters = u.counters
        /\ u3.rows[n].reservedAt = at /\ u3.rows[n].phase = "prepared" /\ u3.rows[n].submits = {}
        /\ \A m \in Nonces \ {n} : u3.rows[m] = u.rows[m]
    BY <1>2, SetSubmitsDoes
  <1> QED BY <1>3 DEF u1, u2

LEMMA PrepareDoes ==
  ASSUME NEW v \in Views, NEW n \in Nonces, NEW at \in Nat
  PROVE  LET w == Prepare(v, n, at)
         IN  /\ w \in Views /\ w.receipts = v.receipts /\ w.used = v.used \cup {n}
             /\ w.counters = Take(RollWindow(v.counters, at), Amount) /\ w.rows[n].reservedAt = at
             /\ w.rows[n].phase = "prepared" /\ w.rows[n].submits = {}
             /\ \A m \in Nonces \ {n} : w.rows[m] = v.rows[m]
  <1>1. Prepare(v, n, at) =
          SetSubmits(SetReservedAt(SetPhase(Reserve(v, n, at), n, "prepared"), n, at), n, {})
    BY DEF Prepare, SetPhase, SetReservedAt, SetSubmits
  <1> QED BY <1>1, ReserveDoes, PreparedRow

LEMMA MarkSubmittedDoes ==
  ASSUME NEW v \in Views, NEW n \in Nonces, NEW at \in Nat
  PROVE  LET w == MarkSubmitted(v, n, at)
         IN  /\ w \in Views /\ w.receipts = v.receipts /\ w.used = v.used /\ w.counters = v.counters
             /\ w.rows[n].reservedAt = v.rows[n].reservedAt
             /\ w.rows[n].phase = "submitted" /\ w.rows[n].submits = v.rows[n].submits \cup {at}
             /\ \A m \in Nonces \ {n} : w.rows[m] = v.rows[m]
  <1> DEFINE S == v.rows[n].submits \cup {at}
             v1 == SetPhase(v, n, "submitted")
             v2 == SetSubmits(v1, n, S)
             v3 == SetLastSubmit(v2, n, at)
  <1>1. S \in SUBSET Nat
    BY DEF Views, Rows
  <1>2. /\ v1 \in Views /\ v1.receipts = v.receipts /\ v1.used = v.used /\ v1.counters = v.counters
        /\ v1.rows[n].reservedAt = v.rows[n].reservedAt
        /\ v1.rows[n].phase = "submitted" /\ v1.rows[n].submits = v.rows[n].submits
        /\ \A m \in Nonces \ {n} : v1.rows[m] = v.rows[m]
    BY SetPhaseDoes DEF Phases
  <1>3. MarkSubmitted(v, n, at) = SetLastSubmit(SetSubmits(v1, n, v1.rows[n].submits \cup {at}), n, at)
    BY DEF MarkSubmitted, SetPhase, SetSubmits, SetLastSubmit
  <1> HIDE DEF v1
  <1>4. MarkSubmitted(v, n, at) = v3
    BY <1>2, <1>3
  <1> HIDE DEF S
  <1>5. /\ v2 \in Views /\ v2.receipts = v.receipts /\ v2.used = v.used /\ v2.counters = v.counters
        /\ v2.rows[n].reservedAt = v.rows[n].reservedAt
        /\ v2.rows[n].phase = "submitted" /\ v2.rows[n].submits = S
        /\ \A m \in Nonces \ {n} : v2.rows[m] = v.rows[m]
    BY <1>1, <1>2, SetSubmitsDoes
  <1> HIDE DEF v2
  <1>6. /\ v3 \in Views /\ v3.receipts = v.receipts /\ v3.used = v.used /\ v3.counters = v.counters
        /\ v3.rows[n].reservedAt = v.rows[n].reservedAt
        /\ v3.rows[n].phase = "submitted" /\ v3.rows[n].submits = S
        /\ \A m \in Nonces \ {n} : v3.rows[m] = v.rows[m]
    BY <1>5, SetLastSubmitDoes
  <1> HIDE DEF v3
  <1> QED BY <1>4, <1>6 DEF S

LEMMA GiveUpDoes ==
  ASSUME NEW v \in Views, NEW n \in Nonces
  PROVE  LET w == GiveUp(v, n)
         IN  /\ w \in Views /\ w.receipts = v.receipts /\ w.used = v.used \ {n}
             /\ w.counters = GiveBack(v.counters, Amount, v.rows[n].reservedAt)
             /\ w.rows[n].phase = "failed" /\ w.rows[n].submits = v.rows[n].submits
             /\ \A m \in Nonces \ {n} : w.rows[m] = v.rows[m]
  <1> DEFINE u == [v EXCEPT !.used = @ \ {n},
                            !.counters = GiveBack(@, Amount, v.rows[n].reservedAt)]
  <1>1. v.counters \in Counters /\ v.rows[n].reservedAt \in Nat
    BY DEF Views, Rows
  <1>2. GiveBack(v.counters, Amount, v.rows[n].reservedAt) \in Counters
    BY <1>1, CountersDo
  <1>3. /\ u \in Views /\ u.receipts = v.receipts /\ u.rows = v.rows /\ u.used = v.used \ {n}
        /\ u.counters = GiveBack(v.counters, Amount, v.rows[n].reservedAt)
    BY <1>2 DEF Views
  <1>4. GiveUp(v, n) = SetPhase(u, n, "failed") /\ "failed" \in Phases
    BY DEF GiveUp, Phases
  <1> HIDE DEF u
  <1> QED BY <1>3, <1>4, SetPhaseDoes

(* What recovery takes off the counters, and what is left of them.         *)
PreparedInWindow(v) ==
  {n \in {n \in Nonces : Phase(v, n) = "prepared"} : InCounters(v.counters, v.rows[n].reservedAt)}

Returned(c, back) ==
  [windowStartMs |-> c.windowStartMs,
   allowedCount  |-> IF c.allowedCount >= back THEN c.allowedCount - back ELSE 0,
   allowedSum    |-> IF c.allowedSum >= back * Amount THEN c.allowedSum - back * Amount ELSE 0]

LEMMA RecoveredDoes ==
  ASSUME NEW v \in Views
  PROVE  LET w == Recovered(v)
         IN  /\ w \in Views /\ w.receipts = v.receipts
             /\ w.used = v.used \ {n \in Nonces : Phase(v, n) = "prepared"}
             /\ w.counters = Returned(v.counters, Cardinality(PreparedInWindow(v)))
             /\ \A n \in Nonces :
                  /\ w.rows[n].submits = v.rows[n].submits
                  /\ w.rows[n].reservedAt = v.rows[n].reservedAt
                  /\ w.rows[n].phase = CASE Phase(v, n) = "prepared" -> "failed"
                                         [] Phase(v, n) = "submitted" -> "indeterminate"
                                         [] OTHER -> Phase(v, n)
  <1> DEFINE prepared == {n \in Nonces : Phase(v, n) = "prepared"}
             counted == {n \in prepared : InCounters(v.counters, v.rows[n].reservedAt)}
             back == Cardinality(counted)
             Less(x, y) == IF x >= y THEN x - y ELSE 0
             counters == [windowStartMs |-> v.counters.windowStartMs,
                          allowedCount |-> Less(v.counters.allowedCount, back),
                          allowedSum |-> Less(v.counters.allowedSum, back * Amount)]
             rows == [n \in Nonces |->
                        CASE v.rows[n].phase = "prepared" -> [v.rows[n] EXCEPT !.phase = "failed"]
                          [] v.rows[n].phase = "submitted" -> [v.rows[n] EXCEPT !.phase = "indeterminate"]
                          [] OTHER -> v.rows[n]]
  <1>1. back \in Nat
    BY SessionAssumption, FS_Subset, FS_CardinalityType
  <1>2. back * Amount \in Nat
    BY <1>1, SessionAssumption
  <1>3. v.counters \in Counters
    BY DEF Views
  <1>4. counters \in Counters
    <2> HIDE DEF back
    <2> QED BY <1>1, <1>2, <1>3 DEF Counters
  <1>5. \A n \in Nonces : /\ rows[n] \in Rows /\ rows[n].submits = v.rows[n].submits
                          /\ rows[n].reservedAt = v.rows[n].reservedAt
                          /\ rows[n].phase = CASE Phase(v, n) = "prepared" -> "failed"
                                               [] Phase(v, n) = "submitted" -> "indeterminate"
                                               [] OTHER -> Phase(v, n)
    BY DEF Views, Rows, Phases, Phase
  <1>6. Recovered(v) = [v EXCEPT !.used = @ \ prepared, !.counters = counters, !.rows = rows]
    BY DEF Recovered, Views
  <1>7. rows \in [Nonces -> Rows]
    BY <1>5
  <1>8. counters = Returned(v.counters, Cardinality(PreparedInWindow(v)))
    BY DEF Returned, PreparedInWindow
  <1> HIDE DEF counters, rows
  <1> QED BY <1>4, <1>5, <1>6, <1>7, <1>8 DEF Views

-----------------------------------------------------------------------------
(* What the calls leave true of a view, and what they need for it.         *)

LEMMA ReceiptIsThere ==
  ASSUME NEW v, NEW n PROVE HasReceipt(v, n) <=> \E i \in DOMAIN v.receipts : v.receipts[i].nonce = n
  BY DEF HasReceipt, ReceiptsFor

LEMMA ReceiptsAreSequences ==
  ASSUME NEW v \in Views
  PROVE  /\ v.receipts \in Seq(Receipts)
         /\ Len(v.receipts) \in Nat /\ DOMAIN v.receipts = 1 .. Len(v.receipts)
         /\ \A i \in DOMAIN v.receipts : v.receipts[i].nonce \in Nonces
  <1>1. v.receipts \in Seq(Receipts)
    BY DEF Views
  <1>2. \A i \in DOMAIN v.receipts : v.receipts[i] \in Receipts
    BY <1>1
  <1>3. \A x \in Receipts : x.nonce \in Nonces
    BY DEF Receipts
  <1> QED BY <1>1, <1>2, <1>3

(* A change of one row that leaves the receipts.                           *)
LEMMA RowChanges ==
  ASSUME NEW v \in Views, NEW w \in Views, NEW n \in Nonces, NEW m, Good(v, m),
         w.receipts = v.receipts,
         \A k \in Nonces \ {n} : w.rows[k] = v.rows[k] /\ (k \in w.used <=> k \in v.used),
         w.rows[n].phase = "settled" => HasReceipt(v, n),
         w.rows[n].phase \in Open => n \in w.used /\ ~HasReceipt(v, n),
         n \notin w.used => ~HasReceipt(v, n),
         m[n] # <<>> => /\ n \in w.used /\ w.rows[n].phase \in {"submitted", "indeterminate", "settled"}
                        /\ \A i \in DOMAIN m[n] : m[n][i] \in w.rows[n].submits
  PROVE  Good(w, m)
  <1>1. \A k : HasReceipt(w, k) <=> HasReceipt(v, k)
    BY ReceiptIsThere
  <1>2. \A i \in DOMAIN v.receipts : v.receipts[i].nonce \in Nonces
    BY ReceiptsAreSequences
  <1>3. \A i \in DOMAIN v.receipts : v.receipts[i].nonce \in w.used
    BY <1>2, ReceiptIsThere DEF Good, Consistent
  <1>4. Consistent(w)
    BY <1>1, <1>3 DEF Good, Consistent, Phase
  <1>5. Sound(w, m)
    BY DEF Good, Sound, Phase
  <1> QED BY <1>4, <1>5 DEF Good

LEMMA UnusedIsFree ==
  ASSUME NEW v \in Views, NEW n \in Nonces, NEW m, Good(v, m), n \notin v.used
  PROVE  m[n] = <<>> /\ ~HasReceipt(v, n)
  BY ReceiptIsThere DEF Good, Consistent, Sound

LEMMA PrepareGood ==
  ASSUME NEW v \in Views, NEW n \in Nonces, NEW at \in Nat, NEW m, Good(v, m), n \notin v.used
  PROVE  Good(Prepare(v, n, at), m)
  <1>1. m[n] = <<>> /\ ~HasReceipt(v, n)
    BY UnusedIsFree
  <1> QED BY <1>1, PrepareDoes, RowChanges

LEMMA MarkGood ==
  ASSUME NEW v \in Views, NEW n \in Nonces, NEW at \in Nat, NEW m, Good(v, m),
         Phase(v, n) \in {"prepared", "indeterminate"}
  PROVE  Good(MarkSubmitted(v, n, at), m)
  <1>1. n \in v.used /\ ~HasReceipt(v, n)
    BY DEF Good, Consistent, Open
  <1>2. m[n] # <<>> => \A i \in DOMAIN m[n] : m[n][i] \in v.rows[n].submits \cup {at}
    BY DEF Good, Sound
  <1> QED BY <1>1, <1>2, MarkSubmittedDoes, RowChanges

LEMMA GiveUpGood ==
  ASSUME NEW v \in Views, NEW n \in Nonces, NEW m, Good(v, m), Phase(v, n) \in Open, m[n] = <<>>
  PROVE  Good(GiveUp(v, n), m)
  <1>1. ~HasReceipt(v, n)
    BY DEF Good, Consistent
  <1>2. "failed" \notin Open
    BY DEF Open
  <1> QED BY <1>1, <1>2, GiveUpDoes, RowChanges

LEMMA KeepOpenGood ==
  ASSUME NEW v \in Views, NEW n \in Nonces, NEW m, Good(v, m), Phase(v, n) = "submitted"
  PROVE  Good(SetPhase(v, n, "indeterminate"), m)
  <1>1. n \in v.used /\ ~HasReceipt(v, n) /\ "indeterminate" \in Phases
    BY DEF Good, Consistent, Open, Phases
  <1>2. m[n] # <<>> => \A i \in DOMAIN m[n] : m[n][i] \in v.rows[n].submits
    BY DEF Good, Sound
  <1> QED BY <1>1, <1>2, SetPhaseDoes, RowChanges

(* A receipt for a nonce that has none.                                    *)
LEMMA ReceiptGood ==
  ASSUME NEW v \in Views, NEW n \in Nonces, NEW on \in {"rail", "ledger"}, NEW m,
         NEW w \in Views, w = CutReceipt(v, n, on),
         Good(v, m), ~HasReceipt(v, n), n \in v.used, on = "rail" <=> m[n] # <<>>
  PROVE  /\ \A i, j \in DOMAIN w.receipts : w.receipts[i].nonce = w.receipts[j].nonce => i = j
         /\ \A i \in DOMAIN w.receipts : w.receipts[i].nonce \in w.used
         /\ \A k : HasReceipt(w, k) <=> HasReceipt(v, k) \/ k = n
         /\ \A i \in DOMAIN w.receipts : w.receipts[i].on = "rail" <=> m[w.receipts[i].nonce] # <<>>
  <1> DEFINE last == Len(v.receipts) + 1
  <1>1. /\ w.receipts = Append(v.receipts, [nonce |-> n, on |-> on]) /\ w.used = v.used
        /\ v.receipts \in Seq(Receipts)
    BY CutReceiptDoes, ReceiptsAreSequences
  <1>2. /\ DOMAIN v.receipts = 1 .. Len(v.receipts) /\ DOMAIN w.receipts = 1 .. last
        /\ Len(v.receipts) \in Nat
        /\ \A i \in 1 .. Len(v.receipts) : w.receipts[i] = v.receipts[i]
        /\ w.receipts[last] = [nonce |-> n, on |-> on]
    <2> DEFINE receipt == [nonce |-> n, on |-> on]
    <2> HIDE DEF receipt
    <2>1. w.receipts = Append(v.receipts, receipt)
      BY <1>1 DEF receipt
    <2>2. /\ DOMAIN w.receipts = 1 .. last /\ Len(v.receipts) \in Nat
          /\ DOMAIN v.receipts = 1 .. Len(v.receipts)
          /\ \A i \in 1 .. Len(v.receipts) : w.receipts[i] = v.receipts[i]
          /\ w.receipts[last] = receipt
      BY <1>1, <2>1
    <2> QED BY <2>2 DEF receipt
  <1>3. \A i \in 1 .. Len(v.receipts) : v.receipts[i].nonce # n
    BY <1>2, ReceiptIsThere
  <1>4. \A i \in DOMAIN w.receipts : i \in 1 .. Len(v.receipts) \/ i = last
    BY <1>2
  <1>5. w.receipts[last].nonce = n /\ w.receipts[last].on = on
    BY <1>2
  <1>6. ASSUME NEW i \in DOMAIN w.receipts, NEW j \in DOMAIN w.receipts,
               w.receipts[i].nonce = w.receipts[j].nonce
        PROVE  i = j
    <2>1. CASE i = last \/ j = last
      BY <1>2, <1>3, <1>4, <1>5, <1>6, <2>1
    <2>2. CASE i \in 1 .. Len(v.receipts) /\ j \in 1 .. Len(v.receipts)
      BY <1>2, <1>6, <2>2 DEF Good, Consistent
    <2> QED BY <1>4, <2>1, <2>2
  <1>7. \A i \in DOMAIN w.receipts : w.receipts[i].nonce \in w.used
    BY <1>1, <1>2, <1>4, <1>5 DEF Good, Consistent
  <1>8. \A k : HasReceipt(w, k) <=> HasReceipt(v, k) \/ k = n
    <2>1. last \in DOMAIN w.receipts /\ 1 .. Len(v.receipts) \subseteq DOMAIN w.receipts
      BY <1>2
    <2> QED BY <1>2, <1>4, <1>5, <2>1, ReceiptIsThere
  <1>9. \A i \in DOMAIN w.receipts : w.receipts[i].on = "rail" <=> m[w.receipts[i].nonce] # <<>>
    BY <1>2, <1>4, <1>5 DEF Good, Sound
  <1> QED BY <1>6, <1>7, <1>8, <1>9

LEMMA SettleGood ==
  ASSUME NEW v \in Views, NEW n \in Nonces, NEW m, Good(v, m), Phase(v, n) \in Open, m[n] # <<>>
  PROVE  Settle(v, n) \in Views /\ Good(Settle(v, n), m)
  <1> DEFINE u == CutReceipt(v, n, "rail")
             w == SetPhase(u, n, "settled")
  <1>1. n \in v.used /\ ~HasReceipt(v, n)
    BY DEF Good, Consistent
  <1>2. u \in Views /\ u.used = v.used /\ u.rows = v.rows
    BY CutReceiptDoes
  <1>3. /\ \A i, j \in DOMAIN u.receipts : u.receipts[i].nonce = u.receipts[j].nonce => i = j
        /\ \A i \in DOMAIN u.receipts : u.receipts[i].nonce \in u.used
        /\ \A k : HasReceipt(u, k) <=> HasReceipt(v, k) \/ k = n
        /\ \A i \in DOMAIN u.receipts : u.receipts[i].on = "rail" <=> m[u.receipts[i].nonce] # <<>>
    BY <1>1, <1>2, ReceiptGood
  <1>4. Settle(v, n) = w
    BY DEF Settle
  <1> HIDE DEF u
  <1>5. /\ w \in Views /\ w.receipts = u.receipts /\ w.used = u.used
        /\ w.rows[n].phase = "settled" /\ w.rows[n].submits = u.rows[n].submits
        /\ \A k \in Nonces \ {n} : w.rows[k] = u.rows[k]
    <2>1. "settled" \in Phases
      BY DEF Phases
    <2> QED BY <1>2, <2>1, SetPhaseDoes
  <1> HIDE DEF w
  <1>6. \A k : HasReceipt(w, k) <=> HasReceipt(v, k) \/ k = n
    BY <1>3, <1>5, ReceiptIsThere
  <1>7. \A k \in Nonces : Phase(w, k) = (IF k = n THEN "settled" ELSE Phase(v, k))
    BY <1>2, <1>5 DEF Phase
  <1>8. Consistent(w)
    <2>1. \A k \in Nonces : Phase(w, k) = "settled" => HasReceipt(w, k)
      BY <1>6, <1>7 DEF Good, Consistent
    <2>2. \A k \in Nonces : Phase(w, k) \in Open => k \in w.used /\ ~HasReceipt(w, k)
      BY <1>2, <1>5, <1>6, <1>7 DEF Good, Consistent, Open
    <2> QED BY <1>3, <1>5, <2>1, <2>2 DEF Consistent
  <1>9. Sound(w, m)
    <2>1. \A k \in Nonces : w.rows[k].submits = v.rows[k].submits
      BY <1>2, <1>5
    <2>2. ASSUME NEW k \in Nonces, m[k] # <<>>
          PROVE  /\ k \in w.used /\ Phase(w, k) \in {"submitted", "indeterminate", "settled"}
                 /\ \A i \in DOMAIN m[k] : m[k][i] \in w.rows[k].submits
      BY <1>2, <1>5, <1>7, <2>1, <2>2 DEF Good, Sound
    <2> QED BY <1>3, <1>5, <2>2 DEF Sound
  <1> QED BY <1>4, <1>5, <1>8, <1>9 DEF Good

LEMMA SpendGood ==
  ASSUME NEW v \in Views, NEW n \in Nonces, NEW at \in Nat, NEW m, Good(v, m), n \notin v.used
  PROVE  /\ CutReceipt(Reserve(v, n, at), n, "ledger") \in Views
         /\ Good(CutReceipt(Reserve(v, n, at), n, "ledger"), m)
  <1> DEFINE u == Reserve(v, n, at)
             w == CutReceipt(u, n, "ledger")
  <1>1. u \in Views /\ u.receipts = v.receipts /\ u.rows = v.rows /\ u.used = v.used \cup {n}
    BY ReserveDoes
  <1>2. m[n] = <<>> /\ ~HasReceipt(v, n)
    BY UnusedIsFree
  <1>3. v.rows[n].phase \notin {"settled"} \cup Open
    BY <1>2 DEF Good, Consistent, Phase
  <1> HIDE DEF u
  <1>4. Good(u, m) /\ ~HasReceipt(u, n) /\ n \in u.used
    <2>1. ~HasReceipt(u, n)
      BY <1>1, <1>2, ReceiptIsThere
    <2> QED BY <1>1, <1>2, <1>3, <2>1, RowChanges
  <1>5. w \in Views /\ w.used = u.used /\ w.rows = u.rows
    BY <1>1, CutReceiptDoes
  <1>6. /\ \A i, j \in DOMAIN w.receipts : w.receipts[i].nonce = w.receipts[j].nonce => i = j
        /\ \A i \in DOMAIN w.receipts : w.receipts[i].nonce \in w.used
        /\ \A k : HasReceipt(w, k) <=> HasReceipt(u, k) \/ k = n
        /\ \A i \in DOMAIN w.receipts : w.receipts[i].on = "rail" <=> m[w.receipts[i].nonce] # <<>>
    BY <1>1, <1>2, <1>4, <1>5, ReceiptGood
  <1> HIDE DEF w
  <1>7. Consistent(w)
    <2>1. \A k \in Nonces : Phase(w, k) = Phase(u, k)
      BY <1>5 DEF Phase
    <2>2. Phase(u, n) \notin Open
      BY <1>1, <1>3 DEF Phase
    <2> QED BY <1>4, <1>5, <1>6, <2>1, <2>2 DEF Good, Consistent
  <1>8. Sound(w, m)
    BY <1>4, <1>5, <1>6 DEF Good, Sound, Phase
  <1>9. Good(w, m)
    BY <1>7, <1>8 DEF Good
  <1> QED BY <1>5, <1>9 DEF w, u

LEMMA RecoveredGood ==
  ASSUME NEW v \in Views, NEW m, Good(v, m) PROVE Good(Recovered(v), m)
  <1> DEFINE w == Recovered(v)
  <1>1. /\ w \in Views /\ w.receipts = v.receipts
        /\ w.used = v.used \ {n \in Nonces : Phase(v, n) = "prepared"}
        /\ \A n \in Nonces :
             /\ w.rows[n].submits = v.rows[n].submits
             /\ w.rows[n].phase = CASE Phase(v, n) = "prepared" -> "failed"
                                    [] Phase(v, n) = "submitted" -> "indeterminate"
                                    [] OTHER -> Phase(v, n)
    BY RecoveredDoes
  <1> HIDE DEF w
  <1>2. \A k : HasReceipt(w, k) <=> HasReceipt(v, k)
    BY <1>1, ReceiptIsThere
  <1>3. \A n \in Nonces : Phase(w, n) = CASE Phase(v, n) = "prepared" -> "failed"
                                          [] Phase(v, n) = "submitted" -> "indeterminate"
                                          [] OTHER -> Phase(v, n)
    BY <1>1 DEF Phase
  <1>4. \A i \in DOMAIN v.receipts :
          v.receipts[i].nonce \in Nonces /\ Phase(v, v.receipts[i].nonce) # "prepared"
    BY ReceiptIsThere DEF Good, Consistent, Open, Views, Receipts
  <1>5. Consistent(w)
    BY <1>1, <1>2, <1>3, <1>4 DEF Good, Consistent, Open
  <1>6. Sound(w, m)
    BY <1>1, <1>3 DEF Good, Sound
  <1>7. Good(w, m)
    BY <1>5, <1>6 DEF Good
  <1> QED BY <1>7 DEF w

-----------------------------------------------------------------------------
(* Receipts are only added to a view.                                      *)

LEMMA LongerOrder ==
  /\ \A v \in Views : Longer(v.receipts, v.receipts)
  /\ \A u, v, w \in Views : Longer(u.receipts, v.receipts) /\ Longer(v.receipts, w.receipts)
                              => Longer(u.receipts, w.receipts)
  BY ReceiptsAreSequences DEF Longer

LEMMA CutReceiptLonger ==
  ASSUME NEW v \in Views, NEW n \in Nonces, NEW on \in {"rail", "ledger"}
  PROVE  Longer(CutReceipt(v, n, on).receipts, v.receipts)
  <1> DEFINE receipt == [nonce |-> n, on |-> on]
             w == CutReceipt(v, n, on)
  <1>1. w.receipts = Append(v.receipts, receipt) /\ v.receipts \in Seq(Receipts)
    BY CutReceiptDoes, ReceiptsAreSequences
  <1> HIDE DEF receipt, w
  <1>2. Longer(w.receipts, v.receipts)
    BY <1>1 DEF Longer
  <1> QED BY <1>2 DEF w

LEMMA SettleLonger ==
  ASSUME NEW v \in Views, NEW n \in Nonces PROVE Longer(Settle(v, n).receipts, v.receipts)
  <1>1. CutReceipt(v, n, "rail") \in Views
    BY CutReceiptDoes
  <1>2. "settled" \in Phases
    BY DEF Phases
  <1>3. Settle(v, n).receipts = CutReceipt(v, n, "rail").receipts
    BY <1>1, <1>2, SetPhaseDoes DEF Settle
  <1> QED BY <1>3, CutReceiptLonger

-----------------------------------------------------------------------------
(* What a save does to the views, whoever saves and whatever for.          *)

LEMMA InitInv == Init => IInv
  <1> SUFFICES ASSUME Init PROVE IInv
    OBVIOUS
  <1>1. EmptyView \in Views /\ EmptyView.receipts = <<>> /\ EmptyView.used = {}
    BY DEF EmptyView, Views, Counters, FreshCounters, Rows, NoRow, Phases
  <1>2. \A n \in Nonces : EmptyView.rows[n].phase = "none"
    BY DEF EmptyView, NoRow
  <1>3. \A n \in Nonces : rail[n] = <<>>
    BY DEF Init
  <1>4. Good(EmptyView, rail)
    BY <1>1, <1>2, <1>3 DEF Good, Consistent, Sound, Phase, Open
  <1>5. Shape
    <2>1. NoOp \in [nonce : Nonces \cup {Nobody}, at : Nat]
      BY DEF NoOp
    <2> QED BY <1>1, <2>1 DEF Init, Shape, Places
  <1>6. Followers
    BY <1>1, <1>4, LongerOrder DEF Init, Followers, Follows
  <1>7. Loading /\ Calls
    BY DEF Init, Loading, Calls, InCall, Answers
  <1>8. PaidOnce
    BY <1>3 DEF PaidOnce
  <1> QED BY <1>5, <1>6, <1>7, <1>8 DEF IInv

LEMMA OneCall ==
  ASSUME IInv, NEW s \in Sessions, pc[s] \in InCall, NEW t \in Sessions, pc[t] \in InCall PROVE s = t
  BY DEF IInv, Calls, InStep

LEMMA NoCall ==
  ASSUME IInv, holder = Nobody, NEW s \in Sessions PROVE pc[s] \notin InCall
  BY SessionAssumption DEF IInv, Calls, InStep

(* The session is between calls after the save, or never began one.        *)
LEMMA SavedInv ==
  ASSUME IInv, QuietLoads, NEW s \in Sessions, NEW view \in Views,
         Writes(s, view), Good(view, rail), UNCHANGED <<rail, now>>,
         \A t \in Sessions \ {s} : pc[t] \notin InCall,
         pc' \in [Sessions -> Places], pc'[s] = "idle",
         \A t \in Sessions \ {s} : pc'[t] = pc[t] /\ prior'[t] = prior[t],
         prior' \in [Sessions -> Views \cup {NoPrior}], prior'[s] = NoPrior,
         op' \in [Sessions -> [nonce : Nonces \cup {Nobody}, at : Nat]],
         holder' \in Sessions \cup {Nobody}
  PROVE  IInv'
  <1>1. /\ disk' = view /\ agrees' = {s} /\ agreed' = {}
        /\ mem' = [mem EXCEPT ![s] = view]
    BY DEF Writes
  <1>2. Shape'
    BY <1>1 DEF IInv, Shape
  <1>3. mem'[s] = view
    BY <1>1 DEF IInv, Shape
  <1>4. Followers'
    BY <1>1, <1>3, LongerOrder DEF Followers, Follows
  <1>5. \A t \in Sessions \ {s} : pc[t] # "loaded"
    BY DEF Writes, NobodyIsLoading
  <1>6. Loading'
    BY <1>1, <1>5 DEF IInv, Loading
  <1>7. Calls'
    <2>1. "idle" \notin InCall
      BY DEF InCall, Answers
    <2> QED BY <2>1 DEF Calls
  <1>8. PaidOnce'
    BY DEF IInv, PaidOnce
  <1> QED BY <1>2, <1>4, <1>6, <1>7, <1>8 DEF IInv

(* The write failed and the session keeps what it could not write.         *)
LEMMA UnsavedInv ==
  ASSUME IInv, NEW s \in Sessions, s \in agrees, NEW view \in Views,
         WriteFails(s, view), Good(view, rail), Longer(view.receipts, mem[s].receipts),
         UNCHANGED <<rail, now, prior>>, prior[s] = NoPrior,
         \A t \in Sessions \ {s} : pc[t] \notin InCall,
         pc' \in [Sessions -> Places], pc'[s] = "idle",
         \A t \in Sessions \ {s} : pc'[t] = pc[t],
         op' \in [Sessions -> [nonce : Nonces \cup {Nobody}, at : Nat]],
         holder' \in Sessions \cup {Nobody}
  PROVE  IInv'
  <1>1. UNCHANGED <<disk, agrees, agreed>> /\ mem' = [mem EXCEPT ![s] = view]
    BY DEF WriteFails, Fault
  <1>2. Shape'
    BY <1>1 DEF IInv, Shape
  <1>3. mem'[s] = view /\ \A t \in Sessions \ {s} : mem'[t] = mem[t]
    BY <1>1 DEF IInv, Shape
  <1>4. Longer(view.receipts, disk.receipts)
    <2>1. mem[s] \in Views /\ disk \in Views /\ Longer(mem[s].receipts, disk.receipts)
      BY DEF IInv, Shape, Followers, Follows
    <2> QED BY <2>1, LongerOrder
  <1>5. Followers'
    BY <1>1, <1>3, <1>4 DEF IInv, Shape, Followers, Follows
  <1>6. Loading'
    BY <1>1, <1>3 DEF IInv, Loading
  <1>7. Calls'
    <2>1. "idle" \notin InCall
      BY DEF InCall, Answers
    <2> QED BY <2>1 DEF Calls
  <1>8. PaidOnce'
    BY DEF IInv, PaidOnce
  <1> QED BY <1>2, <1>5, <1>6, <1>7, <1>8 DEF IInv

(* The call goes on from what it has just saved.                           *)
LEMMA SavedOnInv ==
  ASSUME IInv, QuietLoads, NEW s \in Sessions, NEW view \in Views, NEW n \in Nonces,
         Writes(s, view), Good(view, rail), UNCHANGED <<rail, now, prior>>, prior[s] = NoPrior,
         \A t \in Sessions \ {s} : pc[t] \notin InCall,
         NEW place \in {"prepared", "submitted"}, GoesOn(s, n, now, place),
         Phase(view, n) = place,
         place = "submitted" => now \in view.rows[n].submits /\ (rail[n] # <<>> => IdempotentRail)
  PROVE  IInv'
  <1>1. /\ disk' = view /\ agrees' = {s} /\ agreed' = {}
        /\ mem' = [mem EXCEPT ![s] = view]
        /\ pc' = [pc EXCEPT ![s] = place] /\ op' = [op EXCEPT ![s] = [nonce |-> n, at |-> now]]
        /\ holder' = s
    BY DEF Writes, GoesOn, Goto
  <1>2. Shape'
    BY <1>1 DEF IInv, Shape, Places, InCall
  <1>3. /\ mem'[s] = view /\ pc'[s] = place /\ op'[s].nonce = n /\ op'[s].at = now
        /\ \A t \in Sessions \ {s} : pc'[t] = pc[t]
    BY <1>1 DEF IInv, Shape
  <1>4. Followers'
    BY <1>1, <1>3, LongerOrder DEF Followers, Follows
  <1>5. \A t \in Sessions \ {s} : pc[t] # "loaded"
    BY DEF Writes, NobodyIsLoading
  <1>6. Loading'
    BY <1>1, <1>3, <1>5 DEF IInv, Loading
  <1>7. InStep(s)'
    BY <1>1, <1>3 DEF InStep
  <1>8. Calls'
    BY <1>3, <1>7 DEF Calls
  <1>9. PaidOnce'
    BY DEF IInv, PaidOnce
  <1> QED BY <1>2, <1>4, <1>6, <1>8, <1>9 DEF IInv

-----------------------------------------------------------------------------
(* The calls.                                                              *)

(* A session between calls, with the lock free and the file as it knows it.*)
LEMMA ReadyHas ==
  ASSUME IInv, NEW s \in Sessions, Ready(s)
  PROVE  /\ mem[s] \in Views /\ Good(mem[s], rail) /\ s \in agrees /\ pc[s] = "idle"
         /\ prior[s] = NoPrior
         /\ \A t \in Sessions : pc[t] \notin InCall
  BY NoCall DEF Ready, IInv, Shape, Followers, Follows, Loading

(* A session in a call.                                                    *)
LEMMA InCallHas ==
  ASSUME IInv, NEW s \in Sessions, pc[s] \in InCall
  PROVE  /\ InStep(s) /\ mem[s] \in Views /\ Good(mem[s], rail) /\ prior[s] = NoPrior
         /\ \A t \in Sessions \ {s} : pc[t] \notin InCall
  <1>1. pc[s] \notin {"loaded", "stamped"}
    BY DEF InCall, Answers
  <1> QED BY <1>1, OneCall DEF Calls, InStep, IInv, Shape, Followers, Follows, Loading

LEMMA SubmitPrepareInv ==
  ASSUME IInv, QuietLoads, NEW s \in Sessions, NEW n \in Nonces, SubmitPrepare(s, n) PROVE IInv'
  <1> DEFINE view == Prepare(mem[s], n, now)
  <1>1. /\ mem[s] \in Views /\ Good(mem[s], rail) /\ prior[s] = NoPrior
        /\ \A t \in Sessions : pc[t] \notin InCall
    BY ReadyHas DEF SubmitPrepare
  <1>2. now \in Nat /\ n \notin mem[s].used
    BY DEF IInv, Shape, SubmitPrepare, Allowed
  <1>3. view \in Views /\ Phase(view, n) = "prepared"
    BY <1>1, <1>2, PrepareDoes DEF Phase
  <1>4. Good(view, rail)
    BY <1>1, <1>2, PrepareGood
  <1>5. Writes(s, view) /\ GoesOn(s, n, now, "prepared") /\ UNCHANGED <<rail, now, prior>>
    BY DEF SubmitPrepare
  <1> HIDE DEF view
  <1> QED BY <1>1, <1>3, <1>4, <1>5, SavedOnInv

LEMMA EndsDoes ==
  ASSUME IInv, NEW s \in Sessions, Ends(s)
  PROVE  /\ pc' \in [Sessions -> Places] /\ pc'[s] = "idle"
         /\ \A t \in Sessions \ {s} : pc'[t] = pc[t]
         /\ op' \in [Sessions -> [nonce : Nonces \cup {Nobody}, at : Nat]]
         /\ holder' \in Sessions \cup {Nobody}
  <1>1. NoOp \in [nonce : Nonces \cup {Nobody}, at : Nat] /\ "idle" \in Places
    BY DEF NoOp, Places
  <1> QED BY <1>1 DEF IInv, Shape, Ends, Goto

LEMMA MarkInv ==
  ASSUME IInv, QuietLoads, NEW s \in Sessions, NEW n \in Nonces, Mark(s, n, now),
         UNCHANGED <<rail, now, prior>>, prior[s] = NoPrior, s \in agrees,
         mem[s] \in Views, Good(mem[s], rail),
         \A t \in Sessions \ {s} : pc[t] \notin InCall,
         Phase(mem[s], n) \in {"prepared", "indeterminate"},
         Phase(mem[s], n) = "indeterminate" => IdempotentRail
  PROVE  IInv'
  <1> DEFINE marked == MarkSubmitted(mem[s], n, now)
  <1>1. now \in Nat
    BY DEF IInv, Shape
  <1>2. /\ marked \in Views /\ Phase(marked, n) = "submitted" /\ now \in marked.rows[n].submits
        /\ marked.receipts = mem[s].receipts
    BY <1>1, MarkSubmittedDoes DEF Phase
  <1>3. Good(marked, rail)
    BY <1>1, MarkGood
  <1>4. rail[n] # <<>> => IdempotentRail
    BY DEF Good, Sound
  <1>5. Longer(marked.receipts, mem[s].receipts)
    BY <1>2, LongerOrder
  <1>6. \/ Writes(s, marked) /\ GoesOn(s, n, now, "submitted")
        \/ WriteFails(s, marked) /\ Ends(s)
    BY DEF Mark
  <1> HIDE DEF marked
  <1>7. CASE Writes(s, marked) /\ GoesOn(s, n, now, "submitted")
    BY <1>2, <1>3, <1>4, <1>7, SavedOnInv
  <1>8. CASE WriteFails(s, marked) /\ Ends(s)
    BY <1>2, <1>3, <1>5, <1>8, EndsDoes, UnsavedInv
  <1> QED BY <1>6, <1>7, <1>8

LEMMA SubmitMarkInv ==
  ASSUME IInv, QuietLoads, NEW s \in Sessions, SubmitMark(s) PROVE IInv'
  <1> DEFINE n == op[s].nonce
  <1>1. pc[s] = "prepared" /\ Mark(s, n, op[s].at) /\ UNCHANGED <<prior, rail, now>>
    BY DEF SubmitMark
  <1>2. pc[s] \in InCall
    BY <1>1 DEF InCall
  <1>3. /\ InStep(s) /\ mem[s] \in Views /\ Good(mem[s], rail) /\ prior[s] = NoPrior
        /\ \A t \in Sessions \ {s} : pc[t] \notin InCall
    BY <1>2, InCallHas
  <1>4. /\ n \in Nonces /\ s \in agrees /\ op[s].at = now /\ Phase(mem[s], n) = "prepared"
    BY <1>1, <1>3 DEF InStep
  <1> HIDE DEF n
  <1> QED BY <1>1, <1>3, <1>4, MarkInv

LEMMA RetryIndeterminateInv ==
  ASSUME IInv, QuietLoads, NEW s \in Sessions, NEW n \in Nonces, RetryIndeterminate(s, n) PROVE IInv'
  <1>1. /\ Ready(s) /\ Phase(mem[s], n) = "indeterminate" /\ IdempotentRail /\ Mark(s, n, now)
        /\ UNCHANGED <<prior, rail, now>>
    BY DEF RetryIndeterminate
  <1> QED BY <1>1, ReadyHas, MarkInv

(* The one step that moves money.  Whoever agrees with the file then has   *)
(* the view that is in it.                                                 *)
LEMMA RailSubmitInv ==
  ASSUME IInv, NEW s \in Sessions, NEW answer \in Answers, RailSubmit(s, answer) PROVE IInv'
  <1> DEFINE n == op[s].nonce
  <1>1. /\ pc[s] = "submitted" /\ pc' = [pc EXCEPT ![s] = answer]
        /\ UNCHANGED <<disk, mem, agrees, op, prior, agreed, holder, now>>
    BY DEF RailSubmit, Goto
  <1>2. pc[s] \in InCall /\ answer \in InCall /\ answer \notin {"prepared", "submitted"}
    BY <1>1 DEF InCall, Answers
  <1>3. InStep(s) /\ \A t \in Sessions \ {s} : pc[t] \notin InCall
    BY <1>2, InCallHas
  <1>4. /\ n \in Nonces /\ s \in agrees /\ disk = mem[s] /\ agreed = {} /\ holder = s
        /\ Phase(disk, n) = "submitted" /\ now \in disk.rows[n].submits
        /\ rail[n] # <<>> => IdempotentRail
        /\ \A t \in agrees \ {s} : pc[t] \in {"loaded", "stamped"}
    BY <1>1, <1>3 DEF InStep
  <1>5. /\ disk \in Views /\ Good(disk, rail) /\ rail \in [Nonces -> Seq(Nat)] /\ now \in Nat
        /\ Longer(disk.receipts, disk.receipts)
    BY LongerOrder DEF IInv, Shape, Followers, Follows
  <1> HIDE DEF n
  <1>6. \/ rail' = rail /\ (answer = "settled" => rail[n] # <<>>) /\ (answer = "failed" => rail[n] = <<>>)
        \/ rail[n] = <<>> /\ rail' = [rail EXCEPT ![n] = Append(@, now)] /\ answer # "failed"
    <2>1. KnowsPayment(n) <=> rail[n] # <<>>
      BY <1>4 DEF KnowsPayment, Paid
    <2> QED BY <1>1, <2>1 DEF RailSubmit, Moves, Answers, n
  <1>7. /\ rail' \in [Nonces -> Seq(Nat)]
        /\ \A m \in Nonces \ {n} : rail'[m] = rail[m]
        /\ rail'[n] = rail[n] \/ (rail[n] = <<>> /\ rail'[n] = <<now>>)
        /\ answer = "settled" => rail'[n] # <<>>
        /\ answer = "failed" => rail'[n] = <<>>
    <2>1. CASE rail' = rail /\ (answer = "settled" => rail[n] # <<>>) /\ (answer = "failed" => rail[n] = <<>>)
      BY <1>5, <2>1
    <2>2. CASE rail[n] = <<>> /\ rail' = [rail EXCEPT ![n] = Append(@, now)] /\ answer # "failed"
      <3> DEFINE paid == Append(rail[n], now)
      <3>1. paid \in Seq(Nat) /\ paid = <<now>> /\ paid # <<>>
        BY <1>4, <1>5, <2>2
      <3>2. rail' = [rail EXCEPT ![n] = paid]
        BY <2>2
      <3> HIDE DEF paid
      <3>3. rail'[n] = paid /\ \A m \in Nonces \ {n} : rail'[m] = rail[m]
        BY <1>4, <1>5, <3>2
      <3>4. rail' \in [Nonces -> Seq(Nat)]
        BY <1>4, <1>5, <3>1, <3>2
      <3> QED BY <2>2, <3>1, <3>3, <3>4
    <2> QED BY <1>6, <2>1, <2>2
  <1>8. Good(disk, rail')
    <2>1. n \in disk.used /\ ~HasReceipt(disk, n)
      BY <1>4, <1>5 DEF Good, Consistent, Open
    <2>2. \A m \in Nonces : rail'[m] # <<>> =>
            /\ m \in disk.used /\ Phase(disk, m) \in {"submitted", "indeterminate", "settled"}
            /\ \A i \in DOMAIN rail'[m] : rail'[m][i] \in disk.rows[m].submits
      <3> TAKE m \in Nonces
      <3> HAVE rail'[m] # <<>>
      <3>1. CASE rail'[m] = rail[m]
        BY <1>5, <3>1 DEF Good, Sound
      <3>2. CASE m = n /\ rail'[n] = <<now>>
        <4>1. \A i \in DOMAIN rail'[n] : rail'[n][i] = now
          BY <3>2
        <4> QED BY <1>4, <2>1, <3>2, <4>1
      <3> QED BY <1>7, <3>1, <3>2
    <2>3. \A i \in DOMAIN disk.receipts : disk.receipts[i].nonce \in Nonces \ {n}
      BY <1>5, <2>1, ReceiptIsThere, ReceiptsAreSequences
    <2>4. \A i \in DOMAIN disk.receipts :
            disk.receipts[i].on = "rail" <=> rail'[disk.receipts[i].nonce] # <<>>
      BY <1>5, <1>7, <2>3 DEF Good, Sound
    <2> QED BY <1>5, <2>2, <2>4 DEF Good, Sound
  <1>9. \A t \in agrees : mem[t] = disk
    BY <1>4 DEF IInv, Shape, Loading
  <1>10. Shape'
    BY <1>1, <1>2, <1>7 DEF IInv, Shape, Places
  <1>11. Followers'
    BY <1>1, <1>4, <1>5, <1>8, <1>9 DEF Followers, Follows
  <1>12. pc'[s] = answer /\ \A t \in Sessions \ {s} : pc'[t] = pc[t]
    BY <1>1 DEF IInv, Shape
  <1>13. Loading'
    BY <1>1, <1>2, <1>12 DEF IInv, Loading, InCall, Answers
  <1>14. InStep(s)'
    BY <1>1, <1>2, <1>3, <1>4, <1>7, <1>12 DEF InStep, n, IInv, Shape
  <1>15. Calls'
    BY <1>3, <1>12, <1>14 DEF Calls
  <1>16. PaidOnce'
    <2>1. Len(<<now>>) <= 1
      OBVIOUS
    <2> QED BY <1>7, <2>1 DEF IInv, PaidOnce
  <1> QED BY <1>10, <1>11, <1>13, <1>15, <1>16 DEF IInv

LEMMA RecordInv ==
  ASSUME IInv, QuietLoads, NEW s \in Sessions, Record(s) PROVE IInv'
  <1> DEFINE n == op[s].nonce
             view == AfterAnswer(mem[s], n, pc[s])
  <1>1. /\ pc[s] \in Answers /\ (Writes(s, view) \/ WriteFails(s, view)) /\ Ends(s)
        /\ UNCHANGED <<prior, rail, now>>
    BY DEF Record
  <1>2. pc[s] \in InCall /\ pc[s] # "prepared" /\ pc[s] # "submitted"
    BY <1>1 DEF InCall, Answers
  <1>3. /\ InStep(s) /\ mem[s] \in Views /\ Good(mem[s], rail) /\ prior[s] = NoPrior
        /\ \A t \in Sessions \ {s} : pc[t] \notin InCall
    BY <1>2, InCallHas
  <1>4. /\ n \in Nonces /\ s \in agrees /\ Phase(mem[s], n) = "submitted"
        /\ pc[s] = "settled" => rail[n] # <<>>
        /\ pc[s] = "failed" => rail[n] = <<>>
    BY <1>2, <1>3 DEF InStep
  <1> HIDE DEF n
  <1>5. view \in Views /\ Good(view, rail) /\ Longer(view.receipts, mem[s].receipts)
    <2>1. CASE pc[s] = "settled"
      <3>1. view = Settle(mem[s], n)
        BY <2>1 DEF AfterAnswer
      <3> QED BY <1>3, <1>4, <2>1, <3>1, SettleGood, SettleLonger DEF Open
    <2>2. CASE pc[s] = "failed"
      <3>1. view = GiveUp(mem[s], n)
        BY <2>2 DEF AfterAnswer
      <3> QED BY <1>3, <1>4, <2>2, <3>1, GiveUpGood, GiveUpDoes, LongerOrder DEF Open
    <2>3. CASE pc[s] = "silent"
      <3>1. view = SetPhase(mem[s], n, "indeterminate") /\ "indeterminate" \in Phases
        BY <2>3 DEF AfterAnswer, Phases
      <3> QED BY <1>3, <1>4, <3>1, KeepOpenGood, SetPhaseDoes, LongerOrder
    <2> QED BY <1>1, <2>1, <2>2, <2>3 DEF Answers
  <1> HIDE DEF view
  <1>6. prior' \in [Sessions -> Views \cup {NoPrior}]
    BY <1>1 DEF IInv, Shape
  <1>7. CASE Writes(s, view)
    BY <1>1, <1>3, <1>5, <1>6, <1>7, EndsDoes, SavedInv
  <1>8. CASE WriteFails(s, view)
    BY <1>1, <1>3, <1>4, <1>5, <1>8, EndsDoes, UnsavedInv
  <1> QED BY <1>1, <1>7, <1>8

(* Evidence of absence is evidence that nothing was paid: it covers every  *)
(* attempt, and the rail dates a payment when it was attempted.            *)
LEMMA ResolveInv ==
  ASSUME IInv, QuietLoads, NEW s \in Sessions, NEW n \in Nonces, NEW from, NEW to,
         ResolveIndeterminate(s, n, from, to)
  PROVE  IInv'
  <1> DEFINE view == IF Hit(n, from, to) THEN Settle(mem[s], n) ELSE GiveUp(mem[s], n)
  <1>1. /\ Ready(s) /\ Phase(mem[s], n) = "indeterminate"
        /\ Hit(n, from, to) \/ AbsenceCounts(mem[s].rows[n], from, to)
        /\ Writes(s, view) \/ WriteFails(s, view)
        /\ UNCHANGED <<pc, op, prior, holder, rail, now>>
    BY DEF ResolveIndeterminate, Phase
  <1>2. /\ mem[s] \in Views /\ Good(mem[s], rail) /\ s \in agrees /\ pc[s] = "idle"
        /\ prior[s] = NoPrior /\ \A t \in Sessions : pc[t] \notin InCall
    BY <1>1, ReadyHas
  <1>3. Hit(n, from, to) => rail[n] # <<>>
    <2>1. rail[n] \in Seq(Nat)
      BY DEF IInv, Shape
    <2> QED BY <2>1 DEF Hit
  <1>4. ~Hit(n, from, to) => rail[n] = <<>>
    <2> SUFFICES ASSUME ~Hit(n, from, to), rail[n] # <<>> PROVE FALSE
      OBVIOUS
    <2>1. rail[n] \in Seq(Nat)
      BY DEF IInv, Shape
    <2>2. 1 \in DOMAIN rail[n]
      BY <2>1
    <2>3. rail[n][1] \in mem[s].rows[n].submits
      BY <1>2, <2>2 DEF Good, Sound
    <2> QED BY <1>1, <2>2, <2>3 DEF AbsenceCounts, Hit
  <1>5. view \in Views /\ Good(view, rail) /\ Longer(view.receipts, mem[s].receipts)
    <2>1. CASE Hit(n, from, to)
      BY <1>1, <1>2, <1>3, <2>1, SettleGood, SettleLonger DEF Open
    <2>2. CASE ~Hit(n, from, to)
      BY <1>1, <1>2, <1>4, <2>2, GiveUpGood, GiveUpDoes, LongerOrder DEF Open
    <2> QED BY <2>1, <2>2
  <1> HIDE DEF view
  <1>6. /\ pc' \in [Sessions -> Places] /\ prior' \in [Sessions -> Views \cup {NoPrior}]
        /\ op' \in [Sessions -> [nonce : Nonces \cup {Nobody}, at : Nat]]
        /\ holder' \in Sessions \cup {Nobody}
    BY <1>1 DEF IInv, Shape
  <1>7. CASE Writes(s, view)
    BY <1>1, <1>2, <1>5, <1>6, <1>7, SavedInv
  <1>8. CASE WriteFails(s, view)
    BY <1>1, <1>2, <1>5, <1>6, <1>8, UnsavedInv
  <1> QED BY <1>1, <1>7, <1>8

LEMMA SpendInv ==
  ASSUME IInv, QuietLoads, NEW s \in Sessions, NEW n \in Nonces, Spend(s, n) PROVE IInv'
  <1> DEFINE view == CutReceipt(Reserve(mem[s], n, now), n, "ledger")
  <1>1. /\ Ready(s) /\ n \notin mem[s].used /\ Writes(s, view)
        /\ UNCHANGED <<pc, op, prior, holder, rail, now>>
    BY DEF Spend, Allowed
  <1>2. /\ mem[s] \in Views /\ Good(mem[s], rail) /\ pc[s] = "idle"
        /\ prior[s] = NoPrior /\ \A t \in Sessions : pc[t] \notin InCall
    BY <1>1, ReadyHas
  <1>3. now \in Nat
    BY DEF IInv, Shape
  <1>4. view \in Views /\ Good(view, rail)
    BY <1>1, <1>2, <1>3, SpendGood
  <1> HIDE DEF view
  <1>5. /\ pc' \in [Sessions -> Places] /\ prior' \in [Sessions -> Views \cup {NoPrior}]
        /\ op' \in [Sessions -> [nonce : Nonces \cup {Nobody}, at : Nat]]
        /\ holder' \in Sessions \cup {Nobody}
    BY <1>1 DEF IInv, Shape
  <1> QED BY <1>1, <1>2, <1>4, <1>5, SavedInv

-----------------------------------------------------------------------------
(* Loading, recovery and stops.                                            *)

LEMMA EmptyIsView == EmptyView \in Views
  BY DEF EmptyView, Views, Counters, FreshCounters, Rows, NoRow, Phases

(* A call goes on through whatever somebody else does who does not agree   *)
(* with the file, or is only loading it.                                   *)
LEMMA CallsGoOn ==
  ASSUME IInv, NEW s \in Sessions, UNCHANGED <<disk, rail, now>>, pc'[s] \notin InCall,
         \A t \in Sessions \ {s} :
           pc'[t] = pc[t] /\ mem'[t] = mem[t] /\ op'[t] = op[t] /\ (holder = t => holder' = t),
         \A t \in Sessions : t # s => (t \in agrees' <=> t \in agrees),
         agrees' \subseteq Sessions, agreed' \subseteq agreed \cup {s},
         ASSUME NEW t \in Sessions, t # s, pc[t] \in InCall
         PROVE  s \notin agreed' /\ (s \in agrees' => pc'[s] \in {"loaded", "stamped"})
  PROVE  Calls'
  <1> SUFFICES ASSUME NEW t \in Sessions, pc'[t] \in InCall PROVE InStep(t)'
    BY DEF Calls
  <1>1. t # s /\ pc'[t] = pc[t] /\ mem'[t] = mem[t] /\ op'[t] = op[t]
    OBVIOUS
  <1>2. InStep(t) /\ s \notin agreed' /\ (s \in agrees' => pc'[s] \in {"loaded", "stamped"})
    BY <1>1 DEF IInv, Calls
  <1>3. agreed' = {} /\ holder' = t
    BY <1>1, <1>2 DEF InStep
  <1>4. t \in agrees' /\ \A u \in agrees' \ {t} : pc'[u] \in {"loaded", "stamped"}
    BY <1>1, <1>2 DEF InStep
  <1> QED BY <1>1, <1>2, <1>3, <1>4 DEF InStep

LEMMA StartInv ==
  ASSUME IInv, NEW s \in Sessions, Start(s) PROVE IInv'
  <1>1. /\ pc[s] = "down" /\ mem' = [mem EXCEPT ![s] = disk] /\ pc' = [pc EXCEPT ![s] = "loaded"]
        /\ UNCHANGED <<disk, agrees, op, prior, agreed, holder, rail, now>>
    BY DEF Start, Goto
  <1>2. s \notin agrees /\ s \notin agreed /\ prior[s] = NoPrior
    BY <1>1 DEF IInv, Loading
  <1>3. Shape'
    BY <1>1 DEF IInv, Shape, Places
  <1>4. /\ mem'[s] = disk /\ pc'[s] = "loaded"
        /\ \A t \in Sessions \ {s} : pc'[t] = pc[t] /\ mem'[t] = mem[t]
    BY <1>1 DEF IInv, Shape
  <1>5. Followers'
    BY <1>1, <1>2, <1>4 DEF IInv, Shape, Followers, Follows
  <1>6. Loading'
    BY <1>1, <1>2, <1>4 DEF IInv, Loading
  <1>7. Calls'
    <2>1. "loaded" \notin InCall
      BY DEF InCall, Answers
    <2>2. agrees' \subseteq Sessions /\ s \notin agrees' /\ s \notin agreed' /\ agreed' = agreed
      BY <1>1, <1>2 DEF IInv, Shape
    <2> QED BY <1>1, <1>4, <2>1, <2>2, CallsGoOn
  <1>8. PaidOnce'
    BY <1>1 DEF IInv, PaidOnce
  <1> QED BY <1>3, <1>5, <1>6, <1>7, <1>8 DEF IInv

LEMMA ReloadInv ==
  ASSUME IInv, NEW s \in Sessions, Reload(s) PROVE IInv'
  <1>1. /\ pc[s] = "idle" /\ mem' = [mem EXCEPT ![s] = disk] /\ pc' = [pc EXCEPT ![s] = "loaded"]
        /\ prior' = [prior EXCEPT ![s] = mem[s]]
        /\ agreed' = IF s \in agrees THEN agreed \cup {s} ELSE agreed
        /\ UNCHANGED <<disk, agrees, op, holder, rail, now>>
    BY DEF Reload, Goto
  <1>2. mem[s] \in Views /\ mem[s] # NoPrior
    BY PriorAssumption DEF IInv, Shape
  <1>3. Shape'
    BY <1>1, <1>2 DEF IInv, Shape, Places
  <1>4. /\ mem'[s] = disk /\ pc'[s] = "loaded" /\ prior'[s] = mem[s]
        /\ \A t \in Sessions \ {s} : pc'[t] = pc[t] /\ mem'[t] = mem[t] /\ prior'[t] = prior[t]
    BY <1>1 DEF IInv, Shape
  <1>5. Followers'
    <2>1. \A t \in agrees : t \in Sessions
      BY DEF IInv, Shape
    <2>2. \A t \in agreed' : (t = s /\ s \in agrees) \/ (t # s /\ t \in agreed /\ t \in Sessions)
      <3>1. s \notin agreed
        BY <1>1 DEF IInv, Loading
      <3>2. agreed \subseteq Sessions
        BY DEF IInv, Shape
      <3> QED BY <1>1, <3>1, <3>2
    <2>3. \A t \in agreed' : Follows(prior'[t])
      BY <1>4, <2>2 DEF IInv, Followers
    <2>4. Follows(disk) /\ \A t \in agrees : Follows(mem'[t])
      BY <1>4, <2>1 DEF IInv, Followers
    <2> QED BY <1>1, <2>3, <2>4 DEF Followers, Follows
  <1>6. Loading'
    BY <1>1, <1>2, <1>4 DEF IInv, Loading
  <1>7. Calls'
    <2>1. "loaded" \notin InCall
      BY DEF InCall, Answers
    <2>2. ASSUME NEW t \in Sessions, t # s, pc[t] \in InCall PROVE s \notin agreed'
      BY <1>1, <2>2 DEF IInv, Calls, InStep, Loading
    <2>3. agreed' \subseteq agreed \cup {s} /\ agrees' \subseteq Sessions
      BY <1>1 DEF IInv, Shape
    <2> QED BY <1>1, <1>4, <2>1, <2>2, <2>3, CallsGoOn
  <1>8. PaidOnce'
    BY <1>1 DEF IInv, PaidOnce
  <1> QED BY <1>3, <1>5, <1>6, <1>7, <1>8 DEF IInv

LEMMA FingerprintInv ==
  ASSUME IInv, NEW s \in Sessions, Fingerprint(s) PROVE IInv'
  <1>1. /\ pc[s] = "loaded" /\ pc' = [pc EXCEPT ![s] = "stamped"] /\ agrees' = agrees \cup {s}
        /\ UNCHANGED <<disk, mem, op, prior, agreed, holder, rail, now>>
    BY DEF Fingerprint, Goto
  <1>2. mem[s] = disk
    BY <1>1 DEF IInv, Loading
  <1>3. Shape'
    BY <1>1 DEF IInv, Shape, Places
  <1>4. pc'[s] = "stamped" /\ \A t \in Sessions \ {s} : pc'[t] = pc[t]
    BY <1>1 DEF IInv, Shape
  <1>5. Followers'
    BY <1>1, <1>2 DEF IInv, Followers, Follows
  <1>6. Loading'
    BY <1>1, <1>2, <1>4 DEF IInv, Loading
  <1>7. Calls'
    <2>1. "stamped" \notin InCall
      BY DEF InCall, Answers
    <2>2. ASSUME NEW t \in Sessions, t # s, pc[t] \in InCall PROVE s \notin agreed'
      BY <1>1, <2>2 DEF IInv, Calls, InStep
    <2> QED BY <1>1, <1>4, <2>1, <2>2, CallsGoOn DEF IInv, Shape
  <1>8. PaidOnce'
    BY <1>1 DEF IInv, PaidOnce
  <1> QED BY <1>3, <1>5, <1>6, <1>7, <1>8 DEF IInv

(* A file that a call has an open row in is not clean.                     *)
LEMMA CleanHasNoCall ==
  ASSUME NEW v \in Views, IsClean(v), NEW n \in Nonces
  PROVE  Phase(v, n) \notin {"prepared", "submitted"}
  <1>1. Recovered(v).rows[n].phase = v.rows[n].phase
    BY DEF IsClean
  <1> QED BY <1>1, RecoveredDoes DEF Phase

LEMMA RecoverJournalInv ==
  ASSUME IInv, QuietLoads, NEW s \in Sessions, RecoverJournal(s) PROVE IInv'
  <1>1. /\ pc[s] = "stamped" /\ pc' = [pc EXCEPT ![s] = "idle"]
        /\ prior' = [prior EXCEPT ![s] = NoPrior] /\ UNCHANGED <<op, holder, rail, now>>
    BY DEF RecoverJournal, Goto
  <1>2. /\ pc' \in [Sessions -> Places] /\ pc'[s] = "idle" /\ "idle" \notin InCall
        /\ prior' \in [Sessions -> Views \cup {NoPrior}] /\ prior'[s] = NoPrior
        /\ \A t \in Sessions \ {s} : pc'[t] = pc[t] /\ prior'[t] = prior[t]
        /\ mem[s] \in Views
    BY <1>1 DEF IInv, Shape, Places, InCall, Answers
  <1>3. CASE IsClean(mem[s]) /\ agreed' = agreed \ {s} /\ UNCHANGED <<disk, mem, agrees>>
    <2>1. Shape'
      BY <1>1, <1>2, <1>3 DEF IInv, Shape
    <2>2. Followers'
      <3>1. \A t \in agreed' : t \in agreed /\ prior'[t] = prior[t]
        BY <1>2, <1>3 DEF IInv, Shape
      <3> QED BY <1>1, <1>3, <3>1 DEF IInv, Followers, Follows
    <2>3. Loading'
      BY <1>1, <1>2, <1>3 DEF IInv, Loading
    <2>4. ASSUME NEW t \in Sessions, t # s, pc[t] \in InCall PROVE s \notin agrees
      <3> SUFFICES ASSUME s \in agrees PROVE FALSE
        OBVIOUS
      <3>1. InStep(t) /\ mem[s] = disk
        BY <1>1, <2>4 DEF IInv, Calls, Loading
      <3>2. op[t].nonce \in Nonces /\ Phase(mem[s], op[t].nonce) \in {"prepared", "submitted"}
        BY <3>1 DEF InStep
      <3> QED BY <1>2, <1>3, <3>2, CleanHasNoCall
    <2>5. Calls'
      BY <1>1, <1>2, <1>3, <2>4, CallsGoOn DEF IInv, Shape
    <2>6. PaidOnce'
      BY <1>1 DEF IInv, PaidOnce
    <2> QED BY <2>1, <2>2, <2>3, <2>5, <2>6 DEF IInv
  <1>4. CASE holder = Nobody /\ Writes(s, Recovered(mem[s]))
    <2>1. s \in agrees /\ \A t \in Sessions : pc[t] \notin InCall
      BY <1>4, NoCall DEF Writes
    <2>2. Good(mem[s], rail)
      BY <2>1 DEF IInv, Followers, Follows
    <2>3. Recovered(mem[s]) \in Views /\ Good(Recovered(mem[s]), rail)
      BY <1>2, <2>2, RecoveredDoes, RecoveredGood
    <2>4. /\ op' \in [Sessions -> [nonce : Nonces \cup {Nobody}, at : Nat]]
          /\ holder' \in Sessions \cup {Nobody}
      BY <1>1 DEF IInv, Shape
    <2> QED BY <1>1, <1>2, <1>4, <2>1, <2>3, <2>4, SavedInv
  <1> QED BY <1>3, <1>4 DEF RecoverJournal

LEMMA RecoverFailsInv ==
  ASSUME IInv, NEW s \in Sessions, RecoverFails(s) PROVE IInv'
  <1> DEFINE back == IF prior[s] = NoPrior THEN EmptyView ELSE prior[s]
             place == IF prior[s] = NoPrior THEN "down" ELSE "idle"
  <1>1. /\ pc[s] = "stamped" /\ mem' = [mem EXCEPT ![s] = back] /\ pc' = [pc EXCEPT ![s] = place]
        /\ agrees' = (agrees \ {s}) \cup ({s} \cap agreed) /\ agreed' = agreed \ {s}
        /\ prior' = [prior EXCEPT ![s] = NoPrior] /\ UNCHANGED <<disk, op, holder, rail, now>>
    BY DEF RecoverFails, Goto
  <1>2. /\ back \in Views /\ place \in {"down", "idle"} /\ place \notin InCall
        /\ s \in agreed => place = "idle" /\ back = prior[s]
    BY EmptyIsView DEF IInv, Shape, Loading, InCall, Answers
  <1> HIDE DEF back, place
  <1>3. Shape'
    BY <1>1, <1>2 DEF IInv, Shape, Places
  <1>4. /\ mem'[s] = back /\ pc'[s] = place /\ prior'[s] = NoPrior
        /\ \A t \in Sessions \ {s} : pc'[t] = pc[t] /\ mem'[t] = mem[t] /\ prior'[t] = prior[t]
    BY <1>1 DEF IInv, Shape
  <1>5. Followers'
    <2>1. \A t \in agrees' : Follows(mem'[t])
      <3> TAKE t \in agrees'
      <3>1. CASE t = s
        BY <1>1, <1>2, <1>4, <3>1 DEF IInv, Followers
      <3>2. CASE t # s
        BY <1>1, <1>4, <3>2 DEF IInv, Shape, Followers
      <3> QED BY <3>1, <3>2
    <2>2. \A t \in agreed' : Follows(prior'[t])
      BY <1>1, <1>4 DEF IInv, Shape, Followers
    <2>3. Follows(disk)
      BY DEF IInv, Followers
    <2> QED BY <1>1, <2>1, <2>2, <2>3 DEF Followers, Follows
  <1>6. Loading'
    BY <1>1, <1>2, <1>4 DEF IInv, Loading
  <1>7. Calls'
    <2>1. ASSUME NEW t \in Sessions, t # s, pc[t] \in InCall PROVE s \notin agrees' /\ s \notin agreed'
      <3>1. agreed = {}
        BY <2>1 DEF IInv, Calls, InStep
      <3> QED BY <1>1, <3>1
    <2>2. /\ agrees' \subseteq Sessions /\ agreed' \subseteq agreed \cup {s}
          /\ \A t \in Sessions : t # s => (t \in agrees' <=> t \in agrees)
      BY <1>1 DEF IInv, Shape
    <2>3. pc'[s] \notin InCall
      BY <1>2, <1>4
    <2> QED BY <1>1, <1>4, <2>1, <2>2, <2>3, CallsGoOn
  <1>8. PaidOnce'
    BY <1>1 DEF IInv, PaidOnce
  <1> QED BY <1>3, <1>5, <1>6, <1>7, <1>8 DEF IInv

LEMMA CrashInv ==
  ASSUME IInv, NEW s \in Sessions, Crash(s) PROVE IInv'
  <1>1. /\ mem' = [mem EXCEPT ![s] = EmptyView] /\ pc' = [pc EXCEPT ![s] = "down"]
        /\ agrees' = agrees \ {s} /\ agreed' = agreed \ {s} /\ op' = [op EXCEPT ![s] = NoOp]
        /\ prior' = [prior EXCEPT ![s] = NoPrior]
        /\ holder' = (IF holder = s THEN Nobody ELSE holder)
        /\ UNCHANGED <<disk, rail, now>>
    BY DEF Crash, Goto
  <1>2. EmptyView \in Views /\ NoOp \in [nonce : Nonces \cup {Nobody}, at : Nat]
    BY EmptyIsView DEF NoOp
  <1>3. Shape'
    BY <1>1, <1>2 DEF IInv, Shape, Places
  <1>4. /\ pc'[s] = "down" /\ prior'[s] = NoPrior
        /\ \A t \in Sessions \ {s} :
             pc'[t] = pc[t] /\ mem'[t] = mem[t] /\ prior'[t] = prior[t] /\ op'[t] = op[t]
    BY <1>1 DEF IInv, Shape
  <1>5. Followers'
    BY <1>1, <1>4 DEF IInv, Shape, Followers, Follows
  <1>6. Loading'
    BY <1>1, <1>4 DEF IInv, Loading
  <1>7. Calls'
    <2>1. "down" \notin InCall
      BY DEF InCall, Answers
    <2>2. /\ agrees' \subseteq Sessions /\ agreed' \subseteq agreed \cup {s}
          /\ s \notin agrees' /\ s \notin agreed'
          /\ \A t \in Sessions : t # s => (t \in agrees' <=> t \in agrees)
      BY <1>1 DEF IInv, Shape
    <2>3. \A t \in Sessions \ {s} : holder = t => holder' = t
      BY <1>1
    <2>4. pc'[s] \notin InCall
      BY <1>4, <2>1
    <2> QED BY <1>1, <1>4, <2>2, <2>3, <2>4, CallsGoOn
  <1>8. PaidOnce'
    BY <1>1 DEF IInv, PaidOnce
  <1> QED BY <1>3, <1>5, <1>6, <1>7, <1>8 DEF IInv

(* The clock stands while a payment is on its way.                         *)
LEMMA TickInv ==
  ASSUME IInv, RailLag = 0, Tick PROVE IInv'
  <1>1. /\ now' = now + 1
        /\ UNCHANGED <<disk, mem, agrees, pc, op, prior, agreed, holder, rail>>
    BY DEF Tick
  <1>2. \A s \in Sessions : pc[s] \notin {"prepared", "submitted"}
    <2> SUFFICES ASSUME NEW s \in Sessions, pc[s] \in {"prepared", "submitted"} PROVE FALSE
      OBVIOUS
    <2>1. op[s].at = now /\ now \in Nat
      BY DEF IInv, Calls, InCall, InStep, Shape
    <2> QED BY <2>1 DEF Tick
  <1>3. Shape'
    BY <1>1 DEF IInv, Shape
  <1>4. Followers' /\ Loading' /\ PaidOnce'
    BY <1>1 DEF IInv, Followers, Follows, Loading, PaidOnce
  <1>5. Calls'
    BY <1>1, <1>2 DEF IInv, Calls, InStep
  <1> QED BY <1>3, <1>4, <1>5 DEF IInv

LEMMA NextInv ==
  ASSUME QuietLoads, RailLag = 0, IInv, [Next]_vars PROVE IInv'
  <1>1. ASSUME NEW s \in Sessions, Proceed(s) PROVE IInv'
    BY <1>1, SubmitMarkInv, RailSubmitInv, RecordInv, FingerprintInv, RecoverJournalInv, RecoverFailsInv
       DEF Proceed
  <1>2. ASSUME NEW s \in Sessions, NEW n \in Nonces,
               \/ SubmitPrepare(s, n) \/ RetryIndeterminate(s, n) \/ Spend(s, n)
               \/ \E from \in 0..now, to \in 1..now : ResolveIndeterminate(s, n, from, to)
        PROVE  IInv'
    BY <1>2, SubmitPrepareInv, RetryIndeterminateInv, SpendInv, ResolveInv
  <1>3. ASSUME NEW s \in Sessions, Start(s) \/ Reload(s) \/ Crash(s) PROVE IInv'
    BY <1>3, StartInv, ReloadInv, CrashInv
  <1>4. CASE UNCHANGED vars
    <2>1. Shape' /\ Followers' /\ Loading' /\ PaidOnce'
      BY <1>4 DEF vars, IInv, Shape, Followers, Follows, Loading, PaidOnce
    <2>2. Calls'
      BY <1>4 DEF vars, IInv, Calls, InStep
    <2> QED BY <2>1, <2>2 DEF IInv
  <1> QED BY <1>1, <1>2, <1>3, <1>4, TickInv DEF Next

THEOREM SessionInvariant ==
  ASSUME QuietLoads, RailLag = 0 PROVE Spec => []IInv
  <1>1. IInv /\ [Next]_vars => IInv'
    BY NextInv
  <1> QED BY <1>1, InitInv, PTL DEF Spec

-----------------------------------------------------------------------------
(* What the invariant says of the file and the money.                      *)

(* "A settlement with no receipt - the one condition this project exists   *)
(* to make impossible" (session.ts): once the rail has moved money, the    *)
(* file has its receipt or a row from which it can still be cut, for any   *)
(* number of servers that stop anywhere and writes that fail.              *)
THEOREM SessionMoneyIsAccountedFor ==
  ASSUME QuietLoads, RailLag = 0 PROVE Spec => []MoneyIsAccountedFor
  <1>1. IInv => MoneyIsAccountedFor
    BY DEF IInv, Followers, Follows, Good, Consistent, Sound, MoneyIsAccountedFor, Paid
  <1> QED BY <1>1, SessionInvariant, PTL

LEMMA LiveFollow ==
  ASSUME IInv, NEW view \in Live PROVE Follows(view) /\ view \in Views
  BY DEF IInv, Shape, Followers, Live

(* MUST-T12-4, in the file and in every view that can still be saved over  *)
(* it: a nonce whose payment moved is never given back, on whatever        *)
(* evidence a resolution was made.                                         *)
THEOREM SessionReleasedMeansUnpaid ==
  ASSUME QuietLoads, RailLag = 0 PROVE Spec => []ReleasedMeansUnpaid
  <1>1. IInv => ReleasedMeansUnpaid
    BY LiveFollow DEF ReleasedMeansUnpaid, Follows, Good, Sound, Paid
  <1> QED BY <1>1, SessionInvariant, PTL

(* No view that reaches the file has two receipts for a nonce, or one for  *)
(* money the external rail never moved (commitSettlement cuts the receipt  *)
(* from the row, also after a retry and in a resolution).                  *)
THEOREM SessionReceiptsAreTrue ==
  ASSUME QuietLoads, RailLag = 0 PROVE Spec => []ReceiptsAreTrue
  <1>1. IInv => ReceiptsAreTrue
    <2> SUFFICES ASSUME IInv, NEW view \in Live, NEW i \in DOMAIN view.receipts,
                        NEW j \in DOMAIN view.receipts
                 PROVE  /\ view.receipts[i].nonce = view.receipts[j].nonce => i = j
                        /\ view.receipts[i].on = "rail" => Paid(view.receipts[i].nonce)
      BY DEF ReceiptsAreTrue
    <2> QED BY LiveFollow DEF Follows, Good, Consistent, Sound, Paid
  <1> QED BY <1>1, SessionInvariant, PTL

(* Money has moved under a nonce once when the rail took it or a receipt   *)
(* says so, and otherwise not at all.                                      *)
LEMMA MovedOnce ==
  ASSUME IInv, NEW n \in Nonces
  PROVE  MovedOn(n) = IF rail[n] # <<>> \/ HasReceipt(disk, n) THEN 1 ELSE 0
  <1> DEFINE ledger == {i \in ReceiptsFor(disk, n) : disk.receipts[i].on = "ledger"}
  <1>1. /\ disk \in Views /\ Good(disk, rail) /\ rail[n] \in Seq(Nat) /\ Len(rail[n]) <= 1
    BY DEF IInv, Shape, Followers, Follows, PaidOnce
  <1>2. Len(rail[n]) = IF rail[n] # <<>> THEN 1 ELSE 0
    BY <1>1
  <1>3. \A i \in ReceiptsFor(disk, n) :
          /\ i \in DOMAIN disk.receipts /\ disk.receipts[i].nonce = n
          /\ disk.receipts[i].on = "rail" <=> rail[n] # <<>>
          /\ disk.receipts[i].on \in {"rail", "ledger"}
    <2>1. \A i \in DOMAIN disk.receipts : disk.receipts[i] \in Receipts
      BY <1>1, ReceiptsAreSequences
    <2>2. \A x \in Receipts : x.on \in {"rail", "ledger"}
      BY DEF Receipts
    <2> QED BY <1>1, <2>1, <2>2 DEF ReceiptsFor, Good, Sound
  <1>4. MovedOn(n) = Len(rail[n]) + Cardinality(ledger)
    BY DEF MovedOn
  <1> HIDE DEF ledger
  <1>5. CASE rail[n] # <<>>
    <2>1. ledger = {}
      BY <1>3, <1>5 DEF ledger
    <2> QED BY <1>2, <1>4, <1>5, <2>1, FS_EmptySet
  <1>6. CASE rail[n] = <<>> /\ HasReceipt(disk, n)
    <2>1. PICK i \in ReceiptsFor(disk, n) : TRUE
      BY <1>6 DEF HasReceipt
    <2>2. \A j \in ReceiptsFor(disk, n) : j = i
      BY <1>1, <1>3, <2>1 DEF Good, Consistent
    <2>3. ledger = {i}
      BY <1>3, <1>6, <2>1, <2>2 DEF ledger
    <2>4. Cardinality(ledger) = 1
      BY <2>3, FS_Singleton
    <2> QED BY <1>2, <1>4, <1>6, <2>4
  <1>7. CASE rail[n] = <<>> /\ ~HasReceipt(disk, n)
    <2>1. ledger = {}
      BY <1>7 DEF ledger, HasReceipt
    <2> QED BY <1>2, <1>4, <1>7, <2>1, FS_EmptySet
  <1> QED BY <1>5, <1>6, <1>7

(* What a nonce is for: one payment, on one of the two rails, however      *)
(* often servers stop, writes fail and calls are retried.                  *)
THEOREM SessionNoDoublePay ==
  ASSUME QuietLoads, RailLag = 0 PROVE Spec => []NoDoublePay
  <1>1. IInv => NoDoublePay
    BY MovedOnce DEF NoDoublePay
  <1> QED BY <1>1, SessionInvariant, PTL

-----------------------------------------------------------------------------
(* What one step does to the file and the money.                           *)

LEMMA WritesGrow ==
  ASSUME IInv, NEW s \in Sessions, NEW view \in Views,
         Writes(s, view) \/ WriteFails(s, view), Longer(view.receipts, mem[s].receipts)
  PROVE  Longer(disk'.receipts, disk.receipts)
  <1>1. disk \in Views /\ mem[s] \in Views /\ Longer(disk.receipts, disk.receipts)
    BY LongerOrder DEF IInv, Shape
  <1>2. CASE Writes(s, view)
    <2>1. Longer(mem[s].receipts, disk.receipts) /\ disk' = view
      BY <1>2 DEF IInv, Followers, Follows, Writes
    <2> QED BY <1>1, <2>1, LongerOrder
  <1>3. CASE WriteFails(s, view)
    BY <1>1, <1>3 DEF WriteFails, Fault
  <1> QED BY <1>2, <1>3

LEMMA SettleIsView ==
  ASSUME NEW v \in Views, NEW n \in Nonces PROVE Settle(v, n) \in Views
  <1>1. CutReceipt(v, n, "rail") \in Views /\ "settled" \in Phases
    BY CutReceiptDoes DEF Phases
  <1> QED BY <1>1, SetPhaseDoes DEF Settle

LEMMA MarkGrows ==
  ASSUME IInv, NEW s \in Sessions, NEW n \in Nonces, NEW at \in Nat, Mark(s, n, at)
  PROVE  Longer(disk'.receipts, disk.receipts)
  <1>1. mem[s] \in Views
    BY DEF IInv, Shape
  <1>2. /\ MarkSubmitted(mem[s], n, at) \in Views
        /\ Longer(MarkSubmitted(mem[s], n, at).receipts, mem[s].receipts)
    BY <1>1, MarkSubmittedDoes, LongerOrder
  <1> QED BY <1>2, WritesGrow DEF Mark

LEMMA RecordGrows ==
  ASSUME IInv, NEW s \in Sessions, Record(s) PROVE Longer(disk'.receipts, disk.receipts)
  <1> DEFINE n == op[s].nonce
             view == AfterAnswer(mem[s], n, pc[s])
  <1>1. pc[s] \in Answers /\ (Writes(s, view) \/ WriteFails(s, view))
    BY DEF Record
  <1>2. n \in Nonces /\ mem[s] \in Views
    BY <1>1, InCallHas DEF InStep, InCall
  <1> HIDE DEF n
  <1>3. view \in Views /\ Longer(view.receipts, mem[s].receipts)
    <2>1. CASE pc[s] = "settled"
      BY <1>2, <2>1, SettleIsView, SettleLonger DEF AfterAnswer
    <2>2. CASE pc[s] = "failed"
      <3>1. view = GiveUp(mem[s], n)
        BY <2>2 DEF AfterAnswer
      <3> QED BY <1>2, <3>1, GiveUpDoes, LongerOrder
    <2>3. CASE pc[s] = "silent"
      <3>1. view = SetPhase(mem[s], n, "indeterminate") /\ "indeterminate" \in Phases
        BY <2>3 DEF AfterAnswer, Phases
      <3> QED BY <1>2, <3>1, SetPhaseDoes, LongerOrder
    <2> QED BY <1>1, <2>1, <2>2, <2>3 DEF Answers
  <1> HIDE DEF view
  <1> QED BY <1>1, <1>3, WritesGrow

LEMMA CallGrows ==
  ASSUME IInv, NEW s \in Sessions, NEW n \in Nonces,
         \/ SubmitPrepare(s, n) \/ RetryIndeterminate(s, n) \/ Spend(s, n)
         \/ \E from \in 0..now, to \in 1..now : ResolveIndeterminate(s, n, from, to)
  PROVE  Longer(disk'.receipts, disk.receipts)
  <1>1. mem[s] \in Views /\ now \in Nat
    BY DEF IInv, Shape
  <1>2. CASE SubmitPrepare(s, n)
    <2>1. /\ Prepare(mem[s], n, now) \in Views
          /\ Longer(Prepare(mem[s], n, now).receipts, mem[s].receipts)
      BY <1>1, PrepareDoes, LongerOrder
    <2> QED BY <1>2, <2>1, WritesGrow DEF SubmitPrepare
  <1>3. CASE RetryIndeterminate(s, n)
    BY <1>1, <1>3, MarkGrows DEF RetryIndeterminate
  <1>4. CASE Spend(s, n)
    <2> DEFINE u == Reserve(mem[s], n, now)
               view == CutReceipt(u, n, "ledger")
    <2>1. u \in Views /\ u.receipts = mem[s].receipts
      BY <1>1, ReserveDoes
    <2>2. Writes(s, view)
      BY <1>4 DEF Spend
    <2> HIDE DEF u
    <2>3. view \in Views /\ Longer(view.receipts, mem[s].receipts)
      BY <2>1, CutReceiptDoes, CutReceiptLonger
    <2> HIDE DEF view
    <2> QED BY <2>2, <2>3, WritesGrow
  <1>5. ASSUME NEW from \in 0..now, NEW to \in 1..now, ResolveIndeterminate(s, n, from, to)
        PROVE  Longer(disk'.receipts, disk.receipts)
    <2> DEFINE view == IF Hit(n, from, to) THEN Settle(mem[s], n) ELSE GiveUp(mem[s], n)
    <2>1. Writes(s, view) \/ WriteFails(s, view)
      BY <1>5 DEF ResolveIndeterminate
    <2>2. Settle(mem[s], n) \in Views /\ Longer(Settle(mem[s], n).receipts, mem[s].receipts)
      BY <1>1, SettleIsView, SettleLonger
    <2>3. GiveUp(mem[s], n) \in Views /\ Longer(GiveUp(mem[s], n).receipts, mem[s].receipts)
      BY <1>1, GiveUpDoes, LongerOrder
    <2>4. view \in Views /\ Longer(view.receipts, mem[s].receipts)
      BY <2>2, <2>3
    <2> HIDE DEF view
    <2> QED BY <2>1, <2>4, WritesGrow
  <1> QED BY <1>2, <1>3, <1>4, <1>5

LEMMA RecoveryGrows ==
  ASSUME IInv, NEW s \in Sessions, RecoverJournal(s) PROVE Longer(disk'.receipts, disk.receipts)
  <1>1. mem[s] \in Views /\ disk \in Views
    BY DEF IInv, Shape
  <1>2. CASE UNCHANGED disk
    BY <1>1, <1>2, LongerOrder
  <1>3. CASE Writes(s, Recovered(mem[s]))
    <2>1. /\ Recovered(mem[s]) \in Views
          /\ Longer(Recovered(mem[s]).receipts, mem[s].receipts)
      BY <1>1, RecoveredDoes, LongerOrder
    <2> QED BY <1>3, <2>1, WritesGrow
  <1> QED BY <1>2, <1>3 DEF RecoverJournal

(* The receipts in the file are only added to, a payment is not undone,    *)
(* and no step both saves and moves money on the external rail.            *)
LEMMA StepGrows ==
  ASSUME IInv, [Next]_vars
  PROVE  /\ Longer(disk'.receipts, disk.receipts)
         /\ UNCHANGED rail \/ UNCHANGED disk
         /\ \A n \in Nonces : rail[n] # <<>> => rail'[n] # <<>>
  <1> DEFINE Grows == /\ Longer(disk'.receipts, disk.receipts)
                      /\ UNCHANGED rail \/ UNCHANGED disk
                      /\ \A n \in Nonces : rail[n] # <<>> => rail'[n] # <<>>
  <1>1. Longer(disk.receipts, disk.receipts)
    BY LongerOrder DEF IInv, Shape
  <1>2. ASSUME NEW s \in Sessions, SubmitMark(s) PROVE Grows
    <2>1. pc[s] \in InCall
      BY <1>2 DEF SubmitMark, InCall
    <2>2. op[s].nonce \in Nonces /\ op[s].at \in Nat
      BY <2>1, InCallHas DEF InStep, IInv, Shape
    <2> QED BY <1>2, <2>2, MarkGrows DEF SubmitMark
  <1>3. ASSUME NEW s \in Sessions, NEW answer \in Answers, RailSubmit(s, answer) PROVE Grows
    <2>1. pc[s] \in InCall
      BY <1>3 DEF RailSubmit, InCall
    <2>2. op[s].nonce \in Nonces /\ rail \in [Nonces -> Seq(Nat)] /\ now \in Nat
      BY <2>1, InCallHas DEF InStep, IInv, Shape
    <2>3. rail' = rail \/ rail' = [rail EXCEPT ![op[s].nonce] = Append(@, now)]
      BY <1>3 DEF RailSubmit, Moves
    <2>4. \A n \in Nonces : Append(rail[n], now) # <<>>
      <3>1. \A x \in Seq(Nat) : Len(Append(x, now)) = Len(x) + 1 /\ Len(x) \in Nat
        BY <2>2
      <3>2. Len(<<>>) = 0
        OBVIOUS
      <3> QED BY <2>2, <3>1, <3>2
    <2>5. \A n \in Nonces : rail[n] # <<>> => rail'[n] # <<>>
      BY <2>2, <2>3, <2>4
    <2> QED BY <1>1, <1>3, <2>5 DEF RailSubmit
  <1>4. ASSUME NEW s \in Sessions, Record(s) PROVE Grows
    BY <1>4, RecordGrows DEF Record
  <1>5. ASSUME NEW s \in Sessions, RecoverJournal(s) PROVE Grows
    BY <1>5, RecoveryGrows DEF RecoverJournal
  <1>6. ASSUME NEW s \in Sessions, NEW n \in Nonces,
               \/ SubmitPrepare(s, n) \/ RetryIndeterminate(s, n) \/ Spend(s, n)
               \/ \E from \in 0..now, to \in 1..now : ResolveIndeterminate(s, n, from, to)
        PROVE  Grows
    <2>1. UNCHANGED rail
      BY <1>6 DEF SubmitPrepare, RetryIndeterminate, Spend, ResolveIndeterminate
    <2> QED BY <1>6, <2>1, CallGrows
  <1>7. ASSUME NEW s \in Sessions, Fingerprint(s) \/ RecoverFails(s) \/ Start(s) \/ Reload(s) \/ Crash(s)
        PROVE  Grows
    BY <1>1, <1>7 DEF Fingerprint, RecoverFails, Start, Reload, Crash
  <1>8. ASSUME UNCHANGED vars PROVE Grows
    BY <1>1, <1>8 DEF vars
  <1> HIDE DEF Grows
  <1>9. ASSUME NEW s \in Sessions, Proceed(s) PROVE Grows
    BY <1>2, <1>3, <1>4, <1>5, <1>7, <1>9 DEF Proceed
  <1>10. ASSUME NEW s \in Sessions,
                \/ Proceed(s)
                \/ \E n \in Nonces :
                     \/ SubmitPrepare(s, n) \/ RetryIndeterminate(s, n) \/ Spend(s, n)
                     \/ \E from \in 0..now, to \in 1..now : ResolveIndeterminate(s, n, from, to)
                \/ Start(s) \/ Reload(s) \/ Crash(s)
         PROVE  Grows
    BY <1>6, <1>7, <1>9, <1>10
  <1>11. ASSUME Tick PROVE Grows
    BY <1>1, <1>11 DEF Tick, Grows
  <1>12. Grows
    BY <1>8, <1>10, <1>11 DEF Next
  <1> QED BY <1>12 DEF Grows

(* The lost write writeLocked is there to stop ("the other one's receipt   *)
(* is simply gone"): whoever saves, the receipts that were in the file are *)
(* still its first ones.                                                   *)
THEOREM SessionReceiptsOnlyGrow ==
  ASSUME QuietLoads, RailLag = 0 PROVE Spec => ReceiptsOnlyGrow
  <1>1. IInv /\ IInv' /\ [Next]_vars => [Extends(disk'.receipts, disk.receipts)]_vars
    <2> SUFFICES ASSUME IInv, IInv', [Next]_vars PROVE Extends(disk'.receipts, disk.receipts)
      OBVIOUS
    <2>1. Longer(disk'.receipts, disk.receipts)
      BY StepGrows
    <2>2. disk.receipts \in Seq(Receipts) /\ disk'.receipts \in Seq(Receipts)
      <3>1. disk \in Views /\ disk' \in Views
        BY DEF IInv, Shape
      <3> QED BY <3>1 DEF Views
    <2> QED BY <2>1, <2>2 DEF Longer, Extends
  <1> QED BY <1>1, SessionInvariant, PTL DEF Spec, ReceiptsOnlyGrow

-----------------------------------------------------------------------------
(* The abstract authority.                                                 *)

(* a and m say of each nonce what the file and the rails say.              *)
Reads(a, m) ==
  \A n \in Nonces :
    /\ a[n] \in {"free", "held", "spent"}
    /\ a[n] = "spent" <=> HasReceipt(disk, n)
    /\ a[n] = "free" <=> ~HasReceipt(disk, n) /\ n \notin disk.used
    /\ m[n] \in {0, 1}
    /\ m[n] = 1 <=> rail[n] # <<>> \/ HasReceipt(disk, n)
    /\ a[n] = "free" => m[n] = 0

LEMMA AuthorityReads == IInv => Reads(Authority, [n \in Nonces |-> MovedOn(n)])
  <1> SUFFICES ASSUME IInv, NEW n \in Nonces
               PROVE  /\ Authority[n] \in {"free", "held", "spent"}
                      /\ Authority[n] = "spent" <=> HasReceipt(disk, n)
                      /\ Authority[n] = "free" <=> ~HasReceipt(disk, n) /\ n \notin disk.used
                      /\ MovedOn(n) \in {0, 1}
                      /\ MovedOn(n) = 1 <=> rail[n] # <<>> \/ HasReceipt(disk, n)
                      /\ Authority[n] = "free" => MovedOn(n) = 0
    BY DEF Reads
  <1>1. rail[n] # <<>> => n \in disk.used
    BY DEF IInv, Followers, Follows, Good, Sound
  <1> QED BY <1>1, MovedOnce DEF Authority

(* Read through the file and the rails, every step does to each nonce what *)
(* the abstract authority allows: it is held before money moves, given     *)
(* back only when none did, spent for good.                                *)
THEOREM SessionHoldsAuthority ==
  ASSUME QuietLoads, RailLag = 0 PROVE Spec => HoldsAuthority
  <1> DEFINE moved == [n \in Nonces |-> MovedOn(n)]
  <1>1. Init => Abstract!AInit
    <2> SUFFICES ASSUME Init PROVE Abstract!AInit
      OBVIOUS
    <2>1. IInv /\ disk = EmptyView /\ \A n \in Nonces : rail[n] = <<>>
      BY InitInv DEF Init
    <2>2. \A n \in Nonces : ~HasReceipt(disk, n) /\ n \notin disk.used
      BY <2>1, ReceiptIsThere DEF EmptyView
    <2>3. Reads(Authority, moved)
      BY <2>1, AuthorityReads
    <2>4. \A n \in Nonces : Authority[n] = "free" /\ moved[n] = 0
      BY <2>1, <2>2, <2>3 DEF Reads
    <2>5. Authority = [n \in Nonces |-> "free"] /\ moved = [n \in Nonces |-> 0]
      BY <2>4 DEF Authority
    <2> QED BY <2>5 DEF Abstract!AInit
  <1>2. IInv' => Reads(Authority, moved)'
    BY AuthorityReads, PTL
  <1>3. IInv /\ IInv' /\ [Next]_vars => [Abstract!ANext]_(Abstract!avars)
    <2> SUFFICES ASSUME IInv, IInv', [Next]_vars PROVE Abstract!ANext
      OBVIOUS
    <2>1. Reads(Authority, moved) /\ Reads(Authority, moved)'
      BY <1>2, AuthorityReads
    <2>2. /\ Longer(disk'.receipts, disk.receipts) /\ (UNCHANGED rail \/ UNCHANGED disk)
          /\ \A n \in Nonces : rail[n] # <<>> => rail'[n] # <<>>
      BY StepGrows
    <2>3. \A n \in Nonces : HasReceipt(disk, n) => HasReceipt(disk', n)
      <3>1. disk \in Views /\ disk' \in Views
        BY DEF IInv, Shape
      <3> QED BY <2>2, <3>1, ReceiptIsThere, ReceiptsAreSequences DEF Longer
    <2>4. \A n \in Nonces : Abstract!NonceStep(n)
      <3> SUFFICES ASSUME NEW n \in Nonces PROVE Abstract!NonceStep(n)
        OBVIOUS
      <3> DEFINE a == Authority[n]  b == Authority'[n]  m == moved[n]  k == moved'[n]
      <3>1. /\ a \in {"free", "held", "spent"} /\ m \in {0, 1}
            /\ a = "spent" <=> HasReceipt(disk, n)
            /\ a = "free" <=> ~HasReceipt(disk, n) /\ n \notin disk.used
            /\ m = 1 <=> rail[n] # <<>> \/ HasReceipt(disk, n)
            /\ a = "free" => m = 0
        BY <2>1 DEF Reads
      <3>2. /\ b \in {"free", "held", "spent"} /\ k \in {0, 1}
            /\ b = "spent" <=> HasReceipt(disk', n)
            /\ b = "free" <=> ~HasReceipt(disk', n) /\ n \notin disk'.used
            /\ k = 1 <=> rail'[n] # <<>> \/ HasReceipt(disk', n)
            /\ b = "free" => k = 0
        BY <2>1 DEF Reads
      <3> HIDE DEF a, b, m, k
      <3>3. \/ a = "free" /\ b = "free" /\ m = 0 /\ k = 0
            \/ a = "free" /\ b = "held" /\ m = 0 /\ k = 0
            \/ a \in {"free", "held"} /\ b = "spent" /\ m = 0 /\ k = 1
            \/ a = "held" /\ b = "held" /\ (m = 1 => k = 1)
            \/ a = "held" /\ b = "free" /\ m = 0 /\ k = 0
            \/ a = "held" /\ b = "spent" /\ m = 1 /\ k = 1
            \/ a = "spent" /\ b = "spent" /\ m = 1 /\ k = 1
        BY <2>2, <2>3, <3>1, <3>2
      <3>4. m \in {0, 1} /\ k \in {0, 1}
        BY <3>1, <3>2
      <3> QED BY <3>3, <3>4
            DEF Abstract!NonceStep, Abstract!Hold, Abstract!Pay, Abstract!Return, Abstract!Confirm,
                Abstract!SettleAtOnce, Abstract!Stays, Abstract!Becomes, a, b, m, k
    <2>5. /\ Authority' \in [Nonces -> {"free", "held", "spent"}]
          /\ moved' \in [Nonces -> {0, 1}]
      <3>1. Authority' = [n \in Nonces |-> Authority'[n]] /\ moved' = [n \in Nonces |-> moved'[n]]
        BY DEF Authority
      <3>2. \A n \in Nonces : Authority'[n] \in {"free", "held", "spent"} /\ moved'[n] \in {0, 1}
        BY <2>1 DEF Reads
      <3> HIDE DEF moved
      <3> QED BY <3>1, <3>2
    <2> QED BY <2>4, <2>5 DEF Abstract!ANext
  <1> QED BY <1>1, <1>3, SessionInvariant, PTL DEF Spec, HoldsAuthority, Abstract!ASpec

-----------------------------------------------------------------------------
(* The reserves.  A second invariant, of every view a session has, agreed  *)
(* with the file or not; so it needs nothing of the loads or the rail.     *)

HeldPhases == {"prepared", "submitted", "indeterminate", "settled"}

(* A held reserve was taken in a window no later than the one now open,    *)
(* and was not past its end: when the window rolls, no reserve is counted  *)
(* in the new one.  Those of this window are all in its count.             *)
HeldIn(v, n) == Phase(v, n) \in HeldPhases /\ ~WindowIsOver(v.counters, v.rows[n].reservedAt)

Holds(v) ==
  /\ \A n \in Nonces : Phase(v, n) \in HeldPhases => HeldIn(v, n)
  /\ Cardinality(HeldInWindow(v)) <= v.counters.allowedCount
  /\ v.counters.allowedSum = v.counters.allowedCount * Amount

(* The row of the payment a session is in, in its own view.                *)
AtRow(s) ==
  /\ op[s].nonce \in Nonces
  /\ Phase(mem[s], op[s].nonce) = IF pc[s] = "prepared" THEN "prepared" ELSE "submitted"

Reserves ==
  /\ Holds(disk)
  /\ \A s \in Sessions : Holds(mem[s]) /\ (prior[s] # NoPrior => Holds(prior[s]))
  /\ \A s \in Sessions : pc[s] \in InCall => AtRow(s)

HInv == Shape /\ Reserves

LEMMA Multiples ==
  ASSUME NEW c \in Nat
  PROVE  /\ c * Amount \in Nat /\ (c + 1) * Amount = c * Amount + Amount /\ 0 * Amount = 0
         /\ c > 0 => c * Amount >= Amount /\ (c - 1) * Amount = c * Amount - Amount
         /\ \A b \in Nat : b <= c => b * Amount <= c * Amount /\ (c - b) * Amount = c * Amount - b * Amount
  BY SessionAssumption

LEMMA HeldIsFinite ==
  ASSUME NEW v \in Views
  PROVE  /\ IsFiniteSet(HeldInWindow(v)) /\ Cardinality(HeldInWindow(v)) \in Nat
         /\ \A S \in SUBSET HeldInWindow(v) :
              IsFiniteSet(S) /\ Cardinality(S) \in Nat /\ Cardinality(S) <= Cardinality(HeldInWindow(v))
  <1>1. HeldInWindow(v) \subseteq Nonces
    BY DEF HeldInWindow
  <1>2. IsFiniteSet(HeldInWindow(v))
    BY <1>1, SessionAssumption, FS_Subset
  <1> QED BY <1>2, FS_Subset, FS_CardinalityType

(* Nothing is reserved or given back.                                      *)
LEMMA KeepHolds ==
  ASSUME NEW v \in Views, Holds(v), NEW w \in Views, w.counters = v.counters,
         \A n \in Nonces : Phase(w, n) \in HeldPhases =>
           Phase(v, n) \in HeldPhases /\ w.rows[n].reservedAt = v.rows[n].reservedAt
  PROVE  Holds(w)
  <1>1. HeldInWindow(w) \subseteq HeldInWindow(v)
    BY DEF HeldInWindow, HeldPhases
  <1>2. /\ Cardinality(HeldInWindow(w)) <= Cardinality(HeldInWindow(v))
        /\ Cardinality(HeldInWindow(w)) \in Nat /\ Cardinality(HeldInWindow(v)) \in Nat
    BY <1>1, HeldIsFinite
  <1>3. v.counters.allowedCount \in Nat
    BY DEF Views, Counters
  <1> QED BY <1>2, <1>3 DEF Holds, HeldIn

(* One more is counted: n's, when it has a row.                            *)
LEMMA TakeHolds ==
  ASSUME NEW v \in Views, Holds(v), NEW w \in Views, NEW n \in Nonces, NEW at \in Nat \ {0},
         w.counters = Take(RollWindow(v.counters, at), Amount),
         Phase(w, n) \in HeldPhases => w.rows[n].reservedAt = at \/ w.rows[n] = v.rows[n],
         \A m \in Nonces \ {n} : w.rows[m] = v.rows[m]
  PROVE  Holds(w)
  <1> DEFINE c == v.counters
  <1>1. c \in Counters /\ w.counters \in Counters
    BY DEF Views
  <1>2. \A m \in Nonces : v.rows[m].reservedAt \in Nat /\ w.rows[m].reservedAt \in Nat
    BY DEF Views, Rows
  <1>3. CASE WindowIsOver(c, at)
    <2>1. w.counters = [windowStartMs |-> at, allowedCount |-> 1, allowedSum |-> Amount]
      BY <1>3, SessionAssumption DEF RollWindow, Take
    <2>2. ~WindowIsOver(w.counters, at)
      BY <2>1, PolicyAssumption DEF WindowIsOver
    <2>3. ASSUME NEW m \in Nonces, Phase(w, m) \in HeldPhases, w.rows[m] = v.rows[m]
          PROVE  w.rows[m].reservedAt < at
      <3>1. HeldIn(v, m)
        BY <2>3 DEF Holds, Phase
      <3>2. c.windowStartMs # 0 /\ v.rows[m].reservedAt - c.windowStartMs < WindowMs
        <4>1. /\ c.windowStartMs \in Nat /\ v.rows[m].reservedAt \in Nat
          BY <1>1, <1>2 DEF Counters
        <4> QED BY <3>1, <4>1, PolicyAssumption DEF HeldIn, WindowIsOver
      <3>3. at - c.windowStartMs >= WindowMs
        BY <1>3, <3>2 DEF WindowIsOver
      <3>4. c.windowStartMs \in Nat
        BY <1>1 DEF Counters
      <3> QED BY <1>2, <2>3, <3>2, <3>3, <3>4, PolicyAssumption
    <2>4. ASSUME NEW m \in Nonces, Phase(w, m) \in HeldPhases
          PROVE  (w.rows[m].reservedAt = at /\ m = n) \/ w.rows[m].reservedAt < at
      BY <2>3, <2>4
    <2>5. \A m \in Nonces : Phase(w, m) \in HeldPhases => HeldIn(w, m)
      <3> SUFFICES ASSUME NEW m \in Nonces, Phase(w, m) \in HeldPhases PROVE HeldIn(w, m)
        OBVIOUS
      <3>1. w.rows[m].reservedAt <= at
        BY <1>2, <2>4
      <3>2. w.counters.windowStartMs = at /\ w.rows[m].reservedAt \in Nat
        BY <1>2, <2>1
      <3>3. ~(w.rows[m].reservedAt - at >= WindowMs)
        BY <3>1, <3>2, PolicyAssumption
      <3> QED BY <3>2, <3>3 DEF HeldIn, WindowIsOver
    <2>6. HeldInWindow(w) \subseteq {n}
      BY <1>2, <2>1, <2>4 DEF HeldInWindow, InCounters, HeldPhases
    <2>7. Cardinality(HeldInWindow(w)) <= 1
      <3>1. IsFiniteSet({n}) /\ Cardinality({n}) = 1
        BY FS_Singleton
      <3>2. Cardinality(HeldInWindow(w)) <= Cardinality({n})
        BY <2>6, <3>1, FS_Subset
      <3> QED BY <3>1, <3>2
    <2> QED BY <2>1, <2>5, <2>7, SessionAssumption DEF Holds
  <1>4. CASE ~WindowIsOver(c, at)
    <2>1. /\ w.counters.windowStartMs = c.windowStartMs
          /\ w.counters.allowedCount = c.allowedCount + 1
          /\ w.counters.allowedSum = c.allowedSum + Amount
      BY <1>4 DEF RollWindow, Take
    <2>2. \A m \in Nonces : Phase(w, m) \in HeldPhases => HeldIn(w, m)
      BY <1>4, <2>1 DEF Holds, HeldIn, WindowIsOver, Phase
    <2>3. HeldInWindow(w) \subseteq HeldInWindow(v) \cup {n}
      BY <2>1 DEF HeldInWindow, InCounters, Phase
    <2>4. Cardinality(HeldInWindow(w)) <= Cardinality(HeldInWindow(v)) + 1
      <3>1. /\ IsFiniteSet(HeldInWindow(v) \cup {n})
            /\ Cardinality(HeldInWindow(v) \cup {n}) <= Cardinality(HeldInWindow(v)) + 1
        BY HeldIsFinite, FS_AddElement
      <3>2. /\ Cardinality(HeldInWindow(w)) <= Cardinality(HeldInWindow(v) \cup {n})
            /\ Cardinality(HeldInWindow(v) \cup {n}) \in Nat
        BY <2>3, <3>1, FS_Subset, FS_CardinalityType
      <3> QED BY <3>1, <3>2, HeldIsFinite
    <2>5. c.allowedCount \in Nat /\ c.allowedSum = c.allowedCount * Amount
      BY <1>1 DEF Holds, Counters
    <2>6. w.counters.allowedSum = w.counters.allowedCount * Amount
      BY <2>1, <2>5, Multiples
    <2>7. Cardinality(HeldInWindow(w)) <= w.counters.allowedCount
      BY <2>1, <2>4, <2>5, HeldIsFinite DEF Holds
    <2> QED BY <2>2, <2>6, <2>7 DEF Holds
  <1> QED BY <1>3, <1>4

(* Those of a set of held reserves that are in the window go, and as many  *)
(* come off its count.                                                     *)
LEMMA ReturnHolds ==
  ASSUME NEW v \in Views, Holds(v), NEW w \in Views, NEW gone \in SUBSET HeldInWindow(v),
         w.counters = Returned(v.counters, Cardinality(gone)),
         \A n \in Nonces : Phase(w, n) \in HeldPhases =>
           n \notin gone /\ Phase(v, n) \in HeldPhases /\ w.rows[n].reservedAt = v.rows[n].reservedAt
  PROVE  Holds(w)
  <1> DEFINE c == v.counters
             back == Cardinality(gone)
  <1>1. /\ c.windowStartMs \in Nat /\ c.allowedCount \in Nat
        /\ c.allowedSum = c.allowedCount * Amount
        /\ Cardinality(HeldInWindow(v)) <= c.allowedCount
    BY DEF Views, Counters, Holds
  <1>2. /\ back \in Nat /\ back <= Cardinality(HeldInWindow(v))
        /\ Cardinality(HeldInWindow(v)) \in Nat
        /\ Cardinality(HeldInWindow(v) \ gone) = Cardinality(HeldInWindow(v)) - back
    <2>1. IsFiniteSet(HeldInWindow(v)) /\ HeldInWindow(v) \cap gone = gone
      BY HeldIsFinite
    <2>2. Cardinality(HeldInWindow(v) \ gone)
            = Cardinality(HeldInWindow(v)) - Cardinality(HeldInWindow(v) \cap gone)
      BY <2>1, FS_Difference
    <2> QED BY <2>1, <2>2, HeldIsFinite
  <1> HIDE DEF back
  <1>3. back <= c.allowedCount
    BY <1>1, <1>2
  <1>4. /\ back * Amount \in Nat /\ back * Amount <= c.allowedCount * Amount
        /\ c.allowedCount * Amount \in Nat
        /\ (c.allowedCount - back) * Amount = c.allowedCount * Amount - back * Amount
    BY <1>1, <1>2, <1>3, Multiples
  <1>5. w.counters = Returned(c, back)
    BY DEF back
  <1>6. /\ w.counters.windowStartMs = c.windowStartMs
        /\ w.counters.allowedCount = c.allowedCount - back
    BY <1>3, <1>5 DEF Returned
  <1>7. w.counters.allowedSum = c.allowedSum - back * Amount
    BY <1>1, <1>4, <1>5 DEF Returned
  <1>8. HeldInWindow(w) \subseteq HeldInWindow(v) \ gone
    BY <1>6 DEF HeldInWindow, HeldPhases, InCounters
  <1>9. Cardinality(HeldInWindow(w)) <= Cardinality(HeldInWindow(v) \ gone)
    <2>1. IsFiniteSet(HeldInWindow(v) \ gone)
      BY HeldIsFinite
    <2> QED BY <1>8, <2>1, FS_Subset
  <1>10. Cardinality(HeldInWindow(w)) \in Nat
    BY HeldIsFinite
  <1>11. Cardinality(HeldInWindow(w)) <= w.counters.allowedCount
    BY <1>1, <1>2, <1>6, <1>9, <1>10
  <1>12. w.counters.allowedSum = w.counters.allowedCount * Amount
    BY <1>1, <1>4, <1>6, <1>7
  <1>13. \A n \in Nonces : Phase(w, n) \in HeldPhases => HeldIn(w, n)
    BY <1>6 DEF Holds, HeldIn, WindowIsOver
  <1> QED BY <1>11, <1>12, <1>13 DEF Holds

LEMMA EmptyHolds == Holds(EmptyView)
  <1>1. /\ \A n \in Nonces : Phase(EmptyView, n) = "none"
        /\ EmptyView.counters.allowedCount = 0 /\ EmptyView.counters.allowedSum = 0
    BY DEF EmptyView, NoRow, Phase, FreshCounters
  <1>2. HeldInWindow(EmptyView) = {}
    BY <1>1 DEF HeldInWindow
  <1>3. Cardinality(HeldInWindow(EmptyView)) = 0
    BY <1>2, FS_EmptySet
  <1>4. 0 = 0 * Amount
    BY SessionAssumption
  <1> QED BY <1>1, <1>3, <1>4 DEF Holds, HeldPhases

LEMMA PrepareHolds ==
  ASSUME NEW v \in Views, Holds(v), NEW n \in Nonces, NEW at \in Nat \ {0}
  PROVE  /\ Prepare(v, n, at) \in Views /\ Holds(Prepare(v, n, at))
         /\ Phase(Prepare(v, n, at), n) = "prepared"
  <1> DEFINE w == Prepare(v, n, at)
  <1>1. /\ w \in Views /\ w.counters = Take(RollWindow(v.counters, at), Amount)
        /\ w.rows[n].reservedAt = at /\ w.rows[n].phase = "prepared"
        /\ \A m \in Nonces \ {n} : w.rows[m] = v.rows[m]
    BY PrepareDoes
  <1> HIDE DEF w
  <1>2. Holds(w) /\ Phase(w, n) = "prepared"
    BY <1>1, TakeHolds DEF Phase
  <1> QED BY <1>1, <1>2 DEF w

LEMMA SpendHolds ==
  ASSUME NEW v \in Views, Holds(v), NEW n \in Nonces, NEW at \in Nat \ {0}
  PROVE  LET w == CutReceipt(Reserve(v, n, at), n, "ledger") IN w \in Views /\ Holds(w)
  <1> DEFINE u == Reserve(v, n, at)
             w == CutReceipt(u, n, "ledger")
  <1>1. /\ u \in Views /\ u.rows = v.rows
        /\ u.counters = Take(RollWindow(v.counters, at), Amount)
    BY ReserveDoes
  <1> HIDE DEF u
  <1>2. w \in Views /\ w.rows = u.rows /\ w.counters = u.counters
    BY <1>1, CutReceiptDoes
  <1> HIDE DEF w
  <1>3. Holds(w)
    BY <1>1, <1>2, TakeHolds
  <1> QED BY <1>2, <1>3 DEF u, w

LEMMA MarkHolds ==
  ASSUME NEW v \in Views, Holds(v), NEW n \in Nonces, NEW at \in Nat,
         Phase(v, n) \in {"prepared", "indeterminate"}
  PROVE  /\ MarkSubmitted(v, n, at) \in Views /\ Holds(MarkSubmitted(v, n, at))
         /\ Phase(MarkSubmitted(v, n, at), n) = "submitted"
  <1> DEFINE w == MarkSubmitted(v, n, at)
  <1>1. /\ w \in Views /\ w.counters = v.counters
        /\ w.rows[n].reservedAt = v.rows[n].reservedAt /\ w.rows[n].phase = "submitted"
        /\ \A m \in Nonces \ {n} : w.rows[m] = v.rows[m]
    BY MarkSubmittedDoes
  <1> HIDE DEF w
  <1>2. \A m \in Nonces : Phase(w, m) \in HeldPhases =>
          Phase(v, m) \in HeldPhases /\ w.rows[m].reservedAt = v.rows[m].reservedAt
    BY <1>1 DEF Phase, HeldPhases
  <1>3. Holds(w) /\ Phase(w, n) = "submitted"
    BY <1>1, <1>2, KeepHolds DEF Phase
  <1> QED BY <1>1, <1>3 DEF w

LEMMA KeepOpenHolds ==
  ASSUME NEW v \in Views, Holds(v), NEW n \in Nonces, Phase(v, n) \in HeldPhases,
         NEW p \in HeldPhases
  PROVE  SetPhase(v, n, p) \in Views /\ Holds(SetPhase(v, n, p))
  <1> DEFINE w == SetPhase(v, n, p)
  <1>1. p \in Phases
    BY DEF Phases, HeldPhases
  <1>2. /\ w \in Views /\ w.counters = v.counters
        /\ w.rows[n].reservedAt = v.rows[n].reservedAt
        /\ \A m \in Nonces \ {n} : w.rows[m] = v.rows[m]
    BY <1>1, SetPhaseDoes
  <1> HIDE DEF w
  <1>3. \A m \in Nonces : Phase(w, m) \in HeldPhases =>
          Phase(v, m) \in HeldPhases /\ w.rows[m].reservedAt = v.rows[m].reservedAt
    BY <1>2 DEF Phase
  <1>4. Holds(w)
    BY <1>2, <1>3, KeepHolds
  <1> QED BY <1>2, <1>4 DEF w

LEMMA SettleHolds ==
  ASSUME NEW v \in Views, Holds(v), NEW n \in Nonces, Phase(v, n) \in HeldPhases
  PROVE  Settle(v, n) \in Views /\ Holds(Settle(v, n))
  <1> DEFINE u == CutReceipt(v, n, "rail")
  <1>1. u \in Views /\ u.counters = v.counters /\ u.rows = v.rows
    BY CutReceiptDoes
  <1>2. Settle(v, n) = SetPhase(u, n, "settled")
    BY DEF Settle
  <1> HIDE DEF u
  <1>3. \A m \in Nonces : Phase(u, m) = Phase(v, m)
    BY <1>1 DEF Phase
  <1>4. Holds(u)
    BY <1>1, <1>3, KeepHolds
  <1>5. "settled" \in HeldPhases
    BY DEF HeldPhases
  <1> QED BY <1>1, <1>2, <1>3, <1>4, <1>5, KeepOpenHolds

(* A reserve of an earlier window is given back without its count.         *)
LEMMA GiveUpHolds ==
  ASSUME NEW v \in Views, Holds(v), NEW n \in Nonces, Phase(v, n) \in HeldPhases
  PROVE  GiveUp(v, n) \in Views /\ Holds(GiveUp(v, n))
  <1> DEFINE w == GiveUp(v, n)
  <1>1. /\ w \in Views /\ w.counters = GiveBack(v.counters, Amount, v.rows[n].reservedAt)
        /\ w.rows[n].phase = "failed"
        /\ \A m \in Nonces \ {n} : w.rows[m] = v.rows[m]
    BY GiveUpDoes
  <1> HIDE DEF w
  <1>2. \A m \in Nonces : Phase(w, m) \in HeldPhases =>
          m # n /\ Phase(v, m) \in HeldPhases /\ w.rows[m].reservedAt = v.rows[m].reservedAt
    BY <1>1 DEF Phase, HeldPhases
  <1>3. Phase(v, n) \in HeldPhases /\ w.counters = GiveBack(v.counters, Amount, v.rows[n].reservedAt)
    BY <1>1
  <1>4. Holds(w)
    <2>1. CASE InCounters(v.counters, v.rows[n].reservedAt)
      <3>1. {n} \in SUBSET HeldInWindow(v)
        BY <2>1 DEF HeldInWindow, HeldPhases
      <3>2. Cardinality({n}) = 1 /\ 1 * Amount = Amount
        <4>1. Cardinality({n}) = 1
          BY FS_Singleton
        <4> QED BY <4>1, SessionAssumption
      <3>3. v.counters \in Counters
        BY DEF Views
      <3>4. w.counters = Returned(v.counters, 1)
        <4>1. v.counters.allowedCount \in Nat /\ v.counters.allowedSum \in Nat
          BY <3>3 DEF Counters
        <4>2. (v.counters.allowedCount > 0) <=> (v.counters.allowedCount >= 1)
          BY <4>1
        <4> QED BY <1>3, <2>1, <3>2, <4>2 DEF GiveBack, Returned
      <3>5. w.counters = Returned(v.counters, Cardinality({n}))
        BY <3>2, <3>4
      <3>6. \A m \in Nonces : Phase(w, m) \in HeldPhases =>
              m \notin {n} /\ Phase(v, m) \in HeldPhases /\ w.rows[m].reservedAt = v.rows[m].reservedAt
        BY <1>2
      <3> QED BY <1>1, <3>1, <3>5, <3>6, ReturnHolds
    <2>2. CASE ~InCounters(v.counters, v.rows[n].reservedAt)
      <3>1. w.counters = v.counters
        BY <1>3, <2>2 DEF GiveBack
      <3> QED BY <1>1, <1>2, <3>1, KeepHolds
    <2> QED BY <2>1, <2>2
  <1> QED BY <1>1, <1>4 DEF w

LEMMA RecoveredHolds ==
  ASSUME NEW v \in Views, Holds(v)
  PROVE  Recovered(v) \in Views /\ Holds(Recovered(v))
  <1> DEFINE w == Recovered(v)
  <1>1. /\ w \in Views
        /\ w.counters = Returned(v.counters, Cardinality(PreparedInWindow(v)))
        /\ \A n \in Nonces : /\ w.rows[n].reservedAt = v.rows[n].reservedAt
                             /\ w.rows[n].phase = CASE Phase(v, n) = "prepared" -> "failed"
                                                    [] Phase(v, n) = "submitted" -> "indeterminate"
                                                    [] OTHER -> Phase(v, n)
    BY RecoveredDoes
  <1> HIDE DEF w
  <1>2. PreparedInWindow(v) \in SUBSET HeldInWindow(v)
    BY DEF PreparedInWindow, HeldInWindow
  <1>3. \A n \in Nonces : Phase(w, n) \in HeldPhases =>
          n \notin PreparedInWindow(v) /\ Phase(v, n) \in HeldPhases
    BY <1>1 DEF Phase, HeldPhases, PreparedInWindow
  <1>4. Holds(w)
    BY <1>1, <1>2, <1>3, ReturnHolds
  <1> QED BY <1>1, <1>4 DEF w

-----------------------------------------------------------------------------
(* The steps.                                                              *)

(* One session's step: what it leaves of the file and its own state.       *)
LEMMA HoldsOn ==
  ASSUME HInv, Shape', NEW s \in Sessions, Holds(disk'), Holds(mem'[s]),
         prior'[s] # NoPrior => Holds(prior'[s]),
         \A t \in Sessions \ {s} : mem'[t] = mem[t] /\ prior'[t] = prior[t]
                                   /\ pc'[t] = pc[t] /\ op'[t] = op[t],
         pc'[s] \in InCall => AtRow(s)'
  PROVE  HInv'
  <1>1. \A t \in Sessions : Holds(mem'[t]) /\ (prior'[t] # NoPrior => Holds(prior'[t]))
    BY DEF HInv, Reserves
  <1>2. ASSUME NEW t \in Sessions \ {s}, pc'[t] \in InCall PROVE AtRow(t)'
    BY <1>2 DEF HInv, Reserves, AtRow
  <1>3. Reserves'
    BY <1>1, <1>2 DEF Reserves
  <1> QED BY <1>3 DEF HInv

(* A step that saves, or fails to and keeps what it could not write.       *)
LEMMA SaveHolds ==
  ASSUME HInv, NEW s \in Sessions, NEW view \in Views, Holds(view),
         Writes(s, view) \/ WriteFails(s, view), UNCHANGED <<rail, now>>,
         prior' = prior \/ prior' = [prior EXCEPT ![s] = NoPrior],
         pc' \in [Sessions -> Places], op' \in [Sessions -> [nonce : Nonces \cup {Nobody}, at : Nat]],
         holder' \in Sessions \cup {Nobody},
         \A t \in Sessions \ {s} : pc'[t] = pc[t] /\ op'[t] = op[t],
         pc'[s] \in InCall =>
           /\ op'[s].nonce \in Nonces
           /\ Phase(view, op'[s].nonce) = IF pc'[s] = "prepared" THEN "prepared" ELSE "submitted"
  PROVE  HInv'
  <1>1. /\ disk' \in {disk, view} /\ mem' = [mem EXCEPT ![s] = view]
        /\ agrees' \in {agrees, {s}} /\ agreed' \in {agreed, {}}
    BY DEF Writes, WriteFails, Fault
  <1>2. Shape /\ Reserves
    BY DEF HInv
  <1>3. Shape'
    BY <1>1, <1>2 DEF Shape
  <1>4. /\ mem'[s] = view /\ \A t \in Sessions \ {s} : mem'[t] = mem[t]
        /\ \A t \in Sessions \ {s} : prior'[t] = prior[t]
        /\ prior'[s] \in {prior[s], NoPrior}
    BY <1>1, <1>2 DEF Shape
  <1>5. Holds(disk') /\ Holds(mem'[s]) /\ (prior'[s] # NoPrior => Holds(prior'[s]))
    BY <1>1, <1>2, <1>4 DEF Reserves
  <1>6. pc'[s] \in InCall => AtRow(s)'
    BY <1>4 DEF AtRow
  <1> QED BY <1>3, <1>4, <1>5, <1>6, HoldsOn

(* Where a call is after a step of it.                                     *)
LEMMA CallSteps ==
  ASSUME Shape, NEW s \in Sessions
  PROVE  /\ Ends(s) =>
              /\ pc' \in [Sessions -> Places] /\ pc'[s] \notin InCall
              /\ op' \in [Sessions -> [nonce : Nonces \cup {Nobody}, at : Nat]]
              /\ holder' \in Sessions \cup {Nobody}
              /\ \A t \in Sessions \ {s} : pc'[t] = pc[t] /\ op'[t] = op[t]
         /\ \A n \in Nonces, at \in Nat, place \in InCall : GoesOn(s, n, at, place) =>
              /\ pc' \in [Sessions -> Places] /\ pc'[s] = place /\ op'[s].nonce = n
              /\ op' \in [Sessions -> [nonce : Nonces \cup {Nobody}, at : Nat]]
              /\ holder' \in Sessions \cup {Nobody}
              /\ \A t \in Sessions \ {s} : pc'[t] = pc[t] /\ op'[t] = op[t]
  <1>1. NoOp \in [nonce : Nonces \cup {Nobody}, at : Nat] /\ "idle" \in Places /\ "idle" \notin InCall
    BY DEF NoOp, Places, InCall, Answers
  <1>2. InCall \subseteq Places
    BY DEF Places
  <1>3. ASSUME Ends(s)
        PROVE  /\ pc' \in [Sessions -> Places] /\ pc'[s] \notin InCall
               /\ op' \in [Sessions -> [nonce : Nonces \cup {Nobody}, at : Nat]]
               /\ holder' \in Sessions \cup {Nobody}
               /\ \A t \in Sessions \ {s} : pc'[t] = pc[t] /\ op'[t] = op[t]
    BY <1>1, <1>3 DEF Shape, Ends, Goto
  <1>4. ASSUME NEW n \in Nonces, NEW at \in Nat, NEW place \in InCall, GoesOn(s, n, at, place)
        PROVE  /\ pc' \in [Sessions -> Places] /\ pc'[s] = place /\ op'[s].nonce = n
               /\ op' \in [Sessions -> [nonce : Nonces \cup {Nobody}, at : Nat]]
               /\ holder' \in Sessions \cup {Nobody}
               /\ \A t \in Sessions \ {s} : pc'[t] = pc[t] /\ op'[t] = op[t]
    <2>1. place \in Places
      BY <1>2
    <2>2. [nonce |-> n, at |-> at] \in [nonce : Nonces \cup {Nobody}, at : Nat]
      OBVIOUS
    <2> QED BY <1>4, <2>1, <2>2 DEF Shape, GoesOn, Goto
  <1> QED BY <1>3, <1>4

LEMMA SubmitPrepareHolds ==
  ASSUME HInv, NEW s \in Sessions, NEW n \in Nonces, SubmitPrepare(s, n) PROVE HInv'
  <1> DEFINE view == Prepare(mem[s], n, now)
  <1>1. /\ Shape /\ mem[s] \in Views /\ Holds(mem[s]) /\ now \in Nat \ {0}
    BY DEF HInv, Shape, Reserves
  <1>2. view \in Views /\ Holds(view) /\ Phase(view, n) = "prepared"
    BY <1>1, PrepareHolds
  <1>3. Writes(s, view) /\ GoesOn(s, n, now, "prepared") /\ UNCHANGED <<prior, rail, now>>
    BY DEF SubmitPrepare
  <1> HIDE DEF view
  <1>4. "prepared" \in InCall
    BY DEF InCall
  <1> QED BY <1>1, <1>2, <1>3, <1>4, CallSteps, SaveHolds

LEMMA MarkStepHolds ==
  ASSUME HInv, NEW s \in Sessions, NEW n \in Nonces, NEW at \in Nat, Mark(s, n, at),
         UNCHANGED <<prior, rail, now>>, Phase(mem[s], n) \in {"prepared", "indeterminate"}
  PROVE  HInv'
  <1> DEFINE marked == MarkSubmitted(mem[s], n, at)
  <1>1. Shape /\ mem[s] \in Views /\ Holds(mem[s])
    BY DEF HInv, Shape, Reserves
  <1>2. marked \in Views /\ Holds(marked) /\ Phase(marked, n) = "submitted"
    BY <1>1, MarkHolds
  <1>3. \/ Writes(s, marked) /\ GoesOn(s, n, at, "submitted")
        \/ WriteFails(s, marked) /\ Ends(s)
    BY DEF Mark
  <1> HIDE DEF marked
  <1>4. "submitted" \in InCall
    BY DEF InCall
  <1>5. CASE Writes(s, marked) /\ GoesOn(s, n, at, "submitted")
    BY <1>1, <1>2, <1>4, <1>5, CallSteps, SaveHolds
  <1>6. CASE WriteFails(s, marked) /\ Ends(s)
    BY <1>1, <1>2, <1>6, CallSteps, SaveHolds
  <1> QED BY <1>3, <1>5, <1>6

LEMMA SubmitMarkHolds ==
  ASSUME HInv, NEW s \in Sessions, SubmitMark(s) PROVE HInv'
  <1>1. pc[s] = "prepared" /\ Mark(s, op[s].nonce, op[s].at) /\ UNCHANGED <<prior, rail, now>>
    BY DEF SubmitMark
  <1>2. pc[s] \in InCall
    BY <1>1 DEF InCall
  <1>3. op[s].nonce \in Nonces /\ op[s].at \in Nat /\ Phase(mem[s], op[s].nonce) = "prepared"
    BY <1>1, <1>2 DEF HInv, Shape, Reserves, AtRow
  <1> QED BY <1>1, <1>3, MarkStepHolds

LEMMA RailSubmitHolds ==
  ASSUME HInv, NEW s \in Sessions, NEW answer \in Answers, RailSubmit(s, answer) PROVE HInv'
  <1>1. /\ pc[s] = "submitted" /\ pc' = [pc EXCEPT ![s] = answer]
        /\ rail' \in {rail, [rail EXCEPT ![op[s].nonce] = Append(@, now)]}
        /\ UNCHANGED <<disk, mem, agrees, op, prior, agreed, holder, now>>
    BY DEF RailSubmit, Goto, Moves
  <1>2. AtRow(s) /\ Shape /\ Reserves /\ answer \in Places /\ answer # "prepared"
    BY <1>1 DEF HInv, Reserves, InCall, Places, Answers
  <1>3. rail' \in [Nonces -> Seq(Nat)]
    <2>1. Append(rail[op[s].nonce], now) \in Seq(Nat)
      BY <1>2 DEF AtRow, Shape
    <2> QED BY <1>1, <1>2, <2>1 DEF AtRow, Shape
  <1>4. Shape'
    BY <1>1, <1>2, <1>3 DEF Shape
  <1>5. pc'[s] = answer /\ \A t \in Sessions \ {s} : pc'[t] = pc[t]
    BY <1>1, <1>2 DEF Shape
  <1>6. AtRow(s)'
    BY <1>1, <1>2, <1>5 DEF AtRow
  <1>7. Holds(disk') /\ Holds(mem'[s]) /\ (prior'[s] # NoPrior => Holds(prior'[s]))
    BY <1>1, <1>2 DEF Reserves
  <1> QED BY <1>1, <1>4, <1>5, <1>6, <1>7, HoldsOn

LEMMA RecordHolds ==
  ASSUME HInv, NEW s \in Sessions, Record(s) PROVE HInv'
  <1> DEFINE n == op[s].nonce
             view == AfterAnswer(mem[s], n, pc[s])
  <1>1. /\ pc[s] \in Answers /\ (Writes(s, view) \/ WriteFails(s, view)) /\ Ends(s)
        /\ UNCHANGED <<prior, rail, now>>
    BY DEF Record
  <1>2. pc[s] \in InCall /\ pc[s] # "prepared"
    BY <1>1 DEF InCall, Answers
  <1>3. Shape /\ mem[s] \in Views /\ Holds(mem[s]) /\ n \in Nonces /\ Phase(mem[s], n) = "submitted"
    BY <1>2 DEF HInv, Shape, Reserves, AtRow
  <1>4. Phase(mem[s], n) \in HeldPhases /\ "indeterminate" \in HeldPhases
    BY <1>3 DEF HeldPhases
  <1> HIDE DEF n
  <1>5. view \in Views /\ Holds(view)
    BY <1>1, <1>3, <1>4, SettleHolds, GiveUpHolds, KeepOpenHolds DEF AfterAnswer, Answers
  <1> HIDE DEF view
  <1> QED BY <1>1, <1>3, <1>5, CallSteps, SaveHolds

LEMMA ResolveHolds ==
  ASSUME HInv, NEW s \in Sessions, NEW n \in Nonces, NEW from, NEW to,
         ResolveIndeterminate(s, n, from, to)
  PROVE  HInv'
  <1> DEFINE view == IF Hit(n, from, to) THEN Settle(mem[s], n) ELSE GiveUp(mem[s], n)
  <1>1. /\ pc[s] = "idle" /\ Phase(mem[s], n) \in HeldPhases
        /\ Writes(s, view) \/ WriteFails(s, view)
        /\ UNCHANGED <<pc, op, prior, holder, rail, now>>
    BY DEF ResolveIndeterminate, Phase, Ready, HeldPhases
  <1>2. Shape /\ mem[s] \in Views /\ Holds(mem[s])
    BY DEF HInv, Shape, Reserves
  <1>3. view \in Views /\ Holds(view)
    BY <1>1, <1>2, SettleHolds, GiveUpHolds
  <1> HIDE DEF view
  <1>4. pc'[s] \notin InCall
    BY <1>1 DEF InCall, Answers
  <1> QED BY <1>1, <1>2, <1>3, <1>4, SaveHolds DEF Shape

LEMMA SpendStepHolds ==
  ASSUME HInv, NEW s \in Sessions, NEW n \in Nonces, Spend(s, n) PROVE HInv'
  <1> DEFINE view == CutReceipt(Reserve(mem[s], n, now), n, "ledger")
  <1>1. pc[s] = "idle" /\ Writes(s, view) /\ UNCHANGED <<pc, op, prior, holder, rail, now>>
    BY DEF Spend, Ready
  <1>2. Shape /\ mem[s] \in Views /\ Holds(mem[s]) /\ now \in Nat \ {0}
    BY DEF HInv, Shape, Reserves
  <1>3. view \in Views /\ Holds(view)
    BY <1>2, SpendHolds
  <1> HIDE DEF view
  <1>4. pc'[s] \notin InCall
    BY <1>1 DEF InCall, Answers
  <1> QED BY <1>1, <1>2, <1>3, <1>4, SaveHolds DEF Shape

(* Loading, recovery, stops and the clock.                                 *)
LEMMA LoadHolds ==
  ASSUME HInv, NEW s \in Sessions, Start(s) \/ Reload(s) \/ Fingerprint(s) PROVE HInv'
  <1>1. Shape /\ Reserves
    BY DEF HInv
  <1>2. /\ pc' = [pc EXCEPT ![s] = IF pc[s] = "loaded" THEN "stamped" ELSE "loaded"]
        /\ mem' \in {mem, [mem EXCEPT ![s] = disk]}
        /\ prior' \in {prior, [prior EXCEPT ![s] = mem[s]]}
        /\ agrees' \in {agrees, agrees \cup {s}} /\ agreed' \in {agreed, agreed \cup {s}}
        /\ UNCHANGED <<disk, op, holder, rail, now>>
    BY DEF Start, Reload, Fingerprint, Goto
  <1>3. {"stamped", "loaded"} \subseteq Places \ InCall
    BY DEF Places, InCall, Answers
  <1>4. Shape'
    <2>1. mem' \in [Sessions -> Views]
      BY <1>1, <1>2 DEF Shape
    <2>2. pc' \in [Sessions -> Places]
      BY <1>1, <1>2, <1>3 DEF Shape
    <2>3. prior' \in [Sessions -> Views \cup {NoPrior}]
      BY <1>1, <1>2 DEF Shape
    <2>4. agrees' \subseteq Sessions /\ agreed' \subseteq Sessions
      BY <1>1, <1>2 DEF Shape
    <2> QED BY <1>1, <1>2, <2>1, <2>2, <2>3, <2>4 DEF Shape
  <1>5. /\ mem'[s] \in {mem[s], disk} /\ prior'[s] \in {prior[s], mem[s]} /\ pc'[s] \notin InCall
        /\ \A t \in Sessions \ {s} : mem'[t] = mem[t] /\ prior'[t] = prior[t]
                                     /\ pc'[t] = pc[t] /\ op'[t] = op[t]
    BY <1>1, <1>2, <1>3 DEF Shape
  <1>6. Holds(disk') /\ Holds(mem'[s]) /\ (prior'[s] # NoPrior => Holds(prior'[s]))
    BY <1>1, <1>2, <1>5 DEF Reserves
  <1> QED BY <1>4, <1>5, <1>6, HoldsOn

LEMMA RecoverJournalHolds ==
  ASSUME HInv, NEW s \in Sessions, RecoverJournal(s) PROVE HInv'
  <1> DEFINE view == Recovered(mem[s])
  <1>1. Shape /\ Reserves /\ mem[s] \in Views /\ Holds(mem[s])
    BY DEF HInv, Shape, Reserves
  <1>2. view \in Views /\ Holds(view)
    BY <1>1, RecoveredHolds
  <1>3. /\ prior' = [prior EXCEPT ![s] = NoPrior] /\ pc' = [pc EXCEPT ![s] = "idle"]
        /\ UNCHANGED <<op, holder, rail, now>>
        /\ \/ UNCHANGED <<disk, mem, agrees>> /\ agreed' = agreed \ {s}
           \/ Writes(s, view)
    BY DEF RecoverJournal, Goto
  <1> HIDE DEF view
  <1>4. "idle" \in Places /\ "idle" \notin InCall
    BY DEF Places, InCall, Answers
  <1>5. /\ pc' \in [Sessions -> Places] /\ pc'[s] = "idle" /\ prior'[s] = NoPrior
        /\ prior' \in [Sessions -> Views \cup {NoPrior}]
        /\ \A t \in Sessions \ {s} : pc'[t] = pc[t] /\ op'[t] = op[t] /\ prior'[t] = prior[t]
    BY <1>1, <1>3, <1>4 DEF Shape
  <1>6. CASE UNCHANGED <<disk, mem, agrees>> /\ agreed' = agreed \ {s}
    <2>1. Shape'
      BY <1>1, <1>3, <1>5, <1>6 DEF Shape
    <2>2. Holds(disk') /\ Holds(mem'[s])
      BY <1>1, <1>6 DEF Reserves
    <2> QED BY <1>4, <1>5, <1>6, <2>1, <2>2, HoldsOn
  <1>7. CASE Writes(s, view)
    BY <1>1, <1>2, <1>3, <1>4, <1>5, <1>7, SaveHolds DEF Shape
  <1> QED BY <1>3, <1>6, <1>7

LEMMA PutBackHolds ==
  ASSUME HInv, NEW s \in Sessions, RecoverFails(s) \/ Crash(s) PROVE HInv'
  <1>1. Shape /\ Reserves /\ Holds(EmptyView) /\ EmptyView \in Views
    BY EmptyHolds, EmptyIsView DEF HInv
  <1>2. /\ \/ mem' = [mem EXCEPT ![s] = EmptyView] /\ pc' = [pc EXCEPT ![s] = "down"]
           \/ /\ prior[s] # NoPrior
              /\ mem' = [mem EXCEPT ![s] = prior[s]] /\ pc' = [pc EXCEPT ![s] = "idle"]
        /\ prior' = [prior EXCEPT ![s] = NoPrior] /\ op' \in {op, [op EXCEPT ![s] = NoOp]}
        /\ agrees' \subseteq agrees \cup agreed /\ agreed' = agreed \ {s}
        /\ holder' \in {holder, Nobody}
        /\ UNCHANGED <<disk, rail, now>>
    <2>1. CASE RecoverFails(s)
      BY <2>1 DEF RecoverFails, Goto
    <2>2. CASE Crash(s)
      BY <2>2 DEF Crash, Goto
    <2> QED BY <2>1, <2>2
  <1>3. {"down", "idle"} \subseteq Places \ InCall /\ NoOp \in [nonce : Nonces \cup {Nobody}, at : Nat]
    BY DEF Places, InCall, Answers, NoOp
  <1>4. Shape'
    <2>1. mem' \in [Sessions -> Views]
      BY <1>1, <1>2 DEF Shape
    <2>2. pc' \in [Sessions -> Places] /\ prior' \in [Sessions -> Views \cup {NoPrior}]
      BY <1>1, <1>2, <1>3 DEF Shape
    <2>3. op' \in [Sessions -> [nonce : Nonces \cup {Nobody}, at : Nat]]
      BY <1>1, <1>2, <1>3 DEF Shape
    <2>4. agrees' \subseteq Sessions /\ agreed' \subseteq Sessions /\ holder' \in Sessions \cup {Nobody}
      BY <1>1, <1>2 DEF Shape
    <2> QED BY <1>1, <1>2, <2>1, <2>2, <2>3, <2>4 DEF Shape
  <1>5. /\ mem'[s] = EmptyView \/ (prior[s] # NoPrior /\ mem'[s] = prior[s])
        /\ prior'[s] = NoPrior /\ pc'[s] \notin InCall
        /\ \A t \in Sessions \ {s} : mem'[t] = mem[t] /\ prior'[t] = prior[t]
                                     /\ pc'[t] = pc[t] /\ op'[t] = op[t]
    BY <1>1, <1>2, <1>3 DEF Shape
  <1>6. Holds(disk') /\ Holds(mem'[s])
    BY <1>1, <1>2, <1>5 DEF Reserves
  <1> QED BY <1>4, <1>5, <1>6, HoldsOn

LEMMA NextHolds ==
  ASSUME HInv, [Next]_vars PROVE HInv'
  <1>1. ASSUME NEW s \in Sessions, Proceed(s) PROVE HInv'
    BY <1>1, SubmitMarkHolds, RailSubmitHolds, RecordHolds, LoadHolds, RecoverJournalHolds,
       PutBackHolds DEF Proceed
  <1>2. ASSUME NEW s \in Sessions, NEW n \in Nonces,
               \/ SubmitPrepare(s, n) \/ RetryIndeterminate(s, n) \/ Spend(s, n)
               \/ \E from \in 0..now, to \in 1..now : ResolveIndeterminate(s, n, from, to)
        PROVE  HInv'
    <2>1. CASE RetryIndeterminate(s, n)
      <3>1. Phase(mem[s], n) = "indeterminate" /\ Mark(s, n, now) /\ UNCHANGED <<prior, rail, now>>
        BY <2>1 DEF RetryIndeterminate
      <3>2. now \in Nat
        BY DEF HInv, Shape
      <3> QED BY <3>1, <3>2, MarkStepHolds
    <2> QED BY <1>2, <2>1, SubmitPrepareHolds, SpendStepHolds, ResolveHolds
  <1>3. ASSUME NEW s \in Sessions, Start(s) \/ Reload(s) \/ Crash(s) PROVE HInv'
    BY <1>3, LoadHolds, PutBackHolds
  <1>4. CASE Tick \/ UNCHANGED vars
    <2>1. UNCHANGED <<disk, mem, agrees, pc, op, prior, agreed, holder, rail>> /\ now' \in {now, now + 1}
      BY <1>4 DEF Tick, vars
    <2>2. Shape'
      BY <2>1 DEF HInv, Shape
    <2>3. Reserves'
      BY <2>1 DEF HInv, Reserves, AtRow
    <2> QED BY <2>2, <2>3 DEF HInv
  <1> QED BY <1>1, <1>2, <1>3, <1>4 DEF Next

LEMMA InitHolds == Init => HInv
  <1>1. Init => Shape
    BY InitInv DEF IInv
  <1>2. "down" \notin InCall
    BY DEF InCall, Answers
  <1>3. Init => Reserves
    BY <1>2, EmptyHolds DEF Init, Reserves
  <1> QED BY <1>1, <1>3 DEF HInv

(* release and recoverJournal: the window's count, in the file and in any  *)
(* view that can be saved over it, covers every external payment reserved  *)
(* in that window and not given back, however the window rolled between    *)
(* the reserve and its return.  Nothing is assumed of the loads or the     *)
(* rail's clock.                                                           *)
THEOREM SessionReserveHeld == Spec => []ReserveHeld
  <1>1. HInv => ReserveHeld
    BY DEF HInv, Reserves, Holds, ReserveHeld, Live
  <1>2. HInv /\ [Next]_vars => HInv'
    BY NextHolds
  <1> QED BY <1>1, <1>2, InitHolds, PTL DEF Spec
=============================================================================
