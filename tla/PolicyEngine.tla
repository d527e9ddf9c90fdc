---------------------------- MODULE PolicyEngine ----------------------------
(***************************************************************************)
(* The policy engine (core/src/policy.ts, store.ts, decision-token.ts):    *)
(* evaluate, consumeDecision / consumeDecisionToken and release over one   *)
(* store.  Every call is handed a clock reading by its caller, and nothing *)
(* makes those readings increase: two servers, a corrected clock or a      *)
(* journal row written earlier all bring an older one.  So each action     *)
(* takes any reading of Times.                                             *)
(*                                                                         *)
(* Refusals that leave the store as it was are not steps.  The two that    *)
(* come after rollWindow can leave a rolled window behind and are          *)
(* EvaluateNoRoom.                                                         *)
(***************************************************************************)
EXTENDS PolicyRules, Totals

CONSTANTS Requests,           \* what callers may ask for
          Unencodable,        \* those of them canonical() throws on
          AllowedPayees, AllowedCurrencies, AllowedTools,
          NoList,             \* "no allow-list configured"
          NoTool,             \* a request that names no tool
          Times,              \* clock readings callers may bring
          SignsDecisions,     \* the engine was given issuer keys
          TtlMs,              \* issuerKeys.ttlMs
          MaxDecisions        \* bound on the decisions of one behaviour

(* Clock readings are positive: 0 is the store's mark for "no window yet". *)
ASSUME EngineAssumption ==
  /\ Requests \subseteq [nonce : STRING, amount : Int, payee : STRING,
                         currency : STRING, tool : STRING,
                         manifestHash : STRING]
  /\ Times \subseteq Nat \ {0}
  /\ SignsDecisions \in BOOLEAN
  /\ TtlMs \in Nat
  /\ MaxDecisions \in Nat

VARIABLES counters,           \* store.counters
          usedNonces,         \* store.usedNonces
          consumedDecisions,  \* store.consumedDecisions
          nextDecision,       \* PolicyEngine.nextDecision
          decisions,          \* decisions handed to callers and still held by them
          reserves,           \* what was taken and not given back
          windowNo,           \* how many windows have been opened
          spentOn             \* amount paid out under each decision

vars == <<counters, usedNonces, consumedDecisions, nextDecision,
          decisions, reserves, windowNo, spentOn>>

DecisionIds == 1..MaxDecisions

Init ==
  /\ counters = FreshCounters
  /\ usedNonces = {}
  /\ consumedDecisions = {}
  /\ nextDecision = 1
  /\ decisions = {}
  /\ reserves = {}
  /\ windowNo = 0
  /\ spentOn = [id \in DecisionIds |-> 0]

Listed(list, x) == list = NoList \/ x \in list

(* An allow-list of tools is not one a caller opts out of by naming none.  *)
InScope(req) ==
  /\ Listed(AllowedPayees, req.payee)
  /\ Listed(AllowedCurrencies, req.currency)
  /\ Listed(AllowedTools, req.tool)
  /\ AllowedTools # NoList => req.tool # NoTool

(* Mutant of Admissible: a nonce is not remembered.                        *)
AdmissibleAgain(req) ==
  /\ req.amount > 0
  /\ req.amount <= MaxAmount
  /\ InScope(req)

(* The checks evaluate makes before it looks at the window.                *)
Admissible(req) ==
  /\ req.nonce \notin usedNonces
  /\ req.amount > 0
  /\ req.amount <= MaxAmount
  /\ InScope(req)

(* What an allow takes from the store, whoever asks: the nonce, the room   *)
(* and a decision id.                                                      *)
Reserved(req, now) ==
  LET win == IF WindowIsOver(counters, now) THEN windowNo + 1 ELSE windowNo IN
  /\ nextDecision <= MaxDecisions
  /\ Admissible(req)
  /\ HasRoom(RollWindow(counters, now), req.amount)
  /\ req \notin Unencodable
  /\ counters' = Take(RollWindow(counters, now), req.amount)
  /\ usedNonces' = usedNonces \cup {req.nonce}
  /\ nextDecision' = nextDecision + 1
  /\ reserves' = reserves \cup
       {[id |-> nextDecision, nonce |-> req.nonce, amount |-> req.amount,
         atMs |-> now, win |-> win]}
  /\ windowNo' = win

EvaluateAllow(req, now) ==
  /\ Reserved(req, now)
  /\ decisions' = decisions \cup
       {[id |-> nextDecision, req |-> req, expiryMs |-> now + TtlMs]}
  /\ UNCHANGED <<consumedDecisions, spentOn>>

(* "velocity" and "limit-cumulative": the window was rolled all the same.  *)
EvaluateNoRoom(req, now) ==
  /\ Admissible(req)
  /\ ~HasRoom(RollWindow(counters, now), req.amount)
  /\ WindowIsOver(counters, now)
  /\ counters' = RollWindow(counters, now)
  /\ windowNo' = windowNo + 1
  /\ UNCHANGED <<usedNonces, consumedDecisions, nextDecision, decisions,
                 reserves, spentOn>>

(* The nonce, the room and the id are taken before requestHashOf, which    *)
(* throws on a string it cannot encode; failClosedEvaluate answers         *)
(* "engine-fault" and nothing is put back.                                 *)
EvaluateFault(req, now) ==
  /\ nextDecision <= MaxDecisions
  /\ Admissible(req)
  /\ HasRoom(RollWindow(counters, now), req.amount)
  /\ req \in Unencodable
  /\ counters' = Take(RollWindow(counters, now), req.amount)
  /\ usedNonces' = usedNonces \cup {req.nonce}
  /\ nextDecision' = nextDecision + 1
  /\ windowNo' = IF WindowIsOver(counters, now) THEN windowNo + 1 ELSE windowNo
  /\ UNCHANGED <<consumedDecisions, decisions, reserves, spentOn>>

(* A token is honoured up to and including its expiry, an unsigned         *)
(* decision for ever.                                                      *)
Unexpired(d, now) == SignsDecisions => d.expiryMs >= now

(* Mutant of Consume: the request hash is not compared.                    *)
ConsumeForAnyRequest(d, req, now) ==
  /\ d \in decisions
  /\ Unexpired(d, now)
  /\ req.amount > 0
  /\ d.id \notin consumedDecisions
  /\ consumedDecisions' = consumedDecisions \cup {d.id}
  /\ spentOn' = [spentOn EXCEPT ![d.id] = @ + req.amount]
  /\ UNCHANGED <<counters, usedNonces, nextDecision, decisions, reserves,
                 windowNo>>

(* d is presented with the request req; the request hash covers everything *)
(* in it but the clock.                                                    *)
Consume(d, req, now) ==
  /\ d \in decisions
  /\ Unexpired(d, now)
  /\ req.amount > 0
  /\ d.id \notin consumedDecisions
  /\ req = d.req
  /\ consumedDecisions' = consumedDecisions \cup {d.id}
  /\ spentOn' = [spentOn EXCEPT ![d.id] = @ + req.amount]
  /\ UNCHANGED <<counters, usedNonces, nextDecision, decisions, reserves,
                 windowNo>>

(* Called by the settlement journal for a reserve it holds.  The journal   *)
(* keeps the reserve and drops the decision, so a decision that is or can  *)
(* still be consumed is never released.                                    *)
Release(r) ==
  /\ r \in reserves
  /\ \E d \in decisions : d.id = r.id
  /\ r.id \notin consumedDecisions
  /\ usedNonces' = usedNonces \ {r.nonce}
  /\ counters' = GiveBack(counters, r.amount, r.atMs)
  /\ decisions' = {d \in decisions : d.id # r.id}
  /\ reserves' = reserves \ {r}
  /\ UNCHANGED <<consumedDecisions, nextDecision, windowNo, spentOn>>

Next ==
  \/ \E req \in Requests, now \in Times :
       \/ EvaluateAllow(req, now)
       \/ EvaluateNoRoom(req, now)
       \/ EvaluateFault(req, now)
  \/ \E d \in decisions, req \in Requests, now \in Times : Consume(d, req, now)
  \/ \E r \in reserves : Release(r)

Spec == Init /\ [][Next]_vars

-----------------------------------------------------------------------------
InWindow(w) == {r \in reserves : r.win = w}

Reserve == [id : Nat \ {0}, nonce : STRING, amount : Nat \ {0},
            atMs : Nat \ {0}, win : Nat]

(* The store and its history are well formed; in particular neither        *)
(* counter of the window ever goes below zero.                             *)
TypeOK ==
  /\ counters \in Counters
  /\ usedNonces \in SUBSET STRING
  /\ consumedDecisions \in SUBSET (Nat \ {0})
  /\ nextDecision \in Nat \ {0}
  /\ decisions \subseteq [id : Nat \ {0}, req : Requests, expiryMs : Nat]
  /\ reserves \in SUBSET Reserve
  /\ windowNo \in Nat
  /\ spentOn \in [DecisionIds -> Int]

(* policy.ts release: "taking it off would give the current window room it *)
(* never had".  Whatever order evaluations, releases and clock readings    *)
(* come in, the counters never count less than what was taken in this      *)
(* window and not given back.                                              *)
NoPhantomRoom ==
  /\ Cardinality(InWindow(windowNo)) <= counters.allowedCount
  /\ Total(InWindow(windowNo)) <= counters.allowedSum

(* What the two limits are for: in no window, the current one or an        *)
(* earlier one, do the payments authorised and not given back exceed       *)
(* maxPayments or add up to more than maxCumulative.                       *)
WindowCap ==
  \A w \in 0..windowNo :
    /\ Cardinality(InWindow(w)) <= MaxPayments
    /\ Total(InWindow(w)) <= MaxCumulative

(* A nonce stands for one reserve: evaluate refuses it while a reserve     *)
(* holds it, however often it was released and taken again, and a          *)
(* release of one payment does not free the nonce of another.              *)
OneReservePerNonce ==
  \A r \in reserves :
    /\ r.nonce \in usedNonces
    /\ \A s \in reserves : s.nonce = r.nonce => s = r

(* Money leaves only under a decision whose reserve is still held, once,   *)
(* and for exactly the amount reserved: not twice on one decision, not for *)
(* another request than the one it was given for.                          *)
PaidAsReserved ==
  \A id \in DecisionIds :
    spentOn[id] # 0 => \E r \in reserves : r.id = id /\ r.amount = spentOn[id]
=============================================================================
