---------------------------- MODULE PaymentGate ----------------------------
(***************************************************************************)
(* Settlement in process (x402-adapter/src/index.ts) over a policy engine: *)
(* gatedSettle and gatedSettleWithLedger, the guard around an agent's      *)
(* tools that calls the first (mcp-guard/src/index.ts), and the two paths  *)
(* that ask no engine, unguardedSettle and bypassRailOnly.  The engine's   *)
(* own callers go on beside it: PolicyEngine's steps are steps here.       *)
(*                                                                         *)
(* A call is one synchronous function and so one step.  The gate and the   *)
(* engine read two clocks, nowMs and req.nowMs, that the caller sets.      *)
(* Signed terms (a manifest) are known by their hash; signatures verify    *)
(* what was signed.  A refusal before the engine changes nothing and is    *)
(* not a step.  Callers leave req.manifestHash to the gate, as every       *)
(* caller in the repository does.                                          *)
(***************************************************************************)
EXTENDS PolicyEngine, Sequences

CONSTANTS Terms,       \* a manifest's hash -> what it says, the key it carries
                       \* and whether its signature is by that key
          NoManifest,  \* manifestHash: null
          AnyPayee,    \* terms that name no payee
          NoTrust,     \* manifestTrust: undefined
          Inputs,      \* what callers hand to the gate
          UngatedCalls, \* and what they hand past it, at which time
          Clocks,      \* req.nowMs and nowMs, as callers set them
          ShortNonces, \* nonces isValidNonce refuses
          MaxUngated   \* bound on the calls past the gate

GateInput ==
  [req : [nonce : STRING, amount : Int, payee : STRING, currency : STRING,
          tool : STRING, manifestHash : {NoManifest}],
   manifest : DOMAIN Terms \cup {NoManifest}, trust : STRING,
   header : BOOLEAN, encodes : BOOLEAN, ledgered : BOOLEAN]

ASSUME GateAssumption ==
  /\ DOMAIN Terms \subseteq STRING
  /\ \A hash \in DOMAIN Terms : Terms[hash].expiresAtMs \in Nat
  /\ NoManifest \in STRING \ DOMAIN Terms
  /\ NoTrust \in STRING
  /\ Inputs \subseteq GateInput
  /\ UngatedCalls \subseteq [in : GateInput, now : Times]
  /\ Clocks \subseteq Times \X Times
  /\ MaxUngated \in Nat

VARIABLES receipts,    \* every receipt signed, in order, with the decision (0: none)
                       \* and the caller's manifest key
          ledger,      \* RailLedger's rows
          ungated      \* how many calls went past the gate

gateVars == <<receipts, ledger, ungated>>
allVars == <<vars, gateVars>>

GateInit == Init /\ receipts = <<>> /\ ledger = <<>> /\ ungated = 0

Gated(nonce) == <<"x402", nonce>>
Bypass(nonce) == <<"bypass", nonce>>
Unguarded == <<"unguarded">>

-----------------------------------------------------------------------------
(* Checked against the key the caller holds; without one, against the key  *)
(* the manifest carries.                                                   *)
Verifies(hash, trust) ==
  /\ Terms[hash].signed
  /\ trust # NoTrust => Terms[hash].key = trust

Expired(hash, now) == now > Terms[hash].expiresAtMs

Describes(hash, req) ==
  /\ Terms[hash].amount = req.amount
  /\ Terms[hash].currency = req.currency
  /\ Terms[hash].payee \in {AnyPayee, req.payee}

PassesGate(in, now) ==
  /\ in.header
  /\ in.req.nonce \notin ShortNonces
  /\ in.manifest # NoManifest =>
       /\ in.trust # NoTrust
       /\ Verifies(in.manifest, in.trust)
       /\ ~Expired(in.manifest, now)
       /\ Describes(in.manifest, in.req)

(* The request the engine is asked about carries the terms.                *)
Presented(in) == [in.req EXCEPT !.manifestHash = in.manifest]

(* How the guard calls the gate for a spending tool: no key to check a     *)
(* manifest against, a header of its own, no ledger.                       *)
ToolCall(in) ==
  [in EXCEPT !.header = TRUE, !.trust = NoTrust, !.ledgered = FALSE]

Receipt(in, now, ref, under) ==
  [payee |-> in.req.payee, amount |-> in.req.amount,
   currency |-> in.req.currency, manifestHash |-> in.manifest,
   x402PaymentRef |-> ref, atMs |-> now, nonce |-> in.req.nonce,
   under |-> under, trust |-> in.trust]

Row(ref, req, now) ==
  [ref |-> ref, amount |-> req.amount, currency |-> req.currency, atMs |-> now]

-----------------------------------------------------------------------------
(* The engine is asked at the request's clock; the decision is consumed,   *)
(* and the receipt signed, at the gate's.                                  *)
Decides(in, at) ==
  /\ Reserved(Presented(in), at)
  /\ UNCHANGED <<decisions, ungated>>

Timely(at, now) == Unexpired([expiryMs |-> at + TtlMs], now)

(* gatedSettle and, for in.ledgered, gatedSettleWithLedger.                *)
GateSettles(in, at, now) ==
  /\ Decides(in, at)
  /\ Timely(at, now)
  /\ in.encodes
  /\ consumedDecisions' = consumedDecisions \cup {nextDecision}
  /\ spentOn' = [spentOn EXCEPT ![nextDecision] = @ + in.req.amount]
  /\ receipts' = Append(receipts,
       Receipt(in, now, Gated(in.req.nonce), nextDecision))
  /\ ledger' = IF in.ledgered
               THEN Append(ledger, Row(Gated(in.req.nonce), in.req, now))
               ELSE ledger

(* "decision-expired": the nonce and the room stay taken.                  *)
GateExpires(in, at, now) ==
  /\ Decides(in, at)
  /\ ~Timely(at, now)
  /\ UNCHANGED <<consumedDecisions, spentOn, receipts, ledger>>

(* Signing throws on a payer with no encoding, after the decision was      *)
(* consumed.                                                               *)
GateThrows(in, at, now) ==
  /\ Decides(in, at)
  /\ Timely(at, now)
  /\ ~in.encodes
  /\ consumedDecisions' = consumedDecisions \cup {nextDecision}
  /\ UNCHANGED <<spentOn, receipts, ledger>>

(* The engine refuses, having rolled the window or thrown.                 *)
GateRefuses(in, at) ==
  /\ EvaluateNoRoom(Presented(in), at) \/ EvaluateFault(Presented(in), at)
  /\ UNCHANGED gateVars

(* unguardedSettle: no policy, no expiry; the manifest's signature and     *)
(* terms all the same.                                                     *)
PassesUnguarded(in) ==
  /\ in.req.nonce \notin ShortNonces
  /\ in.manifest # NoManifest =>
       Verifies(in.manifest, in.trust) /\ Describes(in.manifest, in.req)

(* The row is written before the receipt is signed, so it stays if signing *)
(* throws.                                                                 *)
UnguardedSettle(in, now) ==
  /\ ungated < MaxUngated
  /\ PassesUnguarded(in)
  /\ ledger' = IF in.ledgered
               THEN Append(ledger, Row(Unguarded, in.req, now)) ELSE ledger
  /\ receipts' = IF in.encodes
                 THEN Append(receipts, Receipt(in, now, Unguarded, 0))
                 ELSE receipts
  /\ ungated' = ungated + 1
  /\ UNCHANGED vars

BypassRailOnly(in, now) ==
  /\ ungated < MaxUngated
  /\ ledger' = Append(ledger, Row(Bypass(in.req.nonce), in.req, now))
  /\ ungated' = ungated + 1
  /\ UNCHANGED <<vars, receipts>>

(* The calls that get as far as the engine; the others are refused and     *)
(* change nothing.                                                         *)
GateCalls ==
  {call \in [in : Inputs \cup {ToolCall(i) : i \in Inputs}, clock : Clocks] :
     PassesGate(call.in, call.clock[2])}

GateNext ==
  \/ Next /\ UNCHANGED gateVars
  \/ \E call \in GateCalls :
       \/ GateSettles(call.in, call.clock[1], call.clock[2])
       \/ GateExpires(call.in, call.clock[1], call.clock[2])
       \/ GateThrows(call.in, call.clock[1], call.clock[2])
       \/ GateRefuses(call.in, call.clock[1])
  \/ \E call \in UngatedCalls :
       \/ UnguardedSettle(call.in, call.now)
       \/ BypassRailOnly(call.in, call.now)

GateSpec == GateInit /\ [][GateNext]_allVars

-----------------------------------------------------------------------------
GatedReceipts == {k \in DOMAIN receipts : receipts[k].under # 0}
GatedRows == {k \in DOMAIN ledger : ledger[k].ref[1] = "x402"}

(* A receipt from the gate stands for authority that is held and used: its *)
(* decision is consumed and its reserve, for its nonce and its amount, is  *)
(* still on the books, whatever the journal released meanwhile; and no     *)
(* nonce has two of them.  With WindowCap the receipts keep the limits.    *)
ReceiptIsDecided ==
  \A k \in GatedReceipts :
    /\ receipts[k].under \in consumedDecisions
    /\ \E r \in reserves : /\ r.id = receipts[k].under
                           /\ r.nonce = receipts[k].nonce
                           /\ r.amount = receipts[k].amount
    /\ \A j \in GatedReceipts : receipts[j].nonce = receipts[k].nonce => j = k

(* gatedSettleWithLedger: what the rail reports of a gated payment is what *)
(* one receipt says, once; a refused or a failed settlement left no row.   *)
RowIsReceipted ==
  \A k \in GatedRows :
    /\ \A j \in GatedRows : ledger[j].ref = ledger[k].ref => j = k
    /\ \E j \in GatedReceipts :
         /\ receipts[j].x402PaymentRef = ledger[k].ref
         /\ receipts[j].amount = ledger[k].amount
         /\ receipts[j].currency = ledger[k].currency
         /\ receipts[j].atMs = ledger[k].atMs

(* "Terms that name a payee are terms for that payee": the manifest hash   *)
(* in a receipt, of either path, is that of signed terms for this payment; *)
(* from the gate, terms of the party the caller named, still in force.     *)
TermsAreAuthorised ==
  \A k \in DOMAIN receipts :
    LET r == receipts[k]
        m == Terms[r.manifestHash]
    IN r.manifestHash # NoManifest =>
         /\ m.signed
         /\ m.amount = r.amount /\ m.currency = r.currency
         /\ m.payee \in {AnyPayee, r.payee}
         /\ r.under # 0 => m.key = r.trust /\ r.atMs <= m.expiresAtMs

=============================================================================
