-------------------------- MODULE SignedStatements --------------------------
(***************************************************************************)
(* The other documents signed as COSE_Sign1: the Decision Record and the   *)
(* Decision Token of core/src, the epoch checkpoint of checkpoint/src and  *)
(* the Trade Manifest of manifest/src.                                     *)
(***************************************************************************)
EXTENDS ClaimSets

SignAs(claims, optional, key, contentType) ==
  UNION {{Presented(claims, key, octets) : octets \in SignCoseSign1(payload, key, contentType)} :
         payload \in When(CborEncodable(claims, optional), Payload(claims))}

PayloadOf(signed) == BufferFromHex(signed.coseHex).payload

(* The octets verify, and what they decode to is the claims beside them.   *)
OctetsSay(signed, keyText, contentType, decoded) ==
  /\ Has(signed.coseHex)
  /\ VerifyCoseSign1(BufferFromHex(signed.coseHex), keyText, contentType)
  /\ \E claims \in decoded : SameCanonical(claims, signed.claims)

-----------------------------------------------------------------------------
(* Decision Record.  The subject and the reason are text as the decider    *)
(* is; the policy's hash is held to the request's grammar, the hash of the *)
(* record before to that of the inputs.                                    *)

DecisionRecordClaims ==
  [decider |-> Texts, requestHash |-> Hashes, inputsHash |-> OrNull(Hashes),
   decision |-> {"allow", "deny", "defer"}, ref |-> OrNull(Texts),
   effectHash |-> OrNull(Hashes), timestampMs |-> Numbers,
   effectClass |-> OrNull(Texts)]

DecisionRecordFromCbor(payload) == ReadClaims(DecisionRecordClaims, payload)

(* What an allow names: the row, the effect and its class.  A refusal      *)
(* binds to the absence of a row, never to a hash.                         *)
NamesItsEffect(claims) ==
  IF claims.decision = "allow"
  THEN /\ claims.ref \notin {"null", "empty"}
       /\ claims.effectHash # "null"
       /\ claims.effectClass \notin {"null", "empty"}
  ELSE claims.effectHash = "null"

AssertDecisionRecordClaims(claims) ==
  /\ claims.decision \in {"allow", "deny", "defer"}
  /\ HashClaimHolds(claims.requestHash, FALSE)
  /\ HashClaimHolds(claims.inputsHash, TRUE)
  /\ HashClaimHolds(claims.effectHash, TRUE)
  /\ claims.timestampMs \in Numbers \ {"minus"}
  /\ NamesItsEffect(claims)

SignDecisionRecord(claims, key) ==
  IF AssertDecisionRecordClaims(claims) THEN SignAs(claims, {}, key, "decision-record") ELSE {}

(* Mutant of ReadDecisionRecord: the signer is trusted with the rules.     *)
ReadDecisionRecordTrusting(payload) == DecisionRecordFromCbor(payload)

(* The decider is the party under audit: its rules are applied again.      *)
ReadDecisionRecord(payload) ==
  {decoded \in DecisionRecordFromCbor(payload) : AssertDecisionRecordClaims(decoded)}

(* A pin replaces the carried key.                                         *)
VerifyDecisionRecord(signed, pin) ==
  LET keyText == IF Has(pin) THEN pin ELSE signed.publicKeyPem
  IN  Has(keyText) /\ OctetsSay(signed, keyText, "decision-record", ReadDecisionRecord(PayloadOf(signed)))

-----------------------------------------------------------------------------
(* Decision Token: its nonce and single-use id are text, its policy's hash *)
(* is held to the request's grammar.                                       *)

DecisionTokenClaims == [requestHash |-> Hashes, expiryMs |-> Numbers, nonce |-> Texts]
DecisionTokenFromCbor(payload) == ReadClaims(DecisionTokenClaims, payload)

SignDecisionToken(claims, key) ==
  IF HashClaimHolds(claims.requestHash, FALSE) THEN SignAs(claims, {}, key, "decision") ELSE {}

(* Mutant of VerifyDecisionToken: it has expired when the moment comes.    *)
VerifyDecisionTokenEarly(signed, now, pin) ==
  /\ CarriesPinned(signed, pin)
  /\ OctetsSay(signed, signed.publicKeyPem, "decision", DecisionTokenFromCbor(PayloadOf(signed)))
  /\ NumberOf[signed.claims.expiryMs] > now

VerifyDecisionToken(signed, now, pin) ==
  /\ CarriesPinned(signed, pin)
  /\ OctetsSay(signed, signed.publicKeyPem, "decision", DecisionTokenFromCbor(PayloadOf(signed)))
  /\ NumberOf[signed.claims.expiryMs] >= now

-----------------------------------------------------------------------------
(* Checkpoint.  Its totals are a map from text to text, or withheld.       *)

CheckpointClaimTypes ==
  [epoch |-> Numbers, chainHeadHash |-> OrNull(Hashes), totals |-> OrNull({"t1", "t2"})]
CheckpointFromCbor(payload) == ReadClaims(CheckpointClaimTypes, payload)

SignCheckpoint(claims, key) ==
  IF HashClaimHolds(claims.chainHeadHash, TRUE)
  THEN SignAs(claims, {}, key, "checkpoint") ELSE {}

VerifyCheckpoint(signed, pin) ==
  /\ CarriesPinned(signed, pin)
  /\ OctetsSay(signed, signed.publicKeyPem, "checkpoint", CheckpointFromCbor(PayloadOf(signed)))

VerifyCheckpointUnderPin(signed, pin) == OctetsSay(signed, pin, "checkpoint", CheckpointFromCbor(PayloadOf(signed)))

-----------------------------------------------------------------------------
(* Trade Manifest.  The mandate's label is always written; the payee's is  *)
(* written when there is one.                                              *)

ManifestClaims ==
  [description |-> Texts, amount |-> Amounts, acceptanceCriteriaHash |-> Hashes,
   expiresAtMs |-> Numbers, ap2MandateHash |-> OrNull(Hashes), payee |-> Optional(Texts)]

ManifestToCbor(body) ==
  LET written == [body EXCEPT
                    !.ap2MandateHash = IF @ = "absent" THEN "null" ELSE @,
                    !.payee = IF @ \in Texts \cup {"surrogate"} THEN @ ELSE "absent"]
  IN  When(CborEncodable(written, {"payee"}), Payload(written))

(* A mandate that was null comes back as no member at all.                 *)
ManifestFromCbor(payload) ==
  {[claims EXCEPT !.ap2MandateHash = IF @ = "null" THEN "absent" ELSE @] :
     claims \in ReadClaims(ManifestClaims, payload)}

SignManifest(body, key) ==
  IF /\ IsValidAmountText(body.amount)
     /\ HashClaimHolds(body.acceptanceCriteriaHash, FALSE)
     /\ body.ap2MandateHash = "absent" \/ HashClaimHolds(body.ap2MandateHash, TRUE)
  THEN UNION {{WithSignature(Presented(body, key, octets), octets.signature) :
                 octets \in SignCoseSign1(payload, key, "manifest")} :
              payload \in ManifestToCbor(body)}
  ELSE {}

VerifyManifest(signed, pin) ==
  /\ CarriesPinned(signed, pin)
  /\ OctetsSay(signed, signed.publicKeyPem, "manifest", ManifestFromCbor(PayloadOf(signed)))
=============================================================================
