--------------------------- MODULE SignedExtracts ---------------------------
(***************************************************************************)
(* The Rail Extract of x402-adapter/src/rail.ts and the Effect Extract of  *)
(* effect-extract/src/effect.ts: a signature over the canonical JSON of a  *)
(* body whose shape both the signer and the verifier ask for.              *)
(*                                                                         *)
(* A body is flat here: it has no row or one, whose members are "ref",     *)
(* "amount" or "effectHash", "effectClass", "timestampMs", "beneficiary"   *)
(* or "actor", and "rowUnlisted"; with no row they are "absent".           *)
(***************************************************************************)
EXTENDS ClaimSets

Lists == {"none", "one"}
IsSafeInteger(value) == value \in Numbers
IsText(value) == value \in Texts \cup {"surrogate"}

(* The window is half open and holds at least one instant.                 *)
IsWindow(body) ==
  /\ IsSafeInteger(body.windowStartMs)
  /\ IsSafeInteger(body.windowEndMs)
  /\ NumberOf[body.windowStartMs] < NumberOf[body.windowEndMs]

RailBody ==
  [accountId |-> Texts, windowStartMs |-> Numbers, windowEndMs |-> Numbers,
   settlements |-> Lists, clockSkewMs |-> Optional(Numbers), ref |-> Texts,
   amount |-> Amounts, timestampMs |-> Numbers, beneficiary |-> Optional(Texts),
   rowUnlisted |-> Optional(Texts)]

SettlementHolds(body) ==
  /\ IsText(body.ref)
  /\ IsValidAmountText(body.amount)
  /\ IsSafeInteger(body.timestampMs)
  /\ body.beneficiary = "absent" \/ IsText(body.beneficiary)

(* Members beside the listed ones are free, and under the signature.       *)
RailExtractShapeHolds(body) ==
  /\ IsText(body.accountId)
  /\ IsWindow(body)
  /\ body.settlements \in Lists
  /\ body.settlements = "one" => SettlementHolds(body)
  /\ \/ body.clockSkewMs = "absent"
     \/ IsSafeInteger(body.clockSkewMs) /\ NumberOf[body.clockSkewMs] >= 0

EffectBody ==
  [deciderId |-> Texts, channelId |-> Texts, windowStartMs |-> Numbers,
   windowEndMs |-> Numbers, effects |-> Lists, ref |-> Texts, effectHash |-> Hashes,
   effectClass |-> Texts, timestampMs |-> Numbers, actor |-> Optional(Texts),
   rowUnlisted |-> Optional(Texts)]

IsFilledText(value) == IsText(value) /\ value # "empty"

EffectHolds(body) ==
  /\ body.rowUnlisted = "absent"
  /\ IsFilledText(body.ref)
  /\ IsValidHashText(body.effectHash)
  /\ IsFilledText(body.effectClass)
  /\ IsSafeInteger(body.timestampMs)
  /\ body.actor = "absent" \/ IsText(body.actor)
  /\ NumberOf[body.timestampMs] >= NumberOf[body.windowStartMs]
  /\ NumberOf[body.timestampMs] < NumberOf[body.windowEndMs]

(* No member is free here, in the body or in a row.                        *)
EffectExtractShapeHolds(body) ==
  /\ body.unlisted = "absent"
  /\ IsFilledText(body.deciderId)
  /\ IsFilledText(body.channelId)
  /\ IsWindow(body)
  /\ body.effects \in Lists
  /\ body.effects = "one" => EffectHolds(body)

-----------------------------------------------------------------------------
Extract(body, key) ==
  [Presented(body, key, None) EXCEPT !.signature = Base64(<<key, body>>),
                                     !.encoding = "missing", !.coseHex = Missing]

SignRailExtract(body, key) ==
  When(RailExtractShapeHolds(body) /\ CanSign(key) /\ JcsEncodable(body), Extract(body, key))

SignEffectExtract(body, key) ==
  When(EffectExtractShapeHolds(body) /\ CanSign(key) /\ JcsEncodable(body), Extract(body, key))

BodyVerifies(signed, pin) ==
  /\ CarriesPinned(signed, pin)
  /\ Has(signed.signature)
  /\ JcsEncodable(signed.claims)
  /\ signed.signature.signature = <<CreatePublicKey(signed.publicKeyPem), signed.claims>>

VerifyRailExtract(signed, pin) ==
  RailExtractShapeHolds(signed.claims) /\ BodyVerifies(signed, pin)

VerifyEffectExtract(signed, pin) ==
  EffectExtractShapeHolds(signed.claims) /\ BodyVerifies(signed, pin)

-----------------------------------------------------------------------------
(* The ledger's own extract: its window runs from the first row's time to  *)
(* the instant after the last one's; an empty ledger has the first instant *)
(* of all.  It states no skew.                                             *)

After(instant) == CHOOSE n \in Numbers : NumberOf[n] = NumberOf[instant] + 1

ExtractBodyOf(row, accountId) ==
  [row EXCEPT !.accountId = accountId,
     !.windowStartMs = IF row.settlements = "none" THEN "n0" ELSE row.timestampMs,
     !.windowEndMs = IF row.settlements = "none" THEN "n1" ELSE After(row.timestampMs),
     !.clockSkewMs = "absent"]

SignedLedger(row, key) == SignRailExtract(ExtractBodyOf(row, "a"), key)
=============================================================================
