--------------------------- MODULE SignedReceipts ---------------------------
(***************************************************************************)
(* The Spend Receipt of receipts/src/index.ts: how it is signed, verified  *)
(* with and without a pin, hashed, and countersigned by the payee.  What a *)
(* signer returns is a set: none of anything when it throws.               *)
(***************************************************************************)
EXTENDS ClaimSets

(* The claims by their types; payee and currency are text as payer is.     *)
ReceiptClaims ==
  [payer |-> Texts, amount |-> Amounts, policyHash |-> Hashes,
   manifestHash |-> OrNull(Hashes), noManifest |-> Flags,
   x402PaymentRef |-> OrNull(Texts), timestampMs |-> Numbers, nonce |-> Nonces,
   prevReceiptHash |-> OrNull(Hashes), outcome |-> {"settled", "aborted"}]

ClaimsToCbor(claims) == When(CborEncodable(claims, {}), Payload(claims))
ClaimsFromCbor(payload) == ReadClaims(ReceiptClaims, payload)

FlagMatchesHash(claims) == claims.noManifest = Flag(claims.manifestHash = "null")

AssertClaimConsistency(claims) ==
  /\ FlagMatchesHash(claims)
  /\ claims.outcome \in {"settled", "aborted"}
  /\ claims.outcome = "settled" => claims.x402PaymentRef # "null"
  /\ IsValidAmount(claims.amount)
  /\ claims.nonce \in {"long", "long2"}
  /\ HashClaimHolds(claims.policyHash, FALSE)
  /\ HashClaimHolds(claims.manifestHash, TRUE)
  /\ HashClaimHolds(claims.prevReceiptHash, TRUE)

-----------------------------------------------------------------------------
(* Signing.                                                                *)

(* The adversary's and the tests' helper: whatever can be encoded.         *)
SignReceiptUnchecked(claims, key) ==
  UNION {{WithSignature(Presented(claims, key, octets), octets.signature) :
            octets \in SignCoseSign1(payload, key, "receipt")} :
         payload \in ClaimsToCbor(claims)}

SignReceiptCose(claims, key) ==
  IF AssertClaimConsistency(claims) THEN SignReceiptUnchecked(claims, key) ELSE {}

(* The deprecated encoding: a signature over the canonical JSON.           *)
SignReceiptJson(claims, key) ==
  When(CanSign(key) /\ AssertClaimConsistency(claims) /\ JcsEncodable(claims),
       WithSignature([Presented(claims, key, None) EXCEPT !.encoding = "json", !.coseHex = Missing],
                     <<key, claims>>))

-----------------------------------------------------------------------------
(* Verifying.  A document without a member a verifier reads makes it throw *)
(* where it does not ask first; either way it is not verified.             *)

ReceiptOctetsVerify(signed, keyText) ==
  /\ Has(signed.coseHex)
  /\ FlagMatchesHash(signed.claims)
  /\ LET octets == BufferFromHex(signed.coseHex)
     IN  /\ VerifyCoseSign1(octets, keyText, "receipt")
         /\ \E decoded \in ClaimsFromCbor(octets.payload) :
              SameCanonical(decoded, signed.claims)

VerifyReceiptCose(signed, pin) ==
  CarriesPinned(signed, pin) /\ ReceiptOctetsVerify(signed, signed.publicKeyPem)

VerifyReceipt(signed, pin) == signed.encoding = "cose" /\ VerifyReceiptCose(signed, pin)

(* The carried key is not asked.                                           *)
VerifyReceiptUnderPin(signed, pin) ==
  signed.encoding = "cose" /\ ReceiptOctetsVerify(signed, pin)

VerifyReceiptJson(signed, pin) ==
  /\ CarriesPinned(signed, pin)
  /\ FlagMatchesHash(signed.claims)
  /\ Has(signed.signature) /\ IsRewrittenSame(signed.signature)
  /\ JcsEncodable(signed.claims)
  /\ signed.signature.signature = <<CreatePublicKey(signed.publicKeyPem), signed.claims>>

(* SHA-256 of the octets, or of the claims and the signature's text.       *)
ReceiptHash(signed) ==
  IF signed.encoding = "cose" /\ Has(signed.coseHex) THEN BufferFromHex(signed.coseHex)
  ELSE [claims |-> signed.claims, signature |-> signed.signature]

-----------------------------------------------------------------------------
(* The countersignature binds the octets of the receipt, and the hash of   *)
(* what was delivered when the payee states one.                           *)

DeliveredHashes == Optional(Hashes)

CounterSigned(signed, payee, delivered) ==
  LET payload == [fault |-> None, claims |->
                    [receiptCose |-> BufferFromHex(signed.coseHex), deliveredHash |-> delivered]]
  IN  {[signed EXCEPT !.counterCoseHex = Hex(octets), !.payeePublicKeyPem = Pem(payee)] :
         octets \in SignCoseSign1(payload, payee, "countersign")}

(* Mutant of CounterSign: the receipt is not verified first.               *)
CounterSignUnread(signed, payee, pin, delivered) ==
  IF Has(signed.coseHex) /\ (delivered = "absent" \/ HashClaimHolds(delivered, FALSE))
  THEN CounterSigned(signed, payee, delivered) ELSE {}

CounterSign(signed, payee, pin, delivered) ==
  IF VerifyReceipt(signed, pin) /\ (delivered = "absent" \/ HashClaimHolds(delivered, FALSE))
  THEN CounterSigned(signed, payee, delivered) ELSE {}

(* The claims of the payload that are there to read.                       *)
CounterClaims(signed) ==
  LET octets == BufferFromHex(signed.counterCoseHex)
  IN  IF ~Has(signed.counterCoseHex) THEN {}
      ELSE When(Sign1Refusal(octets) = None /\ octets.payload.fault = None,
                octets.payload.claims)

CountersignDeliveredHashHex(signed) ==
  {claims.deliveredHash : claims \in
     {c \in CounterClaims(signed) : IsValidHashText(c.deliveredHash)}}

VerifyCounterSignature(signed, payee) ==
  /\ signed.encoding = "cose"
  /\ Has(signed.counterCoseHex) /\ Has(signed.coseHex)
  /\ VerifyCoseSign1(BufferFromHex(signed.counterCoseHex), payee, "countersign")
  /\ \E claims \in CounterClaims(signed) : claims.receiptCose = BufferFromHex(signed.coseHex)
==============================================================================
