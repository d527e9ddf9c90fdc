------------------------------ MODULE ClaimSets ------------------------------
(***************************************************************************)
(* What may stand in the place of a claim, and the three grammars the      *)
(* boundaries share (core/src/types.ts, core/src/canonical.ts).            *)
(*                                                                         *)
(* A claim is one of a few values: two that are good, those its grammar    *)
(* refuses, and these, which every claim may be: "absent", "mistyped" (of  *)
(* another JSON type), "surrogate" (text that neither encoding can write)  *)
(* and "fraction" (a number JSON can write and CBOR cannot).  "unlisted"   *)
(* is a member beside the claims of the table.                             *)
(***************************************************************************)
EXTENDS CoseSign1

Texts == {"a", "b", "empty"}
Amounts == {"1", "2", "01"}
Hashes == {"h1", "h2", "H1"}
Nonces == {"long", "long2", "short"}
Numbers == {"n0", "n1", "n2", "minus"}
Flags == {"true", "false"}
OrNull(values) == values \cup {"null"}
Optional(values) == values \cup {"absent"}

Stray == {"absent", "mistyped", "surrogate", "fraction"}

Flag(b) == IF b THEN "true" ELSE "false"
NumberOf == [n0 |-> 0, n1 |-> 1, n2 |-> 2, minus |-> -1]

(* Null when the value is in the grammar, or null where it may be.         *)
IsValidHashText(value) == value \in {"h1", "h2"}
HashClaimHolds(value, nullable) == (value = "null" /\ nullable) \/ IsValidHashText(value)

(* One number, one spelling.  isValidAmount tests a number by its digits;  *)
(* isValidAmountText wants a string.                                       *)
IsValidAmount(value) == value \in {"1", "2", "mistyped"}
IsValidAmountText(value) == value \in {"1", "2"}

(* RFC 8785 has no encoding for text with a lone surrogate.                *)
JcsEncodable(claims) == \A c \in DOMAIN claims : claims[c] # "surrogate"

(* Two claim sets are one canonical text; one that has none is no other's. *)
SameCanonical(decoded, claims) == JcsEncodable(claims) /\ decoded = claims

(* What stands in the CBOR map of claims that may be left out: those that  *)
(* are, and nothing that is not in the table.  A value CBOR cannot write,  *)
(* a claim that is undefined among them, makes encodeCbor throw.           *)
CborEncodable(claims, optional) ==
  \A c \in DOMAIN claims \ {"unlisted"} :
    /\ claims[c] \notin {"surrogate", "fraction"}
    /\ claims[c] = "absent" => c \in optional

Payload(claims) == [fault |-> None, claims |-> [claims EXCEPT !["unlisted"] = "absent"]]

(* The claims a map decodes to under a table of types, none when a claim   *)
(* is missing or of another type.  Labels beside the table's are not read. *)
ReadClaims(table, payload) ==
  When(payload.fault = None /\ \A c \in DOMAIN table : payload.claims[c] \in table[c],
       [payload.claims EXCEPT !["unlisted"] = "absent"])

-----------------------------------------------------------------------------
(* The form the signers return: the claims beside the octets.              *)

Presented(claims, key, octets) ==
  [claims |-> claims, signature |-> Missing, publicKeyPem |-> Pem(key),
   encoding |-> "cose", coseHex |-> Hex(octets), counterCoseHex |-> Missing,
   payeePublicKeyPem |-> Missing, unlisted |-> Missing]

(* Base64 has the padded spelling of the writer, one without padding, and  *)
(* others whose spare bits are not zero; a reader of Node's takes all.     *)
Base64(signature) == [signature |-> signature, spelling |-> "padded"]
Base64Spellings == {"padded", "loose", "unpadded"}
IsPaddedBase64(text) == text.spelling \in {"padded", "loose"}
IsRewrittenSame(text) == text.spelling = "padded"

WithSignature(document, signature) == [document EXCEPT !.signature = Base64(signature)]

(* Whether the carried key is the one held out of band, if any is.         *)
CarriesPinned(document, pin) ==
  /\ Has(document.publicKeyPem)
  /\ Has(pin) => SameSpkiKey(document.publicKeyPem, pin)
==============================================================================
