------------------------------ MODULE CoseSign1 ------------------------------
(***************************************************************************)
(* COSE_Sign1 as cose/src/cose.ts writes and reads it: one protected       *)
(* header, an unprotected one that must be empty, a payload and an Ed25519 *)
(* signature over the first and the third.                                 *)
(*                                                                         *)
(* A key is a value of its own, a signature the term <<key, what was       *)
(* signed>> and the octets of a message the record of their parts, so two  *)
(* messages are the same octets when they are the same record.  Octets     *)
(* that are not such a message say why in their "fault".                   *)
(***************************************************************************)
EXTENDS Integers, FiniteSets, Sequences

CONSTANTS Ed25519Keys,   \* keys of the type the profile signs with
          OtherKeys      \* keys of another type, Ed448 for one

None == "none"

(* No key is of two types, and what is no key is none of them.             *)
ASSUME KeysAssumption ==
  Ed25519Keys \cap OtherKeys = {} /\ None \notin Ed25519Keys \cup OtherKeys

(* What a function returns: one thing, or none when it throws.             *)
When(condition, value) == IF condition THEN {value} ELSE {}

(* A member a document does not have.                                      *)
Missing == [missing |-> TRUE]
Has(member) == member # Missing

-----------------------------------------------------------------------------
(* Keys travel as text: a SubjectPublicKeyInfo PEM, the bare base64 of the *)
(* same octets, or text that is no key.                                    *)

Pem(key) == [key |-> key, spelling |-> "pem"]
KeySpellings == {"pem", "base64", "garbage"}

ToSpkiDer(text) == IF text.spelling = "garbage" THEN None ELSE text.key
SameSpkiKey(a, b) == ToSpkiDer(a) # None /\ ToSpkiDer(a) = ToSpkiDer(b)

(* crypto.createPublicKey reads PEM only.                                  *)
CreatePublicKey(text) == IF text.spelling = "pem" THEN text.key ELSE None
KidFromPublicKey(key) == key

(* A PEM pair signs only when it is of the profile's type.                 *)
CanSign(key) == key \in Ed25519Keys

-----------------------------------------------------------------------------
(* Messages.                                                               *)

ProtectedHeader(contentType, key) ==
  [fault |-> None, crit |-> FALSE, alg |-> "Ed25519", contentType |-> contentType,
   kid |-> KidFromPublicKey(key)]

SigStructure(header, payload) == <<"Signature1", header, payload>>

Message(header, payload, signature) ==
  [fault |-> None, unprotected |-> "", header |-> header, payload |-> payload,
   signature |-> signature]

SignCoseSign1(payload, key, contentType) ==
  LET header == ProtectedHeader(contentType, key)
  IN  When(CanSign(key), Message(header, payload, <<key, SigStructure(header, payload)>>))

(* Mutant of Sign1Refusal: an unprotected header is read past.             *)
Sign1RefusalDiscards(octets) == octets.fault

Sign1Refusal(octets) ==
  CASE octets.fault # None -> octets.fault
    [] octets.unprotected # "" -> "cose-sign1-unprotected"
    [] OTHER -> None

(* A label that is critical is none of those the profile understands.      *)
HeaderRefusal(header) ==
  CASE header.fault # None -> header.fault
    [] header.crit -> "cose-protected-header"
    [] OTHER -> None

VerifyCoseSign1(octets, keyText, contentType) ==
  LET key == CreatePublicKey(keyText)
  IN  /\ Sign1Refusal(octets) = None
      /\ HeaderRefusal(octets.header) = None
      /\ octets.header.alg = "Ed25519"
      /\ key \in Ed25519Keys
      /\ octets.header.kid = KidFromPublicKey(key)
      /\ octets.header.contentType = contentType
      /\ octets.signature = <<key, SigStructure(octets.header, octets.payload)>>

(* The refusals a reader is told by name; any other failure to read is no  *)
(* more than a signature that did not verify.                              *)
NamedDecodeRefusals ==
  {"cbor-too-large", "cbor-too-deep", "cbor-duplicate-key", "cbor-non-deterministic",
   "cbor-invalid-text", "cose-sign1-unprotected"}

CoseDecodeRefusal(octets) ==
  LET why == CASE Sign1Refusal(octets) # None -> Sign1Refusal(octets)
               [] HeaderRefusal(octets.header) # None -> HeaderRefusal(octets.header)
               [] OTHER -> octets.payload.fault
  IN  IF why \in NamedDecodeRefusals THEN why ELSE None

-----------------------------------------------------------------------------
(* The hexadecimal text octets travel as.  Buffer.from stops at the first  *)
(* character it cannot read and takes either case, so "upper" and "tailed" *)
(* are the same octets to it; hexToBytes takes one spelling only.          *)

Hex(octets) == [octets |-> octets, spelling |-> "lower"]
HexSpellings == {"lower", "upper", "tailed"}
BufferFromHex(hex) == hex.octets
IsLowercaseHex(hex) == hex.spelling = "lower"

CoseDecodeRefusalHex(hex) ==
  IF Has(hex) /\ IsLowercaseHex(hex) THEN CoseDecodeRefusal(hex.octets) ELSE None
==============================================================================
