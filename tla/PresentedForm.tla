---------------------------- MODULE PresentedForm ----------------------------
(***************************************************************************)
(* checkPresentedForm of audit/src/presented-form.ts for one signed        *)
(* object: where what travels beside the signed octets departs from the    *)
(* form it is presented in.  Form only: no key is asked whether it signed. *)
(***************************************************************************)
EXTENDS SignedReceipts, SignedStatements, SignedExtracts

Required(kind, encoding) ==
  CASE kind = "spend" -> {"claims", "signature", "publicKeyPem", "encoding"}
                           \cup (IF encoding = "cose" THEN {"coseHex"} ELSE {})
    [] kind \in {"decision", "checkpoint"} -> {"claims", "publicKeyPem", "encoding", "coseHex"}
    [] kind = "manifest" -> {"claims", "signature", "publicKeyPem", "encoding", "coseHex"}
    [] kind = "extract" -> {"claims", "signature", "publicKeyPem"}

Allowed(kind) ==
  Required(kind, "cose") \cup (IF kind = "spend" THEN {"counterCoseHex", "payeePublicKeyPem"}
                                                 ELSE {})

Members == {"claims", "signature", "publicKeyPem", "encoding", "coseHex", "counterCoseHex",
            "payeePublicKeyPem", "unlisted"}

HasMember(obj, m) == IF m = "encoding" THEN obj.encoding \in {"cose", "json"} ELSE Has(obj[m])

(* A number that is not finite is what the form calls a wrong type; what   *)
(* no JSON text carries is left out.                                       *)
DecodeClaims(kind, payload) ==
  CASE kind = "spend" -> ClaimsFromCbor(payload)
    [] kind = "decision" -> DecisionRecordFromCbor(payload)
    [] kind = "checkpoint" -> CheckpointFromCbor(payload)
    [] kind = "manifest" -> ManifestFromCbor(payload)

IsSpkiPem(text) == text.spelling = "pem"

MemberProblems(kind, obj) ==
  {<<m, "unlisted-member">> : m \in {n \in Members \ Allowed(kind) : HasMember(obj, n)}}
  \cup {<<m, "missing-member">> : m \in {n \in Required(kind, obj.encoding) : ~HasMember(obj, n)}}

TextProblems(kind, obj) ==
  LET listed(m) == m \in Allowed(kind) /\ HasMember(obj, m)
  IN  {<<m, "not-padded-base64">> :
         m \in {n \in {"signature"} : listed(n) /\ ~IsPaddedBase64(obj[n])}}
      \cup {<<m, "not-spki-pem">> :
         m \in {n \in {"publicKeyPem", "payeePublicKeyPem"} : listed(n) /\ ~IsSpkiPem(obj[n])}}
      \cup {<<m, "bad-encoding">> :
         m \in {n \in {"encoding"} : listed(n) /\ obj.encoding # "cose"}}

HexMembers(kind, obj) ==
  {m \in {"coseHex", "counterCoseHex"} : m \in Allowed(kind) /\ HasMember(obj, m)}

HexProblem(hex) ==
  IF ~IsLowercaseHex(hex) THEN "not-lowercase-hex" ELSE CoseDecodeRefusalHex(hex)

HexProblems(kind, obj) ==
  {<<m, HexProblem(obj[m])>> :
     m \in {n \in HexMembers(kind, obj) : HexProblem(obj[n]) # None}}

CoseReady(kind, obj) ==
  "coseHex" \in HexMembers(kind, obj) /\ HexProblem(obj.coseHex) = None

ClaimsMatch(kind, obj, octets) ==
  /\ Sign1Refusal(octets) = None
  /\ \E decoded \in DecodeClaims(kind, octets.payload) : SameCanonical(decoded, obj.claims)

(* Mutant of SignatureMatches: the copy beside the octets is not compared. *)
SignatureMatchesAny(kind, obj, octets) == TRUE

(* Only a receipt and a manifest repeat the signature beside the octets.   *)
SignatureMatches(kind, obj, octets) ==
  \/ kind \notin {"spend", "manifest"}
  \/ Sign1Refusal(octets) # None
  \/ ~HasMember(obj, "signature") \/ ~IsPaddedBase64(obj.signature)
  \/ obj.signature = Base64(octets.signature)

OctetProblems(kind, obj) ==
  IF ~CoseReady(kind, obj) THEN {}
  ELSE LET octets == obj.coseHex.octets
       IN  When(~ClaimsMatch(kind, obj, octets), <<"claims", "claims-mismatch">>)
           \cup When(~SignatureMatches(kind, obj, octets), <<"signature", "signature-mismatch">>)

CheckSignedObject(kind, obj) ==
  MemberProblems(kind, obj) \cup TextProblems(kind, obj) \cup HexProblems(kind, obj)
    \cup OctetProblems(kind, obj)

InForm(kind, obj) == CheckSignedObject(kind, obj) = {}
=============================================================================
