--------------------------- MODULE SignedDocuments ---------------------------
(***************************************************************************)
(* A document on its way from its signer to whoever reads it: signed by    *)
(* the signer the package offers, or by one that skips its rules, changed  *)
(* in what travels beside the signed octets or in the octets themselves,   *)
(* countersigned before or after, and read.                                *)
(***************************************************************************)
EXTENDS PresentedForm

CONSTANTS Issuer,      \* whose documents these are
          Payee,       \* who countersigns receipts
          Stranger,    \* another with a key of the profile's type
          Weak,        \* one with a key of another type
          MaxChanges     \* how many parts of one document are changed

ASSUME PartiesAssumption ==
  {Issuer, Payee, Stranger} \subseteq Ed25519Keys /\ Weak \in OtherKeys

VARIABLES kind,        \* the kind of document
          issued,      \* documents as they left a signer
          approvals,   \* what the payee put a countersignature under
          shown,       \* the document as it is presented now
          touched      \* the parts of it that were changed

docVars == <<kind, issued, approvals, shown, touched>>

Kinds == {"receipt", "decision", "token", "checkpoint", "manifest", "rail", "effect"}
FormKind == [receipt |-> "spend", decision |-> "decision", checkpoint |-> "checkpoint",
             manifest |-> "manifest", rail |-> "extract", effect |-> "extract"]
HasForm(k) == k \in DOMAIN FormKind
IsExtract(k) == k \in {"rail", "effect"}

Table(k) ==
  CASE k = "receipt" -> ReceiptClaims
    [] k = "decision" -> DecisionRecordClaims
    [] k = "token" -> DecisionTokenClaims
    [] k = "checkpoint" -> CheckpointClaimTypes
    [] k = "manifest" -> ManifestClaims
    [] k = "rail" -> RailBody
    [] k = "effect" -> EffectBody

-----------------------------------------------------------------------------
(* Claims to sign.                                                         *)

With(k, changes) ==
  [c \in DOMAIN Table(k) \cup {"unlisted"} |->
     IF c \in DOMAIN changes THEN changes[c] ELSE "absent"]

BasesOf(k) ==
  CASE k = "receipt" ->
         {With(k, [payer |-> "a", amount |-> "1", policyHash |-> "h1", manifestHash |-> "h1",
                   noManifest |-> "false", x402PaymentRef |-> "a", timestampMs |-> "n1",
                   nonce |-> "long", prevReceiptHash |-> "null", outcome |-> "settled"]),
          With(k, [payer |-> "a", amount |-> "1", policyHash |-> "h1", manifestHash |-> "null",
                   noManifest |-> "true", x402PaymentRef |-> "null", timestampMs |-> "n1",
                   nonce |-> "long", prevReceiptHash |-> "h1", outcome |-> "aborted"])}
    [] k = "decision" ->
         {With(k, [decider |-> "a", requestHash |-> "h1", inputsHash |-> "null",
                   decision |-> "allow", ref |-> "a", effectHash |-> "h1",
                   timestampMs |-> "n1", effectClass |-> "a"]),
          With(k, [decider |-> "a", requestHash |-> "h1", inputsHash |-> "h1",
                   decision |-> "deny", ref |-> "null", effectHash |-> "null",
                   timestampMs |-> "n1", effectClass |-> "null"])}
    [] k = "token" -> {With(k, [requestHash |-> "h1", expiryMs |-> "n1", nonce |-> "a"])}
    [] k = "checkpoint" -> {With(k, [epoch |-> "n1", chainHeadHash |-> "h1", totals |-> "t1"])}
    [] k = "manifest" ->
         {With(k, [description |-> "a", amount |-> "1", acceptanceCriteriaHash |-> "h1",
                   expiresAtMs |-> "n1", ap2MandateHash |-> "h1", payee |-> "a"]),
          With(k, [description |-> "a", amount |-> "1", acceptanceCriteriaHash |-> "h1",
                   expiresAtMs |-> "n1"])}
    [] k = "rail" ->
         {With(k, [accountId |-> "a", windowStartMs |-> "n0", windowEndMs |-> "n2",
                   settlements |-> "one", ref |-> "a", amount |-> "1", timestampMs |-> "n1"]),
          With(k, [accountId |-> "a", windowStartMs |-> "n0", windowEndMs |-> "n2",
                   settlements |-> "none", clockSkewMs |-> "n1"])}
    [] k = "effect" ->
         {With(k, [deciderId |-> "a", channelId |-> "a", windowStartMs |-> "n0",
                   windowEndMs |-> "n2", effects |-> "one", ref |-> "a", effectHash |-> "h1",
                   effectClass |-> "a", timestampMs |-> "n1"])}

Bases == [k \in Kinds |-> BasesOf(k)]

(* One claim says something else, or nothing a claim may say.              *)
OneChanged(k, claims) ==
  {[claims EXCEPT !["unlisted"] = "a"]}
  \cup UNION {{[claims EXCEPT ![c] = v] : v \in Table(k)[c] \cup Stray} : c \in DOMAIN Table(k)}

Variants == [k \in Kinds |-> UNION {OneChanged(k, base) : base \in BasesOf(k)}]

WellTyped(k, claims) ==
  claims.unlisted = "absent" /\ \A c \in DOMAIN Table(k) : claims[c] \in Table(k)[c]

-----------------------------------------------------------------------------
(* Signers.                                                                *)

Sign(k, claims, key) ==
  CASE k = "receipt" -> SignReceiptCose(claims, key)
    [] k = "decision" -> SignDecisionRecord(claims, key)
    [] k = "token" -> SignDecisionToken(claims, key)
    [] k = "checkpoint" -> SignCheckpoint(claims, key)
    [] k = "manifest" -> SignManifest(claims, key)
    [] k = "rail" -> SignRailExtract(claims, key)
    [] k = "effect" -> SignEffectExtract(claims, key)

ContentType(k) == IF k = "decision" THEN "decision-record" ELSE IF k = "token" THEN "decision" ELSE k

(* A signer of one's own writes any claims under any key, and shows what a *)
(* reader makes of them where one can be made.                             *)
SignOwn(k, claims, key) ==
  LET payload == [fault |-> None, claims |-> claims]
      header == ProtectedHeader(ContentType(k), key)
      signature == <<key, SigStructure(header, payload)>>
      octets == Message(header, payload, signature)
      read == IF HasForm(k) THEN DecodeClaims(FormKind[k], payload)
              ELSE DecisionTokenFromCbor(payload)
      seen == IF read = {} THEN claims ELSE CHOOSE c \in read : TRUE
  IN  IF IsExtract(k) THEN When(JcsEncodable(claims), Extract(claims, key))
      ELSE When(\A c \in DOMAIN claims : claims[c] \notin {"surrogate", "fraction"},
                IF k \in {"receipt", "manifest"}
                THEN WithSignature(Presented(seen, key, octets), signature)
                ELSE Presented(seen, key, octets))

Leave(by, how, doc) == [by |-> by, how |-> how, doc |-> doc]

(* What is about already: another document of the issuer, countersigned    *)
(* when it is a receipt, and one of a stranger.                            *)
Earlier(k, key) ==
  LET base == CHOOSE b \in Bases[k] : TRUE
      claims == CASE k = "checkpoint" -> [base EXCEPT !.epoch = "n2"]
                  [] IsExtract(k) -> [base EXCEPT !.windowStartMs = "minus"]
                  [] k = "receipt" -> [base EXCEPT !.nonce = "long2"]
                  [] k = "token" -> [base EXCEPT !.nonce = "b"]
                  [] k = "decision" -> [base EXCEPT !.requestHash = "h2"]
                  [] k = "manifest" -> [base EXCEPT !.description = "b"]
  IN  UNION {IF k = "receipt" THEN CounterSign(doc, Payee, Pem(key), "h1") ELSE {doc} :
             doc \in Sign(k, claims, key)}

Pool(k) == {Leave(Issuer, "earlier", doc) : doc \in Earlier(k, Issuer)}
           \cup {Leave(Stranger, "earlier", doc) : doc \in Earlier(k, Stranger)}

Approval(by, pin, doc, delivered) ==
  [by |-> by, pin |-> pin, octets |-> BufferFromHex(doc.coseHex), delivered |-> delivered]

DocInit ==
  /\ kind \in Kinds
  /\ issued = Pool(kind)
  /\ approvals = IF kind = "receipt"
                 THEN {Approval(Payee, Pem(d.by), d.doc, "h1") : d \in issued} ELSE {}
  /\ shown = Missing
  /\ touched = {}

NothingShown == shown = Missing

Show(by, how, doc) ==
  /\ issued' = issued \cup {Leave(by, how, doc)}
  /\ shown' = doc
  /\ UNCHANGED <<kind, approvals, touched>>

IssueSigned ==
  /\ NothingShown
  /\ \E key \in {Issuer, Weak}, claims \in Variants[kind] :
       \E doc \in Sign(kind, claims, key) : Show(key, "signer", doc)

IssueJson ==
  /\ NothingShown /\ kind = "receipt"
  /\ \E claims \in Variants[kind] :
       \E doc \in SignReceiptJson(claims, Issuer) : Show(Issuer, "json", doc)

IssueUnchecked ==
  /\ NothingShown
  /\ \E claims \in Variants[kind] :
       \E doc \in SignOwn(kind, claims, Issuer) : Show(Issuer, "own", doc)

IssueWeak ==
  /\ NothingShown
  /\ \E claims \in Bases[kind] :
       \E doc \in SignOwn(kind, claims, Weak) : Show(Weak, "own", doc)

IssueLedger ==
  /\ NothingShown /\ kind = "rail"
  /\ \E row \in Bases[kind] :
       \E doc \in SignedLedger(row, Issuer) : Show(Issuer, "ledger", doc)

CounterSigns ==
  /\ kind = "receipt" /\ shown # Missing /\ "counterCoseHex" \notin touched
  /\ ~Has(shown.counterCoseHex)
  /\ \E pin \in {Missing, Pem(Issuer)}, delivered \in DeliveredHashes :
       \E doc \in CounterSign(shown, Payee, pin, delivered) :
         /\ shown' = doc
         /\ approvals' = approvals \cup {Approval(Payee, pin, shown, delivered)}
  /\ UNCHANGED <<kind, issued, touched>>

-----------------------------------------------------------------------------
(* Changes on the way.                                                     *)

OtherDocs == {d.doc : d \in {e \in issued : e.how = "earlier"}}

(* A document whose claims keep every rule may be changed in more places.  *)
Room ==
  \/ touched = {}
  \/ /\ Cardinality(touched) < MaxChanges
     /\ shown.claims \in Bases[kind] \cup {d.claims : d \in OtherDocs}

Change(part, values) ==
  /\ shown # Missing
  /\ part \notin touched /\ Room
  /\ \E value \in values \ {shown[part]} : shown' = [shown EXCEPT ![part] = value]
  /\ touched' = touched \cup {part}
  /\ UNCHANGED <<kind, issued, approvals>>

ChangeClaims ==
  Change("claims", {d.claims : d \in OtherDocs}
                   \cup IF touched = {} /\ shown.claims \in Bases[kind]
                        THEN OneChanged(kind, shown.claims) ELSE {})

ChangeSignature ==
  Change("signature",
         {Missing} \cup {d.signature : d \in OtherDocs}
         \cup IF Has(shown.signature)
              THEN {[shown.signature EXCEPT !.spelling = s] : s \in Base64Spellings} ELSE {})

ChangeKey ==
  Change("publicKeyPem",
         {Missing, Pem(Stranger)} \cup {[key |-> Issuer, spelling |-> s] : s \in KeySpellings})

ChangeEncoding == ~IsExtract(kind) /\ Change("encoding", {"json", "missing"})

OctetsChanged(octets) ==
  {[octets EXCEPT !.fault = f] : f \in {"cose-sign1-length", "cbor-non-deterministic"}}
  \cup {[octets EXCEPT !.unprotected = "kid"]}
  \cup {[octets EXCEPT !.header.crit = TRUE], [octets EXCEPT !.header.alg = "EdDSA"],
        [octets EXCEPT !.header.kid = KidFromPublicKey(Stranger)],
        [octets EXCEPT !.payload.fault = "cbor-too-deep"]}
  \cup UNION {{[octets EXCEPT !.payload = d.coseHex.octets.payload],
               [octets EXCEPT !.signature = d.coseHex.octets.signature]} : d \in OtherDocs}

ChangeOctets ==
  /\ ~IsExtract(kind)
  /\ Change("coseHex",
            {Missing} \cup {d.coseHex : d \in OtherDocs}
            \cup IF ~Has(shown.coseHex) THEN {}
                 ELSE {[shown.coseHex EXCEPT !.spelling = s] : s \in HexSpellings}
                      \cup {Hex(octets) : octets \in OctetsChanged(shown.coseHex.octets)})

ChangeCounter ==
  /\ kind = "receipt"
  /\ Change("counterCoseHex",
            {Missing} \cup {d.counterCoseHex : d \in OtherDocs}
            \cup IF ~Has(shown.counterCoseHex) THEN {}
                 ELSE {[shown.counterCoseHex EXCEPT !.spelling = s] : s \in HexSpellings}
                      \cup {Hex([shown.counterCoseHex.octets EXCEPT !.unprotected = "kid"])})

ChangePayeeKey ==
  kind = "receipt" /\ Change("payeePublicKeyPem", {Missing, Pem(Stranger), Pem(Payee)})

AddUnlisted == Change("unlisted", {Pem(Stranger)})

DocNext ==
  \/ IssueSigned \/ IssueJson \/ IssueUnchecked \/ IssueWeak \/ IssueLedger
  \/ CounterSigns
  \/ ChangeClaims \/ ChangeSignature \/ ChangeKey \/ ChangeEncoding \/ ChangeOctets
  \/ ChangeCounter \/ ChangePayeeKey \/ AddUnlisted

DocSpec == DocInit /\ [][DocNext]_docVars

-----------------------------------------------------------------------------
(* Readers.                                                                *)

Verify(k, doc, pin) ==
  CASE k = "receipt" -> VerifyReceipt(doc, pin)
    [] k = "decision" -> VerifyDecisionRecord(doc, pin)
    [] k = "token" -> VerifyDecisionToken(doc, NumberOf.n1, pin)
    [] k = "checkpoint" -> VerifyCheckpoint(doc, pin)
    [] k = "manifest" -> VerifyManifest(doc, pin)
    [] k = "rail" -> VerifyRailExtract(doc, pin)
    [] k = "effect" -> VerifyEffectExtract(doc, pin)

VerifyUnderPin(k, doc, pin) ==
  CASE k = "receipt" -> VerifyReceiptUnderPin(doc, pin)
    [] k = "checkpoint" -> VerifyCheckpointUnderPin(doc, pin)
    [] OTHER -> Verify(k, doc, pin)

Attested(key) == shown # Missing /\ VerifyUnderPin(kind, shown, Pem(key))

(* What a document is counted, linked and anchored by.                     *)
Identity(k, doc) ==
  CASE k = "receipt" -> ReceiptHash(doc)
    [] IsExtract(k) -> doc.claims
    [] OTHER -> BufferFromHex(doc.coseHex)
-----------------------------------------------------------------------------
(* Properties.                                                             *)

AcceptedUnder(key) ==
  /\ shown # Missing
  /\ \/ Verify(kind, shown, Pem(key)) \/ VerifyUnderPin(kind, shown, Pem(key))
     \/ kind = "receipt" /\ shown.encoding = "json" /\ VerifyReceiptJson(shown, Pem(key))

(* Whatever was changed in it or beside it, a document that is accepted    *)
(* under a key says what the owner of that key signed, and is the one that *)
(* was signed: it has the hash the owner's own copy has, by which chains   *)
(* link to it, countersignatures approve it and the log records it; and    *)
(* the key of a COSE message is of the type its header names               *)
(* (verifyReceipt and its kin; an extract has no header).                  *)
VerifiedIsSigned ==
  \A key \in Ed25519Keys \cup OtherKeys :
    AcceptedUnder(key) =>
      /\ IsExtract(kind) \/ key \in Ed25519Keys
      /\ \E d \in issued : /\ d.by = key
                           /\ d.doc.claims = shown.claims
                           /\ Identity(kind, d.doc) = Identity(kind, shown)

(* A countersignature that verifies under the payee's key was made over    *)
(* this receipt, states the delivery the payee stated, and, when the payee *)
(* held the issuer's key, the issuer had signed it (counterSign,           *)
(* verifyCounterSignature, countersignDeliveredHashHex).                   *)
ApprovalIsOfThisReceipt ==
  shown # Missing /\ VerifyCounterSignature(shown, Pem(Payee)) =>
    \E a \in approvals :
      /\ a.octets = ReceiptHash(shown)
      /\ CountersignDeliveredHashHex(shown) = {a.delivered} \ {"absent"}
      /\ Has(a.pin) => \E d \in issued : /\ Pem(d.by) = a.pin
                                         /\ BufferFromHex(d.doc.coseHex) = a.octets

(* A document in the presented form that verifies under a pin is, but for  *)
(* the carried keys and the countersignature, the very document that left  *)
(* the signer, member for member: nothing beside the octets is left to     *)
(* rewrite, and no second spelling of them.  The base64 of an extract has  *)
(* spare bits that nothing reads (checkPresentedForm).                     *)
FormAndPinLeaveNothingUnsigned ==
  \A key \in Ed25519Keys :
    HasForm(kind) /\ Attested(key) /\ InForm(FormKind[kind], shown) =>
      \E d \in issued :
        /\ d.by = key
        /\ \A m \in {"claims", "encoding", "coseHex", "unlisted"} : shown[m] = d.doc[m]
        /\ IsExtract(kind) \/ shown.signature = d.doc.signature

(* Where the party under audit is also the signer, its own signer is not   *)
(* trusted with the rules: a Decision Record or an extract that verifies   *)
(* is one the package's signer would have signed (verifyDecisionRecord,    *)
(* verifyRailExtract, verifyEffectExtract).                                *)
RulesOutliveTheSigner ==
  \A key \in Ed25519Keys :
    kind \in {"decision", "rail", "effect"} /\ Attested(key)
      => Sign(kind, shown.claims, key) # {}

Unchanged(how) == \E d \in issued : d.how = how /\ d.doc = shown /\ touched = {}

Accepted(doc, key) ==
  /\ Verify(kind, doc, Pem(key)) /\ VerifyUnderPin(kind, doc, Pem(key))
  /\ HasForm(kind) => InForm(FormKind[kind], doc)

ExplicitNull == kind = "manifest" /\ shown.claims.ap2MandateHash = "null"
Expired == kind = "token" /\ NumberOf[shown.claims.expiryMs] < NumberOf.n1

(* What the package signs, from claims of their declared types, its own    *)
(* verifiers accept under the signer's key and find in the presented form; *)
(* a ledger's extract, of rows or of none, is never refused, and a token   *)
(* holds to the last millisecond of its expiry.  A manifest that spells    *)
(* its missing mandate as null is signed and never accepted: manifestToCbor*)
(* writes the null, manifestFromCbor reads back no member (ExplicitNull).  *)
SignedIsAccepted ==
  /\ shown # Missing /\ (Unchanged("signer") \/ Unchanged("ledger")) /\ ~ExplicitNull
       /\ WellTyped(kind, shown.claims) /\ ~Expired
     => Accepted(shown, Issuer)
  /\ shown # Missing /\ Unchanged("json") /\ WellTyped(kind, shown.claims)
     => VerifyReceiptJson(shown, Pem(Issuer)) /\ ~VerifyReceipt(shown, Pem(Issuer))
  /\ kind = "rail" => \A row \in Bases[kind] : SignedLedger(row, Issuer) # {}
=============================================================================
