------------------------------ MODULE AuditTrust ------------------------------
(***************************************************************************)
(* Whose word one audit takes (audit/src/index.ts, auditDetailed, spend    *)
(* profile): the extract of the rail, the receipts of the issuer, the      *)
(* manifest of the publisher and the countersignatures of the payee, each  *)
(* against the keys the verifier pins, or pins badly, or does not pin; and *)
(* what is left of the report's charges and of its guarantee.              *)
(*                                                                         *)
(* The signed octets of a document are the record of what was signed and   *)
(* by whom; what is shown beside them need not be the same.  The links     *)
(* between receipts, the checkpoints and the log are AuditEvidence's, the  *)
(* windows around this one AuditWindows'; the findings left out here could *)
(* only take more reports out of balance.                                  *)
(***************************************************************************)
EXTENDS Totals

CONSTANT MaxTampers   \* how many things are other than they should be

VARIABLES input,      \* what the verifier hands to the audit
          tampers     \* how many changes were made to it

trustVars == <<input, tampers>>

NoHash == [none |-> TRUE]        \* where a claim is null
Absent == [absent |-> TRUE]      \* a document that is not presented
IsPresented(document) == document # Absent
NotStated == -1
Finding(code, on) == [code |-> code, on |-> on]
FindingIf(broken, code, on) == IF broken THEN {Finding(code, on)} ELSE {}

-----------------------------------------------------------------------------
(* Pins.  A pin is a set of texts, of which some may be no key.            *)

Unstated == [stated |-> FALSE, keys |-> {}]
Pin(keys) == [stated |-> TRUE, keys |-> keys]
Garbage == "garbage"
Usable(pin) == pin.keys \ {Garbage}
IsUsable(pin) == Usable(pin) # {}
Unreadable(pin, on) ==
  FindingIf(pin.stated /\ (Garbage \in pin.keys \/ ~IsUsable(pin)), "trust-key-unreadable", on)

-----------------------------------------------------------------------------
(* Documents.                                                              *)

Receipt(by, claims) ==
  [octets |-> [by |-> by, kid |-> by, claims |-> claims], claims |-> claims, carries |-> by,
   counter |-> Absent, counterCarries |-> Garbage]
Manifest(by, body) == [octets |-> [by |-> by, body |-> body], body |-> body, carries |-> by]
RailExtract(by, body) == [by |-> by, signed |-> body, body |-> body, carries |-> by]

ReceiptVerifiesUnderPin(r, key) ==
  r.octets.by = key /\ r.octets.kid = key /\ r.claims = r.octets.claims
ReceiptVerifies(r) == ReceiptVerifiesUnderPin(r, r.carries)
ManifestVerifies(m, key) == m.carries = key /\ m.octets.by = key /\ m.body = m.octets.body
RailExtractVerifies(x, key) == x.carries = key /\ x.by = key /\ x.body = x.signed
CounterSignatureVerifies(r) ==
  /\ r.counter.by = r.counterCarries
  /\ r.counter.over = r.octets

-----------------------------------------------------------------------------
(* The extract, and whose rows are reconciled.                             *)

RailPin == input.pins.rail
Reconciled == IF IsPresented(input.extract) THEN input.extract.body.rows ELSE input.rows
ExtractVerifies == \E key \in Usable(RailPin) : RailExtractVerifies(input.extract, key)
ExtractRejected == IsPresented(input.extract) /\ IsUsable(RailPin) /\ ~ExtractVerifies

Within(at, body) == body.start <= at /\ at < body.end

ScopeMismatch ==
  LET body == input.extract.body
  IN  \/ \E row \in body.rows : ~Within(row.at, body)
      \/ /\ RailPin.stated
         /\ \/ input.pins.account \notin {"unstated", body.account}
            \/ input.pins.start # NotStated /\ body.start > input.pins.start
            \/ input.pins.end # NotStated /\ body.end < input.pins.end

ExtractFindings ==
  IF ~IsPresented(input.extract) THEN {}
  ELSE FindingIf(input.handed /\ input.rows # input.extract.body.rows,
                 "extract-settlement-mismatch", "extract")
       \cup FindingIf(ScopeMismatch, "extract-scope-mismatch", "extract")
       \cup Unreadable(RailPin, "extract")
       \cup FindingIf(ExtractRejected, "extract-key-mismatch", "extract")

ExtractWarnings ==
  IF ~IsPresented(input.extract) \/ ~RailPin.stated
  THEN {Finding("unauthenticated-extract", "extract")}
  ELSE FindingIf(NotStated \in {input.pins.start, input.pins.end}, "unstated-audit-window", "extract")
       \cup FindingIf(input.pins.account = "unstated", "unstated-audit-scope", "extract")
       \cup FindingIf(ExtractRejected, "settlement-comparison-skipped", "extract")

-----------------------------------------------------------------------------
(* The issuer.                                                             *)

IssuerPin == input.pins.issuer
AttestedByPins(r) == \E key \in Usable(IssuerPin) : ReceiptVerifiesUnderPin(r, key)
BelongsToPin(r) == r.carries \in Usable(IssuerPin) \/ r.octets.kid \in Usable(IssuerPin)

AttestedReceipts == IF IssuerPin.stated THEN {r \in input.receipts : AttestedByPins(r)} ELSE input.receipts
AcceptedReceipts == IF IsUsable(IssuerPin) THEN AttestedReceipts ELSE input.receipts
Foreign == {r \in input.receipts : ~AttestedByPins(r) /\ ~BelongsToPin(r)}

(* A receipt that carries the pinned key or names it, but does not verify  *)
(* under it, is walked so that the walk can say so.                        *)
ChainBreaks ==
  IF IsUsable(IssuerPin) THEN \E r \in input.receipts : BelongsToPin(r) /\ ~AttestedByPins(r)
  ELSE ~IssuerPin.stated /\ \E r \in input.receipts : ~ReceiptVerifies(r)

IssuerFindings ==
  Unreadable(IssuerPin, "issuer")
  \cup {Finding("issuer-key-mismatch", r.claims.nonce) : r \in IF IsUsable(IssuerPin) THEN Foreign ELSE {}}
  \cup FindingIf(ChainBreaks, "receipt-chain-break", "receipts")

IssuerWarnings ==
  FindingIf(~IssuerPin.stated /\ input.receipts # {}, "unauthenticated-issuer", "issuer")
  \cup {Finding("carried-key-mismatch", r.claims.nonce) :
          r \in {r \in AttestedReceipts : IssuerPin.stated /\ r.carries # r.octets.by}}

-----------------------------------------------------------------------------
(* The manifest.  Named is asked of what is presented, obeyed of what the  *)
(* verifier can vouch for, and nothing is read out of one it refused.      *)

PublisherPin == input.pins.manifest
(* Mutant of ManifestRejected: a refused manifest is read all the same.    *)
ManifestRejectedRead == FALSE
ManifestRejected ==
  /\ IsPresented(input.manifest) /\ IsUsable(PublisherPin)
  /\ ~\E key \in Usable(PublisherPin) : ManifestVerifies(input.manifest, key)

Names(r) == IsPresented(input.manifest) /\ r.claims.names = input.manifest.octets
Departs(claims, terms) ==
  \/ claims.amount # terms.amount
  \/ claims.payee # terms.payee
  \/ claims.at > terms.expires

TermsMismatches ==
  {Finding("manifest-terms-mismatch", r.claims.ref) :
     r \in {r \in AcceptedReceipts : /\ ~ManifestRejected
                             /\ Names(r)
                             /\ Departs(r.claims, input.manifest.body)}}

ManifestFindings ==
  (IF IsPresented(input.manifest) THEN Unreadable(PublisherPin, "manifest") ELSE {})
  \cup FindingIf(IsPresented(input.manifest) /\ IsUsable(PublisherPin)
                 /\ ~\E key \in Usable(PublisherPin) : ManifestVerifies(input.manifest, key),
                 "manifest-key-mismatch", "manifest")
  \cup (IF IsUsable(IssuerPin) THEN TermsMismatches ELSE {})

ManifestWarnings ==
  FindingIf(IsPresented(input.manifest) /\ ~PublisherPin.stated, "unauthenticated-manifest", "manifest")
  \cup FindingIf(IsPresented(input.manifest) /\ ~\E r \in input.receipts : Names(r),
                 "manifest-covers-no-receipt", "manifest")
  \cup (IF IsUsable(IssuerPin) THEN {} ELSE TermsMismatches)

-----------------------------------------------------------------------------
(* Countersignatures: verified under the key that travels with them, then  *)
(* that key held against the one pinned for the payee the receipt names.   *)

PinnedPayee(r) == r.claims.payee = "shop" /\ input.pins.payee.stated
Countersigned == {r \in AcceptedReceipts : IsPresented(r.counter)}

(* Mutant of Approved: the key that travels with it is enough.             *)
ApprovedByAnyKey == {r \in Countersigned : CounterSignatureVerifies(r) /\ PinnedPayee(r)}
Approved ==
  {r \in Countersigned : CounterSignatureVerifies(r) /\ PinnedPayee(r)
                         /\ r.counterCarries \in Usable(input.pins.payee)}

CountersignWarnings ==
  {Finding("countersign-bad", r.claims.nonce) : r \in {r \in Countersigned : ~CounterSignatureVerifies(r)}}
  \cup {Finding("countersign-key-mismatch", r.claims.nonce) :
          r \in {r \in Countersigned \ Approved : CounterSignatureVerifies(r) /\ PinnedPayee(r)}}
  \cup {Finding("countersign-missing", r.claims.nonce) :
          r \in {r \in AcceptedReceipts \ Approved : r.claims.settled /\ PinnedPayee(r)}}
  \cup FindingIf(\E r \in Countersigned : ~PinnedPayee(r),
                 "unauthenticated-countersigner", "countersigner")

DeliveryFindings ==
  {Finding("delivery-mismatch", r.claims.nonce) :
     r \in {r \in Approved : /\ ~ManifestRejected
                             /\ Names(r)
                             /\ r.counter.delivered \notin {"absent", input.manifest.body.acceptance}}}

-----------------------------------------------------------------------------
(* Receipts against rows.                                                  *)

InScope ==
  IF IsPresented(input.extract) /\ ~ExtractRejected
  THEN {r \in AttestedReceipts : \/ \E row \in Reconciled : row.ref = r.claims.ref
                         \/ Within(r.claims.at, input.extract.body)}
  ELSE AttestedReceipts

SettledUnder(R, ref) == {r \in R : r.claims.settled /\ r.claims.ref = ref}
RowsUnder(ref) == {row \in Reconciled : row.ref = ref}
Refs == {row.ref : row \in Reconciled} \cup {r.claims.ref : r \in InScope}

RefFindings(ref) ==
  LET records == SettledUnder(InScope, ref)
      rows == RowsUnder(ref)
      receipted == Total({[of |-> r, amount |-> r.claims.amount] : r \in records})
      settled == Total(rows)
      repeated == Cardinality(records) > 1 \/ Cardinality(rows) > 1
      uncovered == IF repeated THEN settled > receipted ELSE records = {}
  IN  FindingIf(Cardinality(rows) > 1, "duplicate-ref", ref)
      \cup CASE rows = {} /\ ~repeated ->
                  {Finding("receipt-without-settlement", r.claims.nonce) : r \in records}
             [] uncovered -> {Finding("settlement-without-receipt", ref)}
             [] OTHER -> FindingIf(settled # receipted, "settlement-mismatch", ref)

ComparisonFindings ==
  IF ExtractRejected THEN {} ELSE UNION {RefFindings(ref) : ref \in Refs \ {"none"}}

RefClashes ==
  {Finding("duplicate-ref", r.claims.ref) :
     r \in {r \in AcceptedReceipts : r.claims.ref # "none"
                             /\ Cardinality(SettledUnder(AcceptedReceipts, r.claims.ref)) > 1}}

ReceiptDefects ==
  {Finding("settled-without-ref", r.claims.nonce) : r \in SettledUnder(input.receipts, "none")}

-----------------------------------------------------------------------------
(* The report.                                                             *)

Findings ==
  ExtractFindings \cup ManifestFindings \cup IssuerFindings \cup DeliveryFindings
  \cup ComparisonFindings \cup ReceiptDefects
  \cup (IF IsUsable(IssuerPin) THEN RefClashes ELSE {})
Warnings ==
  ExtractWarnings \cup ManifestWarnings \cup IssuerWarnings \cup CountersignWarnings
  \cup (IF IsUsable(IssuerPin) THEN {} ELSE RefClashes)

Ok == Findings = {}
DoubtedEvidence ==
  {"extract-key-mismatch", "trust-key-unreadable", "extract-scope-mismatch",
   "extract-settlement-mismatch", "issuer-key-mismatch", "manifest-key-mismatch"}
Unconditional == Warnings = {} /\ \A f \in Findings : f.code \notin DoubtedEvidence

-----------------------------------------------------------------------------
(* A presentation in order: two payments, the first under the terms of the *)
(* publisher and countersigned by its payee, and the rail's extract.       *)

Promise == Manifest("publisher", [amount |-> 1, payee |-> "shop", expires |-> 2, acceptance |-> "good"])

Countersign(r, by, delivered) ==
  [r EXCEPT !.counter = [by |-> by, over |-> r.octets, delivered |-> delivered],
            !.counterCarries = by]

FirstReceipt ==
  Countersign(Receipt("issuer", [nonce |-> "n1", ref |-> "a", amount |-> 1, at |-> 1, settled |-> TRUE,
                                 names |-> Promise.octets, payee |-> "shop"]), "payee", "good")
SecondReceipt ==
  Receipt("issuer", [nonce |-> "n2", ref |-> "b", amount |-> 2, at |-> 2, settled |-> TRUE,
                     names |-> NoHash, payee |-> "kiosk"])

Rows == {[ref |-> "a", amount |-> 1, at |-> 1], [ref |-> "b", amount |-> 2, at |-> 2]}
Report == RailExtract("rail", [account |-> "acc", start |-> 1, end |-> 3, rows |-> Rows])

(* What the verifier pins: the key of each part and the scope; or, in one  *)
(* of these, two keys of which one cannot be read, one that cannot, a      *)
(* stranger's or none (one key is all a payee's pin holds); another        *)
(* account, an earlier start, or less scope.                               *)
FullPins ==
  [rail |-> Pin({"rail"}), issuer |-> Pin({"issuer"}), manifest |-> Pin({"publisher"}),
   payee |-> Pin({"payee"}), account |-> "acc", start |-> 1, end |-> 3]
Pinnings ==
  {FullPins}
  \cup {[FullPins EXCEPT ![root] = pin] :
          root \in {"rail", "issuer", "manifest", "payee"},
          pin \in {Unstated, Pin({Garbage}), Pin({"stranger"})}}
  \cup {[FullPins EXCEPT ![root].keys = @ \cup {Garbage}] : root \in {"rail", "issuer", "manifest"}}
  \cup {[FullPins EXCEPT !.account = account] : account \in {"unstated", "acc2"}}
  \cup {[FullPins EXCEPT !.start = start] : start \in {NotStated, 0}}
  \cup {[FullPins EXCEPT !.end = NotStated]}

Presentation(pins) ==
  [pins |-> pins, receipts |-> {FirstReceipt, SecondReceipt}, manifest |-> Promise,
   extract |-> Report, handed |-> FALSE, rows |-> {}]

TrustInit == (\E pins \in Pinnings : input = Presentation(pins)) /\ tampers = 0

-----------------------------------------------------------------------------
(* What may be otherwise in what is presented.                             *)

Tamper(to) == tampers < MaxTampers /\ tampers' = tampers + 1 /\ input' = to

HandRows ==
  \E rows \in {Rows, {}, {[row EXCEPT !.amount = 1] : row \in Rows}} :
    Tamper([input EXCEPT !.handed = TRUE, !.rows = rows])

(* Claims with one of them different.                                      *)
OtherClaims(claims) ==
  {[claims EXCEPT !.ref = ref] : ref \in {"a", "b", "none"}}
  \cup {[claims EXCEPT !.amount = 3 - claims.amount], [claims EXCEPT !.at = 3],
        [claims EXCEPT !.settled = FALSE], [claims EXCEPT !.payee = "shop"],
        [claims EXCEPT !.names = NoHash], [claims EXCEPT !.names = Promise.octets]}

(* A receipt its signer signs otherwise, another signs in its place, with  *)
(* a header that says so or not, or that is shown with other claims or     *)
(* with another key beside it.                                             *)
SignedOtherwise(r) ==
  {[r EXCEPT !.octets.claims = claims, !.claims = claims] : claims \in OtherClaims(r.octets.claims)}
  \cup {[r EXCEPT !.octets.by = "stranger"], [r EXCEPT !.octets.by = "stranger", !.octets.kid = "stranger"]}
ShownOtherwise(r) ==
  {[r EXCEPT !.claims = claims] : claims \in OtherClaims(r.claims)}
  \cup {[r EXCEPT !.carries = "stranger"]}

(* The payee or a stranger countersigns what is there now, with the key of *)
(* one or the other beside it; one receipt's is put under another.         *)
CountersignedAnew(r) ==
  {Countersign(r, by, delivered) : by \in {"payee", "stranger"}, delivered \in {"good", "bad", "absent"}}
CountersignMoved(r) ==
  {[r EXCEPT !.counter = o.counter, !.counterCarries = o.counterCarries] : o \in input.receipts}
CountersignedOtherwise(r) ==
  CountersignedAnew(r) \cup CountersignMoved(r)
  \cup {[r EXCEPT !.counter = Absent], [r EXCEPT !.counterCarries = "payee"]}

ChangeReceipt ==
  \E r \in input.receipts :
    \/ \E other \in SignedOtherwise(r) \cup ShownOtherwise(r) \cup CountersignedOtherwise(r) :
         Tamper([input EXCEPT !.receipts = (@ \ {r}) \cup {other}])
    \/ Tamper([input EXCEPT !.receipts = @ \ {r}])
    \/ /\ Cardinality(input.receipts) < 3
       /\ \E by \in {"issuer", "stranger"} :
            Tamper([input EXCEPT !.receipts = @ \cup {Receipt(by, [r.claims EXCEPT !.nonce = "n3"])}])

ChangeManifest ==
  /\ IsPresented(input.manifest)
  /\ LET m == input.manifest
         bodies == {[m.body EXCEPT !.amount = 2], [m.body EXCEPT !.expires = 0],
                    [m.body EXCEPT !.acceptance = "bad"]}
     IN  \E other \in {Absent, [m EXCEPT !.octets.by = "stranger"], [m EXCEPT !.carries = "stranger"],
                       Manifest("stranger", m.body)}
                     \cup {[m EXCEPT !.body = body] : body \in bodies}
                     \cup {Manifest("publisher", body) : body \in bodies} :
           Tamper([input EXCEPT !.manifest = other])

ChangeExtract ==
  /\ IsPresented(input.extract)
  /\ LET x == input.extract
         bodies == {[x.body EXCEPT !.account = "acc2"], [x.body EXCEPT !.start = 2],
                    [x.body EXCEPT !.end = 2], [x.body EXCEPT !.rows = {}]}
                   \cup {[x.body EXCEPT !.rows = (@ \ {row}) \cup {[row EXCEPT !.ref = "a"]}] :
                           row \in x.body.rows}
                   \cup {[x.body EXCEPT !.rows = (@ \ {row}) \cup {[row EXCEPT !.amount = 3 - @]}] :
                           row \in x.body.rows}
     IN  \E other \in {Absent, RailExtract("stranger", x.body), [x EXCEPT !.by = "stranger"]}
                     \cup {[x EXCEPT !.body = body] : body \in bodies}
                     \cup {RailExtract(x.by, body) : body \in bodies} :
           Tamper([input EXCEPT !.extract = other])

TrustNext == HandRows \/ ChangeReceipt \/ ChangeManifest \/ ChangeExtract

TrustSpec == TrustInit /\ [][TrustNext]_trustVars

-----------------------------------------------------------------------------
(* Properties, stated of who signed what and not of what verified.         *)

SignedBy(pin, by, signed, shown) == by \in Usable(pin) /\ signed = shown
IssuerSigned(r) == SignedBy(IssuerPin, r.octets.by, r.octets.claims, r.claims)
RailSigned == SignedBy(RailPin, input.extract.by, input.extract.signed, input.extract.body)
PublisherSigned ==
  SignedBy(PublisherPin, input.manifest.octets.by, input.manifest.octets.body, input.manifest.body)
PayeeSigned(r) ==
  IsPresented(r.counter) /\ r.counter.by \in Usable(input.pins.payee) /\ r.counter.over = r.octets

PartsSigned ==
  /\ IsPresented(input.extract) /\ RailSigned
  /\ input.pins.account = input.extract.body.account
  /\ NotStated \notin {input.pins.start, input.pins.end}
  /\ input.extract.body.start <= input.pins.start /\ input.pins.end <= input.extract.body.end
  /\ \A r \in input.receipts :
       /\ IssuerSigned(r)
       /\ PinnedPayee(r) /\ r.claims.settled => PayeeSigned(r)
       /\ IsPresented(r.counter) => PayeeSigned(r)
  /\ IsPresented(input.manifest) => PublisherSigned /\ \E r \in input.receipts : Names(r)

TermsKept ==
  \A r \in input.receipts : Names(r) =>
    /\ ~Departs(r.claims, input.manifest.body)
    /\ IsPresented(r.counter) => r.counter.delivered \in {"absent", input.manifest.body.acceptance}

RowsReceipted ==
  \A row \in input.extract.body.rows :
    /\ RowsUnder(row.ref) = {row}
    /\ \E r \in input.receipts : r.claims.settled /\ r.claims.ref = row.ref
                                 /\ r.claims.amount = row.amount

(* The books balance without a condition only when every part of them has  *)
(* the signature of the key pinned for it: the extract the rail's, over a  *)
(* stated account and period, each receipt the issuer's, the manifest the  *)
(* publisher's with a receipt made under it, each settled payment to a     *)
(* pinned payee that payee's own word; no payment departs from its terms,  *)
(* and what the rail settled under a ref is what the receipts say.         *)
BalancedMeansRooted == Ok /\ Unconditional => PartsSigned /\ TermsKept /\ RowsReceipted

(* With a key pinned for the rail, the issuer and the publisher, nobody is *)
(* charged on a document those keys did not sign: a departure from terms   *)
(* or from what was to be delivered needs the publisher's manifest and the *)
(* issuer's receipt (and the payee's word on it), a difference between     *)
(* payments and settlements the rail's extract.                            *)
ChargesAreFounded ==
  IsUsable(RailPin) /\ IsUsable(IssuerPin) /\ IsUsable(PublisherPin) =>
    \A f \in Findings :
      LET against == {r \in input.receipts : IssuerSigned(r) /\ f.on \in {r.claims.ref, r.claims.nonce}}
      IN  CASE f.code = "manifest-terms-mismatch" ->
                 /\ PublisherSigned
                 /\ \E r \in against : Names(r) /\ Departs(r.claims, input.manifest.body)
            [] f.code = "delivery-mismatch" ->
                 /\ PublisherSigned
                 /\ \E r \in against : /\ Names(r) /\ PayeeSigned(r)
                                       /\ r.counter.delivered # input.manifest.body.acceptance
            [] f.code \in {"settlement-mismatch", "settlement-without-receipt"} ->
                 IsPresented(input.extract) => RailSigned
            [] f.code = "receipt-without-settlement" ->
                 against # {} /\ (IsPresented(input.extract) => RailSigned)
            [] f.code = "duplicate-ref" ->
                 \/ Cardinality(against) > 1
                 \/ IsPresented(input.extract) => RailSigned
            [] OTHER -> TRUE
==============================================================================
