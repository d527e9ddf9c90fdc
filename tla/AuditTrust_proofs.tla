--------------------------- MODULE AuditTrust_proofs ---------------------------
(***************************************************************************)
(* Proofs about AuditTrust, for any number of changes to what is presented *)
(* and, with a presentation in hand, by whom its parts are signed.         *)
(***************************************************************************)
EXTENDS AuditTrust, Totals_proofs

(* What a change leaves of a row, a body, claims, a receipt: the fields    *)
(* that are compared, with amounts and times like those they had.          *)
IsRow(row) ==
  {"ref", "amount"} \subseteq DOMAIN row /\ row.ref # "none" /\ row.amount \in {1, 2}
IsBody(b) ==
  /\ {"start", "end", "rows"} \subseteq DOMAIN b /\ b.start \in Int /\ b.end \in Int
  /\ IsFiniteSet(b.rows) /\ \A row \in b.rows : IsRow(row)
IsExtract(x) == "body" \in DOMAIN x /\ IsBody(x.body)
IsClaims(c) == "amount" \in DOMAIN c /\ c.amount \in {1, 2}
IsReceipt(r) ==
  /\ {"octets", "claims"} \subseteq DOMAIN r /\ "claims" \in DOMAIN r.octets
  /\ IsClaims(r.claims) /\ IsClaims(r.octets.claims)
IsInput(i) ==
  /\ i \in [pins : {i.pins}, receipts : {i.receipts}, manifest : {i.manifest}, extract : {i.extract},
            handed : {i.handed}, rows : {i.rows}]
  /\ i.pins.start \in Int /\ i.pins.end \in Int
  /\ IsUsable(i.pins.issuer) => i.pins.issuer.stated
  /\ IsFiniteSet(i.receipts) /\ \A r \in i.receipts : IsReceipt(r)
  /\ IsPresented(i.extract) => IsExtract(i.extract)
IInv == IsInput(input)

LEMMA PinsInv ==
  \A pins \in Pinnings : /\ pins.start \in Int /\ pins.end \in Int
                         /\ IsUsable(pins.issuer) => pins.issuer.stated
  <1> DEFINE kind(p) == p \in [rail : {p.rail}, issuer : {p.issuer}, manifest : {p.manifest},
                               payee : {p.payee}, account : {p.account}, start : {p.start},
                               end : {p.end}]
  <1>1. /\ kind(FullPins) /\ FullPins.start = 1 /\ FullPins.end = 3
        /\ FullPins.issuer = Pin({"issuer"})
    BY DEF FullPins
  <1>2. NotStated \in Int
    BY DEF NotStated
  <1>3. ~IsUsable(Unstated) /\ \A keys : Pin(keys).stated
    BY DEF Unstated, Pin, IsUsable, Usable
  <1>4. \A pins \in Pinnings : pins.start \in Int /\ pins.end \in Int
    BY <1>1, <1>2 DEF Pinnings
  <1>5. ASSUME NEW pins \in Pinnings PROVE pins.issuer = Unstated \/ pins.issuer.stated
    BY <1>1, <1>3 DEF Pinnings, Pin
  <1> QED BY <1>3, <1>4, <1>5

LEMMA CountersignTyped ==
  ASSUME NEW r, IsReceipt(r), NEW by, NEW delivered
  PROVE  IsReceipt(Countersign(r, by, delivered))
  BY DEF Countersign, IsReceipt

LEMMA ReceiptTyped ==
  ASSUME NEW by, NEW claims, IsClaims(claims) PROVE IsReceipt(Receipt(by, claims))
  BY DEF Receipt, IsReceipt

LEMMA FirstTyped == IsReceipt(FirstReceipt)
  <1> DEFINE claims == [nonce |-> "n1", ref |-> "a", amount |-> 1, at |-> 1, settled |-> TRUE,
                        names |-> Promise.octets, payee |-> "shop"]
  <1>1. IsClaims(claims)
    BY DEF IsClaims
  <1> QED BY <1>1, ReceiptTyped, CountersignTyped DEF FirstReceipt

LEMMA SecondTyped == IsReceipt(SecondReceipt)
  <1> DEFINE claims == [nonce |-> "n2", ref |-> "b", amount |-> 2, at |-> 2, settled |-> TRUE,
                        names |-> NoHash, payee |-> "kiosk"]
  <1>1. IsClaims(claims)
    BY DEF IsClaims
  <1> QED BY <1>1, ReceiptTyped DEF SecondReceipt

LEMMA ReportTyped == IsExtract(Report)
  <1> DEFINE first == [ref |-> "a", amount |-> 1, at |-> 1]
             second == [ref |-> "b", amount |-> 2, at |-> 2]
             body == [account |-> "acc", start |-> 1, end |-> 3, rows |-> Rows]
  <1>1. IsRow(first) /\ IsRow(second)
    BY DEF IsRow
  <1>2. Rows = {first} \cup {second}
    BY DEF Rows
  <1> HIDE DEF first, second
  <1>3. IsFiniteSet({first} \cup {second})
    BY FS_Singleton, FS_AddElement
  <1>4. IsFiniteSet(Rows) /\ \A row \in Rows : IsRow(row)
    BY <1>1, <1>2, <1>3
  <1>5. IsBody(body)
    BY <1>4 DEF IsBody
  <1> QED BY <1>5 DEF Report, RailExtract, IsExtract

LEMMA InitInv == TrustInit => IInv
  <1> SUFFICES ASSUME TrustInit PROVE IInv
    OBVIOUS
  <1>1. PICK pins \in Pinnings :
          input = Presentation(pins)
    BY DEF TrustInit
  <1>2. IsFiniteSet({FirstReceipt, SecondReceipt})
    <2>1. IsFiniteSet({FirstReceipt})
      BY FS_Singleton
    <2>2. IsFiniteSet({FirstReceipt} \cup {SecondReceipt})
      BY <2>1, FS_AddElement
    <2>3. {FirstReceipt, SecondReceipt} = {FirstReceipt} \cup {SecondReceipt}
      OBVIOUS
    <2> QED BY <2>2, <2>3
  <1>3. IsExtract(Report)
    BY ReportTyped
  <1>4. pins.start \in Int /\ pins.end \in Int /\ (IsUsable(pins.issuer) => pins.issuer.stated)
    BY PinsInv
  <1>5. /\ input.pins = pins /\ input.receipts = {FirstReceipt, SecondReceipt}
        /\ input.extract = Report
        /\ input \in [pins : {input.pins}, receipts : {input.receipts}, manifest : {input.manifest},
                      extract : {input.extract}, handed : {input.handed}, rows : {input.rows}]
    BY <1>1 DEF Presentation
  <1>6. IsReceipt(FirstReceipt) /\ IsReceipt(SecondReceipt)
    BY FirstTyped, SecondTyped
  <1> QED BY <1>2, <1>3, <1>4, <1>5, <1>6 DEF IInv, IsInput

LEMMA ReceiptsInv ==
  ASSUME IInv, NEW R, IsFiniteSet(R), \A r \in R : IsReceipt(r),
         input' = [input EXCEPT !.receipts = R]
  PROVE  IInv'
  BY DEF IInv, IsInput

LEMMA OtherClaimsTyped ==
  ASSUME NEW c, IsClaims(c), NEW d \in OtherClaims(c) PROVE IsClaims(d)
  BY DEF OtherClaims, IsClaims

LEMMA OtherReceiptTyped ==
  ASSUME IInv, NEW r \in input.receipts,
         NEW other \in SignedOtherwise(r) \cup ShownOtherwise(r) \cup CountersignedOtherwise(r)
  PROVE  IsReceipt(other)
  <1>1. IsReceipt(r) /\ IsClaims(r.claims) /\ IsClaims(r.octets.claims)
    BY DEF IInv, IsInput, IsReceipt
  <1>2. CASE other \in SignedOtherwise(r)
    <2>1. ASSUME NEW claims \in OtherClaims(r.octets.claims)
          PROVE  IsReceipt([r EXCEPT !.octets.claims = claims, !.claims = claims])
      <3>1. IsClaims(claims)
        BY <1>1, OtherClaimsTyped
      <3> QED BY <1>1, <3>1 DEF IsReceipt
    <2>2. /\ IsReceipt([r EXCEPT !.octets.by = "stranger"])
          /\ IsReceipt([r EXCEPT !.octets.by = "stranger", !.octets.kid = "stranger"])
      BY <1>1 DEF IsReceipt
    <2> QED BY <1>2, <2>1, <2>2 DEF SignedOtherwise
  <1>3. CASE other \in ShownOtherwise(r)
    <2>1. ASSUME NEW claims \in OtherClaims(r.claims)
          PROVE  IsReceipt([r EXCEPT !.claims = claims])
      <3>1. IsClaims(claims)
        BY <1>1, OtherClaimsTyped
      <3> QED BY <1>1, <3>1 DEF IsReceipt
    <2>2. IsReceipt([r EXCEPT !.carries = "stranger"])
      BY <1>1 DEF IsReceipt
    <2> QED BY <1>3, <2>1, <2>2 DEF ShownOtherwise
  <1>4. CASE other \in CountersignedOtherwise(r)
    <2>1. \A o : IsReceipt([r EXCEPT !.counter = o.counter, !.counterCarries = o.counterCarries])
      BY <1>1 DEF IsReceipt
    <2>2. /\ IsReceipt([r EXCEPT !.counter = Absent])
          /\ IsReceipt([r EXCEPT !.counterCarries = "payee"])
      BY <1>1 DEF IsReceipt
    <2>3. \A o \in CountersignedAnew(r) : IsReceipt(o)
      BY <1>1, CountersignTyped DEF CountersignedAnew
    <2>4. \A o \in CountersignMoved(r) : IsReceipt(o)
      BY <2>1 DEF CountersignMoved
    <2> QED BY <1>4, <2>2, <2>3, <2>4 DEF CountersignedOtherwise
  <1> QED BY <1>2, <1>3, <1>4

LEMMA ChangeReceiptInv == ASSUME IInv, ChangeReceipt PROVE IInv'
  <1> DEFINE R == input.receipts
  <1>1. IsFiniteSet(R) /\ \A r \in R : IsReceipt(r)
    BY DEF IInv, IsInput
  <1>2. \A S, x : IsFiniteSet(S) => IsFiniteSet(S \cup {x}) /\ IsFiniteSet(S \ {x})
    BY FS_AddElement, FS_RemoveElement
  <1>3. ASSUME NEW r \in R, NEW by PROVE IsReceipt(Receipt(by, [r.claims EXCEPT !.nonce = "n3"]))
    <2>1. IsClaims([r.claims EXCEPT !.nonce = "n3"])
      BY <1>1 DEF IsReceipt, IsClaims
    <2> QED BY <2>1, ReceiptTyped
  <1>4. \E S, T : /\ S \subseteq R /\ IsFiniteSet(S \cup T) /\ \A r \in T : IsReceipt(r)
                  /\ input' = [input EXCEPT !.receipts = S \cup T]
    <2>1. ASSUME NEW r \in R,
                 NEW other \in SignedOtherwise(r) \cup ShownOtherwise(r) \cup CountersignedOtherwise(r),
                 Tamper([input EXCEPT !.receipts = (@ \ {r}) \cup {other}])
          PROVE  <1>4
      <3>1. IsReceipt(other)
        BY OtherReceiptTyped
      <3>2. input' = [input EXCEPT !.receipts = (R \ {r}) \cup {other}]
        BY <2>1 DEF Tamper
      <3> HIDE DEF R
      <3>3. IsFiniteSet((R \ {r}) \cup {other})
        BY <1>1, <1>2
      <3> WITNESS R \ {r}, {other}
      <3> QED BY <3>1, <3>2, <3>3
    <2>2. ASSUME NEW r \in R, Tamper([input EXCEPT !.receipts = @ \ {r}]) PROVE <1>4
      <3>1. input' = [input EXCEPT !.receipts = (R \ {r}) \cup {}]
        BY <2>2 DEF Tamper
      <3> HIDE DEF R
      <3>2. IsFiniteSet((R \ {r}) \cup {})
        BY <1>1, <1>2
      <3> WITNESS R \ {r}, {}
      <3> QED BY <3>1, <3>2
    <2>3. ASSUME NEW r \in R, NEW by \in {"issuer", "stranger"},
                 Tamper([input EXCEPT !.receipts = @ \cup {Receipt(by, [r.claims EXCEPT !.nonce = "n3"])}])
          PROVE  <1>4
      <3>1. input' = [input EXCEPT !.receipts = R \cup {Receipt(by, [r.claims EXCEPT !.nonce = "n3"])}]
        BY <2>3 DEF Tamper
      <3>2. IsReceipt(Receipt(by, [r.claims EXCEPT !.nonce = "n3"]))
        BY <1>3
      <3> HIDE DEF R
      <3>3. IsFiniteSet(R \cup {Receipt(by, [r.claims EXCEPT !.nonce = "n3"])})
        BY <1>1, <1>2
      <3> WITNESS R, {Receipt(by, [r.claims EXCEPT !.nonce = "n3"])}
      <3> QED BY <3>1, <3>2, <3>3
    <2> QED BY <2>1, <2>2, <2>3 DEF ChangeReceipt
  <1>5. PICK S, T : /\ S \subseteq R /\ IsFiniteSet(S \cup T) /\ \A r \in T : IsReceipt(r)
                    /\ input' = [input EXCEPT !.receipts = S \cup T]
    BY <1>4
  <1> HIDE DEF R
  <1>6. \A r \in S \cup T : IsReceipt(r)
    BY <1>1, <1>5
  <1> QED BY <1>5, <1>6, ReceiptsInv

LEMMA ChangeManifestInv == ASSUME IInv, ChangeManifest PROVE IInv'
  <1>1. PICK other : input' = [input EXCEPT !.manifest = other]
    BY DEF ChangeManifest, Tamper
  <1> QED BY <1>1 DEF IInv, IsInput

LEMMA HandRowsInv == ASSUME IInv, HandRows PROVE IInv'
  <1>1. PICK handed : input' = [input EXCEPT !.handed = TRUE, !.rows = handed]
    BY DEF HandRows, Tamper
  <1> QED BY <1>1 DEF IInv, IsInput

LEMMA ChangeExtractInv == ASSUME IInv, ChangeExtract PROVE IInv'
  <1> DEFINE x == input.extract
             bodies == {[x.body EXCEPT !.account = "acc2"], [x.body EXCEPT !.start = 2],
                        [x.body EXCEPT !.end = 2], [x.body EXCEPT !.rows = {}]}
                       \cup {[x.body EXCEPT !.rows = (@ \ {row}) \cup {[row EXCEPT !.ref = "a"]}] :
                               row \in x.body.rows}
                       \cup {[x.body EXCEPT !.rows = (@ \ {row}) \cup {[row EXCEPT !.amount = 3 - @]}] :
                               row \in x.body.rows}
  <1>1. IsExtract(x)
    BY DEF ChangeExtract, IInv, IsInput
  <1>2. ASSUME NEW body \in bodies PROVE IsBody(body)
    <2>1. IsBody(x.body)
      BY <1>1 DEF IsExtract
    <2>2. ASSUME NEW row \in x.body.rows, NEW other, IsRow(other),
                 body = [x.body EXCEPT !.rows = (x.body.rows \ {row}) \cup {other}]
          PROVE  IsBody(body)
      <3>1. IsFiniteSet((x.body.rows \ {row}) \cup {other})
        BY <2>1, FS_AddElement, FS_RemoveElement DEF IsBody
      <3>2. \A s \in (x.body.rows \ {row}) \cup {other} : IsRow(s)
        BY <2>1, <2>2 DEF IsBody
      <3> DEFINE rows == (x.body.rows \ {row}) \cup {other}
      <3> HIDE DEF rows
      <3> QED BY <2>1, <2>2, <3>1, <3>2 DEF IsBody, rows
    <2>3. ASSUME NEW row \in x.body.rows
          PROVE  IsRow([row EXCEPT !.ref = "a"]) /\ IsRow([row EXCEPT !.amount = 3 - @])
      BY <2>1 DEF IsBody, IsRow
    <2>4. CASE body = [x.body EXCEPT !.rows = {}]
      BY <2>1, <2>4, FS_EmptySet DEF IsBody
    <2>5. CASE body \in {[x.body EXCEPT !.account = "acc2"], [x.body EXCEPT !.start = 2],
                         [x.body EXCEPT !.end = 2]}
      BY <2>1, <2>5 DEF IsBody
    <2>6. CASE \E row \in x.body.rows :
                 body = [x.body EXCEPT !.rows = (x.body.rows \ {row}) \cup {[row EXCEPT !.ref = "a"]}]
      BY <2>2, <2>3, <2>6
    <2>7. CASE \E row \in x.body.rows :
                 body = [x.body EXCEPT !.rows = (x.body.rows \ {row}) \cup {[row EXCEPT !.amount = 3 - @]}]
      BY <2>2, <2>3, <2>7
    <2> QED BY <2>4, <2>5, <2>6, <2>7
  <1>3. PICK other \in {Absent, RailExtract("stranger", x.body), [x EXCEPT !.by = "stranger"]}
                         \cup {[x EXCEPT !.body = body] : body \in bodies}
                         \cup {RailExtract(x.by, body) : body \in bodies} :
          input' = [input EXCEPT !.extract = other]
    BY DEF ChangeExtract, Tamper
  <1> HIDE DEF bodies
  <1>4. IsPresented(other) => IsExtract(other)
    BY <1>1, <1>2, <1>3 DEF IsExtract, RailExtract, IsPresented
  <1> QED BY <1>3, <1>4 DEF IInv, IsInput

LEMMA NextInv == IInv /\ [TrustNext]_trustVars => IInv'
  <1>1. IInv /\ UNCHANGED trustVars => IInv'
    BY DEF IInv, trustVars
  <1> QED BY <1>1, HandRowsInv, ChangeReceiptInv, ChangeManifestInv, ChangeExtractInv DEF TrustNext

-----------------------------------------------------------------------------
(* What a report without a word against it says of the parts.  Each is     *)
(* about the roots of one part, and about no other.                        *)

LEMMA ExtractIsRooted ==
  ASSUME IInv, Ok, Unconditional
  PROVE  /\ IsPresented(input.extract) /\ RailSigned
         /\ input.pins.account = input.extract.body.account
         /\ NotStated \notin {input.pins.start, input.pins.end}
         /\ input.extract.body.start <= input.pins.start /\ input.pins.end <= input.extract.body.end
  <1>1. ExtractFindings = {} /\ ExtractWarnings = {}
    BY DEF Ok, Unconditional, Findings, Warnings
  <1>2. IsPresented(input.extract) /\ RailPin.stated
    BY <1>1 DEF ExtractWarnings
  <1>3. /\ NotStated \notin {input.pins.start, input.pins.end}
        /\ input.pins.account # "unstated"
        /\ ~ExtractRejected
    BY <1>1, <1>2 DEF ExtractWarnings, FindingIf
  <1>4. ~ScopeMismatch /\ Unreadable(RailPin, "extract") = {}
    BY <1>1, <1>2 DEF ExtractFindings, FindingIf
  <1>5. IsUsable(RailPin)
    BY <1>2, <1>4 DEF Unreadable, FindingIf
  <1>6. RailSigned
    BY <1>2, <1>3, <1>5 DEF ExtractRejected, ExtractVerifies, RailExtractVerifies, RailSigned, SignedBy
  <1>7. /\ input.pins.account = input.extract.body.account
        /\ ~(input.extract.body.start > input.pins.start)
        /\ ~(input.extract.body.end < input.pins.end)
    BY <1>2, <1>3, <1>4 DEF ScopeMismatch
  <1>8. {input.extract.body.start, input.pins.start, input.extract.body.end, input.pins.end} \subseteq Int
    BY <1>2 DEF IInv, IsInput, IsExtract, IsBody
  <1> QED BY <1>2, <1>3, <1>6, <1>7, <1>8

LEMMA ReceiptsAreRooted ==
  ASSUME Ok, Unconditional
  PROVE  /\ input.receipts # {} => IsUsable(IssuerPin)
         /\ AcceptedReceipts = input.receipts
         /\ \A r \in input.receipts : IssuerSigned(r)
  <1>1. IssuerFindings = {} /\ IssuerWarnings = {}
    BY DEF Ok, Unconditional, Findings, Warnings
  <1>2. Unreadable(IssuerPin, "issuer") = {} /\ ~ChainBreaks
    BY <1>1 DEF IssuerFindings, FindingIf
  <1>3. input.receipts # {} => IsUsable(IssuerPin)
    BY <1>1, <1>2 DEF IssuerWarnings, FindingIf, Unreadable
  <1>4. ASSUME IsUsable(IssuerPin) PROVE Foreign = {}
    BY <1>1, <1>4 DEF IssuerFindings
  <1>5. \A r \in input.receipts : AttestedByPins(r)
    BY <1>2, <1>3, <1>4 DEF ChainBreaks, Foreign
  <1>6. AcceptedReceipts = input.receipts
    BY <1>5 DEF AcceptedReceipts, AttestedReceipts
  <1>7. \A r \in input.receipts : IssuerSigned(r)
    BY <1>5 DEF AttestedByPins, ReceiptVerifiesUnderPin, IssuerSigned, SignedBy
  <1> QED BY <1>3, <1>6, <1>7

LEMMA ApprovedIsSigned == \A r \in Approved : PayeeSigned(r)
  BY DEF Approved, Countersigned, CounterSignatureVerifies, PayeeSigned

LEMMA CountersignaturesAreRooted ==
  ASSUME Unconditional, NEW r \in AcceptedReceipts
  PROVE  /\ PinnedPayee(r) /\ r.claims.settled => r \in Approved
         /\ IsPresented(r.counter) => r \in Approved
  <1>1. CountersignWarnings = {}
    BY DEF Unconditional, Warnings
  <1>2. PinnedPayee(r) /\ r.claims.settled => r \in Approved
    BY <1>1 DEF CountersignWarnings
  <1>3. ASSUME IsPresented(r.counter) PROVE r \in Approved
    <2>1. r \in Countersigned
      BY <1>3 DEF Countersigned
    <2>2. CounterSignatureVerifies(r)
      BY <1>1, <2>1 DEF CountersignWarnings
    <2>3. PinnedPayee(r)
      BY <1>1, <2>1 DEF CountersignWarnings, FindingIf
    <2> QED BY <1>1, <2>1, <2>2, <2>3 DEF CountersignWarnings
  <1> QED BY <1>2, <1>3

LEMMA ManifestIsRooted ==
  ASSUME Ok, Unconditional, IsPresented(input.manifest)
  PROVE  PublisherSigned /\ ~ManifestRejected /\ \E r \in input.receipts : Names(r)
  <1>1. ManifestFindings = {} /\ ManifestWarnings = {}
    BY DEF Ok, Unconditional, Findings, Warnings
  <1>2. PublisherPin.stated /\ \E r \in input.receipts : Names(r)
    BY <1>1 DEF ManifestWarnings, FindingIf
  <1>3. Unreadable(PublisherPin, "manifest") = {}
    BY <1>1 DEF ManifestFindings
  <1>4. IsUsable(PublisherPin)
    BY <1>2, <1>3 DEF Unreadable, FindingIf
  <1>5. \E key \in Usable(PublisherPin) : ManifestVerifies(input.manifest, key)
    BY <1>1, <1>4 DEF ManifestFindings, FindingIf
  <1> QED BY <1>2, <1>5 DEF ManifestVerifies, ManifestRejected, PublisherSigned, SignedBy

LEMMA TermsAreKept == ASSUME Ok, Unconditional PROVE TermsKept
  <1> SUFFICES ASSUME NEW r \in input.receipts, Names(r)
               PROVE  /\ ~Departs(r.claims, input.manifest.body)
                      /\ IsPresented(r.counter) =>
                           r.counter.delivered \in {"absent", input.manifest.body.acceptance}
    BY DEF TermsKept
  <1>1. r \in AcceptedReceipts /\ IsUsable(IssuerPin) /\ ~ManifestRejected
    BY ReceiptsAreRooted, ManifestIsRooted DEF Names
  <1>2. TermsMismatches = {} /\ DeliveryFindings = {}
    BY <1>1 DEF Ok, Findings, ManifestFindings
  <1>3. ~Departs(r.claims, input.manifest.body)
    BY <1>1, <1>2 DEF TermsMismatches
  <1>4. IsPresented(r.counter) => r \in Approved
    BY <1>1, CountersignaturesAreRooted
  <1> QED BY <1>1, <1>2, <1>3, <1>4 DEF DeliveryFindings

(* What the rail settled under a ref is then one row and one receipt.      *)
LEMMA RowsAreReceipted == ASSUME IInv, Ok, Unconditional PROVE RowsReceipted
  <1>1. /\ IsPresented(input.extract) /\ ~ExtractRejected
        /\ Reconciled = input.extract.body.rows
    BY ExtractIsRooted DEF Unconditional, Warnings, ExtractWarnings, FindingIf, Reconciled
  <1>2. /\ IsBody(input.extract.body)
        /\ IsFiniteSet(input.receipts) /\ \A r \in input.receipts : IsReceipt(r)
    BY <1>1 DEF IInv, IsInput, IsExtract
  <1> SUFFICES ASSUME NEW row \in input.extract.body.rows
               PROVE  /\ RowsUnder(row.ref) = {row}
                      /\ \E r \in input.receipts : r.claims.settled /\ r.claims.ref = row.ref
                                                   /\ r.claims.amount = row.amount
    BY DEF RowsReceipted
  <1> DEFINE ref == row.ref
             records == SettledUnder(InScope, ref)
             rows == RowsUnder(ref)
             priced == {[of |-> r, amount |-> r.claims.amount] : r \in records}
  <1>3. IsRow(row) /\ ref \in Refs \ {"none"}
    BY <1>1, <1>2 DEF IsBody, IsRow, Refs
  <1>4. RefFindings(ref) = {}
    BY <1>1, <1>3 DEF Ok, Findings, ComparisonFindings
  <1>5. IsFiniteSet(rows) /\ row \in rows
    BY <1>1, <1>2, FS_Subset DEF RowsUnder, IsBody
  <1>6. ~(Cardinality(rows) > 1)
    BY <1>4 DEF RefFindings, FindingIf
  <1>7. rows = {row}
    BY <1>5, <1>6, AtMostOne
  <1>8. records \subseteq input.receipts /\ \A r \in records : r.claims.settled /\ r.claims.ref = ref
    BY ReceiptsAreRooted DEF SettledUnder, InScope, AttestedReceipts
  <1>9. IsFiniteSet(records)
    BY <1>2, <1>8, FS_Subset
  <1>10. ~(Cardinality(records) > 1)
    <2>1. CASE records = {}
      BY <2>1, FS_EmptySet
    <2>2. CASE records # {}
      <3> DEFINE all == SettledUnder(AcceptedReceipts, ref)
      <3>1. records \subseteq all /\ all \subseteq input.receipts /\ AcceptedReceipts = input.receipts
        BY <1>8, ReceiptsAreRooted DEF SettledUnder
      <3>2. RefClashes = {}
        BY <1>8, <2>2, ReceiptsAreRooted DEF Ok, Findings
      <3>3. ~(Cardinality(all) > 1)
        BY <1>3, <1>8, <2>2, <3>1, <3>2 DEF RefClashes
      <3>4. Cardinality(records) <= Cardinality(all) /\ Cardinality(all) \in Nat /\ Cardinality(records) \in Nat
        BY <1>2, <1>9, <3>1, FS_Subset, FS_CardinalityType
      <3> QED BY <3>3, <3>4
    <2> QED BY <2>1, <2>2
  <1>11. records # {} /\ Total(rows) = Total(priced)
    <2> HIDE DEF ref
    <2>1. rows # {}
      BY <1>5
    <2> QED BY <1>4, <1>6, <1>10, <2>1 DEF RefFindings, FindingIf
  <1>12. PICK r \in records : records = {r}
    BY <1>9, <1>10, <1>11, AtMostOne
  <1>13. priced = {[of |-> r, amount |-> r.claims.amount]}
    BY <1>12
  <1>14. r.claims.amount \in Nat /\ row.amount \in Nat
    BY <1>2, <1>3, <1>8, <1>12 DEF IsReceipt, IsClaims, IsRow
  <1>15. Total(priced) = r.claims.amount
    <2> DEFINE one == [of |-> r, amount |-> r.claims.amount]
    <2>1. one.amount = r.claims.amount
      OBVIOUS
    <2> HIDE DEF one
    <2>2. Total({one}) = one.amount
      BY <1>14, <2>1, TotalOfOne
    <2> QED BY <1>13, <2>1, <2>2 DEF one
  <1>16. Total(rows) = row.amount
    BY <1>7, <1>14, TotalOfOne
  <1> QED BY <1>7, <1>8, <1>11, <1>12, <1>15, <1>16

(* Books that balance without a condition have the signature of the key    *)
(* pinned for each of their parts, keep the terms they name and have, for  *)
(* each settlement of the rail, the one receipt that says the same,        *)
(* however many things are other than they should be (auditDetailed).      *)
THEOREM TrustBalancedMeansRooted == TrustSpec => []BalancedMeansRooted
  <1>1. IInv => BalancedMeansRooted
    <2> SUFFICES ASSUME IInv, Ok, Unconditional PROVE PartsSigned /\ TermsKept /\ RowsReceipted
      BY DEF BalancedMeansRooted
    <2>1. ASSUME NEW r \in input.receipts
          PROVE  /\ IssuerSigned(r)
                 /\ PinnedPayee(r) /\ r.claims.settled => PayeeSigned(r)
                 /\ IsPresented(r.counter) => PayeeSigned(r)
      <3>1. IssuerSigned(r) /\ r \in AcceptedReceipts
        BY ReceiptsAreRooted
      <3> QED BY <3>1, CountersignaturesAreRooted, ApprovedIsSigned
    <2>2. IsPresented(input.manifest) => PublisherSigned /\ \E r \in input.receipts : Names(r)
      BY ManifestIsRooted
    <2> QED BY <2>1, <2>2, ExtractIsRooted, TermsAreKept, RowsAreReceipted DEF PartsSigned
  <1> QED BY <1>1, InitInv, NextInv, PTL DEF TrustSpec

-----------------------------------------------------------------------------
(* Who signed what a charge rests on.                                      *)

RefCodes == {"duplicate-ref", "receipt-without-settlement", "settlement-without-receipt",
             "settlement-mismatch"}

LEMMA RefFindingsCodes == \A ref : \A f \in RefFindings(ref) : f.code \in RefCodes
  BY DEF RefFindings, FindingIf, Finding, RefCodes

LEMMA RailIsBehindRows ==
  ASSUME IsUsable(RailPin), IsPresented(input.extract), ComparisonFindings # {} PROVE RailSigned
  BY DEF ComparisonFindings, ExtractRejected, ExtractVerifies, RailExtractVerifies, RailSigned, SignedBy

LEMMA AcceptedIsSigned ==
  ASSUME IInv, IsUsable(IssuerPin)
  PROVE  /\ AcceptedReceipts = AttestedReceipts /\ AttestedReceipts \subseteq input.receipts
         /\ \A r \in AttestedReceipts : IssuerSigned(r)
  <1>1. IssuerPin.stated
    BY DEF IInv, IsInput, IssuerPin
  <1> QED BY <1>1 DEF AcceptedReceipts, AttestedReceipts, AttestedByPins, ReceiptVerifiesUnderPin, IssuerSigned, SignedBy

LEMMA PublisherIsBehindTerms ==
  ASSUME IsUsable(PublisherPin), ~ManifestRejected, NEW r, Names(r) PROVE PublisherSigned
  BY DEF Names, ManifestRejected, ManifestVerifies, PublisherSigned, SignedBy

(* Every code has one place it is given out, but for a ref used twice.     *)
LEMMA FindingsByCode ==
  ASSUME NEW f \in Findings
  PROVE  /\ f.code = "manifest-terms-mismatch" => f \in TermsMismatches
         /\ f.code = "delivery-mismatch" => f \in DeliveryFindings
         /\ f.code \in RefCodes \ {"duplicate-ref"} => f \in ComparisonFindings
         /\ f.code = "duplicate-ref" =>
              f \in ComparisonFindings \/ (IsUsable(IssuerPin) /\ f \in RefClashes)
  <1>1. CASE f \in ExtractFindings
    BY <1>1 DEF ExtractFindings, FindingIf, Finding, Unreadable, RefCodes
  <1>2. CASE f \in ManifestFindings
    BY <1>2 DEF ManifestFindings, FindingIf, Finding, Unreadable, RefCodes, TermsMismatches
  <1>3. CASE f \in IssuerFindings
    BY <1>3 DEF IssuerFindings, FindingIf, Finding, Unreadable, RefCodes
  <1>4. CASE f \in DeliveryFindings
    BY <1>4 DEF DeliveryFindings, Finding, RefCodes
  <1>5. CASE f \in ComparisonFindings
    BY <1>5, RefFindingsCodes DEF ComparisonFindings, RefCodes
  <1>6. CASE f \in ReceiptDefects
    BY <1>6 DEF ReceiptDefects, Finding, RefCodes
  <1>7. CASE IsUsable(IssuerPin) /\ f \in RefClashes
    BY <1>7 DEF RefClashes, Finding, RefCodes
  <1> QED BY <1>1, <1>2, <1>3, <1>4, <1>5, <1>6, <1>7 DEF Findings

Against(f) == {r \in input.receipts : IssuerSigned(r) /\ f.on \in {r.claims.ref, r.claims.nonce}}

LEMMA TermsAreFounded ==
  ASSUME IInv, IsUsable(IssuerPin), IsUsable(PublisherPin), NEW f \in TermsMismatches
  PROVE  PublisherSigned /\ \E r \in Against(f) : Names(r) /\ Departs(r.claims, input.manifest.body)
  <1>1. PICK r \in AcceptedReceipts : /\ f = Finding("manifest-terms-mismatch", r.claims.ref)
                              /\ ~ManifestRejected /\ Names(r) /\ Departs(r.claims, input.manifest.body)
    BY DEF TermsMismatches
  <1>2. r \in Against(f)
    BY <1>1, AcceptedIsSigned DEF Against, Finding
  <1> QED BY <1>1, <1>2, PublisherIsBehindTerms

LEMMA DeliveryIsFounded ==
  ASSUME IInv, IsUsable(IssuerPin), IsUsable(PublisherPin), NEW f \in DeliveryFindings
  PROVE  /\ PublisherSigned
         /\ \E r \in Against(f) : /\ Names(r) /\ PayeeSigned(r)
                                  /\ r.counter.delivered # input.manifest.body.acceptance
  <1>1. PICK r \in Approved :
          /\ f = Finding("delivery-mismatch", r.claims.nonce) /\ ~ManifestRejected /\ Names(r)
          /\ r.counter.delivered \notin {"absent", input.manifest.body.acceptance}
    BY DEF DeliveryFindings
  <1>2. r \in AcceptedReceipts
    BY DEF Approved, Countersigned
  <1>3. r \in Against(f)
    BY <1>1, <1>2, AcceptedIsSigned DEF Against, Finding
  <1> QED BY <1>1, <1>3, PublisherIsBehindTerms, ApprovedIsSigned

LEMMA RefChargesAreFounded ==
  ASSUME IInv, IsUsable(IssuerPin), NEW f \in ComparisonFindings, f.code = "receipt-without-settlement"
  PROVE  Against(f) # {}
  <1>1. PICK ref : f \in RefFindings(ref)
    BY DEF ComparisonFindings
  <1>2. PICK r \in SettledUnder(InScope, ref) : f = Finding("receipt-without-settlement", r.claims.nonce)
    BY <1>1 DEF RefFindings, FindingIf, Finding
  <1>3. r \in AttestedReceipts
    BY DEF SettledUnder, InScope
  <1> QED BY <1>2, <1>3, AcceptedIsSigned DEF Against, Finding

LEMMA ClashesAreFounded ==
  ASSUME IInv, IsUsable(IssuerPin), NEW f \in RefClashes PROVE Cardinality(Against(f)) > 1
  <1>1. PICK r \in AcceptedReceipts : /\ f = Finding("duplicate-ref", r.claims.ref)
                              /\ Cardinality(SettledUnder(AcceptedReceipts, r.claims.ref)) > 1
    BY DEF RefClashes
  <1> DEFINE S == SettledUnder(AcceptedReceipts, r.claims.ref)
  <1>2. S \subseteq Against(f)
    BY <1>1, AcceptedIsSigned DEF Against, SettledUnder, Finding
  <1>3. IsFiniteSet(Against(f))
    BY FS_Subset DEF Against, IInv, IsInput
  <1>4. /\ IsFiniteSet(S) /\ Cardinality(S) <= Cardinality(Against(f))
    BY <1>2, <1>3, FS_Subset
  <1>5. Cardinality(S) \in Nat /\ Cardinality(Against(f)) \in Nat
    BY <1>3, <1>4, FS_CardinalityType
  <1> QED BY <1>1, <1>4, <1>5

(* With a key pinned for the rail, the issuer and the publisher, no charge *)
(* of terms, delivery, settlement or a ref used twice rests on a document  *)
(* those keys did not sign, whatever was changed (auditDetailed, where a   *)
(* refused document is still in hand).                                     *)
THEOREM TrustChargesAreFounded == TrustSpec => []ChargesAreFounded
  <1>1. IInv => ChargesAreFounded
    <2> SUFFICES ASSUME IInv, IsUsable(RailPin), IsUsable(IssuerPin), IsUsable(PublisherPin),
                        NEW f \in Findings
                 PROVE  LET against == Against(f)
                        IN  CASE f.code = "manifest-terms-mismatch" ->
                                   /\ PublisherSigned
                                   /\ \E r \in against : Names(r) /\ Departs(r.claims, input.manifest.body)
                              [] f.code = "delivery-mismatch" ->
                                   /\ PublisherSigned
                                   /\ \E r \in against :
                                        /\ Names(r) /\ PayeeSigned(r)
                                        /\ r.counter.delivered # input.manifest.body.acceptance
                              [] f.code \in {"settlement-mismatch", "settlement-without-receipt"} ->
                                   IsPresented(input.extract) => RailSigned
                              [] f.code = "receipt-without-settlement" ->
                                   against # {} /\ (IsPresented(input.extract) => RailSigned)
                              [] f.code = "duplicate-ref" ->
                                   \/ Cardinality(against) > 1
                                   \/ IsPresented(input.extract) => RailSigned
                              [] OTHER -> TRUE
      BY DEF ChargesAreFounded, Against
    <2>1. f \in ComparisonFindings => (IsPresented(input.extract) => RailSigned)
      BY RailIsBehindRows
    <2>2. CASE f.code = "manifest-terms-mismatch"
      BY <2>2, FindingsByCode, TermsAreFounded
    <2>3. CASE f.code = "delivery-mismatch"
      BY <2>3, FindingsByCode, DeliveryIsFounded
    <2>4. CASE f.code \in {"settlement-mismatch", "settlement-without-receipt"}
      BY <2>1, <2>4, FindingsByCode DEF RefCodes
    <2>5. CASE f.code = "receipt-without-settlement"
      BY <2>1, <2>5, FindingsByCode, RefChargesAreFounded DEF RefCodes
    <2>6. CASE f.code = "duplicate-ref"
      BY <2>1, <2>6, FindingsByCode, ClashesAreFounded
    <2> QED BY <2>2, <2>3, <2>4, <2>5, <2>6
  <1> QED BY <1>1, InitInv, NextInv, PTL DEF TrustSpec
==============================================================================
