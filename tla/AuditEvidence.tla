--------------------------- MODULE AuditEvidence ---------------------------
(***************************************************************************)
(* The evidence axis of the audit: receipts linked by prevReceiptHash,     *)
(* checkpoints linked by prevCheckpointHash, a transparency log of         *)
(* checkpoints (checkpoint/src/checkpoint.ts), and what auditDetailed and  *)
(* runWindows make of the part of it they are shown (audit/src/index.ts,   *)
(* windows.ts).                                                            *)
(*                                                                         *)
(* The verifier pins the issuer's key and, with a witness, the log's.  Who *)
(* signed a receipt ("by") and whose key it carries beside the signature   *)
(* or in its kid ("key") are two things: anyone can write a key down.  A   *)
(* hash is the number of the document it is taken of; an instant is the    *)
(* number of the epoch it falls in.  What anyone does beyond the honest    *)
(* course is one of Liberties.                                             *)
(***************************************************************************)
EXTENDS Integers, FiniteSets, FiniteSetsExt, Sequences, SequencesExt

CONSTANTS Scenarios    \* the worlds to audit, by name

AllLiberties ==
  {"quiet",       \* an epoch without receipts is closed
   "redact",      \* the issuer signs a checkpoint with its totals withheld
   "fork",        \* the issuer links a receipt elsewhere than to its head
   "equivocate",  \* the issuer closes an epoch twice
   "foreign",     \* another key signs receipts and checkpoints
   "doctor",      \* a receipt is presented twice, or altered
   "withhold",    \* any part of the documents is presented
   "shuffle",     \* checkpoints are presented in any order
   "bare",        \* an inclusion receipt is presented without its body
   "swap"}        \* an inclusion receipt is presented with another body

(* A scenario's fields, below under their own names.                       *)
ASSUME EvidenceAssumption ==
  \A name \in DOMAIN Scenarios :
    LET world == Scenarios[name]
    IN  /\ {world.maxReceipts, world.maxCheckpoints, world.maxEpochs, world.maxWindows}
             \subseteq Nat
        /\ world.witnessed \in BOOLEAN
        /\ world.liberties \subseteq AllLiberties

VARIABLES scenario,     \* the world of this behaviour
          receipts,     \* every receipt signed
          checkpoints,  \* every checkpoint signed
          open,         \* the issuer's open epoch
          log,          \* the checkpoints the log has recorded
          shown,        \* per window: the receipts and checkpoints presented
          inclusions,   \* the inclusion receipts presented
          details       \* what auditDetailed returned per window

vars == <<scenario, receipts, checkpoints, open, log, shown, inclusions, details>>

MaxReceipts == Scenarios[scenario].maxReceipts
MaxCheckpoints == Scenarios[scenario].maxCheckpoints
MaxEpochs == Scenarios[scenario].maxEpochs
MaxWindows == Scenarios[scenario].maxWindows   \* windows a run may be cut into
Witnessed == Scenarios[scenario].witnessed     \* inclusion receipts are presented
Liberties == Scenarios[scenario].liberties

May(liberty) == liberty \in Liberties

NoHash == 0
Redacted == -1
NoCheckpoint == [id |-> NoHash]

Issuers(S) == {d \in S : d.by = "issuer"}
Id(S) == {d.id : d \in S}
NextId == Cardinality(receipts) + Cardinality(checkpoints) + 1
Oldest(S) == CHOOSE d \in S : \A x \in S : d.id <= x.id

InWindow(r, cp) == cp.start <= r.ts /\ r.ts < cp.end
Settled(S) == {r \in S : r.settled}

-----------------------------------------------------------------------------
(* The audit of one window: receipts R, checkpoints C at the places they   *)
(* are presented in, the checkpoint the window is anchored on, the         *)
(* inclusion receipts W.                                                   *)

Attests(d) == d.by = "issuer" /\ d.intact
Attested(R) == {r \in R : Attests(r)}

(* It carries the pinned key, whoever signed it.                           *)
BelongsToPin(r) == r.key = "issuer"

AttestedIn(presented) == Restrict(presented, {i \in DOMAIN presented : Attests(presented[i])})

(* The chain is rebuilt from the links: while exactly one receipt links to *)
(* the last one placed, it is next.                                        *)
HashAfter(placed, root) == IF placed = <<>> THEN root ELSE Last(placed).id
Linked(R, placed, root) == {r \in R \ Range(placed) : r.prev = HashAfter(placed, root)}
PlaceNext(R, placed, root) ==
  IF \E r \in R : Linked(R, placed, root) = {r}
  THEN Append(placed, CHOOSE r \in R : Linked(R, placed, root) = {r})
  ELSE placed

IssuerChain(R, root) ==
  LET walk[n \in 0 .. Cardinality(R)] ==
        IF n = 0 THEN <<>> ELSE PlaceNext(R, walk[n - 1], root)
  IN  walk[Cardinality(R)]

(* A finding names a document, an epoch, or the Whole of what was shown.   *)
Whole == 0
Finding(code, on) == [code |-> code, on |-> on]
FindingIf(broken, code, on) == IF broken THEN {Finding(code, on)} ELSE {}

(* A receipt that carries the pinned key but does not verify under it is   *)
(* walked too, so that the walk can name it.                               *)
(* Mutant of ChainWalk: everything presented is walked.                    *)
ChainWalkAll(R) == R
ChainWalk(R) == {r \in R : Attests(r) \/ BelongsToPin(r)}

(* What the walk names is a receipt it could not place, whichever of them  *)
(* is presented first, or else the first on the chain that does not verify.*)
NamedByWalk(R, root) ==
  LET chain == IssuerChain(ChainWalk(R), root)
      unplaced == ChainWalk(R) \ Range(chain)
      failed == {i \in DOMAIN chain : ~Attests(chain[i])}
  IN  IF unplaced # {} THEN unplaced
      ELSE IF failed # {} THEN {chain[Min(failed)]}
      ELSE {}

ReceiptChainBreak(R, root) ==
  FindingIf(NamedByWalk(R, root) # {}, "receipt-chain-break", Whole)

IssuerMismatches(R, C) ==
  {Finding("issuer-key-mismatch", r.id) : r \in {r \in R : ~Attests(r) /\ ~BelongsToPin(r)}}
  \cup {Finding("issuer-key-mismatch", cp.id) : cp \in {cp \in Range(C) : ~Attests(cp)}}

(* The last checkpoint before this window gives the two roots, if it meets *)
(* the first one of this window in epoch, time and hash.                   *)
First(C) == CHOOSE cp \in Range(C) : \A x \in Range(C) : cp.epoch <= x.epoch
Meets(anchor, first) ==
  /\ anchor.epoch + 1 = first.epoch
  /\ anchor.end = first.start
  /\ first.prev = anchor.id
Anchors(anchor, C) ==
  /\ anchor # NoCheckpoint
  /\ DOMAIN C # {}
  /\ Meets(anchor, First(C))
AnchorFindings(anchor, C) ==
  FindingIf(anchor # NoCheckpoint /\ ~Anchors(anchor, C), "window-coverage", Whole)
RootPrev(anchor, C) == IF Anchors(anchor, C) THEN anchor.head ELSE NoHash
FirstPrev(anchor, C) == IF Anchors(anchor, C) THEN anchor.id ELSE NoHash

Miscounts(cp, S) ==
  \/ cp.total \notin {Redacted, Cardinality(Settled(S))}
  \/ cp.count # Cardinality(S)
HeadOnChain(chain, cp) ==
  LET on == {i \in DOMAIN chain : InWindow(chain[i], cp)}
  IN  IF on = {} THEN NoHash ELSE chain[Max(on)].id

TotalMismatches(R, C, root) ==
  {Finding("checkpoint-total-mismatch", cp.id) :
     cp \in {cp \in Range(C) : Miscounts(cp, {r \in R : InWindow(r, cp)})}}
  \cup {Finding("checkpoint-head-mismatch", cp.id) :
          cp \in {cp \in Range(C) : cp.head # HeadOnChain(IssuerChain(R, root), cp)}}

HashBefore(C, i, firstPrev) ==
  LET before == {j \in DOMAIN C : j < i}
  IN  IF before = {} THEN firstPrev ELSE C[Max(before)].id

CheckpointChainBreak(C, firstPrev) ==
  FindingIf(\E i \in DOMAIN C : C[i].prev # HashBefore(C, i, firstPrev),
            "checkpoint-total-mismatch", Whole)

Covering(r, C) == {i \in DOMAIN C : InWindow(r, C[i])}

(* Mutant of WindowCoverage: a receipt in no window goes unnoticed.        *)
WindowCoverageOnce(R, C) ==
  {Finding("window-coverage", r.id) : r \in {r \in R : Cardinality(Covering(r, C)) > 1}}

(* The checkpoints are gone through in the order of their epochs.          *)
Precedes(C, j, i) == C[j].epoch < C[i].epoch \/ (C[j].epoch = C[i].epoch /\ j < i)
NextTo(C, j, i) ==
  Precedes(C, j, i) /\ ~\E k \in DOMAIN C : Precedes(C, j, k) /\ Precedes(C, k, i)
Abut(a, b) == b.epoch = a.epoch + 1 /\ b.start = a.end

WindowCoverage(R, C) ==
  {Finding("window-coverage", C[i].epoch) :
     i \in {i \in DOMAIN C : \E j \in DOMAIN C : NextTo(C, j, i) /\ ~Abut(C[j], C[i])}}
  \cup {Finding("window-coverage", r.id) : r \in {r \in R : Cardinality(Covering(r, C)) # 1}}

(* Bodies that came with an inclusion receipt, are the issuer's and are    *)
(* what the receipt binds.                                                 *)
(* Mutant of WitnessBodies: nothing the log recorded is compared.          *)
WitnessBodiesNone(W) == {}
WitnessBodies(W) ==
  {cp \in checkpoints : Attests(cp) /\ \E w \in W : w.body = cp.id /\ w.statement = cp.id}

(* The first epoch that clashes is the one named.                          *)
Equivocation(S) ==
  FindingIf(\E cp, x \in S : cp.epoch = x.epoch /\ cp.id # x.id, "equivocation", Whole)

(* Mutant of Accusing: an entry need not say whose it is.                  *)
AccusingAny(W) == W
Accusing(W) == {w \in W : \E cp \in checkpoints : cp.id = w.body /\ Attests(cp)}

(* Mutant of Withheld: what came with an entry counts as presented.        *)
WithheldFromPool(W, C) ==
  {Finding("checkpoint-withheld", w.statement) :
     w \in {w \in Accusing(W) : w.statement \notin Id(Range(C) \cup WitnessBodies(W))}}

Withheld(W, C) ==
  {Finding("checkpoint-withheld", w.statement) :
     w \in {w \in Accusing(W) : w.statement \notin Id(Range(C))}}

Warnings(W, C) ==
  {Finding("checkpoint-totals-redacted", cp.id) :
     cp \in {cp \in Range(C) : cp.total = Redacted}}
  \cup (IF ~Witnessed THEN {} ELSE
          {Finding("checkpoint-not-anchored", cp.id) :
             cp \in {cp \in Range(C) : \A w \in W : w.statement # cp.id}}
          \cup FindingIf(\E w \in W : w.body = NoHash /\ w.statement \notin Id(Range(C)),
                         "witness-entry-unattributable", Whole)
          \cup FindingIf(W # {}, "witness-inclusion-not-exercised", Whole))

LastAttested(C) ==
  IF DOMAIN C = {} THEN NoCheckpoint
  ELSE C[CHOOSE i \in DOMAIN C :
           \A j \in DOMAIN C : IF j < i THEN C[j].epoch < C[i].epoch
                                        ELSE C[j].epoch <= C[i].epoch]

AuditDetailed(R, presented, anchor, W) ==
  LET C == AttestedIn(presented)
      root == RootPrev(anchor, C)
  IN  [findings |-> IssuerMismatches(R, presented)
                    \cup AnchorFindings(anchor, C)
                    \cup ReceiptChainBreak(R, root)
                    \cup TotalMismatches(Attested(R), C, root)
                    \cup CheckpointChainBreak(C, FirstPrev(anchor, C))
                    \cup WindowCoverage(Attested(R), C)
                    \cup Equivocation(Range(C) \cup WitnessBodies(W))
                    \cup Withheld(W, C),
       warnings |-> Warnings(W, C),
       last |-> LastAttested(C)]

-----------------------------------------------------------------------------
(* The issuer, the log and others.                                         *)

Init ==
  /\ scenario \in DOMAIN Scenarios
  /\ receipts = {} /\ checkpoints = {} /\ open = 1 /\ log = {}
  /\ shown = <<>> /\ inclusions = {} /\ details = <<>>

World == shown = <<>>

NewReceipt(by, key, prev, ts, settled) ==
  [id |-> NextId, by |-> by, key |-> key, intact |-> TRUE, prev |-> prev, ts |-> ts,
   settled |-> settled, copy |-> 1]

HeadOf(S) == IF S = {} THEN NoHash ELSE Max(Id(S))

(* The issuer's receipts are linked in the order they are cut.             *)
CutReceipt ==
  /\ World /\ Cardinality(receipts) < MaxReceipts /\ open <= MaxEpochs
  /\ \E settled \in BOOLEAN,
        prev \in {HeadOf(Issuers(receipts))}
                 \cup (IF May("fork") THEN Id(Issuers(receipts)) \cup {NoHash} ELSE {}) :
       receipts' = receipts \cup {NewReceipt("issuer", "issuer", prev, open, settled)}
  /\ UNCHANGED <<scenario, checkpoints, open, log, shown, inclusions, details>>

(* Another key's receipt, in its own name or dressed in the issuer's key.  *)
ForeignReceipt ==
  /\ World /\ May("foreign") /\ Cardinality(receipts) < MaxReceipts
  /\ \E key \in {"other", "issuer"}, prev \in Id(receipts) \cup {NoHash}, ts \in 1 .. MaxEpochs :
       receipts' = receipts \cup {NewReceipt("other", key, prev, ts, TRUE)}
  /\ UNCHANGED <<scenario, checkpoints, open, log, shown, inclusions, details>>

(* Mutant of CheckpointClaims: the first receipt is taken for the head.    *)
CheckpointClaimsFirst(by, epoch, S, prev, redacted) ==
  [id |-> NextId, by |-> by, intact |-> TRUE,
   epoch |-> epoch, start |-> epoch, end |-> epoch + 1,
   count |-> Cardinality(S),
   head |-> IF S = {} THEN NoHash ELSE Oldest(S).id,
   total |-> IF redacted THEN Redacted ELSE Cardinality(Settled(S)),
   prev |-> prev]

CheckpointClaims(by, epoch, S, prev, redacted) ==
  [id |-> NextId, by |-> by, intact |-> TRUE,
   epoch |-> epoch, start |-> epoch, end |-> epoch + 1,
   count |-> Cardinality(S),
   head |-> HeadOf(S),
   total |-> IF redacted THEN Redacted ELSE Cardinality(Settled(S)),
   prev |-> prev]

CutIn(epoch) == {r \in Issuers(receipts) : r.ts = epoch}
Closing(epoch) == {cp \in Issuers(checkpoints) : cp.epoch = epoch}
MaybeRedacted == IF May("redact") THEN BOOLEAN ELSE {FALSE}
PrevOf(epoch) == IF epoch = 1 THEN {NoHash} ELSE Id(Closing(epoch - 1))

CloseEpoch ==
  /\ World /\ open <= MaxEpochs /\ Cardinality(checkpoints) < MaxCheckpoints
  /\ CutIn(open) # {} \/ May("quiet")
  /\ \E redacted \in MaybeRedacted, prev \in PrevOf(open) :
       checkpoints' = checkpoints
         \cup {CheckpointClaims("issuer", open, CutIn(open), prev, redacted)}
  /\ open' = open + 1
  /\ UNCHANGED <<scenario, receipts, log, shown, inclusions, details>>

(* The issuer signs another checkpoint of an epoch it has closed, over     *)
(* part of its receipts.                                                   *)
CloseAgain ==
  /\ World /\ May("equivocate") /\ Cardinality(checkpoints) < MaxCheckpoints
  /\ \E epoch \in 1 .. open - 1 :
       \E S \in SUBSET CutIn(epoch) \ {CutIn(epoch)}, prev \in PrevOf(epoch) :
         checkpoints' = checkpoints
           \cup {CheckpointClaims("issuer", epoch, S, prev, FALSE)}
  /\ UNCHANGED <<scenario, receipts, open, log, shown, inclusions, details>>

ForeignCheckpoint ==
  /\ World /\ May("foreign") /\ Cardinality(checkpoints) < MaxCheckpoints
  /\ \E epoch \in 1 .. MaxEpochs, prev \in Id(checkpoints) \cup {NoHash} :
       checkpoints' = checkpoints
         \cup {CheckpointClaims("other", epoch, {r \in receipts : r.ts = epoch}, prev, FALSE)}
  /\ UNCHANGED <<scenario, receipts, open, log, shown, inclusions, details>>

Register ==
  /\ World /\ Witnessed
  /\ \E cp \in checkpoints : cp.id \notin log /\ log' = log \cup {cp.id}
  /\ UNCHANGED <<scenario, receipts, checkpoints, open, shown, inclusions, details>>

-----------------------------------------------------------------------------
(* The presentation, and the run over it.                                  *)

(* The windows of the run: consecutive groups of the closed epochs.        *)
Cuts(n) ==
  {cut \in UNION {[1 .. m -> SUBSET (1 .. n)] : m \in 1 .. MaxWindows} :
     /\ UNION Range(cut) = 1 .. n
     /\ \A i \in DOMAIN cut : cut[i] # {}
     /\ \A i, j \in DOMAIN cut : i < j => \A e \in cut[i], f \in cut[j] : e < f}

Copies(r) == {[r EXCEPT !.copy = 2], [r EXCEPT !.intact = FALSE]}
Doctored == {{}} \cup (IF May("doctor") THEN {{d} : d \in UNION {Copies(r) : r \in receipts}} ELSE {})
Closed(S) == {r \in Issuers(S) : r.ts < open}

ShowReceipts ==
  IF May("withhold") THEN {S \cup D : S \in SUBSET receipts, D \in Doctored} ELSE {Closed(receipts)}
ShowCheckpoints == IF May("withhold") THEN SUBSET checkpoints ELSE {Issuers(checkpoints)}
InOrder(seq) ==
  \A i, j \in DOMAIN seq : i < j =>
    seq[i].epoch < seq[j].epoch \/ (seq[i].epoch = seq[j].epoch /\ seq[i].id < seq[j].id)
Orders(S) == {seq \in SetToSeqs(S) : May("shuffle") \/ InOrder(seq)}

Bodies(statement) ==
  {statement} \cup (IF May("bare") THEN {NoHash} ELSE {})
              \cup (IF May("swap") THEN Id(checkpoints) ELSE {})

Present ==
  /\ World /\ open > 1
  /\ \E cut \in Cuts(open - 1), R \in ShowReceipts, C \in ShowCheckpoints :
       LET part(i) == {cp \in C : cp.epoch \in cut[i]}
       IN  \E seqs \in [DOMAIN cut -> UNION {Orders(part(i)) : i \in DOMAIN cut}] :
             /\ \A i \in DOMAIN cut : seqs[i] \in Orders(part(i))
             /\ shown' = [i \in DOMAIN cut |->
                            [receipts |-> {r \in R : r.ts \in cut[i]},
                             checkpoints |-> seqs[i]]]
  /\ \E body \in [log -> UNION {Bodies(s) : s \in log}] :
       /\ \A s \in log : body[s] \in Bodies(s)
       /\ inclusions' = {[statement |-> s, body |-> body[s]] : s \in log}
  /\ UNCHANGED <<scenario, receipts, checkpoints, open, log, details>>

(* Each window is anchored on the last checkpoint the pin attests in the   *)
(* one before; every window is given all the inclusion receipts.           *)
AnchorOf(i) == IF i = 1 THEN NoCheckpoint ELSE details[i - 1].last

AuditWindow ==
  /\ Len(details) < Len(shown)
  /\ LET i == Len(details) + 1
     IN  details' = Append(details,
           AuditDetailed(shown[i].receipts, shown[i].checkpoints, AnchorOf(i), inclusions))
  /\ UNCHANGED <<scenario, receipts, checkpoints, open, log, shown, inclusions>>

Next ==
  \/ CutReceipt \/ ForeignReceipt \/ CloseEpoch \/ CloseAgain \/ ForeignCheckpoint
  \/ Register \/ Present \/ AuditWindow
Spec == Init /\ [][Next]_vars

-----------------------------------------------------------------------------
(* Properties.                                                             *)

Audited == shown # <<>> /\ Len(details) = Len(shown)
Findings == UNION {details[i].findings : i \in DOMAIN details}
Accepted == Audited /\ Findings = {}
ShownReceipts == UNION {shown[i].receipts : i \in DOMAIN shown}
ShownCheckpoints == UNION {Range(shown[i].checkpoints) : i \in DOMAIN shown}

(* An issuer that links each receipt to the one before and closes each     *)
(* epoch once, over all its receipts, is accepted when all of it is        *)
(* presented in the order of the epochs, in however many windows.          *)
IssuerIsHonest ==
  /\ \A r \in Issuers(receipts) :
       r.prev = HeadOf({x \in Issuers(receipts) : x.id < r.id})
  /\ \A cp, x \in Issuers(checkpoints) : cp.epoch = x.epoch => cp = x

AllIsShown ==
  /\ ShownReceipts = Closed(receipts)
  /\ ShownCheckpoints = Issuers(checkpoints)
  /\ \A i \in DOMAIN shown : \A j, k \in DOMAIN shown[i].checkpoints :
       j < k => shown[i].checkpoints[j].epoch < shown[i].checkpoints[k].epoch
  /\ \A w \in inclusions : w.body = w.statement

HonestEvidencePasses == Audited /\ IssuerIsHonest /\ AllIsShown => Findings = {}

(* What an accepted run says about completeness: of an issuer that told    *)
(* one story, the receipts presented are exactly those it cut in the       *)
(* epochs presented, and these are the first ones, none left out.          *)
AcceptedIsComplete ==
  Accepted /\ IssuerIsHonest =>
    LET epochs == {cp.epoch : cp \in ShownCheckpoints}
    IN  /\ epochs = 1 .. Cardinality(epochs)
        /\ Id(ShownReceipts) = Id({r \in Issuers(receipts) : r.ts \in epochs})
        /\ \A r, x \in ShownReceipts : r.id = x.id => r = x

(* Documents another key signed change nothing but the findings that name  *)
(* them: they neither break the issuer's totals nor mend its chain.  One   *)
(* that carries the issuer's key is always named, by the walk; this is the *)
(* only way in which another key can have the chain reported broken.       *)
Charges(report) == {f \in report.findings : f.code # "issuer-key-mismatch"}
Dressed(R) == {r \in R : r.by # "issuer" /\ BelongsToPin(r)}

ForeignChangesNothing ==
  \A i \in DOMAIN details :
    LET ours == AuditDetailed(Issuers(shown[i].receipts),
                              AttestedIn(shown[i].checkpoints), AnchorOf(i), inclusions)
    IN  Charges(details[i]) =
          Charges(ours) \cup FindingIf(Dressed(shown[i].receipts) # {}, "receipt-chain-break", Whole)

(* "Walks the chain so the walk can name it": when an honest issuer's      *)
(* receipts are all presented, what the walk names is one that the issuer  *)
(* did not sign, not one of its own.  This does not hold: a dressed        *)
(* receipt that links where an honest one does leaves both without a place.*)
WalkNamesTheUnsigned ==
  Audited /\ IssuerIsHonest /\ Issuers(ShownReceipts) = Closed(receipts) =>
    \A i \in DOMAIN shown :
      LET root == RootPrev(AnchorOf(i), AttestedIn(shown[i].checkpoints))
      IN  Attested(NamedByWalk(shown[i].receipts, root)) = {}

(* No body is another statement's.  The code does not ask that of a body   *)
(* when it charges the issuer with a withheld checkpoint.                  *)
BodiesBelong == \A w \in inclusions : w.body \in {NoHash, w.statement}

(* A window accepted with a witness, with no entry left unattributable,    *)
(* has shown every checkpoint of the issuer's the log recorded; so no two  *)
(* verifiers can accept different tellings of a recorded epoch.  Stripping *)
(* the body off an entry does not bury it.                                 *)
RecordedIsShown ==
  Accepted /\ BodiesBelong /\ (\A i \in DOMAIN details : \A w \in details[i].warnings :
                                  w.code # "witness-entry-unattributable")
  => {cp \in Issuers(checkpoints) : cp.id \in log} \subseteq ShownCheckpoints

(* Two recorded checkpoints of one epoch whose entries come with their     *)
(* bodies are named as equivocation, whichever of them is presented and    *)
(* whatever else the log holds.                                            *)
EquivocationIsNamed ==
  Audited =>
    \A cp, x \in Issuers(checkpoints) :
      /\ cp.epoch = x.epoch /\ cp # x
      /\ {[statement |-> id, body |-> id] : id \in {cp.id, x.id}} \subseteq inclusions
      => Finding("equivocation", Whole) \in Findings

(* The issuer is charged with withholding only what it signed, the log     *)
(* recorded and the run was not shown.                                     *)
WithheldIsWithheld ==
  Audited /\ BodiesBelong => \A f \in Findings : f.code = "checkpoint-withheld" =>
    /\ f.on \in Id(Issuers(checkpoints)) \cap log
    /\ f.on \notin Id(ShownCheckpoints)
=============================================================================
