# Cedulon: a verification project

Cedulon is the audit layer for payments that agents make. A policy engine decides whether a payment
may be made; a settlement makes it, in process or on an external rail, and cuts a signed receipt;
receipts form a hash chain that checkpoints summarise and a transparency log publishes; an audit
reconciles the receipts with the rail's own signed extract and names what does not match. An MCP
server offers this to an agent and keeps its state in one file.

This directory models that code in TLA+, checks the models with TLC on small instances and proves
theorems about them with TLAPS. Every definition is translated from the source under `src/`;
`PROJECT.json` maps each to its lines.

## Inventory

Sources are under `src/packages/`. "State" is what a component keeps between calls.

| Component | Sources | State | Operations | What makes it correct | Here |
|---|---|---|---|---|---|
| Policy engine | `core/src/policy.ts`, `store.ts`, `decision-token.ts`, `fail-closed.ts` | used nonces, consumed decisions, window counters, next decision id | evaluate, consumeDecision, consumeDecisionToken, release | limits hold in every window; a nonce and a decision pay once; a release gives back only what was taken, where it was taken | modelled, proved |
| Gated settlement | `x402-adapter/src/index.ts`, `mcp-guard/src/index.ts`, `manifest/src/index.ts` | the ledger; the engine's store | gatedSettle, gatedSettleWithLedger, the guard around a tool, unguardedSettle, bypassRailOnly | no receipt without held authority, no row without a receipt; the terms named are the terms decided on | modelled, proved |
| State lock | `mcp-server/src/session.ts` (`withStateLock` and below) | lock file, temporary files | claim, judge holder, take over, release, sweep, write and rename | one writer at a time; a dead writer's lock and temporary file go away | modelled, safety proved |
| Settlement session and journal | `mcp-server/src/session.ts`, `journal.ts` | receipts, journal, engine store; in memory and in the file; last seen fingerprint | spend, submitExternal, retryIndeterminate, resolveIndeterminate, reload, start with recovery | money that moved has a receipt or an open row; authority comes back only when no money moved; no save loses another's receipt | modelled in part, proved |
| Reconciliation and windows | `audit/src/index.ts`, `windows.ts`, `profile.ts` | none | classify rows and receipts, defer at edges, join consecutive windows | everything lands in one class; what one window defers the next settles; nothing uncovered passes as balanced | modelled in part, edges proved |
| Audit evidence | `audit/src/index.ts`, `windows.ts`, `checkpoint/src/checkpoint.ts` | none | walk the receipt chain, verify checkpoints, totals, anchors, equivocation, the witness comparison | what is accepted is complete; who is charged is to blame; what balances is signed by the keys pinned for it | modelled in part, trust proved |
| Transparency log | `checkpoint/src/transparency.ts` | leaves | append, root, inclusion proof, verification | a proof verifies exactly for what was registered | modelled, proved |
| Deterministic CBOR | `cose/src/cbor.ts` | none | encode, decode | one spelling per value; bounds; round trip | modelled |
| Receipts | `receipts/src/index.ts` | none | sign, countersign, verify with and without a pin, hash, verify chain | what verifies is what the issuer signed; a countersignature is on the receipt it names | modelled, proved |
| Checkpoints | `checkpoint/src/checkpoint.ts` | none | build claims, sign, verify a sequence | epochs and totals follow from the receipts | modelled |
| COSE and canonical JSON | `cose/src/cose.ts`, `signer.ts`, `core/src/canonical.ts`, `types.ts` | none | write and read a Sign1 message, canonical form, the grammars of claims | one reading per message; nothing is verified that was not signed | modelled, proved |
| Rail extract | `x402-adapter/src/rail.ts` | none | sign, verify, extract of a ledger | only a body of the right shape is signed or accepted | modelled, proved |
| Base extract | `base-extract/src/*` | none | fetch transfers and block times; send a transfer when asked to twice | a settled range is reported exactly | modelled in part, proved |
| Effect extract, decision records and tokens | `effect-extract/src/effect.ts`, `core/src/decision-record.ts`, `decision-token.ts` | none | sign, verify | the rules of the claims outlive a signer that skips them | modelled, proved |
| Decision profile and presented forms | `audit/src/profiles/decision.ts`, `presented-form.ts` | none | bind effects to decisions, check the form of a presented object | form and pin together leave nothing unsigned | modelled in part, proved |
| MCP tools | `mcp-server/src/index.ts` | none of its own | dispatch of tools to the session | a thrown error becomes a refusal by name | not modelled |
| Key sealing | `mcp-server/src/dpapi.ts`, `session.ts` (`protect`, `load`, `reload`) | the key in memory and in the file | seal, open, load, reload, put back | what is held together is of one key | modelled, proved |
| Demos, site, interop, conformance, scripts | `src/examples`, `src/site`, `src/interop`, `src/conformance`, `src/scripts` | | | | not modelled: consumers and build tooling |

Components meet in three ways. The gate and the session *call* the engine and the ledger
synchronously, the session under the state lock. Sessions of several processes *share* the state file
and the lock file beside it, and nothing else. The audit *reads* what a session, a rail and a log
signed, in whatever selection and order it is handed. What is hard is a call that crosses two durable
writes and a rail the process does not control, while another process can start, load, take a lock
over or write between any two steps, a process can stop and any write can fail; and an audit whose
windows cut through payments, whose clocks disagree and whose presenter chooses what to show.
`PROJECT.json` lists each such hazard at its line with the property that would catch it.

## Modules

| Module | Models |
|---|---|
| `PolicyRules` | the arithmetic of the window: roll, room, take, give back. No state. |
| `Totals`, `Totals_proofs` | what a set of records that have amounts adds up to, as a cardinality, so that sums need no recursion; lemmas about it |
| `PolicyEngine` | one store and every call on it, with clock readings in any order |
| `PaymentGate` | settlements through the gate and past it, beside the engine's own callers; extends `PolicyEngine` |
| `PaymentGate_proofs` | the engine's inductive invariant and the theorems about engine and gate together |
| `StateLock` | the lock file, step by step, as several processes run it |
| `StateLock_proofs` | its inductive invariant and theorems |
| `SpendAuthority` | what the journal promises: each nonce is an authority to move money at most once |
| `SettlementSession` | several servers on one state file, an external rail, stops and failed writes; extends `PolicyRules`, implements `SpendAuthority` |
| `SettlementSession_proofs` | its inductive invariant, the theorems about money and receipts, the refinement of `SpendAuthority` |
| `KeySeal` | the receipt key of sessions that share a file, sealed or in the clear |
| `AuditWindows`, `AuditWindows_proofs` | the money axis of the audit in both profiles, one window and the run over several |
| `AuditEvidence`, `AuditEvidence_proofs` | the evidence axis: chains, checkpoints, totals, witness |
| `AuditTrust`, `AuditTrust_proofs` | whose word an audit takes: pins, refused documents, terms, delivery, the guarantee |
| `CoseSign1` | the Sign1 envelope |
| `ClaimSets` | what may stand in the place of a claim, and the grammars |
| `SignedReceipts`, `SignedStatements`, `SignedExtracts` | the kinds of document, their rules, signers and verifiers; extend `ClaimSets` |
| `PresentedForm` | `checkPresentedForm`; extends the three |
| `SignedDocuments` | one document from its signer to its readers; extends `PresentedForm` |
| `BaseExtract` | the extract of a chain that moves while it is asked, and the transfers the write side sends |
| `TransparencyLog` | the Merkle tree, registration and verification |
| `DeterministicCbor` | the encoder and the decoder as functions, and edited octets between them |
| `Documents_proofs` | the inductive invariants of `TransparencyLog`, `SignedDocuments`, `BaseExtract` and `KeySeal`, and the theorems about each |
| `MC*` | constants for TLC; `MCDocuments` puts six modules side by side, each a world of its own (five by `EXTENDS`, so that its properties are those of the proofs, `DeterministicCbor` by `INSTANCE`) |

Definitions named as mutants in their comments are plausible mistakes; no specification uses them.
Substituted for the definition they follow they make a run fail, which shows that its property
depends on that line of the code.

### PolicyEngine

`counters`, `usedNonces`, `consumedDecisions`, `nextDecision` are the store. The rest is history:
the decisions callers hold, the reserves taken and not given back with the window each was taken in,
and what was paid. Refusals that change nothing are not steps. Two refusals do change the store:
one after `rollWindow` opened a window (`EvaluateNoRoom`), and one where hashing the request throws
after the nonce and the room were taken (`EvaluateFault`). `Reserved` is what an allow takes from the
store, whoever asked. Any action may bring any clock reading, because a release carries the time of
an old journal row and two servers' clocks differ. Only the settlement journal calls `release`, for a
reserve whose decision it holds and never consumes.

### PaymentGate

A call of the gate is one synchronous function and so one step: `GateSettles` (reserve, consume, sign,
record), `GateExpires` (the token expired between the request's clock and the gate's), `GateThrows`
(the payer's name cannot be signed), `GateRefuses` (the engine refused and changed its store).
`UnguardedSettle` and `BypassRailOnly` ask no engine. `PassesGate` and `PassesUnguarded` are the
checks before the engine, which differ: the second looks neither at expiry nor at a trusted key. The
guard around a tool (`ToolCall`) hands the gate no trusted key, so a manifest presented through it is
always refused. `PolicyEngine!Next` interleaves unchanged. A manifest is its hash; `Terms` says what
it states and by which key it is signed, and signatures are ideal. Callers leave `req.manifestHash`
to the gate, as all callers in the repository do: a caller that fills it in and presents no manifest
is evaluated on that hash and receives a receipt with none, which the model leaves out.

### StateLock

`pc` follows a process through `withStateLock`: the sweep, the exclusive create, the write of the
pid, reading and judging the holder, the unlink, the second create, saves inside, and the unlink on
the way out. The sweep runs before the lock is asked for and is itself several steps: the directory
is read (`ListTemps`, into `listed`), the pid in each name is looked up (`JudgeTemp`, into `doomed`),
and what was judged stale is removed by name (`RemoveTemp`), each a system call after which any other
process may act. A save's write may fail and leave its temporary file; stops and such failures are the
faults `MaxFaults` bounds. `file` is what the name stands for; a process that writes its pid writes to the file it
created, which another may have unlinked. `stolen` and `outdated` are history: whose lock was
unlinked by another, and who judged a lock that has changed since, or a pid that has been taken up
since. A process is a pid, so a restart is also a new process under an old pid.

That is why the sweep does not keep what its comment says: a server started under the pid just found
gone can claim the lock and write its temporary file before the sweep removes that name
(`TempSurvives` does not hold, see "Other differences"). What it keeps is `TempLostOnlyToReuse`: a save loses its file in
no other way. The rename of that save then fails, which `SettlementSession` has as a failed write.

One assumption is in `Age`: a writer does not pause a minute between create and write, nor a reader
between its read and its stat while the lock changes. The code takes it (`UNREADABLE_LOCK_GRACE_MS`).

### SettlementSession

A *view* is what is persisted, with the journal folded to the last row per nonce and the two things
`resolveIndeterminate` reads from earlier rows (the times of the attempts since the reserve, and the
last). `disk` is the file, `mem` one view per session. `lastSeenState` is a hash that is only
compared for equality with the file's, and every save adds a row or a receipt, so the model keeps
`agrees`, the sessions for which the comparison succeeds. `submitExternal` is the steps
`SubmitPrepare`, `SubmitMark`, `RailSubmit`, `Record`: one per durable write and one for the rail.
Calls that hold the lock throughout and write once are one step. A write that fails leaves memory as
the code leaves it: undone before the first durable row, kept after it. A start or reload is
`Start`/`Reload` (the read), `Fingerprint` (the second read), `RecoverJournal` or `RecoverFails`.

Amounts are one constant here, because limits are `PolicyEngine`'s subject. The lock is an atomic
`holder`; `StateLock` has its steps and the case where it fails. With `QuietLoads` no session saves
between another's load and its fingerprint; `session` assumes it, and `session_torn` shows what
happens without it. `RailLag` is how many ticks after a call read its clock the rail may date the
payment. It is 0 in every run: the server's clock and the rail's agree within the resolution of the
window. With 1 `ReleasedMeansUnpaid` fails (see below).

### AuditWindows

First the world is built: `Settle` adds a row to an extract, `Sign` a receipt to a bag, each at its
own clock, `PresentAgain` hands a receipt in with a second window. Then `AuditWindow` runs
`auditDetailed` on each window in turn and `CloseRun` the run's own passes. The operators follow the
code's lists: what is in scope, refs used more than once, carried, hard and deferred receipts and
rows, and over the run what is resolved or hardened. A report is its findings, warnings, counters
and deferrals.

In the decision profile a row is an effect and a receipt a decision record: the profile's names for
the findings, `Bind` on effect hash and class (`unit` stands for the class), no amounts to add up,
and refs that several decisions share are counted, not matched. The scenario `decision` has it.

Left out: the verifier pins one rail key and one issuer key, every receipt is attested, the
checkpoints cover exactly the extract's window, one currency, no beneficiaries, no malformed amounts.
`HonestRunBalances` assumes windows at least as long as the skew allowance (`WindowsAreLong`);
between shorter ones two honest clocks can be two windows apart, further than a neighbour is asked.
A payment may be of nothing (the grammar of amounts has "0"): a ref that several such rows repeat is
compared by a total of zero, which equals the sum over no receipts, so `UncoveredIsNamed` asks there
only for the `duplicate-ref` the code reports (`Accusations`).

### AuditEvidence

An issuer cuts receipts into its open epoch and closes epochs with a checkpoint, a log records
checkpoints, someone presents a part of it cut into windows, and `AuditWindow` audits each, anchored
on the last attested checkpoint of the one before. Honest behaviour is always possible; everything
else is a *liberty* a scenario grants: redacting totals, forking the chain, closing an epoch twice,
documents by other keys, altering, withholding, reordering, taking the bodies off log entries or exchanging them. A
hash is the number of the document it is taken of, an instant the number of its epoch. Epochs without
receipts occur only in the `log` scenario and in `evidence_quiet`, which shows why.

Who signed a receipt (`by`) and whose key it carries, as text or as kid (`key`), are two fields. The
report depends on both:

| Verifies under the pin | Carries the pinned key | The code |
|---|---|---|
| yes | either | attested: walked, counted, covered |
| no | yes | walked and not counted; the walk breaks on it (`NamedByWalk`), `issuer-key-mismatch` does not name it |
| no | no | named by `issuer-key-mismatch`, read by nothing else |

So another key can have the chain reported broken, by carrying the issuer's key, and in no other way
(`ForeignChangesNothing`). The draft wants it so (`draft-dogru-cedulon-core-05.md:1146-1151`), the
comment in the code does not (`audit/src/index.ts:2326-2329`). Which receipt the finding
names is another matter: see "Other differences".

With the liberty `swap` an entry of the log comes with the body of another. `WithheldIsWithheld` and
`RecordedIsShown` then say nothing (`BodiesBelong`), because the code does not compare the two where
it charges the issuer (see "Other differences"); the other properties hold as they stand.

Left out: pins, countersignatures and the manifest (`AuditTrust`), tier-2 inclusion (that is
`TransparencyLog`).

### AuditTrust

The evidence of two honest payments is presented: the first under the publisher's terms and
countersigned by the payee, the second with neither. `Pinnings` is the auditor's choice of pins: all
of them, or one of them not stated, unreadable, a stranger's or beside an unreadable one; another
account or none; another start of the window or none; no end. Up to `MaxTampers` changes follow:
`HandRows`, `ChangeReceipt`, `ChangeManifest`, `ChangeExtract`, each to whose signature a document
has, what its body says, what is shown beside its octets, or whether it is there.
The report is a function of what is presented, in the code's order, because what an earlier check
refuses decides what later ones may read: the extract's pin, the manifest's, the receipts, the
countersignatures, terms, delivery, and last `Unconditional`, the guarantee. `BalancedMeansRooted`
and `ChargesAreFounded` are about both directions: what a clean report may rest on, and what a
charge may.

### KeySeal

`protectPrivatePem` seals and opens again before it trusts the result, and falls back to the clear;
a blob that does not open at a load leaves a session that refuses. Loading and fingerprint are two
steps, as in `SettlementSession`, and a reload that fails puts back what it held (`undo`). A save is
refused when the file is not the one last seen.

### The documents

`CoseSign1` has a message as a record of its parts, `fault` naming what a reader finds wrong first;
`ClaimSets` has a claim as one of a few values: good ones, and one for each way its grammar refuses.
Keys are values and a signature is the pair of a key and what it is on. `SignedReceipts`,
`SignedStatements` and `SignedExtracts` translate each kind's signer, verifier and rules;
`PresentedForm` the form checks of a presented object. `SignedDocuments` moves one document:
`IssueSigned` and `IssueJson` are the package's signers, `IssueUnchecked`, `IssueWeak` and `IssueLedger`
ones that skip rules, `CounterSigns` the payee's; `Change…` and `AddUnlisted` alter single parts of
what is shown, which several verifiers judge. Whatever is accepted is compared with what was issued.

### BaseExtract

`fetchUsdcExtract` is one step per question to the node, between which the chain grows (`Arrive`,
`Mine`) or gives its last block up (`Reorg`): `Fetch`, `ChainId`, `AnswerLogs` for both queries in
either order, `AnswerBlock` for each block's time and the boundary blocks; `RpcFails` ends any of
them. `Write` is `executeWrite`: a transfer is broadcast only when the call and the environment both
ask for it, and never with a key from the command line. What the node answers is a set of logs in an
order of its own, a log's index its place in the block; the code's loops over lists (`dedupeLogs`, the
set of block numbers, the filter of `logsToExtract`) each keep some places of a sequence (`Kept`).

### TransparencyLog

`register` appends and hands out a receipt with the path of the moment. A hash is a free term, and as
in the code leaves and nodes are hashed alike, so a statement that is the bytes of a node collides
with it. TLC tries every proof that can be built from the terms of the tree, not only the honest one.
The code's loops from level to level are recursive functions of the number of passes (`Levels`,
`Indices`), which TLC evaluates and the provers can be told about.

A head does not tell a log's length. An odd last node is paired with itself, so a log
of odd length has the head of the one that repeats its last statement, and a log of six that of the log
of eight that repeats the last two. What holds, for logs of any size, is that such a log adds nothing
new: `HeadsTellTheLogsApart` asks that everything registered since the same head had been registered
before.

### DeterministicCbor

Encoder and decoder are the functions `Encode` and `Decode`, refusals by name. `Then` is the
code's exception: the first refusal ends the reading. The behaviour is
small: a value is encoded and its octets are edited. The dialect's numbers are constants; TLC runs
one with 64 octets, heads of up to five octets, a "last safe integer" inside the widest form and
bounds of two or three, with values on both sides of each. The property of a bound is about what is
accepted, whatever order the checks come in. UTF-8 is reduced to octets that no text has.

### Scenarios

`AuditWindows` and `AuditEvidence` choose a `scenario` in `Init`, from a constant that names the
worlds to explore; `MCDocuments` chooses a module and leaves the variables of the others alone. The worlds are separate components of one state graph; one run covers them, and
each is as small as its subject allows.

## Runs

| Run | Shows | Bounds, and why they are enough |
|---|---|---|
| `gate` | limits, replay, consumption and release under two kinds of callers; receipts stand for held authority | three decisions, four clock readings over three windows of two; two payments that fit and one too many; one case per reason to refuse a request, a manifest or a token; one call past the gate |
| `lock` | exclusion up to theft, the judgement, what a sweep may take; orphaned locks and temporary files go away | three processes (a holder, a reader, a third that changes the lock between them), one stop or failed save: enough to leave a lock or a file, be judged gone, come back under the pid and save. For safety the theorems have any number of both |
| `lock_race` | violation: two live servers inside | two processes, no stop |
| `session` | money accounted for, no release of paid nonces, no lost receipt, implements `SpendAuthority` | two servers with one payment (the smallest that can lose a write), one with two payments (a second carries the first one's unsaved record to disk), until tick 3, which is in a second window; one failed write, one stop; two windows, retries in different ones |
| `session_progress` | no row stays prepared or submitted in the file | two servers, one payment, a stop, no failed write; loads are not quiet here, so nothing blocks a writer |
| `session_stuck`, `session_torn` | violations, see below | the smallest instance with the case |
| `audit_windows` | honest payments balance, nothing uncovered passes, deferral over a run, in both profiles | `two`: windows of three with allowance one, so that one instant is near no edge; `three`: windows shorter than twice the allowance, so that a row is near both; `bad`: gaps, overlaps, misfiled, repeated and refused documents; `decision`: effects as decided, of another content, of another class |
| `decision_edge` | violation, see below | the same scenarios |
| `evidence` | honest runs pass; accepted means complete; blame is deserved | six worlds of up to four receipts and three checkpoints over up to three windows; another key's receipts in its own name and in the issuer's |
| `evidence_quiet` | violation, see below | an epoch without receipts |
| `documents`, world `log` | every leaf provable, only what was registered accepted, heads distinguish logs | logs of eight statements reach every shape of padding, two levels of it included; all proofs of up to three siblings for logs of up to three |
| world `cbor` | one spelling; what is encoded is read back or refused by name, what is accepted is within the bounds | values at every boundary, two edits: one swap of entries or one respelled head with its payload |
| world `document` | what verifies was signed, approvals are of this receipt, nothing readable is unsigned, rules outlive the signer, the package accepts its own | every kind, two changed parts: one of the octets and one of what travels beside them |
| world `base` | a settled range is reported exactly | three blocks, one taken back, three transactions: to oneself, several transfers in one, of no amount |
| world `trust` | a clean report is rooted in the pins, charges in accepted documents | two changes to two payments' evidence, every pin |
| world `key` | one key throughout | two sessions, two keys, two receipts |

Deadlock is checked for the lock only: elsewhere a server with nothing to do may wait for ever, an
audit ends, and every instance has bounds (`Max*`) at which it stops.

### What the violations show

- `lock_race`: the takeover unlinks the lock by name after judging a file that may be gone. Two
  servers without a crash end up inside together (`session.ts:760`).
- `session_torn`: `load` and `readStateFingerprint` read the file twice without the lock; a save in
  between is overwritten later with the conflict check satisfied (`session.ts:296`, `504`).
- `session_stuck`: a failed write of the `submitted` row leaves it in memory, neither undone nor
  indeterminate (`session.ts:988`).
- `decision_edge`: a decision and an effect on the two sides of an inner edge are resolved by their
  ref (`audit/src/index.ts:789`), and neither window binds one to the other: an effect of another
  hash or class than the one allowed leaves a balanced run without a condition.
- `evidence_quiet`: an epoch without receipts is closed with a null head; the next window, anchored
  on it, expects its first receipt to start a chain, and an honest run fails.

Other differences between the code and what is said of it, met while modelling and described by the
models but not by a run of their own:

- `evaluate` takes the nonce and the room before it hashes the request; if that throws, the caller
  hears a refusal and nothing is put back (`policy.ts:96-101`, `fail-closed.ts:16-20`), against
  MUST-T12-2 (`draft-dogru-cedulon-10.md:2235`). In the model: `EvaluateFault`.
- Absence from an extract is judged by the journal's times against the rail's window, without the
  skew the extract declares (`session.ts:1131`): with `RailLag = 1` a paid nonce is released.
- The sweep looks a pid up and removes the file of that name later, outside the lock (`session.ts:803`,
  `806`). "The writer that left it is gone" (783) was true when it looked; a server started under the
  pid since then loses the file between its write and its rename. As an invariant of `lock`,
  `TempSurvives` is violated.
- Receipts that carry the issuer's key are placed by their links before any is verified
  (`audit/src/index.ts:2343`, `527-539`). One that links where an honest one does leaves both without a
  place, and the finding names the first of them as presented, maybe the honest one, as one the walk
  "could not place", not the other with a "signature failed", as the comment (2339-2340) and the draft
  (`draft-dogru-cedulon-core-05.md:1148-1150`) have it. As an invariant of `evidence`,
  `WalkNamesTheUnsigned` is violated.
- A log entry that comes with the body of another statement: the equivocation check compares the two
  (`audit/src/index.ts:1257`), the charge of withholding does not (1286). With one of the issuer's
  own bodies the issuer is charged with a statement of someone else's, with someone else's body its
  own withheld checkpoint is not named and no warning left. The draft has such a body "ignored rather
  than counted" (`draft-dogru-cedulon-10.md:1427-1430`), and the comment (1282-1285) says that
  an honest issuer used to be reported "for hiding something never theirs". In the model: `Accusing`;
  without `BodiesBelong` TLC finds `WithheldIsWithheld` violated.
- A refused neighbouring extract hardens a row that a receipt of that neighbour covers
  (`windows.ts:193-195`).
- Checkpoints presented out of epoch order break the chain (`checkpoint.ts:264`), where the draft
  (line 1718) has the verifier order them.
- `signManifest` accepts `ap2MandateHash: null` and writes CBOR null (`manifest/src/index.ts:68`);
  reading it back drops the member (103), so that the package's own verifiers refuse what it signed.
- A row hardened at an edge is reported as `settlement-without-receipt` also in the decision profile
  (`windows.ts:198`, and so the test, `tests/decision-profile.test.ts:436`).
- `verifyRailExtract` and `verifyEffectExtract` take any key Node can verify with, Ed448 included,
  where the draft has Ed25519 (`draft-dogru-cedulon-core-05.md:996`); their signature text has more
  than one spelling in base64.
- The rules of a receipt's claims (except that of `noManifest`) and of a checkpoint's are applied when
  they are signed and not when they are verified; a decision record's and an extract's both times.
- Delivery is compared as text, not as digests (`draft-dogru-cedulon-core-05.md:1906`).
- Without a pin for the publisher, the manifest as it is shown, not as it was signed, is read for the
  terms; `ChargesAreFounded` therefore asks for that pin.
- Base extracts of adjacent ranges of blocks never abut in time, and an extract whose last block was
  mined after the logs were asked claims a window it did not read to the end.
- A session rebuilds its checkpoint at every save as epoch 1.
- Inclusion receipts go to every window of a run, also those of other windows' checkpoints
  (`windows.ts:136`, draft line 1828).

### Fairness

`StateLock!FairSpec`: a process goes on with what it began and is asked again after a refusal (weak
fairness of `Step`), leaves after the few saves of one call (strong fairness of `Leave`, which a save
disables for a while), minutes pass, and some server is started when none is left. No particular
process comes back. `SettlementSession!FairSpec`: calls run to their end and a server that is down is
started again, as an MCP client does. Nobody has to submit, retry or resolve anything. The other
modules state safety only: a gate call and an audit are single functions that return.

## Proofs

TLAPS checks all proofs for every value of the constants.

*Engine and gate.* The engine's properties are not inductive. `NoPhantomRoom` needs that comparing a
reserve's time with the window's start, all that `release` can do, tells whether it was counted in
that window: `WindowInv` says an earlier window's reserve is older than the current start, whatever
the clocks did, because a window opens only at a reading at least `WindowMs` past the last start.
With `IdsInv` (ids are not reused) and `CountInv` (counters within limits, reserves finite) this is
`IInv`. Lemma `ReservedInv` is stated for whatever may go with a reserve (`GoesWith`): a caller is
handed the decision, or the gate consumes and pays it at once; so one proof serves both modules.
`GateInv` adds the gate's own properties. `ReceiptIsDecided` is inductive over `IInv` for two reasons
that meet: a consumed decision's reserve is never released, and the nonce of a held reserve is never
admitted again. `RowIsReceipted` needs that a reference is its nonce's (`RefsInv`). The theorems are
about `GateSpec`, the specification TLC runs, whose behaviours without a gate call are those of the
engine alone (`EngineInvariant`). Assumptions: `PolicyAssumption`, `EngineAssumption`,
`GateAssumption`, that is the types of what callers bring, positive clock readings and a window of
positive length.

`WindowCap` speaks of every window, the current one and earlier ones, and of sums. A sum is the number
of coins of a set of records (`Totals`), so the lemmas about cardinalities give those about sums
(`TotalAdds`, `TotalLoses`, `TotalOfPart`). For the current window it follows from `NoPhantomRoom` and
the counters' limits; an earlier window can only lose reserves, because a reserve is taken in the
window that is open.

*StateLock.* `OwnsFile` (an unstolen holder is the one the file names) gives exclusion.
`VerdictHolds` needs two more: a lock without a pid whose creator still holds it is being written
(`UnwrittenLock`), and who judges by age looks at the unwritten lock it read or at a young one
(`StatSees`). `TempLostOnlyToReuse` needs what a sweep knows when it removes (`SweepSees`): the pid it
judged is its own or has no process, or the sweep is marked `outdated`, which only a start under that
pid does to it. Assumptions: `LockAssumption` and the guard of `Age`.

*SettlementSession.* None of its properties is inductive. `IInv` has five parts. `Followers` is the
heart: the file, the memory of every session that agrees with it and every view a reload may put
back under an agreement are *good*, and each extends the file's receipts. A view is good if it is
`Consistent` in itself (settled rows have receipts, open rows hold their nonce and have none, no
nonce has two) and `Sound` about the money: a nonce the rail moved money for is used, its row is
submitted, indeterminate or settled and knows the time of every payment, and a receipt says "rail"
exactly when there was one. That last part makes absence evidence. `Loading` says what a session
holds between its reads, `Calls` that a session in a call has the lock and the file is as it wrote it
(whoever else agrees with the file is only loading it, and recovery finds the call's row and needs
the lock), `PaidOnce` that the rail has taken each payment once. Each operation on a view has a lemma
for what it does, for `Good` and for the receipts; each action one for `IInv`. Under `QuietLoads` and
`RailLag = 0` six of the run's properties follow for any number of servers, payments, stops and failed
writes and for any policy: `MoneyIsAccountedFor`, `ReleasedMeansUnpaid`, `ReceiptsAreTrue`,
`NoDoublePay`, the action property `ReceiptsOnlyGrow` (`StepGrows`), and `HoldsAuthority`, the
refinement of `SpendAuthority`: lemma `AuthorityReads` reads off `IInv` which of the four states a
nonce is in, and `StepGrows` leaves only the abstract transitions between them. The two hypotheses are
needed: without the first `session_torn`, without the second a paid nonce is released.
`ReserveHeld`, about cardinalities against counters, has an invariant of its own, `HInv`, of every view
a session has, agreed with the file or not; so it holds without the two hypotheses. `Holds` adds to
the property that a held reserve was taken no later than the end of the window now open: when the
window rolls, nothing is counted in the new one that was reserved before it, and a reserve given back
late (`GiveUp`, `Recovered`) comes off the count exactly when it is in it.
Assumptions: `SessionAssumption` (one payment fits an empty window) and `PriorAssumption` (having
nothing to put back is not a view).

*KeySeal.* `KeyInv` is `OneKeyThroughout` also for sessions that are down and for what a reload would
put back; `UnprotectPrivatePem` returning what was sealed or nothing does the rest. No assumption.

*TransparencyLog.* `LogInv` says only that the leaves are statements and the receipts name them where
they are; the work is in the tree. That the recursive functions exist is proved by a least
counterexample, as is all induction over levels (`LevelsExist`, `LevelLengths`, `HeightIs`).
`PathLeadsToRoot` follows a leaf up: at each level the walk along the path is the node above it.
`HeadsAreDistinct` goes down: where two logs have one head, each node of one is a node of the other
on every level (`HalvesAreBelow`, `WithinGoesDown`), down to the leaves, once the trees have one
height. A statement may be the bytes of a node, so a lower tree's leaves could be a higher one's
nodes; but then the first leaf of both would be half of itself (`HeadTellsTheHeight`).
No assumption.

*SignedDocuments.* The properties compare what is accepted with what was signed, and the octets, the
signature, the carried key and the claims beside them change independently. `DocInv` says of each
part of what is shown where it comes from: a signature, beside the claims or in the octets, is one some
signer made (`SignatureFounded`, `OctetsFounded`), a countersignature is on what the payee approved
(`CounterFounded`), and claims that a signed document's octets could be read as are that document's
(`ClaimsFounded`). The last is what every change has to keep: no single change to the claims makes them those of the earlier document or of another variant
of the octets (`VariantTells`, `EarlierTells`). From it `SaysSigned` and `ExtractSigned` give that
whatever verifies is some issued document member for member, `FormAsks` that the form leaves no member
beside them, and `RulesKept` that the verifier repeats the rules. `SignersAndVerifiersAgree` is the
converse, signer by signer: what each signer writes is read back as the claims it was given.
Assumptions: `KeysAssumption` and `PartiesAssumption`: a key is Ed25519 or of another kind, none is
the absent one, and the parties have keys.

*BaseExtract.* `BaseInv` is `ChainInv`, a transaction is in one place of one block or waits, and
`ReadInv`: while the range stays as it was mined, each answer the reader has lists what the node still
has, every block it will need has been or is still to be asked for, and what it was told of a block is
its time. A log is then known by its transaction and its index (`LogIsKnown`), so that dropping the
second of two with one key drops nothing else, and the rows are as many as the transfers. That a
sequence's kept places can be counted off is `PlacesRanked`. Assumption: `TransactionsAssumption`,
that an id is of one transaction and that there are finitely many.

*AuditWindows.* All four properties of the run are proved, for any number of windows, rows and
receipts, wherever they were filed. `IInv` says little of a closed run: the world is well formed and a
receipt handed in twice is the same one (`Shape`, `World`), each report is `AuditDetailed` of its
window and the run is what `RunFindings` and `RunWarnings` make of the reports (`Reported`; the
documents do not change once an audit has begun). The properties are then about those two functions.
Windows that meet one another lie in order, whatever their number: the first that did not would start
before the one it meets ends (`WindowsInOrder`, by a least counterexample). `OnlyOuterEdgesStayOpen`:
what `CloseRun` neither resolves nor hardens lies at an outer edge. `UncoveredIsNamed`: a row is
refused, out of its window, repeated, near an edge or compared, and each way names it.
`BalancedMeansCovered`: `Counts(r, s)` is the run's own pairing, the receipt of the row's window or the
one carried over the edge; without findings or doubts it is a bijection between the rows of a ref and
its distinct settled receipts, so their totals agree. `HonestRunBalances` is the converse: two clocks
closer than the allowance put a payment in one window or in two that meet, and each list that could
accuse somebody is empty. Assumption: `AuditAssumption`, the types of the scenarios.

*AuditTrust.* A report is a function of what is presented, so the invariant is only its shape
(`IInv`, after any number of changes) and the work is in the definitions: an accepted extract,
receipt, manifest or countersignature is signed by the key pinned, and each charge keeps what it
rests on. `RowsReceipted`, the last part of `BalancedMeansRooted`, adds up amounts: with no finding
there is one row and one settled receipt under a ref.

*AuditEvidence.* All six properties of the run are proved, for any number of receipts, epochs and
windows. `IInv` has four parts: what is signed (`Signed`: ids name documents, an issuer's receipts are
dated in the order they are cut, the log holds what was signed), what is closed (`Closings`: each
closed epoch has a checkpoint over all its receipts, each of the issuer's is linked to one of the
epoch before), what is presented (`Presentation`: a selection, cut into consecutive windows, in some
order, with an entry for all the log recorded) and what the reports are (`Reports`). What the
properties ask is then proved of those documents and of `AuditDetailed`, finding by finding. The walk
along the links is a recursive function, so what it returns is shown by what each step keeps
(`ChainHas`): whatever is walked, nothing is placed twice (`ChainIsSingle`), and an unbroken line is
placed whole and in order (`ChainIsWhole`). `AcceptedIsComplete`: a receipt's count can only agree if
the shown ones of its epoch are the ones cut in it, and a window's first checkpoint is linked to the
last of the window before, so the epochs go on without a gap from the first
(`EpochsGoOn`, `EpochsAreFirst`). `HonestEvidencePasses` is the converse, each list of findings in
turn. `ForeignChangesNothing`: the receipts not attested that are walked are the dressed ones. Without
any, what is walked is what the issuer signed; with one, the walk names something, because it is either
left over or on the chain and does not verify (`DressedIsNamed`). Two theorems have a hypothesis on the scenarios, which those of the run meet. The entries of
the log go to every window (`windows.ts:136`), also those of other windows' checkpoints, so what
was withheld is asked of one window (`WitnessInOneWindow`). A quiet epoch leaves the next window
without a root, as `evidence_quiet` shows, so an issuer that has them is asked of one window
(`QuietInOneWindow`). Otherwise only `EvidenceAssumption`, the types of the scenarios.

Only model-checked are five properties. `OneSpelling` and `ReadWithinBounds` are about what the
recursive operators of CBOR compute of every value, an induction over trees: the library's induction
theorems take a predicate as a parameter, which no installed prover can instantiate, and a module with
recursive operators is out of reach of the SMT backend. `RowsMoveOn`, `OrphanIsTakenOver` and
`LeftTempIsSwept` are about what must happen; fairness and `ENABLED` are out of the prover's reach.
Where a proof about numbers needs induction it is by the least counterexample (`LeastExists`). Every
other property of a passing run is a theorem.

## Plan

1. *(done)* engine, gate, lock, session core with the abstract authority, both axes of the audit,
   log, CBOR; proofs for engine, gate and lock.
2. *(done)* keys at rest; documents with their envelope, rules, presented forms and
   countersignatures; pins, manifest and the guarantee; the decision profile; the base extract.
3. *(done)* proofs for the session and its refinement, for keys, trust and the runs over windows.
4. *(done)* proofs for the log, the documents and the base extract. With them every safety property of
   the passing runs is a theorem but the two about CBOR.
5. Left: checkpoints as a save rebuilds them and a session without a state file; tier-2 inclusion
   inside an audit; CBOR over a definition that is recursive in the depth, so that it can be proved.

## Not modelled

The MCP tools keep no state and pass calls through. Of the session: `exportLedger`, `verify`,
`status` and `stateProtection`, which only read, the checkpoint of a save, and a session without a
state file, which shares nothing. Of the audit: the counts and wording of a report, size bounds,
`presentedInRange`, malformed hashes and amounts, documents that are not objects. Of the base
extract: the parsing of hexadecimal answers and the command line. Demos, site, interop, conformance
vectors and scripts are consumers and build tooling. Signatures and hashes are ideal everywhere.
