-------------------------------- MODULE KeySeal --------------------------------
(***************************************************************************)
(* The receipt key in memory and at rest (mcp-server/src/session.ts,       *)
(* dpapi.ts): sessions that share a state file each generate a key, take   *)
(* the file's in its place when there is one, and write it back sealed     *)
(* when the platform seals it and what it sealed opens again, in the clear *)
(* when not.  Loading a file and taking its fingerprint are two reads.     *)
(***************************************************************************)
EXTENDS Integers, FiniteSets

CONSTANTS Sessions,
          MaxKeys,       \* keys generated
          MaxSpends      \* receipts issued

VARIABLES file,          \* the state file; its value is its fingerprint
          session,       \* what each session holds
          undo,          \* what it held before the reload under way
          generated,     \* keys generated so far
          spends         \* receipts issued so far

keyVars == <<file, session, undo, generated, spends>>

NoFile == [absent |-> TRUE]
Exists(f) == f # NoFile
Lost == 0                \* what a blob opens to that does not open
NotSealed == -1

(* A key pair is one number, of which pub and priv are the halves; a blob  *)
(* is the private half it opens to.                                        *)
Down == [phase |-> "down", pub |-> 0, priv |-> 0, sealed |-> NotSealed, receipts |-> {}, seen |-> NoFile]

KeyInit ==
  /\ file = NoFile
  /\ session = [s \in Sessions |-> Down]
  /\ undo = [s \in Sessions |-> Down]
  /\ generated = 0 /\ spends = 0

-----------------------------------------------------------------------------
(* PowerShell may fail at any call, and is not there on another platform.  *)
ProtectPrivatePem(priv) == {NotSealed, Lost, priv}
UnprotectPrivatePem(blob) == {Lost, blob}

(* A blob already in hand is written again; a new one only after it opened *)
(* to what was sealed.                                                     *)
(* Mutant of KeysForDisk: a blob is not opened before it is trusted.       *)
KeysForDiskUntried(now) ==
  IF now.sealed # NotSealed THEN {now.sealed} ELSE ProtectPrivatePem(now.priv)
KeysForDisk(now) ==
  IF now.sealed # NotSealed THEN {now.sealed}
  ELSE UNION {IF blob = NotSealed THEN {NotSealed}
              ELSE {IF back = now.priv THEN blob ELSE NotSealed : back \in UnprotectPrivatePem(blob)} :
              blob \in ProtectPrivatePem(now.priv)}

OnDisk(now, blob) ==
  [pub |-> now.pub, form |-> IF blob = NotSealed THEN "pem" ELSE "dpapi",
   private |-> IF blob = NotSealed THEN now.priv ELSE blob, receipts |-> now.receipts]

(* What a session has after loading the file: none of it when the key does *)
(* not open, the public half apart, which is read first.                   *)
CannotOpen(now) == [now EXCEPT !.phase = "unreadable", !.pub = file.pub]
Loaded(now) ==
  IF ~Exists(file) THEN {[now EXCEPT !.phase = "loaded"]}
  ELSE {IF priv = Lost THEN CannotOpen(now)
        ELSE [now EXCEPT !.phase = "loaded", !.pub = file.pub, !.priv = priv, !.receipts = file.receipts,
                         !.sealed = IF file.form = "dpapi" THEN file.private ELSE NotSealed] :
        priv \in IF file.form = "dpapi" THEN UnprotectPrivatePem(file.private) ELSE {file.private}}

(* Mutant of Restore: the keys stay those of the file.                     *)
RestoreButKeys(was, now) == [was EXCEPT !.pub = now.pub, !.priv = now.priv]
Restore(was, now) == was

-----------------------------------------------------------------------------
Put(s, now) == session' = [session EXCEPT ![s] = now]

(* The constructor: generate, then load; if that throws there is no session. *)
Start(s) ==
  /\ session[s].phase = "down" /\ generated < MaxKeys
  /\ generated' = generated + 1
  /\ \E now \in Loaded([Down EXCEPT !.pub = generated + 1, !.priv = generated + 1]) :
       Put(s, IF now.phase = "loaded" THEN now ELSE Down)
  /\ UNCHANGED <<file, undo, spends>>

Reload(s) ==
  /\ session[s].phase = "up"
  /\ \E now \in Loaded([session[s] EXCEPT !.receipts = {}, !.sealed = NotSealed]) :
       IF now.phase = "loaded" THEN Put(s, now) /\ undo' = [undo EXCEPT ![s] = session[s]]
       ELSE Put(s, Restore(session[s], now)) /\ UNCHANGED undo
  /\ UNCHANGED <<file, generated, spends>>

(* The fingerprint is of the file as it is by now.                         *)
TakeFingerprint(s) ==
  /\ session[s].phase = "loaded"
  /\ Put(s, [session[s] EXCEPT !.phase = "up", !.seen = file])
  /\ undo' = [undo EXCEPT ![s] = Down]
  /\ UNCHANGED <<file, generated, spends>>

(* Recovering the journal has to save, and cannot.                         *)
FailToRecover(s) ==
  /\ session[s].phase = "loaded"
  /\ Put(s, IF undo[s] = Down THEN Down ELSE Restore(undo[s], session[s]))
  /\ undo' = [undo EXCEPT ![s] = Down]
  /\ UNCHANGED <<file, generated, spends>>

(* A receipt is signed and saved under the lock, over the file the session *)
(* agreed with; when the rename fails the receipt is taken back, and a     *)
(* blob that was found to open is kept.                                    *)
Issue(s) ==
  /\ session[s].phase = "up" /\ file = session[s].seen
  /\ spends < MaxSpends /\ spends' = spends + 1
  /\ LET receipt == [nonce |-> spends + 1, by |-> session[s].priv]
         signed == [session[s] EXCEPT !.receipts = @ \cup {receipt}]
     IN  \E blob \in KeysForDisk(signed) :
           \/ /\ file' = OnDisk(signed, blob)
              /\ Put(s, [signed EXCEPT !.sealed = blob, !.seen = file'])
           \/ /\ UNCHANGED file
              /\ Put(s, [session[s] EXCEPT !.sealed = blob])
  /\ UNCHANGED <<undo, generated>>

Stop(s) ==
  /\ Put(s, Down) /\ undo' = [undo EXCEPT ![s] = Down]
  /\ UNCHANGED <<file, generated, spends>>

(* The operator takes the file away.                                       *)
RemoveFile == file' = NoFile /\ UNCHANGED <<session, undo, generated, spends>>

KeyNext ==
  \/ \E s \in Sessions :
       Start(s) \/ Reload(s) \/ TakeFingerprint(s) \/ FailToRecover(s) \/ Issue(s) \/ Stop(s)
  \/ RemoveFile

KeySpec == KeyInit /\ [][KeyNext]_keyVars

-----------------------------------------------------------------------------
(* One key holds what is together: the private half in the file opens to   *)
(* the pair of the public half beside it and of every receipt in it, and a *)
(* session's halves are a pair and the pair that signed all it holds,      *)
(* whatever failed to open, to be written or to be reloaded.               *)
OneKeyThroughout ==
  /\ Exists(file) =>
       /\ file.private = file.pub
       /\ \A r \in file.receipts : r.by = file.pub
  /\ \A s \in Sessions : session[s].phase # "down" =>
       /\ session[s].priv = session[s].pub
       /\ session[s].sealed \in {NotSealed, session[s].priv}
       /\ \A r \in session[s].receipts : r.by = session[s].priv
==============================================================================
