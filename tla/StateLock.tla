------------------------------ MODULE StateLock ------------------------------
(***************************************************************************)
(* The lock file beside the state file (mcp-server/src/session.ts,         *)
(* withStateLock and what it calls), step by step as several server        *)
(* processes run it: sweep the temporary files one by one, create the lock *)
(* exclusively, write the pid into it, and when it already exists judge    *)
(* its holder, unlink and create again.  Inside, a save writes a temporary *)
(* file and renames it.  The sweep is not under the lock.                  *)
(*                                                                         *)
(* A process is a pid.  It can stop at any step and a later process can    *)
(* run under the same pid, as the first process of a container does.       *)
(***************************************************************************)
EXTENDS Naturals, FiniteSets

CONSTANTS Process,
          NoFile,
          MaxFaults     \* bound on the stops and failed saves of one behaviour

ASSUME LockAssumption ==
  /\ NoFile \notin [owner : Process, written : BOOLEAN, old : BOOLEAN]
  /\ MaxFaults \in Nat

VARIABLES
  pc,       \* where each process is in withStateLock
  file,     \* the lock file: who created it, is the pid in it, is it a minute old
  temps,    \* the pids whose temporary state file exists
  listed,   \* per sweep: the temporary files its readdir named, still to see to
  doomed,   \* per sweep: the one it has judged stale and is about to remove
  stolen,   \* holders whose lock file another process unlinked
  outdated, \* processes whose last judgement, of a lock or of a temporary
            \* file, something has changed under since they made it
  faults

sweep == <<listed, doomed>>
vars == <<pc, file, temps, sweep, stolen, outdated, faults>>

Lock == [owner : Process, written : BOOLEAN, old : BOOLEAN]

(* From the exclusive create that succeeded to the unlink.                 *)
Holding == {"write", "inside", "saving"}

Places == Holding \cup {"idle", "sweep", "remove", "claim", "read", "stat", "unlink",
                       "reclaim", "dead"}

Init ==
  /\ pc = [p \in Process |-> "idle"]
  /\ file = NoFile
  /\ temps = {}
  /\ listed = [p \in Process |-> {}]
  /\ doomed = [p \in Process |-> {}]
  /\ stolen = {}
  /\ outdated = {}
  /\ faults = 0

Goto(p, place) == pc' = [pc EXCEPT ![p] = place]

Alive(p) == pc[p] # "dead"

Fault == faults < MaxFaults /\ faults' = faults + 1

(* Readers that have looked at the lock file and not yet acted on it.      *)
Readers == {p \in Process : pc[p] \in {"stat", "unlink"}}

(* p changes the lock file: what the others saw is no longer what is there.*)
Outdate(p) == outdated' = (outdated \cup Readers) \ {p}

(* No process runs under the pid, or it is the asker's own.                *)
PidIsGone(p, q) == ~Alive(q) \/ q = p

-----------------------------------------------------------------------------
(* sweepStaleTemp, which runs before the lock is asked for: the directory  *)
(* is read once; then each file is judged by the pid in its name and, when *)
(* stale, removed, by two calls between which anything may happen.         *)
AfterSweeping(left) == IF left = {} THEN "claim" ELSE "sweep"

ListTemps(p) ==
  /\ pc[p] = "idle"
  /\ listed' = [listed EXCEPT ![p] = temps]
  /\ Goto(p, AfterSweeping(temps))
  /\ UNCHANGED <<file, temps, doomed, stolen, outdated, faults>>

(* Mutants of Stale: every temporary file is, and none is.                 *)
StaleAlways(p, q) == TRUE

StaleNever(p, q) == FALSE

Stale(p, q) == PidIsGone(p, q)

JudgeTemp(p) ==
  /\ pc[p] = "sweep"
  /\ \E q \in listed[p] :
       \/ /\ Stale(p, q)
          /\ doomed' = [doomed EXCEPT ![p] = {q}]
          /\ Goto(p, "remove")
          /\ UNCHANGED listed
       \/ /\ ~Stale(p, q)
          /\ listed' = [listed EXCEPT ![p] = @ \ {q}]
          /\ Goto(p, AfterSweeping(listed[p] \ {q}))
          /\ UNCHANGED doomed
  /\ UNCHANGED <<file, temps, stolen, outdated, faults>>

(* rmSync with force: no matter whose file it is by now, or if it is there.*)
RemoveTemp(p) ==
  /\ pc[p] = "remove"
  /\ temps' = temps \ doomed[p]
  /\ listed' = [listed EXCEPT ![p] = @ \ doomed[p]]
  /\ doomed' = [doomed EXCEPT ![p] = {}]
  /\ outdated' = outdated \ {p}
  /\ Goto(p, AfterSweeping(listed[p] \ doomed[p]))
  /\ UNCHANGED <<file, stolen, faults>>

(* Mutant of Create: not exclusive.                                        *)
CreateOver(p) ==
  /\ file' = [owner |-> p, written |-> FALSE, old |-> FALSE]
  /\ Outdate(p)
  /\ Goto(p, "write")

(* Exclusive create: one step of the file system, the pid comes after it.  *)
Create(p) ==
  /\ file = NoFile
  /\ file' = [owner |-> p, written |-> FALSE, old |-> FALSE]
  /\ Outdate(p)
  /\ Goto(p, "write")

Claim(p) ==
  /\ pc[p] = "claim"
  /\ \/ Create(p)
     \/ /\ file # NoFile
        /\ Goto(p, "read")
        /\ UNCHANGED <<file, outdated>>
  /\ UNCHANGED <<temps, sweep, stolen, faults>>

(* The second claim, after the takeover's unlink.  Another create in       *)
(* between is an error that leaves withStateLock as it is.                 *)
Reclaim(p) ==
  /\ pc[p] = "reclaim"
  /\ \/ Create(p)
     \/ /\ file # NoFile
        /\ Goto(p, "idle")
        /\ UNCHANGED <<file, outdated>>
  /\ UNCHANGED <<temps, sweep, stolen, faults>>

(* The pid goes into the file this process created, which may not be the   *)
(* one the name stands for any more.  A write that fails leaves the lock   *)
(* empty behind it.                                                        *)
WritePid(p) ==
  /\ pc[p] = "write"
  /\ \/ /\ Goto(p, "inside")
        /\ IF file # NoFile /\ file.owner = p
           THEN /\ file' = [file EXCEPT !.written = TRUE, !.old = FALSE]
                /\ Outdate(p)
           ELSE UNCHANGED <<file, outdated>>
        /\ UNCHANGED stolen
     \/ /\ Goto(p, "idle")
        /\ stolen' = stolen \ {p}
        /\ UNCHANGED <<file, outdated>>
  /\ UNCHANGED <<temps, sweep, faults>>

-----------------------------------------------------------------------------
(* lockHolderIsGone, when the pid can be read.                             *)
ReadHolder(p) ==
  /\ pc[p] = "read"
  /\ IF file # NoFile /\ file.written
     THEN Goto(p, IF PidIsGone(p, file.owner) THEN "unlink" ELSE "idle")
     ELSE Goto(p, "stat")
  /\ UNCHANGED <<file, temps, sweep, stolen, outdated, faults>>

(* Mutants of Abandoned: no grace for a writer that has not written yet,   *)
(* and a lock without a pid obeyed for ever.                               *)
AbandonedAtOnce == TRUE

AbandonedOnlyWhenGone == file = NoFile

(* A lock that could not be read is judged by its age: whatever file the   *)
(* name stands for by now, or none.                                        *)
Abandoned == file = NoFile \/ file.old

StatHolder(p) ==
  /\ pc[p] = "stat"
  /\ Goto(p, IF Abandoned THEN "unlink" ELSE "idle")
  /\ outdated' = outdated \ {p}
  /\ UNCHANGED <<file, temps, sweep, stolen, faults>>

(* rmSync with force: the name goes, whatever it stands for.               *)
Unlink(p) ==
  /\ file' = NoFile
  /\ stolen' = (stolen \ {p}) \cup
       {q \in Process \ {p} : file # NoFile /\ file.owner = q /\ pc[q] \in Holding}
  /\ IF file = NoFile THEN outdated' = outdated \ {p} ELSE Outdate(p)

TakeOver(p) ==
  /\ pc[p] = "unlink"
  /\ Unlink(p)
  /\ Goto(p, "reclaim")
  /\ UNCHANGED <<temps, sweep, faults>>

-----------------------------------------------------------------------------
(* writeState: the temporary file, then the rename over the state file.  A *)
(* write that fails can leave what it has written so far.                  *)
WriteTemp(p) ==
  /\ pc[p] = "inside"
  /\ temps' = temps \cup {p}
  /\ \/ Goto(p, "saving") /\ UNCHANGED faults
     \/ Fault /\ UNCHANGED pc
  /\ UNCHANGED <<file, sweep, stolen, outdated>>

(* The temporary file goes whether the rename succeeds or, like one whose  *)
(* file is no longer there, fails.                                         *)
Rename(p) ==
  /\ pc[p] = "saving"
  /\ temps' = temps \ {p}
  /\ Goto(p, "inside")
  /\ UNCHANGED <<file, sweep, stolen, outdated, faults>>

Leave(p) ==
  /\ pc[p] = "inside"
  /\ Unlink(p)
  /\ Goto(p, "idle")
  /\ UNCHANGED <<temps, sweep, faults>>

-----------------------------------------------------------------------------
Crash(p) ==
  /\ Alive(p)
  /\ Fault
  /\ Goto(p, "dead")
  /\ listed' = [listed EXCEPT ![p] = {}]
  /\ doomed' = [doomed EXCEPT ![p] = {}]
  /\ stolen' = stolen \ {p}
  /\ outdated' = outdated \ {p}
  /\ UNCHANGED <<file, temps>>

(* Whoever has judged the pid gone was right until now.                    *)
Restart(p) ==
  /\ pc[p] = "dead"
  /\ Goto(p, "idle")
  /\ outdated' = outdated \cup {q \in Process : p \in doomed[q]}
  /\ UNCHANGED <<file, temps, sweep, stolen, faults>>

(* A minute passes over the lock file.  The code reads a lock without a    *)
(* pid as abandoned after that long, which takes two things for granted: a *)
(* writer does not pause for a minute between its create and its write,    *)
(* nor a reader between its read and its stat while the lock changes.      *)
Age ==
  /\ file # NoFile
  /\ ~file.old
  /\ file.written \/ pc[file.owner] # "write"
  /\ \A p \in outdated : pc[p] # "stat"
  /\ file' = [file EXCEPT !.old = TRUE]
  /\ UNCHANGED <<pc, temps, sweep, stolen, outdated, faults>>

Step(p) ==
  \/ ListTemps(p) \/ JudgeTemp(p) \/ RemoveTemp(p)
  \/ Claim(p) \/ Reclaim(p) \/ WritePid(p)
  \/ ReadHolder(p) \/ StatHolder(p) \/ TakeOver(p)
  \/ Rename(p) \/ Leave(p)

Next ==
  \/ \E p \in Process : Step(p) \/ WriteTemp(p) \/ Crash(p) \/ Restart(p)
  \/ Age

Spec == Init /\ [][Next]_vars

(* A running server is asked again after a refusal, and leaves after the   *)
(* few saves one call makes; minutes pass whatever the contenders do; when *)
(* no server is left, one is started.  No particular process comes back.   *)
Fairness ==
  /\ \A p \in Process : WF_vars(Step(p)) /\ SF_vars(Leave(p))
  /\ WF_vars((\A p \in Process : ~Alive(p)) /\ \E p \in Process : Restart(p))
  /\ WF_vars(Age)

FairSpec == Spec /\ Fairness

-----------------------------------------------------------------------------
TypeOK ==
  /\ pc \in [Process -> Places]
  /\ file \in Lock \cup {NoFile}
  /\ temps \in SUBSET Process
  /\ listed \in [Process -> SUBSET Process]
  /\ doomed \in [Process -> SUBSET Process]
  /\ stolen \in SUBSET Process
  /\ outdated \in SUBSET Process
  /\ faults \in Nat

(* What withStateLock is for ("an exclusive create is the cheapest thing   *)
(* that actually closes it"): two servers are never in it at once.         *)
MutualExclusion ==
  \A p, q \in Process : pc[p] \in Holding /\ pc[q] \in Holding => p = q

(* The exclusive create and the pid are sound: two servers are in it at    *)
(* once only after one of them had its lock file unlinked by another while *)
(* it held it.                                                             *)
ExclusiveUnlessStolen ==
  \A p, q \in Process \ stolen :
    pc[p] \in Holding /\ pc[q] \in Holding => p = q

(* lockHolderIsGone is right about the file it looked at: as long as that  *)
(* file is the one still there, nobody who holds the lock created it.  The *)
(* takeover goes wrong only when the file changes under it.                *)
VerdictHolds ==
  \A p \in Process :
    pc[p] = "unlink" /\ p \notin outdated /\ file # NoFile
      => file.owner = p \/ pc[file.owner] \notin Holding

(* A sweep takes away what a writer that is gone has left ("the writer     *)
(* that left it is gone"), never the temporary file of a save that is      *)
(* about to rename it.  This does not hold: the pid may be another         *)
(* server's by the time the file is removed.                               *)
TempSurvives == \A p \in Process : pc[p] = "saving" => p \in temps

(* What the sweep does keep to without a lock: a save loses its temporary  *)
(* file only to a sweep that had judged the pid gone before the saver was  *)
(* started under it.                                                       *)
TempLostOnlyToReuse ==
  [][\A p \in Process :
       pc[p] = "saving" /\ pc'[p] = "saving" /\ p \in temps /\ p \notin temps'
         => \E q \in outdated : p \in doomed[q]]_vars

(* "A lock whose holder is gone is taken over rather than obeyed forever": *)
(* whatever a stopped process left behind goes away.                       *)
Orphaned == file # NoFile /\ pc[file.owner] \notin Holding

OrphanIsTakenOver == Orphaned ~> ~Orphaned

(* The temporary file of a process that never finished its write holds the *)
(* signing key; it does not stay.                                          *)
LeftTemp(p) == p \in temps /\ pc[p] # "saving"

LeftTempIsSwept == \A p \in Process : LeftTemp(p) ~> ~LeftTemp(p)
=============================================================================
