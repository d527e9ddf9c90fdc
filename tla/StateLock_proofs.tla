-------------------------- MODULE StateLock_proofs --------------------------
(***************************************************************************)
(* Proofs about StateLock, for any number of servers and of faults.        *)
(***************************************************************************)
EXTENDS StateLock, TLAPS

(* The holder whose lock nobody unlinked is the one the file names.        *)
OwnsFile ==
  \A p \in Process \ stolen :
    pc[p] \in Holding => file # NoFile /\ file.owner = p

(* A lock without a pid whose creator still holds it is being written, and *)
(* one that is also a minute old has no such creator.                      *)
UnwrittenLock ==
  file # NoFile /\ ~file.written =>
    /\ pc[file.owner] \in Holding => pc[file.owner] = "write"
    /\ file.old => pc[file.owner] \notin Holding

(* Who has come to judge a lock by its age looks at the lock without a pid *)
(* that was read, or at one that is too young to be judged.                *)
StatSees ==
  \A p \in Process :
    pc[p] = "stat" /\ file # NoFile =>
      IF p \in outdated THEN ~file.old ELSE ~file.written

(* Who is about to remove a temporary file has judged the writer gone, and *)
(* it still is unless it was started again since.                          *)
SweepSees ==
  \A p \in Process :
    /\ doomed[p] # {} => pc[p] = "remove"
    /\ \A q \in doomed[p] : q = p \/ pc[q] = "dead" \/ p \in outdated

OutdatedAre == \A p \in outdated : pc[p] \in {"stat", "unlink", "remove"}

IInv ==
  /\ TypeOK
  /\ OutdatedAre
  /\ SweepSees
  /\ OwnsFile
  /\ UnwrittenLock
  /\ StatSees
  /\ VerdictHolds

LEMMA InitInv == Init => IInv
  BY LockAssumption
  DEF Init, IInv, TypeOK, Places, Holding, OutdatedAre, SweepSees, OwnsFile,
      UnwrittenLock, StatSees, VerdictHolds

(* What every step's proof needs of the invariant and of the lock file.    *)
LEMMA FileTyped ==
  ASSUME TypeOK
  PROVE  /\ file # NoFile => /\ file \in Lock
                             /\ file.owner \in Process
                             /\ file.written \in BOOLEAN /\ file.old \in BOOLEAN
         /\ \A p \in Process, w \in BOOLEAN, o \in BOOLEAN :
              [owner |-> p, written |-> w, old |-> o] # NoFile
  BY LockAssumption DEF TypeOK, Lock

(* The steps that leave the lock file alone and bring nobody into it.      *)
LEMMA SweepInv ==
  ASSUME IInv, NEW p \in Process, ListTemps(p) \/ JudgeTemp(p) \/ RemoveTemp(p)
  PROVE  IInv'
  <1> USE DEF ListTemps, JudgeTemp, RemoveTemp, AfterSweeping, Goto, IInv
  <1>1. TypeOK' /\ OutdatedAre'
    BY DEF TypeOK, Places, OutdatedAre
  <1>2. SweepSees'
    BY DEF TypeOK, SweepSees, Stale, PidIsGone, Alive
  <1>3. OwnsFile' /\ UnwrittenLock' /\ StatSees' /\ VerdictHolds'
    BY FileTyped DEF TypeOK, OwnsFile, UnwrittenLock, StatSees, VerdictHolds, Holding
  <1>4. QED
    BY <1>1, <1>2, <1>3

(* The exclusive create: there was no file, so nobody whose lock was not   *)
(* unlinked was inside.                                                    *)
LEMMA CreateInv ==
  ASSUME IInv, NEW p \in Process, pc[p] \in {"claim", "reclaim"}, Create(p),
         UNCHANGED <<temps, sweep, stolen, faults>>
  PROVE  IInv'
  <1> USE DEF sweep, Create, Goto, Outdate, IInv
  <1>1. /\ file' = [owner |-> p, written |-> FALSE, old |-> FALSE]
        /\ file' \in Lock /\ file' # NoFile
    BY FileTyped DEF Lock
  <1>2. TypeOK' /\ OutdatedAre' /\ SweepSees'
    BY <1>1 DEF TypeOK, Places, Holding, Readers, OutdatedAre, SweepSees
  <1>3. OwnsFile' /\ UnwrittenLock'
    BY <1>1 DEF TypeOK, OwnsFile, UnwrittenLock, Holding
  <1>4. StatSees' /\ VerdictHolds'
    BY <1>1 DEF TypeOK, StatSees, VerdictHolds, Readers
  <1>5. QED
    BY <1>2, <1>3, <1>4

(* A claim that finds the file there.                                      *)
LEMMA RefusedInv ==
  ASSUME IInv, NEW p \in Process, pc[p] \in {"claim", "reclaim"},
         NEW place \in {"read", "idle"}, Goto(p, place),
         UNCHANGED <<file, outdated, temps, sweep, stolen, faults>>
  PROVE  IInv'
  <1> USE DEF sweep, Goto, IInv
  <1>1. TypeOK' /\ OutdatedAre' /\ SweepSees'
    BY DEF TypeOK, Places, OutdatedAre, SweepSees
  <1>2. OwnsFile'
    BY DEF TypeOK, OwnsFile, Holding
  <1>3. UnwrittenLock' /\ StatSees' /\ VerdictHolds'
    BY FileTyped DEF TypeOK, UnwrittenLock, StatSees, VerdictHolds, Holding
  <1>4. QED
    BY <1>1, <1>2, <1>3

(* The pid reaches the file only when the file is still the writer's.      *)
LEMMA WritePidInv ==
  ASSUME IInv, NEW p \in Process, WritePid(p)
  PROVE  IInv'
  <1> USE DEF sweep, IInv, Goto
  <1>1. CASE /\ pc' = [pc EXCEPT ![p] = "inside"]
             /\ file # NoFile /\ file.owner = p
             /\ file' = [file EXCEPT !.written = TRUE, !.old = FALSE]
             /\ outdated' = (outdated \cup Readers) \ {p}
             /\ UNCHANGED <<stolen, temps, sweep, faults>>
    <2>1. file' = [owner |-> p, written |-> TRUE, old |-> FALSE]
      BY <1>1, FileTyped DEF Lock
    <2>2. file' \in Lock /\ file' # NoFile
      BY <2>1, FileTyped DEF Lock
    <2>3. TypeOK' /\ OutdatedAre' /\ SweepSees'
      BY <1>1, <2>2 DEF TypeOK, Places, Holding, Readers, OutdatedAre, SweepSees, WritePid
    <2>4. OwnsFile' /\ UnwrittenLock'
      <3>1. pc[p] = "write"
        BY DEF WritePid
      <3>2. OwnsFile'
        BY <1>1, <2>1, <2>2, <3>1 DEF TypeOK, OwnsFile, Holding
      <3>3. UnwrittenLock'
        BY <2>1 DEF UnwrittenLock
      <3>4. QED
        BY <3>2, <3>3
    <2>5. StatSees' /\ VerdictHolds'
      BY <1>1, <2>1 DEF TypeOK, StatSees, VerdictHolds, Readers, WritePid
    <2>6. QED
      BY <2>3, <2>4, <2>5
  <1>2. CASE /\ pc' = [pc EXCEPT ![p] = "inside"]
             /\ ~(file # NoFile /\ file.owner = p)
             /\ UNCHANGED <<file, outdated, stolen, temps, sweep, faults>>
    <2>1. pc[p] = "write"
      BY DEF WritePid
    <2>2. TypeOK' /\ OutdatedAre' /\ SweepSees'
      BY <1>2, <2>1 DEF TypeOK, Places, Holding, OutdatedAre, SweepSees
    <2>3. OwnsFile'
      BY <1>2, <2>1 DEF TypeOK, OwnsFile, Holding
    <2>4. UnwrittenLock' /\ StatSees' /\ VerdictHolds'
      BY <1>2, <2>1, FileTyped DEF TypeOK, UnwrittenLock, StatSees, VerdictHolds, Holding
    <2>5. QED
      BY <2>2, <2>3, <2>4
  <1>3. CASE /\ pc' = [pc EXCEPT ![p] = "idle"]
             /\ stolen' = stolen \ {p}
             /\ UNCHANGED <<file, outdated, temps, sweep, faults>>
    <2>1. pc[p] = "write"
      BY DEF WritePid
    <2>2. TypeOK' /\ OutdatedAre' /\ SweepSees'
      BY <1>3, <2>1 DEF TypeOK, Places, OutdatedAre, SweepSees
    <2>3. OwnsFile'
      BY <1>3, <2>1 DEF TypeOK, OwnsFile, Holding
    <2>4. UnwrittenLock' /\ StatSees' /\ VerdictHolds'
      BY <1>3, <2>1, FileTyped DEF TypeOK, UnwrittenLock, StatSees, VerdictHolds, Holding
    <2>5. QED
      BY <2>2, <2>3, <2>4
  <1>4. QED
    BY <1>1, <1>2, <1>3 DEF WritePid, Outdate

(* A pid that reads as gone belongs to nobody who holds the lock.          *)
LEMMA ReadHolderInv ==
  ASSUME IInv, NEW p \in Process, ReadHolder(p)
  PROVE  IInv'
  <1> USE DEF sweep, IInv, ReadHolder, Goto
  <1>1. TypeOK' /\ OutdatedAre' /\ SweepSees'
    BY DEF TypeOK, Places, OutdatedAre, SweepSees
  <1>2. OwnsFile'
    BY DEF TypeOK, OwnsFile, Holding
  <1>3. UnwrittenLock' /\ StatSees'
    BY FileTyped DEF TypeOK, UnwrittenLock, StatSees, Holding, OutdatedAre
  <1>4. VerdictHolds'
    BY FileTyped DEF TypeOK, VerdictHolds, Holding, PidIsGone, Alive
  <1>5. QED
    BY <1>1, <1>2, <1>3, <1>4

LEMMA StatHolderInv ==
  ASSUME IInv, NEW p \in Process, StatHolder(p)
  PROVE  IInv'
  <1> USE DEF sweep, IInv, StatHolder, Goto
  <1>1. TypeOK' /\ OutdatedAre' /\ SweepSees'
    BY DEF TypeOK, Places, OutdatedAre, SweepSees
  <1>2. OwnsFile'
    BY DEF TypeOK, OwnsFile, Holding
  <1>3. UnwrittenLock' /\ StatSees'
    BY FileTyped DEF TypeOK, UnwrittenLock, StatSees, Holding
  <1>4. VerdictHolds'
    <2>1. pc'[p] = "unlink" /\ file # NoFile => pc[file.owner] \notin Holding
      BY FileTyped DEF TypeOK, Abandoned, StatSees, UnwrittenLock
    <2>2. QED
      BY <2>1, FileTyped DEF TypeOK, VerdictHolds, Holding
  <1>5. QED
    BY <1>1, <1>2, <1>3, <1>4

(* Taking over and leaving: whoever the file named and still held the lock *)
(* is now among those it was taken from.                                   *)
LEMMA UnlinkInv ==
  ASSUME IInv, NEW p \in Process, NEW place \in {"reclaim", "idle"},
         pc[p] \in {"unlink", "inside"}, Unlink(p), Goto(p, place),
         UNCHANGED <<temps, sweep, faults>>
  PROVE  IInv'
  <1> USE DEF sweep, IInv, Unlink, Goto, Outdate
  <1>1. TypeOK' /\ OutdatedAre' /\ SweepSees'
    BY DEF TypeOK, Places, Readers, OutdatedAre, SweepSees
  <1>2. OwnsFile'
    BY DEF TypeOK, OwnsFile, Holding
  <1>3. UnwrittenLock' /\ StatSees' /\ VerdictHolds'
    BY DEF UnwrittenLock, StatSees, VerdictHolds
  <1>4. QED
    BY <1>1, <1>2, <1>3

LEMMA SaveInv ==
  ASSUME IInv, NEW p \in Process, WriteTemp(p) \/ Rename(p)
  PROVE  IInv'
  <1> USE DEF sweep, IInv, WriteTemp, Rename, Goto, Fault
  <1>1. TypeOK' /\ OutdatedAre' /\ SweepSees'
    BY DEF TypeOK, Places, Holding, OutdatedAre, SweepSees
  <1>2. OwnsFile'
    BY DEF TypeOK, OwnsFile, Holding
  <1>3. UnwrittenLock' /\ StatSees' /\ VerdictHolds'
    BY FileTyped DEF TypeOK, UnwrittenLock, StatSees, VerdictHolds, Holding
  <1>4. QED
    BY <1>1, <1>2, <1>3

LEMMA CrashInv ==
  ASSUME IInv, NEW p \in Process, Crash(p) \/ Restart(p)
  PROVE  IInv'
  <1> USE DEF sweep, IInv, Crash, Restart, Goto, Fault
  <1>1. TypeOK' /\ OutdatedAre' /\ SweepSees'
    BY DEF TypeOK, Places, OutdatedAre, SweepSees
  <1>2. OwnsFile'
    BY DEF TypeOK, OwnsFile, Holding
  <1>3. UnwrittenLock' /\ StatSees' /\ VerdictHolds'
    BY FileTyped DEF TypeOK, UnwrittenLock, StatSees, VerdictHolds, SweepSees, Holding
  <1>4. QED
    BY <1>1, <1>2, <1>3

LEMMA AgeInv ==
  ASSUME IInv, Age
  PROVE  IInv'
  <1> USE DEF sweep, IInv, Age
  <1>1. /\ file' = [owner |-> file.owner, written |-> file.written, old |-> TRUE]
        /\ file' \in Lock /\ file' # NoFile
    BY FileTyped DEF Lock
  <1>2. TypeOK' /\ OutdatedAre' /\ SweepSees'
    BY <1>1 DEF TypeOK, OutdatedAre, SweepSees
  <1>3. OwnsFile' /\ UnwrittenLock'
    BY <1>1 DEF OwnsFile, UnwrittenLock
  <1>4. StatSees' /\ VerdictHolds'
    BY <1>1 DEF StatSees, VerdictHolds, TypeOK
  <1>5. QED
    BY <1>2, <1>3, <1>4

LEMMA StepInv == IInv /\ [Next]_vars => IInv'
  <1> SUFFICES ASSUME IInv, [Next]_vars PROVE IInv'
    OBVIOUS
  <1>1. ASSUME NEW p \in Process, Claim(p) \/ Reclaim(p)
        PROVE  IInv'
    BY <1>1, CreateInv, RefusedInv DEF Claim, Reclaim
  <1>2. ASSUME NEW p \in Process, TakeOver(p) \/ Leave(p)
        PROVE  IInv'
    BY <1>2, UnlinkInv DEF TakeOver, Leave
  <1>3. ASSUME NEW p \in Process, Step(p)
        PROVE  IInv'
    BY <1>1, <1>2, <1>3, SweepInv, WritePidInv, ReadHolderInv, StatHolderInv, SaveInv
    DEF Step
  <1>4. CASE UNCHANGED vars
    BY <1>4 DEF vars, sweep, IInv, TypeOK, OutdatedAre, SweepSees, OwnsFile, UnwrittenLock,
                StatSees, VerdictHolds
  <1>5. QED
    BY <1>3, <1>4, SaveInv, CrashInv, AgeInv DEF Next

THEOREM LockInvariant == Spec => []IInv
  BY InitInv, StepInv, PTL DEF Spec

(* The state of the lock is well formed.                                   *)
THEOREM LockTypeOK == Spec => []TypeOK
  <1>1. IInv => TypeOK
    BY DEF IInv
  <1>2. QED
    BY <1>1, LockInvariant, PTL

(* Two servers are in the lock at once only after one of them had its lock *)
(* file unlinked by another.                                               *)
THEOREM LockExclusiveUnlessStolen == Spec => []ExclusiveUnlessStolen
  <1>1. IInv => ExclusiveUnlessStolen
    BY DEF IInv, OwnsFile, ExclusiveUnlessStolen
  <1>2. QED
    BY <1>1, LockInvariant, PTL

(* The judgement that a holder is gone is right about the file it was made *)
(* on, with and without a pid in it, whatever pids were used again.        *)
THEOREM LockVerdictHolds == Spec => []VerdictHolds
  <1>1. IInv => VerdictHolds
    BY DEF IInv
  <1>2. QED
    BY <1>1, LockInvariant, PTL

(* A save loses its temporary file only to a sweep that had judged the pid *)
(* gone before the saver was started under it, however many servers there  *)
(* are and however often they stop.                                        *)
THEOREM LockTempLostOnlyToReuse == Spec => TempLostOnlyToReuse
  <1> DEFINE Kept == \A p \in Process :
               pc[p] = "saving" /\ pc'[p] = "saving" /\ p \in temps /\ p \notin temps'
                 => \E q \in outdated : p \in doomed[q]
  <1>1. IInv /\ [Next]_vars => [Kept]_vars
    <2> SUFFICES ASSUME IInv, Next, NEW p \in Process,
                        pc[p] = "saving", pc'[p] = "saving", p \in temps, p \notin temps'
                 PROVE  \E q \in outdated : p \in doomed[q]
      OBVIOUS
    <2>1. PICK q \in Process : Rename(q) \/ RemoveTemp(q)
      BY DEF Next, Step, ListTemps, JudgeTemp, RemoveTemp, Claim, Reclaim, WritePid,
             ReadHolder, StatHolder, TakeOver, WriteTemp, Rename, Leave, Crash, Restart, Age
    <2>2. ~Rename(q)
      BY DEF Rename, Goto, IInv, TypeOK
    <2>3. p \in doomed[q] /\ pc[q] = "remove"
      BY <2>1, <2>2 DEF RemoveTemp
    <2>4. q \in outdated
      BY <2>3 DEF IInv, SweepSees
    <2>5. QED
      BY <2>3, <2>4
  <1>2. QED
    BY <1>1, LockInvariant, PTL DEF Spec, TempLostOnlyToReuse
=============================================================================
