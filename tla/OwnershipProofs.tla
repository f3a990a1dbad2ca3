--------------------------- MODULE OwnershipProofs ---------------------------
(* Ownership between processes: the file lock, and the owners of a harness    *)
(* session that contend for a lease under it.                                 *)
EXTENDS FileLock, SessionOwner, TLAPS

-----------------------------------------------------------------------------
(* FileLock, for any number of calls, processes and attempts.                 *)

\* Every step keeps the variables typed.
LEMMA LockTypeStep == LockTypeOK /\ [LockNext]_lockVars => LockTypeOK'
<1> SUFFICES ASSUME LockTypeOK, [LockNext]_lockVars PROVE LockTypeOK'
  OBVIOUS
<1> USE ContenderAssumption, RetriesAssumption DEF LockTypeOK, At, To
<1>1. ASSUME NEW c \in Contender, Call(c) PROVE LockTypeOK'
  BY <1>1 DEF Call
<1>2. ASSUME NEW c \in Contender, Make(c) PROVE LockTypeOK'
  BY <1>2 DEF Make
<1>3. ASSUME NEW c \in Contender, GiveUp(c) PROVE LockTypeOK'
  BY <1>3 DEF GiveUp
<1>4. ASSUME NEW c \in Contender, WriteInfo(c) PROVE LockTypeOK'
  BY <1>4 DEF WriteInfo
<1>5. ASSUME NEW c \in Contender, WriteFails(c) PROVE LockTypeOK'
  BY <1>5 DEF WriteFails
<1>6. ASSUME NEW c \in Contender, Look(c) PROVE LockTypeOK'
  BY <1>6 DEF Look
<1>7. ASSUME NEW c \in Contender, Recheck(c) PROVE LockTypeOK'
  BY <1>7, Zenon DEF Recheck, Overlaps
<1>8. ASSUME NEW c \in Contender, RecheckBare(c) PROVE LockTypeOK'
  BY <1>8, Zenon DEF RecheckBare, Overlaps
<1>9. ASSUME NEW c \in Contender, Unlink(c) PROVE LockTypeOK'
  BY <1>9 DEF Unlink
<1>10. ASSUME NEW c \in Contender, Rmdir(c) PROVE LockTypeOK'
  BY <1>10 DEF Rmdir
<1>11. ASSUME NEW c \in Contender, RmFails(c) PROVE LockTypeOK'
  BY <1>11 DEF RmFails
<1>12. ASSUME NEW c \in Contender, Release(c) PROVE LockTypeOK'
  BY <1>12, Zenon DEF Release, Overlaps
<1>13. ASSUME NEW p \in Process, Die(p) PROVE LockTypeOK'
  BY <1>13 DEF Die
<1>14. CASE UNCHANGED lockVars
  BY <1>14 DEF lockVars
<1>15. QED
  BY <1>1, <1>2, <1>3, <1>4, <1>5, <1>6, <1>7, <1>8, <1>9, <1>10, <1>11, <1>12, <1>13,
     <1>14 DEF LockNext

\* An overlap, once it has happened, is remembered.
LEMMA OverlapStays == LockTypeOK /\ [LockNext]_lockVars /\ ~overlap' => ~overlap
<1> SUFFICES ASSUME LockTypeOK, [LockNext]_lockVars, ~overlap' PROVE ~overlap
  OBVIOUS
<1> QED
  BY DEF LockTypeOK, LockNext, lockVars, Call, Make, GiveUp, WriteInfo, WriteFails, Look,
     Recheck, RecheckBare, Overlaps, Unlink, Rmdir, RmFails, Release, Die

\* While no two removals overlap, every step keeps the directory in its owner's hands.
LEMMA OwnedStep == LockTypeOK /\ Owned /\ [LockNext]_lockVars /\ ~overlap' => Owned'
<1> SUFFICES ASSUME LockTypeOK, Owned, [LockNext]_lockVars, ~overlap' PROVE Owned'
  OBVIOUS
<1> USE ContenderAssumption DEF LockTypeOK, Owned, At, To, Alive, Removing, Reaping, Gone
<1>1. ASSUME NEW c \in Contender, Call(c) PROVE Owned'
  BY <1>1 DEF Call
<1>2. ASSUME NEW c \in Contender, Make(c) PROVE Owned'
  BY <1>2 DEF Make
<1>3. ASSUME NEW c \in Contender, GiveUp(c) PROVE Owned'
  BY <1>3 DEF GiveUp
<1>4. ASSUME NEW c \in Contender, WriteInfo(c) PROVE Owned'
  BY <1>4 DEF WriteInfo
<1>5. ASSUME NEW c \in Contender, WriteFails(c) PROVE Owned'
  BY <1>5 DEF WriteFails
<1>6. ASSUME NEW c \in Contender, Look(c) PROVE Owned'
  <2>1. CASE /\ info # None /\ ~Alive(info)
             /\ To(c, "recheck") /\ seen' = [seen EXCEPT ![c] = info]
    BY <1>6, <2>1 DEF Look
  <2>2. CASE /\ info = None /\ dir # None /\ Abandoned
             /\ To(c, "recheckBare") /\ seen' = [seen EXCEPT ![c] = dir]
    <3>1. dir \in Contender \ {c} /\ Gone(dir)
      BY <1>6, <2>2 DEF Look, Abandoned
    <3> QED
      BY <1>6, <2>2, <3>1 DEF Look
  <2>3. CASE To(c, "make") /\ UNCHANGED seen
    BY <1>6, <2>3 DEF Look
  <2> QED
    BY <1>6, <2>1, <2>2, <2>3 DEF Look
<1>7. ASSUME NEW c \in Contender, Recheck(c) PROVE Owned'
  <2>1. CASE info = seen[c] /\ To(c, "unlink") /\ Overlaps(c)
    <3>1. \A x \in Contender \ {c} : ~Removing(x)
      BY <2>1, Zenon DEF Overlaps
    <3>2. dir = seen[c] /\ seen[c] \in Contender \ {c} /\ Gone(seen[c])
      BY <1>7, <2>1 DEF Recheck
    <3> QED
      BY <1>7, <2>1, <3>1, <3>2 DEF Recheck
  <2>2. CASE info # seen[c] /\ To(c, "make") /\ UNCHANGED overlap
    BY <1>7, <2>2 DEF Recheck
  <2> QED
    BY <1>7, <2>1, <2>2 DEF Recheck
<1>8. ASSUME NEW c \in Contender, RecheckBare(c) PROVE Owned'
  <2>1. CASE info = None /\ dir = seen[c] /\ To(c, "unlink") /\ Overlaps(c)
    <3>1. \A x \in Contender \ {c} : ~Removing(x)
      BY <2>1, Zenon DEF Overlaps
    <3>2. seen[c] \in Contender \ {c} /\ Gone(seen[c])
      BY <1>8, <2>1 DEF RecheckBare
    <3> QED
      BY <1>8, <2>1, <3>1, <3>2 DEF RecheckBare
  <2>2. CASE (info # None \/ dir # seen[c]) /\ To(c, "make") /\ UNCHANGED overlap
    BY <1>8, <2>2 DEF RecheckBare
  <2> QED
    BY <1>8, <2>1, <2>2 DEF RecheckBare
<1>9. ASSUME NEW c \in Contender, Unlink(c) PROVE Owned'
  <2>1. \A x \in Contender \ {c} : ~Removing(x)
    BY <1>9 DEF Unlink
  <2>2. \A x \in Contender : ~At(x, "in") /\ ~At(x, "write")
    BY <1>9 DEF Unlink
  <2> QED
    BY <1>9, <2>1, <2>2 DEF Unlink
<1>10. ASSUME NEW c \in Contender, Rmdir(c) PROVE Owned'
  BY <1>10 DEF Rmdir
<1>11. ASSUME NEW c \in Contender, RmFails(c) PROVE Owned'
  BY <1>11 DEF RmFails
<1>12. ASSUME NEW c \in Contender, Release(c) PROVE Owned'
  BY <1>12 DEF Release, Overlaps
<1>13. ASSUME NEW p \in Process, Die(p) PROVE Owned'
  BY <1>13 DEF Die
<1>14. CASE UNCHANGED lockVars
  BY <1>14 DEF lockVars
<1>15. QED
  BY <1>1, <1>2, <1>3, <1>4, <1>5, <1>6, <1>7, <1>8, <1>9, <1>10, <1>11, <1>12, <1>13,
     <1>14, Zenon DEF LockNext

\* acquireLock, releaseLock and the removal of a stale lock: until two removals overlap, a
\* call that is writing info, in the critical section or removing the directory has the
\* directory it thinks it has, and one that reaps has that of a call that is gone.
THEOREM DirectoryIsOwned == FileLockSpec => []LockInv
<1>1. LockInit => LockInv
  <2> SUFFICES ASSUME LockInit PROVE LockTypeOK /\ Owned
    BY DEF LockInv
  <2> USE ContenderAssumption DEF LockInit
  <2>1. LockTypeOK
    <3>1. tries \in [Contender -> 0..Retries]
      BY RetriesAssumption
    <3>2. dead \in SUBSET Process /\ overlap \in BOOLEAN
      BY Zenon
    <3> QED
      BY <3>1, <3>2 DEF LockTypeOK
  <2>2. Owned
    BY DEF Owned, At, Removing, Reaping
  <2> QED
    BY <2>1, <2>2
<1>2. LockInv /\ [LockNext]_lockVars => LockInv'
  BY LockTypeStep, OverlapStays, OwnedStep DEF LockInv
<1>3. QED
  BY <1>1, <1>2, PTL DEF FileLockSpec

\* withFileLock: at most one live call is in the critical section, whichever processes
\* die and whichever writes and removals fail, as long as no two calls have been removing
\* the lock directory at the same time.
THEOREM OneHolder == FileLockSpec => []MutualExclusion
<1>1. LockInv => MutualExclusion
  BY DEF LockInv, Owned, MutualExclusion, Holders
<1>2. QED
  BY DirectoryIsOwned, <1>1, PTL

\* releaseLock: under the same condition a live owner always finds the lock its own.
THEOREM OwnerKeepsLock == FileLockSpec => []ReleaseFindsLock
<1>1. LockInv => ReleaseFindsLock
  BY DEF LockInv, Owned, ReleaseFindsLock
<1>2. QED
  BY DirectoryIsOwned, <1>1, PTL

\* Every step of the directory protocol is a step of the lock, or none.
LEMMA StepSimulation ==
    LockInv /\ LockInv' /\ [LockNext]_lockVars => [Promise!Next]_(Promise!lockVars)
<1> SUFFICES ASSUME LockInv, LockInv', [LockNext]_lockVars
             PROVE  [Promise!Next]_(Promise!lockVars)
  OBVIOUS
<1> USE DEF LockInv, LockTypeOK, Holders, At, To, Alive
<1> DEFINE Quiet == Holders' = Holders /\ overlap' = overlap
<1>0. Quiet => UNCHANGED Promise!lockVars
  BY DEF Promise!lockVars
<1>1. ASSUME NEW c \in Contender,
             Call(c) \/ Make(c) \/ GiveUp(c) \/ WriteFails(c) \/ Look(c) \/ Unlink(c)
               \/ Rmdir(c) \/ RmFails(c)
      PROVE  Quiet
  BY <1>1 DEF Call, Make, GiveUp, WriteFails, Look, Unlink, Rmdir, RmFails, Removing
<1>2. ASSUME NEW c \in Contender, WriteInfo(c) PROVE Promise!Acquire(c)
  <2>1. c \notin Holders /\ Holders' = Holders \cup {c} /\ overlap' = overlap
    BY <1>2 DEF WriteInfo
  <2>2. Holders = {} \/ overlap
    BY <1>2 DEF WriteInfo, Owned
  <2> QED
    BY <2>1, <2>2 DEF Promise!Acquire
<1>3. ASSUME NEW c \in Contender, Recheck(c) \/ RecheckBare(c) PROVE Quiet \/ Promise!Break
  BY <1>3 DEF Recheck, RecheckBare, Overlaps, Promise!Break
<1>4. ASSUME NEW c \in Contender, Release(c) PROVE Promise!Leave({c})
  <2>1. c \in Holders /\ Holders' = Holders \ {c}
    BY <1>4 DEF Release
  <2>2. CASE overlap
    BY <1>4, <2>1, <2>2, Zenon DEF Release, Overlaps, Promise!Leave
  <2>3. CASE ~overlap
    <3>1. \A x \in Contender \ {c} : ~Removing(x)
      BY <1>4, <2>3 DEF Release, Owned, Removing, Reaping, Gone
    <3>2. overlap' = overlap
      BY <1>4, <2>3, <3>1 DEF Release, Overlaps
    <3> QED
      BY <2>1, <3>2 DEF Promise!Leave
  <2> QED
    BY <2>2, <2>3
<1>5. ASSUME NEW p \in Process, Die(p)
      PROVE  Quiet \/ \E S \in SUBSET Contender : Promise!Leave(S)
  <2> DEFINE S == {c \in Holders : ProcessOf[c] = p}
  <2>1. Holders' = Holders \ S /\ overlap' = overlap /\ S \subseteq Holders
    BY <1>5 DEF Die
  <2>2. CASE S = {}
    BY <2>1, <2>2
  <2>3. CASE S # {}
    BY <2>1, <2>3, Zenon DEF Promise!Leave
  <2> QED
    BY <2>2, <2>3
<1>6. ASSUME UNCHANGED lockVars PROVE Quiet
  BY <1>6 DEF lockVars
<1>7. QED
  BY <1>0, <1>1, <1>2, <1>3, <1>4, <1>5, <1>6, Zenon DEF LockNext, Promise!Next

\* The file lock implements the exclusive lock: a call enters the critical section only
\* when no live call is in it, unless two removals have overlapped.
THEOREM Refinement == FileLockSpec => LockSpec
<1>1. LockInit => Promise!Init
  BY DEF LockInit, Promise!Init, Holders, At
<1>2. QED
  BY <1>1, DirectoryIsOwned, StepSimulation, PTL DEF FileLockSpec, LockSpec, Promise!Spec

-----------------------------------------------------------------------------
(* SessionOwner, for any number of owners and renewals.                      *)

\* Tasks of different kinds or owners differ.
LEMMA TaskFacts ==
    /\ Gc \in Task
    /\ \A o \in Owner : Own(o) \in Task /\ Renew(o) \in Task /\ Own(o) # Gc /\ Renew(o) # Gc
    /\ \A o, p \in Owner : Own(o) # Renew(p)
    /\ \A o, p \in Owner : (Own(o) = Own(p) => o = p) /\ (Renew(o) = Renew(p) => o = p)
  BY DEF Own, Renew, Gc, Task

\* Which task it is that enters the lock.
LEMMA WantsFacts ==
    /\ \A o \in Owner : Wants(Own(o)) =>
          pc[o] = "acquire" \/ (pc[o] = "release" /\ held[o])
    /\ \A o \in Owner : Wants(Renew(o)) => renewals[o] > 0
    /\ Wants(Gc) => reaper # NoOwner
<1>1. ASSUME NEW o \in Owner, Wants(Own(o))
      PROVE  pc[o] = "acquire" \/ (pc[o] = "release" /\ held[o])
  <2>1. PICK p \in Owner : Own(o) = Own(p) /\ pc[p] \in {"acquire", "release"}
                             /\ held[p] = (pc[p] = "release")
    BY <1>1, TaskFacts DEF Wants
  <2>2. p = o
    BY <2>1, TaskFacts
  <2> QED
    BY <2>1, <2>2, Zenon
<1>2. ASSUME NEW o \in Owner, Wants(Renew(o)) PROVE renewals[o] > 0
  <2>1. PICK p \in Owner : Renew(o) = Renew(p) /\ renewals[p] > 0
    BY <1>2, TaskFacts DEF Wants
  <2>2. p = o
    BY <2>1, TaskFacts
  <2> QED
    BY <2>1, <2>2
<1>3. ASSUME Wants(Gc) PROVE reaper # NoOwner
  BY <1>3, TaskFacts DEF Wants
<1> QED
  BY <1>1, <1>2, <1>3

\* Every step keeps the variables typed.
LEMMA TypeOKStep == IInv /\ [Next]_vars => TypeOK'
<1> SUFFICES ASSUME IInv, [Next]_vars PROVE TypeOK'
  OBVIOUS
<1> USE OwnerAssumption, RenewalsAssumption DEF TypeOK, Go, Lease, NoLease
<1>1. TypeOK /\ \A o \in Owner : Renew(o) \in holders => renewals[o] > 0
  BY DEF IInv, Owns
<1>2. ASSUME NEW t \in Task, Enter(t) PROVE TypeOK'
  BY <1>1, <1>2 DEF Enter, Lock!Acquire
<1>3. ASSUME NEW o \in Owner, Start(o) PROVE TypeOK'
  BY <1>1, <1>3 DEF Start
<1>4. ASSUME NEW o \in Owner, AcquireLease(o) PROVE TypeOK'
  <2>1. CASE lease' = [owner |-> o, expired |-> FALSE] /\ held' = [held EXCEPT ![o] = TRUE]
    BY <1>1, <1>4, <2>1 DEF AcquireLease, Exit, Lock!Leave
  <2>2. CASE UNCHANGED <<lease, held>>
    BY <1>1, <1>4, <2>2 DEF AcquireLease, Exit, Lock!Leave
  <2> QED
    BY <1>4, <2>1, <2>2 DEF AcquireLease
<1>5. ASSUME NEW o \in Owner, AcquireTimesOut(o) PROVE TypeOK'
  BY <1>1, <1>5 DEF AcquireTimesOut
<1>6. ASSUME NEW o \in Owner, Listen(o) PROVE TypeOK'
  BY <1>1, <1>6 DEF Listen
<1>7. ASSUME NEW o \in Owner, ListenFails(o) PROVE TypeOK'
  BY <1>1, <1>7 DEF ListenFails
<1>8. ASSUME NEW o \in Owner, Tick(o) PROVE TypeOK'
  BY <1>1, <1>8 DEF Tick
<1>9. ASSUME NEW o \in Owner, Heartbeat(o) PROVE TypeOK'
  BY <1>1, <1>9 DEF Heartbeat, Exit, Lock!Leave
<1>10. ASSUME NEW o \in Owner, RenewalTimesOut(o) PROVE TypeOK'
  BY <1>1, <1>10 DEF RenewalTimesOut
<1>11. ASSUME Expire PROVE TypeOK'
  BY <1>1, <1>11, Zenon DEF Expire
<1>12. ASSUME NEW o \in Owner, Stop(o) PROVE TypeOK'
  BY <1>1, <1>12 DEF Stop
<1>13. ASSUME NEW o \in Owner, CloseTransport(o) PROVE TypeOK'
  BY <1>1, <1>13 DEF CloseTransport
<1>14. ASSUME NEW o \in Owner, CloseServer(o) PROVE TypeOK'
  BY <1>1, <1>14 DEF CloseServer
<1>15. ASSUME NEW o \in Owner, Fence(o) PROVE TypeOK'
  BY <1>1, <1>15 DEF Fence
<1>16. ASSUME NEW o \in Owner, Drained(o) PROVE TypeOK'
  BY <1>1, <1>16 DEF Drained
<1>17. ASSUME NEW o \in Owner, NothingHeld(o) PROVE TypeOK'
  BY <1>1, <1>17 DEF NothingHeld
<1>18. ASSUME NEW o \in Owner, ReleaseLease(o) PROVE TypeOK'
  BY <1>1, <1>18 DEF ReleaseLease, Exit, Lock!Leave
<1>19. ASSUME NEW o \in Owner, Crash(o) PROVE TypeOK'
  <2>1. holders' \in SUBSET Task /\ read' \in [Task -> Lease]
    BY <1>1, <1>19, Zenon DEF Crash
  <2>2. held' \in [Owner -> BOOLEAN] /\ renewals' \in [Owner -> 0..MaxRenewals]
    BY <1>1, <1>19 DEF Crash
  <2> QED
    BY <1>1, <1>19, <2>1, <2>2, Zenon DEF Crash
<1>20. ASSUME ReapLook PROVE TypeOK'
  BY <1>1, <1>20 DEF ReapLook
<1>21. ASSUME Reap PROVE TypeOK'
  <2>1. reaper' \in Owner \cup {NoOwner} /\ holders' \in SUBSET Task /\ read' \in [Task -> Lease]
    BY <1>1, <1>21 DEF Reap, Exit, Lock!Leave
  <2>2. lease' \in Lease /\ socket' \in Owner \cup {NoOwner}
    <3>1. (lease' = NoLease /\ socket' = NoOwner) \/ UNCHANGED <<lease, socket>>
      BY <1>21 DEF Reap
    <3> QED
      <4>1. NoLease \in Lease
        OBVIOUS
      <4>2. CASE lease' = NoLease /\ socket' = NoOwner
        BY <4>1, <4>2
      <4>3. CASE UNCHANGED <<lease, socket>>
        BY <1>1, <4>3
      <4> QED
        BY <3>1, <4>2, <4>3
  <2> QED
    BY <1>1, <1>21, <2>1, <2>2 DEF Reap
<1>22. ASSUME UNCHANGED vars PROVE TypeOK'
  BY <1>1, <1>22 DEF vars
<1>23. QED
  BY <1>2, <1>3, <1>4, <1>5, <1>6, <1>7, <1>8, <1>9, <1>10, <1>11, <1>12, <1>13, <1>14,
     <1>15, <1>16, <1>17, <1>18, <1>19, <1>20, <1>21, <1>22, Zenon DEF Next

\* Every step keeps the lock exclusive and what its holder has read current.
LEMMA LockedStep == IInv /\ [Next]_vars => Locked'
<1> SUFFICES ASSUME IInv, [Next]_vars PROVE Locked'
  OBVIOUS
<1> USE OwnerAssumption, TaskFacts DEF TypeOK, Locked, Go, Lease, NoLease
<1>1. TypeOK /\ Locked /\ \A o \in Owner : Owns(o)
  BY DEF IInv
<1>2. ASSUME NEW t \in Task, Enter(t) PROVE Locked'
  <2>1. holders = {} /\ holders' = {t} /\ UNCHANGED <<lease, reaper>>
    BY <1>2 DEF Enter, Lock!Acquire
  <2>2. read'[t] = lease
    BY <1>1, <1>2 DEF Enter
  <2>3. Gc \in holders' => reaper # NoOwner
    BY <1>2, <2>1, WantsFacts DEF Enter
  <2> QED
    BY <2>1, <2>2, <2>3
<1>3. ASSUME NEW o \in Owner, Start(o) PROVE Locked'
  BY <1>1, <1>3 DEF Start
<1>4. ASSUME NEW o \in Owner, AcquireLease(o) PROVE Locked'
  BY <1>1, <1>4 DEF AcquireLease, Exit, Lock!Leave, Free
<1>5. ASSUME NEW o \in Owner, AcquireTimesOut(o) PROVE Locked'
  BY <1>1, <1>5 DEF AcquireTimesOut
<1>6. ASSUME NEW o \in Owner, Listen(o) PROVE Locked'
  BY <1>1, <1>6 DEF Listen
<1>7. ASSUME NEW o \in Owner, ListenFails(o) PROVE Locked'
  BY <1>1, <1>7 DEF ListenFails
<1>8. ASSUME NEW o \in Owner, Tick(o) PROVE Locked'
  BY <1>1, <1>8 DEF Tick
<1>9. ASSUME NEW o \in Owner, Heartbeat(o) PROVE Locked'
  BY <1>1, <1>9 DEF Heartbeat, Exit, Lock!Leave
<1>10. ASSUME NEW o \in Owner, RenewalTimesOut(o) PROVE Locked'
  BY <1>1, <1>10 DEF RenewalTimesOut
<1>11. ASSUME Expire PROVE Locked'
  BY <1>1, <1>11 DEF Expire
<1>12. ASSUME NEW o \in Owner, Stop(o) PROVE Locked'
  BY <1>1, <1>12 DEF Stop
<1>13. ASSUME NEW o \in Owner, CloseTransport(o) PROVE Locked'
  BY <1>1, <1>13 DEF CloseTransport
<1>14. ASSUME NEW o \in Owner, CloseServer(o) PROVE Locked'
  BY <1>1, <1>14 DEF CloseServer
<1>15. ASSUME NEW o \in Owner, Fence(o) PROVE Locked'
  BY <1>1, <1>15 DEF Fence
<1>16. ASSUME NEW o \in Owner, Drained(o) PROVE Locked'
  BY <1>1, <1>16 DEF Drained
<1>17. ASSUME NEW o \in Owner, NothingHeld(o) PROVE Locked'
  BY <1>1, <1>17 DEF NothingHeld
<1>18. ASSUME NEW o \in Owner, ReleaseLease(o) PROVE Locked'
  BY <1>1, <1>18 DEF ReleaseLease, Exit, Lock!Leave
<1>19. ASSUME NEW o \in Owner, Crash(o) PROVE Locked'
  BY <1>1, <1>19 DEF Crash
<1>20. ASSUME ReapLook PROVE Locked'
  BY <1>1, <1>20 DEF ReapLook
<1>21. ASSUME Reap PROVE Locked'
  BY <1>1, <1>21 DEF Reap, Exit, Lock!Leave
<1>22. ASSUME UNCHANGED vars PROVE Locked'
  BY <1>1, <1>22 DEF vars
<1>23. QED
  BY <1>2, <1>3, <1>4, <1>5, <1>6, <1>7, <1>8, <1>9, <1>10, <1>11, <1>12, <1>13, <1>14,
     <1>15, <1>16, <1>17, <1>18, <1>19, <1>20, <1>21, <1>22, Zenon DEF Next

\* Every step keeps lease, socket and renewals with the owner that holds the lease.
LEMMA OwnsStep == ASSUME IInv, [Next]_vars, TypeOK', NEW x \in Owner PROVE Owns(x)'
<1> USE OwnerAssumption, TaskFacts DEF TypeOK, Owns, Go, Lease, NoLease, Dead, Stages
<1>1. TypeOK /\ Locked /\ \A o \in Owner : Owns(o)
  BY DEF IInv
<1>2. ASSUME NEW t \in Task, Enter(t) PROVE Owns(x)'
  <2>1. holders' = {t} /\ UNCHANGED <<lease, socket, pc, held, renewals, reaper>>
    BY <1>2 DEF Enter, Lock!Acquire
  <2>2. Own(x) \in holders' => pc[x] = "acquire" \/ (pc[x] = "release" /\ held[x])
    BY <1>2, <2>1, WantsFacts DEF Enter
  <2>3. Renew(x) \in holders' => renewals[x] > 0
    BY <1>2, <2>1, WantsFacts DEF Enter
  <2> QED
    BY <1>1, <2>1, <2>2, <2>3
<1>3. ASSUME NEW o \in Owner, Start(o) PROVE Owns(x)'
  BY <1>1, <1>3 DEF Start
<1>4. ASSUME NEW o \in Owner, AcquireLease(o) PROVE Owns(x)'
  <2>1. read[Own(o)].owner = lease.owner /\ Own(o) \in holders /\ ~held[o]
    BY <1>1, <1>4, Zenon DEF AcquireLease, Locked
  <2>2. \A t \in holders' : FALSE
    BY <1>1, <1>4 DEF AcquireLease, Exit, Lock!Leave, Locked
  <2>3. CASE Free(read[Own(o)]) /\ lease' = [owner |-> o, expired |-> FALSE]
               /\ held' = [held EXCEPT ![o] = TRUE] /\ Go(o, "listen")
    <3>1. \A p \in Owner : lease.owner = p => Dead(p)
      BY <2>1, <2>3 DEF Free
    <3>2. \A p \in Owner : ~held[p]
      BY <1>1, <3>1, Zenon
    <3> QED
      BY <1>1, <1>4, <2>1, <2>2, <2>3, <3>1, <3>2 DEF AcquireLease
  <2>4. CASE Go(o, "transport") /\ UNCHANGED <<lease, held>>
    BY <1>1, <1>4, <2>1, <2>2, <2>4 DEF AcquireLease
  <2> QED
    BY <1>4, <2>3, <2>4 DEF AcquireLease
<1>5. ASSUME NEW o \in Owner, AcquireTimesOut(o) PROVE Owns(x)'
  BY <1>1, <1>5 DEF AcquireTimesOut
<1>6. ASSUME NEW o \in Owner, Listen(o) PROVE Owns(x)'
  BY <1>1, <1>6 DEF Listen
<1>7. ASSUME NEW o \in Owner, ListenFails(o) PROVE Owns(x)'
  BY <1>1, <1>7 DEF ListenFails
<1>8. ASSUME NEW o \in Owner, Tick(o) PROVE Owns(x)'
  BY <1>1, <1>8 DEF Tick
<1>9. ASSUME NEW o \in Owner, Heartbeat(o) PROVE Owns(x)'
  BY <1>1, <1>9 DEF Heartbeat, Exit, Lock!Leave
<1>10. ASSUME NEW o \in Owner, RenewalTimesOut(o) PROVE Owns(x)'
  BY <1>1, <1>10 DEF RenewalTimesOut
<1>11. ASSUME Expire PROVE Owns(x)'
  BY <1>1, <1>11 DEF Expire
<1>12. ASSUME NEW o \in Owner, Stop(o) PROVE Owns(x)'
  BY <1>1, <1>12 DEF Stop
<1>13. ASSUME NEW o \in Owner, CloseTransport(o) PROVE Owns(x)'
  BY <1>1, <1>13 DEF CloseTransport
<1>14. ASSUME NEW o \in Owner, CloseServer(o) PROVE Owns(x)'
  BY <1>1, <1>14 DEF CloseServer
<1>15. ASSUME NEW o \in Owner, Fence(o) PROVE Owns(x)'
  BY <1>1, <1>15 DEF Fence
<1>16. ASSUME NEW o \in Owner, Drained(o) PROVE Owns(x)'
  BY <1>1, <1>16 DEF Drained
<1>17. ASSUME NEW o \in Owner, NothingHeld(o) PROVE Owns(x)'
  BY <1>1, <1>17 DEF NothingHeld
<1>18. ASSUME NEW o \in Owner, ReleaseLease(o) PROVE Owns(x)'
  <2>1. read[Own(o)].owner = lease.owner /\ held[o] /\ lease.owner = o
    BY <1>1, <1>18 DEF ReleaseLease, Locked
  <2>2. \A t \in holders' : FALSE
    BY <1>1, <1>18 DEF ReleaseLease, Exit, Lock!Leave, Locked
  <2>3. lease' = NoLease /\ held' = [held EXCEPT ![o] = FALSE] /\ Go(o, "done")
    BY <1>18, <2>1 DEF ReleaseLease
  <2>4. renewals[o] = 0 /\ socket # o
    <3>1. ~(renewals[o] > 0) /\ socket # o
      BY <1>1, <1>18 DEF ReleaseLease
    <3> QED
      BY <1>1, <3>1, RenewalsAssumption
  <2> QED
    BY <1>1, <1>18, <2>1, <2>2, <2>3, <2>4 DEF ReleaseLease
<1>19. ASSUME NEW o \in Owner, Crash(o) PROVE Owns(x)'
  BY <1>1, <1>19 DEF Crash
<1>20. ASSUME ReapLook PROVE Owns(x)'
  BY <1>1, <1>20 DEF ReapLook
<1>21. ASSUME Reap PROVE Owns(x)'
  <2>1. read[Gc].owner = lease.owner /\ \A t \in holders' : FALSE
    BY <1>1, <1>21 DEF Reap, Exit, Lock!Leave, Locked
  <2>2. CASE lease' = NoLease /\ socket' = NoOwner /\ read[Gc].owner = reaper /\ Dead(reaper)
    <3>1. ~held[x]
      BY <1>1, <2>1, <2>2, Zenon
    <3> QED
      BY <1>1, <1>21, <2>1, <2>2, <3>1 DEF Reap
  <2>3. CASE UNCHANGED <<lease, socket>>
    BY <1>1, <1>21, <2>1, <2>3 DEF Reap
  <2> QED
    BY <1>21, <2>2, <2>3 DEF Reap
<1>22. ASSUME UNCHANGED vars PROVE Owns(x)'
  BY <1>1, <1>22 DEF vars
<1>23. QED
  BY <1>2, <1>3, <1>4, <1>5, <1>6, <1>7, <1>8, <1>9, <1>10, <1>11, <1>12, <1>13, <1>14,
     <1>15, <1>16, <1>17, <1>18, <1>19, <1>20, <1>21, <1>22, Zenon DEF Next

\* A live owner has the lease and the socket it believes it has from acquiring the lease
\* to releasing it, and a task in the lock has read the lease as it is, whichever owners
\* start, stop, die and are reaped (acquireLease, heartbeat, releaseLease).
THEOREM OwnersInvariant == Spec => []IInv
<1>1. Init => IInv
  <2> SUFFICES ASSUME Init PROVE IInv
    OBVIOUS
  <2> USE OwnerAssumption DEF Init, NoLease
  <2>1. TypeOK
    <3>1. renewals \in [Owner -> 0..MaxRenewals]
      BY RenewalsAssumption
    <3>2. lease \in Lease /\ read \in [Task -> Lease]
      BY DEF Lease
    <3> QED
      BY <3>1, <3>2, Zenon DEF TypeOK
  <2>2. Locked
    BY DEF Locked
  <2>3. \A o \in Owner : Owns(o)
    BY DEF Owns
  <2> QED
    BY <2>1, <2>2, <2>3 DEF IInv
<1>2. IInv /\ [Next]_vars => IInv'
  BY TypeOKStep, LockedStep, OwnsStep DEF IInv
<1>3. QED
  BY <1>1, <1>2, PTL DEF Spec

\* acquireLease, heartbeat, releaseLease, reapDeadOwnerArtifacts: given an exclusive lock
\* around each, a live owner keeps the lease from acquiring it to releasing it, however
\* many owners start, die and are reaped, and however late its renewals are.
THEOREM LeaseStays == Spec => []LeaseProtects
<1>1. IInv => LeaseProtects
  BY DEF IInv, Owns, LeaseProtects
<1>2. QED
  BY OwnersInvariant, <1>1, PTL

\* ControlServer: a live owner at the control socket's path is the one in the lease.
THEOREM SocketFollowsLease == Spec => []SocketIsHolders
<1>1. IInv => SocketIsHolders
  BY DEF IInv, Owns, SocketIsHolders
<1>2. QED
  BY OwnersInvariant, <1>1, PTL

\* #fenceHeartbeat: no renewal of an owner is in flight when it releases the lease.
THEOREM FencedBeforeRelease == Spec => []ReleaseUncontended
<1>1. IInv => ReleaseUncontended
  <2> SUFFICES ASSUME IInv, NEW o \in Owner, pc[o] = "release" PROVE renewals[o] = 0
    BY DEF ReleaseUncontended
  <2>1. ~(renewals[o] > 0) /\ renewals[o] \in 0..MaxRenewals
    BY DEF IInv, Owns, TypeOK
  <2> QED
    BY <2>1, RenewalsAssumption
<1>2. QED
  BY OwnersInvariant, <1>1, PTL

\* #stopOnce: an owner that has stopped left neither its lease nor its socket behind.
THEOREM StopIsClean == Spec => []StoppedLeavesNothing
<1>1. IInv => StoppedLeavesNothing
  BY DEF IInv, Owns, StoppedLeavesNothing, Dead, Stages
<1>2. QED
  BY OwnersInvariant, <1>1, PTL
=============================================================================
