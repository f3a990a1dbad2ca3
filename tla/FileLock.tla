------------------------------ MODULE FileLock ------------------------------
(* The cross-process file lock: packages/coding-agent/src/config/            *)
(* file-lock.ts.  The lock on a file is a directory <file>.lock; the file    *)
(* info in it names the owner.  acquireLock makes the directory, or finds it *)
(* there and, if its owner is dead, removes it and tries again; removal      *)
(* first reads the owner once more and is not atomic: rm unlinks info, then  *)
(* the directory.  Every file operation is a step of its own, and a process  *)
(* may die between any two.                                                  *)
(*                                                                           *)
(* A contender is one call of withFileLock; it makes the directory at most   *)
(* once, so it stands for the owner token {pid, start_time, timestamp} and   *)
(* for the identity (inode, times) of the directory it made.  An owner is    *)
(* alive or dead (an "unknown" liveness is not modelled).  Assumption: a     *)
(* directory without info older than staleMs has been left by a call that    *)
(* died or failed; a live one writes info, or ends a removal, within staleMs.*)
EXTENDS Integers, FiniteSets

CONSTANTS Contender, \* calls of withFileLock on one file
          Process,   \* processes
          ProcessOf, \* the process of a call
          Retries,   \* FileLockOptions.retries
          None       \* no contender

ASSUME ContenderAssumption == None \notin Contender /\ ProcessOf \in [Contender -> Process]
ASSUME RetriesAssumption == Retries \in Nat \ {0}

VARIABLES dir,    \* the call that made the lock directory, None: there is none
          info,   \* the call that wrote its info file, None: there is none
          stage,     \* where a call is
          seen,   \* the directory a call has found stale, or is about to remove
          tries,  \* attempts of a call
          dead,   \* processes that died
          overlap \* history: two live calls were removing the directory at once

lockVars == <<dir, info, stage, seen, tries, dead, overlap>>

Alive(c) == ProcessOf[c] \notin dead
At(c, p) == stage[c] = p /\ Alive(c)
Removing(c) == stage[c] \in {"unlink", "rmdir"} /\ Alive(c)
To(c, p) == stage' = [stage EXCEPT ![c] = p]

LockInit ==
    /\ dir = None /\ info = None /\ dead = {} /\ overlap = FALSE
    /\ stage = [c \in Contender |-> "idle"]
    /\ seen = [c \in Contender |-> None]
    /\ tries = [c \in Contender |-> 0]

\* withFileLock is called.
Call(c) ==
    /\ At(c, "idle") /\ To(c, "make")
    /\ UNCHANGED <<dir, info, seen, tries, dead, overlap>>

\* tryAcquireLock: mkdir, which fails if the directory is there.
Make(c) ==
    /\ At(c, "make") /\ tries[c] < Retries
    /\ tries' = [tries EXCEPT ![c] = @ + 1]
    /\ \/ dir = None /\ dir' = c /\ To(c, "write")
       \/ dir # None /\ To(c, "look") /\ UNCHANGED dir
    /\ UNCHANGED <<info, seen, dead, overlap>>

\* The last attempt failed: FileLockAcquireError.
GiveUp(c) ==
    /\ At(c, "make") /\ tries[c] = Retries
    /\ To(c, "failed")
    /\ UNCHANGED <<dir, info, seen, tries, dead, overlap>>

\* writeLockInfo, which writes by path and makes a directory that is missing.
WriteInfo(c) ==
    /\ At(c, "write")
    /\ info' = c /\ dir' = IF dir = None THEN c ELSE dir
    /\ To(c, "in")
    /\ UNCHANGED <<seen, tries, dead, overlap>>

\* The write fails: tryAcquireLock throws and leaves the directory without info.
WriteFails(c) ==
    /\ At(c, "write") /\ To(c, "failed")
    /\ UNCHANGED <<dir, info, seen, tries, dead, overlap>>

\* A directory without info is old.
Abandoned == info = None /\ \A c \in Contender : ~At(c, "write") /\ ~At(c, "rmdir")

\* staleLockSnapshot by age alone: a live owner is stale too.
LookByAge(c) ==
    /\ At(c, "look")
    /\ \/ info # None /\ To(c, "recheck") /\ seen' = [seen EXCEPT ![c] = info]
       \/ info = None /\ To(c, "make") /\ UNCHANGED seen
    /\ UNCHANGED <<dir, info, tries, dead, overlap>>

\* staleLockSnapshot: a dead owner is stale; one whose pid runs again, not before staleMs.
\* A directory without info is stale when it is old.
Look(c) ==
    /\ At(c, "look")
    /\ \/ /\ info # None /\ ~Alive(info)
          /\ To(c, "recheck") /\ seen' = [seen EXCEPT ![c] = info]
       \/ /\ info = None /\ dir # None /\ Abandoned
          /\ To(c, "recheckBare") /\ seen' = [seen EXCEPT ![c] = dir]
       \/ To(c, "make") /\ UNCHANGED seen
    /\ UNCHANGED <<dir, info, tries, dead, overlap>>

\* A removal begins while another is under way.
Overlaps(c) == overlap' = (overlap \/ \E x \in Contender \ {c} : Removing(x))

\* removeStaleLockForAcquire without the second look.
RecheckNothing(c) ==
    /\ At(c, "recheck")
    /\ To(c, "unlink") /\ Overlaps(c)
    /\ UNCHANGED <<dir, info, seen, tries, dead>>

\* removeStaleLockForAcquire, removeFileLockDirForGc: it still names the same owner.
Recheck(c) ==
    /\ At(c, "recheck")
    /\ \/ info = seen[c] /\ To(c, "unlink") /\ Overlaps(c)
       \/ info # seen[c] /\ To(c, "make") /\ UNCHANGED overlap
    /\ UNCHANGED <<dir, info, seen, tries, dead>>

\* removeStaleLockForAcquire: it is the same directory and still names no owner.
RecheckBare(c) ==
    /\ At(c, "recheckBare")
    /\ \/ info = None /\ dir = seen[c] /\ To(c, "unlink") /\ Overlaps(c)
       \/ (info # None \/ dir # seen[c]) /\ To(c, "make") /\ UNCHANGED overlap
    /\ UNCHANGED <<dir, info, seen, tries, dead>>

\* The first half of rm.
Unlink(c) ==
    /\ At(c, "unlink")
    /\ info' = None /\ To(c, "rmdir")
    /\ UNCHANGED <<dir, seen, tries, dead, overlap>>

\* The second half of rm, which starts over if the directory is not empty; acquireLock
\* tries again, the owner's withFileLock returns.
Rmdir(c) ==
    /\ At(c, "rmdir")
    /\ \/ info # None /\ To(c, "unlink") /\ UNCHANGED dir
       \/ info = None /\ dir' = None /\ To(c, IF seen[c] = c THEN "done" ELSE "make")
    /\ UNCHANGED <<info, seen, tries, dead, overlap>>

\* rm fails: withFileLock throws, and what is left of the lock stays.
RmFails(c) ==
    /\ Removing(c) /\ To(c, "failed")
    /\ UNCHANGED <<dir, info, seen, tries, dead, overlap>>

\* The critical section is over: releaseLock reads the owner and removes its own lock, or
\* throws.
Release(c) ==
    /\ At(c, "in")
    /\ seen' = [seen EXCEPT ![c] = c]
    /\ \/ info = c /\ To(c, "unlink") /\ Overlaps(c)
       \/ info # c /\ To(c, "lost") /\ UNCHANGED overlap
    /\ UNCHANGED <<dir, info, tries, dead>>

\* A process dies.
Die(p) ==
    /\ p \notin dead
    /\ dead' = dead \cup {p}
    /\ UNCHANGED <<dir, info, stage, seen, tries, overlap>>

LockNext ==
    \/ \E c \in Contender : Call(c)
    \/ \E c \in Contender : Make(c)
    \/ \E c \in Contender : GiveUp(c)
    \/ \E c \in Contender : WriteInfo(c)
    \/ \E c \in Contender : WriteFails(c)
    \/ \E c \in Contender : Look(c)
    \/ \E c \in Contender : Recheck(c)
    \/ \E c \in Contender : RecheckBare(c)
    \/ \E c \in Contender : Unlink(c)
    \/ \E c \in Contender : Rmdir(c)
    \/ \E c \in Contender : RmFails(c)
    \/ \E c \in Contender : Release(c)
    \/ \E p \in Process : Die(p)

FileLockSpec == LockInit /\ [][LockNext]_lockVars

-----------------------------------------------------------------------------
(* Properties.                                                               *)

\* The values of the variables.
LockTypeOK ==
    /\ dir \in Contender \cup {None} /\ info \in Contender \cup {None}
    /\ stage \in [Contender -> {"idle", "make", "write", "look", "recheck", "recheckBare",
                             "unlink", "rmdir", "in", "done", "failed", "lost"}]
    /\ seen \in [Contender -> Contender \cup {None}]
    /\ tries \in [Contender -> 0..Retries]
    /\ dead \in SUBSET Process /\ overlap \in BOOLEAN

Holders == {c \in Contender : At(c, "in")}

\* At most one live call is in the critical section, whichever processes die, unless two
\* calls were removing the lock directory at the same time ("a live owner is never
\* displaced"; the comment of removeFileLockDirForGc admits the window).
MutualExclusion == ~overlap => \A c, d \in Holders : c = d

\* A live owner finds its own lock when it releases it, with the same exception: no
\* removal of a stale lock ever reaches a lock taken after it was looked at.
ReleaseFindsLock == ~overlap => \A c \in Contender : stage[c] # "lost"

\* A call that will not touch the directory it made any more.
Gone(c) == ~Alive(c) \/ stage[c] = "failed"

Reaping(c) == At(c, "recheck") \/ At(c, "recheckBare") \/ (Removing(c) /\ seen[c] # c)

\* The inductive form.  While no two removals overlapped: info is written by the maker of
\* the directory; a call that is writing, in the critical section or removing has the
\* directory it thinks it has; one that is reaping has that of a call that is gone; and
\* the directory of a live call is in that call's hands.
Owned ==
    /\ info # None => dir = info
    /\ \A c \in Contender :
        /\ At(c, "write") => dir = c /\ info = None
        /\ At(c, "in") => dir = c /\ info = c
        /\ Removing(c) => dir = seen[c]
        /\ At(c, "unlink") /\ seen[c] = c => info = c
        /\ At(c, "rmdir") => info = None
        /\ Reaping(c) => seen[c] \in Contender \ {c} /\ Gone(seen[c])
        /\ dir = c => Gone(c) \/ At(c, "write") \/ At(c, "in") \/ (Removing(c) /\ seen[c] = c)
        /\ stage[c] # "lost"
    /\ \A c, d \in Contender : Removing(c) /\ Removing(d) => c = d

\* Every removal of the lock directory, by its owner or by a call that found it stale, takes
\* away the directory it was meant for (Owned), until two removals overlap.
LockInv == LockTypeOK /\ (~overlap => Owned)

Promise == INSTANCE ExclusiveLock WITH holders <- Holders, broken <- overlap

\* The directory protocol implements the lock its callers are promised.
LockSpec == Promise!Spec
=============================================================================
