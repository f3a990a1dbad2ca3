---------------------------- MODULE SessionOwner ----------------------------
(* Runtime owners of one harness session and the lease they contend for:     *)
(* packages/coding-agent/src/harness-control-plane/{session-lease,owner,     *)
(* control-endpoint}.ts.  An owner acquires the lease, listens on the        *)
(* session's control socket and renews the lease from a timer; stopping, it  *)
(* closes its transport and its socket, stops renewing and releases the      *)
(* lease.  A lease changes hands only when its owner is dead; garbage        *)
(* collection reaps the lease of a dead owner.                               *)
(*                                                                           *)
(* Each change of the lease file is a read and a write inside withFileLock,  *)
(* here the lock of ExclusiveLock, which FileLock implements; a process may  *)
(* die in between.  An owner is a process of its own that starts once, and a *)
(* pid is not reused; so ownerId determines pid and leaseEpoch.  A stage of  *)
(* stopping that fails changes nothing and is tried again after a pause      *)
(* (#stopUntilVerified): it is a stage that has not happened yet.  The event *)
(* log is not modelled.                                                      *)
EXTENDS Integers, FiniteSets

CONSTANTS Owner,       \* runtime owners
          NoOwner,     \* no owner
          MaxRenewals  \* renewals an owner has in flight

ASSUME OwnerAssumption == NoOwner \notin Owner
ASSUME RenewalsAssumption == MaxRenewals \in Nat \ {0}

VARIABLES lease,    \* the lease file: its owner, and whether it has expired
          socket,   \* the owner that listens at the control socket's path
          pc,       \* where an owner is
          held,     \* #leaseHeld
          renewals, \* #heartbeatInFlight
          reaper,   \* the dead owner garbage collection has found
          holders,  \* tasks in the lock of the lease file
          read      \* the lease a task in the lock has read

vars == <<lease, socket, pc, held, renewals, reaper, holders, read>>

Task == ({"own", "renew"} \X Owner) \cup {<<"gc", NoOwner>>}
Own(o) == <<"own", o>>
Renew(o) == <<"renew", o>>
Gc == <<"gc", NoOwner>>

Lease == [owner : Owner \cup {NoOwner}, expired : BOOLEAN]
NoLease == [owner |-> NoOwner, expired |-> FALSE]

Lock == INSTANCE ExclusiveLock WITH Contender <- Task, broken <- FALSE

Dead(o) == pc[o] = "dead"
Go(o, p) == pc' = [pc EXCEPT ![o] = p]

Init ==
    /\ lease = NoLease /\ socket = NoOwner /\ reaper = NoOwner /\ holders = {}
    /\ pc = [o \in Owner |-> "new"]
    /\ held = [o \in Owner |-> FALSE]
    /\ renewals = [o \in Owner |-> 0]
    /\ read = [t \in Task |-> NoLease]

-----------------------------------------------------------------------------
(* The lock.                                                                 *)

Wants(t) ==
    \/ \E o \in Owner : t = Own(o) /\ pc[o] \in {"acquire", "release"} /\ held[o] = (pc[o] = "release")
    \/ \E o \in Owner : t = Renew(o) /\ renewals[o] > 0
    \/ t = Gc /\ reaper # NoOwner

\* A change of the lease that does not lock the file.
EnterUnlocked(t) ==
    /\ t \notin holders /\ Wants(t)
    /\ holders' = holders \cup {t}
    /\ read' = [read EXCEPT ![t] = lease]
    /\ UNCHANGED <<lease, socket, pc, held, renewals, reaper>>

\* withLeaseMutationLock, readLease.
Enter(t) ==
    /\ Wants(t)
    /\ Lock!Acquire(t)
    /\ read' = [read EXCEPT ![t] = lease]
    /\ UNCHANGED <<lease, socket, pc, held, renewals, reaper>>

\* A task returns from withLeaseMutationLock.
Exit(t) == Lock!Leave({t}) /\ read' = [read EXCEPT ![t] = NoLease]

-----------------------------------------------------------------------------
(* Starting.                                                                 *)

\* start
Start(o) ==
    /\ pc[o] = "new" /\ Go(o, "acquire")
    /\ UNCHANGED <<lease, socket, held, renewals, reaper, holders, read>>

\* The lease l may be taken: as session-lease.ts's header has it ("owner dead OR expired").
FreeIfExpired(l) == l.owner \notin {o \in Owner : ~Dead(o) /\ ~l.expired}

\* classifyLeaseStatus: a lease is free when there is none or its owner is dead.
Free(l) == l.owner \notin {o \in Owner : ~Dead(o)}

\* acquireLease, in the lock.
AcquireLease(o) ==
    /\ Own(o) \in holders /\ pc[o] = "acquire"
    /\ Exit(Own(o))
    /\ \/ /\ Free(read[Own(o)])
          /\ lease' = [owner |-> o, expired |-> FALSE]
          /\ held' = [held EXCEPT ![o] = TRUE] /\ Go(o, "listen")
       \/ /\ ~Free(read[Own(o)])
          /\ Go(o, "transport") /\ UNCHANGED <<lease, held>>
    /\ UNCHANGED <<socket, renewals, reaper>>

\* lease_lock_timeout: start fails and stops the owner.
AcquireTimesOut(o) ==
    /\ Own(o) \notin holders /\ pc[o] = "acquire" /\ Go(o, "transport")
    /\ UNCHANGED <<lease, socket, held, renewals, reaper, holders, read>>

\* ControlServer.listen: removes what is at the path and listens.
Listen(o) ==
    /\ pc[o] = "listen" /\ Go(o, "live")
    /\ socket' = o
    /\ UNCHANGED <<lease, held, renewals, reaper, holders, read>>

\* listen fails, before or after it has removed what was at the path.
ListenFails(o) ==
    /\ pc[o] = "listen" /\ Go(o, "transport")
    /\ socket' \in {socket, NoOwner}
    /\ UNCHANGED <<lease, held, renewals, reaper, holders, read>>

-----------------------------------------------------------------------------
(* Renewing.                                                                 *)

\* The interval's callback starts a renewal, until #fenceHeartbeat.
Tick(o) ==
    /\ held[o] /\ pc[o] \in {"listen", "live", "transport", "server", "fence"}
    /\ renewals[o] < MaxRenewals
    /\ renewals' = [renewals EXCEPT ![o] = @ + 1]
    /\ UNCHANGED <<lease, socket, pc, held, reaper, holders, read>>

\* heartbeat, in the lock; an owner that finds another in the lease stops.
Heartbeat(o) ==
    /\ Renew(o) \in holders
    /\ Exit(Renew(o))
    /\ lease' = IF read[Renew(o)].owner = o THEN [owner |-> o, expired |-> FALSE] ELSE lease
    /\ Go(o, IF read[Renew(o)].owner \notin {o, NoOwner} /\ pc[o] = "live" THEN "transport"
                                                                        ELSE pc[o])
    /\ renewals' = [renewals EXCEPT ![o] = @ - 1]
    /\ UNCHANGED <<socket, held, reaper>>

\* A renewal does not get the lock.
RenewalTimesOut(o) ==
    /\ renewals[o] > IF Renew(o) \in holders THEN 1 ELSE 0
    /\ renewals' = [renewals EXCEPT ![o] = @ - 1]
    /\ UNCHANGED <<lease, socket, pc, held, reaper, holders, read>>

\* The ttl passes.
Expire ==
    /\ lease.owner # NoOwner /\ ~lease.expired
    /\ lease' = [lease EXCEPT !.expired = TRUE]
    /\ UNCHANGED <<socket, pc, held, renewals, reaper, holders, read>>

-----------------------------------------------------------------------------
(* Stopping.                                                                 *)

\* stop: #retire, or the process is told to.
Stop(o) ==
    /\ pc[o] = "live" /\ Go(o, "transport")
    /\ UNCHANGED <<lease, socket, held, renewals, reaper, holders, read>>

\* #closeTransport
CloseTransport(o) ==
    /\ pc[o] = "transport" /\ Go(o, "server")
    /\ UNCHANGED <<lease, socket, held, renewals, reaper, holders, read>>

\* ControlServer.close: stops listening, if it was, and removes what is at the path.
CloseServer(o) ==
    /\ pc[o] = "server" /\ Go(o, "fence")
    /\ socket' = NoOwner
    /\ UNCHANGED <<lease, held, renewals, reaper, holders, read>>

\* #fenceHeartbeat without the fence: the timer keeps running while renewals are awaited.
FenceOpen(o) ==
    /\ pc[o] = "fence" /\ renewals[o] = 0 /\ Go(o, "release")
    /\ UNCHANGED <<lease, socket, held, renewals, reaper, holders, read>>

\* #fenceHeartbeat: no more renewals start.
Fence(o) ==
    /\ pc[o] = "fence" /\ Go(o, "drain")
    /\ UNCHANGED <<lease, socket, held, renewals, reaper, holders, read>>

\* #fenceHeartbeat that awaits the latest renewal only.
DrainedLatest(o) ==
    /\ pc[o] = "drain" /\ renewals[o] <= 1 /\ Go(o, "release")
    /\ UNCHANGED <<lease, socket, held, renewals, reaper, holders, read>>

\* #fenceHeartbeat: those that had have settled.
Drained(o) ==
    /\ pc[o] = "drain" /\ renewals[o] = 0 /\ Go(o, "release")
    /\ UNCHANGED <<lease, socket, held, renewals, reaper, holders, read>>

\* An owner that never had the lease is done.
NothingHeld(o) ==
    /\ pc[o] = "release" /\ ~held[o] /\ Go(o, "done")
    /\ UNCHANGED <<lease, socket, held, renewals, reaper, holders, read>>

\* releaseLease, in the lock: it removes the owner's own lease and leaves a successor's.
ReleaseLease(o) ==
    /\ Own(o) \in holders /\ pc[o] = "release"
    /\ Exit(Own(o))
    /\ lease' = IF read[Own(o)].owner = o THEN NoLease ELSE lease
    /\ held' = [held EXCEPT ![o] = FALSE] /\ Go(o, "done")
    /\ UNCHANGED <<socket, renewals, reaper>>

-----------------------------------------------------------------------------
(* Death and garbage collection.                                             *)

\* The process dies, in the lock or not.
Crash(o) ==
    /\ pc[o] \notin {"new", "done", "dead"} /\ Go(o, "dead")
    /\ held' = [held EXCEPT ![o] = FALSE]
    /\ renewals' = [renewals EXCEPT ![o] = 0]
    /\ holders' = holders \ {Own(o), Renew(o)}
    /\ read' = [read EXCEPT ![Own(o)] = NoLease, ![Renew(o)] = NoLease]
    /\ UNCHANGED <<lease, socket, reaper>>

\* Garbage collection finds a lease whose owner is dead.
ReapLook ==
    /\ reaper = NoOwner /\ lease.owner # NoOwner /\ Dead(lease.owner)
    /\ reaper' = lease.owner
    /\ UNCHANGED <<lease, socket, pc, held, renewals, holders, read>>

\* reapDeadOwnerArtifacts, in the lock: the same lease still, its owner dead.
Reap ==
    /\ Gc \in holders
    /\ Exit(Gc)
    /\ IF read[Gc].owner = reaper /\ Dead(reaper) THEN lease' = NoLease /\ socket' = NoOwner
                                                  ELSE UNCHANGED <<lease, socket>>
    /\ reaper' = NoOwner
    /\ UNCHANGED <<pc, held, renewals>>

Next ==
    \/ \E t \in Task : Enter(t)
    \/ \E o \in Owner : Start(o)
    \/ \E o \in Owner : AcquireLease(o)
    \/ \E o \in Owner : AcquireTimesOut(o)
    \/ \E o \in Owner : Listen(o)
    \/ \E o \in Owner : ListenFails(o)
    \/ \E o \in Owner : Tick(o)
    \/ \E o \in Owner : Heartbeat(o)
    \/ \E o \in Owner : RenewalTimesOut(o)
    \/ Expire
    \/ \E o \in Owner : Stop(o)
    \/ \E o \in Owner : CloseTransport(o)
    \/ \E o \in Owner : CloseServer(o)
    \/ \E o \in Owner : Fence(o)
    \/ \E o \in Owner : Drained(o)
    \/ \E o \in Owner : NothingHeld(o)
    \/ \E o \in Owner : ReleaseLease(o)
    \/ \E o \in Owner : Crash(o)
    \/ ReapLook
    \/ Reap

Spec == Init /\ [][Next]_vars

\* Every stage of stopping is taken in the end: closes and releases that fail are tried
\* without limit (cleanupRetryLimit is infinite) and succeed some time; whoever is in the
\* lock leaves it; a renewal gives up after its retries; an owner that polls the lock
\* finds it free again and again, and gets it some time.
Fairness ==
    /\ WF_vars(Reap)
    /\ \A o \in Owner :
        /\ WF_vars(CloseTransport(o)) /\ WF_vars(CloseServer(o)) /\ WF_vars(Fence(o))
        /\ WF_vars(Drained(o)) /\ WF_vars(NothingHeld(o)) /\ WF_vars(ReleaseLease(o))
        /\ WF_vars(AcquireLease(o)) /\ WF_vars(Heartbeat(o)) /\ WF_vars(RenewalTimesOut(o))
        /\ SF_vars(Enter(Own(o)))

LiveSpec == Spec /\ Fairness

-----------------------------------------------------------------------------
(* Properties.                                                               *)

\* The values of the variables.
TypeOK ==
    /\ lease \in Lease /\ socket \in Owner \cup {NoOwner}
    /\ pc \in [Owner -> {"new", "acquire", "listen", "live", "transport", "server", "fence",
                         "drain", "release", "done", "dead"}]
    /\ held \in [Owner -> BOOLEAN]
    /\ renewals \in [Owner -> 0..MaxRenewals]
    /\ reaper \in Owner \cup {NoOwner}
    /\ holders \in SUBSET Task /\ read \in [Task -> Lease]

\* While a live owner that got the lease has not released it, the lease names it: neither a
\* start of another owner, nor garbage collection, nor a lapse of the ttl takes it away
\* ("Do not surrender the lease while it is unverified").
LeaseProtects == \A o \in Owner : held[o] => lease.owner = o

\* The live owner whose socket is at the session's path is the one in the lease: commands
\* are never routed to an owner whose lease is gone.
SocketIsHolders == \A o \in Owner : socket = o /\ ~Dead(o) => lease.owner = o

\* No renewal of an owner is under way when it releases its lease ("an in-flight or
\* scheduled renewal would otherwise contend the lease mutation lock with releaseLease").
ReleaseUncontended == \A o \in Owner : pc[o] = "release" => renewals[o] = 0

\* An owner that has stopped left neither lease nor socket behind.
StoppedLeavesNothing == \A o \in Owner : pc[o] = "done" => lease.owner # o /\ socket # o

\* A stop that has begun ends with the lease free of its owner, unless the process dies.
StopReleases == \A o \in Owner : pc[o] = "transport" ~> pc[o] \in {"done", "dead"}

\* "Owner process alive ... => endpoint reachable => routable" (resolveOwner): the socket of
\* an owner that serves is at the session's path.
OwnerReachable == \A o \in Owner : pc[o] = "live" => socket = o

Stages == {"listen", "live", "transport", "server", "fence", "drain", "release"}

\* A task in the lock is alone and has read the lease as it is, but for its expiry.
Locked ==
    /\ \A t, u \in holders : t = u
    /\ \A t \in holders : read[t].owner = lease.owner
    /\ Gc \in holders => reaper # NoOwner

\* An owner holds the lease from acquireLease to releaseLease; the lease, the socket and a
\* renewal are those of an owner that does, or that is dead.
Owns(o) ==
    /\ held[o] => lease.owner = o /\ pc[o] \in Stages
    /\ pc[o] \in {"listen", "live"} => held[o]
    /\ lease.owner = o => held[o] \/ Dead(o)
    /\ socket = o => (held[o] /\ pc[o] \in {"live", "transport", "server"}) \/ Dead(o)
    /\ renewals[o] > 0 => held[o] /\ pc[o] # "release"
    /\ reaper = o => Dead(o)
    /\ Own(o) \in holders => pc[o] = "acquire" \/ (pc[o] = "release" /\ held[o])
    /\ Renew(o) \in holders => renewals[o] > 0

\* The inductive form: a change of the lease file is made by one task that has read it as
\* it is; an owner has the lease from acquireLease to releaseLease, starts no renewal that
\* outlives #fenceHeartbeat, and once stopped has neither lease nor socket.
IInv == TypeOK /\ Locked /\ \A o \in Owner : Owns(o)
=============================================================================
