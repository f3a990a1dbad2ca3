------------------------ MODULE SubagentQueueProofs ------------------------
(* The resume queue and the live handles of SubagentControl: the queue holds  *)
(* exactly the queued records, and a handle reaches the run its record names. *)
EXTENDS SubagentShutdownProofs

\* QueueMatchesRecords of the records rc and the queue q a handler has reached.
QueueInv(rc, q) ==
    /\ \A s \in Subagent : rc[s] = "queued" <=> q[s] # 0
    /\ \A s, t \in Subagent : q[s] = q[t] /\ q[s] # 0 => s = t

\* Until the proof begins, the records a lease captured cover the owner's live ones.
RecordsCaptured(o) ==
    lease[o].phase = "active" => \A s \in Owned(o) : rec[s] \in Live => s \in lease[o].records

\* A live handle belongs to a live run of its subagent.
HandleInv == \A s \in Subagent : handle[s] # NoJob => handle[s] \in alive /\ who[handle[s]] = s

\* The inductive invariant of the queue: a shutdown cancels the paused job behind a
\* queued record only together with its queue entry.
QInv == ShutdownInv /\ QueueInv(rec, seq) /\ \A o \in Owner : RecordsCaptured(o)

-----------------------------------------------------------------------------
(* The queue.                                                                *)

\* A started run leaves the queue and the "queued" status together.
LEMMA StartKeepsQueue ==
    ASSUME NEW T, NEW st, NEW al, NEW ls, NEW rc, NEW q,
           StartRuns(T, st, al, ls, rc, q), QueueInv(rc, q)
    PROVE  QueueInv(rec', seq')
<1>1. /\ rec' = [s \in Subagent |-> IF s \in T THEN "running" ELSE rc[s]]
      /\ seq' = [s \in Subagent |-> IF s \in T THEN 0 ELSE q[s]]
  BY DEF StartRuns
<1> QED
  BY <1>1 DEF QueueInv

\* Records that are not queued may change among the other statuses.
LEMMA MarkedKeepsQueue ==
    ASSUME QueueInv(rec, seq), NEW rc,
           \A s \in Subagent : rc[s] = rec[s] \/ (rec[s] # "queued" /\ rc[s] # "queued")
    PROVE  QueueInv(rc, seq)
  BY DEF QueueInv

\* A batch of cancellations that takes along the entry of every queued record whose
\* job it stops.
LEMMA BatchKeepsQueue ==
    ASSUME QueueInv(rec, seq), NEW J, NEW S, CancelBatch(J, S),
           \A s \in Subagent : cur[s] \in J /\ rec[s] = "queued" => s \in S
    PROVE  QueueInv(rec', seq')
<1> DEFINE stopped == {j \in J \cap listed : status[j] = "paused"}
           aborted == {j \in J \cap listed : status[j] = "running"}
           st == [j \in Job |-> IF j \in stopped \cup aborted THEN "cancelled" ELSE status[j]]
           rc == [s \in Subagent |->
                    IF cur[s] \in stopped \/ (s \in S /\ rec[s] \in {"paused", "queued"})
                    THEN "cancelled" ELSE rec[s]]
           q == [s \in Subagent |-> IF s \in S THEN 0 ELSE seq[s]]
<1>1. PICK free : StartRuns(Startable(rc, q, free), st, alive, Unlisted(stopped), rc, q)
  BY Zenon DEF CancelBatch
<1>2. \A s \in Subagent : rc[s] = "queued" <=> q[s] # 0
  <2> SUFFICES ASSUME NEW s \in Subagent PROVE rc[s] = "queued" <=> q[s] # 0
    OBVIOUS
  <2>1. CASE s \in S
    BY <2>1 DEF QueueInv
  <2>2. CASE s \notin S
    BY <2>2 DEF QueueInv
  <2> QED BY <2>1, <2>2
<1>3. \A s, t \in Subagent : q[s] = q[t] /\ q[s] # 0 => s = t
  BY DEF QueueInv
<1>4. QueueInv(rc, q)
  BY <1>2, <1>3 DEF QueueInv
<1> HIDE DEF rc, q, st
<1> QED BY <1>1, <1>4, StartKeepsQueue

\* Every step keeps the queue and the records together.
LEMMA NextQueueInv ==
    ASSUME QInv, [Next]_vars
    PROVE  QueueInv(rec', seq')
<1> USE ScopeAssumption
<1> DEFINE Goal == QueueInv(rec', seq')
<1>0. /\ IInv /\ QueueInv(rec, seq) /\ rec \in [Subagent -> RecStatus]
      /\ seq \in [Subagent -> Nat] /\ \A s \in Subagent : cur[s] \in Job => who[cur[s]] = s
  BY DEF QInv, ShutdownInv, IInv, CoreInv, Core, CoreTypes, RecordInv, RestTypes, NoJob, Job
<1>q. ASSUME rec' = rec, seq' = seq PROVE Goal
  BY <1>q, <1>0
<1>1. ASSUME NEW s \in Subagent, Launch(s) PROVE Goal
  BY <1>1, <1>0, StartKeepsQueue DEF Launch
<1>2. ASSUME NEW s \in Subagent, resumeSubagent(s) PROVE Goal
  <2>1. CASE Cardinality(Running(status, listed)) >= MaxRunning
    <3>1. PICK n \in 1..MaxSeq : IsNextSeq(n) /\ seq' = [seq EXCEPT ![s] = n]
      BY <1>2, <2>1 DEF resumeSubagent
    <3>2. rec' = [rec EXCEPT ![s] = "queued"]
      BY <1>2, <2>1 DEF resumeSubagent
    <3>3. n # 0 /\ \A t \in Subagent : seq[t] # n
      BY <3>1, <1>0 DEF IsNextSeq
    <3> QED BY <3>1, <3>2, <3>3, <1>0 DEF QueueInv
  <2>2. CASE ~(Cardinality(Running(status, listed)) >= MaxRunning)
    BY <1>2, <2>2, <1>0, StartKeepsQueue DEF resumeSubagent
  <2> QED BY <2>1, <2>2
<1>3. ASSUME NEW s \in Subagent, cancelSubagent(s) PROVE Goal
  <2>1. CASE rec[s] = "running" /\ cancel(cur[s])
    BY <2>1, <1>q DEF cancel, recVars
  <2>2. CASE CancelPaused(s)
    <3>1. QueueInv([rec EXCEPT ![s] = "cancelled"], seq)
      BY <2>2, <1>0, MarkedKeepsQueue, Zenon DEF CancelPaused
    <3> QED BY <2>2, <3>1, StartKeepsQueue DEF CancelPaused, Drain
  <2>3. CASE CancelQueued(s)
    BY <2>3, <1>0 DEF CancelQueued, QueueInv
  <2> QED BY <1>3, <2>1, <2>2, <2>3 DEF cancelSubagent
<1>4. ASSUME NEW j \in Job, CancelPausedJob(j) PROVE Goal
  <2>1. \A s \in Subagent : cur[s] = j => rec[s] # "queued"
    BY <1>4, <1>0 DEF CancelPausedJob, Terminal
  <2>2. QueueInv(Marked(j, "cancelled"), seq)
    BY <2>1, <1>0, MarkedKeepsQueue DEF Marked
  <2> QED BY <1>4, <2>2, StartKeepsQueue DEF CancelPausedJob, Drain
<1>5. ASSUME NEW j \in Job, NEW out \in Ending, Settle(j, out) PROVE Goal
  <2>1. \A s \in Subagent : cur[s] = j => rec[s] # "queued"
    BY <1>5, <1>0 DEF Settle, IInv, CoreInv, Core, AliveInv
  <2>2. Outcome(j, out) # "queued"
    BY DEF Outcome
  <2>3. QueueInv(Marked(j, Outcome(j, out)), seq)
    BY <2>1, <2>2, <1>0, MarkedKeepsQueue DEF Marked
  <2> QED BY <1>5, <2>3, StartKeepsQueue DEF Settle, Drain
<1>6. ASSUME NEW o \in Owner, Purge(o) PROVE Goal
  BY <1>6, <1>0 DEF Purge, QueueInv
<1>7. ASSUME NEW o \in Closing, CancelOwnAsyncJobs(o) \/ Commit(o) PROVE Goal
  BY <1>6, <1>7 DEF CancelOwnAsyncJobs, Commit
<1>8. ASSUME NEW o \in Closing, cancelAndProveOwnerSubagents(o) PROVE Goal
  <2>1. LeaseInv(o) /\ RecordsCaptured(o) /\ lease[o].phase = "active"
        /\ lease[o].backing \subseteq Job
    BY <1>8, <1>0, LeaseTypes DEF QInv, ShutdownInv, cancelAndProveOwnerSubagents, LeaseType
  <2>2. \A s \in Subagent : cur[s] \in lease[o].backing => s \in Owned(o)
    BY <2>1, <1>0 DEF LeaseInv
  <2>3. \A s \in Subagent : cur[s] \in lease[o].backing /\ rec[s] = "queued"
                              => s \in lease[o].records
    BY <2>1, <2>2 DEF RecordsCaptured, Live
  <2> QED BY <1>8, <2>3, <1>0, BatchKeepsQueue DEF cancelAndProveOwnerSubagents
<1>9. ASSUME NEW o \in Closing, cancelAndSettleOwnerJobs(o) PROVE Goal
  <2> DEFINE mine == {j \in listed : JobOwner(j) = o}
  <2>1. LeaseInv(o) /\ lease[o].phase = "confirmed" /\ listed \subseteq Job
    BY <1>9, <1>0 DEF QInv, ShutdownInv, cancelAndSettleOwnerJobs, IInv, CoreInv, Core, CoreTypes
  <2>2. \A s \in Subagent : cur[s] \in mine => s \in Owned(o)
    BY <2>1, <1>0 DEF JobOwner, Owned
  <2>3. \A s \in Subagent : cur[s] \in mine => rec[s] # "queued"
    BY <2>1, <2>2 DEF LeaseInv, Live
  <2> QED BY <1>9, <2>3, <1>0, BatchKeepsQueue DEF cancelAndSettleOwnerJobs
<1>10. ASSUME NEW j \in Job, AttachHandle(j) \/ cancel(j) \/ Evict(j) PROVE Goal
  BY <1>10, <1>q DEF AttachHandle, cancel, Evict, recVars
<1>11. ASSUME NEW s \in Subagent, pauseSubagent(s) PROVE Goal
  BY <1>11, <1>q DEF pauseSubagent
<1>12. ASSUME NEW o \in Owner,
              RegisterBash(o) \/ beginOwnerSubagentShutdown(o) \/ Proof(o) \/ Release(o)
       PROVE  Goal
  BY <1>12, <1>q DEF RegisterBash, beginOwnerSubagentShutdown, Proof, Release, recVars
<1>13. CASE UNCHANGED vars
  BY <1>13, <1>q DEF vars
<1> QED
  BY <1>1, <1>2, <1>3, <1>4, <1>5, <1>7, <1>8, <1>9, <1>10, <1>11, <1>12, <1>13
     DEF Next, Settlement

\* A lease captures the live records when it is taken, and none is added behind the
\* fence.
LEMMA NextRecordsCaptured ==
    ASSUME QInv, [Next]_vars, NEW o \in Owner
    PROVE  RecordsCaptured(o)'
<1>0. IInv /\ RecordsCaptured(o) /\ lease \in [Owner -> LeaseType] /\ lease[o] \in LeaseType
  BY LeaseTypes DEF QInv, ShutdownInv, IInv, RestTypes
<1>1. CASE beginOwnerSubagentShutdown(o)
  <2>1. lease'[o].records = LiveRecords(o) /\ rec' = rec
    BY <1>0, <1>1 DEF beginOwnerSubagentShutdown, recVars
  <2> QED BY <2>1 DEF RecordsCaptured, LiveRecords, Live, Owned
<1>2. CASE lease'[o] = lease[o]
  <2> SUFFICES ASSUME lease[o].phase = "active" PROVE RecordsCaptured(o)'
    BY <1>2 DEF RecordsCaptured
  <2>1. Frame(o, status', who', alive', listed', rec')
    BY <1>0, FenceHolds DEF Fenced
  <2> QED BY <2>1, <1>0, <1>2 DEF Frame, RecordsCaptured, Owned
<1>3. CASE \/ cancelAndProveOwnerSubagents(o) \/ Proof(o) \/ cancelAndSettleOwnerJobs(o)
           \/ Commit(o) \/ Release(o)
  <2>1. lease'[o].phase # "active"
    BY <1>0, <1>3 DEF cancelAndProveOwnerSubagents, Proof, cancelAndSettleOwnerJobs, Commit,
                      Release, NoLease, LeaseType
  <2> QED BY <2>1 DEF RecordsCaptured
<1> QED
  BY <1>0, <1>1, <1>2, <1>3, LeaseChanges

LEMMA InitQInv == Init => QInv
<1>1. Init => ShutdownInv
  BY InitIInv DEF Init, ShutdownInv, LeaseInv, NoLease
<1> QED BY <1>1 DEF Init, QInv, QueueInv, RecordsCaptured, NoLease

LEMMA NextQInv == QInv /\ [Next]_vars => QInv'
<1> SUFFICES ASSUME QInv, [Next]_vars PROVE QInv'
  OBVIOUS
<1>1. ShutdownInv'
  BY NextIInv, NextLeaseInv DEF QInv, ShutdownInv
<1> QED BY <1>1, NextQueueInv, NextRecordsCaptured DEF QInv

\* The resume queue holds exactly the queued records, each with a place of its own,
\* through resumes, cancellations, drains, purges and shutdowns.
THEOREM QueueHoldsQueued == Spec => []QueueMatchesRecords
<1>1. QInv => QueueMatchesRecords
  BY DEF QInv, QueueInv, QueueMatchesRecords
<1> QED
  BY <1>1, InitQInv, NextQInv, PTL DEF Spec

-----------------------------------------------------------------------------
(* The live handles.                                                         *)

\* Starting runs gives new jobs to subagents and takes none from a live run.
LEMMA StartKeepsRuns ==
    ASSUME IInv, NEW T, NEW st, NEW al \in SUBSET alive, NEW ls, NEW rc, NEW q,
           StartRuns(T, st, al, ls, rc, q)
    PROVE  \A j \in al : j \in alive' /\ who'[j] = who[j]
<1>1. PICK num \in Numberings(T) :
        /\ who' = [j \in Job |-> IF j \in Range(num)
                                 THEN CHOOSE s \in T : num[s] = j ELSE who[j]]
        /\ alive' = al \cup Range(num)
  BY Zenon DEF StartRuns
<1>2. Range(num) \subseteq Fresh
  BY DEF Numberings, Range
<1>3. \A j \in alive : j \in Job /\ j \notin Fresh
  BY DEF IInv, CoreInv, Core, CoreTypes, FreshInv, Fresh
<1> QED BY <1>1, <1>2, <1>3

\* No step takes the live run from under a handle that it leaves installed.
LEMMA NextHandleInv ==
    ASSUME IInv, HandleInv, [Next]_vars
    PROVE  HandleInv'
<1> USE ScopeAssumption
<1>0. handle \in [Subagent -> Job \cup {NoJob}] /\ alive \subseteq Job /\ alive \in SUBSET alive
      /\ who \in [Job -> Subagent \cup Owner \cup {Nobody}]
  BY DEF IInv, RestTypes, CoreInv, Core, CoreTypes
<1>q. ASSUME \A j \in alive : j \in alive' /\ who'[j] = who[j],
             \A s \in Subagent : handle'[s] = handle[s] \/ handle'[s] = NoJob
      PROVE  HandleInv'
  BY <1>q DEF HandleInv
<1>1. ASSUME NEW s \in Subagent, Launch(s) \/ resumeSubagent(s) PROVE HandleInv'
  <2>1. handle' = handle
    BY <1>1 DEF Launch, resumeSubagent
  <2>2. \A j \in alive : j \in alive' /\ who'[j] = who[j]
    <3>1. CASE StartRuns({s}, status, alive, listed, rec, seq)
      BY <3>1, <1>0, StartKeepsRuns
    <3>2. CASE ~StartRuns({s}, status, alive, listed, rec, seq)
      BY <1>1, <3>2 DEF Launch, resumeSubagent, jobVars
    <3> QED BY <3>1, <3>2
  <2> QED BY <2>1, <2>2, <1>q
<1>2. ASSUME NEW s \in Subagent, cancelSubagent(s) PROVE HandleInv'
  <2>1. CASE rec[s] = "running" /\ cancel(cur[s])
    BY <2>1, <1>q DEF cancel, recVars
  <2>2. CASE CancelPaused(s)
    <3>1. \A j \in alive : j \in alive' /\ who'[j] = who[j]
      BY <2>2, <1>0, StartKeepsRuns DEF CancelPaused, Drain
    <3>2. handle' = [handle EXCEPT ![s] = NoJob]
      BY <2>2 DEF CancelPaused
    <3> QED BY <3>1, <3>2, <1>0, <1>q
  <2>3. CASE CancelQueued(s)
    BY <2>3, <1>q DEF CancelQueued, jobVars
  <2> QED BY <1>2, <2>1, <2>2, <2>3 DEF cancelSubagent
<1>3. ASSUME NEW j \in Job, CancelPausedJob(j) PROVE HandleInv'
  <2>1. \A k \in alive : k \in alive' /\ who'[k] = who[k]
    BY <1>3, <1>0, StartKeepsRuns DEF CancelPausedJob, Drain
  <2>2. handle' = [s \in Subagent |-> IF cur[s] = j THEN NoJob ELSE handle[s]]
    BY <1>3 DEF CancelPausedJob
  <2> QED BY <2>1, <2>2, <1>q
<1>4. ASSUME NEW j \in Job, NEW out \in Ending, Settle(j, out) PROVE HandleInv'
  <2>1. alive \ {j} \in SUBSET alive
    OBVIOUS
  <2>2. \A k \in alive \ {j} : k \in alive' /\ who'[k] = who[k]
    BY <1>4, <2>1, StartKeepsRuns DEF Settle, Drain
  <2>3. handle' = [s \in Subagent |-> IF who[j] = s THEN NoJob ELSE handle[s]]
    BY <1>4 DEF Settle, Dropped
  <2> QED BY <2>2, <2>3 DEF HandleInv
<1>5. ASSUME NEW J, NEW S, CancelBatch(J, S) PROVE HandleInv'
  <2>1. \A k \in alive : k \in alive' /\ who'[k] = who[k]
    BY <1>5, <1>0, StartKeepsRuns DEF CancelBatch
  <2>2. \A s \in Subagent : handle'[s] = handle[s] \/ handle'[s] = NoJob
    BY <1>5 DEF CancelBatch
  <2> QED BY <2>1, <2>2, <1>q
<1>6. ASSUME NEW o \in Closing, cancelAndProveOwnerSubagents(o) \/ cancelAndSettleOwnerJobs(o)
      PROVE  HandleInv'
  BY <1>5, <1>6 DEF cancelAndProveOwnerSubagents, cancelAndSettleOwnerJobs
<1>7. ASSUME NEW o \in Closing, CancelOwnAsyncJobs(o) \/ Commit(o) PROVE HandleInv'
  <2>1. who' = who /\ alive' = alive /\ Purge(o)
    BY <1>7 DEF CancelOwnAsyncJobs, Commit, jobVars
  <2>2. \A s \in Subagent : handle'[s] = handle[s] \/ handle'[s] = NoJob
    BY <2>1 DEF Purge
  <2> QED BY <2>1, <2>2, <1>q
<1>8. ASSUME NEW j \in Job, AttachHandle(j) PROVE HandleInv'
  <2>1. /\ j \in alive /\ who[j] \in Subagent /\ who' = who /\ alive' = alive
        /\ handle' = [handle EXCEPT ![who[j]] = j]
    BY <1>8 DEF AttachHandle, jobVars
  <2> QED BY <2>1, <1>0 DEF HandleInv
<1>9. ASSUME NEW j \in Job, cancel(j) \/ Evict(j) PROVE HandleInv'
  BY <1>9, <1>q DEF cancel, Evict, recVars
<1>10. ASSUME NEW s \in Subagent, pauseSubagent(s) PROVE HandleInv'
  BY <1>10, <1>q DEF pauseSubagent, jobVars
<1>11. ASSUME NEW o \in Owner, RegisterBash(o) PROVE HandleInv'
  <2>1. PICK j \in Fresh : who' = [who EXCEPT ![j] = o] /\ alive' = alive \cup {j}
    BY <1>11, Zenon DEF RegisterBash
  <2>2. \A k \in alive : k \in Job /\ k # j
    BY <1>0 DEF Fresh, IInv, CoreInv, Core, FreshInv
  <2>3. handle' = handle
    BY <1>11 DEF RegisterBash, recVars
  <2> QED BY <2>1, <2>2, <2>3, <1>0, <1>q
<1>12. ASSUME NEW o \in Closing, beginOwnerSubagentShutdown(o) \/ Proof(o) \/ Release(o)
       PROVE  HandleInv'
  BY <1>12, <1>q DEF beginOwnerSubagentShutdown, Proof, Release, jobVars, recVars
<1>13. CASE UNCHANGED vars
  BY <1>13, <1>q DEF vars
<1> QED
  BY <1>1, <1>2, <1>3, <1>4, <1>6, <1>7, <1>8, <1>9, <1>10, <1>11, <1>12, <1>13
     DEF Next, Settlement

\* pauseSubagent() reaches the run its record names: the handle of a running record
\* belongs to a live run of the subagent, and the subagent has only one.
THEOREM HandleReachesRun == Spec => []HandleIsCurrentRun
<1>1. Init => HandleInv
  BY DEF Init, HandleInv
<1>2. IInv /\ HandleInv /\ [Next]_vars => HandleInv'
  BY NextHandleInv
<1>3. IInv /\ HandleInv => HandleIsCurrentRun
  BY DEF IInv, CoreInv, Core, AliveInv, HandleInv, HandleIsCurrentRun
<1> QED
  BY <1>1, <1>2, <1>3, RecordsAndRuns, PTL DEF Spec
=============================================================================
