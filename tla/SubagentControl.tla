-------------------------- MODULE SubagentControl --------------------------
(* The subagent control plane of packages/coding-agent/src/async/            *)
(* job-manager.ts: background jobs, the canonical record kept per subagent,  *)
(* pause and resume, the queue of resumes waiting for a running slot, job    *)
(* eviction, and the owner shutdown lease under which /new replaces a        *)
(* session (agent-session.ts newSession).                                    *)
(*                                                                           *)
(* Every action is one synchronous block of the event loop.  A job's promise *)
(* outlives a cancel(): the run is told to abort and settles later, so       *)
(* status "cancelled" and membership of alive are independent.               *)
(*                                                                           *)
(* Data left out: labels, result texts, progress, timestamps, the message    *)
(* carried by a resume, historicalJobIds.  Records carry a session file iff  *)
(* they are in Resumable.                                                    *)
EXTENDS Integers, FiniteSets, Functions

CONSTANTS Owner,       \* agent ids that own jobs
          Subagent,    \* subagent ids, each launched once (ids are unique)
          OwnerOf,     \* the agent that launches each subagent
          Resumable,   \* subagents whose record has a sessionFile
          MaxRunning,  \* #maxRunningJobs
          Retain,      \* retentionMs > 0: finished jobs stay listed for a while
          EarlyFailure,\* abort() may reject between taking the lease and the proof
          Closing,     \* bound: owners whose session may be cleared or replaced
          Ending,      \* bound: how a run may end, among completed, failed, paused
          MaxJobs,     \* bound: jobs registered in a behaviour
          MaxSeq       \* bound: resume queue numbers in use at a time

ASSUME SubagentAssumption == IsFiniteSet(Subagent)
ASSUME OwnerAssumption == OwnerOf \in [Subagent -> Owner]
ASSUME DisjointAssumption == Owner \cap Subagent = {} /\ "nobody" \notin Owner \cup Subagent
ASSUME BoundAssumption == MaxJobs \in Nat /\ MaxSeq \in Nat /\ MaxRunning \in Nat \ {0}
ASSUME ScopeAssumption == /\ Closing \subseteq Owner /\ Resumable \subseteq Subagent
                          /\ Ending \subseteq {"completed", "failed", "paused"}
ASSUME FlagAssumption == Retain \in BOOLEAN /\ EarlyFailure \in BOOLEAN

Job == 1..MaxJobs
NoJob == 0
Nobody == "nobody"

VARIABLES status,   \* AsyncJob.status, "none" before register()
          who,      \* metadata.subagent.id, or the owner itself for a bash job
          alive,    \* jobs whose promise has not settled
          listed,   \* keys of #jobs
          timer,    \* keys of #evictionTimers
          rec,      \* SubagentRecord.status, "none" when there is no record
          cur,      \* SubagentRecord.currentJobId
          seq,      \* #resumeQueue: the seq of a subagent's entry, 0 without one
          handle,   \* #liveHandles: the run whose handle is installed
          pausing,  \* runs whose handle got requestPause()
          lease     \* #ownerSubagentShutdownLeases

jobVars == <<status, who, alive, listed, timer>>
recVars == <<rec, cur, seq, handle, pausing>>
vars == <<status, who, alive, listed, timer, rec, cur, seq, handle, pausing, lease>>

JobStatus == {"none", "running", "paused", "completed", "failed", "cancelled"}
RecStatus == JobStatus \cup {"queued"}
Terminal == {"completed", "failed", "cancelled"}
Phase == {"none", "active", "proving", "confirmed", "unconfirmed", "settling"}

NoLease == [phase |-> "none", targets |-> {}, records |-> {}, backing |-> {}, captured |-> {}]

JobOwner(j) == IF who[j] \in Subagent THEN OwnerOf[who[j]] ELSE who[j]
Owned(o) == {s \in Subagent : OwnerOf[s] = o}
\* #isOwnerSubagentShutdownFenced
Fenced(o) == lease[o].phase # "none"
\* getRunningJobs() over a given status table and job list
Running(st, ls) == {j \in ls : st[j] = "running"}

Init ==
    /\ status = [j \in Job |-> "none"]
    /\ who = [j \in Job |-> Nobody]
    /\ alive = {} /\ listed = {} /\ timer = {}
    /\ rec = [s \in Subagent |-> "none"]
    /\ cur = [s \in Subagent |-> NoJob]
    /\ seq = [s \in Subagent |-> 0]
    /\ handle = [s \in Subagent |-> NoJob]
    /\ pausing = {}
    /\ lease = [o \in Owner |-> NoLease]

-----------------------------------------------------------------------------
(* Starting runs: register() and the record update of its caller.            *)

\* Job ids not registered yet; they are handed out in increasing order.
Fresh == {j \in Job : status[j] = "none"}
FirstFresh(S) == \A j \in Fresh, k \in S : j < k => j \in S

\* The job ids the runs of T get when they start in the order of their seq.
Numberings(T) ==
    {f \in [T -> Fresh] : /\ IsInjective(f)
                          /\ FirstFresh(Range(f))
                          /\ \A s, t \in T : seq[s] < seq[t] => f[s] < f[t]}

\* register() once for each subagent of T, after the handler has changed the
\* statuses to st, the promises to al, the list to ls, the records to rc and the
\* queue to q.
StartRuns(T, st, al, ls, rc, q) ==
    \E num \in Numberings(T) :
        LET started == Range(num)
        IN  /\ status' = [j \in Job |-> IF j \in started THEN "running" ELSE st[j]]
            /\ who' = [j \in Job |-> IF j \in started
                                     THEN CHOOSE s \in T : num[s] = j ELSE who[j]]
            /\ alive' = al \cup started
            /\ listed' = ls \cup started
            /\ rec' = [s \in Subagent |-> IF s \in T THEN "running" ELSE rc[s]]
            /\ cur' = [s \in Subagent |-> IF s \in T THEN num[s] ELSE cur[s]]
            /\ seq' = [s \in Subagent |-> IF s \in T THEN 0 ELSE q[s]]

\* The last n subagents of S in the order of their seq.
LastOf(S, n) == {s \in S : Cardinality({t \in S : seq[t] > seq[s]}) < n}

\* The first n subagents of S in the order of their seq.
FirstOf(S, n) == {s \in S : Cardinality({t \in S : seq[t] < seq[s]}) < n}

\* The entries #drainResumeQueue() starts when free slots are open: in seq order,
\* skipping the entries of fenced owners.  It also drops entries whose record is
\* no longer queued; QueueMatchesRecords shows that there are none.
Startable(rc, q, free) ==
    FirstOf({s \in Subagent : q[s] # 0 /\ rc[s] = "queued" /\ ~Fenced(OwnerOf[s])}, free)

\* #drainResumeQueue() at the end of a handler.
Drain(st, al, ls, rc, q) ==
    StartRuns(Startable(rc, q, MaxRunning - Cardinality(Running(st, ls))), st, al, ls, rc, q)

\* #scheduleEviction(): with no retention the job leaves the list at once.
Unlisted(S) == IF Retain THEN listed ELSE listed \ S
Armed(S) == IF Retain THEN timer \cup S ELSE timer

\* The guards of register(): not fenced, below the limit.  A job id stays reserved
\* for every queued resume (bound MaxJobs).
HasRoom == Cardinality(Fresh) > Cardinality({s \in Subagent : seq[s] # 0})
CanRegister(o) ==
    /\ HasRoom
    /\ ~Fenced(o)
    /\ Cardinality(Running(status, listed)) < MaxRunning

\* The task tool registers a job, its descriptor and its record in one block.
Launch(s) ==
    /\ rec[s] = "none" /\ \A j \in Job : who[j] # s
    /\ CanRegister(OwnerOf[s])
    /\ StartRuns({s}, status, alive, listed, rec, seq)
    /\ UNCHANGED <<timer, handle, pausing, lease>>

\* A background bash job, cron run or monitor: no metadata.subagent, no record.
RegisterBash(o) ==
    /\ CanRegister(o)
    /\ \E j \in Fresh :
          /\ FirstFresh({j})
          /\ status' = [status EXCEPT ![j] = "running"]
          /\ who' = [who EXCEPT ![j] = o]
          /\ alive' = alive \cup {j}
          /\ listed' = listed \cup {j}
    /\ UNCHANGED <<timer, recVars, lease>>

-----------------------------------------------------------------------------
(* The run: live handle, pause request, settlement.                          *)

\* runSubprocess installs the live handle once its session exists.
AttachHandle(j) ==
    /\ j \in alive /\ who[j] \in Subagent
    /\ handle[who[j]] # j
    /\ handle' = [handle EXCEPT ![who[j]] = j]
    /\ UNCHANGED <<jobVars, rec, cur, seq, pausing, lease>>

pauseSubagent(s) ==
    /\ rec[s] = "running"
    /\ handle[s] # NoJob /\ handle[s] \notin pausing
    /\ pausing' = pausing \cup {handle[s]}
    /\ UNCHANGED <<jobVars, rec, cur, seq, handle, lease>>

\* The settlement handler without the check for an earlier cancel.
OutcomeLastWins(j, out) == out

\* The status a settling run ends with: a cancel that came first stands.
Outcome(j, out) == IF status[j] = "cancelled" THEN "cancelled" ELSE out

\* The record of a settled run: #markRecordPaused / #markRecordTerminal.
Marked(j, st) == [s \in Subagent |-> IF cur[s] = j THEN st ELSE rec[s]]
Dropped(j) == [s \in Subagent |-> IF who[j] = s THEN NoJob ELSE handle[s]]

\* A settlement that forgets #drainResumeQueue().
SettleWithoutDrain(j, out) ==
    /\ j \in alive
    /\ out = "paused" => j \in pausing
    /\ status' = [status EXCEPT ![j] = Outcome(j, out)]
    /\ alive' = alive \ {j}
    /\ listed' = IF Outcome(j, out) = "paused" THEN listed ELSE Unlisted({j})
    /\ timer' = IF Outcome(j, out) = "paused" THEN timer ELSE Armed({j})
    /\ rec' = Marked(j, Outcome(j, out))
    /\ handle' = Dropped(j) /\ pausing' = pausing \ {j}
    /\ UNCHANGED <<who, cur, seq, lease>>

\* A settlement that leaves the run's live handle installed.
SettleLeaksHandle(j, out) ==
    /\ j \in alive
    /\ out = "paused" => j \in pausing
    /\ LET final == Outcome(j, out)
           ls == IF final = "paused" THEN listed ELSE Unlisted({j})
       IN  /\ timer' = IF final = "paused" THEN timer ELSE Armed({j})
           /\ Drain([status EXCEPT ![j] = final], alive \ {j}, ls, Marked(j, final), seq)
    /\ pausing' = pausing \ {j}
    /\ UNCHANGED <<handle, lease>>

\* The promise of job j settles: the body returned text, threw, or stopped at a
\* requested pause.  runSubprocess removes the live handle in its finally block,
\* the manager marks the record, schedules eviction unless the run paused, and
\* drains the resume queue.
Settle(j, out) ==
    /\ j \in alive
    /\ out = "paused" => j \in pausing
    /\ LET final == Outcome(j, out)
           ls == IF final = "paused" THEN listed ELSE Unlisted({j})
       IN  /\ timer' = IF final = "paused" THEN timer ELSE Armed({j})
           /\ Drain([status EXCEPT ![j] = final], alive \ {j}, ls, Marked(j, final), seq)
    /\ handle' = Dropped(j) /\ pausing' = pausing \ {j}
    /\ UNCHANGED lease

\* The eviction timer fires: #evictJob and #purgeTerminalSubagentStateForJob.
Evict(j) ==
    /\ j \in timer
    /\ timer' = timer \ {j}
    /\ listed' = listed \ {j}
    /\ handle' = [s \in Subagent |-> IF cur[s] = j /\ rec[s] \notin {"paused", "queued"}
                                     THEN NoJob ELSE handle[s]]
    /\ UNCHANGED <<status, who, alive, rec, cur, seq, pausing, lease>>

-----------------------------------------------------------------------------
(* The subagent and job tools.                                               *)

\* cancel() that also finishes the record, instead of leaving it to settlement.
CancelMarksRecord(j) ==
    /\ j \in listed /\ status[j] = "running"
    /\ status' = [status EXCEPT ![j] = "cancelled"]
    /\ rec' = Marked(j, "cancelled")
    /\ UNCHANGED <<who, alive, listed, timer, cur, seq, handle, pausing, lease>>

\* cancel() of a running job: the run is aborted, everything else waits for it.
cancel(j) ==
    /\ j \in listed /\ status[j] = "running"
    /\ status' = [status EXCEPT ![j] = "cancelled"]
    /\ UNCHANGED <<who, alive, listed, timer, recVars, lease>>

\* cancel() of a paused job, outside a shutdown.  Only the subagent tool gets here:
\* it cancels the job when cancelSubagent() found the record terminal or gone.  The
\* job tool cancels running jobs only.
CancelPausedJob(j) ==
    /\ j \in listed /\ status[j] = "paused"
    /\ rec[who[j]] \in Terminal \cup {"none"}
    /\ timer' = Armed({j})
    /\ Drain([k \in Job |-> IF k = j THEN "cancelled" ELSE status[k]],
             alive, Unlisted({j}), Marked(j, "cancelled"), seq)
    /\ handle' = [s \in Subagent |-> IF cur[s] = j THEN NoJob ELSE handle[s]]
    /\ UNCHANGED <<pausing, lease>>

\* cancelSubagent() of a queued record that leaves its queue entry behind.
CancelQueuedKeepsEntry(s) ==
    /\ rec[s] = "queued"
    /\ rec' = [rec EXCEPT ![s] = "cancelled"]
    /\ UNCHANGED <<jobVars, cur, seq, handle, pausing, lease>>

CancelQueued(s) ==
    /\ rec[s] = "queued"
    /\ rec' = [rec EXCEPT ![s] = "cancelled"]
    /\ seq' = [seq EXCEPT ![s] = 0]
    /\ UNCHANGED <<jobVars, cur, handle, pausing, lease>>

CancelPaused(s) ==
    LET j == cur[s]
        stopped == j \in listed /\ status[j] = "paused"
    IN  /\ rec[s] = "paused"
        /\ timer' = IF stopped THEN Armed({j}) ELSE timer
        /\ Drain([k \in Job |-> IF stopped /\ k = j THEN "cancelled" ELSE status[k]],
                 alive, IF stopped THEN Unlisted({j}) ELSE listed,
                 [rec EXCEPT ![s] = "cancelled"], seq)
        /\ handle' = [handle EXCEPT ![s] = NoJob]
        /\ UNCHANGED <<pausing, lease>>

cancelSubagent(s) ==
    \/ rec[s] = "running" /\ cancel(cur[s])
    \/ CancelPaused(s)
    \/ CancelQueued(s)

\* resumeSubagent() that starts without looking at the running limit.
ResumeOverLimit(s) ==
    /\ rec[s] \in Terminal \cup {"paused"}
    /\ s \in Resumable /\ ~Fenced(OwnerOf[s]) /\ HasRoom
    /\ StartRuns({s}, status, alive, listed, rec, seq)
    /\ UNCHANGED <<timer, handle, pausing, lease>>

\* ++#resumeSeq, counted from the entries that are still queued: only the order of
\* the numbers matters.
IsNextSeq(n) ==
    /\ \A s \in Subagent : seq[s] < n
    /\ n = 1 \/ \E s \in Subagent : seq[s] = n - 1

\* A resume of a running or queued record changes no state kept here.
resumeSubagent(s) ==
    /\ rec[s] \in Terminal \cup {"paused"}
    /\ s \in Resumable /\ ~Fenced(OwnerOf[s]) /\ HasRoom
    /\ IF Cardinality(Running(status, listed)) >= MaxRunning
       THEN /\ rec' = [rec EXCEPT ![s] = "queued"]
            /\ \E n \in 1..MaxSeq : IsNextSeq(n) /\ seq' = [seq EXCEPT ![s] = n]
            /\ UNCHANGED <<jobVars, cur>>
       ELSE /\ StartRuns({s}, status, alive, listed, rec, seq)
            /\ UNCHANGED timer
    /\ UNCHANGED <<handle, pausing, lease>>

\* #purgeOwnerSubagentState
Purge(o) ==
    /\ rec' = [s \in Subagent |-> IF OwnerOf[s] = o THEN "none" ELSE rec[s]]
    /\ cur' = [s \in Subagent |-> IF OwnerOf[s] = o THEN NoJob ELSE cur[s]]
    /\ handle' = [s \in Subagent |-> IF OwnerOf[s] = o THEN NoJob ELSE handle[s]]
    /\ seq' = [s \in Subagent |-> IF OwnerOf[s] = o THEN 0 ELSE seq[s]]

\* #cancelOwnAsyncJobs, run when a session is cleared, branched, handed off or
\* disposed: purge the owner's subagent state, then cancelAll(), which schedules
\* eviction without waiting for the runs.
CancelOwnAsyncJobs(o) ==
    LET mine == {j \in Running(status, listed) : JobOwner(j) = o}
    IN  /\ status' = [j \in Job |-> IF j \in mine THEN "cancelled" ELSE status[j]]
        /\ listed' = Unlisted(mine)
        /\ timer' = Armed(mine)
        /\ Purge(o)
        /\ UNCHANGED <<who, alive, pausing, lease>>

-----------------------------------------------------------------------------
(* The owner shutdown lease of newSession().                                 *)

\* The owner's listed subagent jobs that may still be running.
Unfinished(o) ==
    {j \in listed : /\ who[j] \in Owned(o)
                    /\ status[j] \in {"running", "paused", "cancelled"}}

\* Records that are not terminal: the targets with source "record".
LiveRecords(o) == {s \in Owned(o) : rec[s] \in {"running", "paused", "queued"}}

\* beginOwnerSubagentShutdown that captures only canonical records.
BeginRecordsOnly(o) ==
    /\ ~Fenced(o)
    /\ lease' = [lease EXCEPT ![o] =
            [phase |-> "active", targets |-> LiveRecords(o), records |-> LiveRecords(o),
             backing |-> {cur[s] : s \in {t \in LiveRecords(o) : rec[t] # "queued"}},
             captured |-> {}]]
    /\ UNCHANGED <<jobVars, recVars>>

beginOwnerSubagentShutdown(o) ==
    /\ ~Fenced(o)
    /\ LET records == LiveRecords(o)
       IN  lease' = [lease EXCEPT ![o] =
            [phase |-> "active",
             targets |-> records \cup {who[j] : j \in Unfinished(o)},
             records |-> records,
             backing |-> {cur[s] : s \in {t \in records : rec[t] # "queued"}}
                            \cup Unfinished(o),
             captured |-> {}]]
    /\ UNCHANGED <<jobVars, recVars>>

\* cancel() on each job of J and cancelSubagent() on each record of S, in one
\* block.  A cancelled pause drains the queue; how many slots the last such drain
\* finds depends on where the running jobs stand in the iteration order, which is
\* left open between none and all of them cancelled before it.
CancelBatch(J, S) ==
    LET stopped == {j \in J \cap listed : status[j] = "paused"}
        aborted == {j \in J \cap listed : status[j] = "running"}
        st == [j \in Job |-> IF j \in stopped \cup aborted THEN "cancelled" ELSE status[j]]
        rc == [s \in Subagent |->
                 IF cur[s] \in stopped \/ (s \in S /\ rec[s] \in {"paused", "queued"})
                 THEN "cancelled" ELSE rec[s]]
        q == [s \in Subagent |-> IF s \in S THEN 0 ELSE seq[s]]
        before == MaxRunning - Cardinality(Running(status, listed))
        after == before + Cardinality(aborted)
    IN  /\ timer' = Armed(stopped)
        /\ handle' = [s \in Subagent |-> IF rec[s] = "paused" /\ rc[s] = "cancelled"
                                         THEN NoJob ELSE handle[s]]
        /\ \E free \in (IF stopped = {} THEN {0} ELSE before..after) :
              StartRuns(Startable(rc, q, free), st, alive, Unlisted(stopped), rc, q)
        /\ UNCHANGED pausing

\* cancelAndProveOwnerSubagents, up to its await: the promises of the backing jobs
\* still listed are captured, then every target is cancelled.
cancelAndProveOwnerSubagents(o) ==
    /\ lease[o].phase = "active"
    /\ lease' = [lease EXCEPT ![o].phase = "proving",
                              ![o].captured = lease[o].backing \cap listed]
    /\ CancelBatch(lease[o].backing, lease[o].records)

\* #hasTerminalShutdownEvidence
Evidence(o, s) ==
    /\ rec[s] \in Terminal
    /\ \A j \in lease[o].backing : who[j] = s => j \in lease[o].captured \ alive

\* A proof without the deadline: it waits for every captured promise.
ProofWithoutDeadline(o) ==
    /\ lease[o].phase = "proving"
    /\ lease[o].captured \cap alive = {}
    /\ lease' = [lease EXCEPT ![o].phase =
            IF \A s \in lease[o].targets : Evidence(o, s) THEN "confirmed" ELSE "unconfirmed"]
    /\ UNCHANGED <<jobVars, recVars>>

\* The rest of cancelAndProveOwnerSubagents: all captured promises settled, or the
\* deadline passed, whichever is first.
Proof(o) ==
    /\ lease[o].phase = "proving"
    /\ lease' = [lease EXCEPT ![o].phase =
            IF \A s \in lease[o].targets : Evidence(o, s) THEN "confirmed" ELSE "unconfirmed"]
    /\ UNCHANGED <<jobVars, recVars>>

\* cancelAndSettleOwnerJobs, up to its await: cancel every listed job of the
\* owner and capture all their promises.
cancelAndSettleOwnerJobs(o) ==
    /\ lease[o].phase = "confirmed"
    /\ LET mine == {j \in listed : JobOwner(j) = o}
       IN  /\ lease' = [lease EXCEPT ![o].phase = "settling", ![o].captured = mine]
           /\ CancelBatch(mine, {})

\* Committing without waiting for the owner's jobs.
CommitWithoutWaiting(o) ==
    /\ lease[o].phase = "settling"
    /\ Purge(o)
    /\ lease' = [lease EXCEPT ![o] = NoLease]
    /\ UNCHANGED <<jobVars, pausing>>

\* The jobs settled in time, the session was replaced:
\* finishOwnerSubagentShutdown(lease, "commit").
Commit(o) ==
    /\ lease[o].phase = "settling" /\ lease[o].captured \cap alive = {}
    /\ Purge(o)
    /\ lease' = [lease EXCEPT ![o] = NoLease]
    /\ UNCHANGED <<jobVars, pausing>>

\* finishOwnerSubagentShutdown(lease, "release"): the proof failed, or a later
\* step threw before the session id changed.  EarlyFailure: abort() rejected before
\* the proof began.
Release(o) ==
    /\ lease[o].phase \in {"unconfirmed", "confirmed", "settling"}
         \cup (IF EarlyFailure THEN {"active"} ELSE {})
    /\ lease' = [lease EXCEPT ![o] = NoLease]
    /\ UNCHANGED <<jobVars, recVars>>

-----------------------------------------------------------------------------
Settlement == \E j \in Job, out \in Ending : Settle(j, out)

Next ==
    \/ \E s \in Subagent : \/ Launch(s)
                           \/ pauseSubagent(s)
                           \/ resumeSubagent(s)
                           \/ cancelSubagent(s)
    \/ \E j \in Job : \/ AttachHandle(j)
                      \/ cancel(j)
                      \/ CancelPausedJob(j)
                      \/ Evict(j)
    \/ Settlement
    \/ \E o \in Owner : RegisterBash(o)
    \/ \E o \in Closing : \/ CancelOwnAsyncJobs(o)
                          \/ beginOwnerSubagentShutdown(o)
                          \/ cancelAndProveOwnerSubagents(o)
                          \/ Proof(o)
                          \/ cancelAndSettleOwnerJobs(o)
                          \/ Commit(o)
                          \/ Release(o)

Spec == Init /\ [][Next]_vars

\* newSession() runs to its end: abort() returns and every later wait has a
\* deadline.  Nothing is assumed of the runs.
LeaseFairness ==
    \A o \in Owner : /\ WF_vars(cancelAndProveOwnerSubagents(o))
                     /\ WF_vars(Proof(o))
                     /\ WF_vars(Commit(o) \/ Release(o))

LeaseSpec == Spec /\ LeaseFairness

\* Every run ends at some time.
RunsEnd == \A j \in Job : WF_vars(\E out \in Ending : Settle(j, out))

-----------------------------------------------------------------------------
(* Properties.                                                               *)

LeaseType == [phase : Phase, targets : SUBSET Subagent, records : SUBSET Subagent,
              backing : SUBSET Job, captured : SUBSET Job]

\* Every field of the manager has its type.
TypeOK ==
    /\ status \in [Job -> JobStatus]
    /\ who \in [Job -> Subagent \cup Owner \cup {Nobody}]
    /\ alive \subseteq Job /\ listed \subseteq Job /\ timer \subseteq Job
    /\ rec \in [Subagent -> RecStatus]
    /\ cur \in [Subagent -> Job \cup {NoJob}]
    /\ seq \in [Subagent -> Nat]
    /\ handle \in [Subagent -> Job \cup {NoJob}]
    /\ pausing \subseteq Job
    /\ lease \in [Owner -> LeaseType]

\* A subagent never has two runs at once: however pause, cancel, resume, queueing,
\* shutdown and session cleanup interleave with a run that is slow to stop, a
\* resume starts only after the previous run of that subagent settled
\* (resumeSubagent, #drainResumeQueue).
OneLiveRunPerSubagent ==
    \A j, k \in alive : who[j] \in Subagent /\ who[j] = who[k] => j = k

\* A record says "running" exactly while its current run is alive: a cancelled run
\* that is still unwinding keeps its record "running", and a record that left
\* "running" has no run behind it (#markRecordPaused, #markRecordTerminal).
RecordFollowsRun ==
    \A s \in Subagent :
        /\ rec[s] = "running" => cur[s] \in alive /\ who[cur[s]] = s
        /\ rec[s] \notin {"none", "running"} => \A j \in alive : who[j] # s

\* A confirmed proof means what newSession() takes it for: every record of the
\* owner is terminal or gone and no listed run of its subagents is still alive.
ConfirmedMeansStopped ==
    \A o \in Owner : lease[o].phase \in {"confirmed", "settling"} =>
        /\ \A s \in Owned(o) : rec[s] \in Terminal \cup {"none"}
        /\ \A j \in listed \cap alive : who[j] \notin Owned(o)

\* The running limit holds although three paths start jobs (register, a direct
\* resume, the drain of the queue) and cancelled runs free their slot early.
RunningLimit == Cardinality(Running(status, listed)) <= MaxRunning

\* The resume queue and the records agree: an entry for each queued record and no
\* other, in a definite order (cancelSubagent, resumeSubagent, the purges).
QueueMatchesRecords ==
    /\ \A s \in Subagent : rec[s] = "queued" <=> seq[s] # 0
    /\ \A s, t \in Subagent : seq[s] = seq[t] /\ seq[s] # 0 => s = t

\* "queued -- resume requested and waiting for execution capacity": a queued resume
\* whose owner is not shutting down waits for a job that is running or unwinding,
\* whose settlement will drain the queue.
QueuedWaitsForCapacity ==
    \A s \in Subagent : rec[s] = "queued" /\ ~Fenced(OwnerOf[s]) => alive # {}

\* Queued resumes start in the order they were accepted: no step starts one and
\* leaves an earlier one waiting whose owner is not shutting down.
DrainIsFifo ==
    [][\A s, t \in Subagent :
         /\ rec[s] = "queued" /\ rec[t] = "queued" /\ seq[s] < seq[t]
         /\ rec'[t] = "running" /\ ~Fenced(OwnerOf[s])
         => rec'[s] # "queued"]_vars

\* pauseSubagent() reaches the run the record names: an installed live handle of a
\* running record belongs to its current run, never to an earlier one.
HandleIsCurrentRun ==
    \A s \in Subagent : rec[s] = "running" /\ handle[s] # NoJob => handle[s] = cur[s]

\* The first terminal status of a job stands: a late result never revives or
\* relabels a cancelled job, and a late cancel never relabels a finished one.
TerminalStatusStands ==
    [][\A j \in Job : status[j] \in Terminal => status'[j] = status[j]]_vars

\* Nothing starts behind the shutdown fence: no job of an owner is registered
\* while its lease is held, by whatever path, the drain of the queue included.
NothingStartsBehindFence ==
    [][\A j \in Job : status[j] = "none" /\ status'[j] # "none"
         => \A o \in Owner : Fenced(o) => who'[j] # o /\ who'[j] \notin Owned(o)]_vars

\* When a session is replaced, the predecessor leaves no listed job alive, bash
\* jobs included.
ReplacementIsQuiet ==
    [][\A o \in Owner : Commit(o) => \A j \in listed \cap alive : JobOwner(j) # o]_vars

\* The shutdown lease is always given back, even when a run never stops.
ShutdownEnds == \A o \in Owner : Fenced(o) ~> ~Fenced(o)

\* If every run ends, a queued resume leaves the queue (#drainResumeQueue at each
\* settlement).
QueuedResumeLeaves ==
    RunsEnd => \A s \in Subagent : rec[s] = "queued" ~> rec[s] # "queued"
=============================================================================
