--------------------------- MODULE AsyncDelivery ---------------------------
(* How the result of a background job reaches the agent: the delivery queue, *)
(* delivery loop, acknowledgements, watches and dead letters of              *)
(* packages/coding-agent/src/async/job-manager.ts, the completion callback   *)
(* and stale check of sdk/session.ts, the tools that report results (job,    *)
(* subagent await), and the session operations that discard them.            *)
(*                                                                           *)
(* An action is one synchronous block of the event loop.  The delivery loop  *)
(* runs synchronously up to its first await, inside whatever block starts    *)
(* it: Advance gives the state it stops in.  A delivery is in flight between *)
(* the call of onJobComplete and the end of that callback, which awaits the  *)
(* formatting of the result.                                                 *)
(*                                                                           *)
(* Data left out: result texts, byte bounds, retry delays (a retry becomes   *)
(* due some time later), labels.  Every job id is registered once.           *)
EXTENDS Integers, FiniteSets, SequencesExt

CONSTANTS Job,         \* job ids
          Owner,       \* agents that own jobs
          OwnerOf,     \* the owner of each job
          Caller,      \* tool calls that may run side by side
          MaxQueue,    \* DEFAULT_MAX_DELIVERY_QUEUE
          MaxDead,     \* MAX_DEAD_LETTERED_DELIVERIES
          MaxAttempts, \* DELIVERY_MAX_ATTEMPTS
          Scope        \* bound: which of the optional actors below take part

ASSUME OwnerOfAssumption == OwnerOf \in [Job -> Owner] /\ "none" \notin Job
ASSUME LimitAssumption == MaxQueue \in Nat \ {0} /\ MaxDead \in Nat \ {0}
                          /\ MaxAttempts \in Nat \ {0}
ASSUME ScopeAssumption ==
    Scope \subseteq {"poll", "await", "evict", "longTurn", "fail", "drain", "new", "clear",
                     "dispose"}

VARIABLES job,      \* AsyncJob.status; "aborted" is cancelled with its promise pending
          listed,   \* keys of #jobs
          queue,    \* #deliveries
          flying,   \* #inFlightDeliveries, and who awaits each one
          loop,     \* #deliveryLoop: not running, sleeping, awaiting a delivery, or ending
          acked,    \* #suppressedDeliveries
          watched,  \* #watchedJobs
          dead,     \* #deadLetteredDeliveries, oldest first
          fence,    \* owners with a shutdown lease
          staged,   \* async-result entries of the session's yield queue
          poll,     \* the job and subagent tool calls in progress
          drain,    \* a drainDeliveries() call with an owner filter
          disp,     \* dispose(): not called, waiting, or how it ended
          told,     \* history: jobs whose result a tool reported
          past,     \* history: jobs of a context that was cleared or replaced
          dropped,  \* history: jobs whose delivery was given up
          transcript \* history: the results injected into the agent, in order

delVars == <<queue, flying, loop>>
hist == <<told, past, dropped, transcript>>
vars == <<job, listed, queue, flying, loop, acked, watched, dead, fence, staged, poll, drain,
          disp, told, past, dropped, transcript>>

NoJob == "none"
JobState == {"none", "running", "aborted", "cancelled", "ended"}
Delivery == [job : Job, attempt : 0..(MaxAttempts - 1), due : BOOLEAN]
Flight == [job : Job, attempt : 0..(MaxAttempts - 1), by : {"loop", "drain"}]
Idle == [pc |-> "none", job |-> NoJob]
NoCall == [tool |-> "none", jobs |-> {}, watching |-> {}]

Init ==
    /\ job = [j \in Job |-> "none"] /\ listed = {}
    /\ queue = <<>> /\ flying = {} /\ loop = Idle
    /\ acked = {} /\ watched = {} /\ dead = <<>>
    /\ fence = {} /\ staged = <<>>
    /\ poll = [c \in Caller |-> NoCall] /\ drain = Idle /\ disp = Idle
    /\ told = {} /\ past = {} /\ dropped = {} /\ transcript = <<>>

Running == {j \in listed : job[j] = "running"}
Pending == {j \in Job : job[j] \in {"running", "aborted"}}
Stop(S) == [j \in Job |-> IF j \in S /\ job[j] = "running" THEN "aborted" ELSE job[j]]
Disposed == disp.pc # "none"

\* Steps that continue a promise may come between the return of the delivery loop and its
\* finally handler; steps that a timer, the agent or the user starts come after it.  A
\* finished dispose() ends the behaviour, and a spinning one blocks the event loop.
Microtask == disp.pc \notin {"spin", "done"}
Macrotask == Microtask /\ loop.pc # "ending"

-----------------------------------------------------------------------------
(* The delivery loop.                                                        *)

\* Positions of q a delivery loop may pick: not suppressed; fences ignored.
EligibleBehindFence(q, ac, wa, fe) == {i \in DOMAIN q : q[i].job \notin ac \cup wa}

\* Positions of q a delivery loop may pick: neither suppressed nor fenced.
Eligible(q, ac, wa, fe) ==
    {i \in DOMAIN q : q[i].job \notin ac \cup wa /\ OwnerOf[q[i].job] \notin fe}

Flies(d, by) == [job |-> d.job, attempt |-> d.attempt, by |-> by]

\* #runDeliveryLoop that leaves the delivery in the queue while it is in flight.
AdvancePeeks(q, fl, ac, wa, fe) ==
    LET e == Eligible(q, ac, wa, fe)
        i == Min(e)
    IN  IF e = {} THEN [q |-> q, fl |-> fl, lp |-> [pc |-> "ending", job |-> NoJob]]
        ELSE IF q[i].due
        THEN [q |-> q, fl |-> fl \cup {Flies(q[i], "loop")},
              lp |-> [pc |-> "busy", job |-> q[i].job]]
        ELSE [q |-> q, fl |-> fl, lp |-> [pc |-> "sleep", job |-> q[i].job]]

\* #runDeliveryLoop from the top of its while loop to its next await: the first
\* eligible delivery is sent if it is due, else the loop sleeps for it; with none
\* the loop returns, and its finally handler runs later (LoopEnds).
Advance(q, fl, ac, wa, fe) ==
    LET e == Eligible(q, ac, wa, fe)
        i == Min(e)
    IN  IF e = {} THEN [q |-> q, fl |-> fl, lp |-> [pc |-> "ending", job |-> NoJob]]
        ELSE IF q[i].due
        THEN [q |-> RemoveAt(q, i), fl |-> fl \cup {Flies(q[i], "loop")},
              lp |-> [pc |-> "busy", job |-> q[i].job]]
        ELSE [q |-> q, fl |-> fl, lp |-> [pc |-> "sleep", job |-> q[i].job]]

\* #ensureDeliveryLoop
Ensure(q, fl, ac, wa, fe) ==
    IF Disposed \/ loop.pc # "none" THEN [q |-> q, fl |-> fl, lp |-> loop]
    ELSE Advance(q, fl, ac, wa, fe)

\* #ensureDeliveryLoop behind the check of #hasDeliverable
EnsureIfDeliverable(q, fl) ==
    IF Eligible(q, acked, watched, fence) = {} THEN [q |-> q, fl |-> fl, lp |-> loop]
    ELSE Ensure(q, fl, acked, watched, fence)

Put(r) == queue' = r.q /\ flying' = r.fl /\ loop' = r.lp

\* acknowledgeDeliveries: deliveries of acknowledged jobs leave the queue.
Unacked(q, S) == SelectSeq(q, LAMBDA d : d.job \notin S)

\* The finally handler of #ensureDeliveryLoop without its second look at the queue.
LoopEndsBlindly ==
    /\ Microtask
    /\ loop.pc = "ending"
    /\ loop' = Idle
    /\ UNCHANGED <<queue, flying>>
    /\ UNCHANGED <<job, listed, acked, watched, dead, fence, staged, poll, drain, disp, hist>>

\* The finally handler of #ensureDeliveryLoop: the loop is over, and starts again if
\* something deliverable arrived while it was ending.
LoopEnds ==
    /\ Microtask
    /\ loop.pc = "ending"
    /\ IF Disposed \/ Eligible(queue, acked, watched, fence) = {}
       THEN loop' = Idle /\ UNCHANGED <<queue, flying>>
       ELSE Put(Advance(queue, flying, acked, watched, fence))
    /\ UNCHANGED <<job, listed, acked, watched, dead, fence, staged, poll, drain, disp, hist>>

\* A retry becomes due.
Due(i) ==
    /\ Macrotask
    /\ ~queue[i].due
    /\ queue' = [queue EXCEPT ![i].due = TRUE]
    /\ UNCHANGED <<job, listed, flying, loop, acked, watched, dead, fence, staged, poll, drain,
                   disp, hist>>

\* A sleep for the delivery of j is over when it is due or was removed meanwhile.
SleepOver(j) == \A i \in DOMAIN queue : queue[i].job = j => queue[i].due

\* The loop wakes: it sends the delivery it slept for if that is still in the queue
\* and eligible, and goes back to the top otherwise.
LoopWakes ==
    /\ Macrotask
    /\ loop.pc = "sleep" /\ SleepOver(loop.job)
    /\ LET mine == {i \in Eligible(queue, acked, watched, fence) : queue[i].job = loop.job}
           i == Min(mine)
       IN  IF mine = {} THEN Put(Advance(queue, flying, acked, watched, fence))
           ELSE /\ queue' = RemoveAt(queue, i)
                /\ flying' = flying \cup {Flies(queue[i], "loop")}
                /\ loop' = [pc |-> "busy", job |-> loop.job]
    /\ UNCHANGED <<job, listed, acked, watched, dead, fence, staged, poll, drain, disp, hist>>

-----------------------------------------------------------------------------
(* Jobs, and the end of a delivery.                                          *)

\* register() of a job: a disposed manager and a fenced owner are refused.
register(j) ==
    /\ Macrotask
    /\ job[j] = "none" /\ ~Disposed /\ OwnerOf[j] \notin fence
    /\ job' = [job EXCEPT ![j] = "running"]
    /\ listed' = listed \cup {j}
    /\ acked' = acked \ {j}
    /\ UNCHANGED <<delVars, watched, dead, fence, staged, poll, drain, disp, hist>>

\* #recordDeadLetter: the job must still be listed, the newest MaxDead are kept.
RecordDead(letters, j) ==
    IF j \notin listed THEN letters
    ELSE LET all == Append(Remove(letters, j), j)
         IN  SubSeq(all, Len(all) - Min({MaxDead, Len(all)}) + 1, Len(all))

\* The run of j ends.  A job that was not cancelled enqueues its result, unless it
\* was acknowledged already; the oldest deliveries of a full queue become dead
\* letters.  The eviction timer starts (Evict).
Settle(j) ==
    /\ Microtask
    /\ job[j] \in {"running", "aborted"}
    /\ job' = [job EXCEPT ![j] = IF @ = "running" THEN "ended" ELSE "cancelled"]
    /\ IF job[j] = "aborted" \/ j \in acked
       THEN UNCHANGED <<delVars, dead, dropped>>
       ELSE LET all == Append(queue, [job |-> j, attempt |-> 0, due |-> TRUE])
                excess == Len(all) - Min({MaxQueue, Len(all)})
                lost == [i \in 1..excess |-> all[i].job]
            IN  /\ Put(Ensure(SubSeq(all, excess + 1, Len(all)), flying, acked, watched, fence))
                /\ dead' = FoldLeft(RecordDead, dead, lost)
                /\ dropped' = dropped \cup Range(lost)
    /\ UNCHANGED <<listed, acked, watched, fence, staged, poll, drain, disp, told, past,
                   transcript>>

\* cancel() of a running job
Cancel(j) ==
    /\ Macrotask
    /\ job[j] = "running" /\ j \in listed
    /\ job' = Stop({j})
    /\ UNCHANGED <<listed, delVars, acked, watched, dead, fence, staged, poll, drain, disp, hist>>

\* The end of #deliverDelivery of d, with q the queue: the awaiting loop goes on,
\* even when disposed; another awaiter leaves the loop to be started if needed.
Landed(d, q) ==
    Put(IF d.by = "loop" THEN Advance(q, flying \ {d}, acked, watched, fence)
        ELSE EnsureIfDeliverable(q, flying \ {d}))

\* onJobComplete succeeds.  It looks at the suppression again after formatting the
\* result, and stages the result in the yield queue.
CallbackReturns(d) ==
    /\ Microtask
    /\ staged' = IF d.job \in acked \cup watched THEN staged ELSE Append(staged, d.job)
    /\ Landed(d, queue)
    /\ UNCHANGED <<job, listed, acked, watched, dead, fence, poll, drain, disp, hist>>

\* onJobComplete throws, with one attempt too many.
CallbackThrowsLate(d) ==
    /\ Microtask
    /\ "fail" \in Scope
    /\ IF d.attempt + 1 > MaxAttempts
       THEN /\ dead' = RecordDead(dead, d.job) /\ dropped' = dropped \cup {d.job}
            /\ Landed(d, queue)
       ELSE /\ Landed(d, IF d.job \in acked THEN queue
                         ELSE Append(queue, [job |-> d.job, attempt |-> d.attempt + 1,
                                             due |-> FALSE]))
            /\ UNCHANGED <<dead, dropped>>
    /\ UNCHANGED <<job, listed, acked, watched, fence, staged, poll, drain, disp, told, past,
                   transcript>>

\* onJobComplete throws: the delivery is retried later, or given up as a dead letter.
CallbackThrows(d) ==
    /\ Microtask
    /\ "fail" \in Scope
    /\ IF d.attempt + 1 >= MaxAttempts
       THEN /\ dead' = RecordDead(dead, d.job) /\ dropped' = dropped \cup {d.job}
            /\ Landed(d, queue)
       ELSE /\ Landed(d, IF d.job \in acked THEN queue
                         ELSE Append(queue, [job |-> d.job, attempt |-> d.attempt + 1,
                                             due |-> FALSE]))
            /\ UNCHANGED <<dead, dropped>>
    /\ UNCHANGED <<job, listed, acked, watched, fence, staged, poll, drain, disp, told, past,
                   transcript>>

\* The tool call is still waiting: a job poll for its first settlement, an await for
\* its last.
StillWaiting(c) ==
    \/ poll[c].tool = "job" /\ poll[c].watching \subseteq Pending
    \/ poll[c].tool = "await" /\ poll[c].watching \cap Pending # {}

\* DEFAULT_RETENTION_MS have passed since job j stopped (or was cancelled with its
\* session).  By then its callback has returned, and so has every tool call that had
\* nothing more to wait for.  A turn outlasts that time only with longTurn in scope.
OutlivesRetention(j) ==
    /\ j \in listed /\ job[j] # "none" /\ (j \in Pending => job[j] = "aborted" /\ j \in past)
    /\ \A d \in flying : d.job # j
    /\ \A c \in Caller : j \in poll[c].jobs => StillWaiting(c)
    /\ "longTurn" \in Scope \/ ~Contains(staged, j)

\* Eviction that forgets the dead letter.
EvictKeepsLetter(j) ==
    /\ Macrotask
    /\ "evict" \in Scope /\ ~Disposed
    /\ OutlivesRetention(j)
    /\ listed' = listed \ {j} /\ acked' = acked \ {j} /\ watched' = watched \ {j}
    /\ UNCHANGED <<job, delVars, dead, fence, staged, poll, drain, disp, hist>>

\* The eviction timer fires: #evictJob.
Evict(j) ==
    /\ Macrotask
    /\ "evict" \in Scope /\ ~Disposed
    /\ OutlivesRetention(j)
    /\ listed' = listed \ {j} /\ acked' = acked \ {j} /\ watched' = watched \ {j}
    /\ dead' = Remove(dead, j)
    /\ UNCHANGED <<job, delVars, fence, staged, poll, drain, disp, hist>>

-----------------------------------------------------------------------------
(* The tools that report results to the agent.                               *)

\* acknowledgeDeliveries(S), after the queue and loop have become those of r.
Acknowledge(S, r) ==
    /\ acked' = acked \cup S
    /\ Put([r EXCEPT !.q = Unacked(r.q, acked \cup S)])

AsIs == [q |-> queue, fl |-> flying, lp |-> loop]

\* unwatchJobs(S) with the acknowledgements ac.  It starts the loop only if it
\* removed a watch.
Unwatch(S, q, ac) ==
    IF S \cap watched = {} THEN [q |-> q, fl |-> flying, lp |-> loop]
    ELSE Ensure(q, flying, ac, watched \ S, fence)

\* A poll that also watches jobs that are already finished.
PollWatchesAll(c, S) ==
    /\ Macrotask /\ "poll" \in Scope
    /\ S \subseteq listed
    /\ poll[c] = NoCall
    /\ IF S \cap Running = {}
       THEN /\ Acknowledge(S, AsIs)
            /\ told' = told \cup {j \in S : job[j] = "ended"}
            /\ UNCHANGED <<watched, poll>>
       ELSE /\ watched' = watched \cup S
            /\ poll' = [poll EXCEPT ![c] = [tool |-> "job", jobs |-> S, watching |-> S]]
            /\ UNCHANGED <<acked, delVars, told>>
    /\ UNCHANGED <<job, listed, dead, fence, staged, drain, disp, past, dropped, transcript>>

\* The job tool polls the jobs of S: it watches those that run, or reports at once
\* when none does.
PollStarts(c, S) ==
    /\ Macrotask /\ "poll" \in Scope
    /\ S \subseteq listed
    /\ poll[c] = NoCall
    /\ IF S \cap Running = {}
       THEN /\ Acknowledge(S, AsIs)
            /\ told' = told \cup {j \in S : job[j] = "ended"}
            /\ UNCHANGED <<watched, poll>>
       ELSE /\ watched' = watched \cup (S \cap Running)
            /\ poll' = [poll EXCEPT ![c] = [tool |-> "job", jobs |-> S,
                                            watching |-> S \cap Running]]
            /\ UNCHANGED <<acked, delVars, told>>
    /\ UNCHANGED <<job, listed, dead, fence, staged, drain, disp, past, dropped, transcript>>

\* A poll that returns without acknowledging what it reports.
PollForgetsAck(c) ==
    /\ Microtask
    /\ poll[c].tool = "job"
    /\ Put(Unwatch(poll[c].watching, queue, acked))
    /\ told' = told \cup {j \in poll[c].jobs : job[j] = "ended"}
    /\ watched' = watched \ poll[c].watching
    /\ poll' = [poll EXCEPT ![c] = NoCall]
    /\ UNCHANGED <<job, listed, acked, dead, fence, staged, drain, disp, past, dropped, transcript>>

\* The poll returns: a job settled, the wait elapsed, or the call was aborted.  The
\* watches are dropped, which may start the loop, and then the jobs that no longer
\* run are reported and acknowledged.
PollReturns(c) ==
    /\ Microtask
    /\ poll[c].tool = "job"
    /\ LET done == {j \in poll[c].jobs : job[j] # "running"}
       IN  /\ Acknowledge(done, Unwatch(poll[c].watching, queue, acked))
           /\ told' = told \cup {j \in done : job[j] = "ended"}
    /\ watched' = watched \ poll[c].watching
    /\ poll' = [poll EXCEPT ![c] = NoCall]
    /\ UNCHANGED <<job, listed, dead, fence, staged, drain, disp, past, dropped, transcript>>

\* The subagent tool awaits the jobs of S; with none running it goes on to its report.
AwaitStarts(c, S) ==
    /\ Macrotask /\ "await" \in Scope
    /\ S \subseteq listed
    /\ poll[c] = NoCall
    /\ IF S \cap Running = {}
       THEN /\ poll' = [poll EXCEPT ![c] = [tool |-> "report", jobs |-> S, watching |-> {}]]
            /\ UNCHANGED watched
       ELSE /\ watched' = watched \cup (S \cap Running)
            /\ poll' = [poll EXCEPT ![c] = [tool |-> "await", jobs |-> S,
                                            watching |-> S \cap Running]]
    /\ UNCHANGED <<job, listed, delVars, acked, dead, fence, staged, drain, disp, hist>>

\* The await is over, because all jobs settled or the time is up: finished jobs that
\* are still listed are acknowledged before the watches are dropped.
AwaitReturns(c) ==
    /\ Microtask
    /\ poll[c].tool = "await"
    /\ LET done == {j \in poll[c].watching \cap listed : job[j] # "running"}
       IN  /\ acked' = acked \cup done
           /\ Put(Unwatch(poll[c].watching, Unacked(queue, acked'), acked'))
    /\ watched' = watched \ poll[c].watching
    /\ poll' = [poll EXCEPT ![c].tool = "report", ![c].watching = {}]
    /\ UNCHANGED <<job, listed, dead, fence, staged, drain, disp, hist>>

\* The await is interrupted: nothing is acknowledged, now or in its report.
AwaitInterrupted(c) ==
    /\ Microtask
    /\ poll[c].tool = "await"
    /\ Put(Unwatch(poll[c].watching, queue, acked))
    /\ watched' = watched \ poll[c].watching
    /\ poll' = [poll EXCEPT ![c] = NoCall]
    /\ UNCHANGED <<job, listed, acked, dead, fence, staged, drain, disp, hist>>

\* #buildRecordResult, after the output files were looked up: every subagent that has
\* finished by now is reported and acknowledged.
AwaitReports(c) ==
    /\ Microtask
    /\ poll[c].tool = "report"
    /\ LET done == {j \in poll[c].jobs : job[j] \in {"ended", "cancelled"}}
       IN  /\ Acknowledge(done, AsIs)
           /\ told' = told \cup {j \in done : job[j] = "ended"}
    /\ poll' = [poll EXCEPT ![c] = NoCall]
    /\ UNCHANGED <<job, listed, watched, dead, fence, staged, drain, disp, past, dropped,
                   transcript>>

\* A flush that trusts the entries it finds.
FlushAll ==
    /\ Macrotask
    /\ staged # <<>> /\ \A c \in Caller : poll[c] = NoCall
    /\ transcript' = transcript \o staged
    /\ staged' = <<>>
    /\ UNCHANGED <<job, listed, delVars, acked, watched, dead, fence, poll, drain, disp, told,
                   past, dropped>>

\* The yield queue is flushed, when the agent yields or is idle, so with no tool call
\* in progress: entries that are suppressed by now are stale and left out.
Flush ==
    /\ Macrotask
    /\ staged # <<>> /\ \A c \in Caller : poll[c] = NoCall
    /\ transcript' = transcript \o SelectSeq(staged, LAMBDA j : j \notin acked \cup watched)
    /\ staged' = <<>>
    /\ UNCHANGED <<job, listed, delVars, acked, watched, dead, fence, poll, drain, disp, told,
                   past, dropped>>

-----------------------------------------------------------------------------
(* Session operations.                                                       *)

Mine(o) == {j \in Job : OwnerOf[j] = o /\ job[j] # "none"}
\* getDeliveryState().pendingJobIds, of one owner
PendingIds(o) ==
    {j \in Mine(o) \ (acked \cup watched) : \/ \E i \in DOMAIN queue : queue[i].job = j
                                            \/ \E d \in flying : d.job = j}

\* clearContext() that acknowledges queued deliveries only.
ClearQueuedOnly(o) ==
    /\ Macrotask /\ "clear" \in Scope
    /\ o \notin fence /\ ~Disposed /\ \A c \in Caller : poll[c] = NoCall
    /\ job' = Stop(Mine(o) \cap listed)
    /\ Acknowledge({j \in PendingIds(o) : \A d \in flying : d.job # j}, AsIs)
    /\ staged' = <<>>
    /\ past' = past \cup Mine(o)
    /\ UNCHANGED <<listed, watched, dead, fence, poll, drain, disp, told, dropped, transcript>>

\* clearContext(), branch and handoff: cancel the owner's jobs, acknowledge their
\* queued and in-flight deliveries, drop what is staged.  abort() has ended the tool
\* calls.
ClearContext(o) ==
    /\ Macrotask /\ "clear" \in Scope
    /\ o \notin fence /\ ~Disposed /\ \A c \in Caller : poll[c] = NoCall
    /\ job' = Stop(Mine(o) \cap listed)
    /\ Acknowledge(PendingIds(o), AsIs)
    /\ staged' = <<>>
    /\ past' = past \cup Mine(o)
    /\ UNCHANGED <<listed, watched, dead, fence, poll, drain, disp, told, dropped, transcript>>

\* newSession() takes the shutdown lease.
NewSessionBegins(o) ==
    /\ Macrotask /\ "new" \in Scope
    /\ o \notin fence /\ ~Disposed
    /\ fence' = fence \cup {o}
    /\ UNCHANGED <<job, listed, delVars, acked, watched, dead, staged, poll, drain, disp, hist>>

\* Behind the fence the owner's jobs are cancelled.
NewSessionCancels(o) ==
    /\ Macrotask
    /\ o \in fence /\ Mine(o) \cap Running # {}
    /\ job' = Stop(Mine(o) \cap listed)
    /\ UNCHANGED <<listed, delVars, acked, watched, dead, fence, staged, poll, drain, disp, hist>>

\* The owner's jobs and in-flight deliveries have settled in time, and the session is
\* replaced: finishOwnerSubagentShutdown(lease, "commit").
NewSessionCommits(o) ==
    /\ Macrotask
    /\ o \in fence /\ \A c \in Caller : poll[c] = NoCall
    /\ Mine(o) \cap listed \cap Pending = {}
    /\ \A d \in flying : OwnerOf[d.job] # o
    /\ Acknowledge(PendingIds(o), AsIs)
    /\ fence' = fence \ {o}
    /\ past' = past \cup Mine(o)
    /\ UNCHANGED <<job, listed, watched, dead, staged, poll, drain, disp, told, dropped,
                   transcript>>

\* finishOwnerSubagentShutdown(lease, "release") starts the loop for what was held.
NewSessionReleases(o) ==
    /\ Macrotask
    /\ o \in fence
    /\ fence' = fence \ {o}
    /\ Put(Ensure(queue, flying, acked, watched, fence \ {o}))
    /\ UNCHANGED <<job, listed, acked, watched, dead, staged, poll, drain, disp, hist>>

-----------------------------------------------------------------------------
(* drainDeliveries().                                                        *)

\* One pass of the owner-filtered drain: send the owner's delivery that is due first,
\* sleep for one that is not (or return, when it is due after the deadline), wait for
\* one in flight, or return.
DrainPass(o) ==
    LET ready == {i \in Eligible(queue, acked, watched, fence) : OwnerOf[queue[i].job] = o}
        due == {i \in ready : queue[i].due}
        aloft == {d \in flying : OwnerOf[d.job] = o /\ d.job \notin acked \cup watched}
    IN  \/ \E i \in due : /\ queue' = RemoveAt(queue, i)
                          /\ flying' = flying \cup {Flies(queue[i], "drain")}
                          /\ drain' = [pc |-> "wait", job |-> queue[i].job]
        \/ /\ due = {}
           /\ \E i \in ready : drain' = [pc |-> "sleep", job |-> queue[i].job]
           /\ UNCHANGED <<queue, flying>>
        \/ /\ ready = {}
           /\ \E d \in aloft : drain' = [pc |-> "wait", job |-> d.job]
           /\ UNCHANGED <<queue, flying>>
        \/ /\ due = {} /\ (ready = {} => aloft = {}) /\ drain.pc # "none"
           /\ drain' = Idle
           /\ UNCHANGED <<queue, flying>>

\* The drain is called, or the sleep or the delivery it waited for is over.
Drains(o) ==
    /\ Microtask /\ "drain" \in Scope
    /\ \/ drain.pc = "none"
       \/ drain.pc = "sleep" /\ SleepOver(drain.job) /\ OwnerOf[drain.job] = o
       \/ /\ drain.pc = "wait" /\ OwnerOf[drain.job] = o
          /\ \A d \in flying : d.job # drain.job
    /\ DrainPass(o)
    /\ UNCHANGED <<job, listed, loop, acked, watched, dead, fence, staged, poll, disp, hist>>

\* The deadline of the drain passes; what it sent stays in flight.
DrainTimesOut ==
    /\ Macrotask
    /\ drain.pc = "wait"
    /\ drain' = Idle
    /\ UNCHANGED <<job, listed, delVars, acked, watched, dead, fence, staged, poll, disp, hist>>

-----------------------------------------------------------------------------
(* dispose().                                                                *)

Suppressed == acked \cup watched
Waiting == {queue[i].job : i \in DOMAIN queue} \ Suppressed
Aloft == {d.job : d \in flying} \ Suppressed

\* The end of dispose(): everything is cleared.
Cleared ==
    /\ disp' = [pc |-> "done", job |-> NoJob]
    /\ listed' = {} /\ queue' = <<>> /\ flying' = {} /\ loop' = Idle
    /\ acked' = {} /\ watched' = {} /\ dead' = <<>> /\ fence' = {}
    /\ UNCHANGED <<job, staged, poll, drain, hist>>

DisposeGoesTo(pc, j) ==
    /\ disp' = [pc |-> pc, job |-> j]
    /\ UNCHANGED <<job, listed, delVars, acked, watched, dead, fence, staged, poll, drain, hist>>

\* One pass of the unfiltered drain of a disposed manager.  A disposed manager starts
\* no loop; with no loop to wait for and deliveries left, the pass repeats without
\* ever yielding to the event loop.
DisposePass ==
    \/ Waiting \cup Aloft = {} /\ Cleared
    \/ Waiting = {} /\ \E j \in Aloft : DisposeGoesTo("onFlight", j)
    \/ Waiting # {} /\ loop.pc # "none" /\ DisposeGoesTo("onLoop", NoJob)
    \/ Waiting # {} /\ loop.pc = "none" /\ DisposeGoesTo("spin", NoJob)

\* dispose(), called at the end of the session's own disposal, which has cleared the
\* yield queue: cancel everything and wait for the jobs.
DisposeBegins ==
    /\ Macrotask /\ "dispose" \in Scope
    /\ ~Disposed
    /\ disp' = [pc |-> "waiting", job |-> NoJob]
    /\ job' = Stop(listed)
    /\ staged' = <<>>
    /\ UNCHANGED <<listed, delVars, acked, watched, dead, fence, poll, drain, hist>>

\* The jobs settled, the delivery or the loop the drain waited for is over: next pass.
DisposeGoesOn ==
    /\ Microtask
    /\ \/ disp.pc = "waiting" /\ listed \cap Pending = {}
       \/ disp.pc = "onFlight" /\ \A d \in flying : d.job # disp.job
       \/ disp.pc = "onLoop" /\ loop.pc = "none"
    /\ DisposePass

\* The deadline of dispose() passes.
DisposeTimesOut ==
    /\ Macrotask
    /\ disp.pc \in {"waiting", "onFlight", "onLoop"}
    /\ Cleared

-----------------------------------------------------------------------------
Next ==
    \/ \E j \in Job : register(j) \/ Settle(j) \/ Cancel(j) \/ Evict(j)
    \/ \E i \in DOMAIN queue : Due(i)
    \/ LoopWakes
    \/ LoopEnds
    \/ \E d \in flying : CallbackReturns(d) \/ CallbackThrows(d)
    \/ \E c \in Caller, S \in SUBSET listed \ {{}} : PollStarts(c, S) \/ AwaitStarts(c, S)
    \/ \E c \in Caller : \/ PollReturns(c)
                         \/ AwaitReturns(c)
                         \/ AwaitInterrupted(c)
                         \/ AwaitReports(c)
    \/ Flush
    \/ \E o \in Owner : \/ ClearContext(o)
                        \/ NewSessionBegins(o)
                        \/ NewSessionCancels(o)
                        \/ NewSessionCommits(o)
                        \/ NewSessionReleases(o)
                        \/ Drains(o)
    \/ DrainTimesOut
    \/ DisposeBegins
    \/ DisposeGoesOn
    \/ DisposeTimesOut

Spec == Init /\ [][Next]_vars

\* Callbacks return, timers fire, tool calls end (each has a timeout), the microtasks
\* of the loop run.  The agent yields or idles again and again, whatever tools it calls
\* meanwhile; a new-session attempt ends, since every wait of it has a deadline.
Fairness ==
    /\ \A j \in Job : /\ WF_vars(\E d \in flying : d.job = j
                                   /\ (CallbackReturns(d) \/ CallbackThrows(d)))
                      /\ WF_vars(\E i \in DOMAIN queue : queue[i].job = j /\ Due(i))
    /\ WF_vars(LoopWakes) /\ WF_vars(LoopEnds)
    /\ \A t \in Caller : WF_vars(\/ PollReturns(t) \/ AwaitReturns(t)
                                 \/ AwaitInterrupted(t) \/ AwaitReports(t))
    /\ SF_vars(Flush)
    /\ \A o \in Owner : WF_vars(NewSessionCommits(o) \/ NewSessionReleases(o))
    /\ WF_vars(DisposeGoesOn) /\ WF_vars(DisposeTimesOut)

LiveSpec == Init /\ [][Next]_vars /\ Fairness

-----------------------------------------------------------------------------
\* Types of the state, and the attempt numbers of #deliverDelivery: a delivery that is
\* queued or in flight has attempts left.
TypeOK ==
    /\ job \in [Job -> JobState] /\ listed \subseteq Job
    /\ queue \in Seq(Delivery) /\ flying \subseteq Flight
    /\ loop \in [pc : {"none", "sleep", "busy", "ending"}, job : Job \cup {NoJob}]
    /\ acked \subseteq Job /\ watched \subseteq Job /\ dead \in Seq(Job)
    /\ fence \subseteq Owner /\ staged \in Seq(Job)
    /\ poll \in [Caller -> [tool : {"none", "job", "await", "report"},
                            jobs : SUBSET Job, watching : SUBSET Job]]
    /\ drain \in [pc : {"none", "sleep", "wait"}, job : Job \cup {NoJob}]
    /\ disp \in [pc : {"none", "waiting", "onFlight", "onLoop", "spin", "done"},
                 job : Job \cup {NoJob}]
    /\ told \subseteq Job /\ past \subseteq Job /\ dropped \subseteq Job
    /\ transcript \in Seq(Job)

Queued(j) == \E i \in DOMAIN queue : queue[i].job = j
InFlight(j) == \E d \in flying : d.job = j
Places(j) == Cardinality({i \in DOMAIN queue : queue[i].job = j})
             + Cardinality({d \in flying : d.job = j})
             + Cardinality({i \in DOMAIN staged : staged[i] = j})
             + Cardinality({i \in DOMAIN transcript : transcript[i] = j})

\* The result of a job is in one place only: queued for delivery, in flight, staged, or
\* injected once.  The loop, a filtered drain and the retries of #deliverDelivery never
\* duplicate it.
OneDelivery == \A j \in Job : Places(j) <= 1

\* No result is lost: while the manager lives, the result of a finished job of the
\* current context is on its way, was injected, reported by a tool (or is about to be,
\* by an await that acknowledged it), or was given up after the last attempt or for a
\* full queue.  In particular the callback's silent return for a suppressed job never
\* discards a result nobody reports.
NothingLost ==
    disp.pc = "none" =>
        \A j \in Job : job[j] = "ended" /\ j \notin told \cup past \cup dropped =>
            \/ Places(j) = 1
            \/ \E c \in Caller : poll[c].tool = "report" /\ j \in poll[c].jobs

\* The delivery loop is awake: whenever some delivery is neither suppressed nor fenced,
\* the loop runs, or a tool call holds a watch whose removal will start it
\* (#ensureDeliveryLoop, unwatchJobs).
LoopIsAwake ==
    ~Disposed /\ Eligible(queue, acked, watched, fence) # {} =>
        loop.pc # "none" \/ \E c \in Caller : poll[c].watching \cap watched # {}

\* Dead letters name jobs that are still listed, each once, and no more than
\* MAX_DEAD_LETTERED_DELIVERIES of them.
DeadLettersListed ==
    Range(dead) \subseteq listed /\ IsInjective(dead) /\ Len(dead) <= MaxDead

Injected == {transcript'[i] : i \in DOMAIN transcript' \ DOMAIN transcript}

\* A result that a tool has reported is not injected afterwards: the acknowledgement
\* stops a queued delivery, an in-flight callback and a staged entry alike.
ReportedOnce == [][Injected \cap told = {}]_vars

\* Results of a cleared or replaced context are not injected into its successor.
StaysInContext == [][Injected \cap past = {}]_vars

\* Behind an owner's shutdown lease no delivery of that owner is sent.
FenceHoldsDeliveries == [][\A d \in flying' \ flying : OwnerOf[d.job] \notin fence']_vars

Accounted(j) == \/ j \in told \cup past \cup dropped \/ Contains(transcript, j) \/ Disposed

\* Every result is accounted for in the end: reported, injected, or given up.
DeliveryHappens == \A j \in Job : job[j] = "ended" ~> Accounted(j)

\* dispose() returns.
DisposeReturns == Disposed ~> disp.pc = "done"
=============================================================================
