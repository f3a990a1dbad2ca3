----------------------------- MODULE Semaphore -----------------------------
(* The counting semaphore of packages/coding-agent/src/task/parallel.ts and  *)
(* the background task bodies of task/index.ts that share one instance: a    *)
(* batch registers one job per task item, every body first acquires a slot,  *)
(* gives it straight back if its job was cancelled while it waited, and      *)
(* otherwise holds it until the subagent run ends.                           *)
(*                                                                           *)
(* JavaScript runs one synchronous block at a time, so each action is the    *)
(* code between two awaits.  A promise resolved by release() continues in a  *)
(* later microtask: that window is the state "admitted".                     *)
EXTENDS Integers, Sequences, FiniteSets

CONSTANTS Task,   \* the task items of one batch
          max     \* task.maxConcurrency, the constructor's argument

ASSUME TaskAssumption == IsFiniteSet(Task)
ASSUME MaxAssumption == max \in Int

VARIABLES current,   \* #current: slots handed out
          waiters,   \* #queue: tasks whose acquire() promise is pending
          body,      \* where each task body is
          aborted    \* runSignal.aborted of each task's job

semaphoreVars == <<current, waiters, body, aborted>>

\* #max = Math.max(1, max)
Slots == IF max > 1 THEN max ELSE 1

States == {"idle", "waiting", "admitted", "running", "done"}

\* The task bodies that own a slot: acquire() has resolved, release() has not run.
SlotHolders == {t \in Task : body[t] \in {"admitted", "running"}}

SemaphoreInit ==
    /\ current = 0
    /\ waiters = <<>>
    /\ body = [t \in Task |-> "idle"]
    /\ aborted = [t \in Task |-> FALSE]

-----------------------------------------------------------------------------
\* release() without the handover: the slot is freed and the waiter admitted too.
ReleaseDoubleCounts(t) ==
    /\ current' = current - 1
    /\ waiters' = IF waiters = <<>> THEN waiters ELSE Tail(waiters)
    /\ body' = [u \in Task |-> IF u = t THEN "done"
                             ELSE IF waiters # <<>> /\ u = Head(waiters) THEN "admitted"
                             ELSE body[u]]

\* release() that reads the first waiter without taking it off the queue.
ReleasePeeks(t) ==
    /\ current' = IF waiters = <<>> THEN current - 1 ELSE current
    /\ body' = IF waiters = <<>> THEN [body EXCEPT ![t] = "done"]
             ELSE [body EXCEPT ![t] = "done", ![Head(waiters)] = "admitted"]
    /\ UNCHANGED waiters

\* release() of task t: the slot passes to the longest waiting task, or is freed.
release(t) ==
    \/ /\ waiters # <<>>
       /\ waiters' = Tail(waiters)
       /\ body' = [body EXCEPT ![t] = "done", ![Head(waiters)] = "admitted"]
       /\ UNCHANGED current
    \/ /\ waiters = <<>>
       /\ current' = current - 1
       /\ body' = [body EXCEPT ![t] = "done"]
       /\ UNCHANGED waiters

\* acquire(): take a free slot at once, or queue the resolver.
acquire(t) ==
    /\ body[t] = "idle"
    /\ \/ /\ current < Slots
          /\ current' = current + 1
          /\ body' = [body EXCEPT ![t] = "admitted"]
          /\ UNCHANGED waiters
       \/ /\ current >= Slots
          /\ waiters' = Append(waiters, t)
          /\ body' = [body EXCEPT ![t] = "waiting"]
          /\ UNCHANGED current
    /\ UNCHANGED aborted

\* The job's abort signal fires; a queued acquire() does not observe it.
AbortJob(t) ==
    /\ body[t] \in {"waiting", "admitted", "running"} /\ ~aborted[t]
    /\ aborted' = [aborted EXCEPT ![t] = TRUE]
    /\ UNCHANGED <<current, waiters, body>>

\* Bug: the early exit of an aborted body forgets to give its slot back.
ResumeLeaksSlot(t) ==
    /\ body[t] = "admitted"
    /\ body' = [body EXCEPT ![t] = IF aborted[t] THEN "done" ELSE "running"]
    /\ UNCHANGED <<current, waiters, aborted>>

\* The body continues after `await semaphore.acquire()`: an aborted job gives
\* the slot back at once ("Aborted before execution"), any other starts running.
Resume(t) ==
    /\ body[t] = "admitted"
    /\ \/ aborted[t] /\ release(t)
       \/ /\ ~aborted[t]
          /\ body' = [body EXCEPT ![t] = "running"]
          /\ UNCHANGED <<current, waiters>>
    /\ UNCHANGED aborted

\* The subagent run ends, with a result or an error: `finally { release() }`.
Finish(t) ==
    /\ body[t] = "running"
    /\ release(t)
    /\ UNCHANGED aborted

Terminated == \A t \in Task : body[t] = "done"

SemaphoreNext ==
    \/ \E t \in Task : acquire(t) \/ AbortJob(t) \/ Resume(t) \/ Finish(t)
    \/ Terminated /\ UNCHANGED semaphoreVars

\* A started body reaches its acquire(), a resolved promise is continued by the
\* microtask queue, and a subagent run ends: it has a wall clock limit.
SemaphoreFairness ==
    \A t \in Task :
        /\ WF_semaphoreVars(acquire(t))
        /\ WF_semaphoreVars(Resume(t))
        /\ WF_semaphoreVars(Finish(t))

SemaphoreSpec == SemaphoreInit /\ [][SemaphoreNext]_semaphoreVars

FairSpec == SemaphoreSpec /\ SemaphoreFairness

-----------------------------------------------------------------------------
\* Shape of the state.
SemaphoreTypeOK ==
    /\ current \in 0..Slots
    /\ waiters \in Seq(Task)
    /\ body \in [Task -> States]
    /\ aborted \in [Task -> BOOLEAN]

\* The counter equals the number of slot owners across handovers, aborted bodies
\* and ordinary releases: no slot is leaked and none is given out twice.
SlotAccounting == current = Cardinality(SlotHolders)

\* At most Slots subagent runs of the batch execute at the same time.
ConcurrencyLimit == Cardinality({t \in Task : body[t] = "running"}) <= Slots

\* The queue holds exactly the bodies suspended in acquire(), each once: a
\* waiter is neither lost nor admitted twice.
QueueIsWaiters ==
    /\ \A t \in Task : body[t] = "waiting" <=> \E i \in 1..Len(waiters) : waiters[i] = t
    /\ \A i, j \in 1..Len(waiters) : waiters[i] = waiters[j] => i = j

\* A task waits only while every slot is taken (no slot idles beside a waiter).
WorkConserving == waiters # <<>> => current = Slots

\* The inductive form: across handovers, cancelled waiters and releases the counter is the
\* number of slot owners, the queue is exactly the bodies suspended in acquire(), and a
\* body waits only while every slot is taken.
SlotInv == SemaphoreTypeOK /\ SlotAccounting /\ QueueIsWaiters /\ WorkConserving

\* Every waiting body eventually gets a slot and ends, also when its job was
\* cancelled while it waited.
WaitersFinish == \A t \in Task : body[t] = "waiting" ~> body[t] = "done"
=============================================================================
