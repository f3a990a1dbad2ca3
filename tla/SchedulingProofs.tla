-------------------------- MODULE SchedulingProofs --------------------------
(* Scheduling inside a process: the slots of the task semaphore and the       *)
(* entries of the yield queue.                                                *)
EXTENDS Semaphore, YieldQueue, FiniteSetTheorems, SequenceTheorems, TLAPS

-----------------------------------------------------------------------------
(* Semaphore, for every set of tasks and every configured limit: the slots    *)
(* are accounted for exactly, so the concurrency limit is never exceeded and  *)
(* no task waits beside a free slot.                                          *)

LEMMA MaxPositive == Slots \in Nat /\ Slots >= 1
BY MaxAssumption DEF Slots

LEMMA HoldersFinite == IsFiniteSet(SlotHolders) /\ Cardinality(SlotHolders) \in Nat
<1>1. SlotHolders \in SUBSET Task
  BY DEF SlotHolders
<1> QED
  BY <1>1, TaskAssumption, FS_Subset, FS_CardinalityType

\* release() by a slot owner keeps the invariant: a handover moves the slot to
\* the head of the queue, a release without waiters returns it.
LEMMA ReleaseKeepsInvariant ==
    ASSUME SlotInv, NEW t \in SlotHolders, release(t), UNCHANGED aborted
    PROVE  SlotInv'
<1> USE DEF SlotInv
<1>t. t \in Task /\ body[t] \in {"admitted", "running"}
  BY DEF SlotHolders
<1>1. CASE waiters # <<>>
  <2> DEFINE h == Head(waiters)
  <2>1. /\ h \in Task /\ h = waiters[1] /\ Len(waiters) \in Nat /\ Len(waiters) >= 1
        /\ Tail(waiters) \in Seq(Task) /\ Len(Tail(waiters)) = Len(waiters) - 1
        /\ \A i \in 1..Len(Tail(waiters)) : Tail(waiters)[i] = waiters[i+1]
    BY <1>1, HeadTailProperties, LenProperties, EmptySeq DEF SemaphoreTypeOK
  <2>2. body[h] = "waiting" /\ h # t
    BY <2>1, <1>t DEF QueueIsWaiters
  <2>3. /\ waiters' = Tail(waiters) /\ current' = current
        /\ body' = [body EXCEPT ![t] = "done", ![h] = "admitted"]
    BY <1>1 DEF release
  <2>4. SemaphoreTypeOK'
    BY <2>1, <2>3, <1>t DEF SemaphoreTypeOK, States
  <2>5. SlotAccounting'
    <3>1. SlotHolders' = (SlotHolders \ {t}) \cup {h}
      BY <2>1, <2>2, <2>3, <1>t DEF SlotHolders, SemaphoreTypeOK
    <3>2. h \notin SlotHolders \ {t}
      BY <2>2 DEF SlotHolders
    <3>3. Cardinality(SlotHolders') = Cardinality(SlotHolders)
      <4>1. /\ IsFiniteSet(SlotHolders \ {t})
            /\ Cardinality(SlotHolders \ {t}) = Cardinality(SlotHolders) - 1
        BY HoldersFinite, FS_RemoveElement
      <4>2. Cardinality((SlotHolders \ {t}) \cup {h}) = Cardinality(SlotHolders \ {t}) + 1
        BY <4>1, <3>2, FS_AddElement
      <4> QED
        BY <4>1, <4>2, <3>1, HoldersFinite
    <3> QED
      BY <3>3, <2>3 DEF SlotAccounting
  <2>6. QueueIsWaiters'
    <3>1. \A i, j \in 1..Len(waiters') : waiters'[i] = waiters'[j] => i = j
      BY <2>1, <2>3 DEF QueueIsWaiters
    <3>2. ASSUME NEW u \in Task
          PROVE (body[u] = "waiting")' <=> \E i \in 1..Len(waiters') : waiters'[i] = u
      <4>1. CASE u = h
        BY <4>1, <2>1, <2>2, <2>3 DEF QueueIsWaiters, SemaphoreTypeOK
      <4>2. CASE u # h
        <5>1. (body[u] = "waiting")' <=> body[u] = "waiting"
          BY <4>2, <2>3, <1>t DEF SemaphoreTypeOK
        <5>2. (\E i \in 1..Len(waiters) : waiters[i] = u)
              <=> \E i \in 1..Len(waiters') : waiters'[i] = u
          <6>1. ASSUME NEW i \in 1..Len(waiters), waiters[i] = u
                PROVE \E j \in 1..Len(waiters') : waiters'[j] = u
            <7>1. i # 1 /\ i - 1 \in 1..Len(waiters')
              BY <6>1, <4>2, <2>1, <2>3
            <7>2. waiters'[i - 1] = u
              BY <7>1, <6>1, <2>1, <2>3
            <7> QED BY <7>1, <7>2
          <6>2. ASSUME NEW i \in 1..Len(waiters'), waiters'[i] = u
                PROVE \E j \in 1..Len(waiters) : waiters[j] = u
            BY <6>2, <2>1, <2>3
          <6> QED BY <6>1, <6>2
        <5> QED BY <5>1, <5>2 DEF QueueIsWaiters
      <4> QED BY <4>1, <4>2
    <3> QED BY <3>1, <3>2 DEF QueueIsWaiters
  <2>7. WorkConserving'
    BY <1>1, <2>3 DEF WorkConserving, Slots
  <2> QED BY <2>4, <2>5, <2>6, <2>7
<1>2. CASE waiters = <<>>
  <2>1. /\ waiters' = waiters /\ current' = current - 1
        /\ body' = [body EXCEPT ![t] = "done"]
    BY <1>2 DEF release
  <2>2. SlotAccounting' /\ current - 1 \in Nat
    <3>1. SlotHolders' = SlotHolders \ {t}
      BY <2>1, <1>t DEF SlotHolders, SemaphoreTypeOK
    <3>2. Cardinality(SlotHolders') = Cardinality(SlotHolders) - 1
      BY <3>1, HoldersFinite, FS_RemoveElement
    <3>3. Cardinality(SlotHolders) # 0
      BY HoldersFinite, FS_EmptySet
    <3> QED
      BY <3>2, <3>3, <2>1, HoldersFinite DEF SlotAccounting
  <2>3. SemaphoreTypeOK'
    BY <2>1, <2>2, <1>t, MaxPositive DEF SemaphoreTypeOK, States, Slots
  <2>4. QueueIsWaiters'
    BY <1>2, <2>1, <1>t DEF QueueIsWaiters, SemaphoreTypeOK
  <2>5. WorkConserving'
    BY <1>2, <2>1 DEF WorkConserving
  <2> QED BY <2>2, <2>3, <2>4, <2>5
<1> QED BY <1>1, <1>2

\* acquire() keeps the invariant: it either counts a new owner or queues a waiter.
LEMMA AcquireKeepsInvariant ==
    ASSUME SlotInv, NEW t \in Task, acquire(t)
    PROVE  SlotInv'
<1> USE DEF SlotInv
<1>1. body[t] = "idle" /\ aborted' = aborted
  BY DEF acquire
<1>2. CASE current < Slots
  <2>1. /\ current' = current + 1 /\ waiters' = waiters
        /\ body' = [body EXCEPT ![t] = "admitted"]
    BY <1>2, MaxPositive DEF acquire, SemaphoreTypeOK
  <2>2. SemaphoreTypeOK'
    BY <2>1, <1>1, <1>2, MaxPositive DEF SemaphoreTypeOK, States, Slots
  <2>3. SlotAccounting'
    <3>1. SlotHolders' = SlotHolders \cup {t} /\ t \notin SlotHolders
      BY <2>1, <1>1 DEF SlotHolders, SemaphoreTypeOK
    <3> QED
      BY <3>1, <2>1, HoldersFinite, FS_AddElement DEF SlotAccounting
  <2>4. waiters = <<>>
    BY <1>2, MaxPositive DEF WorkConserving, SemaphoreTypeOK
  <2>5. QueueIsWaiters' /\ WorkConserving'
    BY <2>1, <2>4, <1>1 DEF QueueIsWaiters, WorkConserving, SemaphoreTypeOK
  <2> QED BY <2>2, <2>3, <2>5
<1>3. CASE ~(current < Slots)
  <2>1. /\ waiters' = Append(waiters, t) /\ current' = current
        /\ body' = [body EXCEPT ![t] = "waiting"]
    BY <1>3, MaxPositive DEF acquire, SemaphoreTypeOK
  <2>2. /\ waiters' \in Seq(Task) /\ Len(waiters') = Len(waiters) + 1 /\ Len(waiters) \in Nat
        /\ \A i \in 1..Len(waiters) : waiters'[i] = waiters[i]
        /\ waiters'[Len(waiters) + 1] = t
    BY <2>1, AppendProperties, LenProperties DEF SemaphoreTypeOK
  <2>3. SemaphoreTypeOK'
    BY <2>1, <2>2, <1>1 DEF SemaphoreTypeOK, States, Slots
  <2>4. SlotAccounting'
    <3>1. SlotHolders' = SlotHolders
      BY <2>1, <1>1 DEF SlotHolders, SemaphoreTypeOK
    <3> QED BY <3>1, <2>1 DEF SlotAccounting
  <2>5. QueueIsWaiters'
    <3>1. \A i \in 1..Len(waiters) : waiters[i] # t
      BY <1>1 DEF QueueIsWaiters
    <3>2. \A i, j \in 1..Len(waiters') : waiters'[i] = waiters'[j] => i = j
      BY <3>1, <2>2 DEF QueueIsWaiters
    <3>3. ASSUME NEW u \in Task
          PROVE (body[u] = "waiting")' <=> \E i \in 1..Len(waiters') : waiters'[i] = u
      <4>1. CASE u = t
        BY <4>1, <2>1, <2>2 DEF SemaphoreTypeOK
      <4>2. CASE u # t
        BY <4>2, <2>1, <2>2 DEF QueueIsWaiters, SemaphoreTypeOK
      <4> QED BY <4>1, <4>2
    <3> QED BY <3>2, <3>3 DEF QueueIsWaiters
  <2>6. WorkConserving'
    BY <2>1, <1>3, MaxPositive DEF WorkConserving, SemaphoreTypeOK, Slots
  <2> QED BY <2>3, <2>4, <2>5, <2>6
<1> QED BY <1>2, <1>3

\* A step that only changes the abort flags, or starts an admitted body, moves
\* no slot.
LEMMA LocalStepKeepsInvariant ==
    ASSUME SlotInv, NEW t \in Task, current' = current, waiters' = waiters,
           \/ body' = body /\ aborted' \in [Task -> BOOLEAN]
           \/ /\ body[t] = "admitted" /\ body' = [body EXCEPT ![t] = "running"]
              /\ aborted' = aborted
    PROVE  SlotInv'
<1>1. SlotHolders' = SlotHolders
  BY DEF SlotHolders, SlotInv, SemaphoreTypeOK
<1> QED
  BY <1>1 DEF SlotInv, SemaphoreTypeOK, SlotAccounting, QueueIsWaiters, WorkConserving,
     States, Slots

\* The slot accounting of the task semaphore, for any batch and any limit.
THEOREM SlotsAreAccounted == SemaphoreSpec => []SlotInv
<1>1. SemaphoreInit => SlotInv
  <2> SUFFICES ASSUME SemaphoreInit PROVE SlotInv
    OBVIOUS
  <2>1. SlotHolders = {}
    BY DEF SemaphoreInit, SlotHolders
  <2> QED
    BY <2>1, FS_EmptySet, MaxPositive, EmptySeq
    DEF SemaphoreInit, SlotInv, SemaphoreTypeOK, SlotAccounting, QueueIsWaiters,
        WorkConserving, States
<1>2. SlotInv /\ [SemaphoreNext]_semaphoreVars => SlotInv'
  <2> SUFFICES ASSUME SlotInv, [SemaphoreNext]_semaphoreVars PROVE SlotInv'
    OBVIOUS
  <2>1. ASSUME NEW t \in Task, acquire(t) PROVE SlotInv'
    BY <2>1, AcquireKeepsInvariant
  <2>2. ASSUME NEW t \in Task, AbortJob(t) PROVE SlotInv'
    BY <2>2, LocalStepKeepsInvariant DEF AbortJob, SlotInv, SemaphoreTypeOK
  <2>3. ASSUME NEW t \in Task, Resume(t) PROVE SlotInv'
    <3>1. CASE aborted[t]
      BY <3>1, <2>3, ReleaseKeepsInvariant DEF Resume, SlotHolders
    <3>2. CASE ~aborted[t]
      BY <3>2, <2>3, LocalStepKeepsInvariant DEF Resume
    <3> QED BY <3>1, <3>2
  <2>4. ASSUME NEW t \in Task, Finish(t) PROVE SlotInv'
    BY <2>4, ReleaseKeepsInvariant DEF Finish, SlotHolders
  <2>5. CASE UNCHANGED semaphoreVars
    BY <2>5 DEF semaphoreVars, SlotInv, SemaphoreTypeOK, SlotAccounting, QueueIsWaiters,
       WorkConserving, SlotHolders, States, Slots
  <2> QED BY <2>1, <2>2, <2>3, <2>4, <2>5 DEF SemaphoreNext
<1> QED BY <1>1, <1>2, PTL DEF SemaphoreSpec

\* task.maxConcurrency holds for the subagent runs of a batch.
THEOREM LimitHolds == SemaphoreSpec => []ConcurrencyLimit
<1>1. SlotInv => ConcurrencyLimit
  <2> SUFFICES ASSUME SlotInv PROVE ConcurrencyLimit
    OBVIOUS
  <2> DEFINE R == {t \in Task : body[t] = "running"}
  <2>1. R \in SUBSET SlotHolders
    BY DEF SlotHolders
  <2>2. Cardinality(R) <= Cardinality(SlotHolders) /\ Cardinality(R) \in Nat
    BY <2>1, HoldersFinite, FS_Subset, FS_CardinalityType
  <2> QED
    BY <2>2, MaxPositive, HoldersFinite
    DEF SlotInv, SemaphoreTypeOK, SlotAccounting, ConcurrencyLimit
<1> QED BY <1>1, SlotsAreAccounted, PTL

\* release() hands a slot on or gives it back, never both or neither: as many slots are
\* taken as there are bodies that hold one.
THEOREM SlotsMatchHolders == SemaphoreSpec => []SlotAccounting
<1>1. SlotInv => SlotAccounting
  BY DEF SlotInv
<1> QED BY <1>1, SlotsAreAccounted, PTL

\* #queue: every waiting body is in the queue once, and no other.
THEOREM QueueHoldsWaiters == SemaphoreSpec => []QueueIsWaiters
<1>1. SlotInv => QueueIsWaiters
  BY DEF SlotInv
<1> QED BY <1>1, SlotsAreAccounted, PTL

\* acquire(), release(): a body waits only while all slots are taken.
THEOREM NoIdleSlot == SemaphoreSpec => []WorkConserving
<1>1. SlotInv => WorkConserving
  BY DEF SlotInv
<1> QED BY <1>1, SlotsAreAccounted, PTL

-----------------------------------------------------------------------------
(* YieldQueue, for any number of entries and any events.                     *)

\* No turn runs while a handoff holds the fence.
HandoffIdle == op = "handoff" => phase # "turn"

\* handoff() begins between turns, and neither a prompt nor a flush starts one under it.
LEMMA HandoffIdleAlways == YieldInit /\ [][YieldNext]_yieldVars => []HandoffIdle
<1>1. YieldInit => HandoffIdle
  BY DEF YieldInit, HandoffIdle
<1>2. HandoffIdle /\ [YieldNext]_yieldVars => HandoffIdle'
  <2> SUFFICES ASSUME HandoffIdle, [YieldNext]_yieldVars PROVE HandoffIdle'
    OBVIOUS
  <2> USE DEF HandoffIdle
  <2>1. ASSUME NEW k \in Range(Kinds), enqueue(k) PROVE HandoffIdle'
    BY <2>1 DEF enqueue
  <2>2. ASSUME NEW e \in Entry, Report(e) PROVE HandoffIdle'
    BY <2>2 DEF Report
  <2>3. CASE Prompt
    BY <2>3 DEF Prompt
  <2>4. CASE Yield
    BY <2>4 DEF Yield
  <2>5. CASE Settles
    BY <2>5 DEF Settles
  <2>6. CASE Fails
    BY <2>6 DEF Fails
  <2>7. CASE Abort
    BY <2>7 DEF Abort
  <2>8. CASE FlushTask
    BY <2>8 DEF FlushTask, Streaming
  <2>9. CASE ClearBegins
    BY <2>9 DEF ClearBegins
  <2>10. CASE clear
    BY <2>10 DEF clear
  <2>11. CASE HandoffBegins
    BY <2>11 DEF HandoffBegins
  <2>12. CASE HandoffCommits
    BY <2>12 DEF HandoffCommits
  <2>13. CASE HandoffEnds
    BY <2>13 DEF HandoffEnds
  <2>14. CASE UNCHANGED yieldVars
    BY <2>14 DEF yieldVars
  <2> QED
    BY <2>1, <2>2, <2>3, <2>4, <2>5, <2>6, <2>7, <2>8, <2>9, <2>10, <2>11, <2>12, <2>13,
       <2>14 DEF YieldNext
<1>3. QED
  BY <1>1, <1>2, PTL

\* handoff(): while it holds the fence nothing is handed to the agent, by no yield and by
\* no idle flush, whenever that was scheduled.
THEOREM NothingHandedOver == YieldSpec => HandoffStartsNoTurn
<1>1. HandoffIdle /\ [YieldNext]_yieldVars => [op = "handoff" => given' = given]_yieldVars
  <2> SUFFICES ASSUME HandoffIdle, YieldNext, op = "handoff" PROVE given' = given
    BY DEF yieldVars, yieldHist
  <2>1. phase # "turn" /\ Streaming
    BY DEF HandoffIdle, Streaming
  <2> QED
    BY <2>1 DEF YieldNext, enqueue, Report, yieldHist, Prompt, Yield, Settles, Fails, Abort,
       FlushTask, ClearBegins, clear, HandoffBegins, HandoffCommits, HandoffEnds
<1>2. QED
  BY <1>1, HandoffIdleAlways, PTL DEF YieldSpec, HandoffStartsNoTurn
=============================================================================
