---------------------- MODULE SubagentCapacityProofs ----------------------
(* Proofs about the running limit of SubagentControl: no more runs than the   *)
(* limit, a queued resume waits only for capacity, and capacity is handed out *)
(* in the order of the queue.                                                 *)
EXTENDS SubagentQueueProofs, FiniteSetTheorems

-----------------------------------------------------------------------------
(* The first of a queue.                                                    *)

\* The subagents of S before s in the queue.
Before(S, s) == {t \in S : seq[t] < seq[s]}

LEMMA BeforeFinite ==
    ASSUME NEW S \in SUBSET Subagent, NEW s
    PROVE  IsFiniteSet(Before(S, s)) /\ Cardinality(Before(S, s)) \in Nat
<1>1. Before(S, s) \in SUBSET Subagent
  BY DEF Before
<1> QED BY <1>1, SubagentAssumption, FS_Subset, FS_CardinalityType

\* An earlier subagent has fewer before it.
LEMMA BeforeOrdered ==
    ASSUME seq \in [Subagent -> Nat], NEW S \in SUBSET Subagent, NEW s \in S, NEW t \in S,
           seq[s] < seq[t]
    PROVE  Cardinality(Before(S, s)) < Cardinality(Before(S, t))
<1>1. Before(S, s) \in SUBSET Before(S, t)
  BY DEF Before
<1>2. s \in Before(S, t) /\ s \notin Before(S, s)
  BY DEF Before
<1> QED BY <1>1, <1>2, BeforeFinite, FS_Subset

\* FirstOf takes at most as many as it is told to.
LEMMA FirstOfBound ==
    ASSUME seq \in [Subagent -> Nat], NEW S \in SUBSET Subagent,
           \A s, t \in S : seq[s] = seq[t] => s = t, NEW n \in Nat
    PROVE  IsFiniteSet(FirstOf(S, n)) /\ Cardinality(FirstOf(S, n)) <= n
<1> DEFINE F == FirstOf(S, n)
           rank == [s \in F |-> Cardinality(Before(S, s))]
<1>1. F \subseteq S /\ \A s \in F : rank[s] < n
  BY DEF FirstOf, Before
<1>2. rank \in [F -> 0..(n - 1)]
  BY <1>1, BeforeFinite
<1>3. \A s, t \in F : rank[s] = rank[t] => s = t
  <2> SUFFICES ASSUME NEW s \in F, NEW t \in F, s # t PROVE rank[s] # rank[t]
    OBVIOUS
  <2>1. seq[s] \in Nat /\ seq[t] \in Nat /\ seq[s] # seq[t] /\ s \in S /\ t \in S
    BY <1>1
  <2>2. CASE seq[s] < seq[t]
    BY <2>1, <2>2, BeforeOrdered, BeforeFinite
  <2>3. CASE seq[t] < seq[s]
    BY <2>1, <2>3, BeforeOrdered, BeforeFinite
  <2> QED BY <2>1, <2>2, <2>3
<1> HIDE DEF F, rank
<1>4. rank \in Injection(F, 0..(n - 1))
  BY <1>2, <1>3 DEF Injection, IsInjective
<1>5. IsFiniteSet(0..(n - 1)) /\ Cardinality(0..(n - 1)) = n
  BY FS_Interval
<1>6. IsFiniteSet(F) /\ Cardinality(F) <= n
  BY <1>4, <1>5, FS_Injection
<1> QED BY <1>6 DEF F

\* FirstOf takes none when no slot is free.
LEMMA FirstOfNone ==
    ASSUME NEW S \in SUBSET Subagent, NEW n \in Int, n <= 0
    PROVE  FirstOf(S, n) = {}
<1>1. \A s \in S : ~(Cardinality({t \in S : seq[t] < seq[s]}) < n)
  BY BeforeFinite DEF Before
<1> QED BY <1>1 DEF FirstOf

\* FirstOf takes one when a slot is free.
LEMMA FirstOfSome ==
    ASSUME seq \in [Subagent -> Nat], NEW S \in SUBSET Subagent, S # {}, NEW n \in Nat, n > 0
    PROVE  FirstOf(S, n) # {}
<1> DEFINE P == {Before(S, s) : s \in S}
<1>1. P \subseteq FiniteSubsetsOf(Subagent) /\ P # {}
  BY BeforeFinite, Zenon DEF FiniteSubsetsOf, Before
<1>2. \E x \in P : \A y \in P : ~(<<y, x>> \in StrictSubsetOrdering(Subagent))
  BY <1>1, FS_StrictSubsetOrderingWellFounded, WFMin, Zenon
<1>3. PICK s \in S : \A t \in S : ~(<<Before(S, t), Before(S, s)>> \in StrictSubsetOrdering(Subagent))
  BY <1>2
<1>4. Before(S, s) = {}
  <2> SUFFICES ASSUME NEW t \in Before(S, s) PROVE FALSE
    OBVIOUS
  <2>1. t \in S /\ t \notin Before(S, t) /\ Before(S, t) \subseteq Before(S, s)
    BY DEF Before
  <2>2. Before(S, t) \in SUBSET Subagent /\ Before(S, s) \in SUBSET Subagent
    BY DEF Before
  <2> QED BY <2>1, <2>2, <1>3, Zenon DEF StrictSubsetOrdering
<1> QED BY <1>4, FS_EmptySet DEF FirstOf, Before

-----------------------------------------------------------------------------
(* The inductive invariant.                                                 *)

\* A run that counts against the limit has not settled.
RunningIsAlive(st, al) == \A j \in Job : st[j] = "running" => j \in al

\* From the proof on, a shutdown leaves the owner no queued record.
QueueEmptied(o) ==
    lease[o].phase \notin {"none", "active"} => \A s \in Owned(o) : rec[s] # "queued"

\* The inductive invariant of the running limit and of the waiting resumes.
CapacityInv ==
    /\ QInv
    /\ RunningIsAlive(status, alive)
    /\ RunningLimit
    /\ \A o \in Owner : QueueEmptied(o)
    /\ ~EarlyFailure => QueuedWaitsForCapacity

FifoStep ==
    \A s, t \in Subagent :
        /\ rec[s] = "queued" /\ rec[t] = "queued" /\ seq[s] < seq[t]
        /\ rec'[t] = "running" /\ ~Fenced(OwnerOf[s])
        => rec'[s] # "queued"

\* What a step must keep, and how it must serve the queue.
CapacityStep ==
    /\ RunningIsAlive(status', alive')
    /\ RunningLimit'
    /\ ~EarlyFailure => QueuedWaitsForCapacity'
    /\ FifoStep
    /\ \A s \in Subagent : rec'[s] = "queued" /\ Fenced(OwnerOf[s]) => rec[s] = "queued"

\* Where a handler stands when it drains the queue with free slots.
Draining(st, al, ls, rc, q, free) ==
    /\ ls \subseteq Job /\ free \in Int
    /\ \A s \in Subagent : /\ q[s] \in {0, seq[s]}
                           /\ rec[s] = "queued" => rc[s] # "running"
                           /\ rc[s] = "queued" => rec[s] = "queued"
    /\ RunningIsAlive(st, al)
    /\ Cardinality(Running(st, ls)) <= MaxRunning
    /\ free <= MaxRunning - Cardinality(Running(st, ls))
    /\ free = MaxRunning - Cardinality(Running(st, ls)) \/ al = alive

\* Sets of jobs are finite.
LEMMA JobsFinite ==
    ASSUME NEW X \in SUBSET Job
    PROVE  IsFiniteSet(X) /\ Cardinality(X) \in Nat
<1>1. IsFiniteSet(Job)
  BY BoundAssumption, FS_Interval DEF Job
<1> QED BY <1>1, FS_Subset, FS_CardinalityType

\* A handler that starts no more runs than there are free slots keeps the limit.
LEMMA StartKeepsLimit ==
    ASSUME NEW T, IsFiniteSet(T), NEW st, NEW al, NEW ls \in SUBSET Job, NEW rc, NEW q,
           StartRuns(T, st, al, ls, rc, q),
           Cardinality(Running(st, ls)) + Cardinality(T) <= MaxRunning
    PROVE  RunningLimit'
<1>1. PICK num \in Numberings(T) :
        /\ status' = [j \in Job |-> IF j \in Range(num) THEN "running" ELSE st[j]]
        /\ listed' = ls \cup Range(num)
  BY DEF StartRuns
<1> DEFINE A == Running(st, ls)
           R == Range(num)
<1>0. num \in [T -> Fresh]
  BY DEF Numberings
<1>2. A \in SUBSET Job /\ R \in SUBSET Job /\ Running(status', listed') \in SUBSET (A \cup R)
  BY <1>0, <1>1 DEF Running, Range, Fresh
<1>3. num \in Surjection(T, R)
  BY <1>0 DEF Surjection, Range
<1>4. Cardinality(R) <= Cardinality(T) /\ Cardinality(T) \in Nat
  BY <1>3, FS_Surjection, FS_CardinalityType
<1>5. /\ IsFiniteSet(A) /\ IsFiniteSet(R) /\ Cardinality(A) \in Nat /\ Cardinality(R) \in Nat
      /\ Cardinality(A \cap R) \in Nat
  BY <1>2, JobsFinite
<1> HIDE DEF A, R
<1>6. /\ IsFiniteSet(A \cup R) /\ Cardinality(A \cup R) \in Nat
      /\ Cardinality(A \cup R) <= Cardinality(A) + Cardinality(R)
  <2>1. /\ IsFiniteSet(A \cup R)
        /\ Cardinality(A \cup R) = Cardinality(A) + Cardinality(R) - Cardinality(A \cap R)
    BY <1>5, FS_Union
  <2>2. Cardinality(A \cup R) \in Nat
    BY <2>1, FS_CardinalityType
  <2> QED BY <2>1, <2>2, <1>5
<1>7. Cardinality(Running(status', listed')) <= Cardinality(A \cup R)
      /\ Cardinality(Running(status', listed')) \in Nat
  BY <1>2, <1>6, FS_Subset, FS_CardinalityType
<1>8. Cardinality(A) + Cardinality(T) <= MaxRunning
  BY DEF A
<1>9. Cardinality(Running(status', listed')) <= MaxRunning
  BY <1>4, <1>5, <1>6, <1>7, <1>8, BoundAssumption
<1> QED BY <1>9 DEF RunningLimit, Running

\* The entries a drain looks at.
Waiting(rc, q) == {s \in Subagent : q[s] # 0 /\ rc[s] = "queued" /\ ~Fenced(OwnerOf[s])}

\* A drain starts no more runs than there are free slots.
LEMMA DrainKeepsLimit ==
    ASSUME QInv, NEW st, NEW al, NEW ls, NEW rc, NEW q, NEW free,
           Draining(st, al, ls, rc, q, free),
           StartRuns(Startable(rc, q, free), st, al, ls, rc, q)
    PROVE  RunningLimit'
<1> DEFINE S == Waiting(rc, q)
           n == MaxRunning - Cardinality(Running(st, ls))
           T == Startable(rc, q, free)
<1>1. seq \in [Subagent -> Nat] /\ QueueInv(rec, seq)
  BY DEF QInv, ShutdownInv, IInv, RestTypes
<1>2. S \in SUBSET Subagent /\ \A s, t \in S : seq[s] = seq[t] => s = t
  BY <1>1 DEF Waiting, QueueInv, Draining
<1>3. T = FirstOf(S, free)
  BY DEF Startable, Waiting
<1>4. ls \in SUBSET Job /\ free \in Int /\ n \in Nat /\ free <= n
      /\ Cardinality(Running(st, ls)) \in Nat
  <2>1. ls \in SUBSET Job /\ Running(st, ls) \in SUBSET Job
    BY DEF Draining, Running
  <2>2. Cardinality(Running(st, ls)) \in Nat
    BY <2>1, JobsFinite
  <2> QED BY <2>1, <2>2, BoundAssumption DEF Draining
<1>5. IsFiniteSet(T) /\ Cardinality(T) <= n
  <2>1. CASE free <= 0
    <3>1. T = {}
      BY <2>1, <1>2, <1>3, <1>4, FirstOfNone
    <3> QED BY <3>1, <1>4, FS_EmptySet
  <2>2. CASE free > 0
    <3>1. free \in Nat
      BY <2>2, <1>4
    <3>2. IsFiniteSet(T) /\ Cardinality(T) <= free /\ Cardinality(T) \in Nat
      BY <3>1, <1>1, <1>2, <1>3, FirstOfBound, FS_CardinalityType
    <3> QED BY <3>2, <1>4
  <2> QED BY <2>1, <2>2, <1>4
<1>6. Cardinality(T) \in Nat
  BY <1>5, FS_CardinalityType
<1>7. Cardinality(Running(st, ls)) + Cardinality(T) <= MaxRunning
  BY <1>4, <1>5, <1>6, BoundAssumption
<1> HIDE DEF T, n, S
<1>8. StartRuns(T, st, al, ls, rc, q)
  BY DEF T
<1> QED BY <1>4, <1>5, <1>7, <1>8, StartKeepsLimit

\* A drain serves the queue: it leaves an entry waiting only beside a live run, and
\* only behind those it starts.
LEMMA DrainServes ==
    ASSUME QInv, QueueInv(rec', seq'), ~EarlyFailure => QueuedWaitsForCapacity,
           NEW st, NEW al, NEW ls, NEW rc, NEW q, NEW free,
           Draining(st, al, ls, rc, q, free),
           StartRuns(Startable(rc, q, free), st, al, ls, rc, q),
           \A s \in Subagent : Fenced(OwnerOf[s])' <=> Fenced(OwnerOf[s])
    PROVE  CapacityStep
<1> DEFINE S == Waiting(rc, q)
           T == Startable(rc, q, free)
<1>1. seq \in [Subagent -> Nat] /\ QueueInv(rec, seq)
  BY DEF QInv, ShutdownInv, IInv, RestTypes
<1>2. S \in SUBSET Subagent /\ T = FirstOf(S, free) /\ ls \in SUBSET Job /\ free \in Int
  BY DEF Waiting, Startable, Draining
<1>3. PICK num \in Numberings(T) :
        /\ status' = [j \in Job |-> IF j \in Range(num) THEN "running" ELSE st[j]]
        /\ alive' = al \cup Range(num)
        /\ rec' = [s \in Subagent |-> IF s \in T THEN "running" ELSE rc[s]]
        /\ seq' = [s \in Subagent |-> IF s \in T THEN 0 ELSE q[s]]
  BY DEF StartRuns
<1>4. RunningIsAlive(status', alive')
  BY <1>3 DEF Draining, RunningIsAlive
<1>5. RunningLimit'
  BY DrainKeepsLimit
<1>6. \A s \in Subagent : rec'[s] = "queued"
                            => s \notin T /\ rc[s] = "queued" /\ q[s] # 0 /\ rec[s] = "queued"
  BY <1>3 DEF QueueInv, Draining
<1>7. ASSUME ~EarlyFailure, NEW s \in Subagent, rec'[s] = "queued", ~Fenced(OwnerOf[s])
      PROVE  alive' # {}
  <2>1. s \in S
    BY <1>6, <1>7 DEF Waiting
  <2>2. CASE free = MaxRunning - Cardinality(Running(st, ls)) /\ free > 0
    <3>1. T # {}
      BY <2>1, <2>2, <1>1, <1>2, FirstOfSome
    <3> QED BY <3>1, <1>3 DEF Range, Numberings
  <2>3. CASE free = MaxRunning - Cardinality(Running(st, ls)) /\ free <= 0
    <3>1. Running(st, ls) # {}
      BY <2>3, FS_EmptySet, BoundAssumption
    <3>2. Running(st, ls) \subseteq al
      BY <1>2 DEF Draining, RunningIsAlive, Running
    <3> QED BY <3>1, <3>2, <1>3
  <2>4. CASE al = alive
    <3>1. alive # {}
      BY <2>4, <1>6, <1>7 DEF QueuedWaitsForCapacity
    <3> QED BY <3>1, <2>4, <1>3
  <2> QED BY <2>2, <2>3, <2>4, <1>2 DEF Draining
<1>8. ~EarlyFailure => QueuedWaitsForCapacity'
  BY <1>7 DEF QueuedWaitsForCapacity
<1>9. FifoStep
  <2> SUFFICES ASSUME NEW s \in Subagent, NEW t \in Subagent, rec[t] = "queued",
                      seq[s] < seq[t], rec'[t] = "running", ~Fenced(OwnerOf[s]),
                      rec'[s] = "queued"
               PROVE  FALSE
    BY DEF FifoStep
  <2>1. s \in S /\ s \notin T
    BY <1>6 DEF Waiting
  <2>2. t \in T /\ t \in S
    BY <1>3, <1>2 DEF Draining, FirstOf
  <2>3. Cardinality(Before(S, s)) < Cardinality(Before(S, t))
    BY <2>1, <2>2, <1>1, <1>2, BeforeOrdered
  <2>4. Cardinality(Before(S, t)) < free
    BY <2>2, <1>2 DEF FirstOf, Before
  <2>5. Cardinality(Before(S, s)) < free
    BY <2>3, <2>4, <1>2, BeforeFinite
  <2> QED BY <2>1, <2>5, <1>2 DEF FirstOf, Before
<1> QED BY <1>4, <1>5, <1>6, <1>8, <1>9 DEF CapacityStep

-----------------------------------------------------------------------------
(* What a step does to the limit and the queue.                             *)

\* A step that starts nothing, queues nothing and lifts no fence over a queued record.
LEMMA QuietServes ==
    ASSUME CapacityInv, alive' = alive, listed' \subseteq listed,
           \A j \in Job : status'[j] = "running" => status[j] = "running",
           \A s \in Subagent : rec[s] = "queued" => rec'[s] # "running",
           \A s \in Subagent : rec'[s] = "queued" => rec[s] = "queued",
           \A s \in Subagent : rec'[s] = "queued" /\ ~EarlyFailure /\ Fenced(OwnerOf[s])
                                 => Fenced(OwnerOf[s])'
    PROVE  CapacityStep
<1>1. listed \in SUBSET Job /\ Running(status, listed) \in SUBSET Job
  BY DEF CapacityInv, QInv, ShutdownInv, IInv, CoreInv, Core, CoreTypes, Running
<1>2. Running(status', listed') \in SUBSET Running(status, listed)
  BY <1>1 DEF Running
<1>3. Cardinality(Running(status', listed')) <= Cardinality(Running(status, listed))
      /\ Cardinality(Running(status, listed)) \in Nat
      /\ Cardinality(Running(status', listed')) \in Nat
  BY <1>1, <1>2, JobsFinite, FS_Subset, FS_CardinalityType
<1>4. RunningLimit'
  BY <1>3, BoundAssumption DEF RunningLimit, CapacityInv, Running
<1>5. RunningIsAlive(status', alive')
  BY DEF RunningIsAlive, CapacityInv
<1>6. ~EarlyFailure => QueuedWaitsForCapacity'
  BY DEF QueuedWaitsForCapacity, CapacityInv
<1>7. FifoStep
  BY DEF FifoStep
<1> QED BY <1>4, <1>5, <1>6, <1>7 DEF CapacityStep

\* A run started below the limit, for a record that is not queued or for none.
LEMMA OneMoreServes ==
    ASSUME CapacityInv, Cardinality(Running(status, listed)) < MaxRunning, lease' = lease,
           NEW s \in Subagent, rec[s] # "queued",
           StartRuns({s}, status, alive, listed, rec, seq)
    PROVE  CapacityStep
<1>1. listed \in SUBSET Job /\ Running(status, listed) \in SUBSET Job
  BY DEF CapacityInv, QInv, ShutdownInv, IInv, CoreInv, Core, CoreTypes, Running
<1>2. RunningLimit'
  <2>1. IsFiniteSet({s}) /\ Cardinality({s}) = 1 /\ Cardinality(Running(status, listed)) \in Nat
    BY <1>1, JobsFinite, FS_Singleton, Zenon
  <2>2. Cardinality(Running(status, listed)) + Cardinality({s}) <= MaxRunning
    BY <2>1, BoundAssumption
  <2> QED BY <1>1, <2>1, <2>2, StartKeepsLimit
<1>3. PICK num \in Numberings({s}) :
        /\ status' = [j \in Job |-> IF j \in Range(num) THEN "running" ELSE status[j]]
        /\ alive' = alive \cup Range(num)
        /\ rec' = [t \in Subagent |-> IF t \in {s} THEN "running" ELSE rec[t]]
  BY DEF StartRuns
<1>4. RunningIsAlive(status', alive')
  BY <1>3 DEF CapacityInv, RunningIsAlive
<1>5. ~EarlyFailure => QueuedWaitsForCapacity'
  BY <1>3 DEF CapacityInv, QueuedWaitsForCapacity, Fenced
<1>6. FifoStep
  BY <1>3 DEF FifoStep
<1>7. \A t \in Subagent : rec'[t] = "queued" => rec[t] = "queued"
  BY <1>3
<1> QED BY <1>2, <1>4, <1>5, <1>6, <1>7 DEF CapacityStep

\* The running jobs of a table that cancels some and registers none.
LEMMA FewerRunning ==
    ASSUME CapacityInv, NEW st, NEW ls \in SUBSET listed,
           \A j \in Job : st[j] = "running" => status[j] = "running"
    PROVE  /\ ls \subseteq Job
           /\ Cardinality(Running(st, ls)) \in Nat
           /\ Cardinality(Running(st, ls)) <= MaxRunning
<1>1. listed \in SUBSET Job /\ Running(status, listed) \in SUBSET Job
  BY DEF CapacityInv, QInv, ShutdownInv, IInv, CoreInv, Core, CoreTypes, Running
<1>2. Running(st, ls) \in SUBSET Running(status, listed)
  BY <1>1 DEF Running
<1>3. Cardinality(Running(st, ls)) <= Cardinality(Running(status, listed))
      /\ Cardinality(Running(status, listed)) \in Nat
      /\ Cardinality(Running(st, ls)) \in Nat
  BY <1>1, <1>2, JobsFinite, FS_Subset, FS_CardinalityType
<1>4. Cardinality(Running(status, listed)) <= MaxRunning
  BY DEF CapacityInv, RunningLimit
<1> QED BY <1>1, <1>3, <1>4, BoundAssumption

\* A handler that ends one run or none and then drains the queue.
LEMMA DrainStep ==
    ASSUME CapacityInv, QueueInv(rec', seq'), lease' = lease,
           NEW st, NEW al, NEW ls \in SUBSET listed, NEW rc,
           \A j \in Job : st[j] = "running" => status[j] = "running" /\ (j \in alive => j \in al),
           \A s \in Subagent : /\ rec[s] = "queued" => rc[s] # "running"
                               /\ rc[s] = "queued" => rec[s] = "queued",
           Drain(st, al, ls, rc, seq)
    PROVE  CapacityStep
<1> DEFINE free == MaxRunning - Cardinality(Running(st, ls))
<1>1. /\ ls \subseteq Job /\ Cardinality(Running(st, ls)) \in Nat
      /\ Cardinality(Running(st, ls)) <= MaxRunning
  BY FewerRunning, Zenon
<1>2. RunningIsAlive(st, al)
  BY DEF CapacityInv, RunningIsAlive
<1>3. Draining(st, al, ls, rc, seq, free)
  BY <1>1, <1>2, BoundAssumption DEF Draining
<1>4. StartRuns(Startable(rc, seq, free), st, al, ls, rc, seq)
  BY DEF Drain
<1>5. \A s \in Subagent : Fenced(OwnerOf[s])' <=> Fenced(OwnerOf[s])
  BY DEF Fenced
<1>6. QInv /\ (~EarlyFailure => QueuedWaitsForCapacity)
  BY DEF CapacityInv
<1> HIDE DEF free
<1> QED BY <1>3, <1>4, <1>5, <1>6, DrainServes

\* A batch of cancellations frees the slots of the runs it aborts, and its last drain
\* finds no more than those.
LEMMA BatchServes ==
    ASSUME CapacityInv, QueueInv(rec', seq'), NEW J, NEW S, CancelBatch(J, S),
           \A s \in Subagent : Fenced(OwnerOf[s])' <=> Fenced(OwnerOf[s])
    PROVE  CapacityStep
<1> DEFINE stopped == {j \in J \cap listed : status[j] = "paused"}
           aborted == {j \in J \cap listed : status[j] = "running"}
           st == [j \in Job |-> IF j \in stopped \cup aborted THEN "cancelled" ELSE status[j]]
           rc == [s \in Subagent |->
                    IF cur[s] \in stopped \/ (s \in S /\ rec[s] \in {"paused", "queued"})
                    THEN "cancelled" ELSE rec[s]]
           q == [s \in Subagent |-> IF s \in S THEN 0 ELSE seq[s]]
           ls == Unlisted(stopped)
           before == MaxRunning - Cardinality(Running(status, listed))
           after == before + Cardinality(aborted)
<1>1. PICK free \in (IF stopped = {} THEN {0} ELSE before..after) :
        StartRuns(Startable(rc, q, free), st, alive, ls, rc, q)
  BY Zenon DEF CancelBatch
<1>2. ls \in SUBSET listed /\ \A j \in Job : st[j] = "running" => status[j] = "running"
  BY DEF Unlisted
<1>3. listed \in SUBSET Job /\ Running(status, listed) \in SUBSET Job /\ aborted \in SUBSET Job
      /\ aborted \subseteq Running(status, listed)
      /\ Running(st, ls) \in SUBSET (Running(status, listed) \ aborted)
  <2>1. listed \in SUBSET Job
    BY DEF CapacityInv, QInv, ShutdownInv, IInv, CoreInv, Core, CoreTypes
  <2> QED BY <2>1, <1>2 DEF Running
<1>4. RunningIsAlive(st, alive)
  BY <1>2 DEF CapacityInv, RunningIsAlive
<1>5. \A s \in Subagent : /\ q[s] \in {0, seq[s]} /\ (rec[s] = "queued" => rc[s] # "running")
                          /\ rc[s] = "queued" => rec[s] = "queued"
  OBVIOUS
<1>6. /\ ls \subseteq Job /\ Cardinality(Running(st, ls)) \in Nat
      /\ Cardinality(Running(st, ls)) <= MaxRunning
  BY <1>2, FewerRunning
<1> HIDE DEF st, rc, q, ls, aborted, stopped
<1>7. /\ Cardinality(Running(status, listed)) \in Nat /\ Cardinality(aborted) \in Nat
      /\ Cardinality(Running(st, ls))
           <= Cardinality(Running(status, listed)) - Cardinality(aborted)
  <2> DEFINE A == Running(status, listed)
  <2>1. /\ IsFiniteSet(A) /\ IsFiniteSet(aborted) /\ Cardinality(A) \in Nat
        /\ Cardinality(aborted) \in Nat
    BY <1>3, JobsFinite
  <2>2. A \cap aborted = aborted
    BY <1>3
  <2>3. IsFiniteSet(A \ aborted)
        /\ Cardinality(A \ aborted) = Cardinality(A) - Cardinality(A \cap aborted)
    BY <2>1, FS_Difference, Zenon
  <2>4. Cardinality(Running(st, ls)) <= Cardinality(A \ aborted)
    BY <1>3, <2>3, FS_Subset
  <2> QED BY <2>1, <2>2, <2>3, <2>4, Zenon
<1>8. free \in Int /\ free <= MaxRunning - Cardinality(Running(st, ls))
  BY <1>1, <1>6, <1>7, BoundAssumption
<1>9. Draining(st, alive, ls, rc, q, free)
  BY <1>4, <1>5, <1>6, <1>8 DEF Draining
<1>10. QInv /\ (~EarlyFailure => QueuedWaitsForCapacity)
  BY DEF CapacityInv
<1> QED BY <1>1, <1>9, <1>10, DrainServes

-----------------------------------------------------------------------------
(* Every action, and the theorems.                                          *)

\* Every step keeps the running limit, leaves no resume waiting without cause and
\* serves the queue in order.
LEMMA NextCapacity ==
    ASSUME CapacityInv, [Next]_vars
    PROVE  CapacityStep
<1> USE ScopeAssumption
<1>0. /\ QueueInv(rec', seq') /\ alive \subseteq Job /\ listed \subseteq Job
      /\ status \in [Job -> JobStatus] /\ rec \in [Subagent -> RecStatus]
      /\ cur \in [Subagent -> Job \cup {NoJob}] /\ lease \in [Owner -> LeaseType]
  BY NextQueueInv DEF CapacityInv, QInv, ShutdownInv, IInv, CoreInv, Core, CoreTypes, RestTypes
<1>s. \A s \in Subagent : OwnerOf[s] \in Owner
  BY OwnerAssumption
<1>1. ASSUME NEW s \in Subagent, Launch(s) PROVE CapacityStep
  BY <1>1, OneMoreServes DEF Launch, CanRegister
<1>2. ASSUME NEW s \in Subagent, resumeSubagent(s) PROVE CapacityStep
  <2>1. rec[s] # "queued" /\ lease' = lease /\ ~Fenced(OwnerOf[s])
    BY <1>2, Zenon DEF resumeSubagent, Terminal
  <2>2. Cardinality(Running(status, listed)) \in Nat
    BY <1>0, JobsFinite DEF Running
  <2>3. CASE Cardinality(Running(status, listed)) >= MaxRunning
    <3>1. /\ rec' = [rec EXCEPT ![s] = "queued"] /\ status' = status /\ listed' = listed
          /\ alive' = alive
      BY <1>2, <2>3 DEF resumeSubagent, jobVars
    <3>2. Running(status, listed) # {}
      BY <2>2, <2>3, FS_EmptySet, BoundAssumption
    <3>3. alive # {}
      BY <3>2, <1>0 DEF CapacityInv, RunningIsAlive, Running
    <3>4. RunningIsAlive(status', alive') /\ RunningLimit'
      BY <3>1 DEF CapacityInv, RunningIsAlive, RunningLimit, Running
    <3>5. FifoStep
      BY <3>1, <2>1, <1>0 DEF FifoStep
    <3>6. \A t \in Subagent : rec'[t] = "queued" /\ Fenced(OwnerOf[t]) => rec[t] = "queued"
      BY <3>1, <2>1, <1>0
    <3> QED BY <3>1, <3>3, <3>4, <3>5, <3>6 DEF CapacityStep, QueuedWaitsForCapacity
  <2>4. CASE Cardinality(Running(status, listed)) < MaxRunning
    <3>1. StartRuns({s}, status, alive, listed, rec, seq)
      BY <1>2, <2>2, <2>4, BoundAssumption DEF resumeSubagent
    <3> QED BY <3>1, <2>1, <2>4, OneMoreServes
  <2> QED BY <2>2, <2>3, <2>4, BoundAssumption
<1>3. ASSUME NEW j \in Job, cancel(j) PROVE CapacityStep
  <2>1. /\ alive' = alive /\ listed' = listed /\ rec' = rec /\ lease' = lease
        /\ status' = [status EXCEPT ![j] = "cancelled"]
    BY <1>3 DEF cancel, recVars
  <2> QED BY <2>1, <1>0, QuietServes DEF Fenced
<1>4. ASSUME NEW s \in Subagent, cancelSubagent(s) PROVE CapacityStep
  <2>1. CASE rec[s] = "running" /\ cancel(cur[s])
    <3>1. cur[s] \in Job
      BY <2>1, <1>0 DEF cancel
    <3> QED BY <2>1, <3>1, <1>3
  <2>2. CASE CancelPaused(s)
    <3> DEFINE j == cur[s]
               stopped == j \in listed /\ status[j] = "paused"
               st == [k \in Job |-> IF stopped /\ k = j THEN "cancelled" ELSE status[k]]
               ls == IF stopped THEN Unlisted({j}) ELSE listed
               rc == [rec EXCEPT ![s] = "cancelled"]
    <3>1. Drain(st, alive, ls, rc, seq) /\ lease' = lease
      BY <2>2 DEF CancelPaused
    <3>2. ls \in SUBSET listed
      BY DEF Unlisted
    <3>3. \A k \in Job : st[k] = "running" => status[k] = "running"
      OBVIOUS
    <3>4. \A t \in Subagent : /\ rec[t] = "queued" => rc[t] # "running"
                              /\ rc[t] = "queued" => rec[t] = "queued"
      BY <1>0
    <3> HIDE DEF st, ls, rc
    <3> QED BY <3>1, <3>2, <3>3, <3>4, <1>0, DrainStep
  <2>3. CASE CancelQueued(s)
    <3>1. /\ alive' = alive /\ listed' = listed /\ status' = status /\ lease' = lease
          /\ rec' = [rec EXCEPT ![s] = "cancelled"]
      BY <2>3 DEF CancelQueued, jobVars
    <3> QED BY <3>1, <1>0, QuietServes DEF Fenced
  <2> QED BY <1>4, <2>1, <2>2, <2>3 DEF cancelSubagent
<1>5. ASSUME NEW j \in Job, CancelPausedJob(j) PROVE CapacityStep
  <2> DEFINE st == [k \in Job |-> IF k = j THEN "cancelled" ELSE status[k]]
             ls == Unlisted({j})
             rc == Marked(j, "cancelled")
  <2>1. Drain(st, alive, ls, rc, seq) /\ lease' = lease
    BY <1>5 DEF CancelPausedJob
  <2>2. ls \in SUBSET listed
    BY DEF Unlisted
  <2>3. \A k \in Job : st[k] = "running" => status[k] = "running"
    OBVIOUS
  <2>4. \A t \in Subagent : /\ rec[t] = "queued" => rc[t] # "running"
                            /\ rc[t] = "queued" => rec[t] = "queued"
    BY DEF Marked
  <2> HIDE DEF st, ls, rc
  <2> QED BY <2>1, <2>2, <2>3, <2>4, <1>0, DrainStep
<1>6. ASSUME NEW j \in Job, NEW out \in Ending, Settle(j, out) PROVE CapacityStep
  <2> DEFINE final == Outcome(j, out)
             st == [status EXCEPT ![j] = final]
             al == alive \ {j}
             ls == IF final = "paused" THEN listed ELSE Unlisted({j})
             rc == Marked(j, final)
  <2>1. Drain(st, al, ls, rc, seq) /\ lease' = lease
    BY <1>6 DEF Settle
  <2>2. ls \in SUBSET listed /\ final \notin {"running", "queued"}
    BY DEF Unlisted, Outcome
  <2>3. \A k \in Job : st[k] = "running" => status[k] = "running" /\ (k \in alive => k \in al)
    BY <2>2, <1>0
  <2>4. \A t \in Subagent : /\ rec[t] = "queued" => rc[t] # "running"
                            /\ rc[t] = "queued" => rec[t] = "queued"
    BY <2>2 DEF Marked
  <2> HIDE DEF st, al, ls, rc
  <2> QED BY <2>1, <2>2, <2>3, <2>4, <1>0, DrainStep
<1>7. ASSUME NEW o \in Owner, RegisterBash(o) PROVE CapacityStep
  <2>1. PICK j \in Fresh : /\ status' = [status EXCEPT ![j] = "running"]
                           /\ alive' = alive \cup {j} /\ listed' = listed \cup {j}
    BY <1>7, Zenon DEF RegisterBash
  <2>2. rec' = rec /\ lease' = lease /\ Cardinality(Running(status, listed)) < MaxRunning
    BY <1>7 DEF RegisterBash, CanRegister, recVars
  <2>3. RunningLimit'
    <3> DEFINE A == Running(status, listed)
    <3>1. Running(status', listed') \in SUBSET (A \cup {j}) /\ A \in SUBSET Job
      BY <2>1, <1>0 DEF Running, Fresh
    <3>2. IsFiniteSet(A) /\ Cardinality(A) \in Nat
      BY <3>1, JobsFinite
    <3>3. IsFiniteSet(A \cup {j}) /\ Cardinality(A \cup {j}) <= Cardinality(A) + 1
          /\ Cardinality(A \cup {j}) \in Nat
      BY <3>2, FS_AddElement, FS_CardinalityType
    <3>4. Cardinality(Running(status', listed')) <= Cardinality(A \cup {j})
          /\ Cardinality(Running(status', listed')) \in Nat
      BY <3>1, <3>3, FS_Subset, FS_CardinalityType
    <3>5. Cardinality(Running(status', listed')) <= MaxRunning
      BY <2>2, <3>2, <3>3, <3>4, BoundAssumption
    <3> QED BY <3>5 DEF RunningLimit, Running
  <2>4. RunningIsAlive(status', alive')
    BY <2>1, <1>0 DEF CapacityInv, RunningIsAlive
  <2>5. FifoStep
    BY <2>2 DEF FifoStep
  <2>6. ~EarlyFailure => QueuedWaitsForCapacity'
    BY <2>1 DEF QueuedWaitsForCapacity
  <2> QED BY <2>2, <2>3, <2>4, <2>5, <2>6 DEF CapacityStep
<1>8. ASSUME NEW o \in Closing, CancelOwnAsyncJobs(o) PROVE CapacityStep
  <2>1. /\ alive' = alive /\ lease' = lease /\ listed' \subseteq listed
        /\ \A j \in Job : status'[j] = "running" => status[j] = "running"
        /\ \A s \in Subagent : rec'[s] \in {"none", rec[s]}
    BY <1>8 DEF CancelOwnAsyncJobs, Unlisted, Purge
  <2> QED BY <2>1, QuietServes DEF Fenced
<1>9. ASSUME NEW o \in Closing, cancelAndProveOwnerSubagents(o) \/ cancelAndSettleOwnerJobs(o)
      PROVE  CapacityStep
  <2>1. \A s \in Subagent : Fenced(OwnerOf[s])' <=> Fenced(OwnerOf[s])
    BY <1>9, <1>0, <1>s DEF cancelAndProveOwnerSubagents, cancelAndSettleOwnerJobs, Fenced, LeaseType
  <2> QED
    BY <1>9, <2>1, <1>0, BatchServes DEF cancelAndProveOwnerSubagents, cancelAndSettleOwnerJobs
<1>10. ASSUME NEW o \in Closing, beginOwnerSubagentShutdown(o) \/ Proof(o) PROVE CapacityStep
  <2>1. alive' = alive /\ listed' = listed /\ status' = status /\ rec' = rec
    BY <1>10 DEF beginOwnerSubagentShutdown, Proof, jobVars, recVars
  <2>2. \A s \in Subagent : Fenced(OwnerOf[s]) => Fenced(OwnerOf[s])'
    BY <1>10, <1>0, <1>s DEF beginOwnerSubagentShutdown, Proof, Fenced, LeaseType
  <2> QED BY <2>1, <2>2, QuietServes
<1>11. ASSUME NEW o \in Closing, Commit(o) \/ Release(o) PROVE CapacityStep
  <2>1. /\ alive' = alive /\ listed' = listed /\ status' = status
        /\ \A s \in Subagent : rec'[s] \in {"none", rec[s]}
    BY <1>11 DEF Commit, Release, jobVars, recVars, Purge
  <2>2. ASSUME NEW s \in Subagent, rec'[s] = "queued", ~EarlyFailure, Fenced(OwnerOf[s])
        PROVE  Fenced(OwnerOf[s])'
    <3>1. OwnerOf[s] # o
      <4>1. ASSUME Commit(o) PROVE OwnerOf[s] # o
        BY <4>1, <2>2 DEF Commit, Purge
      <4>2. ASSUME Release(o) PROVE OwnerOf[s] # o
        <5>1. rec[s] = "queued" /\ lease[o].phase \notin {"none", "active"}
          BY <4>2, <2>2 DEF Release, recVars
        <5> QED BY <5>1 DEF CapacityInv, QueueEmptied, Owned
      <4> QED BY <4>1, <4>2, <1>11
    <3>2. lease' = [lease EXCEPT ![o] = NoLease]
      BY <1>11 DEF Commit, Release
    <3> QED BY <3>1, <3>2, <1>0, <1>s, <2>2 DEF Fenced
  <2> QED BY <2>1, <2>2, QuietServes
<1>12. ASSUME NEW j \in Job, AttachHandle(j) \/ Evict(j) PROVE CapacityStep
  <2>1. /\ alive' = alive /\ listed' \subseteq listed /\ status' = status /\ rec' = rec
        /\ lease' = lease
    BY <1>12 DEF AttachHandle, Evict, jobVars
  <2> QED BY <2>1, QuietServes DEF Fenced
<1>13. ASSUME NEW s \in Subagent, pauseSubagent(s) PROVE CapacityStep
  <2>1. alive' = alive /\ listed' = listed /\ status' = status /\ rec' = rec /\ lease' = lease
    BY <1>13 DEF pauseSubagent, jobVars
  <2> QED BY <2>1, QuietServes DEF Fenced
<1>14. CASE UNCHANGED vars
  <2>1. alive' = alive /\ listed' = listed /\ status' = status /\ rec' = rec /\ lease' = lease
    BY <1>14 DEF vars
  <2> QED BY <2>1, QuietServes DEF Fenced
<1> QED
  BY <1>1, <1>2, <1>3, <1>4, <1>5, <1>6, <1>7, <1>8, <1>9, <1>10, <1>11, <1>12, <1>13, <1>14
     DEF Next, Settlement

\* The shutdown proof cancels every queued record of its owner, and none is queued
\* behind the fence.
LEMMA NextQueueEmptied ==
    ASSUME CapacityInv, [Next]_vars, NEW o \in Owner
    PROVE  QueueEmptied(o)'
<1>0. /\ IInv /\ RecordsCaptured(o) /\ QueueEmptied(o)
      /\ lease \in [Owner -> LeaseType] /\ lease[o] \in LeaseType
  BY LeaseTypes DEF CapacityInv, QInv, ShutdownInv, IInv, RestTypes
<1>1. \A s \in Owned(o) : rec'[s] = "queued" /\ Fenced(o) => rec[s] = "queued"
  BY NextCapacity DEF CapacityStep, Owned
<1>2. CASE lease[o].phase \notin {"none", "active"}
  BY <1>0, <1>1, <1>2 DEF QueueEmptied, Fenced, Owned
<1>3. CASE cancelAndProveOwnerSubagents(o)
  <2>1. lease[o].phase = "active" /\ CancelBatch(lease[o].backing, lease[o].records)
    BY <1>3 DEF cancelAndProveOwnerSubagents
  <2>2. ASSUME NEW s \in Owned(o), rec'[s] = "queued" PROVE FALSE
    <3>1. s \in Subagent /\ rec[s] = "queued" /\ s \in lease[o].records
      BY <2>1, <2>2, <1>0, <1>1, Zenon DEF RecordsCaptured, Live, Owned, Fenced
    <3> QED
      BY <2>1, <2>2, <3>1, Zenon DEF CancelBatch, StartRuns, Startable, FirstOf
  <2> QED BY <2>2 DEF QueueEmptied, Owned
<1>4. CASE lease[o].phase \in {"none", "active"} /\ ~cancelAndProveOwnerSubagents(o)
  <2>1. \/ lease'[o] = lease[o] \/ beginOwnerSubagentShutdown(o) \/ Commit(o) \/ Release(o)
    BY <1>0, <1>4, LeaseChanges, Zenon DEF Proof, cancelAndSettleOwnerJobs
  <2>2. ASSUME beginOwnerSubagentShutdown(o) PROVE lease'[o].phase = "active"
    BY <1>0, <2>2, Zenon DEF beginOwnerSubagentShutdown
  <2>3. ASSUME Commit(o) PROVE lease'[o].phase = "none"
    BY <1>0, <2>3 DEF Commit, NoLease
  <2>4. ASSUME Release(o) PROVE lease'[o].phase = "none"
    BY <1>0, <2>4 DEF Release, NoLease
  <2>5. lease'[o].phase \in {"none", "active"}
    BY <1>4, <2>1, <2>2, <2>3, <2>4, Zenon
  <2> QED BY <2>5, Zenon DEF QueueEmptied
<1> QED BY <1>2, <1>3, <1>4

\* The capacity invariant, for any owners, subagents, limits and bounds.
LEMMA CapacityInvariance == Spec => []CapacityInv
<1>1. Init => CapacityInv
  <2> SUFFICES ASSUME Init PROVE CapacityInv
    OBVIOUS
  <2>1. Running(status, listed) = {}
    BY DEF Init, Running
  <2>2. RunningLimit
    BY <2>1, FS_EmptySet, BoundAssumption DEF RunningLimit
  <2>3. QInv
    BY InitQInv
  <2> QED
    BY <2>2, <2>3 DEF Init, CapacityInv, RunningIsAlive, QueueEmptied, NoLease,
                      QueuedWaitsForCapacity
<1>2. CapacityInv /\ [Next]_vars => CapacityInv'
  <2> SUFFICES ASSUME CapacityInv, [Next]_vars PROVE CapacityInv'
    OBVIOUS
  <2>1. QInv'
    BY NextQInv DEF CapacityInv
  <2>2. \A o \in Owner : QueueEmptied(o)'
    BY NextQueueEmptied
  <2>3. CapacityStep
    BY NextCapacity
  <2> QED BY <2>1, <2>2, <2>3 DEF CapacityInv, CapacityStep
<1> QED BY <1>1, <1>2, PTL DEF Spec

\* register(), resumeSubagent(), #drainResumeQueue(): no path starts a job above
\* #maxRunningJobs, however cancellations free slots and drains refill them.
THEOREM LimitIsKept == Spec => []RunningLimit
<1>1. CapacityInv => RunningLimit
  BY DEF CapacityInv
<1> QED BY <1>1, CapacityInvariance, PTL

\* A queued resume whose owner is not shutting down has a live run to wait for, whose
\* settlement drains the queue: unless abort() rejects between taking the lease and the
\* proof, no resume is stranded.
THEOREM QueuedHasCause ==
    ASSUME ~EarlyFailure
    PROVE  Spec => []QueuedWaitsForCapacity
<1>1. CapacityInv => QueuedWaitsForCapacity
  BY DEF CapacityInv
<1> QED BY <1>1, CapacityInvariance, PTL

\* #drainResumeQueue(): resumes start in the order they were accepted, skipping only
\* owners that are shutting down.
THEOREM ResumesInOrder == Spec => DrainIsFifo
<1>1. CapacityInv /\ [Next]_vars
        => [\A s, t \in Subagent :
              /\ rec[s] = "queued" /\ rec[t] = "queued" /\ seq[s] < seq[t]
              /\ rec'[t] = "running" /\ ~Fenced(OwnerOf[s])
              => rec'[s] # "queued"]_vars
  BY NextCapacity DEF CapacityStep, FifoStep
<1> QED BY <1>1, CapacityInvariance, PTL DEF Spec, DrainIsFifo
=============================================================================
