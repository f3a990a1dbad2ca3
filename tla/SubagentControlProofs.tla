----------------------- MODULE SubagentControlProofs -----------------------
(* Proofs about SubagentControl for any owners, subagents, limits and bounds. *)
EXTENDS SubagentControl, TLAPS

-----------------------------------------------------------------------------
(* The inductive invariant behind OneLiveRunPerSubagent, over explicit values *)
(* so that it can also be stated in the middle of a handler.                 *)

\* An unregistered job is nowhere.
FreshInv(st, wh, al, ls) ==
    \A j \in Job : st[j] = "none" => j \notin al /\ j \notin ls /\ wh[j] = Nobody

\* A live job is running or cancelled: the other statuses are given at settlement.
LiveStatusInv(st, al) == \A j \in al : st[j] \in {"running", "cancelled"}

\* A record names a job of its own subagent; without a record no job is named.
RecordInv(wh, rc, cu) ==
    \A s \in Subagent : IF rc[s] = "none" THEN cu[s] = NoJob
                        ELSE cu[s] \in Job /\ wh[cu[s]] = s

\* A running record has a live run.
RunInv(al, rc, cu) == \A s \in Subagent : rc[s] = "running" => cu[s] \in al

\* A live run is the current run of its record, if it has a record.
AliveInv(wh, al, rc, cu) ==
    \A j \in al : wh[j] \in Subagent /\ rc[wh[j]] # "none"
                    => cu[wh[j]] = j /\ rc[wh[j]] = "running"

\* A live run is the only one of its subagent.
SingleInv(wh, al) == \A j, k \in al : wh[j] \in Subagent /\ wh[j] = wh[k] => j = k

CoreTypes(st, wh, al, ls, rc, cu) ==
    /\ st \in [Job -> JobStatus]
    /\ wh \in [Job -> Subagent \cup Owner \cup {Nobody}]
    /\ al \subseteq Job /\ ls \subseteq Job
    /\ rc \in [Subagent -> RecStatus]
    /\ cu \in [Subagent -> Job \cup {NoJob}]

Core(st, wh, al, ls, rc, cu) ==
    /\ CoreTypes(st, wh, al, ls, rc, cu)
    /\ FreshInv(st, wh, al, ls)
    /\ LiveStatusInv(st, al)
    /\ RecordInv(wh, rc, cu)
    /\ RunInv(al, rc, cu)
    /\ AliveInv(wh, al, rc, cu)
    /\ SingleInv(wh, al)

\* The state-level instance.
CoreInv == Core(status, who, alive, listed, rec, cur)

\* The types of the other variables.
RestTypes ==
    /\ timer \subseteq Job
    /\ seq \in [Subagent -> Nat]
    /\ handle \in [Subagent -> Job \cup {NoJob}]
    /\ pausing \subseteq Job
    /\ lease \in [Owner -> LeaseType]

\* The inductive invariant: the types and the relation of records and runs.
IInv == RestTypes /\ CoreInv

-----------------------------------------------------------------------------
\* The inverse that StartRuns takes of a numbering is well defined.
LEMMA InverseOfNumbering ==
    ASSUME NEW T, NEW D, NEW f \in [T -> D], IsInjective(f), NEW s \in T
    PROVE  (CHOOSE t \in T : f[t] = f[s]) = s
  BY DEF IsInjective

\* Starting runs for subagents with no live run keeps the core invariant: the new
\* jobs were unregistered, so each is the one run of its subagent.
LEMMA StartKeepsCore ==
    ASSUME NEW T \in SUBSET Subagent, NEW st, NEW al, NEW ls, NEW rc, NEW q,
           Core(st, who, al, ls, rc, cur),
           \A j \in Fresh : st[j] = "none",
           \A s \in T, j \in al : who[j] # s,
           StartRuns(T, st, al, ls, rc, q)
    PROVE  CoreInv'
<1>1. PICK num \in Numberings(T) :
        /\ status' = [j \in Job |-> IF j \in Range(num) THEN "running" ELSE st[j]]
        /\ who' = [j \in Job |-> IF j \in Range(num)
                                 THEN CHOOSE s \in T : num[s] = j ELSE who[j]]
        /\ alive' = al \cup Range(num)
        /\ listed' = ls \cup Range(num)
        /\ rec' = [s \in Subagent |-> IF s \in T THEN "running" ELSE rc[s]]
        /\ cur' = [s \in Subagent |-> IF s \in T THEN num[s] ELSE cur[s]]
  BY Zenon DEF StartRuns
<1> DEFINE new == Range(num)
<1>2. num \in [T -> Fresh] /\ IsInjective(num)
  BY DEF Numberings
<1>3. new \subseteq Fresh /\ Fresh \subseteq Job
  BY <1>2 DEF Range, Fresh
<1>4. \A s \in T : num[s] \in new /\ who'[num[s]] = s
  <2> SUFFICES ASSUME NEW s \in T PROVE num[s] \in new /\ who'[num[s]] = s
    OBVIOUS
  <2>1. num[s] \in new
    BY <1>2 DEF Range
  <2>2. (CHOOSE t \in T : num[t] = num[s]) = s
    BY <1>2, InverseOfNumbering
  <2> QED BY <2>1, <2>2, <1>1, <1>3
<1>5. \A j \in new : \E s \in T : j = num[s] /\ who'[j] = s
  BY <1>2, <1>4 DEF Range
<1>6. \A j \in Job \ new : who'[j] = who[j] /\ status'[j] = st[j]
  BY <1>1
<1>7. \A j \in new : j \notin al /\ j \notin ls /\ who[j] = Nobody /\ status'[j] = "running"
  BY <1>1, <1>3 DEF Core, FreshInv
<1>8. CoreTypes(status', who', alive', listed', rec', cur')
  <2>1. status' \in [Job -> JobStatus]
    BY <1>1 DEF Core, CoreTypes, JobStatus
  <2>2. who' \in [Job -> Subagent \cup Owner \cup {Nobody}]
    <3>1. \A j \in Job : who'[j] \in Subagent \cup Owner \cup {Nobody}
      BY <1>5, <1>6 DEF Core, CoreTypes
    <3> QED BY <3>1, <1>1
  <2>3. alive' \subseteq Job /\ listed' \subseteq Job
    BY <1>1, <1>3 DEF Core, CoreTypes
  <2>4. rec' \in [Subagent -> RecStatus]
    BY <1>1 DEF Core, CoreTypes, RecStatus, JobStatus
  <2>5. cur' \in [Subagent -> Job \cup {NoJob}]
    BY <1>1, <1>2, <1>3 DEF Core, CoreTypes
  <2> QED BY <2>1, <2>2, <2>3, <2>4, <2>5 DEF CoreTypes
<1>9. FreshInv(status', who', alive', listed')
  BY <1>1, <1>6, <1>7 DEF Core, FreshInv
<1>10. LiveStatusInv(status', alive')
  BY <1>1, <1>6, <1>7, <1>3 DEF Core, CoreTypes, LiveStatusInv
<1>11. RecordInv(who', rec', cur')
  <2> SUFFICES ASSUME NEW s \in Subagent
               PROVE  IF rec'[s] = "none" THEN cur'[s] = NoJob
                      ELSE cur'[s] \in Job /\ who'[cur'[s]] = s
    BY DEF RecordInv
  <2>1. CASE s \in T
    BY <2>1, <1>1, <1>2, <1>3, <1>4, Zenon
  <2>2. CASE s \notin T
    <3>1. rec'[s] = rc[s] /\ cur'[s] = cur[s]
      BY <2>2, <1>1
    <3>2. ASSUME rc[s] # "none" PROVE cur[s] \in Job \ new /\ who[cur[s]] = s
      <4>1. cur[s] \in Job /\ who[cur[s]] = s
        BY <3>2 DEF Core, RecordInv
      <4>2. s # Nobody
        BY DisjointAssumption DEF Nobody
      <4> QED BY <4>1, <4>2, <1>7
    <3> QED BY <3>1, <3>2, <1>6 DEF Core, RecordInv
  <2> QED BY <2>1, <2>2
<1>12. RunInv(alive', rec', cur')
  BY <1>1, <1>4 DEF Core, RunInv
<1>13. ASSUME NEW j \in al
       PROVE  j \in Job \ new /\ who'[j] = who[j] /\ who[j] \notin T
  BY <1>13, <1>6, <1>7 DEF Core, CoreTypes
<1>14. AliveInv(who', alive', rec', cur')
  <2> SUFFICES ASSUME NEW j \in alive', who'[j] \in Subagent, rec'[who'[j]] # "none"
               PROVE  cur'[who'[j]] = j /\ rec'[who'[j]] = "running"
    BY DEF AliveInv
  <2>1. CASE j \in new
    BY <2>1, <1>1, <1>5
  <2>2. CASE j \in al
    <3>1. who'[j] = who[j] /\ who[j] \notin T
      BY <2>2, <1>13
    <3>2. rec'[who[j]] = rc[who[j]] /\ cur'[who[j]] = cur[who[j]]
      BY <3>1, <1>1
    <3> QED BY <2>2, <3>1, <3>2 DEF Core, AliveInv
  <2> QED BY <2>1, <2>2, <1>1
<1>15. SingleInv(who', alive')
  <2> SUFFICES ASSUME NEW j \in alive', NEW k \in alive', who'[j] \in Subagent, who'[j] = who'[k]
               PROVE  j = k
    BY DEF SingleInv
  <2>1. CASE j \in new /\ k \in new
    BY <2>1, <1>5
  <2>2. CASE j \in al /\ k \in al
    BY <2>2, <1>13 DEF Core, SingleInv
  <2>3. CASE (j \in new /\ k \in al) \/ (j \in al /\ k \in new)
    BY <2>3, <1>5, <1>13
  <2> QED BY <2>1, <2>2, <2>3, <1>1
<1> QED
  BY <1>8, <1>9, <1>10, <1>11, <1>12, <1>14, <1>15 DEF CoreInv, Core

\* A drain starts only queued records, which have no live run.
LEMMA DrainKeepsCore ==
    ASSUME NEW st, NEW al, NEW ls, NEW rc, NEW q, NEW free,
           Core(st, who, al, ls, rc, cur),
           \A j \in Fresh : st[j] = "none",
           StartRuns(Startable(rc, q, free), st, al, ls, rc, q)
    PROVE  CoreInv'
<1> DEFINE T == Startable(rc, q, free)
<1>1. T \in SUBSET Subagent /\ \A s \in T : rc[s] = "queued"
  BY DEF Startable, FirstOf
<1>2. \A s \in T, j \in al : who[j] # s
  BY <1>1 DEF Core, AliveInv
<1> QED
  BY <1>1, <1>2, StartKeepsCore

\* Starting runs leaves the queue numbers natural.
LEMMA StartKeepsSeq ==
    ASSUME NEW T, NEW st, NEW al, NEW ls, NEW rc, NEW q \in [Subagent -> Nat],
           StartRuns(T, st, al, ls, rc, q)
    PROVE  seq' \in [Subagent -> Nat]
  BY DEF StartRuns

\* The scheduling of evictions stays within the job ids.
LEMMA EvictionTypes ==
    ASSUME NEW S \in SUBSET Job, IInv
    PROVE  Armed(S) \subseteq Job /\ Unlisted(S) \subseteq listed
  BY DEF IInv, RestTypes, Armed, Unlisted

\* The job and record part of the invariant gives the type invariant.
LEMMA TypesFromIInv == IInv => TypeOK
  BY DEF IInv, RestTypes, CoreInv, Core, CoreTypes, TypeOK

-----------------------------------------------------------------------------
(* One lemma for each kind of step.                                          *)

LEMMA InitIInv == Init => IInv
<1> SUFFICES ASSUME Init PROVE IInv
  OBVIOUS
<1>1. RestTypes
  BY DEF Init, RestTypes, LeaseType, NoLease, Phase, NoJob
<1>2. CoreTypes(status, who, alive, listed, rec, cur)
  BY DEF Init, CoreTypes, JobStatus, RecStatus, NoJob
<1>3. \A s \in Subagent : rec[s] = "none" /\ cur[s] = NoJob
  BY DEF Init
<1> QED
  BY <1>1, <1>2, <1>3 DEF Init, IInv, CoreInv, Core, FreshInv, LiveStatusInv, RecordInv, RunInv,
                          AliveInv, SingleInv

\* The record of a settled run is marked after its promise left alive.
LEMMA SettleIInv ==
    ASSUME IInv, NEW j \in Job, NEW out \in Ending, Settle(j, out)
    PROVE  IInv'
<1> DEFINE final == Outcome(j, out)
           st == [status EXCEPT ![j] = final]
           al == alive \ {j}
           ls == IF final = "paused" THEN listed ELSE Unlisted({j})
           rc == Marked(j, final)
<1>1. final \in JobStatus \ {"none", "running"} /\ j \in alive
  BY ScopeAssumption DEF Settle, Outcome, JobStatus
<1>2. ls \subseteq listed
  BY EvictionTypes
<1>3. CoreTypes(st, who, al, ls, rc, cur)
  BY <1>1, <1>2 DEF IInv, CoreInv, Core, CoreTypes, Marked, RecStatus
<1>4. \A s \in Subagent : rc[s] = IF cur[s] = j THEN final ELSE rec[s]
  BY DEF Marked
<1>5. \A s \in Subagent : cur[s] = j => rec[s] # "none" /\ who[j] = s
  BY <1>1 DEF IInv, CoreInv, Core, RecordInv, NoJob, Job
<1>6. Core(st, who, al, ls, rc, cur)
  <2>1. FreshInv(st, who, al, ls) /\ LiveStatusInv(st, al)
    BY <1>1, <1>2, Zenon DEF IInv, CoreInv, Core, CoreTypes, FreshInv, LiveStatusInv
  <2>2. RecordInv(who, rc, cur)
    BY <1>1, <1>4, <1>5 DEF IInv, CoreInv, Core, RecordInv
  <2>3. RunInv(al, rc, cur)
    BY <1>1, <1>4 DEF IInv, CoreInv, Core, RunInv
  <2>4. AliveInv(who, al, rc, cur) /\ SingleInv(who, al)
    BY <1>1, <1>4, <1>5 DEF IInv, CoreInv, Core, AliveInv, SingleInv
  <2> QED BY <1>3, <2>1, <2>2, <2>3, <2>4 DEF Core
<1>7. \A k \in Fresh : st[k] = "none"
  BY <1>1 DEF Fresh, IInv, CoreInv, Core, CoreTypes, FreshInv
<1>8. Drain(st, al, ls, rc, seq)
  BY DEF Settle
<1>9. CoreInv'
  BY <1>6, <1>7, <1>8, DrainKeepsCore, Zenon DEF Drain
<1>10. RestTypes'
  <2>1. seq' \in [Subagent -> Nat]
    BY <1>8, StartKeepsSeq DEF Drain, IInv, RestTypes
  <2>2. timer' \subseteq Job
    BY EvictionTypes DEF Settle, IInv, RestTypes
  <2> QED BY <2>1, <2>2, Zenon DEF Settle, Dropped, IInv, RestTypes
<1> QED
  BY <1>9, <1>10 DEF IInv

\* A launched subagent has no job at all, a resumed one no live run.
LEMMA StartIInv ==
    ASSUME IInv, NEW s \in Subagent, Launch(s) \/ resumeSubagent(s)
    PROVE  IInv'
<1>1. \A j \in alive : who[j] # s
  <2>1. CASE Launch(s)
    BY <2>1 DEF Launch, IInv, CoreInv, Core, CoreTypes
  <2>2. CASE resumeSubagent(s)
    <3>1. rec[s] # "none" /\ rec[s] # "running"
      BY <2>2 DEF resumeSubagent, Terminal
    <3> QED BY <3>1 DEF IInv, CoreInv, Core, AliveInv
  <2> QED BY <2>1, <2>2
<1>2. CASE StartRuns({s}, status, alive, listed, rec, seq)
  <2>1. CoreInv'
    <3>1. \A j \in Fresh : status[j] = "none"
      BY DEF Fresh
    <3>2. \A t \in {s}, j \in alive : who[j] # t
      BY <1>1
    <3>3. {s} \in SUBSET Subagent /\ Core(status, who, alive, listed, rec, cur)
      BY DEF IInv, CoreInv
    <3> QED BY <1>2, <3>1, <3>2, <3>3, StartKeepsCore
  <2>2. seq' \in [Subagent -> Nat]
    BY <1>2, StartKeepsSeq DEF IInv, RestTypes
  <2>3. timer' = timer /\ handle' = handle /\ pausing' = pausing /\ lease' = lease
    BY <1>2 DEF Launch, resumeSubagent, jobVars
  <2> QED BY <2>1, <2>2, <2>3 DEF IInv, RestTypes
<1>3. CASE ~StartRuns({s}, status, alive, listed, rec, seq)
  <2>1. resumeSubagent(s)
    BY <1>3 DEF Launch
  <2>2. /\ rec' = [rec EXCEPT ![s] = "queued"]
        /\ \E n \in 1..MaxSeq : seq' = [seq EXCEPT ![s] = n]
        /\ UNCHANGED <<status, who, alive, listed, timer, cur, handle, pausing, lease>>
    BY <1>3, <2>1 DEF resumeSubagent, jobVars
  <2>3. RestTypes'
    BY <2>2, BoundAssumption DEF IInv, RestTypes
  <2>4. rec[s] # "none" /\ rec[s] # "running"
    BY <2>1 DEF resumeSubagent, Terminal
  <2>5. CoreTypes(status', who', alive', listed', rec', cur')
    BY <2>2 DEF IInv, CoreInv, Core, CoreTypes, RecStatus
  <2>6. \A t \in Subagent : rec'[t] = IF t = s THEN "queued" ELSE rec[t]
    BY <2>2 DEF IInv, CoreInv, Core, CoreTypes
  <2>7. RecordInv(who', rec', cur') /\ RunInv(alive', rec', cur')
    BY <2>2, <2>4, <2>6 DEF IInv, CoreInv, Core, RecordInv, RunInv
  <2>8. AliveInv(who', alive', rec', cur')
    BY <2>2, <2>6, <1>1 DEF IInv, CoreInv, Core, AliveInv
  <2> QED BY <2>2, <2>3, <2>5, <2>7, <2>8 DEF IInv, CoreInv, Core
<1> QED
  BY <1>2, <1>3

LEMMA RegisterBashIInv ==
    ASSUME IInv, NEW o \in Owner, RegisterBash(o)
    PROVE  IInv'
<1>1. PICK j \in Fresh :
        /\ status' = [status EXCEPT ![j] = "running"]
        /\ who' = [who EXCEPT ![j] = o]
        /\ alive' = alive \cup {j}
        /\ listed' = listed \cup {j}
  BY Zenon DEF RegisterBash
<1>2. UNCHANGED <<timer, rec, cur, seq, handle, pausing, lease>>
  BY DEF RegisterBash, recVars
<1>3. j \in Job /\ j \notin alive /\ who[j] = Nobody
  BY DEF Fresh, IInv, CoreInv, Core, FreshInv
<1>4. o \notin Subagent /\ \A s \in Subagent : s # Nobody
  BY DisjointAssumption DEF Nobody
<1>5. CoreTypes(status', who', alive', listed', rec', cur')
  BY <1>1, <1>2, <1>3 DEF IInv, CoreInv, Core, CoreTypes, JobStatus
<1>6. FreshInv(status', who', alive', listed') /\ LiveStatusInv(status', alive')
  BY <1>1, <1>3 DEF IInv, CoreInv, Core, CoreTypes, FreshInv, LiveStatusInv
<1>7. \A k \in Job : who'[k] = IF k = j THEN o ELSE who[k]
  BY <1>1, <1>3 DEF IInv, CoreInv, Core, CoreTypes
<1>8. RecordInv(who', rec', cur') /\ RunInv(alive', rec', cur')
  BY <1>1, <1>2, <1>3, <1>4, <1>7 DEF IInv, CoreInv, Core, RecordInv, RunInv
<1>9. AliveInv(who', alive', rec', cur') /\ SingleInv(who', alive')
  BY <1>1, <1>2, <1>3, <1>4, <1>7 DEF IInv, CoreInv, Core, CoreTypes, AliveInv, SingleInv
<1>10. RestTypes'
  BY <1>2 DEF IInv, RestTypes
<1> QED
  BY <1>5, <1>6, <1>8, <1>9, <1>10 DEF IInv, CoreInv, Core

\* Steps that change neither a promise nor a record.
LEMMA QuietIInv ==
    ASSUME IInv,
           \/ UNCHANGED vars
           \/ \E j \in Job : AttachHandle(j) \/ Evict(j) \/ cancel(j)
           \/ \E s \in Subagent : pauseSubagent(s)
    PROVE  IInv'
<1>1. CASE UNCHANGED vars
  BY <1>1 DEF vars, IInv, CoreInv, RestTypes
<1>2. ASSUME NEW j \in Job, AttachHandle(j) PROVE IInv'
  BY <1>2 DEF AttachHandle, jobVars, IInv, CoreInv, RestTypes
<1>3. ASSUME NEW j \in Job, Evict(j) PROVE IInv'
  <2>1. CoreInv'
    BY <1>3 DEF Evict, IInv, CoreInv, Core, CoreTypes, FreshInv
  <2>2. RestTypes'
    BY <1>3 DEF Evict, IInv, RestTypes, NoJob
  <2> QED BY <2>1, <2>2 DEF IInv
<1>4. ASSUME NEW j \in Job, cancel(j) PROVE IInv'
  <2>1. CoreTypes(status', who', alive', listed', rec', cur')
    BY <1>4 DEF cancel, recVars, IInv, CoreInv, Core, CoreTypes, JobStatus
  <2>2. FreshInv(status', who', alive', listed') /\ LiveStatusInv(status', alive')
    BY <1>4 DEF cancel, recVars, IInv, CoreInv, Core, CoreTypes, FreshInv, LiveStatusInv
  <2> QED BY <1>4, <2>1, <2>2 DEF cancel, recVars, IInv, CoreInv, Core, RestTypes
<1>5. ASSUME NEW s \in Subagent, pauseSubagent(s) PROVE IInv'
  BY <1>5 DEF pauseSubagent, jobVars, IInv, CoreInv, RestTypes, NoJob
<1> QED
  BY <1>1, <1>2, <1>3, <1>4, <1>5

\* Turning records without a live run into cancelled ones, and paused or running
\* jobs into cancelled ones, keeps the core invariant.
LEMMA CancelledCore ==
    ASSUME CoreInv, NEW st \in [Job -> JobStatus], NEW rc \in [Subagent -> RecStatus],
           NEW ls \in SUBSET listed,
           \A j \in Job : st[j] = status[j] \/ (status[j] # "none" /\ st[j] = "cancelled"),
           \A s \in Subagent : \/ rc[s] = rec[s]
                               \/ rec[s] \notin {"none", "running"} /\ rc[s] = "cancelled"
    PROVE  Core(st, who, alive, ls, rc, cur) /\ \A j \in Fresh : st[j] = "none"
<1>1. CoreTypes(st, who, alive, ls, rc, cur)
  BY DEF CoreInv, Core, CoreTypes
<1>2. FreshInv(st, who, alive, ls) /\ LiveStatusInv(st, alive)
  BY DEF CoreInv, Core, CoreTypes, FreshInv, LiveStatusInv
<1>3. RecordInv(who, rc, cur) /\ RunInv(alive, rc, cur)
  BY DEF CoreInv, Core, RecordInv, RunInv
<1>4. AliveInv(who, alive, rc, cur) /\ SingleInv(who, alive)
  BY DEF CoreInv, Core, AliveInv, SingleInv
<1>5. \A j \in Fresh : st[j] = "none"
  BY DEF Fresh
<1> QED
  BY <1>1, <1>2, <1>3, <1>4, <1>5 DEF Core

LEMMA CancelSubagentIInv ==
    ASSUME IInv, NEW s \in Subagent, cancelSubagent(s)
    PROVE  IInv'
<1>1. CASE rec[s] = "running" /\ cancel(cur[s])
  <2>1. cur[s] \in Job
    BY <1>1 DEF IInv, CoreInv, Core, RecordInv
  <2> QED BY <1>1, <2>1, QuietIInv
<1>2. CASE CancelPaused(s)
  <2> DEFINE j == cur[s]
             stopped == j \in listed /\ status[j] = "paused"
             st == [k \in Job |-> IF stopped /\ k = j THEN "cancelled" ELSE status[k]]
             ls == IF stopped THEN Unlisted({j}) ELSE listed
             rc == [rec EXCEPT ![s] = "cancelled"]
  <2>1. rec[s] = "paused" /\ j \in Job
    BY <1>2 DEF CancelPaused, IInv, CoreInv, Core, RecordInv
  <2>2. Drain(st, alive, ls, rc, seq) /\ handle' = [handle EXCEPT ![s] = NoJob]
        /\ timer' = (IF stopped THEN Armed({j}) ELSE timer) /\ UNCHANGED <<pausing, lease>>
    BY <1>2 DEF CancelPaused
  <2>3. st \in [Job -> JobStatus] /\ rc \in [Subagent -> RecStatus]
    BY DEF IInv, CoreInv, Core, CoreTypes, JobStatus, RecStatus
  <2>4. ls \subseteq listed
    BY <2>1, EvictionTypes
  <2>5. \A k \in Job : st[k] = status[k] \/ (status[k] # "none" /\ st[k] = "cancelled")
    OBVIOUS
  <2>6. \A t \in Subagent : \/ rc[t] = rec[t]
                            \/ rec[t] \notin {"none", "running"} /\ rc[t] = "cancelled"
    BY <2>1 DEF IInv, CoreInv, Core, CoreTypes
  <2>7. Core(st, who, alive, ls, rc, cur) /\ \A k \in Fresh : st[k] = "none"
    <3> HIDE DEF st, ls, rc
    <3> QED BY <2>3, <2>4, <2>5, <2>6, CancelledCore DEF IInv
  <2>8. CoreInv'
    BY <2>2, <2>7, DrainKeepsCore DEF Drain
  <2>9. RestTypes'
    <3>1. seq' \in [Subagent -> Nat]
      BY <2>2, StartKeepsSeq DEF Drain, IInv, RestTypes
    <3>2. timer' \subseteq Job
      BY <2>1, <2>2, EvictionTypes DEF IInv, RestTypes
    <3> QED BY <3>1, <3>2, <2>2 DEF IInv, RestTypes
  <2> QED BY <2>8, <2>9 DEF IInv
<1>3. CASE CancelQueued(s)
  <2>1. /\ rec[s] = "queued" /\ rec' = [rec EXCEPT ![s] = "cancelled"]
        /\ seq' = [seq EXCEPT ![s] = 0]
        /\ UNCHANGED <<status, who, alive, listed, timer, cur, handle, pausing, lease>>
    BY <1>3 DEF CancelQueued, jobVars
  <2>2. RestTypes'
    BY <2>1 DEF IInv, RestTypes
  <2>3. rec' \in [Subagent -> RecStatus] /\ status \in [Job -> JobStatus]
    BY <2>1 DEF IInv, CoreInv, Core, CoreTypes, JobStatus, RecStatus
  <2>4. \A t \in Subagent : \/ rec'[t] = rec[t]
                            \/ rec[t] \notin {"none", "running"} /\ rec'[t] = "cancelled"
    BY <2>1 DEF IInv, CoreInv, Core, CoreTypes
  <2>5. Core(status, who, alive, listed, rec', cur)
    BY <2>3, <2>4, CancelledCore DEF IInv
  <2> QED BY <2>1, <2>2, <2>5 DEF IInv, CoreInv
<1> QED
  BY <1>1, <1>2, <1>3 DEF cancelSubagent

\* Cancelling a paused job whose record is terminal or gone.
LEMMA CancelPausedJobIInv ==
    ASSUME IInv, NEW j \in Job, CancelPausedJob(j)
    PROVE  IInv'
<1> DEFINE st == [k \in Job |-> IF k = j THEN "cancelled" ELSE status[k]]
           ls == Unlisted({j})
           rc == Marked(j, "cancelled")
<1>1. /\ status[j] = "paused" /\ Drain(st, alive, ls, rc, seq)
      /\ handle' = [s \in Subagent |-> IF cur[s] = j THEN NoJob ELSE handle[s]]
      /\ timer' = Armed({j}) /\ UNCHANGED <<pausing, lease>>
  BY DEF CancelPausedJob
<1>2. st \in [Job -> JobStatus] /\ rc \in [Subagent -> RecStatus]
  BY DEF IInv, CoreInv, Core, CoreTypes, JobStatus, RecStatus, Marked
<1>3. ls \subseteq listed /\ timer' \subseteq Job
  BY <1>1, EvictionTypes DEF IInv, RestTypes
<1>4. \A k \in Job : st[k] = status[k] \/ (status[k] # "none" /\ st[k] = "cancelled")
  BY <1>1
<1>5. \A t \in Subagent : \/ rc[t] = rec[t]
                          \/ rec[t] \notin {"none", "running"} /\ rc[t] = "cancelled"
  <2> SUFFICES ASSUME NEW t \in Subagent, cur[t] = j PROVE rec[t] \notin {"none", "running"}
    BY DEF Marked
  <2>1. j \notin alive
    BY <1>1 DEF IInv, CoreInv, Core, LiveStatusInv
  <2> QED BY <2>1 DEF IInv, CoreInv, Core, RecordInv, RunInv, NoJob, Job
<1>6. Core(st, who, alive, ls, rc, cur) /\ \A k \in Fresh : st[k] = "none"
  <2> HIDE DEF st, ls, rc
  <2> QED BY <1>2, <1>3, <1>4, <1>5, CancelledCore DEF IInv
<1>7. CoreInv'
  BY <1>1, <1>6, DrainKeepsCore DEF Drain
<1>8. seq' \in [Subagent -> Nat]
  BY <1>1, StartKeepsSeq DEF Drain, IInv, RestTypes
<1>9. RestTypes'
  BY <1>1, <1>3, <1>8, Zenon DEF IInv, RestTypes
<1> QED
  BY <1>7, <1>9 DEF IInv

\* A batch of cancellations, with the drains between them.
LEMMA CancelBatchIInv ==
    ASSUME IInv, NEW J \in SUBSET Job, NEW S \in SUBSET Subagent, CancelBatch(J, S),
           lease' \in [Owner -> LeaseType]
    PROVE  IInv'
<1> DEFINE stopped == {j \in J \cap listed : status[j] = "paused"}
           aborted == {j \in J \cap listed : status[j] = "running"}
           st == [j \in Job |-> IF j \in stopped \cup aborted THEN "cancelled" ELSE status[j]]
           rc == [s \in Subagent |->
                    IF cur[s] \in stopped \/ (s \in S /\ rec[s] \in {"paused", "queued"})
                    THEN "cancelled" ELSE rec[s]]
           q == [s \in Subagent |-> IF s \in S THEN 0 ELSE seq[s]]
           ls == Unlisted(stopped)
<1>1. PICK free : StartRuns(Startable(rc, q, free), st, alive, ls, rc, q)
  BY Zenon DEF CancelBatch
<1>2. timer' = Armed(stopped) /\ pausing' = pausing
      /\ handle' = [s \in Subagent |-> IF rec[s] = "paused" /\ rc[s] = "cancelled"
                                       THEN NoJob ELSE handle[s]]
  BY DEF CancelBatch
<1>3. stopped \in SUBSET Job /\ ls \subseteq listed /\ Armed(stopped) \subseteq Job
  BY EvictionTypes
<1>4. \A s \in Subagent : cur[s] \in stopped => rec[s] \notin {"none", "running"}
  <2> SUFFICES ASSUME NEW s \in Subagent, cur[s] \in stopped
               PROVE  rec[s] \notin {"none", "running"}
    OBVIOUS
  <2>1. cur[s] \in Job /\ cur[s] \notin alive
    BY DEF IInv, CoreInv, Core, LiveStatusInv
  <2> QED BY <2>1 DEF IInv, CoreInv, Core, RecordInv, RunInv, NoJob, Job
<1>5. st \in [Job -> JobStatus] /\ rc \in [Subagent -> RecStatus] /\ q \in [Subagent -> Nat]
  BY DEF IInv, CoreInv, Core, CoreTypes, RestTypes, JobStatus, RecStatus
<1>6. \A k \in Job : st[k] = status[k] \/ (status[k] # "none" /\ st[k] = "cancelled")
  OBVIOUS
<1>7. \A t \in Subagent : \/ rc[t] = rec[t]
                          \/ rec[t] \notin {"none", "running"} /\ rc[t] = "cancelled"
  BY <1>4
<1>8. Core(st, who, alive, ls, rc, cur) /\ \A k \in Fresh : st[k] = "none"
  <2> HIDE DEF st, ls, rc
  <2> QED BY <1>3, <1>5, <1>6, <1>7, CancelledCore DEF IInv
<1>9. CoreInv'
  BY <1>1, <1>8, DrainKeepsCore, Zenon
<1>10. seq' \in [Subagent -> Nat]
  BY <1>1, <1>5, StartKeepsSeq
<1>11. RestTypes'
  BY <1>2, <1>3, <1>10 DEF IInv, RestTypes
<1> QED
  BY <1>9, <1>11 DEF IInv

\* Purging an owner's records: its runs, if any are left, have no record.
LEMMA PurgeIInv ==
    ASSUME IInv, NEW o \in Owner, Purge(o), who' = who, alive' = alive, pausing' = pausing,
           lease' \in [Owner -> LeaseType], timer' \in SUBSET Job, listed' \in SUBSET listed,
           status' \in [Job -> JobStatus],
           \A j \in Job : \/ status'[j] = status[j]
                          \/ status[j] # "none" /\ status'[j] = "cancelled"
    PROVE  IInv'
<1>1. /\ rec' \in [Subagent -> RecStatus] /\ cur' \in [Subagent -> Job \cup {NoJob}]
      /\ handle' \in [Subagent -> Job \cup {NoJob}] /\ seq' \in [Subagent -> Nat]
  BY DEF Purge, IInv, CoreInv, Core, CoreTypes, RestTypes, RecStatus, JobStatus
<1>2. \A s \in Subagent : \/ rec'[s] = "none" /\ cur'[s] = NoJob
                          \/ rec'[s] = rec[s] /\ cur'[s] = cur[s]
  BY DEF Purge
<1>3. RestTypes'
  BY <1>1 DEF IInv, RestTypes
<1>4. CoreTypes(status', who', alive', listed', rec', cur')
  BY <1>1 DEF IInv, CoreInv, Core, CoreTypes
<1>5. FreshInv(status', who', alive', listed') /\ LiveStatusInv(status', alive')
  BY DEF IInv, CoreInv, Core, CoreTypes, FreshInv, LiveStatusInv
<1>6. RecordInv(who', rec', cur') /\ RunInv(alive', rec', cur')
  BY <1>2 DEF IInv, CoreInv, Core, RecordInv, RunInv
<1>7. AliveInv(who', alive', rec', cur') /\ SingleInv(who', alive')
  BY <1>2 DEF IInv, CoreInv, Core, AliveInv, SingleInv
<1> QED
  BY <1>3, <1>4, <1>5, <1>6, <1>7 DEF IInv, CoreInv, Core

\* The lease keeps its type when its phase moves on.
LEMMA LeaseTypes ==
    ASSUME IInv, NEW o \in Owner
    PROVE  /\ lease[o] \in LeaseType
           /\ \A l \in LeaseType : [lease EXCEPT ![o] = l] \in [Owner -> LeaseType]
           /\ NoLease \in LeaseType
  BY DEF IInv, RestTypes, LeaseType, NoLease, Phase

LEMMA OwnerStepIInv ==
    ASSUME IInv, NEW o \in Owner,
           \/ CancelOwnAsyncJobs(o) \/ beginOwnerSubagentShutdown(o)
           \/ cancelAndProveOwnerSubagents(o) \/ Proof(o)
           \/ cancelAndSettleOwnerJobs(o) \/ Commit(o) \/ Release(o)
    PROVE  IInv'
<1> DEFINE quiet == UNCHANGED <<status, who, alive, listed, timer, rec, cur, seq, handle, pausing>>
<1>1. ASSUME quiet, lease' \in [Owner -> LeaseType] PROVE IInv'
  BY <1>1 DEF IInv, CoreInv, RestTypes
<1>2. CASE CancelOwnAsyncJobs(o)
  <2> DEFINE mine == {j \in Running(status, listed) : JobOwner(j) = o}
  <2>1. mine \in SUBSET Job /\ \A j \in mine : status[j] = "running"
    BY DEF Running, IInv, CoreInv, Core, CoreTypes
  <2>2. /\ status' = [j \in Job |-> IF j \in mine THEN "cancelled" ELSE status[j]]
        /\ listed' = Unlisted(mine) /\ timer' = Armed(mine) /\ Purge(o)
        /\ UNCHANGED <<who, alive, pausing, lease>>
    BY <1>2 DEF CancelOwnAsyncJobs
  <2>3. listed' \in SUBSET listed /\ timer' \in SUBSET Job
    BY <2>1, <2>2, EvictionTypes
  <2>4. status' \in [Job -> JobStatus]
    BY <2>2 DEF IInv, CoreInv, Core, CoreTypes, JobStatus
  <2>5. lease' \in [Owner -> LeaseType]
    BY <2>2 DEF IInv, RestTypes
  <2>6. \A j \in Job : \/ status'[j] = status[j]
                       \/ status[j] # "none" /\ status'[j] = "cancelled"
    BY <2>1, <2>2
  <2> QED BY <2>2, <2>3, <2>4, <2>5, <2>6, PurgeIInv
<1>3. CASE beginOwnerSubagentShutdown(o)
  <2>1. Unfinished(o) \subseteq Job /\ \A j \in Unfinished(o) : who[j] \in Subagent
    BY DEF Unfinished, Owned, IInv, CoreInv, Core, CoreTypes
  <2>2. LiveRecords(o) \subseteq Subagent
        /\ \A s \in LiveRecords(o) : cur[s] \in Job
    BY Zenon DEF LiveRecords, Owned, IInv, CoreInv, Core, RecordInv
  <2> DEFINE l == [phase |-> "active",
                   targets |-> LiveRecords(o) \cup {who[j] : j \in Unfinished(o)},
                   records |-> LiveRecords(o),
                   backing |-> {cur[s] : s \in {t \in LiveRecords(o) : rec[t] # "queued"}}
                                  \cup Unfinished(o),
                   captured |-> {}]
  <2>3. l \in LeaseType
    BY <2>1, <2>2 DEF LeaseType, Phase
  <2>4. lease' = [lease EXCEPT ![o] = l] /\ quiet
    BY <1>3, Zenon DEF beginOwnerSubagentShutdown, jobVars, recVars
  <2> HIDE DEF l
  <2> QED BY <2>3, <2>4, <1>1, LeaseTypes
<1>4. CASE cancelAndProveOwnerSubagents(o)
  <2>1. lease' = [lease EXCEPT ![o] = [lease[o] EXCEPT !.phase = "proving",
                                         !.captured = lease[o].backing \cap listed]]
    BY <1>4, LeaseTypes, Zenon DEF cancelAndProveOwnerSubagents, LeaseType, IInv, RestTypes
  <2>2. [lease[o] EXCEPT !.phase = "proving", !.captured = lease[o].backing \cap listed]
          \in LeaseType
    BY LeaseTypes, Zenon DEF LeaseType, Phase
  <2>3. lease' \in [Owner -> LeaseType]
    BY <2>1, <2>2, LeaseTypes
  <2>4. lease[o].backing \in SUBSET Job /\ lease[o].records \in SUBSET Subagent
    BY LeaseTypes DEF LeaseType
  <2> QED BY <1>4, <2>3, <2>4, CancelBatchIInv DEF cancelAndProveOwnerSubagents
<1>5. CASE Proof(o)
  <2>1. PICK p \in {"confirmed", "unconfirmed"} : lease' = [lease EXCEPT ![o].phase = p]
    BY <1>5, Zenon DEF Proof
  <2>2. lease' = [lease EXCEPT ![o] = [lease[o] EXCEPT !.phase = p]]
    BY <2>1
  <2>3. [lease[o] EXCEPT !.phase = p] \in LeaseType
    BY LeaseTypes DEF LeaseType, Phase
  <2>4. quiet
    BY <1>5 DEF Proof, jobVars, recVars
  <2> QED BY <2>2, <2>3, <2>4, <1>1, LeaseTypes
<1>6. CASE cancelAndSettleOwnerJobs(o)
  <2> DEFINE mine == {j \in listed : JobOwner(j) = o}
  <2>1. mine \in SUBSET Job /\ {} \in SUBSET Subagent
    BY DEF IInv, CoreInv, Core, CoreTypes
  <2>2. lease' = [lease EXCEPT ![o] = [lease[o] EXCEPT !.phase = "settling", !.captured = mine]]
    BY <1>6, LeaseTypes, Zenon DEF cancelAndSettleOwnerJobs, LeaseType, IInv, RestTypes
  <2>3. [lease[o] EXCEPT !.phase = "settling", !.captured = mine] \in LeaseType
    BY <2>1, LeaseTypes, Zenon DEF LeaseType, Phase
  <2>4. lease' \in [Owner -> LeaseType]
    BY <2>2, <2>3, LeaseTypes
  <2> QED BY <1>6, <2>1, <2>4, CancelBatchIInv, Zenon DEF cancelAndSettleOwnerJobs
<1>7. CASE Commit(o)
  <2>1. lease' \in [Owner -> LeaseType]
    BY <1>7, LeaseTypes, Zenon DEF Commit
  <2> QED BY <1>7, <2>1, PurgeIInv, Zenon DEF Commit, jobVars, IInv, CoreInv, Core, CoreTypes, RestTypes
<1>8. CASE Release(o)
  <2>1. lease' \in [Owner -> LeaseType] /\ quiet
    BY <1>8, LeaseTypes DEF Release, jobVars, recVars
  <2> QED BY <2>1, <1>1
<1> QED
  BY <1>2, <1>3, <1>4, <1>5, <1>6, <1>7, <1>8

-----------------------------------------------------------------------------
\* Every step keeps the invariant.
LEMMA NextIInv ==
    ASSUME IInv, [Next]_vars
    PROVE  IInv'
<1> USE ScopeAssumption
<1>1. ASSUME NEW s \in Subagent, Launch(s) \/ resumeSubagent(s) PROVE IInv'
  BY <1>1, StartIInv
<1>2. ASSUME NEW s \in Subagent, pauseSubagent(s) PROVE IInv'
  BY <1>2, QuietIInv
<1>3. ASSUME NEW s \in Subagent, cancelSubagent(s) PROVE IInv'
  BY <1>3, CancelSubagentIInv
<1>4. ASSUME NEW j \in Job, AttachHandle(j) \/ cancel(j) \/ Evict(j) PROVE IInv'
  BY <1>4, QuietIInv
<1>5. ASSUME NEW j \in Job, NEW out \in Ending, Settle(j, out) PROVE IInv'
  BY <1>5, SettleIInv
<1>6. ASSUME NEW o \in Owner, RegisterBash(o) PROVE IInv'
  BY <1>6, RegisterBashIInv
<1>7. ASSUME NEW o \in Closing,
             \/ CancelOwnAsyncJobs(o) \/ beginOwnerSubagentShutdown(o)
             \/ cancelAndProveOwnerSubagents(o) \/ Proof(o)
             \/ cancelAndSettleOwnerJobs(o) \/ Commit(o) \/ Release(o)
      PROVE  IInv'
  BY <1>7, OwnerStepIInv
<1>8. ASSUME NEW j \in Job, CancelPausedJob(j) PROVE IInv'
  BY <1>8, CancelPausedJobIInv
<1>9. CASE UNCHANGED vars
  BY <1>9, QuietIInv
<1> QED
  BY <1>1, <1>2, <1>3, <1>4, <1>5, <1>6, <1>7, <1>8, <1>9 DEF Next, Settlement

\* The relation of records and runs is invariant: whatever the order of launches,
\* pauses, cancellations, resumes, settlements, evictions, cleanups and shutdowns,
\* a record is running exactly while its one run is alive.
THEOREM RecordsAndRuns == Spec => []IInv
<1>1. Init => IInv
  BY InitIInv
<1>2. IInv /\ [Next]_vars => IInv'
  BY NextIInv
<1> QED
  BY <1>1, <1>2, PTL DEF Spec

\* Every variable keeps its type.
THEOREM TypeCorrect == Spec => []TypeOK
<1>1. IInv => TypeOK
  BY TypesFromIInv
<1> QED
  BY <1>1, RecordsAndRuns, PTL

\* No subagent ever has two live runs.
THEOREM OneLiveRun == Spec => []OneLiveRunPerSubagent
<1>1. IInv => OneLiveRunPerSubagent
  BY DEF IInv, CoreInv, Core, SingleInv, OneLiveRunPerSubagent
<1> QED
  BY <1>1, RecordsAndRuns, PTL

\* A record is running exactly while its run is alive.
THEOREM RecordsFollowRuns == Spec => []RecordFollowsRun
<1>1. IInv => RecordFollowsRun
  BY DEF IInv, CoreInv, Core, RecordInv, RunInv, AliveInv, RecordFollowsRun
<1> QED
  BY <1>1, RecordsAndRuns, PTL

-----------------------------------------------------------------------------
\* Starting runs takes unregistered jobs only, so a finished job keeps the status
\* the handler gave it.
LEMMA StartKeepsFinished ==
    ASSUME NEW T, NEW st, NEW al, NEW ls, NEW rc, NEW q, StartRuns(T, st, al, ls, rc, q),
           NEW k \in Job, status[k] \in Terminal
    PROVE  status'[k] = st[k]
<1>1. PICK num \in Numberings(T) :
        status' = [j \in Job |-> IF j \in Range(num) THEN "running" ELSE st[j]]
  BY DEF StartRuns
<1>2. Range(num) \subseteq Fresh
  BY DEF Numberings, Range
<1>3. k \notin Fresh
  BY DEF Fresh, Terminal
<1> QED BY <1>1, <1>2, <1>3

\* No step changes the status of a finished job.
LEMMA FinishedStays ==
    ASSUME IInv, [Next]_vars, NEW k \in Job, status[k] \in Terminal
    PROVE  status'[k] = status[k]
<1> USE ScopeAssumption
<1>0. status \in [Job -> JobStatus] /\ status[k] \notin {"none", "running", "paused"}
  BY DEF IInv, CoreInv, Core, CoreTypes, Terminal
<1>1. ASSUME NEW s \in Subagent, Launch(s) PROVE status'[k] = status[k]
  BY <1>1, StartKeepsFinished DEF Launch
<1>2. ASSUME NEW s \in Subagent, resumeSubagent(s) PROVE status'[k] = status[k]
  <2>1. CASE Cardinality(Running(status, listed)) >= MaxRunning
    BY <1>2, <2>1, Zenon DEF resumeSubagent, jobVars
  <2>2. CASE ~(Cardinality(Running(status, listed)) >= MaxRunning)
    <3>1. StartRuns({s}, status, alive, listed, rec, seq)
      BY <1>2, <2>2, Zenon DEF resumeSubagent
    <3> QED BY <3>1, StartKeepsFinished
  <2> QED BY <2>1, <2>2
<1>3. ASSUME NEW j \in Job, cancel(j) PROVE status'[k] = status[k]
  BY <1>0, <1>3 DEF cancel
<1>4. ASSUME NEW s \in Subagent, cancelSubagent(s) PROVE status'[k] = status[k]
  <2>1. CASE rec[s] = "running" /\ cancel(cur[s])
    BY <1>0, <2>1 DEF cancel
  <2>2. CASE CancelPaused(s)
    <3> DEFINE j == cur[s]
               stopped == j \in listed /\ status[j] = "paused"
               st == [i \in Job |-> IF stopped /\ i = j THEN "cancelled" ELSE status[i]]
    <3>1. status'[k] = st[k]
      BY <2>2, StartKeepsFinished, Zenon DEF CancelPaused, Drain
    <3> QED BY <1>0, <3>1
  <2>3. CASE CancelQueued(s)
    BY <2>3 DEF CancelQueued, jobVars
  <2> QED BY <1>4, <2>1, <2>2, <2>3, Zenon DEF cancelSubagent
<1>5. ASSUME NEW j \in Job, CancelPausedJob(j) PROVE status'[k] = status[k]
  <2> DEFINE st == [i \in Job |-> IF i = j THEN "cancelled" ELSE status[i]]
  <2>1. status'[k] = st[k]
    BY <1>5, StartKeepsFinished, Zenon DEF CancelPausedJob, Drain
  <2>2. k # j
    BY <1>0, <1>5, Zenon DEF CancelPausedJob
  <2> QED BY <2>1, <2>2
<1>6. ASSUME NEW j \in Job, NEW out \in Ending, Settle(j, out) PROVE status'[k] = status[k]
  <2> DEFINE st == [status EXCEPT ![j] = Outcome(j, out)]
  <2>1. status'[k] = st[k]
    BY <1>6, StartKeepsFinished, Zenon DEF Settle, Drain
  <2>2. CASE k # j
    BY <1>0, <2>1, <2>2
  <2>3. CASE k = j
    <3>1. status[j] = "cancelled"
      BY <1>0, <1>6, <2>3 DEF Settle, IInv, CoreInv, Core, LiveStatusInv
    <3> QED BY <1>0, <2>1, <2>3, <3>1 DEF Outcome
  <2> QED BY <2>2, <2>3
<1>7. ASSUME NEW o \in Owner, RegisterBash(o) PROVE status'[k] = status[k]
  BY <1>0, <1>7 DEF RegisterBash, Fresh
<1>8. ASSUME NEW o \in Closing, CancelOwnAsyncJobs(o) PROVE status'[k] = status[k]
  BY <1>0, <1>8 DEF CancelOwnAsyncJobs, Running
<1>9. ASSUME NEW J, NEW S, CancelBatch(J, S) PROVE status'[k] = status[k]
  <2> DEFINE stopped == {j \in J \cap listed : status[j] = "paused"}
             aborted == {j \in J \cap listed : status[j] = "running"}
             st == [j \in Job |-> IF j \in stopped \cup aborted THEN "cancelled" ELSE status[j]]
  <2>1. status'[k] = st[k]
    BY <1>9, StartKeepsFinished, Zenon DEF CancelBatch
  <2>2. k \notin stopped \cup aborted
    BY <1>0
  <2> QED BY <2>1, <2>2
<1>10. ASSUME NEW o \in Closing, cancelAndProveOwnerSubagents(o) \/ cancelAndSettleOwnerJobs(o)
       PROVE  status'[k] = status[k]
  BY <1>9, <1>10 DEF cancelAndProveOwnerSubagents, cancelAndSettleOwnerJobs
<1>11. ASSUME UNCHANGED jobVars PROVE status'[k] = status[k]
  BY <1>11 DEF jobVars
<1>12. ASSUME NEW j \in Job, Evict(j) PROVE status'[k] = status[k]
  BY <1>12 DEF Evict
<1>13. ASSUME NEW s \in Subagent, pauseSubagent(s) PROVE UNCHANGED jobVars
  BY <1>13 DEF pauseSubagent
<1>14. ASSUME NEW j \in Job, AttachHandle(j) PROVE UNCHANGED jobVars
  BY <1>14 DEF AttachHandle
<1>15. ASSUME NEW o \in Closing,
              beginOwnerSubagentShutdown(o) \/ Proof(o) \/ Commit(o) \/ Release(o)
       PROVE  UNCHANGED jobVars
  BY <1>15 DEF beginOwnerSubagentShutdown, Proof, Commit, Release
<1>16. CASE UNCHANGED vars
  BY <1>16 DEF vars, jobVars
<1> QED
  BY <1>1, <1>2, <1>3, <1>4, <1>5, <1>6, <1>7, <1>8, <1>10, <1>11, <1>12, <1>13, <1>14,
     <1>15, <1>16, Zenon DEF Next, Settlement

\* The first terminal status of a job stands.
THEOREM FinishedIsFinal == Spec => TerminalStatusStands
<1>1. IInv /\ [Next]_vars
        => [\A j \in Job : status[j] \in Terminal => status'[j] = status[j]]_vars
  BY FinishedStays
<1> QED
  BY <1>1, RecordsAndRuns, PTL DEF Spec, TerminalStatusStands
=============================================================================
