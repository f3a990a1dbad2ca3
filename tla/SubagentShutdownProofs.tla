----------------------- MODULE SubagentShutdownProofs ----------------------
(* The owner shutdown lease of SubagentControl: what a confirmed proof means, *)
(* that nothing starts behind the fence, and that a replaced session leaves   *)
(* no listed job alive.                                                       *)
EXTENDS SubagentControlProofs

Live == {"running", "paused", "queued"}

\* What no step does to an owner that holds a lease, stated of the values st, wh,
\* al, ls, rc that a handler has reached: no record comes alive, no job is added to
\* the owner's live listed jobs, no job changes hands, no settled job revives, and
\* no job of the owner is registered.
Frame(o, st, wh, al, ls, rc) ==
    /\ \A s \in Owned(o) : rc[s] \in Live => rec[s] \in Live
    /\ \A j \in ls \cap al : wh[j] \in Owned(o) \cup {o} => j \in listed \cap alive
    /\ \A j \in Job : status[j] # "none" => st[j] # "none" /\ wh[j] = who[j]
    /\ \A j \in al : status[j] # "none" => j \in alive
    /\ \A j \in Fresh : st[j] # "none" => wh[j] \notin Owned(o) \cup {o}

\* The invariant of a held lease: its targets cover the owner's live records, its
\* backing jobs cover the live listed runs, and after a confirmed proof none of
\* them is left; while the owner's jobs settle, the captured promises cover them.
LeaseInv(o) ==
    LET l == lease[o]
    IN  l.phase # "none" =>
          /\ l.targets \subseteq Owned(o)
          /\ \A s \in Owned(o) : rec[s] \in Live => s \in l.targets
          /\ \A j \in listed \cap alive : who[j] \in Owned(o) => j \in l.backing
          /\ \A j \in l.backing : status[j] # "none" /\ who[j] \in l.targets
          /\ l.phase \in {"confirmed", "settling"} =>
                /\ \A s \in l.targets : rec[s] \notin Live
                /\ l.backing \cap alive = {}
          /\ l.phase = "settling" =>
                \A j \in listed \cap alive : who[j] \in Owned(o) \cup {o} => j \in l.captured

\* The inductive invariant of the shutdown.
ShutdownInv == IInv /\ \A o \in Owner : LeaseInv(o)

-----------------------------------------------------------------------------
\* Starting runs of other owners keeps the frame of a fenced owner.
LEMMA StartKeepsFrame ==
    ASSUME IInv, NEW o \in Owner, NEW T \in SUBSET Subagent,
           NEW st, NEW al, NEW ls, NEW rc, NEW q,
           Frame(o, st, who, al, ls, rc), \A s \in T : OwnerOf[s] # o,
           al \subseteq alive, ls \subseteq listed,
           StartRuns(T, st, al, ls, rc, q)
    PROVE  Frame(o, status', who', alive', listed', rec')
<1>1. PICK num \in Numberings(T) :
        /\ status' = [j \in Job |-> IF j \in Range(num) THEN "running" ELSE st[j]]
        /\ who' = [j \in Job |-> IF j \in Range(num)
                                 THEN CHOOSE s \in T : num[s] = j ELSE who[j]]
        /\ alive' = al \cup Range(num)
        /\ listed' = ls \cup Range(num)
        /\ rec' = [s \in Subagent |-> IF s \in T THEN "running" ELSE rc[s]]
  BY Zenon DEF StartRuns
<1> DEFINE new == Range(num)
<1>2. num \in [T -> Fresh] /\ IsInjective(num)
  BY DEF Numberings
<1>3. new \subseteq Fresh /\ Fresh \subseteq Job /\ \A j \in Fresh : status[j] = "none"
  BY <1>2 DEF Range, Fresh
<1>4. \A j \in new : who'[j] \in T
  <2> SUFFICES ASSUME NEW j \in new PROVE who'[j] \in T
    OBVIOUS
  <2>1. PICK s \in T : num[s] = j
    BY <1>2 DEF Range
  <2>2. (CHOOSE t \in T : num[t] = num[s]) = s
    BY <1>2, InverseOfNumbering
  <2> QED BY <2>1, <2>2, <1>1, <1>3
<1>5. \A s \in T : s \notin Owned(o) \cup {o}
  BY DisjointAssumption DEF Owned
<1>6. alive \subseteq Job /\ \A j \in alive : j \notin new
  BY <1>3 DEF IInv, CoreInv, Core, CoreTypes, FreshInv
<1>7. \A j \in Job \ new : who'[j] = who[j] /\ status'[j] = st[j]
  BY <1>1
<1>8. \A s \in Owned(o) : rec'[s] \in Live => rec[s] \in Live
  BY <1>1, <1>5 DEF Frame, Owned
<1>9. \A j \in listed' \cap alive' : who'[j] \in Owned(o) \cup {o} => j \in listed \cap alive
  BY <1>1, <1>4, <1>5, <1>6, <1>7 DEF Frame
<1>10. \A j \in Job : status[j] # "none" => status'[j] # "none" /\ who'[j] = who[j]
  BY <1>3, <1>7 DEF Frame
<1>11. \A j \in alive' : status[j] # "none" => j \in alive
  BY <1>1, <1>3
<1>12. \A j \in Fresh : status'[j] # "none" => who'[j] \notin Owned(o) \cup {o}
  BY <1>3, <1>4, <1>5, <1>7 DEF Frame
<1> QED
  BY <1>8, <1>9, <1>10, <1>11, <1>12 DEF Frame

\* A drain starts no run of a fenced owner.
LEMMA DrainKeepsFrame ==
    ASSUME IInv, NEW o \in Owner, Fenced(o), NEW st, NEW al, NEW ls, NEW rc, NEW q, NEW free,
           Frame(o, st, who, al, ls, rc), al \subseteq alive, ls \subseteq listed,
           StartRuns(Startable(rc, q, free), st, al, ls, rc, q)
    PROVE  Frame(o, status', who', alive', listed', rec')
<1>1. Startable(rc, q, free) \in SUBSET Subagent
      /\ \A s \in Startable(rc, q, free) : OwnerOf[s] # o
  BY DEF Startable, FirstOf
<1> QED
  BY <1>1, StartKeepsFrame

\* Cancelling keeps the frame.
LEMMA CancelledFrame ==
    ASSUME IInv, NEW o \in Owner, NEW st, NEW rc, NEW al \in SUBSET alive,
           NEW ls \in SUBSET listed,
           \A j \in Job : st[j] = status[j] \/ (status[j] # "none" /\ st[j] # "none"),
           \A s \in Subagent : rc[s] = rec[s] \/ rc[s] \in Terminal \cup {"none"}
                               \/ rec[s] \in Live
    PROVE  Frame(o, st, who, al, ls, rc)
<1>1. \A j \in Fresh : status[j] = "none" /\ j \in Job
  BY DEF Fresh
<1> QED
  BY <1>1 DEF Frame, Owned, Live, Terminal

\* No step breaks the frame of an owner that holds a lease.
LEMMA FenceHolds ==
    ASSUME IInv, NEW o \in Owner, Fenced(o), [Next]_vars
    PROVE  Frame(o, status', who', alive', listed', rec')
<1> DEFINE Goal == Frame(o, status', who', alive', listed', rec')
<1>0. CoreTypes(status, who, alive, listed, rec, cur)
  BY DEF IInv, CoreInv, Core
<1>q. ASSUME who' = who, alive' \subseteq alive, listed' \subseteq listed,
             \A j \in Job : status'[j] = status[j] \/ (status[j] # "none" /\ status'[j] # "none"),
             \A s \in Subagent : rec'[s] = rec[s] \/ rec'[s] \in Terminal \cup {"none"}
                                 \/ rec[s] \in Live
      PROVE  Goal
  BY <1>q, CancelledFrame
<1>1. ASSUME NEW s \in Subagent, Launch(s) \/ resumeSubagent(s) PROVE Goal
  <2>1. OwnerOf[s] # o
    BY <1>1 DEF Launch, resumeSubagent, CanRegister
  <2>2. CASE StartRuns({s}, status, alive, listed, rec, seq)
    <3>1. Frame(o, status, who, alive, listed, rec)
      BY CancelledFrame
    <3> QED BY <2>1, <2>2, <3>1, StartKeepsFrame
  <2>3. CASE ~StartRuns({s}, status, alive, listed, rec, seq)
    <3>1. rec' = [rec EXCEPT ![s] = "queued"] /\ UNCHANGED <<status, who, alive, listed>>
      BY <1>1, <2>3 DEF Launch, resumeSubagent, jobVars
    <3>2. Frame(o, status, who, alive, listed, rec)
      BY CancelledFrame
    <3>3. \A t \in Owned(o) : rec'[t] = rec[t]
      BY <2>1, <3>1, <1>0 DEF CoreTypes, Owned
    <3> QED BY <3>1, <3>2, <3>3 DEF Frame
  <2> QED BY <2>2, <2>3
<1>2. ASSUME NEW s \in Subagent, pauseSubagent(s) PROVE Goal
  BY <1>2, <1>q DEF pauseSubagent, jobVars
<1>3. ASSUME NEW j \in Job, AttachHandle(j) PROVE Goal
  BY <1>3, <1>q DEF AttachHandle, jobVars
<1>4. ASSUME NEW j \in Job, cancel(j) PROVE Goal
  BY <1>4, <1>q, <1>0 DEF cancel, recVars, CoreTypes
<1>5. ASSUME NEW j \in Job, Evict(j) PROVE Goal
  BY <1>5, <1>q DEF Evict
<1>6. ASSUME NEW s \in Subagent, cancelSubagent(s) PROVE Goal
  <2>1. CASE rec[s] = "running" /\ cancel(cur[s])
    <3>1. cur[s] \in Job
      BY <2>1 DEF IInv, CoreInv, Core, RecordInv
    <3> QED BY <2>1, <3>1, <1>4
  <2>2. CASE CancelPaused(s)
    <3> DEFINE j == cur[s]
               stopped == j \in listed /\ status[j] = "paused"
               st == [k \in Job |-> IF stopped /\ k = j THEN "cancelled" ELSE status[k]]
               ls == IF stopped THEN Unlisted({j}) ELSE listed
               rc == [rec EXCEPT ![s] = "cancelled"]
    <3>1. j \in Job /\ Drain(st, alive, ls, rc, seq)
      BY <2>2 DEF CancelPaused, IInv, CoreInv, Core, RecordInv
    <3>2. ls \subseteq listed
      BY <3>1, EvictionTypes
    <3>3. \A k \in Job : st[k] = status[k] \/ (status[k] # "none" /\ st[k] # "none")
      OBVIOUS
    <3>4. \A t \in Subagent : rc[t] = rec[t] \/ rc[t] \in Terminal \cup {"none"} \/ rec[t] \in Live
      BY <1>0 DEF CoreTypes, Terminal
    <3> HIDE DEF st, ls, rc
    <3>5. Frame(o, st, who, alive, ls, rc)
      BY <3>2, <3>3, <3>4, CancelledFrame
    <3> QED BY <3>1, <3>2, <3>5, DrainKeepsFrame DEF Drain
  <2>3. CASE CancelQueued(s)
    BY <2>3, <1>q, <1>0 DEF CancelQueued, jobVars, CoreTypes, Terminal
  <2> QED BY <1>6, <2>1, <2>2, <2>3 DEF cancelSubagent
<1>c. ASSUME NEW j \in Job, CancelPausedJob(j) PROVE Goal
  <2> DEFINE st == [k \in Job |-> IF k = j THEN "cancelled" ELSE status[k]]
             ls == Unlisted({j})
             rc == Marked(j, "cancelled")
  <2>1. status[j] = "paused" /\ Drain(st, alive, ls, rc, seq)
    BY <1>c DEF CancelPausedJob
  <2>2. ls \subseteq listed
    BY EvictionTypes
  <2>3. \A k \in Job : st[k] = status[k] \/ (status[k] # "none" /\ st[k] # "none")
    BY <2>1
  <2>4. \A t \in Subagent : rc[t] = rec[t] \/ rc[t] \in Terminal \cup {"none"} \/ rec[t] \in Live
    BY DEF Marked, Terminal
  <2> HIDE DEF st, ls, rc
  <2>5. Frame(o, st, who, alive, ls, rc)
    BY <2>2, <2>3, <2>4, CancelledFrame
  <2> QED BY <2>1, <2>2, <2>5, DrainKeepsFrame DEF Drain
<1>7. ASSUME NEW j \in Job, NEW out \in Ending, Settle(j, out) PROVE Goal
  <2> DEFINE final == Outcome(j, out)
             st == [status EXCEPT ![j] = final]
             al == alive \ {j}
             ls == IF final = "paused" THEN listed ELSE Unlisted({j})
             rc == Marked(j, final)
  <2>1. final \notin {"none", "running"} /\ j \in alive /\ status[j] # "none"
    BY <1>7, ScopeAssumption DEF Settle, Outcome, IInv, CoreInv, Core, FreshInv
  <2>2. Drain(st, al, ls, rc, seq) /\ ls \subseteq listed
    BY <1>7, EvictionTypes DEF Settle
  <2>3. \A k \in Job : st[k] = status[k] \/ (status[k] # "none" /\ st[k] # "none")
    BY <2>1, <1>0 DEF CoreTypes
  <2>4. \A t \in Subagent : rc[t] = rec[t] \/ rec[t] \in Live
    <3> SUFFICES ASSUME NEW t \in Subagent, cur[t] = j PROVE rec[t] \in Live
      BY DEF Marked
    <3>1. who[j] = t /\ rec[t] # "none"
      BY DEF IInv, CoreInv, Core, RecordInv, NoJob, Job
    <3> QED BY <3>1, <2>1 DEF IInv, CoreInv, Core, AliveInv, Live
  <2> HIDE DEF st, al, ls, rc
  <2>5. al \subseteq alive
    BY DEF al
  <2>6. Frame(o, st, who, al, ls, rc)
    BY <2>2, <2>3, <2>4, <2>5, CancelledFrame
  <2> QED BY <2>2, <2>5, <2>6, DrainKeepsFrame DEF Drain
<1>8. ASSUME NEW p \in Owner, RegisterBash(p) PROVE Goal
  <2>1. PICK j \in Fresh :
          /\ status' = [status EXCEPT ![j] = "running"]
          /\ who' = [who EXCEPT ![j] = p]
          /\ alive' = alive \cup {j}
          /\ listed' = listed \cup {j}
    BY <1>8, Zenon DEF RegisterBash
  <2>2. rec' = rec /\ p # o
    BY <1>8 DEF RegisterBash, recVars, CanRegister
  <2>3. p \notin Owned(o) \cup {o} /\ j \in Job /\ status[j] = "none"
    BY <2>2, DisjointAssumption DEF Owned, Fresh
  <2>4. \A k \in Job : who'[k] = (IF k = j THEN p ELSE who[k])
                       /\ status'[k] = (IF k = j THEN "running" ELSE status[k])
    BY <2>1, <2>3, <1>0 DEF CoreTypes
  <2>5. alive \subseteq Job /\ \A k \in Fresh : k \in Job /\ status[k] = "none"
    BY <1>0 DEF CoreTypes, Fresh
  <2> QED BY <2>1, <2>2, <2>3, <2>4, <2>5 DEF Frame
<1>9. ASSUME NEW J \in SUBSET Job, NEW S \in SUBSET Subagent, CancelBatch(J, S) PROVE Goal
  <2> DEFINE stopped == {j \in J \cap listed : status[j] = "paused"}
             aborted == {j \in J \cap listed : status[j] = "running"}
             st == [j \in Job |-> IF j \in stopped \cup aborted THEN "cancelled" ELSE status[j]]
             rc == [s \in Subagent |->
                      IF cur[s] \in stopped \/ (s \in S /\ rec[s] \in {"paused", "queued"})
                      THEN "cancelled" ELSE rec[s]]
             q == [s \in Subagent |-> IF s \in S THEN 0 ELSE seq[s]]
             ls == Unlisted(stopped)
  <2>1. PICK free : StartRuns(Startable(rc, q, free), st, alive, ls, rc, q)
    BY <1>9, Zenon DEF CancelBatch
  <2>2. ls \subseteq listed
    BY EvictionTypes
  <2>3. \A k \in Job : st[k] = status[k] \/ (status[k] # "none" /\ st[k] # "none")
    OBVIOUS
  <2>4. \A t \in Subagent : rc[t] = rec[t] \/ rc[t] \in Terminal \cup {"none"} \/ rec[t] \in Live
    BY DEF Terminal
  <2> HIDE DEF st, ls, rc, q
  <2>5. Frame(o, st, who, alive, ls, rc)
    BY <2>2, <2>3, <2>4, CancelledFrame
  <2> QED BY <2>1, <2>2, <2>5, DrainKeepsFrame
<1>10. ASSUME NEW p \in Owner, Purge(p), who' = who, alive' = alive, listed' \subseteq listed,
              \A j \in Job : status'[j] = status[j] \/ (status[j] # "none" /\ status'[j] # "none")
       PROVE  Goal
  <2>1. \A s \in Subagent : rec'[s] = rec[s] \/ rec'[s] = "none"
    BY <1>10 DEF Purge
  <2> QED BY <2>1, <1>10, <1>q
<1>11. ASSUME NEW p \in Owner, CancelOwnAsyncJobs(p) PROVE Goal
  <2> DEFINE mine == {j \in Running(status, listed) : JobOwner(j) = p}
  <2>1. mine \in SUBSET Job /\ \A j \in mine : status[j] = "running"
    BY <1>0 DEF Running, CoreTypes
  <2>2. /\ status' = [j \in Job |-> IF j \in mine THEN "cancelled" ELSE status[j]]
        /\ listed' = Unlisted(mine) /\ Purge(p) /\ UNCHANGED <<who, alive>>
    BY <1>11 DEF CancelOwnAsyncJobs
  <2>3. listed' \subseteq listed
    BY <2>1, <2>2, EvictionTypes
  <2>4. \A j \in Job : status'[j] = status[j] \/ (status[j] # "none" /\ status'[j] # "none")
    BY <2>1, <2>2
  <2> QED BY <2>2, <2>3, <2>4, <1>10
<1>12. ASSUME NEW p \in Owner, beginOwnerSubagentShutdown(p) \/ Proof(p) \/ Release(p) PROVE Goal
  BY <1>12, <1>q DEF beginOwnerSubagentShutdown, Proof, Release, jobVars, recVars
<1>13. ASSUME NEW p \in Owner, cancelAndProveOwnerSubagents(p) PROVE Goal
  <2>1. lease[p].backing \in SUBSET Job /\ lease[p].records \in SUBSET Subagent
    BY LeaseTypes DEF LeaseType
  <2> QED BY <1>13, <2>1, <1>9 DEF cancelAndProveOwnerSubagents
<1>14. ASSUME NEW p \in Owner, cancelAndSettleOwnerJobs(p) PROVE Goal
  <2>1. {j \in listed : JobOwner(j) = p} \in SUBSET Job /\ {} \in SUBSET Subagent
    BY <1>0 DEF CoreTypes
  <2> QED BY <1>14, <2>1, <1>9 DEF cancelAndSettleOwnerJobs
<1>15. ASSUME NEW p \in Owner, Commit(p) PROVE Goal
  BY <1>15, <1>10 DEF Commit, jobVars
<1>16. CASE UNCHANGED vars
  BY <1>16, <1>q DEF vars
<1> QED
  BY <1>1, <1>2, <1>3, <1>4, <1>5, <1>6, <1>c, <1>7, <1>8, <1>11, <1>12, <1>13, <1>14, <1>15,
     <1>16, ScopeAssumption DEF Next, Settlement

-----------------------------------------------------------------------------
\* With the frame kept, a lease that keeps its targets and backing jobs and does not
\* claim more than before keeps its invariant.
LEMMA FrameKeepsLease ==
    ASSUME IInv, NEW o \in Owner, Fenced(o), LeaseInv(o),
           Frame(o, status', who', alive', listed', rec'), alive' \subseteq Job,
           rec' \in [Subagent -> RecStatus],
           lease'[o].targets = lease[o].targets, lease'[o].backing = lease[o].backing,
           lease'[o].phase \in {"confirmed", "settling"}
             => lease[o].phase \in {"confirmed", "settling"},
           lease'[o].phase = "settling" =>
               \A j \in listed' \cap alive' :
                   who'[j] \in Owned(o) \cup {o} => j \in lease'[o].captured
    PROVE  LeaseInv(o)'
<1> DEFINE l == lease[o]
           m == lease'[o]
<1>1. l \in LeaseType /\ l.backing \subseteq Job /\ l.targets \subseteq Subagent
  BY LeaseTypes DEF LeaseType
<1>2. \A j \in Job : status[j] # "none" => status'[j] # "none" /\ who'[j] = who[j]
  BY DEF Frame
<1>3. \A j \in alive : j \in Job /\ status[j] # "none"
  BY DEF IInv, CoreInv, Core, CoreTypes, FreshInv
<1>4. \A s \in Owned(o) : rec'[s] \in Live => s \in m.targets
  BY DEF Frame, LeaseInv, Fenced
<1>5. \A j \in listed' \cap alive' : who'[j] \in Owned(o) => j \in m.backing
  BY <1>2, <1>3 DEF Frame, LeaseInv, Fenced
<1>6. \A j \in m.backing : status'[j] # "none" /\ who'[j] \in m.targets
  BY <1>1, <1>2 DEF LeaseInv, Fenced
<1>7. ASSUME m.phase \in {"confirmed", "settling"}
      PROVE  (\A s \in m.targets : rec'[s] \notin Live) /\ m.backing \cap alive' = {}
  <2>1. (\A s \in l.targets : rec[s] \notin Live) /\ l.backing \cap alive = {}
    BY <1>7 DEF LeaseInv, Fenced
  <2>2. l.backing \cap alive' = {}
    BY <2>1, <1>1 DEF Frame, LeaseInv, Fenced
  <2>3. \A s \in l.targets : s \in Owned(o) => rec'[s] \notin Live
    BY <2>1 DEF Frame
  <2> QED BY <2>2, <2>3 DEF LeaseInv, Fenced
<1>8. m.targets \subseteq Owned(o)
  BY DEF LeaseInv, Fenced
<1> QED
  BY <1>4, <1>5, <1>6, <1>7, <1>8 DEF LeaseInv, Owned

\* The lease of another owner is not touched by an owner's own steps.
LEMMA OtherLeases ==
    ASSUME IInv, NEW o \in Owner, NEW p \in Owner, NEW l, lease' = [lease EXCEPT ![p] = l]
    PROVE  lease'[o] = IF o = p THEN l ELSE lease[o]
  BY DEF IInv, RestTypes

\* The owner's live listed jobs are covered by the captured promises while they
\* settle: nothing joins them.
LEMMA CapturedKept ==
    ASSUME IInv, NEW o \in Owner, Fenced(o), LeaseInv(o), lease[o].phase = "settling",
           Frame(o, status', who', alive', listed', rec')
    PROVE  \A j \in listed' \cap alive' :
              who'[j] \in Owned(o) \cup {o} => j \in lease[o].captured
<1> SUFFICES ASSUME NEW j \in listed' \cap alive', who'[j] \in Owned(o) \cup {o}
             PROVE  j \in lease[o].captured
  OBVIOUS
<1>1. j \in listed \cap alive
  BY DEF Frame
<1>2. j \in Job /\ status[j] # "none"
  BY <1>1 DEF IInv, CoreInv, Core, CoreTypes, FreshInv
<1>3. who[j] = who'[j]
  BY <1>2 DEF Frame
<1> QED
  BY <1>1, <1>3 DEF LeaseInv

\* Taking the lease captures the owner's live records and unfinished jobs.
LEMMA BeginLease ==
    ASSUME IInv, NEW o \in Owner, beginOwnerSubagentShutdown(o)
    PROVE  LeaseInv(o)'
<1> DEFINE l == [phase |-> "active",
                 targets |-> LiveRecords(o) \cup {who[j] : j \in Unfinished(o)},
                 records |-> LiveRecords(o),
                 backing |-> {cur[s] : s \in {t \in LiveRecords(o) : rec[t] # "queued"}}
                                \cup Unfinished(o),
                 captured |-> {}]
<1>1. lease'[o] = l
  BY DEF beginOwnerSubagentShutdown, IInv, RestTypes
<1>2. UNCHANGED <<status, who, alive, listed, rec, cur>>
  BY DEF beginOwnerSubagentShutdown, jobVars, recVars
<1>3. l.targets \subseteq Owned(o)
  BY DEF LiveRecords, Unfinished
<1>4. \A s \in Owned(o) : rec[s] \in Live => s \in l.targets
  BY DEF LiveRecords, Live
<1>5. ASSUME NEW j \in listed \cap alive, who[j] \in Owned(o) PROVE j \in l.backing
  <2>1. j \in Job /\ who[j] \in Subagent
    BY <1>5 DEF IInv, CoreInv, Core, CoreTypes, Owned
  <2>2. CASE rec[who[j]] # "none"
    <3>1. cur[who[j]] = j /\ rec[who[j]] = "running"
      BY <2>1, <2>2, <1>5 DEF IInv, CoreInv, Core, AliveInv
    <3> QED BY <3>1, <1>5 DEF LiveRecords
  <2>3. CASE rec[who[j]] = "none"
    <3>1. status[j] \in {"running", "paused", "cancelled"}
      BY <1>5 DEF IInv, CoreInv, Core, LiveStatusInv
    <3> QED BY <3>1, <1>5 DEF Unfinished
  <2> QED BY <2>2, <2>3
<1>6. ASSUME NEW j \in l.backing PROVE status[j] # "none" /\ who[j] \in l.targets
  <2>1. CASE j \in Unfinished(o)
    BY <2>1 DEF Unfinished
  <2>2. CASE \E s \in LiveRecords(o) : j = cur[s]
    <3>1. PICK s \in LiveRecords(o) : j = cur[s]
      BY <2>2
    <3>2. s \in Subagent /\ j \in Job /\ who[j] = s
      BY <3>1 DEF LiveRecords, Owned, IInv, CoreInv, Core, RecordInv
    <3>3. s # Nobody
      BY <3>2, DisjointAssumption DEF Nobody
    <3> QED BY <3>1, <3>2, <3>3 DEF IInv, CoreInv, Core, FreshInv
  <2> QED BY <1>6, <2>1, <2>2
<1> HIDE DEF l
<1>7. l.phase = "active"
  BY DEF l
<1> QED
  BY <1>1, <1>2, <1>3, <1>4, <1>5, <1>6, <1>7 DEF LeaseInv, Owned

\* Only the owner's own shutdown steps change its lease.
LEMMA LeaseChanges ==
    ASSUME IInv, [Next]_vars, NEW o \in Owner
    PROVE  \/ lease'[o] = lease[o]
           \/ beginOwnerSubagentShutdown(o) \/ cancelAndProveOwnerSubagents(o) \/ Proof(o)
           \/ cancelAndSettleOwnerJobs(o) \/ Commit(o) \/ Release(o)
<1> DEFINE Goal == \/ lease'[o] = lease[o]
                   \/ beginOwnerSubagentShutdown(o) \/ cancelAndProveOwnerSubagents(o) \/ Proof(o)
                   \/ cancelAndSettleOwnerJobs(o) \/ Commit(o) \/ Release(o)
<1>1. ASSUME NEW s \in Subagent,
             Launch(s) \/ resumeSubagent(s) \/ pauseSubagent(s) \/ cancelSubagent(s)
      PROVE  Goal
  BY <1>1 DEF Launch, resumeSubagent, pauseSubagent, cancelSubagent, cancel, CancelPaused,
              CancelQueued
<1>2. ASSUME NEW j \in Job,
             AttachHandle(j) \/ cancel(j) \/ CancelPausedJob(j) \/ Evict(j)
      PROVE  Goal
  BY <1>2, Zenon DEF AttachHandle, cancel, CancelPausedJob, Evict
<1>3. ASSUME NEW j \in Job, NEW out \in Ending, Settle(j, out) PROVE Goal
  BY <1>3 DEF Settle
<1>4. ASSUME NEW p \in Owner, RegisterBash(p) \/ CancelOwnAsyncJobs(p) PROVE Goal
  BY <1>4 DEF RegisterBash, CancelOwnAsyncJobs
<1>5. ASSUME NEW p \in Owner,
             \/ beginOwnerSubagentShutdown(p) \/ cancelAndProveOwnerSubagents(p) \/ Proof(p)
             \/ cancelAndSettleOwnerJobs(p) \/ Commit(p) \/ Release(p)
      PROVE  Goal
  <2>1. CASE p = o
    BY <1>5, <2>1
  <2>2. CASE p # o
    <3>1. lease'[o] = lease[o]
      BY <1>5, <2>2 DEF beginOwnerSubagentShutdown, cancelAndProveOwnerSubagents, Proof,
                        cancelAndSettleOwnerJobs, Commit, Release, IInv, RestTypes
    <3> QED BY <3>1
  <2> QED BY <2>1, <2>2
<1>6. CASE UNCHANGED vars
  BY <1>6 DEF vars
<1> QED
  BY <1>1, <1>2, <1>3, <1>4, <1>5, <1>6, ScopeAssumption, Zenon DEF Next, Settlement

\* Every step keeps the invariant of every lease.
LEMMA NextLeaseInv ==
    ASSUME ShutdownInv, [Next]_vars, NEW o \in Owner
    PROVE  LeaseInv(o)'
<1>1. IInv /\ LeaseInv(o) /\ IInv'
  BY NextIInv DEF ShutdownInv
<1>2. alive' \subseteq Job /\ rec' \in [Subagent -> RecStatus]
  BY <1>1 DEF IInv, CoreInv, Core, CoreTypes
<1>3. CASE ~Fenced(o)
  <2>1. CASE beginOwnerSubagentShutdown(o)
    BY <2>1, <1>1, BeginLease
  <2>2. CASE lease'[o].phase = "none"
    BY <2>2 DEF LeaseInv
  <2>3. beginOwnerSubagentShutdown(o) \/ lease'[o].phase = "none"
    <3>1. lease'[o] = lease[o] \/ beginOwnerSubagentShutdown(o)
      BY <1>1, <1>3, LeaseChanges, Zenon
           DEF Fenced, cancelAndProveOwnerSubagents, Proof, cancelAndSettleOwnerJobs, Commit, Release
    <3> QED BY <3>1, <1>3 DEF Fenced
  <2> QED BY <2>1, <2>2, <2>3
<1>4. CASE Fenced(o)
  <2>1. Frame(o, status', who', alive', listed', rec')
    BY <1>1, <1>4, FenceHolds
  <2>2. lease \in [Owner -> LeaseType] /\ lease[o] \in LeaseType
    BY <1>1, LeaseTypes DEF IInv, RestTypes
  <2>3. CASE lease'[o] = lease[o]
    BY <2>1, <2>3, <1>1, <1>2, <1>4, CapturedKept, FrameKeepsLease
  <2>4. CASE cancelAndProveOwnerSubagents(o)
    <3>1. /\ lease'[o].targets = lease[o].targets /\ lease'[o].backing = lease[o].backing
          /\ lease'[o].phase = "proving"
      BY <2>2, <2>4 DEF cancelAndProveOwnerSubagents, LeaseType
    <3> QED BY <2>1, <3>1, <1>1, <1>2, <1>4, FrameKeepsLease
  <2>5. CASE Proof(o)
    <3>1. /\ lease'[o].targets = lease[o].targets /\ lease'[o].backing = lease[o].backing
          /\ lease'[o].phase = IF \A s \in lease[o].targets : Evidence(o, s)
                               THEN "confirmed" ELSE "unconfirmed"
      BY <2>2, <2>5 DEF Proof, LeaseType
    <3>2. UNCHANGED <<status, who, alive, listed, rec>>
      BY <2>5 DEF Proof, jobVars, recVars
    <3>3. CASE \A s \in lease[o].targets : Evidence(o, s)
      <4>1. \A s \in lease[o].targets : rec[s] \notin Live
        BY <3>3 DEF Evidence, Live, Terminal
      <4>2. \A j \in lease[o].backing : j \notin alive
        BY <3>3, <1>1, <1>4 DEF Evidence, LeaseInv, Fenced
      <4> QED BY <3>1, <3>2, <3>3, <4>1, <4>2, <1>1, <1>4 DEF LeaseInv, Fenced, Owned
    <3>4. CASE ~\A s \in lease[o].targets : Evidence(o, s)
      BY <2>1, <3>1, <3>4, <1>1, <1>2, <1>4, FrameKeepsLease
    <3> QED BY <3>3, <3>4
  <2>6. CASE cancelAndSettleOwnerJobs(o)
    <3> DEFINE mine == {j \in listed : JobOwner(j) = o}
    <3>1. /\ lease'[o].targets = lease[o].targets /\ lease'[o].backing = lease[o].backing
          /\ lease'[o].phase = "settling" /\ lease'[o].captured = mine
          /\ lease[o].phase = "confirmed"
      BY <2>2, <2>6 DEF cancelAndSettleOwnerJobs, LeaseType
    <3>2. ASSUME NEW j \in listed' \cap alive', who'[j] \in Owned(o) \cup {o}
          PROVE  j \in mine
      <4>1. j \in listed \cap alive
        BY <2>1, <3>2 DEF Frame
      <4>2. j \in Job /\ status[j] # "none"
        BY <4>1, <1>1 DEF IInv, CoreInv, Core, CoreTypes, FreshInv
      <4>3. who[j] \in Owned(o) \cup {o}
        BY <4>2, <2>1, <3>2 DEF Frame
      <4>4. JobOwner(j) = o
        BY <4>3, DisjointAssumption DEF JobOwner, Owned
      <4> QED BY <4>1, <4>4
    <3> HIDE DEF mine
    <3> QED BY <2>1, <3>1, <3>2, <1>1, <1>2, <1>4, FrameKeepsLease
  <2>7. CASE Commit(o) \/ Release(o)
    <3>1. lease'[o].phase = "none"
      BY <2>2, <2>7 DEF Commit, Release, NoLease
    <3> QED BY <3>1 DEF LeaseInv
  <2>8. ~beginOwnerSubagentShutdown(o)
    BY <1>4 DEF beginOwnerSubagentShutdown
  <2> QED BY <2>3, <2>4, <2>5, <2>6, <2>7, <2>8, <1>1, LeaseChanges
<1> QED
  BY <1>3, <1>4

-----------------------------------------------------------------------------
\* The invariant of records, runs and shutdown leases holds in every behaviour.
THEOREM ShutdownInvariant == Spec => []ShutdownInv
<1>1. Init => ShutdownInv
  BY InitIInv DEF Init, ShutdownInv, LeaseInv, NoLease
<1>2. ShutdownInv /\ [Next]_vars => ShutdownInv'
  <2> SUFFICES ASSUME ShutdownInv, [Next]_vars PROVE ShutdownInv'
    OBVIOUS
  <2>1. IInv'
    BY NextIInv DEF ShutdownInv
  <2>2. \A o \in Owner : LeaseInv(o)'
    BY NextLeaseInv
  <2> QED BY <2>1, <2>2 DEF ShutdownInv
<1> QED
  BY <1>1, <1>2, PTL DEF Spec

\* A confirmed shutdown proof means that the owner's subagents have stopped: no
\* record is live and no listed run of the owner is alive.
THEOREM ConfirmedStops == Spec => []ConfirmedMeansStopped
<1>1. ShutdownInv => ConfirmedMeansStopped
  <2> SUFFICES ASSUME ShutdownInv, NEW o \in Owner, lease[o].phase \in {"confirmed", "settling"}
               PROVE  /\ \A s \in Owned(o) : rec[s] \in Terminal \cup {"none"}
                      /\ \A j \in listed \cap alive : who[j] \notin Owned(o)
    BY DEF ConfirmedMeansStopped
  <2>1. LeaseInv(o) /\ rec \in [Subagent -> RecStatus]
    BY DEF ShutdownInv, IInv, CoreInv, Core, CoreTypes
  <2>2. \A s \in Owned(o) : rec[s] \notin Live
    BY <2>1 DEF LeaseInv
  <2>3. \A j \in listed \cap alive : who[j] \notin Owned(o)
    BY <2>1 DEF LeaseInv
  <2> QED BY <2>1, <2>2, <2>3 DEF Owned, Live, RecStatus, JobStatus, Terminal
<1> QED
  BY <1>1, ShutdownInvariant, PTL

\* No job of an owner is registered while its shutdown lease is held.
THEOREM FenceBlocksStarts == Spec => NothingStartsBehindFence
<1>1. IInv /\ [Next]_vars
        => [\A j \in Job : status[j] = "none" /\ status'[j] # "none"
              => \A o \in Owner : Fenced(o) => who'[j] # o /\ who'[j] \notin Owned(o)]_vars
  <2> SUFFICES ASSUME IInv, [Next]_vars, NEW j \in Job, status[j] = "none", status'[j] # "none",
                      NEW o \in Owner, Fenced(o)
               PROVE  who'[j] # o /\ who'[j] \notin Owned(o)
    OBVIOUS
  <2>1. Frame(o, status', who', alive', listed', rec')
    BY FenceHolds
  <2>2. j \in Fresh
    BY DEF Fresh
  <2> QED BY <2>1, <2>2 DEF Frame
<1> QED
  BY <1>1, RecordsAndRuns, PTL DEF Spec, NothingStartsBehindFence

\* A replaced session leaves no listed job of its owner alive.
THEOREM ReplacedQuietly == Spec => ReplacementIsQuiet
<1>1. ShutdownInv /\ [Next]_vars
        => [\A o \in Owner : Commit(o) => \A j \in listed \cap alive : JobOwner(j) # o]_vars
  <2> SUFFICES ASSUME ShutdownInv, NEW o \in Owner, Commit(o), NEW j \in listed \cap alive,
                      JobOwner(j) = o
               PROVE  FALSE
    OBVIOUS
  <2>1. LeaseInv(o) /\ lease[o].phase = "settling" /\ lease[o].captured \cap alive = {}
    BY DEF ShutdownInv, Commit
  <2>2. who[j] \in Owned(o) \cup {o}
    BY DEF JobOwner, Owned
  <2> QED BY <2>1, <2>2 DEF LeaseInv
<1> QED
  BY <1>1, ShutdownInvariant, PTL DEF Spec, ReplacementIsQuiet
=============================================================================
