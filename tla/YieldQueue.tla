---------------------------- MODULE YieldQueue ----------------------------
(* The yield queue of packages/coding-agent/src/session/yield-queue.ts, which *)
(* holds job results and notifications until the agent yields or is idle, and *)
(* the parts of session/agent-session.ts and agent/src/agent-loop.ts that     *)
(* drive it: turns, the scheduled idle flush, abort(), clearContext() and     *)
(* handoff().                                                                 *)
(*                                                                            *)
(* Entries are numbered in the order they are enqueued.  A message is the     *)
(* sequence of the entries it was built from; its text is left out.           *)
EXTENDS Integers, FiniteSets, Sequences, Functions

CONSTANTS MaxEntries,  \* bound: entries enqueued in a behaviour
          Events       \* bound: which of the optional events below happen

ASSUME EntriesAssumption == MaxEntries \in Nat
ASSUME EventsAssumption ==
    Events \subseteq {"abort", "error", "refuse", "clear", "handoff"}

Entry == 1..MaxEntries
\* The registered kinds, in the order of their registration.
Kinds == <<"async-result", "mcp-notification">>

VARIABLES entries,          \* #entries
          idleFlushPending, \* #idleFlushPending
          scheduled,        \* post-prompt tasks that will run the idle flush
          phase,            \* the agent: idle, in a turn, or after its last yield
          op,               \* the session transition in progress
          kind,             \* history: the kind of each entry, "none" if not enqueued
          stale,            \* results a tool has reported
          given,            \* history: entries handed to the agent, in order
          gone,             \* history: entries discarded
          old,              \* history: results of a session that was handed off
          armed,            \* history: entries enqueued while no turn was running
          upset             \* history: a turn ended without yielding

yieldHist == <<kind, given, gone, old, armed, upset>>
yieldVars == <<entries, idleFlushPending, scheduled, phase, op, stale, yieldHist>>

YieldInit ==
    /\ entries = [k \in Range(Kinds) |-> <<>>]
    /\ idleFlushPending = FALSE /\ scheduled = 0
    /\ phase = "idle" /\ op = "none"
    /\ kind = [e \in Entry |-> "none"]
    /\ stale = {} /\ given = <<>> /\ gone = {} /\ old = {} /\ armed = {} /\ upset = FALSE

\* isStreaming: a turn or its post-prompt work is in flight, or a handoff holds the fence.
Streaming == phase # "idle" \/ op = "handoff"

Pending == UNION {Range(entries[k]) : k \in Range(Kinds)}
Empty == [k \in Range(Kinds) |-> <<>>]

\* #scheduleIdleFlush without its test of the flag.
ScheduleAlways == idleFlushPending' = TRUE /\ scheduled' = scheduled + 1

\* #scheduleIdleFlush
Schedule ==
    IF idleFlushPending THEN UNCHANGED <<idleFlushPending, scheduled>>
    ELSE idleFlushPending' = TRUE /\ scheduled' = scheduled + 1

\* enqueue(): the next entry, of kind k.
enqueue(k) ==
    /\ \E e \in Entry :
          /\ kind[e] = "none" /\ \A d \in Entry : d < e => kind[d] # "none"
          /\ kind' = [kind EXCEPT ![e] = k]
          /\ entries' = [entries EXCEPT ![k] = Append(@, e)]
          /\ armed' = IF phase = "idle" THEN armed \cup {e} ELSE armed
    /\ IF Streaming THEN UNCHANGED <<idleFlushPending, scheduled>> ELSE Schedule
    /\ UNCHANGED <<phase, op, stale, given, gone, old, upset>>

\* A tool reports the result e while it is staged: from now on isStale(e).
Report(e) ==
    /\ e \in Range(entries["async-result"]) /\ e \notin stale
    /\ stale' = stale \cup {e}
    /\ UNCHANGED <<entries, idleFlushPending, scheduled, phase, op, yieldHist>>

\* #build for the entries of kind k: stale results are left out.
Build(k) == SelectSeq(entries[k], LAMBDA e : e \notin stale)
\* #build for every kind, in order of registration.
Survivors == Build(Kinds[1]) \o Build(Kinds[2])

-----------------------------------------------------------------------------
(* Turns.                                                                    *)

\* A prompt starts a turn; a handoff rejects it.
Prompt ==
    /\ phase = "idle" /\ op # "handoff"
    /\ phase' = "turn"
    /\ UNCHANGED <<entries, idleFlushPending, scheduled, op, stale, yieldHist>>

\* A streaming flush that leaves the entries in place.
YieldKeeps ==
    /\ phase = "turn"
    /\ UNCHANGED entries
    /\ given' = given \o Survivors
    /\ phase' = IF Survivors = <<>> THEN "settling" ELSE "turn"
    /\ UNCHANGED <<idleFlushPending, scheduled, op, stale, kind, gone, old, armed, upset>>

\* The agent yields: onBeforeYield runs flush("streaming").  The messages become
\* follow-ups and the turn goes on with them; with none the turn is over, but
\* isStreaming holds until the post-prompt work is done.
Yield ==
    /\ phase = "turn"
    /\ entries' = Empty
    /\ given' = given \o Survivors
    /\ phase' = IF Survivors = <<>> THEN "settling" ELSE "turn"
    /\ UNCHANGED <<idleFlushPending, scheduled, op, stale, kind, gone, old, armed, upset>>

\* The post-prompt work ends, or starts another turn (a retry, a queued message).
Settles ==
    /\ phase = "settling" /\ op \notin {"handoff", "switching"}
    /\ phase' \in {"idle", "turn"}
    /\ UNCHANGED <<entries, idleFlushPending, scheduled, op, stale, yieldHist>>

\* The turn fails and ends without onBeforeYield.
Fails ==
    /\ "error" \in Events /\ phase = "turn"
    /\ phase' = "settling" /\ upset' = TRUE
    /\ UNCHANGED <<entries, idleFlushPending, scheduled, op, stale, kind, given, gone, old,
                   armed>>

\* abort(): the scheduled tasks are cancelled, the turn ends without onBeforeYield.
Abort ==
    /\ "abort" \in Events /\ op = "none"
    /\ scheduled' = 0
    /\ phase' = "idle" /\ upset' = TRUE
    /\ UNCHANGED <<entries, idleFlushPending, op, stale, kind, given, gone, old, armed>>

-----------------------------------------------------------------------------
(* The scheduled idle flush.                                                 *)

\* The task flushes whatever the agent is doing.
FlushTaskBlindly ==
    /\ scheduled > 0
    /\ scheduled' = scheduled - 1
    /\ idleFlushPending' = FALSE
    /\ entries' = Empty
    /\ IF Survivors = <<>> THEN UNCHANGED <<phase, given, gone>>
       ELSE phase' = "turn" /\ given' = given \o Survivors /\ UNCHANGED gone
    /\ UNCHANGED <<op, stale, kind, old, armed, upset>>

\* The task runs: nothing while streaming; else the entries are drained and start a
\* turn (injectIdle), unless agent.prompt() refuses, when they are lost.
FlushTask ==
    /\ scheduled > 0
    /\ scheduled' = scheduled - 1
    /\ idleFlushPending' = FALSE
    /\ IF Streaming THEN UNCHANGED <<entries, phase, given, gone>>
       ELSE /\ entries' = Empty
            /\ \/ Survivors = <<>> /\ UNCHANGED <<phase, given, gone>>
               \/ /\ Survivors # <<>>
                  /\ phase' = "turn" /\ given' = given \o Survivors /\ UNCHANGED gone
               \/ /\ "refuse" \in Events /\ Survivors # <<>>
                  /\ gone' = gone \cup Range(Survivors) /\ UNCHANGED <<phase, given>>
    /\ UNCHANGED <<op, stale, kind, old, armed, upset>>

-----------------------------------------------------------------------------
(* Session transitions, one at a time (#beginSessionTransition).             *)

\* clearContext() aborts the turn and the scheduled tasks.
ClearBegins ==
    /\ "clear" \in Events /\ op = "none"
    /\ op' = "clear"
    /\ scheduled' = 0 /\ phase' = "idle"
    /\ UNCHANGED <<entries, idleFlushPending, stale, yieldHist>>

\* After the abort it clears the queue and the flag, though not a task scheduled
\* meanwhile.
clear ==
    /\ op = "clear"
    /\ op' = "none"
    /\ entries' = Empty /\ gone' = gone \cup Pending
    /\ idleFlushPending' = FALSE
    /\ UNCHANGED <<scheduled, phase, stale, kind, given, old, armed, upset>>

\* handoff() of an idle session, or triggered by the post-prompt work of a turn.
HandoffBegins ==
    /\ "handoff" \in Events /\ op = "none" /\ phase # "turn"
    /\ op' = "handoff"
    /\ UNCHANGED <<entries, idleFlushPending, scheduled, phase, stale, yieldHist>>

Results == {e \in Entry : kind[e] = "async-result"}

\* A commit that leaves the predecessor's results in the queue.
HandoffCommitKeepsResults ==
    /\ op = "handoff"
    /\ op' = "switching"
    /\ old' = old \cup (Results \ Range(given))
    /\ UNCHANGED <<entries, idleFlushPending, scheduled, phase, stale, kind, given, gone, armed,
                   upset>>

\* The handoff commits: clearKind("async-result"), and the fence is released.
HandoffCommits ==
    /\ op = "handoff"
    /\ op' = "switching"
    /\ entries' = [entries EXCEPT !["async-result"] = <<>>]
    /\ gone' = gone \cup Range(entries["async-result"])
    /\ old' = old \cup (Results \ Range(given))
    /\ UNCHANGED <<idleFlushPending, scheduled, phase, stale, kind, given, armed, upset>>

\* A handoff that ends without rearmIdle().
HandoffForgetsIdle ==
    /\ op \in {"handoff", "switching"}
    /\ op' = "none"
    /\ UNCHANGED <<entries, idleFlushPending, scheduled, phase, stale, yieldHist>>

\* The handoff ends, committed or rolled back: rearmIdle().
HandoffEnds ==
    /\ op \in {"handoff", "switching"}
    /\ op' = "none"
    /\ IF phase # "idle" \/ Pending = {} THEN UNCHANGED <<idleFlushPending, scheduled>>
       ELSE Schedule
    /\ UNCHANGED <<entries, phase, stale, yieldHist>>

-----------------------------------------------------------------------------
YieldNext ==
    \/ \E k \in Range(Kinds) : enqueue(k)
    \/ \E e \in Entry : Report(e)
    \/ Prompt \/ Yield \/ Settles \/ Fails \/ Abort
    \/ FlushTask
    \/ ClearBegins \/ clear
    \/ HandoffBegins \/ HandoffCommits \/ HandoffEnds

\* A turn yields, post-prompt work ends, a scheduled task runs, a transition ends.
\* Nothing is assumed of the user's next prompt, which may never come; but commands do
\* not follow each other forever within the millisecond that the task is delayed.
YieldFairness ==
    /\ WF_yieldVars(Yield) /\ WF_yieldVars(Settles) /\ SF_yieldVars(~Streaming /\ FlushTask)
    /\ WF_yieldVars(clear) /\ WF_yieldVars(HandoffEnds)

YieldSpec == YieldInit /\ [][YieldNext]_yieldVars /\ YieldFairness

-----------------------------------------------------------------------------
\* Types of the state.  The flag keeps idle flushes from piling up: at most one task is
\* scheduled by it, and one more was scheduled before clear() reset it.
YieldTypeOK ==
    /\ entries \in [Range(Kinds) -> Seq(Entry)]
    /\ idleFlushPending \in BOOLEAN /\ scheduled \in 0..2
    /\ phase \in {"idle", "turn", "settling"}
    /\ op \in {"none", "clear", "handoff", "switching"}
    /\ kind \in [Entry -> Range(Kinds) \cup {"none"}]
    /\ stale \subseteq Entry /\ given \in Seq(Entry) /\ gone \subseteq Entry
    /\ old \subseteq Entry /\ armed \subseteq Entry /\ upset \in BOOLEAN

\* Through both kinds of flush, and through flushes that find the agent busy, each entry
\* is handed to the agent at most once and the entries of a kind in the order they came
\* (#drain).
EachOnceInOrder ==
    \A i, j \in DOMAIN given : i < j /\ kind[given[i]] = kind[given[j]] => given[i] < given[j]

\* "a completion that lands mid-handoff must not start an idle turn": nothing is handed
\* to the agent while handoff() holds the fence, not even by a flush scheduled before.
HandoffStartsNoTurn == [][op = "handoff" => given' = given]_yieldVars

\* Results of the session that was handed off never reach its successor.
ResultsStayBehind ==
    [][\A i \in DOMAIN given' \ DOMAIN given : given'[i] \notin old]_yieldVars

Settled(e) == e \in Range(given) \cup stale \cup gone

\* An entry that arrives while no turn runs, during a handoff included, is flushed without
\* waiting for another enqueue or prompt, as long as no turn is aborted or fails
\* (#scheduleIdleFlush, rearmIdle).
IdleEntriesFlushed ==
    \A e \in Entry : e \in armed ~> (Settled(e) \/ upset)

\* "Result will be delivered automatically when complete" (tools/bash.ts): every result
\* is handed over, or was reported or discarded meanwhile.
DeliveredAutomatically == \A e \in Entry : kind[e] = "async-result" ~> Settled(e)
=============================================================================
