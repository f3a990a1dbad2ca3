---- MODULE WorkflowGates ----
(* Durable workflow gates: a workflow opens a gate and waits for its answer, clients answer it   *)
(* directly or through a notification, and the broker accepts one answer, records it, closes the *)
(* gate's presentation and hands the answer over.  The gates are kept in a file that is rewritten *)
(* on every change.  A write may fail before it took effect, or after it, with its durability in  *)
(* doubt; the process may crash at any time.                                                      *)
(* Each action is the code between two awaits.  The store in memory is the file: a failed write   *)
(* leaves it alone or makes the store reload it.                                                   *)
EXTENDS Integers, Sequences, FiniteSets

CONSTANTS MaxGates,     \* bound: gates ever opened
          MaxCalls,     \* bound: answers sent by clients, in the order of their arrival
          Answer, Key,  \* what they say, and their idempotency keys
          Invalid,      \* answers that the gate's schema refuses
          Commit,       \* answers that a notification acknowledges ("commit" disposition)
          NoAnswer, NoKey,
          Fault,        \* kinds of write failure: "not_committed", "uncertain"
          MaxFaults,    \* bound: write failures
          MaxStarts     \* bound: runtime instances

ASSUME Bounds == MaxGates \in Nat /\ MaxCalls \in Nat /\ MaxFaults \in Nat /\ MaxStarts \in Nat
ASSUME Faults == Fault \subseteq {"not_committed", "uncertain"}
ASSUME NoValues == NoAnswer \notin Answer /\ NoKey \notin Key

VARIABLES file,         \* the gate store: instance id, counter and records
          older,        \* contents that a machine crash may bring back
          faults, starts,
          mode,         \* the emitter: "down", "up", "suspended" or "fenced"
          promise,      \* the waiter of each gate: "none", "open", "rejected" or "resolved"
          proof,        \* gates with a prepared terminalization proof
          lock,         \* per gate the tasks in withGateLock, the holder first
          task,         \* answers and recoveries in progress
          recovering, timer, attempts,
          opened,       \* history: gates that were presented
          delivered,    \* history: the answer each workflow got
          granted,      \* history: gates and answers that callers were told are accepted
          acks          \* history: acknowledgements requested for each gate

store == <<file, older, faults>>
retry == <<timer, attempts>>
history == <<opened, delivered, acks>>
vars == <<store, starts, mode, promise, proof, lock, task, recovering, retry, history, granted>>

Gate == 1..MaxGates
Call == 1..MaxCalls
Recovery == {0, -1}     \* the recovery of the timer and the one of attaching or a turn's end
Task == Call \cup Recovery
MaxAttempts == 3

PersistedGate ==
  [status : {"none", "pending", "accepted", "quarantined"}, owner : 0..MaxStarts,
   key : Key \cup {NoKey}, answer : Answer \cup {NoAnswer},
   advanced : BOOLEAN, terminalized : BOOLEAN, ack : {"none", "pending", "started", "done"}]

NoRecord == [status |-> "none", owner |-> 0, key |-> NoKey, answer |-> NoAnswer,
             advanced |-> FALSE, terminalized |-> FALSE, ack |-> "none"]

FileState == [inst : 0..MaxStarts, seq : 0..MaxGates, rec : [Gate -> PersistedGate]]

(* A task resolves a gate or recovers gates, in the lock of the gate at; gate, key and answer are   *)
(* the request of a call, todo and some the loop of a recovery.                                    *)
Idle == [pc |-> "idle", run |-> "none", via |-> "none", gate |-> 0, key |-> NoKey,
         answer |-> NoAnswer, at |-> 0, todo |-> {}, some |-> FALSE]

Init ==
  /\ file = [inst |-> 0, seq |-> 0, rec |-> [g \in Gate |-> NoRecord]]
  /\ older = {} /\ faults = 0 /\ starts = 0 /\ mode = "down"
  /\ promise = [g \in Gate |-> "none"] /\ proof = {}
  /\ lock = [g \in Gate |-> <<>>] /\ task = [t \in Task |-> Idle]
  /\ recovering = {} /\ timer = FALSE /\ attempts = 0
  /\ opened = {} /\ delivered = [g \in Gate |-> NoAnswer]
  /\ granted = {} /\ acks = [g \in Gate |-> 0]

-----------------------------------------------------------------------------
(* The store.  The runtime instance of a running broker is the one in the file.                   *)

Outcome == {"ok"} \cup (IF faults < MaxFaults THEN Fault ELSE {})

(* flushState after the writes of the same block that led to base: a write that is not committed  *)
(* leaves base, one that is uncertain is in place and may still be lost with the machine.         *)
WriteAfter(base, f, o) ==
  LET doubtful == IF base = file THEN older ELSE {} IN
  /\ file' = IF o = "not_committed" THEN base ELSE f
  /\ older' = CASE o = "ok" -> {}
                [] o = "uncertain" -> doubtful \cup {base}
                [] OTHER -> doubtful
  /\ faults' = IF o = "ok" THEN faults ELSE faults + 1

commit(f, o) == WriteAfter(file, f, o)

With(g, r) == [file EXCEPT !.rec[g] = r]

Live(g) == promise[g] = "open"

(* A record that must not be answered once its owner is gone.                                      *)
Unfinished(r, i) ==
  r.owner = i /\ (r.status = "pending" \/ (r.status = "accepted" /\ ~r.advanced))

Quarantined(f, G) ==
  [f EXCEPT !.rec = [g \in Gate |->
     IF g \in G /\ Unfinished(f.rec[g], f.inst)
     THEN [f.rec[g] EXCEPT !.status = "quarantined"] ELSE f.rec[g]]]

(* A bug: only pending gates are quarantined, and an accepted one waits for an owner that is gone.  *)
BeginPendingOnly(f, i) ==
  [f EXCEPT !.inst = i, !.rec = [g \in Gate |->
     IF f.rec[g].status = "pending" /\ f.rec[g].owner = f.inst
     THEN [f.rec[g] EXCEPT !.status = "quarantined"] ELSE f.rec[g]]]

beginRuntimeInstance(f, i) == [Quarantined(f, Gate) EXCEPT !.inst = i]

-----------------------------------------------------------------------------
(* The emitter.                                                                                    *)

Quiet == ~timer /\ \A t \in Task : task[t].pc \in {"idle", "done"}

(* A session starts, or is switched back to, and its broker begins a new runtime instance.  If    *)
(* that write fails the session has no emitter.                                                    *)
Start ==
  /\ mode \in {"down", "fenced"} /\ Quiet /\ starts < MaxStarts
  /\ starts' = starts + 1 /\ proof' = {} /\ attempts' = 0
  /\ \E o \in Outcome :
       /\ commit(beginRuntimeInstance(file, starts + 1), o)
       /\ mode' = IF o = "ok" THEN "up" ELSE "down"
  /\ UNCHANGED <<promise, lock, task, recovering, timer, history, granted>>

(* emitGate: the counter is written, then the pending record, and only then the gate is presented. *)
openGate ==
  LET g == file.seq + 1
      counted == [file EXCEPT !.seq = g]
      pending == [NoRecord EXCEPT !.status = "pending", !.owner = file.inst] IN
  /\ mode = "up" /\ g \in Gate
  /\ \/ \E o \in Outcome \ {"ok"} : commit(counted, o) /\ UNCHANGED <<promise, opened>>
     \/ \E o \in Outcome :
          /\ WriteAfter(counted, [counted EXCEPT !.rec[g] = pending], o)
          /\ IF o = "ok" THEN promise' = [promise EXCEPT ![g] = "open"] /\ opened' = opened \cup {g}
                         ELSE UNCHANGED <<promise, opened>>
  /\ UNCHANGED <<starts, mode, proof, lock, task, recovering, retry, delivered, granted, acks>>

(* A session switch suspends the emitter, and ends in a rollback (Resume) or in fence.             *)
suspend ==
  /\ mode = "up" /\ mode' = "suspended"
  /\ UNCHANGED <<store, starts, promise, proof, lock, task, recovering, retry, history, granted>>

Reject(G) == promise' = [g \in Gate |-> IF g \in G /\ Live(g) THEN "rejected" ELSE promise[g]]

(* fence rejects every waiter and then quarantines the records one by one; a failed write ends it. *)
fence ==
  LET L == {g \in Gate : Live(g)}
      W == {g \in L : Unfinished(file.rec[g], file.inst)} IN
  /\ mode \in {"up", "suspended"} /\ mode' = "fenced" /\ timer' = FALSE
  /\ Reject(Gate)
  /\ \/ W = {} /\ proof' = proof \ L /\ UNCHANGED store
     \/ W # {} /\ proof' = proof \ L /\ commit(Quarantined(file, W), "ok")
     \/ \E g \in W, o \in Outcome \ {"ok"} :
          /\ WriteAfter(Quarantined(file, {h \in W : h < g}), Quarantined(file, {h \in W : h <= g}), o)
          /\ proof' = proof \ {h \in L : h <= g}
  /\ UNCHANGED <<starts, lock, task, recovering, attempts, history, granted>>

(* The machine or the process stops.                                                               *)
Crash ==
  /\ mode # "down" /\ mode' = "down"
  /\ file' \in {file} \cup older /\ older' = {}
  /\ promise' = [g \in Gate |-> "none"] /\ proof' = {} /\ lock' = [g \in Gate |-> <<>>]
  /\ task' = [t \in Task |-> [Idle EXCEPT !.pc = IF t \in Call /\ task[t].pc # "idle" THEN "done"
                                                                               ELSE "idle"]]
  /\ recovering' = {} /\ timer' = FALSE /\ attempts' = 0
  /\ UNCHANGED <<faults, starts, history, granted>>

-----------------------------------------------------------------------------
(* How a task goes on after a step: at its next await, with the next gate, or not at all.          *)

Holds(t) == task[t].at \in Gate /\ lock[task[t].at] # <<>> /\ Head(lock[task[t].at]) = t

scheduleRecovery ==
  IF timer \/ attempts >= MaxAttempts THEN UNCHANGED retry
  ELSE timer' = TRUE /\ attempts' = attempts + 1

Goto(t, p) == task' = [task EXCEPT ![t].pc = p] /\ UNCHANGED <<lock, recovering, granted, retry>>

Leave(t) == lock' = [lock EXCEPT ![task[t].at] = Tail(@)]

(* A call returns or fails once; the recovery of a timer or of attaching can start again.           *)
End(t) == task' = [task EXCEPT ![t] = [Idle EXCEPT !.pc = IF t \in Call THEN "done" ELSE "idle"]]

Granted(t) == granted' = granted \cup {<<task[t].gate, task[t].answer>>}

Recovers(t) == task[t].run = "recover"

(* The error leaves the lock and reaches the caller: a resolution or the timer tries again later,  *)
(* a recovery drops its remaining gates.                                                            *)
Throw(t) ==
  LET again == \/ task[t].via = "timer"
               \/ ~Recovers(t) /\ (task[t].via = "notify" \/ mode = "up") IN
  /\ Leave(t)
  /\ recovering' = IF Recovers(t) THEN recovering \ {task[t].at} ELSE recovering
  /\ End(t) /\ UNCHANGED granted
  /\ IF again THEN scheduleRecovery ELSE UNCHANGED retry

(* The gate is done: a call is told so, a recovery goes on with the next gate.                      *)
Return(t, advanced) ==
  /\ Leave(t) /\ UNCHANGED retry
  /\ IF Recovers(t)
     THEN /\ recovering' = recovering \ {task[t].at} /\ UNCHANGED granted
          /\ task' = [task EXCEPT ![t].pc = "next", ![t].at = 0, ![t].some = @ \/ advanced]
     ELSE End(t) /\ Granted(t) /\ UNCHANGED recovering

(* The gate is no longer the task's to advance.                                                     *)
GiveUp(t) == IF Recovers(t) THEN Return(t, FALSE) ELSE Throw(t)

(* resolve() quarantines the gate after an uncertain write; a recovery does not.                    *)
WriteFailed(t, o) == IF o = "uncertain" /\ ~Recovers(t) THEN Goto(t, "doubt") ELSE Throw(t)

(* The notification policy changed while the reply was processed.                                   *)
PolicyChanged(t) ==
  /\ task[t].via = "notify" /\ Leave(t)
  /\ task' = [task EXCEPT ![t].pc = "changed"] /\ UNCHANGED <<recovering, granted, retry>>

(* Continuation authority is given up: the waiter is rejected, then the record quarantined.        *)
loseContinuation(g) ==
  /\ Reject({g}) /\ proof' = proof \ {g}
  /\ IF Unfinished(file.rec[g], file.inst)
     THEN \E o \in Outcome : commit(Quarantined(file, {g}), o)
     ELSE UNCHANGED store

-----------------------------------------------------------------------------
(* Answers.                                                                                         *)

Answerable(g) == file.rec[g].status = "pending" /\ file.rec[g].owner = file.inst /\ Live(g)

Same(r, k, a) == k # NoKey /\ r.key = k /\ r.answer = a

Completed(r, k, a) == Same(r, k, a) /\ r.terminalized /\ r.advanced

Snapshot == {g \in Gate : file.rec[g].status = "accepted" /\ Unfinished(file.rec[g], file.inst)}

Request(t, run, via, g, k, a) ==
  [Idle EXCEPT !.run = run, !.via = via, !.gate = g, !.key = k, !.answer = a]

Arrives(t) == task[t].pc = "idle" /\ \A c \in 1..(t - 1) : task[c].pc # "idle"

Enter(t, req) ==
  /\ lock' = [lock EXCEPT ![req.gate] = Append(@, t)]
  /\ task' = [task EXCEPT ![t] = [req EXCEPT !.pc = "lock", !.at = req.gate]]

(* A control request: a completed answer is repeated, an incomplete one recovered, and any other    *)
(* but the first refused; the first prepares the gate's terminalization and is resolved.            *)
answerGate(t, g, k, a) ==
  LET r == file.rec[g]
      req == Request(t, "resolve", "direct", g, k, a) IN
  /\ mode = "up" /\ Arrives(t) /\ g \in opened
  /\ \/ /\ Same(r, k, a) /\ ~Completed(r, k, a)
        /\ task' = [task EXCEPT ![t] = [req EXCEPT !.pc = "next", !.run = "recover", !.todo = Snapshot]]
        /\ UNCHANGED <<lock, proof, granted>>
     \/ /\ Answerable(g)
        /\ proof' = proof \cup {g} /\ Enter(t, req) /\ UNCHANGED granted
     \/ /\ Completed(r, k, a) \/ ~(Same(r, k, a) \/ Answerable(g))
        /\ End(t) /\ granted' = IF Completed(r, k, a) THEN granted \cup {<<g, a>>} ELSE granted
        /\ UNCHANGED <<lock, proof>>
  /\ UNCHANGED <<store, starts, mode, promise, recovering, retry, history>>

(* A reply to the gate's notification.                                                              *)
resolveGateFromNotification(t, g, k, a) ==
  /\ mode = "up" /\ Arrives(t) /\ promise[g] # "none"
  /\ Enter(t, Request(t, "resolve", "notify", g, k, a))
  /\ UNCHANGED <<store, starts, mode, promise, proof, recovering, retry, history, granted>>

(* The answer is recorded as accepted.  A reply that is acknowledged records the attempt in the     *)
(* same block, and asks for it.                                                                     *)
Accept(t) ==
  LET g == task[t].at
      direct == task[t].via = "direct"
      acked == ~direct /\ task[t].answer \in Commit
      accepted == [file.rec[g] EXCEPT !.status = "accepted", !.key = task[t].key,
                     !.answer = task[t].answer, !.ack = IF acked THEN "pending" ELSE "none"]
      started == [accepted EXCEPT !.ack = "started"] IN
  \/ \E o \in Outcome \ {"ok"} :
       /\ commit(With(g, accepted), o) /\ WriteFailed(t, o) /\ UNCHANGED acks
       /\ proof' = IF direct /\ o = "not_committed" /\ mode # "suspended" THEN proof \ {g} ELSE proof
  \/ /\ ~acked /\ commit(With(g, accepted), "ok") /\ UNCHANGED <<proof, acks>>
     /\ Goto(t, "final") \/ PolicyChanged(t)
  \/ /\ acked /\ UNCHANGED proof
     /\ \E o \in Outcome :
          /\ WriteAfter(With(g, accepted), With(g, started), o)
          /\ \/ o # "ok" /\ WriteFailed(t, o) /\ UNCHANGED acks
             \/ o = "ok" /\ PolicyChanged(t) /\ UNCHANGED acks
             \/ o = "ok" /\ Goto(t, "ack") /\ acks' = [acks EXCEPT ![g] = @ + 1]

(* A bug: what the caller saw before it waited for the lock is taken for the record's state.        *)
ResolveUnchecked(t) ==
  /\ Holds(t) /\ task[t].pc = "lock" /\ ~Recovers(t)
  /\ Accept(t) /\ UNCHANGED <<starts, mode, promise, opened, delivered>>

(* With the lock: the record decides, not what the caller saw before it waited.                     *)
resolveUnlocked(t) ==
  LET g == task[t].at
      r == file.rec[g]
      replay == r.status = "accepted" /\ Same(r, task[t].key, task[t].answer) IN
  /\ Holds(t) /\ task[t].pc = "lock" /\ ~Recovers(t)
  /\ \/ /\ replay /\ (Return(t, FALSE) \/ PolicyChanged(t))
        /\ UNCHANGED <<store, proof, acks>>
     \/ ~replay /\ ~Answerable(g) /\ Throw(t) /\ UNCHANGED <<store, proof, acks>>
     \/ /\ Answerable(g) /\ task[t].answer \in Invalid
        /\ Leave(t) /\ End(t)
        /\ proof' = IF task[t].via = "direct" THEN proof \ {g} ELSE proof
        /\ UNCHANGED <<store, acks, recovering, granted, retry>>
     \/ Answerable(g) /\ task[t].answer \notin Invalid /\ Accept(t)
  /\ UNCHANGED <<starts, mode, promise, opened, delivered>>

(* The acknowledgement came back, failed or timed out.                                              *)
updateAckPolicy(t) ==
  LET g == task[t].at IN
  /\ Holds(t) /\ task[t].pc = "ack"
  /\ \/ PolicyChanged(t) /\ UNCHANGED store
     \/ file.rec[g].status # "accepted" /\ Throw(t) /\ UNCHANGED store
     \/ /\ file.rec[g].status = "accepted"
        /\ \E o \in Outcome :
             /\ commit(With(g, [file.rec[g] EXCEPT !.ack = "done"]), o)
             /\ IF o = "ok" THEN Goto(t, "final") \/ PolicyChanged(t) ELSE WriteFailed(t, o)
  /\ UNCHANGED <<starts, mode, promise, proof, history>>

-----------------------------------------------------------------------------
(* Closing the presentation and handing the answer over, for answers and recoveries alike.          *)

(* The last check before the advance hook is awaited.                                               *)
AwaitAdvance(t) == IF Live(task[t].at) THEN Goto(t, "adv") ELSE GiveUp(t)

Terminalized(t) ==
  LET g == task[t].at IN
  /\ proof' = proof \ {g}
  /\ \E o \in Outcome :
       /\ commit(With(g, [file.rec[g] EXCEPT !.terminalized = TRUE]), o)
       /\ IF o = "ok" THEN AwaitAdvance(t) ELSE WriteFailed(t, o)
  /\ UNCHANGED promise

(* The acknowledgement is settled.  A prepared proof is used; otherwise the terminal controller is  *)
(* asked, and without one the gate is quarantined.                                                  *)
Finalized(t) ==
  LET g == task[t].at
      r == file.rec[g]
      gone == r.status # "accepted" \/ (Recovers(t) /\ (r.advanced \/ ~Live(g))) IN
  /\ Holds(t) /\ task[t].pc = "final"
  /\ \/ gone /\ GiveUp(t) /\ UNCHANGED <<store, promise, proof>>
     \/ /\ ~gone /\ r.terminalized /\ UNCHANGED <<store, promise, proof>>
        /\ IF r.advanced THEN Return(t, FALSE) ELSE AwaitAdvance(t)
     \/ ~gone /\ ~r.terminalized /\ g \in proof /\ Terminalized(t)
     \/ /\ ~gone /\ ~r.terminalized /\ g \notin proof
        /\ IF mode = "up" THEN Goto(t, "term") /\ UNCHANGED <<store, promise, proof>>
                          ELSE loseContinuation(g) /\ Throw(t)
  /\ UNCHANGED <<starts, mode, history>>

(* A bug: the record read before the controller was awaited is written back.                        *)
TerminalizeStale(t) ==
  LET g == task[t].at IN
  /\ Holds(t) /\ task[t].pc = "term" /\ proof' = proof \ {g}
  /\ commit(With(g, [file.rec[g] EXCEPT !.status = "accepted", !.terminalized = TRUE]), "ok")
  /\ AwaitAdvance(t) /\ UNCHANGED <<starts, mode, promise, history>>

(* The controller answers with a proof or fails.                                                    *)
terminalizeAccepted(t) ==
  LET g == task[t].at
      r == file.rec[g] IN
  /\ Holds(t) /\ task[t].pc = "term"
  /\ \/ loseContinuation(g) /\ Throw(t)
     \/ /\ r.status # "accepted" \/ r.advanced
        /\ proof' = proof \ {g} /\ Throw(t) /\ UNCHANGED <<store, promise>>
     \/ r.status = "accepted" /\ ~r.advanced /\ Terminalized(t)
  /\ UNCHANGED <<starts, mode, history>>

(* A bug: the workflow gets the answer before the write that records it is known to be good.        *)
CompleteFirst(t) ==
  LET g == task[t].at
      r == file.rec[g] IN
  /\ Holds(t) /\ task[t].pc = "adv" /\ r.status = "accepted" /\ Live(g)
  /\ \E o \in Outcome : commit(With(g, [r EXCEPT !.advanced = TRUE]), o)
  /\ promise' = [promise EXCEPT ![g] = "resolved"]
  /\ delivered' = [delivered EXCEPT ![g] = r.answer] /\ Return(t, TRUE)
  /\ UNCHANGED <<starts, mode, proof, opened, acks>>

(* The workflow gets the answer once the record says so.                                            *)
completeAccepted(t) ==
  LET g == task[t].at
      r == file.rec[g]
      gone == r.status # "accepted" \/ ~Live(g) \/ (Recovers(t) /\ r.advanced) IN
  /\ Holds(t) /\ task[t].pc = "adv"
  /\ \/ gone /\ GiveUp(t) /\ UNCHANGED <<store, promise, delivered>>
     \/ /\ ~gone
        /\ \E o \in Outcome :
             /\ commit(With(g, [r EXCEPT !.advanced = TRUE]), o)
             /\ IF o = "ok"
                THEN /\ promise' = [promise EXCEPT ![g] = "resolved"]
                     /\ delivered' = [delivered EXCEPT ![g] = r.answer] /\ Return(t, TRUE)
                ELSE WriteFailed(t, o) /\ UNCHANGED <<promise, delivered>>
  /\ UNCHANGED <<starts, mode, proof, opened, acks>>

(* The catch of resolve() after an uncertain write, before anybody else gets the lock.              *)
QuarantineUncertain(t) ==
  /\ Holds(t) /\ task[t].pc = "doubt"
  /\ loseContinuation(task[t].at) /\ Throw(t)
  /\ UNCHANGED <<starts, mode, history>>

(* The catch of resolveGateFromNotification after a policy change; the lock is already released.    *)
QuarantineChanged(t) ==
  /\ task[t].pc = "changed"
  /\ loseContinuation(task[t].at) /\ End(t)
  /\ UNCHANGED <<starts, mode, lock, recovering, granted, retry, history>>

-----------------------------------------------------------------------------
(* Recovery of accepted gates, one after the other.                                                 *)

(* With nothing to recover the loop ends before its first await.                                    *)
StartRecovery(t, via) ==
  /\ task[t].pc = "idle"
  /\ IF Snapshot = {} THEN attempts' = 0 /\ UNCHANGED task
     ELSE /\ task' = [task EXCEPT ![t] = [Idle EXCEPT !.pc = "next", !.run = "recover", !.via = via,
                                                      !.todo = Snapshot]]
          /\ UNCHANGED attempts
  /\ UNCHANGED <<store, starts, promise, proof, lock, recovering, history, granted>>

FireTimer == timer /\ timer' = FALSE /\ StartRecovery(0, "timer") /\ UNCHANGED mode

(* A bug: the rolled back switch leaves an answer that failed meanwhile to itself.                  *)
ResumeOnly ==
  /\ mode = "suspended" /\ mode' = "up"
  /\ UNCHANGED <<store, starts, promise, proof, lock, task, recovering, retry, history, granted>>

(* A rolled back switch attaches the emitter again, and attaching recovers.                         *)
resume == mode = "suspended" /\ mode' = "up" /\ StartRecovery(-1, "attach") /\ UNCHANGED timer

(* So does the end of a turn.                                                                        *)
AgentEnd == mode = "up" /\ StartRecovery(-1, "attach") /\ UNCHANGED <<mode, timer>>

(* The loop takes the next gate of its snapshot that is still live and that no other recovery has;  *)
(* at its end another round is scheduled if it advanced or left something.                          *)
recover(t) ==
  LET next == {g \in task[t].todo : Live(g) /\ g \notin recovering}
      more == task[t].some \/ \E g \in Snapshot : Live(g)
      c == task[t] IN
  /\ task[t].pc = "next"
  /\ \/ \E g \in next :
          /\ \A h \in next : g <= h
          /\ lock' = [lock EXCEPT ![g] = Append(@, t)] /\ recovering' = recovering \cup {g}
          /\ task' = [task EXCEPT ![t].pc = "lock", ![t].at = g, ![t].todo = {h \in @ : h > g}]
          /\ UNCHANGED <<granted, retry>>
     \/ /\ next = {} /\ UNCHANGED <<lock, recovering>>
        /\ End(t)
        /\ IF t \in Call /\ Completed(file.rec[c.gate], c.key, c.answer)
           THEN Granted(t) ELSE UNCHANGED granted
        /\ IF more THEN scheduleRecovery ELSE attempts' = 0 /\ UNCHANGED timer
  /\ UNCHANGED <<store, starts, mode, promise, proof, history>>

(* finalizeAccepted, with the lock: an acknowledgement is asked for unless it was tried before.     *)
finalizeAccepted(t) ==
  LET g == task[t].at
      r == file.rec[g]
      ask == r.ack = "pending" /\ mode = "up" IN
  /\ Holds(t) /\ task[t].pc = "lock" /\ Recovers(t)
  /\ \/ (r.status # "accepted" \/ r.advanced) /\ Return(t, FALSE) /\ UNCHANGED <<store, acks>>
     \/ /\ r.status = "accepted" /\ ~r.advanced /\ r.ack \in {"none", "done"}
        /\ Goto(t, "final") /\ UNCHANGED <<store, acks>>
     \/ /\ r.status = "accepted" /\ ~r.advanced /\ r.ack \in {"pending", "started"}
        /\ \E o \in Outcome :
             /\ commit(With(g, [r EXCEPT !.ack = IF ask THEN "started" ELSE "done"]), o)
             /\ IF o = "ok" THEN Goto(t, IF ask THEN "ack" ELSE "final") ELSE WriteFailed(t, o)
             /\ acks' = IF ask /\ o = "ok" THEN [acks EXCEPT ![g] = @ + 1] ELSE acks
  /\ UNCHANGED <<starts, mode, promise, proof, opened, delivered>>

-----------------------------------------------------------------------------
Step(t) ==
  \/ resolveUnlocked(t) \/ finalizeAccepted(t) \/ updateAckPolicy(t) \/ Finalized(t)
  \/ terminalizeAccepted(t) \/ completeAccepted(t) \/ QuarantineUncertain(t) \/ QuarantineChanged(t)
  \/ recover(t)

Next ==
  \/ Start \/ openGate \/ suspend \/ resume \/ fence \/ Crash \/ FireTimer \/ AgentEnd
  \/ \E t \in Call, g \in Gate, a \in Answer :
       \/ \E k \in Key : answerGate(t, g, k, a)
       \/ \E k \in Key \cup {NoKey} : resolveGateFromNotification(t, g, k, a)
  \/ \E t \in Task : Step(t)

Spec == Init /\ [][Next]_vars

(* Awaits return, timers fire, and a session switch ends.                                           *)
Fairness ==
  /\ \A t \in Task : WF_vars(Step(t))
  /\ WF_vars(FireTimer) /\ WF_vars(resume \/ (mode = "suspended" /\ fence))

FairSpec == Spec /\ Fairness

-----------------------------------------------------------------------------
TypeOK ==
  /\ file \in FileState /\ older \subseteq FileState
  /\ faults \in 0..MaxFaults /\ starts \in 0..MaxStarts /\ mode \in {"down", "up", "suspended", "fenced"}
  /\ promise \in [Gate -> {"none", "open", "rejected", "resolved"}] /\ proof \subseteq Gate
  /\ \A g \in Gate : \A i \in 1..Len(lock[g]) : lock[g][i] \in Task /\ task[lock[g][i]].at = g
  /\ recovering \subseteq Gate /\ timer \in BOOLEAN /\ attempts \in 0..MaxAttempts
  /\ opened \subseteq Gate /\ delivered \in [Gate -> Answer \cup {NoAnswer}]
  /\ granted \subseteq Gate \X Answer /\ acks \in [Gate -> Nat]

Contents == {file} \cup older

(* An answer that a workflow got is in the store for good: whatever a crash leaves, the gate is     *)
(* recorded as accepted with that answer, its presentation closed and the workflow advanced.        *)
DeliveredIsDurable ==
  \A g \in Gate : delivered[g] # NoAnswer =>
    \A f \in Contents : /\ f.rec[g].status = "accepted" /\ f.rec[g].answer = delivered[g]
                        /\ f.rec[g].terminalized /\ f.rec[g].advanced

(* All clients whose answer to a gate was accepted gave the same answer, and the workflow got no     *)
(* other.                                                                                           *)
AnswersAgree ==
  \A p, q \in granted : /\ p[1] = q[1] => p[2] = q[2]
                        /\ delivered[p[1]] \in {NoAnswer, p[2]}

(* The acknowledgement of an accepted reply is asked for at most once, by the reply or by a          *)
(* recovery.                                                                                        *)
AckOnce == \A g \in Gate : acks[g] <= 1

(* A gate of an earlier runtime instance is finished or quarantined, whatever a crash leaves, as     *)
(* soon as the next instance is up.                                                                 *)
OldGatesQuarantined ==
  \A f \in Contents : \A g \in Gate :
    f.rec[g].status = "pending" \/ (f.rec[g].status = "accepted" /\ ~f.rec[g].advanced)
      => f.rec[g].owner = f.inst /\ (mode # "down" => f.inst = file.inst)

(* While the process runs, an accepted answer stays as it is until it is advanced or quarantined,    *)
(* and neither is undone: no late task puts back what it read before it waited.                      *)
RecordsStand ==
  [][mode' # "down" => \A g \in Gate :
       LET r == file.rec[g]
           s == file'.rec[g] IN
       /\ r.status = "accepted" => s.answer = r.answer /\ s.key = r.key /\ s.status \in {"accepted", "quarantined"}
       /\ r.status = "quarantined" => s.status = "quarantined"
       /\ (r.advanced => s.advanced) /\ (r.terminalized => s.terminalized)]_vars

(* No gate is presented under an id that was presented before, by this instance or an earlier one.   *)
IdsAreFresh == [][\A g \in Gate : promise'[g] = "open" /\ ~Live(g) => g \notin opened]_vars

(* A workflow whose gate has an accepted answer gets it or is told that it will not, although a      *)
(* write fails, the session is switched or the switch is rolled back.  Checked for one failed write: *)
(* a second one can leave the workflow waiting.                                                      *)
AcceptedSettles ==
  \A g \in Gate : Live(g) /\ file.rec[g].status = "accepted" ~> ~Live(g)
====
