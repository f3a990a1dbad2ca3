------------------------ MODULE WorkflowGatesProofs ------------------------
(* What the store of workflow gates guarantees for any number of gates,       *)
(* answers, failed writes, crashes and restarts: the steps of an answer and   *)
(* of a recovery keep the invariant, and what follows from it.                *)
EXTENDS WorkflowGatesInvariant

-----------------------------------------------------------------------------
\* Answers that arrive.
LEMMA EnterMoves ==
    ASSUME Types, NEW t \in Call, NEW g \in Gate, NEW k \in Key \cup {NoKey}, NEW a \in Answer,
           NEW via \in {"direct", "notify"}, Enter(t, Request(t, "resolve", via, g, k, a))
    PROVE  /\ t \in Task /\ Moves(t) /\ task'[t].pc = "lock" /\ task'[t].run = "resolve"
           /\ task'[t].at = g /\ task'[t].gate = g /\ task'[t].answer = a
<1> DEFINE c == [Request(t, "resolve", via, g, k, a) EXCEPT !.pc = "lock",
                                          !.at = Request(t, "resolve", via, g, k, a).gate]
<1>1. c \in TaskRecord /\ c.pc = "lock" /\ c.run = "resolve" /\ c.at = g /\ c.gate = g /\ c.answer = a
  BY Zenon DEF TaskRecord, Request, Idle, PC
<1>2. task' = [task EXCEPT ![t] = c]
  BY DEF Enter
<1>3. t \in Task
  BY DEF Task
<1> HIDE DEF c
<1> QED
  BY <1>1, <1>2, <1>3 DEF Moves, Types

LEMMA AnswerEffect ==
    ASSUME GatesInv, NEW t \in Call, NEW g \in Gate, NEW k \in Key, NEW a \in Answer, answerGate(t, g, k, a)
    PROVE  Effect
<1>1. Types /\ UNCHANGED <<store, starts, mode, promise, history>> /\ mode = "up" /\ g \in opened /\ t \in Task
  BY ContentsOK DEF answerGate, Task
<1>2. StoreStep /\ OpenedStep /\ DeliveredStep /\ AcksStep /\ PromiseStep
  BY <1>1, ContentsOK, Unwritten, SameHistory, SamePromises
<1>3. opened \subseteq opened' /\ mode' # "down" /\ opened' = opened
  BY <1>1 DEF history
<1> DEFINE r == file.rec[g]
           req == Request(t, "resolve", "direct", g, k, a)
<1>4. CASE /\ task' = [task EXCEPT ![t] = [req EXCEPT !.pc = "next", !.run = "recover", !.todo = Snapshot]]
           /\ UNCHANGED granted
  <2> DEFINE c == [req EXCEPT !.pc = "next", !.run = "recover", !.todo = Snapshot]
  <2>1. c \in TaskRecord /\ c.pc = "next" /\ c.run = "recover" /\ c.gate = g /\ c.answer = a
    BY Zenon DEF TaskRecord, Request, Idle, PC, Snapshot
  <2>2. task' = [task EXCEPT ![t] = c]
    BY <1>4
  <2> HIDE DEF c
  <2>3. Moves(t) /\ task'[t] = c
    BY <1>1, <2>1, <2>2 DEF Moves, Types
  <2>4. TaskOK(t)'
    BY <1>1, <1>3, <2>1, <2>3 DEF TaskOK
  <2> QED
    BY <1>1, <1>2, <1>3, <1>4, <2>3, <2>4, OthersOK, SameGranted DEF Effect
<1>5. CASE Enter(t, req) /\ UNCHANGED granted
  <2>1. /\ Moves(t) /\ task'[t].pc = "lock" /\ task'[t].run = "resolve"
        /\ task'[t].at = g /\ task'[t].gate = g /\ task'[t].answer = a
    BY <1>1, <1>5, EnterMoves
  <2>2. TaskOK(t)'
    BY <1>1, <1>3, <2>1 DEF TaskOK
  <2> QED
    BY <1>1, <1>2, <1>3, <1>5, <2>1, <2>2, OthersOK, SameGranted DEF Effect
<1>6. CASE End(t) /\ granted' = IF Completed(r, k, a) THEN granted \cup {<<g, a>>} ELSE granted
  <2>1. Aside(t) /\ Moves(t) /\ task'[t].pc \in {"idle", "done"}
    BY <1>1, <1>6, EndMoves, EndEnds DEF Aside
  <2>2. TaskOK(t)'
    BY <2>1 DEF TaskOK
  <2>3. GrantedStep
    <3>1. file' = file
      BY <1>1 DEF store
    <3>2. Completed(r, k, a) => r.status = "accepted" /\ r.answer = a
      BY ContentsOK DEF Completed, Same, ContentOK
    <3>3. granted \subseteq Gate \X Answer /\ <<g, a>> \in Gate \X Answer
      BY <1>1 DEF Types
    <3> QED
      BY <1>1, <1>6, <3>1, <3>2, <3>3 DEF GrantedStep
  <2> QED
    BY <1>1, <1>2, <1>3, <2>1, <2>2, <2>3, OthersOK DEF Effect
<1> QED
  BY <1>4, <1>5, <1>6 DEF answerGate

LEMMA NotificationEffect ==
    ASSUME GatesInv, NEW t \in Call, NEW g \in Gate, NEW k \in Key \cup {NoKey}, NEW a \in Answer,
           resolveGateFromNotification(t, g, k, a)
    PROVE  Effect
<1>1. /\ Types /\ UNCHANGED <<store, starts, mode, promise, history, granted>> /\ mode = "up" /\ promise[g] # "none"
      /\ Enter(t, Request(t, "resolve", "notify", g, k, a))
  BY ContentsOK DEF resolveGateFromNotification
<1>2. StoreStep /\ OpenedStep /\ DeliveredStep /\ AcksStep /\ PromiseStep /\ GrantedStep
  BY <1>1, ContentsOK, Unwritten, SameHistory, SamePromises, SameGranted
<1>3. opened' = opened /\ mode' # "down" /\ g \in opened
  BY <1>1 DEF history, GatesInv
<1>4. /\ t \in Task /\ Moves(t) /\ task'[t].pc = "lock" /\ task'[t].run = "resolve"
      /\ task'[t].at = g /\ task'[t].gate = g /\ task'[t].answer = a
  BY <1>1, EnterMoves
<1>5. TaskOK(t)'
  BY <1>3, <1>4 DEF TaskOK
<1> QED
  BY <1>1, <1>2, <1>3, <1>4, <1>5, OthersOK DEF Effect

-----------------------------------------------------------------------------
\* The steps of a task in a gate.
Busy(t) == task[t].pc \notin {"idle", "done", "next"}

LEMMA BusyTask ==
    ASSUME GatesInv, NEW t \in Task, Busy(t)
    PROVE  /\ Types /\ mode # "down" /\ task[t] \in TaskRecord /\ task[t].at \in Gate
           /\ file.rec[task[t].at] \in PersistedGate
           /\ ~Recovers(t) => /\ task[t].run = "resolve" /\ task[t].at = task[t].gate
                              /\ task[t].gate \in opened /\ task[t].answer \in Answer
           /\ Recovers(t) => task[t].run # "resolve"
<1>1. TaskOK(t) /\ Types
  BY DEF GatesInv
<1>2. task[t].at \in Gate /\ mode # "down"
  BY <1>1 DEF TaskOK, Busy
<1>3. task[t] \in TaskRecord /\ file.rec[task[t].at] \in PersistedGate
  BY <1>1, <1>2 DEF Types, FileState
<1>4. ~Recovers(t) => task[t].run = "resolve"
  BY <1>1 DEF TaskOK, Busy, Recovers
<1>5. ~Recovers(t) => task[t].at = task[t].gate /\ task[t].gate \in opened /\ task[t].answer \in Answer
  BY <1>1, <1>4 DEF TaskOK, Busy
<1> QED
  BY <1>1, <1>2, <1>3, <1>4, <1>5 DEF Recovers

\* A task that steps aside or goes on, and leaves history and waiters alone.
LEMMA AsideEffect ==
    ASSUME GatesInv, NEW t \in Task, Busy(t), Aside(t), GrantedStep, StoreStep, PromiseStep,
           UNCHANGED <<starts, mode>>, OpenedStep, DeliveredStep, AcksStep
    PROVE  Effect
<1>1. TaskStep
  BY AsideOK, BusyTask DEF Busy, OpenedStep
<1> QED
  BY <1>1, BusyTask DEF Effect

LEMMA GoesOnEffect ==
    ASSUME GatesInv, NEW t \in Task, Busy(t), NEW p \in {"ack", "final", "term", "adv"}, Goto(t, p),
           StoreStep, PromiseStep, UNCHANGED <<starts, mode>>, OpenedStep, DeliveredStep, AcksStep,
           task[t].run = "resolve" =>
             Decided(file'.rec[task[t].at]) /\ file'.rec[task[t].at].answer = task[t].answer,
           p = "adv" => file'.rec[task[t].at].terminalized
    PROVE  Effect
<1>1. TaskStep /\ granted' = granted
  BY GoesOnOK, BusyTask DEF Busy, OpenedStep
<1> QED
  BY <1>1, BusyTask, SameGranted DEF Effect

\* An answer is granted to a call when the record has it.
LEMMA ReturnGrants ==
    ASSUME GatesInv, NEW t \in Task, Busy(t), NEW advanced \in BOOLEAN, Return(t, advanced),
           file'.rec[task[t].at].status = "accepted",
           task[t].run = "resolve" => file'.rec[task[t].at].answer = task[t].answer
    PROVE  Aside(t) /\ GrantedStep
<1>1. Types /\ Aside(t)
  BY BusyTask, ReturnMoves
<1>2. CASE Recovers(t)
  BY <1>1, <1>2, ReturnMoves, SameGranted
<1>3. CASE ~Recovers(t)
  <2> DEFINE g == task[t].at
             a == task[t].answer
  <2>1. granted' = granted \cup {<<g, a>>} /\ g \in Gate /\ g \in opened /\ a \in Answer /\ file'.rec[g].answer = a
    BY <1>1, <1>3, BusyTask, ReturnMoves
  <2> HIDE DEF g, a
  <2>2. file'.rec[g].status = "accepted"
    BY DEF g
  <2> QED
    BY <1>1, <2>1, <2>2 DEF GrantedStep, Types
<1> QED
  BY <1>2, <1>3

LEMMA AcceptEffect ==
    ASSUME GatesInv, NEW t \in Task, task[t].pc = "lock", ~Recovers(t), Answerable(task[t].at), Accept(t),
           UNCHANGED <<starts, mode, promise, opened, delivered>>
    PROVE  Effect
<1> DEFINE g == task[t].at
           direct == task[t].via = "direct"
           acked == ~direct /\ task[t].answer \in Commit
           accepted == [file.rec[g] EXCEPT !.status = "accepted", !.key = task[t].key,
                          !.answer = task[t].answer, !.ack = IF acked THEN "pending" ELSE "none"]
           started == [accepted EXCEPT !.ack = "started"]
<1>1. /\ Busy(t) /\ Types /\ mode # "down" /\ task[t] \in TaskRecord /\ g \in Gate
      /\ file.rec[g] \in PersistedGate /\ task[t].run = "resolve"
  BY BusyTask DEF Busy
<1>2. file.rec[g].status = "pending" /\ ~file.rec[g].advanced
  BY <1>1, ContentsOK DEF Answerable, ContentOK
<1>3. /\ accepted \in PersistedGate /\ accepted.status = "accepted" /\ accepted.answer = task[t].answer
      /\ accepted.advanced = file.rec[g].advanced /\ accepted.terminalized = file.rec[g].terminalized
      /\ accepted.owner = file.rec[g].owner /\ accepted.key = task[t].key /\ accepted.ack \in {"pending", "none"}
  BY <1>1, Zenon DEF PersistedGate, TaskRecord
<1>4. Advances(file.rec[g], accepted, file.inst)
  <2> HIDE DEF accepted
  <2> QED
    BY <1>2, <1>3 DEF Advances, Decided
<1>5. /\ started \in PersistedGate /\ started.status = "accepted" /\ started.answer = task[t].answer
      /\ started.advanced = accepted.advanced /\ started.terminalized = accepted.terminalized
      /\ started.owner = accepted.owner /\ started.key = accepted.key /\ started.ack = "started"
  <2> HIDE DEF accepted
  <2> QED
    BY <1>3 DEF PersistedGate
<1> HIDE DEF accepted, started
<1>6. Advances(file.rec[g], started, file.inst) /\ Advances(accepted, started, file.inst)
  BY <1>2, <1>3, <1>5 DEF Advances, Decided
<1>7. PromiseStep /\ OpenedStep /\ DeliveredStep
  BY <1>1, SamePromises DEF OpenedStep, DeliveredStep, Types
<1>8. CASE \E o \in Outcome : commit(With(g, accepted), o) /\ WriteFailed(t, o) /\ UNCHANGED acks
  <2>1. PICK o \in Outcome : commit(With(g, accepted), o) /\ WriteFailed(t, o) /\ UNCHANGED acks
    BY <1>8
  <2>2. StoreStep
    BY <1>1, <1>2, <1>3, <1>4, <2>1, RecordWrite
  <2>3. Aside(t) /\ GrantedStep /\ AcksStep
    BY <1>1, <2>1, WriteFailedAside, SameGranted DEF AcksStep
  <2> QED
    BY <1>1, <1>7, <2>2, <2>3, AsideEffect
<1>9. CASE commit(With(g, accepted), "ok") /\ UNCHANGED acks /\ (Goto(t, "final") \/ PolicyChanged(t))
  <2>1. StoreStep /\ file'.rec[g] = accepted
    <3>1. "ok" \in Outcome
      BY DEF Outcome
    <3> QED
      BY <1>1, <1>2, <1>3, <1>4, <1>9, <3>1, RecordWrite
  <2>2. AcksStep
    BY <1>9 DEF AcksStep
  <2>3. CASE Goto(t, "final")
    BY <1>1, <1>3, <1>7, <2>1, <2>2, <2>3, GoesOnEffect, Zenon DEF Decided
  <2>4. CASE PolicyChanged(t)
    BY <1>1, <1>7, <2>1, <2>2, <2>4, PolicyChangedAside, SameGranted, AsideEffect
  <2> QED
    BY <1>9, <2>3, <2>4
<1>10. ASSUME NEW o \in Outcome, WriteAfter(With(g, accepted), With(g, started), o),
              \/ o # "ok" /\ WriteFailed(t, o) /\ UNCHANGED acks
              \/ o = "ok" /\ PolicyChanged(t) /\ UNCHANGED acks
              \/ o = "ok" /\ Goto(t, "ack") /\ acks' = [acks EXCEPT ![g] = @ + 1]
       PROVE  Effect
  <2>1. g <= file.seq
    BY <1>1, <1>2, ContentsOK, Bounds DEF ContentOK, FileState, Gate
  <2>2. /\ With(g, accepted) \in FileState /\ Later(file, With(g, accepted)) /\ With(g, accepted).rec[g] = accepted
        /\ With(g, started) \in FileState /\ Later(file, With(g, started)) /\ With(g, started).rec[g] = started
    BY <1>1, <1>3, <1>4, <1>5, <1>6, <2>1, ContentsOK, WithLater DEF With
  <2>3. Later(With(g, accepted), With(g, started))
    <3>1. /\ With(g, accepted).inst = file.inst /\ With(g, accepted).seq = file.seq
          /\ With(g, started).inst = file.inst /\ With(g, started).seq = file.seq
          /\ \A k \in Gate : k # g => With(g, accepted).rec[k] = With(g, started).rec[k]
      BY <1>1, ContentsOK DEF With, FileState
    <3>2. file.seq \in Int /\ g \in Int
      BY ContentsOK, <1>1, Bounds DEF FileState, Gate
    <3> QED
      BY <1>6, <2>1, <2>2, <3>1, <3>2, AdvancesRefl DEF Later
  <2>4. StoreStep /\ (o = "ok" => older' = {} /\ file'.rec[g] = started)
    BY <1>10, <2>2, <2>3, ContentsOK, Outcomes, WriteEffect
  <2>5. CASE o # "ok" /\ WriteFailed(t, o) /\ UNCHANGED acks
    <3>1. Aside(t) /\ GrantedStep /\ AcksStep
      BY <1>1, <2>5, WriteFailedAside, SameGranted DEF AcksStep
    <3> QED
      BY <1>1, <1>7, <2>4, <3>1, AsideEffect
  <2>6. CASE o = "ok" /\ PolicyChanged(t) /\ UNCHANGED acks
    <3>1. Aside(t) /\ GrantedStep /\ AcksStep
      BY <1>1, <2>6, PolicyChangedAside, SameGranted DEF AcksStep
    <3> QED
      BY <1>1, <1>7, <2>4, <3>1, AsideEffect
  <2>7. CASE o = "ok" /\ Goto(t, "ack") /\ acks' = [acks EXCEPT ![g] = @ + 1]
    <3>1. AcksStep
      BY <1>1, <1>2, <1>5, <2>4, <2>7, Zenon DEF AcksStep
    <3> QED
      BY <1>1, <1>5, <1>7, <2>4, <2>7, <3>1, GoesOnEffect DEF Decided
  <2> QED
    BY <1>10, <2>5, <2>6, <2>7
<1> QED
  BY <1>8, <1>9, <1>10 DEF Accept, accepted, started

LEMMA ResolveEffect ==
    ASSUME GatesInv, NEW t \in Task, resolveUnlocked(t)
    PROVE  Effect
<1> DEFINE g == task[t].at
           r == file.rec[g]
           replay == r.status = "accepted" /\ Same(r, task[t].key, task[t].answer)
<1>1. task[t].pc = "lock" /\ ~Recovers(t) /\ UNCHANGED <<starts, mode, promise, opened, delivered>>
  BY DEF resolveUnlocked
<1>2. /\ Busy(t) /\ Types /\ g \in Gate /\ g = task[t].gate /\ g \in opened /\ task[t].answer \in Answer
  BY <1>1, BusyTask DEF Busy
<1>3. PromiseStep /\ OpenedStep /\ DeliveredStep
  BY <1>1, <1>2, SamePromises DEF OpenedStep, DeliveredStep, Types
<1>4. CASE Answerable(g) /\ Accept(t)
  BY <1>1, <1>4, AcceptEffect
<1>5. CASE UNCHANGED <<store, acks>> /\ (PolicyChanged(t) \/ Throw(t) \/ (End(t) /\ UNCHANGED granted))
  <2>1. StoreStep /\ AcksStep
    BY <1>5, ContentsOK, Unwritten DEF AcksStep
  <2>2. Aside(t) /\ GrantedStep
    BY <1>2, <1>5, PolicyChangedAside, ThrowAside, EndMoves, SameGranted
  <2> QED
    BY <1>1, <1>2, <1>3, <2>1, <2>2, AsideEffect
<1>6. CASE replay /\ Return(t, FALSE) /\ UNCHANGED <<store, acks>>
  <2>1. StoreStep /\ AcksStep /\ file' = file
    BY <1>6, ContentsOK, Unwritten DEF AcksStep, store
  <2>2. Aside(t) /\ granted' = granted \cup {<<g, task[t].answer>>}
    BY <1>1, <1>2, <1>6, ReturnMoves, Zenon
  <2>3. GrantedStep
    BY <1>2, <1>6, <2>1, <2>2 DEF GrantedStep, Same, Types
  <2> QED
    BY <1>1, <1>2, <1>3, <2>1, <2>2, <2>3, AsideEffect
<1> QED
  BY <1>4, <1>5, <1>6, Zenon DEF resolveUnlocked

\* What is recorded of an accepted answer only grows.
LEMMA AcceptedAdvances ==
    ASSUME NEW r \in PersistedGate, NEW i, r.status = "accepted"
    PROVE  /\ \A x \in {"started", "done"} :
                LET s == [r EXCEPT !.ack = x] IN
                s \in PersistedGate /\ Advances(r, s, i) /\ s.status = "accepted" /\ s.answer = r.answer /\ s.ack = x
           /\ LET s == [r EXCEPT !.terminalized = TRUE] IN
              s \in PersistedGate /\ Advances(r, s, i) /\ s.status = "accepted" /\ s.answer = r.answer /\ s.terminalized
           /\ LET s == [r EXCEPT !.advanced = TRUE] IN
              /\ s \in PersistedGate /\ Advances(r, s, i) /\ s.status = "accepted" /\ s.answer = r.answer
              /\ s.advanced /\ s.terminalized = r.terminalized
  BY Zenon DEF PersistedGate, Advances, Decided

LEMMA FinalizeEffect ==
    ASSUME GatesInv, NEW t \in Task, finalizeAccepted(t)
    PROVE  Effect
<1> DEFINE g == task[t].at
           r == file.rec[g]
           ask == r.ack = "pending" /\ mode = "up"
           x == IF ask THEN "started" ELSE "done"
<1>1. task[t].pc = "lock" /\ Recovers(t) /\ UNCHANGED <<starts, mode, promise, opened, delivered>>
  BY Zenon DEF finalizeAccepted
<1>2. Busy(t) /\ Types /\ g \in Gate /\ r \in PersistedGate /\ task[t].run # "resolve"
  BY <1>1, BusyTask DEF Busy
<1>3. PromiseStep /\ OpenedStep /\ DeliveredStep
  BY <1>1, <1>2, SamePromises DEF OpenedStep, DeliveredStep, Types
<1>4. CASE UNCHANGED <<store, acks>> /\ (Return(t, FALSE) \/ Goto(t, "final"))
  <2>1. StoreStep /\ AcksStep
    BY <1>4, ContentsOK, Unwritten DEF AcksStep
  <2>2. CASE Return(t, FALSE)
    BY <1>1, <1>2, <1>3, <2>1, <2>2, ReturnMoves, SameGranted, AsideEffect, Zenon
  <2>3. CASE Goto(t, "final")
    BY <1>1, <1>2, <1>3, <2>1, <2>3, GoesOnEffect
  <2> QED
    BY <1>4, <2>2, <2>3, Zenon
<1>5. ASSUME NEW o \in Outcome, r.status = "accepted", commit(With(g, [r EXCEPT !.ack = x]), o),
             IF o = "ok" THEN Goto(t, IF ask THEN "ack" ELSE "final") ELSE WriteFailed(t, o),
             acks' = IF ask /\ o = "ok" THEN [acks EXCEPT ![g] = @ + 1] ELSE acks
      PROVE  Effect
  <2> DEFINE s == [r EXCEPT !.ack = x]
  <2>1. x \in {"started", "done"}
    OBVIOUS
  <2>2. s \in PersistedGate /\ Advances(r, s, file.inst) /\ s.status = "accepted" /\ s.ack = x
    <3> HIDE DEF x, r
    <3> QED
      BY <1>2, <1>5, <2>1, AcceptedAdvances, Zenon
  <2> HIDE DEF s
  <2>3. StoreStep /\ (o = "ok" => older' = {} /\ file'.rec[g] = s)
    <3>1. commit(With(g, s), o)
      BY <1>5 DEF s
    <3>2. r.status # "none"
      BY <1>5
    <3> QED
      BY <1>2, <2>2, <3>1, <3>2, RecordWrite
  <2>4. AcksStep
    <3>1. CASE ask /\ o = "ok"
      BY <1>2, <1>5, <2>2, <2>3, <3>1, Zenon DEF AcksStep
    <3>2. CASE ~(ask /\ o = "ok")
      BY <1>5, <3>2 DEF AcksStep
    <3> QED
      BY <3>1, <3>2
  <2>5. CASE o = "ok"
    <3>1. PICK p \in {"ack", "final"} : Goto(t, p)
      BY <1>5, <2>5
    <3> QED
      BY <1>1, <1>2, <1>3, <2>3, <2>4, <3>1, GoesOnEffect
  <2>6. CASE o # "ok"
    <3>1. Aside(t) /\ GrantedStep
      BY <1>2, <1>5, <2>6, WriteFailedAside, SameGranted
    <3> QED
      BY <1>1, <1>2, <1>3, <2>3, <2>4, <3>1, AsideEffect
  <2> QED
    BY <2>5, <2>6
<1> QED
  BY <1>4, <1>5, Zenon DEF finalizeAccepted

LEMMA AckPolicyEffect ==
    ASSUME GatesInv, NEW t \in Task, updateAckPolicy(t)
    PROVE  Effect
<1> DEFINE g == task[t].at
           r == file.rec[g]
           s == [r EXCEPT !.ack = "done"]
<1>1. task[t].pc = "ack" /\ UNCHANGED <<starts, mode, promise, history>>
  BY DEF updateAckPolicy
<1>2. Busy(t) /\ Types /\ g \in Gate /\ r \in PersistedGate
  BY <1>1, BusyTask DEF Busy
<1>3. PromiseStep /\ OpenedStep /\ DeliveredStep /\ AcksStep
  BY <1>1, <1>2, SamePromises, SameHistory
<1>4. CASE UNCHANGED store /\ (PolicyChanged(t) \/ Throw(t))
  <2>1. StoreStep /\ Aside(t) /\ GrantedStep
    BY <1>2, <1>4, ContentsOK, Unwritten, PolicyChangedAside, ThrowAside, SameGranted
  <2> QED
    BY <1>1, <1>2, <1>3, <2>1, AsideEffect
<1>5. ASSUME NEW o \in Outcome, r.status = "accepted", commit(With(g, s), o),
             IF o = "ok" THEN Goto(t, "final") \/ PolicyChanged(t) ELSE WriteFailed(t, o)
      PROVE  Effect
  <2>1. s \in PersistedGate /\ Advances(r, s, file.inst) /\ s.status = "accepted" /\ s.answer = r.answer
    BY <1>2, <1>5, AcceptedAdvances, Zenon
  <2>2. r.status # "none"
    BY <1>5
  <2>3. task[t].run = "resolve" => r.answer = task[t].answer
    BY <1>1 DEF GatesInv, TaskOK
  <2> HIDE DEF s
  <2>4. StoreStep /\ (o = "ok" => file'.rec[g] = s)
    BY <1>2, <1>5, <2>1, <2>2, RecordWrite
  <2>5. CASE o = "ok" /\ Goto(t, "final")
    BY <1>1, <1>2, <1>3, <2>1, <2>3, <2>4, <2>5, GoesOnEffect, Zenon DEF Decided
  <2>6. CASE PolicyChanged(t) \/ WriteFailed(t, o)
    <3>1. Aside(t) /\ GrantedStep
      BY <1>2, <2>6, PolicyChangedAside, WriteFailedAside, SameGranted
    <3> QED
      BY <1>1, <1>2, <1>3, <2>4, <3>1, AsideEffect
  <2> QED
    BY <1>5, <2>5, <2>6
<1> QED
  BY <1>4, <1>5 DEF updateAckPolicy

\* A resolving task has its answer recorded.
LEMMA Resolving ==
    ASSUME GatesInv, NEW t \in Task, task[t].pc \in {"final", "term", "adv"}
    PROVE  /\ task[t].run = "resolve" =>
                Decided(file.rec[task[t].at]) /\ file.rec[task[t].at].answer = task[t].answer
           /\ task[t].pc = "adv" => file.rec[task[t].at].terminalized
  BY DEF GatesInv, TaskOK

LEMMA AwaitEffect ==
    ASSUME GatesInv, NEW t \in Task, Busy(t), AwaitAdvance(t), StoreStep, UNCHANGED <<starts, mode, promise, history>>,
           task[t].run = "resolve" =>
             Decided(file'.rec[task[t].at]) /\ file'.rec[task[t].at].answer = task[t].answer,
           file'.rec[task[t].at].terminalized
    PROVE  Effect
<1>1. Types /\ PromiseStep /\ OpenedStep /\ DeliveredStep /\ AcksStep
  BY ContentsOK, SamePromises, SameHistory
<1>2. CASE Goto(t, "adv")
  BY <1>1, <1>2, GoesOnEffect
<1>3. CASE GiveUp(t)
  <2>1. Aside(t) /\ GrantedStep
    BY <1>1, <1>3, GiveUpAside, SameGranted
  <2> QED
    BY <1>1, <2>1, AsideEffect
<1> QED
  BY <1>2, <1>3 DEF AwaitAdvance

LEMMA TerminalizedEffect ==
    ASSUME GatesInv, NEW t \in Task, task[t].pc \in {"final", "term"}, file.rec[task[t].at].status = "accepted",
           Terminalized(t), UNCHANGED <<starts, mode, history>>
    PROVE  Effect
<1> DEFINE g == task[t].at
           r == file.rec[g]
           s == [r EXCEPT !.terminalized = TRUE]
<1>1. Busy(t) /\ Types /\ g \in Gate /\ r \in PersistedGate /\ UNCHANGED promise
  BY BusyTask DEF Busy, Terminalized
<1>2. s \in PersistedGate /\ Advances(r, s, file.inst) /\ s.status = "accepted" /\ s.answer = r.answer /\ s.terminalized
  BY <1>1, AcceptedAdvances, Zenon
<1>3. PICK o \in Outcome : commit(With(g, s), o) /\ IF o = "ok" THEN AwaitAdvance(t) ELSE WriteFailed(t, o)
  BY DEF Terminalized
<1>4. r.status # "none" /\ (task[t].run = "resolve" => r.answer = task[t].answer)
  BY Resolving
<1> HIDE DEF s
<1>5. StoreStep /\ (o = "ok" => file'.rec[g] = s)
  BY <1>1, <1>2, <1>3, <1>4, RecordWrite
<1>6. CASE o = "ok"
  BY <1>1, <1>2, <1>3, <1>4, <1>5, <1>6, AwaitEffect DEF Decided
<1>7. CASE o # "ok"
  <2>1. Aside(t) /\ GrantedStep /\ PromiseStep /\ OpenedStep /\ DeliveredStep /\ AcksStep
    BY <1>1, <1>3, <1>7, WriteFailedAside, SameGranted, SamePromises, SameHistory, Zenon
  <2> QED
    BY <1>1, <1>5, <2>1, AsideEffect
<1> QED
  BY <1>6, <1>7

\* Giving continuation authority up ends the task.
LEMMA LostEffect ==
    ASSUME GatesInv, NEW t \in Task, Busy(t), loseContinuation(task[t].at), Aside(t), UNCHANGED granted,
           UNCHANGED <<starts, mode, history>>
    PROVE  Effect
<1>1. StoreStep /\ PromiseStep
  BY BusyTask, LoseEffect
<1>2. GrantedStep /\ OpenedStep /\ DeliveredStep /\ AcksStep
  BY BusyTask, SameGranted, SameHistory
<1> QED
  BY <1>1, <1>2, AsideEffect

LEMMA FinalizedEffect ==
    ASSUME GatesInv, NEW t \in Task, Finalized(t)
    PROVE  Effect
<1> DEFINE g == task[t].at
           r == file.rec[g]
<1>1. task[t].pc = "final" /\ UNCHANGED <<starts, mode, history>>
  BY Zenon DEF Finalized
<1>2. Busy(t) /\ Types /\ g \in Gate
  BY <1>1, BusyTask DEF Busy
<1>3. task[t].run = "resolve" => Decided(r) /\ r.answer = task[t].answer
  BY <1>1, Resolving
<1>4. OpenedStep /\ DeliveredStep /\ AcksStep
  BY <1>1, <1>2, SameHistory
<1>5. CASE r.status = "accepted" /\ Terminalized(t)
  BY <1>1, <1>5, TerminalizedEffect
<1>6. CASE loseContinuation(g) /\ Throw(t)
  BY <1>1, <1>2, <1>6, ThrowAside, LostEffect
<1>7. CASE UNCHANGED <<store, promise>>
  <2>1. StoreStep /\ PromiseStep /\ file' = file
    BY <1>2, <1>7, ContentsOK, Unwritten, SamePromises DEF store
  <2>2. CASE GiveUp(t)
    BY <1>1, <1>2, <1>4, <2>1, <2>2, GiveUpAside, SameGranted, AsideEffect
  <2>3. CASE r.status = "accepted" /\ Return(t, FALSE)
    <3>1. Aside(t) /\ GrantedStep
      BY <1>2, <1>3, <2>1, <2>3, ReturnGrants, Zenon
    <3> QED
      BY <1>1, <1>2, <1>4, <2>1, <3>1, AsideEffect
  <2>4. CASE r.terminalized /\ AwaitAdvance(t)
    BY <1>1, <1>2, <1>3, <1>7, <2>1, <2>4, AwaitEffect
  <2>5. CASE Goto(t, "term")
    BY <1>1, <1>2, <1>3, <1>4, <2>1, <2>5, GoesOnEffect
  <2> QED
    BY <1>5, <1>6, <2>2, <2>3, <2>4, <2>5, Zenon DEF Finalized
<1> QED
  BY <1>5, <1>6, <1>7, Zenon DEF Finalized

LEMMA TerminalizeEffect ==
    ASSUME GatesInv, NEW t \in Task, terminalizeAccepted(t)
    PROVE  Effect
<1>1. task[t].pc = "term" /\ UNCHANGED <<starts, mode, history>>
  BY DEF terminalizeAccepted
<1>2. Busy(t) /\ Types
  BY <1>1, BusyTask DEF Busy
<1>3. CASE loseContinuation(task[t].at) /\ Throw(t)
  BY <1>1, <1>2, <1>3, ThrowAside, LostEffect
<1>4. CASE Throw(t) /\ UNCHANGED <<store, promise>>
  <2>1. StoreStep /\ PromiseStep /\ OpenedStep /\ DeliveredStep /\ AcksStep /\ Aside(t) /\ GrantedStep
    BY <1>1, <1>2, <1>4, ContentsOK, Unwritten, SamePromises, SameHistory, ThrowAside, SameGranted
  <2> QED
    BY <1>1, <1>2, <2>1, AsideEffect
<1>5. CASE file.rec[task[t].at].status = "accepted" /\ Terminalized(t)
  BY <1>1, <1>5, TerminalizedEffect
<1> QED
  BY <1>3, <1>4, <1>5 DEF terminalizeAccepted

LEMMA CompleteEffect ==
    ASSUME GatesInv, NEW t \in Task, completeAccepted(t)
    PROVE  Effect
<1> DEFINE g == task[t].at
           r == file.rec[g]
           s == [r EXCEPT !.advanced = TRUE]
<1>1. task[t].pc = "adv" /\ UNCHANGED <<starts, mode, opened, acks>>
  BY DEF completeAccepted
<1>2. Busy(t) /\ Types /\ g \in Gate /\ r \in PersistedGate
  BY <1>1, BusyTask DEF Busy
<1>3. r.terminalized /\ (task[t].run = "resolve" => r.answer = task[t].answer)
  BY <1>1, Resolving
<1>4. OpenedStep /\ AcksStep
  BY <1>1, <1>2 DEF OpenedStep, AcksStep, Types
<1>5. CASE GiveUp(t) /\ UNCHANGED <<store, promise, delivered>>
  <2>1. StoreStep /\ PromiseStep /\ DeliveredStep /\ Aside(t) /\ GrantedStep
    BY <1>2, <1>5, ContentsOK, Unwritten, SamePromises, GiveUpAside, SameGranted DEF DeliveredStep
  <2> QED
    BY <1>1, <1>2, <1>4, <2>1, AsideEffect
<1>6. ASSUME NEW o \in Outcome, r.status = "accepted", Live(g), commit(With(g, s), o),
             IF o = "ok"
             THEN /\ promise' = [promise EXCEPT ![g] = "resolved"]
                  /\ delivered' = [delivered EXCEPT ![g] = r.answer] /\ Return(t, TRUE)
             ELSE WriteFailed(t, o) /\ UNCHANGED <<promise, delivered>>
      PROVE  Effect
  <2>1. s \in PersistedGate /\ Advances(r, s, file.inst) /\ s.status = "accepted" /\ s.answer = r.answer
        /\ s.advanced /\ s.terminalized = r.terminalized
    BY <1>2, <1>6, AcceptedAdvances, Zenon
  <2>2. r.status # "none"
    BY <1>6
  <2> HIDE DEF s
  <2>3. StoreStep /\ (o = "ok" => older' = {} /\ file'.rec[g] = s)
    BY <1>2, <1>6, <2>1, <2>2, RecordWrite
  <2>4. CASE o = "ok"
    <3>1. PromiseStep
      BY <1>1, <1>2, <1>6, <2>4, Zenon DEF PromiseStep, Types, Live
    <3>2. DeliveredStep
      BY <1>2, <1>3, <1>6, <2>1, <2>3, <2>4, Zenon DEF DeliveredStep
    <3>3. Aside(t) /\ GrantedStep
      BY <1>2, <1>3, <1>6, <2>1, <2>3, <2>4, ReturnGrants, Zenon
    <3> QED
      BY <1>1, <1>2, <1>4, <2>3, <3>1, <3>2, <3>3, AsideEffect
  <2>5. CASE o # "ok"
    <3>1. PromiseStep /\ DeliveredStep /\ Aside(t) /\ GrantedStep
      BY <1>2, <1>6, <2>5, SamePromises, WriteFailedAside, SameGranted DEF DeliveredStep
    <3> QED
      BY <1>1, <1>2, <1>4, <2>3, <3>1, AsideEffect
  <2> QED
    BY <2>4, <2>5
<1> QED
  BY <1>5, <1>6, Zenon DEF completeAccepted

LEMMA QuarantineEffect ==
    ASSUME GatesInv, NEW t \in Task, QuarantineUncertain(t) \/ QuarantineChanged(t)
    PROVE  Effect
<1>1. task[t].pc \in {"doubt", "changed"} /\ loseContinuation(task[t].at) /\ UNCHANGED <<starts, mode, history>>
  BY DEF QuarantineUncertain, QuarantineChanged
<1>2. Busy(t) /\ Types
  BY <1>1, BusyTask DEF Busy
<1>3. Aside(t) /\ UNCHANGED granted
  BY <1>2, ThrowAside, EndMoves DEF QuarantineUncertain, QuarantineChanged
<1> QED
  BY <1>1, <1>2, <1>3, LostEffect

LEMMA RecoverEffect ==
    ASSUME GatesInv, NEW t \in Task, recover(t)
    PROVE  Effect
<1> DEFINE next == {g \in task[t].todo : Live(g) /\ g \notin recovering}
           c == task[t]
<1>1. c.pc = "next" /\ UNCHANGED <<store, starts, mode, promise, history>>
  BY Zenon DEF recover
<1>2. Types /\ TaskOK(t) /\ c \in TaskRecord
  BY DEF GatesInv, Types
<1>3. /\ mode # "down" /\ c.run = "recover"
      /\ t \in Call => c.gate \in opened /\ c.answer \in Answer
  BY <1>1, <1>2 DEF TaskOK
<1>4. StoreStep /\ OpenedStep /\ DeliveredStep /\ AcksStep /\ PromiseStep /\ opened' = opened /\ file' = file
  BY <1>1, <1>2, ContentsOK, Unwritten, SameHistory, SamePromises DEF history, store
<1>5. ASSUME NEW g \in next, UNCHANGED granted,
             task' = [task EXCEPT ![t].pc = "lock", ![t].at = g, ![t].todo = {h \in @ : h > g}]
      PROVE  Effect
  <2> DEFINE d == [c EXCEPT !.pc = "lock", !.at = g, !.todo = {h \in c.todo : h > g}]
  <2>1. g \in Gate /\ c.todo \subseteq Gate
    BY <1>2 DEF TaskRecord
  <2>2. d \in TaskRecord /\ d.pc = "lock" /\ d.at = g /\ d.run = c.run /\ d.gate = c.gate /\ d.answer = c.answer
    BY <1>2, <2>1, Zenon DEF TaskRecord, PC
  <2>3. task' = [task EXCEPT ![t] = d]
    BY <1>2, <1>5, Zenon DEF Types, TaskRecord
  <2> HIDE DEF d
  <2>4. Moves(t) /\ task'[t] = d
    BY <1>2, <2>2, <2>3 DEF Moves, Types
  <2>5. TaskOK(t)'
    BY <1>1, <1>3, <1>4, <2>1, <2>2, <2>4 DEF TaskOK
  <2> QED
    BY <1>1, <1>2, <1>3, <1>4, <1>5, <2>4, <2>5, OthersOK, SameGranted DEF Effect
<1>6. ASSUME End(t), IF t \in Call /\ Completed(file.rec[c.gate], c.key, c.answer)
                     THEN Granted(t) ELSE UNCHANGED granted
      PROVE  Effect
  <2>1. Moves(t) /\ task'[t].pc \in {"idle", "done"}
    BY <1>2, <1>6, EndMoves, EndEnds DEF Aside
  <2>2. TaskOK(t)'
    BY <2>1 DEF TaskOK
  <2>3. GrantedStep
    <3>1. CASE UNCHANGED granted
      BY <1>2, <3>1, SameGranted
    <3>2. CASE t \in Call /\ Completed(file.rec[c.gate], c.key, c.answer) /\ Granted(t)
      <4>1. c.gate \in Gate
        BY <1>2, <1>3, <3>2 DEF Types
      <4>2. file.rec[c.gate].status = "accepted" /\ file.rec[c.gate].answer = c.answer
        BY <3>2, <4>1, ContentsOK, Zenon DEF Completed, Same, ContentOK
      <4>3. granted' = granted \cup {<<c.gate, c.answer>>}
        BY <3>2 DEF Granted
      <4>4. granted \subseteq Gate \X Answer /\ <<c.gate, c.answer>> \in Gate \X Answer
        BY <1>2, <1>3, <1>4, <3>2, <4>1 DEF Types
      <4> HIDE DEF c
      <4> QED
        BY <1>3, <1>4, <3>2, <4>1, <4>2, <4>3, <4>4 DEF GrantedStep
    <3> QED
      BY <1>6, <3>1, <3>2
  <2> QED
    BY <1>1, <1>3, <1>4, <2>1, <2>2, <2>3, OthersOK DEF Effect
<1> QED
  BY <1>5, <1>6, Zenon DEF recover

LEMMA StepEffect ==
    ASSUME GatesInv, NEW t \in Task, Step(t)
    PROVE  Effect
  BY ResolveEffect, FinalizeEffect, AckPolicyEffect, FinalizedEffect, TerminalizeEffect, CompleteEffect,
     QuarantineEffect, RecoverEffect DEF Step

LEMMA NextEffect ==
    ASSUME GatesInv, Next, ~Start, ~Crash
    PROVE  Effect
  BY OpenEffect, SuspendEffect, FenceEffect, RecoveryEffect, AnswerEffect, NotificationEffect, StepEffect DEF Next

-----------------------------------------------------------------------------
\* Every step keeps the invariant.
LEMMA NextGates == GatesInv /\ [Next]_vars => GatesInv'
<1> SUFFICES ASSUME GatesInv, [Next]_vars PROVE GatesInv'
  OBVIOUS
<1>1. CASE Start
  BY <1>1, StartKeeps
<1>2. CASE Crash
  BY <1>2, CrashKeeps
<1>3. CASE Next /\ ~Start /\ ~Crash
  BY <1>3, NextEffect, EffectKeeps
<1>4. CASE UNCHANGED vars
  <2>1. UNCHANGED <<file, older, starts, mode, promise, task, timer, opened, delivered, granted, acks>>
    BY <1>4 DEF vars, store, retry, history
  <2>2. Types' /\ GrantedOK'
    BY <2>1 DEF GatesInv, Types, GrantedOK
  <2>3. Contents' = Contents /\ \A f \in Contents : ContentOK(f)'
    BY <2>1, ContentStays DEF GatesInv, Contents
  <2>4. \A h \in older : OlderOK(h)'
    BY <2>1, Zenon DEF GatesInv, OlderOK
  <2>5. \A t \in Task : TaskOK(t)'
    BY <2>1, Zenon DEF GatesInv, TaskOK
  <2> QED
    BY <2>1, <2>2, <2>3, <2>4, <2>5 DEF GatesInv
<1> QED
  BY <1>1, <1>2, <1>3, <1>4

\* The inductive invariant holds in every state.
THEOREM GatesInvariant == Spec => []GatesInv
  BY InitGates, NextGates, PTL DEF Spec

\* An answer that a workflow got is recorded as accepted, closed and advanced in
\* everything that a crash may leave in the store.
THEOREM Durable == Spec => []DeliveredIsDurable
<1>1. GatesInv => DeliveredIsDurable
  BY Zenon DEF GatesInv, ContentOK, DeliveredIsDurable
<1> QED
  BY <1>1, GatesInvariant, PTL

\* Clients that were told that their answer to a gate was accepted gave the same
\* answer, and the workflow got no other, in this run of the process or another.
THEOREM Agreement == Spec => []AnswersAgree
<1>1. GatesInv => AnswersAgree
  <2> SUFFICES ASSUME GatesInv, NEW p \in granted, NEW q \in granted
               PROVE  (p[1] = q[1] => p[2] = q[2]) /\ delivered[p[1]] \in {NoAnswer, p[2]}
    BY Zenon DEF AnswersAgree
  <2>1. p \in Gate \X Answer /\ q \in Gate \X Answer
    BY DEF GatesInv, Types
  <2>2. PICK g \in Gate, a \in Answer : p = <<g, a>>
    BY <2>1
  <2>3. PICK h \in Gate, c \in Answer : q = <<h, c>>
    BY <2>1
  <2>4. p[1] = q[1] => p[2] = q[2]
    BY <2>2, <2>3 DEF GatesInv, GrantedOK
  <2>5. delivered[g] # NoAnswer => delivered[g] = a
    BY <2>2, ContentsOK DEF ContentOK
  <2> QED
    BY <2>2, <2>4, <2>5
<1> QED
  BY <1>1, GatesInvariant, PTL

\* The acknowledgement of a reply is asked for at most once, whatever fails.
THEOREM SingleAck == Spec => []AckOnce
<1>1. GatesInv => AckOnce
  BY DEF GatesInv, AckOnce
<1> QED
  BY <1>1, GatesInvariant, PTL

\* No gate of an earlier runtime instance is left open in the store of a running one.
THEOREM OldGates == Spec => []OldGatesQuarantined
<1>1. GatesInv => OldGatesQuarantined
  BY DEF GatesInv, ContentOK, OldGatesQuarantined, Open
<1> QED
  BY <1>1, GatesInvariant, PTL

\* No step of a running process undoes what a record says of an accepted answer.
THEOREM Standing == Spec => RecordsStand
<1> DEFINE Stands == mode' # "down" => \A g \in Gate :
             LET r == file.rec[g]
                 s == file'.rec[g] IN
             /\ r.status = "accepted" => s.answer = r.answer /\ s.key = r.key /\ s.status \in {"accepted", "quarantined"}
             /\ r.status = "quarantined" => s.status = "quarantined"
             /\ (r.advanced => s.advanced) /\ (r.terminalized => s.terminalized)
<1>1. ASSUME GatesInv, [Next]_vars PROVE [Stands]_vars
  <2>1. CASE Crash
    BY <2>1 DEF Crash
  <2>2. CASE Start /\ mode' # "down"
    <3>1. /\ file' = beginRuntimeInstance(file, starts + 1)
          /\ starts + 1 \in 0..MaxStarts
      <4>1. starts \in 0..MaxStarts
        BY <1>1, ContentsOK DEF Types
      <4> QED
        BY <2>2, <4>1, Bounds DEF Start, commit, WriteAfter
    <3>2. \A g \in Gate : Advances(file.rec[g], file'.rec[g], file.inst)
      BY <1>1, <3>1, ContentsOK, BeginKeeps
    <3> QED
      BY <3>2 DEF Advances, Decided
  <2>3. CASE Next /\ ~Start /\ ~Crash
    <3>1. Later(file, file')
      BY <1>1, <2>3, NextEffect DEF Effect, StoreStep
    <3> QED
      BY <3>1 DEF Later, Advances, Decided
  <2> QED
    BY <1>1, <2>1, <2>2, <2>3
<1> QED
  BY <1>1, GatesInvariant, PTL DEF Spec, RecordsStand

\* No gate is presented under an id that was presented before.
THEOREM FreshIds == Spec => IdsAreFresh
<1> DEFINE Fresh == \A g \in Gate : promise'[g] = "open" /\ ~Live(g) => g \notin opened
<1>1. ASSUME GatesInv, [Next]_vars PROVE [Fresh]_vars
  <2>1. CASE Crash
    BY <2>1 DEF Crash
  <2>2. CASE Start
    BY <2>2 DEF Start, Live
  <2>3. CASE Next /\ ~Start /\ ~Crash
    BY <1>1, <2>3, NextEffect DEF Effect, PromiseStep, Live
  <2> QED
    BY <1>1, <2>1, <2>2, <2>3
<1> QED
  BY <1>1, GatesInvariant, PTL DEF Spec, IdsAreFresh
====
