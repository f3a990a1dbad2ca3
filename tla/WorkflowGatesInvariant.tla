----------------------- MODULE WorkflowGatesInvariant -----------------------
(* The inductive invariant of WorkflowGates, what each step may change so that *)
(* the invariant is kept, and the steps of the process around the gates: its   *)
(* start and crash, gates that open, are suspended or fenced, and recoveries.  *)
EXTENDS WorkflowGates, TLAPS

PC == {"idle", "done", "lock", "ack", "final", "term", "adv", "doubt", "changed", "next"}

TaskRecord ==
    [pc : PC, run : {"none", "resolve", "recover"}, via : {"none", "direct", "notify", "timer", "attach"},
     gate : Gate \cup {0}, key : Key \cup {NoKey}, answer : Answer \cup {NoAnswer},
     at : Gate \cup {0}, todo : SUBSET Gate, some : BOOLEAN]

Types ==
    /\ file \in FileState /\ older \subseteq FileState
    /\ promise \in [Gate -> {"none", "open", "rejected", "resolved"}]
    /\ starts \in 0..MaxStarts
    /\ task \in [Task -> TaskRecord]
    /\ opened \subseteq Gate /\ delivered \in [Gate -> Answer \cup {NoAnswer}]
    /\ granted \subseteq Gate \X Answer /\ acks \in [Gate -> Nat]

Decided(r) == r.status \in {"accepted", "quarantined"}

Open(r) == r.status = "pending" \/ (r.status = "accepted" /\ ~r.advanced)

\* How a record of the runtime instance i may change.
Advances(r, s, i) ==
    /\ r.status = "accepted" => Decided(s)
    /\ r.status = "quarantined" => s.status = "quarantined"
    /\ Decided(r) => s.answer = r.answer /\ s.key = r.key
    /\ Decided(r) /\ r.ack \in {"started", "done"} => s.ack \in {"started", "done"}
    /\ r.advanced => s.advanced /\ s.status = r.status
    /\ s.advanced => r.advanced \/ s.status = "accepted"
    /\ r.terminalized => s.terminalized
    /\ r.status = "none" => s = r \/ (s.status = "pending" /\ s.owner = i)
    /\ r.status # "none" => s.status # "none" /\ s.owner = r.owner
    /\ s.status = "pending" => r.status \in {"none", "pending"}

\* The contents h of the file were written after f by the same instance.
Later(f, h) ==
    /\ h.inst = f.inst /\ f.seq <= h.seq
    /\ \A g \in Gate : /\ Advances(f.rec[g], h.rec[g], f.inst)
                       /\ g > h.seq => h.rec[g] = f.rec[g]

\* What holds of everything that a crash may leave in the file.
ContentOK(f) ==
    \A g \in Gate :
      LET r == f.rec[g] IN
      /\ Open(r) => r.owner = f.inst
      /\ r.advanced => r.status = "accepted"
      /\ r.terminalized => r.status # "none"
      /\ g > f.seq => r.status = "none"
      /\ g \in opened => r.status # "none"
      /\ delivered[g] # NoAnswer =>
           r.status = "accepted" /\ r.answer = delivered[g] /\ r.terminalized /\ r.advanced
      /\ acks[g] > 0 => Decided(r) /\ r.ack \in {"started", "done"}
      /\ \A a \in Answer : <<g, a>> \in granted /\ r.status = "accepted" => r.answer = a

\* An accepted answer in an older content is still the one of the file.
OlderOK(h) ==
    \A g \in Gate : h.rec[g].status = "accepted" =>
      Decided(file.rec[g]) /\ file.rec[g].answer = h.rec[g].answer

GrantedOK ==
    \A g \in Gate, a \in Answer : <<g, a>> \in granted =>
      /\ g \in opened
      /\ mode # "down" => file.rec[g].status # "pending"
      /\ \A b \in Answer : <<g, b>> \in granted => a = b

\* A task in the middle of its work belongs to the running process, and one that
\* resolves a gate has recorded its answer before it goes on.
TaskOK(t) ==
    LET c == task[t] IN
    c.pc \notin {"idle", "done"} =>
      /\ mode # "down" /\ c.run \in {"resolve", "recover"}
      /\ IF c.pc = "next" THEN c.run = "recover" ELSE c.at \in Gate
      /\ c.run = "resolve" => c.at = c.gate
      /\ c.run = "resolve" \/ t \in Call => c.gate \in opened /\ c.answer \in Answer
      /\ c.run = "resolve" /\ c.pc \in {"ack", "final", "term", "adv"} =>
           Decided(file.rec[c.at]) /\ file.rec[c.at].answer = c.answer
      /\ c.pc = "adv" => file.rec[c.at].terminalized

\* The inductive invariant.
GatesInv ==
    /\ Types
    /\ \A f \in Contents : ContentOK(f) /\ (mode # "down" => f.inst = file.inst)
    /\ \A h \in older : OlderOK(h)
    /\ GrantedOK
    /\ \A g \in Gate : acks[g] <= 1 /\ (promise[g] # "none" => g \in opened)
    /\ mode = "down" => ~timer
    /\ \A t \in Task : TaskOK(t)

-----------------------------------------------------------------------------
\* What every step but a start and a crash does to the store.
StoreStep ==
    /\ file' \in FileState /\ older' \subseteq FileState
    /\ Later(file, file')
    /\ \A h \in older' : h \in older \/ (Later(file, h) /\ Later(h, file'))

\* A record may stay as it is, and so may the file.
LEMMA AdvancesRefl == \A r, i : Advances(r, r, i)
  BY DEF Advances, Decided

LEMMA LaterRefl == \A f \in FileState : Later(f, f)
  BY AdvancesRefl, Bounds DEF Later, FileState

\* A write that follows the file, failed or not, is a step of the store.
LEMMA WriteEffect ==
    ASSUME file \in FileState, older \subseteq FileState,
           NEW base \in FileState, NEW f \in FileState, NEW o \in {"ok", "not_committed", "uncertain"},
           Later(file, base), Later(base, f), Later(file, f), WriteAfter(base, f, o)
    PROVE  /\ StoreStep
           /\ o = "ok" => file' = f /\ older' = {}
<1> DEFINE doubtful == IF base = file THEN older ELSE {}
<1>1. /\ file' = IF o = "not_committed" THEN base ELSE f
      /\ o = "ok" => older' = {}
      /\ o = "uncertain" => older' = doubtful \cup {base}
      /\ o = "not_committed" => older' = doubtful
  BY DEF WriteAfter
<1>2. doubtful \subseteq older
  OBVIOUS
<1>3. file' \in FileState /\ older' \subseteq FileState /\ Later(file, file')
  BY <1>1, <1>2
<1>4. \A h \in older' : h \in older \/ (Later(file, h) /\ Later(h, file'))
  BY <1>1, <1>2
<1> QED
  BY <1>1, <1>3, <1>4 DEF StoreStep

LEMMA CommitEffect ==
    ASSUME file \in FileState, older \subseteq FileState,
           NEW f \in FileState, NEW o \in {"ok", "not_committed", "uncertain"},
           Later(file, f), commit(f, o)
    PROVE  /\ StoreStep
           /\ o = "ok" => file' = f /\ older' = {}
  BY WriteEffect, LaterRefl DEF commit

LEMMA Unwritten ==
    ASSUME file \in FileState, older \subseteq FileState, UNCHANGED store
    PROVE  StoreStep
  BY LaterRefl DEF StoreStep, store

LEMMA Outcomes == Outcome \subseteq {"ok", "not_committed", "uncertain"}
  BY Faults DEF Outcome

\* Writing one record.
LEMMA WithLater ==
    ASSUME NEW f \in FileState, NEW g \in Gate, NEW r \in PersistedGate,
           Advances(f.rec[g], r, f.inst), g <= f.seq \/ r = f.rec[g]
    PROVE  /\ [f EXCEPT !.rec[g] = r] \in FileState
           /\ Later(f, [f EXCEPT !.rec[g] = r])
           /\ [f EXCEPT !.rec[g] = r].rec[g] = r
<1> DEFINE h == [f EXCEPT !.rec[g] = r]
<1>1. h \in FileState /\ h.inst = f.inst /\ h.seq = f.seq /\ h.rec[g] = r
      /\ \A k \in Gate : k # g => h.rec[k] = f.rec[k]
  BY DEF FileState
<1>2. f.seq \in Int /\ g \in Int
  BY Bounds DEF FileState, Gate
<1> QED
  BY <1>1, <1>2, AdvancesRefl DEF Later

\* Quarantining.
LEMMA QuarantinedLater ==
    ASSUME NEW f \in FileState, NEW G, ContentOK(f)
    PROVE  /\ Quarantined(f, G) \in FileState
           /\ Later(f, Quarantined(f, G))
<1> DEFINE h == Quarantined(f, G)
<1>1. \A g \in Gate : f.rec[g] \in PersistedGate
  BY DEF FileState
<1>2. /\ h \in FileState /\ h.inst = f.inst /\ h.seq = f.seq
      /\ \A g \in Gate : h.rec[g] = IF g \in G /\ Unfinished(f.rec[g], f.inst)
                                    THEN [f.rec[g] EXCEPT !.status = "quarantined"] ELSE f.rec[g]
  <2> DEFINE q == [g \in Gate |-> IF g \in G /\ Unfinished(f.rec[g], f.inst)
                                  THEN [f.rec[g] EXCEPT !.status = "quarantined"] ELSE f.rec[g]]
  <2>1. \A g \in Gate : [f.rec[g] EXCEPT !.status = "quarantined"] \in PersistedGate
    BY <1>1 DEF PersistedGate
  <2>2. q \in [Gate -> PersistedGate]
    BY <1>1, <2>1
  <2>3. h = [f EXCEPT !.rec = q]
    BY DEF Quarantined
  <2> HIDE DEF h
  <2>4. h \in FileState /\ h.inst = f.inst /\ h.seq = f.seq /\ h.rec = q
    <3> HIDE DEF q
    <3> QED
      BY <2>2, <2>3 DEF FileState
  <2> QED
    BY <2>4
<1>3. ASSUME NEW g \in Gate
      PROVE  Advances(f.rec[g], h.rec[g], f.inst) /\ (g > h.seq => h.rec[g] = f.rec[g])
  <2>1. CASE h.rec[g] = f.rec[g]
    BY <2>1, AdvancesRefl
  <2>2. CASE h.rec[g] # f.rec[g]
    <3>1. h.rec[g] = [f.rec[g] EXCEPT !.status = "quarantined"] /\ Unfinished(f.rec[g], f.inst)
      BY <1>2, <2>2
    <3>2. ~f.rec[g].advanced /\ ~(g > f.seq)
      BY <3>1 DEF ContentOK, Unfinished
    <3> QED
      BY <1>1, <1>2, <3>1, <3>2 DEF Advances, Decided, PersistedGate, Unfinished
  <2> QED
    BY <2>1, <2>2
<1>4. f.seq <= h.seq
  BY <1>2, Bounds DEF FileState
<1> QED
  BY <1>2, <1>3, <1>4 DEF Later

\* Quarantining more gates comes after quarantining fewer.
LEMMA QuarantinedTwice ==
    ASSUME NEW f \in FileState, NEW A, NEW B, A \subseteq B, ContentOK(f)
    PROVE  Later(Quarantined(f, A), Quarantined(f, B))
<1> DEFINE x == Quarantined(f, A)
           y == Quarantined(f, B)
<1>1. /\ x \in FileState /\ y \in FileState /\ Later(f, y)
  BY QuarantinedLater
<1>2. x.inst = f.inst /\ y.inst = f.inst /\ x.seq = f.seq /\ y.seq = f.seq
  BY DEF Quarantined, FileState
<1>3. ASSUME NEW g \in Gate
      PROVE  x.rec[g] = y.rec[g] \/ x.rec[g] = f.rec[g]
  BY DEF Quarantined, FileState
<1>4. ASSUME NEW g \in Gate
      PROVE  g > f.seq => y.rec[g] = f.rec[g]
  BY <1>1, <1>2 DEF Later
<1> HIDE DEF x, y
<1>5. f.seq \in Int
  BY Bounds DEF FileState
<1> QED
  BY <1>1, <1>2, <1>3, <1>4, <1>5, AdvancesRefl DEF Later, x, y

-----------------------------------------------------------------------------
\* What every step but a start and a crash does to the waiters and to the history.
PromiseStep ==
    /\ promise' \in [Gate -> {"none", "open", "rejected", "resolved"}]
    /\ \A g \in Gate : /\ promise'[g] # "none" => promise[g] # "none" \/ g \in opened'
                       /\ promise'[g] = "open" /\ promise[g] # "open" => g \notin opened

OpenedStep ==
    /\ opened \subseteq opened' /\ opened' \subseteq Gate
    /\ \A g \in opened' \ opened : older' = {} /\ file'.rec[g].status = "pending"

DeliveredStep ==
    \/ delivered' = delivered
    \/ \E g \in Gate :
         /\ older' = {} /\ delivered' = [delivered EXCEPT ![g] = file'.rec[g].answer]
         /\ file'.rec[g].status = "accepted" /\ file'.rec[g].terminalized /\ file'.rec[g].advanced

AcksStep ==
    \/ acks' = acks
    \/ \E g \in Gate :
         /\ older' = {} /\ acks' = [acks EXCEPT ![g] = @ + 1]
         /\ file'.rec[g].status = "accepted" /\ file'.rec[g].ack = "started"
         /\ file.rec[g].status = "pending" \/ file.rec[g].ack = "pending"

GrantedStep ==
    /\ granted' \subseteq Gate \X Answer
    /\ \A g \in Gate, a \in Answer : <<g, a>> \in granted' =>
         \/ <<g, a>> \in granted
         \/ g \in opened /\ file'.rec[g].status = "accepted" /\ file'.rec[g].answer = a

TaskStep == task' \in [Task -> TaskRecord] /\ \A t \in Task : TaskOK(t)'

Effect ==
    /\ StoreStep /\ starts' = starts /\ mode # "down" /\ mode' # "down"
    /\ PromiseStep /\ OpenedStep /\ DeliveredStep /\ AcksStep /\ GrantedStep /\ TaskStep

\* What is written after the file keeps what holds of the file.
LEMMA ContentKept ==
    ASSUME GatesInv, mode # "down", NEW h \in FileState, Later(file, h)
    PROVE  ContentOK(h)
<1>1. ContentOK(file) /\ file \in FileState /\ Types
  BY DEF GatesInv, Contents, Types
<1> SUFFICES ASSUME NEW g \in Gate
             PROVE  LET r == h.rec[g] IN
                    /\ Open(r) => r.owner = h.inst
                    /\ r.advanced => r.status = "accepted"
                    /\ r.terminalized => r.status # "none"
                    /\ g > h.seq => r.status = "none"
                    /\ g \in opened => r.status # "none"
                    /\ delivered[g] # NoAnswer =>
                         r.status = "accepted" /\ r.answer = delivered[g] /\ r.terminalized /\ r.advanced
                    /\ acks[g] > 0 => Decided(r) /\ r.ack \in {"started", "done"}
                    /\ \A a \in Answer : <<g, a>> \in granted /\ r.status = "accepted" => r.answer = a
  BY DEF ContentOK
<1>2. Advances(file.rec[g], h.rec[g], file.inst) /\ h.inst = file.inst
      /\ (g > h.seq => h.rec[g] = file.rec[g]) /\ file.seq <= h.seq
  BY DEF Later
<1>3. file.seq \in Int /\ h.seq \in Int /\ g \in Int /\ file.rec[g] \in PersistedGate /\ h.rec[g] \in PersistedGate
  BY <1>1, Bounds DEF FileState, Gate
<1>4. (Open(h.rec[g]) => h.rec[g].owner = h.inst) /\ (h.rec[g].advanced => h.rec[g].status = "accepted")
  BY <1>1, <1>2, <1>3 DEF ContentOK, Advances, Open, Decided, PersistedGate
<1>5. (g > h.seq => h.rec[g].status = "none")
      /\ (g \in opened \/ h.rec[g].terminalized => h.rec[g].status # "none")
  BY <1>1, <1>2, <1>3 DEF ContentOK, Advances
<1>6. delivered[g] # NoAnswer =>
        h.rec[g].status = "accepted" /\ h.rec[g].answer = delivered[g] /\ h.rec[g].terminalized /\ h.rec[g].advanced
  BY <1>1, <1>2 DEF ContentOK, Advances, Decided
<1>7. acks[g] > 0 => Decided(h.rec[g]) /\ h.rec[g].ack \in {"started", "done"}
  BY <1>1, <1>2 DEF ContentOK, Advances, Decided
<1>8. ASSUME NEW a \in Answer, <<g, a>> \in granted, h.rec[g].status = "accepted"
      PROVE  h.rec[g].answer = a
  <2>1. g \in opened /\ file.rec[g].status # "pending"
    BY <1>8 DEF GatesInv, GrantedOK
  <2>2. file.rec[g].status = "accepted"
    BY <1>1, <1>2, <1>3, <1>8, <2>1 DEF ContentOK, Advances, PersistedGate
  <2> QED
    BY <1>1, <1>2, <1>8, <2>2 DEF ContentOK, Advances, Decided
<1> QED
  BY <1>4, <1>5, <1>6, <1>7, <1>8

\* The effect of a step keeps the invariant.
LEMMA EffectKeeps ==
    ASSUME GatesInv, Effect
    PROVE  GatesInv'
<1>1. Types /\ mode # "down" /\ mode' # "down" /\ StoreStep
  BY DEF GatesInv, Effect
<1>2. file' \in FileState /\ older' \subseteq FileState /\ Later(file, file')
      /\ \A h \in older' : h \in older \/ (Later(file, h) /\ Later(h, file'))
  BY <1>1 DEF StoreStep
<1>3. \A f \in {file'} \cup older' : ContentOK(f) /\ f.inst = file'.inst
  <2>1. TAKE f \in {file'} \cup older'
  <2>2. CASE f \in older
    BY <1>1, <1>2, <2>2 DEF GatesInv, Contents, Later
  <2>3. CASE Later(file, f)
    BY <1>1, <1>2, <2>3, ContentKept DEF Later
  <2> QED
    BY <1>2, <2>2, <2>3
<1>4. \A h \in older' : OlderOK(h)'
  <2> SUFFICES ASSUME NEW h \in older', NEW g \in Gate, h.rec[g].status = "accepted"
               PROVE  Decided(file'.rec[g]) /\ file'.rec[g].answer = h.rec[g].answer
    BY DEF OlderOK, Decided
  <2>1. CASE h \in older
    <3>1. Decided(file.rec[g]) /\ file.rec[g].answer = h.rec[g].answer
      BY <2>1 DEF GatesInv, OlderOK
    <3> QED
      BY <1>2, <3>1 DEF Later, Advances, Decided
  <2>2. CASE Later(h, file')
    BY <2>2 DEF Later, Advances, Decided
  <2> QED
    BY <1>2, <2>1, <2>2
<1>5. /\ delivered' \in [Gate -> Answer \cup {NoAnswer}]
      /\ \A f \in {file'} \cup older' : \A g \in Gate : delivered'[g] # NoAnswer =>
           LET r == f.rec[g] IN
           r.status = "accepted" /\ r.answer = delivered'[g] /\ r.terminalized /\ r.advanced
  <2>1. CASE delivered' = delivered
    BY <1>1, <1>3, <2>1 DEF Types, ContentOK
  <2>2. CASE delivered' # delivered
    <3>1. PICK k \in Gate :
            /\ older' = {} /\ delivered' = [delivered EXCEPT ![k] = file'.rec[k].answer]
            /\ file'.rec[k].status = "accepted" /\ file'.rec[k].terminalized /\ file'.rec[k].advanced
      BY <2>2 DEF Effect, DeliveredStep
    <3>2. file'.rec[k].answer \in Answer \cup {NoAnswer}
      BY <1>2 DEF FileState, PersistedGate
    <3> QED
      BY <1>1, <1>3, <3>1, <3>2 DEF Types, ContentOK
  <2> QED
    BY <2>1, <2>2
<1>6. /\ acks' \in [Gate -> Nat] /\ \A g \in Gate : acks'[g] <= 1
      /\ \A f \in {file'} \cup older' : \A g \in Gate :
           acks'[g] > 0 => Decided(f.rec[g]) /\ f.rec[g].ack \in {"started", "done"}
  <2>1. CASE acks' = acks
    BY <1>1, <1>3, <2>1 DEF Types, ContentOK, GatesInv
  <2>2. CASE acks' # acks
    <3>1. PICK k \in Gate :
            /\ older' = {} /\ acks' = [acks EXCEPT ![k] = @ + 1]
            /\ file'.rec[k].status = "accepted" /\ file'.rec[k].ack = "started"
            /\ file.rec[k].status = "pending" \/ file.rec[k].ack = "pending"
      BY <2>2 DEF Effect, AcksStep
    <3>2. acks[k] = 0
      <4>1. acks[k] > 0 => Decided(file.rec[k]) /\ file.rec[k].ack \in {"started", "done"}
        BY DEF GatesInv, ContentOK, Contents
      <4> QED
        BY <1>1, <3>1, <4>1 DEF Decided, Types
    <3> QED
      BY <1>1, <1>3, <3>1, <3>2 DEF Types, ContentOK, GatesInv, Decided
  <2> QED
    BY <2>1, <2>2
<1>7. opened' \subseteq Gate /\ \A f \in {file'} \cup older' : \A g \in opened' : f.rec[g].status # "none"
  BY <1>1, <1>3 DEF Effect, OpenedStep, ContentOK, Types
<1>8. \A f \in {file'} \cup older' : \A g \in Gate, a \in Answer :
        <<g, a>> \in granted' /\ f.rec[g].status = "accepted" => f.rec[g].answer = a
  <2> SUFFICES ASSUME NEW f \in {file'} \cup older', NEW g \in Gate, NEW a \in Answer,
                      <<g, a>> \in granted', f.rec[g].status = "accepted"
               PROVE  f.rec[g].answer = a
    OBVIOUS
  <2>1. CASE <<g, a>> \in granted
    BY <1>3, <2>1 DEF ContentOK
  <2>2. CASE file'.rec[g].status = "accepted" /\ file'.rec[g].answer = a
    BY <1>4, <2>2 DEF OlderOK
  <2> QED
    BY <2>1, <2>2 DEF Effect, GrantedStep
<1>9. GrantedOK'
  <2> SUFFICES ASSUME NEW g \in Gate, NEW a \in Answer, <<g, a>> \in granted'
               PROVE  /\ g \in opened' /\ file'.rec[g].status # "pending"
                      /\ \A b \in Answer : <<g, b>> \in granted' => a = b
    BY DEF GrantedOK
  <2>1. \A c \in Answer : <<g, c>> \in granted' =>
          \/ <<g, c>> \in granted
          \/ g \in opened /\ file'.rec[g].status = "accepted" /\ file'.rec[g].answer = c
    BY DEF Effect, GrantedStep
  <2>2. g \in opened' /\ g \in opened
    BY <2>1 DEF GatesInv, GrantedOK, Effect, OpenedStep
  <2>3. file'.rec[g].status # "pending"
    <3>1. CASE <<g, a>> \in granted
      <4>1. file.rec[g].status # "pending" /\ file.rec[g].status # "none"
        BY <1>1, <2>2, <3>1 DEF GatesInv, GrantedOK, Contents, ContentOK
      <4> QED
        BY <1>2, <4>1 DEF Later, Advances
    <3> QED
      BY <2>1, <3>1
  <2>4. ASSUME NEW b \in Answer, <<g, b>> \in granted' PROVE a = b
    <3>1. CASE <<g, a>> \in granted /\ <<g, b>> \in granted
      BY <3>1 DEF GatesInv, GrantedOK
    <3>2. CASE file'.rec[g].status = "accepted"
      BY <1>8, <2>4, <3>2
    <3> QED
      BY <2>1, <2>4, <3>1, <3>2
  <2> QED
    BY <2>2, <2>3, <2>4
<1>10. \A f \in {file'} \cup older' : ContentOK(f)'
  <2>1. TAKE f \in {file'} \cup older'
  <2>2. \A g \in Gate : /\ Open(f.rec[g]) => f.rec[g].owner = f.inst
                        /\ f.rec[g].advanced => f.rec[g].status = "accepted"
                        /\ f.rec[g].terminalized => f.rec[g].status # "none"
                        /\ g > f.seq => f.rec[g].status = "none"
    BY <1>3 DEF ContentOK
  <2> QED
    BY <1>5, <1>6, <1>7, <1>8, <2>2 DEF ContentOK, Open, Decided
<1>11. \A g \in Gate : promise'[g] # "none" => g \in opened'
  BY DEF Effect, PromiseStep, GatesInv, OpenedStep
<1>12. Types'
  BY <1>1, <1>2, <1>5, <1>6, <1>7 DEF Types, Effect, PromiseStep, TaskStep, GrantedStep
<1>13. \A f \in {file'} \cup older' : f.inst = file'.inst
  BY <1>3
<1>14. \A t \in Task : TaskOK(t)'
  BY DEF Effect, TaskStep
<1> QED
  BY <1>1, <1>4, <1>6, <1>9, <1>10, <1>11, <1>12, <1>13, <1>14 DEF GatesInv, Contents

-----------------------------------------------------------------------------
\* How a step leaves its task: the others are where they were.
Moves(t) ==
    /\ task' \in [Task -> TaskRecord]
    /\ \A u \in Task : u # t => task'[u] = task[u]

\* The task goes on with the same request in the same gate.
Kept(t) ==
    /\ task'[t].run = task[t].run /\ task'[t].gate = task[t].gate
    /\ task'[t].answer = task[t].answer /\ task'[t].at = task[t].at

\* The task ends, gives the gate up or turns to its error path.
Aside(t) ==
    /\ Moves(t)
    /\ \/ task'[t].pc \in {"idle", "done"}
       \/ task'[t].pc \in {"doubt", "changed"} /\ Kept(t)
       \/ /\ task'[t].pc = "next" /\ task[t].run = "recover" /\ task'[t].run = "recover"
          /\ task'[t].gate = task[t].gate /\ task'[t].answer = task[t].answer

LEMMA EndMoves ==
    ASSUME Types, NEW t \in Task, End(t)
    PROVE  Aside(t)
<1> DEFINE c == [Idle EXCEPT !.pc = IF t \in Call THEN "done" ELSE "idle"]
<1>1. c \in TaskRecord /\ c.pc \in {"idle", "done"}
  BY Zenon DEF TaskRecord, Idle, PC
<1>2. task' = [task EXCEPT ![t] = c]
  BY DEF End
<1> HIDE DEF c
<1> QED
  BY <1>1, <1>2 DEF Aside, Moves, Types

LEMMA EndEnds ==
    ASSUME Types, NEW t \in Task, End(t)
    PROVE  task'[t].pc \in {"idle", "done"}
  BY DEF End, Idle, Types

LEMMA PcMoves ==
    ASSUME Types, NEW t \in Task, NEW p \in PC, task' = [task EXCEPT ![t].pc = p]
    PROVE  Moves(t) /\ Kept(t) /\ task'[t].pc = p
  BY DEF Types, TaskRecord, Moves, Kept

LEMMA ThrowAside ==
    ASSUME Types, NEW t \in Task, Throw(t)
    PROVE  Aside(t) /\ granted' = granted
  BY EndMoves DEF Throw

LEMMA ReturnMoves ==
    ASSUME Types, NEW t \in Task, NEW advanced \in BOOLEAN, Return(t, advanced)
    PROVE  /\ Aside(t)
           /\ Recovers(t) => granted' = granted
           /\ ~Recovers(t) => granted' = granted \cup {<<task[t].gate, task[t].answer>>}
<1>1. CASE Recovers(t)
  <2> DEFINE c == [task[t] EXCEPT !.pc = "next", !.at = 0, !.some = @ \/ advanced]
  <2>0. task[t] \in TaskRecord
    BY DEF Types
  <2>1. c \in TaskRecord /\ c.pc = "next" /\ c.run = task[t].run /\ c.gate = task[t].gate /\ c.answer = task[t].answer
    BY <2>0, Zenon DEF TaskRecord, PC
  <2>2. task' = [task EXCEPT ![t].pc = "next", ![t].at = 0, ![t].some = @ \/ advanced] /\ granted' = granted
    BY <1>1 DEF Return
  <2>3. task' = [task EXCEPT ![t] = c]
    BY <2>2, <2>0, Zenon DEF Types, TaskRecord
  <2> HIDE DEF c
  <2> QED
    BY <1>1, <2>1, <2>2, <2>3, Zenon DEF Aside, Moves, Types, Recovers
<1>2. CASE ~Recovers(t)
  BY <1>2, EndMoves DEF Return, Granted
<1> QED
  BY <1>1, <1>2

LEMMA GiveUpAside ==
    ASSUME Types, NEW t \in Task, GiveUp(t)
    PROVE  Aside(t) /\ granted' = granted
  BY ThrowAside, ReturnMoves, Zenon DEF GiveUp

LEMMA GotoMoves ==
    ASSUME Types, NEW t \in Task, NEW p \in PC, Goto(t, p)
    PROVE  Moves(t) /\ Kept(t) /\ task'[t].pc = p /\ granted' = granted
  BY PcMoves, Zenon DEF Goto

LEMMA WriteFailedAside ==
    ASSUME Types, NEW t \in Task, NEW o, WriteFailed(t, o)
    PROVE  Aside(t) /\ granted' = granted
<1>1. CASE Throw(t)
  BY <1>1, ThrowAside
<1>2. CASE Goto(t, "doubt")
  <2>1. "doubt" \in PC
    BY DEF PC
  <2> QED
    BY <1>2, <2>1, GotoMoves DEF Aside
<1> QED
  BY <1>1, <1>2 DEF WriteFailed

LEMMA PolicyChangedAside ==
    ASSUME Types, NEW t \in Task, PolicyChanged(t)
    PROVE  Aside(t) /\ granted' = granted
<1>1. "changed" \in PC
  BY DEF PC
<1>2. task' = [task EXCEPT ![t].pc = "changed"] /\ granted' = granted
  BY DEF PolicyChanged
<1> QED
  BY <1>1, <1>2, PcMoves, Zenon DEF Aside

\* The other tasks are not disturbed.
LEMMA OthersOK ==
    ASSUME GatesInv, NEW t \in Task, Moves(t), TaskOK(t)',
           StoreStep, opened \subseteq opened', mode' # "down"
    PROVE  TaskStep
<1>1. Later(file, file')
  BY DEF StoreStep
<1>2. ASSUME NEW u \in Task, u # t
      PROVE  TaskOK(u)'
  <2>1. task'[u] = task[u] /\ TaskOK(u)
    BY <1>2 DEF Moves, GatesInv
  <2>2. task[u].pc \notin {"idle", "done"} /\ task[u].pc # "next" => task[u].at \in Gate
    BY <2>1 DEF TaskOK
  <2>3. \A g \in Gate : /\ Decided(file.rec[g]) => Decided(file'.rec[g]) /\ file'.rec[g].answer = file.rec[g].answer
                        /\ file.rec[g].terminalized => file'.rec[g].terminalized
    BY <1>1 DEF Later, Advances, Decided
  <2> QED
    BY <2>1, <2>2, <2>3 DEF TaskOK, Decided
<1> QED
  BY <1>2 DEF TaskStep, Moves

LEMMA SameTasks ==
    ASSUME GatesInv, UNCHANGED task, StoreStep, opened \subseteq opened', mode' # "down"
    PROVE  TaskStep
<1>1. \A t \in Task : Moves(t) /\ TaskOK(t)
  BY DEF Moves, GatesInv, Types
<1>2. \A g \in Gate : /\ Decided(file.rec[g]) => Decided(file'.rec[g]) /\ file'.rec[g].answer = file.rec[g].answer
                      /\ file.rec[g].terminalized => file'.rec[g].terminalized
  BY DEF StoreStep, Later, Advances, Decided
<1>3. ASSUME NEW t \in Task PROVE TaskOK(t)'
  <2>1. TaskOK(t) /\ task'[t] = task[t]
    BY <1>1
  <2> QED
    BY <1>2, <2>1 DEF TaskOK, Decided
<1> QED
  BY <1>1, <1>3 DEF TaskStep, GatesInv, Types

\* Nor is anything asked of a task that steps aside.
LEMMA AsideOK ==
    ASSUME GatesInv, NEW t \in Task, Aside(t), task[t].pc \notin {"idle", "done", "next"},
           StoreStep, opened \subseteq opened', mode' # "down"
    PROVE  TaskStep
<1>1. TaskOK(t)'
  BY DEF TaskOK, Aside, GatesInv, Kept
<1> QED
  BY <1>1, OthersOK DEF Aside

\* A task that goes on with its gate has its answer recorded.
LEMMA GoesOnOK ==
    ASSUME GatesInv, NEW t \in Task, task[t].pc \notin {"idle", "done", "next"},
           NEW p \in {"ack", "final", "term", "adv"}, Goto(t, p),
           StoreStep, opened \subseteq opened', mode' # "down",
           task[t].run = "resolve" =>
             Decided(file'.rec[task[t].at]) /\ file'.rec[task[t].at].answer = task[t].answer,
           p = "adv" => file'.rec[task[t].at].terminalized
    PROVE  TaskStep /\ granted' = granted
<1>1. p \in PC
  BY DEF PC
<1>2. Moves(t) /\ Kept(t) /\ task'[t].pc = p /\ granted' = granted
  BY <1>1, GotoMoves DEF GatesInv
<1>3. TaskOK(t)
  BY DEF GatesInv
<1>4. TaskOK(t)'
  BY <1>2, <1>3, Zenon DEF TaskOK, Kept, Decided
<1> QED
  BY <1>2, <1>4, OthersOK

-----------------------------------------------------------------------------
\* Facts about the steps that leave a part of the state alone.
LEMMA SameHistory ==
    ASSUME Types, UNCHANGED history
    PROVE  OpenedStep /\ DeliveredStep /\ AcksStep
  BY DEF Types, history, OpenedStep, DeliveredStep, AcksStep

LEMMA SamePromises ==
    ASSUME Types, UNCHANGED promise
    PROVE  PromiseStep
  BY DEF Types, PromiseStep

LEMMA SameGranted ==
    ASSUME Types, UNCHANGED granted
    PROVE  GrantedStep
  BY DEF Types, GrantedStep

LEMMA RejectPromises ==
    ASSUME Types, NEW G, Reject(G)
    PROVE  PromiseStep
  BY DEF Types, PromiseStep, Reject, Live

LEMMA ContentsOK ==
    ASSUME GatesInv
    PROVE  ContentOK(file) /\ file \in FileState /\ older \subseteq FileState /\ Types
  BY DEF GatesInv, Contents, Types

\* What is asked of a content depends on the history alone.
LEMMA ContentStays ==
    ASSUME NEW f, ContentOK(f),
           opened' = opened, delivered' = delivered, acks' = acks, granted' = granted
    PROVE  ContentOK(f)'
<1> SUFFICES ASSUME NEW g \in Gate
             PROVE  (LET r == f.rec[g] IN
                     /\ Open(r) => r.owner = f.inst
                     /\ r.advanced => r.status = "accepted"
                     /\ r.terminalized => r.status # "none"
                     /\ g > f.seq => r.status = "none"
                     /\ g \in opened => r.status # "none"
                     /\ delivered[g] # NoAnswer =>
                          r.status = "accepted" /\ r.answer = delivered[g] /\ r.terminalized /\ r.advanced
                     /\ acks[g] > 0 => Decided(r) /\ r.ack \in {"started", "done"}
                     /\ \A a \in Answer : <<g, a>> \in granted /\ r.status = "accepted" => r.answer = a)'
  BY DEF ContentOK
<1> QED
  BY DEF ContentOK, Open, Decided

\* The write of one record that advances it.
LEMMA RecordWrite ==
    ASSUME GatesInv, NEW g \in Gate, NEW r \in PersistedGate, NEW o \in Outcome,
           file.rec[g].status # "none", Advances(file.rec[g], r, file.inst), commit(With(g, r), o)
    PROVE  /\ StoreStep
           /\ o = "ok" => older' = {} /\ file'.rec[g] = r
<1>1. g <= file.seq
  BY ContentsOK, Bounds DEF ContentOK, FileState, Gate
<1>2. With(g, r) \in FileState /\ Later(file, With(g, r)) /\ With(g, r).rec[g] = r
  BY <1>1, ContentsOK, WithLater DEF With
<1> QED
  BY <1>2, ContentsOK, CommitEffect, Outcomes

LEMMA LoseEffect ==
    ASSUME GatesInv, NEW g \in Gate, loseContinuation(g)
    PROVE  StoreStep /\ PromiseStep
<1>1. PromiseStep
  BY ContentsOK, RejectPromises DEF loseContinuation
<1>2. CASE UNCHANGED store
  BY <1>1, <1>2, ContentsOK, Unwritten
<1>3. CASE \E o \in Outcome : commit(Quarantined(file, {g}), o)
  BY <1>1, <1>3, ContentsOK, QuarantinedLater, CommitEffect, Outcomes
<1> QED
  BY <1>2, <1>3 DEF loseContinuation

-----------------------------------------------------------------------------
\* The emitter.
LEMMA OpenEffect ==
    ASSUME GatesInv, openGate
    PROVE  Effect
<1> DEFINE g == file.seq + 1
           counted == [file EXCEPT !.seq = g]
           pending == [NoRecord EXCEPT !.status = "pending", !.owner = file.inst]
           full == [counted EXCEPT !.rec[g] = pending]
<1>1. Types /\ file \in FileState /\ older \subseteq FileState /\ ContentOK(file)
  BY ContentsOK
<1>2. g \in Gate /\ mode = "up" /\ mode' = "up" /\ starts' = starts
  BY DEF openGate
<1>3. g \notin opened /\ file.rec[g].status = "none" /\ file.seq \in Int /\ g > file.seq
  BY <1>1, <1>2, Bounds DEF ContentOK, FileState, Gate
<1>4. counted \in FileState /\ counted.inst = file.inst /\ counted.seq = g /\ counted.rec = file.rec
  BY <1>1, <1>2, Bounds DEF FileState, Gate
<1>5. Later(file, counted)
  BY <1>3, <1>4, AdvancesRefl DEF Later
<1>6. pending \in PersistedGate /\ pending.status = "pending" /\ pending.owner = file.inst
      /\ ~pending.advanced /\ ~pending.terminalized
  BY <1>1, Zenon DEF PersistedGate, NoRecord, FileState
<1>7. file.rec[g] \in PersistedGate /\ ~file.rec[g].advanced /\ ~file.rec[g].terminalized
  BY <1>1, <1>2, <1>3 DEF FileState, ContentOK
<1>8. Advances(file.rec[g], pending, file.inst)
  BY <1>3, <1>6, <1>7 DEF Advances, Decided
<1> HIDE DEF counted, pending
<1>9. full \in FileState /\ Later(counted, full) /\ full.rec[g] = pending
  <2>1. Advances(counted.rec[g], pending, counted.inst) /\ g <= counted.seq
    BY <1>3, <1>4, <1>8
  <2> QED
    BY <1>2, <1>4, <1>6, <2>1, WithLater
<1>10. Later(file, full)
  <2>1. full.inst = file.inst /\ full.seq = g /\ \A k \in Gate : k # g => full.rec[k] = file.rec[k]
    BY <1>2, <1>4 DEF FileState
  <2> QED
    BY <1>3, <1>8, <1>9, <2>1, AdvancesRefl DEF Later
<1>11. /\ StoreStep /\ delivered' = delivered /\ acks' = acks /\ granted' = granted /\ task' = task
       /\ \/ UNCHANGED <<promise, opened>>
          \/ /\ promise' = [promise EXCEPT ![g] = "open"] /\ opened' = opened \cup {g}
             /\ older' = {} /\ file' = full
  <2>0. /\ delivered' = delivered /\ acks' = acks /\ granted' = granted /\ task' = task
        /\ \/ \E o \in Outcome \ {"ok"} : commit(counted, o) /\ UNCHANGED <<promise, opened>>
           \/ \E o \in Outcome :
                /\ WriteAfter(counted, full, o)
                /\ IF o = "ok" THEN promise' = [promise EXCEPT ![g] = "open"] /\ opened' = opened \cup {g}
                               ELSE UNCHANGED <<promise, opened>>
    BY DEF openGate, counted, pending
  <2>1. CASE \E o \in Outcome \ {"ok"} : commit(counted, o) /\ UNCHANGED <<promise, opened>>
    BY <1>1, <1>4, <1>5, <2>0, <2>1, CommitEffect, Outcomes
  <2>2. CASE \E o \in Outcome :
               /\ WriteAfter(counted, full, o)
               /\ IF o = "ok" THEN promise' = [promise EXCEPT ![g] = "open"] /\ opened' = opened \cup {g}
                              ELSE UNCHANGED <<promise, opened>>
    <3> HIDE DEF full, g
    <3> QED
      BY <1>1, <1>4, <1>5, <1>9, <1>10, <2>0, <2>2, WriteEffect, Outcomes
  <2> QED
    BY <2>0, <2>1, <2>2
<1> HIDE DEF full
<1>12. PromiseStep /\ OpenedStep
  BY <1>1, <1>2, <1>3, <1>6, <1>9, <1>11 DEF PromiseStep, OpenedStep, Types
<1>13. DeliveredStep /\ AcksStep /\ GrantedStep
  BY <1>1, <1>11, SameGranted DEF DeliveredStep, AcksStep
<1>14. TaskStep
  BY <1>2, <1>11, <1>12, SameTasks DEF OpenedStep
<1> QED
  BY <1>2, <1>11, <1>12, <1>13, <1>14 DEF Effect

LEMMA SuspendEffect ==
    ASSUME GatesInv, suspend
    PROVE  Effect
<1>1. Types /\ UNCHANGED <<store, starts, promise, task, history, granted>> /\ mode = "up" /\ mode' = "suspended"
  BY ContentsOK DEF suspend
<1>2. StoreStep /\ OpenedStep /\ DeliveredStep /\ AcksStep /\ PromiseStep /\ GrantedStep
  BY <1>1, ContentsOK, Unwritten, SameHistory, SamePromises, SameGranted
<1> QED
  BY <1>1, <1>2, SameTasks DEF Effect, OpenedStep

LEMMA FenceEffect ==
    ASSUME GatesInv, fence
    PROVE  Effect
<1> DEFINE L == {g \in Gate : Live(g)}
           W == {g \in L : Unfinished(file.rec[g], file.inst)}
<1>1. /\ Types /\ mode # "down" /\ mode' # "down" /\ starts' = starts
      /\ UNCHANGED <<task, history, granted>> /\ Reject(Gate)
  BY ContentsOK DEF fence
<1>2. StoreStep
  <2>1. CASE UNCHANGED store
    BY <2>1, ContentsOK, Unwritten
  <2>2. CASE commit(Quarantined(file, W), "ok")
    BY <2>2, ContentsOK, QuarantinedLater, CommitEffect
  <2>3. ASSUME NEW g \in W, NEW o \in Outcome,
               WriteAfter(Quarantined(file, {h \in W : h < g}), Quarantined(file, {h \in W : h <= g}), o)
        PROVE  StoreStep
    <3> DEFINE A == {h \in W : h < g}
               B == {h \in W : h <= g}
    <3>1. A \subseteq B /\ A \subseteq W /\ B \subseteq W /\ W \subseteq Gate
      BY DEF Gate
    <3> HIDE DEF A, B, W
    <3>2. /\ Quarantined(file, A) \in FileState /\ Later(file, Quarantined(file, A))
          /\ Quarantined(file, B) \in FileState /\ Later(file, Quarantined(file, B))
      BY ContentsOK, QuarantinedLater
    <3>3. Later(Quarantined(file, A), Quarantined(file, B))
      BY <3>1, ContentsOK, QuarantinedTwice
    <3> QED
      BY <2>3, <3>2, <3>3, ContentsOK, Outcomes, WriteEffect DEF A, B
  <2> QED
    BY <2>1, <2>2, <2>3, Zenon DEF fence
<1>3. OpenedStep /\ DeliveredStep /\ AcksStep /\ PromiseStep /\ GrantedStep
  BY <1>1, SameHistory, RejectPromises, SameGranted
<1> QED
  BY <1>1, <1>2, <1>3, SameTasks DEF Effect, OpenedStep

\* Starting a recovery.
LEMMA StartRecoveryEffect ==
    ASSUME GatesInv, NEW t \in Recovery, NEW via \in {"timer", "attach"},
           StartRecovery(t, via), mode # "down", mode' # "down"
    PROVE  Effect
<1>1. Types /\ UNCHANGED <<store, starts, promise, history, granted>>
  BY ContentsOK DEF StartRecovery
<1>2. StoreStep /\ OpenedStep /\ DeliveredStep /\ AcksStep /\ PromiseStep /\ GrantedStep
  BY <1>1, ContentsOK, Unwritten, SameHistory, SamePromises, SameGranted
<1>3. TaskStep
  <2>1. CASE UNCHANGED task
    BY <1>2, <2>1, SameTasks DEF OpenedStep
  <2>2. CASE task' # task
    <3> DEFINE c == [Idle EXCEPT !.pc = "next", !.run = "recover", !.via = via, !.todo = Snapshot]
    <3>1. task' = [task EXCEPT ![t] = c]
      BY <2>2 DEF StartRecovery
    <3>2. c \in TaskRecord /\ c.pc = "next" /\ c.run = "recover"
      BY Zenon DEF TaskRecord, Idle, PC, Snapshot
    <3>3. t \in Task /\ t \notin Call
      BY DEF Task, Recovery, Call
    <3> HIDE DEF c
    <3>4. Moves(t) /\ task'[t] = c
      BY <1>1, <3>1, <3>2, <3>3 DEF Moves, Types
    <3>5. TaskOK(t)'
      BY <3>2, <3>3, <3>4 DEF TaskOK
    <3> QED
      BY <1>2, <3>3, <3>4, <3>5, OthersOK DEF OpenedStep
  <2> QED
    BY <2>1, <2>2
<1> QED
  BY <1>1, <1>2, <1>3 DEF Effect

LEMMA RecoveryEffect ==
    ASSUME GatesInv, FireTimer \/ resume \/ AgentEnd
    PROVE  Effect
<1>0. 0 \in Recovery /\ -1 \in Recovery
  BY DEF Recovery
<1>1. CASE FireTimer
  <2>1. StartRecovery(0, "timer") /\ mode' = mode /\ mode # "down"
    BY <1>1 DEF FireTimer, GatesInv
  <2> QED
    BY <1>0, <2>1, StartRecoveryEffect
<1>2. CASE resume \/ AgentEnd
  <2>1. StartRecovery(-1, "attach") /\ mode' # "down" /\ mode # "down"
    BY <1>2 DEF resume, AgentEnd
  <2> QED
    BY <1>0, <2>1, StartRecoveryEffect
<1> QED
  BY <1>1, <1>2

-----------------------------------------------------------------------------
\* A new runtime instance.

\* Every record is kept, but that no unfinished one of an earlier instance is left.
LEMMA BeginKeeps ==
    ASSUME NEW f \in FileState, ContentOK(f), NEW i \in 0..MaxStarts
    PROVE  LET b == beginRuntimeInstance(f, i) IN
           /\ b \in FileState
           /\ \A g \in Gate : Advances(f.rec[g], b.rec[g], f.inst) /\ ~Open(b.rec[g])
           /\ \A g \in Gate : f.rec[g].status = "none" => b.rec[g] = f.rec[g]
           /\ \A g \in Gate : b.rec[g].status = "accepted" => f.rec[g].status = "accepted"
           /\ b.seq = f.seq
<1> DEFINE q == Quarantined(f, Gate)
           b == beginRuntimeInstance(f, i)
<1>1. q \in FileState /\ Later(f, q)
  BY QuarantinedLater
<1>2. q.seq = f.seq /\ \A g \in Gate : q.rec[g] = IF Unfinished(f.rec[g], f.inst)
                                THEN [f.rec[g] EXCEPT !.status = "quarantined"] ELSE f.rec[g]
  BY DEF Quarantined, FileState
<1>3. ASSUME NEW g \in Gate
      PROVE  /\ ~Open(q.rec[g]) /\ (f.rec[g].status = "none" => q.rec[g] = f.rec[g])
             /\ q.rec[g].status = "accepted" => f.rec[g].status = "accepted"
  <2>1. f.rec[g] \in PersistedGate
    BY DEF FileState
  <2>2. CASE Unfinished(f.rec[g], f.inst)
    BY <1>2, <2>1, <2>2, Zenon DEF Open, Unfinished, PersistedGate
  <2>3. CASE ~Unfinished(f.rec[g], f.inst)
    BY <1>2, <2>3, Zenon DEF Open, Unfinished, ContentOK
  <2> QED
    BY <2>2, <2>3
<1>4. b = [q EXCEPT !.inst = i]
  BY DEF beginRuntimeInstance
<1> HIDE DEF q, b
<1>5. b \in FileState /\ b.rec = q.rec /\ b.seq = q.seq
  BY <1>1, <1>4 DEF FileState
<1> QED
  BY <1>1, <1>2, <1>3, <1>5 DEF Later, b

LEMMA StartKeeps ==
    ASSUME GatesInv, Start
    PROVE  GatesInv'
<1> DEFINE b == beginRuntimeInstance(file, starts + 1)
<1>1. /\ Quiet /\ starts' = starts + 1
      /\ UNCHANGED <<promise, task, timer, history, granted>>
  BY DEF Start
<1>2. PICK o \in Outcome : commit(b, o) /\ mode' = IF o = "ok" THEN "up" ELSE "down"
  BY DEF Start
<1>3. Types /\ ContentOK(file) /\ file \in FileState /\ older \subseteq FileState
  BY ContentsOK
<1>4. starts' \in 0..MaxStarts
  BY <1>3, Bounds DEF Types, Start
<1>5. /\ b \in FileState /\ b.seq = file.seq
      /\ \A g \in Gate : /\ Advances(file.rec[g], b.rec[g], file.inst) /\ ~Open(b.rec[g])
                         /\ file.rec[g].status = "none" => b.rec[g] = file.rec[g]
                         /\ b.rec[g].status = "accepted" => file.rec[g].status = "accepted"
  BY <1>1, <1>3, <1>4, BeginKeeps
<1> HIDE DEF b
<1>6. /\ file' \in {file, b} /\ older' \subseteq older \cup {file}
      /\ o = "ok" => file' = b /\ older' = {}
  BY <1>2, Outcomes DEF commit, WriteAfter
<1>7. opened' = opened /\ delivered' = delivered /\ acks' = acks
  BY <1>1 DEF history
<1>8. ContentOK(b)
  <2> SUFFICES ASSUME NEW g \in Gate
               PROVE  LET r == b.rec[g] IN
                      /\ Open(r) => r.owner = b.inst
                      /\ r.advanced => r.status = "accepted"
                      /\ r.terminalized => r.status # "none"
                      /\ g > b.seq => r.status = "none"
                      /\ g \in opened => r.status # "none"
                      /\ delivered[g] # NoAnswer =>
                           r.status = "accepted" /\ r.answer = delivered[g] /\ r.terminalized /\ r.advanced
                      /\ acks[g] > 0 => Decided(r) /\ r.ack \in {"started", "done"}
                      /\ \A a \in Answer : <<g, a>> \in granted /\ r.status = "accepted" => r.answer = a
    BY DEF ContentOK
  <2>1. Advances(file.rec[g], b.rec[g], file.inst) /\ ~Open(b.rec[g]) /\ b.seq = file.seq
        /\ (file.rec[g].status = "none" => b.rec[g] = file.rec[g])
    BY <1>5
  <2>2. b.rec[g] \in PersistedGate /\ file.rec[g] \in PersistedGate
    BY <1>3, <1>5 DEF FileState
  <2>3. b.rec[g].status = "accepted" => file.rec[g].status = "accepted"
    BY <1>5
  <2>4. /\ b.rec[g].advanced => b.rec[g].status = "accepted"
        /\ b.rec[g].terminalized \/ g \in opened => b.rec[g].status # "none"
        /\ g > b.seq => b.rec[g].status = "none"
    BY <1>3, <2>1, Zenon DEF ContentOK, Advances
  <2>5. delivered[g] # NoAnswer =>
          /\ b.rec[g].status = "accepted" /\ b.rec[g].answer = delivered[g]
          /\ b.rec[g].terminalized /\ b.rec[g].advanced
    BY <1>3, <2>1 DEF ContentOK, Advances, Decided
  <2>6. acks[g] > 0 => Decided(b.rec[g]) /\ b.rec[g].ack \in {"started", "done"}
    BY <1>3, <2>1, Zenon DEF ContentOK, Advances, Decided
  <2>7. \A a \in Answer : <<g, a>> \in granted /\ b.rec[g].status = "accepted" => b.rec[g].answer = a
    BY <1>3, <2>1, <2>3 DEF ContentOK, Advances, Decided
  <2> QED
    BY <2>1, <2>4, <2>5, <2>6, <2>7
<1>9. \A f \in Contents' : ContentOK(f)'
  <2>1. \A f \in Contents' : ContentOK(f)
    BY <1>6, <1>8 DEF Contents, GatesInv
  <2> QED
    BY <1>1, <1>7, <2>1, ContentStays
<1>10. \A h \in older' : OlderOK(h)'
  <2> SUFFICES ASSUME NEW h \in older', NEW g \in Gate, h.rec[g].status = "accepted"
               PROVE  Decided(file'.rec[g]) /\ file'.rec[g].answer = h.rec[g].answer
    BY DEF OlderOK, Decided
  <2>1. Decided(file.rec[g]) /\ file.rec[g].answer = h.rec[g].answer
    BY <1>6 DEF GatesInv, OlderOK, Decided
  <2>2. Decided(b.rec[g]) /\ b.rec[g].answer = h.rec[g].answer
    BY <1>5, <2>1 DEF Advances, Decided
  <2> QED
    BY <1>6, <2>1, <2>2
<1>11. \A f \in Contents' : mode' # "down" => f.inst = file'.inst
  BY <1>2, <1>6 DEF Contents
<1>12. GrantedOK'
  <2>1. mode' # "down" => \A g \in Gate : file'.rec[g].status # "pending"
    BY <1>2, <1>5, <1>6 DEF Open
  <2> QED
    BY <1>1, <1>7, <2>1 DEF GatesInv, GrantedOK
<1>13. \A g \in Gate : acks'[g] <= 1 /\ (promise'[g] # "none" => g \in opened')
  BY <1>1, <1>7 DEF GatesInv
<1>14. ~timer' /\ \A t \in Task : TaskOK(t)'
  BY <1>1, Zenon DEF Quiet, TaskOK
<1>15. Types'
  BY <1>1, <1>3, <1>4, <1>5, <1>6, <1>7 DEF Types
<1> QED
  BY <1>9, <1>10, <1>11, <1>12, <1>13, <1>14, <1>15 DEF GatesInv

LEMMA CrashKeeps ==
    ASSUME GatesInv, Crash
    PROVE  GatesInv'
<1>1. /\ mode' = "down" /\ file' \in Contents /\ older' = {} /\ ~timer' /\ starts' = starts
      /\ promise' = [g \in Gate |-> "none"] /\ UNCHANGED <<history, granted>>
  BY DEF Crash, Contents
<1>2. Types /\ opened' = opened /\ delivered' = delivered /\ acks' = acks
  BY <1>1, ContentsOK DEF history
<1>3. task' \in [Task -> TaskRecord] /\ \A t \in Task : task'[t].pc \in {"idle", "done"}
  <2>1. \A p \in {"idle", "done"} : [Idle EXCEPT !.pc = p] \in TaskRecord /\ [Idle EXCEPT !.pc = p].pc = p
    BY Zenon DEF Idle, TaskRecord, PC
  <2>2. task' = [t \in Task |-> [Idle EXCEPT !.pc = IF t \in Call /\ task[t].pc # "idle" THEN "done" ELSE "idle"]]
    BY DEF Crash
  <2> QED
    BY <2>1, <2>2, Zenon
<1>4. Types'
  BY <1>1, <1>2, <1>3 DEF Types, Contents
<1>5. \A f \in Contents' : ContentOK(f)'
  <2>1. \A f \in Contents' : ContentOK(f)
    BY <1>1 DEF Contents, GatesInv
  <2> QED
    BY <1>1, <1>2, <2>1, ContentStays
<1>6. GrantedOK'
  BY <1>1, <1>2 DEF GatesInv, GrantedOK
<1>7. \A t \in Task : TaskOK(t)'
  BY <1>3 DEF TaskOK
<1> QED
  BY <1>1, <1>2, <1>4, <1>5, <1>6, <1>7, Zenon DEF GatesInv

-----------------------------------------------------------------------------
\* The invariant holds at first.
LEMMA InitGates == Init => GatesInv
<1> SUFFICES ASSUME Init PROVE GatesInv
  OBVIOUS
<1> USE DEF Init
<1>1. NoRecord \in PersistedGate /\ NoRecord.status = "none" /\ ~NoRecord.advanced /\ ~NoRecord.terminalized
  BY Bounds DEF NoRecord, PersistedGate
<1>2. file \in FileState /\ \A g \in Gate : file.rec[g] = NoRecord
  BY <1>1, Bounds DEF FileState
<1>3. Idle \in TaskRecord /\ Idle.pc = "idle"
  BY DEF Idle, TaskRecord, PC
<1>4. Types
  BY <1>2, <1>3, Bounds DEF Types
<1>5. ContentOK(file)
  BY <1>1, <1>2 DEF ContentOK, Open
<1>6. \A t \in Task : TaskOK(t)
  BY <1>3 DEF TaskOK
<1> QED
  BY <1>4, <1>5, <1>6 DEF GatesInv, Contents, GrantedOK
=============================================================================
