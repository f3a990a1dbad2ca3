-------------------------- MODULE LifecycleLedger --------------------------
(* The durable ledger of session lifecycle requests (create, resume, fork,   *)
(* close, delete) and the broker's handler on top of it:                     *)
(* packages/coding-agent/src/sdk/broker/lifecycle-ledger.ts, #handleRequest  *)
(* of broker.ts and the ledger rows written by executeLifecycle              *)
(* (lifecycle.ts).                                                           *)
(*                                                                           *)
(* The ledger is an append-only file of rows.  Its operations are serialised *)
(* (#mutate), so an append is one step, except that the process may crash in *)
(* the middle of it, leaving a partial last line, or the write may fail part *)
(* way while the process lives on.  After a crash #open reads the file back. *)
(*                                                                           *)
(* Data left out: session ids, intents and receipts of a row, time stamps,   *)
(* bytes (a row counts as one), the .corrupt file, which nothing reads.  A   *)
(* response is its kind; "cleanup" is cleanup_pending with its evidence.     *)
(* The target of a request, by which the broker serialises, is its identity; *)
(* a request that waits its turn in #chains is one that has not begun.       *)
EXTENDS Integers, FiniteSets, SequencesExt

CONSTANTS Identity,   \* idempotency identities of lifecycle requests
          Hash,       \* request hashes
          Request,    \* requests that may be in flight side by side
          MaxRows,    \* LifecycleLedgerLimits.maxRows
          MaxFailures, \* bound: crashes and stops, and writes that fail in a live broker
          MaxFaults   \* bound: writes that fail in a live broker

ASSUME RowsAssumption == MaxRows \in Nat \ {0}
ASSUME FailureAssumption == MaxFailures \in Nat /\ MaxFaults \in Nat

VARIABLES disk,     \* lines of lifecycle-ledger.jsonl
          torn,     \* the last line has no newline
          entries,  \* #entries
          byIdentity, \* #byIdentity
          proc,     \* the broker process: down, in #open, or up
          recover,  \* identities #open has still to append terminal_uncertain for, in any order
          req,      \* the requests: where in #handleRequest, what for, its response
          effects,  \* history: how often the effects of an identity were started
          answers,  \* history: the proven answers given for an identity
          verified, \* history: the answers given after readTerminal confirmed them
          crashes, faults \* history: crashes and failed writes so far

ledgerVars == <<disk, torn, entries, byIdentity>>
hist == <<effects, answers, verified>>
vars == <<disk, torn, entries, byIdentity, proc, recover, req, effects, answers, verified,
          crashes, faults>>

None == "none"
State == {"accepted", "effect_started", "awaiting_ready", "terminal_ok", "terminal_error",
          "terminal_uncertain"}
Response == {"ok", "error", "cleanup", "uncertain"}
Row == [id : Identity, hash : Hash, st : State, resp : Response \cup {None}, dig : BOOLEAN]
NoRow == [id |-> None, hash |-> None, st |-> "none", resp |-> None, dig |-> FALSE]
Corrupt == [NoRow EXCEPT !.st = "corrupt"]  \* a line that does not parse
Idle == [pc |-> "idle", id |-> None, hash |-> None, resp |-> None]

terminal(s) == s \in {"terminal_ok", "terminal_error"}
final(s) == terminal(s) \/ s = "terminal_uncertain"

\* lifecycleResponseState
lifecycleResponseState(r) ==
    CASE r = "ok" -> "terminal_ok" [] r = "cleanup" -> "effect_started"
      [] r = "uncertain" -> "terminal_uncertain" [] r = "error" -> "terminal_error"

\* #isCleanupPending
isCleanupPending(e) == e.resp = "cleanup"

\* hasValidTerminalDigests: a final row that carries a response carries its digest.
hasValidTerminalDigests(e) ==
    final(e.st) => IF e.resp = None THEN e.st = "terminal_uncertain" ELSE e.dig

\* #isValidHistoryContinuation
isValidHistoryContinuation(prev, e) ==
    IF prev = NoRow THEN e.st = "accepted"
    ELSE /\ prev.hash = e.hash /\ ~terminal(prev.st)
         /\ CASE prev.st = "terminal_uncertain" -> final(e.st)
              [] prev.st = "accepted" -> TRUE
              [] OTHER -> e.st \in {"effect_started", "awaiting_ready"} \/ final(e.st)

\* #uncertainFrom
uncertainFrom(e, trusted) ==
    IF trusted THEN [e EXCEPT !.st = "terminal_uncertain"]
    ELSE [e EXCEPT !.st = "terminal_uncertain", !.resp = None, !.dig = FALSE]

-----------------------------------------------------------------------------
(* Reading the file.                                                         *)

Empty == [entries |-> <<>>, by |-> [i \in Identity |-> NoRow], invalid |-> {}, doubt |-> {},
          synthetic |-> [i \in Identity |-> NoRow]]

\* One line of #open: a line that does not parse puts every identity without a final
\* row in doubt; a row of an identity in doubt, or one that does not continue its
\* history, is quarantined and makes the identity uncertain.
ReadLine(acc, e) ==
    IF e = Corrupt
    THEN [acc EXCEPT !.doubt =
              @ \cup {i \in Identity : acc.by[i] # NoRow /\ ~final(acc.by[i].st)}]
    ELSE LET prior == acc.by[e.id]
         IN  IF \/ e.id \in acc.invalid \cup acc.doubt
                \/ ~hasValidTerminalDigests(e)
                \/ ~isValidHistoryContinuation(prior, e)
             THEN [acc EXCEPT !.invalid = @ \cup {e.id},
                      !.synthetic[e.id] =
                          IF @ # NoRow THEN @
                          ELSE IF prior # NoRow THEN uncertainFrom(prior, TRUE)
                          ELSE uncertainFrom(e, FALSE)]
             ELSE [acc EXCEPT !.entries = Append(@, e), !.by[e.id] = e]

ReadBack(lines) == FoldLeft(ReadLine, Empty, lines)

\* #byIdentity after the lines were read and the synthetic entries put in place.
Recovered(read) == [i \in Identity |-> IF read.synthetic[i] # NoRow THEN read.synthetic[i]
                                       ELSE read.by[i]]

\* The rows #open appends: for the quarantined identities that were accepted, the ones in
\* doubt, and the ones whose effects may have run.
ToRecover(read) ==
    {i \in Identity :
        \/ /\ read.synthetic[i] # NoRow
           /\ \E e \in ToSet(read.entries) : e.id = i /\ e.st = "accepted"
        \/ /\ read.synthetic[i] = NoRow /\ read.by[i] # NoRow
           /\ \/ i \in read.doubt /\ ~final(read.by[i].st)
              \/ read.by[i].st = "effect_started" /\ ~isCleanupPending(read.by[i])
              \/ read.by[i].st = "awaiting_ready"}

\* readTerminal: the final row of identity i, unless a complete line does not parse or the
\* history of i is not valid.  A partial last line is another identity's: the last append
\* for i, the row to be read, succeeded.
readTerminal(i, h) ==
    LET lines == IF torn THEN Front(disk) ELSE disk
        mine == SelectSeq(lines, LAMBDA e : e # Corrupt /\ e.id = i)
        valid == \A k \in DOMAIN mine :
                    /\ mine[k].hash = h /\ hasValidTerminalDigests(mine[k])
                    /\ isValidHistoryContinuation(IF k = 1 THEN NoRow ELSE mine[k - 1], mine[k])
    IN  IF Corrupt \in ToSet(lines) \/ mine = <<>> \/ ~valid \/ ~final(Last(mine).st)
        THEN None ELSE Last(mine).resp

-----------------------------------------------------------------------------
(* Writing the file.                                                         *)

RowCount == Len(disk) - IF torn THEN 1 ELSE 0

\* The limit checked without the row to come.
FullLate == RowCount > MaxRows

Full == RowCount + 1 > MaxRows

\* The accepted rows of an identity whose latest row is e: compaction keeps the first.
AnchorsOf(e) ==
    {k \in DOMAIN entries : entries[k].id = e.id /\ entries[k].st = "accepted"
                            /\ entries[k].hash = e.hash}

\* The snapshot of compaction without the accepted rows.
SnapshotUnanchored(by) ==
    SetToSeq({by[i] : i \in {j \in Identity : by[j] # NoRow}})

\* The snapshot of compaction without the latest rows.
SnapshotOfAnchors(by) ==
    SetToSeq({entries[Min(AnchorsOf(by[i]))] : i \in {j \in Identity : by[j] # NoRow}})

\* The snapshot of #compact: for every identity its first accepted row and its latest.
Snapshot(by) ==
    LET anchor(i) == Min(AnchorsOf(by[i]))
        known == SetToSortSeq({i \in Identity : by[i] # NoRow},
                              LAMBDA i, j : anchor(i) < anchor(j))
        rows(i) == <<entries[anchor(i)]>> \o IF by[i].st = "accepted" THEN <<>> ELSE <<by[i]>>
    IN  FlattenSeq([k \in DOMAIN known |-> rows(known[k])])

Anchored(by) == \A i \in Identity : by[i] # NoRow => AnchorsOf(by[i]) # {}

Unwritten == [ok |-> FALSE, disk |-> disk, torn |-> torn, entries |-> entries, by |-> byIdentity]
Compacted(by) ==
    IF ~Anchored(by) THEN Unwritten
    ELSE IF Len(Snapshot(by)) > MaxRows THEN Unwritten
    ELSE [ok |-> TRUE, disk |-> Snapshot(by), torn |-> FALSE, entries |-> Snapshot(by), by |-> by]

\* What is written to ledger w lands on its last line if that has no newline.
AddLine(w, e) == IF w.torn THEN [w.disk EXCEPT ![Len(w.disk)] = Corrupt] ELSE Append(w.disk, e)

\* The ledger #append writes a line for row e to: compacted if the file is full.
Room(e) ==
    LET compacted == Compacted(byIdentity)
    IN  IF ~Full THEN [Unwritten EXCEPT !.ok = TRUE]
        ELSE [compacted EXCEPT !.ok = @ /\ Len(compacted.disk) < MaxRows]

\* In a full file a row of a known identity is written by the compaction itself.
Replaces(e) == Full /\ byIdentity[e.id] # NoRow

\* #append: the ledger with row e; a row that does not fit is refused.
Written(e) ==
    LET by == [byIdentity EXCEPT ![e.id] = e]
        room == Room(e)
    IN  IF Replaces(e) THEN Compacted(by)
        ELSE IF ~room.ok THEN room
        ELSE [ok |-> TRUE, disk |-> AddLine(room, e), torn |-> FALSE,
              entries |-> Append(room.entries, e), by |-> by]

Put(w) == disk' = w.disk /\ torn' = w.torn /\ entries' = w.entries /\ byIdentity' = w.by

\* transition: a proven row has no successor and is returned; otherwise the new row keeps
\* the fields of the previous one that the caller does not give.
Transitioned(e) ==
    IF terminal(byIdentity[e.id].st)
    THEN [Unwritten EXCEPT !.ok = TRUE] ELSE Written(e)

\* The row a request appends next, by where it is in the handler.
NextRow(q) ==
    LET last == byIdentity[q.id]
    IN  CASE q.pc = "accept" -> [id |-> q.id, hash |-> q.hash, st |-> "accepted",
                                 resp |-> None, dig |-> FALSE]
          [] q.pc = "note" \/ (q.pc = "mark" /\ q.resp = None) ->
                 [last EXCEPT !.st = "effect_started"]
          [] q.pc = "mark" /\ q.resp # None ->
                 [last EXCEPT !.st = "effect_started", !.resp = q.resp, !.dig = FALSE]
          [] q.pc = "ready" -> [last EXCEPT !.st = "awaiting_ready"]
          [] q.pc = "progress" ->
                 [last EXCEPT !.st = "effect_started", !.resp = "cleanup", !.dig = FALSE]
          [] q.pc \in {"record", "redo"} ->
                 [last EXCEPT !.st = lifecycleResponseState(q.resp), !.resp = q.resp, !.dig = TRUE]
          [] q.pc = "doubt" ->
                 [last EXCEPT !.st = "terminal_uncertain", !.resp = "uncertain", !.dig = TRUE]

Appending(r) ==
    /\ proc = "up"
    /\ req[r].pc \in {"accept", "mark", "note", "ready", "progress", "record", "redo", "doubt"}

\* A write of row e may end part way: not at all a proven row, nor one that compaction writes.
Breakable(e) == ~terminal(byIdentity[e.id].st) /\ ~Replaces(e) /\ Room(e).ok

-----------------------------------------------------------------------------
(* The broker's handler (#handleRequest).                                    *)

Init ==
    /\ disk = <<>> /\ torn = FALSE
    /\ entries = <<>> /\ byIdentity = Empty.by
    /\ proc = "up" /\ recover = {}
    /\ req = [r \in Request |-> Idle]
    /\ effects = [i \in Identity |-> 0]
    /\ answers = [i \in Identity |-> {}] /\ verified = [i \in Identity |-> {}]
    /\ crashes = 0 /\ faults = 0

\* Request r, with data q, goes on at pc with response resp.
Goto(r, q, pc, resp) ==
    /\ req' = [req EXCEPT ![r] = [q EXCEPT !.pc = pc, !.resp = resp]]
    /\ UNCHANGED hist

\* The handler ends; its finally block lets the next request of the target begin.
Ends(r) == req' = [req EXCEPT ![r] = Idle]

\* The handler throws, or answers with a conflict or in_progress.
Throws(r) == Ends(r) /\ UNCHANGED hist

Answers(r, i, a, isVerified) ==
    LET proven == IF a \in {"ok", "error"} THEN {a} ELSE {}
    IN  /\ Ends(r)
        /\ answers' = [answers EXCEPT ![i] = @ \cup proven]
        /\ verified' = [verified EXCEPT ![i] = IF isVerified THEN @ \cup proven ELSE @]
        /\ UNCHANGED effects

\* executeLifecycle up to its first effect: it answers at once (input refused, session
\* already live), or goes on to record that its effects start.
Plan(r, q) ==
    \/ \E a \in {"ok", "error", "uncertain"} : Goto(r, q, "record", a)
    \/ \E a \in {None, "cleanup"} : Goto(r, q, "mark", a)

\* executeLifecycle with cleanup evidence: reconciliation, which may be repeated, records
\* its progress or only its result.
Cleanup(r, q) ==
    \/ Goto(r, q, "progress", None)
    \/ \E a \in Response : Goto(r, q, "redo", a)

\* A request has its turn in the chain of its target.
Turn(i) == \A r \in Request : req[r].id # i

\* begin, and what #handleRequest does with its result.
Begin(r, i, h) ==
    LET q == [Idle EXCEPT !.id = i, !.hash = h]
        last == byIdentity[i]
    IN  /\ proc = "up" /\ req[r] = Idle /\ Turn(i)
        /\ CASE last = NoRow -> Goto(r, q, "accept", None)
             [] last # NoRow /\ last.hash # h -> Throws(r)
             [] last.hash = h /\ terminal(last.st) -> Answers(r, i, last.resp, FALSE)
             [] last.hash = h /\ last.st = "effect_started" /\ isCleanupPending(last) ->
                    Cleanup(r, q)
             [] last.hash = h /\ last.st = "terminal_uncertain" ->
                    IF isCleanupPending(last) THEN Cleanup(r, q)
                    ELSE Answers(r, i, last.resp, FALSE)
             [] last.hash = h /\ last.st = "accepted" -> Plan(r, q)
             [] OTHER -> Throws(r)
        /\ UNCHANGED <<ledgerVars, proc, recover, crashes, faults>>

\* The effects that are not repeatable: the worktree, the child process, the deletion.
\* A launch notes in the ledger what it has made.
Effect(r) ==
    /\ req[r].pc = "effect"
    /\ effects' = [effects EXCEPT ![req[r].id] = @ + 1]
    /\ \/ byIdentity[req[r].id].resp = None /\ req' = [req EXCEPT ![r].pc = "note"]
       \/ \E a \in Response : req' = [req EXCEPT ![r].pc = "record", ![r].resp = a]
    /\ UNCHANGED <<ledgerVars, proc, recover, answers, verified, crashes, faults>>

\* A launch that fails ends its child and answers.
LaunchFails(r, q) == \E a \in {"error", "uncertain"} : Goto(r, q, "record", a)

\* A row is not written: a launch that cannot note its effects fails, other requests end.
NotWritten(r) == IF req[r].pc = "note" THEN LaunchFails(r, req[r]) ELSE Throws(r)

\* After the append of a row: what the handler does next.
AfterAppend(r, recorded) ==
    LET q == req[r]
    IN  CASE q.pc = "accept" -> Plan(r, q)
          [] q.pc = "mark" -> Goto(r, q, "effect", None)
          [] q.pc = "note" -> Goto(r, q, "ready", None) \/ LaunchFails(r, q)
          [] q.pc = "ready" -> \E a \in Response : Goto(r, q, "record", a)
          [] q.pc = "progress" -> \E a \in Response : Goto(r, q, "redo", a)
          [] q.pc = "record" -> IF q.resp = "cleanup" THEN Answers(r, q.id, q.resp, FALSE)
                                ELSE Goto(r, q, "verify", q.resp)
          [] q.pc = "redo" -> Answers(r, q.id, IF recorded.st = "terminal_error" THEN recorded.resp
                                         ELSE q.resp, FALSE)
          [] q.pc = "doubt" -> Answers(r, q.id, "uncertain", FALSE)

\* The effects start before the row that announces them is appended.
AppendRowLate(r) ==
    /\ Appending(r)
    /\ LET w == Transitioned(NextRow(req[r]))
       IN  IF req[r].pc = "mark" THEN UNCHANGED ledgerVars /\ AfterAppend(r, NoRow)
           ELSE Put(w) /\ IF w.ok THEN AfterAppend(r, w.by[req[r].id]) ELSE NotWritten(r)
    /\ UNCHANGED <<proc, recover, crashes, faults>>

\* #append of the row of a request, begun by begin or transition.
AppendRow(r) ==
    /\ Appending(r)
    /\ LET w == Transitioned(NextRow(req[r]))
       IN  Put(w) /\ IF w.ok THEN AfterAppend(r, w.by[req[r].id]) ELSE NotWritten(r)
    /\ UNCHANGED <<proc, recover, crashes, faults>>

\* A write fails part way, or before its newline: the process lives on.
WriteFails(r) ==
    /\ Appending(r) /\ crashes + faults < MaxFailures /\ faults < MaxFaults
    /\ LET row == NextRow(req[r])
       IN  /\ Breakable(row)
           /\ \E e \in {Corrupt, row} : disk' = AddLine(Room(row), e)
           /\ entries' = Room(row).entries
    /\ torn' = TRUE
    /\ NotWritten(r)
    /\ faults' = faults + 1
    /\ UNCHANGED <<byIdentity, proc, recover, crashes>>

\* readTerminal, and the comparison of what it finds with the response.
Verify(r) ==
    /\ req[r].pc = "verify"
    /\ IF readTerminal(req[r].id, req[r].hash) = req[r].resp
       THEN Answers(r, req[r].id, req[r].resp, TRUE) ELSE Goto(r, req[r], "doubt", None)
    /\ UNCHANGED <<ledgerVars, proc, recover, crashes, faults>>

-----------------------------------------------------------------------------
(* The process.                                                              *)

Down ==
    /\ proc' = "down" /\ recover' = {}
    /\ entries' = <<>> /\ byIdentity' = Empty.by
    /\ req' = [r \in Request |-> Idle]
    /\ UNCHANGED <<hist, faults>>

\* The process ends: a crash, or stop(), which waits for the requests first.
Crash ==
    /\ proc # "down" /\ crashes + faults < MaxFailures
    /\ Down /\ crashes' = crashes + 1 /\ UNCHANGED <<disk, torn>>

\* The rows being appended.
Pending ==
    {NextRow(req[r]) : r \in {q \in Request : Appending(q)}}
        \cup {uncertainFrom(byIdentity[i], TRUE) : i \in recover}

\* A crash while a row is appended: part of it, or all but the newline, is in the file.
CrashInAppend ==
    /\ crashes + faults < MaxFailures
    /\ \E row \in Pending :
          /\ Breakable(row)
          /\ \E e \in {Corrupt, row} : disk' = AddLine(Room(row), e)
    /\ torn' = TRUE
    /\ Down /\ crashes' = crashes + 1

\* #open reads the file and closes a partial last line.
Open ==
    /\ proc = "down"
    /\ LET read == ReadBack(disk)
       IN  entries' = read.entries /\ byIdentity' = Recovered(read) /\ recover' = ToRecover(read)
    /\ proc' = "opening" /\ torn' = FALSE
    /\ UNCHANGED <<disk, req, hist, crashes, faults>>

\* #open appends a terminal_uncertain row; one that does not fit fails the start.
Recover(i) ==
    /\ proc = "opening" /\ i \in recover
    /\ LET w == Written(uncertainFrom(byIdentity[i], TRUE))
       IN  IF w.ok
           THEN /\ Put(w) /\ recover' = recover \ {i}
                /\ UNCHANGED <<proc, req, hist, faults>>
           ELSE Down /\ disk' = w.disk /\ torn' = w.torn
    /\ UNCHANGED crashes

Opened ==
    /\ proc = "opening" /\ recover = {}
    /\ proc' = "up"
    /\ UNCHANGED <<ledgerVars, recover, req, hist, crashes, faults>>

Next ==
    \/ \E r \in Request, i \in Identity, h \in Hash : Begin(r, i, h)
    \/ \E r \in Request : Effect(r)
    \/ \E r \in Request : AppendRow(r)
    \/ \E r \in Request : Verify(r)
    \/ \E r \in Request : WriteFails(r)
    \/ CrashInAppend
    \/ Crash
    \/ Open
    \/ \E i \in Identity : Recover(i)
    \/ Opened

Spec == Init /\ [][Next]_vars

-----------------------------------------------------------------------------
(* Properties.                                                               *)

\* The values of the variables; the file never holds more rows than its limit allows.
TypeOK ==
    /\ disk \in Seq(Row \cup {Corrupt}) /\ RowCount <= MaxRows /\ torn \in BOOLEAN
    /\ entries \in Seq(Row) /\ byIdentity \in [Identity -> Row \cup {NoRow}]
    /\ proc \in {"down", "opening", "up"} /\ recover \subseteq Identity
    /\ \A r \in Request : req[r] = Idle \/ (req[r].id \in Identity /\ req[r].hash \in Hash)
    /\ effects \in [Identity -> Nat] /\ crashes + faults \in 0..MaxFailures
    /\ answers \in [Identity -> SUBSET {"ok", "error"}]
    /\ verified \in [Identity -> SUBSET {"ok", "error"}]

\* The effects of a lifecycle request are started at most once ("do not retry them after a
\* restart").
EffectsAtMostOnce == \A i \in Identity : effects[i] <= 1

\* Crashes alone, also in the middle of an append, of recovery or of a restart, never make
\* effects start twice: it takes a write that fails while the broker lives on.
EffectsOnceAcrossCrashes == faults = 0 => EffectsAtMostOnce

\* An answer given after readTerminal confirmed it is never contradicted by a later proven
\* answer to the same request, across crashes, restarts and compaction.
VerifiedAnswerIsFinal ==
    faults = 0 => \A i \in Identity : verified[i] # {} => Cardinality(answers[i]) = 1

\* While every line of the file parses, reading it back gives what is in memory for every
\* request without a cleanup: a restart forgets no row, whatever compaction replaced.
RestartForgetsNothing ==
    proc = "up" /\ ~torn /\ Corrupt \notin ToSet(disk) =>
        LET back == Recovered(ReadBack(disk))
        IN  \A i \in Identity :
                \/ \E e \in ToSet(disk) : e.id = i /\ isCleanupPending(e)
                \/ back[i] = byIdentity[i]

=============================================================================
