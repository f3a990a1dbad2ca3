--------------------------- MODULE ExclusiveLock ---------------------------
(* What withFileLock promises its callers ("Serializes all contenders,       *)
(* including callers in the same process"): the critical section has one     *)
(* caller at a time.  The promise ends where the implementation's does, when *)
(* two callers remove the lock directory at the same time (broken).          *)
EXTENDS FiniteSets

CONSTANT Contender  \* calls of withFileLock on one file

VARIABLES holders,  \* live calls in the critical section
          broken    \* the promise no longer holds

lockVars == <<holders, broken>>

Init == holders = {} /\ broken = FALSE

Acquire(c) ==
    /\ c \notin holders
    /\ holders = {} \/ broken
    /\ holders' = holders \cup {c}
    /\ broken' = broken

\* Calls leave: one returns, or a process with some of them dies.
Leave(S) ==
    /\ S # {} /\ S \subseteq holders
    /\ holders' = holders \ S
    /\ broken' = broken

Break == ~broken /\ broken' = TRUE /\ UNCHANGED holders

Next ==
    \/ \E c \in Contender : Acquire(c)
    \/ \E S \in SUBSET Contender : Leave(S)
    \/ Break

Spec == Init /\ [][Next]_lockVars
=============================================================================
