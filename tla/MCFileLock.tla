---------------------------- MODULE MCFileLock ----------------------------
(* Instances of FileLock for TLC.                                            *)
EXTENDS FileLock, TLC

CONSTANTS c1, c2, c3, p1, p2

\* Three calls in two processes: c1 and c2 run in the same one.
MCProcessOf == c1 :> p1 @@ c2 :> p1 @@ c3 :> p2

\* The two calls of one process are alike.
Symmetry == Permutations({c1, c2})
=============================================================================
