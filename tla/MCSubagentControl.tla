------------------------- MODULE MCSubagentControl -------------------------
(* SubagentControl for TLC: owner o1 launches s1 and s2, owner o2 launches   *)
(* s3.                                                                       *)
EXTENDS SubagentControl, TLC

CONSTANTS o1, o2, s1, s2, s3

MCOwnerOf == [s \in Subagent |-> IF s = s3 THEN o2 ELSE o1]

\* s1 and s2 have one owner and are treated alike.
MCSymmetry == Permutations({s1, s2})
=============================================================================
