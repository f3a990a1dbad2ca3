------------------------ MODULE MCLifecycleLedger ------------------------
(* Instances of LifecycleLedger for TLC.                                     *)
EXTENDS LifecycleLedger

CONSTANTS i1, i2, h1, h2, r1, r2

Symmetry == Permutations(Request) \cup Permutations(Identity) \cup Permutations(Hash)
=============================================================================
