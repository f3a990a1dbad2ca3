-------------------------- MODULE MCSessionOwner --------------------------
(* Instances of SessionOwner for TLC.                                        *)
EXTENDS SessionOwner, TLC

CONSTANTS o1, o2, o3
=============================================================================
