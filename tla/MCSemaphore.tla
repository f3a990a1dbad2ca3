---------------------------- MODULE MCSemaphore ----------------------------
(* Semaphore for TLC: four task bodies compete for two slots. *)
EXTENDS Semaphore
=============================================================================
