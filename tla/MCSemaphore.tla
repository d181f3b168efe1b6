---------------------------- MODULE MCSemaphore ----------------------------
(* Instances of Semaphore for TLC.                                         *)
EXTENDS Semaphore
=============================================================================
