-------------------------- MODULE MCSecureSemaphore -------------------------
(* Instances of SecureSemaphore for TLC.                                   *)
EXTENDS SecureSemaphore
=============================================================================
