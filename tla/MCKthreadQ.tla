----------------------------- MODULE MCKthreadQ -----------------------------
(* Instances of KthreadQ for TLC.                                          *)
EXTENDS KthreadQ
=============================================================================
