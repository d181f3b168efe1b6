------------------------------- MODULE MCMsgQ -------------------------------
(* Instances of MsgQ for TLC.                                              *)
EXTENDS MsgQ

(* The queue of a CPU with confidential computing, and one whose sender    *)
(* has no fence.                                                           *)
MCSetups == {[cc |-> TRUE, fenced |-> TRUE], [cc |-> FALSE, fenced |-> FALSE]}
=============================================================================
