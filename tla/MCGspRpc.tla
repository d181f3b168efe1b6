------------------------------ MODULE MCGspRpc ------------------------------
(* Instances of GspRpc for TLC.                                            *)
EXTENDS GspRpc
=============================================================================
