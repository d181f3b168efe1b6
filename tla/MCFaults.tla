------------------------------ MODULE MCFaults ------------------------------
(* Instances of Faults for TLC.                                            *)
EXTENDS Faults

CONSTANTS a1, a2, p1, p2

MCPage == [a \in Accesses |-> IF a = a2 THEN p2 ELSE p1]

MCSetups == {<<"pulse", "BATCH_FLUSH">>, <<"level", "ONCE">>, <<"cc", "BATCH">>}

LiveSetups == {<<"pulse", "BATCH_FLUSH">>, <<"cc", "BATCH">>}

MCDisturbing == {"flush", "stale", "failure", "suspend", "removal"}
=============================================================================
