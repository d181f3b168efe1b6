---------------------------- MODULE MCFaultBatch ----------------------------
(* Instances of FaultBatch for TLC.                                        *)
EXTENDS FaultBatch

CONSTANTS i1, i2, i3

MCVaSpace == [i \in Instances |-> IF i = i3 THEN 2 ELSE 1]

(* One block of two pages, and two blocks of one.                          *)
MCBlockEnd == [v \in {1, 2} |-> [a \in Addresses |-> IF v = 1 THEN 2 ELSE a]]

MCSymmetry == Permutations(Utlbs)
=============================================================================
