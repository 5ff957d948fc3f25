------------------------------ MODULE MCKosProc ------------------------------
(* Instances of KosProc for TLC: enough PCBs for three generations.        *)
EXTENDS KosProc

CONSTANTS p1, p2, p3

ThreePCBs == {p1, p2, p3}
=============================================================================
