------------------------------- MODULE MCKosMem -------------------------------
(* Instances of KosMem for TLC.                                            *)
EXTENDS KosMem

CONSTANTS p1, p2, p3

ThreePCBs == {p1, p2, p3}

(* PCBs are interchangeable.                                               *)
PCBSymmetry == Permutations(PCBs)

(* One word of program below a word of data and the argument.              *)
OneProgram == {<<1>>}

(* One word more, one less, and the largest int.                           *)
SomeIncrements == {1, -1, MaxInt}

(* Nothing is claimed of the break once it has gone down.                  *)
Growing == ~shrunk
===============================================================================
