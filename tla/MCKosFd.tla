-------------------------------- MODULE MCKosFd --------------------------------
(* Instances of KosFd for TLC.  Pipe addresses are interchangeable.        *)
EXTENDS KosFd, TLC

PipeSymmetry == Permutations(Pipes)

(* After a careless call the invariants claim nothing.                     *)
Careful == ~careless

(* What a closed struct still holds is used by careless calls only.        *)
View ==
  <<[p \in Procs |-> [i \in FDs |-> IF IsOpen(p, i) THEN <<fd[p][i], FileOf(p, i)>> ELSE fd[p][i]]],
    alive, pipe, heap, inside, machine, history>>
================================================================================
