------------------------------- MODULE MCKosPipe -------------------------------
(* Instances of KosPipe for TLC: a creator and the processes it forks, a   *)
(* buffer of two bytes and calls of up to two.                             *)
EXTENDS KosPipe

(* What malloc may leave in the buffer: a byte 0xFF, or another one.       *)
AnyGarbage == {EOF, 0}
ZeroGarbage == {0}
=================================================================================
