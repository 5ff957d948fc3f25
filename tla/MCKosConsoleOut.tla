---------------------------- MODULE MCKosConsoleOut ----------------------------
(* The bounds for TLC are in the cfg: three writers that make four calls   *)
(* between them, of up to two bytes each.                                  *)
EXTENDS KosConsoleOut
================================================================================
