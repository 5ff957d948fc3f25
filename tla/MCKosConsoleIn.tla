---------------------------- MODULE MCKosConsoleIn ----------------------------
(* Bounds for TLC: two readers, a ring of two slots, a text that fills the *)
(* ring and wraps it, reads of up to two bytes.                            *)
EXTENDS KosConsoleIn

TypedText == <<1, 2, 3, 4, 5>>
===============================================================================
