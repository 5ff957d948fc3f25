---------------------------- MODULE PrivateMemory ----------------------------
(***************************************************************************)
(* What base and bound registers promise a program: a memory of its own.   *)
(* fork hands a copy to the child, execve puts a program and the caller's  *)
(* argument there, and nobody else's step changes a word of it.            *)
(***************************************************************************)
EXTENDS Naturals, Sequences

CONSTANTS Procs, Offsets, Values, Programs

VARIABLE mem  (* the memories of the processes that live                   *)

Images == [Offsets -> Values]
Live == DOMAIN mem
Top == CHOOSE a \in Offsets : \A b \in Offsets : b <= a

Init == mem = [p \in {} |-> <<>>]

Hands(p, image) == [q \in Live \cup {p} |-> IF q = p THEN image ELSE mem[q]]

(* The program at the bottom, the argument at the top.                     *)
Loaded(image, prog, arg) ==
  [a \in Offsets |-> IF a < Len(prog) THEN prog[a + 1]
                     ELSE IF a = Top THEN arg ELSE image[a]]

Boot(p) ==
  /\ Live = {}
  /\ \E image \in Images : mem' = Hands(p, image)

(* A store of the program, or what a call puts in its caller's buffer.     *)
Write(p, a, v) == mem' = [mem EXCEPT ![p][a] = v]

Fork(p, c) == c \notin Live /\ mem' = Hands(c, mem[p])

(* The argument is one the caller had in its memory.                       *)
Exec(p, prog, a) == mem' = [mem EXCEPT ![p] = Loaded(@, prog, @[a])]

Exit(p) == mem' = [q \in Live \ {p} |-> mem[q]]

Next ==
  \/ \E p \in Procs : Boot(p)
  \/ \E p \in Live :
       \/ \E a \in Offsets, v \in Values : Write(p, a, v)
       \/ \E c \in Procs : Fork(p, c)
       \/ \E prog \in Programs, a \in Offsets : Exec(p, prog, a)
       \/ Exit(p)

Spec == Init /\ [][Next]_mem
==============================================================================
