------------------------------- MODULE ProcLife -------------------------------
(***************************************************************************)
(* What fork, exit and wait promise, whatever the scheduler does: a tree   *)
(* of processes under a root that never exits and never waits.             *)
(***************************************************************************)
EXTENDS Naturals

CONSTANTS Procs, Root

VARIABLES
  life,    (* "absent", "live" or "zombie"                                 *)
  kin,     (* the parent; Root for absent processes                        *)
  halted

lifeVars == <<life, kin, halted>>

Init ==
  /\ life = [p \in Procs |-> "absent"]
  /\ kin = [p \in Procs |-> Root]
  /\ halted = FALSE

(* The first process is a child of the root.                               *)
Boot(c) ==
  /\ \A p \in Procs : life[p] = "absent"
  /\ life' = [life EXCEPT ![c] = "live"]
  /\ UNCHANGED <<kin, halted>>

Fork(p, c) ==
  /\ life[p] = "live" /\ life[c] = "absent"
  /\ life' = [life EXCEPT ![c] = "live"]
  /\ kin' = [kin EXCEPT ![c] = p]
  /\ UNCHANGED halted

(* The whole family of p, live or zombie, passes to the root.              *)
Orphaned(p) == [r \in Procs |-> IF kin[r] = p THEN Root ELSE kin[r]]

(* A child of the root vanishes; any other process stays until reaped.     *)
Exit(p) ==
  /\ life[p] = "live"
  /\ IF kin[p] = Root
       THEN life' = [life EXCEPT ![p] = "absent"]
       ELSE life' = [life EXCEPT ![p] = "zombie"]
  /\ kin' = Orphaned(p)
  /\ UNCHANGED halted

(* Only a live parent reaps, and only its own zombies.                     *)
Reap(z) ==
  /\ life[z] = "zombie" /\ kin[z] # Root
  /\ life[kin[z]] = "live"
  /\ life' = [life EXCEPT ![z] = "absent"]
  /\ kin' = [kin EXCEPT ![z] = Root]
  /\ UNCHANGED halted

(* The machine halts only when every process is gone or a zombie.          *)
Halt ==
  /\ ~halted /\ \A p \in Procs : life[p] # "live"
  /\ halted' = TRUE
  /\ UNCHANGED <<life, kin>>

Next ==
  \/ \E p \in Procs : Boot(p) \/ Exit(p) \/ Reap(p)
  \/ \E p, c \in Procs : Fork(p, c)
  \/ Halt

Spec == Init /\ [][Next]_lifeVars
===============================================================================
