--------------------------------- MODULE KtSem ---------------------------------
(***************************************************************************)
(* The kt thread library, which is not part of the repository, as kernel   *)
(* code uses it: cooperative threads and counting semaphores.  A thread    *)
(* runs until P_kt_sem puts it to sleep or kt_exit ends it; V_kt_sem makes *)
(* one sleeper ready and lets the caller go on; kt_joinall returns when no *)
(* thread can run.  Which ready thread runs next, and which sleeper a V    *)
(* releases, is left open.                                                 *)
(*                                                                         *)
(* The library's state is a record                                         *)
(*   val      the value of each semaphore, negative while threads sleep    *)
(*   asleep   the threads asleep on each semaphore                         *)
(*   ready    the threads that can run                                     *)
(*   running  the thread that runs, or NoThread                            *)
(***************************************************************************)
EXTENDS Integers, FiniteSets

CONSTANT NoThread

KtState(Sems, Threads) ==
  [val : [Sems -> Int], asleep : [Sems -> SUBSET Threads],
   ready : SUBSET Threads, running : Threads \cup {NoThread}]

make_kt_sems(values, threads) ==
  [val |-> values, asleep |-> [s \in DOMAIN values |-> {}],
   ready |-> threads, running |-> NoThread]

kt_fork(k, t) == [k EXCEPT !.ready = @ \cup {t}]

kt_exit(k) == [k EXCEPT !.running = NoThread]

(* kt_joinall has returned.                                                *)
AllAsleep(k) == k.running = NoThread /\ k.ready = {}

(* t is taken from the ready threads.                                      *)
MayRun(k, t) == k.running = NoThread /\ t \in k.ready
Dispatched(k, t) == [k EXCEPT !.ready = @ \ {t}, !.running = t]

(* The running thread takes a unit of s or goes to sleep.                  *)
P_kt_sem(k, s) ==
  IF k.val[s] > 0
    THEN [k EXCEPT !.val[s] = @ - 1]
    ELSE [k EXCEPT !.val[s] = @ - 1, !.asleep[s] = @ \cup {k.running},
                   !.running = NoThread]

(* A set: one result for each sleeper that may be released.                *)
V_kt_sem(k, s) ==
  IF k.asleep[s] = {}
    THEN {[k EXCEPT !.val[s] = @ + 1]}
    ELSE {[k EXCEPT !.val[s] = @ + 1, !.asleep[s] = @ \ {t},
                    !.ready = @ \cup {t}] : t \in k.asleep[s]}

(* n calls of V_kt_sem in a row.                                           *)
V_kt_sems(k, s, n) ==
  {[k EXCEPT !.val[s] = @ + n, !.asleep[s] = @ \ T, !.ready = @ \cup T] :
     T \in {U \in SUBSET k.asleep[s] :
             \/ Cardinality(U) = n
             \/ Cardinality(U) < n /\ U = k.asleep[s]}}

(* A thread is in one place, and a negative value counts the sleepers.     *)
Sound(k) ==
  /\ k.running \notin k.ready
  /\ \A s \in DOMAIN k.asleep :
       /\ k.asleep[s] \cap (k.ready \cup {k.running}) = {}
       /\ Cardinality(k.asleep[s]) = IF k.val[s] < 0 THEN -k.val[s] ELSE 0
       /\ \A r \in DOMAIN k.asleep \ {s} : k.asleep[r] \cap k.asleep[s] = {}
=================================================================================
