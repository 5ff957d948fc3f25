----------------------------- MODULE KosPipe_proofs -----------------------------
(***************************************************************************)
(* A pipe, for any number of processes, any size of its buffer and any     *)
(* calls: its counts are the descriptors that refer to it, one reader and  *)
(* one writer at a time are inside, the semaphores account for every slot, *)
(* nobody is lost in a P, and the first lap of the buffer comes out as it  *)
(* went in.                                                                *)
(*                                                                         *)
(* Every call of P takes one off a semaphore's value and brings its thread *)
(* to a label where it uses that semaphore; every call of V adds one and   *)
(* leaves such a label.  So a value and the threads that use it make a sum *)
(* that no step changes, whoever sleeps and whoever is released.  Ranges   *)
(* of the locals and heads, the content of the buffer and the places of    *)
(* threads are invariants of their own, each proved from those before it.  *)
(***************************************************************************)
EXTENDS KosPipe, FiniteSetTheorems, TLAPS

(* Where a thread sleeps on s, and where it has taken a unit of s that it  *)
(* has not given back, or waits for one.                                   *)
WaitsAt(s) ==
  CASE s = "read" -> "rstart"
    [] s = "write" -> "wstart"
    [] s = "nelement" -> "take"
    [] s = "space_available" -> "ack"

UsedAt(s) ==
  CASE s = "read" -> {"rstart", "test", "take"}
    [] s = "write" -> {"wstart", "put", "ack"}
    [] s = "nelement" -> {"take"}
    [] s = "space_available" -> {"ack"}

(* Threads sleep only while the value counts them.                         *)
Counted(k, s) ==
  /\ k.val[s] + Cardinality(k.asleep[s]) >= 0
  /\ k.asleep[s] = {} \/ k.val[s] + Cardinality(k.asleep[s]) = 0

(* The library's state k fits the labels f of the threads.                 *)
Sane(k, f) ==
  /\ k \in K!KtState(Sems, Procs)
  /\ k.running \notin k.ready
  /\ \A s, p : s \in Sems /\ p \in k.asleep[s] =>
       p \notin k.ready /\ p # k.running /\ f[p] = WaitsAt(s)
  /\ \A s \in Sems : Counted(k, s)

AtLabels(f, L) == {p \in Procs : f[p] \in L}
Using(f, s) == AtLabels(f, UsedAt(s))
Load(v, f, s) == v[s] + Cardinality(Using(f, s))

(* The sums that no step changes.                                          *)
Loads(v, f, readers) ==
  /\ Load(v, f, "read") = 1
  /\ Load(v, f, "write") = 1
  /\ readers # 0 => Load(v, f, "space_available") + Load(v, f, "nelement") = Size

Having(o, e) == {p \in Procs : e \in o[p]}

(* The pipe's counts, and the ends that calls in the pipe have open.       *)
Opened ==
  /\ born \subseteq Procs /\ open \in [Procs -> SUBSET Ends]
  /\ read_count = Cardinality(Having(open, "r"))
  /\ write_count = Cardinality(Having(open, "w"))
  /\ freed \in BOOLEAN
  /\ freed <=> \A p \in Procs : open[p] = {}
  /\ \A p \in Procs \ born : open[p] = {}
Entered ==
  \A p \in Procs : /\ pc[p] \in UsedAt("read") => "r" \in open[p]
                   /\ pc[p] \in UsedAt("write") => "w" \in open[p]

PipeInv ==
  /\ pc \in [Procs -> Labels]
  /\ Sane(kt, pc) /\ Loads(kt.val, pc, read_count)
  /\ Opened /\ Entered

-----------------------------------------------------------------------------
LEMMA Names ==
  /\ Sems = {"read", "write", "nelement", "space_available"}
  /\ \A s, r \in Sems : WaitsAt(s) = WaitsAt(r) => s = r
  /\ \A s \in Sems : WaitsAt(s) \in UsedAt(s) /\ WaitsAt(s) \in Labels
  /\ UsedAt("read") = {"rstart", "test", "take"} /\ UsedAt("write") = {"wstart", "put", "ack"}
  /\ UsedAt("nelement") = {"take"} /\ UsedAt("space_available") = {"ack"}
BY DEF Sems, WaitsAt, UsedAt, Labels

(* What the state of the library consists of.                              *)
LEMMA KtParts ==
  ASSUME NEW k, k \in K!KtState(Sems, Procs)
  PROVE  /\ k.val \in [Sems -> Int] /\ k.asleep \in [Sems -> SUBSET Procs]
         /\ k.ready \subseteq Procs /\ k.running \in Procs \cup {NoThread}
         /\ k = [val |-> k.val, asleep |-> k.asleep, ready |-> k.ready, running |-> k.running]
BY DEF K!KtState

LEMMA SleepersFinite ==
  ASSUME NEW k, k \in K!KtState(Sems, Procs), NEW s \in Sems
  PROVE  IsFiniteSet(k.asleep[s]) /\ Cardinality(k.asleep[s]) \in Nat
<1>1. IsFiniteSet(k.asleep[s])
  BY KtParts, KosPipeAssumption, FS_Subset
<1> QED BY <1>1, FS_CardinalityType

-----------------------------------------------------------------------------
(* The kt library, on any state it may be in.                              *)

(* A thread that is awake goes to another label.                           *)
LEMMA SaneMove ==
  ASSUME NEW k, NEW f \in [Procs -> Labels], Sane(k, f), NEW p \in Procs,
         \A s \in Sems : p \notin k.asleep[s], NEW l
  PROVE  Sane(k, [f EXCEPT ![p] = l])
BY KtParts DEF Sane

LEMMA SaneExit ==
  ASSUME NEW k, NEW f, Sane(k, f), NEW j, j = K!kt_exit(k)
  PROVE  Sane(j, f) /\ j.val = k.val
<1>1. /\ j.val = k.val /\ j.asleep = k.asleep /\ j.ready = k.ready /\ j.running = NoThread
      /\ j = [val |-> j.val, asleep |-> j.asleep, ready |-> j.ready, running |-> j.running]
  BY KtParts DEF K!kt_exit, Sane
<1>2. j \in K!KtState(Sems, Procs)
  BY <1>1, KtParts DEF Sane, K!KtState
<1> QED BY <1>1, <1>2, KtParts, KosPipeAssumption DEF Sane, Counted

LEMMA SaneDispatch ==
  ASSUME NEW k, NEW f, Sane(k, f), NEW p \in Procs, K!MayRun(k, p), NEW j, j = K!Dispatched(k, p)
  PROVE  Sane(j, f) /\ j.val = k.val
<1>0. /\ k.val \in [Sems -> Int] /\ k.asleep \in [Sems -> SUBSET Procs]
      /\ k.ready \subseteq Procs /\ k.running \in Procs \cup {NoThread}
      /\ k = [val |-> k.val, asleep |-> k.asleep, ready |-> k.ready, running |-> k.running]
  BY KtParts DEF Sane
<1>1. /\ j.val = k.val /\ j.asleep = k.asleep /\ j.ready = k.ready \ {p} /\ j.running = p
      /\ j = [val |-> j.val, asleep |-> j.asleep, ready |-> j.ready, running |-> j.running]
  BY <1>0 DEF K!Dispatched
<1>2. j \in K!KtState(Sems, Procs)
  BY <1>1, KtParts DEF Sane, K!KtState
<1> QED BY <1>1, <1>2 DEF Sane, K!MayRun, Counted

LEMMA SaneFork ==
  ASSUME NEW k, NEW f, Sane(k, f), NEW p \in Procs, K!AllAsleep(k),
         \A s \in Sems : p \notin k.asleep[s], NEW j, j = K!kt_fork(k, p)
  PROVE  Sane(j, f) /\ j.val = k.val
<1>0. /\ k.val \in [Sems -> Int] /\ k.asleep \in [Sems -> SUBSET Procs]
      /\ k.ready \subseteq Procs /\ k.running \in Procs \cup {NoThread}
      /\ k = [val |-> k.val, asleep |-> k.asleep, ready |-> k.ready, running |-> k.running]
  BY KtParts DEF Sane
<1>1. /\ j.val = k.val /\ j.asleep = k.asleep /\ j.ready = k.ready \cup {p}
      /\ j.running = k.running
      /\ j = [val |-> j.val, asleep |-> j.asleep, ready |-> j.ready, running |-> j.running]
  BY <1>0 DEF K!kt_fork
<1>2. j \in K!KtState(Sems, Procs)
  BY <1>1, KtParts DEF Sane, K!KtState
<1> QED BY <1>1, <1>2, KosPipeAssumption DEF Sane, K!AllAsleep, Counted

LEMMA SaneP ==
  ASSUME NEW k, NEW f, Sane(k, f), NEW p \in Procs, k.running = p, NEW s \in Sems,
         f[p] = WaitsAt(s), NEW j, j = K!P_kt_sem(k, s)
  PROVE  Sane(j, f) /\ j.val = [k.val EXCEPT ![s] = @ - 1]
<1>0. /\ k.val \in [Sems -> Int] /\ k.asleep \in [Sems -> SUBSET Procs]
      /\ k.ready \subseteq Procs /\ k.running \in Procs \cup {NoThread}
      /\ k = [val |-> k.val, asleep |-> k.asleep, ready |-> k.ready, running |-> k.running]
  BY KtParts DEF Sane
<1>1. /\ k \in K!KtState(Sems, Procs) /\ k.val[s] \in Int /\ p \notin k.asleep[s]
      /\ IsFiniteSet(k.asleep[s]) /\ Cardinality(k.asleep[s]) \in Nat
  BY KtParts, SleepersFinite DEF Sane
<1>2. CASE k.val[s] > 0
  <2>1. j = [k EXCEPT !.val[s] = @ - 1]
    BY <1>2 DEF K!P_kt_sem
  <2>2. /\ j.val = [k.val EXCEPT ![s] = @ - 1] /\ j.asleep = k.asleep
        /\ j.ready = k.ready /\ j.running = k.running
        /\ j = [val |-> j.val, asleep |-> j.asleep, ready |-> j.ready, running |-> j.running]
    BY <1>0, <1>1, <2>1
  <2>3. j \in K!KtState(Sems, Procs)
    BY <1>1, <2>2, KtParts DEF K!KtState
  <2>4. \A r \in Sems : Counted(j, r)
    BY <1>1, <1>2, <2>2, KtParts DEF Sane, Counted
  <2> QED BY <2>2, <2>3, <2>4 DEF Sane
<1>3. CASE ~(k.val[s] > 0)
  <2>1. j = [k EXCEPT !.val[s] = @ - 1, !.asleep[s] = @ \cup {k.running},
                      !.running = NoThread]
    BY <1>3 DEF K!P_kt_sem
  <2>2. /\ j.val = [k.val EXCEPT ![s] = @ - 1]
        /\ j.asleep = [k.asleep EXCEPT ![s] = @ \cup {p}]
        /\ j.ready = k.ready /\ j.running = NoThread
        /\ j = [val |-> j.val, asleep |-> j.asleep, ready |-> j.ready, running |-> j.running]
    BY <1>0, <1>1, <2>1
  <2>3. j \in K!KtState(Sems, Procs)
    <3>1. /\ j.val \in [Sems -> Int] /\ j.asleep \in [Sems -> SUBSET Procs]
          /\ j.ready \in SUBSET Procs
      BY <1>1, <2>2, KtParts
    <3> QED BY <2>2, <3>1 DEF K!KtState
  <2>4. \A r \in Sems : Counted(j, r)
    <3> TAKE r \in Sems
    <3>1. CASE r = s
      <4>1. Cardinality(k.asleep[s] \cup {p}) = Cardinality(k.asleep[s]) + 1
        BY <1>1, FS_AddElement
      <4>2. j.asleep[s] = k.asleep[s] \cup {p} /\ j.val[s] = k.val[s] - 1
        BY <1>1, <2>2, KtParts
      <4>3. k.asleep[s] = {} => Cardinality(k.asleep[s]) = 0
        BY FS_EmptySet
      <4> QED BY <1>1, <1>3, <3>1, <4>1, <4>2, <4>3 DEF Sane, Counted
    <3>2. CASE r # s
      BY <1>1, <2>2, <3>2, KtParts DEF Sane, Counted
    <3> QED BY <3>1, <3>2
  <2>5. \A r, q : r \in Sems /\ q \in j.asleep[r] =>
          q \notin j.ready /\ q # j.running /\ f[q] = WaitsAt(r)
    <3> SUFFICES ASSUME NEW r \in Sems, NEW q \in j.asleep[r]
        PROVE  q \notin j.ready /\ q # j.running /\ f[q] = WaitsAt(r)
      OBVIOUS
    <3>1. q \in Procs /\ (q \in k.asleep[r] \/ (r = s /\ q = p))
      BY <1>1, <2>2, KtParts
    <3> QED BY <2>2, <3>1, KosPipeAssumption DEF Sane
  <2>6. j.running \notin j.ready
    BY <1>1, <2>2, KtParts, KosPipeAssumption
  <2> QED BY <2>2, <2>3, <2>4, <2>5, <2>6 DEF Sane
<1> QED BY <1>2, <1>3

(* n calls of V, which release T; V is the case of one.                    *)
Released(k, s, n, T) ==
  [k EXCEPT !.val[s] = @ + n, !.asleep[s] = @ \ T, !.ready = @ \cup T]

LEMMA SaneVs ==
  ASSUME NEW k, NEW f, Sane(k, f), NEW s \in Sems, NEW n \in Int,
         NEW T, T \subseteq k.asleep[s],
         Cardinality(T) = n \/ (Cardinality(T) < n /\ T = k.asleep[s]),
         NEW j, j = Released(k, s, n, T)
  PROVE  Sane(j, f) /\ j.val = [k.val EXCEPT ![s] = @ + n] /\ j.running = k.running
<1>0. /\ k.val \in [Sems -> Int] /\ k.asleep \in [Sems -> SUBSET Procs]
      /\ k.ready \subseteq Procs /\ k.running \in Procs \cup {NoThread}
      /\ k = [val |-> k.val, asleep |-> k.asleep, ready |-> k.ready, running |-> k.running]
  BY KtParts DEF Sane
<1>1. /\ k \in K!KtState(Sems, Procs) /\ k.val[s] \in Int
      /\ IsFiniteSet(k.asleep[s]) /\ Cardinality(k.asleep[s]) \in Nat
  BY KtParts, SleepersFinite DEF Sane
<1>2. /\ j.val = [k.val EXCEPT ![s] = @ + n]
      /\ j.asleep = [k.asleep EXCEPT ![s] = @ \ T]
      /\ j.ready = k.ready \cup T /\ j.running = k.running
      /\ j = [val |-> j.val, asleep |-> j.asleep, ready |-> j.ready, running |-> j.running]
  BY <1>0, <1>1 DEF Released
<1>3. j \in K!KtState(Sems, Procs)
  <2>1. /\ j.val \in [Sems -> Int] /\ j.asleep \in [Sems -> SUBSET Procs]
        /\ j.ready \in SUBSET Procs /\ j.running \in Procs \cup {NoThread}
    BY <1>1, <1>2, KtParts
  <2> QED BY <1>2, <2>1 DEF K!KtState
<1>4. \A r \in Sems : Counted(j, r)
  <2> TAKE r \in Sems
  <2>1. CASE r = s
    <3>1. IsFiniteSet(T) /\ Cardinality(T) \in Nat
      BY <1>1, FS_Subset, FS_CardinalityType
    <3>2. Cardinality(k.asleep[s] \ T) = Cardinality(k.asleep[s]) - Cardinality(T)
      <4>1. k.asleep[s] \cap T = T
        OBVIOUS
      <4> QED BY <1>1, <4>1, FS_Difference
    <3>3. j.asleep[s] = k.asleep[s] \ T /\ j.val[s] = k.val[s] + n
      BY <1>1, <1>2, KtParts
    <3>4. k.asleep[s] = {} => T = k.asleep[s]
      OBVIOUS
    <3>5. T = k.asleep[s] => j.asleep[s] = {}
      BY <3>3
    <3> QED BY <1>1, <2>1, <3>1, <3>2, <3>3, <3>4, <3>5 DEF Sane, Counted
  <2>2. CASE r # s
    BY <1>1, <1>2, <2>2, KtParts DEF Sane, Counted
  <2> QED BY <2>1, <2>2
<1>5. \A r, q : r \in Sems /\ q \in j.asleep[r] =>
        q \notin j.ready /\ q # j.running /\ f[q] = WaitsAt(r)
  <2> SUFFICES ASSUME NEW r \in Sems, NEW q \in j.asleep[r]
      PROVE  q \notin j.ready /\ q # j.running /\ f[q] = WaitsAt(r)
    OBVIOUS
  <2>1. q \in k.asleep[r] /\ (r = s => q \notin T)
    BY <1>1, <1>2, KtParts
  <2>2. q \notin T
    BY <2>1, Names DEF Sane
  <2> QED BY <1>2, <2>1, <2>2 DEF Sane
<1>6. j.running \notin j.ready
  BY <1>2 DEF Sane
<1> QED BY <1>2, <1>3, <1>4, <1>5, <1>6 DEF Sane

LEMMA SaneV ==
  ASSUME NEW k, NEW f, Sane(k, f), NEW s \in Sems, NEW j \in K!V_kt_sem(k, s)
  PROVE  Sane(j, f) /\ j.val = [k.val EXCEPT ![s] = @ + 1] /\ j.running = k.running
<1>1. /\ k.val \in [Sems -> Int] /\ k.asleep \in [Sems -> SUBSET Procs]
      /\ k.ready \subseteq Procs /\ k.running \in Procs \cup {NoThread}
      /\ k = [val |-> k.val, asleep |-> k.asleep, ready |-> k.ready, running |-> k.running]
  BY KtParts DEF Sane
<1>2. CASE k.asleep[s] = {}
  <2>1. j = [k EXCEPT !.val[s] = @ + 1]
    BY <1>2 DEF K!V_kt_sem
  <2>2. PICK T : T = {}
    OBVIOUS
  <2>3. j = Released(k, s, 1, T)
    BY <1>1, <2>1, <2>2 DEF Released
  <2>4. T \subseteq k.asleep[s] /\ Cardinality(T) < 1 /\ T = k.asleep[s]
    BY <1>2, <2>2, FS_EmptySet
  <2> QED BY <2>3, <2>4, SaneVs
<1>3. CASE k.asleep[s] # {}
  <2>1. PICK t \in k.asleep[s] : j = Released(k, s, 1, {t})
    BY <1>3 DEF K!V_kt_sem, Released
  <2>2. Cardinality({t}) = 1
    BY FS_Singleton
  <2> QED BY <2>1, <2>2, SaneVs
<1> QED BY <1>2, <1>3

-----------------------------------------------------------------------------
(* What a step does to the sums.                                           *)

To(f, p, l) == [f EXCEPT ![p] = l]

LEMMA LabelMoved ==
  ASSUME NEW f \in [Procs -> Labels], NEW p \in Procs, NEW l, NEW L, NEW g, g = To(f, p, l)
  PROVE  /\ Cardinality(AtLabels(f, L)) \in Nat
         /\ Cardinality(AtLabels(g, L)) = Cardinality(AtLabels(f, L))
              + (IF l \in L THEN 1 ELSE 0) - (IF f[p] \in L THEN 1 ELSE 0)
<1>1. IsFiniteSet(AtLabels(f, L)) /\ Cardinality(AtLabels(f, L)) \in Nat
  <2>1. AtLabels(f, L) \subseteq Procs
    BY DEF AtLabels
  <2> QED BY <2>1, KosPipeAssumption, FS_Subset, FS_CardinalityType
<1>2. \A q : q \in AtLabels(g, L) <=>
               q \in Procs /\ IF q = p THEN l \in L ELSE q \in AtLabels(f, L)
  BY DEF AtLabels, To
<1>3. p \in AtLabels(f, L) <=> f[p] \in L
  BY DEF AtLabels
<1>4. CASE l \in L /\ f[p] \notin L
  <2>1. AtLabels(g, L) = AtLabels(f, L) \cup {p}
    BY <1>2, <1>4 DEF AtLabels
  <2>2. Cardinality(AtLabels(g, L)) = Cardinality(AtLabels(f, L)) + 1
    BY <1>1, <1>3, <1>4, <2>1, FS_AddElement
  <2> QED BY <1>1, <1>4, <2>2
<1>5. CASE l \notin L /\ f[p] \in L
  <2>1. AtLabels(g, L) = AtLabels(f, L) \ {p}
    BY <1>2, <1>5 DEF AtLabels
  <2>2. Cardinality(AtLabels(g, L)) = Cardinality(AtLabels(f, L)) - 1
    BY <1>1, <1>3, <1>5, <2>1, FS_RemoveElement
  <2> QED BY <1>1, <1>5, <2>2
<1>6. CASE l \in L <=> f[p] \in L
  <2>1. AtLabels(g, L) = AtLabels(f, L)
    BY <1>2, <1>3, <1>6 DEF AtLabels
  <2> QED BY <1>1, <1>6, <2>1
<1> QED BY <1>4, <1>5, <1>6

LEMMA Moved ==
  ASSUME NEW f \in [Procs -> Labels], NEW p \in Procs, NEW l, NEW s \in Sems,
         NEW g, g = To(f, p, l)
  PROVE  /\ Cardinality(Using(f, s)) \in Nat
         /\ Cardinality(Using(g, s)) = Cardinality(Using(f, s))
              + (IF l \in UsedAt(s) THEN 1 ELSE 0) - (IF f[p] \in UsedAt(s) THEN 1 ELSE 0)
<1>1. PICK L : L = UsedAt(s)
  OBVIOUS
<1>2. /\ Cardinality(AtLabels(f, L)) \in Nat
      /\ Cardinality(AtLabels(g, L)) = Cardinality(AtLabels(f, L))
           + (IF l \in L THEN 1 ELSE 0) - (IF f[p] \in L THEN 1 ELSE 0)
  BY LabelMoved
<1> QED BY <1>1, <1>2 DEF Using

(* How the sum of s changes when the values come to v and a thread goes    *)
(* from one label to another.                                              *)
Change(v, from, to, s) ==
  v[s] - kt.val[s] + (IF to \in UsedAt(s) THEN 1 ELSE 0) - (IF from \in UsedAt(s) THEN 1 ELSE 0)

Balanced(v, from, to) ==
  /\ Change(v, from, to, "read") = 0
  /\ Change(v, from, to, "write") = 0
  /\ read_count # 0 =>
       Change(v, from, to, "space_available") + Change(v, from, to, "nelement") = 0

LEMMA KeepsLoads ==
  ASSUME PipeInv, NEW p \in Procs, NEW l, NEW g, g = To(pc, p, l),
         NEW v \in [Sems -> Int], Balanced(v, pc[p], l)
  PROVE  Loads(v, g, read_count)
<1>1. pc \in [Procs -> Labels] /\ kt.val \in [Sems -> Int] /\ Loads(kt.val, pc, read_count)
  BY KtParts DEF PipeInv, Sane
<1>2. ASSUME NEW s \in Sems
      PROVE  /\ Load(v, g, s) = Load(kt.val, pc, s) + Change(v, pc[p], l, s)
             /\ Load(kt.val, pc, s) \in Int /\ Change(v, pc[p], l, s) \in Int
  <2>1. /\ Cardinality(Using(pc, s)) \in Nat
        /\ Cardinality(Using(g, s)) = Cardinality(Using(pc, s))
             + (IF l \in UsedAt(s) THEN 1 ELSE 0) - (IF pc[p] \in UsedAt(s) THEN 1 ELSE 0)
    BY <1>1, Moved
  <2>2. v[s] \in Int /\ kt.val[s] \in Int
    BY <1>1
  <2> QED BY <2>1, <2>2 DEF Load, Change
<1>3. Size \in Int
  BY KosPipeAssumption
<1> QED BY <1>1, <1>2, <1>3, Names DEF Loads, Balanced

(* The thread that runs sleeps nowhere.                                    *)
LEMMA Awake ==
  ASSUME PipeInv, NEW p \in Procs, kt.running = p
  PROVE  /\ \A s \in Sems : p \notin kt.asleep[s]
         /\ pc \in [Procs -> Labels] /\ Sane(kt, pc) /\ kt.val \in [Sems -> Int]
BY KtParts DEF PipeInv, Sane

(* A step of a call: its thread goes to l.                                 *)
LEMMA CallStep ==
  ASSUME PipeInv, NEW p \in Procs, NEW l \in Labels, Goto(p, l),
         UNCHANGED <<born, open, read_count, write_count, freed>>,
         Sane(kt', pc'), Balanced(kt'.val, pc[p], l),
         l \in UsedAt("read") => "r" \in open[p],
         l \in UsedAt("write") => "w" \in open[p]
  PROVE  PipeInv'
<1>1. pc' = [pc EXCEPT ![p] = l] /\ pc' \in [Procs -> Labels]
  BY DEF Goto, PipeInv
<1>2. Loads(kt'.val, pc', read_count')
  <2>1. PICK v \in [Sems -> Int] : v = kt'.val
    BY KtParts DEF Sane
  <2> QED BY <1>1, <2>1, KeepsLoads DEF To
<1>3. Opened'
  BY DEF PipeInv, Opened
<1>4. Entered'
  BY <1>1 DEF PipeInv, Entered
<1> QED BY <1>1, <1>2, <1>3, <1>4 DEF PipeInv

(* P, V, and V at the end of a call.                                       *)
LEMMA Sleeps ==
  ASSUME PipeInv, NEW p \in Procs, kt.running = p, NEW s \in Sems, Sleep(p, s, WaitsAt(s))
  PROVE  Sane(kt', pc') /\ kt'.val = [kt.val EXCEPT ![s] = @ - 1]
<1>1. kt' = K!P_kt_sem(kt, s) /\ pc' = [pc EXCEPT ![p] = WaitsAt(s)]
  BY DEF Sleep, Goto
<1>2. PICK g, j : g = pc' /\ j = kt'
  OBVIOUS
<1>3. Sane(kt, g) /\ g[p] = WaitsAt(s)
  BY <1>1, <1>2, Awake, SaneMove
<1>4. j = K!P_kt_sem(kt, s) /\ Sane(kt, pc)
  BY <1>1, <1>2, Awake
<1>5. Sane(j, g) /\ j.val = [kt.val EXCEPT ![s] = @ - 1]
  BY <1>3, <1>4, SaneP
<1> QED BY <1>2, <1>5

LEMMA Releases ==
  ASSUME PipeInv, NEW p \in Procs, kt.running = p, NEW s \in Sems, NEW l, Goto(p, l),
         kt' \in K!V_kt_sem(kt, s)
  PROVE  Sane(kt', pc') /\ kt'.val = [kt.val EXCEPT ![s] = @ + 1]
<1>1. PICK g, j : g = pc' /\ j = kt'
  OBVIOUS
<1>2. Sane(kt, g)
  BY <1>1, Awake, SaneMove DEF Goto
<1> QED BY <1>1, <1>2, SaneV

LEMMA Returns ==
  ASSUME PipeInv, NEW p \in Procs, kt.running = p, NEW s \in Sems, Return(p, s)
  PROVE  Sane(kt', pc') /\ kt'.val = [kt.val EXCEPT ![s] = @ + 1] /\ Goto(p, "user")
<1>1. PICK k \in K!V_kt_sem(kt, s) : kt' = K!kt_exit(k)
  BY DEF Return
<1>2. Goto(p, "user")
  BY DEF Return, syscall_return
<1>3. PICK g, j : g = pc' /\ j = kt'
  OBVIOUS
<1>4. Sane(kt, g)
  BY <1>2, <1>3, Awake, SaneMove DEF Goto
<1>5. Sane(k, g) /\ k.val = [kt.val EXCEPT ![s] = @ + 1]
  BY <1>4, SaneV
<1> QED BY <1>1, <1>2, <1>3, <1>5, SaneExit

LEMMA Refuses ==
  ASSUME PipeInv, NEW p \in Procs, kt.running = p, NEW l, Goto(p, l), kt' = K!kt_exit(kt)
  PROVE  Sane(kt', pc') /\ kt'.val = kt.val
<1>1. PICK g, j : g = pc' /\ j = kt'
  OBVIOUS
<1>2. Sane(kt, g)
  BY <1>1, Awake, SaneMove DEF Goto
<1> QED BY <1>1, <1>2, SaneExit

-----------------------------------------------------------------------------
(* do_write and do_read, from one call of P to the next.                   *)
LEMMA WriteStep ==
  ASSUME PipeInv, NEW p \in Procs,
         \/ do_write_refuse(p) \/ do_write(p) \/ write_start(p) \/ write_put(p)
         \/ write_ack(p) \/ write_epipe(p) \/ write_done(p)
  PROVE  PipeInv'
<1> USE Names DEF Labels
<1>1. /\ kt.running = p /\ Sane(kt, pc) /\ kt.val \in [Sems -> Int]
      /\ \A s \in Sems : p \notin kt.asleep[s]
      /\ UNCHANGED <<born, open, read_count, write_count, freed>>
      /\ pc[p] \in UsedAt("write") => "w" \in open[p]
  BY Awake DEF do_write_refuse, do_write, write_start, write_put, write_ack, write_epipe,
               write_done, At, ends, counts, PipeInv, Entered
<1>2. CASE do_write_refuse(p)
  <2>1. pc[p] = "do_write" /\ Goto(p, "user") /\ kt' = K!kt_exit(kt)
    BY <1>2 DEF do_write_refuse, At, Refuse, syscall_return
  <2>2. Sane(kt', pc') /\ kt'.val = kt.val
    BY <1>1, <2>1, Refuses
  <2>3. Balanced(kt'.val, pc[p], "user")
    <3>1. /\ \A s \in Sems : kt'.val[s] = kt.val[s]
          /\ \A s \in Sems : kt.val[s] \in Int
      BY <1>1, <2>1, <2>2
    <3>2. \A s \in Sems : Change(kt'.val, "do_write", "user", s) = kt'.val[s] - kt.val[s]
            + (IF "user" \in UsedAt(s) THEN 1 ELSE 0) - (IF "do_write" \in UsedAt(s) THEN 1 ELSE 0)
      BY DEF Change
    <3> QED BY <2>1, <3>1, <3>2 DEF Balanced
  <2> QED BY <1>1, <2>1, <2>2, <2>3, CallStep
<1>3. CASE do_write(p)
  <2>1. pc[p] = "do_write" /\ Sleep(p, "write", "wstart") /\ "w" \in open[p]
    BY <1>3 DEF do_write, At
  <2>2. Sane(kt', pc') /\ kt'.val = [kt.val EXCEPT !["write"] = @ - 1]
    BY <1>1, <2>1, Sleeps DEF WaitsAt
  <2>3. Balanced(kt'.val, pc[p], "wstart")
    BY <1>1, <2>1, <2>2 DEF Balanced, Change
  <2> QED BY <1>1, <2>1, <2>2, <2>3, CallStep DEF Sleep
<1>4. CASE write_start(p)
  <2>1. pc[p] = "wstart" /\ Goto(p, "put") /\ kt' = kt
    BY <1>4 DEF write_start, At
  <2>2. Sane(kt', pc')
    BY <1>1, <2>1, SaneMove DEF Goto, PipeInv
  <2>3. Balanced(kt'.val, pc[p], "put")
    BY <1>1, <2>1 DEF Balanced, Change
  <2> QED BY <1>1, <2>1, <2>2, <2>3, CallStep
<1>5. CASE write_put(p)
  <2>1. pc[p] = "put" /\ Sleep(p, "space_available", "ack")
    BY <1>5 DEF write_put, At
  <2>2. Sane(kt', pc') /\ kt'.val = [kt.val EXCEPT !["space_available"] = @ - 1]
    BY <1>1, <2>1, Sleeps DEF WaitsAt
  <2>3. Balanced(kt'.val, pc[p], "ack")
    BY <1>1, <2>1, <2>2 DEF Balanced, Change
  <2> QED BY <1>1, <2>1, <2>2, <2>3, CallStep DEF Sleep
<1>6. CASE write_ack(p)
  <2>1. pc[p] = "ack" /\ Goto(p, "put") /\ kt' \in K!V_kt_sem(kt, "nelement")
    BY <1>6 DEF write_ack, At
  <2>2. Sane(kt', pc') /\ kt'.val = [kt.val EXCEPT !["nelement"] = @ + 1]
    BY <1>1, <2>1, Releases
  <2>3. Balanced(kt'.val, pc[p], "put")
    <3>1. /\ kt'.val["read"] = kt.val["read"] /\ kt'.val["write"] = kt.val["write"]
          /\ kt'.val["nelement"] = kt.val["nelement"] + 1
          /\ kt'.val["space_available"] = kt.val["space_available"]
          /\ \A s \in Sems : kt.val[s] \in Int
      BY <1>1, <2>1, <2>2
    <3>2. \A s \in Sems : Change(kt'.val, "ack", "put", s) = kt'.val[s] - kt.val[s]
            + (IF "put" \in UsedAt(s) THEN 1 ELSE 0) - (IF "ack" \in UsedAt(s) THEN 1 ELSE 0)
      BY DEF Change
    <3> QED BY <2>1, <3>1, <3>2 DEF Balanced
  <2> QED BY <1>1, <2>1, <2>2, <2>3, CallStep
<1>7. CASE write_epipe(p)
  <2>1. pc[p] = "ack" /\ Return(p, "write") /\ read_count = 0
    BY <1>7 DEF write_epipe, At
  <2>2. Sane(kt', pc') /\ kt'.val = [kt.val EXCEPT !["write"] = @ + 1] /\ Goto(p, "user")
    BY <1>1, <2>1, Returns
  <2>3. Balanced(kt'.val, pc[p], "user")
    BY <1>1, <2>1, <2>2 DEF Balanced, Change
  <2> QED BY <1>1, <2>1, <2>2, <2>3, CallStep
<1>8. CASE write_done(p)
  <2>1. pc[p] = "put" /\ Return(p, "write")
    BY <1>8 DEF write_done, At
  <2>2. Sane(kt', pc') /\ kt'.val = [kt.val EXCEPT !["write"] = @ + 1] /\ Goto(p, "user")
    BY <1>1, <2>1, Returns
  <2>3. Balanced(kt'.val, pc[p], "user")
    BY <1>1, <2>1, <2>2 DEF Balanced, Change
  <2> QED BY <1>1, <2>1, <2>2, <2>3, CallStep
<1> QED BY <1>2, <1>3, <1>4, <1>5, <1>6, <1>7, <1>8

LEMMA ReadStep ==
  ASSUME PipeInv, NEW p \in Procs,
         \/ do_read_refuse(p) \/ do_read(p) \/ read_start(p) \/ read_no_writers(p)
         \/ read_taken_all(p) \/ read_next(p) \/ read_eof(p) \/ read_byte(p) \/ read_done(p)
  PROVE  PipeInv'
<1> USE Names DEF Labels
<1>1. /\ kt.running = p /\ Sane(kt, pc) /\ kt.val \in [Sems -> Int]
      /\ \A s \in Sems : p \notin kt.asleep[s]
      /\ UNCHANGED <<born, open, read_count, write_count, freed>>
      /\ pc[p] \in UsedAt("read") => "r" \in open[p]
  BY Awake DEF do_read_refuse, do_read, read_start, read_no_writers, read_taken_all, read_next,
               read_eof, read_byte, read_done, At, ends, counts, PipeInv, Entered
<1>2. CASE do_read_refuse(p)
  <2>1. pc[p] = "do_read" /\ Goto(p, "user") /\ kt' = K!kt_exit(kt)
    BY <1>2 DEF do_read_refuse, At, Refuse, syscall_return
  <2>2. Sane(kt', pc') /\ kt'.val = kt.val
    BY <1>1, <2>1, Refuses
  <2>3. Balanced(kt'.val, pc[p], "user")
    BY <1>1, <2>1, <2>2 DEF Balanced, Change
  <2> QED BY <1>1, <2>1, <2>2, <2>3, CallStep
<1>3. CASE do_read(p)
  <2>1. pc[p] = "do_read" /\ Sleep(p, "read", "rstart") /\ "r" \in open[p]
    BY <1>3 DEF do_read, At
  <2>2. Sane(kt', pc') /\ kt'.val = [kt.val EXCEPT !["read"] = @ - 1]
    BY <1>1, <2>1, Sleeps DEF WaitsAt
  <2>3. Balanced(kt'.val, pc[p], "rstart")
    BY <1>1, <2>1, <2>2 DEF Balanced, Change
  <2> QED BY <1>1, <2>1, <2>2, <2>3, CallStep DEF Sleep
<1>4. CASE read_start(p)
  <2>1. pc[p] = "rstart" /\ Goto(p, "test") /\ kt' = kt
    BY <1>4 DEF read_start, At
  <2>2. Sane(kt', pc')
    BY <1>1, <2>1, SaneMove DEF Goto, PipeInv
  <2>3. Balanced(kt'.val, pc[p], "test")
    BY <1>1, <2>1 DEF Balanced, Change
  <2> QED BY <1>1, <2>1, <2>2, <2>3, CallStep
<1>5. CASE read_no_writers(p) \/ read_taken_all(p) \/ read_done(p)
  <2>1. pc[p] = "test" /\ Return(p, "read")
    BY <1>5 DEF read_no_writers, read_taken_all, read_done, At
  <2>2. Sane(kt', pc') /\ kt'.val = [kt.val EXCEPT !["read"] = @ + 1] /\ Goto(p, "user")
    BY <1>1, <2>1, Returns
  <2>3. Balanced(kt'.val, pc[p], "user")
    BY <1>1, <2>1, <2>2 DEF Balanced, Change
  <2> QED BY <1>1, <2>1, <2>2, <2>3, CallStep
<1>6. CASE read_next(p)
  <2>1. pc[p] = "test" /\ Sleep(p, "nelement", "take")
    BY <1>6 DEF read_next, At
  <2>2. Sane(kt', pc') /\ kt'.val = [kt.val EXCEPT !["nelement"] = @ - 1]
    BY <1>1, <2>1, Sleeps DEF WaitsAt
  <2>3. Balanced(kt'.val, pc[p], "take")
    BY <1>1, <2>1, <2>2 DEF Balanced, Change
  <2> QED BY <1>1, <2>1, <2>2, <2>3, CallStep DEF Sleep
<1>7. CASE read_eof(p)
  <2>1. pc[p] = "take" /\ Goto(p, "user")
    BY <1>7 DEF read_eof, At, syscall_return
  <2>2. PICK k \in K!V_kt_sem(kt, "space_available") :
          \E j \in K!V_kt_sem(k, "read") : kt' = K!kt_exit(j)
    BY <1>7 DEF read_eof
  <2>3. PICK j \in K!V_kt_sem(k, "read") : kt' = K!kt_exit(j)
    BY <2>2
  <2>4. PICK g, i : g = pc' /\ i = kt'
    OBVIOUS
  <2>5. Sane(kt, g)
    BY <1>1, <2>1, <2>4, SaneMove DEF Goto, PipeInv
  <2>6. Sane(k, g) /\ k.val = [kt.val EXCEPT !["space_available"] = @ + 1]
    BY <2>5, SaneV
  <2>7. Sane(j, g) /\ j.val = [k.val EXCEPT !["read"] = @ + 1]
    BY <2>6, SaneV
  <2>8. Sane(kt', pc') /\ kt'.val = j.val
    BY <2>3, <2>4, <2>7, SaneExit
  <2>9. Balanced(kt'.val, pc[p], "user")
    BY <1>1, <2>1, <2>6, <2>7, <2>8 DEF Balanced, Change
  <2> QED BY <1>1, <2>1, <2>8, <2>9, CallStep
<1>8. CASE read_byte(p)
  <2>1. pc[p] = "take" /\ Goto(p, "test") /\ kt' \in K!V_kt_sem(kt, "space_available")
    BY <1>8 DEF read_byte, At
  <2>2. Sane(kt', pc') /\ kt'.val = [kt.val EXCEPT !["space_available"] = @ + 1]
    BY <1>1, <2>1, Releases
  <2>3. Balanced(kt'.val, pc[p], "test")
    <3>1. /\ kt'.val["read"] = kt.val["read"] /\ kt'.val["write"] = kt.val["write"]
          /\ kt'.val["nelement"] = kt.val["nelement"]
          /\ kt'.val["space_available"] = kt.val["space_available"] + 1
          /\ \A s \in Sems : kt.val[s] \in Int
      BY <1>1, <2>1, <2>2
    <3>2. \A s \in Sems : Change(kt'.val, "take", "test", s) = kt'.val[s] - kt.val[s]
            + (IF "test" \in UsedAt(s) THEN 1 ELSE 0) - (IF "take" \in UsedAt(s) THEN 1 ELSE 0)
      BY DEF Change
    <3> QED BY <2>1, <3>1, <3>2 DEF Balanced
  <2> QED BY <1>1, <2>1, <2>2, <2>3, CallStep
<1> QED BY <1>2, <1>3, <1>4, <1>5, <1>6, <1>7, <1>8

LEMMA DispatchStep ==
  ASSUME PipeInv, NEW p \in Procs, Dispatch(p)
  PROVE  PipeInv'
<1>1. /\ K!MayRun(kt, p) /\ kt' = K!Dispatched(kt, p)
      /\ UNCHANGED <<pc, born, open, read_count, write_count, freed>>
  BY DEF Dispatch, ends, counts
<1>2. PICK j : j = kt'
  OBVIOUS
<1>3. Sane(j, pc) /\ j.val = kt.val
  BY <1>1, <1>2, SaneDispatch DEF PipeInv
<1> QED BY <1>1, <1>2, <1>3 DEF PipeInv, Opened, Entered

(* read and write are called.                                              *)
LEMMA SyscallStep ==
  ASSUME PipeInv, NEW p \in Procs, SyscallRead(p) \/ SyscallWrite(p)
  PROVE  PipeInv'
<1> USE Names DEF Labels
<1>1. PICK l \in {"do_read", "do_write"} :
        /\ pc[p] = "user" /\ K!AllAsleep(kt) /\ kt' = K!kt_fork(kt, p) /\ Goto(p, l)
        /\ UNCHANGED <<born, open, read_count, write_count, freed>>
  BY DEF SyscallRead, SyscallWrite, InUser, ends, counts
<1>2. Sane(kt, pc) /\ pc \in [Procs -> Labels] /\ kt.val \in [Sems -> Int]
  BY KtParts DEF PipeInv, Sane
<1>3. \A s \in Sems : p \notin kt.asleep[s]
  BY <1>1, <1>2 DEF Sane, WaitsAt
<1>4. PICK g, j : g = pc' /\ j = kt'
  OBVIOUS
<1>5. Sane(kt, g)
  BY <1>1, <1>2, <1>3, <1>4, SaneMove DEF Goto
<1>6. Sane(j, g) /\ j.val = kt.val
  BY <1>1, <1>3, <1>4, <1>5, SaneFork
<1>7. Balanced(kt'.val, pc[p], l)
  <2>1. \A s \in Sems : kt'.val[s] = kt.val[s] /\ kt.val[s] \in Int
    BY <1>2, <1>4, <1>6
  <2>2. \A s \in Sems : Change(kt'.val, "user", l, s) = kt'.val[s] - kt.val[s]
          + (IF l \in UsedAt(s) THEN 1 ELSE 0) - (IF "user" \in UsedAt(s) THEN 1 ELSE 0)
    BY DEF Change
  <2> QED BY <1>1, <2>1, <2>2 DEF Balanced
<1> QED BY <1>1, <1>4, <1>6, <1>7, CallStep

-----------------------------------------------------------------------------
(* fork, close and exit: what they do to the counts.                       *)

LEMMA HavingFinite ==
  ASSUME NEW o, NEW e
  PROVE  /\ IsFiniteSet(Having(o, e)) /\ Cardinality(Having(o, e)) \in Nat
         /\ Cardinality(Having(o, e)) = 0 <=> Having(o, e) = {}
<1>1. IsFiniteSet(Having(o, e))
  BY KosPipeAssumption, FS_Subset DEF Having
<1> QED BY <1>1, FS_CardinalityType, FS_EmptySet

(* One process gets or loses an end.                                       *)
LEMMA HavingMoved ==
  ASSUME NEW o \in [Procs -> SUBSET Ends], NEW p \in Procs, NEW S \in SUBSET Ends, NEW e,
         NEW u, u = To(o, p, S)
  PROVE  Cardinality(Having(u, e)) = Cardinality(Having(o, e)) + One(e \in S) - One(e \in o[p])
<1>1. \A q : q \in Having(u, e) <=>
               q \in Procs /\ IF q = p THEN e \in S ELSE q \in Having(o, e)
  BY DEF Having, To
<1>2. p \in Having(o, e) <=> e \in o[p]
  BY DEF Having
<1>3. IsFiniteSet(Having(o, e)) /\ Cardinality(Having(o, e)) \in Nat
  BY HavingFinite
<1>4. CASE e \in S /\ e \notin o[p]
  <2>1. Having(u, e) = Having(o, e) \cup {p}
    BY <1>1, <1>4 DEF Having
  <2>2. Cardinality(Having(u, e)) = Cardinality(Having(o, e)) + 1
    BY <1>2, <1>3, <1>4, <2>1, FS_AddElement
  <2> QED BY <1>3, <1>4, <2>2 DEF One
<1>5. CASE e \notin S /\ e \in o[p]
  <2>1. Having(u, e) = Having(o, e) \ {p}
    BY <1>1, <1>5 DEF Having
  <2>2. Cardinality(Having(u, e)) = Cardinality(Having(o, e)) - 1
    <3>1. p \in Having(o, e)
      BY <1>2, <1>5
    <3>2. Cardinality(Having(o, e) \ {p}) = Cardinality(Having(o, e)) - 1
      BY <1>3, <3>1, FS_RemoveElement
    <3> QED BY <2>1, <3>2
  <2> QED BY <1>3, <1>5, <2>2 DEF One
<1>6. CASE e \in S <=> e \in o[p]
  <2>1. Having(u, e) = Having(o, e)
    BY <1>1, <1>2, <1>6 DEF Having
  <2> QED BY <1>3, <1>6, <2>1 DEF One
<1> QED BY <1>4, <1>5, <1>6

(* Both counts are 0 when nobody has an end.                               *)
LEMMA UnusedMeans ==
  ASSUME NEW o \in [Procs -> SUBSET Ends]
  PROVE  Unused(Cardinality(Having(o, "r")), Cardinality(Having(o, "w")))
           <=> \A p \in Procs : o[p] = {}
<1>1. Unused(Cardinality(Having(o, "r")), Cardinality(Having(o, "w")))
        <=> Having(o, "r") = {} /\ Having(o, "w") = {}
  BY HavingFinite DEF Unused
<1>2. \A p \in Procs : o[p] = {} <=> "r" \notin o[p] /\ "w" \notin o[p]
  BY DEF Ends
<1> QED BY <1>1, <1>2 DEF Having

(* A process gives up the ends that are not in S.                          *)
LEMMA CloseStep ==
  ASSUME PipeInv, NEW p \in Procs, NEW S, S \subseteq open[p],
         open' = To(open, p, S), born' = born,
         read_count' = read_count + One("r" \in S) - One("r" \in open[p]),
         write_count' = write_count + One("w" \in S) - One("w" \in open[p]),
         freed' = (freed \/ Unused(read_count', write_count'))
  PROVE  Opened'
<1>1. Opened /\ open \in [Procs -> SUBSET Ends] /\ S \in SUBSET Ends
  BY DEF PipeInv, Opened
<1>2. PICK u : u = open'
  OBVIOUS
<1>3. u \in [Procs -> SUBSET Ends] /\ \A q \in Procs : u[q] = IF q = p THEN S ELSE open[q]
  BY <1>1, <1>2 DEF To
<1>4. \A e : Cardinality(Having(u, e))
               = Cardinality(Having(open, e)) + One(e \in S) - One(e \in open[p])
  BY <1>1, <1>2, HavingMoved
<1>5. /\ read_count' = Cardinality(Having(u, "r"))
      /\ write_count' = Cardinality(Having(u, "w"))
  BY <1>1, <1>4 DEF Opened
<1>6. freed' \in BOOLEAN /\ (freed' <=> \A q \in Procs : u[q] = {})
  <2>1. Unused(read_count', write_count') <=> \A q \in Procs : u[q] = {}
    BY <1>3, <1>5, UnusedMeans
  <2>2. freed => \A q \in Procs : u[q] = {}
    BY <1>1, <1>3 DEF Opened
  <2>3. freed \in BOOLEAN /\ Unused(read_count', write_count') \in BOOLEAN
    BY <1>1 DEF Opened, Unused
  <2> QED BY <2>1, <2>2, <2>3
<1>7. \A q \in Procs \ born : u[q] = {}
  BY <1>1, <1>3 DEF Opened
<1> QED BY <1>1, <1>2, <1>3, <1>5, <1>6, <1>7 DEF Opened

(* Whoever is in user mode is in no call.                                  *)
LEMMA UserEntered ==
  ASSUME PipeInv, NEW p \in Procs, pc[p] = "user",
         \A q \in Procs \ {p} : pc'[q] = pc[q] /\ open'[q] = open[q],
         pc'[p] \in {"user", "exited"}
  PROVE  Entered'
<1>1. "user" \notin UsedAt("read") /\ "user" \notin UsedAt("write")
      /\ "exited" \notin UsedAt("read") /\ "exited" \notin UsedAt("write")
  BY Names
<1> QED BY <1>1 DEF PipeInv, Entered

LEMMA CloseReadStep ==
  ASSUME PipeInv, NEW p \in Procs, do_close_read(p)
  PROVE  PipeInv'
<1>1. /\ pc[p] = "user" /\ "r" \in open[p]
      /\ open' = [open EXCEPT ![p] = @ \ {"r"}] /\ read_count' = read_count - 1
      /\ kt' \in (IF read_count = 1 THEN ReadersGone ELSE {kt})
      /\ freed' = (freed \/ Unused(read_count', write_count'))
      /\ UNCHANGED <<pc, born, write_count>>
  BY DEF do_close_read, InUser
<1>2. pc \in [Procs -> Labels] /\ Sane(kt, pc) /\ Loads(kt.val, pc, read_count) /\ Opened
  BY DEF PipeInv
<1>3. read_count \in Nat /\ write_count \in Nat
  BY <1>2, HavingFinite DEF Opened
<1>4. Opened'
  <2>1. PICK S : S = open[p] \ {"r"}
    OBVIOUS
  <2>2. /\ read_count' = read_count + One("r" \in S) - One("r" \in open[p])
        /\ write_count' = write_count + One("w" \in S) - One("w" \in open[p])
    <3>1. "r" \notin S /\ ("w" \in S <=> "w" \in open[p])
      BY <2>1
    <3> QED BY <1>1, <1>3, <3>1 DEF One
  <2>3. open' = To(open, p, S) /\ S \subseteq open[p]
    BY <1>1, <1>2, <2>1 DEF Opened, To
  <2> QED BY <1>1, <2>1, <2>2, <2>3, CloseStep
<1>5. Sane(kt', pc') /\ Loads(kt'.val, pc', read_count')
  <2>1. CASE read_count # 1
    <3>1. read_count # 0
      BY <1>1, <1>2, HavingFinite DEF Opened, Having
    <3> QED BY <1>1, <1>2, <2>1, <3>1 DEF Loads
  <2>2. CASE read_count = 1
    <3>1. PICK T : /\ T \subseteq kt.asleep["space_available"]
                   /\ \/ Cardinality(T) = write_count
                      \/ Cardinality(T) < write_count /\ T = kt.asleep["space_available"]
                   /\ kt' = Released(kt, "space_available", write_count, T)
      <4>1. kt' \in K!V_kt_sems(kt, "space_available", write_count)
        BY <1>1, <2>2 DEF ReadersGone
      <4>2. PICK T \in SUBSET kt.asleep["space_available"] :
              /\ \/ K!Cardinality(T) = write_count
                 \/ K!Cardinality(T) < write_count /\ T = kt.asleep["space_available"]
              /\ kt' = [kt EXCEPT !.val["space_available"] = @ + write_count,
                                  !.asleep["space_available"] = @ \ T, !.ready = @ \cup T]
        BY <4>1 DEF K!V_kt_sems
      <4>3. K!Cardinality(T) = Cardinality(T)
        BY DEF K!Cardinality, Cardinality
      <4>4. kt' = Released(kt, "space_available", write_count, T)
        BY <4>2 DEF Released
      <4> QED BY <4>2, <4>3, <4>4
    <3>2. T \subseteq Procs /\ kt.val \in [Sems -> Int]
      BY <1>2, <3>1, KtParts, Names DEF Sane
    <3>4. PICK j : j = kt'
      OBVIOUS
    <3>5. Sane(j, pc) /\ j.val = [kt.val EXCEPT !["space_available"] = @ + write_count]
      BY <1>2, <1>3, <3>1, <3>4, Names, SaneVs
    <3>6. j.val["read"] = kt.val["read"] /\ j.val["write"] = kt.val["write"]
      BY <3>2, <3>5, Names
    <3>7. Loads(j.val, pc, 0)
      BY <1>2, <3>6 DEF Loads, Load
    <3> QED BY <1>1, <2>2, <3>4, <3>5, <3>7
  <2> QED BY <2>1, <2>2
<1>6. Entered'
  <2>1. \A q \in Procs \ {p} : open'[q] = open[q]
    BY <1>1, <1>2 DEF Opened
  <2> QED BY <1>1, <2>1, UserEntered
<1> QED BY <1>1, <1>2, <1>4, <1>5, <1>6 DEF PipeInv

LEMMA CloseWriteStep ==
  ASSUME PipeInv, NEW p \in Procs, do_close_write(p)
  PROVE  PipeInv'
<1>1. /\ pc[p] = "user" /\ "w" \in open[p]
      /\ open' = [open EXCEPT ![p] = @ \ {"w"}] /\ write_count' = write_count - 1
      /\ freed' = (freed \/ Unused(read_count', write_count'))
      /\ UNCHANGED <<kt, pc, born, read_count>>
  BY DEF do_close_write, InUser
<1>2. pc \in [Procs -> Labels] /\ Sane(kt, pc) /\ Loads(kt.val, pc, read_count) /\ Opened
  BY DEF PipeInv
<1>3. read_count \in Nat /\ write_count \in Nat
  BY <1>2, HavingFinite DEF Opened
<1>4. Opened'
  <2>1. PICK S : S = open[p] \ {"w"}
    OBVIOUS
  <2>2. /\ read_count' = read_count + One("r" \in S) - One("r" \in open[p])
        /\ write_count' = write_count + One("w" \in S) - One("w" \in open[p])
    <3>1. "w" \notin S /\ ("r" \in S <=> "r" \in open[p])
      BY <2>1
    <3> QED BY <1>1, <1>3, <3>1 DEF One
  <2>3. open' = To(open, p, S) /\ S \subseteq open[p]
    BY <1>1, <1>2, <2>1 DEF Opened, To
  <2> QED BY <1>1, <2>1, <2>2, <2>3, CloseStep
<1>5. Entered'
  <2>1. \A q \in Procs \ {p} : open'[q] = open[q]
    BY <1>1, <1>2 DEF Opened
  <2> QED BY <1>1, <2>1, UserEntered
<1> QED BY <1>1, <1>2, <1>4, <1>5 DEF PipeInv

LEMMA ExitStep ==
  ASSUME PipeInv, NEW p \in Procs, do_exit(p)
  PROVE  PipeInv'
<1> USE Names DEF Labels
<1>1. /\ pc[p] = "user" /\ Goto(p, "exited") /\ open' = [open EXCEPT ![p] = {}]
      /\ read_count' = read_count - One("r" \in open[p])
      /\ write_count' = write_count - One("w" \in open[p])
      /\ freed' = (freed \/ Unused(read_count', write_count'))
      /\ UNCHANGED <<kt, born>>
  BY DEF do_exit, InUser
<1>2. pc \in [Procs -> Labels] /\ Sane(kt, pc) /\ Loads(kt.val, pc, read_count) /\ Opened
  BY DEF PipeInv
<1>3. read_count \in Nat /\ write_count \in Nat /\ kt.val \in [Sems -> Int]
  BY <1>2, HavingFinite, KtParts DEF Opened, Sane
<1>4. Opened'
  <2>1. PICK S : S = {}
    OBVIOUS
  <2>2. /\ read_count' = read_count + One("r" \in S) - One("r" \in open[p])
        /\ write_count' = write_count + One("w" \in S) - One("w" \in open[p])
    <3>1. "w" \notin S /\ "r" \notin S
      BY <2>1
    <3> QED BY <1>1, <1>3, <3>1 DEF One
  <2>3. open' = To(open, p, S) /\ S \subseteq open[p]
    BY <1>1, <2>1 DEF To
  <2> QED BY <1>1, <2>1, <2>2, <2>3, CloseStep
<1>5. Sane(kt', pc')
  <2>1. \A s \in Sems : p \notin kt.asleep[s]
    BY <1>1, <1>2 DEF Sane, WaitsAt
  <2> QED BY <1>1, <1>2, <2>1, SaneMove DEF Goto
<1>6. Loads(kt'.val, pc', read_count')
  <2>1. PICK g, v : g = pc' /\ v = kt.val
    OBVIOUS
  <2>2. Balanced(v, pc[p], "exited")
    <3>1. \A s \in Sems : Change(v, "user", "exited", s) = v[s] - kt.val[s]
            + (IF "exited" \in UsedAt(s) THEN 1 ELSE 0) - (IF "user" \in UsedAt(s) THEN 1 ELSE 0)
      BY DEF Change
    <3>2. \A s \in Sems : v[s] \in Int /\ v[s] = kt.val[s]
      BY <1>3, <2>1
    <3> QED BY <1>1, <3>1, <3>2 DEF Balanced
  <2>3. Loads(v, g, read_count)
    <3>1. g = To(pc, p, "exited") /\ v \in [Sems -> Int]
      BY <1>1, <1>3, <2>1 DEF Goto, To
    <3> QED BY <2>2, <3>1, KeepsLoads
  <2>4. read_count' # 0 => read_count # 0
    <3>1. read_count = 0 => "r" \notin open[p]
      BY <1>2, HavingFinite DEF Opened, Having
    <3> QED BY <1>1, <1>3, <3>1 DEF One
  <2> QED BY <1>1, <2>1, <2>3, <2>4 DEF Loads
<1>7. pc' \in [Procs -> Labels]
  BY <1>1, <1>2 DEF Goto
<1>8. Entered'
  <2>1. \A q \in Procs \ {p} : open'[q] = open[q] /\ pc'[q] = pc[q]
    BY <1>1, <1>2 DEF Opened, Goto
  <2>2. pc'[p] = "exited"
    BY <1>1, <1>2 DEF Goto
  <2> QED BY <1>1, <2>1, <2>2, UserEntered
<1> QED BY <1>4, <1>5, <1>6, <1>7, <1>8 DEF PipeInv

(* The child has no descriptors before, and its parent's afterwards; after *)
(* the last reader there is none to copy.                                  *)
LEMMA ForkStep ==
  ASSUME PipeInv, NEW p \in Procs, NEW c \in Procs, do_fork(p, c)
  PROVE  PipeInv'
<1>1. /\ p \in born /\ c \notin born /\ born' = born \cup {c}
      /\ open' = [open EXCEPT ![c] = open[p]]
      /\ read_count' = read_count + One("r" \in open[p])
      /\ write_count' = write_count + One("w" \in open[p])
      /\ UNCHANGED <<kt, pc, freed>>
  BY DEF do_fork, InUser
<1>2. /\ pc \in [Procs -> Labels] /\ Sane(kt, pc) /\ Loads(kt.val, pc, read_count) /\ Opened
      /\ Entered /\ open \in [Procs -> SUBSET Ends] /\ open[c] = {} /\ open[p] \in SUBSET Ends
  BY <1>1 DEF PipeInv, Opened
<1>3. read_count \in Nat /\ write_count \in Nat
  BY <1>2, HavingFinite DEF Opened
<1>4. PICK u : u = open'
  OBVIOUS
<1>5. u \in [Procs -> SUBSET Ends] /\ \A q \in Procs : u[q] = IF q = c THEN open[p] ELSE open[q]
  BY <1>1, <1>2, <1>4
<1>6. \A e : Cardinality(Having(u, e)) = Cardinality(Having(open, e)) + One(e \in open[p])
  <2> TAKE e
  <2>0. PICK S \in SUBSET Ends : S = open[p]
    BY <1>2
  <2>1. u = To(open, c, S)
    BY <1>1, <1>4, <2>0 DEF To
  <2>2. Cardinality(Having(u, e)) = Cardinality(Having(open, e)) + One(e \in S) - One(e \in open[c])
    BY <1>2, <2>1, HavingMoved
  <2>3. One(e \in open[c]) = 0 /\ One(e \in open[p]) \in Nat
    BY <1>2 DEF One
  <2> QED BY <2>0, <2>2, <2>3, HavingFinite
<1>7. Opened'
  <2>1. freed <=> \A q \in Procs : u[q] = {}
    BY <1>2, <1>5 DEF Opened
  <2>2. \A q \in Procs \ born' : u[q] = {}
    BY <1>1, <1>2, <1>5 DEF Opened
  <2> QED BY <1>1, <1>2, <1>4, <1>5, <1>6, <2>1, <2>2 DEF Opened
<1>8. Loads(kt'.val, pc', read_count')
  <2>1. read_count' # 0 => read_count # 0
    <3>1. read_count = 0 => "r" \notin open[p]
      BY <1>2, HavingFinite DEF Opened, Having
    <3> QED BY <1>1, <1>3, <3>1 DEF One
  <2> QED BY <1>1, <1>2, <2>1 DEF Loads
<1>9. Entered'
  BY <1>1, <1>2, <1>4, <1>5 DEF Entered
<1> QED BY <1>1, <1>2, <1>7, <1>8, <1>9 DEF PipeInv

-----------------------------------------------------------------------------
LEMMA InitPipe == Init => PipeInv
<1> SUFFICES ASSUME Init PROVE PipeInv
  OBVIOUS
<1> USE Names DEF Labels
<1>1. /\ kt = K!make_kt_sems(SemValues, {}) /\ pc = [p \in Procs |-> "user"]
      /\ born = {Creator} /\ open = [p \in Procs |-> IF p = Creator THEN Ends ELSE {}]
      /\ read_count = 1 /\ write_count = 1 /\ freed = FALSE
  BY DEF Init
<1>2. /\ kt = [val |-> SemValues, asleep |-> [s \in Sems |-> {}], ready |-> {},
               running |-> NoThread]
      /\ SemValues \in [Sems -> Int] /\ SemValues["read"] = 1 /\ SemValues["write"] = 1
      /\ SemValues["nelement"] = 0 /\ SemValues["space_available"] = Size
  <2>1. DOMAIN SemValues = Sems /\ Size \in Nat
    BY KosPipeAssumption DEF SemValues
  <2> QED BY <1>1, <2>1 DEF K!make_kt_sems, SemValues
<1>3. Sane(kt, pc)
  <2>1. kt \in K!KtState(Sems, Procs)
    BY <1>2 DEF K!KtState
  <2>2. \A s \in Sems : kt.val[s] >= 0 /\ kt.asleep[s] = {}
    BY <1>2, KosPipeAssumption
  <2>3. \A s \in Sems : Counted(kt, s)
    BY <1>2, <2>2, FS_EmptySet DEF Counted
  <2> QED BY <1>2, <2>1, <2>2, <2>3 DEF Sane
<1>4. Loads(kt.val, pc, read_count)
  <2>1. \A s \in Sems : Using(pc, s) = {}
    BY <1>1 DEF Using, AtLabels
  <2>2. \A s \in Sems : Load(kt.val, pc, s) = kt.val[s]
    BY <1>2, <2>1, FS_EmptySet DEF Load
  <2> QED BY <1>2, <2>2, KosPipeAssumption DEF Loads
<1>5. Opened
  <2>1. \A e \in Ends : Having(open, e) = {Creator}
    BY <1>1, KosPipeAssumption DEF Having
  <2>2. \A e \in Ends : Cardinality(Having(open, e)) = 1
    BY <2>1, FS_Singleton
  <2> QED BY <1>1, <2>2, KosPipeAssumption DEF Opened, Ends
<1>6. Entered
  BY <1>1 DEF Entered
<1> QED BY <1>1, <1>3, <1>4, <1>5, <1>6 DEF PipeInv

LEMMA PipeStep == PipeInv /\ [Next]_vars => PipeInv'
<1> SUFFICES ASSUME PipeInv, [Next]_vars PROVE PipeInv'
  OBVIOUS
<1>1. CASE Kernel
  BY <1>1, DispatchStep, WriteStep, ReadStep DEF Kernel
<1>2. CASE User
  BY <1>2, SyscallStep, CloseReadStep, CloseWriteStep, ExitStep, ForkStep DEF User
<1>3. CASE UNCHANGED vars
  BY <1>3 DEF vars, ends, counts, PipeInv, Opened, Entered
<1> QED BY <1>1, <1>2, <1>3 DEF Next

LEMMA PipeHolds == Spec => []PipeInv
BY InitPipe, PipeStep, PTL DEF Spec

(* A set of threads, those asleep and those not.                           *)
LEMMA AwakeCount ==
  ASSUME PipeInv, NEW s \in Sems
  PROVE  /\ Cardinality(Using(pc, s))
              = Cardinality(kt.asleep[s]) + Cardinality(Using(pc, s) \ kt.asleep[s])
         /\ Cardinality(kt.asleep[s]) \in Nat
         /\ Cardinality(Using(pc, s) \ kt.asleep[s]) \in Nat
         /\ kt.asleep[s] \subseteq Using(pc, s) /\ kt.val[s] \in Int
<1>1. Sane(kt, pc) /\ kt.val[s] \in Int /\ kt.asleep[s] \subseteq Procs
  BY KtParts DEF PipeInv, Sane
<1>2. kt.asleep[s] \subseteq Using(pc, s)
  BY <1>1, Names DEF Sane, Using, AtLabels
<1>3. IsFiniteSet(Using(pc, s)) /\ IsFiniteSet(kt.asleep[s])
  BY <1>1, KosPipeAssumption, FS_Subset DEF Using, AtLabels
<1>4. Using(pc, s) \cap kt.asleep[s] = kt.asleep[s]
  BY <1>2
<1>5. Cardinality(Using(pc, s) \ kt.asleep[s])
        = Cardinality(Using(pc, s)) - Cardinality(kt.asleep[s])
  BY <1>3, <1>4, FS_Difference
<1>6. /\ Cardinality(Using(pc, s)) \in Nat /\ Cardinality(kt.asleep[s]) \in Nat
      /\ Cardinality(Using(pc, s) \ kt.asleep[s]) \in Nat
  BY <1>3, FS_CardinalityType, FS_Difference
<1> QED BY <1>1, <1>2, <1>5, <1>6

LEMMA Follows == PipeInv => EndInv /\ SlotInv
<1> SUFFICES ASSUME PipeInv PROVE EndInv /\ SlotInv
  OBVIOUS
<1>1. /\ Reading = Using(pc, "read") \ kt.asleep["read"]
      /\ Writing = Using(pc, "write") \ kt.asleep["write"]
      /\ Takes = Using(pc, "nelement") \ kt.asleep["nelement"]
      /\ Acks = Using(pc, "space_available")
  BY Names DEF Reading, Writing, Takes, Acks, Using, AtLabels
<1>2. EndInv
  <2>1. \A p \in Reading \cup kt.asleep["read"] : "r" \in open[p]
    BY <1>1, AwakeCount, Names DEF PipeInv, Entered, Using, AtLabels
  <2>2. \A p \in Writing \cup kt.asleep["write"] : "w" \in open[p]
    BY <1>1, AwakeCount, Names DEF PipeInv, Entered, Using, AtLabels
  <2> QED BY <2>1, <2>2 DEF PipeInv, Opened, Having, EndInv
<1>3. Loads(kt.val, pc, read_count) /\ Sane(kt, pc)
  BY DEF PipeInv
<1>4. Cardinality(Reading) <= 1 /\ Cardinality(Writing) <= 1
  <2>1. /\ kt.val["read"] + Cardinality(kt.asleep["read"]) >= 0
        /\ kt.val["write"] + Cardinality(kt.asleep["write"]) >= 0
    BY <1>3, Names DEF Sane, Counted
  <2>2. /\ kt.val["read"] + Cardinality(Using(pc, "read")) = 1
        /\ kt.val["write"] + Cardinality(Using(pc, "write")) = 1
    BY <1>3 DEF Loads, Load
  <2> QED BY <1>1, <2>1, <2>2, AwakeCount, Names
<1>5. read_count # 0 => Free + Unread = Size
  <2>1. read_count # 0 =>
          (kt.val["space_available"] + Cardinality(Using(pc, "space_available")))
            + (kt.val["nelement"] + Cardinality(Using(pc, "nelement"))) = Size
    BY <1>3 DEF Loads, Load
  <2>2. Free = kt.val["space_available"] + Cardinality(Using(pc, "space_available"))
    BY <1>1, AwakeCount, Names DEF Free, Units
  <2>3. Unread = kt.val["nelement"] + Cardinality(Using(pc, "nelement"))
    BY <1>1, AwakeCount, Names DEF Unread, Units
  <2> QED BY <2>1, <2>2, <2>3
<1> QED BY <1>2, <1>4, <1>5 DEF SlotInv

(* A negative value counts the threads asleep.                             *)
LEMMA KtSound == PipeInv => K!Sound(kt)
<1> SUFFICES ASSUME PipeInv PROVE K!Sound(kt)
  OBVIOUS
<1>1. /\ Sane(kt, pc) /\ DOMAIN kt.asleep = Sems
      /\ \A s \in Sems : kt.val[s] \in Int
  BY KtParts DEF PipeInv, Sane
<1>2. \A s \in Sems : Cardinality(kt.asleep[s]) = IF kt.val[s] < 0 THEN -kt.val[s] ELSE 0
  <2> TAKE s \in Sems
  <2>1. kt.val[s] \in Int /\ Cardinality(kt.asleep[s]) \in Nat
    BY <1>1, SleepersFinite DEF Sane
  <2>2. kt.asleep[s] = {} => Cardinality(kt.asleep[s]) = 0
    BY FS_EmptySet
  <2> QED BY <1>1, <2>1, <2>2 DEF Sane, Counted
<1>3. \A s \in Sems : /\ kt.asleep[s] \cap (kt.ready \cup {kt.running}) = {}
                      /\ \A r \in Sems \ {s} : kt.asleep[r] \cap kt.asleep[s] = {}
  BY <1>1, Names DEF Sane
<1>4. \A S : K!Cardinality(S) = Cardinality(S)
  BY DEF K!Cardinality, Cardinality
<1>5. kt.running \notin kt.ready
  BY <1>1 DEF Sane
<1> QED BY <1>1, <1>2, <1>3, <1>4, <1>5 DEF K!Sound

-----------------------------------------------------------------------------
(* Where the two heads, the loops' indexes and the counts of bytes may be. *)

WriterLoop == {"put", "ack"}
ReaderLoop == {"test", "take"}

(* The locals of a thread at label l: the request n, the index s and the   *)
(* bytes c this call has handled.  The index has not gone further from the *)
(* buffer's last slot than the call has come.                              *)
Own(l, n, s, c) ==
  /\ l \in UsedAt("read") \cup UsedAt("write") => n >= 0
  /\ l \in WriterLoop \cup ReaderLoop => c <= n /\ s <= Size - 1 + c
  /\ l = "take" => c < n

Locals ==
  /\ asked \in [Procs -> Requests] /\ count \in [Procs -> 0 .. MaxIO]
  /\ start \in [Procs -> 0 .. (Size + MaxIO - 1)]
  /\ \A p \in Procs : Own(pc[p], asked[p], start[p], count[p])

(* Calls of write that have returned; the threads of the others.           *)
Owing == {"do_write", "wstart", "put", "ack"}
Ended(w, f) == w - Cardinality(AtLabels(f, Owing))

(* Bytes in the pipe come from calls that have returned, each with MaxIO   *)
(* at most, and from the one that is inside.                               *)
Written ==
  /\ stored \in Nat /\ writes \in 0 .. MaxWrites /\ writer_in_use \in 0 .. stored
  /\ \A p \in Procs : pc[p] \in WriterLoop =>
       /\ writer_in_use + count[p] <= stored
       /\ stored - count[p] <= MaxIO * Ended(writes, pc)
  /\ (\A p \in Procs : pc[p] \notin WriterLoop) => stored <= MaxIO * Ended(writes, pc)

Contents ==
  /\ buffer \in [Slots -> Bytes] /\ given \in Seq(Bytes)
  /\ read_head \in 0 .. (Size - 1) /\ write_head \in 0 .. (Size - 1)

LEMMA AtMostOne ==
  ASSUME NEW S \in SUBSET Procs, Cardinality(S) <= 1, NEW q \in S, NEW r \in S
  PROVE  q = r
<1> SUFFICES ASSUME q # r PROVE FALSE
  OBVIOUS
<1>1. Cardinality({q} \cup {r}) = 2
  <2>1. IsFiniteSet({q}) /\ Cardinality({q}) = 1
    BY FS_Singleton
  <2>2. r \notin {q}
    OBVIOUS
  <2>3. Cardinality({q} \cup {r}) = Cardinality({q}) + 1
    BY <2>1, <2>2, FS_AddElement
  <2> QED BY <2>1, <2>3
<1>2. IsFiniteSet(S) /\ {q} \cup {r} \subseteq S
  BY KosPipeAssumption, FS_Subset
<1>3. Cardinality({q} \cup {r}) <= Cardinality(S) /\ Cardinality(S) \in Nat
  BY <1>2, FS_Subset, FS_CardinalityType
<1> QED BY <1>1, <1>3

(* While one thread is past P(write), or past P(read), no other one is.    *)
LEMMA Alone ==
  ASSUME PipeInv, NEW p \in Procs, kt.running = p
  PROVE  /\ pc[p] \in UsedAt("write") => \A q \in Procs \ {p} : pc[q] \notin WriterLoop
         /\ pc[p] \in UsedAt("read") => \A q \in Procs \ {p} : pc[q] \notin ReaderLoop
<1> USE Names
<1>1. Sane(kt, pc) /\ \A s \in Sems : p \notin kt.asleep[s]
  BY Awake
<1>2. \A q \in Procs : /\ pc[q] \in WriterLoop => q \notin kt.asleep["write"]
                       /\ pc[q] \in ReaderLoop => q \notin kt.asleep["read"]
  BY <1>1 DEF Sane, WaitsAt, WriterLoop, ReaderLoop
<1>3. Cardinality(Reading) <= 1 /\ Cardinality(Writing) <= 1
  BY Follows DEF SlotInv
<1>4. /\ Reading \in SUBSET Procs /\ Writing \in SUBSET Procs
      /\ \A q \in Procs : pc[q] \in WriterLoop => q \in Writing
      /\ \A q \in Procs : pc[q] \in ReaderLoop => q \in Reading
      /\ pc[p] \in UsedAt("write") => p \in Writing
      /\ pc[p] \in UsedAt("read") => p \in Reading
  BY <1>1, <1>2 DEF Reading, Writing, WriterLoop, ReaderLoop
<1> QED BY <1>3, <1>4, AtMostOne

LEMMA LocalsStep ==
  ASSUME PipeInv, Locals, NEW p \in Procs, NEW l, Goto(p, l),
         NEW n \in Requests, NEW s \in 0 .. (Size + MaxIO - 1), NEW c \in 0 .. MaxIO,
         Own(l, n, s, c),
         asked' = To(asked, p, n), start' = To(start, p, s), count' = To(count, p, c)
  PROVE  Locals'
<1>1. PICK f, a, t, d : f = pc' /\ a = asked' /\ t = start' /\ d = count'
  OBVIOUS
<1>2. /\ a \in [Procs -> Requests] /\ d \in [Procs -> 0 .. MaxIO]
      /\ t \in [Procs -> 0 .. (Size + MaxIO - 1)]
      /\ f[p] = l /\ a[p] = n /\ t[p] = s /\ d[p] = c
      /\ \A q \in Procs \ {p} : f[q] = pc[q] /\ a[q] = asked[q] /\ t[q] = start[q] /\ d[q] = count[q]
  BY <1>1 DEF Locals, To, Goto, PipeInv
<1>3. \A q \in Procs : Own(f[q], a[q], t[q], d[q])
  <2> TAKE q \in Procs
  <2> QED BY <1>2 DEF Locals
<1> QED BY <1>1, <1>2, <1>3 DEF Locals

LEMMA ToItself ==
  ASSUME Locals, NEW p \in Procs
  PROVE  /\ asked = To(asked, p, asked[p]) /\ start = To(start, p, start[p])
         /\ count = To(count, p, count[p])
         /\ asked[p] \in Requests /\ start[p] \in 0 .. (Size + MaxIO - 1)
         /\ count[p] \in 0 .. MaxIO /\ Own(pc[p], asked[p], start[p], count[p])
BY DEF Locals, To

(* A call ends: its locals are gone.                                       *)
LEMMA ReturnLocals ==
  ASSUME PipeInv, Locals, NEW p \in Procs, syscall_return(p)
  PROVE  Locals'
<1>1. /\ Goto(p, "user") /\ asked' = To(asked, p, 0) /\ start' = To(start, p, 0)
      /\ count' = To(count, p, 0)
  BY DEF syscall_return, To
<1>2. /\ Size + MaxIO - 1 \in Nat /\ 0 \in 0 .. (Size + MaxIO - 1)
      /\ 0 \in 0 .. MaxIO /\ 0 \in Requests
  BY KosPipeAssumption DEF Requests
<1>3. Own("user", 0, 0, 0)
  BY Names DEF Own, WriterLoop, ReaderLoop
<1> QED BY <1>1, <1>2, <1>3, LocalsStep

(* A thread goes on and keeps its locals.                                  *)
LEMMA SameLocals ==
  ASSUME PipeInv, Locals, NEW p \in Procs, NEW l, Goto(p, l), UNCHANGED <<asked, start, count>>,
         Own(pc[p], asked[p], start[p], count[p]) => Own(l, asked[p], start[p], count[p])
  PROVE  Locals'
BY ToItself, LocalsStep

LEMMA LocalsKernel ==
  ASSUME PipeInv, Locals, Contents, Kernel
  PROVE  Locals'
<1> USE Names DEF WriterLoop, ReaderLoop
<1>1. PICK p \in Procs :
    \/ Dispatch(p)
    \/ do_write_refuse(p) \/ do_write(p) \/ write_start(p) \/ write_put(p)
    \/ write_ack(p) \/ write_epipe(p) \/ write_done(p)
    \/ do_read_refuse(p) \/ do_read(p) \/ read_start(p) \/ read_no_writers(p)
    \/ read_taken_all(p) \/ read_next(p) \/ read_eof(p) \/ read_byte(p) \/ read_done(p)
  BY DEF Kernel
<1>2. /\ Size \in Nat /\ MaxIO \in Nat /\ Size >= 1 /\ MaxIO >= 1
      /\ \A h \in 0 .. (Size - 1) : h \in 0 .. (Size + MaxIO - 1) /\ h <= Size - 1 + 0
      /\ 0 \in 0 .. MaxIO
      /\ \A n \in Requests : n \in Int /\ n <= MaxIO
  BY KosPipeAssumption DEF Requests
<1>3. CASE Dispatch(p)
  BY <1>3 DEF Dispatch, call, Locals
<1>4. CASE syscall_return(p)
  BY <1>4, ReturnLocals
<1>5. CASE \/ do_write_refuse(p) \/ write_epipe(p) \/ write_done(p) \/ do_read_refuse(p)
           \/ read_no_writers(p) \/ read_taken_all(p) \/ read_eof(p) \/ read_done(p)
  BY <1>4, <1>5 DEF do_write_refuse, write_epipe, write_done, do_read_refuse, read_no_writers,
                    read_taken_all, read_eof, read_done, Refuse, Return
<1>6. CASE do_write(p)
  <2>1. /\ Goto(p, "wstart") /\ UNCHANGED <<asked, start, count>> /\ asked[p] >= 0
    BY <1>6 DEF do_write, Sleep, call
  <2>2. Own("wstart", asked[p], start[p], count[p])
    BY <2>1 DEF Own
  <2> QED BY <2>1, <2>2, SameLocals
<1>7. CASE do_read(p)
  <2>1. /\ Goto(p, "rstart") /\ UNCHANGED <<asked, start, count>> /\ asked[p] >= 0
    BY <1>7 DEF do_read, Sleep, call
  <2>2. Own("rstart", asked[p], start[p], count[p])
    BY <2>1 DEF Own
  <2> QED BY <2>1, <2>2, SameLocals
<1>8. CASE write_ack(p)
  <2>1. /\ pc[p] = "ack" /\ Goto(p, "put") /\ UNCHANGED <<asked, start, count>>
    BY <1>8 DEF write_ack, call, At
  <2>2. Own("ack", asked[p], start[p], count[p]) => Own("put", asked[p], start[p], count[p])
    BY DEF Own
  <2> QED BY <2>1, <2>2, SameLocals
<1>9. CASE read_next(p)
  <2>1. /\ pc[p] = "test" /\ Goto(p, "take") /\ UNCHANGED <<asked, start, count>>
        /\ count[p] < asked[p]
    BY <1>9 DEF read_next, call, Sleep, At
  <2>2. Own("test", asked[p], start[p], count[p]) => Own("take", asked[p], start[p], count[p])
    BY <2>1 DEF Own
  <2> QED BY <2>1, <2>2, SameLocals
<1>10. CASE write_start(p)
  <2>1. /\ pc[p] = "wstart" /\ Goto(p, "put") /\ start' = To(start, p, write_head)
        /\ count' = To(count, p, 0) /\ asked' = asked
    BY <1>10 DEF write_start, At, To
  <2>2. Own("put", asked[p], write_head, 0)
    BY <1>2, <2>1, ToItself DEF Own, Contents
  <2> QED BY <1>2, <2>1, <2>2, ToItself, LocalsStep DEF Contents
<1>11. CASE read_start(p)
  <2>1. /\ pc[p] = "rstart" /\ Goto(p, "test") /\ start' = To(start, p, read_head)
        /\ count' = To(count, p, 0) /\ asked' = asked
    BY <1>11 DEF read_start, At, To
  <2>2. Own("test", asked[p], read_head, 0)
    BY <1>2, <2>1, ToItself DEF Own, Contents
  <2> QED BY <1>2, <2>1, <2>2, ToItself, LocalsStep DEF Contents
<1>12. CASE write_put(p)
  <2>1. /\ pc[p] = "put" /\ Goto(p, "ack") /\ start' = To(start, p, start[p] + 1)
        /\ count' = To(count, p, count[p] + 1) /\ asked' = asked /\ count[p] < asked[p]
    BY <1>12 DEF write_put, At, To, Sleep
  <2>2. /\ Own("ack", asked[p], start[p] + 1, count[p] + 1)
        /\ start[p] + 1 \in 0 .. (Size + MaxIO - 1) /\ count[p] + 1 \in 0 .. MaxIO
    BY <1>2, <2>1, ToItself DEF Own
  <2> QED BY <1>2, <2>1, <2>2, ToItself, LocalsStep
<1>13. CASE read_byte(p)
  <2>1. /\ pc[p] = "take" /\ Goto(p, "test") /\ start' = To(start, p, start[p] + 1)
        /\ count' = To(count, p, count[p] + 1) /\ asked' = asked
    BY <1>13 DEF read_byte, At, To
  <2>2. /\ Own("test", asked[p], start[p] + 1, count[p] + 1)
        /\ start[p] + 1 \in 0 .. (Size + MaxIO - 1) /\ count[p] + 1 \in 0 .. MaxIO
    BY <1>2, <2>1, ToItself DEF Own
  <2> QED BY <1>2, <2>1, <2>2, ToItself, LocalsStep
<1> QED BY <1>1, <1>3, <1>5, <1>6, <1>7, <1>8, <1>9, <1>10, <1>11, <1>12, <1>13

LEMMA LocalsUser ==
  ASSUME PipeInv, Locals, User
  PROVE  Locals'
<1> USE Names DEF WriterLoop, ReaderLoop
<1>1. PICK p \in Procs :
    \/ SyscallRead(p) \/ SyscallWrite(p)
    \/ do_close_read(p) \/ do_close_write(p) \/ do_exit(p)
    \/ \E c \in Procs : do_fork(p, c)
  BY DEF User
<1>2. CASE SyscallRead(p) \/ SyscallWrite(p)
  <2>1. PICK l \in {"do_read", "do_write"}, n \in Requests :
          /\ Goto(p, l) /\ asked' = To(asked, p, n) /\ UNCHANGED <<start, count>>
    BY <1>2 DEF SyscallRead, SyscallWrite, To
  <2>2. Own(l, n, start[p], count[p])
    BY <2>1 DEF Own
  <2> QED BY <2>1, <2>2, ToItself, LocalsStep
<1>3. CASE do_exit(p)
  <2>1. Goto(p, "exited") /\ UNCHANGED <<asked, start, count>>
    BY <1>3 DEF do_exit, call
  <2>2. Own("exited", asked[p], start[p], count[p])
    BY DEF Own
  <2> QED BY <2>1, <2>2, SameLocals
<1>4. CASE do_close_read(p) \/ do_close_write(p) \/ \E c \in Procs : do_fork(p, c)
  BY <1>4 DEF do_close_read, do_close_write, do_fork, call, Locals
<1> QED BY <1>1, <1>2, <1>3, <1>4

(* What so many calls of write may ask for.                                *)
LEMMA Products ==
  /\ \A e \in Int : MaxIO * e \in Int /\ MaxIO * (e + 1) = MaxIO * e + MaxIO
  /\ \A e, d \in Int : e <= d => MaxIO * e <= MaxIO * d
  /\ MaxIO * MaxWrites = MaxBytes
<1>1. MaxIO \in Nat /\ MaxIO \in Int /\ MaxWrites \in Int
  BY KosPipeAssumption
<1>2. \A e \in Int : MaxIO * e \in Int /\ MaxIO * (e + 1) = MaxIO * e + MaxIO
  BY <1>1
<1>3. ASSUME NEW e \in Int, NEW d \in Int, e <= d PROVE MaxIO * e <= MaxIO * d
  <2>1. PICK n \in Nat : d = e + n
    <3>1. d - e \in Nat /\ d = e + (d - e)
      BY <1>3
    <3> QED BY <3>1
  <2>2. MaxIO * d = MaxIO * e + MaxIO * n
    BY <1>1, <2>1
  <2>3. MaxIO * n \in Nat
    BY <1>1
  <2> QED BY <1>1, <1>2, <2>2, <2>3
<1>4. MaxIO * MaxWrites = MaxBytes
  BY <1>1 DEF MaxBytes
<1> QED BY <1>2, <1>3, <1>4

LEMMA EndedType ==
  ASSUME PipeInv, writes \in Nat
  PROVE  /\ Ended(writes, pc) \in Int /\ Ended(writes, pc) <= writes
         /\ \A p \in Procs : pc[p] \in Owing => Ended(writes, pc) + 1 <= writes
<1>1. IsFiniteSet(AtLabels(pc, Owing)) /\ Cardinality(AtLabels(pc, Owing)) \in Nat
  BY KosPipeAssumption, FS_Subset, FS_CardinalityType DEF AtLabels
<1>2. \A p \in Procs : pc[p] \in Owing => Cardinality(AtLabels(pc, Owing)) # 0
  BY <1>1, FS_EmptySet DEF AtLabels
<1> QED BY <1>1, <1>2 DEF Ended

LEMMA EndedMoved ==
  ASSUME PipeInv, writes \in Nat, NEW p \in Procs, NEW l, Goto(p, l), writes' \in Nat
  PROVE  /\ Ended(writes', pc') = Ended(writes, pc) + (writes' - writes)
              + (IF pc[p] \in Owing THEN 1 ELSE 0) - (IF l \in Owing THEN 1 ELSE 0)
         /\ Ended(writes', pc') \in Int
<1>1. PICK g : g = pc'
  OBVIOUS
<1>2. pc \in [Procs -> Labels] /\ g = To(pc, p, l)
  BY <1>1 DEF PipeInv, Goto, To
<1>3. PICK L : L = Owing
  OBVIOUS
<1>4. /\ Cardinality(AtLabels(pc, L)) \in Nat
      /\ Cardinality(AtLabels(g, L)) = Cardinality(AtLabels(pc, L))
           + (IF l \in L THEN 1 ELSE 0) - (IF pc[p] \in L THEN 1 ELSE 0)
  BY <1>2, LabelMoved
<1> QED BY <1>1, <1>3, <1>4 DEF Ended

(* Bytes are counted to the end of the call that stores them.              *)
LEMMA StoredBound ==
  ASSUME PipeInv, Locals, Written
  PROVE  /\ stored <= MaxBytes
         /\ \A p \in Procs : pc[p] \in WriterLoop => stored - count[p] + MaxIO <= MaxBytes
<1>1. /\ MaxIO \in Nat /\ MaxWrites \in Nat /\ writes \in Nat /\ writes <= MaxWrites
      /\ stored \in Nat /\ MaxBytes \in Int
  BY KosPipeAssumption, Products DEF Written
<1>2. PICK e \in Int : e = Ended(writes, pc)
  BY <1>1, EndedType
<1>3. e <= MaxWrites /\ MaxIO * e <= MaxBytes /\ MaxIO * e \in Int
  BY <1>1, <1>2, EndedType, Products
<1>4. ASSUME NEW p \in Procs, pc[p] \in WriterLoop
      PROVE  stored - count[p] + MaxIO <= MaxBytes /\ stored <= MaxBytes
  <2>1. pc[p] \in Owing
    BY <1>4 DEF WriterLoop, Owing
  <2>2. e + 1 <= MaxWrites
    BY <1>1, <1>2, <2>1, EndedType
  <2>3. MaxIO * (e + 1) <= MaxBytes /\ MaxIO * (e + 1) = MaxIO * e + MaxIO
    BY <1>1, <2>2, Products
  <2>4. stored - count[p] <= MaxIO * e /\ count[p] \in 0 .. MaxIO
    BY <1>2, <1>4 DEF Written, Locals
  <2> QED BY <1>1, <1>3, <2>3, <2>4
<1>5. (\A p \in Procs : pc[p] \notin WriterLoop) => stored <= MaxBytes
  BY <1>1, <1>2, <1>3 DEF Written
<1> QED BY <1>4, <1>5

(* No thread comes to the loop of do_write or leaves it.                   *)
LEMMA WrittenSame ==
  ASSUME PipeInv, Written, Locals, NEW p \in Procs, NEW l, Goto(p, l),
         pc[p] \in WriterLoop <=> l \in WriterLoop,
         l \in WriterLoop => count'[p] = count[p],
         \A q \in Procs \ {p} : count'[q] = count[q],
         stored' = stored, writer_in_use' \in 0 .. writer_in_use, writes' \in 0 .. MaxWrites,
         Ended(writes, pc) <= Ended(writes', pc')
  PROVE  Written'
<1>1. PICK f, d : f = pc' /\ d = count'
  OBVIOUS
<1>2. /\ \A q \in Procs : f[q] \in WriterLoop <=> pc[q] \in WriterLoop
      /\ \A q \in Procs : f[q] \in WriterLoop => d[q] = count[q]
      /\ \A q \in Procs : count[q] \in Int
  BY <1>1 DEF Goto, PipeInv, Locals
<1>3. writes \in Nat /\ writes' \in Nat /\ stored \in Nat /\ writer_in_use \in 0 .. stored
  BY KosPipeAssumption DEF Written
<1>4. PICK e \in Int, g \in Int : e = Ended(writes, pc) /\ g = Ended(writes', f)
  BY <1>1, <1>3, EndedType, EndedMoved
<1>5. MaxIO * e <= MaxIO * g /\ MaxIO * e \in Int /\ MaxIO * g \in Int
  BY <1>1, <1>4, Products
<1>6. \A q \in Procs : f[q] \in WriterLoop =>
        /\ writer_in_use' + d[q] <= stored
        /\ stored - d[q] <= MaxIO * g
  BY <1>2, <1>3, <1>4, <1>5 DEF Written
<1>7. (\A q \in Procs : f[q] \notin WriterLoop) => stored <= MaxIO * g
  BY <1>2, <1>3, <1>4, <1>5 DEF Written
<1> QED BY <1>1, <1>3, <1>4, <1>6, <1>7 DEF Written

LEMMA WrittenKernel ==
  ASSUME PipeInv, Locals, Written, Kernel
  PROVE  Written'
<1> USE DEF WriterLoop, Owing
<1>1. PICK p \in Procs :
    \/ Dispatch(p)
    \/ do_write_refuse(p) \/ do_write(p) \/ write_start(p) \/ write_put(p)
    \/ write_ack(p) \/ write_epipe(p) \/ write_done(p)
    \/ do_read_refuse(p) \/ do_read(p) \/ read_start(p) \/ read_no_writers(p)
    \/ read_taken_all(p) \/ read_next(p) \/ read_eof(p) \/ read_byte(p) \/ read_done(p)
  BY DEF Kernel
<1>2. /\ MaxIO \in Nat /\ writes \in Nat /\ stored \in Nat /\ writer_in_use \in 0 .. stored
      /\ writes \in 0 .. MaxWrites /\ count \in [Procs -> 0 .. MaxIO]
      /\ \A q \in Procs : count[q] \in Nat /\ count[q] <= MaxIO
  BY KosPipeAssumption DEF Written, Locals
<1>3. CASE Dispatch(p)
  BY <1>3 DEF Dispatch, call, ring, history, Written
<1>4. CASE do_write_refuse(p)
  <2>1. /\ pc[p] = "do_write" /\ Goto(p, "user") /\ UNCHANGED <<writes, stored, writer_in_use>>
        /\ count' = [count EXCEPT ![p] = 0]
    BY <1>4 DEF do_write_refuse, At, Refuse, syscall_return, ring, history
  <2>2. Ended(writes, pc) <= Ended(writes', pc')
    BY <1>2, <2>1, EndedMoved, EndedType
  <2> QED BY <1>2, <2>1, <2>2, WrittenSame
<1>5. CASE do_write(p)
  <2>1. /\ pc[p] = "do_write" /\ Goto(p, "wstart")
        /\ UNCHANGED <<writes, stored, writer_in_use, count>>
    BY <1>5 DEF do_write, At, Sleep, ring, call, history
  <2>2. Ended(writes, pc) <= Ended(writes', pc')
    BY <1>2, <2>1, EndedMoved, EndedType
  <2> QED BY <1>2, <2>1, <2>2, WrittenSame
<1>6. CASE write_ack(p)
  <2>1. /\ pc[p] = "ack" /\ Goto(p, "put") /\ UNCHANGED <<writes, stored, writer_in_use, count>>
    BY <1>6 DEF write_ack, At, ring, call, history
  <2>2. Ended(writes, pc) <= Ended(writes', pc')
    BY <1>2, <2>1, EndedMoved, EndedType
  <2> QED BY <1>2, <2>1, <2>2, WrittenSame
<1>7. CASE \/ do_read_refuse(p) \/ do_read(p) \/ read_start(p) \/ read_no_writers(p)
           \/ read_taken_all(p) \/ read_next(p) \/ read_eof(p) \/ read_byte(p) \/ read_done(p)
  <2>1. PICK l \in {"user", "rstart", "test", "take"} :
        /\ pc[p] \in {"do_read", "rstart", "test", "take"} /\ Goto(p, l)
        /\ UNCHANGED <<writes, stored>> /\ \A q \in Procs \ {p} : count'[q] = count[q]
    BY <1>2, <1>7 DEF do_read_refuse, do_read, read_start, read_no_writers, read_taken_all,
         read_next, read_eof, read_byte, read_done, Refuse, Return, syscall_return, Sleep, At,
         call, history
  <2>2. writer_in_use' \in 0 .. writer_in_use
    BY <1>2, <1>7 DEF do_read_refuse, do_read, read_start, read_no_writers, read_taken_all,
         read_next, read_eof, read_byte, read_done, ring
  <2>3. Ended(writes, pc) <= Ended(writes', pc')
    BY <1>2, <2>1, EndedMoved, EndedType
  <2> QED BY <1>2, <2>1, <2>2, <2>3, WrittenSame
<1>8. PICK f, d : f = pc' /\ d = count'
  OBVIOUS
<1>9. PICK e \in Int : e = Ended(writes, pc)
  BY <1>2, EndedType
<1>10. /\ MaxIO * e \in Int /\ MaxIO * (e + 1) = MaxIO * e + MaxIO
       /\ \A q \in Procs : pc[q] \in WriterLoop =>
            writer_in_use + count[q] <= stored /\ stored - count[q] <= MaxIO * e
       /\ (\A q \in Procs : pc[q] \notin WriterLoop) => stored <= MaxIO * e
  BY <1>9, Products DEF Written
<1>11. CASE write_start(p)
  <2>1. /\ pc[p] = "wstart" /\ Goto(p, "put") /\ UNCHANGED <<writes, stored, writer_in_use>>
        /\ count' = [count EXCEPT ![p] = 0] /\ kt.running = p
    BY <1>11 DEF write_start, At, ring, history
  <2>2. Ended(writes, f) = e
    BY <1>2, <1>8, <1>9, <2>1, EndedMoved
  <2>3. f[p] = "put" /\ d[p] = 0 /\ \A q \in Procs \ {p} : f[q] = pc[q] /\ f[q] \notin WriterLoop
    BY <1>2, <1>8, <2>1, Alone, Names DEF Goto, PipeInv
  <2>4. stored <= MaxIO * e
    BY <1>10, <2>1, <2>3
  <2>5. \A q \in Procs : f[q] \in WriterLoop =>
          writer_in_use + d[q] <= stored /\ stored - d[q] <= MaxIO * e
    BY <1>2, <2>3, <2>4
  <2>6. ~ \A q \in Procs : f[q] \notin WriterLoop
    BY <2>3
  <2> QED BY <1>2, <1>8, <2>1, <2>2, <2>5, <2>6 DEF Written
<1>12. CASE write_put(p)
  <2>1. /\ pc[p] = "put" /\ Goto(p, "ack") /\ UNCHANGED <<writes, writer_in_use>>
        /\ stored' = stored + 1
        /\ count' = [count EXCEPT ![p] = @ + 1] /\ kt.running = p
    BY <1>12 DEF write_put, At, Sleep
  <2>2. Ended(writes, f) = e
    BY <1>2, <1>8, <1>9, <2>1, EndedMoved
  <2>3. /\ f[p] = "ack" /\ d[p] = count[p] + 1
        /\ \A q \in Procs \ {p} : f[q] = pc[q] /\ f[q] \notin WriterLoop
    BY <1>2, <1>8, <2>1, Alone, Names DEF Goto, PipeInv
  <2>4. writer_in_use + count[p] <= stored /\ stored - count[p] <= MaxIO * e
    BY <1>10, <2>1
  <2>5. \A q \in Procs : f[q] \in WriterLoop =>
          writer_in_use + d[q] <= stored + 1 /\ (stored + 1) - d[q] <= MaxIO * e
    BY <1>2, <1>10, <2>3, <2>4
  <2>6. ~ \A q \in Procs : f[q] \notin WriterLoop
    BY <2>3
  <2>7. stored + 1 \in Nat /\ writer_in_use \in 0 .. (stored + 1)
    BY <1>2
  <2> QED BY <1>2, <1>8, <2>1, <2>2, <2>5, <2>6, <2>7 DEF Written
<1>13. CASE write_epipe(p) \/ write_done(p)
  <2>1. /\ pc[p] \in WriterLoop /\ Goto(p, "user") /\ UNCHANGED <<writes, stored>>
        /\ writer_in_use' \in {writer_in_use, writer_in_use + count[p]} /\ kt.running = p
    BY <1>13 DEF write_epipe, write_done, At, Return, syscall_return, ring, history
  <2>2. Ended(writes, f) = e + 1
    BY <1>2, <1>8, <1>9, <2>1, EndedMoved
  <2>3. f[p] = "user" /\ \A q \in Procs \ {p} : f[q] = pc[q] /\ f[q] \notin WriterLoop
    BY <1>2, <1>8, <2>1, Alone, Names DEF Goto, PipeInv
  <2>4. stored - count[p] <= MaxIO * e /\ writer_in_use' \in 0 .. stored
    BY <1>2, <1>10, <2>1
  <2>5. stored <= MaxIO * (e + 1)
    BY <1>2, <1>10, <2>4
  <2>6. \A q \in Procs : f[q] \notin WriterLoop
    BY <2>3
  <2> QED BY <1>2, <1>8, <2>1, <2>2, <2>4, <2>5, <2>6 DEF Written
<1> QED BY <1>1, <1>3, <1>4, <1>5, <1>6, <1>7, <1>11, <1>12, <1>13

LEMMA WrittenUser ==
  ASSUME PipeInv, Locals, Written, User
  PROVE  Written'
<1> USE DEF WriterLoop, Owing
<1>1. PICK p \in Procs :
    \/ SyscallRead(p) \/ SyscallWrite(p)
    \/ do_close_read(p) \/ do_close_write(p) \/ do_exit(p)
    \/ \E c \in Procs : do_fork(p, c)
  BY DEF User
<1>2. /\ MaxWrites \in Nat /\ writes \in 0 .. MaxWrites /\ writes \in Nat
      /\ writer_in_use \in 0 .. stored /\ stored \in Nat
  BY KosPipeAssumption DEF Written
<1>3. CASE SyscallRead(p) \/ SyscallWrite(p) \/ do_exit(p)
  <2>1. /\ pc[p] = "user" /\ UNCHANGED <<count, stored, writer_in_use>>
        /\ \/ writes' = writes /\ Goto(p, "do_read")
           \/ writes' = writes /\ Goto(p, "exited")
           \/ writes < MaxWrites /\ writes' = writes + 1 /\ Goto(p, "do_write")
    BY <1>3 DEF SyscallRead, SyscallWrite, do_exit, InUser, ring, call, history
  <2>2. writes' \in 0 .. MaxWrites /\ writes' \in Nat
    BY <1>2, <2>1
  <2>3. Ended(writes, pc) <= Ended(writes', pc')
    BY <1>2, <2>1, <2>2, EndedMoved, EndedType
  <2>4. PICK l \in {"do_read", "exited", "do_write"} : Goto(p, l)
    BY <2>1
  <2> QED BY <1>2, <2>1, <2>2, <2>3, <2>4, WrittenSame
<1>4. CASE do_close_read(p) \/ do_close_write(p) \/ \E c \in Procs : do_fork(p, c)
  BY <1>4 DEF do_close_read, do_close_write, do_fork, call, ring, history, Written
<1> QED BY <1>1, <1>3, <1>4

LEMMA Heads ==
  \A h \in Nat : NextHead(h) \in 0 .. (Size - 1) /\ (h + 1 < Size => NextHead(h) = h + 1)
BY KosPipeAssumption DEF NextHead

LEMMA ContentsKernel ==
  ASSUME PipeInv, Locals, Written, Contents, Kernel
  PROVE  Contents'
<1>1. PICK p \in Procs :
    \/ Dispatch(p)
    \/ do_write_refuse(p) \/ do_write(p) \/ write_start(p) \/ write_put(p)
    \/ write_ack(p) \/ write_epipe(p) \/ write_done(p)
    \/ do_read_refuse(p) \/ do_read(p) \/ read_start(p) \/ read_no_writers(p)
    \/ read_taken_all(p) \/ read_next(p) \/ read_eof(p) \/ read_byte(p) \/ read_done(p)
  BY DEF Kernel
<1>2. CASE write_put(p)
  <2>1. /\ pc[p] = "put" /\ count[p] < asked[p]
        /\ buffer' = [buffer EXCEPT ![start[p]] = Byte(stored + 1)]
        /\ write_head' = NextHead(write_head) /\ UNCHANGED <<read_head, given>>
    BY <1>2 DEF write_put, At
  <2>2. stored + 1 \in 0 .. MaxBytes
    <3>1. stored - count[p] + MaxIO <= MaxBytes
      BY <2>1, StoredBound DEF WriterLoop
    <3>2. MaxBytes \in Int /\ stored \in Nat /\ count[p] \in 0 .. MaxIO /\ count[p] < MaxIO
      BY <2>1, Products, KosPipeAssumption DEF Written, Locals, Requests
    <3> QED BY <3>1, <3>2, KosPipeAssumption
  <2>3. Byte(stored + 1) \in Bytes
    BY <2>2 DEF Byte, Bytes
  <2>4. NextHead(write_head) \in 0 .. (Size - 1)
    BY Heads DEF Contents
  <2> QED BY <2>1, <2>3, <2>4 DEF Contents
<1>3. CASE read_byte(p)
  <2>1. /\ pc[p] = "take" /\ given' = Append(given, buffer[start[p]])
        /\ read_head' = NextHead(read_head) /\ UNCHANGED <<buffer, write_head>>
    BY <1>3 DEF read_byte, At
  <2>2. start[p] \in Slots
    BY <2>1, ToItself, KosPipeAssumption DEF Own, Slots, ReaderLoop, WriterLoop, Requests
  <2>3. buffer[start[p]] \in Bytes
    BY <2>2 DEF Contents
  <2>4. NextHead(read_head) \in 0 .. (Size - 1)
    BY Heads DEF Contents
  <2> QED BY <2>1, <2>3, <2>4 DEF Contents
<1>4. CASE ~(write_put(p) \/ read_byte(p))
  <2>1. UNCHANGED <<buffer, read_head, write_head, given>>
    BY <1>1, <1>4 DEF Dispatch, do_write_refuse, do_write, write_start, write_ack, write_epipe,
         write_done, do_read_refuse, do_read, read_start, read_no_writers, read_taken_all,
         read_next, read_eof, read_done, ring, history
  <2> QED BY <2>1 DEF Contents
<1> QED BY <1>2, <1>3, <1>4

(* All of it, inductive together with PipeInv.                             *)
Ranges == Locals /\ Written /\ Contents

LEMMA InitRanges == Init => Ranges
<1> SUFFICES ASSUME Init PROVE Ranges
  OBVIOUS
<1>1. /\ Size \in Nat /\ MaxIO \in Nat /\ MaxWrites \in Nat /\ Size >= 1 /\ MaxIO >= 1
      /\ 0 \in 0 .. (Size - 1) /\ 0 \in 0 .. (Size + MaxIO - 1) /\ 0 \in 0 .. MaxIO
      /\ 0 \in Requests /\ 0 \in 0 .. MaxWrites
  BY KosPipeAssumption DEF Requests
<1>2. \A p \in Procs : pc[p] = "user"
  BY DEF Init
<1>3. Locals
  BY <1>1, <1>2, Names DEF Init, Locals, Own, WriterLoop, ReaderLoop
<1>4. Written
  <2>1. AtLabels(pc, Owing) = {}
    BY <1>2 DEF AtLabels, Owing
  <2>2. Ended(writes, pc) = 0
    BY <2>1, FS_EmptySet DEF Ended, Init
  <2>3. \A p \in Procs : pc[p] \notin WriterLoop
    BY <1>2 DEF WriterLoop
  <2>4. writes \in 0 .. MaxWrites /\ stored = 0 /\ writer_in_use \in 0 .. stored /\ stored \in Nat
    BY <1>1 DEF Init
  <2>5. stored <= MaxIO * Ended(writes, pc)
    BY <1>1, <2>2, <2>4
  <2> QED BY <2>3, <2>4, <2>5 DEF Written
<1>5. Contents
  <2>1. Garbage \subseteq Bytes
    <3>1. 0 \in 0 .. MaxBytes
      <4>1. MaxIO * 0 <= MaxIO * MaxWrites /\ MaxIO * MaxWrites = MaxBytes /\ MaxBytes \in Int
        BY <1>1, Products
      <4> QED BY <1>1, <4>1
    <3>2. -1 = EOF
      BY DEF EOF
    <3> QED BY <3>1, <3>2, KosPipeAssumption DEF Bytes
  <2>2. buffer \in [Slots -> Bytes]
    BY <2>1 DEF Init
  <2>3. given = <<>> /\ given \in Seq(Bytes)
    BY DEF Init
  <2> QED BY <1>1, <2>2, <2>3 DEF Init, Contents
<1> QED BY <1>3, <1>4, <1>5 DEF Ranges

LEMMA RangesStep == PipeInv /\ Ranges /\ [Next]_vars => Ranges'
<1> SUFFICES ASSUME PipeInv, Ranges, [Next]_vars PROVE Ranges'
  OBVIOUS
<1> USE DEF Ranges
<1>1. CASE Kernel
  BY <1>1, LocalsKernel, WrittenKernel, ContentsKernel
<1>2. CASE User
  <2>1. Contents'
    BY <1>2 DEF User, SyscallRead, SyscallWrite, do_close_read, do_close_write, do_exit, do_fork,
         ring, history, Contents
  <2> QED BY <1>2, <2>1, LocalsUser, WrittenUser
<1>3. CASE UNCHANGED vars
  BY <1>3 DEF vars, ring, call, history, Locals, Written, Contents
<1> QED BY <1>1, <1>2, <1>3 DEF Next

LEMMA TypesFollow == PipeInv /\ Ranges => TypeOK
<1> SUFFICES ASSUME PipeInv, Ranges PROVE TypeOK
  OBVIOUS
<1>1. kt \in K!KtState(Sems, Procs) /\ K!Sound(kt)
  BY KtSound DEF PipeInv, Sane
<1>2. read_count \in Nat /\ write_count \in Nat
  BY HavingFinite DEF PipeInv, Opened
<1>3. stored \in 0 .. MaxBytes /\ writer_in_use \in 0 .. MaxBytes
  BY StoredBound, Products, KosPipeAssumption DEF Ranges, Written
<1>4. count \in [Procs -> Requests]
  <2>1. 0 .. MaxIO \subseteq Requests
    BY DEF Requests
  <2> QED BY <2>1 DEF Ranges, Locals
<1> QED BY <1>1, <1>2, <1>3, <1>4 DEF PipeInv, Opened, Ranges, Locals, Written, Contents, TypeOK

-----------------------------------------------------------------------------
(* Until a head has gone round once, it and the index of the loop that     *)
(* moves it are the number of bytes that have passed, ...                  *)
WriterPlace ==
  stored < Size =>
    write_head = stored /\ \A p \in Procs : pc[p] \in WriterLoop => start[p] = stored
ReaderPlace ==
  Len(given) < Size =>
    read_head = Len(given) /\ \A p \in Procs : pc[p] \in ReaderLoop => start[p] = Len(given)

(* ... every byte that was stored is where the reader will look for it,    *)
Filled == FirstLap => \A i \in 0 .. (stored - 1) : buffer[i] = Byte(i + 1)

(* and a reader that takes one finds one that was stored: those on the way *)
(* are what nelement counts, with the threads that have taken a unit of it *)
(* or wait for one, and the writer's last byte.                            *)
Between(v, f) == Load(v, f, "nelement") + Cardinality(Using(f, "space_available"))
Clean == FirstLap /\ (1 .. stored) \cap FFs = {}
Passed ==
  Clean => InOrder /\ (read_count # 0 => Len(given) + Between(kt.val, pc) = stored)

Lap == WriterPlace /\ ReaderPlace /\ Filled /\ Passed

LEMMA PlacesKernel ==
  ASSUME PipeInv, Ranges, Lap, Kernel
  PROVE  WriterPlace' /\ ReaderPlace' /\ Filled'
<1> USE DEF Ranges, Lap
<1>1. PICK p \in Procs :
    \/ Dispatch(p)
    \/ do_write_refuse(p) \/ do_write(p) \/ write_start(p) \/ write_put(p)
    \/ write_ack(p) \/ write_epipe(p) \/ write_done(p)
    \/ do_read_refuse(p) \/ do_read(p) \/ read_start(p) \/ read_no_writers(p)
    \/ read_taken_all(p) \/ read_next(p) \/ read_eof(p) \/ read_byte(p) \/ read_done(p)
  BY DEF Kernel
<1>2. /\ stored \in Nat /\ given \in Seq(Bytes) /\ Len(given) \in Nat
      /\ pc \in [Procs -> Labels] /\ start \in [Procs -> 0 .. (Size + MaxIO - 1)]
      /\ buffer \in [Slots -> Bytes] /\ Size \in Nat /\ MaxIO \in Nat \ {0}
  BY KosPipeAssumption DEF Written, Contents, PipeInv, Locals
<1>3. PICK f, t : f = pc' /\ t = start'
  OBVIOUS
<1>4. CASE write_put(p)
  <2>1. /\ pc[p] = "put" /\ Goto(p, "ack") /\ stored' = stored + 1 /\ kt.running = p
        /\ buffer' = [buffer EXCEPT ![start[p]] = Byte(stored + 1)]
        /\ write_head' = NextHead(write_head) /\ start' = [start EXCEPT ![p] = @ + 1]
        /\ UNCHANGED <<read_head, given>>
    BY <1>4 DEF write_put, At, Sleep
  <2>2. /\ f[p] = "ack" /\ t[p] = start[p] + 1
        /\ \A q \in Procs \ {p} : f[q] = pc[q] /\ t[q] = start[q] /\ f[q] \notin WriterLoop
    BY <1>2, <1>3, <2>1, Alone, Names DEF Goto
  <2>3. stored + 1 <= Size => write_head = stored /\ start[p] = stored
    BY <1>2, <2>1 DEF WriterPlace, WriterLoop
  <2>4. WriterPlace'
    <3>1. stored + 1 < Size => write_head' = stored + 1
      BY <1>2, <2>1, <2>3, Heads
    <3>2. stored + 1 < Size => \A q \in Procs : f[q] \in WriterLoop => t[q] = stored + 1
      BY <1>2, <2>2, <2>3
    <3> QED BY <1>3, <2>1, <3>1, <3>2 DEF WriterPlace
  <2>5. ReaderPlace'
    <3>1. \A q \in Procs : f[q] \in ReaderLoop => pc[q] \in ReaderLoop /\ t[q] = start[q]
      BY <2>2 DEF ReaderLoop
    <3> QED BY <1>3, <2>1, <3>1 DEF ReaderPlace
  <2>6. Filled'
    <3>1. PICK b : b = buffer'
      OBVIOUS
    <3>2. ASSUME stored + 1 <= Size, NEW i \in 0 .. stored PROVE b[i] = Byte(i + 1)
      <4>1. start[p] = stored /\ stored \in Slots /\ i \in Slots
        BY <1>2, <2>3, <3>2 DEF Slots
      <4>2. b[i] = IF i = stored THEN Byte(stored + 1) ELSE buffer[i]
        BY <1>2, <2>1, <3>1, <4>1
      <4>3. i # stored => i \in 0 .. (stored - 1)
        BY <1>2
      <4>4. i # stored => buffer[i] = Byte(i + 1)
        BY <1>2, <3>2, <4>3 DEF Filled, FirstLap
      <4> QED BY <4>2, <4>4
    <3>3. 0 .. (stored' - 1) = 0 .. stored
      BY <1>2, <2>1
    <3> QED BY <2>1, <3>1, <3>2, <3>3 DEF Filled, FirstLap
  <2> QED BY <2>4, <2>5, <2>6
<1>5. CASE read_byte(p)
  <2>1. /\ pc[p] = "take" /\ Goto(p, "test") /\ kt.running = p
        /\ given' = Append(given, buffer[start[p]])
        /\ read_head' = NextHead(read_head) /\ start' = [start EXCEPT ![p] = @ + 1]
        /\ UNCHANGED <<buffer, write_head, stored>>
    BY <1>5 DEF read_byte, At
  <2>2. /\ f[p] = "test" /\ t[p] = start[p] + 1
        /\ \A q \in Procs \ {p} : f[q] = pc[q] /\ t[q] = start[q] /\ f[q] \notin ReaderLoop
    BY <1>2, <1>3, <2>1, Alone, Names DEF Goto
  <2>3. Len(given') = Len(given) + 1
    BY <1>2, <2>1
  <2>4. ReaderPlace'
    <3>1. Len(given) + 1 < Size => read_head = Len(given) /\ start[p] = Len(given)
      BY <1>2, <2>1 DEF ReaderPlace, ReaderLoop
    <3>2. Len(given) + 1 < Size => read_head' = Len(given) + 1
      BY <1>2, <2>1, <3>1, Heads
    <3>3. Len(given) + 1 < Size =>
            \A q \in Procs : f[q] \in ReaderLoop => t[q] = Len(given) + 1
      BY <1>2, <2>2, <3>1
    <3> QED BY <1>3, <2>3, <3>2, <3>3 DEF ReaderPlace
  <2>5. WriterPlace'
    <3>1. \A q \in Procs : f[q] \in WriterLoop => pc[q] \in WriterLoop /\ t[q] = start[q]
      BY <2>2 DEF WriterLoop
    <3> QED BY <1>3, <2>1, <3>1 DEF WriterPlace
  <2>6. Filled'
    BY <2>1 DEF Filled, FirstLap
  <2> QED BY <2>4, <2>5, <2>6
<1>6. CASE write_start(p) \/ read_start(p)
  <2>1. /\ UNCHANGED <<buffer, read_head, write_head, stored, given>>
        /\ \/ Goto(p, "put") /\ start' = [start EXCEPT ![p] = write_head]
           \/ Goto(p, "test") /\ start' = [start EXCEPT ![p] = read_head]
    BY <1>6 DEF write_start, read_start, ring, history
  <2>2. /\ \/ f[p] = "put" /\ t[p] = write_head
           \/ f[p] = "test" /\ t[p] = read_head
        /\ \A q \in Procs \ {p} : f[q] = pc[q] /\ t[q] = start[q]
    BY <1>2, <1>3, <2>1 DEF Goto
  <2>3. WriterPlace'
    BY <1>3, <2>1, <2>2 DEF WriterPlace, WriterLoop
  <2>4. ReaderPlace'
    BY <1>3, <2>1, <2>2 DEF ReaderPlace, ReaderLoop
  <2>5. Filled'
    BY <2>1 DEF Filled, FirstLap
  <2> QED BY <2>3, <2>4, <2>5
<1>7. CASE Dispatch(p)
  BY <1>7 DEF Dispatch, ring, call, history, WriterPlace, ReaderPlace, Filled, FirstLap
<1>8. CASE \/ do_write_refuse(p) \/ do_write(p) \/ write_ack(p) \/ write_epipe(p)
           \/ write_done(p) \/ do_read_refuse(p) \/ do_read(p) \/ read_no_writers(p)
           \/ read_taken_all(p) \/ read_next(p) \/ read_eof(p) \/ read_done(p)
  <2>1. UNCHANGED <<buffer, read_head, write_head, stored, given>>
    BY <1>8 DEF do_write_refuse, do_write, write_ack, write_epipe, write_done, do_read_refuse,
         do_read, read_no_writers, read_taken_all, read_next, read_eof, read_done, ring, history
  <2>2. \/ Goto(p, "user") /\ start' = [start EXCEPT ![p] = 0]
        \/ /\ start' = start
           /\ \/ Goto(p, "wstart") \/ Goto(p, "rstart")
              \/ pc[p] = "ack" /\ Goto(p, "put")
              \/ pc[p] = "test" /\ Goto(p, "take")
    BY <1>8 DEF do_write_refuse, do_write, write_ack, write_epipe, write_done, do_read_refuse,
         do_read, read_no_writers, read_taken_all, read_next, read_eof, read_done, Refuse,
         Return, syscall_return, Sleep, At, call
  <2>3. \A q \in Procs :
          /\ f[q] \in WriterLoop => pc[q] \in WriterLoop /\ t[q] = start[q]
          /\ f[q] \in ReaderLoop => pc[q] \in ReaderLoop /\ t[q] = start[q]
    BY <1>2, <1>3, <2>2 DEF Goto, WriterLoop, ReaderLoop
  <2> QED BY <1>3, <2>1, <2>3 DEF WriterPlace, ReaderPlace, Filled, FirstLap
<1> QED BY <1>1, <1>4, <1>5, <1>6, <1>7, <1>8

(* What a step does to the bytes on the way.                               *)
LEMMA BetweenMoved ==
  ASSUME PipeInv, NEW p \in Procs, NEW l, NEW g, g = To(pc, p, l), NEW v \in [Sems -> Int]
  PROVE  /\ Between(v, g) = Between(kt.val, pc) + (v["nelement"] - kt.val["nelement"])
              + (IF l \in {"take", "ack"} THEN 1 ELSE 0)
              - (IF pc[p] \in {"take", "ack"} THEN 1 ELSE 0)
         /\ Between(kt.val, pc) \in Int
<1>1. pc \in [Procs -> Labels] /\ kt.val \in [Sems -> Int]
  BY KtParts DEF PipeInv, Sane
<1>2. \A s \in Sems :
        /\ Cardinality(Using(pc, s)) \in Nat
        /\ Cardinality(Using(g, s)) = Cardinality(Using(pc, s))
             + (IF l \in UsedAt(s) THEN 1 ELSE 0) - (IF pc[p] \in UsedAt(s) THEN 1 ELSE 0)
  BY <1>1, Moved
<1>3. kt.val["nelement"] \in Int /\ v["nelement"] \in Int
  BY <1>1, Names
<1> QED BY <1>2, <1>3, Names DEF Between, Load

(* The reader that goes on after P(nelement).                              *)
LEMMA TakesByte ==
  ASSUME PipeInv, Ranges, Lap, Clean, NEW p \in Procs, kt.running = p, pc[p] = "take"
  PROVE  /\ Len(given) < stored /\ start[p] = Len(given)
         /\ buffer[start[p]] = Byte(Len(given) + 1) /\ buffer[start[p]] # EOF
<1> USE DEF Ranges, Lap
<1>1. stored \in Nat /\ Len(given) \in Nat /\ stored <= Size /\ Size \in Nat
  BY KosPipeAssumption DEF Written, Contents, Clean, FirstLap
<1>2. read_count # 0
  <2>1. "r" \in open[p]
    BY Names DEF PipeInv, Entered
  <2> QED BY <2>1, HavingFinite DEF PipeInv, Opened, Having
<1>3. Between(kt.val, pc) >= 1 /\ Between(kt.val, pc) \in Int
  <2>1. kt.val["nelement"] + Cardinality(kt.asleep["nelement"]) >= 0
    BY Names DEF PipeInv, Sane, Counted
  <2>2. p \in Using(pc, "nelement") \ kt.asleep["nelement"]
    BY Awake, Names DEF Using, AtLabels
  <2>3. Cardinality(Using(pc, "nelement") \ kt.asleep["nelement"]) >= 1
    <3>1. IsFiniteSet(Using(pc, "nelement") \ kt.asleep["nelement"])
      BY KosPipeAssumption, FS_Subset DEF Using, AtLabels
    <3>2. Cardinality(Using(pc, "nelement") \ kt.asleep["nelement"]) # 0
      BY <2>2, <3>1, FS_EmptySet
    <3> QED BY <3>1, <3>2, FS_CardinalityType
  <2>4. /\ Cardinality(Using(pc, "space_available")) \in Nat
    BY AwakeCount, Names, KosPipeAssumption, FS_Subset, FS_CardinalityType DEF Using, AtLabels
  <2>5. /\ Cardinality(Using(pc, "nelement")) = Cardinality(kt.asleep["nelement"])
             + Cardinality(Using(pc, "nelement") \ kt.asleep["nelement"])
        /\ Cardinality(kt.asleep["nelement"]) \in Nat
        /\ Cardinality(Using(pc, "nelement") \ kt.asleep["nelement"]) \in Nat
        /\ kt.val["nelement"] \in Int
    BY AwakeCount, Names
  <2> QED BY <2>1, <2>3, <2>4, <2>5 DEF Between, Load
<1>4. Len(given) < stored
  BY <1>1, <1>2, <1>3 DEF Passed
<1>5. start[p] = Len(given)
  BY <1>1, <1>4 DEF ReaderPlace, ReaderLoop
<1>6. buffer[start[p]] = Byte(Len(given) + 1)
  BY <1>1, <1>4, <1>5 DEF Filled, FirstLap
<1>7. Byte(Len(given) + 1) # EOF
  <2>1. Len(given) + 1 \in 1 .. stored
    BY <1>1, <1>4
  <2>2. Len(given) + 1 \notin FFs
    BY <2>1 DEF Clean
  <2>3. \A n \in Nat : n + 1 # EOF
    BY DEF EOF
  <2> QED BY <1>1, <2>2, <2>3 DEF Byte
<1> QED BY <1>4, <1>5, <1>6, <1>7

(* Nothing is stored or taken, and what a value loses a thread gains.      *)
LEMMA PassedSame ==
  ASSUME PipeInv, Ranges, Passed, NEW p \in Procs, NEW l, Goto(p, l),
         NEW v \in [Sems -> Int], v = kt'.val,
         read_count # 0 => v["nelement"] + (IF l \in {"take", "ack"} THEN 1 ELSE 0)
              = kt.val["nelement"] + (IF pc[p] \in {"take", "ack"} THEN 1 ELSE 0),
         UNCHANGED <<stored, given>>, read_count' # 0 => read_count # 0
  PROVE  Passed'
<1>1. PICK g : g = pc'
  OBVIOUS
<1>2. g = To(pc, p, l)
  BY <1>1 DEF Goto, To
<1>3. /\ \A u \in [Sems -> Int] :
           Between(u, g) = Between(kt.val, pc) + (u["nelement"] - kt.val["nelement"])
             + (IF l \in {"take", "ack"} THEN 1 ELSE 0)
             - (IF pc[p] \in {"take", "ack"} THEN 1 ELSE 0)
      /\ Between(kt.val, pc) \in Int
  <2>1. kt.val \in [Sems -> Int]
    BY KtParts DEF PipeInv, Sane
  <2> QED BY <1>2, <2>1, BetweenMoved
<1>4. v["nelement"] \in Int /\ kt.val["nelement"] \in Int
  BY KtParts, Names DEF PipeInv, Sane
<1>5. read_count # 0 => Between(v, g) = Between(kt.val, pc)
  BY <1>3, <1>4
<1>6. Clean' = Clean /\ InOrder' = InOrder
  BY DEF Clean, FirstLap, InOrder
<1> QED BY <1>1, <1>5, <1>6 DEF Passed

LEMMA PassedKernel ==
  ASSUME PipeInv, PipeInv', Ranges, Lap, Kernel
  PROVE  Passed'
<1> USE Names DEF Lap
<1>1. PICK p \in Procs :
    \/ Dispatch(p)
    \/ do_write_refuse(p) \/ do_write(p) \/ write_start(p) \/ write_put(p)
    \/ write_ack(p) \/ write_epipe(p) \/ write_done(p)
    \/ do_read_refuse(p) \/ do_read(p) \/ read_start(p) \/ read_no_writers(p)
    \/ read_taken_all(p) \/ read_next(p) \/ read_eof(p) \/ read_byte(p) \/ read_done(p)
  BY DEF Kernel
<1>2. PICK v \in [Sems -> Int] : v = kt'.val
  BY KtParts DEF PipeInv, Sane
<1>3. /\ stored \in Nat /\ given \in Seq(Bytes) /\ Len(given) \in Nat
      /\ kt.val \in [Sems -> Int] /\ kt.val["nelement"] \in Int
      /\ pc \in [Procs -> Labels] /\ Size \in Nat
  <2>1. kt.val \in [Sems -> Int] /\ pc \in [Procs -> Labels]
    BY KtParts DEF PipeInv, Sane
  <2>2. stored \in Nat /\ given \in Seq(Bytes)
    BY DEF Ranges, Written, Contents
  <2> QED BY <2>1, <2>2, KosPipeAssumption
<1>4. PICK g : g = pc'
  OBVIOUS
<1>5. CASE Dispatch(p)
  <2>1. /\ kt'.val = kt.val /\ UNCHANGED <<pc, read_count, stored, given>>
    <3>1. kt' = K!Dispatched(kt, p) /\ UNCHANGED <<pc, read_count, stored, given>>
      BY <1>5 DEF Dispatch, ends, counts, history
    <3>2. K!MayRun(kt, p) /\ Sane(kt, pc)
      BY <1>5 DEF Dispatch, PipeInv
    <3>3. PICK j : j = kt'
      OBVIOUS
    <3>4. j.val = kt.val
      BY <3>1, <3>2, <3>3, SaneDispatch
    <3> QED BY <3>1, <3>3, <3>4
  <2> QED BY <2>1 DEF Passed, Clean, FirstLap, InOrder
<1>6. CASE do_write_refuse(p) \/ do_read_refuse(p) \/ write_start(p) \/ read_start(p)
  <2>1. PICK l \in {"user", "put", "test"} :
          /\ pc[p] \in {"do_write", "do_read", "wstart", "rstart"} /\ Goto(p, l)
          /\ kt' = K!kt_exit(kt) \/ kt' = kt
          /\ UNCHANGED <<stored, given, read_count>> /\ kt.running = p
    BY <1>6 DEF do_write_refuse, do_read_refuse, write_start, read_start, Refuse,
                syscall_return, At, ends, counts, history
  <2>2. v = kt.val
    BY <1>2, <2>1, Refuses
  <2> QED BY <1>2, <1>3, <2>1, <2>2, PassedSame
<1>7. CASE do_write(p) \/ do_read(p)
  <2>1. PICK s \in {"read", "write"} :
          /\ pc[p] \in {"do_write", "do_read"} /\ Sleep(p, s, WaitsAt(s))
          /\ UNCHANGED <<stored, given, read_count>> /\ kt.running = p
    BY <1>7 DEF do_write, do_read, WaitsAt, At, ends, counts, history
  <2>2. v = [kt.val EXCEPT ![s] = @ - 1]
    BY <1>2, <2>1, Sleeps
  <2>3. /\ v["nelement"] = kt.val["nelement"] /\ Goto(p, WaitsAt(s))
        /\ WaitsAt(s) \in {"rstart", "wstart"}
    BY <1>3, <2>1, <2>2 DEF Sleep, WaitsAt
  <2> QED BY <1>2, <1>3, <2>1, <2>3, PassedSame
<1>8. CASE read_next(p)
  <2>1. /\ pc[p] = "test" /\ Sleep(p, "nelement", WaitsAt("nelement")) /\ Goto(p, "take")
        /\ UNCHANGED <<stored, given, read_count>> /\ kt.running = p
    BY <1>8 DEF read_next, WaitsAt, At, Sleep, ends, counts, history
  <2>2. v = [kt.val EXCEPT !["nelement"] = @ - 1]
    BY <1>2, <2>1, Sleeps
  <2>3. v["nelement"] = kt.val["nelement"] - 1
    BY <1>3, <2>2
  <2> QED BY <1>2, <1>3, <2>1, <2>3, PassedSame
<1>9. CASE write_ack(p)
  <2>1. /\ pc[p] = "ack" /\ Goto(p, "put") /\ kt' \in K!V_kt_sem(kt, "nelement")
        /\ UNCHANGED <<stored, given, read_count>> /\ kt.running = p
    BY <1>9 DEF write_ack, At, ends, counts, history
  <2>2. v = [kt.val EXCEPT !["nelement"] = @ + 1]
    BY <1>2, <2>1, Releases
  <2>3. v["nelement"] = kt.val["nelement"] + 1
    BY <1>3, <2>2
  <2> QED BY <1>2, <1>3, <2>1, <2>3, PassedSame
<1>10. CASE \/ write_epipe(p) \/ write_done(p) \/ read_no_writers(p)
            \/ read_taken_all(p) \/ read_done(p)
  <2>1. PICK s \in {"read", "write"} : Return(p, s)
    BY <1>10 DEF write_epipe, write_done, read_no_writers, read_taken_all, read_done
  <2>2. /\ pc[p] \in {"put", "test"} \/ (pc[p] = "ack" /\ read_count = 0)
        /\ UNCHANGED <<stored, given, read_count>> /\ kt.running = p
    BY <1>10 DEF write_epipe, write_done, read_no_writers, read_taken_all, read_done, At,
                 ends, counts, history
  <2>3. v = [kt.val EXCEPT ![s] = @ + 1] /\ Goto(p, "user")
    BY <1>2, <2>1, <2>2, Returns
  <2>4. v["nelement"] = kt.val["nelement"]
    BY <1>3, <2>1, <2>3
  <2> QED BY <1>2, <1>3, <2>2, <2>3, <2>4, PassedSame
<1>11. CASE write_put(p)
  <2>1. /\ pc[p] = "put" /\ Sleep(p, "space_available", WaitsAt("space_available"))
        /\ g = To(pc, p, "ack") /\ stored' = stored + 1
        /\ UNCHANGED <<given, read_count>> /\ kt.running = p
    BY <1>4, <1>11 DEF write_put, WaitsAt, At, Sleep, Goto, To, ends, counts
  <2>2. v = [kt.val EXCEPT !["space_available"] = @ - 1]
    BY <1>2, <2>1, Sleeps
  <2>3. v["nelement"] = kt.val["nelement"]
    BY <1>3, <2>2
  <2>4. Between(v, g) = Between(kt.val, pc) + 1 /\ Between(kt.val, pc) \in Int
    BY <1>3, <2>1, <2>3, BetweenMoved
  <2>5. Clean' => Clean
    <3>1. 1 .. stored \subseteq 1 .. (stored + 1)
      BY <1>3
    <3> QED BY <1>3, <2>1, <3>1 DEF Clean, FirstLap
  <2>6. InOrder' = InOrder
    BY <2>1 DEF InOrder
  <2> QED BY <1>2, <1>3, <1>4, <2>1, <2>4, <2>5, <2>6 DEF Passed
<1>12. CASE read_eof(p)
  <2>1. ~Clean
    <3>1. pc[p] = "take" /\ buffer[start[p]] = EOF /\ kt.running = p
      BY <1>12 DEF read_eof, At
    <3> QED BY <3>1, TakesByte
  <2>2. stored' = stored
    BY <1>12 DEF read_eof, history
  <2> QED BY <2>1, <2>2 DEF Passed, Clean, FirstLap
<1>13. CASE read_byte(p)
  <2>1. /\ pc[p] = "take" /\ Goto(p, "test") /\ kt' \in K!V_kt_sem(kt, "space_available")
        /\ given' = Append(given, buffer[start[p]])
        /\ UNCHANGED <<stored, read_count>> /\ kt.running = p
    BY <1>13 DEF read_byte, At, ends, counts
  <2>2. v = [kt.val EXCEPT !["space_available"] = @ + 1]
    BY <1>2, <2>1, Releases
  <2>3. v["nelement"] = kt.val["nelement"] /\ g = To(pc, p, "test")
    BY <1>3, <1>4, <2>1, <2>2 DEF Goto, To
  <2>4. Between(v, g) = Between(kt.val, pc) - 1 /\ Between(kt.val, pc) \in Int
    BY <1>3, <2>1, <2>3, BetweenMoved
  <2>5. Clean' = Clean
    BY <2>1 DEF Clean, FirstLap
  <2>6. PICK s, b : s = given' /\ b = buffer[start[p]]
    OBVIOUS
  <2>7. ASSUME Clean PROVE InOrder' /\ Len(s) = Len(given) + 1
    <3>1. b = Byte(Len(given) + 1) /\ s = Append(given, b)
      BY <2>1, <2>6, <2>7, TakesByte
    <3>2. /\ Len(s) = Len(given) + 1 /\ DOMAIN s = 1 .. (Len(given) + 1)
          /\ \A i \in 1 .. Len(given) : s[i] = given[i]
          /\ s[Len(given) + 1] = b /\ DOMAIN given = 1 .. Len(given)
      BY <1>3, <3>1
    <3>3. \A i \in DOMAIN s : s[i] = Byte(i)
      BY <1>3, <2>7, <3>1, <3>2 DEF Passed, InOrder
    <3> QED BY <2>6, <3>2, <3>3 DEF InOrder
  <2> QED BY <1>2, <1>3, <1>4, <2>1, <2>4, <2>5, <2>6, <2>7 DEF Passed
<1> QED BY <1>1, <1>5, <1>6, <1>7, <1>8, <1>9, <1>10, <1>11, <1>12, <1>13

LEMMA LapUser ==
  ASSUME PipeInv, PipeInv', Ranges, Lap, User
  PROVE  Lap'
<1> USE Names DEF Lap
<1>1. PICK p \in Procs :
    \/ SyscallRead(p) \/ SyscallWrite(p)
    \/ do_close_read(p) \/ do_close_write(p) \/ do_exit(p)
    \/ \E c \in Procs : do_fork(p, c)
  BY DEF User
<1>2. PICK v \in [Sems -> Int] : v = kt'.val
  BY KtParts DEF PipeInv, Sane
<1>3. kt.val \in [Sems -> Int] /\ pc \in [Procs -> Labels] /\ Sane(kt, pc)
  BY KtParts DEF PipeInv, Sane
<1>4. UNCHANGED <<buffer, read_head, write_head, stored, given, start>>
  BY <1>1 DEF SyscallRead, SyscallWrite, do_close_read, do_close_write, do_exit, do_fork,
              ring, call, history
<1>5. pc[p] = "user"
  BY <1>1 DEF SyscallRead, SyscallWrite, do_close_read, do_close_write, do_exit, do_fork, InUser
<1>6. PICK l \in {"user", "do_read", "do_write", "exited"} : Goto(p, l)
  <2>1. pc' = pc => Goto(p, "user")
    BY <1>3, <1>5 DEF Goto
  <2> QED BY <1>1, <2>1 DEF SyscallRead, SyscallWrite, do_close_read, do_close_write, do_exit,
                            do_fork
<1>7. WriterPlace' /\ ReaderPlace' /\ Filled'
  <2>1. PICK f : f = pc'
    OBVIOUS
  <2>2. \A q \in Procs : /\ f[q] \in WriterLoop => pc[q] \in WriterLoop
                         /\ f[q] \in ReaderLoop => pc[q] \in ReaderLoop
    BY <1>3, <1>6, <2>1 DEF Goto, WriterLoop, ReaderLoop
  <2> QED BY <1>4, <2>1, <2>2 DEF WriterPlace, ReaderPlace, Filled, FirstLap
<1>8. read_count' # 0 => read_count # 0
  <2>1. read_count = Cardinality(Having(open, "r")) /\ read_count \in Nat
    BY HavingFinite DEF PipeInv, Opened
  <2>2. "r" \in open[p] => read_count # 0
    BY <2>1, HavingFinite DEF Having
  <2>3. CASE "r" \in open[p]
    BY <2>2, <2>3
  <2>4. CASE "r" \notin open[p]
    BY <1>1, <2>1, <2>4 DEF SyscallRead, SyscallWrite, do_close_read, do_close_write, do_exit,
                            do_fork, One, ends, counts
  <2> QED BY <2>3, <2>4
<1>9. v["nelement"] = kt.val["nelement"]
  <2>1. CASE SyscallRead(p) \/ SyscallWrite(p)
    <3>1. kt' = K!kt_fork(kt, p)
      BY <2>1 DEF SyscallRead, SyscallWrite
    <3>2. kt'.val = kt.val
      BY <1>3, <3>1, KtParts DEF K!kt_fork, Sane
    <3> QED BY <1>2, <3>2
  <2>2. CASE do_close_read(p)
    <3>1. kt' \in K!V_kt_sems(kt, "space_available", write_count) \/ kt' = kt
      BY <2>2 DEF do_close_read, ReadersGone
    <3>2. CASE kt' = kt
      BY <1>2, <3>2
    <3>3. CASE kt' # kt
      <4>1. PICK T : kt' = Released(kt, "space_available", write_count, T)
        BY <3>1, <3>3 DEF K!V_kt_sems, Released
      <4>2. kt = [val |-> kt.val, asleep |-> kt.asleep, ready |-> kt.ready,
                  running |-> kt.running]
        BY <1>3, KtParts DEF Sane
      <4>3. kt'.val = [kt.val EXCEPT !["space_available"] = @ + write_count]
        BY <4>1, <4>2 DEF Released
      <4> QED BY <1>2, <1>3, <4>3
    <3> QED BY <3>2, <3>3
  <2>3. CASE do_close_write(p) \/ do_exit(p) \/ \E c \in Procs : do_fork(p, c)
    BY <1>2, <2>3 DEF do_close_write, do_exit, do_fork
  <2> QED BY <1>1, <2>1, <2>2, <2>3
<1>10. Passed'
  BY <1>2, <1>3, <1>4, <1>5, <1>6, <1>8, <1>9, PassedSame
<1> QED BY <1>7, <1>10

LEMMA InitLap == Init => Lap
<1> SUFFICES ASSUME Init PROVE Lap
  OBVIOUS
<1>1. /\ stored = 0 /\ given = <<>> /\ Len(given) = 0 /\ read_head = 0 /\ write_head = 0
      /\ \A p \in Procs : pc[p] = "user"
  BY DEF Init
<1>2. Between(kt.val, pc) = 0
  <2>1. \A s \in Sems : Using(pc, s) = {}
    BY <1>1, Names DEF Using, AtLabels
  <2>2. kt.val["nelement"] = 0
    BY DEF Init, K!make_kt_sems, SemValues
  <2> QED BY <2>1, <2>2, FS_EmptySet, Names DEF Between, Load
<1>3. WriterPlace /\ ReaderPlace
  BY <1>1 DEF WriterPlace, ReaderPlace, WriterLoop, ReaderLoop
<1>4. Filled
  BY <1>1 DEF Filled
<1>5. Passed
  BY <1>1, <1>2 DEF Passed, InOrder
<1> QED BY <1>3, <1>4, <1>5 DEF Lap

LEMMA LapStep == PipeInv /\ PipeInv' /\ Ranges /\ Lap /\ [Next]_vars => Lap'
<1> SUFFICES ASSUME PipeInv, PipeInv', Ranges, Lap, [Next]_vars PROVE Lap'
  OBVIOUS
<1>1. CASE Kernel
  BY <1>1, PlacesKernel, PassedKernel DEF Lap
<1>2. CASE User
  BY <1>2, LapUser
<1>3. CASE UNCHANGED vars
  BY <1>3 DEF vars, ends, counts, ring, call, history, Lap, WriterPlace, ReaderPlace, Filled,
              Passed, Clean, FirstLap, InOrder
<1> QED BY <1>1, <1>2, <1>3 DEF Next

LEMMA FirstLapFollows == PipeInv /\ Ranges /\ Lap => FirstLapInv
<1> SUFFICES ASSUME PipeInv, Ranges, Lap PROVE FirstLapInv
  OBVIOUS
<1>1. /\ Takes = Using(pc, "nelement") \ kt.asleep["nelement"]
      /\ Acks = Using(pc, "space_available")
  BY Names DEF Takes, Acks, Using, AtLabels
<1>2. Unread = kt.val["nelement"] + Cardinality(Using(pc, "nelement"))
  BY <1>1, AwakeCount, Names DEF Unread, Units
<1>3. Unread + Cardinality(Acks) = Between(kt.val, pc)
  BY <1>1, <1>2 DEF Between, Load
<1>4. /\ Unread \in Int /\ Cardinality(Acks) \in Int
  <2>1. IsFiniteSet(Using(pc, "space_available")) /\ IsFiniteSet(Using(pc, "nelement"))
    BY KosPipeAssumption, FS_Subset DEF Using, AtLabels
  <2>2. kt.val["nelement"] \in Int
    BY KtParts, Names DEF PipeInv, Sane
  <2> QED BY <1>1, <1>2, <2>1, <2>2, FS_CardinalityType
<1>5. Len(given) + Unread + Cardinality(Acks) = Len(given) + (Unread + Cardinality(Acks))
  <2>1. Len(given) \in Int
    BY DEF Ranges, Contents
  <2> QED BY <1>4, <2>1
<1> QED BY <1>3, <1>5 DEF Lap, Passed, Clean, FirstLapInv, NothingLost

-----------------------------------------------------------------------------
(* Nobody is lost: the thread of a call is ready, runs, or sleeps.         *)
Placed(k, q) == q \in k.ready \/ q = k.running \/ \E s \in Sems : q \in k.asleep[s]
Somewhere == \A q \in Procs : pc[q] \notin {"user", "exited"} => Placed(kt, q)

(* Only kt_exit takes a thread out, the one that runs.                     *)
LEMMA PlacedExit ==
  ASSUME NEW k \in K!KtState(Sems, Procs), NEW j, j = K!kt_exit(k),
         NEW q \in Procs, Placed(k, q), q # k.running
  PROVE  Placed(j, q)
<1>1. j.asleep = k.asleep /\ j.ready = k.ready
  BY KtParts DEF K!kt_exit
<1> QED BY <1>1 DEF Placed

LEMMA PlacedP ==
  ASSUME NEW k \in K!KtState(Sems, Procs), NEW s \in Sems, NEW j, j = K!P_kt_sem(k, s),
         NEW q \in Procs, Placed(k, q)
  PROVE  Placed(j, q)
<1>0. /\ k.val \in [Sems -> Int] /\ k.asleep \in [Sems -> SUBSET Procs]
      /\ k = [val |-> k.val, asleep |-> k.asleep, ready |-> k.ready, running |-> k.running]
  BY KtParts
<1>1. CASE k.val[s] > 0
  <2>1. j = [k EXCEPT !.val[s] = @ - 1]
    BY <1>1 DEF K!P_kt_sem
  <2>2. j.asleep = k.asleep /\ j.ready = k.ready /\ j.running = k.running
    BY <1>0, <2>1
  <2> QED BY <2>2 DEF Placed
<1>2. CASE ~(k.val[s] > 0)
  <2>1. j = [k EXCEPT !.val[s] = @ - 1, !.asleep[s] = @ \cup {k.running},
                      !.running = NoThread]
    BY <1>2 DEF K!P_kt_sem
  <2>2. j.asleep = [k.asleep EXCEPT ![s] = @ \cup {k.running}] /\ j.ready = k.ready
    BY <1>0, <2>1
  <2>3. /\ k.running \in j.asleep[s]
        /\ \A r \in Sems : k.asleep[r] \subseteq j.asleep[r]
    BY <1>0, <2>2
  <2> QED BY <2>2, <2>3 DEF Placed
<1> QED BY <1>1, <1>2

LEMMA PlacedVs ==
  ASSUME NEW k \in K!KtState(Sems, Procs), NEW s \in Sems, NEW n \in Int, NEW T,
         NEW j, j = Released(k, s, n, T), NEW q \in Procs, Placed(k, q)
  PROVE  Placed(j, q)
<1>0. /\ k.val \in [Sems -> Int] /\ k.asleep \in [Sems -> SUBSET Procs]
      /\ k = [val |-> k.val, asleep |-> k.asleep, ready |-> k.ready, running |-> k.running]
  BY KtParts
<1>1. /\ j.asleep = [k.asleep EXCEPT ![s] = @ \ T]
      /\ j.ready = k.ready \cup T /\ j.running = k.running
  BY <1>0 DEF Released
<1>2. \A r \in Sems : k.asleep[r] \subseteq j.asleep[r] \cup T
  BY <1>0, <1>1
<1> QED BY <1>1, <1>2 DEF Placed

LEMMA PlacedV ==
  ASSUME NEW k \in K!KtState(Sems, Procs), NEW s \in Sems, NEW j \in K!V_kt_sem(k, s),
         NEW q \in Procs, Placed(k, q)
  PROVE  Placed(j, q)
<1>1. PICK T : j = Released(k, s, 1, T)
  <2>1. CASE k.asleep[s] = {}
    <3>1. j = [k EXCEPT !.val[s] = @ + 1]
      BY <2>1 DEF K!V_kt_sem
    <3>2. /\ k.val \in [Sems -> Int] /\ k.asleep \in [Sems -> SUBSET Procs]
          /\ k = [val |-> k.val, asleep |-> k.asleep, ready |-> k.ready,
                  running |-> k.running]
      BY KtParts
    <3>3. j = Released(k, s, 1, {})
      BY <3>1, <3>2 DEF Released
    <3> QED BY <3>3
  <2>2. CASE k.asleep[s] # {}
    BY <2>2 DEF K!V_kt_sem, Released
  <2> QED BY <2>1, <2>2
<1> QED BY <1>1, PlacedVs

(* A step that leaves the others' labels alone and takes nobody out; and   *)
(* the end of a call, from the state k its last V leaves.                  *)
LEMMA KeepsPlaces ==
  ASSUME PipeInv, Somewhere, NEW p \in Procs, NEW l, Goto(p, l), kt.running = p,
         \A q \in Procs : Placed(kt, q) => Placed(kt', q)
  PROVE  Somewhere'
<1>1. \A q \in Procs \ {p} : pc'[q] = pc[q]
  BY DEF Goto, PipeInv
<1>2. Placed(kt, p)
  BY DEF Placed
<1> QED BY <1>1, <1>2 DEF Somewhere

LEMMA CallEnds ==
  ASSUME PipeInv, Somewhere, NEW p \in Procs, Goto(p, "user"),
         NEW k \in K!KtState(Sems, Procs), k.running = p, kt' = K!kt_exit(k),
         \A q \in Procs : Placed(kt, q) => Placed(k, q)
  PROVE  Somewhere'
<1>1. pc'[p] = "user" /\ \A q \in Procs \ {p} : pc'[q] = pc[q]
  BY DEF Goto, PipeInv
<1>2. PICK j : j = kt'
  OBVIOUS
<1>3. \A q \in Procs \ {p} : Placed(kt, q) => Placed(j, q)
  BY <1>2, PlacedExit
<1> QED BY <1>1, <1>2, <1>3 DEF Somewhere

LEMMA SomewhereKernel ==
  ASSUME PipeInv, Somewhere, NEW p \in Procs, kt.running = p,
         \/ do_write_refuse(p) \/ do_write(p) \/ write_start(p) \/ write_put(p)
         \/ write_ack(p) \/ write_epipe(p) \/ write_done(p)
         \/ do_read_refuse(p) \/ do_read(p) \/ read_start(p) \/ read_no_writers(p)
         \/ read_taken_all(p) \/ read_next(p) \/ read_eof(p) \/ read_byte(p) \/ read_done(p)
  PROVE  Somewhere'
<1> USE Names
<1>1. kt \in K!KtState(Sems, Procs) /\ Sane(kt, pc)
  BY DEF PipeInv, Sane
<1>2. CASE do_write_refuse(p) \/ do_read_refuse(p)
  <2>1. kt' = K!kt_exit(kt) /\ Goto(p, "user")
    BY <1>2 DEF do_write_refuse, do_read_refuse, Refuse, syscall_return
  <2> QED BY <1>1, <2>1, CallEnds
<1>3. CASE write_start(p) \/ read_start(p)
  <2>1. PICK l : kt' = kt /\ Goto(p, l)
    BY <1>3 DEF write_start, read_start
  <2> QED BY <2>1, KeepsPlaces
<1>4. CASE do_write(p) \/ write_put(p) \/ do_read(p) \/ read_next(p)
  <2>1. PICK s \in Sems, l \in Labels : Sleep(p, s, l)
    BY <1>4 DEF do_write, write_put, do_read, read_next, Labels
  <2>2. PICK j : j = kt'
    OBVIOUS
  <2>3. \A q \in Procs : Placed(kt, q) => Placed(j, q)
    BY <1>1, <2>1, <2>2, PlacedP DEF Sleep
  <2> QED BY <2>1, <2>2, <2>3, KeepsPlaces DEF Sleep
<1>5. CASE write_ack(p) \/ read_byte(p)
  <2>1. PICK s \in Sems, l \in Labels : kt' \in K!V_kt_sem(kt, s) /\ Goto(p, l)
    BY <1>5 DEF write_ack, read_byte, Labels
  <2>2. PICK j \in K!V_kt_sem(kt, s) : j = kt'
    BY <2>1
  <2>3. \A q \in Procs : Placed(kt, q) => Placed(j, q)
    BY <1>1, PlacedV
  <2> QED BY <2>1, <2>2, <2>3, KeepsPlaces
<1>6. CASE write_epipe(p) \/ write_done(p) \/ read_no_writers(p) \/ read_taken_all(p)
             \/ read_done(p)
  <2>1. PICK s \in Sems : Return(p, s)
    BY <1>6 DEF write_epipe, write_done, read_no_writers, read_taken_all, read_done
  <2>2. PICK k \in K!V_kt_sem(kt, s) : kt' = K!kt_exit(k)
    BY <2>1 DEF Return
  <2>3. Goto(p, "user")
    BY <2>1 DEF Return, syscall_return
  <2>4. k \in K!KtState(Sems, Procs) /\ k.running = p
    <3>1. Sane(k, pc) /\ k.running = kt.running
      BY <1>1, SaneV
    <3> QED BY <3>1 DEF Sane
  <2>5. \A q \in Procs : Placed(kt, q) => Placed(k, q)
    BY <1>1, PlacedV
  <2> QED BY <2>2, <2>3, <2>4, <2>5, CallEnds
<1>7. CASE read_eof(p)
  <2>1. PICK k \in K!V_kt_sem(kt, "space_available") :
          \E j \in K!V_kt_sem(k, "read") : kt' = K!kt_exit(j)
    BY <1>7 DEF read_eof
  <2>2. PICK j \in K!V_kt_sem(k, "read") : kt' = K!kt_exit(j)
    BY <2>1
  <2>3. Goto(p, "user")
    BY <1>7 DEF read_eof, syscall_return
  <2>4. Sane(k, pc) /\ k.running = p
    BY <1>1, SaneV
  <2>5. Sane(j, pc) /\ j.running = p
    BY <2>4, SaneV
  <2>6. k \in K!KtState(Sems, Procs) /\ j \in K!KtState(Sems, Procs)
    BY <2>4, <2>5 DEF Sane
  <2>7. \A q \in Procs : Placed(kt, q) => Placed(j, q)
    BY <1>1, <2>6, PlacedV
  <2> QED BY <2>2, <2>3, <2>5, <2>6, <2>7, CallEnds
<1> QED BY <1>2, <1>3, <1>4, <1>5, <1>6, <1>7

LEMMA SomewhereUser ==
  ASSUME PipeInv, Somewhere, NEW p \in Procs,
         \/ Dispatch(p) \/ SyscallRead(p) \/ SyscallWrite(p)
         \/ do_close_read(p) \/ do_close_write(p) \/ do_exit(p)
         \/ \E c \in Procs : do_fork(p, c)
  PROVE  Somewhere'
<1>1. /\ kt \in K!KtState(Sems, Procs) /\ pc \in [Procs -> Labels]
      /\ kt = [val |-> kt.val, asleep |-> kt.asleep, ready |-> kt.ready,
               running |-> kt.running]
  BY KtParts DEF PipeInv, Sane
<1>2. CASE Dispatch(p)
  <2>1. /\ kt.running = NoThread /\ kt'.asleep = kt.asleep
        /\ kt'.ready = kt.ready \ {p} /\ kt'.running = p /\ pc' = pc
    BY <1>1, <1>2 DEF Dispatch, K!MayRun, K!Dispatched
  <2> QED BY <2>1, KosPipeAssumption DEF Somewhere, Placed
<1>3. CASE SyscallRead(p) \/ SyscallWrite(p)
  <2>1. /\ kt' = K!kt_fork(kt, p) /\ \A q \in Procs \ {p} : pc'[q] = pc[q]
    BY <1>1, <1>3 DEF SyscallRead, SyscallWrite, Goto
  <2>2. kt'.asleep = kt.asleep /\ kt'.ready = kt.ready \cup {p} /\ kt'.running = kt.running
    BY <1>1, <2>1 DEF K!kt_fork
  <2> QED BY <2>1, <2>2 DEF Somewhere, Placed
<1>4. CASE do_close_write(p) \/ \E c \in Procs : do_fork(p, c)
  BY <1>4 DEF do_close_write, do_fork, Somewhere
<1>5. CASE do_exit(p)
  <2>1. kt' = kt /\ pc'[p] = "exited" /\ \A q \in Procs \ {p} : pc'[q] = pc[q]
    BY <1>1, <1>5 DEF do_exit, Goto
  <2> QED BY <2>1 DEF Somewhere
<1>6. CASE do_close_read(p)
  <2>1. pc' = pc /\ kt' \in IF read_count = 1 THEN ReadersGone ELSE {kt}
    BY <1>6 DEF do_close_read
  <2>2. CASE read_count = 1
    <3>1. PICK T : kt' = Released(kt, "space_available", write_count, T)
      BY <2>1, <2>2 DEF ReadersGone, K!V_kt_sems, Released
    <3>2. write_count \in Int
      BY HavingFinite DEF PipeInv, Opened
    <3>3. PICK j : j = kt'
      OBVIOUS
    <3>4. \A q \in Procs : Placed(kt, q) => Placed(j, q)
      BY <1>1, <3>1, <3>2, <3>3, Names, PlacedVs
    <3> QED BY <2>1, <3>3, <3>4 DEF Somewhere
  <2>3. CASE read_count # 1
    BY <2>1, <2>3 DEF Somewhere
  <2> QED BY <2>2, <2>3
<1> QED BY <1>2, <1>3, <1>4, <1>5, <1>6

LEMMA SomewhereStep == PipeInv /\ Somewhere /\ [Next]_vars => Somewhere'
<1> SUFFICES ASSUME PipeInv, Somewhere, [Next]_vars PROVE Somewhere'
  OBVIOUS
<1>1. CASE Kernel
  BY <1>1, SomewhereKernel, SomewhereUser
     DEF Kernel, At, do_write_refuse, do_write, write_start, write_put, write_ack,
         write_epipe, write_done, do_read_refuse, do_read, read_start, read_no_writers,
         read_taken_all, read_next, read_eof, read_byte, read_done
<1>2. CASE User
  BY <1>2, SomewhereUser DEF User
<1>3. CASE UNCHANGED vars
  BY <1>3 DEF vars, Somewhere
<1> QED BY <1>1, <1>2, <1>3 DEF Next

(* With one asleep on each, both semaphores are at zero, and nobody who is *)
(* awake has a unit of either: the buffer would have no slots.             *)
LEMMA NotBoth == PipeInv => kt.asleep["nelement"] = {} \/ kt.asleep["space_available"] = {}
<1> SUFFICES ASSUME PipeInv, NEW p \in kt.asleep["nelement"],
                    NEW q \in kt.asleep["space_available"]
    PROVE  FALSE
  OBVIOUS
<1> USE Names
<1>1. /\ Sane(kt, pc) /\ \A s \in Sems : kt.asleep[s] \subseteq Procs /\ kt.val[s] \in Int
  BY KtParts DEF PipeInv, Sane
<1>2. p \in Procs /\ q \in Procs /\ pc[p] = "take" /\ pc[q] = "ack"
  BY <1>1 DEF Sane, WaitsAt
<1>3. \A t \in Procs : /\ pc[t] = "take" => t \in Reading
                       /\ pc[t] = "ack" => t \in Writing
  BY <1>1 DEF Sane, WaitsAt, Reading, Writing
<1>4. SlotInv /\ Reading \in SUBSET Procs /\ Writing \in SUBSET Procs
  BY Follows DEF Reading, Writing
<1>5. Takes = {}
  <2> SUFFICES ASSUME NEW t \in Takes PROVE FALSE
    OBVIOUS
  <2>1. t \in Reading /\ p \in Reading /\ t # p
    BY <1>2, <1>3 DEF Takes
  <2> QED BY <1>4, <2>1, AtMostOne DEF SlotInv
<1>6. Acks \ kt.asleep["space_available"] = {}
  <2> SUFFICES ASSUME NEW t \in Acks \ kt.asleep["space_available"] PROVE FALSE
    OBVIOUS
  <2>1. t \in Writing /\ q \in Writing /\ t # q
    BY <1>2, <1>3 DEF Acks
  <2> QED BY <1>4, <2>1, AtMostOne DEF SlotInv
<1>7. Units("nelement") = 0 /\ Units("space_available") = 0
  BY <1>1 DEF Sane, Counted, Units
<1>8. read_count # 0
  <2>1. "r" \in open[p]
    BY <1>2 DEF PipeInv, Entered
  <2> QED BY <1>2, <2>1, HavingFinite DEF PipeInv, Opened, Having
<1>9. Free + Unread = 0
  <2>1. Cardinality(Takes) = 0 /\ Cardinality(Acks \ kt.asleep["space_available"]) = 0
    BY <1>5, <1>6, FS_EmptySet
  <2> QED BY <1>7, <2>1 DEF Free, Unread
<1> QED BY <1>4, <1>8, <1>9, KosPipeAssumption DEF SlotInv

(* Whoever sleeps behind a mutex is counted against one who is past it.    *)
LEMMA OneInside ==
  ASSUME PipeInv, NEW s \in {"read", "write"}, kt.asleep[s] # {}
  PROVE  \E p \in Procs : pc[p] \in UsedAt(s) /\ p \notin kt.asleep[s]
<1> USE Names
<1>1. Sane(kt, pc) /\ Loads(kt.val, pc, read_count) /\ s \in Sems
  BY DEF PipeInv
<1>2. kt.val[s] + Cardinality(kt.asleep[s]) = 0
  BY <1>1 DEF Sane, Counted
<1>3. kt.val[s] + Cardinality(Using(pc, s)) = 1
  BY <1>1 DEF Loads, Load
<1>4. Cardinality(Using(pc, s) \ kt.asleep[s]) # 0
  <2>1. /\ Cardinality(Using(pc, s))
             = Cardinality(kt.asleep[s]) + Cardinality(Using(pc, s) \ kt.asleep[s])
        /\ Cardinality(kt.asleep[s]) \in Nat /\ kt.val[s] \in Int
        /\ Cardinality(Using(pc, s) \ kt.asleep[s]) \in Nat
    BY <1>1, AwakeCount
  <2> HIDE Names
  <2> QED BY <1>2, <1>3, <2>1
<1>5. Using(pc, s) \ kt.asleep[s] # {}
  BY <1>4, FS_EmptySet
<1> QED BY <1>5 DEF Using, AtLabels

LEMMA SomebodyWakes == PipeInv /\ Somewhere => NoStandstill
<1> SUFFICES ASSUME PipeInv, Somewhere PROVE NoStandstill
  OBVIOUS
<1> USE Names
<1>1. Sane(kt, pc) /\ \A s \in Sems : kt.asleep[s] \subseteq Procs
  BY KtParts DEF PipeInv, Sane
<1>2. ASSUME K!AllAsleep(kt), NEW q \in Procs, pc[q] \notin {"user", "exited"}
      PROVE  \E r \in Sems : q \in kt.asleep[r] /\ pc[q] = WaitsAt(r)
  <2>1. Placed(kt, q) /\ kt.ready = {} /\ kt.running = NoThread
    BY <1>2 DEF Somewhere, K!AllAsleep
  <2>2. PICK r \in Sems : q \in kt.asleep[r]
    BY <2>1, KosPipeAssumption DEF Placed
  <2> QED BY <1>1, <2>2 DEF Sane
<1>3. ASSUME K!AllAsleep(kt), kt.asleep["read"] # {} PROVE kt.asleep["nelement"] # {}
  <2>1. PICK q \in Procs : pc[q] \in UsedAt("read") /\ q \notin kt.asleep["read"]
    BY <1>3, OneInside
  <2>2. PICK r \in Sems : q \in kt.asleep[r] /\ pc[q] = WaitsAt(r)
    BY <1>2, <1>3, <2>1
  <2>3. r = "nelement"
    BY <2>1, <2>2 DEF WaitsAt
  <2> QED BY <2>2, <2>3
<1>4. ASSUME K!AllAsleep(kt), kt.asleep["write"] # {} PROVE kt.asleep["space_available"] # {}
  <2>1. PICK q \in Procs : pc[q] \in UsedAt("write") /\ q \notin kt.asleep["write"]
    BY <1>4, OneInside
  <2>2. PICK r \in Sems : q \in kt.asleep[r] /\ pc[q] = WaitsAt(r)
    BY <1>2, <1>4, <2>1
  <2>3. r = "space_available"
    BY <2>1, <2>2 DEF WaitsAt
  <2> QED BY <2>2, <2>3
<1> QED BY <1>3, <1>4, NotBoth DEF NoStandstill

-----------------------------------------------------------------------------
(* After the last close of a read end: the units of space are enough for   *)
(* every writer that has yet to store its byte.                            *)
Filling == {"wstart", "put"}
NobodyExited(f) == \A q \in Procs : f[q] # "exited"
Enough ==
  read_count = 0 /\ NobodyExited(pc) =>
    kt.val["space_available"] >= Cardinality(AtLabels(pc, Filling))

(* A step of a call takes no unit but for the byte it stores.              *)
LEMMA KeepsEnough ==
  ASSUME PipeInv, Enough, NEW p \in Procs, NEW l \in Labels, Goto(p, l), pc[p] # "exited",
         read_count' = read_count, NEW v \in [Sems -> Int], kt'.val = v,
         v["space_available"] - kt.val["space_available"]
           >= (IF l \in Filling THEN 1 ELSE 0) - (IF pc[p] \in Filling THEN 1 ELSE 0)
  PROVE  Enough'
<1>1. pc \in [Procs -> Labels] /\ kt.val["space_available"] \in Int
  BY KtParts, Names DEF PipeInv, Sane
<1>2. PICK g : g = To(pc, p, l) /\ g = pc'
  BY DEF Goto, To
<1>3. NobodyExited(g) => NobodyExited(pc)
  BY <1>1, <1>2 DEF NobodyExited, To
<1>4. /\ Cardinality(AtLabels(pc, Filling)) \in Nat
      /\ Cardinality(AtLabels(g, Filling)) = Cardinality(AtLabels(pc, Filling))
           + (IF l \in Filling THEN 1 ELSE 0) - (IF pc[p] \in Filling THEN 1 ELSE 0)
  <2>1. PICK L : L = Filling
    OBVIOUS
  <2>2. g = To(pc, p, l)
    BY <1>2
  <2>3. /\ Cardinality(AtLabels(pc, L)) \in Nat
        /\ Cardinality(AtLabels(g, L)) = Cardinality(AtLabels(pc, L))
             + (IF l \in L THEN 1 ELSE 0) - (IF pc[p] \in L THEN 1 ELSE 0)
    BY <1>1, <2>2, LabelMoved
  <2> QED BY <2>1, <2>3
<1>5. v["space_available"] \in Int
  BY Names
<1>6. read_count = 0 /\ NobodyExited(g) =>
        v["space_available"] >= Cardinality(AtLabels(g, Filling))
  BY <1>1, <1>3, <1>4, <1>5 DEF Enough
<1> QED BY <1>2, <1>6 DEF Enough

LEMMA EnoughKernel ==
  ASSUME PipeInv, PipeInv', Enough, NEW p \in Procs, kt.running = p,
         \/ do_write_refuse(p) \/ do_write(p) \/ write_start(p) \/ write_put(p)
         \/ write_ack(p) \/ write_epipe(p) \/ write_done(p)
         \/ do_read_refuse(p) \/ do_read(p) \/ read_start(p) \/ read_no_writers(p)
         \/ read_taken_all(p) \/ read_next(p) \/ read_eof(p) \/ read_byte(p) \/ read_done(p)
  PROVE  Enough'
<1> USE Names DEF Labels, Filling
<1>1. /\ kt.val \in [Sems -> Int] /\ kt.val["space_available"] \in Int /\ Sane(kt, pc)
      /\ read_count' = read_count /\ pc[p] # "exited"
  BY Awake DEF do_write_refuse, do_write, write_start, write_put, write_ack, write_epipe,
               write_done, do_read_refuse, do_read, read_start, read_no_writers,
               read_taken_all, read_next, read_eof, read_byte, read_done, At, ends, counts
<1>2. PICK v \in [Sems -> Int] : v = kt'.val
  BY KtParts DEF PipeInv, Sane
<1>3. CASE do_write_refuse(p) \/ do_read_refuse(p)
  <2>1. /\ pc[p] \in {"do_write", "do_read"} /\ Goto(p, "user") /\ kt' = K!kt_exit(kt)
    BY <1>3 DEF do_write_refuse, do_read_refuse, At, Refuse, syscall_return
  <2>2. kt'.val = kt.val
    BY <2>1, Refuses
  <2> QED BY <1>1, <2>1, <2>2, KeepsEnough
<1>4. CASE write_start(p) \/ read_start(p)
  <2>1. /\ kt' = kt
        /\ \/ pc[p] = "wstart" /\ Goto(p, "put")
           \/ pc[p] = "rstart" /\ Goto(p, "test")
    BY <1>4 DEF write_start, read_start, At
  <2> QED BY <1>1, <2>1, KeepsEnough
<1>5. CASE do_write(p)
  <2>1. read_count # 0
    BY <1>5 DEF do_write
  <2> QED BY <1>1, <2>1 DEF Enough
<1>6. CASE write_put(p)
  <2>1. pc[p] = "put" /\ Sleep(p, "space_available", "ack")
    BY <1>6 DEF write_put, At
  <2>2. kt'.val = [kt.val EXCEPT !["space_available"] = @ - 1]
    BY <2>1, Sleeps DEF WaitsAt
  <2>3. v["space_available"] = kt.val["space_available"] - 1
    BY <1>1, <1>2, <2>2
  <2> QED BY <1>1, <1>2, <2>1, <2>3, KeepsEnough DEF Sleep
<1>7. CASE write_ack(p)
  <2>1. read_count # 0
    BY <1>7 DEF write_ack
  <2> QED BY <1>1, <2>1 DEF Enough
<1>8. CASE do_read(p) \/ read_next(p)
  <2>1. PICK s \in {"read", "nelement"} :
          pc[p] \in {"do_read", "test"} /\ Sleep(p, s, WaitsAt(s))
    BY <1>8 DEF do_read, read_next, At, WaitsAt
  <2>2. kt'.val = [kt.val EXCEPT ![s] = @ - 1]
    BY <2>1, Sleeps
  <2>3. v["space_available"] = kt.val["space_available"]
    BY <1>1, <1>2, <2>1, <2>2
  <2>4. Goto(p, WaitsAt(s)) /\ WaitsAt(s) \in {"rstart", "take"}
    BY <2>1 DEF Sleep, WaitsAt
  <2> QED BY <1>1, <1>2, <2>1, <2>3, <2>4, KeepsEnough
<1>9. CASE write_epipe(p) \/ write_done(p) \/ read_no_writers(p) \/ read_taken_all(p)
             \/ read_done(p)
  <2>1. PICK s \in {"read", "write"} : Return(p, s)
    BY <1>9 DEF write_epipe, write_done, read_no_writers, read_taken_all, read_done
  <2>2. kt'.val = [kt.val EXCEPT ![s] = @ + 1] /\ Goto(p, "user")
    BY <2>1, Returns
  <2>3. v["space_available"] = kt.val["space_available"]
    BY <1>1, <1>2, <2>1, <2>2
  <2> QED BY <1>1, <1>2, <2>2, <2>3, KeepsEnough
<1>10. CASE read_eof(p) \/ read_byte(p)
  <2>1. pc[p] = "take"
    BY <1>10 DEF read_eof, read_byte, At
  <2>2. read_count # 0
    <3>1. "r" \in open[p]
      BY <2>1 DEF PipeInv, Entered
    <3> QED BY <3>1, HavingFinite DEF PipeInv, Opened, Having
  <2> QED BY <1>1, <2>2 DEF Enough
<1> QED BY <1>3, <1>4, <1>5, <1>6, <1>7, <1>8, <1>9, <1>10

(* Every writer inside, and every one that waits to come in, has the write *)
(* end open, and those that sleep for space have stored their byte.        *)
LEMMA LastReaderCloses ==
  ASSUME PipeInv, Somewhere, NEW p \in Procs, do_close_read(p), read_count = 1
  PROVE  kt'.val["space_available"] >= Cardinality(AtLabels(pc, Filling))
<1> USE Names
<1>1. Sane(kt, pc) /\ Opened /\ kt.val \in [Sems -> Int] /\ kt.asleep \in [Sems -> SUBSET Procs]
  BY KtParts DEF PipeInv, Sane
<1>2. PICK T : kt' = Released(kt, "space_available", write_count, T)
  BY DEF do_close_read, ReadersGone, K!V_kt_sems, Released
<1>3. write_count \in Nat /\ kt.val["space_available"] \in Int
  BY <1>1, HavingFinite DEF Opened
<1>4. kt'.val["space_available"] = kt.val["space_available"] + write_count
  <2>1. /\ kt = [val |-> kt.val, asleep |-> kt.asleep, ready |-> kt.ready,
                 running |-> kt.running]
    BY <1>1, KtParts DEF Sane
  <2>2. kt'.val = [kt.val EXCEPT !["space_available"] = @ + write_count]
    BY <1>2, <2>1 DEF Released
  <2> QED BY <1>1, <2>2
<1>5. PICK A, F, U : /\ A = kt.asleep["space_available"]
                     /\ F = AtLabels(pc, Filling) /\ U = Having(open, "w")
  OBVIOUS
<1>6. A \subseteq U /\ F \subseteq U /\ A \cap F = {}
  <2>1. \A q \in A : q \in Procs /\ pc[q] = "ack"
    BY <1>1, <1>5 DEF Sane, WaitsAt
  <2>2. \A q \in F : q \in Procs /\ pc[q] \in {"wstart", "put"}
    BY <1>5 DEF AtLabels, Filling
  <2> QED BY <1>5, <2>1, <2>2 DEF PipeInv, Entered, Having
<1>7. IsFiniteSet(A) /\ IsFiniteSet(F) /\ IsFiniteSet(U) /\ Cardinality(U) = write_count
  BY <1>1, <1>5, <1>6, HavingFinite, FS_Subset DEF Opened
<1>8. Cardinality(A) + Cardinality(F) <= write_count /\ Cardinality(A) \in Nat /\ Cardinality(F) \in Nat
  <2>1. /\ IsFiniteSet(A \cup F)
        /\ Cardinality(A \cup F) = Cardinality(A) + Cardinality(F) - Cardinality(A \cap F)
    BY <1>7, FS_Union
  <2>2. Cardinality(A \cap F) = 0
    BY <1>6, FS_EmptySet
  <2>3. Cardinality(A \cup F) <= Cardinality(U)
    BY <1>6, <1>7, FS_Subset
  <2>4. Cardinality(A) \in Nat /\ Cardinality(F) \in Nat
    BY <1>7, FS_CardinalityType
  <2> QED BY <1>7, <2>1, <2>2, <2>3, <2>4
<1>9. kt.val["space_available"] + Cardinality(A) >= 0
  BY <1>1, <1>5 DEF Sane, Counted
<1> QED BY <1>3, <1>4, <1>5, <1>8, <1>9

LEMMA EnoughUser ==
  ASSUME PipeInv, Somewhere, Enough, NEW p \in Procs,
         \/ Dispatch(p) \/ SyscallRead(p) \/ SyscallWrite(p)
         \/ do_close_read(p) \/ do_close_write(p) \/ do_exit(p)
         \/ \E c \in Procs : do_fork(p, c)
  PROVE  Enough'
<1>1. /\ kt \in K!KtState(Sems, Procs) /\ Sane(kt, pc) /\ pc \in [Procs -> Labels]
      /\ kt.val \in [Sems -> Int] /\ kt.val["space_available"] \in Int
      /\ read_count \in Nat /\ read_count = Cardinality(Having(open, "r"))
  BY KtParts, Names, HavingFinite DEF PipeInv, Sane, Opened
<1>2. CASE Dispatch(p)
  <2>1. K!MayRun(kt, p) /\ kt' = K!Dispatched(kt, p) /\ UNCHANGED <<pc, read_count>>
    BY <1>2 DEF Dispatch, ends, counts
  <2>2. PICK j : j = kt'
    OBVIOUS
  <2>3. j.val = kt.val
    BY <1>1, <2>1, <2>2, SaneDispatch
  <2> QED BY <2>1, <2>2, <2>3 DEF Enough
<1>3. CASE SyscallRead(p) \/ SyscallWrite(p)
  <2>1. PICK l \in {"do_read", "do_write"} :
          /\ pc[p] = "user" /\ kt' = K!kt_fork(kt, p) /\ Goto(p, l)
          /\ read_count' = read_count
    BY <1>3 DEF SyscallRead, SyscallWrite, InUser, ends, counts
  <2>2. kt'.val = kt.val
    <3>1. kt = [val |-> kt.val, asleep |-> kt.asleep, ready |-> kt.ready,
                running |-> kt.running]
      BY <1>1, KtParts
    <3> QED BY <2>1, <3>1 DEF K!kt_fork
  <2>3. l \in Labels /\ l \notin Filling
    BY DEF Labels, Filling
  <2>4. "user" \notin Filling
    BY DEF Filling
  <2> QED BY <1>1, <2>1, <2>2, <2>3, <2>4, KeepsEnough
<1>4. CASE do_close_write(p)
  BY <1>4 DEF do_close_write, Enough
<1>5. CASE \E c \in Procs : do_fork(p, c)
  <2>1. kt' = kt /\ pc' = pc /\ read_count' = read_count + One("r" \in open[p])
    BY <1>5 DEF do_fork
  <2>2. read_count' = 0 => read_count = 0
    BY <1>1, <2>1 DEF One
  <2> QED BY <2>1, <2>2 DEF Enough
<1>6. CASE do_exit(p)
  <2>1. pc'[p] = "exited"
    BY <1>1, <1>6 DEF do_exit, Goto
  <2> QED BY <2>1 DEF Enough, NobodyExited
<1>7. CASE do_close_read(p)
  <2>1. pc' = pc /\ read_count' = read_count - 1 /\ "r" \in open[p]
    BY <1>7 DEF do_close_read
  <2>2. read_count # 0
    BY <1>1, <2>1, HavingFinite DEF Having
  <2>3. CASE read_count = 1
    BY <1>7, <2>1, <2>3, LastReaderCloses DEF Enough
  <2>4. CASE read_count # 1
    <3>1. read_count' # 0
      BY <1>1, <2>1, <2>4
    <3> QED BY <3>1 DEF Enough
  <2> QED BY <2>3, <2>4
<1> QED BY <1>2, <1>3, <1>4, <1>5, <1>6, <1>7

LEMMA EnoughStep == PipeInv /\ PipeInv' /\ Somewhere /\ Enough /\ [Next]_vars => Enough'
<1> SUFFICES ASSUME PipeInv, PipeInv', Somewhere, Enough, [Next]_vars PROVE Enough'
  OBVIOUS
<1>1. CASE Kernel
  BY <1>1, EnoughKernel, EnoughUser
     DEF Kernel, At, do_write_refuse, do_write, write_start, write_put, write_ack,
         write_epipe, write_done, do_read_refuse, do_read, read_start, read_no_writers,
         read_taken_all, read_next, read_eof, read_byte, read_done
<1>2. CASE User
  BY <1>2, EnoughUser DEF User
<1>3. CASE UNCHANGED vars
  BY <1>3 DEF vars, ends, counts, Enough
<1> QED BY <1>1, <1>2, <1>3 DEF Next

(* Whoever slept for space would be counted by a value below 0.            *)
LEMMA WritersGo == PipeInv /\ Enough /\ NoStandstill => WritersLeave
<1> SUFFICES ASSUME PipeInv, Enough, NoStandstill, read_count = 0, NobodyExited(pc)
    PROVE  kt.asleep["space_available"] = {}
  BY DEF WritersLeave, NoStandstill, NobodyExited
<1>1. kt.asleep["space_available"] = {} \/
        kt.val["space_available"] + Cardinality(kt.asleep["space_available"]) = 0
  BY Names DEF PipeInv, Sane, Counted
<1>2. /\ IsFiniteSet(kt.asleep["space_available"])
      /\ Cardinality(kt.asleep["space_available"]) \in Nat /\ kt.val["space_available"] \in Int
  BY KtParts, SleepersFinite, Names DEF PipeInv, Sane
<1>3. Cardinality(AtLabels(pc, Filling)) \in Nat
  BY KosPipeAssumption, FS_Subset, FS_CardinalityType DEF AtLabels
<1>4. kt.val["space_available"] >= 0
  BY <1>2, <1>3 DEF Enough
<1> QED BY <1>1, <1>2, <1>4, FS_EmptySet

-----------------------------------------------------------------------------
(* The counts in struct Pipe are the descriptors that refer to it through  *)
(* fork, close and exit, the pipe is freed with the last of them, and a    *)
(* call of read or write in the pipe has its end open until it returns.    *)
THEOREM EndsHold == Spec => []EndInv
BY PipeHolds, Follows, PTL

(* do_read and do_write let one reader and one writer in at a time, and    *)
(* while the pipe has readers nelement and space_available make up the     *)
(* buffer, whatever the order of the threads and however calls end.        *)
THEOREM SlotsHold == Spec => []SlotInv
BY PipeHolds, Follows, PTL

(* Every variable stays in its range whatever processes do: no loop's      *)
(* index goes further behind the buffer than the bytes of one call, what   *)
(* writer_in_use counts was stored, and a negative value of a semaphore is *)
(* the number of threads asleep on it.                                     *)
THEOREM PipeTypes == Spec => []TypeOK
<1>1. Init => PipeInv /\ Ranges
  BY InitPipe, InitRanges
<1>2. PipeInv /\ Ranges /\ [Next]_vars => (PipeInv /\ Ranges)'
  BY PipeStep, RangesStep
<1> QED BY <1>1, <1>2, TypesFollow, PTL DEF Spec

(* Until the buffer has been used up once, and without a byte 0xFF, what   *)
(* readers get is what writers stored, in order, whichever threads read    *)
(* and write, and none of it is lost while somebody can read.              *)
THEOREM FirstLapHolds == Spec => []FirstLapInv
<1>1. Init => PipeInv /\ Ranges /\ Lap
  BY InitPipe, InitRanges, InitLap
<1>2. PipeInv /\ Ranges /\ Lap /\ [Next]_vars => (PipeInv /\ Ranges /\ Lap)'
  BY PipeStep, RangesStep, LapStep
<1> QED BY <1>1, <1>2, FirstLapFollows, PTL DEF Spec

(* Reader and writer never sleep for each other, and while the kernel      *)
(* rests whoever sleeps on read or on write waits for one who sleeps       *)
(* inside, not for a V of read or write that was never done (do_read,      *)
(* do_write, do_close), whatever the order of the threads.                 *)
THEOREM NobodyIsLost == Spec => []NoStandstill
<1>1. Init => PipeInv /\ Somewhere
  <2>1. Init => Somewhere
    BY DEF Init, Somewhere
  <2> QED BY <2>1, InitPipe
<1>2. PipeInv /\ Somewhere /\ [Next]_vars => (PipeInv /\ Somewhere)'
  BY PipeStep, SomewhereStep
<1> QED BY <1>1, <1>2, SomebodyWakes, PTL DEF Spec

(* When the last read end is closed, and nobody has exited, every writer   *)
(* finds room for one more byte and with it the end of its call, however   *)
(* many sleep for space or behind the mutex: do_close's one V for each     *)
(* write end is enough, and none of it is spent twice.                     *)
THEOREM WritersAreReleased == Spec => []WritersLeave
<1>1. Init => PipeInv /\ Somewhere /\ Enough
  <2>1. Init => Somewhere /\ Enough
    BY DEF Init, Somewhere, Enough
  <2> QED BY <2>1, InitPipe
<1>2. PipeInv /\ Somewhere /\ Enough /\ [Next]_vars => (PipeInv /\ Somewhere /\ Enough)'
  BY PipeStep, SomewhereStep, EnoughStep
<1>3. PipeInv /\ Somewhere /\ Enough => WritersLeave
  BY SomebodyWakes, WritersGo
<1> QED BY <1>1, <1>2, <1>3, PTL DEF Spec

(* A run that never stores more than the buffer holds, and no byte 0xFF,   *)
(* reads what was written, in order: without these two do_read and         *)
(* do_write do what test/pipe-bin.c expects of them.                       *)
THEOREM ShortPipesInOrder ==
  ASSUME MaxBytes <= Size, (1 .. MaxBytes) \cap FFs = {}
  PROVE  Spec => []ReadsInOrder
<1>1. TypeOK /\ FirstLapInv => ReadsInOrder
  <2> SUFFICES ASSUME TypeOK, FirstLapInv PROVE ReadsInOrder
    OBVIOUS
  <2>1. stored \in 0 .. MaxBytes /\ MaxBytes \in Nat /\ Size \in Nat
    BY KosPipeAssumption, Products DEF TypeOK, MaxBytes
  <2>2. FirstLap /\ (1 .. stored) \cap FFs = {}
    <3>1. 1 .. stored \subseteq 1 .. MaxBytes
      BY <2>1
    <3> QED BY <2>1, <3>1 DEF FirstLap
  <2> QED BY <2>2 DEF FirstLapInv, ReadsInOrder
<1> QED BY <1>1, PipeTypes, FirstLapHolds, PTL
===============================================================================
