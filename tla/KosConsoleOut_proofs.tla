------------------------- MODULE KosConsoleOut_proofs -------------------------
(***************************************************************************)
(* do_write keeps the console to one call at a time, and the device to one *)
(* character at a time, for every number of writers and calls.             *)
(*                                                                         *)
(* DeviceInv holds because one call at most is past P(writers), and that   *)
(* holds because the value of writers counts: 1, less the call that is     *)
(* past it, less the calls that sleep on it.  From the same invariant      *)
(* follow the types, what a call returns and that nobody sleeps for ever   *)
(* unnoticed.                                                              *)
(***************************************************************************)
EXTENDS KosConsoleOut, FiniteSetTheorems, TLAPS

Waiting == kt.asleep["writers"]
Acking == kt.asleep["writeok"]

(* w is past P(writers) and has not done V(writers).                       *)
Inside(w) == pc[w] \in {"put", "ack"} \/ (pc[w] = "start" /\ w \notin Waiting)

(* What the proof needs to know of types: there is no bound on nth here,   *)
(* nor on count.                                                           *)
AnyChar == [writer : Writers, nth : Nat, index : Int]
Types ==
  /\ kt \in K!KtState(Sems, Writers)
  /\ pc \in [Writers -> Labels]
  /\ device \in AnyChar \cup {NoChar}
  /\ nth \in [Writers -> Nat] /\ count \in [Writers -> Int] /\ asked \in [Writers -> Int]
  /\ screen \in Seq(AnyChar)

(* A thread is in one place, which fits its label.                         *)
Places ==
  /\ kt.running \notin kt.ready
  /\ \A s \in Sems : kt.asleep[s] \cap (kt.ready \cup {kt.running}) = {}
  /\ Waiting \cap Acking = {}
  /\ \A w \in Writers :
       /\ pc[w] = "user" => w \notin kt.ready \cup {kt.running} \cup Waiting \cup Acking
       /\ pc[w] # "user" => w \in kt.ready \cup {kt.running} \cup Waiting \cup Acking
       /\ w \in Waiting => pc[w] = "start"
       /\ w \in Acking => pc[w] = "ack"

OneInside == \A u, w \in Writers : Inside(u) /\ Inside(w) => u = w

(* The two semaphores count.                                               *)
Nobody == \A w \in Writers : ~Inside(w)
Counts ==
  /\ Nobody => kt.val["writers"] = 1 /\ Waiting = {}
  /\ ~Nobody => kt.val["writers"] = -Cardinality(Waiting)
  /\ kt.val["writeok"] = IF device = NoChar THEN 0 ELSE -1

OutInv == Types /\ Places /\ OneInside /\ Counts /\ DeviceInv

-----------------------------------------------------------------------------
(* The kt library on this module's two semaphores.                         *)

(* What the state of the library consists of.                              *)
LEMMA KtParts ==
  ASSUME Types
  PROVE  /\ DOMAIN kt = {"val", "asleep", "ready", "running"}
         /\ kt.val \in [Sems -> Int] /\ kt.val["writers"] \in Int /\ kt.val["writeok"] \in Int
         /\ kt.asleep \in [Sems -> SUBSET Writers]
         /\ Waiting \subseteq Writers /\ Acking \subseteq Writers
         /\ kt.ready \subseteq Writers
         /\ kt.running \in Writers \cup {NoThread}
         /\ kt = [val |-> kt.val, asleep |-> kt.asleep, ready |-> kt.ready, running |-> kt.running]
         /\ "writers" \in Sems /\ "writeok" \in Sems
BY DEF Types, K!KtState, Sems, Waiting, Acking

(* The calls of any set are finite in number.                              *)
LEMMA WaitingFinite ==
  ASSUME Types
  PROVE  IsFiniteSet(Waiting) /\ Cardinality(Waiting) \in Nat
<1>1. IsFiniteSet(Waiting)
  BY KtParts, KosConsoleOutAssumption, FS_Subset
<1> QED BY <1>1, FS_CardinalityType

(* What P does, whichever semaphore it is.                                 *)
LEMMA PEffect ==
  ASSUME Types, NEW w \in Writers, kt.running = w, NEW s \in Sems, kt' = K!P_kt_sem(kt, s)
  PROVE  /\ kt' \in K!KtState(Sems, Writers) /\ kt'.ready = kt.ready
         /\ kt'.val[s] = kt.val[s] - 1
         /\ \A r \in Sems \ {s} : kt'.val[r] = kt.val[r] /\ kt'.asleep[r] = kt.asleep[r]
         /\ kt.val[s] > 0 => kt'.asleep[s] = kt.asleep[s] /\ kt'.running = w
         /\ ~(kt.val[s] > 0) => kt'.asleep[s] = kt.asleep[s] \cup {w} /\ kt'.running = NoThread
<1>1. CASE kt.val[s] > 0
  <2>1. kt' = [kt EXCEPT !.val[s] = @ - 1]
    BY <1>1 DEF K!P_kt_sem
  <2> QED BY <1>1, <2>1, KtParts DEF K!KtState
<1>2. CASE ~(kt.val[s] > 0)
  <2>1. kt' = [kt EXCEPT !.val[s] = @ - 1, !.asleep[s] = @ \cup {kt.running},
                         !.running = NoThread]
    BY <1>2 DEF K!P_kt_sem
  <2>2. /\ kt'.val = [kt.val EXCEPT ![s] = @ - 1]
        /\ kt'.asleep = [kt.asleep EXCEPT ![s] = @ \cup {w}]
        /\ kt'.ready = kt.ready /\ kt'.running = NoThread
        /\ kt' = [val |-> kt'.val, asleep |-> kt'.asleep, ready |-> kt'.ready, running |-> kt'.running]
    BY <2>1, KtParts
  <2>3. /\ kt'.val \in [Sems -> Int] /\ kt'.asleep \in [Sems -> SUBSET Writers]
        /\ kt'.ready \in SUBSET Writers
    BY <2>2, KtParts
  <2>4. kt' \in K!KtState(Sems, Writers)
    BY <2>2, <2>3 DEF K!KtState
  <2> QED BY <1>2, <2>2, <2>4, KtParts
<1> QED BY <1>1, <1>2

(* What V does: a sleeper, if there is one, can run again.                 *)
LEMMA VEffect ==
  ASSUME Types, NEW s \in Sems, NEW k \in K!V_kt_sem(kt, s)
  PROVE  /\ k \in K!KtState(Sems, Writers) /\ k.running = kt.running
         /\ k.val[s] = kt.val[s] + 1
         /\ \A r \in Sems \ {s} : k.val[r] = kt.val[r] /\ k.asleep[r] = kt.asleep[r]
         /\ \/ kt.asleep[s] = {} /\ k.asleep[s] = {} /\ k.ready = kt.ready
            \/ \E t \in kt.asleep[s] : /\ k.asleep[s] = kt.asleep[s] \ {t}
                                      /\ k.ready = kt.ready \cup {t}
<1>1. CASE kt.asleep[s] = {}
  <2>1. k = [kt EXCEPT !.val[s] = @ + 1]
    BY <1>1 DEF K!V_kt_sem
  <2> QED BY <1>1, <2>1, KtParts DEF K!KtState
<1>2. CASE kt.asleep[s] # {}
  <2>1. PICK t \in kt.asleep[s] :
          k = [kt EXCEPT !.val[s] = @ + 1, !.asleep[s] = @ \ {t}, !.ready = @ \cup {t}]
    BY <1>2 DEF K!V_kt_sem
  <2>2. /\ k.val = [kt.val EXCEPT ![s] = @ + 1]
        /\ k.asleep = [kt.asleep EXCEPT ![s] = @ \ {t}]
        /\ k.ready = kt.ready \cup {t} /\ k.running = kt.running
        /\ k = [val |-> k.val, asleep |-> k.asleep, ready |-> k.ready, running |-> k.running]
    BY <2>1, KtParts
  <2>3. /\ k.val \in [Sems -> Int] /\ k.asleep \in [Sems -> SUBSET Writers]
        /\ k.ready \in SUBSET Writers /\ k.running \in Writers \cup {NoThread}
    BY <2>2, KtParts
  <2>4. k \in K!KtState(Sems, Writers)
    BY <2>2, <2>3 DEF K!KtState
  <2> QED BY <2>2, <2>4, KtParts
<1> QED BY <1>1, <1>2

-----------------------------------------------------------------------------
(* A step inside a call that leaves semaphores alone.                      *)

(* Whoever moves from one label of the loop to another is still inside.    *)
LEMMA Move ==
  ASSUME OutInv, NEW w \in Writers, kt.running = w, kt' = kt, device' = device,
         NEW label \in {"put", "ack"}, Inside(w), pc' = [pc EXCEPT ![w] = label]
  PROVE  Places' /\ OneInside' /\ Counts'
<1>1. w \notin Waiting /\ w \notin Acking
  BY KtParts DEF OutInv, Places, Waiting, Acking, Sems
<1>2. \A u \in Writers : Inside(u)' <=> Inside(u)
  BY <1>1 DEF OutInv, Types, Inside, Waiting
<1> QED BY <1>1, <1>2 DEF OutInv, Types, Places, OneInside, Counts, Nobody, Waiting, Acking

(* The names that the steps below tell apart.                              *)
LEMMA Names ==
  OutInv => /\ Types /\ "writers" \in Sems /\ "writeok" \in Sems
            /\ Sems = {"writers", "writeok"}
            /\ Labels = {"user", "do_write", "start", "put", "ack"}
            /\ NoThread \notin Writers /\ NoChar \notin AnyChar
<1>1. NoChar.writer = NoThread
  BY DEF NoChar
<1> QED BY <1>1, KosConsoleOutAssumption DEF OutInv, Sems, Labels, AnyChar

(* A busy device has its writer asleep on writeok, and that call is the    *)
(* one past P(writers).                                                    *)
LEMMA Busy ==
  ASSUME OutInv, device # NoChar
  PROVE  /\ device \in AnyChar /\ device.writer \in Writers
         /\ Acking = {device.writer} /\ pc[device.writer] = "ack"
         /\ \A u \in Writers : Inside(u) => u = device.writer
<1>1. device \in AnyChar /\ device.writer \in Writers
  BY DEF OutInv, Types, AnyChar
<1>2. Acking = {device.writer}
  BY DEF OutInv, DeviceInv, Acking
<1>3. pc[device.writer] = "ack"
  BY <1>1, <1>2 DEF OutInv, Places
<1> QED BY <1>1, <1>2, <1>3 DEF OutInv, OneInside, Inside

(* Whoever runs and is past P(writers) finds the device idle.              *)
LEMMA Idle ==
  ASSUME OutInv, NEW w \in Writers, Inside(w), w \notin Acking
  PROVE  device = NoChar
BY Busy

(* Whoever runs is in no other place.                                      *)
LEMMA Running ==
  ASSUME OutInv, NEW w \in Writers, kt.running = w
  PROVE  w \notin Waiting /\ w \notin Acking /\ w \notin kt.ready /\ pc[w] # "user"
BY Names DEF OutInv, Places, Waiting, Acking

-----------------------------------------------------------------------------
(* One lemma for each action.                                              *)

(* kt_joinall lets w run.                                                  *)
LEMMA DispatchStep ==
  ASSUME OutInv, NEW w \in Writers, Dispatch(w)
  PROVE  OutInv'
<1>1. /\ kt.running = NoThread /\ w \in kt.ready
      /\ kt'.val = kt.val /\ kt'.asleep = kt.asleep
      /\ kt'.ready = kt.ready \ {w} /\ kt'.running = w
      /\ kt' = [val |-> kt'.val, asleep |-> kt'.asleep, ready |-> kt'.ready, running |-> kt'.running]
      /\ UNCHANGED <<pc, device, asked, nth, count, screen>>
  BY Names, KtParts DEF Dispatch, call, K!MayRun, K!Dispatched
<1>2. Types'
  BY <1>1, Names, KtParts DEF Types, K!KtState
<1>3. Waiting' = Waiting /\ Acking' = Acking /\ \A u \in Writers : Inside(u)' <=> Inside(u)
  BY <1>1 DEF Waiting, Acking, Inside
<1>4. Places'
  <2>1. w \notin Waiting /\ w \notin Acking /\ pc[w] # "user"
    BY <1>1, Names DEF OutInv, Places, Waiting, Acking
  <2> QED BY <1>1, <1>3, <2>1, Names DEF OutInv, Places, Waiting, Acking
<1>5. OneInside' /\ Counts'
  BY <1>1, <1>3 DEF OutInv, OneInside, Counts, Nobody
<1>6. DeviceInv'
  <2>1. pc[w] = "put" => device = NoChar
    BY Busy, Names DEF Inside
  <2> QED BY <1>1, <2>1 DEF OutInv, DeviceInv
<1> QED BY <1>2, <1>4, <1>5, <1>6 DEF OutInv

(* do_write refuses its arguments.                                         *)
LEMMA RefuseStep ==
  ASSUME OutInv, NEW w \in Writers, do_write_refuse(w)
  PROVE  OutInv'
<1>1. /\ kt.running = w /\ pc[w] = "do_write"
      /\ kt'.val = kt.val /\ kt'.asleep = kt.asleep
      /\ kt'.ready = kt.ready /\ kt'.running = NoThread
      /\ kt' = [val |-> kt'.val, asleep |-> kt'.asleep, ready |-> kt'.ready, running |-> kt'.running]
      /\ pc' = [pc EXCEPT ![w] = "user"] /\ count' = [count EXCEPT ![w] = -1]
      /\ UNCHANGED <<device, asked, nth, screen>>
  BY Names, KtParts DEF do_write_refuse, At, Goto, K!kt_exit
<1>2. Types'
  BY <1>1, Names, KtParts DEF Types, K!KtState
<1>3. w \notin Waiting /\ w \notin Acking /\ w \notin kt.ready
  BY <1>1, Running
<1>4. Waiting' = Waiting /\ Acking' = Acking /\ \A u \in Writers : Inside(u)' <=> Inside(u)
  BY <1>1, Names DEF Types, Waiting, Acking, Inside
<1>5. Places'
  BY <1>1, <1>3, <1>4, Names, KtParts DEF OutInv, Types, Places, Waiting, Acking
<1>6. OneInside' /\ Counts'
  BY <1>1, <1>4 DEF OutInv, OneInside, Counts, Nobody
<1>7. DeviceInv'
  <2>1. device # NoChar => device.writer # w /\ device.writer \in Writers
    BY <1>3, Busy
  <2> QED BY <1>1, <2>1, Names DEF OutInv, Types, DeviceInv
<1> QED BY <1>2, <1>5, <1>6, <1>7 DEF OutInv

(* do_write comes to P(writers).                                           *)
LEMMA EnterStep ==
  ASSUME OutInv, NEW w \in Writers, do_write(w)
  PROVE  OutInv'
<1>1. /\ kt.running = w /\ pc[w] = "do_write" /\ kt' = K!P_kt_sem(kt, "writers")
      /\ pc' = [pc EXCEPT ![w] = "start"]
      /\ UNCHANGED <<device, asked, nth, count, screen>>
  BY DEF do_write, At, Goto, call
<1>2. /\ w \notin Waiting /\ w \notin Acking /\ w \notin kt.ready /\ ~Inside(w)
      /\ \A u \in Writers : pc'[u] = IF u = w THEN "start" ELSE pc[u]
  BY <1>1, Running, Names DEF Inside, Types
<1>3. /\ kt' \in K!KtState(Sems, Writers) /\ kt'.ready = kt.ready
      /\ kt'.val["writers"] = kt.val["writers"] - 1
      /\ kt'.val["writeok"] = kt.val["writeok"] /\ Acking' = Acking
      /\ kt.val["writers"] > 0 => Waiting' = Waiting /\ kt'.running = w
      /\ ~(kt.val["writers"] > 0) => Waiting' = Waiting \cup {w} /\ kt'.running = NoThread
  BY <1>1, Names, PEffect DEF Acking, Waiting
<1>4. Types'
  BY <1>1, <1>3, Names DEF Types
<1>5. IsFiniteSet(Waiting) /\ Cardinality(Waiting) \in Nat /\ kt.val["writers"] \in Int
  BY Names, WaitingFinite, KtParts
<1>6. Places'
  BY <1>1, <1>2, <1>3, Names, KtParts DEF OutInv, Places, Waiting, Acking
<1>7. OneInside' /\ Counts'
  <2>1. CASE kt.val["writers"] > 0
    <3>1. Nobody /\ kt.val["writers"] = 1 /\ Waiting = {} /\ Waiting' = {}
      BY <1>3, <1>5, <2>1 DEF OutInv, Counts
    <3>2. \A u \in Writers : Inside(u)' <=> u = w
      BY <1>2, <3>1 DEF Inside, Nobody
    <3>3. Cardinality(Waiting') = 0
      BY <3>1, FS_EmptySet
    <3> QED BY <1>1, <1>3, <3>1, <3>2, <3>3 DEF OutInv, OneInside, Counts, Nobody
  <2>2. CASE ~(kt.val["writers"] > 0)
    <3>1. ~Nobody /\ kt.val["writers"] = -Cardinality(Waiting)
      BY <2>2 DEF OutInv, Counts
    <3>2. \A u \in Writers : Inside(u)' <=> Inside(u)
      BY <1>2, <1>3, <2>2 DEF Inside
    <3>3. Cardinality(Waiting') = Cardinality(Waiting) + 1
      BY <1>2, <1>3, <1>5, <2>2, FS_AddElement
    <3> QED BY <1>1, <1>3, <1>5, <3>1, <3>2, <3>3 DEF OutInv, OneInside, Counts, Nobody
  <2> QED BY <2>1, <2>2
<1>8. DeviceInv'
  BY <1>1, <1>2, <1>3, Names DEF OutInv, DeviceInv, Acking
<1> QED BY <1>4, <1>6, <1>7, <1>8 DEF OutInv

(* P(writers) has returned.                                                *)
LEMMA StartStep ==
  ASSUME OutInv, NEW w \in Writers, write_start(w)
  PROVE  OutInv'
<1>1. /\ kt.running = w /\ pc[w] = "start" /\ pc' = [pc EXCEPT ![w] = "put"]
      /\ count' = [count EXCEPT ![w] = 0]
      /\ UNCHANGED <<kt, device, asked, nth, screen>>
  BY DEF write_start, At, Goto
<1>2. Inside(w) /\ w \notin Acking
  BY <1>1, Running DEF Inside
<1>3. Places' /\ OneInside' /\ Counts'
  BY <1>1, <1>2, Move
<1>4. Types'
  BY <1>1, Names DEF Types
<1>5. DeviceInv'
  BY <1>1, <1>2, Idle, Names DEF OutInv, DeviceInv, Types
<1> QED BY <1>3, <1>4, <1>5 DEF OutInv

(* The interrupt has come and the writer goes on.                          *)
LEMMA AckStep ==
  ASSUME OutInv, NEW w \in Writers, write_ack(w)
  PROVE  OutInv'
<1>1. /\ kt.running = w /\ pc[w] = "ack" /\ pc' = [pc EXCEPT ![w] = "put"]
      /\ count' = [count EXCEPT ![w] = @ + 1]
      /\ UNCHANGED <<kt, device, asked, nth, screen>>
  BY DEF write_ack, At, Goto
<1>2. Inside(w) /\ w \notin Acking
  BY <1>1, Running DEF Inside
<1>3. Places' /\ OneInside' /\ Counts'
  BY <1>1, <1>2, Move
<1>4. Types'
  BY <1>1, Names DEF Types
<1>5. DeviceInv'
  BY <1>1, <1>2, Idle, Names DEF OutInv, DeviceInv, Types
<1> QED BY <1>3, <1>4, <1>5 DEF OutInv

(* console_write, then P(writeok), which always sleeps.                    *)
LEMMA PutStep ==
  ASSUME OutInv, NEW w \in Writers, write_put(w)
  PROVE  OutInv'
<1>1. /\ kt.running = w /\ pc[w] = "put" /\ kt' = K!P_kt_sem(kt, "writeok")
      /\ device' = Char(w, nth[w], count[w] + 1)
      /\ pc' = [pc EXCEPT ![w] = "ack"]
      /\ UNCHANGED <<asked, nth, count, screen>>
  BY DEF write_put, At, Goto, call
<1>2. /\ w \notin Waiting /\ w \notin Acking /\ w \notin kt.ready /\ Inside(w)
      /\ \A u \in Writers : pc'[u] = IF u = w THEN "ack" ELSE pc[u]
  BY <1>1, Running, Names DEF Inside, Types
<1>3. device = NoChar /\ kt.val["writeok"] = 0 /\ Acking = {}
  BY <1>2, Idle DEF OutInv, Counts, DeviceInv, Acking
<1>4. /\ kt' \in K!KtState(Sems, Writers) /\ kt'.ready = kt.ready
      /\ kt'.val["writeok"] = -1 /\ kt'.val["writers"] = kt.val["writers"]
      /\ Waiting' = Waiting /\ Acking' = {w} /\ kt'.running = NoThread
  BY <1>1, <1>3, Names, PEffect DEF Acking, Waiting
<1>5. device' \in AnyChar /\ device' # NoChar /\ device'.writer = w
      /\ device'.nth = nth[w] /\ device'.index = count[w] + 1
  BY <1>1, Names DEF Char, AnyChar, Types
<1>6. Types'
  BY <1>1, <1>4, <1>5, Names DEF Types
<1>7. \A u \in Writers : Inside(u)' <=> Inside(u)
  BY <1>2, <1>4 DEF Inside
<1>8. Places'
  BY <1>1, <1>2, <1>3, <1>4, Names, KtParts DEF OutInv, Places, Waiting, Acking
<1>9. OneInside' /\ Counts'
  BY <1>4, <1>5, <1>7 DEF OutInv, OneInside, Counts, Nobody
<1>10. DeviceInv'
  BY <1>1, <1>4, <1>5, Names DEF DeviceInv, Acking
<1> QED BY <1>6, <1>8, <1>9, <1>10 DEF OutInv

(* V(writers) lets the next call in, if one waits.                         *)
LEMMA DoneStep ==
  ASSUME OutInv, NEW w \in Writers, write_done(w)
  PROVE  OutInv'
<1>1. PICK k \in K!V_kt_sem(kt, "writers") :
        /\ kt' = K!kt_exit(k)
        /\ kt.running = w /\ pc[w] = "put" /\ pc' = [pc EXCEPT ![w] = "user"]
        /\ UNCHANGED <<device, asked, nth, count, screen>>
  BY DEF write_done, Leave, At, Goto, call
<1>2. /\ w \notin Waiting /\ w \notin Acking /\ w \notin kt.ready /\ Inside(w)
      /\ \A u \in Writers : pc'[u] = IF u = w THEN "user" ELSE pc[u]
  BY <1>1, Running, Names DEF Inside, Types
<1>3. /\ k \in K!KtState(Sems, Writers)
      /\ k.val["writers"] = kt.val["writers"] + 1
      /\ k.val["writeok"] = kt.val["writeok"] /\ k.asleep["writeok"] = Acking
      /\ \/ Waiting = {} /\ k.asleep["writers"] = {} /\ k.ready = kt.ready
         \/ \E t \in Waiting : /\ k.asleep["writers"] = Waiting \ {t}
                               /\ k.ready = kt.ready \cup {t}
  BY Names, VEffect DEF Acking, Waiting
<1>4. /\ kt'.val = k.val /\ kt'.asleep = k.asleep
      /\ kt'.ready = k.ready /\ kt'.running = NoThread
      /\ kt' \in K!KtState(Sems, Writers)
  BY <1>1, <1>3 DEF K!kt_exit, K!KtState
<1>5. Waiting' = k.asleep["writers"] /\ Acking' = Acking
  BY <1>3, <1>4 DEF Waiting, Acking
<1>6. Types'
  BY <1>1, <1>4, Names DEF Types
<1>7. kt.val["writers"] = -Cardinality(Waiting)
  BY <1>2 DEF OutInv, Counts, Nobody
<1>8. IsFiniteSet(Waiting) /\ Cardinality(Waiting) \in Nat /\ kt.val["writers"] \in Int
      /\ Waiting \subseteq Writers /\ Acking \subseteq Writers
  BY Names, WaitingFinite, KtParts
<1>9. \A u \in Writers : Inside(u) => u = w
  BY <1>2 DEF OutInv, OneInside
<1>10. Places' /\ OneInside' /\ Counts'
  <2>1. CASE Waiting = {} /\ k.asleep["writers"] = {} /\ k.ready = kt.ready
    <3>1. \A u \in Writers : ~Inside(u)'
      BY <1>2, <1>5, <1>9, <2>1 DEF Inside
    <3>2. kt'.val["writers"] = 1
      BY <1>3, <1>4, <1>7, <2>1, FS_EmptySet
    <3>3. Places'
      BY <1>1, <1>2, <1>4, <1>5, <2>1, Names, KtParts DEF OutInv, Places, Waiting, Acking
    <3> QED BY <1>1, <1>3, <1>4, <1>5, <2>1, <3>1, <3>2, <3>3 DEF OutInv, OneInside, Counts, Nobody
  <2>2. CASE \E t \in Waiting : /\ k.asleep["writers"] = Waiting \ {t}
                                /\ k.ready = kt.ready \cup {t}
    <3>1. PICK t \in Waiting : /\ k.asleep["writers"] = Waiting \ {t}
                               /\ k.ready = kt.ready \cup {t}
      BY <2>2
    <3>2. t \in Writers /\ t # w /\ pc[t] = "start"
      BY <1>2, <1>8 DEF OutInv, Places
    <3>3. \A u \in Writers : Inside(u)' <=> u = t
      BY <1>2, <1>5, <1>9, <3>1, <3>2 DEF Inside
    <3>4. Cardinality(Waiting') = Cardinality(Waiting) - 1
      BY <1>5, <1>8, <3>1, FS_RemoveElement
    <3>5. Places'
      BY <1>1, <1>2, <1>4, <1>5, <1>8, <3>1, <3>2, Names, KtParts DEF OutInv, Places, Waiting, Acking
    <3>6. kt'.val["writers"] = -Cardinality(Waiting')
      BY <1>3, <1>4, <1>7, <1>8, <3>4
    <3> QED BY <1>1, <1>3, <1>4, <3>2, <3>3, <3>5, <3>6 DEF OutInv, OneInside, Counts, Nobody
  <2> QED BY <1>3, <2>1, <2>2
<1>11. DeviceInv'
  BY <1>1, <1>4, <1>5, Names DEF OutInv, DeviceInv, Acking
<1> QED BY <1>6, <1>10, <1>11 DEF OutInv

(* The interrupt finds the writer of its character.                        *)
LEMMA InterruptStep ==
  ASSUME OutInv, ConsoleWriteInt
  PROVE  OutInv'
<1>1. /\ kt.running = NoThread /\ device # NoChar /\ device' = NoChar
      /\ kt' \in K!V_kt_sem(kt, "writeok") /\ screen' = Append(screen, device)
      /\ UNCHANGED <<pc, asked, nth, count>>
  BY DEF ConsoleWriteInt, K!AllAsleep, WriteOk, call
<1> DEFINE w == device.writer
<1>2. /\ device \in AnyChar /\ w \in Writers /\ Acking = {w} /\ pc[w] = "ack"
      /\ w \notin Waiting
  BY <1>1, Busy DEF OutInv, Places
<1>3. /\ kt' \in K!KtState(Sems, Writers) /\ kt'.running = NoThread
      /\ kt'.val["writeok"] = 0 /\ kt'.val["writers"] = kt.val["writers"]
      /\ Waiting' = Waiting /\ Acking' = {} /\ kt'.ready = kt.ready \cup {w}
  <2>1. /\ kt'.val["writeok"] = kt.val["writeok"] + 1 /\ kt.val["writeok"] = -1
        /\ kt' \in K!KtState(Sems, Writers) /\ kt'.running = NoThread
        /\ kt'.val["writers"] = kt.val["writers"] /\ Waiting' = Waiting
    BY <1>1, Names, VEffect DEF OutInv, Counts, Waiting
  <2>2. \E t \in Acking : Acking' = Acking \ {t} /\ kt'.ready = kt.ready \cup {t}
    BY <1>1, <1>2, Names, VEffect DEF Acking
  <2> QED BY <1>2, <2>1, <2>2
<1>4. Types'
  BY <1>1, <1>2, <1>3, Names DEF Types
<1>5. \A u \in Writers : Inside(u)' <=> Inside(u)
  BY <1>1, <1>3 DEF Inside
<1>6. Places'
  BY <1>1, <1>2, <1>3, Names DEF OutInv, Places, Waiting, Acking
<1>7. OneInside' /\ Counts'
  BY <1>1, <1>3, <1>5 DEF OutInv, OneInside, Counts, Nobody
<1>8. DeviceInv'
  BY <1>1, <1>3, Names DEF DeviceInv, Acking
<1> QED BY <1>4, <1>6, <1>7, <1>8 DEF OutInv

(* A process calls write.                                                  *)
LEMMA SyscallStep ==
  ASSUME OutInv, NEW w \in Writers, Syscall(w)
  PROVE  OutInv'
<1>1. /\ kt.running = NoThread /\ pc[w] = "user" /\ pc' = [pc EXCEPT ![w] = "do_write"]
      /\ nth' = [nth EXCEPT ![w] = @ + 1]
      /\ \E n \in Requests : asked' = [asked EXCEPT ![w] = n]
      /\ kt' = [kt EXCEPT !.ready = @ \cup {w}]
      /\ UNCHANGED <<device, count, screen>>
  BY DEF Syscall, K!AllAsleep, K!kt_fork, Goto
<1>2. /\ kt'.val = kt.val /\ kt'.asleep = kt.asleep /\ kt'.running = NoThread
      /\ kt'.ready = kt.ready \cup {w} /\ kt' \in K!KtState(Sems, Writers)
  BY <1>1, Names, KtParts DEF K!KtState
<1>3. w \notin Waiting /\ w \notin Acking
  BY <1>1 DEF OutInv, Places
<1>4. Types'
  <2>1. Requests \subseteq Int
    BY KosConsoleOutAssumption DEF Requests
  <2> QED BY <1>1, <1>2, <2>1, Names DEF Types
<1>5. Waiting' = Waiting /\ Acking' = Acking /\ \A u \in Writers : Inside(u)' <=> Inside(u)
  BY <1>1, <1>2, Names DEF Types, Waiting, Acking, Inside
<1>6. Places'
  <2>1. \A u \in Writers : pc'[u] = IF u = w THEN "do_write" ELSE pc[u]
    BY <1>1, Names DEF Types
  <2> QED BY <1>1, <1>2, <1>3, <1>5, <2>1, Names, KtParts DEF OutInv, Places, Waiting, Acking
<1>7. OneInside' /\ Counts'
  BY <1>1, <1>2, <1>5 DEF OutInv, OneInside, Counts, Nobody
<1>8. DeviceInv'
  <2>1. device # NoChar => device.writer # w /\ device.writer \in Writers
    BY <1>1, Busy
  <2> QED BY <1>1, <1>2, <2>1, Names DEF OutInv, Types, DeviceInv
<1> QED BY <1>4, <1>6, <1>7, <1>8 DEF OutInv

-----------------------------------------------------------------------------
(* The kernel starts with an idle device and nobody past P(writers).       *)
LEMMA InitInv == Init => OutInv
<1> SUFFICES ASSUME Init PROVE OutInv
  OBVIOUS
<1>1. /\ kt = [val |-> SemValues, asleep |-> [s \in DOMAIN SemValues |-> {}],
               ready |-> {}, running |-> NoThread]
      /\ SemValues = [writers |-> 1, writeok |-> 0] /\ DOMAIN SemValues = Sems
  BY DEF Init, SemValues, Sems, K!make_kt_sems
<1>2. /\ kt.val["writers"] = 1 /\ kt.val["writeok"] = 0 /\ Waiting = {} /\ Acking = {}
      /\ kt.ready = {} /\ kt.running = NoThread /\ kt \in K!KtState(Sems, Writers)
      /\ \A s \in Sems : kt.asleep[s] = {}
  BY <1>1 DEF Sems, Waiting, Acking, K!KtState
<1>3. /\ pc = [u \in Writers |-> "user"] /\ device = NoChar /\ screen = <<>>
      /\ asked = [u \in Writers |-> 0] /\ nth = [u \in Writers |-> 0]
      /\ count = [u \in Writers |-> 0]
  BY DEF Init
<1>4. Types
  BY <1>2, <1>3 DEF Types, Labels
<1>5. Places /\ OneInside
  BY <1>2, <1>3, KosConsoleOutAssumption DEF Places, OneInside, Inside
<1>6. Counts
  BY <1>2, <1>3 DEF Counts, Nobody, Inside
<1>7. DeviceInv
  BY <1>2, <1>3 DEF DeviceInv, Acking
<1> QED BY <1>4, <1>5, <1>6, <1>7 DEF OutInv

(* A step that changes nothing.                                            *)
LEMMA StutterStep ==
  ASSUME OutInv, UNCHANGED vars
  PROVE  OutInv'
BY DEF OutInv, Types, Places, OneInside, Inside, Counts, Nobody, DeviceInv, Waiting, Acking,
       vars, call

(* Every step keeps the invariant.                                         *)
LEMMA Invariant ==
  ASSUME OutInv, [Next]_vars
  PROVE  OutInv'
<1>1. ASSUME NEW w \in Writers, Dispatch(w) PROVE OutInv'
  BY <1>1, DispatchStep
<1>2. ASSUME NEW w \in Writers, do_write_refuse(w) PROVE OutInv'
  BY <1>2, RefuseStep
<1>3. ASSUME NEW w \in Writers, do_write(w) PROVE OutInv'
  BY <1>3, EnterStep
<1>4. ASSUME NEW w \in Writers, write_start(w) PROVE OutInv'
  BY <1>4, StartStep
<1>5. ASSUME NEW w \in Writers, write_put(w) PROVE OutInv'
  BY <1>5, PutStep
<1>6. ASSUME NEW w \in Writers, write_ack(w) PROVE OutInv'
  BY <1>6, AckStep
<1>7. ASSUME NEW w \in Writers, write_done(w) PROVE OutInv'
  BY <1>7, DoneStep
<1>8. ASSUME NEW w \in Writers, Syscall(w) PROVE OutInv'
  BY <1>8, SyscallStep
<1>9. CASE ConsoleWriteInt
  BY <1>9, InterruptStep
<1>10. CASE UNCHANGED vars
  BY <1>10, StutterStep
<1> QED BY <1>1, <1>2, <1>3, <1>4, <1>5, <1>6, <1>7, <1>8, <1>9, <1>10 DEF Next, Kernel

(* console_write is only called on an idle device, and the interrupt of a  *)
(* character finds its writer asleep on writeok: for every number of       *)
(* writers and calls (do_write, interruptHandler).                         *)
THEOREM DeviceHolds == Spec => []DeviceInv
<1>1. OutInv => DeviceInv
  BY DEF OutInv
<1> QED BY <1>1, InitInv, Invariant, PTL DEF Spec

(* Who sleeps on writers waits for a call that is past P(writers), and     *)
(* that one sleeps on writeok.                                             *)
LEMMA SomebodyWakes == OutInv => NoStandstill
<1> SUFFICES ASSUME OutInv, K!AllAsleep(kt), device = NoChar, NEW w \in Writers, pc[w] # "user"
    PROVE  FALSE
  BY DEF NoStandstill
<1>1. kt.running = NoThread /\ kt.ready = {} /\ NoThread \notin Writers
  BY KosConsoleOutAssumption DEF K!AllAsleep
<1>2. \A u \in Writers : pc[u] # "user" => u \in Waiting
  BY <1>1 DEF OutInv, Places, DeviceInv, Acking
<1>3. Nobody
  BY <1>2 DEF Nobody, Inside, OutInv, Places
<1> QED BY <1>2, <1>3 DEF OutInv, Counts

(* While the kernel rests, a call of write is unfinished only if the       *)
(* device has a character whose interrupt will come: no V is ever lost,    *)
(* whatever number of writers queue up (do_write, interruptHandler).       *)
THEOREM NoWriterIsLost == Spec => []NoStandstill
BY InitInv, Invariant, SomebodyWakes, PTL DEF Spec

-----------------------------------------------------------------------------
(* What is on the screen of the call that is in the loop: its characters   *)
(* are the last ones, in order, and there are Sent of them.                *)
InLoop(w) == pc[w] \in {"put", "ack"}
Sent(w) == count[w] + IF pc[w] = "ack" /\ device = NoChar THEN 1 ELSE 0
Mine(w, i) == screen[i].writer = w /\ screen[i].nth = nth[w]

Past == \A i \in DOMAIN screen : screen[i].nth <= nth[screen[i].writer]
Fresh ==
  \A w \in Writers : pc[w] \in {"do_write", "start"} =>
    \A i \in DOMAIN screen : ~Mine(w, i)
Last ==
  \A w \in Writers : InLoop(w) =>
    /\ Sent(w) \in 0 .. Len(screen)
    /\ \A i \in DOMAIN screen :
         IF i <= Len(screen) - Sent(w)
           THEN ~Mine(w, i)
           ELSE screen[i] = Char(w, nth[w], i - (Len(screen) - Sent(w)))

ScreenInv == Past /\ Fresh /\ Last /\ WholeWrites

(* One call at most is in the loop.                                        *)
LEMMA OneInLoop ==
  ASSUME OutInv, NEW u \in Writers, NEW w \in Writers, InLoop(u), Inside(w)
  PROVE  u = w
BY DEF OutInv, OneInside, Inside, InLoop

(* A step of w that writes nothing and begins no call.                     *)
LEMMA Still ==
  ASSUME OutInv, ScreenInv, UNCHANGED <<screen, nth>>,
         \A u \in Writers : pc'[u] \in {"do_write", "start"} => pc[u] \in {"do_write", "start"},
         \A u \in Writers : InLoop(u)' =>
            \/ InLoop(u) /\ Sent(u)' = Sent(u)
            \/ pc[u] = "start" /\ Sent(u)' = 0
  PROVE  ScreenInv'
<1>1. Past' /\ WholeWrites'
  BY DEF ScreenInv, Past, WholeWrites
<1>2. Fresh'
  BY DEF ScreenInv, Fresh, Mine
<1>3. Last'
  <2> SUFFICES ASSUME NEW u \in Writers, InLoop(u)'
               PROVE  /\ Sent(u)' \in 0 .. Len(screen)
                      /\ \A i \in DOMAIN screen :
                           IF i <= Len(screen) - Sent(u)'
                             THEN ~Mine(u, i)
                             ELSE screen[i] = Char(u, nth[u], i - (Len(screen) - Sent(u)'))
    BY DEF Last, Mine
  <2>1. CASE InLoop(u) /\ Sent(u)' = Sent(u)
    BY <2>1 DEF ScreenInv, Last
  <2>2. CASE pc[u] = "start" /\ Sent(u)' = 0
    <3>1. Len(screen) \in Nat /\ DOMAIN screen = 1 .. Len(screen)
      BY Names DEF Types
    <3> QED BY <2>2, <3>1 DEF ScreenInv, Fresh
  <2> QED BY <2>1, <2>2
<1> QED BY <1>1, <1>2, <1>3 DEF ScreenInv

(* A step of w that leaves the loop alone, device and other labels too.    *)
LEMMA Elsewhere ==
  ASSUME OutInv, ScreenInv, NEW w \in Writers, NEW label \in {"user", "start"},
         pc' = [pc EXCEPT ![w] = label], label = "start" => pc[w] = "do_write",
         \A u \in Writers \ {w} : count'[u] = count[u], UNCHANGED <<device, screen, nth>>
  PROVE  ScreenInv'
<1>1. \A u \in Writers : pc'[u] = IF u = w THEN label ELSE pc[u]
  BY Names DEF Types
<1> QED BY <1>1, Still DEF InLoop, Sent

(* A step inside the loop, where w is alone.                               *)
LEMMA InsideLoop ==
  ASSUME OutInv, ScreenInv, NEW w \in Writers, NEW label \in {"put", "ack"}, Inside(w),
         pc' = [pc EXCEPT ![w] = label], UNCHANGED <<screen, nth>>,
         \/ InLoop(w) /\ Sent(w)' = Sent(w)
         \/ pc[w] = "start" /\ Sent(w)' = 0
  PROVE  ScreenInv'
<1>1. \A u \in Writers : pc'[u] = IF u = w THEN label ELSE pc[u]
  BY Names DEF Types
<1>2. \A u \in Writers : InLoop(u)' => u = w
  BY <1>1, OneInLoop DEF InLoop
<1>3. \A u \in Writers : pc'[u] \in {"do_write", "start"} => pc[u] \in {"do_write", "start"}
  BY <1>1
<1> QED BY <1>2, <1>3, Still

(* A new call has nothing on the screen.                                   *)
LEMMA SyscallScreen ==
  ASSUME OutInv, ScreenInv, NEW w \in Writers, Syscall(w)
  PROVE  ScreenInv'
<1>1. /\ pc' = [pc EXCEPT ![w] = "do_write"] /\ nth' = [nth EXCEPT ![w] = @ + 1]
      /\ UNCHANGED <<device, count, screen>>
  BY DEF Syscall, Goto
<1>2. \A u \in Writers : /\ pc'[u] = IF u = w THEN "do_write" ELSE pc[u]
                         /\ nth[u] \in Nat /\ nth'[u] = IF u = w THEN nth[u] + 1 ELSE nth[u]
  BY <1>1, Names DEF Types
<1>3. \A i \in DOMAIN screen :
        screen[i].writer \in Writers /\ screen[i].nth \in Nat
        /\ screen[i].nth <= nth[screen[i].writer]
  <2>1. \A i \in DOMAIN screen : screen[i] \in AnyChar
    BY Names DEF Types
  <2> QED BY <2>1 DEF AnyChar, ScreenInv, Past
<1>4. Past' /\ WholeWrites'
  BY <1>1, <1>2, <1>3 DEF ScreenInv, Past, WholeWrites
<1>5. Fresh'
  BY <1>1, <1>2, <1>3 DEF ScreenInv, Fresh, Mine
<1>6. Last'
  <2> SUFFICES ASSUME NEW u \in Writers, InLoop(u)'
               PROVE  /\ Sent(u)' \in 0 .. Len(screen)
                      /\ \A i \in DOMAIN screen :
                           IF i <= Len(screen) - Sent(u)'
                             THEN ~Mine(u, i)'
                             ELSE screen[i] = Char(u, nth'[u], i - (Len(screen) - Sent(u)'))
    BY <1>1 DEF Last, Mine
  <2>1. u # w /\ InLoop(u) /\ Sent(u)' = Sent(u) /\ nth'[u] = nth[u]
    BY <1>1, <1>2 DEF InLoop, Sent
  <2> QED BY <1>1, <2>1 DEF ScreenInv, Last, Mine
<1> QED BY <1>4, <1>5, <1>6 DEF ScreenInv

(* The next character comes out behind the others of its call.             *)
LEMMA InterruptScreen ==
  ASSUME OutInv, ScreenInv, ConsoleWriteInt
  PROVE  ScreenInv'
<1>1. /\ device # NoChar /\ device' = NoChar /\ screen' = Append(screen, device)
      /\ UNCHANGED <<pc, asked, nth, count>>
  BY DEF ConsoleWriteInt, call
<1>w. PICK w \in Writers : w = device.writer
  BY <1>1, Busy
<1>n. PICK n \in Nat : n = Len(screen)
  BY Names DEF Types
<1>b. PICK base \in Int : base = n - count[w]
  BY Names DEF Types
<1>2. /\ pc[w] = "ack" /\ InLoop(w) /\ Inside(w) /\ device.writer = w
      /\ device \in AnyChar /\ device.nth = nth[w] /\ device.index = count[w] + 1
  BY <1>1, <1>w, Busy DEF OutInv, DeviceInv, InLoop, Inside
<1>3. /\ count[w] \in Int /\ n = Len(screen) /\ base = n - count[w] /\ DOMAIN screen = 1 .. n
      /\ Len(screen') = n + 1 /\ DOMAIN screen' = 1 .. (n + 1)
      /\ \A i \in 1 .. n : screen'[i] = screen[i]
      /\ screen'[n + 1] = device
  BY <1>1, <1>2, <1>n, <1>b, Names DEF Types
<1>4. Sent(w) = count[w] /\ Sent(w)' = count[w] + 1
  BY <1>1, <1>2, <1>3 DEF Sent
<1>5. /\ count[w] \in 0 .. n
      /\ \A i \in 1 .. n : IF i <= base THEN ~Mine(w, i)
                                        ELSE screen[i] = Char(w, nth[w], i - base)
  <2>1. /\ Sent(w) \in 0 .. Len(screen)
        /\ \A i \in DOMAIN screen :
             IF i <= Len(screen) - Sent(w)
               THEN ~Mine(w, i)
               ELSE screen[i] = Char(w, nth[w], i - (Len(screen) - Sent(w)))
    BY <1>2 DEF ScreenInv, Last
  <2>2. Len(screen) - Sent(w) = base
    BY <1>3, <1>4
  <2> QED BY <1>3, <1>4, <2>1, <2>2
<1>6. device = Char(w, nth[w], count[w] + 1)
  BY <1>2 DEF AnyChar, Char
<1>7. Past'
  <2>1. nth[w] \in Nat
    BY Names DEF Types
  <2> QED BY <1>1, <1>2, <1>3, <2>1 DEF ScreenInv, Past
<1>8. Fresh'
  BY <1>1, <1>2, <1>3 DEF ScreenInv, Fresh, Mine
<1>9. Last'
  <2>1. \A u \in Writers : InLoop(u)' => u = w
    BY <1>1, <1>2, OneInLoop DEF InLoop
  <2>2. \A i \in 1 .. (n + 1) : IF i <= base THEN ~Mine(w, i)'
                                             ELSE screen'[i] = Char(w, nth[w], i - base)
    <3> SUFFICES ASSUME NEW i \in 1 .. (n + 1)
                 PROVE  IF i <= base THEN ~Mine(w, i)'
                                     ELSE screen'[i] = Char(w, nth[w], i - base)
      OBVIOUS
    <3>1. CASE i = n + 1
      <4>1. i - base = count[w] + 1 /\ ~(i <= base)
        BY <1>3, <1>5, <3>1
      <4> QED BY <1>3, <1>6, <3>1, <4>1
    <3>2. CASE i # n + 1
      <4>1. i \in 1 .. n
        BY <1>3, <3>2
      <4> QED BY <1>1, <1>3, <1>5, <4>1 DEF Mine
    <3> QED BY <3>1, <3>2
  <2>3. /\ Len(screen') - Sent(w)' = base
        /\ Sent(w)' \in 0 .. Len(screen')
    BY <1>3, <1>4, <1>5
  <2> QED BY <1>1, <1>3, <2>1, <2>2, <2>3 DEF Last, Mine
<1>10. WholeWrites'
  <2> SUFFICES ASSUME NEW i \in 1 .. (n + 1), NEW j \in 1 .. (n + 1), i < j,
                      screen'[i].writer = screen'[j].writer, screen'[i].nth = screen'[j].nth,
                      NEW m \in i .. j
               PROVE  screen'[m] = Char(screen'[i].writer, screen'[i].nth,
                                        screen'[i].index + (m - i))
    BY <1>3 DEF WholeWrites
  <2>1. i \in 1 .. n /\ screen'[i] = screen[i]
    BY <1>3
  <2>2. CASE j \in 1 .. n
    <3>1. m \in 1 .. n /\ screen'[m] = screen[m] /\ screen'[j] = screen[j]
      BY <1>3, <2>2
    <3> QED BY <1>3, <2>1, <2>2, <3>1 DEF ScreenInv, WholeWrites
  <2>3. CASE j = n + 1
    <3>1. Mine(w, i)
      BY <1>2, <1>3, <2>1, <2>3 DEF Mine
    <3>2. ~(i <= base) /\ screen[i] = Char(w, nth[w], i - base)
      BY <1>5, <2>1, <3>1
    <3>3. /\ screen[i].writer = w /\ screen[i].nth = nth[w] /\ screen[i].index = i - base
      BY <3>2 DEF Char
    <3>4. screen'[m] = Char(w, nth[w], m - base)
      <4>1. CASE m = n + 1
        <5>1. m - base = count[w] + 1
          BY <1>3, <4>1
        <5> QED BY <1>3, <1>6, <4>1, <5>1
      <4>2. CASE m # n + 1
        <5>1. m \in 1 .. n /\ ~(m <= base)
          BY <1>3, <2>1, <2>3, <3>2, <4>2
        <5> QED BY <1>3, <1>5, <5>1
      <4> QED BY <4>1, <4>2
    <3>5. (i - base) + (m - i) = m - base
      BY <1>3
    <3> QED BY <2>1, <3>3, <3>4, <3>5
  <2> QED BY <1>3, <2>2, <2>3
<1> QED BY <1>7, <1>8, <1>9, <1>10 DEF ScreenInv

(* At the start nothing is on the screen.                                  *)
LEMMA InitScreen == Init => ScreenInv
<1> SUFFICES ASSUME Init PROVE ScreenInv
  OBVIOUS
<1>1. screen = <<>> /\ DOMAIN screen = {}
  BY DEF Init
<1>2. \A w \in Writers : pc[w] = "user"
  BY DEF Init
<1> QED BY <1>1, <1>2 DEF ScreenInv, Past, Fresh, Last, InLoop, WholeWrites

(* Every step keeps the invariant on the screen.                           *)
LEMMA ScreenSteps ==
  ASSUME OutInv, ScreenInv, [Next]_vars
  PROVE  ScreenInv'
<1>1. ASSUME NEW w \in Writers, Dispatch(w) PROVE ScreenInv'
  <2>1. UNCHANGED <<pc, device, count, nth, screen>>
    BY <1>1 DEF Dispatch, call
  <2> QED BY <2>1, Still DEF InLoop, Sent
<1>2. ASSUME NEW w \in Writers, do_write_refuse(w) PROVE ScreenInv'
  <2>1. /\ pc' = [pc EXCEPT ![w] = "user"] /\ UNCHANGED <<device, screen, nth>>
        /\ \A u \in Writers \ {w} : count'[u] = count[u]
    BY <1>2, Names DEF do_write_refuse, Goto, Types
  <2> QED BY <2>1, Elsewhere
<1>3. ASSUME NEW w \in Writers, do_write(w) PROVE ScreenInv'
  <2>1. /\ pc' = [pc EXCEPT ![w] = "start"] /\ UNCHANGED <<device, screen, nth, count>>
        /\ pc[w] = "do_write"
    BY <1>3 DEF do_write, Goto, At, call
  <2> QED BY <2>1, Elsewhere
<1>4. ASSUME NEW w \in Writers, write_start(w) PROVE ScreenInv'
  <2>1. /\ kt.running = w /\ pc[w] = "start" /\ pc' = [pc EXCEPT ![w] = "put"]
        /\ count' = [count EXCEPT ![w] = 0] /\ UNCHANGED <<device, screen, nth>>
    BY <1>4 DEF write_start, Goto, At
  <2>2. Inside(w) /\ Sent(w)' = 0
    BY <2>1, Running, Names DEF Inside, Sent, Types
  <2> QED BY <2>1, <2>2, InsideLoop
<1>5. ASSUME NEW w \in Writers, write_put(w) PROVE ScreenInv'
  <2>1. /\ kt.running = w /\ pc[w] = "put" /\ pc' = [pc EXCEPT ![w] = "ack"]
        /\ device'.writer = w /\ UNCHANGED <<count, screen, nth>>
    BY <1>5 DEF write_put, Goto, At, Char, call
  <2>2. device' # NoChar
    BY <2>1, Names DEF NoChar
  <2>3. Inside(w) /\ InLoop(w) /\ Sent(w)' = Sent(w)
    BY <2>1, <2>2, Names DEF Inside, InLoop, Sent, Types
  <2> QED BY <2>1, <2>3, InsideLoop
<1>6. ASSUME NEW w \in Writers, write_ack(w) PROVE ScreenInv'
  <2>1. /\ kt.running = w /\ pc[w] = "ack" /\ pc' = [pc EXCEPT ![w] = "put"]
        /\ count' = [count EXCEPT ![w] = @ + 1] /\ UNCHANGED <<device, screen, nth>>
    BY <1>6 DEF write_ack, Goto, At
  <2>2. Inside(w) /\ InLoop(w) /\ device = NoChar
    BY <2>1, Running, Idle DEF Inside, InLoop
  <2>3. Sent(w)' = Sent(w)
    BY <2>1, <2>2, Names DEF Sent, Types
  <2> QED BY <2>1, <2>2, <2>3, InsideLoop
<1>7. ASSUME NEW w \in Writers, write_done(w) PROVE ScreenInv'
  <2>1. pc' = [pc EXCEPT ![w] = "user"] /\ UNCHANGED <<device, screen, nth, count>>
    BY <1>7 DEF write_done, Goto, call
  <2> QED BY <2>1, Elsewhere
<1>8. ASSUME NEW w \in Writers, Syscall(w) PROVE ScreenInv'
  BY <1>8, SyscallScreen
<1>9. CASE ConsoleWriteInt
  BY <1>9, InterruptScreen
<1>10. CASE UNCHANGED vars
  BY <1>10, Still DEF InLoop, Sent, vars, call
<1> QED BY <1>1, <1>2, <1>3, <1>4, <1>5, <1>6, <1>7, <1>8, <1>9, <1>10 DEF Next, Kernel

(* The characters of one call of write are together on the screen and in   *)
(* order, however the calls of other processes fall between them: do_write *)
(* gives up the processor for every character, but not the semaphore       *)
(* writers.                                                                *)
THEOREM WholeWritesHold == Spec => []WholeWrites
<1>1. OutInv /\ ScreenInv => WholeWrites
  BY DEF ScreenInv
<1>2. Init => OutInv /\ ScreenInv
  BY InitInv, InitScreen
<1>3. OutInv /\ ScreenInv /\ [Next]_vars => (OutInv /\ ScreenInv)'
  BY Invariant, ScreenSteps
<1> QED BY <1>1, <1>2, <1>3, PTL DEF Spec

-----------------------------------------------------------------------------
(* The ranges of what calls ask for and count.                             *)
Ranges ==
  /\ calls \in 0 .. MaxCalls
  /\ screen \in Seq(Chars) /\ device \in Chars \cup {NoChar}
  /\ \A w \in Writers :
       /\ nth[w] \in 0 .. calls /\ asked[w] \in Requests /\ count[w] \in Requests
       /\ pc[w] # "user" => nth[w] # 0
       /\ pc[w] \in {"start", "put", "ack"} => asked[w] >= 0
       /\ pc[w] = "put" => count[w] \in 0 .. asked[w]
       /\ pc[w] = "ack" => count[w] \in 0 .. asked[w] - 1

(* What a call that has returned says of itself.                           *)
Result(w) == IF asked[w] < 0 THEN 0 ELSE asked[w]
Returned ==
  \A w \in Writers : pc[w] = "user" /\ nth[w] > 0 => count[w] = asked[w] /\ Out(w) = Result(w)

LEMMA Numbers ==
  ASSUME Types
  PROVE  /\ MaxCalls \in Nat /\ MaxWrite \in Nat
         /\ \A n : n \in Requests <=> n \in Int /\ -1 <= n /\ n <= MaxWrite
BY KosConsoleOutAssumption DEF Requests

(* A step of w inside a call: nobody else's numbers change.                *)
LEMMA RangesFrame ==
  ASSUME OutInv, Ranges, NEW w \in Writers, NEW label \in Labels,
         pc' = [pc EXCEPT ![w] = label], \A u \in Writers \ {w} : count'[u] = count[u],
         UNCHANGED <<asked, nth, calls, screen>>, device' \in Chars \cup {NoChar},
         pc[w] # "user", count'[w] \in Requests,
         label \in {"start", "put", "ack"} => asked[w] >= 0,
         label = "put" => count'[w] \in 0 .. asked[w],
         label = "ack" => count'[w] \in 0 .. asked[w] - 1
  PROVE  Ranges'
<1>1. \A u \in Writers : pc'[u] = IF u = w THEN label ELSE pc[u]
  BY Names DEF Types
<1> QED BY <1>1 DEF Ranges

LEMMA RangesStep ==
  ASSUME OutInv, Ranges, [Next]_vars
  PROVE  Ranges'
<1> USE Names, Numbers
<1>1. ASSUME NEW w \in Writers, Dispatch(w) PROVE Ranges'
  BY <1>1 DEF Dispatch, call, Ranges
<1>2. ASSUME NEW w \in Writers, do_write_refuse(w) PROVE Ranges'
  BY <1>2, RangesFrame DEF do_write_refuse, At, Goto, Ranges, Types
<1>3. ASSUME NEW w \in Writers, do_write(w) PROVE Ranges'
  BY <1>3, RangesFrame DEF do_write, At, Goto, call, Ranges
<1>4. ASSUME NEW w \in Writers, write_start(w) PROVE Ranges'
  <2>1. /\ pc[w] = "start" /\ pc' = [pc EXCEPT ![w] = "put"]
        /\ count'[w] = 0 /\ \A u \in Writers \ {w} : count'[u] = count[u]
        /\ UNCHANGED <<asked, nth, device, calls, screen>>
    BY <1>4 DEF write_start, At, Goto, Types
  <2>2. /\ count'[w] \in Requests /\ asked[w] >= 0 /\ count'[w] \in 0 .. asked[w]
        /\ device \in Chars \cup {NoChar}
    BY <2>1 DEF Ranges
  <2> QED BY <2>1, <2>2, RangesFrame
<1>5. ASSUME NEW w \in Writers, write_put(w) PROVE Ranges'
  <2>1. /\ pc[w] = "put" /\ pc' = [pc EXCEPT ![w] = "ack"] /\ count[w] < asked[w]
        /\ device' = Char(w, nth[w], count[w] + 1)
        /\ UNCHANGED <<asked, nth, count, calls, screen>>
    BY <1>5 DEF write_put, At, Goto, call, More
  <2>2. nth[w] \in 1 .. MaxCalls /\ count[w] + 1 \in 1 .. MaxWrite
    BY <2>1 DEF Ranges
  <2>3. device' \in Chars
    BY <2>1, <2>2 DEF Char, Chars
  <2> QED BY <2>1, <2>3, RangesFrame DEF Ranges
<1>6. ASSUME NEW w \in Writers, write_ack(w) PROVE Ranges'
  <2>1. /\ pc[w] = "ack" /\ pc' = [pc EXCEPT ![w] = "put"]
        /\ count'[w] = count[w] + 1 /\ \A u \in Writers \ {w} : count'[u] = count[u]
        /\ UNCHANGED <<asked, nth, device, calls, screen>>
    BY <1>6 DEF write_ack, At, Goto, Types
  <2>2. /\ count'[w] \in Requests /\ asked[w] >= 0 /\ count'[w] \in 0 .. asked[w]
        /\ device \in Chars \cup {NoChar}
    BY <2>1 DEF Ranges
  <2> QED BY <2>1, <2>2, RangesFrame
<1>7. ASSUME NEW w \in Writers, write_done(w) PROVE Ranges'
  BY <1>7, RangesFrame DEF write_done, At, Goto, call, Ranges
<1>8. ASSUME NEW w \in Writers, Syscall(w) PROVE Ranges'
  <2>1. PICK n \in Requests : asked' = [asked EXCEPT ![w] = n]
    BY <1>8 DEF Syscall
  <2>2. /\ calls < MaxCalls /\ calls' = calls + 1
        /\ \A u \in Writers : /\ nth'[u] = IF u = w THEN nth[w] + 1 ELSE nth[u]
                              /\ asked'[u] = IF u = w THEN n ELSE asked[u]
                              /\ pc'[u] = IF u = w THEN "do_write" ELSE pc[u]
        /\ UNCHANGED <<device, count, screen>>
    BY <1>8, <2>1 DEF Syscall, Goto, Types
  <2> QED BY <2>2 DEF Ranges
<1>9. CASE ConsoleWriteInt
  <2>1. device \in Chars /\ screen' = Append(screen, device) /\ device' = NoChar
        /\ UNCHANGED <<pc, call>>
    BY <1>9 DEF ConsoleWriteInt, Ranges
  <2>2. screen' \in Seq(Chars)
    BY <2>1 DEF Ranges
  <2> QED BY <2>1, <2>2 DEF Ranges, call
<1>10. CASE UNCHANGED vars
  BY <1>10 DEF vars, call, Ranges
<1> QED BY <1>1, <1>2, <1>3, <1>4, <1>5, <1>6, <1>7, <1>8, <1>9, <1>10 DEF Next, Kernel

LEMMA InitRanges == Init => Ranges /\ Returned
<1> SUFFICES ASSUME Init PROVE Ranges /\ Returned
  OBVIOUS
<1>1. /\ calls = 0 /\ screen = <<>> /\ device = NoChar
      /\ \A w \in Writers : nth[w] = 0 /\ asked[w] = 0 /\ count[w] = 0 /\ pc[w] = "user"
  BY DEF Init
<1> QED BY <1>1, KosConsoleOutAssumption DEF Ranges, Returned, Requests

(* The type invariant of the specification: asleep and value agree for     *)
(* both semaphores, and every count is in its range.                       *)
LEMMA TypesFollow == OutInv /\ Ranges => TypeOK
<1> SUFFICES ASSUME OutInv, Ranges PROVE TypeOK
  OBVIOUS
<1> USE Names
<1>1. kt.val["writers"] \in Int /\ IsFiniteSet(Waiting) /\ Cardinality(Waiting) \in Nat
  BY KtParts, WaitingFinite
<1>2. Cardinality(Waiting) = IF kt.val["writers"] < 0 THEN -kt.val["writers"] ELSE 0
  <2>1. Nobody => Cardinality(Waiting) = 0
    BY FS_EmptySet DEF OutInv, Counts
  <2> QED BY <1>1, <2>1 DEF OutInv, Counts
<1>3. Cardinality(Acking) = IF kt.val["writeok"] < 0 THEN -kt.val["writeok"] ELSE 0
  <2>1. CASE device = NoChar
    <3>1. Acking = {} /\ kt.val["writeok"] = 0
      BY <2>1 DEF OutInv, DeviceInv, Counts, Acking
    <3> QED BY <3>1, FS_EmptySet
  <2>2. CASE device # NoChar
    <3>1. Acking = {device.writer} /\ kt.val["writeok"] = -1
      BY <2>2, Busy DEF OutInv, Counts
    <3>2. Cardinality(Acking) = 1
      BY <3>1, FS_Singleton
    <3>3. kt.val["writeok"] < 0 /\ -kt.val["writeok"] = 1
      <4>1. \A v \in Int : v + 1 = 0 => v < 0 /\ -v = 1
        OBVIOUS
      <4>2. kt.val["writeok"] \in Int /\ kt.val["writeok"] + 1 = 0
        BY <3>1, KtParts
      <4> QED BY <4>1, <4>2
    <3> QED BY <3>2, <3>3
  <2> QED BY <2>1, <2>2
<1>4. K!Sound(kt)
  <2>1. DOMAIN kt.asleep = Sems /\ kt.running \notin kt.ready
    BY KtParts DEF OutInv, Places
  <2>2. \A s \in Sems : /\ kt.asleep[s] \cap (kt.ready \cup {kt.running}) = {}
                        /\ \A r \in Sems \ {s} : kt.asleep[r] \cap kt.asleep[s] = {}
    BY DEF OutInv, Places, Waiting, Acking
  <2>3. \A s \in Sems : Cardinality(kt.asleep[s]) = IF kt.val[s] < 0 THEN -kt.val[s] ELSE 0
    BY <1>2, <1>3 DEF Waiting, Acking
  <2>4. \A S : K!Cardinality(S) = Cardinality(S)
    BY DEF K!Cardinality, Cardinality
  <2> QED BY <2>1, <2>2, <2>3, <2>4 DEF K!Sound
<1>5. /\ asked \in [Writers -> Requests] /\ nth \in [Writers -> 0 .. calls]
      /\ count \in [Writers -> Requests]
  BY DEF Types, Ranges
<1> QED BY <1>4, <1>5 DEF TypeOK, Types, Ranges

-----------------------------------------------------------------------------
(* The characters of w's call that are on the screen, where they are.      *)
LEMMA ShownInLoop ==
  ASSUME OutInv, ScreenInv, NEW w \in Writers, pc[w] = "put", count[w] \in Nat
  PROVE  Out(w) = count[w]
<1>1. PICK n \in Nat : n = Len(screen)
  BY Names DEF Types
<1>2. PICK base \in Int : base = n - count[w]
  BY <1>1
<1>3. /\ count[w] \in 0 .. n
      /\ \A i \in 1 .. n : IF i <= base THEN ~Mine(w, i)
                                        ELSE screen[i] = Char(w, nth[w], i - base)
  <2>1. Sent(w) = count[w] /\ InLoop(w) /\ DOMAIN screen = 1 .. n
    BY <1>1, Names DEF Sent, InLoop, Types
  <2> QED BY <1>1, <1>2, <2>1 DEF ScreenInv, Last
<1>4. Shown(w) = (base + 1) .. n
  <2>1. DOMAIN screen = 1 .. n /\ base >= 0
    BY <1>1, <1>2, <1>3, Names DEF Types
  <2>2. \A i \in 1 .. n : Mine(w, i) <=> i > base
    <3> TAKE i \in 1 .. n
    <3>1. CASE i <= base
      BY <1>2, <1>3, <3>1
    <3>2. CASE ~(i <= base)
      <4>1. screen[i] = Char(w, nth[w], i - base)
        BY <1>3, <3>2
      <4>2. screen[i].writer = w /\ screen[i].nth = nth[w]
        BY <4>1 DEF Char
      <4> QED BY <1>2, <3>2, <4>2 DEF Mine
    <3> QED BY <3>1, <3>2
  <2> QED BY <1>2, <2>1, <2>2 DEF Shown, Mine
<1>5. Cardinality((base + 1) .. n) = IF base + 1 > n THEN 0 ELSE n - (base + 1) + 1
  BY FS_Interval
<1> QED BY <1>1, <1>2, <1>3, <1>4, <1>5 DEF Out

(* What w has on the screen changes only when its own character comes out, *)
(* or when it begins another call.                                         *)
LEMMA ShownFrame ==
  ASSUME NEW w, nth'[w] = nth[w], screen' = screen
  PROVE  Out(w)' = Out(w)
BY DEF Out, Shown

(* A call that did not run to its end now has its result.                  *)
LEMMA ReturnedFrame ==
  ASSUME Returned, screen' = screen,
         \A u \in Writers : pc'[u] = "user" =>
           /\ nth'[u] = nth[u] /\ asked'[u] = asked[u]
           /\ \/ pc[u] = "user" /\ count'[u] = count[u]
              \/ count'[u] = asked[u] /\ Out(u) = Result(u)
  PROVE  Returned'
<1> SUFFICES ASSUME NEW u \in Writers, pc'[u] = "user", nth'[u] > 0
             PROVE  count'[u] = asked'[u] /\ Out(u)' = Result(u)'
  BY DEF Returned
<1>1. Out(u)' = Out(u) /\ Result(u)' = Result(u)
  BY ShownFrame DEF Result
<1> QED BY <1>1 DEF Returned

LEMMA ReturnedStep ==
  ASSUME OutInv, Ranges, ScreenInv, Returned, [Next]_vars
  PROVE  Returned'
<1> USE Names, Numbers
<1>1. ASSUME NEW w \in Writers, Dispatch(w) PROVE Returned'
  BY <1>1, ReturnedFrame DEF Dispatch, call
<1>2. ASSUME NEW w \in Writers, do_write_refuse(w) PROVE Returned'
  <2>1. /\ pc[w] = "do_write" /\ asked[w] < 0 /\ UNCHANGED <<asked, nth, screen>>
        /\ \A u \in Writers : /\ pc'[u] = IF u = w THEN "user" ELSE pc[u]
                              /\ count'[u] = IF u = w THEN -1 ELSE count[u]
    BY <1>2 DEF do_write_refuse, At, Goto, Types
  <2>2. asked[w] = -1 /\ Result(w) = 0
    BY <2>1 DEF Ranges, Result
  <2>3. Out(w) = 0
    <3>1. Shown(w) = {}
      BY <2>1 DEF ScreenInv, Fresh, Shown, Mine
    <3> QED BY <3>1, FS_EmptySet DEF Out
  <2> QED BY <2>1, <2>2, <2>3, ReturnedFrame
<1>3. ASSUME NEW w \in Writers, NEW label \in Labels \ {"user"},
             pc' = [pc EXCEPT ![w] = label], UNCHANGED <<asked, nth, screen>>,
             \A u \in Writers \ {w} : count'[u] = count[u]
      PROVE  Returned'
  <2>1. \A u \in Writers : pc'[u] = IF u = w THEN label ELSE pc[u]
    BY <1>3 DEF Types
  <2> QED BY <1>3, <2>1, ReturnedFrame
<1>4. ASSUME NEW w \in Writers, do_write(w) \/ write_start(w) \/ write_put(w) \/ write_ack(w)
      PROVE  Returned'
  <2>1. \A u \in Writers \ {w} : count'[u] = count[u]
    BY <1>4 DEF do_write, write_start, write_put, write_ack, call, Types
  <2>2. UNCHANGED <<asked, nth, screen>>
    BY <1>4 DEF do_write, write_start, write_put, write_ack, call
  <2>3. \E label \in Labels \ {"user"} : pc' = [pc EXCEPT ![w] = label]
    BY <1>4 DEF do_write, write_start, write_put, write_ack, Goto
  <2> QED BY <1>3, <2>1, <2>2, <2>3
<1>5. ASSUME NEW w \in Writers, write_done(w) PROVE Returned'
  <2>1. /\ pc[w] = "put" /\ ~(count[w] < asked[w]) /\ UNCHANGED <<asked, nth, count, screen>>
        /\ \A u \in Writers : pc'[u] = IF u = w THEN "user" ELSE pc[u]
    BY <1>5 DEF write_done, At, Goto, More, call, Types
  <2>2. count[w] \in Nat /\ count[w] = asked[w] /\ Result(w) = count[w]
    BY <2>1 DEF Ranges, Result
  <2> QED BY <2>1, <2>2, ShownInLoop, ReturnedFrame
<1>6. ASSUME NEW w \in Writers, Syscall(w) PROVE Returned'
  <2>1. PICK n \in Requests : asked' = [asked EXCEPT ![w] = n]
    BY <1>6 DEF Syscall
  <2>2. /\ UNCHANGED <<count, screen>>
        /\ \A u \in Writers : /\ pc'[u] = IF u = w THEN "do_write" ELSE pc[u]
                              /\ u # w => nth'[u] = nth[u] /\ asked'[u] = asked[u]
    BY <1>6, <2>1 DEF Syscall, Goto, Types
  <2> QED BY <2>2, ReturnedFrame
<1>7. CASE ConsoleWriteInt
  <2>1. /\ device # NoChar /\ screen' = Append(screen, device) /\ UNCHANGED <<pc, asked, nth, count>>
    BY <1>7 DEF ConsoleWriteInt, call
  <2>2. pc[device.writer] = "ack"
    BY <2>1, Busy
  <2> SUFFICES ASSUME NEW u \in Writers, pc[u] = "user", nth[u] > 0
               PROVE  count[u] = asked[u] /\ Out(u)' = Result(u)
    BY <2>1 DEF Returned, Result
  <2>3. PICK n \in Nat : n = Len(screen)
    BY DEF Types
  <2>4. /\ DOMAIN screen = 1 .. n /\ DOMAIN screen' = 1 .. (n + 1)
        /\ \A i \in 1 .. n : screen'[i] = screen[i]
        /\ screen'[n + 1] = device
    BY <2>1, <2>3 DEF Types
  <2>5. device.writer # u
    BY <2>2
  <2>6. Shown(u)' = Shown(u)
    BY <2>1, <2>4, <2>5 DEF Shown
  <2> QED BY <2>6 DEF Returned, Out
<1>8. CASE UNCHANGED vars
  BY <1>8, ReturnedFrame DEF vars, call
<1> QED BY <1>1, <1>2, <1>4, <1>5, <1>6, <1>7, <1>8 DEF Next, Kernel

(* All that is known of console output.                                    *)
LEMMA OutputInvariant == Spec => [](OutInv /\ Ranges /\ ScreenInv /\ Returned)
<1>1. Init => OutInv /\ Ranges /\ ScreenInv /\ Returned
  BY InitInv, InitScreen, InitRanges
<1>2. OutInv /\ Ranges /\ ScreenInv /\ Returned /\ [Next]_vars
        => (OutInv /\ Ranges /\ ScreenInv /\ Returned)'
  BY Invariant, RangesStep, ScreenSteps, ReturnedStep
<1> QED BY <1>1, <1>2, PTL DEF Spec

(* The state of console output keeps its types: the values of writers and  *)
(* writeok agree with who sleeps on them, no call writes more than it was  *)
(* asked to, and only characters of calls reach device and screen.         *)
THEOREM OutTypes == Spec => []TypeOK
BY OutputInvariant, TypesFollow, PTL

(* What write returns is what came out on the console: a call in the loop  *)
(* has put exactly write_count characters on the screen, and one that has  *)
(* returned all it was asked for (do_write).                               *)
THEOREM CountsAreOutput == Spec => []CountInv
<1>1. OutInv /\ Ranges /\ ScreenInv /\ Returned => CountInv
  <2> SUFFICES ASSUME OutInv, Ranges, ScreenInv, Returned, NEW w \in Writers
               PROVE  /\ pc[w] = "put" => Out(w) = count[w]
                      /\ pc[w] = "user" /\ nth[w] > 0 =>
                           count[w] = asked[w] /\ Out(w) = (IF asked[w] < 0 THEN 0 ELSE asked[w])
    BY DEF CountInv
  <2>1. pc[w] = "put" => count[w] \in Nat
    BY Names, Numbers DEF Ranges
  <2> QED BY <2>1, ShownInLoop DEF Returned, Result
<1> QED BY <1>1, OutputInvariant, PTL

===============================================================================
