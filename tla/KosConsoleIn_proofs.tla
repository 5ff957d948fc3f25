------------------------- MODULE KosConsoleIn_proofs -------------------------
(***************************************************************************)
(* Console input: the four semaphores keep interrupts, slots and readers   *)
(* apart for any size of the ring, any number of readers and any text.     *)
(*                                                                         *)
(* InInv says where each thread is and what each semaphore counts.  From   *)
(* it follow the hand-shake, the types, and with Somewhere (no thread gets *)
(* lost) that readers and device never wait for each other.  What the      *)
(* slots hold, and that reads are a byte stream, is proved from InInv in   *)
(* KosConsoleStream_proofs.                                                *)
(***************************************************************************)
EXTENDS KosConsoleIn, FiniteSetTheorems, TLAPS

Asleep(s) == kt.asleep[s]
C == ConsToBuff

(* What the proof needs to know of types.                                  *)
Types ==
  /\ kt \in K!KtState(Sems, Threads)
  /\ pc \in [Threads -> Labels]
  /\ pc[C] \in {"cons_to_buff", "wait_slot", "move"}
  /\ \A r \in Readers : pc[r] \in {"user", "do_read", "start", "test", "take"}
  /\ device \in EOF .. 127 \cup {NoChar} /\ typed \in Nat
  /\ buff \in [0 .. (Size - 1) -> EOF .. 127]
  /\ head \in 0 .. (Size - 1) /\ tail \in 0 .. (Size - 1)
  /\ asked \in [Readers -> Int] /\ count \in [Readers -> Int]
  /\ given \in Seq([reader : Readers, byte : Int])

(* A thread is in one place, which fits its label.                         *)
Places ==
  /\ kt.running \notin kt.ready
  /\ \A s \in Sems : Asleep(s) \cap (kt.ready \cup {kt.running}) = {}
  /\ Asleep("consoleWait") \subseteq {C} /\ Asleep("nslots") \subseteq {C}
  /\ Asleep("nelem") \subseteq Readers /\ Asleep("readers") \subseteq Readers
  /\ C \in Asleep("consoleWait") => pc[C] = "wait_slot"
  /\ C \in Asleep("nslots") => pc[C] = "move"
  /\ C \in kt.ready \cup {kt.running} \cup Asleep("consoleWait") \cup Asleep("nslots")
  /\ \A r \in Readers :
       /\ pc[r] = "user" => r \notin kt.ready \cup {kt.running}
       /\ r \in Asleep("nelem") => pc[r] = "take"
       /\ r \in Asleep("readers") => pc[r] = "start"

(* readers is a mutex, and counts.                                         *)
NoneInside == \A r \in Readers : ~Inside(r)
Mutex ==
  /\ \A r, s \in Readers : Inside(r) /\ Inside(s) => r = s
  /\ NoneInside => kt.val["readers"] = 1 /\ Asleep("readers") = {}
  /\ ~NoneInside => kt.val["readers"] = -Cardinality(Asleep("readers"))

(* consoleWait holds no interrupt back: the device has a character exactly *)
(* while cons_to_buff deals with it.                                       *)
Handling == pc[C] \in {"wait_slot", "move"} /\ C \notin Asleep("consoleWait")
Interrupts ==
  /\ kt.val["consoleWait"] = IF C \in Asleep("consoleWait") THEN -1 ELSE 0
  /\ device # NoChar <=> Handling

(* nelem and nslots count, each with one sleeper at most.                  *)
Taking == \E r \in Readers : pc[r] = "take" /\ r \notin Asleep("nelem")
UnreadSlots == IF Asleep("nelem") # {} THEN 0 ELSE kt.val["nelem"] + One(Taking)
FreeSlots ==
  IF C \in Asleep("nslots") THEN 0 ELSE kt.val["nslots"] + One(pc[C] = "move")
Slots ==
  /\ Asleep("nelem") # {} => kt.val["nelem"] = -1
  /\ Asleep("nelem") = {} => kt.val["nelem"] >= 0
  /\ C \in Asleep("nslots") => kt.val["nslots"] = -1
  /\ C \notin Asleep("nslots") => kt.val["nslots"] >= 0
  /\ UnreadSlots + FreeSlots = Size

(* What a call has taken is not more than it asked for.                    *)
Calls ==
  \A r \in Readers :
    /\ pc[r] \in {"start", "test", "take"} => asked[r] >= 0
    /\ pc[r] = "test" => count[r] \in 0 .. asked[r]
    /\ pc[r] = "take" => count[r] \in 0 .. (asked[r] - 1)

InInv == Types /\ Places /\ Mutex /\ Interrupts /\ Slots /\ Calls

-----------------------------------------------------------------------------
(* The kt library on this module's four semaphores.                        *)

(* What the state of the library consists of.                              *)
LEMMA KtParts ==
  ASSUME Types
  PROVE  /\ DOMAIN kt = {"val", "asleep", "ready", "running"}
         /\ kt.val \in [Sems -> Int]
         /\ kt.asleep \in [Sems -> SUBSET Threads]
         /\ kt.ready \subseteq Threads
         /\ kt.running \in Threads \cup {NoThread}
         /\ kt = [val |-> kt.val, asleep |-> kt.asleep, ready |-> kt.ready, running |-> kt.running]
BY DEF Types, K!KtState, Sems

(* The names that the steps below tell apart.                              *)
LEMMA Names ==
  InInv => /\ Types /\ Sems = {"consoleWait", "nslots", "nelem", "readers"}
           /\ C \in Threads /\ C \notin Readers /\ Readers \subseteq Threads
           /\ NoThread \notin Threads /\ Threads = Readers \cup {C}
           /\ \A s \in Sems : kt.val[s] \in Int /\ Asleep(s) \subseteq Threads
<1> SUFFICES ASSUME InInv PROVE /\ Types
           /\ C \in Threads /\ C \notin Readers /\ Readers \subseteq Threads
           /\ NoThread \notin Threads /\ Threads = Readers \cup {C}
           /\ \A s \in Sems : kt.val[s] \in Int /\ Asleep(s) \subseteq Threads
  BY DEF Sems
<1>1. Types
  BY DEF InInv
<1> QED BY <1>1, KtParts, KosConsoleInAssumption DEF Threads, C, Asleep

(* What P does, whichever semaphore it is.                                 *)
LEMMA PEffect ==
  ASSUME Types, NEW w \in Threads, kt.running = w, NEW s \in Sems, kt' = K!P_kt_sem(kt, s)
  PROVE  /\ kt' \in K!KtState(Sems, Threads) /\ kt'.ready = kt.ready
         /\ kt'.val[s] = kt.val[s] - 1
         /\ \A r \in Sems \ {s} : kt'.val[r] = kt.val[r] /\ kt'.asleep[r] = kt.asleep[r]
         /\ kt.val[s] > 0 => kt'.asleep[s] = kt.asleep[s] /\ kt'.running = w
         /\ ~(kt.val[s] > 0) => kt'.asleep[s] = kt.asleep[s] \cup {w} /\ kt'.running = NoThread
<1>1. CASE kt.val[s] > 0
  <2>1. kt' = [kt EXCEPT !.val[s] = @ - 1]
    BY <1>1 DEF K!P_kt_sem
  <2> QED BY <1>1, <2>1, KtParts DEF K!KtState
<1>2. CASE ~(kt.val[s] > 0)
  <2>1. kt' = [kt EXCEPT !.val[s] = @ - 1, !.asleep[s] = @ \cup {kt.running},
                         !.running = NoThread]
    BY <1>2 DEF K!P_kt_sem
  <2>2. /\ kt'.val = [kt.val EXCEPT ![s] = @ - 1]
        /\ kt'.asleep = [kt.asleep EXCEPT ![s] = @ \cup {w}]
        /\ kt'.ready = kt.ready /\ kt'.running = NoThread
        /\ kt' = [val |-> kt'.val, asleep |-> kt'.asleep, ready |-> kt'.ready, running |-> kt'.running]
    BY <2>1, KtParts
  <2>3. /\ kt'.val \in [Sems -> Int] /\ kt'.asleep \in [Sems -> SUBSET Threads]
        /\ kt'.ready \in SUBSET Threads
    BY <2>2, KtParts
  <2>4. kt' \in K!KtState(Sems, Threads)
    BY <2>2, <2>3 DEF K!KtState
  <2> QED BY <1>2, <2>2, <2>4, KtParts
<1> QED BY <1>1, <1>2

(* What V does: a sleeper, if there is one, can run again.                 *)
LEMMA VEffect ==
  ASSUME NEW k \in K!KtState(Sems, Threads), NEW s \in Sems, NEW j \in K!V_kt_sem(k, s)
  PROVE  /\ j \in K!KtState(Sems, Threads) /\ j.running = k.running
         /\ j.val[s] = k.val[s] + 1
         /\ \A r \in Sems \ {s} : j.val[r] = k.val[r] /\ j.asleep[r] = k.asleep[r]
         /\ \/ k.asleep[s] = {} /\ j.asleep[s] = {} /\ j.ready = k.ready
            \/ \E t \in k.asleep[s] : /\ j.asleep[s] = k.asleep[s] \ {t}
                                     /\ j.ready = k.ready \cup {t}
<1>1. /\ DOMAIN k = {"val", "asleep", "ready", "running"}
      /\ k.val \in [Sems -> Int] /\ k.asleep \in [Sems -> SUBSET Threads]
      /\ k.ready \subseteq Threads /\ k.running \in Threads \cup {NoThread}
      /\ k = [val |-> k.val, asleep |-> k.asleep, ready |-> k.ready, running |-> k.running]
  BY DEF K!KtState
<1>2. CASE k.asleep[s] = {}
  <2>1. j = [k EXCEPT !.val[s] = @ + 1]
    BY <1>2 DEF K!V_kt_sem
  <2> QED BY <1>1, <1>2, <2>1 DEF K!KtState
<1>3. CASE k.asleep[s] # {}
  <2>1. PICK t \in k.asleep[s] :
          j = [k EXCEPT !.val[s] = @ + 1, !.asleep[s] = @ \ {t}, !.ready = @ \cup {t}]
    BY <1>3 DEF K!V_kt_sem
  <2>2. /\ j.val = [k.val EXCEPT ![s] = @ + 1]
        /\ j.asleep = [k.asleep EXCEPT ![s] = @ \ {t}]
        /\ j.ready = k.ready \cup {t} /\ j.running = k.running
        /\ j = [val |-> j.val, asleep |-> j.asleep, ready |-> j.ready, running |-> j.running]
    BY <1>1, <2>1
  <2>3. /\ j.val \in [Sems -> Int] /\ j.asleep \in [Sems -> SUBSET Threads]
        /\ j.ready \in SUBSET Threads /\ j.running \in Threads \cup {NoThread}
    BY <1>1, <2>2
  <2>4. j \in K!KtState(Sems, Threads)
    BY <2>2, <2>3 DEF K!KtState
  <2> QED BY <1>1, <2>2, <2>4
<1> QED BY <1>2, <1>3

(* kt_exit.                                                                *)
LEMMA ExitEffect ==
  ASSUME NEW k \in K!KtState(Sems, Threads), NEW j, j = K!kt_exit(k)
  PROVE  /\ j \in K!KtState(Sems, Threads) /\ j.val = k.val /\ j.asleep = k.asleep
         /\ j.ready = k.ready /\ j.running = NoThread
BY DEF K!KtState, K!kt_exit

-----------------------------------------------------------------------------
(* What a step need not touch for a part of the invariant to stay.         *)

(* Who is inside, and what readers counts.                                 *)
LEMMA MutexFrame ==
  ASSUME InInv, \A r \in Readers : Inside(r)' <=> Inside(r),
         kt'.val["readers"] = kt.val["readers"], Asleep("readers")' = Asleep("readers")
  PROVE  Mutex'
BY DEF InInv, Mutex, NoneInside

(* The device, consoleWait, and whether the interrupt is dealt with.       *)
LEMMA InterruptsFrame ==
  ASSUME InInv, Handling' <=> Handling, device' = device,
         kt'.val["consoleWait"] = kt.val["consoleWait"],
         Asleep("consoleWait")' = Asleep("consoleWait")
  PROVE  Interrupts'
BY DEF InInv, Interrupts

(* nelem, nslots, and who was promised a byte or a slot.                   *)
LEMMA SlotsFrame ==
  ASSUME InInv, Taking' <=> Taking, pc'[C] = "move" <=> pc[C] = "move",
         kt'.val["nelem"] = kt.val["nelem"], Asleep("nelem")' = Asleep("nelem"),
         kt'.val["nslots"] = kt.val["nslots"], Asleep("nslots")' = Asleep("nslots")
  PROVE  Slots' /\ UnreadSlots' = UnreadSlots
<1>1. UnreadSlots' = UnreadSlots /\ FreeSlots' = FreeSlots
  BY DEF UnreadSlots, FreeSlots, One, C
<1> QED BY <1>1 DEF InInv, Slots, C

(* A reader that runs sleeps nowhere; if it is past P(readers), nobody     *)
(* sleeps on nelem.                                                        *)
LEMMA ReaderRuns ==
  ASSUME InInv, NEW r \in Readers, kt.running = r
  PROVE  /\ r \notin kt.ready /\ \A s \in Sems : r \notin Asleep(s)
         /\ pc[r] # "user"
         /\ pc[r] \in {"start", "test", "take"} =>
              /\ Inside(r) /\ \A u \in Readers : Inside(u) => u = r
              /\ Asleep("nelem") = {}
              /\ \A u \in Readers : pc[u] = "take" => u = r
<1>1. r \notin kt.ready /\ \A s \in Sems : r \notin Asleep(s)
  BY Names DEF InInv, Places
<1>2. pc[r] # "user"
  BY Names DEF InInv, Places
<1>3. ASSUME pc[r] \in {"start", "test", "take"}
      PROVE  /\ Inside(r) /\ \A u \in Readers : Inside(u) => u = r
             /\ Asleep("nelem") = {} /\ \A u \in Readers : pc[u] = "take" => u = r
  <2>1. Inside(r)
    BY <1>1, <1>3, Names DEF Inside, Asleep
  <2>2. \A u \in Readers : Inside(u) => u = r
    BY <2>1 DEF InInv, Mutex
  <2>3. \A u \in Readers : pc[u] = "take" => Inside(u)
    BY Names DEF Inside, InInv, Places, Asleep
  <2>4. \A u \in Asleep("nelem") : u \in Readers /\ pc[u] = "take"
    BY DEF InInv, Places
  <2>5. r \notin Asleep("nelem")
    BY <1>1, Names
  <2> QED BY <2>1, <2>2, <2>3, <2>4, <2>5
<1> QED BY <1>1, <1>2, <1>3

-----------------------------------------------------------------------------
(* One lemma for each action.                                              *)

(* kt_joinall lets t run.                                                  *)
LEMMA DispatchStep ==
  ASSUME InInv, NEW t \in Threads, Dispatch(t)
  PROVE  InInv' /\ UnreadSlots' = UnreadSlots
<1>1. /\ kt.running = NoThread /\ t \in kt.ready
      /\ kt'.val = kt.val /\ kt'.asleep = kt.asleep
      /\ kt'.ready = kt.ready \ {t} /\ kt'.running = t
      /\ kt' = [val |-> kt'.val, asleep |-> kt'.asleep, ready |-> kt'.ready, running |-> kt'.running]
      /\ UNCHANGED <<pc, device, typed, buff, head, tail, asked, count, given>>
  BY Names, KtParts DEF Dispatch, ring, call, K!MayRun, K!Dispatched
<1>2. Types'
  BY <1>1, Names, KtParts DEF Types, K!KtState, C
<1>3. /\ \A s \in Sems : Asleep(s)' = Asleep(s)
      /\ \A r \in Readers : Inside(r)' <=> Inside(r)
      /\ (Taking' <=> Taking) /\ (Handling' <=> Handling)
  BY <1>1, Names DEF Asleep, Inside, Taking, Handling, C
<1>4. Places'
  BY <1>1, <1>3, Names DEF InInv, Places, C
<1>5. Mutex' /\ Interrupts' /\ Slots' /\ UnreadSlots' = UnreadSlots
  BY <1>1, <1>3, Names, MutexFrame, InterruptsFrame, SlotsFrame
<1>6. Calls'
  BY <1>1 DEF InInv, Calls
<1> QED BY <1>2, <1>4, <1>5, <1>6 DEF InInv

(* cons_to_buff waits for an interrupt; it always sleeps.                  *)
LEMMA ConsToBuffStep ==
  ASSUME InInv, cons_to_buff
  PROVE  InInv' /\ UnreadSlots' = UnreadSlots
<1>1. /\ kt.running = C /\ pc[C] = "cons_to_buff" /\ kt' = K!P_kt_sem(kt, "consoleWait")
      /\ pc' = [pc EXCEPT ![C] = "wait_slot"]
      /\ UNCHANGED <<device, typed, buff, head, tail, asked, count, given>>
  BY DEF cons_to_buff, At, Goto, ring, call, C
<1>2. /\ C \notin kt.ready /\ \A s \in Sems : C \notin Asleep(s)
      /\ kt.val["consoleWait"] = 0 /\ Asleep("consoleWait") = {}
  BY <1>1, Names DEF InInv, Places, Interrupts
<1>3. /\ kt' \in K!KtState(Sems, Threads) /\ kt'.ready = kt.ready /\ kt'.running = NoThread
      /\ kt'.val["consoleWait"] = -1 /\ Asleep("consoleWait")' = {C}
      /\ \A s \in Sems \ {"consoleWait"} : kt'.val[s] = kt.val[s] /\ Asleep(s)' = Asleep(s)
  BY <1>1, <1>2, Names, PEffect DEF Asleep
<1>4. \A t \in Threads : pc'[t] = IF t = C THEN "wait_slot" ELSE pc[t]
  BY <1>1, Names DEF Types
<1>5. Types'
  BY <1>1, <1>3, <1>4, Names DEF Types, Labels, C
<1>6. /\ \A r \in Readers : Inside(r)' <=> Inside(r)
      /\ (Taking' <=> Taking) /\ ~Handling /\ ~Handling'
  BY <1>1, <1>3, <1>4, Names DEF Asleep, Inside, Taking, Handling, C
<1>7. Places'
  BY <1>1, <1>2, <1>3, <1>4, Names, KtParts DEF InInv, Places, C
<1>8. Mutex' /\ Slots' /\ UnreadSlots' = UnreadSlots
  BY <1>1, <1>3, <1>4, <1>6, Names, MutexFrame, SlotsFrame
<1>9. Interrupts'
  BY <1>1, <1>3, <1>6 DEF InInv, Interrupts, C
<1>10. Calls'
  BY <1>1, <1>4, Names DEF InInv, Calls
<1> QED BY <1>5, <1>7, <1>8, <1>9, <1>10 DEF InInv

(* It has a character and waits for a slot.                                *)
LEMMA WaitSlotStep ==
  ASSUME InInv, wait_slot
  PROVE  InInv' /\ UnreadSlots' = UnreadSlots
<1>1. /\ kt.running = C /\ pc[C] = "wait_slot" /\ kt' = K!P_kt_sem(kt, "nslots")
      /\ pc' = [pc EXCEPT ![C] = "move"]
      /\ UNCHANGED <<device, typed, buff, head, tail, asked, count, given>>
  BY DEF wait_slot, At, Goto, ring, call, C
<1>2. /\ C \notin kt.ready /\ \A s \in Sems : C \notin Asleep(s)
      /\ kt.val["nslots"] >= 0 /\ Asleep("nslots") = {}
  BY <1>1, Names DEF InInv, Places, Slots
<1>3. /\ kt' \in K!KtState(Sems, Threads) /\ kt'.ready = kt.ready
      /\ kt'.val["nslots"] = kt.val["nslots"] - 1
      /\ kt.val["nslots"] > 0 => Asleep("nslots")' = {} /\ kt'.running = C
      /\ ~(kt.val["nslots"] > 0) => Asleep("nslots")' = {C} /\ kt'.running = NoThread
      /\ \A s \in Sems \ {"nslots"} : kt'.val[s] = kt.val[s] /\ Asleep(s)' = Asleep(s)
  BY <1>1, <1>2, Names, PEffect DEF Asleep
<1>4. \A t \in Threads : pc'[t] = IF t = C THEN "move" ELSE pc[t]
  BY <1>1, Names DEF Types
<1>5. Types'
  BY <1>1, <1>3, <1>4, Names DEF Types, Labels, C
<1>6. /\ \A r \in Readers : Inside(r)' <=> Inside(r)
      /\ (Taking' <=> Taking) /\ (Handling' <=> Handling)
  BY <1>1, <1>3, <1>4, Names DEF Asleep, Inside, Taking, Handling, C
<1>7. Places'
  BY <1>1, <1>2, <1>3, <1>4, Names, KtParts DEF InInv, Places, C
<1>8. Mutex' /\ Interrupts'
  BY <1>1, <1>3, <1>6, Names, MutexFrame, InterruptsFrame
<1>9. Slots' /\ UnreadSlots' = UnreadSlots
  <2>1. UnreadSlots' = UnreadSlots
    BY <1>3, <1>6, Names DEF UnreadSlots, One
  <2>2. FreeSlots' = FreeSlots
    BY <1>1, <1>2, <1>3, <1>4, Names DEF FreeSlots, One, C
  <2>3. (C \in Asleep("nslots"))' => kt'.val["nslots"] = -1
    BY <1>2, <1>3, Names DEF C
  <2>4. (C \notin Asleep("nslots"))' => kt'.val["nslots"] >= 0
    BY <1>2, <1>3, Names DEF C
  <2> QED BY <1>3, <2>1, <2>2, <2>3, <2>4, Names DEF InInv, Slots
<1>10. Calls'
  BY <1>1, <1>4, Names DEF InInv, Calls
<1> QED BY <1>5, <1>7, <1>8, <1>9, <1>10 DEF InInv

(* It moves the character to its slot and wakes a reader, if one waits.    *)
LEMMA MoveStep ==
  ASSUME InInv, move
  PROVE  InInv' /\ UnreadSlots' = UnreadSlots + 1 /\ UnreadSlots \in 0 .. (Size - 1)
<1>1. /\ kt.running = C /\ pc[C] = "move" /\ kt' \in K!V_kt_sem(kt, "nelem")
      /\ device' = NoChar /\ buff' = [buff EXCEPT ![tail] = device] /\ tail' = NextTail
      /\ pc' = [pc EXCEPT ![C] = "cons_to_buff"]
      /\ UNCHANGED <<typed, head, asked, count, given>>
  BY DEF move, At, Goto, call, C
<1>2. /\ C \notin kt.ready /\ \A s \in Sems : C \notin Asleep(s)
  BY <1>1, Names DEF InInv, Places
<1>3. device \in EOF .. 127
  BY <1>1, <1>2, Names DEF InInv, Interrupts, Handling, Types
<1>4. /\ kt' \in K!KtState(Sems, Threads) /\ kt'.running = C
      /\ kt'.val["nelem"] = kt.val["nelem"] + 1
      /\ \A s \in Sems \ {"nelem"} : kt'.val[s] = kt.val[s] /\ Asleep(s)' = Asleep(s)
      /\ \/ Asleep("nelem") = {} /\ Asleep("nelem")' = {} /\ kt'.ready = kt.ready
         \/ \E t \in Asleep("nelem") : /\ Asleep("nelem")' = Asleep("nelem") \ {t}
                                       /\ kt'.ready = kt.ready \cup {t}
  <2>1. kt \in K!KtState(Sems, Threads) /\ "nelem" \in Sems
    BY Names DEF Types
  <2>2. /\ kt' \in K!KtState(Sems, Threads) /\ kt'.running = kt.running
        /\ kt'.val["nelem"] = kt.val["nelem"] + 1
        /\ \A s \in Sems \ {"nelem"} : kt'.val[s] = kt.val[s] /\ kt'.asleep[s] = kt.asleep[s]
        /\ \/ kt.asleep["nelem"] = {} /\ kt'.asleep["nelem"] = {} /\ kt'.ready = kt.ready
           \/ \E t \in kt.asleep["nelem"] : /\ kt'.asleep["nelem"] = kt.asleep["nelem"] \ {t}
                                            /\ kt'.ready = kt.ready \cup {t}
    BY <1>1, <2>1, VEffect
  <2> QED BY <1>1, <2>2 DEF Asleep
<1>5. \A t \in Threads : pc'[t] = IF t = C THEN "cons_to_buff" ELSE pc[t]
  BY <1>1, Names DEF Types
<1>6. Types'
  <2>1. tail' \in 0 .. (Size - 1)
    BY <1>1, Names, KosConsoleInAssumption DEF NextTail, Types
  <2> QED BY <1>1, <1>3, <1>4, <1>5, <2>1, Names DEF Types, Labels, C
<1>7. /\ \A r \in Readers : Inside(r)' <=> Inside(r)
      /\ ~Handling'
  BY <1>4, <1>5, Names DEF Asleep, Inside, Handling, C
<1>8. \A r \in Asleep("nelem") : r \in Readers /\ pc[r] = "take" /\ r \notin kt.ready
  BY Names DEF InInv, Places
<1>9. Places'
  <2>1. /\ C \notin kt'.ready /\ kt.ready \subseteq kt'.ready
        /\ \A t \in kt'.ready : t \in kt.ready \/ t \in Asleep("nelem")
        /\ Asleep("nelem")' \subseteq Asleep("nelem")
        /\ Asleep("nelem")' \cap kt'.ready = {}
    BY <1>2, <1>4, <1>8, Names
  <2>2. \A r \in Readers : pc'[r] = pc[r] /\ (pc[r] = "user" => r \notin kt'.ready)
    BY <1>5, <1>8, <2>1, Names DEF InInv, Places
  <2>3. \A s \in Sems \ {"nelem"} : Asleep(s)' \cap Asleep("nelem") = {}
    BY <1>4, <1>8, Names DEF InInv, Places
  <2> QED BY <1>1, <1>2, <1>4, <1>5, <1>8, <2>1, <2>2, <2>3, Names DEF InInv, Places
<1>10. Mutex'
  BY <1>4, <1>7, Names, MutexFrame
<1>11. Interrupts'
  BY <1>1, <1>2, <1>4, <1>7, Names DEF InInv, Interrupts, C
<1>12. Slots' /\ UnreadSlots' = UnreadSlots + 1 /\ UnreadSlots \in 0 .. (Size - 1)
  <2>1. FreeSlots' = FreeSlots - 1 /\ FreeSlots \in Int
    BY <1>1, <1>2, <1>4, <1>5, Names DEF FreeSlots, One, C
  <2>2. /\ UnreadSlots' = UnreadSlots + 1 /\ UnreadSlots \in Int
        /\ (Asleep("nelem") # {})' => kt'.val["nelem"] = -1
        /\ (Asleep("nelem") = {})' => kt'.val["nelem"] >= 0
    <3>1. CASE Asleep("nelem") = {} /\ Asleep("nelem")' = {} /\ kt'.ready = kt.ready
      <4>1. Taking' <=> Taking
        BY <1>5, <3>1, Names DEF Taking
      <4> QED BY <1>4, <3>1, <4>1, Names DEF InInv, Slots, UnreadSlots, One
    <3>2. CASE \E t \in Asleep("nelem") : /\ Asleep("nelem")' = Asleep("nelem") \ {t}
                                          /\ kt'.ready = kt.ready \cup {t}
      <4>1. PICK t \in Asleep("nelem") : Asleep("nelem")' = Asleep("nelem") \ {t}
        BY <3>2
      <4>2. \A u \in Asleep("nelem") : u = t
        <5>1. \A u \in Asleep("nelem") : Inside(u) /\ u \in Readers
          BY <1>8, Names DEF Inside, InInv, Places, Asleep
        <5> QED BY <5>1 DEF InInv, Mutex
      <4>3. Asleep("nelem")' = {} /\ Taking'
        BY <1>5, <1>8, <4>1, <4>2, Names DEF Taking
      <4> QED BY <1>4, <4>1, <4>3, Names DEF InInv, Slots, UnreadSlots, One
    <3> QED BY <1>4, <3>1, <3>2
  <2>3. UnreadSlots >= 0 /\ FreeSlots >= 1
    <3>1. kt.val["nslots"] \in Int /\ kt.val["nslots"] >= 0
      BY <1>2, Names DEF InInv, Slots, C
    <3>2. UnreadSlots >= 0
      BY Names DEF InInv, Slots, UnreadSlots, One
    <3> QED BY <1>1, <1>2, <3>1, <3>2, Names DEF FreeSlots, One
  <2>4. UnreadSlots + FreeSlots = Size
    BY DEF InInv, Slots
  <2>5. (UnreadSlots + FreeSlots = Size)' /\ UnreadSlots \in 0 .. (Size - 1)
    BY <2>1, <2>2, <2>3, <2>4, KosConsoleInAssumption
  <2> QED BY <1>2, <1>4, <2>2, <2>5, Names DEF InInv, Slots, C
<1>13. Calls'
  BY <1>1, <1>5, Names DEF InInv, Calls
<1> QED BY <1>6, <1>9, <1>10, <1>11, <1>12, <1>13 DEF InInv

(* do_read refuses its arguments.                                          *)
LEMMA RefuseStep ==
  ASSUME InInv, NEW r \in Readers, do_read_refuse(r)
  PROVE  InInv' /\ UnreadSlots' = UnreadSlots
<1>1. /\ kt.running = r /\ pc[r] = "do_read" /\ kt' = K!kt_exit(kt)
      /\ pc' = [pc EXCEPT ![r] = "user"] /\ count' = [count EXCEPT ![r] = -1]
      /\ UNCHANGED <<device, typed, buff, head, tail, asked, given>>
  BY DEF do_read_refuse, At, Goto, ring
<1>2. /\ kt' \in K!KtState(Sems, Threads) /\ kt'.val = kt.val
      /\ kt'.ready = kt.ready /\ kt'.running = NoThread
      /\ \A s \in Sems : Asleep(s)' = Asleep(s)
  BY <1>1, Names, ExitEffect DEF Asleep, Types
<1>3. \A t \in Threads : pc'[t] = IF t = r THEN "user" ELSE pc[t]
  BY <1>1, Names DEF Types
<1>4. Types'
  BY <1>1, <1>2, <1>3, Names DEF Types, Labels, C
<1>5. /\ \A u \in Readers : Inside(u)' <=> Inside(u)
      /\ (Taking' <=> Taking) /\ (Handling' <=> Handling)
  BY <1>1, <1>2, <1>3, Names DEF Asleep, Inside, Taking, Handling, C
<1>6. Places'
  BY <1>1, <1>2, <1>3, ReaderRuns, Names, KtParts DEF InInv, Places, C
<1>7. Mutex' /\ Interrupts' /\ Slots' /\ UnreadSlots' = UnreadSlots
  BY <1>1, <1>2, <1>3, <1>5, Names, MutexFrame, InterruptsFrame, SlotsFrame
<1>8. Calls'
  BY <1>1, <1>3, Names DEF InInv, Calls, Types
<1> QED BY <1>4, <1>6, <1>7, <1>8 DEF InInv

(* do_read comes to P(readers).                                            *)
LEMMA EnterStep ==
  ASSUME InInv, NEW r \in Readers, do_read(r)
  PROVE  InInv' /\ UnreadSlots' = UnreadSlots
<1>1. /\ kt.running = r /\ pc[r] = "do_read" /\ kt' = K!P_kt_sem(kt, "readers")
      /\ pc' = [pc EXCEPT ![r] = "start"] /\ asked[r] >= 0
      /\ UNCHANGED <<device, typed, buff, head, tail, asked, count, given>>
  BY DEF do_read, At, Goto, ring, call
<1>2. r \notin kt.ready /\ (\A s \in Sems : r \notin Asleep(s)) /\ ~Inside(r)
  BY <1>1, ReaderRuns DEF Inside
<1>3. /\ kt' \in K!KtState(Sems, Threads) /\ kt'.ready = kt.ready
      /\ kt'.val["readers"] = kt.val["readers"] - 1
      /\ kt.val["readers"] > 0 => Asleep("readers")' = Asleep("readers") /\ kt'.running = r
      /\ ~(kt.val["readers"] > 0) =>
           Asleep("readers")' = Asleep("readers") \cup {r} /\ kt'.running = NoThread
      /\ \A s \in Sems \ {"readers"} : kt'.val[s] = kt.val[s] /\ Asleep(s)' = Asleep(s)
  BY <1>1, Names, PEffect DEF Asleep
<1>4. \A t \in Threads : pc'[t] = IF t = r THEN "start" ELSE pc[t]
  BY <1>1, Names DEF Types
<1>5. Types'
  BY <1>1, <1>3, <1>4, Names DEF Types, Labels, C
<1>6. (Taking' <=> Taking) /\ (Handling' <=> Handling)
  BY <1>1, <1>3, <1>4, Names DEF Taking, Handling, C
<1>7. Places'
  BY <1>1, <1>2, <1>3, <1>4, Names, KtParts DEF InInv, Places, C
<1>8. IsFiniteSet(Asleep("readers")) /\ Cardinality(Asleep("readers")) \in Nat
  <2>1. Asleep("readers") \subseteq Readers
    BY DEF InInv, Places
  <2> QED BY <2>1, KosConsoleInAssumption, FS_Subset, FS_CardinalityType
<1>9. Mutex'
  <2>1. CASE kt.val["readers"] > 0
    <3>1. NoneInside /\ kt.val["readers"] = 1 /\ Asleep("readers") = {} /\ Asleep("readers")' = {}
      BY <1>3, <1>8, <2>1, Names DEF InInv, Mutex
    <3>2. \A u \in Readers : Inside(u)' <=> u = r
      BY <1>4, <3>1, Names DEF Inside, NoneInside, Asleep
    <3>3. Cardinality(Asleep("readers")') = 0
      BY <3>1, FS_EmptySet
    <3> QED BY <1>3, <3>1, <3>2, <3>3 DEF Mutex, NoneInside
  <2>2. CASE ~(kt.val["readers"] > 0)
    <3>1. ~NoneInside /\ kt.val["readers"] = -Cardinality(Asleep("readers"))
      BY <2>2 DEF InInv, Mutex
    <3>2. \A u \in Readers : Inside(u)' <=> Inside(u)
      BY <1>2, <1>3, <1>4, <2>2, Names DEF Inside, Asleep
    <3>3. Cardinality(Asleep("readers")') = Cardinality(Asleep("readers")) + 1
      BY <1>2, <1>3, <1>8, <2>2, Names, FS_AddElement
    <3> QED BY <1>3, <1>8, <3>1, <3>2, <3>3 DEF InInv, Mutex, NoneInside
  <2> QED BY <2>1, <2>2
<1>10. Interrupts' /\ Slots' /\ UnreadSlots' = UnreadSlots
  BY <1>1, <1>3, <1>4, <1>6, Names, InterruptsFrame, SlotsFrame
<1>11. Calls'
  BY <1>1, <1>4, Names DEF InInv, Calls
<1> QED BY <1>5, <1>7, <1>9, <1>10, <1>11 DEF InInv

-----------------------------------------------------------------------------
(* Steps of a call that is past P(readers).                                *)

(* Whoever is let go on by a V of the running thread can run.              *)
LEMMA WakePlaces ==
  ASSUME InInv, NEW r \in Readers, kt.running = r, NEW label \in {"user", "test"},
         \A t \in Threads : pc'[t] = IF t = r THEN label ELSE pc[t],
         kt'.running = IF label = "user" THEN NoThread ELSE r,
         kt.ready \subseteq kt'.ready, kt'.ready \subseteq Threads,
         \A s \in Sems : Asleep(s)' \subseteq Asleep(s),
         \A t \in kt'.ready \ kt.ready : \E s \in Sems : t \in Asleep(s) /\ t \notin Asleep(s)',
         \A s \in Sems : \A t \in Asleep(s) : t \notin Asleep(s)' => t \in kt'.ready
  PROVE  Places'
<1>1. r \notin kt.ready /\ \A s \in Sems : r \notin Asleep(s)
  BY ReaderRuns
<1>2. \A s, u \in Sems : s # u => Asleep(s) \cap Asleep(u) = {}
  BY Names DEF InInv, Places
<1>3. \A t \in kt'.ready : t # r /\ \A s \in Sems : t \notin Asleep(s)'
  <2> SUFFICES ASSUME NEW t \in kt'.ready PROVE t # r /\ \A s \in Sems : t \notin Asleep(s)'
    OBVIOUS
  <2>1. CASE t \in kt.ready
    BY <1>1, <2>1 DEF InInv, Places
  <2>2. CASE t \notin kt.ready
    <3>1. PICK s \in Sems : t \in Asleep(s) /\ t \notin Asleep(s)'
      BY <2>2
    <3> QED BY <1>1, <1>2, <3>1
  <2> QED BY <2>1, <2>2
<1>4. \A u \in Readers : pc[u] = "user" => \A s \in Sems : u \notin Asleep(s)
  BY Names DEF InInv, Places
<1>5. kt'.running \notin kt'.ready /\ \A s \in Sems : Asleep(s)' \cap (kt'.ready \cup {kt'.running}) = {}
  BY <1>1, <1>3, Names
<1>6. \A u \in Readers : pc'[u] = "user" => u \notin kt'.ready \cup {kt'.running}
  <2> SUFFICES ASSUME NEW u \in Readers, pc'[u] = "user" PROVE u \notin kt'.ready \cup {kt'.running}
    OBVIOUS
  <2>1. CASE u = r
    BY <1>3, <2>1, Names
  <2>2. CASE u # r
    <3>1. pc[u] = "user" /\ u \notin kt.ready /\ \A s \in Sems : u \notin Asleep(s)
      BY <1>4, <2>2, Names DEF InInv, Places
    <3> QED BY <2>2, <3>1, Names
  <2> QED BY <2>1, <2>2
<1>7. C \in kt'.ready \cup Asleep("consoleWait")' \cup Asleep("nslots")'
  BY Names DEF InInv, Places
<1>8. \A s \in Sems : \A t \in Asleep(s)' : t \in Asleep(s) /\ pc'[t] = pc[t]
  BY <1>1, Names
<1>9. C # r /\ pc'[C] = pc[C]
  BY Names
<1> QED BY <1>5, <1>6, <1>7, <1>8, <1>9, Names DEF InInv, Places

(* V(readers) lets the next call in, if one waits.                         *)
LEMMA MutexLeave ==
  ASSUME InInv, NEW r \in Readers, kt.running = r, pc[r] \in {"test", "take"},
         \A t \in Threads : pc'[t] = IF t = r THEN "user" ELSE pc[t],
         kt'.val["readers"] = kt.val["readers"] + 1,
         \/ Asleep("readers") = {} /\ Asleep("readers")' = {}
         \/ \E t \in Asleep("readers") : Asleep("readers")' = Asleep("readers") \ {t}
  PROVE  Mutex'
<1>1. Inside(r) /\ \A u \in Readers : Inside(u) => u = r
  BY ReaderRuns
<1>2. kt.val["readers"] = -Cardinality(Asleep("readers"))
  BY <1>1 DEF InInv, Mutex, NoneInside
<1>3. /\ Asleep("readers") \subseteq Readers /\ IsFiniteSet(Asleep("readers"))
      /\ Cardinality(Asleep("readers")) \in Nat /\ r \notin Asleep("readers")
      /\ \A t \in Asleep("readers") : pc[t] = "start"
  <2>1. Asleep("readers") \subseteq Readers
    BY DEF InInv, Places
  <2> QED BY <2>1, ReaderRuns, Names, KosConsoleInAssumption, FS_Subset, FS_CardinalityType
          DEF InInv, Places
<1>4. CASE Asleep("readers") = {} /\ Asleep("readers")' = {}
  <2>1. \A u \in Readers : ~Inside(u)'
    BY <1>1, <1>4, Names DEF Inside, Asleep
  <2>2. kt'.val["readers"] = 1
    BY <1>2, <1>4, FS_EmptySet
  <2> QED BY <1>4, <2>1, <2>2 DEF Mutex, NoneInside
<1>5. CASE \E t \in Asleep("readers") : Asleep("readers")' = Asleep("readers") \ {t}
  <2>1. PICK t \in Asleep("readers") : Asleep("readers")' = Asleep("readers") \ {t}
    BY <1>5
  <2>2. t \in Readers /\ t # r /\ pc'[t] = "start"
    BY <1>3, Names
  <2>3. \A u \in Readers : Inside(u)' <=> u = t
    BY <1>1, <2>1, <2>2, Names DEF Inside, Asleep
  <2>4. Cardinality(Asleep("readers")') = Cardinality(Asleep("readers")) - 1
    BY <1>3, <2>1, FS_RemoveElement
  <2>5. kt'.val["readers"] = -Cardinality(Asleep("readers")')
    BY <1>2, <1>3, <2>4
  <2> QED BY <2>2, <2>3, <2>5 DEF Mutex, NoneInside
<1> QED BY <1>4, <1>5

(* V(nslots) gives a slot back.                                            *)
LEMMA SlotBack ==
  ASSUME InInv, NEW k \in K!V_kt_sem(kt, "nslots")
  PROVE  /\ k \in K!KtState(Sems, Threads) /\ k.running = kt.running
         /\ \A s \in Sems \ {"nslots"} : k.val[s] = kt.val[s] /\ k.asleep[s] = kt.asleep[s]
         /\ k.asleep["nslots"] = {} /\ k.val["nslots"] = kt.val["nslots"] + 1
         /\ k.ready = IF C \in Asleep("nslots") THEN kt.ready \cup {C} ELSE kt.ready
<1>1. kt \in K!KtState(Sems, Threads) /\ "nslots" \in Sems
  BY Names DEF Types
<1>2. Asleep("nslots") \subseteq {C}
  BY DEF InInv, Places
<1>3. /\ k \in K!KtState(Sems, Threads) /\ k.running = kt.running
      /\ k.val["nslots"] = kt.val["nslots"] + 1
      /\ \A s \in Sems \ {"nslots"} : k.val[s] = kt.val[s] /\ k.asleep[s] = kt.asleep[s]
      /\ \/ kt.asleep["nslots"] = {} /\ k.asleep["nslots"] = {} /\ k.ready = kt.ready
         \/ \E t \in kt.asleep["nslots"] : /\ k.asleep["nslots"] = kt.asleep["nslots"] \ {t}
                                          /\ k.ready = kt.ready \cup {t}
  BY <1>1, VEffect
<1>4. CASE C \in Asleep("nslots")
  BY <1>2, <1>3, <1>4 DEF Asleep
<1>5. CASE C \notin Asleep("nslots")
  BY <1>2, <1>3, <1>5 DEF Asleep
<1> QED BY <1>3, <1>4, <1>5 DEF Asleep

(* The byte a reader was promised is passed, and its slot free.            *)
LEMMA SlotsPassed ==
  ASSUME InInv, NEW r \in Readers, kt.running = r, pc[r] = "take",
         NEW label \in {"user", "test"},
         \A t \in Threads : pc'[t] = IF t = r THEN label ELSE pc[t],
         kt'.val["nelem"] = kt.val["nelem"], Asleep("nelem")' = Asleep("nelem"),
         kt'.val["nslots"] = kt.val["nslots"] + 1, Asleep("nslots")' = {}
  PROVE  /\ Slots' /\ Taking /\ ~Taking'
         /\ UnreadSlots' = UnreadSlots - 1 /\ UnreadSlots \in 1 .. Size
<1>1. Asleep("nelem") = {} /\ \A u \in Readers : pc[u] = "take" => u = r
  BY ReaderRuns
<1>2. Taking /\ ~Taking'
  BY <1>1, Names DEF Taking
<1>3. kt.val["nelem"] \in Int /\ kt.val["nelem"] >= 0 /\ kt.val["nslots"] \in Int
  BY <1>1, Names DEF InInv, Slots
<1>4. UnreadSlots = kt.val["nelem"] + 1 /\ UnreadSlots' = kt.val["nelem"]
  BY <1>1, <1>2, <1>3 DEF UnreadSlots, One
<1>5. FreeSlots' = FreeSlots + 1 /\ FreeSlots \in Nat
  <2>1. pc'[C] = pc[C] /\ (C \in Asleep("nslots") => pc[C] = "move")
    BY Names DEF InInv, Places
  <2> QED BY <1>3, <2>1 DEF InInv, Slots, FreeSlots, One, C
<1>6. kt'.val["nslots"] >= 0
  BY <1>3 DEF InInv, Slots
<1>7. Slots'
  BY <1>1, <1>3, <1>4, <1>5, <1>6, KosConsoleInAssumption DEF InInv, Slots, C
<1>8. UnreadSlots + FreeSlots = Size
  BY DEF InInv, Slots
<1>9. UnreadSlots' = UnreadSlots - 1 /\ UnreadSlots \in 1 .. Size
  BY <1>3, <1>4, <1>5, <1>8, KosConsoleInAssumption
<1> QED BY <1>2, <1>7, <1>9

(* P(readers) has returned.                                                *)
LEMMA StartStep ==
  ASSUME InInv, NEW r \in Readers, read_start(r)
  PROVE  InInv' /\ UnreadSlots' = UnreadSlots
<1>1. /\ kt.running = r /\ pc[r] = "start" /\ pc' = [pc EXCEPT ![r] = "test"]
      /\ count' = [count EXCEPT ![r] = 0]
      /\ UNCHANGED <<kt, device, typed, buff, head, tail, asked, given>>
  BY DEF read_start, At, Goto, ring
<1>2. /\ \A t \in Threads : pc'[t] = IF t = r THEN "test" ELSE pc[t]
      /\ \A s \in Sems : Asleep(s)' = Asleep(s) /\ r \notin Asleep(s)
  BY <1>1, ReaderRuns, Names DEF Types, Asleep
<1>3. Types'
  BY <1>1, <1>2, Names DEF Types, Labels, C
<1>4. /\ \A u \in Readers : Inside(u)' <=> Inside(u)
      /\ (Taking' <=> Taking) /\ (Handling' <=> Handling)
  BY <1>1, <1>2, ReaderRuns, Names DEF Asleep, Inside, Taking, Handling, C
<1>5. Places'
  BY <1>1, <1>2, ReaderRuns, Names DEF InInv, Places, C
<1>6. Mutex' /\ Interrupts' /\ Slots' /\ UnreadSlots' = UnreadSlots
  BY <1>1, <1>2, <1>4, Names, MutexFrame, InterruptsFrame, SlotsFrame
<1>7. Calls'
  BY <1>1, <1>2, Names DEF InInv, Calls, Types
<1> QED BY <1>3, <1>5, <1>6, <1>7 DEF InInv

(* A reader waits for a byte.                                              *)
LEMMA NextStep ==
  ASSUME InInv, NEW r \in Readers, read_next(r)
  PROVE  InInv' /\ UnreadSlots' = UnreadSlots
<1>1. /\ kt.running = r /\ pc[r] = "test" /\ kt' = K!P_kt_sem(kt, "nelem")
      /\ pc' = [pc EXCEPT ![r] = "take"] /\ count[r] < asked[r]
      /\ UNCHANGED <<device, typed, buff, head, tail, asked, count, given>>
  BY DEF read_next, At, Goto, ring, call
<1>2. /\ r \notin kt.ready /\ \A s \in Sems : r \notin Asleep(s)
      /\ Asleep("nelem") = {} /\ \A u \in Readers : pc[u] # "take"
  BY <1>1, ReaderRuns
<1>3. /\ kt' \in K!KtState(Sems, Threads) /\ kt'.ready = kt.ready
      /\ kt'.val["nelem"] = kt.val["nelem"] - 1
      /\ kt.val["nelem"] > 0 => Asleep("nelem")' = {} /\ kt'.running = r
      /\ ~(kt.val["nelem"] > 0) => Asleep("nelem")' = {r} /\ kt'.running = NoThread
      /\ \A s \in Sems \ {"nelem"} : kt'.val[s] = kt.val[s] /\ Asleep(s)' = Asleep(s)
  BY <1>1, <1>2, Names, PEffect DEF Asleep
<1>4. \A t \in Threads : pc'[t] = IF t = r THEN "take" ELSE pc[t]
  BY <1>1, Names DEF Types
<1>5. Types'
  BY <1>1, <1>3, <1>4, Names DEF Types, Labels, C
<1>6. /\ \A u \in Readers : Inside(u)' <=> Inside(u)
      /\ Handling' <=> Handling
  BY <1>1, <1>2, <1>3, <1>4, Names DEF Asleep, Inside, Handling, C
<1>7. Places'
  BY <1>1, <1>2, <1>3, <1>4, Names, KtParts DEF InInv, Places, C
<1>8. Mutex' /\ Interrupts'
  BY <1>1, <1>3, <1>6, Names, MutexFrame, InterruptsFrame
<1>9. Slots' /\ UnreadSlots' = UnreadSlots
  <2>1. FreeSlots' = FreeSlots
    BY <1>3, <1>4, Names DEF FreeSlots, One, C
  <2>2. kt.val["nelem"] \in Int /\ kt.val["nelem"] >= 0 /\ ~Taking
    BY <1>2, Names DEF InInv, Slots, Taking
  <2>3. kt.val["nelem"] > 0 => Taking'
    BY <1>3, <1>4, Names DEF Taking
  <2>4. UnreadSlots' = UnreadSlots
    BY <1>2, <1>3, <2>2, <2>3 DEF UnreadSlots, One
  <2> QED BY <1>2, <1>3, <2>1, <2>2, <2>4, Names DEF InInv, Slots, C
<1>10. Calls'
  BY <1>1, <1>4, Names DEF InInv, Calls, Types
<1> QED BY <1>5, <1>7, <1>8, <1>9, <1>10 DEF InInv

(* A call has all it asked for.                                            *)
LEMMA DoneStep ==
  ASSUME InInv, NEW r \in Readers, read_done(r)
  PROVE  InInv' /\ UnreadSlots' = UnreadSlots
<1>1. PICK k \in K!V_kt_sem(kt, "readers") :
        /\ kt.running = r /\ pc[r] = "test" /\ kt' = K!kt_exit(k)
        /\ pc' = [pc EXCEPT ![r] = "user"]
        /\ UNCHANGED <<device, typed, buff, head, tail, asked, count, given>>
  BY DEF read_done, At, Goto, ring, call
<1>2. /\ kt' \in K!KtState(Sems, Threads) /\ kt'.running = NoThread
      /\ kt'.val["readers"] = kt.val["readers"] + 1
      /\ \A s \in Sems \ {"readers"} : kt'.val[s] = kt.val[s] /\ Asleep(s)' = Asleep(s)
      /\ \/ Asleep("readers") = {} /\ Asleep("readers")' = {} /\ kt'.ready = kt.ready
         \/ \E t \in Asleep("readers") : /\ Asleep("readers")' = Asleep("readers") \ {t}
                                         /\ kt'.ready = kt.ready \cup {t}
  <2>1. kt \in K!KtState(Sems, Threads) /\ "readers" \in Sems
    BY Names DEF Types
  <2>2. /\ k \in K!KtState(Sems, Threads)
        /\ k.val["readers"] = kt.val["readers"] + 1
        /\ \A s \in Sems \ {"readers"} : k.val[s] = kt.val[s] /\ k.asleep[s] = kt.asleep[s]
        /\ \/ kt.asleep["readers"] = {} /\ k.asleep["readers"] = {} /\ k.ready = kt.ready
           \/ \E t \in kt.asleep["readers"] : /\ k.asleep["readers"] = kt.asleep["readers"] \ {t}
                                             /\ k.ready = kt.ready \cup {t}
    BY <2>1, VEffect
  <2>3. /\ kt' \in K!KtState(Sems, Threads) /\ kt'.val = k.val /\ kt'.asleep = k.asleep
        /\ kt'.ready = k.ready /\ kt'.running = NoThread
    BY <1>1, <2>2, ExitEffect
  <2> QED BY <2>2, <2>3 DEF Asleep
<1>3. /\ \A t \in Threads : pc'[t] = IF t = r THEN "user" ELSE pc[t]
      /\ \A s \in Sems : r \notin Asleep(s)
  BY <1>1, ReaderRuns, Names DEF Types
<1>4. Types'
  BY <1>1, <1>2, <1>3, Names DEF Types, Labels, C
<1>5. (Taking' <=> Taking) /\ (Handling' <=> Handling)
  BY <1>1, <1>2, <1>3, Names DEF Taking, Handling, C
<1>6. Places'
  <2>1. /\ kt.ready \subseteq kt'.ready /\ kt'.ready \subseteq Threads
        /\ \A s \in Sems : Asleep(s)' \subseteq Asleep(s)
        /\ \A t \in kt'.ready \ kt.ready : \E s \in Sems : t \in Asleep(s) /\ t \notin Asleep(s)'
        /\ \A s \in Sems : \A t \in Asleep(s) : t \notin Asleep(s)' => t \in kt'.ready
    BY <1>2, Names, KtParts
  <2> QED BY <1>1, <1>2, <1>3, <2>1, WakePlaces
<1>7. Mutex'
  BY <1>1, <1>2, <1>3, MutexLeave
<1>8. Interrupts' /\ Slots' /\ UnreadSlots' = UnreadSlots
  BY <1>1, <1>2, <1>3, <1>5, Names, InterruptsFrame, SlotsFrame
<1>9. Calls'
  BY <1>1, <1>3, Names DEF InInv, Calls
<1> QED BY <1>4, <1>6, <1>7, <1>8, <1>9 DEF InInv

(* A reader takes a byte and gives its slot back.                          *)
LEMMA ByteStep ==
  ASSUME InInv, NEW r \in Readers, read_byte(r)
  PROVE  InInv' /\ UnreadSlots' = UnreadSlots - 1 /\ UnreadSlots \in 1 .. Size
<1>1. /\ kt.running = r /\ pc[r] = "take" /\ kt' \in K!V_kt_sem(kt, "nslots")
      /\ given' = Append(given, [reader |-> r, byte |-> buff[head]])
      /\ head' = NextHead /\ count' = [count EXCEPT ![r] = @ + 1]
      /\ pc' = [pc EXCEPT ![r] = "test"]
      /\ UNCHANGED <<device, typed, buff, tail, asked>>
  BY DEF read_byte, At, Goto
<1>2. /\ kt' \in K!KtState(Sems, Threads) /\ kt'.running = r
      /\ \A s \in Sems \ {"nslots"} : kt'.val[s] = kt.val[s] /\ Asleep(s)' = Asleep(s)
      /\ Asleep("nslots")' = {} /\ kt'.val["nslots"] = kt.val["nslots"] + 1
      /\ kt'.ready = IF C \in Asleep("nslots") THEN kt.ready \cup {C} ELSE kt.ready
  BY <1>1, SlotBack DEF Asleep
<1>3. /\ \A t \in Threads : pc'[t] = IF t = r THEN "test" ELSE pc[t]
      /\ \A s \in Sems : r \notin Asleep(s)
  BY <1>1, ReaderRuns, Names DEF Types
<1>4. Types'
  <2>1. head \in 0 .. (Size - 1) /\ buff[head] \in EOF .. 127
    BY Names DEF Types
  <2>2. head' \in 0 .. (Size - 1) /\ buff[head] \in Int
    <3>1. \A n \in EOF .. 127 : n \in Int
      BY DEF EOF
    <3>2. (head + 1) % Size \in 0 .. (Size - 1)
      BY <2>1, KosConsoleInAssumption
    <3> QED BY <1>1, <2>1, <3>1, <3>2 DEF NextHead
  <2>3. given' \in Seq([reader : Readers, byte : Int])
    <3>1. [reader |-> r, byte |-> buff[head]] \in [reader : Readers, byte : Int]
      BY <2>2
    <3> QED BY <1>1, <3>1, Names DEF Types
  <2> QED BY <1>1, <1>2, <1>3, <2>2, <2>3, Names DEF Types, Labels, C
<1>5. /\ \A u \in Readers : Inside(u)' <=> Inside(u)
      /\ Handling' <=> Handling
  BY <1>1, <1>2, <1>3, Names DEF Asleep, Inside, Handling, C
<1>6. Places'
  <2>1. Asleep("nslots") \subseteq {C}
    BY DEF InInv, Places
  <2>2. /\ kt.ready \subseteq kt'.ready /\ kt'.ready \subseteq Threads
        /\ \A s \in Sems : Asleep(s)' \subseteq Asleep(s)
        /\ \A t \in kt'.ready \ kt.ready : \E s \in Sems : t \in Asleep(s) /\ t \notin Asleep(s)'
        /\ \A s \in Sems : \A t \in Asleep(s) : t \notin Asleep(s)' => t \in kt'.ready
    BY <1>2, <2>1, Names, KtParts
  <2> QED BY <1>1, <1>2, <1>3, <2>2, WakePlaces
<1>7. Mutex' /\ Interrupts'
  BY <1>1, <1>2, <1>5, Names, MutexFrame, InterruptsFrame
<1>8. Slots' /\ UnreadSlots' = UnreadSlots - 1 /\ UnreadSlots \in 1 .. Size
  BY <1>1, <1>2, <1>3, Names, SlotsPassed
<1>9. Calls'
  BY <1>1, <1>3, Names DEF InInv, Calls, Types
<1> QED BY <1>4, <1>6, <1>7, <1>8, <1>9 DEF InInv

(* A reader finds the end of the input: slot and mutex are given back.     *)
LEMMA EofStep ==
  ASSUME InInv, NEW r \in Readers, read_eof(r)
  PROVE  InInv' /\ UnreadSlots' = UnreadSlots - 1 /\ UnreadSlots \in 1 .. Size
<1>1. PICK k : k \in ReleaseAtEof(kt) /\ kt' = K!kt_exit(k)
  BY DEF read_eof
<1>2. /\ kt.running = r /\ pc[r] = "take" /\ pc' = [pc EXCEPT ![r] = "user"]
      /\ UNCHANGED <<device, typed, buff, head, tail, asked, count, given>>
  BY DEF read_eof, At, Goto, ring, call
<1>3. PICK j \in K!V_kt_sem(kt, "nslots") : k \in K!V_kt_sem(j, "readers")
  BY <1>1 DEF ReleaseAtEof
<1>4. /\ j \in K!KtState(Sems, Threads) /\ j.running = kt.running
      /\ \A s \in Sems \ {"nslots"} : j.val[s] = kt.val[s] /\ j.asleep[s] = kt.asleep[s]
      /\ j.asleep["nslots"] = {} /\ j.val["nslots"] = kt.val["nslots"] + 1
      /\ j.ready = IF C \in Asleep("nslots") THEN kt.ready \cup {C} ELSE kt.ready
  BY SlotBack
<1>5. /\ k \in K!KtState(Sems, Threads)
      /\ k.val["readers"] = j.val["readers"] + 1
      /\ \A s \in Sems \ {"readers"} : k.val[s] = j.val[s] /\ k.asleep[s] = j.asleep[s]
      /\ \/ j.asleep["readers"] = {} /\ k.asleep["readers"] = {} /\ k.ready = j.ready
         \/ \E t \in j.asleep["readers"] : /\ k.asleep["readers"] = j.asleep["readers"] \ {t}
                                          /\ k.ready = j.ready \cup {t}
  <2>1. "readers" \in Sems
    BY Names
  <2> QED BY <1>3, <1>4, <2>1, VEffect
<1>6. /\ kt' \in K!KtState(Sems, Threads) /\ kt'.val = k.val /\ kt'.asleep = k.asleep
      /\ kt'.ready = k.ready /\ kt'.running = NoThread
  BY <1>1, <1>5, ExitEffect
<1>7. /\ kt'.val["readers"] = kt.val["readers"] + 1
      /\ kt'.val["nslots"] = kt.val["nslots"] + 1
      /\ kt'.val["nelem"] = kt.val["nelem"] /\ kt'.val["consoleWait"] = kt.val["consoleWait"]
      /\ Asleep("nslots")' = {} /\ Asleep("nelem")' = Asleep("nelem")
      /\ Asleep("consoleWait")' = Asleep("consoleWait")
  BY <1>4, <1>5, <1>6, Names DEF Asleep
<1>8. \/ Asleep("readers") = {} /\ Asleep("readers")' = {} /\ kt'.ready = j.ready
      \/ \E t \in Asleep("readers") : /\ Asleep("readers")' = Asleep("readers") \ {t}
                                      /\ kt'.ready = j.ready \cup {t}
  BY <1>4, <1>5, <1>6, Names DEF Asleep
<1>9. /\ \A t \in Threads : pc'[t] = IF t = r THEN "user" ELSE pc[t]
      /\ \A s \in Sems : r \notin Asleep(s)
  BY <1>2, ReaderRuns, Names DEF Types
<1>10. Types'
  BY <1>2, <1>6, <1>9, Names DEF Types, Labels, C
<1>11. Handling' <=> Handling
  BY <1>7, <1>9, Names DEF Handling, C
<1>12. Places'
  <2>1. Asleep("nslots") \subseteq {C}
    BY DEF InInv, Places
  <2>2. /\ kt.ready \subseteq kt'.ready
        /\ \A s \in Sems : Asleep(s)' \subseteq Asleep(s)
        /\ \A t \in kt'.ready \ kt.ready : \E s \in Sems : t \in Asleep(s) /\ t \notin Asleep(s)'
        /\ \A s \in Sems : \A t \in Asleep(s) : t \notin Asleep(s)' => t \in kt'.ready
    BY <1>4, <1>7, <1>8, <2>1, Names
  <2>3. kt'.ready \subseteq Threads
    BY <1>6 DEF K!KtState
  <2> QED BY <1>2, <1>6, <1>9, <2>2, <2>3, WakePlaces
<1>13. Mutex'
  BY <1>2, <1>7, <1>8, <1>9, MutexLeave
<1>14. Interrupts'
  BY <1>2, <1>7, <1>11, InterruptsFrame
<1>15. Slots' /\ UnreadSlots' = UnreadSlots - 1 /\ UnreadSlots \in 1 .. Size
  BY <1>2, <1>7, <1>9, SlotsPassed
<1>16. Calls'
  BY <1>2, <1>9, Names DEF InInv, Calls
<1> QED BY <1>10, <1>12, <1>13, <1>14, <1>15, <1>16 DEF InInv

-----------------------------------------------------------------------------
(* User code.                                                              *)

(* A process calls read.                                                   *)
LEMMA SyscallStep ==
  ASSUME InInv, NEW r \in Readers, Syscall(r)
  PROVE  InInv' /\ UnreadSlots' = UnreadSlots
<1>1. /\ kt.running = NoThread /\ kt.ready = {} /\ pc[r] = "user"
      /\ pc' = [pc EXCEPT ![r] = "do_read"]
      /\ \E n \in Requests : asked' = [asked EXCEPT ![r] = n]
      /\ kt' = [kt EXCEPT !.ready = @ \cup {r}]
      /\ UNCHANGED <<device, typed, buff, head, tail, count, given>>
  BY DEF Syscall, K!AllAsleep, K!kt_fork, Goto, ring
<1>2. /\ kt'.val = kt.val /\ kt'.asleep = kt.asleep /\ kt'.running = NoThread
      /\ kt'.ready = {r} /\ kt' \in K!KtState(Sems, Threads)
  BY <1>1, Names, KtParts DEF K!KtState
<1>3. /\ \A s \in Sems : Asleep(s)' = Asleep(s) /\ r \notin Asleep(s)
      /\ \A t \in Threads : pc'[t] = IF t = r THEN "do_read" ELSE pc[t]
  BY <1>1, <1>2, Names DEF InInv, Places, Asleep, Types
<1>4. Types'
  <2>1. Requests \subseteq Int
    BY KosConsoleInAssumption DEF Requests
  <2> QED BY <1>1, <1>2, <1>3, <2>1, Names DEF Types, Labels, C
<1>5. /\ \A u \in Readers : Inside(u)' <=> Inside(u)
      /\ (Taking' <=> Taking) /\ (Handling' <=> Handling)
  BY <1>1, <1>2, <1>3, Names DEF Asleep, Inside, Taking, Handling, C
<1>6. Places'
  BY <1>1, <1>2, <1>3, Names DEF InInv, Places, C
<1>7. Mutex' /\ Interrupts' /\ Slots' /\ UnreadSlots' = UnreadSlots
  BY <1>1, <1>2, <1>3, <1>5, Names, MutexFrame, InterruptsFrame, SlotsFrame
<1>8. Calls'
  BY <1>1, <1>3, Names DEF InInv, Calls, Types
<1> QED BY <1>4, <1>6, <1>7, <1>8 DEF InInv

(* Whatever comes from the device is a char.                               *)
LEMMA InputByte ==
  ASSUME NEW n \in Nat \ {0}
  PROVE  Input(n) \in EOF .. 127
<1>1. CASE n <= Len(Text)
  <2>1. \A S : \A s \in Seq(S) : Len(s) \in Nat /\ \A i \in 1 .. Len(s) : s[i] \in S
    OBVIOUS
  <2>2. Len(Text) \in Nat /\ \A i \in 1 .. Len(Text) : Text[i] \in EOF .. 127
    BY <2>1, KosConsoleInAssumption
  <2> QED BY <1>1, <2>2 DEF Input
<1>2. CASE ~(n <= Len(Text))
  BY <1>2 DEF Input, EOF
<1> QED BY <1>1, <1>2

(* The device holds a character and has taken the last one before: the     *)
(* interrupt finds cons_to_buff asleep on consoleWait.                     *)
LEMMA InterruptStep ==
  ASSUME InInv, ConsoleReadInt
  PROVE  InInv' /\ UnreadSlots' = UnreadSlots
<1>1. /\ kt.running = NoThread /\ kt.ready = {} /\ device = NoChar
      /\ typed' = (IF typed > Len(Text) THEN typed ELSE typed + 1)
      /\ device' = Input(typed + 1)
      /\ kt' \in K!V_kt_sem(kt, "consoleWait")
      /\ UNCHANGED <<pc, buff, head, tail, asked, count, given>>
  BY DEF ConsoleReadInt, K!AllAsleep, ring, call
<1>2. /\ C \in Asleep("consoleWait") /\ Asleep("consoleWait") = {C}
      /\ pc[C] = "wait_slot" /\ kt.val["consoleWait"] = -1
      /\ \A s \in Sems \ {"consoleWait"} : C \notin Asleep(s)
  <2>1. C \in Asleep("consoleWait") \/ C \in Asleep("nslots")
    BY <1>1, Names DEF InInv, Places
  <2>2. ~Handling
    BY <1>1 DEF InInv, Interrupts
  <2>3. C \in Asleep("consoleWait")
    BY <2>1, <2>2 DEF Handling, InInv, Places
  <2> QED BY <2>3, Names DEF InInv, Places, Interrupts
<1>3. /\ kt' \in K!KtState(Sems, Threads) /\ kt'.running = NoThread
      /\ kt'.val["consoleWait"] = 0 /\ Asleep("consoleWait")' = {} /\ kt'.ready = {C}
      /\ \A s \in Sems \ {"consoleWait"} : kt'.val[s] = kt.val[s] /\ Asleep(s)' = Asleep(s)
  <2>1. kt \in K!KtState(Sems, Threads) /\ "consoleWait" \in Sems
    BY Names DEF Types
  <2>2. /\ kt' \in K!KtState(Sems, Threads) /\ kt'.running = kt.running
        /\ kt'.val["consoleWait"] = kt.val["consoleWait"] + 1
        /\ \A s \in Sems \ {"consoleWait"} : kt'.val[s] = kt.val[s] /\ kt'.asleep[s] = kt.asleep[s]
        /\ \/ kt.asleep["consoleWait"] = {} /\ kt'.asleep["consoleWait"] = {}
              /\ kt'.ready = kt.ready
           \/ \E t \in kt.asleep["consoleWait"] :
                /\ kt'.asleep["consoleWait"] = kt.asleep["consoleWait"] \ {t}
                /\ kt'.ready = kt.ready \cup {t}
    BY <1>1, <2>1, VEffect
  <2> QED BY <1>1, <1>2, <2>2 DEF Asleep
<1>4. device' \in EOF .. 127
  <2>1. typed + 1 \in Nat \ {0}
    BY Names DEF Types
  <2> QED BY <1>1, <2>1, InputByte
<1>5. device' # NoChar
  BY <1>4 DEF NoChar, EOF
<1>6. Types'
  <2>1. typed' \in Nat
    BY <1>1, Names DEF Types
  <2> QED BY <1>1, <1>3, <1>4, <2>1, Names DEF Types, C
<1>7. /\ \A u \in Readers : Inside(u)' <=> Inside(u)
      /\ (Taking' <=> Taking) /\ Handling'
  BY <1>1, <1>2, <1>3, Names DEF Asleep, Inside, Taking, Handling, C
<1>8. Places'
  BY <1>1, <1>2, <1>3, Names DEF InInv, Places, C
<1>9. Mutex' /\ Slots' /\ UnreadSlots' = UnreadSlots
  BY <1>1, <1>3, <1>7, Names, MutexFrame, SlotsFrame
<1>10. Interrupts'
  BY <1>3, <1>5, <1>7 DEF Interrupts, C
<1>11. Calls'
  BY <1>1 DEF InInv, Calls
<1> QED BY <1>6, <1>8, <1>9, <1>10, <1>11 DEF InInv

(* A step that changes nothing.                                            *)
LEMMA StutterStep ==
  ASSUME InInv, UNCHANGED vars
  PROVE  InInv' /\ UnreadSlots' = UnreadSlots
<1>1. UNCHANGED <<kt, pc, device, typed, buff, head, tail, asked, count, given>>
  BY DEF vars, ring, call
<1> QED BY <1>1 DEF InInv, Types, Places, Mutex, NoneInside, Inside, Interrupts, Handling,
                    Slots, UnreadSlots, FreeSlots, Taking, Calls, Asleep, C, One

(* Every step keeps the invariant.                                         *)
LEMMA Invariant ==
  ASSUME InInv, [Next]_vars
  PROVE  InInv'
<1>1. ASSUME NEW t \in Threads, Dispatch(t) PROVE InInv'
  BY <1>1, DispatchStep
<1>2. ASSUME NEW r \in Readers, do_read_refuse(r) PROVE InInv'
  BY <1>2, RefuseStep
<1>3. ASSUME NEW r \in Readers, do_read(r) PROVE InInv'
  BY <1>3, EnterStep
<1>4. ASSUME NEW r \in Readers, read_start(r) PROVE InInv'
  BY <1>4, StartStep
<1>5. ASSUME NEW r \in Readers, read_next(r) PROVE InInv'
  BY <1>5, NextStep
<1>6. ASSUME NEW r \in Readers, read_done(r) PROVE InInv'
  BY <1>6, DoneStep
<1>7. ASSUME NEW r \in Readers, read_eof(r) PROVE InInv'
  BY <1>7, EofStep
<1>8. ASSUME NEW r \in Readers, read_byte(r) PROVE InInv'
  BY <1>8, ByteStep
<1>9. ASSUME NEW r \in Readers, Syscall(r) PROVE InInv'
  BY <1>9, SyscallStep
<1>10. CASE cons_to_buff \/ wait_slot \/ move \/ ConsoleReadInt
  BY <1>10, ConsToBuffStep, WaitSlotStep, MoveStep, InterruptStep
<1>11. CASE UNCHANGED vars
  BY <1>11, StutterStep
<1> QED BY <1>1, <1>2, <1>3, <1>4, <1>5, <1>6, <1>7, <1>8, <1>9, <1>10, <1>11 DEF Next, Kernel

(* cons_to_buff is about to wait, nobody reads, every slot is free.        *)
LEMMA InitInv == Init => InInv
<1> SUFFICES ASSUME Init PROVE InInv
  OBVIOUS
<1>1. /\ kt = [val |-> SemValues, asleep |-> [s \in DOMAIN SemValues |-> {}],
               ready |-> {C}, running |-> NoThread]
      /\ SemValues = [consoleWait |-> 0, nslots |-> Size, nelem |-> 0, readers |-> 1]
      /\ DOMAIN SemValues = Sems
  BY DEF Init, SemValues, Sems, K!make_kt_sems, C
<1>2. /\ kt.val["consoleWait"] = 0 /\ kt.val["nslots"] = Size /\ kt.val["nelem"] = 0
      /\ kt.val["readers"] = 1 /\ kt.ready = {C} /\ kt.running = NoThread
      /\ \A s \in Sems : Asleep(s) = {}
      /\ Sems = {"consoleWait", "nslots", "nelem", "readers"}
  BY <1>1 DEF Sems, Asleep
<1>3. /\ C \in Threads /\ C \notin Readers /\ Readers \subseteq Threads
      /\ NoThread \notin Threads /\ Size \in Nat \ {0}
  BY KosConsoleInAssumption DEF Threads, C
<1>4. /\ pc \in [Threads -> Labels] /\ pc[C] = "cons_to_buff"
      /\ \A r \in Readers : pc[r] = "user"
      /\ device = NoChar /\ typed = 0 /\ head = 0 /\ tail = 0 /\ given = <<>>
      /\ buff \in [0 .. (Size - 1) -> Garbage]
      /\ asked = [r \in Readers |-> 0] /\ count = [r \in Readers |-> 0]
  BY <1>3 DEF Init, C, Labels
<1>5. Types
  <2>1. kt \in K!KtState(Sems, Threads)
    BY <1>1, <1>3 DEF K!KtState
  <2>2. \A b \in Garbage : b \in EOF .. 127
    BY DEF Garbage, EOF
  <2>3. buff \in [0 .. (Size - 1) -> EOF .. 127]
    BY <1>4, <2>2
  <2> QED BY <1>3, <1>4, <2>1, <2>3 DEF Types
<1>6. Places
  BY <1>2, <1>3, <1>4 DEF Places
<1>7. Mutex
  BY <1>2, <1>4 DEF Mutex, NoneInside, Inside
<1>8. Interrupts
  BY <1>2, <1>4 DEF Interrupts, Handling
<1>9. Slots
  <2>1. ~Taking
    BY <1>4 DEF Taking
  <2> QED BY <1>2, <1>3, <1>4, <2>1 DEF Slots, UnreadSlots, FreeSlots, One
<1>10. Calls
  BY <1>4 DEF Calls
<1> QED BY <1>5, <1>6, <1>7, <1>8, <1>9, <1>10 DEF InInv

-----------------------------------------------------------------------------
(* A reader that takes a byte, or waits for one, is past P(readers).       *)
LEMMA TakersInside ==
  ASSUME InInv, NEW r \in Readers, pc[r] \in {"test", "take"}
  PROVE  Inside(r) /\ \A u \in Readers : Inside(u) => u = r
<1>1. Inside(r)
  BY Names DEF InInv, Places, Inside, Asleep
<1> QED BY <1>1 DEF InInv, Mutex

(* The counts of the invariants are those of the semaphores.               *)
LEMMA CountsAgree ==
  ASSUME InInv
  PROVE  Unread = UnreadSlots /\ Free = FreeSlots
<1>1. /\ kt.val["nelem"] \in Int /\ kt.val["nslots"] \in Int
      /\ Asleep("nelem") \subseteq Readers /\ Asleep("nslots") \subseteq {C}
      /\ \A r \in Asleep("nelem") : pc[r] = "take"
  BY Names DEF InInv, Places
<1>2. \A r, u \in Readers : pc[r] = "take" /\ pc[u] = "take" => r = u
  BY TakersInside
<1>3. Unread = UnreadSlots
  <2>1. Unread = kt.val["nelem"] + Cardinality(Asleep("nelem")) + Cardinality(Promised)
    BY DEF Unread, Asleep
  <2>2. CASE Asleep("nelem") # {}
    <3>1. PICK t \in Asleep("nelem") : TRUE
      BY <2>2
    <3>2. Asleep("nelem") = {t} /\ Promised = {}
      BY <1>1, <1>2, <3>1 DEF Promised, Asleep
    <3>3. Cardinality(Asleep("nelem")) = 1 /\ Cardinality(Promised) = 0
      BY <3>2, FS_Singleton, FS_EmptySet
    <3>4. kt.val["nelem"] = -1
      BY <2>2 DEF InInv, Slots
    <3> QED BY <2>1, <2>2, <3>3, <3>4 DEF UnreadSlots
  <2>3. CASE Asleep("nelem") = {}
    <3>1. Cardinality(Asleep("nelem")) = 0
      BY <2>3, FS_EmptySet
    <3>2. Cardinality(Promised) = One(Taking)
      <4>1. CASE Taking
        <5>1. PICK t \in Readers : pc[t] = "take" /\ t \notin Asleep("nelem")
          BY <4>1 DEF Taking
        <5>2. Promised = {t}
          BY <1>2, <5>1 DEF Promised, Asleep
        <5> QED BY <4>1, <5>2, FS_Singleton DEF One
      <4>2. CASE ~Taking
        <5>1. Promised = {}
          BY <4>2 DEF Promised, Taking, Asleep
        <5> QED BY <4>2, <5>1, FS_EmptySet DEF One
      <4> QED BY <4>1, <4>2
    <3>3. One(Taking) \in Int
      BY DEF One
    <3> QED BY <1>1, <2>1, <2>3, <3>1, <3>2, <3>3 DEF UnreadSlots
  <2> QED BY <2>2, <2>3
<1>4. Free = FreeSlots
  <2>1. Free = kt.val["nslots"] + Cardinality(Asleep("nslots")) + One(HasSlot)
    BY DEF Free, Asleep
  <2>2. CASE C \in Asleep("nslots")
    <3>1. Asleep("nslots") = {C} /\ ~HasSlot
      BY <1>1, <2>2 DEF HasSlot, Asleep, C
    <3>2. Cardinality(Asleep("nslots")) = 1
      BY <3>1, FS_Singleton
    <3>3. kt.val["nslots"] = -1
      BY <2>2 DEF InInv, Slots
    <3> QED BY <2>1, <2>2, <3>1, <3>2, <3>3 DEF FreeSlots, One
  <2>3. CASE C \notin Asleep("nslots")
    <3>1. Asleep("nslots") = {} /\ (HasSlot <=> pc[C] = "move")
      BY <1>1, <2>3 DEF HasSlot, Asleep, C
    <3>2. Cardinality(Asleep("nslots")) = 0
      BY <3>1, FS_EmptySet
    <3> QED BY <1>1, <2>1, <2>3, <3>1, <3>2 DEF FreeSlots, One
  <2> QED BY <2>2, <2>3
<1> QED BY <1>3, <1>4

(* InInv says what the hand-shake promises.                                *)
LEMMA HandshakeFollows ==
  ASSUME InInv
  PROVE  HandshakeInv
<1>1. /\ kt.val["readers"] \in Int /\ Asleep("readers") \subseteq Readers
      /\ IsFiniteSet(Asleep("readers")) /\ Cardinality(Asleep("readers")) \in Nat
  <2>1. Asleep("readers") \subseteq Readers /\ kt.val["readers"] \in Int
    BY Names DEF InInv, Places
  <2> QED BY <2>1, KosConsoleInAssumption, FS_Subset, FS_CardinalityType
<1>2. Cardinality({r \in Readers : Inside(r)})
        = 1 - kt.val["readers"] - Cardinality(Asleep("readers"))
  <2>1. CASE NoneInside
    <3>1. {r \in Readers : Inside(r)} = {} /\ Asleep("readers") = {} /\ kt.val["readers"] = 1
      BY <2>1 DEF NoneInside, InInv, Mutex
    <3>2. Cardinality({r \in Readers : Inside(r)}) = 0 /\ Cardinality(Asleep("readers")) = 0
      BY <3>1, FS_EmptySet
    <3> QED BY <3>1, <3>2
  <2>2. CASE ~NoneInside
    <3>1. PICK t \in Readers : Inside(t)
      BY <2>2 DEF NoneInside
    <3>2. {r \in Readers : Inside(r)} = {t}
      BY <3>1 DEF InInv, Mutex
    <3>3. Cardinality({r \in Readers : Inside(r)}) = 1
      BY <3>2, FS_Singleton
    <3>4. kt.val["readers"] = -Cardinality(Asleep("readers"))
      BY <2>2 DEF InInv, Mutex
    <3> QED BY <1>1, <3>3, <3>4
  <2> QED BY <2>1, <2>2
<1> QED BY <1>2 DEF HandshakeInv, Asleep, InInv, Mutex, Interrupts, Handling, C

(* One reader at a time is past P(readers), and interrupts never pile up,  *)
(* whatever is typed and however long the ring stays full (do_read,        *)
(* cons_to_buff, interruptHandler).                                        *)
THEOREM HandshakeHolds == Spec => []HandshakeInv
BY InitInv, Invariant, HandshakeFollows, PTL DEF Spec

-----------------------------------------------------------------------------
(* The ranges of what calls ask for, count and store.                      *)
Given == [reader : Readers, byte : 0 .. 127]
Ranges ==
  /\ typed \in 0 .. (Len(Text) + 1)
  /\ asked \in [Readers -> Requests] /\ count \in [Readers -> Requests]
  /\ given \in Seq(Given)

LEMMA RequestRange ==
  /\ MaxRead \in Nat /\ Len(Text) \in Nat
  /\ \A n : n \in Requests <=> n \in Int /\ -1 <= n /\ n <= MaxRead
BY KosConsoleInAssumption DEF Requests

(* The loop of do_read ends at what was asked for, and 0xFF is not stored. *)
LEMMA RangesStep ==
  ASSUME InInv, Ranges, [Next]_vars
  PROVE  Ranges'
<1> USE RequestRange
<1>1. ASSUME UNCHANGED <<typed, call>> PROVE Ranges'
  BY <1>1 DEF call, Ranges
<1>2. CASE \/ cons_to_buff \/ wait_slot \/ move \/ UNCHANGED vars
           \/ \E t \in Threads : Dispatch(t)
           \/ \E r \in Readers : do_read(r) \/ read_next(r) \/ read_done(r) \/ read_eof(r)
  BY <1>1, <1>2 DEF cons_to_buff, wait_slot, move, vars, Dispatch, do_read, read_next,
                    read_done, read_eof
<1>3. ASSUME NEW r \in Readers, do_read_refuse(r) \/ read_start(r) PROVE Ranges'
  <2>1. \E n \in {-1, 0} : count' = [count EXCEPT ![r] = n]
    BY <1>3 DEF do_read_refuse, read_start
  <2>2. UNCHANGED <<typed, asked, given>>
    BY <1>3 DEF do_read_refuse, read_start
  <2> QED BY <2>1, <2>2 DEF Ranges
<1>4. ASSUME NEW r \in Readers, read_byte(r) PROVE Ranges'
  <2>1. /\ pc[r] = "take" /\ buff[head] # EOF /\ UNCHANGED <<typed, asked>>
        /\ given' = Append(given, [reader |-> r, byte |-> buff[head]])
        /\ count' = [count EXCEPT ![r] = @ + 1]
    BY <1>4 DEF read_byte, At
  <2>2. count[r] \in 0 .. (asked[r] - 1) /\ asked[r] \in Requests
    BY <2>1 DEF InInv, Calls, Ranges
  <2>3. count[r] + 1 \in Requests
    BY <2>2
  <2>4. buff[head] \in 0 .. 127
    <3>1. buff[head] \in EOF .. 127
      BY DEF InInv, Types
    <3>2. \A b \in EOF .. 127 : b # EOF => b \in 0 .. 127
      BY DEF EOF
    <3> QED BY <2>1, <3>1, <3>2
  <2>5. [reader |-> r, byte |-> buff[head]] \in Given
    BY <2>4 DEF Given
  <2>6. given' \in Seq(Given)
    BY <2>1, <2>5 DEF Ranges
  <2> QED BY <2>1, <2>3, <2>6 DEF Ranges
<1>5. ASSUME NEW r \in Readers, Syscall(r) PROVE Ranges'
  <2>1. PICK n \in Requests : asked' = [asked EXCEPT ![r] = n]
    BY <1>5 DEF Syscall
  <2>2. UNCHANGED <<typed, count, given>>
    BY <1>5 DEF Syscall
  <2> QED BY <2>1, <2>2 DEF Ranges
<1>6. CASE ConsoleReadInt
  <2>1. typed' \in 0 .. (Len(Text) + 1) /\ UNCHANGED call
    BY <1>6 DEF ConsoleReadInt, Ranges
  <2> QED BY <2>1 DEF Ranges, call
<1> QED BY <1>2, <1>3, <1>4, <1>5, <1>6 DEF Next, Kernel

(* The library's state is sound: the four semaphores count their sleepers. *)
LEMMA KtSound == InInv => K!Sound(kt)
<1> SUFFICES ASSUME InInv PROVE K!Sound(kt)
  OBVIOUS
<1> DEFINE Counted(s) == Cardinality(kt.asleep[s]) = IF kt.val[s] < 0 THEN -kt.val[s] ELSE 0
<1>1. /\ DOMAIN kt.asleep = Sems /\ kt.running \notin kt.ready
      /\ \A s \in Sems : kt.val[s] \in Int
      /\ Sems = {"consoleWait", "nslots", "nelem", "readers"}
  BY Names, KtParts DEF InInv, Places
<1>2. \A s \in Sems : /\ kt.asleep[s] \cap (kt.ready \cup {kt.running}) = {}
                      /\ \A r \in Sems \ {s} : kt.asleep[r] \cap kt.asleep[s] = {}
  BY Names DEF InInv, Places, Asleep
<1>3. \A s \in Sems : kt.asleep[s] = {} /\ kt.val[s] >= 0 => Counted(s)
  BY <1>1, FS_EmptySet
<1>4. ASSUME NEW s \in Sems, NEW t, kt.asleep[s] = {t}, kt.val[s] = -1 PROVE Counted(s)
  <2>1. \A v \in Int : v + 1 = 0 => v < 0 /\ -v = 1
    OBVIOUS
  <2>2. kt.val[s] \in Int /\ kt.val[s] + 1 = 0
    BY <1>1, <1>4
  <2>3. Cardinality(kt.asleep[s]) = 1
    BY <1>4, FS_Singleton
  <2> QED BY <2>1, <2>2, <2>3
<1>5. Counted("consoleWait")
  <2>1. CASE C \in Asleep("consoleWait")
    <3>1. kt.asleep["consoleWait"] = {C} /\ kt.val["consoleWait"] = -1
      BY <2>1 DEF InInv, Places, Interrupts, Asleep
    <3> QED BY <1>1, <1>4, <3>1
  <2>2. CASE C \notin Asleep("consoleWait")
    <3>1. kt.asleep["consoleWait"] = {} /\ kt.val["consoleWait"] = 0
      BY <2>2 DEF InInv, Places, Interrupts, Asleep
    <3> QED BY <1>1, <1>3, <3>1
  <2> QED BY <2>1, <2>2
<1>6. Counted("nslots")
  <2>1. CASE C \in Asleep("nslots")
    <3>1. kt.asleep["nslots"] = {C} /\ kt.val["nslots"] = -1
      BY <2>1 DEF InInv, Places, Slots, Asleep
    <3> QED BY <1>1, <1>4, <3>1
  <2>2. CASE C \notin Asleep("nslots")
    <3>1. kt.asleep["nslots"] = {} /\ kt.val["nslots"] >= 0
      BY <2>2 DEF InInv, Places, Slots, Asleep
    <3> QED BY <1>1, <1>3, <3>1
  <2> QED BY <2>1, <2>2
<1>7. Counted("nelem")
  <2>1. CASE Asleep("nelem") = {}
    BY <1>1, <1>3, <2>1 DEF InInv, Slots, Asleep
  <2>2. CASE Asleep("nelem") # {}
    <3>1. PICK t \in Asleep("nelem") : TRUE
      BY <2>2
    <3>2. \A r \in Asleep("nelem") : r \in Readers /\ pc[r] = "take"
      BY DEF InInv, Places
    <3>3. kt.asleep["nelem"] = {t} /\ kt.val["nelem"] = -1
      BY <2>2, <3>1, <3>2, TakersInside DEF InInv, Slots, Asleep
    <3> QED BY <1>1, <1>4, <3>3
  <2> QED BY <2>1, <2>2
<1>8. Counted("readers")
  <2>1. CASE NoneInside
    BY <1>1, <1>3, <2>1 DEF InInv, Mutex, Asleep
  <2>2. CASE ~NoneInside
    <3>1. kt.val["readers"] = -Cardinality(kt.asleep["readers"])
      BY <2>2 DEF InInv, Mutex, Asleep
    <3>2. Cardinality(kt.asleep["readers"]) \in Nat
      <4>1. kt.asleep["readers"] \subseteq Readers
        BY DEF InInv, Places, Asleep
      <4> QED BY <4>1, KosConsoleInAssumption, FS_Subset, FS_CardinalityType
    <3> QED BY <3>1, <3>2
  <2> QED BY <2>1, <2>2
<1>9. \A s \in Sems : Counted(s)
  BY <1>1, <1>5, <1>6, <1>7, <1>8
<1>10. \A S : K!Cardinality(S) = Cardinality(S)
  BY DEF K!Cardinality, Cardinality
<1> QED BY <1>1, <1>2, <1>9, <1>10 DEF K!Sound

LEMMA InitRanges == Init => Ranges
BY RequestRange DEF Init, Ranges

(* The state of console input keeps its types: every semaphore's value     *)
(* counts its sleepers, head and tail stay in the ring, a read takes no    *)
(* more than it asked for and stores no 0xFF.                              *)
THEOREM InTypes == Spec => []TypeOK
<1>1. InInv /\ Ranges => TypeOK
  BY KtSound DEF InInv, Types, Ranges, TypeOK, Given
<1>2. Init => InInv /\ Ranges
  BY InitInv, InitRanges
<1>3. InInv /\ Ranges /\ [Next]_vars => (InInv /\ Ranges)'
  BY Invariant, RangesStep
<1> QED BY <1>1, <1>2, <1>3, PTL DEF Spec

-----------------------------------------------------------------------------
(* A reader whose call is not over is ready, runs, or sleeps.              *)
Somewhere ==
  \A r \in Readers : pc[r] # "user" =>
    r \in kt.ready \cup {kt.running} \cup Asleep("readers") \cup Asleep("nelem")

(* P and V put nobody out of this.                                         *)
LEMMA PKeeps ==
  ASSUME Types, NEW t \in Threads, kt.running = t, NEW s \in Sems, kt' = K!P_kt_sem(kt, s),
         t = C \/ s \in {"readers", "nelem"}
  PROVE  \A r \in Readers :
           r \in kt.ready \cup {kt.running} \cup Asleep("readers") \cup Asleep("nelem") =>
             r \in kt'.ready \cup {kt'.running} \cup Asleep("readers")' \cup Asleep("nelem")'
<1>1. /\ kt'.ready = kt.ready
      /\ \A q \in Sems \ {s} : kt'.asleep[q] = kt.asleep[q]
      /\ kt.val[s] > 0 => kt'.asleep[s] = kt.asleep[s] /\ kt'.running = t
      /\ ~(kt.val[s] > 0) => kt'.asleep[s] = kt.asleep[s] \cup {t}
  BY PEffect
<1>2. /\ kt.asleep["readers"] \subseteq kt'.asleep["readers"]
      /\ kt.asleep["nelem"] \subseteq kt'.asleep["nelem"]
  <2>1. \A q \in Sems : kt.asleep[q] \subseteq kt'.asleep[q]
    BY <1>1
  <2> QED BY <2>1 DEF Sems
<1>3. t \in Readers => t = kt'.running \/ t \in kt'.asleep["readers"] \cup kt'.asleep["nelem"]
  BY <1>1, KosConsoleInAssumption DEF C
<1> QED BY <1>1, <1>2, <1>3 DEF Asleep

LEMMA VKeeps ==
  ASSUME NEW k \in K!KtState(Sems, Threads), NEW s \in Sems, NEW j \in K!V_kt_sem(k, s)
  PROVE  \A r \in Readers :
           r \in k.ready \cup {k.running} \cup k.asleep["readers"] \cup k.asleep["nelem"] =>
             r \in j.ready \cup {j.running} \cup j.asleep["readers"] \cup j.asleep["nelem"]
<1>1. /\ j.running = k.running
      /\ \A r \in Sems \ {s} : j.asleep[r] = k.asleep[r]
      /\ \/ k.asleep[s] = {} /\ j.asleep[s] = {} /\ j.ready = k.ready
         \/ \E t \in k.asleep[s] : /\ j.asleep[s] = k.asleep[s] \ {t}
                                  /\ j.ready = k.ready \cup {t}
  BY VEffect
<1>2. \A q \in Sems, r \in Readers : r \in k.asleep[q] => r \in j.asleep[q] \cup j.ready
  BY <1>1
<1>3. k.ready \subseteq j.ready
  BY <1>1
<1> QED BY <1>1, <1>2, <1>3 DEF Sems

(* At the end of a call the thread that runs goes.                         *)
LEMMA CallEnds ==
  ASSUME InInv, Somewhere, NEW r \in Readers, kt.running = r, Goto(r, "user"),
         NEW k \in K!KtState(Sems, Threads), kt' = K!kt_exit(k), k.running = r,
         \A u \in Readers :
           u \in kt.ready \cup {kt.running} \cup Asleep("readers") \cup Asleep("nelem") =>
             u \in k.ready \cup {k.running} \cup k.asleep["readers"] \cup k.asleep["nelem"]
  PROVE  Somewhere'
<1>1. kt'.asleep = k.asleep /\ kt'.ready = k.ready
  BY ExitEffect
<1>2. \A u \in Readers \ {r} : pc'[u] = pc[u]
  BY DEF Goto, InInv, Types
<1>3. pc'[r] = "user"
  BY Names DEF Goto, InInv, Types, Threads
<1> QED BY <1>1, <1>2, <1>3 DEF Somewhere, Asleep

LEMMA SomewhereStep == InInv /\ Somewhere /\ [Next]_vars => Somewhere'
<1> SUFFICES ASSUME InInv, Somewhere, [Next]_vars PROVE Somewhere'
  OBVIOUS
<1>1. /\ Types /\ kt \in K!KtState(Sems, Threads) /\ Readers \subseteq Threads
      /\ C \in Threads /\ C \notin Readers /\ NoThread \notin Readers
      /\ pc \in [Threads -> Labels] /\ Sems = {"consoleWait", "nslots", "nelem", "readers"}
  BY Names, KosConsoleInAssumption DEF InInv, Types, Threads, C
<1>2. ASSUME NEW t \in Threads, Dispatch(t) PROVE Somewhere'
  <2>1. /\ kt.running = NoThread /\ kt'.asleep = kt.asleep
        /\ kt'.ready = kt.ready \ {t} /\ kt'.running = t /\ pc' = pc
    BY <1>2, KtParts, <1>1 DEF Dispatch, K!MayRun, K!Dispatched
  <2> QED BY <1>1, <2>1 DEF Somewhere, Asleep
<1>3. CASE cons_to_buff \/ wait_slot
  <2>1. PICK s \in Sems : kt.running = C /\ kt' = K!P_kt_sem(kt, s)
    BY <1>1, <1>3 DEF cons_to_buff, wait_slot, At, C
  <2>2. \A r \in Readers : pc'[r] = pc[r]
    BY <1>1, <1>3 DEF cons_to_buff, wait_slot, Goto, C
  <2> QED BY <1>1, <2>1, <2>2, PKeeps DEF Somewhere
<1>4. CASE move
  <2>1. kt' \in K!V_kt_sem(kt, "nelem") /\ \A r \in Readers : pc'[r] = pc[r]
    BY <1>1, <1>4 DEF move, Goto, C
  <2>2. PICK j \in K!V_kt_sem(kt, "nelem") : j = kt'
    BY <2>1
  <2> QED BY <1>1, <2>1, <2>2, VKeeps DEF Somewhere, Asleep
<1>5. ASSUME NEW r \in Readers, do_read_refuse(r) \/ read_done(r) \/ read_eof(r)
      PROVE  Somewhere'
  <2>1. kt.running = r /\ Goto(r, "user")
    BY <1>5 DEF do_read_refuse, read_done, read_eof, At
  <2>2. CASE do_read_refuse(r)
    <3>1. kt' = K!kt_exit(kt)
      BY <2>2 DEF do_read_refuse
    <3> QED BY <1>1, <2>1, <3>1, CallEnds DEF Asleep
  <2>3. CASE read_done(r)
    <3>1. PICK k \in K!V_kt_sem(kt, "readers") : kt' = K!kt_exit(k)
      BY <2>3 DEF read_done
    <3>2. k \in K!KtState(Sems, Threads) /\ k.running = r
      BY <1>1, <2>1, <3>1, VEffect
    <3> QED BY <1>1, <2>1, <3>1, <3>2, VKeeps, CallEnds DEF Asleep
  <2>4. CASE read_eof(r)
    <3>0. PICK j \in K!V_kt_sem(kt, "nslots") :
            \E k \in K!V_kt_sem(j, "readers") : kt' = K!kt_exit(k)
      BY <2>4 DEF read_eof, ReleaseAtEof
    <3>1. PICK k \in K!V_kt_sem(j, "readers") : kt' = K!kt_exit(k)
      BY <3>0
    <3>2. j \in K!KtState(Sems, Threads) /\ j.running = r
      BY <1>1, <2>1, <3>1, VEffect
    <3>3. k \in K!KtState(Sems, Threads) /\ k.running = r
      BY <1>1, <3>1, <3>2, VEffect
    <3>4. \A u \in Readers :
            u \in kt.ready \cup {kt.running} \cup kt.asleep["readers"] \cup kt.asleep["nelem"] =>
              u \in j.ready \cup {j.running} \cup j.asleep["readers"] \cup j.asleep["nelem"]
      BY <1>1, <3>1, VKeeps
    <3>5. \A u \in Readers :
            u \in j.ready \cup {j.running} \cup j.asleep["readers"] \cup j.asleep["nelem"] =>
              u \in k.ready \cup {k.running} \cup k.asleep["readers"] \cup k.asleep["nelem"]
      BY <1>1, <3>1, <3>2, VKeeps
    <3> QED BY <2>1, <3>1, <3>3, <3>4, <3>5, CallEnds DEF Asleep
  <2> QED BY <1>5, <2>2, <2>3, <2>4
<1>6. ASSUME NEW r \in Readers, do_read(r) \/ read_next(r) PROVE Somewhere'
  <2>1. PICK s \in {"readers", "nelem"} : kt.running = r /\ kt' = K!P_kt_sem(kt, s)
    BY <1>6 DEF do_read, read_next, At
  <2>2. \A u \in Readers \ {r} : pc'[u] = pc[u]
    BY <1>1, <1>6 DEF do_read, read_next, Goto
  <2>3. \A u \in Readers :
          u \in kt.ready \cup {kt.running} \cup Asleep("readers") \cup Asleep("nelem") =>
            u \in kt'.ready \cup {kt'.running} \cup Asleep("readers")' \cup Asleep("nelem")'
    BY <1>1, <2>1, PKeeps
  <2> QED BY <1>1, <2>1, <2>2, <2>3 DEF Somewhere
<1>7. ASSUME NEW r \in Readers, read_start(r) PROVE Somewhere'
  <2>1. kt.running = r /\ kt' = kt /\ \A u \in Readers \ {r} : pc'[u] = pc[u]
    BY <1>1, <1>7 DEF read_start, Goto, At
  <2> QED BY <2>1 DEF Somewhere, Asleep
<1>8. ASSUME NEW r \in Readers, read_byte(r) PROVE Somewhere'
  <2>1. /\ kt.running = r /\ kt' \in K!V_kt_sem(kt, "nslots")
        /\ \A u \in Readers \ {r} : pc'[u] = pc[u]
    BY <1>1, <1>8 DEF read_byte, Goto, At
  <2>2. PICK j \in K!V_kt_sem(kt, "nslots") : j = kt'
    BY <2>1
  <2>3. \A u \in Readers :
          u \in kt.ready \cup {kt.running} \cup kt.asleep["readers"] \cup kt.asleep["nelem"] =>
            u \in j.ready \cup {j.running} \cup j.asleep["readers"] \cup j.asleep["nelem"]
    BY <1>1, <2>2, VKeeps
  <2> QED BY <2>1, <2>2, <2>3 DEF Somewhere, Asleep
<1>9. ASSUME NEW r \in Readers, Syscall(r) PROVE Somewhere'
  <2>1. /\ kt' = K!kt_fork(kt, r) /\ \A u \in Readers \ {r} : pc'[u] = pc[u]
    BY <1>1, <1>9 DEF Syscall, Goto
  <2>2. /\ kt'.asleep = kt.asleep /\ kt'.ready = kt.ready \cup {r} /\ kt'.running = kt.running
    BY <1>1, <2>1, KtParts DEF K!kt_fork
  <2> QED BY <2>1, <2>2 DEF Somewhere, Asleep
<1>10. CASE ConsoleReadInt
  <2>1. kt' \in K!V_kt_sem(kt, "consoleWait") /\ pc' = pc
    BY <1>10 DEF ConsoleReadInt
  <2>2. PICK j \in K!V_kt_sem(kt, "consoleWait") : j = kt'
    BY <2>1
  <2> QED BY <1>1, <2>1, <2>2, VKeeps DEF Somewhere, Asleep
<1>11. CASE UNCHANGED vars
  BY <1>11 DEF vars, Somewhere, Asleep
<1> QED BY <1>2, <1>3, <1>4, <1>5, <1>6, <1>7, <1>8, <1>9, <1>10, <1>11 DEF Next, Kernel

(* Whoever sleeps on readers waits for one who sleeps on nelem; then the   *)
(* ring is empty, and cons_to_buff does not wait for a slot.               *)
LEMMA SomebodyWakes == InInv /\ Somewhere => NoStandstill
<1> SUFFICES ASSUME InInv, Somewhere, K!AllAsleep(kt), NEW r \in Readers, pc[r] # "user"
    PROVE  kt.asleep["nelem"] # {} /\ kt.asleep["consoleWait"] = {C} /\ device = NoChar
  BY DEF NoStandstill, C
<1>1. kt.running = NoThread /\ kt.ready = {} /\ NoThread \notin Readers \cup {C}
  BY KosConsoleInAssumption DEF K!AllAsleep, C
<1>2. \A u \in Readers : pc[u] # "user" => u \in Asleep("readers") \cup Asleep("nelem")
  BY <1>1 DEF Somewhere
<1>3. Asleep("nelem") # {}
  <2> SUFFICES ASSUME Asleep("nelem") = {} PROVE FALSE
    OBVIOUS
  <2>1. NoneInside
    <3>1. \A u \in Readers : Inside(u) => u \notin Asleep("readers") /\ pc[u] # "user"
      BY DEF Inside, Asleep
    <3> QED BY <1>2, <3>1 DEF NoneInside
  <2> QED BY <1>2, <2>1 DEF InInv, Mutex
<1>4. C \notin Asleep("nslots")
  <2>1. UnreadSlots = 0 /\ (C \in Asleep("nslots") => FreeSlots = 0)
    BY <1>3 DEF UnreadSlots, FreeSlots
  <2> QED BY <2>1, KosConsoleInAssumption DEF InInv, Slots
<1>5. Asleep("consoleWait") = {C}
  BY <1>1, <1>4 DEF InInv, Places
<1>6. device = NoChar
  BY <1>5 DEF InInv, Interrupts, Handling
<1> QED BY <1>3, <1>5, <1>6 DEF Asleep

(* While the kernel rests, an unfinished read means that one reader waits  *)
(* for a byte and cons_to_buff for the interrupt that brings it: a full    *)
(* ring, or an empty one, never holds readers and device up for ever       *)
(* (do_read, cons_to_buff).                                                *)
THEOREM NoReaderIsLost == Spec => []NoStandstill
<1>1. Init => InInv /\ Somewhere
  <2>1. Init => Somewhere
    BY Names, KosConsoleInAssumption DEF Init, Somewhere, Threads
  <2> QED BY <2>1, InitInv
<1>2. InInv /\ Somewhere /\ [Next]_vars => (InInv /\ Somewhere)'
  BY Invariant, SomewhereStep
<1> QED BY <1>1, <1>2, SomebodyWakes, PTL DEF Spec

==============================================================================
