----------------------------- MODULE KosConsoleOut -----------------------------
(***************************************************************************)
(* Writing to the console.  do_write hands the device one character at a   *)
(* time with console_write, which the simulator only allows when the       *)
(* device is idle, and sleeps on writeok until ConsoleWriteInt says that   *)
(* the character is out.  The semaphore writers lets one call at a time    *)
(* use the console.                                                        *)
(*                                                                         *)
(* An action is the code a kernel thread runs between two calls of P       *)
(* (KtSem); interrupts and new system calls only come when kt_joinall has  *)
(* returned.                                                               *)
(***************************************************************************)
EXTENDS Integers, Sequences, FiniteSets

CONSTANTS
  Writers,  (* processes that write to the console                         *)
  NoThread,
  MaxWrite, (* bound: a write has at most MaxWrite bytes                   *)
  MaxCalls  (* bound: calls of write, taken together                       *)

ASSUME KosConsoleOutAssumption ==
  /\ IsFiniteSet(Writers) /\ NoThread \notin Writers
  /\ MaxWrite \in Nat /\ MaxCalls \in Nat

K == INSTANCE KtSem

Sems == {"writers", "writeok"}
Labels == {"user", "do_write", "start", "put", "ack"}
Requests == -1 .. MaxWrite

(* The i-th byte of the k-th write of w.                                   *)
Char(w, k, i) == [writer |-> w, nth |-> k, index |-> i]
Chars == [writer : Writers, nth : 1 .. MaxCalls, index : 1 .. MaxWrite]
NoChar == [writer |-> NoThread, nth |-> 0, index |-> 0]

VARIABLES
  kt,      (* threads and semaphores                                       *)
  pc,      (* label of each thread                                         *)
  device,  (* the character the device is writing, or NoChar               *)
  asked,   (* register 7 of the call; negative: arguments it refuses       *)
  nth,     (* how often each process has called write                      *)
  count,   (* do_write's write_count; after the call its result            *)
  calls,   (* calls of write so far                                        *)
  screen   (* history: the characters that came out, in order              *)

call == <<asked, nth, count, calls>>
vars == <<kt, pc, device, call, screen>>

-----------------------------------------------------------------------------
(* initialize_sema; the bug would let two calls in.                        *)
BugSemValues == [writers |-> 2, writeok |-> 0]

SemValues == [writers |-> 1, writeok |-> 0]

Init ==
  /\ kt = K!make_kt_sems(SemValues, {})
  /\ pc = [w \in Writers |-> "user"]
  /\ device = NoChar
  /\ asked = [w \in Writers |-> 0] /\ nth = [w \in Writers |-> 0]
  /\ count = [w \in Writers |-> 0] /\ calls = 0
  /\ screen = <<>>

Goto(w, label) == pc' = [pc EXCEPT ![w] = label]
At(w, label) == kt.running = w /\ pc[w] = label

(* kt_joinall gives the kernel to a thread that can run.                   *)
Dispatch(w) ==
  /\ K!MayRun(kt, w)
  /\ kt' = K!Dispatched(kt, w)
  /\ UNCHANGED <<pc, device, call, screen>>

-----------------------------------------------------------------------------
(* do_write on descriptor 1 or 2.  Arguments it refuses cost nothing else. *)
do_write_refuse(w) ==
  /\ At(w, "do_write") /\ asked[w] < 0
  /\ kt' = K!kt_exit(kt) /\ Goto(w, "user")
  /\ count' = [count EXCEPT ![w] = -1]
  /\ UNCHANGED <<device, asked, nth, calls, screen>>

do_write(w) ==
  /\ At(w, "do_write") /\ asked[w] >= 0
  /\ kt' = K!P_kt_sem(kt, "writers")
  /\ Goto(w, "start")
  /\ UNCHANGED <<device, call, screen>>

write_start(w) ==
  /\ At(w, "start")
  /\ count' = [count EXCEPT ![w] = 0]
  /\ Goto(w, "put")
  /\ UNCHANGED <<kt, device, asked, nth, calls, screen>>

(* The loop: console_write, then wait for the interrupt; the bug would go  *)
(* round once too often.                                                   *)
BugMore(w) == count[w] <= asked[w]

More(w) == count[w] < asked[w]

write_put(w) ==
  /\ At(w, "put") /\ More(w)
  /\ device' = Char(w, nth[w], count[w] + 1)
  /\ kt' = K!P_kt_sem(kt, "writeok")
  /\ Goto(w, "ack")
  /\ UNCHANGED <<call, screen>>

write_ack(w) ==
  /\ At(w, "ack")
  /\ count' = [count EXCEPT ![w] = @ + 1]
  /\ Goto(w, "put")
  /\ UNCHANGED <<kt, device, asked, nth, calls, screen>>

(* V(writers) at the end of the loop; the bug would forget it.             *)
BugLeave(k) == {k}

Leave(k) == K!V_kt_sem(k, "writers")

write_done(w) ==
  /\ At(w, "put") /\ ~More(w)
  /\ \E k \in Leave(kt) : kt' = K!kt_exit(k)
  /\ Goto(w, "user")
  /\ UNCHANGED <<device, call, screen>>

-----------------------------------------------------------------------------
Syscall(w) ==
  /\ K!AllAsleep(kt) /\ pc[w] = "user" /\ calls < MaxCalls
  /\ calls' = calls + 1 /\ nth' = [nth EXCEPT ![w] = @ + 1]
  /\ \E n \in Requests : asked' = [asked EXCEPT ![w] = n]
  /\ kt' = K!kt_fork(kt, w) /\ Goto(w, "do_write")
  /\ UNCHANGED <<device, count, screen>>

(* interruptHandler releases the writer; the bug would signal twice.       *)
BugWriteOk(k) == UNION {K!V_kt_sem(j, "writeok") : j \in K!V_kt_sem(k, "writeok")}

WriteOk(k) == K!V_kt_sem(k, "writeok")

ConsoleWriteInt ==
  /\ K!AllAsleep(kt) /\ device # NoChar
  /\ screen' = Append(screen, device)
  /\ device' = NoChar
  /\ kt' \in WriteOk(kt)
  /\ UNCHANGED <<pc, call>>

Kernel ==
  \E w \in Writers :
    \/ Dispatch(w) \/ do_write_refuse(w) \/ do_write(w) \/ write_start(w)
    \/ write_put(w) \/ write_ack(w) \/ write_done(w)

Next == Kernel \/ ConsoleWriteInt \/ \E w \in Writers : Syscall(w)

Spec == Init /\ [][Next]_vars

(* Kernel code runs to its end; the console finishes a character, and its  *)
(* interrupt is taken the next time the kernel returns to user code.       *)
FairSpec == Spec /\ WF_vars(Kernel) /\ SF_vars(ConsoleWriteInt)

-----------------------------------------------------------------------------
TypeOK ==
  /\ kt \in K!KtState(Sems, Writers) /\ K!Sound(kt)
  /\ pc \in [Writers -> Labels]
  /\ device \in Chars \cup {NoChar}
  /\ asked \in [Writers -> Requests]
  /\ calls \in 0 .. MaxCalls /\ nth \in [Writers -> 0 .. calls]
  /\ count \in [Writers -> Requests]
  /\ screen \in Seq(Chars)

(* console_write is never called while the device is busy (the simulator   *)
(* aborts then), and an interrupt always finds its writer: the device is   *)
(* busy exactly while one thread sleeps on writeok, for its own character. *)
DeviceInv ==
  /\ \A w \in Writers :
       kt.running = w /\ pc[w] = "put" => device = NoChar
  /\ device # NoChar =>
       /\ kt.asleep["writeok"] = {device.writer}
       /\ device.nth = nth[device.writer]
       /\ device.index = count[device.writer] + 1
  /\ device = NoChar => kt.asleep["writeok"] = {}

(* A call that is in the loop has put exactly write_count characters out,  *)
(* and a call that has returned all of them: the result counts what is on  *)
(* the screen.                                                             *)
Shown(w) == {i \in DOMAIN screen : screen[i].writer = w /\ screen[i].nth = nth[w]}
Out(w) == Cardinality(Shown(w))
CountInv ==
  \A w \in Writers :
    /\ pc[w] = "put" => Out(w) = count[w]
    /\ pc[w] = "user" /\ nth[w] > 0 =>
         count[w] = asked[w] /\ Out(w) = (IF asked[w] < 0 THEN 0 ELSE asked[w])

(* The characters of one call are together on the screen and in order,     *)
(* whatever other calls are made meanwhile.                                *)
WholeWrites ==
  \A i, j \in DOMAIN screen :
    i < j /\ screen[i].writer = screen[j].writer /\ screen[i].nth = screen[j].nth
      => \A m \in i .. j :
           screen[m] = Char(screen[i].writer, screen[i].nth,
                            screen[i].index + (m - i))

(* Nobody sleeps unnoticed: while the kernel rests, a call is unfinished   *)
(* only if the device has a character, and its interrupt lets go on the    *)
(* writer that everybody else waits for.                                   *)
NoStandstill ==
  K!AllAsleep(kt) => device # NoChar \/ \A w \in Writers : pc[w] = "user"

(* Every write returns.                                                    *)
WriteReturns == \A w \in Writers : pc[w] # "user" ~> pc[w] = "user"
=================================================================================
