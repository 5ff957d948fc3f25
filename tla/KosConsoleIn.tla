------------------------------ MODULE KosConsoleIn ------------------------------
(***************************************************************************)
(* Reading from the console.  The device holds one character at a time and *)
(* raises ConsoleReadInt; the kernel thread cons_to_buff moves it to a     *)
(* ring buffer; do_read takes from the ring, one caller at a time.  Four   *)
(* semaphores tie them together: consoleWait counts interrupts, nslots and *)
(* nelem the free and filled slots of the ring, readers is a mutex.        *)
(*                                                                         *)
(* A kernel thread runs until it sleeps in P or exits (KtSem), so an       *)
(* action here is the code between two calls of P.  Interrupts and new     *)
(* system calls only come when kt_joinall has returned.                    *)
(***************************************************************************)
EXTENDS Integers, Sequences, FiniteSets

CONSTANTS
  Readers,    (* processes that read from the console                      *)
  ConsToBuff, (* the kernel thread that runs cons_to_buff                  *)
  NoThread,
  Size,       (* slots of the ring: 256 in console_buf.c                   *)
  Text,       (* the bytes typed before the end of the input, as chars     *)
  MaxRead     (* bound: a read asks for at most MaxRead bytes              *)

(* ConsoleGetChar's end of file, and the byte 0xFF once it is a char.      *)
EOF == -1

ASSUME KosConsoleInAssumption ==
  /\ IsFiniteSet(Readers) /\ ConsToBuff \notin Readers
  /\ NoThread \notin Readers \cup {ConsToBuff}
  /\ Size \in Nat \ {0} /\ MaxRead \in Nat
  /\ Text \in Seq(EOF .. 127)

K == INSTANCE KtSem

Threads == Readers \cup {ConsToBuff}
Sems == {"consoleWait", "nslots", "nelem", "readers"}

(* What the device delivers: the text, then end of file for ever.          *)
Input(i) == IF i <= Len(Text) THEN Text[i] ELSE EOF

NoChar == -2   (* the device holds no character                            *)

(* Where a thread is: "user" has no kernel thread, the others name the     *)
(* code it runs next.                                                      *)
Labels == {"user", "cons_to_buff", "wait_slot", "move",
           "do_read", "start", "test", "take"}

VARIABLES
  kt,        (* threads and semaphores                                     *)
  pc,        (* label of each thread                                       *)
  device,    (* the character the device holds, or NoChar                  *)
  typed,     (* characters the device has produced, at most Len(Text) + 1  *)
  buff, head, tail,   (* struct console_buf                                *)
  asked,     (* register 7 of the call; negative: arguments it refuses     *)
  count,     (* do_read's count; after the call its result                 *)
  given      (* history: the bytes stored in user memory, with the reader  *)

ring == <<buff, head, tail>>
call == <<asked, count, given>>
vars == <<kt, pc, device, typed, ring, call>>

Requests == -1 .. MaxRead

-----------------------------------------------------------------------------
(* init_buff leaves what malloc returned in the slots.                     *)
Garbage == {EOF, 0}

(* The values initialize_cons_sema and initialize_sema give; the bugs are  *)
(* a ring that counts one slot too many and a mutex that admits two.       *)
BugSemValues == [consoleWait |-> 0, nslots |-> Size + 1, nelem |-> 0, readers |-> 1]
BugTwoReaders == [consoleWait |-> 0, nslots |-> Size, nelem |-> 0, readers |-> 2]

SemValues == [consoleWait |-> 0, nslots |-> Size, nelem |-> 0, readers |-> 1]

Init ==
  /\ kt = K!make_kt_sems(SemValues, {ConsToBuff})
  /\ pc = [t \in Threads |-> IF t = ConsToBuff THEN "cons_to_buff" ELSE "user"]
  /\ device = NoChar /\ typed = 0
  /\ buff \in [0 .. (Size - 1) -> Garbage] /\ head = 0 /\ tail = 0
  /\ asked = [r \in Readers |-> 0] /\ count = [r \in Readers |-> 0]
  /\ given = <<>>

Goto(t, label) == pc' = [pc EXCEPT ![t] = label]
At(t, label) == kt.running = t /\ pc[t] = label

(* kt_joinall gives the kernel to a thread that can run.                   *)
Dispatch(t) ==
  /\ K!MayRun(kt, t)
  /\ kt' = K!Dispatched(kt, t)
  /\ UNCHANGED <<pc, device, typed, ring, call>>

-----------------------------------------------------------------------------
(* cons_to_buff: for each interrupt, wait for a slot ...                   *)
cons_to_buff ==
  /\ At(ConsToBuff, "cons_to_buff")
  /\ kt' = K!P_kt_sem(kt, "consoleWait")
  /\ Goto(ConsToBuff, "wait_slot")
  /\ UNCHANGED <<device, typed, ring, call>>

wait_slot ==
  /\ At(ConsToBuff, "wait_slot")
  /\ kt' = K!P_kt_sem(kt, "nslots")
  /\ Goto(ConsToBuff, "move")
  /\ UNCHANGED <<device, typed, ring, call>>

(* ... and move the character; the bug would forget to wrap tail.          *)
BugNextTail == tail + 1

NextTail == (tail + 1) % Size

move ==
  /\ At(ConsToBuff, "move")
  /\ kt' \in K!V_kt_sem(kt, "nelem")
  /\ device' = NoChar
  /\ buff' = [buff EXCEPT ![tail] = device]
  /\ tail' = NextTail
  /\ Goto(ConsToBuff, "cons_to_buff")
  /\ UNCHANGED <<typed, head, call>>

-----------------------------------------------------------------------------
(* do_read on descriptor 0.  Arguments it refuses cost nothing else.       *)
do_read_refuse(r) ==
  /\ At(r, "do_read") /\ asked[r] < 0
  /\ kt' = K!kt_exit(kt) /\ Goto(r, "user")
  /\ count' = [count EXCEPT ![r] = -1]
  /\ UNCHANGED <<device, typed, ring, asked, given>>

do_read(r) ==
  /\ At(r, "do_read") /\ asked[r] >= 0
  /\ kt' = K!P_kt_sem(kt, "readers")
  /\ Goto(r, "start")
  /\ UNCHANGED <<device, typed, ring, call>>

read_start(r) ==
  /\ At(r, "start")
  /\ count' = [count EXCEPT ![r] = 0]
  /\ Goto(r, "test")
  /\ UNCHANGED <<kt, device, typed, ring, asked, given>>

(* The loop test: wait for a byte ...                                      *)
read_next(r) ==
  /\ At(r, "test") /\ count[r] < asked[r]
  /\ kt' = K!P_kt_sem(kt, "nelem")
  /\ Goto(r, "take")
  /\ UNCHANGED <<device, typed, ring, call>>

(* ... or return what was asked for.                                       *)
read_done(r) ==
  /\ At(r, "test") /\ count[r] = asked[r]
  /\ \E k \in K!V_kt_sem(kt, "readers") : kt' = K!kt_exit(k)
  /\ Goto(r, "user")
  /\ UNCHANGED <<device, typed, ring, call>>

(* At end of file the call returns what it has; head stays where it is.    *)
(* The bug would leave the mutex taken.                                    *)
BugReleaseAtEof(k) == K!V_kt_sem(k, "nslots")

ReleaseAtEof(k) == UNION {K!V_kt_sem(j, "readers") : j \in K!V_kt_sem(k, "nslots")}

read_eof(r) ==
  /\ At(r, "take") /\ buff[head] = EOF
  /\ \E k \in ReleaseAtEof(kt) : kt' = K!kt_exit(k)
  /\ Goto(r, "user")
  /\ UNCHANGED <<device, typed, ring, call>>

(* The byte's slot is passed; the bug would stay on it.                    *)
BugNextHead == head

NextHead == (head + 1) % Size

read_byte(r) ==
  /\ At(r, "take") /\ buff[head] # EOF
  /\ given' = Append(given, [reader |-> r, byte |-> buff[head]])
  /\ head' = NextHead
  /\ kt' \in K!V_kt_sem(kt, "nslots")
  /\ count' = [count EXCEPT ![r] = @ + 1]
  /\ Goto(r, "test")
  /\ UNCHANGED <<device, typed, buff, tail, asked>>

-----------------------------------------------------------------------------
(* User code runs: a process calls read, or the device interrupts.         *)
Syscall(r) ==
  /\ K!AllAsleep(kt) /\ pc[r] = "user"
  /\ \E n \in Requests : asked' = [asked EXCEPT ![r] = n]
  /\ kt' = K!kt_fork(kt, r) /\ Goto(r, "do_read")
  /\ UNCHANGED <<device, typed, ring, count, given>>

(* The next character comes only after the last one was read.              *)
ConsoleReadInt ==
  /\ K!AllAsleep(kt) /\ device = NoChar
  /\ typed' = IF typed > Len(Text) THEN typed ELSE typed + 1
  /\ device' = Input(typed + 1)
  /\ kt' \in K!V_kt_sem(kt, "consoleWait")
  /\ UNCHANGED <<pc, ring, call>>

Kernel ==
  \/ \E t \in Threads : Dispatch(t)
  \/ cons_to_buff \/ wait_slot \/ move
  \/ \E r \in Readers : \/ do_read_refuse(r) \/ do_read(r) \/ read_start(r)
                        \/ read_next(r) \/ read_done(r) \/ read_eof(r) \/ read_byte(r)

Next == Kernel \/ ConsoleReadInt \/ \E r \in Readers : Syscall(r)

Spec == Init /\ [][Next]_vars

(* Kernel code runs to its end.  An interrupt the device holds is taken    *)
(* the next time the kernel returns to user code, or to noop.              *)
FairSpec == Spec /\ WF_vars(Kernel) /\ SF_vars(ConsoleReadInt)

-----------------------------------------------------------------------------
TypeOK ==
  /\ kt \in K!KtState(Sems, Threads) /\ K!Sound(kt)
  /\ pc \in [Threads -> Labels]
  /\ device \in EOF .. 127 \cup {NoChar}
  /\ typed \in 0 .. (Len(Text) + 1)
  /\ buff \in [0 .. (Size - 1) -> EOF .. 127]
  /\ head \in 0 .. (Size - 1) /\ tail \in 0 .. (Size - 1)
  /\ asked \in [Readers -> Requests]
  /\ count \in [Readers -> Requests]
  /\ given \in Seq([reader : Readers, byte : 0 .. 127])

One(b) == IF b THEN 1 ELSE 0

(* Bytes in the ring that no reader has taken: those nelem counts, and the *)
(* one a reader was promised.                                              *)
Promised == {r \in Readers : pc[r] = "take" /\ r \notin kt.asleep["nelem"]}
Unread == kt.val["nelem"] + Cardinality(kt.asleep["nelem"]) + Cardinality(Promised)

(* Slots that are free: those nslots counts, and the one cons_to_buff has. *)
HasSlot == pc[ConsToBuff] = "move" /\ ConsToBuff \notin kt.asleep["nslots"]
Free == kt.val["nslots"] + Cardinality(kt.asleep["nslots"]) + One(HasSlot)

(* The semaphores account for every slot of the ring, and the unread ones, *)
(* from head on, hold the next bytes of the input: cons_to_buff never      *)
(* writes over a byte that was not read, and no read finds a slot that was *)
(* not written.                                                            *)
RingCount == Unread + Free = Size
RingContent ==
  \A i \in 0 .. (Unread - 1) :
    buff[(head + i) % Size] = Input(Len(given) + 1 + i)
RingInv == RingCount /\ RingContent

(* One reader at a time is past P(readers), and cons_to_buff is past       *)
(* P(consoleWait) exactly while the device holds a character: interrupts   *)
(* never pile up, however long the ring stays full.                        *)
Inside(r) ==
  pc[r] \in {"start", "test", "take"} /\ r \notin kt.asleep["readers"]
HandshakeInv ==
  /\ Cardinality({r \in Readers : Inside(r)})
       = 1 - kt.val["readers"] - Cardinality(kt.asleep["readers"])
  /\ \A r, s \in Readers : Inside(r) /\ Inside(s) => r = s
  /\ device # NoChar <=> /\ pc[ConsToBuff] \in {"wait_slot", "move"}
                         /\ ConsToBuff \notin kt.asleep["consoleWait"]

(* The ring never holds everybody up: while the kernel rests, a call is    *)
(* unfinished only because one reader waits for a byte, and then           *)
(* cons_to_buff waits for nothing but the interrupt that brings it.        *)
NoStandstill ==
  K!AllAsleep(kt) =>
    \/ \A r \in Readers : pc[r] = "user"
    \/ /\ kt.asleep["nelem"] # {} /\ kt.asleep["consoleWait"] = {ConsToBuff}
       /\ device = NoChar

-----------------------------------------------------------------------------
(* Refinement: a reader's turn begins when it goes on after P(readers).    *)
HasTurn(r) == pc[r] \in {"test", "take"}
Owner == IF \E r \in Readers : HasTurn(r)
           THEN CHOOSE r \in Readers : HasTurn(r) ELSE NoThread
BS == INSTANCE ByteStream WITH Nobody <- NoThread, Stream <- Text,
        owner <- Owner, want <- asked,
        calling <- {r \in Readers : pc[r] # "user"}, got <- count

(* Console reads implement a byte stream: in order, nothing lost or given  *)
(* twice, one call's bytes contiguous, short only at end of file.          *)
ImplementsByteStream == BS!Spec

(* Every read returns, as long as the console delivers.                    *)
ReadReturns == \A r \in Readers : pc[r] # "user" ~> pc[r] = "user"
=================================================================================
