-------------------------------- MODULE KosPipe --------------------------------
(***************************************************************************)
(* A pipe: struct Pipe, the pipe branches of do_read and do_write, and     *)
(* what fork, close and exit do to its two counts.  A process holds at     *)
(* most one descriptor for each end here; dup and dup2 are left out.       *)
(*                                                                         *)
(* An action is the code a kernel thread runs between two calls of P       *)
(* (KtSem); system calls only come when kt_joinall has returned, so calls  *)
(* that never block are single actions.                                    *)
(***************************************************************************)
EXTENDS Integers, Sequences, FiniteSets

CONSTANTS
  Procs, Creator,  (* the processes, and the one that calls pipe()         *)
  NoThread,
  Size,            (* bytes of the buffer: 8192 in do_pipe                 *)
  FFs,             (* which of the bytes written have the value 0xFF       *)
  Garbage,         (* bytes malloc may leave in the buffer and behind it   *)
  MaxIO,           (* bound: a call asks for at most MaxIO bytes           *)
  MaxWrites        (* bound: calls of write, taken together                *)

ASSUME KosPipeAssumption ==
  /\ IsFiniteSet(Procs) /\ Creator \in Procs /\ NoThread \notin Procs
  /\ Size \in Nat \ {0} /\ MaxIO \in Nat \ {0} /\ MaxWrites \in Nat
  /\ FFs \subseteq Nat /\ Garbage \subseteq {-1, 0}

K == INSTANCE KtSem

Ends == {"r", "w"}
Sems == {"read", "write", "nelement", "space_available"}
Labels == {"user", "exited", "do_write", "wstart", "put", "ack",
           "do_read", "rstart", "test", "take"}

(* 0xFF, as a char; and the n-th byte that is written.                     *)
EOF == -1
Byte(n) == IF n \in FFs THEN EOF ELSE n
MaxBytes == MaxWrites * MaxIO
Bytes == {EOF} \cup (0 .. MaxBytes)

(* The indexes that start_point and starter_int can reach: the buffer's,   *)
(* and those of the memory behind it, for neither wraps within a call.     *)
Slots == 0 .. (Size + MaxIO - 2)

VARIABLES
  kt,           (* threads and semaphores                                  *)
  pc,           (* label of each process's thread                          *)
  born, open,   (* processes that were forked; the ends each has open      *)
  read_count, write_count, freed,              (* struct Pipe ...          *)
  buffer, read_head, write_head, writer_in_use,
  asked,        (* register 7; negative: arguments the call refuses        *)
  start,        (* start_point in do_write, starter_int in do_read         *)
  count,        (* write_count and count of the two; the values that calls *)
                (* return are left out, and locals end with the call       *)
  writes,       (* calls of write so far                                   *)
  stored,       (* history: bytes stored                                   *)
  given         (* history: bytes read, in order                           *)

counts == <<read_count, write_count, freed>>
ends == <<born, open, counts>>
ring == <<buffer, read_head, write_head, writer_in_use>>
call == <<asked, start, count, writes>>
history == <<stored, given>>
vars == <<kt, pc, ends, ring, call, history>>

Requests == -1 .. MaxIO

-----------------------------------------------------------------------------
(* do_pipe, for the descriptors of its caller.  The bug would count one    *)
(* slot too many.                                                          *)
BugSemValues == [read |-> 1, write |-> 1, nelement |-> 0, space_available |-> Size + 1]

SemValues == [read |-> 1, write |-> 1, nelement |-> 0, space_available |-> Size]

Init ==
  /\ kt = K!make_kt_sems(SemValues, {})
  /\ pc = [p \in Procs |-> "user"]
  /\ born = {Creator}
  /\ open = [p \in Procs |-> IF p = Creator THEN Ends ELSE {}]
  /\ read_count = 1 /\ write_count = 1 /\ freed = FALSE
  /\ buffer \in [Slots -> Garbage]
  /\ read_head = 0 /\ write_head = 0 /\ writer_in_use = 0
  /\ asked = [p \in Procs |-> 0] /\ start = [p \in Procs |-> 0]
  /\ count = [p \in Procs |-> 0] /\ writes = 0
  /\ stored = 0 /\ given = <<>>

Goto(p, label) == pc' = [pc EXCEPT ![p] = label]
At(p, label) == kt.running = p /\ pc[p] = label

(* P on s, to go on at label; and syscall_return, after a V on s or not.   *)
Sleep(p, s, label) == kt' = K!P_kt_sem(kt, s) /\ Goto(p, label)
syscall_return(p) ==
  /\ Goto(p, "user")
  /\ asked' = [asked EXCEPT ![p] = 0] /\ start' = [start EXCEPT ![p] = 0]
  /\ count' = [count EXCEPT ![p] = 0]
Refuse(p) == kt' = K!kt_exit(kt) /\ syscall_return(p)
Return(p, s) ==
  (\E k \in K!V_kt_sem(kt, s) : kt' = K!kt_exit(k)) /\ syscall_return(p)

(* kt_joinall gives the kernel to a thread that can run.                   *)
Dispatch(p) ==
  /\ K!MayRun(kt, p)
  /\ kt' = K!Dispatched(kt, p)
  /\ UNCHANGED <<pc, ends, ring, call, history>>

-----------------------------------------------------------------------------
(* do_write: refused without the write end, with bad arguments, or when no *)
(* process has the read end.                                               *)
do_write_refuse(p) ==
  /\ At(p, "do_write")
  /\ "w" \notin open[p] \/ asked[p] < 0 \/ read_count = 0
  /\ Refuse(p)
  /\ UNCHANGED <<ends, ring, writes, history>>

do_write(p) ==
  /\ At(p, "do_write")
  /\ "w" \in open[p] /\ asked[p] >= 0 /\ read_count # 0
  /\ Sleep(p, "write", "wstart")
  /\ UNCHANGED <<ends, ring, call, history>>

write_start(p) ==
  /\ At(p, "wstart")
  /\ start' = [start EXCEPT ![p] = write_head]
  /\ count' = [count EXCEPT ![p] = 0]
  /\ Goto(p, "put")
  /\ UNCHANGED <<kt, ends, ring, asked, writes, history>>

(* The byte is stored, then space is waited for.  The bugs would not move  *)
(* the head, or not wrap it.                                               *)
BugNextHead(head) == head
BugUnwrapped(head) == head + 1

NextHead(head) == (head + 1) % Size

write_put(p) ==
  /\ At(p, "put") /\ count[p] < asked[p]
  /\ buffer' = [buffer EXCEPT ![start[p]] = Byte(stored + 1)]
  /\ stored' = stored + 1
  /\ write_head' = NextHead(write_head)
  /\ start' = [start EXCEPT ![p] = @ + 1]
  /\ count' = [count EXCEPT ![p] = @ + 1]
  /\ Sleep(p, "space_available", "ack")
  /\ UNCHANGED <<ends, read_head, writer_in_use, asked, writes, given>>

write_ack(p) ==
  /\ At(p, "ack") /\ read_count # 0
  /\ kt' \in K!V_kt_sem(kt, "nelement") /\ Goto(p, "put")
  /\ UNCHANGED <<ends, ring, call, history>>

(* No readers are left: -EPIPE.                                            *)
write_epipe(p) ==
  /\ At(p, "ack") /\ read_count = 0
  /\ Return(p, "write")
  /\ UNCHANGED <<ends, ring, writes, history>>

write_done(p) ==
  /\ At(p, "put") /\ count[p] = asked[p]
  /\ writer_in_use' = writer_in_use + count[p]
  /\ Return(p, "write")
  /\ UNCHANGED <<ends, buffer, read_head, write_head, writes, history>>

-----------------------------------------------------------------------------
(* do_read.                                                                *)
do_read_refuse(p) ==
  /\ At(p, "do_read")
  /\ "r" \notin open[p] \/ asked[p] < 0
  /\ Refuse(p)
  /\ UNCHANGED <<ends, ring, writes, history>>

do_read(p) ==
  /\ At(p, "do_read")
  /\ "r" \in open[p] /\ asked[p] >= 0
  /\ Sleep(p, "read", "rstart")
  /\ UNCHANGED <<ends, ring, call, history>>

read_start(p) ==
  /\ At(p, "rstart")
  /\ start' = [start EXCEPT ![p] = read_head]
  /\ count' = [count EXCEPT ![p] = 0]
  /\ Goto(p, "test")
  /\ UNCHANGED <<kt, ends, ring, asked, writes, history>>

(* The call ends at once when there are no writers left ...  The bug would *)
(* keep the mutex.                                                         *)
BugNoWriters(p) ==
  /\ At(p, "test") /\ count[p] < asked[p]
  /\ write_count = 0
  /\ Refuse(p)
  /\ UNCHANGED <<ends, ring, writes, history>>

read_no_writers(p) ==
  /\ At(p, "test") /\ count[p] < asked[p]
  /\ write_count = 0
  /\ Return(p, "read")
  /\ UNCHANGED <<ends, ring, writes, history>>

(* ... or when it has taken as many bytes as writer_in_use says.           *)
read_taken_all(p) ==
  /\ At(p, "test") /\ count[p] < asked[p]
  /\ write_count # 0 /\ count[p] = writer_in_use
  /\ writer_in_use' = writer_in_use - count[p]
  /\ Return(p, "read")
  /\ UNCHANGED <<ends, buffer, read_head, write_head, writes, history>>

read_next(p) ==
  /\ At(p, "test") /\ count[p] < asked[p]
  /\ write_count # 0 /\ count[p] # writer_in_use
  /\ Sleep(p, "nelement", "take")
  /\ UNCHANGED <<ends, ring, call, history>>

(* 0xFF ends the call as if it were the end of the file.                   *)
read_eof(p) ==
  /\ At(p, "take") /\ buffer[start[p]] = EOF
  /\ \E k \in K!V_kt_sem(kt, "space_available") :
       \E j \in K!V_kt_sem(k, "read") : kt' = K!kt_exit(j)
  /\ syscall_return(p)
  /\ UNCHANGED <<ends, ring, writes, history>>

read_byte(p) ==
  /\ At(p, "take") /\ buffer[start[p]] # EOF
  /\ given' = Append(given, buffer[start[p]])
  /\ read_head' = NextHead(read_head)
  /\ start' = [start EXCEPT ![p] = @ + 1]
  /\ count' = [count EXCEPT ![p] = @ + 1]
  /\ kt' \in K!V_kt_sem(kt, "space_available") /\ Goto(p, "test")
  /\ UNCHANGED <<ends, buffer, write_head, writer_in_use, asked, writes, stored>>

read_done(p) ==
  /\ At(p, "test") /\ count[p] = asked[p]
  /\ Return(p, "read")
  /\ UNCHANGED <<ends, ring, writes, history>>

-----------------------------------------------------------------------------
(* System calls.                                                           *)
InUser(p) == K!AllAsleep(kt) /\ p \in born /\ pc[p] = "user"

SyscallRead(p) ==
  /\ InUser(p)
  /\ \E n \in Requests : asked' = [asked EXCEPT ![p] = n]
  /\ kt' = K!kt_fork(kt, p) /\ Goto(p, "do_read")
  /\ UNCHANGED <<ends, ring, start, count, writes, history>>

SyscallWrite(p) ==
  /\ InUser(p) /\ writes < MaxWrites
  /\ \E n \in Requests : asked' = [asked EXCEPT ![p] = n]
  /\ kt' = K!kt_fork(kt, p) /\ Goto(p, "do_write")
  /\ writes' = writes + 1
  /\ UNCHANGED <<ends, ring, start, count, history>>

One(b) == IF b THEN 1 ELSE 0

(* do_fork: the child gets a copy of every descriptor; each one that is    *)
(* open is counted.                                                        *)
do_fork(p, c) ==
  /\ InUser(p) /\ c \notin born
  /\ born' = born \cup {c}
  /\ open' = [open EXCEPT ![c] = open[p]]
  /\ read_count' = read_count + One("r" \in open[p])
  /\ write_count' = write_count + One("w" \in open[p])
  /\ UNCHANGED <<kt, pc, freed, ring, call, history>>

(* The pipe is freed when neither end is open; the bug would only look at  *)
(* the read ends.                                                          *)
BugUnused(r, w) == r = 0

Unused(r, w) == r = 0 /\ w = 0

(* do_close on the read end; after the last one every process that has the *)
(* write end is let go on, once.  The bug would let nobody go on.          *)
BugReadersGone == {kt}

ReadersGone == K!V_kt_sems(kt, "space_available", write_count)

do_close_read(p) ==
  /\ InUser(p) /\ "r" \in open[p]
  /\ open' = [open EXCEPT ![p] = @ \ {"r"}]
  /\ read_count' = read_count - 1
  /\ kt' \in IF read_count = 1 THEN ReadersGone ELSE {kt}
  /\ freed' = (freed \/ Unused(read_count', write_count))
  /\ UNCHANGED <<pc, born, write_count, ring, call, history>>

do_close_write(p) ==
  /\ InUser(p) /\ "w" \in open[p]
  /\ open' = [open EXCEPT ![p] = @ \ {"w"}]
  /\ write_count' = write_count - 1
  /\ freed' = (freed \/ Unused(read_count, write_count'))
  /\ UNCHANGED <<kt, pc, born, read_count, ring, call, history>>

(* do_exit gives both ends back and lets nobody go on.                     *)
do_exit(p) ==
  /\ InUser(p)
  /\ Goto(p, "exited")
  /\ open' = [open EXCEPT ![p] = {}]
  /\ read_count' = read_count - One("r" \in open[p])
  /\ write_count' = write_count - One("w" \in open[p])
  /\ freed' = (freed \/ Unused(read_count', write_count'))
  /\ UNCHANGED <<kt, born, ring, call, history>>

Kernel ==
  \E p \in Procs :
    \/ Dispatch(p)
    \/ do_write_refuse(p) \/ do_write(p) \/ write_start(p) \/ write_put(p)
    \/ write_ack(p) \/ write_epipe(p) \/ write_done(p)
    \/ do_read_refuse(p) \/ do_read(p) \/ read_start(p) \/ read_no_writers(p)
    \/ read_taken_all(p) \/ read_next(p) \/ read_eof(p) \/ read_byte(p) \/ read_done(p)

User ==
  \E p \in Procs :
    \/ SyscallRead(p) \/ SyscallWrite(p)
    \/ do_close_read(p) \/ do_close_write(p) \/ do_exit(p)
    \/ \E c \in Procs : do_fork(p, c)

Next == Kernel \/ User

Spec == Init /\ [][Next]_vars

(* Kernel code runs to its end.                                            *)
FairSpec == Spec /\ WF_vars(Kernel)

-----------------------------------------------------------------------------
TypeOK ==
  /\ kt \in K!KtState(Sems, Procs) /\ K!Sound(kt)
  /\ pc \in [Procs -> Labels]
  /\ born \subseteq Procs /\ open \in [Procs -> SUBSET Ends]
  /\ read_count \in Nat /\ write_count \in Nat /\ freed \in BOOLEAN
  /\ buffer \in [Slots -> Bytes]
  /\ read_head \in 0 .. (Size - 1) /\ write_head \in 0 .. (Size - 1)
  /\ writer_in_use \in 0 .. MaxBytes
  /\ asked \in [Procs -> Requests] /\ count \in [Procs -> Requests]
  /\ start \in [Procs -> 0 .. (Size + MaxIO - 1)]
  /\ writes \in 0 .. MaxWrites /\ stored \in 0 .. MaxBytes
  /\ given \in Seq(Bytes)

(* The threads past P(read), and past P(write).                            *)
Reading == {p \in Procs : pc[p] \in {"rstart", "test", "take"}} \ kt.asleep["read"]
Writing == {p \in Procs : pc[p] \in {"wstart", "put", "ack"}} \ kt.asleep["write"]

(* The counts in the pipe are the descriptors that refer to it, and the    *)
(* pipe is freed with the last one: no thread that uses the pipe, or waits *)
(* in it, finds it freed.                                                  *)
EndInv ==
  /\ read_count = Cardinality({p \in Procs : "r" \in open[p]})
  /\ write_count = Cardinality({p \in Procs : "w" \in open[p]})
  /\ freed <=> \A p \in Procs : open[p] = {}
  /\ \A p \in Reading \cup kt.asleep["read"] : "r" \in open[p]
  /\ \A p \in Writing \cup kt.asleep["write"] : "w" \in open[p]

(* Free slots, and bytes that were stored, acknowledged and not taken, as  *)
(* the semaphores count them; the byte a writer is about to acknowledge.   *)
Units(s) == kt.val[s] + Cardinality(kt.asleep[s])
Acks == {p \in Procs : pc[p] = "ack"}
Takes == {p \in Procs : pc[p] = "take"} \ kt.asleep["nelement"]
Free == Units("space_available") + Cardinality(Acks \ kt.asleep["space_available"])
Unread == Units("nelement") + Cardinality(Takes)

(* One reader and one writer at a time are inside, and while the pipe has  *)
(* readers every slot is accounted for: what the two semaphores count as   *)
(* free and as unread makes up the buffer.                                 *)
SlotInv ==
  /\ Cardinality(Reading) <= 1 /\ Cardinality(Writing) <= 1
  /\ read_count # 0 => Free + Unread = Size

(* Reader and writer never sleep for each other, and while the kernel      *)
(* rests whoever sleeps behind a mutex does so for one who sleeps inside.  *)
NoStandstill ==
  /\ kt.asleep["nelement"] = {} \/ kt.asleep["space_available"] = {}
  /\ K!AllAsleep(kt) =>
       /\ kt.asleep["read"] # {} => kt.asleep["nelement"] # {}
       /\ kt.asleep["write"] # {} => kt.asleep["space_available"] # {}

(* Once the last reader has closed its end no writer sleeps for space, and *)
(* when the kernel rests none is left inside: the V that do_close does for *)
(* each write end are enough for whoever sleeps, at either semaphore.      *)
WritersLeave ==
  read_count = 0 /\ (\A q \in Procs : pc[q] # "exited") =>
    /\ kt.asleep["space_available"] = {}
    /\ K!AllAsleep(kt) => kt.asleep["write"] = {}

(* The writer has not come to the end of the buffer yet.                   *)
FirstLap == stored <= Size

(* Bytes come out in the order in which they were stored, and none is lost *)
(* in between, as long as the buffer has not been used up once and no byte *)
(* 0xFF was among them.                                                    *)
InOrder == \A i \in DOMAIN given : given[i] = Byte(i)
NothingLost == read_count # 0 => Len(given) + Unread + Cardinality(Acks) = stored
FirstLapInv == FirstLap /\ (1 .. stored) \cap FFs = {} => InOrder /\ NothingLost

(* A write that finds all readers gone, or loses them, returns: do_close   *)
(* on the last read end lets go on whoever sleeps, at either semaphore.    *)
WriterReleased ==
  \A p \in Procs :
    /\ p \in Writing \cup kt.asleep["write"] /\ read_count = 0
    /\ \A q \in Procs : pc[q] # "exited"
    ~> pc[p] = "user"

-----------------------------------------------------------------------------
(* What comments and tests say and the code does not do.                   *)

(* test/pipe-bin.c:47-52 compares what it reads with what it wrote.  Once  *)
(* the buffer is used up, start_point and starter_int run past its end.    *)
ReadsInOrder == InOrder

(* test/unblock.c:52-55 closes the last write end to unblock readers;      *)
(* do_close wakes no reader.                                               *)
ReaderReleased ==
  \A p \in Procs : p \in kt.asleep["nelement"] /\ write_count = 0 ~> pc[p] = "user"
=================================================================================
