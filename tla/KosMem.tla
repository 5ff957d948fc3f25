--------------------------------- MODULE KosMem ---------------------------------
(***************************************************************************)
(* The memory of KOS under KosProc: what the bytes of a chunk are, who     *)
(* changes them through which base, and the break of each process.         *)
(*                                                                         *)
(* Three ways lead to main_memory.  User code goes through the machine's   *)
(* User_Base, which scheduler() sets; system calls go through PCB.base,    *)
(* also long after they were made; load_user_program puts a program where  *)
(* User_Base points, for whichever PCB execve runs.                        *)
(*                                                                         *)
(* A word stands for what one instruction or one call stores at a time.    *)
(* Buffers are taken to lie in the caller's chunk.                         *)
(***************************************************************************)
EXTENDS KosProc

CONSTANTS
  Limit,      (* User_Limit: words of a chunk                              *)
  Values,     (* what a word can hold; 0 is what bzero and memset store    *)
  Programs,   (* executables, as the words load_user_program stores        *)
  MaxInt,     (* the largest int of the machine: 2^31 - 1                  *)
  Increments  (* the arguments of sbrk                                     *)

ASSUME KosMemAssumption ==
  /\ Limit \in Nat \ {0} /\ MaxInt \in Nat /\ Limit <= MaxInt
  /\ 0 \in Values
  /\ \A prog \in Programs : prog \in Seq(Values) /\ Len(prog) < Limit
  /\ Increments \subseteq -(MaxInt + 1) .. MaxInt

Ints == -(MaxInt + 1) .. MaxInt
Offsets == 0 .. (Limit - 1)
Addresses == 0 .. (NChunks * Limit - 1)

VARIABLES
  main_memory,
  base,        (* PCB.base                                                 *)
  sbrk_ptr,    (* PCB.sbrk_ptr                                             *)
  User_Base,   (* the machine's base register                              *)
  size,        (* history: words of the program a process runs             *)
  shrunk       (* history: sbrk was asked for less, or for more than an    *)
               (* int can hold                                             *)

breaks == <<sbrk_ptr, size, shrunk>>
memvars == <<main_memory, base, User_Base, breaks>>
allvars == <<vars, memvars>>

Image(p) == [a \in Offsets |-> main_memory[base[p] + a]]

(* main_memory with an image stored from address b on.                     *)
Placed(b, image) ==
  [x \in Addresses |-> IF x - b \in Offsets THEN image[x - b] ELSE main_memory[x]]

(* A sum as the machine's int.                                             *)
Wrap(n) == ((n + MaxInt + 1) % (2 * (MaxInt + 1))) - (MaxInt + 1)

MemInit ==
  /\ Init
  /\ main_memory = [x \in Addresses |-> 0]
  /\ base = [p \in PCBs |-> 0] /\ User_Base = 0
  /\ sbrk_ptr = [p \in PCBs |-> 0] /\ size = [p \in PCBs |-> 0]
  /\ shrunk = FALSE

-----------------------------------------------------------------------------
(* perform_execve for p: the program goes to User_Base, and InitUserArgs   *)
(* puts the argument in the highest word of the chunk of p.                *)
perform_execve(p, b, prog, arg) ==
  /\ main_memory' =
       [x \in Addresses |->
          IF x = b + Limit - 1 THEN arg
          ELSE IF x - User_Base \in 0 .. (Len(prog) - 1) THEN prog[x - User_Base + 1]
          ELSE main_memory[x]]
  /\ sbrk_ptr' = [sbrk_ptr EXCEPT ![p] = Len(prog)]
  /\ size' = [size EXCEPT ![p] = Len(prog)]

(* The argument comes from outside.  When the program cannot be loaded     *)
(* the simulator has ended.                                                *)
initialize_user_process ==
  /\ Boot
  /\ \E p \in heap' :
       /\ base' = [base EXCEPT ![p] = User_Base]
       /\ \/ /\ cpu' # "exited"
             /\ \E prog \in Programs, arg \in Values : perform_execve(p, User_Base, prog, arg)
          \/ cpu' = "exited" /\ UNCHANGED <<main_memory, sbrk_ptr, size>>
  /\ UNCHANGED <<User_Base, shrunk>>

(* The base register for the process that gets the CPU; the bug would      *)
(* leave the one of the last process.                                      *)
BugBaseFor(p) == User_Base

BaseFor(p) == base[p]

scheduler_mem ==
  \/ scheduler_run /\ User_Base' = BaseFor(Head(readyq)) /\ UNCHANGED <<main_memory, base, breaks>>
  \/ (scheduler_noop \/ scheduler_halt) /\ UNCHANGED memvars

(* An instruction of the running program stores a word.                    *)
user_store(a, v) ==
  /\ cpu = "user"
  /\ main_memory' = [main_memory EXCEPT ![User_Base + a] = v]
  /\ UNCHANGED <<vars, base, User_Base, breaks>>

-----------------------------------------------------------------------------
(* The arguments of execve are copied out of the caller's memory before    *)
(* the program is loaded; the bug would take them from there afterwards.   *)
BugArgument(p, prog, a) ==
  IF a < Len(prog) THEN prog[a + 1] ELSE main_memory[base[p] + a]

Argument(p, prog, a) == main_memory[base[p] + a]

execve_mem(p) ==
  /\ do_execve(p)
  /\ \/ /\ cpu' # "exited"
        /\ \E prog \in Programs, a \in Offsets :
             perform_execve(p, base[p], prog, Argument(p, prog, a))
     \/ cpu' = "exited" /\ UNCHANGED <<main_memory, sbrk_ptr, size>>
  /\ UNCHANGED <<base, User_Base, shrunk>>

(* read stores into the caller's buffer whenever it goes on, and pipe,     *)
(* ioctl and fstat fill it; write, close and the others store nothing.     *)
fill(p) ==
  /\ do_other(p) \/ do_io_return(p) \/ do_io_block(p)
  /\ \/ UNCHANGED main_memory
     \/ \E a \in Offsets, v \in Values :
          main_memory' = [main_memory EXCEPT ![base[p] + a] = v]
  /\ UNCHANGED <<base, User_Base, breaks>>

(* The sum is an int, and is compared as one; the bug would compare the    *)
(* increment.                                                              *)
BugTooMuch(p, add) == add > Limit

TooMuch(p, add) == Wrap(sbrk_ptr[p] + add) > Limit

do_sbrk(p, add) ==
  /\ do_other(p)
  /\ \/ TooMuch(p, add) /\ UNCHANGED <<sbrk_ptr, shrunk>>
     \/ /\ ~TooMuch(p, add)
        /\ sbrk_ptr' = [sbrk_ptr EXCEPT ![p] = Wrap(@ + add)]
        /\ shrunk' = (shrunk \/ sbrk_ptr'[p] < sbrk_ptr[p])
  /\ UNCHANGED <<main_memory, base, User_Base, size>>

-----------------------------------------------------------------------------
(* The child's chunk starts at i * User_Limit and gets a copy of all that  *)
(* is in the parent's; the bug would count chunks from 1.                  *)
BugChunkStart(i) == (i + 1) * Limit

ChunkStart(i) == i * Limit

fork_mem(p) ==
  /\ do_fork(p)
  /\ \E c \in heap' \ heap :
       /\ base' = [base EXCEPT ![c] = ChunkStart(memory_num'[c])]
       /\ main_memory' = Placed(base'[c], Image(p))
       /\ sbrk_ptr' = [sbrk_ptr EXCEPT ![c] = sbrk_ptr[p]]
       /\ size' = [size EXCEPT ![c] = size[p]]
  /\ UNCHANGED <<User_Base, shrunk>>

(* do_exit clears the caller's chunk, to its limit; the bug would clear it *)
(* to the break.                                                           *)
BugCleared(p) == {x \in Addresses : x - base[p] \in 0 .. (sbrk_ptr[p] - 1)}

Cleared(p) == {x \in Addresses : x - base[p] \in Offsets}

exit_mem(p) ==
  /\ do_exit_orphan(p) \/ do_exit_zombie(p)
  /\ main_memory' = [x \in Addresses |-> IF x \in Cleared(p) THEN 0 ELSE main_memory[x]]
  /\ UNCHANGED <<base, User_Base, breaks>>

-----------------------------------------------------------------------------
(* The steps of KosProc that leave memory alone.                           *)
no_memory ==
  /\ \/ Exception \/ Interrupt \/ Stopped
     \/ \E p \in PCBs :
          \/ do_fork_fail(p) \/ finish_fork(p)
          \/ do_wait_block(p) \/ do_wait(p) \/ do_wait_resume(p)
  /\ UNCHANGED memvars

MemNext ==
  \/ initialize_user_process \/ scheduler_mem \/ no_memory
  \/ \E a \in Offsets, v \in Values : user_store(a, v)
  \/ \E p \in PCBs :
       \/ execve_mem(p) \/ fill(p) \/ fork_mem(p) \/ exit_mem(p)
       \/ \E add \in Increments : do_sbrk(p, add)

MemSpec == MemInit /\ [][MemNext]_allvars

-----------------------------------------------------------------------------
MemTypeOK ==
  /\ main_memory \in [Addresses -> Values]
  /\ base \in [PCBs -> Addresses] /\ User_Base \in Addresses
  /\ sbrk_ptr \in [PCBs -> Ints] /\ size \in [PCBs -> Nat] /\ shrunk \in BOOLEAN

(* The two ways a process's memory is found agree: PCB.base is where its   *)
(* chunk starts, and the base register is right whenever something uses    *)
(* it: user code, and the loader of an execve, which runs later than the   *)
(* trap and is told of no process.                                         *)
MapInv ==
  /\ \A p \in PCBs : Alive(p) => base[p] = memory_num[p] * Limit
  /\ cpu = "user" => User_Base = base[curr]
  /\ \A p \in PCBs : Thread("execve", p) \in runnable => User_Base = base[p]

(* A chunk that nobody owns holds zeros: what a process leaves behind is   *)
(* gone before the next one gets the chunk.                                *)
CleanInv ==
  \A i \in Chunks : memory_chunk[i] = 0 =>
    \A a \in Offsets : main_memory[i * Limit + a] = 0

(* Through any sequence of fork, execve and sbrk the break is between the  *)
(* end of the program and the end of the chunk, unless sbrk was given a    *)
(* negative increment, or one whose sum is no int.                         *)
BreakInv ==
  ~shrunk => \A p \in PCBs :
    Alive(p) /\ cpu # "exited" => sbrk_ptr[p] \in size[p] .. Limit

(* A live process has the memory that PrivateMemory promises: whatever the *)
(* interleaving, only its own stores, calls and execve change it.          *)
PM == INSTANCE PrivateMemory WITH
        Procs <- PCBs, mem <- [p \in {q \in PCBs : Alive(q)} |-> Image(p)]

ImplementsPrivateMemory == PM!Spec
=================================================================================
