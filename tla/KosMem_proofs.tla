----------------------------- MODULE KosMem_proofs -----------------------------
(***************************************************************************)
(* The memory of a process is its own, for every number of chunks, chunk   *)
(* size and set of words.  First come facts on addresses, then the effect  *)
(* of each step on the processes that live, then the invariants.           *)
(***************************************************************************)
EXTENDS KosMem, KosProcInv_proofs

(* Chunks follow each other in memory without a gap or an overlap.         *)
LEMMA ChunkPlace ==
  ASSUME NEW i \in Chunks, NEW a \in Offsets
  PROVE  i * Limit + a \in Addresses
<1>1. i \in Nat /\ a \in Nat /\ i + 1 <= NChunks /\ a + 1 <= Limit /\ Limit \in Nat /\ NChunks \in Nat
  BY KosProcAssumption, KosMemAssumption DEF Chunks, Offsets
<1>2. PICK d \in Nat : NChunks = i + 1 + d
  <2>1. NChunks - (i + 1) \in Nat /\ NChunks = i + 1 + (NChunks - (i + 1))
    BY <1>1
  <2> QED BY <2>1
<1>3. NChunks * Limit = i * Limit + Limit + d * Limit /\ d * Limit \in Nat /\ i * Limit \in Nat
  BY <1>1, <1>2
<1> QED BY <1>1, <1>3 DEF Addresses

(* A word of main_memory is at one offset of one chunk.                    *)
LEMMA ChunksApart ==
  ASSUME NEW i \in Chunks, NEW j \in Chunks, NEW a \in Offsets, NEW b \in Offsets,
         i * Limit + a = j * Limit + b
  PROVE  i = j /\ a = b
<1>1. i \in Nat /\ j \in Nat /\ a \in Nat /\ b \in Nat /\ a < Limit /\ b < Limit /\ Limit \in Nat
  BY KosProcAssumption, KosMemAssumption DEF Chunks, Offsets
<1>2. ASSUME NEW m \in Nat, NEW n \in Nat, m < n PROVE n * Limit >= m * Limit + Limit
  <2>1. PICK d \in Nat : n = m + 1 + d
    <3>1. n - (m + 1) \in Nat /\ n = m + 1 + (n - (m + 1))
      BY <1>2
    <3> QED BY <3>1
  <2>2. n * Limit = m * Limit + Limit + d * Limit /\ d * Limit \in Nat /\ m * Limit \in Nat
    BY <1>1, <2>1
  <2> QED BY <1>1, <2>2
<1>3. i * Limit \in Nat /\ j * Limit \in Nat
  BY <1>1
<1>4. ~(i < j) /\ ~(j < i)
  BY <1>1, <1>2, <1>3
<1>5. i = j
  BY <1>1, <1>4
<1> QED BY <1>1, <1>3, <1>5

-----------------------------------------------------------------------------
(* KosMem adds memory to KosProc and takes no step of it away or to it.    *)
LEMMA StepIsKosProc == [MemNext]_allvars => [Next]_vars
<1> SUFFICES ASSUME [MemNext]_allvars PROVE [Next]_vars
  OBVIOUS
<1>1. CASE UNCHANGED allvars
  BY <1>1 DEF allvars
<1>2. CASE initialize_user_process
  BY <1>2 DEF initialize_user_process, Next, Kernel
<1>3. CASE scheduler_mem
  BY <1>3 DEF scheduler_mem, Scheduler, Next, Kernel
<1>4. CASE no_memory
  BY <1>4 DEF no_memory, KernelThread, Next, Kernel
<1>5. ASSUME NEW a \in Offsets, NEW v \in Values, user_store(a, v)
      PROVE  [Next]_vars
  BY <1>5 DEF user_store
<1>6. ASSUME NEW p \in PCBs,
             execve_mem(p) \/ fill(p) \/ fork_mem(p) \/ exit_mem(p)
               \/ \E add \in Increments : do_sbrk(p, add)
      PROVE  [Next]_vars
  BY <1>6 DEF execve_mem, fill, fork_mem, exit_mem, do_sbrk, KernelThread, Next, Kernel
<1> QED BY <1>1, <1>2, <1>3, <1>4, <1>5, <1>6 DEF MemNext

(* So what was proved of KosProc holds here.                               *)
LEMMA ProcInvariance == MemSpec => []IInv
<1>1. MemInit => Init
  BY DEF MemInit
<1> QED BY <1>1, StepIsKosProc, InitInv, Inductive, PTL DEF MemSpec

-----------------------------------------------------------------------------
(* Steps of KosProc after which the same processes live in the same chunks.*)
Quiet ==
  \/ UNCHANGED vars \/ Scheduler \/ Exception \/ Interrupt
  \/ \E p \in PCBs :
       \/ do_other(p) \/ do_execve(p) \/ do_io_return(p) \/ do_io_block(p)
       \/ do_fork_fail(p) \/ finish_fork(p)
       \/ do_wait_block(p) \/ do_wait(p) \/ do_wait_resume(p)

(* A quiet step begins and ends no life and moves no chunk.                *)
LEMMA QuietAlive ==
  ASSUME IInv, Quiet
  PROVE  (\A r \in PCBs : Alive(r)' <=> Alive(r)) /\ UNCHANGED memory
<1>1. CASE UNCHANGED <<heap, parent, children, memory>>
  BY <1>1, SameAlive
<1>2. CASE UNCHANGED vars
  BY <1>1, <1>2 DEF vars, family
<1>3. CASE Scheduler
  BY <1>1, <1>3 DEF Scheduler, scheduler_halt, scheduler_noop, scheduler_run, family
<1>4. CASE Exception
  BY <1>1, <1>4 DEF Exception, Fault, SyscallHalt, Syscall, family
<1>5. CASE Interrupt
  BY <1>1, <1>5 DEF Interrupt, TimerInt, ConsoleInt, family
<1>6. ASSUME NEW p \in PCBs,
             \/ do_other(p) \/ do_execve(p) \/ do_io_return(p) \/ do_io_block(p)
             \/ do_fork_fail(p) \/ finish_fork(p) \/ do_wait_block(p)
      PROVE  UNCHANGED <<heap, parent, children, memory>>
  BY <1>6 DEF do_other, do_execve, do_io_return, do_io_block, do_fork_fail,
              finish_fork, do_wait_block, family
<1>7. ASSUME NEW p \in PCBs, do_wait(p) \/ do_wait_resume(p)
      PROVE  (\A r \in PCBs : Alive(r)' <=> Alive(r)) /\ UNCHANGED memory
  <2>1. PICK op \in {"wait", "reap"} : Thread(op, p) \in runnable /\ Reap(p)
    BY <1>7 DEF do_wait, do_wait_resume, Runs
  <2> QED BY <2>1, ReapEffect DEF Reap
<1> QED BY <1>1, <1>2, <1>3, <1>4, <1>5, <1>6, <1>7 DEF Quiet

(* A process whose step is one of its kernel thread is alive.              *)
LEMMA RunsAlive ==
  ASSUME IInv, NEW op, NEW p \in PCBs, Runs(Thread(op, p))
  PROVE  Alive(p) /\ cpu = "kernel"
BY ThreadAlive DEF Runs

(* What fork changes, without the thread.                                  *)
LEMMA ForkChanges ==
  ASSUME IInv, NEW p \in PCBs, do_fork(p)
  PROVE  \E c \in PCBs \ heap, i \in Chunks :
           /\ heap' \ heap = {c} /\ Alive(p) /\ ~Alive(c) /\ c # p
           /\ \A r \in PCBs : Alive(r)' <=> Alive(r) \/ r = c
           /\ \A r \in PCBs : memory_num'[r] = IF r = c THEN i ELSE memory_num[r]
           /\ memory_chunk[i] = 0
           /\ \A j \in Chunks : memory_chunk'[j] = IF j = i THEN 1 ELSE memory_chunk[j]
           /\ \A t \in runnable' : t \in runnable \/ t.op = "finish_fork"
           /\ cpu' = "kernel"
<1>0. TypeOK /\ TableTypeOK
  BY DEF IInv, TypeOK
<1>1. PICK c \in PCBs \ heap, i \in Chunks, n \in 0 .. MaxPid : NewChild(p, c, i, n)
  BY DEF do_fork
<1>2. /\ Alive(p) /\ ~Alive(c) /\ c # p
      /\ \A r \in PCBs : Alive(r)' <=> Alive(r) \/ r = c
  BY <1>1, ForkEffect DEF do_fork, Runs
<1>3. /\ heap' \ heap = {c}
      /\ memory_chunk[i] = 0
      /\ \A j \in Chunks : memory_chunk'[j] = IF j = i THEN 1 ELSE memory_chunk[j]
      /\ \A r \in PCBs : memory_num'[r] = IF r = c THEN i ELSE memory_num[r]
  BY <1>0, <1>1 DEF NewChild, FirstFreeChunk, TableTypeOK
<1>4. \A t \in runnable' : t \in runnable \/ t.op = "finish_fork"
  BY <1>1 DEF NewChild, Finish, Thread
<1>5. cpu' = "kernel"
  BY DEF do_fork, Runs, machine
<1> QED BY <1>1, <1>2, <1>3, <1>4, <1>5

(* What exit changes: one life less, one chunk back.                       *)
LEMMA ExitChanges ==
  ASSUME IInv, NEW p \in PCBs, do_exit_orphan(p) \/ do_exit_zombie(p)
  PROVE  /\ Alive(p) /\ \A r \in PCBs : Alive(r)' <=> Alive(r) /\ r # p
         /\ memory_num' = memory_num
         /\ \A j \in Chunks :
              memory_chunk'[j] = IF j = memory_num[p] THEN 0 ELSE memory_chunk[j]
         /\ \A t \in runnable' : t \in runnable \/ t.op = "reap"
         /\ cpu' = "kernel"
<1>1. Alive(p) /\ \A r \in PCBs : Alive(r)' <=> Alive(r) /\ r # p
  BY ExitEffect DEF do_exit_orphan, do_exit_zombie, Runs
<1>2. /\ memory_num' = memory_num
      /\ \A j \in Chunks :
           memory_chunk'[j] = IF j = memory_num[p] THEN 0 ELSE memory_chunk[j]
  BY DEF do_exit_orphan, do_exit_zombie, ReleaseChunk, IInv, TypeOK, TableTypeOK
<1>3. \A t \in runnable' : t \in runnable \/ t.op = "reap"
  BY DEF do_exit_orphan, do_exit_zombie, Finish, Thread
<1>4. cpu' = "kernel"
  BY DEF do_exit_orphan, do_exit_zombie, Runs, machine
<1> QED BY <1>1, <1>2, <1>3, <1>4

(* What boot changes: the first life, in chunk 0.                          *)
LEMMA BootChanges ==
  ASSUME IInv, Boot
  PROVE  \E p \in PCBs :
           /\ heap' = {p} /\ Booting
           /\ \A r \in PCBs : ~Alive(r) /\ (Alive(r)' <=> r = p)
           /\ memory_num'[p] = 0
           /\ \A j \in Chunks :
                memory_chunk[j] = 0 /\ memory_chunk'[j] = IF j = 0 THEN 1 ELSE 0
           /\ runnable' = {} /\ cpu' \in {"kernel", "exited"}
<1>1. PICK p \in PCBs : heap' = {p} /\ \A r \in PCBs : Alive(r)' <=> r = p
  BY BootEffect
<1>2. /\ runnable' = {} /\ \A i \in Chunks : memory_chunk[i] = 0
      /\ \A r \in PCBs : ~Alive(r)
  BY BootEffect
<1>3. PICK s \in PCBs : /\ heap' = {s}
                        /\ memory_chunk' = [memory_chunk EXCEPT ![0] = 1]
                        /\ memory_num' = [memory_num EXCEPT ![s] = 0]
                        /\ cpu' = "exited" \/ UNCHANGED cpu
  BY DEF Boot
<1>4. s = p
  BY <1>1, <1>3
<1>5. cpu = "kernel" /\ Booting
  BY DEF Boot, Runs, Booting
<1>6. memory_num'[p] = 0
  BY <1>3, <1>4 DEF IInv, TypeOK, TableTypeOK
<1>7. \A j \in Chunks : memory_chunk'[j] = IF j = 0 THEN 1 ELSE 0
  BY <1>2, <1>3 DEF IInv, TypeOK, TableTypeOK
<1> QED BY <1>1, <1>2, <1>3, <1>5, <1>6, <1>7

-----------------------------------------------------------------------------
(* The map of memory.  Boot relies on the base register's first value.     *)
Fresh == Booting => User_Base = 0
MemInv == MemTypeOK /\ MapInv /\ Fresh

(* Offsets and addresses are natural numbers, and chunks start at one.     *)
LEMMA LayoutFacts ==
  /\ Limit \in Nat \ {0} /\ MaxInt \in Nat /\ Limit <= MaxInt
  /\ 0 \in Offsets /\ Limit - 1 \in Offsets /\ Offsets \subseteq Nat
  /\ 0 \in Addresses /\ Addresses \subseteq Nat
  /\ 0 \in Values
  /\ \A i \in Chunks : i * Limit \in Addresses
<1>1. /\ Limit \in Nat \ {0} /\ MaxInt \in Nat /\ Limit <= MaxInt /\ 0 \in Values
      /\ 0 \in Offsets /\ Limit - 1 \in Offsets /\ Offsets \subseteq Nat
  BY KosMemAssumption DEF Offsets
<1>2. Addresses \subseteq Nat
  BY DEF Addresses
<1>3. ASSUME NEW i \in Chunks PROVE i * Limit \in Addresses
  <2>1. i * Limit + 0 \in Addresses
    BY <1>1, ChunkPlace
  <2>2. i \in Nat
    BY KosProcAssumption DEF Chunks
  <2>3. i * Limit \in Nat
    BY <1>1, <2>2
  <2> QED BY <2>1, <2>3
<1>4. 0 * Limit = 0
  BY <1>1
<1> QED BY <1>1, <1>2, <1>3, <1>4, ConstantFacts

(* The machine's sum of two ints is an int.                                *)
LEMMA WrapType ==
  ASSUME NEW n \in Int PROVE Wrap(n) \in Ints
<1> DEFINE k == n + MaxInt + 1
<1> DEFINE m == 2 * (MaxInt + 1)
<1>1. MaxInt \in Nat
  BY LayoutFacts
<1>2. k \in Int /\ m \in Nat /\ m > 0
  BY <1>1
<1>3. k % m \in 0 .. (m - 1)
  <2> HIDE DEF k, m
  <2> QED BY <1>2
<1>4. Wrap(n) = (k % m) - (MaxInt + 1)
  BY DEF Wrap
<1>5. m - 1 - (MaxInt + 1) = MaxInt
  BY <1>1
<1> HIDE DEF k
<1> QED BY <1>1, <1>3, <1>4, <1>5 DEF Ints

(* A live process finds its memory at the start of its chunk.              *)
LEMMA InChunk ==
  ASSUME IInv, MemInv, NEW p \in PCBs, Alive(p)
  PROVE  /\ memory_num[p] \in Chunks /\ base[p] = memory_num[p] * Limit
         /\ memory_chunk[memory_num[p]] = 1
         /\ base[p] \in Addresses
         /\ \A a \in Offsets : base[p] + a \in Addresses
         /\ \A a \in Offsets : main_memory[base[p] + a] \in Values
<1>1. memory_num[p] \in Chunks
  BY DEF IInv, TypeOK, TableTypeOK
<1>2. base[p] = memory_num[p] * Limit /\ base[p] \in Addresses
  BY DEF MemInv, MapInv, MemTypeOK
<1>3. memory_chunk[memory_num[p]] = 1
  BY <1>1 DEF IInv, ChunkInv
<1>4. \A a \in Offsets : base[p] + a \in Addresses
  BY <1>1, <1>2, ChunkPlace
<1> QED BY <1>1, <1>2, <1>3, <1>4 DEF MemInv, MemTypeOK

(* perform_execve keeps words words and breaks ints.                       *)
LEMMA LoadType ==
  ASSUME MemTypeOK, NEW p \in PCBs, NEW b \in Addresses, NEW prog \in Programs,
         NEW arg \in Values, perform_execve(p, b, prog, arg)
  PROVE  /\ main_memory' \in [Addresses -> Values]
         /\ sbrk_ptr' \in [PCBs -> Ints] /\ size' \in [PCBs -> Nat]
         /\ sbrk_ptr'[p] = Len(prog) /\ size'[p] = Len(prog)
         /\ Len(prog) \in Nat /\ Len(prog) < Limit
<1>1. /\ prog \in Seq(Values) /\ Len(prog) \in Nat /\ Len(prog) < Limit
      /\ Len(prog) \in Ints
  BY KosMemAssumption, LayoutFacts DEF Ints
<1>2. \A x \in Addresses :
        x - User_Base \in 0 .. (Len(prog) - 1) => prog[x - User_Base + 1] \in Values
  <2> TAKE x \in Addresses
  <2> HAVE x - User_Base \in 0 .. (Len(prog) - 1)
  <2>1. x - User_Base + 1 \in 1 .. Len(prog)
    BY <1>1
  <2> QED BY <1>1, <2>1
<1>3. main_memory' \in [Addresses -> Values]
  BY <1>2 DEF perform_execve, MemTypeOK
<1> QED BY <1>1, <1>3 DEF perform_execve, MemTypeOK

(* Memory, bases and breaks keep their ranges.                             *)
LEMMA MemTypeStep ==
  ASSUME IInv, MemInv, [MemNext]_allvars PROVE MemTypeOK'
<1> USE LayoutFacts
<1>0. MemTypeOK
  BY DEF MemInv
<1>1. ASSUME UNCHANGED memvars PROVE MemTypeOK'
  BY <1>0, <1>1 DEF memvars, breaks, MemTypeOK
<1>2. CASE UNCHANGED allvars
  BY <1>1, <1>2 DEF allvars
<1>3. CASE initialize_user_process
  <2>1. PICK p \in heap' :
          /\ base' = [base EXCEPT ![p] = User_Base]
          /\ \/ \E prog \in Programs, arg \in Values : perform_execve(p, User_Base, prog, arg)
             \/ UNCHANGED <<main_memory, sbrk_ptr, size>>
    BY <1>3 DEF initialize_user_process
  <2>2. p \in PCBs
    BY <1>3, <2>1, BootChanges DEF initialize_user_process
  <2>3. User_Base \in Addresses /\ UNCHANGED <<User_Base, shrunk>>
    BY <1>0, <1>3 DEF MemTypeOK, initialize_user_process
  <2> QED BY <1>0, <2>1, <2>2, <2>3, LoadType DEF MemTypeOK
<1>4. CASE scheduler_mem
  <2>1. ASSUME scheduler_run, User_Base' = BaseFor(Head(readyq)),
               UNCHANGED <<main_memory, base, breaks>>
        PROVE  MemTypeOK'
    <3>1. Head(readyq) \in PCBs
      BY <2>1 DEF scheduler_run, IInv, TypeOK, SchedTypeOK
    <3> QED BY <1>0, <2>1, <3>1 DEF BaseFor, MemTypeOK, breaks
  <2> QED BY <1>1, <1>4, <2>1 DEF scheduler_mem
<1>5. CASE no_memory
  BY <1>1, <1>5 DEF no_memory
<1>6. ASSUME NEW a \in Offsets, NEW v \in Values, user_store(a, v)
      PROVE  MemTypeOK'
  BY <1>0, <1>6 DEF user_store, MemTypeOK, breaks
<1>7. ASSUME NEW p \in PCBs, execve_mem(p) PROVE MemTypeOK'
  <2>1. Alive(p)
    BY <1>7, RunsAlive DEF execve_mem, do_execve
  <2>2. UNCHANGED <<base, User_Base, shrunk>>
    BY <1>7 DEF execve_mem
  <2>3. CASE UNCHANGED <<main_memory, sbrk_ptr, size>>
    BY <1>0, <2>2, <2>3 DEF MemTypeOK
  <2>4. ASSUME NEW prog \in Programs, NEW a \in Offsets,
               perform_execve(p, base[p], prog, Argument(p, prog, a))
        PROVE  MemTypeOK'
    <3>1. Argument(p, prog, a) \in Values /\ base[p] \in Addresses
      BY <2>1, InChunk DEF Argument
    <3> QED BY <1>0, <2>2, <2>4, <3>1, LoadType DEF MemTypeOK
  <2> QED BY <1>7, <2>3, <2>4 DEF execve_mem
<1>8. ASSUME NEW p \in PCBs, fill(p) PROVE MemTypeOK'
  BY <1>0, <1>8 DEF fill, MemTypeOK, breaks
<1>9. ASSUME NEW p \in PCBs, NEW add \in Increments, do_sbrk(p, add) PROVE MemTypeOK'
  <2>1. sbrk_ptr[p] + add \in Int
    BY <1>0, KosMemAssumption DEF MemTypeOK, Ints
  <2>2. Wrap(sbrk_ptr[p] + add) \in Ints
    BY <2>1, WrapType
  <2>3. shrunk' \in BOOLEAN
    BY <1>0, <1>9 DEF do_sbrk, MemTypeOK
  <2> QED BY <1>0, <1>9, <2>2, <2>3 DEF do_sbrk, MemTypeOK
<1>10. ASSUME NEW p \in PCBs, fork_mem(p) PROVE MemTypeOK'
  <2>1. PICK c \in heap' \ heap :
          /\ base' = [base EXCEPT ![c] = ChunkStart(memory_num'[c])]
          /\ main_memory' = Placed(base'[c], Image(p))
          /\ sbrk_ptr' = [sbrk_ptr EXCEPT ![c] = sbrk_ptr[p]]
          /\ size' = [size EXCEPT ![c] = size[p]]
          /\ UNCHANGED <<User_Base, shrunk>>
    BY <1>10 DEF fork_mem
  <2>2. c \in PCBs /\ memory_num'[c] \in Chunks /\ Alive(p)
    BY <1>10, <2>1, ForkChanges DEF fork_mem
  <2>3. base' \in [PCBs -> Addresses]
    BY <1>0, <2>1, <2>2 DEF ChunkStart, MemTypeOK
  <2>4. \A a \in Offsets : Image(p)[a] \in Values
    BY <2>2, InChunk DEF Image
  <2>5. main_memory' \in [Addresses -> Values]
    BY <1>0, <2>1, <2>4 DEF Placed, MemTypeOK
  <2> QED BY <1>0, <2>1, <2>2, <2>3, <2>5 DEF MemTypeOK
<1>11. ASSUME NEW p \in PCBs, exit_mem(p) PROVE MemTypeOK'
  BY <1>0, <1>11 DEF exit_mem, MemTypeOK, breaks
<1> QED BY <1>2, <1>3, <1>4, <1>5, <1>6, <1>7, <1>8, <1>9, <1>10, <1>11 DEF MemNext

-----------------------------------------------------------------------------
(* A kernel thread that runs an execve was already there, or comes from    *)
(* the trap of the process that had the CPU.                               *)
LEMMA ExecveTraps ==
  ASSUME IInv, [Next]_vars, NEW r \in PCBs, Thread("execve", r) \in runnable'
  PROVE  Thread("execve", r) \in runnable \/ (cpu = "user" /\ r = curr)
<1> DEFINE x == Thread("execve", r)
<1>0. x.op = "execve" /\ x.pcb = r
  BY DEF Thread
<1>1. CASE UNCHANGED vars
  BY <1>1 DEF vars, ktvars
<1>2. CASE Boot
  BY <1>2, BootChanges
<1>3. CASE Scheduler
  BY <1>3 DEF Scheduler, scheduler_halt, scheduler_noop, scheduler_run, ktvars
<1>4. CASE Fault \/ SyscallHalt \/ TimerInt
  BY <1>4 DEF Fault, SyscallHalt, TimerInt, ktvars
<1>5. CASE ConsoleInt
  BY <1>0, <1>5 DEF ConsoleInt
<1>6. ASSUME NEW op \in SyscallOps, Syscall(op)
      PROVE  x \in runnable \/ (cpu = "user" /\ r = curr)
  <2>1. x \in runnable \/ x = Thread(op, curr)
    BY <1>6 DEF Syscall
  <2>2. x = Thread(op, curr) => r = curr
    BY ThreadEq
  <2> QED BY <1>6, <2>1, <2>2 DEF Syscall
<1>7. ASSUME NEW p \in PCBs, do_other(p) \/ do_execve(p) \/ do_fork_fail(p) \/ finish_fork(p)
                                \/ do_wait_block(p) \/ do_wait(p) \/ do_wait_resume(p)
      PROVE  x \in runnable
  BY <1>7 DEF do_other, do_execve, do_fork_fail, finish_fork, do_wait_block, do_wait,
              do_wait_resume, Finish
<1>8. ASSUME NEW p \in PCBs, do_io_return(p) \/ do_io_block(p)
      PROVE  x \in runnable
  BY <1>0, <1>8 DEF do_io_return, do_io_block
<1>9. ASSUME NEW p \in PCBs, do_fork(p) PROVE x \in runnable
  BY <1>0, <1>9, ForkChanges
<1>10. ASSUME NEW p \in PCBs, do_exit_orphan(p) \/ do_exit_zombie(p) PROVE x \in runnable
  BY <1>0, <1>10, ExitChanges
<1> QED BY <1>1, <1>2, <1>3, <1>4, <1>5, <1>6, <1>7, <1>8, <1>9, <1>10
        DEF Next, Kernel, KernelThread, Exception, Interrupt, Stopped

(* Only the scheduler gives the CPU to a process.                          *)
LEMMA OnlySchedulerRuns ==
  ASSUME [Next]_vars, cpu' = "user"
  PROVE  scheduler_run \/ UNCHANGED <<cpu, curr>>
<1>1. CASE UNCHANGED vars
  BY <1>1 DEF vars, machine
<1>2. CASE Boot
  BY <1>2 DEF Boot
<1>3. CASE Scheduler
  BY <1>3 DEF Scheduler, scheduler_halt, scheduler_noop
<1>4. CASE Exception
  BY <1>4 DEF Exception, Fault, SyscallHalt, Syscall
<1>5. CASE Interrupt
  BY <1>5 DEF Interrupt, TimerInt, ConsoleInt
<1>6. ASSUME NEW p \in PCBs, KernelThread(p) PROVE UNCHANGED <<cpu, curr>>
  <2>1. do_execve(p) => UNCHANGED <<cpu, curr>>
    BY DEF do_execve
  <2>2. do_other(p) \/ do_io_return(p) \/ do_io_block(p) \/ do_fork(p) \/ do_fork_fail(p)
          \/ finish_fork(p) => UNCHANGED <<cpu, curr>>
    BY DEF do_other, do_io_return, do_io_block, do_fork, do_fork_fail, finish_fork, machine
  <2>3. do_exit_orphan(p) \/ do_exit_zombie(p) \/ do_wait_block(p) => UNCHANGED <<cpu, curr>>
    BY DEF do_exit_orphan, do_exit_zombie, do_wait_block, machine
  <2>4. do_wait(p) \/ do_wait_resume(p) => UNCHANGED <<cpu, curr>>
    BY DEF do_wait, do_wait_resume, Reap, machine
  <2> QED BY <1>6, <2>1, <2>2, <2>3, <2>4 DEF KernelThread
<1> QED BY <1>1, <1>2, <1>3, <1>4, <1>5, <1>6 DEF Next, Kernel, Stopped

(* After a step that moves no base, the base register is still right.      *)
LEMMA RegisterStep ==
  ASSUME IInv, MapInv, [Next]_vars, ~scheduler_run, User_Base' = User_Base,
         \A r \in PCBs : Alive(r) => base'[r] = base[r]
  PROVE  /\ cpu' = "user" => User_Base' = base'[curr']
         /\ \A r \in PCBs : Thread("execve", r) \in runnable' => User_Base' = base'[r]
<1>1. ASSUME cpu = "user" PROVE curr \in PCBs /\ Alive(curr) /\ User_Base = base[curr]
  BY <1>1 DEF IInv, MachineInv, OnePlace, Running, MapInv
<1>2. ASSUME cpu' = "user" PROVE User_Base' = base'[curr']
  BY <1>1, <1>2, OnlySchedulerRuns
<1>3. ASSUME NEW r \in PCBs, Thread("execve", r) \in runnable' PROVE User_Base' = base'[r]
  <2>1. CASE Thread("execve", r) \in runnable
    BY <2>1, ThreadAlive DEF MapInv
  <2>2. CASE cpu = "user" /\ r = curr
    BY <1>1, <2>2
  <2> QED BY <1>3, <2>1, <2>2, ExecveTraps
<1> QED BY <1>2, <1>3

(* PCB.base and the base register follow the chunks.                       *)
LEMMA MapStep ==
  ASSUME IInv, MemInv, [MemNext]_allvars PROVE MapInv'
<1> USE DEF MemInv
<1>0. [Next]_vars
  BY StepIsKosProc
<1>1. ASSUME Quiet, ~scheduler_run, UNCHANGED <<base, User_Base>> PROVE MapInv'
  BY <1>0, <1>1, QuietAlive, RegisterStep DEF MapInv, memory
<1>2. CASE UNCHANGED allvars
  <2>1. UNCHANGED MapInv
    BY <1>2 DEF allvars, memvars, vars, machine, ktvars, memory, family, MapInv, Alive
  <2> QED BY <2>1
<1>3. CASE initialize_user_process
  <2>1. PICK p \in heap' : base' = [base EXCEPT ![p] = User_Base]
    BY <1>3 DEF initialize_user_process
  <2>2. /\ p \in PCBs /\ Booting /\ memory_num'[p] = 0 /\ runnable' = {}
        /\ cpu' # "user" /\ \A r \in PCBs : Alive(r)' <=> r = p
    BY <1>3, <2>1, BootChanges DEF initialize_user_process
  <2>3. base'[p] = 0 * Limit
    BY <2>1, <2>2, LayoutFacts DEF Fresh, MemTypeOK
  <2> QED BY <2>2, <2>3 DEF MapInv
<1>4. CASE scheduler_mem
  <2>1. ASSUME scheduler_run, User_Base' = BaseFor(Head(readyq)), UNCHANGED base
        PROVE  MapInv'
    <3>1. Quiet
      BY <2>1 DEF Quiet, Scheduler
    <3>2. runnable' = {}
      BY <2>1 DEF scheduler_run, Idle, ktvars
    <3>3. User_Base' = base'[curr']
      BY <2>1 DEF scheduler_run, BaseFor
    <3> QED BY <2>1, <3>1, <3>2, <3>3, QuietAlive DEF MapInv, memory
  <2>2. ASSUME scheduler_noop \/ scheduler_halt, UNCHANGED memvars PROVE MapInv'
    <3>1. ~scheduler_run
      BY <2>2 DEF scheduler_noop, scheduler_halt, scheduler_run
    <3> QED BY <1>1, <2>2, <3>1 DEF Quiet, Scheduler, memvars
  <2> QED BY <1>4, <2>1, <2>2 DEF scheduler_mem
<1>5. CASE no_memory
  <2>1. Quiet
    BY <1>5 DEF no_memory, Stopped, Quiet
  <2>2. ~scheduler_run
    <3>1. CASE Exception \/ Interrupt \/ Stopped
      BY <3>1, OpNames DEF Exception, Fault, SyscallHalt, Syscall, Interrupt, TimerInt, ConsoleInt,
                  Stopped, scheduler_run, Idle
    <3>2. ASSUME NEW p \in PCBs, do_fork_fail(p) \/ finish_fork(p) \/ do_wait_block(p)
                                   \/ do_wait(p) \/ do_wait_resume(p)
          PROVE  ~scheduler_run
      BY <3>2 DEF do_fork_fail, finish_fork, do_wait_block, do_wait, do_wait_resume,
                  Runs, scheduler_run, Idle
    <3> QED BY <1>5, <3>1, <3>2 DEF no_memory
  <2> QED BY <1>1, <1>5, <2>1, <2>2 DEF no_memory, memvars
<1>6. ASSUME NEW a \in Offsets, NEW v \in Values, user_store(a, v) PROVE MapInv'
  BY <1>1, <1>6 DEF user_store, Quiet, scheduler_run, Idle
<1>7. ASSUME NEW p \in PCBs,
             execve_mem(p) \/ fill(p) \/ \E add \in Increments : do_sbrk(p, add)
      PROVE  MapInv'
  <2>1. Quiet /\ UNCHANGED <<base, User_Base>>
    BY <1>7 DEF execve_mem, fill, do_sbrk, Quiet
  <2>2. ~scheduler_run
    BY <1>7 DEF execve_mem, fill, do_sbrk, do_execve, do_other, do_io_return, do_io_block,
                Runs, scheduler_run, Idle
  <2> QED BY <1>1, <2>1, <2>2
<1>8. ASSUME NEW p \in PCBs, fork_mem(p) PROVE MapInv'
  <2>1. PICK c \in heap' \ heap : /\ base' = [base EXCEPT ![c] = ChunkStart(memory_num'[c])]
                                  /\ UNCHANGED User_Base
    BY <1>8 DEF fork_mem
  <2>2. /\ c \in PCBs /\ ~Alive(c) /\ \A r \in PCBs : Alive(r)' <=> Alive(r) \/ r = c
        /\ \A r \in PCBs : r # c => memory_num'[r] = memory_num[r]
    BY <1>8, <2>1, ForkChanges DEF fork_mem
  <2>3. /\ \A r \in PCBs : Alive(r) => base'[r] = base[r]
        /\ base'[c] = memory_num'[c] * Limit
    BY <2>1, <2>2 DEF ChunkStart, MemTypeOK
  <2>4. ~scheduler_run
    BY <1>8 DEF fork_mem, do_fork, Runs, scheduler_run, Idle
  <2>5. \A r \in PCBs : Alive(r)' => base'[r] = memory_num'[r] * Limit
    BY <2>2, <2>3 DEF MapInv
  <2> QED BY <1>0, <2>1, <2>3, <2>4, <2>5, RegisterStep DEF MapInv
<1>9. ASSUME NEW p \in PCBs, exit_mem(p) PROVE MapInv'
  <2>1. /\ \A r \in PCBs : Alive(r)' => Alive(r)
        /\ memory_num' = memory_num /\ UNCHANGED <<base, User_Base>>
    BY <1>9, ExitChanges DEF exit_mem
  <2>2. ~scheduler_run
    BY <1>9 DEF exit_mem, do_exit_orphan, do_exit_zombie, Runs, scheduler_run, Idle
  <2> QED BY <1>0, <2>1, <2>2, RegisterStep DEF MapInv
<1> QED BY <1>2, <1>3, <1>4, <1>5, <1>6, <1>7, <1>8, <1>9 DEF MemNext

(* Only the first kernel thread boots; the register is not set before.     *)
LEMMA FreshStep ==
  ASSUME IInv, MemInv, [MemNext]_allvars PROVE Fresh'
<1>1. [Next]_vars
  BY StepIsKosProc
<1>2. ASSUME Booting' PROVE Booting
  <2>1. CASE UNCHANGED vars
    BY <1>2, <2>1 DEF vars, ktvars, Booting
  <2>2. CASE Boot
    BY <1>2, <2>2, BootChanges DEF Booting
  <2>3. CASE Next /\ ~Boot /\ ~Stopped
    <3> DEFINE b == Thread("boot", InitProc)
    <3>1. b.op = "boot" /\ b.pcb = InitProc /\ b \in runnable'
      BY <1>2 DEF Thread, Booting
    <3>2. b \in Kt
      BY <2>3, <3>1, KtStep, ConstantFacts DEF Kt
    <3> QED BY <3>1, <3>2 DEF Kt, Booting, IInv, ThreadInv
  <2> QED BY <1>1, <2>1, <2>2, <2>3 DEF Stopped
<1>3. ASSUME User_Base' # User_Base PROVE ~(Booting')
  <2>1. scheduler_run
    BY <1>3 DEF MemNext, allvars, memvars, initialize_user_process, scheduler_mem, no_memory,
                user_store, execve_mem, fill, do_sbrk, fork_mem, exit_mem
  <2> QED BY <2>1 DEF scheduler_run, Idle, ktvars, Booting
<1> QED BY <1>2, <1>3 DEF MemInv, Fresh

(* KOS() starts with clean memory and every base at 0.                     *)
LEMMA MemInitInv == MemInit => MemInv
<1> SUFFICES ASSUME MemInit PROVE MemInv
  OBVIOUS
<1> USE LayoutFacts
<1>1. MemTypeOK
  <2>1. 0 \in Ints
    BY DEF Ints
  <2> QED BY <2>1 DEF MemInit, MemTypeOK
<1>2. MapInv
  <2>1. cpu = "kernel" /\ heap = {} /\ runnable = {Thread("boot", InitProc)}
    BY DEF MemInit, Init
  <2>2. \A p \in PCBs : ~Alive(p) /\ Thread("execve", p) \notin runnable
    BY <2>1, ThreadEq DEF Alive
  <2> QED BY <2>1, <2>2 DEF MapInv
<1> QED BY <1>1, <1>2 DEF MemInit, MemInv, Fresh

(* The map is inductive together with what KosProc keeps.                  *)
LEMMA MemInvariance == MemSpec => [](IInv /\ MemInv)
<1>1. IInv /\ MemInv /\ [MemNext]_allvars => MemInv'
  BY MemTypeStep, MapStep, FreshStep DEF MemInv
<1> QED BY <1>1, MemInitInv, ProcInvariance, PTL DEF MemSpec

(* Words stay words, bases stay addresses and breaks ints (memory.c,       *)
(* syscall.c), whatever is stored and through whichever base.              *)
THEOREM MemTypeCorrect == MemSpec => []MemTypeOK
<1>1. MemInv => MemTypeOK
  BY DEF MemInv
<1> QED BY <1>1, MemInvariance, PTL

(* Whenever user code or the loader of an execve goes through User_Base,   *)
(* it is the base of their process, which is where its chunk starts        *)
(* (scheduler.c, syscall.c).                                               *)
THEOREM MapHolds == MemSpec => []MapInv
<1>1. MemInv => MapInv
  BY DEF MemInv
<1> QED BY <1>1, MemInvariance, PTL

-----------------------------------------------------------------------------
(* Who owns a word.                                                        *)

(* A word of one chunk is no offset from the start of another.             *)
LEMMA Outside ==
  ASSUME NEW i \in Chunks, NEW j \in Chunks, i # j, NEW a \in Offsets,
         NEW x, x = i * Limit + a
  PROVE  x \in Addresses /\ x - j * Limit \notin Offsets
<1>0. x \in Addresses
  BY ChunkPlace
<1>1. i * Limit \in Nat /\ j * Limit \in Nat /\ a \in Nat
  BY LayoutFacts
<1>2. SUFFICES ASSUME x - j * Limit \in Offsets PROVE FALSE
  BY <1>0
<1> DEFINE b == x - j * Limit
<1>3. i * Limit + a = j * Limit + b
  BY <1>1
<1> HIDE DEF b
<1>4. b \in Offsets
  BY <1>2 DEF b
<1> QED BY <1>3, <1>4, ChunksApart

(* Two live processes have no word in common.                              *)
LEMMA Apart ==
  ASSUME IInv, MemInv, NEW p \in PCBs, NEW r \in PCBs, Alive(p), Alive(r), p # r,
         NEW a \in Offsets, NEW x, x = base[r] + a
  PROVE  x \in Addresses /\ x - base[p] \notin Offsets
<1>1. memory_num[p] # memory_num[r]
  BY DEF IInv, ChunkInv
<1>2. /\ base[r] = memory_num[r] * Limit /\ memory_num[r] \in Chunks
      /\ base[p] = memory_num[p] * Limit /\ memory_num[p] \in Chunks
  BY InChunk
<1>3. x \in Addresses /\ x - memory_num[p] * Limit \notin Offsets
  BY <1>1, <1>2, Outside
<1> QED BY <1>2, <1>3

(* No word of a free chunk belongs to a live process.                      *)
LEMMA FreeApart ==
  ASSUME IInv, MemInv, NEW p \in PCBs, Alive(p), NEW i \in Chunks, memory_chunk[i] = 0,
         NEW a \in Offsets, NEW x, x = i * Limit + a
  PROVE  x \in Addresses /\ x - base[p] \notin Offsets
<1>1. memory_num[p] # i
  BY InChunk
<1> QED BY <1>1, InChunk, Outside

(* What perform_execve stores: the program from where User_Base points,    *)
(* the argument at the top, and nothing outside the chunk.                 *)
LEMMA LoadWords ==
  ASSUME MemTypeOK, NEW p, NEW prog \in Programs, NEW arg,
         perform_execve(p, User_Base, prog, arg)
  PROVE  /\ \A x \in Addresses : x - User_Base \notin Offsets => main_memory'[x] = main_memory[x]
         /\ \A a \in Offsets : User_Base + a \in Addresses =>
              main_memory'[User_Base + a] =
                IF a < Len(prog) THEN prog[a + 1]
                ELSE IF a = Limit - 1 THEN arg ELSE main_memory[User_Base + a]
<1> USE LayoutFacts
<1>1. Len(prog) \in Nat /\ Len(prog) < Limit /\ User_Base \in Nat
  BY KosMemAssumption DEF MemTypeOK
<1>2. ASSUME NEW x \in Addresses, x - User_Base \notin Offsets
      PROVE  main_memory'[x] = main_memory[x]
  <2>1. x - User_Base \notin 0 .. (Len(prog) - 1)
    BY <1>1, <1>2 DEF Offsets
  <2>2. x # User_Base + Limit - 1
    <3>1. x \in Nat /\ (x = User_Base + Limit - 1 => x - User_Base = Limit - 1)
      BY <1>1
    <3> QED BY <1>2, <3>1
  <2> QED BY <2>1, <2>2 DEF perform_execve
<1>3. ASSUME NEW a \in Offsets, User_Base + a \in Addresses
      PROVE  main_memory'[User_Base + a] =
               IF a < Len(prog) THEN prog[a + 1]
               ELSE IF a = Limit - 1 THEN arg ELSE main_memory[User_Base + a]
  <2> DEFINE x == User_Base + a
  <2>1. a \in Nat /\ x - User_Base = a
    BY <1>1
  <2>2. main_memory'[x] =
          IF x = User_Base + Limit - 1 THEN arg
          ELSE IF x - User_Base \in 0 .. (Len(prog) - 1) THEN prog[x - User_Base + 1]
          ELSE main_memory[x]
    BY <1>3 DEF perform_execve
  <2>3. x = User_Base + Limit - 1 <=> a = Limit - 1
    BY <1>1, <2>1
  <2>4. x - User_Base \in 0 .. (Len(prog) - 1) <=> a < Len(prog)
    BY <1>1, <2>1
  <2> QED BY <1>1, <2>1, <2>2, <2>3, <2>4
<1> QED BY <1>2, <1>3

-----------------------------------------------------------------------------
(* Free chunks hold zeros.                                                 *)

(* No store reaches a chunk that is free.                                  *)
LEMMA CleanStep ==
  ASSUME IInv, MemInv, CleanInv, [MemNext]_allvars PROVE CleanInv'
<1> USE LayoutFacts
<1>0. MemTypeOK
  BY DEF MemInv
<1>1. ASSUME UNCHANGED <<memory, main_memory>> PROVE CleanInv'
  BY <1>1 DEF CleanInv, memory
<1>2. CASE UNCHANGED allvars
  BY <1>1, <1>2 DEF allvars, vars, memvars
<1>3. ASSUME NEW p \in PCBs, Alive(p), UNCHANGED memory,
             \A x \in Addresses : x - base[p] \notin Offsets => main_memory'[x] = main_memory[x]
      PROVE  CleanInv'
  <2> SUFFICES ASSUME NEW i \in Chunks, memory_chunk[i] = 0, NEW a \in Offsets,
                      NEW x, x = i * Limit + a
               PROVE  main_memory'[x] = 0
    BY <1>3 DEF CleanInv, memory
  <2>1. x \in Addresses /\ x - base[p] \notin Offsets
    BY <1>3, FreeApart
  <2>2. main_memory[x] = 0
    BY DEF CleanInv
  <2> QED BY <1>3, <2>1, <2>2
<1>4. CASE initialize_user_process
  <2>1. User_Base = 0
    BY <1>4, BootChanges DEF initialize_user_process, MemInv, Fresh
  <2>2. \A x \in Addresses : x - User_Base \notin Offsets => main_memory'[x] = main_memory[x]
    BY <1>0, <1>4, LoadWords DEF initialize_user_process
  <2> SUFFICES ASSUME NEW i \in Chunks, memory_chunk'[i] = 0, NEW a \in Offsets,
                      NEW x, x = i * Limit + a
               PROVE  main_memory'[x] = 0
    BY DEF CleanInv
  <2>3. i # 0 /\ memory_chunk[i] = 0
    BY <1>4, BootChanges DEF initialize_user_process
  <2>4. x - 0 * Limit \notin Offsets
    BY <2>3, Outside, ConstantFacts
  <2>5. x \in Addresses
    BY ChunkPlace
  <2>6. User_Base = 0 * Limit
    BY <2>1
  <2>7. main_memory[x] = 0
    BY <2>3 DEF CleanInv
  <2> QED BY <2>2, <2>4, <2>5, <2>6, <2>7
<1>5. CASE scheduler_mem
  BY <1>1, <1>5 DEF scheduler_mem, scheduler_run, scheduler_noop, scheduler_halt, memvars
<1>6. CASE no_memory
  <2>1. Quiet
    BY <1>6 DEF no_memory, Stopped, Quiet
  <2> QED BY <1>1, <1>6, <2>1, QuietAlive DEF no_memory, memvars
<1>7. ASSUME NEW a \in Offsets, NEW v \in Values, user_store(a, v) PROVE CleanInv'
  <2>1. curr \in PCBs /\ Alive(curr) /\ User_Base = base[curr]
    BY <1>7 DEF user_store, IInv, MachineInv, OnePlace, Running, MemInv, MapInv
  <2>2. UNCHANGED memory
    BY <1>7 DEF user_store, vars
  <2>3. \A x \in Addresses : x - base[curr] \notin Offsets => x # base[curr] + a
    BY <1>0, <2>1 DEF MemTypeOK
  <2>4. \A x \in Addresses : x - base[curr] \notin Offsets => main_memory'[x] = main_memory[x]
    BY <1>0, <1>7, <2>1, <2>3 DEF user_store, MemTypeOK
  <2> QED BY <1>3, <2>1, <2>2, <2>4
<1>8. ASSUME NEW p \in PCBs, execve_mem(p) PROVE CleanInv'
  <2>1. Alive(p) /\ UNCHANGED memory /\ User_Base = base[p]
    BY <1>8, RunsAlive DEF execve_mem, do_execve, Runs, MemInv, MapInv
  <2>2. \A x \in Addresses : x - base[p] \notin Offsets => main_memory'[x] = main_memory[x]
    BY <1>0, <1>8, <2>1, LoadWords DEF execve_mem
  <2> QED BY <1>3, <2>1, <2>2
<1>9. ASSUME NEW p \in PCBs, fill(p) PROVE CleanInv'
  <2>1. Alive(p) /\ UNCHANGED memory
    BY <1>9, RunsAlive DEF fill, do_other, do_io_return, do_io_block
  <2>2. \A x \in Addresses, a \in Offsets : x - base[p] \notin Offsets => x # base[p] + a
    <3>1. base[p] \in Nat
      BY <1>0 DEF MemTypeOK
    <3> QED BY <3>1
  <2>3. \A x \in Addresses : x - base[p] \notin Offsets => main_memory'[x] = main_memory[x]
    BY <1>0, <1>9, <2>2 DEF fill, MemTypeOK
  <2> QED BY <1>3, <2>1, <2>3
<1>10. ASSUME NEW p \in PCBs, NEW add \in Increments, do_sbrk(p, add) PROVE CleanInv'
  BY <1>1, <1>10 DEF do_sbrk, do_other
<1>11. ASSUME NEW p \in PCBs, fork_mem(p) PROVE CleanInv'
  <2>1. PICK c \in heap' \ heap : /\ base' = [base EXCEPT ![c] = ChunkStart(memory_num'[c])]
                                  /\ main_memory' = Placed(base'[c], Image(p))
    BY <1>11 DEF fork_mem
  <2>2. PICK k \in Chunks : /\ c \in PCBs /\ memory_num'[c] = k
                            /\ \A j \in Chunks : memory_chunk'[j] = IF j = k THEN 1 ELSE memory_chunk[j]
    BY <1>11, <2>1, ForkChanges DEF fork_mem
  <2>3. base'[c] = k * Limit
    BY <1>0, <2>1, <2>2 DEF ChunkStart, MemTypeOK
  <2> SUFFICES ASSUME NEW i \in Chunks, memory_chunk'[i] = 0, NEW a \in Offsets,
                      NEW x, x = i * Limit + a
               PROVE  main_memory'[x] = 0
    BY DEF CleanInv
  <2>4. i # k /\ memory_chunk[i] = 0
    BY <2>2
  <2>5. x - base'[c] \notin Offsets /\ x \in Addresses
    BY <2>3, <2>4, Outside
  <2>6. main_memory[x] = 0
    BY <2>4 DEF CleanInv
  <2> QED BY <2>1, <2>5, <2>6 DEF Placed
<1>12. ASSUME NEW p \in PCBs, exit_mem(p) PROVE CleanInv'
  <2>1. /\ Alive(p)
        /\ \A j \in Chunks : memory_chunk'[j] = IF j = memory_num[p] THEN 0 ELSE memory_chunk[j]
    BY <1>12, ExitChanges DEF exit_mem
  <2> SUFFICES ASSUME NEW i \in Chunks, memory_chunk'[i] = 0, NEW a \in Offsets,
                      NEW x, x = i * Limit + a
               PROVE  main_memory'[x] = 0
    BY DEF CleanInv
  <2>2. x \in Addresses
    BY ChunkPlace
  <2>3. CASE i = memory_num[p]
    <3>1. base[p] = i * Limit /\ i * Limit \in Nat /\ a \in Nat
      BY <2>1, <2>3, InChunk
    <3>2. x - base[p] = a
      BY <3>1
    <3>3. x \in Cleared(p)
      BY <2>2, <3>2 DEF Cleared
    <3> QED BY <1>12, <2>2, <3>3 DEF exit_mem
  <2>4. CASE i # memory_num[p]
    <3>1. main_memory[x] = 0
      BY <2>1, <2>4 DEF CleanInv
    <3> QED BY <1>12, <2>2, <3>1 DEF exit_mem
  <2> QED BY <2>3, <2>4
<1> QED BY <1>2, <1>4, <1>5, <1>6, <1>7, <1>8, <1>9, <1>10, <1>11, <1>12 DEF MemNext

(* What a process leaves in its chunk is gone before another gets it       *)
(* (do_exit's bzero, syscall.c).                                           *)
THEOREM CleanHolds == MemSpec => []CleanInv
<1>1. MemInit => CleanInv
  BY ChunkPlace DEF MemInit, CleanInv
<1>2. IInv /\ MemInv /\ CleanInv /\ [MemNext]_allvars => CleanInv'
  BY CleanStep
<1> QED BY <1>1, <1>2, MemInvariance, PTL DEF MemSpec

-----------------------------------------------------------------------------
(* The break.                                                              *)

(* Nothing happens after the simulator's exit(1).                          *)
LEMMA ExitedStays ==
  ASSUME [Next]_vars, cpu = "exited" PROVE cpu' = "exited"
<1>1. CASE UNCHANGED vars
  BY <1>1 DEF vars, machine
<1>2. ~Boot /\ ~Scheduler
  BY DEF Boot, Runs, Scheduler, scheduler_halt, scheduler_noop, scheduler_run, Idle
<1>3. ~Exception /\ ~Interrupt
  BY DEF Exception, Fault, SyscallHalt, Syscall, Interrupt, TimerInt, ConsoleInt
<1>4. ASSUME NEW p \in PCBs PROVE ~KernelThread(p)
  <2>1. ~do_other(p) /\ ~do_execve(p) /\ ~do_io_return(p) /\ ~do_io_block(p)
    BY DEF do_other, do_execve, do_io_return, do_io_block, Runs
  <2>2. ~do_fork(p) /\ ~do_fork_fail(p) /\ ~finish_fork(p)
    BY DEF do_fork, do_fork_fail, finish_fork, Runs
  <2>3. ~do_exit_orphan(p) /\ ~do_exit_zombie(p)
    BY DEF do_exit_orphan, do_exit_zombie, Runs
  <2>4. ~do_wait_block(p) /\ ~do_wait(p) /\ ~do_wait_resume(p)
    BY DEF do_wait_block, do_wait, do_wait_resume, Runs
  <2> QED BY <2>1, <2>2, <2>3, <2>4 DEF KernelThread
<1> QED BY <1>1, <1>2, <1>3, <1>4 DEF Next, Kernel, Stopped

(* perform_execve puts the break of p at the end of a program.             *)
Loads(p) ==
  \E prog \in Programs :
    /\ sbrk_ptr' = [sbrk_ptr EXCEPT ![p] = Len(prog)]
    /\ size' = [size EXCEPT ![p] = Len(prog)]

(* Only boot, execve, sbrk and fork touch a break, and each leaves it      *)
(* between the program and the end of the chunk.                           *)
LEMMA BreakStep ==
  ASSUME IInv, MemInv, BreakInv, [MemNext]_allvars PROVE BreakInv'
<1>0. MemTypeOK
  BY DEF MemInv
<1>e. cpu = "exited" => cpu' = "exited"
  BY StepIsKosProc, ExitedStays
<1>1. ASSUME UNCHANGED breaks, \A r \in PCBs : Alive(r)' => Alive(r)
      PROVE  BreakInv'
  BY <1>1, <1>e DEF BreakInv, breaks
<1>2. CASE UNCHANGED allvars
  <2>1. \A r \in PCBs : Alive(r)' => Alive(r)
    BY <1>2, QuietAlive DEF Quiet, allvars
  <2> QED BY <1>1, <1>2, <2>1 DEF allvars, memvars
<1>3. ASSUME NEW p \in PCBs, cpu' # "exited" => Loads(p),
             shrunk' = shrunk,
             \A r \in PCBs : Alive(r)' => Alive(r) \/ r = p
      PROVE  BreakInv'
  <2> SUFFICES ASSUME ~shrunk', NEW r \in PCBs, Alive(r)', cpu' # "exited"
               PROVE  sbrk_ptr'[r] \in size'[r] .. Limit
    BY DEF BreakInv
  <2>1. PICK prog \in Programs : /\ sbrk_ptr' = [sbrk_ptr EXCEPT ![p] = Len(prog)]
                                 /\ size' = [size EXCEPT ![p] = Len(prog)]
    BY <1>3 DEF Loads
  <2>2. CASE r = p
    <3>1. Len(prog) \in Nat /\ Len(prog) < Limit /\ Limit \in Nat
      BY KosMemAssumption
    <3> QED BY <1>0, <2>1, <2>2, <3>1 DEF MemTypeOK
  <2>3. CASE r # p
    <3>1. sbrk_ptr'[r] = sbrk_ptr[r] /\ size'[r] = size[r]
      BY <1>0, <2>1, <2>3 DEF MemTypeOK
    <3> QED BY <1>3, <1>e, <2>3, <3>1 DEF BreakInv
  <2> QED BY <2>2, <2>3
<1>4. CASE initialize_user_process
  <2>1. PICK p \in heap' :
          \/ cpu' # "exited" /\ \E prog \in Programs, arg \in Values : perform_execve(p, User_Base, prog, arg)
          \/ cpu' = "exited"
    BY <1>4 DEF initialize_user_process
  <2>2. /\ p \in PCBs /\ \A r \in PCBs : Alive(r)' => r = p
        /\ shrunk' = shrunk
    BY <1>4, BootChanges DEF initialize_user_process
  <2>3. cpu' # "exited" => Loads(p)
    BY <2>1 DEF perform_execve, Loads
  <2> QED BY <1>3, <2>2, <2>3
<1>5. CASE scheduler_mem
  BY <1>1, <1>5, QuietAlive DEF scheduler_mem, Quiet, Scheduler, memvars
<1>6. CASE no_memory
  <2>1. Quiet
    BY <1>6 DEF no_memory, Stopped, Quiet
  <2> QED BY <1>1, <1>6, <2>1, QuietAlive DEF no_memory, memvars
<1>7. ASSUME NEW a \in Offsets, NEW v \in Values, user_store(a, v) PROVE BreakInv'
  BY <1>1, <1>7, QuietAlive DEF user_store, Quiet
<1>8. ASSUME NEW p \in PCBs, execve_mem(p) PROVE BreakInv'
  <2>1. shrunk' = shrunk
    BY <1>8 DEF execve_mem
  <2>3. cpu' # "exited" => Loads(p)
    BY <1>8 DEF execve_mem, perform_execve, Loads
  <2>4. \A r \in PCBs : Alive(r)' => Alive(r)
    BY <1>8, QuietAlive DEF execve_mem, Quiet
  <2> QED BY <1>3, <2>1, <2>3, <2>4
<1>9. ASSUME NEW p \in PCBs, fill(p) PROVE BreakInv'
  BY <1>1, <1>9, QuietAlive DEF fill, Quiet
<1>10. ASSUME NEW p \in PCBs, NEW add \in Increments, do_sbrk(p, add) PROVE BreakInv'
  <2>1. Quiet /\ Alive(p) /\ cpu = "kernel"
    BY <1>10, RunsAlive DEF do_sbrk, do_other, Quiet
  <2>2. \A r \in PCBs : Alive(r)' => Alive(r)
    BY <2>1, QuietAlive
  <2>3. CASE UNCHANGED <<sbrk_ptr, shrunk>>
    BY <1>1, <1>10, <2>2, <2>3 DEF do_sbrk, breaks
  <2>4. CASE /\ ~TooMuch(p, add)
             /\ sbrk_ptr' = [sbrk_ptr EXCEPT ![p] = Wrap(@ + add)]
             /\ shrunk' = (shrunk \/ sbrk_ptr'[p] < sbrk_ptr[p])
    <3> SUFFICES ASSUME ~shrunk', NEW r \in PCBs, Alive(r)'
                 PROVE  sbrk_ptr'[r] \in size'[r] .. Limit
      BY DEF BreakInv
    <3>1. ~shrunk /\ ~(sbrk_ptr'[p] < sbrk_ptr[p]) /\ size' = size
      BY <1>10, <2>4 DEF do_sbrk
    <3>2. \A q \in PCBs : Alive(q) => sbrk_ptr[q] \in size[q] .. Limit
      BY <2>1, <3>1 DEF BreakInv
    <3>3. CASE r # p
      BY <1>0, <2>2, <2>4, <3>1, <3>2, <3>3 DEF MemTypeOK
    <3>4. CASE r = p
      <4>1. sbrk_ptr'[p] = Wrap(sbrk_ptr[p] + add)
        BY <1>0, <2>4 DEF MemTypeOK
      <4>2. Wrap(sbrk_ptr[p] + add) \in Int
        <5>1. sbrk_ptr[p] + add \in Int
          BY <1>0, KosMemAssumption DEF MemTypeOK, Ints
        <5> QED BY <5>1, WrapType DEF Ints
      <4>3. sbrk_ptr'[p] <= Limit
        BY <2>4, <4>1, <4>2, LayoutFacts DEF TooMuch
      <4>4. sbrk_ptr[p] \in size[p] .. Limit
        BY <2>1, <3>2
      <4>5. sbrk_ptr[p] \in Int /\ sbrk_ptr'[p] \in Int /\ size[p] \in Int /\ Limit \in Int
        BY <1>0, <4>1, <4>2, LayoutFacts DEF MemTypeOK, Ints
      <4>6. sbrk_ptr'[p] >= size[p]
        BY <3>1, <4>4, <4>5
      <4> QED BY <3>1, <3>4, <4>3, <4>5, <4>6
    <3> QED BY <3>3, <3>4
  <2> QED BY <1>10, <2>3, <2>4 DEF do_sbrk
<1>11. ASSUME NEW p \in PCBs, fork_mem(p) PROVE BreakInv'
  <2>1. PICK c \in heap' \ heap : /\ sbrk_ptr' = [sbrk_ptr EXCEPT ![c] = sbrk_ptr[p]]
                                  /\ size' = [size EXCEPT ![c] = size[p]]
                                  /\ shrunk' = shrunk
    BY <1>11 DEF fork_mem
  <2>2. /\ c \in PCBs /\ Alive(p) /\ c # p
        /\ \A r \in PCBs : Alive(r)' <=> Alive(r) \/ r = c
    BY <1>11, <2>1, ForkChanges DEF fork_mem
  <2> SUFFICES ASSUME ~shrunk', NEW r \in PCBs, Alive(r)', cpu' # "exited"
               PROVE  sbrk_ptr'[r] \in size'[r] .. Limit
    BY DEF BreakInv
  <2>3. \A q \in PCBs : Alive(q) => sbrk_ptr[q] \in size[q] .. Limit
    BY <1>e, <2>1 DEF BreakInv
  <2>4. CASE r = c
    BY <1>0, <2>1, <2>2, <2>3, <2>4 DEF MemTypeOK
  <2>5. CASE r # c
    BY <1>0, <2>1, <2>2, <2>3, <2>5 DEF MemTypeOK
  <2> QED BY <2>4, <2>5
<1>12. ASSUME NEW p \in PCBs, exit_mem(p) PROVE BreakInv'
  BY <1>1, <1>12, ExitChanges DEF exit_mem
<1> QED BY <1>2, <1>4, <1>5, <1>6, <1>7, <1>8, <1>9, <1>10, <1>11, <1>12 DEF MemNext

(* The break stays in the chunk, above the program, as long as no sbrk     *)
(* shrinks it or overflows (do_sbrk, perform_execve, do_fork).             *)
THEOREM BreakHolds == MemSpec => []BreakInv
<1>1. MemInit => BreakInv
  BY DEF MemInit, Init, BreakInv, Alive
<1>2. IInv /\ MemInv /\ BreakInv /\ [MemNext]_allvars => BreakInv'
  BY BreakStep
<1> QED BY <1>1, <1>2, MemInvariance, PTL DEF MemSpec

-----------------------------------------------------------------------------
(* The refinement: what the bytes of each live process go through.         *)

LiveSet == {q \in PCBs : Alive(q)}
Memories == [p \in LiveSet |-> Image(p)]
Word(p, a) == main_memory[base[p] + a]

(* The memories are those of the live processes, word by word.             *)
LEMMA MemoryWords ==
  /\ DOMAIN Memories = LiveSet
  /\ \A p \in LiveSet : DOMAIN Memories[p] = Offsets
  /\ \A p \in LiveSet : Memories[p] = [a \in Offsets |-> Word(p, a)]
BY DEF Memories, Image, Word

(* When no live process's words change and none comes or goes, neither     *)
(* do their memories.                                                      *)
LEMMA SameMemories ==
  ASSUME \A p \in PCBs : Alive(p)' <=> Alive(p),
         \A p \in PCBs : Alive(p) => \A a \in Offsets : Word(p, a)' = Word(p, a)
  PROVE  Memories' = Memories
<1>1. LiveSet' = LiveSet
  BY DEF LiveSet
<1>2. \A p \in LiveSet : Image(p)' = Image(p)
  BY DEF LiveSet, Image, Word
<1> QED BY <1>1, <1>2 DEF Memories

(* One store into the memory of p is one write of p.                       *)
LEMMA OneStore ==
  ASSUME IInv, MemInv, NEW p \in PCBs, Alive(p), NEW a \in Offsets, NEW v,
         \A q \in PCBs : Alive(q)' <=> Alive(q), base' = base,
         main_memory' = [main_memory EXCEPT ![base[p] + a] = v]
  PROVE  Memories' = [Memories EXCEPT ![p][a] = v]
<1>0. LiveSet' = LiveSet /\ p \in LiveSet
  BY DEF LiveSet
<1>1. main_memory \in [Addresses -> Values]
  BY DEF MemInv, MemTypeOK
<1>2. \A b \in Offsets : base[p] + b = base[p] + a => b = a
  <2>1. base[p] \in Nat /\ Offsets \subseteq Nat
    BY InChunk, LayoutFacts
  <2> QED BY <2>1
<1>3. \A b \in Offsets : Word(p, b)' = IF b = a THEN v ELSE Word(p, b)
  BY <1>1, <1>2, InChunk DEF Word
<1>4. ASSUME NEW q \in LiveSet, q # p, NEW b \in Offsets PROVE Word(q, b)' = Word(q, b)
  <2> SUFFICES ASSUME NEW x, x = base[q] + b PROVE main_memory'[x] = main_memory[x]
    BY DEF Word
  <2>1. x \in Addresses /\ x - base[p] \notin Offsets
    BY <1>4, Apart DEF LiveSet
  <2>2. base[p] \in Nat /\ a \in Nat
    BY InChunk, LayoutFacts
  <2>3. x # base[p] + a
    BY <2>1, <2>2
  <2> QED BY <1>1, <2>1, <2>3
<1>5. Memories'[p] = [Memories[p] EXCEPT ![a] = v]
  BY <1>0, <1>3 DEF Memories, Image, Word
<1>6. \A q \in LiveSet : q # p => Memories'[q] = Memories[q]
  BY <1>0, <1>4 DEF Memories, Image, Word
<1> QED BY <1>0, <1>5, <1>6 DEF Memories

(* A step that stores one word in the memory of p, or none, is a write of  *)
(* p or nothing, as the abstract specification sees it.                    *)
LEMMA StoreStep ==
  ASSUME IInv, MemInv, NEW p \in PCBs, Alive(p),
         \A q \in PCBs : Alive(q)' <=> Alive(q), base' = base,
         \/ UNCHANGED main_memory
         \/ \E a \in Offsets, v \in Values : main_memory' = [main_memory EXCEPT ![base[p] + a] = v]
  PROVE  [PM!Next]_Memories
<1>1. CASE UNCHANGED main_memory
  BY <1>1, SameMemories DEF Word
<1>2. ASSUME NEW a \in Offsets, NEW v \in Values,
             main_memory' = [main_memory EXCEPT ![base[p] + a] = v]
      PROVE  PM!Next
  <2>1. Memories' = [Memories EXCEPT ![p][a] = v]
    BY <1>2, OneStore
  <2>2. PM!Write(p, a, v) /\ p \in PM!Live
    BY <2>1 DEF PM!Write, PM!Live, Memories, LiveSet
  <2> QED BY <2>2 DEF PM!Next
<1> QED BY <1>1, <1>2

(* The abstract top of a memory is the highest offset.                     *)
LEMMA TopWord == PM!Top = Limit - 1
<1>1. Limit - 1 \in Offsets /\ \A b \in Offsets : b <= Limit - 1 /\ b \in Int
  BY LayoutFacts DEF Offsets
<1>2. PM!Top \in Offsets /\ \A b \in Offsets : b <= PM!Top
  BY <1>1 DEF PM!Top
<1> QED BY <1>1, <1>2

(* execve, whose program is loaded wherever User_Base points, changes the  *)
(* caller's memory and no other.                                           *)
LEMMA ExecStep ==
  ASSUME IInv, MemInv, NEW p \in PCBs, execve_mem(p)
  PROVE  [PM!Next]_Memories
<1>1. Alive(p) /\ User_Base = base[p] /\ base' = base
  BY RunsAlive DEF execve_mem, do_execve, Runs, MemInv, MapInv
<1>2. \A q \in PCBs : Alive(q)' <=> Alive(q)
  BY QuietAlive DEF execve_mem, Quiet
<1>3. CASE UNCHANGED main_memory
  BY <1>1, <1>2, <1>3, SameMemories DEF Word
<1>4. ASSUME NEW prog \in Programs, NEW o \in Offsets,
             perform_execve(p, base[p], prog, Argument(p, prog, o))
      PROVE  PM!Next
  <2>0. LiveSet' = LiveSet /\ p \in LiveSet
    BY <1>1, <1>2 DEF LiveSet
  <2>1. perform_execve(p, User_Base, prog, Word(p, o))
    BY <1>1, <1>4 DEF Argument, Word, perform_execve
  <2>2. /\ \A x \in Addresses : x - base[p] \notin Offsets => main_memory'[x] = main_memory[x]
        /\ \A a \in Offsets : base[p] + a \in Addresses =>
             main_memory'[base[p] + a] =
               IF a < Len(prog) THEN prog[a + 1]
               ELSE IF a = Limit - 1 THEN Word(p, o) ELSE main_memory[base[p] + a]
    BY <1>1, <2>1, LoadWords DEF MemInv
  <2>3. ASSUME NEW q \in LiveSet, q # p, NEW b \in Offsets PROVE Word(q, b)' = Word(q, b)
    <3> SUFFICES ASSUME NEW x, x = base[q] + b PROVE main_memory'[x] = main_memory[x]
      BY <1>1 DEF Word
    <3>1. x \in Addresses /\ x - base[p] \notin Offsets
      BY <1>1, <2>3, Apart DEF LiveSet
    <3> QED BY <2>2, <3>1
  <2>4. \A a \in Offsets :
          Word(p, a)' = IF a < Len(prog) THEN prog[a + 1]
                        ELSE IF a = PM!Top THEN Word(p, o) ELSE Word(p, a)
    BY <1>1, <2>2, TopWord, InChunk DEF Word
  <2>5. Memories'[p] = PM!Loaded(Memories[p], prog, Memories[p][o])
    <3>1. Memories[p] = [a \in Offsets |-> Word(p, a)]
      BY <2>0, MemoryWords
    <3>2. Memories'[p] = [a \in Offsets |-> Word(p, a)']
      BY <2>0 DEF Memories, Image, Word
    <3> QED BY <2>4, <3>1, <3>2 DEF PM!Loaded
  <2>6. \A q \in LiveSet : q # p => Memories'[q] = Memories[q]
    BY <2>0, <2>3 DEF Memories, Image, Word
  <2>7. Memories' = [Memories EXCEPT ![p] = PM!Loaded(@, prog, @[o])]
    BY <2>0, <2>5, <2>6 DEF Memories
  <2>8. PM!Exec(p, prog, o) /\ p \in PM!Live
    BY <2>0, <2>7 DEF PM!Exec, PM!Live, Memories, LiveSet
  <2> QED BY <2>8 DEF PM!Next
<1> QED BY <1>3, <1>4 DEF execve_mem

(* The child of fork gets what its parent has, in a chunk of its own.      *)
LEMMA ForkStep ==
  ASSUME IInv, MemInv, NEW p \in PCBs, fork_mem(p)
  PROVE  PM!Next
<1>0. MemTypeOK
  BY DEF MemInv
<1>1. PICK c \in heap' \ heap : /\ base' = [base EXCEPT ![c] = ChunkStart(memory_num'[c])]
                                /\ main_memory' = Placed(base'[c], Image(p))
  BY DEF fork_mem
<1>2. PICK k \in Chunks : /\ c \in PCBs /\ Alive(p) /\ ~Alive(c) /\ memory_chunk[k] = 0
                          /\ memory_num'[c] = k
                          /\ \A r \in PCBs : Alive(r)' <=> Alive(r) \/ r = c
  BY <1>1, ForkChanges DEF fork_mem
<1>3. /\ base'[c] = k * Limit /\ \A q \in PCBs : q # c => base'[q] = base[q]
      /\ LiveSet' = LiveSet \cup {c} /\ c \notin LiveSet /\ p \in LiveSet
  BY <1>0, <1>1, <1>2 DEF ChunkStart, MemTypeOK, LiveSet
<1>4. ASSUME NEW q \in LiveSet, NEW b \in Offsets PROVE Word(q, b)' = Word(q, b)
  <2>1. base'[q] = base[q] /\ base[q] = memory_num[q] * Limit
    BY <1>3, InChunk DEF LiveSet
  <2>2. memory_num[q] \in Chunks /\ memory_num[q] # k
    BY <1>2, InChunk DEF LiveSet
  <2> SUFFICES ASSUME NEW x, x = memory_num[q] * Limit + b
               PROVE  main_memory'[x] = main_memory[x]
    BY <2>1 DEF Word
  <2>3. x \in Addresses /\ x - base'[c] \notin Offsets
    BY <1>3, <2>2, Outside
  <2> QED BY <1>1, <2>3 DEF Placed
<1>5. ASSUME NEW b \in Offsets PROVE Word(c, b)' = Image(p)[b]
  <2> SUFFICES ASSUME NEW x, x = k * Limit + b PROVE main_memory'[x] = Image(p)[b]
    BY <1>3 DEF Word
  <2>1. x \in Addresses
    BY ChunkPlace
  <2>2. k * Limit \in Nat /\ b \in Nat
    BY LayoutFacts
  <2>3. x - k * Limit = b
    BY <2>2
  <2> QED BY <1>1, <1>3, <2>1, <2>3 DEF Placed
<1>6. \A q \in LiveSet : Memories'[q] = Memories[q]
  BY <1>3, <1>4 DEF Memories, Image, Word
<1>7. Memories'[c] = Memories[p]
  BY <1>3, <1>5 DEF Memories, Image, Word
<1>8. Memories' = [q \in LiveSet \cup {c} |-> IF q = c THEN Memories[p] ELSE Memories[q]]
  BY <1>3, <1>6, <1>7 DEF Memories
<1>9. PM!Fork(p, c) /\ p \in PM!Live
  BY <1>3, <1>8 DEF PM!Fork, PM!Hands, PM!Live, Memories, LiveSet
<1> QED BY <1>2, <1>9 DEF PM!Next

(* exit ends one memory and leaves the others.                             *)
LEMMA ExitStep ==
  ASSUME IInv, MemInv, NEW p \in PCBs, exit_mem(p)
  PROVE  PM!Next
<1>1. Alive(p) /\ \A q \in PCBs : Alive(q)' <=> Alive(q) /\ q # p
  BY ExitChanges DEF exit_mem
<1>2. LiveSet' = LiveSet \ {p} /\ p \in LiveSet
  BY <1>1 DEF LiveSet
<1>3. ASSUME NEW q \in LiveSet, q # p, NEW b \in Offsets PROVE Word(q, b)' = Word(q, b)
  <2> SUFFICES ASSUME NEW x, x = base[q] + b PROVE main_memory'[x] = main_memory[x]
    BY DEF Word, exit_mem
  <2>1. x \in Addresses /\ x - base[p] \notin Offsets
    BY <1>1, <1>3, Apart DEF LiveSet
  <2> QED BY <2>1 DEF exit_mem, Cleared
<1>4. \A q \in LiveSet : q # p => Memories'[q] = Memories[q]
  BY <1>2, <1>3 DEF Memories, Image, Word
<1>5. Memories' = [q \in LiveSet \ {p} |-> Memories[q]]
  BY <1>2, <1>4 DEF Memories
<1>6. PM!Exit(p) /\ p \in PM!Live
  BY <1>2, <1>5 DEF PM!Exit, PM!Live, Memories, LiveSet
<1> QED BY <1>6 DEF PM!Next

(* The first process gets a memory when there is no other.                 *)
LEMMA BootMemory ==
  ASSUME IInv, MemInv, MemTypeOK', MapInv', initialize_user_process
  PROVE  PM!Next
<1>1. PICK p \in PCBs : /\ \A r \in PCBs : ~Alive(r) /\ (Alive(r)' <=> r = p)
                        /\ memory_num'[p] = 0
  BY BootChanges DEF initialize_user_process
<1>2. LiveSet = {} /\ LiveSet' = {p}
  BY <1>1 DEF LiveSet
<1>3. base'[p] = 0 * Limit
  BY <1>1 DEF MapInv
<1>4. \A a \in Offsets : Word(p, a)' \in Values
  BY <1>3, ChunkPlace, ConstantFacts DEF Word, MemTypeOK
<1>5. PICK image \in [Offsets -> Values] : image = Image(p)'
  <2>1. Image(p)' \in [Offsets -> Values]
    BY <1>4 DEF Image, Word
  <2> QED BY <2>1
<1>6. Memories' = [q \in LiveSet \cup {p} |-> IF q = p THEN image ELSE Memories[q]]
  BY <1>2, <1>5 DEF Memories
<1>7. PM!Live = LiveSet
  BY DEF PM!Live, LiveSet
<1>8. Memories' = PM!Hands(p, image)
  BY <1>6, <1>7 DEF PM!Hands, Memories, LiveSet
<1>9. PM!Boot(p)
  BY <1>2, <1>5, <1>7, <1>8 DEF PM!Boot, PM!Images, Memories, LiveSet
<1> QED BY <1>9 DEF PM!Next

(* Every step of the memory is one the abstract specification allows.      *)
LEMMA MemoryStep ==
  ASSUME IInv, MemInv, MemInv', [MemNext]_allvars
  PROVE  [PM!Next]_Memories
<1>1. ASSUME Quiet, UNCHANGED <<main_memory, base>> PROVE Memories' = Memories
  BY <1>1, QuietAlive, SameMemories DEF Word
<1>2. CASE UNCHANGED allvars
  BY <1>1, <1>2 DEF allvars, memvars, Quiet
<1>3. CASE initialize_user_process
  BY <1>3, BootMemory DEF MemInv
<1>4. CASE scheduler_mem
  BY <1>1, <1>4 DEF scheduler_mem, memvars, Quiet, Scheduler
<1>5. CASE no_memory
  BY <1>1, <1>5 DEF no_memory, memvars, Quiet, Stopped
<1>6. ASSUME NEW a \in Offsets, NEW v \in Values, user_store(a, v)
      PROVE  [PM!Next]_Memories
  <2>1. curr \in PCBs /\ Alive(curr) /\ User_Base = base[curr]
    BY <1>6 DEF user_store, IInv, MachineInv, OnePlace, Running, MemInv, MapInv
  <2>2. \A q \in PCBs : Alive(q)' <=> Alive(q)
    BY <1>6, QuietAlive DEF user_store, Quiet
  <2>3. base' = base /\ main_memory' = [main_memory EXCEPT ![base[curr] + a] = v]
    BY <1>6, <2>1 DEF user_store
  <2> QED BY <2>1, <2>2, <2>3, StoreStep
<1>7. ASSUME NEW p \in PCBs, fill(p) PROVE [PM!Next]_Memories
  <2>1. Alive(p)
    BY <1>7, RunsAlive DEF fill, do_other, do_io_return, do_io_block
  <2>2. \A q \in PCBs : Alive(q)' <=> Alive(q)
    BY <1>7, QuietAlive DEF fill, Quiet
  <2> QED BY <1>7, <2>1, <2>2, StoreStep DEF fill
<1>8. ASSUME NEW p \in PCBs, NEW add \in Increments, do_sbrk(p, add)
      PROVE  Memories' = Memories
  BY <1>1, <1>8 DEF do_sbrk, Quiet
<1> QED BY <1>2, <1>3, <1>4, <1>5, <1>6, <1>7, <1>8, ExecStep, ForkStep, ExitStep DEF MemNext

(* At the start no memory is handed out.                                   *)
LEMMA MemoryInit == MemInit => PM!Init
<1> SUFFICES ASSUME MemInit PROVE PM!Init
  OBVIOUS
<1>1. \A p \in PCBs : ~Alive(p)
  BY DEF MemInit, Init, Alive
<1>2. {q \in PCBs : Alive(q)} = {}
  BY <1>1
<1> QED BY <1>2 DEF PM!Init

(* The refinement: a live process has the memory PrivateMemory promises.   *)
(* Through fork, execve, exit, reads that slept and preemption, only its   *)
(* own stores, calls and execve change a word of it.                       *)
THEOREM MemoryIsPrivate == MemSpec => ImplementsPrivateMemory
<1>1. MemInit => PM!Init
  BY MemoryInit
<1>2. IInv /\ MemInv /\ MemInv' /\ [MemNext]_allvars => [PM!Next]_Memories
  BY MemoryStep
<1>3. Memories = [p \in {q \in PCBs : Alive(q)} |-> Image(p)]
  BY DEF Memories, LiveSet
<1> QED BY <1>1, <1>2, <1>3, MemInvariance, PTL DEF MemSpec, ImplementsPrivateMemory, PM!Spec, Memories, LiveSet
================================================================================
