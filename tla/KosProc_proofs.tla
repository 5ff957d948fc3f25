---------------------------- MODULE KosProc_proofs ----------------------------
(***************************************************************************)
(* Type correctness of KosProc for every value of its constants.  Lemmas   *)
(* on sequences and threads come first; then one lemma for the variables   *)
(* of the scheduler and one for the process table.                         *)
(***************************************************************************)
EXTENDS KosProc, TLAPS

(* What Append adds to the elements of a sequence without duplicates.      *)
LEMMA ElemsAppend ==
  ASSUME NEW S, NEW q \in Seq(S), NEW x \in S
  PROVE  /\ Append(q, x) \in Seq(S)
         /\ ToSet(Append(q, x)) = ToSet(q) \cup {x}
         /\ IsInjective(q) /\ x \notin ToSet(q) => IsInjective(Append(q, x))
<1> DEFINE r == Append(q, x)
<1>1. /\ r \in Seq(S)
      /\ DOMAIN q = 1 .. Len(q) /\ Len(q) \in Nat
      /\ DOMAIN r = 1 .. (Len(q) + 1)
      /\ \A i \in 1 .. Len(q) : r[i] = q[i]
      /\ r[Len(q) + 1] = x
  OBVIOUS
<1>2. ToSet(r) = ToSet(q) \cup {x}
  <2>1. ASSUME NEW e \in ToSet(r) PROVE e \in ToSet(q) \cup {x}
    <3>1. PICK i \in 1 .. (Len(q) + 1) : e = r[i]
      BY <1>1 DEF ToSet
    <3>2. i \in 1 .. Len(q) \/ i = Len(q) + 1
      BY <1>1, <3>1
    <3> QED BY <1>1, <3>1, <3>2 DEF ToSet
  <2>2. ASSUME NEW i \in 1 .. Len(q) PROVE q[i] \in ToSet(r)
    BY <1>1 DEF ToSet
  <2>3. x \in ToSet(r)
    BY <1>1 DEF ToSet
  <2> QED BY <1>1, <2>1, <2>2, <2>3 DEF ToSet
<1>3. IsInjective(q) /\ x \notin ToSet(q) => IsInjective(r)
  <2> SUFFICES ASSUME IsInjective(q), x \notin ToSet(q),
                      NEW i \in 1 .. (Len(q) + 1), NEW j \in 1 .. (Len(q) + 1),
                      r[i] = r[j]
               PROVE  i = j
    BY <1>1 DEF IsInjective
  <2>1. \A k \in 1 .. Len(q) : q[k] # x
    BY <1>1 DEF ToSet
  <2> QED BY <1>1, <2>1 DEF IsInjective
<1> QED BY <1>1, <1>2, <1>3

(* The elements of the tail are those of the sequence less its head.       *)
LEMMA ElemsTail ==
  ASSUME NEW S, NEW q \in Seq(S), q # <<>>
  PROVE  /\ Head(q) \in S /\ Tail(q) \in Seq(S)
         /\ Len(Tail(q)) = Len(q) - 1
         /\ ToSet(q) = {Head(q)} \cup ToSet(Tail(q))
         /\ IsInjective(q) => IsInjective(Tail(q)) /\ Head(q) \notin ToSet(Tail(q))
<1> DEFINE r == Tail(q)
<1>1. /\ Head(q) \in S /\ r \in Seq(S)
      /\ DOMAIN q = 1 .. Len(q) /\ Len(q) \in Nat \ {0}
      /\ Len(r) = Len(q) - 1
      /\ DOMAIN r = 1 .. (Len(q) - 1)
      /\ \A i \in 1 .. (Len(q) - 1) : r[i] = q[i + 1]
      /\ Head(q) = q[1]
  OBVIOUS
<1>2. ToSet(q) = {Head(q)} \cup ToSet(r)
  <2>1. ASSUME NEW i \in 1 .. Len(q) PROVE q[i] \in {Head(q)} \cup ToSet(r)
    <3>1. CASE i = 1 BY <3>1, <1>1
    <3>2. CASE i # 1
      <4>1. i - 1 \in 1 .. (Len(q) - 1) /\ (i - 1) + 1 = i
        BY <3>2, <1>1
      <4>2. r[i - 1] = q[i]
        BY <4>1, <1>1
      <4> QED BY <1>1, <4>1, <4>2 DEF ToSet
    <3> QED BY <3>1, <3>2
  <2>2. ASSUME NEW i \in 1 .. (Len(q) - 1) PROVE r[i] \in ToSet(q)
    <3>1. i + 1 \in 1 .. Len(q)
      BY <1>1
    <3> QED BY <3>1, <1>1 DEF ToSet
  <2>3. Head(q) \in ToSet(q)
    BY <1>1 DEF ToSet
  <2> QED BY <1>1, <2>1, <2>2, <2>3 DEF ToSet
<1>3. ASSUME IsInjective(q) PROVE IsInjective(r) /\ Head(q) \notin ToSet(r)
  <2>1. ASSUME NEW i \in 1 .. (Len(q) - 1), NEW j \in 1 .. (Len(q) - 1),
               r[i] = r[j]
        PROVE  i = j
    <3>1. i + 1 \in DOMAIN q /\ j + 1 \in DOMAIN q /\ q[i + 1] = q[j + 1]
      BY <1>1, <2>1
    <3>2. i + 1 = j + 1
      BY <1>3, <3>1 DEF IsInjective
    <3> QED BY <1>1, <3>2
  <2>2. ASSUME NEW i \in 1 .. (Len(q) - 1) PROVE r[i] # Head(q)
    <3>1. i + 1 \in DOMAIN q /\ 1 \in DOMAIN q /\ i + 1 # 1
      BY <1>1
    <3>2. q[i + 1] # q[1]
      BY <1>3, <3>1 DEF IsInjective
    <3> QED BY <1>1, <3>2
  <2> QED BY <1>1, <2>1, <2>2 DEF IsInjective, ToSet
<1> QED BY <1>1, <1>2, <1>3

(* The elements of a concatenation; it has no duplicate when its halves    *)
(* have none and are disjoint.                                             *)
LEMMA ElemsConcat ==
  ASSUME NEW S, NEW q \in Seq(S), NEW r \in Seq(S)
  PROVE  /\ q \o r \in Seq(S)
         /\ Len(q \o r) = Len(q) + Len(r)
         /\ ToSet(q \o r) = ToSet(q) \cup ToSet(r)
         /\ IsInjective(q) /\ IsInjective(r) /\ ToSet(q) \cap ToSet(r) = {}
              => IsInjective(q \o r)
<1> DEFINE c == q \o r
<1>1. /\ c \in Seq(S)
      /\ DOMAIN q = 1 .. Len(q) /\ Len(q) \in Nat
      /\ DOMAIN r = 1 .. Len(r) /\ Len(r) \in Nat
      /\ Len(c) = Len(q) + Len(r)
      /\ DOMAIN c = 1 .. (Len(q) + Len(r))
      /\ \A i \in 1 .. Len(q) : c[i] = q[i]
      /\ \A i \in 1 .. (Len(q) + Len(r)) : i > Len(q) => c[i] = r[i - Len(q)]
  OBVIOUS
<1>2. \A i \in 1 .. (Len(q) + Len(r)) :
        \/ i \in 1 .. Len(q)
        \/ i > Len(q) /\ i - Len(q) \in 1 .. Len(r)
  BY <1>1
<1>3. ToSet(c) = ToSet(q) \cup ToSet(r)
  <2>1. ASSUME NEW i \in 1 .. (Len(q) + Len(r)) PROVE c[i] \in ToSet(q) \cup ToSet(r)
    BY <1>1, <1>2 DEF ToSet
  <2>2. ASSUME NEW i \in 1 .. Len(q) PROVE q[i] \in ToSet(c)
    <3>1. i \in DOMAIN c BY <1>1
    <3> QED BY <3>1, <1>1 DEF ToSet
  <2>3. ASSUME NEW i \in 1 .. Len(r) PROVE r[i] \in ToSet(c)
    <3>1. i + Len(q) \in DOMAIN c /\ i + Len(q) > Len(q) /\ (i + Len(q)) - Len(q) = i
      BY <1>1, SMTT(20)
    <3>2. c[i + Len(q)] = r[i]
      BY <1>1, <3>1
    <3> QED BY <3>1, <3>2 DEF ToSet
  <2> QED BY <1>1, <2>1, <2>2, <2>3 DEF ToSet
<1>4. ASSUME IsInjective(q), IsInjective(r), ToSet(q) \cap ToSet(r) = {}
      PROVE  IsInjective(c)
  <2> SUFFICES ASSUME NEW i \in 1 .. (Len(q) + Len(r)),
                      NEW j \in 1 .. (Len(q) + Len(r)), c[i] = c[j]
               PROVE  i = j
    BY <1>1 DEF IsInjective
  <2>0. \A k \in 1 .. Len(q), l \in 1 .. Len(r) : q[k] # r[l]
    BY <1>1, <1>4 DEF ToSet
  <2>1. CASE i \in 1 .. Len(q) /\ j \in 1 .. Len(q)
    BY <1>1, <1>4, <2>1 DEF IsInjective
  <2>2. CASE i > Len(q) /\ j > Len(q)
    <3>1. r[i - Len(q)] = r[j - Len(q)]
      BY <1>1, <2>2
    <3>2. i - Len(q) \in DOMAIN r /\ j - Len(q) \in DOMAIN r
      BY <1>1, <1>2, <2>2
    <3>3. i - Len(q) = j - Len(q)
      BY <1>4, <3>1, <3>2 DEF IsInjective
    <3> QED BY <1>1, <3>3
  <2> QED BY <1>1, <1>2, <2>0, <2>1, <2>2
<1> QED BY <1>1, <1>3, <1>4

-----------------------------------------------------------------------------
(* Facts about the constants and the kernel threads.                       *)

(* The sentinel init is a process but not a PCB of the pool; chunk 0 and   *)
(* pid 0 exist.                                                            *)
LEMMA ConstantFacts ==
  /\ PCBs \subseteq Procs /\ InitProc \in Procs /\ InitProc \notin PCBs
  /\ Procs \ {InitProc} = PCBs
  /\ NULL \notin PCBs
  /\ 0 \in Chunks
  /\ MaxPid \in Nat /\ 0 \in 0 .. MaxPid
<1>1. PCBs \subseteq Procs /\ InitProc \in Procs /\ InitProc \notin PCBs /\ NULL \notin PCBs
  BY KosProcAssumption DEF Procs
<1>2. Procs \ {InitProc} = PCBs
  BY <1>1 DEF Procs
<1>3. 0 \in Chunks
  BY KosProcAssumption DEF Chunks
<1>4. MaxPid \in Nat /\ 0 \in 0 .. MaxPid
  BY KosProcAssumption
<1> QED BY <1>1, <1>2, <1>3, <1>4

(* Thread builds a kernel thread of its two fields.                        *)
LEMMA ThreadType ==
  ASSUME NEW op \in Ops, NEW p \in Procs
  PROVE  /\ Thread(op, p) \in Threads
         /\ Thread(op, p).op = op /\ Thread(op, p).pcb = p
BY DEF Thread, Threads

(* A kernel thread is determined by what it runs and for whom.             *)
LEMMA ThreadEq ==
  ASSUME NEW op1, NEW p1, NEW op2, NEW p2
  PROVE  Thread(op1, p1) = Thread(op2, p2) <=> op1 = op2 /\ p1 = p2
BY DEF Thread

(* The names of the thread bodies are distinct.                            *)
LEMMA OpNames ==
  /\ Ops = {"exit", "wait", "fork", "io", "execve", "other", "reap",
            "finish_fork", "boot"}
  /\ SyscallOps \subseteq Ops
  /\ CpuModes = {"kernel", "user", "noop", "halt", "off", "exited"}
  /\ Final = {"halt", "off", "exited"}
BY DEF Ops, SyscallOps, CpuModes, Final

-----------------------------------------------------------------------------
(* The steps that leave the process table alone.                           *)

table == <<heap, parent, children, waiters, pids, memory>>

(* Only boot, fork, exit and wait touch the process table.                 *)
LEMMA QuietSteps ==
  ASSUME [Next]_vars
  PROVE  \/ Boot
         \/ \E p \in PCBs : \/ do_fork(p) \/ do_exit_orphan(p) \/ do_exit_zombie(p)
                           \/ do_wait_block(p) \/ do_wait(p) \/ do_wait_resume(p)
         \/ UNCHANGED <<table, waiters_sem>>
<1>1. CASE UNCHANGED vars
  BY <1>1 DEF vars, family, table
<1>2. CASE Scheduler
  BY <1>2 DEF Scheduler, scheduler_halt, scheduler_noop, scheduler_run, family, table
<1>3. CASE Exception
  BY <1>3 DEF Exception, Fault, SyscallHalt, Syscall, family, table
<1>4. CASE Interrupt
  BY <1>4 DEF Interrupt, TimerInt, ConsoleInt, family, table
<1>5. ASSUME NEW p \in PCBs, do_other(p) \/ do_execve(p) \/ do_fork_fail(p)
                              \/ finish_fork(p)
      PROVE  UNCHANGED <<table, waiters_sem>>
  BY <1>5 DEF do_other, do_execve, do_fork_fail, finish_fork, family, table
<1>6. ASSUME NEW p \in PCBs, do_io_return(p) \/ do_io_block(p)
      PROVE  UNCHANGED <<table, waiters_sem>>
  BY <1>6 DEF do_io_return, do_io_block, family, table
<1> QED BY <1>1, <1>2, <1>3, <1>4, <1>5, <1>6 DEF Next, Kernel, KernelThread, Stopped

-----------------------------------------------------------------------------
(* Type correctness.                                                       *)

(* KOS() starts with well-typed state.                                     *)
LEMMA InitType == Init => TypeOK /\ MachineInv
<1> SUFFICES ASSUME Init PROVE TypeOK /\ MachineInv
  OBVIOUS
<1>1. Thread("boot", InitProc) \in Threads
  BY ConstantFacts, OpNames, ThreadType
<1>2. SchedTypeOK
  BY <1>1, OpNames DEF Init, SchedTypeOK
<1>3. TableTypeOK
  BY ConstantFacts DEF Init, TableTypeOK
<1>4. MachineInv
  BY DEF Init, MachineInv
<1> QED BY <1>2, <1>3, <1>4 DEF TypeOK

(* Every step keeps the machine and the scheduler well typed.              *)
LEMMA SchedTypeStep ==
  ASSUME TypeOK, MachineInv, [Next]_vars
  PROVE  SchedTypeOK' /\ MachineInv'
<1> USE DEF SchedTypeOK, MachineInv, machine
<1>0. SchedTypeOK /\ parent \in [PCBs -> Procs]
  BY DEF TypeOK, TableTypeOK
<1>1. CASE UNCHANGED vars
  BY <1>0, <1>1 DEF vars, ktvars
<1>2. CASE Boot
  <2>1. /\ cpu = "kernel" /\ cpu' \in {"kernel", "exited"}
        /\ curr' = curr /\ is_noop' = is_noop /\ faulted' = faulted
        /\ runnable' = runnable \ {Thread("boot", InitProc)} /\ blocked' = blocked
    BY <1>2 DEF Boot, Runs, Finish
  <2>2. readyq' \in Seq(PCBs)
    <3>1. readyq' = readyq \/ \E p \in PCBs : readyq' = Append(readyq, p)
      BY <1>2 DEF Boot
    <3> QED BY <1>0, <3>1, ElemsAppend
  <2> QED BY <1>0, <2>1, <2>2, OpNames
<1>3. CASE Scheduler
  <2>1. CASE scheduler_halt
    BY <1>0, <2>1, OpNames DEF scheduler_halt, Idle, ktvars
  <2>2. CASE scheduler_noop
    BY <1>0, <2>2, OpNames DEF scheduler_noop, Idle, ktvars
  <2>3. CASE scheduler_run
    <3>1. Head(readyq) \in PCBs /\ Unlinked \in Seq(PCBs)
      BY <1>0, <2>3, ElemsTail DEF scheduler_run, Unlinked
    <3> QED BY <1>0, <2>3, <3>1, OpNames, ConstantFacts DEF scheduler_run, Idle, ktvars
  <2> QED BY <1>3, <2>1, <2>2, <2>3 DEF Scheduler
<1>4. CASE Exception
  <2>1. CASE Fault
    BY <1>0, <2>1, OpNames DEF Fault, ktvars
  <2>2. CASE SyscallHalt
    BY <1>0, <2>2, OpNames DEF SyscallHalt, ktvars
  <2>3. ASSUME NEW op \in SyscallOps, Syscall(op)
        PROVE  SchedTypeOK' /\ MachineInv'
    <3>1. Thread(op, curr) \in Threads
      BY <2>3, OpNames, ConstantFacts, ThreadType DEF Syscall
    <3> QED BY <1>0, <2>3, <3>1, OpNames DEF Syscall
  <2> QED BY <1>4, <2>1, <2>2, <2>3 DEF Exception
<1>5. CASE Interrupt
  <2>1. RequeueCurr \in Seq(PCBs)
    BY <1>0, <1>5, ElemsAppend DEF Interrupt, TimerInt, ConsoleInt, RequeueCurr
  <2>2. CASE TimerInt
    BY <1>0, <2>1, <2>2, OpNames DEF TimerInt, ktvars
  <2>3. CASE ConsoleInt
    BY <1>0, <2>1, <2>3, OpNames DEF ConsoleInt
  <2> QED BY <1>5, <2>2, <2>3 DEF Interrupt
<1>6. ASSUME NEW p \in PCBs, KernelThread(p) PROVE SchedTypeOK' /\ MachineInv'
  <2>0. /\ syscall_return(readyq, p) \in Seq(PCBs)
        /\ \A op \in Ops : Thread(op, p) \in Threads
    BY <1>0, ConstantFacts, ThreadType, ElemsAppend DEF syscall_return
  <2>1. CASE do_other(p) \/ do_fork_fail(p) \/ finish_fork(p)
    BY <1>0, <2>0, <2>1 DEF do_other, do_fork_fail, finish_fork, Runs, Finish
  <2>2. CASE do_execve(p)
    BY <1>0, <2>0, <2>2, OpNames DEF do_execve, Runs, Finish
  <2>3. CASE do_io_return(p)
    BY <1>0, <2>0, <2>3 DEF do_io_return, Runs
  <2>4. CASE do_io_block(p)
    BY <1>0, <2>0, <2>4 DEF do_io_block, Runs
  <2>5. CASE do_fork(p)
    <3>1. PICK c \in PCBs \ heap, i \in Chunks, n \in 0 .. MaxPid :
            NewChild(p, c, i, n)
      BY <2>5 DEF do_fork
    <3>2. Thread("finish_fork", c) \in Threads
      BY OpNames, ConstantFacts, ThreadType
    <3> QED BY <1>0, <2>0, <2>5, <3>1, <3>2 DEF do_fork, NewChild, Runs, Finish
  <2>6. CASE do_exit_orphan(p)
    BY <1>0, <2>6 DEF do_exit_orphan, Runs, Finish
  <2>7. CASE do_exit_zombie(p)
    <3>1. Thread("reap", parent[p]) \in Threads
      BY <1>0, OpNames, ThreadType
    <3> QED BY <1>0, <2>7, <3>1 DEF do_exit_zombie, Runs, Notified
  <2>8. CASE do_wait_block(p)
    BY <1>0, <2>8 DEF do_wait_block, Runs
  <2>9. CASE do_wait(p) \/ do_wait_resume(p)
    BY <1>0, <2>0, <2>9 DEF do_wait, do_wait_resume, Reap, Runs, Finish
  <2> QED BY <1>6, <2>1, <2>2, <2>3, <2>4, <2>5, <2>6, <2>7, <2>8, <2>9
          DEF KernelThread
<1> QED BY <1>1, <1>2, <1>3, <1>4, <1>5, <1>6 DEF Next, Kernel, Stopped

(* What do_exit leaves in the process table is well typed.                 *)
LEMMA ExitTypes ==
  ASSUME TableTypeOK, NEW p \in PCBs
  PROVE  /\ ReleaseChunk(p) \in [Chunks -> {0, 1}]
         /\ Reparent(p) \in [PCBs -> Procs]
         /\ ChildrenAfterExit(p) \in [Procs -> SUBSET PCBs]
         /\ WaitersAfterExit(p) \in [Procs -> Seq(PCBs)]
         /\ SemAfterExit(p) \in [Procs -> Int]
<1>1. ReleaseChunk(p) \in [Chunks -> {0, 1}]
  BY DEF ReleaseChunk, TableTypeOK
<1>2. Reparent(p) \in [PCBs -> Procs]
  BY ConstantFacts DEF Reparent, TableTypeOK
<1>3. ChildrenAfterExit(p) \in [Procs -> SUBSET PCBs]
  BY ConstantFacts DEF ChildrenAfterExit, TableTypeOK
<1>4. waiters[p] \in Seq(PCBs) /\ Len(waiters[p]) \in Nat
  BY ConstantFacts DEF TableTypeOK
<1>5. WaitersAfterExit(p) \in [Procs -> Seq(PCBs)]
  <2> DEFINE z == waiters[InitProc] \o waiters[p]
             w == [waiters EXCEPT ![InitProc] = z]
  <2>1. z \in Seq(PCBs)
    BY <1>4, ElemsConcat, ConstantFacts DEF TableTypeOK
  <2>2. WaitersAfterExit(p) = [w EXCEPT ![p] = <<>>]
    BY DEF WaitersAfterExit
  <2>3. ASSUME NEW s \in Seq(PCBs) PROVE [waiters EXCEPT ![InitProc] = s] \in [Procs -> Seq(PCBs)]
    BY DEF TableTypeOK
  <2>4. w \in [Procs -> Seq(PCBs)]
    BY <2>1, <2>3
  <2>5. ASSUME NEW f \in [Procs -> Seq(PCBs)]
        PROVE  [f EXCEPT ![p] = <<>>] \in [Procs -> Seq(PCBs)]
    <3>1. <<>> \in Seq(PCBs)
      OBVIOUS
    <3> QED BY <3>1
  <2> QED BY <2>2, <2>4, <2>5
<1>6. SemAfterExit(p) \in [Procs -> Int]
  BY <1>4, ConstantFacts DEF SemAfterExit, TableTypeOK
<1> QED BY <1>1, <1>2, <1>3, <1>5, <1>6

(* Every step keeps the process table well typed.                          *)
LEMMA TableTypeStep ==
  ASSUME TypeOK, [Next]_vars
  PROVE  TableTypeOK'
<1>0. TableTypeOK
  BY DEF TypeOK
<1>1. CASE UNCHANGED <<table, waiters_sem>>
  BY <1>0, <1>1 DEF TableTypeOK, table, pids, memory
<1>2. CASE Boot
  BY <1>0, <1>2, ConstantFacts DEF Boot, TableTypeOK
<1>3. ASSUME NEW p \in PCBs, do_fork(p) PROVE TableTypeOK'
  <2>1. PICK c \in PCBs \ heap, i \in Chunks, n \in 0 .. MaxPid :
          NewChild(p, c, i, n)
    BY <1>3 DEF do_fork
  <2>2. children' \in [Procs -> SUBSET PCBs]
    BY <1>0, <2>1, ConstantFacts DEF NewChild, TableTypeOK
  <2>3. waiters' \in [Procs -> Seq(PCBs)]
    BY <1>0, <2>1, ConstantFacts DEF NewChild, TableTypeOK
  <2>4. waiters_sem' \in [Procs -> Int] /\ pid' \in [Procs -> 0 .. MaxPid]
    BY <1>0, <2>1, ConstantFacts DEF NewChild, TableTypeOK
  <2>5. /\ heap' \in SUBSET PCBs /\ rbtree' \in SUBSET (0 .. MaxPid)
        /\ parent' \in [PCBs -> Procs]
    BY <1>0, <2>1, ConstantFacts DEF NewChild, TableTypeOK
  <2>6. /\ memory_chunk' \in [Chunks -> {0, 1}]
        /\ memory_num' \in [PCBs -> Chunks]
    BY <1>0, <2>1 DEF NewChild, TableTypeOK
  <2> QED BY <2>2, <2>3, <2>4, <2>5, <2>6 DEF TableTypeOK
<1>4. ASSUME NEW p \in PCBs PROVE
        /\ ReleaseChunk(p) \in [Chunks -> {0, 1}]
        /\ Reparent(p) \in [PCBs -> Procs]
        /\ ChildrenAfterExit(p) \in [Procs -> SUBSET PCBs]
        /\ WaitersAfterExit(p) \in [Procs -> Seq(PCBs)]
        /\ SemAfterExit(p) \in [Procs -> Int]
  BY <1>0, ExitTypes
<1>5. ASSUME NEW p \in PCBs, do_exit_orphan(p) PROVE TableTypeOK'
  BY <1>0, <1>4, <1>5 DEF do_exit_orphan, TableTypeOK
<1>6. ASSUME NEW p \in PCBs, do_exit_zombie(p) PROVE TableTypeOK'
  <2> DEFINE q == parent[p]
  <2>1. q \in Procs
    BY <1>0 DEF TableTypeOK
  <2>2. [WaitersAfterExit(p) EXCEPT ![q] = Append(@, p)] \in [Procs -> Seq(PCBs)]
    BY <1>4, <2>1, ElemsAppend
  <2>3. [SemAfterExit(p) EXCEPT ![q] = @ + 1] \in [Procs -> Int]
    BY <1>4, <2>1
  <2> QED BY <1>0, <1>4, <1>6, <2>2, <2>3
          DEF do_exit_zombie, Notified, TableTypeOK, pids
<1>7. ASSUME NEW p \in PCBs, do_wait_block(p) PROVE TableTypeOK'
  BY <1>0, <1>7, ConstantFacts DEF do_wait_block, TableTypeOK, pids, memory
<1>8. ASSUME NEW p \in PCBs, do_wait(p) \/ do_wait_resume(p) PROVE TableTypeOK'
  <2>1. Reap(p) /\ waiters_sem' \in [Procs -> Int]
    BY <1>0, <1>8 DEF do_wait, do_wait_resume, TableTypeOK
  <2>2. waiters' \in [Procs -> Seq(PCBs)]
    BY <1>0, <2>1, ElemsTail, ConstantFacts DEF Reap, TableTypeOK
  <2>3. /\ heap' \in SUBSET PCBs /\ rbtree' \in SUBSET (0 .. MaxPid)
    BY <1>0, <2>1 DEF Reap, TableTypeOK
  <2> QED BY <1>0, <2>1, <2>2, <2>3 DEF Reap, TableTypeOK, memory
<1> QED BY <1>1, <1>2, <1>3, <1>5, <1>6, <1>7, <1>8, QuietSteps

(* Type correctness: every variable of the scheduler (scheduler.c) and of  *)
(* the process table (struct PCB) stays in its range, for any number of    *)
(* PCBs, chunks and pids.                                                  *)
THEOREM TypeCorrect == Spec => []TypeOK
<1> DEFINE Inv == TypeOK /\ MachineInv
<1>1. Init => Inv
  BY InitType
<1>2. Inv /\ [Next]_vars => Inv'
  BY SchedTypeStep, TableTypeStep DEF TypeOK
<1> QED BY <1>1, <1>2, PTL DEF Spec
=============================================================================
