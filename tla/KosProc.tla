------------------------------- MODULE KosProc -------------------------------
(***************************************************************************)
(* Processes and scheduling of KOS: the machine (user code, exceptions,    *)
(* interrupts), the cooperative kernel threads that serve system calls,    *)
(* the ready queue, and the life of a process (fork, exit, wait).          *)
(*                                                                         *)
(* exception.c turns a system call into a kernel thread for the calling    *)
(* PCB and an interrupt into a V on a semaphore; both end in scheduler(),  *)
(* which lets the kernel threads run until each has finished or blocked    *)
(* (kt_joinall) and only then resumes a user process.  Kernel threads are  *)
(* not preempted, so one action is one run of a thread up to the point     *)
(* where it blocks in P or exits.                                          *)
(*                                                                         *)
(* The bodies of the system calls that leave the process table alone are   *)
(* abstracted to what the scheduler sees of them: "other" returns at once, *)
(* "io" (read, write, close) may block and may release blocked threads.    *)
(***************************************************************************)
EXTENDS Integers, Sequences, FiniteSets, SequencesExt

CONSTANTS
  PCBs,      (* the process control blocks malloc can hand out             *)
  InitProc,  (* the sentinel process "init" (pid 0, never runs)            *)
  NULL,      (* the null pointer                                           *)
  NChunks,   (* memory chunks: 8 in memory.c                               *)
  MaxPid     (* bound on the pids get_new_pid may return; the PCB keeps    *)
             (* its pid in an unsigned short                               *)

ASSUME KosProcAssumption ==
  /\ InitProc \notin PCBs
  /\ NULL \notin PCBs
  /\ IsFiniteSet(PCBs) /\ PCBs # {}
  /\ NChunks \in Nat \ {0}
  /\ MaxPid \in Nat \ {0} /\ MaxPid < 2 ^ 16  (* pid is an unsigned short *)

Procs == PCBs \cup {InitProc}
Chunks == 0 .. (NChunks - 1)

(* What a kernel thread is about to run.  "reap" is do_wait resumed after  *)
(* it blocked in P(waiters_sem); "boot" is initialize_user_process.        *)
SyscallOps == {"exit", "wait", "fork", "io", "execve", "other"}
Ops == SyscallOps \cup {"reap", "finish_fork", "boot"}
Thread(op, p) == [op |-> op, pcb |-> p]
Threads == [op : Ops, pcb : Procs]

(* "kernel": inside scheduler()'s kt_joinall; "user": run_user_code(curr); *)
(* "noop": idle; the others are final: "halt" is the scheduler's SYSHalt,  *)
(* "off" a user's halt call, "exited" the simulator's exit(1).             *)
Final == {"halt", "off", "exited"}
CpuModes == {"kernel", "user", "noop"} \cup Final

VARIABLES
  cpu,         (* what the machine is doing, one of CpuModes               *)
  curr,        (* exception.c/scheduler.c: the PCB last given the CPU      *)
  is_noop,     (* TRUE when the CPU was last left idle                     *)
  readyq,      (* PCBs waiting for the CPU, in order                       *)
  runnable,    (* kernel threads that can run (kt library)                 *)
  blocked,     (* kernel threads blocked in P (kt library)                 *)
  heap,        (* PCBs malloc'd and not yet freed                          *)
  parent,      (* PCB.parent                                               *)
  children,    (* PCB.children: live children                              *)
  waiters,     (* PCB.waiters: exited children not yet reaped, in order    *)
  waiters_sem, (* value of PCB.waiters_sem; negative when a thread waits   *)
  pid,         (* PCB.pid                                                  *)
  rbtree,      (* the pids in use                                          *)
  memory_chunk,(* memory_chunk[i] = 1 iff chunk i is taken                 *)
  memory_num,  (* PCB.memory_num                                           *)
  faulted      (* history: PCBs that raised an exception other than a      *)
               (* system call                                              *)

machine == <<cpu, curr, is_noop>>
ktvars == <<runnable, blocked>>
family == <<parent, children, waiters, waiters_sem>>
pids == <<pid, rbtree>>
memory == <<memory_chunk, memory_num>>
vars == <<machine, readyq, ktvars, heap, family, pids, memory, faulted>>

-----------------------------------------------------------------------------
(* State predicates shared by the actions and the properties.              *)

(* A process is alive while its parent's children tree holds it.           *)
Alive(p) == p \in heap /\ p \in children[parent[p]]

Running(p) == cpu = "user" /\ curr = p
Queued(p) == p \in ToSet(readyq)
InKernel(p) == \E t \in runnable \cup blocked : t.pcb = p

-----------------------------------------------------------------------------
(* Helpers of scheduler.c and syscall.c.                                   *)

(* get_new_pid: the lowest pid that is not in the tree; the bug would      *)
(* count the pids in use.                                                  *)
BugFirstFreePid(n, used) == n = Cardinality(used)

FirstFreePid(n, used) == n \notin used /\ \A m \in 0 .. (n - 1) : m \in used

(* The lowest chunk with memory_chunk[i] == 0.                             *)
FirstFreeChunk(i) ==
  memory_chunk[i] = 0 /\ \A j \in 0 .. (i - 1) : memory_chunk[j] = 1

NoFreeChunk == \A i \in Chunks : memory_chunk[i] # 0

(* syscall_return and execve_return put the caller at the back of readyq   *)
(* and end the kernel thread; the bug would put it at the front.           *)
BugSyscallReturn(q, p) == <<p>> \o q

syscall_return(q, p) == Append(q, p)

(* A thread is taken by kt_joinall, which only runs when the machine is in *)
(* the kernel.                                                             *)
Runs(t) == cpu = "kernel" /\ t \in runnable

Finish(t, started) == /\ runnable' = (runnable \ {t}) \cup started
                      /\ UNCHANGED blocked

-----------------------------------------------------------------------------
(* KOS(): the scheduler's state is initialized and one kernel thread will  *)
(* build init and process 1.                                               *)
Init ==
  /\ cpu = "kernel" /\ curr = NULL /\ is_noop = TRUE
  /\ readyq = <<>>
  /\ runnable = {Thread("boot", InitProc)} /\ blocked = {}
  /\ heap = {}
  /\ parent = [p \in PCBs |-> InitProc]
  /\ children = [p \in Procs |-> {}]
  /\ waiters = [p \in Procs |-> <<>>]
  /\ waiters_sem = [p \in Procs |-> 0]
  /\ pid = [p \in Procs |-> 0]
  /\ rbtree = {}
  /\ memory_chunk = [i \in Chunks |-> 0]
  /\ memory_num = [p \in PCBs |-> 0]
  /\ faulted = {}

(* initialize_user_process: pid 0 goes to init, the next one to process 1, *)
(* which gets chunk 0 and is made ready.  perform_execve ends the whole    *)
(* simulator when the program cannot be loaded.                            *)
Boot ==
  LET t == Thread("boot", InitProc) IN
  /\ Runs(t)
  /\ Finish(t, {})
  /\ \E p \in PCBs, n \in 0 .. MaxPid :
       /\ FirstFreePid(n, {0})
       /\ heap' = {p}
       /\ parent' = [parent EXCEPT ![p] = InitProc]
       /\ children' = [children EXCEPT ![InitProc] = {p}]
       /\ pid' = [pid EXCEPT ![p] = n]
       /\ rbtree' = {0, n}
       /\ memory_chunk' = [memory_chunk EXCEPT ![0] = 1]
       /\ memory_num' = [memory_num EXCEPT ![p] = 0]
       /\ \/ readyq' = Append(readyq, p) /\ UNCHANGED cpu
          \/ cpu' = "exited" /\ UNCHANGED readyq
  /\ UNCHANGED <<curr, is_noop, waiters, waiters_sem, faulted>>

-----------------------------------------------------------------------------
(* scheduler(), after kt_joinall has returned.                             *)

Idle == cpu = "kernel" /\ runnable = {}

(* SYSHalt only when init has no living child.  The bugs would look for    *)
(* the booted process only, or wait for init's zombies too.                *)
BugMayHalt == \A p \in children[InitProc] : pid[p] # 1
BugMayHaltZombies == children[InitProc] = {} /\ waiters[InitProc] = <<>>

MayHalt == children[InitProc] = {}

(* The front of the queue gets the CPU and is unlinked; the bug would      *)
(* leave it linked.                                                        *)
BugUnlinked == readyq

Unlinked == Tail(readyq)

scheduler_halt ==
  /\ Idle /\ readyq = <<>> /\ MayHalt
  /\ cpu' = "halt" /\ curr' = NULL
  /\ UNCHANGED <<is_noop, readyq, ktvars, heap, family, pids, memory, faulted>>

scheduler_noop ==
  /\ Idle /\ readyq = <<>> /\ ~MayHalt
  /\ cpu' = "noop" /\ curr' = NULL /\ is_noop' = TRUE
  /\ UNCHANGED <<readyq, ktvars, heap, family, pids, memory, faulted>>

scheduler_run ==
  /\ Idle /\ readyq # <<>>
  /\ cpu' = "user" /\ curr' = Head(readyq) /\ is_noop' = FALSE
  /\ readyq' = Unlinked
  /\ UNCHANGED <<ktvars, heap, family, pids, memory, faulted>>

-----------------------------------------------------------------------------
(* exceptionHandler: a system call becomes a kernel thread for curr.       *)
(* Bound: a process only calls fork while a PCB is left in the pool.       *)
Syscall(op) ==
  /\ cpu = "user"
  /\ op = "fork" => heap # PCBs
  /\ cpu' = "kernel"
  /\ runnable' = runnable \cup {Thread(op, curr)}
  /\ UNCHANGED <<curr, is_noop, readyq, blocked, heap, family, pids, memory,
                 faulted>>

(* System call 0, and any number the switch does not know: SYSHalt.        *)
SyscallHalt ==
  /\ cpu = "user"
  /\ cpu' = "off"
  /\ UNCHANGED <<curr, is_noop, readyq, ktvars, heap, family, pids, memory,
                 faulted>>

(* Page fault, bus error, address error, overflow, illegal instruction:    *)
(* the handler calls scheduler() and does nothing with curr.               *)
Fault ==
  /\ cpu = "user"
  /\ cpu' = "kernel"
  /\ faulted' = faulted \cup {curr}
  /\ UNCHANGED <<curr, is_noop, readyq, ktvars, heap, family, pids, memory>>

(* interruptHandler: the interrupted process goes to the back of readyq,   *)
(* unless the CPU was idle; the bug would not ask.                         *)
BugRequeueCurr == Append(readyq, curr)

RequeueCurr == IF is_noop THEN readyq ELSE Append(readyq, curr)

TimerInt ==
  /\ cpu \in {"user", "noop"}
  /\ cpu' = "kernel"
  /\ readyq' = RequeueCurr
  /\ UNCHANGED <<curr, is_noop, ktvars, heap, family, pids, memory, faulted>>

(* ConsoleReadInt, ConsoleWriteInt: V releases at most one thread that     *)
(* waits for the console (directly, or through cons_to_buff).              *)
ConsoleInt ==
  /\ cpu \in {"user", "noop"}
  /\ cpu' = "kernel"
  /\ readyq' = RequeueCurr
  /\ \E W \in SUBSET {t \in blocked : t.op = "io"} :
       /\ Cardinality(W) <= 1
       /\ runnable' = runnable \cup W
       /\ blocked' = blocked \ W
  /\ UNCHANGED <<curr, is_noop, heap, family, pids, memory, faulted>>

-----------------------------------------------------------------------------
(* Kernel threads that leave the process table alone.                      *)

(* getpid, getppid, getpagesize, getdtablesize, sbrk, ioctl, fstat, dup,   *)
(* dup2, pipe: straight to syscall_return.                                 *)
do_other(p) ==
  LET t == Thread("other", p) IN
  /\ Runs(t) /\ Finish(t, {})
  /\ readyq' = syscall_return(readyq, p)
  /\ UNCHANGED <<machine, heap, family, pids, memory, faulted>>

(* execve replaces the program of the caller and makes it ready again, or  *)
(* ends the simulator when the program cannot be loaded.                   *)
do_execve(p) ==
  LET t == Thread("execve", p) IN
  /\ Runs(t) /\ Finish(t, {})
  /\ \/ readyq' = syscall_return(readyq, p) /\ UNCHANGED cpu
     \/ cpu' = "exited" /\ UNCHANGED readyq
  /\ UNCHANGED <<curr, is_noop, heap, family, pids, memory, faulted>>

(* read, write and close release threads blocked on the semaphores they V  *)
(* and then either return to the caller ...                                *)
do_io_return(p) ==
  LET t == Thread("io", p) IN
  /\ Runs(t)
  /\ \E W \in SUBSET {b \in blocked : b.op = "io"} :
       /\ runnable' = (runnable \ {t}) \cup W
       /\ blocked' = blocked \ W
  /\ readyq' = syscall_return(readyq, p)
  /\ UNCHANGED <<machine, heap, family, pids, memory, faulted>>

(* ... or block in P.                                                      *)
do_io_block(p) ==
  LET t == Thread("io", p) IN
  /\ Runs(t)
  /\ \E W \in SUBSET {b \in blocked : b.op = "io"} :
       /\ runnable' = (runnable \ {t}) \cup W
       /\ blocked' = (blocked \ W) \cup {t}
  /\ UNCHANGED <<machine, readyq, heap, family, pids, memory, faulted>>

-----------------------------------------------------------------------------
(* do_fork: with no free chunk the caller gets -EAGAIN; otherwise the      *)
(* child takes the first free chunk and the lowest pid, and is returned to *)
(* by a kernel thread of its own.                                          *)
do_fork_fail(p) ==
  LET t == Thread("fork", p) IN
  /\ Runs(t) /\ Finish(t, {})
  /\ NoFreeChunk
  /\ readyq' = syscall_return(readyq, p)
  /\ UNCHANGED <<machine, heap, family, pids, memory, faulted>>

NewChild(p, c, i, n) ==
  /\ FirstFreeChunk(i)
  /\ FirstFreePid(n, rbtree)
  /\ Finish(Thread("fork", p), {Thread("finish_fork", c)})
  /\ heap' = heap \cup {c}
  /\ memory_chunk' = [memory_chunk EXCEPT ![i] = 1]
  /\ memory_num' = [memory_num EXCEPT ![c] = i]
  /\ pid' = [pid EXCEPT ![c] = n]
  /\ rbtree' = rbtree \cup {n}
  /\ parent' = [parent EXCEPT ![c] = p]
  /\ waiters_sem' = [waiters_sem EXCEPT ![c] = 0]
  /\ waiters' = [waiters EXCEPT ![c] = <<>>]
  /\ children' = [children EXCEPT ![c] = {}, ![p] = @ \cup {c}]

do_fork(p) ==
  /\ Runs(Thread("fork", p))
  /\ \E c \in PCBs \ heap, i \in Chunks, n \in 0 .. MaxPid : NewChild(p, c, i, n)
  /\ readyq' = syscall_return(readyq, p)
  /\ UNCHANGED <<machine, faulted>>

finish_fork(c) ==
  LET t == Thread("finish_fork", c) IN
  /\ Runs(t) /\ Finish(t, {})
  /\ readyq' = syscall_return(readyq, c)
  /\ UNCHANGED <<machine, heap, family, pids, memory, faulted>>

-----------------------------------------------------------------------------
(* do_exit.                                                                *)

(* The chunk is given back first, then the caller leaves its parent's      *)
(* children, and its own children and unreaped zombies pass to init.       *)
BugReleaseChunk(p) == memory_chunk

ReleaseChunk(p) == [memory_chunk EXCEPT ![memory_num[p]] = 0]

BugInherited(p) == children[p]

Inherited(p) == children[p] \cup ToSet(waiters[p])

Reparent(p) == [r \in PCBs |-> IF r \in Inherited(p) THEN InitProc ELSE parent[r]]

BugChildrenAfterExit(p) ==
  [children EXCEPT ![parent[p]] = @ \ {p}, ![p] = {}]

ChildrenAfterExit(p) ==
  [children EXCEPT ![parent[p]] = @ \ {p},
                   ![InitProc] = @ \cup children[p],
                   ![p] = {}]

(* The waiters list of init gets the zombies of p, in order.               *)
WaitersAfterExit(p) ==
  [waiters EXCEPT ![InitProc] = @ \o waiters[p], ![p] = <<>>]

(* One V(init->waiters_sem) per zombie handed over.                        *)
SemAfterExit(p) == [waiters_sem EXCEPT ![InitProc] = @ + Len(waiters[p])]

(* A child of init (pid 0) is freed at once.                               *)
do_exit_orphan(p) ==
  LET t == Thread("exit", p) IN
  /\ Runs(t) /\ Finish(t, {})
  /\ pid[parent[p]] = 0
  /\ memory_chunk' = ReleaseChunk(p)
  /\ children' = ChildrenAfterExit(p)
  /\ parent' = Reparent(p)
  /\ waiters' = WaitersAfterExit(p)
  /\ waiters_sem' = SemAfterExit(p)
  /\ rbtree' = rbtree \ {pid[p]}
  /\ heap' = heap \ {p}
  /\ UNCHANGED <<machine, readyq, memory_num, pid, faulted>>

(* The process whose waiters_sem the exit of p signals; the bug would      *)
(* always signal init.                                                     *)
BugNotified(p) == InitProc

Notified(p) == parent[p]

(* Any other process stays as a zombie of its parent, which V may wake.    *)
do_exit_zombie(p) ==
  LET t == Thread("exit", p)
      q == Notified(p)
      wakes == waiters_sem[q] < 0 IN
  /\ Runs(t)
  /\ pid[parent[p]] # 0
  /\ memory_chunk' = ReleaseChunk(p)
  /\ children' = ChildrenAfterExit(p)
  /\ parent' = Reparent(p)
  /\ waiters' = [WaitersAfterExit(p) EXCEPT ![parent[p]] = Append(@, p)]
  /\ waiters_sem' = [SemAfterExit(p) EXCEPT ![q] = @ + 1]
  /\ runnable' = (runnable \ {t})
                   \cup (IF wakes THEN {Thread("reap", q)} ELSE {})
  /\ blocked' = IF wakes THEN blocked \ {Thread("wait", q)} ELSE blocked
  /\ UNCHANGED <<machine, readyq, heap, memory_num, pids, faulted>>

-----------------------------------------------------------------------------
(* do_wait: P(waiters_sem), then free the first zombie and return its pid. *)
do_wait_block(p) ==
  LET t == Thread("wait", p) IN
  /\ Runs(t)
  /\ waiters_sem[p] <= 0
  /\ waiters_sem' = [waiters_sem EXCEPT ![p] = @ - 1]
  /\ runnable' = runnable \ {t}
  /\ blocked' = blocked \cup {t}
  /\ UNCHANGED <<machine, readyq, heap, parent, children, waiters, pids,
                 memory, faulted>>

Reap(p) ==
  LET z == Head(waiters[p]) IN
  /\ waiters[p] # <<>>
  /\ waiters' = [waiters EXCEPT ![p] = Tail(@)]
  /\ rbtree' = rbtree \ {pid[z]}
  /\ heap' = heap \ {z}
  /\ readyq' = syscall_return(readyq, p)
  /\ UNCHANGED <<machine, parent, children, pid, memory, faulted>>

do_wait(p) ==
  LET t == Thread("wait", p) IN
  /\ Runs(t) /\ Finish(t, {})
  /\ waiters_sem[p] > 0
  /\ waiters_sem' = [waiters_sem EXCEPT ![p] = @ - 1]
  /\ Reap(p)

do_wait_resume(p) ==
  LET t == Thread("reap", p) IN
  /\ Runs(t) /\ Finish(t, {})
  /\ Reap(p)
  /\ UNCHANGED waiters_sem

-----------------------------------------------------------------------------
Scheduler == scheduler_halt \/ scheduler_noop \/ scheduler_run

KernelThread(p) ==
  \/ do_other(p) \/ do_execve(p) \/ do_io_return(p) \/ do_io_block(p)
  \/ do_fork(p) \/ do_fork_fail(p) \/ finish_fork(p)
  \/ do_exit_orphan(p) \/ do_exit_zombie(p)
  \/ do_wait_block(p) \/ do_wait(p) \/ do_wait_resume(p)

Kernel == Boot \/ Scheduler \/ \E p \in PCBs : KernelThread(p)

Exception == Fault \/ SyscallHalt \/ \E op \in SyscallOps : Syscall(op)

Interrupt == TimerInt \/ ConsoleInt

(* The simulator has stopped.                                              *)
Stopped == cpu \in Final /\ UNCHANGED vars

Next == Kernel \/ Exception \/ Interrupt \/ Stopped

Spec == Init /\ [][Next]_vars

(* Kernel code runs to its end, and start_timer(10) bounds the time a      *)
(* process keeps the CPU.                                                  *)
Fairness == WF_vars(Kernel) /\ WF_vars(cpu = "user" /\ TimerInt)

FairSpec == Spec /\ Fairness

-----------------------------------------------------------------------------
(* Safety.                                                                 *)

(* The values the variables range over: the scheduler's, and the process   *)
(* table's.                                                                *)
SchedTypeOK ==
  /\ cpu \in CpuModes
  /\ curr \in PCBs \cup {NULL}
  /\ is_noop \in BOOLEAN
  /\ readyq \in Seq(PCBs)
  /\ runnable \in SUBSET Threads
  /\ blocked \in SUBSET Threads
  /\ faulted \in SUBSET PCBs

TableTypeOK ==
  /\ heap \in SUBSET PCBs
  /\ parent \in [PCBs -> Procs]
  /\ children \in [Procs -> SUBSET PCBs]
  /\ waiters \in [Procs -> Seq(PCBs)]
  /\ waiters_sem \in [Procs -> Int]
  /\ pid \in [Procs -> 0 .. MaxPid]
  /\ rbtree \in SUBSET (0 .. MaxPid)
  /\ memory_chunk \in [Chunks -> {0, 1}]
  /\ memory_num \in [PCBs -> Chunks]

TypeOK == SchedTypeOK /\ TableTypeOK

(* Every live process is in exactly one place: it has the CPU, it is in    *)
(* readyq once, or one kernel thread serves it.  Zombies and freed PCBs    *)
(* are in none, so curr and readyq never lead to a PCB that was freed.     *)
(* Only a process that faulted is nowhere.                                 *)
OnePlace ==
  /\ IsInjective(readyq)
  /\ runnable \cap blocked = {}
  /\ \A t, u \in runnable \cup blocked : t.pcb = u.pcb => t = u
  /\ \A p \in PCBs :
       /\ ~(Running(p) /\ Queued(p))
       /\ ~(Running(p) /\ InKernel(p))
       /\ ~(Queued(p) /\ InKernel(p))
       /\ (Running(p) \/ Queued(p) \/ InKernel(p)) => Alive(p) /\ p \notin faulted
       /\ Alive(p) /\ p \notin faulted /\ cpu \notin Final
            => Running(p) \/ Queued(p) \/ InKernel(p)

(* The family pointers agree: children and waiters are the two halves of   *)
(* the inverse of parent, hold no PCB twice and none that was freed, every *)
(* allocated PCB is in one of them, and only init and live processes have  *)
(* any.                                                                    *)
FamilyInv ==
  /\ \A q \in Procs :
       /\ children[q] \cup ToSet(waiters[q]) \subseteq {p \in heap : parent[p] = q}
       /\ children[q] \cap ToSet(waiters[q]) = {}
       /\ IsInjective(waiters[q])
  /\ \A p \in heap : p \in children[parent[p]] \cup ToSet(waiters[parent[p]])
  /\ \A q \in PCBs : children[q] # {} \/ waiters[q] # <<>> => Alive(q)

Waits(q) == Thread("wait", q) \in blocked
Reaps(q) == Thread("reap", q) \in runnable
One(b) == IF b THEN 1 ELSE 0

(* The semaphore of do_wait counts the zombies that no thread has been     *)
(* promised, less the thread that sleeps; a thread that V released always  *)
(* finds a zombie, and nobody sleeps in wait with a zombie to reap.        *)
SemInv ==
  /\ \A q \in Procs : q = InitProc \/ Alive(q) =>
       waiters_sem[q] = Len(waiters[q]) - One(Waits(q)) - One(Reaps(q))
  /\ \A q \in Procs : Reaps(q) => waiters[q] # <<>>
  /\ \A q \in Procs : Waits(q) => waiters[q] = <<>>

(* Each live process owns one chunk of memory that no other one owns, and  *)
(* a chunk is taken exactly while a live process owns it.                  *)
ChunkInv ==
  /\ \A p, q \in PCBs :
       Alive(p) /\ Alive(q) /\ memory_num[p] = memory_num[q] => p = q
  /\ \A i \in Chunks :
       memory_chunk[i] = 1 <=> \E p \in PCBs : Alive(p) /\ memory_num[p] = i

(* pids of live processes and zombies are distinct, none is init's, and    *)
(* rbtree holds no others: the trees keyed by pid are keyed by process,    *)
(* and a parent's pid is 0 only when the parent is init.                   *)
PidInv ==
  /\ pid[InitProc] = 0
  /\ \A p \in heap : pid[p] # 0
  /\ \A p, q \in heap : pid[p] = pid[q] => p = q
  /\ rbtree \ {0} = {pid[p] : p \in heap}

(* SYSHalt from the scheduler never loses a live process, and whatever     *)
(* was allocated by then are zombies that exited before their parents did. *)
HaltSafe ==
  cpu = "halt" => /\ \A p \in PCBs : ~Alive(p)
                  /\ heap = ToSet(waiters[InitProc])

(* The tree is rooted: every set of live processes has a member whose      *)
(* parent is outside, so following parents ends at init.                   *)
AncestryInv ==
  \A S \in SUBSET {p \in PCBs : Alive(p)} :
    S # {} => \E p \in S : parent[p] \notin S

-----------------------------------------------------------------------------
(* The inductive invariant: the above and what the steps rely on.          *)

(* In user mode and in noop every kernel thread has finished or blocked,   *)
(* and is_noop says which of the two it is.                                *)
MachineInv ==
  /\ cpu \in {"user", "noop"} => runnable = {}
  /\ cpu = "user" => curr \in PCBs /\ ~is_noop
  /\ cpu = "noop" => is_noop

(* Only init's thread boots, and nothing exists before it has.             *)
Booting == Thread("boot", InitProc) \in runnable
BootInv ==
  /\ \A t \in runnable \cup blocked : t.op = "boot" <=> t.pcb = InitProc
  /\ Booting =>
       /\ readyq = <<>> /\ heap = {} /\ faulted = {} /\ rbtree = {}
       /\ \A t \in runnable \cup blocked : t.pcb = InitProc
       /\ \A q \in Procs : waiters_sem[q] = 0
       /\ \A i \in Chunks : memory_chunk[i] = 0

(* Only read, write, close and wait block; a fault ends no process.        *)
ThreadInv ==
  /\ \A t \in blocked : t.op \in {"io", "wait"}
  /\ \A p \in faulted : Alive(p)
  /\ heap # {} => 0 \in rbtree

IInv ==
  /\ TypeOK /\ MachineInv /\ BootInv /\ ThreadInv
  /\ OnePlace /\ FamilyInv /\ AncestryInv /\ SemInv
  /\ ChunkInv /\ PidInv /\ HaltSafe

-----------------------------------------------------------------------------
(* Refinement: seen from outside, a process is absent, live or a zombie.   *)
Life == [p \in PCBs |-> IF p \notin heap THEN "absent"
                        ELSE IF p \in children[parent[p]] THEN "live"
                        ELSE "zombie"]
Kin == [p \in PCBs |-> IF p \in heap THEN parent[p] ELSE InitProc]

PL == INSTANCE ProcLife WITH Procs <- PCBs, Root <- InitProc,
                             life <- Life, kin <- Kin,
                             halted <- (cpu = "halt")

(* fork, exit, wait and the scheduler's halt implement the process tree    *)
(* that ProcLife specifies.                                                *)
ImplementsProcLife == PL!Spec

-----------------------------------------------------------------------------
(* Liveness.  Bound on the abstracted I/O: the kernel threads that are     *)
(* running always come to block or finish.                                 *)
KernelReturns == []<>(runnable = {})

(* A process in readyq gets the CPU, whatever the others do, unless the    *)
(* simulator stops: nobody starves under round robin with the timer.       *)
QueuedRuns ==
  KernelReturns =>
    \A p \in PCBs : Queued(p) ~> Running(p) \/ cpu \in Final

(* A process that has called wait and has an exited child returns from it. *)
WaitReturns ==
  KernelReturns =>
    \A p \in PCBs :
      (\E op \in {"wait", "reap"} : Thread(op, p) \in runnable \cup blocked)
        /\ waiters[p] # <<>> ~> Queued(p) \/ cpu \in Final

(* Once the last process has exited the scheduler halts the machine.       *)
LastExitHalts ==
  (0 \in rbtree /\ children[InitProc] = {}) ~> cpu \in Final

-----------------------------------------------------------------------------
(* What the documents and tests say and the code does not do.              *)

(* exception.c:2-4 says everything but a system call "core dumps": a       *)
(* process that faults should end.  The handler only calls scheduler().    *)
FaultTerminates ==
  \A p \in PCBs : p \in faulted ~> ~Alive(p) \/ cpu \in Final

(* test/fork-exec-stress.c:28 loops until wait() is no longer positive: a  *)
(* process with no child left should not sleep in wait.  do_wait does.     *)
NoChildlessWait ==
  \A p \in PCBs : Waits(p) => children[p] # {} \/ waiters[p] # <<>>
=============================================================================
