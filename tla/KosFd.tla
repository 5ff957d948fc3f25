---------------------------------- MODULE KosFd ----------------------------------
(***************************************************************************)
(* The descriptor tables: pipe, dup, dup2, close, and what fork and exit   *)
(* do to the tables and to the two counts of every struct Pipe.            *)
(*                                                                         *)
(* PCB.fd[i] is a pointer to a struct Fd, and two descriptors of a process *)
(* may share one.  No two processes share any: fork copies each slot.      *)
(* Here fd[p][i] names the slot the struct was allocated for.              *)
(*                                                                         *)
(* None of these calls ever waits in P, so each is one action; what a pipe *)
(* holds and how read and write wait is KosPipe's.                         *)
(***************************************************************************)
EXTENDS Integers, FiniteSets

CONSTANTS
  Procs, Creator,  (* the processes, and the first one                     *)
  NULL,
  NFds,            (* descriptors of a process: 64                         *)
  Pipes,           (* the addresses malloc can hand out for a struct Pipe  *)
  MaxDups          (* bound: dups of a pipe's ends while it is allocated   *)

ASSUME KosFdAssumption ==
  /\ IsFiniteSet(Procs) /\ Creator \in Procs
  /\ IsFiniteSet(Pipes) /\ NULL \notin Pipes
  /\ NFds \in Nat /\ NFds >= 3 /\ MaxDups \in Nat

FDs == 0 .. (NFds - 1)
Stdio == 0 .. 2
NoFd == -1

(* struct Fd; reference_count is written and never read.                   *)
File == [console : BOOLEAN, open : BOOLEAN, isread : BOOLEAN, my_pipe : Pipes \cup {NULL}]
Ends == {"read_count", "write_count"}

(* What the simulator's process does: it runs, or has followed the NULL    *)
(* pipe of a console, another NULL pointer, or the pointer to a freed pipe.*)
Machine == {"runs", "console", "null", "freed"}

VARIABLES
  alive,    (* processes that were forked and have not exited              *)
  fd, file, (* PCB.fd, and the structs it points to                        *)
  pipe,     (* the counts of each struct Pipe                              *)
  heap,     (* pipes allocated and not freed                               *)
  inside,   (* the descriptor in whose pipe a process sleeps, or NoFd      *)
  machine,
  dups,     (* history: calls of dup and dup2 on each end of a pipe        *)
  careless  (* history: dup2 hit an open descriptor of a pipe, or pipe ran *)
            (* out of descriptors                                          *)

table == <<fd, file>>
history == <<dups, careless>>
vars == <<alive, table, pipe, heap, inside, machine, history>>

Zero == [e \in Ends |-> 0]

-----------------------------------------------------------------------------
StdFile(i) == [console |-> i \in Stdio, open |-> i \in Stdio, isread |-> i = 0,
               my_pipe |-> NULL]

(* The tables of initialize_user_process; those of the other processes are *)
(* written by fork before they are used.                                   *)
OwnSlots == [i \in FDs |-> i]

Init ==
  /\ alive = {Creator}
  /\ fd = [p \in Procs |-> OwnSlots]
  /\ file = [p \in Procs |-> [i \in FDs |-> StdFile(i)]]
  /\ pipe = [a \in Pipes |-> Zero] /\ heap = {}
  /\ inside = [p \in Procs |-> NoFd]
  /\ machine = "runs"
  /\ dups = [a \in Pipes |-> Zero] /\ careless = FALSE

FileOf(p, i) == file[p][fd[p][i]]
IsOpen(p, i) == FileOf(p, i).open
Closed(p) == {i \in FDs : ~IsOpen(p, i)}
Aliases(p, i) == {j \in FDs : fd[p][j] = fd[p][i]}
End(f) == IF f.isread THEN "read_count" ELSE "write_count"

(* The lowest descriptor of a set: the search loops of do_pipe and do_dup. *)
Lowest(i, S) == i \in S /\ \A j \in S : i <= j

(* The structs of pipe ends that p has open, each one once.                *)
Held(p) ==
  {s \in {fd[p][i] : i \in FDs} : file[p][s].open /\ ~file[p][s].console}
EndsOf(p, a, e) == {s \in Held(p) : file[p][s].my_pipe = a /\ End(file[p][s]) = e}

(* What comes of following my_pipe.                                        *)
Follow(f) ==
  IF f.my_pipe = NULL THEN IF f.console THEN "console" ELSE "null"
  ELSE IF f.my_pipe \in heap THEN "runs" ELSE "freed"
Valid(f) == Follow(f) = "runs"

(* Kernel threads of other calls run one at a time to their end.           *)
Ready(p) == machine = "runs" /\ p \in alive /\ inside[p] = NoFd

-----------------------------------------------------------------------------
(* do_pipe opens the two lowest closed descriptors.  The first one is      *)
(* opened before the second is looked for, and so are those that share its *)
(* struct.  The bug would look for both at once.                           *)
BugSecondChoice(p, r) == Closed(p)

SecondChoice(p, r) == Closed(p) \ Aliases(p, r)

do_pipe(p, a) ==
  /\ Ready(p) /\ a \notin heap
  /\ \E r, w \in FDs :
       /\ Lowest(r, Closed(p)) /\ Lowest(w, SecondChoice(p, r))
       /\ file' = [file EXCEPT
            ![p][fd[p][r]] = [@ EXCEPT !.open = TRUE, !.my_pipe = a, !.isread = TRUE],
            ![p][fd[p][w]] = [@ EXCEPT !.open = TRUE, !.my_pipe = a, !.isread = FALSE]]
  /\ heap' = heap \cup {a}
  /\ pipe' = [pipe EXCEPT ![a] = [e \in Ends |-> 1]]
  /\ dups' = [dups EXCEPT ![a] = Zero]
  /\ UNCHANGED <<alive, fd, inside, machine, careless>>

(* -EMFILE: the pipe was allocated already, and if there was a first       *)
(* descriptor it stays open, with whatever its struct held.                *)
do_pipe_full(p, a) ==
  /\ Ready(p) /\ a \notin heap
  /\ \/ Closed(p) = {} /\ UNCHANGED file
     \/ \E r \in FDs :
          /\ Lowest(r, Closed(p)) /\ SecondChoice(p, r) = {}
          /\ file' = [file EXCEPT ![p][fd[p][r]].open = TRUE]
  /\ heap' = heap \cup {a}
  /\ careless' = TRUE
  /\ UNCHANGED <<alive, fd, pipe, inside, machine, dups>>

(* do_dup and do_dup2: descriptor j shares the struct of i from now on,    *)
(* and i's end of the pipe is counted once more.                           *)
Share(p, i, j) ==
  LET f == FileOf(p, i) IN
  /\ dups[f.my_pipe][End(f)] < MaxDups
  /\ fd' = [fd EXCEPT ![p][j] = fd[p][i]]
  /\ dups' = [dups EXCEPT ![f.my_pipe][End(f)] = @ + 1]
  /\ UNCHANGED <<alive, heap, inside, machine>>

do_dup(p, i) ==
  /\ Ready(p) /\ IsOpen(p, i) /\ Valid(FileOf(p, i))
  /\ \E j \in FDs : Lowest(j, Closed(p)) /\ Share(p, i, j)
  /\ pipe' = [pipe EXCEPT ![FileOf(p, i).my_pipe][End(FileOf(p, i))] = @ + 1]
  /\ UNCHANGED <<file, careless>>

do_dup2(p, i, j) ==
  /\ Ready(p) /\ IsOpen(p, i) /\ Valid(FileOf(p, i)) /\ ~IsOpen(p, j)
  /\ Share(p, i, j)
  /\ pipe' = [pipe EXCEPT ![FileOf(p, i).my_pipe][End(FileOf(p, i))] = @ + 1]
  /\ UNCHANGED <<file, careless>>

(* dup2 onto an open descriptor first closes its struct and takes one off  *)
(* both counts of its pipe, which is not freed.                            *)
do_dup2_open(p, i, j) ==
  LET g == FileOf(p, j)
      closing == [pipe EXCEPT ![g.my_pipe] = [e \in Ends |-> @[e] - 1]] IN
  /\ Ready(p) /\ IsOpen(p, i) /\ IsOpen(p, j) /\ j \notin Aliases(p, i)
  /\ Valid(g) /\ Valid(FileOf(p, i))
  /\ Share(p, i, j)
  /\ file' = [file EXCEPT ![p][fd[p][j]] =
                [@ EXCEPT !.console = FALSE, !.my_pipe = NULL, !.open = FALSE]]
  /\ pipe' = [closing EXCEPT ![FileOf(p, i).my_pipe][End(FileOf(p, i))] = @ + 1]
  /\ careless' = TRUE

-----------------------------------------------------------------------------
(* A pipe is freed by the close that leaves it without ends; the bug would *)
(* only look at the end that is closed.                                    *)
BugUnused(c) == c.read_count = 0

Unused(c) == c.read_count = 0 /\ c.write_count = 0

(* do_close on a pipe; on a console it returns 0 and does nothing.         *)
do_close(p, i) ==
  LET f == FileOf(p, i) IN
  /\ Ready(p) /\ f.open /\ ~f.console /\ Valid(f)
  /\ pipe' = [pipe EXCEPT ![f.my_pipe][End(f)] = @ - 1]
  /\ file' = [file EXCEPT ![p][fd[p][i]].open = FALSE]
  /\ heap' = IF Unused(pipe'[f.my_pipe]) THEN heap \ {f.my_pipe} ELSE heap
  /\ UNCHANGED <<alive, fd, inside, machine, history>>

(* The ends of a pipe that fork adds: one per open descriptor, so two that *)
(* share a struct count as two.  The bug would count structs.              *)
BugForkedEnds(p, a, e) == Cardinality(EndsOf(p, a, e))

ForkedEnds(p, a, e) == Cardinality({i \in FDs : fd[p][i] \in EndsOf(p, a, e)})

(* do_fork: the child gets a struct of its own for every slot.             *)
do_fork(p, c) ==
  /\ Ready(p) /\ c \notin alive
  /\ \A s \in Held(p) : Valid(file[p][s])
  /\ alive' = alive \cup {c}
  /\ fd' = [fd EXCEPT ![c] = OwnSlots]
  /\ file' = [file EXCEPT ![c] = [i \in FDs |-> FileOf(p, i)]]
  /\ pipe' = [a \in Pipes |-> [e \in Ends |-> pipe[a][e] + ForkedEnds(p, a, e)]]
  /\ UNCHANGED <<heap, inside, machine, history>>

(* do_exit goes through the slots and closes each open struct when it      *)
(* first meets it.  The bug would close it once for every slot.            *)
BugExitedEnds(p, a, e) == ForkedEnds(p, a, e)

ExitedEnds(p, a, e) == Cardinality(EndsOf(p, a, e))

(* Both counts come to 0 at a slot k, the pipe is freed, and the loop goes *)
(* on to another of its ends.                                              *)
FreedTooEarly(p, a) ==
  \E k \in FDs :
    LET Met(e) == EndsOf(p, a, e) \cap {fd[p][i] : i \in 0 .. k} IN
    /\ \A e \in Ends : Cardinality(Met(e)) = pipe[a][e]
    /\ \E e \in Ends : Met(e) # {}
    /\ \E e \in Ends : Met(e) # EndsOf(p, a, e)

do_exit(p) ==
  /\ Ready(p)
  /\ \A s \in Held(p) : Valid(file[p][s]) /\ ~FreedTooEarly(p, file[p][s].my_pipe)
  /\ alive' = alive \ {p}
  /\ pipe' = [a \in Pipes |-> [e \in Ends |-> pipe[a][e] - ExitedEnds(p, a, e)]]
  /\ heap' = {a \in heap : Unused(pipe'[a]) => \A s \in Held(p) : file[p][s].my_pipe # a}
  /\ fd' = [fd EXCEPT ![p] = OwnSlots]
  /\ file' = [file EXCEPT ![p] = [i \in FDs |-> StdFile(i)]]
  /\ UNCHANGED <<inside, machine, history>>

-----------------------------------------------------------------------------
(* read and write look the pipe up, sleep in it, and look it up again when *)
(* they wake.  A write to a pipe without readers is refused.               *)
io_sleep(p, i) ==
  LET f == FileOf(p, i) IN
  /\ Ready(p) /\ f.open /\ ~f.console /\ Valid(f)
  /\ f.isread \/ pipe[f.my_pipe].read_count # 0
  /\ inside' = [inside EXCEPT ![p] = i]
  /\ UNCHANGED <<alive, table, pipe, heap, machine, history>>

io_wake(p) ==
  /\ machine = "runs" /\ inside[p] # NoFd
  /\ Valid(FileOf(p, inside[p]))
  /\ inside' = [inside EXCEPT ![p] = NoFd]
  /\ UNCHANGED <<alive, table, pipe, heap, machine, history>>

(* Any call on an open descriptor, fork, exit, or a call that wakes, may   *)
(* follow a pointer that is not to a pipe.  dup2 of a descriptor onto one  *)
(* that shares its struct sets the pointer to NULL and follows it.         *)
crash(p) ==
  /\ machine = "runs" /\ p \in alive
  /\ \/ \E i \in FDs :
          /\ inside[p] = NoFd \/ inside[p] = i
          /\ IsOpen(p, i)
          /\ machine' = Follow(FileOf(p, i)) /\ machine' # "runs"
          /\ UNCHANGED careless
     \/ \E i, j \in FDs :
          /\ Ready(p) /\ IsOpen(p, i) /\ j \in Aliases(p, i)
          /\ Valid(FileOf(p, i))
          /\ machine' = "null" /\ careless' = TRUE
     \/ /\ Ready(p)
        /\ \E s \in Held(p) :
             Valid(file[p][s]) /\ FreedTooEarly(p, file[p][s].my_pipe)
        /\ machine' = "freed" /\ UNCHANGED careless
  /\ UNCHANGED <<alive, table, pipe, heap, inside, dups>>

Next ==
  \E p \in Procs :
    \/ \E a \in Pipes : do_pipe(p, a) \/ do_pipe_full(p, a)
    \/ \E i \in FDs : do_dup(p, i) \/ do_close(p, i) \/ io_sleep(p, i)
    \/ \E i, j \in FDs : do_dup2(p, i, j) \/ do_dup2_open(p, i, j)
    \/ \E c \in Procs : do_fork(p, c)
    \/ do_exit(p) \/ io_wake(p) \/ crash(p)

Spec == Init /\ [][Next]_vars

-----------------------------------------------------------------------------
TypeOK ==
  /\ alive \subseteq Procs
  /\ fd \in [Procs -> [FDs -> FDs]] /\ file \in [Procs -> [FDs -> File]]
  /\ pipe \in [Pipes -> [Ends -> Int]] /\ heap \subseteq Pipes
  /\ inside \in [Procs -> FDs \cup {NoFd}]
  /\ machine \in Machine
  /\ dups \in [Pipes -> [Ends -> 0 .. MaxDups]] /\ careless \in BOOLEAN
  /\ ~careless => pipe \in [Pipes -> [Ends -> Nat]]

(* The counts of a pipe are its open ends, over all processes, and one for *)
(* every dup that was ever made of an end: close and exit close a shared   *)
(* struct for all its descriptors but count it once.                       *)
OpenEnds(a, e) == UNION {{<<p, s>> : s \in EndsOf(p, a, e)} : p \in alive}
CountInv ==
  ~careless =>
    \A a \in heap, e \in Ends : pipe[a][e] = Cardinality(OpenEnds(a, e)) + dups[a][e]

(* A pipe stays allocated as long as a descriptor is open on it, or a      *)
(* process sleeps in it; no call follows a pointer to a freed pipe, and    *)
(* none a NULL pointer but that of a console.                              *)
LifeInv ==
  ~careless =>
    /\ machine \in {"runs", "console"}
    /\ \A p \in alive : \A s \in Held(p) : file[p][s].my_pipe \in heap
    /\ \A p \in Procs : inside[p] # NoFd => p \in alive /\ fd[p][inside[p]] \in Held(p)

(* A pipe none of whose ends was ever shared is freed with its last        *)
(* descriptor, by whichever close or exit that is.                         *)
LeakInv ==
  ~careless =>
    \A a \in heap : dups[a] = Zero => \E e \in Ends : OpenEnds(a, e) # {}

-----------------------------------------------------------------------------
(* What a program of the repository expects and the code does not do.      *)

(* tee-pipe.c:119-125 dups the read end of a pipe, then closes "the        *)
(* duplicate", and reads from the other one.  In KOS that closes both.     *)
CloseClosesOne ==
  [][\A p \in alive \cap alive' :
       Cardinality({i \in FDs : IsOpen(p, i) /\ ~IsOpen(p, i)'}) <= 1]_vars
=================================================================================
