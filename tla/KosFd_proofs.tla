----------------------------- MODULE KosFd_proofs -----------------------------
(***************************************************************************)
(* The descriptor tables, for any number of processes, descriptors and     *)
(* pipes and any sharing of structs by dup: as long as no call was         *)
(* careless, a pipe's counts are its open ends and its dups, no pipe is    *)
(* freed under a descriptor, and one whose ends were never shared is freed *)
(* with the last of them.                                                  *)
(*                                                                         *)
(* The three properties need each other: that exit and close free a pipe   *)
(* only when nobody has it open follows from the counts, and that the      *)
(* counts are kept needs that a pipe malloc hands out is open nowhere.     *)
(***************************************************************************)
EXTENDS KosFd, FiniteSetTheorems, TLAPS

Types ==
  /\ alive \subseteq Procs
  /\ fd \in [Procs -> [FDs -> FDs]] /\ file \in [Procs -> [FDs -> File]]
  /\ pipe \in [Pipes -> [Ends -> Int]] /\ heap \subseteq Pipes
  /\ inside \in [Procs -> FDs \cup {NoFd}]
  /\ machine \in Machine
  /\ dups \in [Pipes -> [Ends -> 0 .. MaxDups]] /\ careless \in BOOLEAN

(* A console is never closed and belongs to no pipe.                       *)
Consoles ==
  \A p \in Procs, s \in FDs :
    file[p][s].console => file[p][s].open /\ file[p][s].my_pipe = NULL

Allocated == \A p \in alive : \A s \in Held(p) : file[p][s].my_pipe \in heap

Sleepers ==
  \A p \in Procs : inside[p] # NoFd => p \in alive /\ fd[p][inside[p]] \in Held(p)

Counted ==
  \A a \in heap, e \in Ends : pipe[a][e] = Cardinality(OpenEnds(a, e)) + dups[a][e]

Cleared == \A a \in Pipes \ heap : pipe[a] = Zero

Unleaked == \A a \in heap : dups[a] = Zero => \E e \in Ends : OpenEnds(a, e) # {}

Tables ==
  /\ machine \in {"runs", "console"}
  /\ Consoles /\ Allocated /\ Sleepers /\ Counted /\ Cleared /\ Unleaked

FdInv == Types /\ (~careless => Tables)

-----------------------------------------------------------------------------
(* A call goes on only if it has followed a pointer to a pipe.             *)
LEMMA ValidPipe ==
  ASSUME NEW f, Valid(f)
  PROVE  f.my_pipe \in heap
BY DEF Valid, Follow

(* The types of what a call looks at.                                      *)
LEMMA Typed ==
  ASSUME Types, NEW p \in Procs, NEW i \in FDs
  PROVE  /\ fd[p][i] \in FDs /\ FileOf(p, i) \in File /\ FileOf(p, i) = file[p][fd[p][i]]
         /\ End(FileOf(p, i)) \in Ends
BY DEF Types, FileOf, End, Ends

(* Storing one struct.                                                     *)
LEMMA Store ==
  ASSUME NEW F \in [Procs -> [FDs -> File]], NEW p \in Procs, NEW s \in FDs, NEW g \in File,
         NEW G, G = [F EXCEPT ![p][s] = g]
  PROVE  /\ G \in [Procs -> [FDs -> File]]
         /\ \A q \in Procs, t \in FDs : G[q][t] = IF q = p /\ t = s THEN g ELSE F[q][t]
<1>1. F[p] \in [FDs -> File] /\ [F[p] EXCEPT ![s] = g] \in [FDs -> File]
  OBVIOUS
<1>2. G = [F EXCEPT ![p] = [F[p] EXCEPT ![s] = g]]
  OBVIOUS
<1>3. \A q \in Procs : G[q] = IF q = p THEN [F[p] EXCEPT ![s] = g] ELSE F[q]
  BY <1>2
<1> QED BY <1>1, <1>2, <1>3

(* The structs of a new pipe's two ends.                                   *)
OpensEnds(p, a, r, w) ==
  file' = [file EXCEPT
    ![p][fd[p][r]] = [@ EXCEPT !.open = TRUE, !.my_pipe = a, !.isread = TRUE],
    ![p][fd[p][w]] = [@ EXCEPT !.open = TRUE, !.my_pipe = a, !.isread = FALSE]]

LEMMA PipeFiles ==
  ASSUME Types, NEW p \in Procs, NEW a \in Pipes, NEW r \in FDs, NEW w \in FDs,
         OpensEnds(p, a, r, w),
         NEW x \in FDs, NEW y \in FDs, x = fd[p][r], y = fd[p][w], x # y
  PROVE  /\ file' \in [Procs -> [FDs -> File]]
         /\ file'[p][x].open /\ file'[p][x].my_pipe = a /\ file'[p][x].isread
         /\ file'[p][x].console = file[p][x].console
         /\ file'[p][y].open /\ file'[p][y].my_pipe = a /\ ~file'[p][y].isread
         /\ file'[p][y].console = file[p][y].console
         /\ \A q, s : q \in Procs /\ s \in FDs /\ ~(q = p /\ s \in {x, y})
                        => file'[q][s] = file[q][s]
<1>1. PICK g, h : /\ g = [file[p][x] EXCEPT !.open = TRUE, !.my_pipe = a, !.isread = TRUE]
                  /\ h = [file[p][y] EXCEPT !.open = TRUE, !.my_pipe = a, !.isread = FALSE]
  OBVIOUS
<1>2. file[p][x] \in File /\ file[p][y] \in File
  BY DEF Types
<1>3. /\ g \in File /\ g.open /\ g.my_pipe = a /\ g.isread /\ g.console = file[p][x].console
      /\ h \in File /\ h.open /\ h.my_pipe = a /\ ~h.isread /\ h.console = file[p][y].console
  BY <1>1, <1>2 DEF File
<1>4. PICK F : F = [file EXCEPT ![p][x] = g]
  OBVIOUS
<1>5. /\ F \in [Procs -> [FDs -> File]]
      /\ \A q \in Procs, t \in FDs : F[q][t] = IF q = p /\ t = x THEN g ELSE file[q][t]
  BY <1>3, <1>4, Store DEF Types
<1>6. F[p][y] = file[p][y]
  BY <1>5
<1>7. file' = [F EXCEPT ![p][y] = h]
  BY <1>1, <1>4, <1>6 DEF OpensEnds
<1>8. PICK G : G = file'
  OBVIOUS
<1>9. /\ G \in [Procs -> [FDs -> File]]
       /\ \A q \in Procs, t \in FDs : G[q][t] = IF q = p /\ t = y THEN h ELSE F[q][t]
  BY <1>3, <1>5, <1>7, <1>8, Store
<1> QED BY <1>3, <1>5, <1>8, <1>9

(* Opening or closing a struct.                                            *)
LEMMA Opened ==
  ASSUME Types, NEW p \in Procs, NEW i \in FDs, NEW b \in BOOLEAN,
         file' = [file EXCEPT ![p][fd[p][i]].open = b]
  PROVE  /\ file' \in [Procs -> [FDs -> File]]
         /\ \A q \in Procs, s \in FDs :
              file'[q][s] = IF q = p /\ s = fd[p][i] THEN [file[p][s] EXCEPT !.open = b]
                            ELSE file[q][s]
<1>1. PICK x \in FDs : x = fd[p][i]
  BY DEF Types
<1>2. PICK g : g = [file[p][x] EXCEPT !.open = b]
  OBVIOUS
<1>3. file[p][x] \in File
  BY DEF Types
<1>4. g \in File
  BY <1>2, <1>3 DEF File
<1>5. PICK G : G = file'
  OBVIOUS
<1>6. G = [file EXCEPT ![p][x] = g]
  BY <1>1, <1>2, <1>5
<1>7. /\ G \in [Procs -> [FDs -> File]]
      /\ \A q \in Procs, t \in FDs : G[q][t] = IF q = p /\ t = x THEN g ELSE file[q][t]
  BY <1>4, <1>6, Store DEF Types
<1> QED BY <1>1, <1>2, <1>5, <1>7

LEMMA PipeTypes ==
  ASSUME Types, NEW p \in Procs, NEW a \in Pipes, do_pipe(p, a) \/ do_pipe_full(p, a)
  PROVE  Types'
<1>1. CASE do_pipe(p, a)
  <2>1. PICK r \in FDs, w \in FDs :
         w \notin Aliases(p, r) /\ OpensEnds(p, a, r, w)
    BY <1>1 DEF do_pipe, Lowest, SecondChoice, OpensEnds
  <2>2. file' \in [Procs -> [FDs -> File]]
    <3>1. PICK x \in FDs, y \in FDs : x = fd[p][r] /\ y = fd[p][w] /\ x # y
      BY <2>1 DEF Aliases, Types
    <3> QED BY <2>1, <3>1, PipeFiles
  <2>3. /\ heap' = heap \cup {a} /\ pipe' = [pipe EXCEPT ![a] = [e \in Ends |-> 1]]
        /\ dups' = [dups EXCEPT ![a] = Zero]
        /\ UNCHANGED <<alive, fd, inside, machine, careless>>
    BY <1>1 DEF do_pipe
  <2>4. Zero \in [Ends -> 0 .. MaxDups]
    BY KosFdAssumption DEF Zero
  <2>5. pipe' \in [Pipes -> [Ends -> Int]] /\ dups' \in [Pipes -> [Ends -> 0 .. MaxDups]]
    BY <2>3, <2>4 DEF Types
  <2> QED BY <2>2, <2>3, <2>5 DEF Types
<1>2. CASE do_pipe_full(p, a)
  <2>1. file' = file \/ \E r \in FDs : file' = [file EXCEPT ![p][fd[p][r]].open = TRUE]
    BY <1>2 DEF do_pipe_full
  <2>2. file' \in [Procs -> [FDs -> File]]
    <3>1. CASE file' = file
      BY <3>1 DEF Types
    <3>2. ASSUME NEW r \in FDs, file' = [file EXCEPT ![p][fd[p][r]].open = TRUE]
          PROVE  file' \in [Procs -> [FDs -> File]]
      BY <3>2, Opened
    <3> QED BY <2>1, <3>1, <3>2
  <2>3. /\ heap' = heap \cup {a} /\ careless' = TRUE
        /\ UNCHANGED <<alive, fd, pipe, inside, machine, dups>>
    BY <1>2 DEF do_pipe_full
  <2> QED BY <2>2, <2>3 DEF Types
<1> QED BY <1>1, <1>2

LEMMA ShareTypes ==
  ASSUME Types, NEW p \in Procs, NEW i \in FDs, NEW j \in FDs, Share(p, i, j),
         Valid(FileOf(p, i))
  PROVE  /\ fd' \in [Procs -> [FDs -> FDs]] /\ dups' \in [Pipes -> [Ends -> 0 .. MaxDups]]
         /\ FileOf(p, i).my_pipe \in Pipes
         /\ UNCHANGED <<alive, heap, inside, machine>>
<1>1. PICK f : f = FileOf(p, i)
  OBVIOUS
<1>2. f.my_pipe \in Pipes /\ End(f) \in Ends /\ fd[p][i] \in FDs
  BY <1>1, Typed, ValidPipe DEF Types
<1>3. /\ dups[f.my_pipe][End(f)] < MaxDups
      /\ fd' = [fd EXCEPT ![p][j] = fd[p][i]]
      /\ dups' = [dups EXCEPT ![f.my_pipe][End(f)] = @ + 1]
      /\ UNCHANGED <<alive, heap, inside, machine>>
  BY <1>1 DEF Share
<1>4. dups[f.my_pipe][End(f)] + 1 \in 0 .. MaxDups
  BY <1>2, <1>3, KosFdAssumption DEF Types
<1>5. dups' \in [Pipes -> [Ends -> 0 .. MaxDups]]
  BY <1>2, <1>3, <1>4 DEF Types
<1> QED BY <1>1, <1>2, <1>3, <1>5 DEF Types

LEMMA DupTypes ==
  ASSUME Types, NEW p \in Procs, NEW i \in FDs, NEW j \in FDs,
         Valid(FileOf(p, i)), Share(p, i, j),
         pipe' = [pipe EXCEPT ![FileOf(p, i).my_pipe][End(FileOf(p, i))] = @ + 1],
         UNCHANGED <<file, careless>>
  PROVE  Types'
<1>1. pipe' \in [Pipes -> [Ends -> Int]]
  BY ShareTypes, Typed DEF Types
<1> QED BY <1>1, ShareTypes DEF Types

LEMMA Dup2OpenTypes ==
  ASSUME Types, NEW p \in Procs, NEW i \in FDs, NEW j \in FDs, do_dup2_open(p, i, j)
  PROVE  Types'
<1>1. Valid(FileOf(p, i)) /\ Share(p, i, j)
  BY DEF do_dup2_open
<1>2. file' \in [Procs -> [FDs -> File]]
  <2>1. PICK x \in FDs : x = fd[p][j]
    BY DEF Types
  <2>2. PICK g : g = [file[p][x] EXCEPT !.console = FALSE, !.my_pipe = NULL, !.open = FALSE]
    OBVIOUS
  <2>3. g \in File
    <3>1. file[p][x] \in File
      BY DEF Types
    <3> QED BY <2>2, <3>1 DEF File
  <2>4. file' = [file EXCEPT ![p][x] = g]
    BY <2>1, <2>2 DEF do_dup2_open
  <2> QED BY <2>3, <2>4, Store DEF Types
<1>3. PICK closing \in [Pipes -> [Ends -> Int]] :
        pipe' = [closing EXCEPT ![FileOf(p, i).my_pipe][End(FileOf(p, i))] = @ + 1]
  <2>1. [pipe EXCEPT ![FileOf(p, j).my_pipe] = [e \in Ends |-> @[e] - 1]]
          \in [Pipes -> [Ends -> Int]]
    <3>1. Valid(FileOf(p, j))
      BY DEF do_dup2_open
    <3>2. FileOf(p, j).my_pipe \in Pipes
      BY <3>1, ValidPipe DEF Types
    <3>3. [e \in Ends |-> pipe[FileOf(p, j).my_pipe][e] - 1] \in [Ends -> Int]
      BY <3>2 DEF Types
    <3> QED BY <3>2, <3>3 DEF Types
  <2> QED BY <2>1 DEF do_dup2_open
<1>4. pipe' \in [Pipes -> [Ends -> Int]]
  BY <1>1, <1>3, ShareTypes, Typed
<1>5. careless' = TRUE
  BY DEF do_dup2_open
<1> QED BY <1>1, <1>2, <1>4, <1>5, ShareTypes DEF Types

LEMMA CloseTypes ==
  ASSUME Types, NEW p \in Procs, NEW i \in FDs, do_close(p, i)
  PROVE  Types'
<1>1. FileOf(p, i).my_pipe \in heap
  BY ValidPipe DEF do_close
<1>2. pipe' \in [Pipes -> [Ends -> Int]]
  BY <1>1, Typed DEF do_close, Types
<1>3. file' \in [Procs -> [FDs -> File]]
  BY Opened DEF do_close
<1>4. heap' \subseteq heap /\ UNCHANGED <<alive, fd, inside, machine, dups, careless>>
  BY DEF do_close, history
<1> QED BY <1>2, <1>3, <1>4 DEF Types

(* Counts of descriptors and of structs are numbers.                       *)
LEMMA EndCounts ==
  ASSUME NEW p \in Procs, NEW a \in Pipes, NEW e \in Ends, Types
  PROVE  /\ EndsOf(p, a, e) \subseteq FDs /\ IsFiniteSet(EndsOf(p, a, e))
         /\ ExitedEnds(p, a, e) \in Nat /\ ForkedEnds(p, a, e) \in Nat
         /\ IsFiniteSet({i \in FDs : fd[p][i] \in EndsOf(p, a, e)})
<1>1. IsFiniteSet(FDs)
  BY FS_Interval, KosFdAssumption DEF FDs
<1>2. EndsOf(p, a, e) \subseteq FDs
  BY DEF EndsOf, Held, Types
<1>3. {i \in FDs : fd[p][i] \in EndsOf(p, a, e)} \subseteq FDs
  OBVIOUS
<1> QED BY <1>1, <1>2, <1>3, FS_Subset, FS_CardinalityType DEF ExitedEnds, ForkedEnds

LEMMA ForkTypes ==
  ASSUME Types, NEW p \in Procs, NEW c \in Procs, do_fork(p, c)
  PROVE  Types'
<1>1. /\ alive' = alive \cup {c} /\ fd' = [fd EXCEPT ![c] = OwnSlots]
      /\ file' = [file EXCEPT ![c] = [i \in FDs |-> FileOf(p, i)]]
      /\ pipe' = [a \in Pipes |-> [e \in Ends |-> pipe[a][e] + ForkedEnds(p, a, e)]]
      /\ UNCHANGED <<heap, inside, machine, dups, careless>>
  BY DEF do_fork, history
<1>2. fd' \in [Procs -> [FDs -> FDs]]
  BY <1>1 DEF OwnSlots, Types
<1>3. file' \in [Procs -> [FDs -> File]]
  BY <1>1, Typed DEF Types
<1>4. \A a \in Pipes, e \in Ends : pipe[a][e] + ForkedEnds(p, a, e) \in Int
  <2> TAKE a \in Pipes, e \in Ends
  <2>1. pipe[a][e] \in Int
    BY DEF Types
  <2>2. ForkedEnds(p, a, e) \in Nat
    BY EndCounts
  <2> QED BY <2>1, <2>2
<1>5. pipe' \in [Pipes -> [Ends -> Int]]
  BY <1>1, <1>4
<1> QED BY <1>1, <1>2, <1>3, <1>5 DEF Types

LEMMA StdFiles == OwnSlots \in [FDs -> FDs] /\ [i \in FDs |-> StdFile(i)] \in [FDs -> File]
BY DEF OwnSlots, StdFile, File

LEMMA ExitTypes ==
  ASSUME Types, NEW p \in Procs, do_exit(p)
  PROVE  Types'
<1>1. /\ alive' = alive \ {p} /\ heap' \subseteq heap
      /\ pipe' = [a \in Pipes |-> [e \in Ends |-> pipe[a][e] - ExitedEnds(p, a, e)]]
      /\ fd' = [fd EXCEPT ![p] = OwnSlots]
      /\ file' = [file EXCEPT ![p] = [i \in FDs |-> StdFile(i)]]
      /\ UNCHANGED <<inside, machine, dups, careless>>
  BY DEF do_exit, history
<1>2. fd' \in [Procs -> [FDs -> FDs]] /\ file' \in [Procs -> [FDs -> File]]
  BY <1>1, StdFiles DEF Types
<1>3. \A a \in Pipes, e \in Ends : pipe[a][e] - ExitedEnds(p, a, e) \in Int
  <2> TAKE a \in Pipes, e \in Ends
  <2>1. pipe[a][e] \in Int
    BY DEF Types
  <2>2. ExitedEnds(p, a, e) \in Nat
    BY EndCounts
  <2> QED BY <2>1, <2>2
<1>4. pipe' \in [Pipes -> [Ends -> Int]]
  BY <1>1, <1>3
<1> QED BY <1>1, <1>2, <1>4 DEF Types

LEMMA OtherTypes ==
  ASSUME Types, NEW p \in Procs,
         (\E i \in FDs : io_sleep(p, i)) \/ io_wake(p) \/ crash(p) \/ UNCHANGED vars
  PROVE  Types'
<1>1. CASE (\E i \in FDs : io_sleep(p, i)) \/ io_wake(p)
  <2>1. inside' \in [Procs -> FDs \cup {NoFd}]
    BY <1>1 DEF io_sleep, io_wake, Types
  <2> QED BY <1>1, <2>1 DEF io_sleep, io_wake, table, history, Types
<1>2. CASE crash(p)
  <2>1. machine' \in Machine /\ careless' \in BOOLEAN
    BY <1>2 DEF crash, Follow, Machine, Types
  <2>2. UNCHANGED <<alive, fd, file, pipe, heap, inside, dups>>
    BY <1>2 DEF crash, table
  <2> QED BY <2>1, <2>2 DEF Types
<1>3. CASE UNCHANGED vars
  BY <1>3 DEF vars, table, history, Types
<1> QED BY <1>1, <1>2, <1>3

LEMMA TypesStep ==
  ASSUME Types, [Next]_vars
  PROVE  Types'
<1>1. ASSUME NEW p \in Procs, NEW i \in FDs, do_dup(p, i) PROVE Types'
  <2>1. PICK j \in FDs : Share(p, i, j)
    BY <1>1 DEF do_dup
  <2> QED BY <1>1, <2>1, DupTypes DEF do_dup
<1>2. ASSUME NEW p \in Procs, NEW i \in FDs, NEW j \in FDs, do_dup2(p, i, j) PROVE Types'
  BY <1>2, DupTypes DEF do_dup2
<1>3. CASE UNCHANGED vars
  BY <1>3, KosFdAssumption, OtherTypes
<1>4. CASE Next
  BY <1>1, <1>2, <1>4, PipeTypes, Dup2OpenTypes, CloseTypes, ForkTypes, ExitTypes, OtherTypes
     DEF Next
<1> QED BY <1>3, <1>4

-----------------------------------------------------------------------------
(* Counting the open ends of a pipe.                                       *)

LEMMA OpenPairs ==
  \A a, e, q, s : <<q, s>> \in OpenEnds(a, e) <=> q \in alive /\ s \in EndsOf(q, a, e)
BY DEF OpenEnds

LEMMA OpenFinite ==
  ASSUME Types, NEW a \in Pipes, NEW e \in Ends
  PROVE  /\ OpenEnds(a, e) \subseteq Procs \X FDs /\ IsFiniteSet(OpenEnds(a, e))
         /\ Cardinality(OpenEnds(a, e)) \in Nat
<1>1. OpenEnds(a, e) \subseteq Procs \X FDs
  <2>1. \A q \in alive : q \in Procs /\ EndsOf(q, a, e) \subseteq FDs
    BY EndCounts DEF Types
  <2> QED BY <2>1 DEF OpenEnds
<1>2. IsFiniteSet(Procs) /\ IsFiniteSet(FDs)
  BY FS_Interval, KosFdAssumption DEF FDs
<1>3. IsFiniteSet(Procs \X FDs)
  BY <1>2, FS_Product
<1>4. IsFiniteSet(OpenEnds(a, e))
  BY <1>1, <1>3, FS_Subset
<1> QED BY <1>1, <1>4, FS_CardinalityType

CountsFinite ==
  \A a \in Pipes, e \in Ends :
    IsFiniteSet(OpenEnds(a, e)) /\ Cardinality(OpenEnds(a, e)) \in Nat

LEMMA AllFinite == Types => CountsFinite
BY OpenFinite DEF CountsFinite

(* One process's ends, as a part of all.                                   *)
LEMMA PairCount ==
  ASSUME NEW q, NEW S, IsFiniteSet(S),
         NEW T, \A x : x \in T <=> \E s \in S : x = <<q, s>>
  PROVE  IsFiniteSet(T) /\ Cardinality(T) = Cardinality(S)
<1>1. PICK f : f = [s \in S |-> <<q, s>>]
  OBVIOUS
<1>2. f \in Bijection(S, T)
  BY <1>1 DEF Bijection, Injection, Surjection, IsInjective
<1>3. ExistsBijection(S, T)
  BY <1>2 DEF ExistsBijection
<1> QED BY <1>3, FS_Bijection

(* What is counted with and without one process.                           *)
LEMMA JoinCount ==
  ASSUME NEW q, NEW S, IsFiniteSet(S), NEW U, IsFiniteSet(U), NEW V,
         V = U \cup {<<q, s>> : s \in S}, \A s \in S : <<q, s>> \notin U
  PROVE  Cardinality(V) = Cardinality(U) + Cardinality(S)
<1>1. PICK T : T = {<<q, s>> : s \in S}
  OBVIOUS
<1>2. IsFiniteSet(T) /\ Cardinality(T) = Cardinality(S)
  <2>1. \A x : x \in T <=> \E s \in S : x = <<q, s>>
    BY <1>1
  <2> QED BY <2>1, PairCount
<1>3. U \cap T = {} /\ V = U \cup T
  BY <1>1
<1>4. Cardinality(U) \in Nat /\ Cardinality(S) \in Nat
  BY FS_CardinalityType
<1> QED BY <1>2, <1>3, <1>4, FS_Union, FS_EmptySet

(* A process whose descriptors a step leaves alone.                        *)
LEMMA SameTable ==
  ASSUME NEW q, fd'[q] = fd[q], file'[q] = file[q]
  PROVE  Held(q)' = Held(q) /\ \A a, e : EndsOf(q, a, e)' = EndsOf(q, a, e)
BY DEF Held, EndsOf

(* Steps that change neither tables nor processes.                         *)
LEMMA SameTables ==
  ASSUME UNCHANGED <<alive, fd, file>>
  PROVE  \A a, e : OpenEnds(a, e)' = OpenEnds(a, e)
<1>1. \A q, a, e : EndsOf(q, a, e)' = EndsOf(q, a, e)
  BY SameTable
<1> QED BY <1>1 DEF OpenEnds

-----------------------------------------------------------------------------
(* One lemma for each call that is not careless.                           *)

(* read and write, and a call that follows a wrong pointer: the only one   *)
(* is a console's.                                                         *)
LEMMA SleepStep ==
  ASSUME Types, Tables, NEW p \in Procs, (\E i \in FDs : io_sleep(p, i)) \/ io_wake(p)
  PROVE  Tables'
<1>1. UNCHANGED <<alive, fd, file, pipe, heap, machine, dups, careless>>
  BY DEF io_sleep, io_wake, table, history
<1>2. /\ \A q \in Procs : Held(q)' = Held(q)
      /\ \A a, e : OpenEnds(a, e)' = OpenEnds(a, e)
  BY <1>1, SameTable, SameTables
<1>3. Sleepers'
  <2>1. ASSUME NEW i \in FDs, io_sleep(p, i) PROVE Sleepers'
    <3>1. fd[p][i] \in Held(p) /\ p \in alive /\ inside' = [inside EXCEPT ![p] = i]
      BY <2>1 DEF io_sleep, Held, FileOf, Ready
    <3> QED BY <1>1, <1>2, <3>1 DEF Tables, Sleepers, Types
  <2>2. CASE io_wake(p)
    BY <1>1, <1>2, <2>2 DEF io_wake, Tables, Sleepers, Types
  <2> QED BY <2>1, <2>2
<1>4. Consoles' /\ Allocated' /\ Cleared'
  BY <1>1, <1>2 DEF Tables, Consoles, Allocated, Cleared, Types
<1>5. Counted' /\ Unleaked'
  BY <1>1, <1>2 DEF Tables, Counted, Unleaked
<1> QED BY <1>1, <1>3, <1>4, <1>5 DEF Tables

LEMMA CrashStep ==
  ASSUME Types, Tables, NEW p \in Procs, crash(p), ~careless'
  PROVE  Tables'
<1>1. UNCHANGED <<alive, fd, file, pipe, heap, inside, dups>> /\ p \in alive
  BY DEF crash, table
<1>2. machine' = "console"
  <2>1. CASE \E i \in FDs : IsOpen(p, i) /\ machine' = Follow(FileOf(p, i)) /\ machine' # "runs"
    <3>1. PICK i \in FDs :
            IsOpen(p, i) /\ machine' = Follow(FileOf(p, i)) /\ machine' # "runs"
      BY <2>1
    <3>2. CASE FileOf(p, i).console
      <4>1. FileOf(p, i).my_pipe = NULL
        BY <3>2, Typed DEF Tables, Consoles
      <4> QED BY <3>1, <3>2, <4>1 DEF Follow
    <3>3. CASE ~FileOf(p, i).console
      <4>1. fd[p][i] \in Held(p)
        BY <3>1, <3>3 DEF Held, IsOpen, FileOf
      <4>2. FileOf(p, i).my_pipe \in heap
        BY <1>1, <4>1 DEF Tables, Allocated, FileOf
      <4>3. FileOf(p, i).my_pipe # NULL
        BY <4>2, KosFdAssumption DEF Types
      <4> QED BY <3>1, <4>2, <4>3 DEF Follow
    <3> QED BY <3>2, <3>3
  <2>2. CASE \E s \in Held(p) :
               Valid(file[p][s]) /\ FreedTooEarly(p, file[p][s].my_pipe)
    <3>1. PICK a : a \in heap /\ FreedTooEarly(p, a)
      BY <2>2, ValidPipe
    <3>2. \A e \in Ends : Cardinality(EndsOf(p, a, e)) <= pipe[a][e]
      <4> TAKE e \in Ends
      <4>1. a \in Pipes /\ dups[a][e] \in 0 .. MaxDups
        BY <3>1 DEF Types
      <4>2. PICK T : T = {<<p, s>> : s \in EndsOf(p, a, e)}
        OBVIOUS
      <4>3. Cardinality(T) = Cardinality(EndsOf(p, a, e))
        <5>1. \A x : x \in T <=> \E s \in EndsOf(p, a, e) : x = <<p, s>>
          BY <4>2
        <5>2. IsFiniteSet(EndsOf(p, a, e))
          BY <4>1, EndCounts
        <5> QED BY <5>1, <5>2, PairCount
      <4>4. T \subseteq OpenEnds(a, e)
        BY <1>1, <4>2, OpenPairs
      <4>5. Cardinality(T) <= Cardinality(OpenEnds(a, e)) /\ Cardinality(T) \in Nat
        BY <4>1, <4>4, OpenFinite, FS_Subset, FS_CardinalityType
      <4>6. pipe[a][e] = Cardinality(OpenEnds(a, e)) + dups[a][e]
        BY <3>1 DEF Tables, Counted
      <4> QED BY <4>1, <4>3, <4>5, <4>6, OpenFinite, KosFdAssumption
    <3>3. PICK Met \in [Ends -> SUBSET FDs] :
            /\ \A e \in Ends : /\ Met[e] \subseteq EndsOf(p, a, e)
                              /\ Cardinality(Met[e]) = pipe[a][e]
            /\ \E e \in Ends : Met[e] # EndsOf(p, a, e)
      <4>1. PICK k \in FDs :
              /\ \A e \in Ends :
                   Cardinality(EndsOf(p, a, e) \cap {fd[p][i] : i \in 0 .. k}) = pipe[a][e]
              /\ \E e \in Ends :
                   EndsOf(p, a, e) \cap {fd[p][i] : i \in 0 .. k} # EndsOf(p, a, e)
        BY <3>1 DEF FreedTooEarly
      <4>2. PICK M : M = [e \in Ends |-> EndsOf(p, a, e) \cap {fd[p][i] : i \in 0 .. k}]
        OBVIOUS
      <4>3. \A e \in Ends : EndsOf(p, a, e) \subseteq FDs
        BY <3>1, EndCounts DEF Types
      <4>4. M \in [Ends -> SUBSET FDs]
        BY <4>2, <4>3
      <4> QED BY <4>1, <4>2, <4>4
    <3>4. ASSUME NEW e \in Ends PROVE Met[e] = EndsOf(p, a, e)
      <4>1. IsFiniteSet(EndsOf(p, a, e)) /\ Cardinality(EndsOf(p, a, e)) \in Nat
        BY <3>1, EndCounts, FS_CardinalityType DEF Types
      <4>2. Met[e] \subseteq EndsOf(p, a, e) /\ Cardinality(Met[e]) = pipe[a][e]
        BY <3>3
      <4>3. Cardinality(Met[e]) <= Cardinality(EndsOf(p, a, e))
        BY <4>1, <4>2, FS_Subset
      <4>4. Cardinality(Met[e]) \in Nat
        BY <4>1, <4>2, FS_Subset, FS_CardinalityType
      <4>5. Cardinality(EndsOf(p, a, e)) = Cardinality(Met[e])
        BY <3>2, <4>1, <4>2, <4>3, <4>4
      <4> QED BY <4>1, <4>2, <4>5, FS_Subset
    <3> QED BY <3>3, <3>4
  <2> QED BY <2>1, <2>2 DEF crash
<1>3. /\ \A q \in Procs : Held(q)' = Held(q)
      /\ \A a, e : OpenEnds(a, e)' = OpenEnds(a, e)
  BY <1>1, SameTable, SameTables
<1>4. Consoles' /\ Allocated' /\ Cleared' /\ Sleepers'
  BY <1>1, <1>3 DEF Tables, Consoles, Allocated, Cleared, Sleepers, Types
<1>5. Counted' /\ Unleaked'
  BY <1>1, <1>3 DEF Tables, Counted, Unleaked
<1> QED BY <1>2, <1>4, <1>5 DEF Tables

(* pipe: the two structs were closed, and nobody has an end of the pipe    *)
(* that malloc hands out.                                                  *)
LEMMA PipeStep ==
  ASSUME Types, Types', Tables, NEW p \in Procs, NEW a \in Pipes, do_pipe(p, a)
  PROVE  Tables'
<1>1. PICK r \in FDs, w \in FDs :
        /\ r \in Closed(p) /\ w \in Closed(p) /\ w \notin Aliases(p, r)
        /\ OpensEnds(p, a, r, w)
  BY DEF do_pipe, Lowest, SecondChoice, OpensEnds
<1>2. PICK x \in FDs, y \in FDs : x = fd[p][r] /\ y = fd[p][w]
  BY DEF Types
<1>3. x # y
  BY <1>1, <1>2 DEF Aliases
<1>4. /\ p \in alive /\ inside[p] = NoFd /\ a \notin heap
      /\ heap' = heap \cup {a} /\ pipe' = [pipe EXCEPT ![a] = [e \in Ends |-> 1]]
      /\ dups' = [dups EXCEPT ![a] = Zero]
      /\ UNCHANGED <<alive, fd, inside, machine, careless>>
  BY DEF do_pipe, Ready
<1>5. /\ ~file[p][x].open /\ ~file[p][x].console /\ file[p][x] \in File
      /\ ~file[p][y].open /\ ~file[p][y].console /\ file[p][y] \in File
  <2>1. ~file[p][x].open /\ ~file[p][y].open
    BY <1>1, <1>2 DEF Closed, IsOpen, FileOf
  <2>2. file[p][x] \in File /\ file[p][y] \in File
    BY DEF Types
  <2> QED BY <2>1, <2>2 DEF Tables, Consoles
<1>6. \A q, s : q \in Procs /\ s \in FDs /\ ~(q = p /\ s \in {x, y})
                  => file'[q][s] = file[q][s]
  BY <1>1, <1>2, <1>3, PipeFiles
<1>7. \A s \in FDs \ {x, y} : file'[p][s] = file[p][s]
  BY <1>6
<1>8. /\ file'[p][x].open /\ file'[p][x].my_pipe = a /\ ~file'[p][x].console
      /\ file'[p][x].isread
      /\ file'[p][y].open /\ file'[p][y].my_pipe = a /\ ~file'[p][y].console
      /\ ~file'[p][y].isread
  BY <1>1, <1>2, <1>3, <1>5, PipeFiles
<1>9. /\ \A q \in Procs \ {p} : /\ Held(q)' = Held(q)
                               /\ \A b, e : EndsOf(q, b, e)' = EndsOf(q, b, e)
      /\ \A q \in Procs : Held(q) \subseteq FDs
  <2>1. ASSUME NEW q \in Procs \ {p} PROVE fd'[q] = fd[q] /\ file'[q] = file[q]
    BY <1>1, <1>4 DEF OpensEnds, Types
  <2> QED BY <2>1, SameTable DEF Held, Types
<1>10. x \notin Held(p) /\ y \notin Held(p) /\ Held(p)' = Held(p) \cup {x, y}
  <2>1. x \in {fd[p][i] : i \in FDs} /\ y \in {fd[p][i] : i \in FDs}
    BY <1>2
  <2>2. {fd[p][i] : i \in FDs} \subseteq FDs /\ fd' = fd
    BY <1>4 DEF Types
  <2>3. x \notin Held(p) /\ y \notin Held(p)
    BY <1>5 DEF Held
  <2>4. \A s : s \in Held(p)' <=> s \in {fd[p][i] : i \in FDs}
                                  /\ file'[p][s].open /\ ~file'[p][s].console
    BY <2>2 DEF Held
  <2>5. \A s : s \in Held(p)' <=> s \in Held(p) \/ s = x \/ s = y
    BY <1>7, <1>8, <2>1, <2>2, <2>3, <2>4 DEF Held
  <2> QED BY <2>3, <2>5
<1>11. \A q \in alive : \A s \in Held(q) : file[q][s].my_pipe # a
  BY <1>4 DEF Tables, Allocated
<1>12. \A b, e : b # a => EndsOf(p, b, e)' = EndsOf(p, b, e)
  <2> SUFFICES ASSUME NEW b, NEW e, b # a
      PROVE  \A s : s \in EndsOf(p, b, e)' <=> s \in EndsOf(p, b, e)
    BY DEF EndsOf
  <2>1. \A s : s \in EndsOf(p, b, e)' <=>
                 s \in Held(p)' /\ file'[p][s].my_pipe = b /\ End(file'[p][s]) = e
    BY DEF EndsOf, End
  <2>2. \A s \in Held(p) : file'[p][s] = file[p][s]
    BY <1>7, <1>9, <1>10
  <2> QED BY <1>8, <1>10, <2>1, <2>2 DEF EndsOf
<1>13. \A b, e : b # a => OpenEnds(b, e)' = OpenEnds(b, e)
  <2>1. \A q, b, e : q \in alive /\ b # a => EndsOf(q, b, e)' = EndsOf(q, b, e)
    BY <1>9, <1>12 DEF Types
  <2> QED BY <1>4, <2>1 DEF OpenEnds
<1>14. \A e \in Ends : OpenEnds(a, e)' = {<<p, IF e = "read_count" THEN x ELSE y>>}
  <2> TAKE e \in Ends
  <2>1. EndsOf(p, a, e)' = {IF e = "read_count" THEN x ELSE y}
    <3>1. End(file[p][x])' = "read_count" /\ End(file[p][y])' = "write_count"
      BY <1>8 DEF End
    <3>2. \A s \in Held(p) : file'[p][s].my_pipe # a
      BY <1>4, <1>6, <1>9, <1>10, <1>11
    <3>3. e = "read_count" \/ e = "write_count"
      BY DEF Ends
    <3>4. EndsOf(p, a, e)' =
            {s \in Held(p)' : file'[p][s].my_pipe = a /\ End(file[p][s])' = e}
      BY DEF EndsOf
    <3>5. \A s : s \in EndsOf(p, a, e)' <=>
                   (s = x /\ e = "read_count") \/ (s = y /\ e = "write_count")
      BY <1>8, <1>10, <3>1, <3>2, <3>3, <3>4
    <3> QED BY <1>3, <3>3, <3>5
  <2>2. \A q \in alive \ {p} : EndsOf(q, a, e)' = {}
    <3> TAKE q \in alive \ {p}
    <3>1. EndsOf(q, a, e) = {}
      BY <1>11 DEF EndsOf
    <3> QED BY <1>9, <3>1 DEF Types
  <2>3. \A q, s : <<q, s>> \in OpenEnds(a, e)' <=> q \in alive /\ s \in EndsOf(q, a, e)'
    BY <1>4 DEF OpenEnds
  <2>4. OpenEnds(a, e)' = UNION {{<<q, s>> : s \in EndsOf(q, a, e)'} : q \in alive}
    BY <1>4 DEF OpenEnds
  <2> QED BY <1>4, <2>1, <2>2, <2>4
<1>15. Counted'
  <2> SUFFICES ASSUME NEW b \in heap', NEW e \in Ends
      PROVE  pipe'[b][e] = Cardinality(OpenEnds(b, e)') + dups'[b][e]
    BY DEF Counted
  <2>1. CASE b = a
    <3>1. pipe'[b][e] = 1 /\ dups'[b][e] = 0
      BY <1>4, <2>1 DEF Types, Zero
    <3>2. PICK V, z : V = OpenEnds(a, e)' /\ V = {z}
      BY <1>14
    <3>3. Cardinality(V) = 1
      BY <3>2, FS_Singleton
    <3> QED BY <2>1, <3>1, <3>2, <3>3
  <2>2. CASE b # a
    <3>1. b \in heap /\ pipe'[b] = pipe[b] /\ dups'[b] = dups[b]
      BY <1>4, <2>2 DEF Types
    <3> QED BY <1>13, <2>2, <3>1 DEF Tables, Counted
  <2> QED BY <2>1, <2>2
<1>16. Consoles'
  <2> SUFFICES ASSUME NEW q \in Procs, NEW s \in FDs, file'[q][s].console
      PROVE  file'[q][s].open /\ file'[q][s].my_pipe = NULL
    BY DEF Consoles
  <2>1. file'[q][s] = file[q][s]
    <3>1. ~(q = p /\ s \in {x, y})
      BY <1>8
    <3> QED BY <1>6, <3>1
  <2> QED BY <2>1 DEF Tables, Consoles
<1>17. Allocated'
  <2> SUFFICES ASSUME NEW q \in alive, NEW s \in Held(q)' PROVE file'[q][s].my_pipe \in heap'
    BY <1>4 DEF Allocated
  <2>1. q \in Procs
    BY DEF Types
  <2>2. CASE q = p /\ s \in {x, y}
    BY <1>4, <1>8, <2>2
  <2>3. CASE ~(q = p /\ s \in {x, y})
    <3>1. s \in Held(q) /\ s \in FDs
      BY <1>9, <1>10, <2>1, <2>3
    <3>2. file'[q][s] = file[q][s]
      BY <1>6, <2>1, <2>3, <3>1
    <3> QED BY <1>4, <3>1, <3>2 DEF Tables, Allocated
  <2> QED BY <2>2, <2>3
<1>18. Sleepers'
  <2> SUFFICES ASSUME NEW q \in Procs, inside'[q] # NoFd
      PROVE  q \in alive' /\ fd'[q][inside'[q]] \in Held(q)'
    BY DEF Sleepers
  <2>1. inside[q] # NoFd /\ q # p
    BY <1>4
  <2>2. q \in alive /\ fd[q][inside[q]] \in Held(q)
    BY <2>1 DEF Tables, Sleepers
  <2> QED BY <1>4, <1>9, <2>1, <2>2
<1>19. Cleared'
  BY <1>4 DEF Tables, Cleared, Types
<1>20. Unleaked'
  <2> SUFFICES ASSUME NEW b \in heap', dups'[b] = Zero
      PROVE  \E e \in Ends : OpenEnds(b, e)' # {}
    BY DEF Unleaked
  <2>1. CASE b = a
    BY <1>14, <2>1 DEF Ends
  <2>2. CASE b # a
    <3>1. b \in heap /\ dups'[b] = dups[b]
      BY <1>4, <2>2 DEF Types
    <3> QED BY <1>13, <2>2, <3>1 DEF Tables, Unleaked
  <2> QED BY <2>1, <2>2
<1> QED BY <1>4, <1>15, <1>16, <1>17, <1>18, <1>19, <1>20 DEF Tables

(* dup, and dup2 onto a closed descriptor: the struct j had is closed, the *)
(* one it has now was held already.                                        *)
LEMMA DupStep ==
  ASSUME Types, Types', Tables, NEW p \in Procs, NEW i \in FDs, NEW j \in FDs,
         Ready(p), IsOpen(p, i), Valid(FileOf(p, i)), ~IsOpen(p, j), Share(p, i, j),
         pipe' = [pipe EXCEPT ![FileOf(p, i).my_pipe][End(FileOf(p, i))] = @ + 1],
         UNCHANGED <<file, careless>>
  PROVE  Tables'
<1>1. PICK b \in Pipes, d \in Ends : b = FileOf(p, i).my_pipe /\ d = End(FileOf(p, i))
  BY ShareTypes, Typed
<1>2. /\ fd' = [fd EXCEPT ![p][j] = fd[p][i]]
      /\ dups' = [dups EXCEPT ![b][d] = @ + 1] /\ pipe' = [pipe EXCEPT ![b][d] = @ + 1]
      /\ UNCHANGED <<alive, heap, inside, machine, file, careless>>
  BY <1>1 DEF Share
<1>3. \A q \in Procs, k \in FDs :
        fd'[q][k] = IF q = p /\ k = j THEN fd[p][i] ELSE fd[q][k]
  BY <1>2 DEF Types
<1>4. Held(p)' = Held(p)
  <2>1. ~file[p][fd[p][j]].open /\ file' = file
    BY <1>2 DEF IsOpen, FileOf
  <2> QED BY <1>3, <2>1 DEF Held
<1>5. \A q \in Procs : /\ Held(q)' = Held(q)
                      /\ \A a, e : EndsOf(q, a, e)' = EndsOf(q, a, e)
  <2> TAKE q \in Procs
  <2>1. Held(q)' = Held(q)
    <3>1. CASE q # p
      <4>1. fd'[q] = fd[q] /\ file'[q] = file[q]
        BY <1>2, <3>1 DEF Types
      <4> QED BY <4>1, SameTable
    <3> QED BY <1>4, <3>1
  <2> QED BY <1>2, <2>1 DEF EndsOf
<1>6. \A a, e : OpenEnds(a, e)' = OpenEnds(a, e)
  BY <1>2, <1>5 DEF OpenEnds, Types
<1>7. Consoles' /\ Allocated' /\ Cleared'
  <2>1. b \in heap
    BY <1>1, ValidPipe
  <2>2. \A a \in Pipes \ heap : pipe'[a] = pipe[a]
    BY <1>2, <2>1 DEF Types
  <2> QED BY <1>2, <1>5, <2>2 DEF Tables, Consoles, Allocated, Cleared, Types
<1>8. Sleepers'
  BY <1>2, <1>3, <1>5 DEF Tables, Sleepers, Ready, Types
<1>9. Counted' /\ Unleaked'
  <2>1. ASSUME NEW a \in heap, NEW e \in Ends
        PROVE  /\ (dups[a][e] \in Nat /\ pipe[a][e] \in Int)
               /\ pipe'[a][e] = pipe[a][e] + (IF a = b /\ e = d THEN 1 ELSE 0)
               /\ dups'[a][e] = dups[a][e] + (IF a = b /\ e = d THEN 1 ELSE 0)
    <3>1. a \in Pipes
      BY DEF Types
    <3>2. dups[a][e] \in 0 .. MaxDups /\ pipe[a][e] \in Int
      BY <3>1 DEF Types
    <3>3. CASE a = b /\ e = d
      BY <1>2, <3>1, <3>2, <3>3, KosFdAssumption DEF Types
    <3>4. CASE ~(a = b /\ e = d)
      BY <1>2, <3>1, <3>2, <3>4, KosFdAssumption DEF Types
    <3> QED BY <3>3, <3>4
  <2>2. Counted'
    <3> SUFFICES ASSUME NEW a \in heap, NEW e \in Ends
        PROVE  pipe'[a][e] = Cardinality(OpenEnds(a, e)') + dups'[a][e]
      BY <1>2 DEF Counted
    <3>1. pipe[a][e] = Cardinality(OpenEnds(a, e)) + dups[a][e]
      BY DEF Tables, Counted
    <3>2. Cardinality(OpenEnds(a, e)) \in Nat
      BY OpenFinite DEF Types
    <3> QED BY <1>6, <2>1, <3>1, <3>2
  <2>3. Unleaked'
    <3> SUFFICES ASSUME NEW a \in heap, dups'[a] = Zero
        PROVE  \E e \in Ends : OpenEnds(a, e)' # {}
      BY <1>2 DEF Unleaked
    <3>1. \A e \in Ends : dups'[a][e] = 0
      BY DEF Zero
    <3>2. \A e \in Ends : dups[a][e] = 0
      BY <2>1, <3>1
    <3>3. dups[a] = Zero
      BY <3>2 DEF Zero, Types
    <3> QED BY <1>6, <3>3 DEF Tables, Unleaked
  <2> QED BY <2>2, <2>3
<1> QED BY <1>2, <1>7, <1>8, <1>9 DEF Tables

(* What the counts say of a pipe after a step: no count means no end, and  *)
(* without dups no end means no count.                                     *)
LEMMA UsesCounted ==
  ASSUME Types', NEW a \in Pipes,
         \A e \in Ends : pipe'[a][e] = Cardinality(OpenEnds(a, e)') + dups'[a][e]
  PROVE  /\ Unused(pipe'[a]) => \A e \in Ends : OpenEnds(a, e)' = {}
         /\ dups'[a] = Zero /\ (\A e \in Ends : OpenEnds(a, e)' = {}) => Unused(pipe'[a])
         /\ Unused(pipe'[a]) => pipe'[a] = Zero
<1>1. \A e \in Ends : /\ IsFiniteSet(OpenEnds(a, e)') /\ Cardinality(OpenEnds(a, e)') \in Nat
                    /\ dups'[a][e] \in Nat
  <2>1. Types' => CountsFinite'
    BY AllFinite, PTL
  <2>2. \A e \in Ends : dups'[a][e] \in 0 .. MaxDups
    BY DEF Types
  <2> QED BY <2>1, <2>2, KosFdAssumption DEF CountsFinite
<1>2. Ends = {"read_count", "write_count"}
  BY DEF Ends
<1>3. \A e \in Ends : Cardinality(OpenEnds(a, e)') = 0 <=> OpenEnds(a, e)' = {}
  BY <1>1, FS_EmptySet
<1>4. Unused(pipe'[a]) <=> \A e \in Ends : pipe'[a][e] = 0
  BY <1>2 DEF Unused
<1>5. Unused(pipe'[a]) => \A e \in Ends : OpenEnds(a, e)' = {}
  <2>1. ASSUME NEW e \in Ends, pipe'[a][e] = 0 PROVE Cardinality(OpenEnds(a, e)') = 0
    BY <1>1, <2>1
  <2> QED BY <1>3, <1>4, <2>1
<1>6. dups'[a] = Zero /\ (\A e \in Ends : OpenEnds(a, e)' = {}) => Unused(pipe'[a])
  <2> SUFFICES ASSUME dups'[a] = Zero, \A e \in Ends : OpenEnds(a, e)' = {}
      PROVE  \A e \in Ends : pipe'[a][e] = 0
    BY <1>4
  <2>1. \A e \in Ends : dups'[a][e] = 0
    BY DEF Zero
  <2> QED BY <1>3, <2>1
<1>7. Unused(pipe'[a]) => pipe'[a] = Zero
  <2>1. pipe'[a] \in [Ends -> Int]
    BY DEF Types
  <2> QED BY <1>4, <2>1 DEF Zero
<1> QED BY <1>5, <1>6, <1>7

LEMMA CloseStep ==
  ASSUME Types, Types', Tables, NEW p \in Procs, NEW i \in FDs, do_close(p, i)
  PROVE  Tables'
<1>1. PICK x \in FDs : x = fd[p][i]
  BY DEF Types
<1>2. PICK b \in Pipes, d \in Ends : b = file[p][x].my_pipe /\ d = End(file[p][x])
  BY <1>1, ValidPipe, Typed DEF do_close, FileOf, Types
<1>3. /\ p \in alive /\ inside[p] = NoFd /\ b \in heap
      /\ file[p][x].open /\ ~file[p][x].console
      /\ pipe' = [pipe EXCEPT ![b][d] = @ - 1]
      /\ heap' = (IF Unused(pipe'[b]) THEN heap \ {b} ELSE heap)
      /\ file' = [file EXCEPT ![p][fd[p][i]].open = FALSE]
      /\ UNCHANGED <<alive, fd, inside, machine, dups, careless>>
  BY <1>1, <1>2, ValidPipe DEF do_close, Ready, FileOf, history
<1>4. \A q \in Procs, s \in FDs :
        file'[q][s] = IF q = p /\ s = x THEN [file[p][s] EXCEPT !.open = FALSE] ELSE file[q][s]
  BY <1>1, <1>3, Opened
<1>5. \A q \in Procs : Held(q)' = IF q = p THEN Held(p) \ {x} ELSE Held(q)
  <2> TAKE q \in Procs
  <2>1. CASE q # p
    <3>1. fd'[q] = fd[q] /\ file'[q] = file[q]
      BY <1>3, <2>1 DEF Types
    <3> QED BY <2>1, <3>1, SameTable
  <2>2. CASE q = p
    <3>1. ~file'[p][x].open
      <4>1. file[p][x] \in File
        BY DEF Types
      <4> QED BY <1>4, <4>1 DEF File
    <3>2. \A s \in FDs \ {x} : file'[p][s] = file[p][s]
      BY <1>4
    <3>3. fd' = fd /\ \A k \in FDs : fd[p][k] \in FDs
      BY <1>3 DEF Types
    <3> QED BY <2>2, <3>1, <3>2, <3>3 DEF Held
  <2> QED BY <2>1, <2>2
<1>6. x \in Held(p) /\ \A q \in Procs : Held(q) \subseteq FDs
  BY <1>1, <1>3 DEF Held, Types
<1>7. \A q, a, e : q \in Procs =>
        EndsOf(q, a, e)' = IF q = p THEN EndsOf(p, a, e) \ {x} ELSE EndsOf(q, a, e)
  BY <1>4, <1>5, <1>6 DEF EndsOf
<1>8. \A a, e : OpenEnds(a, e)' = OpenEnds(a, e) \ {<<p, x>>}
  <2>1. alive' = alive /\ alive \subseteq Procs
    BY <1>3 DEF Types
  <2> QED BY <1>7, <2>1 DEF OpenEnds
<1>9. \A a, e : <<p, x>> \in OpenEnds(a, e) <=> a = b /\ e = d
  BY <1>2, <1>3, <1>6, OpenPairs DEF EndsOf
<1>10. \A a \in heap, e \in Ends :
         pipe'[a][e] = Cardinality(OpenEnds(a, e)') + dups'[a][e]
  <2> TAKE a \in heap, e \in Ends
  <2>1. a \in Pipes
    BY DEF Types
  <2>2. pipe'[a][e] = IF a = b /\ e = d THEN pipe[a][e] - 1 ELSE pipe[a][e]
    BY <1>3, <2>1 DEF Types
  <2>3. Cardinality(OpenEnds(a, e)')
          = IF a = b /\ e = d THEN Cardinality(OpenEnds(a, e)) - 1
            ELSE Cardinality(OpenEnds(a, e))
    BY <1>8, <1>9, <2>1, OpenFinite, FS_RemoveElement
  <2>4. pipe[a][e] = Cardinality(OpenEnds(a, e)) + dups[a][e]
    BY DEF Tables, Counted
  <2>5. Cardinality(OpenEnds(a, e)) \in Nat /\ dups[a][e] \in Int
    BY <2>1, OpenFinite DEF Types
  <2> QED BY <1>3, <2>2, <2>3, <2>4, <2>5
<1>11. /\ Unused(pipe'[b]) => \A e \in Ends : OpenEnds(b, e)' = {}
       /\ dups'[b] = Zero /\ (\A e \in Ends : OpenEnds(b, e)' = {}) => Unused(pipe'[b])
       /\ Unused(pipe'[b]) => pipe'[b] = Zero
  BY <1>3, <1>10, UsesCounted
<1>12. Consoles'
  <2> SUFFICES ASSUME NEW q \in Procs, NEW s \in FDs, file'[q][s].console
      PROVE  file'[q][s].open /\ file'[q][s].my_pipe = NULL
    BY DEF Consoles
  <2>1. CASE q = p /\ s = x
    <3>1. file[p][x] \in File
      BY DEF Types
    <3>2. file'[p][x] = [file[p][x] EXCEPT !.open = FALSE]
      BY <1>4
    <3>3. file'[p][x].console = file[p][x].console
      BY <3>1, <3>2 DEF File
    <3> QED BY <1>3, <2>1, <3>3
  <2>2. CASE ~(q = p /\ s = x)
    <3>1. file'[q][s] = file[q][s]
      BY <1>4, <2>2
    <3> QED BY <3>1 DEF Tables, Consoles
  <2> QED BY <2>1, <2>2
<1>13. Allocated'
  <2> SUFFICES ASSUME NEW q \in alive, NEW s \in Held(q)' PROVE file'[q][s].my_pipe \in heap'
    BY <1>3 DEF Allocated
  <2>1. q \in Procs /\ s \in Held(q) /\ s \in FDs /\ ~(q = p /\ s = x)
    BY <1>5, <1>6 DEF Types
  <2>2. file'[q][s] = file[q][s] /\ file[q][s].my_pipe \in heap
    BY <1>4, <2>1 DEF Tables, Allocated
  <2>3. ASSUME file[q][s].my_pipe = b PROVE ~Unused(pipe'[b])
    <3>1. s \in EndsOf(q, b, End(file[q][s])) /\ End(file[q][s]) \in Ends
      BY <2>1, <2>3 DEF EndsOf, End, Ends
    <3>2. <<q, s>> \in OpenEnds(b, End(file[q][s])) /\ <<q, s>> # <<p, x>>
      BY <2>1, <3>1, OpenPairs
    <3> QED BY <1>8, <1>11, <3>1, <3>2
  <2> QED BY <1>3, <2>2, <2>3
<1>14. Sleepers'
  <2> SUFFICES ASSUME NEW q \in Procs, inside'[q] # NoFd
      PROVE  q \in alive' /\ fd'[q][inside'[q]] \in Held(q)'
    BY DEF Sleepers
  <2>1. inside[q] # NoFd /\ q # p
    BY <1>3
  <2>2. q \in alive /\ fd[q][inside[q]] \in Held(q)
    BY <2>1 DEF Tables, Sleepers
  <2> QED BY <1>3, <1>5, <2>1, <2>2
<1>15. Counted'
  BY <1>3, <1>10 DEF Counted
<1>16. Cleared'
  BY <1>3, <1>11 DEF Tables, Cleared, Types
<1>17. Unleaked'
  <2> SUFFICES ASSUME NEW a \in heap', dups'[a] = Zero
      PROVE  \E e \in Ends : OpenEnds(a, e)' # {}
    BY DEF Unleaked
  <2>1. CASE a = b
    BY <1>3, <1>11, <2>1
  <2>2. CASE a # b
    <3>1. \A e : OpenEnds(a, e)' = OpenEnds(a, e)
      BY <1>8, <1>9, <2>2
    <3> QED BY <1>3, <3>1 DEF Tables, Unleaked
  <2> QED BY <2>1, <2>2
<1> QED BY <1>3, <1>12, <1>13, <1>14, <1>15, <1>16, <1>17 DEF Tables

(* The child of fork has a struct for every descriptor of its parent.      *)
LEMMA ForkStep ==
  ASSUME Types, Types', Tables, NEW p \in Procs, NEW c \in Procs, do_fork(p, c)
  PROVE  Tables'
<1>1. /\ p \in alive /\ c \notin alive
      /\ alive' = alive \cup {c} /\ fd' = [fd EXCEPT ![c] = OwnSlots]
      /\ file' = [file EXCEPT ![c] = [i \in FDs |-> FileOf(p, i)]]
      /\ pipe' = [a \in Pipes |-> [e \in Ends |-> pipe[a][e] + ForkedEnds(p, a, e)]]
      /\ UNCHANGED <<heap, inside, machine, dups, careless>>
  BY DEF do_fork, Ready, history
<1>2. /\ \A i \in FDs : fd'[c][i] = i /\ file'[c][i] = file[p][fd[p][i]] /\ fd[p][i] \in FDs
      /\ \A q \in Procs \ {c} : fd'[q] = fd[q] /\ file'[q] = file[q]
  BY <1>1 DEF OwnSlots, FileOf, Types
<1>3. Held(c)' = {i \in FDs : fd[p][i] \in Held(p)}
  <2>1. Held(c)' = {s \in {fd'[c][i] : i \in FDs} : file'[c][s].open /\ ~file'[c][s].console}
    BY DEF Held
  <2>2. {fd'[c][i] : i \in FDs} = FDs
    BY <1>2
  <2> QED BY <1>2, <2>1, <2>2 DEF Held
<1>4. \A a, e : EndsOf(c, a, e)' = {i \in FDs : fd[p][i] \in EndsOf(p, a, e)}
  BY <1>2, <1>3 DEF EndsOf
<1>5. \A q \in Procs \ {c} : /\ Held(q)' = Held(q)
                            /\ \A a, e : EndsOf(q, a, e)' = EndsOf(q, a, e)
  BY <1>2, SameTable
<1>6. ASSUME NEW a, NEW e
      PROVE  OpenEnds(a, e)' =
               OpenEnds(a, e) \cup {<<c, s>> : s \in {i \in FDs : fd[p][i] \in EndsOf(p, a, e)}}
  <2>1. alive \subseteq Procs \ {c}
    BY <1>1 DEF Types
  <2>2. \A q \in alive : EndsOf(q, a, e)' = EndsOf(q, a, e)
    BY <1>5, <2>1
  <2> QED BY <1>1, <1>4, <2>2 DEF OpenEnds
<1>7. ASSUME NEW a \in heap, NEW e \in Ends
      PROVE  pipe'[a][e] = Cardinality(OpenEnds(a, e)') + dups'[a][e]
  <2>1. a \in Pipes
    BY DEF Types
  <2>2. PICK S : S = {i \in FDs : fd[p][i] \in EndsOf(p, a, e)}
    OBVIOUS
  <2>3. IsFiniteSet(S) /\ Cardinality(S) \in Nat /\ pipe'[a][e] = pipe[a][e] + Cardinality(S)
    BY <1>1, <2>1, <2>2, EndCounts, FS_CardinalityType DEF ForkedEnds
  <2>4. \A s \in S : <<c, s>> \notin OpenEnds(a, e)
    BY <1>1, OpenPairs
  <2>5. PICK V : V = OpenEnds(a, e)'
    OBVIOUS
  <2>6. V = OpenEnds(a, e) \cup {<<c, s>> : s \in S}
    BY <1>6, <2>2, <2>5
  <2>7. Cardinality(V) = Cardinality(OpenEnds(a, e)) + Cardinality(S)
    BY <2>1, <2>3, <2>4, <2>6, OpenFinite, JoinCount
  <2>8. pipe[a][e] = Cardinality(OpenEnds(a, e)) + dups[a][e]
    BY DEF Tables, Counted
  <2>9. Cardinality(OpenEnds(a, e)) \in Nat /\ dups[a][e] \in Int
    BY <2>1, OpenFinite DEF Types
  <2> QED BY <1>1, <2>3, <2>5, <2>7, <2>8, <2>9
<1>8. Counted'
  BY <1>1, <1>7 DEF Counted
<1>9. Consoles'
  BY <1>1, <1>2 DEF Tables, Consoles
<1>10. Allocated'
  <2> SUFFICES ASSUME NEW q \in alive', NEW s \in Held(q)' PROVE file'[q][s].my_pipe \in heap
    BY <1>1 DEF Allocated
  <2>1. CASE q = c
    BY <1>1, <1>2, <1>3, <2>1 DEF Tables, Allocated
  <2>2. CASE q # c
    BY <1>1, <1>2, <1>5, <2>2 DEF Tables, Allocated, Types
  <2> QED BY <2>1, <2>2
<1>11. Sleepers'
  BY <1>1, <1>2, <1>5 DEF Tables, Sleepers
<1>12. Cleared'
  <2> SUFFICES ASSUME NEW a \in Pipes \ heap PROVE pipe'[a] = Zero
    BY <1>1 DEF Cleared
  <2>1. \A e \in Ends : ForkedEnds(p, a, e) = 0
    <3> TAKE e \in Ends
    <3>1. EndsOf(p, a, e) = {}
      BY <1>1 DEF Tables, Allocated, EndsOf
    <3> QED BY <3>1, FS_EmptySet DEF ForkedEnds
  <2>2. pipe[a] = Zero
    BY DEF Tables, Cleared
  <2> QED BY <1>1, <2>1, <2>2 DEF Zero
<1>13. Unleaked'
  BY <1>1, <1>6 DEF Tables, Unleaked
<1> QED BY <1>1, <1>8, <1>9, <1>10, <1>11, <1>12, <1>13 DEF Tables

(* exit closes every struct of the process once, and frees the pipes that  *)
(* it leaves without ends.                                                 *)
LEMMA ExitStep ==
  ASSUME Types, Types', Tables, NEW p \in Procs, do_exit(p)
  PROVE  Tables'
<1>1. /\ p \in alive /\ inside[p] = NoFd
      /\ alive' = alive \ {p}
      /\ pipe' = [a \in Pipes |-> [e \in Ends |-> pipe[a][e] - ExitedEnds(p, a, e)]]
      /\ heap' = {a \in heap : Unused(pipe'[a]) => \A s \in Held(p) : file[p][s].my_pipe # a}
      /\ fd' = [fd EXCEPT ![p] = OwnSlots]
      /\ file' = [file EXCEPT ![p] = [i \in FDs |-> StdFile(i)]]
      /\ UNCHANGED <<inside, machine, dups, careless>>
  BY DEF do_exit, Ready, history
<1>2. /\ \A i \in FDs : file'[p][i] = StdFile(i)
      /\ \A q \in Procs \ {p} : fd'[q] = fd[q] /\ file'[q] = file[q]
  BY <1>1 DEF Types
<1>3. \A q \in Procs \ {p} : /\ Held(q)' = Held(q)
                            /\ \A a, e : EndsOf(q, a, e)' = EndsOf(q, a, e)
  BY <1>2, SameTable
<1>4. alive' \subseteq Procs \ {p} /\ alive = alive' \cup {p}
  BY <1>1 DEF Types
<1>5. \A a, e, q, s : <<q, s>> \in OpenEnds(a, e)' <=> q \in alive' /\ s \in EndsOf(q, a, e)
  <2>1. \A q, a, e : q \in alive' => EndsOf(q, a, e)' = EndsOf(q, a, e)
    BY <1>3, <1>4
  <2> QED BY <2>1 DEF OpenEnds
<1>6. \A a, e : OpenEnds(a, e) = OpenEnds(a, e)' \cup {<<p, s>> : s \in EndsOf(p, a, e)}
  <2> TAKE a, e
  <2>1. \A q \in alive' : EndsOf(q, a, e)' = EndsOf(q, a, e)
    BY <1>3, <1>4
  <2>2. OpenEnds(a, e)' = UNION {{<<q, s>> : s \in EndsOf(q, a, e)} : q \in alive'}
    BY <2>1 DEF OpenEnds
  <2>3. OpenEnds(a, e) = UNION {{<<q, s>> : s \in EndsOf(q, a, e)} : q \in alive}
    BY DEF OpenEnds
  <2> QED BY <1>4, <2>2, <2>3
<1>7. \A a \in heap, e \in Ends :
        pipe'[a][e] = Cardinality(OpenEnds(a, e)') + dups'[a][e]
  <2> TAKE a \in heap, e \in Ends
  <2>1. a \in Pipes
    BY DEF Types
  <2>2. PICK S, U, V : S = EndsOf(p, a, e) /\ U = OpenEnds(a, e)' /\ V = OpenEnds(a, e)
    OBVIOUS
  <2>3. IsFiniteSet(S) /\ Cardinality(S) \in Nat /\ pipe'[a][e] = pipe[a][e] - Cardinality(S)
    BY <1>1, <2>1, <2>2, EndCounts, FS_CardinalityType DEF ExitedEnds
  <2>4. V = U \cup {<<p, s>> : s \in S} /\ \A s \in S : <<p, s>> \notin U
    BY <1>4, <1>5, <1>6, <2>2
  <2>5. IsFiniteSet(U) /\ Cardinality(U) \in Nat
    BY <2>1, <2>2, <2>4, OpenFinite, FS_Subset, FS_CardinalityType
  <2>6. Cardinality(V) = Cardinality(U) + Cardinality(S)
    BY <2>3, <2>4, <2>5, JoinCount
  <2>7. pipe[a][e] = Cardinality(V) + dups[a][e]
    BY <2>2 DEF Tables, Counted
  <2>8. dups[a][e] \in Int /\ dups' = dups
    BY <1>1, <2>1 DEF Types
  <2> QED BY <2>2, <2>3, <2>5, <2>6, <2>7, <2>8
<1>8. \A a \in heap :
        /\ Unused(pipe'[a]) => \A e \in Ends : OpenEnds(a, e)' = {}
        /\ dups'[a] = Zero /\ (\A e \in Ends : OpenEnds(a, e)' = {}) => Unused(pipe'[a])
        /\ Unused(pipe'[a]) => pipe'[a] = Zero
  BY <1>7, UsesCounted DEF Types
<1>9. Consoles'
  <2> SUFFICES ASSUME NEW q \in Procs, NEW s \in FDs, file'[q][s].console
      PROVE  file'[q][s].open /\ file'[q][s].my_pipe = NULL
    BY DEF Consoles
  <2>1. CASE q = p
    <3>1. file'[q][s] = StdFile(s)
      BY <1>2, <2>1
    <3>2. /\ StdFile(s).console => s \in Stdio /\ StdFile(s).my_pipe = NULL
          /\ s \in Stdio => StdFile(s).open
      BY DEF StdFile
    <3> QED BY <3>1, <3>2
  <2>2. CASE q # p
    BY <1>2, <2>2 DEF Tables, Consoles
  <2> QED BY <2>1, <2>2
<1>10. Allocated'
  <2> SUFFICES ASSUME NEW q \in alive', NEW s \in Held(q)' PROVE file'[q][s].my_pipe \in heap'
    BY DEF Allocated
  <2>1. q \in alive /\ q \in Procs \ {p} /\ s \in Held(q) /\ file'[q] = file[q]
    BY <1>2, <1>3, <1>4
  <2>2. PICK a : a = file[q][s].my_pipe
    OBVIOUS
  <2>3. a \in heap
    BY <2>1, <2>2 DEF Tables, Allocated
  <2>4. s \in EndsOf(q, a, End(file[q][s])) /\ End(file[q][s]) \in Ends
    BY <2>1, <2>2 DEF EndsOf, End, Ends
  <2>5. ~Unused(pipe'[a])
    BY <1>5, <1>8, <2>3, <2>4
  <2>6. a \in heap'
    BY <1>1, <2>3, <2>5
  <2> QED BY <2>1, <2>2, <2>6
<1>11. Sleepers'
  <2> SUFFICES ASSUME NEW q \in Procs, inside'[q] # NoFd
      PROVE  q \in alive' /\ fd'[q][inside'[q]] \in Held(q)'
    BY DEF Sleepers
  <2>1. inside[q] # NoFd /\ q # p
    BY <1>1
  <2>2. q \in alive /\ fd[q][inside[q]] \in Held(q)
    BY <2>1 DEF Tables, Sleepers
  <2> QED BY <1>1, <1>2, <1>3, <2>1, <2>2
<1>12. Counted'
  BY <1>1, <1>7 DEF Counted
<1>13. Cleared'
  <2> SUFFICES ASSUME NEW a \in Pipes, a \notin heap' PROVE pipe'[a] = Zero
    BY DEF Cleared
  <2>1. CASE a \in heap
    BY <1>1, <1>8, <2>1
  <2>2. CASE a \notin heap
    <3>1. \A e \in Ends : ExitedEnds(p, a, e) = 0
      <4> TAKE e \in Ends
      <4>1. EndsOf(p, a, e) = {}
        BY <1>1, <2>2 DEF Tables, Allocated, EndsOf
      <4> QED BY <4>1, FS_EmptySet DEF ExitedEnds
    <3>2. pipe[a] = Zero
      BY <2>2 DEF Tables, Cleared
    <3> QED BY <1>1, <3>1, <3>2 DEF Zero
  <2> QED BY <2>1, <2>2
<1>14. Unleaked'
  <2> SUFFICES ASSUME NEW a \in heap', dups'[a] = Zero, \A e \in Ends : OpenEnds(a, e)' = {}
      PROVE  FALSE
    BY DEF Unleaked
  <2>1. a \in heap /\ Unused(pipe'[a]) /\ dups[a] = Zero
    BY <1>1, <1>8
  <2>2. \A s \in Held(p) : file[p][s].my_pipe # a
    BY <1>1, <2>1
  <2>3. \A e \in Ends : OpenEnds(a, e) = {}
    <3> TAKE e \in Ends
    <3>1. EndsOf(p, a, e) = {}
      BY <2>2 DEF EndsOf
    <3> QED BY <1>6, <3>1
  <2> QED BY <2>1, <2>3 DEF Tables, Unleaked
<1> QED BY <1>1, <1>9, <1>10, <1>11, <1>12, <1>13, <1>14 DEF Tables

-----------------------------------------------------------------------------
LEMMA StutterStep ==
  ASSUME Tables, UNCHANGED vars
  PROVE  Tables'
<1>1. UNCHANGED <<alive, fd, file, pipe, heap, inside, machine, dups, careless>>
  BY DEF vars, table, history
<1>2. /\ \A q : Held(q)' = Held(q)
      /\ \A a, e : OpenEnds(a, e)' = OpenEnds(a, e)
  BY <1>1, SameTable, SameTables
<1>3. Consoles' /\ Allocated' /\ Cleared' /\ Sleepers'
  BY <1>1, <1>2 DEF Tables, Consoles, Allocated, Cleared, Sleepers
<1>4. Counted' /\ Unleaked'
  BY <1>1, <1>2 DEF Tables, Counted, Unleaked
<1> QED BY <1>1, <1>3, <1>4 DEF Tables

LEMMA InitFd == Init => FdInv
<1> SUFFICES ASSUME Init PROVE FdInv
  OBVIOUS
<1>1. /\ alive = {Creator} /\ heap = {} /\ machine = "runs" /\ careless = FALSE
      /\ fd = [p \in Procs |-> OwnSlots]
      /\ file = [p \in Procs |-> [i \in FDs |-> StdFile(i)]]
      /\ pipe = [a \in Pipes |-> Zero] /\ dups = [a \in Pipes |-> Zero]
      /\ inside = [p \in Procs |-> NoFd]
  BY DEF Init
<1>2. Types
  <2>1. Zero \in [Ends -> Int] /\ Zero \in [Ends -> 0 .. MaxDups]
    BY KosFdAssumption DEF Zero
  <2> QED BY <1>1, <2>1, StdFiles, KosFdAssumption DEF Types, Machine
<1>3. \A p \in Procs, s \in FDs :
        /\ file[p][s].console => file[p][s].open /\ file[p][s].my_pipe = NULL
        /\ file[p][s].open => file[p][s].console
  BY <1>1 DEF StdFile
<1>4. \A p \in Procs : Held(p) = {}
  BY <1>2, <1>3 DEF Held, Types
<1>5. Tables
  BY <1>1, <1>3, <1>4, KosFdAssumption
     DEF Tables, Consoles, Allocated, Sleepers, Counted, Cleared, Unleaked
<1> QED BY <1>2, <1>5 DEF FdInv

LEMMA FdStep == FdInv /\ [Next]_vars => FdInv'
<1> SUFFICES ASSUME FdInv, [Next]_vars PROVE FdInv'
  OBVIOUS
<1>1. Types /\ Types'
  BY TypesStep DEF FdInv
<1>2. ASSUME ~careless' PROVE ~careless
  <2>1. CASE UNCHANGED vars
    BY <1>2, <2>1 DEF vars, history
  <2>2. ASSUME Next PROVE careless' = careless \/ careless' = TRUE
    <3> PICK p \in Procs :
          \/ \E a \in Pipes : do_pipe(p, a) \/ do_pipe_full(p, a)
          \/ \E i \in FDs : do_dup(p, i) \/ do_close(p, i) \/ io_sleep(p, i)
          \/ \E i, j \in FDs : do_dup2(p, i, j) \/ do_dup2_open(p, i, j)
          \/ \E c \in Procs : do_fork(p, c)
          \/ do_exit(p) \/ io_wake(p) \/ crash(p)
      BY <2>2 DEF Next
    <3>1. \A a : do_pipe(p, a) \/ do_pipe_full(p, a) => careless' = careless \/ careless' = TRUE
      BY DEF do_pipe, do_pipe_full
    <3>2. \A i : do_dup(p, i) \/ do_close(p, i) \/ io_sleep(p, i) => careless' = careless
      BY DEF do_dup, do_close, io_sleep, history
    <3>3. \A i, j : do_dup2(p, i, j) \/ do_dup2_open(p, i, j)
                      => careless' = careless \/ careless' = TRUE
      BY DEF do_dup2, do_dup2_open
    <3>4. \A c : do_fork(p, c) => careless' = careless
      BY DEF do_fork, history
    <3>5. do_exit(p) \/ io_wake(p) \/ crash(p) => careless' = careless \/ careless' = TRUE
      BY DEF do_exit, io_wake, crash, history
    <3> QED BY <3>1, <3>2, <3>3, <3>4, <3>5
  <2> QED BY <1>2, <2>1, <2>2
<1>3. ASSUME ~careless' PROVE Tables'
  <2>1. Tables
    BY <1>2, <1>3 DEF FdInv
  <2>2. CASE UNCHANGED vars
    BY <2>1, <2>2, StutterStep
  <2>3. ASSUME NEW p \in Procs, NEW a \in Pipes, do_pipe(p, a) \/ do_pipe_full(p, a)
        PROVE  Tables'
    BY <1>1, <1>3, <2>1, <2>3, PipeStep DEF do_pipe_full
  <2>4. ASSUME NEW p \in Procs, NEW i \in FDs, do_dup(p, i) PROVE Tables'
    <3>1. PICK j \in FDs : Lowest(j, Closed(p)) /\ Share(p, i, j)
      BY <2>4 DEF do_dup
    <3>2. ~IsOpen(p, j)
      BY <3>1 DEF Lowest, Closed
    <3> QED BY <1>1, <2>1, <2>4, <3>1, <3>2, DupStep DEF do_dup
  <2>5. ASSUME NEW p \in Procs, NEW i \in FDs, do_close(p, i) PROVE Tables'
    BY <1>1, <2>1, <2>5, CloseStep
  <2>6. ASSUME NEW p \in Procs, NEW i \in FDs, NEW j \in FDs,
               do_dup2(p, i, j) \/ do_dup2_open(p, i, j)
        PROVE  Tables'
    <3>1. do_dup2(p, i, j)
      BY <1>3, <2>6 DEF do_dup2_open
    <3> QED BY <1>1, <2>1, <3>1, DupStep DEF do_dup2
  <2>7. ASSUME NEW p \in Procs, NEW c \in Procs, do_fork(p, c) PROVE Tables'
    BY <1>1, <2>1, <2>7, ForkStep
  <2>8. ASSUME NEW p \in Procs, do_exit(p) PROVE Tables'
    BY <1>1, <2>1, <2>8, ExitStep
  <2>9. ASSUME NEW p \in Procs, (\E i \in FDs : io_sleep(p, i)) \/ io_wake(p) \/ crash(p)
        PROVE  Tables'
    BY <1>1, <1>3, <2>1, <2>9, SleepStep, CrashStep
  <2> QED BY <2>2, <2>3, <2>4, <2>5, <2>6, <2>7, <2>8, <2>9 DEF Next
<1> QED BY <1>1, <1>3 DEF FdInv

LEMMA Follows == FdInv => TypeOK /\ CountInv /\ LifeInv /\ LeakInv
<1> SUFFICES ASSUME FdInv PROVE TypeOK /\ CountInv /\ LifeInv /\ LeakInv
  OBVIOUS
<1>1. CountInv /\ LifeInv /\ LeakInv
  BY DEF FdInv, Tables, CountInv, LifeInv, LeakInv, Counted, Allocated, Sleepers, Unleaked
<1>2. ASSUME ~careless PROVE pipe \in [Pipes -> [Ends -> Nat]]
  <2>1. Types /\ Counted /\ Cleared
    BY <1>2 DEF FdInv, Tables
  <2>2. ASSUME NEW a \in Pipes, NEW e \in Ends PROVE pipe[a][e] \in Nat
    <3>1. CASE a \in heap
      <4>1. Cardinality(OpenEnds(a, e)) \in Nat /\ dups[a][e] \in 0 .. MaxDups
        BY <2>1, OpenFinite DEF Types
      <4> QED BY <2>1, <3>1, <4>1, KosFdAssumption DEF Counted
    <3>2. CASE a \notin heap
      BY <2>1, <3>2 DEF Cleared, Zero
    <3> QED BY <3>1, <3>2
  <2> QED BY <2>1, <2>2 DEF Types
<1> QED BY <1>1, <1>2 DEF FdInv, Types, TypeOK

LEMMA FdHolds == Spec => []FdInv
BY InitFd, FdStep, PTL DEF Spec

-----------------------------------------------------------------------------
(* The tables of PCB.fd hold descriptors and structs of their types, and,  *)
(* unless a call was careless, no count of a pipe is ever negative.        *)
THEOREM TypesHold == Spec => []TypeOK
BY FdHolds, Follows, PTL

(* The counts of an allocated pipe are the structs open on its ends, over  *)
(* all processes, and one for every dup ever made of the end: close and    *)
(* exit take one off for a struct, however many descriptors share it.      *)
THEOREM CountsHold == Spec => []CountInv
BY FdHolds, Follows, PTL

(* do_close and do_exit free no pipe that a descriptor is open on or that  *)
(* a process sleeps in, so no call follows a pointer to a freed pipe.      *)
THEOREM NoneFreedInUse == Spec => []LifeInv
BY FdHolds, Follows, PTL

(* A pipe whose ends were never shared by dup or dup2 does not outlive its *)
(* last descriptor.                                                        *)
THEOREM NoneLeaked == Spec => []LeakInv
BY FdHolds, Follows, PTL

===============================================================================
