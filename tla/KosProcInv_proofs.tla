-------------------------- MODULE KosProcInv_proofs --------------------------
(***************************************************************************)
(* The inductive invariant of KosProc, the safety properties it gives, and *)
(* the refinement: KosProc implements ProcLife.                            *)
(***************************************************************************)
EXTENDS KosProc_proofs

(* A sequence without elements is empty.                                   *)
LEMMA ElemsEmpty ==
  ASSUME NEW S, NEW q \in Seq(S)
  PROVE  ToSet(q) = {} <=> q = <<>>
<1>1. DOMAIN q = 1 .. Len(q) /\ Len(q) \in Nat
  OBVIOUS
<1>2. CASE q = <<>>
  BY <1>2 DEF ToSet
<1>3. CASE q # <<>>
  <2>1. 1 \in DOMAIN q
    BY <1>1, <1>3
  <2> QED BY <1>3, <2>1 DEF ToSet
<1> QED BY <1>2, <1>3

(* What the table says of a process with a parent, a child or a zombie.    *)
LEMMA AliveFacts ==
  ASSUME TypeOK, FamilyInv
  PROVE  /\ \A p \in PCBs : Alive(p) =>
              /\ p \in heap /\ parent[p] \in Procs /\ p \in children[parent[p]]
              /\ parent[p] = InitProc \/ Alive(parent[p])
         /\ \A q \in Procs : \A p \in children[q] :
              p \in PCBs /\ parent[p] = q /\ Alive(p)
         /\ \A q \in Procs : \A p \in ToSet(waiters[q]) :
              p \in heap /\ parent[p] = q /\ ~Alive(p)
         /\ \A p \in heap : ~Alive(p) => p \in ToSet(waiters[parent[p]])
         /\ \A p \in PCBs : ~Alive(p) =>
              children[p] = {} /\ waiters[p] = <<>> /\ ToSet(waiters[p]) = {}
<1> USE ConstantFacts
<1>1. TableTypeOK
  BY DEF TypeOK
<1>2. \A p \in PCBs : Alive(p) => p \in heap /\ parent[p] \in Procs /\ p \in children[parent[p]]
  BY <1>1 DEF Alive, TableTypeOK
<1>3. \A q \in Procs : \A p \in children[q] : p \in heap /\ p \in PCBs /\ parent[p] = q
  BY <1>1 DEF FamilyInv, TableTypeOK
<1>4. \A q \in Procs : \A p \in children[q] : Alive(p)
  BY <1>3 DEF Alive
<1>5. \A q \in Procs : \A p \in ToSet(waiters[q]) : p \in heap /\ parent[p] = q /\ ~Alive(p)
  BY <1>1 DEF FamilyInv, Alive, TableTypeOK
<1>6. \A p \in PCBs : ~Alive(p) => children[p] = {} /\ waiters[p] = <<>>
  BY DEF FamilyInv
<1>7. \A p \in PCBs : Alive(p) => parent[p] = InitProc \/ Alive(parent[p])
  BY <1>2, <1>6
<1>8. \A p \in heap : ~Alive(p) => p \in ToSet(waiters[parent[p]])
  BY DEF FamilyInv, Alive
<1>9. ToSet(<<>>) = {}
  BY DEF ToSet
<1> QED BY <1>2, <1>3, <1>4, <1>5, <1>6, <1>7, <1>8, <1>9

-----------------------------------------------------------------------------
(* The effect of each step on the process table, process by process.       *)

(* A process with a kernel thread is alive, and has no other thread, is    *)
(* not queued and does not run.                                            *)
LEMMA ThreadAlive ==
  ASSUME IInv, NEW op, NEW p \in PCBs, Thread(op, p) \in runnable \cup blocked
  PROVE  /\ Alive(p) /\ p \notin faulted /\ ~Booting
         /\ ~Running(p) /\ ~Queued(p)
         /\ \A t \in runnable \cup blocked : t.pcb = p => t = Thread(op, p)
<1>1. Thread(op, p).pcb = p
  BY DEF Thread
<1>2. InKernel(p)
  BY <1>1 DEF InKernel
<1> QED BY <1>1, <1>2, ConstantFacts DEF IInv, OnePlace, BootInv

(* A live process is not its own parent, and do_exit's test for pid 0      *)
(* tells whether the parent is init.                                       *)
LEMMA ParentFacts ==
  ASSUME IInv, NEW p \in PCBs, Alive(p)
  PROVE  /\ parent[p] # p
         /\ pid[parent[p]] = 0 <=> parent[p] = InitProc
<1>1. parent[p] # p
  <2>1. {p} \in SUBSET {r \in PCBs : Alive(r)} /\ {p} # {}
    OBVIOUS
  <2>2. \E r \in {p} : parent[r] \notin {p}
    BY <2>1 DEF IInv, AncestryInv
  <2> QED BY <2>2
<1>2. parent[p] = InitProc \/ parent[p] \in heap
  <2>1. parent[p] = InitProc \/ Alive(parent[p])
    BY AliveFacts DEF IInv
  <2> QED BY <2>1 DEF Alive
<1> QED BY <1>1, <1>2 DEF IInv, PidInv

(* After do_fork the child is alive and everyone else is as before.        *)
LEMMA ForkEffect ==
  ASSUME IInv, NEW p \in PCBs, Thread("fork", p) \in runnable,
         NEW c \in PCBs \ heap, NEW i \in Chunks, NEW n \in 0 .. MaxPid,
         NewChild(p, c, i, n)
  PROVE  /\ Alive(p) /\ c # p /\ ~Alive(c) /\ p \in heap
         /\ children[c] = {} /\ waiters[c] = <<>>
         /\ \A q \in Procs : c \notin children[q] /\ c \notin ToSet(waiters[q])
         /\ \A q \in Procs :
              children'[q] = IF q = p THEN children[p] \cup {c} ELSE children[q]
         /\ waiters' = waiters
         /\ \A r \in PCBs : parent'[r] = IF r = c THEN p ELSE parent[r]
         /\ \A r \in PCBs : Alive(r)' <=> Alive(r) \/ r = c
<1> USE ConstantFacts
<1>0. TableTypeOK /\ TypeOK /\ FamilyInv
  BY DEF IInv, TypeOK
<1>1. Alive(p) /\ p \in heap
  BY ThreadAlive DEF Alive
<1>2. ~Alive(c) /\ c # p
  BY <1>1 DEF Alive
<1>3. children[c] = {} /\ waiters[c] = <<>>
  BY <1>0, <1>2, AliveFacts
<1>4. \A q \in Procs : c \notin children[q] /\ c \notin ToSet(waiters[q])
  BY <1>0 DEF FamilyInv
<1>5. \A q \in Procs :
        children'[q] = IF q = p THEN children[p] \cup {c} ELSE children[q]
  BY <1>0, <1>2, <1>3 DEF NewChild, TableTypeOK
<1>6. waiters' = waiters
  BY <1>0, <1>3 DEF NewChild, TableTypeOK
<1>7. \A r \in PCBs : parent'[r] = IF r = c THEN p ELSE parent[r]
  BY <1>0 DEF NewChild, TableTypeOK
<1>8. \A r \in PCBs : Alive(r)' <=> Alive(r) \/ r = c
  <2> TAKE r \in PCBs
  <2>1. heap' = heap \cup {c} /\ parent[r] \in Procs
    BY <1>0 DEF NewChild, TableTypeOK
  <2>2. CASE r = c
    BY <2>1, <2>2, <1>5, <1>7 DEF Alive
  <2>3. CASE r # c
    BY <2>1, <2>3, <1>5, <1>7 DEF Alive
  <2> QED BY <2>2, <2>3
<1> QED BY <1>1, <1>2, <1>3, <1>4, <1>5, <1>6, <1>7, <1>8

(* After do_exit the caller is not alive, and everyone else is alive       *)
(* exactly as before.                                                      *)
LEMMA ExitEffect ==
  ASSUME IInv, NEW p \in PCBs, Thread("exit", p) \in runnable,
         children' = ChildrenAfterExit(p), parent' = Reparent(p),
         heap' = heap \/ heap' = heap \ {p}
  PROVE  /\ Alive(p) /\ p \in heap /\ parent[p] \in Procs /\ parent[p] # p
         /\ p \notin children[p] /\ p \notin ToSet(waiters[p])
         /\ parent[p] = InitProc \/ Alive(parent[p])
         /\ pid[parent[p]] = 0 <=> parent[p] = InitProc
         /\ children'[p] = {}
         /\ \A q \in Procs \ {p} :
              children'[q] = (children[q] \ {p})
                               \cup (IF q = InitProc THEN children[p] ELSE {})
         /\ \A r \in PCBs :
              parent'[r] = IF r \in children[p] \cup ToSet(waiters[p])
                             THEN InitProc ELSE parent[r]
         /\ \A r \in PCBs : Alive(r)' <=> Alive(r) /\ r # p
<1> USE ConstantFacts
<1>0. TableTypeOK /\ TypeOK /\ FamilyInv
  BY DEF IInv, TypeOK
<1>1. Alive(p) /\ p \in heap
  BY ThreadAlive DEF Alive
<1>2. /\ parent[p] \in Procs /\ parent[p] # p
      /\ parent[p] = InitProc \/ Alive(parent[p])
      /\ pid[parent[p]] = 0 <=> parent[p] = InitProc
  BY <1>0, <1>1, AliveFacts, ParentFacts
<1>3. p \notin children[p] /\ p \notin ToSet(waiters[p])
  BY <1>0, <1>1, <1>2, AliveFacts
<1>4. children'[p] = {}
  BY <1>0 DEF ChildrenAfterExit, TableTypeOK
<1>5. \A q \in Procs \ {p} :
        children'[q] = (children[q] \ {p})
                         \cup (IF q = InitProc THEN children[p] ELSE {})
  <2> TAKE q \in Procs \ {p}
  <2>1. q # parent[p] => p \notin children[q]
    BY <1>0, AliveFacts
  <2>2. /\ DOMAIN children = Procs /\ q \in Procs /\ q # p
        /\ children' = [children EXCEPT ![parent[p]] = @ \ {p},
                                       ![InitProc] = @ \cup children[p],
                                       ![p] = {}]
    BY <1>0 DEF ChildrenAfterExit, TableTypeOK
  <2>3. CASE q = InitProc /\ q = parent[p]
    <3>1. children'[q] = (children[q] \ {p}) \cup children[p]
      BY <2>2, <2>3
    <3> QED BY <2>3, <3>1
  <2>4. CASE q = InitProc /\ q # parent[p]
    <3>1. children'[q] = children[q] \cup children[p]
      BY <2>2, <2>4
    <3> QED BY <2>1, <2>4, <3>1
  <2>5. CASE q # InitProc /\ q = parent[p]
    <3>1. children'[q] = children[q] \ {p}
      BY <2>2, <2>5
    <3> QED BY <2>5, <3>1
  <2>6. CASE q # InitProc /\ q # parent[p]
    <3>1. children'[q] = children[q]
      BY <2>2, <2>6
    <3> QED BY <2>1, <2>6, <3>1
  <2> QED BY <2>3, <2>4, <2>5, <2>6
<1>6. \A r \in PCBs :
        parent'[r] = IF r \in children[p] \cup ToSet(waiters[p])
                       THEN InitProc ELSE parent[r]
  BY DEF Reparent, Inherited
<1>7. \A r \in PCBs : Alive(r)' <=> Alive(r) /\ r # p
  <2> TAKE r \in PCBs
  <2>0. parent[r] \in Procs /\ (r \in heap' <=> r \in heap /\ (r # p \/ heap' = heap))
    BY <1>0 DEF TableTypeOK
  <2>1. CASE r = p
    BY <1>2, <1>3, <1>5, <1>6, <2>1 DEF Alive
  <2>2. CASE r # p /\ r \in children[p]
    BY <1>0, <1>5, <1>6, <2>0, <2>2, AliveFacts DEF Alive
  <2>3. CASE r # p /\ r \in ToSet(waiters[p])
    <3>1. ~Alive(r) /\ parent'[r] = InitProc
      BY <1>0, <1>6, <2>3, AliveFacts
    <3>2. r \notin children[InitProc] /\ r \notin children[p]
      BY <1>0, <3>1, AliveFacts
    <3> QED BY <1>5, <3>1, <3>2 DEF Alive
  <2>4. CASE r # p /\ r \notin children[p] /\ r \notin ToSet(waiters[p])
    <3>1. parent'[r] = parent[r]
      BY <1>6, <2>4
    <3>2. CASE parent[r] = p
      BY <1>4, <2>4, <3>1, <3>2 DEF Alive
    <3>3. CASE parent[r] # p
      BY <1>5, <2>0, <2>4, <3>1, <3>3 DEF Alive
    <3> QED BY <3>2, <3>3
  <2> QED BY <2>1, <2>2, <2>3, <2>4
<1> QED BY <1>1, <1>2, <1>3, <1>4, <1>5, <1>6, <1>7

(* Reaping a zombie leaves every live process alive.                       *)
LEMMA ReapEffect ==
  ASSUME IInv, NEW p \in PCBs, NEW op \in {"wait", "reap"},
         Thread(op, p) \in runnable, Reap(p)
  PROVE  /\ Alive(p)
         /\ LET z == Head(waiters[p]) IN
              /\ z \in heap /\ ~Alive(z) /\ parent[z] = p /\ z # p
              /\ ToSet(waiters[p]) = {z} \cup ToSet(waiters'[p])
              /\ z \notin ToSet(waiters'[p])
              /\ IsInjective(waiters'[p])
              /\ heap' = heap \ {z}
         /\ Len(waiters'[p]) = Len(waiters[p]) - 1
         /\ \A q \in Procs \ {p} : waiters'[q] = waiters[q]
         /\ \A r \in PCBs : Alive(r)' <=> Alive(r)
<1> USE ConstantFacts
<1>0. TableTypeOK /\ TypeOK /\ FamilyInv
  BY DEF IInv, TypeOK
<1>1. Alive(p)
  BY ThreadAlive
<1> DEFINE z == Head(waiters[p])
<1>2. waiters[p] \in Seq(PCBs) /\ waiters[p] # <<>> /\ IsInjective(waiters[p])
  BY <1>0 DEF TableTypeOK, Reap, FamilyInv
<1>3. /\ waiters'[p] = Tail(waiters[p])
      /\ \A q \in Procs \ {p} : waiters'[q] = waiters[q]
      /\ heap' = heap \ {z} /\ parent' = parent /\ children' = children
  BY <1>0 DEF Reap, TableTypeOK
<1>4. /\ ToSet(waiters[p]) = {z} \cup ToSet(waiters'[p])
      /\ z \notin ToSet(waiters'[p])
      /\ IsInjective(waiters'[p])
      /\ Len(waiters'[p]) = Len(waiters[p]) - 1
  BY <1>2, <1>3, ElemsTail
<1>5. z \in heap /\ ~Alive(z) /\ parent[z] = p /\ z # p
  BY <1>0, <1>1, <1>4, AliveFacts
<1>6. \A r \in PCBs : Alive(r)' <=> Alive(r)
  BY <1>3, <1>5 DEF Alive
<1> QED BY <1>1, <1>3, <1>4, <1>5, <1>6

(* The zombie lists after do_exit: init takes those of the caller.         *)
LEMMA ExitWaiters ==
  ASSUME IInv, NEW p \in PCBs, Thread("exit", p) \in runnable
  PROVE  LET w == WaitersAfterExit(p) IN
         /\ w \in [Procs -> Seq(PCBs)]
         /\ w[p] = <<>> /\ ToSet(w[p]) = {}
         /\ Len(w[InitProc]) = Len(waiters[InitProc]) + Len(waiters[p])
         /\ ToSet(w[InitProc]) = ToSet(waiters[InitProc]) \cup ToSet(waiters[p])
         /\ IsInjective(w[InitProc])
         /\ \A q \in Procs \ {p, InitProc} : w[q] = waiters[q]
         /\ \A q \in Procs \ {p} : IsInjective(w[q])
<1> USE ConstantFacts
<1>0. TableTypeOK /\ TypeOK /\ FamilyInv
  BY DEF IInv, TypeOK
<1> DEFINE w == WaitersAfterExit(p)
<1>1. waiters[p] \in Seq(PCBs) /\ waiters[InitProc] \in Seq(PCBs)
  BY <1>0 DEF TableTypeOK
<1>2. /\ w[p] = <<>> /\ DOMAIN w = Procs
      /\ w[InitProc] = waiters[InitProc] \o waiters[p]
      /\ \A q \in Procs \ {p, InitProc} : w[q] = waiters[q]
  BY <1>0 DEF WaitersAfterExit, TableTypeOK
<1>3. w \in [Procs -> Seq(PCBs)]
  BY <1>0, ExitTypes
<1>4. ToSet(waiters[InitProc]) \cap ToSet(waiters[p]) = {}
  BY <1>0 DEF FamilyInv
<1>5. IsInjective(waiters[p]) /\ IsInjective(waiters[InitProc])
  BY <1>0 DEF FamilyInv
<1>6. /\ Len(w[InitProc]) = Len(waiters[InitProc]) + Len(waiters[p])
      /\ ToSet(w[InitProc]) = ToSet(waiters[InitProc]) \cup ToSet(waiters[p])
      /\ IsInjective(w[InitProc])
  BY <1>1, <1>2, <1>4, <1>5, ElemsConcat
<1>7. \A q \in Procs \ {p} : IsInjective(w[q])
  BY <1>0, <1>2, <1>6 DEF FamilyInv
<1>8. ToSet(w[p]) = {}
  BY <1>2, ElemsEmpty DEF ToSet
<1> QED BY <1>2, <1>3, <1>6, <1>7, <1>8

-----------------------------------------------------------------------------
(* FamilyInv is preserved.                                                 *)

(* initialize_user_process establishes the agreement of the family         *)
(* pointers.                                                               *)
LEMMA FamilyBoot ==
  ASSUME IInv, Boot PROVE FamilyInv'
<1> USE ConstantFacts
<1>0. TypeOK /\ FamilyInv /\ TableTypeOK /\ heap = {}
  BY DEF IInv, TypeOK, BootInv, Booting, Boot, Runs
<1>1. PICK p \in PCBs : /\ heap' = {p}
                        /\ parent' = [parent EXCEPT ![p] = InitProc]
                        /\ children' = [children EXCEPT ![InitProc] = {p}]
                        /\ waiters' = waiters
  BY DEF Boot
<1>2. \A q \in Procs : children[q] = {} /\ ToSet(waiters[q]) = {}
  BY <1>0 DEF FamilyInv
<1>3. \A q \in PCBs : waiters[q] = <<>>
  BY <1>0, <1>2, ElemsEmpty DEF TableTypeOK
<1>4. \A q \in Procs : children'[q] = IF q = InitProc THEN {p} ELSE {}
  BY <1>0, <1>1, <1>2 DEF TableTypeOK
<1>5. parent'[p] = InitProc
  BY <1>0, <1>1 DEF TableTypeOK
<1>6. \A q \in Procs : ToSet(waiters'[q]) = {} /\ IsInjective(waiters'[q])
  BY <1>0, <1>1, <1>2 DEF FamilyInv
<1>7. \A q \in PCBs : children'[q] = {} /\ waiters'[q] = <<>>
  BY <1>1, <1>3, <1>4
<1> QED BY <1>1, <1>4, <1>5, <1>6, <1>7, SMTT(20) DEF FamilyInv

(* do_fork keeps the family pointers in agreement.                         *)
LEMMA FamilyFork ==
  ASSUME IInv, NEW p \in PCBs, do_fork(p) PROVE FamilyInv'
<1> USE ConstantFacts
<1>0. TypeOK /\ FamilyInv /\ TableTypeOK
  BY DEF IInv, TypeOK
<1>1. PICK c \in PCBs \ heap, i \in Chunks, n \in 0 .. MaxPid : NewChild(p, c, i, n)
  BY DEF do_fork
<1>2. Thread("fork", p) \in runnable /\ heap' = heap \cup {c}
  BY <1>1 DEF do_fork, Runs, NewChild
<1>3. /\ Alive(p) /\ c # p /\ ~Alive(c) /\ p \in heap
      /\ children[c] = {} /\ waiters[c] = <<>>
      /\ \A q \in Procs : c \notin children[q] /\ c \notin ToSet(waiters[q])
      /\ \A q \in Procs :
           children'[q] = IF q = p THEN children[p] \cup {c} ELSE children[q]
      /\ waiters' = waiters
      /\ \A r \in PCBs : parent'[r] = IF r = c THEN p ELSE parent[r]
      /\ \A r \in PCBs : Alive(r)' <=> Alive(r) \/ r = c
  BY <1>1, <1>2, ForkEffect
<1>4. \A q \in Procs : \A r \in children'[q] \cup ToSet(waiters'[q]) :
        r \in heap' /\ parent'[r] = q
  <2> SUFFICES ASSUME NEW q \in Procs, NEW r \in children'[q] \cup ToSet(waiters'[q])
               PROVE  r \in heap' /\ parent'[r] = q
    OBVIOUS
  <2>1. CASE r = c
    BY <1>2, <1>3, <2>1
  <2>2. CASE r # c
    <3>1. r \in children[q] \cup ToSet(waiters[q])
      BY <1>3, <2>2
    <3>2. r \in PCBs /\ r \in heap /\ parent[r] = q
      BY <1>0, <3>1 DEF FamilyInv, TableTypeOK
    <3> QED BY <1>2, <1>3, <2>2, <3>2
  <2> QED BY <2>1, <2>2
<1>5. \A q \in Procs : /\ children'[q] \cap ToSet(waiters'[q]) = {}
                       /\ IsInjective(waiters'[q])
  BY <1>0, <1>3 DEF FamilyInv
<1>6. \A r \in heap' : r \in children'[parent'[r]] \cup ToSet(waiters'[parent'[r]])
  <2> TAKE r \in heap'
  <2>1. CASE r = c
    BY <1>3, <2>1
  <2>2. CASE r # c
    <3>1. r \in heap /\ parent[r] \in Procs /\ parent'[r] = parent[r]
      BY <1>0, <1>2, <1>3, <2>2 DEF TableTypeOK
    <3>2. r \in children[parent[r]] \cup ToSet(waiters[parent[r]])
      BY <1>0, <3>1 DEF FamilyInv
    <3> QED BY <1>3, <3>1, <3>2
  <2> QED BY <2>1, <2>2
<1>7. \A q \in PCBs : children'[q] # {} \/ waiters'[q] # <<>> => Alive(q)'
  BY <1>0, <1>3 DEF FamilyInv
<1> QED BY <1>4, <1>5, <1>6, <1>7 DEF FamilyInv

(* do_wait keeps the family pointers in agreement.                         *)
LEMMA FamilyReap ==
  ASSUME IInv, NEW p \in PCBs, do_wait(p) \/ do_wait_resume(p) PROVE FamilyInv'
<1> USE ConstantFacts
<1>0. TypeOK /\ FamilyInv /\ TableTypeOK
  BY DEF IInv, TypeOK
<1>1. PICK op \in {"wait", "reap"} : Thread(op, p) \in runnable /\ Reap(p)
  BY DEF do_wait, do_wait_resume, Runs
<1> DEFINE z == Head(waiters[p])
<1>2. /\ Alive(p) /\ z \in heap /\ ~Alive(z) /\ parent[z] = p /\ z # p
      /\ ToSet(waiters[p]) = {z} \cup ToSet(waiters'[p])
      /\ z \notin ToSet(waiters'[p])
      /\ IsInjective(waiters'[p])
      /\ heap' = heap \ {z}
      /\ \A q \in Procs \ {p} : waiters'[q] = waiters[q]
      /\ \A r \in PCBs : Alive(r)' <=> Alive(r)
  BY <1>1, ReapEffect
<1>3. children' = children /\ parent' = parent
  BY <1>1 DEF Reap
<1> HIDE DEF z
<1>4. \A q \in Procs : z \notin children[q]
  BY <1>0, <1>2, AliveFacts
<1>5. \A q \in Procs : /\ ToSet(waiters'[q]) = ToSet(waiters[q]) \ {z}
                       /\ IsInjective(waiters'[q])
  <2> TAKE q \in Procs
  <2>1. CASE q = p
    BY <1>2, <2>1
  <2>2. CASE q # p
    BY <1>0, <1>2, <2>2 DEF FamilyInv
  <2> QED BY <2>1, <2>2
<1>6. \A q \in Procs : \A r \in children'[q] \cup ToSet(waiters'[q]) :
        r \in heap' /\ parent'[r] = q
  BY <1>0, <1>2, <1>3, <1>4, <1>5 DEF FamilyInv
<1>7. \A q \in Procs : children'[q] \cap ToSet(waiters'[q]) = {}
  BY <1>0, <1>3, <1>5 DEF FamilyInv
<1>8. \A r \in heap' : r \in children'[parent'[r]] \cup ToSet(waiters'[parent'[r]])
  BY <1>0, <1>2, <1>3, <1>5 DEF FamilyInv, TableTypeOK
<1>9. \A q \in PCBs : children'[q] # {} \/ waiters'[q] # <<>> => Alive(q)'
  <2> TAKE q \in PCBs
  <2>1. CASE q = p
    BY <1>2, <2>1
  <2>2. CASE q # p
    BY <1>0, <1>2, <1>3, <2>2 DEF FamilyInv
  <2> QED BY <2>1, <2>2
<1> QED BY <1>5, <1>6, <1>7, <1>8, <1>9 DEF FamilyInv

(* do_exit keeps the family pointers in agreement.                         *)
LEMMA FamilyExit ==
  ASSUME IInv, NEW p \in PCBs, do_exit_orphan(p) \/ do_exit_zombie(p)
  PROVE  FamilyInv'
<1> USE ConstantFacts
<1>0. TypeOK /\ FamilyInv /\ TableTypeOK
  BY DEF IInv, TypeOK
<1> DEFINE q0 == parent[p]
           w == WaitersAfterExit(p)
<1>1. /\ Thread("exit", p) \in runnable
      /\ children' = ChildrenAfterExit(p) /\ parent' = Reparent(p)
  BY DEF do_exit_orphan, do_exit_zombie, Runs
<1>1a. \/ heap' = heap \ {p} /\ waiters' = w /\ pid[q0] = 0
       \/ heap' = heap /\ waiters' = [w EXCEPT ![q0] = Append(@, p)] /\ pid[q0] # 0
  BY DEF do_exit_orphan, do_exit_zombie
<1>2. /\ Alive(p) /\ p \in heap /\ q0 \in Procs /\ q0 # p
      /\ p \notin children[p] /\ p \notin ToSet(waiters[p])
      /\ q0 = InitProc \/ Alive(q0)
      /\ pid[q0] = 0 <=> q0 = InitProc
      /\ children'[p] = {}
      /\ \A q \in Procs \ {p} :
           children'[q] = (children[q] \ {p})
                            \cup (IF q = InitProc THEN children[p] ELSE {})
      /\ \A r \in PCBs :
           parent'[r] = IF r \in children[p] \cup ToSet(waiters[p])
                          THEN InitProc ELSE parent[r]
      /\ \A r \in PCBs : Alive(r)' <=> Alive(r) /\ r # p
  BY <1>1, <1>1a, ExitEffect
<1>3. /\ w \in [Procs -> Seq(PCBs)]
      /\ w[p] = <<>> /\ ToSet(w[p]) = {}
      /\ ToSet(w[InitProc]) = ToSet(waiters[InitProc]) \cup ToSet(waiters[p])
      /\ \A q \in Procs \ {p, InitProc} : w[q] = waiters[q]
      /\ \A q \in Procs \ {p} : IsInjective(w[q])
  BY <1>1, ExitWaiters
<1> HIDE DEF w
<1>4. \A q \in Procs : p \notin ToSet(waiters[q]) /\ p \notin ToSet(w[q])
  BY <1>0, <1>2, <1>3, AliveFacts
<1>5. IsInjective(w[p])
  BY <1>3 DEF IsInjective, ToSet
<1>6. \A q \in Procs :
        /\ ToSet(waiters'[q]) = ToSet(w[q]) \cup
              (IF q = q0 /\ q0 # InitProc THEN {p} ELSE {})
        /\ IsInjective(waiters'[q])
        /\ waiters'[q] # <<>> => w[q] # <<>> \/ q = q0
  <2>1. CASE q0 = InitProc
    BY <1>1a, <1>2, <1>3, <1>5, <2>1
  <2>2. CASE q0 # InitProc
    <3>1. /\ waiters'[q0] = Append(w[q0], p)
          /\ \A q \in Procs \ {q0} : waiters'[q] = w[q]
      BY <1>1a, <1>2, <1>3, <2>2
    <3>2. /\ ToSet(waiters'[q0]) = ToSet(w[q0]) \cup {p}
          /\ IsInjective(waiters'[q0])
      BY <1>2, <1>3, <1>4, <3>1, ElemsAppend
    <3>3. q0 # p /\ q0 \in Procs
      BY <1>2
    <3>4. \A q \in Procs : IsInjective(w[q])
      BY <1>3, <1>5
    <3> HIDE DEF q0
    <3>5. ASSUME NEW q \in Procs, q # q0
          PROVE  /\ ToSet(waiters'[q]) = ToSet(w[q])
                 /\ IsInjective(waiters'[q])
                 /\ waiters'[q] # <<>> => w[q] # <<>>
      BY <3>1, <3>4, <3>5
    <3> QED BY <2>2, <3>2, <3>5
  <2> QED BY <2>1, <2>2
<1>7. p \in heap' <=> q0 # InitProc
  BY <1>1a, <1>2
<1>8. heap \ {p} = heap' \ {p}
  BY <1>1a
<1>9. \A q \in Procs : \A r \in children'[q] \cup ToSet(waiters'[q]) :
        r \in heap' /\ parent'[r] = q
  <2> TAKE q \in Procs
  <2>1. ASSUME NEW r \in children'[q] PROVE r \in heap' /\ parent'[r] = q
    <3>1. q # p /\ r # p
      BY <1>2, <2>1
    <3>2. CASE r \in children[q]
      BY <1>0, <1>2, <1>8, <3>1, <3>2, AliveFacts DEF Alive
    <3>3. CASE r \in children[p] /\ q = InitProc
      BY <1>0, <1>2, <1>8, <3>1, <3>3, AliveFacts DEF Alive
    <3> QED BY <1>2, <2>1, <3>1, <3>2, <3>3
  <2>2. ASSUME NEW r \in ToSet(waiters'[q]) PROVE r \in heap' /\ parent'[r] = q
    <3>1. CASE r = p
      <4>1. q = q0 /\ q0 # InitProc
        BY <1>4, <1>6, <2>2, <3>1
      <4> QED BY <1>2, <1>7, <3>1, <4>1
    <3>2. CASE r # p
      <4>1. r \in ToSet(w[q]) /\ q # p
        BY <1>3, <1>6, <2>2, <3>2, <1>2
      <4>2. r \in ToSet(waiters[q]) \/ (r \in ToSet(waiters[p]) /\ q = InitProc)
        <5>1. CASE q = InitProc
          BY <1>3, <4>1, <5>1
        <5>2. CASE q # InitProc
          BY <1>3, <4>1, <5>2
        <5> QED BY <5>1, <5>2
      <4>3. r \in heap /\ r \in PCBs
        BY <1>0, <4>2, AliveFacts DEF TableTypeOK
      <4> QED BY <1>0, <1>2, <1>8, <3>2, <4>1, <4>2, <4>3, AliveFacts
    <3> QED BY <3>1, <3>2
  <2> QED BY <2>1, <2>2
<1>10. \A q \in Procs : children'[q] \cap ToSet(waiters'[q]) = {}
  <2> SUFFICES ASSUME NEW q \in Procs, NEW r \in children'[q], r \in ToSet(waiters'[q])
               PROVE  FALSE
    OBVIOUS
  <2>1. q # p /\ r # p /\ Alive(r)
    BY <1>0, <1>2, AliveFacts
  <2>2. r \in ToSet(waiters[q]) \/ r \in ToSet(waiters[p])
    BY <1>3, <1>6, <2>1
  <2> QED BY <1>0, <2>1, <2>2, AliveFacts
<1>11. \A r \in heap' : r \in children'[parent'[r]] \cup ToSet(waiters'[parent'[r]])
  <2> TAKE r \in heap'
  <2>0. r \in heap /\ r \in PCBs /\ parent[r] \in Procs
    BY <1>0, <1>1a DEF TableTypeOK
  <2>1. CASE r = p
    BY <1>2, <1>6, <1>7, <2>1
  <2>2. CASE r # p /\ r \in children[p]
    BY <1>2, <2>0, <2>2
  <2>3. CASE r # p /\ r \in ToSet(waiters[p])
    BY <1>2, <1>3, <1>6, <2>0, <2>3
  <2>4. CASE r # p /\ r \notin children[p] /\ r \notin ToSet(waiters[p])
    <3>1. r \in children[parent[r]] \cup ToSet(waiters[parent[r]])
      BY <1>0, <2>0 DEF FamilyInv
    <3>2. parent[r] # p /\ parent'[r] = parent[r]
      BY <1>2, <2>0, <2>4, <3>1
    <3>3. CASE r \in children[parent[r]]
      BY <1>2, <2>0, <2>4, <3>2, <3>3
    <3>4. CASE r \in ToSet(waiters[parent[r]])
      BY <1>3, <1>6, <2>0, <2>4, <3>2, <3>4
    <3> QED BY <3>1, <3>3, <3>4
  <2> QED BY <2>1, <2>2, <2>3, <2>4
<1>12. \A q \in PCBs : children'[q] # {} \/ waiters'[q] # <<>> => Alive(q)'
  <2> TAKE q \in PCBs
  <2>1. CASE q = p
    BY <1>2, <1>3, <1>6, <2>1
  <2>2. CASE q = q0
    BY <1>2, <2>2
  <2>3. CASE q # p /\ q # q0
    <3>1. children'[q] \subseteq children[q] /\ w[q] = waiters[q]
      BY <1>2, <1>3, <2>3
    <3>2. children'[q] # {} \/ waiters'[q] # <<>> => Alive(q)
      BY <1>0, <1>6, <2>3, <3>1 DEF FamilyInv
    <3> QED BY <1>2, <2>3, <3>2
  <2> QED BY <2>1, <2>2, <2>3
<1> QED BY <1>6, <1>9, <1>10, <1>11, <1>12 DEF FamilyInv

(* Every step keeps the family pointers in agreement.                      *)
LEMMA FamilyStep ==
  ASSUME IInv, [Next]_vars PROVE FamilyInv'
<1>1. CASE UNCHANGED <<table, waiters_sem>>
  BY <1>1 DEF table, IInv, FamilyInv, Alive
<1>2. ASSUME NEW p \in PCBs, do_wait_block(p) PROVE FamilyInv'
  BY <1>2 DEF do_wait_block, IInv, FamilyInv, Alive
<1> QED BY <1>1, <1>2, QuietSteps, FamilyBoot, FamilyFork, FamilyReap, FamilyExit

-----------------------------------------------------------------------------
(* Steps that change neither the tree nor the allocated PCBs.              *)

(* Who is alive only depends on the heap, parent and children.             *)
LEMMA SameAlive ==
  ASSUME UNCHANGED <<heap, parent, children>>
  PROVE  \A p \in PCBs : Alive(p)' <=> Alive(p)
BY DEF Alive

(* After initialize_user_process one process is alive.                     *)
LEMMA BootEffect ==
  ASSUME IInv, Boot
  PROVE  /\ heap = {} /\ rbtree = {} /\ readyq = <<>> /\ faulted = {}
         /\ runnable' = {} /\ blocked' = {}
         /\ \A i \in Chunks : memory_chunk[i] = 0
         /\ \A r \in PCBs : ~Alive(r)
         /\ \E p \in PCBs :
              /\ heap' = {p}
              /\ \/ readyq' = <<p>> /\ cpu' = cpu
                 \/ readyq' = <<>> /\ cpu' = "exited"
              /\ parent'[p] = InitProc
              /\ \A r \in PCBs : Alive(r)' <=> r = p
<1> USE ConstantFacts
<1>0. TypeOK /\ FamilyInv /\ TableTypeOK /\ SchedTypeOK
  BY DEF IInv, TypeOK
<1>1. Booting
  BY DEF Boot, Runs, Booting
<1>2. /\ readyq = <<>> /\ heap = {} /\ faulted = {} /\ rbtree = {}
      /\ \A t \in runnable \cup blocked : t.pcb = InitProc
      /\ \A i \in Chunks : memory_chunk[i] = 0
  BY <1>1 DEF IInv, BootInv
<1>3. \A t \in runnable \cup blocked : t = Thread("boot", InitProc)
  <2> TAKE t \in runnable \cup blocked
  <2>1. t \in Threads
    BY <1>0 DEF SchedTypeOK
  <2>2. t.pcb = InitProc /\ t.op = "boot"
    BY <1>2 DEF IInv, BootInv
  <2> QED BY <2>1, <2>2 DEF Thread, Threads
<1>4. blocked = {}
  <2>1. \A t \in blocked : t.op \in {"io", "wait"}
    BY DEF IInv, ThreadInv
  <2> QED BY <1>3, <2>1 DEF Thread
<1>5. runnable' = {} /\ blocked' = {}
  BY <1>3, <1>4 DEF Boot, Finish
<1>6. \A r \in PCBs : ~Alive(r)
  BY <1>2 DEF Alive
<1>7. PICK p \in PCBs : /\ heap' = {p}
                        /\ parent' = [parent EXCEPT ![p] = InitProc]
                        /\ children' = [children EXCEPT ![InitProc] = {p}]
                        /\ \/ readyq' = Append(readyq, p) /\ cpu' = cpu
                           \/ cpu' = "exited" /\ readyq' = readyq
  BY DEF Boot
<1>8. parent'[p] = InitProc /\ p \in children'[InitProc]
  BY <1>0, <1>7 DEF TableTypeOK
<1>9. \A r \in PCBs : Alive(r)' <=> r = p
  BY <1>7, <1>8 DEF Alive
<1>10. Append(readyq, p) = <<p>>
  BY <1>2
<1> QED BY <1>2, <1>5, <1>6, <1>7, <1>8, <1>9, <1>10

-----------------------------------------------------------------------------
(* AncestryInv is preserved.                                               *)

(* Every step keeps the process tree rooted at init.                       *)
LEMMA AncestryStep ==
  ASSUME IInv, [Next]_vars PROVE AncestryInv'
<1> USE ConstantFacts
<1>0. TypeOK /\ FamilyInv /\ TableTypeOK /\ AncestryInv
  BY DEF IInv, TypeOK
<1>1. ASSUME UNCHANGED <<parent, children>>, \A r \in PCBs : Alive(r)' <=> Alive(r)
      PROVE  AncestryInv'
  BY <1>0, <1>1 DEF AncestryInv
<1>2. CASE UNCHANGED <<table, waiters_sem>>
  BY <1>1, <1>2, SameAlive DEF table
<1>3. ASSUME NEW p \in PCBs, do_wait_block(p) PROVE AncestryInv'
  BY <1>1, <1>3, SameAlive DEF do_wait_block
<1>4. ASSUME NEW p \in PCBs, do_wait(p) \/ do_wait_resume(p) PROVE AncestryInv'
  <2>1. PICK op \in {"wait", "reap"} : Thread(op, p) \in runnable /\ Reap(p)
    BY <1>4 DEF do_wait, do_wait_resume, Runs
  <2>2. UNCHANGED <<parent, children>>
    BY <2>1 DEF Reap
  <2>3. \A r \in PCBs : Alive(r)' <=> Alive(r)
    BY <2>1, ReapEffect
  <2> QED BY <1>1, <2>2, <2>3
<1>5. CASE Boot
  <2>1. PICK p \in PCBs : /\ parent'[p] = InitProc
                          /\ \A r \in PCBs : Alive(r)' <=> r = p
    BY <1>5, BootEffect
  <2> QED BY <2>1 DEF AncestryInv
<1>6. ASSUME NEW p \in PCBs, do_fork(p) PROVE AncestryInv'
  <2>1. PICK c \in PCBs \ heap, i \in Chunks, n \in 0 .. MaxPid : NewChild(p, c, i, n)
    BY <1>6 DEF do_fork
  <2>1a. Thread("fork", p) \in runnable
    BY <1>6 DEF do_fork, Runs
  <2>2. /\ Alive(p) /\ c # p /\ ~Alive(c)
        /\ \A r \in PCBs : parent'[r] = IF r = c THEN p ELSE parent[r]
        /\ \A r \in PCBs : Alive(r)' <=> Alive(r) \/ r = c
    BY <2>1, <2>1a, ForkEffect
  <2> SUFFICES ASSUME NEW S \in SUBSET PCBs, \A r \in S : Alive(r)', S # {}
               PROVE  \E r \in S : parent'[r] \notin S
    BY SMTT(20) DEF AncestryInv
  <2>3. CASE S = {c}
    BY <2>2, <2>3
  <2>4. CASE S # {c}
    <3>1. S \ {c} \in SUBSET {r \in PCBs : Alive(r)} /\ S \ {c} # {}
      BY <2>2, <2>4
    <3>2. PICK r \in S \ {c} : parent[r] \notin S \ {c}
      BY <1>0, <3>1 DEF AncestryInv
    <3>3. parent[r] # c
      BY <1>0, <2>2, <3>1, <3>2, AliveFacts
    <3> QED BY <2>2, <3>2, <3>3
  <2> QED BY <2>3, <2>4
<1>7. ASSUME NEW p \in PCBs, do_exit_orphan(p) \/ do_exit_zombie(p) PROVE AncestryInv'
  <2>1. /\ \A r \in PCBs :
             parent'[r] = IF r \in children[p] \cup ToSet(waiters[p])
                            THEN InitProc ELSE parent[r]
        /\ \A r \in PCBs : Alive(r)' <=> Alive(r) /\ r # p
    BY <1>7, ExitEffect DEF do_exit_orphan, do_exit_zombie, Runs
  <2> SUFFICES ASSUME NEW S \in SUBSET PCBs, \A r \in S : Alive(r)', S # {}
               PROVE  \E r \in S : parent'[r] \notin S
    BY SMTT(20) DEF AncestryInv
  <2>2. S \in SUBSET {r \in PCBs : Alive(r)}
    BY <2>1
  <2>3. PICK r \in S : parent[r] \notin S
    BY <1>0, <2>2 DEF AncestryInv
  <2>4. InitProc \notin S
    OBVIOUS
  <2> QED BY <2>1, <2>3, <2>4
<1> QED BY <1>2, <1>3, <1>4, <1>5, <1>6, <1>7, QuietSteps

-----------------------------------------------------------------------------
(* ChunkInv is preserved.                                                  *)

(* Every step keeps the memory chunks and the live processes one to one.   *)
LEMMA ChunkStep ==
  ASSUME IInv, [Next]_vars PROVE ChunkInv'
<1> USE ConstantFacts
<1>0. TypeOK /\ FamilyInv /\ TableTypeOK /\ ChunkInv
  BY DEF IInv, TypeOK
<1>1. ASSUME UNCHANGED memory, \A r \in PCBs : Alive(r)' <=> Alive(r)
      PROVE  ChunkInv'
  BY <1>0, <1>1 DEF ChunkInv, memory
<1>2. CASE UNCHANGED <<table, waiters_sem>>
  BY <1>1, <1>2, SameAlive DEF table
<1>3. ASSUME NEW p \in PCBs, do_wait_block(p) PROVE ChunkInv'
  BY <1>1, <1>3, SameAlive DEF do_wait_block
<1>4. ASSUME NEW p \in PCBs, do_wait(p) \/ do_wait_resume(p) PROVE ChunkInv'
  <2>1. PICK op \in {"wait", "reap"} : Thread(op, p) \in runnable /\ Reap(p)
    BY <1>4 DEF do_wait, do_wait_resume, Runs
  <2>2. UNCHANGED memory
    BY <2>1 DEF Reap
  <2>3. \A r \in PCBs : Alive(r)' <=> Alive(r)
    BY <2>1, ReapEffect
  <2> QED BY <1>1, <2>2, <2>3
<1>5. CASE Boot
  <2>1. PICK p \in PCBs : \A r \in PCBs : Alive(r)' <=> r = p
    BY <1>5, BootEffect
  <2>2. PICK s \in PCBs : /\ heap' = {s}
                          /\ memory_chunk' = [memory_chunk EXCEPT ![0] = 1]
                          /\ memory_num' = [memory_num EXCEPT ![s] = 0]
    BY <1>5 DEF Boot
  <2>3. s = p
    BY <2>1, <2>2 DEF Alive
  <2>4. \A i \in Chunks : memory_chunk[i] = 0
    BY <1>5, BootEffect
  <2> QED BY <1>0, <2>1, <2>2, <2>3, <2>4 DEF ChunkInv, TableTypeOK
<1>6. ASSUME NEW p \in PCBs, do_fork(p) PROVE ChunkInv'
  <2>1. PICK c \in PCBs \ heap, i \in Chunks, n \in 0 .. MaxPid : NewChild(p, c, i, n)
    BY <1>6 DEF do_fork
  <2>2. /\ ~Alive(c)
        /\ \A r \in PCBs : Alive(r)' <=> Alive(r) \/ r = c
    BY <1>6, <2>1, ForkEffect DEF do_fork, Runs
  <2>3. /\ memory_chunk[i] = 0
        /\ \A j \in Chunks : memory_chunk'[j] = IF j = i THEN 1 ELSE memory_chunk[j]
        /\ \A r \in PCBs : memory_num'[r] = IF r = c THEN i ELSE memory_num[r]
    BY <1>0, <2>1 DEF NewChild, FirstFreeChunk, TableTypeOK
  <2>4. \A r \in PCBs : Alive(r) => memory_num[r] # i
    BY <1>0, <2>3 DEF ChunkInv
  <2>5. \A r, s \in PCBs :
          Alive(r)' /\ Alive(s)' /\ memory_num'[r] = memory_num'[s] => r = s
    BY <1>0, <2>2, <2>3, <2>4 DEF ChunkInv
  <2>6. \A j \in Chunks :
          memory_chunk'[j] = 1 <=> \E r \in PCBs : Alive(r)' /\ memory_num'[r] = j
    <3> TAKE j \in Chunks
    <3>1. CASE j = i
      BY <2>2, <2>3, <3>1
    <3>2. CASE j # i
      BY <1>0, <2>2, <2>3, <3>2 DEF ChunkInv
    <3> QED BY <3>1, <3>2
  <2> QED BY <2>5, <2>6 DEF ChunkInv
<1>7. ASSUME NEW p \in PCBs, do_exit_orphan(p) \/ do_exit_zombie(p) PROVE ChunkInv'
  <2>1. Alive(p) /\ \A r \in PCBs : Alive(r)' <=> Alive(r) /\ r # p
    BY <1>7, ExitEffect DEF do_exit_orphan, do_exit_zombie, Runs
  <2>2. /\ memory_num' = memory_num
        /\ \A j \in Chunks :
             memory_chunk'[j] = IF j = memory_num[p] THEN 0 ELSE memory_chunk[j]
    BY <1>0, <1>7 DEF do_exit_orphan, do_exit_zombie, ReleaseChunk, TableTypeOK
  <2> QED BY <1>0, <2>1, <2>2 DEF ChunkInv
<1> QED BY <1>2, <1>3, <1>4, <1>5, <1>6, <1>7, QuietSteps

-----------------------------------------------------------------------------
(* PidInv is preserved, and 0 stays in rbtree.                             *)

(* Every step keeps the pids distinct and rbtree exact.                    *)
LEMMA PidStep ==
  ASSUME IInv, [Next]_vars PROVE PidInv' /\ (heap' # {} => 0 \in rbtree')
<1> DEFINE Goal == PidInv' /\ (heap' # {} => 0 \in rbtree')
<1> USE ConstantFacts
<1>0. TypeOK /\ FamilyInv /\ TableTypeOK /\ PidInv /\ (heap # {} => 0 \in rbtree)
  BY DEF IInv, TypeOK, ThreadInv
<1>1. ASSUME UNCHANGED <<heap, pids>> PROVE Goal
  BY <1>0, <1>1 DEF PidInv, pids
<1>2. CASE UNCHANGED <<table, waiters_sem>>
  BY <1>1, <1>2 DEF table
<1>3. ASSUME NEW p \in PCBs, do_wait_block(p) PROVE Goal
  BY <1>1, <1>3 DEF do_wait_block
<1>4. ASSUME NEW z \in heap, heap' = heap \ {z}, rbtree' = rbtree \ {pid[z]},
             pid' = pid
      PROVE  Goal
  BY <1>0, <1>4 DEF PidInv, TableTypeOK
<1>5. ASSUME NEW p \in PCBs, do_wait(p) \/ do_wait_resume(p) PROVE Goal
  <2>1. PICK op \in {"wait", "reap"} : Thread(op, p) \in runnable /\ Reap(p)
    BY <1>5 DEF do_wait, do_wait_resume, Runs
  <2>2. Head(waiters[p]) \in heap
    BY <2>1, ReapEffect
  <2> QED BY <1>4, <2>1, <2>2 DEF Reap
<1>6. ASSUME NEW p \in PCBs, do_exit_orphan(p) PROVE Goal
  <2>1. p \in heap
    BY <1>6, ThreadAlive DEF do_exit_orphan, Runs, Alive
  <2> QED BY <1>4, <1>6, <2>1 DEF do_exit_orphan
<1>7. ASSUME NEW p \in PCBs, do_exit_zombie(p) PROVE Goal
  BY <1>1, <1>7 DEF do_exit_zombie
<1>8. CASE Boot
  <2>1. PICK p \in PCBs, n \in 0 .. MaxPid :
          /\ n # 0 /\ heap' = {p}
          /\ pid' = [pid EXCEPT ![p] = n] /\ rbtree' = {0, n}
    BY <1>8 DEF Boot, FirstFreePid
  <2> QED BY <1>0, <2>1 DEF PidInv, TableTypeOK
<1>9. ASSUME NEW p \in PCBs, do_fork(p) PROVE Goal
  <2>1. PICK c \in PCBs \ heap, i \in Chunks, n \in 0 .. MaxPid : NewChild(p, c, i, n)
    BY <1>9 DEF do_fork
  <2>2. p \in heap
    BY <1>9, <2>1, ForkEffect DEF do_fork, Runs
  <2>3. n \notin rbtree /\ 0 \in rbtree /\ n # 0
    BY <1>0, <2>1, <2>2 DEF NewChild, FirstFreePid
  <2>4. /\ heap' = heap \cup {c} /\ rbtree' = rbtree \cup {n}
        /\ \A r \in Procs : pid'[r] = IF r = c THEN n ELSE pid[r]
    BY <1>0, <2>1 DEF NewChild, TableTypeOK
  <2>5. \A r \in heap : pid[r] \in rbtree /\ r \in Procs /\ r # c
    BY <1>0 DEF PidInv, TableTypeOK
  <2>6. rbtree' \ {0} = {pid'[r] : r \in heap'}
    BY <1>0, <2>3, <2>4, <2>5 DEF PidInv
  <2>7. /\ pid'[InitProc] = 0
        /\ \A r \in heap' : pid'[r] # 0
        /\ \A r, s \in heap' : pid'[r] = pid'[s] => r = s
    BY <1>0, <2>3, <2>4, <2>5 DEF PidInv
  <2> QED BY <2>3, <2>4, <2>6, <2>7 DEF PidInv
<1> QED BY <1>2, <1>3, <1>5, <1>6, <1>7, <1>8, <1>9, QuietSteps

-----------------------------------------------------------------------------
(* What each step does to the kernel threads and the queue.  Every step    *)
(* but Boot runs when the system has booted.                               *)

Kt == runnable \cup blocked

(* A thread ends and its process goes to the back of readyq.               *)
ReturnStep(op, p) ==
  /\ op \in Ops \ {"boot"} /\ Thread(op, p) \in runnable
  /\ cpu = "kernel" /\ cpu' = "kernel"
  /\ runnable' = runnable \ {Thread(op, p)} /\ blocked' = blocked
  /\ readyq' = Append(readyq, p) /\ faulted' = faulted

(* syscall_return adds its caller to readyq and nobody else.               *)
LEMMA ReturnSteps ==
  ASSUME NEW p \in PCBs
  PROVE  /\ do_other(p) => ReturnStep("other", p)
         /\ do_fork_fail(p) => ReturnStep("fork", p)
         /\ finish_fork(p) => ReturnStep("finish_fork", p)
         /\ do_wait(p) => ReturnStep("wait", p)
         /\ do_wait_resume(p) => ReturnStep("reap", p)
BY OpNames DEF ReturnStep, do_other, do_fork_fail, finish_fork, do_wait, do_wait_resume,
   Reap, Runs, Finish, syscall_return, machine

(* Threads move between runnable and blocked; nothing else changes.        *)
LEMMA PlacesMoved ==
  ASSUME IInv, \A r \in PCBs : Alive(r)' <=> Alive(r),
         Kt' = Kt, runnable' \cap blocked' = {},
         readyq' = readyq, faulted' = faulted,
         cpu' = cpu /\ curr' = curr
  PROVE  OnePlace'
BY DEF IInv, OnePlace, Running, Queued, InKernel, Kt

(* A thread that ends in syscall_return moves its process to readyq.       *)
LEMMA PlacesReturn ==
  ASSUME IInv, NEW op, NEW p \in PCBs, \A r \in PCBs : Alive(r)' <=> Alive(r),
         Thread(op, p) \in runnable, cpu = "kernel", cpu' = "kernel",
         Kt' = Kt \ {Thread(op, p)}, runnable' \cap blocked' = {},
         readyq' = Append(readyq, p), faulted' = faulted
  PROVE  OnePlace'
<1> DEFINE t == Thread(op, p)
<1>1. readyq \in Seq(PCBs)
  BY DEF IInv, TypeOK, SchedTypeOK
<1>2. /\ Alive(p) /\ p \notin faulted /\ ~Queued(p)
      /\ \A u \in Kt : u.pcb = p => u = t
      /\ t \in Kt /\ t.pcb = p
  BY ThreadAlive DEF Kt, Thread
<1>3. ToSet(readyq') = ToSet(readyq) \cup {p} /\ IsInjective(readyq')
  <2>1. IsInjective(readyq) /\ p \notin ToSet(readyq)
    BY <1>2 DEF IInv, OnePlace, Queued
  <2> QED BY <1>1, <2>1, ElemsAppend
<1>4. \A r \in PCBs : /\ ~Running(r)' /\ ~Running(r)
                      /\ Queued(r)' <=> Queued(r) \/ r = p
                      /\ InKernel(r)' <=> InKernel(r) /\ r # p
  BY <1>2, <1>3 DEF Running, Queued, InKernel, Kt
<1>5. \A t1, u1 \in Kt' : t1.pcb = u1.pcb => t1 = u1
  BY DEF IInv, OnePlace, Kt
<1>6. \A r \in PCBs :
        /\ ~(Queued(r) /\ InKernel(r))
        /\ (Queued(r) \/ InKernel(r)) => Alive(r) /\ r \notin faulted
        /\ Alive(r) /\ r \notin faulted => Queued(r) \/ InKernel(r)
  BY <1>4, OpNames DEF IInv, OnePlace
<1>7. \A r \in PCBs :
       /\ ~(Running(r)' /\ Queued(r)')
       /\ ~(Running(r)' /\ InKernel(r)')
       /\ ~(Queued(r)' /\ InKernel(r)')
       /\ (Running(r)' \/ Queued(r)' \/ InKernel(r)') => Alive(r)' /\ r \notin faulted'
       /\ Alive(r)' /\ r \notin faulted' /\ cpu' \notin Final
            => Running(r)' \/ Queued(r)' \/ InKernel(r)'
  <2> TAKE r \in PCBs
  <2>1. CASE r = p
    BY <1>2, <1>4, <2>1
  <2>2. CASE r # p
    BY <1>4, <1>6, <2>2
  <2> QED BY <2>1, <2>2
<1> QED BY <1>3, <1>5, <1>7 DEF OnePlace, Kt

(* scheduler() moves a process from readyq to the CPU.                     *)
LEMMA PlacesScheduler ==
  ASSUME IInv, Scheduler PROVE OnePlace'
<1>0. /\ OnePlace /\ readyq \in Seq(PCBs) /\ cpu = "kernel" /\ runnable = {}
      /\ UNCHANGED <<runnable, blocked, heap, parent, children, faulted>>
  BY DEF IInv, TypeOK, SchedTypeOK, Scheduler, scheduler_halt, scheduler_noop,
         scheduler_run, Idle, ktvars, family
<1>1. \A r \in PCBs : Alive(r)' <=> Alive(r)
  BY <1>0, SameAlive
<1>2. \A r \in PCBs : (InKernel(r)' <=> InKernel(r)) /\ ~Running(r)
  BY <1>0 DEF InKernel, Running
<1>3. CASE scheduler_halt \/ scheduler_noop
  <2>1. /\ readyq' = readyq /\ cpu' \in {"halt", "noop"}
        /\ \A r \in PCBs : ~Running(r)' /\ (Queued(r)' <=> Queued(r))
    BY <1>3 DEF scheduler_halt, scheduler_noop, Running, Queued
  <2>2. cpu \notin Final
    BY <1>0, OpNames
  <2> QED BY <1>0, <1>1, <1>2, <2>1, <2>2 DEF OnePlace
<1>4. CASE scheduler_run
  <2> DEFINE h == Head(readyq)
  <2>1. /\ ToSet(readyq) = {h} \cup ToSet(readyq') /\ h \in PCBs
        /\ IsInjective(readyq') /\ h \notin ToSet(readyq')
    BY <1>0, <1>4, ElemsTail DEF scheduler_run, Unlinked, OnePlace
  <2>2. \A r \in PCBs : /\ Running(r)' <=> r = h
                        /\ Queued(r) <=> Queued(r)' \/ r = h
                        /\ Queued(r)' => r # h
    BY <1>4, <2>1 DEF scheduler_run, Running, Queued
  <2>3. cpu \notin Final
    BY <1>0, OpNames
  <2>4. \A r \in PCBs :
          /\ ~(Queued(r) /\ InKernel(r))
          /\ (Queued(r) \/ InKernel(r)) => Alive(r) /\ r \notin faulted
          /\ Alive(r) /\ r \notin faulted => Queued(r) \/ InKernel(r)
    BY <1>0, <1>2, <2>3 DEF OnePlace
  <2>5. \A r \in PCBs :
         /\ ~(Running(r)' /\ Queued(r)')
         /\ ~(Running(r)' /\ InKernel(r)')
         /\ ~(Queued(r)' /\ InKernel(r)')
         /\ (Running(r)' \/ Queued(r)' \/ InKernel(r)') => Alive(r)' /\ r \notin faulted'
         /\ Alive(r)' /\ r \notin faulted' => Running(r)' \/ Queued(r)' \/ InKernel(r)'
    BY <1>0, <1>1, <1>2, <2>2, <2>4
  <2> QED BY <1>0, <2>1, <2>5 DEF OnePlace
<1> QED BY <1>3, <1>4 DEF Scheduler

(* exceptionHandler moves a process from the CPU to a thread, or to        *)
(* nowhere when it faulted.                                                *)
LEMMA PlacesException ==
  ASSUME IInv, Exception PROVE OnePlace'
<1> USE ConstantFacts
<1>0. /\ OnePlace /\ cpu = "user" /\ runnable = {} /\ curr \in PCBs
      /\ UNCHANGED <<curr, readyq, blocked, heap, parent, children>>
  BY DEF IInv, MachineInv, Exception, Fault, SyscallHalt, Syscall, ktvars, family
<1>1. \A r \in PCBs : Alive(r)' <=> Alive(r)
  BY <1>0, SameAlive
<1>2. \A r \in PCBs : /\ Running(r) <=> r = curr
                      /\ Queued(r)' <=> Queued(r)
                      /\ InKernel(r) <=> \E t \in blocked : t.pcb = r
  BY <1>0 DEF Running, Queued, InKernel
<1>3. /\ \A t \in blocked : t.pcb # curr
      /\ ~Queued(curr) /\ Alive(curr) /\ curr \notin faulted
      /\ cpu \notin Final
  BY <1>0, <1>2, OpNames DEF OnePlace
<1>4. CASE SyscallHalt
  <2>1. cpu' \in Final /\ runnable' = {} /\ faulted' = faulted
    BY <1>0, <1>4, OpNames DEF SyscallHalt, ktvars
  <2>2. \A r \in PCBs : ~Running(r)' /\ (InKernel(r)' <=> InKernel(r))
    BY <1>0, <1>2, <1>4, <2>1 DEF SyscallHalt, Running, InKernel
  <2> QED BY <1>0, <1>1, <1>2, <2>1, <2>2 DEF OnePlace
<1>5. CASE Fault
  <2>1. cpu' = "kernel" /\ runnable' = {} /\ faulted' = faulted \cup {curr}
    BY <1>0, <1>5 DEF Fault, ktvars
  <2>2. \A r \in PCBs : ~Running(r)' /\ (InKernel(r)' <=> InKernel(r))
    BY <1>0, <1>2, <2>1 DEF Running, InKernel
  <2> QED BY <1>0, <1>1, <1>2, <1>3, <2>1, <2>2 DEF OnePlace
<1>6. ASSUME NEW op \in SyscallOps, Syscall(op) PROVE OnePlace'
  <2> DEFINE t == Thread(op, curr)
  <2>1. cpu' = "kernel" /\ runnable' = {t} /\ faulted' = faulted /\ t.pcb = curr
    BY <1>0, <1>6 DEF Syscall, Thread
  <2> HIDE DEF t
  <2>2. \A r \in PCBs : ~Running(r)' /\ (InKernel(r)' <=> InKernel(r) \/ r = curr)
    BY <1>0, <1>2, <2>1 DEF Running, InKernel
  <2>3. /\ runnable' \cap blocked' = {}
        /\ \A u, v \in runnable' \cup blocked' : u.pcb = v.pcb => u = v
    BY <1>0, <1>3, <2>1 DEF OnePlace
  <2>4. \A r \in PCBs :
          /\ ~(Queued(r)' /\ InKernel(r)')
          /\ (Queued(r)' \/ InKernel(r)') => Alive(r)' /\ r \notin faulted'
          /\ Alive(r)' /\ r \notin faulted' => Queued(r)' \/ InKernel(r)'
    BY <1>0, <1>1, <1>2, <1>3, <2>1, <2>2 DEF OnePlace
  <2> QED BY <1>0, <2>2, <2>3, <2>4 DEF OnePlace
<1> QED BY <1>4, <1>5, <1>6 DEF Exception

(* interruptHandler moves a process from the CPU to readyq.                *)
LEMMA PlacesInterrupt ==
  ASSUME IInv, Interrupt PROVE OnePlace'
<1> USE ConstantFacts
<1>0. /\ OnePlace /\ cpu \in {"user", "noop"} /\ runnable = {} /\ readyq \in Seq(PCBs)
      /\ cpu = "user" => curr \in PCBs /\ ~is_noop
      /\ cpu = "noop" => is_noop
      /\ cpu' = "kernel" /\ readyq' = RequeueCurr
      /\ UNCHANGED <<heap, parent, children, faulted>>
  BY DEF IInv, TypeOK, SchedTypeOK, MachineInv, Interrupt, TimerInt, ConsoleInt, family
<1>1. \A r \in PCBs : Alive(r)' <=> Alive(r)
  BY <1>0, SameAlive
<1>2. Kt' = Kt /\ runnable' \cap blocked' = {}
  BY <1>0 DEF Interrupt, TimerInt, ConsoleInt, ktvars, Kt
<1>3. \A r \in PCBs : (InKernel(r)' <=> InKernel(r)) /\ ~Running(r)'
  BY <1>0, <1>2 DEF InKernel, Kt, Running
<1>4. /\ IsInjective(readyq')
      /\ \A r \in PCBs : Queued(r)' <=> Queued(r) \/ Running(r)
  <2>1. CASE is_noop
    BY <1>0, <2>1 DEF RequeueCurr, OnePlace, Queued, Running
  <2>2. CASE ~is_noop
    <3>1. cpu = "user" /\ curr \in PCBs /\ curr \notin ToSet(readyq)
      BY <1>0, <2>2 DEF OnePlace, Running, Queued
    <3>2. ToSet(readyq') = ToSet(readyq) \cup {curr} /\ IsInjective(readyq')
      BY <1>0, <2>2, <3>1, ElemsAppend DEF RequeueCurr, OnePlace
    <3> QED BY <3>1, <3>2 DEF Queued, Running
  <2> QED BY <2>1, <2>2
<1>5. cpu \notin Final
  BY <1>0, OpNames
<1>6. \A t, u \in Kt' : t.pcb = u.pcb => t = u
  BY <1>0, <1>2 DEF OnePlace, Kt
<1>7. \A r \in PCBs :
        /\ ~(Queued(r)' /\ InKernel(r)')
        /\ (Queued(r)' \/ InKernel(r)') => Alive(r)' /\ r \notin faulted'
        /\ Alive(r)' /\ r \notin faulted' => Queued(r)' \/ InKernel(r)'
  BY <1>0, <1>1, <1>3, <1>4, <1>5 DEF OnePlace
<1> QED BY <1>2, <1>3, <1>4, <1>6, <1>7 DEF OnePlace, Kt

(* initialize_user_process puts process 1 in readyq.                       *)
LEMMA PlacesBoot ==
  ASSUME IInv, Boot PROVE OnePlace'
<1>1. PICK p \in PCBs : /\ \/ readyq' = <<p>> /\ cpu' = cpu
                           \/ readyq' = <<>> /\ cpu' = "exited"
                        /\ \A r \in PCBs : Alive(r)' <=> r = p
  BY BootEffect
<1>2. /\ faulted' = {} /\ runnable' = {} /\ blocked' = {} /\ cpu = "kernel"
  BY BootEffect DEF Boot, Runs
<1>3. IsInjective(readyq') /\ ToSet(readyq') = IF cpu' = "exited" THEN {} ELSE {p}
  BY <1>1, <1>2 DEF IsInjective, ToSet
<1>4. \A r \in PCBs : ~Running(r)' /\ ~InKernel(r)'
  BY <1>1, <1>2 DEF Running, InKernel
<1> QED BY <1>1, <1>2, <1>3, <1>4, OpNames DEF OnePlace, Queued

(* do_fork puts the caller in readyq and gives the child a thread.         *)
LEMMA PlacesFork ==
  ASSUME IInv, NEW p \in PCBs, do_fork(p) PROVE OnePlace'
<1> USE ConstantFacts
<1>0. /\ OnePlace /\ readyq \in Seq(PCBs)
  BY DEF IInv, TypeOK, SchedTypeOK
<1>1. PICK c \in PCBs \ heap, i \in Chunks, n \in 0 .. MaxPid : NewChild(p, c, i, n)
  BY DEF do_fork
<1> DEFINE t == Thread("fork", p)
           u == Thread("finish_fork", c)
<1>2. /\ t \in runnable /\ cpu = "kernel" /\ cpu' = "kernel"
      /\ runnable' = (runnable \ {t}) \cup {u} /\ blocked' = blocked
      /\ readyq' = Append(readyq, p) /\ faulted' = faulted
  BY <1>1 DEF do_fork, Runs, NewChild, Finish, machine, syscall_return
<1>3. /\ Alive(p) /\ c # p /\ ~Alive(c)
      /\ \A r \in PCBs : Alive(r)' <=> Alive(r) \/ r = c
  BY <1>1, <1>2, ForkEffect
<1>4. /\ p \notin faulted /\ p \notin ToSet(readyq)
      /\ \A v \in runnable \cup blocked : v.pcb = p => v = t
  BY <1>2, ThreadAlive DEF Queued
<1>5. /\ c \notin faulted /\ c \notin ToSet(readyq)
      /\ \A v \in runnable \cup blocked : v.pcb # c
  BY <1>0, <1>3 DEF OnePlace, Queued, InKernel, IInv, ThreadInv
<1>6. t.pcb = p /\ u.pcb = c
  BY DEF Thread
<1> HIDE DEF t, u
<1>7. ToSet(readyq') = ToSet(readyq) \cup {p} /\ IsInjective(readyq')
  BY <1>0, <1>2, <1>4, ElemsAppend DEF OnePlace
<1>8. \A r \in PCBs : /\ ~Running(r) /\ ~Running(r)'
                      /\ Queued(r)' <=> Queued(r) \/ r = p
                      /\ InKernel(r)' <=> (InKernel(r) /\ r # p) \/ r = c
  <2>1. t \notin blocked
    BY <1>0, <1>2 DEF OnePlace
  <2>2. runnable' \cup blocked' = ((runnable \cup blocked) \ {t}) \cup {u}
    BY <1>2, <2>1
  <2> QED BY <1>2, <1>3, <1>4, <1>6, <1>7, <2>2 DEF Running, Queued, InKernel
<1>9. /\ runnable' \cap blocked' = {}
      /\ \A v, w \in runnable' \cup blocked' : v.pcb = w.pcb => v = w
  <2>1. /\ runnable \cap blocked = {}
        /\ \A v, w \in runnable \cup blocked : v.pcb = w.pcb => v = w
    BY <1>0 DEF OnePlace
  <2>2. u \notin runnable \cup blocked
    BY <1>5, <1>6
  <2>3. runnable' \cup blocked' \subseteq (runnable \cup blocked) \cup {u}
    BY <1>2
  <2>4. runnable' \cap blocked' = {}
    BY <1>2, <2>1, <2>2
  <2>5. ASSUME NEW v \in runnable' \cup blocked', NEW w \in runnable' \cup blocked',
               v.pcb = w.pcb
        PROVE  v = w
    BY <1>5, <1>6, <2>1, <2>3, <2>5
  <2> QED BY <2>4, <2>5
<1>10. \A r \in PCBs :
         /\ ~(Queued(r)' /\ InKernel(r)')
         /\ (Queued(r)' \/ InKernel(r)') => Alive(r)' /\ r \notin faulted'
         /\ Alive(r)' /\ r \notin faulted' => Queued(r)' \/ InKernel(r)'
  <2> TAKE r \in PCBs
  <2>0. cpu \notin Final
    BY <1>2, OpNames
  <2>1. CASE r = c
    BY <1>2, <1>3, <1>5, <1>8, <2>1 DEF Queued
  <2>2. CASE r = p
    BY <1>2, <1>3, <1>4, <1>8, <2>2
  <2>3. CASE r # c /\ r # p
    BY <1>0, <1>2, <1>3, <1>8, <2>0, <2>3 DEF OnePlace
  <2> QED BY <2>1, <2>2, <2>3
<1> QED BY <1>7, <1>8, <1>9, <1>10 DEF OnePlace

(* do_exit: the thread ends with its process, and the parent's thread may  *)
(* be released from wait.                                                  *)
LEMMA ExitWakes ==
  ASSUME IInv, NEW p \in PCBs, do_exit_zombie(p), waiters_sem[parent[p]] < 0
  PROVE  Thread("wait", parent[p]) \in blocked /\ parent[p] \in PCBs
<1> USE ConstantFacts
<1> DEFINE q == parent[p]
<1>1. Thread("exit", p) \in runnable /\ pid[q] # 0
  BY DEF do_exit_zombie, Runs
<1>2. q \in PCBs /\ Alive(q)
  BY <1>1, ExitEffect DEF do_exit_zombie
<1>3. waiters[q] \in Seq(PCBs) /\ Len(waiters[q]) \in Nat
  BY <1>2 DEF IInv, TypeOK, TableTypeOK
<1>4. waiters_sem[q] = Len(waiters[q]) - One(Waits(q)) - One(Reaps(q))
  BY <1>2 DEF IInv, SemInv
<1>5. Reaps(q) => Len(waiters[q]) > 0
  BY <1>2, <1>3 DEF IInv, SemInv
<1>6. ~(Waits(q) /\ Reaps(q))
  BY <1>2, ThreadAlive, ThreadEq DEF Waits, Reaps, Thread
<1>7. Waits(q)
  <2> SUFFICES ASSUME ~Waits(q) PROVE FALSE
    OBVIOUS
  <2>1. One(Waits(q)) = 0
    BY DEF One
  <2>2. CASE Reaps(q)
    <3>1. One(Reaps(q)) = 1
      BY <2>2 DEF One
    <3>2. Len(waiters[q]) > 0
      BY <1>5, <2>2
    <3>3. waiters_sem[q] = Len(waiters[q]) - 0 - 1
      BY <1>4, <2>1, <3>1
    <3> QED BY <1>3, <3>2, <3>3
  <2>3. CASE ~Reaps(q)
    <3>1. One(Reaps(q)) = 0
      BY <2>3 DEF One
    <3> QED BY <1>3, <1>4, <2>1, <3>1
  <2> QED BY <2>2, <2>3
<1> QED BY <1>2, <1>7 DEF Waits

(* do_exit leaves the caller nowhere and may make its parent's thread      *)
(* runnable.                                                               *)
LEMMA PlacesExit ==
  ASSUME IInv, NEW p \in PCBs, do_exit_orphan(p) \/ do_exit_zombie(p)
  PROVE  OnePlace'
<1> USE ConstantFacts
<1>0. OnePlace
  BY DEF IInv
<1> DEFINE t == Thread("exit", p)
           q == parent[p]
<1>1. /\ t \in runnable /\ cpu = "kernel" /\ cpu' = "kernel"
      /\ readyq' = readyq /\ faulted' = faulted
      /\ children' = ChildrenAfterExit(p) /\ parent' = Reparent(p)
      /\ heap' = heap \/ heap' = heap \ {p}
  BY DEF do_exit_orphan, do_exit_zombie, Runs, machine
<1>2. \A r \in PCBs : Alive(r)' <=> Alive(r) /\ r # p
  BY <1>1, ExitEffect
<1>3. /\ Alive(p) /\ p \notin faulted /\ ~Queued(p)
      /\ \A v \in runnable \cup blocked : v.pcb = p => v = t
      /\ t.pcb = p /\ t \notin blocked
  BY <1>0, <1>1, ThreadAlive DEF OnePlace, Thread
<1>4. /\ runnable' \cap blocked' = {}
      /\ \A v, w \in runnable' \cup blocked' : v.pcb = w.pcb => v = w
      /\ \A r \in PCBs : InKernel(r)' <=> InKernel(r) /\ r # p
  <2>1. CASE runnable' = runnable \ {t} /\ blocked' = blocked
    BY <1>0, <1>3, <2>1 DEF OnePlace, InKernel
  <2>2. CASE do_exit_zombie(p) /\ waiters_sem[q] < 0
    <3> DEFINE s == Thread("wait", q)
               u == Thread("reap", q)
    <3>1. s \in blocked /\ q \in PCBs
      BY <2>2, ExitWakes
    <3>2. runnable' = (runnable \ {t}) \cup {u} /\ blocked' = blocked \ {s}
      BY <2>2 DEF do_exit_zombie, Notified
    <3>3. s.pcb = q /\ u.pcb = q /\ u # s /\ s # t
      BY ThreadEq DEF Thread
    <3>4. \A v \in runnable \cup blocked : v.pcb = q => v = s
      BY <3>1, ThreadAlive
    <3> HIDE DEF s, u, t
    <3>5. u \notin runnable \cup blocked /\ s \notin runnable /\ q # p
      BY <1>0, <1>1, <1>3, <3>1, <3>3, <3>4 DEF OnePlace
    <3>6. runnable' \cup blocked' = ((runnable \cup blocked) \ {t, s}) \cup {u}
      BY <1>3, <3>2, <3>5
    <3>7. runnable' \cap blocked' = {}
      BY <1>0, <3>2, <3>5 DEF OnePlace
    <3>8. ASSUME NEW v \in runnable' \cup blocked', NEW w \in runnable' \cup blocked',
                 v.pcb = w.pcb
          PROVE  v = w
      <4>1. v \in runnable \cup blocked /\ v # s => v.pcb # q
        BY <3>4
      <4>2. w \in runnable \cup blocked /\ w # s => w.pcb # q
        BY <3>4
      <4> QED BY <1>0, <3>3, <3>6, <3>8, <4>1, <4>2 DEF OnePlace
    <3>9. ASSUME NEW r \in PCBs PROVE InKernel(r)' <=> InKernel(r) /\ r # p
      <4>1. CASE r = p
        BY <1>3, <3>3, <3>5, <3>6, <4>1 DEF InKernel
      <4>2. CASE r = q
        BY <1>3, <3>1, <3>3, <3>5, <3>6, <4>2 DEF InKernel
      <4>3. CASE r # p /\ r # q
        BY <1>3, <3>3, <3>6, <4>3 DEF InKernel
      <4> QED BY <4>1, <4>2, <4>3
    <3> QED BY <3>7, <3>8, <3>9
  <2> QED BY <2>1, <2>2 DEF do_exit_orphan, do_exit_zombie, Finish, Notified
<1>5. \A r \in PCBs : /\ ~Running(r) /\ ~Running(r)'
                      /\ Queued(r)' <=> Queued(r)
  BY <1>1 DEF Running, Queued
<1>6. \A r \in PCBs :
         /\ ~(Queued(r)' /\ InKernel(r)')
         /\ (Queued(r)' \/ InKernel(r)') => Alive(r)' /\ r \notin faulted'
         /\ Alive(r)' /\ r \notin faulted' => Queued(r)' \/ InKernel(r)'
  <2> TAKE r \in PCBs
  <2>0. cpu \notin Final
    BY <1>1, OpNames
  <2>1. CASE r = p
    BY <1>2, <1>3, <1>4, <1>5, <2>1
  <2>2. CASE r # p
    BY <1>0, <1>1, <1>2, <1>4, <1>5, <2>0, <2>2 DEF OnePlace
  <2> QED BY <2>1, <2>2
<1>7. IsInjective(readyq')
  BY <1>0, <1>1 DEF OnePlace
<1> QED BY <1>4, <1>5, <1>6, <1>7 DEF OnePlace

(* Every step keeps each live process in one place.                        *)
LEMMA PlacesStep ==
  ASSUME IInv, [Next]_vars PROVE OnePlace'
<1> USE ConstantFacts
<1>0. runnable \cap blocked = {}
  BY DEF IInv, OnePlace
<1>1. CASE UNCHANGED vars
  BY <1>1, <1>0, SameAlive, PlacesMoved DEF vars, machine, ktvars, family, Kt
<1>2. ASSUME NEW p \in PCBs, NEW op, ReturnStep(op, p),
             \A r \in PCBs : Alive(r)' <=> Alive(r)
      PROVE  OnePlace'
  <2>1. Kt' = Kt \ {Thread(op, p)} /\ runnable' \cap blocked' = {}
    BY <1>0, <1>2 DEF ReturnStep, Kt
  <2> QED BY <1>2, <2>1, PlacesReturn DEF ReturnStep
<1>3. ASSUME NEW p \in PCBs, do_other(p) \/ do_fork_fail(p) \/ finish_fork(p)
      PROVE  OnePlace'
  <2>1. \A r \in PCBs : Alive(r)' <=> Alive(r)
    BY <1>3, SameAlive DEF do_other, do_fork_fail, finish_fork, family
  <2> QED BY <1>2, <1>3, <2>1, ReturnSteps
<1>4. ASSUME NEW p \in PCBs, do_wait(p) \/ do_wait_resume(p) PROVE OnePlace'
  <2>1. PICK op \in {"wait", "reap"} : Thread(op, p) \in runnable /\ Reap(p)
    BY <1>4 DEF do_wait, do_wait_resume, Runs
  <2>2. \A r \in PCBs : Alive(r)' <=> Alive(r)
    BY <2>1, ReapEffect
  <2> QED BY <1>2, <1>4, <2>2, ReturnSteps
<1>5. ASSUME NEW p \in PCBs, do_execve(p) PROVE OnePlace'
  <2>0. UNCHANGED <<heap, parent, children>>
    BY <1>5 DEF do_execve, family
  <2>1. CASE cpu' = cpu
    <3>1. ReturnStep("execve", p)
      BY <1>5, <2>1, OpNames DEF do_execve, ReturnStep, Runs, Finish, syscall_return
    <3> QED BY <1>2, <2>0, <3>1, SameAlive
  <2>2. CASE cpu' # cpu
    <3>1. /\ cpu = "kernel" /\ cpu' = "exited" /\ readyq' = readyq /\ faulted' = faulted
          /\ runnable' \subseteq runnable /\ blocked' = blocked
      BY <1>5, <2>2 DEF do_execve, Runs, Finish
    <3>2. \A r \in PCBs : /\ ~Running(r)' /\ (Queued(r)' <=> Queued(r))
                          /\ InKernel(r)' => InKernel(r)
                          /\ Alive(r)' <=> Alive(r)
      BY <2>0, <3>1, SameAlive DEF Running, Queued, InKernel
    <3> QED BY <3>1, <3>2, OpNames DEF IInv, OnePlace
  <2> QED BY <2>1, <2>2
<1>6. ASSUME NEW p \in PCBs, do_io_return(p) PROVE OnePlace'
  <2> DEFINE t == Thread("io", p)
  <2>1. PICK W \in SUBSET blocked :
          runnable' = (runnable \ {t}) \cup W /\ blocked' = blocked \ W
    BY <1>6 DEF do_io_return
  <2>2. /\ t \in runnable /\ cpu = "kernel" /\ cpu' = "kernel" /\ faulted' = faulted
        /\ readyq' = Append(readyq, p) /\ UNCHANGED <<heap, parent, children>>
    BY <1>6 DEF do_io_return, Runs, machine, family, syscall_return
  <2> HIDE DEF t
  <2>3. Kt' = Kt \ {t} /\ runnable' \cap blocked' = {}
    BY <1>0, <2>1, <2>2 DEF Kt
  <2> QED BY <2>2, <2>3, SameAlive, PlacesReturn DEF t
<1>7. ASSUME NEW p \in PCBs, do_io_block(p) \/ do_wait_block(p) PROVE OnePlace'
  <2>1. PICK W \in SUBSET blocked, t \in runnable :
          runnable' = (runnable \ {t}) \cup W /\ blocked' = (blocked \ W) \cup {t}
    <3>1. CASE do_io_block(p)
      BY <3>1 DEF do_io_block, Runs
    <3>2. CASE do_wait_block(p)
      <4>1. /\ Thread("wait", p) \in runnable /\ {} \in SUBSET blocked
            /\ runnable' = (runnable \ {Thread("wait", p)}) \cup {}
            /\ blocked' = (blocked \ {}) \cup {Thread("wait", p)}
        BY <3>2 DEF do_wait_block, Runs
      <4> QED BY <4>1
    <3> QED BY <1>7, <3>1, <3>2
  <2>2. /\ readyq' = readyq /\ faulted' = faulted /\ cpu' = cpu /\ curr' = curr
        /\ UNCHANGED <<heap, parent, children>>
    BY <1>7 DEF do_io_block, do_wait_block, machine, family
  <2>3. Kt' = Kt /\ runnable' \cap blocked' = {}
    BY <1>0, <2>1 DEF Kt
  <2> QED BY <2>2, <2>3, SameAlive, PlacesMoved
<1> QED BY <1>1, <1>3, <1>4, <1>5, <1>6, <1>7, PlacesBoot, PlacesScheduler,
           PlacesException, PlacesInterrupt, PlacesFork, PlacesExit
        DEF Next, Kernel, KernelThread, Stopped

-----------------------------------------------------------------------------
(* BootInv and ThreadInv are preserved.                                    *)

(* Once the system runs, a step starts no boot thread, and only read,      *)
(* write, close and wait come to block.                                    *)
LEMMA KtStep ==
  ASSUME IInv, Next, ~Boot, ~Stopped
  PROVE  /\ ~Booting
         /\ \A t \in Kt' : t \in Kt \/ (t.pcb \in PCBs /\ t.op # "boot")
         /\ \A t \in blocked' : t.op \in {"io", "wait"}
         /\ faulted' = faulted \/ (faulted' = faulted \cup {curr} /\ Running(curr))
<1> DEFINE Goal ==
      /\ ~Booting
      /\ \A t \in Kt' : t \in Kt \/ (t.pcb \in PCBs /\ t.op # "boot")
      /\ \A t \in blocked' : t.op \in {"io", "wait"}
      /\ faulted' = faulted \/ (faulted' = faulted \cup {curr} /\ Running(curr))
<1>0. \A t \in blocked : t.op \in {"io", "wait"}
  BY DEF IInv, ThreadInv
<1>1. CASE Scheduler
  <2>1. runnable = {} /\ UNCHANGED <<runnable, blocked, faulted>>
    BY <1>1 DEF Scheduler, scheduler_halt, scheduler_noop, scheduler_run, Idle, ktvars
  <2> QED BY <1>0, <2>1 DEF Booting, Kt
<1>2. CASE Exception
  <2>0. runnable = {} /\ curr \in PCBs /\ cpu = "user" /\ blocked' = blocked
    BY <1>2 DEF IInv, MachineInv, Exception, Fault, SyscallHalt, Syscall, ktvars
  <2>1. ~Booting /\ Running(curr)
    BY <2>0 DEF Booting, Running
  <2>2. CASE Fault \/ SyscallHalt
    <3>1. /\ runnable' = runnable
          /\ faulted' = faulted \/ faulted' = faulted \cup {curr}
      BY <2>2 DEF Fault, SyscallHalt, ktvars
    <3> QED BY <1>0, <2>0, <2>1, <3>1 DEF Kt
  <2>3. ASSUME NEW op \in SyscallOps, Syscall(op) PROVE Goal
    <3>1. runnable' = {Thread(op, curr)} /\ faulted' = faulted
      BY <2>0, <2>3 DEF Syscall
    <3>2. Thread(op, curr).pcb \in PCBs /\ Thread(op, curr).op # "boot"
      BY <2>0 DEF Thread, SyscallOps
    <3> QED BY <1>0, <2>0, <2>1, <3>1, <3>2 DEF Kt
  <2> QED BY <1>2, <2>2, <2>3 DEF Exception
<1>3. CASE Interrupt
  <2>1. /\ runnable = {} /\ faulted' = faulted /\ blocked' \subseteq blocked
        /\ Kt' = Kt
    BY <1>3 DEF IInv, MachineInv, Interrupt, TimerInt, ConsoleInt, ktvars, Kt
  <2> QED BY <1>0, <2>1 DEF Booting
<1>4. ASSUME NEW p \in PCBs, KernelThread(p) PROVE Goal
  <2>1. PICK op \in Ops \ {"boot"} : Thread(op, p) \in runnable
    BY <1>4, OpNames DEF KernelThread, do_other, do_execve, do_io_return, do_io_block,
       do_fork, do_fork_fail, finish_fork, do_exit_orphan, do_exit_zombie,
       do_wait_block, do_wait, do_wait_resume, Runs
  <2>2. ~Booting
    BY <2>1, ThreadAlive
  <2>3. faulted' = faulted
    BY <1>4 DEF KernelThread, do_other, do_execve, do_io_return, do_io_block,
       do_fork, do_fork_fail, finish_fork, do_exit_orphan, do_exit_zombie,
       do_wait_block, do_wait, do_wait_resume, Reap
  <2>4. ASSUME runnable' \subseteq runnable, blocked' = blocked PROVE Goal
    BY <1>0, <2>2, <2>3, <2>4 DEF Kt
  <2>5. CASE do_other(p) \/ do_execve(p) \/ do_fork_fail(p) \/ finish_fork(p)
              \/ do_exit_orphan(p) \/ do_wait(p) \/ do_wait_resume(p)
    BY <2>4, <2>5 DEF do_other, do_execve, do_fork_fail, finish_fork,
       do_exit_orphan, do_wait, do_wait_resume, Finish
  <2>6. CASE do_io_return(p)
    BY <1>0, <2>2, <2>3, <2>6 DEF do_io_return, Kt
  <2>7. CASE do_io_block(p)
    <3>1. Thread("io", p).op = "io" /\ Thread("io", p) \in runnable
      BY <2>7 DEF do_io_block, Runs, Thread
    <3> QED BY <1>0, <2>2, <2>3, <2>7, <3>1 DEF do_io_block, Kt
  <2>8. CASE do_wait_block(p)
    <3>1. Thread("wait", p).op = "wait" /\ Thread("wait", p) \in runnable
      BY <2>8 DEF do_wait_block, Runs, Thread
    <3> QED BY <1>0, <2>2, <2>3, <2>8, <3>1 DEF do_wait_block, Kt
  <2>9. CASE do_fork(p)
    <3>1. PICK c \in PCBs \ heap, i \in Chunks, n \in 0 .. MaxPid : NewChild(p, c, i, n)
      BY <2>9 DEF do_fork
    <3>2. /\ runnable' = (runnable \ {Thread("fork", p)}) \cup {Thread("finish_fork", c)}
          /\ blocked' = blocked
      BY <3>1 DEF NewChild, Finish
    <3>3. Thread("finish_fork", c).pcb = c /\ Thread("finish_fork", c).op = "finish_fork"
      BY DEF Thread
    <3> QED BY <1>0, <2>2, <2>3, <3>2, <3>3 DEF Kt
  <2>10. CASE do_exit_zombie(p)
    <3> DEFINE q == parent[p]
    <3>1. CASE waiters_sem[q] < 0
      <4>1. q \in PCBs
        BY <2>10, <3>1, ExitWakes
      <4>2. Thread("reap", q).pcb = q /\ Thread("reap", q).op = "reap"
        BY DEF Thread
      <4>3. /\ runnable' = (runnable \ {Thread("exit", p)}) \cup {Thread("reap", q)}
            /\ blocked' = blocked \ {Thread("wait", q)}
        BY <2>10, <3>1 DEF do_exit_zombie, Notified
      <4> QED BY <1>0, <2>2, <2>3, <4>1, <4>2, <4>3 DEF Kt
    <3>2. CASE ~(waiters_sem[q] < 0)
      BY <2>4, <2>10, <3>2 DEF do_exit_zombie, Notified
    <3> QED BY <3>1, <3>2
  <2> QED BY <1>4, <2>5, <2>6, <2>7, <2>8, <2>9, <2>10 DEF KernelThread
<1> QED BY <1>1, <1>2, <1>3, <1>4 DEF Next, Kernel

(* Every step keeps the facts about the boot thread.                       *)
LEMMA BootStep ==
  ASSUME IInv, [Next]_vars PROVE BootInv'
<1>1. CASE UNCHANGED vars
  BY <1>1 DEF vars, ktvars, pids, memory, family, IInv, BootInv, Booting
<1>2. CASE Boot
  BY <1>2, BootEffect DEF BootInv, Booting
<1>3. CASE Next /\ ~Boot /\ ~Stopped
  <2>1. /\ ~Booting
        /\ \A t \in Kt' : t \in Kt \/ (t.pcb \in PCBs /\ t.op # "boot")
    BY <1>3, KtStep
  <2>2. \A t \in Kt : t.op = "boot" <=> t.pcb = InitProc
    BY DEF IInv, BootInv, Kt
  <2>3. \A t \in Kt' : t.op = "boot" <=> t.pcb = InitProc
    BY <2>1, <2>2, ConstantFacts
  <2>4. ~(Booting')
    <3> DEFINE b == Thread("boot", InitProc)
    <3>1. b.op = "boot" /\ b \notin runnable
      BY <2>1 DEF Thread, Booting
    <3>2. b \notin blocked
      BY <3>1 DEF IInv, ThreadInv
    <3>3. b \notin Kt'
      BY <2>1, <3>1, <3>2 DEF Kt
    <3> QED BY <3>3 DEF Booting, Kt
  <2> QED BY <2>3, <2>4 DEF BootInv, Kt
<1> QED BY <1>1, <1>2, <1>3 DEF Stopped

(* Only do_exit ends a process, and only its caller.                       *)
LEMMA AliveStays ==
  ASSUME IInv, [Next]_vars, NEW r \in PCBs, Alive(r),
         ~(do_exit_orphan(r) \/ do_exit_zombie(r)), ~Boot
  PROVE  Alive(r)'
<1>1. CASE UNCHANGED <<heap, parent, children>>
  BY <1>1, SameAlive
<1>2. ASSUME NEW p \in PCBs, do_wait(p) \/ do_wait_resume(p) PROVE Alive(r)'
  <2>1. PICK op \in {"wait", "reap"} : Thread(op, p) \in runnable /\ Reap(p)
    BY <1>2 DEF do_wait, do_wait_resume, Runs
  <2> QED BY <2>1, ReapEffect
<1>3. ASSUME NEW p \in PCBs, do_fork(p) PROVE Alive(r)'
  <2>1. Thread("fork", p) \in runnable
    BY <1>3 DEF do_fork, Runs
  <2>2. PICK c \in PCBs \ heap, i \in Chunks, n \in 0 .. MaxPid : NewChild(p, c, i, n)
    BY <1>3 DEF do_fork
  <2> QED BY <2>1, <2>2, ForkEffect
<1>4. ASSUME NEW p \in PCBs, do_exit_orphan(p) \/ do_exit_zombie(p) PROVE Alive(r)'
  <2>1. r # p
    BY <1>4
  <2>2. /\ Thread("exit", p) \in runnable
        /\ children' = ChildrenAfterExit(p) /\ parent' = Reparent(p)
        /\ heap' = heap \/ heap' = heap \ {p}
    BY <1>4 DEF do_exit_orphan, do_exit_zombie, Runs
  <2> QED BY <2>1, <2>2, ExitEffect
<1>5. ASSUME NEW p \in PCBs, do_wait_block(p) PROVE Alive(r)'
  BY <1>1, <1>5 DEF do_wait_block
<1> QED BY <1>1, <1>2, <1>3, <1>4, <1>5, QuietSteps DEF table

(* Every step keeps the facts about blocked threads and faulted processes. *)
LEMMA ThreadStep ==
  ASSUME IInv, [Next]_vars PROVE ThreadInv'
<1>0. /\ \A t \in blocked : t.op \in {"io", "wait"}
      /\ \A p \in faulted : Alive(p)
      /\ faulted \in SUBSET PCBs
  BY DEF IInv, ThreadInv, TypeOK, SchedTypeOK
<1>1. heap' # {} => 0 \in rbtree'
  BY PidStep
<1>2. CASE UNCHANGED vars
  BY <1>0, <1>1, <1>2, SameAlive DEF vars, ktvars, family, ThreadInv
<1>3. CASE Boot
  BY <1>1, <1>3, BootEffect DEF Boot, ThreadInv
<1>4. CASE Next /\ ~Boot /\ ~Stopped
  <2>1. /\ \A t \in blocked' : t.op \in {"io", "wait"}
        /\ faulted' = faulted \/ (faulted' = faulted \cup {curr} /\ Running(curr))
    BY <1>4, KtStep
  <2>2. Running(curr) => curr \in PCBs /\ Alive(curr)
    BY DEF IInv, MachineInv, OnePlace, Running
  <2>3. \A p \in faulted' : p \in PCBs /\ Alive(p)
    BY <1>0, <2>1, <2>2
  <2>4. ASSUME NEW p \in faulted' PROVE Alive(p)'
    <3>1. CASE do_exit_orphan(p) \/ do_exit_zombie(p)
      <4>1. Thread("exit", p) \in runnable \cup blocked /\ cpu = "kernel" /\ p \in PCBs
        BY <2>3, <3>1 DEF do_exit_orphan, do_exit_zombie, Runs
      <4>2. p \notin faulted /\ ~Running(p)
        BY <4>1, ThreadAlive
      <4> QED BY <2>1, <4>2
    <3>2. CASE ~(do_exit_orphan(p) \/ do_exit_zombie(p))
      BY <1>4, <2>3, <3>2, AliveStays
    <3> QED BY <3>1, <3>2
  <2> QED BY <1>1, <2>1, <2>4 DEF ThreadInv
<1> QED BY <1>2, <1>3, <1>4 DEF Stopped

-----------------------------------------------------------------------------
(* SemInv is preserved, process by process.                                *)

SemAt(q) ==
  /\ q = InitProc \/ Alive(q) =>
       waiters_sem[q] = Len(waiters[q]) - One(Waits(q)) - One(Reaps(q))
  /\ Reaps(q) => waiters[q] # <<>>
  /\ Waits(q) => waiters[q] = <<>>

(* SemInv, one process at a time.                                          *)
LEMMA SemByProcess == SemInv <=> \A q \in Procs : SemAt(q)
BY DEF SemInv, SemAt

(* A process's semaphore fact stays when its list, semaphore and threads   *)
(* do.                                                                     *)
LEMMA SemFrame ==
  ASSUME IInv, NEW q \in Procs,
         q # InitProc => (Alive(q)' => Alive(q)),
         waiters_sem'[q] = waiters_sem[q], waiters'[q] = waiters[q],
         Waits(q)' <=> Waits(q), Reaps(q)' <=> Reaps(q)
  PROVE  SemAt(q)'
<1>1. SemAt(q)
  BY SemByProcess DEF IInv
<1>2. One(Waits(q)') = One(Waits(q)) /\ One(Reaps(q)') = One(Reaps(q))
  BY DEF One
<1> QED BY <1>1, <1>2 DEF SemAt, One

(* A process with a runnable thread of another kind neither waits nor      *)
(* reaps.                                                                  *)
LEMMA OneThread ==
  ASSUME IInv, NEW op, NEW p \in PCBs, Thread(op, p) \in runnable
  PROVE  /\ ~Waits(p)
         /\ Reaps(p) <=> op = "reap"
<1>1. Thread(op, p) \notin blocked
  BY DEF IInv, OnePlace
<1>2. \A t \in runnable \cup blocked : t.pcb = p => t = Thread(op, p)
  BY ThreadAlive
<1>3. Thread("wait", p).pcb = p /\ Thread("reap", p).pcb = p
  BY DEF Thread
<1>4. ~Waits(p)
  BY <1>1, <1>2, <1>3 DEF Waits
<1>5. Reaps(p) <=> op = "reap"
  <2>1. CASE op = "reap"
    BY <2>1 DEF Reaps
  <2>2. CASE op # "reap"
    <3>1. Thread("reap", p) # Thread(op, p)
      BY <2>2, ThreadEq
    <3> QED BY <1>2, <1>3, <2>2, <3>1 DEF Reaps
  <2> QED BY <2>1, <2>2
<1> QED BY <1>4, <1>5

(* init has no thread once it has booted, and no process waits for it.     *)
LEMMA InitNoThread ==
  ASSUME IInv PROVE ~Waits(InitProc) /\ ~Reaps(InitProc)
<1>1. \A t \in runnable \cup blocked : t.op = "boot" <=> t.pcb = InitProc
  BY DEF IInv, BootInv
<1>2. /\ Thread("wait", InitProc).op = "wait" /\ Thread("wait", InitProc).pcb = InitProc
      /\ Thread("reap", InitProc).op = "reap" /\ Thread("reap", InitProc).pcb = InitProc
  BY DEF Thread
<1> QED BY <1>1, <1>2 DEF Waits, Reaps

(* The steps that leave the process table alone neither start nor end a    *)
(* thread of do_wait.                                                      *)
LEMMA QuietWaits ==
  ASSUME IInv, [Next]_vars, UNCHANGED <<table, waiters_sem>>, ~Boot,
         \A p \in PCBs : ~do_fork(p) /\ ~do_exit_orphan(p) /\ ~do_exit_zombie(p)
                         /\ ~do_wait_block(p) /\ ~do_wait(p) /\ ~do_wait_resume(p),
         NEW q \in Procs
  PROVE  (Waits(q)' <=> Waits(q)) /\ (Reaps(q)' <=> Reaps(q))
<1> DEFINE Goal == (Waits(q)' <=> Waits(q)) /\ (Reaps(q)' <=> Reaps(q))
           w == Thread("wait", q)
           r == Thread("reap", q)
<1>0. w.op = "wait" /\ r.op = "reap"
  BY DEF Thread
<1>1. ASSUME UNCHANGED <<runnable, blocked>> PROVE Goal
  BY <1>1 DEF Waits, Reaps
<1>2. CASE UNCHANGED vars \/ Scheduler \/ Fault \/ SyscallHalt
  BY <1>1, <1>2 DEF vars, ktvars, Scheduler, scheduler_halt, scheduler_noop,
     scheduler_run, Fault, SyscallHalt
<1>3. ASSUME NEW op \in SyscallOps, Syscall(op) PROVE Goal
  <2>1. /\ runnable' = runnable \cup {Thread(op, curr)} /\ blocked' = blocked
        /\ Thread(op, curr).op # "reap"
    BY <1>3 DEF Syscall, SyscallOps, Thread
  <2> QED BY <1>0, <2>1 DEF Waits, Reaps
<1>4. ASSUME \A t \in Threads : t.op \in {"wait", "reap"} =>
               (t \in runnable' <=> t \in runnable) /\ (t \in blocked' <=> t \in blocked)
      PROVE  Goal
  BY <1>0, <1>4, OpNames, ThreadType DEF Waits, Reaps
<1>5. CASE Interrupt
  BY <1>4, <1>5 DEF Interrupt, TimerInt, ConsoleInt, ktvars
<1>6. ASSUME NEW p \in PCBs, do_io_return(p) \/ do_io_block(p) PROVE Goal
  <2>1. Thread("io", p).op = "io"
    BY DEF Thread
  <2> QED BY <1>4, <1>6, <2>1 DEF do_io_return, do_io_block
<1>7. ASSUME NEW p \in PCBs, do_other(p) \/ do_execve(p) \/ do_fork_fail(p)
                             \/ finish_fork(p)
      PROVE  Goal
  <2>1. PICK op \in {"other", "execve", "fork", "finish_fork"} :
          runnable' = runnable \ {Thread(op, p)} /\ blocked' = blocked
    BY <1>7 DEF do_other, do_execve, do_fork_fail, finish_fork, Finish
  <2>2. Thread(op, p).op \notin {"wait", "reap"}
    BY <2>1 DEF Thread
  <2> QED BY <1>4, <2>1, <2>2
<1> QED BY <1>2, <1>3, <1>5, <1>6, <1>7
        DEF Next, Kernel, KernelThread, Exception, Stopped

(* do_wait keeps the count of promised zombies.                            *)
LEMMA SemReap ==
  ASSUME IInv, NEW p \in PCBs, do_wait(p) \/ do_wait_resume(p)
  PROVE  SemInv'
<1> USE ConstantFacts
<1>0. TableTypeOK /\ SemAt(p)
  BY SemByProcess DEF IInv, TypeOK
<1>1. PICK op \in {"wait", "reap"} :
        /\ Thread(op, p) \in runnable /\ Reap(p)
        /\ runnable' = runnable \ {Thread(op, p)} /\ blocked' = blocked
        /\ op = "wait" => waiters_sem' = [waiters_sem EXCEPT ![p] = @ - 1]
        /\ op = "reap" => waiters_sem' = waiters_sem
  BY DEF do_wait, do_wait_resume, Runs, Finish
<1>2. ~Waits(p) /\ (Reaps(p) <=> op = "reap")
  BY <1>1, OneThread
<1>3. /\ Alive(p)
      /\ Len(waiters'[p]) = Len(waiters[p]) - 1
      /\ \A q \in Procs \ {p} : waiters'[q] = waiters[q]
      /\ \A r \in PCBs : Alive(r)' <=> Alive(r)
  BY <1>1, ReapEffect
<1>4. ASSUME NEW q \in Procs PROVE SemAt(q)'
  <2>1. CASE q = p
    <3>1. ~Waits(p)' /\ ~Reaps(p)'
      BY <1>1, <1>2 DEF Waits, Reaps
    <3>2. One(Waits(p)) = 0 /\ One(Waits(p)') = 0 /\ One(Reaps(p)') = 0
      BY <1>2, <3>1 DEF One
    <3>3. waiters_sem[p] = Len(waiters[p]) - One(Reaps(p))
      <4>1. waiters_sem[p] = Len(waiters[p]) - One(Waits(p)) - One(Reaps(p))
        BY <1>0, <1>3 DEF SemAt
      <4>2. Len(waiters[p]) \in Nat /\ One(Reaps(p)) \in Int
        BY <1>0 DEF TableTypeOK, One
      <4> QED BY <3>2, <4>1, <4>2
    <3>4. waiters_sem'[p] = Len(waiters'[p])
      <4>1. CASE op = "wait"
        <5>1. One(Reaps(p)) = 0
          BY <1>2, <4>1 DEF One
        <5>2. waiters_sem'[p] = waiters_sem[p] - 1
          BY <1>0, <1>1, <4>1 DEF TableTypeOK
        <5>3. Len(waiters[p]) \in Nat
          BY <1>0 DEF TableTypeOK
        <5> QED BY <1>3, <3>3, <5>1, <5>2, <5>3
      <4>2. CASE op = "reap"
        <5>1. One(Reaps(p)) = 1
          BY <1>2, <4>2 DEF One
        <5> QED BY <1>1, <1>3, <3>3, <4>2, <5>1
      <4> QED BY <1>1, <4>1, <4>2
    <3>5. Len(waiters'[p]) \in Int
      BY <1>0, <1>3 DEF TableTypeOK
    <3> QED BY <2>1, <3>1, <3>2, <3>4, <3>5 DEF SemAt
  <2>2. CASE q # p
    <3>1. waiters_sem'[q] = waiters_sem[q] /\ waiters'[q] = waiters[q]
      BY <1>0, <1>1, <1>3, <2>2 DEF TableTypeOK
    <3>2. Thread("reap", q) # Thread(op, p)
      BY <2>2, ThreadEq
    <3>3. (Waits(q)' <=> Waits(q)) /\ (Reaps(q)' <=> Reaps(q))
      BY <1>1, <3>2 DEF Waits, Reaps
    <3> QED BY <1>3, <3>1, <3>3, SemFrame
  <2> QED BY <2>1, <2>2
<1> QED BY <1>4 DEF SemInv, SemAt

(* do_wait that blocks counts one sleeper.                                 *)
LEMMA SemBlock ==
  ASSUME IInv, NEW p \in PCBs, do_wait_block(p)
  PROVE  SemInv'
<1> USE ConstantFacts
<1> DEFINE t == Thread("wait", p)
<1>0. TableTypeOK /\ SemAt(p)
  BY SemByProcess DEF IInv, TypeOK
<1>1. /\ t \in runnable /\ runnable' = runnable \ {t} /\ blocked' = blocked \cup {t}
      /\ waiters_sem[p] <= 0
      /\ waiters_sem' = [waiters_sem EXCEPT ![p] = @ - 1]
      /\ waiters' = waiters /\ UNCHANGED <<heap, parent, children>>
  BY DEF do_wait_block, Runs
<1>2. ~Waits(p) /\ ~Reaps(p) /\ Alive(p)
  BY <1>1, OneThread, ThreadAlive
<1>3. \A r \in PCBs : Alive(r)' <=> Alive(r)
  BY <1>1, SameAlive
<1>4. ASSUME NEW q \in Procs PROVE SemAt(q)'
  <2>1. CASE q = p
    <3>1. Waits(p)' /\ ~Reaps(p)'
      BY <1>1, <1>2 DEF Waits, Reaps
    <3>2. /\ One(Waits(p)) = 0 /\ One(Reaps(p)) = 0
          /\ One(Waits(p)') = 1 /\ One(Reaps(p)') = 0
      BY <1>2, <3>1 DEF One
    <3>3. Len(waiters[p]) \in Nat /\ waiters[p] \in Seq(PCBs)
      BY <1>0 DEF TableTypeOK
    <3>4. waiters_sem[p] = Len(waiters[p])
      <4>1. waiters_sem[p] = Len(waiters[p]) - One(Waits(p)) - One(Reaps(p))
        BY <1>0, <1>2 DEF SemAt
      <4> QED BY <3>2, <3>3, <4>1
    <3>5. Len(waiters[p]) = 0 /\ waiters[p] = <<>>
      BY <1>1, <3>3, <3>4
    <3>6. waiters_sem'[p] = waiters_sem[p] - 1
      BY <1>0, <1>1 DEF TableTypeOK
    <3>7. waiters_sem'[p] = Len(waiters'[p]) - 1 - 0
      BY <1>1, <3>4, <3>5, <3>6
    <3> QED BY <1>1, <2>1, <3>1, <3>2, <3>5, <3>7 DEF SemAt
  <2>2. CASE q # p
    <3>1. waiters_sem'[q] = waiters_sem[q] /\ waiters'[q] = waiters[q]
      BY <1>0, <1>1, <2>2 DEF TableTypeOK
    <3>2. Thread("reap", q) # t /\ Thread("wait", q) # t
      BY <2>2, ThreadEq
    <3>3. (Waits(q)' <=> Waits(q)) /\ (Reaps(q)' <=> Reaps(q))
      BY <1>1, <3>2 DEF Waits, Reaps
    <3> QED BY <1>3, <3>1, <3>3, SemFrame
  <2> QED BY <2>1, <2>2
<1> QED BY <1>4 DEF SemInv, SemAt

(* do_fork gives the child a fresh semaphore.                              *)
LEMMA SemFork ==
  ASSUME IInv, NEW p \in PCBs, do_fork(p)
  PROVE  SemInv'
<1> USE ConstantFacts
<1>0. TableTypeOK /\ Thread("fork", p) \in runnable
  BY DEF IInv, TypeOK, do_fork, Runs
<1>1. PICK c \in PCBs \ heap, i \in Chunks, n \in 0 .. MaxPid : NewChild(p, c, i, n)
  BY DEF do_fork
<1>2. /\ ~Alive(c) /\ waiters' = waiters /\ waiters[c] = <<>>
      /\ \A r \in PCBs : Alive(r)' <=> Alive(r) \/ r = c
  BY <1>0, <1>1, ForkEffect
<1>3. /\ runnable' = (runnable \ {Thread("fork", p)}) \cup {Thread("finish_fork", c)}
      /\ blocked' = blocked
      /\ waiters_sem' = [waiters_sem EXCEPT ![c] = 0]
  BY <1>1 DEF NewChild, Finish
<1>4. \A q \in Procs : (Waits(q)' <=> Waits(q)) /\ (Reaps(q)' <=> Reaps(q))
  <2> TAKE q \in Procs
  <2>1. /\ Thread("reap", q) # Thread("fork", p)
        /\ Thread("reap", q) # Thread("finish_fork", c)
    BY ThreadEq
  <2> QED BY <1>3, <2>1 DEF Waits, Reaps
<1>5. ~Waits(c) /\ ~Reaps(c)
  BY <1>2, ThreadAlive DEF Waits, Reaps
<1>6. ASSUME NEW q \in Procs PROVE SemAt(q)'
  <2>1. CASE q = c
    <3>1. waiters_sem'[c] = 0 /\ Len(waiters'[c]) = 0
      BY <1>0, <1>2, <1>3 DEF TableTypeOK
    <3>2. One(Waits(c)') = 0 /\ One(Reaps(c)') = 0
      BY <1>4, <1>5 DEF One
    <3> QED BY <1>2, <1>4, <1>5, <2>1, <3>1, <3>2 DEF SemAt
  <2>2. CASE q # c
    <3>1. waiters_sem'[q] = waiters_sem[q] /\ waiters'[q] = waiters[q]
      BY <1>0, <1>2, <1>3, <2>2 DEF TableTypeOK
    <3> QED BY <1>2, <1>4, <2>2, <3>1, SemFrame
  <2> QED BY <2>1, <2>2
<1> QED BY <1>6 DEF SemInv, SemAt

(* initialize_user_process starts with no zombie and no sleeper.           *)
LEMMA SemBoot ==
  ASSUME IInv, Boot
  PROVE  SemInv'
<1> USE ConstantFacts
<1>0. Booting /\ TypeOK /\ TableTypeOK /\ FamilyInv
  BY DEF Boot, Runs, Booting, IInv, TypeOK
<1>1. /\ \A q \in Procs : waiters_sem[q] = 0
      /\ waiters_sem' = waiters_sem /\ waiters' = waiters
  BY <1>0 DEF IInv, BootInv, Boot
<1>2. /\ runnable' = {} /\ blocked' = {}
      /\ \A r \in PCBs : ~Alive(r)
  BY BootEffect
<1>3. \A q \in Procs : ~Waits(q)' /\ ~Reaps(q)'
  BY <1>2 DEF Waits, Reaps
<1>4. \A q \in PCBs : waiters[q] = <<>>
  BY <1>0, <1>2, AliveFacts
<1>5. Len(waiters[InitProc]) = 0
  <2>1. waiters_sem[InitProc] = Len(waiters[InitProc]) - One(Waits(InitProc))
                                  - One(Reaps(InitProc))
    BY SemByProcess DEF IInv, SemAt
  <2>2. One(Waits(InitProc)) = 0 /\ One(Reaps(InitProc)) = 0
    BY InitNoThread DEF One
  <2>3. Len(waiters[InitProc]) \in Nat
    BY <1>0 DEF TableTypeOK
  <2> QED BY <1>1, <2>1, <2>2, <2>3
<1>6. ASSUME NEW q \in Procs PROVE SemAt(q)'
  <2>1. Len(waiters'[q]) = 0 /\ waiters_sem'[q] = 0
    <3>1. CASE q = InitProc
      BY <1>1, <1>5, <3>1
    <3>2. CASE q \in PCBs
      BY <1>1, <1>4, <3>2
    <3> QED BY <3>1, <3>2 DEF Procs
  <2>2. One(Waits(q)') = 0 /\ One(Reaps(q)') = 0
    BY <1>3 DEF One
  <2> QED BY <1>3, <2>1, <2>2 DEF SemAt
<1> QED BY <1>6 DEF SemInv, SemAt

(* do_exit: init's semaphore takes the zombies of the caller, the parent's *)
(* takes the caller itself.                                                *)
LEMMA SemExit ==
  ASSUME IInv, NEW p \in PCBs, do_exit_orphan(p) \/ do_exit_zombie(p)
  PROVE  SemInv'
<1> USE ConstantFacts
<1> DEFINE t == Thread("exit", p)
<1>0. TableTypeOK
  BY DEF IInv, TypeOK
<1>q. PICK q \in Procs : q = parent[p]
  BY <1>0 DEF TableTypeOK
<1>1. /\ t \in runnable
      /\ children' = ChildrenAfterExit(p) /\ parent' = Reparent(p)
      /\ heap' = heap \/ heap' = heap \ {p}
  BY DEF do_exit_orphan, do_exit_zombie, Runs
<1>2. /\ q \in Procs /\ q # p /\ (q = InitProc \/ Alive(q))
      /\ pid[q] = 0 <=> q = InitProc
      /\ \A r \in PCBs : Alive(r)' <=> Alive(r) /\ r # p
  BY <1>1, <1>q, ExitEffect
<1>3. /\ WaitersAfterExit(p) \in [Procs -> Seq(PCBs)]
      /\ Len(WaitersAfterExit(p)[InitProc]) = Len(waiters[InitProc]) + Len(waiters[p])
      /\ \A s \in Procs \ {p, InitProc} : WaitersAfterExit(p)[s] = waiters[s]
  BY <1>1, ExitWaiters
<1>4. /\ SemAfterExit(p) \in [Procs -> Int]
      /\ SemAfterExit(p)[InitProc] = waiters_sem[InitProc] + Len(waiters[p])
      /\ \A s \in Procs \ {InitProc} : SemAfterExit(p)[s] = waiters_sem[s]
  BY <1>0, ExitTypes DEF SemAfterExit, TableTypeOK
<1>5. \A s \in Procs : Len(waiters[s]) \in Nat
  BY <1>0 DEF TableTypeOK
<1>6. ~Waits(p) /\ ~Reaps(p) /\ Alive(p)
  BY <1>1, OneThread, ThreadAlive
<1>7. ~Waits(InitProc) /\ ~Reaps(InitProc)
  BY InitNoThread
<1>8. waiters_sem[InitProc] = Len(waiters[InitProc])
  <2>1. waiters_sem[InitProc] = Len(waiters[InitProc]) - One(Waits(InitProc))
                                  - One(Reaps(InitProc))
    BY SemByProcess DEF IInv, SemAt
  <2>2. One(Waits(InitProc)) = 0 /\ One(Reaps(InitProc)) = 0
    BY <1>7 DEF One
  <2> QED BY <1>5, <2>1, <2>2
<1>9. ASSUME NEW s \in Procs
      PROVE  Thread("reap", s) # t /\ Thread("wait", s) # t
  BY ThreadEq
(* The dead process has no thread left.                                    *)
<1>10. ASSUME ~Waits(p)', ~Reaps(p)' PROVE SemAt(p)'
  BY <1>2, <1>10 DEF SemAt
(* init's semaphore and its zombies grow by the same number.               *)
<1>11. ASSUME waiters_sem'[InitProc] = SemAfterExit(p)[InitProc],
              waiters'[InitProc] = WaitersAfterExit(p)[InitProc],
              ~Waits(InitProc)', ~Reaps(InitProc)'
       PROVE  SemAt(InitProc)'
  <2>1. One(Waits(InitProc)') = 0 /\ One(Reaps(InitProc)') = 0
    BY <1>11 DEF One
  <2>2. waiters_sem'[InitProc] = Len(waiters'[InitProc]) /\ Len(waiters'[InitProc]) \in Nat
    <3>1. Len(waiters'[InitProc]) = Len(waiters[InitProc]) + Len(waiters[p])
      BY <1>3, <1>11
    <3>2. waiters_sem'[InitProc] = waiters_sem[InitProc] + Len(waiters[p])
      BY <1>4, <1>11
    <3>3. Len(waiters[InitProc]) \in Nat /\ Len(waiters[p]) \in Nat
      BY <1>5
    <3>4. PICK a \in Nat, b \in Nat : a = Len(waiters[InitProc]) /\ b = Len(waiters[p])
      BY <3>3
    <3>5. Len(waiters'[InitProc]) = a + b /\ waiters_sem'[InitProc] = a + b
      BY <1>8, <3>1, <3>2, <3>4
    <3> QED BY <3>5
  <2> QED BY <1>11, <2>1, <2>2 DEF SemAt
<1>12. CASE do_exit_orphan(p)
  <2>1. /\ waiters' = WaitersAfterExit(p) /\ waiters_sem' = SemAfterExit(p)
        /\ runnable' = runnable \ {t} /\ blocked' = blocked
    BY <1>12 DEF do_exit_orphan, Finish
  <2>2. \A s \in Procs : (Waits(s)' <=> Waits(s)) /\ (Reaps(s)' <=> Reaps(s))
    BY <1>9, <2>1 DEF Waits, Reaps
  <2>3. ASSUME NEW s \in Procs PROVE SemAt(s)'
    <3>1. CASE s = p
      BY <1>6, <1>10, <2>2, <3>1
    <3>2. CASE s = InitProc
      BY <1>7, <1>11, <2>1, <2>2, <3>2
    <3>3. CASE s # p /\ s # InitProc
      <4>1. waiters'[s] = waiters[s] /\ waiters_sem'[s] = waiters_sem[s]
        BY <1>3, <1>4, <2>1, <3>3
      <4> QED BY <1>2, <2>2, <3>3, <4>1, SemFrame
    <3> QED BY <3>1, <3>2, <3>3
  <2> QED BY <2>3 DEF SemInv, SemAt
<1>13. CASE do_exit_zombie(p)
  <2> DEFINE wakes == waiters_sem[q] < 0
  <2>1. /\ pid[q] # 0
        /\ waiters' = [WaitersAfterExit(p) EXCEPT ![q] = Append(@, p)]
        /\ waiters_sem' = [SemAfterExit(p) EXCEPT ![q] = @ + 1]
        /\ runnable' = (runnable \ {t}) \cup (IF wakes THEN {Thread("reap", q)} ELSE {})
        /\ blocked' = IF wakes THEN blocked \ {Thread("wait", q)} ELSE blocked
    BY <1>13, <1>q DEF do_exit_zombie, Notified
  <2>2. q \in PCBs /\ q # InitProc /\ Alive(q)
    BY <1>2, <2>1
  <2>3. \A s \in Procs \ {q} : (Waits(s)' <=> Waits(s)) /\ (Reaps(s)' <=> Reaps(s))
    <3> TAKE s \in Procs \ {q}
    <3>1. /\ Thread("reap", s) # Thread("reap", q)
          /\ Thread("wait", s) # Thread("wait", q)
      BY ThreadEq
    <3> QED BY <1>9, <2>1, <3>1 DEF Waits, Reaps
  <2>4. \A s \in Procs \ {q} : /\ waiters'[s] = WaitersAfterExit(p)[s]
                               /\ waiters_sem'[s] = SemAfterExit(p)[s]
    BY <1>3, <1>4, <2>1
  <2>5. /\ waiters'[q] = Append(waiters[q], p)
        /\ waiters_sem'[q] = waiters_sem[q] + 1
    BY <1>2, <1>3, <1>4, <2>1, <2>2
  <2>6. SemAt(q)'
    <3>1. waiters[q] \in Seq(PCBs) /\ Len(waiters[q]) \in Nat
      BY <1>0, <2>2 DEF TableTypeOK
    <3>2. Len(waiters'[q]) = Len(waiters[q]) + 1 /\ waiters'[q] # <<>>
      BY <2>5, <3>1
    <3>3. SemAt(q) /\ waiters_sem[q] \in Int
      BY <1>0, <1>2, SemByProcess DEF IInv, TableTypeOK
    <3>4. waiters_sem[q] = Len(waiters[q]) - One(Waits(q)) - One(Reaps(q))
      BY <2>2, <3>3 DEF SemAt
    <3>5. CASE wakes
      <4>1. Thread("wait", q) \in blocked
        BY <1>13, <1>q, <3>5, ExitWakes
      <4>2. Thread("reap", q) \notin runnable /\ Waits(q)
        <5>1. Thread("reap", q) # Thread("wait", q) /\ Thread("reap", q).pcb = q
          BY ThreadEq DEF Thread
        <5> QED BY <2>2, <4>1, <5>1, ThreadAlive DEF Waits
      <4>3. ~Waits(q)' /\ Reaps(q)' /\ ~Reaps(q)
        BY <2>1, <3>5, <4>2 DEF Waits, Reaps
      <4>4. /\ One(Waits(q)) = 1 /\ One(Reaps(q)) = 0
            /\ One(Waits(q)') = 0 /\ One(Reaps(q)') = 1
        BY <4>2, <4>3 DEF One
      <4>5. waiters_sem'[q] = Len(waiters'[q]) - 0 - 1
        BY <2>5, <3>1, <3>2, <3>4, <4>4
      <4> QED BY <3>2, <4>3, <4>4, <4>5 DEF SemAt
    <3>6. CASE ~wakes
      <4>1. ~Waits(q)
        <5> SUFFICES ASSUME Waits(q) PROVE FALSE
          OBVIOUS
        <5>1. Len(waiters[q]) = 0
          BY <3>1, <3>3 DEF SemAt
        <5>2. One(Waits(q)) = 1 /\ One(Reaps(q)) \in 0 .. 1
          BY DEF One
        <5>3. PICK k \in 0 .. 1 : One(Reaps(q)) = k
          BY <5>2
        <5>4. waiters_sem[q] = 0 - 1 - k
          BY <3>4, <5>1, <5>2, <5>3
        <5>5. waiters_sem[q] < 0
          BY <5>4
        <5> QED BY <3>6, <5>5
      <4>2. (Waits(q)' <=> Waits(q)) /\ (Reaps(q)' <=> Reaps(q))
        BY <1>9, <2>1, <2>2, <3>6 DEF Waits, Reaps
      <4>3. /\ One(Waits(q)) = 0 /\ One(Waits(q)') = 0
            /\ One(Reaps(q)') = One(Reaps(q)) /\ One(Reaps(q)) \in 0 .. 1
        BY <4>1, <4>2 DEF One
      <4>4. waiters_sem'[q] = Len(waiters'[q]) - 0 - One(Reaps(q))
        BY <2>5, <3>1, <3>2, <3>4, <4>3
      <4> QED BY <3>2, <4>1, <4>2, <4>3, <4>4 DEF SemAt
    <3> QED BY <3>5, <3>6
  <2>7. ASSUME NEW s \in Procs PROVE SemAt(s)'
    <3>1. CASE s = p
      BY <1>2, <1>6, <1>10, <2>3, <3>1
    <3>2. CASE s = InitProc
      BY <1>7, <1>11, <2>2, <2>3, <2>4, <3>2
    <3>3. CASE s = q
      BY <2>6, <3>3
    <3>4. CASE s # p /\ s # InitProc /\ s # q
      <4>1. waiters'[s] = waiters[s] /\ waiters_sem'[s] = waiters_sem[s]
        BY <1>3, <1>4, <2>4, <3>4
      <4> QED BY <1>2, <2>3, <3>4, <4>1, SemFrame
    <3> QED BY <3>1, <3>2, <3>3, <3>4
  <2> QED BY <2>7 DEF SemInv, SemAt
<1> QED BY <1>12, <1>13

(* Every step keeps waiters_sem exact.                                     *)
LEMMA SemStep ==
  ASSUME IInv, [Next]_vars PROVE SemInv'
<1>1. CASE Boot
  BY <1>1, SemBoot
<1>2. ASSUME NEW p \in PCBs,
             do_fork(p) \/ do_exit_orphan(p) \/ do_exit_zombie(p)
               \/ do_wait_block(p) \/ do_wait(p) \/ do_wait_resume(p)
      PROVE  SemInv'
  BY <1>2, SemFork, SemExit, SemBlock, SemReap
<1>3. CASE /\ UNCHANGED <<table, waiters_sem>> /\ ~Boot
           /\ \A p \in PCBs :
                ~do_fork(p) /\ ~do_exit_orphan(p) /\ ~do_exit_zombie(p)
                /\ ~do_wait_block(p) /\ ~do_wait(p) /\ ~do_wait_resume(p)
  <2>1. ASSUME NEW q \in Procs PROVE SemAt(q)'
    <3>1. (Waits(q)' <=> Waits(q)) /\ (Reaps(q)' <=> Reaps(q))
      BY <1>3, QuietWaits
    <3>2. UNCHANGED <<heap, parent, children, waiters, waiters_sem>>
      BY <1>3 DEF table
    <3>3. q # InitProc => (Alive(q)' <=> Alive(q))
      BY <3>2, ConstantFacts, SameAlive
    <3> QED BY <3>1, <3>2, <3>3, SemFrame
  <2> QED BY <2>1 DEF SemInv, SemAt
<1> QED BY <1>1, <1>2, <1>3, QuietSteps

-----------------------------------------------------------------------------
(* HaltSafe: with no living child of init nobody is alive.                 *)

(* When init has no child nobody is alive, for the tree is rooted.         *)
LEMMA NobodyLeft ==
  ASSUME IInv, children[InitProc] = {}
  PROVE  /\ \A p \in PCBs : ~Alive(p)
         /\ heap = ToSet(waiters[InitProc])
<1> USE ConstantFacts
<1>0. TypeOK /\ FamilyInv /\ TableTypeOK
  BY DEF IInv, TypeOK
<1>1. \A p \in PCBs : ~Alive(p)
  <2> DEFINE S == {p \in PCBs : Alive(p)}
  <2> SUFFICES ASSUME S # {} PROVE FALSE
    OBVIOUS
  <2>1. PICK p \in S : parent[p] \notin S
    BY DEF IInv, AncestryInv
  <2>2. parent[p] = InitProc /\ p \in children[parent[p]]
    BY <1>0, <2>1, AliveFacts DEF Procs
  <2> QED BY <2>2
<1>2. ASSUME NEW p \in heap PROVE p \in ToSet(waiters[InitProc])
  <2>1. p \in PCBs /\ p \in ToSet(waiters[parent[p]]) /\ parent[p] \in Procs
    BY <1>0, <1>1, AliveFacts DEF TableTypeOK
  <2>2. parent[p] \notin PCBs
    BY <1>0, <1>1, <2>1, AliveFacts
  <2> QED BY <2>1, <2>2 DEF Procs
<1>3. ToSet(waiters[InitProc]) \subseteq heap
  BY <1>0, AliveFacts
<1> QED BY <1>1, <1>2, <1>3

(* Every step keeps a halted machine without live processes.               *)
LEMMA HaltStep ==
  ASSUME IInv, [Next]_vars PROVE HaltSafe'
<1>1. CASE UNCHANGED vars
  BY <1>1, SameAlive DEF vars, machine, family, IInv, HaltSafe
<1>2. CASE scheduler_halt
  <2>1. children[InitProc] = {} /\ UNCHANGED <<heap, parent, children, waiters>>
    BY <1>2 DEF scheduler_halt, MayHalt, family
  <2> QED BY <2>1, NobodyLeft, SameAlive DEF HaltSafe
<1>3. CASE cpu' # "halt"
  BY <1>3 DEF HaltSafe
<1>4. UNCHANGED vars \/ scheduler_halt \/ cpu' # "halt"
  <2>1. Boot => cpu' # "halt"
    BY DEF Boot, Runs
  <2>2. Scheduler => scheduler_halt \/ cpu' # "halt"
    BY DEF Scheduler, scheduler_noop, scheduler_run
  <2>3. Exception \/ Interrupt => cpu' # "halt"
    BY DEF Exception, Fault, SyscallHalt, Syscall, Interrupt, TimerInt, ConsoleInt
  <2>4. ASSUME NEW p \in PCBs, KernelThread(p) PROVE cpu' # "halt"
    BY <2>4 DEF KernelThread, do_other, do_execve, do_io_return, do_io_block,
       do_fork, do_fork_fail, finish_fork, do_exit_orphan, do_exit_zombie,
       do_wait_block, do_wait, do_wait_resume, Reap, Runs, machine
  <2> QED BY <2>1, <2>2, <2>3, <2>4 DEF Next, Kernel, Stopped
<1> QED BY <1>1, <1>2, <1>3, <1>4

-----------------------------------------------------------------------------
(* The initial state.                                                      *)

(* The inductive invariant holds in the state KOS() builds.                *)
LEMMA InitInv == Init => IInv
<1> SUFFICES ASSUME Init PROVE IInv
  OBVIOUS
<1> USE ConstantFacts
<1> DEFINE b == Thread("boot", InitProc)
<1>1. TypeOK /\ MachineInv
  BY InitType
<1>2. /\ cpu = "kernel" /\ readyq = <<>> /\ runnable = {b} /\ blocked = {}
      /\ heap = {} /\ rbtree = {} /\ faulted = {}
      /\ \A q \in Procs : children[q] = {} /\ waiters[q] = <<>>
                          /\ waiters_sem[q] = 0 /\ pid[q] = 0
      /\ \A i \in Chunks : memory_chunk[i] = 0
  BY DEF Init
<1>3. b.op = "boot" /\ b.pcb = InitProc
  BY DEF Thread
<1>4. \A p \in PCBs : ~Alive(p) /\ ~Running(p) /\ ~Queued(p) /\ ~InKernel(p)
  BY <1>2, <1>3 DEF Alive, Running, Queued, InKernel, ToSet
<1>5. \A q \in Procs : ~Waits(q) /\ ~Reaps(q)
  BY <1>2, ThreadEq DEF Waits, Reaps
<1>6. BootInv /\ ThreadInv
  BY <1>2, <1>3 DEF BootInv, ThreadInv
<1>7. OnePlace
  BY <1>2, <1>4 DEF OnePlace, IsInjective
<1>8. FamilyInv
  <2>1. ToSet(<<>>) = {} /\ IsInjective(<<>>)
    BY DEF ToSet, IsInjective
  <2> QED BY <1>2, <2>1 DEF FamilyInv
<1>9. AncestryInv
  BY <1>4 DEF AncestryInv
<1>10. SemInv
  <2>1. ASSUME NEW q \in Procs PROVE SemAt(q)
    <3>1. One(Waits(q)) = 0 /\ One(Reaps(q)) = 0 /\ Len(waiters[q]) = 0
      BY <1>2, <1>5 DEF One
    <3> QED BY <1>2, <1>5, <3>1 DEF SemAt
  <2> QED BY <2>1, SemByProcess
<1>11. ChunkInv
  BY <1>2, <1>4 DEF ChunkInv
<1>12. PidInv /\ HaltSafe
  BY <1>2 DEF PidInv, HaltSafe
<1> QED BY <1>1, <1>6, <1>7, <1>8, <1>9, <1>10, <1>11, <1>12 DEF IInv

-----------------------------------------------------------------------------
(* The invariant is inductive: every reachable state satisfies it.         *)

(* Every step preserves the inductive invariant.                           *)
LEMMA Inductive == IInv /\ [Next]_vars => IInv'
<1> SUFFICES ASSUME IInv, [Next]_vars PROVE IInv'
  OBVIOUS
<1>1. TypeOK /\ MachineInv
  BY DEF IInv
<1>2. TypeOK' /\ MachineInv'
  BY <1>1, SchedTypeStep, TableTypeStep DEF TypeOK
<1> QED BY <1>2, BootStep, ThreadStep, PlacesStep, FamilyStep, AncestryStep,
           SemStep, ChunkStep, PidStep, HaltStep DEF IInv

(* The inductive invariant holds in every state the kernel reaches.        *)
THEOREM Invariance == Spec => []IInv
BY InitInv, Inductive, PTL DEF Spec

(* A live process is always in exactly one of: the CPU, readyq, a kernel   *)
(* thread; a zombie or a freed PCB in none (exception.c, scheduler.c).     *)
THEOREM OnePlaceHolds == Spec => []OnePlace
<1>1. IInv => OnePlace
  BY DEF IInv
<1> QED BY <1>1, Invariance, PTL

(* parent, children and waiters stay inverse to each other through fork,   *)
(* exit and wait (syscall.c).                                              *)
THEOREM FamilyHolds == Spec => []FamilyInv
<1>1. IInv => FamilyInv
  BY DEF IInv
<1> QED BY <1>1, Invariance, PTL

(* do_wait's semaphore agrees with the zombies and the sleepers, so the    *)
(* first zombie that do_wait takes exists, and nobody sleeps beside one.   *)
THEOREM SemHolds == Spec => []SemInv
<1>1. IInv => SemInv
  BY DEF IInv
<1> QED BY <1>1, Invariance, PTL

(* No two live processes share a memory chunk, and none leaks.             *)
THEOREM ChunkHolds == Spec => []ChunkInv
<1>1. IInv => ChunkInv
  BY DEF IInv
<1> QED BY <1>1, Invariance, PTL

(* pids of allocated PCBs are distinct and rbtree holds exactly these.     *)
THEOREM PidHolds == Spec => []PidInv
<1>1. IInv => PidInv
  BY DEF IInv
<1> QED BY <1>1, Invariance, PTL

(* The scheduler's SYSHalt happens only when no process is alive.          *)
THEOREM HaltHolds == Spec => []HaltSafe
<1>1. IInv => HaltSafe
  BY DEF IInv
<1> QED BY <1>1, Invariance, PTL

-----------------------------------------------------------------------------
(* What fork, exit, wait and the scheduler's halt do to the process table  *)
(* is what the abstract tree of processes allows, for every pool of PCBs.  *)
halted == cpu = "halt"
lifeVars == <<Life, Kin, halted>>

(* Life and Kin, one process at a time.                                    *)
LEMMA LifeAt ==
  /\ Life \in [PCBs -> {"absent", "live", "zombie"}]
  /\ \A p \in PCBs : /\ Life[p] = "live" <=> Alive(p)
                     /\ Life[p] = "absent" <=> p \notin heap
                     /\ Life[p] = "zombie" <=> p \in heap /\ ~Alive(p)
                     /\ Kin[p] = IF p \in heap THEN parent[p] ELSE InitProc
BY DEF Life, Kin, Alive

(* A step that keeps who is allocated, who lives and who is whose parent   *)
(* is not seen from outside.                                               *)
LEMMA SameLife ==
  ASSUME \A p \in PCBs : Alive(p)' <=> Alive(p),
         heap' = heap, parent' = parent, halted' = halted
  PROVE  lifeVars' = lifeVars
<1>1. Life' = Life
  BY DEF Life, Alive
<1>2. Kin' = Kin
  BY DEF Kin
<1> QED BY <1>1, <1>2 DEF lifeVars

(* initialize_user_process makes the root's first child.                   *)
LEMMA LifeBoot ==
  ASSUME IInv, Boot PROVE PL!Next
<1>1. PICK p \in PCBs : /\ heap = {} /\ heap' = {p} /\ parent'[p] = InitProc
                        /\ \A r \in PCBs : ~Alive(r) /\ (Alive(r)' <=> r = p)
  BY BootEffect
<1>2. ~halted /\ ~(halted')
  BY DEF Boot, Runs, halted
<1>3. \A r \in PCBs : Life[r] = "absent"
  BY <1>1, LifeAt
<1>4. Life' = [Life EXCEPT ![p] = "live"]
  BY <1>1 DEF Life, Alive
<1>5. Kin' = Kin
  BY <1>1 DEF Kin
<1>6. PL!Boot(p)
  BY <1>2, <1>3, <1>4, <1>5 DEF PL!Boot, halted
<1> QED BY <1>6 DEF PL!Next

(* do_fork adds a live child to a live parent.                             *)
LEMMA LifeFork ==
  ASSUME IInv, NEW p \in PCBs, do_fork(p) PROVE PL!Next
<1>1. PICK c \in PCBs \ heap, i \in Chunks, n \in 0 .. MaxPid : NewChild(p, c, i, n)
  BY DEF do_fork
<1>2. /\ Alive(p) /\ ~Alive(c) /\ heap' = heap \cup {c}
      /\ \A r \in PCBs : parent'[r] = IF r = c THEN p ELSE parent[r]
      /\ \A r \in PCBs : Alive(r)' <=> Alive(r) \/ r = c
  BY <1>1, ForkEffect DEF do_fork, Runs, NewChild
<1>3. halted' = halted
  BY DEF do_fork, machine, halted
<1>4. Life[p] = "live" /\ Life[c] = "absent"
  BY <1>2, LifeAt
<1>5. Life' = [Life EXCEPT ![c] = "live"]
  BY <1>2 DEF Life, Alive
<1>6. Kin' = [Kin EXCEPT ![c] = p]
  BY <1>2 DEF Kin
<1>7. PL!Fork(p, c)
  BY <1>3, <1>4, <1>5, <1>6 DEF PL!Fork, halted
<1> QED BY <1>7 DEF PL!Next

(* do_exit frees a child of init, leaves any other process a zombie, and   *)
(* gives the family of the dead to init.                                   *)
LEMMA LifeExit ==
  ASSUME IInv, NEW p \in PCBs, do_exit_orphan(p) \/ do_exit_zombie(p) PROVE PL!Next
<1>0. FamilyInv /\ TableTypeOK
  BY DEF IInv, TypeOK
<1>1. /\ Alive(p) /\ p \in heap /\ parent[p] # p
      /\ p \notin children[p] /\ p \notin ToSet(waiters[p])
      /\ pid[parent[p]] = 0 <=> parent[p] = InitProc
      /\ \A r \in PCBs : parent'[r] = IF r \in children[p] \cup ToSet(waiters[p])
                                        THEN InitProc ELSE parent[r]
      /\ \A r \in PCBs : Alive(r)' <=> Alive(r) /\ r # p
  BY ExitEffect DEF do_exit_orphan, do_exit_zombie, Runs
<1>2. heap' = IF parent[p] = InitProc THEN heap \ {p} ELSE heap
  BY <1>1 DEF do_exit_orphan, do_exit_zombie
<1>3. halted' = halted
  BY DEF do_exit_orphan, do_exit_zombie, machine, halted
<1>4. \A r \in heap : r \in children[p] \cup ToSet(waiters[p]) <=> parent[r] = p
  <2>1. p \in Procs
    BY ConstantFacts
  <2> QED BY <1>0, <2>1 DEF FamilyInv
<1>5. \A r \in PCBs : Kin'[r] = IF Kin[r] = p THEN InitProc ELSE Kin[r]
  BY <1>1, <1>2, <1>4, ConstantFacts DEF Kin
<1>6. Kin' = PL!Orphaned(p)
  BY <1>5 DEF Kin, PL!Orphaned
<1>7. Life' = [Life EXCEPT ![p] = IF parent[p] = InitProc THEN "absent" ELSE "zombie"]
  BY <1>1, <1>2 DEF Life, Alive
<1>8. Life[p] = "live" /\ Kin[p] = parent[p]
  BY <1>1, LifeAt
<1>9. PL!Exit(p)
  BY <1>3, <1>6, <1>7, <1>8 DEF PL!Exit, halted
<1> QED BY <1>9 DEF PL!Next

(* do_wait takes a zombie of its live caller away.                         *)
LEMMA LifeReap ==
  ASSUME IInv, NEW p \in PCBs, do_wait(p) \/ do_wait_resume(p) PROVE PL!Next
<1>1. PICK op \in {"wait", "reap"} : Thread(op, p) \in runnable /\ Reap(p)
  BY DEF do_wait, do_wait_resume, Runs
<1> DEFINE z == Head(waiters[p])
<1>2. /\ Alive(p) /\ z \in heap /\ ~Alive(z) /\ parent[z] = p /\ z # p
      /\ heap' = heap \ {z} /\ \A r \in PCBs : Alive(r)' <=> Alive(r)
  BY <1>1, ReapEffect
<1>3. parent' = parent /\ halted' = halted
  BY <1>1 DEF Reap, machine, halted
<1> HIDE DEF z
<1>4. z \in PCBs
  BY <1>2 DEF IInv, TypeOK, TableTypeOK
<1>5. Life[z] = "zombie" /\ Kin[z] = p /\ Life[p] = "live" /\ p # InitProc
  BY <1>2, <1>4, LifeAt, ConstantFacts
<1>6. Life' = [Life EXCEPT ![z] = "absent"]
  BY <1>2 DEF Life, Alive
<1>7. Kin' = [Kin EXCEPT ![z] = InitProc]
  BY <1>2, <1>3 DEF Kin
<1>8. PL!Reap(z)
  BY <1>3, <1>5, <1>6, <1>7 DEF PL!Reap, halted
<1> QED BY <1>4, <1>8 DEF PL!Next

(* SYSHalt comes when no process is alive.                                 *)
LEMMA LifeHalt ==
  ASSUME IInv, scheduler_halt PROVE PL!Next
<1>1. \A p \in PCBs : ~Alive(p)
  BY NobodyLeft DEF scheduler_halt, MayHalt
<1>2. ~halted /\ halted' /\ UNCHANGED <<heap, parent, children>>
  BY DEF scheduler_halt, Idle, halted, family
<1>3. Life' = Life /\ Kin' = Kin
  BY <1>2 DEF Life, Kin
<1>4. \A p \in PCBs : Life[p] # "live"
  BY <1>1, LifeAt
<1>5. PL!Halt
  BY <1>2, <1>3, <1>4 DEF PL!Halt, halted
<1> QED BY <1>5 DEF PL!Next

(* Every step is one of the process tree's or is not seen from outside.    *)
LEMMA LifeStep ==
  ASSUME IInv, [Next]_vars PROVE PL!Next \/ lifeVars' = lifeVars
<1>1. ASSUME UNCHANGED <<heap, parent, children>>, halted' = halted
      PROVE  lifeVars' = lifeVars
  BY <1>1, SameAlive, SameLife
<1>2. CASE UNCHANGED vars
  BY <1>1, <1>2 DEF vars, family, machine, halted
<1>3. CASE scheduler_noop \/ scheduler_run
  BY <1>1, <1>3 DEF scheduler_noop, scheduler_run, Idle, family, halted
<1>4. CASE Exception \/ Interrupt
  BY <1>1, <1>4 DEF Exception, Fault, SyscallHalt, Syscall, Interrupt, TimerInt, ConsoleInt,
                    family, halted
<1>5. ASSUME NEW p \in PCBs,
             \/ do_other(p) \/ do_execve(p) \/ do_io_return(p) \/ do_io_block(p)
             \/ do_fork_fail(p) \/ finish_fork(p) \/ do_wait_block(p)
      PROVE  lifeVars' = lifeVars
  BY <1>1, <1>5 DEF do_other, do_execve, do_io_return, do_io_block, do_fork_fail,
                    finish_fork, do_wait_block, family, machine, Runs, halted
<1> QED BY <1>2, <1>3, <1>4, <1>5, LifeBoot, LifeFork, LifeExit, LifeReap, LifeHalt
        DEF Next, Kernel, Scheduler, KernelThread, Stopped

(* Before boot every process is absent.                                    *)
LEMMA LifeInit == Init => PL!Init
<1> SUFFICES ASSUME Init PROVE PL!Init
  OBVIOUS
<1>1. heap = {} /\ cpu = "kernel"
  BY DEF Init
<1> QED BY <1>1 DEF PL!Init, Life, Kin

(* fork, exit, wait and the scheduler's halt implement the process tree:   *)
(* nobody is reaped twice or by a stranger, the family of the dead goes to *)
(* the root, and the machine halts when nobody lives.                      *)
THEOREM TreeIsImplemented == Spec => ImplementsProcLife
<1>1. Init => PL!Init
  BY LifeInit
<1>2. IInv /\ [Next]_vars => [PL!Next]_(PL!lifeVars)
  <2>1. PL!lifeVars = lifeVars
    BY DEF PL!lifeVars, lifeVars, halted
  <2> QED BY <2>1, LifeStep DEF PL!lifeVars, lifeVars, halted
<1> QED BY <1>1, <1>2, Invariance, PTL DEF Spec, ImplementsProcLife, PL!Spec
=============================================================================
