------------------------ MODULE KosConsoleStream_proofs ------------------------
(***************************************************************************)
(* What the console's ring holds, for any size, any number of readers and  *)
(* any text without the byte 0xFF, which do_read takes for the end of the  *)
(* input; and from it, that calls of read implement ByteStream.            *)
(*                                                                         *)
(* Once the text has been read, a reader passes the end-of-file slot       *)
(* without moving head, so that more slots from head on may hold the end   *)
(* of file than the semaphores count: Window(f) says there are f.          *)
(***************************************************************************)
EXTENDS KosConsoleIn_proofs

PlainText == \A i \in DOMAIN Text : Text[i] # EOF

(* The bytes handed out, and whether there are more to come.               *)
Taken == Len(given)
MoreText == Taken < Len(Text)

(* typed stops counting after the end of the text.                         *)
Capped(n) == IF n > Len(Text) THEN Len(Text) + 1 ELSE n

(* The i-th slot from h on.                                                *)
Pos(h, i) == (h + i) % Size

Window(f) ==
  /\ Taken <= Len(Text)
  /\ UnreadSlots <= f /\ f <= Size
  /\ MoreText => f = UnreadSlots
  /\ f < Size \/ MoreText => tail = Pos(head, f)
  /\ \A i \in 0 .. (f - 1) : buff[Pos(head, i)] = Input(Taken + 1 + i)
  /\ typed = Capped(Taken + f + One(device # NoChar))
  /\ device # NoChar => device = Input(Taken + f + 1)

RingShape == \E f \in Nat : Window(f)

-----------------------------------------------------------------------------
(* Positions of the ring.                                                  *)
LEMMA Remainder ==
  ASSUME NEW n \in 0 .. (2 * Size - 1)
  PROVE  n % Size = (IF n < Size THEN n ELSE n - Size) /\ n % Size \in 0 .. (Size - 1)
<1>1. CASE n < Size
  BY <1>1, KosConsoleInAssumption
<1>2. CASE ~(n < Size)
  <2>1. n \in Size .. (2 * Size - 1)
    BY <1>2, KosConsoleInAssumption
  <2> QED BY <1>2, <2>1, KosConsoleInAssumption
<1> QED BY <1>1, <1>2

LEMMA Wrapped ==
  \A h, i :
    h \in 0 .. (Size - 1) /\ i \in 0 .. Size =>
      /\ Pos(h, i) = IF h + i < Size THEN h + i ELSE h + i - Size
      /\ Pos(h, i) \in 0 .. (Size - 1)
<1> SUFFICES ASSUME NEW h \in 0 .. (Size - 1), NEW i \in 0 .. Size
    PROVE  /\ Pos(h, i) = IF h + i < Size THEN h + i ELSE h + i - Size
           /\ Pos(h, i) \in 0 .. (Size - 1)
  OBVIOUS
<1>1. PICK n : n = h + i
  OBVIOUS
<1>2. n \in 0 .. (2 * Size - 1)
  BY <1>1, KosConsoleInAssumption
<1>3. n % Size = (IF n < Size THEN n ELSE n - Size) /\ n % Size \in 0 .. (Size - 1)
  BY <1>2, Remainder
<1>4. Pos(h, i) = (IF n < Size THEN n ELSE n - Size) /\ Pos(h, i) \in 0 .. (Size - 1)
  <2>1. Pos(h, i) = n % Size
    BY <1>1, Zenon DEF Pos
  <2> QED BY <1>3, <2>1, Zenon
<1> QED BY <1>1, <1>2, <1>4, KosConsoleInAssumption

(* The numbers the lemmas below reckon with.                               *)
LEMMA Numbers ==
  ASSUME InInv
  PROVE  /\ Size \in Nat \ {0} /\ Len(Text) \in Nat /\ Taken \in Nat
         /\ UnreadSlots \in Nat /\ typed \in Nat
         /\ head \in 0 .. (Size - 1) /\ tail \in 0 .. (Size - 1)
<1>1. \A S : \A s \in Seq(S) : Len(s) \in Nat
  OBVIOUS
<1>2. Len(Text) \in Nat /\ Taken \in Nat
  BY <1>1, Names, KosConsoleInAssumption DEF Types, Taken
<1>3. kt.val["nelem"] \in Int /\ (Asleep("nelem") = {} => kt.val["nelem"] >= 0)
  BY Names DEF InInv, Slots
<1>4. UnreadSlots \in Nat
  BY <1>3 DEF UnreadSlots, One
<1> QED BY <1>2, <1>4, Names, KosConsoleInAssumption DEF Types

(* Steps that leave ring, device and bytes alone keep the window.          *)
LEMMA WindowFrame ==
  ASSUME RingShape, UnreadSlots' = UnreadSlots,
         UNCHANGED <<device, typed, buff, head, tail, given>>
  PROVE  RingShape'
BY DEF RingShape, Window, Taken, MoreText, One

(* The slot at tail is the one after the window; if the window is the      *)
(* whole ring, then the text is at its end and the slot holds end of file. *)
LEMMA MoveKeepsRing ==
  ASSUME InInv, RingShape, move
  PROVE  RingShape'
<1>0. /\ Size \in Nat \ {0} /\ Len(Text) \in Nat /\ Taken \in Nat
      /\ UnreadSlots \in Nat /\ typed \in Nat
      /\ head \in 0 .. (Size - 1) /\ tail \in 0 .. (Size - 1)
  BY Numbers
<1>1. PICK f \in Nat : Window(f)
  BY DEF RingShape
<1>2. /\ device # NoChar /\ device' = NoChar /\ buff' = [buff EXCEPT ![tail] = device]
      /\ tail' = Pos(tail, 1) /\ UNCHANGED <<typed, head, given>>
  <2>1. Handling
    BY Names DEF move, At, Handling, InInv, Places, C
  <2> QED BY <2>1 DEF move, NextTail, Pos, call, InInv, Interrupts
<1>3. UnreadSlots' = UnreadSlots + 1 /\ UnreadSlots \in 0 .. (Size - 1)
  BY MoveStep
<1>4. /\ Taken' = Taken /\ (MoreText' <=> MoreText)
      /\ One(device # NoChar) = 1 /\ One(device # NoChar)' = 0
  BY <1>2 DEF Taken, MoreText, One
<1>5. \A p \in 0 .. (Size - 1) : buff'[p] = IF p = tail THEN device ELSE buff[p]
  BY <1>2, Names DEF Types
<1>6. CASE f < Size
  <2>1. tail = Pos(head, f) /\ f + 1 \in Nat
    BY <1>1, <1>6 DEF Window
  <2>2. tail' = Pos(head, f + 1)
    <3>1. tail = IF head + f < Size THEN head + f ELSE head + f - Size
      BY <1>6, <2>1, <1>0, Wrapped
    <3>2. Pos(tail, 1) = IF tail + 1 < Size THEN tail + 1 ELSE tail + 1 - Size
      BY <1>0, Wrapped
    <3>3. Pos(head, f + 1)
            = IF head + f + 1 < Size THEN head + f + 1 ELSE head + f + 1 - Size
      BY <1>6, <1>0, Wrapped
    <3> QED BY <1>2, <1>6, <3>1, <3>2, <3>3, <1>0
  <2>3. \A i \in 0 .. f : buff'[Pos(head, i)] = Input(Taken + 1 + i)
    <3> TAKE i \in 0 .. f
    <3>1. Pos(head, i) = (IF head + i < Size THEN head + i ELSE head + i - Size)
          /\ Pos(head, i) \in 0 .. (Size - 1)
      BY <1>6, <1>0, Wrapped
    <3>2. tail = IF head + f < Size THEN head + f ELSE head + f - Size
      BY <1>6, <2>1, <1>0, Wrapped
    <3>3. CASE i = f
      BY <1>1, <1>2, <1>5, <2>1, <3>1, <3>3, <1>0 DEF Window
    <3>4. CASE i # f
      <4>1. Pos(head, i) # tail /\ i \in 0 .. (f - 1)
        BY <1>6, <3>1, <3>2, <3>4, <1>0
      <4> QED BY <1>1, <1>5, <3>1, <4>1 DEF Window
    <3> QED BY <3>3, <3>4
  <2>4. typed' = Capped(Taken' + (f + 1) + One(device # NoChar)')
    BY <1>1, <1>2, <1>4, <1>0 DEF Window
  <2>5. Taken' <= Len(Text) /\ UnreadSlots' <= f + 1 /\ f + 1 <= Size
        /\ (MoreText' => f + 1 = UnreadSlots') /\ (f + 1) - 1 = f
    BY <1>0, <1>1, <1>3, <1>4, <1>6 DEF Window
  <2>6. Window(f + 1)'
    BY <1>2, <1>4, <2>2, <2>3, <2>4, <2>5 DEF Window
  <2> QED BY <2>1, <2>6 DEF RingShape
<1>7. CASE ~(f < Size)
  <2>1. f = Size /\ Taken = Len(Text) /\ ~MoreText
    BY <1>1, <1>3, <1>7, <1>0 DEF Window, MoreText
  <2>2. \A i \in 0 .. f : Input(Taken + 1 + i) = EOF
    BY <2>1, <1>0 DEF Input
  <2>3. device = EOF
    <3>1. f \in 0 .. f /\ Taken + 1 + f = Taken + f + 1
      BY <1>0
    <3> QED BY <1>1, <1>2, <2>2, <3>1 DEF Window
  <2>4. \A i \in 0 .. (f - 1) : buff'[Pos(head, i)] = Input(Taken + 1 + i)
    <3> TAKE i \in 0 .. (f - 1)
    <3>1. Pos(head, i) \in 0 .. (Size - 1)
      BY <2>1, <1>0, Wrapped
    <3> QED BY <1>1, <1>5, <2>1, <2>2, <2>3, <3>1, <1>0 DEF Window
  <2>5. typed' = Capped(Taken' + f + One(device # NoChar)')
    BY <1>1, <1>2, <1>4, <2>1, <1>0 DEF Window, Capped
  <2>6. Window(f)'
    BY <1>1, <1>2, <1>3, <1>4, <2>1, <2>4, <2>5, <1>0 DEF Window
  <2> QED BY <2>6 DEF RingShape
<1> QED BY <1>6, <1>7

(* The device produces the byte after the window.                          *)
LEMMA InterruptKeepsRing ==
  ASSUME InInv, RingShape, ConsoleReadInt
  PROVE  RingShape'
<1>0. /\ Size \in Nat \ {0} /\ Len(Text) \in Nat /\ Taken \in Nat
      /\ UnreadSlots \in Nat /\ typed \in Nat
      /\ head \in 0 .. (Size - 1) /\ tail \in 0 .. (Size - 1)
  BY Numbers
<1>1. PICK f \in Nat : Window(f)
  BY DEF RingShape
<1>2. /\ device = NoChar /\ device' = Input(typed + 1)
      /\ typed' = (IF typed > Len(Text) THEN typed ELSE typed + 1)
      /\ UNCHANGED <<buff, head, tail, given>> /\ UnreadSlots' = UnreadSlots
  BY InterruptStep DEF ConsoleReadInt, ring, call
<1>3. device' # NoChar
  <2>1. typed + 1 \in Nat \ {0}
    BY <1>0
  <2>2. device' \in EOF .. 127
    BY <1>2, <2>1, InputByte
  <2> QED BY <2>2 DEF NoChar, EOF
<1>4. /\ Taken' = Taken /\ (MoreText' <=> MoreText)
      /\ One(device # NoChar) = 0 /\ One(device # NoChar)' = 1
  BY <1>2, <1>3 DEF Taken, MoreText, One
<1>5. typed = Capped(Taken + f)
  BY <1>1, <1>4, <1>0 DEF Window
<1>6. device' = Input(Taken' + f + 1)
  BY <1>2, <1>4, <1>5, <1>0 DEF Capped, Input
<1>7. typed' = Capped(Taken' + f + One(device # NoChar)')
  BY <1>2, <1>4, <1>5, <1>0 DEF Capped
<1>8. Window(f)'
  BY <1>1, <1>2, <1>4, <1>6, <1>7, <1>0 DEF Window
<1> QED BY <1>8 DEF RingShape

(* A byte that is not end of file is the next of the text.                 *)
LEMMA HeadByte ==
  ASSUME InInv, RingShape, UnreadSlots \in 1 .. Size
  PROVE  /\ buff[head] = Input(Taken + 1)
         /\ buff[head] # EOF => MoreText
         /\ PlainText /\ buff[head] = EOF => Taken = Len(Text)
<1>0. /\ Size \in Nat \ {0} /\ Len(Text) \in Nat /\ Taken \in Nat
      /\ UnreadSlots \in Nat /\ typed \in Nat
      /\ head \in 0 .. (Size - 1) /\ tail \in 0 .. (Size - 1)
  BY Numbers
<1>1. PICK f \in Nat : Window(f)
  BY DEF RingShape
<1>2. buff[head] = Input(Taken + 1)
  <2>1. Pos(head, 0) = head /\ 0 \in 0 .. (f - 1) /\ Taken + 1 + 0 = Taken + 1
    BY <1>1, <1>0, Wrapped DEF Window
  <2> QED BY <1>1, <2>1, <1>0 DEF Window
<1>3. Taken <= Len(Text)
  BY <1>1 DEF Window
<1>4. buff[head] # EOF => MoreText
  BY <1>2, <1>0 DEF Input, MoreText
<1>5. PlainText /\ buff[head] = EOF => Taken = Len(Text)
  <2>1. Taken + 1 <= Len(Text) => Taken + 1 \in DOMAIN Text
    BY <1>0, KosConsoleInAssumption
  <2> QED BY <1>2, <1>3, <2>1, <1>0 DEF Input, PlainText
<1> QED BY <1>2, <1>4, <1>5

(* It leaves the window on one side.                                       *)
LEMMA ByteKeepsRing ==
  ASSUME InInv, RingShape, NEW r \in Readers, read_byte(r)
  PROVE  RingShape'
<1>0. /\ Size \in Nat \ {0} /\ Len(Text) \in Nat /\ Taken \in Nat
      /\ UnreadSlots \in Nat /\ typed \in Nat
      /\ head \in 0 .. (Size - 1) /\ tail \in 0 .. (Size - 1)
  BY Numbers
<1>1. PICK f \in Nat : Window(f)
  BY DEF RingShape
<1>2. /\ buff[head] # EOF /\ head' = Pos(head, 1)
      /\ given' = Append(given, [reader |-> r, byte |-> buff[head]])
      /\ UNCHANGED <<device, typed, buff, tail>>
  BY DEF read_byte, NextHead, Pos
<1>3. UnreadSlots' = UnreadSlots - 1 /\ UnreadSlots \in 1 .. Size
  BY ByteStep
<1>4. MoreText /\ f = UnreadSlots
  BY <1>1, <1>2, <1>3, HeadByte DEF Window
<1>5. Taken' = Taken + 1 /\ One(device # NoChar)' = One(device # NoChar)
      /\ One(device # NoChar) \in {0, 1}
  BY <1>2, Names DEF Taken, One, Types
<1>6. f - 1 \in Nat /\ f <= Size
  BY <1>3, <1>4, <1>0
<1>7. tail' = Pos(head', f - 1)
  <2>1. tail = Pos(head, f)
    BY <1>1, <1>4 DEF Window
  <2>2. Pos(head, f) = IF head + f < Size THEN head + f ELSE head + f - Size
    BY <1>6, <1>0, Wrapped
  <2>3. head' = (IF head + 1 < Size THEN head + 1 ELSE head + 1 - Size)
        /\ head' \in 0 .. (Size - 1)
    BY <1>2, <1>0, Wrapped
  <2>4. Pos(head', f - 1)
          = IF head' + (f - 1) < Size THEN head' + (f - 1) ELSE head' + (f - 1) - Size
    BY <1>6, <2>3, <1>0, Wrapped
  <2> QED BY <1>2, <1>6, <2>1, <2>2, <2>3, <2>4, <1>0
<1>8. \A i \in 0 .. (f - 2) : buff'[Pos(head', i)] = Input(Taken' + 1 + i)
  <2> TAKE i \in 0 .. (f - 2)
  <2>1. head' = (IF head + 1 < Size THEN head + 1 ELSE head + 1 - Size)
        /\ head' \in 0 .. (Size - 1)
    BY <1>2, <1>0, Wrapped
  <2>2. Pos(head', i) = IF head' + i < Size THEN head' + i ELSE head' + i - Size
    BY <1>6, <2>1, <1>0, Wrapped
  <2>3. Pos(head, i + 1)
          = IF head + (i + 1) < Size THEN head + (i + 1) ELSE head + (i + 1) - Size
    BY <1>6, <1>0, Wrapped
  <2>4. Pos(head', i) = Pos(head, i + 1)
    BY <1>6, <2>1, <2>2, <2>3, <1>0
  <2>5. i + 1 \in 0 .. (f - 1) /\ Taken + 1 + (i + 1) = Taken' + 1 + i
    BY <1>5, <1>6, <1>0
  <2> QED BY <1>1, <1>2, <2>4, <2>5 DEF Window
<1>9. Taken' + (f - 1) = Taken + f
  BY <1>5, <1>6, <1>0
<1>10. Window(f - 1)'
  <2>1. Taken' <= Len(Text) /\ UnreadSlots' = f - 1 /\ f - 1 <= Size
    BY <1>3, <1>4, <1>5, <1>6, <1>0 DEF MoreText
  <2>2. typed' = Capped(Taken' + (f - 1) + One(device # NoChar)')
    BY <1>1, <1>2, <1>5, <1>9, <1>0 DEF Window
  <2>3. (device # NoChar)' => device' = Input(Taken' + (f - 1) + 1)
    BY <1>1, <1>2, <1>9 DEF Window
  <2>4. \A i \in 0 .. ((f - 1) - 1) : buff'[Pos(head', i)] = Input(Taken' + 1 + i)
    BY <1>6, <1>8
  <2> QED BY <1>7, <2>1, <2>2, <2>3, <2>4, <1>0 DEF Window
<1> QED BY <1>6, <1>10 DEF RingShape

(* End of file stays in its slot: the window is as wide as it was.         *)
LEMMA EofKeepsRing ==
  ASSUME PlainText, InInv, RingShape, NEW r \in Readers, read_eof(r)
  PROVE  RingShape'
<1>0. /\ Size \in Nat \ {0} /\ Len(Text) \in Nat /\ Taken \in Nat
      /\ UnreadSlots \in Nat /\ typed \in Nat
      /\ head \in 0 .. (Size - 1) /\ tail \in 0 .. (Size - 1)
  BY Numbers
<1>1. PICK f \in Nat : Window(f)
  BY DEF RingShape
<1>2. buff[head] = EOF /\ UNCHANGED <<device, typed, buff, head, tail, given>>
  BY DEF read_eof, ring, call
<1>3. UnreadSlots' = UnreadSlots - 1 /\ UnreadSlots \in 1 .. Size
  BY EofStep
<1>4. Taken = Len(Text) /\ ~MoreText
  BY <1>2, <1>3, HeadByte, <1>0 DEF MoreText
<1>5. Taken' = Taken /\ (MoreText' <=> MoreText)
  BY <1>2 DEF Taken, MoreText
<1>6. Window(f)'
  BY <1>1, <1>2, <1>3, <1>4, <1>5, <1>0 DEF Window, One
<1> QED BY <1>6 DEF RingShape

(* Every step keeps the window.                                            *)
LEMMA RingInvariant ==
  ASSUME PlainText, InInv, RingShape, [Next]_vars
  PROVE  RingShape'
<1>1. ASSUME NEW t \in Threads, Dispatch(t) PROVE RingShape'
  BY <1>1, DispatchStep, WindowFrame DEF Dispatch, ring, call
<1>2. CASE cons_to_buff
  BY <1>2, ConsToBuffStep, WindowFrame DEF cons_to_buff, ring, call
<1>3. CASE wait_slot
  BY <1>3, WaitSlotStep, WindowFrame DEF wait_slot, ring, call
<1>4. ASSUME NEW r \in Readers, do_read_refuse(r) PROVE RingShape'
  BY <1>4, RefuseStep, WindowFrame DEF do_read_refuse, ring
<1>5. ASSUME NEW r \in Readers, do_read(r) PROVE RingShape'
  BY <1>5, EnterStep, WindowFrame DEF do_read, ring, call
<1>6. ASSUME NEW r \in Readers, read_start(r) PROVE RingShape'
  BY <1>6, StartStep, WindowFrame DEF read_start, ring
<1>7. ASSUME NEW r \in Readers, read_next(r) PROVE RingShape'
  BY <1>7, NextStep, WindowFrame DEF read_next, ring, call
<1>8. ASSUME NEW r \in Readers, read_done(r) PROVE RingShape'
  BY <1>8, DoneStep, WindowFrame DEF read_done, ring, call
<1>9. ASSUME NEW r \in Readers, Syscall(r) PROVE RingShape'
  BY <1>9, SyscallStep, WindowFrame DEF Syscall, ring
<1>10. CASE UNCHANGED vars
  BY <1>10, StutterStep, WindowFrame DEF vars, ring, call
<1>11. CASE move
  BY <1>11, MoveKeepsRing
<1>12. CASE ConsoleReadInt
  BY <1>12, InterruptKeepsRing
<1>13. ASSUME NEW r \in Readers, read_byte(r) PROVE RingShape'
  BY <1>13, ByteKeepsRing
<1>14. ASSUME NEW r \in Readers, read_eof(r) PROVE RingShape'
  BY <1>14, EofKeepsRing
<1> QED BY <1>1, <1>2, <1>3, <1>4, <1>5, <1>6, <1>7, <1>8, <1>9, <1>10, <1>11, <1>12, <1>13,
           <1>14 DEF Next, Kernel

(* At first the window is empty.                                           *)
LEMMA InitRing == Init => RingShape
<1> SUFFICES ASSUME Init PROVE RingShape
  OBVIOUS
<1>1. InInv
  BY InitInv
<1>2. /\ device = NoChar /\ typed = 0 /\ head = 0 /\ tail = 0 /\ given = <<>>
      /\ kt.val["nelem"] = 0 /\ Asleep("nelem") = {} /\ ~Taking
  BY KosConsoleInAssumption
     DEF Init, K!make_kt_sems, SemValues, Asleep, Taking, Threads
<1>3. Taken = 0 /\ UnreadSlots = 0 /\ One(device # NoChar) = 0
  BY <1>2 DEF Taken, UnreadSlots, One
<1>4. tail = Pos(head, 0)
  BY <1>1, <1>2, Numbers, Wrapped
<1>5. Window(0)
  BY <1>1, <1>2, <1>3, <1>4, Numbers DEF Window, Capped
<1> QED BY <1>5 DEF RingShape

(* The window is what the semaphores count, or end of file.                *)
LEMMA RingFollows ==
  ASSUME InInv, RingShape
  PROVE  RingInv
<1>0. /\ Size \in Nat \ {0} /\ Len(Text) \in Nat /\ Taken \in Nat
      /\ UnreadSlots \in Nat /\ typed \in Nat
      /\ head \in 0 .. (Size - 1) /\ tail \in 0 .. (Size - 1)
  BY Numbers
<1>1. RingCount
  BY CountsAgree DEF RingCount, InInv, Slots
<1>2. RingContent
  <2>1. PICK f \in Nat : Window(f)
    BY DEF RingShape
  <2>2. 0 .. (Unread - 1) \subseteq 0 .. (f - 1)
    BY <2>1, CountsAgree, <1>0 DEF Window
  <2> QED BY <2>1, <2>2 DEF RingContent, Window, Taken, Pos
<1> QED BY <1>1, <1>2 DEF RingInv

(* The slots of the ring are accounted for, and the unread ones hold the   *)
(* next bytes of the input, for any ring and any text without 0xFF         *)
(* (cons_to_buff, do_read, console_buf.c).                                 *)
THEOREM RingHolds == PlainText /\ Spec => []RingInv
<1>1. Init => InInv /\ RingShape
  BY InitInv, InitRing
<1>2. PlainText /\ InInv /\ RingShape /\ [Next]_vars => (InInv /\ RingShape)'
  BY Invariant, RingInvariant
<1>3. InInv /\ RingShape => RingInv
  BY RingFollows
<1>4. PlainText => []PlainText
  <2>1. PlainText => PlainText'
    BY DEF PlainText, EOF
  <2> QED BY <2>1, PTL
<1> QED BY <1>1, <1>2, <1>3, <1>4, PTL DEF Spec

-----------------------------------------------------------------------------
(* Calls of read as steps of the byte stream.                              *)
Calling == {r \in Readers : pc[r] # "user"}

(* Whose turn it is.                                                       *)
OwnerKnown ==
  /\ \A r \in Readers : HasTurn(r) => Owner = r
  /\ (\A r \in Readers : ~HasTurn(r)) => Owner = NoThread

LEMMA OwnerIs == InInv => OwnerKnown
<1> SUFFICES ASSUME InInv PROVE OwnerKnown
  OBVIOUS
<1>1. \A r, u \in Readers : HasTurn(r) /\ HasTurn(u) => r = u
  BY TakersInside DEF HasTurn
<1>2. CASE \E r \in Readers : HasTurn(r)
  <2>1. Owner \in Readers /\ HasTurn(Owner)
    BY <1>2 DEF Owner
  <2> QED BY <1>1, <1>2, <2>1 DEF OwnerKnown
<1>3. CASE \A r \in Readers : ~HasTurn(r)
  BY <1>3 DEF Owner, OwnerKnown
<1> QED BY <1>2, <1>3

LEMMA OwnerAfter == InInv' => OwnerKnown'
BY OwnerIs, PTL

(* A step that changes no turn leaves the owner.                           *)
LEMMA OwnerSame ==
  ASSUME InInv, InInv', \A r \in Readers : HasTurn(r)' <=> HasTurn(r)
  PROVE  Owner' = Owner
BY OwnerIs, OwnerAfter DEF OwnerKnown

(* The steps of the library and of cons_to_buff, and a reader's step from  *)
(* one place of its turn to another, are none of the byte stream's.        *)
LEMMA Unseen ==
  ASSUME InInv, InInv', UNCHANGED <<asked, count, given>>,
         \A r \in Readers : pc'[r] = "user" <=> pc[r] = "user",
         \A r \in Readers : HasTurn(r)' <=> HasTurn(r)
  PROVE  UNCHANGED BS!bsVars
<1>1. Owner' = Owner
  BY OwnerSame
<1>2. Calling' = Calling
  BY DEF Calling
<1> QED BY <1>1, <1>2 DEF BS!bsVars, Calling

LEMMA CallStep ==
  ASSUME InInv, InInv', NEW r \in Readers, Syscall(r)
  PROVE  BS!Call(r)
<1>1. /\ pc[r] = "user" /\ pc' = [pc EXCEPT ![r] = "do_read"]
      /\ \E n \in Requests : asked' = [asked EXCEPT ![r] = n]
      /\ UNCHANGED <<count, given>>
  BY DEF Syscall, Goto
<1>2. \A t \in Threads : pc'[t] = IF t = r THEN "do_read" ELSE pc[t]
  BY <1>1, Names DEF Types
<1>3. r \notin Calling /\ Calling' = Calling \cup {r}
  BY <1>1, <1>2, Names DEF Calling
<1>4. Owner' = Owner
  BY <1>1, <1>2, Names, OwnerSame DEF HasTurn
<1> QED BY <1>1, <1>3, <1>4 DEF BS!Call, Calling

LEMMA RefuseCall ==
  ASSUME InInv, InInv', NEW r \in Readers, do_read_refuse(r)
  PROVE  BS!Refuse(r)
<1>1. /\ pc[r] = "do_read" /\ pc' = [pc EXCEPT ![r] = "user"] /\ asked[r] < 0
      /\ count' = [count EXCEPT ![r] = -1] /\ UNCHANGED <<asked, given>>
  BY DEF do_read_refuse, At, Goto
<1>2. \A t \in Threads : pc'[t] = IF t = r THEN "user" ELSE pc[t]
  BY <1>1, Names DEF Types
<1>3. r \in Calling /\ Calling' = Calling \ {r}
  BY <1>1, <1>2, Names DEF Calling
<1>4. Owner' = Owner /\ Owner # r
  <2>1. ~HasTurn(r) /\ \A u \in Readers : HasTurn(u)' <=> HasTurn(u)
    BY <1>1, <1>2, Names DEF HasTurn
  <2> QED BY <2>1, OwnerIs, OwnerSame, Names DEF OwnerKnown
<1> QED BY <1>1, <1>3, <1>4 DEF BS!Refuse, Calling

(* The turn begins when P(readers) has returned: nobody else has it.       *)
LEMMA BeginCall ==
  ASSUME InInv, InInv', NEW r \in Readers, read_start(r)
  PROVE  BS!Begin(r)
<1>1. /\ kt.running = r /\ pc[r] = "start" /\ pc' = [pc EXCEPT ![r] = "test"]
      /\ count' = [count EXCEPT ![r] = 0] /\ UNCHANGED <<asked, given>>
  BY DEF read_start, At, Goto, ring
<1>2. \A t \in Threads : pc'[t] = IF t = r THEN "test" ELSE pc[t]
  BY <1>1, Names DEF Types
<1>3. r \in Calling /\ Calling' = Calling /\ asked[r] >= 0
  BY <1>1, <1>2, Names DEF Calling, InInv, Calls
<1>4. Owner = NoThread
  <2>1. \A u \in Readers : Inside(u) => u = r
    BY <1>1, ReaderRuns
  <2>2. \A u \in Readers : ~HasTurn(u)
    BY <1>1, <2>1, TakersInside DEF HasTurn
  <2> QED BY <2>2, OwnerIs DEF OwnerKnown
<1>5. Owner' = r
  BY <1>2, Names, OwnerAfter DEF HasTurn, OwnerKnown
<1> QED BY <1>1, <1>3, <1>4, <1>5 DEF BS!Begin, Calling

(* The byte in the head slot is the next of the text.                      *)
LEMMA TakeByte ==
  ASSUME InInv, InInv', RingShape, NEW r \in Readers, read_byte(r)
  PROVE  BS!Take(r)
<1>1. /\ pc[r] = "take" /\ pc' = [pc EXCEPT ![r] = "test"] /\ buff[head] # EOF
      /\ given' = Append(given, [reader |-> r, byte |-> buff[head]])
      /\ count' = [count EXCEPT ![r] = @ + 1] /\ UNCHANGED asked
  BY DEF read_byte, At, Goto
<1>2. \A t \in Threads : pc'[t] = IF t = r THEN "test" ELSE pc[t]
  BY <1>1, Names DEF Types
<1>3. Taken < Len(Text) /\ buff[head] = Text[Taken + 1]
  <2>1. MoreText /\ buff[head] = Input(Taken + 1)
    BY <1>1, ByteStep, HeadByte
  <2>2. Taken + 1 <= Len(Text)
    BY <2>1, Numbers DEF MoreText
  <2> QED BY <2>1, <2>2 DEF MoreText, Input
<1>4. count[r] < asked[r]
  BY <1>1, Names DEF InInv, Calls, Types
<1>5. Calling' = Calling
  BY <1>1, <1>2, Names DEF Calling
<1>6. Owner = r /\ Owner' = r
  BY <1>1, <1>2, Names, OwnerIs, OwnerAfter DEF HasTurn, OwnerKnown
<1> QED BY <1>1, <1>3, <1>4, <1>5, <1>6 DEF BS!Take, Calling, Taken

(* A call ends full, or short with the text at its end.                    *)
LEMMA FinishCall ==
  ASSUME PlainText, InInv, InInv', RingShape, NEW r \in Readers, read_done(r) \/ read_eof(r)
  PROVE  BS!Finish(r)
<1>1. /\ kt.running = r /\ pc[r] \in {"test", "take"} /\ pc' = [pc EXCEPT ![r] = "user"]
      /\ UNCHANGED <<asked, count, given>>
  BY DEF read_done, read_eof, At, Goto, call
<1>2. \A t \in Threads : pc'[t] = IF t = r THEN "user" ELSE pc[t]
  BY <1>1, Names DEF Types
<1>3. count[r] = asked[r] \/ (count[r] < asked[r] /\ Taken = Len(Text))
  <2>1. CASE read_done(r)
    BY <2>1 DEF read_done
  <2>2. CASE read_eof(r)
    <3>1. pc[r] = "take" /\ buff[head] = EOF
      BY <2>2 DEF read_eof, At
    <3>2. count[r] < asked[r]
      BY <3>1, Names DEF InInv, Calls, Types
    <3> QED BY <2>2, <3>1, <3>2, EofStep, HeadByte
  <2> QED BY <2>1, <2>2
<1>4. Calling' = Calling \ {r}
  BY <1>1, <1>2, Names DEF Calling
<1>5. Owner = r
  BY <1>1, OwnerIs DEF HasTurn, OwnerKnown
<1>6. Owner' = NoThread
  <2>1. \A u \in Readers : HasTurn(u) => u = r
    BY <1>1, TakersInside DEF HasTurn
  <2>2. \A u \in Readers : ~HasTurn(u)'
    BY <1>2, <2>1, Names DEF HasTurn
  <2> QED BY <2>2, OwnerAfter DEF OwnerKnown
<1> QED BY <1>1, <1>3, <1>4, <1>5, <1>6 DEF BS!Finish, Calling, Taken

(* Every step is a step of the byte stream, or none.                       *)
LEMMA StreamStep ==
  ASSUME PlainText, InInv, InInv', RingShape, [Next]_vars
  PROVE  [BS!Next]_(BS!bsVars)
<1>1. ASSUME NEW t \in Threads, Dispatch(t) PROVE UNCHANGED BS!bsVars
  BY <1>1, Unseen DEF Dispatch, call, HasTurn
<1>2. CASE cons_to_buff \/ wait_slot \/ move
  <2>1. PICK label \in Labels : pc' = [pc EXCEPT ![C] = label]
    BY <1>2 DEF cons_to_buff, wait_slot, move, Goto, Labels, C
  <2>2. \A r \in Readers : pc'[r] = pc[r]
    BY <2>1, Names DEF Types
  <2> QED BY <1>2, <2>2, Unseen DEF cons_to_buff, wait_slot, move, call, HasTurn
<1>3. ASSUME NEW r \in Readers, do_read(r) PROVE UNCHANGED BS!bsVars
  <2>1. \A u \in Readers : pc'[u] = IF u = r THEN "start" ELSE pc[u]
    BY <1>3, Names DEF do_read, Goto, Types
  <2> QED BY <1>3, <2>1, Unseen DEF do_read, At, call, HasTurn
<1>4. ASSUME NEW r \in Readers, read_next(r) PROVE UNCHANGED BS!bsVars
  <2>1. \A u \in Readers : pc'[u] = IF u = r THEN "take" ELSE pc[u]
    BY <1>4, Names DEF read_next, Goto, Types
  <2> QED BY <1>4, <2>1, Unseen DEF read_next, At, call, HasTurn
<1>5. CASE ConsoleReadInt
  BY <1>5, Unseen DEF ConsoleReadInt, call, HasTurn
<1>6. CASE UNCHANGED vars
  BY <1>6, Unseen DEF vars, call, HasTurn
<1>7. ASSUME NEW r \in Readers,
             Syscall(r) \/ do_read_refuse(r) \/ read_start(r) \/ read_byte(r)
               \/ read_done(r) \/ read_eof(r)
      PROVE  BS!Next
  BY <1>7, CallStep, RefuseCall, BeginCall, TakeByte, FinishCall DEF BS!Next
<1> QED BY <1>1, <1>2, <1>3, <1>4, <1>5, <1>6, <1>7 DEF Next, Kernel

LEMMA InitStream == Init => BS!Init
<1> SUFFICES ASSUME Init PROVE BS!Init
  OBVIOUS
<1>1. /\ \A r \in Readers : pc[r] = "user"
      /\ asked = [r \in Readers |-> 0] /\ count = [r \in Readers |-> 0] /\ given = <<>>
  BY KosConsoleInAssumption DEF Init, Threads
<1>2. Owner = NoThread /\ Calling = {}
  BY <1>1 DEF Owner, HasTurn, Calling
<1> QED BY <1>1, <1>2 DEF BS!Init, Calling

(* Reads of the console, by any number of processes, hand out the text in  *)
(* order, each byte once, a call's bytes together, and are short only at   *)
(* its end (do_read, cons_to_buff), for any text without 0xFF.             *)
THEOREM ReadsAreAStream == PlainText /\ Spec => ImplementsByteStream
<1>1. Init => InInv /\ RingShape /\ BS!Init
  BY InitInv, InitRing, InitStream
<1>2. PlainText /\ InInv /\ RingShape /\ [Next]_vars => (InInv /\ RingShape)'
  BY Invariant, RingInvariant
<1>3. PlainText /\ InInv /\ InInv' /\ RingShape /\ [Next]_vars => [BS!Next]_(BS!bsVars)
  BY StreamStep
<1>4. PlainText => PlainText'
  BY DEF PlainText, EOF
<1> QED BY <1>1, <1>2, <1>3, <1>4, PTL DEF Spec, ImplementsByteStream, BS!Spec

================================================================================
