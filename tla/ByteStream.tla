------------------------------- MODULE ByteStream -------------------------------
(***************************************************************************)
(* What read() promises its callers on a stream they share: calls take     *)
(* turns, each takes the next bytes of the stream in order, none is lost   *)
(* or given twice, and a call ends with the bytes it asked for, or with    *)
(* fewer once the stream has ended.                                        *)
(***************************************************************************)
EXTENDS Integers, Sequences

CONSTANTS Readers, Nobody,
          Requests, (* the numbers of bytes a call may ask for             *)
          Stream    (* the bytes that arrive before the end of the stream  *)

VARIABLES
  owner,    (* the reader whose turn it is, or Nobody                      *)
  want,     (* bytes asked for in the call; negative when arguments are bad *)
  calling,  (* the readers that are in a call                              *)
  got,      (* bytes taken in the call; after the call its result          *)
  given     (* all bytes handed out: who got which                         *)

bsVars == <<owner, want, calling, got, given>>

Init ==
  /\ owner = Nobody /\ calling = {} /\ given = <<>>
  /\ want = [r \in Readers |-> 0] /\ got = [r \in Readers |-> 0]

Call(r) ==
  /\ r \notin calling
  /\ calling' = calling \cup {r}
  /\ \E n \in Requests : want' = [want EXCEPT ![r] = n]
  /\ UNCHANGED <<owner, got, given>>

Refuse(r) ==
  /\ r \in calling /\ want[r] < 0 /\ owner # r
  /\ calling' = calling \ {r}
  /\ got' = [got EXCEPT ![r] = -1]
  /\ UNCHANGED <<owner, want, given>>

Begin(r) ==
  /\ r \in calling /\ want[r] >= 0 /\ owner = Nobody
  /\ owner' = r
  /\ got' = [got EXCEPT ![r] = 0]
  /\ UNCHANGED <<want, calling, given>>

Take(r) ==
  /\ owner = r /\ got[r] < want[r] /\ Len(given) < Len(Stream)
  /\ given' = Append(given, [reader |-> r, byte |-> Stream[Len(given) + 1]])
  /\ got' = [got EXCEPT ![r] = @ + 1]
  /\ UNCHANGED <<owner, want, calling>>

Finish(r) ==
  /\ owner = r
  /\ got[r] = want[r] \/ (got[r] < want[r] /\ Len(given) = Len(Stream))
  /\ owner' = Nobody
  /\ calling' = calling \ {r}
  /\ UNCHANGED <<want, got, given>>

Next ==
  \E r \in Readers : Call(r) \/ Refuse(r) \/ Begin(r) \/ Take(r) \/ Finish(r)

Spec == Init /\ [][Next]_bsVars
=================================================================================
