---------------------------- MODULE RegularLink ----------------------------
(***************************************************************************)
(* What a link between two machines promises when a program on one of them *)
(* writes and programs on the other read, and nobody confirms anything: a  *)
(* read returns what was written by calls that were still running when it  *)
(* began, or that began later.  Bytes may be lost and read twice; a read   *)
(* never returns a byte of a call that was over, and never invents one.    *)
(*                                                                         *)
(* Write calls are numbered.  What a read returns was taken from the port  *)
(* in one piece or in two; got holds the call of the first and of the last *)
(* piece.                                                                  *)
(***************************************************************************)
EXTENDS Naturals

CONSTANT Readers

VARIABLES
  begun,       (* write calls that put their byte on the port              *)
  returned,    (* write calls that returned                                *)
  since,       (* by reader: write calls over when its read began          *)
  got          (* by reader: what its last read returned                   *)

linkVars == <<begun, returned, since, got>>

None == [first |-> 0, last |-> 0]

Init ==
  /\ begun = 0
  /\ returned = 0
  /\ since = [r \in Readers |-> 0]
  /\ got = [r \in Readers |-> None]

BeginWrite ==
  /\ begun = returned
  /\ begun' = begun + 1
  /\ UNCHANGED <<returned, since, got>>

EndWrite ==
  /\ returned < begun
  /\ returned' = begun
  /\ UNCHANGED <<begun, since, got>>

BeginRead(r) ==
  /\ since' = [since EXCEPT ![r] = returned]
  /\ UNCHANGED <<begun, returned, got>>

EndRead(r) ==
  /\ \E first, last \in since[r] + 1 .. begun :
       /\ first <= last
       /\ got' = [got EXCEPT ![r] = [first |-> first, last |-> last]]
  /\ UNCHANGED <<begun, returned, since>>

Next ==
  \/ BeginWrite \/ EndWrite
  \/ \E r \in Readers : BeginRead(r) \/ EndRead(r)

Spec == Init /\ [][Next]_linkVars
=============================================================================
