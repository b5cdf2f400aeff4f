---------------------------- MODULE BoundedPipe ----------------------------
(***************************************************************************)
(* What a pipe between any number of writers and readers promises: the     *)
(* bytes put into it come out one by one, oldest first, and at most size   *)
(* of them are inside.  It may be emptied at any moment.                   *)
(*                                                                         *)
(* The promise ends with a put into the full pipe or a get from the empty  *)
(* one, nothing earlier, and begins again when the pipe is emptied.  Bytes *)
(* are numbered as they are put.                                           *)
(***************************************************************************)
EXTENDS Naturals, Sequences

CONSTANT size

VARIABLES
  queue,       (* the bytes inside                                         *)
  puts,        (* bytes put since the pipe was emptied                     *)
  got,         (* the byte got last, 0 for none                            *)
  broken       (* a put found no room or a get no byte                     *)

pipeVars == <<queue, puts, got, broken>>

Empty(b) == queue = <<>> /\ puts = 0 /\ got = 0 /\ broken = b

Init == Empty(FALSE)

Put ==
  /\ ~broken
  /\ Len(queue) < size
  /\ queue' = Append(queue, puts + 1)
  /\ puts' = puts + 1
  /\ UNCHANGED <<got, broken>>

Get ==
  /\ ~broken
  /\ queue # <<>>
  /\ got' = Head(queue)
  /\ queue' = Tail(queue)
  /\ UNCHANGED <<puts, broken>>

Break ==
  /\ queue = <<>> \/ Len(queue) = size
  /\ Empty(TRUE)'

Clear == Empty(FALSE)'

Next == Put \/ Get \/ Break \/ Clear

Spec == Init /\ [][Next]_pipeVars
=============================================================================
