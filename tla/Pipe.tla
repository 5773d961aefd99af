-------------------------------- MODULE Pipe --------------------------------
(***************************************************************************)
(* What a stream of FRP promises its user, without messages, windows and   *)
(* stubs: a pipe that takes chunks in at one end and gives them out at the *)
(* other in the same order, with a bounded number in between.  FRPStream   *)
(* implements it (src/core/FRPStreamStub.go).                              *)
(*                                                                         *)
(* Chunks are numbered as they are taken in.  The pipe does not promise    *)
(* that all of them come out: one that reaches the far end when its queue  *)
(* is full is dropped.                                                     *)
(***************************************************************************)
EXTENDS Integers, Sequences

CONSTANTS
  Window,  \* how many chunks may be on their way when another is taken in
  Queue    \* how many may wait at the far end

VARIABLES
  taken,    \* how many chunks were taken in
  arrived,  \* how many have come to the far end
  queue,    \* the ones that wait there
  out       \* the ones given out

vars == <<taken, arrived, queue, out>>

Init == taken = 0 /\ arrived = 0 /\ queue = <<>> /\ out = <<>>

\* The pipe takes a chunk in only while it has credit for it.
Take ==
  /\ taken - arrived <= Window
  /\ taken' = taken + 1
  /\ UNCHANGED <<arrived, queue, out>>

\* The next chunk arrives, and only that one.
Arrive ==
  /\ arrived < taken
  /\ arrived' = arrived + 1
  /\ queue' = IF Len(queue) < Queue THEN Append(queue, arrived') ELSE queue
  /\ UNCHANGED <<taken, out>>

Give ==
  /\ queue # <<>>
  /\ out' = Append(out, Head(queue))
  /\ queue' = Tail(queue)
  /\ UNCHANGED <<taken, arrived>>

Next == Take \/ Arrive \/ Give

Spec == Init /\ [][Next]_vars
=============================================================================
