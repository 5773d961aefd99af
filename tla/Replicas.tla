------------------------------ MODULE Replicas ------------------------------
(***************************************************************************)
(* What a Raft group promises its state machines, without terms, leaders,  *)
(* logs and messages: there is one sequence of entries, which grows at its *)
(* end, and every machine is given its beginning, entry after entry,       *)
(* whenever the others are given theirs.  A group of two peers implements  *)
(* it (src/core/Raft.go).                                                  *)
(***************************************************************************)
EXTENDS Integers, Sequences

CONSTANT Peers

VARIABLES
  agreed,  \* the sequence, as far as any machine has been given it
  given    \* what every machine has been given

vars == <<agreed, given>>

Init == agreed = <<>> /\ given = [n \in Peers |-> <<>>]

\* A machine is given some more, which others have been given before or which it is the
\* first to be given.
Give(n) ==
  /\ Len(agreed) <= Len(agreed') /\ SubSeq(agreed', 1, Len(agreed)) = agreed
  /\ \E k \in (Len(given[n]) + 1)..Len(agreed') :
       given' = [given EXCEPT ![n] = SubSeq(agreed', 1, k)]

Next == \E n \in Peers : Give(n)

Spec == Init /\ [][Next]_vars
=============================================================================
