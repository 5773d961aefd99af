------------------------------- MODULE MCElect -------------------------------
(***************************************************************************)
(* Small instances of Elect for TLC.  No candidate is named by Elect, so   *)
(* they are interchangeable.                                               *)
(***************************************************************************)
EXTENDS Elect, TLC

Symmetry == Permutations(Candidates)
\* What can still be read: a wait matters on standby, the time of the next heartbeat on
\* duty, and both only while mainLoop runs.
Live ==
  <<State, loop, net, dutyAge, alone,
    [c \in Candidates |-> IF loop[c] = "on" /\ State[c] = "Standby" THEN waitDuty[c] ELSE 0],
    [c \in Candidates |-> IF OnDuty(c) THEN heartbeat[c] ELSE 0]>>
=============================================================================
