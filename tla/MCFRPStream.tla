----------------------------- MODULE MCFRPStream -----------------------------
(***************************************************************************)
(* Small instances of FRPStream for TLC.                                   *)
(***************************************************************************)
EXTENDS FRPStream

CONSTANT MaxNet  \* bound on the messages in flight

Bounded == Cardinality(net) <= MaxNet
=============================================================================
