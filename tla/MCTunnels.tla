------------------------------ MODULE MCTunnels ------------------------------
(***************************************************************************)
(* Small instances of Tunnels for TLC.                                     *)
(***************************************************************************)
EXTENDS Tunnels

CONSTANTS a, b

SomeListeners == {<<a, "dynamic">>, <<a, "registered file">>, <<b, "counted">>}

EachOther == [n \in Nodes |-> IF n = a THEN b ELSE a]

=============================================================================
