-------------------------------- MODULE MCRpc --------------------------------
(***************************************************************************)
(* Small instances of Rpc for TLC.                                         *)
(***************************************************************************)
EXTENDS Rpc

CONSTANTS f, p, q
=============================================================================
