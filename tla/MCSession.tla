----------------------------- MODULE MCSession -----------------------------
(***************************************************************************)
(* Small instances of Session for TLC.                                     *)
(***************************************************************************)
EXTENDS Session

\* Two clients, or one that comes back.
TwoClientsOrOne == {[s \in {1, 2} |-> IF s = 1 THEN "y" ELSE "x"], [s \in {1, 2} |-> "x"]}
\* The second session is connected before and after the first, and asks for less.
FirstAsks ==
  [s \in {1, 2} |->
     IF s = 1 THEN {"SUBSCRIBE", "UNSUBSCRIBE", "REGISTER_RPC", "UNREGISTER_RPC", "RPC", "GROUP",
                    "PUBLISH"}
     ELSE {"RPC", "SUBSCRIBE"}]
=============================================================================
