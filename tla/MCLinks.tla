------------------------------ MODULE MCLinks ------------------------------
(***************************************************************************)
(* Small instances of Links for TLC.                                       *)
(***************************************************************************)
EXTENDS Links, TLC

CONSTANTS a, b, c

Triangle == {{a, b}, {b, c}, {a, c}}
OneCable == {{b, c}}

\* The direct link from a to b is as dear as it is measured: the way through c is cheaper,
\* or as cheap.  Two links are never measured.
SomeDear(l) ==
  CASE l = <<a, b>> -> {2, 3}
    [] l \in {<<b, a>>, <<a, c>>, <<c, b>>} -> {1}
    [] OTHER -> {}

OneMoreRound == [n \in Nodes |-> IF n = b THEN 1 ELSE 0]

\* A routing table is read only where messages are sent; no step here depends on it.
WithoutTables == <<up, failures, version, linkSet, expired, stuck>>

\* What happens after buildRoutingTable has failed to end is not explored.
NobodyStuck == stuck = {}
=============================================================================
