------------------------------- MODULE MCSubs -------------------------------
(***************************************************************************)
(* Small instances of Subs for TLC.                                        *)
(***************************************************************************)
EXTENDS Subs

CONSTANTS a, b, c, x

\* Two floods of changes can be under way at once.
TwoSlots == {<<"change", a>>, <<"change", b>>}

\* What a says reaches c only if b passes it on.
Line == [n \in Nodes |-> IF n = b THEN {a, c} ELSE {b}]

\* Subscriptions and groups have tables and messages of their own and meet only in the
\* cleanup of the keys: they are explored one at a time.
OneAtATime == changes = 0 \/ joined = {}

MCSpec == Init /\ [][Next /\ OneAtATime']_vars /\ Fairness
=============================================================================
