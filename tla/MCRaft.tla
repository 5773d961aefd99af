------------------------------- MODULE MCRaft -------------------------------
(***************************************************************************)
(* Small instances of Raft for TLC.  The peers in Starters are             *)
(* interchangeable from Init: Init, Next and the properties name no peer.  *)
(***************************************************************************)
EXTENDS Raft, TLC

CONSTANTS
  Starters,    \* the peers whose election timer expires before a leader is heard
  MaxAppends,  \* bound on the AppendEntries requests on the wire
  MaxMsgs      \* bound on all the messages on the wire

Symmetry == Permutations(Starters)

Appends == {m \in msgs : m.type = "AppendEntries"}

\* The state constraint of every run.
Bounded ==
  /\ \A n \in Peers \ Starters : election[n] = NoElection
  /\ Cardinality(Appends) <= MaxAppends
  /\ Cardinality(msgs) <= MaxMsgs

\* The schedules of the runs: once a command was proposed, startElection runs to its
\* end as soon as it is started, and broadcastHeartbeat always does.
Proposed == \E n \in Peers : disk[n].log # <<>>
Prompt ==
  /\ Proposed /\ (\E n \in Peers : election[n] # NoElection) => election' # election
  /\ (\E n \in Peers : bcast[n]) => bcast' # bcast
=============================================================================
