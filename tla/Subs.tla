--------------------------------- MODULE Subs ---------------------------------
(***************************************************************************)
(* Who has subscribed to a topic, and who has joined a Raft group, as the  *)
(* nodes of the overlay tell each other by floods (src/core/Node.go,       *)
(* RaftSub.go).                                                            *)
(*                                                                         *)
(* A flood is one message: every node that receives it for the first time  *)
(* handles it and sends it on to all its neighbours.  Its key in the       *)
(* ReceivedMsgs of a node is the node's membership in seen, and pending    *)
(* are the nodes that copies are on their way to.  Floods are kept in      *)
(* slots; the periodic floods of a node have a slot each, because a flood  *)
(* has ended long before the next one is due.                              *)
(***************************************************************************)
EXTENDS Integers, FiniteSets

CONSTANTS
  Nodes,
  Neighbours,    \* the nodes a broadcast of a node reaches
  Clients,       \* the clients of a node
  Subscribers,   \* the nodes whose clients subscribe
  Members,       \* the nodes that join the Raft group
  Slots,         \* for the floods of addLocalSub and removeLocalSub
  MaxChanges,    \* a bound on the calls of addLocalSub and removeLocalSub
  MaxCleanups    \* a bound on the cleanups that meet a flood

ASSUME SubsAssumption ==
  /\ IsFiniteSet(Nodes)
  /\ Neighbours \in [Nodes -> SUBSET Nodes]
  /\ Subscribers \subseteq Nodes
  /\ Members \subseteq Nodes
  /\ MaxChanges \in Nat /\ MaxCleanups \in Nat

VARIABLES
  mySubs,     \* MySubs[topic] of a node
  totalSubs,  \* TotalSubs[topic] of a node
  joined,     \* RaftGroup: the nodes that are in the group
  raftPeers,  \* RaftPeers[group] of a node
  floods,     \* the floods under way, by slot
  changes,
  cleanups

vars == <<mySubs, totalSubs, joined, raftPeers, floods, changes, cleanups>>

Periodic == ({"subs"} \X Subscribers) \cup ({"raft"} \X Members)

\* A broadcast to all channels.  The sender does not note the key of its own message.
Broadcast(slot, type, n) ==
  /\ slot \notin DOMAIN floods
  /\ floods' = [i \in DOMAIN floods \cup {slot} |->
                  IF i = slot
                  THEN [type |-> type, from |-> n, seen |-> {}, pending |-> Neighbours[n]]
                  ELSE floods[i]]

\* A flood of addLocalSub or removeLocalSub, in any slot that is free.
BroadcastChange(type, n) ==
  /\ ~(Slots \subseteq DOMAIN floods)
  /\ Broadcast(CHOOSE i \in Slots : i \notin DOMAIN floods, type, n)

Init ==
  /\ mySubs = [n \in Nodes |-> {}]
  /\ totalSubs = [n \in Nodes |-> {}]
  /\ joined = {}
  /\ raftPeers = [n \in Nodes |-> {}]
  /\ floods = [i \in {} |-> {}]
  /\ changes = 0
  /\ cleanups = 0

-----------------------------------------------------------------------------
\* The first client of a node floods TopicInit, a further one only adds its callback.
AddLocalSub(n, c) ==
  /\ changes < MaxChanges
  /\ c \notin mySubs[n]
  /\ changes' = changes + 1
  /\ mySubs' = [mySubs EXCEPT ![n] = @ \cup {c}]
  /\ IF mySubs[n] = {} THEN BroadcastChange("init", n) ELSE UNCHANGED floods
  /\ UNCHANGED <<totalSubs, joined, raftPeers, cleanups>>

\* The last client to leave floods TopicExit.  clearSubClient calls this for every topic
\* of a client that is gone.
RemoveLocalSub(n, c) ==
  /\ changes < MaxChanges
  /\ c \in mySubs[n]
  /\ changes' = changes + 1
  /\ mySubs' = [mySubs EXCEPT ![n] = @ \ {c}]
  /\ IF mySubs[n] = {c} THEN BroadcastChange("exit", n)
     ELSE UNCHANGED floods
  /\ UNCHANGED <<totalSubs, joined, raftPeers, cleanups>>

FloodAllSubscriptions(n) ==
  /\ mySubs[n] # {}
  /\ Broadcast(<<"subs", n>>, "subs", n)
  /\ UNCHANGED <<mySubs, totalSubs, joined, raftPeers, changes, cleanups>>

JoinGroup(n) ==
  /\ joined' = joined \cup {n}
  /\ UNCHANGED <<mySubs, totalSubs, raftPeers, floods, changes, cleanups>>

FloodRaftGroupInfo(n) ==
  /\ n \in joined
  /\ Broadcast(<<"raft", n>>, "raft", n)
  /\ UNCHANGED <<mySubs, totalSubs, joined, raftPeers, changes, cleanups>>

-----------------------------------------------------------------------------
\* newMsg goes to all neighbours, the sender included.
PassOn(f, m) == Neighbours[m]

\* Mutant: what was handled is not noted.
NotNoted(f, m) == f.seen

Noted(f, m) == f.seen \cup {m}

HandleTopicInit(f, m) ==
  /\ f.type = "init"
  /\ totalSubs' = [totalSubs EXCEPT ![m] = @ \cup {f.from}]
  /\ UNCHANGED raftPeers

HandleTopicExit(f, m) ==
  /\ f.type = "exit"
  /\ totalSubs' = [totalSubs EXCEPT ![m] = @ \ {f.from}]
  /\ UNCHANGED raftPeers

HandleSubscribeFlood(f, m) ==
  /\ f.type = "subs"
  /\ totalSubs' = [totalSubs EXCEPT ![m] = @ \cup {f.from}]
  /\ UNCHANGED raftPeers

\* Mutant: only nodes of the group take note of its members.
MembersOnly(f, m) ==
  /\ f.type = "raft"
  /\ raftPeers' = [raftPeers EXCEPT ![m] = IF m \in joined THEN @ \cup {f.from} ELSE @]
  /\ UNCHANGED totalSubs

HandleRaftSubscribeFlood(f, m) ==
  /\ f.type = "raft"
  /\ raftPeers' = [raftPeers EXCEPT ![m] = @ \cup {f.from}]
  /\ UNCHANGED totalSubs

Without(i) == [j \in DOMAIN floods \ {i} |-> floods[j]]

\* onRecv drops a copy whose key is in ReceivedMsgs.
Drop(i, m) ==
  LET f == floods[i]
      rest == f.pending \ {m}
  IN  /\ m \in f.pending
      /\ m \in f.seen
      /\ floods' = IF rest = {} THEN Without(i) ELSE [floods EXCEPT ![i].pending = rest]
      /\ UNCHANGED <<mySubs, totalSubs, joined, raftPeers, changes, cleanups>>

\* onRecv notes the key of any other copy and starts its handler.
Receive(i, m) ==
  LET f == floods[i]
  IN  /\ m \in f.pending
      /\ m \notin f.seen
      /\ floods' = [floods EXCEPT ![i] =
                      [f EXCEPT !.seen = Noted(f, m),
                                !.pending = (@ \ {m}) \cup PassOn(f, m)]]
      /\ \/ HandleTopicInit(f, m)
         \/ HandleTopicExit(f, m)
         \/ HandleSubscribeFlood(f, m)
         \/ HandleRaftSubscribeFlood(f, m)
      /\ UNCHANGED <<mySubs, joined, changes, cleanups>>

\* cleanupReceivedMsgs, at a moment when a flood is under way.
CleanupReceivedMsgs(n) ==
  /\ cleanups < MaxCleanups
  /\ \E i \in DOMAIN floods : n \in floods[i].seen
  /\ cleanups' = cleanups + 1
  /\ floods' = [i \in DOMAIN floods |-> [floods[i] EXCEPT !.seen = @ \ {n}]]
  /\ UNCHANGED <<mySubs, totalSubs, joined, raftPeers, changes>>

-----------------------------------------------------------------------------
Next ==
  \/ \E n \in Subscribers, c \in Clients : AddLocalSub(n, c) \/ RemoveLocalSub(n, c)
  \/ \E n \in Subscribers : FloodAllSubscriptions(n)
  \/ \E n \in Members : JoinGroup(n) \/ FloodRaftGroupInfo(n)
  \/ \E i \in DOMAIN floods, m \in Nodes : Drop(i, m) \/ Receive(i, m)
  \/ \E n \in Nodes : CleanupReceivedMsgs(n)

Delivery(i) == i \in DOMAIN floods /\ \E m \in Nodes : Drop(i, m) \/ Receive(i, m)

\* The copies of a flood arrive, and the tickers of the periodic floods go on.
Fairness ==
  /\ \A i \in Slots \cup Periodic : WF_vars(Delivery(i))
  /\ \A n \in Subscribers : WF_vars(FloodAllSubscriptions(n))
  /\ \A n \in Members : WF_vars(FloodRaftGroupInfo(n))

FairSpec == Init /\ [][Next]_vars /\ Fairness
-----------------------------------------------------------------------------

\* Every flood comes to an end: a copy that returns is dropped because its key is noted,
\* also when a cleanup has made a node take one copy for a new message.
FloodsEnd == \A i \in Slots \cup Periodic : i \in DOMAIN floods ~> i \notin DOMAIN floods

\* A node whose clients stay subscribed is in the end, and then for good, known to every
\* node: TopicInit, TopicExit and the periodic flood arrive in any order, and an exit that
\* comes last is made up for by the next flood.  And a node that has joined the group
\* becomes a peer for every node, those outside the group included.
EverybodyKnows ==
  /\ \A n \in Subscribers, m \in Nodes :
       <>[](mySubs[n] # {}) => <>[](n \in totalSubs[m])
  /\ \A n \in Members, m \in Nodes : n \in joined ~> n \in raftPeers[m]
=============================================================================
