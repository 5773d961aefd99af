-------------------------------- MODULE Links --------------------------------
(***************************************************************************)
(* The links of the overlay (src/core/Channel.go, Link.go and the link     *)
(* part of Node.go): every node measures the cost of the links to its      *)
(* neighbours, tells the neighbours with its heartbeats of all the links   *)
(* it knows, drops the ones it has not heard of for a while, and computes  *)
(* its routing table from the rest.                                        *)
(*                                                                         *)
(* A link is a pair <<source, target>>.  The time of its last update is    *)
(* abstracted: what is refreshed every second does not grow ten seconds    *)
(* old, what nothing refreshes does.  A cost request and its answer carry  *)
(* only the time of the request, so a measurement is one step, possible    *)
(* while the two are connected: the hello on a connection makes each the   *)
(* other's peer, and a peer is dropped only when nothing comes from it.    *)
(***************************************************************************)
EXTENDS Integers, FiniteSets, Functions

CONSTANTS
  Nodes,
  Cables,            \* the pairs {n, m} of nodes that a channel can connect
  Fragile,           \* the cables that may fail
  Costs(_),          \* the costs that can be measured on a link
  MaxVersion,        \* a bound on MyLinksVersion
  MaxFailures,       \* a bound on the connections that are lost
  NoNode

Links == {l \in Nodes \X Nodes : {l[1], l[2]} \in Cables}

ASSUME LinksAssumption ==
  /\ IsFiniteSet(Nodes)
  /\ NoNode \notin Nodes
  /\ \A c \in Cables : c \subseteq Nodes /\ Cardinality(c) = 2
  /\ \A l \in Links : Costs(l) \subseteq Nat \ {0}
  /\ MaxVersion \in [Nodes -> Nat]
  /\ MaxFailures \in Nat

VARIABLES
  up,        \* the cables that work
  failures,  \* how many connections were lost
  version,   \* MyLinksVersion
  linkSet,   \* LinkSet: a link a node knows, with its cost and version
  expired,   \* keysToDelete of checkOutOfDateLinks, between its two sections
  table,     \* RoutingTable: the next hop for every target
  stuck      \* the nodes whose buildRoutingTable does not end

vars == <<up, failures, version, linkSet, expired, table, stuck>>

Neighbours(n) == {m \in Nodes : {n, m} \in up}

Free(n) == n \notin stuck

\* The map f with v under the key x.
Put(f, x, v) == [y \in DOMAIN f \cup {x} |-> IF y = x THEN v ELSE f[y]]

Init ==
  /\ up = Cables
  /\ failures = 0
  /\ version = [n \in Nodes |-> 0]
  /\ linkSet = [n \in Nodes |-> <<>>]
  /\ expired = [n \in Nodes |-> {}]
  /\ table = [n \in Nodes |-> <<>>]
  /\ stuck = {}

-----------------------------------------------------------------------------
\* Connections.

Disconnect(c) ==
  /\ c \in up \cap Fragile
  /\ failures < MaxFailures
  /\ failures' = failures + 1
  /\ up' = up \ {c}
  /\ UNCHANGED <<version, linkSet, expired, table, stuck>>

Reconnect(c) ==
  /\ c \notin up
  /\ up' = up \cup {c}
  /\ UNCHANGED <<failures, version, linkSet, expired, table, stuck>>

-----------------------------------------------------------------------------
\* Measuring.

\* collectAndCheckPeers: a new version for every round of measurements.
NextRound(n) ==
  /\ version[n] < MaxVersion[n]
  /\ version' = [version EXCEPT ![n] = @ + 1]
  /\ UNCHANGED <<up, failures, linkSet, expired, table, stuck>>

\* A measurement replaces a link of another cost, whatever the versions are; a link of the
\* same cost only moves to a higher version.
Measured(known, l, new) ==
  IF l \notin DOMAIN known \/ known[l].cost # new.cost
  THEN Put(known, l, new)
  ELSE [known EXCEPT ![l].version = IF new.version > @ THEN new.version ELSE @]

\* Mutant: a version is taken before the round it belongs to has begun.
OneAhead(n) == 0..(version[n] + 1)

\* handleCostAck gives the link the version of the moment and hands it to a goroutine of
\* linkUpdateFromChannel, which may run when newer versions have been measured.
MeasuredVersions(n) == 0..version[n]

LinkUpdateFromChannel(n, m) ==
  /\ Free(n)
  /\ m \in Neighbours(n)
  /\ \E c \in Costs(<<n, m>>), v \in MeasuredVersions(n) :
       linkSet' = [linkSet EXCEPT ![n] =
                     Measured(@, <<n, m>>, [cost |-> c, version |-> v])]
  /\ UNCHANGED <<up, failures, version, expired, table, stuck>>

-----------------------------------------------------------------------------
\* Gossip.

\* Mutant: a heartbeat updates links, and brings no new ones.
NewerOfKnown(known, new) ==
  [l \in DOMAIN known |->
     IF l \in DOMAIN new /\ new[l].version > known[l].version THEN new[l] ELSE known[l]]

\* The newer of two versions of a link; the known one if they are equal.
Newer(known, new) ==
  [l \in DOMAIN known \cup DOMAIN new |->
     IF l \in DOMAIN known /\ (l \in DOMAIN new => new[l].version <= known[l].version)
     THEN known[l] ELSE new[l]]

\* A heartbeat with all the links of n and its handling by a neighbour.
Heartbeat(n, m) ==
  /\ Free(n) /\ Free(m)
  /\ m \in Neighbours(n)
  /\ linkSet' = [linkSet EXCEPT ![m] = Newer(@, linkSet[n])]
  /\ UNCHANGED <<up, failures, version, expired, table, stuck>>

-----------------------------------------------------------------------------
\* Forgetting.

\* handleHeartbeat sets LastUpdateTime of every link in a heartbeat, whatever its version.
Refreshed(n, l) ==
  \/ l[1] = n /\ l[2] \in Neighbours(n)
  \/ \E m \in Neighbours(n) : Free(m) /\ l \in DOMAIN linkSet[m]

OutOfDate(n) == {l \in DOMAIN linkSet[n] : ~Refreshed(n, l)}

\* checkOutOfDateLinks looks for old links under the read lock ...
FindOutOfDate(n) ==
  /\ Free(n)
  /\ expired[n] = {}
  /\ \E old \in SUBSET OutOfDate(n) :
       old # {} /\ expired' = [expired EXCEPT ![n] = old]
  /\ UNCHANGED <<up, failures, version, linkSet, table, stuck>>

\* ... and deletes them under the write lock, without another look.
DeleteOutOfDate(n) ==
  /\ Free(n)
  /\ expired[n] # {}
  /\ linkSet' = [linkSet EXCEPT ![n] = Restrict(@, DOMAIN @ \ expired[n])]
  /\ expired' = [expired EXCEPT ![n] = {}]
  /\ UNCHANGED <<up, failures, version, table, stuck>>

-----------------------------------------------------------------------------
\* The routing table.

Targets(n, known) == {n} \cup UNION {{l[1], l[2]} : l \in DOMAIN known}

Far == 1000   \* math.MaxInt64

\* Mutant: any node of the queue, instead of the nearest.
AnyInQueue(s) == {u \in DOMAIN s.dist \ s.visited : s.dist[u] < Far}

\* The nodes heap.Pop may return next.
Nearest(s) ==
  LET queue == {u \in DOMAIN s.dist \ s.visited : s.dist[u] < Far}
  IN  {u \in queue : \A v \in queue : s.dist[u] <= s.dist[v]}

Visit(known, s, u) ==
  LET through(v) == s.dist[u] + known[<<u, v>>].cost
      better == {v \in DOMAIN s.dist \ (s.visited \cup {u}) :
                   <<u, v>> \in DOMAIN known /\ through(v) < s.dist[v]}
  IN  [dist |-> [v \in DOMAIN s.dist |-> IF v \in better THEN through(v) ELSE s.dist[v]],
       prev |-> [v \in DOMAIN s.dist |-> IF v \in better THEN u ELSE s.prev[v]],
       visited |-> s.visited \cup {u}]

\* What the search may end with: nodes at the same distance are visited in any order.
Searches(n, known) ==
  LET targets == Targets(n, known)
      start == [dist |-> [v \in targets |-> IF v = n THEN 0 ELSE Far],
                prev |-> [v \in targets |-> NoNode], visited |-> {}]
      after[k \in 0..Cardinality(Nodes)] ==
        IF k = 0 THEN {start}
        ELSE UNION {IF Nearest(s) = {} THEN {s} ELSE {Visit(known, s, u) : u \in Nearest(s)} :
                      s \in after[k - 1]}
  IN  after[Cardinality(Nodes)]

\* Mutant: no walk back, every target is its own next hop.
Directly(n, s, t) == t

\* The walk back from a target ends at the node after n.
NextHop(n, s, t) ==
  LET back[k \in 0..Cardinality(Nodes)] ==
        IF k = 0 THEN t
        ELSE IF s.prev[back[k - 1]] = n THEN back[k - 1] ELSE s.prev[back[k - 1]]
  IN  back[Cardinality(Nodes)]

Unreached(s) == {t \in DOMAIN s.dist : s.dist[t] = Far}

\* Every target of a link is looked up; for one that was not reached the walk back finds
\* no predecessor and goes on for ever, with LinkSetMutex held.
BuildRoutingTable(n) ==
  /\ Free(n)
  /\ \E s \in Searches(n, linkSet[n]) :
       IF Unreached(s) = {}
       THEN /\ table' = [table EXCEPT ![n] =
                           [t \in DOMAIN s.dist \ {n} |-> NextHop(n, s, t)]]
            /\ stuck' = stuck
       ELSE stuck' = stuck \cup {n} /\ table' = table
  /\ UNCHANGED <<up, failures, version, linkSet, expired>>

-----------------------------------------------------------------------------
Next ==
  \/ \E n, m \in Nodes : LinkUpdateFromChannel(n, m) \/ Heartbeat(n, m)
  \/ \E c \in Cables : Disconnect(c) \/ Reconnect(c)
  \/ \E n \in Nodes : \/ NextRound(n)
                      \/ FindOutOfDate(n)
                      \/ DeleteOutOfDate(n)
                      \/ BuildRoutingTable(n)

Spec == Init /\ [][Next]_vars

\* Every node measures its links and sends heartbeats for as long as it runs.
FairSpec ==
  Spec /\ \A n, m \in Nodes : WF_vars(LinkUpdateFromChannel(n, m)) /\ WF_vars(Heartbeat(n, m))
-----------------------------------------------------------------------------

\* Nobody holds a version of a link that its source has not reached, however late a
\* measurement or a heartbeat is applied; otherwise the source's own measurements would be
\* ignored until it got there.
NobodyAhead ==
  \A n \in Nodes : \A l \in DOMAIN linkSet[n] : linkSet[n][l].version <= version[l[1]]

Walks == UNION {[1..k -> Nodes] : k \in 2..Cardinality(Nodes)}

IsPath(p, known) ==
  \A i \in 1..(Cardinality(DOMAIN p) - 1) : <<p[i], p[i + 1]>> \in DOMAIN known

PathCost(p, known) ==
  LET sum[i \in 1..Cardinality(DOMAIN p)] ==
        IF i = 1 THEN 0 ELSE sum[i - 1] + known[<<p[i - 1], p[i]>>].cost
  IN  sum[Cardinality(DOMAIN p)]

\* What buildRoutingTable finds is the first hop of a cheapest path through the links it
\* knows, in whatever order the heap returns nodes at the same distance.
RoutesAreCheapest ==
  \A n \in Nodes :
    LET known == linkSet[n]
        paths == {p \in Walks : p[1] = n /\ IsPath(p, known)}
        to(t) == {p \in paths : p[Cardinality(DOMAIN p)] = t}
    IN  \A s \in Searches(n, known) : \A t \in DOMAIN s.dist \ (Unreached(s) \cup {n}) :
          \E p \in to(t) : /\ p[2] = NextHop(n, s, t)
                          /\ \A q \in to(t) : PathCost(p, known) <= PathCost(q, known)

\* The tables buildRoutingTable may make of the links a node knows.
Tables(n, known) ==
  {[t \in DOMAIN s.dist \ {n} |-> NextHop(n, s, t)] :
     s \in {r \in Searches(n, known) : Unreached(r) = {}}}

\* Once the nodes agree on the links and build their tables, a message handed from next
\* hop to next hop arrives, over links that sendTo has a channel for: the tables of different
\* nodes form no loop, even where they chose between paths of the same cost.
ForwardingArrives ==
  (\A n, m \in Nodes : linkSet[n] = linkSet[m] /\ Tables(n, linkSet[n]) # {})
  => \A tables \in [Nodes -> UNION {Tables(n, linkSet[n]) : n \in Nodes}] :
       (\A n \in Nodes : tables[n] \in Tables(n, linkSet[n]))
       => \A n \in Nodes : \A t \in DOMAIN tables[n] :
            LET at[k \in 0..Cardinality(Nodes)] ==
                  IF k = 0 THEN n
                  ELSE IF at[k - 1] = t THEN t ELSE tables[at[k - 1]][t]
            IN  /\ at[Cardinality(Nodes)] = t
                /\ <<n, tables[n][t]>> \in DOMAIN linkSet[n]

\* While no connection is lost, every node comes to know links to all the others, from
\* measurements and heartbeats in any order, unless a routing table does not end.
Discovered ==
  up = Cables ~> \/ up # Cables
                 \/ stuck # {}
                 \/ \A n \in Nodes : Targets(n, linkSet[n]) = Nodes
                                    /\ Tables(n, linkSet[n]) # {}
=============================================================================
