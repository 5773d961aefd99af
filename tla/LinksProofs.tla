------------------------------ MODULE LinksProofs ------------------------------
(***************************************************************************)
(* Theorems about the versions of links and the routing tables made of     *)
(* them, for every network, every cost and every value of the bounds.      *)
(***************************************************************************)
EXTENDS Links, FiniteSetTheorems, WellFoundedInduction, TLAPS

-----------------------------------------------------------------------------
\* What a node may know of a link.
LinkInfo == [cost : Nat \ {0}, version : Nat]

\* Any knowledge of links at all.
Knowledge == UNION {[S -> LinkInfo] : S \in SUBSET Links}

\* The types of what a step of the gossip reads and writes.
Types ==
  /\ version \in [Nodes -> Nat]
  /\ linkSet \in [Nodes -> Knowledge]
  /\ expired \in [Nodes -> SUBSET Links]
  /\ up \subseteq Cables

\* No link of a map is ahead of its source, when the sources are at the versions of vs.
Behind(known, vs) == \A l \in DOMAIN known : known[l].version <= vs[l[1]]

LinksInv == Types /\ NobodyAhead

-----------------------------------------------------------------------------
\* A map of links has its links as domain and a cost and a version for each, and
\* conversely.
LEMMA KnowledgeIs ==
  ASSUME NEW known
  PROVE  known \in Knowledge
         <=> /\ known = [l \in DOMAIN known |-> known[l]]
             /\ DOMAIN known \subseteq Links
             /\ \A l \in DOMAIN known : known[l] \in LinkInfo
<1>1. ASSUME known \in Knowledge
      PROVE  /\ known = [l \in DOMAIN known |-> known[l]]
             /\ DOMAIN known \subseteq Links
             /\ \A l \in DOMAIN known : known[l] \in LinkInfo
  <2>1. PICK S \in SUBSET Links : known \in [S -> LinkInfo]
    BY <1>1 DEF Knowledge
  <2> QED
    BY <2>1
<1>2. ASSUME known = [l \in DOMAIN known |-> known[l]],
             DOMAIN known \subseteq Links,
             \A l \in DOMAIN known : known[l] \in LinkInfo
      PROVE  known \in Knowledge
  <2>1. known \in [DOMAIN known -> LinkInfo]
    BY <1>2
  <2> QED
    BY <1>2, <2>1 DEF Knowledge
<1> QED
  BY <1>1, <1>2

\* A function given by an expression for each of its links is known links.
LEMMA KnownLinks ==
  ASSUME NEW S \in SUBSET Links, NEW f \in [S -> LinkInfo]
  PROVE  f \in Knowledge
BY DEF Knowledge

\* Cables connect nodes, so a link goes from a node to a node.
LEMMA EndsAreNodes ==
  ASSUME NEW l \in Links
  PROVE  l[1] \in Nodes /\ l[2] \in Nodes /\ l = <<l[1], l[2]>>
BY DEF Links

\* linkUpdateFromChannel (Node.go): a measurement of a version that its source has reached
\* brings no link ahead, whether it replaces a link or only moves its version.
LEMMA MeasuredBehind ==
  ASSUME NEW known \in Knowledge, NEW vs, Behind(known, vs),
         NEW l \in Links, NEW new \in LinkInfo, new.version <= vs[l[1]]
  PROVE  Measured(known, l, new) \in Knowledge /\ Behind(Measured(known, l, new), vs)
<1>1. /\ DOMAIN known \subseteq Links
      /\ \A k \in DOMAIN known : known[k] \in LinkInfo
  BY KnowledgeIs
<1>2. CASE l \notin DOMAIN known \/ known[l].cost # new.cost
  <2> DEFINE f == [y \in DOMAIN known \cup {l} |-> IF y = l THEN new ELSE known[y]]
  <2>1. Measured(known, l, new) = f
    BY <1>2 DEF Measured, Put
  <2>2. f \in [DOMAIN known \cup {l} -> LinkInfo]
    BY <1>1
  <2>3. f \in Knowledge
    BY <1>1, <2>2, KnownLinks
  <2>4. Behind(f, vs)
    BY DEF Behind
  <2> QED
    BY <2>1, <2>3, <2>4
<1>3. CASE ~(l \notin DOMAIN known \/ known[l].cost # new.cost)
  <2> DEFINE v == IF new.version > known[l].version THEN new.version ELSE known[l].version
             r == [known[l] EXCEPT !.version = v]
             f == [known EXCEPT ![l] = r]
  <2>1. Measured(known, l, new) = f
    BY <1>3 DEF Measured
  <2>2. known[l] \in LinkInfo /\ known[l].version <= vs[l[1]]
    BY <1>1, <1>3 DEF Behind
  <2>3. v \in Nat /\ v <= vs[l[1]]
    BY <2>2 DEF LinkInfo
  <2>4. r \in LinkInfo /\ r.version = v
    BY <2>2, <2>3 DEF LinkInfo
  <2>5. known \in [DOMAIN known -> LinkInfo]
    BY <1>1, KnowledgeIs
  <2> HIDE DEF r, v
  <2>6. f \in [DOMAIN known -> LinkInfo]
    BY <2>4, <2>5
  <2>7. f \in Knowledge
    BY <1>1, <2>6, KnownLinks
  <2>8. Behind(f, vs)
    BY <2>3, <2>4, <2>5 DEF Behind
  <2> QED
    BY <2>1, <2>7, <2>8
<1> QED
  BY <1>2, <1>3

\* handleHeartbeat (Node.go): every link of the outcome is one of the two.
LEMMA NewerBehind ==
  ASSUME NEW known \in Knowledge, NEW new \in Knowledge, NEW vs,
         Behind(known, vs), Behind(new, vs)
  PROVE  Newer(known, new) \in Knowledge /\ Behind(Newer(known, new), vs)
<1>1. /\ DOMAIN known \subseteq Links /\ \A k \in DOMAIN known : known[k] \in LinkInfo
      /\ DOMAIN new \subseteq Links /\ \A k \in DOMAIN new : new[k] \in LinkInfo
  BY KnowledgeIs
<1> DEFINE f == Newer(known, new)
<1>2. DOMAIN f = DOMAIN known \cup DOMAIN new
  BY DEF Newer
<1>3. \A l \in DOMAIN f : \/ l \in DOMAIN known /\ f[l] = known[l]
                          \/ l \in DOMAIN new /\ f[l] = new[l]
  BY DEF Newer
<1>4. f \in [DOMAIN known \cup DOMAIN new -> LinkInfo]
  BY <1>1 DEF Newer
<1>5. f \in Knowledge
  BY <1>1, <1>4, KnownLinks
<1>6. Behind(f, vs)
  BY <1>3 DEF Behind
<1> QED
  BY <1>5, <1>6

\* checkOutOfDateLinks (Node.go) leaves the other links as they are.
LEMMA RestrictBehind ==
  ASSUME NEW known \in Knowledge, NEW vs, Behind(known, vs), NEW S
  PROVE  /\ Restrict(known, DOMAIN known \ S) \in Knowledge
         /\ Behind(Restrict(known, DOMAIN known \ S), vs)
<1>1. /\ DOMAIN known \subseteq Links
      /\ \A k \in DOMAIN known : known[k] \in LinkInfo
  BY KnowledgeIs
<1> DEFINE f == [x \in DOMAIN known \ S |-> known[x]]
<1>2. Restrict(known, DOMAIN known \ S) = f
  BY DEF Restrict
<1>3. f \in [DOMAIN known \ S -> LinkInfo]
  BY <1>1
<1>4. f \in Knowledge
  BY <1>1, <1>3, KnownLinks
<1>5. Behind(f, vs)
  BY DEF Behind
<1> QED
  BY <1>2, <1>4, <1>5

\* NobodyAhead says so of every node's map.
LEMMA AllBehind ==
  /\ NobodyAhead <=> \A n \in Nodes : Behind(linkSet[n], version)
  /\ NobodyAhead' <=> \A n \in Nodes : Behind(linkSet'[n], version')
BY DEF NobodyAhead, Behind

\* A step that replaces one node's map by one with nothing ahead keeps LinksInv.
LEMMA OneMap ==
  ASSUME LinksInv, NEW n \in Nodes, NEW known \in Knowledge, Behind(known, version),
         linkSet' = [linkSet EXCEPT ![n] = known], version' = version,
         up' = up, expired' \in [Nodes -> SUBSET Links]
  PROVE  LinksInv'
<1>1. linkSet \in [Nodes -> Knowledge] /\ up \subseteq Cables /\ version \in [Nodes -> Nat]
  BY DEF LinksInv, Types
<1>2. linkSet' \in [Nodes -> Knowledge]
  BY <1>1
<1>3. Types'
  BY <1>1, <1>2 DEF Types
<1>4. ASSUME NEW k \in Nodes PROVE Behind(linkSet'[k], version')
  <2>1. CASE k = n
    BY <1>1, <2>1
  <2>2. CASE k # n
    BY <1>1, <2>2, AllBehind DEF LinksInv
  <2> QED
    BY <2>1, <2>2
<1> QED
  BY <1>3, <1>4, AllBehind DEF LinksInv

-----------------------------------------------------------------------------
\* In the beginning nobody knows a link.
LEMMA LinksInit == Init => LinksInv
<1> SUFFICES ASSUME Init PROVE LinksInv
  OBVIOUS
<1>1. <<>> \in [{} -> LinkInfo]
  OBVIOUS
<1>2. <<>> \in Knowledge
  BY <1>1, KnownLinks
<1>3. Types
  BY <1>2 DEF Init, Types
<1>4. NobodyAhead
  BY DEF Init, NobodyAhead
<1> QED
  BY <1>3, <1>4 DEF LinksInv

\* A new round only raises versions.
LEMMA RoundInv ==
  ASSUME LinksInv, NEW n \in Nodes, NextRound(n)
  PROVE  LinksInv'
<1>1. version \in [Nodes -> Nat] /\ linkSet \in [Nodes -> Knowledge]
  BY DEF LinksInv, Types
<1>2. version' \in [Nodes -> Nat] /\ \A k \in Nodes : version[k] <= version'[k]
  BY <1>1 DEF NextRound
<1>3. Types'
  BY <1>2 DEF LinksInv, Types, NextRound
<1>4. ASSUME NEW k \in Nodes, NEW l \in DOMAIN linkSet'[k]
      PROVE  linkSet'[k][l].version <= version'[l[1]]
  <2>1. linkSet' = linkSet
    BY DEF NextRound
  <2>2. l \in Links /\ linkSet[k][l] \in LinkInfo
    BY <1>1, <2>1, KnowledgeIs
  <2>3. l[1] \in Nodes /\ linkSet[k][l].version \in Nat
    BY <2>2, EndsAreNodes DEF LinkInfo
  <2>4. linkSet[k][l].version <= version[l[1]]
    BY <2>1 DEF LinksInv, NobodyAhead
  <2> QED
    BY <1>1, <1>2, <2>1, <2>3, <2>4
<1> QED
  BY <1>3, <1>4 DEF LinksInv, NobodyAhead

\* A measurement is of a version between 0 and the present one.
LEMMA MeasureInv ==
  ASSUME LinksInv, NEW n \in Nodes, NEW m \in Nodes, LinkUpdateFromChannel(n, m)
  PROVE  LinksInv'
<1>1. /\ version \in [Nodes -> Nat] /\ linkSet \in [Nodes -> Knowledge]
      /\ up \subseteq Cables /\ expired \in [Nodes -> SUBSET Links]
  BY DEF LinksInv, Types
<1>2. <<n, m>> \in Links
  BY <1>1 DEF LinkUpdateFromChannel, Neighbours, Links
<1>3. PICK c \in Costs(<<n, m>>), v \in 0..version[n] :
        linkSet' = [linkSet EXCEPT ![n] =
                      Measured(@, <<n, m>>, [cost |-> c, version |-> v])]
  BY DEF LinkUpdateFromChannel, MeasuredVersions
<1> DEFINE new == [cost |-> c, version |-> v]
           known == Measured(linkSet[n], <<n, m>>, new)
<1>4. c \in Nat \ {0}
  BY <1>2, LinksAssumption DEF LinksAssumption
<1>5. new \in LinkInfo /\ new.version <= version[<<n, m>>[1]]
  BY <1>1, <1>3, <1>4 DEF LinkInfo
<1>6. linkSet[n] \in Knowledge /\ Behind(linkSet[n], version)
  BY <1>1, AllBehind DEF LinksInv
<1>7. known \in Knowledge /\ Behind(known, version)
  BY <1>2, <1>5, <1>6, MeasuredBehind
<1>8. linkSet' = [linkSet EXCEPT ![n] = known]
  BY <1>3
<1> QED
  BY <1>1, <1>7, <1>8, OneMap DEF LinkUpdateFromChannel

\* A heartbeat brings only what its sender knows.
LEMMA HeartbeatInv ==
  ASSUME LinksInv, NEW n \in Nodes, NEW m \in Nodes, Heartbeat(n, m)
  PROVE  LinksInv'
<1>1. /\ version \in [Nodes -> Nat] /\ linkSet \in [Nodes -> Knowledge]
      /\ expired \in [Nodes -> SUBSET Links]
  BY DEF LinksInv, Types
<1> DEFINE known == Newer(linkSet[m], linkSet[n])
<1>2. /\ linkSet[m] \in Knowledge /\ Behind(linkSet[m], version)
      /\ linkSet[n] \in Knowledge /\ Behind(linkSet[n], version)
  BY <1>1, AllBehind DEF LinksInv
<1>3. known \in Knowledge /\ Behind(known, version)
  BY <1>2, NewerBehind
<1>4. linkSet' = [linkSet EXCEPT ![m] = known]
  BY DEF Heartbeat
<1> QED
  BY <1>1, <1>3, <1>4, OneMap DEF Heartbeat

\* What is deleted is gone, and the rest is as it was.
LEMMA DeleteInv ==
  ASSUME LinksInv, NEW n \in Nodes, DeleteOutOfDate(n)
  PROVE  LinksInv'
<1>1. /\ version \in [Nodes -> Nat] /\ linkSet \in [Nodes -> Knowledge]
      /\ expired \in [Nodes -> SUBSET Links]
  BY DEF LinksInv, Types
<1> DEFINE known == Restrict(linkSet[n], DOMAIN linkSet[n] \ expired[n])
<1>2. linkSet[n] \in Knowledge /\ Behind(linkSet[n], version)
  BY <1>1, AllBehind DEF LinksInv
<1>3. known \in Knowledge /\ Behind(known, version)
  BY <1>2, RestrictBehind
<1>4. linkSet' = [linkSet EXCEPT ![n] = known] /\ expired' \in [Nodes -> SUBSET Links]
  BY <1>1 DEF DeleteOutOfDate
<1> QED
  BY <1>1, <1>3, <1>4, OneMap DEF DeleteOutOfDate

\* The other steps leave the links and their versions alone.
LEMMA OtherInv ==
  ASSUME LinksInv, up' \subseteq Cables, version' = version, linkSet' = linkSet,
         expired' \in [Nodes -> SUBSET Links]
  PROVE  LinksInv'
BY DEF LinksInv, Types, NobodyAhead

\* The links found out of date are links the node knows.
LEMMA FindInv ==
  ASSUME LinksInv, NEW n \in Nodes, FindOutOfDate(n)
  PROVE  LinksInv'
<1>1. linkSet \in [Nodes -> Knowledge] /\ expired \in [Nodes -> SUBSET Links]
      /\ up \subseteq Cables
  BY DEF LinksInv, Types
<1>2. PICK old \in SUBSET OutOfDate(n) : expired' = [expired EXCEPT ![n] = old]
  BY DEF FindOutOfDate
<1>3. DOMAIN linkSet[n] \subseteq Links
  BY <1>1, KnowledgeIs
<1>4. old \subseteq Links
  BY <1>2, <1>3 DEF OutOfDate
<1>5. expired' \in [Nodes -> SUBSET Links]
  BY <1>1, <1>2, <1>4
<1> QED
  BY <1>1, <1>5, OtherInv DEF FindOutOfDate

\* Every step keeps LinksInv.
LEMMA LinksStep == LinksInv /\ [Next]_vars => LinksInv'
<1> SUFFICES ASSUME LinksInv, [Next]_vars PROVE LinksInv'
  OBVIOUS
<1>1. up \subseteq Cables /\ expired \in [Nodes -> SUBSET Links]
  BY DEF LinksInv, Types
<1>2. ASSUME NEW n \in Nodes, NEW m \in Nodes, LinkUpdateFromChannel(n, m) PROVE LinksInv'
  BY <1>2, MeasureInv
<1>3. ASSUME NEW n \in Nodes, NEW m \in Nodes, Heartbeat(n, m) PROVE LinksInv'
  BY <1>3, HeartbeatInv
<1>4. ASSUME NEW c \in Cables, Disconnect(c) PROVE LinksInv'
  BY <1>1, <1>4, OtherInv DEF Disconnect
<1>5. ASSUME NEW c \in Cables, Reconnect(c) PROVE LinksInv'
  BY <1>1, <1>5, OtherInv DEF Reconnect
<1>6. ASSUME NEW n \in Nodes, NextRound(n) PROVE LinksInv'
  BY <1>6, RoundInv
<1>7. ASSUME NEW n \in Nodes, FindOutOfDate(n) PROVE LinksInv'
  BY <1>7, FindInv
<1>8. ASSUME NEW n \in Nodes, DeleteOutOfDate(n) PROVE LinksInv'
  BY <1>8, DeleteInv
<1>9. ASSUME NEW n \in Nodes, BuildRoutingTable(n) PROVE LinksInv'
  BY <1>1, <1>9, OtherInv DEF BuildRoutingTable
<1>10. CASE UNCHANGED vars
  BY <1>1, <1>10, OtherInv DEF vars
<1> QED
  BY <1>2, <1>3, <1>4, <1>5, <1>6, <1>7, <1>8, <1>9, <1>10 DEF Next

\* Nobody holds a version of a link that its source has not reached, for every network,
\* every cost and any number of lost connections: linkUpdateFromChannel and handleHeartbeat
\* (Node.go) apply late measurements and old heartbeats, but never one from the future.
THEOREM NobodyIsAhead == Spec => []NobodyAhead
<1>1. Init => LinksInv
  BY LinksInit
<1>2. LinksInv /\ [Next]_vars => LinksInv'
  BY LinksStep
<1>3. LinksInv => NobodyAhead
  BY DEF LinksInv
<1> QED
  BY <1>1, <1>2, <1>3, PTL DEF Spec

-----------------------------------------------------------------------------
(***************************************************************************)
(* The search of buildRoutingTable (Node.go).                              *)
(***************************************************************************)
\* A set of natural numbers that is not empty has a least element.
LEMMA LeastNatural ==
  ASSUME NEW S \in SUBSET Nat, S # {}
  PROVE  \E m \in S : \A k \in S : m <= k
<1>1. PICK x \in S : \A y \in S : ~(<<y, x>> \in OpToRel(<, Nat))
  BY NatLessThanWellFounded, WFMin
<1>2. \A y \in S : ~ (y < x)
  BY <1>1 DEF OpToRel
<1>3. ASSUME NEW y \in S PROVE x <= y
  <2>1. x \in Nat /\ y \in Nat /\ ~(y < x)
    BY <1>2
  <2> QED
    BY <2>1
<1> QED
  BY <1>3

\* Counting up from a reaches every number up to b.
LEMMA CountingUp ==
  ASSUME NEW a \in Nat, NEW b \in Nat, NEW S, a \in S,
         \A k \in a..(b - 1) : k \in S => k + 1 \in S
  PROVE  a..b \subseteq S
<1> DEFINE missed == {k \in a..b : k \notin S}
<1> SUFFICES ASSUME missed # {} PROVE FALSE
  OBVIOUS
<1>0. missed \in SUBSET Nat
  OBVIOUS
<1>1. PICK m \in missed : \A k \in missed : m <= k
  <2> HIDE DEF missed
  <2> QED
    BY <1>0, LeastNatural
<1>2. m # a /\ m - 1 \in a..(b - 1)
  BY <1>1
<1>3. m - 1 \notin missed
  BY <1>1, <1>2
<1>4. m - 1 \in S
  BY <1>2, <1>3
<1>5. (m - 1) + 1 \in S
  BY <1>2, <1>4
<1> QED
  BY <1>1, <1>2, <1>5

\* f begins with c and goes on as G says.
Iteration(f, a, b, T, c, G) ==
  /\ f \in [a..b -> T] /\ f[a] = c
  /\ \A k \in a..b : k # a => f[k] = G[k][f[k - 1]]

\* A value and a function for every further index make a sequence of values.
LEMMA Iterates ==
  ASSUME NEW a \in Nat, NEW b \in Nat, a <= b, NEW T, NEW c \in T,
         NEW G \in [a..b -> [T -> T]]
  PROVE  \E f : Iteration(f, a, b, T, c, G)
<1> DEFINE good(f, m) == f[a] = c /\ \A k \in (a + 1)..m : f[k] = G[k][f[k - 1]]
           S == {m \in a..b : \E f \in [a..m -> T] : good(f, m)}
<1>1. a \in S
  <2> DEFINE g == [k \in a..a |-> c]
  <2>1. g \in [a..a -> T] /\ good(g, a)
    OBVIOUS
  <2>2. \E f \in [a..a -> T] : good(f, a)
    <3> HIDE DEF g, good
    <3> QED
      BY <2>1
  <2>3. a \in a..b
    OBVIOUS
  <2> QED
    BY <2>2, <2>3
<1>2. ASSUME NEW m \in a..(b - 1), m \in S PROVE m + 1 \in S
  <2>1. PICK f \in [a..m -> T] : good(f, m)
    BY <1>2
  <2> DEFINE g == [k \in a..(m + 1) |-> IF k <= m THEN f[k] ELSE G[m + 1][f[m]]]
  <2>2. m \in a..m /\ m + 1 \in a..b /\ f[m] \in T
    OBVIOUS
  <2>3. G[m + 1] \in [T -> T]
    BY <2>2
  <2>4. G[m + 1][f[m]] \in T
    BY <2>2, <2>3
  <2>5. g \in [a..(m + 1) -> T]
    BY <2>4
  <2>6. g[a] = c
    BY <2>1
  <2>7. ASSUME NEW k \in (a + 1)..(m + 1) PROVE g[k] = G[k][g[k - 1]]
    <3>1. CASE k <= m
      <4>1. k \in (a + 1)..m /\ k - 1 \in a..(m + 1) /\ k - 1 <= m /\ k \in a..(m + 1)
        BY <3>1
      <4>2. g[k] = f[k] /\ g[k - 1] = f[k - 1]
        BY <3>1, <4>1
      <4>3. f[k] = G[k][f[k - 1]]
        BY <2>1, <4>1
      <4> QED
        BY <4>2, <4>3
    <3>2. CASE k = m + 1
      <4>1. /\ m \in a..(m + 1) /\ m <= m /\ m + 1 \in a..(m + 1)
            /\ ~(m + 1 <= m) /\ k - 1 = m
        BY <3>2
      <4> QED
        BY <3>2, <4>1
    <3> QED
      BY <3>1, <3>2
  <2>8. good(g, m + 1)
    BY <2>6, <2>7
  <2>9. \E h \in [a..(m + 1) -> T] : good(h, m + 1)
    <3> HIDE DEF g, good
    <3> QED
      BY <2>5, <2>8
  <2>10. m + 1 \in a..b
    OBVIOUS
  <2> QED
    BY <2>9, <2>10
<1> HIDE DEF S
<1>3. a..b \subseteq S
  BY <1>1, <1>2, CountingUp
<1>4. b \in S
  BY <1>3
<1>5. PICK f \in [a..b -> T] : good(f, b)
  BY <1>4 DEF S
<1>6. \A k \in a..b : k # a => k \in (a + 1)..b
  OBVIOUS
<1>7. Iteration(f, a, b, T, c, G)
  BY <1>5, <1>6 DEF Iteration
<1> QED
  BY <1>7

\* What a search keeps for every node: types.
SearchStates(n, known) ==
  [dist : [Targets(n, known) -> 0..Far],
   prev : [Targets(n, known) -> Nodes \cup {NoNode}],
   visited : SUBSET Targets(n, known)]

\* p leads from n back along prev from u, each node at its distance; all but u are visited.
Branch(n, known, s, u, k, p) ==
  /\ p \in [1..k -> Nodes] /\ p[1] = n /\ p[k] = u
  /\ \A i \in 2..k : /\ p[i] # n /\ p[i] \in DOMAIN s.dist
                     /\ p[i - 1] \in s.visited /\ s.prev[p[i]] = p[i - 1]
                     /\ <<p[i - 1], p[i]>> \in DOMAIN known
                     /\ s.dist[p[i]] = s.dist[p[i - 1]] + known[<<p[i - 1], p[i]>>].cost

\* Visited nodes are no farther than the others.
Ordered(s) ==
  \A u \in s.visited : /\ s.dist[u] < Far
                       /\ \A v \in DOMAIN s.dist \ s.visited : s.dist[u] <= s.dist[v]

\* No link from a visited node is a shortcut.
Relaxed(known, s) ==
  \A u \in s.visited, v \in DOMAIN s.dist :
    <<u, v>> \in DOMAIN known => s.dist[v] <= s.dist[u] + known[<<u, v>>].cost

\* Every node that was reached has its branch.
Branches(n, known, s) ==
  \A u \in DOMAIN s.dist \ {n} :
    s.dist[u] < Far =>
      \E k \in 2..Cardinality(s.visited \cup {u}) : \E p : Branch(n, known, s, u, k, p)

\* The invariant of the search.
SearchInv(n, known, s) ==
  /\ s \in SearchStates(n, known)
  /\ s.dist[n] = 0
  /\ Ordered(s)
  /\ Relaxed(known, s)
  /\ Branches(n, known, s)

\* math.MaxInt64 is a number.
LEMMA FarIsNatural == Far \in Nat
BY DEF Far

\* The targets are nodes, finitely many.
LEMMA TargetsAreNodes ==
  ASSUME NEW n \in Nodes, NEW known \in Knowledge
  PROVE  /\ n \in Targets(n, known) /\ Targets(n, known) \subseteq Nodes
         /\ IsFiniteSet(Nodes) /\ IsFiniteSet(Targets(n, known))
         /\ Cardinality(Nodes) \in Nat
<1>1. DOMAIN known \subseteq Links
  BY KnowledgeIs
<1>2. Targets(n, known) \subseteq Nodes /\ n \in Targets(n, known)
  BY <1>1, EndsAreNodes DEF Targets
<1>3. IsFiniteSet(Nodes)
  BY LinksAssumption DEF LinksAssumption
<1> QED
  BY <1>2, <1>3, FS_Subset, FS_CardinalityType

\* A link between two nodes has a cost.
LEMMA CostsArePositive ==
  ASSUME NEW known \in Knowledge, NEW l \in DOMAIN known
  PROVE  known[l].cost \in Nat /\ known[l].cost > 0
<1>1. known[l] \in LinkInfo
  BY KnowledgeIs
<1> QED
  BY <1>1 DEF LinkInfo

\* What a step of the search does to the distances and predecessors.
LEMMA VisitIs ==
  ASSUME NEW n \in Nodes, NEW known \in Knowledge,
         NEW s \in SearchStates(n, known), NEW u \in Nearest(s)
  PROVE  LET t == Visit(known, s, u)
             cost(v) == known[<<u, v>>].cost
         IN  /\ u \in DOMAIN s.dist \ s.visited /\ s.dist[u] < Far
             /\ \A v \in DOMAIN s.dist \ s.visited : s.dist[u] <= s.dist[v]
             /\ t \in SearchStates(n, known)
             /\ t.visited = s.visited \cup {u}
             /\ \A v \in DOMAIN s.dist :
                  \/ /\ v \notin s.visited \cup {u} /\ <<u, v>> \in DOMAIN known
                     /\ s.dist[u] + cost(v) < s.dist[v]
                     /\ t.dist[v] = s.dist[u] + cost(v) /\ t.prev[v] = u
                  \/ /\ ~ /\ v \notin s.visited \cup {u} /\ <<u, v>> \in DOMAIN known
                          /\ s.dist[u] + cost(v) < s.dist[v]
                     /\ t.dist[v] = s.dist[v] /\ t.prev[v] = s.prev[v]
<1> DEFINE targets == Targets(n, known)
           t == Visit(known, s, u)
           cost(v) == known[<<u, v>>].cost
           better == {v \in DOMAIN s.dist \ (s.visited \cup {u}) :
                        <<u, v>> \in DOMAIN known /\ s.dist[u] + cost(v) < s.dist[v]}
           d == [v \in DOMAIN s.dist |-> IF v \in better THEN s.dist[u] + cost(v) ELSE s.dist[v]]
           q == [v \in DOMAIN s.dist |-> IF v \in better THEN u ELSE s.prev[v]]
<1>1. t = [dist |-> d, prev |-> q, visited |-> s.visited \cup {u}]
  BY DEF Visit
<1>2. /\ s.dist \in [targets -> 0..Far] /\ s.prev \in [targets -> Nodes \cup {NoNode}]
      /\ s.visited \subseteq targets
  BY DEF SearchStates
<1>3. u \in targets \ s.visited /\ s.dist[u] \in 0..Far /\ s.dist[u] < Far
  BY <1>2 DEF Nearest
<1>4. ASSUME NEW v \in targets \ s.visited PROVE s.dist[u] <= s.dist[v]
  <2>1. CASE s.dist[v] < Far
    BY <1>2, <2>1 DEF Nearest
  <2>2. CASE ~(s.dist[v] < Far)
    <3>1. s.dist[v] \in 0..Far
      BY <1>2
    <3> QED
      BY <1>3, <2>2, <3>1, FarIsNatural
  <2> QED
    BY <2>1, <2>2
<1>5. ASSUME NEW v \in better PROVE s.dist[u] + cost(v) \in 0..Far
  <2>1. cost(v) \in Nat
    BY CostsArePositive
  <2>2. s.dist[v] \in 0..Far /\ s.dist[u] + cost(v) < s.dist[v]
    BY <1>2
  <2> HIDE DEF better
  <2> QED
    BY <1>3, <2>1, <2>2, FarIsNatural
<1>6. d \in [targets -> 0..Far]
  BY <1>2, <1>5
<1>7. q \in [targets -> Nodes \cup {NoNode}]
  BY <1>2, <1>3, TargetsAreNodes
<1>8. ASSUME NEW v \in targets
      PROVE  \/ v \in better /\ d[v] = s.dist[u] + cost(v) /\ q[v] = u
             \/ v \notin better /\ d[v] = s.dist[v] /\ q[v] = s.prev[v]
  BY <1>2
<1>9. t \in SearchStates(n, known) /\ t.visited = s.visited \cup {u} /\ t.dist = d /\ t.prev = q
  <2> HIDE DEF d, q
  <2> QED
    BY <1>1, <1>2, <1>3, <1>6, <1>7 DEF SearchStates
<1> HIDE DEF d, q, t
<1> QED
  BY <1>2, <1>3, <1>4, <1>8, <1>9 DEF t

\* It changes nothing of the nodes visited before, nor of the one it visits.
LEMMA VisitLeaves ==
  ASSUME NEW n \in Nodes, NEW known \in Knowledge,
         NEW s \in SearchStates(n, known), NEW u \in Nearest(s),
         NEW v \in DOMAIN s.dist, v \in s.visited \cup {u}
  PROVE  /\ Visit(known, s, u).dist[v] = s.dist[v]
         /\ Visit(known, s, u).prev[v] = s.prev[v]
<1> DEFINE t == Visit(known, s, u)
           improved == /\ v \notin s.visited \cup {u} /\ <<u, v>> \in DOMAIN known
                       /\ s.dist[u] + known[<<u, v>>].cost < s.dist[v]
<1>1. \/ improved /\ t.dist[v] = s.dist[u] + known[<<u, v>>].cost /\ t.prev[v] = u
      \/ ~improved /\ t.dist[v] = s.dist[v] /\ t.prev[v] = s.prev[v]
  BY VisitIs
<1> HIDE DEF t
<1> QED
  BY <1>1 DEF t

\* A visit of the nearest node keeps Ordered: what is improved stays at least as far.
LEMMA VisitOrdered ==
  ASSUME NEW n \in Nodes, NEW known \in Knowledge,
         NEW s, SearchInv(n, known, s), NEW u \in Nearest(s)
  PROVE  Ordered(Visit(known, s, u)) /\ Visit(known, s, u).dist[n] = 0
<1> DEFINE t == Visit(known, s, u)
           cost(v) == known[<<u, v>>].cost
           targets == Targets(n, known)
<1>1. s \in SearchStates(n, known) /\ Ordered(s) /\ s.dist[n] = 0
  BY DEF SearchInv
<1>2. /\ u \in DOMAIN s.dist \ s.visited /\ s.dist[u] < Far
      /\ \A v \in DOMAIN s.dist \ s.visited : s.dist[u] <= s.dist[v]
      /\ t \in SearchStates(n, known)
      /\ t.visited = s.visited \cup {u}
      /\ \A v \in DOMAIN s.dist :
           \/ /\ v \notin s.visited \cup {u} /\ <<u, v>> \in DOMAIN known
              /\ s.dist[u] + cost(v) < s.dist[v]
              /\ t.dist[v] = s.dist[u] + cost(v)
           \/ t.dist[v] = s.dist[v]
  BY <1>1, VisitIs
<1>3. /\ DOMAIN s.dist = targets /\ DOMAIN t.dist = targets /\ s.visited \subseteq targets
      /\ \A v \in targets : s.dist[v] \in 0..Far /\ t.dist[v] \in 0..Far
  BY <1>1, <1>2 DEF SearchStates
<1> HIDE DEF t, targets
<1>4. \A v \in targets : <<u, v>> \in DOMAIN known => cost(v) \in Nat
  BY CostsArePositive
<1>5. \A v \in s.visited \cup {u} : t.dist[v] = s.dist[v] /\ s.dist[v] <= s.dist[u]
  BY <1>1, <1>2, <1>3 DEF Ordered
<1>6. ASSUME NEW v \in targets \ t.visited PROVE s.dist[u] <= t.dist[v]
  <2>1. CASE t.dist[v] = s.dist[v]
    BY <1>2, <1>3, <2>1
  <2>2. CASE <<u, v>> \in DOMAIN known /\ t.dist[v] = s.dist[u] + cost(v)
    BY <1>2, <1>3, <1>4, <2>2
  <2> QED
    BY <1>2, <1>3, <2>1, <2>2
<1>7. ASSUME NEW w \in t.visited
      PROVE  t.dist[w] < Far /\ \A v \in DOMAIN t.dist \ t.visited : t.dist[w] <= t.dist[v]
  <2>1. w \in s.visited \cup {u} /\ t.dist[w] <= s.dist[u] /\ t.dist[w] \in 0..Far
    BY <1>2, <1>3, <1>5
  <2>2. s.dist[u] < Far /\ s.dist[u] \in 0..Far
    BY <1>2, <1>3
  <2> QED
    BY <1>3, <1>6, <2>1, <2>2, FarIsNatural
<1>8. n \in targets
  BY TargetsAreNodes DEF targets
<1>9. t.dist[n] = 0
  <2>1. s.dist[n] = 0 /\ s.dist[u] \in Nat /\ (<<u, n>> \in DOMAIN known => cost(n) \in Nat)
    BY <1>1, <1>2, <1>3, <1>4, <1>8, FarIsNatural
  <2>2. \/ <<u, n>> \in DOMAIN known /\ s.dist[u] + cost(n) < s.dist[n]
        \/ t.dist[n] = s.dist[n]
    BY <1>2, <1>3, <1>8
  <2> QED
    BY <2>1, <2>2
<1> QED
  BY <1>7, <1>9 DEF Ordered, t

\* It keeps Relaxed: the links of the node visited are no shortcuts any more, and the
\* others have not become any, for distances only fall, and not those of visited nodes.
LEMMA VisitRelaxed ==
  ASSUME NEW n \in Nodes, NEW known \in Knowledge,
         NEW s, SearchInv(n, known, s), NEW u \in Nearest(s)
  PROVE  Relaxed(known, Visit(known, s, u))
<1> DEFINE t == Visit(known, s, u)
           cost(v) == known[<<u, v>>].cost
           targets == Targets(n, known)
<1>1. s \in SearchStates(n, known) /\ Ordered(s) /\ Relaxed(known, s)
  BY DEF SearchInv
<1>2. /\ u \in DOMAIN s.dist \ s.visited
      /\ t \in SearchStates(n, known)
      /\ t.visited = s.visited \cup {u}
      /\ \A v \in DOMAIN s.dist :
           \/ /\ v \notin s.visited \cup {u} /\ <<u, v>> \in DOMAIN known
              /\ s.dist[u] + cost(v) < s.dist[v]
              /\ t.dist[v] = s.dist[u] + cost(v)
           \/ /\ ~ /\ v \notin s.visited \cup {u} /\ <<u, v>> \in DOMAIN known
                   /\ s.dist[u] + cost(v) < s.dist[v]
              /\ t.dist[v] = s.dist[v]
  BY <1>1, VisitIs
<1>3. /\ DOMAIN s.dist = targets /\ DOMAIN t.dist = targets /\ s.visited \subseteq targets
      /\ \A v \in targets : s.dist[v] \in 0..Far /\ t.dist[v] \in 0..Far
  BY <1>1, <1>2 DEF SearchStates
<1> HIDE DEF t, targets
<1>4. \A v \in targets : <<u, v>> \in DOMAIN known => cost(v) \in Nat
  BY CostsArePositive
<1>5. ASSUME NEW v \in targets PROVE t.dist[v] <= s.dist[v]
  <2>1. s.dist[v] \in Nat /\ t.dist[v] \in Nat
    BY <1>3, FarIsNatural
  <2>2. \/ s.dist[u] + cost(v) < s.dist[v] /\ t.dist[v] = s.dist[u] + cost(v)
        \/ t.dist[v] = s.dist[v]
    BY <1>2, <1>3
  <2> QED
    BY <2>1, <2>2
<1>6. ASSUME NEW w \in s.visited \cup {u}
      PROVE  /\ t.dist[w] = s.dist[w] /\ s.dist[w] <= s.dist[u]
             /\ s.dist[w] \in Nat /\ s.dist[u] \in Nat
  <2>1. s.dist[w] \in Nat /\ s.dist[u] \in Nat
    BY <1>2, <1>3, FarIsNatural
  <2>2. t.dist[w] = s.dist[w]
    BY <1>2, <1>3
  <2>3. s.dist[w] <= s.dist[u]
    BY <1>1, <1>2, <2>1 DEF Ordered
  <2> QED
    BY <2>1, <2>2, <2>3
<1>7. ASSUME NEW w \in t.visited, NEW v \in targets, <<w, v>> \in DOMAIN known
      PROVE  t.dist[v] <= t.dist[w] + known[<<w, v>>].cost
  <2>1. known[<<w, v>>].cost \in Nat
    BY <1>7, CostsArePositive
  <2>2. CASE w = u /\ v \in s.visited \cup {u}
    <3>1. t.dist[v] <= s.dist[u] /\ t.dist[v] \in Nat /\ t.dist[u] = s.dist[u]
      BY <1>6, <2>2
    <3> QED
      BY <1>6, <2>1, <2>2, <3>1
  <2>3. CASE w = u /\ v \notin s.visited \cup {u}
    <3>1. t.dist[v] <= s.dist[u] + cost(v)
      BY <1>2, <1>3, <1>4, <1>7, <2>3
    <3> QED
      BY <1>6, <2>3, <3>1
  <2>4. CASE w \in s.visited
    <3>1. s.dist[v] <= s.dist[w] + known[<<w, v>>].cost
      BY <1>1, <1>3, <1>7, <2>4 DEF Relaxed
    <3>2. t.dist[w] = s.dist[w] /\ t.dist[v] <= s.dist[v]
      BY <1>5, <1>6, <2>4
    <3> QED
      BY <1>3, <2>1, <2>4, <3>1, <3>2
  <2> QED
    BY <1>2, <2>2, <2>3, <2>4
<1> QED
  BY <1>3, <1>7 DEF Relaxed, t

\* The branch of a node that the visit does not improve stays its branch.
LEMMA BranchStays ==
  ASSUME NEW n \in Nodes, NEW known \in Knowledge,
         NEW s, SearchInv(n, known, s), NEW u \in Nearest(s),
         NEW w \in DOMAIN s.dist, Visit(known, s, u).dist[w] = s.dist[w],
         Visit(known, s, u).prev[w] = s.prev[w],
         NEW k \in Nat, NEW p, Branch(n, known, s, w, k, p)
  PROVE  Branch(n, known, Visit(known, s, u), w, k, p)
<1> DEFINE t == Visit(known, s, u)
<1>1. s \in SearchStates(n, known)
  BY DEF SearchInv
<1>2. /\ t \in SearchStates(n, known) /\ t.visited = s.visited \cup {u}
      /\ \A v \in DOMAIN s.dist \cap s.visited :
           t.dist[v] = s.dist[v] /\ t.prev[v] = s.prev[v]
  BY <1>1, VisitIs, VisitLeaves
<1>3. DOMAIN t.dist = DOMAIN s.dist /\ s.visited \subseteq DOMAIN s.dist
  BY <1>1, <1>2 DEF SearchStates
<1> HIDE DEF t
<1>4. ASSUME NEW i \in 2..k
      PROVE  t.dist[p[i]] = s.dist[p[i]] /\ t.prev[p[i]] = s.prev[p[i]]
  <2>1. CASE i = k
    BY <2>1 DEF Branch, t
  <2>2. CASE i # k
    <3>1. i + 1 \in 2..k /\ (i + 1) - 1 = i
      BY <2>2
    <3>2. p[i] \in s.visited
      BY <3>1 DEF Branch
    <3> QED
      BY <1>2, <1>3, <3>2
  <2> QED
    BY <2>1, <2>2
<1>5. ASSUME NEW i \in 2..k
      PROVE  p[i - 1] \in s.visited /\ t.dist[p[i - 1]] = s.dist[p[i - 1]]
  <2>1. p[i - 1] \in s.visited
    BY DEF Branch
  <2> QED
    BY <1>2, <1>3, <2>1
<1> QED
  BY <1>2, <1>3, <1>4, <1>5 DEF Branch, t

\* The branch of a node that it improves is the one of the node visited, and one link.
LEMMA BranchGrows ==
  ASSUME NEW n \in Nodes, NEW known \in Knowledge,
         NEW s, SearchInv(n, known, s), NEW u \in Nearest(s),
         NEW w \in DOMAIN s.dist \ (s.visited \cup {u, n}), <<u, w>> \in DOMAIN known,
         Visit(known, s, u).dist[w] = s.dist[u] + known[<<u, w>>].cost,
         Visit(known, s, u).prev[w] = u,
         NEW k \in Nat \ {0}, NEW p \in [1..k -> Nodes], p[1] = n, p[k] = u,
         k > 1 => Branch(n, known, s, u, k, p)
  PROVE  \E q : Branch(n, known, Visit(known, s, u), w, k + 1, q)
<1> DEFINE t == Visit(known, s, u)
           q == [i \in 1..(k + 1) |-> IF i <= k THEN p[i] ELSE w]
<1>1. s \in SearchStates(n, known)
  BY DEF SearchInv
<1>2. /\ t \in SearchStates(n, known) /\ t.visited = s.visited \cup {u}
      /\ u \in DOMAIN s.dist
      /\ \A v \in s.visited \cup {u} : v \in DOMAIN s.dist =>
           t.dist[v] = s.dist[v] /\ t.prev[v] = s.prev[v]
  BY <1>1, VisitIs, VisitLeaves
<1>3. /\ DOMAIN t.dist = DOMAIN s.dist /\ s.visited \subseteq DOMAIN s.dist
      /\ DOMAIN s.dist \subseteq Nodes
  BY <1>1, <1>2, TargetsAreNodes DEF SearchStates
<1>4. /\ q \in [1..(k + 1) -> Nodes] /\ q[1] = n /\ q[k + 1] = w /\ q[k] = u
      /\ \A i \in 1..k : q[i] = p[i]
  BY <1>3
<1> HIDE DEF t, q
<1>5. ASSUME NEW i \in 2..(k + 1)
      PROVE  /\ q[i] # n /\ q[i] \in DOMAIN t.dist
             /\ q[i - 1] \in t.visited /\ t.prev[q[i]] = q[i - 1]
             /\ <<q[i - 1], q[i]>> \in DOMAIN known
             /\ t.dist[q[i]] = t.dist[q[i - 1]] + known[<<q[i - 1], q[i]>>].cost
  <2>1. CASE i = k + 1
    <3>1. q[i] = w /\ q[i - 1] = u
      BY <1>4, <2>1
    <3>2. t.dist[u] = s.dist[u]
      BY <1>2
    <3> QED
      BY <1>2, <1>3, <3>1, <3>2 DEF t
  <2>2. CASE i # k + 1
    <3>1. k > 1 /\ i \in 2..k /\ i \in 1..k /\ i - 1 \in 1..k
      BY <2>2
    <3>2. Branch(n, known, s, u, k, p)
      BY <3>1
    <3>3. q[i] = p[i] /\ q[i - 1] = p[i - 1]
      BY <1>4, <3>1
    <3>4. /\ p[i] # n /\ p[i] \in DOMAIN s.dist
          /\ p[i - 1] \in s.visited /\ s.prev[p[i]] = p[i - 1]
          /\ <<p[i - 1], p[i]>> \in DOMAIN known
          /\ s.dist[p[i]] = s.dist[p[i - 1]] + known[<<p[i - 1], p[i]>>].cost
      BY <3>1, <3>2 DEF Branch
    <3>5. p[i] \in s.visited \cup {u}
      <4>1. CASE i = k
        BY <4>1
      <4>2. CASE i # k
        <5>1. i + 1 \in 2..k /\ (i + 1) - 1 = i
          BY <3>1, <4>2
        <5> QED
          BY <3>2, <5>1 DEF Branch
      <4> QED
        BY <4>1, <4>2
    <3>6. /\ t.dist[p[i]] = s.dist[p[i]] /\ t.prev[p[i]] = s.prev[p[i]]
          /\ t.dist[p[i - 1]] = s.dist[p[i - 1]]
      BY <1>2, <1>3, <3>4, <3>5
    <3> QED
      BY <1>2, <1>3, <3>3, <3>4, <3>6
  <2> QED
    BY <2>1, <2>2
<1>6. Branch(n, known, t, w, k + 1, q)
  BY <1>4, <1>5 DEF Branch
<1> QED
  BY <1>6 DEF t

\* It keeps Branches: what is improved continues the branch of the node visited.
LEMMA VisitBranches ==
  ASSUME NEW n \in Nodes, NEW known \in Knowledge,
         NEW s, SearchInv(n, known, s), NEW u \in Nearest(s)
  PROVE  Branches(n, known, Visit(known, s, u))
<1> DEFINE t == Visit(known, s, u)
           seen == s.visited \cup {u}
<1>1. s \in SearchStates(n, known) /\ Branches(n, known, s)
  BY DEF SearchInv
<1>2. /\ t \in SearchStates(n, known) /\ t.visited = seen
      /\ u \in DOMAIN s.dist /\ s.dist[u] < Far
  BY <1>1, VisitIs
<1>3. /\ DOMAIN t.dist = DOMAIN s.dist /\ DOMAIN s.dist \subseteq Nodes /\ IsFiniteSet(DOMAIN s.dist)
      /\ s.visited \subseteq DOMAIN s.dist
  BY <1>1, <1>2, TargetsAreNodes DEF SearchStates
<1>4. SUFFICES ASSUME NEW w \in DOMAIN s.dist \ {n}, t.dist[w] < Far
               PROVE  \E k \in 2..Cardinality(seen \cup {w}) : \E q : Branch(n, known, t, w, k, q)
  BY <1>2, <1>3 DEF Branches
<1>5. /\ IsFiniteSet(seen \cup {w}) /\ Cardinality(seen \cup {w}) \in Nat
      /\ IsFiniteSet(seen) /\ Cardinality(seen) \in Nat
      /\ Cardinality(s.visited \cup {w}) \in Nat
      /\ Cardinality(s.visited \cup {w}) <= Cardinality(seen \cup {w})
  <2>1. /\ seen \cup {w} \in SUBSET DOMAIN s.dist /\ seen \in SUBSET (seen \cup {w})
        /\ s.visited \cup {w} \in SUBSET (seen \cup {w})
    BY <1>2, <1>3
  <2>2. IsFiniteSet(seen \cup {w})
    BY <1>3, <2>1, FS_Subset
  <2> QED
    BY <2>1, <2>2, FS_Subset, FS_CardinalityType
<1> DEFINE improved == /\ w \notin s.visited \cup {u} /\ <<u, w>> \in DOMAIN known
                       /\ s.dist[u] + known[<<u, w>>].cost < s.dist[w]
<1>6. \/ improved /\ t.dist[w] = s.dist[u] + known[<<u, w>>].cost /\ t.prev[w] = u
      \/ ~improved /\ t.dist[w] = s.dist[w] /\ t.prev[w] = s.prev[w]
  BY <1>1, VisitIs
<1>7. CASE ~improved
  <2>1. t.dist[w] = s.dist[w] /\ t.prev[w] = s.prev[w]
    BY <1>6, <1>7
  <2>a. PICK k \in 2..Cardinality(s.visited \cup {w}) : \E p : Branch(n, known, s, w, k, p)
    BY <1>1, <1>4, <2>1 DEF Branches
  <2>2. PICK p : Branch(n, known, s, w, k, p)
    BY <2>a
  <2>3. Branch(n, known, t, w, k, p)
    BY <2>1, <2>2, BranchStays
  <2>4. k \in 2..Cardinality(seen \cup {w})
    BY <1>5
  <2> QED
    BY <2>3, <2>4
<1>8. CASE improved
  <2>1. /\ t.dist[w] = s.dist[u] + known[<<u, w>>].cost /\ t.prev[w] = u
        /\ w \in DOMAIN s.dist \ (s.visited \cup {u, n}) /\ <<u, w>> \in DOMAIN known
    BY <1>6, <1>8
  <2>2. Cardinality(seen \cup {w}) = Cardinality(seen) + 1
    BY <1>5, <2>1, FS_AddElement
  <2>3. CASE u = n
    <3> DEFINE p == [i \in 1..1 |-> n]
    <3>1. p \in [1..1 -> Nodes] /\ p[1] = n /\ p[1] = u
      BY <2>3
    <3>2. 1 \in Nat \ {0} /\ (1 > 1 => Branch(n, known, s, u, 1, p))
      OBVIOUS
    <3>3. \E q : Branch(n, known, t, w, 1 + 1, q)
      <4> HIDE DEF p
      <4> QED
        BY <2>1, <3>1, <3>2, BranchGrows
    <3>4. Cardinality(seen) # 0
      BY <1>5, FS_EmptySet
    <3> QED
      BY <1>5, <2>2, <3>3, <3>4
  <2>4. CASE u # n
    <3>a. PICK k \in 2..Cardinality(s.visited \cup {u}) : \E p : Branch(n, known, s, u, k, p)
      BY <1>1, <1>2, <2>4 DEF Branches
    <3>1. PICK p : Branch(n, known, s, u, k, p)
      BY <3>a
    <3>2. p \in [1..k -> Nodes] /\ p[1] = n /\ p[k] = u
      BY <3>1 DEF Branch
    <3>3. \E q : Branch(n, known, t, w, k + 1, q)
      BY <2>1, <3>1, <3>2, BranchGrows
    <3>4. k + 1 \in 2..Cardinality(seen \cup {w})
      BY <1>5, <2>2
    <3> QED
      BY <3>3, <3>4
  <2> QED
    BY <2>3, <2>4
<1> QED
  BY <1>7, <1>8

\* A visit of a nearest node keeps the invariant.
LEMMA VisitInv ==
  ASSUME NEW n \in Nodes, NEW known \in Knowledge,
         NEW s, SearchInv(n, known, s), NEW u \in Nearest(s)
  PROVE  SearchInv(n, known, Visit(known, s, u))
<1>1. s \in SearchStates(n, known)
  BY DEF SearchInv
<1>2. Visit(known, s, u) \in SearchStates(n, known)
  BY <1>1, VisitIs
<1> QED
  BY <1>2, VisitOrdered, VisitRelaxed, VisitBranches DEF SearchInv

\* The search begins with the node itself at distance 0.
SearchStart(n, known) ==
  [dist |-> [v \in Targets(n, known) |-> IF v = n THEN 0 ELSE Far],
   prev |-> [v \in Targets(n, known) |-> NoNode], visited |-> {}]

\* The invariant holds when the search begins.
LEMMA StartInv ==
  ASSUME NEW n \in Nodes, NEW known \in Knowledge
  PROVE  SearchInv(n, known, SearchStart(n, known))
<1> DEFINE s == SearchStart(n, known)
           d == [v \in Targets(n, known) |-> IF v = n THEN 0 ELSE Far]
           q == [v \in Targets(n, known) |-> NoNode]
<1>1. d \in [Targets(n, known) -> 0..Far] /\ q \in [Targets(n, known) -> Nodes \cup {NoNode}]
  BY FarIsNatural
<1>2. d[n] = 0 /\ \A v \in DOMAIN d \ {n} : d[v] = Far
  BY TargetsAreNodes
<1>3. s \in SearchStates(n, known) /\ s.dist = d /\ s.visited = {}
  <2>1. s = [dist |-> d, prev |-> q, visited |-> {}]
    BY DEF SearchStart
  <2> HIDE DEF s, d, q
  <2> QED
    BY <1>1, <2>1 DEF SearchStates
<1> HIDE DEF s, d
<1>4. Ordered(s) /\ Relaxed(known, s)
  BY <1>3 DEF Ordered, Relaxed
<1>5. Branches(n, known, s)
  BY <1>2, <1>3, FarIsNatural DEF Branches
<1> QED
  BY <1>2, <1>3, <1>4, <1>5 DEF SearchInv, s

\* One more visit of a nearest node, in all the orders there are.
Visits(known, S) ==
  UNION {IF Nearest(s) = {} THEN {s} ELSE {Visit(known, s, u) : u \in Nearest(s)} : s \in S}

\* The states of the search that satisfy its invariant.
GoodSearches(n, known) == {s \in SearchStates(n, known) : SearchInv(n, known, s)}

\* Every order of visits keeps the invariant.
LEMMA VisitsAreGood ==
  ASSUME NEW n \in Nodes, NEW known \in Knowledge, NEW S \in SUBSET GoodSearches(n, known)
  PROVE  Visits(known, S) \in SUBSET GoodSearches(n, known)
<1> SUFFICES ASSUME NEW t \in Visits(known, S) PROVE t \in GoodSearches(n, known)
  OBVIOUS
<1>1. PICK s \in S : t \in IF Nearest(s) = {} THEN {s}
                           ELSE {Visit(known, s, u) : u \in Nearest(s)}
  BY DEF Visits
<1>2. SearchInv(n, known, s)
  BY DEF GoodSearches
<1>3. t = s \/ \E u \in Nearest(s) : t = Visit(known, s, u)
  BY <1>1
<1>4. SearchInv(n, known, t)
  BY <1>2, <1>3, VisitInv
<1> QED
  BY <1>4 DEF GoodSearches, SearchInv

\* There are such sets of states for every number of visits, and Searches is the last.
LEMMA SearchesAre ==
  ASSUME NEW n \in Nodes, NEW known \in Knowledge
  PROVE  \E after \in [0..Cardinality(Nodes) -> SUBSET GoodSearches(n, known)] :
           /\ after[0] = {SearchStart(n, known)}
           /\ \A k \in 1..Cardinality(Nodes) : after[k] = Visits(known, after[k - 1])
           /\ Searches(n, known) = after[Cardinality(Nodes)]
<1> DEFINE N == Cardinality(Nodes)
           T == SUBSET GoodSearches(n, known)
           c == {SearchStart(n, known)}
           step == [X \in T |-> Visits(known, X)]
           G == [k \in 0..N |-> step]
           Is(f) == f = [k \in 0..N |-> IF k = 0 THEN c ELSE Visits(known, f[k - 1])]
           after == CHOOSE f : Is(f)
<1>1. N \in Nat
  BY TargetsAreNodes
<1>2. c \in T
  BY StartInv DEF GoodSearches, SearchInv
<1>3. step \in [T -> T]
  BY VisitsAreGood
<1>4. PICK f : Iteration(f, 0, N, T, c, G)
  <2>1. G \in [0..N -> [T -> T]]
    BY <1>3
  <2>2. 0 \in Nat /\ 0 <= N
    BY <1>1
  <2> HIDE DEF N, T, c, G
  <2> QED
    BY <1>1, <1>2, <2>1, <2>2, Iterates
<1>5. ASSUME NEW k \in 1..N PROVE f[k] = Visits(known, f[k - 1])
  <2>1. G[k] = step /\ k \in 0..N /\ k # 0
    OBVIOUS
  <2>2. k - 1 \in 0..N
    BY <1>1
  <2>3. f[k - 1] \in T
    BY <1>4, <2>2 DEF Iteration
  <2>4. step[f[k - 1]] = Visits(known, f[k - 1])
    BY <2>3
  <2> HIDE DEF G, step
  <2> QED
    BY <1>4, <2>1, <2>4 DEF Iteration
<1> HIDE DEF N, T, c
<1>6. ASSUME NEW k \in 0..N
      PROVE  f[k] = IF k = 0 THEN c ELSE Visits(known, f[k - 1])
  <2>1. CASE k = 0
    BY <1>4, <2>1 DEF Iteration
  <2>2. CASE k # 0
    BY <1>1, <1>5, <2>2
  <2> QED
    BY <2>1, <2>2
<1>7. Is(f)
  BY <1>4, <1>6 DEF Iteration
<1>8. Is(after)
  BY <1>7
<1>9. Searches(n, known) = after[N]
  BY DEF Searches, N, c, SearchStart, Visits
<1> HIDE DEF Is, after
<1>10. /\ DOMAIN after = 0..N
       /\ \A k \in 0..N : after[k] = IF k = 0 THEN c ELSE Visits(known, after[k - 1])
  <2>1. after = [k \in 0..N |-> IF k = 0 THEN c ELSE Visits(known, after[k - 1])]
    BY <1>8 DEF Is
  <2> DEFINE e(k) == IF k = 0 THEN c ELSE Visits(known, after[k - 1])
  <2>2. after = [k \in 0..N |-> e(k)]
    BY <2>1
  <2> HIDE DEF e
  <2>3. DOMAIN after = 0..N /\ \A k \in 0..N : after[k] = e(k)
    BY <2>2
  <2> QED
    BY <2>3 DEF e
<1>11. ASSUME NEW k \in 0..N PROVE after[k] \in T
  <2> DEFINE S == {k_1 \in 0..N : after[k_1] \in T}
  <2>1. 0 \in S
    BY <1>1, <1>2, <1>10
  <2>2. ASSUME NEW i \in 0..(N - 1), i \in S PROVE i + 1 \in S
    <3>1. i + 1 \in 0..N /\ i + 1 # 0 /\ (i + 1) - 1 = i
      BY <1>1
    <3>2. after[i + 1] = Visits(known, after[i])
      BY <1>10, <3>1
    <3>3. Visits(known, after[i]) \in T
      BY <2>2, VisitsAreGood DEF T
    <3> QED
      BY <3>1, <3>2, <3>3
  <2>3. 0..N \subseteq S
    <3> HIDE DEF S
    <3> QED
      BY <1>1, <2>1, <2>2, CountingUp
  <2> QED
    BY <2>3
<1>12. after \in [0..N -> T]
  <2>1. after = [k \in 0..N |-> after[k]]
    BY <1>8 DEF Is
  <2> QED
    BY <1>11, <2>1
<1>13. after[0] = c /\ \A k \in 1..N : after[k] = Visits(known, after[k - 1])
  BY <1>1, <1>10
<1> QED
  BY <1>9, <1>12, <1>13 DEF N, T, c

\* A queue that is not empty has a nearest node.
LEMMA NearestExists ==
  ASSUME NEW n \in Nodes, NEW known \in Knowledge, NEW s \in SearchStates(n, known),
         NEW u \in DOMAIN s.dist \ s.visited, s.dist[u] < Far
  PROVE  Nearest(s) # {}
<1> DEFINE queue == {v \in DOMAIN s.dist \ s.visited : s.dist[v] < Far}
           D == {s.dist[v] : v \in queue}
<1>1. \A v \in DOMAIN s.dist : s.dist[v] \in Nat
  BY FarIsNatural DEF SearchStates
<1>2. D \in SUBSET Nat /\ s.dist[u] \in D
  BY <1>1
<1>3. PICK d \in D : \A e \in D : d <= e
  <2> HIDE DEF D
  <2> QED
    BY <1>2, LeastNatural
<1>4. PICK v \in queue : s.dist[v] = d
  OBVIOUS
<1>5. \A w \in queue : s.dist[v] <= s.dist[w]
  BY <1>3, <1>4
<1>6. v \in Nearest(s)
  <2>1. Nearest(s) = {x \in queue : \A y \in queue : s.dist[x] <= s.dist[y]}
    BY DEF Nearest
  <2> HIDE DEF queue
  <2> QED
    BY <1>5, <2>1
<1> QED
  BY <1>6

\* After as many visits as there are nodes the queue is empty.
LEMMA SearchEnds ==
  ASSUME NEW n \in Nodes, NEW known \in Knowledge, NEW s \in Searches(n, known)
  PROVE  /\ SearchInv(n, known, s)
         /\ \A u \in DOMAIN s.dist : s.dist[u] < Far => u \in s.visited
<1> DEFINE N == Cardinality(Nodes)
           targets == Targets(n, known)
           done(t, k) == Nearest(t) = {} \/ Cardinality(t.visited) = k
<1>1. PICK after \in [0..N -> SUBSET GoodSearches(n, known)] :
        /\ after[0] = {SearchStart(n, known)}
        /\ \A k \in 1..N : after[k] = Visits(known, after[k - 1])
        /\ Searches(n, known) = after[N]
  BY SearchesAre
<1>2. N \in Nat /\ targets \subseteq Nodes /\ IsFiniteSet(targets) /\ IsFiniteSet(Nodes)
  BY TargetsAreNodes
<1> DEFINE S == {k \in 0..N : \A t \in after[k] : done(t, k)}
<1>3. 0 \in S
  <2>1. SearchStart(n, known).visited = {}
    BY DEF SearchStart
  <2>2. Cardinality({}) = 0
    BY FS_EmptySet
  <2>3. \A t \in after[0] : done(t, 0)
    BY <1>1, <2>1, <2>2
  <2>4. 0 \in 0..N
    BY <1>2
  <2> HIDE DEF done
  <2> QED
    BY <2>3, <2>4
<1>4. ASSUME NEW k \in 0..(N - 1), k \in S PROVE k + 1 \in S
  <2>1. /\ k \in 0..N /\ k + 1 \in 1..N /\ k + 1 \in 0..N /\ (k + 1) - 1 = k
        /\ after[k] \subseteq GoodSearches(n, known)
    BY <1>1, <1>2
  <2>2. after[k + 1] = Visits(known, after[k])
    BY <1>1, <2>1
  <2>3. ASSUME NEW t \in after[k + 1] PROVE done(t, k + 1)
    <3>1. PICK r \in after[k] : t \in IF Nearest(r) = {} THEN {r}
                                      ELSE {Visit(known, r, u) : u \in Nearest(r)}
      BY <2>2 DEF Visits
    <3>2. CASE Nearest(r) = {}
      BY <3>1, <3>2
    <3>3. CASE Nearest(r) # {}
      <4>1. PICK u \in Nearest(r) : t = Visit(known, r, u)
        BY <3>1, <3>3
      <4>2. r \in SearchStates(n, known) /\ Cardinality(r.visited) = k
        BY <1>4, <2>1, <3>3 DEF GoodSearches
      <4>3. t.visited = r.visited \cup {u} /\ u \notin r.visited
        BY <4>1, <4>2, VisitIs
      <4>4. r.visited \in SUBSET targets
        BY <4>2 DEF SearchStates
      <4>5. IsFiniteSet(r.visited)
        BY <1>2, <4>4, FS_Subset
      <4> QED
        BY <4>2, <4>3, <4>5, FS_AddElement
    <3> QED
      BY <3>2, <3>3
  <2> HIDE DEF done
  <2> QED
    BY <2>1, <2>3
<1>5. 0..N \subseteq S
  <2> HIDE DEF S, N
  <2> QED
    BY <1>2, <1>3, <1>4, CountingUp
<1>6. done(s, N)
  <2>1. N \in S
    BY <1>2, <1>5
  <2> HIDE DEF done
  <2> QED
    BY <1>1, <2>1
<1>7. s \in GoodSearches(n, known)
  BY <1>1, <1>2
<1>8. SearchInv(n, known, s) /\ s \in SearchStates(n, known)
  BY <1>7 DEF GoodSearches
<1>9. ASSUME NEW u \in DOMAIN s.dist, s.dist[u] < Far, u \notin s.visited
      PROVE  FALSE
  <2>1. Nearest(s) # {}
    BY <1>8, <1>9, NearestExists
  <2>2. Cardinality(s.visited) = N
    BY <1>6, <2>1
  <2>3. s.visited \in SUBSET Nodes /\ u \in Nodes
    BY <1>2, <1>8, <1>9 DEF SearchStates
  <2>4. s.visited = Nodes
    BY <1>2, <2>2, <2>3, FS_Subset
  <2> QED
    BY <1>9, <2>3, <2>4
<1> QED
  BY <1>8, <1>9

\* The walk back from a node that was reached ends at the second node of its branch.
LEMMA WalkBack ==
  ASSUME NEW n \in Nodes, NEW known \in Knowledge, NEW s, NEW t,
         NEW k \in 2..Cardinality(Nodes), NEW p, Branch(n, known, s, t, k, p)
  PROVE  NextHop(n, s, t) = p[2]
<1> DEFINE N == Cardinality(Nodes)
           Is(b) == b = [j \in 0..N |->
                           IF j = 0 THEN t
                           ELSE IF s.prev[b[j - 1]] = n THEN b[j - 1] ELSE s.prev[b[j - 1]]]
           back == CHOOSE b : Is(b)
           at(j) == IF k - j >= 2 THEN p[k - j] ELSE p[2]
           f == [j \in 0..N |-> at(j)]
<1>1. N \in Nat /\ k \in Nat /\ k >= 2 /\ k <= N
  BY TargetsAreNodes
<1>2. /\ p[1] = n /\ p[k] = t
      /\ \A i \in 2..k : p[i] # n /\ s.prev[p[i]] = p[i - 1]
  BY DEF Branch
<1> HIDE DEF N
<1>3. at(0) = t
  BY <1>1, <1>2
<1>4. ASSUME NEW j \in 0..N, j # 0
      PROVE  at(j) = IF s.prev[at(j - 1)] = n THEN at(j - 1) ELSE s.prev[at(j - 1)]
  <2>1. CASE k - j >= 2
    <3>0. /\ k - (j - 1) = k - j + 1 /\ k - (j - 1) >= 2 /\ (k - j + 1) - 1 = k - j
          /\ k - j + 1 \in 2..k /\ k - j \in 2..k
      BY <1>1, <1>4, <2>1
    <3>1. at(j) = p[k - j] /\ at(j - 1) = p[k - j + 1]
      BY <2>1, <3>0
    <3>2. s.prev[p[k - j + 1]] = p[k - j] /\ p[k - j] # n
      BY <1>2, <3>0
    <3> QED
      BY <3>0, <3>1, <3>2
  <2>2. CASE ~(k - j >= 2)
    <3>1. at(j) = p[2] /\ at(j - 1) = p[2]
      <4>1. k - (j - 1) = 2 \/ ~(k - (j - 1) >= 2)
        BY <1>1, <1>4, <2>2
      <4> QED
        BY <2>2, <4>1
    <3>2. 2 \in 2..k /\ 2 - 1 = 1
      BY <1>1
    <3>3. s.prev[p[2]] = n
      BY <1>2, <3>2
    <3> QED
      BY <3>1, <3>3
  <2> QED
    BY <2>1, <2>2
<1> HIDE DEF at
<1>5. Is(f)
  <2>1. ASSUME NEW j \in 0..N
        PROVE  at(j) = IF j = 0 THEN t
                       ELSE IF s.prev[f[j - 1]] = n THEN f[j - 1] ELSE s.prev[f[j - 1]]
    <3>1. CASE j = 0
      BY <1>3, <3>1
    <3>2. CASE j # 0
      <4>1. j - 1 \in 0..N
        BY <1>1, <3>2
      <4>2. f[j - 1] = at(j - 1)
        BY <4>1
      <4> QED
        BY <1>4, <3>2, <4>2
    <3> QED
      BY <3>1, <3>2
  <2> QED
    BY <2>1
<1>6. Is(back)
  BY <1>5
<1>7. NextHop(n, s, t) = back[N]
  BY DEF NextHop, N
<1> HIDE DEF back
<1> DEFINE next(x) == IF s.prev[x] = n THEN x ELSE s.prev[x]
<1>8. back[0] = t /\ \A j \in 0..N : j # 0 => back[j] = next(back[j - 1])
  <2> DEFINE e(j) == IF j = 0 THEN t ELSE next(back[j - 1])
  <2>1. back = [j \in 0..N |-> e(j)]
    BY <1>6
  <2> HIDE DEF e
  <2>2. \A j \in 0..N : back[j] = e(j)
    BY <2>1
  <2> QED
    BY <1>1, <2>2 DEF e
<1> DEFINE S == {j \in 0..N : back[j] = at(j)}
<1>9. 0 \in S
  BY <1>1, <1>3, <1>8
<1>10. ASSUME NEW j \in 0..(N - 1), j \in S PROVE j + 1 \in S
  <2>1. j + 1 \in 0..N /\ j + 1 # 0 /\ (j + 1) - 1 = j
    BY <1>1
  <2>2. back[j + 1] = next(back[j])
    BY <1>8, <2>1
  <2>3. at(j + 1) = next(at(j))
    BY <1>4, <2>1
  <2> QED
    BY <1>10, <2>1, <2>2, <2>3
<1>11. 0..N \subseteq S
  <2> HIDE DEF S
  <2> QED
    BY <1>1, <1>9, <1>10, CountingUp
<1>12. back[N] = at(N)
  BY <1>1, <1>11
<1>13. at(N) = p[2]
  BY <1>1 DEF at
<1> QED
  BY <1>7, <1>12, <1>13

-----------------------------------------------------------------------------
(***************************************************************************)
(* The cost of paths.                                                      *)
(***************************************************************************)
\* g is what a path costs up to each of its nodes.
Costing(p, known, k, g) ==
  /\ g \in [1..k -> Nat] /\ g[1] = 0
  /\ \A i \in 2..k : g[i] = g[i - 1] + known[<<p[i - 1], p[i]>>].cost

\* A path follows links that are known.
Path(p, known, k) ==
  p \in [1..k -> Nodes] /\ \A i \in 2..k : <<p[i - 1], p[i]>> \in DOMAIN known

\* IsPath says the same, by the cardinality of the domain.
LEMMA PathsAre ==
  ASSUME NEW k \in Nat, NEW known, NEW p \in [1..k -> Nodes]
  PROVE  Cardinality(DOMAIN p) = k /\ (IsPath(p, known) <=> Path(p, known, k))
<1>1. DOMAIN p = 1..k /\ Cardinality(1..k) = k
  <2>1. 1 \in Int /\ k \in Int
    OBVIOUS
  <2>2. Cardinality(1..k) = IF 1 > k THEN 0 ELSE k - 1 + 1
    BY <2>1, FS_Interval
  <2> QED
    BY <2>2
<1>2. ASSUME IsPath(p, known), NEW i \in 2..k PROVE <<p[i - 1], p[i]>> \in DOMAIN known
  <2>1. i - 1 \in 1..(k - 1) /\ (i - 1) + 1 = i
    OBVIOUS
  <2> QED
    BY <1>1, <1>2, <2>1 DEF IsPath
<1>3. ASSUME Path(p, known, k), NEW i \in 1..(k - 1) PROVE <<p[i], p[i + 1]>> \in DOMAIN known
  <2>1. i + 1 \in 2..k /\ (i + 1) - 1 = i
    OBVIOUS
  <2> QED
    BY <1>3, <2>1 DEF Path
<1> QED
  BY <1>1, <1>2, <1>3 DEF IsPath, Path

\* PathCost is the last of the sums.
LEMMA PathCosts ==
  ASSUME NEW known \in Knowledge, NEW k \in Nat \ {0}, NEW p, Path(p, known, k)
  PROVE  \E g : Costing(p, known, k, g) /\ PathCost(p, known) = g[k]
<1> DEFINE cost(i) == known[<<p[i - 1], p[i]>>].cost
           Is(f) == f = [i \in 1..k |-> IF i = 1 THEN 0 ELSE f[i - 1] + cost(i)]
           sum == CHOOSE f : Is(f)
           G == [i \in 1..k |-> [x \in Nat |-> IF i = 1 THEN 0 ELSE x + cost(i)]]
<1>1. Cardinality(DOMAIN p) = k
  BY PathsAre DEF Path
<1>2. \A i \in 1..k : i # 1 => cost(i) \in Nat
  <2> SUFFICES ASSUME NEW i \in 1..k, i # 1 PROVE cost(i) \in Nat
    OBVIOUS
  <2>1. i \in 2..k
    OBVIOUS
  <2> QED
    BY <2>1, CostsArePositive DEF Path
<1>3. PathCost(p, known) = sum[k]
  BY <1>1 DEF PathCost
<1> HIDE DEF cost
<1>4. PICK f : Iteration(f, 1, k, Nat, 0, G)
  <2>1. G \in [1..k -> [Nat -> Nat]]
    BY <1>2
  <2>2. 1 \in Nat /\ k \in Nat /\ 1 <= k /\ 0 \in Nat
    OBVIOUS
  <2> HIDE DEF G
  <2> QED
    BY <2>1, <2>2, Iterates
<1>5. f \in [1..k -> Nat] /\ f[1] = 0 /\ \A i \in 1..k : i # 1 => f[i] = G[i][f[i - 1]]
  BY <1>4 DEF Iteration
<1>6. ASSUME NEW i \in 1..k, i # 1 PROVE f[i] = f[i - 1] + cost(i)
  <2>1. i - 1 \in 1..k
    BY <1>6
  <2>2. f[i - 1] \in Nat
    BY <1>5, <2>1
  <2>3. G[i][f[i - 1]] = f[i - 1] + cost(i)
    BY <1>6, <2>2
  <2> HIDE DEF G
  <2> QED
    BY <1>5, <1>6, <2>3
<1>7. Is(f)
  BY <1>5, <1>6
<1>8. Is(sum)
  BY <1>7
<1> HIDE DEF sum
<1>9. /\ sum = [i \in 1..k |-> sum[i]]
      /\ \A i \in 1..k : sum[i] = IF i = 1 THEN 0 ELSE sum[i - 1] + cost(i)
  <2> DEFINE e(i) == IF i = 1 THEN 0 ELSE sum[i - 1] + cost(i)
  <2>1. sum = [i \in 1..k |-> e(i)]
    BY <1>8
  <2> HIDE DEF e
  <2>2. sum = [i \in 1..k |-> sum[i]] /\ \A i \in 1..k : sum[i] = e(i)
    BY <2>1
  <2> QED
    BY <2>2 DEF e
<1> DEFINE S == {i \in 1..k : sum[i] \in Nat}
<1>10. 1 \in S
  <2>1. 1 \in 1..k /\ 0 \in Nat
    OBVIOUS
  <2> QED
    BY <1>9, <2>1
<1>11. ASSUME NEW i \in 1..(k - 1), i \in S PROVE i + 1 \in S
  <2>1. i + 1 \in 1..k /\ i + 1 # 1 /\ (i + 1) - 1 = i
    OBVIOUS
  <2>2. sum[i + 1] = sum[i] + cost(i + 1)
    BY <1>9, <2>1
  <2> QED
    BY <1>2, <1>11, <2>1, <2>2
<1>12. 1..k \subseteq S
  <2> HIDE DEF S
  <2> QED
    BY <1>10, <1>11, CountingUp
<1>13. sum \in [1..k -> Nat]
  BY <1>9, <1>12
<1>14. sum[1] = 0 /\ \A i \in 2..k : sum[i] = sum[i - 1] + cost(i)
  <2>1. 1 \in 1..k /\ \A i \in 2..k : i \in 1..k /\ i # 1
    OBVIOUS
  <2> QED
    BY <1>9, <2>1
<1>15. Costing(p, known, k, sum)
  BY <1>13, <1>14 DEF Costing, cost
<1> QED
  BY <1>3, <1>15

\* No path is shorter than the distance the search ends with.
LEMMA NoShorterPath ==
  ASSUME NEW n \in Nodes, NEW known \in Knowledge, NEW s \in Searches(n, known),
         NEW k \in Nat \ {0}, NEW q, Path(q, known, k), q[1] = n,
         NEW g, Costing(q, known, k, g)
  PROVE  q[k] \in DOMAIN s.dist /\ s.dist[q[k]] <= g[k]
<1> DEFINE targets == Targets(n, known)
           S == {i \in 1..k : q[i] \in targets /\ s.dist[q[i]] <= g[i]}
<1>1. /\ s \in SearchStates(n, known) /\ s.dist[n] = 0 /\ Relaxed(known, s)
      /\ \A u \in DOMAIN s.dist : s.dist[u] < Far => u \in s.visited
  BY SearchEnds DEF SearchInv
<1>2. DOMAIN s.dist = targets /\ \A u \in targets : s.dist[u] \in 0..Far
  BY <1>1 DEF SearchStates
<1>3. 1 \in S
  <2>1. 1 \in 1..k /\ n \in targets /\ g[1] = 0
    BY TargetsAreNodes DEF Costing
  <2> HIDE DEF targets
  <2> QED
    BY <1>1, <2>1
<1>4. ASSUME NEW i \in 1..(k - 1), i \in S PROVE i + 1 \in S
  <2> DEFINE u == q[i]
             v == q[i + 1]
             c == known[<<u, v>>].cost
  <2>1. i + 1 \in 2..k /\ i + 1 \in 1..k /\ (i + 1) - 1 = i /\ i \in 1..k
    OBVIOUS
  <2>2. <<u, v>> \in DOMAIN known
    BY <2>1 DEF Path
  <2>3. v \in targets
    BY <2>2 DEF Targets
  <2>4. g[i + 1] = g[i] + c /\ g[i] \in Nat
    BY <2>1 DEF Costing
  <2>5. c \in Nat
    BY <2>2, CostsArePositive
  <2>6. u \in targets /\ s.dist[u] <= g[i] /\ s.dist[u] \in 0..Far /\ s.dist[v] \in 0..Far
    BY <1>2, <1>4, <2>3
  <2>7. s.dist[v] <= g[i] + c
    <3>1. CASE s.dist[u] < Far
      <4>1. s.dist[v] <= s.dist[u] + c
        BY <1>1, <1>2, <2>2, <2>3, <2>6, <3>1 DEF Relaxed
      <4> HIDE DEF u, v, c
      <4> QED
        BY <2>4, <2>5, <2>6, <4>1, FarIsNatural
    <3>2. CASE ~(s.dist[u] < Far)
      <4> HIDE DEF u, v, c
      <4> QED
        BY <2>4, <2>5, <2>6, <3>2, FarIsNatural
    <3> QED
      BY <3>1, <3>2
  <2> QED
    BY <2>1, <2>3, <2>4, <2>7
<1>5. 1..k \subseteq S
  <2> HIDE DEF S
  <2> QED
    BY <1>3, <1>4, CountingUp
<1>6. k \in S
  BY <1>5
<1> QED
  BY <1>2, <1>6

\* The branch of a node costs its distance.
LEMMA BranchCost ==
  ASSUME NEW n \in Nodes, NEW known \in Knowledge, NEW s, s.dist[n] = 0, NEW u,
         NEW k \in Nat \ {0}, NEW p, Branch(n, known, s, u, k, p),
         NEW g, Costing(p, known, k, g)
  PROVE  \A i \in 1..k : g[i] = s.dist[p[i]]
<1> DEFINE S == {i \in 1..k : g[i] = s.dist[p[i]]}
<1>1. 1 \in S
  BY DEF Branch, Costing
<1>2. ASSUME NEW i \in 1..(k - 1), i \in S PROVE i + 1 \in S
  <2>1. i + 1 \in 2..k /\ i + 1 \in 1..k /\ (i + 1) - 1 = i
    OBVIOUS
  <2>2. g[i + 1] = g[i] + known[<<p[i], p[i + 1]>>].cost
    BY <2>1 DEF Costing
  <2>3. s.dist[p[i + 1]] = s.dist[p[i]] + known[<<p[i], p[i + 1]>>].cost
    BY <2>1 DEF Branch
  <2> QED
    BY <1>2, <2>1, <2>2, <2>3
<1>3. 1..k \subseteq S
  <2> HIDE DEF S
  <2> QED
    BY <1>1, <1>2, CountingUp
<1> QED
  BY <1>3

\* Every node that the search reaches has a branch with at most all the nodes on it, which
\* costs its distance and begins with the next hop.
LEMMA BranchFound ==
  ASSUME NEW n \in Nodes, NEW known \in Knowledge, NEW s \in Searches(n, known),
         NEW t \in DOMAIN s.dist \ (Unreached(s) \cup {n})
  PROVE  \E k \in 2..Cardinality(Nodes) : \E p :
           Branch(n, known, s, t, k, p) /\ Path(p, known, k) /\ p[2] = NextHop(n, s, t)
<1>1. SearchInv(n, known, s) /\ s \in SearchStates(n, known)
  BY SearchEnds DEF SearchInv
<1>2. s.dist[t] < Far
  <2>1. s.dist[t] \in 0..Far /\ s.dist[t] # Far
    BY <1>1 DEF SearchStates, Unreached
  <2> QED
    BY <2>1, FarIsNatural
<1>a. PICK k \in 2..Cardinality(s.visited \cup {t}) : \E p : Branch(n, known, s, t, k, p)
  BY <1>1, <1>2 DEF SearchInv, Branches
<1>3. PICK p : Branch(n, known, s, t, k, p)
  BY <1>a
<1>4. /\ IsFiniteSet(Nodes) /\ s.visited \cup {t} \in SUBSET Nodes
      /\ Cardinality(Nodes) \in Nat
  BY <1>1, TargetsAreNodes DEF SearchStates
<1>5. /\ Cardinality(s.visited \cup {t}) <= Cardinality(Nodes)
      /\ Cardinality(s.visited \cup {t}) \in Nat
  BY <1>4, FS_Subset, FS_CardinalityType
<1>6. k \in 2..Cardinality(Nodes)
  BY <1>4, <1>5
<1>7. Path(p, known, k)
  BY <1>3 DEF Branch, Path
<1>8. p[2] = NextHop(n, s, t)
  BY <1>3, <1>6, WalkBack
<1> QED
  BY <1>3, <1>6, <1>7, <1>8

\* buildRoutingTable (Node.go) gives every target it reaches the first hop of a cheapest
\* path through the links the node knows, for every network, every cost and every order
\* in which the heap returns nodes at the same distance.
THEOREM RoutesCheapest == Spec => []RoutesAreCheapest
<1>1. LinksInv => RoutesAreCheapest
  <2> SUFFICES ASSUME LinksInv, NEW n \in Nodes, NEW s \in Searches(n, linkSet[n]),
                      NEW t \in DOMAIN s.dist \ (Unreached(s) \cup {n})
               PROVE  LET known == linkSet[n]
                          paths == {p \in Walks : p[1] = n /\ IsPath(p, known)}
                          to == {p \in paths : p[Cardinality(DOMAIN p)] = t}
                      IN  \E p \in to : /\ p[2] = NextHop(n, s, t)
                                        /\ \A q \in to : PathCost(p, known) <= PathCost(q, known)
    BY DEF RoutesAreCheapest
  <2> DEFINE known == linkSet[n]
             paths == {p \in Walks : p[1] = n /\ IsPath(p, known)}
             to == {p \in paths : p[Cardinality(DOMAIN p)] = t}
  <2>1. known \in Knowledge
    BY DEF LinksInv, Types
  <2> HIDE DEF known
  <2>2. s \in Searches(n, known)
    BY DEF known
  <2>a. PICK k \in 2..Cardinality(Nodes) :
            \E p : Branch(n, known, s, t, k, p) /\ Path(p, known, k) /\ p[2] = NextHop(n, s, t)
    BY <2>1, <2>2, BranchFound
  <2>3. PICK p : Branch(n, known, s, t, k, p) /\ Path(p, known, k) /\ p[2] = NextHop(n, s, t)
    BY <2>a
  <2>4. k \in Nat \ {0} /\ p \in [1..k -> Nodes] /\ p[1] = n /\ p[k] = t
    BY <2>3 DEF Branch
  <2>5. p \in to
    <3>1. p \in Walks
      BY <2>4 DEF Walks
    <3>2. IsPath(p, known) /\ Cardinality(DOMAIN p) = k
      BY <2>3, <2>4, PathsAre
    <3> QED
      BY <2>4, <3>1, <3>2
  <2>6. PathCost(p, known) = s.dist[t]
    <3>1. PICK g : Costing(p, known, k, g) /\ PathCost(p, known) = g[k]
      BY <2>1, <2>3, <2>4, PathCosts
    <3>2. s.dist[n] = 0
      BY <2>1, <2>2, SearchEnds DEF SearchInv
    <3>3. \A i \in 1..k : g[i] = s.dist[p[i]]
      <4>1. Branch(n, known, s, t, k, p) /\ Costing(p, known, k, g) /\ k \in Nat \ {0}
        BY <2>3, <2>4, <3>1
      <4> QED
        BY <2>1, <3>2, <4>1, BranchCost
    <3> QED
      BY <2>4, <3>1, <3>3
  <2>7. ASSUME NEW q \in to PROVE s.dist[t] <= PathCost(q, known)
    <3>1. PICK j \in 2..Cardinality(Nodes) : q \in [1..j -> Nodes]
      BY DEF Walks
    <3>2. j \in Nat \ {0}
      OBVIOUS
    <3>3. Path(q, known, j) /\ q[1] = n /\ q[j] = t
      BY <3>1, <3>2, PathsAre
    <3>4. PICK g : Costing(q, known, j, g) /\ PathCost(q, known) = g[j]
      BY <2>1, <3>2, <3>3, PathCosts
    <3> QED
      BY <2>1, <2>2, <3>2, <3>3, <3>4, NoShorterPath
  <2> HIDE DEF to
  <2>8. \E r \in to : /\ r[2] = NextHop(n, s, t)
                      /\ \A q \in to : PathCost(r, known) <= PathCost(q, known)
    BY <2>3, <2>5, <2>6, <2>7
  <2> QED
    BY <2>8 DEF known, to
<1>2. Init => LinksInv
  BY LinksInit
<1>3. LinksInv /\ [Next]_vars => LinksInv'
  BY LinksStep
<1> QED
  BY <1>1, <1>2, <1>3, PTL DEF Spec

-----------------------------------------------------------------------------
(***************************************************************************)
(* Forwarding from next hop to next hop.                                   *)
(***************************************************************************)
\* The search of the next hop ends with a smaller distance to the target.
LEMMA NextHopIsNearer ==
  ASSUME NEW n \in Nodes, NEW known \in Knowledge, NEW s \in Searches(n, known),
         NEW t \in DOMAIN s.dist \ (Unreached(s) \cup {n})
  PROVE  /\ NextHop(n, s, t) \in Nodes /\ <<n, NextHop(n, s, t)>> \in DOMAIN known
         /\ \A r \in Searches(NextHop(n, s, t), known) :
              t \in DOMAIN r.dist /\ r.dist[t] < s.dist[t]
<1>a. PICK k \in 2..Cardinality(Nodes) :
          \E p : Branch(n, known, s, t, k, p) /\ Path(p, known, k) /\ p[2] = NextHop(n, s, t)
  BY BranchFound
<1>1. PICK p : Branch(n, known, s, t, k, p) /\ Path(p, known, k) /\ p[2] = NextHop(n, s, t)
  BY <1>a
<1>2. k \in Nat \ {0} /\ p \in [1..k -> Nodes] /\ p[1] = n /\ p[k] = t /\ 2 \in 2..k
  BY <1>1 DEF Branch
<1> DEFINE h == NextHop(n, s, t)
           q == [i \in 1..(k - 1) |-> p[i + 1]]
           first == known[<<n, h>>].cost
<1>3. h \in Nodes /\ <<n, h>> \in DOMAIN known
  <2>1. p[2] \in Nodes
    BY <1>2
  <2>2. <<p[2 - 1], p[2]>> \in DOMAIN known
    BY <1>1, <1>2 DEF Path
  <2> QED
    BY <1>1, <1>2, <2>1, <2>2
<1>4. first \in Nat /\ first > 0
  BY <1>3, CostsArePositive
<1>5. k - 1 \in Nat \ {0}
  OBVIOUS
<1>6. Path(q, known, k - 1) /\ q[1] = h /\ q[k - 1] = t
  <2>1. \A i \in 1..(k - 1) : q[i] = p[i + 1] /\ i + 1 \in 1..k
    OBVIOUS
  <2>2. q \in [1..(k - 1) -> Nodes]
    BY <1>2
  <2>3. 1 \in 1..(k - 1) /\ k - 1 \in 1..(k - 1) /\ 1 + 1 = 2 /\ (k - 1) + 1 = k
    OBVIOUS
  <2> HIDE DEF q
  <2>4. ASSUME NEW i \in 2..(k - 1) PROVE <<q[i - 1], q[i]>> \in DOMAIN known
    <3>1. /\ i \in 1..(k - 1) /\ i - 1 \in 1..(k - 1) /\ (i - 1) + 1 = i
          /\ i + 1 \in 2..k /\ (i + 1) - 1 = i
      OBVIOUS
    <3>2. q[i - 1] = p[i] /\ q[i] = p[i + 1]
      BY <2>1, <3>1
    <3> QED
      BY <1>1, <3>1, <3>2 DEF Path
  <2> QED
    BY <1>1, <1>2, <2>1, <2>2, <2>3, <2>4 DEF Path
<1>7. PICK g : Costing(p, known, k, g)
  BY <1>1, <1>2, PathCosts
<1>8. PICK f : Costing(q, known, k - 1, f)
  BY <1>5, <1>6, PathCosts
<1>9. g[k] = s.dist[t]
  <2>1. s.dist[n] = 0
    BY SearchEnds DEF SearchInv
  <2>2. \A i \in 1..k : g[i] = s.dist[p[i]]
    <3>1. Branch(n, known, s, t, k, p) /\ Costing(p, known, k, g) /\ k \in Nat \ {0}
      BY <1>1, <1>2, <1>7
    <3> QED
      BY <2>1, <3>1, BranchCost
  <2> QED
    BY <1>2, <2>2
<1> DEFINE S == {i \in 1..(k - 1) : f[i] + first = g[i + 1]}
<1>10. 1 \in S
  <2>1. g[2] = g[2 - 1] + known[<<p[2 - 1], p[2]>>].cost
    BY <1>2, <1>7 DEF Costing
  <2>2. g[1] = 0 /\ f[1] = 0 /\ 2 - 1 = 1 /\ 1 + 1 = 2 /\ 1 \in 1..(k - 1)
    BY <1>5, <1>7, <1>8 DEF Costing
  <2>3. g[2] = 0 + first
    BY <1>1, <1>2, <2>1, <2>2
  <2> HIDE DEF first
  <2> QED
    BY <2>2, <2>3
<1>11. ASSUME NEW i \in 1..((k - 1) - 1), i \in S PROVE i + 1 \in S
  <2>1. /\ i + 1 \in 2..(k - 1) /\ (i + 1) - 1 = i /\ i + 1 \in 1..(k - 1) /\ i \in 1..(k - 1)
        /\ (i + 1) + 1 \in 2..k /\ ((i + 1) + 1) - 1 = i + 1
    OBVIOUS
  <2> DEFINE c == known[<<p[i + 1], p[(i + 1) + 1]>>].cost
  <2>2. q[i] = p[i + 1] /\ q[i + 1] = p[(i + 1) + 1]
    BY <2>1
  <2>3. f[i + 1] = f[i] + c
    BY <1>8, <2>1, <2>2 DEF Costing
  <2>4. g[(i + 1) + 1] = g[i + 1] + c
    BY <1>7, <2>1 DEF Costing
  <2>5. f[i] \in Nat /\ f[i] + first = g[i + 1]
    BY <1>8, <1>11, <2>1 DEF Costing
  <2>6. c \in Nat
    BY <1>1, <2>1, CostsArePositive DEF Path
  <2> HIDE DEF c, first, q
  <2> QED
    BY <1>4, <2>1, <2>3, <2>4, <2>5, <2>6
<1>12. 1..(k - 1) \subseteq S
  <2> HIDE DEF S
  <2> QED
    BY <1>5, <1>10, <1>11, CountingUp
<1>13. f[k - 1] + first = s.dist[t] /\ f[k - 1] \in Nat
  <2>1. k - 1 \in 1..(k - 1) /\ (k - 1) + 1 = k
    OBVIOUS
  <2>2. k - 1 \in S
    BY <1>12, <2>1
  <2> QED
    BY <1>8, <1>9, <2>1, <2>2 DEF Costing
<1> HIDE DEF q, first, h
<1>14. ASSUME NEW r \in Searches(h, known)
       PROVE  t \in DOMAIN r.dist /\ r.dist[t] < s.dist[t]
  <2>1. t \in DOMAIN r.dist /\ r.dist[t] <= f[k - 1]
    BY <1>3, <1>5, <1>6, <1>8, NoShorterPath
  <2>2. r.dist[t] \in Nat
    BY <1>3, <2>1, SearchEnds, FarIsNatural DEF SearchInv, SearchStates
  <2> QED
    BY <1>4, <1>13, <2>1, <2>2
<1> QED
  BY <1>3, <1>14 DEF h

\* Whoever comes nearer with every hop arrives after as many hops as there are nodes.
LEMMA NearerArrives ==
  ASSUME NEW t \in Nodes, NEW hop \in [Nodes -> Nodes], hop[t] = t,
         NEW D \in [Nodes -> Nat], \A x \in Nodes \ {t} : D[hop[x]] < D[x],
         NEW at \in [0..Cardinality(Nodes) -> Nodes],
         \A k \in 0..Cardinality(Nodes) : k # 0 => at[k] = hop[at[k - 1]]
  PROVE  at[Cardinality(Nodes)] = t
<1> DEFINE N == Cardinality(Nodes)
<1>1. N \in Nat /\ IsFiniteSet(Nodes)
  BY LinksAssumption, FS_CardinalityType DEF LinksAssumption
<1> HIDE DEF N
<1>2. ASSUME NEW i \in 0..(N - 1) PROVE i + 1 \in 0..N /\ at[i + 1] = hop[at[i]] /\ at[i] \in Nodes
  <2>1. i + 1 \in 0..N /\ i + 1 # 0 /\ (i + 1) - 1 = i /\ i \in 0..N
    BY <1>1
  <2> QED
    BY <2>1 DEF N
<1>3. ASSUME NEW i \in 0..N, at[i] = t PROVE at[N] = t
  <2> DEFINE S == {j \in i..N : at[j] = t}
  <2>1. i \in S
    BY <1>1, <1>3
  <2>2. ASSUME NEW j \in i..(N - 1), j \in S PROVE j + 1 \in S
    <3>1. j \in 0..(N - 1) /\ j + 1 \in i..N
      BY <1>1
    <3> QED
      BY <1>2, <2>2, <3>1
  <2>3. i..N \subseteq S
    <3>1. i \in Nat
      OBVIOUS
    <3> HIDE DEF S
    <3> QED
      BY <1>1, <2>1, <2>2, <3>1, CountingUp
  <2>4. N \in S
    BY <1>1, <2>3
  <2> QED
    BY <2>4
<1>4. ASSUME NEW i \in 0..N, NEW j \in 0..N, i < j PROVE at[j] = t \/ D[at[j]] < D[at[i]]
  <2> DEFINE S == {l \in (i + 1)..N : at[l] = t \/ D[at[l]] < D[at[i]]}
  <2>1. i + 1 \in S
    <3>1. i \in 0..(N - 1) /\ i + 1 \in (i + 1)..N
      BY <1>1, <1>4
    <3>2. at[i + 1] = hop[at[i]] /\ at[i] \in Nodes
      BY <1>2, <3>1
    <3> QED
      BY <3>1, <3>2
  <2>2. ASSUME NEW l \in (i + 1)..(N - 1), l \in S PROVE l + 1 \in S
    <3>1. l \in 0..(N - 1) /\ l + 1 \in (i + 1)..N /\ l + 1 \in 0..N
      BY <1>1
    <3>2. at[l + 1] = hop[at[l]] /\ at[l] \in Nodes /\ at[i] \in Nodes /\ at[l + 1] \in Nodes
      BY <1>2, <3>1 DEF N
    <3>3. D[at[l]] \in Nat /\ D[at[i]] \in Nat /\ D[at[l + 1]] \in Nat
      BY <3>2
    <3>4. CASE at[l] = t
      BY <3>1, <3>2, <3>4
    <3>5. CASE at[l] # t
      <4>1. D[at[l]] < D[at[i]] /\ D[at[l + 1]] < D[at[l]]
        BY <2>2, <3>2, <3>5
      <4> QED
        BY <3>1, <3>3, <4>1
    <3> QED
      BY <3>4, <3>5
  <2>3. (i + 1)..N \subseteq S
    <3>1. i + 1 \in Nat
      OBVIOUS
    <3> HIDE DEF S
    <3> QED
      BY <1>1, <2>1, <2>2, <3>1, CountingUp
  <2>4. j \in S
    BY <1>1, <1>4, <2>3
  <2> QED
    BY <2>4
<1>5. PICK i \in 0..N, j \in 0..N : i # j /\ at[i] = at[j]
  <2>1. IsFiniteSet(0..N) /\ Cardinality(0..N) = N + 1
    <3>1. 0 \in Int /\ N \in Int
      BY <1>1
    <3>2. IsFiniteSet(0..N) /\ Cardinality(0..N) = IF 0 > N THEN 0 ELSE N - 0 + 1
      BY <3>1, FS_Interval
    <3> QED
      BY <1>1, <3>2
  <2>2. Cardinality(Nodes) < Cardinality(0..N) /\ at \in [0..N -> Nodes]
    BY <1>1, <2>1 DEF N
  <2> DEFINE steps == 0..N
             f == at
  <2>3. /\ IsFiniteSet(steps) /\ IsFiniteSet(Nodes)
        /\ Cardinality(Nodes) < Cardinality(steps) /\ f \in [steps -> Nodes]
    BY <1>1, <2>1, <2>2
  <2> HIDE DEF steps, f
  <2>4. \E x, y \in steps : x # y /\ f[x] = f[y]
    BY <2>3, FS_PigeonHole
  <2> QED
    BY <2>4 DEF steps, f
<1>6. D[at[i]] \in Nat /\ at[i] \in Nodes
  BY DEF N
<1>7. CASE i < j
  <2>1. at[j] = t
    BY <1>4, <1>5, <1>6, <1>7
  <2> QED
    BY <1>3, <2>1 DEF N
<1>8. CASE j < i
  <2>1. at[i] = t
    BY <1>4, <1>5, <1>6, <1>8
  <2> QED
    BY <1>3, <2>1 DEF N
<1>9. i < j \/ j < i
  BY <1>1, <1>5
<1> QED
  BY <1>7, <1>8, <1>9 DEF N

\* A table comes from a search that reaches every target.
LEMMA TableIs ==
  ASSUME NEW n \in Nodes, NEW known \in Knowledge, NEW tab \in Tables(n, known)
  PROVE  \E s \in Searches(n, known) :
           /\ Unreached(s) = {} /\ DOMAIN s.dist = Targets(n, known)
           /\ DOMAIN tab = Targets(n, known) \ {n}
           /\ \A t \in DOMAIN tab : tab[t] = NextHop(n, s, t)
<1>1. PICK s \in Searches(n, known) :
        Unreached(s) = {} /\ tab = [t \in DOMAIN s.dist \ {n} |-> NextHop(n, s, t)]
  BY DEF Tables
<1>2. DOMAIN s.dist = Targets(n, known)
  BY SearchEnds DEF SearchInv, SearchStates
<1> QED
  BY <1>1, <1>2

\* From every node the table leads to a node that is nearer to the target.
LEMMA TableHops ==
  ASSUME NEW known \in Knowledge, NEW tables,
         \A x \in Nodes : tables[x] \in Tables(x, known),
         NEW n \in Nodes, NEW t \in DOMAIN tables[n]
  PROVE  /\ t \in Nodes \ {n}
         /\ \A x \in Nodes \ {t} : /\ tables[x][t] \in Nodes
                                   /\ <<x, tables[x][t]>> \in DOMAIN known
         /\ \E D \in [Nodes -> Nat] : \A x \in Nodes \ {t} : D[tables[x][t]] < D[x]
<1> DEFINE from(x, s) == /\ Unreached(s) = {} /\ DOMAIN s.dist = Targets(x, known)
                         /\ DOMAIN tables[x] = Targets(x, known) \ {x}
                         /\ \A u \in DOMAIN tables[x] : tables[x][u] = NextHop(x, s, u)
           search == [x \in Nodes |-> CHOOSE s \in Searches(x, known) : from(x, s)]
           D == [x \in Nodes |-> search[x].dist[t]]
<1>1. ASSUME NEW x \in Nodes PROVE search[x] \in Searches(x, known) /\ from(x, search[x])
  <2>1. \E s \in Searches(x, known) : from(x, s)
    BY TableIs
  <2> HIDE DEF from
  <2> QED
    BY <2>1
<1> HIDE DEF search
<1>2. t # n /\ t \in Targets(n, known)
  BY <1>1
<1>3. \A x \in Nodes : t \in Targets(x, known)
  BY <1>2 DEF Targets
<1>4. t \in Nodes
  BY <1>2, TargetsAreNodes
<1>5. ASSUME NEW x \in Nodes \ {t}
      PROVE  /\ tables[x][t] \in Nodes /\ <<x, tables[x][t]>> \in DOMAIN known
             /\ D[tables[x][t]] < D[x]
  <2> DEFINE s == search[x]
             h == tables[x][t]
  <2>1. /\ s \in Searches(x, known) /\ t \in DOMAIN s.dist \ (Unreached(s) \cup {x})
        /\ h = NextHop(x, s, t)
    BY <1>1, <1>3
  <2>2. /\ h \in Nodes /\ <<x, h>> \in DOMAIN known
        /\ \A r \in Searches(h, known) : r.dist[t] < s.dist[t]
    <3> HIDE DEF s, h
    <3> QED
      BY <2>1, NextHopIsNearer
  <2>3. search[h] \in Searches(h, known)
    BY <1>1, <2>2
  <2> QED
    BY <2>2, <2>3
<1>6. D \in [Nodes -> Nat]
  <2> SUFFICES ASSUME NEW x \in Nodes PROVE search[x].dist[t] \in Nat
    OBVIOUS
  <2>1. search[x] \in SearchStates(x, known)
    BY <1>1, SearchEnds DEF SearchInv
  <2> QED
    BY <1>3, <2>1, FarIsNatural DEF SearchStates
<1> HIDE DEF D
<1> QED
  BY <1>2, <1>4, <1>5, <1>6

\* at is where a message from n to t is after so many hops.
Forwards(at, n, t, tables) ==
  at = [k \in 0..Cardinality(Nodes) |->
          IF k = 0 THEN n ELSE IF at[k - 1] = t THEN t ELSE tables[at[k - 1]][t]]

\* Where every node forwards by a table of its own, built from the same links, a message
\* arrives at its target.
LEMMA TablesLead ==
  ASSUME NEW known \in Knowledge, NEW tables,
         \A x \in Nodes : tables[x] \in Tables(x, known),
         NEW n \in Nodes, NEW t \in DOMAIN tables[n],
         NEW at, Forwards(at, n, t, tables)
  PROVE  at[Cardinality(Nodes)] = t /\ <<n, tables[n][t]>> \in DOMAIN known
<1> DEFINE N == Cardinality(Nodes)
           hop == [x \in Nodes |-> IF x = t THEN t ELSE tables[x][t]]
<1>1. /\ t \in Nodes \ {n}
      /\ \A x \in Nodes \ {t} : tables[x][t] \in Nodes /\ <<x, tables[x][t]>> \in DOMAIN known
  BY TableHops
<1>2. PICK D \in [Nodes -> Nat] : \A x \in Nodes \ {t} : D[tables[x][t]] < D[x]
  BY TableHops
<1>7. hop \in [Nodes -> Nodes] /\ hop[t] = t
  BY <1>1
<1>8. \A x \in Nodes \ {t} : D[hop[x]] < D[x]
  BY <1>2
<1>9. N \in Nat
  BY TargetsAreNodes
<1> DEFINE next(y) == IF y = t THEN t ELSE tables[y][t]
<1>10. /\ at = [k \in 0..N |-> at[k]] /\ at[0] = n
       /\ \A k \in 0..N : k # 0 => at[k] = next(at[k - 1])
  <2> DEFINE e(k) == IF k = 0 THEN n ELSE next(at[k - 1])
  <2>1. at = [k \in 0..N |-> e(k)]
    BY DEF Forwards
  <2> HIDE DEF e, N
  <2>2. at = [k \in 0..N |-> at[k]] /\ \A k \in 0..N : at[k] = e(k)
    BY <2>1
  <2>3. at[0] = e(0) /\ \A k \in 0..N : at[k] = e(k)
    BY <1>9, <2>2
  <2> HIDE DEF next
  <2> QED
    BY <2>2, <2>3 DEF e
<1>11. \A y \in Nodes : next(y) = hop[y] /\ next(y) \in Nodes
  BY <1>1
<1> HIDE DEF N, hop, next
<1> DEFINE S == {k \in 0..N : at[k] \in Nodes}
<1>12. 0 \in S
  BY <1>9, <1>10
<1>13. ASSUME NEW k \in 0..(N - 1), k \in S PROVE k + 1 \in S
  <2>1. k + 1 \in 0..N /\ k + 1 # 0 /\ (k + 1) - 1 = k
    BY <1>9
  <2>2. at[k + 1] = next(at[k])
    BY <1>10, <2>1
  <2> QED
    BY <1>11, <1>13, <2>1, <2>2
<1>14. 0..N \subseteq S
  <2> HIDE DEF S
  <2> QED
    BY <1>9, <1>12, <1>13, CountingUp
<1>15. at \in [0..N -> Nodes]
  BY <1>10, <1>14
<1>16. \A k \in 0..N : k # 0 => at[k] = hop[at[k - 1]]
  <2> SUFFICES ASSUME NEW k \in 0..N, k # 0 PROVE at[k] = hop[at[k - 1]]
    OBVIOUS
  <2>1. k - 1 \in 0..N
    BY <1>9
  <2> QED
    BY <1>10, <1>11, <1>14, <2>1
<1>17. at[N] = t
  BY <1>1, <1>7, <1>8, <1>15, <1>16, NearerArrives DEF N
<1> QED
  BY <1>1, <1>17 DEF N

\* Forwarding for as many hops as there are nodes is well defined: every next hop is a node
\* with a table.
LEMMA WalkExists ==
  ASSUME NEW known \in Knowledge, NEW tables,
         \A x \in Nodes : tables[x] \in Tables(x, known),
         NEW n \in Nodes, NEW t \in DOMAIN tables[n]
  PROVE  \E f : Forwards(f, n, t, tables)
<1> DEFINE N == Cardinality(Nodes)
           hop == [x \in Nodes |-> IF x = t THEN t ELSE tables[x][t]]
           G == [k \in 0..N |-> hop]
<1>1. hop \in [Nodes -> Nodes]
  BY TableHops
<1>2. N \in Nat /\ 0 <= N /\ 0 \in Nat
  BY TargetsAreNodes
<1>3. G \in [0..N -> [Nodes -> Nodes]]
  BY <1>1
<1>4. PICK f : Iteration(f, 0, N, Nodes, n, G)
  <2> HIDE DEF G, N
  <2> QED
    BY <1>2, <1>3, Iterates
<1>5. f \in [0..N -> Nodes] /\ f[0] = n /\ \A k \in 0..N : k # 0 => f[k] = G[k][f[k - 1]]
  BY <1>4 DEF Iteration
<1>6. ASSUME NEW k \in 0..N
      PROVE  f[k] = IF k = 0 THEN n ELSE IF f[k - 1] = t THEN t ELSE tables[f[k - 1]][t]
  <2>1. CASE k # 0
    <3>1. k - 1 \in 0..N
      BY <1>2, <2>1
    <3>2. f[k - 1] \in Nodes /\ G[k] = hop
      BY <1>5, <3>1
    <3>3. hop[f[k - 1]] = IF f[k - 1] = t THEN t ELSE tables[f[k - 1]][t]
      BY <3>2
    <3> HIDE DEF G, hop
    <3> QED
      BY <1>5, <2>1, <3>2, <3>3
  <2> QED
    BY <1>5, <2>1
<1>7. f = [k \in 0..N |->
             IF k = 0 THEN n ELSE IF f[k - 1] = t THEN t ELSE tables[f[k - 1]][t]]
  <2> DEFINE e(k) == IF k = 0 THEN n ELSE IF f[k - 1] = t THEN t ELSE tables[f[k - 1]][t]
  <2>1. \A k \in 0..N : f[k] = e(k)
    BY <1>6
  <2> HIDE DEF e, N, G, hop
  <2>2. f = [k \in 0..N |-> e(k)]
    BY <1>5, <2>1
  <2> QED
    BY <2>2 DEF e
<1>8. Forwards(f, n, t, tables)
  BY <1>7 DEF Forwards
<1> QED
  BY <1>8

\* Once all nodes know the same links and have built their tables, a message handed from
\* next hop to next hop arrives, for every network and every cost, and whatever the choice
\* of each node among its cheapest paths: every hop is nearer to the target.
THEOREM Forwarding == Spec => []ForwardingArrives
<1>1. LinksInv => ForwardingArrives
  <2> SUFFICES ASSUME LinksInv,
                      \A n, m \in Nodes : linkSet[n] = linkSet[m],
                      NEW tables, \A n \in Nodes : tables[n] \in Tables(n, linkSet[n]),
                      NEW n \in Nodes, NEW t \in DOMAIN tables[n]
               PROVE  LET at[k \in 0..Cardinality(Nodes)] ==
                            IF k = 0 THEN n
                            ELSE IF at[k - 1] = t THEN t ELSE tables[at[k - 1]][t]
                      IN  /\ at[Cardinality(Nodes)] = t
                          /\ <<n, tables[n][t]>> \in DOMAIN linkSet[n]
    BY DEF ForwardingArrives
  <2> DEFINE known == linkSet[n]
             at == CHOOSE f : Forwards(f, n, t, tables)
  <2>1. known \in Knowledge /\ \A x \in Nodes : tables[x] \in Tables(x, known)
    BY DEF LinksInv, Types
  <2> HIDE DEF known
  <2>2. \E f : Forwards(f, n, t, tables)
    BY <2>1, WalkExists
  <2>3. Forwards(at, n, t, tables)
    BY <2>2
  <2>4. at[Cardinality(Nodes)] = t /\ <<n, tables[n][t]>> \in DOMAIN known
    <3> HIDE DEF at
    <3> QED
      BY <2>1, <2>3, TablesLead
  <2> QED
    BY <2>4 DEF known, Forwards
<1>2. Init => LinksInv
  BY LinksInit
<1>3. LinksInv /\ [Next]_vars => LinksInv'
  BY LinksStep
<1> QED
  BY <1>1, <1>2, <1>3, PTL DEF Spec
=============================================================================
