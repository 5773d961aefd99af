---------------------------- MODULE TunnelsProofs ----------------------------
(***************************************************************************)
(* Proofs about Tunnels, for any nodes, any listeners and any number of    *)
(* tunnels: messages find the stub they are for.                           *)
(*                                                                         *)
(* The argument rests on three facts.  The node and the id of a stub never *)
(* change.  No two stubs of a node have the same counted id, since the     *)
(* counter only grows, so an id that a message carries stands for one stub *)
(* for ever, also when the stub it was for is gone.  And the two stubs of  *)
(* a tunnel know each other by the right node and id, whatever becomes of  *)
(* the call that made them.                                                *)
(***************************************************************************)
EXTENDS Tunnels, TLAPS

Phases == {"made", "open", "closing", "cancelled"}

StubRecords ==
  [node : Nodes, id : Ids, peerNode : Nodes, peerId : Ids, kind : Kinds, phase : Phases]

Types ==
  /\ counter \in [Nodes -> Nat]
  /\ DOMAIN stub \subseteq Stubs
  /\ stub \in [DOMAIN stub -> StubRecords]
  /\ DOMAIN table = Nodes /\ table = [n \in Nodes |-> table[n]]
  /\ \A n \in Nodes : \A id \in DOMAIN table[n] : id \in Ids /\ table[n][id] \in DOMAIN stub
  /\ asked \subseteq Tunnels
  /\ calling \subseteq Tunnels
  /\ answers \subseteq Tunnels \X Nat
  /\ data \subseteq [to : Nodes, id : Ids, from : Stubs]
  /\ received \in [Stubs -> SUBSET Stubs]
  /\ \A m \in closes : m.to \in Nodes

\* A counted id is below the counter of its node; only a near stub has the code.
Numbered ==
  \A s \in DOMAIN stub :
    IF stub[s].id = Code THEN s[2] = "near" ELSE stub[s].id \in 1..counter[stub[s].node]

\* One stub per node and counted id, over the whole life of the node.
OnePerId ==
  \A s, t \in DOMAIN stub :
    stub[s].node = stub[t].node /\ stub[s].id = stub[t].id /\ stub[s].id # Code => s = t

\* What the table of a node holds has the id it is held under, and is not cancelled.
Listed ==
  \A n \in Nodes : \A id \in DOMAIN table[n] :
    /\ stub[table[n][id]].node = n
    /\ stub[table[n][id]].id = id
    /\ stub[table[n][id]].phase # "cancelled"

\* Every stub with a counted id is in the table until it is cancelled.
Findable ==
  \A s \in DOMAIN stub :
    stub[s].id # Code /\ stub[s].phase # "cancelled"
    => stub[s].id \in DOMAIN table[stub[s].node] /\ table[stub[s].node][stub[s].id] = s

\* The stubs of a tunnel: the far one knows the near one from the start, the near one knows
\* the far one once an answer has come.
Paired ==
  \A k \in Tunnels :
    /\ <<k, "far">> \in DOMAIN stub =>
         /\ <<k, "near">> \in DOMAIN stub
         /\ stub[<<k, "far">>].peerNode = stub[<<k, "near">>].node
         /\ stub[<<k, "far">>].peerId = stub[<<k, "near">>].id
         /\ stub[<<k, "near">>].peerNode = stub[<<k, "far">>].node
    /\ <<k, "near">> \in DOMAIN stub /\ stub[<<k, "near">>].peerId # NoId =>
         /\ <<k, "far">> \in DOMAIN stub
         /\ stub[<<k, "near">>].peerId = stub[<<k, "far">>].id
    /\ k \in asked => <<k, "near">> \in DOMAIN stub /\ <<k, "far">> \notin DOMAIN stub
    /\ k \in calling => <<k, "near">> \in DOMAIN stub

\* An answer that is under way names the far stub of its tunnel.
Answered ==
  \A a \in answers : <<a[1], "far">> \in DOMAIN stub /\ stub[<<a[1], "far">>].id = a[2]

\* A data message is addressed to the other stub of its sender.
Addressed ==
  \A m \in data :
    /\ m.from \in DOMAIN stub /\ Other(m.from) \in DOMAIN stub
    /\ m.to = stub[Other(m.from)].node /\ m.id = stub[Other(m.from)].id

\* What has come to a stub, and to one that is still to be made.
Heard ==
  \A s \in Stubs :
    IF s \in DOMAIN stub
    THEN stub[s].id # Code => received[s] \subseteq {Other(s)}
    ELSE received[s] = {}

TunnelsInv ==
  Types /\ Numbered /\ OnePerId /\ Listed /\ Findable /\ Paired /\ Answered /\ Addressed
  /\ Heard

-----------------------------------------------------------------------------
\* The objects of the model.

\* The stubs of the two sides of a tunnel.
LEMMA Sides ==
  ASSUME NEW s \in Stubs
  PROVE  /\ s[1] \in Tunnels /\ s[2] \in {"near", "far"}
         /\ s = <<s[1], s[2]>>
         /\ Other(s) \in Stubs /\ Other(Other(s)) = s
         /\ s[2] = "near" => s = <<s[1], "near">> /\ Other(s) = <<s[1], "far">>
         /\ s[2] = "far" => s = <<s[1], "far">> /\ Other(s) = <<s[1], "near">>
<1>1. PICK k \in Tunnels, w \in {"near", "far"} : s = <<k, w>>
  BY DEF Stubs
<1>2. CASE w = "near"
  BY <1>1, <1>2 DEF Stubs, Other
<1>3. CASE w = "far"
  BY <1>1, <1>3 DEF Stubs, Other
<1> QED BY <1>1, <1>2, <1>3

LEMMA StubOf ==
  ASSUME NEW k \in Tunnels
  PROVE  /\ <<k, "near">> \in Stubs /\ <<k, "far">> \in Stubs
         /\ <<k, "near">> # <<k, "far">>
         /\ \A j \in Tunnels : /\ <<j, "near">> = <<k, "near">> => j = k
                               /\ <<j, "far">> = <<k, "far">> => j = k
                               /\ <<j, "near">> # <<k, "far">>
         /\ <<k, "near">>[1] = k /\ <<k, "near">>[2] = "near"
         /\ <<k, "far">>[1] = k /\ <<k, "far">>[2] = "far"
BY DEF Stubs

LEMMA StubFields ==
  ASSUME NEW n \in Nodes, NEW id \in Ids, NEW m \in Nodes, NEW pid \in Ids,
         NEW kind \in Kinds, NEW ph \in Phases
  PROVE  /\ Stub(n, id, m, pid, kind, ph) \in StubRecords
         /\ Stub(n, id, m, pid, kind, ph).node = n
         /\ Stub(n, id, m, pid, kind, ph).id = id
         /\ Stub(n, id, m, pid, kind, ph).peerNode = m
         /\ Stub(n, id, m, pid, kind, ph).peerId = pid
         /\ Stub(n, id, m, pid, kind, ph).kind = kind
         /\ Stub(n, id, m, pid, kind, ph).phase = ph
BY DEF Stub, StubRecords

LEMMA FieldTypes ==
  ASSUME Types, NEW s \in DOMAIN stub
  PROVE  /\ s \in Stubs
         /\ stub[s] \in StubRecords
         /\ stub[s].node \in Nodes /\ stub[s].id \in Ids
         /\ stub[s].peerNode \in Nodes /\ stub[s].peerId \in Ids
         /\ stub[s].kind \in Kinds /\ stub[s].phase \in Phases
BY DEF Types, StubRecords

\* A step that touches a few fields of a stub, and no node, id or table.
LEMMA Touched ==
  ASSUME TunnelsInv, Types',
         DOMAIN stub' = DOMAIN stub,
         \A s \in DOMAIN stub : /\ stub'[s].node = stub[s].node
                                /\ stub'[s].id = stub[s].id
                                /\ stub'[s].peerNode = stub[s].peerNode
                                /\ stub'[s].phase = "cancelled" => stub[s].phase = "cancelled"
                                /\ stub[s].phase = "cancelled" => stub'[s].phase = "cancelled",
         \A s \in DOMAIN stub :
           \/ stub'[s].peerId = stub[s].peerId
           \/ /\ s = <<s[1], "near">>
              /\ <<s[1], "far">> \in DOMAIN stub
              /\ stub'[s].peerId = stub[<<s[1], "far">>].id,
         asked' \subseteq asked, calling' \subseteq calling, answers' \subseteq answers,
         counter' = counter, table' = table, data' = data, received' = received
  PROVE  TunnelsInv'
<1>1. Numbered' /\ OnePerId'
  BY DEF TunnelsInv, Numbered, OnePerId
<1>2. Listed' /\ Findable'
  BY DEF TunnelsInv, Listed, Findable, Types
<1>3. Paired'
  <2> SUFFICES ASSUME NEW k \in Tunnels
      PROVE  /\ <<k, "far">> \in DOMAIN stub' =>
                  /\ <<k, "near">> \in DOMAIN stub'
                  /\ stub'[<<k, "far">>].peerNode = stub'[<<k, "near">>].node
                  /\ stub'[<<k, "far">>].peerId = stub'[<<k, "near">>].id
                  /\ stub'[<<k, "near">>].peerNode = stub'[<<k, "far">>].node
             /\ <<k, "near">> \in DOMAIN stub' /\ stub'[<<k, "near">>].peerId # NoId =>
                  /\ <<k, "far">> \in DOMAIN stub'
                  /\ stub'[<<k, "near">>].peerId = stub'[<<k, "far">>].id
             /\ k \in asked' => <<k, "near">> \in DOMAIN stub' /\ <<k, "far">> \notin DOMAIN stub'
             /\ k \in calling' => <<k, "near">> \in DOMAIN stub'
    BY DEF Paired
  <2>1. <<k, "near">> # <<k, "far">> /\ <<k, "near">>[1] = k /\ <<k, "far">>[1] = k
    BY StubOf
  <2> QED BY <2>1 DEF TunnelsInv, Paired
<1>4. Answered' /\ Addressed'
  BY DEF TunnelsInv, Answered, Addressed
<1>5. Heard'
  BY DEF TunnelsInv, Heard
<1> QED BY <1>1, <1>2, <1>3, <1>4, <1>5 DEF TunnelsInv

-----------------------------------------------------------------------------
\* Steps that keep the tables.

LEMMA ClosingKeeps ==
  ASSUME Types, NEW s \in DOMAIN stub
  PROVE  /\ DOMAIN Closing(s) = DOMAIN stub
         /\ Closing(s) \in [DOMAIN stub -> StubRecords]
         /\ \A t \in DOMAIN stub :
              /\ Closing(s)[t].node = stub[t].node
              /\ Closing(s)[t].id = stub[t].id
              /\ Closing(s)[t].peerNode = stub[t].peerNode
              /\ Closing(s)[t].peerId = stub[t].peerId
              /\ Closing(s)[t].phase = "cancelled" <=> stub[t].phase = "cancelled"
BY DEF Closing, Types, StubRecords, Phases

\* doClose, onClose and the calls that fail leave every stub where it is found.
LEMMA ClosingStep ==
  ASSUME TunnelsInv, NEW s \in DOMAIN stub,
         stub' = stub \/ stub' = Closing(s),
         asked' \subseteq asked, calling' \subseteq calling, answers' \subseteq answers,
         counter' = counter, table' = table, data' = data, received' = received,
         \A m \in closes' : m.to \in Nodes
  PROVE  TunnelsInv'
<1>1. Types
  BY DEF TunnelsInv
<1>2. /\ DOMAIN stub' = DOMAIN stub
      /\ stub' \in [DOMAIN stub -> StubRecords]
      /\ \A t \in DOMAIN stub :
           /\ stub'[t].node = stub[t].node
           /\ stub'[t].id = stub[t].id
           /\ stub'[t].peerNode = stub[t].peerNode
           /\ stub'[t].peerId = stub[t].peerId
           /\ stub'[t].phase = "cancelled" <=> stub[t].phase = "cancelled"
  BY <1>1, ClosingKeeps DEF Types
<1>3. Types'
  BY <1>1, <1>2 DEF Types
<1> QED BY <1>2, <1>3, Touched

LEMMA ClosesStep ==
  ASSUME TunnelsInv,
         \/ \E k \in Tunnels : GiveUp(k)
         \/ \E s \in DOMAIN stub : DoClose(s)
         \/ \E m \in closes : HandleClose(m)
  PROVE  TunnelsInv'
<1>1. CASE \E k \in Tunnels : GiveUp(k)
  <2>1. PICK k \in Tunnels : GiveUp(k)
    BY <1>1
  <2>2. <<k, "near">> \in DOMAIN stub
    BY <2>1 DEF GiveUp, TunnelsInv, Paired
  <2>3. stub' = stub \/ stub' = Closing(<<k, "near">>)
    BY <2>1 DEF GiveUp
  <2>4. \A m \in closes' : m.to \in Nodes
    BY <2>1, <2>2, FieldTypes DEF GiveUp, SendClose, TunnelsInv, Types
  <2> QED BY <2>1, <2>2, <2>3, <2>4, ClosingStep DEF GiveUp
<1>2. CASE \E s \in DOMAIN stub : DoClose(s)
  <2>1. PICK s \in DOMAIN stub : DoClose(s)
    BY <1>2
  <2>2. \A m \in closes' : m.to \in Nodes
    BY <2>1, FieldTypes DEF DoClose, SendClose, TunnelsInv, Types
  <2> QED BY <2>1, <2>2, ClosingStep DEF DoClose
<1>3. CASE \E m \in closes : HandleClose(m)
  <2>1. PICK m \in closes : HandleClose(m) /\ m.to \in Nodes /\ closes' \subseteq closes
    BY <1>3 DEF HandleClose, TunnelsInv, Types
  <2>2. CASE m.id \in DOMAIN table[m.to]
    <3>1. table[m.to][m.id] \in DOMAIN stub
      BY <2>1, <2>2 DEF TunnelsInv, Types
    <3> QED BY <2>1, <2>2, <3>1, ClosingStep DEF HandleClose, TunnelsInv, Types
  <2>3. CASE m.id \notin DOMAIN table[m.to]
    BY <2>1, <2>3, Touched DEF HandleClose, TunnelsInv, Types
  <2> QED BY <2>2, <2>3
<1> QED BY <1>1, <1>2, <1>3

LEMMA ConnectFailsStep ==
  ASSUME TunnelsInv, NEW k \in Tunnels, ConnectFails(k)
  PROVE  TunnelsInv'
BY Touched DEF ConnectFails, TunnelsInv, Types

\* The answer has come: it names the far stub.
LEMMA ConnectedStep ==
  ASSUME TunnelsInv, NEW a \in answers, Connected(a[1], a[2])
  PROVE  TunnelsInv'
<1> DEFINE k == a[1]
           id == a[2]
           near == <<k, "near">>
           far == <<k, "far">>
<1>1. Types
  BY DEF TunnelsInv
<1>2. k \in Tunnels /\ id \in Nat /\ id \in Ids
  BY <1>1 DEF Types, Ids
<1>3. far \in DOMAIN stub /\ stub[far].id = id /\ near \in DOMAIN stub
  BY <1>2 DEF TunnelsInv, Answered, Paired
<1>4. stub' = [stub EXCEPT ![near].peerId = id,
                           ![near].phase = IF @ = "made" THEN "open" ELSE @]
  BY DEF Connected
<1>5. DOMAIN stub' = DOMAIN stub /\ \A s \in DOMAIN stub : s # near => stub'[s] = stub[s]
  BY <1>1, <1>4 DEF Types
<1>6. /\ stub'[near] \in StubRecords
      /\ stub'[near].node = stub[near].node
      /\ stub'[near].id = stub[near].id
      /\ stub'[near].peerNode = stub[near].peerNode
      /\ stub'[near].peerId = id
      /\ stub'[near].phase = "cancelled" <=> stub[near].phase = "cancelled"
  <2>1. stub[near] \in StubRecords
    BY <1>1, <1>3 DEF Types
  <2>2. stub'[near] = [[stub[near] EXCEPT !.peerId = id]
                         EXCEPT !.phase = IF @ = "made" THEN "open" ELSE @]
    BY <1>1, <1>3, <1>4 DEF Types
  <2>3. [stub[near] EXCEPT !.peerId = id] \in StubRecords
    BY <1>2, <2>1 DEF StubRecords
  <2> QED BY <1>2, <2>1, <2>2, <2>3 DEF StubRecords, Phases
<1>7. stub' \in [DOMAIN stub -> StubRecords]
  BY <1>1, <1>3, <1>4, <1>5, <1>6 DEF Types
<1>8. /\ closes' = closes
      /\ asked' \subseteq asked /\ calling' \subseteq calling /\ answers' \subseteq answers
      /\ counter' = counter /\ table' = table /\ data' = data /\ received' = received
  BY DEF Connected
<1>9. Types'
  BY <1>1, <1>5, <1>7, <1>8 DEF Types
<1>10. near[1] = k
  BY <1>2, StubOf
<1>11. \A s \in DOMAIN stub :
         \/ stub'[s].peerId = stub[s].peerId
         \/ /\ s = <<s[1], "near">>
            /\ <<s[1], "far">> \in DOMAIN stub
            /\ stub'[s].peerId = stub[<<s[1], "far">>].id
  BY <1>3, <1>5, <1>6, <1>10
<1> HIDE DEF near, far, k, id
<1> QED BY <1>5, <1>6, <1>8, <1>9, <1>11, Touched

-----------------------------------------------------------------------------
\* Messages.

\* The other stub of one that knows its peer, and where it is.
LEMMA PeerKnown ==
  ASSUME TunnelsInv, NEW s \in DOMAIN stub, stub[s].peerId # NoId
  PROVE  /\ Other(s) \in DOMAIN stub
         /\ stub[s].peerNode = stub[Other(s)].node
         /\ stub[s].peerId = stub[Other(s)].id
<1>1. s \in Stubs
  BY DEF TunnelsInv, Types
<1>2. CASE s[2] = "near"
  BY <1>1, <1>2, Sides DEF TunnelsInv, Paired
<1>3. CASE s[2] = "far"
  BY <1>1, <1>3, Sides DEF TunnelsInv, Paired
<1> QED BY <1>1, <1>2, <1>3, Sides

LEMMA SendDataStep ==
  ASSUME TunnelsInv, NEW s \in DOMAIN stub, SendData(s)
  PROVE  TunnelsInv'
<1> DEFINE m == [to |-> stub[s].peerNode, id |-> stub[s].peerId, from |-> s]
<1>1. /\ data' = data \cup {m}
      /\ UNCHANGED <<counter, table, stub, calling, asked, answers, received, closes>>
  BY DEF SendData
<1>2. m \in [to : Nodes, id : Ids, from : Stubs]
  BY FieldTypes DEF TunnelsInv
<1>3. Types'
  BY <1>1, <1>2 DEF TunnelsInv, Types
<1>4. /\ m.from \in DOMAIN stub /\ Other(m.from) \in DOMAIN stub
      /\ m.to = stub[Other(m.from)].node /\ m.id = stub[Other(m.from)].id
  BY PeerKnown DEF SendData
<1>5. Addressed'
  BY <1>1, <1>4 DEF TunnelsInv, Addressed
<1>6. Numbered' /\ OnePerId' /\ Listed' /\ Findable'
  BY <1>1 DEF TunnelsInv, Numbered, OnePerId, Listed, Findable
<1>7. Paired' /\ Answered' /\ Heard'
  BY <1>1 DEF TunnelsInv, Paired, Answered, Heard
<1> QED BY <1>3, <1>5, <1>6, <1>7 DEF TunnelsInv

\* A message comes to the stub it was sent to, unless it is for a dynamic tunnel.
LEMMA HandleDataStep ==
  ASSUME TunnelsInv, NEW m \in data, HandleData(m)
  PROVE  TunnelsInv'
<1> DEFINE t == table[m.to][m.id]
<1>1. /\ data' \subseteq data
      /\ UNCHANGED <<counter, table, stub, calling, asked, answers, closes>>
  BY DEF HandleData
<1>2. m.to \in Nodes /\ m.from \in Stubs /\ m.from \in DOMAIN stub /\ Other(m.from) \in DOMAIN stub
  BY DEF TunnelsInv, Types, Addressed
<1>3. Types' /\ Heard'
  <2>1. CASE m.id \notin DOMAIN table[m.to]
    BY <1>1, <2>1 DEF HandleData, TunnelsInv, Types, Heard
  <2>2. CASE m.id \in DOMAIN table[m.to]
    <3>1. t \in DOMAIN stub /\ t \in Stubs /\ stub[t].node = m.to /\ stub[t].id = m.id
      BY <1>2, <2>2 DEF TunnelsInv, Types, Listed
    <3>2. stub[t].id # Code => t = Other(m.from)
      BY <1>2, <3>1 DEF TunnelsInv, OnePerId, Addressed
    <3>3. stub[t].id # Code => m.from = Other(t)
      BY <1>2, <3>2, Sides
    <3>4. received' = [received EXCEPT ![t] = @ \cup {m.from}]
      BY <2>2 DEF HandleData
    <3>5. Types'
      BY <1>1, <1>2, <3>1, <3>4 DEF TunnelsInv, Types
    <3>6. Heard'
      <4>1. stub' = stub /\ Heard /\ received \in [Stubs -> SUBSET Stubs]
        BY <1>1 DEF TunnelsInv, Types
      <4>2. received'[t] = received[t] \cup {m.from}
        BY <3>1, <3>4, <4>1
      <4>3. \A s \in Stubs : s # t => received'[s] = received[s]
        BY <3>4, <4>1
      <4>4. stub[t].id # Code => received'[t] \subseteq {Other(t)}
        BY <3>1, <3>3, <4>1, <4>2 DEF Heard
      <4> QED BY ONLY <3>1, <4>1, <4>3, <4>4 DEF Heard
    <3> QED BY <3>5, <3>6
  <2> QED BY <2>1, <2>2
<1>4. Numbered' /\ OnePerId' /\ Listed' /\ Findable'
  BY <1>1 DEF TunnelsInv, Numbered, OnePerId, Listed, Findable
<1>5. Paired' /\ Answered' /\ Addressed'
  BY <1>1 DEF TunnelsInv, Paired, Answered, Addressed
<1> QED BY <1>3, <1>4, <1>5 DEF TunnelsInv

-----------------------------------------------------------------------------
\* Stubs that come and go.

\* A new stub is entered in the table of its node, under an id that is counted or the code.
LEMMA NewStub ==
  ASSUME TunnelsInv, NEW s \in Stubs, s \notin DOMAIN stub,
         NEW n \in Nodes, NEW id \in Ids,
         NEW r \in StubRecords, r.node = n, r.id = id, r.phase # "cancelled",
         stub' = Put(stub, s, r),
         table' = [table EXCEPT ![n] = Put(@, id, s)],
         \/ id = counter[n] + 1 /\ counter' = [counter EXCEPT ![n] = @ + 1]
         \/ id = Code /\ s[2] = "near" /\ counter' = counter,
         asked' \subseteq Tunnels, calling' \subseteq Tunnels,
         answers' \subseteq Tunnels \X Nat,
         data' = data, received' = received, closes' = closes
  PROVE  Types' /\ Numbered' /\ OnePerId' /\ Listed' /\ Findable' /\ Addressed' /\ Heard'
<1>1. Types /\ counter[n] \in Nat
  BY DEF TunnelsInv, Types
<1>2. /\ DOMAIN stub' = DOMAIN stub \cup {s}
      /\ stub'[s] = r
      /\ \A t \in DOMAIN stub : t # s /\ stub'[t] = stub[t]
  BY DEF Put
<1>3. /\ DOMAIN table' = Nodes /\ table' = [m \in Nodes |-> table'[m]]
      /\ DOMAIN table'[n] = DOMAIN table[n] \cup {id}
      /\ table'[n][id] = s
      /\ \A i \in DOMAIN table[n] : i # id => table'[n][i] = table[n][i]
      /\ \A m \in Nodes : m # n => table'[m] = table[m]
  <2>1. table'[n] = Put(table[n], id, s) /\ \A m \in Nodes : m # n => table'[m] = table[m]
    BY <1>1 DEF Types
  <2>2. DOMAIN table' = Nodes /\ table' = [m \in Nodes |-> table'[m]]
    BY <1>1 DEF Types
  <2> QED BY <2>1, <2>2 DEF Put
<1>4. \A t \in DOMAIN stub : stub[t].node = n /\ stub[t].id # Code => stub[t].id # id
  <2>1. CASE id = Code
    BY <2>1
  <2>2. CASE id = counter[n] + 1
    BY <1>1, <2>2 DEF TunnelsInv, Numbered
  <2> QED BY <2>1, <2>2
<1>5. Types'
  <2>1. counter' \in [Nodes -> Nat]
    BY <1>1 DEF Types
  <2>2. DOMAIN stub' \subseteq Stubs /\ stub' \in [DOMAIN stub' -> StubRecords]
    BY <1>1, <1>2 DEF Types, Put
  <2>3. \A m \in Nodes : \A i \in DOMAIN table'[m] : i \in Ids /\ table'[m][i] \in DOMAIN stub'
    BY <1>1, <1>2, <1>3 DEF Types
  <2> QED BY <1>1, <1>3, <2>1, <2>2, <2>3 DEF Types
<1>6. Numbered'
  <2>1. ASSUME NEW t \in DOMAIN stub, stub[t].id # Code
        PROVE  stub[t].id \in 1..counter'[stub[t].node]
    <3>1. stub[t].node \in Nodes /\ stub[t].id \in 1..counter[stub[t].node]
      BY <1>1, <2>1, FieldTypes DEF TunnelsInv, Numbered
    <3>2. counter[stub[t].node] \in Nat /\ counter'[stub[t].node] \in Nat
      BY <1>1, <1>5, <3>1 DEF Types
    <3>3. counter[stub[t].node] <= counter'[stub[t].node]
      BY <1>1, <3>1, <3>2 DEF Types
    <3> QED BY <3>1, <3>2, <3>3
  <2>2. CASE id = Code /\ s[2] = "near" /\ counter' = counter
    BY <1>2, <2>1, <2>2 DEF TunnelsInv, Numbered
  <2>3. CASE id = counter[n] + 1 /\ counter' = [counter EXCEPT ![n] = @ + 1]
    <3>1. id \in 1..counter'[n] /\ id # Code
      BY <1>1, <2>3, TunnelsAssumption DEF Types
    <3> QED BY <1>2, <2>1, <3>1 DEF TunnelsInv, Numbered
  <2> QED BY <2>2, <2>3
<1>7. OnePerId'
  BY <1>2, <1>4 DEF TunnelsInv, OnePerId
<1>8. Listed'
  <2>1. ASSUME NEW m \in Nodes, NEW i \in DOMAIN table'[m]
        PROVE  /\ stub'[table'[m][i]].node = m
               /\ stub'[table'[m][i]].id = i
               /\ stub'[table'[m][i]].phase # "cancelled"
    <3>1. CASE m = n /\ i = id
      BY <1>2, <1>3, <3>1
    <3>2. CASE ~(m = n /\ i = id)
      <4>1. i \in DOMAIN table[m] /\ table'[m][i] = table[m][i]
        BY <1>3, <2>1, <3>2
      <4>2. table[m][i] \in DOMAIN stub
        BY <1>1, <4>1 DEF Types
      <4> QED BY <1>2, <4>1, <4>2 DEF TunnelsInv, Listed
    <3> QED BY <3>1, <3>2
  <2> QED BY <2>1 DEF Listed
<1>9. Findable'
  <2>1. ASSUME NEW t \in DOMAIN stub, stub[t].id # Code, stub[t].phase # "cancelled"
        PROVE  stub[t].id \in DOMAIN table'[stub[t].node] /\ table'[stub[t].node][stub[t].id] = t
    <3>1. /\ stub[t].node \in Nodes
          /\ stub[t].id \in DOMAIN table[stub[t].node]
          /\ table[stub[t].node][stub[t].id] = t
      BY <1>1, <2>1, FieldTypes DEF TunnelsInv, Findable
    <3> QED BY <1>3, <1>4, <2>1, <3>1
  <2> QED BY <1>2, <1>3, <2>1 DEF Findable
<1>10. Addressed'
  BY <1>2 DEF TunnelsInv, Addressed
<1>11. Heard'
  BY <1>2 DEF TunnelsInv, Heard
<1> QED BY <1>5, <1>6, <1>7, <1>8, <1>9, <1>10, <1>11

LEMMA MakeNearStep ==
  ASSUME TunnelsInv, NEW n \in Nodes, NEW k \in Tunnels, NEW kind \in Kinds,
         NEW id \in Ids, MakeNear(n, k, id, kind),
         \/ id = counter[n] + 1 /\ counter' = [counter EXCEPT ![n] = @ + 1]
         \/ id = Code /\ counter' = counter
  PROVE  TunnelsInv'
<1> DEFINE near == <<k, "near">>
           far == <<k, "far">>
           r == Stub(n, id, PeerOf[n], NoId, kind, "made")
<1>1. near \in Stubs /\ near \notin DOMAIN stub /\ near[2] = "near" /\ near # far
  BY StubOf DEF MakeNear
<1>2. PeerOf[n] \in Nodes /\ NoId \in Ids /\ "made" \in Phases /\ "made" # "cancelled"
  BY TunnelsAssumption DEF NoId, Ids, Phases
<1>3. r \in StubRecords /\ r.node = n /\ r.id = id /\ r.phase = "made" /\ r.peerId = NoId
  BY <1>2, StubFields
<1>4. /\ stub' = Put(stub, near, r)
      /\ table' = [table EXCEPT ![n] = Put(@, id, near)]
      /\ calling' = calling \cup {k} /\ asked' = asked \cup {k}
      /\ UNCHANGED <<answers, data, received, closes>>
  BY DEF MakeNear
<1>5. asked' \subseteq Tunnels /\ calling' \subseteq Tunnels /\ answers' \subseteq Tunnels \X Nat
  BY <1>4 DEF TunnelsInv, Types
<1> HIDE DEF r
<1>6. Types' /\ Numbered' /\ OnePerId' /\ Listed' /\ Findable' /\ Addressed' /\ Heard'
  BY <1>1, <1>2, <1>3, <1>4, <1>5, NewStub
<1>7. /\ DOMAIN stub' = DOMAIN stub \cup {near}
      /\ stub'[near] = r
      /\ \A t \in DOMAIN stub : t # near /\ stub'[t] = stub[t]
  BY <1>1, <1>4 DEF Put
<1>8. far \notin DOMAIN stub
  BY <1>1 DEF TunnelsInv, Paired
<1>9. Paired'
  <2>1. ASSUME NEW j \in Tunnels, j # k
        PROVE  /\ <<j, "near">> \in DOMAIN stub' <=> <<j, "near">> \in DOMAIN stub
               /\ <<j, "far">> \in DOMAIN stub' <=> <<j, "far">> \in DOMAIN stub
               /\ j \in asked' => j \in asked
               /\ j \in calling' => j \in calling
    BY <1>4, <1>7, <2>1, StubOf
  <2>2. near \in DOMAIN stub' /\ far \notin DOMAIN stub' /\ stub'[near].peerId = NoId
    BY <1>1, <1>3, <1>7, <1>8
  <2> QED BY <1>7, <2>1, <2>2 DEF TunnelsInv, Paired
<1>10. Answered'
  BY <1>4, <1>7 DEF TunnelsInv, Answered
<1> QED BY <1>6, <1>9, <1>10 DEF TunnelsInv

LEMMA MakeFarStep ==
  ASSUME TunnelsInv, NEW k \in Tunnels, MakeFar(k)
  PROVE  TunnelsInv'
<1> DEFINE near == <<k, "near">>
           far == <<k, "far">>
           n == stub[near].peerNode
           id == counter[n] + 1
           r == Stub(n, id, stub[near].node, stub[near].id, stub[near].kind, "open")
<1>1. near \in DOMAIN stub /\ far \in Stubs /\ far \notin DOMAIN stub /\ near # far
  BY StubOf DEF MakeFar, TunnelsInv, Paired
<1>2. /\ n \in Nodes /\ id \in Nat /\ id \in Ids /\ stub[near].node \in Nodes
      /\ stub[near].id \in Ids /\ stub[near].kind \in Kinds
      /\ "open" \in Phases /\ "open" # "cancelled"
  BY <1>1, FieldTypes DEF TunnelsInv, Types, Ids, Phases
<1>3. /\ r \in StubRecords /\ r.node = n /\ r.id = id /\ r.phase = "open"
      /\ r.peerNode = stub[near].node /\ r.peerId = stub[near].id
  BY <1>2, StubFields
<1>4. /\ asked' = asked \ {k}
      /\ counter' = [counter EXCEPT ![n] = @ + 1]
      /\ stub' = Put(stub, far, r)
      /\ table' = [table EXCEPT ![n] = Put(@, id, far)]
      /\ answers' = IF k \in calling THEN answers \cup {<<k, id>>} ELSE answers
      /\ UNCHANGED <<calling, data, received, closes>>
  BY DEF MakeFar, NextStubId, KeptUnder
<1> HIDE DEF r
<1>5. asked' \subseteq Tunnels /\ calling' \subseteq Tunnels /\ answers' \subseteq Tunnels \X Nat
  BY <1>2, <1>4 DEF TunnelsInv, Types
<1>6. Types' /\ Numbered' /\ OnePerId' /\ Listed' /\ Findable' /\ Addressed' /\ Heard'
  <2> HIDE DEF n, id, far
  <2> QED BY <1>1, <1>2, <1>3, <1>4, <1>5, NewStub DEF id
<1>7. /\ DOMAIN stub' = DOMAIN stub \cup {far}
      /\ stub'[far] = r
      /\ \A t \in DOMAIN stub : t # far /\ stub'[t] = stub[t]
  BY <1>1, <1>4 DEF Put
<1>8. Paired'
  <2>1. ASSUME NEW j \in Tunnels, j # k
        PROVE  /\ <<j, "near">> \in DOMAIN stub' <=> <<j, "near">> \in DOMAIN stub
               /\ <<j, "far">> \in DOMAIN stub' <=> <<j, "far">> \in DOMAIN stub
               /\ j \in asked' => j \in asked
               /\ j \in calling' => j \in calling
    BY <1>4, <1>7, <2>1, StubOf
  <2>2. /\ near \in DOMAIN stub' /\ far \in DOMAIN stub' /\ k \notin asked'
        /\ stub'[near] = stub[near] /\ stub'[far] = r
    BY <1>1, <1>4, <1>7
  <2>3. stub[near].peerId = NoId
    BY <1>1 DEF TunnelsInv, Paired
  <2> HIDE DEF id
  <2> QED BY <1>3, <1>7, <2>1, <2>2, <2>3 DEF TunnelsInv, Paired
<1>9. Answered'
  <2> HIDE DEF n, id
  <2>1. ASSUME NEW a \in answers
        PROVE  <<a[1], "far">> \in DOMAIN stub' /\ stub'[<<a[1], "far">>].id = a[2]
    BY <1>7 DEF TunnelsInv, Answered
  <2>2. <<k, id>>[1] = k /\ <<k, id>>[2] = id
    OBVIOUS
  <2> QED BY <1>3, <1>4, <1>7, <2>1, <2>2 DEF Answered
<1> QED BY <1>6, <1>8, <1>9 DEF TunnelsInv

\* lazyClose takes the stub out of the table, or the one that took its place under a code.
LEMMA LazyCloseStep ==
  ASSUME TunnelsInv, NEW s \in DOMAIN stub, LazyClose(s)
  PROVE  TunnelsInv'
<1> DEFINE n == stub[s].node
           id == stub[s].id
<1>1. Types /\ n \in Nodes /\ stub[s] \in StubRecords
  BY FieldTypes DEF TunnelsInv
<1>2. /\ stub' = [stub EXCEPT ![s].phase = "cancelled"]
      /\ table' = [table EXCEPT ![n] = Restrict(@, DOMAIN @ \ {id})]
      /\ UNCHANGED <<counter, calling, asked, answers, data, received, closes>>
  BY DEF LazyClose, DeleteStubById
<1>3. /\ DOMAIN stub' = DOMAIN stub
      /\ \A t \in DOMAIN stub : t # s => stub'[t] = stub[t]
      /\ stub'[s] = [stub[s] EXCEPT !.phase = "cancelled"]
      /\ stub' = [t \in DOMAIN stub |-> stub'[t]]
  BY <1>1, <1>2 DEF Types
<1>4. /\ stub'[s] \in StubRecords /\ stub'[s].node = n /\ stub'[s].id = id
      /\ stub'[s].peerNode = stub[s].peerNode /\ stub'[s].peerId = stub[s].peerId
      /\ stub'[s].phase = "cancelled"
  BY <1>1, <1>3 DEF StubRecords, Phases
<1>5. /\ DOMAIN table' = Nodes /\ table' = [m \in Nodes |-> table'[m]]
      /\ DOMAIN table'[n] = DOMAIN table[n] \ {id}
      /\ \A i \in DOMAIN table[n] \ {id} : table'[n][i] = table[n][i]
      /\ \A m \in Nodes : m # n => table'[m] = table[m]
  <2>1. table'[n] = Restrict(table[n], DOMAIN table[n] \ {id})
    BY <1>1, <1>2 DEF Types
  <2>2. /\ DOMAIN table' = Nodes /\ table' = [m \in Nodes |-> table'[m]]
        /\ \A m \in Nodes : m # n => table'[m] = table[m]
    BY <1>1, <1>2 DEF Types
  <2> QED BY <2>1, <2>2 DEF Restrict
<1>6. \A m \in Nodes : \A i \in DOMAIN table'[m] :
        i \in DOMAIN table[m] /\ table'[m][i] = table[m][i] /\ table[m][i] # s
  BY <1>1, <1>5 DEF TunnelsInv, Listed
<1>7. Types'
  <2>1. stub' \in [DOMAIN stub' -> StubRecords] /\ DOMAIN stub' \subseteq Stubs
    BY <1>1, <1>3, <1>4 DEF Types
  <2>2. \A m \in Nodes : \A i \in DOMAIN table'[m] : i \in Ids /\ table'[m][i] \in DOMAIN stub'
    BY <1>1, <1>3, <1>6 DEF Types
  <2> QED BY <1>1, <1>2, <1>5, <2>1, <2>2 DEF Types
<1>8. Numbered' /\ OnePerId'
  BY <1>2, <1>3, <1>4 DEF TunnelsInv, Numbered, OnePerId
<1>9. Listed'
  BY <1>1, <1>3, <1>6 DEF TunnelsInv, Listed, Types
<1>10. Findable'
  <2>1. ASSUME NEW t \in DOMAIN stub, t # s, stub[t].id # Code, stub[t].phase # "cancelled"
        PROVE  stub[t].id \in DOMAIN table'[stub[t].node] /\ table'[stub[t].node][stub[t].id] = t
    <3>1. /\ stub[t].node \in Nodes
          /\ stub[t].id \in DOMAIN table[stub[t].node]
          /\ table[stub[t].node][stub[t].id] = t
      BY <1>1, <2>1, FieldTypes DEF TunnelsInv, Findable
    <3>2. ~(stub[t].node = n /\ stub[t].id = id)
      BY <2>1 DEF TunnelsInv, OnePerId
    <3> QED BY <1>5, <3>1, <3>2
  <2> QED BY <1>3, <1>4, <2>1 DEF Findable
<1>11. Paired'
  <2>1. \A t \in DOMAIN stub : /\ stub'[t].node = stub[t].node
                               /\ stub'[t].id = stub[t].id
                               /\ stub'[t].peerNode = stub[t].peerNode
                               /\ stub'[t].peerId = stub[t].peerId
    BY <1>3, <1>4
  <2>2. DOMAIN stub' = DOMAIN stub /\ asked' = asked /\ calling' = calling
    BY <1>2, <1>3
  <2>3. Paired
    BY DEF TunnelsInv
  <2> QED BY <2>1, <2>2, <2>3 DEF Paired
<1>12. Answered' /\ Addressed'
  BY <1>2, <1>3, <1>4 DEF TunnelsInv, Answered, Addressed
<1>13. Heard'
  BY <1>2, <1>3, <1>4 DEF TunnelsInv, Heard
<1> QED BY <1>7, <1>8, <1>9, <1>10, <1>11, <1>12, <1>13 DEF TunnelsInv

-----------------------------------------------------------------------------
LEMMA TunnelsInvInit ==
  ASSUME Init
  PROVE  TunnelsInv
<1>1. DOMAIN stub = {} /\ \A n \in Nodes : DOMAIN table[n] = {}
  BY DEF Init
<1>2. Types
  BY <1>1 DEF Init, Types
<1> QED BY <1>1, <1>2 DEF Init, TunnelsInv, Numbered, OnePerId, Listed, Findable, Paired,
                          Answered, Addressed, Heard

LEMMA TunnelsInvStep ==
  ASSUME TunnelsInv, [Next]_vars
  PROVE  TunnelsInv'
<1>1. ASSUME NEW n \in Nodes, NEW k \in Tunnels, NEW kind \in Kinds, MakeCounted(n, k, kind)
      PROVE  TunnelsInv'
  <2>1. counter[n] + 1 \in Ids
    BY DEF TunnelsInv, Types, Ids
  <2> QED BY <1>1, <2>1, MakeNearStep DEF MakeCounted, NextStubId
<1>2. ASSUME NEW n \in Nodes, NEW k \in Tunnels,
             \/ RunRegisteredFRP(n, k)
             \/ RunFRPWithStub(n, k)
             \/ TransferFileToRemoteWithoutRegistration(n, k)
             \/ RegisteredTransferFileToRemote(n, k)
      PROVE  TunnelsInv'
  BY <1>1, <1>2 DEF RunRegisteredFRP, RunFRPWithStub, Kinds,
                    TransferFileToRemoteWithoutRegistration, RegisteredTransferFileToRemote
<1>3. ASSUME NEW n \in Nodes, NEW k \in Tunnels, OpenDynamic(n, k)
      PROVE  TunnelsInv'
  BY <1>3, MakeNearStep DEF OpenDynamic, Ids, Kinds
<1>4. ASSUME NEW k \in Tunnels, FrpConnect(k) \/ OpenFile(k)
      PROVE  TunnelsInv'
  BY <1>4, MakeFarStep DEF FrpConnect, OpenFile
<1>5. CASE UNCHANGED vars
  <2>1. /\ counter' = counter /\ table' = table /\ stub' = stub /\ calling' = calling
        /\ asked' = asked /\ answers' = answers /\ data' = data
        /\ received' = received /\ closes' = closes
    BY <1>5 DEF vars
  <2>2. Types'
    BY <2>1 DEF TunnelsInv, Types
  <2> QED BY <2>1, <2>2, Touched
<1>6. CASE Next
  BY <1>2, <1>3, <1>4, <1>6, ConnectFailsStep, ClosesStep, ConnectedStep, SendDataStep,
     HandleDataStep, LazyCloseStep DEF Next
<1> QED BY <1>5, <1>6

LEMMA TunnelsInvHolds == Spec => []TunnelsInv
BY TunnelsInvInit, TunnelsInvStep, PTL DEF Spec

\* However the calls for far stubs end, and however late a message is: the data of one
\* stream never comes to a stub of another, dynamic listeners apart.
THEOREM StreamsStayApart == Spec => []StreamsApart
<1>1. TunnelsInv => StreamsApart
  BY DEF TunnelsInv, Types, Heard, StreamsApart
<1> QED BY <1>1, TunnelsInvHolds, PTL

\* A stub in use is found under its id, and no table holds a stub that has been cancelled.
THEOREM LookupsStayRight == Spec => []LookupsRight
<1>1. TunnelsInv => LookupsRight
  BY DEF TunnelsInv, Listed, Findable, LookupsRight
<1> QED BY <1>1, TunnelsInvHolds, PTL
=============================================================================
