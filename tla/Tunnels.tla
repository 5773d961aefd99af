------------------------------- MODULE Tunnels -------------------------------
(***************************************************************************)
(* The stub manager of FRP (src/core/FRPStubManager.go, and the closing of *)
(* a stub in FRPStreamStub.go): how the two stubs of a tunnel are made,    *)
(* how messages find their stub, and how a tunnel ends.  What a stub does  *)
(* with the data of its stream is the subject of FRPStream.                *)
(*                                                                         *)
(* A tunnel k is one accepted connection, or one file.  Its stubs are the  *)
(* objects <<k, "near">>, on the node that accepted it, and <<k, "far">>.  *)
(* Stubs are kept under an id: the id of most is counted per node, but the *)
(* near stub of a dynamic tunnel has the code of its listener as its id,   *)
(* whatever else has that id.                                              *)
(***************************************************************************)
EXTENDS Integers, FiniteSets, Functions

CONSTANTS
  Nodes,
  PeerOf,       \* the remote node of the listeners of a node
  Listeners,    \* a node with the kind of the tunnels it opens
  Code,         \* the code of the dynamic listener of a node
  MaxTunnels,   \* a bound on the connections accepted
  MaxData       \* a bound on the data messages sent

\* How the near stub of a tunnel came to be: with an id of its own, with the code of a
\* listener, or for the transfer of a file under a registered code.
Kinds == {"counted", "dynamic", "registered file"}

ASSUME TunnelsAssumption ==
  /\ IsFiniteSet(Nodes)
  /\ PeerOf \in [Nodes -> Nodes]
  /\ Listeners \subseteq Nodes \X Kinds
  /\ Code \notin Nat
  /\ MaxTunnels \in Nat /\ MaxData \in Nat

Tunnels == 1..MaxTunnels
Stubs == Tunnels \X {"near", "far"}

NoId == 0
Ids == Nat \cup {Code}

VARIABLES
  counter,  \* StubCounter of a node
  table,    \* Stubs of a node: the stub object under an id
  stub,     \* the stub objects that have been made
  calling,  \* the tunnels whose MakeRpcRequest has not returned
  asked,    \* the tunnels whose request for a far stub is under way
  answers,  \* the answers under way: the id of the far stub for a tunnel
  data,     \* the FRPData messages under way
  sent,     \* how many have been sent
  received, \* the stubs whose data has come to a stub
  closes    \* the FRPClose messages under way

vars == <<counter, table, stub, calling, asked, answers, data, sent, received, closes>>

Put(f, x, v) == [y \in DOMAIN f \cup {x} |-> IF y = x THEN v ELSE f[y]]

Other(s) == <<s[1], IF s[2] = "near" THEN "far" ELSE "near">>

Stub(n, id, peerNode, peerId, kind, phase) ==
  [node |-> n, id |-> id, peerNode |-> peerNode, peerId |-> peerId, kind |-> kind,
   phase |-> phase]

Init ==
  /\ counter = [n \in Nodes |-> 0]
  /\ table = [n \in Nodes |-> <<>>]
  /\ stub = [s \in {} |-> {}]
  /\ calling = {}
  /\ asked = {}
  /\ answers = {}
  /\ data = {}
  /\ sent = 0
  /\ received = [s \in Stubs |-> {}]
  /\ closes = {}

-----------------------------------------------------------------------------
\* Making a tunnel.

\* Mutant: the number of stubs instead of a counter.
HowMany(n) == Cardinality(DOMAIN table[n]) + 1

NextStubId(n) == counter[n] + 1

\* A near stub, and the call for a far one.
MakeNear(n, k, id, kind) ==
  /\ <<n, kind>> \in Listeners
  /\ <<k, "near">> \notin DOMAIN stub /\ \A i \in 1..(k - 1) : <<i, "near">> \in DOMAIN stub
  /\ stub' = Put(stub, <<k, "near">>, Stub(n, id, PeerOf[n], NoId, kind, "made"))
  /\ table' = [table EXCEPT ![n] = Put(@, id, <<k, "near">>)]
  /\ calling' = calling \cup {k}
  /\ asked' = asked \cup {k}
  /\ UNCHANGED <<answers, data, sent, received, closes>>

MakeCounted(n, k, kind) ==
  /\ MakeNear(n, k, NextStubId(n), kind)
  /\ counter' = [counter EXCEPT ![n] = @ + 1]

\* The listener accepts a connection.
RunRegisteredFRP(n, k) == MakeCounted(n, k, "counted")

\* The local target is dialled at once.
RunFRPWithStub(n, k) == MakeCounted(n, k, "counted")

\* A file is sent or fetched, and the stub is closed if the call fails.
TransferFileToRemoteWithoutRegistration(n, k) == MakeCounted(n, k, "counted")

\* A file is sent or fetched under a registered code.
RegisteredTransferFileToRemote(n, k) == MakeCounted(n, k, "registered file")

\* The listener of a dynamic tunnel accepts a connection: the stub is entered under the
\* code, and takes the place of the stub of an earlier connection.
OpenDynamic(n, k) == MakeNear(n, k, Code, "dynamic") /\ UNCHANGED counter

\* Mutant: the far stub is entered under the id of the near one.
SameIdAsPeer(n, id, peerId) == peerId

KeptUnder(n, id, peerId) == id

\* A far stub for a request that has come.
MakeFar(k) ==
  LET near == stub[<<k, "near">>]
      n == near.peerNode
      id == NextStubId(n)
  IN  /\ k \in asked
      /\ asked' = asked \ {k}
      /\ counter' = [counter EXCEPT ![n] = @ + 1]
      /\ stub' = Put(stub, <<k, "far">>, Stub(n, id, near.node, near.id, near.kind, "open"))
      /\ table' = [table EXCEPT ![n] = Put(@, KeptUnder(n, id, near.id), <<k, "far">>)]
      /\ answers' = IF k \in calling THEN answers \cup {<<k, id>>} ELSE answers
      /\ UNCHANGED <<calling, data, sent, received, closes>>

\* _frp_connect and _frp_dynamic_connect, if the target can be reached.
FrpConnect(k) == MakeFar(k) /\ stub[<<k, "near">>].kind # "registered file"

\* _open_file and _open_file_dynamic, if the file can be opened.
OpenFile(k) == MakeFar(k) /\ stub[<<k, "near">>].kind # "dynamic"

\* The target cannot be reached, the file cannot be opened, or the call is lost.
ConnectFails(k) ==
  /\ k \in asked
  /\ asked' = asked \ {k}
  /\ UNCHANGED <<counter, table, stub, calling, answers, data, sent, received, closes>>

\* The id of the far stub has come; the loops of the near stub start, also if its closing
\* has begun.
Connected(k, id) ==
  /\ <<k, id>> \in answers
  /\ answers' = answers \ {<<k, id>>}
  /\ calling' = calling \ {k}
  /\ stub' = [stub EXCEPT ![<<k, "near">>].peerId = id,
                          ![<<k, "near">>].phase = IF @ = "made" THEN "open" ELSE @]
  /\ UNCHANGED <<counter, table, asked, data, sent, received, closes>>

SendClose(s) == closes' = closes \cup {[to |-> stub[s].peerNode, id |-> stub[s].id]}

Closing(s) ==
  [stub EXCEPT ![s].phase = IF @ \in {"made", "open"} THEN "closing" ELSE @]

\* Mutant: the failure of the call leaves every stub as it is.
LeavesStub(kind) == TRUE

\* RegisteredTransferFileToRemote returns without closing its stub.
StaysOpen(kind) == kind = "registered file"

\* MakeRpcRequest has failed: doClose.  A request that is still under way makes a far stub
\* all the same.
GiveUp(k) ==
  /\ k \in calling
  /\ calling' = calling \ {k}
  /\ answers' = {x \in answers : x[1] # k}
  /\ IF StaysOpen(stub[<<k, "near">>].kind)
     THEN UNCHANGED <<stub, closes>>
     ELSE stub' = Closing(<<k, "near">>) /\ SendClose(<<k, "near">>)
  /\ UNCHANGED <<counter, table, asked, data, sent, received>>

-----------------------------------------------------------------------------
\* Messages.

\* A stub sends data, an acknowledgement or a request for data.
SendData(s) ==
  /\ stub[s].phase \in {"open", "closing"}
  /\ stub[s].peerId # NoId
  /\ sent < MaxData
  /\ sent' = sent + 1
  /\ data' = data \cup {[to |-> stub[s].peerNode, id |-> stub[s].peerId, from |-> s]}
  /\ UNCHANGED <<counter, table, stub, calling, asked, answers, received, closes>>

\* handleFrpMessages: GetStubById, and the message goes into inChan of the stub found.
HandleData(m) ==
  /\ m \in data
  /\ data' = data \ {m}
  /\ received' = IF m.id \in DOMAIN table[m.to]
                 THEN [received EXCEPT ![table[m.to][m.id]] = @ \cup {m.from}]
                 ELSE received
  /\ UNCHANGED <<counter, table, stub, calling, asked, answers, sent, closes>>

\* The same for FRPClose, whose id is that of the stub that sent it; then onClose.
HandleClose(m) ==
  /\ m \in closes
  /\ closes' = closes \ {m}
  /\ stub' = IF m.id \in DOMAIN table[m.to] THEN Closing(table[m.to][m.id]) ELSE stub
  /\ UNCHANGED <<counter, table, calling, asked, answers, data, sent, received>>

-----------------------------------------------------------------------------
\* Closing.

\* doClose: the connection of a stub ends, or a call of CloseStub or CloseAllStubs.
DoClose(s) ==
  /\ stub[s].phase = "open"
  /\ stub' = Closing(s)
  /\ SendClose(s)
  /\ UNCHANGED <<counter, table, calling, asked, answers, data, sent, received>>

\* DeleteStubById.
DeleteStubById(s) ==
  [table EXCEPT ![stub[s].node] = Restrict(@, DOMAIN @ \ {stub[s].id})]

\* Mutant: a stub is closed only if it is the one its id stands for.
WhileListed(s) ==
  stub[s].id \in DOMAIN table[stub[s].node] /\ table[stub[s].node][stub[s].id] = s

MayClose(s) == TRUE

\* lazyClose, once the stub has been idle for long enough.
LazyClose(s) ==
  /\ stub[s].phase = "closing"
  /\ MayClose(s)
  /\ stub' = [stub EXCEPT ![s].phase = "cancelled"]
  /\ table' = DeleteStubById(s)
  /\ UNCHANGED <<counter, calling, asked, answers, data, sent, received, closes>>

-----------------------------------------------------------------------------
Next ==
  \/ \E n \in Nodes, k \in Tunnels :
       \/ RunRegisteredFRP(n, k)
       \/ RunFRPWithStub(n, k)
       \/ TransferFileToRemoteWithoutRegistration(n, k)
       \/ RegisteredTransferFileToRemote(n, k)
       \/ OpenDynamic(n, k)
  \/ \E k \in Tunnels : FrpConnect(k) \/ OpenFile(k) \/ ConnectFails(k) \/ GiveUp(k)
  \/ \E a \in answers : Connected(a[1], a[2])
  \/ \E s \in DOMAIN stub : SendData(s) \/ DoClose(s) \/ LazyClose(s)
  \/ \E m \in data : HandleData(m)
  \/ \E m \in closes : HandleClose(m)

Spec == Init /\ [][Next]_vars

\* A call returns after its timeout at the latest.  The ticker of lazyClose goes on, and a
\* stub that is closing falls idle in the end.
FairSpec ==
  /\ Spec
  /\ \A k \in Tunnels : WF_vars(GiveUp(k))
  /\ \A s \in Stubs : WF_vars(s \in DOMAIN stub /\ LazyClose(s))
-----------------------------------------------------------------------------

\* The data of one stream never comes to another, though stubs of the two nodes have the
\* same ids and messages outlive the stubs they are for; only the connections of one
\* dynamic listener share an id.
StreamsApart ==
  \A s \in DOMAIN stub :
    stub[s].id # Code => received[s] \subseteq {Other(s)}

\* A stub that is in use is found under its id, whatever other stubs were closed (except,
\* again, on a dynamic listener), and nobody finds one that has been cancelled.
LookupsRight ==
  /\ \A s \in DOMAIN stub :
       stub[s].id # Code /\ stub[s].phase \in {"made", "open"}
       => stub[s].id \in DOMAIN table[stub[s].node] /\ table[stub[s].node][stub[s].id] = s
  /\ \A n \in Nodes : \A id \in DOMAIN table[n] : stub[table[n][id]].phase # "cancelled"

\* A stub whose closing has begun is cancelled in the end, also if its id has been taken
\* over meanwhile.
ClosingEnds ==
  \A s \in Stubs : (s \in DOMAIN stub /\ stub[s].phase = "closing")
                   ~> (s \in DOMAIN stub /\ stub[s].phase = "cancelled")

\* Every call for a far stub ends with a stub that knows its peer or that is closed, except
\* for the file transfers that leave theirs.
CallsDecide ==
  \A k \in Tunnels :
    k \in calling ~> /\ <<k, "near">> \in DOMAIN stub
                     /\ LET near == stub[<<k, "near">>]
                        IN  \/ near.peerId # NoId
                            \/ near.phase = "cancelled"
                            \/ near.kind = "registered file"
=============================================================================
