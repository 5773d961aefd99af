---------------------------- MODULE SessionProofs ----------------------------
(***************************************************************************)
(* Proofs about Session, for any sessions, any ids and any number of       *)
(* requests: a call returns its own answer, nothing is left of a session   *)
(* that is over, and the node has the callbacks its clients have asked for.*)
(***************************************************************************)
EXTENDS Session, TLAPS

Plain == {"SUBSCRIBE", "UNSUBSCRIBE", "REGISTER_RPC", "UNREGISTER_RPC", "QUIT", "QUIT, removed"}

Packages ==
  UNION {[method : Plain],
         [method : {"RPC"}, n : 0..MaxOps, provider : Providers],
         [method : {"GROUP", "PUBLISH", "SUB_RESULT"}, n : 0..MaxOps],
         [method : {"RETURN_RESULT"}, local : Nat, result : Calls]}

Messages ==
  UNION {[method : {"RPC_RESULT"}, n : 0..MaxOps, result : Calls \cup {Failed}],
         [method : {"RPC_CALL"}, local : Nat, args : Calls],
         [method : {"SUB_RESULT"}]}

Types ==
  /\ idOf \in [Sessions -> Ids]
  /\ phase \in [Sessions -> {"new", "up", "http", "over"}]
  /\ stage \in [Sessions -> {"none", "serving", "ended", "deleted", "gone"}]
  /\ handling \subseteq Sessions \X Packages
  /\ clients \in [Ids -> Sessions \cup {Nobody}]
  /\ mySubs \in [Ids -> Sessions \cup {Nobody}]
  /\ rpcFuncs \in [Ids -> Sessions \cup {Nobody}]
  /\ subFuncs \subseteq Sessions
  /\ offers \subseteq Sessions
  /\ ops \in 0..MaxOps
  /\ invokeId \in [Sessions -> Nat]
  /\ \A s \in Sessions : invokeId[s] <= ops
  /\ returned \in [Calls -> Calls \cup {NotMade, Waiting, Failed}]
  /\ rpcInvokeCounter \in Nat
  /\ pendingRpc \subseteq [local : Nat, call : Calls, answer : Calls \cup {Waiting, Failed}]
  /\ sendCh \in [Sessions -> Seq(Messages)]
  /\ raced \subseteq Sessions
  /\ late \subseteq Sessions

\* What is in a SendCh.
Elems(q) == {q[k] : k \in 1..Len(q)}

\* The call that waits for an answer under a local id, if one does, is this call.
Expected(local, call) ==
  /\ local <= rpcInvokeCounter
  /\ \A r \in pendingRpc : r.local = local /\ r.answer = Waiting => r.call = call

\* A message on its way to the client of a session.
Fits(s, m) ==
  /\ m.method = "RPC_RESULT" /\ m.result \in Calls =>
       idOf[m.result[1]] = idOf[s] /\ m.result[2] = m.n
  /\ m.method = "RPC_CALL" => Expected(m.local, m.args)

\* The local ids lead every answer back to its call: local ids are never used again, so an
\* answer that is late finds its own call or none.
Relayed ==
  /\ AnswersMatch
  /\ \A s \in Sessions : \A m \in Elems(sendCh[s]) : Fits(s, m)
  /\ \A g \in handling : g[2].method = "RETURN_RESULT" => Expected(g[2].local, g[2].result)
  /\ \A r \in pendingRpc : /\ r.local <= rpcInvokeCounter
                           /\ r.answer \in {Waiting, Failed, r.call}

\* What the maps of server and node hold under an id belongs to a session with that id, and
\* goes when the session ends, unless it is entered afterwards.
Owners ==
  \A i \in Ids, s \in Sessions :
    /\ clients[i] = s => idOf[s] = i /\ stage[s] \notin {"none", "deleted", "gone"}
    /\ mySubs[i] = s => /\ idOf[s] = i /\ phase[s] # "new"
                        /\ stage[s] = "gone" => s \in late
    /\ rpcFuncs[i] = s => /\ idOf[s] = i /\ phase[s] # "new"
                          /\ stage[s] = "gone" => s \in late

Quits == {"QUIT", "QUIT, removed"}

\* Client and server agree on whether a session has begun and whether it may be over.
Stages ==
  /\ \A s \in Sessions :
       /\ phase[s] = "new" => stage[s] = "none" /\ s \notin subFuncs /\ s \notin offers
       /\ phase[s] # "new" => stage[s] # "none"
       /\ phase[s] \in {"up", "http"} => stage[s] = "serving"
  /\ \A g \in handling :
       /\ phase[g[1]] # "new"
       /\ g[2].method \in Quits => phase[g[1]] = "over"

\* No other session has, or has had, the id.
Alone(s) == \A t \in Sessions \ {s} : idOf[t] = idOf[s] => phase[t] = "new"

\* The packages of a session about the topic.
Topics(s) == {g \in handling : g[1] = s /\ g[2].method \in AboutTopic}

\* The function that a client offers is at the node, or on its way.
OnItsWay(s) ==
  phase[s] = "up" /\ Alone(s) /\ s \in offers =>
    \/ rpcFuncs[idOf[s]] = s
    \/ \E g \in handling : g[1] = s /\ g[2].method = "REGISTER_RPC"

\* A client that has not raced has one package about the topic under way, which says what
\* it wants, or none, and then the node does what it wants.
OneWish(s) ==
  phase[s] = "up" /\ Alone(s) /\ s \notin raced =>
    /\ \A g, h \in Topics(s) : g = h
    /\ \A g \in Topics(s) : g[2].method = "SUBSCRIBE" <=> s \in subFuncs
    /\ Topics(s) = {} => (mySubs[idOf[s]] = s <=> s \in subFuncs)

Kept == Owners /\ Stages /\ \A s \in Sessions : OnItsWay(s) /\ OneWish(s)

SessionInv == Types /\ Relayed /\ Kept

-----------------------------------------------------------------------------
\* The objects of the model.

LEMMA Bounds == MaxOps \in Nat /\ Nobody \notin Sessions /\ Providers \subseteq Ids
BY SessionAssumption

LEMMA CallsAre ==
  /\ Waiting \notin Calls /\ Failed \notin Calls /\ NotMade \notin Calls
  /\ Waiting # Failed /\ Waiting # NotMade /\ Failed # NotMade
  /\ \A c \in Calls : c[1] \in Sessions /\ c[2] \in 0..MaxOps /\ c = <<c[1], c[2]>>
  /\ \A s \in Sessions, n \in 0..MaxOps :
       <<s, n>> \in Calls /\ <<s, n>>[1] = s /\ <<s, n>>[2] = n
<1>1. \A c \in Calls : c[1] \in Sessions /\ c[2] \in 0..MaxOps /\ c = <<c[1], c[2]>>
  BY DEF Calls
<1>2. \A s \in Sessions, n \in 0..MaxOps :
        <<s, n>> \in Calls /\ <<s, n>>[1] = s /\ <<s, n>>[2] = n
  BY DEF Calls
<1>3. Waiting[1] = Nobody /\ Failed[1] = Nobody /\ NotMade[1] = Nobody
  BY DEF Waiting, Failed, NotMade, Nobody
<1>4. Waiting[2] = 1 /\ Failed[2] = 2 /\ NotMade[2] = 0
  BY DEF Waiting, Failed, NotMade
<1>5. Waiting \notin Calls /\ Failed \notin Calls /\ NotMade \notin Calls
  BY <1>1, <1>3, Bounds
<1>6. Waiting # Failed /\ Waiting # NotMade /\ Failed # NotMade
  BY <1>4
<1> QED BY <1>1, <1>2, <1>5, <1>6

LEMMA PackageFields ==
  ASSUME NEW p \in Packages
  PROVE  /\ p.method = "RPC" => p.n \in 0..MaxOps /\ p.provider \in Providers
         /\ p.method \in {"GROUP", "PUBLISH", "SUB_RESULT"} => p.n \in 0..MaxOps
         /\ p.method = "RETURN_RESULT" => p.local \in Nat /\ p.result \in Calls
<1>1. CASE p \in [method : Plain]
  BY <1>1 DEF Plain
<1>2. CASE p \in [method : {"RPC"}, n : 0..MaxOps, provider : Providers]
  BY <1>2
<1>3. CASE p \in [method : {"GROUP", "PUBLISH", "SUB_RESULT"}, n : 0..MaxOps]
  BY <1>3
<1>4. CASE p \in [method : {"RETURN_RESULT"}, local : Nat, result : Calls]
  BY <1>4
<1> QED BY <1>1, <1>2, <1>3, <1>4 DEF Packages

LEMMA PackagesMade ==
  /\ \A m \in Plain : [method |-> m] \in Packages
  /\ \A n \in 0..MaxOps :
       /\ \A p \in Providers : [method |-> "RPC", n |-> n, provider |-> p] \in Packages
       /\ [method |-> "GROUP", n |-> n] \in Packages
       /\ [method |-> "PUBLISH", n |-> n] \in Packages
       /\ [method |-> "SUB_RESULT", n |-> n] \in Packages
  /\ \A l \in Nat, c \in Calls :
       [method |-> "RETURN_RESULT", local |-> l, result |-> c] \in Packages
BY DEF Packages

LEMMA MessageFields ==
  ASSUME NEW m \in Messages
  PROVE  /\ m.method \in {"RPC_RESULT", "RPC_CALL", "SUB_RESULT"}
         /\ m.method = "RPC_RESULT" => m.n \in 0..MaxOps /\ m.result \in Calls \cup {Failed}
         /\ m.method = "RPC_CALL" => m.local \in Nat /\ m.args \in Calls
BY DEF Messages

LEMMA MessagesMade ==
  /\ \A n \in 0..MaxOps, a \in Calls \cup {Failed} :
       [method |-> "RPC_RESULT", n |-> n, result |-> a] \in Messages
  /\ \A l \in Nat, c \in Calls :
       [method |-> "RPC_CALL", local |-> l, args |-> c] \in Messages
  /\ [method |-> "SUB_RESULT"] \in Messages
BY DEF Messages

LEMMA Handled ==
  ASSUME Types, NEW g \in handling
  PROVE  g[1] \in Sessions /\ g[2] \in Packages /\ g = <<g[1], g[2]>>
BY DEF Types

LEMMA PendingFields ==
  ASSUME Types, NEW r \in pendingRpc
  PROVE  r.local \in Nat /\ r.call \in Calls /\ r.answer \in Calls \cup {Waiting, Failed}
BY DEF Types

LEMMA EarlyIs ==
  ASSUME NEW i \in Ids
  PROVE  /\ EarlyOf(i) \in Early \cup {Nobody}
         /\ EarlyOf(i) # Nobody => idOf[EarlyOf(i)] = i
         /\ \A s \in Early : idOf[s] = i => EarlyOf(i) # Nobody
<1>1. CASE \E s \in Early : idOf[s] = i
  <2>1. EarlyOf(i) = CHOOSE s \in Early : idOf[s] = i
    BY <1>1 DEF EarlyOf
  <2>2. EarlyOf(i) \in Early /\ idOf[EarlyOf(i)] = i
    BY <1>1, <2>1
  <2> QED BY <2>2, SessionAssumption
<1>2. CASE ~\E s \in Early : idOf[s] = i
  BY <1>2 DEF EarlyOf
<1> QED BY <1>1, <1>2

-----------------------------------------------------------------------------
\* The types.

LEMMA TypesInit ==
  ASSUME Init
  PROVE  Types
<1>1. \A i \in Ids : EarlyOf(i) \in Sessions \cup {Nobody}
  BY EarlyIs, SessionAssumption
<1>2. idOf \in [Sessions -> Ids] /\ offers \subseteq Sessions
  BY SessionAssumption DEF Init
<1>3. ops \in 0..MaxOps /\ invokeId \in [Sessions -> Nat] /\ \A s \in Sessions : invokeId[s] <= ops
  BY Bounds DEF Init
<1>4. sendCh \in [Sessions -> Seq(Messages)]
  BY DEF Init
<1> QED BY <1>1, <1>2, <1>3, <1>4 DEF Init, Types

LEMMA AskTypes ==
  ASSUME Types, NEW s \in Sessions,
         \/ Subscribe(s) \/ Unsubscribe(s) \/ RegisterRpc(s) \/ UnregisterRpc(s)
         \/ Publish(s) \/ GroupCall(s) \/ \E p \in Providers : CallRpc(s, p)
  PROVE  Types'
<1>1. PICK p \in Packages : Ask(s, p)
  <2>1. CASE Subscribe(s) \/ Unsubscribe(s) \/ RegisterRpc(s) \/ UnregisterRpc(s)
    BY <2>1, PackagesMade DEF Plain, Subscribe, Unsubscribe, RegisterRpc, UnregisterRpc
  <2>2. CASE Publish(s)
    BY <2>2, PackagesMade DEF Publish, Types
  <2>3. CASE GroupCall(s) \/ \E q \in Providers : CallRpc(s, q)
    <3>1. ops < MaxOps
      BY <2>3 DEF GroupCall, CallRpc, Ask
    <3>2. invokeId[s] + 1 \in 0..MaxOps
      BY <3>1, Bounds DEF Types
    <3> QED BY <2>3, <3>2, PackagesMade DEF GroupCall, CallRpc
  <2> QED BY <2>1, <2>2, <2>3
<1>2. /\ ops < MaxOps /\ ops' = ops + 1
      /\ handling' = handling \cup {<<s, p>>}
      /\ raced' = raced \/ raced' = raced \cup {s}
      /\ UNCHANGED <<idOf, stage, clients, mySubs, rpcFuncs, rpcInvokeCounter, pendingRpc,
                     late, sendCh>>
  BY <1>1 DEF Ask, Send
<1>3. /\ phase' = phase
      /\ subFuncs' \subseteq subFuncs \cup {s} /\ offers' \subseteq offers \cup {s}
      /\ \/ invokeId' = invokeId /\ returned' = returned
         \/ /\ invokeId' = [invokeId EXCEPT ![s] = @ + 1]
            /\ returned' = [returned EXCEPT ![<<s, invokeId[s] + 1>>] = Waiting]
  BY DEF Subscribe, Unsubscribe, RegisterRpc, UnregisterRpc, Publish, GroupCall, CallRpc
<1>4. /\ ops' \in 0..MaxOps /\ invokeId' \in [Sessions -> Nat]
      /\ \A t \in Sessions : invokeId'[t] <= ops'
  <2>1. ops \in Nat /\ invokeId \in [Sessions -> Nat] /\ \A t \in Sessions : invokeId[t] <= ops
    BY Bounds DEF Types
  <2>2. ops' \in 0..MaxOps
    BY <1>2, <2>1, Bounds
  <2>3. \A t \in Sessions : invokeId'[t] \in {invokeId[t], invokeId[t] + 1}
    <3>1. CASE invokeId' = invokeId
      BY <3>1
    <3>2. CASE invokeId' = [invokeId EXCEPT ![s] = @ + 1]
      BY <2>1, <3>2
    <3> QED BY <1>3, <3>1, <3>2
  <2>4. invokeId' \in [Sessions -> Nat]
    BY <1>3, <2>1
  <2>5. ASSUME NEW t \in Sessions
        PROVE  invokeId'[t] <= ops'
    <3>1. invokeId[t] \in Nat /\ invokeId[t] <= ops
      BY <2>1
    <3> QED BY <1>2, <2>1, <2>3, <3>1
  <2> QED BY <2>2, <2>4, <2>5
<1>5. returned' \in [Calls -> Calls \cup {NotMade, Waiting, Failed}]
  BY <1>3 DEF Types
<1>6. handling' \subseteq Sessions \X Packages /\ raced' \subseteq Sessions
  BY <1>1, <1>2 DEF Types
<1> QED BY <1>2, <1>3, <1>4, <1>5, <1>6 DEF Types

LEMMA ClientTypes ==
  ASSUME Types,
         \/ \E s \in Sessions : Connect(s) \/ Quit(s) \/ LoseConnection(s)
         \/ \E c \in Calls : CallTimesOut(c)
  PROVE  Types'
<1>1. ASSUME NEW s \in Sessions, Connect(s)
      PROVE  Types'
  BY <1>1 DEF Connect, Types
<1>2. ASSUME NEW s \in Sessions, Quit(s) \/ LoseConnection(s)
      PROVE  Types'
  <2>1. [method |-> "QUIT"] \in Packages
    BY PackagesMade DEF Plain
  <2>2. /\ phase' = [phase EXCEPT ![s] = "over"]
        /\ handling' \subseteq handling \cup {<<s, [method |-> "QUIT"]>>}
        /\ raced' \subseteq raced \cup {s}
        /\ UNCHANGED <<idOf, subFuncs, offers, invokeId, returned, ops, stage, clients, mySubs,
                       rpcFuncs, rpcInvokeCounter, pendingRpc, late, sendCh>>
    BY <1>2 DEF Quit, LoseConnection, Send, server
  <2> QED BY <2>1, <2>2 DEF Types
<1>3. ASSUME NEW c \in Calls, CallTimesOut(c)
      PROVE  Types'
  BY <1>3 DEF CallTimesOut, Types, server
<1> QED BY <1>1, <1>2, <1>3

LEMMA TailTypes ==
  ASSUME Types, NEW s \in Sessions, sendCh[s] # <<>>
  PROVE  Head(sendCh[s]) \in Messages /\ Tail(sendCh[s]) \in Seq(Messages)
BY DEF Types

LEMMA HandleMessageTypes ==
  ASSUME Types, NEW s \in Sessions, HandleMessage(s)
  PROVE  Types'
<1> DEFINE m == Head(sendCh[s])
           back == [method |-> "RETURN_RESULT", local |-> m.local, result |-> m.args]
<1>1. /\ sendCh[s] # <<>>
      /\ sendCh' = [sendCh EXCEPT ![s] = Tail(@)]
      /\ UNCHANGED <<idOf, phase, stage, clients, mySubs, rpcFuncs, subFuncs, offers, invokeId,
                     ops, rpcInvokeCounter, pendingRpc, late>>
  BY DEF HandleMessage
<1>2. m \in Messages /\ Tail(sendCh[s]) \in Seq(Messages)
  BY <1>1, TailTypes
<1>3. sendCh' \in [Sessions -> Seq(Messages)]
  BY <1>1, <1>2 DEF Types
<1>4. CASE m.method = "RPC_RESULT"
  <2>1. TakeResult(s, m)
    BY <1>4 DEF HandleMessage
  <2> HIDE DEF m
  <2>2. /\ UNCHANGED <<handling, raced>>
        /\ returned' = returned \/ returned' = [returned EXCEPT ![<<s, m.n>>] = m.result]
    BY <2>1 DEF TakeResult
  <2>3. returned' \in [Calls -> Calls \cup {NotMade, Waiting, Failed}]
    BY <1>2, <1>4, <2>2, MessageFields DEF Types
  <2> QED BY <1>1, <1>3, <2>2, <2>3 DEF Types
<1>5. CASE m.method = "RPC_CALL"
  <2>1. RunRpc(s, m)
    BY <1>5 DEF HandleMessage
  <2> HIDE DEF m
  <2>2. back \in Packages
    BY <1>2, <1>5, MessageFields, PackagesMade
  <2>3. /\ returned' = returned
        /\ handling' \subseteq handling \cup {<<s, back>>}
        /\ raced' \subseteq raced \cup {s}
    BY <2>1 DEF RunRpc, Send
  <2> HIDE DEF back
  <2> QED BY <1>1, <1>3, <2>2, <2>3 DEF Types
<1>6. CASE m.method = "SUB_RESULT"
  <2>1. UNCHANGED <<handling, raced, returned>>
    BY <1>6 DEF HandleMessage
  <2> QED BY <1>1, <1>3, <2>1 DEF Types
<1> QED BY <1>2, <1>4, <1>5, <1>6, MessageFields

LEMMA AppendTypes ==
  ASSUME Types, NEW t \in Sessions, NEW m \in Messages
  PROVE  [sendCh EXCEPT ![t] = Append(@, m)] \in [Sessions -> Seq(Messages)]
BY DEF Types

LEMMA SendToClientTypes ==
  ASSUME Types, NEW i \in Ids, NEW m \in Messages, SendToClient(i, m)
  PROVE  sendCh' \in [Sessions -> Seq(Messages)]
BY AppendTypes DEF SendToClient, Types

LEMMA CallbacksTypes ==
  ASSUME Types, NEW n \in 0..MaxOps
  PROVE  Callbacks(n) \subseteq Sessions \X Packages
<1>1. \A i \in Ids : mySubs[i] # Nobody => mySubs[i] \in Sessions
  BY DEF Types
<1>2. [method |-> "SUB_RESULT", n |-> n] \in Packages
  BY PackagesMade
<1> QED BY <1>1, <1>2 DEF Callbacks

\* The packages that change what the node keeps for a client.
LEMMA KeepTypes ==
  ASSUME Types, NEW s \in Sessions, NEW p \in Packages,
         \/ HandleSubscribePackage(s, p)
         \/ HandleUnsubscribePackage(s, p)
         \/ HandleRPCRegisterPackage(s, p)
         \/ HandleRPCUnregisterPackage(s, p)
         \/ HandleQuitPackage(s, p)
  PROVE  Types'
<1>1. idOf[s] \in Ids
  BY DEF Types
<1>2. [method |-> "QUIT, removed"] \in Packages
  BY PackagesMade DEF Plain
<1>3. /\ handling' \subseteq handling \cup {<<s, [method |-> "QUIT, removed"]>>}
      /\ UNCHANGED <<idOf, phase, subFuncs, offers, invokeId, returned, ops, stage, raced,
                     rpcInvokeCounter, pendingRpc, sendCh>>
  BY DEF HandleSubscribePackage, HandleUnsubscribePackage, HandleRPCRegisterPackage,
         HandleRPCUnregisterPackage, HandleQuitPackage, Handles, client
<1>4. /\ clients' = clients \/ clients' = [clients EXCEPT ![idOf[s]] = Nobody]
      /\ \/ mySubs' = mySubs
         \/ mySubs' = [mySubs EXCEPT ![idOf[s]] = Nobody]
         \/ mySubs' = [mySubs EXCEPT ![idOf[s]] = s]
      /\ \/ rpcFuncs' = rpcFuncs
         \/ rpcFuncs' = [rpcFuncs EXCEPT ![idOf[s]] = Nobody]
         \/ rpcFuncs' = [rpcFuncs EXCEPT ![idOf[s]] = s]
      /\ late' \subseteq late \cup {s}
  BY DEF HandleSubscribePackage, HandleUnsubscribePackage, HandleRPCRegisterPackage,
         HandleRPCUnregisterPackage, HandleQuitPackage, RemoveClient, DeleteClient,
         Forgotten, ClearSubClient, UnregisterRpcServicesByClient
<1>5. /\ clients' \in [Ids -> Sessions \cup {Nobody}]
      /\ mySubs' \in [Ids -> Sessions \cup {Nobody}]
      /\ rpcFuncs' \in [Ids -> Sessions \cup {Nobody}]
  <2>1. clients' \in [Ids -> Sessions \cup {Nobody}]
    BY <1>1, <1>4 DEF Types
  <2>2. mySubs' \in [Ids -> Sessions \cup {Nobody}]
    BY <1>1, <1>4 DEF Types
  <2>3. rpcFuncs' \in [Ids -> Sessions \cup {Nobody}]
    BY <1>1, <1>4 DEF Types
  <2> QED BY <2>1, <2>2, <2>3
<1>6. handling' \subseteq Sessions \X Packages
  <2>1. <<s, [method |-> "QUIT, removed"]>> \in Sessions \X Packages
    BY <1>2
  <2>2. handling \subseteq Sessions \X Packages
    BY DEF Types
  <2> QED BY <1>3, <2>1, <2>2
<1>7. late' \subseteq Sessions
  BY <1>4 DEF Types
<1> QED BY <1>3, <1>5, <1>6, <1>7 DEF Types

\* The packages that are relayed.
LEMMA InvokeTypes ==
  ASSUME Types, NEW s \in Sessions, NEW p \in Packages, HandleRPCCallPackage(s, p)
  PROVE  Types'
<1> DEFINE to == rpcFuncs[p.provider]
           call == <<s, p.n>>
           local == rpcInvokeCounter + 1
           new == [local |-> local, call |-> call, answer |-> Waiting]
           none == [local |-> 0, call |-> call, answer |-> Failed]
           m == [method |-> "RPC_CALL", local |-> local, args |-> call]
<1>1. p.n \in 0..MaxOps /\ p.provider \in Providers
  BY PackageFields DEF HandleRPCCallPackage
<1>2. call \in Calls /\ to \in Sessions \cup {Nobody} /\ local \in Nat
  BY <1>1, CallsAre, Bounds DEF Types
<1>3. /\ handling' \subseteq handling
      /\ UNCHANGED <<idOf, phase, subFuncs, offers, invokeId, returned, ops, stage, raced,
                     clients, mySubs, rpcFuncs, late>>
      /\ InvokeLocalRpc(to, call)
  BY DEF HandleRPCCallPackage, Handles, client
<1>4. m \in Messages
  BY <1>2, MessagesMade
<1>5. /\ new \in [local : Nat, call : Calls, answer : Calls \cup {Waiting, Failed}]
      /\ none \in [local : Nat, call : Calls, answer : Calls \cup {Waiting, Failed}]
  BY <1>2
<1>6. \/ /\ pendingRpc' = pendingRpc \cup {none}
         /\ UNCHANGED <<rpcInvokeCounter, sendCh>>
      \/ /\ to \in Sessions
         /\ rpcInvokeCounter' = local
         /\ pendingRpc' = pendingRpc \cup {new}
         /\ sendCh' = [sendCh EXCEPT ![to] = Append(@, m)]
  BY <1>2, <1>3 DEF InvokeLocalRpc, NextLocalInvokeId
<1> HIDE DEF to, call, local, new, none, m
<1>7. pendingRpc' \subseteq [local : Nat, call : Calls, answer : Calls \cup {Waiting, Failed}]
  <2>1. pendingRpc \subseteq [local : Nat, call : Calls, answer : Calls \cup {Waiting, Failed}]
    BY DEF Types
  <2> QED BY <1>5, <1>6, <2>1
<1>8. rpcInvokeCounter' \in Nat
  BY <1>2, <1>6 DEF Types
<1>9. sendCh' \in [Sessions -> Seq(Messages)]
  <2>1. to \in Sessions => [sendCh EXCEPT ![to] = Append(@, m)] \in [Sessions -> Seq(Messages)]
    BY <1>4, AppendTypes
  <2>2. sendCh \in [Sessions -> Seq(Messages)]
    BY DEF Types
  <2> QED BY <1>6, <2>1, <2>2
<1> QED BY <1>3, <1>7, <1>8, <1>9 DEF Types

LEMMA AnsweredTypes ==
  ASSUME NEW r \in [local : Nat, call : Calls, answer : Calls \cup {Waiting, Failed}],
         NEW a \in Calls \cup {Waiting, Failed}, NEW q \in Answered(r, a)
  PROVE  /\ q \in [local : Nat, call : Calls, answer : Calls \cup {Waiting, Failed}]
         /\ q.local = r.local /\ q.call = r.call /\ q.answer = a
BY DEF Answered

LEMMA ReturnTypes ==
  ASSUME Types, NEW s \in Sessions, NEW p \in Packages, HandleReturnResultPackage(s, p)
  PROVE  Types'
<1>1. p.result \in Calls
  BY PackageFields DEF HandleReturnResultPackage
<1>2. /\ handling' \subseteq handling
      /\ UNCHANGED <<idOf, phase, subFuncs, offers, invokeId, returned, ops, stage, raced,
                     clients, mySubs, rpcFuncs, rpcInvokeCounter, late, sendCh>>
      /\ \/ pendingRpc' = pendingRpc
         \/ \E r \in pendingRpc : pendingRpc' = (pendingRpc \ {r}) \cup Answered(r, p.result)
  BY DEF HandleReturnResultPackage, Handles, client
<1>3. pendingRpc' \subseteq [local : Nat, call : Calls, answer : Calls \cup {Waiting, Failed}]
  <2>1. pendingRpc \subseteq [local : Nat, call : Calls, answer : Calls \cup {Waiting, Failed}]
    BY DEF Types
  <2> QED BY <1>1, <1>2, <2>1, AnsweredTypes
<1> QED BY <1>2, <1>3 DEF Types

LEMMA ResultIs ==
  ASSUME NEW c \in Calls, NEW a \in Calls \cup {Failed}
  PROVE  /\ Result(c, a) \in Messages
         /\ Result(c, a).method = "RPC_RESULT"
         /\ Result(c, a).n = c[2]
         /\ Result(c, a).result = a
BY CallsAre, MessagesMade DEF Result

LEMMA GroupTypes ==
  ASSUME Types, NEW s \in Sessions, NEW p \in Packages,
         HandleGroupPackage(s, p) \/ SubCallback(s, p) \/ HandlePublishPackage(s, p)
  PROVE  Types'
<1>1. /\ UNCHANGED <<idOf, phase, subFuncs, offers, invokeId, returned, ops, stage, raced,
                     clients, mySubs, rpcFuncs, rpcInvokeCounter, pendingRpc, late>>
  BY DEF HandleGroupPackage, SubCallback, HandlePublishPackage, Handles, client
<1>2. CASE HandleGroupPackage(s, p)
  <2>1. p.n \in 0..MaxOps
    BY <1>2, PackageFields DEF HandleGroupPackage
  <2>2. <<s, p.n>> \in Calls /\ idOf[s] \in Ids
    BY <2>1, CallsAre DEF Types
  <2>3. PICK a \in {<<s, p.n>>, Failed} : SendToClient(idOf[s], Result(<<s, p.n>>, a))
    BY <1>2 DEF HandleGroupPackage
  <2>4. sendCh' \in [Sessions -> Seq(Messages)]
    BY <2>2, <2>3, ResultIs, SendToClientTypes
  <2>5. handling' \subseteq handling
    BY <1>2 DEF HandleGroupPackage, Handles
  <2> QED BY <1>1, <2>4, <2>5 DEF Types
<1>3. CASE SubCallback(s, p)
  <2>1. sendCh' \in [Sessions -> Seq(Messages)]
    BY <1>3, MessagesMade, AppendTypes DEF SubCallback
  <2>2. handling' \subseteq handling
    BY <1>3 DEF SubCallback, Handles
  <2> QED BY <1>1, <2>1, <2>2 DEF Types
<1>4. CASE HandlePublishPackage(s, p)
  <2>1. p.n \in 0..MaxOps
    BY <1>4, PackageFields DEF HandlePublishPackage
  <2>2. handling' \subseteq handling \cup Callbacks(p.n) /\ sendCh' = sendCh
    BY <1>4 DEF HandlePublishPackage
  <2>3. handling' \subseteq Sessions \X Packages
    BY <2>1, <2>2, CallbacksTypes DEF Types
  <2> QED BY <1>1, <2>2, <2>3 DEF Types
<1> QED BY <1>2, <1>3, <1>4

LEMMA PendingTypes ==
  ASSUME Types, NEW r \in pendingRpc, PendingTimesOut(r) \/ Reply(r) \/ RequestAnswered(r)
  PROVE  Types'
<1>1. r.call \in Calls /\ r.answer \in Calls \cup {Waiting, Failed} /\ r.call[1] \in Sessions
  BY PendingFields, CallsAre
<1>2. CASE PendingTimesOut(r)
  <2>1. pendingRpc' = (pendingRpc \ {r}) \cup Answered(r, Failed)
    BY <1>2 DEF PendingTimesOut
  <2>2. pendingRpc' \subseteq [local : Nat, call : Calls, answer : Calls \cup {Waiting, Failed}]
    BY <2>1, AnsweredTypes DEF Types
  <2> QED BY <1>2, <2>2 DEF PendingTimesOut, Types, client
<1>3. CASE Reply(r)
  <2>1. r.answer \in Calls \cup {Failed} /\ idOf[r.call[1]] \in Ids
    BY <1>1, <1>3 DEF Reply, Types
  <2>2. sendCh' \in [Sessions -> Seq(Messages)]
    BY <1>1, <1>3, <2>1, ResultIs, SendToClientTypes DEF Reply
  <2> QED BY <1>3, <2>2 DEF Reply, Types, client
<1>4. CASE RequestAnswered(r)
  <2>1. returned' \in [Calls -> Calls \cup {NotMade, Waiting, Failed}]
    BY <1>1, <1>4 DEF RequestAnswered, Types
  <2> QED BY <1>4, <2>1 DEF RequestAnswered, Types
<1> QED BY <1>2, <1>3, <1>4

LEMMA RequestTypes ==
  ASSUME Types, NEW s \in Sessions,
         \/ HandleHTTP(s) \/ HandleSubscribe(s) \/ HandlePublish(s)
         \/ \E p \in Providers : HandleRpc(s, p)
  PROVE  Types'
<1>1. /\ OpenRequest(s) /\ ops < MaxOps /\ ops' = ops + 1
      /\ phase' = [phase EXCEPT ![s] = "http"]
      /\ stage' = [stage EXCEPT ![s] = "serving"]
      /\ clients' = [clients EXCEPT ![idOf[s]] = s]
      /\ UNCHANGED <<idOf, subFuncs, offers, invokeId, rpcFuncs, rpcInvokeCounter, pendingRpc,
                     raced, late, sendCh>>
  BY DEF HandleHTTP, HandleSubscribe, HandlePublish, HandleRpc, OpenRequest
<1>2. ops' \in 0..MaxOps /\ \A t \in Sessions : invokeId'[t] <= ops'
  <2>1. ops \in Nat /\ \A t \in Sessions : invokeId[t] \in Nat /\ invokeId[t] <= ops
    BY Bounds DEF Types
  <2> QED BY <1>1, <2>1, Bounds
<1>3. mySubs' \in [Ids -> Sessions \cup {Nobody}]
  BY DEF HandleHTTP, HandleSubscribe, HandlePublish, HandleRpc, Types
<1>4. returned' \in [Calls -> Calls \cup {NotMade, Waiting, Failed}]
  BY DEF HandleHTTP, HandleSubscribe, HandlePublish, HandleRpc, Types
<1>5. handling' \subseteq Sessions \X Packages
  <2>1. handling \subseteq Sessions \X Packages /\ ops \in 0..MaxOps
    BY DEF Types
  <2>2. Callbacks(ops) \subseteq Sessions \X Packages
    BY <2>1, CallbacksTypes
  <2>3. ASSUME NEW p \in Providers, HandleRpc(s, p)
        PROVE  handling' \subseteq Sessions \X Packages
    <3>1. [method |-> "RPC", n |-> 0, provider |-> p] \in Packages
      <4>1. 0 \in 0..MaxOps
        BY Bounds
      <4> QED BY <4>1, PackagesMade
    <3> QED BY <2>1, <2>3, <3>1 DEF HandleRpc
  <2> QED BY <2>1, <2>2, <2>3 DEF HandleHTTP, HandleSubscribe, HandlePublish
<1>6. /\ phase' \in [Sessions -> {"new", "up", "http", "over"}]
      /\ stage' \in [Sessions -> {"none", "serving", "ended", "deleted", "gone"}]
      /\ clients' \in [Ids -> Sessions \cup {Nobody}]
  BY <1>1 DEF Types
<1> QED BY <1>1, <1>2, <1>3, <1>4, <1>5, <1>6 DEF Types

LEMMA EndTypes ==
  ASSUME Types, NEW s \in Sessions, ReadError(s) \/ RequestEnds(s) \/ EndSession(s)
  PROVE  Types'
<1>1. /\ handling' \subseteq handling
      /\ UNCHANGED <<idOf, subFuncs, offers, invokeId, returned, ops, raced, late,
                     rpcInvokeCounter, pendingRpc, sendCh>>
  BY DEF ReadError, RequestEnds, EndSession, client
<1>2. /\ phase' \in [Sessions -> {"new", "up", "http", "over"}]
      /\ stage' \in [Sessions -> {"none", "serving", "ended", "deleted", "gone"}]
  BY DEF ReadError, RequestEnds, EndSession, client, Types
<1>3. /\ clients' \in [Ids -> Sessions \cup {Nobody}]
      /\ mySubs' \in [Ids -> Sessions \cup {Nobody}]
      /\ rpcFuncs' \in [Ids -> Sessions \cup {Nobody}]
  BY DEF ReadError, RequestEnds, EndSession, RemoveClient, DeleteClient, Forgotten,
         ClearSubClient, UnregisterRpcServicesByClient, Types
<1> QED BY <1>1, <1>2, <1>3 DEF Types

LEMMA TypesStep ==
  ASSUME Types, [Next]_vars
  PROVE  Types'
<1>1. CASE UNCHANGED vars
  BY <1>1 DEF Types, vars, client, server
<1>2. ASSUME NEW g \in handling, HandlePackage(g)
      PROVE  Types'
  <2>1. g[1] \in Sessions /\ g[2] \in Packages
    BY Handled
  <2> QED BY <1>2, <2>1, KeepTypes, InvokeTypes, ReturnTypes, GroupTypes DEF HandlePackage
<1>3. CASE Next
  BY <1>2, <1>3, AskTypes, ClientTypes, HandleMessageTypes, PendingTypes, RequestTypes,
     EndTypes DEF Next
<1> QED BY <1>1, <1>3

-----------------------------------------------------------------------------
\* Answers.

LEMMA ElemsAppend ==
  ASSUME NEW q \in Seq(Messages), NEW m \in Messages
  PROVE  Elems(Append(q, m)) = Elems(q) \cup {m}
<1>1. Len(q) \in Nat /\ Len(Append(q, m)) = Len(q) + 1
  OBVIOUS
<1>2. \A k \in 1..Len(q) : Append(q, m)[k] = q[k]
  OBVIOUS
<1>3. Append(q, m)[Len(q) + 1] = m
  OBVIOUS
<1>4. \A k \in 1..(Len(q) + 1) : k \in 1..Len(q) \/ k = Len(q) + 1
  BY <1>1
<1>5. \A k \in 1..Len(q) : k \in 1..(Len(q) + 1)
  BY <1>1
<1>6. Len(q) + 1 \in 1..(Len(q) + 1)
  BY <1>1
<1> QED BY <1>1, <1>2, <1>3, <1>4, <1>5, <1>6 DEF Elems

LEMMA ElemsTail ==
  ASSUME NEW q \in Seq(Messages), q # <<>>
  PROVE  Head(q) \in Elems(q) /\ Elems(Tail(q)) \subseteq Elems(q)
<1>1. Len(q) \in Nat \ {0} /\ Len(Tail(q)) = Len(q) - 1 /\ Head(q) = q[1]
  OBVIOUS
<1>2. \A k \in 1..(Len(q) - 1) : Tail(q)[k] = q[k + 1]
  OBVIOUS
<1>3. \A k \in 1..(Len(q) - 1) : k + 1 \in 1..Len(q)
  BY <1>1
<1>4. 1 \in 1..Len(q)
  BY <1>1
<1>5. Head(q) \in Elems(q)
  BY <1>1, <1>4 DEF Elems
<1>6. Elems(Tail(q)) \subseteq Elems(q)
  BY <1>1, <1>2, <1>3 DEF Elems
<1> QED BY <1>5, <1>6

LEMMA ElemsAre ==
  ASSUME Types, NEW s \in Sessions, NEW m \in Elems(sendCh[s])
  PROVE  m \in Messages
BY DEF Types, Elems

\* A step that adds no pending call keeps what is expected.
LEMMA StillExpected ==
  ASSUME rpcInvokeCounter' = rpcInvokeCounter,
         \A r \in pendingRpc' : r.answer = Waiting => r \in pendingRpc
  PROVE  \A l, c : Expected(l, c) => Expected(l, c)'
BY DEF Expected

\* A step that sends no message to a client.
LEMMA RelayedQuiet ==
  ASSUME Types, Types', Relayed,
         UNCHANGED <<idOf, rpcInvokeCounter, sendCh>>,
         \A r \in pendingRpc' :
           \/ r \in pendingRpc
           \/ /\ r.answer \in {Failed, r.call} /\ r.answer # Waiting
              /\ r.local <= rpcInvokeCounter,
         \A g \in handling' : g \in handling \/ g[2].method # "RETURN_RESULT",
         \A c \in Calls : returned'[c] \in Calls => returned'[c] \in {returned[c], c}
  PROVE  Relayed'
<1>1. \A l, c : Expected(l, c) => Expected(l, c)'
  BY StillExpected
<1>2. AnswersMatch'
  BY CallsAre DEF Relayed, AnswersMatch
<1>3. \A s \in Sessions : \A m \in Elems(sendCh[s]) : Fits(s, m)'
  BY <1>1 DEF Relayed, Fits
<1>4. \A g \in handling' : g[2].method = "RETURN_RESULT" => Expected(g[2].local, g[2].result)'
  BY <1>1 DEF Relayed
<1>5. \A r \in pendingRpc' : r.local <= rpcInvokeCounter' /\ r.answer \in {Waiting, Failed, r.call}
  BY DEF Relayed
<1> QED BY <1>2, <1>3, <1>4, <1>5 DEF Relayed

\* A step that sends one.
LEMMA RelayedSend ==
  ASSUME Types, Types', Relayed, NEW t \in Sessions, NEW m \in Messages,
         Fits(t, m),
         sendCh' = [sendCh EXCEPT ![t] = Append(@, m)],
         UNCHANGED <<idOf, rpcInvokeCounter, returned>>,
         pendingRpc' \subseteq pendingRpc,
         \A g \in handling' : g \in handling \/ g[2].method # "RETURN_RESULT"
  PROVE  Relayed'
<1>1. \A l, c : Expected(l, c) => Expected(l, c)'
  BY StillExpected
<1>2. AnswersMatch'
  BY DEF Relayed, AnswersMatch
<1>3. \A s \in Sessions : \A x \in Elems(sendCh'[s]) : x \in Elems(sendCh[s]) \/ (s = t /\ x = m)
  <2>1. sendCh[t] \in Seq(Messages)
    BY DEF Types
  <2>2. Elems(sendCh'[t]) = Elems(sendCh[t]) \cup {m}
    BY <2>1, ElemsAppend DEF Types
  <2>3. \A s \in Sessions : s # t => sendCh'[s] = sendCh[s]
    BY DEF Types
  <2> QED BY <2>2, <2>3
<1>4. \A s \in Sessions : \A x : Fits(s, x) => Fits(s, x)'
  BY <1>1 DEF Fits
<1>5. \A s \in Sessions : \A x \in Elems(sendCh'[s]) : Fits(s, x)'
  BY <1>3, <1>4 DEF Relayed
<1>6. \A g \in handling' : g[2].method = "RETURN_RESULT" => Expected(g[2].local, g[2].result)'
  BY <1>1 DEF Relayed
<1>7. \A r \in pendingRpc' : r.local <= rpcInvokeCounter' /\ r.answer \in {Waiting, Failed, r.call}
  BY DEF Relayed
<1> QED BY <1>2, <1>5, <1>6, <1>7 DEF Relayed

\* SendToClient gives the answer of a call to a session with the id of the caller.
LEMMA RelayedAnswer ==
  ASSUME Types, Types', Relayed, Kept, NEW c \in Calls, NEW a \in {c, Failed},
         SendToClient(idOf[c[1]], Result(c, a)),
         UNCHANGED <<idOf, rpcInvokeCounter, returned>>,
         pendingRpc' \subseteq pendingRpc, handling' \subseteq handling
  PROVE  Relayed'
<1> DEFINE t == clients[idOf[c[1]]]
           m == Result(c, a)
<1>1. /\ m \in Messages /\ m.method = "RPC_RESULT" /\ m.n = c[2] /\ m.result = a
      /\ c[1] \in Sessions /\ idOf[c[1]] \in Ids
  BY ResultIs, CallsAre DEF Types
<1>2. CASE sendCh' = sendCh
  BY <1>2, RelayedQuiet
<1>3. CASE t # Nobody /\ sendCh' = [sendCh EXCEPT ![t] = Append(@, m)]
  <2>1. t \in Sessions /\ idOf[t] = idOf[c[1]]
    BY <1>1, <1>3 DEF Types, Kept, Owners
  <2> HIDE DEF t, m
  <2>2. Fits(t, m)
    BY <1>1, <2>1, CallsAre DEF Fits
  <2> QED BY <1>1, <1>3, <2>1, <2>2, RelayedSend
<1> QED BY <1>2, <1>3 DEF SendToClient

LEMMA AskRelayed ==
  ASSUME Types, Types', Relayed, NEW s \in Sessions,
         \/ Subscribe(s) \/ Unsubscribe(s) \/ RegisterRpc(s) \/ UnregisterRpc(s)
         \/ Publish(s) \/ GroupCall(s) \/ \E p \in Providers : CallRpc(s, p)
  PROVE  Relayed'
<1>1. UNCHANGED <<idOf, rpcInvokeCounter, sendCh, pendingRpc>>
  BY DEF Subscribe, Unsubscribe, RegisterRpc, UnregisterRpc, Publish, GroupCall, CallRpc, Ask
<1>2. \A g \in handling' : g \in handling \/ g[2].method # "RETURN_RESULT"
  BY DEF Subscribe, Unsubscribe, RegisterRpc, UnregisterRpc, Publish, GroupCall, CallRpc, Ask, Send
<1>3. \A c \in Calls : returned'[c] \in {returned[c], Waiting}
  <2>1. \/ returned' = returned
        \/ returned' = [returned EXCEPT ![<<s, invokeId[s] + 1>>] = Waiting]
    BY DEF Subscribe, Unsubscribe, RegisterRpc, UnregisterRpc, Publish, GroupCall, CallRpc
  <2> QED BY <2>1 DEF Types
<1> QED BY <1>1, <1>2, <1>3, CallsAre, RelayedQuiet

LEMMA ClientRelayed ==
  ASSUME Types, Types', Relayed,
         \/ \E s \in Sessions : Connect(s) \/ Quit(s) \/ LoseConnection(s)
         \/ \E c \in Calls : CallTimesOut(c)
         \/ UNCHANGED vars
  PROVE  Relayed'
<1>1. UNCHANGED <<idOf, rpcInvokeCounter, sendCh, pendingRpc>>
  BY DEF Connect, Quit, LoseConnection, CallTimesOut, vars, server
<1>2. \A g \in handling' : g \in handling \/ g[2].method # "RETURN_RESULT"
  BY DEF Connect, Quit, LoseConnection, CallTimesOut, vars, server, Send
<1>3. \A c \in Calls : returned'[c] \in {returned[c], Failed}
  BY DEF Connect, Quit, LoseConnection, CallTimesOut, vars, client, Types
<1> QED BY <1>1, <1>2, <1>3, CallsAre, RelayedQuiet

LEMMA KeepRelayed ==
  ASSUME Types, Types', Relayed, NEW s \in Sessions, NEW p \in Packages,
         \/ HandleSubscribePackage(s, p)
         \/ HandleUnsubscribePackage(s, p)
         \/ HandleRPCRegisterPackage(s, p)
         \/ HandleRPCUnregisterPackage(s, p)
         \/ HandleQuitPackage(s, p)
  PROVE  Relayed'
<1>1. UNCHANGED <<idOf, rpcInvokeCounter, sendCh, pendingRpc, returned>>
  BY DEF HandleSubscribePackage, HandleUnsubscribePackage, HandleRPCRegisterPackage,
         HandleRPCUnregisterPackage, HandleQuitPackage, Handles, client
<1>2. \A g \in handling' : g \in handling \/ g[2].method # "RETURN_RESULT"
  <2>1. handling' \subseteq handling \cup {<<s, [method |-> "QUIT, removed"]>>}
    BY DEF HandleSubscribePackage, HandleUnsubscribePackage, HandleRPCRegisterPackage,
           HandleRPCUnregisterPackage, HandleQuitPackage, Handles
  <2>2. <<s, [method |-> "QUIT, removed"]>>[2].method # "RETURN_RESULT"
    OBVIOUS
  <2> QED BY <2>1, <2>2
<1> QED BY <1>1, <1>2, RelayedQuiet

LEMMA CallbacksAre ==
  ASSUME Types, NEW n \in 0..MaxOps, NEW g \in Callbacks(n)
  PROVE  /\ g[2].method = "SUB_RESULT"
         /\ \E i \in Ids : mySubs[i] = g[1] /\ g[1] \in Sessions
<1>1. PICK i \in Ids : mySubs[i] # Nobody /\ g = <<mySubs[i], [method |-> "SUB_RESULT", n |-> n]>>
  BY DEF Callbacks
<1>2. g[1] = mySubs[i] /\ g[2] = [method |-> "SUB_RESULT", n |-> n]
  BY <1>1
<1>3. g[1] \in Sessions
  BY <1>1, <1>2 DEF Types
<1> QED BY <1>2, <1>3

LEMMA RequestRelayed ==
  ASSUME Types, Types', Relayed, NEW s \in Sessions,
         \/ HandleHTTP(s) \/ HandleSubscribe(s) \/ HandlePublish(s)
         \/ \E p \in Providers : HandleRpc(s, p)
         \/ ReadError(s) \/ RequestEnds(s) \/ EndSession(s)
  PROVE  Relayed'
<1>1. UNCHANGED <<idOf, rpcInvokeCounter, sendCh, pendingRpc>>
  BY DEF HandleHTTP, HandleSubscribe, HandlePublish, HandleRpc, OpenRequest, ReadError,
         RequestEnds, EndSession
<1>2. \A g \in handling' : g \in handling \/ g[2].method # "RETURN_RESULT"
  <2>1. CASE HandlePublish(s)
    BY <2>1, CallbacksAre DEF HandlePublish, Types
  <2>2. CASE \E p \in Providers : HandleRpc(s, p)
    BY <2>2 DEF HandleRpc
  <2> QED BY <2>1, <2>2 DEF HandleHTTP, HandleSubscribe, ReadError, RequestEnds, EndSession
<1>3. \A c \in Calls : returned'[c] \in {returned[c], Waiting}
  <2>1. returned' = returned \/ returned' = [returned EXCEPT ![<<s, 0>>] = Waiting]
    BY DEF HandleHTTP, HandleSubscribe, HandlePublish, HandleRpc, ReadError, RequestEnds,
           EndSession, client
  <2> QED BY <2>1 DEF Types
<1> QED BY <1>1, <1>2, <1>3, CallsAre, RelayedQuiet

\* The client takes a result, or hands a call to its callback.
LEMMA HandleMessageRelayed ==
  ASSUME Types, Types', Relayed, NEW s \in Sessions, HandleMessage(s)
  PROVE  Relayed'
<1>1. /\ sendCh[s] # <<>> /\ sendCh[s] \in Seq(Messages)
      /\ sendCh' = [sendCh EXCEPT ![s] = Tail(@)]
      /\ UNCHANGED <<idOf, rpcInvokeCounter, pendingRpc>>
  BY DEF HandleMessage, Types
<1>2. PICK m \in Messages : m = Head(sendCh[s]) /\ Fits(s, m)
  BY <1>1, TailTypes, ElemsTail DEF Relayed
<1>3. \A l, c : Expected(l, c) => Expected(l, c)'
  BY <1>1, StillExpected
<1>4. \A t \in Sessions : \A x \in Elems(sendCh'[t]) : Fits(t, x)'
  <2>1. \A t \in Sessions : Elems(sendCh'[t]) \subseteq Elems(sendCh[t])
    <3>1. sendCh'[s] = Tail(sendCh[s]) /\ \A t \in Sessions : t # s => sendCh'[t] = sendCh[t]
      BY <1>1 DEF Types
    <3> QED BY <1>1, <3>1, ElemsTail
  <2> QED BY <1>1, <1>3, <2>1 DEF Relayed, Fits
<1>5. \A r \in pendingRpc' : r.local <= rpcInvokeCounter' /\ r.answer \in {Waiting, Failed, r.call}
  BY <1>1 DEF Relayed
<1>6. /\ AnswersMatch'
      /\ \A g \in handling' : g[2].method = "RETURN_RESULT" => Expected(g[2].local, g[2].result)'
  <2>1. CASE m.method = "RPC_RESULT"
    <3>1. TakeResult(s, m)
      BY <1>2, <2>1 DEF HandleMessage
    <3>2. handling' = handling /\ m.n \in 0..MaxOps
      BY <1>2, <2>1, <3>1, MessageFields DEF TakeResult
    <3>3. <<s, m.n>> \in Calls /\ <<s, m.n>>[1] = s /\ <<s, m.n>>[2] = m.n
      BY <3>2, CallsAre
    <3>4. /\ \A c \in Calls : c # <<s, m.n>> => returned'[c] = returned[c]
          /\ returned'[<<s, m.n>>] \in {returned[<<s, m.n>>], m.result}
      BY <3>1, <3>3 DEF TakeResult, Types
    <3>5. m.result \in Calls => idOf[m.result[1]] = idOf[s] /\ m.result[2] = m.n
      BY <1>2, <2>1 DEF Fits
    <3>6. AnswersMatch'
      BY <1>1, <3>3, <3>4, <3>5 DEF Relayed, AnswersMatch
    <3> QED BY <1>3, <3>2, <3>6 DEF Relayed
  <2>2. CASE m.method = "RPC_CALL"
    <3> DEFINE back == [method |-> "RETURN_RESULT", local |-> m.local, result |-> m.args]
    <3>1. RunRpc(s, m)
      BY <1>2, <2>2 DEF HandleMessage
    <3>2. returned' = returned /\ handling' \subseteq handling \cup {<<s, back>>}
      BY <3>1 DEF RunRpc, Send
    <3>3. <<s, back>>[2].local = m.local /\ <<s, back>>[2].result = m.args
      OBVIOUS
    <3>4. Expected(m.local, m.args)'
      BY <1>2, <1>3, <2>2 DEF Fits
    <3>5. AnswersMatch'
      BY <1>1, <3>2 DEF Relayed, AnswersMatch
    <3> HIDE DEF back
    <3> QED BY <1>3, <3>2, <3>3, <3>4, <3>5 DEF Relayed
  <2>3. CASE m.method = "SUB_RESULT"
    <3>1. UNCHANGED <<handling, raced, returned>>
      BY <1>2, <2>3 DEF HandleMessage
    <3> QED BY <1>1, <1>3, <3>1 DEF Relayed, AnswersMatch
  <2> QED BY <1>2, <2>1, <2>2, <2>3, MessageFields
<1> QED BY <1>4, <1>5, <1>6 DEF Relayed

\* invokeLocalRpc: the new local id is above all that are in use or on their way.
LEMMA InvokeRelayed ==
  ASSUME Types, Types', Relayed, NEW s \in Sessions, NEW p \in Packages,
         HandleRPCCallPackage(s, p)
  PROVE  Relayed'
<1>1. p.n \in 0..MaxOps /\ p.provider \in Ids
  BY PackageFields, Bounds DEF HandleRPCCallPackage
<1>2. PICK call \in Calls : call = <<s, p.n>>
  BY <1>1, CallsAre
<1>3. PICK to \in Sessions \cup {Nobody} : to = rpcFuncs[p.provider]
  BY <1>1 DEF Types
<1>4. PICK local \in Nat : local = rpcInvokeCounter + 1
  BY DEF Types
<1>5. /\ handling' \subseteq handling
      /\ UNCHANGED <<idOf, returned>>
      /\ InvokeLocalRpc(to, call)
  BY <1>2, <1>3 DEF HandleRPCCallPackage, Handles, client
<1>6. AnswersMatch'
  BY <1>5 DEF Relayed, AnswersMatch
<1>7. rpcInvokeCounter \in Nat /\ \A r \in pendingRpc : r.local \in Nat
  BY PendingFields DEF Types
<1>8. CASE to = Nobody
  <2> DEFINE new == [local |-> 0, call |-> call, answer |-> Failed]
  <2>1. pendingRpc' = pendingRpc \cup {new} /\ UNCHANGED <<rpcInvokeCounter, sendCh>>
    BY <1>5, <1>8 DEF InvokeLocalRpc
  <2>2. new.answer = Failed /\ new.answer # Waiting /\ new.local = 0 /\ 0 <= rpcInvokeCounter
    BY <1>7, CallsAre
  <2> HIDE DEF new
  <2>3. new.answer \in {Failed, new.call} /\ new.local <= rpcInvokeCounter
    BY <2>2
  <2> QED BY <1>5, <2>1, <2>2, <2>3, RelayedQuiet
<1>9. CASE to \in Sessions
  <2>1. PICK new : new = [local |-> local, call |-> call, answer |-> Waiting]
    OBVIOUS
  <2>2. PICK m \in Messages : m = [method |-> "RPC_CALL", local |-> local, args |-> call]
    BY MessagesMade
  <2>3. /\ rpcInvokeCounter' = local
        /\ pendingRpc' = pendingRpc \cup {new}
        /\ sendCh' = [sendCh EXCEPT ![to] = Append(@, m)]
    BY <1>4, <1>5, <1>9, <2>1, <2>2, Bounds DEF InvokeLocalRpc, NextLocalInvokeId
  <2>4. new.local = local /\ new.call = call /\ new.answer = Waiting
    BY <2>1
  <2>5. m.method = "RPC_CALL" /\ m.local = local /\ m.args = call
    BY <2>2
  <2>6. \A r \in pendingRpc : r.local # local /\ r.local <= local
    BY <1>4, <1>7 DEF Relayed
  <2>7. \A l \in Nat, c \in Calls : Expected(l, c) => Expected(l, c)'
    <3> SUFFICES ASSUME NEW l \in Nat, NEW c \in Calls, Expected(l, c)
                 PROVE  Expected(l, c)'
      OBVIOUS
    <3>1. l <= rpcInvokeCounter
      BY DEF Expected
    <3>2. l <= rpcInvokeCounter' /\ l # local
      BY <1>4, <1>7, <2>3, <3>1
    <3> QED BY <2>3, <2>4, <3>2 DEF Expected
  <2>8. Expected(local, call)'
    BY <1>7, <2>3, <2>4, <2>6 DEF Expected
  <2>9. \A t \in Sessions : \A x \in Elems(sendCh'[t]) :
          x \in Elems(sendCh[t]) \/ (t = to /\ x = m)
    <3>1. sendCh[to] \in Seq(Messages)
      BY <1>9 DEF Types
    <3>2. Elems(sendCh'[to]) = Elems(sendCh[to]) \cup {m}
      BY <1>9, <2>3, <3>1, ElemsAppend DEF Types
    <3>3. \A t \in Sessions : t # to => sendCh'[t] = sendCh[t]
      BY <2>3 DEF Types
    <3> QED BY <3>2, <3>3
  <2>10. \A t \in Sessions : \A x \in Elems(sendCh'[t]) : Fits(t, x)'
    <3> SUFFICES ASSUME NEW t \in Sessions, NEW x \in Elems(sendCh'[t])
                 PROVE  Fits(t, x)'
      OBVIOUS
    <3>1. CASE x = m
      BY <2>5, <2>8, <3>1 DEF Fits
    <3>2. CASE x \in Elems(sendCh[t])
      <4>1. x \in Messages /\ Fits(t, x)
        BY <3>2, ElemsAre DEF Relayed
      <4>2. x.method = "RPC_CALL" => Expected(x.local, x.args)'
        BY <2>7, <4>1, MessageFields DEF Fits
      <4> QED BY <1>5, <4>1, <4>2 DEF Fits
    <3> QED BY <2>9, <3>1, <3>2
  <2>11. \A g \in handling' : g[2].method = "RETURN_RESULT" => Expected(g[2].local, g[2].result)'
    <3> SUFFICES ASSUME NEW g \in handling, g[2].method = "RETURN_RESULT"
                 PROVE  Expected(g[2].local, g[2].result)'
      BY <1>5
    <3>1. g[2].local \in Nat /\ g[2].result \in Calls
      BY Handled, PackageFields
    <3> QED BY <2>7, <3>1 DEF Relayed
  <2>12. \A r \in pendingRpc' : /\ r.local <= rpcInvokeCounter'
                               /\ r.answer \in {Waiting, Failed, r.call}
    BY <2>3, <2>4, <2>6 DEF Relayed
  <2> QED BY <1>6, <2>10, <2>11, <2>12 DEF Relayed
<1> QED BY <1>8, <1>9

\* handleReturnResultPackage: the call found under the local id is the one the result is of.
LEMMA ReturnRelayed ==
  ASSUME Types, Types', Relayed, NEW s \in Sessions, NEW p \in Packages,
         HandleReturnResultPackage(s, p)
  PROVE  Relayed'
<1>1. /\ <<s, p>> \in handling /\ p.method = "RETURN_RESULT"
      /\ handling' \subseteq handling
      /\ UNCHANGED <<idOf, returned, rpcInvokeCounter, sendCh>>
  BY DEF HandleReturnResultPackage, Handles, client
<1>2. p.result \in Calls /\ Expected(p.local, p.result)
  BY <1>1, PackageFields DEF Relayed
<1>3. CASE pendingRpc' = pendingRpc
  BY <1>1, <1>3, RelayedQuiet
<1>4. CASE \E r \in pendingRpc : /\ r.local = p.local /\ r.answer = Waiting
                                 /\ pendingRpc' = (pendingRpc \ {r}) \cup Answered(r, p.result)
  <2>1. PICK r \in pendingRpc : /\ r.local = p.local /\ r.answer = Waiting
                                /\ pendingRpc' = (pendingRpc \ {r}) \cup Answered(r, p.result)
    BY <1>4
  <2>2. p.result = r.call
    BY <1>2, <2>1 DEF Expected
  <2>3. r \in [local : Nat, call : Calls, answer : Calls \cup {Waiting, Failed}]
    BY DEF Types
  <2>4. \A q \in Answered(r, p.result) : q.local = r.local /\ q.call = r.call /\ q.answer = p.result
    BY <1>2, <2>3, AnsweredTypes
  <2>5. r.local <= rpcInvokeCounter /\ p.result # Waiting
    BY <1>2, CallsAre DEF Relayed
  <2> QED BY <1>1, <2>1, <2>2, <2>4, <2>5, RelayedQuiet
<1> QED BY <1>3, <1>4 DEF HandleReturnResultPackage

LEMMA GroupRelayed ==
  ASSUME Types, Types', Relayed, Kept, NEW s \in Sessions, NEW p \in Packages,
         HandleGroupPackage(s, p) \/ SubCallback(s, p) \/ HandlePublishPackage(s, p)
  PROVE  Relayed'
<1>1. UNCHANGED <<idOf, returned, rpcInvokeCounter, pendingRpc>>
  BY DEF HandleGroupPackage, SubCallback, HandlePublishPackage, Handles, client
<1>2. CASE HandleGroupPackage(s, p)
  <2>1. p.n \in 0..MaxOps
    BY <1>2, PackageFields DEF HandleGroupPackage
  <2>2. <<s, p.n>> \in Calls /\ <<s, p.n>>[1] = s
    BY <2>1, CallsAre
  <2>3. PICK a \in {<<s, p.n>>, Failed} : SendToClient(idOf[s], Result(<<s, p.n>>, a))
    BY <1>2 DEF HandleGroupPackage
  <2>4. handling' \subseteq handling
    BY <1>2 DEF HandleGroupPackage, Handles
  <2> QED BY <1>1, <2>2, <2>3, <2>4, RelayedAnswer
<1>3. CASE SubCallback(s, p)
  <2>1. PICK m \in Messages : m = [method |-> "SUB_RESULT"]
    BY MessagesMade
  <2>2. Fits(s, m)
    BY <2>1 DEF Fits
  <2>3. sendCh' = [sendCh EXCEPT ![s] = Append(@, m)] /\ handling' \subseteq handling
    BY <1>3, <2>1 DEF SubCallback, Handles
  <2> QED BY <1>1, <2>2, <2>3, RelayedSend
<1>4. CASE HandlePublishPackage(s, p)
  <2>1. p.n \in 0..MaxOps
    BY <1>4, PackageFields DEF HandlePublishPackage
  <2>2. handling' \subseteq handling \cup Callbacks(p.n) /\ sendCh' = sendCh
    BY <1>4 DEF HandlePublishPackage
  <2>3. \A g \in handling' : g \in handling \/ g[2].method # "RETURN_RESULT"
    BY <2>1, <2>2, CallbacksAre
  <2> QED BY <1>1, <2>2, <2>3, RelayedQuiet
<1> QED BY <1>2, <1>3, <1>4

LEMMA PendingRelayed ==
  ASSUME Types, Types', Relayed, Kept, NEW r \in pendingRpc,
         PendingTimesOut(r) \/ Reply(r) \/ RequestAnswered(r)
  PROVE  Relayed'
<1>1. /\ r.local <= rpcInvokeCounter /\ r.answer \in {Waiting, Failed, r.call}
      /\ r.call \in Calls
      /\ r \in [local : Nat, call : Calls, answer : Calls \cup {Waiting, Failed}]
  BY PendingFields DEF Relayed, Types
<1>2. CASE PendingTimesOut(r)
  <2>1. /\ pendingRpc' = (pendingRpc \ {r}) \cup Answered(r, Failed)
        /\ UNCHANGED <<idOf, returned, rpcInvokeCounter, sendCh, handling>>
    BY <1>2 DEF PendingTimesOut, client
  <2>2. \A q \in Answered(r, Failed) : q.local = r.local /\ q.call = r.call /\ q.answer = Failed
    BY <1>1, AnsweredTypes
  <2> QED BY <1>1, <2>1, <2>2, CallsAre, RelayedQuiet
<1>3. CASE Reply(r)
  <2>1. PICK a \in {r.call, Failed} : a = r.answer
    BY <1>1, <1>3 DEF Reply
  <2>2. /\ pendingRpc' \subseteq pendingRpc
        /\ UNCHANGED <<idOf, returned, rpcInvokeCounter, handling>>
        /\ SendToClient(idOf[r.call[1]], Result(r.call, a))
    BY <1>3, <2>1 DEF Reply, client
  <2> QED BY <1>1, <2>1, <2>2, RelayedAnswer
<1>4. CASE RequestAnswered(r)
  <2>1. /\ pendingRpc' \subseteq pendingRpc
        /\ UNCHANGED <<idOf, rpcInvokeCounter, sendCh, handling>>
        /\ returned' = returned \/ returned' = [returned EXCEPT ![r.call] = r.answer]
        /\ r.answer # Waiting
    BY <1>4 DEF RequestAnswered
  <2>2. \A c \in Calls : returned'[c] \in Calls => returned'[c] \in {returned[c], c}
    BY <1>1, <2>1, CallsAre DEF Types
  <2> QED BY <2>1, <2>2, RelayedQuiet
<1> QED BY <1>2, <1>3, <1>4

-----------------------------------------------------------------------------
\* What the node keeps for a session.

\* A step that changes no session and no callback, and no package about them.
LEMMA KeptQuiet ==
  ASSUME Types, Types', Kept,
         UNCHANGED <<idOf, phase, stage, clients, mySubs, rpcFuncs, subFuncs, raced, late>>,
         offers' \subseteq offers,
         \A g \in handling' : \/ g \in handling
                              \/ /\ phase[g[1]] # "new"
                                 /\ g[2].method \notin AboutTopic \cup Quits,
         \A g \in handling : \/ g \in handling'
                             \/ g[2].method \notin AboutTopic \cup {"REGISTER_RPC"}
  PROVE  Kept'
<1>1. Owners'
  BY DEF Kept, Owners
<1>2. Stages'
  BY DEF Kept, Stages
<1>3. \A s \in Sessions : Alone(s)' = Alone(s) /\ Topics(s)' = Topics(s)
  BY DEF Alone, Topics
<1>4. \A s \in Sessions : OnItsWay(s)'
  BY <1>3 DEF Kept, OnItsWay
<1>5. \A s \in Sessions : OneWish(s)'
  BY <1>3 DEF Kept, OneWish
<1> QED BY <1>1, <1>2, <1>4, <1>5 DEF Kept

LEMMA QuietAskKept ==
  ASSUME Types, Types', Kept, NEW s \in Sessions,
         \/ UnregisterRpc(s) \/ Publish(s) \/ GroupCall(s)
         \/ \E p \in Providers : CallRpc(s, p)
  PROVE  Kept'
<1>1. PICK q : Ask(s, q) /\ q.method \in {"UNREGISTER_RPC", "PUBLISH", "GROUP", "RPC"}
  <2>1. CASE UnregisterRpc(s)
    BY <2>1 DEF UnregisterRpc
  <2>2. CASE Publish(s)
    BY <2>2 DEF Publish
  <2>3. CASE GroupCall(s)
    BY <2>3 DEF GroupCall
  <2>4. CASE \E r \in Providers : CallRpc(s, r)
    BY <2>4 DEF CallRpc
  <2> QED BY <2>1, <2>2, <2>3, <2>4
<1>2. q.method \notin AboutTopic \cup Quits
  BY <1>1 DEF AboutTopic, Quits
<1>3. /\ handling' = handling \cup {<<s, q>>}
      /\ phase[s] = "up"
      /\ UNCHANGED <<idOf, stage, clients, mySubs, rpcFuncs, raced, late>>
  BY <1>1, <1>2 DEF Ask, Send
<1>4. phase' = phase /\ subFuncs' = subFuncs /\ offers' \subseteq offers
  BY DEF UnregisterRpc, Publish, GroupCall, CallRpc
<1>5. <<s, q>>[1] = s /\ <<s, q>>[2] = q
  OBVIOUS
<1> QED BY <1>2, <1>3, <1>4, <1>5, KeptQuiet

LEMMA HandleMessageKept ==
  ASSUME Types, Types', Kept, NEW s \in Sessions, HandleMessage(s)
  PROVE  Kept'
<1>1. /\ phase[s] = "up" /\ sendCh[s] # <<>>
      /\ UNCHANGED <<idOf, phase, stage, clients, mySubs, rpcFuncs, subFuncs, offers, late>>
  BY DEF HandleMessage
<1>2. PICK m \in Messages : m = Head(sendCh[s])
  BY <1>1, TailTypes
<1>3. CASE m.method = "RPC_CALL" /\ s \in offers
  <2>1. PICK q : q = [method |-> "RETURN_RESULT", local |-> m.local, result |-> m.args]
    OBVIOUS
  <2>2. q.method \notin AboutTopic \cup Quits
    BY <2>1 DEF AboutTopic, Quits
  <2>3. Send(s, q)
    BY <1>2, <1>3, <2>1 DEF HandleMessage, RunRpc
  <2>4. handling' = handling \cup {<<s, q>>} /\ raced' = raced
    BY <2>2, <2>3 DEF Send
  <2>5. <<s, q>>[1] = s /\ <<s, q>>[2] = q
    OBVIOUS
  <2> QED BY <1>1, <2>2, <2>4, <2>5, KeptQuiet
<1>4. CASE ~(m.method = "RPC_CALL" /\ s \in offers)
  <2>1. UNCHANGED <<handling, raced>>
    <3>1. CASE m.method = "RPC_RESULT"
      BY <1>2, <3>1 DEF HandleMessage, TakeResult
    <3>2. CASE m.method = "RPC_CALL"
      BY <1>2, <1>4, <3>2 DEF HandleMessage, RunRpc
    <3>3. CASE m.method = "SUB_RESULT"
      BY <1>2, <3>3 DEF HandleMessage
    <3> QED BY <1>2, <3>1, <3>2, <3>3, MessageFields
  <2> QED BY <1>1, <2>1, KeptQuiet
<1> QED BY <1>3, <1>4

\* The packages that are relayed.
LEMMA RelayKept ==
  ASSUME Types, Types', Kept, NEW s \in Sessions, NEW p \in Packages,
         \/ HandleRPCUnregisterPackage(s, p)
         \/ HandleRPCCallPackage(s, p)
         \/ HandleReturnResultPackage(s, p)
         \/ HandleGroupPackage(s, p)
         \/ SubCallback(s, p)
  PROVE  Kept'
<1>1. /\ handling' = handling \ {<<s, p>>}
      /\ UNCHANGED <<idOf, phase, stage, clients, mySubs, rpcFuncs, subFuncs, offers, raced, late>>
  BY DEF HandleRPCUnregisterPackage, HandleRPCCallPackage, HandleReturnResultPackage,
         HandleGroupPackage, SubCallback, Handles, client
<1>2. p.method \notin AboutTopic \cup {"REGISTER_RPC"}
  BY DEF HandleRPCUnregisterPackage, HandleRPCCallPackage, HandleReturnResultPackage,
         HandleGroupPackage, SubCallback, AboutTopic
<1>3. <<s, p>>[2] = p
  OBVIOUS
<1> QED BY <1>1, <1>2, <1>3, KeptQuiet

\* A callback is for a session that has begun.
LEMMA CallbacksKept ==
  ASSUME Types, Kept, NEW n \in 0..MaxOps, NEW g \in Callbacks(n)
  PROVE  phase[g[1]] # "new" /\ g[2].method \notin AboutTopic \cup Quits
<1>1. g[2].method = "SUB_RESULT" /\ \E i \in Ids : mySubs[i] = g[1] /\ g[1] \in Sessions
  BY CallbacksAre
<1>2. phase[g[1]] # "new"
  BY <1>1 DEF Kept, Owners
<1>3. g[2].method \notin AboutTopic \cup Quits
  BY <1>1 DEF AboutTopic, Quits
<1> QED BY <1>2, <1>3

LEMMA PublishKept ==
  ASSUME Types, Types', Kept, NEW s \in Sessions, NEW p \in Packages,
         HandlePublishPackage(s, p)
  PROVE  Kept'
<1>1. /\ handling' = (handling \ {<<s, p>>}) \cup Callbacks(p.n)
      /\ UNCHANGED <<idOf, phase, stage, clients, mySubs, rpcFuncs, subFuncs, offers, raced, late>>
      /\ p.method = "PUBLISH" /\ p.n \in 0..MaxOps
  BY PackageFields DEF HandlePublishPackage, client
<1>2. p.method \notin AboutTopic \cup {"REGISTER_RPC"} /\ <<s, p>>[2] = p
  BY <1>1 DEF AboutTopic
<1>3. \A g \in Callbacks(p.n) : phase[g[1]] # "new" /\ g[2].method \notin AboutTopic \cup Quits
  BY <1>1, CallbacksKept
<1> QED BY <1>1, <1>2, <1>3, KeptQuiet

LEMMA PendingKept ==
  ASSUME Types, Types', Kept,
         \/ \E r \in pendingRpc : PendingTimesOut(r) \/ Reply(r) \/ RequestAnswered(r)
         \/ \E c \in Calls : CallTimesOut(c)
         \/ UNCHANGED vars
  PROVE  Kept'
<1>1. UNCHANGED <<idOf, phase, stage, clients, mySubs, rpcFuncs, subFuncs, offers, raced, late,
                  handling>>
  BY DEF PendingTimesOut, Reply, RequestAnswered, CallTimesOut, vars, client, server
<1> QED BY <1>1, KeptQuiet

\* A step for one session leaves alone the callbacks of every session that is alone with
\* its id.
LEMMA OthersKept ==
  ASSUME Types, Types', Kept, NEW s \in Sessions, phase'[s] # "new", idOf' = idOf,
         \A t \in Sessions \ {s} : /\ phase'[t] = phase[t]
                                   /\ t \in raced' <=> t \in raced
                                   /\ t \in subFuncs' <=> t \in subFuncs
                                   /\ t \in offers' <=> t \in offers,
         \A i \in Ids : i # idOf[s] => mySubs'[i] = mySubs[i] /\ rpcFuncs'[i] = rpcFuncs[i],
         \A g \in handling' : g[1] # s => g \in handling \/ g[2].method \notin AboutTopic,
         \A g \in handling : g[1] # s => g \in handling'
  PROVE  \A t \in Sessions \ {s} : OnItsWay(t)' /\ OneWish(t)'
<1> SUFFICES ASSUME NEW t \in Sessions \ {s}, Alone(t)'
             PROVE  OnItsWay(t)' /\ OneWish(t)'
  BY DEF OnItsWay, OneWish
<1>1. idOf[t] # idOf[s] /\ idOf[t] \in Ids
  BY DEF Alone, Types
<1>2. Alone(t)
  BY <1>1 DEF Alone
<1>3. Topics(t)' = Topics(t)
  BY DEF Topics
<1>4. OnItsWay(t)'
  <2>1. OnItsWay(t)
    BY DEF Kept
  <2> QED BY <1>1, <1>2, <2>1 DEF OnItsWay
<1>5. OneWish(t)'
  <2>1. OneWish(t)
    BY DEF Kept
  <2> QED BY <1>1, <1>2, <1>3, <2>1 DEF OneWish
<1> QED BY <1>4, <1>5

\* Nothing is known of a session that is new.
LEMMA NewIsUnknown ==
  ASSUME Types, Kept, NEW s \in Sessions, phase[s] = "new"
  PROVE  /\ stage[s] = "none" /\ s \notin subFuncs /\ s \notin offers
         /\ \A g \in handling : g[1] # s
         /\ \A i \in Ids : clients[i] # s /\ mySubs[i] # s /\ rpcFuncs[i] # s
<1>1. stage[s] = "none" /\ s \notin subFuncs /\ s \notin offers
  BY DEF Kept, Stages
<1>2. \A g \in handling : g[1] # s
  BY DEF Kept, Stages
<1>3. \A i \in Ids : clients[i] # s /\ mySubs[i] # s /\ rpcFuncs[i] # s
  BY <1>1 DEF Kept, Owners
<1> QED BY <1>1, <1>2, <1>3

LEMMA ConnectKept ==
  ASSUME Types, Types', Kept, NEW s \in Sessions, Connect(s)
  PROVE  Kept'
<1>1. /\ phase[s] = "new"
      /\ phase' = [phase EXCEPT ![s] = "up"]
      /\ stage' = [stage EXCEPT ![s] = "serving"]
      /\ clients' = [clients EXCEPT ![idOf[s]] = s]
      /\ UNCHANGED <<idOf, subFuncs, offers, handling, mySubs, rpcFuncs, raced, late>>
  BY DEF Connect
<1>2. /\ phase'[s] = "up" /\ stage'[s] = "serving" /\ idOf[s] \in Ids
      /\ clients'[idOf[s]] = s
      /\ \A t \in Sessions \ {s} : phase'[t] = phase[t] /\ stage'[t] = stage[t]
      /\ \A i \in Ids : i # idOf[s] => clients'[i] = clients[i]
  BY <1>1 DEF Types
<1>3. Owners'
  BY <1>1, <1>2, NewIsUnknown DEF Kept, Owners
<1>4. Stages'
  <2>1. \A g \in handling : g[1] \in Sessions \ {s}
    BY <1>1, NewIsUnknown, Handled
  <2> QED BY <1>1, <1>2, <2>1 DEF Kept, Stages
<1>5. Topics(s)' = {} /\ s \notin offers' /\ s \notin subFuncs' /\ mySubs'[idOf[s]] # s
  BY <1>1, <1>2, NewIsUnknown DEF Topics
<1>6. OnItsWay(s)' /\ OneWish(s)'
  BY <1>1, <1>5 DEF OnItsWay, OneWish
<1>7. \A t \in Sessions \ {s} : OnItsWay(t)' /\ OneWish(t)'
  BY <1>1, <1>2, OthersKept
<1> QED BY <1>3, <1>4, <1>6, <1>7 DEF Kept

\* A client asks for a callback, or for none.
LEMMA AskKept ==
  ASSUME Types, Types', Kept, NEW s \in Sessions,
         Subscribe(s) \/ Unsubscribe(s) \/ RegisterRpc(s)
  PROVE  Kept'
<1>1. PICK q : /\ Ask(s, q)
               /\ \/ q.method = "SUBSCRIBE" /\ subFuncs' = subFuncs \cup {s} /\ offers' = offers
                  \/ q.method = "UNSUBSCRIBE" /\ subFuncs' = subFuncs \ {s} /\ offers' = offers
                  \/ q.method = "REGISTER_RPC" /\ offers' = offers \cup {s} /\ subFuncs' = subFuncs
  <2>1. CASE Subscribe(s)
    BY <2>1 DEF Subscribe
  <2>2. CASE Unsubscribe(s)
    BY <2>2 DEF Unsubscribe
  <2>3. CASE RegisterRpc(s)
    BY <2>3 DEF RegisterRpc
  <2> QED BY <2>1, <2>2, <2>3
<1>2. /\ phase[s] = "up"
      /\ handling' = handling \cup {<<s, q>>}
      /\ \/ raced' = raced \cup {s}
         \/ raced' = raced /\ (q.method \in AboutTopic => Topics(s) = {})
      /\ UNCHANGED <<idOf, stage, clients, mySubs, rpcFuncs, late>>
  BY <1>1 DEF Ask, Send, Topics
<1>3. phase' = phase
  BY DEF Subscribe, Unsubscribe, RegisterRpc
<1>4. <<s, q>>[1] = s /\ <<s, q>>[2] = q /\ q.method \notin Quits
  BY <1>1 DEF Quits
<1>5. Owners'
  BY <1>2, <1>3 DEF Kept, Owners
<1>6. Stages'
  BY <1>1, <1>2, <1>3, <1>4 DEF Kept, Stages
<1>7. \A t \in Sessions \ {s} : OnItsWay(t)' /\ OneWish(t)'
  <2>1. \A g \in handling' : g[1] # s => g \in handling
    BY <1>2, <1>4
  <2> QED BY <1>1, <1>2, <1>3, <2>1, OthersKept
<1>8. Alone(s)' = Alone(s)
  BY <1>2, <1>3 DEF Alone
<1>9. OnItsWay(s)'
  <2>1. OnItsWay(s)
    BY DEF Kept
  <2> QED BY <1>1, <1>2, <1>3, <1>4, <1>8, <2>1 DEF OnItsWay
<1>10. OneWish(s)'
  <2> SUFFICES ASSUME s \notin raced', Alone(s)
               PROVE  /\ \A g, h \in Topics(s)' : g = h
                      /\ \A g \in Topics(s)' : g[2].method = "SUBSCRIBE" <=> s \in subFuncs'
                      /\ Topics(s)' = {} => (mySubs'[idOf'[s]] = s <=> s \in subFuncs')
    BY <1>8 DEF OneWish
  <2>1. OneWish(s) /\ s \notin raced /\ raced' = raced
    BY <1>2 DEF Kept
  <2>2. CASE q.method \in AboutTopic
    <3>1. Topics(s)' = {<<s, q>>}
      BY <1>2, <1>4, <2>1, <2>2 DEF Topics
    <3> QED BY <1>1, <1>4, <2>2, <3>1 DEF AboutTopic
  <2>3. CASE q.method \notin AboutTopic
    <3>1. Topics(s)' = Topics(s) /\ subFuncs' = subFuncs
      BY <1>1, <1>2, <1>4, <2>3 DEF Topics, AboutTopic
    <3> QED BY <1>2, <2>1, <3>1 DEF OneWish
  <2> QED BY <2>2, <2>3
<1> QED BY <1>5, <1>6, <1>7, <1>9, <1>10 DEF Kept

\* The goroutine of a package about a callback.
LEMMA CallbackKept ==
  ASSUME Types, Types', Kept, NEW s \in Sessions, NEW p \in Packages,
         \/ HandleSubscribePackage(s, p)
         \/ HandleUnsubscribePackage(s, p)
         \/ HandleRPCRegisterPackage(s, p)
  PROVE  Kept'
<1>1. /\ <<s, p>> \in handling /\ handling' = handling \ {<<s, p>>}
      /\ UNCHANGED <<idOf, phase, stage, clients, subFuncs, offers, raced>>
  BY DEF HandleSubscribePackage, HandleUnsubscribePackage, HandleRPCRegisterPackage, Handles,
         client
<1>2. \/ /\ p.method = "SUBSCRIBE" /\ mySubs' = [mySubs EXCEPT ![idOf[s]] = s]
         /\ late' = (IF stage[s] = "gone" THEN late \cup {s} ELSE late) /\ rpcFuncs' = rpcFuncs
      \/ /\ p.method = "UNSUBSCRIBE" /\ mySubs' = [mySubs EXCEPT ![idOf[s]] = Nobody]
         /\ late' = late /\ rpcFuncs' = rpcFuncs
      \/ /\ p.method = "REGISTER_RPC" /\ rpcFuncs' = [rpcFuncs EXCEPT ![idOf[s]] = s]
         /\ late' = (IF stage[s] = "gone" THEN late \cup {s} ELSE late) /\ mySubs' = mySubs
  BY DEF HandleSubscribePackage, HandleUnsubscribePackage, HandleRPCRegisterPackage
<1>3. /\ <<s, p>>[1] = s /\ <<s, p>>[2] = p /\ phase[s] # "new" /\ idOf[s] \in Ids
  BY <1>1 DEF Kept, Stages, Types
<1>4. /\ late \subseteq late' /\ (stage[s] = "gone" => s \in late' \/ p.method = "UNSUBSCRIBE")
      /\ \A i \in Ids : i # idOf[s] => mySubs'[i] = mySubs[i] /\ rpcFuncs'[i] = rpcFuncs[i]
      /\ mySubs'[idOf[s]] \in {mySubs[idOf[s]], s, Nobody}
      /\ rpcFuncs'[idOf[s]] \in {rpcFuncs[idOf[s]], s}
      /\ p.method = "SUBSCRIBE" => mySubs'[idOf[s]] = s
      /\ p.method = "UNSUBSCRIBE" => mySubs'[idOf[s]] = Nobody
      /\ p.method = "REGISTER_RPC" => rpcFuncs'[idOf[s]] = s
      /\ p.method # "REGISTER_RPC" => rpcFuncs' = rpcFuncs
      /\ p.method = "REGISTER_RPC" => mySubs' = mySubs
  BY <1>2, <1>3 DEF Types
<1>5. Owners'
  <2> SUFFICES ASSUME NEW i \in Ids, NEW t \in Sessions
               PROVE  /\ mySubs'[i] = t => /\ idOf[t] = i /\ phase[t] # "new"
                                           /\ stage[t] = "gone" => t \in late'
                      /\ rpcFuncs'[i] = t => /\ idOf[t] = i /\ phase[t] # "new"
                                             /\ stage[t] = "gone" => t \in late'
    BY <1>1 DEF Kept, Owners
  <2>1. /\ mySubs[i] = t => /\ idOf[t] = i /\ phase[t] # "new"
                            /\ stage[t] = "gone" => t \in late'
        /\ rpcFuncs[i] = t => /\ idOf[t] = i /\ phase[t] # "new"
                              /\ stage[t] = "gone" => t \in late'
    BY <1>4 DEF Kept, Owners
  <2>2. t # Nobody
    BY Bounds
  <2> QED BY <1>3, <1>4, <2>1, <2>2
<1>6. Stages'
  BY <1>1 DEF Kept, Stages
<1>7. \A t \in Sessions \ {s} : OnItsWay(t)' /\ OneWish(t)'
  BY <1>1, <1>3, <1>4, OthersKept
<1>8. Alone(s)' = Alone(s)
  BY <1>1 DEF Alone
<1>9. OnItsWay(s)'
  <2>1. OnItsWay(s)
    BY DEF Kept
  <2>2. CASE p.method = "REGISTER_RPC"
    BY <1>1, <1>4, <2>2 DEF OnItsWay
  <2>3. CASE p.method # "REGISTER_RPC"
    BY <1>1, <1>3, <1>4, <1>8, <2>1, <2>3 DEF OnItsWay
  <2> QED BY <2>2, <2>3
<1>10. OneWish(s)'
  <2> SUFFICES ASSUME phase[s] = "up", s \notin raced, Alone(s)
               PROVE  /\ \A g, h \in Topics(s)' : g = h
                      /\ \A g \in Topics(s)' : g[2].method = "SUBSCRIBE" <=> s \in subFuncs
                      /\ Topics(s)' = {} => (mySubs'[idOf[s]] = s <=> s \in subFuncs)
    BY <1>1, <1>8 DEF OneWish
  <2>1. /\ \A g, h \in Topics(s) : g = h
        /\ \A g \in Topics(s) : g[2].method = "SUBSCRIBE" <=> s \in subFuncs
        /\ Topics(s) = {} => (mySubs[idOf[s]] = s <=> s \in subFuncs)
    BY DEF Kept, OneWish
  <2>2. CASE p.method \in AboutTopic
    <3>1. <<s, p>> \in Topics(s)
      BY <1>1, <1>3, <2>2 DEF Topics
    <3>2. Topics(s)' = {}
      BY <1>1, <2>1, <3>1 DEF Topics
    <3>3. p.method = "SUBSCRIBE" <=> s \in subFuncs
      BY <1>3, <2>1, <3>1
    <3>4. mySubs'[idOf[s]] = s <=> p.method = "SUBSCRIBE"
      BY <1>4, <2>2, Bounds DEF AboutTopic
    <3> QED BY <3>2, <3>3, <3>4
  <2>3. CASE p.method \notin AboutTopic
    <3>1. Topics(s)' = Topics(s) /\ mySubs' = mySubs
      BY <1>1, <1>2, <1>3, <1>4, <2>3 DEF Topics, AboutTopic
    <3> QED BY <2>1, <3>1
  <2> QED BY <2>2, <2>3
<1> QED BY <1>5, <1>6, <1>7, <1>9, <1>10 DEF Kept

\* The client ends: nothing is kept for it from now on.
LEMMA OverKept ==
  ASSUME Types, Types', Kept, NEW s \in Sessions, Quit(s) \/ LoseConnection(s)
  PROVE  Kept'
<1>1. PICK q : q = [method |-> "QUIT"]
  OBVIOUS
<1>2. /\ phase[s] = "up" /\ phase' = [phase EXCEPT ![s] = "over"]
      /\ handling \subseteq handling' /\ handling' \subseteq handling \cup {<<s, q>>}
      /\ UNCHANGED <<idOf, stage, clients, mySubs, rpcFuncs, subFuncs, offers, raced, late>>
  BY <1>1 DEF Quit, LoseConnection, Send, server, AboutTopic
<1>3. <<s, q>>[1] = s /\ <<s, q>>[2] = q
  OBVIOUS
<1>4. phase'[s] = "over" /\ \A t \in Sessions \ {s} : phase'[t] = phase[t]
  BY <1>2 DEF Types
<1>5. Owners'
  BY <1>2, <1>4 DEF Kept, Owners
<1>6. Stages'
  <2>1. \A t \in Sessions :
          /\ phase'[t] = "new" => stage'[t] = "none" /\ t \notin subFuncs' /\ t \notin offers'
          /\ phase'[t] # "new" => stage'[t] # "none"
          /\ phase'[t] \in {"up", "http"} => stage'[t] = "serving"
    BY <1>2, <1>4 DEF Kept, Stages
  <2>2. \A g \in handling : g[1] \in Sessions
    BY Handled
  <2>3. \A g \in handling' : phase'[g[1]] # "new" /\ (g[2].method \in Quits => phase'[g[1]] = "over")
    BY <1>2, <1>3, <1>4, <2>2 DEF Kept, Stages
  <2> QED BY <2>1, <2>3 DEF Stages
<1>7. \A t \in Sessions \ {s} : OnItsWay(t)' /\ OneWish(t)'
  BY <1>2, <1>3, <1>4, OthersKept
<1>8. OnItsWay(s)' /\ OneWish(s)'
  BY <1>4 DEF OnItsWay, OneWish
<1> QED BY <1>5, <1>6, <1>7, <1>8 DEF Kept

\* An HTTP request opens a session.
LEMMA RequestKept ==
  ASSUME Types, Types', Kept, NEW s \in Sessions,
         \/ HandleHTTP(s) \/ HandleSubscribe(s) \/ HandlePublish(s)
         \/ \E p \in Providers : HandleRpc(s, p)
  PROVE  Kept'
<1>1. /\ phase[s] = "new"
      /\ phase' = [phase EXCEPT ![s] = "http"]
      /\ stage' = [stage EXCEPT ![s] = "serving"]
      /\ clients' = [clients EXCEPT ![idOf[s]] = s]
      /\ UNCHANGED <<idOf, subFuncs, offers, rpcFuncs, raced, late>>
  BY DEF HandleHTTP, HandleSubscribe, HandlePublish, HandleRpc, OpenRequest
<1>2. mySubs' = mySubs \/ mySubs' = [mySubs EXCEPT ![idOf[s]] = s]
  BY DEF HandleHTTP, HandleSubscribe, HandlePublish, HandleRpc
<1>3. /\ phase'[s] = "http" /\ stage'[s] = "serving" /\ idOf[s] \in Ids
      /\ clients'[idOf[s]] = s /\ mySubs'[idOf[s]] \in {mySubs[idOf[s]], s}
      /\ \A t \in Sessions \ {s} : phase'[t] = phase[t] /\ stage'[t] = stage[t]
      /\ \A i \in Ids : i # idOf[s] => clients'[i] = clients[i] /\ mySubs'[i] = mySubs[i]
  BY <1>1, <1>2 DEF Types
<1>4. /\ handling \subseteq handling'
      /\ \A g \in handling' : \/ g \in handling
                              \/ /\ phase'[g[1]] # "new"
                                 /\ g[2].method \notin AboutTopic \cup Quits
  <2>1. CASE HandleHTTP(s) \/ HandleSubscribe(s)
    BY <2>1 DEF HandleHTTP, HandleSubscribe
  <2>2. CASE HandlePublish(s)
    <3>1. ops \in 0..MaxOps /\ handling' = handling \cup Callbacks(ops)
      BY <2>2 DEF HandlePublish, Types
    <3>2. \A g \in Callbacks(ops) : /\ phase[g[1]] # "new" /\ g[1] \in Sessions
                                    /\ g[2].method \notin AboutTopic \cup Quits
      BY <3>1, CallbacksKept, CallbacksAre
    <3> QED BY <1>3, <3>1, <3>2
  <2>3. ASSUME NEW p \in Providers, HandleRpc(s, p)
        PROVE  /\ handling \subseteq handling'
               /\ \A g \in handling' : \/ g \in handling
                                       \/ /\ phase'[g[1]] # "new"
                                          /\ g[2].method \notin AboutTopic \cup Quits
    <3>1. PICK q : q = [method |-> "RPC", n |-> 0, provider |-> p]
      OBVIOUS
    <3>2. q.method \notin AboutTopic \cup Quits
      BY <3>1 DEF AboutTopic, Quits
    <3>3. handling' = handling \cup {<<s, q>>}
      BY <2>3, <3>1 DEF HandleRpc
    <3>4. <<s, q>>[1] = s /\ <<s, q>>[2] = q
      OBVIOUS
    <3> QED BY <1>3, <3>2, <3>3, <3>4
  <2> QED BY <2>1, <2>2, <2>3
<1>5. Owners'
  <2> SUFFICES ASSUME NEW i \in Ids, NEW t \in Sessions
               PROVE  /\ clients'[i] = t => idOf[t] = i /\ stage'[t] \notin {"none", "deleted", "gone"}
                      /\ mySubs'[i] = t => /\ idOf[t] = i /\ phase'[t] # "new"
                                           /\ stage'[t] = "gone" => t \in late
                      /\ rpcFuncs[i] = t => /\ idOf[t] = i /\ phase'[t] # "new"
                                            /\ stage'[t] = "gone" => t \in late
    BY <1>1 DEF Owners
  <2>1. CASE t = s
    BY <1>1, <1>3, <2>1, NewIsUnknown
  <2>2. CASE t # s
    BY <1>3, <2>2 DEF Kept, Owners
  <2> QED BY <2>1, <2>2
<1>6. Stages'
  <2>1. \A t \in Sessions :
          /\ phase'[t] = "new" => stage'[t] = "none" /\ t \notin subFuncs' /\ t \notin offers'
          /\ phase'[t] # "new" => stage'[t] # "none"
          /\ phase'[t] \in {"up", "http"} => stage'[t] = "serving"
    BY <1>1, <1>3 DEF Kept, Stages
  <2>2. \A g \in handling : g[1] \in Sessions \ {s}
    BY <1>1, Handled, NewIsUnknown
  <2>3. \A g \in handling' : phase'[g[1]] # "new" /\ (g[2].method \in Quits => phase'[g[1]] = "over")
    BY <1>3, <1>4, <2>2 DEF Kept, Stages
  <2> QED BY <2>1, <2>3 DEF Stages
<1>7. \A t \in Sessions \ {s} : OnItsWay(t)' /\ OneWish(t)'
  BY <1>1, <1>3, <1>4, OthersKept
<1>8. OnItsWay(s)' /\ OneWish(s)'
  BY <1>3 DEF OnItsWay, OneWish
<1> QED BY <1>5, <1>6, <1>7, <1>8 DEF Kept

\* A session that is over at the client is taken down at the server, in several steps.
LEMMA TakeDown ==
  ASSUME Types, Types', Kept, NEW s \in Sessions, phase[s] # "new", phase'[s] = "over",
         idOf' = idOf, subFuncs' = subFuncs, offers' = offers, raced' = raced, late' = late,
         \A t \in Sessions \ {s} : phase'[t] = phase[t] /\ stage'[t] = stage[t],
         stage'[s] # "none",
         \A i \in Ids : \/ clients'[i] = clients[i]
                        \/ i = idOf[s] /\ clients'[i] = Nobody,
         \A i \in Ids : \/ mySubs'[i] = mySubs[i] /\ rpcFuncs'[i] = rpcFuncs[i]
                        \/ i = idOf[s] /\ mySubs'[i] = Nobody /\ rpcFuncs'[i] = Nobody,
         \A i \in Ids : clients'[i] = s => stage'[s] \notin {"deleted", "gone"},
         \A i \in Ids : (mySubs'[i] = s \/ rpcFuncs'[i] = s) /\ stage'[s] = "gone" => s \in late,
         \A g \in handling' : g \in handling \/ (g[1] = s /\ g[2].method \in Quits),
         \A g \in handling : g[1] # s => g \in handling'
  PROVE  Kept'
<1>1. Owners'
  <2> SUFFICES ASSUME NEW i \in Ids, NEW t \in Sessions
               PROVE  /\ clients'[i] = t => idOf[t] = i /\ stage'[t] \notin {"none", "deleted", "gone"}
                      /\ mySubs'[i] = t => /\ idOf[t] = i /\ phase'[t] # "new"
                                           /\ stage'[t] = "gone" => t \in late
                      /\ rpcFuncs'[i] = t => /\ idOf[t] = i /\ phase'[t] # "new"
                                             /\ stage'[t] = "gone" => t \in late
    BY DEF Owners
  <2>1. /\ clients'[i] = t => clients[i] = t
        /\ mySubs'[i] = t => mySubs[i] = t
        /\ rpcFuncs'[i] = t => rpcFuncs[i] = t
    BY Bounds
  <2>2. CASE t = s
    BY <2>1, <2>2 DEF Kept, Owners
  <2>3. CASE t # s
    BY <2>1, <2>3 DEF Kept, Owners
  <2> QED BY <2>2, <2>3
<1>2. Stages'
  <2>1. \A t \in Sessions :
          /\ phase'[t] = "new" => stage'[t] = "none" /\ t \notin subFuncs' /\ t \notin offers'
          /\ phase'[t] # "new" => stage'[t] # "none"
          /\ phase'[t] \in {"up", "http"} => stage'[t] = "serving"
    BY DEF Kept, Stages
  <2>2. \A g \in handling : g[1] \in Sessions
    BY Handled
  <2>3. \A g \in handling' : phase'[g[1]] # "new" /\ (g[2].method \in Quits => phase'[g[1]] = "over")
    BY <2>2 DEF Kept, Stages
  <2> QED BY <2>1, <2>3 DEF Stages
<1>3. \A t \in Sessions \ {s} : OnItsWay(t)' /\ OneWish(t)'
  BY OthersKept
<1>4. OnItsWay(s)' /\ OneWish(s)'
  BY DEF OnItsWay, OneWish
<1> QED BY <1>1, <1>2, <1>3, <1>4 DEF Kept

LEMMA ErrorKept ==
  ASSUME Types, Types', Kept, NEW s \in Sessions, ReadError(s) \/ RequestEnds(s)
  PROVE  Kept'
<1>1. /\ phase[s] \in {"over", "http"}
      /\ phase' = phase \/ phase' = [phase EXCEPT ![s] = "over"]
      /\ stage' = [stage EXCEPT ![s] = "ended"]
      /\ UNCHANGED <<idOf, subFuncs, offers, clients, mySubs, rpcFuncs, raced, late>>
  BY DEF ReadError, RequestEnds, client
<1>2. phase'[s] = "over"
  BY <1>1 DEF ReadError, RequestEnds, client, Types
<1>3. /\ handling' \subseteq handling
      /\ \A g \in handling : g[1] # s => g \in handling'
  BY DEF ReadError, RequestEnds
<1>4. /\ stage'[s] = "ended"
      /\ \A t \in Sessions \ {s} : phase'[t] = phase[t] /\ stage'[t] = stage[t]
  BY <1>1 DEF Types
<1> QED BY <1>1, <1>2, <1>3, <1>4, TakeDown

LEMMA EndSessionKept ==
  ASSUME Types, Types', Kept, NEW s \in Sessions, EndSession(s)
  PROVE  Kept'
<1>1. /\ UNCHANGED <<idOf, phase, subFuncs, offers, handling, raced, late>>
      /\ stage[s] \in {"ended", "deleted"}
  BY DEF EndSession, client
<1>2. phase[s] = "over" /\ idOf[s] \in Ids
  <2>1. phase[s] \in {"new", "up", "http", "over"} /\ idOf[s] \in Ids
    BY DEF Types
  <2> QED BY <1>1, <2>1 DEF Kept, Stages
<1>3. CASE stage[s] = "ended"
  <2>1. /\ stage' = [stage EXCEPT ![s] = "deleted"]
        /\ clients' = [clients EXCEPT ![idOf[s]] = Nobody]
        /\ UNCHANGED <<mySubs, rpcFuncs>>
    BY <1>3 DEF EndSession, DeleteClient, Forgotten
  <2>2. /\ stage'[s] = "deleted" /\ \A t \in Sessions \ {s} : stage'[t] = stage[t]
        /\ clients'[idOf[s]] = Nobody /\ \A i \in Ids : i # idOf[s] => clients'[i] = clients[i]
    BY <1>2, <2>1 DEF Types
  <2>3. \A i \in Ids : clients'[i] # s
    BY <2>2, Bounds DEF Kept, Owners
  <2> QED BY <1>1, <1>2, <2>1, <2>2, <2>3, TakeDown
<1>4. CASE stage[s] = "deleted"
  <2>1. /\ stage' = [stage EXCEPT ![s] = "gone"]
        /\ clients' = clients
        /\ mySubs' = [mySubs EXCEPT ![idOf[s]] = Nobody]
        /\ rpcFuncs' = [rpcFuncs EXCEPT ![idOf[s]] = Nobody]
    BY <1>4 DEF EndSession, RemoveClient, ClearSubClient, UnregisterRpcServicesByClient
  <2>2. /\ stage'[s] = "gone" /\ \A t \in Sessions \ {s} : stage'[t] = stage[t]
        /\ mySubs'[idOf[s]] = Nobody /\ \A i \in Ids : i # idOf[s] => mySubs'[i] = mySubs[i]
        /\ rpcFuncs'[idOf[s]] = Nobody /\ \A i \in Ids : i # idOf[s] => rpcFuncs'[i] = rpcFuncs[i]
    BY <1>2, <2>1 DEF Types
  <2>3. \A i \in Ids : clients'[i] # s /\ mySubs'[i] # s /\ rpcFuncs'[i] # s
    BY <1>4, <2>1, <2>2, Bounds DEF Kept, Owners
  <2> QED BY <1>1, <1>2, <2>1, <2>2, <2>3, TakeDown
<1> QED BY <1>1, <1>3, <1>4

LEMMA QuitPackageKept ==
  ASSUME Types, Types', Kept, NEW s \in Sessions, NEW p \in Packages, HandleQuitPackage(s, p)
  PROVE  Kept'
<1>1. PICK q : q = [method |-> "QUIT, removed"]
  OBVIOUS
<1>2. /\ <<s, p>> \in handling /\ p.method \in Quits
      /\ UNCHANGED <<idOf, phase, subFuncs, offers, stage, raced, late>>
      /\ handling \ {<<s, p>>} \subseteq handling' /\ handling' \subseteq handling \cup {<<s, q>>}
  BY <1>1 DEF HandleQuitPackage, client, Quits
<1>3. /\ <<s, p>>[1] = s /\ <<s, p>>[2] = p /\ <<s, q>>[1] = s /\ <<s, q>>[2] = q
      /\ q.method \in Quits
  BY <1>1 DEF Quits
<1>4. phase[s] = "over" /\ idOf[s] \in Ids /\ stage[s] # "none"
  BY <1>2, <1>3 DEF Kept, Stages, Types
<1>5. \/ /\ clients' = clients
         /\ mySubs' = [mySubs EXCEPT ![idOf[s]] = Nobody]
         /\ rpcFuncs' = [rpcFuncs EXCEPT ![idOf[s]] = Nobody]
      \/ /\ clients' = [clients EXCEPT ![idOf[s]] = Nobody]
         /\ mySubs' = mySubs /\ rpcFuncs' = rpcFuncs
  BY DEF HandleQuitPackage, RemoveClient, DeleteClient, Forgotten, ClearSubClient,
         UnregisterRpcServicesByClient
<1>6. /\ \A i \in Ids : \/ clients'[i] = clients[i]
                        \/ i = idOf[s] /\ clients'[i] = Nobody
      /\ \A i \in Ids : \/ mySubs'[i] = mySubs[i] /\ rpcFuncs'[i] = rpcFuncs[i]
                        \/ i = idOf[s] /\ mySubs'[i] = Nobody /\ rpcFuncs'[i] = Nobody
  BY <1>4, <1>5 DEF Types
<1>7. \A i \in Ids : clients'[i] = s => stage[s] \notin {"deleted", "gone"}
  BY <1>6, Bounds DEF Kept, Owners
<1>8. \A i \in Ids : (mySubs'[i] = s \/ rpcFuncs'[i] = s) /\ stage[s] = "gone" => s \in late
  BY <1>6, Bounds DEF Kept, Owners
<1> QED BY <1>2, <1>3, <1>4, <1>6, <1>7, <1>8, TakeDown

-----------------------------------------------------------------------------
LEMMA SessionInvInit ==
  ASSUME Init
  PROVE  SessionInv
<1>1. Types
  BY TypesInit
<1>2. Relayed
  <2>1. AnswersMatch
    BY CallsAre DEF Init, AnswersMatch
  <2>2. \A s \in Sessions : Elems(sendCh[s]) = {}
    BY DEF Init, Elems
  <2> QED BY <2>1, <2>2 DEF Init, Relayed
<1>3. Owners
  <2> SUFFICES ASSUME NEW i \in Ids, NEW s \in Sessions, EarlyOf(i) = s
               PROVE  idOf[s] = i /\ stage[s] = "serving" /\ phase[s] = "up"
    BY Bounds DEF Init, Owners
  <2>1. s \in Early /\ idOf[s] = i
    BY EarlyIs, Bounds
  <2> QED BY <2>1 DEF Init
<1>4. Stages
  BY DEF Init, Stages
<1>5. ASSUME NEW s \in Sessions
      PROVE  OnItsWay(s)
  <2> SUFFICES ASSUME phase[s] = "up", Alone(s), s \in offers
               PROVE  rpcFuncs[idOf[s]] = s
    BY DEF OnItsWay
  <2>1. s \in Early /\ idOf[s] \in Ids /\ Early \subseteq Sessions
    BY <1>1, SessionAssumption DEF Init, Types
  <2>2. EarlyOf(idOf[s]) \in Early /\ idOf[EarlyOf(idOf[s])] = idOf[s]
    BY <2>1, EarlyIs
  <2>3. EarlyOf(idOf[s]) = s
    BY <2>1, <2>2 DEF Alone, Init
  <2> QED BY <2>1, <2>3 DEF Init
<1>6. ASSUME NEW s \in Sessions
      PROVE  OneWish(s)
  <2>1. Topics(s) = {} /\ mySubs[idOf[s]] # s /\ s \notin subFuncs
    BY <1>1, Bounds DEF Init, Topics, Types
  <2> QED BY <2>1 DEF OneWish
<1> QED BY <1>1, <1>2, <1>3, <1>4, <1>5, <1>6 DEF SessionInv, Kept

LEMMA SessionInvStep ==
  ASSUME SessionInv, [Next]_vars
  PROVE  SessionInv'
<1>1. Types /\ Relayed /\ Kept
  BY DEF SessionInv
<1>2. Types'
  BY <1>1, TypesStep
<1>3. ASSUME NEW g \in handling, HandlePackage(g)
      PROVE  Relayed' /\ Kept'
  <2>1. g[1] \in Sessions /\ g[2] \in Packages
    BY <1>1, Handled
  <2>2. Relayed'
    BY <1>1, <1>2, <1>3, <2>1, KeepRelayed, InvokeRelayed, ReturnRelayed, GroupRelayed
       DEF HandlePackage
  <2>3. Kept'
    BY <1>1, <1>2, <1>3, <2>1, CallbackKept, RelayKept, PublishKept, QuitPackageKept
       DEF HandlePackage
  <2> QED BY <2>2, <2>3
<1>4. Relayed'
  BY <1>1, <1>2, <1>3, AskRelayed, ClientRelayed, HandleMessageRelayed, RequestRelayed,
     PendingRelayed DEF Next
<1>5. Kept'
  BY <1>1, <1>2, <1>3, ConnectKept, AskKept, QuietAskKept, OverKept, HandleMessageKept,
     RequestKept, ErrorKept, EndSessionKept, PendingKept DEF Next
<1> QED BY <1>2, <1>4, <1>5 DEF SessionInv

LEMMA SessionInvHolds == Spec => []SessionInv
BY SessionInvInit, SessionInvStep, PTL DEF Spec

\* A call returns an answer to a call of the same number that a client with the same id
\* made, whatever the server relays meanwhile, and however late the answers are.
THEOREM AnswersDoMatch == Spec => []AnswersMatch
<1>1. SessionInv => AnswersMatch
  BY DEF SessionInv, Relayed
<1> QED BY <1>1, SessionInvHolds, PTL

\* Nothing is kept for a session that is over, in whatever order the steps of its end and
\* those of its last packages are taken, unless a package is handled after its end.
THEOREM NothingIsLeft == Spec => []NothingLeft
<1>1. SessionInv => NothingLeft
  BY DEF SessionInv, Kept, Owners, NothingLeft
<1> QED BY <1>1, SessionInvHolds, PTL

\* The node has the callbacks a client has asked for.
THEOREM WishesAreKept == Spec => []WishesKept
<1>1. ASSUME SessionInv, NEW s \in Sessions, phase[s] = "up", Quiet(s), s \notin raced,
             \A t \in Sessions \ {s} : idOf[t] = idOf[s] => phase[t] = "new"
      PROVE  /\ mySubs[idOf[s]] = s <=> s \in subFuncs
             /\ s \in offers => rpcFuncs[idOf[s]] = s
  <2>1. Alone(s) /\ OnItsWay(s) /\ OneWish(s)
    BY <1>1 DEF SessionInv, Kept, Alone
  <2>2. Topics(s) = {}
    BY <1>1 DEF Quiet, Topics
  <2>3. mySubs[idOf[s]] = s <=> s \in subFuncs
    BY <1>1, <2>1, <2>2 DEF OneWish
  <2>4. s \in offers => rpcFuncs[idOf[s]] = s
    BY <1>1, <2>1 DEF OnItsWay, Quiet
  <2> QED BY <2>3, <2>4
<1>2. SessionInv => WishesKept
  BY <1>1 DEF WishesKept
<1> QED BY <1>2, SessionInvHolds, PTL
=============================================================================
