------------------------------- MODULE Session -------------------------------
(***************************************************************************)
(* The clients of a node: the library (src/api/MajulaClient.go), the       *)
(* server it talks to (src/core/MajulaServer.go), and what the server      *)
(* keeps at the node for a client (src/core/Node.go).                      *)
(*                                                                         *)
(* A session is one websocket connection of one client process, or one     *)
(* HTTP request; two sessions may have the same client id.  There is one   *)
(* topic and one function, with different names, and calls go to this      *)
(* node itself (module Rpc has the calls between nodes).                   *)
(***************************************************************************)
EXTENDS Integers, Sequences, FiniteSets

CONSTANTS
  Sessions,
  Ids,         \* the client ids
  IdChoices,   \* the ids the sessions may have
  Providers,   \* the ids whose function is called
  Early,       \* the sessions that are connected at the start and provide the function
  MayAsk,      \* the methods that a session may use
  MayEnd,      \* the sessions that may come to an end
  SendChSize,  \* the capacity of a SendCh
  MaxOps       \* a bound on what the clients ask for

\* The place of a session in a map that has none; no session is named so.
Nobody == 0

ASSUME SessionAssumption ==
  /\ Nobody \notin Sessions
  /\ IdChoices \subseteq [Sessions -> Ids]
  /\ Providers \subseteq Ids
  /\ DOMAIN MayAsk = Sessions
  /\ Early \subseteq Sessions /\ MayEnd \subseteq Sessions
  /\ SendChSize \in Nat \ {0} /\ MaxOps \in Nat

VARIABLES
  idOf,      \* the client id of a session
  phase,     \* the client: "new", "up", "http" or "over"
  stage,     \* readLoop: "none", "serving", and the steps of its end
  handling,  \* the packages sent and not yet handled, each with its session: the server
             \* handles every one in a goroutine of its own, in any order
  clients,   \* Clients: the session that an id has
  mySubs,    \* MySubs: the session whose callback an id has under the topic
  rpcFuncs,  \* RpcFuncs: the session whose callback an id has for the function
  subFuncs,  \* SubFuncs: the clients with a callback for the topic
  offers,    \* the clients with a callback for the function
  invokeId,  \* InvokeId of a client
  returned,  \* what a call has returned
  rpcInvokeCounter,
  pendingRpc,  \* pendingRpc: the call a local id stands for
  sendCh,    \* SendCh, up to the client
  ops,
  raced,     \* the sessions that had two packages about the topic to be handled at a time
  late       \* the sessions for which something was handled after the node had forgotten them

client == <<phase, subFuncs, offers, invokeId, returned, ops>>
server == <<stage, handling, clients, mySubs, rpcFuncs, rpcInvokeCounter, pendingRpc, raced, late>>
vars == <<idOf, client, server, sendCh>>

\* What is in the place of a result.
NotMade == <<0, 0>>
Waiting == <<0, 1>>
Failed == <<0, 2>>

\* The calls of a session by number; the call of an HTTP request has none.
Calls == Sessions \X (0..MaxOps)

\* The session that has the id at the start.
EarlyOf(i) == IF \E s \in Early : idOf[s] = i THEN CHOOSE s \in Early : idOf[s] = i ELSE Nobody

Init ==
  /\ idOf \in IdChoices
  /\ phase = [s \in Sessions |-> IF s \in Early THEN "up" ELSE "new"]
  /\ stage = [s \in Sessions |-> IF s \in Early THEN "serving" ELSE "none"]
  /\ handling = {}
  /\ clients = [i \in Ids |-> EarlyOf(i)]
  /\ mySubs = [i \in Ids |-> Nobody]
  /\ rpcFuncs = [i \in Ids |-> EarlyOf(i)]
  /\ subFuncs = {}
  /\ offers = Early
  /\ invokeId = [s \in Sessions |-> 0]
  /\ returned = [c \in Calls |-> NotMade]
  /\ rpcInvokeCounter = 0
  /\ pendingRpc = {}
  /\ sendCh = [s \in Sessions |-> <<>>]
  /\ ops = 0
  /\ raced = {}
  /\ late = {}

-----------------------------------------------------------------------------
\* The client library.

\* mainLoop and handleWS.
Connect(s) ==
  /\ phase[s] = "new"
  /\ phase' = [phase EXCEPT ![s] = "up"]
  /\ stage' = [stage EXCEPT ![s] = "serving"]
  /\ clients' = [clients EXCEPT ![idOf[s]] = s]
  /\ UNCHANGED <<idOf, subFuncs, offers, invokeId, returned, ops, handling, mySubs,
                 rpcFuncs, rpcInvokeCounter, pendingRpc, raced, late, sendCh>>

AboutTopic == {"SUBSCRIBE", "UNSUBSCRIBE"}

\* Send, sendLoop, and readLoop of the server.
Send(s, package) ==
  /\ handling' = handling \cup {<<s, package>>}
  /\ raced' = IF /\ package.method \in AboutTopic
                 /\ \E g \in handling : g[1] = s /\ g[2].method \in AboutTopic
              THEN raced \cup {s}
              ELSE raced

HasRoom(s) == Len(sendCh[s]) < SendChSize

\* Something the program asks the client for.
Ask(s, package) ==
  /\ phase[s] = "up"
  /\ package.method \in MayAsk[s]
  /\ ops < MaxOps
  /\ ops' = ops + 1
  /\ Send(s, package)
  /\ UNCHANGED <<idOf, stage, clients, mySubs, rpcFuncs, rpcInvokeCounter, pendingRpc, late, sendCh>>

Subscribe(s) ==
  /\ Ask(s, [method |-> "SUBSCRIBE"])
  /\ subFuncs' = subFuncs \cup {s}
  /\ UNCHANGED <<phase, offers, invokeId, returned>>

Unsubscribe(s) ==
  /\ s \in subFuncs
  /\ Ask(s, [method |-> "UNSUBSCRIBE"])
  /\ subFuncs' = subFuncs \ {s}
  /\ UNCHANGED <<phase, offers, invokeId, returned>>

RegisterRpc(s) ==
  /\ Ask(s, [method |-> "REGISTER_RPC"])
  /\ offers' = offers \cup {s}
  /\ UNCHANGED <<phase, subFuncs, invokeId, returned>>

UnregisterRpc(s) ==
  /\ s \in offers
  /\ Ask(s, [method |-> "UNREGISTER_RPC"])
  /\ offers' = offers \ {s}
  /\ UNCHANGED <<phase, subFuncs, invokeId, returned>>

\* CallRpc, up to where it waits; CallRpcAsync does the same.
CallRpc(s, provider) ==
  LET n == invokeId[s] + 1
  IN  /\ Ask(s, [method |-> "RPC", n |-> n, provider |-> provider])
      /\ invokeId' = [invokeId EXCEPT ![s] = n]
      /\ returned' = [returned EXCEPT ![<<s, n>>] = Waiting]
      /\ UNCHANGED <<phase, subFuncs, offers>>

\* PutInGroup, DeleteFromGroup and GetFromGroup, up to where they wait.
GroupCall(s) ==
  LET n == invokeId[s] + 1
  IN  /\ Ask(s, [method |-> "GROUP", n |-> n])
      /\ invokeId' = [invokeId EXCEPT ![s] = n]
      /\ returned' = [returned EXCEPT ![<<s, n>>] = Waiting]
      /\ UNCHANGED <<phase, subFuncs, offers>>

Publish(s) ==
  /\ Ask(s, [method |-> "PUBLISH", n |-> ops])
  /\ UNCHANGED <<phase, subFuncs, offers, invokeId, returned>>

\* A call of a client gives up.
CallTimesOut(c) ==
  /\ c[2] > 0
  /\ returned[c] = Waiting
  /\ returned' = [returned EXCEPT ![c] = Failed]
  /\ UNCHANGED <<idOf, phase, subFuncs, offers, invokeId, ops, server, sendCh>>

\* Quit: sendLoop may stop before it has sent the package.
Quit(s) ==
  /\ s \in MayEnd
  /\ phase[s] = "up"
  /\ phase' = [phase EXCEPT ![s] = "over"]
  /\ Send(s, [method |-> "QUIT"])
  /\ UNCHANGED <<idOf, subFuncs, offers, invokeId, returned, ops, stage, clients, mySubs, rpcFuncs,
                 rpcInvokeCounter, pendingRpc, late, sendCh>>

\* The client ends, or readLoop gets an error: it does not connect again.
LoseConnection(s) ==
  /\ s \in MayEnd
  /\ phase[s] = "up"
  /\ phase' = [phase EXCEPT ![s] = "over"]
  /\ UNCHANGED <<idOf, subFuncs, offers, invokeId, returned, ops, server, sendCh>>

\* handleMessage with RPC_CALL_FROM_REMOTE: the result goes back.
RunRpc(s, m) ==
  /\ IF s \in offers
     THEN Send(s, [method |-> "RETURN_RESULT", local |-> m.local, result |-> m.args])
     ELSE UNCHANGED <<handling, raced>>
  /\ UNCHANGED returned

\* handleMessage with RPC_RESULT, for the call that has the number.  The result channel of a
\* call that has timed out takes it too, but nobody reads it.
TakeResult(s, m) ==
  /\ returned' = IF returned[<<s, m.n>>] = Waiting
                 THEN [returned EXCEPT ![<<s, m.n>>] = m.result]
                 ELSE returned
  /\ UNCHANGED <<handling, raced>>

\* writeLoop, readLoop of the client, and handleMessage.
HandleMessage(s) ==
  /\ phase[s] = "up"
  /\ sendCh[s] # <<>>
  /\ sendCh' = [sendCh EXCEPT ![s] = Tail(@)]
  /\ LET m == Head(sendCh[s])
     IN  CASE m.method = "RPC_RESULT" -> TakeResult(s, m)
           [] m.method = "RPC_CALL"   -> RunRpc(s, m)
           [] m.method = "SUB_RESULT" -> UNCHANGED <<handling, raced, returned>>
  /\ UNCHANGED <<idOf, phase, stage, clients, mySubs, rpcFuncs, subFuncs, offers, invokeId, ops,
                 rpcInvokeCounter, pendingRpc, late>>

-----------------------------------------------------------------------------
\* The server: every package is handled by a goroutine of its own.

\* The goroutine of a package ends with this step.
Handles(s, package) ==
  /\ <<s, package>> \in handling
  /\ handling' = handling \ {<<s, package>>}
  /\ UNCHANGED <<idOf, client, stage, raced>>

\* handleSubscribePackage, with addLocalSub.
HandleSubscribePackage(s, package) ==
  /\ package.method = "SUBSCRIBE"
  /\ Handles(s, package)
  /\ mySubs' = [mySubs EXCEPT ![idOf[s]] = s]
  /\ late' = IF stage[s] = "gone" THEN late \cup {s} ELSE late
  /\ UNCHANGED <<clients, rpcFuncs, rpcInvokeCounter, pendingRpc, sendCh>>

\* handleUnsubscribePackage, with removeLocalSub: whatever session has the id.
HandleUnsubscribePackage(s, package) ==
  /\ package.method = "UNSUBSCRIBE"
  /\ Handles(s, package)
  /\ mySubs' = [mySubs EXCEPT ![idOf[s]] = Nobody]
  /\ UNCHANGED <<clients, rpcFuncs, rpcInvokeCounter, pendingRpc, sendCh, late>>

\* handleRPCRegisterPackage, with registerRpcService.
HandleRPCRegisterPackage(s, package) ==
  /\ package.method = "REGISTER_RPC"
  /\ Handles(s, package)
  /\ rpcFuncs' = [rpcFuncs EXCEPT ![idOf[s]] = s]
  /\ late' = IF stage[s] = "gone" THEN late \cup {s} ELSE late
  /\ UNCHANGED <<clients, mySubs, rpcInvokeCounter, pendingRpc, sendCh>>

\* handleRPCUnregisterPackage: removeLocalSub for a topic with the name of the function, so
\* that the function stays.
HandleRPCUnregisterPackage(s, package) ==
  /\ package.method = "UNREGISTER_RPC"
  /\ Handles(s, package)
  /\ UNCHANGED <<clients, mySubs, rpcFuncs, rpcInvokeCounter, pendingRpc, sendCh, late>>

\* Mutant: the id of the caller, which is 0 for a call at the node itself.
OriginInvokeId == 0

\* nextLocalInvokeId.
NextLocalInvokeId == rpcInvokeCounter + 1

\* invokeLocalRpc with the callback of session p, up to where the callback waits; it waits
\* before that while SendCh is full.  Without a callback the answer is an error.
InvokeLocalRpc(p, call) ==
  IF p = Nobody
  THEN /\ pendingRpc' = pendingRpc \cup {[local |-> 0, call |-> call, answer |-> Failed]}
       /\ UNCHANGED <<rpcInvokeCounter, sendCh>>
  ELSE /\ HasRoom(p)
       /\ rpcInvokeCounter' = rpcInvokeCounter + 1
       /\ pendingRpc' = pendingRpc \cup
            {[local |-> NextLocalInvokeId, call |-> call, answer |-> Waiting]}
       /\ sendCh' = [sendCh EXCEPT ![p] =
            Append(@, [method |-> "RPC_CALL", local |-> NextLocalInvokeId, args |-> call])]

\* handleRPCCallPackage, up to MakeRpcRequest.
HandleRPCCallPackage(s, package) ==
  /\ package.method = "RPC"
  /\ Handles(s, package)
  /\ InvokeLocalRpc(rpcFuncs[package.provider], <<s, package.n>>)
  /\ UNCHANGED <<clients, mySubs, rpcFuncs, late>>

\* SendToClient: to the session the id has by now, unless its SendCh is full.
SendToClient(i, message) ==
  LET t == clients[i]
  IN  sendCh' = IF t # Nobody /\ HasRoom(t)
                THEN [sendCh EXCEPT ![t] = Append(@, message)]
                ELSE sendCh

Result(call, answer) == [method |-> "RPC_RESULT", n |-> call[2], result |-> answer]

\* handlePutInGroupPackage and the like: the answer of the group comes at once, or the call
\* is answered with an error.
HandleGroupPackage(s, package) ==
  LET call == <<s, package.n>>
  IN  /\ package.method = "GROUP"
      /\ Handles(s, package)
      /\ \E answer \in {call, Failed} : SendToClient(idOf[s], Result(call, answer))
      /\ UNCHANGED <<clients, mySubs, rpcFuncs, rpcInvokeCounter, pendingRpc, late>>

\* publishOnTopic, for the clients of this node: a goroutine for every callback.
Callbacks(n) ==
  {<<mySubs[i], [method |-> "SUB_RESULT", n |-> n]>> : i \in {j \in Ids : mySubs[j] # Nobody}}

HandlePublishPackage(s, package) ==
  /\ package.method = "PUBLISH"
  /\ <<s, package>> \in handling
  /\ handling' = (handling \ {<<s, package>>}) \cup Callbacks(package.n)
  /\ UNCHANGED <<idOf, client, stage, raced, clients, mySubs, rpcFuncs, rpcInvokeCounter,
                 pendingRpc, late, sendCh>>

\* The callback of a subscription waits while SendCh is full.
SubCallback(s, package) ==
  /\ package.method = "SUB_RESULT"
  /\ Handles(s, package)
  /\ HasRoom(s)
  /\ sendCh' = [sendCh EXCEPT ![s] = Append(@, [method |-> "SUB_RESULT"])]
  /\ UNCHANGED <<clients, mySubs, rpcFuncs, rpcInvokeCounter, pendingRpc, late>>

Answered(r, answer) == {[r EXCEPT !.answer = answer]}

NobodyWaits(found) == found = {}

\* handleReturnResultPackage: a result that nobody waits for is dropped.
HandleReturnResultPackage(s, package) ==
  LET found == {r \in pendingRpc : r.local = package.local /\ r.answer = Waiting}
  IN  /\ package.method = "RETURN_RESULT"
      /\ Handles(s, package)
      /\ IF NobodyWaits(found)
         THEN UNCHANGED pendingRpc
         ELSE \E r \in found :
                pendingRpc' = (pendingRpc \ {r}) \cup Answered(r, package.result)
      /\ UNCHANGED <<clients, mySubs, rpcFuncs, rpcInvokeCounter, sendCh, late>>

\* Mutant: the callback waits for the result as long as it takes.
WaitsOn(r) == FALSE

MayTimeOut(r) == r.answer = Waiting

\* The callback has waited for ten seconds.
PendingTimesOut(r) ==
  /\ MayTimeOut(r)
  /\ pendingRpc' = (pendingRpc \ {r}) \cup Answered(r, Failed)
  /\ UNCHANGED <<idOf, client, stage, handling, clients, mySubs, rpcFuncs, rpcInvokeCounter, raced,
                 late, sendCh>>

\* The end of handleRPCCallPackage.
Reply(r) ==
  /\ r.call[2] > 0
  /\ r.answer # Waiting
  /\ pendingRpc' = pendingRpc \ {r}
  /\ SendToClient(idOf[r.call[1]], Result(r.call, r.answer))
  /\ UNCHANGED <<idOf, client, stage, handling, clients, mySubs, rpcFuncs, rpcInvokeCounter,
                 raced, late>>

-----------------------------------------------------------------------------
\* How a session ends, at the server.

\* What is no package of a client but a goroutine that has begun.
UnderWay == {"QUIT, removed", "SUB_RESULT"}

\* readLoop gets an error: what the client had not yet sent is lost.
ReadError(s) ==
  /\ stage[s] = "serving"
  /\ phase[s] = "over"
  /\ stage' = [stage EXCEPT ![s] = "ended"]
  /\ \E lost \in SUBSET {g \in handling : g[1] = s /\ g[2].method \notin UnderWay} :
       handling' = handling \ lost
  /\ UNCHANGED <<idOf, client, clients, mySubs, rpcFuncs, rpcInvokeCounter, pendingRpc, raced, late,
                 sendCh>>

\* An HTTP request makes a client for as long as it takes.
OpenRequest(s) ==
  /\ s \in MayEnd
  /\ phase[s] = "new"
  /\ ops < MaxOps
  /\ ops' = ops + 1
  /\ phase' = [phase EXCEPT ![s] = "http"]
  /\ stage' = [stage EXCEPT ![s] = "serving"]
  /\ clients' = [clients EXCEPT ![idOf[s]] = s]
  /\ UNCHANGED <<idOf, subFuncs, offers, invokeId, rpcFuncs, rpcInvokeCounter, pendingRpc,
                 raced, late, sendCh>>

HandleHTTP(s) == OpenRequest(s) /\ UNCHANGED <<handling, mySubs, returned>>

HandleSubscribe(s) ==
  /\ OpenRequest(s)
  /\ mySubs' = [mySubs EXCEPT ![idOf[s]] = s]
  /\ UNCHANGED <<handling, returned>>

HandlePublish(s) ==
  /\ OpenRequest(s)
  /\ handling' = handling \cup Callbacks(ops)
  /\ UNCHANGED <<mySubs, returned>>

\* handleRpc starts a goroutine for the call.
HandleRpc(s, provider) ==
  /\ OpenRequest(s)
  /\ handling' = handling \cup {<<s, [method |-> "RPC", n |-> 0, provider |-> provider]>>}
  /\ returned' = [returned EXCEPT ![<<s, 0>>] = Waiting]
  /\ UNCHANGED mySubs

\* The goroutine of handleRpc has its result, which is of no use when the request is over.
RequestAnswered(r) ==
  /\ r.call[2] = 0
  /\ r.answer # Waiting
  /\ pendingRpc' = pendingRpc \ {r}
  /\ returned' = IF phase[r.call[1]] = "http" THEN [returned EXCEPT ![r.call] = r.answer]
                 ELSE returned
  /\ UNCHANGED <<idOf, phase, subFuncs, offers, invokeId, ops, stage, handling, clients, mySubs,
                 rpcFuncs, rpcInvokeCounter, raced, late, sendCh>>

\* The context of a request is done.
RequestEnds(s) ==
  /\ phase[s] = "http"
  /\ phase' = [phase EXCEPT ![s] = "over"]
  /\ stage' = [stage EXCEPT ![s] = "ended"]
  /\ UNCHANGED <<idOf, subFuncs, offers, invokeId, returned, ops, handling, clients, mySubs,
                 rpcFuncs, rpcInvokeCounter, pendingRpc, raced, late, sendCh>>

\* delete(s.Clients, ...): whatever session has the id.
Forgotten(s) == [clients EXCEPT ![idOf[s]] = Nobody]

\* Mutant: the topic goes, with the subscriptions of every client.
WholeTopic(s) == [i \in Ids |-> Nobody]

\* RemoveClient, its first half: clearSubClient.
ClearSubClient(s) == [mySubs EXCEPT ![idOf[s]] = Nobody]

\* Mutant: the functions stay.
KeepServices(s) == rpcFuncs

\* RemoveClient, its second half: UnregisterRpcServicesByClient.
UnregisterRpcServicesByClient(s) == [rpcFuncs EXCEPT ![idOf[s]] = Nobody]

\* RemoveClient.
RemoveClient(s) ==
  /\ mySubs' = ClearSubClient(s)
  /\ rpcFuncs' = UnregisterRpcServicesByClient(s)
  /\ UNCHANGED clients

DeleteClient(s) ==
  /\ clients' = Forgotten(s)
  /\ UNCHANGED <<mySubs, rpcFuncs>>

\* The deferred function of readLoop, in two steps.
EndSession(s) ==
  /\ \/ stage[s] = "ended" /\ stage' = [stage EXCEPT ![s] = "deleted"] /\ DeleteClient(s)
     \/ stage[s] = "deleted" /\ stage' = [stage EXCEPT ![s] = "gone"] /\ RemoveClient(s)
  /\ UNCHANGED <<idOf, client, handling, rpcInvokeCounter, pendingRpc, raced, late, sendCh>>

\* handleQuitPackage, in two steps in the other order.
HandleQuitPackage(s, package) ==
  LET rest == handling \ {<<s, package>>}
  IN  /\ <<s, package>> \in handling
      /\ \/ /\ package.method = "QUIT"
            /\ handling' = rest \cup {<<s, [method |-> "QUIT, removed"]>>}
            /\ RemoveClient(s)
         \/ /\ package.method = "QUIT, removed"
            /\ handling' = rest
            /\ DeleteClient(s)
      /\ UNCHANGED <<idOf, client, stage, rpcInvokeCounter, pendingRpc, raced, late, sendCh>>

-----------------------------------------------------------------------------
HandlePackage(g) ==
  \/ HandleSubscribePackage(g[1], g[2])
  \/ HandleUnsubscribePackage(g[1], g[2])
  \/ HandleRPCRegisterPackage(g[1], g[2])
  \/ HandleRPCUnregisterPackage(g[1], g[2])
  \/ HandleRPCCallPackage(g[1], g[2])
  \/ HandleReturnResultPackage(g[1], g[2])
  \/ HandleGroupPackage(g[1], g[2])
  \/ HandlePublishPackage(g[1], g[2])
  \/ SubCallback(g[1], g[2])
  \/ HandleQuitPackage(g[1], g[2])

Next ==
  \/ \E s \in Sessions :
       \/ Connect(s)
       \/ Subscribe(s)
       \/ Unsubscribe(s)
       \/ RegisterRpc(s)
       \/ UnregisterRpc(s)
       \/ \E provider \in Providers : CallRpc(s, provider) \/ HandleRpc(s, provider)
       \/ GroupCall(s)
       \/ Publish(s)
       \/ Quit(s)
       \/ LoseConnection(s)
       \/ HandleMessage(s)
       \/ ReadError(s)
       \/ HandleHTTP(s)
       \/ HandleSubscribe(s)
       \/ HandlePublish(s)
       \/ RequestEnds(s)
       \/ EndSession(s)
  \/ \E c \in Calls : CallTimesOut(c)
  \/ \E g \in handling : HandlePackage(g)
  \/ \E r \in pendingRpc : PendingTimesOut(r) \/ Reply(r) \/ RequestAnswered(r)

Spec == Init /\ [][Next]_vars

\* The loops, the goroutines and the timers of server and clients go on.
FairSpec ==
  /\ Spec
  /\ WF_vars(\E g \in handling : HandlePackage(g))
  /\ WF_vars(\E r \in pendingRpc : PendingTimesOut(r))
  /\ WF_vars(\E r \in pendingRpc : Reply(r) \/ RequestAnswered(r))
  /\ \A s \in Sessions : /\ WF_vars(HandleMessage(s))
                         /\ WF_vars(ReadError(s))
                         /\ WF_vars(EndSession(s))
-----------------------------------------------------------------------------

\* A call returns the result that was computed for it, whatever calls the server relays
\* between clients at the same time.  A client that has come back under the same id counts
\* its calls from 1 again, and may be given the result of its former call of the same number.
AnswersMatch ==
  \A c \in Calls : returned[c] \in Calls =>
    idOf[returned[c][1]] = idOf[c[1]] /\ returned[c][2] = c[2]

\* Nothing is kept at the node for a session that is over, but for what a goroutine did when
\* the node had forgotten the session already.
NothingLeft ==
  \A s \in Sessions : stage[s] = "gone" /\ s \notin late =>
    \A i \in Ids : s \notin {clients[i], mySubs[i], rpcFuncs[i]}

\* Nothing of what a client has asked for is on its way.
Quiet(s) == \A g \in handling : g[1] # s

\* The node has the callbacks a client has asked for, once all its packages are handled,
\* unless two of them were on their way at a time or another session has had the same id.
WishesKept ==
  \A s \in Sessions :
    (/\ phase[s] = "up" /\ Quiet(s) /\ s \notin raced
     /\ \A t \in Sessions \ {s} : idOf[t] = idOf[s] => phase[t] = "new")
    => /\ (mySubs[idOf[s]] = s) = (s \in subFuncs)
       /\ s \in offers => rpcFuncs[idOf[s]] = s

\* Nobody waits for ever: a call that a client provides does not stay pending, also if the
\* client goes away, and a goroutine that handles a package comes to its end, as long as
\* there are not more calls than SendCh has room for.
NobodyHangs ==
  /\ \A n \in 1..MaxOps :
       (\E r \in pendingRpc : r.local = n) ~> (\A r \in pendingRpc : r.local # n)
  /\ []<>(handling = {})
=============================================================================
