--------------------------------- MODULE Rpc ---------------------------------
(***************************************************************************)
(* Remote procedure calls between two nodes (src/core/RPC.go): a caller    *)
(* with its stubs and its table of services, and a callee with its         *)
(* functions, its cache of received calls and the floods in which it tells *)
(* of its services.                                                        *)
(*                                                                         *)
(* A call is its InvokeId.  Requests, responses and floods may be late and *)
(* overtake each other; requests and responses may be lost, and a request  *)
(* may arrive twice: onRecv forgets what it has received every ten         *)
(* seconds, and a request that waits in a retry queue is sent again.       *)
(***************************************************************************)
EXTENDS Integers, FiniteSets, Bags, BagsExt, Functions

CONSTANTS
  Functions,
  Providers,
  MaxCalls,       \* a bound on InvokedId
  MaxChanges,     \* a bound on the functions registered and unregistered
  MaxDuplicates,  \* a bound on the requests that arrive once more
  MaxFloods       \* a bound on the floods under way

ASSUME RpcAssumption ==
  /\ IsFiniteSet(Functions) /\ IsFiniteSet(Providers)
  /\ MaxCalls \in Nat /\ MaxChanges \in Nat /\ MaxDuplicates \in Nat /\ MaxFloods \in Nat

Calls == 1..MaxCalls
Services == Functions \X Providers

VARIABLES
  rpcFuncs,    \* RpcFuncs of the callee
  changes,
  floods,      \* the tables of services on their way to the caller
  totalRpcs,   \* TotalRpcs of the caller, for this callee: a provider for a function
  invokedId,   \* InvokedId of the caller
  service,     \* the function and the provider that a call asks for
  activeStubs, \* ActiveStubs
  phase,       \* where MakeRpcRequest is in a call
  requests,    \* the RpcRequests under way, a bag
  duplicates,
  rpcCache,    \* ReceivedRpcCache of the callee
  running,     \* the calls whose callback runs
  executed,    \* how often the callback of a call has run
  responses,   \* the RpcResponses under way, a bag of calls and answers
  pushers      \* the goroutines of handleRpcResponse that send to a stub's Result, a bag

calleeVars == <<rpcFuncs, changes, floods, totalRpcs>>
vars == <<calleeVars, invokedId, service, activeStubs, phase, requests, duplicates,
          rpcCache, running, executed, responses, pushers>>

Answers == {"result", "error"}

\* The tables a flood may carry: one of the providers of each function.
Tables == UNION {[fs -> Providers] : fs \in SUBSET Functions}

Init ==
  /\ rpcFuncs = {}
  /\ changes = 0
  /\ floods = EmptyBag
  /\ totalRpcs = <<>>
  /\ invokedId = 0
  /\ service = [c \in {} |-> {}]
  /\ activeStubs = {}
  /\ phase = [c \in Calls |-> "none"]
  /\ requests = EmptyBag
  /\ duplicates = 0
  /\ rpcCache = {}
  /\ running = {}
  /\ executed = [c \in Calls |-> 0]
  /\ responses = EmptyBag
  /\ pushers = EmptyBag

-----------------------------------------------------------------------------
\* Services.

RegisterRpcService(s) ==
  /\ changes < MaxChanges
  /\ s \notin rpcFuncs
  /\ changes' = changes + 1
  /\ rpcFuncs' = rpcFuncs \cup {s}
  /\ UNCHANGED <<floods, totalRpcs, invokedId, service, activeStubs, phase, requests,
                 duplicates, rpcCache, running, executed, responses, pushers>>

UnregisterRpcService(s) ==
  /\ changes < MaxChanges
  /\ s \in rpcFuncs
  /\ changes' = changes + 1
  /\ rpcFuncs' = rpcFuncs \ {s}
  /\ UNCHANGED <<floods, totalRpcs, invokedId, service, activeStubs, phase, requests,
                 duplicates, rpcCache, running, executed, responses, pushers>>

\* The map of functions to providers that floodRpcServices makes.
Advertised == {t \in Tables : \A f \in Functions :
                 LET ps == {p \in Providers : <<f, p>> \in rpcFuncs}
                 IN  IF ps # {} THEN f \in DOMAIN t /\ t[f] \in ps ELSE f \notin DOMAIN t}

\* Run by the ticker, and by a goroutine that each change of rpcFuncs starts.
FloodRpcServices ==
  /\ BagCardinality(floods) < MaxFloods
  /\ \E t \in Advertised : floods' = BagAdd(floods, t)
  /\ UNCHANGED <<rpcFuncs, changes, totalRpcs, invokedId, service, activeStubs, phase,
                 requests, duplicates, rpcCache, running, executed, responses, pushers>>

\* Mutant: what a flood does not name stays in the table.
Merged(t) == [f \in DOMAIN t \cup DOMAIN totalRpcs |->
                IF f \in DOMAIN t THEN t[f] ELSE totalRpcs[f]]

\* Every entry of the sender is dropped before its functions are entered.
Replaced(t) == t

HandleRpcServiceFlood(t) ==
  /\ BagIn(t, floods)
  /\ floods' = BagRemove(floods, t)
  /\ totalRpcs' = Replaced(t)
  /\ UNCHANGED <<rpcFuncs, changes, invokedId, service, activeStubs, phase, requests,
                 duplicates, rpcCache, running, executed, responses, pushers>>

-----------------------------------------------------------------------------
\* The caller.

\* MakeRpcRequest as far as its select.
MakeRpcRequest(s) ==
  LET c == invokedId + 1
  IN  /\ c \in Calls
      /\ invokedId' = c
      /\ service' = [d \in DOMAIN service \cup {c} |-> IF d = c THEN s ELSE service[d]]
      /\ activeStubs' = activeStubs \cup {c}
      /\ phase' = [phase EXCEPT ![c] = "waiting"]
      /\ requests' = BagAdd(requests, c)
      /\ UNCHANGED <<calleeVars, duplicates, rpcCache, running, executed, responses, pushers>>

\* handleRpcResponse: the stub is looked up under the lock, the answer is sent to it by a
\* goroutine.
HandleRpcResponse(c, a) ==
  /\ BagIn(<<c, a>>, responses)
  /\ responses' = BagRemove(responses, <<c, a>>)
  /\ pushers' = IF c \in activeStubs THEN BagAdd(pushers, <<c, a>>) ELSE pushers
  /\ UNCHANGED <<calleeVars, invokedId, service, activeStubs, phase, requests, duplicates,
                 rpcCache, running, executed>>

\* Result has no buffer: the answer is handed over while MakeRpcRequest is in its select.
TakeResult(c, a) ==
  /\ BagIn(<<c, a>>, pushers)
  /\ phase[c] = "waiting"
  /\ pushers' = BagRemove(pushers, <<c, a>>)
  /\ phase' = [phase EXCEPT ![c] = IF a = "result" THEN "succeeded" ELSE "failed"]
  /\ UNCHANGED <<calleeVars, invokedId, service, activeStubs, requests, duplicates,
                 rpcCache, running, executed, responses>>

\* DefaultRpcOvertime has passed.
Overtime(c) ==
  /\ phase[c] = "waiting"
  /\ phase' = [phase EXCEPT ![c] = "failed"]
  /\ UNCHANGED <<calleeVars, invokedId, service, activeStubs, requests, duplicates,
                 rpcCache, running, executed, responses, pushers>>

\* Mutant: only a result closes the channel.
CloseOnSuccess(c) == phase[c] = "succeeded"

Decided(c) == phase[c] \in {"succeeded", "failed"}

\* The deferred functions of MakeRpcRequest: Result is closed first ...
CloseResult(c) ==
  /\ Decided(c)
  /\ phase' = [phase EXCEPT ![c] = IF @ = "succeeded" THEN "closed ok" ELSE "closed"]
  /\ UNCHANGED <<calleeVars, invokedId, service, activeStubs, requests, duplicates,
                 rpcCache, running, executed, responses, pushers>>

Closed(c) == phase[c] \in {"closed ok", "closed"}

\* ... and the stub is deleted then.
DeleteStub(c) ==
  /\ Closed(c)
  /\ c \in activeStubs
  /\ activeStubs' = activeStubs \ {c}
  /\ UNCHANGED <<calleeVars, invokedId, service, phase, requests, duplicates, rpcCache,
                 running, executed, responses, pushers>>

\* A goroutine that sends to a closed Result panics and recovers.
Recover(c, a) ==
  /\ BagIn(<<c, a>>, pushers)
  /\ Closed(c)
  /\ pushers' = BagRemove(pushers, <<c, a>>)
  /\ UNCHANGED <<calleeVars, invokedId, service, activeStubs, phase, requests, duplicates,
                 rpcCache, running, executed, responses>>

-----------------------------------------------------------------------------
\* The callee.

Respond(c, a) == responses' = BagAdd(responses, <<c, a>>)

\* Mutant: nothing is noted.
NothingNoted(c) == rpcCache

Noted(c) == rpcCache \cup {c}

\* sendRpcErrorResponse for a call that has been received before.
RejectDuplicate(c) == Respond(c, "error")

\* handleRpcRequest as far as the callback.
HandleRpcRequest(c) ==
  /\ BagIn(c, requests)
  /\ requests' = BagRemove(requests, c)
  /\ \/ /\ c \in rpcCache
        /\ RejectDuplicate(c)
        /\ UNCHANGED <<rpcCache, running>>
     \/ /\ c \notin rpcCache
        /\ rpcCache' = Noted(c)
        /\ IF service[c] \in rpcFuncs
           THEN running' = running \cup {c} /\ UNCHANGED responses
           ELSE Respond(c, "error") /\ UNCHANGED running
  /\ UNCHANGED <<calleeVars, invokedId, service, activeStubs, phase, duplicates, executed,
                 pushers>>

\* The callback returns, with a result or with a map that has the key "error"; one that
\* panics gives the result nil.
Callback(c, a) ==
  /\ c \in running
  /\ running' = running \ {c}
  /\ executed' = [executed EXCEPT ![c] = @ + 1]
  /\ Respond(c, a)
  /\ UNCHANGED <<calleeVars, invokedId, service, activeStubs, phase, requests, duplicates,
                 rpcCache, pushers>>

\* startCleanRpcCacheLoop drops what is ten minutes old; no request is under way so long.
CleanRpcCache(c) ==
  /\ c \in rpcCache
  /\ ~BagIn(c, requests) /\ c \notin activeStubs
  /\ rpcCache' = rpcCache \ {c}
  /\ UNCHANGED <<calleeVars, invokedId, service, activeStubs, phase, requests, duplicates,
                 running, executed, responses, pushers>>

-----------------------------------------------------------------------------
\* The network.

Duplicate(c) ==
  /\ BagIn(c, requests)
  /\ duplicates < MaxDuplicates
  /\ duplicates' = duplicates + 1
  /\ requests' = BagAdd(requests, c)
  /\ UNCHANGED <<calleeVars, invokedId, service, activeStubs, phase, rpcCache, running,
                 executed, responses, pushers>>

Lose ==
  /\ \/ /\ \E c \in BagToSet(requests) : requests' = BagRemove(requests, c)
        /\ UNCHANGED responses
     \/ /\ \E r \in BagToSet(responses) : responses' = BagRemove(responses, r)
        /\ UNCHANGED requests
  /\ UNCHANGED <<calleeVars, invokedId, service, activeStubs, phase, duplicates, rpcCache,
                 running, executed, pushers>>

-----------------------------------------------------------------------------
Next ==
  \/ \E s \in Services : \/ RegisterRpcService(s)
                         \/ UnregisterRpcService(s)
                         \/ MakeRpcRequest(s)
  \/ FloodRpcServices
  \/ \E t \in BagToSet(floods) : HandleRpcServiceFlood(t)
  \/ \E c \in Calls : \/ Overtime(c)
                      \/ CloseResult(c)
                      \/ DeleteStub(c)
                      \/ HandleRpcRequest(c)
                      \/ CleanRpcCache(c)
                      \/ Duplicate(c)
                      \/ \E a \in Answers : \/ HandleRpcResponse(c, a)
                                            \/ TakeResult(c, a)
                                            \/ Recover(c, a)
                                            \/ Callback(c, a)
  \/ Lose

Spec == Init /\ [][Next]_vars

\* The goroutines of the caller go on, its timer fires, the ticker of the floods goes on and
\* every flood arrives.  A request or a response need not.
FairSpec ==
  /\ Spec
  /\ WF_vars(FloodRpcServices)
  /\ \A t \in Tables : WF_vars(HandleRpcServiceFlood(t))
  /\ \A c \in Calls : /\ WF_vars(Overtime(c))
                      /\ WF_vars(CloseResult(c))
                      /\ WF_vars(DeleteStub(c))
                      /\ \A a \in Answers : WF_vars(Recover(c, a))
-----------------------------------------------------------------------------

\* A call runs at most once, however often its request arrives and whatever becomes of the
\* services between two arrivals; and one that succeeds has run: the error for a duplicate
\* may hide the result of the first copy, but a duplicate never makes a result of its own.
AtMostOnce ==
  \A c \in Calls :
    /\ executed[c] + (IF c \in running THEN 1 ELSE 0) <= 1
    /\ phase[c] \in {"succeeded", "closed ok"} => executed[c] = 1

\* Every call returns and takes its stub with it, and no goroutine waits on a stub for good:
\* whoever comes second, or after the timeout, meets a closed channel.
CallsEnd ==
  \A c \in Calls :
    /\ c \in activeStubs ~> c \notin activeStubs
    /\ \A a \in Answers : BagIn(<<c, a>>, pushers) ~> ~BagIn(<<c, a>>, pushers)

\* A function that stays registered is known in the end and for good, one that stays
\* unregistered is forgotten, though an older flood may arrive after a newer one.
ServicesKnown ==
  \A f \in Functions :
    /\ <>[](\E p \in Providers : <<f, p>> \in rpcFuncs) => <>[](f \in DOMAIN totalRpcs)
    /\ <>[](\A p \in Providers : <<f, p>> \notin rpcFuncs) => <>[](f \notin DOMAIN totalRpcs)
=============================================================================
