------------------------------ MODULE RpcProofs ------------------------------
(***************************************************************************)
(* Proofs about Rpc, for any services, any number of calls and any number  *)
(* of requests that arrive again: a call runs at most once, and one that   *)
(* succeeds has run.                                                       *)
(*                                                                         *)
(* The cache of received calls does not hold every call that has run: it   *)
(* is cleaned.  What it does hold is every call whose request could still  *)
(* arrive and that has been taken up, and ids of calls are never used      *)
(* again.  A result says that its call has run, in a response, in a        *)
(* goroutine and in the call that has taken it.                            *)
(***************************************************************************)
EXTENDS Rpc, TLAPS

Phases == {"none", "waiting", "succeeded", "failed", "closed ok", "closed"}

Types ==
  /\ invokedId \in Nat
  /\ phase \in [Calls -> Phases]
  /\ executed \in [Calls -> {0, 1}]
  /\ running \subseteq Calls
  /\ BagToSet(requests) \subseteq Calls

\* Nothing is known of a call that has not been made.
Unmade ==
  \A c \in Calls :
    c > invokedId => /\ c \notin BagToSet(requests)
                     /\ c \notin running
                     /\ executed[c] = 0

\* A call whose callback runs has not run, and one that has been taken up is in the cache
\* as long as a request for it is under way.
TakenUp ==
  \A c \in Calls :
    /\ c \in running => executed[c] = 0
    /\ c \in BagToSet(requests) /\ c \notin rpcCache => c \notin running /\ executed[c] = 0

\* A result, wherever it has come, is that of a callback that has returned.
ResultsTrue ==
  \A c \in Calls :
    \/ <<c, "result">> \in BagToSet(responses)
    \/ <<c, "result">> \in BagToSet(pushers)
    \/ phase[c] \in {"succeeded", "closed ok"}
    => executed[c] = 1

RpcInv == Types /\ Unmade /\ TakenUp /\ ResultsTrue

-----------------------------------------------------------------------------
\* What BagAdd and BagRemove do to what is in a bag.

LEMMA Added ==
  ASSUME NEW B, NEW x
  PROVE  BagToSet(BagAdd(B, x)) = BagToSet(B) \cup {x}
BY DEF BagToSet, BagAdd

LEMMA Removed ==
  ASSUME NEW B, NEW x
  PROVE  BagToSet(BagRemove(B, x)) \subseteq BagToSet(B)
BY DEF BagToSet, BagRemove

-----------------------------------------------------------------------------
\* The steps.

\* The services, the floods, and the steps of a call that hands over no answer.
LEMMA QuietStep ==
  ASSUME RpcInv,
         invokedId' = invokedId, executed' = executed,
         running' = running, rpcCache' = rpcCache,
         BagToSet(requests') \subseteq BagToSet(requests),
         BagToSet(responses') \subseteq BagToSet(responses),
         BagToSet(pushers') \subseteq BagToSet(pushers) \cup BagToSet(responses),
         phase' \in [Calls -> Phases],
         \A c \in Calls : phase'[c] \in {"succeeded", "closed ok"} => executed[c] = 1
  PROVE  RpcInv'
<1>1. Types' /\ Unmade' /\ TakenUp'
  BY DEF RpcInv, Types, Unmade, TakenUp
<1>2. ResultsTrue'
  BY DEF RpcInv, ResultsTrue
<1> QED BY <1>1, <1>2 DEF RpcInv

LEMMA ServicesStep ==
  ASSUME RpcInv,
         \/ \E s \in Services : RegisterRpcService(s) \/ UnregisterRpcService(s)
         \/ FloodRpcServices
         \/ \E t \in BagToSet(floods) : HandleRpcServiceFlood(t)
         \/ UNCHANGED vars
  PROVE  RpcInv'
<1>1. UNCHANGED <<invokedId, phase, requests, rpcCache, running, executed, responses, pushers>>
  BY DEF RegisterRpcService, UnregisterRpcService, FloodRpcServices, HandleRpcServiceFlood, vars
<1> QED BY <1>1, QuietStep DEF RpcInv, Types, ResultsTrue

LEMMA MakeRpcRequestStep ==
  ASSUME RpcInv, NEW s \in Services, MakeRpcRequest(s)
  PROVE  RpcInv'
<1> DEFINE c == invokedId + 1
<1>1. /\ c \in Calls /\ invokedId' = c
      /\ phase' = [phase EXCEPT ![c] = "waiting"]
      /\ requests' = BagAdd(requests, c)
      /\ UNCHANGED <<rpcCache, running, executed, responses, pushers>>
  BY DEF MakeRpcRequest
<1>2. BagToSet(requests') = BagToSet(requests) \cup {c}
  BY <1>1, Added
<1>3. invokedId \in Nat /\ \A d \in Calls : d \in Nat
  BY DEF RpcInv, Types, Calls
<1>4. executed[c] = 0 /\ c \notin running
  BY <1>1, <1>3 DEF RpcInv, Unmade
<1>5. Types'
  BY <1>1, <1>2, <1>3 DEF RpcInv, Types, Phases
<1>6. Unmade'
  BY <1>1, <1>2, <1>3 DEF RpcInv, Unmade
<1>7. TakenUp'
  BY <1>1, <1>2, <1>4 DEF RpcInv, TakenUp
<1>8. ResultsTrue'
  BY <1>1 DEF RpcInv, Types, ResultsTrue
<1> QED BY <1>5, <1>6, <1>7, <1>8 DEF RpcInv

\* The answer goes to the stub, and from there to the call.
LEMMA AnswerStep ==
  ASSUME RpcInv, NEW c \in Calls, NEW a \in Answers,
         HandleRpcResponse(c, a) \/ TakeResult(c, a) \/ Recover(c, a)
  PROVE  RpcInv'
<1>1. UNCHANGED <<invokedId, requests, rpcCache, running, executed>>
  BY DEF HandleRpcResponse, TakeResult, Recover
<1>2. CASE HandleRpcResponse(c, a)
  <2>1. /\ <<c, a>> \in BagToSet(responses)
        /\ phase' = phase
        /\ responses' = BagRemove(responses, <<c, a>>)
        /\ pushers' = BagAdd(pushers, <<c, a>>) \/ pushers' = pushers
    BY <1>2 DEF HandleRpcResponse, BagIn
  <2>2. BagToSet(responses') \subseteq BagToSet(responses)
    BY <2>1, Removed
  <2>3. BagToSet(pushers') \subseteq BagToSet(pushers) \cup BagToSet(responses)
    BY <2>1, Added
  <2> QED BY <1>1, <2>1, <2>2, <2>3, QuietStep DEF RpcInv, Types, ResultsTrue
<1>3. CASE TakeResult(c, a) \/ Recover(c, a)
  <2>1. /\ <<c, a>> \in BagToSet(pushers)
        /\ responses' = responses
        /\ pushers' = BagRemove(pushers, <<c, a>>)
        /\ \/ phase' = phase
           \/ phase' = [phase EXCEPT ![c] = IF a = "result" THEN "succeeded" ELSE "failed"]
    BY <1>3 DEF TakeResult, Recover, BagIn
  <2>2. BagToSet(pushers') \subseteq BagToSet(pushers)
    BY <2>1, Removed
  <2>3. phase' \in [Calls -> Phases]
    BY <2>1 DEF RpcInv, Types, Phases
  <2>4. a = "result" => executed[c] = 1
    BY <2>1 DEF RpcInv, ResultsTrue
  <2>5. \A d \in Calls : phase'[d] \in {"succeeded", "closed ok"} => executed[d] = 1
    BY <2>1, <2>4 DEF RpcInv, Types, ResultsTrue
  <2> QED BY <1>1, <2>1, <2>2, <2>3, <2>5, QuietStep
<1> QED BY <1>2, <1>3

\* The timeout, and the deferred functions of MakeRpcRequest.
LEMMA CallEndsStep ==
  ASSUME RpcInv, NEW c \in Calls, Overtime(c) \/ CloseResult(c) \/ DeleteStub(c)
  PROVE  RpcInv'
<1>1. UNCHANGED <<invokedId, requests, rpcCache, running, executed, responses, pushers>>
  BY DEF Overtime, CloseResult, DeleteStub
<1>2. phase' \in [Calls -> Phases]
  BY DEF Overtime, CloseResult, DeleteStub, RpcInv, Types, Phases
<1>3. \A d \in Calls : phase'[d] \in {"succeeded", "closed ok"}
                       => phase[d] \in {"succeeded", "closed ok"}
  BY DEF Overtime, CloseResult, DeleteStub, RpcInv, Types
<1> QED BY <1>1, <1>2, <1>3, QuietStep DEF RpcInv, ResultsTrue

\* A request is taken up only if no copy of it has been.
LEMMA HandleRpcRequestStep ==
  ASSUME RpcInv, NEW c \in Calls, HandleRpcRequest(c)
  PROVE  RpcInv'
<1>1. /\ c \in BagToSet(requests)
      /\ requests' = BagRemove(requests, c)
      /\ UNCHANGED <<invokedId, phase, executed, pushers>>
      /\ responses' = responses \/ responses' = BagAdd(responses, <<c, "error">>)
      /\ \/ rpcCache' = rpcCache /\ running' = running
         \/ rpcCache' = rpcCache \cup {c} /\ running' = running
         \/ c \notin rpcCache /\ rpcCache' = rpcCache \cup {c} /\ running' = running \cup {c}
  BY DEF HandleRpcRequest, BagIn, RejectDuplicate, Respond, Noted
<1>2. BagToSet(requests') \subseteq BagToSet(requests)
  BY <1>1, Removed
<1>3. BagToSet(responses') \subseteq BagToSet(responses) \cup {<<c, "error">>}
  BY <1>1, Added
<1>4. Types' /\ Unmade'
  BY <1>1, <1>2 DEF RpcInv, Types, Unmade
<1>5. TakenUp'
  BY <1>1, <1>2 DEF RpcInv, TakenUp
<1>6. \A d \in Calls : <<d, "result">> \in BagToSet(responses')
                       => <<d, "result">> \in BagToSet(responses)
  BY <1>3
<1>7. ResultsTrue'
  BY <1>1, <1>6 DEF RpcInv, ResultsTrue
<1> QED BY <1>4, <1>5, <1>7 DEF RpcInv

LEMMA CallbackStep ==
  ASSUME RpcInv, NEW c \in Calls, NEW a \in Answers, Callback(c, a)
  PROVE  RpcInv'
<1>1. /\ c \in running /\ running' = running \ {c}
      /\ executed' = [executed EXCEPT ![c] = @ + 1]
      /\ responses' = BagAdd(responses, <<c, a>>)
      /\ UNCHANGED <<invokedId, phase, requests, rpcCache, pushers>>
  BY DEF Callback, Respond
<1>2. executed[c] = 0
  BY <1>1 DEF RpcInv, TakenUp
<1>3. executed' = [executed EXCEPT ![c] = 1] /\ executed'[c] = 1
  BY <1>1, <1>2 DEF RpcInv, Types
<1>4. \A d \in Calls : d # c => executed'[d] = executed[d]
  BY <1>1 DEF RpcInv, Types
<1>5. Types'
  BY <1>1, <1>3 DEF RpcInv, Types
<1>6. Unmade' /\ TakenUp'
  BY <1>1, <1>2, <1>3, <1>4 DEF RpcInv, Unmade, TakenUp
<1>7. BagToSet(responses') = BagToSet(responses) \cup {<<c, a>>}
  BY <1>1, Added
<1>8. \A d \in Calls : d # c /\ <<d, "result">> \in BagToSet(responses')
                       => <<d, "result">> \in BagToSet(responses)
  BY <1>7
<1>9. ResultsTrue'
  BY <1>1, <1>3, <1>4, <1>8 DEF RpcInv, ResultsTrue
<1> QED BY <1>5, <1>6, <1>9 DEF RpcInv

\* The cache forgets a call only when no request for it is under way.
LEMMA CleanRpcCacheStep ==
  ASSUME RpcInv, NEW c \in Calls, CleanRpcCache(c)
  PROVE  RpcInv'
<1>1. /\ c \notin BagToSet(requests)
      /\ rpcCache' = rpcCache \ {c}
      /\ UNCHANGED <<invokedId, phase, requests, running, executed, responses, pushers>>
  BY DEF CleanRpcCache, BagIn
<1> QED BY <1>1 DEF RpcInv, Types, Unmade, TakenUp, ResultsTrue

LEMMA NetworkStep ==
  ASSUME RpcInv, Lose \/ \E c \in Calls : Duplicate(c)
  PROVE  RpcInv'
<1>1. UNCHANGED <<invokedId, phase, rpcCache, running, executed, pushers>>
  BY DEF Lose, Duplicate
<1>2. BagToSet(requests') \subseteq BagToSet(requests)
  <2>1. CASE Lose
    BY <2>1, Removed DEF Lose
  <2>2. ASSUME NEW c \in Calls, Duplicate(c)
        PROVE  BagToSet(requests') \subseteq BagToSet(requests)
    <3>1. c \in BagToSet(requests) /\ requests' = BagAdd(requests, c)
      BY <2>2 DEF Duplicate, BagIn
    <3> QED BY <3>1, Added
  <2> QED BY <2>1, <2>2
<1>3. BagToSet(responses') \subseteq BagToSet(responses)
  BY Removed DEF Lose, Duplicate
<1> QED BY <1>1, <1>2, <1>3, QuietStep DEF RpcInv, Types, ResultsTrue

-----------------------------------------------------------------------------
LEMMA RpcInvInit ==
  ASSUME Init
  PROVE  RpcInv
<1>1. BagToSet(EmptyBag) = {}
  BY DEF EmptyBag, SetToBag, BagToSet
<1> QED BY <1>1 DEF Init, RpcInv, Types, Unmade, TakenUp, ResultsTrue, Phases

LEMMA RpcInvStep ==
  ASSUME RpcInv, [Next]_vars
  PROVE  RpcInv'
BY ServicesStep, MakeRpcRequestStep, AnswerStep, CallEndsStep, HandleRpcRequestStep,
   CallbackStep, CleanRpcCacheStep, NetworkStep DEF Next

LEMMA RpcInvHolds == Spec => []RpcInv
BY RpcInvInit, RpcInvStep, PTL DEF Spec

\* However often the request of a call arrives, its callback runs at most once, and a call
\* that MakeRpcRequest reports as successful has run.
THEOREM RunsAtMostOnce == Spec => []AtMostOnce
<1>1. RpcInv => AtMostOnce
  <2> SUFFICES ASSUME RpcInv, NEW c \in Calls
               PROVE  /\ executed[c] + (IF c \in running THEN 1 ELSE 0) <= 1
                      /\ phase[c] \in {"succeeded", "closed ok"} => executed[c] = 1
    BY DEF AtMostOnce
  <2>1. executed[c] \in {0, 1}
    BY DEF RpcInv, Types
  <2>2. c \in running => executed[c] = 0
    BY DEF RpcInv, TakenUp
  <2>3. executed[c] + (IF c \in running THEN 1 ELSE 0) <= 1
    BY <2>1, <2>2
  <2> QED BY <2>3 DEF RpcInv, ResultsTrue
<1> QED BY <1>1, RpcInvHolds, PTL
=============================================================================
