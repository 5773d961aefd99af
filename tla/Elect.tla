-------------------------------- MODULE Elect --------------------------------
(***************************************************************************)
(* The duty election of one group of Majula (src/core/Elect.go).  A        *)
(* candidate waits on standby until it has heard no heartbeat for a while, *)
(* goes on duty, and steps down when it hears of another one on duty.      *)
(*                                                                         *)
(* Time is counted in units.  A deadline is kept as the time left until    *)
(* it; mainLoop notices it at most MaxLag late.  The publish/subscribe of  *)
(* the nodes is assumed to work: a message published on a topic of the     *)
(* group reaches every other candidate that subscribed within MaxDelay.    *)
(***************************************************************************)
EXTENDS Integers

CONSTANTS
  Candidates,
  BaseOvertimeT,
  Offsets,     \* the values rand.Int63n(BaseOvertimeT) takes
  MaxDelay,    \* the longest a message is under way
  MaxLag       \* the interval of mainLoop

ASSUME TimesAssumption ==
  /\ BaseOvertimeT \in Nat /\ BaseOvertimeT >= 5
  /\ Offsets # {} /\ Offsets \subseteq 0..(BaseOvertimeT - 1)
  /\ MaxDelay \in Nat
  /\ MaxLag \in Nat

\* What the intervals of the code leave room for: a heartbeat arrives before a standby
\* that was just told of a give-up goes on duty.
ASSUME TimelyAssumption ==
  (BaseOvertimeT \div 5) + MaxLag + MaxDelay < BaseOvertimeT \div 2

VARIABLES
  State,
  loop,       \* mainLoop: "new" before Start, "on", "off" after Stop, "dead" with its node
  waitDuty,   \* the time left until waitDutyTime
  heartbeat,  \* the time left until heartbeatTime
  net,        \* the messages under way
  dutyAge,    \* how long a candidate has been on duty, up to AgeCap
  alone       \* how long a candidate has been running with nobody on duty or giving up

vars == <<State, loop, waitDuty, heartbeat, net, dutyAge, alone>>

-----------------------------------------------------------------------------
AgeCap == 2 * MaxDelay + 1

Message == [type : {"heartbeat", "giveUp"}, from : Candidates, to : Candidates,
            left : 0..MaxDelay]

\* Mutant: a heartbeat only as often as a standby's shortest wait.
BeatTooLate == BaseOvertimeT

HeartbeatInterval == BaseOvertimeT \div 5

\* Mutant: an offset from one to BaseOvertimeT.
WaitOneMore == {BaseOvertimeT + r + 1 : r \in Offsets}

\* now + BaseOvertimeT + randomOffset.
DutyWaits == {BaseOvertimeT + r : r \in Offsets}

\* publishOnTopic: every other candidate that has subscribed gets the message.
Publish(c, type) ==
  {[type |-> type, from |-> c, to |-> d, left |-> MaxDelay] :
     d \in {e \in Candidates \ {c} : loop[e] \in {"on", "off"}}}

\* A candidate that runs is on duty.
OnDuty(c) == loop[c] = "on" /\ State[c] = "Duty"

Init ==
  /\ State = [c \in Candidates |-> "Busy"]
  /\ loop = [c \in Candidates |-> "new"]
  /\ waitDuty = [c \in Candidates |-> 0]
  /\ heartbeat = [c \in Candidates |-> 0]
  /\ net = {}
  /\ dutyAge = [c \in Candidates |-> 0]
  /\ alone = [c \in Candidates |-> 0]

-----------------------------------------------------------------------------
\* A Start after Stop changes nothing: the context of the loop stays cancelled.
Start(c) ==
  /\ loop[c] = "new"
  /\ loop' = [loop EXCEPT ![c] = "on"]
  /\ alone' = [alone EXCEPT ![c] = 0]
  /\ UNCHANGED <<State, waitDuty, heartbeat, net, dutyAge>>

\* The state and the subscriptions of the candidate stay.
Stop(c) ==
  /\ loop[c] = "on"
  /\ loop' = [loop EXCEPT ![c] = "off"]
  /\ alone' = [alone EXCEPT ![c] = 0]
  /\ UNCHANGED <<State, waitDuty, heartbeat, net, dutyAge>>

\* The process of the candidate's node ends.
NodeDies(c) ==
  /\ loop[c] \in {"on", "off"}
  /\ loop' = [loop EXCEPT ![c] = "dead"]
  /\ State' = [State EXCEPT ![c] = "Busy"]
  /\ net' = {m \in net : m.to # c}
  /\ dutyAge' = [dutyAge EXCEPT ![c] = 0]
  /\ waitDuty' = [waitDuty EXCEPT ![c] = 0]
  /\ heartbeat' = [heartbeat EXCEPT ![c] = 0]
  /\ alone' = [alone EXCEPT ![c] = 0]

ProcessBusyState(c) ==
  /\ loop[c] = "on"
  /\ State[c] = "Busy"
  /\ State' = [State EXCEPT ![c] = "Standby"]
  /\ \E w \in DutyWaits : waitDuty' = [waitDuty EXCEPT ![c] = w]
  /\ heartbeat' = [heartbeat EXCEPT ![c] = HeartbeatInterval]
  /\ UNCHANGED <<loop, net, dutyAge, alone>>

ProcessStandbyState(c) ==
  /\ loop[c] = "on"
  /\ State[c] = "Standby"
  /\ waitDuty[c] <= 0
  /\ State' = [State EXCEPT ![c] = "Duty"]
  /\ heartbeat' = [heartbeat EXCEPT ![c] = HeartbeatInterval]
  /\ net' = net \cup Publish(c, "heartbeat")
  /\ dutyAge' = [dutyAge EXCEPT ![c] = 0]
  /\ alone' = [d \in Candidates |-> 0]
  /\ UNCHANGED <<loop, waitDuty>>

ProcessDutyState(c) ==
  /\ OnDuty(c)
  /\ heartbeat[c] <= 0
  /\ net' = net \cup Publish(c, "heartbeat")
  /\ heartbeat' = [heartbeat EXCEPT ![c] = HeartbeatInterval]
  /\ UNCHANGED <<State, loop, waitDuty, dutyAge, alone>>

\* Mutant: a candidate on duty takes no notice of another.
DutyStays(s) == s

\* The state in which a heartbeat leaves a candidate.
AfterHeartbeat(s) == IF s = "Duty" THEN "Standby" ELSE s

OnHeartbeat(m) ==
  /\ m.type = "heartbeat"
  /\ State' = [State EXCEPT ![m.to] = AfterHeartbeat(@)]
  /\ IF State[m.to] = "Busy" THEN UNCHANGED waitDuty
     ELSE \E w \in DutyWaits : waitDuty' = [waitDuty EXCEPT ![m.to] = w]
  /\ dutyAge' = [dutyAge EXCEPT ![m.to] = 0]
  /\ net' = net \ {m}
  /\ UNCHANGED <<loop, heartbeat, alone>>

OnGiveUp(m) ==
  /\ m.type = "giveUp"
  /\ waitDuty' = IF State[m.to] = "Standby"
                 THEN [waitDuty EXCEPT ![m.to] = BaseOvertimeT \div 2] ELSE waitDuty
  /\ net' = net \ {m}
  /\ UNCHANGED <<State, loop, heartbeat, dutyAge, alone>>

\* GiveUp does not ask whether the candidate still runs.
GiveUp(c) ==
  /\ loop[c] \in {"on", "off"}
  /\ State[c] = "Duty"
  /\ State' = [State EXCEPT ![c] = "Standby"]
  /\ net' = net \cup Publish(c, "giveUp")
  /\ \E w \in DutyWaits : waitDuty' = [waitDuty EXCEPT ![c] = w]
  /\ dutyAge' = [dutyAge EXCEPT ![c] = 0]
  /\ alone' = [d \in Candidates |-> 0]
  /\ UNCHANGED <<loop, heartbeat>>

-----------------------------------------------------------------------------
\* mainLoop looks at a new candidate at once, and at any other every MaxLag.
NothingOverdue ==
  /\ \A c \in Candidates : loop[c] = "on" =>
       /\ State[c] # "Busy"
       /\ State[c] = "Standby" => waitDuty[c] > -MaxLag
       /\ State[c] = "Duty" => heartbeat[c] > -MaxLag
  /\ \A m \in net : m.left > 0

\* A time left, a unit later; nothing tells a deadline long past from a later one.
CountDown(left) ==
  [c \in Candidates |-> IF left[c] > -MaxLag THEN left[c] - 1 ELSE left[c]]

\* A unit of time passes.
Tick ==
  /\ NothingOverdue
  /\ waitDuty' = CountDown(waitDuty)
  /\ heartbeat' = CountDown(heartbeat)
  /\ net' = {[m EXCEPT !.left = @ - 1] : m \in net}
  /\ dutyAge' = [c \in Candidates |->
                   IF State[c] = "Duty" /\ dutyAge[c] < AgeCap THEN dutyAge[c] + 1
                   ELSE dutyAge[c]]
  /\ alone' = [c \in Candidates |->
                 IF loop[c] = "on" /\ \A d \in Candidates : ~OnDuty(d)
                 THEN alone[c] + 1 ELSE 0]
  /\ UNCHANGED <<State, loop>>

Next ==
  \/ \E c \in Candidates :
       \/ Start(c)
       \/ Stop(c)
       \/ NodeDies(c)
       \/ ProcessBusyState(c)
       \/ ProcessStandbyState(c)
       \/ ProcessDutyState(c)
       \/ GiveUp(c)
  \/ \E m \in net : OnHeartbeat(m) \/ OnGiveUp(m)
  \/ Tick

Spec == Init /\ [][Next]_vars
-----------------------------------------------------------------------------

\* Two candidates are on duty together only until the heartbeat of the later one has
\* arrived: processStandbyState sends one at once, and onHeartbeat steps down, also in a
\* candidate that was stopped while it was on duty.
ConflictIsShort ==
  \A c, d \in Candidates :
    c # d /\ State[c] = "Duty" /\ State[d] = "Duty"
      => dutyAge[c] <= MaxDelay \/ dutyAge[d] <= MaxDelay

\* A candidate that runs never waits longer than its longest wait for somebody to be on
\* duty, whoever stops or dies: the failover the repository calls fast.  A give-up starts
\* the count again, because onGiveUp sets the wait of a standby also when less was left,
\* and a candidate that was stopped on duty may give up while another one waits.
FailoverInTime ==
  \A c \in Candidates : alone[c] <= 2 * BaseOvertimeT - 1 + MaxDelay + MaxLag

\* A candidate that runs and has been on duty long enough for every other one to have
\* heard of it leaves duty only by giving up: nobody's wait ends between two of its
\* heartbeats, candidates that were just started or told of a give-up included.
EstablishedStays ==
  [][\A c \in Candidates :
       OnDuty(c) /\ dutyAge[c] > 2 * MaxDelay /\ loop'[c] = "on" /\ State'[c] # "Duty"
         => GiveUp(c)]_vars
=============================================================================
