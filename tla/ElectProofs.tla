----------------------------- MODULE ElectProofs -----------------------------
(***************************************************************************)
(* Theorems about the duty election, for any set of candidates and any     *)
(* times that satisfy TimesAssumption and TimelyAssumption: conflicts are  *)
(* short, a failover comes in time, and who is established stays on duty.  *)
(***************************************************************************)
EXTENDS Elect, TLAPS

Types ==
  /\ State \in [Candidates -> {"Busy", "Standby", "Duty"}]
  /\ loop \in [Candidates -> {"new", "on", "off", "dead"}]
  /\ waitDuty \in [Candidates -> Int]
  /\ heartbeat \in [Candidates -> Int]
  /\ net \subseteq Message
  /\ dutyAge \in [Candidates -> 0..AgeCap]
  /\ alone \in [Candidates -> Nat]

\* Who has not started, or is dead, has no part in the election.
Absent == \A c \in Candidates : loop[c] \in {"new", "dead"} => State[c] = "Busy"

\* mainLoop is at most MaxLag late.
Timers ==
  \A c \in Candidates : loop[c] = "on" =>
    /\ State[c] = "Duty" => heartbeat[c] \in -MaxLag..HeartbeatInterval
    /\ State[c] = "Standby" => waitDuty[c] >= -MaxLag

Beat(m, c, d) == m.type = "heartbeat" /\ m.from = c /\ m.to = d

\* The first heartbeat of one of two that are on duty is on its way to the other.
News(c, d) == \E m \in net : Beat(m, c, d) /\ m.left + dutyAge[c] <= MaxDelay
Heard ==
  \A c, d \in Candidates :
    c # d /\ State[c] = "Duty" /\ State[d] = "Duty" => News(c, d) \/ News(d, c)

\* A standby gets a heartbeat of whoever is on duty before its wait is over: the next one
\* comes early enough, or one is on its way, or the first one is.
Soon(c, d) == heartbeat[c] + MaxLag + MaxDelay < waitDuty[d]
OnItsWay(c, d) == \E m \in net : Beat(m, c, d) /\ m.left < waitDuty[d]
HeldBack ==
  \A c, d \in Candidates :
    c # d /\ OnDuty(c) /\ loop[d] = "on" /\ State[d] = "Standby"
      => Soon(c, d) \/ OnItsWay(c, d) \/ News(c, d)

\* If heartbeats are on their way to a candidate on duty, one of them arrives before the
\* candidate is established.
Rivals ==
  \A c \in Candidates :
    OnDuty(c) /\ (\E m \in net : m.type = "heartbeat" /\ m.to = c)
      => \E m \in net : /\ m.type = "heartbeat" /\ m.to = c
                        /\ m.left + dutyAge[c] <= 2 * MaxDelay

\* How long nobody has been on duty, against what is on its way and what is left to wait.
CountedBy(c) ==
  /\ loop[c] # "on" \/ State[c] # "Standby" \/ (\E d \in Candidates : OnDuty(d))
       => alone[c] = 0
  /\ \A m \in net : alone[c] + m.left <= MaxDelay
  /\ loop[c] = "on" /\ State[c] = "Standby"
       => alone[c] + waitDuty[c] <= 2 * BaseOvertimeT - 1 + MaxDelay
Counted == \A c \in Candidates : CountedBy(c)

ElectInv == Types /\ Absent /\ Timers /\ Heard /\ HeldBack /\ Rivals /\ Counted
-----------------------------------------------------------------------------
\* The intervals of the code: a heartbeat that is as late as it may be still arrives
\* within the shortest wait of a standby.
LEMMA Times ==
  /\ MaxDelay \in Nat /\ MaxLag \in Nat /\ BaseOvertimeT \in Nat
  /\ AgeCap \in Nat /\ AgeCap = 2 * MaxDelay + 1
  /\ HeartbeatInterval \in Nat
  /\ BaseOvertimeT \div 2 \in Nat /\ BaseOvertimeT \div 2 <= BaseOvertimeT
  /\ BaseOvertimeT \div 2 <= 2 * BaseOvertimeT - 1
  /\ HeartbeatInterval + MaxLag + MaxDelay < BaseOvertimeT \div 2
  /\ \A w \in DutyWaits : w \in Nat /\ BaseOvertimeT <= w /\ w <= 2 * BaseOvertimeT - 1
BY TimesAssumption, TimelyAssumption DEF AgeCap, HeartbeatInterval, DutyWaits

LEMMA MessageTypes ==
  ASSUME Types, NEW m \in net
  PROVE  /\ m \in Message
         /\ m.type \in {"heartbeat", "giveUp"} /\ m.from \in Candidates /\ m.to \in Candidates
         /\ m.left \in Int /\ 0 <= m.left /\ m.left <= MaxDelay
BY Times DEF Types, Message

\* publishOnTopic reaches exactly the others that have subscribed.
LEMMA Published ==
  ASSUME NEW c \in Candidates, NEW type \in {"heartbeat", "giveUp"}
  PROVE  /\ Publish(c, type) \subseteq Message
         /\ \A m \in Publish(c, type) :
              m.type = type /\ m.from = c /\ m.to # c /\ m.left = MaxDelay
         /\ \A d \in Candidates : d # c /\ loop[d] \in {"on", "off"} =>
              \E m \in Publish(c, type) :
                m.type = type /\ m.from = c /\ m.to = d /\ m.left = MaxDelay
<1>1. MaxDelay \in 0..MaxDelay
  BY Times
<1>2. ASSUME NEW d \in Candidates, d # c, loop[d] \in {"on", "off"}
      PROVE  [type |-> type, from |-> c, to |-> d, left |-> MaxDelay] \in Publish(c, type)
  BY <1>2 DEF Publish
<1>3. ASSUME NEW d \in Candidates, d # c, loop[d] \in {"on", "off"}
      PROVE  \E m \in Publish(c, type) :
               m.type = type /\ m.from = c /\ m.to = d /\ m.left = MaxDelay
  BY <1>2, <1>3
<1>4. ASSUME NEW m \in Publish(c, type)
      PROVE  /\ m \in Message
             /\ m.type = type /\ m.from = c /\ m.to # c /\ m.left = MaxDelay
  <2>1. PICK d \in Candidates \ {c} :
          m = [type |-> type, from |-> c, to |-> d, left |-> MaxDelay]
    BY DEF Publish
  <2> QED BY <1>1, <2>1 DEF Message
<1> QED BY <1>3, <1>4

\* A unit of time makes every message a unit older.
LEMMA Aged ==
  ASSUME Types, Tick
  PROVE  /\ \A m \in net : /\ m.left > 0
                           /\ \E k \in net' : /\ k.type = m.type /\ k.from = m.from
                                              /\ k.to = m.to /\ k.left = m.left - 1
         /\ \A k \in net' : \E m \in net : /\ k = [m EXCEPT !.left = m.left - 1]
                                          /\ k.type = m.type /\ k.from = m.from
                                          /\ k.to = m.to /\ k.left = m.left - 1
<1>1. net' = {[m EXCEPT !.left = @ - 1] : m \in net} /\ \A m \in net : m.left > 0
  BY DEF Tick, NothingOverdue
<1>2. ASSUME NEW m \in net, NEW k, k = [m EXCEPT !.left = m.left - 1]
      PROVE  /\ k.type = m.type /\ k.from = m.from
             /\ k.to = m.to /\ k.left = m.left - 1
  <2>1. m \in Message
    BY MessageTypes
  <2> QED BY <1>2, <2>1 DEF Message
<1>3. ASSUME NEW m \in net PROVE [m EXCEPT !.left = m.left - 1] \in net'
  BY <1>1
<1>4. ASSUME NEW k \in net' PROVE \E m \in net : k = [m EXCEPT !.left = m.left - 1]
  BY <1>1
<1> QED BY <1>1, <1>2, <1>3, <1>4

-----------------------------------------------------------------------------
\* One lemma for each part of the invariant, one step for each action.

LEMMA TypesNext ==
  ASSUME Types, Next
  PROVE  Types'
<1> USE Times
<1>1. ASSUME NEW c \in Candidates, Start(c) \/ Stop(c) PROVE Types'
  BY <1>1 DEF Types, Start, Stop
<1>2. ASSUME NEW c \in Candidates, NodeDies(c) PROVE Types'
  BY <1>2 DEF Types, NodeDies
<1>3. ASSUME NEW c \in Candidates, ProcessBusyState(c) PROVE Types'
  BY <1>3 DEF Types, ProcessBusyState
<1>4. ASSUME NEW c \in Candidates, ProcessStandbyState(c) \/ ProcessDutyState(c) PROVE Types'
  <2>1. Publish(c, "heartbeat") \subseteq Message
    BY Published
  <2> QED BY <1>4, <2>1 DEF Types, ProcessStandbyState, ProcessDutyState
<1>5. ASSUME NEW c \in Candidates, GiveUp(c) PROVE Types'
  <2>1. Publish(c, "giveUp") \subseteq Message
    BY Published
  <2> QED BY <1>5, <2>1 DEF Types, GiveUp
<1>6. ASSUME NEW m \in net, OnHeartbeat(m) \/ OnGiveUp(m) PROVE Types'
  <2>1. m.to \in Candidates
    BY MessageTypes
  <2> QED BY <1>6, <2>1 DEF Types, OnHeartbeat, OnGiveUp, AfterHeartbeat
<1>7. CASE Tick
  <2>1. net' \subseteq Message
    <3> SUFFICES ASSUME NEW k \in net' PROVE k \in Message
      OBVIOUS
    <3>1. PICK m \in net : k = [m EXCEPT !.left = m.left - 1] /\ m.left > 0
      BY <1>7, Aged
    <3> QED BY <3>1, MessageTypes DEF Message
  <2>2. dutyAge' \in [Candidates -> 0..AgeCap]
    BY <1>7 DEF Types, Tick
  <2>3. alone' \in [Candidates -> Nat]
    BY <1>7 DEF Types, Tick
  <2> QED BY <1>7, <2>1, <2>2, <2>3 DEF Types, Tick, CountDown
<1> QED BY <1>1, <1>2, <1>3, <1>4, <1>5, <1>6, <1>7 DEF Next

LEMMA AbsentNext ==
  ASSUME Types, Absent, Next
  PROVE  Absent'
<1>1. ASSUME NEW c \in Candidates, Start(c) \/ Stop(c) \/ NodeDies(c) PROVE Absent'
  BY <1>1 DEF Types, Absent, Start, Stop, NodeDies
<1>2. ASSUME NEW c \in Candidates, \/ ProcessBusyState(c) \/ ProcessStandbyState(c)
                                  \/ ProcessDutyState(c) \/ GiveUp(c)
      PROVE  Absent'
  BY <1>2 DEF Types, Absent, ProcessBusyState, ProcessStandbyState, ProcessDutyState, GiveUp,
              OnDuty
<1>3. ASSUME NEW m \in net, OnHeartbeat(m) \/ OnGiveUp(m) PROVE Absent'
  BY <1>3, MessageTypes DEF Types, Absent, OnHeartbeat, OnGiveUp, AfterHeartbeat
<1>4. CASE Tick
  BY <1>4 DEF Absent, Tick
<1> QED BY <1>1, <1>2, <1>3, <1>4 DEF Next

LEMMA TimersNext ==
  ASSUME Types, Absent, Timers, Next
  PROVE  Timers'
<1> USE Times
<1>1. ASSUME NEW c \in Candidates, Start(c) \/ Stop(c) \/ NodeDies(c) PROVE Timers'
  BY <1>1 DEF Types, Absent, Timers, Start, Stop, NodeDies
<1>2. ASSUME NEW c \in Candidates, \/ ProcessBusyState(c) \/ ProcessStandbyState(c)
                                  \/ ProcessDutyState(c)
      PROVE  Timers'
  BY <1>2 DEF Types, Timers, ProcessBusyState, ProcessStandbyState, ProcessDutyState, OnDuty
<1>3. ASSUME NEW c \in Candidates, GiveUp(c) PROVE Timers'
  BY <1>3 DEF Types, Timers, GiveUp
<1>4. ASSUME NEW m \in net, OnHeartbeat(m) \/ OnGiveUp(m) PROVE Timers'
  <2>1. m.to \in Candidates
    BY MessageTypes
  <2> QED BY <1>4, <2>1 DEF Types, Timers, OnHeartbeat, OnGiveUp, AfterHeartbeat
<1>5. CASE Tick
  BY <1>5 DEF Types, Timers, Tick, NothingOverdue, CountDown
<1> QED BY <1>1, <1>2, <1>3, <1>4, <1>5 DEF Next

\* A first heartbeat stays what it is, unless it arrives or its sender goes on duty anew.
LEMMA NewsStays ==
  ASSUME Types, NEW c \in Candidates, NEW d \in Candidates, News(c, d),
         dutyAge'[c] = dutyAge[c],
         \A m \in net : Beat(m, c, d) => m \in net'
  PROVE  News(c, d)'
BY DEF News, Beat

LEMMA NewsAges ==
  ASSUME Types, NEW c \in Candidates, NEW d \in Candidates, News(c, d), Tick
  PROVE  News(c, d)'
<1>1. PICK m \in net : Beat(m, c, d) /\ m.left + dutyAge[c] <= MaxDelay
  BY DEF News
<1>2. PICK k \in net' : Beat(k, c, d) /\ k.left = m.left - 1
  BY <1>1, Aged DEF Beat
<1>3. dutyAge'[c] <= dutyAge[c] + 1 /\ dutyAge[c] \in Int /\ dutyAge'[c] \in Int
  BY Times DEF Types, Tick
<1>4. k.left + dutyAge'[c] <= MaxDelay
  BY <1>1, <1>2, <1>3, MessageTypes, Times
<1> QED BY <1>2, <1>4 DEF News, Beat

LEMMA NewsSent ==
  ASSUME Types, NEW c \in Candidates, NEW d \in Candidates, c # d,
         loop[d] \in {"on", "off"}, ProcessStandbyState(c)
  PROVE  News(c, d)'
<1>1. PICK m \in Publish(c, "heartbeat") : Beat(m, c, d) /\ m.left = MaxDelay
  BY Published DEF Beat
<1>2. m \in net' /\ dutyAge'[c] = 0
  BY <1>1 DEF ProcessStandbyState, Types
<1> QED BY <1>1, <1>2, Times DEF News, Beat

\* processStandbyState tells all the others at once; a heartbeat that arrives ends the
\* conflict, and so does the death of either.
LEMMA HeardNext ==
  ASSUME Types, Absent, Heard, Next
  PROVE  Heard'
<1> USE DEF Heard
<1>1. ASSUME NEW x \in Candidates, \/ Start(x) \/ Stop(x) \/ ProcessBusyState(x)
                                  \/ ProcessDutyState(x)
      PROVE  Heard'
  <2>1. /\ \A c \in Candidates : State'[c] = "Duty" => State[c] = "Duty"
        /\ dutyAge' = dutyAge /\ net \subseteq net'
    BY <1>1 DEF Types, Start, Stop, ProcessBusyState, ProcessDutyState
  <2> QED BY <2>1, NewsStays
<1>2. ASSUME NEW x \in Candidates, NodeDies(x) PROVE Heard'
  <2> SUFFICES ASSUME NEW c \in Candidates, NEW d \in Candidates, c # d,
                      State'[c] = "Duty", State'[d] = "Duty"
               PROVE  News(c, d)' \/ News(d, c)'
    OBVIOUS
  <2>1. /\ c # x /\ d # x /\ State[c] = "Duty" /\ State[d] = "Duty"
        /\ dutyAge'[c] = dutyAge[c] /\ dutyAge'[d] = dutyAge[d]
        /\ \A m \in net : m.to # x => m \in net'
    BY <1>2 DEF NodeDies, Types
  <2> QED BY <2>1, NewsStays DEF Beat
<1>3. ASSUME NEW x \in Candidates, ProcessStandbyState(x) PROVE Heard'
  <2> SUFFICES ASSUME NEW c \in Candidates, NEW d \in Candidates, c # d,
                      State'[c] = "Duty", State'[d] = "Duty"
               PROVE  News(c, d)' \/ News(d, c)'
    OBVIOUS
  <2>1. ASSUME NEW e \in Candidates, e # x, State'[e] = "Duty" PROVE News(x, e)'
    <3>1. loop[e] \in {"on", "off"}
      BY <1>3, <2>1 DEF ProcessStandbyState, Types, Absent
    <3> QED BY <1>3, <2>1, <3>1, NewsSent
  <2>2. CASE c # x /\ d # x
    <3>1. /\ State[c] = "Duty" /\ State[d] = "Duty" /\ net \subseteq net'
          /\ dutyAge'[c] = dutyAge[c] /\ dutyAge'[d] = dutyAge[d]
      BY <1>3, <2>2 DEF ProcessStandbyState, Types
    <3> QED BY <3>1, NewsStays
  <2> QED BY <2>1, <2>2
<1>4. ASSUME NEW x \in Candidates, GiveUp(x) PROVE Heard'
  <2>1. /\ \A c \in Candidates : State'[c] = "Duty" => State[c] = "Duty" /\ c # x
        /\ \A c \in Candidates : c # x => dutyAge'[c] = dutyAge[c]
        /\ net \subseteq net'
    BY <1>4 DEF Types, GiveUp
  <2> QED BY <2>1, NewsStays
<1>5. ASSUME NEW k \in net, OnHeartbeat(k) PROVE Heard'
  <2> SUFFICES ASSUME NEW c \in Candidates, NEW d \in Candidates, c # d,
                      State'[c] = "Duty", State'[d] = "Duty"
               PROVE  News(c, d)' \/ News(d, c)'
    OBVIOUS
  <2>1. /\ c # k.to /\ d # k.to /\ State[c] = "Duty" /\ State[d] = "Duty"
        /\ dutyAge'[c] = dutyAge[c] /\ dutyAge'[d] = dutyAge[d]
        /\ \A m \in net : m.to # k.to => m \in net'
    BY <1>5, MessageTypes DEF OnHeartbeat, AfterHeartbeat, Types
  <2> QED BY <2>1, NewsStays DEF Beat
<1>6. ASSUME NEW k \in net, OnGiveUp(k) PROVE Heard'
  <2>1. /\ State' = State /\ dutyAge' = dutyAge
        /\ \A m \in net : m.type = "heartbeat" => m \in net'
    BY <1>6 DEF OnGiveUp
  <2> QED BY <2>1, NewsStays DEF Beat
<1>7. CASE Tick
  <2>1. State' = State
    BY <1>7 DEF Tick
  <2> QED BY <1>7, <2>1, NewsAges
<1> QED BY <1>1, <1>2, <1>3, <1>4, <1>5, <1>6, <1>7 DEF Next

\* A standby that starts to wait anew has time enough for the next heartbeat.
LEMMA WaitsAnew ==
  ASSUME Types, Timers, NEW c \in Candidates, NEW d \in Candidates, OnDuty(c),
         heartbeat' = heartbeat, waitDuty'[d] \in Int, BaseOvertimeT \div 2 <= waitDuty'[d]
  PROVE  Soon(c, d)'
<1>1. heartbeat[c] \in Int /\ heartbeat[c] <= HeartbeatInterval
  BY Times DEF Types, Timers, OnDuty
<1> QED BY <1>1, Times DEF Soon

\* What holds a standby back goes on doing so while neither its wait nor the times of who is
\* on duty change.
LEMMA StaysHeldBack ==
  ASSUME Types, NEW c \in Candidates, NEW d \in Candidates,
         Soon(c, d) \/ OnItsWay(c, d) \/ News(c, d),
         heartbeat'[c] = heartbeat[c], waitDuty'[d] = waitDuty[d], dutyAge'[c] = dutyAge[c],
         \A m \in net : Beat(m, c, d) => m \in net'
  PROVE  Soon(c, d)' \/ OnItsWay(c, d)' \/ News(c, d)'
BY DEF Soon, OnItsWay, News, Beat

LEMMA HeldBackAges ==
  ASSUME Types, Timers, NEW c \in Candidates, NEW d \in Candidates, Tick,
         OnDuty(c), loop[d] = "on", State[d] = "Standby",
         Soon(c, d) \/ OnItsWay(c, d) \/ News(c, d)
  PROVE  Soon(c, d)' \/ OnItsWay(c, d)' \/ News(c, d)'
<1>1. /\ heartbeat'[c] = heartbeat[c] - 1 /\ waitDuty'[d] = waitDuty[d] - 1
      /\ heartbeat[c] \in Int /\ waitDuty[d] \in Int
  BY DEF Tick, NothingOverdue, CountDown, OnDuty, Types
<1>2. CASE Soon(c, d)
  BY <1>1, <1>2, Times DEF Soon
<1>3. CASE OnItsWay(c, d)
  <2>1. PICK m \in net : Beat(m, c, d) /\ m.left < waitDuty[d]
    BY <1>3 DEF OnItsWay
  <2>2. PICK k \in net' : Beat(k, c, d) /\ k.left = m.left - 1
    BY <2>1, Aged DEF Beat
  <2>3. k.left < waitDuty'[d]
    BY <1>1, <2>1, <2>2, MessageTypes
  <2> QED BY <2>2, <2>3 DEF OnItsWay, Beat
<1> QED BY <1>2, <1>3, NewsAges

\* Nobody's wait ends before the heartbeat of who is on duty has arrived, unless that is the
\* first one.
LEMMA HeldBackNext ==
  ASSUME Types, Absent, Timers, HeldBack, Next
  PROVE  HeldBack'
<1> SUFFICES ASSUME NEW c \in Candidates, NEW d \in Candidates, c # d,
                    OnDuty(c)', loop'[d] = "on", State'[d] = "Standby"
             PROVE  Soon(c, d)' \/ OnItsWay(c, d)' \/ News(c, d)'
  BY DEF HeldBack
<1>0. OnDuty(c) /\ loop[d] = "on" /\ State[d] = "Standby"
        => Soon(c, d) \/ OnItsWay(c, d) \/ News(c, d)
  BY DEF HeldBack
<1>1. ASSUME NEW x \in Candidates, Start(x) \/ Stop(x) \/ NodeDies(x)
      PROVE  Soon(c, d)' \/ OnItsWay(c, d)' \/ News(c, d)'
  <2>1. /\ OnDuty(c) /\ loop[d] = "on" /\ State[d] = "Standby"
        /\ heartbeat'[c] = heartbeat[c] /\ waitDuty'[d] = waitDuty[d]
        /\ dutyAge'[c] = dutyAge[c]
        /\ \A m \in net : m.to = d => m \in net'
    BY <1>1 DEF Types, Absent, OnDuty, Start, Stop, NodeDies
  <2> QED BY <1>0, <2>1, StaysHeldBack DEF Beat
<1>2. ASSUME NEW x \in Candidates, ProcessBusyState(x)
      PROVE  Soon(c, d)' \/ OnItsWay(c, d)' \/ News(c, d)'
  <2>1. OnDuty(c) /\ c # x /\ net' = net /\ dutyAge' = dutyAge /\ heartbeat'[c] = heartbeat[c]
    BY <1>2 DEF ProcessBusyState, OnDuty, Types
  <2>2. CASE d = x
    <3>1. waitDuty'[d] \in DutyWaits
      BY <1>2, <2>2 DEF ProcessBusyState, Types
    <3>2. heartbeat[c] \in Int /\ heartbeat[c] <= HeartbeatInterval
      BY <2>1, Times DEF Types, Timers, OnDuty
    <3> QED BY <2>1, <3>1, <3>2, Times DEF Soon
  <2>3. CASE d # x
    <3>1. loop[d] = "on" /\ State[d] = "Standby" /\ waitDuty'[d] = waitDuty[d]
      BY <1>2, <2>3 DEF ProcessBusyState, Types
    <3> QED BY <1>0, <2>1, <3>1, StaysHeldBack
  <2> QED BY <2>2, <2>3
<1>3. ASSUME NEW x \in Candidates, ProcessStandbyState(x)
      PROVE  Soon(c, d)' \/ OnItsWay(c, d)' \/ News(c, d)'
  <2>1. loop[d] = "on" /\ State[d] = "Standby" /\ waitDuty' = waitDuty /\ net \subseteq net'
    BY <1>3 DEF ProcessStandbyState, Types
  <2>2. CASE c = x
    BY <1>3, <2>1, <2>2, NewsSent
  <2>3. CASE c # x
    <3>1. OnDuty(c) /\ heartbeat'[c] = heartbeat[c] /\ dutyAge'[c] = dutyAge[c]
      BY <1>3, <2>3 DEF ProcessStandbyState, OnDuty, Types
    <3> QED BY <1>0, <2>1, <3>1, StaysHeldBack
  <2> QED BY <2>2, <2>3
<1>4. ASSUME NEW x \in Candidates, ProcessDutyState(x)
      PROVE  Soon(c, d)' \/ OnItsWay(c, d)' \/ News(c, d)'
  <2>1. /\ OnDuty(c) /\ loop[d] = "on" /\ State[d] = "Standby" /\ waitDuty' = waitDuty
        /\ net \subseteq net' /\ dutyAge' = dutyAge
    BY <1>4 DEF ProcessDutyState, OnDuty
  <2>2. CASE c = x /\ Soon(c, d)
    <3>1. PICK m \in Publish(c, "heartbeat") : Beat(m, c, d) /\ m.left = MaxDelay
      BY <2>1, Published DEF Beat
    <3>2. m \in net'
      BY <1>4, <2>2, <3>1 DEF ProcessDutyState
    <3>3. MaxDelay < waitDuty[d]
      BY <2>1, <2>2, Times DEF Soon, Timers, OnDuty, Types
    <3> QED BY <2>1, <3>1, <3>2, <3>3 DEF OnItsWay, Beat
  <2>3. CASE c = x /\ ~Soon(c, d)
    BY <1>0, <2>1, <2>3 DEF OnItsWay, News, Beat
  <2>4. CASE c # x
    <3>1. heartbeat'[c] = heartbeat[c]
      BY <1>4, <2>4 DEF ProcessDutyState, Types
    <3> QED BY <1>0, <2>1, <3>1, StaysHeldBack
  <2> QED BY <2>2, <2>3, <2>4
<1>5. ASSUME NEW x \in Candidates, GiveUp(x)
      PROVE  Soon(c, d)' \/ OnItsWay(c, d)' \/ News(c, d)'
  <2>1. /\ OnDuty(c) /\ c # x /\ loop[d] = "on" /\ heartbeat' = heartbeat
        /\ net \subseteq net' /\ dutyAge'[c] = dutyAge[c]
    BY <1>5 DEF GiveUp, OnDuty, Types
  <2>2. CASE d = x
    <3>1. waitDuty'[d] \in DutyWaits
      BY <1>5, <2>2 DEF GiveUp, Types
    <3> QED BY <2>1, <3>1, WaitsAnew, Times
  <2>3. CASE d # x
    <3>1. State[d] = "Standby" /\ waitDuty'[d] = waitDuty[d]
      BY <1>5, <2>3 DEF GiveUp, Types
    <3> QED BY <1>0, <2>1, <3>1, StaysHeldBack
  <2> QED BY <2>2, <2>3
<1>6. ASSUME NEW k \in net, OnHeartbeat(k)
      PROVE  Soon(c, d)' \/ OnItsWay(c, d)' \/ News(c, d)'
  <2>1. /\ OnDuty(c) /\ c # k.to /\ loop[d] = "on" /\ heartbeat' = heartbeat
        /\ dutyAge'[c] = dutyAge[c]
    BY <1>6, MessageTypes DEF OnHeartbeat, AfterHeartbeat, OnDuty, Types
  <2>2. CASE d = k.to
    <3>1. waitDuty'[d] \in DutyWaits
      BY <1>6, <2>2 DEF OnHeartbeat, AfterHeartbeat, Types
    <3> QED BY <2>1, <3>1, WaitsAnew, Times
  <2>3. CASE d # k.to
    <3>1. /\ State[d] = "Standby" /\ waitDuty'[d] = waitDuty[d]
          /\ \A m \in net : m.to = d => m \in net'
      BY <1>6, <2>3, MessageTypes DEF OnHeartbeat, AfterHeartbeat, Types
    <3> QED BY <1>0, <2>1, <3>1, StaysHeldBack DEF Beat
  <2> QED BY <2>2, <2>3
<1>7. ASSUME NEW k \in net, OnGiveUp(k)
      PROVE  Soon(c, d)' \/ OnItsWay(c, d)' \/ News(c, d)'
  <2>1. /\ OnDuty(c) /\ loop[d] = "on" /\ State[d] = "Standby" /\ heartbeat' = heartbeat
        /\ dutyAge'[c] = dutyAge[c]
        /\ \A m \in net : m.type = "heartbeat" => m \in net'
    BY <1>7 DEF OnGiveUp, OnDuty
  <2>2. CASE d = k.to
    <3>1. waitDuty'[d] = BaseOvertimeT \div 2
      BY <1>7, <2>1, <2>2 DEF OnGiveUp, Types
    <3> QED BY <2>1, <3>1, WaitsAnew, Times
  <2>3. CASE d # k.to
    <3>1. waitDuty'[d] = waitDuty[d]
      BY <1>7, <2>3, MessageTypes DEF OnGiveUp, Types
    <3> QED BY <1>0, <2>1, <3>1, StaysHeldBack DEF Beat
  <2> QED BY <2>2, <2>3
<1>8. CASE Tick
  <2>1. OnDuty(c) /\ loop[d] = "on" /\ State[d] = "Standby"
    BY <1>8 DEF Tick, OnDuty
  <2> QED BY <1>0, <1>8, <2>1, HeldBackAges
<1> QED BY <1>1, <1>2, <1>3, <1>4, <1>5, <1>6, <1>7, <1>8 DEF Next

\* The bound of Rivals stays while the heartbeats to a candidate on duty stay the same.
LEMMA RivalsStay ==
  ASSUME Types, Rivals, NEW c \in Candidates, OnDuty(c), dutyAge'[c] = dutyAge[c],
         \A m : m.type = "heartbeat" /\ m.to = c => (m \in net <=> m \in net'),
         NEW k \in net', k.type = "heartbeat", k.to = c
  PROVE  \E m \in net' : /\ m.type = "heartbeat" /\ m.to = c
                         /\ m.left + dutyAge'[c] <= 2 * MaxDelay
BY DEF Rivals

\* A candidate on duty whose first heartbeat has reached a standby, or who has stepped down
\* for another one on duty, gets no new rival.
LEMMA RivalsNext ==
  ASSUME Types, Types', Absent, Timers, Heard, HeldBack, Rivals, Next
  PROVE  Rivals'
<1> DEFINE Bounded(c) == \E m \in net : /\ m.type = "heartbeat" /\ m.to = c
                                        /\ m.left + dutyAge[c] <= 2 * MaxDelay
<1> SUFFICES ASSUME NEW c \in Candidates, OnDuty(c)',
                    NEW k \in net', k.type = "heartbeat", k.to = c
             PROVE  Bounded(c)'
  BY DEF Rivals
<1>0. k.left \in Int /\ k.left <= MaxDelay
  BY Times DEF Types, Message
<1>1. ASSUME NEW x \in Candidates, Start(x) \/ Stop(x) \/ NodeDies(x) \/ ProcessBusyState(x)
      PROVE  Bounded(c)'
  <2>1. /\ OnDuty(c) /\ dutyAge'[c] = dutyAge[c]
        /\ \A m : m.type = "heartbeat" /\ m.to = c => (m \in net <=> m \in net')
    BY <1>1 DEF Types, Absent, OnDuty, Start, Stop, NodeDies, ProcessBusyState
  <2> QED BY <2>1, RivalsStay
<1>2. ASSUME NEW x \in Candidates, ProcessStandbyState(x) PROVE Bounded(c)'
  <2>1. CASE c = x
    <3>1. dutyAge'[c] = 0
      BY <1>2, <2>1 DEF ProcessStandbyState, Types
    <3>2. k.left + dutyAge'[c] <= 2 * MaxDelay
      BY <1>0, <3>1, Times
    <3> QED BY <3>2
  <2>2. CASE c # x
    <3>1. OnDuty(c) /\ dutyAge'[c] = dutyAge[c] /\ dutyAge[c] \in Int
      BY <1>2, <2>2, Times DEF ProcessStandbyState, OnDuty, Types
    <3>2. News(c, x)
      <4>1. Soon(c, x) \/ OnItsWay(c, x) \/ News(c, x)
        BY <1>2, <2>2, <3>1 DEF HeldBack, ProcessStandbyState
      <4>2. waitDuty[x] \in Int /\ waitDuty[x] <= 0
        BY <1>2 DEF ProcessStandbyState, Types
      <4>3. heartbeat[c] \in Int /\ -MaxLag <= heartbeat[c]
        BY <3>1, Times DEF Timers, OnDuty, Types
      <4>4. ~Soon(c, x)
        BY <4>2, <4>3, Times DEF Soon
      <4>5. ~OnItsWay(c, x)
        BY <4>2, MessageTypes DEF OnItsWay
      <4> QED BY <4>1, <4>4, <4>5
    <3>3. PICK m \in net : m.left + dutyAge[c] <= MaxDelay
      BY <3>2 DEF News
    <3>4. k.left + dutyAge'[c] <= 2 * MaxDelay
      BY <1>0, <3>1, <3>3, MessageTypes, Times
    <3> QED BY <3>4
  <2> QED BY <2>1, <2>2
<1>3. ASSUME NEW x \in Candidates, ProcessDutyState(x) PROVE Bounded(c)'
  <2>1. /\ OnDuty(c) /\ OnDuty(x) /\ dutyAge' = dutyAge /\ dutyAge[c] \in Int
        /\ net' = net \cup Publish(x, "heartbeat")
    BY <1>3, Times DEF ProcessDutyState, OnDuty, Types
  <2>2. ASSUME NEW m \in net, m.type = "heartbeat", m.to = c PROVE Bounded(c)'
    BY <2>1, <2>2 DEF Rivals
  <2>3. CASE c = x
    <3>1. k \in net
      BY <2>1, <2>3, Published
    <3> QED BY <2>2, <3>1
  <2>4. CASE c # x
    <3>1. News(c, x) \/ News(x, c)
      BY <2>1, <2>4 DEF Heard, OnDuty
    <3>2. CASE News(x, c)
      BY <2>2, <3>2 DEF News, Beat
    <3>3. CASE News(c, x)
      <4>1. PICK m \in net : m.left + dutyAge[c] <= MaxDelay
        BY <3>3 DEF News
      <4>2. k.left + dutyAge'[c] <= 2 * MaxDelay
        BY <1>0, <2>1, <4>1, MessageTypes, Times
      <4> QED BY <4>2
    <3> QED BY <3>1, <3>2, <3>3
  <2> QED BY <2>3, <2>4
<1>4. ASSUME NEW x \in Candidates, GiveUp(x) PROVE Bounded(c)'
  <2>1. OnDuty(c) /\ dutyAge'[c] = dutyAge[c] /\ net' = net \cup Publish(x, "giveUp")
    BY <1>4 DEF GiveUp, OnDuty, Types
  <2>2. \A m : m.type = "heartbeat" /\ m.to = c => (m \in net <=> m \in net')
    BY <2>1, Published
  <2> QED BY <2>1, <2>2, RivalsStay
<1>5. ASSUME NEW m \in net, OnHeartbeat(m) \/ OnGiveUp(m) PROVE Bounded(c)'
  <2>1. /\ OnDuty(c) /\ dutyAge'[c] = dutyAge[c] /\ net' = net \ {m}
        /\ m.type = "heartbeat" => m.to # c
    BY <1>5, MessageTypes DEF OnHeartbeat, OnGiveUp, AfterHeartbeat, OnDuty, Types
  <2>2. \A n : n.type = "heartbeat" /\ n.to = c => (n \in net <=> n \in net')
    BY <2>1
  <2> QED BY <2>1, <2>2, RivalsStay
<1>6. CASE Tick
  <2>1. PICK m \in net : m.type = "heartbeat" /\ m.to = c
    BY <1>6, Aged
  <2>2. OnDuty(c)
    BY <1>6 DEF Tick, OnDuty
  <2>3. PICK n \in net : /\ n.type = "heartbeat" /\ n.to = c
                         /\ n.left + dutyAge[c] <= 2 * MaxDelay
    BY <2>1, <2>2 DEF Rivals
  <2>4. PICK l \in net' : l.type = "heartbeat" /\ l.to = c /\ l.left = n.left - 1
    BY <1>6, <2>3, Aged
  <2>5. dutyAge'[c] <= dutyAge[c] + 1 /\ dutyAge[c] \in Int /\ dutyAge'[c] \in Int
    BY <1>6, Times DEF Types, Tick
  <2>6. l.left + dutyAge'[c] <= 2 * MaxDelay
    BY <2>3, <2>4, <2>5, MessageTypes, Times
  <2> QED BY <2>4, <2>6
<1> QED BY <1>1, <1>2, <1>3, <1>4, <1>5, <1>6 DEF Next

\* While nobody is on duty, the messages under way and the waits of the standbys shrink as
\* fast as the time counted grows.
LEMMA CountedNext ==
  ASSUME Types, Types', Absent, Counted, Next
  PROVE  Counted'
<1> SUFFICES ASSUME NEW c \in Candidates PROVE CountedBy(c)'
  BY DEF Counted
<1> USE Times DEF CountedBy
<1>0. /\ alone[c] \in Int /\ 0 <= alone[c] /\ alone'[c] \in Int /\ 0 <= alone'[c]
      /\ waitDuty[c] \in Int /\ waitDuty'[c] \in Int
      /\ \A m \in net' : m.left \in Int /\ m.left <= MaxDelay
      /\ \A m \in net : m.left \in Int /\ 0 <= m.left /\ m.left <= MaxDelay
  BY DEF Types, Message
<1>1. CountedBy(c)
  BY DEF Counted
<1>2. ASSUME NEW x \in Candidates, Start(x) \/ Stop(x) \/ NodeDies(x) PROVE CountedBy(c)'
  <2>1. /\ \A d \in Candidates : OnDuty(d)' => OnDuty(d)
        /\ net' \subseteq net
    BY <1>2 DEF Start, Stop, NodeDies, OnDuty, Types, Absent
  <2>2. CASE c = x
    <3>1. alone'[c] = 0 /\ ~(loop'[c] = "on" /\ State'[c] = "Standby")
      BY <1>2, <2>2 DEF Start, Stop, NodeDies, Types, Absent
    <3> QED BY <1>0, <2>1, <3>1
  <2>3. CASE c # x
    <3>1. /\ loop'[c] = loop[c] /\ State'[c] = State[c] /\ alone'[c] = alone[c]
          /\ waitDuty'[c] = waitDuty[c]
      BY <1>2, <2>3 DEF Start, Stop, NodeDies, Types
    <3> QED BY <1>1, <2>1, <3>1
  <2> QED BY <2>2, <2>3
<1>3. ASSUME NEW x \in Candidates, ProcessBusyState(x) PROVE CountedBy(c)'
  <2>1. /\ \A d \in Candidates : OnDuty(d)' => OnDuty(d)
        /\ net' = net /\ loop' = loop /\ alone' = alone
    BY <1>3 DEF ProcessBusyState, OnDuty, Types
  <2>2. CASE c = x
    <3>1. State[c] = "Busy" /\ waitDuty'[c] \in DutyWaits
      BY <1>3, <2>2 DEF ProcessBusyState, Types
    <3> QED BY <1>0, <1>1, <2>1, <3>1
  <2>3. CASE c # x
    <3>1. State'[c] = State[c] /\ waitDuty'[c] = waitDuty[c]
      BY <1>3, <2>3 DEF ProcessBusyState, Types
    <3> QED BY <1>1, <2>1, <3>1
  <2> QED BY <2>2, <2>3
<1>4. ASSUME NEW x \in Candidates, ProcessStandbyState(x) PROVE CountedBy(c)'
  <2>1. alone'[c] = 0 /\ waitDuty' = waitDuty /\ loop' = loop
    BY <1>4 DEF ProcessStandbyState
  <2>2. State'[c] = "Standby" => State[c] = "Standby"
    BY <1>4 DEF ProcessStandbyState, Types
  <2> QED BY <1>0, <1>1, <2>1, <2>2
<1>5. ASSUME NEW x \in Candidates, ProcessDutyState(x) PROVE CountedBy(c)'
  <2>1. OnDuty(x) /\ alone' = alone /\ waitDuty' = waitDuty /\ loop' = loop /\ State' = State
    BY <1>5 DEF ProcessDutyState
  <2>2. alone'[c] = 0
    BY <1>1, <2>1
  <2> QED BY <1>0, <1>1, <2>1, <2>2
<1>6. ASSUME NEW x \in Candidates, GiveUp(x) PROVE CountedBy(c)'
  <2>1. alone'[c] = 0 /\ loop' = loop
    BY <1>6 DEF GiveUp
  <2>2. CASE c = x
    <3>1. waitDuty'[c] \in DutyWaits
      BY <1>6, <2>2 DEF GiveUp, Types
    <3> QED BY <1>0, <2>1, <3>1
  <2>3. CASE c # x
    <3>1. State'[c] = State[c] /\ waitDuty'[c] = waitDuty[c]
      BY <1>6, <2>3 DEF GiveUp, Types
    <3> QED BY <1>0, <1>1, <2>1, <3>1
  <2> QED BY <2>2, <2>3
<1>7. ASSUME NEW k \in net, OnHeartbeat(k) \/ OnGiveUp(k) PROVE CountedBy(c)'
  <2>1. /\ \A d \in Candidates : OnDuty(d)' => OnDuty(d)
        /\ net' \subseteq net /\ loop' = loop /\ alone' = alone
        /\ State'[c] # "Standby" => State'[c] = State[c]
    BY <1>7, MessageTypes DEF OnHeartbeat, OnGiveUp, AfterHeartbeat, OnDuty, Types
  <2>2. alone[c] <= MaxDelay
    BY <1>0, <1>1
  <2>3. CASE State'[c] = "Standby" /\ (State[c] # "Standby" \/ waitDuty'[c] # waitDuty[c])
    <3>1. waitDuty'[c] \in DutyWaits \/ waitDuty'[c] = BaseOvertimeT \div 2
      BY <1>7, <2>3, MessageTypes DEF OnHeartbeat, OnGiveUp, AfterHeartbeat, Types
    <3>2. waitDuty'[c] <= 2 * BaseOvertimeT - 1
      BY <3>1
    <3>3. alone'[c] + waitDuty'[c] <= 2 * BaseOvertimeT - 1 + MaxDelay
      BY <1>0, <2>1, <2>2, <3>2
    <3>4. (\E d \in Candidates : OnDuty(d)') => alone'[c] = 0
      BY <1>1, <2>1
    <3> QED BY <1>1, <2>1, <2>3, <3>3, <3>4
  <2>4. CASE State'[c] # "Standby" \/ (State[c] = "Standby" /\ waitDuty'[c] = waitDuty[c])
    BY <1>1, <2>1, <2>4
  <2> QED BY <2>3, <2>4
<1>8. CASE Tick
  <2>1. /\ loop' = loop /\ State' = State
        /\ alone'[c] = IF loop[c] = "on" /\ \A d \in Candidates : ~OnDuty(d)
                       THEN alone[c] + 1 ELSE 0
    BY <1>8 DEF Tick
  <2>2. \A d \in Candidates : OnDuty(d)' <=> OnDuty(d)
    BY <2>1 DEF OnDuty
  <2>3. loop[c] = "on" /\ State[c] # "Standby" => OnDuty(c)
    BY <1>8 DEF Tick, NothingOverdue, OnDuty, Types
  <2>4. alone'[c] <= alone[c] + 1
    BY <1>0, <2>1
  <2>5. \A m \in net' : alone'[c] + m.left <= MaxDelay
    <3> SUFFICES ASSUME NEW m \in net' PROVE alone'[c] + m.left <= MaxDelay
      OBVIOUS
    <3>1. PICK k \in net : m.left = k.left - 1
      BY <1>8, Aged
    <3>2. alone[c] + k.left <= MaxDelay
      BY <1>1
    <3> QED BY <1>0, <2>4, <3>1, <3>2
  <2>6. loop[c] = "on" /\ State[c] = "Standby" => waitDuty'[c] = waitDuty[c] - 1
    BY <1>8 DEF Tick, NothingOverdue, CountDown, Types
  <2>7. ASSUME loop[c] # "on" \/ State[c] # "Standby" \/ (\E d \in Candidates : OnDuty(d))
        PROVE  alone'[c] = 0
    BY <2>1, <2>3, <2>7
  <2> QED BY <1>0, <1>1, <2>1, <2>2, <2>4, <2>5, <2>6, <2>7
<1> QED BY <1>2, <1>3, <1>4, <1>5, <1>6, <1>7, <1>8 DEF Next

-----------------------------------------------------------------------------
LEMMA ElectInvInit == Init => ElectInv
BY Times DEF Init, ElectInv, Types, Absent, Timers, Heard, HeldBack, Rivals, Counted,
             CountedBy, OnDuty, Message

LEMMA ElectInvNext == ElectInv /\ [Next]_vars => ElectInv'
<1> SUFFICES ASSUME ElectInv, [Next]_vars PROVE ElectInv'
  OBVIOUS
<1>1. CASE Next
  BY <1>1, TypesNext, AbsentNext, TimersNext, HeardNext, HeldBackNext, RivalsNext,
     CountedNext DEF ElectInv
<1>2. CASE UNCHANGED vars
  BY <1>2 DEF ElectInv, Types, Absent, Timers, Heard, HeldBack, Rivals, Counted, CountedBy,
              OnDuty, News, Soon, OnItsWay, Beat, vars
<1> QED BY <1>1, <1>2

LEMMA ElectInvHolds == Spec => []ElectInv
BY ElectInvInit, ElectInvNext, PTL DEF Spec

\* Two candidates are on duty together for at most the time a heartbeat takes: whoever of
\* them went on duty later told the other one at once (Heard).
THEOREM ConflictsAreShort == Spec => []ConflictIsShort
<1>1. ElectInv => ConflictIsShort
  <2> SUFFICES ASSUME ElectInv, NEW c \in Candidates, NEW d \in Candidates, c # d,
                      State[c] = "Duty", State[d] = "Duty"
               PROVE  dutyAge[c] <= MaxDelay \/ dutyAge[d] <= MaxDelay
    BY DEF ConflictIsShort
  <2>1. ASSUME NEW a \in Candidates, NEW b \in Candidates, News(a, b)
        PROVE  dutyAge[a] <= MaxDelay
    <3>1. PICK m \in net : m.left + dutyAge[a] <= MaxDelay
      BY <2>1 DEF News
    <3>2. m.left \in Int /\ 0 <= m.left /\ dutyAge[a] \in Int
      BY MessageTypes, Times DEF ElectInv, Types
    <3> QED BY <3>1, <3>2, Times
  <2>2. News(c, d) \/ News(d, c)
    BY DEF ElectInv, Heard
  <2> QED BY <2>1, <2>2
<1> QED BY <1>1, ElectInvHolds, PTL

\* The failover of a group: a candidate that runs is without anybody on duty no longer than
\* the longest wait, a message's way and the lag of its loop (Counted and Timers).
THEOREM FailoverComes == Spec => []FailoverInTime
<1>1. ElectInv => FailoverInTime
  <2> SUFFICES ASSUME ElectInv, NEW c \in Candidates
               PROVE  alone[c] <= 2 * BaseOvertimeT - 1 + MaxDelay + MaxLag
    BY DEF FailoverInTime
  <2>1. alone[c] \in Int /\ waitDuty[c] \in Int /\ BaseOvertimeT >= 5
    BY TimesAssumption DEF ElectInv, Types
  <2>2. CASE alone[c] = 0
    BY <2>1, <2>2, Times
  <2>3. CASE alone[c] # 0
    <3>1. CountedBy(c)
      BY DEF ElectInv, Counted
    <3>2. loop[c] = "on" /\ State[c] = "Standby"
      BY <2>3, <3>1 DEF CountedBy
    <3>3. alone[c] + waitDuty[c] <= 2 * BaseOvertimeT - 1 + MaxDelay
      BY <3>1, <3>2 DEF CountedBy
    <3>4. waitDuty[c] >= -MaxLag
      BY <3>2 DEF ElectInv, Timers
    <3> QED BY <2>1, <3>3, <3>4, Times
  <2> QED BY <2>2, <2>3
<1> QED BY <1>1, ElectInvHolds, PTL

\* Who has been on duty long enough for everybody to know leaves it only by giving up: the
\* only other way is a heartbeat, and none is on its way (Rivals).
THEOREM EstablishedStay == Spec => EstablishedStays
<1> DEFINE Leaves(c) == /\ OnDuty(c) /\ dutyAge[c] > 2 * MaxDelay
                        /\ loop'[c] = "on" /\ State'[c] # "Duty"
<1>1. ASSUME ElectInv, [Next]_vars, NEW c \in Candidates, Leaves(c) PROVE GiveUp(c)
  <2>1. State'[c] # State[c] /\ State[c] = "Duty" /\ loop'[c] = "on"
    BY <1>1 DEF OnDuty
  <2>2. ASSUME NEW m \in net, OnHeartbeat(m) PROVE FALSE
    <3>1. m.to = c
      BY <1>1, <2>1, <2>2, MessageTypes DEF OnHeartbeat, ElectInv, Types
    <3>2. PICK n \in net : n.left + dutyAge[c] <= 2 * MaxDelay
      BY <1>1, <2>2, <3>1 DEF ElectInv, Rivals, OnHeartbeat
    <3>3. n.left \in Int /\ 0 <= n.left /\ dutyAge[c] \in Int
      BY <1>1, MessageTypes, Times DEF ElectInv, Types
    <3> QED BY <1>1, <3>2, <3>3, Times
  <2>3. ASSUME NEW x \in Candidates,
               \/ Start(x) \/ Stop(x) \/ NodeDies(x) \/ ProcessBusyState(x)
               \/ ProcessStandbyState(x) \/ ProcessDutyState(x)
        PROVE  FALSE
    BY <1>1, <2>1, <2>3 DEF Start, Stop, NodeDies, ProcessBusyState, ProcessStandbyState,
                            ProcessDutyState, ElectInv, Types
  <2>4. ASSUME NEW x \in Candidates, GiveUp(x) PROVE x = c
    BY <1>1, <2>1, <2>4 DEF GiveUp, ElectInv, Types
  <2>5. ~Tick /\ ~UNCHANGED vars
    BY <2>1 DEF Tick, vars
  <2>6. \A m \in net : ~OnGiveUp(m)
    BY <2>1 DEF OnGiveUp
  <2> QED BY <1>1, <2>2, <2>3, <2>4, <2>5, <2>6 DEF Next
<1>2. ElectInv /\ [Next]_vars
        => [\A c \in Candidates :
              OnDuty(c) /\ dutyAge[c] > 2 * MaxDelay /\ loop'[c] = "on" /\ State'[c] # "Duty"
                => GiveUp(c)]_vars
  BY <1>1
<1> QED BY <1>2, ElectInvHolds, PTL DEF Spec, EstablishedStays
=============================================================================
