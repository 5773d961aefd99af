----------------------------- MODULE WorkerProofs -----------------------------
(***************************************************************************)
(* Theorems about the TCP workers, for every number of connections and     *)
(* failures, every frame size and every size of a registration.            *)
(***************************************************************************)
EXTENDS Worker, TLAPS

-----------------------------------------------------------------------------
\* The frames of a registration.
Frames == WrapToDataFrame(RegisterSize)
LastFrame == FrameCount(RegisterSize)

Frame == [size : Nat, last : BOOLEAN]
Package == [addr : Nat, size : Nat]

Counters == used \in Nat /\ faults \in Nat /\ late \in Nat

\* The types of the connections; the client has one address, the server one for each
\* connection.
Types ==
  /\ Counters
  /\ net \in [Conns -> {"up", "dead"}]
  /\ open \in [Sides -> SUBSET Conns]
  /\ reader \in [Sides -> [Conns -> {"none", "starting", "running", "ended"}]]
  /\ isClosed \subseteq Sides
  /\ DOMAIN links = Sides
  /\ DOMAIN links["client"] \subseteq {0}

\* The types of what is sent.
Traffic ==
  /\ wire \in [Sides -> [Conns -> Seq(Frame)]]
  /\ buffer \in [Sides -> [Conns -> Nat]]
  /\ packages \in [Sides -> Seq(Package)]

\* A link is registered by the ReadThread of its connection.
Registered ==
  /\ 0 \in DOMAIN links["client"]
       => /\ links["client"][0] \in Conns
          /\ reader["client"][links["client"][0]] \in {"running", "ended"}
  /\ \A a \in DOMAIN links["server"] :
       /\ a \in Conns /\ links["server"][a] = a
       /\ reader["server"][a] \in {"running", "ended"}

\* Whatever a ReadThread of the client can still read has its link: the thread that removes
\* or replaces a link closes it.
Linked ==
  \A c \in Conns :
    reader["client"][c] = "running" /\ c \in open["client"]
      => 0 \in DOMAIN links["client"] /\ links["client"][0] = c

\* Connections not made yet.
Fresh ==
  \A c \in Conns :
    /\ c > used => net[c] = "up" /\ \A s \in Sides : reader[s][c] = "none"
    /\ c <= used => \A s \in Sides : reader[s][c] # "none"

\* Every failure and every delay has been used up by a connection that was lost.
Tight == used = 1 + faults + 2 * late

\* Then the last connection is sound, and no older one has a ReadThread.
Sound ==
  Tight /\ isClosed = {}
    => /\ used \in Conns
       /\ net[used] = "up"
       /\ \A s \in Sides : used \in open[s]
       /\ \A d \in Conns : d < used => reader["client"][d] = "ended"
       /\ \/ reader["client"][used] = "starting" /\ HasNoLink
          \/ /\ reader["client"][used] = "running"
             /\ 0 \in DOMAIN links["client"] /\ links["client"][0] = used

Connecting == Types /\ Registered /\ Linked /\ Fresh /\ Sound /\ FewConnections

\* What is on its way to s is the rest of one registration, and the buffer is what has been
\* read of it.
Rest(s, c) ==
  LET w == wire[s][c]
  IN  /\ w = <<>> /\ net[c] = "up" => buffer[s][c] = 0
      /\ w # <<>> => /\ Len(w) <= LastFrame
                     /\ buffer[s][c] = (LastFrame - Len(w)) * MaxDataSize
                     /\ \A i \in 1..Len(w) : w[i] = Frames[(LastFrame - Len(w)) + i]

\* Before the other side has registered the connection nothing was sent.
Unsent(s, c) ==
  reader[Opposite(s)][c] \in {"none", "starting"} => wire[s][c] = <<>> /\ buffer[s][c] = 0

WholeMessages ==
  \A s \in Sides : \A i \in DOMAIN packages[s] : packages[s][i].size = RegisterSize

Framing ==
  /\ Traffic
  /\ \A s \in Sides, c \in Conns : Rest(s, c) /\ Unsent(s, c)
  /\ WholeMessages

WorkerInv == Connecting /\ Framing

-----------------------------------------------------------------------------
\* The two sides and their addresses.
LEMMA SideFacts ==
  /\ "client" \in Sides /\ "server" \in Sides
  /\ \A s \in Sides : s = "client" \/ s = "server"
  /\ Opposite("client") = "server" /\ Opposite("server") = "client"
  /\ \A c : RemoteAddr("client", c) = 0 /\ RemoteAddr("server", c) = c
  /\ "client" # "server"
BY DEF Sides, Opposite, RemoteAddr

\* Connections are numbered from 1.
LEMMA ConnFacts == \A c \in Conns : c \in Nat /\ c > 0
BY WorkerAssumption DEF WorkerAssumption, Conns

-----------------------------------------------------------------------------
\* In the beginning there is no connection.
LEMMA ConnectingInit == Init => Connecting
<1> SUFFICES ASSUME Init PROVE Connecting
  OBVIOUS
<1>1. Types
  BY SideFacts DEF Init, Types, Counters
<1>2. Registered
  BY SideFacts DEF Init, Registered
<1>3. Linked
  BY SideFacts DEF Init, Linked
<1>4. Fresh
  BY ConnFacts DEF Init, Fresh
<1>5. Sound
  BY DEF Init, Sound, Tight
<1>6. FewConnections
  BY DEF Init, FewConnections
<1> QED
  BY <1>1, <1>2, <1>3, <1>4, <1>5, <1>6 DEF Connecting

\* When ConnectThread finds no link and no ReadThread behind, all earlier connections have
\* ended: one that could still be read would have its link.
LEMMA AllEnded ==
  ASSUME Connecting, HasNoLink, ~\E d \in Conns : Behind(d)
  PROVE  \A d \in Conns : d <= used => reader["client"][d] = "ended"
<1> SUFFICES ASSUME NEW d \in Conns, d <= used PROVE reader["client"][d] = "ended"
  OBVIOUS
<1>1. reader["client"][d] \in {"none", "starting", "running", "ended"}
  BY SideFacts DEF Connecting, Types
<1>2. reader["client"][d] # "none"
  BY SideFacts DEF Connecting, Fresh
<1>3. reader["client"][d] # "starting" /\ (reader["client"][d] = "running" => d \in open["client"])
  BY DEF Behind
<1>4. reader["client"][d] # "running"
  BY <1>3 DEF Connecting, Linked, HasNoLink
<1> QED
  BY <1>1, <1>2, <1>3, <1>4

\* ConnectThread dials (TCPChannelWorker.go).  In time, only when the budget has one left,
\* for a sound connection would have a link or a ReadThread behind; late, one more delay
\* pays for two.
LEMMA DialConnecting ==
  ASSUME Connecting, Dial
  PROVE  Connecting'
<1> DEFINE c == used + 1
<1>1. /\ c \in Conns /\ isClosed = {} /\ HasNoLink
      /\ late' = IF \E d \in Conns : Behind(d) THEN late + 1 ELSE late
      /\ used' = c /\ faults' = faults
      /\ open' = [s \in Sides |-> open[s] \cup {c}]
      /\ reader' = [s \in Sides |-> [reader[s] EXCEPT ![c] = "starting"]]
      /\ net' = net /\ links' = links /\ isClosed' = isClosed
  BY DEF Dial
<1>2. /\ used \in Nat /\ faults \in Nat /\ late \in Nat
      /\ net \in [Conns -> {"up", "dead"}] /\ open \in [Sides -> SUBSET Conns]
      /\ reader \in [Sides -> [Conns -> {"none", "starting", "running", "ended"}]]
      /\ isClosed \subseteq Sides /\ DOMAIN links = Sides
      /\ DOMAIN links["client"] \subseteq {0}
  BY DEF Connecting, Types, Counters
<1>3. /\ reader' \in [Sides -> [Conns -> {"none", "starting", "running", "ended"}]]
      /\ \A s \in Sides : reader'[s][c] = "starting"
      /\ \A s \in Sides, d \in Conns : d # c => reader'[s][d] = reader[s][d]
  BY <1>1, <1>2
<1>4. open' \in [Sides -> SUBSET Conns] /\ \A s \in Sides : c \in open'[s]
  BY <1>1, <1>2
<1>5. \A s \in Sides, d \in Conns : d # c => (d \in open'[s] <=> d \in open[s])
  BY <1>1, <1>2
<1>6. late' \in Nat
  BY <1>1, <1>2
<1>7. Types'
  BY <1>1, <1>2, <1>3, <1>4, <1>6 DEF Types, Counters
<1>8. \A s \in Sides : reader[s][c] = "none"
  BY <1>1, <1>2 DEF Connecting, Fresh
<1>9. Registered'
  BY <1>1, <1>3, <1>8, SideFacts DEF Connecting, Registered
<1>10. Linked'
  <2> SUFFICES ASSUME NEW d \in Conns, reader'["client"][d] = "running", d \in open'["client"]
               PROVE  0 \in DOMAIN links'["client"] /\ links'["client"][0] = d
    BY DEF Linked
  <2>1. d # c
    BY <1>3, SideFacts
  <2> QED
    BY <1>1, <1>3, <1>5, <2>1, SideFacts DEF Connecting, Linked
<1>11. Fresh'
  <2> SUFFICES ASSUME NEW d \in Conns
               PROVE  /\ d > c => net[d] = "up" /\ \A s \in Sides : reader'[s][d] = "none"
                      /\ d <= c => \A s \in Sides : reader'[s][d] # "none"
    BY <1>1 DEF Fresh
  <2>1. CASE d = c
    BY <1>2, <1>3, <2>1
  <2>2. CASE d # c
    <3>1. (d > c => d > used) /\ (d <= c => d <= used)
      BY <1>2, <2>2, ConnFacts, SMTT(30)
    <3>2. \A s \in Sides : reader'[s][d] = reader[s][d]
      BY <1>3, <2>2
    <3> QED
      BY <3>1, <3>2 DEF Connecting, Fresh
  <2> QED
    BY <2>1, <2>2
<1>12. CASE \E d \in Conns : Behind(d)
  <2>1. late' = late + 1
    BY <1>1, <1>12
  <2>2. used' < 1 + faults' + 2 * late'
    BY <1>1, <1>2, <2>1 DEF Connecting, FewConnections
  <2>3. ~Tight' /\ FewConnections'
    BY <1>1, <1>2, <1>6, <2>2 DEF Tight, FewConnections
  <2> QED
    BY <1>7, <1>9, <1>10, <1>11, <2>3 DEF Connecting, Sound
<1>13. CASE ~\E d \in Conns : Behind(d)
  <2>1. late' = late
    BY <1>1, <1>13
  <2>2. \A d \in Conns : d <= used => reader["client"][d] = "ended"
    BY <1>1, <1>13, AllEnded
  <2>3. ~Tight
    <3> SUFFICES ASSUME Tight PROVE FALSE
      OBVIOUS
    <3>1. used \in Conns /\ reader["client"][used] \in {"starting", "running"}
      BY <1>1 DEF Connecting, Sound
    <3> QED
      BY <1>2, <2>2, <3>1
  <2>4. FewConnections'
    BY <1>1, <1>2, <2>1, <2>3 DEF Connecting, FewConnections, Tight
  <2>5. net'[c] = "up"
    BY <1>1, <1>2 DEF Connecting, Fresh
  <2>6. \A d \in Conns : d < c => reader'["client"][d] = "ended"
    BY <1>2, <1>3, <2>2, ConnFacts, SideFacts
  <2>7. HasNoLink'
    BY <1>1 DEF HasNoLink
  <2>8. Sound'
    BY <1>1, <1>3, <1>4, <2>5, <2>6, <2>7, SideFacts DEF Sound
  <2> QED
    BY <1>7, <1>9, <1>10, <1>11, <2>4, <2>8 DEF Connecting
<1> QED
  BY <1>12, <1>13

\* A step that changes neither connections nor links.
LEMMA SameConnecting ==
  ASSUME Connecting, used' = used, faults' = faults, late' = late, net' = net, open' = open,
         reader' = reader, links' = links, isClosed' = isClosed
  PROVE  Connecting'
BY DEF Connecting, Types, Counters, Registered, Linked, Fresh, Sound, Tight, HasNoLink,
       FewConnections

\* A failure pays for the connection it costs, whatever is lost with it.
LEMMA FaultConnecting ==
  ASSUME Connecting, faults' = faults + 1, used' = used, late' = late,
         reader' = reader, links' = links, isClosed' = isClosed,
         net' \in [Conns -> {"up", "dead"}], open' \in [Sides -> SUBSET Conns],
         \A s \in Sides : open'[s] \subseteq open[s],
         \A c \in Conns : c > used => net'[c] = net[c]
  PROVE  Connecting'
<1>1. used \in Nat /\ faults \in Nat /\ late \in Nat
  BY DEF Connecting, Types, Counters
<1>2. Types'
  BY <1>1 DEF Connecting, Types, Counters
<1>3. Registered'
  BY DEF Connecting, Registered
<1>4. Linked'
  BY SideFacts DEF Connecting, Linked
<1>5. Fresh'
  BY DEF Connecting, Fresh
<1>6. ~Tight' /\ FewConnections'
  BY <1>1 DEF Connecting, FewConnections, Tight
<1> QED
  BY <1>2, <1>3, <1>4, <1>5, <1>6 DEF Connecting, Sound

\* A connection falls silent: only one that has been made.
LEMMA SilentConnecting ==
  ASSUME Connecting, NEW c \in Conns, FallSilent(c)
  PROVE  Connecting'
<1>1. net' \in [Conns -> {"up", "dead"}] /\ \A d \in Conns : d > used => net'[d] = net[d]
  BY ConnFacts DEF Connecting, Types, Counters, FallSilent
<1>2. open' = open /\ open \in [Sides -> SUBSET Conns]
  BY DEF Connecting, Types, FallSilent
<1> QED
  BY <1>1, <1>2, FaultConnecting DEF FallSilent

\* A connection is reset.
LEMMA ResetConnecting ==
  ASSUME Connecting, NEW c \in Conns, Reset(c)
  PROVE  Connecting'
<1>1. open \in [Sides -> SUBSET Conns] /\ open' = [s \in Sides |-> open[s] \ {c}]
  BY DEF Connecting, Types, Reset
<1>2. open' \in [Sides -> SUBSET Conns] /\ \A s \in Sides : open'[s] \subseteq open[s]
  BY <1>1
<1>3. net' = net /\ net \in [Conns -> {"up", "dead"}]
  BY DEF Connecting, Types, Reset
<1> QED
  BY <1>2, <1>3, FaultConnecting DEF Reset

\* A worker is closed: nothing is dialled any more.
LEMMA CloseConnecting ==
  ASSUME Connecting, NEW s \in Sides, Close(s)
  PROVE  Connecting'
<1>1. /\ isClosed' = isClosed \cup {s} /\ links' = [links EXCEPT ![s] = <<>>]
      /\ open' = [open EXCEPT ![s] = @ \ {links[s][a] : a \in DOMAIN links[s]}]
      /\ used' = used /\ faults' = faults /\ late' = late /\ net' = net /\ reader' = reader
  BY DEF Close, counters
<1>2. /\ open \in [Sides -> SUBSET Conns] /\ DOMAIN links = Sides
      /\ DOMAIN links["client"] \subseteq {0} /\ isClosed \subseteq Sides
  BY DEF Connecting, Types
<1>3. open' \in [Sides -> SUBSET Conns] /\ isClosed' \subseteq Sides
  BY <1>1, <1>2
<1>4. DOMAIN links' = Sides /\ DOMAIN links'[s] = {}
      /\ \A t \in Sides : t # s => links'[t] = links[t] /\ open'[t] = open[t]
  BY <1>1, <1>2
<1>5. Types'
  BY <1>1, <1>2, <1>3, <1>4, SideFacts DEF Connecting, Types, Counters
<1>6. Registered'
  <2>1. CASE s = "client"
    BY <1>1, <1>4, <2>1, SideFacts DEF Connecting, Registered
  <2>2. CASE s = "server"
    BY <1>1, <1>4, <2>2, SideFacts DEF Connecting, Registered
  <2> QED
    BY <2>1, <2>2, SideFacts
<1>7. Linked'
  <2> SUFFICES ASSUME NEW c \in Conns, reader'["client"][c] = "running", c \in open'["client"]
               PROVE  0 \in DOMAIN links'["client"] /\ links'["client"][0] = c
    BY DEF Linked
  <2>1. CASE s = "client"
    <3>1. c \in open["client"] /\ c \notin {links["client"][a] : a \in DOMAIN links["client"]}
      BY <1>1, <1>2, <2>1
    <3> QED
      BY <1>1, <3>1 DEF Connecting, Linked
  <2>2. CASE s = "server"
    BY <1>1, <1>4, <2>2, SideFacts DEF Connecting, Linked
  <2> QED
    BY <2>1, <2>2, SideFacts
<1>8. Fresh'
  BY <1>1 DEF Connecting, Fresh
<1>9. Sound'
  BY <1>1 DEF Sound
<1>10. FewConnections'
  BY <1>1 DEF Connecting, FewConnections
<1> QED
  BY <1>5, <1>6, <1>7, <1>8, <1>9, <1>10 DEF Connecting

-----------------------------------------------------------------------------
\* While Tight and nobody is closed, only the last connection of the client has a
\* ReadThread.
LEMMA OnlyTheLast ==
  ASSUME Connecting, Tight, isClosed = {}, NEW d \in Conns,
         reader["client"][d] \in {"starting", "running"}
  PROVE  d = used
<1>1. used \in Nat /\ d \in Nat
  BY ConnFacts DEF Connecting, Types, Counters
<1>2. ~(d < used)
  BY DEF Connecting, Sound
<1>3. ~(d > used)
  BY SideFacts DEF Connecting, Fresh
<1> QED
  BY <1>1, <1>2, <1>3

\* RegisterTcpLink of the client: its one address has the new connection, and the one before
\* is closed.
LEMMA RegisterClient ==
  ASSUME Connecting, NEW c \in Conns, RegisterTcpLink("client", c)
  PROVE  Connecting'
<1>1. /\ reader["client"][c] = "starting"
      /\ reader' = [reader EXCEPT !["client"][c] = "running"]
      /\ links' = [links EXCEPT !["client"] = Put(@, 0, c)]
      /\ open' = [open EXCEPT !["client"] = @ \ At("client", 0)]
      /\ used' = used /\ faults' = faults /\ late' = late
      /\ net' = net /\ isClosed' = isClosed
  BY SideFacts DEF RegisterTcpLink, counters
<1>2. /\ open \in [Sides -> SUBSET Conns] /\ DOMAIN links = Sides
      /\ reader \in [Sides -> [Conns -> {"none", "starting", "running", "ended"}]]
      /\ DOMAIN links["client"] \subseteq {0}
  BY DEF Connecting, Types
<1>3. /\ reader' \in [Sides -> [Conns -> {"none", "starting", "running", "ended"}]]
      /\ reader'["client"][c] = "running" /\ reader'["server"] = reader["server"]
      /\ \A d \in Conns : d # c => reader'["client"][d] = reader["client"][d]
  BY <1>1, <1>2, SideFacts
<1>4. /\ DOMAIN links' = Sides /\ DOMAIN links'["client"] = {0}
      /\ links'["client"][0] = c /\ links'["server"] = links["server"]
  BY <1>1, <1>2, SideFacts DEF Put
<1>5. /\ open' \in [Sides -> SUBSET Conns] /\ open'["server"] = open["server"]
      /\ open'["client"] = open["client"] \ At("client", 0)
  BY <1>1, <1>2, SideFacts
<1>6. Types'
  BY <1>1, <1>3, <1>4, <1>5 DEF Connecting, Types, Counters
<1>7. Registered'
  BY <1>3, <1>4 DEF Connecting, Registered
<1>8. Linked'
  <2> SUFFICES ASSUME NEW d \in Conns, reader'["client"][d] = "running", d \in open'["client"]
               PROVE  d = c
    BY <1>4 DEF Linked
  <2> SUFFICES ASSUME d # c PROVE FALSE
    OBVIOUS
  <2>1. reader["client"][d] = "running" /\ d \in open["client"]
    BY <1>3, <1>5
  <2>2. d \in At("client", 0)
    BY <2>1 DEF Connecting, Linked, At
  <2> QED
    BY <1>5, <2>2
<1>9. Fresh'
  <2> SUFFICES ASSUME NEW d \in Conns
               PROVE  /\ d > used => net[d] = "up" /\ \A s \in Sides : reader'[s][d] = "none"
                      /\ d <= used => \A s \in Sides : reader'[s][d] # "none"
    BY <1>1 DEF Fresh
  <2>1. ~(c > used)
    BY <1>1, SideFacts DEF Connecting, Fresh
  <2>2. CASE d = c
    BY <1>3, <2>1, <2>2, SideFacts DEF Connecting, Fresh
  <2>3. CASE d # c
    BY <1>3, <2>3, SideFacts DEF Connecting, Fresh
  <2> QED
    BY <2>2, <2>3
<1>10. FewConnections'
  BY <1>1 DEF Connecting, FewConnections
<1>11. ASSUME Tight', isClosed' = {} PROVE Sound'
  <2>1. Tight /\ isClosed = {}
    BY <1>1, <1>11 DEF Tight
  <2>2. c = used
    BY <1>1, <2>1, OnlyTheLast
  <2>3. HasNoLink /\ net[used] = "up" /\ (\A s \in Sides : used \in open[s])
        /\ \A d \in Conns : d < used => reader["client"][d] = "ended"
    BY <1>1, <2>1, <2>2 DEF Connecting, Sound
  <2>4. \A s \in Sides : used \in open'[s]
    BY <1>5, <2>3, SideFacts DEF HasNoLink, At
  <2>5. \A d \in Conns : d < used => reader'["client"][d] = "ended"
    BY <1>1, <1>3, <2>3
  <2> QED
    BY <1>1, <1>3, <1>4, <2>2, <2>3, <2>4, <2>5 DEF Sound
<1>12. Sound'
  BY <1>11 DEF Sound
<1> QED
  BY <1>6, <1>7, <1>8, <1>9, <1>10, <1>12 DEF Connecting

\* RegisterTcpLink of the server: every connection has an address of its own.
LEMMA RegisterServer ==
  ASSUME Connecting, NEW c \in Conns, RegisterTcpLink("server", c)
  PROVE  Connecting'
<1>1. /\ reader["server"][c] = "starting"
      /\ reader' = [reader EXCEPT !["server"][c] = "running"]
      /\ links' = [links EXCEPT !["server"] = Put(@, c, c)]
      /\ open' = [open EXCEPT !["server"] = @ \ At("server", c)]
      /\ used' = used /\ faults' = faults /\ late' = late
      /\ net' = net /\ isClosed' = isClosed
  BY SideFacts DEF RegisterTcpLink, counters
<1>2. /\ open \in [Sides -> SUBSET Conns] /\ DOMAIN links = Sides
      /\ reader \in [Sides -> [Conns -> {"none", "starting", "running", "ended"}]]
      /\ DOMAIN links["client"] \subseteq {0}
  BY DEF Connecting, Types
<1>3. /\ reader' \in [Sides -> [Conns -> {"none", "starting", "running", "ended"}]]
      /\ reader'["server"][c] = "running" /\ reader'["client"] = reader["client"]
      /\ \A d \in Conns : d # c => reader'["server"][d] = reader["server"][d]
  BY <1>1, <1>2, SideFacts
<1>4. /\ DOMAIN links' = Sides /\ DOMAIN links'["server"] = DOMAIN links["server"] \cup {c}
      /\ links'["client"] = links["client"] /\ links'["server"][c] = c
      /\ \A a \in DOMAIN links["server"] : a # c => links'["server"][a] = links["server"][a]
  BY <1>1, <1>2, SideFacts DEF Put
<1>5. At("server", c) = {}
  BY <1>1 DEF At, Connecting, Registered
<1>6. open' = open
  BY <1>1, <1>2, <1>5
<1>7. Types'
  BY <1>1, <1>2, <1>3, <1>4, <1>6 DEF Connecting, Types, Counters
<1>8. Registered'
  BY <1>3, <1>4 DEF Connecting, Registered
<1>9. Linked'
  BY <1>3, <1>4, <1>6 DEF Connecting, Linked
<1>10. Fresh'
  <2> SUFFICES ASSUME NEW d \in Conns
               PROVE  /\ d > used => net[d] = "up" /\ \A s \in Sides : reader'[s][d] = "none"
                      /\ d <= used => \A s \in Sides : reader'[s][d] # "none"
    BY <1>1 DEF Fresh
  <2>1. ~(c > used)
    BY <1>1, SideFacts DEF Connecting, Fresh
  <2>2. CASE d = c
    BY <1>3, <2>1, <2>2, SideFacts DEF Connecting, Fresh
  <2>3. CASE d # c
    BY <1>3, <2>3, SideFacts DEF Connecting, Fresh
  <2> QED
    BY <2>2, <2>3
<1>11. Sound' /\ FewConnections'
  BY <1>1, <1>3, <1>4, <1>6 DEF Connecting, Sound, Tight, HasNoLink, FewConnections
<1> QED
  BY <1>7, <1>8, <1>9, <1>10, <1>11 DEF Connecting

-----------------------------------------------------------------------------
\* The client's link is removed and closed, by the end of a ReadThread or because it is
\* inactive: any ReadThread but the one that ends stays as it is.
LEMMA RemoveClient ==
  ASSUME Connecting, NEW c \in Conns,
         links' = [links EXCEPT !["client"] = Restrict(@, DOMAIN @ \ {0})],
         open' = [open EXCEPT !["client"] = @ \ At("client", 0)],
         used' = used, faults' = faults, late' = late, net' = net, isClosed' = isClosed,
         reader' = reader \/ (/\ reader["client"][c] = "running"
                              /\ reader' = [reader EXCEPT !["client"][c] = "ended"]),
         ~(Tight /\ isClosed = {})
  PROVE  Connecting'
<1>2. /\ open \in [Sides -> SUBSET Conns] /\ DOMAIN links = Sides
      /\ reader \in [Sides -> [Conns -> {"none", "starting", "running", "ended"}]]
      /\ DOMAIN links["client"] \subseteq {0}
  BY DEF Connecting, Types
<1>3. /\ reader' \in [Sides -> [Conns -> {"none", "starting", "running", "ended"}]]
      /\ reader'["server"] = reader["server"]
      /\ \A d \in Conns : \/ reader'["client"][d] = reader["client"][d]
                          \/ reader["client"][d] = "running" /\ reader'["client"][d] = "ended"
  BY <1>2, SideFacts
<1>4. /\ DOMAIN links' = Sides /\ DOMAIN links'["client"] = {}
      /\ links'["server"] = links["server"]
  BY <1>2, SideFacts DEF Restrict
<1>5. /\ open' \in [Sides -> SUBSET Conns] /\ open'["client"] = open["client"] \ At("client", 0)
  BY <1>2, SideFacts
<1>6. Types'
  BY <1>3, <1>4, <1>5 DEF Connecting, Types, Counters
<1>7. Registered'
  <2>1. 0 \notin DOMAIN links'["client"]
    BY <1>4
  <2>2. \A a \in DOMAIN links["server"] :
          /\ a \in Conns /\ links["server"][a] = a
          /\ reader["server"][a] \in {"running", "ended"}
    BY DEF Connecting, Registered
  <2> QED
    BY <1>3, <1>4, <2>1, <2>2 DEF Registered
<1>8. Linked'
  <2> SUFFICES ASSUME NEW d \in Conns, reader'["client"][d] = "running", d \in open'["client"]
               PROVE  FALSE
    BY DEF Linked
  <2>1. reader["client"][d] = "running" /\ d \in open["client"] /\ d \notin At("client", 0)
    BY <1>3, <1>5
  <2> QED
    BY <2>1 DEF Connecting, Linked, At
<1>9. Fresh'
  BY <1>3, SideFacts DEF Connecting, Fresh
<1>10. Sound' /\ FewConnections'
  BY DEF Connecting, Sound, Tight, FewConnections
<1> QED
  BY <1>6, <1>7, <1>8, <1>9, <1>10 DEF Connecting

\* The server's link of one connection is removed and closed.
LEMMA RemoveServer ==
  ASSUME Connecting, NEW c \in Conns,
         links' = [links EXCEPT !["server"] = Restrict(@, DOMAIN @ \ {c})],
         open' \in [Sides -> SUBSET Conns], open'["client"] = open["client"],
         \A d \in open["server"] : d # c => d \in open'["server"],
         used' = used, faults' = faults, late' = late, net' = net, isClosed' = isClosed,
         reader' = reader \/ (/\ reader["server"][c] = "running"
                              /\ reader' = [reader EXCEPT !["server"][c] = "ended"]),
         ~(Tight /\ isClosed = {} /\ c = used)
  PROVE  Connecting'
<1>2. /\ open \in [Sides -> SUBSET Conns] /\ DOMAIN links = Sides
      /\ reader \in [Sides -> [Conns -> {"none", "starting", "running", "ended"}]]
      /\ DOMAIN links["client"] \subseteq {0}
  BY DEF Connecting, Types
<1>3. /\ reader' \in [Sides -> [Conns -> {"none", "starting", "running", "ended"}]]
      /\ reader'["client"] = reader["client"]
      /\ \A d \in Conns : \/ reader'["server"][d] = reader["server"][d]
                          \/ reader["server"][d] = "running" /\ reader'["server"][d] = "ended"
  <2>1. CASE reader' = reader
    BY ONLY <1>2, <2>1
  <2>2. CASE /\ reader["server"][c] = "running"
             /\ reader' = [reader EXCEPT !["server"][c] = "ended"]
    BY ONLY <1>2, <2>2, SideFacts
  <2> QED BY ONLY <2>1, <2>2, \/ reader' = reader
                             \/ /\ reader["server"][c] = "running"
                                /\ reader' = [reader EXCEPT !["server"][c] = "ended"]
<1>4. /\ DOMAIN links' = Sides /\ DOMAIN links'["server"] = DOMAIN links["server"] \ {c}
      /\ links'["client"] = links["client"]
      /\ \A a \in DOMAIN links'["server"] : links'["server"][a] = links["server"][a]
  BY <1>2, SideFacts DEF Restrict
<1>5. Types'
  BY <1>2, <1>3, <1>4 DEF Connecting, Types, Counters
<1>6. Registered'
  BY <1>3, <1>4 DEF Connecting, Registered
<1>7. Linked'
  BY <1>3, <1>4 DEF Connecting, Linked
<1>8. Fresh'
  BY <1>3, SideFacts DEF Connecting, Fresh
<1>9. ASSUME Tight', isClosed' = {} PROVE Sound'
  <2>1. Tight /\ isClosed = {} /\ c # used
    BY <1>9 DEF Tight
  <2>2. used \in open["server"] /\ used \in open["client"]
    BY <2>1, SideFacts DEF Connecting, Sound
  <2>3. \A s \in Sides : used \in open'[s]
    BY <2>1, <2>2, SideFacts
  <2> QED
    BY <1>3, <1>4, <2>1, <2>3 DEF Connecting, Sound, HasNoLink
<1>10. Sound' /\ FewConnections'
  BY <1>9 DEF Connecting, Sound, FewConnections
<1> QED
  BY <1>5, <1>6, <1>7, <1>8, <1>10 DEF Connecting

\* The end of a ReadThread of the client: while Tight no Read fails there.
LEMMA UnregisterClient ==
  ASSUME Connecting, NEW c \in Conns, UnregisterTcpLink("client", c)
  PROVE  Connecting'
<1>1. /\ reader["client"][c] = "running" /\ ReadFails("client", c)
      /\ reader' = [reader EXCEPT !["client"][c] = "ended"]
      /\ links' = [links EXCEPT !["client"] = Restrict(@, DOMAIN @ \ {0})]
      /\ open' = [open EXCEPT !["client"] = @ \ At("client", 0)]
      /\ used' = used /\ faults' = faults /\ late' = late
      /\ net' = net /\ isClosed' = isClosed
  BY SideFacts DEF UnregisterTcpLink, ToClose, counters
<1>2. ~(Tight /\ isClosed = {})
  <2> SUFFICES ASSUME Tight, isClosed = {} PROVE FALSE
    OBVIOUS
  <2>1. c = used
    BY <1>1, OnlyTheLast
  <2>2. c \in open["client"] /\ c \in open["server"]
    BY <2>1, SideFacts DEF Connecting, Sound
  <2> QED
    BY <1>1, <2>2, SideFacts DEF ReadFails
<1> QED
  BY <1>1, <1>2, RemoveClient

\* The end of a ReadThread of the server, which removes its own link only.
LEMMA UnregisterServer ==
  ASSUME Connecting, NEW c \in Conns, UnregisterTcpLink("server", c)
  PROVE  Connecting'
<1>1. /\ reader["server"][c] = "running" /\ ReadFails("server", c)
      /\ reader' = [reader EXCEPT !["server"][c] = "ended"]
      /\ links' = [links EXCEPT !["server"] = Restrict(@, DOMAIN @ \ {c})]
      /\ open' = [open EXCEPT !["server"] = @ \ At("server", c)]
      /\ used' = used /\ faults' = faults /\ late' = late
      /\ net' = net /\ isClosed' = isClosed
  BY SideFacts DEF UnregisterTcpLink, ToClose, counters
<1>2. open \in [Sides -> SUBSET Conns] /\ At("server", c) \subseteq {c}
  BY DEF Connecting, Types, Registered, At
<1>3. /\ open' \in [Sides -> SUBSET Conns] /\ open'["client"] = open["client"]
      /\ \A d \in open["server"] : d # c => d \in open'["server"]
  BY <1>1, <1>2, SideFacts
<1>4. ~(Tight /\ isClosed = {} /\ c = used)
  <2> SUFFICES ASSUME Tight, isClosed = {}, c = used PROVE FALSE
    OBVIOUS
  <2>1. c \in open["client"] /\ c \in open["server"]
    BY SideFacts DEF Connecting, Sound
  <2> QED
    BY <1>1, <2>1, SideFacts DEF ReadFails
<1> QED
  BY <1>1, <1>3, <1>4, RemoveServer

\* DeleteInactiveLink: while Tight the last connection is not the one.
LEMMA DeleteConnecting ==
  ASSUME Connecting, NEW s \in Sides, NEW a \in DOMAIN links[s], DeleteInactiveLink(s, a)
  PROVE  Connecting'
<1>1. /\ net[links[s][a]] = "dead"
      /\ links' = [links EXCEPT ![s] = Restrict(@, DOMAIN @ \ {a})]
      /\ open' = [open EXCEPT ![s] = @ \ {links[s][a]}]
      /\ used' = used /\ faults' = faults /\ late' = late
      /\ net' = net /\ isClosed' = isClosed /\ reader' = reader
  BY DEF DeleteInactiveLink, Inactive, counters
<1>2. /\ open \in [Sides -> SUBSET Conns] /\ DOMAIN links["client"] \subseteq {0}
  BY DEF Connecting, Types
<1>3. CASE s = "client"
  <2>1. a = 0 /\ At("client", 0) = {links["client"][0]} /\ links["client"][0] \in Conns
    BY <1>2, <1>3 DEF At, Connecting, Registered
  <2>2. ~(Tight /\ isClosed = {})
    <3> SUFFICES ASSUME Tight, isClosed = {} PROVE FALSE
      OBVIOUS
    <3>1. net[used] = "up" /\ links["client"][0] = used
      BY <1>3, <2>1 DEF Connecting, Sound, HasNoLink
    <3> QED
      BY <1>1, <1>3, <2>1, <3>1
  <2>3. /\ links' = [links EXCEPT !["client"] = Restrict(@, DOMAIN @ \ {0})]
        /\ open' = [open EXCEPT !["client"] = @ \ At("client", 0)]
    BY <1>1, <1>3, <2>1
  <2> QED
    BY <1>1, <2>1, <2>2, <2>3, RemoveClient
<1>4. CASE s = "server"
  <2>1. a \in Conns /\ links["server"][a] = a
    BY <1>4 DEF Connecting, Registered
  <2>2. ~(Tight /\ isClosed = {} /\ a = used)
    BY <1>1, <1>4, <2>1 DEF Connecting, Sound
  <2>3. /\ links' = [links EXCEPT !["server"] = Restrict(@, DOMAIN @ \ {a})]
        /\ open' = [open EXCEPT !["server"] = @ \ {a}]
    BY <1>1, <1>4, <2>1
  <2>4. /\ open' \in [Sides -> SUBSET Conns] /\ open'["client"] = open["client"]
        /\ \A d \in open["server"] : d # a => d \in open'["server"]
    BY <1>2, <2>3, SideFacts
  <2> QED
    BY <1>1, <2>1, <2>2, <2>3, <2>4, RemoveServer
<1> QED
  BY <1>3, <1>4, SideFacts

\* Every step keeps Connecting.
LEMMA ConnectingStep == Connecting /\ [Next]_vars => Connecting'
<1> SUFFICES ASSUME Connecting, [Next]_vars PROVE Connecting'
  OBVIOUS
<1>1. CASE Dial
  BY <1>1, DialConnecting
<1>2. CASE DialFails
  BY <1>2, SameConnecting DEF DialFails
<1>3. ASSUME NEW s \in Sides, HandleRegisterMessage(s) PROVE Connecting'
  BY <1>3, SameConnecting DEF HandleRegisterMessage, counters
<1>4. ASSUME NEW s \in Sides, Close(s) PROVE Connecting'
  BY <1>4, CloseConnecting
<1>5. ASSUME NEW s \in Sides, NEW c \in Conns, RegisterTcpLink(s, c) PROVE Connecting'
  <2>1. CASE s = "client"
    BY <1>5, <2>1, RegisterClient
  <2>2. CASE s = "server"
    BY <1>5, <2>2, RegisterServer
  <2> QED
    BY <2>1, <2>2, SideFacts
<1>6. ASSUME NEW s \in Sides, NEW c \in Conns, ReadFrame(s, c) PROVE Connecting'
  BY <1>6, SameConnecting DEF ReadFrame, counters
<1>7. ASSUME NEW s \in Sides, NEW c \in Conns, UnregisterTcpLink(s, c) PROVE Connecting'
  <2>1. CASE s = "client"
    BY <1>7, <2>1, UnregisterClient
  <2>2. CASE s = "server"
    BY <1>7, <2>2, UnregisterServer
  <2> QED
    BY <2>1, <2>2, SideFacts
<1>8. ASSUME NEW s \in Sides, NEW a \in DOMAIN links[s], DeleteInactiveLink(s, a)
      PROVE  Connecting'
  BY <1>8, DeleteConnecting
<1>9. ASSUME NEW c \in Conns, FallSilent(c) PROVE Connecting'
  BY <1>9, SilentConnecting
<1>10. ASSUME NEW c \in Conns, Reset(c) PROVE Connecting'
  BY <1>10, ResetConnecting
<1>11. CASE UNCHANGED vars
  BY <1>11, SameConnecting DEF vars
<1> QED
  BY <1>1, <1>2, <1>3, <1>4, <1>5, <1>6, <1>7, <1>8, <1>9, <1>10, <1>11 DEF Next

\* For every number of failures and delays, ConnectThread makes at most one connection more
\* for each that fails and two for each time it is ahead of a ReadThread, although
\* UnregisterTcpLink may close a newer connection than the one whose ReadThread ends.
THEOREM ConnectionsAreFew == Spec => []FewConnections
<1>1. Init => Connecting
  BY ConnectingInit
<1>2. Connecting /\ [Next]_vars => Connecting'
  BY ConnectingStep
<1>3. Connecting => FewConnections
  BY DEF Connecting
<1> QED
  BY <1>1, <1>2, <1>3, PTL DEF Spec

-----------------------------------------------------------------------------
\* The number of frames is the quotient, rounded up.
LEMMA Rounded ==
  ASSUME NEW n \in Nat \ {0}, NEW m \in Nat \ {0}
  PROVE  LET q == (n + m - 1) \div m
         IN  q \in Nat /\ q > 0 /\ q * m >= n /\ (q - 1) * m < n
<1> DEFINE q == (n + m - 1) \div m
<1>1. q \in Int /\ q * m <= n + m - 1 /\ n + m - 1 < (q + 1) * m
  BY SMTT(30)
<1> HIDE DEF q
<1>2. (q + 1) * m = q * m + m /\ (q - 1) * m = q * m - m /\ q * m \in Int
  BY <1>1
<1>3. q * m >= n /\ (q - 1) * m < n
  BY <1>1, <1>2
<1>4. q > 0
  <2> SUFFICES ASSUME q <= 0 PROVE FALSE
    BY <1>1
  <2>1. q * m <= 0
    BY <1>1
  <2> QED
    BY <1>2, <1>3, <2>1
<1> QED
  BY <1>1, <1>3, <1>4 DEF q

\* wrapToDataFrame (TCPChannelWorker.go): all frames but the last are full, and the last one
\* has the rest.
LEMMA FrameFacts ==
  /\ LastFrame \in Nat /\ LastFrame > 0
  /\ Frames \in Seq(Frame) /\ Len(Frames) = LastFrame
  /\ \A i \in 1..LastFrame : i < LastFrame => Frames[i].size = MaxDataSize /\ ~Frames[i].last
  /\ Frames[LastFrame].size = RegisterSize - (LastFrame - 1) * MaxDataSize
  /\ Frames[LastFrame].last
<1> DEFINE left(i) == RegisterSize - (i - 1) * MaxDataSize
<1>1. RegisterSize \in Nat \ {0} /\ MaxDataSize \in Nat \ {0}
  BY WorkerAssumption DEF WorkerAssumption
<1>2. /\ LastFrame \in Nat /\ LastFrame > 0
      /\ LastFrame * MaxDataSize >= RegisterSize
      /\ (LastFrame - 1) * MaxDataSize < RegisterSize
  BY <1>1, Rounded DEF LastFrame, FrameCount
<1>3. Frames = [i \in 1..LastFrame |->
                  [size |-> IF left(i) > MaxDataSize THEN MaxDataSize ELSE left(i),
                   last |-> ~(left(i) > MaxDataSize)]]
  BY DEF Frames, WrapToDataFrame, ContinuesAfter, LastFrame
<1>4. ASSUME NEW i \in 1..LastFrame, i < LastFrame
      PROVE  left(i) \in Int /\ left(i) > MaxDataSize
  <2>1. i \in Nat /\ i <= LastFrame - 1
    BY <1>2, <1>4
  <2>2. i * MaxDataSize <= (LastFrame - 1) * MaxDataSize
    BY <1>1, <1>2, <2>1, SMTT(30)
  <2>3. (i - 1) * MaxDataSize = i * MaxDataSize - MaxDataSize /\ i * MaxDataSize \in Int
        /\ (LastFrame - 1) * MaxDataSize \in Int
    BY <1>1, <1>2, <2>1
  <2> QED
    BY <1>1, <1>2, <2>2, <2>3
<1>5. left(LastFrame) \in Nat /\ left(LastFrame) <= MaxDataSize
  <2>1. (LastFrame - 1) * MaxDataSize = LastFrame * MaxDataSize - MaxDataSize
        /\ LastFrame * MaxDataSize \in Int
    BY <1>1, <1>2
  <2> QED
    BY <1>1, <1>2, <2>1
<1> HIDE DEF left
<1>6. \A i \in 1..LastFrame :
        i < LastFrame => Frames[i].size = MaxDataSize /\ ~Frames[i].last
  BY <1>1, <1>3, <1>4
<1>7. Frames[LastFrame].size = left(LastFrame) /\ Frames[LastFrame].last
  <2>1. LastFrame \in 1..LastFrame /\ ~(left(LastFrame) > MaxDataSize)
    BY <1>1, <1>2, <1>5
  <2> QED
    BY <1>3, <2>1
<1>8. ASSUME NEW i \in 1..LastFrame PROVE Frames[i] \in Frame
  <2>1. CASE i < LastFrame
    BY <1>1, <1>3, <1>4, <2>1 DEF Frame
  <2>2. CASE i = LastFrame
    BY <1>1, <1>2, <1>3, <1>5, <2>2 DEF Frame
  <2> QED
    BY <1>2, <2>1, <2>2
<1>9. Frames \in [1..LastFrame -> Frame]
  BY <1>3, <1>8
<1>10. Frames \in Seq(Frame) /\ Len(Frames) = LastFrame
  BY <1>2, <1>9
<1> QED
  BY <1>2, <1>6, <1>7, <1>10 DEF left

-----------------------------------------------------------------------------
\* In the beginning nothing is sent.
LEMMA FramingInit == Init => Framing
<1> SUFFICES ASSUME Init PROVE Framing
  OBVIOUS
<1>1. Traffic
  BY DEF Init, Traffic
<1>2. ASSUME NEW s \in Sides, NEW c \in Conns PROVE Rest(s, c) /\ Unsent(s, c)
  BY DEF Init, Rest, Unsent
<1>3. WholeMessages
  BY DEF Init, WholeMessages
<1> QED
  BY <1>1, <1>2, <1>3 DEF Framing

\* A step that sends and reads nothing, and lets no ReadThread go back.
LEMMA SameFraming ==
  ASSUME Framing, wire' = wire, buffer' = buffer, packages' = packages, net' = net,
         \A s \in Sides, c \in Conns :
           reader'[s][c] \in {"none", "starting"} => reader[s][c] \in {"none", "starting"}
  PROVE  Framing'
<1>1. Traffic' /\ WholeMessages'
  BY DEF Framing, Traffic, WholeMessages
<1>2. ASSUME NEW s \in Sides, NEW c \in Conns PROVE Rest(s, c)' /\ Unsent(s, c)'
  <2>1. Rest(s, c) /\ Unsent(s, c) /\ Opposite(s) \in Sides
    BY SideFacts DEF Framing
  <2> QED
    BY <2>1 DEF Rest, Unsent
<1> QED
  BY <1>1, <1>2 DEF Framing

\* A registration is sent once for each connection and side: nothing is on its way then.
LEMMA RegisterFraming ==
  ASSUME Connecting, Framing, NEW s \in Sides, NEW c \in Conns, RegisterTcpLink(s, c)
  PROVE  Framing'
<1> DEFINE o == Opposite(s)
<1>1. /\ reader[s][c] = "starting" /\ reader' = [reader EXCEPT ![s][c] = "running"]
      /\ wire' = IF net[c] = "up" /\ c \in open[s]
                 THEN [wire EXCEPT ![o][c] = @ \o Frames] ELSE wire
      /\ buffer' = buffer /\ packages' = packages /\ net' = net
  BY DEF RegisterTcpLink, Frames
<1>2. o \in Sides /\ Opposite(o) = s /\ \A t \in Sides : t # o => Opposite(t) # s
  BY SideFacts
<1>3. /\ reader \in [Sides -> [Conns -> {"none", "starting", "running", "ended"}]]
      /\ wire \in [Sides -> [Conns -> Seq(Frame)]]
      /\ buffer \in [Sides -> [Conns -> Nat]]
  BY DEF Connecting, Types, Framing, Traffic
<1>4. reader'[s][c] = "running"
      /\ \A t \in Sides, d \in Conns : t # s \/ d # c => reader'[t][d] = reader[t][d]
  BY <1>1, <1>3
<1>5. CASE ~(net[c] = "up" /\ c \in open[s])
  <2>1. wire' = wire
    BY <1>1, <1>5
  <2>2. \A t \in Sides, d \in Conns :
          reader'[t][d] \in {"none", "starting"} => reader[t][d] \in {"none", "starting"}
    BY <1>1, <1>4
  <2> QED
    BY <1>1, <2>1, <2>2, SameFraming
<1>6. CASE net[c] = "up" /\ c \in open[s]
  <2>1. wire[o][c] = <<>> /\ buffer[o][c] = 0
    BY <1>1, <1>2 DEF Framing, Unsent
  <2>2. wire' = [wire EXCEPT ![o][c] = Frames]
    BY <1>1, <1>2, <1>3, <1>6, <2>1, FrameFacts
  <2>3. /\ wire' \in [Sides -> [Conns -> Seq(Frame)]] /\ wire'[o][c] = Frames
        /\ \A t \in Sides, d \in Conns : t # o \/ d # c => wire'[t][d] = wire[t][d]
    BY <1>2, <1>3, <2>2, FrameFacts
  <2>4. Traffic' /\ WholeMessages'
    BY <1>1, <2>3 DEF Framing, Traffic, WholeMessages
  <2>5. ASSUME NEW t \in Sides, NEW d \in Conns PROVE Rest(t, d)' /\ Unsent(t, d)'
    <3>1. CASE t = o /\ d = c
      <4>1. buffer'[t][d] = 0 /\ wire'[t][d] = Frames /\ reader'[Opposite(t)][d] = "running"
        BY <1>1, <1>2, <1>4, <2>1, <2>3, <3>1
      <4>2. 0 * MaxDataSize = 0
        BY WorkerAssumption DEF WorkerAssumption
      <4> QED
        BY <4>1, <4>2, FrameFacts DEF Rest, Unsent
    <3>2. CASE t # o \/ d # c
      <4>1. wire'[t][d] = wire[t][d] /\ Rest(t, d) /\ Unsent(t, d)
        BY <2>3, <3>2 DEF Framing
      <4>2. reader'[Opposite(t)][d] = reader[Opposite(t)][d]
        BY <1>2, <1>4, <3>2, SideFacts
      <4> QED
        BY <1>1, <4>1, <4>2 DEF Rest, Unsent
    <3> QED
      BY <3>1, <3>2
  <2> QED
    BY <2>4, <2>5 DEF Framing
<1> QED
  BY <1>5, <1>6

\* A sequence is empty if its length is 0.
LEMMA EmptyByLength ==
  ASSUME NEW S, NEW t \in Seq(S)
  PROVE  t = <<>> <=> Len(t) = 0
OBVIOUS

\* The rest of a registration, of which b bytes have been read.
RestOf(w, b) ==
  /\ Len(w) <= LastFrame
  /\ b = (LastFrame - Len(w)) * MaxDataSize
  /\ \A i \in 1..Len(w) : w[i] = Frames[(LastFrame - Len(w)) + i]

\* The next frame completes it, or is full and leaves a shorter rest.
LEMMA NextFrame ==
  ASSUME NEW w \in Seq(Frame), w # <<>>, NEW b \in Nat, RestOf(w, b)
  PROVE  \/ /\ Head(w).last /\ b + Head(w).size = RegisterSize
            /\ Tail(w) = <<>>
         \/ /\ ~Head(w).last /\ b + Head(w).size \in Nat
            /\ Tail(w) # <<>> /\ RestOf(Tail(w), b + Head(w).size)
<1>1. PICK n \in Nat : n = Len(w)
  OBVIOUS
<1>2. n > 0
  BY <1>1
<1>3. PICK f \in Nat : f = LastFrame
  BY FrameFacts
<1>4. n <= f /\ b = (f - n) * MaxDataSize
  BY <1>1, <1>3 DEF RestOf
<1>5. PICK k \in Nat : k = f - n
  BY <1>4
<1>6. \A i \in 1..n : w[i] = Frames[k + i]
  BY <1>1, <1>3, <1>5 DEF RestOf
<1>7. Head(w) = Frames[k + 1]
  <2>1. 1 \in 1..n /\ Head(w) = w[1]
    BY <1>2
  <2> QED
    BY <1>6, <2>1
<1>8. /\ Tail(w) \in Seq(Frame) /\ Len(Tail(w)) = n - 1
      /\ \A i \in 1..(n - 1) : Tail(w)[i] = w[i + 1]
  BY <1>1
<1>9. MaxDataSize \in Nat /\ RegisterSize \in Nat
  BY WorkerAssumption DEF WorkerAssumption
<1>10. k * MaxDataSize \in Nat /\ (k + 1) * MaxDataSize = k * MaxDataSize + MaxDataSize
  BY <1>9
<1>11. CASE n = 1
  <2>1. k + 1 = LastFrame /\ k = LastFrame - 1
    BY <1>3, <1>5, <1>11
  <2>2. Head(w).last /\ Head(w).size = RegisterSize - k * MaxDataSize
    BY <1>7, <2>1, FrameFacts
  <2>3. b = k * MaxDataSize
    BY <1>4, <1>5
  <2>4. b + Head(w).size = RegisterSize
    BY <1>9, <1>10, <2>2, <2>3
  <2>5. Tail(w) = <<>>
    <3>1. Len(Tail(w)) = 0
      BY <1>8, <1>11
    <3> QED
      BY <1>8, <3>1, EmptyByLength, Zenon
  <2> QED
    BY <2>2, <2>4, <2>5
<1>12. CASE n > 1
  <2>1. k + 1 \in 1..LastFrame /\ k + 1 < LastFrame
    BY <1>3, <1>5, <1>12
  <2>2. Head(w).size = MaxDataSize /\ ~Head(w).last
    BY <1>7, <2>1, FrameFacts
  <2>3. b = k * MaxDataSize
    BY <1>4, <1>5
  <2>4. b + Head(w).size = (k + 1) * MaxDataSize /\ b + Head(w).size \in Nat
    BY <1>9, <1>10, <2>2, <2>3
  <2>5. LastFrame - Len(Tail(w)) = k + 1 /\ Len(Tail(w)) <= LastFrame
    BY <1>3, <1>4, <1>5, <1>8
  <2>6. ASSUME NEW i \in 1..(n - 1) PROVE Tail(w)[i] = Frames[(k + 1) + i]
    <3>1. i + 1 \in 1..n /\ k + (i + 1) = (k + 1) + i
      OBVIOUS
    <3>2. Tail(w)[i] = w[i + 1] /\ w[i + 1] = Frames[k + (i + 1)]
      BY <1>6, <1>8, <3>1
    <3> QED
      BY <3>1, <3>2
  <2>7. Tail(w) # <<>>
    <3>1. Len(Tail(w)) # 0
      BY <1>8, <1>12
    <3> QED
      BY <1>8, <3>1, EmptyByLength, Zenon
  <2>8. RestOf(Tail(w), b + Head(w).size)
    BY <1>8, <2>4, <2>5, <2>6 DEF RestOf
  <2> QED
    BY <2>2, <2>4, <2>7, <2>8
<1> QED
  BY <1>2, <1>11, <1>12

\* ReadThread reads a frame: the last one ends a message of the size of a registration.
LEMMA ReadFraming ==
  ASSUME Connecting, Framing, NEW s \in Sides, NEW c \in Conns, ReadFrame(s, c)
  PROVE  Framing'
<1> DEFINE w == wire[s][c]
           size == buffer[s][c] + Head(w).size
<1>1. /\ w # <<>> /\ wire' = [wire EXCEPT ![s][c] = Tail(@)]
      /\ IF Head(w).last
         THEN /\ packages' = [packages EXCEPT ![s] =
                                Append(@, [addr |-> RemoteAddr(s, c), size |-> size])]
              /\ buffer' = [buffer EXCEPT ![s][c] = 0]
         ELSE buffer' = [buffer EXCEPT ![s][c] = size] /\ packages' = packages
      /\ net' = net /\ reader' = reader
  BY DEF ReadFrame
<1>2. /\ wire \in [Sides -> [Conns -> Seq(Frame)]]
      /\ buffer \in [Sides -> [Conns -> Nat]]
      /\ packages \in [Sides -> Seq(Package)]
  BY DEF Framing, Traffic
<1>3. w \in Seq(Frame) /\ buffer[s][c] \in Nat /\ RestOf(w, buffer[s][c])
  BY <1>1, <1>2 DEF Framing, Rest, RestOf
<1>4. \/ Head(w).last /\ size = RegisterSize /\ Tail(w) = <<>>
      \/ ~Head(w).last /\ size \in Nat /\ Tail(w) # <<>> /\ RestOf(Tail(w), size)
  BY <1>1, <1>3, NextFrame
<1>5. RegisterSize \in Nat
  BY WorkerAssumption DEF WorkerAssumption
<1>6. Tail(w) \in Seq(Frame)
  BY <1>1, <1>3
<1>7. /\ wire' \in [Sides -> [Conns -> Seq(Frame)]] /\ wire'[s][c] = Tail(w)
      /\ \A t \in Sides, d \in Conns : t # s \/ d # c => wire'[t][d] = wire[t][d]
  BY <1>1, <1>2, <1>6
<1>8. reader[Opposite(s)][c] \notin {"none", "starting"}
  BY <1>1 DEF Framing, Unsent
<1>9. ASSUME NEW t \in Sides, NEW d \in Conns, t # s \/ d # c,
             buffer'[t][d] = buffer[t][d]
      PROVE  Rest(t, d)' /\ Unsent(t, d)'
  <2>1. wire'[t][d] = wire[t][d] /\ Rest(t, d) /\ Unsent(t, d)
    BY <1>7, <1>9 DEF Framing
  <2> QED
    BY <1>1, <1>9, <2>1 DEF Rest, Unsent
<1>10. Unsent(s, c)'
  BY <1>1, <1>8 DEF Unsent
<1>11. CASE Head(w).last
  <2>3. size = RegisterSize /\ Tail(w) = <<>>
    BY <1>4, <1>11
  <2> DEFINE p == [addr |-> RemoteAddr(s, c), size |-> RegisterSize]
  <2>4. p \in Package /\ p.size = RegisterSize
    BY <1>5, ConnFacts DEF Package, RemoteAddr
  <2>5. /\ packages' = [packages EXCEPT ![s] = Append(@, p)]
        /\ buffer' = [buffer EXCEPT ![s][c] = 0]
    BY <1>1, <1>11, <2>3
  <2> HIDE DEF p
  <2>6. /\ packages' \in [Sides -> Seq(Package)] /\ packages'[s] = Append(packages[s], p)
        /\ \A t \in Sides : t # s => packages'[t] = packages[t]
    BY <1>2, <2>4, <2>5
  <2>7. /\ buffer' \in [Sides -> [Conns -> Nat]] /\ buffer'[s][c] = 0
        /\ \A t \in Sides, d \in Conns : t # s \/ d # c => buffer'[t][d] = buffer[t][d]
    BY <1>2, <2>5
  <2>8. Traffic'
    BY <1>7, <2>6, <2>7 DEF Traffic
  <2>9. WholeMessages'
    <3> SUFFICES ASSUME NEW t \in Sides, NEW i \in DOMAIN packages'[t]
                 PROVE  packages'[t][i].size = RegisterSize
      BY DEF WholeMessages
    <3>1. CASE t = s
      <4>1. packages[s] \in Seq(Package) /\ DOMAIN packages[s] = 1..Len(packages[s])
        BY <1>2
      <4>2. i \in 1..(Len(packages[s]) + 1)
        BY <2>4, <2>6, <3>1, <4>1
      <4>3. CASE i = Len(packages[s]) + 1
        BY <2>4, <2>6, <3>1, <4>1, <4>3
      <4>4. CASE i \in 1..Len(packages[s])
        <5>1. packages'[s][i] = packages[s][i]
          BY <2>4, <2>6, <4>1, <4>4
        <5> QED
          BY <3>1, <4>1, <4>4, <5>1 DEF Framing, WholeMessages
      <4> QED
        BY <4>1, <4>2, <4>3, <4>4
    <3>2. CASE t # s
      BY <2>6, <3>2 DEF Framing, WholeMessages
    <3> QED
      BY <3>1, <3>2
  <2>10. Rest(s, c)'
    BY <1>7, <2>3, <2>7 DEF Rest
  <2>11. \A t \in Sides, d \in Conns : Rest(t, d)' /\ Unsent(t, d)'
    <3> SUFFICES ASSUME NEW t \in Sides, NEW d \in Conns PROVE Rest(t, d)' /\ Unsent(t, d)'
      OBVIOUS
    <3>1. CASE t = s /\ d = c
      BY <1>10, <2>10, <3>1
    <3>2. CASE t # s \/ d # c
      BY <1>9, <2>7, <3>2
    <3> QED
      BY <3>1, <3>2
  <2> QED
    BY <2>8, <2>9, <2>11 DEF Framing
<1>12. CASE ~Head(w).last
  <2>3. size \in Nat /\ Tail(w) # <<>> /\ RestOf(Tail(w), size)
    BY <1>4, <1>12
  <2>4. buffer' = [buffer EXCEPT ![s][c] = size] /\ packages' = packages
    BY <1>1, <1>12
  <2> HIDE DEF size
  <2>5. /\ buffer' \in [Sides -> [Conns -> Nat]] /\ buffer'[s][c] = size
        /\ \A t \in Sides, d \in Conns : t # s \/ d # c => buffer'[t][d] = buffer[t][d]
    BY <1>2, <2>3, <2>4
  <2>6. Traffic' /\ WholeMessages'
    BY <1>7, <2>4, <2>5 DEF Framing, Traffic, WholeMessages
  <2>7. Rest(s, c)'
    BY <1>7, <2>3, <2>5 DEF Rest, RestOf
  <2>8. \A t \in Sides, d \in Conns : Rest(t, d)' /\ Unsent(t, d)'
    <3> SUFFICES ASSUME NEW t \in Sides, NEW d \in Conns PROVE Rest(t, d)' /\ Unsent(t, d)'
      OBVIOUS
    <3>1. CASE t = s /\ d = c
      BY <1>10, <2>7, <3>1
    <3>2. CASE t # s \/ d # c
      BY <1>9, <2>5, <3>2
    <3> QED
      BY <3>1, <3>2
  <2> QED
    BY <2>6, <2>8 DEF Framing
<1> QED
  BY <1>11, <1>12

\* A connection falls silent: nothing more arrives.
LEMMA SilentFraming ==
  ASSUME Connecting, Framing, NEW c \in Conns, FallSilent(c)
  PROVE  Framing'
<1>1. /\ net' = [net EXCEPT ![c] = "dead"]
      /\ wire' = [s \in Sides |-> [wire[s] EXCEPT ![c] = <<>>]]
      /\ buffer' = buffer /\ packages' = packages /\ reader' = reader
  BY DEF FallSilent
<1>2. wire \in [Sides -> [Conns -> Seq(Frame)]] /\ net \in [Conns -> {"up", "dead"}]
  BY DEF Framing, Traffic, Connecting, Types
<1>3. wire' \in [Sides -> [Conns -> Seq(Frame)]]
      /\ \A s \in Sides : /\ wire'[s][c] = <<>>
                          /\ \A d \in Conns : d # c => wire'[s][d] = wire[s][d]
  BY <1>1, <1>2
<1>4. net'[c] = "dead" /\ \A d \in Conns : d # c => net'[d] = net[d]
  BY <1>1, <1>2
<1>5. Traffic' /\ WholeMessages'
  BY <1>1, <1>3 DEF Framing, Traffic, WholeMessages
<1>6. ASSUME NEW s \in Sides, NEW d \in Conns PROVE Rest(s, d)' /\ Unsent(s, d)'
  <2>1. Rest(s, d) /\ Unsent(s, d)
    BY DEF Framing
  <2>2. CASE d = c
    BY <1>1, <1>3, <1>4, <2>1, <2>2 DEF Rest, Unsent
  <2>3. CASE d # c
    BY <1>1, <1>3, <1>4, <2>1, <2>3 DEF Rest, Unsent
  <2> QED
    BY <2>2, <2>3
<1> QED
  BY <1>5, <1>6 DEF Framing

\* ConnectThread dials: the two new ReadThreads have sent nothing yet.
LEMMA DialFraming ==
  ASSUME Connecting, Framing, Dial
  PROVE  Framing'
<1> DEFINE c == used + 1
<1>1. /\ c \in Conns /\ net' = net /\ wire' = wire /\ buffer' = buffer /\ packages' = packages
      /\ reader' = [s \in Sides |-> [reader[s] EXCEPT ![c] = "starting"]]
  BY DEF Dial
<1>2. /\ reader \in [Sides -> [Conns -> {"none", "starting", "running", "ended"}]]
      /\ used \in Nat
  BY DEF Connecting, Types, Counters
<1>3. \A s \in Sides : reader[s][c] = "none"
  BY <1>1, <1>2 DEF Connecting, Fresh
<1>4. \A s \in Sides, d \in Conns :
        reader'[s][d] \in {"none", "starting"} => reader[s][d] \in {"none", "starting"}
  BY <1>1, <1>2, <1>3
<1> QED
  BY <1>1, <1>4, SameFraming

\* A registration that has been read leaves RecvPackagesChan.
LEMMA HandleFraming ==
  ASSUME Framing, NEW s \in Sides, HandleRegisterMessage(s)
  PROVE  Framing'
<1>1. /\ packages[s] # <<>> /\ packages' = [packages EXCEPT ![s] = Tail(@)]
      /\ wire' = wire /\ buffer' = buffer /\ net' = net /\ reader' = reader
  BY DEF HandleRegisterMessage
<1>2. packages \in [Sides -> Seq(Package)]
  BY DEF Framing, Traffic
<1>3. /\ packages' \in [Sides -> Seq(Package)] /\ packages'[s] = Tail(packages[s])
      /\ \A t \in Sides : t # s => packages'[t] = packages[t]
  BY <1>1, <1>2
<1>4. Traffic'
  BY <1>1, <1>3 DEF Framing, Traffic
<1>5. WholeMessages'
  <2> SUFFICES ASSUME NEW t \in Sides, NEW i \in DOMAIN packages'[t]
               PROVE  packages'[t][i].size = RegisterSize
    BY DEF WholeMessages
  <2>1. CASE t = s
    <3> DEFINE q == packages[s]
    <3>1. q \in Seq(Package) /\ q # <<>> /\ i \in DOMAIN Tail(q)
      BY <1>1, <1>2, <1>3, <2>1
    <3>2. i + 1 \in DOMAIN q /\ Tail(q)[i] = q[i + 1]
      BY <3>1
    <3> QED
      BY <1>3, <2>1, <3>2 DEF Framing, WholeMessages
  <2>2. CASE t # s
    BY <1>3, <2>2 DEF Framing, WholeMessages
  <2> QED
    BY <2>1, <2>2
<1>6. \A t \in Sides, d \in Conns : Rest(t, d)' /\ Unsent(t, d)'
  BY <1>1 DEF Framing, Rest, Unsent
<1> QED
  BY <1>4, <1>5, <1>6 DEF Framing

\* Every step keeps Framing.
LEMMA FramingStep == Connecting /\ Framing /\ [Next]_vars => Framing'
<1> SUFFICES ASSUME Connecting, Framing, [Next]_vars PROVE Framing'
  OBVIOUS
<1>1. CASE Dial
  BY <1>1, DialFraming
<1>2. CASE DialFails
  BY <1>2, SameFraming DEF DialFails
<1>3. ASSUME NEW s \in Sides, HandleRegisterMessage(s) PROVE Framing'
  BY <1>3, HandleFraming
<1>4. ASSUME NEW s \in Sides, Close(s) PROVE Framing'
  BY <1>4, SameFraming DEF Close
<1>5. ASSUME NEW s \in Sides, NEW c \in Conns, RegisterTcpLink(s, c) PROVE Framing'
  BY <1>5, RegisterFraming
<1>6. ASSUME NEW s \in Sides, NEW c \in Conns, ReadFrame(s, c) PROVE Framing'
  BY <1>6, ReadFraming
<1>7. ASSUME NEW s \in Sides, NEW c \in Conns, UnregisterTcpLink(s, c) PROVE Framing'
  <2>1. /\ reader' = [reader EXCEPT ![s][c] = "ended"]
        /\ wire' = wire /\ buffer' = buffer /\ packages' = packages /\ net' = net
    BY <1>7 DEF UnregisterTcpLink
  <2>2. reader \in [Sides -> [Conns -> {"none", "starting", "running", "ended"}]]
    BY DEF Connecting, Types
  <2>3. \A t \in Sides, d \in Conns :
          reader'[t][d] \in {"none", "starting"} => reader[t][d] \in {"none", "starting"}
    BY <2>1, <2>2
  <2> QED
    BY <2>1, <2>3, SameFraming
<1>8. ASSUME NEW s \in Sides, NEW a \in DOMAIN links[s], DeleteInactiveLink(s, a)
      PROVE  Framing'
  BY <1>8, SameFraming DEF DeleteInactiveLink
<1>9. ASSUME NEW c \in Conns, FallSilent(c) PROVE Framing'
  BY <1>9, SilentFraming
<1>10. ASSUME NEW c \in Conns, Reset(c) PROVE Framing'
  BY <1>10, SameFraming DEF Reset
<1>11. CASE UNCHANGED vars
  BY <1>11, SameFraming DEF vars
<1> QED
  BY <1>1, <1>2, <1>3, <1>4, <1>5, <1>6, <1>7, <1>8, <1>9, <1>10, <1>11 DEF Next

\* For every frame size and every size of a registration, what ReadThread puts together from
\* the frames of wrapToDataFrame is the whole message, also when frames of other connections
\* come between, and its buffer is empty once everything has been read.
THEOREM FramesDoRejoin == Spec => []FramesRejoin
<1>1. Init => WorkerInv
  BY ConnectingInit, FramingInit DEF WorkerInv
<1>2. WorkerInv /\ [Next]_vars => WorkerInv'
  BY ConnectingStep, FramingStep DEF WorkerInv
<1>3. WorkerInv => FramesRejoin
  BY DEF WorkerInv, Framing, WholeMessages, Rest, FramesRejoin
<1> QED
  BY <1>1, <1>2, <1>3, PTL DEF Spec
=============================================================================
