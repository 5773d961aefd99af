-------------------------------- MODULE Worker --------------------------------
(***************************************************************************)
(* A TCP worker that connects and one that accepts                         *)
(* (src/core/TCPChannelWorker.go): connecting and connecting again, the    *)
(* registration that each side sends in frames, the removal of links, and  *)
(* closing.                                                                *)
(*                                                                         *)
(* The links of a worker are kept under the remote address: for the client *)
(* every connection has the address of the server, for the server each has *)
(* its own.  Wrong tokens and rejected addresses are left out.             *)
(***************************************************************************)
EXTENDS Integers, Sequences, FiniteSets, Functions

CONSTANTS
  MaxConns,      \* a bound on the connections made
  MaxTrouble,    \* a bound on the connections that fail, and on the times ConnectThread is
                 \* ahead of a ReadThread
  MaxFailures,   \* a bound on the failures to connect in a row
  MaxDataSize,   \* MaxFrameSize less the four bytes of the head
  RegisterSize,  \* the size of a registration message
  MayShutDown    \* the workers that may be closed

Sides == {"client", "server"}
Conns == 1..MaxConns

ASSUME WorkerAssumption ==
  /\ MaxConns \in Nat /\ MaxTrouble \in Nat
  /\ MaxFailures \in 0..50
  /\ MaxDataSize \in Nat \ {0} /\ RegisterSize \in Nat \ {0}
  /\ MayShutDown \subseteq Sides

VARIABLES
  used,     \* how many connections have been made
  faults,
  late,     \* how often ConnectThread has dialled ahead of a ReadThread
  connectFailureCount,
  net,      \* whether what is sent on a connection arrives
  open,     \* the connections whose socket is open, on each side
  reader,   \* the ReadThread of a connection, on each side
  links,    \* TcpLinks: the connection under a remote address
  hasRecv,  \* the links with HasRecvRegister
  wire,     \* the frames on their way to a side
  buffer,   \* toBeContinueBuffer: how much of a message has been read
  packages, \* RecvPackagesChan: the addresses the messages in it came from
  isClosed  \* the workers with IsClosed

vars == <<used, faults, late, connectFailureCount, net, open, reader, links, hasRecv, wire,
          buffer, packages, isClosed>>

counters == <<used, faults, late, connectFailureCount>>

Opposite(side) == IF side = "client" THEN "server" ELSE "client"

RemoteAddr(side, c) == IF side = "client" THEN 0 ELSE c

\* Mutant: the last frame is taken for one of many when it is full.
FullIsNotLast(n) == n >= MaxDataSize

ContinuesAfter(n) == n > MaxDataSize

FrameCount(n) == (n + MaxDataSize - 1) \div MaxDataSize

\* wrapToDataFrame: the sizes of the frames, and which is the last.
WrapToDataFrame(n) ==
  LET left(i) == n - (i - 1) * MaxDataSize
  IN  [i \in 1..FrameCount(n) |->
         [size |-> IF left(i) > MaxDataSize THEN MaxDataSize ELSE left(i),
          last |-> ~ContinuesAfter(left(i))]]

Init ==
  /\ used = 0
  /\ faults = 0
  /\ late = 0
  /\ connectFailureCount = 0
  /\ net = [c \in Conns |-> "up"]
  /\ open = [s \in Sides |-> {}]
  /\ reader = [s \in Sides |-> [c \in Conns |-> "none"]]
  /\ links = [s \in Sides |-> <<>>]
  /\ hasRecv = [s \in Sides |-> {}]
  /\ wire = [s \in Sides |-> [c \in Conns |-> <<>>]]
  /\ buffer = [s \in Sides |-> [c \in Conns |-> 0]]
  /\ packages = [s \in Sides |-> <<>>]
  /\ isClosed = {}

-----------------------------------------------------------------------------
\* Mutant: the thread does not look for a link it has.
AlwaysDials == TRUE

HasNoLink == 0 \notin DOMAIN links["client"]

\* A ReadThread of the client that has not registered its link, or not seen that its socket
\* is closed.
Behind(d) == \/ reader["client"][d] = "starting"
             \/ reader["client"][d] = "running" /\ d \notin open["client"]

\* ConnectThread finds no link and dials; both sides start a ReadThread.  It looks again
\* after 100 ms, which is enough for the other threads but for MaxTrouble times.
Dial ==
  LET c == used + 1
  IN  /\ c \in Conns
      /\ isClosed = {}
      /\ HasNoLink
      /\ late' = IF \E d \in Conns : Behind(d) THEN late + 1 ELSE late
      /\ late' + faults <= MaxTrouble
      /\ used' = c
      /\ connectFailureCount' = 0
      /\ open' = [s \in Sides |-> open[s] \cup {c}]
      /\ reader' = [s \in Sides |-> [reader[s] EXCEPT ![c] = "starting"]]
      /\ UNCHANGED <<faults, net, links, hasRecv, wire, buffer, packages, isClosed>>

\* ConnectThread cannot connect; the count stays at 50.
DialFails ==
  /\ "client" \notin isClosed
  /\ HasNoLink
  /\ ~\E d \in Conns : Behind(d)
  /\ connectFailureCount < MaxFailures
  /\ connectFailureCount' = connectFailureCount + 1
  /\ UNCHANGED <<used, faults, late, net, open, reader, links, hasRecv, wire, buffer,
                 packages, isClosed>>

Put(f, x, v) == [y \in DOMAIN f \cup {x} |-> IF y = x THEN v ELSE f[y]]

\* The connection under an address, if there is one.
At(s, a) == IF a \in DOMAIN links[s] THEN {links[s][a]} ELSE {}

\* RegisterTcpLink closes the link it replaces; then trySendRegisterMessage.
RegisterTcpLink(s, c) ==
  LET a == RemoteAddr(s, c)
  IN  /\ reader[s][c] = "starting"
      /\ reader' = [reader EXCEPT ![s][c] = "running"]
      /\ links' = [links EXCEPT ![s] = Put(@, a, c)]
      /\ open' = [open EXCEPT ![s] = @ \ At(s, a)]
      /\ wire' = IF net[c] = "up" /\ c \in open[s]
                 THEN [wire EXCEPT ![Opposite(s)][c] = @ \o WrapToDataFrame(RegisterSize)]
                 ELSE wire
      /\ UNCHANGED <<counters, net, hasRecv, buffer, packages, isClosed>>

\* A frame of ReadThread; the last one puts the message into RecvPackagesChan.
ReadFrame(s, c) ==
  LET frame == Head(wire[s][c])
      size == buffer[s][c] + frame.size
  IN  /\ reader[s][c] = "running"
      /\ c \in open[s] /\ s \notin isClosed
      /\ wire[s][c] # <<>>
      /\ wire' = [wire EXCEPT ![s][c] = Tail(@)]
      /\ IF frame.last
         THEN /\ packages' = [packages EXCEPT ![s] =
                                Append(@, [addr |-> RemoteAddr(s, c), size |-> size])]
              /\ buffer' = [buffer EXCEPT ![s][c] = 0]
         ELSE /\ buffer' = [buffer EXCEPT ![s][c] = size]
              /\ UNCHANGED packages
      /\ UNCHANGED <<counters, net, open, reader, links, hasRecv, isClosed>>

\* processPackage and handleRegisterMessage: the link that the address has by now.
HandleRegisterMessage(s) ==
  /\ packages[s] # <<>>
  /\ s \notin isClosed
  /\ packages' = [packages EXCEPT ![s] = Tail(@)]
  /\ hasRecv' = IF Head(packages[s]).size = RegisterSize
                THEN [hasRecv EXCEPT ![s] = @ \cup At(s, Head(packages[s]).addr)]
                ELSE hasRecv
  /\ UNCHANGED <<counters, net, open, reader, links, wire, buffer, isClosed>>

\* Read returns an error: the socket is closed here, or was closed there.
ReadFails(s, c) ==
  \/ c \notin open[s]
  \/ s \in isClosed
  \/ net[c] = "up" /\ c \notin open[Opposite(s)] /\ wire[s][c] = <<>>

\* Mutant: only the entry is deleted, and nothing is closed.
OnlyForget(s, a) == {}

\* UnregisterTcpLink closes the link that the address has by now, which may be that of a
\* newer connection.
ToClose(s, a) == At(s, a)

\* The end of a ReadThread.
UnregisterTcpLink(s, c) ==
  LET a == RemoteAddr(s, c)
  IN  /\ reader[s][c] = "running"
      /\ ReadFails(s, c)
      /\ reader' = [reader EXCEPT ![s][c] = "ended"]
      /\ links' = [links EXCEPT ![s] = Restrict(@, DOMAIN @ \ {a})]
      /\ open' = [open EXCEPT ![s] = @ \ ToClose(s, a)]
      /\ UNCHANGED <<counters, net, hasRecv, wire, buffer, packages, isClosed>>

\* Mutant: the dead links are kept.
NothingInactive(s) == {}

\* What nothing has been heard of for MaxInactiveTime.
Inactive(s) == {a \in DOMAIN links[s] : net[links[s][a]] = "dead"}

\* DeleteInactiveLink, and the closing of what it returns.
DeleteInactiveLink(s, a) ==
  /\ a \in Inactive(s)
  /\ s \notin isClosed
  /\ links' = [links EXCEPT ![s] = Restrict(@, DOMAIN @ \ {a})]
  /\ open' = [open EXCEPT ![s] = @ \ {links[s][a]}]
  /\ UNCHANGED <<counters, net, reader, hasRecv, wire, buffer, packages, isClosed>>

\* Close: the links are dropped by DeleteInactiveLinkForce.
Close(s) ==
  /\ s \in MayShutDown \ isClosed
  /\ isClosed' = isClosed \cup {s}
  /\ links' = [links EXCEPT ![s] = <<>>]
  /\ open' = [open EXCEPT ![s] = @ \ {links[s][a] : a \in DOMAIN links[s]}]
  /\ UNCHANGED <<counters, net, reader, hasRecv, wire, buffer, packages>>

-----------------------------------------------------------------------------
\* The network: a connection falls silent, or is reset.

FallSilent(c) ==
  /\ faults + late < MaxTrouble
  /\ c <= used /\ net[c] = "up" /\ \A s \in Sides : c \in open[s]
  /\ faults' = faults + 1
  /\ net' = [net EXCEPT ![c] = "dead"]
  /\ wire' = [s \in Sides |-> [wire[s] EXCEPT ![c] = <<>>]]
  /\ UNCHANGED <<used, late, connectFailureCount, open, reader, links, hasRecv, buffer, packages,
                 isClosed>>

Reset(c) ==
  /\ faults + late < MaxTrouble
  /\ \A s \in Sides : c \in open[s]
  /\ faults' = faults + 1
  /\ open' = [s \in Sides |-> open[s] \ {c}]
  /\ UNCHANGED <<used, late, connectFailureCount, net, reader, links, hasRecv, wire, buffer,
                 packages, isClosed>>

-----------------------------------------------------------------------------
Next ==
  \/ Dial
  \/ DialFails
  \/ \E s \in Sides :
       \/ HandleRegisterMessage(s)
       \/ Close(s)
       \/ \E c \in Conns : RegisterTcpLink(s, c) \/ ReadFrame(s, c) \/ UnregisterTcpLink(s, c)
       \/ \E a \in DOMAIN links[s] : DeleteInactiveLink(s, a)
  \/ \E c \in Conns : FallSilent(c) \/ Reset(c)

Spec == Init /\ [][Next]_vars

\* The threads of both workers go on.
FairSpec ==
  /\ Spec
  /\ WF_vars(Dial)
  /\ \A s \in Sides :
       /\ WF_vars(HandleRegisterMessage(s))
       /\ \A c \in Conns : /\ WF_vars(RegisterTcpLink(s, c))
                           /\ WF_vars(ReadFrame(s, c))
                           /\ WF_vars(UnregisterTcpLink(s, c))
                           /\ WF_vars(RemoteAddr(s, c) \in DOMAIN links[s]
                                      /\ DeleteInactiveLink(s, RemoteAddr(s, c)))
-----------------------------------------------------------------------------

\* A connection that fails costs one more.  ConnectThread ahead of a ReadThread costs two:
\* the links of the client have one address, so the ReadThread of the older connection ends
\* with UnregisterTcpLink of the newer one.
FewConnections == used <= 1 + faults + 2 * late

\* Whatever a ReadThread reads ends with a whole message: nothing is left in its buffer
\* once both registrations have been read.
FramesRejoin ==
  \A s \in Sides : /\ \A i \in DOMAIN packages[s] : packages[s][i].size = RegisterSize
                   /\ \A c \in Conns : wire[s][c] = <<>> /\ net[c] = "up" => buffer[s][c] = 0

\* A connection on which either side may send whatever it wants.
Usable(c) ==
  net[c] = "up" /\ \A s \in Sides : /\ c \in open[s]
                                   /\ reader[s][c] = "running"
                                   /\ RemoteAddr(s, c) \in DOMAIN links[s]
                                   /\ links[s][RemoteAddr(s, c)] = c
                                   /\ c \in hasRecv[s]

\* After the last failure the workers are connected and registered for good, though a
\* ReadThread may close a newer connection than its own.
ConnectedInTheEnd == <>[](isClosed = {}) => <>[](\E c \in Conns : Usable(c))

\* A worker that is closed has no open socket in the end, also if a connection was about to
\* be registered.
ClosedLeavesNothing == \A s \in Sides : s \in isClosed ~> open[s] = {}
=============================================================================
