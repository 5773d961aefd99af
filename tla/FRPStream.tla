------------------------------ MODULE FRPStream ------------------------------
(***************************************************************************)
(* One direction of an FRP stream of Majula: the StreamStub that reads     *)
(* from its connection and the StreamStub at the other end that writes to  *)
(* its own (src/core/FRPStreamStub.go).  The chunks the sender reads are   *)
(* numbered by the order in which it reads them, and 0 stands for an empty *)
(* slot of a window.                                                       *)
(*                                                                         *)
(* Node.sendTo and Node.onRecv hand every message to a goroutine of its    *)
(* own, so messages overtake each other.  A message is lost when inChan is *)
(* full, when a connection on its way breaks, when its TTL is used up, or  *)
(* when two messages were given one VersionSeq and the second is taken for *)
(* a duplicate.                                                            *)
(***************************************************************************)
EXTENDS Integers, Sequences, FiniteSets

CONSTANTS
  Size,       \* MaxSendWindowSize, the size of both windows
  WriteCap,   \* ChannelQueueSizeLarge, the capacity of writeChan
  MaxResend,  \* MaxResendPerCall
  MaxChunks,  \* bound on the chunks read from the sender's connection
  MaxLosses,  \* bound on the messages lost
  Repeats,    \* may equal messages be in flight at the same time?
  StaleAcks,  \* may an ack arrive after a newer one?
  MayClose    \* may a stub be cancelled (lazyClose)?

ASSUME WindowAssumption == Size \in Nat \ {0} /\ WriteCap \in Nat \ {0} /\ MaxResend \in Nat
ASSUME StreamBounds ==
  /\ MaxChunks \in Nat
  /\ MaxLosses \in Nat
  /\ Repeats \in BOOLEAN
  /\ StaleAcks \in BOOLEAN
  /\ MayClose \in BOOLEAN

VARIABLES
  sendSeq,    \* the number of the last chunk read
  sendLoop,   \* sendDataLoop: in "select", in "wait" for the window, or "ended"
  sendStart,  \* sendWindow.startSeq
  sendSlots,  \* sendWindow.data
  recvSeq,    \* the number of the last chunk handed over
  recvStart,  \* recvWindow.startSeq
  recvSlots,  \* recvWindow.data
  handling,   \* the number of the chunk onData is working on, or 0
  progress,   \* the local variable of onData
  handed,     \* what onData gave to enqueueWrite, in order
  writeChan,
  written,    \* what writeLoop wrote to the connection
  sendOpen, recvOpen,  \* the stub is not cancelled
  net,        \* the messages in flight
  losses

sendVars == <<sendSeq, sendLoop, sendStart, sendSlots>>
recvVars == <<recvSeq, recvStart, recvSlots, handling, progress, handed>>
writeVars == <<writeChan, written>>
openVars == <<sendOpen, recvOpen>>
vars == <<sendVars, recvVars, writeVars, openVars, net, losses>>

-----------------------------------------------------------------------------
Indexes == 0..(Size - 1)

Payload == [type : {"FRPData", "FRPAck", "FRPResendRequest"}, seq : Nat, data : Nat]
Data(seq, data) == [type |-> "FRPData", seq |-> seq, data |-> data]
Ack(seq) == [type |-> "FRPAck", seq |-> seq, data |-> 0]
ResendRequest(seq) == [type |-> "FRPResendRequest", seq |-> seq, data |-> 0]

\* Mutant: one number too many fits into the window.
OneTooMany(start, seq) == seq >= start /\ seq <= start + Size

\* CanPut, and the test at the start of Put, Get, GetWithMeta and IsFilled.
InWindow(start, seq) == seq >= start /\ seq < start + Size

\* Mutant: numbers below the window are not refused.
NotBeyond(start, seq) == seq < start + Size

\* Mutant: the last number of the window is refused.
NotTheLast(start, seq) == seq >= start /\ seq < start + Size - 1

\* Put succeeds.
Fits(start, seq) == InWindow(start, seq)

\* Get, GetWithMeta and IsFilled find a chunk.
IsFilled(start, slots, seq) == InWindow(start, seq) /\ slots[seq % Size] # 0

\* The slots after the numbers from..to are removed from the window.
Removed(slots, from, to) ==
  [i \in Indexes |-> IF \E s \in from..to : s % Size = i THEN 0 ELSE slots[i]]

Init ==
  /\ sendSeq = 0
  /\ sendLoop = "select"
  /\ sendStart = 1
  /\ sendSlots = [i \in Indexes |-> 0]
  /\ recvSeq = 0
  /\ recvStart = 1
  /\ recvSlots = [i \in Indexes |-> 0]
  /\ handling = 0
  /\ progress = FALSE
  /\ handed = <<>>
  /\ writeChan = <<>>
  /\ written = <<>>
  /\ sendOpen = TRUE
  /\ recvOpen = TRUE
  /\ net = {}
  /\ losses = 0

\* The messages in flight once m is received: equal messages are not counted, so m
\* may be there still.
Rest(m) == IF Repeats THEN {net, net \ {m}} ELSE {net \ {m}}

-----------------------------------------------------------------------------
\* sendDataLoop takes a chunk from readChan and numbers it.  A select with several
\* ready cases takes any of them, so that a cancelled loop may go on for a while.
TakeChunk ==
  /\ sendLoop = "select"
  /\ sendSeq < MaxChunks
  /\ sendSeq' = sendSeq + 1
  /\ sendLoop' = "wait"
  /\ UNCHANGED <<sendStart, sendSlots, recvVars, writeVars, openVars, net, losses>>

\* It goes on when the window has room, cancelled or not: windowCond.Wait does not
\* look at the context.
SendChunk ==
  /\ sendLoop = "wait"
  /\ InWindow(sendStart, sendSeq)
  /\ sendSlots' = [sendSlots EXCEPT ![sendSeq % Size] = sendSeq]
  /\ net' = net \cup {Data(sendSeq, sendSeq)}
  /\ sendLoop' = "select"
  /\ UNCHANGED <<sendSeq, sendStart, recvVars, writeVars, openVars, losses>>

\* lazyClose cancels the sender's stub, and sendDataLoop ends in its select.
CancelSender ==
  /\ MayClose
  /\ sendOpen
  /\ sendOpen' = FALSE
  /\ UNCHANGED <<sendVars, recvVars, writeVars, recvOpen, net, losses>>

EndSendLoop ==
  /\ sendLoop = "select"
  /\ ~sendOpen
  /\ sendLoop' = "ended"
  /\ UNCHANGED <<sendSeq, sendStart, sendSlots, recvVars, writeVars, openVars, net, losses>>

\* RemoveUpTo sets startSeq without comparing it with the old one.
StartAfter(ack) == ack + 1

\* Mutant: the slot of the first chunk that is not acknowledged is cleared too.
RemoveOneMore(ack) == Removed(sendSlots, sendStart, ack + 1)

RemoveUpTo(ack) == Removed(sendSlots, sendStart, ack)

\* onAck.  StaleAcks = FALSE keeps back acks that a newer one has overtaken.
OnAck(m) ==
  /\ m.type = "FRPAck"
  /\ StaleAcks \/ m.seq >= sendStart - 1
  /\ sendSlots' = RemoveUpTo(m.seq)
  /\ sendStart' = StartAfter(m.seq)
  /\ net' \in Rest(m)
  /\ UNCHANGED <<sendSeq, sendLoop, recvVars, writeVars, openVars, losses>>

\* onResendRequest sends what the slot of the number holds.
OnResendRequest(m) ==
  /\ m.type = "FRPResendRequest"
  /\ \E rest \in Rest(m) :
       net' = IF IsFilled(sendStart, sendSlots, m.seq)
              THEN rest \cup {Data(m.seq, sendSlots[m.seq % Size])} ELSE rest
  /\ UNCHANGED <<sendVars, recvVars, writeVars, openVars, losses>>

-----------------------------------------------------------------------------
\* onData, up to recvWindow.Put.  A number outside the window is dropped, and no ack
\* is sent for it.
OnData(m) ==
  /\ handling = 0
  /\ m.type = "FRPData"
  /\ IF Fits(recvStart, m.seq)
     THEN /\ recvSlots' = [recvSlots EXCEPT ![m.seq % Size] = m.data]
          /\ handling' = m.seq
     ELSE UNCHANGED <<recvSlots, handling>>
  /\ progress' = FALSE
  /\ net' \in Rest(m)
  /\ UNCHANGED <<sendVars, recvSeq, recvStart, handed, writeVars, openVars, losses>>

\* One round of the loop of onData: enqueueWrite drops the chunk when writeChan is
\* full.
HandOver ==
  /\ handling # 0
  /\ IsFilled(recvStart, recvSlots, recvSeq + 1)
  /\ LET data == recvSlots[(recvSeq + 1) % Size]
     IN /\ handed' = Append(handed, data)
        /\ writeChan' = IF Len(writeChan) < WriteCap THEN Append(writeChan, data)
                        ELSE writeChan
  /\ recvSeq' = recvSeq + 1
  /\ progress' = TRUE
  /\ UNCHANGED <<sendVars, recvStart, recvSlots, handling, written, openVars, net, losses>>

\* The numbers asked for again: the first MaxResend missing ones below the chunk that
\* arrived.
Missing ==
  {s \in recvSeq + 1..handling - 1 :
     /\ ~IsFilled(recvStart, recvSlots, s)
     /\ Cardinality({r \in recvSeq + 1..s - 1 : ~IsFilled(recvStart, recvSlots, r)})
          < MaxResend}

\* sendAck in the mode "immediate".
AckSeq == recvSeq

\* The end of onData: the window moves on, or chunks are asked for again; an ack.
FinishData ==
  /\ handling # 0
  /\ ~IsFilled(recvStart, recvSlots, recvSeq + 1)
  /\ recvStart' = IF progress THEN recvSeq + 1 ELSE recvStart
  /\ recvSlots' = IF progress THEN Removed(recvSlots, recvStart, recvSeq) ELSE recvSlots
  /\ net' = net \cup {Ack(AckSeq)}
                \cup (IF progress THEN {} ELSE {ResendRequest(s) : s \in Missing})
  /\ handling' = 0
  /\ UNCHANGED <<sendVars, recvSeq, progress, handed, writeVars, openVars, losses>>

\* writeLoop.
Write ==
  /\ writeChan # <<>>
  /\ written' = Append(written, Head(writeChan))
  /\ writeChan' = Tail(writeChan)
  /\ UNCHANGED <<sendVars, recvVars, openVars, net, losses>>

CancelReceiver ==
  /\ MayClose
  /\ recvOpen
  /\ recvOpen' = FALSE
  /\ UNCHANGED <<sendVars, recvVars, writeVars, sendOpen, net, losses>>

\* The network loses a message.
Lose(m) ==
  /\ losses < MaxLosses
  /\ net' = net \ {m}
  /\ losses' = losses + 1
  /\ UNCHANGED <<sendVars, recvVars, writeVars, openVars>>

Next ==
  \/ TakeChunk
  \/ SendChunk
  \/ CancelSender
  \/ EndSendLoop
  \/ HandOver
  \/ FinishData
  \/ Write
  \/ CancelReceiver
  \/ \E m \in net : OnAck(m) \/ OnResendRequest(m) \/ OnData(m) \/ Lose(m)

Spec == Init /\ [][Next]_vars

\* The loops of a stub that is not cancelled run as long as there is something for them
\* to do, and a message that is not lost arrives.  Nothing makes a connection deliver
\* another chunk.
Messages == [type : {"FRPData", "FRPAck", "FRPResendRequest"}, seq : 0..MaxChunks,
             data : 0..MaxChunks]
Fairness ==
  /\ WF_vars(SendChunk)
  /\ WF_vars(EndSendLoop)
  /\ WF_vars(HandOver)
  /\ WF_vars(FinishData)
  /\ WF_vars(recvOpen /\ Write)
  /\ \A m \in Messages :
       /\ WF_vars(sendOpen /\ m \in net /\ (OnAck(m) \/ OnResendRequest(m)))
       /\ WF_vars(recvOpen /\ m \in net /\ OnData(m))

FairSpec == Spec /\ Fairness
-----------------------------------------------------------------------------

\* Every variable of the two stubs and every message keeps its type.
StreamTypeOK ==
  /\ sendSeq \in Nat /\ sendLoop \in {"select", "wait", "ended"}
  /\ sendStart \in Nat /\ sendSlots \in [Indexes -> Nat]
  /\ recvSeq \in Nat /\ recvStart \in Nat /\ recvSlots \in [Indexes -> Nat]
  /\ handling \in Nat /\ progress \in BOOLEAN /\ handed \in Seq(Nat)
  /\ writeChan \in Seq(Nat) /\ written \in Seq(Nat)
  /\ sendOpen \in BOOLEAN /\ recvOpen \in BOOLEAN
  /\ net \subseteq Payload
  /\ losses \in Nat

\* onData hands over every chunk once, in the order in which the other end read them,
\* although slots are reused, messages overtake each other, and a late resend request
\* may be answered with the chunk that took over the slot of the one asked for.
InOrder == Len(handed) = recvSeq /\ \A k \in DOMAIN handed : handed[k] = k

\* The sender never runs ahead of what the receiver's window takes: a chunk is refused
\* by recvWindow.Put only if it was handed over before.
WithinWindow == \A m \in net : m.type = "FRPData" => m.seq < recvStart + Size

\* The branch of sendDataLoop for a number behind the window is never taken.
NeverBehind == sendLoop = "wait" => sendSeq >= sendStart

\* The number of the last chunk sent: the one sendDataLoop waits with is not.
Sent == IF sendLoop = "wait" THEN sendSeq - 1 ELSE sendSeq

\* A chunk that was sent and not yet handed over at the other end is still in the send
\* window, so that a resend request for it can be answered.
Resendable ==
  \A s \in recvSeq + 1..Sent :
    IsFilled(sendStart, sendSlots, s) /\ sendSlots[s % Size] = s

\* The stream is a pipe: whatever is lost, repeated or late, chunks are handed over one by
\* one in the order read, sendDataLoop reads no further ahead than the window and one, and
\* a chunk disappears only where enqueueWrite finds writeChan full.
P == INSTANCE Pipe WITH Window <- Size, Queue <- WriteCap,
                        taken <- sendSeq, arrived <- recvSeq, queue <- writeChan, out <- written
IsPipe == P!Spec

\* A chunk that was read at one end is written at the other.
Delivered == \A k \in 1..MaxChunks : sendSeq >= k ~> Len(written) >= k
=============================================================================
