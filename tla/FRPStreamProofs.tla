--------------------------- MODULE FRPStreamProofs ---------------------------
(***************************************************************************)
(* Theorems about FRPStream, for windows and queues of any size: the slots *)
(* of a window are reused modulo its size, and still every chunk is handed *)
(* over once and in order.                                                 *)
(***************************************************************************)
EXTENDS FRPStream, TLAPS

-----------------------------------------------------------------------------
\* Numbers and slots.

\* A number and its slot.
LEMMA SlotOf ==
  ASSUME NEW a \in Nat
  PROVE  /\ a % Size \in Indexes
         /\ a = Size * (a \div Size) + (a % Size) /\ a \div Size \in Nat
BY WindowAssumption DEF Indexes

\* Multiples of the size are at least the size apart.
LEMMA Multiples ==
  ASSUME NEW k \in Nat, NEW j \in Nat, k < j
  PROVE  Size * j >= Size * k + Size
<1>1. PICK d \in Nat : j = k + 1 + d
  <2>1. j - k - 1 \in Nat
    OBVIOUS
  <2> QED BY <2>1
<1>2. Size * j = Size * k + Size + Size * d
  BY <1>1, WindowAssumption
<1>3. Size * d \in Nat /\ Size * k \in Nat
  BY WindowAssumption
<1> QED BY <1>2, <1>3, WindowAssumption

\* Two numbers that share a slot are at least the size of the window apart.
LEMMA SlotApart ==
  ASSUME NEW a \in Nat, NEW b \in Nat, a % Size = b % Size, a < b
  PROVE  b >= a + Size
<1> DEFINE k == a \div Size
           j == b \div Size
           r == a % Size
<1>1. a = Size * k + r /\ b = Size * j + r /\ k \in Nat /\ j \in Nat /\ r \in 0..(Size - 1)
  BY SlotOf DEF Indexes
<1> HIDE DEF k, j, r
<1>2. Size * k \in Nat /\ Size * j \in Nat
  BY <1>1, WindowAssumption
<1>3. k < j
  <2>1. CASE k = j
    BY <1>1, <2>1
  <2>2. CASE j < k
    <3>1. Size * k >= Size * j + Size
      BY <1>1, <2>2, Multiples
    <3> QED BY <1>1, <1>2, <3>1, WindowAssumption
  <2> QED BY <1>1, <2>1, <2>2
<1>4. Size * j >= Size * k + Size
  BY <1>1, <1>3, Multiples
<1> QED BY <1>1, <1>2, <1>4, WindowAssumption

\* Numbers of one window that share a slot are the same.
LEMMA SlotUnique ==
  ASSUME NEW a \in Nat, NEW b \in Nat, a % Size = b % Size, a < b + Size, b < a + Size
  PROVE  a = b
<1>1. ASSUME a < b PROVE FALSE
  <2>1. b >= a + Size
    BY <1>1, SlotApart
  <2> QED BY <2>1, WindowAssumption
<1>2. ASSUME b < a PROVE FALSE
  <2>1. a >= b + Size
    BY <1>2, SlotApart
  <2> QED BY <2>1, WindowAssumption
<1> QED BY <1>1, <1>2

\* A number shares its slot with the one a window later.
LEMMA SlotReused ==
  ASSUME NEW a \in Nat, NEW b \in Nat, b = a + Size
  PROVE  a % Size = b % Size
<1> DEFINE k == (a \div Size) + 1
           j == b \div Size
           r == a % Size
           q == b % Size
<1>1. /\ b = Size * k + r /\ k \in Nat /\ r \in 0..(Size - 1)
      /\ b = Size * j + q /\ j \in Nat /\ q \in 0..(Size - 1)
  <2> DEFINE c == a \div Size
  <2>1. a = Size * c + r /\ c \in Nat /\ r \in 0..(Size - 1)
    BY SlotOf DEF Indexes
  <2>2. b = Size * j + q /\ j \in Nat /\ q \in 0..(Size - 1)
    BY SlotOf DEF Indexes
  <2>3. k = c + 1
    OBVIOUS
  <2> HIDE DEF c, k, j, r, q
  <2>4. Size * (c + 1) = Size * c + Size /\ Size * c \in Nat
    BY <2>1, WindowAssumption
  <2> QED BY <2>1, <2>2, <2>3, <2>4, WindowAssumption
<1> SUFFICES r = q
  OBVIOUS
<1> HIDE DEF k, j, r, q
<1>2. Size * k \in Nat /\ Size * j \in Nat
  BY <1>1, WindowAssumption
<1>3. CASE k = j
  BY <1>1, <1>2, <1>3
<1>4. CASE k < j
  BY <1>1, <1>2, <1>4, Multiples, WindowAssumption
<1>5. CASE j < k
  BY <1>1, <1>2, <1>5, Multiples, WindowAssumption
<1> QED BY <1>1, <1>3, <1>4, <1>5

-----------------------------------------------------------------------------
\* The inductive invariant.

\* The sender: it is at most a window ahead of the receiver's window, which it never
\* overtakes; a slot holds the newest chunk that was put into it, or nothing.
SendInv ==
  /\ sendLoop = "wait" => sendSeq >= 1
  /\ sendStart >= 1
  /\ sendStart <= recvStart
  /\ Sent < recvStart + Size
  /\ \A i \in Indexes : sendSlots[i] # 0 =>
       sendSlots[i] \in 1..Sent /\ sendSlots[i] % Size = i
  /\ \A s \in 1..Sent : sendSlots[s % Size] # 0 => sendSlots[s % Size] >= s

\* The receiver: between two calls of onData the window starts behind the last chunk
\* handed over, and a slot holds the chunk of its number in the window, or nothing.
RecvInv ==
  /\ recvStart >= 1
  /\ recvStart <= recvSeq + 1
  /\ recvSeq < recvStart + Size
  /\ recvSeq <= Sent
  /\ handling <= Sent
  /\ handling = 0 \/ ~progress => recvStart = recvSeq + 1
  /\ \A s \in recvStart..(recvStart + Size - 1) : recvSlots[s % Size] \in {0, s}
  /\ \A i \in Indexes : recvSlots[i] <= Sent

\* The messages: an ack is for chunks the receiver's window has left behind, and a chunk
\* that is not what its number says is one the receiver already has.
MessageInv(m) ==
  /\ m.type = "FRPAck" => m.seq < recvStart
  /\ m.type = "FRPResendRequest" => m.seq \in 1..Sent
  /\ m.type = "FRPData" => /\ m.seq \in 1..Sent /\ m.data \in 1..Sent
                           /\ m.seq > recvSeq => m.data = m.seq
NetInv == \A m \in net : MessageInv(m)

StreamInv == StreamTypeOK /\ SendInv /\ RecvInv /\ NetInv /\ InOrder

\* The fields that are numbers.
LEMMA Numbers ==
  ASSUME StreamTypeOK, SendInv
  PROVE  /\ sendSeq \in Nat /\ sendStart \in Nat /\ recvSeq \in Nat /\ recvStart \in Nat
         /\ handling \in Nat /\ Size \in Nat /\ Size > 0 /\ Sent \in Nat
         /\ Sent <= sendSeq
BY WindowAssumption DEF StreamTypeOK, SendInv, Sent

\* A number of a message.
LEMMA PayloadTypes ==
  ASSUME StreamTypeOK, NEW m \in net
  PROVE  m.seq \in Nat /\ m.data \in Nat /\ net \in SUBSET Payload
BY DEF StreamTypeOK, Payload

\* An empty stream satisfies the invariant.
LEMMA StreamInit == Init => StreamInv
<1> SUFFICES ASSUME Init PROVE StreamInv
  OBVIOUS
<1> USE DEF Init
<1>1. StreamTypeOK
  <2>1. progress \in BOOLEAN /\ sendOpen \in BOOLEAN /\ recvOpen \in BOOLEAN
    BY Zenon
  <2>2. /\ handed \in Seq(Nat) /\ writeChan \in Seq(Nat) /\ written \in Seq(Nat)
        /\ sendSlots \in [Indexes -> Nat] /\ recvSlots \in [Indexes -> Nat]
    OBVIOUS
  <2> QED BY <2>1, <2>2 DEF StreamTypeOK
<1>2. Sent = 0
  BY DEF Sent
<1>3. SendInv
  BY <1>2, WindowAssumption DEF SendInv
<1>4. RecvInv
  <2>1. \A s \in recvStart..(recvStart + Size - 1) : recvSlots[s % Size] \in {0, s}
    <3> SUFFICES ASSUME NEW s \in 1..Size PROVE recvSlots[s % Size] = 0
      BY WindowAssumption
    <3>1. s \in Nat
      BY WindowAssumption
    <3> QED BY <3>1, SlotOf
  <2> QED BY <1>2, <2>1, WindowAssumption DEF RecvInv
<1>5. NetInv /\ InOrder
  BY DEF NetInv, InOrder
<1> QED BY <1>1, <1>3, <1>4, <1>5 DEF StreamInv

\* What Removed leaves in a slot.
LEMMA RemovedSlots ==
  ASSUME NEW slots \in [Indexes -> Nat], NEW from, NEW to
  PROVE  /\ Removed(slots, from, to) \in [Indexes -> Nat]
         /\ \A i \in Indexes : Removed(slots, from, to)[i] \in {0, slots[i]}
         /\ \A i \in Indexes : (\A s \in from..to : s % Size # i)
              => Removed(slots, from, to)[i] = slots[i]
BY DEF Removed

\* When the sender and the receiver do not move, only new messages matter.
LEMMA OnlyMessages ==
  ASSUME StreamInv, UNCHANGED <<sendVars, recvVars>>, StreamTypeOK',
         \A m \in net' : m \in net \/ MessageInv(m)
  PROVE  StreamInv'
<1>1. UNCHANGED Sent
  BY DEF Sent, sendVars
<1>2. SendInv' /\ RecvInv' /\ InOrder'
  BY <1>1 DEF StreamInv, SendInv, RecvInv, InOrder, sendVars, recvVars
<1>3. \A m : MessageInv(m) => MessageInv(m)'
  BY <1>1 DEF MessageInv, sendVars, recvVars
<1>4. NetInv'
  BY <1>3 DEF StreamInv, NetInv
<1> QED BY <1>2, <1>4 DEF StreamInv

\* The messages that are left of those in flight.
LEMMA RestOfNet ==
  ASSUME NEW m, NEW rest \in Rest(m)
  PROVE  rest \subseteq net
BY DEF Rest

\* The flags of the stubs stay Boolean.
LEMMA FlagTypes ==
  ASSUME StreamTypeOK, Next
  PROVE  progress' \in BOOLEAN /\ sendOpen' \in BOOLEAN /\ recvOpen' \in BOOLEAN
<1>1. progress \in BOOLEAN /\ sendOpen \in BOOLEAN /\ recvOpen \in BOOLEAN
  BY DEF StreamTypeOK
<1>2. progress' = progress \/ progress' = FALSE \/ progress' = TRUE
  BY Zenon DEF Next, TakeChunk, SendChunk, CancelSender, EndSendLoop, HandOver, FinishData,
         Write, CancelReceiver, OnAck, OnResendRequest, OnData, Lose, recvVars
<1>3. sendOpen' = sendOpen \/ sendOpen' = FALSE
  BY Zenon DEF Next, TakeChunk, SendChunk, CancelSender, EndSendLoop, HandOver, FinishData,
         Write, CancelReceiver, OnAck, OnResendRequest, OnData, Lose, openVars
<1>4. recvOpen' = recvOpen \/ recvOpen' = FALSE
  BY Zenon DEF Next, TakeChunk, SendChunk, CancelSender, EndSendLoop, HandOver, FinishData,
         Write, CancelReceiver, OnAck, OnResendRequest, OnData, Lose, openVars
<1> QED BY Zenon, <1>1, <1>2, <1>3, <1>4

\* Messages made by the stubs.
LEMMA MadePayloads ==
  ASSUME NEW s \in Nat, NEW d \in Nat
  PROVE  Data(s, d) \in Payload /\ Ack(s) \in Payload /\ ResendRequest(s) \in Payload
BY DEF Data, Ack, ResendRequest, Payload

\* Every step keeps the types.
LEMMA TypesNext ==
  ASSUME StreamTypeOK, Next
  PROVE  StreamTypeOK'
<1>0. /\ sendSeq \in Nat /\ sendLoop \in {"select", "wait", "ended"}
      /\ sendStart \in Nat /\ sendSlots \in [Indexes -> Nat]
      /\ recvSeq \in Nat /\ recvStart \in Nat /\ recvSlots \in [Indexes -> Nat]
      /\ handling \in Nat /\ handed \in Seq(Nat)
      /\ writeChan \in Seq(Nat) /\ written \in Seq(Nat)
      /\ net \subseteq Payload /\ losses \in Nat
  BY DEF StreamTypeOK
<1>1. progress' \in BOOLEAN /\ sendOpen' \in BOOLEAN /\ recvOpen' \in BOOLEAN
  BY FlagTypes
<1> SUFFICES /\ sendSeq' \in Nat /\ sendLoop' \in {"select", "wait", "ended"}
             /\ sendStart' \in Nat /\ sendSlots' \in [Indexes -> Nat]
             /\ recvSeq' \in Nat /\ recvStart' \in Nat /\ recvSlots' \in [Indexes -> Nat]
             /\ handling' \in Nat /\ handed' \in Seq(Nat)
             /\ writeChan' \in Seq(Nat) /\ written' \in Seq(Nat)
             /\ net' \subseteq Payload /\ losses' \in Nat
  BY <1>1 DEF StreamTypeOK
<1>2. CASE TakeChunk \/ CancelSender \/ EndSendLoop \/ CancelReceiver
  BY <1>0, <1>2 DEF TakeChunk, CancelSender, EndSendLoop, CancelReceiver, sendVars,
                    recvVars, writeVars
<1>3. CASE SendChunk
  BY <1>0, <1>3, MadePayloads DEF SendChunk, recvVars, writeVars
<1>4. CASE HandOver
  <2>1. recvSlots[(recvSeq + 1) % Size] \in Nat
    BY <1>0, SlotOf
  <2> QED BY <1>0, <1>4, <2>1 DEF HandOver, sendVars
<1>5. CASE FinishData
  <2>1. Removed(recvSlots, recvStart, recvSeq) \in [Indexes -> Nat]
    BY <1>0 DEF Removed
  <2>2. \A s \in Missing : s \in Nat
    BY <1>0 DEF Missing
  <2>3. net' \subseteq Payload
    BY <1>0, <1>5, <2>2, MadePayloads DEF FinishData, AckSeq
  <2> QED BY <1>0, <1>5, <2>1, <2>3 DEF FinishData, sendVars, writeVars
<1>6. CASE Write
  BY <1>0, <1>6 DEF Write, sendVars, recvVars
<1>7. ASSUME NEW m \in net, OnAck(m) \/ OnResendRequest(m) \/ OnData(m) \/ Lose(m)
      PROVE  /\ sendSeq' \in Nat /\ sendLoop' \in {"select", "wait", "ended"}
             /\ sendStart' \in Nat /\ sendSlots' \in [Indexes -> Nat]
             /\ recvSeq' \in Nat /\ recvStart' \in Nat /\ recvSlots' \in [Indexes -> Nat]
             /\ handling' \in Nat /\ handed' \in Seq(Nat)
             /\ writeChan' \in Seq(Nat) /\ written' \in Seq(Nat)
             /\ net' \subseteq Payload /\ losses' \in Nat
  <2>0. m.seq \in Nat /\ m.data \in Nat
    BY PayloadTypes
  <2>1. CASE OnAck(m)
    BY <1>0, <2>0, <2>1, RestOfNet
       DEF OnAck, RemoveUpTo, Removed, StartAfter, recvVars, writeVars
  <2>2. CASE OnResendRequest(m)
    <3>1. sendSlots[m.seq % Size] \in Nat
      BY <1>0, <2>0, SlotOf
    <3> QED BY <1>0, <2>0, <2>2, <3>1, RestOfNet, MadePayloads
            DEF OnResendRequest, sendVars, recvVars, writeVars
  <2>3. CASE OnData(m)
    BY <1>0, <2>0, <2>3, RestOfNet DEF OnData, sendVars, writeVars
  <2>4. CASE Lose(m)
    BY <1>0, <2>4 DEF Lose, sendVars, recvVars, writeVars
  <2> QED BY <1>7, <2>1, <2>2, <2>3, <2>4
<1> QED BY <1>2, <1>3, <1>4, <1>5, <1>6, <1>7 DEF Next

-----------------------------------------------------------------------------
\* One lemma per step that changes something the invariant speaks of.

\* A step of the sender that sends nothing new.
LEMMA SenderSteps ==
  ASSUME StreamInv, StreamTypeOK', TakeChunk \/ EndSendLoop
  PROVE  StreamInv'
<1>0. StreamTypeOK /\ SendInv /\ RecvInv /\ NetInv /\ InOrder
  BY DEF StreamInv
<1>1. Sent' = Sent /\ (sendLoop' = "wait" => sendSeq' >= 1)
  <2>0. sendSeq \in Nat
    BY <1>0 DEF StreamTypeOK
  <2>1. CASE TakeChunk
    <3>1. sendLoop = "select" /\ sendLoop' = "wait" /\ sendSeq' = sendSeq + 1
      BY <2>1 DEF TakeChunk
    <3> QED BY <2>0, <3>1 DEF Sent
  <2>2. CASE EndSendLoop
    <3>1. sendLoop = "select" /\ sendLoop' = "ended" /\ sendSeq' = sendSeq
      BY <2>2 DEF EndSendLoop
    <3> QED BY <2>0, <3>1 DEF Sent
  <2> QED BY <2>1, <2>2
<1>2. UNCHANGED <<sendStart, sendSlots, recvVars, net>>
  BY DEF TakeChunk, EndSendLoop
<1>3. SendInv' /\ RecvInv' /\ InOrder'
  BY <1>0, <1>1, <1>2 DEF SendInv, RecvInv, InOrder, recvVars
<1>4. NetInv'
  BY <1>0, <1>1, <1>2 DEF NetInv, MessageInv, recvVars
<1> QED BY <1>3, <1>4 DEF StreamInv

\* sendDataLoop puts a chunk into the window and sends it.
LEMMA SendChunkStep ==
  ASSUME StreamInv, StreamTypeOK', SendChunk
  PROVE  StreamInv'
<1>0. StreamTypeOK /\ SendInv /\ RecvInv /\ NetInv /\ InOrder
  BY DEF StreamInv
<1>n. /\ sendSeq \in Nat /\ sendStart \in Nat /\ recvSeq \in Nat /\ recvStart \in Nat
      /\ handling \in Nat /\ Size \in Nat /\ Size > 0 /\ Sent \in Nat
  BY <1>0, Numbers
<1>1. sendSeq >= 1 /\ Sent = sendSeq - 1 /\ Sent' = sendSeq /\ sendSeq < sendStart + Size
  BY <1>0 DEF SendChunk, Sent, SendInv, InWindow
<1>2. /\ sendSlots' = [sendSlots EXCEPT ![sendSeq % Size] = sendSeq]
      /\ net' = net \cup {Data(sendSeq, sendSeq)} /\ sendLoop' = "select"
      /\ UNCHANGED <<sendSeq, sendStart, recvVars>>
  BY DEF SendChunk
<1>3. sendSlots \in [Indexes -> Nat] /\ sendSeq % Size \in Indexes
  BY <1>0, <1>n, SlotOf DEF StreamTypeOK
<1>4. SendInv'
  <2>1. /\ (sendLoop = "wait" => sendSeq >= 1)' /\ (sendStart >= 1)'
        /\ (sendStart <= recvStart)' /\ (Sent < recvStart + Size)'
    BY <1>0, <1>n, <1>1, <1>2 DEF SendInv, recvVars
  <2>2. ASSUME NEW i \in Indexes, sendSlots'[i] # 0
        PROVE  sendSlots'[i] \in 1..Sent' /\ sendSlots'[i] % Size = i
    <3>1. CASE i = sendSeq % Size
      BY <1>n, <1>1, <1>2, <1>3, <3>1
    <3>2. CASE i # sendSeq % Size
      <4>1. sendSlots'[i] = sendSlots[i]
        BY <1>2, <1>3, <3>2
      <4>2. sendSlots[i] \in 1..Sent /\ sendSlots[i] % Size = i
        BY <1>0, <2>2, <4>1 DEF SendInv
      <4> QED BY <1>n, <1>1, <4>1, <4>2
    <3> QED BY <3>1, <3>2
  <2>3. ASSUME NEW s \in 1..Sent', sendSlots'[s % Size] # 0
        PROVE  sendSlots'[s % Size] >= s
    <3>0. s % Size \in Indexes
      BY <1>n, <1>1, SlotOf
    <3>1. CASE s % Size = sendSeq % Size
      BY <1>n, <1>1, <1>2, <1>3, <3>1
    <3>2. CASE s % Size # sendSeq % Size
      <4>1. sendSlots'[s % Size] = sendSlots[s % Size]
        BY <1>2, <1>3, <3>0, <3>2
      <4>2. s \in 1..Sent
        BY <1>n, <1>1, <3>2
      <4> QED BY <1>0, <2>3, <4>1, <4>2 DEF SendInv
    <3> QED BY <3>1, <3>2
  <2> QED BY <2>1, <2>2, <2>3 DEF SendInv
<1>5. RecvInv'
  <2>1. \A i \in Indexes : recvSlots[i] \in Nat
    BY <1>0 DEF StreamTypeOK
  <2>2. \A i \in Indexes : recvSlots[i] <= Sent'
    BY <1>0, <1>n, <1>1, <2>1 DEF RecvInv
  <2>3. recvSeq <= Sent' /\ handling <= Sent'
    BY <1>0, <1>n, <1>1 DEF RecvInv
  <2> QED BY <1>0, <1>2, <2>2, <2>3 DEF RecvInv, recvVars
<1>6. NetInv'
  <2> SUFFICES ASSUME NEW m \in net' PROVE MessageInv(m)'
    BY DEF NetInv
  <2>1. CASE m \in net
    <3>1. MessageInv(m)
      BY <1>0, <2>1 DEF NetInv
    <3> QED BY <1>n, <1>1, <1>2, <3>1 DEF MessageInv, recvVars
  <2>2. CASE m \notin net
    <3>1. m.type = "FRPData" /\ m.seq = sendSeq /\ m.data = sendSeq
      BY <1>2, <2>2 DEF Data
    <3> QED BY <1>n, <1>1, <3>1 DEF MessageInv
  <2> QED BY <2>1, <2>2
<1>7. InOrder'
  BY <1>0, <1>2 DEF InOrder, recvVars
<1> QED BY <1>4, <1>5, <1>6, <1>7 DEF StreamInv

\* onAck: the window of the sender may move back, but never past that of the receiver.
LEMMA AckStep ==
  ASSUME StreamInv, StreamTypeOK', NEW m \in net, OnAck(m)
  PROVE  StreamInv'
<1>0. StreamTypeOK /\ SendInv /\ RecvInv /\ NetInv /\ InOrder
  BY DEF StreamInv
<1>n. /\ sendSeq \in Nat /\ sendStart \in Nat /\ recvSeq \in Nat /\ recvStart \in Nat
      /\ Size \in Nat /\ Size > 0 /\ Sent \in Nat /\ m.seq \in Nat
  BY <1>0, Numbers, PayloadTypes
<1>1. /\ sendStart' = m.seq + 1 /\ m.seq < recvStart /\ net' \subseteq net
      /\ UNCHANGED <<sendSeq, sendLoop, recvVars>>
  BY <1>0, RestOfNet DEF OnAck, StartAfter, NetInv, MessageInv
<1>2. Sent' = Sent
  BY <1>1 DEF Sent
<1>3. \A i \in Indexes : sendSlots'[i] \in {0, sendSlots[i]}
  BY <1>0, RemovedSlots DEF OnAck, RemoveUpTo, StreamTypeOK
<1>4. SendInv'
  <2>1. \A s \in 1..Sent : s % Size \in Indexes
    BY <1>n, SlotOf
  <2>2. \A i \in Indexes : sendSlots'[i] # 0 =>
          sendSlots'[i] \in 1..Sent /\ sendSlots'[i] % Size = i
    BY <1>0, <1>3 DEF SendInv
  <2>3. \A s \in 1..Sent : sendSlots'[s % Size] # 0 => sendSlots'[s % Size] >= s
    BY <1>0, <1>3, <2>1 DEF SendInv
  <2>4. /\ (sendLoop = "wait" => sendSeq >= 1)' /\ sendStart' >= 1
        /\ sendStart' <= recvStart' /\ Sent' < recvStart' + Size
    BY <1>0, <1>n, <1>1, <1>2 DEF SendInv, recvVars
  <2> QED BY <1>2, <2>2, <2>3, <2>4 DEF SendInv
<1>5. RecvInv' /\ InOrder'
  BY <1>0, <1>1, <1>2 DEF RecvInv, InOrder, recvVars
<1>6. NetInv'
  BY <1>0, <1>1, <1>2 DEF NetInv, MessageInv, recvVars
<1> QED BY <1>4, <1>5, <1>6 DEF StreamInv

\* onResendRequest: if the receiver still waits for the number, the slot holds the chunk
\* of that number; if a later one took over the slot, the receiver has passed the number.
LEMMA ResendStep ==
  ASSUME StreamInv, StreamTypeOK', NEW m \in net, OnResendRequest(m)
  PROVE  StreamInv'
<1>0. StreamTypeOK /\ SendInv /\ RecvInv /\ NetInv /\ InOrder
  BY DEF StreamInv
<1>n. /\ sendSeq \in Nat /\ sendStart \in Nat /\ recvSeq \in Nat /\ recvStart \in Nat
      /\ Size \in Nat /\ Size > 0 /\ Sent \in Nat /\ m.seq \in Nat
  BY <1>0, Numbers, PayloadTypes
<1> DEFINE q == sendSlots[m.seq % Size]
<1>1. \A d \in net' : d \in net \/ (d = Data(m.seq, q) /\ q # 0)
  BY RestOfNet DEF OnResendRequest, IsFilled
<1>2. m.seq \in 1..Sent
  BY <1>0 DEF OnResendRequest, NetInv, MessageInv
<1>3. ASSUME q # 0 PROVE MessageInv(Data(m.seq, q))
  <2>1. q \in 1..Sent /\ q % Size = m.seq % Size
    BY <1>0, <1>n, <1>3, SlotOf DEF SendInv
  <2>2. q >= m.seq
    BY <1>0, <1>2, <1>3 DEF SendInv
  <2>3. Sent < recvStart + Size /\ recvStart <= recvSeq + 1
    BY <1>0 DEF SendInv, RecvInv
  <2> HIDE DEF q
  <2>4. ASSUME m.seq > recvSeq PROVE q = m.seq
    <3>1. q \in Nat /\ q < m.seq + Size /\ m.seq < q + Size
      BY <1>n, <2>1, <2>2, <2>3, <2>4
    <3> QED BY <1>n, <2>1, <3>1, SlotUnique
  <2> QED BY <1>2, <2>1, <2>4 DEF MessageInv, Data
<1>4. \A d \in net' : d \in net \/ MessageInv(d)
  BY <1>1, <1>3
<1> QED BY <1>4, OnlyMessages DEF OnResendRequest

\* onData puts a chunk into the window: it is the one its number says, because the
\* receiver has not handed that number over.
LEMMA DataStep ==
  ASSUME StreamInv, StreamTypeOK', NEW m \in net, OnData(m)
  PROVE  StreamInv'
<1>0. StreamTypeOK /\ SendInv /\ RecvInv /\ NetInv /\ InOrder
  BY DEF StreamInv
<1>n. /\ sendSeq \in Nat /\ sendStart \in Nat /\ recvSeq \in Nat /\ recvStart \in Nat
      /\ Size \in Nat /\ Size > 0 /\ Sent \in Nat /\ m.seq \in Nat /\ m.data \in Nat
  BY <1>0, Numbers, PayloadTypes
<1>1. /\ handling = 0 /\ net' \subseteq net
      /\ UNCHANGED <<sendVars, recvSeq, recvStart, handed>>
  BY RestOfNet DEF OnData
<1>2. UNCHANGED Sent
  BY <1>1 DEF Sent, sendVars
<1>3. SendInv' /\ InOrder'
  BY <1>0, <1>1, <1>2 DEF SendInv, InOrder, sendVars
<1>4. NetInv'
  BY <1>0, <1>1, <1>2 DEF NetInv, MessageInv
<1>5. recvStart = recvSeq + 1
  BY <1>0, <1>1 DEF RecvInv
<1>6. CASE ~Fits(recvStart, m.seq)
  <2>1. UNCHANGED <<recvSlots, handling>>
    BY <1>6 DEF OnData
  <2> QED BY <1>0, <1>1, <1>2, <1>3, <1>4, <1>5, <2>1 DEF StreamInv, RecvInv
<1>7. CASE Fits(recvStart, m.seq)
  <2>1. recvSlots' = [recvSlots EXCEPT ![m.seq % Size] = m.data] /\ handling' = m.seq
    BY <1>7 DEF OnData
  <2>2. m.seq >= recvStart /\ m.seq < recvStart + Size
    BY <1>7 DEF Fits, InWindow
  <2>3. m.seq \in 1..Sent /\ m.data = m.seq
    BY <1>0, <1>n, <1>5, <2>2 DEF OnData, NetInv, MessageInv
  <2>4. recvSlots \in [Indexes -> Nat] /\ m.seq % Size \in Indexes
    BY <1>0, <1>n, SlotOf DEF StreamTypeOK
  <2>5. ASSUME NEW s \in recvStart..(recvStart + Size - 1)
        PROVE  recvSlots'[s % Size] \in {0, s}
    <3>1. s \in Nat /\ s % Size \in Indexes /\ s < m.seq + Size /\ m.seq < s + Size
      BY <1>n, <2>2, SlotOf
    <3>2. CASE s % Size = m.seq % Size
      <4>1. s = m.seq
        BY <1>n, <3>1, <3>2, SlotUnique
      <4> QED BY <2>1, <2>3, <2>4, <4>1
    <3>3. CASE s % Size # m.seq % Size
      BY <1>0, <2>1, <2>4, <3>1, <3>3 DEF RecvInv
    <3> QED BY <3>2, <3>3
  <2>6. \A i \in Indexes : recvSlots'[i] <= Sent
    BY <1>0, <2>1, <2>3, <2>4 DEF RecvInv
  <2>7. RecvInv'
    BY <1>0, <1>n, <1>1, <1>2, <1>5, <2>1, <2>3, <2>5, <2>6 DEF RecvInv
  <2> QED BY <1>3, <1>4, <2>7 DEF StreamInv
<1> QED BY <1>6, <1>7

\* onData hands over the next chunk.
LEMMA HandOverStep ==
  ASSUME StreamInv, StreamTypeOK', HandOver
  PROVE  StreamInv'
<1>0. StreamTypeOK /\ SendInv /\ RecvInv /\ NetInv /\ InOrder
  BY DEF StreamInv
<1>n. /\ sendSeq \in Nat /\ sendStart \in Nat /\ recvSeq \in Nat /\ recvStart \in Nat
      /\ handling \in Nat /\ Size \in Nat /\ Size > 0 /\ Sent \in Nat
  BY <1>0, Numbers
<1> DEFINE next == recvSeq + 1
<1>1. /\ handling # 0 /\ next >= recvStart /\ next < recvStart + Size
      /\ recvSlots[next % Size] # 0 /\ handed' = Append(handed, recvSlots[next % Size])
      /\ recvSeq' = next
      /\ UNCHANGED <<sendVars, recvStart, recvSlots, handling, net>>
  BY DEF HandOver, IsFilled, InWindow
<1>p. progress' = TRUE
  BY DEF HandOver
<1>2. next % Size \in Indexes /\ next \in recvStart..(recvStart + Size - 1)
  BY <1>n, <1>1, SlotOf
<1>3. recvSlots[next % Size] = next /\ next <= Sent
  BY <1>0, <1>1, <1>2 DEF RecvInv
<1>4. UNCHANGED Sent
  BY <1>1 DEF Sent, sendVars
<1>5. SendInv'
  BY <1>0, <1>1, <1>4 DEF SendInv, sendVars
<1>6. RecvInv'
  <2>1. ~(handling' = 0 \/ ~progress')
    BY Zenon, <1>1, <1>p
  <2>2. /\ recvStart' >= 1 /\ recvStart' <= recvSeq' + 1 /\ recvSeq' < recvStart' + Size
        /\ recvSeq' <= Sent' /\ handling' <= Sent'
    BY <1>0, <1>n, <1>1, <1>3, <1>4 DEF RecvInv
  <2>3. /\ \A s \in recvStart'..(recvStart' + Size - 1) : recvSlots'[s % Size] \in {0, s}
        /\ \A i \in Indexes : recvSlots'[i] <= Sent'
    BY <1>0, <1>1, <1>4 DEF RecvInv
  <2> QED BY <2>1, <2>2, <2>3 DEF RecvInv
<1>7. NetInv'
  <2> SUFFICES ASSUME NEW m \in net PROVE MessageInv(m)'
    BY <1>1 DEF NetInv
  <2>1. MessageInv(m) /\ m.seq \in Nat
    BY <1>0, PayloadTypes DEF NetInv
  <2> QED BY <1>n, <1>1, <1>4, <2>1 DEF MessageInv
<1>8. InOrder'
  <2>1. handed \in Seq(Nat) /\ Len(handed) = recvSeq /\ \A k \in 1..recvSeq : handed[k] = k
    <3>1. handed \in Seq(Nat)
      BY <1>0 DEF StreamTypeOK
    <3> QED BY <1>0, <3>1 DEF InOrder
  <2>2. handed' = Append(handed, next)
    BY <1>1, <1>3
  <2>3. Len(handed') = next /\ DOMAIN handed' = 1..next
    BY <1>n, <2>1, <2>2
  <2>4. \A k \in 1..next : handed'[k] = k
    BY <1>n, <2>1, <2>2
  <2> QED BY <1>1, <2>3, <2>4 DEF InOrder
<1> QED BY <1>5, <1>6, <1>7, <1>8 DEF StreamInv

\* The end of onData: a number that enters the window takes over the slot of one that was
\* handed over, and that slot was cleared.
LEMMA FinishStep ==
  ASSUME StreamInv, StreamTypeOK', FinishData
  PROVE  StreamInv'
<1>0. StreamTypeOK /\ SendInv /\ RecvInv /\ NetInv /\ InOrder
  BY DEF StreamInv
<1>n. /\ sendSeq \in Nat /\ sendStart \in Nat /\ recvSeq \in Nat /\ recvStart \in Nat
      /\ handling \in Nat /\ Size \in Nat /\ Size > 0 /\ Sent \in Nat
      /\ recvSlots \in [Indexes -> Nat]
  BY <1>0, Numbers DEF StreamTypeOK
<1>1. /\ handling # 0 /\ handling' = 0
      /\ recvStart' = IF progress THEN recvSeq + 1 ELSE recvStart
      /\ recvSlots' = IF progress THEN Removed(recvSlots, recvStart, recvSeq) ELSE recvSlots
      /\ net' = net \cup {Ack(recvSeq)}
                   \cup (IF progress THEN {} ELSE {ResendRequest(s) : s \in Missing})
      /\ UNCHANGED <<sendVars, recvSeq, handed>>
  BY DEF FinishData, AckSeq
<1>2. UNCHANGED Sent
  BY <1>1 DEF Sent, sendVars
<1>3. recvStart' = recvSeq + 1 /\ recvStart' >= recvStart
  BY <1>0, <1>n, <1>1 DEF RecvInv
<1>4. SendInv'
  BY <1>0, <1>n, <1>1, <1>2, <1>3 DEF SendInv, sendVars
<1>5. RecvInv'
  <2>1. \A i \in Indexes : recvSlots'[i] \in {0, recvSlots[i]}
    BY <1>n, <1>1, RemovedSlots
  <2>2. \A i \in Indexes : recvSlots'[i] <= Sent
    BY <1>0, <1>n, <2>1 DEF RecvInv
  <2>3. ASSUME NEW s \in recvStart'..(recvStart' + Size - 1)
        PROVE  recvSlots'[s % Size] \in {0, s}
    <3>1. s \in Nat /\ s % Size \in Indexes /\ s >= recvStart
      BY <1>n, <1>3, SlotOf
    <3>2. CASE s < recvStart + Size
      <4>1. recvSlots[s % Size] \in {0, s}
        BY <1>0, <1>n, <3>1, <3>2 DEF RecvInv
      <4> QED BY <2>1, <3>1, <4>1
    <3>3. CASE ~(s < recvStart + Size)
      <4> DEFINE r == s - Size
      <4>1. r \in recvStart..recvSeq /\ r \in Nat /\ s = r + Size
        BY <1>n, <1>3, <3>1, <3>3
      <4>2. r % Size = s % Size
        BY <3>1, <4>1, SlotReused
      <4>3. progress
        BY <1>n, <1>1, <1>3, <4>1
      <4>4. recvSlots' = Removed(recvSlots, recvStart, recvSeq)
        BY <1>1, <4>3
      <4>5. r % Size \in Indexes
        BY <3>1, <4>2
      <4> HIDE DEF r
      <4>6. \A x \in recvStart..recvSeq : x % Size \in Indexes =>
              Removed(recvSlots, recvStart, recvSeq)[x % Size] = 0
        BY DEF Removed
      <4>7. Removed(recvSlots, recvStart, recvSeq)[r % Size] = 0
        BY <4>1, <4>5, <4>6
      <4> QED BY <4>2, <4>4, <4>7
    <3> QED BY <3>2, <3>3
  <2> QED BY <1>0, <1>n, <1>1, <1>2, <1>3, <2>2, <2>3 DEF RecvInv
<1>6. NetInv'
  <2> SUFFICES ASSUME NEW m \in net' PROVE MessageInv(m)'
    BY DEF NetInv
  <2>1. CASE m \in net
    <3>1. MessageInv(m) /\ m.seq \in Nat
      BY <1>0, <2>1, PayloadTypes DEF NetInv
    <3> QED BY <1>n, <1>1, <1>2, <1>3, <3>1 DEF MessageInv
  <2>2. CASE m = Ack(recvSeq)
    BY <1>n, <1>3, <2>2 DEF MessageInv, Ack
  <2>3. ASSUME NEW s \in Missing, m = ResendRequest(s) PROVE MessageInv(m)'
    <3>1. s \in 1..Sent
      BY <1>0, <1>n DEF Missing, RecvInv
    <3> QED BY <1>2, <2>3, <3>1 DEF MessageInv, ResendRequest
  <2> QED BY <1>1, <2>1, <2>2, <2>3
<1>7. InOrder'
  BY <1>0, <1>1 DEF InOrder
<1> QED BY <1>4, <1>5, <1>6, <1>7 DEF StreamInv

\* Every step keeps the invariant.
LEMMA StreamNext ==
  ASSUME StreamInv, [Next]_vars
  PROVE  StreamInv'
<1>1. CASE UNCHANGED vars
  <2>1. StreamTypeOK'
    BY <1>1 DEF StreamInv, StreamTypeOK, vars, sendVars, recvVars, writeVars, openVars
  <2> QED BY <1>1, <2>1, OnlyMessages DEF vars
<1>2. CASE Next
  <2>1. StreamTypeOK'
    BY <1>2, TypesNext DEF StreamInv
  <2>2. CASE TakeChunk \/ EndSendLoop
    BY <2>1, <2>2, SenderSteps
  <2>3. CASE SendChunk
    BY <2>1, <2>3, SendChunkStep
  <2>4. CASE CancelSender \/ CancelReceiver \/ Write
    BY <2>1, <2>4, OnlyMessages DEF CancelSender, CancelReceiver, Write
  <2>5. CASE HandOver
    BY <2>1, <2>5, HandOverStep
  <2>6. CASE FinishData
    BY <2>1, <2>6, FinishStep
  <2>7. ASSUME NEW m \in net, OnAck(m) \/ OnResendRequest(m) \/ OnData(m) \/ Lose(m)
        PROVE  StreamInv'
    <3>1. CASE OnAck(m)
      BY <2>1, <3>1, AckStep
    <3>2. CASE OnResendRequest(m)
      BY <2>1, <3>2, ResendStep
    <3>3. CASE OnData(m)
      BY <2>1, <3>3, DataStep
    <3>4. CASE Lose(m)
      BY <2>1, <3>4, OnlyMessages DEF Lose
    <3> QED BY <2>7, <3>1, <3>2, <3>3, <3>4
  <2> QED BY <1>2, <2>2, <2>3, <2>4, <2>5, <2>6, <2>7 DEF Next
<1> QED BY <1>1, <1>2

\* The invariant holds throughout.
LEMMA StreamAlways == Spec => []StreamInv
BY StreamInit, StreamNext, PTL DEF Spec

-----------------------------------------------------------------------------
\* The theorems.

\* The variables and messages of a stream keep their types.
THEOREM StreamTypes == Spec => []StreamTypeOK
<1>1. StreamInv => StreamTypeOK
  BY DEF StreamInv
<1> QED BY <1>1, StreamAlways, PTL

\* onData hands over every chunk once and in the order in which it was read, for windows
\* of any size and whatever is lost, repeated or overtaken on the way.
THEOREM ChunksInOrder == Spec => []InOrder
<1>1. StreamInv => InOrder
  BY DEF StreamInv
<1> QED BY <1>1, StreamAlways, PTL

\* The receiver's window never refuses a chunk for being too far ahead.
THEOREM ChunksFit == Spec => []WithinWindow
<1>1. ASSUME StreamInv PROVE WithinWindow
  <2>0. StreamTypeOK /\ SendInv /\ NetInv
    BY <1>1 DEF StreamInv
  <2> SUFFICES ASSUME NEW m \in net, m.type = "FRPData" PROVE m.seq < recvStart + Size
    BY DEF WithinWindow
  <2>1. recvStart \in Nat /\ Size \in Nat /\ Sent \in Nat /\ m.seq \in Nat
    BY <2>0, Numbers, PayloadTypes
  <2> QED BY <2>0, <2>1 DEF SendInv, NetInv, MessageInv
<1> QED BY <1>1, StreamAlways, PTL

\* sendDataLoop never waits with a chunk that is behind its window.
THEOREM LoopNotBehind == Spec => []NeverBehind
<1>1. ASSUME StreamInv PROVE NeverBehind
  <2>0. StreamTypeOK /\ SendInv /\ RecvInv
    BY <1>1 DEF StreamInv
  <2> SUFFICES ASSUME sendLoop = "wait" PROVE sendSeq >= sendStart
    BY DEF NeverBehind
  <2>1. sendSeq \in Nat /\ sendStart \in Nat /\ recvStart \in Nat /\ recvSeq \in Nat
    BY <2>0, Numbers
  <2>2. recvSeq <= sendSeq - 1
    BY <2>0 DEF Sent, RecvInv
  <2> QED BY <2>0, <2>1, <2>2 DEF SendInv, RecvInv
<1> QED BY <1>1, StreamAlways, PTL

\* What a send window that never moves back keeps: every chunk that was sent and is not
\* acknowledged, in its own slot.
Kept ==
  /\ Sent < sendStart + Size
  /\ \A s \in sendStart..Sent : sendSlots[s % Size] = s

\* A step keeps the unacknowledged chunks unless it applies an ack that was overtaken.
LEMMA KeptNext ==
  ASSUME ~StaleAcks, StreamInv, Kept, [Next]_vars
  PROVE  Kept'
<1>0. StreamTypeOK /\ SendInv /\ RecvInv /\ NetInv
  BY DEF StreamInv
<1>n. /\ sendSeq \in Nat /\ sendStart \in Nat /\ Size \in Nat /\ Size > 0 /\ Sent \in Nat
      /\ sendSlots \in [Indexes -> Nat]
  BY <1>0, Numbers DEF StreamTypeOK
<1>1. ASSUME UNCHANGED sendVars PROVE Kept'
  <2>1. UNCHANGED Sent
    BY <1>1 DEF Sent, sendVars
  <2> QED BY <1>1, <2>1 DEF Kept, sendVars
<1>2. CASE TakeChunk
  <2>1. /\ sendLoop = "select" /\ sendLoop' = "wait" /\ sendSeq' = sendSeq + 1
        /\ UNCHANGED <<sendStart, sendSlots>>
    BY <1>2 DEF TakeChunk
  <2>2. UNCHANGED Sent
    BY <1>n, <2>1 DEF Sent
  <2> QED BY <2>1, <2>2 DEF Kept
<1>3. CASE EndSendLoop
  <2>1. /\ sendLoop = "select" /\ sendLoop' = "ended"
        /\ UNCHANGED <<sendSeq, sendStart, sendSlots>>
    BY <1>3 DEF EndSendLoop
  <2>2. UNCHANGED Sent
    BY <2>1 DEF Sent
  <2> QED BY <2>1, <2>2 DEF Kept
<1>4. CASE SendChunk
  <2>1. /\ Sent = sendSeq - 1 /\ Sent' = sendSeq /\ sendSeq < sendStart + Size
        /\ sendSlots' = [sendSlots EXCEPT ![sendSeq % Size] = sendSeq]
        /\ sendStart' = sendStart
    BY <1>4 DEF SendChunk, Sent, InWindow
  <2>2. ASSUME NEW s \in sendStart..sendSeq PROVE sendSlots'[s % Size] = s
    <3>1. s \in Nat /\ s % Size \in Indexes /\ s < sendSeq + Size /\ sendSeq < s + Size
      BY <1>n, <2>1, SlotOf
    <3>2. CASE s % Size = sendSeq % Size
      <4>1. s = sendSeq
        BY <1>n, <3>1, <3>2, SlotUnique
      <4> QED BY <1>n, <2>1, <3>1, <4>1
    <3>3. CASE s % Size # sendSeq % Size
      <4>1. s \in sendStart..Sent
        BY <1>n, <2>1, <3>3
      <4>2. sendSlots[s % Size] = s
        BY <4>1 DEF Kept
      <4> QED BY <1>n, <2>1, <3>1, <3>3, <4>2
    <3> QED BY <3>2, <3>3
  <2> QED BY <2>1, <2>2 DEF Kept
<1>5. ASSUME NEW m \in net, OnAck(m) PROVE Kept'
  <2>0. m.seq \in Nat
    BY <1>0, PayloadTypes
  <2>1. m.seq >= sendStart - 1
    BY <1>5 DEF OnAck
  <2>2. /\ sendStart' = m.seq + 1 /\ sendSlots' = Removed(sendSlots, sendStart, m.seq)
        /\ UNCHANGED <<sendSeq, sendLoop>>
    BY <1>5 DEF OnAck, StartAfter, RemoveUpTo
  <2>3. Sent' = Sent
    BY <2>2 DEF Sent
  <2>4. ASSUME NEW s \in sendStart'..Sent PROVE sendSlots'[s % Size] = s
    <3>1. s \in Nat /\ s % Size \in Indexes /\ s > m.seq /\ s \in sendStart..Sent
      BY <1>n, <2>0, <2>1, <2>2, SlotOf
    <3>2. sendSlots[s % Size] = s /\ s < sendStart + Size
      BY <1>n, <3>1 DEF Kept
    <3>3. ASSUME NEW r \in sendStart..m.seq, r % Size = s % Size PROVE FALSE
      <4>1. r \in Nat /\ r < s + Size /\ s < r + Size /\ r < s
        BY <1>n, <2>0, <3>1, <3>2
      <4> QED BY <3>1, <3>3, <4>1, SlotUnique
    <3>4. Removed(sendSlots, sendStart, m.seq)[s % Size] = sendSlots[s % Size]
      <4>1. \A i \in Indexes : (\A r \in sendStart..m.seq : r % Size # i)
              => Removed(sendSlots, sendStart, m.seq)[i] = sendSlots[i]
        BY <1>n, RemovedSlots
      <4> QED BY <3>1, <3>3, <4>1
    <3> QED BY <2>2, <3>2, <3>4
  <2>5. Sent < sendStart' + Size
    BY <1>n, <2>0, <2>1, <2>2 DEF Kept
  <2> QED BY <2>2, <2>3, <2>4, <2>5 DEF Kept
<1>6. CASE CancelSender \/ HandOver \/ FinishData \/ Write \/ CancelReceiver
  BY <1>1, <1>6 DEF CancelSender, HandOver, FinishData, Write, CancelReceiver
<1>7. ASSUME NEW m \in net, OnResendRequest(m) \/ OnData(m) \/ Lose(m) PROVE Kept'
  BY <1>1, <1>7 DEF OnResendRequest, OnData, Lose
<1>8. CASE UNCHANGED vars
  BY <1>1, <1>8 DEF vars
<1> QED BY <1>2, <1>3, <1>4, <1>5, <1>6, <1>7, <1>8 DEF Next

\* As long as no ack is applied after a newer one, a chunk the other end still waits for
\* is in the send window, so that a resend request for it is answered.
THEOREM UnackedResendable ==
  ASSUME ~StaleAcks
  PROVE  Spec => []Resendable
<1>1. Init => Kept
  BY WindowAssumption DEF Init, Kept, Sent
<1>2. StreamInv /\ Kept /\ [Next]_vars => Kept'
  BY KeptNext
<1>3. ASSUME StreamInv, Kept PROVE Resendable
  <2>0. StreamTypeOK /\ SendInv /\ RecvInv
    BY <1>3 DEF StreamInv
  <2>n. /\ sendStart \in Nat /\ recvSeq \in Nat /\ recvStart \in Nat
        /\ Size \in Nat /\ Sent \in Nat
    BY <2>0, Numbers
  <2> SUFFICES ASSUME NEW s \in recvSeq + 1..Sent
               PROVE  IsFilled(sendStart, sendSlots, s) /\ sendSlots[s % Size] = s
    BY DEF Resendable
  <2>1. s \in sendStart..Sent /\ s # 0 /\ s < sendStart + Size
    BY <1>3, <2>0, <2>n DEF SendInv, RecvInv, Kept
  <2>2. sendSlots[s % Size] = s
    BY <1>3, <2>1 DEF Kept
  <2> QED BY <2>n, <2>1, <2>2 DEF IsFilled, InWindow
<1> QED BY <1>1, <1>2, <1>3, StreamAlways, PTL DEF Spec
-----------------------------------------------------------------------------
\* The refinement.

\* A chunk that sendDataLoop reads has credit: the loop has sent the one before it, which
\* fitted into the receiver's window.
LEMMA TakeIsTake ==
  ASSUME StreamInv, TakeChunk
  PROVE  P!Take
<1>0. StreamTypeOK /\ SendInv /\ RecvInv
  BY DEF StreamInv
<1>1. /\ sendSeq \in Nat /\ recvSeq \in Nat /\ recvStart \in Nat /\ Size \in Nat
  BY <1>0, Numbers
<1>2. Sent = sendSeq
  BY DEF TakeChunk, Sent
<1>3. sendSeq - recvSeq <= Size
  BY <1>0, <1>1, <1>2 DEF SendInv, RecvInv
<1> QED BY <1>3 DEF TakeChunk, P!Take, recvVars, writeVars

\* The chunk that a round of onData hands over is the next one.
LEMMA HandOverIsArrive ==
  ASSUME StreamInv, HandOver
  PROVE  P!Arrive
<1>0. StreamTypeOK /\ SendInv /\ RecvInv
  BY DEF StreamInv
<1>n. /\ sendSeq \in Nat /\ recvSeq \in Nat /\ recvStart \in Nat /\ Size \in Nat
      /\ Sent \in Nat /\ Sent <= sendSeq
  BY <1>0, Numbers
<1> DEFINE next == recvSeq + 1
<1>1. /\ next >= recvStart /\ next < recvStart + Size /\ recvSlots[next % Size] # 0
      /\ recvSeq' = next
      /\ UNCHANGED <<sendVars, written>>
  BY DEF HandOver, IsFilled, InWindow
<1>2. next % Size \in Indexes /\ next \in recvStart..(recvStart + Size - 1)
  BY <1>n, <1>1, SlotOf
<1>3. recvSlots[next % Size] = next /\ next <= Sent
  BY <1>0, <1>1, <1>2 DEF RecvInv
<1>4. writeChan' = IF Len(writeChan) < WriteCap THEN Append(writeChan, recvSeq') ELSE writeChan
  BY <1>1, <1>3 DEF HandOver
<1>5. recvSeq < sendSeq
  BY <1>n, <1>3
<1> QED BY <1>1, <1>4, <1>5 DEF P!Arrive, sendVars

\* For windows and queues of any size, and under any loss, repetition and reordering of its
\* messages, FRPStream implements Pipe: the messages, windows and stubs of FRPStreamStub.go
\* are a pipe that keeps order and bounds what is on its way.
THEOREM StreamIsPipe == Spec => IsPipe
<1>1. Init => P!Init
  BY DEF Init, P!Init
<1>2. StreamInv /\ [Next]_vars => [P!Next]_(P!vars)
  <2> SUFFICES ASSUME StreamInv, [Next]_vars PROVE [P!Next]_(P!vars)
    OBVIOUS
  <2>1. CASE TakeChunk
    BY <2>1, TakeIsTake DEF P!Next
  <2>2. CASE HandOver
    BY <2>2, HandOverIsArrive DEF P!Next
  <2>3. CASE Write
    BY <2>3 DEF Write, P!Next, P!Give, sendVars, recvVars
  <2>4. CASE SendChunk \/ CancelSender \/ EndSendLoop \/ FinishData \/ CancelReceiver
    BY <2>4 DEF SendChunk, CancelSender, EndSendLoop, FinishData, CancelReceiver, P!vars,
                sendVars, recvVars, writeVars
  <2>5. ASSUME NEW m \in net, OnAck(m) \/ OnResendRequest(m) \/ OnData(m) \/ Lose(m)
        PROVE  UNCHANGED P!vars
    BY <2>5 DEF OnAck, OnResendRequest, OnData, Lose, P!vars, sendVars, recvVars, writeVars
  <2>6. CASE UNCHANGED vars
    BY <2>6 DEF vars, P!vars, sendVars, recvVars, writeVars
  <2> QED BY <2>1, <2>2, <2>3, <2>4, <2>5, <2>6 DEF Next
<1> QED BY <1>1, <1>2, StreamAlways, PTL DEF Spec, IsPipe, P!Spec
=============================================================================
