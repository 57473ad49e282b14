-------------------------- MODULE FileTransferProofs --------------------------
(***************************************************************************)
(* Proofs about GoBackN, for every window, with and without rejects and    *)
(* whatever is lost; and about FileTransfer, which puts files at its ends, *)
(* for every number of the last packet and with either receiver.           *)
(***************************************************************************)
EXTENDS FileTransfer, SequenceTheorems, FiniteSetTheorems, TLAPS

\* The kept packets are those from the oldest one without an acknowledgement up
\* to, but not including, number high.
Keeps(high) ==
  /\ Buffered = lastAckSeqNo..(high - 1)
  /\ nextSendSeqNo \in lastAckSeqNo..high
  /\ high <= lastAckSeqNo + window
  /\ lastReceivedSeqNo + 1 \in lastAckSeqNo..high
  /\ \A i \in DOMAIN data : data[i] < high

BufferInv == \E high \in Nat : Keeps(high)

\* The window has room whenever a packet is due.
RoomInv == nextSendTimer => nextSendSeqNo < lastAckSeqNo + window

\* Acknowledgements arrive in order, and none is older than the last one.
AcksInv ==
  /\ \A i \in DOMAIN acks : acks[i] \in lastAckSeqNo..(lastReceivedSeqNo + 1)
  /\ \A i, j \in DOMAIN acks : i < j => acks[i] <= acks[j]

\* Every packet sent since the sender last went back has a finite timeout.
TimeoutInv == \A s \in Buffered : s < nextSendSeqNo => packetBuffer[s]

IInv == TypeOK /\ BufferInv /\ RoomInv /\ AcksInv /\ TimeoutInv /\ NeverAsleep

USE GoBackNAssumption

------------------------------------------------------------------------------
(* Sequences *)

\* Taking the first element off keeps what holds of all of them.
LEMMA TailOf ==
  ASSUME NEW S, NEW s \in Seq(S), s # <<>>
  PROVE  /\ Head(s) = s[1] /\ 1 \in DOMAIN s
         /\ Tail(s) \in Seq(S)
         /\ \A i \in DOMAIN Tail(s) : i + 1 \in DOMAIN s /\ Tail(s)[i] = s[i + 1]
<1>1. Len(s) \in Nat \ {0} /\ DOMAIN s = 1..Len(s)
  BY EmptySeq, LenProperties
<1>2. Tail(s) \in Seq(S) /\ Len(Tail(s)) = Len(s) - 1
  BY HeadTailProperties
<1>3. \A i \in 1..Len(Tail(s)) : Tail(s)[i] = s[i + 1]
  BY HeadTailProperties
<1>4. DOMAIN Tail(s) = 1..(Len(s) - 1)
  BY <1>2, LenProperties
<1>. QED
  BY <1>1, <1>2, <1>3, <1>4, HeadTailProperties

\* Appending an element adds one last position.
LEMMA Appended ==
  ASSUME NEW S, NEW s \in Seq(S), NEW n \in S
  PROVE  /\ Append(s, n) \in Seq(S)
         /\ DOMAIN Append(s, n) = DOMAIN s \cup {Len(s) + 1}
         /\ Append(s, n)[Len(s) + 1] = n
         /\ \A i \in DOMAIN s : Append(s, n)[i] = s[i] /\ i \in Nat /\ i < Len(s) + 1
<1>1. Len(s) \in Nat /\ DOMAIN s = 1..Len(s)
  BY LenProperties
<1>2. Append(s, n) \in Seq(S) /\ Len(Append(s, n)) = Len(s) + 1
  BY AppendProperties
<1>3. DOMAIN Append(s, n) = 1..(Len(s) + 1)
  BY <1>2, LenProperties
<1>. QED
  BY <1>1, <1>2, <1>3, AppendProperties

------------------------------------------------------------------------------
(* The invariant *)

\* The state after the simulator has initialised both applications is good.
LEMMA Initially == Init => IInv
<1>. SUFFICES ASSUME Init PROVE IInv
  OBVIOUS
<1>1. Buffered = {} /\ packetBuffer \in [Buffered -> BOOLEAN]
  BY DEF Init, Buffered
<1>2. data = <<>> /\ acks = <<>> /\ data \in Seq(Nat) /\ acks \in Seq(Nat)
  BY EmptySeq DEF Init
<1>3. DOMAIN data = {} /\ DOMAIN acks = {}
  BY <1>2, EmptySeq, LenProperties
<1>4. TypeOK
  BY <1>1, <1>2 DEF Init, TypeOK
<1>5. Keeps(0)
  BY <1>1, <1>3 DEF Init, Keeps
<1>. QED
  BY <1>1, <1>3, <1>4, <1>5
  DEF Init, IInv, BufferInv, RoomInv, AcksInv, TimeoutInv, NeverAsleep

\* Sending a packet, for the first time or again.
LEMMA SendPacketKeeps ==
  ASSUME IInv, SendPacket
  PROVE  IInv'
<1>1. PICK high \in Nat : Keeps(high)
  BY DEF IInv, BufferInv
<1> DEFINE n == nextSendSeqNo
<1>0. PICK newHigh \in Nat : newHigh = IF n = high THEN high + 1 ELSE high
  OBVIOUS
<1>2. n \in Nat /\ n < lastAckSeqNo + window /\ lastAckSeqNo \in Nat /\ window \in Nat
  BY DEF IInv, TypeOK, RoomInv, SendPacket
<1>3. Buffered' = Buffered \cup {n}
  BY DEF SendPacket, Buffered
<1>4. \A s \in Buffered' : packetBuffer'[s] = (s = n \/ packetBuffer[s])
  BY <1>3 DEF SendPacket, Buffered
<1>5. /\ data' \in Seq(Nat)
      /\ \A i \in DOMAIN data' :
           (i \in DOMAIN data /\ data'[i] = data[i]) \/ data'[i] = n
  BY <1>2, Appended DEF SendPacket, IInv, TypeOK
<1>6. TypeOK'
  <2>1. packetBuffer' \in [Buffered' -> BOOLEAN]
    BY <1>3 DEF SendPacket, IInv, TypeOK, Buffered
  <2>. QED
    BY <1>2, <1>3, <1>5, <2>1 DEF SendPacket, IInv, TypeOK
<1>7. Keeps(newHigh)'
  <2>1. Buffered' = lastAckSeqNo'..(newHigh - 1)
    BY <1>0, <1>1, <1>2, <1>3 DEF Keeps, SendPacket
  <2>2. \A i \in DOMAIN data' : data'[i] < newHigh
    <3>1. n < newHigh /\ high <= newHigh
      BY <1>0, <1>1, <1>2 DEF Keeps
    <3>2. ASSUME NEW i \in DOMAIN data PROVE data[i] \in Nat /\ data[i] < newHigh
      <4>1. data[i] \in Nat
        BY ElementOfSeq, LenProperties DEF IInv, TypeOK
      <4>. QED
        BY <1>1, <3>1, <4>1 DEF Keeps
    <3>. QED
      BY <1>5, <3>1, <3>2
  <2>3. nextSendSeqNo' \in lastAckSeqNo..newHigh /\ newHigh <= lastAckSeqNo + window
    BY <1>0, <1>1, <1>2 DEF Keeps, SendPacket
  <2>4. lastReceivedSeqNo + 1 \in lastAckSeqNo..newHigh
    BY <1>0, <1>1, <1>2 DEF Keeps
  <2>. QED
    BY <2>1, <2>2, <2>3, <2>4 DEF Keeps, SendPacket
<1>8. TimeoutInv'
  <2>1. ASSUME NEW s \in Buffered', s < nextSendSeqNo', s # n PROVE packetBuffer[s]
    <3>1. s \in Buffered /\ s \in Nat
      BY <1>3, <2>1 DEF IInv, TypeOK
    <3>2. s < n
      BY <1>2, <2>1, <3>1 DEF SendPacket
    <3>. QED
      BY <3>1, <3>2 DEF IInv, TimeoutInv
  <2>. QED
    BY <1>4, <2>1 DEF TimeoutInv
<1>. QED
  BY <1>2, <1>6, <1>7, <1>8
  DEF SendPacket, IInv, BufferInv, RoomInv, AcksInv, NeverAsleep

\* Going back after a timeout.
LEMMA TimeoutKeeps ==
  ASSUME IInv, Timeout
  PROVE  IInv'
<1>1. PICK high \in Nat : Keeps(high)
  BY DEF IInv, BufferInv
<1>2. Buffered' = Buffered /\ packetBuffer' \in [Buffered' -> BOOLEAN]
  BY DEF Timeout, Buffered
<1>3. TypeOK'
  BY <1>2 DEF Timeout, IInv, TypeOK
<1>4. Keeps(high)'
  BY <1>1, <1>2 DEF Timeout, IInv, TypeOK, Keeps
<1>5. TimeoutInv'
  BY <1>1, <1>2 DEF TimeoutInv, Timeout, Keeps, IInv, TypeOK
<1>. QED
  BY <1>3, <1>4, <1>5
  DEF Timeout, IInv, TypeOK, BufferInv, RoomInv, AcksInv, NeverAsleep

\* The rest of the acknowledgements is in order after the first is taken off.
LEMMA RestInOrder ==
  ASSUME IInv, acks # <<>>
  PROVE  /\ Tail(acks) \in Seq(Nat)
         /\ Head(acks) \in lastAckSeqNo..(lastReceivedSeqNo + 1)
         /\ \A i \in DOMAIN Tail(acks) :
              Tail(acks)[i] \in Head(acks)..(lastReceivedSeqNo + 1)
         /\ \A i, j \in DOMAIN Tail(acks) : i < j => Tail(acks)[i] <= Tail(acks)[j]
<1>1. acks \in Seq(Nat) /\ lastAckSeqNo \in Nat /\ lastReceivedSeqNo \in Int
  BY DEF IInv, TypeOK
<1>2. DOMAIN acks = 1..Len(acks) /\ DOMAIN Tail(acks) = 1..Len(Tail(acks))
      /\ Len(acks) \in Nat /\ Len(Tail(acks)) \in Nat
  BY <1>1, TailOf, LenProperties
<1>3. \A i \in DOMAIN acks : acks[i] \in lastAckSeqNo..(lastReceivedSeqNo + 1)
  BY DEF IInv, AcksInv
<1>4. \A i, j \in DOMAIN acks : i < j => acks[i] <= acks[j]
  BY DEF IInv, AcksInv
<1>5. Head(acks) = acks[1] /\ 1 \in DOMAIN acks
  BY <1>1, TailOf
<1>6. ASSUME NEW i \in DOMAIN Tail(acks)
      PROVE  i \in Nat /\ 1 < i + 1 /\ i + 1 \in DOMAIN acks /\ Tail(acks)[i] = acks[i + 1]
  BY <1>1, <1>2, TailOf
<1>7. ASSUME NEW i \in DOMAIN Tail(acks)
      PROVE  Tail(acks)[i] \in Head(acks)..(lastReceivedSeqNo + 1)
  BY <1>1, <1>3, <1>4, <1>5, <1>6
<1>8. ASSUME NEW i \in DOMAIN Tail(acks), NEW j \in DOMAIN Tail(acks), i < j
      PROVE  Tail(acks)[i] <= Tail(acks)[j]
  <2>1. i + 1 < j + 1
    BY <1>6, <1>8
  <2>. QED
    BY <1>4, <1>6, <2>1
<1>. QED
  BY <1>1, <1>3, <1>5, <1>7, <1>8, TailOf

\* A reject.
LEMMA RejectKeeps ==
  ASSUME IInv, acks # <<>>, acks' = Tail(acks), Reject(Head(acks)),
         UNCHANGED <<lastReceivedSeqNo, data>>
  PROVE  IInv'
<1>1. PICK high \in Nat : Keeps(high)
  BY DEF IInv, BufferInv
<1>2. Buffered' = Buffered
  BY DEF Reject, Buffered
<1>3. TypeOK'
  BY <1>2, RestInOrder DEF Reject, IInv, TypeOK
<1>4. Keeps(high)'
  BY <1>1, <1>2 DEF Reject, IInv, TypeOK, Keeps
<1>5. TimeoutInv'
  BY <1>1, <1>2 DEF TimeoutInv, Reject, Keeps, IInv, TypeOK
<1>6. AcksInv'
  BY RestInOrder DEF AcksInv, Reject
<1>. QED
  BY <1>3, <1>4, <1>5, <1>6
  DEF Reject, IInv, TypeOK, BufferInv, RoomInv, NeverAsleep

\* A new acknowledgement.
LEMMA AckKeeps ==
  ASSUME IInv, acks # <<>>, acks' = Tail(acks), Ack(Head(acks)),
         UNCHANGED <<lastReceivedSeqNo, data>>
  PROVE  IInv'
<1>1. PICK high \in Nat : Keeps(high)
  BY DEF IInv, BufferInv
<1> DEFINE e == Head(acks)
<1>2. e \in Nat /\ e > lastAckSeqNo /\ e <= lastReceivedSeqNo + 1 /\ e <= high
      /\ lastAckSeqNo \in Nat /\ nextSendSeqNo \in Nat /\ lastReceivedSeqNo \in Int
      /\ window \in Nat \ {0}
  BY <1>1, RestInOrder DEF IInv, TypeOK, Keeps, Ack
<1>3. Buffered' = Buffered \ (lastAckSeqNo..(e - 1))
  BY DEF Ack, Buffered
<1>4. \A s \in Buffered' : s \in Buffered /\ packetBuffer'[s] = packetBuffer[s]
  BY <1>3 DEF Ack, Buffered
<1>5. TypeOK'
  <2>1. packetBuffer' \in [Buffered' -> BOOLEAN]
    BY <1>3 DEF Ack, IInv, TypeOK, Buffered
  <2>2. nextSendSeqNo' \in Nat /\ lastAckSeqNo' \in Nat /\ nextSendTimer' \in BOOLEAN
        /\ expirationTimer' \in BOOLEAN
    BY <1>2 DEF Ack
  <2>3. Buffered' \subseteq Nat
    BY <1>3 DEF IInv, TypeOK
  <2>4. acks' \in Seq(Nat)
    BY RestInOrder
  <2>. QED
    BY <2>1, <2>2, <2>3, <2>4 DEF IInv, TypeOK
<1>6. Keeps(high)'
  <2>1. Buffered' = e..(high - 1)
    BY <1>1, <1>2, <1>3 DEF Keeps
  <2>. QED
    BY <1>1, <1>2, <2>1 DEF Keeps, Ack
<1>7. RoomInv'
  BY <1>1, <1>2 DEF RoomInv, Keeps, Ack
<1>8. AcksInv'
  BY RestInOrder DEF AcksInv, Ack
<1>9. TimeoutInv'
  <2>1. ASSUME NEW s \in Buffered', s < nextSendSeqNo' PROVE packetBuffer'[s]
    <3>1. s >= e /\ s \in Nat
      BY <1>1, <1>2, <1>3 DEF Keeps
    <3>2. s < nextSendSeqNo
      BY <1>2, <2>1, <3>1 DEF Ack
    <3>. QED
      BY <1>4, <3>2 DEF TimeoutInv, IInv
  <2>. QED
    BY <2>1 DEF TimeoutInv
<1>. QED
  BY <1>5, <1>6, <1>7, <1>8, <1>9 DEF IInv, BufferInv, NeverAsleep, Ack

\* An acknowledgement arrives, intact or not.
LEMMA ReceiveAckKeeps ==
  ASSUME IInv, NEW hasBitError \in BOOLEAN, ReceiveAck(hasBitError)
  PROVE  IInv'
<1>1. CASE hasBitError /\ UNCHANGED senderVars
  <2>1. TypeOK'
    BY <1>1, RestInOrder DEF ReceiveAck, IInv, TypeOK, senderVars, Buffered
  <2>2. AcksInv'
    <3>1. lastAckSeqNo \in Nat /\ lastReceivedSeqNo \in Int
      BY DEF IInv, TypeOK
    <3>2. /\ Head(acks) \in lastAckSeqNo..(lastReceivedSeqNo + 1)
          /\ \A i \in DOMAIN Tail(acks) :
               Tail(acks)[i] \in Head(acks)..(lastReceivedSeqNo + 1)
      BY RestInOrder DEF ReceiveAck
    <3>3. \A i \in DOMAIN Tail(acks) :
            Tail(acks)[i] \in lastAckSeqNo..(lastReceivedSeqNo + 1)
      BY <3>1, <3>2
    <3>. QED
      BY <1>1, <3>3, RestInOrder DEF ReceiveAck, AcksInv, senderVars
  <2>. QED
    BY <1>1, <2>1, <2>2
    DEF ReceiveAck, IInv, senderVars, BufferInv, Keeps, RoomInv, TimeoutInv,
        NeverAsleep, Buffered
<1>2. CASE Reject(Head(acks))
  BY <1>2, RejectKeeps DEF ReceiveAck
<1>3. CASE Ack(Head(acks))
  BY <1>3, AckKeeps DEF ReceiveAck
<1>. QED
  BY <1>1, <1>2, <1>3 DEF ReceiveAck

\* A data packet arrives, intact or not.
LEMMA ReceiveDataKeeps ==
  ASSUME IInv, NEW hasBitError \in BOOLEAN, ReceiveData(hasBitError)
  PROVE  IInv'
<1>1. PICK high \in Nat : Keeps(high)
  BY DEF IInv, BufferInv
<1> DEFINE n == Head(data)
<1>2. data' \in Seq(Nat) /\ n \in Nat /\ n < high
      /\ \A i \in DOMAIN data' : data'[i] < high
  BY <1>1, TailOf DEF ReceiveData, IInv, TypeOK, Keeps
<1>3. lastAckSeqNo \in Nat /\ lastReceivedSeqNo \in Int /\ acks \in Seq(Nat)
      /\ lastReceivedSeqNo + 1 \in Nat
  BY DEF IInv, TypeOK
<1>4. UNCHANGED senderVars /\ Buffered' = Buffered
  BY DEF ReceiveData, senderVars, Buffered
<1>5. CASE UNCHANGED <<lastReceivedSeqNo, acks>>
  <2>1. Keeps(high)'
    BY <1>1, <1>2, <1>4, <1>5 DEF Keeps, senderVars
  <2>2. TypeOK'
    BY <1>2, <1>4, <1>5 DEF IInv, TypeOK, senderVars
  <2>. QED
    BY <1>4, <1>5, <2>1, <2>2
    DEF IInv, BufferInv, RoomInv, AcksInv, TimeoutInv, NeverAsleep, senderVars
<1>6. CASE /\ n = lastReceivedSeqNo + 1 /\ lastReceivedSeqNo' = n
           /\ acks' = Append(acks, n + 1)
  <2>1. Keeps(high)'
    BY <1>1, <1>2, <1>3, <1>4, <1>6 DEF Keeps, senderVars
  <2>2. acks' \in Seq(Nat)
    BY <1>2, <1>3, <1>6, Appended
  <2>3. TypeOK'
    BY <1>2, <1>4, <1>6, <2>2 DEF IInv, TypeOK, senderVars
  <2>4. AcksInv'
    <3>1. lastAckSeqNo' = lastAckSeqNo /\ lastAckSeqNo <= n
      BY <1>1, <1>3, <1>4, <1>6 DEF Keeps, senderVars
    <3>2. \A i \in DOMAIN acks : acks[i] \in lastAckSeqNo..n
      BY <1>3, <1>6 DEF IInv, AcksInv
    <3>3. \A i, j \in DOMAIN acks : i < j => acks[i] <= acks[j]
      BY DEF IInv, AcksInv
    <3>4. /\ DOMAIN acks' = DOMAIN acks \cup {Len(acks) + 1}
          /\ acks'[Len(acks) + 1] = n + 1
          /\ \A i \in DOMAIN acks : acks'[i] = acks[i] /\ i \in Nat /\ i < Len(acks) + 1
      BY <1>2, <1>3, <1>6, Appended
    <3>5. Len(acks) + 1 \in Nat
      BY <1>3, LenProperties
    <3>. QED
      BY <1>2, <1>3, <1>6, <3>1, <3>2, <3>3, <3>4, <3>5, SMTT(30) DEF AcksInv
  <2>. QED
    BY <1>4, <2>1, <2>3, <2>4
    DEF IInv, BufferInv, RoomInv, TimeoutInv, NeverAsleep, senderVars
<1>7. CASE acks' = Append(acks, lastReceivedSeqNo + 1) /\ UNCHANGED lastReceivedSeqNo
  <2>1. Keeps(high)'
    BY <1>1, <1>2, <1>3, <1>4, <1>7 DEF Keeps, senderVars
  <2>2. acks' \in Seq(Nat)
    BY <1>3, <1>7, Appended
  <2>3. TypeOK'
    BY <1>2, <1>4, <1>7, <2>2 DEF IInv, TypeOK, senderVars
  <2>4. AcksInv'
    <3>1. lastAckSeqNo' = lastAckSeqNo /\ lastAckSeqNo <= lastReceivedSeqNo + 1
      BY <1>1, <1>3, <1>4 DEF Keeps, senderVars
    <3>2. \A i \in DOMAIN acks : acks[i] \in lastAckSeqNo..(lastReceivedSeqNo + 1)
      BY DEF IInv, AcksInv
    <3>3. \A i, j \in DOMAIN acks : i < j => acks[i] <= acks[j]
      BY DEF IInv, AcksInv
    <3>4. /\ DOMAIN acks' = DOMAIN acks \cup {Len(acks) + 1}
          /\ acks'[Len(acks) + 1] = lastReceivedSeqNo + 1
          /\ \A i \in DOMAIN acks : acks'[i] = acks[i] /\ i \in Nat /\ i < Len(acks) + 1
      BY <1>3, <1>7, Appended
    <3>5. Len(acks) + 1 \in Nat
      BY <1>3, LenProperties
    <3>. QED
      BY <1>3, <1>7, <3>1, <3>2, <3>3, <3>4, <3>5 DEF AcksInv
  <2>. QED
    BY <1>4, <2>1, <2>3, <2>4
    DEF IInv, BufferInv, RoomInv, TimeoutInv, NeverAsleep, senderVars
<1>8. CASE n = lastReceivedSeqNo + 1 /\ lastReceivedSeqNo' = n /\ UNCHANGED acks
  <2>1. Keeps(high)'
    BY <1>1, <1>2, <1>3, <1>4, <1>8 DEF Keeps, senderVars
  <2>2. TypeOK'
    BY <1>2, <1>4, <1>8 DEF IInv, TypeOK, senderVars
  <2>3. AcksInv'
    <3>1. lastAckSeqNo' = lastAckSeqNo /\ lastAckSeqNo <= n
      BY <1>1, <1>3, <1>4, <1>8 DEF Keeps, senderVars
    <3>2. \A i \in DOMAIN acks : acks[i] \in lastAckSeqNo..n
      BY <1>3, <1>8 DEF IInv, AcksInv
    <3>3. \A i, j \in DOMAIN acks : i < j => acks[i] <= acks[j]
      BY DEF IInv, AcksInv
    <3>. QED
      BY <1>2, <1>3, <1>8, <3>1, <3>2, <3>3 DEF AcksInv
  <2>. QED
    BY <1>4, <2>1, <2>2, <2>3
    DEF IInv, BufferInv, RoomInv, TimeoutInv, NeverAsleep, senderVars
<1>. QED
  BY <1>5, <1>6, <1>7, <1>8 DEF ReceiveData, handleData, sendAck

\* The invariant holds in every reachable state.
THEOREM Invariance == Spec => []IInv
<1>1. Init => IInv
  BY Initially
<1>2. IInv /\ [Next]_vars => IInv'
  <2>. SUFFICES ASSUME IInv, [Next]_vars PROVE IInv'
    OBVIOUS
  <2>1. CASE SendPacket
    BY <2>1, SendPacketKeeps
  <2>2. CASE Timeout
    BY <2>2, TimeoutKeeps
  <2>3. ASSUME NEW b \in BOOLEAN, ReceiveAck(b) PROVE IInv'
    BY <2>3, ReceiveAckKeeps
  <2>4. ASSUME NEW b \in BOOLEAN, ReceiveData(b) PROVE IInv'
    BY <2>4, ReceiveDataKeeps
  <2>5. CASE UNCHANGED vars
    BY <2>5 DEF vars, senderVars, IInv, TypeOK, BufferInv, Keeps, RoomInv, AcksInv,
                TimeoutInv, NeverAsleep, Buffered
  <2>. QED
    BY <2>1, <2>2, <2>3, <2>4, <2>5 DEF Next
<1>. QED
  BY <1>1, <1>2, PTL DEF Spec

------------------------------------------------------------------------------
(* What follows from it *)

\* Every variable keeps its type.
THEOREM TypeCorrect == Spec => []TypeOK
<1>1. IInv => TypeOK
  BY DEF IInv
<1>. QED
  BY <1>1, Invariance, PTL

\* With packets in its buffer, the sender has something scheduled.
THEOREM AlwaysScheduled == Spec => []NeverAsleep
<1>1. IInv => NeverAsleep
  BY DEF IInv
<1>. QED
  BY <1>1, Invariance, PTL

\* The size of an interval that may be empty.
LEMMA IntervalSize ==
  ASSUME NEW a \in Nat, NEW h \in Nat, a <= h
  PROVE  IsFiniteSet(a..(h - 1)) /\ Cardinality(a..(h - 1)) = h - a
<1> DEFINE b == h - 1
<1>1. b \in Int /\ (a > b => h - a = 0) /\ b - a + 1 = h - a
  OBVIOUS
<1> HIDE DEF b
<1>2. IsFiniteSet(a..b) /\ Cardinality(a..b) = IF a > b THEN 0 ELSE b - a + 1
  BY <1>1, FS_Interval
<1>3. Cardinality(a..b) = h - a
  BY <1>1, <1>2
<1>. QED
  BY <1>2, <1>3 DEF b

\* The number of kept packets.
LEMMA Kept ==
  ASSUME IInv, NEW high \in Nat, Keeps(high)
  PROVE  IsFiniteSet(Buffered) /\ lastAckSeqNo + Cardinality(Buffered) = high
<1>1. lastAckSeqNo \in Nat /\ lastAckSeqNo <= high
  BY DEF IInv, TypeOK, Keeps
<1>2. Buffered = lastAckSeqNo..(high - 1)
  BY DEF Keeps
<1>3. IsFiniteSet(lastAckSeqNo..(high - 1))
      /\ Cardinality(lastAckSeqNo..(high - 1)) = high - lastAckSeqNo
  BY <1>1, IntervalSize
<1>. QED
  BY <1>1, <1>2, <1>3

\* The assertions of the sender about numbers, buffer and window are consequences.
LEMMA Asserted == IInv => AssertsHold
<1>1. ASSUME IInv PROVE AssertsHold
  <2>1. PICK high \in Nat : Keeps(high)
    BY <1>1 DEF IInv, BufferInv
  <2>2. lastAckSeqNo \in Nat /\ nextSendSeqNo \in Nat /\ window \in Nat \ {0}
    BY <1>1 DEF IInv, TypeOK
  <2>3. ASSUME nextSendTimer
        PROVE  /\ nextSendSeqNo < lastAckSeqNo + window
               /\ Buffered # {} => \E s \in Buffered : nextSendSeqNo >= s
               /\ Cardinality(Buffered \cup {nextSendSeqNo}) <= window
    <3>1. nextSendSeqNo < lastAckSeqNo + window
      BY <1>1, <2>3 DEF IInv, RoomInv
    <3>2. ASSUME Buffered # {} PROVE \E s \in Buffered : nextSendSeqNo >= s
      <4>1. lastAckSeqNo \in Buffered
        BY <2>1, <2>2, <3>2 DEF Keeps
      <4>. QED
        BY <2>1, <2>2, <4>1 DEF Keeps
    <3>3. Buffered \cup {nextSendSeqNo} \subseteq lastAckSeqNo..(lastAckSeqNo + window - 1)
      BY <2>1, <2>2, <3>1 DEF Keeps
    <3>4. IsFiniteSet(lastAckSeqNo..(lastAckSeqNo + window - 1))
          /\ Cardinality(lastAckSeqNo..(lastAckSeqNo + window - 1)) = window
      BY <2>2, FS_Interval
    <3>5. Cardinality(Buffered \cup {nextSendSeqNo}) <= window
      BY <3>3, <3>4, FS_Subset
    <3>. QED
      BY <3>1, <3>2, <3>5
  <2>4. ASSUME acks # <<>>, Head(acks) # lastAckSeqNo
        PROVE  /\ Head(acks) > lastAckSeqNo
               /\ lastAckSeqNo..(Head(acks) - 1) \subseteq Buffered
               /\ nextSendSeqNo > Head(acks) =>
                    Head(acks) \in Buffered /\ packetBuffer[Head(acks)]
    <3>1. Head(acks) \in Nat /\ Head(acks) > lastAckSeqNo /\ Head(acks) <= high
      BY <1>1, <2>1, <2>2, <2>4, RestInOrder DEF Keeps, IInv, TypeOK
    <3>2. lastAckSeqNo..(Head(acks) - 1) \subseteq Buffered
      BY <2>1, <2>2, <3>1 DEF Keeps
    <3>3. nextSendSeqNo > Head(acks) => Head(acks) \in Buffered
      BY <2>1, <2>2, <3>1 DEF Keeps
    <3>4. ASSUME nextSendSeqNo > Head(acks) PROVE packetBuffer[Head(acks)]
      <4>1. Head(acks) \in Buffered /\ Head(acks) < nextSendSeqNo
        BY <2>2, <3>1, <3>3, <3>4
      <4>. QED
        BY <1>1, <4>1 DEF IInv, TimeoutInv
    <3>. QED
      BY <3>1, <3>2, <3>3, <3>4
  <2>. QED
    BY <2>3, <2>4 DEF AssertsHold, SendAsserts, AckAsserts
<1>. QED
  BY <1>1

\* No assertion of the sender about its numbers, its buffer and its window fails, and a
\* timeout that it takes over has been set.
THEOREM NoAssertionFails == Spec => []AssertsHold
BY Asserted, Invariance, PTL

\* A step of the sender is one of the sliding window, or leaves it alone.
LEMMA SenderRefines ==
  ASSUME IInv, SendPacket \/ Timeout \/ \E b \in BOOLEAN : ReceiveAck(b)
  PROVE  [Window!Next]_<<lastAckSeqNo + Cardinality(Buffered), lastReceivedSeqNo + 1,
                         lastAckSeqNo>>
<1> DEFINE sent == lastAckSeqNo + Cardinality(Buffered)
<1>1. PICK high \in Nat : Keeps(high)
  BY DEF IInv, BufferInv
<1>2. sent = high
  BY <1>1, Kept
<1>3. lastAckSeqNo \in Nat /\ lastReceivedSeqNo \in Int /\ nextSendSeqNo \in Nat
      /\ window \in Nat
  BY DEF IInv, TypeOK
<1>4. CASE SendPacket
  <2>1. Buffered' = Buffered \cup {nextSendSeqNo}
    BY <1>4 DEF SendPacket, Buffered
  <2>2. UNCHANGED <<lastAckSeqNo, lastReceivedSeqNo>>
    BY <1>4 DEF SendPacket
  <2>3. CASE nextSendSeqNo < high
    <3>1. Buffered' = Buffered
      BY <1>1, <1>3, <2>1, <2>3 DEF Keeps
    <3>. QED
      BY <2>2, <3>1
  <2>4. CASE nextSendSeqNo = high
    <3>1. high < lastAckSeqNo + window
      BY <1>4, <2>4 DEF IInv, RoomInv, SendPacket
    <3>2. Buffered' = lastAckSeqNo..high /\ lastAckSeqNo <= high
      BY <1>1, <1>3, <2>1, <2>4 DEF Keeps
    <3>3. Cardinality(Buffered') = high - lastAckSeqNo + 1
      BY <1>3, <3>2, FS_Interval
    <3>4. sent' = sent + 1
      BY <1>2, <1>3, <2>2, <3>3
    <3>5. Window!Send
      BY <1>2, <2>2, <3>1, <3>4 DEF Window!Send
    <3>. QED
      BY <3>5 DEF Window!Next
  <2>. QED
    BY <1>1, <1>3, <2>3, <2>4 DEF Keeps
<1>5. CASE Timeout
  BY <1>5 DEF Timeout, Buffered
<1>6. ASSUME NEW b \in BOOLEAN, ReceiveAck(b)
      PROVE  [Window!Next]_<<sent, lastReceivedSeqNo + 1, lastAckSeqNo>>
  <2>1. CASE UNCHANGED senderVars
    BY <1>6, <2>1 DEF ReceiveAck, senderVars, Buffered
  <2>2. CASE Reject(Head(acks))
    BY <1>6, <2>2 DEF ReceiveAck, Reject, Buffered
  <2>3. CASE Ack(Head(acks))
    <3>1. Head(acks) \in (lastAckSeqNo + 1)..(lastReceivedSeqNo + 1)
      BY <1>3, <1>6, <2>3, RestInOrder DEF ReceiveAck, Ack
    <3>2. lastAckSeqNo' = Head(acks) /\ UNCHANGED lastReceivedSeqNo
      BY <1>6, <2>3 DEF Ack, ReceiveAck
    <3>3. Buffered' = Buffered \ (lastAckSeqNo..(Head(acks) - 1))
      BY <2>3 DEF Ack, Buffered
    <3>4. Head(acks) <= high /\ Head(acks) \in Nat
      BY <1>1, <1>3, <3>1 DEF Keeps
    <3>5. Buffered' = Head(acks)..(high - 1)
      BY <1>1, <1>3, <3>1, <3>3, <3>4 DEF Keeps
    <3>6. Cardinality(Buffered') = high - Head(acks)
      BY <3>4, <3>5, IntervalSize
    <3>7. sent' = sent
      BY <1>2, <3>2, <3>4, <3>6
    <3>8. lastAckSeqNo < lastReceivedSeqNo + 1
      BY <1>3, <3>1
    <3>9. Window!Release
      BY <3>1, <3>2, <3>7, <3>8 DEF Window!Release
    <3>. QED
      BY <3>9 DEF Window!Next
  <2>. QED
    BY <1>6, <2>1, <2>2, <2>3 DEF ReceiveAck
<1>. QED
  BY <1>4, <1>5, <1>6

\* So is the delivery of the packet that is due, once it has been sent.
LEMMA DeliveryRefines ==
  ASSUME IInv, NEW high \in Nat, Keeps(high), lastReceivedSeqNo + 1 < high,
         lastReceivedSeqNo' = lastReceivedSeqNo + 1, UNCHANGED senderVars
  PROVE  Window!Deliver
<1>1. lastAckSeqNo + Cardinality(Buffered) = high
  BY Kept
<1>2. lastAckSeqNo' = lastAckSeqNo /\ Buffered' = Buffered
  BY DEF senderVars, Buffered
<1>3. lastReceivedSeqNo \in Int
  BY DEF IInv, TypeOK
<1>. QED
  BY <1>1, <1>2, <1>3 DEF Window!Deliver

\* No packet is held, none is due but the first.
LEMMA WindowInitially == Init => Window!Init
<1>. SUFFICES ASSUME Init PROVE Window!Init
  OBVIOUS
<1>1. Buffered = {}
  BY DEF Init, Buffered
<1>2. Cardinality(Buffered) = 0
  BY <1>1, FS_EmptySet
<1>. QED
  BY <1>2 DEF Init, Window!Init

\* The protocol implements the sliding window: in order, once each, and no packet
\* is forgotten before its delivery.
THEOREM RefinesWindow == Spec => ImplementsWindow
<1>1. ASSUME IInv, [Next]_vars
      PROVE  [Window!Next]_<<lastAckSeqNo + Cardinality(Buffered),
                             lastReceivedSeqNo + 1, lastAckSeqNo>>
  <2>1. CASE SendPacket \/ Timeout \/ \E b \in BOOLEAN : ReceiveAck(b)
    BY <1>1, <2>1, SenderRefines
  <2>2. ASSUME NEW b \in BOOLEAN, ReceiveData(b)
        PROVE  [Window!Next]_<<lastAckSeqNo + Cardinality(Buffered),
                               lastReceivedSeqNo + 1, lastAckSeqNo>>
    <3>1. UNCHANGED senderVars
      BY <2>2 DEF ReceiveData
    <3>2. CASE UNCHANGED lastReceivedSeqNo
      BY <3>1, <3>2 DEF senderVars, Buffered
    <3>3. CASE Head(data) = lastReceivedSeqNo + 1 /\ lastReceivedSeqNo' = Head(data)
      <4>1. PICK high \in Nat : Keeps(high)
        BY <1>1 DEF IInv, BufferInv
      <4>2. Head(data) < high
        BY <1>1, <2>2, <4>1, TailOf DEF ReceiveData, IInv, TypeOK, Keeps
      <4>3. Window!Deliver
        BY <1>1, <3>1, <3>3, <4>1, <4>2, DeliveryRefines
      <4>. QED
        BY <4>3 DEF Window!Next
    <3>. QED
      BY <2>2, <3>2, <3>3 DEF ReceiveData, handleData
  <2>3. CASE UNCHANGED vars
    BY <2>3 DEF vars, senderVars, Buffered
  <2>. QED
    BY <1>1, <2>1, <2>2, <2>3 DEF Next
<1>. QED
  BY <1>1, WindowInitially, Invariance, PTL DEF Spec, ImplementsWindow, Window!Spec

------------------------------------------------------------------------------
(* Files at the ends of the protocol *)

Message == [seqNo : Nat, hasErrors : BOOLEAN]

\* The TCP connection is used by the receiver outside alone.
SocketInv ==
  /\ outside \in BOOLEAN
  /\ inbox \in Seq(Message)
  /\ outbox \in Seq(Nat \cup {-1})
  /\ ~outside => inbox = <<>> /\ outbox = <<>>

\* What the proxy has passed on was sent.
InboxInv ==
  \A i \in DOMAIN inbox : inbox[i].seqNo < lastAckSeqNo \/ inbox[i].seqNo \in Buffered

\* What the receiver outside acknowledges it has written; and its acknowledgements are
\* in order from there to the sender.
OutboxInv ==
  outside =>
    /\ OneBehind
    /\ \A i \in DOMAIN acks : acks[i] <= lastReceivedSeqNo
    /\ \A i \in DOMAIN outbox :
         /\ outbox[i] <= lastReceivedSeqNo
         /\ outbox[i] # -1 => /\ lastAckSeqNo <= outbox[i]
                              /\ \A j \in DOMAIN acks : acks[j] <= outbox[i]
    /\ \A i, j \in DOMAIN outbox : i < j => outbox[i] <= outbox[j]

\* The invariant of GoBackN holds with either receiver.
TInv == IInv /\ SocketInv /\ InboxInv /\ OutboxInv

------------------------------------------------------------------------------
(* The invariant *)

\* What is known of the elements of the sequences.
LEMMA Elements ==
  ASSUME TInv
  PROVE  /\ lastAckSeqNo \in Nat /\ lastReceivedSeqNo \in Int /\ Buffered \subseteq Nat
         /\ data \in Seq(Nat) /\ acks \in Seq(Nat)
         /\ inbox \in Seq(Message) /\ outbox \in Seq(Nat \cup {-1})
         /\ \A i \in DOMAIN acks : acks[i] \in Nat
         /\ \A i \in DOMAIN inbox : inbox[i].seqNo \in Nat
         /\ \A i \in DOMAIN outbox : outbox[i] \in Nat \cup {-1}
<1>1. /\ lastAckSeqNo \in Nat /\ lastReceivedSeqNo \in Int /\ Buffered \subseteq Nat
      /\ data \in Seq(Nat) /\ acks \in Seq(Nat)
      /\ inbox \in Seq(Message) /\ outbox \in Seq(Nat \cup {-1})
  BY DEF TInv, IInv, TypeOK, SocketInv
<1>2. \A i \in DOMAIN acks : acks[i] \in Nat
  BY <1>1, ElementOfSeq, LenProperties
<1>3. \A i \in DOMAIN inbox : inbox[i] \in Message
  BY <1>1, ElementOfSeq, LenProperties
<1>4. \A i \in DOMAIN outbox : outbox[i] \in Nat \cup {-1}
  BY <1>1, ElementOfSeq, LenProperties
<1>. QED
  BY <1>1, <1>2, <1>3, <1>4 DEF Message

\* The packets sent at least once are those before number high.
LEMMA SentBefore ==
  ASSUME TInv, NEW high \in Nat, Keeps(high), NEW s \in Nat
  PROVE  s < high <=> s < lastAckSeqNo \/ s \in Buffered
<1>1. lastAckSeqNo \in Nat /\ lastAckSeqNo <= high
  BY Elements DEF Keeps, TInv, IInv, TypeOK
<1>. QED
  BY <1>1 DEF Keeps

\* A step of the sender.
LEMMA SenderKeeps ==
  ASSUME TInv, Sender, UNCHANGED outside
  PROVE  TInv'
<1>1. /\ SendPacket \/ Timeout \/ \E b \in BOOLEAN : ReceiveAck(b)
      /\ UNCHANGED <<outside, inbox, outbox, complete, aborted>>
  BY DEF Sender, socketVars
<1>2. IInv'
  BY <1>1, SendPacketKeeps, TimeoutKeeps, ReceiveAckKeeps DEF TInv
<1>3. SocketInv'
  BY <1>1 DEF TInv, SocketInv
\* unless a new acknowledgement arrives, nothing that matters here changes
<1>4. CASE /\ lastAckSeqNo' = lastAckSeqNo /\ lastReceivedSeqNo' = lastReceivedSeqNo
           /\ Buffered \subseteq Buffered'
           /\ acks' = acks \/ (acks # <<>> /\ acks' = Tail(acks))
  <2>1. InboxInv'
    BY <1>1, <1>4 DEF TInv, InboxInv
  <2>2. \A i \in DOMAIN acks' : \E j \in DOMAIN acks : acks'[i] = acks[j]
    <3>1. CASE acks' = acks
      BY <3>1
    <3>2. CASE acks # <<>> /\ acks' = Tail(acks)
      <4>1. \A i \in DOMAIN Tail(acks) : i + 1 \in DOMAIN acks /\ Tail(acks)[i] = acks[i + 1]
        BY <3>2, Elements, TailOf
      <4>. QED
        BY <3>2, <4>1
    <3>. QED
      BY <1>4, <3>1, <3>2
  <2>3. OutboxInv'
    BY <1>1, <1>4, <2>2 DEF TInv, OutboxInv, OneBehind
  <2>. QED
    BY <1>2, <1>3, <2>1, <2>3 DEF TInv
<1>5. CASE acks # <<>> /\ acks' = Tail(acks) /\ Ack(Head(acks))
           /\ UNCHANGED lastReceivedSeqNo
  <2> DEFINE e == Head(acks)
  <2>1. /\ e \in Nat /\ e = acks[1] /\ 1 \in DOMAIN acks
        /\ \A i \in DOMAIN acks' : acks'[i] \in Nat /\ \E j \in DOMAIN acks : acks'[i] = acks[j]
    BY <1>5, Elements, TailOf
  <2>2. lastAckSeqNo' = e /\ e >= lastAckSeqNo
    BY <1>5, RestInOrder, Elements DEF Ack, TInv
  <2>3. Buffered' = Buffered \ (lastAckSeqNo..(e - 1))
    BY <1>5 DEF Ack, Buffered
  <2> HIDE DEF e
  <2>4. InboxInv'
    <3>1. ASSUME NEW i \in DOMAIN inbox
          PROVE  inbox[i].seqNo < e \/ inbox[i].seqNo \in Buffered'
      <4>1. inbox[i].seqNo \in Nat
        BY Elements
      <4>2. inbox[i].seqNo < lastAckSeqNo \/ inbox[i].seqNo \in Buffered
        BY DEF TInv, InboxInv
      <4>3. lastAckSeqNo \in Nat
        BY Elements
      <4>. QED
        BY <2>1, <2>2, <2>3, <4>1, <4>2, <4>3
    <3>. QED
      BY <1>1, <2>2, <3>1 DEF InboxInv
  <2>5. OutboxInv'
    <3>1. outside' = outside /\ outbox' = outbox /\ UNCHANGED lastReceivedSeqNo
      BY <1>1, <1>5
    <3>2. CASE ~outside
      BY <3>1, <3>2 DEF OutboxInv
    <3>3. CASE outside
      <4>1. OutboxInv /\ OneBehind
        BY <3>3 DEF TInv, OutboxInv
      <4>2. OneBehind'
        BY <2>1, <2>2, <3>1, <3>3, <4>1 DEF OneBehind, OutboxInv
      <4>3. \A i \in DOMAIN acks' : acks'[i] <= lastReceivedSeqNo'
        BY <2>1, <3>1, <3>3, <4>1 DEF OutboxInv
      <4>4. ASSUME NEW i \in DOMAIN outbox
            PROVE  /\ outbox[i] <= lastReceivedSeqNo
                   /\ outbox[i] # -1 => /\ e <= outbox[i]
                                        /\ \A j \in DOMAIN acks' : acks'[j] <= outbox[i]
        BY <2>1, <3>3, <4>1 DEF OutboxInv
      <4>5. \A i, j \in DOMAIN outbox : i < j => outbox[i] <= outbox[j]
        BY <3>3, <4>1 DEF OutboxInv
      <4>. QED
        BY <2>2, <3>1, <4>2, <4>3, <4>4, <4>5 DEF OutboxInv
    <3>. QED
      BY <3>2, <3>3
  <2>. QED
    BY <1>2, <1>3, <2>4, <2>5 DEF TInv
<1>6. CASE SendPacket
  <2>1. Buffered' = Buffered \cup {nextSendSeqNo}
    BY <1>6 DEF SendPacket, Buffered
  <2>2. UNCHANGED <<lastAckSeqNo, lastReceivedSeqNo, acks>>
    BY <1>6 DEF SendPacket
  <2>. QED
    BY <1>4, <2>1, <2>2
<1>7. CASE Timeout
  <2>1. Buffered' = Buffered
    BY <1>7 DEF Timeout, Buffered
  <2>2. UNCHANGED <<lastAckSeqNo, lastReceivedSeqNo, acks>>
    BY <1>7 DEF Timeout
  <2>. QED
    BY <1>4, <2>1, <2>2
<1>8. ASSUME NEW b \in BOOLEAN, ReceiveAck(b)
      PROVE  TInv'
  <2>1. CASE UNCHANGED senderVars
    BY <1>4, <1>8, <2>1 DEF ReceiveAck, senderVars, Buffered
  <2>2. CASE Reject(Head(acks))
    BY <1>4, <1>8, <2>2 DEF ReceiveAck, Reject, Buffered
  <2>. QED
    BY <1>5, <1>8, <2>1, <2>2 DEF ReceiveAck
<1>. QED
  BY <1>1, <1>6, <1>7, <1>8

\* The receiver within the simulator: there is no connection then.
LEMMA SimulatedKeeps ==
  ASSUME TInv, NEW b \in BOOLEAN, Simulated(b), UNCHANGED outside
  PROVE  TInv'
<1>1. IInv'
  BY ReceiveDataKeeps DEF TInv, Simulated
<1>2. SocketInv' /\ OutboxInv'
  BY DEF TInv, SocketInv, OutboxInv, Simulated, socketVars
<1>3. InboxInv'
  BY DEF TInv, InboxInv, Simulated, socketVars, ReceiveData, senderVars, Buffered
<1>. QED
  BY <1>1, <1>2, <1>3 DEF TInv

\* The proxy passes on a data packet.
LEMMA ProxyDataKeeps ==
  ASSUME TInv, NEW e \in BOOLEAN, outside, ProxyData(e), UNCHANGED outside
  PROVE  TInv'
<1>1. PICK high \in Nat : Keeps(high)
  BY DEF TInv, IInv, BufferInv
<1>2. /\ data # <<>> /\ data' = Tail(data)
      /\ UNCHANGED <<senderVars, lastReceivedSeqNo, acks, outbox, complete, aborted>>
      /\ inbox' = inbox \/ inbox' = Append(inbox, [seqNo |-> Head(data), hasErrors |-> e])
  BY DEF ProxyData
<1>3. /\ data' \in Seq(Nat) /\ Head(data) \in Nat /\ Head(data) < high
      /\ \A i \in DOMAIN data' : data'[i] < high
  BY <1>1, <1>2, Elements, TailOf DEF Keeps
<1>4. Buffered' = Buffered /\ UNCHANGED <<lastAckSeqNo, nextSendSeqNo, packetBuffer>>
  BY <1>2 DEF senderVars, Buffered
<1>5. IInv'
  <2>1. Keeps(high)'
    BY <1>1, <1>2, <1>3, <1>4 DEF Keeps
  <2>2. TypeOK'
    BY <1>2, <1>3, <1>4 DEF TInv, IInv, TypeOK, senderVars
  <2>. QED
    BY <1>2, <1>4, <2>1, <2>2
    DEF TInv, IInv, BufferInv, RoomInv, AcksInv, TimeoutInv, NeverAsleep, senderVars
<1>6. inbox' \in Seq(Message) /\ InboxInv'
  <2>1. CASE inbox' = inbox
    BY <1>4, <2>1, Elements DEF TInv, InboxInv
  <2>2. CASE inbox' = Append(inbox, [seqNo |-> Head(data), hasErrors |-> e])
    <3> DEFINE p == [seqNo |-> Head(data), hasErrors |-> e]
    <3>1. p \in Message /\ p.seqNo = Head(data)
      BY <1>3 DEF Message
    <3> HIDE DEF p
    <3>2. /\ inbox' \in Seq(Message)
          /\ DOMAIN inbox' = DOMAIN inbox \cup {Len(inbox) + 1}
          /\ inbox'[Len(inbox) + 1] = p
          /\ \A i \in DOMAIN inbox : inbox'[i] = inbox[i]
      BY <2>2, <3>1, Elements, Appended DEF p
    <3>3. p.seqNo < lastAckSeqNo \/ p.seqNo \in Buffered
      BY <1>1, <1>3, <3>1, SentBefore
    <3>. QED
      BY <1>4, <3>2, <3>3 DEF TInv, InboxInv
  <2>. QED
    BY <1>2, <2>1, <2>2
<1>7. SocketInv' /\ OutboxInv'
  BY <1>2, <1>4, <1>6 DEF TInv, SocketInv, OutboxInv, OneBehind
<1>. QED
  BY <1>5, <1>6, <1>7 DEF TInv

\* The proxy takes a message from the receiver.
LEMMA ProxyAckKeeps ==
  ASSUME TInv, outside, ProxyAck, UNCHANGED outside
  PROVE  TInv'
<1> DEFINE e == Head(outbox)
<1>1. /\ outbox # <<>> /\ outbox' = Tail(outbox)
      /\ UNCHANGED <<senderVars, lastReceivedSeqNo, data, inbox, complete>>
  BY DEF ProxyAck
<1>2. /\ e = outbox[1] /\ 1 \in DOMAIN outbox
      /\ outbox' \in Seq(Nat \cup {-1})
      /\ \A i \in DOMAIN outbox' : i + 1 \in DOMAIN outbox /\ outbox'[i] = outbox[i + 1]
  BY <1>1, Elements, TailOf
<1>3. DOMAIN outbox' \subseteq Nat \ {0}
  BY <1>2, LenProperties
<1>4. Buffered' = Buffered /\ UNCHANGED <<lastAckSeqNo, nextSendSeqNo, packetBuffer>>
  BY <1>1 DEF senderVars, Buffered
<1>5. SocketInv' /\ InboxInv'
  BY <1>1, <1>2, <1>4 DEF TInv, SocketInv, InboxInv
<1>6. /\ lastAckSeqNo \in Nat /\ lastReceivedSeqNo \in Int
      /\ \A i \in DOMAIN outbox : outbox[i] \in Int
      /\ \A i \in DOMAIN acks : acks[i] \in Nat
  BY Elements
<1>7. \A i \in DOMAIN outbox' : e <= outbox'[i]
  <2>1. \A i, j \in DOMAIN outbox : i < j => outbox[i] <= outbox[j]
    BY DEF TInv, OutboxInv
  <2>2. ASSUME NEW i \in DOMAIN outbox'
        PROVE  e <= outbox'[i]
    <3>1. i \in Nat \ {0} /\ 1 < i + 1
      BY <1>3
    <3>. QED
      BY <1>2, <2>1, <3>1
  <2>. QED
    BY <2>2
<1>8. \A i, j \in DOMAIN outbox' : i < j => outbox'[i] <= outbox'[j]
  <2>1. \A i, j \in DOMAIN outbox : i < j => outbox[i] <= outbox[j]
    BY DEF TInv, OutboxInv
  <2>2. ASSUME NEW i \in DOMAIN outbox', NEW j \in DOMAIN outbox', i < j
        PROVE  outbox'[i] <= outbox'[j]
    <3>1. i + 1 < j + 1
      BY <1>3, <2>2
    <3>. QED
      BY <1>2, <2>1, <3>1
  <2>. QED
    BY <2>2
<1>9. CASE acks' = acks
  <2>1. IInv'
    BY <1>1, <1>4, <1>9
    DEF TInv, IInv, TypeOK, BufferInv, Keeps, RoomInv, AcksInv, TimeoutInv, NeverAsleep,
        senderVars
  <2>2. OutboxInv'
    BY <1>1, <1>2, <1>4, <1>8, <1>9 DEF TInv, OutboxInv, OneBehind
  <2>. QED
    BY <1>5, <2>1, <2>2 DEF TInv
<1>10. CASE e # -1 /\ acks' = Append(acks, e)
  <2>1. /\ e \in Nat /\ e <= lastReceivedSeqNo /\ lastAckSeqNo <= e
        /\ \A i \in DOMAIN acks : acks[i] <= e
    BY <1>2, <1>10, Elements DEF TInv, OutboxInv
  <2> HIDE DEF e
  <2>2. /\ acks' \in Seq(Nat)
        /\ DOMAIN acks' = DOMAIN acks \cup {Len(acks) + 1}
        /\ acks'[Len(acks) + 1] = e
        /\ \A i \in DOMAIN acks : acks'[i] = acks[i] /\ i \in Nat /\ i < Len(acks) + 1
    BY <1>10, <2>1, Elements, Appended
  <2>3. Len(acks) + 1 \in Nat
    BY Elements, LenProperties
  <2>4. IInv'
    <3>1. TypeOK' /\ BufferInv' /\ RoomInv' /\ TimeoutInv' /\ NeverAsleep'
      BY <1>1, <1>4, <2>2
      DEF TInv, IInv, TypeOK, BufferInv, Keeps, RoomInv, TimeoutInv, NeverAsleep,
          senderVars
    <3>2. \A i \in DOMAIN acks' : acks'[i] \in lastAckSeqNo..(lastReceivedSeqNo + 1)
      BY <1>6, <2>1, <2>2 DEF TInv, IInv, AcksInv
    <3>3. \A i, j \in DOMAIN acks' : i < j => acks'[i] <= acks'[j]
      <4>1. \A i, j \in DOMAIN acks : i < j => acks[i] <= acks[j]
        BY DEF TInv, IInv, AcksInv
      <4>. QED
        BY <2>1, <2>2, <2>3, <4>1
    <3>. QED
      BY <1>1, <1>4, <3>1, <3>2, <3>3 DEF IInv, AcksInv
  <2>5. \A i \in DOMAIN acks' : acks'[i] <= e
    BY <2>1, <2>2
  <2>6. ASSUME NEW i \in DOMAIN outbox', NEW j \in DOMAIN acks'
        PROVE  acks'[j] <= outbox'[i]
    <3>1. acks'[j] \in Int /\ outbox'[i] \in Int
      BY <1>2, <1>6, <2>1, <2>2
    <3>. QED
      BY <1>7, <2>1, <2>5, <3>1
  <2>7. OutboxInv'
    <3>1. OneBehind'
      BY <1>1, <1>4 DEF TInv, OutboxInv, OneBehind
    <3>2. \A i \in DOMAIN acks' : acks'[i] <= lastReceivedSeqNo
      BY <2>1, <2>2 DEF TInv, OutboxInv
    <3>3. \A i \in DOMAIN outbox' : /\ outbox'[i] <= lastReceivedSeqNo
                                    /\ outbox'[i] # -1 => lastAckSeqNo <= outbox'[i]
      BY <1>2 DEF TInv, OutboxInv
    <3>. QED
      BY <1>1, <1>4, <1>8, <2>6, <3>1, <3>2, <3>3 DEF OutboxInv
  <2>. QED
    BY <1>5, <2>4, <2>7 DEF TInv
<1>. QED
  BY <1>9, <1>10 DEF ProxyAck, sendAck

\* An acknowledgement of the last packet written joins the others.
LEMMA Answered ==
  ASSUME TInv, outside, UNCHANGED <<outside, senderVars, data, acks>>,
         lastReceivedSeqNo' \in Nat \cup {-1}, lastReceivedSeqNo <= lastReceivedSeqNo',
         outbox' = Append(outbox, lastReceivedSeqNo')
  PROVE  outbox' \in Seq(Nat \cup {-1}) /\ OutboxInv'
<1> DEFINE r == lastReceivedSeqNo'
<1> DEFINE last == Len(outbox) + 1
<1>1. r \in Nat \cup {-1} /\ lastReceivedSeqNo <= r
  OBVIOUS
<1>2. /\ lastAckSeqNo \in Nat /\ lastReceivedSeqNo \in Int
      /\ \A i \in DOMAIN acks : acks[i] \in Nat
      /\ \A i \in DOMAIN outbox : outbox[i] \in Int
  BY Elements
<1>3. outbox' = Append(outbox, r)
  OBVIOUS
<1> HIDE DEF r
<1>4. /\ outbox' \in Seq(Nat \cup {-1})
      /\ DOMAIN outbox' = DOMAIN outbox \cup {last}
      /\ outbox'[last] = r
      /\ \A i \in DOMAIN outbox : outbox'[i] = outbox[i] /\ i \in Nat /\ i < last
  BY <1>1, <1>3, Elements, Appended
<1>5. last \in Nat
  BY Elements, LenProperties
<1> HIDE DEF last
<1>6. lastAckSeqNo' = lastAckSeqNo /\ acks' = acks /\ lastReceivedSeqNo' = r
  BY DEF senderVars, r
<1>7. lastAckSeqNo = 0 \/ lastAckSeqNo <= r
  BY <1>1, <1>2 DEF TInv, OutboxInv, OneBehind
<1>8. \A j \in DOMAIN acks : acks[j] <= r
  BY <1>1, <1>2 DEF TInv, OutboxInv
<1>9. ASSUME NEW i \in DOMAIN outbox'
      PROVE  /\ outbox'[i] <= r
             /\ outbox'[i] # -1 => /\ lastAckSeqNo <= outbox'[i]
                                   /\ \A j \in DOMAIN acks : acks[j] <= outbox'[i]
  <2>1. CASE i \in DOMAIN outbox
    <3>1. outbox'[i] = outbox[i] /\ outbox[i] \in Int
      BY <1>2, <1>4, <2>1
    <3>2. outbox[i] <= lastReceivedSeqNo
      BY <2>1 DEF TInv, OutboxInv
    <3>3. outbox[i] # -1 => /\ lastAckSeqNo <= outbox[i]
                            /\ \A j \in DOMAIN acks : acks[j] <= outbox[i]
      BY <2>1 DEF TInv, OutboxInv
    <3>. QED
      BY <1>1, <1>2, <3>1, <3>2, <3>3
  <2>2. CASE i = last
    BY <1>1, <1>2, <1>4, <1>7, <1>8, <2>2
  <2>. QED
    BY <1>4, <2>1, <2>2
<1>10. ASSUME NEW i \in DOMAIN outbox', NEW j \in DOMAIN outbox', i < j
       PROVE  outbox'[i] <= outbox'[j]
  <2>1. CASE i \in DOMAIN outbox /\ j \in DOMAIN outbox
    BY <1>4, <1>10, <2>1 DEF TInv, OutboxInv
  <2>2. CASE j = last
    BY <1>1, <1>4, <1>9, <2>2
  <2>3. CASE i = last /\ j \in DOMAIN outbox
    BY <1>4, <1>5, <1>10, <2>3
  <2>. QED
    BY <1>4, <2>1, <2>2, <2>3
<1>11. OneBehind'
  BY <1>6, <1>7 DEF OneBehind
<1>12. \A i \in DOMAIN acks' : acks'[i] <= lastReceivedSeqNo'
  BY <1>6, <1>8
<1>13. \A i \in DOMAIN outbox' :
         /\ outbox'[i] <= lastReceivedSeqNo'
         /\ outbox'[i] # -1 => /\ lastAckSeqNo' <= outbox'[i]
                               /\ \A j \in DOMAIN acks' : acks'[j] <= outbox'[i]
  BY <1>6, <1>9
<1>. QED
  BY <1>4, <1>10, <1>11, <1>12, <1>13 DEF OutboxInv

\* The receiver outside reads a message.
LEMMA ReceiveMessageKeeps ==
  ASSUME TInv, outside, ReceiveMessage, UNCHANGED outside
  PROVE  TInv'
<1> DEFINE p == Head(inbox)
<1>1. PICK high \in Nat : Keeps(high)
  BY DEF TInv, IInv, BufferInv
<1>2. /\ inbox # <<>> /\ inbox' = Tail(inbox)
      /\ UNCHANGED <<senderVars, data, acks, aborted>>
      /\ \/ ignore(p)
         \/ ~p.hasErrors /\ accept(p.seqNo)
         \/ ~p.hasErrors /\ remind(p.seqNo)
  BY DEF ReceiveMessage
<1>3. /\ p = inbox[1] /\ 1 \in DOMAIN inbox
      /\ inbox' \in Seq(Message)
      /\ \A i \in DOMAIN inbox' : i + 1 \in DOMAIN inbox /\ inbox'[i] = inbox[i + 1]
  BY <1>2, Elements, TailOf
<1>4. p.seqNo \in Nat /\ p.seqNo < high
  <2>1. p.seqNo \in Nat
    BY <1>3, Elements
  <2>2. p.seqNo < lastAckSeqNo \/ p.seqNo \in Buffered
    BY <1>3 DEF TInv, InboxInv
  <2>. QED
    BY <1>1, <2>1, <2>2, SentBefore
<1> HIDE DEF p
<1>5. /\ Buffered' = Buffered
      /\ UNCHANGED <<lastAckSeqNo, nextSendSeqNo, packetBuffer, nextSendTimer,
                     expirationTimer, data, acks>>
  BY <1>2 DEF senderVars, Buffered
<1>6. InboxInv'
  BY <1>3, <1>5 DEF TInv, InboxInv
<1>7. lastReceivedSeqNo \in Nat \cup {-1}
  BY DEF TInv, IInv, TypeOK
<1>8. CASE UNCHANGED lastReceivedSeqNo
  <2>1. IInv'
    BY <1>5, <1>8
    DEF TInv, IInv, TypeOK, BufferInv, Keeps, RoomInv, AcksInv, TimeoutInv, NeverAsleep
  <2>2. CASE UNCHANGED outbox
    BY <1>3, <1>5, <1>6, <1>8, <2>1, <2>2 DEF TInv, SocketInv, OutboxInv, OneBehind
  <2>3. CASE outbox' = Append(outbox, lastReceivedSeqNo')
    <3>1. outbox' \in Seq(Nat \cup {-1}) /\ OutboxInv'
      BY <1>2, <1>7, <1>8, <2>3, Answered
    <3>. QED
      BY <1>3, <1>6, <2>1, <3>1 DEF TInv, SocketInv
  <2>. QED
    BY <1>2, <1>4, <1>7, <1>8, <2>2, <2>3 DEF ignore, accept, remind
<1>9. CASE accept(p.seqNo)
  <2>1. /\ lastReceivedSeqNo' = lastReceivedSeqNo + 1
        /\ lastReceivedSeqNo' \in Nat /\ lastReceivedSeqNo' < high
        /\ outbox' = Append(outbox, lastReceivedSeqNo')
    BY <1>4, <1>9 DEF accept
  <2>2. outbox' \in Seq(Nat \cup {-1}) /\ OutboxInv'
    BY <1>2, <1>7, <2>1, Answered
  <2>3. Keeps(high)'
    BY <1>1, <1>5, <1>7, <2>1 DEF Keeps, TInv, IInv, TypeOK
  <2>4. AcksInv'
    <3>1. ASSUME NEW i \in DOMAIN acks
          PROVE  acks[i] \in lastAckSeqNo..(lastReceivedSeqNo' + 1)
      BY <1>7, <2>1, Elements DEF TInv, IInv, AcksInv
    <3>. QED
      BY <1>5, <3>1 DEF TInv, IInv, AcksInv
  <2>5. IInv'
    BY <1>5, <2>1, <2>3, <2>4
    DEF TInv, IInv, TypeOK, BufferInv, RoomInv, TimeoutInv, NeverAsleep
  <2>. QED
    BY <1>3, <1>6, <2>2, <2>5 DEF TInv, SocketInv
<1>. QED
  BY <1>2, <1>8, <1>9 DEF ignore, remind

\* A step of the simulation, of its proxy or of the receiver outside.
LEMMA TStep ==
  ASSUME TInv, [TransferNext]_transferVars
  PROVE  TInv'
<1>1. CASE UNCHANGED transferVars
  BY <1>1
  DEF transferVars, vars, senderVars, socketVars, TInv, IInv, TypeOK, BufferInv, Keeps,
      RoomInv, AcksInv, TimeoutInv, NeverAsleep, Buffered, SocketInv, InboxInv, OutboxInv,
      OneBehind
<1>2. CASE TransferNext
  <2>1. CASE Sender
    BY <1>2, <2>1, SenderKeeps DEF TransferNext
  <2>2. CASE Proxy
    BY <1>2, <2>2, ProxyAckKeeps, ProxyDataKeeps DEF TransferNext, Proxy
  <2>3. CASE Receiver
    BY <1>2, <2>3, ReceiveMessageKeeps DEF TransferNext, Receiver
  <2>4. ASSUME NEW b \in BOOLEAN, Simulated(b)
        PROVE  TInv'
    BY <1>2, <2>4, SimulatedKeeps DEF TransferNext
  <2>. QED
    BY <1>2, <2>1, <2>2, <2>3, <2>4 DEF TransferNext
<1>. QED
  BY <1>1, <1>2

\* The simulation starts with no connection used.
LEMMA TInitially == TransferInit => TInv
<1>. SUFFICES ASSUME TransferInit PROVE TInv
  OBVIOUS
<1>1. IInv
  BY Initially DEF TransferInit
<1>2. inbox = <<>> /\ outbox = <<>> /\ acks = <<>> /\ lastAckSeqNo = 0
  BY DEF TransferInit, Init
<1>3. /\ inbox \in Seq(Message) /\ outbox \in Seq(Nat \cup {-1})
      /\ DOMAIN inbox = {} /\ DOMAIN outbox = {} /\ DOMAIN acks = {}
  BY <1>2, EmptySeq, LenProperties
<1>. QED
  BY <1>1, <1>2, <1>3 DEF TransferInit, TInv, SocketInv, InboxInv, OutboxInv, OneBehind

\* The invariant.
THEOREM TransferInvariance == TransferSpec => []TInv
<1>1. TransferInit => TInv
  BY TInitially
<1>2. TInv /\ [TransferNext]_transferVars => TInv'
  BY TStep
<1>. QED
  BY <1>1, <1>2, PTL DEF TransferSpec

------------------------------------------------------------------------------
(* Theorems *)

\* The same assertions hold although the receiver outside acknowledges every packet by a
\* number one too small.
THEOREM NoTransferAssertionFails == TransferSpec => []AssertsHold
<1>1. TInv => AssertsHold
  BY Asserted DEF TInv
<1>. QED
  BY <1>1, TransferInvariance, PTL

\* With packets to send again, the sender has a timer scheduled.
THEOREM TransferScheduled == TransferSpec => []NeverAsleep
<1>1. TInv => NeverAsleep
  BY DEF TInv, IInv
<1>. QED
  BY <1>1, TransferInvariance, PTL

\* With the receiver outside, the sender never learns of the last packet written.
THEOREM StaysBehind == TransferSpec => []OneBehind
<1>1. TInv => OneBehind
  BY DEF TInv, OutboxInv, OneBehind
<1>. QED
  BY <1>1, TransferInvariance, PTL

\* A packet that arrives, at either receiver, was sent before.
LEMMA Arrives ==
  ASSUME TInv, NEW high \in Nat, Keeps(high)
  PROVE  /\ data # <<>> => Head(data) \in Nat /\ Head(data) < high
         /\ inbox # <<>> => Head(inbox).seqNo \in Nat /\ Head(inbox).seqNo < high
<1>1. data # <<>> => Head(data) \in Nat /\ Head(data) < high
  BY Elements, TailOf DEF Keeps
<1>2. ASSUME inbox # <<>>
      PROVE  Head(inbox).seqNo \in Nat /\ Head(inbox).seqNo < high
  <2>1. Head(inbox) = inbox[1] /\ 1 \in DOMAIN inbox
    BY <1>2, Elements, TailOf
  <2>2. Head(inbox).seqNo \in Nat
    BY <2>1, Elements
  <2>3. Head(inbox).seqNo < lastAckSeqNo \/ Head(inbox).seqNo \in Buffered
    BY <2>1 DEF TInv, InboxInv
  <2>. QED
    BY <2>2, <2>3, SentBefore
<1>. QED
  BY <1>1, <1>2

\* With either receiver, packets are handed over in order and once each, and no
\* packet is forgotten before its delivery.
THEOREM TransferRefinesWindow == TransferSpec => ImplementsWindow
<1> DEFINE windowVars == <<lastAckSeqNo + Cardinality(Buffered), lastReceivedSeqNo + 1,
                           lastAckSeqNo>>
<1>1. TransferInit => Window!Init
  BY WindowInitially DEF TransferInit
<1>2. ASSUME TInv, [TransferNext]_transferVars
      PROVE  [Window!Next]_windowVars
  <2>1. CASE Sender
    BY <1>2, <2>1, SenderRefines DEF Sender, TInv
  <2>2. ASSUME UNCHANGED senderVars, UNCHANGED lastReceivedSeqNo
        PROVE  [Window!Next]_windowVars
    BY <2>2 DEF senderVars, Buffered
  <2>3. ASSUME NEW s \in Nat, UNCHANGED senderVars,
               s = lastReceivedSeqNo + 1, lastReceivedSeqNo' = s,
               \/ data # <<>> /\ s = Head(data)
               \/ inbox # <<>> /\ s = Head(inbox).seqNo
        PROVE  [Window!Next]_windowVars
    <3>1. PICK high \in Nat : Keeps(high)
      BY <1>2 DEF TInv, IInv, BufferInv
    <3>2. s < high
      BY <1>2, <2>3, <3>1, Arrives
    <3>3. Window!Deliver
      BY <1>2, <2>3, <3>1, <3>2, DeliveryRefines DEF TInv
    <3>. QED
      BY <3>3 DEF Window!Next
  <2>4. ASSUME NEW b \in BOOLEAN, Simulated(b)
        PROVE  [Window!Next]_windowVars
    <3>1. /\ UNCHANGED senderVars /\ data # <<>>
          /\ \/ UNCHANGED lastReceivedSeqNo
             \/ Head(data) = lastReceivedSeqNo + 1 /\ lastReceivedSeqNo' = Head(data)
      BY <2>4 DEF Simulated, ReceiveData, handleData
    <3>2. Head(data) \in Nat
      BY <1>2, <3>1, Elements, TailOf
    <3>. QED
      BY <2>2, <2>3, <3>1, <3>2
  <2>5. CASE Proxy
    BY <2>2, <2>5 DEF Proxy, ProxyAck, ProxyData
  <2>6. CASE Receiver
    <3>1. /\ UNCHANGED senderVars /\ inbox # <<>>
          /\ \/ UNCHANGED lastReceivedSeqNo
             \/ /\ Head(inbox).seqNo = lastReceivedSeqNo + 1
                /\ lastReceivedSeqNo' = Head(inbox).seqNo
      BY <2>6 DEF Receiver, ReceiveMessage, ignore, accept, remind
    <3>2. Head(inbox).seqNo \in Nat
      <4>1. Head(inbox) = inbox[1] /\ 1 \in DOMAIN inbox
        BY <1>2, <3>1, Elements, TailOf
      <4>. QED
        BY <1>2, <4>1, Elements
    <3>. QED
      BY <2>2, <2>3, <3>1, <3>2
  <2>7. CASE UNCHANGED transferVars
    BY <2>2, <2>7 DEF transferVars, vars
  <2>. QED
    BY <1>2, <2>1, <2>4, <2>5, <2>6, <2>7 DEF TransferNext
<1>. QED
  BY <1>1, <1>2, TransferInvariance, PTL DEF TransferSpec, ImplementsWindow, Window!Spec

\* Once the whole window is old and no acknowledgement is on its way, no step of either
\* receiver leads out again: the sender repeats that window for ever.
THEOREM RepeatsForEver == TransferSpec => StuckWithBoth
<1>1. ASSUME TInv, [TransferNext]_transferVars, Stuck, outbox = <<>>
      PROVE  Stuck' /\ outbox' = <<>> /\ UNCHANGED lastAckSeqNo
  <2>1. PICK high \in Nat : Keeps(high)
    BY <1>1 DEF TInv, IInv, BufferInv
  <2>2. /\ high <= lastReceivedSeqNo + 1 /\ acks = <<>>
        /\ lastReceivedSeqNo \in Int /\ lastAckSeqNo \in Nat
    BY <1>1, <2>1, Elements DEF Keeps, Stuck
  <2>3. ASSUME UNCHANGED <<lastAckSeqNo, lastReceivedSeqNo, acks, outbox>>
        PROVE  Stuck' /\ outbox' = <<>> /\ UNCHANGED lastAckSeqNo
    BY <1>1, <2>3 DEF Stuck
  <2>4. CASE Sender
    BY <2>2, <2>3, <2>4 DEF Sender, SendPacket, Timeout, ReceiveAck, socketVars
  <2>5. ASSUME NEW b \in BOOLEAN, Simulated(b)
        PROVE  UNCHANGED <<lastAckSeqNo, lastReceivedSeqNo, acks, outbox>>
    <3>1. data # <<>> /\ Head(data) \in Nat /\ Head(data) < high
      BY <1>1, <2>1, <2>5, Arrives DEF Simulated, ReceiveData
    <3>2. Head(data) # lastReceivedSeqNo + 1 /\ Head(data) # lastReceivedSeqNo + 2
      BY <2>2, <3>1
    <3>. QED
      BY <2>5, <3>2 DEF Simulated, ReceiveData, handleData, senderVars, socketVars
  <2>6. CASE Proxy
    BY <1>1, <2>3, <2>6 DEF Proxy, ProxyAck, ProxyData, senderVars
  <2>7. ASSUME Receiver
        PROVE  UNCHANGED <<lastAckSeqNo, lastReceivedSeqNo, acks, outbox>>
    <3> DEFINE s == Head(inbox).seqNo
    <3>1. s \in Nat /\ s < high
      BY <1>1, <2>1, <2>7, Arrives DEF Receiver, ReceiveMessage
    <3>2. ~(s = lastReceivedSeqNo + 1) /\ ~(s > lastReceivedSeqNo + 1)
      BY <2>2, <3>1
    <3>. QED
      BY <2>7, <3>2 DEF Receiver, ReceiveMessage, ignore, accept, remind, senderVars
  <2>8. CASE UNCHANGED transferVars
    BY <2>3, <2>8 DEF transferVars, vars, senderVars, socketVars
  <2>. QED
    BY <1>1, <2>3, <2>4, <2>5, <2>6, <2>7, <2>8 DEF TransferNext
<1>2. TInv /\ [TransferNext]_transferVars
        => [Stuck /\ outbox = <<>> =>
              Stuck' /\ outbox' = <<>> /\ UNCHANGED lastAckSeqNo]_transferVars
  BY <1>1
<1>. QED
  BY <1>2, TransferInvariance, PTL DEF TransferSpec, StuckWithBoth
==============================================================================
