------------------------------- MODULE GoBackN -------------------------------
(***************************************************************************)
(* The Go-Back-N protocol of the ProtSim simulator: the sender of          *)
(* userapps/GoBackNSender.cc, the receiver of userapps/GoBackNReceiver.cc  *)
(* and the way between them, which keeps the order of packets but may      *)
(* damage or drop them.  Sequence numbers are longs and do not wrap.       *)
(*                                                                         *)
(* Simulated time is left out: a scheduled timer may fire at any moment,   *)
(* and of a packet's timeout remains whether it is finite.                 *)
(***************************************************************************)
EXTENDS Integers, Sequences, FiniteSets

CONSTANTS
  window,     \* the sender's window
  sendNack,   \* does the receiver send rejects?
  MaxSeqNo,   \* bound: packets the sender sends, for model checking only
  MaxFlight,  \* bound: data packets on their way, for model checking only
  MaxAcks     \* bound: acknowledgements on their way; further ones are lost

ASSUME GoBackNAssumption ==
  /\ window \in Nat \ {0}
  /\ sendNack \in BOOLEAN
  /\ MaxSeqNo \in Nat
  /\ MaxFlight \in Nat
  /\ MaxAcks \in Nat

VARIABLES
  lastAckSeqNo,       \* the oldest packet without an acknowledgement
  nextSendSeqNo,      \* the next packet to send
  packetBuffer,       \* number of a kept packet -> is its timeout finite?
  nextSendTimer,      \* is it scheduled (nextSendTime finite)?
  expirationTimer,    \* is it scheduled (timerExpiration finite)?
  lastReceivedSeqNo,  \* of the receiver
  data,               \* numbers of the data packets on their way
  acks                \* seqNoExpected of the acknowledgements on their way

senderVars ==
  <<lastAckSeqNo, nextSendSeqNo, packetBuffer, nextSendTimer, expirationTimer>>
vars == <<senderVars, lastReceivedSeqNo, data, acks>>

Buffered == DOMAIN packetBuffer

------------------------------------------------------------------------------
(* The sender *)

Init ==
  /\ lastAckSeqNo = 0
  /\ nextSendSeqNo = 0
  /\ packetBuffer = [s \in {} |-> FALSE]
  /\ nextSendTimer = TRUE
  /\ expirationTimer = FALSE
  /\ lastReceivedSeqNo = -1
  /\ data = <<>>
  /\ acks = <<>>

\* mutant: the expiration timer is left to a later packet
SendPacketNoTimer ==
  /\ nextSendTimer
  /\ nextSendSeqNo < MaxSeqNo
  /\ Len(data) < MaxFlight
  /\ data' = Append(data, nextSendSeqNo)
  /\ packetBuffer' = [s \in Buffered \cup {nextSendSeqNo} |->
                        s = nextSendSeqNo \/ packetBuffer[s]]
  /\ nextSendSeqNo' = nextSendSeqNo + 1
  /\ nextSendTimer' = (nextSendSeqNo + 1 < lastAckSeqNo + window)
  /\ UNCHANGED <<expirationTimer, lastAckSeqNo, lastReceivedSeqNo, acks>>

\* eTIMER0: a packet is sent, from the buffer if it was sent before
SendPacket ==
  /\ nextSendTimer
  /\ nextSendSeqNo < MaxSeqNo
  /\ Len(data) < MaxFlight
  /\ data' = Append(data, nextSendSeqNo)
  /\ packetBuffer' = [s \in Buffered \cup {nextSendSeqNo} |->
                        s = nextSendSeqNo \/ packetBuffer[s]]
  /\ nextSendSeqNo' = nextSendSeqNo + 1
  /\ expirationTimer' = TRUE
  /\ nextSendTimer' = (nextSendSeqNo + 1 < lastAckSeqNo + window)
  /\ UNCHANGED <<lastAckSeqNo, lastReceivedSeqNo, acks>>

\* eTIMER1: go back to the oldest packet without an acknowledgement
Timeout ==
  /\ expirationTimer
  /\ nextSendTimer' = TRUE
  /\ nextSendSeqNo' = lastAckSeqNo
  /\ packetBuffer' = [s \in Buffered |-> FALSE]
  /\ expirationTimer' = FALSE
  /\ UNCHANGED <<lastAckSeqNo, lastReceivedSeqNo, data, acks>>

\* an acknowledgement of what is acknowledged already: go back, but keep timers
Reject(expected) ==
  /\ expected = lastAckSeqNo
  /\ nextSendTimer' = TRUE
  /\ nextSendSeqNo' = lastAckSeqNo
  /\ UNCHANGED <<lastAckSeqNo, packetBuffer, expirationTimer>>

\* mutant: nextSendSeqNo is left behind the acknowledged packets
AckLeavesNext(expected) ==
  /\ expected # lastAckSeqNo
  /\ packetBuffer' = [s \in Buffered \ (lastAckSeqNo..(expected - 1)) |-> packetBuffer[s]]
  /\ lastAckSeqNo' = expected
  /\ expirationTimer' = (nextSendSeqNo > expected)
  /\ nextSendTimer' = TRUE
  /\ UNCHANGED nextSendSeqNo

\* a new acknowledgement: free the packets before it; nextSendSeqNo is never
\* behind it
Ack(expected) ==
  /\ expected # lastAckSeqNo
  /\ packetBuffer' = [s \in Buffered \ (lastAckSeqNo..(expected - 1)) |-> packetBuffer[s]]
  /\ lastAckSeqNo' = expected
  /\ expirationTimer' = (nextSendSeqNo > expected)
  /\ nextSendSeqNo' = IF nextSendSeqNo < expected THEN expected ELSE nextSendSeqNo
  /\ nextSendTimer' = TRUE

ReceiveAck(hasBitError) ==
  /\ acks # <<>>
  /\ acks' = Tail(acks)
  /\ \/ hasBitError /\ UNCHANGED senderVars
     \/ ~hasBitError /\ Reject(Head(acks))
     \/ ~hasBitError /\ Ack(Head(acks))
  /\ UNCHANGED <<lastReceivedSeqNo, data>>

------------------------------------------------------------------------------
(* The receiver *)

sendAck(expected) ==
  acks' = IF Len(acks) < MaxAcks THEN Append(acks, expected) ELSE acks

\* mutant: every good packet is acknowledged
handleDataAckAll(seqNo) ==
  /\ lastReceivedSeqNo' = IF seqNo = lastReceivedSeqNo + 1 THEN seqNo
                          ELSE lastReceivedSeqNo
  /\ sendAck(lastReceivedSeqNo' + 1)

\* a good packet: the next one is acknowledged, the one after it rejected,
\* older and newer ones are ignored
handleData(seqNo) ==
  \/ /\ seqNo = lastReceivedSeqNo + 1
     /\ lastReceivedSeqNo' = seqNo
     /\ sendAck(seqNo + 1)
  \/ /\ seqNo = lastReceivedSeqNo + 2
     /\ sendNack
     /\ sendAck(lastReceivedSeqNo + 1)
     /\ UNCHANGED lastReceivedSeqNo
  \/ /\ seqNo # lastReceivedSeqNo + 1
     /\ ~(sendNack /\ seqNo = lastReceivedSeqNo + 2)
     /\ UNCHANGED <<lastReceivedSeqNo, acks>>

\* A packet with a bit error is discarded; so is, in effect, one that an
\* interface queue dropped.
ReceiveData(hasBitError) ==
  /\ data # <<>>
  /\ data' = Tail(data)
  /\ \/ hasBitError /\ UNCHANGED <<lastReceivedSeqNo, acks>>
     \/ ~hasBitError /\ handleData(Head(data))
  /\ UNCHANGED senderVars

------------------------------------------------------------------------------
Next ==
  \/ SendPacket
  \/ Timeout
  \/ \E hasBitError \in BOOLEAN : ReceiveAck(hasBitError) \/ ReceiveData(hasBitError)

Spec == Init /\ [][Next]_vars

------------------------------------------------------------------------------
(* Properties *)

TypeOK ==
  /\ lastAckSeqNo \in Nat
  /\ nextSendSeqNo \in Nat
  /\ Buffered \subseteq Nat
  /\ packetBuffer \in [Buffered -> BOOLEAN]
  /\ nextSendTimer \in BOOLEAN
  /\ expirationTimer \in BOOLEAN
  /\ lastReceivedSeqNo \in Nat \cup {-1}
  /\ data \in Seq(Nat)
  /\ acks \in Seq(Nat)

\* The assertions of the sender about numbers, buffer and window hold whenever they are
\* evaluated, and a timeout that is taken over has been set.  (Those that compare times,
\* GoBackNSender.cc:117, 159 and 212, have no counterpart in a model without time.)
SendAsserts ==
  nextSendTimer =>
    /\ nextSendSeqNo < lastAckSeqNo + window
    /\ Buffered # {} => \E s \in Buffered : nextSendSeqNo >= s
    /\ Cardinality(Buffered \cup {nextSendSeqNo}) <= window

AckAsserts ==
  acks # <<>> /\ Head(acks) # lastAckSeqNo =>
    /\ Head(acks) > lastAckSeqNo
    /\ lastAckSeqNo..(Head(acks) - 1) \subseteq Buffered
    /\ nextSendSeqNo > Head(acks) =>
         Head(acks) \in Buffered /\ packetBuffer[Head(acks)]

AssertsHold == SendAsserts /\ AckAsserts

\* With packets in its buffer, the sender has something scheduled.
NeverAsleep == Buffered # {} => nextSendTimer \/ expirationTimer

\* It implements the sliding window.
Window ==
  INSTANCE SlidingWindow WITH
    sent <- lastAckSeqNo + Cardinality(Buffered),
    delivered <- lastReceivedSeqNo + 1,
    released <- lastAckSeqNo

ImplementsWindow == Window!Spec

\* Known limit of the code: the receiver ignores old packets, so once every
\* acknowledgement of a whole window is lost, the sender repeats that window for
\* ever.
Stuck ==
  /\ lastReceivedSeqNo + 1 = lastAckSeqNo + window
  /\ acks = <<>>

\* The whole window has been sent and has arrived.
WindowSent ==
  /\ ~nextSendTimer \/ nextSendSeqNo = MaxSeqNo
  /\ data = <<>>
==============================================================================
