---------------------------- MODULE FileTransfer ----------------------------
(***************************************************************************)
(* The file receiver of 80/src/GoBackNReceiver.c, a program of its own     *)
(* that the simulator connects through a proxy (ErrorControlProxy.cc) and  *)
(* a TCP connection.  A simulation has either this receiver or the         *)
(* simulated one of GoBackN; the sender and the network are those of       *)
(* GoBackN.                                                                *)
(*                                                                         *)
(* What the receiver has written to its file are the packets up to         *)
(* lastReceivedSeqNo.  A message arrives whole (the proxy sends it at once *)
(* and TCP_NODELAY is set).                                                *)
(***************************************************************************)
EXTENDS GoBackN

CONSTANTS
  veryLastSeqNo,  \* the packet without data that ends the file; the simulated
                  \* sender never sends one (then it is not below MaxSeqNo)
  MaxSocket       \* bound: messages in each direction of the TCP connection

ASSUME FileTransferAssumption ==
  /\ veryLastSeqNo \in Nat
  /\ MaxSocket \in Nat \ {0}

VARIABLES
  outside,   \* does the receiver run outside of the simulator?  (never changes)
  inbox,     \* messages from the proxy: number, and whether it has errors
  outbox,    \* acknowledgements on their way to the proxy
  complete,  \* the receiver has closed its file and its connection
  aborted    \* an assertion has ended the simulator

socketVars == <<inbox, outbox, complete>>
transferVars == <<outside, vars, socketVars, aborted>>

------------------------------------------------------------------------------
(* The proxy *)

\* A data packet of the network is passed on with its error flag.  Without an
\* application, the network stack drops it.  (The proxy damages the data of a packet
\* with errors, or the number of one without data; nobody reads them.)
ProxyData(hasErrors) ==
  /\ data # <<>>
  /\ complete \/ Len(inbox) < MaxSocket
  /\ data' = Tail(data)
  /\ inbox' = IF complete THEN inbox
              ELSE Append(inbox, [seqNo |-> Head(data), hasErrors |-> hasErrors])
  /\ UNCHANGED <<senderVars, lastReceivedSeqNo, acks, outbox, complete, aborted>>

\* A message of the receiver: -1 as the number acknowledged fails an assertion.
ProxyAck ==
  /\ outbox # <<>>
  /\ outbox' = Tail(outbox)
  /\ \/ /\ Head(outbox) # -1
        /\ sendAck(Head(outbox))
        /\ UNCHANGED aborted
     \/ /\ Head(outbox) = -1
        /\ aborted' = TRUE
        /\ UNCHANGED acks
  /\ UNCHANGED <<senderVars, lastReceivedSeqNo, data, inbox, complete>>

------------------------------------------------------------------------------
(* The receiver *)

\* mutant: any newer packet is written
acceptNewer(seqNo) ==
  /\ seqNo > lastReceivedSeqNo
  /\ lastReceivedSeqNo' = seqNo
  /\ outbox' = Append(outbox, seqNo)
  /\ complete' = (seqNo = veryLastSeqNo)

\* mutant: the next packet is acknowledged, as the simulated receiver does
acceptNext(seqNo) ==
  /\ seqNo = lastReceivedSeqNo + 1
  /\ lastReceivedSeqNo' = seqNo
  /\ outbox' = Append(outbox, seqNo + 1)
  /\ complete' = (seqNo = veryLastSeqNo)

\* the packet that is due: write it and acknowledge it by its own number
accept(seqNo) ==
  /\ seqNo = lastReceivedSeqNo + 1
  /\ lastReceivedSeqNo' = seqNo
  /\ outbox' = Append(outbox, seqNo)
  /\ complete' = (seqNo = veryLastSeqNo)

\* a packet with errors, or an old one
ignore(p) ==
  /\ p.hasErrors \/ p.seqNo <= lastReceivedSeqNo
  /\ UNCHANGED <<lastReceivedSeqNo, outbox, complete>>

\* a packet too new: the last one written, if any, is acknowledged again
remind(seqNo) ==
  /\ seqNo > lastReceivedSeqNo + 1
  /\ outbox' = Append(outbox, lastReceivedSeqNo)
  /\ UNCHANGED <<lastReceivedSeqNo, complete>>

\* one round of the main loop
ReceiveMessage ==
  LET p == Head(inbox)
  IN  /\ inbox # <<>>
      /\ ~complete
      /\ Len(outbox) < MaxSocket
      /\ inbox' = Tail(inbox)
      /\ \/ ignore(p)
         \/ ~p.hasErrors /\ accept(p.seqNo)
         \/ ~p.hasErrors /\ remind(p.seqNo)
      /\ UNCHANGED <<senderVars, data, acks, aborted>>

------------------------------------------------------------------------------
(* The simulation *)

Sender ==
  /\ SendPacket \/ Timeout \/ \E hasBitError \in BOOLEAN : ReceiveAck(hasBitError)
  /\ UNCHANGED <<socketVars, aborted>>

Simulated(hasBitError) ==
  /\ ~outside
  /\ ReceiveData(hasBitError)
  /\ UNCHANGED <<socketVars, aborted>>

Proxy == outside /\ (ProxyAck \/ \E hasErrors \in BOOLEAN : ProxyData(hasErrors))

Receiver == outside /\ ReceiveMessage

TransferInit ==
  /\ Init
  /\ outside \in BOOLEAN
  /\ inbox = <<>> /\ outbox = <<>> /\ complete = FALSE /\ aborted = FALSE

TransferNext ==
  /\ ~aborted
  /\ Sender \/ Proxy \/ Receiver \/ \E hasBitError \in BOOLEAN : Simulated(hasBitError)
  /\ UNCHANGED outside

TransferSpec == TransferInit /\ [][TransferNext]_transferVars

\* Events of the simulation happen in the end, unless it is aborted, and processes that
\* share a TCP connection take their turns.  Bit errors are independent, so a data
\* packet that arrives again and again arrives without one in the end.
\* Acknowledgements get no such promise: one and all may be damaged.
TransferFairness ==
  /\ WF_transferVars(TransferNext /\ SendPacket)
  /\ WF_transferVars(TransferNext /\ Timeout)
  /\ WF_transferVars(TransferNext /\ \E hasBitError \in BOOLEAN : ReceiveAck(hasBitError))
  /\ WF_transferVars(TransferNext /\ \E hasBitError \in BOOLEAN : Simulated(hasBitError))
  /\ WF_transferVars(TransferNext /\ \E hasErrors \in BOOLEAN : ProxyData(hasErrors))
  /\ WF_transferVars(TransferNext /\ ProxyAck)
  /\ WF_transferVars(TransferNext /\ Receiver)
  /\ SF_transferVars(/\ data # <<>>
                     /\ Head(data) = lastReceivedSeqNo + 1
                     /\ TransferNext
                     /\ Simulated(FALSE) \/ ProxyData(FALSE))

FairTransferSpec == TransferSpec /\ TransferFairness

------------------------------------------------------------------------------
(* Properties *)

\* Known limit of the code: the sender reads an acknowledgement as the number of the
\* packet due next, while the receiver outside sends the one it has written last.  So
\* the sender never learns that the last packet has arrived.  (What it asserts about
\* numbers and buffer holds all the same: AssertsHold.)
OneBehind == outside => lastAckSeqNo = 0 \/ lastAckSeqNo <= lastReceivedSeqNo

\* Known limit of the code, with both receivers: once the whole window is old and no
\* acknowledgement is on its way, the sender repeats that window for ever.
StuckWithBoth ==
  [][Stuck /\ outbox = <<>> =>
       Stuck' /\ outbox' = <<>> /\ UNCHANGED lastAckSeqNo]_transferVars

\* Within the simulator, every packet is delivered, whatever is lost, as long as timeouts
\* leave the sender, again and again, the time to send its window: to be stuck is the
\* only way for the protocol to stop.
Delivered ==
  ~outside => ([]<>WindowSent => <>(lastReceivedSeqNo + 1 = MaxSeqNo \/ Stuck))

\* No acknowledgement is on its way and none will be sent: the receiver has closed
\* its connection, or the whole window is old.
Silent ==
  /\ acks = <<>> /\ outbox = <<>>
  /\ complete \/ lastReceivedSeqNo + 1 = lastAckSeqNo + window

\* The file is completed unless the simulator is aborted or all falls silent for ever,
\* as long as timeouts leave the sender the time to send its window.
FileCompleted ==
  outside =>
    ([]<>(WindowSent /\ inbox = <<>>) => (<>(complete \/ aborted) \/ <>[]Silent))

\* The proxy's assertion holds: no message is without a number.
ProxyAssertHolds == ~aborted
==============================================================================
