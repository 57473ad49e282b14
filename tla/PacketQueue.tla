----------------------------- MODULE PacketQueue -----------------------------
(***************************************************************************)
(* What a packet buffer promises: a queue of packets with consecutive      *)
(* numbers, filled at its end and emptied from its front.  A packet sent   *)
(* is armed; going back disarms all, but for a known limit of the code:    *)
(* with a full queue it disarms none.                                      *)
(***************************************************************************)
EXTENDS Integers, Sequences

CONSTANT maxCount

VARIABLES queue,    \* the packets held, each with its number
          minSeqNo  \* the number of the first one, or of the next one to come

Init == queue = <<>> /\ minSeqNo = 0

Put ==
  /\ Len(queue) < maxCount
  /\ queue' = Append(queue, [seqNo |-> minSeqNo + Len(queue), armed |-> FALSE])
  /\ UNCHANGED minSeqNo

Arm(i) ==
  /\ i \in DOMAIN queue
  /\ queue' = [queue EXCEPT ![i].armed = TRUE]
  /\ UNCHANGED minSeqNo

GoBack ==
  /\ Len(queue) < maxCount
  /\ queue' = [i \in DOMAIN queue |-> [queue[i] EXCEPT !.armed = FALSE]]
  /\ UNCHANGED minSeqNo

Free(n) ==
  /\ n \in 1..Len(queue)
  /\ queue' = SubSeq(queue, n + 1, Len(queue))
  /\ minSeqNo' = minSeqNo + n

Next == Put \/ GoBack \/ \E n \in 1..maxCount : Arm(n) \/ Free(n)

Spec == Init /\ [][Next]_<<queue, minSeqNo>>
==============================================================================
