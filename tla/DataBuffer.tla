----------------------------- MODULE DataBuffer -----------------------------
(***************************************************************************)
(* The packet buffer of the Go-Back-N file sender, 80/src/DataBuffer.c: a  *)
(* ring of maxCount pointers to packets with consecutive numbers.  The     *)
(* sender puts the whole file into it, arms the timeout of a packet when   *)
(* it sends it, resets all timeouts when it goes back, and frees packets   *)
(* that are acknowledged.                                                  *)
(***************************************************************************)
EXTENDS Integers, Sequences

CONSTANTS
  maxCount,  \* slots of the ring
  MaxSeqNo   \* bound: packets put, for model checking only

ASSUME DataBufferAssumption ==
  /\ maxCount \in Nat \ {0}
  /\ MaxSeqNo \in Nat

VARIABLES
  minSeqNo, firstIndex, freeIndex, count,  \* as in DataBufferHead
  slot     \* index -> the packet it points to (its number, and whether its
           \* timeout is finite), or NoPacket: never written, or freed

bufferVars == <<minSeqNo, firstIndex, freeIndex, count, slot>>

Indices == 0..(maxCount - 1)

NoPacket == [seqNo |-> -1, armed |-> FALSE]

bufferContainsPacket(seqNo) == seqNo - minSeqNo \in 0..(count - 1)

\* where getDataPacketFromBuffer finds a packet
IndexOf(seqNo) == (seqNo - minSeqNo + firstIndex) % maxCount

getDataPacketFromBuffer(seqNo) ==
  IF bufferContainsPacket(seqNo) THEN slot[IndexOf(seqNo)] ELSE NoPacket

\* the indices a loop from firstIndex to freeIndex visits: none if they are equal
Visited ==
  IF firstIndex <= freeIndex THEN firstIndex..(freeIndex - 1)
  ELSE (firstIndex..(maxCount - 1)) \cup (0..(freeIndex - 1))

------------------------------------------------------------------------------
BufferInit ==
  /\ minSeqNo = 0 /\ firstIndex = 0 /\ freeIndex = 0 /\ count = 0
  /\ slot = [i \in Indices |-> NoPacket]

\* putDataPacketIntoBuffer; its assertions are the guards
Put(seqNo) ==
  /\ seqNo < MaxSeqNo
  /\ count < maxCount
  /\ seqNo \in minSeqNo..(minSeqNo + maxCount - 1)
  /\ IndexOf(seqNo) = freeIndex
  /\ slot' = [slot EXCEPT ![freeIndex] = [seqNo |-> seqNo, armed |-> FALSE]]
  /\ freeIndex' = (freeIndex + 1) % maxCount
  /\ count' = count + 1
  /\ UNCHANGED <<minSeqNo, firstIndex>>

\* mutant: only the numbers move on, not firstIndex
FreeKeepsFirst(start, end) ==
  LET n == end - start + 1
      freed == {(firstIndex + i) % maxCount : i \in 0..(n - 1)}
  IN  /\ end >= start
      /\ start = minSeqNo
      /\ end <= minSeqNo + count - 1
      /\ slot' = [i \in Indices |-> IF i \in freed THEN NoPacket ELSE slot[i]]
      /\ minSeqNo' = minSeqNo + n
      /\ count' = count - n
      /\ UNCHANGED <<firstIndex, freeIndex>>

\* freeBuffer: its callers free what the buffer holds (its last assertion would let
\* one packet more pass)
Free(start, end) ==
  LET n == end - start + 1
      freed == {(firstIndex + i) % maxCount : i \in 0..(n - 1)}
  IN  /\ end >= start
      /\ start = minSeqNo
      /\ end <= minSeqNo + count - 1
      /\ slot' = [i \in Indices |-> IF i \in freed THEN NoPacket ELSE slot[i]]
      /\ firstIndex' = (firstIndex + n) % maxCount
      /\ minSeqNo' = minSeqNo + n
      /\ count' = count - n
      /\ UNCHANGED freeIndex

\* A full ring looks like an empty one to the loop: no timer is reset then.
resetTimers ==
  /\ slot' = [i \in Indices |->
                IF i \in Visited THEN [slot[i] EXCEPT !.armed = FALSE] ELSE slot[i]]
  /\ UNCHANGED <<minSeqNo, firstIndex, freeIndex, count>>

\* the sender sets the timeout of a packet it got from the buffer
Arm(seqNo) ==
  /\ bufferContainsPacket(seqNo)
  /\ slot' = [slot EXCEPT ![IndexOf(seqNo)].armed = TRUE]
  /\ UNCHANGED <<minSeqNo, firstIndex, freeIndex, count>>

BufferNext ==
  \/ \E seqNo \in 0..MaxSeqNo : Put(seqNo) \/ Arm(seqNo)
  \/ \E start \in 0..MaxSeqNo, end \in 0..MaxSeqNo : Free(start, end)
  \/ resetTimers

BufferSpec == BufferInit /\ [][BufferNext]_bufferVars

------------------------------------------------------------------------------
(* Properties *)

\* The ring is a queue: what getDataPacketFromBuffer returns for a number the
\* buffer holds is the packet of that number, however often the ring wrapped, and
\* going back disarms every packet held, unless the ring is full.
Queue ==
  INSTANCE PacketQueue WITH
    queue <- [i \in 1..count |-> getDataPacketFromBuffer(minSeqNo + i - 1)]

ImplementsQueue == Queue!Spec

==============================================================================
