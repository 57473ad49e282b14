--------------------------- MODULE SimulatorProofs ---------------------------
(***************************************************************************)
(* Proofs about InterfaceQueue, for all lengths, phases and durations;     *)
(* about DataBuffer, for every number of slots: however often the ring     *)
(* wraps, it is a queue; and about SocketScheduler, for all ports, nodes   *)
(* and numbers of programs: its registries agree, and messages are whole.  *)
(***************************************************************************)
EXTENDS InterfaceQueue, DataBuffer, SocketScheduler, SequenceTheorems, TLAPS

Packets == [arrival : Nat, duration : Durations]
Parameters == [maxQueueLength : Nat, transientRemoval : Nat, batchLength : Nat]
Weighted == [sum : Int, time : Int, since : Nat]
Statistics ==
  [util : Weighted, queue : Weighted, samples : Nat, transientOver : BOOLEAN,
   batchNum : Nat, recorded : Seq(Int), failed : BOOLEAN]
Truths == [busy : Int, area : Int, time : Int, batch : Seq(Int)]

TypeOK ==
  /\ par \in Parameters
  /\ now \in Nat /\ finishes \in Nat /\ timeout \in Nat \cup {None}
  /\ queue \in Seq(Packets)
  /\ stat \in Statistics
  /\ truth \in Truths

\* The timeout is that of the packet that the link transmits.
LinkInv ==
  /\ timeout # None => timeout = finishes /\ now <= timeout
  /\ finishes > now \/ queue # <<>> => timeout # None

\* No batch is recorded in the transient phase.
PhaseInv == stat.transientOver \/ stat.recorded = <<>>

IInv == TypeOK /\ LinkInv /\ PhaseInv /\ StatisticsExact

USE DEF None

------------------------------------------------------------------------------
(* What the operators on statistics do *)

\* The number of packets that wait is a number.
LEMMA LengthIsNat == TypeOK => Len(queue) \in Nat
BY LenProperties DEF TypeOK

\* One more interval makes a weighted statistic of a weighted statistic.
LEMMA CollectedResult ==
  ASSUME TypeOK, NEW w \in Weighted, NEW k \in Nat
  PROVE  /\ Collected(w, k) \in Weighted /\ Blank \in Weighted
         /\ k * (now - w.since) \in Int
BY DEF Collected, Blank, Weighted, TypeOK

\* Collecting an interval of the link changes only its statistic.
LEMMA CollectUtilResult ==
  ASSUME TypeOK, NEW s \in Statistics, NEW k \in Nat, NEW t, t = CollectUtil(s, k)
  PROVE  /\ t \in Statistics /\ t.util = Collected(s.util, k)
         /\ t.queue = s.queue /\ t.samples = s.samples
         /\ t.transientOver = s.transientOver /\ t.batchNum = s.batchNum
         /\ t.recorded = s.recorded /\ t.failed = s.failed
<1>1. Collected(s.util, k) \in Weighted
  BY CollectedResult DEF Statistics
<1>. QED
  BY <1>1 DEF CollectUtil, Statistics

\* Collecting an interval of the queue changes only its statistic.
LEMMA CollectQueueResult ==
  ASSUME TypeOK, NEW s \in Statistics, NEW t, t = CollectQueue(s)
  PROVE  /\ t \in Statistics /\ t.queue = Collected(s.queue, Len(queue))
         /\ t.util = s.util /\ t.samples = s.samples
         /\ t.transientOver = s.transientOver /\ t.batchNum = s.batchNum
         /\ t.recorded = s.recorded /\ t.failed = s.failed
<1>1. Collected(s.queue, Len(queue)) \in Weighted
  BY CollectedResult, LengthIsNat DEF Statistics
<1>. QED
  BY <1>1 DEF CollectQueue, Statistics

\* A packet that is sent is one more sample.
LEMMA CollectWaitingResult ==
  ASSUME NEW s \in Statistics, NEW t, t = CollectWaiting(s)
  PROVE  /\ t \in Statistics /\ t.util = s.util /\ t.queue = s.queue
         /\ t.transientOver = s.transientOver /\ t.batchNum = s.batchNum
         /\ t.recorded = s.recorded /\ t.failed = s.failed
BY DEF CollectWaiting, Statistics

\* the statistics with the intervals not collected yet
Recorded(s) ==
  LET u == Collected(s.util, IF finishes < now THEN 0 ELSE 1)
      q == Collected(s.queue, Len(queue))
  IN  <<u.sum, u.time, q.sum, q.time>>

\* Recording a batch collects both open intervals.
LEMMA RecordResult ==
  ASSUME TypeOK, NEW s \in Statistics, NEW t, t = recordStatistics(s)
  PROVE  /\ t \in Statistics /\ t.recorded = Recorded(s)
         /\ t.transientOver = s.transientOver /\ t.batchNum = s.batchNum
         /\ t.samples = s.samples /\ t.failed = s.failed
<1>. DEFINE b == IF finishes < now THEN 0 ELSE 1
            u == CollectUtil(s, b)
            c == CollectQueue(u)
            r == <<c.util.sum, c.util.time, c.queue.sum, c.queue.time>>
<1>1. b \in Nat
  OBVIOUS
<1>2. /\ u \in Statistics /\ u.util = Collected(s.util, b)
      /\ u.queue = s.queue /\ u.samples = s.samples
      /\ u.transientOver = s.transientOver /\ u.batchNum = s.batchNum
      /\ u.recorded = s.recorded /\ u.failed = s.failed
  BY <1>1, CollectUtilResult
<1>3. /\ c \in Statistics /\ c.queue = Collected(u.queue, Len(queue))
      /\ c.util = u.util /\ c.samples = u.samples
      /\ c.transientOver = u.transientOver /\ c.batchNum = u.batchNum
      /\ c.recorded = u.recorded /\ c.failed = u.failed
  BY <1>2, CollectQueueResult
<1>4. t = [c EXCEPT !.recorded = r]
  BY DEF recordStatistics
<1>5. r = Recorded(s)
  BY <1>2, <1>3 DEF Recorded
<1>. HIDE DEF c, u
<1>6. r \in Seq(Int)
  <2>1. c.util \in Weighted /\ c.queue \in Weighted
    BY <1>3 DEF Statistics
  <2>. QED
    BY <2>1 DEF Weighted
<1>. HIDE DEF r
<1>. QED
  BY <1>2, <1>3, <1>4, <1>5, <1>6 DEF Statistics

\* the statistics begin anew
Fresh(s) == s.util = Blank /\ s.queue = Blank

\* A reset forgets the statistics and nothing else.
LEMMA ResetResult ==
  ASSUME TypeOK, NEW s \in Statistics, NEW t, t = resetStatistics(s)
  PROVE  /\ t \in Statistics /\ Fresh(t) /\ t.samples = 0
         /\ t.transientOver = s.transientOver /\ t.batchNum = s.batchNum
         /\ t.recorded = s.recorded /\ t.failed = s.failed
<1>1. Blank \in Weighted
  BY DEF Blank, Weighted, TypeOK
<1>. QED
  BY <1>1 DEF resetStatistics, Fresh, Statistics

\* the end of the transient phase, from s to t
PhaseEnds(s, t) ==
  /\ ~s.transientOver /\ t.transientOver /\ Fresh(t)
  /\ t.batchNum = s.batchNum /\ t.recorded = s.recorded

\* the end of a batch
BatchEnds(s, t) ==
  /\ s.transientOver /\ t.transientOver /\ Fresh(t)
  /\ t.batchNum = s.batchNum + 1 /\ t.recorded = Recorded(s)

\* neither of them
NothingEnds(s, t) ==
  /\ t.transientOver = s.transientOver /\ t.util = s.util /\ t.queue = s.queue
  /\ t.batchNum = s.batchNum /\ t.recorded = s.recorded

\* The transient phase ends with enough samples, with fresh statistics.
LEMMA DetectTransientResult ==
  ASSUME TypeOK, NEW s \in Statistics, NEW t, t = detectTransient(s)
  PROVE  /\ t \in Statistics /\ t.failed = s.failed
         /\ \/ PhaseEnds(s, t) /\ t.samples = 0
            \/ t = s /\ (t.transientOver \/ t.samples < par.transientRemoval)
<1>1. CASE ~s.transientOver /\ s.samples >= par.transientRemoval
  <2>. DEFINE o == [s EXCEPT !.transientOver = TRUE]
  <2>1. /\ o \in Statistics /\ o.transientOver = TRUE
        /\ o.batchNum = s.batchNum /\ o.recorded = s.recorded /\ o.failed = s.failed
    BY DEF Statistics
  <2>2. t = resetStatistics(o)
    BY <1>1 DEF detectTransient
  <2>. HIDE DEF o
  <2>3. /\ t \in Statistics /\ Fresh(t) /\ t.samples = 0
        /\ t.transientOver = o.transientOver /\ t.batchNum = o.batchNum
        /\ t.recorded = o.recorded /\ t.failed = o.failed
    BY <2>1, <2>2, ResetResult
  <2>. QED
    BY <1>1, <2>1, <2>3 DEF PhaseEnds
<1>2. CASE ~(~s.transientOver /\ s.samples >= par.transientRemoval)
  <2>1. t = s
    BY <1>2 DEF detectTransient
  <2>2. s.samples \in Nat /\ par.transientRemoval \in Nat /\ s.transientOver \in BOOLEAN
    BY DEF Statistics, TypeOK, Parameters
  <2>. QED
    BY <1>2, <2>1, <2>2
<1>. QED
  BY <1>1, <1>2

\* A full batch is recorded; else nothing changes, but the assertion may fail.
LEMMA DetectBatchResult ==
  ASSUME TypeOK, NEW s \in Statistics, NEW t, t = detectBatch(s)
  PROVE  /\ t \in Statistics
         /\ \/ /\ BatchEnds(s, t) /\ t.failed = s.failed
               /\ s.samples >= par.batchLength /\ par.batchLength > 0
            \/ /\ NothingEnds(s, t)
               /\ t.failed => s.failed \/ (~s.transientOver /\ s.samples >= par.batchLength)
<1>. DEFINE full == s.transientOver /\ par.batchLength > 0 /\ s.samples >= par.batchLength
            r == recordStatistics(s)
            z == resetStatistics(r)
            n == [z EXCEPT !.batchNum = @ + 1]
            u == IF full THEN n ELSE s
            f == u.failed \/ (par.batchLength > 0 /\ u.samples >= par.batchLength)
<1>1. t = [u EXCEPT !.failed = f]
  BY DEF detectBatch
<1>2. par.batchLength \in Nat
  BY DEF TypeOK, Parameters
<1>3. /\ r \in Statistics /\ r.recorded = Recorded(s)
      /\ r.transientOver = s.transientOver /\ r.batchNum = s.batchNum
      /\ r.failed = s.failed
  BY RecordResult
<1>4. /\ z \in Statistics /\ Fresh(z) /\ z.samples = 0
      /\ z.transientOver = r.transientOver /\ z.batchNum = r.batchNum
      /\ z.recorded = r.recorded /\ z.failed = r.failed
  <2>. HIDE DEF r
  <2>. QED
    BY <1>3, ResetResult
<1>. HIDE DEF z
<1>5. /\ n \in Statistics /\ Fresh(n) /\ n.samples = 0
      /\ n.transientOver = s.transientOver /\ n.batchNum = s.batchNum + 1
      /\ n.recorded = Recorded(s) /\ n.failed = s.failed
  <2>1. /\ n \in Statistics /\ n.util = z.util /\ n.queue = z.queue
        /\ n.samples = z.samples /\ n.transientOver = z.transientOver
        /\ n.batchNum = z.batchNum + 1 /\ n.recorded = z.recorded
        /\ n.failed = z.failed
    BY <1>4, SMTT(30) DEF Statistics
  <2>. HIDE DEF n
  <2>. QED
    BY <1>3, <1>4, <2>1 DEF Fresh
<1>. HIDE DEF n
<1>6. u \in Statistics
  BY <1>5
<1>7. f \in BOOLEAN
  BY <1>6 DEF Statistics
<1>8. /\ t \in Statistics /\ t.util = u.util /\ t.queue = u.queue
      /\ t.transientOver = u.transientOver /\ t.batchNum = u.batchNum
      /\ t.recorded = u.recorded /\ t.failed = f
  <2>. HIDE DEF u, f
  <2>. QED
    BY <1>1, <1>6, <1>7 DEF Statistics
<1>9. CASE full
  <2>1. u = n
    BY <1>9
  <2>2. f = s.failed
    <3>1. ~(par.batchLength > 0 /\ u.samples >= par.batchLength)
      BY <1>2, <1>5, <1>9, <2>1
    <3>2. f = u.failed
      BY <3>1, <1>6 DEF Statistics
    <3>. QED
      BY <1>5, <2>1, <3>2
  <2>. HIDE DEF u, f
  <2>. QED
    BY <1>5, <1>8, <1>9, <2>1, <2>2 DEF BatchEnds, Fresh
<1>10. CASE ~full
  <2>1. u = s
    BY <1>10
  <2>2. f => s.failed \/ (~s.transientOver /\ s.samples >= par.batchLength)
    BY <1>10, <2>1
  <2>3. t.failed => f
    BY <1>8
  <2>. HIDE DEF u, f, full
  <2>4. NothingEnds(s, t)
    BY <1>8, <2>1 DEF NothingEnds
  <2>. QED
    BY <1>8, <2>2, <2>3, <2>4
<1>. QED
  BY <1>9, <1>10

\* Detection ends the transient phase, or a batch, or nothing; its assertion fails only
\* if the transient phase is longer than a batch.
LEMMA DetectResult ==
  ASSUME TypeOK, NEW s \in Statistics, NEW t, t = detect(s)
  PROVE  /\ t \in Statistics
         /\ PhaseEnds(s, t) \/ BatchEnds(s, t) \/ NothingEnds(s, t)
         /\ t.failed => s.failed \/ par.transientRemoval > par.batchLength
<1>. DEFINE m == detectTransient(s)
<1>1. /\ m \in Statistics /\ m.failed = s.failed
      /\ \/ PhaseEnds(s, m) /\ m.samples = 0
         \/ m = s /\ (m.transientOver \/ m.samples < par.transientRemoval)
  BY DetectTransientResult
<1>2. t = detectBatch(m)
  BY DEF detect
<1>. HIDE DEF m
<1>3. /\ t \in Statistics
      /\ \/ /\ BatchEnds(m, t) /\ t.failed = m.failed
            /\ m.samples >= par.batchLength /\ par.batchLength > 0
         \/ /\ NothingEnds(m, t)
            /\ t.failed => m.failed \/ (~m.transientOver /\ m.samples >= par.batchLength)
  BY <1>1, <1>2, DetectBatchResult
<1>4. /\ m.samples \in Nat /\ par.batchLength \in Nat /\ par.transientRemoval \in Nat
  BY <1>1 DEF Statistics, TypeOK, Parameters
<1>5. CASE PhaseEnds(s, m) /\ m.samples = 0
  <2>1. ~(m.samples >= par.batchLength /\ par.batchLength > 0)
    BY <1>4, <1>5
  <2>2. NothingEnds(m, t) /\ (t.failed => m.failed)
    BY <1>3, <1>5, <2>1 DEF PhaseEnds
  <2>. QED
    BY <1>1, <1>3, <1>5, <2>2 DEF PhaseEnds, NothingEnds, Fresh
<1>6. CASE m = s /\ (m.transientOver \/ m.samples < par.transientRemoval)
  BY <1>1, <1>3, <1>4, <1>6
<1>. QED
  BY <1>1, <1>5, <1>6

------------------------------------------------------------------------------
(* The inductive invariant *)

\* With the open intervals collected, the statistics s say the truth.
Settled(s) ==
  /\ s.util.sum + (IF timeout # None THEN now - s.util.since ELSE 0) = truth.busy
  /\ s.util.time + (now - s.util.since) = truth.time
  /\ s.queue.sum + Len(queue) * (now - s.queue.since) = truth.area
  /\ s.queue.time + (now - s.queue.since) = truth.time
  /\ s.recorded = truth.batch

\* The link has just ended a transmission, or was idle and that is collected.
LinkTurns(s) ==
  \/ timeout # None /\ finishes = now
  \/ timeout = None /\ s.util.since = now

\* What a batch records as the link turns is the truth.
LEMMA RecordedIsTrue ==
  ASSUME TypeOK, NEW s \in Statistics, Settled(s), LinkTurns(s)
  PROVE  Recorded(s) = <<truth.busy, truth.time, truth.area, truth.time>>
<1>. DEFINE b == IF finishes < now THEN 0 ELSE 1
            u == Collected(s.util, b)
            q == Collected(s.queue, Len(queue))
<1>1. /\ s.util \in Weighted /\ s.queue \in Weighted
      /\ now \in Nat /\ finishes \in Nat /\ Len(queue) \in Nat
  BY LengthIsNat DEF Statistics, TypeOK
<1>2. /\ s.util.sum \in Int /\ s.util.since \in Nat
      /\ s.queue.sum \in Int /\ s.queue.since \in Nat
  BY <1>1 DEF Weighted
<1>3. u.sum = truth.busy
  <2>1. b * (now - s.util.since) = IF timeout # None THEN now - s.util.since ELSE 0
    <3>1. CASE timeout # None /\ finishes = now
      <4>1. b = 1
        BY <1>1, <3>1
      <4>. QED
        BY <1>1, <1>2, <3>1, <4>1
    <3>2. CASE timeout = None /\ s.util.since = now
      <4>1. now - s.util.since = 0 /\ b \in Nat
        BY <1>1, <3>2
      <4>2. b * 0 = 0
        BY <4>1
      <4>. QED
        BY <3>2, <4>1, <4>2
    <3>. QED
      BY <3>1, <3>2 DEF LinkTurns
  <2>. QED
    BY <2>1 DEF Collected, Settled
<1>4. u.time = truth.time /\ q.sum = truth.area /\ q.time = truth.time
  BY DEF Collected, Settled
<1>. QED
  BY <1>3, <1>4 DEF Recorded

\* After a detection on settled statistics, what is measured is still exact.
LEMMA DetectionKeeps ==
  ASSUME TypeOK, TypeOK', NEW s \in Statistics, Settled(s), LinkTurns(s),
         s.transientOver = stat.transientOver, s.batchNum = stat.batchNum,
         s.failed => par.transientRemoval > par.batchLength,
         s.transientOver \/ s.recorded = <<>>,
         stat' = detect(s), Observe(stat'), par' = par, now' = now, timeout' # None,
         timeout # None \/ s.util.since = now,
         s.queue.since = now \/ queue' = queue
  PROVE  PhaseInv' /\ StatisticsExact'
<1>. DEFINE t == stat'
<1>1. /\ PhaseEnds(s, t) \/ BatchEnds(s, t) \/ NothingEnds(s, t)
      /\ t.failed => s.failed \/ par.transientRemoval > par.batchLength
  BY DetectResult
<1>2. stat'.failed => par'.transientRemoval > par'.batchLength
  BY <1>1
<1>3. /\ s.util \in Weighted /\ s.queue \in Weighted
      /\ now \in Nat /\ Len(queue) \in Nat /\ Len(queue') \in Nat
      /\ s.transientOver \in BOOLEAN /\ s.batchNum \in Nat
  BY LengthIsNat, LenProperties DEF Statistics, TypeOK
<1>4. /\ s.util.sum \in Int /\ s.util.since \in Nat
      /\ s.queue.sum \in Int /\ s.queue.since \in Nat
  BY <1>3 DEF Weighted
<1>5. Len(queue') * 0 = 0 /\ Len(queue) * 0 = 0
  BY <1>3
<1>6. Fresh(t) => /\ t.util.sum = 0 /\ t.util.time = 0 /\ t.util.since = now
                  /\ t.queue.sum = 0 /\ t.queue.time = 0 /\ t.queue.since = now
                  /\ now - now = 0
  BY <1>3 DEF Fresh, Blank
<1>7. CASE PhaseEnds(s, t)
  <2>1. /\ t.transientOver # stat.transientOver /\ t.batchNum = stat.batchNum
        /\ t.recorded = <<>>
    BY <1>7 DEF PhaseEnds
  <2>2. truth' = [busy |-> 0, area |-> 0, time |-> 0, batch |-> <<>>]
    BY <2>1 DEF Observe
  <2>3. t.recorded = truth'.batch
    BY <2>1, <2>2
  <2>4. /\ t.util.sum = 0 /\ t.util.time = 0 /\ t.util.since = now
        /\ t.queue.sum = 0 /\ t.queue.time = 0 /\ t.queue.since = now
        /\ now - now = 0
    BY <1>6, <1>7 DEF PhaseEnds
  <2>5. PhaseInv'
    BY <1>7 DEF PhaseEnds, PhaseInv
  <2>6. truth'.busy = 0 /\ truth'.area = 0 /\ truth'.time = 0
    BY <2>2
  <2>. QED
    BY <1>2, <1>5, <2>3, <2>4, <2>5, <2>6 DEF StatisticsExact
<1>8. CASE BatchEnds(s, t)
  <2>1. t.batchNum # stat.batchNum
    BY <1>3, <1>8 DEF BatchEnds
  <2>2. truth' = [busy |-> 0, area |-> 0, time |-> 0,
                  batch |-> <<truth.busy, truth.time, truth.area, truth.time>>]
    BY <2>1 DEF Observe
  <2>3. t.recorded = truth'.batch
    BY <1>8, <2>2, RecordedIsTrue DEF BatchEnds
  <2>4. /\ t.util.sum = 0 /\ t.util.time = 0 /\ t.util.since = now
        /\ t.queue.sum = 0 /\ t.queue.time = 0 /\ t.queue.since = now
        /\ now - now = 0
    BY <1>6, <1>8 DEF BatchEnds
  <2>5. PhaseInv'
    BY <1>8 DEF BatchEnds, PhaseInv
  <2>6. truth'.busy = 0 /\ truth'.area = 0 /\ truth'.time = 0
    BY <2>2
  <2>. QED
    BY <1>2, <1>5, <2>3, <2>4, <2>5, <2>6 DEF StatisticsExact
<1>9. CASE NothingEnds(s, t)
  <2>1. t.transientOver = stat.transientOver /\ t.batchNum = stat.batchNum
    BY <1>9 DEF NothingEnds
  <2>2. truth' = truth
    BY <2>1 DEF Observe
  <2>3. /\ t.util.sum + (now - t.util.since) = truth.busy
        /\ t.util.time + (now - t.util.since) = truth.time
    <3>1. t.util = s.util
      BY <1>9 DEF NothingEnds
    <3>2. CASE timeout # None
      BY <3>1, <3>2 DEF Settled
    <3>3. CASE timeout = None /\ s.util.since = now
      <4>1. now - s.util.since = 0 /\ s.util.sum = truth.busy
        BY <1>3, <1>4, <3>3 DEF Settled
      <4>. QED
        BY <1>4, <3>1, <3>3, <4>1 DEF Settled
    <3>. QED
      BY <3>2, <3>3
  <2>4. /\ t.queue.sum + Len(queue') * (now - t.queue.since) = truth.area
        /\ t.queue.time + (now - t.queue.since) = truth.time
    <3>1. CASE s.queue.since = now
      <4>1. now - s.queue.since = 0
        BY <1>3, <3>1
      <4>. QED
        BY <1>5, <1>9, <4>1 DEF NothingEnds, Settled
    <3>2. CASE queue' = queue
      BY <1>9, <3>2 DEF NothingEnds, Settled
    <3>. QED
      BY <3>1, <3>2
  <2>5. t.recorded = truth.batch
    BY <1>9 DEF NothingEnds, Settled
  <2>6. PhaseInv'
    BY <1>9 DEF NothingEnds, PhaseInv
  <2>. QED
    BY <1>2, <2>2, <2>3, <2>4, <2>5, <2>6 DEF StatisticsExact
<1>. QED
  BY <1>1, <1>7, <1>8, <1>9

------------------------------------------------------------------------------
(* The operations *)

\* The truth stays of its type.
LEMMA ObserveType ==
  ASSUME TypeOK, NEW s, Observe(s)
  PROVE  truth' \in Truths
<1>1. truth \in Truths /\ <<>> \in Seq(Int)
  BY DEF TypeOK
<1>2. /\ truth.busy \in Int /\ truth.time \in Int /\ truth.area \in Int
  BY <1>1 DEF Truths
<1>3. <<truth.busy, truth.time, truth.area, truth.time>> \in Seq(Int)
  BY <1>2
<1>. QED
  BY <1>1, <1>3 DEF Observe, Truths

\* The invariant says that the statistics are settled.
LEMMA StatSettled ==
  IInv => /\ stat \in Statistics /\ Settled(stat)
          /\ stat.transientOver \/ stat.recorded = <<>>
          /\ stat.failed => par.transientRemoval > par.batchLength
BY DEF IInv, TypeOK, PhaseInv, Settled, StatisticsExact

\* One more packet keeps the statistics settled.
LEMMA WaitingSettled ==
  ASSUME NEW s \in Statistics, Settled(s), NEW w, w = CollectWaiting(s)
  PROVE  Settled(w)
<1>1. w.util = s.util /\ w.queue = s.queue /\ w.recorded = s.recorded
  BY CollectWaitingResult
<1>. QED
  BY <1>1 DEF Settled

\* Collecting the interval of the queue keeps them settled.
LEMMA QueueSettled ==
  ASSUME TypeOK, NEW s \in Statistics, Settled(s), NEW c, c = CollectQueue(s)
  PROVE  Settled(c) /\ c.queue.since = now
<1>1. /\ c.queue = Collected(s.queue, Len(queue))
      /\ c.util = s.util /\ c.recorded = s.recorded
  BY CollectQueueResult
<1>2. /\ s.queue \in Weighted /\ now \in Nat /\ Len(queue) \in Nat
  BY LengthIsNat DEF Statistics, TypeOK
<1>3. s.queue.sum \in Int /\ s.queue.time \in Int /\ s.queue.since \in Nat
  BY <1>2 DEF Weighted
<1>4. c.queue = [sum |-> s.queue.sum + Len(queue) * (now - s.queue.since),
                 time |-> s.queue.time + (now - s.queue.since), since |-> now]
  BY <1>1 DEF Collected
<1>5. truth.area \in Int /\ truth.time \in Int
  BY DEF TypeOK, Truths
<1>6. c.queue.sum = truth.area /\ c.queue.time = truth.time /\ c.queue.since = now
  BY <1>4 DEF Settled
<1>7. Len(queue) * (now - now) = 0 /\ now - now = 0
  BY <1>2
<1>. QED
  BY <1>1, <1>5, <1>6, <1>7 DEF Settled

\* So does collecting the interval of the link, busy if a timeout is pending.
LEMMA UtilSettled ==
  ASSUME TypeOK, NEW s \in Statistics, Settled(s),
         NEW c, c = CollectUtil(s, IF timeout # None THEN 1 ELSE 0)
  PROVE  Settled(c) /\ c.util.since = now /\ c.util.sum = truth.busy
<1>. DEFINE k == IF timeout # None THEN 1 ELSE 0
<1>1. /\ c.util = Collected(s.util, k)
      /\ c.queue = s.queue /\ c.recorded = s.recorded
  BY CollectUtilResult
<1>2. /\ s.util \in Weighted /\ now \in Nat
  BY DEF Statistics, TypeOK
<1>3. s.util.sum \in Int /\ s.util.time \in Int /\ s.util.since \in Nat
  BY <1>2 DEF Weighted
<1>4. k * (now - s.util.since) = IF timeout # None THEN now - s.util.since ELSE 0
  BY <1>2, <1>3
<1>5. c.util = [sum |-> s.util.sum + k * (now - s.util.since),
                time |-> s.util.time + (now - s.util.since), since |-> now]
  BY <1>1 DEF Collected
<1>6. truth.busy \in Int /\ truth.time \in Int
  BY DEF TypeOK, Truths
<1>7. c.util.sum = truth.busy /\ c.util.time = truth.time /\ c.util.since = now
  BY <1>4, <1>5 DEF Settled
<1>8. now - now = 0
  BY <1>2
<1>. QED
  BY <1>1, <1>6, <1>7, <1>8 DEF Settled

\* As a timeout is handled, the invariant holds on.
LEMMA TimeoutKeeps ==
  ASSUME IInv, handleTimeout
  PROVE  IInv'
<1>1. /\ TypeOK /\ LinkInv /\ par' = par /\ now' = now
      /\ timeout = now /\ Observe(stat')
  BY DEF IInv, handleTimeout
<1>2. now \in Nat /\ finishes = now /\ timeout # None
  BY <1>1 DEF TypeOK, LinkInv
<1>3. truth' \in Truths
  BY <1>1, ObserveType
<1>4. CASE queue # <<>> /\ stat' = detect(CollectWaiting(CollectQueue(stat)))
           /\ queue' = Tail(queue) /\ Send(Head(queue))
  <2>. DEFINE c == CollectQueue(stat)
              s == CollectWaiting(c)
  <2>1. /\ c \in Statistics /\ c.queue = Collected(stat.queue, Len(queue))
        /\ c.transientOver = stat.transientOver /\ c.batchNum = stat.batchNum
        /\ c.recorded = stat.recorded /\ c.failed = stat.failed
    BY <1>1, StatSettled, CollectQueueResult
  <2>2. Settled(c) /\ c.queue.since = now
    BY <1>1, StatSettled, QueueSettled
  <2>3. stat' = detect(s)
    BY <1>4
  <2>. HIDE DEF c
  <2>4. /\ s \in Statistics /\ s.util = c.util /\ s.queue = c.queue
        /\ s.transientOver = c.transientOver /\ s.batchNum = c.batchNum
        /\ s.recorded = c.recorded /\ s.failed = c.failed
    BY <2>1, CollectWaitingResult
  <2>5. Settled(s)
    BY <2>1, <2>2, WaitingSettled
  <2>. HIDE DEF s
  <2>6. stat' \in Statistics
    BY <1>1, <2>3, <2>4, DetectResult
  <2>7. Head(queue) \in Packets /\ Tail(queue) \in Seq(Packets)
    BY <1>1, <1>4, HeadTailProperties DEF TypeOK
  <2>8. Head(queue).duration \in Nat
    BY <2>7, InterfaceQueueAssumption DEF Packets
  <2>9. /\ finishes' = now + Head(queue).duration /\ timeout' = finishes'
        /\ finishes' \in Nat /\ timeout' # None /\ now' <= timeout'
    BY <1>1, <1>2, <1>4, <2>8 DEF Send
  <2>10. TypeOK'
    BY <1>1, <1>2, <1>3, <1>4, <2>6, <2>7, <2>9 DEF TypeOK
  <2>11. LinkInv'
    BY <2>9 DEF LinkInv
  <2>12. LinkTurns(s)
    BY <1>2 DEF LinkTurns
  <2>13. /\ s.failed => par.transientRemoval > par.batchLength
         /\ s.transientOver \/ s.recorded = <<>>
         /\ s.transientOver = stat.transientOver /\ s.batchNum = stat.batchNum
         /\ s.queue.since = now
    BY <2>1, <2>2, <2>4, StatSettled
  <2>14. PhaseInv' /\ StatisticsExact'
    BY <1>1, <1>2, <2>3, <2>4, <2>5, <2>9, <2>10, <2>12, <2>13, DetectionKeeps
  <2>. QED
    BY <2>10, <2>11, <2>14 DEF IInv
<1>5. CASE queue = <<>> /\ stat' = CollectUtil(stat, 1) /\ timeout' = None
           /\ UNCHANGED <<queue, finishes>>
  <2>1. /\ stat' \in Statistics /\ stat'.queue = stat.queue
        /\ stat'.transientOver = stat.transientOver /\ stat'.batchNum = stat.batchNum
        /\ stat'.recorded = stat.recorded /\ stat'.failed = stat.failed
    BY <1>1, <1>5, StatSettled, CollectUtilResult
  <2>2. Settled(stat') /\ stat'.util.sum = truth.busy
    BY <1>1, <1>2, <1>5, StatSettled, UtilSettled
  <2>3. truth' = truth
    BY <1>1, <2>1 DEF Observe
  <2>4. TypeOK'
    BY <1>1, <1>3, <1>5, <2>1 DEF TypeOK
  <2>5. LinkInv'
    BY <1>1, <1>2, <1>5 DEF LinkInv
  <2>6. PhaseInv'
    BY <2>1 DEF PhaseInv, IInv
  <2>7. truth.busy \in Int /\ truth.busy + 0 = truth.busy
    BY <1>1 DEF TypeOK, Truths
  <2>8. stat'.failed => par.transientRemoval > par.batchLength
    BY <2>1, StatSettled
  <2>9. StatisticsExact'
    BY <1>1, <1>5, <2>2, <2>3, <2>7, <2>8 DEF StatisticsExact, Settled
  <2>. QED
    BY <2>4, <2>5, <2>6, <2>9 DEF IInv
<1>. QED
  BY <1>4, <1>5 DEF handleTimeout

\* As a packet arrives, the invariant holds on.
LEMMA MessageKeeps ==
  ASSUME IInv, NEW duration \in Durations,
         handleMessage(duration)
  PROVE  IInv'
<1>1. /\ TypeOK /\ LinkInv /\ par' = par /\ now' = now
      /\ timeout # now /\ Observe(stat')
  BY DEF IInv, handleMessage
<1>2. now \in Nat /\ finishes \in Nat /\ timeout \in Nat \cup {None} /\ duration \in Nat
  BY <1>1, InterfaceQueueAssumption DEF TypeOK
<1>3. truth' \in Truths
  BY <1>1, ObserveType
<1>4. CASE CanSend /\ stat' = detect(CollectWaiting(CollectUtil(stat, 0)))
           /\ Send([duration |-> duration]) /\ UNCHANGED queue
  <2>. DEFINE c == CollectUtil(stat, 0)
              s == CollectWaiting(c)
  <2>1. timeout = None
    BY <1>1, <1>2, <1>4 DEF CanSend, LinkInv
  <2>2. /\ c \in Statistics /\ c.queue = stat.queue
        /\ c.transientOver = stat.transientOver /\ c.batchNum = stat.batchNum
        /\ c.recorded = stat.recorded /\ c.failed = stat.failed
    BY <1>1, StatSettled, CollectUtilResult
  <2>3. Settled(c) /\ c.util.since = now
    BY <1>1, <2>1, StatSettled, UtilSettled
  <2>4. stat' = detect(s)
    BY <1>4
  <2>. HIDE DEF c
  <2>5. /\ s \in Statistics /\ s.util = c.util /\ s.queue = c.queue
        /\ s.transientOver = c.transientOver /\ s.batchNum = c.batchNum
        /\ s.recorded = c.recorded /\ s.failed = c.failed
    BY <2>2, CollectWaitingResult
  <2>6. Settled(s)
    BY <2>2, <2>3, WaitingSettled
  <2>. HIDE DEF s
  <2>7. stat' \in Statistics
    BY <1>1, <2>4, <2>5, DetectResult
  <2>8. /\ finishes' = now + duration /\ timeout' = finishes'
        /\ finishes' \in Nat /\ timeout' # None /\ now' <= timeout'
    BY <1>1, <1>2, <1>4 DEF Send
  <2>9. TypeOK'
    BY <1>1, <1>2, <1>3, <1>4, <2>7, <2>8 DEF TypeOK
  <2>10. LinkInv'
    BY <2>8 DEF LinkInv
  <2>11. LinkTurns(s)
    BY <2>1, <2>3, <2>5 DEF LinkTurns
  <2>12. /\ s.failed => par.transientRemoval > par.batchLength
         /\ s.transientOver \/ s.recorded = <<>>
         /\ s.transientOver = stat.transientOver /\ s.batchNum = stat.batchNum
         /\ s.util.since = now
    BY <2>2, <2>3, <2>5, StatSettled
  <2>13. PhaseInv' /\ StatisticsExact'
    BY <1>1, <1>4, <2>4, <2>5, <2>6, <2>8, <2>9, <2>11, <2>12, DetectionKeeps
  <2>. QED
    BY <2>9, <2>10, <2>13 DEF IInv
<1>5. CASE ~CanSend /\ stat' = CollectQueue(stat)
           /\ queue' = Append(queue, [arrival |-> now, duration |-> duration])
           /\ UNCHANGED <<finishes, timeout>>
  <2>1. /\ stat' \in Statistics /\ stat'.util = stat.util
        /\ stat'.transientOver = stat.transientOver /\ stat'.batchNum = stat.batchNum
        /\ stat'.recorded = stat.recorded /\ stat'.failed = stat.failed
    BY <1>1, <1>5, StatSettled, CollectQueueResult
  <2>2. Settled(stat') /\ stat'.queue.since = now
    BY <1>1, <1>5, StatSettled, QueueSettled
  <2>3. truth' = truth
    BY <1>1, <2>1 DEF Observe
  <2>4. [arrival |-> now, duration |-> duration] \in Packets
    BY <1>2 DEF Packets
  <2>5. queue' \in Seq(Packets)
    BY <1>1, <1>5, <2>4, AppendProperties DEF TypeOK
  <2>6. TypeOK'
    BY <1>1, <1>3, <1>5, <2>1, <2>5 DEF TypeOK
  <2>7. timeout # None
    BY <1>2, <1>1, <1>5 DEF CanSend, LinkInv
  <2>8. LinkInv'
    BY <1>1, <1>5, <2>7 DEF LinkInv
  <2>9. PhaseInv'
    BY <2>1 DEF PhaseInv, IInv
  <2>10. /\ now - now = 0 /\ Len(queue') * 0 = 0 /\ Len(queue) * 0 = 0
    BY <1>2, <2>6, LengthIsNat, <1>1, LenProperties DEF TypeOK
  <2>11. stat'.failed => par.transientRemoval > par.batchLength
    BY <2>1, StatSettled
  <2>12. StatisticsExact'
    BY <1>1, <1>5, <2>2, <2>3, <2>10, <2>11 DEF StatisticsExact, Settled
  <2>. QED
    BY <2>6, <2>8, <2>9, <2>12 DEF IInv
<1>6. CASE UNCHANGED <<stat, queue, finishes, timeout>>
  <2>1. truth' = truth
    BY <1>1, <1>6 DEF Observe
  <2>. QED
    BY <1>1, <1>6, <2>1 DEF IInv, TypeOK, LinkInv, PhaseInv, StatisticsExact
<1>. QED
  BY <1>4, <1>5, <1>6 DEF handleMessage

\* As time passes, the invariant holds on.
LEMMA TickKeeps == IInv /\ Tick => IInv'
<1>. SUFFICES ASSUME IInv, Tick
              PROVE  IInv'
  OBVIOUS
<1>. DEFINE n == Len(queue)
            a == now - stat.queue.since
            b == IF now < finishes THEN 1 ELSE 0
<1>1. /\ TypeOK /\ LinkInv /\ StatisticsExact /\ PhaseInv /\ timeout # now
      /\ now' = now + 1
      /\ truth' = [busy |-> truth.busy + b, area |-> truth.area + Len(queue),
                   time |-> truth.time + 1, batch |-> truth.batch]
      /\ UNCHANGED <<par, queue, finishes, timeout, stat>>
  BY DEF IInv, Tick
<1>2. /\ now \in Nat /\ finishes \in Nat /\ timeout \in Nat \cup {None}
      /\ n \in Nat /\ stat.util \in Weighted /\ stat.queue \in Weighted
      /\ truth.busy \in Int /\ truth.area \in Int /\ truth.time \in Int
      /\ truth.batch \in Seq(Int)
  BY <1>1, LengthIsNat DEF TypeOK, Statistics, Truths
<1>3. /\ stat.util.since \in Nat /\ stat.queue.since \in Nat
      /\ stat.util.sum \in Int /\ stat.util.time \in Int
      /\ stat.queue.sum \in Int /\ stat.queue.time \in Int
  BY <1>2 DEF Weighted
<1>4. truth' \in Truths
  BY <1>1, <1>2, SMTT(30) DEF Truths
<1>5. TypeOK'
  BY <1>1, <1>2, <1>4 DEF TypeOK
<1>6. LinkInv'
  BY <1>1, <1>2 DEF LinkInv
<1>7. PhaseInv'
  BY <1>1 DEF PhaseInv
<1>8. timeout # None <=> now < finishes
  BY <1>1, <1>2 DEF LinkInv
<1>9. /\ truth'.busy = truth.busy + b /\ truth'.area = truth.area + n
      /\ truth'.time = truth.time + 1 /\ truth'.batch = truth.batch
  BY <1>1
<1>10. now' = now + 1
  BY <1>1
<1>11. /\ now' - stat.util.since = (now - stat.util.since) + 1
       /\ now' - stat.queue.since = a + 1
       /\ now - stat.util.since \in Int /\ a \in Int
  <2>1. /\ now \in Nat /\ now' \in Nat
        /\ stat.util.since \in Nat /\ stat.queue.since \in Nat
    BY <1>2, <1>3, <1>10
  <2>2. ASSUME NEW i \in Nat, NEW j \in Nat, NEW k \in Nat, j = i + 1
        PROVE  j - k = (i - k) + 1 /\ i - k \in Int
    BY <2>2
  <2>. QED
    BY <2>1, <2>2, <1>10
<1>12. /\ stat.util.sum + (IF timeout # None THEN now - stat.util.since ELSE 0) = truth.busy
       /\ stat.util.time + (now - stat.util.since) = truth.time
       /\ stat.queue.sum + n * a = truth.area
       /\ stat.queue.time + a = truth.time
  BY <1>1 DEF StatisticsExact
<1>13. stat.util.sum + (IF timeout # None THEN now' - stat.util.since ELSE 0) = truth'.busy
  <2>. HIDE DEF a, n
  <2>1. CASE timeout # None
    <3>1. b = 1
      BY <1>8, <2>1
    <3>. QED
      BY <1>3, <1>9, <1>11, <1>12, <2>1, <3>1
  <2>2. CASE timeout = None
    <3>1. b = 0
      BY <1>8, <2>2
    <3>. QED
      BY <1>3, <1>9, <1>12, <2>2, <3>1
  <2>. QED
    BY <2>1, <2>2
<1>14. stat.queue.sum + n * (now' - stat.queue.since) = truth'.area
  <2>. HIDE DEF a, n
  <2>1. n * (a + 1) = n * a + n /\ n * a \in Int
    BY <1>2, <1>11
  <2>2. stat.queue.sum + (n * a + n) = (stat.queue.sum + n * a) + n
    BY <1>2, <1>3, <2>1
  <2>. QED
    BY <1>9, <1>11, <1>12, <2>1, <2>2
<1>15. /\ stat.util.time + (now' - stat.util.since) = truth'.time
       /\ stat.queue.time + (now' - stat.queue.since) = truth'.time
  <2>1. ASSUME NEW i \in Int, NEW j \in Int, NEW k \in Int, i + j = k
        PROVE  i + (j + 1) = k + 1
    BY <2>1
  <2>2. truth.time \in Int /\ truth'.time = truth.time + 1
    BY <1>2, <1>9
  <2>. DEFINE d == now - stat.util.since
  <2>3. /\ now' - stat.util.since = d + 1 /\ d \in Int
        /\ now' - stat.queue.since = a + 1 /\ a \in Int
        /\ stat.util.time + d = truth.time /\ stat.queue.time + a = truth.time
    BY <1>11, <1>12
  <2>. HIDE DEF a, d
  <2>4. stat.util.time + (d + 1) = truth.time + 1
    BY <1>3, <2>1, <2>2, <2>3
  <2>5. stat.queue.time + (a + 1) = truth.time + 1
    BY <1>3, <2>1, <2>2, <2>3
  <2>. QED
    BY <2>2, <2>3, <2>4, <2>5
<1>16. StatisticsExact'
  BY <1>1, <1>9, <1>13, <1>14, <1>15 DEF StatisticsExact
<1>. QED
  BY <1>5, <1>6, <1>7, <1>16 DEF IInv

\* A queue begins with nothing measured.
LEMMA Initially == QueueInit => IInv
<1>. SUFFICES ASSUME QueueInit
              PROVE  IInv
  OBVIOUS
<1>1. /\ now = 0 /\ queue = <<>> /\ finishes = 0 /\ timeout = None
      /\ par \in Parameters
  BY InterfaceQueueAssumption DEF QueueInit, Parameters
<1>2. Blank = [sum |-> 0, time |-> 0, since |-> 0]
  BY <1>1 DEF Blank
<1>3. /\ stat.util = Blank /\ stat.queue = Blank /\ stat.recorded = <<>>
      /\ stat.failed = FALSE
  BY DEF QueueInit
<1>4. truth.busy = 0 /\ truth.area = 0 /\ truth.time = 0 /\ truth.batch = <<>>
  BY DEF QueueInit
<1>5. TypeOK
  <2>1. Blank \in Weighted /\ <<>> \in Seq(Int)
    BY <1>2 DEF Weighted
  <2>2. stat \in Statistics /\ truth \in Truths
    BY <2>1 DEF QueueInit, Statistics, Truths
  <2>. QED
    BY <1>1, <2>2 DEF TypeOK
<1>6. StatisticsExact
  BY <1>1, <1>2, <1>3, <1>4 DEF StatisticsExact
<1>. QED
  BY <1>1, <1>3, <1>5, <1>6 DEF IInv, LinkInv, PhaseInv

\* No step breaks the invariant.
LEMMA StepKeeps == IInv /\ [QueueNext]_queueVars => IInv'
<1>. SUFFICES ASSUME IInv, [QueueNext]_queueVars
              PROVE  IInv'
  OBVIOUS
<1>1. CASE handleTimeout
  BY <1>1, TimeoutKeeps
<1>2. ASSUME NEW d \in Durations, handleMessage(d)
      PROVE  IInv'
  BY <1>2, MessageKeeps
<1>3. CASE Tick
  BY <1>3, TickKeeps
<1>4. CASE UNCHANGED queueVars
  BY <1>4 DEF queueVars, IInv, TypeOK, LinkInv, PhaseInv, StatisticsExact
<1>. QED
  BY <1>1, <1>2, <1>3, <1>4 DEF QueueNext

\* The invariant holds in every state, whatever the durations and the parameters.
THEOREM QueueInvariant == QueueSpec => []IInv
BY Initially, StepKeeps, PTL DEF QueueSpec

\* The link is never left idle while a packet waits and no packet is sent over one on its
\* way; what a batch records of the link and the queue is the truth.
THEOREM QueueIsExact == QueueSpec => []QueueExact
<1>1. IInv => QueueExact
  <2>. SUFFICES ASSUME IInv
                PROVE  QueueExact
    OBVIOUS
  <2>1. /\ LinkInv /\ StatisticsExact /\ now \in Nat /\ finishes \in Nat
        /\ timeout \in Nat \cup {None}
    BY DEF IInv, TypeOK
  <2>2. timeout # now /\ CanSend => timeout = None
    BY <2>1 DEF LinkInv, CanSend
  <2>. QED
    BY <2>1, <2>2 DEF QueueExact, LinkServed, LinkInv
<1>. QED
  BY <1>1, QueueInvariant, PTL

------------------------------------------------------------------------------
(* The packet buffer *)

Packet == [seqNo : Nat \cup {-1}, armed : BOOLEAN]

\* the index k slots after index f
Place(f, k) == (f + k) % maxCount

\* the packets of c slots from index f
Held(s, f, c) == [i \in 1..c |-> s[Place(f, i - 1)]]

BufferTypeOK ==
  /\ minSeqNo \in Nat
  /\ count \in 0..maxCount
  /\ firstIndex \in Indices
  /\ slot \in [Indices -> Packet]

\* The held packets lie one after the other, in the order of their numbers, and the
\* index to fill next lies behind them.
BInv ==
  /\ BufferTypeOK
  /\ freeIndex = Place(firstIndex, count)
  /\ \A k \in 0..(count - 1) : slot[Place(firstIndex, k)].seqNo = minSeqNo + k

USE DataBufferAssumption

------------------------------------------------------------------------------
(* The ring *)

\* Where a place is: behind the last index the ring goes on with the first.
LEMMA PlaceIs ==
  ASSUME NEW f \in Indices, NEW k \in 0..maxCount
  PROVE  /\ Place(f, k) = IF f + k < maxCount THEN f + k ELSE f + k - maxCount
         /\ Place(f, k) \in Indices
<1>1. PICK N \in Nat \ {0} : N = maxCount
  OBVIOUS
<1>2. f \in 0..(N - 1) /\ k \in 0..N
  BY <1>1 DEF Indices
<1>3. \A x \in 0..(N - 1) : x % N = x
  OBVIOUS
<1>4. \A x \in N..(2 * N - 1) : x % N = x - N
  OBVIOUS
<1> PICK g \in 0..(N - 1), h \in 0..N : g = f /\ h = k
  BY <1>2
<1>5. CASE f + k < N
  <2>1. (f + k) % N = f + k
    BY <1>2, <1>3, <1>5
  <2>. QED
    BY <1>1, <1>2, <1>5, <2>1 DEF Place, Indices
<1>6. CASE ~(f + k < N)
  <2>1. f + k \in N..(2 * N - 1)
    BY <1>2, <1>6
  <2>2. (g + h) % N = g + h - N
    BY <1>4, <2>1
  <2>3. Place(f, k) = f + k - N /\ f + k - N \in 0..(N - 1)
    BY <1>1, <2>1, <2>2 DEF Place
  <2>. QED
    BY <1>1, <1>6, <2>3 DEF Indices
<1>. QED
  BY <1>5, <1>6

\* Within one round, no index comes twice.
LEMMA PlacesDiffer ==
  ASSUME NEW f \in Indices,
         NEW j \in 0..(maxCount - 1), NEW k \in 0..(maxCount - 1), Place(f, j) = Place(f, k)
  PROVE  j = k
<1>1. PICK N \in Nat : N = maxCount
  OBVIOUS
<1>2. PICK a \in 0..(N - 1), b \in 0..(N - 1), g \in 0..(N - 1) : a = j /\ b = k /\ g = f
  BY <1>1 DEF Indices
<1>3. (IF g + a < N THEN g + a ELSE g + a - N) = (IF g + b < N THEN g + b ELSE g + b - N)
  <2>1. j \in 0..maxCount /\ k \in 0..maxCount
    BY <1>1, <1>2
  <2>. QED
    BY <1>1, <1>2, <2>1, PlaceIs
<1>4. a = b
  BY <1>3
<1>. QED
  BY <1>2, <1>4

\* Places add up.
LEMMA PlacesAdd ==
  ASSUME NEW f \in Indices,
         NEW n \in 0..maxCount, NEW k \in 0..(maxCount - n)
  PROVE  Place(Place(f, n), k) = Place(f, n + k)
<1>1. maxCount \in Nat
  OBVIOUS
<1>2. f \in 0..(maxCount - 1) /\ n + k \in 0..maxCount /\ k \in 0..maxCount
  BY <1>1 DEF Indices
<1> DEFINE p == Place(f, n)
<1>3. p = (IF f + n < maxCount THEN f + n ELSE f + n - maxCount) /\ p \in Indices
  BY PlaceIs
<1> HIDE DEF p
<1>4. /\ Place(p, k) = IF p + k < maxCount THEN p + k ELSE p + k - maxCount
      /\ Place(f, n + k) = IF f + (n + k) < maxCount THEN f + (n + k)
                           ELSE f + (n + k) - maxCount
  BY <1>2, <1>3, PlaceIs
<1>5. Place(p, k) = Place(f, n + k)
  BY <1>1, <1>2, <1>3, <1>4
<1>. QED
  BY <1>5 DEF p

\* The packets of c slots are a sequence.
LEMMA HeldIs ==
  ASSUME NEW s \in [Indices -> Packet], NEW f \in Indices,
         NEW c \in 0..maxCount
  PROVE  /\ Held(s, f, c) \in Seq(Packet)
         /\ Len(Held(s, f, c)) = c /\ DOMAIN Held(s, f, c) = 1..c
         /\ \A i \in 1..c : /\ Held(s, f, c)[i] = s[Place(f, i - 1)]
                            /\ s[Place(f, i - 1)] \in Packet
<1>1. c \in Nat /\ maxCount \in Nat
  OBVIOUS
<1>2. ASSUME NEW i \in 1..c
      PROVE  s[Place(f, i - 1)] \in Packet
  <2>1. i - 1 \in 0..maxCount
    BY <1>1
  <2>2. Place(f, i - 1) \in Indices
    BY <2>1, PlaceIs
  <2>. QED
    BY <2>2
<1>3. Held(s, f, c) \in [1..c -> Packet]
  BY <1>2 DEF Held
<1>4. Held(s, f, c) \in Seq(Packet) /\ Len(Held(s, f, c)) = c
  BY <1>1, <1>3
<1>. QED
  BY <1>2, <1>3, <1>4 DEF Held

\* What getDataPacketFromBuffer returns for the numbers held.
Returned(s, m, f, c) ==
  [i \in 1..c |-> IF (m + i - 1) - m \in 0..(c - 1)
                  THEN s[((m + i - 1) - m + f) % maxCount] ELSE NoPacket]

\* These are the packets held.
LEMMA ReturnedIs ==
  ASSUME NEW s, NEW m \in Nat, NEW f \in Indices,
         NEW c \in 0..maxCount
  PROVE  Returned(s, m, f, c) = Held(s, f, c)
<1>1. c \in Nat /\ maxCount \in Nat /\ f \in Nat
  BY DEF Indices
<1>2. ASSUME NEW i \in 1..c
      PROVE  /\ (m + i - 1) - m \in 0..(c - 1)
             /\ ((m + i - 1) - m + f) % maxCount = Place(f, i - 1)
  <2>1. (m + i - 1) - m \in 0..(c - 1) /\ (m + i - 1) - m + f = f + (i - 1)
    BY <1>1
  <2>. QED
    BY <2>1 DEF Place
<1>. QED
  BY <1>2 DEF Held, Returned

\* The queue that DataBuffer stands for.
TheQueue == [i \in 1..count |-> getDataPacketFromBuffer(minSeqNo + i - 1)]

\* It is the sequence of the packets held.
LEMMA QueueIs ==
  ASSUME BufferTypeOK
  PROVE  TheQueue = Held(slot, firstIndex, count)
<1>1. minSeqNo \in Nat /\ firstIndex \in Indices /\ count \in 0..maxCount
  BY DEF BufferTypeOK
<1>2. TheQueue = Returned(slot, minSeqNo, firstIndex, count)
  BY DEF TheQueue, Returned, getDataPacketFromBuffer, bufferContainsPacket, IndexOf
<1>. QED
  BY <1>1, <1>2, ReturnedIs

\* It still is after a step.
LEMMA QueueWillBe ==
  ASSUME BufferTypeOK'
  PROVE  TheQueue' = Held(slot', firstIndex', count')
<1>1. minSeqNo' \in Nat /\ firstIndex' \in Indices /\ count' \in 0..maxCount
  BY DEF BufferTypeOK, Indices
<1>2. TheQueue' = Returned(slot', minSeqNo', firstIndex', count')
  BY DEF TheQueue, Returned, getDataPacketFromBuffer, bufferContainsPacket, IndexOf
<1>. QED
  BY <1>1, <1>2, ReturnedIs

\* A packet of the queue is one of the ring.
LEMMA Stored ==
  ASSUME BInv
  PROVE  /\ maxCount \in Nat \ {0} /\ count \in 0..maxCount /\ minSeqNo \in Nat
         /\ TheQueue \in Seq(Packet) /\ Len(TheQueue) = count
         /\ DOMAIN TheQueue = 1..count
         /\ \A i \in 1..count : /\ TheQueue[i] = slot[Place(firstIndex, i - 1)]
                                /\ TheQueue[i] \in Packet
                                /\ TheQueue[i].seqNo = minSeqNo + i - 1
<1>1. /\ slot \in [Indices -> Packet] /\ firstIndex \in Indices /\ count \in 0..maxCount
      /\ minSeqNo \in Nat /\ maxCount \in Nat \ {0}
  BY DEF BInv, BufferTypeOK
<1>2. /\ TheQueue \in Seq(Packet) /\ Len(TheQueue) = count /\ DOMAIN TheQueue = 1..count
      /\ \A i \in 1..count : /\ TheQueue[i] = slot[Place(firstIndex, i - 1)]
                             /\ TheQueue[i] \in Packet
  BY <1>1, QueueIs, HeldIs, SMTT(30) DEF BInv
<1>3. ASSUME NEW i \in 1..count
      PROVE  TheQueue[i].seqNo = minSeqNo + i - 1
  <2>1. i - 1 \in 0..(count - 1) /\ minSeqNo + (i - 1) = minSeqNo + i - 1
    BY <1>1
  <2>. QED
    BY <1>2, <2>1 DEF BInv
<1>. QED
  BY <1>1, <1>2, <1>3

------------------------------------------------------------------------------
(* The steps *)

\* A packet is put behind the others.
LEMMA PutRefines ==
  ASSUME BInv, NEW seqNo \in 0..MaxSeqNo, Put(seqNo)
  PROVE  BInv' /\ Queue!Put
<1> DEFINE p == [seqNo |-> minSeqNo + count, armed |-> FALSE]
<1>1. /\ maxCount \in Nat \ {0} /\ count \in 0..(maxCount - 1) /\ minSeqNo \in Nat
      /\ firstIndex \in Indices /\ slot \in [Indices -> Packet]
      /\ freeIndex = Place(firstIndex, count) /\ freeIndex \in Indices
  <2>1. /\ maxCount \in Nat \ {0} /\ count \in 0..(maxCount - 1) /\ minSeqNo \in Nat
        /\ firstIndex \in Indices /\ slot \in [Indices -> Packet]
        /\ freeIndex = Place(firstIndex, count)
    BY DEF BInv, BufferTypeOK, Put
  <2>2. count \in 0..maxCount
    BY <2>1
  <2>. QED
    BY <2>1, <2>2, PlaceIs
\* the assertion about its index admits no other number
<1>2. seqNo = minSeqNo + count
  <2> DEFINE k == seqNo - minSeqNo
  <2>1. k \in 0..(maxCount - 1) /\ k + firstIndex = firstIndex + k
    BY <1>1 DEF Put, Indices
  <2>2. Place(firstIndex, k) = freeIndex
    BY <2>1 DEF Put, IndexOf, Place
  <2>3. k = count
    BY <1>1, <2>1, <2>2, PlacesDiffer
  <2>. QED
    BY <1>1, <2>3
<1>3. /\ slot' = [slot EXCEPT ![freeIndex] = p]
      /\ freeIndex' = Place(freeIndex, 1) /\ count' = count + 1
      /\ minSeqNo' = minSeqNo /\ firstIndex' = firstIndex
  BY <1>2 DEF Put, Place
<1>4. p \in Packet /\ p.seqNo = minSeqNo + count
  BY <1>1 DEF Packet
<1> HIDE DEF p
<1>5. /\ slot' \in [Indices -> Packet] /\ slot'[freeIndex] = p
      /\ \A i \in Indices : i # freeIndex => slot'[i] = slot[i]
  BY <1>1, <1>3, <1>4
<1>6. count' \in 0..maxCount /\ count' \in Nat
  BY <1>1, <1>3
<1>7. BufferTypeOK'
  BY <1>1, <1>3, <1>5, <1>6 DEF BufferTypeOK, Indices
<1>8. ASSUME NEW k \in 0..(count - 1)
      PROVE  slot'[Place(firstIndex, k)] = slot[Place(firstIndex, k)]
  <2>1. k \in 0..(maxCount - 1) /\ k \in 0..maxCount /\ k # count
    BY <1>1
  <2>2. Place(firstIndex, k) \in Indices /\ Place(firstIndex, k) # freeIndex
    BY <1>1, <2>1, PlaceIs, PlacesDiffer
  <2>. QED
    BY <1>5, <2>2
<1>9. BInv'
  <2>1. freeIndex' = Place(firstIndex', count')
    <3>1. count \in 0..maxCount /\ 1 \in 0..(maxCount - count)
      BY <1>1
    <3>. QED
      BY <1>1, <1>3, <3>1, PlacesAdd
  <2>2. ASSUME NEW k \in 0..(count' - 1)
        PROVE  slot'[Place(firstIndex, k)].seqNo = minSeqNo + k
    <3>1. CASE k \in 0..(count - 1)
      BY <1>8, <3>1 DEF BInv
    <3>2. CASE k = count
      BY <1>1, <1>4, <1>5, <3>2
    <3>. QED
      BY <1>1, <1>3, <3>1, <3>2
  <2>3. \A k \in 0..(count' - 1) : slot'[Place(firstIndex', k)].seqNo = minSeqNo' + k
    BY <1>3, <2>2
  <2>. QED
    BY <1>7, <2>1, <2>3 DEF BInv, Place
<1>10. TheQueue' = Append(TheQueue, p)
  <2>1. /\ TheQueue' \in Seq(Packet) /\ Len(TheQueue') = count'
        /\ \A i \in 1..count' : TheQueue'[i] = slot'[Place(firstIndex, i - 1)]
    <3>1. TheQueue' = Held(slot', firstIndex, count')
      BY <1>3, <1>7, QueueWillBe
    <3>. QED
      BY <1>1, <1>5, <1>6, <3>1, HeldIs, ZenonT(30)
  <2>2. /\ Append(TheQueue, p) \in Seq(Packet) /\ Len(Append(TheQueue, p)) = count + 1
        /\ \A i \in 1..count : Append(TheQueue, p)[i] = slot[Place(firstIndex, i - 1)]
        /\ Append(TheQueue, p)[count + 1] = p
    <3>1. /\ TheQueue \in Seq(Packet) /\ Len(TheQueue) = count
          /\ \A i \in 1..count : TheQueue[i] = slot[Place(firstIndex, i - 1)]
      BY Stored
    <3>2. /\ Append(TheQueue, p) \in Seq(Packet)
          /\ Len(Append(TheQueue, p)) = Len(TheQueue) + 1
          /\ \A i \in 1..Len(TheQueue) : Append(TheQueue, p)[i] = TheQueue[i]
          /\ Append(TheQueue, p)[Len(TheQueue) + 1] = p
      BY <1>4, <3>1, AppendProperties
    <3>. QED
      BY <3>1, <3>2
  <2>3. ASSUME NEW i \in 1..count'
        PROVE  TheQueue'[i] = Append(TheQueue, p)[i]
    <3>1. CASE i \in 1..count
      <4>1. i - 1 \in 0..(count - 1)
        BY <1>1, <3>1
      <4>. QED
        BY <1>8, <2>1, <2>2, <3>1, <4>1
    <3>2. CASE i = count + 1
      <4>1. i - 1 = count
        BY <1>1, <3>2
      <4>. QED
        BY <1>1, <1>5, <2>1, <2>2, <3>2, <4>1
    <3>3. count \in Nat /\ i \in 1..(count + 1)
      BY <1>1, <1>3
    <3>4. i \in 1..count \/ i = count + 1
      BY <3>3
    <3>. QED
      BY <3>1, <3>2, <3>4
  <2>. QED
    BY <1>3, <2>1, <2>2, <2>3, SeqEqual
<1>11. Queue!Put
  <2>1. /\ Len(TheQueue) < maxCount
        /\ p = [seqNo |-> minSeqNo + Len(TheQueue), armed |-> FALSE]
        /\ UNCHANGED minSeqNo
    <3>1. Len(TheQueue) = count
      BY Stored
    <3>2. count < maxCount /\ UNCHANGED minSeqNo
      BY <1>1, <1>3
    <3>. QED
      BY <3>1, <3>2 DEF p
  <2>2. TheQueue' = Append(TheQueue, [seqNo |-> minSeqNo + Len(TheQueue), armed |-> FALSE])
    BY <1>10, <2>1
  <2>. QED
    BY <2>1, <2>2, Zenon DEF Queue!Put, TheQueue
<1>. QED
  BY <1>9, <1>11

\* Timeouts are set or reset: the numbers stay.
LEMMA OnlyTimeouts ==
  ASSUME BInv,
         UNCHANGED <<minSeqNo, firstIndex, freeIndex, count>>,
         slot' \in [Indices -> Packet],
         \A i \in Indices : slot'[i].seqNo = slot[i].seqNo
  PROVE  /\ BInv'
         /\ TheQueue' \in Seq(Packet) /\ Len(TheQueue') = count
         /\ \A i \in 1..count : TheQueue'[i] = slot'[Place(firstIndex, i - 1)]
<1>1. /\ maxCount \in Nat /\ count \in 0..maxCount /\ firstIndex \in Indices
      /\ minSeqNo' = minSeqNo /\ firstIndex' = firstIndex /\ count' = count
  BY DEF BInv, BufferTypeOK
<1>2. BufferTypeOK'
  BY DEF BInv, BufferTypeOK, Indices
<1>3. ASSUME NEW k \in 0..(count - 1)
      PROVE  slot'[Place(firstIndex, k)].seqNo = minSeqNo + k
  <2>1. k \in 0..maxCount
    BY <1>1
  <2>2. Place(firstIndex, k) \in Indices
    BY <1>1, <2>1, PlaceIs
  <2>. QED
    BY <2>2 DEF BInv
<1>4. BInv'
  BY <1>2, <1>3 DEF BInv, Place
<1>5. TheQueue' = Held(slot', firstIndex, count)
  BY <1>1, <1>2, QueueWillBe
<1>. QED
  BY <1>1, <1>4, <1>5, HeldIs

\* A packet is sent: its timeout is set.
LEMMA ArmRefines ==
  ASSUME BInv, NEW seqNo \in 0..MaxSeqNo, Arm(seqNo)
  PROVE  BInv' /\ \E n \in 1..maxCount : Queue!Arm(n)
<1> DEFINE k == seqNo - minSeqNo
           n == k + 1
           e == [TheQueue[n] EXCEPT !.armed = TRUE]
<1>1. /\ maxCount \in Nat \ {0} /\ count \in 0..maxCount
      /\ firstIndex \in Indices /\ slot \in [Indices -> Packet]
      /\ UNCHANGED <<minSeqNo, firstIndex, freeIndex, count>>
      /\ k \in 0..(count - 1) /\ k + firstIndex = firstIndex + k
  BY DEF BInv, BufferTypeOK, Arm, bufferContainsPacket, Indices
<1>2. IndexOf(seqNo) = Place(firstIndex, k)
  BY <1>1 DEF IndexOf, Place
<1>3. slot' = [slot EXCEPT ![Place(firstIndex, k)].armed = TRUE]
  BY <1>2 DEF Arm
<1> HIDE DEF k
<1>4. k \in 0..maxCount /\ k \in 0..(maxCount - 1)
  BY <1>1
<1>5. n \in 1..count /\ n \in 1..maxCount /\ n - 1 = k
  BY <1>1
<1>6. Place(firstIndex, k) \in Indices
  BY <1>1, <1>4, PlaceIs
<1>7. TheQueue[n] = slot[Place(firstIndex, k)] /\ TheQueue[n] \in Packet
  BY <1>5, Stored
<1>8. e \in Packet /\ e.seqNo = TheQueue[n].seqNo
  BY <1>7 DEF Packet
<1>9. slot' = [slot EXCEPT ![Place(firstIndex, k)] = e]
  BY <1>3, <1>6, <1>7
<1> HIDE DEF e, n
<1>10. /\ slot' \in [Indices -> Packet] /\ slot'[Place(firstIndex, k)] = e
       /\ \A i \in Indices : i # Place(firstIndex, k) => slot'[i] = slot[i]
  BY <1>1, <1>6, <1>8, <1>9
<1>11. \A i \in Indices : slot'[i].seqNo = slot[i].seqNo
  BY <1>7, <1>8, <1>10
<1>12. /\ BInv'
       /\ TheQueue' \in Seq(Packet) /\ Len(TheQueue') = count
       /\ \A i \in 1..count : TheQueue'[i] = slot'[Place(firstIndex, i - 1)]
  BY <1>1, <1>10, <1>11, OnlyTimeouts
<1>13. /\ [TheQueue EXCEPT ![n] = e] \in Seq(Packet)
       /\ Len([TheQueue EXCEPT ![n] = e]) = count
       /\ \A j \in 1..count : [TheQueue EXCEPT ![n] = e][j]
                                = IF j = n THEN e ELSE TheQueue[j]
  BY <1>5, <1>8, Stored, ExceptSeq
<1>14. ASSUME NEW i \in 1..count
       PROVE  TheQueue'[i] = [TheQueue EXCEPT ![n] = e][i]
  <2>1. CASE i = n
    BY <1>5, <1>10, <1>12, <1>13, <2>1
  <2>2. CASE i # n
    <3>1. i - 1 \in 0..maxCount /\ i - 1 \in 0..(maxCount - 1) /\ i - 1 # k
      BY <1>1, <1>4, <1>5, <2>2
    <3>2. Place(firstIndex, i - 1) \in Indices
          /\ Place(firstIndex, i - 1) # Place(firstIndex, k)
      BY <1>1, <1>4, <3>1, PlaceIs, PlacesDiffer
    <3>3. slot'[Place(firstIndex, i - 1)] = slot[Place(firstIndex, i - 1)]
      BY <1>10, <3>2
    <3>. QED
      BY <1>12, <1>13, <2>2, <3>3, Stored
  <2>. QED
    BY <2>1, <2>2
<1>15. TheQueue' = [TheQueue EXCEPT ![n] = e]
  BY <1>12, <1>13, <1>14, SeqEqual
<1>16. Queue!Arm(n)
  <2>1. n \in DOMAIN TheQueue /\ UNCHANGED minSeqNo
    BY <1>1, <1>5, Stored
  <2>2. TheQueue' = [TheQueue EXCEPT ![n].armed = TRUE]
    BY <1>15, <2>1 DEF e
  <2>. QED
    BY <2>1, <2>2, Zenon DEF Queue!Arm, TheQueue
<1>. QED
  BY <1>5, <1>12, <1>16

\* The sender goes back: the timeouts of all packets are reset, unless the ring is full.
LEMMA ResetRefines ==
  ASSUME BInv, resetTimers
  PROVE  BInv' /\ (Queue!GoBack \/ UNCHANGED <<TheQueue, minSeqNo>>)
<1> DEFINE Off(p) == [p EXCEPT !.armed = FALSE]
<1>1. /\ maxCount \in Nat \ {0} /\ count \in 0..maxCount
      /\ firstIndex \in Indices /\ slot \in [Indices -> Packet]
      /\ UNCHANGED <<minSeqNo, firstIndex, freeIndex, count>>
      /\ freeIndex = Place(firstIndex, count)
  BY DEF BInv, BufferTypeOK, resetTimers
<1>2. slot' = [i \in Indices |-> IF i \in Visited THEN Off(slot[i]) ELSE slot[i]]
  BY DEF resetTimers
<1>3. \A p \in Packet : Off(p) \in Packet /\ Off(p).seqNo = p.seqNo
  BY DEF Packet
<1> HIDE DEF Off
<1>4. /\ slot' \in [Indices -> Packet]
      /\ \A i \in Indices : slot'[i].seqNo = slot[i].seqNo
      /\ \A i \in Indices : slot'[i] = IF i \in Visited THEN Off(slot[i]) ELSE slot[i]
  BY <1>1, <1>2, <1>3
<1>5. /\ BInv'
      /\ TheQueue' \in Seq(Packet) /\ Len(TheQueue') = count
      /\ \A i \in 1..count : TheQueue'[i] = slot'[Place(firstIndex, i - 1)]
  BY <1>1, <1>4, OnlyTimeouts
<1>6. ASSUME NEW i \in 1..count
      PROVE  /\ Place(firstIndex, i - 1) \in Indices
             /\ TheQueue[i] = slot[Place(firstIndex, i - 1)]
  <2>1. i - 1 \in 0..maxCount
    BY <1>1
  <2>. QED
    BY <1>1, <2>1, PlaceIs, Stored
\* the loop ends at once
<1>7. CASE count = maxCount
  <2>1. freeIndex = firstIndex
    <3>1. maxCount \in 0..maxCount /\ firstIndex \in 0..(maxCount - 1)
      BY <1>1 DEF Indices
    <3>2. Place(firstIndex, maxCount) = firstIndex
      BY <1>1, <3>1, PlaceIs
    <3>. QED
      BY <1>1, <1>7, <3>2
  <2>2. Visited = {}
    BY <1>1, <2>1 DEF Visited, Indices
  <2>3. \A i \in 1..count : TheQueue'[i] = TheQueue[i]
    BY <1>4, <1>5, <1>6, <2>2
  <2>4. TheQueue' = TheQueue
    BY <1>5, <2>3, Stored, SeqEqual
  <2>. QED
    BY <1>1, <1>5, <2>4
\* it visits every packet held
<1>8. CASE count # maxCount
  <2>1. ASSUME NEW k \in 0..(count - 1)
        PROVE  Place(firstIndex, k) \in Visited
    <3>1. PICK N \in Nat \ {0} : N = maxCount
      BY <1>1
    <3>2. PICK c \in 0..(N - 1), f \in 0..(N - 1), j \in 0..(N - 1) :
             c = count /\ f = firstIndex /\ j = k /\ j < c
      BY <1>1, <1>8, <3>1 DEF Indices
    <3>3. /\ Place(firstIndex, k) = IF f + j < N THEN f + j ELSE f + j - N
          /\ freeIndex = IF f + c < N THEN f + c ELSE f + c - N
      <4>1. k \in 0..maxCount
        BY <1>1
      <4>. QED
        BY <1>1, <3>1, <3>2, <4>1, PlaceIs
    <3>4. Visited = IF f <= freeIndex THEN f..(freeIndex - 1)
                    ELSE (f..(N - 1)) \cup (0..(freeIndex - 1))
      BY <3>1, <3>2 DEF Visited
    <3>. QED
      BY <3>2, <3>3, <3>4
  <2>2. ASSUME NEW i \in 1..count
        PROVE  TheQueue'[i] = Off(TheQueue[i])
    <3>1. i - 1 \in 0..(count - 1)
      BY <1>1
    <3>. QED
      BY <1>4, <1>5, <1>6, <2>1, <3>1
  <2>3. TheQueue' = [i \in 1..count |-> Off(TheQueue[i])]
    <3>1. TheQueue' = [i \in 1..count |-> TheQueue'[i]]
      BY <1>5
    <3>. QED
      BY <2>2, <3>1
  <2>4. DOMAIN TheQueue = 1..count /\ Len(TheQueue) = count
    BY Stored
  <2>5. Len(TheQueue) < maxCount /\ UNCHANGED minSeqNo
    BY <1>1, <1>8, <2>4
  <2>6. TheQueue' = [i \in DOMAIN TheQueue |-> [TheQueue[i] EXCEPT !.armed = FALSE]]
    BY <2>3, <2>4 DEF Off
  <2>7. Queue!GoBack
    BY <2>5, <2>6, Zenon DEF Queue!GoBack, TheQueue
  <2>. QED
    BY <1>5, <2>7
<1>. QED
  BY <1>7, <1>8

\* Stored are freed, the first ones.
LEMMA FreeRefines ==
  ASSUME BInv, NEW start \in 0..MaxSeqNo, NEW end \in 0..MaxSeqNo,
         Free(start, end)
  PROVE  BInv' /\ \E n \in 1..maxCount : Queue!Free(n)
<1> DEFINE n == end - start + 1
           freed == {Place(firstIndex, i) : i \in 0..(n - 1)}
<1>1. /\ maxCount \in Nat \ {0} /\ count \in 0..maxCount /\ minSeqNo \in Nat
      /\ firstIndex \in Indices /\ slot \in [Indices -> Packet]
      /\ freeIndex = Place(firstIndex, count)
  BY DEF BInv, BufferTypeOK
<1>2. n \in 1..count /\ n \in 1..maxCount /\ n \in 0..maxCount /\ count - n \in 0..maxCount
  <2>1. start \in Int /\ end \in Int /\ end >= start /\ end <= start + count - 1
    BY DEF Free
  <2>. QED
    BY <1>1, <2>1
<1>3. /\ slot' = [i \in Indices |-> IF i \in freed THEN NoPacket ELSE slot[i]]
      /\ firstIndex' = Place(firstIndex, n)
      /\ minSeqNo' = minSeqNo + n /\ count' = count - n /\ freeIndex' = freeIndex
  BY DEF Free, Place
<1> HIDE DEF n
<1>4. NoPacket \in Packet
  BY DEF NoPacket, Packet
<1>5. /\ slot' \in [Indices -> Packet]
      /\ \A i \in Indices : i \notin freed => slot'[i] = slot[i]
  BY <1>1, <1>3, <1>4
<1>6. BufferTypeOK'
  <2>1. firstIndex' \in Indices
    BY <1>1, <1>2, <1>3, PlaceIs
  <2>2. minSeqNo' \in Nat /\ count' \in 0..maxCount
    BY <1>1, <1>2, <1>3
  <2>. QED
    BY <1>5, <2>1, <2>2 DEF BufferTypeOK, Indices
\* the packets that stay
<1>7. ASSUME NEW k \in 0..(count - n - 1)
      PROVE  /\ n + k \in 0..(count - 1)
             /\ Place(firstIndex', k) = Place(firstIndex, n + k)
             /\ slot'[Place(firstIndex', k)] = slot[Place(firstIndex, n + k)]
  <2>1. /\ n + k \in 0..(count - 1) /\ n + k \in 0..maxCount /\ n + k \in 0..(maxCount - 1)
        /\ k \in 0..(maxCount - n)
    BY <1>1, <1>2
  <2>2. Place(firstIndex', k) = Place(firstIndex, n + k)
    BY <1>1, <1>2, <1>3, <2>1, PlacesAdd
  <2>3. Place(firstIndex, n + k) \notin freed
    <3>1. ASSUME NEW i \in 0..(n - 1)
          PROVE  Place(firstIndex, i) # Place(firstIndex, n + k)
      <4>1. i \in 0..(maxCount - 1) /\ i # n + k
        BY <1>1, <1>2
      <4>. QED
        BY <1>1, <2>1, <4>1, PlacesDiffer
    <3>. QED
      BY <3>1
  <2>4. Place(firstIndex, n + k) \in Indices
    BY <1>1, <2>1, PlaceIs
  <2>. QED
    BY <1>5, <2>1, <2>2, <2>3, <2>4
<1> HIDE DEF freed
<1>8. BInv'
  <2>1. freeIndex' = Place(firstIndex', count')
    <3>1. count' \in 0..(maxCount - n) /\ n + count' = count
      BY <1>1, <1>2, <1>3
    <3>. QED
      BY <1>1, <1>2, <1>3, <3>1, PlacesAdd
  <2>2. ASSUME NEW k \in 0..(count' - 1)
        PROVE  slot'[Place(firstIndex', k)].seqNo = minSeqNo' + k
    <3>1. k \in 0..(count - n - 1)
      BY <1>3
    <3>2. slot[Place(firstIndex, n + k)].seqNo = minSeqNo + (n + k)
      BY <1>7, <3>1 DEF BInv
    <3>3. minSeqNo + (n + k) = minSeqNo' + k
      BY <1>1, <1>2, <1>3, <3>1
    <3>. QED
      BY <1>7, <3>1, <3>2, <3>3
  <2>. QED
    BY <1>6, <2>1, <2>2 DEF BInv, Place
<1>9. TheQueue' = SubSeq(TheQueue, n + 1, count)
  <2>1. /\ TheQueue' \in Seq(Packet) /\ Len(TheQueue') = count - n
        /\ \A i \in 1..(count - n) : TheQueue'[i] = slot'[Place(firstIndex', i - 1)]
    <3>1. TheQueue' = Held(slot', firstIndex', count - n)
      BY <1>3, <1>6, QueueWillBe
    <3>2. firstIndex' \in Indices
      BY <1>6 DEF BufferTypeOK, Indices
    <3>. QED
      BY <1>2, <1>5, <3>1, <3>2, HeldIs
  <2>2. \A i \in (n + 1)..count : TheQueue[i] \in Packet
    <3>1. \A i \in (n + 1)..count : i \in 1..count
      BY <1>1, <1>2
    <3>. QED
      BY <3>1, Stored
  <2>3. /\ n + 1 \in Int /\ count \in Int /\ count - (n + 1) + 1 = count - n
        /\ (IF n + 1 <= count THEN count - (n + 1) + 1 ELSE 0) = count - n
    BY <1>1, <1>2
  <2>4. /\ SubSeq(TheQueue, n + 1, count) \in Seq(Packet)
        /\ Len(SubSeq(TheQueue, n + 1, count)) = count - n
        /\ \A i \in 1..(count - n) :
             SubSeq(TheQueue, n + 1, count)[i] = TheQueue[(n + 1) + i - 1]
    BY <2>2, <2>3, SubSeqProperties
  <2>5. ASSUME NEW i \in 1..(count - n)
        PROVE  TheQueue'[i] = SubSeq(TheQueue, n + 1, count)[i]
    <3>1. /\ i - 1 \in 0..(count - n - 1) /\ (n + 1) + i - 1 = n + i
          /\ n + i \in 1..count /\ (n + i) - 1 = n + (i - 1)
      BY <1>1, <1>2
    <3>2. TheQueue'[i] = slot[Place(firstIndex, n + (i - 1))]
      BY <1>7, <2>1, <3>1
    <3>3. TheQueue[n + i] = slot[Place(firstIndex, n + (i - 1))]
      BY <3>1, Stored
    <3>. QED
      BY <2>4, <3>1, <3>2, <3>3
  <2>. QED
    BY <2>1, <2>4, <2>5, SeqEqual
<1>10. Queue!Free(n)
  <2>1. Len(TheQueue) = count
    BY Stored
  <2>2. /\ n \in 1..Len(TheQueue)
        /\ TheQueue' = SubSeq(TheQueue, n + 1, Len(TheQueue))
        /\ minSeqNo' = minSeqNo + n
    BY <1>2, <1>3, <1>9, <2>1
  <2>. QED
    BY <2>2, Zenon DEF Queue!Free, TheQueue
<1>. QED
  BY <1>2, <1>8, <1>10

------------------------------------------------------------------------------
(* Theorems *)

\* At first the ring holds no packets.
LEMMA BufferInitially ==
  ASSUME BufferInit
  PROVE  BInv /\ Queue!Init
<1>1. 0 \in Indices /\ maxCount \in Nat \ {0}
  BY DEF Indices
<1>2. BInv
  <2>1. BufferTypeOK
    BY <1>1 DEF BufferInit, BufferTypeOK, NoPacket, Packet
  <2>2. Place(0, 0) = 0
    <3>1. 0 \in 0..maxCount
      BY <1>1
    <3>. QED
      BY <1>1, <3>1, PlaceIs
  <2>. QED
    BY <2>1, <2>2 DEF BufferInit, BInv
<1>3. Queue!Init
  <2>1. TheQueue \in Seq(Packet) /\ Len(TheQueue) = 0
    BY <1>2, Stored DEF BufferInit
  <2>2. TheQueue = <<>>
    BY <2>1, EmptySeq
  <2>3. minSeqNo = 0
    BY DEF BufferInit
  <2>. QED
    BY <2>2, <2>3, Zenon DEF Queue!Init, TheQueue
<1>. QED
  BY <1>2, <1>3

\* Every step of the ring is one of the queue, or leaves it alone.
LEMMA StepRefines ==
  ASSUME BInv, [BufferNext]_bufferVars
  PROVE  BInv' /\ (Queue!Next \/ UNCHANGED <<TheQueue, minSeqNo>>)
<1>1. ASSUME NEW seqNo \in 0..MaxSeqNo, Put(seqNo)
      PROVE  BInv' /\ Queue!Next
  BY <1>1, PutRefines DEF Queue!Next
<1>2. ASSUME NEW seqNo \in 0..MaxSeqNo, Arm(seqNo)
      PROVE  BInv' /\ Queue!Next
  BY <1>2, ArmRefines DEF Queue!Next
<1>3. ASSUME NEW start \in 0..MaxSeqNo, NEW end \in 0..MaxSeqNo, Free(start, end)
      PROVE  BInv' /\ Queue!Next
  BY <1>3, FreeRefines DEF Queue!Next
<1>4. CASE resetTimers
  BY <1>4, ResetRefines DEF Queue!Next
<1>5. CASE UNCHANGED bufferVars
  <2>1. BInv'
    BY <1>5 DEF bufferVars, BInv, BufferTypeOK, Place, Indices
  <2>2. TheQueue' = Held(slot, firstIndex, count)
    BY <1>5, <2>1, QueueWillBe DEF BInv, bufferVars
  <2>. QED
    BY <1>5, <2>1, <2>2, QueueIs DEF bufferVars, BInv
<1>. QED
  BY <1>1, <1>2, <1>3, <1>4, <1>5 DEF BufferNext

\* The invariant.
THEOREM RingInvariant == BufferSpec => []BInv
<1>1. BufferInit => BInv
  BY BufferInitially
<1>2. BInv /\ [BufferNext]_bufferVars => BInv'
  BY StepRefines
<1>. QED
  BY <1>1, <1>2, PTL DEF BufferSpec

\* The ring is a queue of packets with consecutive numbers, whatever its size and however
\* often it wraps.
THEOREM RingIsQueue == BufferSpec => ImplementsQueue
<1> DEFINE ringVars == <<[i \in 1..count |-> getDataPacketFromBuffer(minSeqNo + i - 1)],
                        minSeqNo>>
<1>1. BufferInit => Queue!Init
  BY BufferInitially
<1>2. ASSUME BInv, [BufferNext]_bufferVars
      PROVE  [Queue!Next]_ringVars
  <2>1. CASE Queue!Next
    BY <2>1
  <2>2. CASE UNCHANGED <<TheQueue, minSeqNo>>
    BY <2>2, Zenon DEF TheQueue
  <2>. QED
    BY <1>2, <2>1, <2>2, StepRefines
<1>3. BInv /\ [BufferNext]_bufferVars => [Queue!Next]_ringVars
  BY <1>2
<1>. QED
  BY <1>1, <1>3, RingInvariant, PTL DEF BufferSpec, ImplementsQueue, Queue!Spec

------------------------------------------------------------------------------
(* SocketScheduler *)

\* Division with remainder.
LEMMA Division ==
  ASSUME NEW m \in Nat \ {0}, NEW k \in Int
  PROVE  /\ k \div m \in Int
         /\ k % m \in 0..(m - 1)
         /\ k = m * (k \div m) + (k % m)
OBVIOUS

\* Multiples leave no remainder.
LEMMA Multiple ==
  ASSUME NEW m \in Nat \ {0}, NEW k \in Int
  PROVE  (m * k) % m = 0
OBVIOUS

\* A product of two factors of their own and a third is a product, in any order.
LEMMA Product ==
  ASSUME NEW a \in Nat \ {0}, NEW n \in Nat \ {0}, NEW x \in Int, NEW y \in Int
  PROVE  /\ a * n \in Nat \ {0}
         /\ a * (n * x) - a * (n * y) = (a * n) * (x - y)
OBVIOUS

\* mapApplAddr: ports with the same address agree in the digits that stand for it.
LEMMA SameAddress ==
  ASSUME NEW p \in Ports, NEW q \in Ports,
         mapApplAddr(p).node = mapApplAddr(q).node,
         mapApplAddr(p).appl = mapApplAddr(q).appl
  PROVE  (p - q) % (numApplPerNode * numNodes) = 0
<1>1. p \in Int /\ q \in Int /\ numApplPerNode \in Nat \ {0} /\ numNodes \in Nat \ {0}
  BY SchedulerAssumption
<1>2. /\ (p \div numApplPerNode) % numNodes = (q \div numApplPerNode) % numNodes
      /\ p % numApplPerNode = q % numApplPerNode
  BY DEF mapApplAddr
<1>3. PICK a \in Nat \ {0}, n \in Nat \ {0} : a = numApplPerNode /\ n = numNodes
  BY <1>1
<1>4. PICK u \in Int, v \in Int : u = p \div a /\ v = q \div a
  BY <1>1, Division
<1>5. PICK x \in Int, y \in Int : x = u \div n /\ y = v \div n
  BY Division
<1>6. PICK r \in Int, s \in Int : r = p % a /\ s = u % n
  <2>1. p % a \in 0..(a - 1) /\ u % n \in 0..(n - 1)
    BY <1>1, Division
  <2> QED
    BY <2>1
<1>7. r = q % a /\ s = v % n
  BY <1>2, <1>3, <1>4, <1>6
<1>8. p = a * u + r /\ q = a * v + r
  BY <1>1, <1>4, <1>6, <1>7, Division
<1>9. u = n * x + s /\ v = n * y + s
  BY <1>5, <1>6, <1>7, Division
<1>10. p - q = a * (n * x) - a * (n * y)
  <2>1. a * u = a * (n * x) + a * s /\ a * v = a * (n * y) + a * s
    BY <1>9
  <2>2. {n * x, n * y, a * (n * x), a * (n * y), a * s, r} \subseteq Int
    OBVIOUS
  <2> QED
    BY <2>1, <2>2, <1>8
<1>11. p - q = (a * n) * (x - y) /\ a * n \in Nat \ {0}
  BY <1>10, Product
<1>12. (p - q) % (a * n) = 0
  BY <1>11, Multiple
<1> QED
  BY <1>3, <1>12

\* the application of p is entered where its port says, in all registries
Registered(p) ==
  LET d == applBySocket[p]
  IN  /\ d.node = mapApplAddr(p).node /\ d.appl = mapApplAddr(p).appl
      /\ d.node \in NodeIds
      /\ d.appl \in DOMAIN applications[d.node] /\ applications[d.node][d.appl] = p
      /\ d.module \in DOMAIN applByModule /\ applByModule[d.module] = p

\* what stands at address a of node n is what the table says
Occupied(n, a) ==
  \/ applications[n][a] = Own /\ a \in Internal[n]
  \/ /\ applications[n][a] \in DOMAIN applBySocket
     /\ mapApplAddr(applications[n][a]).node = n
     /\ mapApplAddr(applications[n][a]).appl = a

InternalStay(n) ==
  \A a \in Internal[n] : a \in DOMAIN applications[n] /\ applications[n][a] = Own

PeersTyped == peer \in [Ports -> {"absent", "new", "connecting", "up", "closed", "reset"}]

\* The registries hold the programs that were accepted, each where its port says.
RegistryInv ==
  /\ PeersTyped
  /\ DOMAIN applications = NodeIds
  /\ DOMAIN applBySocket \subseteq Accepted
  /\ \A p \in DOMAIN applBySocket : Registered(p)
  /\ \A n \in NodeIds : InternalStay(n) /\ \A a \in DOMAIN applications[n] : Occupied(n, a)

SInv == RegistryInv /\ ErrorsExplained

\* A new program gets an address of its own and a module that no other description has.
LEMMA CreateKeeps ==
  ASSUME RegistryInv, NEW p \in Ports, NEW m, peer[p] = "connecting",
         CanCreate(mapApplAddr(p)), m \notin Used,
         createApplication(p, mapApplAddr(p), m),
         peer' = [peer EXCEPT ![p] = "up"]
  PROVE  RegistryInv'
<1> DEFINE d == mapApplAddr(p)
<1>1. p \notin DOMAIN applBySocket /\ p # Own
  BY SchedulerAssumption DEF RegistryInv, Accepted, Own
<1>2. d.node \in NodeIds /\ d.appl \notin DOMAIN applications[d.node]
  BY DEF CanCreate
<1>3. PeersTyped' /\ Accepted \cup {p} \subseteq Accepted'
  BY DEF RegistryInv, PeersTyped, Accepted
<1>4. /\ DOMAIN applBySocket' = DOMAIN applBySocket \cup {p}
      /\ applBySocket'[p] = [node |-> d.node, appl |-> d.appl, module |-> m]
      /\ \A q \in DOMAIN applBySocket : applBySocket'[q] = applBySocket[q]
  BY <1>1 DEF createApplication, WithEntry
<1>5. /\ DOMAIN applByModule' = DOMAIN applByModule \cup {m}
      /\ applByModule'[m] = p
      /\ \A k \in DOMAIN applByModule : k # m => applByModule'[k] = applByModule[k]
  BY DEF createApplication, WithEntry
<1>6. /\ DOMAIN applications' = NodeIds
      /\ \A n \in NodeIds : n # d.node => applications'[n] = applications[n]
      /\ applications'[d.node] = WithEntry(applications[d.node], d.appl, p)
  BY <1>2 DEF createApplication, RegistryInv
<1>7. /\ DOMAIN applications'[d.node] = DOMAIN applications[d.node] \cup {d.appl}
      /\ applications'[d.node][d.appl] = p
      /\ \A a \in DOMAIN applications[d.node] :
           applications'[d.node][a] = applications[d.node][a]
  BY <1>2, <1>6 DEF WithEntry
<1>8. \A n \in NodeIds : \A a \in DOMAIN applications[n] :
        a \in DOMAIN applications'[n] /\ applications'[n][a] = applications[n][a]
  BY <1>6, <1>7
<1>9. ASSUME NEW q \in DOMAIN applBySocket'  PROVE Registered(q)'
  <2>1. CASE q = p
    BY <2>1, <1>2, <1>4, <1>5, <1>7 DEF Registered
  <2>2. CASE q # p
    <3>1. q \in DOMAIN applBySocket /\ Registered(q) /\ applBySocket'[q] = applBySocket[q]
      BY <2>2, <1>4 DEF RegistryInv
    <3>2. applBySocket[q].module # m
      BY <3>1 DEF Used
    <3> QED
      BY <3>1, <3>2, <1>5, <1>8 DEF Registered
  <2> QED
    BY <2>1, <2>2
<1>10. ASSUME NEW n \in NodeIds, NEW a \in DOMAIN applications'[n]  PROVE Occupied(n, a)'
  <2>1. CASE a \in DOMAIN applications[n]
    BY <2>1, <1>4, <1>8 DEF RegistryInv, Occupied
  <2>2. CASE a \notin DOMAIN applications[n]
    <3>1. n = d.node /\ a = d.appl
      BY <2>2, <1>6, <1>7
    <3> QED
      BY <3>1, <1>4, <1>7 DEF Occupied
  <2> QED
    BY <2>1, <2>2
<1>11. \A n \in NodeIds : InternalStay(n)'
  BY <1>8 DEF RegistryInv, InternalStay
<1> QED
  BY <1>3, <1>4, <1>6, <1>9, <1>10, <1>11 DEF RegistryInv

\* A deleted program leaves all registries but its module's entry.
LEMMA DeleteKeeps ==
  ASSUME RegistryInv, NEW p \in DOMAIN applBySocket, deleteApplication(p), peer' = peer
  PROVE  RegistryInv'
<1>1. PICK node, appl : /\ node = applBySocket[p].node /\ appl = applBySocket[p].appl
                        /\ node \in NodeIds /\ appl \in DOMAIN applications[node]
                        /\ applications[node][appl] = p
                        /\ mapApplAddr(p).node = node /\ mapApplAddr(p).appl = appl
  BY DEF RegistryInv, Registered
<1>2. p \in Ports /\ p # Own
  BY SchedulerAssumption DEF RegistryInv, Accepted, Own
<1>3. /\ DOMAIN applBySocket' = DOMAIN applBySocket \ {p}
      /\ \A q \in DOMAIN applBySocket' : applBySocket'[q] = applBySocket[q]
  BY DEF deleteApplication, Restrict
<1>4. applByModule' = applByModule
  BY DEF deleteApplication
<1>5. /\ DOMAIN applications' = NodeIds
      /\ \A n \in NodeIds : n # node => applications'[n] = applications[n]
      /\ applications'[node]
           = Restrict(applications[node], DOMAIN applications[node] \ {appl})
  BY <1>1 DEF deleteApplication, RegistryInv
<1>6. /\ DOMAIN applications'[node] = DOMAIN applications[node] \ {appl}
      /\ \A a \in DOMAIN applications'[node] :
           applications'[node][a] = applications[node][a]
  BY <1>5 DEF Restrict
<1>7. /\ \A n \in NodeIds : \A a \in DOMAIN applications'[n] :
           a \in DOMAIN applications[n] /\ applications'[n][a] = applications[n][a]
      /\ \A n \in NodeIds : \A a \in DOMAIN applications[n] :
           n # node \/ a # appl => a \in DOMAIN applications'[n]
  BY <1>5, <1>6
<1>8. ASSUME NEW q \in DOMAIN applBySocket'  PROVE Registered(q)'
  <2>1. q \in DOMAIN applBySocket /\ q # p /\ Registered(q)
        /\ applBySocket'[q] = applBySocket[q]
    BY <1>3 DEF RegistryInv
  <2>2. ~(applBySocket[q].node = node /\ applBySocket[q].appl = appl)
    BY <2>1, <1>1 DEF Registered
  <2> QED
    BY <2>1, <2>2, <1>4, <1>7 DEF Registered
<1>9. ASSUME NEW n \in NodeIds, NEW a \in DOMAIN applications'[n]  PROVE Occupied(n, a)'
  <2>1. /\ a \in DOMAIN applications[n] /\ Occupied(n, a)
        /\ applications'[n][a] = applications[n][a]
    BY <1>7 DEF RegistryInv
  <2>2. applications[n][a] # p
    <3>1. CASE n = node /\ a = appl
      BY <3>1, <1>6
    <3>2. CASE ~(n = node /\ a = appl)
      BY <3>2, <2>1, <1>1, <1>2 DEF Occupied
    <3> QED
      BY <3>1, <3>2
  <2> QED
    BY <2>1, <2>2, <1>3 DEF Occupied
<1>10. ASSUME NEW n \in NodeIds  PROVE InternalStay(n)'
  <2>1. ASSUME NEW a \in Internal[n]
        PROVE  a \in DOMAIN applications'[n] /\ applications'[n][a] = Own
    BY <1>1, <1>2, <1>7 DEF RegistryInv, InternalStay
  <2> QED
    BY <2>1 DEF InternalStay
<1>11. PeersTyped' /\ Accepted' = Accepted
  BY DEF RegistryInv, PeersTyped, Accepted
<1> QED
  BY <1>3, <1>5, <1>8, <1>9, <1>10, <1>11 DEF RegistryInv

\* Only programs come and go: accepted ones stay accepted.
LEMMA PeerKeeps ==
  ASSUME RegistryInv, NEW p \in Ports, NEW how \in {"connecting", "closed", "reset"},
         peer[p] \in {"new", "up"}, peer[p] = "new" <=> how = "connecting",
         peer' = [peer EXCEPT ![p] = how], UNCHANGED registry
  PROVE  RegistryInv' /\ Accepted \subseteq Accepted'
<1>1. PeersTyped' /\ Accepted \subseteq Accepted'
  BY DEF RegistryInv, PeersTyped, Accepted
<1>2. UNCHANGED <<applBySocket, applByModule, applications>>
  BY DEF registry
<1> QED
  BY <1>1, <1>2 DEF RegistryInv, Registered, Occupied, InternalStay

\* The registries with the peers say it all.
LEMMA NothingChanged ==
  ASSUME RegistryInv, UNCHANGED <<peer, registry>>
  PROVE  RegistryInv'
BY DEF RegistryInv, PeersTyped, Accepted, Registered, Occupied, InternalStay, registry

\* A reason for an error stays one.
LEMMA ErrorsStay ==
  ASSUME ErrorsExplained, Accepted \subseteq Accepted',
         \A p \in Ports : peer[p] = "reset" => peer'[p] = "reset",
         status' = status \/ status' # "error"
  PROVE  ErrorsExplained'
BY DEF ErrorsExplained, Accepted

\* acceptConnection: a port that cannot be mapped explains the error.
LEMMA AcceptKeeps == ASSUME SInv, NEW p \in Ports, acceptConnection(p)  PROVE SInv'
<1> DEFINE a == mapApplAddr(p)
<1>1. /\ peer[p] = "connecting" /\ peer' = [peer EXCEPT ![p] = "up"]
      /\ status = "running" /\ RegistryInv
  BY DEF acceptConnection, Idle, SInv
<1>2. /\ p \in Accepted' /\ p \notin Accepted /\ Accepted \subseteq Accepted'
      /\ \A q \in Ports : peer[q] = "reset" => peer'[q] = "reset"
  BY <1>1 DEF RegistryInv, PeersTyped, Accepted
<1>3. CASE CanCreate(a)
  <2>1. status' = status
    BY <1>3 DEF acceptConnection
  <2>2. PICK m : m \notin Used /\ createApplication(p, a, m)
    BY <1>3 DEF acceptConnection
  <2>3. RegistryInv'
    BY <1>1, <1>3, <2>2, CreateKeeps
  <2> QED
    BY <1>2, <2>1, <2>3, ErrorsStay DEF SInv
<1>4. CASE ~CanCreate(a)
  <2>1. UNCHANGED <<applBySocket, applByModule, applications>>
    BY <1>4 DEF acceptConnection, registry
  <2>2. PeersTyped'
    BY <1>1 DEF RegistryInv, PeersTyped
  <2>3. RegistryInv'
    BY <1>1, <1>2, <2>1, <2>2 DEF RegistryInv, Registered, Occupied, InternalStay
  <2>4. CASE a.node \notin NodeIds
    BY <1>2, <2>3, <2>4 DEF SInv, ErrorsExplained
  <2>5. CASE a.node \in NodeIds /\ a.appl \in Internal[a.node]
    BY <1>2, <2>3, <2>5 DEF SInv, ErrorsExplained
  <2>6. CASE a.node \in NodeIds /\ a.appl \notin Internal[a.node]
    <3>1. a.appl \in DOMAIN applications[a.node]
      BY <1>4, <2>6 DEF CanCreate
    <3>2. PICK q \in DOMAIN applBySocket :
            mapApplAddr(q).node = a.node /\ mapApplAddr(q).appl = a.appl
      BY <1>1, <2>6, <3>1 DEF RegistryInv, Occupied
    <3>3. q \in Accepted' \ {p} /\ q \in Ports
      BY <1>1, <1>2 DEF RegistryInv, Accepted
    <3>4. (p - q) % (numApplPerNode * numNodes) = 0
      BY <3>2, <3>3, SameAddress
    <3> QED
      BY <1>2, <2>3, <3>3, <3>4 DEF SInv, ErrorsExplained
  <2> QED
    BY <2>4, <2>5, <2>6
<1> QED
  BY <1>3, <1>4

\* receiveWithTimeout: a reset connection explains the error.
LEMMA ReceiveKeeps == ASSUME SInv, NEW p \in Ports, receiveWithTimeout(p)  PROVE SInv'
<1>1. /\ peer' = peer /\ Accepted' = Accepted /\ p \in DOMAIN applBySocket
      /\ status = "running" /\ RegistryInv
  BY DEF receiveWithTimeout, Idle, SInv, Accepted
<1>2. CASE UNCHANGED <<registry, status>>
  <2>1. RegistryInv'
    BY <1>1, <1>2, NothingChanged
  <2> QED
    BY <1>1, <1>2, <2>1, ErrorsStay DEF SInv
<1>3. CASE shutdownApplication(p)
  <2>1. RegistryInv' /\ status' # "error"
    BY <1>1, <1>3, DeleteKeeps DEF shutdownApplication
  <2> QED
    BY <1>1, <2>1, ErrorsStay DEF SInv
<1>4. CASE peer[p] = "reset" /\ deleteApplication(p)
  <2>1. RegistryInv'
    BY <1>1, <1>4, DeleteKeeps
  <2>2. p \in Accepted' /\ peer'[p] = "reset"
    BY <1>1, <1>4 DEF Accepted
  <2>3. ErrorsExplained'
    BY <2>2 DEF ErrorsExplained
  <2> QED
    BY <2>1, <2>3 DEF SInv
<1> QED
  BY <1>2, <1>3, <1>4 DEF receiveWithTimeout

\* The end of the run leaves the internal applications.
LEMMA EndKeeps == ASSUME SInv, endRun  PROVE SInv'
<1>1. peer' = peer /\ Accepted' = Accepted /\ RegistryInv /\ status' # "error"
  BY DEF endRun, SInv, Accepted
<1>2. CASE UNCHANGED registry
  <2>1. RegistryInv'
    BY <1>1, <1>2, NothingChanged
  <2> QED
    BY <1>1, <2>1, ErrorsStay DEF SInv
<1>3. CASE ~UNCHANGED registry
  <2>1. applBySocket' = <<>> /\ applications' = [n \in NodeIds |-> [a \in Internal[n] |-> Own]]
    BY <1>3 DEF endRun
  <2>2. RegistryInv'
    BY <1>1, <2>1 DEF RegistryInv, PeersTyped, Registered, Occupied, InternalStay
  <2> QED
    BY <1>1, <2>2, ErrorsStay DEF SInv
<1> QED
  BY <1>2, <1>3

\* No program has been accepted at first.
LEMMA NobodyYet == SchedulerInit => SInv
<1> SUFFICES ASSUME SchedulerInit  PROVE SInv
  OBVIOUS
<1>1. PeersTyped
  BY DEF SchedulerInit, PeersTyped
<1>2. DOMAIN applBySocket = {} /\ applications = [n \in NodeIds |-> [a \in Internal[n] |-> Own]]
  BY DEF SchedulerInit
<1>3. RegistryInv
  BY <1>1, <1>2 DEF RegistryInv, Registered, Occupied, InternalStay
<1> QED
  BY <1>3 DEF SInv, ErrorsExplained, SchedulerInit

\* Every step of programs, scheduler and applications keeps the registries.
LEMMA SchedulerKeeps == SInv /\ [SchedulerNext]_schedulerVars => SInv'
<1> SUFFICES ASSUME SInv, [SchedulerNext]_schedulerVars  PROVE SInv'
  OBVIOUS
<1>1. ASSUME NEW p \in Ports, NEW how \in {"connecting", "closed", "reset"},
             peer[p] \in {"new", "up"}, peer[p] = "new" <=> how = "connecting",
             peer' = [peer EXCEPT ![p] = how], UNCHANGED <<registry, status>>
      PROVE  SInv'
  <2>1. RegistryInv' /\ Accepted \subseteq Accepted'
    BY <1>1, PeerKeeps DEF SInv
  <2>2. \A q \in Ports : peer[q] = "reset" => peer'[q] = "reset"
    BY <1>1 DEF SInv, RegistryInv, PeersTyped
  <2> QED
    BY <1>1, <2>1, <2>2, ErrorsStay DEF SInv
<1>2. CASE \E p \in Ports : Connect(p)
  BY <1>1, <1>2 DEF Connect
<1>3. CASE \E p \in Ports : \E how \in {"closed", "reset"} : Hangup(p, how)
  BY <1>1, <1>3 DEF Hangup
<1>4. CASE \E p \in Ports : acceptConnection(p)
  BY <1>4, AcceptKeeps
<1>5. CASE \E p \in Ports : receiveWithTimeout(p)
  BY <1>5, ReceiveKeeps
<1>6. CASE endRun
  BY <1>6, EndKeeps
<1>7. CASE UNCHANGED <<peer, registry, status>>
  <2>1. RegistryInv' /\ Accepted' = Accepted
    BY <1>7, NothingChanged DEF SInv, Accepted
  <2> QED
    BY <1>7, <2>1, ErrorsStay DEF SInv
<1>8. ASSUME NEW p \in Ports, NEW n \in 1..2, SendUnits(p, n)
      PROVE  UNCHANGED <<peer, registry, status>>
  BY <1>8 DEF SendUnits
<1>9. ASSUME handleExternal \/ UNCHANGED schedulerVars
      PROVE  UNCHANGED <<peer, registry, status>>
  BY <1>9 DEF handleExternal, schedulerVars, registry
<1> QED
  BY <1>2, <1>3, <1>4, <1>5, <1>6, <1>7, <1>8, <1>9 DEF SchedulerNext

\* What the scheduler's registries and the nodes' tables hold (acceptConnection,
\* createApplication, deleteApplication).
THEOREM SchedulerInvariant == SchedulerSpec => []SInv
BY NobodyYet, SchedulerKeeps, PTL DEF SchedulerSpec

\* The registries of external programs agree whoever comes and goes, and an error of
\* the simulation has one of the four reasons.
THEOREM ProgramsAreRegistered == SchedulerSpec => []ProgramsRegistered
<1>1. SInv => ProgramsRegistered
  <2> SUFFICES ASSUME SInv  PROVE RegistriesAgree
    BY DEF SInv, ProgramsRegistered
  <2>1. ASSUME NEW p \in DOMAIN applBySocket
        PROVE  /\ applications[applBySocket[p].node][applBySocket[p].appl] = p
               /\ applByModule[applBySocket[p].module] = p
    BY DEF SInv, RegistryInv, Registered
  <2>2. Own \notin DOMAIN applBySocket
    BY SchedulerAssumption DEF SInv, RegistryInv, Accepted, Own
  <2>3. ASSUME NEW n \in NodeIds, NEW a \in DOMAIN applications[n]
        PROVE  IF applications[n][a] = Own THEN a \in Internal[n]
               ELSE applications[n][a] \in DOMAIN applBySocket
    BY <2>2 DEF SInv, RegistryInv, Occupied
  <2>4. \A n \in NodeIds : Internal[n] \subseteq DOMAIN applications[n]
    BY DEF SInv, RegistryInv, InternalStay
  <2> QED
    BY <2>1, <2>3, <2>4 DEF RegistriesAgree
<1> QED
  BY <1>1, SchedulerInvariant, PTL

------------------------------------------------------------------------------
(* SocketScheduler: the messages of programs *)

Units == {"size", "data"}

\* which unit stands at a place of a stream that begins with a message
UnitAt(i) == IF i % 2 = 1 THEN "size" ELSE "data"

InStep(s) == \A i \in 1..Len(s) : s[i] = UnitAt(i)

\* what the application of p has handled are messages
WholeSoFar(p) == \A i \in DOMAIN delivered[p] : delivered[p][i] = Message

\* messages of p in the event queue, and whether they are whole
Waiting(p) == IF events # <<>> /\ events[1].port = p THEN 1 ELSE 0
WaitingWhole(p) == events # <<>> /\ events[1].port = p => events[1].units = Message

StreamsTyped ==
  /\ stream \in [Ports -> Seq(Units)]
  /\ sent \in [Ports -> Nat]
  /\ delivered \in [Ports -> Seq(Seq(Units))]
  /\ events \in Seq([port : Ports, units : Seq(Units)])

\* An event belongs to a program with an application, and there is one at most.
EventsExist ==
  /\ Len(events) <= 1
  /\ events # <<>> => events[1].port \in DOMAIN applBySocket

\* While its messages are whole, a program's stream begins with a message, and what it
\* has sent is delivered, waits or is still in the stream.
Accounted(p) ==
  WholeSoFar(p) /\ WaitingWhole(p) =>
    /\ InStep(stream[p])
    /\ 2 * (Len(delivered[p]) + Waiting(p)) + Len(stream[p]) = sent[p]

\* An application goes when all is received, or after a message in pieces.
LeftWhole(p) ==
  p \notin DOMAIN applBySocket /\ peer[p] \in {"up", "closed"} =>
    \/ ~WholeSoFar(p)
    \/ peer[p] = "closed" /\ stream[p] = <<>>

MInv ==
  status = "running" =>
    /\ PeersTyped /\ DOMAIN applBySocket \subseteq Ports
    /\ StreamsTyped /\ EventsExist
    /\ \A p \in Ports : Accounted(p) /\ LeftWhole(p)

\* Streams alternate.
LEMMA UnitsAlternate ==
  ASSUME NEW i \in Int
  PROVE  /\ UnitAt(i) \in Units /\ UnitAt(i + 2) = UnitAt(i)
         /\ Message[((i - 1) % 2) + 1] = UnitAt(i)
BY DEF UnitAt, Units, Message

\* Whole messages before it do not change which unit comes.
LEMMA UnitAfter ==
  ASSUME NEW i \in Int, NEW k \in Int
  PROVE  UnitAt(2 * k + i) = UnitAt(i)
<1>1. (2 * k + i) % 2 = i % 2
  OBVIOUS
<1> QED
  BY <1>1 DEF UnitAt

\* What a program sends continues its stream.
LEMMA SentContinues ==
  ASSUME NEW s \in Seq(Units), NEW t \in Seq(Units), InStep(s),
         \A k \in 1..Len(t) : t[k] = UnitAt(Len(s) + k)
  PROVE  InStep(s \o t) /\ Len(s \o t) = Len(s) + Len(t) /\ s \o t \in Seq(Units)
BY DEF InStep

\* After a whole message comes another one.
LEMMA NextMessage ==
  ASSUME NEW s \in Seq(Units), InStep(s), Len(s) >= 2
  PROVE  /\ SubSeq(s, 3, Len(s)) \in Seq(Units)
         /\ Len(SubSeq(s, 3, Len(s))) = Len(s) - 2
         /\ InStep(SubSeq(s, 3, Len(s)))
<1>1. \A i \in 3..Len(s) : s[i] \in Units
  OBVIOUS
<1>2. PICK n \in Int : n = Len(s)
  BY LenProperties
<1>3. /\ SubSeq(s, 3, n) \in Seq(Units)
      /\ Len(SubSeq(s, 3, n)) = IF 3 <= n THEN n - 3 + 1 ELSE 0
      /\ \A i \in 1..(n - 3 + 1) : SubSeq(s, 3, n)[i] = s[3 + i - 1]
  BY <1>1, <1>2, SubSeqProperties
<1>4. Len(SubSeq(s, 3, n)) = n - 2
  BY <1>2, <1>3
<1>5. ASSUME NEW i \in 1..(n - 2)  PROVE SubSeq(s, 3, n)[i] = UnitAt(i)
  <2>1. i \in 1..(n - 3 + 1) /\ 3 + i - 1 = i + 2 /\ i + 2 \in 1..n
    OBVIOUS
  <2>2. i \in Int /\ SubSeq(s, 3, n)[i] = s[i + 2]
    BY <1>3, <2>1
  <2>3. s[i + 2] = UnitAt(i + 2)
    BY <1>2, <2>1 DEF InStep
  <2> QED
    BY <2>2, <2>3, UnitsAlternate
<1> QED
  BY <1>2, <1>3, <1>4, <1>5 DEF InStep

\* A program that nothing happened to keeps its account.
LEMMA AccountKept ==
  ASSUME NEW q, Accounted(q), stream'[q] = stream[q], sent'[q] = sent[q],
         delivered'[q] = delivered[q],
         Waiting(q)' = Waiting(q), WaitingWhole(q)' <=> WaitingWhole(q)
  PROVE  Accounted(q)'
<1>1. /\ WholeSoFar(q)' <=> WholeSoFar(q)
      /\ InStep(stream[q])' <=> InStep(stream[q])
  BY DEF WholeSoFar, InStep
<1> QED
  BY <1>1 DEF Accounted

\* So it does when the others' events do not concern it.
LEMMA LeftKept ==
  ASSUME NEW q, LeftWhole(q), stream'[q] = stream[q], delivered'[q] = delivered[q],
         peer'[q] = peer[q], q \in DOMAIN applBySocket' <=> q \in DOMAIN applBySocket
  PROVE  LeftWhole(q)'
<1>1. WholeSoFar(q)' <=> WholeSoFar(q)
  BY DEF WholeSoFar
<1> QED
  BY <1>1 DEF LeftWhole

\* Only the peers change: a program connects or hangs up.
LEMMA PeerAccounts ==
  ASSUME MInv, PeersTyped', NEW p \in Ports, peer' = [peer EXCEPT ![p] = peer'[p]],
         peer[p] = "up" \/ peer'[p] = "connecting", peer'[p] # "up",
         UNCHANGED <<stream, sent, registry, events, delivered, status>>
  PROVE  MInv'
<1> SUFFICES ASSUME status = "running"  PROVE MInv'
  BY DEF MInv
<1>1. UNCHANGED applBySocket
  BY DEF registry
<1>2. StreamsTyped' /\ EventsExist' /\ DOMAIN applBySocket' \subseteq Ports
  BY <1>1 DEF MInv, StreamsTyped, EventsExist
<1>3. ASSUME NEW q \in Ports  PROVE Accounted(q)'
  <2>1. Accounted(q) /\ Waiting(q)' = Waiting(q) /\ (WaitingWhole(q)' <=> WaitingWhole(q))
    BY DEF MInv, Waiting, WaitingWhole
  <2> QED
    BY <2>1, AccountKept
<1>4. ASSUME NEW q \in Ports  PROVE LeftWhole(q)'
  <2>1. LeftWhole(q) /\ (WholeSoFar(q)' <=> WholeSoFar(q))
    BY DEF MInv, WholeSoFar
  <2>2. CASE q = p
    BY <1>1, <2>1, <2>2 DEF LeftWhole
  <2>3. CASE q # p
    <3>1. peer'[q] = peer[q]
      BY <2>3 DEF MInv, PeersTyped
    <3> QED
      BY <1>1, <2>1, <3>1 DEF LeftWhole
  <2> QED
    BY <2>2, <2>3
<1> QED
  BY <1>2, <1>3, <1>4 DEF MInv

\* SendUnits: what is sent continues the stream.
LEMMA SendAccounts ==
  ASSUME MInv, NEW p \in Ports, NEW n \in 1..2, SendUnits(p, n)
  PROVE  MInv'
<1> SUFFICES ASSUME status = "running"  PROVE MInv'
  BY DEF MInv, SendUnits
<1>1. /\ peer[p] = "up" /\ sent' = [sent EXCEPT ![p] = @ + n]
      /\ stream' = [stream EXCEPT ![p] = @ \o SubSeq(Sent(p)', sent[p] + 1, sent[p] + n)]
      /\ UNCHANGED <<peer, applBySocket, events, delivered, status>>
  BY DEF SendUnits, registry
<1>2. /\ stream[p] \in Seq(Units) /\ sent[p] \in Nat
      /\ sent \in [Ports -> Nat] /\ stream \in [Ports -> Seq(Units)]
  BY DEF MInv, StreamsTyped, Units
<1>3. PICK a \in Nat : a = sent[p]
  BY <1>2
<1>4. PICK t : t = SubSeq(Sent(p)', a + 1, a + n)
  OBVIOUS
<1>5. /\ sent'[p] = a + n /\ stream'[p] = stream[p] \o t
      /\ \A q \in Ports \ {p} : sent'[q] = sent[q] /\ stream'[q] = stream[q]
  BY <1>1, <1>2, <1>3, <1>4
<1>6. ASSUME NEW i \in (a + 1)..(a + n)  PROVE Sent(p)'[i] = UnitAt(i)
  <2>1. i \in 1..(a + n) /\ i \in Int
    OBVIOUS
  <2>2. Sent(p)'[i] = Message[((i - 1) % 2) + 1]
    BY <1>5, <2>1 DEF Sent
  <2> QED
    BY <2>1, <2>2, UnitsAlternate
<1>7. t \in Seq(Units) /\ Len(t) = n /\ \A k \in 1..n : t[k] = UnitAt(a + k)
  <2>1. \A i \in (a + 1)..(a + n) : Sent(p)'[i] \in Units
    BY <1>6, UnitsAlternate
  <2>2. /\ t \in Seq(Units)
        /\ Len(t) = IF a + 1 <= a + n THEN (a + n) - (a + 1) + 1 ELSE 0
        /\ \A k \in 1..((a + n) - (a + 1) + 1) : t[k] = Sent(p)'[(a + 1) + k - 1]
    BY <1>4, <2>1, SubSeqProperties
  <2>3. ASSUME NEW k \in 1..n  PROVE t[k] = UnitAt(a + k)
    <3>1. k \in 1..((a + n) - (a + 1) + 1) /\ (a + 1) + k - 1 = a + k
          /\ a + k \in (a + 1)..(a + n)
      OBVIOUS
    <3> QED
      BY <1>6, <2>2, <3>1
  <2> QED
    BY <2>2, <2>3
<1>8. /\ stream[p] \o t \in Seq(Units) /\ Len(stream[p] \o t) = Len(stream[p]) + n
  BY <1>2, <1>7
<1>9. StreamsTyped' /\ EventsExist' /\ PeersTyped' /\ DOMAIN applBySocket' \subseteq Ports
  <2>1. sent' \in [Ports -> Nat]
    <3>1. a + n \in Nat
      OBVIOUS
    <3> QED
      BY <1>1, <1>2, <1>3, <3>1
  <2>5. stream' = [stream EXCEPT ![p] = stream[p] \o t]
    BY <1>1, <1>3, <1>4
  <2>6. stream' \in [Ports -> Seq(Units)]
    BY <1>2, <1>8, <2>5
  <2>2. PeersTyped /\ DOMAIN applBySocket \subseteq Ports /\ StreamsTyped /\ EventsExist
    BY DEF MInv
  <2>3. StreamsTyped'
    BY <1>1, <2>1, <2>6, <2>2 DEF StreamsTyped, Units
  <2>4. EventsExist' /\ PeersTyped'
    BY <1>1, <2>2 DEF EventsExist, PeersTyped
  <2> QED
    BY <1>1, <2>2, <2>3, <2>4
<1>10. ASSUME NEW q \in Ports  PROVE Accounted(q)'
  <2>1. /\ Accounted(q) /\ Waiting(q)' = Waiting(q)
        /\ WaitingWhole(q)' <=> WaitingWhole(q)
        /\ delivered'[q] = delivered[q] /\ (WholeSoFar(q)' <=> WholeSoFar(q))
    BY <1>1 DEF MInv, Waiting, WaitingWhole, WholeSoFar
  <2>2. CASE q # p
    BY <1>5, <2>1, <2>2, AccountKept
  <2>3. CASE q = p
    <3> SUFFICES ASSUME WholeSoFar(p), WaitingWhole(p)
                 PROVE  /\ InStep(stream'[p])
                        /\ 2 * (Len(delivered[p]) + Waiting(p)) + Len(stream'[p]) = sent'[p]
      BY <2>1, <2>3 DEF Accounted, InStep
    <3>1. /\ InStep(stream[p])
          /\ 2 * (Len(delivered[p]) + Waiting(p)) + Len(stream[p]) = a
      BY <1>3, <2>1, <2>3 DEF Accounted
    <3>2. PICK d \in Nat, w \in Nat, l \in Nat :
            d = Len(delivered[p]) /\ w = Waiting(p) /\ l = Len(stream[p])
      <4>1. Len(delivered[p]) \in Nat /\ Len(stream[p]) \in Nat
        <5>1. delivered[p] \in Seq(Seq(Units))
          BY DEF MInv, StreamsTyped, Units
        <5> QED
          BY <1>2, <5>1, LenProperties
      <4>2. Waiting(p) \in Nat
        BY DEF Waiting
      <4> QED
        BY <4>1, <4>2
    <3>3. \A i \in 1..n : t[i] = UnitAt(l + i)
      <4> SUFFICES ASSUME NEW i \in 1..n  PROVE t[i] = UnitAt(l + i)
        OBVIOUS
      <4>1. 2 * (d + w) + l = a
        BY <3>1, <3>2
      <4>2. a + i = 2 * (d + w) + (l + i) /\ l + i \in Int /\ d + w \in Int
        BY <4>1
      <4>3. UnitAt(a + i) = UnitAt(l + i)
        BY <4>2, UnitAfter
      <4> QED
        BY <1>7, <4>3
    <3>4. InStep(stream[p] \o t)
      BY <1>2, <1>7, <3>1, <3>2, <3>3, SentContinues
    <3>5. Len(stream'[p]) = l + n /\ InStep(stream'[p]) /\ sent'[p] = a + n
      BY <1>5, <1>8, <3>2, <3>4
    <3>6. 2 * (d + w) + l = a
      BY <3>1, <3>2
    <3>7. 2 * (d + w) + (l + n) = a + n
      BY <3>6
    <3> QED
      BY <3>2, <3>5, <3>7
  <2> QED
    BY <2>2, <2>3
<1>11. ASSUME NEW q \in Ports  PROVE LeftWhole(q)'
  <2>1. LeftWhole(q) /\ delivered'[q] = delivered[q] /\ (WholeSoFar(q)' <=> WholeSoFar(q))
    BY <1>1 DEF MInv, WholeSoFar
  <2> QED
    BY <1>1, <1>5, <2>1 DEF LeftWhole
<1> QED
  BY <1>9, <1>10, <1>11 DEF MInv

\* acceptConnection: nothing has been received from the program yet.
LEMMA AcceptAccounts ==
  ASSUME SInv, SInv', MInv, NEW p \in Ports, acceptConnection(p)
  PROVE  MInv'
<1> SUFFICES ASSUME status' = "running"  PROVE MInv'
  BY DEF MInv
<1>1. /\ peer[p] = "connecting" /\ peer' = [peer EXCEPT ![p] = "up"]
      /\ status = "running" /\ UNCHANGED <<stream, sent, events, delivered>>
  BY DEF acceptConnection, Idle
<1>2. PICK m : createApplication(p, mapApplAddr(p), m)
  BY DEF acceptConnection
<1>3. DOMAIN applBySocket' = DOMAIN applBySocket \cup {p}
  BY <1>2 DEF createApplication, WithEntry
<1>4. /\ DOMAIN applBySocket \subseteq Ports /\ StreamsTyped /\ EventsExist /\ PeersTyped
      /\ \A q \in Ports : Accounted(q) /\ LeftWhole(q)
  BY <1>1 DEF MInv
<1>5. PeersTyped' /\ DOMAIN applBySocket' \subseteq Ports /\ StreamsTyped' /\ EventsExist'
  BY <1>1, <1>3, <1>4 DEF SInv, RegistryInv, StreamsTyped, EventsExist
<1>6. ASSUME NEW q \in Ports  PROVE Accounted(q)'
  <2>1. Accounted(q) /\ Waiting(q)' = Waiting(q) /\ (WaitingWhole(q)' <=> WaitingWhole(q))
    BY <1>1, <1>4 DEF Waiting, WaitingWhole
  <2> QED
    BY <1>1, <2>1, AccountKept
<1>7. ASSUME NEW q \in Ports  PROVE LeftWhole(q)'
  <2>1. CASE q = p
    BY <1>3, <2>1 DEF LeftWhole
  <2>2. CASE q # p
    <3>1. peer'[q] = peer[q] /\ LeftWhole(q)
      BY <1>1, <1>4, <2>2 DEF PeersTyped
    <3> QED
      BY <1>1, <1>3, <2>2, <3>1, LeftKept
  <2> QED
    BY <2>1, <2>2
<1> QED
  BY <1>5, <1>6, <1>7 DEF MInv

\* A sequence of one element.
LEMMA OnlyOne ==
  ASSUME NEW S, NEW s \in Seq(S), Len(s) <= 1, s # <<>>
  PROVE  Len(s) = 1 /\ s[1] \in S /\ Head(s) = s[1] /\ Tail(s) = <<>>
<1>1. Len(s) \in Nat /\ (Len(s) = 0 => s = <<>>)
  BY EmptySeq, LenProperties
<1>2. Len(s) = 1
  <2>1. PICK l \in Nat : l = Len(s) /\ l <= 1 /\ l # 0
    BY ONLY <1>1, s # <<>>, Len(s) <= 1
  <2> QED
    BY <2>1
<1>3. /\ s[1] \in S /\ Head(s) = s[1]
  BY <1>2
<1>4. Tail(s) \in Seq(S) /\ Len(Tail(s)) = 0
  <2>1. Tail(s) \in Seq(S) /\ Len(Tail(s)) = Len(s) - 1
    BY HeadTailProperties
  <2> QED
    BY <1>2, <2>1
<1>5. Tail(s) = <<>>
  BY <1>4, EmptySeq
<1> QED
  BY <1>2, <1>3, <1>5

\* handleExternal: what waited is delivered.
LEMMA HandleAccounts == ASSUME MInv, handleExternal  PROVE MInv'
<1>1. /\ status = "running" /\ events # <<>> /\ events' = Tail(events)
      /\ UNCHANGED <<peer, stream, sent, applBySocket, status>>
  BY DEF handleExternal, registry
<1>2. PICK e : e = events[1]
  OBVIOUS
<1>3. /\ PeersTyped /\ DOMAIN applBySocket \subseteq Ports /\ StreamsTyped /\ EventsExist
      /\ \A q \in Ports : Accounted(q) /\ LeftWhole(q)
  BY <1>1 DEF MInv
<1>4. /\ events \in Seq([port : Ports, units : Seq(Units)]) /\ Len(events) <= 1
      /\ events[1].port \in DOMAIN applBySocket
  BY <1>1, <1>3 DEF StreamsTyped, EventsExist
<1>5. /\ events' = <<>> /\ e \in [port : Ports, units : Seq(Units)]
      /\ e.port \in DOMAIN applBySocket /\ e = Head(events)
  BY <1>1, <1>2, <1>4, OnlyOne
<1>6. delivered' = [delivered EXCEPT ![e.port] = Append(delivered[e.port], e.units)]
  BY <1>5, Zenon DEF handleExternal
<1>7. PICK p, u : p \in Ports /\ u \in Seq(Units) /\ p = e.port /\ u = e.units
  <2>1. e.port \in Ports /\ e.units \in Seq(Units)
    BY <1>5
  <2> QED
    BY <2>1 DEF Units
<1>8. /\ delivered \in [Ports -> Seq(Seq(Units))]
      /\ delivered'[p] = Append(delivered[p], u)
      /\ \A q \in Ports \ {p} : delivered'[q] = delivered[q]
      /\ delivered' \in [Ports -> Seq(Seq(Units))]
  <2>1. delivered \in [Ports -> Seq(Seq(Units))]
    BY <1>3 DEF StreamsTyped, Units
  <2>2. delivered' = [delivered EXCEPT ![p] = Append(delivered[p], u)]
    BY <1>6, <1>7
  <2>3. Append(delivered[p], u) \in Seq(Seq(Units))
    BY <1>7, <2>1, AppendProperties
  <2> QED
    BY <1>7, <2>1, <2>2, <2>3
<1>9. PICK d \in Seq(Seq(Units)) : d = delivered[p]
  BY <1>8
<1>10. /\ Len(delivered'[p]) = Len(d) + 1 /\ delivered'[p][Len(d) + 1] = u
       /\ DOMAIN delivered'[p] = 1..(Len(d) + 1) /\ DOMAIN d = 1..Len(d) /\ Len(d) \in Nat
       /\ \A i \in 1..Len(d) : delivered'[p][i] = d[i]
  BY <1>7, <1>8, <1>9
<1>11. WholeSoFar(p)' => WholeSoFar(p) /\ u = Message
  <2> SUFFICES ASSUME \A i \in DOMAIN delivered'[p] : delivered'[p][i] = Message
               PROVE  (\A i \in DOMAIN d : d[i] = Message) /\ u = Message
    BY <1>9 DEF WholeSoFar
  <2>1. u = Message
    BY <1>10
  <2>2. \A i \in DOMAIN d : d[i] = Message
    <3> SUFFICES ASSUME NEW i \in 1..Len(d)  PROVE d[i] = Message
      BY <1>10
    <3>1. i \in DOMAIN delivered'[p] /\ delivered'[p][i] = d[i]
      BY <1>10
    <3> QED
      BY <3>1
  <2> QED
    BY <2>1, <2>2
<1>12. StreamsTyped' /\ EventsExist' /\ PeersTyped' /\ DOMAIN applBySocket' \subseteq Ports
  <2>1. events' \in Seq([port : Ports, units : Seq(Units)]) /\ Len(events') <= 1
    BY <1>5
  <2>2. StreamsTyped'
    BY <1>1, <1>3, <1>8, <2>1 DEF StreamsTyped, Units
  <2>3. EventsExist' /\ PeersTyped'
    BY <1>1, <1>3, <1>5, <2>1 DEF EventsExist, PeersTyped
  <2> QED
    BY <1>1, <1>3, <2>2, <2>3
<1>13. ASSUME NEW q \in Ports  PROVE Accounted(q)'
  <2>1. Accounted(q)
    BY <1>3
  <2>2. Waiting(q)' = 0 /\ WaitingWhole(q)'
    BY <1>5 DEF Waiting, WaitingWhole
  <2>3. CASE q # p
    <3>1. Waiting(q) = 0 /\ WaitingWhole(q)
      BY <1>2, <1>7, <2>3 DEF Waiting, WaitingWhole
    <3> QED
      BY <1>1, <1>8, <2>1, <2>2, <2>3, <3>1, AccountKept
  <2>4. CASE q = p
    <3> SUFFICES ASSUME WholeSoFar(p)'
                 PROVE  /\ InStep(stream[p])
                        /\ 2 * Len(delivered'[p]) + Len(stream[p]) = sent[p]
      <4>1. 2 * (Len(delivered'[p]) + 0) = 2 * Len(delivered'[p])
        BY <1>10
      <4> QED
        BY <1>1, <2>2, <2>4, <4>1 DEF Accounted, InStep
    <3>1. Waiting(p) = 1 /\ (WaitingWhole(p) <=> u = Message)
      BY <1>1, <1>2, <1>7 DEF Waiting, WaitingWhole
    <3>2. InStep(stream[p]) /\ 2 * (Len(d) + 1) + Len(stream[p]) = sent[p]
      BY <1>9, <1>11, <2>1, <2>4, <3>1 DEF Accounted
    <3> QED
      BY <1>10, <3>2
  <2> QED
    BY <2>3, <2>4
<1>14. ASSUME NEW q \in Ports  PROVE LeftWhole(q)'
  <2>1. CASE q = p
    BY <1>1, <1>5, <1>7, <2>1 DEF LeftWhole
  <2>2. CASE q # p
    <3>1. LeftWhole(q) /\ delivered'[q] = delivered[q]
      BY <1>3, <1>8, <2>2
    <3> QED
      BY <1>1, <3>1, LeftKept
  <2> QED
    BY <2>1, <2>2
<1> QED
  BY <1>12, <1>13, <1>14 DEF MInv

\* What recv returns is the beginning of the stream, and something of a message.
LEMMA ReceivedIs ==
  ASSUME NEW s \in Seq(Units), s # <<>>, NEW u \in Received(s)
  PROVE  /\ u \in Seq(Units) /\ Len(u) \in 0..Len(s)
         /\ SubSeq(s, Len(u) + 1, Len(s)) \in Seq(Units)
         /\ InStep(s) => u # <<>>
<1>1. /\ Len(s) \in Nat \ {0} /\ \A i \in 1..Len(s) : s[i] \in Units
      /\ Head(s) = s[1]
  BY EmptySeq
<1>2. PICK n \in 0..Len(s) : /\ u = SubSeq(s, 1, n)
                             /\ Head(s) = "size" => n # 0
  <2>1. CASE Head(s) = "size"
    <3>1. u = SubSeq(s, 1, IF Len(s) < 2 THEN Len(s) ELSE 2)
      BY <2>1 DEF Received
    <3>2. (IF Len(s) < 2 THEN Len(s) ELSE 2) \in (0..Len(s)) \ {0}
      BY <1>1
    <3> QED
      BY <3>1, <3>2
  <2>2. CASE Head(s) # "size"
    BY <2>2 DEF Received
  <2> QED
    BY <2>1, <2>2
<1>3. u \in Seq(Units) /\ Len(u) = n
  <2>1. /\ u \in Seq(Units)
        /\ Len(u) = IF 1 <= n THEN n - 1 + 1 ELSE 0
    BY <1>1, <1>2, SubSeqProperties
  <2> QED
    BY <1>1, <2>1
<1>4. SubSeq(s, n + 1, Len(s)) \in Seq(Units)
  <2>1. \A i \in (n + 1)..Len(s) : s[i] \in Units
    BY <1>1
  <2>2. n + 1 \in Int /\ Len(s) \in Int
    BY <1>1
  <2> QED
    BY <2>1, <2>2, SubSeqProperties
<1>5. InStep(s) => Head(s) = "size"
  <2>1. UnitAt(1) = "size"
    BY DEF UnitAt
  <2> QED
    BY <1>1, <2>1 DEF InStep
<1>6. n # 0 => u # <<>>
  BY <1>3, EmptySeq
<1> QED
  BY <1>2, <1>3, <1>4, <1>5, <1>6

\* receiveWithTimeout, with an event for the application.
LEMMA EventAccounts ==
  ASSUME MInv, Idle, NEW p \in DOMAIN applBySocket, stream[p] # <<>>,
         NEW u \in Received(stream[p]), u # <<>>,
         stream' = [stream EXCEPT ![p] = SubSeq(stream[p], Len(u) + 1, Len(stream[p]))],
         events' = <<[port |-> p, units |-> u]>>,
         UNCHANGED <<peer, sent, delivered, applBySocket, status>>
  PROVE  MInv'
<1>1. /\ status = "running" /\ events = <<>> /\ p \in Ports
      /\ PeersTyped /\ DOMAIN applBySocket \subseteq Ports /\ StreamsTyped
      /\ \A q \in Ports : Accounted(q) /\ LeftWhole(q)
  BY DEF Idle, MInv
<1>2. PICK s \in Seq(Units) : s = stream[p]
  BY <1>1 DEF StreamsTyped, Units
<1>3. PICK t : t = SubSeq(s, Len(u) + 1, Len(s))
  OBVIOUS
<1>4. /\ u \in Seq(Units) /\ Len(u) \in 0..Len(s) /\ t \in Seq(Units)
  BY <1>2, <1>3, ReceivedIs
<1>5. /\ stream \in [Ports -> Seq(Units)] /\ stream' = [stream EXCEPT ![p] = t]
  BY <1>1, <1>2, <1>3 DEF StreamsTyped, Units
<1>6. /\ stream' \in [Ports -> Seq(Units)] /\ stream'[p] = t
      /\ \A q \in Ports \ {p} : stream'[q] = stream[q]
  BY <1>1, <1>4, <1>5
<1>7. /\ events' # <<>> /\ Len(events') = 1
      /\ events'[1].port = p /\ events'[1].units = u
      /\ events' \in Seq([port : Ports, units : Seq(Units)])
  <2>1. PICK e : e = [port |-> p, units |-> u]
    OBVIOUS
  <2>2. e \in [port : Ports, units : Seq(Units)] /\ e.port = p /\ e.units = u
    BY <1>1, <1>4, <2>1 DEF Units
  <2>3. events' = <<e>>
    BY <2>1
  <2> QED
    BY <2>2, <2>3
<1>8. StreamsTyped' /\ EventsExist' /\ PeersTyped' /\ DOMAIN applBySocket' \subseteq Ports
  <2>1. StreamsTyped'
    BY <1>1, <1>6, <1>7 DEF StreamsTyped, Units
  <2>2. EventsExist' /\ PeersTyped'
    BY <1>1, <1>7 DEF EventsExist, PeersTyped
  <2> QED
    BY <1>1, <2>1, <2>2
<1>9. ASSUME NEW q \in Ports  PROVE Accounted(q)'
  <2>1. Accounted(q) /\ Waiting(q) = 0 /\ WaitingWhole(q)
    BY <1>1 DEF Waiting, WaitingWhole
  <2>2. CASE q # p
    <3>1. Waiting(q)' = 0 /\ WaitingWhole(q)'
      BY <1>7, <2>2 DEF Waiting, WaitingWhole
    <3> QED
      BY <1>6, <2>1, <2>2, <3>1, AccountKept
  <2>3. CASE q = p
    <3>1. Waiting(p)' = 1 /\ (WaitingWhole(p)' <=> u = Message)
      BY <1>7 DEF Waiting, WaitingWhole
    <3> SUFFICES ASSUME WholeSoFar(p), u = Message
                 PROVE  InStep(t) /\ 2 * (Len(delivered[p]) + 1) + Len(t) = sent[p]
      BY <1>6, <2>3, <3>1 DEF Accounted, InStep, WholeSoFar
    <3>2. InStep(s) /\ 2 * (Len(delivered[p]) + 0) + Len(s) = sent[p]
      BY <1>2, <2>1, <2>3 DEF Accounted
    <3>3. Len(u) = 2 /\ Len(s) >= 2
      <4>1. Len(u) = 2
        BY DEF Message
      <4> QED
        BY <1>4, <4>1
    <3>4. t = SubSeq(s, 3, Len(s))
      BY <1>3, <3>3
    <3>5. InStep(t) /\ Len(t) = Len(s) - 2
      BY <3>2, <3>3, <3>4, NextMessage
    <3>6. PICK d \in Nat, l \in Nat : d = Len(delivered[p]) /\ l = Len(s)
      <4>1. delivered[p] \in Seq(Seq(Units))
        BY <1>1 DEF StreamsTyped, Units
      <4> QED
        BY <4>1, LenProperties
    <3>7. 2 * (d + 1) + (l - 2) = 2 * (d + 0) + l
      OBVIOUS
    <3> QED
      BY <3>2, <3>5, <3>6, <3>7
  <2> QED
    BY <2>2, <2>3
<1>10. ASSUME NEW q \in Ports  PROVE LeftWhole(q)'
  <2>1. CASE q = p
    BY <2>1 DEF LeftWhole
  <2>2. CASE q # p
    BY <1>1, <1>6, <2>2, LeftKept
  <2> QED
    BY <2>1, <2>2
<1> QED
  BY <1>8, <1>9, <1>10 DEF MInv

\* receiveWithTimeout, when the application goes.
LEMMA LeaveAccounts ==
  ASSUME MInv, Idle, NEW p \in DOMAIN applBySocket, deleteApplication(p),
         stream' = stream, ~WholeSoFar(p) \/ (peer[p] = "closed" /\ stream[p] = <<>>),
         UNCHANGED <<peer, sent, delivered, events>>
  PROVE  MInv'
<1>1. /\ status = "running" /\ events = <<>> /\ p \in Ports
      /\ PeersTyped /\ DOMAIN applBySocket \subseteq Ports /\ StreamsTyped
      /\ \A q \in Ports : Accounted(q) /\ LeftWhole(q)
  BY DEF Idle, MInv
<1>2. DOMAIN applBySocket' = DOMAIN applBySocket \ {p}
  BY DEF deleteApplication, Restrict
<1>3. StreamsTyped' /\ EventsExist' /\ PeersTyped' /\ DOMAIN applBySocket' \subseteq Ports
  <2>1. StreamsTyped' /\ PeersTyped'
    BY <1>1 DEF StreamsTyped, PeersTyped
  <2>2. EventsExist'
    BY <1>1 DEF EventsExist, MInv
  <2> QED
    BY <1>1, <1>2, <2>1, <2>2
<1>4. ASSUME NEW q \in Ports  PROVE Accounted(q)'
  <2>1. Accounted(q) /\ Waiting(q)' = Waiting(q) /\ (WaitingWhole(q)' <=> WaitingWhole(q))
    BY <1>1 DEF Waiting, WaitingWhole
  <2> QED
    BY <2>1, AccountKept
<1>5. ASSUME NEW q \in Ports  PROVE LeftWhole(q)'
  <2>1. CASE q = p
    <3>1. WholeSoFar(p)' <=> WholeSoFar(p)
      BY DEF WholeSoFar
    <3> QED
      BY <2>1, <3>1 DEF LeftWhole
  <2>2. CASE q # p
    BY <1>1, <1>2, <2>2, LeftKept
  <2> QED
    BY <2>1, <2>2
<1> QED
  BY <1>3, <1>4, <1>5 DEF MInv

\* receiveWithTimeout.
LEMMA ReceiveAccounts ==
  ASSUME MInv, NEW p \in Ports, receiveWithTimeout(p)
  PROVE  MInv'
<1> SUFFICES ASSUME status' = "running"  PROVE MInv'
  BY DEF MInv
<1>1. /\ Idle /\ status = "running" /\ events = <<>> /\ p \in DOMAIN applBySocket
      /\ UNCHANGED <<peer, sent, delivered>>
  BY DEF receiveWithTimeout, Idle
<1>2. PICK s \in Seq(Units) : s = stream[p]
  BY <1>1 DEF MInv, StreamsTyped, Units
<1>3. ASSUME s # <<>>, NEW u \in Received(s),
             stream' = [stream EXCEPT ![p] = SubSeq(s, Len(u) + 1, Len(s))]
      PROVE  /\ u # <<>> /\ events' = Append(events, [port |-> p, units |-> u])
                /\ UNCHANGED <<registry, status>> => MInv'
             /\ u = <<>> /\ shutdownApplication(p) /\ UNCHANGED events => MInv'
  <2>1. CASE /\ u # <<>> /\ events' = Append(events, [port |-> p, units |-> u])
             /\ UNCHANGED <<registry, status>>
    <3>1. events' = <<[port |-> p, units |-> u]>> /\ UNCHANGED <<applBySocket, status>>
      BY <1>1, <2>1 DEF registry
    <3> QED
      BY <1>1, <1>2, <1>3, <2>1, <3>1, EventAccounts
  <2>2. CASE u = <<>> /\ shutdownApplication(p) /\ UNCHANGED events
    <3>1. SubSeq(s, Len(u) + 1, Len(s)) = s
      BY <2>2, SubSeqFull
    <3>2. stream' = stream
      BY <1>1, <1>2, <1>3, <3>1 DEF MInv, StreamsTyped
    <3>3. ~InStep(s)
      BY <1>3, <2>2, ReceivedIs
    <3>4. ~WholeSoFar(p)
      BY <1>1, <1>2, <3>3 DEF MInv, Accounted, WaitingWhole
    <3> QED
      BY <1>1, <2>2, <3>2, <3>4, LeaveAccounts DEF shutdownApplication
  <2> QED
    BY <2>1, <2>2
<1>4. CASE stream[p] = <<>> /\ peer[p] = "closed" /\ shutdownApplication(p)
           /\ UNCHANGED <<stream, events>>
  BY <1>1, <1>4, LeaveAccounts DEF shutdownApplication
<1> QED
  BY <1>2, <1>3, <1>4 DEF receiveWithTimeout

\* Nothing has been sent at first.
LEMMA NothingSent == SchedulerInit => MInv
<1> SUFFICES ASSUME SchedulerInit  PROVE MInv
  OBVIOUS
<1>1. SInv
  BY NobodyYet
<1>2. /\ stream = [p \in Ports |-> <<>>] /\ sent = [p \in Ports |-> 0]
      /\ delivered = [p \in Ports |-> <<>>] /\ events = <<>> /\ DOMAIN applBySocket = {}
      /\ peer \in [Ports -> {"absent", "new"}]
  BY DEF SchedulerInit
<1>3. StreamsTyped /\ EventsExist /\ PeersTyped
  <2>1. Len(events) <= 1
    BY <1>2, EmptySeq
  <2> QED
    BY <1>1, <1>2, <2>1 DEF StreamsTyped, EventsExist, SInv, RegistryInv
<1>4. ASSUME NEW p \in Ports  PROVE Accounted(p) /\ LeftWhole(p)
  <2>1. /\ stream[p] = <<>> /\ sent[p] = 0 /\ delivered[p] = <<>> /\ Waiting(p) = 0
        /\ peer[p] \notin {"up", "closed"}
    BY <1>2 DEF Waiting
  <2> QED
    BY <2>1 DEF Accounted, LeftWhole, InStep
<1> QED
  BY <1>2, <1>3, <1>4 DEF MInv

\* Every step of programs, scheduler and applications keeps the accounts.
LEMMA AccountsKept == SInv /\ SInv' /\ MInv /\ [SchedulerNext]_schedulerVars => MInv'
<1> SUFFICES ASSUME SInv, SInv', MInv, [SchedulerNext]_schedulerVars  PROVE MInv'
  OBVIOUS
<1>1. PeersTyped /\ PeersTyped'
  BY DEF SInv, RegistryInv
<1>2. ASSUME NEW p \in Ports, Connect(p)  PROVE MInv'
  <2>1. peer' = [peer EXCEPT ![p] = peer'[p]] /\ peer'[p] = "connecting"
    BY <1>1, <1>2 DEF Connect, PeersTyped
  <2> QED
    BY <1>1, <1>2, <2>1, PeerAccounts DEF Connect
<1>3. ASSUME NEW p \in Ports, NEW how \in {"closed", "reset"}, Hangup(p, how)  PROVE MInv'
  <2>1. peer' = [peer EXCEPT ![p] = peer'[p]] /\ peer'[p] = how /\ peer[p] = "up"
    BY <1>1, <1>3 DEF Hangup, PeersTyped
  <2> QED
    BY <1>1, <1>3, <2>1, PeerAccounts DEF Hangup
<1>4. ASSUME NEW p \in Ports, acceptConnection(p)  PROVE MInv'
  BY <1>4, AcceptAccounts
<1>5. ASSUME NEW p \in Ports, receiveWithTimeout(p)  PROVE MInv'
  BY <1>5, ReceiveAccounts
<1>6. ASSUME NEW p \in Ports, NEW n \in 1..2, SendUnits(p, n)  PROVE MInv'
  BY <1>6, SendAccounts
<1>7. CASE handleExternal
  BY <1>7, HandleAccounts
<1>8. CASE endRun
  BY <1>8 DEF endRun, MInv
<1>9. CASE UNCHANGED schedulerVars
  <2>1. /\ UNCHANGED <<peer, stream, sent, applBySocket, events, delivered, status>>
    BY <1>9 DEF schedulerVars
  <2>2. ASSUME NEW q \in Ports
        PROVE  Waiting(q)' = Waiting(q) /\ (WaitingWhole(q)' <=> WaitingWhole(q))
    BY <2>1 DEF Waiting, WaitingWhole
  <2>3. ASSUME NEW q \in Ports, Accounted(q), LeftWhole(q)
        PROVE  Accounted(q)' /\ LeftWhole(q)'
    BY <2>1, <2>2, <2>3, AccountKept, LeftKept
  <2>4. StreamsTyped => StreamsTyped'
    BY <2>1 DEF StreamsTyped
  <2>5. EventsExist => EventsExist'
    BY <2>1 DEF EventsExist
  <2> QED
    BY <1>1, <2>1, <2>3, <2>4, <2>5 DEF MInv
<1> QED
  BY <1>2, <1>3, <1>4, <1>5, <1>6, <1>7, <1>8, <1>9 DEF SchedulerNext

\* What a program has sent is delivered completely before its application goes, unless
\* a message has come in pieces (receiveWithTimeout, shutdownApplication).
THEOREM MessagesAreWhole == SchedulerSpec => []MessagesWhole
<1>1. MInv => MessagesWhole
  <2> SUFFICES ASSUME MInv, NEW p \in Ports, status = "running",
                      p \notin DOMAIN applBySocket, peer[p] \in {"up", "closed"}, WholeSoFar(p)
               PROVE  peer[p] = "closed" /\ 2 * Len(delivered[p]) = sent[p]
    BY DEF MessagesWhole, WholeSoFar
  <2>1. peer[p] = "closed" /\ stream[p] = <<>>
    BY DEF MInv, LeftWhole
  <2>2. Waiting(p) = 0 /\ WaitingWhole(p)
    BY DEF MInv, EventsExist, Waiting, WaitingWhole
  <2>3. 2 * (Len(delivered[p]) + 0) + 0 = sent[p]
    <3>1. Len(stream[p]) = 0
      BY <2>1, EmptySeq
    <3> QED
      BY <2>2, <3>1 DEF MInv, Accounted
  <2>4. Len(delivered[p]) \in Nat
    <3>1. delivered[p] \in Seq(Seq(Units))
      BY DEF MInv, StreamsTyped, Units
    <3> QED
      BY <3>1, LenProperties
  <2> QED
    BY <2>1, <2>3, <2>4
<1>2. SInv /\ MInv /\ [SchedulerNext]_schedulerVars => MInv'
  BY SchedulerKeeps, AccountsKept
<1> QED
  BY <1>1, <1>2, NothingSent, SchedulerInvariant, PTL DEF SchedulerSpec
==============================================================================
