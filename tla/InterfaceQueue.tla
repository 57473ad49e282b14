--------------------------- MODULE InterfaceQueue ---------------------------
(***************************************************************************)
(* The queue before a link of ProtSim (support/InterfaceQueue.cc): packets *)
(* wait while the link transmits, and statistics about the link, the queue *)
(* and the waiting times are kept over a transient phase and batches.      *)
(*                                                                         *)
(* Time is discrete.  A weighted statistic is its sum, its weight (a time) *)
(* and the time of its last change.  The output vectors and the histogram  *)
(* of the source are left out.                                             *)
(***************************************************************************)
EXTENDS Integers, Sequences

CONSTANTS
  Durations,                                      \* transmission times of packets
  QueueLengths, TransientRemovals, BatchLengths,  \* values of the parameters
  MaxTime, MaxBatches                             \* bounds

ASSUME InterfaceQueueAssumption ==
  Durations \cup QueueLengths \cup TransientRemovals \cup BatchLengths
    \cup {MaxTime, MaxBatches} \subseteq Nat

None == -1

VARIABLES
  par,      \* the module's parameters; never change
  now,
  queue,    \* packets that wait: arrival and duration
  finishes, \* transmissionFinishes of the link
  timeout,  \* when the timeout is scheduled, or None
  stat,     \* the statistics and how far they have come
  truth     \* history: what they should say about the time since their reset

queueVars == <<par, now, queue, finishes, timeout, stat, truth>>

------------------------------------------------------------------------------
\* a weighted statistic gets the value of one more interval, up to now
Collected(w, value) ==
  [sum |-> w.sum + value * (now - w.since), time |-> w.time + (now - w.since),
   since |-> now]

Blank == [sum |-> 0, time |-> 0, since |-> now]

\* linkUtilizationStat, with its lastUtilChange
CollectUtil(s, busy) == [s EXCEPT !.util = Collected(@, busy)]

\* queueLengthStat, with its lastQueueChange
CollectQueue(s) == [s EXCEPT !.queue = Collected(@, Len(queue))]

CollectWaiting(s) == [s EXCEPT !.samples = @ + 1]

resetStatistics(s) == [s EXCEPT !.util = Blank, !.queue = Blank, !.samples = 0]

recordStatistics(s) ==
  LET c == CollectQueue(CollectUtil(s, IF finishes < now THEN 0 ELSE 1))
  IN  [c EXCEPT !.recorded = <<c.util.sum, c.util.time, c.queue.sum, c.queue.time>>]

detectTransient(s) ==
  IF ~s.transientOver /\ s.samples >= par.transientRemoval
  THEN resetStatistics([s EXCEPT !.transientOver = TRUE]) ELSE s

\* with the assertion at its end
detectBatch(s) ==
  LET full == s.transientOver /\ par.batchLength > 0 /\ s.samples >= par.batchLength
      t == IF full
           THEN [resetStatistics(recordStatistics(s)) EXCEPT !.batchNum = @ + 1] ELSE s
  IN  [t EXCEPT !.failed = @ \/ (par.batchLength > 0 /\ t.samples >= par.batchLength)]

detect(s) == detectBatch(detectTransient(s))

\* the link takes a packet; the timeout comes as its transmission ends
Send(p) ==
  /\ finishes' = now + p.duration
  /\ timeout' = now + p.duration

\* history: a reset of the statistics starts the truth anew; that of a batch is kept
Observe(s) ==
  truth' = IF s.transientOver # stat.transientOver \/ s.batchNum # stat.batchNum
           THEN [busy |-> 0, area |-> 0, time |-> 0,
                 batch |-> IF s.batchNum = stat.batchNum THEN <<>>
                           ELSE <<truth.busy, truth.time, truth.area, truth.time>>]
           ELSE truth

\* The timeout: the next packet is sent, or the link falls idle.  (The queue length is
\* collected before the packet leaves the queue.)
handleTimeout ==
  /\ timeout = now
  /\ \/ /\ queue # <<>>
        /\ stat' = detect(CollectWaiting(CollectQueue(stat)))
        /\ queue' = Tail(queue)
        /\ Send(Head(queue))
     \/ /\ queue = <<>>
        /\ stat' = CollectUtil(stat, 1)
        /\ timeout' = None
        /\ UNCHANGED <<queue, finishes>>
  /\ Observe(stat')
  /\ UNCHANGED <<par, now>>

\* mutant: a link that is about to end a transmission is taken to be free
CanSendEarly == queue = <<>> /\ finishes <= now + 1

CanSend == queue = <<>> /\ finishes <= now

\* A packet arrives: it is sent, waits, or is dropped.  The timeout has the highest
\* priority of the events of its time.
handleMessage(duration) ==
  /\ timeout # now
  /\ \/ /\ CanSend
        /\ stat' = detect(CollectWaiting(CollectUtil(stat, 0)))
        /\ Send([duration |-> duration])
        /\ UNCHANGED queue
     \/ /\ ~CanSend /\ Len(queue) < par.maxQueueLength
        /\ stat' = CollectQueue(stat)
        /\ queue' = Append(queue, [arrival |-> now, duration |-> duration])
        /\ UNCHANGED <<finishes, timeout>>
     \/ /\ ~CanSend /\ Len(queue) >= par.maxQueueLength
        /\ UNCHANGED <<stat, queue, finishes, timeout>>
  /\ Observe(stat')
  /\ UNCHANGED <<par, now>>

Tick ==
  /\ now < MaxTime /\ timeout # now
  /\ now' = now + 1
  /\ truth' = [busy |-> truth.busy + (IF now < finishes THEN 1 ELSE 0),
               area |-> truth.area + Len(queue), time |-> truth.time + 1,
               batch |-> truth.batch]
  /\ UNCHANGED <<par, queue, finishes, timeout, stat>>

QueueInit ==
  /\ par \in [maxQueueLength : QueueLengths, transientRemoval : TransientRemovals,
              batchLength : BatchLengths]
  /\ now = 0 /\ queue = <<>> /\ finishes = 0 /\ timeout = None
  /\ stat = [util |-> Blank, queue |-> Blank, samples |-> 0,
             transientOver |-> par.transientRemoval = 0, batchNum |-> 0,
             recorded |-> <<>>, failed |-> FALSE]
  /\ truth = [busy |-> 0, area |-> 0, time |-> 0, batch |-> <<>>]

QueueNext ==
  /\ ~stat.failed /\ stat.batchNum < MaxBatches
  /\ \/ handleTimeout
     \/ \E d \in Durations : handleMessage(d)
     \/ Tick

QueueSpec == QueueInit /\ [][QueueNext]_queueVars

------------------------------------------------------------------------------
(* Properties *)

\* The link has a timeout pending until it falls idle, so that no packet stays in the
\* queue of an idle link; and a packet that arrives is only sent at once when there is
\* none, which could not be scheduled a second time.
LinkServed ==
  /\ timeout # None => timeout = finishes
  /\ finishes > now \/ queue # <<>> => timeout # None
  /\ timeout # now /\ CanSend => timeout = None

\* With the intervals not collected yet, the statistics say exactly how long the link
\* was busy and how full the queue was since their reset; so do those of a batch.  The
\* assertion about full batches fails only if the transient phase is longer than one.
StatisticsExact ==
  /\ stat.util.sum + (IF timeout # None THEN now - stat.util.since ELSE 0) = truth.busy
  /\ stat.util.time + (now - stat.util.since) = truth.time
  /\ stat.queue.sum + Len(queue) * (now - stat.queue.since) = truth.area
  /\ stat.queue.time + (now - stat.queue.since) = truth.time
  /\ stat.recorded = truth.batch
  /\ stat.failed => par.transientRemoval > par.batchLength

\* The link is never left idle while a packet waits, and what is measured of it is true.
QueueExact == LinkServed /\ StatisticsExact
==============================================================================
