----------------------------- MODULE MCSimulator -----------------------------
(***************************************************************************)
(* The parts of the simulator that do not depend on each other, checked in *)
(* one run: a behaviour belongs to one part, and the variables of the      *)
(* others keep a value: an empty queue and an empty buffer, and no network *)
(* or program at all.                                                      *)
(***************************************************************************)
EXTENDS InterfaceQueue, DataBuffer, SocketScheduler, SequencesExt, TLC

CONSTANTS MaxPings

VARIABLES
  part,
  gates, cost, routes, notifs, changes, link, pingsSent, received, expired, aborted,
  meant, data, infinite, finished, lineno, args, parsed

networkVars ==
  <<gates, cost, routes, notifs, changes, link, pingsSent, received, expired, aborted>>
shellVars == <<meant, data, infinite, finished, lineno, args, parsed>>

------------------------------------------------------------------------------
(* Network *)

\* a square with one diagonal; a triangle; three nodes of which one cannot be left
Square == 0 :> <<1, 2, 3>> @@ 1 :> <<0, 2>> @@ 2 :> <<1, 0, 3>> @@ 3 :> <<2, 0>>
Triangle == 4 :> <<5, 6>> @@ 5 :> <<4, 6>> @@ 6 :> <<5, 4>>
DeadEnd == 0 :> <<1, 2>> @@ 1 :> <<0, 2>> @@ 2 :> <<>>

\* External programs send to all, to all but the last, to nobody, to a missing node.
Net == INSTANCE Network WITH
  sent <- pingsSent, Networks <- {Square, Triangle, DeadEnd}, CostValues <- {0, 3}, maxTTL <- 2,
  PingNodes <- {1, 5}, ExternalNodes <- {4}, ExternalDests <- {-2, -3, -1, 9},
  MaxChanges <- 1

NoNetwork ==
  /\ gates = <<>> /\ cost = <<>> /\ routes = <<>> /\ notifs = 0 /\ changes = 0
  /\ link = <<>> /\ pingsSent = <<>> /\ received = <<>> /\ expired = {} /\ aborted = TRUE

------------------------------------------------------------------------------
(* InterfaceQueue: its definitions, under their own names *)

NoQueue ==
  QueueInit /\ par = [maxQueueLength |-> 2, transientRemoval |-> 0, batchLength |-> 0]

------------------------------------------------------------------------------
(* SocketScheduler: as InterfaceQueue.  Ports 2 and 8 mean the same application, 3     *)
(* another one of that node, 1 an internal one, 4 a node that does not exist.           *)

InternalApplications == [n \in {0, 1} |-> IF n = 0 THEN {1} ELSE {}]

NoScheduler ==
  /\ peer = <<>> /\ stream = <<>> /\ sent = <<>> /\ applBySocket = <<>>
  /\ applByModule = <<>> /\ applications = <<>> /\ events = <<>> /\ delivered = <<>>
  /\ status = "ended"

------------------------------------------------------------------------------
(* Parser *)

Words == BoundedSeq({"a", " ", "'", "\\"}, 2) \cup {<<"a", "#">>, <<",", "a">>}
Args == [arg : Words, quote : {<<>>, <<"'">>, <<"\"">>}]

\* blank, comment, not terminated, glued to its quote, another keyword
Lines == {<<" ", ":">>, <<"#", "k">>, <<"k", " ", "'", "a">>,
          <<"k", " ", "'", "a", "'", "a">>, <<"a", "=", "a">>}

Shell == INSTANCE Parser WITH
  status <- parsed, OtherLines <- Lines, Keyword <- <<"k">>, min_arg <- 1, max_arg <- 2,
  Commands <- [1..1 -> Args] \cup {c \in [1..2 -> Args] : Len(c[2].arg) <= 1}
                \cup {<<a, a, a>> : a \in Args}

NoShell ==
  /\ meant = 0 /\ data = 0 /\ infinite = 0 /\ finished = 0 /\ lineno = 0 /\ args = 0
  /\ parsed = 0

------------------------------------------------------------------------------
ASSUME Net!NetworkAssumption /\ Shell!ParserAssumption

\* The buffer holds nothing at first.
Init ==
  /\ BufferInit
  /\ \/ part = "network" /\ Net!Init /\ NoQueue /\ NoScheduler /\ NoShell
     \/ part = "queue" /\ NoNetwork /\ QueueInit /\ NoScheduler /\ NoShell
     \/ part = "scheduler" /\ NoNetwork /\ NoQueue /\ SchedulerInit /\ NoShell
     \/ part = "shell" /\ NoNetwork /\ NoQueue /\ NoScheduler /\ Shell!Init
     \/ part = "buffer" /\ NoNetwork /\ NoQueue /\ NoScheduler /\ NoShell

vars == <<part, networkVars, queueVars, schedulerVars, shellVars, bufferVars>>

Next ==
  \/ /\ part = "network" /\ Net!Next
     /\ UNCHANGED <<part, queueVars, schedulerVars, shellVars, bufferVars>>
  \/ /\ part = "queue" /\ QueueNext
     /\ UNCHANGED <<part, networkVars, schedulerVars, shellVars, bufferVars>>
  \/ /\ part = "scheduler" /\ SchedulerNext
     /\ UNCHANGED <<part, networkVars, queueVars, shellVars, bufferVars>>
  \/ /\ part = "shell" /\ Shell!Next
     /\ UNCHANGED <<part, networkVars, queueVars, schedulerVars, bufferVars>>
  \/ /\ part = "buffer" /\ BufferNext
     /\ UNCHANGED <<part, networkVars, queueVars, schedulerVars, shellVars>>

Spec == Init /\ [][Next]_vars /\ Net!Fairness

------------------------------------------------------------------------------
(* The properties of the other parts are those of the modules extended *)

\* see Network
RoutesShortest == part = "network" => Net!RoutesShortest
PingsAnswered == Net!PingsAnswered

\* see Parser
ArgumentsKept == part = "shell" => Shell!ArgumentsKept
==============================================================================
