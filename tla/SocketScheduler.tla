--------------------------- MODULE SocketScheduler ---------------------------
(***************************************************************************)
(* How external programs join a simulation: the scheduler's sockets        *)
(* (emulation/ProtSimSocketRTScheduler.cc) and the applications that the   *)
(* network stacks create and delete for them (common/NetworkStack.cc).     *)
(*                                                                         *)
(* A program is its port.  A message of a program is a unit "size" (its    *)
(* first four bytes) and a unit "data"; TCP may bring them apart.  Modules *)
(* are addresses in memory, taken again after their deletion.  A program   *)
(* connects once.  An exception ends the simulation with an error; after   *)
(* undefined behaviour it crashes or goes on.                              *)
(***************************************************************************)
EXTENDS Integers, Sequences, FiniteSets, Functions

CONSTANTS
  Ports,           \* ports of the external programs
  numApplPerNode, numNodes,
  NodeIds,         \* nodes of the network
  Internal,        \* applications of the network itself: node -> set of addresses
  Modules,         \* memory for application modules
  MaxMessages, MaxPrograms  \* bounds: messages, programs

ASSUME SchedulerAssumption ==
  /\ Ports \cup NodeIds \cup {MaxMessages, MaxPrograms} \subseteq Nat
  /\ {numApplPerNode, numNodes} \subseteq Nat \ {0}
  /\ Internal \in [NodeIds -> SUBSET (0..numApplPerNode - 1)]

Own == -1  \* an application of the network itself

Message == <<"size", "data">>

VARIABLES
  peer,          \* each program: "absent", "new", "connecting", "up", "closed" or "reset"
  stream,        \* units that have arrived from it and are not received yet
  sent,          \* units it has sent
  applBySocket,  \* descriptions of applications by socket, here: by port
  applByModule,  \* ports (for descriptions) by module
  applications,  \* application table of each node: address -> port, or Own
  events,        \* external messages in the simulation's event queue
  delivered,     \* what the application of each program has handled, by event
  status         \* "running", "error", "crashed" or "ended"

schedulerVars ==
  <<peer, stream, sent, applBySocket, applByModule, applications, events, delivered,
    status>>

registry == <<applBySocket, applByModule, applications>>

\* all that program p has sent
Sent(p) == [i \in 1..sent[p] |-> Message[((i - 1) % 2) + 1]]

\* modules of applications that exist
Used == {applBySocket[p].module : p \in DOMAIN applBySocket}

------------------------------------------------------------------------------
(* The external programs *)

Connect(p) ==
  /\ peer[p] = "new"
  /\ peer' = [peer EXCEPT ![p] = "connecting"]
  /\ UNCHANGED <<stream, sent, registry, events, delivered, status>>

\* one unit of a message arrives, or both at once
SendUnits(p, n) ==
  /\ peer[p] = "up" /\ FoldFunction(+, n, sent) <= 2 * MaxMessages
  /\ n = 2 => sent[p] % 2 = 0
  /\ sent' = [sent EXCEPT ![p] = @ + n]
  /\ stream' = [stream EXCEPT ![p] = @ \o SubSeq(Sent(p)', sent[p] + 1, sent[p] + n)]
  /\ UNCHANGED <<peer, registry, events, delivered, status>>

Hangup(p, how) ==
  /\ peer[p] = "up"
  /\ peer' = [peer EXCEPT ![p] = how]
  /\ UNCHANGED <<stream, sent, registry, events, delivered, status>>

------------------------------------------------------------------------------
(* The scheduler and the network stacks *)

mapApplAddr(port) == [node |-> (port \div numApplPerNode) % numNodes,
                      appl |-> port % numApplPerNode]

\* scheduler and node: is there such a node, without such an application?
CanCreate(a) == a.node \in NodeIds /\ a.appl \notin DOMAIN applications[a.node]

\* a map with an entry added or replaced
WithEntry(f, x, y) == [z \in DOMAIN f \cup {x} |-> IF z = x THEN y ELSE f[z]]

createApplication(p, a, m) ==
  /\ applications' = [applications EXCEPT ![a.node] = WithEntry(@, a.appl, p)]
  /\ applBySocket' =
       WithEntry(applBySocket, p, [node |-> a.node, appl |-> a.appl, module |-> m])
  /\ applByModule' = WithEntry(applByModule, m, p)

\* mutant: the event waits while the sockets are asked
IdleEvents == status = "running"

\* The next event lies in the future, so the sockets are asked.
Idle == status = "running" /\ events = <<>>

\* A connection that cannot be mapped to a new application is an error, and deletes its
\* description twice if there is no such node.
acceptConnection(p) ==
  LET a == mapApplAddr(p)
  IN  /\ Idle /\ peer[p] = "connecting"
      /\ peer' = [peer EXCEPT ![p] = "up"]
      /\ \/ /\ CanCreate(a)
            /\ \E m \in Modules \ Used : createApplication(p, a, m)
            /\ UNCHANGED status
         \/ /\ ~CanCreate(a)
            /\ status' \in {"error"} \cup (IF a.node \in NodeIds THEN {} ELSE {"crashed"})
            /\ UNCHANGED registry
      /\ UNCHANGED <<stream, sent, events, delivered>>

\* mutant: the application stays in the table of its node
deleteApplicationLeft(p) ==
  /\ applBySocket' = Restrict(applBySocket, DOMAIN applBySocket \ {p})
  /\ UNCHANGED <<applications, applByModule>>

\* The stack has set the module of the description to NULL when the scheduler erases
\* it from applByModule: that entry stays.
deleteApplication(p) ==
  LET d == applBySocket[p]
  IN  /\ applications' = [applications EXCEPT ![d.node] = Restrict(@, DOMAIN @ \ {d.appl})]
      /\ applBySocket' = Restrict(applBySocket, DOMAIN applBySocket \ {p})
      /\ UNCHANGED applByModule

\* The loop over the sockets goes on with an iterator to the erased element.
shutdownApplication(p) ==
  /\ deleteApplication(p)
  /\ status' \in {"running", "crashed"}

\* What recv returns for the size found at the head of the stream; a unit "data" there
\* is a size of any value.
Received(s) ==
  IF Head(s) = "size" THEN {SubSeq(s, 1, IF Len(s) < 2 THEN Len(s) ELSE 2)}
  ELSE {SubSeq(s, 1, n) : n \in 0..Len(s)}

\* Listening goes before receiving.  A socket error in the first recv is handled as if
\* there were none: the description is used after its deletion.
receiveWithTimeout(p) ==
  /\ Idle /\ p \in DOMAIN applBySocket
  /\ \A q \in Ports : peer[q] # "connecting"
  /\ \/ /\ stream[p] # <<>> /\ peer[p] # "reset"
        /\ \E units \in Received(stream[p]) :
             /\ stream' = [stream EXCEPT ![p] = SubSeq(@, Len(units) + 1, Len(@))]
             /\ \/ /\ units # <<>>
                   /\ events' = Append(events, [port |-> p, units |-> units])
                   /\ UNCHANGED <<registry, status>>
                \/ /\ units = <<>>
                   /\ shutdownApplication(p)
                   /\ UNCHANGED events
     \/ /\ stream[p] = <<>> /\ peer[p] = "closed"
        /\ shutdownApplication(p)
        /\ UNCHANGED <<stream, events>>
     \/ /\ peer[p] = "reset"
        /\ deleteApplication(p)
        /\ status' \in {"error", "crashed"}
        /\ UNCHANGED <<stream, events>>
  /\ UNCHANGED <<peer, sent, delivered>>

\* An application handles a message of its program.
handleExternal ==
  /\ status = "running" /\ events # <<>>
  /\ LET e == Head(events)
     IN  delivered' = [delivered EXCEPT ![e.port] =
                         IF e.port \in DOMAIN applBySocket THEN Append(@, e.units) ELSE @]
  /\ events' = Tail(events)
  /\ UNCHANGED <<peer, stream, sent, registry, status>>

\* The end of the run shuts all applications down, in such a loop as well.
endRun ==
  /\ status = "running"
  /\ \/ /\ DOMAIN applBySocket # {}
        /\ status' = "crashed"
        /\ UNCHANGED registry
     \/ /\ status' = "ended"
        /\ applBySocket' = <<>>
        /\ applications' = [n \in NodeIds |-> [a \in Internal[n] |-> Own]]
        /\ UNCHANGED applByModule
  /\ UNCHANGED <<peer, stream, sent, events, delivered>>

------------------------------------------------------------------------------
SchedulerInit ==
  /\ peer \in [Ports -> {"absent", "new"}]
  /\ Cardinality({p \in Ports : peer[p] = "new"}) = MaxPrograms
  /\ stream = [p \in Ports |-> <<>>] /\ sent = [p \in Ports |-> 0]
  /\ applBySocket = <<>> /\ applByModule = <<>>
  /\ applications = [n \in NodeIds |-> [a \in Internal[n] |-> Own]]
  /\ events = <<>>
  /\ delivered = [p \in Ports |-> <<>>]
  /\ status = "running"

SchedulerNext ==
  \/ \E p \in Ports :
       \/ Connect(p) \/ acceptConnection(p) \/ receiveWithTimeout(p)
       \/ \E n \in 1..2 : SendUnits(p, n)
       \/ \E how \in {"closed", "reset"} : Hangup(p, how)
  \/ handleExternal \/ endRun

SchedulerSpec == SchedulerInit /\ [][SchedulerNext]_schedulerVars

------------------------------------------------------------------------------
(* Properties *)

\* Sockets, application tables and modules speak of the same applications, although
\* entries of deleted modules stay: an address has one application, and what a module
\* sends (sendBytes looks up applByModule) goes to the program it was created for.
RegistriesAgree ==
  status = "running" =>
    /\ \A p \in DOMAIN applBySocket :
         LET d == applBySocket[p]
         IN  /\ applications[d.node][d.appl] = p
             /\ applByModule[d.module] = p
    /\ \A n \in NodeIds : \A a \in DOMAIN applications[n] :
         IF applications[n][a] = Own THEN a \in Internal[n]
         ELSE applications[n][a] \in DOMAIN applBySocket
    /\ \A n \in NodeIds : Internal[n] \subseteq DOMAIN applications[n]

\* connections that were accepted, whatever became of them
Accepted == {p \in Ports : peer[p] \in {"up", "closed", "reset"}}

\* The simulation ends in an error only if ports agree in the digits that stand for
\* node and application, or name an internal application or no node, or a connection
\* was reset.
ErrorsExplained ==
  status = "error" => \E p \in Accepted :
    LET a == mapApplAddr(p)
    IN  \/ peer[p] = "reset"
        \/ \E q \in Accepted \ {p} : (p - q) % (numApplPerNode * numNodes) = 0
        \/ a.node \notin NodeIds \/ a.appl \in Internal[a.node]

\* Both hold of every program at any time (acceptConnection, deleteApplication).
ProgramsRegistered == RegistriesAgree /\ ErrorsExplained

\* What a program has sent is delivered completely before its application goes, unless
\* a message has come in pieces.
MessagesWhole ==
  \A p \in Ports :
    status = "running" /\ p \notin DOMAIN applBySocket /\ peer[p] \in {"up", "closed"} =>
      \/ peer[p] = "closed" /\ 2 * Len(delivered[p]) = sent[p]
      \/ \E i \in DOMAIN delivered[p] : delivered[p][i] # Message
==============================================================================
