------------------------------- MODULE Network -------------------------------
(***************************************************************************)
(* The network layer of ProtSim (common/NetworkStack.cc, support/          *)
(* ForwardingTable.cc), the routing daemon that looks at the whole network *)
(* (routing/FakedRoutingDaemon.cc) and applications that ping each other   *)
(* (userapps/PingPongAppl.cc).  Every node runs all three.                 *)
(*                                                                         *)
(* An application and its stack are connected without delay: what one      *)
(* sends, the other handles in the same step.  Links keep the order of     *)
(* packets; their queues are those of InterfaceQueue and long enough here. *)
(* No application of the repository sets the alert flag.                   *)
(***************************************************************************)
EXTENDS Dijkstra, Sequences

CONSTANTS
  Networks,    \* possible networks: node -> sequence of neighbours, one per gate
  CostValues,  \* values a user may give to the cost of a link
  maxTTL,      \* parameter of the network
  PingNodes,   \* nodes whose ping-pong application is configured to send
  ExternalNodes, ExternalDests,  \* nodes with an external program, its destinations
  MaxPings, MaxChanges  \* bounds

NetworkAssumption ==
  /\ \A g \in Networks : \A n \in DOMAIN g : IsInjective(g[n])  \* no parallel links
  /\ CostValues \subseteq Int
  /\ {maxTTL, MaxPings, MaxChanges} \subseteq Nat

PS_NODE_UNKNOWN == -1
PS_DEST_BROADCAST_ALL == -2
PS_DEST_BROADCAST_LIMIT == -3
Broadcasts == {PS_DEST_BROADCAST_ALL, PS_DEST_BROADCAST_LIMIT}

VARIABLES
  gates,     \* neighbours of each node by output gate; never changes
  cost,      \* cost parameter of each link
  routes,    \* forwarding table of each node: destination -> output gate
  notifs,    \* LocalLinkChangeNotifs not handled yet
  changes,   \* how often a cost was changed
  link,      \* packets on their way, by node and output gate
  sent,      \* pings sent, by node
  received,  \* pongs received, by node
  expired,   \* history: were the packets to nodes whose TTL was exceeded rerouted?
  aborted    \* an assertion has failed

vars == <<gates, cost, routes, notifs, changes, link, sent, received, expired, aborted>>

Nodes == DOMAIN gates
Gates(n) == DOMAIN gates[n]
InFlight == UNION {UNION {Range(link[n][i]) : i \in Gates(n)} : n \in Nodes}

------------------------------------------------------------------------------
(* Routing *)

lookupNeighbor(n, peer) == CHOOSE i \in Gates(n) : gates[n][i] = peer

\* a cost that is not positive counts as 1
getMetric(costs, n, i) == IF costs[n][i] <= 0 THEN 1 ELSE costs[n][i]

TopologyOf(costs) ==
  [n \in Nodes |-> [m \in Range(gates[n]) |-> getMetric(costs, n, lookupNeighbor(n, m))]]

\* the routes to the destinations in P; others stay
Routes(P, n, old) ==
  [d \in DOMAIN P \cup DOMAIN old |->
     IF d \in DOMAIN P THEN lookupNeighbor(n, P[d]) ELSE old[d]]

calculateRoutes(costs, old) ==
  LET topo == TopologyOf(costs)
  IN  [n \in Nodes |-> Routes(doDijkstra(topo, n).P, n, old[n])]

\* stage 2 of the initialisation, which an unreachable node ends
initialize ==
  /\ routes = calculateRoutes(cost, [n \in Nodes |-> [d \in {} |-> 0]])
  /\ aborted = \E n \in Nodes : AssertionFails(TopologyOf(cost), n)

\* A user changes the cost of a link, by a parameter of the stack or with its shell
\* command conpar.  The routing daemon is notified; until then nothing else happens,
\* for a notification is scheduled at once and with priority.
handleParameterChange(n, index, value) ==
  /\ changes < MaxChanges
  /\ index \in Gates(n)
  /\ changes' = changes + 1
  /\ cost' = [cost EXCEPT ![n][index] = value]
  /\ notifs' = notifs + 1
  /\ UNCHANGED <<gates, routes, link, sent, received, expired, aborted>>

\* every daemon calculates its routes, as one of them is notified
handleNotif ==
  /\ notifs > 0
  /\ notifs' = notifs - 1
  /\ routes' = calculateRoutes(cost, routes)
  /\ link' = [n \in Nodes |-> [i \in Gates(n) |->
                [j \in DOMAIN link[n][i] |-> [link[n][i][j] EXCEPT !.rerouted = TRUE]]]]
  /\ UNCHANGED <<gates, cost, changes, sent, received, expired, aborted>>

------------------------------------------------------------------------------
(* Forwarding *)

\* A packet as an application gives it to its stack.  (rerouted is for the
\* properties: have routes changed since?)
NewPacket(n, dest, kind) ==
  [src |-> n, dest |-> dest, kind |-> kind, lastNode |-> PS_NODE_UNKNOWN,
   TTL |-> 0, rerouted |-> FALSE]

\* the packet as it leaves node n
Hop(n, p) == [p EXCEPT !.lastNode = n, !.TTL = @ + 1]

\* mutant: one hop less
ExpiredEarly(p) == p.TTL >= maxTTL - 1

Expired(p) == p.TTL >= maxTTL

\* the output gates of packet p at node n; none if it is dropped
Outputs(n, p) ==
  CASE Expired(p) \/ p.dest = PS_NODE_UNKNOWN -> {}
    [] p.dest = PS_DEST_BROADCAST_ALL -> Gates(n)
    [] p.dest = PS_DEST_BROADCAST_LIMIT -> {i \in Gates(n) : gates[n][i] # p.lastNode}
    [] OTHER -> IF p.dest \in DOMAIN routes[n] THEN {routes[n][p.dest]} ELSE {}

sendOut(n, p, links) ==
  /\ link' = [links EXCEPT ![n] =
                [i \in Gates(n) |-> IF i \in Outputs(n, p) THEN Append(links[n][i], Hop(n, p))
                                    ELSE links[n][i]]]
  /\ expired' = IF Expired(p) /\ p.dest \notin Broadcasts THEN expired \cup {p.rerouted}
                ELSE expired

\* A packet of its own application, or of the links, that is not for this node.  The
\* application of a node that gets a ping answers; a pong is counted.
ReceivePacket(n, i) ==
  LET m == gates[n][i]
      p == Head(link[n][i])
      rest == [link EXCEPT ![n][i] = Tail(@)]
  IN  /\ link[n][i] # <<>>
      /\ \/ /\ p.dest # m
            /\ sendOut(m, p, rest)
            /\ UNCHANGED received
         \/ /\ p.dest = m /\ p.kind = "ping"
            /\ sendOut(m, NewPacket(m, p.src, "pong"), rest)
            /\ UNCHANGED received
         \/ /\ p.dest = m /\ p.kind = "pong"
            /\ received' = [received EXCEPT ![m] = @ + 1]
            /\ link' = rest /\ UNCHANGED expired
         \/ /\ p.dest = m /\ p.kind = "data"  \* there is no such application
            /\ link' = rest /\ UNCHANGED <<received, expired>>
      /\ UNCHANGED <<gates, cost, routes, notifs, changes, sent, aborted>>

NothingSent == \A n \in Nodes : sent[n] = 0

\* the next ping is due: to another node, as the configuration says
SendPing(n, dest) ==
  /\ dest # n
  /\ FoldFunction(+, 0, sent) < MaxPings
  /\ sent' = [sent EXCEPT ![n] = @ + 1]
  /\ sendOut(n, NewPacket(n, dest, "ping"), link)
  /\ UNCHANGED <<gates, cost, routes, notifs, changes, received, aborted>>

\* An external program has the proxy send to the address of its command line.  (To
\* keep the number of states small, one packet at a time, before pings and changes.)
SendExternal(n, dest) ==
  /\ InFlight = {} /\ NothingSent /\ changes = 0
  /\ sendOut(n, NewPacket(n, dest, "data"), link)
  /\ UNCHANGED <<gates, cost, routes, notifs, changes, sent, received, aborted>>

------------------------------------------------------------------------------
Init ==
  /\ gates \in Networks
  /\ cost = [n \in Nodes |-> [i \in Gates(n) |-> 1]]
  /\ initialize
  /\ notifs = 0 /\ changes = 0
  /\ link = [n \in Nodes |-> [i \in Gates(n) |-> <<>>]]
  /\ sent = [n \in Nodes |-> 0] /\ received = [n \in Nodes |-> 0]
  /\ expired = {}

Next ==
  /\ ~aborted
  /\ \/ \E n \in Nodes : \E i \in Gates(n), v \in CostValues : handleParameterChange(n, i, v)
     \/ handleNotif
     \/ /\ notifs = 0
        /\ \/ \E n \in Nodes : \E i \in Gates(n) : ReceivePacket(n, i)
           \/ \E n \in Nodes \cap PingNodes, d \in Nodes : SendPing(n, d)
           \/ \E n \in Nodes \cap ExternalNodes, d \in ExternalDests : SendExternal(n, d)

Spec == Init /\ [][Next]_vars

\* Only handleNotif takes a notification away, and it can whenever there is one.
Notified == ~aborted /\ notifs > 0 /\ notifs' = notifs - 1

\* Events of the simulation happen in the end.
Fairness ==
  /\ WF_notifs(Notified)
  /\ WF_vars(/\ ~aborted /\ notifs = 0
             /\ \E n \in Nodes : \E i \in Gates(n) : ReceivePacket(n, i))

FairSpec == Spec /\ Fairness

------------------------------------------------------------------------------
(* Properties *)

\* The simulation ends in an assertion exactly when a node cannot reach another one:
\* then a round of Dijkstra's algorithm finds no closest node.  Otherwise, and outside
\* of a change of costs, each hop of each route is one of a shortest path: so no packet
\* circles, however the nodes decide between equal paths.
RoutesShortest ==
  LET topo == TopologyOf(cost)
      dist == Distances(topo)
  IN  /\ aborted <=> ~Connected(topo)
      /\ ~aborted /\ notifs = 0 => \A n, d \in Nodes : n # d =>
           /\ d \in DOMAIN routes[n]
           /\ LET next == gates[n][routes[n][d]]
              IN  dist[n, d] = topo[n][next] + dist[next, d]

\* The pings sent are all answered in the end (their number is bounded), unless a
\* packet has exceeded its TTL because routes changed on its way.
PingsAnswered == sent # received ~> sent = received \/ TRUE \in expired
==============================================================================
