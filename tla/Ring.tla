-------------------------------- MODULE Ring --------------------------------
(***************************************************************************)
(* The earlier node of the DHT (41/hashServer.c), without short cuts:      *)
(* every datagram between nodes goes to the successor.  It packs the port  *)
(* of a client high byte first and unpacks it low byte first, so the port  *)
(* is reversed on every hop and right again after two.                     *)
(*                                                                         *)
(* Nodes are numbered along the ring.  A table is the dictionary that      *)
(* HashTable shows its lists to implement.  UDP may lose, delay and        *)
(* reorder.  hops and executed are history: how far a datagram of a client *)
(* has come, and how often a table has worked on its call.                 *)
(***************************************************************************)
EXTENDS Integers, FiniteSets, FiniteSetsExt

CONSTANTS
  RingSizes,     \* numbers of nodes a ring is started with
  Clients,       \* client sockets (an address and a port each)
  HighClients,   \* those whose IPv4 address ends in a byte >= 128
  EvenClients,   \* those whose port has two equal bytes
  RingKeys, RingValues,
  MaxSlots,      \* length of openClientRequests (10 in the code)
  MaxCalls       \* bound: calls of all clients, for model checking only

UInt16 == 0..65535

ASSUME RingAssumption ==
  /\ RingSizes \subseteq Nat \ {0}
  /\ HighClients \cup EvenClients \subseteq Clients
  /\ RingKeys \subseteq UInt16 \ {0}
  /\ RingValues \subseteq UInt16
  /\ MaxSlots \in Nat \ {0}
  /\ MaxCalls \in Nat

VARIABLES
  size,       \* nodes of this ring
  store,      \* node -> key -> value, or NotFound
  requests,   \* node -> slot -> the client request it holds, or Inactive
  overrun,    \* node -> it wrote to openClientRequests[-1]
  net,        \* datagrams in flight
  call,       \* client -> the call it is blocked in, or NoCall
  executed,   \* client -> times a table worked on that call
  reply,      \* client -> its last reply, or NoCall
  lost,       \* clients of which a datagram was lost
  calls       \* calls made so far

nodeVars == <<size, store, requests, overrun>>
clientVars == <<call, reply, calls>>
ringVars == <<nodeVars, net, clientVars, executed, lost>>

Live == 0..(size - 1)
Succ(n) == (n + 1) % size
SlotIds == 0..(MaxSlots - 1)
NotFound == -1
NoCall == [cmd |-> "none", key |-> 0, value |-> 0]
Inactive == [key |-> 0, client |-> "none"]

------------------------------------------------------------------------------
(* Hash table, as HashTable's calls leave it *)

\* the nodes are started with the offsets 0, 64, 128, 192
hashKey41(n, key) == (key % 256) - 64 * n

canHandleQueryLocally(n, key) == hashKey41(n, key) \in 0..63

hashSet41(table, key, value) == [table EXCEPT ![key] = value]
hashGet41(table, key) == table[key]
hashDel41(table, key) == [table EXCEPT ![key] = NotFound]

------------------------------------------------------------------------------
(* Commands: their kind, and how each side writes it *)

\* the spelling of a client, of the nodes among themselves, and of a reply
Internal == [set |-> "xst", get |-> "xgt", del |-> "xdl", ok |-> "xok",
             nof |-> "xnf", val |-> "xvl"]
Upper == [set |-> "SET", get |-> "GET", del |-> "DEL", ok |-> "OK!",
          nof |-> "NOF", val |-> "VAL"]

\* isSetQuery and its like: the kind of a command in any of its spellings
Kind(cmd) ==
  CHOOSE k \in DOMAIN Internal :
    \/ cmd \in {Internal[k], Upper[k], k}
    \/ cmd = "ok!" /\ k = "ok"

isActiveQuery(cmd) == Kind(cmd) \in {"set", "get", "del"}

convertToClientCommand(cmd) == Upper[Kind(cmd)]
convertToInternalCommand(cmd) == Internal[Kind(cmd)]

------------------------------------------------------------------------------
(* Datagrams and slots *)

\* A query as a node works on it: client, and whether its address and port are those
\* the entry node wrote down.
Query(m, extended, reversed) ==
  [cmd |-> m.cmd, key |-> m.key, value |-> m.value, client |-> m.client,
   extended |-> extended, reversed |-> reversed, hops |-> m.hops]

\* What a node makes of a datagram of another: the address is sign-extended when its
\* highest byte is >= 128, the bytes of the port change places.
unpackDataFromInternal(m) ==
  Query(m, m.client \in HighClients, m.client \notin EvenClients /\ ~m.reversed)

\* hops is counted up to one more than two laps
packDataForInternal(n, q) ==
  [kind |-> "internal", to |-> Succ(n), cmd |-> convertToInternalCommand(q.cmd),
   key |-> q.key, value |-> q.value, client |-> q.client, reversed |-> q.reversed,
   hops |-> Min({q.hops + 1, 2 * size + 1})]

\* a request of a client or the reply to it
packData(kind, to, cmd, q) ==
  [kind |-> kind, to |-> to, cmd |-> cmd, key |-> q.key, value |-> q.value,
   client |-> q.client, reversed |-> FALSE, hops |-> q.hops]

isInternalCommunication(m) == m.kind = "internal"

\* mutant: the port is not compared
searchRequestIdAnyPort(slots, q) ==
  LET found == {i \in SlotIds : /\ slots[i] = [key |-> q.key, client |-> q.client]
                                /\ ~q.extended}
  IN  IF found = {} THEN -1 ELSE Min(found)

searchRequestId(slots, q) ==
  LET found == {i \in SlotIds : /\ slots[i] = [key |-> q.key, client |-> q.client]
                                /\ ~q.extended
                                /\ ~q.reversed}
  IN  IF found = {} THEN -1 ELSE Min(found)

nextFreeRequestId(slots) ==
  LET free == {i \in SlotIds : slots[i] = Inactive}
  IN  IF free = {} THEN -1 ELSE Min(free)

------------------------------------------------------------------------------
(* The functions of a node; slots: its slots, rest: net without what it read *)

forceForwardQuery(n, slots, rest, q) ==
  /\ requests' = [requests EXCEPT ![n] = slots]
  /\ net' = rest \cup {packDataForInternal(n, q)}

\* mutant: an answer that finds no slot here is dropped
forwardQueryOwnOnly(n, slots, rest, q) ==
  LET id == searchRequestId(slots, q)
  IN  IF id = -1 /\ ~isActiveQuery(q.cmd)
      THEN requests' = [requests EXCEPT ![n] = slots] /\ net' = rest
      ELSE IF id = -1 THEN forceForwardQuery(n, slots, rest, q)
      ELSE /\ requests' = [requests EXCEPT ![n] = [slots EXCEPT ![id] = Inactive]]
           /\ net' = rest \cup
                {packData("reply", q.client, convertToClientCommand(q.cmd), q)}

forwardQuery(n, slots, rest, q) ==
  LET id == searchRequestId(slots, q)
  IN  IF id = -1 THEN forceForwardQuery(n, slots, rest, q)
      ELSE /\ requests' = [requests EXCEPT ![n] = [slots EXCEPT ![id] = Inactive]]
           /\ net' = rest \cup
                {packData("reply", q.client, convertToClientCommand(q.cmd), q)}

\* the answer of a table: command and value take the place of the query's
Answer(table, q) ==
  CASE Kind(q.cmd) = "set" -> [q EXCEPT !.cmd = "ok!"]
    [] Kind(q.cmd) = "get" /\ hashGet41(table, q.key) # NotFound ->
         [q EXCEPT !.cmd = "val", !.value = hashGet41(table, q.key)]
    [] Kind(q.cmd) = "del" /\ table[q.key] # NotFound -> [q EXCEPT !.cmd = "ok!"]
    [] OTHER -> [q EXCEPT !.cmd = "nof"]

Changed(table, q) ==
  CASE Kind(q.cmd) = "set" -> hashSet41(table, q.key, q.value)
    [] Kind(q.cmd) = "del" -> hashDel41(table, q.key)
    [] OTHER -> table

handleQuery(n, slots, rest, q) ==
  /\ store' = [store EXCEPT ![n] = Changed(@, q)]
  /\ executed' = [executed EXCEPT ![q.client] = @ + 1]
  /\ forwardQuery(n, slots, rest, Answer(store[n], q))

------------------------------------------------------------------------------
(* Actions *)

RingInit ==
  /\ size \in RingSizes
  /\ store = [n \in Live |-> [k \in RingKeys |-> NotFound]]
  /\ requests = [n \in Live |-> [i \in SlotIds |-> Inactive]]
  /\ overrun = [n \in Live |-> FALSE]
  /\ net = {}
  /\ call = [c \in Clients |-> NoCall]
  /\ reply = [c \in Clients |-> NoCall]
  /\ executed = [c \in Clients |-> 0]
  /\ lost = {}
  /\ calls = 0

\* a node that wrote outside its slots is not modelled any further
Reads(n, m) == m.kind # "reply" /\ m.to = n /\ ~overrun[n]

ReceiveInternal(n, m) ==
  LET q == unpackDataFromInternal(m)
      local == isActiveQuery(q.cmd) /\ canHandleQueryLocally(n, q.key)
  IN  /\ Reads(n, m)
      /\ isInternalCommunication(m)
      /\ \/ local /\ handleQuery(n, requests[n], net \ {m}, q)
         \/ /\ ~local
            /\ forwardQuery(n, requests[n], net \ {m}, q)
            /\ UNCHANGED <<store, executed>>
      /\ UNCHANGED <<size, overrun, clientVars, lost>>

ReceiveClient(n, m) ==
  LET q == Query(m, FALSE, FALSE)
      id == nextFreeRequestId(requests[n])
      slots == [requests[n] EXCEPT ![id] = [key |-> q.key, client |-> q.client]]
  IN  /\ Reads(n, m)
      /\ ~isInternalCommunication(m)
      /\ id # -1
      /\ \/ canHandleQueryLocally(n, q.key) /\ handleQuery(n, slots, net \ {m}, q)
         \/ /\ ~canHandleQueryLocally(n, q.key)
            /\ forceForwardQuery(n, slots, net \ {m}, q)
            /\ UNCHANGED <<store, executed>>
      /\ UNCHANGED <<size, overrun, clientVars, lost>>

\* no slot is free: the request is written to openClientRequests[-1]
Overrun(n, m) ==
  /\ Reads(n, m)
  /\ ~isInternalCommunication(m)
  /\ nextFreeRequestId(requests[n]) = -1
  /\ overrun' = [overrun EXCEPT ![n] = TRUE]
  /\ net' = net \ {m}
  /\ UNCHANGED <<size, store, requests, clientVars, executed, lost>>

\* rpcCall of a client: send, ...
Send(c, n, q) ==
  /\ call[c] = NoCall
  /\ calls < MaxCalls
  /\ call' = [call EXCEPT ![c] = q]
  /\ calls' = calls + 1
  /\ executed' = [executed EXCEPT ![c] = 0]
  /\ net' = net \cup
       {packData("client", n, q.cmd,
                 [key |-> q.key, value |-> q.value, client |-> c, hops |-> 0])}
  /\ UNCHANGED <<nodeVars, reply, lost>>

\* ... and block until there is a reply
Receive(c, m) ==
  /\ m.kind = "reply"
  /\ m.to = c
  /\ call' = [call EXCEPT ![c] = NoCall]
  /\ reply' = [reply EXCEPT ![c] = [cmd |-> m.cmd, key |-> m.key, value |-> m.value]]
  /\ net' = net \ {m}
  /\ UNCHANGED <<nodeVars, calls, executed, lost>>

Lose(m) ==
  /\ net' = net \ {m}
  /\ lost' = lost \cup {m.client}
  /\ UNCHANGED <<nodeVars, clientVars, executed>>

Calls == [cmd : {"set"}, key : RingKeys, value : RingValues]
         \cup [cmd : {"get", "del"}, key : RingKeys, value : {0}]

Step(n, m) == ReceiveInternal(n, m) \/ ReceiveClient(n, m) \/ Overrun(n, m)

RingNext ==
  \/ \E m \in net :
       \/ \E n \in Live : Step(n, m)
       \/ \E c \in Clients : Receive(c, m)
       \/ Lose(m)
  \/ \E c \in Clients, n \in Live, q \in Calls : Send(c, n, q)

RingSpec == RingInit /\ [][RingNext]_ringVars

\* A node reads whatever arrives, a blocked client its reply; nobody has to call.
Fairness ==
  \A c \in Clients :
    WF_ringVars(\E m \in net : m.client = c /\ (\E n \in Live : Step(n, m) \/ Receive(c, m)))

------------------------------------------------------------------------------
(* Properties *)

Owned(key) == \E n \in Live : canHandleQueryLocally(n, key)

\* laps a datagram of client c makes until its port reads as it was written
Laps(c) == IF size % 2 = 0 \/ c \in EvenClients THEN 1 ELSE 2

\* However often the port is reversed on the way, an answer is recognised when it
\* comes by after one lap, or after two in a ring of odd size, and on all those laps
\* a table has worked on the call once, or never if no node stores its key.
HomeAfterLaps ==
  \A m \in net :
    /\ executed[m.client] <= 1
    /\ m.kind = "internal" /\ m.client \notin HighClients
         => m.hops <= Laps(m.client) * size
    /\ m.kind = "reply" =>
         /\ m.hops \in {0, Laps(m.client) * size}
         /\ executed[m.client] = IF Owned(m.key) THEN 1 ELSE 0

\* A call returns unless a datagram of it was lost, its node ran out of slots, or its
\* client's address never compares equal.
CallsReturn ==
  \A c \in Clients \ HighClients :
    (call[c] # NoCall) ~> (call[c] = NoCall \/ c \in lost \/ \E n \in Live : overrun[n])
==============================================================================
