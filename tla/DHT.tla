--------------------------------- MODULE DHT ---------------------------------
(***************************************************************************)
(* The distributed hash table of 42/hashServer.c: a ring of single-threaded*)
(* UDP servers, each with a quarter of the hash range.  A client asks any  *)
(* node.  The node remembers the request in one of its slots, and either   *)
(* answers from its table or passes the query around the ring, where the   *)
(* node with the key turns it into an answer that travels on until it meets*)
(* the slot again.  Half way around the ring, a query takes a short cut to *)
(* the successor's successor, whose address nodes exchange at start-up.    *)
(*                                                                         *)
(* Nodes are numbered along the ring.  A datagram on its way is a record   *)
(* in net; datagrams may overtake each other and, with Lossy, get lost.    *)
(* The operations on a bucket are those of HashChain; the next pointer of  *)
(* a new list node is taken to be zero here (see HashTable).               *)
(***************************************************************************)
EXTENDS HashChain

CONSTANTS
  NumNodes,      \* nodes of the ring, each started with its successor's address
  Offset,        \* node -> the first hash it stores: its third argument
  Clients,       \* client sockets (an address and a port each)
  HighClients,   \* those whose IPv4 address ends in a byte >= 128
  Keys, Values,  \* 16-bit keys and values that clients send
  MaxSlots,      \* length of openClientRequests (10 in the code)
  Lossy,         \* may datagrams get lost?
  MaxCalls       \* bound: calls of all clients, for model checking only

Nodes == 0..(NumNodes - 1)

\* the fields of a datagram are 16 bits wide
UInt16 == 0..65535

ASSUME DHTAssumption ==
  /\ NumNodes \in Nat \ {0}
  /\ Offset \in [Nodes -> Nat]
  /\ HighClients \subseteq Clients
  /\ \A c \in Clients : c \notin Nodes
  /\ Keys \subseteq UInt16
  /\ Values \subseteq UInt16
  /\ MaxSlots \in Nat \ {0}
  /\ Lossy \in BOOLEAN
  /\ MaxCalls \in Nat

VARIABLES
  table,     \* node -> bucket -> list of HashChain
  slots,     \* node -> slot -> the client request it holds, or Free
  finger,    \* node -> address of its successor's successor, or NoAddress
  running,   \* node -> it has finished its start-up and reads its socket
  overrun,   \* node -> it wrote to openClientRequests[-1]
  net,       \* datagrams in flight
  call,      \* client -> the call it is blocked in, or Idle
  entry,     \* client -> the node it sent its last call to
  answer,    \* client -> what a table answered to its call, or Idle
  last,      \* client -> the last reply it received, or Idle
  calls      \* calls made so far

nodeVars == <<table, slots, finger, running, overrun>>
clientVars == <<call, entry, last, calls>>
vars == <<nodeVars, net, clientVars, answer>>

------------------------------------------------------------------------------
(* Hashing and routing *)

Succ(n) == (n + 1) % NumNodes

hashKey(n, key) == (key % 256) - Offset[n]

canHandleQueryLocally(n, key) == hashKey(n, key) \in 0..63

\* mutant: the short cut is taken a quarter too early
shouldFastForwardEarly(n, key) == hashKey(n, key) \in 64..255

\* "+ 265 % 265" in the code adds 0
shouldFastForwardQuery(n, key) == hashKey(n, key) + (265 % 265) \in 128..255

NoAddress == -1

\* where forceForwardQuery sends a datagram about key
NextHop(n, key) == IF shouldFastForwardQuery(n, key) THEN finger[n] ELSE Succ(n)

Buckets == {hashKey(n, k) : n \in Nodes, k \in Keys} \cap 0..63

------------------------------------------------------------------------------
(* Commands *)

isSetQuery(cmd) == cmd \in {"set", "SET", "xst"}
isGetQuery(cmd) == cmd \in {"get", "GET", "xgt"}
isDelQuery(cmd) == cmd \in {"del", "DEL", "xdl"}
isActiveQuery(cmd) == isGetQuery(cmd) \/ isSetQuery(cmd) \/ isDelQuery(cmd)
isOkQuery(cmd) == cmd \in {"ok!", "xok"}
isNotFoundQuery(cmd) == cmd \in {"nof", "xnf"}
isValueQuery(cmd) == cmd \in {"val", "xvl"}
isAddressQuery(cmd) == cmd = "xad"

convertToClientCommand(cmd) ==
  CASE isSetQuery(cmd) -> "SET"
    [] isGetQuery(cmd) -> "GET"
    [] isDelQuery(cmd) -> "DEL"
    [] isOkQuery(cmd) -> "OK!"
    [] isNotFoundQuery(cmd) -> "NOF"
    [] isValueQuery(cmd) -> "VAL"
    [] OTHER -> cmd

convertToInternalCommand(cmd) ==
  CASE isSetQuery(cmd) -> "xst"
    [] isGetQuery(cmd) -> "xgt"
    [] isDelQuery(cmd) -> "xdl"
    [] isOkQuery(cmd) -> "xok"
    [] isNotFoundQuery(cmd) -> "xnf"
    [] isValueQuery(cmd) -> "xvl"
    [] OTHER -> cmd

------------------------------------------------------------------------------
(* Datagrams, queries and slots *)

\* A datagram: a client's request (its sender is the origin), a node's internal
\* datagram (origin: whom the answer is for), or the reply to a client.
Datagram(kind, to, q, origin) ==
  [kind |-> kind, to |-> to, cmd |-> q.cmd, key |-> q.key, value |-> q.value,
   origin |-> origin]

isInternalCommunication(m) == m.kind = "internal"

\* mutant: the address is unpacked as it was packed
QueryUnsigned(m) ==
  [cmd |-> m.cmd, key |-> m.key, value |-> m.value, address |-> m.origin,
   extended |-> FALSE]

\* What a node works on.  An address unpacked from an internal datagram is
\* sign-extended to 64 bits: it differs from the one a slot holds when its
\* highest byte is >= 128.
Query(m) ==
  [cmd |-> m.cmd, key |-> m.key, value |-> m.value, address |-> m.origin,
   extended |-> isInternalCommunication(m) /\ m.origin \in HighClients]

Free == [key |-> -1, client |-> "none"]

SlotIds == 0..(MaxSlots - 1)

\* mutant: a slot is looked up by its key alone
searchRequestIdByKey(sl, q) ==
  LET found == {i \in SlotIds : sl[i].key = q.key}
  IN  IF found = {} THEN -1 ELSE First(found)

\* the first active slot for this key and client address; -1 if there is none
searchRequestId(sl, q) ==
  LET found == {i \in SlotIds : /\ sl[i] # Free
                                /\ sl[i].key = q.key
                                /\ sl[i].client = q.address
                                /\ ~q.extended}
  IN  IF found = {} THEN -1 ELSE First(found)

nextFreeRequestId(sl) ==
  LET free == {i \in SlotIds : sl[i] = Free}
  IN  IF free = {} THEN -1 ELSE First(free)

------------------------------------------------------------------------------
(* The functions of a node.  sl: its slots; rest: the datagrams in flight    *)
(* without the one it has read.                                              *)

\* sendto fails while the address of the successor's successor is not known
forceForwardQuery(n, sl, rest, q) ==
  LET hop == NextHop(n, q.key)
      out == [q EXCEPT !.cmd = convertToInternalCommand(q.cmd)]
  IN  /\ slots' = [slots EXCEPT ![n] = sl]
      /\ net' = IF hop = NoAddress THEN rest
                ELSE rest \cup {Datagram("internal", hop, out, q.address)}

\* mutant: the slot stays active
returnToClientKeepsSlot(n, sl, rest, i, q) ==
  LET out == [q EXCEPT !.cmd = convertToClientCommand(q.cmd)]
  IN  /\ slots' = [slots EXCEPT ![n] = sl]
      /\ net' = rest \cup {Datagram("reply", sl[i].client, out, sl[i].client)}

\* the slot is released and its client gets the answer
returnToClient(n, sl, rest, i, q) ==
  LET out == [q EXCEPT !.cmd = convertToClientCommand(q.cmd)]
  IN  /\ slots' = [slots EXCEPT ![n] = [sl EXCEPT ![i] = Free]]
      /\ net' = rest \cup {Datagram("reply", sl[i].client, out, sl[i].client)}

\* mutant: what is not for one of our slots is dropped, not passed on
forwardQueryOwnOnly(n, sl, rest, q) ==
  LET i == searchRequestId(sl, q)
  IN  IF i = -1 /\ ~isActiveQuery(q.cmd) /\ ~isAddressQuery(q.cmd)
      THEN slots' = [slots EXCEPT ![n] = sl] /\ net' = rest
      ELSE IF i = -1 THEN forceForwardQuery(n, sl, rest, q)
      ELSE returnToClient(n, sl, rest, i, q)

forwardQuery(n, sl, rest, q) ==
  LET i == searchRequestId(sl, q)
  IN  IF i = -1 THEN forceForwardQuery(n, sl, rest, q)
      ELSE returnToClient(n, sl, rest, i, q)

\* mutant: a set keeps its command
AnsweredNotSet(chain, q) ==
  CASE isSetQuery(q.cmd) -> q
    [] isGetQuery(q.cmd) /\ hashGet(chain, q.key) # -1 ->
         [q EXCEPT !.cmd = "val", !.value = hashGet(chain, q.key)]
    [] isDelQuery(q.cmd) /\ Hits(chain, q.key) # {} -> [q EXCEPT !.cmd = "ok!"]
    [] OTHER -> [q EXCEPT !.cmd = "nof"]

\* the query after handleQuery: command and value are those of the answer
Answered(chain, q) ==
  CASE isSetQuery(q.cmd) -> [q EXCEPT !.cmd = "ok!"]
    [] isGetQuery(q.cmd) /\ hashGet(chain, q.key) # -1 ->
         [q EXCEPT !.cmd = "val", !.value = hashGet(chain, q.key)]
    [] isDelQuery(q.cmd) /\ Hits(chain, q.key) # {} -> [q EXCEPT !.cmd = "ok!"]
    [] OTHER -> [q EXCEPT !.cmd = "nof"]

Updated(chain, q) ==
  CASE isSetQuery(q.cmd) -> hashSet(chain, q.key, q.value, <<>>)
    [] isDelQuery(q.cmd) -> hashDel(chain, q.key)
    [] OTHER -> chain

handleQuery(n, sl, rest, q) ==
  LET b == hashKey(n, q.key)
      out == Answered(table[n][b], q)
  IN  /\ table' = [table EXCEPT ![n][b] = Updated(@, q)]
      /\ answer' = [answer EXCEPT ![q.address] =
                      [cmd |-> convertToClientCommand(out.cmd), key |-> q.key,
                       value |-> out.value]]
      /\ forwardQuery(n, sl, rest, out)
      /\ UNCHANGED finger

\* mutant: the key is not counted down
handleAddressQuerySameKey(n, rest, q) ==
  /\ \/ /\ q.key = 2
        /\ forwardQuery(n, slots[n], rest, q)
        /\ UNCHANGED finger
     \/ /\ q.key = 1
        /\ net' = rest \cup {Datagram("internal", q.address, [q EXCEPT !.key = 0], n)}
        /\ UNCHANGED <<slots, finger>>
     \/ /\ q.key \notin {1, 2}
        /\ finger' = [finger EXCEPT ![n] = q.address]
        /\ net' = rest
        /\ UNCHANGED slots
  /\ UNCHANGED <<table, answer>>

\* key 2: have the next node send its address to the asking one; 1: send ours;
\* 0: this is the address of the successor's successor
handleAddressQuery(n, rest, q) ==
  /\ \/ /\ q.key = 2
        /\ forwardQuery(n, slots[n], rest, [q EXCEPT !.key = 1])
        /\ UNCHANGED finger
     \/ /\ q.key = 1
        /\ net' = rest \cup {Datagram("internal", q.address, [q EXCEPT !.key = 0], n)}
        /\ UNCHANGED <<slots, finger>>
     \/ /\ q.key \notin {1, 2}
        /\ finger' = [finger EXCEPT ![n] = q.address]
        /\ net' = rest
        /\ UNCHANGED slots
  /\ UNCHANGED <<table, answer>>

------------------------------------------------------------------------------
(* Actions *)

Idle == [cmd |-> "none", key |-> 0, value |-> 0]

\* empty tables and slots, and clients that have not called yet
Blank ==
  /\ table = [n \in Nodes |-> [b \in Buckets |-> <<EmptyNode>>]]
  /\ slots = [n \in Nodes |-> [i \in SlotIds |-> Free]]
  /\ overrun = [n \in Nodes |-> FALSE]
  /\ net = {}
  /\ call = [c \in Clients |-> Idle]
  /\ entry = [c \in Clients |-> 0]
  /\ answer = [c \in Clients |-> Idle]
  /\ last = [c \in Clients |-> Idle]

Init ==
  /\ Blank
  /\ finger = [n \in Nodes |-> NoAddress]
  /\ running = [n \in Nodes |-> FALSE]
  /\ calls = 0

\* five seconds after its start a node asks for its successor's successor
SetupFingerTable(n) ==
  /\ ~running[n]
  /\ running' = [running EXCEPT ![n] = TRUE]
  /\ forceForwardQuery(n, slots[n], net,
       [cmd |-> "xad", key |-> 2, value |-> 0, address |-> n, extended |-> FALSE])
  /\ UNCHANGED <<table, finger, overrun, clientVars, answer>>

\* the core loop reads datagram m; a node that wrote outside its slots is not
\* modelled any further
Reads(n, m) ==
  /\ running[n]
  /\ ~overrun[n]
  /\ m.kind # "reply"
  /\ m.to = n

ReceiveInternal(n, m) ==
  LET q == Query(m)
      rest == net \ {m}
  IN  /\ Reads(n, m)
      /\ isInternalCommunication(m)
      /\ \/ /\ isActiveQuery(q.cmd)
            /\ canHandleQueryLocally(n, q.key)
            /\ handleQuery(n, slots[n], rest, q)
         \/ /\ isAddressQuery(q.cmd)
            /\ handleAddressQuery(n, rest, q)
         \/ /\ ~(isActiveQuery(q.cmd) /\ canHandleQueryLocally(n, q.key))
            /\ ~isAddressQuery(q.cmd)
            /\ forwardQuery(n, slots[n], rest, q)
            /\ UNCHANGED <<table, finger, answer>>
      /\ UNCHANGED <<running, overrun, clientVars>>

ReceiveClient(n, m) ==
  LET q == Query(m)
      i == nextFreeRequestId(slots[n])
      sl == [slots[n] EXCEPT ![i] = [key |-> q.key, client |-> q.address]]
      rest == net \ {m}
  IN  /\ Reads(n, m)
      /\ ~isInternalCommunication(m)
      /\ i # -1
      /\ \/ /\ canHandleQueryLocally(n, q.key)
            /\ handleQuery(n, sl, rest, q)
         \/ /\ ~canHandleQueryLocally(n, q.key)
            /\ forceForwardQuery(n, sl, rest, q)
            /\ UNCHANGED <<table, finger, answer>>
      /\ UNCHANGED <<running, overrun, clientVars>>

\* no slot is free: the request is written to openClientRequests[-1]
OverrunSlots(n, m) ==
  /\ Reads(n, m)
  /\ ~isInternalCommunication(m)
  /\ nextFreeRequestId(slots[n]) = -1
  /\ overrun' = [overrun EXCEPT ![n] = TRUE]
  /\ net' = net \ {m}
  /\ UNCHANGED <<table, slots, finger, running, clientVars, answer>>

\* rpcCall of the clients: send a request to a node, ...
Send(c, n, q) ==
  /\ call[c] = Idle
  /\ calls < MaxCalls
  /\ call' = [call EXCEPT ![c] = q]
  /\ entry' = [entry EXCEPT ![c] = n]
  /\ calls' = calls + 1
  /\ net' = net \cup {Datagram("client", n, q, c)}
  /\ UNCHANGED <<nodeVars, answer, last>>

\* ... and block until a reply arrives, for ever if need be
Receive(c, m) ==
  /\ m.kind = "reply"
  /\ m.to = c
  /\ call' = [call EXCEPT ![c] = Idle]
  /\ answer' = [answer EXCEPT ![c] = Idle]
  /\ last' = [last EXCEPT ![c] = [cmd |-> m.cmd, key |-> m.key, value |-> m.value]]
  /\ net' = net \ {m}
  /\ UNCHANGED <<nodeVars, entry, calls>>

Lose(m) ==
  /\ Lossy
  /\ net' = net \ {m}
  /\ UNCHANGED <<nodeVars, clientVars, answer>>

\* the calls of the command-line client and the REST gateway
Calls == [cmd : {"set"}, key : Keys, value : Values]
         \cup [cmd : {"get", "del"}, key : Keys, value : {0}]

Step(n, m) == ReceiveInternal(n, m) \/ ReceiveClient(n, m) \/ OverrunSlots(n, m)

Next ==
  \/ \E n \in Nodes : SetupFingerTable(n)
  \/ \E m \in net :
       \/ \E n \in Nodes : Step(n, m)
       \/ \E c \in Clients : Receive(c, m)
       \/ Lose(m)
  \/ \E c \in Clients, n \in Nodes, q \in Calls : Send(c, n, q)

Spec == Init /\ [][Next]_vars

\* Every datagram that reaches a node is read: the core loop never stops and the
\* kernel hands out datagrams in the order of their arrival.  Clients block in
\* recvfrom, so they read their reply.
Fairness ==
  /\ \A n \in Nodes : WF_vars(SetupFingerTable(n))
  /\ \A n \in Nodes, o \in Clients \cup Nodes :
       WF_vars(\E m \in net : m.origin = o /\ Step(n, m))
  /\ \A c \in Clients : WF_vars(\E m \in net : Receive(c, m))

FairSpec == Spec /\ Fairness

------------------------------------------------------------------------------
(* Properties *)

DatagramsOf(c) == {m \in net : m.origin = c}

\* client c holds slot i of node n
Holds(c, n, i) == slots[n][i] # Free /\ slots[n][i].client = c

\* A blocked client has at most one datagram in the cluster, and one slot, at its
\* entry node, from the moment its request is read until its reply is sent; an
\* idle client has neither.  So a reply, or a slot, never outlives its call and
\* meets a later one.
OneDatagram == \A c \in Clients : \A m, mm \in DatagramsOf(c) : m = mm

OneSlot ==
  \A c \in Clients, n \in Nodes : \A i, j \in SlotIds :
    Holds(c, n, i) /\ Holds(c, n, j) => i = j

DatagramsTracked ==
  \A c \in Clients : \A m \in DatagramsOf(c) :
    /\ call[c] # Idle
    /\ m.key = call[c].key
    /\ m.kind = "internal" <=> \E i \in SlotIds : Holds(c, entry[c], i)

SlotsTracked ==
  \A c \in Clients, n \in Nodes : \A i \in SlotIds :
    Holds(c, n, i) => /\ call[c] # Idle
                      /\ n = entry[c]
                      /\ slots[n][i].key = call[c].key

RequestTracked == OneDatagram /\ OneSlot /\ DatagramsTracked /\ SlotsTracked

Owners(key) == {n \in Nodes : canHandleQueryLocally(n, key)}

Owner(key) == CHOOSE n \in Owners(key) : TRUE

Lookup(key) ==
  IF Owners(key) = {} THEN -1
  ELSE hashGet(table[Owner(key)][hashKey(Owner(key), key)], key)

\* The cluster implements one linearizable dictionary, whatever is delayed,
\* overtaken or lost: handleQuery is the moment a call takes effect.
Service == INSTANCE KeyValueService WITH store <- [k \in Keys |-> Lookup(k)]

ImplementsService == Service!Spec

\* hops around the ring from node n to the node with the key
Distance(n, key) == (Owner(key) + NumNodes - n) % NumNodes

\* The offsets grow around the ring: the keys of the next node are near (the short
\* cut, which is for hashes from 128 on, would pass it by).  A premise of theorems
\* about the routing.
InRingOrder ==
  \A n \in Nodes, key \in Keys :
    Owners(key) # {} /\ Distance(n, key) = 1 => hashKey(n, key) \notin 128..255

\* No two nodes store the same key.  (A premise: the ranges of 64 hashes do not overlap.)
OneOwner == \A key \in Keys : \A n, o \in Owners(key) : n = o

\* Every key has its one node.  (A premise: the offsets of the cluster script leave
\* the hashes 192 to 195 to no node.)
Covered == \A key \in Keys : \E n \in Nodes : Owners(key) = {n}

\* Every hop of a query brings it nearer to the node with its key: the short cut
\* never jumps over that node.
QueryApproaches ==
  [][\A c \in Clients : \A m \in DatagramsOf(c) : \A mm \in DatagramsOf(c)' :
       /\ m # mm
       /\ isActiveQuery(m.cmd)
       /\ isActiveQuery(mm.cmd)
       /\ Owners(m.key) # {}
       => Distance(mm.to, m.key) < Distance(m.to, m.key)]_vars

\* where a datagram about key goes from node n, once the short cut is known
Hop(n, key) == IF shouldFastForwardQuery(n, key) THEN Succ(Succ(n)) ELSE Succ(n)

\* the nodes that it visits after node n, on its way around the ring: the least set
\* that the hops from n, and from each of its own, do not leave
Route(n, key) ==
  {x \in Nodes : \A S \in SUBSET Nodes :
     Hop(n, key) \in S /\ (\A y \in S : Hop(y, key) \in S) => x \in S}

\* An answer can find the slot of client c at node n: it is written there, or it
\* passes there and the client's address survives the unpacking.  A request that no
\* node can answer comes back itself, if it does.
Reachable(c, n, key) ==
  \/ canHandleQueryLocally(n, key)
  \/ /\ c \notin HighClients
     /\ n \in Route(IF Owners(key) = {} THEN n ELSE Owner(key), key)

\* Once the short cuts are known, every call that is still on its way, and that its
\* answer can reach, returns (without loss).
CallsReturn ==
  \A c \in Clients :
    (/\ DatagramsOf(c) # {}
     /\ \A n \in Nodes : finger[n] # NoAddress
     /\ Reachable(c, entry[c], call[c].key)) ~> (call[c] = Idle)

\* Known limit of the code: the others never get a reply.  The short cut is taken
\* by answers too and jumps over the entry node, or the client's address is not
\* recognised; the answer circles for ever and keeps its slot.
OthersNeverReturn ==
  \A m \in net : m.kind = "reply" => Reachable(m.to, entry[m.to], m.key)

\* Every node learns its short cut, whatever the clients do meanwhile.
FingersLearned == <>(\A n \in Nodes : finger[n] = Succ(Succ(n)))

\* Without loss, a call disappears from the cluster only at a node that has not
\* learned its short cut yet.
VanishesOnlyEarly ==
  [][\A c \in Clients :
       DatagramsOf(c) # {} /\ DatagramsOf(c)' = {} /\ call[c]' # Idle
       => \E n \in Nodes : finger[n] = NoAddress]_vars

\* A reply is the answer of a table, unless the key is in no node's range: then the
\* client gets its own request back as the reply.
RepliesAreAnswers ==
  \A m \in net : m.kind = "reply" =>
    IF Owners(m.key) = {} THEN m.cmd \in {"SET", "GET", "DEL"}
    ELSE m.cmd \in {"OK!", "NOF", "VAL"}
==============================================================================
