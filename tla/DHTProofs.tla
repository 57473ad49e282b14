------------------------------ MODULE DHTProofs ------------------------------
(***************************************************************************)
(* Theorems about DHT, for rings of every size and offset, every set of    *)
(* clients, keys and values, and whatever is delayed, overtaken or lost.   *)
(***************************************************************************)
EXTENDS DHT, HashChainProofs, FiniteSetTheorems

------------------------------------------------------------------------------
(* The inductive invariant *)

\* what is in flight: requests, queries and answers on their way around the ring,
\* replies, and the nodes' own search for their successor's successor
Requests ==
  [kind : {"client"}, to : Nodes, cmd : {"set", "get", "del"},
   key : Keys, value : Values \cup {0}, origin : Clients]

Passed ==
  [kind : {"internal"}, to : Nodes, cmd : {"xst", "xgt", "xdl", "xok", "xnf", "xvl"},
   key : Keys, value : Values \cup {0}, origin : Clients]

Replies ==
  [kind : {"reply"}, to : Clients, cmd : {"SET", "GET", "DEL", "OK!", "NOF", "VAL"},
   key : Keys, value : Values \cup {0}, origin : Clients]

Searches ==
  [kind : {"internal"}, to : Nodes, cmd : {"xad"}, key : 0..2, value : {0},
   origin : Nodes]

Slots == [key : Keys, client : Clients] \cup {Free}

Answers ==
  [cmd : {"none", "SET", "GET", "DEL", "OK!", "NOF", "VAL"}, key : Keys \cup {0},
   value : Values \cup {0}]

\* what a datagram can carry, and a table hold
Carried == Values \cup {0}

\* the lists of a table: new nodes end them, so no garbage pointer ever does
Lists == {c \in Seq(ChainNodes(Keys, Carried)) :
            Good(Keys, Carried, c) /\ c[Len(c)] # Wild}

TypeOK ==
  /\ table \in [Nodes -> [Buckets -> Lists]]
  /\ slots \in [Nodes -> [SlotIds -> Slots]]
  /\ finger \in [Nodes -> Nodes \cup {NoAddress}]
  /\ running \in [Nodes -> BOOLEAN]
  /\ overrun \in [Nodes -> BOOLEAN]
  /\ net \subseteq Requests \cup Passed \cup Replies \cup Searches
  /\ call \in [Clients -> Calls \cup {Idle}]
  /\ entry \in [Clients -> Nodes]
  /\ answer \in [Clients -> Answers]
  /\ last \in [Clients -> Answers]

\* RequestTracked for one client, whose request is at its entry node until a slot
\* holds it
Tracked(c) ==
  /\ \A m, mm \in DatagramsOf(c) : m = mm
  /\ \A n \in Nodes : \A i, j \in SlotIds :
       Holds(c, n, i) /\ Holds(c, n, j) => i = j
  /\ \A m \in DatagramsOf(c) :
       /\ call[c] # Idle
       /\ m.key = call[c].key
       /\ m.kind = "internal" <=> \E i \in SlotIds : Holds(c, entry[c], i)
       /\ m.kind = "client" => m.to = entry[c]
       /\ m.kind = "reply" => m.to = c
  /\ \A n \in Nodes : \A i \in SlotIds :
       Holds(c, n, i) => /\ call[c] # Idle
                         /\ n = entry[c]
                         /\ slots[n][i].key = call[c].key

AllTracked == \A c \in Clients : Tracked(c)

\* a search goes one node and another one ahead, and the answer comes back
SearchesRight ==
  \A m \in net \cap Searches :
    /\ m.key = 2 => m.to = Succ(m.origin)
    /\ m.key = 1 => m.to = Succ(Succ(m.origin))
    /\ m.key = 0 => m.origin = Succ(Succ(m.to))

FingersRight == \A n \in Nodes : finger[n] \in {NoAddress, Succ(Succ(n))}

\* a query is nearer to the node with its key than the node that let it in, and
\* what has been answered had such a node
Near ==
  \A m \in net \cap Passed :
    IF isActiveQuery(m.cmd)
    THEN Owners(m.key) # {}
         => Distance(m.to, m.key) < Distance(entry[m.origin], m.key)
    ELSE Owners(m.key) # {}

\* a datagram carries call q of its client until a table has answered it, and the
\* answer a from then on
MatchedBy(m, q, a) ==
  IF isActiveQuery(m.cmd)
  THEN /\ a = Idle
       /\ isSetQuery(m.cmd) <=> q.cmd = "set"
       /\ isGetQuery(m.cmd) <=> q.cmd = "get"
       /\ isDelQuery(m.cmd) <=> q.cmd = "del"
       /\ m.value = q.value
  ELSE a = [cmd |-> convertToClientCommand(m.cmd), key |-> m.key, value |-> m.value]

Matched ==
  /\ \A m \in net \ Searches : MatchedBy(m, call[m.origin], answer[m.origin])
  /\ \A c \in Clients : call[c] = Idle => answer[c] = Idle

------------------------------------------------------------------------------
(* The ring *)

\* The successor of a node is a node, and none has the address NoAddress.
LEMMA SuccIs ==
  /\ \A n \in Nodes : Succ(n) \in Nodes /\ Succ(n) # NoAddress
  /\ NoAddress \notin Nodes
  /\ 0 \in Nodes
  /\ \A c \in Clients : c \notin Nodes
<1>1. NumNodes \in Nat \ {0}
  BY DHTAssumption
<1>2. ASSUME NEW n \in Nodes
      PROVE  Succ(n) \in 0..(NumNodes - 1)
  <2>1. n + 1 \in Nat
    BY <1>1 DEF Nodes
  <2> DEFINE k == n + 1
  <2> HIDE DEF k
  <2>2. k % NumNodes \in 0..(NumNodes - 1)
    BY <1>1, <2>1 DEF k
  <2> QED BY <2>2 DEF k, Succ
<1>3. \A c \in Clients : c \notin Nodes
  BY DHTAssumption
<1> QED BY <1>1, <1>2, <1>3 DEF Nodes, NoAddress

\* Searches take no short cut: their keys are small.
LEMMA SearchHops ==
  ASSUME NEW n \in Nodes, NEW key \in 0..2
  PROVE  NextHop(n, key) = Succ(n)
<1>1. Offset \in [Nodes -> Nat]
  BY DHTAssumption
<1>2. Offset[n] \in Nat
  BY <1>1
<1>3. key % 256 = key /\ 265 % 265 = 0
  OBVIOUS
<1>4. hashKey(n, key) <= 2 /\ hashKey(n, key) \in Int
  BY <1>2, <1>3 DEF hashKey
<1>5. hashKey(n, key) + (265 % 265) \notin 128..255
  BY <1>3, <1>4
<1> QED BY <1>5 DEF NextHop, shouldFastForwardQuery

\* Nor is the next node one without an address, unless it is the unknown short cut.
LEMMA NextHopIs ==
  ASSUME TypeOK, NEW n \in Nodes, NEW key
  PROVE  /\ NextHop(n, key) \in Nodes \cup {NoAddress}
         /\ NextHop(n, key) = NoAddress => finger[n] = NoAddress
BY SuccIs DEF NextHop, TypeOK

------------------------------------------------------------------------------
(* What a node does with a datagram of a client *)

\* the table of this node has the answer
Handled(n, m) == isActiveQuery(m.cmd) /\ canHandleQueryLocally(n, m.key)

ChainOf(n, m) == table[n][hashKey(n, m.key)]

\* the query as it leaves the node
Out(n, m) == IF Handled(n, m) THEN Answered(ChainOf(n, m), Query(m)) ELSE Query(m)

\* the slots once the request has been written to one
Admitted(n, m) ==
  IF m.kind = "client"
  THEN [slots[n] EXCEPT ![nextFreeRequestId(slots[n])] =
          [key |-> m.key, client |-> m.origin]]
  ELSE slots[n]

Onward(n, m) ==
  [kind |-> "internal", to |-> NextHop(n, m.key),
   cmd |-> convertToInternalCommand(Out(n, m).cmd), key |-> m.key,
   value |-> Out(n, m).value, origin |-> m.origin]

Back(n, m) ==
  [kind |-> "reply", to |-> m.origin, cmd |-> convertToClientCommand(Out(n, m).cmd),
   key |-> m.key, value |-> Out(n, m).value, origin |-> m.origin]

Forwards(n, m) ==
  /\ slots' = [slots EXCEPT ![n] = Admitted(n, m)]
  /\ net' = IF NextHop(n, m.key) = NoAddress THEN net \ {m}
            ELSE (net \ {m}) \cup {Onward(n, m)}

Returns(n, m, i) ==
  /\ Admitted(n, m)[i] # Free
  /\ Admitted(n, m)[i].key = m.key
  /\ Admitted(n, m)[i].client = m.origin
  /\ m.kind = "internal" => m.origin \notin HighClients
  /\ slots' = [slots EXCEPT ![n] = [Admitted(n, m) EXCEPT ![i] = Free]]
  /\ net' = (net \ {m}) \cup {Back(n, m)}

Asks(n, m) ==
  IF Handled(n, m)
  THEN /\ table' = [table EXCEPT ![n][hashKey(n, m.key)] = Updated(@, Query(m))]
       /\ answer' = [answer EXCEPT ![m.origin] =
                       [cmd |-> convertToClientCommand(Out(n, m).cmd), key |-> m.key,
                        value |-> Out(n, m).value]]
  ELSE UNCHANGED <<table, answer>>

Works(n, m) ==
  /\ m.to = n
  /\ m.kind = "client" => nextFreeRequestId(slots[n]) # -1
  /\ \/ Forwards(n, m)
     \/ /\ m.kind = "client" => Handled(n, m)
        /\ \E i \in SlotIds : Returns(n, m, i)
  /\ Asks(n, m)
  /\ UNCHANGED <<finger, running, overrun, clientVars>>

\* a step of the search for the successor's successor
Searched(n, m) ==
  /\ m.to = n
  /\ \/ /\ m.key = 2
        /\ net' = (net \ {m}) \cup
             {[kind |-> "internal", to |-> Succ(n), cmd |-> "xad", key |-> 1,
               value |-> 0, origin |-> m.origin]}
        /\ UNCHANGED finger
     \/ /\ m.key = 1
        /\ net' = (net \ {m}) \cup
             {[kind |-> "internal", to |-> m.origin, cmd |-> "xad", key |-> 0,
               value |-> 0, origin |-> n]}
        /\ UNCHANGED finger
     \/ /\ m.key = 0
        /\ net' = net \ {m}
        /\ finger' = [finger EXCEPT ![n] = m.origin]
  /\ UNCHANGED <<table, slots, running, overrun, clientVars, answer>>

\* The query that leaves a node: still the request, or the answer to it.
LEMMA OutIs ==
  ASSUME TypeOK, NEW n \in Nodes, NEW m \in net, m \in Requests \cup Passed
  PROVE  /\ Query(m).cmd = m.cmd /\ Query(m).key = m.key
         /\ Query(m).address = m.origin
         /\ Out(n, m) =
              [cmd |-> Out(n, m).cmd, key |-> m.key, value |-> Out(n, m).value,
               address |-> m.origin, extended |-> Query(m).extended]
         /\ Out(n, m).value \in Values \cup {0}
         /\ Out(n, m).cmd \in {"set", "get", "del", "xst", "xgt", "xdl", "xok", "xnf",
                               "xvl", "ok!", "nof", "val"}
         /\ Handled(n, m) => Out(n, m).cmd \in {"ok!", "nof", "val"}
         /\ ~Handled(n, m) => Out(n, m).cmd = m.cmd /\ Out(n, m).value = m.value
<1>1. /\ m.cmd \in {"set", "get", "del", "xst", "xgt", "xdl", "xok", "xnf", "xvl"}
      /\ m.key \in Keys /\ m.value \in Values \cup {0} /\ m.origin \in Clients
  BY DEF Requests, Passed
<1>2. Query(m) = [cmd |-> m.cmd, key |-> m.key, value |-> m.value, address |-> m.origin,
                  extended |-> Query(m).extended]
  BY DEF Query
<1>3. CASE ~Handled(n, m)
  BY <1>1, <1>2, <1>3 DEF Out
<1>4. CASE Handled(n, m)
  <2>1. hashKey(n, m.key) \in Buckets
    BY <1>1, <1>4 DEF Handled, Buckets, canHandleQueryLocally
  <2>2. Good(Keys, Carried, ChainOf(n, m))
    BY <2>1 DEF TypeOK, Lists, ChainOf
  <2>3. hashGet(ChainOf(n, m), m.key) \in Values \cup {0, -1}
    BY <2>2, <1>1, GetValue DEF Carried
  <2>4. isActiveQuery(m.cmd)
    BY <1>4 DEF Handled
  <2> DEFINE q == Query(m)
             g == hashGet(ChainOf(n, m), m.key)
  <2>5. /\ q.cmd = m.cmd /\ q.key = m.key /\ q.address = m.origin /\ q.value = m.value
        /\ q = [cmd |-> m.cmd, key |-> m.key, value |-> m.value, address |-> m.origin,
                extended |-> q.extended]
    BY <1>2
  <2>6. Out(n, m) = Answered(ChainOf(n, m), q)
    BY <1>4 DEF Out
  <2>7. \/ Out(n, m) = [q EXCEPT !.cmd = "ok!"]
        \/ Out(n, m) = [q EXCEPT !.cmd = "nof"]
        \/ Out(n, m) = [q EXCEPT !.cmd = "val", !.value = g] /\ g # -1
    <3> HIDE DEF q
    <3> QED BY <2>4, <2>5, <2>6 DEF Answered, isActiveQuery
  <2> HIDE DEF q, g
  <2>8. g \in Values \cup {0, -1}
    BY <2>3 DEF g
  <2>9. /\ Out(n, m) =
             [cmd |-> Out(n, m).cmd, key |-> m.key, value |-> Out(n, m).value,
              address |-> m.origin, extended |-> q.extended]
        /\ Out(n, m).value \in Values \cup {0}
        /\ Out(n, m).cmd \in {"ok!", "nof", "val"}
    <3>1. CASE Out(n, m) = [q EXCEPT !.cmd = "ok!"]
      BY <3>1, <1>1, <2>5
    <3>2. CASE Out(n, m) = [q EXCEPT !.cmd = "nof"]
      BY <3>2, <1>1, <2>5
    <3>3. CASE Out(n, m) = [q EXCEPT !.cmd = "val", !.value = g] /\ g # -1
      BY <3>3, <1>1, <2>5, <2>8
    <3> QED BY <2>7, <3>1, <3>2, <3>3
  <2> QED BY <1>4, <2>5, <2>9 DEF q
<1> QED BY <1>3, <1>4

\* The datagram that takes it on, or back to the client, is of its kind, and tells
\* the request from the answer.
LEMMA Commands ==
  ASSUME TypeOK, NEW n \in Nodes, NEW m \in net, m \in Requests \cup Passed
  PROVE  /\ NextHop(n, m.key) # NoAddress => Onward(n, m) \in Passed
         /\ Back(n, m) \in Replies
         /\ isActiveQuery(Onward(n, m).cmd) <=> isActiveQuery(m.cmd) /\ ~Handled(n, m)
         /\ Back(n, m).cmd \in {"SET", "GET", "DEL"} <=>
              isActiveQuery(m.cmd) /\ ~Handled(n, m)
<1>1. /\ m.cmd \in {"set", "get", "del", "xst", "xgt", "xdl", "xok", "xnf", "xvl"}
      /\ m.key \in Keys /\ m.origin \in Clients
  BY DEF Requests, Passed
<1> DEFINE c == Out(n, m).cmd
           v == Out(n, m).value
<1>2. /\ v \in Values \cup {0}
      /\ c \in {"set", "get", "del", "xst", "xgt", "xdl", "xok", "xnf", "xvl",
                "ok!", "nof", "val"}
      /\ Handled(n, m) => c \in {"ok!", "nof", "val"}
      /\ ~Handled(n, m) => c = m.cmd
  BY OutIs
<1>3. NextHop(n, m.key) \in Nodes \cup {NoAddress}
  BY NextHopIs
<1>4. /\ Onward(n, m) = [kind |-> "internal", to |-> NextHop(n, m.key),
           cmd |-> convertToInternalCommand(c), key |-> m.key, value |-> v,
           origin |-> m.origin]
      /\ Back(n, m) = [kind |-> "reply", to |-> m.origin,
           cmd |-> convertToClientCommand(c), key |-> m.key, value |-> v,
           origin |-> m.origin]
  BY DEF Onward, Back
<1> HIDE DEF c, v
<1>5. /\ convertToInternalCommand(c) \in {"xst", "xgt", "xdl", "xok", "xnf", "xvl"}
      /\ convertToClientCommand(c) \in {"SET", "GET", "DEL", "OK!", "NOF", "VAL"}
      /\ isActiveQuery(convertToInternalCommand(c)) <=> isActiveQuery(c)
      /\ convertToClientCommand(c) \in {"SET", "GET", "DEL"} <=> isActiveQuery(c)
  BY <1>2 DEF convertToInternalCommand, convertToClientCommand, isActiveQuery, isSetQuery,
     isGetQuery, isDelQuery, isOkQuery, isNotFoundQuery, isValueQuery
<1>6. isActiveQuery(c) <=> isActiveQuery(m.cmd) /\ ~Handled(n, m)
  BY <1>2 DEF isActiveQuery, isSetQuery, isGetQuery, isDelQuery
<1> QED BY <1>1, <1>2, <1>3, <1>4, <1>5, <1>6 DEF Passed, Replies

\* The slot found for a query is one that its client holds.
LEMMA SlotFound ==
  ASSUME NEW sl, NEW q
  PROVE  LET i == searchRequestId(sl, q)
             free == nextFreeRequestId(sl)
         IN  /\ i # -1 => /\ i \in SlotIds
                          /\ sl[i] # Free
                          /\ sl[i].key = q.key
                          /\ sl[i].client = q.address
                          /\ ~q.extended
             /\ i = -1 => \A j \in SlotIds : sl[j] # Free /\ sl[j].key = q.key
                            /\ sl[j].client = q.address => q.extended
             /\ free # -1 => free \in SlotIds /\ sl[free] = Free
             /\ free = -1 => \A j \in SlotIds : sl[j] # Free
<1> DEFINE found == {i \in SlotIds : /\ sl[i] # Free
                                     /\ sl[i].key = q.key
                                     /\ sl[i].client = q.address
                                     /\ ~q.extended}
           open == {i \in SlotIds : sl[i] = Free}
<1>1. SlotIds \subseteq Nat /\ -1 \notin SlotIds
  BY DHTAssumption DEF SlotIds
<1>2. found # {} => First(found) \in found
  <2> HIDE DEF found
  <2>1. found \subseteq Nat
    BY <1>1 DEF found
  <2> QED BY <2>1, FirstIsLeast
<1>3. open # {} => First(open) \in open
  <2> HIDE DEF open
  <2>1. open \subseteq Nat
    BY <1>1 DEF open
  <2> QED BY <2>1, FirstIsLeast
<1>4. /\ searchRequestId(sl, q) = IF found = {} THEN -1 ELSE First(found)
      /\ nextFreeRequestId(sl) = IF open = {} THEN -1 ELSE First(open)
  BY DEF searchRequestId, nextFreeRequestId
<1>5. /\ searchRequestId(sl, q) # -1 => searchRequestId(sl, q) \in found
      /\ searchRequestId(sl, q) = -1 => found = {}
  <2> HIDE DEF found, open
  <2>1. -1 \notin found
    BY <1>1 DEF found
  <2> QED BY <1>2, <1>4, <2>1
<1>6. /\ nextFreeRequestId(sl) # -1 => nextFreeRequestId(sl) \in open
      /\ nextFreeRequestId(sl) = -1 => open = {}
  <2> HIDE DEF found, open
  <2>1. -1 \notin open
    BY <1>1 DEF open
  <2> QED BY <1>3, <1>4, <2>1
<1> QED BY <1>5, <1>6

\* forceForwardQuery and forwardQuery, for the query that leaves the node.
LEMMA Routed ==
  ASSUME TypeOK, NEW n \in Nodes, NEW m \in net, m \in Requests \cup Passed
  PROVE  LET q    == Out(n, m)
             sl   == Admitted(n, m)
             rest == net \ {m}
         IN  /\ forceForwardQuery(n, sl, rest, q) => Forwards(n, m)
             /\ forwardQuery(n, sl, rest, q) =>
                  Forwards(n, m) \/ \E i \in SlotIds : Returns(n, m, i)
<1> DEFINE q    == Out(n, m)
           sl   == Admitted(n, m)
           rest == net \ {m}
<1>1. q = [cmd |-> q.cmd, key |-> m.key, value |-> q.value, address |-> m.origin,
           extended |-> q.extended]
  BY OutIs
<1>2. m.kind = "internal" /\ m.origin \in HighClients => q.extended
  <2>1. Query(m).extended = (m.kind = "internal" /\ m.origin \in HighClients)
    BY Zenon DEF Query, isInternalCommunication
  <2>2. q.extended = Query(m).extended
    <3>1. q = [cmd |-> q.cmd, key |-> m.key, value |-> q.value, address |-> m.origin,
               extended |-> Query(m).extended]
      BY OutIs
    <3> HIDE DEF q
    <3> QED BY <3>1
  <2> QED BY <2>1, <2>2, Zenon
<1>3. /\ Onward(n, m) = [kind |-> "internal", to |-> NextHop(n, m.key),
           cmd |-> convertToInternalCommand(q.cmd), key |-> m.key, value |-> q.value,
           origin |-> m.origin]
      /\ Back(n, m) = [kind |-> "reply", to |-> m.origin,
           cmd |-> convertToClientCommand(q.cmd), key |-> m.key, value |-> q.value,
           origin |-> m.origin]
      /\ Forwards(n, m) <=>
           /\ slots' = [slots EXCEPT ![n] = sl]
           /\ net' = IF NextHop(n, m.key) = NoAddress THEN rest
                     ELSE rest \cup {Onward(n, m)}
      /\ \A i \in SlotIds : Returns(n, m, i) <=>
           /\ sl[i] # Free /\ sl[i].key = m.key /\ sl[i].client = m.origin
           /\ m.kind = "internal" => m.origin \notin HighClients
           /\ slots' = [slots EXCEPT ![n] = [sl EXCEPT ![i] = Free]]
           /\ net' = rest \cup {Back(n, m)}
  BY DEF Onward, Back, Forwards, Returns
<1> HIDE DEF q, sl, rest
<1>4. ASSUME forceForwardQuery(n, sl, rest, q)
      PROVE  Forwards(n, m)
  <2> DEFINE out == [q EXCEPT !.cmd = convertToInternalCommand(q.cmd)]
  <2>1. /\ out.cmd = convertToInternalCommand(q.cmd) /\ out.key = m.key
        /\ out.value = q.value /\ q.key = m.key /\ q.address = m.origin
    BY <1>1
  <2> HIDE DEF out
  <2>2. Datagram("internal", NextHop(n, m.key), out, m.origin) = Onward(n, m)
    BY <1>3, <2>1 DEF Datagram
  <2> QED BY <1>3, <1>4, <2>1, <2>2 DEF forceForwardQuery, out
<1>5. ASSUME NEW i \in SlotIds, sl[i] # Free, sl[i].key = m.key, sl[i].client = m.origin,
             m.kind = "internal" => m.origin \notin HighClients,
             returnToClient(n, sl, rest, i, q)
      PROVE  Returns(n, m, i)
  <2> DEFINE out == [q EXCEPT !.cmd = convertToClientCommand(q.cmd)]
  <2>1. /\ out.cmd = convertToClientCommand(q.cmd) /\ out.key = m.key
        /\ out.value = q.value
    BY <1>1
  <2> HIDE DEF out
  <2>2. Datagram("reply", m.origin, out, m.origin) = Back(n, m)
    BY <1>3, <2>1 DEF Datagram
  <2>3. /\ slots' = [slots EXCEPT ![n] = [sl EXCEPT ![i] = Free]]
        /\ net' = rest \cup {Datagram("reply", m.origin, out, m.origin)}
    BY <1>5 DEF returnToClient, out
  <2> QED BY <1>3, <1>5, <2>2, <2>3
<1>6. ASSUME forwardQuery(n, sl, rest, q)
      PROVE  Forwards(n, m) \/ \E i \in SlotIds : Returns(n, m, i)
  <2> DEFINE i == searchRequestId(sl, q)
  <2>1. /\ i # -1 => /\ i \in SlotIds
                     /\ sl[i] # Free
                     /\ sl[i].key = m.key
                     /\ sl[i].client = m.origin
                     /\ m.kind = "internal" => m.origin \notin HighClients
    <3>1. i # -1 => /\ i \in SlotIds
                    /\ sl[i] # Free
                    /\ sl[i].key = q.key
                    /\ sl[i].client = q.address
                    /\ ~q.extended
      BY SlotFound, Zenon
    <3>2. q.key = m.key /\ q.address = m.origin
      BY <1>1
    <3> QED BY <1>2, <3>1, <3>2, Zenon
  <2>2. IF i = -1 THEN forceForwardQuery(n, sl, rest, q)
        ELSE returnToClient(n, sl, rest, i, q)
    BY <1>6 DEF forwardQuery
  <2> HIDE DEF i
  <2> QED BY <1>4, <1>5, <2>1, <2>2
<1> QED BY <1>4, <1>6 DEF q, sl, rest

\* Whatever a node does with a datagram is one of these three.
LEMMA NodeStep ==
  ASSUME TypeOK, NEW n \in Nodes, NEW m \in net, Step(n, m)
  PROVE  \/ m \in Requests \cup Passed /\ Works(n, m)
         \/ m \in Requests /\ OverrunSlots(n, m)
         \/ m \in Searches /\ Searched(n, m)
<1> USE DEF isInternalCommunication
<1>1. /\ m \in Requests \cup Passed \cup Searches
      /\ m.kind = "internal" <=> m \in Passed \cup Searches
      /\ m.to = n
  BY DEF TypeOK, Step, Reads, ReceiveInternal, ReceiveClient, OverrunSlots, Requests,
     Passed, Searches, Replies
<1>2. ASSUME m \in Passed, ReceiveInternal(n, m)
      PROVE  Works(n, m)
  <2>1. /\ m.kind = "internal" /\ Admitted(n, m) = slots[n]
        /\ Query(m).cmd = m.cmd /\ Query(m).key = m.key /\ Query(m).address = m.origin
        /\ ~isAddressQuery(m.cmd)
    BY <1>2, OutIs DEF Passed, Admitted, isAddressQuery
  <2>2. CASE Handled(n, m) /\ handleQuery(n, slots[n], net \ {m}, Query(m))
    <3>1. forwardQuery(n, Admitted(n, m), net \ {m}, Out(n, m))
      BY <2>1, <2>2 DEF handleQuery, Out, ChainOf
    <3>2. Asks(n, m)
      BY <2>1, <2>2 DEF handleQuery, Asks, Out, ChainOf
    <3> QED BY <1>1, <1>2, <2>1, <2>2, <3>1, <3>2, Routed
            DEF Works, ReceiveInternal, handleQuery
  <2>3. CASE /\ ~Handled(n, m)
             /\ forwardQuery(n, slots[n], net \ {m}, Query(m))
             /\ UNCHANGED <<table, finger, answer>>
    <3>1. forwardQuery(n, Admitted(n, m), net \ {m}, Out(n, m))
      BY <2>1, <2>3 DEF Out
    <3> QED BY <1>1, <1>2, <2>1, <2>3, <3>1, Routed DEF Works, Asks, ReceiveInternal
  <2> QED BY <1>2, <2>1, <2>2, <2>3 DEF ReceiveInternal, Handled
<1>3. ASSUME m \in Requests, ReceiveClient(n, m)
      PROVE  Works(n, m)
  <2>1. /\ m.kind = "client"
        /\ Query(m).cmd = m.cmd /\ Query(m).key = m.key /\ Query(m).address = m.origin
        /\ isActiveQuery(m.cmd)
    BY <1>3, OutIs DEF Requests, isActiveQuery, isSetQuery, isGetQuery, isDelQuery
  <2> DEFINE sl == Admitted(n, m)
  <2>2. sl = [slots[n] EXCEPT ![nextFreeRequestId(slots[n])] =
                [key |-> Query(m).key, client |-> Query(m).address]]
    BY <2>1 DEF Admitted
  <2> HIDE DEF sl
  <2>3. /\ nextFreeRequestId(slots[n]) # -1
        /\ \/ Handled(n, m) /\ handleQuery(n, sl, net \ {m}, Query(m))
           \/ /\ ~Handled(n, m)
              /\ forceForwardQuery(n, sl, net \ {m}, Query(m))
              /\ UNCHANGED <<table, finger, answer>>
        /\ UNCHANGED <<running, overrun, clientVars>>
    BY <1>3, <2>1, <2>2 DEF ReceiveClient, Handled
  <2>4. CASE Handled(n, m) /\ handleQuery(n, sl, net \ {m}, Query(m))
    <3>1. forwardQuery(n, Admitted(n, m), net \ {m}, Out(n, m))
      BY <2>1, <2>4 DEF handleQuery, Out, ChainOf, sl
    <3>2. Asks(n, m)
      BY <2>1, <2>4 DEF handleQuery, Asks, Out, ChainOf
    <3> QED BY <1>1, <1>3, <2>3, <2>4, <3>1, <3>2, Routed DEF Works, handleQuery
  <2>5. CASE /\ ~Handled(n, m)
             /\ forceForwardQuery(n, sl, net \ {m}, Query(m))
             /\ UNCHANGED <<table, finger, answer>>
    <3>1. forceForwardQuery(n, Admitted(n, m), net \ {m}, Out(n, m))
      BY <2>1, <2>5 DEF Out, sl
    <3> QED BY <1>1, <1>3, <2>3, <2>5, <3>1, Routed DEF Works, Asks
  <2> QED BY <2>3, <2>4, <2>5
<1>4. ASSUME m \in Searches, ReceiveInternal(n, m)
      PROVE  Searched(n, m)
  <2> DEFINE q == Query(m)
             rest == net \ {m}
  <2>1. /\ m = [kind |-> "internal", to |-> n, cmd |-> "xad", key |-> m.key,
                value |-> 0, origin |-> m.origin]
        /\ m.key \in 0..2 /\ m.origin \in Nodes
    BY <1>1, <1>4 DEF Searches
  <2>2. q = [cmd |-> "xad", key |-> m.key, value |-> 0, address |-> m.origin,
             extended |-> q.extended]
    BY <2>1 DEF Query
  <2>3. ~isActiveQuery(q.cmd) /\ isAddressQuery(q.cmd)
    BY <2>2 DEF isActiveQuery, isSetQuery, isGetQuery, isDelQuery, isAddressQuery
  <2>4. /\ handleAddressQuery(n, rest, q)
        /\ UNCHANGED <<running, overrun, clientVars>>
    BY <1>4, <2>3 DEF ReceiveInternal
  <2> HIDE DEF q, rest
  <2>5. CASE q.key = 2 /\ forwardQuery(n, slots[n], rest, [q EXCEPT !.key = 1])
                      /\ UNCHANGED finger
    <3> DEFINE a == [q EXCEPT !.key = 1]
    <3>1. a = [cmd |-> "xad", key |-> 1, value |-> 0, address |-> m.origin,
               extended |-> q.extended]
      BY <2>2
    <3> HIDE DEF a
    <3>2. searchRequestId(slots[n], a) = -1
      <4> DEFINE i == searchRequestId(slots[n], a)
      <4>1. SUFFICES ASSUME i # -1 PROVE FALSE
        OBVIOUS
      <4>2. i \in SlotIds /\ slots[n][i] # Free /\ slots[n][i].client = m.origin
        BY <3>1, <4>1, SlotFound
      <4> HIDE DEF i
      <4>3. slots[n][i].client \in Clients
        BY <4>2 DEF TypeOK, Slots
      <4> QED BY <2>1, <4>2, <4>3, SuccIs
    <3>3. forceForwardQuery(n, slots[n], rest, a)
      BY <2>5, <3>2 DEF forwardQuery, a
    <3>4. NextHop(n, 1) = Succ(n)
      BY SearchHops
    <3>5. /\ slots' = [slots EXCEPT ![n] = slots[n]]
          /\ net' = rest \cup
               {[kind |-> "internal", to |-> Succ(n),
                 cmd |-> convertToInternalCommand("xad"), key |-> 1, value |-> 0,
                 origin |-> m.origin]}
      BY <3>1, <3>3, <3>4, SuccIs DEF forceForwardQuery, Datagram
    <3>6. slots' = slots
      BY <3>5 DEF TypeOK
    <3>7. convertToInternalCommand("xad") = "xad"
      BY DEF convertToInternalCommand, isSetQuery, isGetQuery, isDelQuery, isOkQuery,
         isNotFoundQuery, isValueQuery
    <3> QED BY <1>1, <2>2, <2>4, <2>5, <3>5, <3>6, <3>7
            DEF Searched, handleAddressQuery, rest
  <2>6. CASE /\ q.key = 1
             /\ net' = rest \cup {Datagram("internal", q.address, [q EXCEPT !.key = 0], n)}
             /\ UNCHANGED <<slots, finger>>
    <3>1. Datagram("internal", q.address, [q EXCEPT !.key = 0], n) =
            [kind |-> "internal", to |-> m.origin, cmd |-> "xad", key |-> 0,
             value |-> 0, origin |-> n]
      BY <2>2 DEF Datagram
    <3> QED BY <1>1, <2>2, <2>4, <2>6, <3>1 DEF Searched, handleAddressQuery, rest
  <2>7. CASE /\ q.key \notin {1, 2}
             /\ finger' = [finger EXCEPT ![n] = q.address]
             /\ net' = rest
             /\ UNCHANGED slots
    <3>1. m.key = 0 /\ q.address = m.origin
      BY <2>1, <2>2, <2>7
    <3>2. UNCHANGED <<table, answer, running, overrun, clientVars>>
      BY <2>4 DEF handleAddressQuery
    <3> QED BY <1>1, <2>7, <3>1, <3>2 DEF Searched, rest
  <2> QED BY <2>4, <2>5, <2>6, <2>7 DEF handleAddressQuery
<1> QED
  BY <1>1, <1>2, <1>3, <1>4
  DEF Step, ReceiveInternal, ReceiveClient, OverrunSlots, Requests, Passed, Searches

------------------------------------------------------------------------------
(* Types *)

\* Keys and values are numbers.
LEMMA Numbers == Keys \subseteq Nat /\ Carried \subseteq Nat
<1>1. UInt16 \subseteq Nat
  BY DEF UInt16
<1> QED BY <1>1, DHTAssumption DEF Carried

\* What a list needs to be one that a table holds.
LEMMA InLists ==
  ASSUME NEW c, Good(Keys, Carried, c), c[Len(c)] # Wild
  PROVE  c \in Lists
BY DEF Lists, Good

\* The query of a client changes a list to one of the kind a table holds.
LEMMA UpdatedIs ==
  ASSUME NEW c \in Lists, NEW q, q.key \in Keys, q.value \in Carried
  PROVE  Updated(c, q) \in Lists
<1>1. Good(Keys, Carried, c) /\ c[Len(c)] # Wild /\ <<>> \in Endings
  BY DEF Lists, Endings
<1>2. ~RunsWild(c, q.key) /\ ~CopiesWild(c, q.key)
  BY <1>1, StaysTame
<1>3. hashSet(c, q.key, q.value, <<>>) \in Lists
  <2> DEFINE s == hashSet(c, q.key, q.value, <<>>)
  <2>1. Good(Keys, Carried, s) /\ s[Len(s)] # Wild
    BY <1>1, <1>2, StaysTame, SetGood
  <2> QED BY <2>1, InLists
<1>4. hashDel(c, q.key) \in Lists
  <2> DEFINE s == hashDel(c, q.key)
  <2>1. Good(Keys, Carried, s) /\ s[Len(s)] # Wild
    BY <1>1, <1>2, StaysTame, DelGood
  <2> QED BY <2>1, InLists
<1> QED BY <1>3, <1>4 DEF Updated

\* A starting node asks its successor.
LEMMA SetupIs ==
  ASSUME TypeOK, NEW n \in Nodes, SetupFingerTable(n)
  PROVE  /\ net' = net \cup {[kind |-> "internal", to |-> Succ(n), cmd |-> "xad",
                              key |-> 2, value |-> 0, origin |-> n]}
         /\ running' = [running EXCEPT ![n] = TRUE]
         /\ UNCHANGED <<table, slots, finger, overrun, clientVars, answer>>
<1>1. NextHop(n, 2) = Succ(n)
  BY SearchHops
<1>2. convertToInternalCommand("xad") = "xad"
  BY DEF convertToInternalCommand, isSetQuery, isGetQuery, isDelQuery, isOkQuery,
     isNotFoundQuery, isValueQuery
<1> DEFINE q == [cmd |-> "xad", key |-> 2, value |-> 0, address |-> n, extended |-> FALSE]
           out == [q EXCEPT !.cmd = convertToInternalCommand(q.cmd)]
<1>3. out.cmd = "xad" /\ out.key = 2 /\ out.value = 0
  BY <1>2
<1>4. q.key = 2 /\ q.address = n
  OBVIOUS
<1>5. Datagram("internal", Succ(n), out, n) =
        [kind |-> "internal", to |-> Succ(n), cmd |-> "xad", key |-> 2, value |-> 0,
         origin |-> n]
  <2> HIDE DEF out
  <2> QED BY <1>3 DEF Datagram
<1>6. forceForwardQuery(n, slots[n], net, q)
  BY DEF SetupFingerTable
<1> HIDE DEF q
<1>7. /\ slots' = [slots EXCEPT ![n] = slots[n]]
      /\ net' = net \cup {Datagram("internal", Succ(n), out, n)}
  BY <1>1, <1>4, <1>6, SuccIs DEF forceForwardQuery
<1>8. slots' = slots
  BY <1>7 DEF TypeOK
<1> QED BY <1>5, <1>7, <1>8 DEF SetupFingerTable

\* The request written to a slot leaves slots of the same kind.
LEMMA AdmittedIs ==
  ASSUME TypeOK, NEW n \in Nodes, NEW m \in net, m \in Requests \cup Passed,
         Works(n, m)
  PROVE  Admitted(n, m) \in [SlotIds -> Slots]
<1>1. slots[n] \in [SlotIds -> Slots]
  BY DEF TypeOK
<1>2. CASE m.kind = "client"
  <2> DEFINE i == nextFreeRequestId(slots[n])
  <2>1. i \in SlotIds
    BY <1>2, SlotFound DEF Works
  <2>2. [key |-> m.key, client |-> m.origin] \in Slots
    BY DEF Slots, Requests, Passed
  <2> HIDE DEF i
  <2> QED BY <1>1, <1>2, <2>1, <2>2 DEF Admitted, i
<1>3. CASE m.kind # "client"
  BY <1>1, <1>3 DEF Admitted
<1> QED BY <1>2, <1>3

\* The types at the start ...
LEMMA TypeInit == Init => TypeOK
<1>1. SUFFICES ASSUME Init PROVE TypeOK
  OBVIOUS
<1>2. <<EmptyNode>> \in Lists
  <2>1. Good(Keys, Carried, <<EmptyNode>>)
    BY EmptyGood, Numbers
  <2>2. <<EmptyNode>>[Len(<<EmptyNode>>)] # Wild
    BY DEF EmptyNode, Wild
  <2> QED BY <2>1, <2>2 DEF Lists, Good
<1>3. Idle \in Answers /\ Free \in Slots
  BY DEF Idle, Answers, Slots
<1> QED BY <1>1, <1>2, <1>3, SuccIs DEF Init, Blank, TypeOK

\* ... and after every step.
LEMMA TypeStep == TypeOK /\ [Next]_vars => TypeOK'
<1>1. SUFFICES ASSUME TypeOK, [Next]_vars PROVE TypeOK'
  OBVIOUS
<1> USE <1>1
<1>2. ASSUME NEW n \in Nodes, SetupFingerTable(n)
      PROVE  TypeOK'
  <2>1. [kind |-> "internal", to |-> Succ(n), cmd |-> "xad", key |-> 2, value |-> 0,
         origin |-> n] \in Searches
    BY SuccIs DEF Searches
  <2>2. /\ net' = net \cup {[kind |-> "internal", to |-> Succ(n), cmd |-> "xad",
                             key |-> 2, value |-> 0, origin |-> n]}
        /\ running' = [running EXCEPT ![n] = TRUE]
        /\ UNCHANGED <<table, slots, finger, overrun, clientVars, answer>>
    BY <1>2, SetupIs
  <2> QED BY <2>1, <2>2 DEF TypeOK, clientVars
<1>3. ASSUME NEW m \in net, NEW n \in Nodes, Step(n, m)
      PROVE  TypeOK'
  <2>1. CASE m \in Requests \cup Passed /\ Works(n, m)
    <3>1. m.key \in Keys /\ m.origin \in Clients
      BY <2>1 DEF Requests, Passed
    <3>2. net' \subseteq Requests \cup Passed \cup Replies \cup Searches
      <4>1. NextHop(n, m.key) # NoAddress => Onward(n, m) \in Passed
        BY <2>1, Commands
      <4>2. Back(n, m) \in Replies
        BY <2>1, Commands
      <4> QED BY <2>1, <4>1, <4>2 DEF TypeOK, Works, Forwards, Returns
    <3>3. slots' \in [Nodes -> [SlotIds -> Slots]]
      <4>1. Admitted(n, m) \in [SlotIds -> Slots] /\ Free \in Slots
        BY <2>1, AdmittedIs DEF Slots
      <4>2. CASE Forwards(n, m)
        BY <4>1, <4>2 DEF Forwards, TypeOK
      <4>3. ASSUME NEW i \in SlotIds, Returns(n, m, i)
            PROVE  slots' \in [Nodes -> [SlotIds -> Slots]]
        <5>1. [Admitted(n, m) EXCEPT ![i] = Free] \in [SlotIds -> Slots]
          BY <4>1
        <5> QED BY <4>3, <5>1 DEF Returns, TypeOK
      <4> QED BY <2>1, <4>2, <4>3 DEF Works
    <3>4. table' \in [Nodes -> [Buckets -> Lists]]
      <4>1. CASE Handled(n, m)
        <5> DEFINE b == hashKey(n, m.key)
                   c == Updated(table[n][b], Query(m))
        <5>1. b \in Buckets
          BY <3>1, <4>1 DEF Handled, Buckets, canHandleQueryLocally
        <5>2. Query(m).key \in Keys /\ Query(m).value \in Carried
          BY <2>1 DEF Query, Requests, Passed, Carried
        <5>3. table[n][b] \in Lists
          BY <5>1 DEF TypeOK
        <5>4. c \in Lists
          BY <5>2, <5>3, UpdatedIs
        <5>5. table' = [table EXCEPT ![n] = [table[n] EXCEPT ![b] = c]]
          BY <2>1, <4>1 DEF Works, Asks
        <5> HIDE DEF b, c
        <5>6. [table[n] EXCEPT ![b] = c] \in [Buckets -> Lists]
          BY <5>1, <5>4 DEF TypeOK
        <5> QED BY <5>5, <5>6 DEF TypeOK
      <4>2. CASE ~Handled(n, m)
        BY <2>1, <4>2 DEF Works, Asks, TypeOK
      <4> QED BY <4>1, <4>2
    <3>5. answer' \in [Clients -> Answers]
      <4>1. CASE Handled(n, m)
        <5>1. convertToClientCommand(Out(n, m).cmd) \in
                {"SET", "GET", "DEL", "OK!", "NOF", "VAL"}
          BY <2>1, Commands DEF Replies, Back
        <5>2. Out(n, m).value \in Values \cup {0}
          BY <2>1, OutIs
        <5>3. [cmd |-> convertToClientCommand(Out(n, m).cmd), key |-> m.key,
               value |-> Out(n, m).value] \in Answers
          BY <3>1, <5>1, <5>2 DEF Answers
        <5> QED BY <2>1, <3>1, <4>1, <5>3 DEF Works, Asks, TypeOK
      <4>2. CASE ~Handled(n, m)
        BY <2>1, <4>2 DEF Works, Asks, TypeOK
      <4> QED BY <4>1, <4>2
    <3> QED BY <2>1, <3>2, <3>3, <3>4, <3>5 DEF TypeOK, Works, clientVars
  <2>2. CASE m \in Requests /\ OverrunSlots(n, m)
    BY <2>2 DEF TypeOK, OverrunSlots, clientVars
  <2>3. CASE m \in Searches /\ Searched(n, m)
    <3>1. /\ [kind |-> "internal", to |-> Succ(n), cmd |-> "xad", key |-> 1,
              value |-> 0, origin |-> m.origin] \in Searches
          /\ [kind |-> "internal", to |-> m.origin, cmd |-> "xad", key |-> 0,
              value |-> 0, origin |-> n] \in Searches
          /\ m.origin \in Nodes
      BY <2>3, SuccIs DEF Searches
    <3> QED BY <2>3, <3>1 DEF Searched, TypeOK, clientVars
  <2> QED BY <1>3, <2>1, <2>2, <2>3, NodeStep
<1>4. ASSUME NEW m \in net, NEW c \in Clients, Receive(c, m)
      PROVE  TypeOK'
  <2>1. m \in Replies
    BY <1>4 DEF Receive, TypeOK, Requests, Passed, Searches
  <2>2. [cmd |-> m.cmd, key |-> m.key, value |-> m.value] \in Answers /\ Idle \in Answers
    BY <2>1 DEF Replies, Answers, Idle
  <2> QED BY <1>4, <2>2 DEF Receive, TypeOK, nodeVars
<1>5. ASSUME NEW m \in net, Lose(m)
      PROVE  TypeOK'
  BY <1>5 DEF Lose, TypeOK, nodeVars, clientVars
<1>6. ASSUME NEW c \in Clients, NEW n \in Nodes, NEW q \in Calls, Send(c, n, q)
      PROVE  TypeOK'
  <2>1. Datagram("client", n, q, c) \in Requests
    BY DEF Datagram, Calls, Requests
  <2> QED BY <1>6, <2>1 DEF Send, TypeOK, nodeVars
<1>7. CASE UNCHANGED vars
  BY <1>7 DEF vars, nodeVars, clientVars, TypeOK
<1> QED BY <1>2, <1>3, <1>4, <1>5, <1>6, <1>7 DEF Next

------------------------------------------------------------------------------
(* Requests, slots and replies *)

\* A step that touches no datagram, slot or call of a client leaves it tracked.
LEMMA Untouched ==
  ASSUME NEW c \in Clients, Tracked(c), entry[c] \in Nodes,
         DatagramsOf(c)' = DatagramsOf(c),
         \A n \in Nodes : \A i \in SlotIds :
           /\ Holds(c, n, i)' <=> Holds(c, n, i)
           /\ Holds(c, n, i) => slots'[n][i].key = slots[n][i].key,
         call'[c] = call[c], entry'[c] = entry[c]
  PROVE  Tracked(c)'
<1>1. \A m, mm \in DatagramsOf(c)' : m = mm
  BY DEF Tracked
<1>2. \A n \in Nodes : \A i, j \in SlotIds :
        Holds(c, n, i)' /\ Holds(c, n, j)' => i = j
  BY DEF Tracked
<1>3. \A n \in Nodes : \A i \in SlotIds :
        Holds(c, n, i)' => /\ call'[c] # Idle
                           /\ n = entry'[c]
                           /\ slots'[n][i].key = call'[c].key
  BY DEF Tracked
<1>4. \A i \in SlotIds : Holds(c, entry[c], i)' <=> Holds(c, entry[c], i)
  BY DEF Holds
<1>5. \A m \in DatagramsOf(c)' :
        /\ call'[c] # Idle
        /\ m.key = call'[c].key
        /\ m.kind = "internal" <=> \E i \in SlotIds : Holds(c, entry[c], i)'
        /\ m.kind = "client" => m.to = entry'[c]
        /\ m.kind = "reply" => m.to = c
  BY <1>4 DEF Tracked
<1> QED BY <1>1, <1>2, <1>3, <1>5 DEF Tracked

\* The datagrams of the clients after one has been taken from the network and
\* another one, if any, put there.
LEMMA Exchanged ==
  ASSUME NEW m, NEW S, net' = (net \ {m}) \cup S, \A mm \in S : mm.origin = m.origin,
         NEW c
  PROVE  /\ c # m.origin => DatagramsOf(c)' = DatagramsOf(c)
         /\ c = m.origin => DatagramsOf(c)' = (DatagramsOf(c) \ {m}) \cup S
BY DEF DatagramsOf

\* A node that works on a request or a query keeps every client tracked.
LEMMA WorksTracked ==
  ASSUME TypeOK, AllTracked, NEW n \in Nodes, NEW m \in net, m \in Requests \cup Passed,
         Works(n, m)
  PROVE  AllTracked'
<1> DEFINE o == m.origin
           e == entry[o]
           new == [key |-> m.key, client |-> o]
           sl == Admitted(n, m)
           Slot(nn, i) == IF nn = n THEN sl[i] ELSE slots[nn][i]
           Has(s) == s # Free /\ s.client = o
<1>1. /\ o \in Clients /\ e \in Nodes /\ m.to = n /\ m.kind \in {"client", "internal"}
      /\ UNCHANGED <<call, entry>>
      /\ m \in DatagramsOf(o)
      /\ new # Free /\ m.key \in Keys
  BY Numbers DEF TypeOK, Requests, Passed, Works, clientVars, DatagramsOf, Free
<1>2. Tracked(o) /\ DatagramsOf(o) = {m}
  BY <1>1 DEF AllTracked, Tracked
<1>3. /\ call[o] # Idle
      /\ m.key = call[o].key
      /\ m.kind = "internal" <=> \E i \in SlotIds : Has(slots[e][i])
      /\ m.kind = "client" => n = e
      /\ \A nn \in Nodes : \A i \in SlotIds : Has(slots[nn][i]) =>
           nn = e /\ slots[nn][i].key = m.key
      /\ \A i, j \in SlotIds : Has(slots[e][i]) /\ Has(slots[e][j]) => i = j
  BY <1>1, <1>2 DEF Tracked, Holds
<1>4. slots[n] \in [SlotIds -> Slots] /\ slots \in [Nodes -> [SlotIds -> Slots]]
  BY DEF TypeOK
<1>5. sl \in [SlotIds -> Slots]
  BY AdmittedIs
\* once the request has been let in, its client has one slot; the others keep theirs
<1>6. /\ \A i \in SlotIds : sl[i] = slots[n][i] \/ (slots[n][i] = Free /\ sl[i] = new)
      /\ \E h \in SlotIds :
           /\ Has(Slot(e, h)) /\ Slot(e, h).key = m.key
           /\ \A nn \in Nodes : \A i \in SlotIds : Has(Slot(nn, i)) => nn = e /\ i = h
  <2>1. CASE m.kind = "client"
    <3> DEFINE f == nextFreeRequestId(slots[n])
    <3>1. f \in SlotIds /\ slots[n][f] = Free
      BY <2>1, SlotFound DEF Works
    <3>2. sl = [slots[n] EXCEPT ![f] = new]
      BY <2>1 DEF Admitted
    <3> HIDE DEF f, sl, o, e
    <3>3. \A i \in SlotIds : sl[i] = IF i = f THEN new ELSE slots[n][i]
      BY <1>4, <3>1, <3>2
    <3>4. \A nn \in Nodes : \A i \in SlotIds : ~Has(slots[nn][i])
      BY <1>3, <2>1
    <3>5. Has(new) /\ new.key = m.key
      BY <1>1
    <3> HIDE DEF new, Has
    <3>6. \A nn \in Nodes : \A i \in SlotIds : Has(Slot(nn, i)) => nn = n /\ i = f
      BY <3>3, <3>4
    <3>7. Slot(e, f) = new /\ n = e
      BY <1>3, <2>1, <3>1, <3>3
    <3> QED BY <3>1, <3>3, <3>5, <3>6, <3>7
  <2>2. CASE m.kind = "internal"
    <3>1. sl = slots[n]
      BY <2>2 DEF Admitted
    <3> HIDE DEF sl, o, e
    <3>2. \A nn \in Nodes : \A i \in SlotIds : Slot(nn, i) = slots[nn][i]
      BY <3>1
    <3> QED BY <1>1, <1>3, <2>2, <3>1, <3>2
  <2> QED BY <1>1, <2>1, <2>2
<1>7. PICK h \in SlotIds :
           /\ Has(Slot(e, h)) /\ Slot(e, h).key = m.key
           /\ \A nn \in Nodes : \A i \in SlotIds : Has(Slot(nn, i)) => nn = e /\ i = h
  BY <1>6
\* forwarded: the client keeps its slot, and may have a datagram inside the ring
<1>8. CASE Forwards(n, m)
  <2> DEFINE S == IF NextHop(n, m.key) = NoAddress THEN {} ELSE {Onward(n, m)}
  <2>1. \A mm \in S : mm.origin = o /\ mm.kind = "internal" /\ mm.key = m.key
    BY DEF Onward
  <2>2. net' = (net \ {m}) \cup S
    BY <1>8 DEF Forwards
  <2>3. \A nn \in Nodes : \A i \in SlotIds : slots'[nn][i] = Slot(nn, i)
    BY <1>4, <1>8 DEF Forwards
  <2>4. \A x, y \in S : x = y
    OBVIOUS
  <2> HIDE DEF S
  <2>5. Tracked(o)'
    <3>1. DatagramsOf(o)' \subseteq S
      BY <1>2, <2>1, <2>2, Exchanged
    <3> HIDE DEF sl, o, e, Slot
    <3>2. \A nn \in Nodes : \A i \in SlotIds :
            Holds(o, nn, i)' <=> Has(Slot(nn, i))
      BY <2>3 DEF Holds
    <3>3. call'[o] # Idle /\ call'[o].key = m.key /\ entry'[o] = e
      BY <1>1, <1>3 DEF e
    <3>4. \A i \in SlotIds : Holds(o, entry[o], i)' <=> Has(Slot(e, i))
      BY <1>1, <2>3, <3>3 DEF Holds
    <3> HIDE DEF Has
    <3>5. \E i \in SlotIds : Holds(o, entry[o], i)'
      BY <1>7, <3>4
    <3>6. \A x \in DatagramsOf(o)' :
            x.key = m.key /\ x.kind = "internal"
      BY <2>1, <3>1
    <3>7. \A nn \in Nodes : \A i \in SlotIds : Holds(o, nn, i)' =>
            nn = e /\ i = h /\ slots'[nn][i].key = m.key
      BY <1>1, <1>7, <2>3, <3>2
    <3>8. \A x, y \in DatagramsOf(o)' : x = y
      BY <2>4, <3>1
    <3> QED BY <3>3, <3>5, <3>6, <3>7, <3>8 DEF Tracked
  <2>6. ASSUME NEW c \in Clients, c # o
        PROVE  Tracked(c)'
    <3>1. DatagramsOf(c)' = DatagramsOf(c)
      BY <2>1, <2>2, <2>6, Exchanged
    <3> HIDE DEF sl, o, e, Slot
    <3>2. \A nn \in Nodes : \A i \in SlotIds :
            slots'[nn][i] # slots[nn][i] => slots'[nn][i].client = o /\ slots[nn][i] = Free
      BY <1>6, <2>3 DEF Slot
    <3>3. \A nn \in Nodes : \A i \in SlotIds :
            /\ Holds(c, nn, i)' <=> Holds(c, nn, i)
            /\ Holds(c, nn, i) => slots'[nn][i].key = slots[nn][i].key
      BY <2>6, <3>2 DEF Holds
    <3>4. Tracked(c) /\ entry[c] \in Nodes /\ call'[c] = call[c] /\ entry'[c] = entry[c]
      BY <1>1 DEF AllTracked, TypeOK
    <3> QED BY <3>1, <3>3, <3>4, Untouched
  <2> QED BY <2>5, <2>6 DEF AllTracked
\* returned: the slot is free again, and the reply on its way
<1>9. ASSUME NEW r \in SlotIds, Returns(n, m, r)
      PROVE  AllTracked'
  <2>1. /\ Back(n, m).origin = o /\ Back(n, m).to = o /\ Back(n, m).kind = "reply"
        /\ Back(n, m).key = m.key
    BY DEF Back
  <2> DEFINE S == {Back(n, m)}
  <2>2. net' = (net \ {m}) \cup S /\ \A mm \in S : mm.origin = m.origin
    BY <1>9, <2>1 DEF Returns
  <2>3. Back(n, m) \in S /\ \A x \in S : x = Back(n, m)
    OBVIOUS
  <2> HIDE DEF S
  <2>4. \A nn \in Nodes : \A i \in SlotIds :
          slots'[nn][i] = IF nn = n /\ i = r THEN Free ELSE Slot(nn, i)
    <3> DEFINE freed == [sl EXCEPT ![r] = Free]
    <3>1. slots' = [slots EXCEPT ![n] = freed]
      BY <1>9 DEF Returns
    <3>2. \A i \in SlotIds : freed[i] = IF i = r THEN Free ELSE sl[i]
      BY <1>5
    <3> HIDE DEF freed, sl
    <3> QED BY <1>4, <3>1, <3>2
  <2>5. n = e /\ r = h
    <3>1. Has(Slot(n, r))
      BY <1>9 DEF Returns
    <3> QED BY <1>7, <3>1
  <2>6. Tracked(o)'
    <3>1. DatagramsOf(o)' \subseteq S
      BY <1>2, <2>2, Exchanged
    <3> HIDE DEF sl, o, e, Slot
    <3>2. \A nn \in Nodes : \A i \in SlotIds : ~Holds(o, nn, i)'
      BY <1>7, <2>4, <2>5 DEF Holds
    <3>3. call'[o] # Idle /\ call'[o].key = m.key /\ entry'[o] = e
      BY <1>1, <1>3 DEF e
    <3>4. \A i \in SlotIds : ~Holds(o, entry[o], i)'
      BY <1>1, <1>7, <2>4, <2>5, <3>3 DEF Holds
    <3>5. \A x \in DatagramsOf(o)' : x = Back(n, m)
      BY <2>3, <3>1
    <3> QED BY <2>1, <3>2, <3>3, <3>4, <3>5 DEF Tracked
  <2>7. ASSUME NEW c \in Clients, c # o
        PROVE  Tracked(c)'
    <3>1. DatagramsOf(c)' = DatagramsOf(c)
      BY <2>2, <2>7, Exchanged
    <3> HIDE DEF sl, o, e, Slot
    <3>2. \A nn \in Nodes : \A i \in SlotIds :
            \/ slots'[nn][i] = slots[nn][i]
            \/ /\ slots'[nn][i] = Free \/ slots'[nn][i].client = o
               /\ slots[nn][i] = Free \/ slots[nn][i].client = o
      <4>1. sl[r].client = o
        BY <1>9 DEF Returns, sl, o
      <4> QED BY <1>6, <2>4, <4>1 DEF Slot
    <3>3. \A nn \in Nodes : \A i \in SlotIds :
            /\ Holds(c, nn, i)' <=> Holds(c, nn, i)
            /\ Holds(c, nn, i) => slots'[nn][i].key = slots[nn][i].key
      BY <2>7, <3>2 DEF Holds
    <3>4. Tracked(c) /\ entry[c] \in Nodes /\ call'[c] = call[c] /\ entry'[c] = entry[c]
      BY <1>1 DEF AllTracked, TypeOK
    <3> QED BY <3>1, <3>3, <3>4, Untouched
  <2> QED BY <2>6, <2>7 DEF AllTracked
<1> QED BY <1>8, <1>9 DEF Works

\* A datagram that is lost, or read without effect, leaves every client tracked.
LEMMA Vanished ==
  ASSUME TypeOK, AllTracked, net' \subseteq net, UNCHANGED <<slots, call, entry>>
  PROVE  AllTracked'
<1>1. SUFFICES ASSUME NEW c \in Clients PROVE Tracked(c)'
  BY DEF AllTracked
<1>2. DatagramsOf(c)' \subseteq DatagramsOf(c)
  BY DEF DatagramsOf
<1>3. \A n \in Nodes : \A i \in SlotIds : Holds(c, n, i)' <=> Holds(c, n, i)
  BY DEF Holds
<1>4. \A i \in SlotIds : Holds(c, entry[c], i)' <=> Holds(c, entry[c], i)
  BY DEF Holds
<1>5. Tracked(c)
  BY DEF AllTracked
<1>6. /\ \A m, mm \in DatagramsOf(c)' : m = mm
      /\ \A n \in Nodes : \A i, j \in SlotIds :
           Holds(c, n, i)' /\ Holds(c, n, j)' => i = j
      /\ \A n \in Nodes : \A i \in SlotIds :
           Holds(c, n, i)' => /\ call'[c] # Idle
                              /\ n = entry'[c]
                              /\ slots'[n][i].key = call'[c].key
  BY <1>2, <1>3, <1>5 DEF Tracked
<1>7. \A m \in DatagramsOf(c)' :
        /\ call'[c] # Idle
        /\ m.key = call'[c].key
        /\ m.kind = "internal" <=> \E i \in SlotIds : Holds(c, entry[c], i)'
        /\ m.kind = "client" => m.to = entry'[c]
        /\ m.kind = "reply" => m.to = c
  BY <1>2, <1>4, <1>5 DEF Tracked
<1> QED BY <1>6, <1>7 DEF Tracked

\* Every step keeps every client tracked.
LEMMA TrackedStep == TypeOK /\ AllTracked /\ [Next]_vars => AllTracked'
<1>1. SUFFICES ASSUME TypeOK, AllTracked, [Next]_vars PROVE AllTracked'
  OBVIOUS
<1> USE <1>1
\* the nodes' own datagrams are nobody's request
<1>2. ASSUME \A m \in net \ net' : m.origin \in Nodes,
             \A m \in net' \ net : m.origin \in Nodes,
             UNCHANGED <<slots, call, entry>>
      PROVE  AllTracked'
  <2>1. SUFFICES ASSUME NEW c \in Clients PROVE Tracked(c)'
    BY DEF AllTracked
  <2>2. DatagramsOf(c)' = DatagramsOf(c)
    BY <1>2, SuccIs DEF DatagramsOf
  <2>3. \A n \in Nodes : \A i \in SlotIds :
          /\ Holds(c, n, i)' <=> Holds(c, n, i)
          /\ Holds(c, n, i) => slots'[n][i].key = slots[n][i].key
    BY <1>2 DEF Holds
  <2>4. Tracked(c) /\ entry[c] \in Nodes /\ call'[c] = call[c] /\ entry'[c] = entry[c]
    BY <1>2 DEF AllTracked, TypeOK
  <2> QED BY <2>2, <2>3, <2>4, Untouched
<1>3. ASSUME NEW n \in Nodes, SetupFingerTable(n)
      PROVE  AllTracked'
  <2>1. /\ net' = net \cup {[kind |-> "internal", to |-> Succ(n), cmd |-> "xad",
                             key |-> 2, value |-> 0, origin |-> n]}
        /\ UNCHANGED <<slots, clientVars>>
    BY <1>3, SetupIs
  <2> QED BY <1>2, <2>1 DEF clientVars
<1>4. ASSUME NEW m \in net, NEW n \in Nodes, Step(n, m)
      PROVE  AllTracked'
  <2>1. CASE m \in Requests \cup Passed /\ Works(n, m)
    BY <2>1, WorksTracked
  <2>2. CASE m \in Requests /\ OverrunSlots(n, m)
    BY <2>2, Vanished DEF OverrunSlots, clientVars
  <2>3. CASE m \in Searches /\ Searched(n, m)
    <3>1. m.origin \in Nodes
      BY <2>3 DEF Searches
    <3> QED BY <1>2, <2>3, <3>1 DEF Searched, clientVars
  <2> QED BY <1>4, <2>1, <2>2, <2>3, NodeStep
<1>5. ASSUME NEW m \in net, NEW c \in Clients, Receive(c, m)
      PROVE  AllTracked'
  <2>1. m \in Replies
    BY <1>5 DEF Receive, TypeOK, Requests, Passed, Searches
  <2>2. m.origin \in Clients /\ m \in DatagramsOf(m.origin)
    BY <2>1 DEF Replies, DatagramsOf
  <2>3. m.origin = c
    BY <1>5, <2>2 DEF AllTracked, Tracked, Receive
  <2>4. DatagramsOf(c) = {m} /\ Tracked(c)
    BY <2>2, <2>3 DEF AllTracked, Tracked
  <2>5. net' = (net \ {m}) /\ UNCHANGED <<slots, entry>>
    BY <1>5 DEF Receive, nodeVars
  <2>6. \A n \in Nodes : \A i \in SlotIds : ~Holds(c, n, i)
    <3>1. m.kind # "internal"
      BY <1>5 DEF Receive
    <3> QED BY <2>4, <3>1 DEF Tracked
  <2>7. Tracked(c)'
    <3>1. DatagramsOf(c)' = {}
      BY <2>4, <2>5 DEF DatagramsOf
    <3>2. \A n \in Nodes : \A i \in SlotIds : ~Holds(c, n, i)'
      BY <2>5, <2>6 DEF Holds
    <3> QED BY <3>1, <3>2 DEF Tracked
  <2>8. ASSUME NEW d \in Clients, d # c
        PROVE  Tracked(d)'
    <3>1. DatagramsOf(d)' = DatagramsOf(d)
      BY <2>3, <2>5, <2>8 DEF DatagramsOf
    <3>2. \A n \in Nodes : \A i \in SlotIds :
            /\ Holds(d, n, i)' <=> Holds(d, n, i)
            /\ Holds(d, n, i) => slots'[n][i].key = slots[n][i].key
      BY <2>5 DEF Holds
    <3>3. Tracked(d) /\ entry[d] \in Nodes /\ call'[d] = call[d] /\ entry'[d] = entry[d]
      BY <1>5, <2>5, <2>8 DEF AllTracked, TypeOK, Receive
    <3> QED BY <3>1, <3>2, <3>3, Untouched
  <2> QED BY <2>7, <2>8 DEF AllTracked
<1>6. ASSUME NEW m \in net, Lose(m)
      PROVE  AllTracked'
  BY <1>6, Vanished DEF Lose, nodeVars, clientVars
<1>7. ASSUME NEW c \in Clients, NEW n \in Nodes, NEW q \in Calls, Send(c, n, q)
      PROVE  AllTracked'
  <2> DEFINE r == Datagram("client", n, q, c)
  <2>1. r.kind = "client" /\ r.to = n /\ r.key = q.key /\ r.origin = c
    BY DEF Datagram
  <2>2. net' = net \cup {r} /\ UNCHANGED slots
    BY <1>7 DEF Send, nodeVars
  <2> HIDE DEF r
  <2>3. Tracked(c) /\ call[c] = Idle
    BY <1>7 DEF Send, AllTracked
  <2>4. DatagramsOf(c) = {} /\ \A nn \in Nodes : \A i \in SlotIds : ~Holds(c, nn, i)
    BY <2>3 DEF Tracked
  <2>5. call'[c] = q /\ q # Idle /\ entry'[c] = n
    BY <1>7 DEF Send, TypeOK, Calls, Idle
  <2>6. Tracked(c)'
    <3>1. \A x \in DatagramsOf(c)' : x = r
      BY <2>2, <2>4 DEF DatagramsOf
    <3>2. \A nn \in Nodes : \A i \in SlotIds : ~Holds(c, nn, i)'
      BY <2>2, <2>4 DEF Holds
    <3>3. \A i \in SlotIds : ~Holds(c, entry[c], i)'
      BY <2>2, <2>4, <2>5 DEF Holds
    <3> QED BY <2>1, <2>5, <3>1, <3>2, <3>3 DEF Tracked
  <2>7. ASSUME NEW d \in Clients, d # c
        PROVE  Tracked(d)'
    <3>1. DatagramsOf(d)' = DatagramsOf(d)
      BY <2>1, <2>2, <2>7 DEF DatagramsOf
    <3>2. \A nn \in Nodes : \A i \in SlotIds :
            /\ Holds(d, nn, i)' <=> Holds(d, nn, i)
            /\ Holds(d, nn, i) => slots'[nn][i].key = slots[nn][i].key
      BY <2>2 DEF Holds
    <3>3. Tracked(d) /\ entry[d] \in Nodes /\ call'[d] = call[d] /\ entry'[d] = entry[d]
      BY <1>7, <2>7 DEF AllTracked, TypeOK, Send
    <3> QED BY <3>1, <3>2, <3>3, Untouched
  <2> QED BY <2>6, <2>7 DEF AllTracked
<1>8. CASE UNCHANGED vars
  BY <1>8, Vanished DEF vars, nodeVars, clientVars
<1> QED BY <1>3, <1>4, <1>5, <1>6, <1>7, <1>8 DEF Next

\* Types and tracking hold together, in every state.
LEMMA TrackedAlways == Spec => [](TypeOK /\ AllTracked)
<1>1. Init => AllTracked
  BY DEF Init, Blank, AllTracked, Tracked, DatagramsOf, Holds
<1> QED BY <1>1, TypeInit, TypeStep, TrackedStep, PTL DEF Spec

\* Whatever the nodes and clients do, and whatever is lost, a blocked client has at
\* most one datagram in the cluster and one slot, at its entry node, and an idle
\* client has neither: no reply and no slot outlives its call.
THEOREM NoStaleReply == Spec => []RequestTracked
<1>1. AllTracked => RequestTracked
  BY DEF AllTracked, Tracked, RequestTracked, OneDatagram, OneSlot, DatagramsTracked,
     SlotsTracked
<1> QED BY <1>1, TrackedAlways, PTL

------------------------------------------------------------------------------
(* Short cuts *)

\* Every step of a search goes where it should.
LEMMA FingersStep ==
  TypeOK /\ SearchesRight /\ FingersRight /\ [Next]_vars => SearchesRight' /\ FingersRight'
<1>1. SUFFICES ASSUME TypeOK, SearchesRight, FingersRight, [Next]_vars
               PROVE  SearchesRight' /\ FingersRight'
  OBVIOUS
<1> USE <1>1
<1> DEFINE Right(x) == /\ x.key = 2 => x.to = Succ(x.origin)
                       /\ x.key = 1 => x.to = Succ(Succ(x.origin))
                       /\ x.key = 0 => x.origin = Succ(Succ(x.to))
<1>2. ASSUME \A x \in net' \ net : x \in Searches => Right(x), UNCHANGED finger
      PROVE  SearchesRight' /\ FingersRight'
  BY <1>2 DEF SearchesRight, FingersRight
<1>3. ASSUME NEW n \in Nodes, SetupFingerTable(n)
      PROVE  SearchesRight' /\ FingersRight'
  <2> DEFINE x == [kind |-> "internal", to |-> Succ(n), cmd |-> "xad",
                   key |-> 2, value |-> 0, origin |-> n]
  <2>1. net' = net \cup {x} /\ UNCHANGED finger
    BY <1>3, SetupIs
  <2>2. Right(x)
    OBVIOUS
  <2> HIDE DEF x, Right
  <2> QED BY <1>2, <2>1, <2>2
<1>4. ASSUME NEW m \in net, NEW n \in Nodes, Step(n, m)
      PROVE  SearchesRight' /\ FingersRight'
  <2>1. CASE m \in Requests \cup Passed /\ Works(n, m)
    <3>1. Back(n, m) \notin Searches
      BY DEF Back, Searches
    <3>2. Onward(n, m).cmd # "xad" \/ NextHop(n, m.key) = NoAddress
      BY <2>1, Commands DEF Passed
    <3>3. \A x \in net' \ net : x \notin Searches
      BY <2>1, <3>1, <3>2 DEF Works, Forwards, Returns, Searches
    <3> QED BY <1>2, <2>1, <3>3 DEF Works
  <2>2. CASE m \in Requests /\ OverrunSlots(n, m)
    BY <1>2, <2>2 DEF OverrunSlots
  <2>3. CASE m \in Searches /\ Searched(n, m)
    <3>1. Right(m) /\ m.to = n /\ m.origin \in Nodes
      BY <2>3 DEF SearchesRight, Searched, Searches
    <3>2. CASE /\ m.key = 2
               /\ net' = (net \ {m}) \cup
                    {[kind |-> "internal", to |-> Succ(n), cmd |-> "xad", key |-> 1,
                      value |-> 0, origin |-> m.origin]}
               /\ UNCHANGED finger
      <4> DEFINE x == [kind |-> "internal", to |-> Succ(n), cmd |-> "xad", key |-> 1,
                       value |-> 0, origin |-> m.origin]
      <4>1. Right(x)
        BY <3>1, <3>2
      <4> HIDE DEF Right
      <4> QED BY <1>2, <3>2, <4>1
    <3>3. CASE /\ m.key = 1
               /\ net' = (net \ {m}) \cup
                    {[kind |-> "internal", to |-> m.origin, cmd |-> "xad", key |-> 0,
                      value |-> 0, origin |-> n]}
               /\ UNCHANGED finger
      <4> DEFINE x == [kind |-> "internal", to |-> m.origin, cmd |-> "xad", key |-> 0,
                       value |-> 0, origin |-> n]
      <4>1. Right(x)
        BY <3>1, <3>3
      <4> HIDE DEF Right
      <4> QED BY <1>2, <3>3, <4>1
    <3>4. CASE m.key = 0 /\ net' = net \ {m} /\ finger' = [finger EXCEPT ![n] = m.origin]
      <4>1. m.origin = Succ(Succ(n))
        BY <3>1, <3>4
      <4>2. FingersRight'
        BY <3>4, <4>1 DEF FingersRight, TypeOK
      <4>3. SearchesRight'
        BY <3>4 DEF SearchesRight
      <4> QED BY <4>2, <4>3
    <3> QED BY <2>3, <3>2, <3>3, <3>4 DEF Searched
  <2> QED BY <1>4, <2>1, <2>2, <2>3, NodeStep
<1>5. ASSUME NEW m \in net, NEW c \in Clients, Receive(c, m)
      PROVE  SearchesRight' /\ FingersRight'
  BY <1>2, <1>5 DEF Receive, nodeVars
<1>6. ASSUME NEW m \in net, Lose(m)
      PROVE  SearchesRight' /\ FingersRight'
  BY <1>2, <1>6 DEF Lose, nodeVars
<1>7. ASSUME NEW c \in Clients, NEW n \in Nodes, NEW q \in Calls, Send(c, n, q)
      PROVE  SearchesRight' /\ FingersRight'
  <2>1. Datagram("client", n, q, c) \notin Searches
    BY DEF Datagram, Searches
  <2> QED BY <1>2, <1>7, <2>1 DEF Send, nodeVars
<1>8. CASE UNCHANGED vars
  BY <1>2, <1>8 DEF vars, nodeVars
<1> QED BY <1>3, <1>4, <1>5, <1>6, <1>7, <1>8 DEF Next

\* Types and fingers are kept together.
LEMMA FingersKept == Spec => [](TypeOK /\ FingersRight)
<1>1. Init => SearchesRight /\ FingersRight
  BY DEF Init, Blank, SearchesRight, FingersRight
<1> QED BY <1>1, TypeInit, TypeStep, FingersStep, PTL DEF Spec

------------------------------------------------------------------------------
(* Routing *)

\* The distance to node o, counted along the ring, shrinks by one with every hop.
LEMMA Closer ==
  ASSUME NEW o \in Nodes, NEW n \in Nodes, n # o
  PROVE  /\ (o + NumNodes - Succ(n)) % NumNodes = ((o + NumNodes - n) % NumNodes) - 1
         /\ (o + NumNodes - n) % NumNodes \in 1..(NumNodes - 1)
         /\ (o + NumNodes - o) % NumNodes = 0
<1>1. PICK N \in Nat \ {0} : N = NumNodes
  BY DHTAssumption
<1>2. o \in 0..(N - 1) /\ n \in 0..(N - 1)
  BY <1>1 DEF Nodes
<1>3. \A x \in 0..(N - 1) : x % N = x
  OBVIOUS
<1>4. \A x \in N..(2 * N - 1) : x % N = x - N
  OBVIOUS
<1>5. N % N = 0
  BY <1>4
<1>6. Succ(n) = IF n = N - 1 THEN 0 ELSE n + 1
  <2>1. CASE n = N - 1
    BY <1>1, <1>2, <1>5, <2>1 DEF Succ
  <2>2. CASE n # N - 1
    <3>1. n + 1 \in 0..(N - 1)
      BY <1>2, <2>2
    <3>2. (n + 1) % N = n + 1
      BY <1>3, <3>1
    <3> QED BY <1>1, <2>2, <3>2 DEF Succ
  <2> QED BY <2>1, <2>2
<1>7. ASSUME NEW x \in 0..(N - 1)
      PROVE  (o + N - x) % N = IF x <= o THEN o - x ELSE o + N - x
  <2>1. CASE x <= o
    <3>1. o + N - x \in N..(2 * N - 1)
      BY <1>2, <2>1
    <3>2. (o + N - x) % N = (o + N - x) - N
      BY <1>4, <3>1
    <3> QED BY <1>2, <2>1, <3>2
  <2>2. CASE ~(x <= o)
    <3>1. o + N - x \in 0..(N - 1)
      BY <1>2, <2>2
    <3> QED BY <1>3, <2>2, <3>1
  <2> QED BY <2>1, <2>2
<1>8. Succ(n) \in 0..(N - 1)
  BY <1>2, <1>6
<1>9. (o + N - Succ(n)) % N = IF Succ(n) <= o THEN o - Succ(n) ELSE o + N - Succ(n)
  BY <1>7, <1>8
<1>10. (o + N - n) % N = IF n <= o THEN o - n ELSE o + N - n
  BY <1>2, <1>7
<1>11. (o + N - o) % N = 0
  BY <1>2, <1>7
<1>12. (o + N - Succ(n)) % N = ((o + N - n) % N) - 1
  BY <1>2, <1>6, <1>9, <1>10
<1>13. (o + N - n) % N \in 1..(N - 1)
  BY <1>2, <1>10
<1> QED BY <1>1, <1>11, <1>12, <1>13

\* The owner of a key, if it has one, is a node that handles it.
LEMMA OwnerIs ==
  ASSUME NEW key, Owners(key) # {}
  PROVE  Owner(key) \in Nodes /\ canHandleQueryLocally(Owner(key), key)
BY DEF Owners, Owner

\* A distance is a number.
LEMMA DistanceIs ==
  ASSUME NEW n \in Nodes, NEW key, Owners(key) # {}
  PROVE  Distance(n, key) \in Nat
<1>1. Owner(key) \in Nodes
  BY OwnerIs
<1>2. NumNodes \in Nat \ {0}
  BY DHTAssumption
<1>3. PICK x \in Nat : x = Owner(key) + NumNodes - n
  BY <1>1, <1>2 DEF Nodes
<1> QED BY <1>2, <1>3 DEF Distance

\* A query that is passed on comes nearer to the node with its key.
LEMMA HopNearer ==
  ASSUME TypeOK, FingersRight, InRingOrder, NEW n \in Nodes, NEW key \in Keys,
         Owners(key) # {}, ~canHandleQueryLocally(n, key), NextHop(n, key) # NoAddress
  PROVE  /\ Distance(NextHop(n, key), key) < Distance(n, key)
         /\ Distance(NextHop(n, key), key) \in Nat
         /\ Distance(n, key) \in Nat
<1> DEFINE o == Owner(key)
           D(x) == (o + NumNodes - x) % NumNodes
<1>1. o \in Nodes /\ n # o
  BY OwnerIs
<1> HIDE DEF o
<1>2. D(Succ(n)) = D(n) - 1 /\ D(n) \in 1..(NumNodes - 1)
  BY <1>1, Closer
<1>3. CASE NextHop(n, key) = Succ(n)
  <2>1. D(Succ(n)) < D(n) /\ D(Succ(n)) \in Nat /\ D(n) \in Nat
    <3> HIDE DEF D
    <3> QED BY <1>2
  <2> QED BY <1>3, <2>1 DEF Distance, o
<1>4. CASE shouldFastForwardQuery(n, key)
  <2>1. NextHop(n, key) = Succ(Succ(n))
    BY <1>4 DEF NextHop, FingersRight
  <2>2. D(n) # 1
    <3>1. hashKey(n, key) \in 128..255
      <4>1. hashKey(n, key) \in Int
        BY Numbers, DHTAssumption DEF hashKey
      <4>. QED BY <1>4, <4>1 DEF shouldFastForwardQuery
    <3>. QED BY <3>1 DEF InRingOrder, Distance, o
  <2>3. D(o) = 0
    BY <1>1, Closer
  <2>4. Succ(n) # o
    <3> HIDE DEF D
    <3> QED BY <1>2, <2>2, <2>3
  <2>5. D(Succ(Succ(n))) = D(Succ(n)) - 1
    BY <1>1, <2>4, SuccIs, Closer
  <2>6. D(Succ(Succ(n))) < D(n) /\ D(Succ(Succ(n))) \in Nat /\ D(n) \in Nat
    <3> HIDE DEF D
    <3> QED BY <1>2, <2>2, <2>5
  <2> QED BY <2>1, <2>6 DEF Distance, o
<1> QED BY <1>3, <1>4 DEF NextHop

\* A query that takes a short cut comes nearer to the node with its key.
ShortCutsNearer ==
  \A n \in Nodes : \A key \in Keys :
    /\ shouldFastForwardQuery(n, key) /\ finger[n] # NoAddress
    /\ Owners(key) # {} /\ ~canHandleQueryLocally(n, key)
    => Distance(finger[n], key) < Distance(n, key)

\* Whatever the clients do meanwhile, and in whatever order the nodes start, a node
\* learns no other short cut than its successor's successor; and in a ring in the order
\* of its nodes, a query that takes it does not jump over the node with its key.
THEOREM ShortCutsRight ==
  /\ Spec => []FingersRight
  /\ InRingOrder => (Spec => []ShortCutsNearer)
<1>1. Spec => []FingersRight
  BY FingersKept, PTL
<1>2. ASSUME InRingOrder
      PROVE  Spec => []ShortCutsNearer
  <2>1. TypeOK /\ FingersRight => ShortCutsNearer
    <3>1. SUFFICES ASSUME TypeOK, FingersRight, NEW n \in Nodes, NEW key \in Keys,
                          shouldFastForwardQuery(n, key), finger[n] # NoAddress,
                          Owners(key) # {}, ~canHandleQueryLocally(n, key)
                   PROVE  Distance(finger[n], key) < Distance(n, key)
      BY DEF ShortCutsNearer
    <3>2. NextHop(n, key) = finger[n]
      BY <3>1 DEF NextHop
    <3> QED BY <1>2, <3>1, <3>2, HopNearer
  <2> QED BY <2>1, FingersKept, PTL
<1> QED BY <1>1, <1>2

\* what the routing of a ring keeps true
Routing ==
  /\ TypeOK
  /\ AllTracked
  /\ SearchesRight
  /\ FingersRight
  /\ Near
  /\ RepliesAreAnswers

\* A query that is passed on is nearer to its key than the node that let it in, and
\* what comes back to a client is an answer, unless no node has the key.
LEMMA WorksNear ==
  ASSUME Routing, InRingOrder, NEW n \in Nodes, NEW m \in net, m \in Requests \cup Passed,
         Works(n, m)
  PROVE  /\ Forwards(n, m) /\ NextHop(n, m.key) # NoAddress =>
              /\ Onward(n, m) \in Passed
              /\ IF isActiveQuery(Onward(n, m).cmd)
                 THEN Owners(m.key) # {} =>
                        /\ isActiveQuery(m.cmd)
                        /\ Distance(Onward(n, m).to, m.key) < Distance(n, m.key)
                        /\ Distance(Onward(n, m).to, m.key) <
                             Distance(entry[m.origin], m.key)
                 ELSE Owners(m.key) # {}
         /\ (\E i \in SlotIds : Returns(n, m, i)) /\ (m.kind = "client" => Handled(n, m))
            => (Owners(m.key) = {} <=> Back(n, m).cmd \in {"SET", "GET", "DEL"})
<1> USE DEF Routing
<1>1. /\ m.key \in Keys /\ m.origin \in Clients /\ m.to = n
      /\ m.kind = "client" <=> m \in Requests
      /\ m \in DatagramsOf(m.origin)
      /\ m \in Requests => isActiveQuery(m.cmd)
  BY DEF Requests, Passed, Works, DatagramsOf, isActiveQuery, isSetQuery, isGetQuery,
     isDelQuery
<1>2. Tracked(m.origin) /\ entry[m.origin] \in Nodes
  BY <1>1 DEF AllTracked, TypeOK
<1>3. ~isActiveQuery(m.cmd) => Owners(m.key) # {}
  BY <1>1 DEF Near
<1>4. Handled(n, m) => Owners(m.key) # {}
  BY DEF Handled, Owners
<1>5. /\ NextHop(n, m.key) # NoAddress => Onward(n, m) \in Passed
      /\ isActiveQuery(Onward(n, m).cmd) <=> isActiveQuery(m.cmd) /\ ~Handled(n, m)
      /\ Back(n, m).cmd \in {"SET", "GET", "DEL"} <=>
           isActiveQuery(m.cmd) /\ ~Handled(n, m)
  BY Commands
<1>6. ASSUME Owners(m.key) # {}, isActiveQuery(m.cmd), m \in Passed
      PROVE  Distance(n, m.key) < Distance(entry[m.origin], m.key)
  BY <1>1, <1>6 DEF Near
<1>7. ASSUME NextHop(n, m.key) # NoAddress, isActiveQuery(m.cmd), ~Handled(n, m),
             Owners(m.key) # {}
      PROVE  /\ Distance(Onward(n, m).to, m.key) < Distance(n, m.key)
             /\ Distance(Onward(n, m).to, m.key) < Distance(entry[m.origin], m.key)
  <2> DEFINE a == Distance(NextHop(n, m.key), m.key)
             b == Distance(n, m.key)
             c == Distance(entry[m.origin], m.key)
  <2>1. ~canHandleQueryLocally(n, m.key)
    BY <1>7 DEF Handled
  <2>2. a < b /\ a \in Nat /\ b \in Nat
    BY <1>1, <1>7, <2>1, HopNearer
  <2>3. b < c \/ b = c
    BY <1>1, <1>2, <1>6, <1>7 DEF Tracked
  <2>4. c \in Int
    BY <1>7, <1>2, OwnerIs, DistanceIs
  <2>5. Onward(n, m).to = NextHop(n, m.key)
    BY DEF Onward
  <2> HIDE DEF a, b, c
  <2>6. a < c
    BY <2>2, <2>3, <2>4
  <2> QED BY <2>2, <2>5, <2>6 DEF a, b, c
<1>8. ASSUME NEW i \in SlotIds, Returns(n, m, i), m.kind = "client" => Handled(n, m),
             isActiveQuery(m.cmd), ~Handled(n, m)
      PROVE  Owners(m.key) = {}
  <2>1. m \in Passed /\ m.kind # "client"
    BY <1>1, <1>8
  <2>2. Holds(m.origin, n, i)
    BY <1>8, <2>1 DEF Returns, Admitted, Holds
  <2>3. n = entry[m.origin]
    BY <1>2, <2>2 DEF Tracked
  <2>4. SUFFICES ASSUME Owners(m.key) # {} PROVE FALSE
    OBVIOUS
  <2>5. Distance(n, m.key) < Distance(n, m.key)
    BY <1>6, <1>8, <2>1, <2>3, <2>4
  <2>6. Distance(n, m.key) \in Int
    BY <2>4, DistanceIs
  <2> QED BY <2>5, <2>6
<1> QED BY <1>3, <1>4, <1>5, <1>7, <1>8 DEF Onward

\* Every step keeps the routing right.
LEMMA RoutingStep == InRingOrder /\ Routing /\ [Next]_vars => Routing'
<1>1. SUFFICES ASSUME InRingOrder, Routing, [Next]_vars PROVE Near' /\ RepliesAreAnswers'
  BY TypeStep, TrackedStep, FingersStep DEF Routing
<1> USE <1>1
<1> DEFINE NearTo(e, x) ==
             IF isActiveQuery(x.cmd)
             THEN Owners(x.key) # {}
                  => Distance(x.to, x.key) < Distance(e[x.origin], x.key)
             ELSE Owners(x.key) # {}
           Replied(x) ==
             IF Owners(x.key) = {} THEN x.cmd \in {"SET", "GET", "DEL"}
             ELSE x.cmd \in {"OK!", "NOF", "VAL"}
<1>2. ASSUME \A x \in net' \ net :
               /\ x \in Passed => NearTo(entry, x)
               /\ x.kind = "reply" => Replied(x),
             UNCHANGED entry
      PROVE  Near' /\ RepliesAreAnswers'
  BY <1>2 DEF Routing, Near, RepliesAreAnswers
<1>3. ASSUME NEW n \in Nodes, SetupFingerTable(n)
      PROVE  Near' /\ RepliesAreAnswers'
  <2> DEFINE x == [kind |-> "internal", to |-> Succ(n), cmd |-> "xad",
                   key |-> 2, value |-> 0, origin |-> n]
  <2>1. net' = net \cup {x} /\ UNCHANGED entry
    BY <1>3, SetupIs DEF Routing, clientVars
  <2>2. x \notin Passed /\ x.kind # "reply"
    BY DEF Passed
  <2> HIDE DEF x, NearTo, Replied
  <2> QED BY <1>2, <2>1, <2>2
<1>4. ASSUME NEW m \in net, NEW n \in Nodes, Step(n, m)
      PROVE  Near' /\ RepliesAreAnswers'
  <2>1. CASE m \in Requests \cup Passed /\ Works(n, m)
    <3>1. CASE Forwards(n, m)
      <4>1. NextHop(n, m.key) # NoAddress =>
              /\ Onward(n, m).key = m.key /\ Onward(n, m).origin = m.origin
              /\ Onward(n, m).kind = "internal"
              /\ NearTo(entry, Onward(n, m))
        <5>1. Onward(n, m).key = m.key /\ Onward(n, m).origin = m.origin
              /\ Onward(n, m).kind = "internal"
          BY DEF Onward
        <5> QED BY <2>1, <3>1, <5>1, WorksNear
      <4> HIDE DEF NearTo, Replied
      <4>2. \A x \in net' \ net : NearTo(entry, x) /\ x.kind # "reply"
        BY <3>1, <4>1 DEF Forwards
      <4> QED BY <1>2, <2>1, <4>2 DEF Works, clientVars
    <3>2. ASSUME NEW i \in SlotIds, Returns(n, m, i), m.kind = "client" => Handled(n, m)
          PROVE  Near' /\ RepliesAreAnswers'
      <4>1. Back(n, m) \notin Passed /\ Back(n, m).key = m.key
        BY DEF Back, Passed
      <4>2. Back(n, m) \in Replies
        BY <2>1, Commands DEF Routing
      <4>3. Replied(Back(n, m))
        BY <2>1, <3>2, <4>1, <4>2, WorksNear DEF Replies
      <4> HIDE DEF NearTo, Replied
      <4>4. \A x \in net' \ net : x \notin Passed /\ Replied(x)
        BY <3>2, <4>1, <4>3 DEF Returns
      <4> QED BY <1>2, <2>1, <4>4 DEF Works, clientVars
    <3> QED BY <2>1, <3>1, <3>2 DEF Works
  <2>2. CASE m \in Requests /\ OverrunSlots(n, m)
    BY <1>2, <2>2 DEF OverrunSlots, clientVars
  <2>3. CASE m \in Searches /\ Searched(n, m)
    <3>1. \A x \in net' \ net : x \notin Passed /\ x.kind # "reply"
      BY <2>3 DEF Searched, Passed
    <3> QED BY <1>2, <2>3, <3>1 DEF Searched, clientVars
  <2> QED BY <1>4, <2>1, <2>2, <2>3, NodeStep DEF Routing
<1>5. ASSUME NEW m \in net, NEW c \in Clients, Receive(c, m)
      PROVE  Near' /\ RepliesAreAnswers'
  BY <1>2, <1>5 DEF Receive
<1>6. ASSUME NEW m \in net, Lose(m)
      PROVE  Near' /\ RepliesAreAnswers'
  BY <1>2, <1>6 DEF Lose, clientVars
\* a client that sends a request has no query in the ring
<1>7. ASSUME NEW c \in Clients, NEW n \in Nodes, NEW q \in Calls, Send(c, n, q)
      PROVE  Near' /\ RepliesAreAnswers'
  <2>1. DatagramsOf(c) = {}
    BY <1>7 DEF Send, Routing, AllTracked, Tracked
  <2>2. \A x \in net \cap Passed : NearTo(entry, x) /\ entry'[x.origin] = entry[x.origin]
    BY <1>7, <2>1 DEF Send, Routing, Near, Passed, DatagramsOf, TypeOK
  <2>3. Datagram("client", n, q, c).kind = "client"
    BY DEF Datagram
  <2>4. \A x \in net' : x \notin net => x \notin Passed /\ x.kind # "reply"
    BY <1>7, <2>3 DEF Send, Passed
  <2>5. \A x \in net' \cap Passed : NearTo(entry', x)
    BY <2>2, <2>4
  <2> QED BY <2>4, <2>5 DEF Near, RepliesAreAnswers, Routing
<1>8. CASE UNCHANGED vars
  BY <1>2, <1>8 DEF vars, clientVars
<1> QED BY <1>3, <1>4, <1>5, <1>6, <1>7, <1>8 DEF Next

\* The first state has nothing to route.
LEMMA RoutingInit == Init => Routing
<1>1. SUFFICES ASSUME Init PROVE Routing
  OBVIOUS
<1>2. TypeOK
  BY <1>1, TypeInit
<1>3. net = {} /\ \A c \in Clients : call[c] = Idle
  BY <1>1 DEF Init, Blank
<1>4. AllTracked
  BY <1>1 DEF Init, Blank, AllTracked, Tracked, DatagramsOf, Holds
<1>5. FingersRight
  BY <1>1 DEF Init, FingersRight
<1> QED BY <1>2, <1>3, <1>4, <1>5 DEF Routing, SearchesRight, Near, RepliesAreAnswers

\* On a ring whose offsets grow, a reply is the answer of a table, whoever's short cut
\* is known or not; only when no node has the key does the client get its own request.
THEOREM RepliesRight ==
  ASSUME InRingOrder
  PROVE  Spec => []RepliesAreAnswers
<1>1. Routing /\ [Next]_vars => Routing'
  BY RoutingStep
<1>2. Routing => RepliesAreAnswers
  BY DEF Routing
<1> QED BY <1>1, <1>2, RoutingInit, PTL DEF Spec

\* On such a ring every hop of a query brings it nearer to the node with its key: no
\* short cut jumps over that node, and no query passes the node that let it in.
THEOREM QueriesApproach ==
  ASSUME InRingOrder
  PROVE  Spec => QueryApproaches
<1> DEFINE Approach ==
      \A c \in Clients : \A m \in DatagramsOf(c) : \A mm \in DatagramsOf(c)' :
        /\ m # mm
        /\ isActiveQuery(m.cmd)
        /\ isActiveQuery(mm.cmd)
        /\ Owners(m.key) # {}
        => Distance(mm.to, m.key) < Distance(m.to, m.key)
<1>1. Routing /\ [Next]_vars => [Approach]_vars
  <2>1. SUFFICES ASSUME Routing, Next,
                        NEW c \in Clients,
                        NEW m \in DatagramsOf(c), NEW mm \in DatagramsOf(c)',
                        m # mm,
                        isActiveQuery(m.cmd), isActiveQuery(mm.cmd), Owners(m.key) # {}
                 PROVE  Distance(mm.to, m.key) < Distance(m.to, m.key)
    OBVIOUS
  <2>2. /\ m \in net /\ m.origin = c /\ DatagramsOf(c) = {m}
        /\ mm \in net' /\ mm.origin = c /\ mm \notin net
    BY <2>1 DEF DatagramsOf, Routing, AllTracked, Tracked
  <2>3. ASSUME NEW n \in Nodes, SetupFingerTable(n)
        PROVE  FALSE
    <3>1. \A x \in net' \ net : x.origin = n
      BY <2>1, <2>3, SetupIs DEF Routing
    <3> QED BY <2>2, <3>1, SuccIs
  <2>4. ASSUME NEW x \in net, NEW n \in Nodes, Step(n, x)
        PROVE  Distance(mm.to, m.key) < Distance(m.to, m.key)
    <3>1. CASE x \in Requests \cup Passed /\ Works(n, x)
      <4>1. mm \in {Onward(n, x), Back(n, x)} /\ x.origin = c
        BY <2>2, <3>1 DEF Works, Forwards, Returns, Onward, Back
      <4>2. x = m /\ m.to = n
        BY <2>2, <3>1, <4>1 DEF DatagramsOf, Works
      <4>3. CASE Forwards(n, m) /\ NextHop(n, m.key) # NoAddress /\ mm = Onward(n, m)
        BY <2>1, <3>1, <4>2, <4>3, WorksNear
      <4>4. CASE /\ \E i \in SlotIds : Returns(n, m, i)
                 /\ m.kind = "client" => Handled(n, m)
                 /\ mm = Back(n, m)
        <5>1. mm \in Replies /\ mm.cmd \notin {"SET", "GET", "DEL"}
          BY <2>1, <3>1, <4>2, <4>4, WorksNear, Commands DEF Routing
        <5> QED BY <2>1, <5>1
                DEF Replies, isActiveQuery, isSetQuery, isGetQuery, isDelQuery
      <4> QED BY <2>2, <3>1, <4>2, <4>3, <4>4 DEF Works, Forwards, Returns
    <3>2. CASE x \in Requests /\ OverrunSlots(n, x)
      BY <2>2, <3>2 DEF OverrunSlots
    <3>3. CASE x \in Searches /\ Searched(n, x)
      <4>1. \A y \in net' \ net : y.origin \in Nodes
        BY <3>3 DEF Searched, Searches
      <4> QED BY <2>2, <4>1, SuccIs
    <3> QED BY <2>1, <2>4, <3>1, <3>2, <3>3, NodeStep DEF Routing
  <2>5. ASSUME NEW x \in net, NEW d \in Clients, Receive(d, x)
        PROVE  FALSE
    BY <2>2, <2>5 DEF Receive
  <2>6. ASSUME NEW x \in net, Lose(x)
        PROVE  FALSE
    BY <2>2, <2>6 DEF Lose
  <2>7. ASSUME NEW d \in Clients, NEW n \in Nodes, NEW q \in Calls, Send(d, n, q)
        PROVE  FALSE
    <3>1. mm = Datagram("client", n, q, d)
      BY <2>2, <2>7 DEF Send
    <3>2. d = c
      BY <2>2, <3>1 DEF Datagram
    <3>3. call[c] # Idle
      BY <2>1, <2>2 DEF Routing, AllTracked, Tracked
    <3> QED BY <2>7, <3>2, <3>3 DEF Send
  <2> QED BY <2>1, <2>3, <2>4, <2>5, <2>6, <2>7 DEF Next
<1>2. Routing /\ [Next]_vars => Routing'
  BY RoutingStep
<1> HIDE DEF Approach
<1>3. Spec => [][Approach]_vars
  BY <1>1, <1>2, RoutingInit, PTL DEF Spec
<1> QED BY <1>3 DEF Approach, QueryApproaches

------------------------------------------------------------------------------
(* Where answers get to *)

\* A hop leads to a node, and is the one a node sends a datagram on with.
LEMMA HopIs ==
  ASSUME NEW n \in Nodes, NEW key
  PROVE  /\ Hop(n, key) \in Nodes
         /\ FingersRight /\ NextHop(n, key) # NoAddress => NextHop(n, key) = Hop(n, key)
BY SuccIs DEF Hop, NextHop, FingersRight

\* A route begins with the first hop, and goes on with every other one.
LEMMA RouteIs ==
  ASSUME NEW n \in Nodes, NEW key
  PROVE  /\ Hop(n, key) \in Route(n, key)
         /\ \A x \in Route(n, key) : Hop(x, key) \in Route(n, key)
BY HopIs DEF Route

\* A query that no node can answer is on its way around the ring from the node that let
\* it in, and an answer from the node that gave it.
OnRoute ==
  \A m \in net \cap Passed :
    IF isActiveQuery(m.cmd)
    THEN Owners(m.key) = {} => m.to \in Route(entry[m.origin], m.key)
    ELSE m.to \in Route(Owner(m.key), m.key)

\* What a node passes on stays on its route, and what it gives back to a client was on
\* the route of an answer that can find its slot.
LEMMA WorksOnRoute ==
  ASSUME Routing, OnRoute, InRingOrder, OneOwner,
         NEW n \in Nodes, NEW m \in net, m \in Requests \cup Passed, Works(n, m)
  PROVE  /\ Forwards(n, m) /\ NextHop(n, m.key) # NoAddress =>
              IF isActiveQuery(Onward(n, m).cmd)
              THEN Owners(m.key) = {}
                     => NextHop(n, m.key) \in Route(entry[m.origin], m.key)
              ELSE NextHop(n, m.key) \in Route(Owner(m.key), m.key)
         /\ (\E i \in SlotIds : Returns(n, m, i)) /\ (m.kind = "client" => Handled(n, m))
            => Reachable(m.origin, entry[m.origin], m.key)
<1>1. /\ m.key \in Keys /\ m.origin \in Clients /\ m.to = n
      /\ m.kind = "client" <=> m \in Requests
      /\ m.kind = "internal" <=> m \in Passed
      /\ m \in DatagramsOf(m.origin)
      /\ m \in Requests => isActiveQuery(m.cmd)
  BY DEF Requests, Passed, Works, DatagramsOf, isActiveQuery, isSetQuery, isGetQuery,
     isDelQuery
<1>2. /\ TypeOK /\ FingersRight
      /\ Tracked(m.origin) /\ entry[m.origin] \in Nodes
  BY <1>1 DEF Routing, AllTracked, TypeOK
<1>3. /\ isActiveQuery(Onward(n, m).cmd) <=> isActiveQuery(m.cmd) /\ ~Handled(n, m)
      /\ Back(n, m).cmd \in {"SET", "GET", "DEL"} <=>
           isActiveQuery(m.cmd) /\ ~Handled(n, m)
  BY <1>2, Commands
<1>4. m \in Requests => n = entry[m.origin]
  BY <1>1, <1>2 DEF Tracked
<1>5. Handled(n, m) => canHandleQueryLocally(n, m.key) /\ n = Owner(m.key)
  <2>1. SUFFICES ASSUME Handled(n, m)
                 PROVE  canHandleQueryLocally(n, m.key) /\ n = Owner(m.key)
    OBVIOUS
  <2>2. canHandleQueryLocally(n, m.key) /\ n \in Owners(m.key)
    BY <2>1 DEF Handled, Owners
  <2>3. Owner(m.key) \in Owners(m.key)
    BY <2>2 DEF Owner
  <2> QED BY <1>1, <2>2, <2>3 DEF OneOwner
<1>6. ASSUME m \in Passed
      PROVE  IF isActiveQuery(m.cmd)
             THEN Owners(m.key) = {} => n \in Route(entry[m.origin], m.key)
             ELSE n \in Route(Owner(m.key), m.key) /\ Owners(m.key) # {}
  BY <1>1, <1>6 DEF OnRoute, Routing, Near
<1>7. ASSUME NextHop(n, m.key) # NoAddress
      PROVE  IF isActiveQuery(Onward(n, m).cmd)
             THEN Owners(m.key) = {}
                    => NextHop(n, m.key) \in Route(entry[m.origin], m.key)
             ELSE NextHop(n, m.key) \in Route(Owner(m.key), m.key)
  <2>1. NextHop(n, m.key) = Hop(n, m.key)
    BY <1>2, <1>7, HopIs
  <2>2. CASE Handled(n, m)
    BY <1>3, <1>5, <2>1, <2>2, RouteIs
  <2>3. CASE ~Handled(n, m) /\ isActiveQuery(m.cmd)
    <3>1. CASE m \in Requests
      BY <1>2, <1>3, <1>4, <2>1, <2>3, <3>1, RouteIs
    <3>2. CASE m \in Passed
      BY <1>2, <1>3, <1>6, <2>1, <2>3, <3>2, RouteIs
    <3> QED BY <3>1, <3>2
  <2>4. CASE ~Handled(n, m) /\ ~isActiveQuery(m.cmd)
    <3>1. m \in Passed
      BY <1>1, <2>4
    <3>2. Owner(m.key) \in Nodes
      BY <1>6, <2>4, <3>1, OwnerIs
    <3> QED BY <1>3, <1>6, <2>1, <2>4, <3>1, <3>2, RouteIs
  <2> QED BY <2>2, <2>3, <2>4
<1>8. ASSUME NEW i \in SlotIds, Returns(n, m, i), m.kind = "client" => Handled(n, m)
      PROVE  Reachable(m.origin, entry[m.origin], m.key)
  <2>1. CASE m \in Requests
    BY <1>1, <1>4, <1>5, <1>8, <2>1 DEF Reachable
  <2>2. CASE m \in Passed
    <3>1. m.kind # "client" /\ m.origin \notin HighClients
      BY <1>1, <1>8, <2>2 DEF Returns, Passed
    <3>2. Holds(m.origin, n, i)
      BY <1>8, <3>1 DEF Returns, Admitted, Holds
    <3>3. n = entry[m.origin]
      BY <1>2, <3>2 DEF Tracked
    <3>4. Owners(m.key) = {} <=> isActiveQuery(m.cmd) /\ ~Handled(n, m)
      BY <1>3, <1>8, WorksNear
    <3> QED BY <1>5, <1>6, <2>2, <3>1, <3>3, <3>4 DEF Reachable
  <2> QED BY <2>1, <2>2
<1> QED BY <1>7, <1>8

\* Every step keeps datagrams on their routes.
LEMMA RouteStep ==
  InRingOrder /\ OneOwner /\ Routing /\ OnRoute /\ OthersNeverReturn /\ [Next]_vars
  => OnRoute' /\ OthersNeverReturn'
<1>1. SUFFICES ASSUME InRingOrder, OneOwner, Routing, OnRoute, OthersNeverReturn,
                      [Next]_vars
               PROVE  OnRoute' /\ OthersNeverReturn'
  OBVIOUS
<1> USE <1>1
<1> DEFINE On(e, x) ==
             IF isActiveQuery(x.cmd)
             THEN Owners(x.key) = {} => x.to \in Route(e[x.origin], x.key)
             ELSE x.to \in Route(Owner(x.key), x.key)
<1>2. ASSUME \A x \in net' \ net :
               /\ x \in Passed => On(entry, x)
               /\ x.kind = "reply" => Reachable(x.to, entry[x.to], x.key),
             UNCHANGED entry
      PROVE  OnRoute' /\ OthersNeverReturn'
  BY <1>2 DEF OnRoute, OthersNeverReturn
<1>3. ASSUME NEW n \in Nodes, SetupFingerTable(n)
      PROVE  OnRoute' /\ OthersNeverReturn'
  <2> DEFINE x == [kind |-> "internal", to |-> Succ(n), cmd |-> "xad",
                   key |-> 2, value |-> 0, origin |-> n]
  <2>1. net' = net \cup {x} /\ UNCHANGED entry
    BY <1>3, SetupIs DEF Routing, clientVars
  <2>2. x \notin Passed /\ x.kind # "reply"
    BY DEF Passed
  <2> HIDE DEF x, On
  <2> QED BY <1>2, <2>1, <2>2
<1>4. ASSUME NEW m \in net, NEW n \in Nodes, Step(n, m)
      PROVE  OnRoute' /\ OthersNeverReturn'
  <2>1. CASE m \in Requests \cup Passed /\ Works(n, m)
    <3>1. CASE Forwards(n, m)
      <4>1. /\ Onward(n, m).key = m.key /\ Onward(n, m).origin = m.origin
            /\ Onward(n, m).to = NextHop(n, m.key)
            /\ Onward(n, m).kind = "internal"
        BY DEF Onward
      <4>2. NextHop(n, m.key) # NoAddress => On(entry, Onward(n, m))
        BY <2>1, <3>1, <4>1, WorksOnRoute
      <4> HIDE DEF On
      <4>3. \A x \in net' \ net : On(entry, x) /\ x.kind # "reply"
        BY <3>1, <4>1, <4>2 DEF Forwards
      <4> QED BY <1>2, <2>1, <4>3 DEF Works, clientVars
    <3>2. ASSUME NEW i \in SlotIds, Returns(n, m, i), m.kind = "client" => Handled(n, m)
          PROVE  OnRoute' /\ OthersNeverReturn'
      <4>1. /\ Back(n, m) \notin Passed /\ Back(n, m).key = m.key
            /\ Back(n, m).to = m.origin
        BY DEF Back, Passed
      <4>2. Reachable(m.origin, entry[m.origin], m.key)
        BY <2>1, <3>2, WorksOnRoute
      <4> HIDE DEF On
      <4>3. \A x \in net' \ net : x \notin Passed /\ Reachable(x.to, entry[x.to], x.key)
        BY <3>2, <4>1, <4>2 DEF Returns
      <4> QED BY <1>2, <2>1, <4>3 DEF Works, clientVars
    <3> QED BY <2>1, <3>1, <3>2 DEF Works
  <2>2. CASE m \in Requests /\ OverrunSlots(n, m)
    BY <1>2, <2>2 DEF OverrunSlots, clientVars
  <2>3. CASE m \in Searches /\ Searched(n, m)
    <3>1. \A x \in net' \ net : x \notin Passed /\ x.kind # "reply"
      BY <2>3 DEF Searched, Passed
    <3> QED BY <1>2, <2>3, <3>1 DEF Searched, clientVars
  <2> QED BY <1>4, <2>1, <2>2, <2>3, NodeStep DEF Routing
<1>5. ASSUME NEW m \in net, NEW c \in Clients, Receive(c, m)
      PROVE  OnRoute' /\ OthersNeverReturn'
  BY <1>2, <1>5 DEF Receive
<1>6. ASSUME NEW m \in net, Lose(m)
      PROVE  OnRoute' /\ OthersNeverReturn'
  BY <1>2, <1>6 DEF Lose, clientVars
\* a client that sends a request has neither a query in the ring nor a reply
<1>7. ASSUME NEW c \in Clients, NEW n \in Nodes, NEW q \in Calls, Send(c, n, q)
      PROVE  OnRoute' /\ OthersNeverReturn'
  <2>1. DatagramsOf(c) = {}
    BY <1>7 DEF Send, Routing, AllTracked, Tracked
  <2>2. \A x \in net \cap Passed : On(entry, x) /\ entry'[x.origin] = entry[x.origin]
    BY <1>7, <2>1 DEF Send, Routing, OnRoute, Passed, DatagramsOf, TypeOK
  <2>3. \A x \in net : x.kind = "reply" => entry'[x.to] = entry[x.to]
    <3>1. SUFFICES ASSUME NEW x \in net, x.kind = "reply"
                   PROVE  entry'[x.to] = entry[x.to]
      OBVIOUS
    <3>2. x \in Replies
      BY <3>1 DEF Routing, TypeOK, Requests, Passed, Searches
    <3>3. x.origin \in Clients /\ x \in DatagramsOf(x.origin)
      BY <3>2 DEF Replies, DatagramsOf
    <3>4. x.to = x.origin
      BY <3>1, <3>3 DEF Routing, AllTracked, Tracked
    <3> QED BY <1>7, <2>1, <3>3, <3>4 DEF Send, Routing, TypeOK
  <2>4. Datagram("client", n, q, c).kind = "client"
    BY DEF Datagram
  <2>5. \A x \in net' : x \notin net => x \notin Passed /\ x.kind # "reply"
    BY <1>7, <2>4 DEF Send, Passed
  <2>6. OnRoute'
    <3>1. \A x \in net' \cap Passed : On(entry', x)
      BY <2>2, <2>5
    <3> QED BY <3>1 DEF OnRoute
  <2>7. OthersNeverReturn'
    BY <2>3, <2>5 DEF OthersNeverReturn
  <2> QED BY <2>6, <2>7
<1>8. CASE UNCHANGED vars
  BY <1>2, <1>8 DEF vars, clientVars
<1> QED BY <1>3, <1>4, <1>5, <1>6, <1>7, <1>8 DEF Next

\* On a ring whose offsets grow and whose ranges do not overlap, a client gets a reply
\* only if its entry node stores the key, or its address survives the unpacking and that
\* node is on the route of the answer: the short cut is taken by answers too, and what
\* it jumps over is never reached (forceForwardQuery, searchRequestId).
THEOREM OnlyReachableReturn ==
  ASSUME InRingOrder, OneOwner
  PROVE  Spec => []OthersNeverReturn
<1>1. Init => OnRoute /\ OthersNeverReturn
  BY DEF Init, Blank, OnRoute, OthersNeverReturn
<1>2. /\ Routing /\ [Next]_vars => Routing'
      /\ Routing /\ OnRoute /\ OthersNeverReturn /\ [Next]_vars
           => OnRoute' /\ OthersNeverReturn'
  BY RoutingStep, RouteStep
<1> QED BY <1>1, <1>2, RoutingInit, PTL DEF Spec

------------------------------------------------------------------------------
(* Slots and losses *)

\* With at least as many slots as clients, a request always finds a free one.
LEMMA NoOverrun ==
  ASSUME TypeOK, AllTracked, IsFiniteSet(Clients), Cardinality(Clients) <= MaxSlots,
         NEW n \in Nodes, NEW m \in net, m \in Requests, m.to = n
  PROVE  nextFreeRequestId(slots[n]) # -1
<1>1. SUFFICES ASSUME nextFreeRequestId(slots[n]) = -1 PROVE FALSE
  OBVIOUS
<1>2. \A i \in SlotIds : slots[n][i] # Free
  BY <1>1, SlotFound
<1> DEFINE o == m.origin
           others == Clients \ {o}
           f == [i \in SlotIds |-> slots[n][i].client]
<1>3. o \in Clients /\ m \in DatagramsOf(o) /\ m.kind = "client"
  BY DEF Requests, DatagramsOf
<1>4. Tracked(o) /\ n = entry[o]
  BY <1>3 DEF AllTracked, Tracked
<1>5. \A i \in SlotIds : slots[n][i].client \in others
  <2>1. \A i \in SlotIds : slots[n][i].client \in Clients
    BY <1>2 DEF TypeOK, Slots
  <2>2. \A i \in SlotIds : ~Holds(o, n, i)
    BY <1>3, <1>4 DEF Tracked
  <2> QED BY <1>2, <2>1, <2>2 DEF Holds
<1>6. f \in [SlotIds -> others]
  BY <1>5
<1>7. IsFiniteSet(others) /\ Cardinality(others) = Cardinality(Clients) - 1
  BY <1>3, FS_RemoveElement
<1>8. IsFiniteSet(SlotIds) /\ Cardinality(SlotIds) = MaxSlots /\ MaxSlots \in Nat \ {0}
  <2>1. MaxSlots \in Nat \ {0}
    BY DHTAssumption
  <2>2. /\ IsFiniteSet(0..(MaxSlots - 1))
        /\ Cardinality(0..(MaxSlots - 1)) =
             IF 0 > MaxSlots - 1 THEN 0 ELSE (MaxSlots - 1) - 0 + 1
    BY <2>1, FS_Interval
  <2> QED BY <2>1, <2>2 DEF SlotIds
<1>9. Cardinality(others) < Cardinality(SlotIds)
  <2>1. Cardinality(Clients) \in Nat
    BY FS_CardinalityType
  <2> QED BY <1>7, <1>8, <2>1
<1> HIDE DEF f, others
<1>10. PICK i, j \in SlotIds : i # j /\ f[i] = f[j]
  BY <1>6, <1>7, <1>8, <1>9, FS_PigeonHole
<1>11. slots[n][i].client = slots[n][j].client /\ slots[n][i].client \in Clients
  BY <1>5, <1>10 DEF f, others
<1> QED BY <1>2, <1>10, <1>11 DEF AllTracked, Tracked, Holds

\* With at least as many slots as clients, no node ever writes outside its slots.
THEOREM SlotsSuffice ==
  ASSUME IsFiniteSet(Clients), Cardinality(Clients) <= MaxSlots
  PROVE  Spec => [](\A n \in Nodes : ~overrun[n])
<1> DEFINE Sound == \A n \in Nodes : ~overrun[n]
<1>1. Init => Sound
  BY DEF Init, Blank
<1>2. TypeOK /\ AllTracked /\ Sound /\ [Next]_vars => Sound'
  <2>1. SUFFICES ASSUME TypeOK, AllTracked, Sound, [Next]_vars PROVE Sound'
    OBVIOUS
  <2>2. ASSUME NEW m \in net, NEW n \in Nodes, Step(n, m)
        PROVE  Sound'
    <3>1. CASE m \in Requests /\ OverrunSlots(n, m)
      BY <2>1, <3>1, NoOverrun DEF OverrunSlots, Reads
    <3>2. CASE UNCHANGED overrun
      BY <2>1, <3>2
    <3> QED BY <2>1, <2>2, <3>1, <3>2, NodeStep DEF Works, Searched
  <2>3. CASE UNCHANGED overrun
    BY <2>1, <2>3
  <2> QED BY <2>1, <2>2, <2>3
          DEF Next, SetupFingerTable, Receive, Lose, Send, vars, nodeVars
<1> QED BY <1>1, <1>2, TrackedAlways, PTL DEF Spec

\* Without loss, and with at least as many slots as clients, a call disappears from the
\* cluster only at a node that does not know its short cut yet.
THEOREM CallsKept ==
  ASSUME ~Lossy, IsFiniteSet(Clients), Cardinality(Clients) <= MaxSlots
  PROVE  Spec => VanishesOnlyEarly
<1> DEFINE Vanishing ==
      \A c \in Clients :
        DatagramsOf(c) # {} /\ DatagramsOf(c)' = {} /\ call[c]' # Idle
        => \E n \in Nodes : finger[n] = NoAddress
<1>1. TypeOK /\ AllTracked /\ [Next]_vars => [Vanishing]_vars
  <2>1. SUFFICES ASSUME TypeOK, AllTracked, Next,
                        NEW c \in Clients,
                        DatagramsOf(c) # {}, DatagramsOf(c)' = {}, call'[c] # Idle
                 PROVE  \E n \in Nodes : finger[n] = NoAddress
    OBVIOUS
  <2>2. PICK m \in net : m.origin = c
    BY <2>1 DEF DatagramsOf
  <2>3. \A x \in net' : x.origin # c
    BY <2>1 DEF DatagramsOf
  <2>4. m \notin net'
    BY <2>2, <2>3
  <2>5. ASSUME NEW n \in Nodes, SetupFingerTable(n)
        PROVE  FALSE
    BY <2>1, <2>4, <2>5, SetupIs
  <2>6. ASSUME NEW x \in net, NEW n \in Nodes, Step(n, x)
        PROVE  \E nn \in Nodes : finger[nn] = NoAddress
    <3>1. CASE x \in Requests \cup Passed /\ Works(n, x)
      <4>1. x = m
        BY <2>4, <3>1 DEF Works, Forwards, Returns
      <4>2. Onward(n, m).origin = c /\ Back(n, m).origin = c
        BY <2>2 DEF Onward, Back
      <4>3. Forwards(n, m) /\ NextHop(n, m.key) = NoAddress
        BY <2>3, <3>1, <4>1, <4>2 DEF Works, Forwards, Returns
      <4> QED BY <2>1, <4>3, NextHopIs
    <3>2. CASE x \in Requests /\ OverrunSlots(n, x)
      BY <2>1, <3>2, NoOverrun DEF OverrunSlots, Reads
    <3>3. CASE x \in Searches /\ Searched(n, x)
      <4>1. x = m
        BY <2>4, <3>3 DEF Searched
      <4> QED BY <2>2, <3>3, <4>1, SuccIs DEF Searches
    <3> QED BY <2>1, <2>6, <3>1, <3>2, <3>3, NodeStep
  <2>7. ASSUME NEW x \in net, NEW d \in Clients, Receive(d, x)
        PROVE  FALSE
    <3>1. x = m
      BY <2>4, <2>7 DEF Receive
    <3>2. c = d
      BY <2>1, <2>2, <2>7, <3>1 DEF Receive, AllTracked, Tracked, DatagramsOf
    <3> QED BY <2>1, <2>7, <3>2 DEF Receive, TypeOK
  <2>8. ASSUME NEW x \in net, Lose(x)
        PROVE  FALSE
    BY <2>8 DEF Lose
  <2>9. ASSUME NEW d \in Clients, NEW n \in Nodes, NEW q \in Calls, Send(d, n, q)
        PROVE  FALSE
    BY <2>4, <2>9 DEF Send
  <2> QED BY <2>1, <2>5, <2>6, <2>7, <2>8, <2>9 DEF Next
<1> HIDE DEF Vanishing
<1>2. Spec => [][Vanishing]_vars
  BY <1>1, TrackedAlways, PTL DEF Spec
<1> QED BY <1>2 DEF Vanishing, VanishesOnlyEarly

------------------------------------------------------------------------------
(* One dictionary for all clients *)

\* What a table answers.
LEMMA OutAnswers ==
  ASSUME TypeOK, NEW n \in Nodes, NEW m \in net, m \in Requests \cup Passed,
         Handled(n, m), NEW g, g = hashGet(ChainOf(n, m), m.key)
  PROVE  /\ isSetQuery(m.cmd) => Out(n, m).cmd = "ok!" /\ Out(n, m).value = m.value
         /\ isGetQuery(m.cmd) /\ g # -1 => Out(n, m).cmd = "val" /\ Out(n, m).value = g
         /\ isGetQuery(m.cmd) /\ g = -1 =>
              Out(n, m).cmd = "nof" /\ Out(n, m).value = m.value
         /\ isDelQuery(m.cmd) /\ g # -1 =>
              Out(n, m).cmd = "ok!" /\ Out(n, m).value = m.value
         /\ isDelQuery(m.cmd) /\ g = -1 =>
              Out(n, m).cmd = "nof" /\ Out(n, m).value = m.value
<1> DEFINE q == Query(m)
           h == Hits(ChainOf(n, m), m.key)
<1>1. q = [cmd |-> m.cmd, key |-> m.key, value |-> m.value, address |-> m.origin,
           extended |-> q.extended]
  BY DEF Query
<1>2. g = -1 <=> h = {}
  <2>1. m.key \in Keys
    BY DEF Requests, Passed
  <2>2. hashKey(n, m.key) \in Buckets
    BY <2>1 DEF Handled, Buckets, canHandleQueryLocally
  <2>3. Good(Keys, Carried, ChainOf(n, m))
    BY <2>2 DEF TypeOK, Lists, ChainOf
  <2> QED BY <2>1, <2>3, GetValue
<1>3. Out(n, m) = CASE isSetQuery(m.cmd) -> [q EXCEPT !.cmd = "ok!"]
                    [] isGetQuery(m.cmd) /\ g # -1 ->
                         [q EXCEPT !.cmd = "val", !.value = g]
                    [] isDelQuery(m.cmd) /\ h # {} -> [q EXCEPT !.cmd = "ok!"]
                    [] OTHER -> [q EXCEPT !.cmd = "nof"]
  <2>1. Out(n, m) = Answered(ChainOf(n, m), q)
    BY DEF Out
  <2>2. q.cmd = m.cmd /\ q.key = m.key
    BY <1>1
  <2> HIDE DEF q
  <2> QED BY <2>1, <2>2 DEF Answered
<1> HIDE DEF q, h
<1>4. /\ [q EXCEPT !.cmd = "ok!"].cmd = "ok!" /\ [q EXCEPT !.cmd = "ok!"].value = m.value
      /\ [q EXCEPT !.cmd = "nof"].cmd = "nof" /\ [q EXCEPT !.cmd = "nof"].value = m.value
      /\ [q EXCEPT !.cmd = "val", !.value = g].cmd = "val"
      /\ [q EXCEPT !.cmd = "val", !.value = g].value = g
  BY <1>1
<1> DEFINE ok == [q EXCEPT !.cmd = "ok!"]
           nof == [q EXCEPT !.cmd = "nof"]
           val == [q EXCEPT !.cmd = "val", !.value = g]
<1>5. /\ ok.cmd = "ok!" /\ ok.value = m.value /\ nof.cmd = "nof" /\ nof.value = m.value
      /\ val.cmd = "val" /\ val.value = g
  BY <1>4
<1>6. Out(n, m) = CASE isSetQuery(m.cmd) -> ok
                    [] isGetQuery(m.cmd) /\ g # -1 -> val
                    [] isDelQuery(m.cmd) /\ h # {} -> ok
                    [] OTHER -> nof
  BY <1>3
<1> HIDE DEF ok, nof, val
<1> QED BY <1>2, <1>5, <1>6 DEF isSetQuery, isGetQuery, isDelQuery

\* A command and its forms inside the ring and for the client mean the same.
LEMMA Converted ==
  ASSUME NEW c \in {"set", "get", "del", "xst", "xgt", "xdl", "xok", "xnf", "xvl",
                    "ok!", "nof", "val"},
         NEW x \in {convertToInternalCommand(c), convertToClientCommand(c)}
  PROVE  /\ isSetQuery(x) <=> isSetQuery(c)
         /\ isGetQuery(x) <=> isGetQuery(c)
         /\ isDelQuery(x) <=> isDelQuery(c)
         /\ convertToClientCommand(x) = convertToClientCommand(c)
         /\ c \in {"ok!", "nof", "val"} => ~isActiveQuery(c)
BY DEF convertToInternalCommand, convertToClientCommand, isActiveQuery, isSetQuery,
   isGetQuery, isDelQuery, isOkQuery, isNotFoundQuery, isValueQuery

\* A node passes on the request as it is, or the answer its table gave.
LEMMA WorksMatched ==
  ASSUME TypeOK, AllTracked, Matched, NEW n \in Nodes, NEW m \in net,
         m \in Requests \cup Passed, Works(n, m), NEW x \in {Onward(n, m), Back(n, m)}
  PROVE  x.origin = m.origin /\ MatchedBy(x, call[m.origin], answer'[m.origin])
<1> DEFINE o == m.origin
           c == Out(n, m).cmd
           v == Out(n, m).value
<1>1. o \in Clients /\ m \notin Searches
  BY SuccIs DEF Requests, Passed, Searches
<1>2. /\ c \in {"set", "get", "del", "xst", "xgt", "xdl", "xok", "xnf", "xvl",
                "ok!", "nof", "val"}
      /\ Handled(n, m) => c \in {"ok!", "nof", "val"}
      /\ ~Handled(n, m) => c = m.cmd /\ v = m.value
  BY OutIs
<1>3. /\ x.cmd \in {convertToInternalCommand(c), convertToClientCommand(c)}
      /\ x.origin = o /\ x.key = m.key /\ x.value = v
  BY DEF Onward, Back
<1>4. MatchedBy(m, call[o], answer[o])
  BY <1>1 DEF Matched
<1>5. IF Handled(n, m)
      THEN answer' = [answer EXCEPT ![o] =
                        [cmd |-> convertToClientCommand(c), key |-> m.key, value |-> v]]
      ELSE answer' = answer
  BY DEF Works, Asks
<1> HIDE DEF o, c, v
<1>6. /\ isSetQuery(x.cmd) <=> isSetQuery(c)
      /\ isGetQuery(x.cmd) <=> isGetQuery(c)
      /\ isDelQuery(x.cmd) <=> isDelQuery(c)
      /\ convertToClientCommand(x.cmd) = convertToClientCommand(c)
      /\ c \in {"ok!", "nof", "val"} => ~isActiveQuery(c)
  BY <1>2, <1>3, Converted
<1>7. isActiveQuery(x.cmd) <=> isActiveQuery(c)
  BY <1>6 DEF isActiveQuery
<1>8. CASE Handled(n, m)
  <2>1. answer'[o] = [cmd |-> convertToClientCommand(c), key |-> m.key, value |-> v]
    BY <1>1, <1>5, <1>8 DEF TypeOK
  <2> QED BY <1>2, <1>3, <1>6, <1>7, <1>8, <2>1 DEF MatchedBy, o
<1>9. CASE ~Handled(n, m)
  BY <1>2, <1>3, <1>4, <1>5, <1>6, <1>7, <1>9 DEF MatchedBy, o
<1> QED BY <1>8, <1>9

\* Requests stay matched.
LEMMA MatchedStep == TypeOK /\ AllTracked /\ Matched /\ [Next]_vars => Matched'
<1>1. SUFFICES ASSUME TypeOK, AllTracked, Matched, [Next]_vars PROVE Matched'
  OBVIOUS
<1> USE <1>1
<1> DEFINE For(x) == MatchedBy(x, call'[x.origin], answer'[x.origin])
\* what is new is matched, and what was in flight belongs to clients left alone
<1>2. ASSUME \A x \in net' : x \notin Searches => For(x),
             \A c \in Clients : call'[c] = Idle => answer'[c] = Idle
      PROVE  Matched'
  BY <1>2 DEF Matched
<1>3. \A x \in net : x \notin Searches =>
        x.origin \in Clients /\ MatchedBy(x, call[x.origin], answer[x.origin])
  BY DEF Matched, TypeOK, Requests, Passed, Replies
<1>4. \A c \in Clients : call[c] = Idle => answer[c] = Idle
  BY DEF Matched
<1>5. ASSUME \A x \in net' : x \notin Searches => x \in net,
             UNCHANGED <<call, answer>>
      PROVE  Matched'
  BY <1>2, <1>3, <1>4, <1>5
<1>6. ASSUME NEW n \in Nodes, SetupFingerTable(n)
      PROVE  Matched'
  <2>1. /\ net' = net \cup {[kind |-> "internal", to |-> Succ(n), cmd |-> "xad",
                             key |-> 2, value |-> 0, origin |-> n]}
        /\ UNCHANGED <<call, answer>>
    BY <1>6, SetupIs DEF clientVars
  <2>2. [kind |-> "internal", to |-> Succ(n), cmd |-> "xad", key |-> 2, value |-> 0,
         origin |-> n] \in Searches
    BY SuccIs DEF Searches
  <2> QED BY <1>5, <2>1, <2>2
<1>7. ASSUME NEW m \in net, NEW n \in Nodes, Step(n, m)
      PROVE  Matched'
  <2>1. CASE m \in Requests \cup Passed /\ Works(n, m)
    <3> DEFINE o == m.origin
    <3>1. /\ o \in Clients
          /\ m \in DatagramsOf(o)
          /\ UNCHANGED call
          /\ \A c \in Clients : c # o => answer'[c] = answer[c]
      BY <2>1 DEF Requests, Passed, DatagramsOf, Works, clientVars, Asks, TypeOK
    <3>2. Tracked(o)
      BY <3>1 DEF AllTracked
    <3>3. call[o] # Idle /\ \A x \in net : x # m => x.origin # o
      BY <3>1, <3>2 DEF Tracked, DatagramsOf
    <3>4. \A x \in net' : (x \in net /\ x # m) \/ x \in {Onward(n, m), Back(n, m)}
      BY <2>1 DEF Works, Forwards, Returns
    <3>5. \A x \in {Onward(n, m), Back(n, m)} :
            x.origin = o /\ MatchedBy(x, call[o], answer'[o])
      BY <2>1, WorksMatched
    <3> HIDE DEF o
    <3>6. ASSUME NEW x \in net', x \notin Searches
          PROVE  For(x)
      <4>1. CASE x \in net /\ x # m
        BY <1>3, <3>1, <3>3, <3>6, <4>1
      <4>2. CASE x \in {Onward(n, m), Back(n, m)}
        <5>1. x.origin = o /\ MatchedBy(x, call[o], answer'[o])
          BY <3>5, <4>2
        <5> QED BY <3>1, <5>1
      <4> QED BY <3>4, <4>1, <4>2
    <3>7. \A c \in Clients : call'[c] = Idle => answer'[c] = Idle
      BY <1>4, <3>1, <3>3
    <3> QED BY <1>2, <3>6, <3>7
  <2>2. CASE m \in Requests /\ OverrunSlots(n, m)
    BY <1>5, <2>2 DEF OverrunSlots, clientVars
  <2>3. CASE m \in Searches /\ Searched(n, m)
    <3>1. /\ [kind |-> "internal", to |-> Succ(n), cmd |-> "xad", key |-> 1,
              value |-> 0, origin |-> m.origin] \in Searches
          /\ [kind |-> "internal", to |-> m.origin, cmd |-> "xad", key |-> 0,
              value |-> 0, origin |-> n] \in Searches
      BY <2>3, SuccIs DEF Searches
    <3>2. \A x \in net' : x \notin Searches => x \in net
      BY <2>3, <3>1 DEF Searched
    <3> QED BY <1>5, <2>3, <3>2 DEF Searched, clientVars
  <2> QED BY <1>7, <2>1, <2>2, <2>3, NodeStep
<1>8. ASSUME NEW m \in net, NEW c \in Clients, Receive(c, m)
      PROVE  Matched'
  <2>1. m \in Replies
    BY <1>8 DEF Receive, TypeOK, Requests, Passed, Searches
  <2>2. m.origin \in Clients /\ m.kind = "reply" /\ m \in DatagramsOf(m.origin)
    BY <2>1 DEF Replies, DatagramsOf
  <2>3. m.origin = c
    BY <1>8, <2>2 DEF AllTracked, Tracked, Receive
  <2>4. \A x \in net : x # m => x.origin # c
    BY <2>2, <2>3 DEF AllTracked, Tracked, DatagramsOf
  <2>5. /\ net' = net \ {m}
        /\ \A d \in Clients : /\ d # c => call'[d] = call[d] /\ answer'[d] = answer[d]
                              /\ answer'[c] = Idle
    BY <1>8 DEF Receive, TypeOK
  <2> QED BY <1>2, <1>3, <1>4, <2>4, <2>5
<1>9. ASSUME NEW m \in net, Lose(m)
      PROVE  Matched'
  BY <1>5, <1>9 DEF Lose, clientVars
<1>10. ASSUME NEW c \in Clients, NEW n \in Nodes, NEW q \in Calls, Send(c, n, q)
       PROVE  Matched'
  <2> DEFINE new == Datagram("client", n, q, c)
  <2>1. \A x \in net : x.origin # c
    BY <1>10 DEF Send, AllTracked, Tracked, DatagramsOf
  <2>2. /\ net' = net \cup {new}
        /\ answer' = answer /\ answer[c] = Idle
        /\ call'[c] = q /\ \A d \in Clients : d # c => call'[d] = call[d]
    BY <1>4, <1>10 DEF Send, TypeOK
  <2>3. new.origin = c /\ new.cmd = q.cmd /\ new.value = q.value
    BY DEF Datagram
  <2> HIDE DEF new
  <2>4. q.cmd \in {"set", "get", "del"} /\ q # Idle
    BY DEF Calls, Idle
  <2>5. MatchedBy(new, q, Idle)
    BY <2>3, <2>4 DEF MatchedBy, isActiveQuery, isSetQuery, isGetQuery, isDelQuery
  <2>6. ASSUME NEW x \in net', x \notin Searches
        PROVE  For(x)
    <3>1. CASE x = new
      BY <2>2, <2>3, <2>5, <3>1
    <3>2. CASE x \in net
      BY <1>3, <2>1, <2>2, <2>6, <3>2
    <3> QED BY <2>2, <3>1, <3>2
  <2>7. \A d \in Clients : call'[d] = Idle => answer'[d] = Idle
    BY <1>4, <2>2
  <2> QED BY <1>2, <2>6, <2>7
<1>11. CASE UNCHANGED vars
  BY <1>5, <1>11 DEF vars, nodeVars, clientVars
<1> QED BY <1>6, <1>7, <1>8, <1>9, <1>10, <1>11 DEF Next

\* Every key is in one list, of one node.
LEMMA Home ==
  ASSUME Covered, NEW k \in Keys
  PROVE  /\ Owner(k) \in Nodes
         /\ hashKey(Owner(k), k) \in Buckets
         /\ Lookup(k) = hashGet(table[Owner(k)][hashKey(Owner(k), k)], k)
         /\ \A n \in Nodes : canHandleQueryLocally(n, k) => n = Owner(k)
<1>1. PICK h \in Nodes : Owners(k) = {h}
  BY DEF Covered
<1>2. Owner(k) = h
  BY <1>1 DEF Owner
<1>3. canHandleQueryLocally(h, k) /\ \A n \in Nodes : canHandleQueryLocally(n, k) => n = h
  BY <1>1 DEF Owners
<1>4. hashKey(h, k) \in Buckets
  BY <1>3 DEF Buckets, canHandleQueryLocally
<1> QED BY <1>1, <1>2, <1>3, <1>4 DEF Lookup

\* The dictionary after a table has executed a query, and the others have not.
LEMMA LookupIs ==
  ASSUME TypeOK, Covered, 0 \notin Keys, NEW n \in Nodes, NEW m \in net,
         m \in Requests \cup Passed, Works(n, m), Handled(n, m), NEW j \in Keys
  PROVE  /\ isSetQuery(m.cmd) =>
              Lookup(j)' = IF j = m.key THEN m.value ELSE Lookup(j)
         /\ isGetQuery(m.cmd) => Lookup(j)' = Lookup(j)
         /\ isDelQuery(m.cmd) => Lookup(j)' = IF j = m.key THEN -1 ELSE Lookup(j)
<1> DEFINE k == m.key
           b == hashKey(n, k)
           c == table[n][b]
           w == Owner(j)
           a == hashKey(w, j)
           s == hashSet(c, k, m.value, <<>>)
           d == hashDel(c, k)
<1>1. k \in Keys /\ m.value \in Carried /\ k # 0 /\ j \in Keys \ {0}
  BY DEF Requests, Passed, Carried
<1>2. b \in Buckets /\ canHandleQueryLocally(n, k)
  BY <1>1 DEF Handled, Buckets, canHandleQueryLocally
<1>3. /\ w \in Nodes /\ a \in Buckets
      /\ Lookup(j) = hashGet(table[w][a], j)
      /\ Lookup(j)' = hashGet(table'[w][a], j)
      /\ j = k => w = n /\ a = b
  <2>1. Lookup(j)' = hashGet(table'[w][a], j)
    <3>1. Owners(j) # {}
      BY DEF Covered
    <3> QED BY <3>1 DEF Lookup
  <2>2. canHandleQueryLocally(n, j) => n = w
    BY Home
  <2> QED BY <1>2, <2>1, <2>2, Home
<1>4. table' = [table EXCEPT ![n][b] = Updated(c, Query(m))]
  BY DEF Works, Asks
<1>5. c \in Lists /\ table \in [Nodes -> [Buckets -> Lists]]
  BY <1>2 DEF TypeOK
<1>6. Good(Keys, Carried, c) /\ ~RunsWild(c, k) /\ ~CopiesWild(c, k) /\ <<>> \in Endings
  <2>1. Good(Keys, Carried, c) /\ c[Len(c)] # Wild
    BY <1>5 DEF Lists
  <2> QED BY <1>1, <2>1, StaysTame DEF Endings
<1>7. hashGet(s, j) = IF j = k THEN m.value ELSE hashGet(c, j)
  BY <1>1, <1>6, SetGood
<1>8. hashGet(d, j) = IF j = k THEN -1 ELSE hashGet(c, j)
  BY <1>1, <1>6, DelGood
<1>9. /\ isSetQuery(m.cmd) => Updated(c, Query(m)) = s
      /\ isGetQuery(m.cmd) => Updated(c, Query(m)) = c
      /\ isDelQuery(m.cmd) => Updated(c, Query(m)) = d
  <2>1. Query(m).cmd = m.cmd /\ Query(m).key = k /\ Query(m).value = m.value
    BY DEF Query
  <2> DEFINE q == Query(m)
  <2> HIDE DEF q
  <2> QED BY <2>1 DEF Updated, isSetQuery, isGetQuery, isDelQuery, q
<1> DEFINE u == Updated(c, Query(m))
<1> HIDE DEF u, b, w, a
<1>10. table'[w][a] = IF w = n /\ a = b THEN u ELSE table[w][a]
  BY <1>2, <1>3, <1>4, <1>5 DEF u
<1>11. w = n /\ a = b => table[w][a] = c
  OBVIOUS
<1> HIDE DEF c, s, d
<1> QED BY <1>3, <1>7, <1>8, <1>9, <1>10, <1>11 DEF u

\* What a table does with a query is the moment the call takes effect.
LEMMA Executes ==
  ASSUME TypeOK, AllTracked, Matched, Covered, 0 \notin Keys, NEW n \in Nodes,
         NEW m \in net, m \in Requests \cup Passed, Works(n, m), Handled(n, m)
  PROVE  Service!Execute(m.origin)
<1> DEFINE o == m.origin
           q == call[o]
           k == m.key
           store == [j \in Keys |-> Lookup(j)]
           g == hashGet(ChainOf(n, m), k)
<1>1. /\ o \in Clients /\ k \in Keys /\ m \notin Searches
      /\ m \in DatagramsOf(o)
      /\ isActiveQuery(m.cmd)
  BY SuccIs DEF Requests, Passed, Searches, DatagramsOf, Handled
<1>2. q # Idle /\ q.key = k
  BY <1>1 DEF AllTracked, Tracked
<1>3. /\ answer[o] = Idle
      /\ isSetQuery(m.cmd) <=> q.cmd = "set"
      /\ isGetQuery(m.cmd) <=> q.cmd = "get"
      /\ isDelQuery(m.cmd) <=> q.cmd = "del"
      /\ m.value = q.value
  BY <1>1 DEF Matched, MatchedBy
<1>4. store[k] = g
  <2>1. Owner(k) = n
    BY <1>1, Home DEF Handled
  <2> QED BY <1>1, <2>1, Home DEF ChainOf
<1>5. q.cmd \in {"set", "get", "del"}
  BY <1>1, <1>3 DEF isActiveQuery
<1>6. store' = Service!Effect(q)
  <2>1. store' = [j \in Keys |-> Lookup(j)']
    OBVIOUS
  <2>2. /\ q.cmd = "set" => store' = [store EXCEPT ![k] = q.value]
        /\ q.cmd = "get" => store' = store
        /\ q.cmd = "del" => store' = [store EXCEPT ![k] = -1]
    BY <1>1, <1>3, <2>1, LookupIs
  <2> HIDE DEF store, q, k
  <2> QED BY <1>2, <1>5, <2>2 DEF Service!Effect, store
<1>7. answer' = [answer EXCEPT ![o] = Service!Result(q)]
  <2> DEFINE r == [cmd |-> convertToClientCommand(Out(n, m).cmd), key |-> k,
                   value |-> Out(n, m).value]
  <2>1. answer' = [answer EXCEPT ![o] = r]
    BY DEF Works, Asks
  <2>2. /\ convertToClientCommand("ok!") = "OK!" /\ convertToClientCommand("nof") = "NOF"
        /\ convertToClientCommand("val") = "VAL"
    BY DEF convertToClientCommand, isSetQuery, isGetQuery, isDelQuery, isOkQuery,
       isNotFoundQuery, isValueQuery
  <2>3. /\ isSetQuery(m.cmd) => Out(n, m).cmd = "ok!" /\ Out(n, m).value = m.value
        /\ isGetQuery(m.cmd) /\ g # -1 => Out(n, m).cmd = "val" /\ Out(n, m).value = g
        /\ isGetQuery(m.cmd) /\ g = -1 =>
             Out(n, m).cmd = "nof" /\ Out(n, m).value = m.value
        /\ isDelQuery(m.cmd) /\ g # -1 =>
             Out(n, m).cmd = "ok!" /\ Out(n, m).value = m.value
        /\ isDelQuery(m.cmd) /\ g = -1 =>
             Out(n, m).cmd = "nof" /\ Out(n, m).value = m.value
    BY OutAnswers
  <2>4. /\ q.cmd = "set" => r = [cmd |-> "OK!", key |-> q.key, value |-> q.value]
        /\ q.cmd # "set" /\ g = -1 =>
             r = [cmd |-> "NOF", key |-> q.key, value |-> q.value]
        /\ q.cmd = "get" /\ g # -1 => r = [cmd |-> "VAL", key |-> q.key, value |-> g]
        /\ q.cmd = "del" /\ g # -1 =>
             r = [cmd |-> "OK!", key |-> q.key, value |-> q.value]
    BY <1>2, <1>3, <1>5, <2>2, <2>3
  <2> HIDE DEF r, q, g, k
  <2>5. r = Service!Result(q)
    <3>1. store[q.key] = g
      BY <1>2, <1>4
    <3> HIDE DEF store
    <3> QED BY <1>5, <2>4, <3>1 DEF Service!Result, store
  <2> QED BY <2>1, <2>5
<1>8. UNCHANGED <<call, last>>
  BY DEF Works, clientVars
<1>9. Service!Idle = Idle
  BY DEF Idle, Service!Idle
<1> QED BY <1>2, <1>3, <1>6, <1>7, <1>8, <1>9 DEF Service!Execute

\* The cluster is one linearizable dictionary: whichever node a client asks, however
\* its datagrams are delayed, overtaken or lost and whatever the other clients do,
\* every call takes effect at one moment between its request and its reply, and the
\* reply is the answer of that moment.
THEOREM RefinesService ==
  ASSUME InRingOrder, Covered, 0 \notin Keys
  PROVE  Spec => ImplementsService
<1> DEFINE store == [k \in Keys |-> Lookup(k)]
           Inv == Routing /\ Matched
<1>1. Init => Inv /\ Service!Init
  <2>1. SUFFICES ASSUME Init PROVE Matched /\ Service!Init
    BY RoutingInit
  <2>2. Matched
    BY <2>1 DEF Init, Blank, Matched, Idle
  <2>3. ASSUME NEW k \in Keys
        PROVE  Lookup(k) = -1
    <3>1. table[Owner(k)][hashKey(Owner(k), k)] = <<EmptyNode>>
      BY <2>1, Home DEF Init, Blank
    <3> QED BY <3>1, Home, EmptyGood, Numbers
  <2> QED BY <2>1, <2>2, <2>3 DEF Init, Blank, Service!Init, Service!Idle, Idle
<1>2. Inv /\ [Next]_vars => Inv'
  BY RoutingStep, MatchedStep DEF Routing
<1>3. Inv /\ [Next]_vars => [Service!Next]_<<store, call, answer, last>>
  <2>1. SUFFICES ASSUME Inv, [Next]_vars
                 PROVE  [Service!Next]_<<store, call, answer, last>>
    OBVIOUS
  <2> USE <2>1
  <2>2. TypeOK /\ AllTracked /\ Matched /\ RepliesAreAnswers
    BY DEF Routing
  <2>3. Service!Idle = Idle /\ Service!Calls = Calls
    BY DEF Idle, Service!Idle, Calls, Service!Calls
  <2>4. ASSUME table' = table
        PROVE  store' = store
    <3>1. \A k \in Keys : Lookup(k)' = Lookup(k)
      BY <2>4 DEF Lookup
    <3> QED BY <3>1
  <2>5. ASSUME NEW n \in Nodes, SetupFingerTable(n)
        PROVE  UNCHANGED <<store, call, answer, last>>
    BY <2>2, <2>4, <2>5, SetupIs DEF clientVars
  <2>6. ASSUME NEW m \in net, NEW n \in Nodes, Step(n, m)
        PROVE  [Service!Next]_<<store, call, answer, last>>
    <3>1. CASE m \in Requests \cup Passed /\ Works(n, m)
      <4>1. m.origin \in Clients
        BY <3>1 DEF Requests, Passed
      <4>2. CASE Handled(n, m)
        <5>1. Service!Execute(m.origin)
          BY <2>2, <3>1, <4>2, Executes
        <5> QED BY <4>1, <5>1 DEF Service!Next
      <4>3. CASE ~Handled(n, m)
        <5>1. UNCHANGED <<table, call, answer, last>>
          BY <3>1, <4>3 DEF Works, Asks, clientVars
        <5> QED BY <2>4, <5>1
      <4> QED BY <4>2, <4>3
    <3>2. CASE m \in Requests /\ OverrunSlots(n, m)
      BY <2>4, <3>2 DEF OverrunSlots, clientVars
    <3>3. CASE m \in Searches /\ Searched(n, m)
      BY <2>4, <3>3 DEF Searched, clientVars
    <3> QED BY <2>2, <2>6, <3>1, <3>2, <3>3, NodeStep
  <2>7. ASSUME NEW m \in net, NEW c \in Clients, Receive(c, m)
        PROVE  Service!Return(c)
    <3>1. m \in Replies
      BY <2>2, <2>7 DEF Receive, TypeOK, Requests, Passed, Searches
    <3>2. m.origin \in Clients /\ m \in DatagramsOf(m.origin) /\ m.key \in Keys
          /\ m.kind = "reply" /\ m \notin Searches
      BY <3>1, SuccIs DEF Replies, DatagramsOf, Searches
    <3>3. m.origin = c /\ call[c] # Idle
      BY <2>2, <2>7, <3>2 DEF AllTracked, Tracked, Receive
    <3>4. Owners(m.key) # {}
      BY <3>2 DEF Covered
    <3>5. m.cmd \in {"OK!", "NOF", "VAL"}
      BY <2>2, <3>2, <3>4 DEF RepliesAreAnswers
    <3>6. ~isActiveQuery(m.cmd) /\ convertToClientCommand(m.cmd) = m.cmd
      BY <3>5 DEF isActiveQuery, convertToClientCommand, isSetQuery, isGetQuery,
         isDelQuery, isOkQuery, isNotFoundQuery, isValueQuery
    <3>7. answer[c] = [cmd |-> m.cmd, key |-> m.key, value |-> m.value]
      BY <2>2, <3>2, <3>3, <3>6 DEF Matched, MatchedBy
    <3>8. answer[c] # Idle
      BY <3>5, <3>7 DEF Idle
    <3> QED BY <2>3, <2>4, <2>7, <3>3, <3>7, <3>8 DEF Receive, nodeVars, Service!Return
  <2>8. ASSUME NEW m \in net, Lose(m)
        PROVE  UNCHANGED <<store, call, answer, last>>
    BY <2>4, <2>8 DEF Lose, nodeVars, clientVars
  <2>9. ASSUME NEW c \in Clients, NEW n \in Nodes, NEW q \in Calls, Send(c, n, q)
        PROVE  Service!Call(c)
    BY <2>3, <2>4, <2>9 DEF Send, nodeVars, Service!Call
  <2>10. CASE UNCHANGED vars
    BY <2>4, <2>10 DEF vars, nodeVars, clientVars
  <2> QED BY <2>5, <2>6, <2>7, <2>8, <2>9, <2>10 DEF Next, Service!Next
<1> QED BY <1>1, <1>2, <1>3, PTL DEF Spec, ImplementsService, Service!Spec
==============================================================================
