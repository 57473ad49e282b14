----------------------------- MODULE ServersProofs -----------------------------
(***************************************************************************)
(* Proofs about the earlier ring (Ring), the clients of the hash servers   *)
(* with the single server (HashClient) and the measuring of round trips    *)
(* (TimeSync), for every value of their constants.                         *)
(***************************************************************************)
EXTENDS Ring, HashClient, TimeSync, WellFoundedInduction, TLAPS

------------------------------------------------------------------------------
(* Ring *)

\* the commands of clients, and of the nodes among themselves
Asking == {"set", "get", "del"}
Spoken == {Internal[k] : k \in DOMAIN Internal}

Typed(m) ==
  /\ m.client \in Clients /\ m.key \in RingKeys /\ m.reversed \in BOOLEAN /\ m.hops \in Nat
  /\ \/ m.kind = "client" /\ m.to \in Live /\ m.cmd \in Asking
     \/ m.kind = "internal" /\ m.to \in Live /\ m.cmd \in Spoken
     \/ m.kind = "reply" /\ m.to = m.client

SlotsOK ==
  requests \in [Live -> [SlotIds -> [key : RingKeys, client : Clients] \cup {Inactive}]]

TypeOK ==
  /\ size \in Nat \ {0}
  /\ SlotsOK
  /\ DOMAIN call = Clients
  /\ DOMAIN executed = Clients
  /\ \A m \in net : Typed(m)

\* a slot that holds a request of client c
Held(n, i, c) == requests[n][i] # Inactive /\ requests[n][i].client = c

Forgotten(c) == \A n \in Live, i \in SlotIds : ~Held(n, i, c)

\* how far node n lies behind node e
Dist(e, n) == IF n >= e THEN n - e ELSE n - e + size

\* A datagram that set out at node e, whose slot j alone holds its client's request: it
\* is where its hops say, its port is reversed at every other node, and the query in it
\* is still to be answered just when it has not come by the owner of the key.
OnWay(m, e, j) ==
  LET c == m.client
      d == Dist(e, m.to)
  IN  /\ \A n \in Live, i \in SlotIds : Held(n, i, c) <=> n = e /\ i = j
      /\ requests[e][j].key = m.key
      /\ m.hops > 0
      /\ m.hops \in {d, d + size, d + 2 * size, 2 * size + 1}
      /\ c \notin HighClients =>
           /\ m.hops <= Laps(c) * size
           /\ m.reversed <=> c \notin EvenClients /\ m.hops % 2 = 0
      /\ IF isActiveQuery(m.cmd)
         THEN /\ executed[c] = 0
              /\ \A n \in Live : canHandleQueryLocally(n, m.key) => Dist(e, n) >= m.hops
         ELSE executed[c] = 1 /\ Owned(m.key)

\* Of each client at most one datagram is in flight: its request, a query or an answer
\* on its way around the ring, or the reply.
Placed(m) ==
  \/ m.kind = "client" /\ executed[m.client] = 0 /\ m.hops = 0 /\ Forgotten(m.client)
  \/ m.kind = "internal" /\ \E e \in Live, j \in SlotIds : OnWay(m, e, j)
  \/ /\ m.kind = "reply" /\ Forgotten(m.client)
     /\ m.hops \in {0, Laps(m.client) * size}
     /\ executed[m.client] = IF Owned(m.key) THEN 1 ELSE 0

RInv ==
  /\ TypeOK
  /\ \A m1, m2 \in net : m1.client = m2.client => m1 = m2
  /\ \A c \in Clients : call[c] = NoCall => Forgotten(c) /\ \A m \in net : m.client # c
  /\ \A m \in net : Placed(m)

------------------------------------------------------------------------------
(* What the operators of the nodes do *)

\* the kinds of commands
Kinds == {"set", "get", "del", "ok", "nof", "val"}

\* Every command has one kind.
LEMMA KindIs ==
  /\ Kind("set") = "set" /\ Kind("get") = "get" /\ Kind("del") = "del"
  /\ Kind("xst") = "set" /\ Kind("xgt") = "get" /\ Kind("xdl") = "del"
  /\ Kind("xok") = "ok" /\ Kind("xnf") = "nof" /\ Kind("xvl") = "val"
  /\ Kind("ok!") = "ok" /\ Kind("nof") = "nof" /\ Kind("val") = "val"
BY DEF Kind, Internal, Upper

\* What the nodes say among themselves is as active as what it was made of.
LEMMA SpokenIs ==
  ASSUME NEW cmd \in Asking \cup Spoken \cup {"ok!", "nof", "val"}
  PROVE  /\ convertToInternalCommand(cmd) \in Spoken
         /\ isActiveQuery(convertToInternalCommand(cmd)) <=> isActiveQuery(cmd)
         /\ cmd \in Asking => isActiveQuery(cmd)
         /\ cmd \in {"ok!", "nof", "val"} => ~isActiveQuery(cmd)
<1>1. Spoken = {"xst", "xgt", "xdl", "xok", "xnf", "xvl"}
  BY DEF Spoken, Internal
<1>2. Internal = [set |-> "xst", get |-> "xgt", del |-> "xdl", ok |-> "xok",
                  nof |-> "xnf", val |-> "xvl"]
  BY DEF Internal
<1> QED BY <1>1, <1>2, KindIs DEF convertToInternalCommand, isActiveQuery, Asking

\* An answer is a query that is no longer active.
LEMMA AnswerIs ==
  ASSUME NEW t, NEW m, NEW extended, NEW reversed
  PROVE  LET q == Query(m, extended, reversed)
             a == Answer(t, q)
         IN  /\ a.client = q.client /\ a.key = q.key /\ a.hops = q.hops
             /\ a.extended = q.extended /\ a.reversed = q.reversed
             /\ a.cmd \in {"ok!", "nof", "val"}
<1> DEFINE q == Query(m, extended, reversed)
<1>1. CASE Kind(q.cmd) = "set"
  BY <1>1 DEF Answer, Query
<1>2. CASE Kind(q.cmd) = "get"
  BY <1>2 DEF Answer, Query
<1>3. CASE Kind(q.cmd) \notin {"set", "get"}
  BY <1>3 DEF Answer, Query
<1> QED BY <1>1, <1>2, <1>3

\* A set of naturals has a least element, which Min finds.
LEMMA MinIs ==
  ASSUME NEW S, S \subseteq Nat, S # {}
  PROVE  Min(S) \in S /\ \A y \in S : Min(S) <= y
<1>1. \E x \in S : \A y \in S : ~(<<y, x>> \in OpToRel(<, Nat))
  BY NatLessThanWellFounded, WFMin
<1>2. PICK x \in S : \A y \in S : ~(<<y, x>> \in OpToRel(<, Nat))
  BY <1>1
<1>3. \A y \in S : x <= y
  <2>1. SUFFICES ASSUME NEW y \in S, ~(x <= y) PROVE FALSE
    OBVIOUS
  <2>2. x \in Nat /\ y \in Nat /\ y < x
    BY <2>1
  <2>3. <<y, x>> \in OpToRel(<, Nat)
    BY <2>2 DEF OpToRel
  <2> QED BY <2>3, <1>2
<1> QED BY <1>3 DEF Min

\* Looking for the slot of a query finds one that holds it, or none does.
LEMMA SearchIs ==
  ASSUME NEW slots, NEW q
  PROVE  LET id == searchRequestId(slots, q)
             mine == [key |-> q.key, client |-> q.client]
         IN  \/ id = -1 /\ \A i \in SlotIds : slots[i] = mine => q.extended \/ q.reversed
             \/ id \in SlotIds /\ slots[id] = mine /\ ~q.extended /\ ~q.reversed
<1>1. PICK found : found = {i \in SlotIds : /\ slots[i] = [key |-> q.key, client |-> q.client]
                                           /\ ~q.extended
                                           /\ ~q.reversed}
  OBVIOUS
<1>2. found \subseteq Nat
  BY <1>1 DEF SlotIds
<1>3. found # {} => Min(found) \in found
  BY <1>2, MinIs
<1>4. searchRequestId(slots, q) = IF found = {} THEN -1 ELSE Min(found)
  BY <1>1 DEF searchRequestId
<1>5. CASE found = {}
  BY <1>1, <1>4, <1>5
<1>6. CASE found # {}
  BY <1>1, <1>3, <1>4, <1>6
<1> QED BY <1>5, <1>6

\* A search for an answer whose client is as it was written down finds it.
LEMMA SearchFinds ==
  ASSUME NEW slots, NEW q, NEW i \in SlotIds,
         slots[i] = [key |-> q.key, client |-> q.client],
         q.extended = FALSE, q.reversed = FALSE
  PROVE  /\ searchRequestId(slots, q) \in SlotIds
         /\ slots[searchRequestId(slots, q)] = [key |-> q.key, client |-> q.client]
BY SearchIs

\* Looking for a free slot finds one, or none is free.
LEMMA FreeIs ==
  ASSUME NEW slots
  PROVE  LET id == nextFreeRequestId(slots)
         IN  \/ id = -1
             \/ id \in SlotIds /\ slots[id] = Inactive
<1>1. PICK free : free = {i \in SlotIds : slots[i] = Inactive}
  OBVIOUS
<1>2. free \subseteq Nat
  BY <1>1 DEF SlotIds
<1>3. free # {} => Min(free) \in free
  BY <1>2, MinIs
<1>4. nextFreeRequestId(slots) = IF free = {} THEN -1 ELSE Min(free)
  BY <1>1 DEF nextFreeRequestId
<1>5. CASE free = {}
  BY <1>4, <1>5
<1>6. CASE free # {}
  BY <1>1, <1>3, <1>4, <1>6
<1> QED BY <1>5, <1>6


------------------------------------------------------------------------------
(* Places on the ring *)

\* The successor of a node is the next one, and node 0 that of the last one.
LEMMA SuccIs ==
  ASSUME size \in Nat \ {0}, NEW n \in Live
  PROVE  /\ Succ(n) \in Live
         /\ Succ(n) = IF n + 1 = size THEN 0 ELSE n + 1
<1>1. n \in Nat /\ n < size
  BY DEF Live
<1>2. CASE n + 1 = size
  <2>1. size % size = 0
    OBVIOUS
  <2> QED BY <1>1, <1>2, <2>1 DEF Succ, Live
<1>3. CASE n + 1 < size
  <2>1. (n + 1) % size = n + 1
    BY <1>1, <1>3
  <2> QED BY <1>1, <1>3, <2>1 DEF Succ, Live
<1> QED BY <1>1, <1>2, <1>3

\* Every node lies at a place of its own behind another, and its successor one further on.
LEMMA DistIs ==
  ASSUME size \in Nat \ {0}, NEW e \in Live, NEW n \in Live
  PROVE  /\ Dist(e, n) \in Live
         /\ Dist(e, n) = 0 <=> n = e
         /\ \A p \in Live : Dist(e, p) = Dist(e, n) => p = n
         /\ Dist(e, Succ(n)) = IF Dist(e, n) + 1 = size THEN 0 ELSE Dist(e, n) + 1
BY SuccIs DEF Dist, Live


\* The laps an answer makes, as a number of hops.
LEMMA LapsIs ==
  ASSUME size \in Nat \ {0}, NEW c
  PROVE  /\ size % 2 \in {0, 1}
         /\ Laps(c) * size = IF size % 2 = 0 \/ c \in EvenClients THEN size ELSE 2 * size
<1>1. CASE size % 2 = 0 \/ c \in EvenClients
  <2>1. Laps(c) = 1
    BY <1>1 DEF Laps
  <2> QED BY <1>1, <2>1
<1>2. CASE ~(size % 2 = 0 \/ c \in EvenClients)
  <2>1. Laps(c) = 2
    BY <1>2 DEF Laps
  <2> QED BY <1>2, <2>1
<1> QED BY <1>1, <1>2

\* The hops of a datagram still say where it is when the next node has it.
LEMMA NextHop ==
  ASSUME NEW s \in Nat \ {0}, NEW d \in 0..(s - 1), NEW h \in Nat, h > 0,
         h \in {d, d + s, d + 2 * s, 2 * s + 1},
         NEW d2, d2 = IF d + 1 = s THEN 0 ELSE d + 1,
         NEW h2, h2 = IF h + 1 <= 2 * s + 1 THEN h + 1 ELSE 2 * s + 1
  PROVE  h2 > 0 /\ h2 \in {d2, d2 + s, d2 + 2 * s, 2 * s + 1}
OBVIOUS

\* What a node sends on: the query, one hop further.
LEMMA PackIs ==
  ASSUME size \in Nat \ {0}, NEW n, NEW q, q.hops \in Nat
  PROVE  LET p == packDataForInternal(n, q)
         IN  /\ p.kind = "internal" /\ p.to = Succ(n)
             /\ p.cmd = convertToInternalCommand(q.cmd)
             /\ p.key = q.key /\ p.client = q.client /\ p.reversed = q.reversed
             /\ p.hops = IF q.hops + 1 <= 2 * size + 1 THEN q.hops + 1 ELSE 2 * size + 1
<1>1. {q.hops + 1, 2 * size + 1} \subseteq Nat
  OBVIOUS
<1>2. Min({q.hops + 1, 2 * size + 1})
        = IF q.hops + 1 <= 2 * size + 1 THEN q.hops + 1 ELSE 2 * size + 1
  BY <1>1, MinIs
<1> QED BY <1>2 DEF packDataForInternal


------------------------------------------------------------------------------
(* What a step leaves as it was *)

\* the tables have not worked for client c, and its slots are as they were
Alike(c) ==
  /\ executed'[c] = executed[c]
  /\ \A n \in Live, i \in SlotIds :
       (Held(n, i, c) \/ Held(n, i, c)') => requests'[n][i] = requests[n][i]

\* A client's slots are as before when none of them was touched.
LEMMA HeldAlike ==
  ASSUME size' = size, NEW c, Alike(c), NEW n \in Live, NEW i \in SlotIds
  PROVE  Held(n, i, c)' <=> Held(n, i, c)
BY DEF Alike, Held, SlotIds, Inactive

\* A datagram stays placed while the nodes work for other clients.
LEMMA Unmoved ==
  ASSUME size' = size, NEW m, Alike(m.client), Placed(m)
  PROVE  Placed(m)'
<1>1. Live' = Live /\ SlotIds' = SlotIds
  BY DEF Live, SlotIds
<1>2. Forgotten(m.client)' <=> Forgotten(m.client)
  BY <1>1, HeldAlike DEF Forgotten
<1>3. executed'[m.client] = executed[m.client]
  BY DEF Alike
<1>4. Laps(m.client)' = Laps(m.client) /\ (Owned(m.key)' <=> Owned(m.key))
  BY <1>1 DEF Laps, Owned, canHandleQueryLocally, hashKey41
<1>5. ASSUME NEW e \in Live, NEW j \in SlotIds, OnWay(m, e, j)
      PROVE  OnWay(m, e, j)'
  <2>1. \A n : Dist(e, n)' = Dist(e, n)
    BY DEF Dist
  <2>2. requests'[e][j].key = requests[e][j].key
    BY <1>5 DEF Alike, OnWay
  <2>3. \A n \in Live, i \in SlotIds : Held(n, i, m.client)' <=> Held(n, i, m.client)
    BY HeldAlike
  <2> QED BY <1>1, <1>3, <1>4, <1>5, <2>1, <2>2, <2>3
       DEF OnWay, canHandleQueryLocally, hashKey41
<1> QED BY <1>1, <1>2, <1>3, <1>4, <1>5 DEF Placed

\* A step for client c0 alone keeps the invariant if it leaves that client's datagram,
\* if any, in its place.
LEMMA ClientStep ==
  ASSUME RInv, NEW c0 \in Clients, NEW D,
         net' = {x \in net : x.client # c0} \cup D,
         \A d \in D : d.client = c0 /\ Typed(d) /\ Placed(d)',
         \A d1, d2 \in D : d1 = d2,
         size' = size, SlotsOK', DOMAIN call' = Clients, DOMAIN executed' = Clients,
         \A c \in Clients \ {c0} : Alike(c) /\ call'[c] = call[c],
         call'[c0] = NoCall => D = {} /\ Forgotten(c0)'
  PROVE  RInv'
<1>1. Live' = Live
  BY DEF Live
<1>2. TypeOK'
  <2>1. \A m : Typed(m)' <=> Typed(m)
    BY <1>1 DEF Typed
  <2> QED BY <2>1 DEF RInv, TypeOK
<1>3. \A m1, m2 \in net' : m1.client = m2.client => m1 = m2
  BY DEF RInv
<1>4. ASSUME NEW c \in Clients, call'[c] = NoCall
      PROVE  Forgotten(c)' /\ \A m \in net' : m.client # c
  <2>1. CASE c = c0
    BY <1>4, <2>1
  <2>2. CASE c # c0
    <3>1. Forgotten(c) /\ \A m \in net : m.client # c
      BY <1>4, <2>2 DEF RInv
    <3>2. Forgotten(c)'
      BY <1>1, <2>2, <3>1, HeldAlike DEF Forgotten, SlotIds
    <3> QED BY <2>2, <3>1, <3>2
  <2> QED BY <2>1, <2>2
<1>5. ASSUME NEW m \in net' PROVE Placed(m)'
  <2>1. CASE m \in D
    BY <2>1
  <2>2. CASE m \in net /\ m.client # c0
    <3>1. m.client \in Clients /\ Placed(m)
      BY <2>2 DEF RInv, TypeOK, Typed
    <3> QED BY <2>2, <3>1, Unmoved
  <2> QED BY <2>1, <2>2
<1> QED BY <1>2, <1>3, <1>4, <1>5 DEF RInv

\* A step that removes the datagram of client c0 and adds none keeps the invariant.
LEMMA ClientStepEmpty ==
  ASSUME RInv, NEW c0 \in Clients,
         net' = {x \in net : x.client # c0},
         size' = size, SlotsOK', DOMAIN call' = Clients, DOMAIN executed' = Clients,
         \A c \in Clients \ {c0} : Alike(c) /\ call'[c] = call[c],
         call'[c0] = NoCall => Forgotten(c0)'
  PROVE  RInv'
<1>1. PICK D : D = {}
  OBVIOUS
<1>2. /\ net' = {x \in net : x.client # c0} \cup D
      /\ \A d \in D : d.client = c0 /\ Typed(d) /\ Placed(d)'
      /\ \A d1, d2 \in D : d1 = d2
  BY <1>1
<1> QED BY <1>1, <1>2, ClientStep

\* Without its datagram, the others of a step for its client remain.
LEMMA Taken ==
  ASSUME RInv, NEW m \in net
  PROVE  net \ {m} = {x \in net : x.client # m.client} /\ call[m.client] # NoCall
BY DEF RInv, TypeOK, Typed



------------------------------------------------------------------------------
(* A datagram between nodes *)

\* q is the query or answer that node n has made of datagram m
Made(q, m) ==
  /\ q.client = m.client /\ q.key = m.key /\ q.hops = m.hops
  /\ q.extended = (m.client \in HighClients)
  /\ q.reversed = (m.client \notin EvenClients /\ ~m.reversed)
  /\ q.cmd \in Asking \cup Spoken \cup {"ok!", "nof", "val"}

\* What is unpacked has been made of the datagram, and the answer to it too.
LEMMA UnpackedIs ==
  ASSUME NEW m, Typed(m), m.kind = "internal", NEW t
  PROVE  /\ Made(unpackDataFromInternal(m), m)
         /\ unpackDataFromInternal(m).cmd = m.cmd
         /\ Made(Answer(t, unpackDataFromInternal(m)), m)
         /\ ~isActiveQuery(Answer(t, unpackDataFromInternal(m)).cmd)
<1>1. unpackDataFromInternal(m)
        = Query(m, m.client \in HighClients, m.client \notin EvenClients /\ ~m.reversed)
  BY DEF unpackDataFromInternal
<1> DEFINE q == Query(m, m.client \in HighClients, m.client \notin EvenClients /\ ~m.reversed)
<1>2. /\ q.client = m.client /\ q.key = m.key /\ q.hops = m.hops /\ q.cmd = m.cmd
      /\ q.extended = (m.client \in HighClients)
      /\ q.reversed = (m.client \notin EvenClients /\ ~m.reversed)
  BY Zenon DEF Query
<1>3. m.cmd \in Spoken
  BY DEF Typed
<1>4. Made(q, m)
  BY <1>2, <1>3, Zenon DEF Made
<1> DEFINE a == Answer(t, q)
<1>5. /\ a.client = q.client /\ a.key = q.key /\ a.hops = q.hops
      /\ a.extended = q.extended /\ a.reversed = q.reversed
      /\ a.cmd \in {"ok!", "nof", "val"}
  BY AnswerIs
<1>6. Made(a, m)
  BY <1>2, <1>5, Zenon DEF Made
<1>7. ~isActiveQuery(a.cmd)
  BY <1>5, SpokenIs
<1> QED BY <1>1, <1>2, <1>4, <1>6, <1>7

\* Where a datagram is, in plain numbers.
LEMMA WayIs ==
  ASSUME RInv, NEW m \in net, m.kind = "internal",
         NEW e \in Live, NEW j \in SlotIds, OnWay(m, e, j)
  PROVE  /\ size \in Nat \ {0} /\ m.to \in Live /\ m.hops \in Nat
         /\ Dist(e, m.to) \in 0..(size - 1)
         /\ m.hops > 0
         /\ m.hops \in {Dist(e, m.to), Dist(e, m.to) + size, Dist(e, m.to) + 2 * size,
                        2 * size + 1}
<1>1. size \in Nat \ {0} /\ m.to \in Live /\ m.hops \in Nat
  BY DEF RInv, TypeOK, Typed
<1>2. Dist(e, m.to) \in Live
  BY <1>1, DistIs
<1> QED BY <1>1, <1>2 DEF OnWay, Live

\* A search finds the slot of a datagram only where it set out, after its laps.
LEMMA FoundAtHome ==
  ASSUME RInv, NEW m \in net, m.kind = "internal",
         NEW e \in Live, NEW j \in SlotIds, OnWay(m, e, j),
         NEW q, Made(q, m), searchRequestId(requests[m.to], q) # -1
  PROVE  /\ m.to = e /\ searchRequestId(requests[m.to], q) = j
         /\ m.hops = Laps(m.client) * size
<1> DEFINE id == searchRequestId(requests[m.to], q)
           mine == [key |-> q.key, client |-> q.client]
           c == m.client
           d == Dist(e, m.to)
<1>0. size \in Nat \ {0} /\ m.hops \in Nat
  BY WayIs
<1>1. id \in SlotIds /\ requests[m.to][id] = mine /\ ~q.extended /\ ~q.reversed
  BY SearchIs
<1>2. m.key \in RingKeys /\ c \in Clients /\ 0 \notin RingKeys
  BY RingAssumption DEF RInv, TypeOK, Typed
<1>3. Held(m.to, id, c)
  <2>1. mine.key = m.key /\ mine.client = c
    BY DEF Made
  <2>2. mine # Inactive
    BY <1>2, <2>1 DEF Inactive
  <2> QED BY <1>1, <2>1, <2>2 DEF Held
<1>4. m.to = e /\ id = j
  BY <1>1, <1>3, WayIs DEF OnWay
<1>5. c \notin HighClients /\ (c \in EvenClients \/ m.reversed)
  BY <1>1 DEF Made
<1>6. m.hops <= Laps(c) * size /\ (m.reversed <=> c \notin EvenClients /\ m.hops % 2 = 0)
  BY <1>5 DEF OnWay
<1>7. d = 0
  BY <1>4, WayIs, DistIs
<1>8. /\ size % 2 \in {0, 1}
      /\ Laps(c) * size = IF size % 2 = 0 \/ c \in EvenClients THEN size ELSE 2 * size
  BY WayIs, LapsIs
<1>9. m.hops \in {size, 2 * size}
  BY <1>6, <1>7, <1>8, WayIs
<1>10. PICK laps : laps = Laps(c) * size
  OBVIOUS
<1>11. m.hops = laps
  <2>1. CASE size % 2 = 0 \/ c \in EvenClients
    <3>1. laps = size /\ m.hops <= laps
      BY <1>6, <1>8, <1>10, <2>1
    <3> QED BY <1>0, <1>9, <3>1
  <2>2. CASE ~(size % 2 = 0 \/ c \in EvenClients)
    <3>1. laps = 2 * size
      BY <1>8, <1>10, <2>2
    <3>2. m.hops % 2 = 0 /\ size % 2 = 1
      BY <1>5, <1>6, <1>8, <2>2
    <3> QED BY <1>0, <1>9, <3>1, <3>2
  <2> QED BY <2>1, <2>2
<1> QED BY <1>4, <1>10, <1>11

\* What no slot is found for goes one node further, and is still on its way.
LEMMA SentOn ==
  ASSUME RInv, NEW m \in net, m.kind = "internal",
         NEW e \in Live, NEW j \in SlotIds, OnWay(m, e, j),
         NEW q, Made(q, m), searchRequestId(requests[m.to], q) = -1,
         size' = size, requests' = requests,
         IF isActiveQuery(q.cmd)
         THEN /\ isActiveQuery(m.cmd) /\ executed' = executed
              /\ ~canHandleQueryLocally(m.to, m.key)
         ELSE executed'[m.client] = 1 /\ Owned(m.key),
         NEW p, p = packDataForInternal(m.to, q)
  PROVE  p.client = m.client /\ Typed(p) /\ Placed(p)'
<1> DEFINE c == m.client
           d == Dist(e, m.to)
           d2 == Dist(e, Succ(m.to))
<1>1. /\ m.client \in Clients /\ m.key \in RingKeys /\ m.reversed \in BOOLEAN
      /\ m.hops \in Nat /\ size \in Nat \ {0} /\ m.to \in Live
  BY DEF RInv, TypeOK, Typed
<1>2. /\ p.kind = "internal" /\ p.to = Succ(m.to)
      /\ p.cmd = convertToInternalCommand(q.cmd)
      /\ p.key = m.key /\ p.client = c /\ p.reversed = q.reversed
      /\ p.hops = IF m.hops + 1 <= 2 * size + 1 THEN m.hops + 1 ELSE 2 * size + 1
  BY <1>1, PackIs DEF Made
<1>3. p.cmd \in Spoken /\ (isActiveQuery(p.cmd) <=> isActiveQuery(q.cmd))
  BY <1>2, SpokenIs DEF Made
<1>4. p.to \in Live /\ p.hops \in Nat
  BY <1>1, <1>2, SuccIs
<1>5. p.reversed = (c \notin EvenClients /\ ~m.reversed) /\ p.reversed \in BOOLEAN
  BY <1>2, Zenon DEF Made
<1>6. p.hops > 0 /\ p.hops \in {d2, d2 + size, d2 + 2 * size, 2 * size + 1}
  <2>1. d2 = IF d + 1 = size THEN 0 ELSE d + 1
    BY <1>1, DistIs
  <2> QED BY <1>2, <2>1, WayIs, NextHop
<1>7. ASSUME c \notin HighClients
      PROVE  /\ p.hops = m.hops + 1
             /\ p.hops <= Laps(c) * size
             /\ p.reversed <=> c \notin EvenClients /\ p.hops % 2 = 0
  <2>1. m.hops <= Laps(c) * size /\ (m.reversed <=> c \notin EvenClients /\ m.hops % 2 = 0)
    BY <1>7 DEF OnWay
  <2>2. /\ size % 2 \in {0, 1}
        /\ Laps(c) * size = IF size % 2 = 0 \/ c \in EvenClients THEN size ELSE 2 * size
    BY <1>1, LapsIs
  <2>3. m.hops # Laps(c) * size
    <3>1. SUFFICES ASSUME m.hops = Laps(c) * size PROVE FALSE
      OBVIOUS
    <3>2. d = 0
      BY <2>2, <3>1, WayIs
    <3>3. m.to = e
      BY <1>1, <3>2, DistIs
    <3>4. m.hops % 2 = 0 \/ c \in EvenClients
      BY <1>1, <2>2, <3>1
    <3>5. ~q.extended /\ ~q.reversed
      BY <1>7, <2>1, <3>4 DEF Made
    <3>6. requests[e][j] # Inactive /\ requests[e][j].client = c /\ requests[e][j].key = m.key
      BY DEF OnWay, Held
    <3>7. requests[e][j] \in [key : RingKeys, client : Clients]
      BY <3>6 DEF RInv, TypeOK, SlotsOK
    <3>8. requests[e][j] = [key |-> q.key, client |-> q.client]
      BY <3>6, <3>7 DEF Made
    <3>9. requests[e][j] = [key |-> q.key, client |-> q.client] => q.extended \/ q.reversed
      <4>1. -1 \notin SlotIds
        BY DEF SlotIds
      <4> QED BY <3>3, <4>1, SearchIs, Zenon
    <3> QED BY <3>5, <3>8, <3>9, Zenon
  <2>4. p.hops = m.hops + 1 /\ p.hops <= Laps(c) * size
    BY <1>1, <1>2, <2>1, <2>2, <2>3
  <2>5. p.hops % 2 = 0 <=> m.hops % 2 # 0
    BY <1>1, <2>4
  <2> QED BY <1>5, <2>1, <2>4, <2>5, Zenon
<1>8. IF isActiveQuery(p.cmd)
      THEN /\ executed'[c] = 0
           /\ \A n \in Live : canHandleQueryLocally(n, m.key) => Dist(e, n) >= p.hops
      ELSE executed'[c] = 1 /\ Owned(m.key)
  <2>1. CASE isActiveQuery(q.cmd)
    <3>1. /\ executed'[c] = 0
          /\ \A n \in Live : canHandleQueryLocally(n, m.key) => Dist(e, n) >= m.hops
      BY <2>1 DEF OnWay
    <3>2. ASSUME NEW n \in Live, canHandleQueryLocally(n, m.key)
          PROVE  Dist(e, n) >= p.hops
      <4>1. n # m.to /\ Dist(e, n) >= m.hops
        BY <2>1, <3>1, <3>2
      <4>2. Dist(e, n) # d
        BY <1>1, <4>1, DistIs
      <4>3. Dist(e, n) \in 0..(size - 1)
        BY <1>1, DistIs DEF Live
      <4> QED BY <1>1, <1>2, <4>1, <4>2, <4>3, WayIs
    <3> QED BY <1>3, <2>1, <3>1, <3>2
  <2>2. CASE ~isActiveQuery(q.cmd)
    BY <1>3, <2>2
  <2> QED BY <2>1, <2>2
<1>9. Typed(p)
  BY <1>1, <1>2, <1>3, <1>4, <1>5 DEF Typed
<1>10. OnWay(p, e, j)'
  <2>1. /\ Live' = Live /\ SlotIds' = SlotIds
        /\ \A n : Dist(e, n)' = Dist(e, n)
        /\ Laps(c)' = Laps(c)
        /\ Owned(m.key)' <=> Owned(m.key)
        /\ \A n, i : Held(n, i, c)' <=> Held(n, i, c)
    BY DEF Live, SlotIds, Dist, Laps, Owned, canHandleQueryLocally, hashKey41, Held, Inactive
  <2>2. /\ \A n \in Live, i \in SlotIds : Held(n, i, c) <=> n = e /\ i = j
        /\ requests[e][j].key = m.key
    BY DEF OnWay
  <2>3. /\ \A n \in Live', i \in SlotIds' : Held(n, i, p.client)' <=> n = e /\ i = j
        /\ requests'[e][j].key = p.key
    BY <1>2, <2>1, <2>2
  <2>4. /\ p.hops > 0
        /\ p.hops \in {Dist(e, p.to)', Dist(e, p.to)' + size', Dist(e, p.to)' + 2 * size',
                       2 * size' + 1}
    BY <1>2, <1>6, <2>1
  <2>5. p.client \notin HighClients =>
          /\ p.hops <= Laps(p.client)' * size'
          /\ p.reversed <=> p.client \notin EvenClients /\ p.hops % 2 = 0
    BY <1>2, <1>7, <2>1
  <2>6. IF isActiveQuery(p.cmd)
        THEN /\ executed'[p.client] = 0
             /\ \A n \in Live' :
                  canHandleQueryLocally(n, p.key) => Dist(e, n)' >= p.hops
        ELSE executed'[p.client] = 1 /\ Owned(p.key)'
    BY <1>2, <1>8, <2>1
  <2> QED BY <2>3, <2>4, <2>5, <2>6 DEF OnWay
<1>11. Placed(p)'
  BY <1>2, <1>10 DEF Placed, Live, SlotIds
<1> QED BY <1>2, <1>9, <1>11


\* A node that forwards what it has made of a datagram keeps the invariant, whether it
\* sends it on or finds its client's slot.
LEMMA ForwardStep ==
  ASSUME RInv, NEW m \in net, m.kind = "internal", NEW q, Made(q, m),
         forwardQuery(m.to, requests[m.to], net \ {m}, q),
         size' = size, call' = call, DOMAIN executed' = Clients,
         \A c \in Clients \ {m.client} : executed'[c] = executed[c],
         IF isActiveQuery(q.cmd)
         THEN /\ isActiveQuery(m.cmd) /\ executed' = executed
              /\ ~canHandleQueryLocally(m.to, m.key)
         ELSE executed'[m.client] = 1 /\ Owned(m.key)
  PROVE  RInv'
<1> DEFINE c == m.client
           id == searchRequestId(requests[m.to], q)
<1>1. PICK e \in Live, j \in SlotIds : OnWay(m, e, j)
  BY DEF RInv, Placed
<1>2. /\ Typed(m) /\ m.to \in Live /\ c \in Clients /\ m.key \in RingKeys
      /\ size \in Nat \ {0} /\ m.hops \in Nat /\ SlotsOK /\ DOMAIN call = Clients
  BY DEF RInv, TypeOK, Typed
<1>3. net \ {m} = {x \in net : x.client # c} /\ call[c] # NoCall
  BY Taken
<1>4. Live' = Live /\ SlotIds' = SlotIds
  BY DEF Live, SlotIds
<1>5. CASE id = -1
  <2>1. PICK p : p = packDataForInternal(m.to, q)
    OBVIOUS
  <2>2. requests' = requests
    <3>1. requests' = [requests EXCEPT ![m.to] = requests[m.to]]
      BY <1>5 DEF forwardQuery, forceForwardQuery
    <3> QED BY <1>2, <3>1 DEF SlotsOK
  <2>3. net' = {x \in net : x.client # c} \cup {p}
    BY <1>3, <1>5, <2>1 DEF forwardQuery, forceForwardQuery
  <2>4. p.client = c /\ Typed(p) /\ Placed(p)'
    BY <1>1, <1>5, <2>1, <2>2, SentOn
  <2>5. SlotsOK'
    BY <1>2, <1>4, <2>2 DEF SlotsOK, Inactive
  <2>6. \A d \in Clients \ {c} : Alike(d)
    BY <2>2 DEF Alike
  <2>7. PICK D : D = {p}
    OBVIOUS
  <2>8. /\ net' = {x \in net : x.client # c} \cup D
        /\ \A d \in D : d.client = c /\ Typed(d) /\ Placed(d)'
        /\ \A d1, d2 \in D : d1 = d2
    BY <2>3, <2>4, <2>7
  <2> QED BY <1>2, <1>3, <2>5, <2>6, <2>8, ClientStep
<1>6. CASE id # -1
  <2>1. m.to = e /\ id = j /\ m.hops = Laps(c) * size
    BY <1>1, <1>6, FoundAtHome
  <2>2. PICK p : p = packData("reply", q.client, convertToClientCommand(q.cmd), q)
    OBVIOUS
  <2>3. /\ p.kind = "reply" /\ p.to = c /\ p.client = c /\ p.key = m.key
        /\ p.reversed = FALSE /\ p.hops = m.hops
    BY <2>2 DEF packData, Made
  <2>4. requests' = [requests EXCEPT ![e] = [requests[e] EXCEPT ![j] = Inactive]]
    BY <1>6, <2>1 DEF forwardQuery
  <2>5. net' = {x \in net : x.client # c} \cup {p}
    BY <1>3, <1>6, <2>2 DEF forwardQuery
  <2>6. SlotsOK'
    BY <1>2, <1>4, <2>4 DEF SlotsOK, Inactive
  <2>7. \A n \in Live, i \in SlotIds :
          requests'[n][i] = IF n = e /\ i = j THEN Inactive ELSE requests[n][i]
    BY <1>2, <2>4 DEF SlotsOK
  <2>8. Forgotten(c)'
    <3>1. \A n \in Live, i \in SlotIds : Held(n, i, c) <=> n = e /\ i = j
      BY <1>1 DEF OnWay
    <3> QED BY <1>4, <2>7, <3>1 DEF Forgotten, Held, Inactive
  <2>9. \A d \in Clients \ {c} : Alike(d)
    <3>1. Held(e, j, c)
      BY <1>1 DEF OnWay
    <3> QED BY <2>7, <3>1 DEF Alike, Held, Inactive
  <2>10. executed'[c] = IF Owned(m.key) THEN 1 ELSE 0
    <3>1. CASE isActiveQuery(q.cmd)
      <4>1. /\ executed'[c] = 0
            /\ \A n \in Live : canHandleQueryLocally(n, m.key) => Dist(e, n) >= m.hops
        BY <1>1, <3>1 DEF OnWay
      <4>2. m.hops >= size
        BY <1>2, <2>1, LapsIs
      <4>3. ASSUME NEW n \in Live, canHandleQueryLocally(n, m.key) PROVE FALSE
        <5>1. Dist(e, n) \in 0..(size - 1) /\ Dist(e, n) >= m.hops
          BY <1>2, <4>1, <4>3, DistIs DEF Live
        <5> QED BY <1>2, <4>2, <5>1
      <4> QED BY <4>1, <4>3 DEF Owned
    <3>2. CASE ~isActiveQuery(q.cmd)
      BY <3>2
    <3> QED BY <3>1, <3>2
  <2>11. Placed(p)'
    <3>1. Laps(c)' = Laps(c) /\ (Owned(m.key)' <=> Owned(m.key))
      BY <1>4 DEF Laps, Owned, canHandleQueryLocally, hashKey41
    <3>2. p.hops \in {0, Laps(p.client)' * size'}
      BY <2>1, <2>3, <3>1
    <3>3. executed'[p.client] = IF Owned(p.key)' THEN 1 ELSE 0
      BY <2>3, <2>10, <3>1
    <3> QED BY <2>3, <2>8, <3>2, <3>3 DEF Placed
  <2>12. Typed(p)
    BY <1>2, <2>3 DEF Typed
  <2>13. PICK D : D = {p}
    OBVIOUS
  <2>14. /\ net' = {x \in net : x.client # c} \cup D
         /\ \A d \in D : d.client = c /\ Typed(d) /\ Placed(d)'
         /\ \A d1, d2 \in D : d1 = d2
    BY <2>3, <2>5, <2>11, <2>12, <2>13
  <2> QED BY <1>2, <1>3, <2>6, <2>9, <2>14, ClientStep
<1> QED BY <1>5, <1>6

\* A node that reads a datagram of another keeps the invariant.
LEMMA InternalStep ==
  ASSUME RInv, NEW m \in net, NEW n \in Live, ReceiveInternal(n, m)
  PROVE  RInv'
<1> DEFINE c == m.client
           q == unpackDataFromInternal(m)
           a == Answer(store[n], q)
<1>1. /\ m.kind = "internal" /\ m.to = n /\ size' = size /\ call' = call
      /\ Typed(m) /\ c \in Clients /\ size \in Nat \ {0} /\ DOMAIN executed = Clients
  BY DEF ReceiveInternal, Reads, isInternalCommunication, clientVars, RInv, TypeOK, Typed
<1>2. /\ Made(q, m) /\ q.cmd = m.cmd
      /\ Made(a, m) /\ ~isActiveQuery(a.cmd)
  BY <1>1, UnpackedIs
<1>3. PICK e \in Live, j \in SlotIds : OnWay(m, e, j)
  BY <1>1 DEF RInv, Placed
<1>4. q.client = c /\ q.key = m.key
  BY <1>2 DEF Made
<1>5. CASE isActiveQuery(m.cmd) /\ canHandleQueryLocally(n, m.key)
  <2>1. handleQuery(n, requests[n], net \ {m}, q)
    BY <1>2, <1>4, <1>5 DEF ReceiveInternal
  <2>2. /\ executed' = [executed EXCEPT ![c] = executed[c] + 1]
        /\ forwardQuery(n, requests[n], net \ {m}, a)
    BY <1>4, <2>1 DEF handleQuery
  <2>3. executed[c] = 0
    BY <1>3, <1>5 DEF OnWay
  <2>4. /\ executed'[c] = 1 /\ DOMAIN executed' = Clients
        /\ \A d \in Clients \ {c} : executed'[d] = executed[d]
    BY <1>1, <2>2, <2>3
  <2>5. Owned(m.key)
    BY <1>5 DEF Owned
  <2> QED BY <1>1, <1>2, <2>2, <2>4, <2>5, ForwardStep
<1>6. CASE ~(isActiveQuery(m.cmd) /\ canHandleQueryLocally(n, m.key))
  <2>1. forwardQuery(n, requests[n], net \ {m}, q) /\ executed' = executed
    BY <1>2, <1>4, <1>6 DEF ReceiveInternal
  <2>2. ~isActiveQuery(m.cmd) => executed[c] = 1 /\ Owned(m.key)
    BY <1>3 DEF OnWay
  <2> QED BY <1>1, <1>2, <1>6, <2>1, <2>2, ForwardStep
<1> QED BY <1>5, <1>6



------------------------------------------------------------------------------
(* Requests of clients *)

\* the slots of node n when the request of m is written to slot id
Filled(slots, n, id, m) ==
  slots = [requests[n] EXCEPT ![id] = [key |-> m.key, client |-> m.client]]

\* A table that works on a request answers it at once: its slot is found and cleared.
LEMMA AnsweredAtOnce ==
  ASSUME RInv, NEW m \in net, m.kind = "client", NEW n \in Live, NEW id \in SlotIds,
         NEW slots, Filled(slots, n, id, m),
         requests[n][id] = Inactive,
         size' = size, call' = call, canHandleQueryLocally(n, m.key),
         handleQuery(n, slots, net \ {m}, Query(m, FALSE, FALSE))
  PROVE  RInv'
<1> DEFINE c == m.client
           q == Query(m, FALSE, FALSE)
<1>1. /\ Typed(m) /\ m.cmd \in Asking /\ c \in Clients /\ m.key \in RingKeys /\ 0 \notin RingKeys
      /\ size \in Nat \ {0} /\ m.hops = 0 /\ SlotsOK /\ DOMAIN call = Clients
      /\ DOMAIN executed = Clients /\ executed[c] = 0 /\ Forgotten(c)
  BY RingAssumption DEF RInv, TypeOK, Typed, Placed
<1>2. net \ {m} = {x \in net : x.client # c} /\ call[c] # NoCall
  BY Taken
<1>3. Live' = Live /\ SlotIds' = SlotIds
  BY DEF Live, SlotIds
<1>4. PICK a : a = Answer(store[n], q)
  OBVIOUS
<1>5. /\ q.client = c /\ q.key = m.key /\ q.hops = 0
      /\ a.client = c /\ a.key = m.key /\ a.hops = 0
      /\ a.extended = FALSE /\ a.reversed = FALSE
  BY <1>1, <1>4, AnswerIs DEF Query
<1>6. /\ executed' = [executed EXCEPT ![c] = executed[c] + 1]
      /\ forwardQuery(n, slots, net \ {m}, a)
  BY <1>4, <1>5 DEF handleQuery
<1>7. /\ executed'[c] = 1 /\ DOMAIN executed' = Clients
      /\ \A d \in Clients \ {c} : executed'[d] = executed[d]
  BY <1>1, <1>6
<1>8. slots[id] = [key |-> a.key, client |-> a.client] /\ -1 \notin SlotIds
  <2>1. slots[id] = [key |-> m.key, client |-> m.client]
    BY <1>1 DEF SlotsOK, Filled
  <2>2. -1 \notin SlotIds
    BY DEF SlotIds
  <2> QED BY <1>5, <2>1, <2>2, Zenon
<1>9. PICK found : found = searchRequestId(slots, a)
  OBVIOUS
<1>10. /\ found \in SlotIds
       /\ slots[found] = [key |-> a.key, client |-> a.client]
  BY <1>5, <1>8, <1>9, SearchFinds, ZenonT(30)
<1>11. found = id
  <2>1. SUFFICES ASSUME found # id PROVE FALSE
    OBVIOUS
  <2>2. requests[n][found] = [key |-> m.key, client |-> c]
    BY <1>1, <1>5, <1>10, <2>1 DEF SlotsOK, Filled
  <2>3. Held(n, found, c)
    BY <1>1, <2>2 DEF Held, Inactive
  <2> QED BY <1>1, <1>10, <2>3 DEF Forgotten
<1>12. PICK p : p = packData("reply", a.client, convertToClientCommand(a.cmd), a)
  OBVIOUS
<1>13. /\ p.kind = "reply" /\ p.to = c /\ p.client = c /\ p.key = m.key
       /\ p.reversed = FALSE /\ p.hops = 0
  BY <1>5, <1>12 DEF packData
<1>14. /\ requests' = [requests EXCEPT ![n] = [slots EXCEPT ![id] = Inactive]]
       /\ net' = {x \in net : x.client # c} \cup {p}
  BY <1>2, <1>6, <1>8, <1>9, <1>11, <1>12 DEF forwardQuery
<1>15. requests' = requests
  BY <1>1, <1>14 DEF SlotsOK, Filled
<1>16. Forgotten(c)' /\ SlotsOK'
  BY <1>1, <1>3, <1>15 DEF Forgotten, Held, SlotsOK, Inactive
<1>17. \A d \in Clients \ {c} : Alike(d)
  BY <1>7, <1>15 DEF Alike
<1>18. Owned(m.key)'
  BY <1>3 DEF Owned, canHandleQueryLocally, hashKey41
<1>19. Typed(p) /\ Placed(p)'
  BY <1>1, <1>7, <1>13, <1>16, <1>18 DEF Typed, Placed
<1>20. PICK D : D = {p}
  OBVIOUS
<1>21. /\ net' = {x \in net : x.client # c} \cup D
       /\ \A d \in D : d.client = c /\ Typed(d) /\ Placed(d)'
       /\ \A d1, d2 \in D : d1 = d2
  BY <1>13, <1>14, <1>19, <1>20
<1> QED BY <1>1, <1>2, <1>7, <1>16, <1>17, <1>21, ClientStep

\* A request for another node sets out on its way.
LEMMA SetsOut ==
  ASSUME RInv, NEW m \in net, m.kind = "client", NEW n \in Live, NEW id \in SlotIds,
         NEW slots, Filled(slots, n, id, m),
         requests[n][id] = Inactive,
         size' = size, call' = call, executed' = executed,
         ~canHandleQueryLocally(n, m.key),
         forceForwardQuery(n, slots, net \ {m}, Query(m, FALSE, FALSE))
  PROVE  RInv'
<1> DEFINE c == m.client
           q == Query(m, FALSE, FALSE)
<1>1. /\ Typed(m) /\ m.cmd \in Asking /\ c \in Clients /\ m.key \in RingKeys /\ 0 \notin RingKeys
      /\ size \in Nat \ {0} /\ m.hops = 0 /\ SlotsOK /\ DOMAIN call = Clients
      /\ DOMAIN executed = Clients /\ executed[c] = 0 /\ Forgotten(c)
  BY RingAssumption DEF RInv, TypeOK, Typed, Placed
<1>2. net \ {m} = {x \in net : x.client # c} /\ call[c] # NoCall
  BY Taken
<1>3. Live' = Live /\ SlotIds' = SlotIds
  BY DEF Live, SlotIds
<1>4. /\ q.client = c /\ q.key = m.key /\ q.hops = 0 /\ q.cmd = m.cmd
      /\ q.reversed = FALSE
  BY <1>1 DEF Query
<1>5. PICK p : p = packDataForInternal(n, q)
  OBVIOUS
<1>6. /\ p.kind = "internal" /\ p.to = Succ(n)
      /\ p.cmd = convertToInternalCommand(m.cmd)
      /\ p.key = m.key /\ p.client = c /\ p.reversed = FALSE /\ p.hops = 1
      /\ p.reversed \in BOOLEAN
  <2>1. /\ p.kind = "internal" /\ p.to = Succ(n)
        /\ p.cmd = convertToInternalCommand(q.cmd)
        /\ p.key = q.key /\ p.client = q.client /\ p.reversed = q.reversed
        /\ p.hops = IF q.hops + 1 <= 2 * size + 1 THEN q.hops + 1 ELSE 2 * size + 1
    <3>1. 0 \in Nat
      OBVIOUS
    <3>2. q.hops \in Nat
      BY <1>4, <3>1, Zenon
    <3> QED BY <1>1, <1>5, <3>2, PackIs, Zenon
  <2>2. p.hops = 1
    <3>1. p.hops = IF 0 + 1 <= 2 * size + 1 THEN 0 + 1 ELSE 2 * size + 1
      BY <1>4, <2>1, Zenon
    <3> QED BY <1>1, <3>1
  <2> QED BY <1>4, <2>1, <2>2, Zenon
<1>7. p.cmd \in Spoken /\ isActiveQuery(p.cmd)
  BY <1>1, <1>6, SpokenIs
<1>8. p.to \in Live
  BY <1>1, <1>6, SuccIs
<1>9. Typed(p)
  BY <1>1, <1>6, <1>7, <1>8 DEF Typed
<1>10. /\ requests' = [requests EXCEPT ![n] = slots]
       /\ net' = {x \in net : x.client # c} \cup {p}
  BY <1>2, <1>5 DEF forceForwardQuery
<1>11. PICK mine : mine = [key |-> m.key, client |-> c]
  OBVIOUS
<1>12. mine \in [key : RingKeys, client : Clients] /\ mine # Inactive
       /\ mine.client = c /\ mine.key = m.key
  BY <1>1, <1>11 DEF Inactive
<1>13. \A k \in Live, i \in SlotIds :
         requests'[k][i] = IF k = n /\ i = id THEN mine ELSE requests[k][i]
  BY <1>1, <1>10, <1>11 DEF SlotsOK, Filled
<1>14. SlotsOK'
  <2>1. slots \in [SlotIds -> [key : RingKeys, client : Clients] \cup {Inactive}]
    BY <1>1, <1>11, <1>12 DEF SlotsOK, Filled
  <2> QED BY <1>1, <1>3, <1>10, <2>1 DEF SlotsOK, Inactive
<1>15. \A d \in Clients \ {c} : Alike(d)
  BY <1>12, <1>13 DEF Alike, Held, Inactive
<1>16. OnWay(p, n, id)'
  <2>1. \A k \in Live', i \in SlotIds' : Held(k, i, p.client)' <=> k = n /\ i = id
    <3>1. \A k \in Live, i \in SlotIds : ~Held(k, i, c)
      BY <1>1 DEF Forgotten
    <3> QED BY <1>3, <1>6, <1>12, <1>13, <3>1 DEF Held, Inactive
  <2>2. requests'[n][id].key = p.key
    BY <1>6, <1>12, <1>13
  <2>3. Dist(n, p.to)' = IF size = 1 THEN 0 ELSE 1
    BY <1>1, <1>6, DistIs DEF Dist
  <2>4. /\ p.hops > 0
        /\ p.hops \in {Dist(n, p.to)', Dist(n, p.to)' + size', Dist(n, p.to)' + 2 * size',
                       2 * size' + 1}
    BY <1>1, <1>6, <2>3
  <2>5. p.client \notin HighClients =>
          /\ p.hops <= Laps(p.client)' * size'
          /\ p.reversed <=> p.client \notin EvenClients /\ p.hops % 2 = 0
    <3>1. Laps(c)' = Laps(c)
      BY DEF Laps
    <3>2. Laps(c) * size >= 1
      BY <1>1, LapsIs
    <3>3. 1 % 2 = 1
      OBVIOUS
    <3> QED BY <1>6, <3>1, <3>2, <3>3
  <2>6. executed'[p.client] = 0
    BY <1>1, <1>6
  <2>7. ASSUME NEW k \in Live, canHandleQueryLocally(k, m.key)
        PROVE  Dist(n, k) >= p.hops
    <3>1. k # n
      BY <2>7
    <3>2. Dist(n, k) # 0 /\ Dist(n, k) \in 0..(size - 1)
      BY <1>1, <3>1, DistIs DEF Live
    <3> QED BY <1>1, <1>6, <3>2
  <2>8. \A k \in Live' : canHandleQueryLocally(k, p.key) => Dist(n, k)' >= p.hops
    BY <1>3, <1>6, <2>7 DEF Dist
  <2> QED BY <1>7, <2>1, <2>2, <2>4, <2>5, <2>6, <2>8 DEF OnWay
<1>17. Placed(p)'
  BY <1>3, <1>6, <1>16 DEF Placed
<1>18. PICK D : D = {p}
  OBVIOUS
<1>19. /\ net' = {x \in net : x.client # c} \cup D
       /\ \A d \in D : d.client = c /\ Typed(d) /\ Placed(d)'
       /\ \A d1, d2 \in D : d1 = d2
  BY <1>6, <1>9, <1>10, <1>17, <1>18
<1> QED BY <1>1, <1>2, <1>14, <1>15, <1>19, ClientStep

\* A node that reads the request of a client keeps the invariant.
LEMMA ClientRequestStep ==
  ASSUME RInv, NEW m \in net, NEW n \in Live, ReceiveClient(n, m)
  PROVE  RInv'
<1> DEFINE q == Query(m, FALSE, FALSE)
<1>1. PICK id : id = nextFreeRequestId(requests[n])
  OBVIOUS
<1>2. PICK slots : slots = [requests[n] EXCEPT ![id] = [key |-> m.key, client |-> m.client]]
  OBVIOUS
<1>3. /\ m.kind = "client" /\ size' = size /\ call' = call /\ id # -1
      /\ q.key = m.key /\ q.client = m.client
  BY <1>1 DEF ReceiveClient, Reads, isInternalCommunication, clientVars, RInv, TypeOK,
       Typed, Query
<1>4. id \in SlotIds /\ requests[n][id] = Inactive
  BY <1>1, <1>3, FreeIs
<1>5. CASE canHandleQueryLocally(n, m.key)
  <2>1. handleQuery(n, slots, net \ {m}, q)
    BY <1>1, <1>2, <1>3, <1>5 DEF ReceiveClient
  <2> QED BY <1>2, <1>3, <1>4, <1>5, <2>1, AnsweredAtOnce DEF Filled
<1>6. CASE ~canHandleQueryLocally(n, m.key)
  <2>1. forceForwardQuery(n, slots, net \ {m}, q) /\ executed' = executed
    BY <1>1, <1>2, <1>3, <1>6 DEF ReceiveClient
  <2> QED BY <1>2, <1>3, <1>4, <1>6, <2>1, SetsOut DEF Filled
<1> QED BY <1>5, <1>6



------------------------------------------------------------------------------
(* The other steps *)

\* A step that takes a datagram away, and leaves slots and calls alone, keeps the
\* invariant.
LEMMA TakesAway ==
  ASSUME RInv, NEW m \in net, net' = net \ {m},
         size' = size, requests' = requests, executed' = executed, call' = call
  PROVE  RInv'
<1> DEFINE c == m.client
<1>1. c \in Clients /\ SlotsOK /\ DOMAIN call = Clients /\ DOMAIN executed = Clients
  BY DEF RInv, TypeOK, Typed
<1>2. net' = {x \in net : x.client # c} /\ call[c] # NoCall
  BY Taken
<1>3. SlotsOK'
  BY <1>1 DEF SlotsOK, Live, SlotIds, Inactive
<1>4. \A d \in Clients \ {c} : Alike(d)
  BY DEF Alike
<1> QED BY <1>1, <1>2, <1>3, <1>4, ClientStepEmpty

\* A client that receives its reply is in no slot any more.
LEMMA ReceiveStep ==
  ASSUME RInv, NEW m \in net, NEW c \in Clients, Receive(c, m)
  PROVE  RInv'
<1>1. /\ m.kind = "reply" /\ m.to = c /\ net' = net \ {m}
      /\ call' = [call EXCEPT ![c] = NoCall]
      /\ size' = size /\ requests' = requests /\ executed' = executed
  BY DEF Receive, nodeVars
<1>2. /\ m.client = c /\ SlotsOK /\ DOMAIN call = Clients /\ DOMAIN executed = Clients
      /\ Forgotten(c)
  BY <1>1 DEF RInv, TypeOK, Typed, Placed
<1>3. net' = {x \in net : x.client # c}
  BY <1>1, <1>2, Taken
<1>4. SlotsOK' /\ Forgotten(c)'
  BY <1>1, <1>2 DEF SlotsOK, Live, SlotIds, Inactive, Forgotten, Held
<1>5. \A d \in Clients \ {c} : Alike(d) /\ call'[d] = call[d]
  BY <1>1, <1>2 DEF Alike
<1>6. DOMAIN call' = Clients /\ DOMAIN executed' = Clients
  BY <1>1, <1>2
<1> QED BY <1>1, <1>3, <1>4, <1>5, <1>6, ClientStepEmpty

\* A client that calls has no datagram in flight and no slot.
LEMMA SendStep ==
  ASSUME RInv, NEW c \in Clients, NEW n \in Live, NEW q \in Calls, Send(c, n, q)
  PROVE  RInv'
<1>1. PICK p : p = packData("client", n, q.cmd,
                            [key |-> q.key, value |-> q.value, client |-> c, hops |-> 0])
  OBVIOUS
<1>2. /\ call[c] = NoCall /\ call' = [call EXCEPT ![c] = q]
      /\ executed' = [executed EXCEPT ![c] = 0] /\ net' = net \cup {p}
      /\ size' = size /\ requests' = requests
  BY <1>1 DEF Send, nodeVars
<1>3. /\ SlotsOK /\ DOMAIN call = Clients /\ DOMAIN executed = Clients
      /\ Forgotten(c) /\ \A m \in net : m.client # c
  BY <1>2 DEF RInv, TypeOK
<1>4. q.cmd \in Asking /\ q.key \in RingKeys /\ q # NoCall
  BY DEF Calls, Asking, NoCall
<1>5. /\ p.kind = "client" /\ p.to = n /\ p.cmd = q.cmd /\ p.key = q.key
      /\ p.client = c /\ p.reversed = FALSE /\ p.hops = 0
  BY <1>1 DEF packData
<1>6. Typed(p)
  <2>1. p.reversed \in BOOLEAN
    BY <1>5, Zenon
  <2>2. 0 \in Nat
    OBVIOUS
  <2> QED BY <1>4, <1>5, <2>1, <2>2, Zenon DEF Typed
<1>7. SlotsOK' /\ Forgotten(c)'
  BY <1>2, <1>3 DEF SlotsOK, Live, SlotIds, Inactive, Forgotten, Held
<1>8. /\ DOMAIN call' = Clients /\ DOMAIN executed' = Clients
      /\ call'[c] # NoCall /\ executed'[c] = 0
  BY <1>2, <1>3, <1>4
<1>9. Placed(p)'
  BY <1>5, <1>7, <1>8 DEF Placed
<1>10. \A d \in Clients \ {c} : Alike(d) /\ call'[d] = call[d]
  BY <1>2, <1>3 DEF Alike
<1>11. PICK D : D = {p}
  OBVIOUS
<1>12. /\ net' = {x \in net : x.client # c} \cup D
       /\ \A d \in D : d.client = c /\ Typed(d) /\ Placed(d)'
       /\ \A d1, d2 \in D : d1 = d2
  BY <1>2, <1>3, <1>5, <1>6, <1>9, <1>11
<1> QED BY <1>2, <1>7, <1>8, <1>10, <1>12, ClientStep

\* The invariant holds when a ring starts: nothing is on its way.
LEMMA RInvInit ==
  ASSUME RingInit
  PROVE  RInv
<1>1. size \in Nat \ {0}
  BY RingAssumption DEF RingInit
<1>2. TypeOK
  BY <1>1 DEF RingInit, TypeOK, SlotsOK
<1>3. \A c \in Clients : Forgotten(c)
  BY DEF RingInit, Forgotten, Held
<1> QED BY <1>2, <1>3 DEF RingInit, RInv

\* No step breaks the invariant.
LEMMA RInvStep ==
  ASSUME RInv, [RingNext]_ringVars
  PROVE  RInv'
<1>1. ASSUME NEW m \in net, NEW n \in Live, ReceiveInternal(n, m)
      PROVE  RInv'
  BY <1>1, InternalStep
<1>2. ASSUME NEW m \in net, NEW n \in Live, ReceiveClient(n, m)
      PROVE  RInv'
  BY <1>2, ClientRequestStep
<1>3. ASSUME NEW m \in net, NEW n \in Live, Overrun(n, m)
      PROVE  RInv'
  BY <1>3, TakesAway DEF Overrun, clientVars
<1>4. ASSUME NEW m \in net, NEW c \in Clients, Receive(c, m)
      PROVE  RInv'
  BY <1>4, ReceiveStep
<1>5. ASSUME NEW m \in net, Lose(m)
      PROVE  RInv'
  BY <1>5, TakesAway DEF Lose, nodeVars, clientVars
<1>6. ASSUME NEW c \in Clients, NEW n \in Live, NEW q \in Calls, Send(c, n, q)
      PROVE  RInv'
  BY <1>6, SendStep
<1>7. ASSUME UNCHANGED ringVars
      PROVE  RInv'
  <2>1. /\ size' = size /\ requests' = requests /\ executed' = executed
        /\ call' = call /\ net' = net
    BY <1>7 DEF ringVars, nodeVars, clientVars
  <2>2. TypeOK'
    BY <2>1 DEF RInv, TypeOK, SlotsOK, Live, SlotIds, Inactive, Typed
  <2>3. \A m \in net : Placed(m)'
    BY <2>1, Unmoved DEF RInv, Alike
  <2>4. \A c : Forgotten(c)' <=> Forgotten(c)
    BY <2>1 DEF Forgotten, Held, Live, SlotIds, Inactive
  <2> QED BY <2>1, <2>2, <2>3, <2>4 DEF RInv
<1> QED BY <1>1, <1>2, <1>3, <1>4, <1>5, <1>6, <1>7 DEF RingNext, Step

\* The invariant is why answers come home.
LEMMA RInvHome ==
  ASSUME RInv
  PROVE  HomeAfterLaps
<1>1. ASSUME NEW m \in net
      PROVE  /\ executed[m.client] <= 1
             /\ m.kind = "internal" /\ m.client \notin HighClients
                  => m.hops <= Laps(m.client) * size
             /\ m.kind = "reply" =>
                  /\ m.hops \in {0, Laps(m.client) * size}
                  /\ executed[m.client] = IF Owned(m.key) THEN 1 ELSE 0
  <2>1. CASE m.kind = "client" /\ executed[m.client] = 0
    BY <2>1
  <2>2. CASE m.kind = "internal" /\ \E e \in Live, j \in SlotIds : OnWay(m, e, j)
    BY <2>2 DEF OnWay
  <2>3. CASE /\ m.kind = "reply" /\ m.hops \in {0, Laps(m.client) * size}
             /\ executed[m.client] = IF Owned(m.key) THEN 1 ELSE 0
    BY <2>3
  <2> QED BY <2>1, <2>2, <2>3 DEF RInv, Placed
<1> QED BY <1>1 DEF HomeAfterLaps

\* In a ring of any number of nodes, slots and clients, an answer is recognised when it
\* comes by its entry node after one lap, or after two in a ring of odd size (the port is
\* reversed on every hop), and on the way a table has worked on the call once, or never
\* if no node stores its key (unpackDataFromInternal, forwardQuery, handleQuery).
THEOREM DatagramsComeHome == RingSpec => []HomeAfterLaps
<1>1. RingInit => RInv
  BY RInvInit
<1>2. RInv /\ [RingNext]_ringVars => RInv'
  BY RInvStep
<1>3. RInv => HomeAfterLaps
  BY RInvHome
<1> QED BY <1>1, <1>2, <1>3, PTL DEF RingSpec

------------------------------------------------------------------------------
(* HashClient *)

\* key and value of pair i on the wire
WireKey(i) == Packed(pairs[i][1])
WireValue(i) == Packed(pairs[i][2])

NumPairs == Len(pairs)

\* pair i is the first one with its key
FirstWith(i, j) ==
  /\ j \in 1..NumPairs /\ WireKey(j) = WireKey(i)
  /\ \A k \in 1..NumPairs : WireKey(k) = WireKey(i) => j <= k

\* the pairs whose keys a server of block 31 holds after k calls
HeldPairs(k) ==
  {i \in 1..NumPairs : /\ i <= k
                       /\ \A j \in 1..NumPairs : WireKey(j) = WireKey(i) => j > k - 2 * NumPairs}

HeldKeys(k) == {WireKey(i) : i \in HeldPairs(k)}

\* Numbers stay numbers on the wire.
LEMMA PackedIs == ASSUME NEW x \in RandValues  PROVE Packed(x) \in Int
<1>1. x \in Int
  <2>1. RAND_MAX \in Nat
    BY SMT DEF RAND_MAX
  <2> QED
    BY <2>1 DEF RandValues
<1>2. ASSUME NEW m \in Nat \ {0}  PROVE x % m \in Int
  BY <1>1
<1> QED
  BY <1>2, SMT DEF Packed

\* The lists of pairs as the proofs use them.
LEMMA PairsAre ==
  ASSUME pairs \in PairLists
  PROVE  /\ pairs \in Seq(RandValues \X RandValues) /\ NumPairs \in Nat
         /\ \A i \in 1..NumPairs : WireKey(i) \in Int /\ WireValue(i) \in Int
<1>1. pairs \in Seq(RandValues \X RandValues)
  BY HashClientAssumption
<1>2. NumPairs \in Nat
  BY <1>1 DEF NumPairs
<1>3. \A x \in RandValues : Packed(x) \in Int
  BY PackedIs
<1>4. ASSUME NEW i \in 1..NumPairs
      PROVE  WireKey(i) \in Int /\ WireValue(i) \in Int
  <2>1. pairs[i] \in RandValues \X RandValues
    BY <1>1 DEF NumPairs
  <2>2. PICK a \in RandValues, b \in RandValues : a = pairs[i][1] /\ b = pairs[i][2]
    BY <2>1
  <2> QED
    BY <1>3, <2>2 DEF WireKey, WireValue
<1> QED
  BY <1>1, <1>2, <1>4

\* FirstPair: the first pair with the key of a pair.
LEMMA FirstPairIs ==
  ASSUME pairs \in PairLists, NEW i \in 1..NumPairs
  PROVE  FirstWith(i, Min({k \in DOMAIN pairs : Packed(pairs[k][1]) = Packed(pairs[i][1])}))
<1>1. pairs \in Seq(RandValues \X RandValues)
  BY HashClientAssumption
<1>2. PICK T : T = {k \in DOMAIN pairs : Packed(pairs[k][1]) = Packed(pairs[i][1])}
  OBVIOUS
<1>3. T = {k \in 1..NumPairs : WireKey(k) = WireKey(i)}
  BY <1>1, <1>2 DEF WireKey, NumPairs
<1>4. T \subseteq Nat /\ i \in T
  BY <1>3, PairsAre
<1>5. Min(T) \in T /\ \A k \in T : Min(T) <= k
  BY <1>4, MinIs
<1> QED
  BY <1>2, <1>3, <1>5 DEF FirstWith

\* Multiples of a length are apart by the length.
LEMMA Multiples ==
  ASSUME NEW l \in Nat, NEW a \in Int, NEW b \in Int
  PROVE  /\ l * a \in Int
         /\ a > b => l * a >= l * b + l
         /\ l * 0 = 0 /\ l * 1 = l /\ l * 4 = 4 * l
OBVIOUS

\* Calls are numbered by round and pair.
LEMMA CallsAre ==
  ASSUME pairs \in PairLists, NEW n \in 1..NumCalls
  PROVE  \E r \in 0..3, i \in 1..NumPairs :
           /\ n = r * NumPairs + i /\ Round(n) = r
           /\ ((n - 1) % Len(pairs)) + 1 = i
           /\ NumPairs \in Nat \ {0}
<1>1. PICK l \in Nat : l = NumPairs
  BY PairsAre
<1>2. l \in Nat \ {0} /\ n \in 1..(4 * l)
  BY <1>1 DEF NumCalls, NumPairs
<1>3. /\ (n - 1) \div l \in Int /\ (n - 1) % l \in 0..(l - 1)
      /\ n - 1 = l * ((n - 1) \div l) + ((n - 1) % l)
  BY <1>2
<1>4. PICK r \in Int, m \in 0..(l - 1) :
        r = (n - 1) \div l /\ m = (n - 1) % l /\ n - 1 = l * r + m
  BY <1>3
<1>5. r >= 0
  <2>1. 0 > r => l * 0 >= l * r + l
    BY Multiples
  <2> QED
    BY <1>2, <1>4, <2>1, Multiples
<1>6. r < 4
  <2>1. r > 3 => l * r >= l * 3 + l
    BY Multiples
  <2> QED
    BY <1>2, <1>4, <2>1, Multiples
<1>7. l * r = r * l
  BY <1>2
<1>8. r \in 0..3 /\ m + 1 \in 1..l /\ n = r * l + (m + 1)
  BY <1>4, <1>5, <1>6, <1>7, Multiples
<1>9. Round(n) = r /\ ((n - 1) % Len(pairs)) + 1 = m + 1
  BY <1>1, <1>4 DEF Round, NumPairs
<1> QED
  BY <1>1, <1>2, <1>8, <1>9

\* the commands and results on the wire
Spellings == {"set", "get", "del", "ok!", "val", "nof", "err", "OK!", "VAL", "NOF"}

Datagrams ==
  [kind : {"request", "reply"}, call : Int, copy : Int, cmd : Spellings, key : Int,
   value : Int]

\* What the server's table holds after k calls, if it is one of block 31.
StoreIs(k) ==
  node \/ /\ DOMAIN pairStore = HeldKeys(k)
          /\ \A i, j \in 1..NumPairs :
               WireKey(i) \in HeldKeys(k) /\ FirstWith(i, j) =>
                 pairStore[WireKey(i)] = WireValue(j)

PairTypeOK ==
  /\ pairs \in PairLists
  /\ {fresh, node, waiting} \subseteq BOOLEAN
  /\ \A x \in DOMAIN pairStore : pairStore[x] \in Int
  /\ pairNet \subseteq Datagrams
  /\ results \in Seq(Int) /\ accepted \in Seq(Int) /\ Len(accepted) = Len(results)
  /\ duplicates \in Nat

OwnReplies == fresh => \A n \in DOMAIN accepted : accepted[n] = n

\* the only datagram, unless some were doubled, is that of the current call
OnItsWay ==
  \/ pairNet = {}
  \/ pairNet = {Request(Current)} /\ StoreIs(Len(results))
  \/ \E r : /\ pairNet = {r} /\ r.kind = "reply"
            /\ Result(Current, r) = Expected(Current)
            /\ StoreIs(Current)

CallsInOrder ==
  duplicates = 0 =>
    /\ ~waiting => pairNet = {} /\ StoreIs(Len(results))
    /\ waiting => Current \in 1..NumCalls /\ OnItsWay
    /\ \A n \in DOMAIN results : results[n] = Expected(n)

CInv == PairTypeOK /\ OwnReplies /\ CallsInOrder

\* A key is held from the first set of it to the first del.
LEMMA HeldIs ==
  ASSUME NEW k \in Int, NEW i \in 1..NumPairs
  PROVE  WireKey(i) \in HeldKeys(k) <=>
           /\ \E j \in 1..NumPairs : WireKey(j) = WireKey(i) /\ j <= k
           /\ \A j \in 1..NumPairs : WireKey(j) = WireKey(i) => j > k - 2 * NumPairs
BY DEF HeldKeys, HeldPairs

\* Request: the command, key and value of a call.
LEMMA RequestIs ==
  ASSUME pairs \in PairLists, NEW n \in 1..NumCalls, NEW r \in 0..3, NEW i \in 1..NumPairs,
         Round(n) = r, ((n - 1) % Len(pairs)) + 1 = i
  PROVE  /\ Request(n) \in Datagrams
         /\ Request(n).kind = "request" /\ Request(n).call = n /\ Request(n).key = WireKey(i)
         /\ Request(n).cmd = <<"set", "get", "del", "get">>[r + 1]
         /\ r = 0 => Request(n).value = WireValue(i)
<1>1. Pair(n) = pairs[i]
  BY DEF Pair
<1>2. PICK c : c = Command[r + 1]
  OBVIOUS
<1>3. c \in Spellings
  <2>1. r = 0 \/ r = 1 \/ r = 2 \/ r = 3
    OBVIOUS
  <2>2. c = "set" \/ c = "get" \/ c = "del"
    BY <1>2, <2>1 DEF Command
  <2> QED
    BY <2>2 DEF Spellings
<1>4. PICK v \in Int : v = IF r = 0 THEN WireValue(i) ELSE 0
  BY PairsAre
<1>5. Request(n) = [kind |-> "request", call |-> n, copy |-> 0, cmd |-> c,
                    key |-> WireKey(i), value |-> v]
  BY <1>1, <1>2, <1>4, Zenon DEF Request, WireKey, WireValue
<1>6. WireKey(i) \in Int
  BY PairsAre
<1> QED
  BY <1>2, <1>3, <1>4, <1>5, <1>6 DEF Datagrams, Command

\* Expected, by round and pair, with a server of block 31.
LEMMA ExpectedIs ==
  ASSUME pairs \in PairLists, ~node, NEW n \in 1..NumCalls, NEW r \in 0..3,
         NEW i \in 1..NumPairs, Round(n) = r, ((n - 1) % Len(pairs)) + 1 = i
  PROVE  /\ r \in {0, 2} => Expected(n) = IF \E j \in 1..(i - 1) : WireKey(j) = WireKey(i)
                                           THEN -1 ELSE 0
         /\ r = 1 => \E j : FirstWith(i, j) /\ Expected(n) = WireValue(j)
         /\ r = 3 => Expected(n) = -1
<1>1. Pair(n) = pairs[i]
  BY DEF Pair
<1>2. CASE r \in {0, 2}
  <2>1. Expected(n) = IF \E j \in 1..((n - 1) % Len(pairs)) :
                           Packed(pairs[j][1]) = Packed(Pair(n)[1])
                      THEN -1 ELSE 0
    BY <1>2 DEF Expected
  <2>2. (n - 1) % Len(pairs) = i - 1
    <3>1. (n - 1) % Len(pairs) \in Int
      <4>1. NumPairs \in Nat \ {0}
        BY PairsAre
      <4> QED
        BY <4>1 DEF NumPairs
    <3> QED
      BY <3>1
  <2> QED
    BY <1>1, <1>2, <2>1, <2>2 DEF WireKey
<1>3. CASE r = 1
  <2>1. Expected(n) = Packed(FirstPair(n)[2])
    BY <1>3 DEF Expected
  <2>2. PICK j : j = Min({k \in DOMAIN pairs : Packed(pairs[k][1]) = Packed(pairs[i][1])})
    OBVIOUS
  <2>3. FirstWith(i, j)
    BY <2>2, FirstPairIs
  <2>4. FirstPair(n) = pairs[j]
    BY <1>1, <2>2 DEF FirstPair
  <2> QED
    BY <1>3, <2>1, <2>3, <2>4 DEF WireValue
<1>4. CASE r = 3
  BY <1>4 DEF Expected
<1> QED
  BY <1>2, <1>3, <1>4

\* HeldPairs: what a call of each round changes about the keys held before it.
LEMMA HeldAfter ==
  ASSUME pairs \in PairLists, NEW n \in Int, NEW r \in 0..3, NEW i \in 1..NumPairs,
         n = r * NumPairs + i
  PROVE  /\ r = 0 => HeldKeys(n) = HeldKeys(n - 1) \cup {WireKey(i)}
         /\ r = 1 => HeldKeys(n) = HeldKeys(n - 1) /\ WireKey(i) \in HeldKeys(n - 1)
         /\ r = 2 => HeldKeys(n) = HeldKeys(n - 1) \ {WireKey(i)}
         /\ r = 3 => HeldKeys(n) = {} /\ HeldKeys(n - 1) = {}
         /\ r \in {0, 2} =>
              ((WireKey(i) \in HeldKeys(n - 1)) <=>
                 (r = 0 <=> \E j \in 1..(i - 1) : WireKey(j) = WireKey(i)))
<1>1. PICK l \in Nat : l = NumPairs /\ l >= 1
  BY PairsAre
<1>2. \A k \in Int : \A x : x \in HeldKeys(k) =>
        \E j \in 1..NumPairs : x = WireKey(j) /\ j <= k
  BY DEF HeldKeys, HeldPairs
<1>3. \A k \in Int : \A h \in 1..NumPairs :
        WireKey(h) \in HeldKeys(k) <=>
           /\ \E j \in 1..NumPairs : WireKey(j) = WireKey(h) /\ j <= k
           /\ \A j \in 1..NumPairs : WireKey(j) = WireKey(h) => j > k - 2 * NumPairs
  BY HeldIs
<1>4. CASE r = 0
  <2>1. n = i
    BY <1>1, <1>4
  <2>2. \A h \in 1..NumPairs : \A k \in {n - 1, n} :
          WireKey(h) \in HeldKeys(k) <=>
            \E j \in 1..NumPairs : WireKey(j) = WireKey(h) /\ j <= k
    <3> TAKE h \in 1..NumPairs
    <3> TAKE k \in {n - 1, n}
    <3>1. k \in Int /\ \A j \in 1..NumPairs : j > k - 2 * NumPairs
      BY <1>1, <2>1
    <3> QED
      BY <1>3, <3>1
  <2>3. HeldKeys(n) = HeldKeys(n - 1) \cup {WireKey(i)}
    <3>1. ASSUME NEW x \in HeldKeys(n)  PROVE x \in HeldKeys(n - 1) \cup {WireKey(i)}
      BY <1>1, <1>2, <2>1, <2>2
    <3>2. ASSUME NEW x \in HeldKeys(n - 1) \cup {WireKey(i)}  PROVE x \in HeldKeys(n)
      BY <1>1, <1>2, <2>1, <2>2
    <3> QED
      BY <3>1, <3>2
  <2> QED
    BY <1>1, <1>4, <2>1, <2>2, <2>3
<1>5. CASE r = 1
  <2>1. n = l + i
    BY <1>1, <1>5
  <2>2. \A h \in 1..NumPairs : \A k \in {n - 1, n} : WireKey(h) \in HeldKeys(k)
    BY <1>1, <1>3, <2>1
  <2>3. \A k \in {n - 1, n} : \A x \in HeldKeys(k) : \E j \in 1..NumPairs : x = WireKey(j)
    BY <1>1, <1>2, <2>1
  <2> QED
    BY <1>5, <2>2, <2>3
<1>6. CASE r = 2
  <2>1. n = 2 * l + i
    BY <1>1, <1>6
  <2>2. \A h \in 1..NumPairs : \A k \in {n - 1, n} :
          WireKey(h) \in HeldKeys(k) <=>
            \A j \in 1..NumPairs : WireKey(j) = WireKey(h) => j > k - 2 * NumPairs
    <3> TAKE h \in 1..NumPairs
    <3> TAKE k \in {n - 1, n}
    <3>1. k \in Int /\ h <= k
      BY <1>1, <2>1
    <3> QED
      BY <1>3, <3>1
  <2>3. HeldKeys(n) = HeldKeys(n - 1) \ {WireKey(i)}
    <3>1. ASSUME NEW x \in HeldKeys(n)  PROVE x \in HeldKeys(n - 1) \ {WireKey(i)}
      BY <1>1, <1>2, <2>1, <2>2
    <3>2. ASSUME NEW x \in HeldKeys(n - 1) \ {WireKey(i)}  PROVE x \in HeldKeys(n)
      BY <1>1, <1>2, <2>1, <2>2
    <3> QED
      BY <3>1, <3>2
  <2> QED
    BY <1>1, <1>6, <2>1, <2>2, <2>3
<1>7. CASE r = 3
  <2>1. n = 3 * l + i
    BY <1>1, <1>7
  <2>2. \A h \in 1..NumPairs : \A k \in {n - 1, n} : WireKey(h) \notin HeldKeys(k)
    BY <1>1, <1>3, <2>1
  <2>3. \A k \in {n - 1, n} : \A x \in HeldKeys(k) : \E j \in 1..NumPairs : x = WireKey(j)
    BY <1>1, <1>2, <2>1
  <2> QED
    BY <1>7, <2>2, <2>3
<1> QED
  BY <1>4, <1>5, <1>6, <1>7

\* What a server makes of a request with a typed table.
LEMMA ServerType ==
  ASSUME NEW m \in Datagrams, \A x \in DOMAIN pairStore : pairStore[x] \in Int
  PROVE  /\ \A x \in DOMAIN StoreAfter(m) : StoreAfter(m)[x] \in Int
         /\ [IF node THEN ReplyNode(m) ELSE Reply31(m) EXCEPT !.kind = "reply"] \in Datagrams
<1>1. /\ m.kind \in {"request", "reply"} /\ m.call \in Int /\ m.copy \in Int
      /\ m.cmd \in Spellings /\ m.key \in Int /\ m.value \in Int
  BY DEF Datagrams
<1>2. \A x \in DOMAIN StoreAfter(m) : StoreAfter(m)[x] \in Int
  <2>1. CASE m.cmd = "set" /\ node
    <3>1. StoreAfter(m) = hashSetNode(pairStore, m.key, m.value)
      BY <2>1 DEF StoreAfter
    <3> QED
      BY <1>1, <3>1 DEF hashSetNode
  <2>2. CASE m.cmd = "set" /\ ~node
    <3>1. StoreAfter(m) = hashSet31(pairStore, m.key, m.value)
      BY <2>2 DEF StoreAfter
    <3> QED
      BY <1>1, <3>1 DEF hashSet31
  <2>3. CASE m.cmd = "del"
    <3>1. StoreAfter(m) = hashDel31(pairStore, m.key)
      BY <2>3 DEF StoreAfter
    <3> QED
      BY <3>1 DEF hashDel31, Restrict
  <2>4. CASE m.cmd \notin {"set", "del"}
    BY <2>4 DEF StoreAfter
  <2> QED
    BY <2>1, <2>2, <2>3, <2>4
<1>3. ReplyNode(m) \in Datagrams
  <2>1. m.key \in DOMAIN pairStore => pairStore[m.key] \in Int
    OBVIOUS
  <2> QED
    BY <1>1, <2>1 DEF ReplyNode, Datagrams, Spellings
<1>4. Reply31(m) \in Datagrams
  <2>1. PICK g \in Int : g = hashGet31(pairStore, m.key)
    BY DEF hashGet31
  <2>2. \/ Reply31(m) = [m EXCEPT !.cmd = "ok!"]
        \/ Reply31(m) = [m EXCEPT !.cmd = "val", !.value = g]
        \/ Reply31(m) = [m EXCEPT !.cmd = "nof", !.key = 0, !.value = 0]
        \/ Reply31(m) = [m EXCEPT !.cmd = "err", !.key = 0, !.value = 0]
    BY <2>1 DEF Reply31
  <2>3. [m EXCEPT !.cmd = "ok!"] \in Datagrams
    BY <1>1 DEF Datagrams, Spellings
  <2>4. [m EXCEPT !.cmd = "val", !.value = g] \in Datagrams
    BY <1>1, <2>1 DEF Datagrams, Spellings
  <2>5. PICK z \in Int : z = 0
    OBVIOUS
  <2>6. ASSUME NEW c \in Spellings
        PROVE  [m EXCEPT !.cmd = c, !.key = z, !.value = z] \in Datagrams
    BY <1>1 DEF Datagrams
  <2>7. "nof" \in Spellings /\ "err" \in Spellings
    BY DEF Spellings
  <2>8. /\ [m EXCEPT !.cmd = "nof", !.key = z, !.value = z] \in Datagrams
        /\ [m EXCEPT !.cmd = "err", !.key = z, !.value = z] \in Datagrams
    BY <2>6, <2>7
  <2> QED
    BY <2>2, <2>3, <2>4, <2>5, <2>8
<1>5. PICK d \in Datagrams : d = IF node THEN ReplyNode(m) ELSE Reply31(m)
  BY <1>3, <1>4
<1>6. [d EXCEPT !.kind = "reply"] \in Datagrams
  BY DEF Datagrams
<1> QED
  BY <1>2, <1>5, <1>6

Returned(d) == [d EXCEPT !.kind = "reply"]

\* A node's replies are not known to the client.
LEMMA NodeRefused ==
  ASSUME NEW m \in Datagrams, m.cmd \in {"set", "get", "del"}, NEW n, node,
         NEW d, d = Returned(ReplyNode(m))
  PROVE  d.kind = "reply" /\ d.call = m.call /\ Result(n, d) = -1
<1>1. ReplyNode(m).cmd \in {"OK!", "VAL", "NOF"} /\ ReplyNode(m).call = m.call
      /\ ReplyNode(m) = [ReplyNode(m) EXCEPT !.copy = ReplyNode(m).copy]
  BY DEF ReplyNode, Datagrams
<1>2. d.kind = "reply" /\ d.call = m.call /\ d.cmd \in {"OK!", "VAL", "NOF"}
  BY <1>1 DEF ReplyNode, Datagrams, Returned
<1> QED
  BY <1>2 DEF Result

\* A reply of 31, field by field.
LEMMA Reply31Is ==
  ASSUME NEW m \in Datagrams, NEW d, d = Returned(Reply31(m))
  PROVE  /\ d.kind = "reply" /\ d.call = m.call
         /\ m.cmd \in {"set", "del"} =>
              (d.cmd = "ok!" <=> (m.cmd = "set" <=> m.key \notin DOMAIN pairStore))
         /\ m.cmd = "get" =>
              /\ d.cmd = "val" <=> m.key \in DOMAIN pairStore
              /\ m.key \in DOMAIN pairStore => d.value = pairStore[m.key]
BY DEF Reply31, Datagrams, hashGet31, Returned

\* A round of the server gives the current call what is expected of it.
LEMMA ServeIs ==
  ASSUME pairs \in PairLists, NEW n \in 1..NumCalls, node \in BOOLEAN, StoreIs(n - 1),
         pairStore' = StoreAfter(Request(n)), UNCHANGED <<pairs, node>>,
         NEW d, d = [IF node THEN ReplyNode(Request(n)) ELSE Reply31(Request(n))
                       EXCEPT !.kind = "reply"]
  PROVE  d.kind = "reply" /\ d.call = n /\ Result(n, d) = Expected(n) /\ StoreIs(n)'
<1>1. PICK r \in 0..3, i \in 1..NumPairs :
        n = r * NumPairs + i /\ Round(n) = r /\ ((n - 1) % Len(pairs)) + 1 = i
  BY CallsAre
<1>2. PICK m \in Datagrams :
        /\ m = Request(n) /\ m.kind = "request" /\ m.call = n /\ m.key = WireKey(i)
        /\ m.cmd = <<"set", "get", "del", "get">>[r + 1]
        /\ r = 0 => m.value = WireValue(i)
  BY <1>1, RequestIs
<1>3. r = 0 \/ r = 1 \/ r = 2 \/ r = 3
  OBVIOUS
<1>4. /\ r = 0 => m.cmd = "set"
      /\ r = 1 => m.cmd = "get"
      /\ r = 2 => m.cmd = "del"
      /\ r = 3 => m.cmd = "get"
  BY <1>2
<1>5. CASE node
  <2>1. d = Returned(ReplyNode(m)) /\ m.cmd \in {"set", "get", "del"}
    BY <1>2, <1>3, <1>4, <1>5 DEF Returned
  <2>2. d.kind = "reply" /\ d.call = m.call /\ Result(n, d) = -1
    BY <1>5, <2>1, NodeRefused, ZenonT(30)
  <2> QED
    BY <1>2, <1>5, <2>2 DEF Expected, StoreIs
<1>6. CASE ~node
  <2>1. d = Returned(Reply31(m))
    BY <1>2, <1>6 DEF Returned
  <2>2. /\ d.kind = "reply" /\ d.call = n
        /\ m.cmd \in {"set", "del"} =>
             (d.cmd = "ok!" <=> (m.cmd = "set" <=> WireKey(i) \notin DOMAIN pairStore))
        /\ m.cmd = "get" =>
             /\ d.cmd = "val" <=> WireKey(i) \in DOMAIN pairStore
             /\ WireKey(i) \in DOMAIN pairStore => d.value = pairStore[WireKey(i)]
    <3>1. m.key = WireKey(i) /\ m.call = n
      BY <1>2
    <3>2. /\ d.kind = "reply" /\ d.call = m.call
          /\ m.cmd \in {"set", "del"} =>
               (d.cmd = "ok!" <=> (m.cmd = "set" <=> m.key \notin DOMAIN pairStore))
          /\ m.cmd = "get" =>
               /\ d.cmd = "val" <=> m.key \in DOMAIN pairStore
               /\ m.key \in DOMAIN pairStore => d.value = pairStore[m.key]
      BY <2>1, Reply31Is
    <3> QED
      BY <3>1, <3>2
  <2>3. /\ DOMAIN pairStore = HeldKeys(n - 1)
        /\ \A h, j \in 1..NumPairs :
             WireKey(h) \in HeldKeys(n - 1) /\ FirstWith(h, j) =>
               pairStore[WireKey(h)] = WireValue(j)
    BY <1>6 DEF StoreIs
  <2>4. \A h, j : FirstWith(h, j) => j \in 1..NumPairs
    BY DEF FirstWith
  <2>10. /\ HeldKeys(n)' = HeldKeys(n) /\ NumPairs' = NumPairs
         /\ \A h : WireKey(h)' = WireKey(h) /\ WireValue(h)' = WireValue(h)
         /\ \A h, j : FirstWith(h, j)' <=> FirstWith(h, j)
    BY DEF HeldKeys, HeldPairs, FirstWith, WireKey, WireValue, NumPairs
  <2>5. SUFFICES /\ Result(n, d) = Expected(n)
                 /\ DOMAIN pairStore' = HeldKeys(n)
                 /\ \A h, j \in 1..NumPairs :
                      WireKey(h) \in HeldKeys(n) /\ FirstWith(h, j) =>
                        pairStore'[WireKey(h)] = WireValue(j)
    BY <2>2, <2>10 DEF StoreIs
  <2>6. CASE r = 0
    <3>1. /\ HeldKeys(n) = HeldKeys(n - 1) \cup {WireKey(i)}
          /\ WireKey(i) \in HeldKeys(n - 1) <=>
               \E j \in 1..(i - 1) : WireKey(j) = WireKey(i)
      BY <1>1, <2>6, HeldAfter
    <3>2. Expected(n) = IF \E j \in 1..(i - 1) : WireKey(j) = WireKey(i) THEN -1 ELSE 0
      BY <1>1, <1>6, <2>6, ExpectedIs
    <3>3. Result(n, d) = IF d.cmd = "ok!" THEN 0 ELSE -1
      BY <1>1, <2>6 DEF Result
    <3>4. Result(n, d) = Expected(n)
      BY <1>4, <2>2, <2>3, <2>6, <3>1, <3>2, <3>3
    <3>5. pairStore' = hashSet31(pairStore, WireKey(i), WireValue(i))
      BY <1>2, <1>4, <1>6, <2>6 DEF StoreAfter
    <3>6. /\ DOMAIN pairStore' = DOMAIN pairStore \cup {WireKey(i)}
          /\ \A x \in DOMAIN pairStore : pairStore'[x] = pairStore[x]
          /\ WireKey(i) \notin DOMAIN pairStore => pairStore'[WireKey(i)] = WireValue(i)
      BY <3>5 DEF hashSet31
    <3>7. ASSUME NEW h \in 1..NumPairs, NEW j \in 1..NumPairs, FirstWith(h, j),
                 WireKey(h) \in HeldKeys(n)
          PROVE  pairStore'[WireKey(h)] = WireValue(j)
      <4>1. CASE WireKey(h) \in HeldKeys(n - 1)
        BY <2>3, <3>6, <3>7, <4>1
      <4>2. CASE WireKey(h) \notin HeldKeys(n - 1)
        <5>1. WireKey(h) = WireKey(i) /\ ~ \E k \in 1..(i - 1) : WireKey(k) = WireKey(i)
          BY <3>1, <3>7, <4>2
        <5>2. j = i
          BY <5>1, <3>7 DEF FirstWith
        <5> QED
          BY <2>3, <3>6, <4>2, <5>1, <5>2
      <4> QED
        BY <4>1, <4>2
    <3> QED
      BY <2>3, <3>1, <3>4, <3>6, <3>7
  <2>7. CASE r = 1
    <3>1. HeldKeys(n) = HeldKeys(n - 1) /\ WireKey(i) \in HeldKeys(n - 1)
      BY <1>1, <2>7, HeldAfter
    <3>2. PICK j : FirstWith(i, j) /\ Expected(n) = WireValue(j)
      BY <1>1, <1>6, <2>7, ExpectedIs
    <3>3. Result(n, d) = IF d.cmd = "val" THEN d.value ELSE -1
      BY <1>1, <2>7 DEF Result
    <3>4. pairStore' = pairStore
      BY <1>2, <1>4, <2>7 DEF StoreAfter
    <3> QED
      BY <1>4, <2>2, <2>3, <2>4, <2>7, <3>1, <3>2, <3>3, <3>4
  <2>8. CASE r = 2
    <3>1. /\ HeldKeys(n) = HeldKeys(n - 1) \ {WireKey(i)}
          /\ WireKey(i) \in HeldKeys(n - 1) <=>
               ~ \E j \in 1..(i - 1) : WireKey(j) = WireKey(i)
      BY <1>1, <2>8, HeldAfter
    <3>2. Expected(n) = IF \E j \in 1..(i - 1) : WireKey(j) = WireKey(i) THEN -1 ELSE 0
      BY <1>1, <1>6, <2>8, ExpectedIs
    <3>3. Result(n, d) = IF d.cmd = "ok!" THEN 0 ELSE -1
      BY <1>1, <2>8 DEF Result
    <3>4. Result(n, d) = Expected(n)
      BY <1>4, <2>2, <2>3, <2>8, <3>1, <3>2, <3>3
    <3>5. pairStore' = hashDel31(pairStore, WireKey(i))
      BY <1>2, <1>4, <2>8 DEF StoreAfter
    <3>6. /\ DOMAIN pairStore' = DOMAIN pairStore \ {WireKey(i)}
          /\ \A x \in DOMAIN pairStore' : pairStore'[x] = pairStore[x]
      BY <3>5 DEF hashDel31, Restrict
    <3> QED
      BY <2>3, <3>1, <3>4, <3>6
  <2>9. CASE r = 3
    <3>1. HeldKeys(n) = {} /\ HeldKeys(n - 1) = {}
      BY <1>1, <2>9, HeldAfter
    <3>2. Expected(n) = -1
      BY <1>1, <1>6, <2>9, ExpectedIs
    <3>3. Result(n, d) = IF d.cmd = "val" THEN d.value ELSE -1
      BY <1>1, <2>9 DEF Result
    <3>4. pairStore' = pairStore
      BY <1>2, <1>4, <2>9 DEF StoreAfter
    <3> QED
      BY <1>4, <2>2, <2>3, <2>9, <3>1, <3>2, <3>3, <3>4
  <2> QED
    BY <1>3, <2>6, <2>7, <2>8, <2>9
<1> QED
  BY <1>5, <1>6

\* The calls of a client depend on its pairs and on the kind of its server only.
LEMMA SameCalls ==
  ASSUME UNCHANGED <<pairs, node>>, NEW n
  PROVE  /\ NumCalls' = NumCalls /\ Request(n)' = Request(n) /\ Expected(n)' = Expected(n)
         /\ \A m : Result(n, m)' = Result(n, m)
<1>1. /\ NumCalls' = NumCalls /\ Round(n)' = Round(n) /\ Pair(n)' = Pair(n)
  BY DEF NumCalls, Round, Pair
<1>2. Request(n)' = Request(n) /\ \A m : Result(n, m)' = Result(n, m)
  BY <1>1 DEF Request, Result
<1>3. FirstPair(n)' = FirstPair(n)
  BY <1>1 DEF FirstPair
<1>4. Expected(n)' = Expected(n)
  BY <1>1, <1>3 DEF Expected
<1> QED
  BY <1>1, <1>2, <1>4

\* What the table holds depends on pairs, server and table only.
LEMMA SameStore ==
  ASSUME UNCHANGED <<pairs, node, pairStore>>, NEW k
  PROVE  StoreIs(k)' <=> StoreIs(k)
<1>1. /\ HeldKeys(k)' = HeldKeys(k) /\ NumPairs' = NumPairs
      /\ \A h : WireKey(h)' = WireKey(h) /\ WireValue(h)' = WireValue(h)
      /\ \A h, j : FirstWith(h, j)' <=> FirstWith(h, j)
  BY DEF HeldKeys, HeldPairs, FirstWith, WireKey, WireValue, NumPairs
<1> QED
  BY <1>1 DEF StoreIs

\* rpcCall sends the request of the next call.
LEMMA SendKeeps == ASSUME CInv, CallSend  PROVE CInv'
<1>1. /\ ~waiting /\ waiting' = TRUE
      /\ pairNet' = pairNet \cup {Request(Current)} \/ pairNet' = pairNet
      /\ UNCHANGED <<pairs, fresh, node, pairStore, results, accepted, duplicates, pairLost>>
  BY DEF CallSend
<1>2. Current \in 1..NumCalls
  <2>1. Len(results) \in Nat /\ NumPairs \in Nat /\ Current <= NumCalls
    BY PairsAre DEF CInv, PairTypeOK, CallSend
  <2> QED
    BY <2>1 DEF Current, NumCalls, NumPairs
<1>3. Request(Current) \in Datagrams
  <2>1. PICK r \in 0..3, i \in 1..NumPairs :
          Round(Current) = r /\ ((Current - 1) % Len(pairs)) + 1 = i
    BY <1>2, CallsAre DEF CInv, PairTypeOK
  <2> QED
    BY <1>2, <2>1, RequestIs DEF CInv, PairTypeOK
<1>4. PairTypeOK'
  BY <1>1, <1>3 DEF CInv, PairTypeOK
<1>5. OwnReplies'
  BY <1>1 DEF CInv, OwnReplies
<1>6. CallsInOrder'
  <2> SUFFICES ASSUME duplicates' = 0
               PROVE  /\ Current' \in 1..NumCalls' /\ OnItsWay'
                      /\ \A n \in DOMAIN results' : results'[n] = Expected(n)'
    BY <1>1 DEF CallsInOrder
  <2>1. /\ pairNet = {} /\ StoreIs(Len(results))
        /\ \A n \in DOMAIN results : results[n] = Expected(n)
    BY <1>1 DEF CInv, CallsInOrder
  <2>2. Current' = Current /\ Len(results)' = Len(results)
    BY <1>1 DEF Current
  <2>3. /\ NumCalls' = NumCalls /\ \A n : Request(n)' = Request(n)
        /\ \A n : Expected(n)' = Expected(n)
    BY <1>1, SameCalls
  <2>4. StoreIs(Len(results))'
    BY <1>1, <2>1, <2>2, SameStore DEF StoreIs
  <2>5. pairNet' = {Request(Current)'} \/ pairNet' = {}
    <3>1. PICK k : k = Current
      OBVIOUS
    <3>2. (pairNet' = {Request(k)} \/ pairNet' = {}) /\ Request(k)' = Request(k) /\ Current' = k
      BY <1>1, <2>1, <2>2, <2>3, <3>1
    <3> QED
      BY <3>2 DEF Request
  <2>6. OnItsWay'
    BY <2>4, <2>5 DEF OnItsWay
  <2> QED
    BY <1>1, <1>2, <2>1, <2>2, <2>3, <2>6
<1> QED
  BY <1>4, <1>5, <1>6 DEF CInv

\* The server works on the request of the current call, unless one was doubled.
LEMMA ServeKeeps == ASSUME CInv, NEW q \in pairNet, Serve(q)  PROVE CInv'
<1>1. PICK d : d = [IF node THEN ReplyNode(q) ELSE Reply31(q) EXCEPT !.kind = "reply"]
  OBVIOUS
<1>2. /\ q.kind = "request" /\ pairStore' = StoreAfter(q)
      /\ pairNet' = (pairNet \ {q}) \cup {d}
      /\ UNCHANGED <<pairs, fresh, node, waiting, results, accepted, duplicates, pairLost>>
  BY <1>1 DEF Serve
<1>3. PairTypeOK'
  <2>1. q \in Datagrams /\ \A x \in DOMAIN pairStore : pairStore[x] \in Int
    BY DEF CInv, PairTypeOK
  <2>2. d \in Datagrams /\ \A x \in DOMAIN pairStore' : pairStore'[x] \in Int
    BY <1>1, <1>2, <2>1, ServerType
  <2> QED
    BY <1>2, <2>2 DEF CInv, PairTypeOK
<1>4. OwnReplies'
  BY <1>2 DEF CInv, OwnReplies
<1>5. CallsInOrder'
  <2> SUFFICES ASSUME duplicates' = 0  PROVE CallsInOrder'
    BY DEF CallsInOrder
  <2>1. /\ waiting /\ Current \in 1..NumCalls /\ OnItsWay
        /\ \A n \in DOMAIN results : results[n] = Expected(n)
    BY <1>2 DEF CInv, CallsInOrder
  <2>2. pairNet = {q} /\ q = Request(Current) /\ StoreIs(Current - 1)
    <3>1. Len(results) = Current - 1
      BY DEF CInv, PairTypeOK, Current
    <3> QED
      BY <1>2, <2>1, <3>1 DEF OnItsWay
  <2>3. PICK n \in 1..NumCalls : n = Current
    BY <2>1
  <2>4. d.kind = "reply" /\ Result(n, d) = Expected(n) /\ StoreIs(n)'
    BY <1>1, <1>2, <2>2, <2>3, ServeIs DEF CInv, PairTypeOK
  <2>5. pairNet' = {d}
    BY <1>2, <2>2
  <2>6. /\ NumCalls' = NumCalls /\ \A k : Expected(k)' = Expected(k)
        /\ \A k, m : Result(k, m)' = Result(k, m)
    BY <1>2, SameCalls
  <2>7. Current' = n
    BY <1>2, <2>3 DEF Current
  <2>8. OnItsWay'
    BY <2>4, <2>5, <2>6, <2>7 DEF OnItsWay, StoreIs
  <2> QED
    BY <1>2, <2>1, <2>3, <2>6, <2>7, <2>8 DEF CallsInOrder
<1> QED
  BY <1>3, <1>4, <1>5 DEF CInv

\* The client takes a reply: its own, if it has a socket per call.
LEMMA ReceiveCallKeeps == ASSUME CInv, NEW q \in pairNet, CallReceive(q)  PROVE CInv'
<1>1. PICK v : v = Result(Current, q)
  OBVIOUS
<1>2. /\ waiting /\ ~waiting' /\ waiting' \in BOOLEAN /\ q.kind = "reply"
      /\ fresh => q.call = Current
      /\ results' = Append(results, v) /\ accepted' = Append(accepted, q.call)
      /\ pairNet' = pairNet \ {q}
      /\ UNCHANGED <<pairs, fresh, node, pairStore, duplicates, pairLost>>
  BY <1>1 DEF CallReceive, Arrives
<1>3. q \in Datagrams /\ q.call \in Int /\ v \in Int
  <2>1. q \in Datagrams
    BY DEF CInv, PairTypeOK
  <2>2. q.call \in Int /\ q.value \in Int
    BY <2>1 DEF Datagrams
  <2>3. v = q.value \/ v = 0 \/ v = -1
    BY <1>1 DEF Result
  <2> QED
    BY <2>1, <2>2, <2>3
<1>4. /\ results' \in Seq(Int) /\ accepted' \in Seq(Int)
      /\ Len(results') = Current /\ Len(accepted') = Current /\ Current \in Nat
      /\ \A n \in DOMAIN results' : n = Current \/ n \in DOMAIN results
      /\ \A n \in DOMAIN results : results'[n] = results[n] /\ accepted'[n] = accepted[n]
      /\ results'[Current] = v /\ accepted'[Current] = q.call
      /\ DOMAIN accepted = DOMAIN results /\ DOMAIN accepted' = DOMAIN results'
  BY <1>2, <1>3 DEF CInv, PairTypeOK, Current
<1>5. PairTypeOK'
  BY <1>2, <1>4 DEF CInv, PairTypeOK
<1>6. OwnReplies'
  BY <1>2, <1>4 DEF CInv, OwnReplies
<1>7. CallsInOrder'
  <2> SUFFICES ASSUME duplicates' = 0  PROVE CallsInOrder'
    BY DEF CallsInOrder
  <2>1. /\ Current \in 1..NumCalls /\ OnItsWay
        /\ \A n \in DOMAIN results : results[n] = Expected(n)
    BY <1>2 DEF CInv, CallsInOrder
  <2>2. pairNet = {q} /\ v = Expected(Current) /\ StoreIs(Current)
    <3>1. pairNet # {Request(Current)}
      BY <1>2 DEF Request
    <3> QED
      BY <1>1, <2>1, <3>1 DEF OnItsWay
  <2>3. PICK k : k = Current
    OBVIOUS
  <2>4. StoreIs(k)' /\ \A n : Expected(n)' = Expected(n)
    BY <1>2, <2>2, <2>3, SameStore, SameCalls
  <2>5. StoreIs(Len(results))'
    BY <1>4, <2>3, <2>4 DEF StoreIs
  <2> QED
    BY <1>2, <1>4, <2>1, <2>2, <2>4, <2>5 DEF CallsInOrder
<1> QED
  BY <1>5, <1>6, <1>7 DEF CInv

\* A lost datagram leaves nothing to wait for.
LEMMA LoseKeeps == ASSUME CInv, NEW q \in pairNet, LoseOne(q)  PROVE CInv'
<1>1. /\ pairNet' = pairNet \ {q}
      /\ UNCHANGED <<pairs, fresh, node, pairStore, waiting, results, accepted, duplicates>>
  BY DEF LoseOne
<1>2. PairTypeOK' /\ OwnReplies'
  BY <1>1 DEF CInv, PairTypeOK, OwnReplies
<1>3. CallsInOrder'
  <2> SUFFICES ASSUME duplicates' = 0  PROVE CallsInOrder'
    BY DEF CallsInOrder
  <2>1. /\ waiting /\ Current \in 1..NumCalls /\ OnItsWay
        /\ \A n \in DOMAIN results : results[n] = Expected(n)
    BY <1>1 DEF CInv, CallsInOrder
  <2>2. pairNet' = {}
    BY <1>1, <2>1 DEF OnItsWay
  <2>3. NumCalls' = NumCalls /\ \A n : Expected(n)' = Expected(n)
    BY <1>1, SameCalls
  <2>4. Current' = Current
    BY <1>1 DEF Current
  <2> QED
    BY <1>1, <2>1, <2>2, <2>3, <2>4 DEF CallsInOrder, OnItsWay
<1> QED
  BY <1>2, <1>3 DEF CInv

\* After a doubled datagram only the client's own sockets tell replies apart.
LEMMA DuplicateKeeps == ASSUME CInv, NEW q \in pairNet, Duplicate(q)  PROVE CInv'
<1>1. /\ pairNet' = pairNet \cup {[q EXCEPT !.copy = duplicates + 1]}
      /\ duplicates' = duplicates + 1
      /\ UNCHANGED <<pairs, fresh, node, pairStore, waiting, results, accepted>>
  BY DEF Duplicate
<1>2. q \in Datagrams /\ duplicates \in Nat
  BY DEF CInv, PairTypeOK
<1>3. [q EXCEPT !.copy = duplicates + 1] \in Datagrams
  BY <1>2 DEF Datagrams
<1>4. PairTypeOK' /\ OwnReplies'
  BY <1>1, <1>2, <1>3 DEF CInv, PairTypeOK, OwnReplies
<1>5. duplicates' # 0
  BY <1>1, <1>2
<1> QED
  BY <1>4, <1>5 DEF CInv, CallsInOrder

\* Every step of client, server and network keeps the calls in their order.
LEMMA ClientKeeps == CInv /\ [ClientNext]_pairVars => CInv'
<1> SUFFICES ASSUME CInv, [ClientNext]_pairVars  PROVE CInv'
  OBVIOUS
<1>1. CASE CallSend
  BY <1>1, SendKeeps
<1>2. CASE \E q \in pairNet : Serve(q)
  BY <1>2, ServeKeeps
<1>3. CASE \E q \in pairNet : CallReceive(q)
  BY <1>3, ReceiveCallKeeps
<1>4. CASE \E q \in pairNet : LoseOne(q)
  BY <1>4, LoseKeeps
<1>5. CASE \E q \in pairNet : Duplicate(q)
  BY <1>5, DuplicateKeeps
<1>6. CASE UNCHANGED pairVars
  <2>1. UNCHANGED <<pairs, fresh, node, pairStore, pairNet, waiting, results, accepted,
                    duplicates>>
    BY <1>6 DEF pairVars
  <2>2. PairTypeOK' /\ OwnReplies'
    BY <2>1 DEF CInv, PairTypeOK, OwnReplies
  <2>3. /\ NumCalls' = NumCalls /\ Current' = Current /\ Len(results)' = Len(results)
        /\ \A n : Expected(n)' = Expected(n) /\ Request(n)' = Request(n)
        /\ \A n, m : Result(n, m)' = Result(n, m)
        /\ \A k : StoreIs(k)' <=> StoreIs(k)
    BY <2>1, SameCalls, SameStore DEF Current
  <2>4. StoreIs(Len(results))' <=> StoreIs(Len(results))
    BY <2>1, <2>3 DEF StoreIs
  <2>5. StoreIs(Current)' <=> StoreIs(Current)
    BY <2>1, <2>3 DEF StoreIs
  <2>6. pairNet = {Request(Current)} => pairNet' = {Request(Current)'}
    BY <2>1, <2>3 DEF Request
  <2>7. OnItsWay => OnItsWay'
    BY <2>1, <2>3, <2>4, <2>5, <2>6 DEF OnItsWay
  <2>8. CallsInOrder'
    BY <2>1, <2>3, <2>4, <2>7 DEF CInv, CallsInOrder
  <2> QED
    BY <2>2, <2>8 DEF CInv
<1> QED
  BY <1>1, <1>2, <1>3, <1>4, <1>5, <1>6 DEF ClientNext

\* Nothing is stored and nothing asked at first.
LEMMA NothingAsked == ClientInit => CInv
<1> SUFFICES ASSUME ClientInit  PROVE CInv
  OBVIOUS
<1>1. PairTypeOK
  <2>1. pairs \in PairLists /\ fresh \in BOOLEAN /\ node \in BOOLEAN /\ waiting = FALSE
    BY DEF ClientInit
  <2>2. {fresh, node, waiting} \subseteq BOOLEAN
    BY <2>1, Zenon
  <2>3. /\ DOMAIN pairStore = {} /\ pairNet = {}
        /\ results = <<>> /\ accepted = <<>> /\ duplicates = 0
    BY SMT DEF ClientInit
  <2>4. results \in Seq(Int) /\ accepted \in Seq(Int) /\ Len(accepted) = Len(results)
    BY ONLY <2>3, SMT
  <2> QED
    BY <2>1, <2>3, <2>4, <2>2, SMT DEF PairTypeOK
<1>2. OwnReplies
  BY DEF ClientInit, OwnReplies
<1>3. HeldKeys(0) = {}
  BY DEF HeldKeys, HeldPairs
<1>4. StoreIs(Len(results))
  BY <1>3 DEF ClientInit, StoreIs
<1>5. CallsInOrder
  BY <1>4 DEF ClientInit, CallsInOrder
<1> QED
  BY <1>1, <1>2, <1>5 DEF CInv

\* What a client, the network and the table know of the calls (hashUdpClient.c,
\* hashServer.c of block 31).
THEOREM ClientInvariant == ClientSpec => []CInv
BY NothingAsked, ClientKeeps, PTL DEF ClientSpec

\* A client with a socket per call takes its own replies only; and without doubled
\* datagrams every call returns what its place in the program makes it return.
THEOREM ResultsAreExplained == ClientSpec => []ResultsExplained
<1>1. CInv => ResultsExplained
  <2> SUFFICES ASSUME CInv, NEW n \in DOMAIN results
               PROVE  /\ fresh => accepted[n] = n
                      /\ duplicates = 0 => results[n] = Expected(n)
    BY DEF ResultsExplained
  <2>1. n \in DOMAIN accepted
    BY DEF CInv, PairTypeOK
  <2> QED
    BY <2>1 DEF CInv, OwnReplies, CallsInOrder
<1> QED
  BY <1>1, ClientInvariant, PTL

------------------------------------------------------------------------------
(* TimeSync *)

Times == [sec : Int, nsec : Int]

\* ts is the time of v ticks, with its nanoseconds in their range
Shows(ts, v) ==
  /\ ts \in Times
  /\ ts.nsec \in 0..(Second - 1)
  /\ v = Second * ts.sec + ts.nsec

USE TimeSyncAssumption

\* Products with a second, as far as the arithmetic of times needs them.
LEMMA Seconds ==
  ASSUME NEW a \in Int, NEW b \in Int
  PROVE  /\ Second * a \in Int
         /\ Second * (a + b) = Second * a + Second * b
         /\ Second * (a - b) = Second * a - Second * b
         /\ Second * (a + 1) = Second * a + Second
         /\ Second * (a - 1) = Second * a - Second
         /\ Second * (-1 * a) = -1 * (Second * a)
         /\ a * Second = Second * a
OBVIOUS

\* A later second is at least one second of ticks later.
LEMMA LaterSecond ==
  ASSUME NEW a \in Int, NEW b \in Int, a > b
  PROVE  Second * a >= Second * b + Second
OBVIOUS

\* A reading of a clock as struct timespec.
LEMMA TimespecShows == ASSUME NEW t \in Int  PROVE Shows(Timespec(t), t)
<1>1. /\ t \div Second \in Int /\ t % Second \in 0..(Second - 1)
      /\ t = Second * (t \div Second) + (t % Second)
  OBVIOUS
<1>2. /\ Timespec(t) \in Times
      /\ Timespec(t).sec = t \div Second /\ Timespec(t).nsec = t % Second
  BY <1>1 DEF Timespec, Times
<1> QED
  BY <1>1, <1>2 DEF Shows

\* Add: the carry is right.
LEMMA AddShows ==
  ASSUME NEW x, NEW y, NEW v \in Int, NEW w \in Int, Shows(x, v), Shows(y, w)
  PROVE  Shows(Add(x, y), v + w)
<1>1. PICK a \in Int, b \in Int, k \in Int, l \in Int :
        a = x.sec /\ b = x.nsec /\ k = y.sec /\ l = y.nsec
  BY DEF Shows, Times
<1>2. /\ v = Second * a + b /\ w = Second * k + l
      /\ b \in 0..(Second - 1) /\ l \in 0..(Second - 1)
  BY <1>1 DEF Shows
<1>3. CASE b + l >= Second
  <2>1. Add(x, y) = [sec |-> a + k + 1, nsec |-> b + l - Second]
    BY <1>1, <1>3 DEF Add
  <2>2. Second * (a + k + 1) = Second * a + Second * k + Second
    <3>1. Second * ((a + k) + 1) = Second * (a + k) + Second
      BY Seconds
    <3> QED
      BY <3>1, Seconds
  <2>3. v + w = Second * (a + k + 1) + (b + l - Second)
    BY <1>2, <2>2, Seconds
  <2> QED
    BY <1>2, <1>3, <2>1, <2>3 DEF Shows, Times
<1>4. CASE b + l < Second
  <2>1. Add(x, y) = [sec |-> a + k, nsec |-> b + l]
    BY <1>1, <1>2, <1>4 DEF Add
  <2>2. v + w = Second * (a + k) + (b + l)
    BY <1>2, Seconds
  <2> QED
    BY <1>2, <1>4, <2>1, <2>2 DEF Shows, Times
<1> QED
  BY <1>2, <1>3, <1>4

\* The comparison of times is that of their ticks.
LEMMA AtLeastIs ==
  ASSUME NEW x, NEW y, NEW v \in Int, NEW w \in Int, Shows(x, v), Shows(y, w)
  PROVE  AtLeast(x, y) <=> v >= w
<1>1. PICK a \in Int, b \in Int, k \in Int, l \in Int :
        a = x.sec /\ b = x.nsec /\ k = y.sec /\ l = y.nsec
  BY DEF Shows, Times
<1>2. /\ v = Second * a + b /\ w = Second * k + l
      /\ b \in 0..(Second - 1) /\ l \in 0..(Second - 1)
      /\ {Second * a, Second * k} \subseteq Int
  BY <1>1 DEF Shows
<1>3. AtLeast(x, y) <=> a > k \/ (a = k /\ b >= l)
  BY <1>1 DEF AtLeast
<1>4. CASE a > k
  BY <1>2, <1>3, <1>4, LaterSecond
<1>5. CASE k > a
  BY <1>2, <1>3, <1>5, LaterSecond
<1>6. CASE a = k
  BY <1>2, <1>3, <1>6
<1> QED
  BY <1>4, <1>5, <1>6

\* Subtract: the borrow is right.
LEMMA SubtractShows ==
  ASSUME NEW x, NEW y, NEW v \in Int, NEW w \in Int, Shows(x, v), Shows(y, w)
  PROVE  Shows(Subtract(x, y), v - w)
<1>1. PICK a \in Int, b \in Int, k \in Int, l \in Int :
        a = x.sec /\ b = x.nsec /\ k = y.sec /\ l = y.nsec
  BY DEF Shows, Times
<1>2. /\ v = Second * a + b /\ w = Second * k + l
      /\ b \in 0..(Second - 1) /\ l \in 0..(Second - 1)
  BY <1>1 DEF Shows
<1>3. CASE b < l
  <2>1. Subtract(x, y) = [sec |-> a - k - 1, nsec |-> b - l + Second]
    BY <1>1, <1>3 DEF Subtract
  <2>2. Second * (a - k - 1) = Second * a - Second * k - Second
    <3>1. Second * ((a - k) - 1) = Second * (a - k) - Second
      BY Seconds
    <3> QED
      BY <3>1, Seconds
  <2>3. v - w = Second * (a - k - 1) + (b - l + Second)
    BY <1>2, <2>2, Seconds
  <2> QED
    BY <1>2, <1>3, <2>1, <2>3 DEF Shows, Times
<1>4. CASE b >= l
  <2>1. Subtract(x, y) = [sec |-> a - k, nsec |-> b - l]
    BY <1>1, <1>2, <1>4 DEF Subtract
  <2>2. v - w = Second * (a - k) + (b - l)
    BY <1>2, Seconds
  <2> QED
    BY <1>2, <1>4, <2>1, <2>2 DEF Shows, Times
<1> QED
  BY <1>2, <1>3, <1>4

\* what calcDelay makes of a difference of v ticks
Measures(d, v) ==
  /\ d \in Times
  /\ d.nsec \in 0..(Second - 1)
  /\ (IF d.sec < 0 THEN -1 * d.sec ELSE d.sec) * Second + d.nsec
       = IF v < 0 THEN -1 * v ELSE v
  /\ d.sec < 0 <=> v <= -1 * Second

\* calcDelay: the size of the delay, and its sign unless it is less than a second.
LEMMA DelayMeasures ==
  ASSUME NEW t1 \in Int, NEW t2 \in Int, NEW t3 \in Int, NEW t4 \in Int
  PROVE  Measures(calcDelay(Timespec(t1), Timespec(t2), Timespec(t3), Timespec(t4)),
                  (t4 - t1) - (t3 - t2))
<1> DEFINE plus == Add(Timespec(t4), Timespec(t2))
           minus == Add(Timespec(t1), Timespec(t3))
           v == (t4 - t1) - (t3 - t2)
           d == calcDelay(Timespec(t1), Timespec(t2), Timespec(t3), Timespec(t4))
<1>1. Shows(plus, t4 + t2) /\ Shows(minus, t1 + t3)
  BY TimespecShows, AddShows
<1>2. v = (t4 + t2) - (t1 + t3) /\ v \in Int
  OBVIOUS
<1>3. d = IF AtLeast(plus, minus) THEN Subtract(plus, minus)
          ELSE [Subtract(minus, plus) EXCEPT !.sec = -1 * @]
  BY DEF calcDelay
<1> HIDE DEF plus, minus, d, v
<1>4. ASSUME NEW s \in Int, NEW r \in 0..(Second - 1), Second * s + r >= 0
      PROVE  s >= 0 /\ s * Second = Second * s /\ Second * s \in Int
  <2>1. 0 > s => 0 >= Second * s + Second
    <3>1. 0 > s => Second * 0 >= Second * s + Second
      BY LaterSecond
    <3> QED
      BY <3>1
  <2>2. Second * s \in Int /\ s * Second = Second * s
    BY Seconds
  <2> QED
    BY <1>4, <2>1, <2>2
<1>5. ASSUME v >= 0  PROVE Measures(d, v)
  <2>1. AtLeast(plus, minus)
    BY <1>1, <1>2, <1>5, AtLeastIs
  <2>2. Shows(d, v)
    BY <1>1, <1>2, <1>3, <2>1, SubtractShows
  <2>3. PICK s \in Int, r \in 0..(Second - 1) :
          s = d.sec /\ r = d.nsec /\ v = Second * s + r
    BY <2>2 DEF Shows, Times
  <2>4. s >= 0 /\ s * Second = Second * s
    BY <1>4, <1>5, <2>3
  <2>5. /\ (IF d.sec < 0 THEN -1 * d.sec ELSE d.sec) * Second + d.nsec = v
        /\ ~(d.sec < 0)
    BY <2>3, <2>4
  <2>6. ~(v < 0) /\ ~(v <= -1 * Second)
    BY <1>2, <1>5
  <2> QED
    BY <2>2, <2>5, <2>6 DEF Measures, Shows
<1>6. ASSUME v < 0  PROVE Measures(d, v)
  <2>1. ~AtLeast(plus, minus)
    BY <1>1, <1>2, <1>6, AtLeastIs
  <2>2. PICK e : e = Subtract(minus, plus)
    OBVIOUS
  <2>3. Shows(e, -1 * v)
    <3>1. Shows(e, (t1 + t3) - (t4 + t2))
      BY <1>1, <2>2, SubtractShows
    <3>2. (t1 + t3) - (t4 + t2) = -1 * v
      BY <1>2
    <3> QED
      BY <3>1, <3>2
  <2>4. PICK s \in Int, r \in 0..(Second - 1) :
          s = e.sec /\ r = e.nsec /\ -1 * v = Second * s + r
    BY <2>3 DEF Shows, Times
  <2>5. s >= 0 /\ s * Second = Second * s /\ Second * s \in Int
    BY <1>2, <1>4, <1>6, <2>4
  <2>6. d = [e EXCEPT !.sec = -1 * @]
    BY <1>3, <2>1, <2>2
  <2>7. d \in Times /\ d.sec = -1 * s /\ d.nsec = r
    BY <2>3, <2>4, <2>6 DEF Shows, Times
  <2>8. s > 0 => Second * s >= Second
    <3>1. s > 0 => Second * s >= Second * 0 + Second
      BY LaterSecond
    <3> QED
      BY <3>1
  <2>9. (IF d.sec < 0 THEN -1 * d.sec ELSE d.sec) * Second + d.nsec = -1 * v
    <3>1. (IF d.sec < 0 THEN -1 * d.sec ELSE d.sec) = s
      BY <2>5, <2>7
    <3> QED
      BY <2>4, <2>5, <2>7, <3>1
  <2>10. d.sec < 0 <=> v <= -1 * Second
    <3>1. CASE s = 0
      BY <1>2, <2>4, <2>7, <3>1
    <3>2. CASE s > 0
      BY <1>2, <2>4, <2>5, <2>7, <2>8, <3>2
    <3> QED
      BY <2>5, <3>1, <3>2
  <2> QED
    BY <1>6, <2>4, <2>7, <2>9, <2>10 DEF Measures
<1> QED
  BY <1>2, <1>5, <1>6 DEF d, v

\* the readings of an exchange
Stamps == [t1 : Int, t2 : Int, t3 : Int, t4 : Int]

TimeTypeOK ==
  /\ now \in Nat
  /\ skew \in [Askers \cup {"server"} -> Skews]
  /\ server \in {"waiting", "working", "replied", "ended"}
  /\ server # "waiting" => served \in Askers
  /\ stamps \in [Askers -> Stamps]
  /\ transit \in Int
  /\ measured \in [Askers -> Times]
  /\ stepped \in BOOLEAN

\* a request on its way carries the time it left, as its client read it
Asked(a) ==
  /\ a[1] \in Askers /\ a[2] \in 0..now
  /\ stamps[a[1]].t1 > 0
  /\ ~stepped => stamps[a[1]].t1 = 100 * Second + a[2] + skew[a[1]]

\* a client waits for its answer from its request on
AnswerPending(c) ==
  /\ stamps[c].t1 > 0
  /\ server = "working" =>
       /\ transit >= 0
       /\ ~stepped => transit = stamps[c].t2 - stamps[c].t1 - skew["server"] + skew[c]
  /\ server = "replied" =>
       /\ transit + now >= 0
       /\ ~stepped =>
            transit = stamps[c].t2 - stamps[c].t1 - stamps[c].t3 + 100 * Second + skew[c]

TrueDelay(s) == (s.t4 - s.t1) - (s.t3 - s.t2)

\* what a client has printed is its delay
DelayPrinted(c) ==
  /\ Measures(measured[c], TrueDelay(stamps[c]))
  /\ stepped \/ (TrueDelay(stamps[c]) = transit /\ transit >= 0)

TInv ==
  /\ TimeTypeOK
  /\ \A a \in asker : Asked(a)
  /\ server # "waiting" => AnswerPending(served)
  /\ \A c \in Askers : measured[c] # None => c = served /\ server = "ended"
  /\ server = "ended" => DelayPrinted(served)

\* Clocks show whole numbers above 0.
LEMMA ClockIs ==
  ASSUME TimeTypeOK, NEW who \in Askers \cup {"server"}
  PROVE  /\ skew[who] \in Int /\ Clock(who) \in Int /\ Clock(who) > 0
         /\ Clock(who) = 100 * Second + now + skew[who]
<1>1. PICK s \in Int : s = skew[who] /\ s > -100 * Second
  BY DEF TimeTypeOK
<1>2. PICK m \in Nat : m = now
  BY DEF TimeTypeOK
<1>3. Clock(who) = 100 * Second + m + s
  BY <1>1, <1>2 DEF Clock
<1> QED
  BY <1>1, <1>2, <1>3

\* A request leaves with the time of its client's clock.
LEMMA AskKeeps == ASSUME TInv, NEW c \in Askers, Ask(c)  PROVE TInv'
<1>1. PICK t \in Int : t = Clock(c) /\ t > 0 /\ t = 100 * Second + now + skew[c]
  BY ClockIs DEF TInv
<1>2. stamps[c].t1 = 0
  BY DEF Ask, NoStamps
<1>3. /\ stamps' = [stamps EXCEPT ![c].t1 = t] /\ asker' = asker \cup {<<c, now>>}
      /\ UNCHANGED <<now, skew, server, served, transit, measured, stepped>>
  BY <1>1 DEF Ask
<1>4. /\ stamps' \in [Askers -> Stamps] /\ stamps'[c].t1 = t
      /\ \A d \in Askers \ {c} : stamps'[d] = stamps[d]
  BY <1>3 DEF TInv, TimeTypeOK, Stamps
<1>5. TimeTypeOK'
  BY <1>3, <1>4 DEF TInv, TimeTypeOK
<1>6. ASSUME NEW a \in asker'  PROVE Asked(a)'
  <2>1. CASE a = <<c, now>>
    BY <2>1, <1>1, <1>3, <1>4 DEF TInv, TimeTypeOK, Asked
  <2>2. CASE a \in asker
    <3>1. Asked(a) /\ a[1] # c
      BY <2>2, <1>2 DEF TInv, Asked
    <3> QED
      BY <3>1, <1>3, <1>4 DEF Asked
  <2> QED
    BY <1>3, <2>1, <2>2
<1>7. server # "waiting" => served \in Askers /\ served # c
  BY <1>2 DEF TInv, TimeTypeOK, AnswerPending
<1> QED
  BY <1>3, <1>4, <1>5, <1>6, <1>7 DEF TInv, AnswerPending, DelayPrinted, TrueDelay

\* The server works for one client, and knows how long its request was on its way.
LEMMA ServerReceiveKeeps == ASSUME TInv, NEW c \in Askers, ServerReceive(c)  PROVE TInv'
<1>1. PICK t \in Int : t = Clock("server") /\ t = 100 * Second + now + skew["server"]
  BY ClockIs DEF TInv
<1>2. PICK a \in asker : a[1] = c /\ transit' = now - a[2] /\ asker' = asker \ {a}
  BY DEF ServerReceive
<1>3. /\ server = "waiting" /\ server' = "working" /\ served' = c
      /\ stamps' = [stamps EXCEPT ![c].t2 = t]
      /\ UNCHANGED <<now, skew, measured, stepped>>
  BY <1>1 DEF ServerReceive
<1>4. /\ stamps' \in [Askers -> Stamps]
      /\ stamps'[c].t2 = t /\ stamps'[c].t1 = stamps[c].t1
      /\ \A d \in Askers \ {c} : stamps'[d] = stamps[d]
  BY <1>3 DEF TInv, TimeTypeOK, Stamps
<1>5. Asked(a) /\ a[2] \in 0..now
  BY DEF TInv, Asked
<1>6. TimeTypeOK'
  BY <1>2, <1>3, <1>4, <1>5 DEF TInv, TimeTypeOK
<1>7. ASSUME NEW b \in asker'  PROVE Asked(b)'
  <2>1. Asked(b) /\ stamps'[b[1]].t1 = stamps[b[1]].t1
    BY <1>2, <1>4 DEF TInv, Asked
  <2> QED
    BY <2>1, <1>3 DEF Asked
<1>8. AnswerPending(served)'
  <2>1. stamps[c].t1 \in Int /\ skew[c] \in Int /\ now \in Nat /\ skew["server"] \in Int
    BY ClockIs DEF TInv, TimeTypeOK, Stamps
  <2>2. /\ stamps[c].t1 > 0
        /\ ~stepped => stamps[c].t1 = 100 * Second + a[2] + skew[c]
    BY <1>2, <1>5 DEF Asked
  <2>3. transit' >= 0
    BY <1>2, <1>5, <2>1
  <2>4. ~stepped =>
          transit' = stamps'[c].t2 - stamps'[c].t1 - skew["server"] + skew[c]
    BY <1>1, <1>2, <1>4, <1>5, <2>1, <2>2
  <2> QED
    BY <1>3, <1>4, <2>2, <2>3, <2>4 DEF AnswerPending
<1>9. \A d \in Askers : measured'[d] = None
  BY <1>3 DEF TInv
<1> QED
  BY <1>3, <1>6, <1>7, <1>8, <1>9 DEF TInv

\* The reply leaves no earlier than the request came.
LEMMA ServerReplyKeeps == ASSUME TInv, ServerReply  PROVE TInv'
<1>1. PICK t \in Int : t = Clock("server") /\ t = 100 * Second + now + skew["server"]
  BY ClockIs DEF TInv
<1>2. /\ server = "working" /\ server' = "replied" /\ served \in Askers
      /\ stamps' = [stamps EXCEPT ![served].t3 = t] /\ transit' = transit - now
      /\ UNCHANGED <<now, skew, asker, served, measured, stepped>>
  BY <1>1 DEF ServerReply, TInv, TimeTypeOK
<1>3. PICK c \in Askers : c = served
  BY <1>2
<1>4. /\ stamps' \in [Askers -> Stamps] /\ stamps'[c].t3 = t
      /\ stamps'[c].t1 = stamps[c].t1 /\ stamps'[c].t2 = stamps[c].t2
      /\ \A d \in Askers \ {c} : stamps'[d] = stamps[d]
  BY <1>2, <1>3 DEF TInv, TimeTypeOK, Stamps
<1>5. TimeTypeOK'
  BY <1>2, <1>4 DEF TInv, TimeTypeOK
<1>6. ASSUME NEW b \in asker'  PROVE Asked(b)'
  <2>1. Asked(b) /\ stamps'[b[1]].t1 = stamps[b[1]].t1
    BY <1>2, <1>4 DEF TInv, Asked
  <2> QED
    BY <2>1, <1>2 DEF Asked
<1>7. AnswerPending(c)'
  <2>1. /\ {stamps[c].t1, stamps[c].t2, skew[c], skew["server"], transit} \subseteq Int
        /\ now \in Nat
    BY ClockIs DEF TInv, TimeTypeOK, Stamps
  <2>2. /\ stamps[c].t1 > 0 /\ transit >= 0
        /\ ~stepped => transit = stamps[c].t2 - stamps[c].t1 - skew["server"] + skew[c]
    BY <1>2, <1>3 DEF TInv, AnswerPending
  <2>3. transit' + now >= 0
    BY <1>2, <2>1, <2>2
  <2>4. ~stepped =>
          transit' = stamps'[c].t2 - stamps'[c].t1 - stamps'[c].t3 + 100 * Second + skew[c]
    BY <1>1, <1>2, <1>4, <2>1, <2>2
  <2> QED
    BY <1>2, <1>4, <2>2, <2>3, <2>4 DEF AnswerPending
<1>8. \A d \in Askers : measured'[d] = None
  BY <1>2 DEF TInv
<1> QED
  BY <1>2, <1>3, <1>5, <1>6, <1>7, <1>8 DEF TInv

\* The client measures the way of its request and the way of its reply.
LEMMA ReceiveTimeKeeps == ASSUME TInv, NEW c \in Askers, ReceiveTime(c)  PROVE TInv'
<1>1. PICK t \in Int : t = Clock(c) /\ t = 100 * Second + now + skew[c]
  BY ClockIs DEF TInv
<1>2. PICK s : s = [stamps[c] EXCEPT !.t4 = t]
  OBVIOUS
<1>3. /\ server = "replied" /\ server' = "ended" /\ served = c
      /\ stamps' = [stamps EXCEPT ![c].t4 = t] /\ transit' = transit + now
      /\ measured' = [measured EXCEPT ![c] = Delay(s)]
      /\ UNCHANGED <<now, skew, asker, served, stepped>>
  BY <1>1, <1>2 DEF ReceiveTime
<1>4. /\ s \in Stamps /\ s.t4 = t /\ s.t1 = stamps[c].t1 /\ s.t2 = stamps[c].t2
      /\ s.t3 = stamps[c].t3
  BY <1>2 DEF TInv, TimeTypeOK, Stamps
<1>5. /\ stamps' \in [Askers -> Stamps] /\ stamps'[c] = s
      /\ \A d \in Askers \ {c} : stamps'[d] = stamps[d]
  BY <1>2, <1>3 DEF TInv, TimeTypeOK, Stamps
<1>6. Measures(Delay(s), TrueDelay(s))
  BY <1>4, DelayMeasures DEF Delay, TrueDelay, Stamps
<1>7. /\ measured' \in [Askers -> Times] /\ measured'[c] = Delay(s)
      /\ \A d \in Askers \ {c} : measured'[d] = measured[d]
  BY <1>3, <1>6 DEF TInv, TimeTypeOK, Measures
<1>8. TimeTypeOK'
  BY <1>3, <1>5, <1>7 DEF TInv, TimeTypeOK
<1>9. ASSUME NEW b \in asker'  PROVE Asked(b)'
  <2>1. Asked(b) /\ stamps'[b[1]].t1 = stamps[b[1]].t1
    BY <1>3, <1>4, <1>5 DEF TInv, Asked
  <2> QED
    BY <2>1, <1>3 DEF Asked
<1>10. /\ stamps[c].t1 > 0 /\ transit + now >= 0
       /\ ~stepped => transit = s.t2 - s.t1 - s.t3 + 100 * Second + skew[c]
  BY <1>3, <1>4 DEF TInv, AnswerPending
<1>11. stepped \/ (TrueDelay(s) = transit' /\ transit' >= 0)
  <2>1. {s.t1, s.t2, s.t3, skew[c], transit} \subseteq Int /\ now \in Nat
    BY <1>4, ClockIs DEF TInv, TimeTypeOK, Stamps
  <2> QED
    BY <1>1, <1>3, <1>4, <1>10, <2>1 DEF TrueDelay, TInv, TimeTypeOK
<1>12. AnswerPending(c)' /\ DelayPrinted(c)'
  BY <1>3, <1>4, <1>5, <1>6, <1>7, <1>10, <1>11 DEF AnswerPending, DelayPrinted
<1>13. \A d \in Askers : measured'[d] # None => d = c
  BY <1>3, <1>7 DEF TInv
<1> QED
  BY <1>3, <1>8, <1>9, <1>12, <1>13 DEF TInv

\* Every step of clients, server, time and clocks keeps the invariant.
LEMMA TimeKeeps == TInv /\ [TimeNext]_timeVars => TInv'
<1> SUFFICES ASSUME TInv, [TimeNext]_timeVars  PROVE TInv'
  OBVIOUS
<1>1. CASE \E c \in Askers : Ask(c)
  BY <1>1, AskKeeps
<1>2. CASE \E c \in Askers : ServerReceive(c)
  BY <1>2, ServerReceiveKeeps
<1>3. CASE \E c \in Askers : ReceiveTime(c)
  BY <1>3, ReceiveTimeKeeps
<1>4. CASE ServerReply
  BY <1>4, ServerReplyKeeps
<1>5. CASE Tick
  <2>1. /\ now' = now + 1 /\ now \in Nat /\ transit \in Int
        /\ UNCHANGED <<skew, asker, server, served, stamps, transit, measured, stepped>>
    BY <1>5 DEF Tick, TInv, TimeTypeOK
  <2>2. TimeTypeOK'
    BY <2>1 DEF TInv, TimeTypeOK
  <2>3. \A a \in asker' : Asked(a)'
    BY <2>1 DEF TInv, Asked
  <2>4. server' # "waiting" => AnswerPending(served)'
    BY <2>1 DEF TInv, AnswerPending
  <2> QED
    BY <2>1, <2>2, <2>3, <2>4 DEF TInv, DelayPrinted, TrueDelay
<1>6. ASSUME NEW who \in Askers \cup {"server"}, SetClock(who)  PROVE TInv'
  <2>1. PICK s \in Skews : skew' = [skew EXCEPT ![who] = s]
    BY <1>6 DEF SetClock
  <2>2. /\ stepped' = TRUE
        /\ UNCHANGED <<now, asker, server, served, stamps, transit, measured>>
    BY <1>6 DEF SetClock
  <2>3. TimeTypeOK'
    BY <2>1, <2>2 DEF TInv, TimeTypeOK
  <2> QED
    BY <2>2, <2>3 DEF TInv, Asked, AnswerPending, DelayPrinted, TrueDelay
<1>7. CASE UNCHANGED timeVars
  BY <1>7 DEF timeVars, TInv, TimeTypeOK, Asked, AnswerPending, DelayPrinted, TrueDelay
<1> QED
  BY <1>1, <1>2, <1>3, <1>4, <1>5, <1>6, <1>7 DEF TimeNext

\* Nobody has asked at first.
LEMMA NobodyAsked == TimeInit => TInv
<1> SUFFICES ASSUME TimeInit  PROVE TInv
  OBVIOUS
<1>1. NoStamps \in Stamps /\ None \in Times
  BY DEF NoStamps, Stamps, None, Times
<1>2. stamps \in [Askers -> Stamps] /\ measured \in [Askers -> Times]
  BY <1>1 DEF TimeInit
<1>3. now \in Nat /\ transit \in Int /\ skew \in [Askers \cup {"server"} -> Skews]
  BY DEF TimeInit
<1>4. server = "waiting" /\ stepped \in BOOLEAN
  BY DEF TimeInit
<1>5. TimeTypeOK
  BY <1>2, <1>3, <1>4 DEF TimeTypeOK
<1>6. asker = {} /\ \A c \in Askers : measured[c] = None
  BY DEF TimeInit
<1> QED
  BY <1>4, <1>5, <1>6 DEF TInv

\* What clients and server know of each other's clocks (timeClient.c, timeServer.c).
THEOREM TimeInvariant == TimeSpec => []TInv
BY NobodyAsked, TimeKeeps, PTL DEF TimeSpec

\* A printed delay is that of the four readings, however their carries and borrows
\* fall, and the time on the way unless a clock was set.
THEOREM DelayIsMeasured == TimeSpec => []DelayMeasured
<1>1. TInv => DelayMeasured
  <2> SUFFICES ASSUME TInv, NEW c \in Askers, measured[c] # None
               PROVE  LET s == stamps[c]
                          d == measured[c]
                          ticks == (IF d.sec < 0 THEN -1 * d.sec ELSE d.sec) * Second
                                     + d.nsec
                          true == (s.t4 - s.t1) - (s.t3 - s.t2)
                      IN  /\ c = served
                          /\ d.nsec \in 0..(Second - 1)
                          /\ ticks = IF true < 0 THEN -1 * true ELSE true
                          /\ d.sec < 0 <=> true <= -1 * Second
                          /\ stepped \/ ticks = transit
    BY DEF DelayMeasured
  <2>1. c = served /\ DelayPrinted(c)
    BY DEF TInv
  <2>2. PICK v \in Int : v = TrueDelay(stamps[c])
    BY DEF TInv, TimeTypeOK, Stamps, TrueDelay
  <2>3. Measures(measured[c], v) /\ (stepped \/ (v = transit /\ transit >= 0))
    BY <2>1, <2>2 DEF DelayPrinted
  <2>4. stepped \/ transit = IF v < 0 THEN -1 * v ELSE v
    BY <2>3
  <2> QED
    BY <2>1, <2>2, <2>3, <2>4, Zenon DEF Measures, TrueDelay
<1> QED
  BY <1>1, TimeInvariant, PTL
==============================================================================
