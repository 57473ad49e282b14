--------------------------- MODULE HashChainProofs ---------------------------
(***************************************************************************)
(* Lemmas about the operations of HashChain on one list, for every set K   *)
(* of keys and every set V of values.                                      *)
(***************************************************************************)
EXTENDS HashChain, SequenceTheorems, WellFoundedInduction, TLAPS

\* the nodes of a list
ChainNodes(K, V) ==
  [init : {1}, key : K \cup {0}, value : V \cup {0}] \cup {EmptyNode, Wild}

\* what follows a node that was appended
Endings == {<<>>, <<Wild>>}

\* a list as the operations keep it
Good(K, V, c) ==
  /\ K \subseteq Nat /\ V \subseteq Nat
  /\ c \in Seq(ChainNodes(K, V))
  /\ Len(c) > 0
  /\ \A i \in 1..(Len(c) - 1) : c[i].init = 1
  /\ \A i, j \in DOMAIN c :
       c[i].init = 1 /\ c[j].init = 1 /\ c[i].key = c[j].key /\ c[i].key # 0
       => i = j

\* First picks the least element of a set of naturals.
LEMMA FirstIsLeast ==
  ASSUME NEW S, S \subseteq Nat, S # {}
  PROVE  First(S) \in S /\ \A j \in S : First(S) <= j
<1>1. \E x \in S : \A y \in S : ~(<<y, x>> \in OpToRel(<, Nat))
  BY NatLessThanWellFounded, WFMin
<1>2. PICK x \in S : \A y \in S : ~(<<y, x>> \in OpToRel(<, Nat))
  BY <1>1
<1>3. \A y \in S : x <= y
  <2>1. SUFFICES ASSUME NEW y \in S, ~(x <= y) PROVE FALSE
    OBVIOUS
  <2>2. x \in Nat /\ y \in Nat /\ y < x
    BY <2>1
  <2>3. <<y, x>> \in OpToRel(<, Nat)
    BY <2>2 DEF OpToRel
  <2> QED BY <2>3, <1>2
<1> QED BY <1>3 DEF First

\* the live nodes that hold key k
Live(c, k) == {i \in 1..Len(c) : c[i].init = 1 /\ c[i].key = k}

\* What hashGet finds in a good list: the value of the one live node with the
\* key, and -1 when there is none.
LEMMA GetFinds ==
  ASSUME NEW K, NEW V, NEW c, Good(K, V, c), NEW k \in Nat \ {0}
  PROVE  /\ Hits(c, k) = Live(c, k)
         /\ \A i \in Live(c, k) : Live(c, k) = {i} /\ hashGet(c, k) = c[i].value
         /\ Live(c, k) = {} => hashGet(c, k) = -1
<1>1. DOMAIN c = 1..Len(c) /\ Len(c) \in Nat
  BY DEF Good
<1>2. Walk(c) = {i \in DOMAIN c : c[i].init = 1}
  BY <1>1 DEF Good, Walk
<1>3. Hits(c, k) = Live(c, k)
  BY <1>1, <1>2 DEF Hits, Live
<1>4. ASSUME NEW i \in Live(c, k)
      PROVE  Live(c, k) = {i} /\ hashGet(c, k) = c[i].value
  <2>1. Live(c, k) = {i}
    BY <1>1 DEF Live, Good
  <2>2. First({i}) = i
    BY <1>1 DEF First, Live
  <2> QED BY <1>3, <2>1, <2>2 DEF hashGet
<1> QED BY <1>3, <1>4 DEF hashGet

\* Lists whose live nodes for key k agree give the same answer for it.
LEMMA SameValue ==
  ASSUME NEW K, NEW V, NEW c, Good(K, V, c), NEW d, Good(K, V, d), NEW k \in Nat \ {0},
         Live(c, k) = {} <=> Live(d, k) = {},
         \A i \in Live(c, k) : \A j \in Live(d, k) : c[i].value = d[j].value
  PROVE  hashGet(c, k) = hashGet(d, k)
<1>1. CASE Live(c, k) = {}
  BY <1>1, GetFinds
<1>2. CASE Live(c, k) # {}
  <2>1. PICK i \in Live(c, k) : TRUE
    BY <1>2
  <2>2. PICK j \in Live(d, k) : TRUE
    BY <1>2
  <2>3. hashGet(c, k) = c[i].value /\ hashGet(d, k) = d[j].value
    BY <2>1, <2>2, GetFinds
  <2> QED BY <2>3
<1> QED BY <1>1, <1>2

------------------------------------------------------------------------------
(* hashSet *)

\* Where hashSet stops in a good list: everything before is live and holds
\* another key.
LEMMA SetStop ==
  ASSUME NEW K, NEW V, NEW c, Good(K, V, c), NEW k \in K, ~RunsWild(c, k),
         NEW i, i = First(Stops(c, k))
  PROVE  /\ i \in 1..Len(c)
         /\ \A j \in 1..(i - 1) : c[j].init = 1 /\ c[j].key # k
         /\ c[i].init \in {0, 1}
         /\ c[i].init = 0 => i = Len(c)
         /\ c[i].key # k => i = Len(c)
<1>1. c \in Seq(ChainNodes(K, V)) /\ Len(c) \in Nat /\ Len(c) > 0 /\ DOMAIN c = 1..Len(c)
  BY DEF Good
<1>2. Stops(c, k) \subseteq 1..Len(c) /\ Len(c) \in Stops(c, k)
  BY <1>1 DEF Stops
<1>3. i \in Stops(c, k) /\ \A j \in Stops(c, k) : i <= j
  <2>1. Stops(c, k) \subseteq Nat /\ Stops(c, k) # {}
    BY <1>1, <1>2
  <2> QED BY <2>1, FirstIsLeast
<1>4. i \in 1..Len(c)
  BY <1>2, <1>3
<1>5. \A j \in 1..(i - 1) : j \notin Stops(c, k)
  BY <1>1, <1>3, <1>4
<1>6. ASSUME NEW j \in 1..(i - 1)
      PROVE  c[j].init = 1 /\ c[j].key # k
  <2>1. j \in 1..(Len(c) - 1) /\ j \in DOMAIN c
    BY <1>1, <1>4
  <2>2. c[j].key # k
    BY <1>5, <2>1 DEF Stops
  <2>3. c[j].init = 1
    BY <2>1 DEF Good
  <2> QED BY <2>2, <2>3
<1>7. c[i] \in ChainNodes(K, V)
  BY <1>1, <1>4, ElementOfSeq
<1>8. c[i].init \in {0, 1}
  <2>1. SUFFICES ASSUME c[i].init \notin {0, 1} PROVE FALSE
    OBVIOUS
  <2>2. c[i] = Wild
    BY <2>1, <1>7 DEF ChainNodes, EmptyNode
  <2>3. i = Len(c)
    BY <2>1, <1>1, <1>4 DEF Good
  <2>4. Hits(c, k) = {}
    BY <1>1, <1>6, <2>1, <2>3 DEF Hits, Walk
  <2> QED BY <2>2, <2>3, <2>4 DEF RunsWild
<1>9. c[i].init = 0 => i = Len(c)
  BY <1>1, <1>4 DEF Good
<1>10. c[i].key # k => i = Len(c)
  BY <1>3, <1>9 DEF Stops
<1> QED BY <1>4, <1>6, <1>8, <1>9, <1>10

\* The list after the append of hashSet, node by node.
LEMMA Appended ==
  ASSUME NEW K, NEW V, NEW c \in Seq(ChainNodes(K, V)), NEW e \in ChainNodes(K, V),
         NEW tail \in Endings
  PROVE  /\ c \o <<e>> \o tail \in Seq(ChainNodes(K, V))
         /\ Len(c \o <<e>> \o tail) \in {Len(c) + 1, Len(c) + 2}
         /\ \A j \in 1..Len(c) : (c \o <<e>> \o tail)[j] = c[j]
         /\ (c \o <<e>> \o tail)[Len(c) + 1] = e
         /\ Len(c \o <<e>> \o tail) = Len(c) + 2 =>
              (c \o <<e>> \o tail)[Len(c) + 2] = Wild
<1> DEFINE ce == c \o <<e>>
           d == ce \o tail
<1> SUFFICES /\ d \in Seq(ChainNodes(K, V))
             /\ Len(d) \in {Len(c) + 1, Len(c) + 2}
             /\ \A j \in 1..Len(c) : d[j] = c[j]
             /\ d[Len(c) + 1] = e
             /\ Len(d) = Len(c) + 2 => d[Len(c) + 2] = Wild
  OBVIOUS
<1>1. /\ ce \in Seq(ChainNodes(K, V))
      /\ Len(ce) = Len(c) + 1
      /\ Len(c) \in Nat
      /\ \A j \in 1..Len(c) : ce[j] = c[j]
      /\ ce[Len(c) + 1] = e
  <2>1. <<e>> \in Seq(ChainNodes(K, V))
    OBVIOUS
  <2>2. Len(<<e>>) = 1 /\ <<e>>[1] = e
    OBVIOUS
  <2>3. Len(c) \in Nat
    OBVIOUS
  <2>4. /\ ce \in Seq(ChainNodes(K, V))
        /\ Len(ce) = Len(c) + Len(<<e>>)
        /\ \A j \in 1..(Len(c) + Len(<<e>>)) :
              ce[j] = IF j <= Len(c) THEN c[j] ELSE <<e>>[j - Len(c)]
    BY <2>1, ConcatProperties
  <2> QED BY <2>2, <2>3, <2>4
<1>2. CASE tail = <<>>
  <2>1. d = ce
    BY <1>1, <1>2, ConcatEmptySeq
  <2> HIDE DEF ce, d
  <2>2. Len(d) = Len(c) + 1 /\ Len(d) # Len(c) + 2
    BY <1>1, <2>1
  <2> QED BY <1>1, <2>1, <2>2
<1>3. CASE tail = <<Wild>>
  <2> DEFINE w == <<Wild>>
  <2>1. Wild \in ChainNodes(K, V)
    BY DEF ChainNodes
  <2>2. w \in Seq(ChainNodes(K, V))
    BY <2>1
  <2>3. Len(w) = 1 /\ w[1] = Wild
    OBVIOUS
  <2>4. d = ce \o w
    BY <1>3
  <2> HIDE DEF ce, w, d
  <2>5. /\ d \in Seq(ChainNodes(K, V))
        /\ Len(d) = Len(ce) + Len(w)
        /\ \A j \in 1..(Len(ce) + Len(w)) :
              d[j] = IF j <= Len(ce) THEN ce[j] ELSE w[j - Len(ce)]
    <3>1. ce \in Seq(ChainNodes(K, V))
      BY <1>1
    <3> QED BY <2>2, <2>4, <3>1, ConcatProperties
  <2>6. Len(d) = Len(c) + 2 /\ d[Len(c) + 2] = Wild
    BY <1>1, <2>3, <2>5
  <2>7. \A j \in 1..(Len(c) + 1) : d[j] = ce[j]
    BY <1>1, <2>3, <2>5
  <2> QED BY <1>1, <2>5, <2>6, <2>7
<1> QED BY <1>2, <1>3 DEF Endings

\* hashSet keeps a list good and makes hashGet find the value, for every key
\* but 0 and for no other key.
LEMMA SetGood ==
  ASSUME NEW K, NEW V, NEW c, Good(K, V, c), NEW k \in K, NEW v \in V,
         NEW tail \in Endings,
         ~RunsWild(c, k)
  PROVE  /\ Good(K, V, hashSet(c, k, v, tail))
         /\ \A q \in K \ {0} :
              k # 0 => hashGet(hashSet(c, k, v, tail), q) =
                         IF q = k THEN v ELSE hashGet(c, q)
<1> DEFINE i == First(Stops(c, k))
           d == hashSet(c, k, v, tail)
<1>1. /\ i \in 1..Len(c)
      /\ \A j \in 1..(i - 1) : c[j].init = 1 /\ c[j].key # k
      /\ c[i].init \in {0, 1}
      /\ c[i].init = 0 => i = Len(c)
      /\ c[i].key # k => i = Len(c)
  BY SetStop
<1>2. /\ c \in Seq(ChainNodes(K, V)) /\ Len(c) \in Nat /\ Len(c) > 0 /\ DOMAIN c = 1..Len(c)
      /\ \A j \in 1..(Len(c) - 1) : c[j].init = 1
      /\ \A j, l \in 1..Len(c) :
           c[j].init = 1 /\ c[l].init = 1 /\ c[j].key = c[l].key /\ c[j].key # 0
           => j = l
  BY DEF Good
<1>3. Entry(k, v) \in ChainNodes(K, V) /\ K \subseteq Nat
  BY DEF Entry, ChainNodes, Good
<1>4. c[i] \in ChainNodes(K, V)
  BY <1>1, <1>2, ElementOfSeq
<1> HIDE DEF i
\* it suffices to show that d is good, and which live nodes it has
<1>5. ASSUME Good(K, V, d),
             \A j \in Live(d, k) : d[j].value = v,
             Live(d, k) # {},
             \A q \in K \ {k} :
               /\ Live(d, q) = Live(c, q)
               /\ \A j \in Live(c, q) : d[j].value = c[j].value
      PROVE  Good(K, V, d) /\ \A q \in K \ {0} :
               k # 0 => hashGet(d, q) = IF q = k THEN v ELSE hashGet(c, q)
  <2> HIDE DEF d
  <2>1. ASSUME NEW q \in K \ {0}, k # 0
        PROVE  hashGet(d, q) = IF q = k THEN v ELSE hashGet(c, q)
    <3>1. CASE q = k
      BY <1>3, <1>5, <3>1, GetFinds
    <3>2. CASE q # k
      <4>1. Live(d, q) = Live(c, q) /\ \A j \in Live(c, q) : d[j].value = c[j].value
        BY <1>5, <3>2
      <4>2. \A j \in Live(c, q) : \A l \in Live(d, q) : c[j].value = d[l].value
        BY <1>3, <4>1, GetFinds
      <4> QED BY <1>3, <1>5, <3>2, <4>1, <4>2, SameValue
    <3> QED BY <3>1, <3>2
  <2> QED BY <1>5, <2>1
<1>6. CASE c[i].init = 0
  <2>1. d = [c EXCEPT ![i] = Entry(k, v)]
    BY <1>6 DEF hashSet, i
  <2> DEFINE e == Entry(k, v)
  <2>2. e.init = 1 /\ e.key = k /\ e.value = v
    BY DEF Entry
  <2> HIDE DEF d, e
  <2>3. /\ d \in Seq(ChainNodes(K, V)) /\ Len(d) = Len(c)
        /\ d[i] = e
        /\ \A j \in 1..Len(c) : j # i => d[j] = c[j]
    <3>1. e \in ChainNodes(K, V) /\ c \in Seq(ChainNodes(K, V)) /\ d = [c EXCEPT ![i] = e]
      BY <1>2, <1>3, <2>1 DEF e
    <3> QED BY <1>1, <3>1, ExceptSeq
  <2>4. \A j \in 1..Len(c) : j # i => c[j].init = 1 /\ c[j].key # k
    BY <1>1, <1>2, <1>6
  <2>5. Good(K, V, d)
    <3>1. DOMAIN d = 1..Len(c)
      BY <1>2, <2>3
    <3>2. ASSUME NEW j \in 1..(Len(d) - 1)
          PROVE  d[j].init = 1
      <4>1. CASE j = i
        BY <2>2, <2>3, <4>1
      <4>2. CASE j # i
        BY <1>2, <2>3, <4>2
      <4> QED BY <4>1, <4>2
    <3>3. ASSUME NEW j \in 1..Len(c), NEW l \in 1..Len(c),
                 d[j].init = 1, d[l].init = 1, d[j].key = d[l].key, d[j].key # 0
          PROVE  j = l
      <4>1. CASE j = i \/ l = i
        BY <2>2, <2>3, <2>4, <3>3, <4>1
      <4>2. CASE j # i /\ l # i
        BY <1>2, <2>3, <3>3, <4>2
      <4> QED BY <4>1, <4>2
    <3> QED BY <1>2, <2>3, <3>1, <3>2, <3>3 DEF Good
  <2>6. i \in Live(d, k) /\ \A j \in Live(d, k) : j = i
    BY <1>1, <1>2, <2>2, <2>3, <2>4 DEF Live
  <2>7. ASSUME NEW q \in K \ {k}
        PROVE  /\ Live(d, q) = Live(c, q)
               /\ \A j \in Live(c, q) : d[j].value = c[j].value
    BY <1>1, <1>2, <1>6, <2>2, <2>3 DEF Live
  <2> QED BY <1>1, <1>5, <2>2, <2>3, <2>5, <2>6, <2>7 DEF d
<1>7. CASE c[i].init = 1 /\ c[i].key = k
  <2> DEFINE e == [c[i] EXCEPT !.value = v]
  <2>1. d = [c EXCEPT ![i] = e]
    BY <1>7 DEF hashSet, i
  <2>2. c[i] \in [init : {1}, key : K \cup {0}, value : V \cup {0}]
    BY <1>4, <1>7 DEF ChainNodes, EmptyNode, Wild
  <2>3. e \in ChainNodes(K, V) /\ e.init = 1 /\ e.key = k /\ e.value = v
    BY <1>7, <2>2 DEF ChainNodes
  <2> HIDE DEF d, e
  <2>4. /\ d \in Seq(ChainNodes(K, V)) /\ Len(d) = Len(c)
        /\ d[i] = e
        /\ \A j \in 1..Len(c) : j # i => d[j] = c[j]
    BY <1>1, <1>2, <2>1, <2>3, ExceptSeq
  <2>5. Good(K, V, d)
    BY <1>1, <1>2, <1>7, <2>3, <2>4 DEF Good
  <2>6. ASSUME NEW q \in K
        PROVE  Live(d, q) = Live(c, q)
    BY <1>1, <1>2, <1>7, <2>3, <2>4 DEF Live
  <2>7. i \in Live(d, k) /\ \A j \in Live(d, k) : j = i \/ k = 0
    BY <1>1, <1>2, <1>3, <1>7, <2>3, <2>4, <2>6 DEF Live
  <2>8. ASSUME NEW q \in K \ {k}
        PROVE  \A j \in Live(c, q) : d[j].value = c[j].value
    BY <1>1, <1>2, <1>7, <2>4 DEF Live
  <2> QED BY <1>1, <1>5, <2>3, <2>4, <2>5, <2>6, <2>7, <2>8 DEF d
<1>8. CASE c[i].init = 1 /\ c[i].key # k
  <2> DEFINE e == Entry(k, v)
  <2>1. d = c \o <<e>> \o tail
    BY <1>8 DEF hashSet, i
  <2>2. e.init = 1 /\ e.key = k /\ e.value = v
    BY DEF Entry
  <2> HIDE DEF d, e
  <2>3. /\ d \in Seq(ChainNodes(K, V))
        /\ Len(d) \in {Len(c) + 1, Len(c) + 2}
        /\ \A j \in 1..Len(c) : d[j] = c[j]
        /\ d[Len(c) + 1] = e
        /\ Len(d) = Len(c) + 2 => d[Len(c) + 2].init = -1
    <3>1. e \in ChainNodes(K, V) /\ c \in Seq(ChainNodes(K, V)) /\ Wild.init = -1
      BY <1>2, <1>3 DEF e, Wild
    <3>2. /\ d \in Seq(ChainNodes(K, V))
          /\ Len(d) \in {Len(c) + 1, Len(c) + 2}
          /\ \A j \in 1..Len(c) : d[j] = c[j]
          /\ d[Len(c) + 1] = e
          /\ Len(d) = Len(c) + 2 => d[Len(c) + 2] = Wild
      BY <2>1, <3>1, Appended
    <3> QED BY <3>1, <3>2
  <2>4. \A j \in 1..Len(c) : c[j].init = 1 /\ c[j].key # k
    BY <1>1, <1>8
  <2>5. Good(K, V, d)
    <3>1. Len(d) \in Nat /\ Len(d) > 0 /\ DOMAIN d = 1..Len(d)
      BY <1>2, <2>3
    <3>2. \A j \in 1..(Len(d) - 1) : d[j].init = 1
      BY <1>2, <2>2, <2>3, <2>4
    <3>3. ASSUME NEW j \in 1..Len(d), NEW l \in 1..Len(d),
                 d[j].init = 1, d[l].init = 1, d[j].key = d[l].key, d[j].key # 0
          PROVE  j = l
      <4>1. j \in 1..(Len(c) + 1) /\ l \in 1..(Len(c) + 1)
        BY <1>2, <2>3, <3>3
      <4>2. CASE j = Len(c) + 1 \/ l = Len(c) + 1
        BY <1>2, <2>2, <2>3, <2>4, <3>3, <4>1, <4>2
      <4>3. CASE j # Len(c) + 1 /\ l # Len(c) + 1
        BY <1>2, <2>3, <3>3, <4>1, <4>3
      <4> QED BY <4>2, <4>3
    <3> QED BY <2>3, <3>1, <3>2, <3>3 DEF Good
  <2>6. Len(c) + 1 \in Live(d, k) /\ \A j \in Live(d, k) : j = Len(c) + 1
    BY <1>2, <2>2, <2>3, <2>4 DEF Live
  <2>7. ASSUME NEW q \in K \ {k}
        PROVE  /\ Live(d, q) = Live(c, q)
               /\ \A j \in Live(c, q) : d[j].value = c[j].value
    BY <1>2, <2>2, <2>3 DEF Live
  <2> QED BY <1>2, <1>5, <2>2, <2>3, <2>5, <2>6, <2>7 DEF d
<1> QED BY <1>1, <1>6, <1>7, <1>8
------------------------------------------------------------------------------
(* hashDel *)

\* A function on 1..n is a sequence of length n.
LEMMA FunctionIsSeq ==
  ASSUME NEW S, NEW n \in Nat, NEW f \in [1..n -> S]
  PROVE  f \in Seq(S) /\ Len(f) = n
<1>1. f \in Seq(S)
  BY SeqDef
<1>2. DOMAIN f = 1..n /\ DOMAIN f = 1..Len(f) /\ Len(f) \in Nat
  BY <1>1, LenProperties
<1>3. Len(f) <= n
  <2>1. Len(f) > 0 => Len(f) \in 1..n
    BY <1>2
  <2> QED BY <1>2, <2>1
<1>4. n <= Len(f)
  <2>1. n > 0 => n \in 1..Len(f)
    BY <1>2
  <2> QED BY <1>2, <2>1
<1> QED BY <1>1, <1>2, <1>3, <1>4

\* The list after AbsorbNext, node by node: node i has moved up its successor.
LEMMA Absorbed ==
  ASSUME NEW K, NEW V, NEW c \in Seq(ChainNodes(K, V)), NEW i \in 1..(Len(c) - 1),
         c[i].init = 1, c[i + 1] # Wild
  PROVE  LET d == AbsorbNext(c, i)
         IN  /\ d \in Seq(ChainNodes(K, V))
             /\ Len(d) = Len(c) - 1
             /\ \A j \in 1..(i - 1) : d[j] = c[j]
             /\ d[i].init = 1
             /\ d[i].key = c[i + 1].key
             /\ d[i].value = c[i + 1].value
             /\ \A j \in (i + 1)..(Len(c) - 1) : d[j] = c[j + 1]
<1> DEFINE n == Len(c) - 1
           m == [init |-> 1, key |-> c[i + 1].key, value |-> c[i + 1].value]
           d == [j \in 1..n |-> IF j < i THEN c[j] ELSE IF j = i THEN m ELSE c[j + 1]]
<1>1. AbsorbNext(c, i) = d
  BY DEF AbsorbNext
<1>2. Len(c) \in Nat /\ n \in Nat /\ \A j \in 1..Len(c) : c[j] \in ChainNodes(K, V)
  BY ElementOfSeq
<1>3. m \in ChainNodes(K, V)
  <2>1. c[i + 1] \in [init : {1}, key : K \cup {0}, value : V \cup {0}]
                    \cup {EmptyNode}
    BY <1>2 DEF ChainNodes
  <2> QED BY <2>1 DEF ChainNodes, EmptyNode
<1>4. m.init = 1 /\ m.key = c[i + 1].key /\ m.value = c[i + 1].value
  OBVIOUS
<1> HIDE DEF m
<1>5. d \in [1..n -> ChainNodes(K, V)]
  BY <1>2, <1>3
<1>6. d \in Seq(ChainNodes(K, V)) /\ Len(d) = n
  <2> HIDE DEF d, n
  <2> QED BY <1>2, <1>5, FunctionIsSeq
<1>7. d[i] = m /\ (\A j \in 1..(i - 1) : d[j] = c[j])
  BY <1>2
<1>8. \A j \in (i + 1)..n : d[j] = c[j + 1]
  BY <1>2
<1> HIDE DEF d
<1> QED BY <1>1, <1>4, <1>6, <1>7, <1>8
\* hashDel keeps a list good and makes hashGet miss the key, for every key but
\* 0 and for no other key.
LEMMA DelGood ==
  ASSUME NEW K, NEW V, NEW c, Good(K, V, c), NEW k \in K, ~CopiesWild(c, k)
  PROVE  /\ Good(K, V, hashDel(c, k))
         /\ \A q \in K \ {0} :
              k # 0 => hashGet(hashDel(c, k), q) =
                         IF q = k THEN -1 ELSE hashGet(c, q)
<1> DEFINE i == First(Hits(c, k))
           d == hashDel(c, k)
<1>1. /\ c \in Seq(ChainNodes(K, V)) /\ Len(c) \in Nat /\ Len(c) > 0 /\ DOMAIN c = 1..Len(c)
      /\ \A j \in 1..(Len(c) - 1) : c[j].init = 1
      /\ \A j, l \in 1..Len(c) :
           c[j].init = 1 /\ c[l].init = 1 /\ c[j].key = c[l].key /\ c[j].key # 0
           => j = l
  BY DEF Good
<1>2. K \subseteq Nat
  BY DEF Good
<1>3. CASE Hits(c, k) = {}
  BY <1>3 DEF hashDel, hashGet
<1>4. CASE Hits(c, k) # {}
  <2>1. Hits(c, k) \subseteq 1..Len(c)
    BY <1>1 DEF Hits, Walk
  <2>2. i \in Hits(c, k)
    <3>1. Hits(c, k) \subseteq Nat
      BY <1>1, <2>1
    <3> QED BY <1>4, <3>1, FirstIsLeast
  <2>3. i \in 1..Len(c) /\ c[i].init = 1 /\ c[i].key = k
    BY <1>1, <2>2 DEF Hits, Walk
  <2> HIDE DEF i
  \* it suffices to say where the live nodes of d come from
  <2>4. ASSUME Good(K, V, d),
               k # 0 => Live(d, k) = {},
               \A q \in K \ {0, k} :
                 /\ Live(c, q) = {} <=> Live(d, q) = {}
                 /\ \A j \in Live(c, q) : \A l \in Live(d, q) :
                      c[j].value = d[l].value
        PROVE  Good(K, V, d) /\ \A q \in K \ {0} :
                 k # 0 => hashGet(d, q) = IF q = k THEN -1 ELSE hashGet(c, q)
    <3> HIDE DEF d
    <3>1. ASSUME NEW q \in K \ {0}, k # 0
          PROVE  hashGet(d, q) = IF q = k THEN -1 ELSE hashGet(c, q)
      <4>1. CASE q = k
        BY <1>2, <2>4, <3>1, <4>1, GetFinds
      <4>2. CASE q # k
        BY <1>2, <2>4, <3>1, <4>2, SameValue
      <4> QED BY <4>1, <4>2
    <3> QED BY <2>4, <3>1
  <2>5. CASE i < Len(c)
    <3>1. d = AbsorbNext(c, i)
      BY <1>4, <2>5 DEF hashDel, i
    <3>2. c[i + 1] # Wild
      <4>1. CASE i + 1 = Len(c)
        BY <1>4, <4>1 DEF CopiesWild, i
      <4>2. CASE i + 1 # Len(c)
        <5>1. i + 1 \in 1..(Len(c) - 1)
          <6>1. Len(c) \in Nat /\ i \in 1..Len(c)
            BY <1>1, <2>3
          <6> QED BY <2>5, <4>2, <6>1
        <5>2. c[i + 1].init = 1
          BY <1>1, <5>1
        <5> QED BY <5>2 DEF Wild
      <4> QED BY <4>1, <4>2
    <3>3. /\ d \in Seq(ChainNodes(K, V))
          /\ Len(d) = Len(c) - 1
          /\ \A j \in 1..(i - 1) : d[j] = c[j]
          /\ d[i].init = 1
          /\ d[i].key = c[i + 1].key
          /\ d[i].value = c[i + 1].value
          /\ \A j \in (i + 1)..(Len(c) - 1) : d[j] = c[j + 1]
      <4>1. c \in Seq(ChainNodes(K, V)) /\ i \in 1..(Len(c) - 1)
        BY <1>1, <2>3, <2>5
      <4> HIDE DEF d
      <4> QED BY <2>3, <3>1, <3>2, <4>1, Absorbed
    <3>4. c[i + 1].init # 1 => c[i + 1].key = 0
      <4>1. c[i + 1] \in ChainNodes(K, V)
        BY <1>1, <2>3, <2>5, ElementOfSeq
      <4> QED BY <4>1 DEF ChainNodes, EmptyNode, Wild
    <3> HIDE DEF d
    <3> DEFINE from(j) == IF j < i THEN j ELSE j + 1
    \* a live node of d with a key other than 0 is the live node from(j) of c
    <3>5. ASSUME NEW j \in 1..Len(d), d[j].init = 1, d[j].key # 0
          PROVE  /\ from(j) \in 1..Len(c)
                 /\ from(j) # i
                 /\ c[from(j)].init = 1
                 /\ c[from(j)].key = d[j].key
                 /\ c[from(j)].value = d[j].value
      <4>1. CASE j < i
        BY <1>1, <2>3, <3>3, <3>5, <4>1
      <4>2. CASE j = i
        BY <1>1, <2>3, <2>5, <3>3, <3>4, <3>5, <4>2
      <4>3. CASE j > i
        BY <1>1, <2>3, <3>3, <3>5, <4>3
      <4> QED BY <1>1, <2>3, <3>3, <4>1, <4>2, <4>3
    <3>6. Good(K, V, d)
      <4>1. Len(d) > 0 /\ DOMAIN d = 1..Len(d)
        BY <1>1, <2>3, <2>5, <3>3
      <4>2. ASSUME NEW j \in 1..(Len(d) - 1)
            PROVE  d[j].init = 1
        <5>1. CASE j < i
          BY <1>1, <2>3, <3>3, <5>1
        <5>2. CASE j = i
          BY <3>3, <5>2
        <5>3. CASE j > i
          BY <1>1, <2>3, <3>3, <5>3
        <5> QED BY <1>1, <2>3, <3>3, <5>1, <5>2, <5>3
      <4>3. ASSUME NEW j \in 1..Len(d), NEW l \in 1..Len(d),
                   d[j].init = 1, d[l].init = 1, d[j].key = d[l].key, d[j].key # 0
            PROVE  j = l
        <5>1. from(j) = from(l)
          <6>1. /\ from(j) \in 1..Len(c) /\ c[from(j)].init = 1
                /\ c[from(j)].key = d[j].key
            BY <3>5, <4>3
          <6>2. /\ from(l) \in 1..Len(c) /\ c[from(l)].init = 1
                /\ c[from(l)].key = d[j].key
            BY <3>5, <4>3
          <6> QED BY <1>1, <4>3, <6>1, <6>2
        <5> QED BY <1>1, <2>3, <3>3, <5>1
      <4> QED BY <3>3, <4>1, <4>2, <4>3 DEF Good
    <3>7. k # 0 => Live(d, k) = {}
      <4>1. SUFFICES ASSUME k # 0, NEW j \in Live(d, k) PROVE FALSE
        OBVIOUS
      <4>2. from(j) \in 1..Len(c) /\ from(j) # i /\ c[from(j)].init = 1
            /\ c[from(j)].key = k
        BY <3>5, <4>1 DEF Live
      <4> QED BY <1>1, <2>3, <4>1, <4>2
    <3>8. ASSUME NEW q \in K \ {0, k}
          PROVE  /\ Live(c, q) = {} <=> Live(d, q) = {}
                 /\ \A j \in Live(c, q) : \A l \in Live(d, q) :
                      c[j].value = d[l].value
      <4>1. ASSUME NEW l \in Live(d, q)
            PROVE  from(l) \in Live(c, q) /\ c[from(l)].value = d[l].value
        BY <3>5, <4>1 DEF Live
      <4>2. ASSUME NEW j \in Live(c, q)
            PROVE  Live(d, q) # {}
        <5>1. j \in 1..Len(c) /\ j # i /\ c[j].init = 1 /\ c[j].key = q
          BY <2>3, <4>2 DEF Live
        <5>2. CASE j < i
          BY <1>1, <2>3, <3>3, <5>1, <5>2 DEF Live
        <5>3. CASE j = i + 1
          BY <1>1, <2>3, <2>5, <3>3, <5>1, <5>3 DEF Live
        <5>4. CASE j > i + 1
          <6>1. j - 1 \in 1..Len(d) /\ d[j - 1] = c[j]
            BY <1>1, <2>3, <3>3, <5>1, <5>4
          <6> QED BY <5>1, <6>1 DEF Live
        <5> QED BY <1>1, <2>3, <5>1, <5>2, <5>3, <5>4
      <4>3. ASSUME NEW j \in Live(c, q), NEW l \in Live(d, q)
            PROVE  c[j].value = d[l].value
        <5>1. j = from(l)
          BY <1>2, <4>1, GetFinds
        <5> QED BY <4>1, <5>1
      <4> QED BY <4>1, <4>2, <4>3
    <3> QED BY <2>4, <3>6, <3>7, <3>8 DEF d
  <2>6. CASE i = Len(c)
    <3>1. d = [c EXCEPT ![i] = EmptyNode]
      BY <1>4, <2>6 DEF hashDel, i
    <3>2. EmptyNode \in ChainNodes(K, V) /\ EmptyNode.init = 0
      BY DEF ChainNodes, EmptyNode
    <3> HIDE DEF d
    <3>3. /\ d \in Seq(ChainNodes(K, V)) /\ Len(d) = Len(c) /\ DOMAIN d = 1..Len(d)
          /\ d[i].init = 0
          /\ \A j \in 1..Len(c) : j # i => d[j] = c[j]
      BY <1>1, <2>3, <3>1, <3>2, ExceptSeq
    <3>4. \A j \in 1..Len(c) : d[j].init = 1 => d[j] = c[j] /\ j # i
      BY <3>3
    <3>5. Good(K, V, d)
      <4>1. \A j \in 1..(Len(d) - 1) : d[j].init = 1
        <5>1. i \notin 1..(Len(d) - 1)
          BY <2>6, <3>3
        <5> QED BY <1>1, <3>3, <5>1
      <4>2. ASSUME NEW j \in 1..Len(d), NEW l \in 1..Len(d),
                   d[j].init = 1, d[l].init = 1, d[j].key = d[l].key, d[j].key # 0
            PROVE  j = l
        BY <1>1, <3>3, <3>4, <4>2
      <4> QED BY <1>1, <3>3, <4>1, <4>2 DEF Good
    <3>6. k # 0 => Live(d, k) = {}
      BY <1>1, <2>3, <3>3, <3>4 DEF Live
    <3>7. ASSUME NEW q \in K \ {0, k}
          PROVE  Live(d, q) = Live(c, q) /\ \A j \in Live(c, q) : d[j] = c[j]
      BY <1>1, <2>3, <3>3, <3>4 DEF Live
    <3>8. ASSUME NEW q \in K \ {0, k}
          PROVE  \A j \in Live(c, q) : \A l \in Live(d, q) : c[j].value = d[l].value
      <4>1. SUFFICES ASSUME NEW j \in Live(c, q), NEW l \in Live(d, q)
                     PROVE  c[j].value = d[l].value
        OBVIOUS
      <4>2. q \in Nat \ {0} /\ Live(d, q) = Live(c, q) /\ d[l] = c[l]
        BY <1>2, <3>7
      <4>3. j = l
        BY <4>2, GetFinds
      <4> QED BY <4>2, <4>3
    <3> QED BY <2>4, <3>5, <3>6, <3>7, <3>8 DEF d
  <2>7. i < Len(c) \/ i = Len(c)
    <3>1. i \in 1..Len(c) /\ Len(c) \in Nat
      BY <1>1, <2>3
    <3> QED BY <3>1
  <2> QED BY <2>5, <2>6, <2>7
<1> QED BY <1>3, <1>4

------------------------------------------------------------------------------
(* hashGet *)

\* hashGet returns a value of the list, or -1 exactly if no node is hit.
LEMMA GetValue ==
  ASSUME NEW K, NEW V, NEW c, Good(K, V, c), NEW k
  PROVE  /\ hashGet(c, k) \in V \cup {0, -1}
         /\ hashGet(c, k) = -1 <=> Hits(c, k) = {}
<1>1. CASE Hits(c, k) = {}
  BY <1>1 DEF hashGet
<1>2. CASE Hits(c, k) # {}
  <2> DEFINE i == First(Hits(c, k))
  <2>1. c \in Seq(ChainNodes(K, V))
    BY DEF Good
  <2>2. Hits(c, k) \subseteq 1..Len(c)
    BY <2>1 DEF Hits, Walk
  <2>3. Hits(c, k) \subseteq Nat
    BY <2>1, <2>2
  <2>4. i \in 1..Len(c)
    BY <1>2, <2>2, <2>3, FirstIsLeast
  <2>5. c[i] \in ChainNodes(K, V)
    BY <2>1, <2>4, ElementOfSeq
  <2>6. c[i].value \in V \cup {0}
    BY <2>5 DEF ChainNodes, EmptyNode, Wild
  <2>7. hashGet(c, k) = c[i].value
    BY <1>2 DEF hashGet
  <2>8. \A x \in V : x \in Nat
    BY DEF Good
  <2> QED BY <1>2, <2>6, <2>7, <2>8
<1> QED BY <1>1, <1>2

\* The list of a bucket never written to is good, and holds nothing.
LEMMA EmptyGood ==
  ASSUME NEW K, K \subseteq Nat, NEW V, V \subseteq Nat
  PROVE  /\ Good(K, V, <<EmptyNode>>)
         /\ \A k : hashGet(<<EmptyNode>>, k) = -1
<1>1. <<EmptyNode>> \in Seq(ChainNodes(K, V))
  BY DEF ChainNodes
<1>2. /\ Len(<<EmptyNode>>) = 1 /\ <<EmptyNode>>[1].init = 0
      /\ DOMAIN <<EmptyNode>> = 1..1
  BY DEF EmptyNode
<1>3. \A k : hashGet(<<EmptyNode>>, k) = -1
  <2>1. Walk(<<EmptyNode>>) = {}
    BY DEF Walk, EmptyNode
  <2> QED BY <2>1 DEF hashGet, Hits
<1>4. Good(K, V, <<EmptyNode>>)
  BY <1>1, <1>2 DEF Good
<1> QED BY <1>3, <1>4

------------------------------------------------------------------------------
(* Lists without a garbage pointer *)

\* hashSet with a clean next pointer, and hashDel, never end a list with garbage.
LEMMA StaysTame ==
  ASSUME NEW K, NEW V, NEW c, Good(K, V, c), c[Len(c)] # Wild, NEW k \in K, NEW v \in V
  PROVE  LET s == hashSet(c, k, v, <<>>)
             d == hashDel(c, k)
         IN  /\ ~RunsWild(c, k) /\ ~CopiesWild(c, k)
             /\ s[Len(s)] # Wild
             /\ d[Len(d)] # Wild
<1> DEFINE s == hashSet(c, k, v, <<>>)
           d == hashDel(c, k)
<1>1. /\ c \in Seq(ChainNodes(K, V)) /\ Len(c) \in Nat /\ Len(c) > 0
      /\ DOMAIN c = 1..Len(c)
  BY DEF Good
<1>7. Len(c) \in Nat /\ Len(c) > 0
  BY <1>1
<1>2. ~RunsWild(c, k) /\ ~CopiesWild(c, k)
  BY DEF RunsWild, CopiesWild
<1>3. s[Len(s)] # Wild
  <2> DEFINE i == First(Stops(c, k))
  <2>1. i \in 1..Len(c) /\ c[i].init \in {0, 1}
    BY <1>2, SetStop
  <2>2. \/ s = [c EXCEPT ![i] = Entry(k, v)]
        \/ s = [c EXCEPT ![i].value = v]
        \/ s = c \o <<Entry(k, v)>> \o <<>>
    BY DEF hashSet
  <2> HIDE DEF i, s
  <2>3. c[i] \in ChainNodes(K, V)
    BY <1>1, <2>1, ElementOfSeq
  <2>4. CASE s = [c EXCEPT ![i] = Entry(k, v)]
    <3>1. Len(s) = Len(c) /\ s[Len(c)] \in {Entry(k, v), c[Len(c)]}
      BY <1>1, <2>1, <2>4
    <3> QED BY <3>1 DEF Entry, Wild
  <2>5. CASE s = [c EXCEPT ![i].value = v]
    <3> DEFINE e == [c[i] EXCEPT !.value = v]
    <3>1. e.init = c[i].init
      BY <2>3 DEF ChainNodes, EmptyNode, Wild
    <3>2. s = [c EXCEPT ![i] = e]
      BY <2>5
    <3> HIDE DEF e
    <3>3. Len(s) = Len(c) /\ s[Len(c)] \in {e, c[Len(c)]}
      BY <1>1, <2>1, <3>2
    <3> QED BY <2>1, <3>1, <3>3 DEF Wild
  <2>6. CASE s = c \o <<Entry(k, v)>> \o <<>>
    <3>1. Len(s) = Len(c) + 1 /\ s[Len(c) + 1] = Entry(k, v)
      BY <1>1, <2>6
    <3> QED BY <3>1 DEF Entry, Wild
  <2> QED BY <2>2, <2>4, <2>5, <2>6
<1>4. ASSUME NEW i \in 1..(Len(c) - 1), c[i].init = 1
      PROVE  AbsorbNext(c, i)[Len(AbsorbNext(c, i))] # Wild
  <2> DEFINE a == AbsorbNext(c, i)
  <2>6. PICK n \in Nat : n = Len(c) - 1
    BY <1>7
  <2>1. i \in 1..n /\ Len(c) = n + 1
    BY <1>1, <2>6
  <2>2. c[i + 1] # Wild
    <3>1. CASE i = n
      BY <2>1, <3>1
    <3>2. CASE i # n
      <4>1. i + 1 \in 1..n
        BY <2>1, <3>2
      <4>2. c[i + 1].init = 1
        BY <2>6, <4>1 DEF Good
      <4> QED BY <4>2 DEF Wild
    <3> QED BY <3>1, <3>2
  <2>3. /\ Len(a) = n
        /\ a[i].init = 1
        /\ \A j \in (i + 1)..n : a[j] = c[j + 1]
    <3>1. /\ Len(a) = Len(c) - 1
          /\ a[i].init = 1
          /\ \A j \in (i + 1)..(Len(c) - 1) : a[j] = c[j + 1]
      <4>1. c \in Seq(ChainNodes(K, V))
        BY <1>1
      <4> QED BY <4>1, <1>4, <2>2, Absorbed
    <3> HIDE DEF a
    <3> QED BY <2>6, <3>1
  <2> HIDE DEF a
  <2>4. CASE i = n
    BY <2>3, <2>4 DEF a, Wild
  <2>5. CASE i # n
    <3>1. n \in (i + 1)..n
      BY <2>1, <2>5
    <3>2. a[n] = c[Len(c)]
      BY <2>1, <2>3, <3>1
    <3> QED BY <2>3, <3>2 DEF a
  <2> QED BY <2>4, <2>5
<1>5. ASSUME NEW i \in 1..Len(c), i = Len(c)
      PROVE  LET e == [c EXCEPT ![i] = EmptyNode] IN e[Len(e)] # Wild
  BY <1>1, <1>5 DEF EmptyNode, Wild
<1>6. d[Len(d)] # Wild
  <2> DEFINE i == First(Hits(c, k))
  <2>1. Hits(c, k) \subseteq 1..Len(c)
    BY <1>1 DEF Hits, Walk
  <2>2. CASE Hits(c, k) = {}
    BY <2>2 DEF hashDel
  <2>3. CASE Hits(c, k) # {}
    <3>1. i \in Hits(c, k)
      BY <2>1, <2>3, FirstIsLeast
    <3>2. i \in 1..Len(c) /\ c[i].init = 1
      BY <1>1, <2>1, <3>1 DEF Hits, Walk
    <3>3. d = IF i < Len(c) THEN AbsorbNext(c, i) ELSE [c EXCEPT ![i] = EmptyNode]
      BY <2>3 DEF hashDel
    <3> HIDE DEF i, d
    <3>4. ASSUME NEW j \in 1..Len(c), j = i
          PROVE  d[Len(d)] # Wild
      <4>1. CASE j < Len(c)
        <5>1. j \in 1..(Len(c) - 1)
          BY <1>1, <4>1
        <5>2. d = AbsorbNext(c, j)
          BY <3>3, <3>4, <4>1, Zenon
        <5> QED BY <1>4, <3>2, <3>4, <5>1, <5>2, Zenon
      <4>2. CASE ~(j < Len(c))
        <5>1. j = Len(c)
          BY <1>7, <4>2
        <5>2. d = [c EXCEPT ![j] = EmptyNode]
          BY <3>3, <3>4, <4>2, Zenon
        <5> QED BY <1>5, <5>1, <5>2, Zenon
      <4> QED BY <4>1, <4>2
    <3> QED BY <3>2, <3>4
  <2> QED BY <2>2, <2>3
<1> QED BY <1>2, <1>3, <1>6
==============================================================================
