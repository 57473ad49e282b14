--------------------------- MODULE HashTableProofs ---------------------------
(***************************************************************************)
(* Theorems about HashTable, for every set of keys and values, every node  *)
(* offset, and clean or recycled memory.                                   *)
(***************************************************************************)
EXTENDS HashTable, HashChainProofs

------------------------------------------------------------------------------
(* The table *)

\* the inductive invariant: every list is good
Inv ==
  /\ TypeOK
  /\ \A b \in Buckets : Good(Keys, Values, table[b])

\* The nodes of the lists, and what may follow one appended.
LEMMA NodesAre == Nodes = ChainNodes(Keys, Values)
BY DEF Nodes, ChainNodes

\* What a new node's pointer may leave behind it are ends of a list as HashChain has them.
LEMMA TailsAre == Tails \subseteq Endings
BY HashTableAssumption DEF Endings

\* Every step of the node keeps its lists good.
LEMMA Invariance == Spec => []Inv
<1> USE HashTableAssumption
<1>1. Init => Inv
  <2>1. SUFFICES ASSUME Init PROVE Inv
    OBVIOUS
  <2>5. Good(Keys, Values, <<EmptyNode>>)
    BY EmptyGood
  <2>3. <<EmptyNode>> \in Seq(Nodes)
    BY <2>5, NodesAre DEF Good
  <2>6. table = [b \in Buckets |-> <<EmptyNode>>]
    BY <2>1 DEF Init
  <2>7. TypeOK
    BY <2>1, <2>3, <2>6 DEF Init, TypeOK
  <2> QED BY <2>5, <2>6, <2>7 DEF Inv
<1>2. Inv /\ [Next]_vars => Inv'
  <2>1. SUFFICES ASSUME Inv, [Next]_vars PROVE Inv'
    OBVIOUS
  <2>2. \A k \in Keys : hashKey(k) \in Buckets /\ Good(Keys, Values, Bucket(k))
    BY <2>1 DEF Inv, Buckets, Bucket
  <2>3. ASSUME NEW k \in Keys, NEW v \in Values, Set(k, v)
        PROVE  Inv'
    <3>1. PICK tail \in Tails :
            table' = [table EXCEPT ![hashKey(k)] = hashSet(Bucket(k), k, v, tail)]
      BY <2>3 DEF Set, Bucket
    <3>2. Good(Keys, Values, hashSet(Bucket(k), k, v, tail))
      BY <2>2, <2>3, SetGood, TailsAre DEF Set
    <3>3. hashSet(Bucket(k), k, v, tail) \in Seq(Nodes)
      BY <3>2, NodesAre DEF Good
    <3>4. TypeOK'
      BY <2>1, <2>3, <3>1, <3>3 DEF Inv, TypeOK, Set, Return
    <3> QED BY <2>1, <3>1, <3>2, <3>4 DEF Inv, TypeOK
  <2>4. ASSUME NEW k \in Keys, Get(k)
        PROVE  Inv'
    <3>1. hashGet(Bucket(k), k) \in Values \cup {0, -1}
      BY <2>2, GetValue
    <3> QED BY <2>1, <2>4, <3>1 DEF Inv, TypeOK, Get, Return
  <2>5. ASSUME NEW k \in Keys, Del(k)
        PROVE  Inv'
    <3>1. Good(Keys, Values, hashDel(Bucket(k), k))
      BY <2>2, <2>5, DelGood DEF Del
    <3>2. hashDel(Bucket(k), k) \in Seq(Nodes)
      BY <3>1, NodesAre DEF Good
    <3>3. table' = [table EXCEPT ![hashKey(k)] = hashDel(Bucket(k), k)]
      BY <2>5 DEF Del, Bucket
    <3>4. TypeOK'
      BY <2>1, <2>5, <3>2, <3>3 DEF Inv, TypeOK, Del, Return
    <3> QED BY <2>1, <3>1, <3>3, <3>4 DEF Inv, TypeOK
  <2>6. ASSUME NEW k \in Keys, Segfault(k)
        PROVE  Inv'
    BY <2>1, <2>6 DEF Inv, TypeOK, Segfault
  <2>7. CASE UNCHANGED vars
    BY <2>1, <2>7 DEF Inv, TypeOK, vars
  <2> QED BY <2>1, <2>3, <2>4, <2>5, <2>6, <2>7 DEF Next
<1> QED BY <1>1, <1>2, PTL DEF Spec

\* Types are kept: an empty node carries no key and no value, whatever was
\* deleted before.
THEOREM TypeCorrect == Spec => []TypeOK
<1>1. Inv => TypeOK
  BY DEF Inv
<1> QED BY <1>1, Invariance, PTL

\* No sequence of calls hides a live node behind an empty one, or gives two
\* live nodes of a list the same key (other than 0).
THEOREM ListsWellFormed == Spec => [](OnlyLastEmpty /\ KeysDistinct)
<1>1. Inv => OnlyLastEmpty /\ KeysDistinct
  BY DEF Inv, Good, OnlyLastEmpty, KeysDistinct
<1> QED BY <1>1, Invariance, PTL

\* The table of a node that is never asked for key 0 implements the dictionary,
\* for every set of keys, in whatever buckets they collide.
THEOREM RefinesDictionary ==
  ASSUME 0 \notin Keys
  PROVE  Spec => ImplementsDictionary
<1> USE HashTableAssumption
<1> DEFINE store == [k \in Keys |-> hashGet(Bucket(k), k)]
<1>1. Init => Abstract!Init
  <2>1. SUFFICES ASSUME Init PROVE Abstract!Init
    OBVIOUS
  <2>2. ASSUME NEW k \in Keys
        PROVE  hashGet(Bucket(k), k) = -1
    <3>1. Bucket(k) = <<EmptyNode>>
      BY <2>1 DEF Init, Bucket, Buckets
    <3> QED BY <3>1, EmptyGood
  <2> QED BY <2>1, <2>2 DEF Init, Abstract!Init, Abstract!NotFound, Abstract!NoCall
<1>2. Inv /\ [Next]_vars => [Abstract!Next]_<<store, result>>
  <2>1. SUFFICES ASSUME Inv, [Next]_vars
                 PROVE  [Abstract!Next]_<<store, result>>
    OBVIOUS
  <2>2. \A k \in Keys : hashKey(k) \in Buckets /\ Good(Keys, Values, Bucket(k))
    BY <2>1 DEF Inv, Buckets, Bucket
  <2>3. ASSUME NEW k \in Keys, NEW v \in Values, Set(k, v)
        PROVE  Abstract!Set(k, v)
    <3>1. PICK tail \in Tails :
            table' = [table EXCEPT ![hashKey(k)] = hashSet(Bucket(k), k, v, tail)]
      BY <2>3 DEF Set, Bucket
    <3>2. ASSUME NEW q \in Keys
          PROVE  store'[q] = IF q = k THEN v ELSE store[q]
      <4>1. CASE hashKey(q) = hashKey(k)
        <5>1. Bucket(q) = Bucket(k) /\ Bucket(q)' = hashSet(Bucket(k), k, v, tail)
          BY <2>1, <2>2, <3>1, <4>1 DEF Bucket, hashKey, Inv, TypeOK
        <5>2. hashGet(hashSet(Bucket(k), k, v, tail), q) =
                IF q = k THEN v ELSE hashGet(Bucket(k), q)
          BY <2>2, <2>3, SetGood, TailsAre DEF Set
        <5> QED BY <5>1, <5>2
      <4>2. CASE hashKey(q) # hashKey(k)
        BY <2>1, <2>2, <3>1, <4>2 DEF Bucket, hashKey, Inv, TypeOK
      <4> QED BY <4>1, <4>2
    <3>3. store' = [store EXCEPT ![k] = v]
      BY <3>2
    <3> QED BY <2>3, <3>3 DEF Abstract!Set, Set, Return
  <2>4. ASSUME NEW k \in Keys, Get(k)
        PROVE  Abstract!Get(k)
    BY <2>4 DEF Get, Abstract!Get, Return, Bucket, hashKey
  <2>5. ASSUME NEW k \in Keys, Del(k)
        PROVE  Abstract!Del(k)
    <3>1. table' = [table EXCEPT ![hashKey(k)] = hashDel(Bucket(k), k)]
      BY <2>5 DEF Del, Bucket
    <3>2. ASSUME NEW q \in Keys
          PROVE  store'[q] = IF q = k THEN -1 ELSE store[q]
      <4>1. CASE hashKey(q) = hashKey(k)
        <5>1. Bucket(q) = Bucket(k) /\ Bucket(q)' = hashDel(Bucket(k), k)
          BY <2>1, <2>2, <3>1, <4>1 DEF Bucket, hashKey, Inv, TypeOK
        <5>2. hashGet(hashDel(Bucket(k), k), q) =
                IF q = k THEN -1 ELSE hashGet(Bucket(k), q)
          BY <2>2, <2>5, DelGood DEF Del
        <5> QED BY <5>1, <5>2
      <4>2. CASE hashKey(q) # hashKey(k)
        BY <2>1, <2>2, <3>1, <4>2 DEF Bucket, hashKey, Inv, TypeOK
      <4> QED BY <4>1, <4>2
    <3>3. store' = [store EXCEPT ![k] = -1]
      BY <3>2
    <3>4. Hits(Bucket(k), k) = {} <=> store[k] = -1
      BY <2>2, GetValue
    <3> QED BY <2>5, <3>3, <3>4 DEF Abstract!Del, Abstract!NotFound, Del, Return
  <2>6. ASSUME NEW k \in Keys, Segfault(k)
        PROVE  UNCHANGED <<store, result>>
    BY <2>6 DEF Segfault, Bucket, hashKey
  <2>7. CASE UNCHANGED vars
    BY <2>7 DEF vars, Bucket, hashKey
  <2> QED BY <2>1, <2>3, <2>4, <2>5, <2>6, <2>7 DEF Next, Abstract!Next
<1> QED BY <1>1, <1>2, Invariance, PTL DEF Spec, ImplementsDictionary, Abstract!Spec
==============================================================================
