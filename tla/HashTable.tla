------------------------------ MODULE HashTable ------------------------------
(***************************************************************************)
(* The hash table of one node of the DHT (42/hashServer.c): a root node    *)
(* per bucket, each with the list of HashChain behind it, driven by any    *)
(* sequence of hashSet, hashGet and hashDel calls.                         *)
(***************************************************************************)
EXTENDS HashChain

CONSTANTS
  Keys,        \* the keys the node is asked for, all of them in its range
  Values,      \* the 16-bit values
  Offset,      \* first bucket of the node: its third command-line argument
  Tails,       \* what malloc may leave in the next pointer of a new node
  MaxChain     \* bound: nodes of one list, for model checking only

ASSUME HashTableAssumption ==
  /\ Keys \subseteq Nat
  /\ Values \subseteq Nat
  /\ Offset \in Nat
  /\ \A k \in Keys : ((k % 256) - Offset) \in 0..63
  /\ Tails \subseteq {<<>>, <<Wild>>}
  /\ MaxChain \in Nat

VARIABLES
  table,       \* bucket -> list of nodes
  result,      \* the last call and what it returned
  alive        \* FALSE once the process read through a garbage pointer

vars == <<table, result, alive>>

hashKey(k) == (k % 256) - Offset

Buckets == {hashKey(k) : k \in Keys}

Bucket(k) == table[hashKey(k)]

Nodes ==
  [init : {1}, key : Keys \cup {0}, value : Values \cup {0}]
  \cup {EmptyNode, Wild}

TypeOK ==
  /\ table \in [Buckets -> Seq(Nodes)]
  /\ result \in [op : {"none", "set", "get", "del"}, key : Keys \cup {0},
                 ret : Values \cup {0, -1}]
  /\ alive \in BOOLEAN

------------------------------------------------------------------------------
\* malloc is the first allocation of the process: its memory is fresh, all 0
Init ==
  /\ table = [b \in Buckets |-> <<EmptyNode>>]
  /\ result = [op |-> "none", key |-> 0, ret |-> 0]
  /\ alive = TRUE

Return(op, k, ret) == result' = [op |-> op, key |-> k, ret |-> ret]

Set(k, v) ==
  /\ alive
  /\ ~RunsWild(Bucket(k), k)
  /\ Len(Bucket(k)) < MaxChain
  /\ \E tail \in Tails :
       table' = [table EXCEPT ![hashKey(k)] = hashSet(@, k, v, tail)]
  /\ Return("set", k, 0)
  /\ UNCHANGED alive

Get(k) ==
  /\ alive
  /\ ~RunsWild(Bucket(k), k)
  /\ Return("get", k, hashGet(Bucket(k), k))
  /\ UNCHANGED <<table, alive>>

Del(k) ==
  /\ alive
  /\ ~RunsWild(Bucket(k), k)
  /\ ~CopiesWild(Bucket(k), k)
  /\ table' = [table EXCEPT ![hashKey(k)] = hashDel(@, k)]
  /\ Return("del", k, IF Hits(Bucket(k), k) = {} THEN -1 ELSE 0)
  /\ UNCHANGED alive

\* any of the three calls may run into the garbage pointer
Segfault(k) ==
  /\ alive
  /\ RunsWild(Bucket(k), k) \/ CopiesWild(Bucket(k), k)
  /\ alive' = FALSE
  /\ UNCHANGED <<table, result>>

Next ==
  \E k \in Keys :
    \/ \E v \in Values : Set(k, v)
    \/ Get(k)
    \/ Del(k)
    \/ Segfault(k)

Spec == Init /\ [][Next]_vars
------------------------------------------------------------------------------
\* Every node but the last of a list is live: hashGet and hashDel stop at the
\* first empty node, so a live one behind it would be lost.
OnlyLastEmpty ==
  \A b \in Buckets :
    /\ Len(table[b]) > 0
    /\ \A i \in 1..(Len(table[b]) - 1) : table[b][i].init = 1

\* A key other than 0 is held by one live node of its list: with two, a hashDel
\* would uncover an old value.  Key 0 is what a node is given that absorbs an
\* empty successor.
KeysDistinct ==
  \A b \in Buckets : \A i, j \in DOMAIN table[b] :
    /\ table[b][i].init = 1
    /\ table[b][j].init = 1
    /\ table[b][i].key = table[b][j].key
    /\ table[b][i].key # 0
    => i = j

\* The table implements the dictionary: hashGet of every key is its value.
Abstract ==
  INSTANCE Dictionary WITH store <- [k \in Keys |-> hashGet(Bucket(k), k)]

ImplementsDictionary == Abstract!Spec

==============================================================================
