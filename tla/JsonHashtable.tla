--------------------------- MODULE JsonHashtable ---------------------------
(***************************************************************************)
(* The hash table behind a JSON object (jansson-2.7/src/hashtable.c).  All *)
(* pairs form one list; a bucket is the part of it from its first to its   *)
(* last pair.  Growing the table frees the buckets before it asks for the  *)
(* new ones; when that fails, no bucket is left and a later call crashes.  *)
(***************************************************************************)
EXTENDS Integers, Sequences, SequencesExt, FiniteSets

CONSTANTS
  Keys, Values,
  hash_str,      \* key -> its hash
  FirstOrder,    \* the order of a new table (3 in the code)
  MaxPairs,      \* bound: pairs in the table
  MallocFails    \* may malloc fail?

JsonHashtableAssumption ==
  /\ hash_str \in [Keys -> Nat]
  /\ FirstOrder \in Nat /\ MaxPairs \in Nat
  /\ MallocFails \in BOOLEAN

VARIABLES
  pair,     \* address -> [key, value] of the pair there
  table,    \* list: the addresses in the list's order; order; and the buckets:
            \* index -> first and last pair, or <<>> if none are left
  size,
  result,   \* the last call and what it returned
  alive

vars == <<pair, table, size, result, alive>>

End == 0  \* the head of the list, and both ends of an empty bucket
NotFound == -1
Free == CHOOSE n \in 1..(MaxPairs + 1) : n \notin DOMAIN pair

hashsize(order) == 2 ^ order
Index(t, k) == hash_str[k] % hashsize(t.order)

Empty(order) ==
  [list |-> <<>>, order |-> order,
   buckets |-> [i \in 0..(hashsize(order) - 1) |-> [first |-> End, last |-> End]]]

------------------------------------------------------------------------------
(* Lists and buckets *)

\* the place of a pair; the head, and what is not in the list, comes after all pairs
Pos(t, a) ==
  IF a \in ToSet(t.list) THEN CHOOSE i \in DOMAIN t.list : t.list[i] = a
  ELSE Len(t.list) + 1
Following(t, a) == IF Pos(t, a) >= Len(t.list) THEN End ELSE t.list[Pos(t, a) + 1]
Previous(t, a) == IF Pos(t, a) = 1 THEN End ELSE t.list[Pos(t, a) - 1]

insert_to_bucket(t, i, a) ==
  LET b == t.buckets[i]
      last == IF b.first = End THEN a ELSE b.last
  IN  [list |-> InsertAt(t.list, Pos(t, b.first), a), order |-> t.order,
       buckets |-> [j \in DOMAIN t.buckets |->
                      IF j = i THEN [first |-> a, last |-> last] ELSE t.buckets[j]]]

\* the pair of key k, or End: a walk from the first to the last pair of its bucket
hashtable_find_pair(t, k) ==
  LET b == t.buckets[Index(t, k)]
      walk == Pos(t, b.first)..Pos(t, b.last)
      hits == SelectSeq(t.list, LAMBDA a : Pos(t, a) \in walk /\ pair[a].key = k)
  IN  IF hits = <<>> THEN End ELSE hits[1]

hashtable_get(k) ==
  LET a == hashtable_find_pair(table, k) IN IF a = End THEN NotFound ELSE pair[a].value

\* every pair, in the order of the old list, goes to a bucket of the new table
hashtable_do_rehash(t) ==
  FoldLeft(LAMBDA new, a : insert_to_bucket(new, Index(new, pair[a].key), a),
           Empty(t.order + 1), t.list)

\* mutant: the last pair of a bucket is not told from those within
unlinkFirst(t, a) ==
  [t EXCEPT !.list = Remove(@, a),
            !.buckets[Index(t, pair[a].key)] =
              IF a = @.first /\ a = @.last THEN [first |-> End, last |-> End]
              ELSE IF a = @.first THEN [@ EXCEPT !.first = Following(t, a)]
              ELSE @]

unlink(t, a) ==
  [t EXCEPT !.list = Remove(@, a),
            !.buckets[Index(t, pair[a].key)] =
              IF a = @.first /\ a = @.last THEN [first |-> End, last |-> End]
              ELSE IF a = @.first THEN [@ EXCEPT !.first = Following(t, a)]
              ELSE IF a = @.last THEN [@ EXCEPT !.last = Previous(t, a)]
              ELSE @]

------------------------------------------------------------------------------
(* Calls *)

Return(name, k, ret) == result' = [op |-> name, key |-> k, ret |-> ret]

\* hashtable_set without growth: the value is replaced, or a pair is linked
Put(t, k, v) ==
  LET a == hashtable_find_pair(t, k)
  IN  \/ /\ a # End
         /\ pair' = [pair EXCEPT ![a].value = v]
         /\ table' = t
         /\ UNCHANGED size
         /\ Return("set", k, 0)
      \/ /\ a = End
         /\ Cardinality(DOMAIN pair) < MaxPairs
         /\ pair' = [n \in DOMAIN pair \cup {Free} |->
                       IF n = Free THEN [key |-> k, value |-> v] ELSE pair[n]]
         /\ table' = insert_to_bucket(t, Index(t, k), Free)
         /\ size' = size + 1
         /\ Return("set", k, 0)
      \/ /\ a = End /\ MallocFails
         /\ table' = t
         /\ UNCHANGED <<pair, size>>
         /\ Return("set", k, -1)

Full == size >= hashsize(table.order)

Usable == alive /\ table.buckets # <<>>

hashtable_set(k, v) ==
  /\ alive
  /\ \/ Usable /\ ~Full /\ Put(table, k, v)
     \/ Usable /\ Full /\ Put(hashtable_do_rehash(table), k, v)
     \/ /\ Full /\ MallocFails
        /\ table' = [table EXCEPT !.order = @ + 1, !.buckets = <<>>]
        /\ UNCHANGED <<pair, size>>
        /\ Return("set", k, -1)
  /\ UNCHANGED alive

Get(k) ==
  /\ Usable
  /\ Return("get", k, hashtable_get(k))
  /\ UNCHANGED <<pair, table, size, alive>>

hashtable_del(k) ==
  LET a == hashtable_find_pair(table, k)
  IN  /\ Usable
      /\ \/ /\ a = End
            /\ UNCHANGED <<pair, table, size>>
            /\ Return("del", k, -1)
         \/ /\ a # End
            /\ pair' = [n \in DOMAIN pair \ {a} |-> pair[n]]
            /\ table' = unlink(table, a)
            /\ size' = size - 1
            /\ Return("del", k, 0)
      /\ UNCHANGED alive

\* a value is set at an iterator (hashtable_iter_at, hashtable_iter_set)
IterSet(k, v) ==
  LET a == hashtable_find_pair(table, k)
  IN  /\ Usable
      /\ a # End
      /\ pair' = [pair EXCEPT ![a].value = v]
      /\ Return("set", k, 0)
      /\ UNCHANGED <<table, size, alive>>

hashtable_clear ==
  /\ Usable
  /\ pair' = <<>>
  /\ table' = Empty(table.order)
  /\ size' = 0
  /\ result' = [op |-> "clear", key |-> 0, ret |-> 0]
  /\ UNCHANGED alive

\* any call that looks for a bucket when none is left
Crash ==
  /\ alive
  /\ table.buckets = <<>>
  /\ alive' = FALSE
  /\ UNCHANGED <<pair, table, size, result>>

Init ==
  /\ pair = <<>>
  /\ table = Empty(FirstOrder)
  /\ size = 0
  /\ result = [op |-> "none", key |-> 0, ret |-> 0]
  /\ alive = TRUE

Next ==
  \/ \E k \in Keys : \E v \in Values : hashtable_set(k, v) \/ IterSet(k, v)
  \/ \E k \in Keys : Get(k) \/ hashtable_del(k)
  \/ hashtable_clear
  \/ Crash

Spec == Init /\ [][Next]_vars

------------------------------------------------------------------------------
(* Properties *)

\* Whatever is set, deleted and rehashed, and when memory runs out, calls see one
\* dictionary: its content is what the list holds, its answers what the buckets find.
Object ==
  INSTANCE JsonObject WITH
    store <- [k \in Keys |->
                LET hits == SelectSeq(table.list, LAMBDA a : pair[a].key = k)
                IN  IF hits = <<>> THEN NotFound ELSE pair[hits[1]].value]

==============================================================================
