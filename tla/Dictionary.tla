----------------------------- MODULE Dictionary -----------------------------
(***************************************************************************)
(* What the hash table promises its callers: a partial function from keys  *)
(* to values.  hashSet always succeeds, hashGet returns the stored value   *)
(* or -1, hashDel returns 0 for a stored key and -1 for another.           *)
(***************************************************************************)
EXTENDS Integers

CONSTANTS Keys, Values

VARIABLES store,   \* key -> its value, or NotFound
          result   \* the last call and what it returned

NotFound == -1

NoCall == [op |-> "none", key |-> 0, ret |-> 0]

TypeOK ==
  /\ store \in [Keys -> Values \cup {NotFound}]
  /\ result \in [op : {"none", "set", "get", "del"}, key : Keys \cup {0},
                 ret : Values \cup {0, NotFound}]

Init ==
  /\ store = [k \in Keys |-> NotFound]
  /\ result = NoCall

Set(k, v) ==
  /\ store' = [store EXCEPT ![k] = v]
  /\ result' = [op |-> "set", key |-> k, ret |-> 0]

Get(k) ==
  /\ result' = [op |-> "get", key |-> k, ret |-> store[k]]
  /\ UNCHANGED store

Del(k) ==
  /\ store' = [store EXCEPT ![k] = NotFound]
  /\ result' = [op |-> "del", key |-> k,
                ret |-> IF store[k] = NotFound THEN -1 ELSE 0]

Next ==
  \E k \in Keys :
    \/ \E v \in Values : Set(k, v)
    \/ Get(k)
    \/ Del(k)

Spec == Init /\ [][Next]_<<store, result>>
==============================================================================
