----------------------------- MODULE JsonObject -----------------------------
(***************************************************************************)
(* What the hash table of a JSON object promises: a partial function from  *)
(* keys to values, in which a call that fails for want of memory changes   *)
(* nothing.                                                                *)
(***************************************************************************)
EXTENDS Integers

CONSTANTS Keys, Values

VARIABLES store,   \* key -> its value, or NotFound
          result   \* the last call and what it returned

NotFound == -1

Return(name, k, ret) == result' = [op |-> name, key |-> k, ret |-> ret]

Init ==
  /\ store = [k \in Keys |-> NotFound]
  /\ result = [op |-> "none", key |-> 0, ret |-> 0]

Set(k, v) ==
  \/ store' = [store EXCEPT ![k] = v] /\ Return("set", k, 0)
  \/ UNCHANGED store /\ Return("set", k, -1)

Get(k) == UNCHANGED store /\ Return("get", k, store[k])

Del(k) ==
  /\ store' = [store EXCEPT ![k] = NotFound]
  /\ Return("del", k, IF store[k] = NotFound THEN -1 ELSE 0)

Clear == store' = [k \in Keys |-> NotFound] /\ Return("clear", 0, 0)

Next ==
  \/ \E k \in Keys : Get(k) \/ Del(k) \/ \E v \in Values : Set(k, v)
  \/ Clear

\* a step, or none
Step == [Next]_<<store, result>>

Spec == Init /\ [][Next]_<<store, result>>
==============================================================================
