--------------------------- MODULE KeyValueService ---------------------------
(***************************************************************************)
(* What a cluster of DHT nodes promises its clients: one dictionary that   *)
(* every client sees, whichever node it asks.  A call takes effect at one  *)
(* moment between its request and its answer (linearizability), and the    *)
(* answer is the one a single table would have given at that moment.       *)
(***************************************************************************)
EXTENDS Integers

CONSTANTS Clients, Keys, Values

VARIABLES store,   \* key -> its value, or -1
          call,    \* client -> the call it waits for, or Idle
          answer,  \* client -> the answer to its executed call, or Idle
          last     \* client -> the last answer it received, or Idle

Idle == [cmd |-> "none", key |-> 0, value |-> 0]

Calls == [cmd : {"set"}, key : Keys, value : Values]
         \cup [cmd : {"get", "del"}, key : Keys, value : {0}]

\* the dictionary after call q, and the answer to it
Effect(q) ==
  CASE q.cmd = "set" -> [store EXCEPT ![q.key] = q.value]
    [] q.cmd = "get" -> store
    [] q.cmd = "del" -> [store EXCEPT ![q.key] = -1]

Result(q) ==
  CASE q.cmd = "set" -> [cmd |-> "OK!", key |-> q.key, value |-> q.value]
    [] q.cmd # "set" /\ store[q.key] = -1 ->
         [cmd |-> "NOF", key |-> q.key, value |-> q.value]
    [] q.cmd = "get" /\ store[q.key] # -1 ->
         [cmd |-> "VAL", key |-> q.key, value |-> store[q.key]]
    [] q.cmd = "del" /\ store[q.key] # -1 ->
         [cmd |-> "OK!", key |-> q.key, value |-> q.value]

Init ==
  /\ store = [k \in Keys |-> -1]
  /\ call = [c \in Clients |-> Idle]
  /\ answer = [c \in Clients |-> Idle]
  /\ last = [c \in Clients |-> Idle]

Call(c) ==
  /\ call[c] = Idle
  /\ \E q \in Calls : call' = [call EXCEPT ![c] = q]
  /\ UNCHANGED <<store, answer, last>>

Execute(c) ==
  /\ call[c] # Idle
  /\ answer[c] = Idle
  /\ store' = Effect(call[c])
  /\ answer' = [answer EXCEPT ![c] = Result(call[c])]
  /\ UNCHANGED <<call, last>>

Return(c) ==
  /\ call[c] # Idle
  /\ answer[c] # Idle
  /\ call' = [call EXCEPT ![c] = Idle]
  /\ answer' = [answer EXCEPT ![c] = Idle]
  /\ last' = [last EXCEPT ![c] = answer[c]]
  /\ UNCHANGED store

Next == \E c \in Clients : Call(c) \/ Execute(c) \/ Return(c)

Spec == Init /\ [][Next]_<<store, call, answer, last>>
==============================================================================
