----------------------------- MODULE HashClient -----------------------------
(***************************************************************************)
(* The command-line clients of the hash servers (hashUdpClient.c of 31, 41 *)
(* and 42) and the server of block 31, one process with the whole table.   *)
(* A client sets, gets, deletes and again gets its pairs, one call after   *)
(* the other.  The one of 31 keeps a single socket; those of 41 and 42     *)
(* open one per call, so that the reply to an earlier call finds nobody.   *)
(* The one of 31 also sends each call to where the last reply came from:   *)
(* to the server of 31 again, but with a node to a socket that the node    *)
(* has closed.                                                             *)
(*                                                                         *)
(* Calls are numbered; a datagram carries the number of its call, which is *)
(* history.  UDP may lose, delay and duplicate datagrams.  The table is    *)
(* the dictionary that HashTable shows its lists to implement.             *)
(***************************************************************************)
EXTENDS Integers, Sequences, FiniteSets, FiniteSetsExt, Functions

CONSTANTS
  PairLists,       \* the pairs <<key, value>> of a client, as rand() gives them
  MaxDuplicates    \* bound: datagrams the network doubles

\* what rand() gives
RAND_MAX == 2147483647
RandValues == 0..RAND_MAX

ASSUME HashClientAssumption ==
  /\ PairLists \subseteq Seq(RandValues \X RandValues)
  /\ MaxDuplicates \in Nat

VARIABLES
  pairs,        \* the pairs of this client
  fresh,        \* does it open a socket per call?
  node,         \* is the server a node of 41 or 42, which replies in upper case?
  pairStore,    \* the keys in the table -> their values
  pairNet,      \* datagrams in flight
  waiting,      \* does the client block in recvfrom?
  results,      \* what its calls returned, in their order
  accepted,     \* the numbers of the calls whose replies it took for its own
  duplicates,   \* datagrams doubled so far
  pairLost      \* was a datagram lost?

pairVars == <<pairs, fresh, node, pairStore, pairNet, waiting, results, accepted,
              duplicates, pairLost>>

------------------------------------------------------------------------------
(* The server *)

\* unpackData and packData keep two bytes
Packed(x) == x % 65536

\* a node replaces the value of a key in use; mutant of the next
hashSetNode(table, k, v) ==
  [x \in DOMAIN table \cup {k} |-> IF x = k THEN v ELSE table[x]]

\* 31 refuses a key in use
hashSet31(table, k, v) ==
  [x \in DOMAIN table \cup {k} |-> IF x \in DOMAIN table THEN table[x] ELSE v]

hashGet31(table, k) == IF k \in DOMAIN table THEN table[k] ELSE -1

hashDel31(table, k) == Restrict(table, DOMAIN table \ {k})

\* the reply of 31, with key and value 0 in a failure, ...
Reply31(m) ==
  LET known == m.key \in DOMAIN pairStore
  IN  CASE m.cmd = "set" /\ ~known -> [m EXCEPT !.cmd = "ok!"]
        [] m.cmd = "get" /\ known ->
             [m EXCEPT !.cmd = "val", !.value = hashGet31(pairStore, m.key)]
        [] m.cmd = "del" /\ known -> [m EXCEPT !.cmd = "ok!"]
        [] m.cmd = "get" /\ ~known -> [m EXCEPT !.cmd = "nof", !.key = 0, !.value = 0]
        [] OTHER -> [m EXCEPT !.cmd = "err", !.key = 0, !.value = 0]

\* ... and of a node, whose set always succeeds
ReplyNode(m) ==
  LET known == m.key \in DOMAIN pairStore
  IN  CASE m.cmd = "set" \/ (m.cmd = "del" /\ known) -> [m EXCEPT !.cmd = "OK!"]
        [] m.cmd = "get" /\ known -> [m EXCEPT !.cmd = "VAL", !.value = pairStore[m.key]]
        [] OTHER -> [m EXCEPT !.cmd = "NOF"]

StoreAfter(m) ==
  CASE m.cmd = "set" /\ node -> hashSetNode(pairStore, m.key, m.value)
    [] m.cmd = "set" /\ ~node -> hashSet31(pairStore, m.key, m.value)
    [] m.cmd = "del" -> hashDel31(pairStore, m.key)
    [] OTHER -> pairStore

\* mutant: a failure is not replied to
ServeSuccesses(m) ==
  /\ m.kind = "request"
  /\ pairStore' = StoreAfter(m)
  /\ pairNet' = (pairNet \ {m}) \cup
       {r \in {[IF node THEN ReplyNode(m) ELSE Reply31(m) EXCEPT !.kind = "reply"]} :
          r.cmd # "err"}
  /\ UNCHANGED <<pairs, fresh, node, waiting, results, accepted, duplicates, pairLost>>

\* a round of the server's core loop
Serve(m) ==
  /\ m.kind = "request"
  /\ pairStore' = StoreAfter(m)
  /\ pairNet' = (pairNet \ {m}) \cup
       {[IF node THEN ReplyNode(m) ELSE Reply31(m) EXCEPT !.kind = "reply"]}
  /\ UNCHANGED <<pairs, fresh, node, waiting, results, accepted, duplicates, pairLost>>

------------------------------------------------------------------------------
(* The client *)

\* of call n: its round (0 set, 1 get, 2 del, 3 get) and its pair
Round(n) == (n - 1) \div Len(pairs)
Pair(n) == pairs[((n - 1) % Len(pairs)) + 1]

Current == Len(results) + 1
NumCalls == 4 * Len(pairs)

Command == <<"set", "get", "del", "get">>

Request(n) ==
  [kind |-> "request", call |-> n, copy |-> 0, cmd |-> Command[Round(n) + 1],
   key |-> Packed(Pair(n)[1]),
   value |-> IF Round(n) = 0 THEN Packed(Pair(n)[2]) ELSE 0]

\* does their_addr, which recvfrom overwrites, still name the server?
Addressed == fresh \/ ~node \/ results = <<>>

\* rpcCall: send the request of the next call, ...
CallSend ==
  /\ ~waiting
  /\ Current <= NumCalls
  /\ pairNet' = pairNet \cup {m \in {Request(Current)} : Addressed}
  /\ waiting' = TRUE
  /\ UNCHANGED <<pairs, fresh, node, pairStore, results, accepted, duplicates, pairLost>>

\* does the socket of the current call get this reply?
Arrives(m) == m.kind = "reply" /\ (fresh => m.call = Current)

\* what rpcCall makes of the reply; it knows the lower-case spelling only
Result(n, m) ==
  CASE Round(n) \in {1, 3} /\ m.cmd = "val" -> m.value
    [] Round(n) \in {0, 2} /\ m.cmd = "ok!" -> 0
    [] OTHER -> -1

\* ... then block until a reply arrives
CallReceive(m) ==
  /\ waiting
  /\ Arrives(m)
  /\ results' = Append(results, Result(Current, m))
  /\ accepted' = Append(accepted, m.call)
  /\ waiting' = FALSE
  /\ pairNet' = pairNet \ {m}
  /\ UNCHANGED <<pairs, fresh, node, pairStore, duplicates, pairLost>>

------------------------------------------------------------------------------
(* The network *)

\* bound: one of them is lost
LoseOne(m) ==
  /\ ~pairLost
  /\ pairNet' = pairNet \ {m}
  /\ pairLost' = TRUE
  /\ UNCHANGED <<pairs, fresh, node, pairStore, waiting, results, accepted, duplicates>>

Duplicate(m) ==
  /\ duplicates < MaxDuplicates
  /\ duplicates' = duplicates + 1
  /\ pairNet' = pairNet \cup {[m EXCEPT !.copy = duplicates + 1]}
  /\ UNCHANGED <<pairs, fresh, node, pairStore, waiting, results, accepted, pairLost>>

ClientInit ==
  /\ pairs \in PairLists
  /\ fresh \in BOOLEAN
  /\ node \in BOOLEAN
  /\ pairStore = <<>>
  /\ pairNet = {}
  /\ waiting = FALSE
  /\ results = <<>>
  /\ accepted = <<>>
  /\ duplicates = 0
  /\ pairLost = FALSE

ClientNext ==
  \/ CallSend
  \/ \E m \in pairNet : Serve(m) \/ CallReceive(m) \/ LoseOne(m) \/ Duplicate(m)

ClientSpec == ClientInit /\ [][ClientNext]_pairVars

\* Both programs are loops that read what arrives.
ClientFairness ==
  /\ WF_pairVars(CallSend)
  /\ WF_pairVars(\E m \in pairNet : Serve(m))
  /\ WF_pairVars(\E m \in pairNet : CallReceive(m))

------------------------------------------------------------------------------
(* Properties *)

\* the first pair with the key of call n
FirstPair(n) ==
  pairs[Min({i \in DOMAIN pairs : Packed(pairs[i][1]) = Packed(Pair(n)[1])})]

\* With a server of block 31, of the pairs whose keys are equal on the wire the first
\* one is stored, read and deleted, and in the end nothing is left.
Expected(n) ==
  IF node THEN -1
  ELSE CASE Round(n) \in {0, 2} ->
              IF \E i \in 1..(((n - 1) % Len(pairs))) :
                   Packed(pairs[i][1]) = Packed(Pair(n)[1])
              THEN -1 ELSE 0
         [] Round(n) = 1 -> Packed(FirstPair(n)[2])
         [] Round(n) = 3 -> -1

\* A client with a socket per call never takes the reply to an earlier call for its
\* own, whatever is doubled or delayed.  Without doubled datagrams each call returns
\* what its place in the program makes it return, and always -1 with a node of
\* block 41 or 42, whose spelling the client does not know.
ResultsExplained ==
  \A n \in DOMAIN results :
    /\ fresh => accepted[n] = n
    /\ duplicates = 0 => results[n] = Expected(n)

\* The client finishes unless a datagram is lost: then it waits for ever.  So does the
\* client of block 31 with a node of 41 or 42, once it has sent its second request to the
\* socket of the first reply; only doubled datagrams take it further.
ClientEnds ==
  /\ fresh \/ ~node => <>(Len(results) = NumCalls \/ pairLost)
  /\ ~fresh /\ node => <>[](waiting /\ Len(results) <= 1 + duplicates)
==============================================================================
