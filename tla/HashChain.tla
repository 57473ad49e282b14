------------------------------ MODULE HashChain ------------------------------
(***************************************************************************)
(* One bucket of the hash table of 42/hashServer.c: the linked list that   *)
(* hangs off one root node, as the sequence of its nodes.                  *)
(*                                                                         *)
(* The list is never empty: its first node is the root, part of the table. *)
(* A node whose init flag is 0 is "empty" for the code even though it may  *)
(* still be linked (hashDel empties the last node without unlinking it).   *)
(*                                                                         *)
(* hashSet never writes the next pointer of the node it allocates.  The    *)
(* pointer is whatever malloc left there: zero in fresh memory, garbage in *)
(* a recycled chunk.  A list whose last node holds a garbage pointer ends  *)
(* with the pseudo node Wild, and reading through it ends the process.     *)
(***************************************************************************)
EXTENDS Integers, Sequences

EmptyNode == [init |-> 0, key |-> 0, value |-> 0]

Entry(k, v) == [init |-> 1, key |-> k, value |-> v]

Wild == [init |-> -1, key |-> 0, value |-> 0]

\* the least element of a set of positions
First(S) == CHOOSE i \in S : \A j \in S : i <= j

\* the nodes a walk visits before the first empty (or garbage) one
Walk(chain) == {i \in DOMAIN chain : \A j \in 1..i : chain[j].init = 1}

\* ... and those of them that hold key
Hits(chain, key) == {i \in Walk(chain) : chain[i].key = key}

\* the walk for key reads through the garbage pointer
RunsWild(chain, key) ==
  /\ chain[Len(chain)] = Wild
  /\ Hits(chain, key) = {}

\* hashGet: the value of the first hit, -1 without one
hashGet(chain, key) ==
  IF Hits(chain, key) = {} THEN -1 ELSE chain[First(Hits(chain, key))].value

\* where the walk of hashSet stops: at an empty node, a hit, or the last node
Stops(chain, key) ==
  {i \in DOMAIN chain :
     chain[i].init = 0 \/ chain[i].key = key \/ i = Len(chain)}

\* mutant: the walk does not look for the key
hashSetBlind(chain, key, value, tail) ==
  LET i == First({j \in DOMAIN chain : chain[j].init = 0 \/ j = Len(chain)})
  IN  IF chain[i].init = 0 THEN [chain EXCEPT ![i] = Entry(key, value)]
      ELSE chain \o <<Entry(key, value)>> \o tail

\* hashSet: fill the empty node, or replace the value of the hit, or append a
\* new node (tail: what its unwritten next pointer leads to)
hashSet(chain, key, value, tail) ==
  LET i == First(Stops(chain, key))
  IN  IF chain[i].init = 0 THEN [chain EXCEPT ![i] = Entry(key, value)]
      ELSE IF chain[i].key = key THEN [chain EXCEPT ![i].value = value]
      ELSE chain \o <<Entry(key, value)>> \o tail

\* mutant: the value of the successor is not copied
AbsorbNextKey(chain, i) ==
  [j \in 1..(Len(chain) - 1) |->
     IF j < i THEN chain[j]
     ELSE IF j = i THEN [chain[i] EXCEPT !.key = chain[i + 1].key]
     ELSE chain[j + 1]]

\* node i takes over key and value of its successor (but not its init flag)
\* and the successor is unlinked
AbsorbNext(chain, i) ==
  [j \in 1..(Len(chain) - 1) |->
     IF j < i THEN chain[j]
     ELSE IF j = i THEN [init |-> chain[i].init,
                         key |-> chain[i + 1].key, value |-> chain[i + 1].value]
     ELSE chain[j + 1]]

\* hashDel: a hit in the middle absorbs its successor, a hit at the end is
\* emptied in place
hashDel(chain, key) ==
  LET i == First(Hits(chain, key))
  IN  IF Hits(chain, key) = {} THEN chain
      ELSE IF i < Len(chain) THEN AbsorbNext(chain, i)
      ELSE [chain EXCEPT ![i] = EmptyNode]

\* the hit of hashDel is followed by the garbage pointer it copies from
CopiesWild(chain, key) ==
  /\ Hits(chain, key) # {}
  /\ First(Hits(chain, key)) + 1 = Len(chain)
  /\ chain[Len(chain)] = Wild
==============================================================================
