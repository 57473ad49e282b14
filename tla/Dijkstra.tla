------------------------------ MODULE Dijkstra ------------------------------
(***************************************************************************)
(* Shortest paths as ProtSim computes them (routing/Dijkstra.cc), and what *)
(* a shortest path is.  A topology (support/Topology.cc) is a function:    *)
(* topo[n][m] is the weight of the link from node n to node m.  Nodes are  *)
(* numbers, their addresses.                                               *)
(***************************************************************************)
EXTENDS Integers, FiniteSets, Functions, FiniteSetsExt, TLC

\* Before the first round: N are the nodes not handled so far, D the distances (of
\* a node not in its domain it is infinite) and P the next hops.
Start(topo, src) ==
  [N |-> DOMAIN topo, D |-> [n \in {src} |-> 0], P |-> [n \in {} |-> src],
   closestNode |-> src]

\* The node of N at the smallest finite distance: the lowest address among several,
\* as sets of nodes are ordered by address.  Without one, the last node remains.
Closest(N, D, last) ==
  LET seen == {n \in N : n \in DOMAIN D}
  IN  IF seen = {} THEN last
      ELSE Min({n \in seen : \A m \in seen : D[n] <= D[m]})

\* The links of current lead to nodes of N that are closer this way.
Relaxed(topo, s, current) ==
  {r \in (s.N \ {current}) \cap DOMAIN topo[current] :
     r \in DOMAIN s.D => s.D[current] + topo[current][r] < s.D[r]}

\* mutant: a node behind the first hop is reached directly
RoundNextHop(topo, src, s) ==
  LET current == s.closestNode
      relaxed == Relaxed(topo, s, current)
      D == [n \in relaxed |-> s.D[current] + topo[current][n]] @@ s.D
      P == [n \in relaxed |-> IF current = src \/ n \in DOMAIN topo[src] THEN n ELSE s.P[current]] @@ s.P
      N == s.N \ {current}
  IN  [N |-> N, D |-> D, P |-> P, closestNode |-> Closest(N, D, current)]

\* one round of the loop
Round(topo, src, s) ==
  LET current == s.closestNode
      relaxed == Relaxed(topo, s, current)
      D == [n \in relaxed |-> s.D[current] + topo[current][n]] @@ s.D
      P == [n \in relaxed |-> IF current = src THEN n ELSE s.P[current]] @@ s.P
      N == s.N \ {current}
  IN  [N |-> N, D |-> D, P |-> P, closestNode |-> Closest(N, D, current)]

\* The state after all rounds.  A round that cannot take its node out of N again
\* fails an assertion; the state with a rest N is the last one.
doDijkstra(topo, src) ==
  LET after[k \in Nat] ==
        IF k = 0 THEN Start(topo, src)
        ELSE LET s == after[k - 1]
             IN  IF s.closestNode \in s.N THEN Round(topo, src, s) ELSE s
  IN  after[Cardinality(DOMAIN topo)]

AssertionFails(topo, src) == doDijkstra(topo, src).N # {}

------------------------------------------------------------------------------
(* What it should compute *)

\* The distances from a node to a node over at most k links; pairs without such a
\* path are not in the domain.
WithinHops(topo, k) ==
  LET dist[i \in Nat] ==
        IF i = 0 THEN [p \in {<<n, n>> : n \in DOMAIN topo} |-> 0] @@ <<>>
        ELSE LET d == dist[i - 1]
                 via(n, m) == {r \in DOMAIN topo[n] : <<r, m>> \in DOMAIN d}
                 ways(n, m) == {topo[n][r] + d[r, m] : r \in via(n, m)}
                                 \cup{d[q] : q \in {<<n, m>>} \cap DOMAIN d}
             IN  [p \in {q \in (DOMAIN topo) \X (DOMAIN topo) : ways(q[1], q[2]) # {}} |->
                    Min(ways(p[1], p[2]))] @@ d
  IN  dist[k]

Distances(topo) == WithinHops(topo, Cardinality(DOMAIN topo) - 1)

Connected(topo) == DOMAIN Distances(topo) = (DOMAIN topo) \X (DOMAIN topo)
==============================================================================
