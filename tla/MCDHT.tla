-------------------------------- MODULE MCDHT --------------------------------
(* Instances of DHT for TLC: four nodes, as the cluster script starts them. *)
EXTENDS DHT, TLC

CONSTANTS c1, c2, c3

\* clients that differ in nothing but their names (safety runs only)
Symmetry == Permutations(Clients)

\* the offsets of the assignment, and those of the cluster script
Quarters == [n \in 0..3 |-> 64 * n]

ScriptOffsets == [n \in 0..3 |-> <<0, 64, 128, 196>>[n + 1]]

\* the premises of DHTProofs hold of these rings
ASSUME Premises ==
  /\ InRingOrder
  /\ OneOwner
  /\ Offset = Quarters => Covered

\* a start with one call left ...
Cold ==
  /\ finger = [n \in Nodes |-> NoAddress]
  /\ running = [n \in Nodes |-> FALSE]
  /\ calls = MaxCalls - 1

\* ... or the state after an undisturbed start-up
Ready ==
  /\ finger = [n \in Nodes |-> Succ(Succ(n))]
  /\ running = [n \in Nodes |-> TRUE]
  /\ calls = 0

InitReady == Blank /\ Ready

InitColdOrReady == Blank /\ (Cold \/ Ready)

ReadySpec == InitReady /\ [][Next]_vars

FairColdOrReadySpec == InitColdOrReady /\ [][Next]_vars /\ Fairness
==============================================================================
