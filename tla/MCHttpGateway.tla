---------------------------- MODULE MCHttpGateway ----------------------------
(* Instances of HttpGateway for TLC. *)
EXTENDS HttpGateway

Piece(f, n) == [field |-> f, num |-> n, fits |-> TRUE]

\* every GET and DELETE is for key 7
OneKey == { <<7>> }

\* a key that needs more than 16 bits reaches the DHT as 7
BigKey == 65543

CompleteBodies == { <<Piece("value", 1), Piece("key", BigKey)>> }

\* an unknown field, and a field that is too long and hides the rest
OddBodies ==
  { <<Piece("other", 0), Piece("key", 7), Piece("value", 1),
      [field |-> "key", num |-> 3, fits |-> FALSE], Piece("value", 2)>> }

\* two complete bodies that differ in both fields
TwoBodies ==
  { <<Piece("key", 7), Piece("value", 1)>>, <<Piece("key", 8), Piece("value", 2)>> }
==============================================================================
