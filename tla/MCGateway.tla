------------------------------ MODULE MCGateway ------------------------------
(***************************************************************************)
(* Two instances of HttpGateway in one run: this module's own, with        *)
(* complete requests, posts that do not overlap and another client of the  *)
(* DHT; and one (Odd) with overlapping posts, odd bodies, a GET without a  *)
(* key, keys without an owner and every failure.  A behaviour belongs to   *)
(* one of them; in the other nothing happens.                              *)
(***************************************************************************)
EXTENDS MCHttpGateway

VARIABLES
  odd,  \* does the behaviour belong to Odd?
  oddRequest, oddRest, oddFields, oddWaiting, oddResponse,
  oddStore, oddCall, oddAnswer, oddLast

oddVars ==
  <<oddRequest, oddRest, oddFields, oddWaiting, oddResponse,
    oddStore, oddCall, oddAnswer, oddLast>>

Odd == INSTANCE HttpGateway WITH
  Conns <- {"p1", "p2"}, Posters <- {"p1", "p2"}, Peers <- {}, Keys <- {7},
  Values <- {1}, Paths <- {<<>>}, Methods <- {"PUT", "GET"},
  Bodies <- OddBodies, Unowned <- {7}, Failures <- {"begin", "send", "receive"},
  request <- oddRequest, rest <- oddRest, fields <- oddFields,
  waiting <- oddWaiting, response <- oddResponse, store <- oddStore,
  call <- oddCall, answer <- oddAnswer, last <- oddLast

\* the premises of the theorem about this module's own instance
ASSUME Calm

Start == odd \in BOOLEAN /\ Init /\ Odd!Init

Step ==
  /\ UNCHANGED odd
  /\ \/ ~odd /\ Next /\ UNCHANGED oddVars
     \/ odd /\ Odd!Next /\ UNCHANGED vars
     \/ oddWaiting = Odd!Crashed /\ UNCHANGED <<vars, oddVars>>  \* nobody restarts it

\* The select loop of libmicrohttpd calls back for every connection with input, and the
\* DHT answers (no datagram is lost).
OddFairness ==
  /\ \A c \in {"p1", "p2"} : SF_oddVars(Odd!Upload(c) \/ Odd!Finish(c))
  /\ WF_oddVars(Odd!Receive)
  /\ WF_oddVars(Odd!Execute(Gateway) \/ Odd!Refuse(Gateway))

BothSpec == Start /\ [][Step]_<<odd, vars, oddVars>> /\ OddFairness

\* see HttpGateway
OddRequestsAnswered == Odd!RequestsAnswered
==============================================================================
