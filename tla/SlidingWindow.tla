---------------------------- MODULE SlidingWindow ----------------------------
(***************************************************************************)
(* What a sliding-window transfer promises, whatever the network loses:    *)
(* packets are handed over in order and once each, only packets that were  *)
(* sent are, and the sender forgets a packet only after its delivery.  At  *)
(* most window packets are under way.                                      *)
(***************************************************************************)
EXTENDS Integers

CONSTANT window

VARIABLES sent,       \* packets 0 .. sent-1 were sent at least once
          delivered,  \* packets 0 .. delivered-1 were handed over
          released    \* packets 0 .. released-1 were forgotten by the sender

Init == sent = 0 /\ delivered = 0 /\ released = 0

Send ==
  /\ sent < released + window
  /\ sent' = sent + 1
  /\ UNCHANGED <<delivered, released>>

Deliver ==
  /\ delivered < sent
  /\ delivered' = delivered + 1
  /\ UNCHANGED <<sent, released>>

Release ==
  /\ released < delivered
  /\ released' \in (released + 1)..delivered
  /\ UNCHANGED <<sent, delivered>>

Next == Send \/ Deliver \/ Release

Spec == Init /\ [][Next]_<<sent, delivered, released>>
==============================================================================
