------------------------------ MODULE MCServers ------------------------------
(***************************************************************************)
(* The hash table of a DHT node, the earlier node, and the small servers   *)
(* and their clients, checked in one run: a behaviour belongs to one part, *)
(* and the variables of the others stay at a value without meaning (the    *)
(* table at its first one).                                                *)
(***************************************************************************)
EXTENDS MCHashTable, Ring, HashClient, TimeSync

VARIABLES
  part,
  block, input, silent, dropped, state, backlog, inbox, serving, udpReady, printed

gcdVars ==
  <<block, input, silent, dropped, state, backlog, inbox, serving, udpReady, printed>>

------------------------------------------------------------------------------
(* HashTable and Ring: their definitions, under their own names.  The keys of the   *)
(* table share a bucket; in a ring of three nobody stores key 200.                  *)

NoRing ==
  /\ size = 1 /\ store = <<>> /\ requests = <<>> /\ overrun = <<>> /\ net = {}
  /\ call = [c \in Clients |-> NoCall] /\ executed = <<>> /\ reply = <<>>
  /\ lost = {} /\ calls = 0

------------------------------------------------------------------------------
(* HashClient: as Ring.  65541 is 5 on the wire, and 70000 is 4464. *)

Pairs == {<<<<5, 1>>, <<65541, 2>>>>, <<<<5, 70000>>, <<6, 1>>>>}

NoClient ==
  /\ pairs = <<>> /\ fresh = FALSE /\ node = FALSE /\ pairStore = <<>> /\ pairNet = {}
  /\ waiting = FALSE /\ results = <<>> /\ accepted = <<>> /\ duplicates = 0
  /\ pairLost = TRUE

------------------------------------------------------------------------------
(* Gcd *)

Divisors == INSTANCE Gcd WITH Numbers <- {0, 3, 6, 65545}

NoGcd ==
  /\ block = 0 /\ input = [c \in Clients |-> <<0, 0, FALSE>>] /\ silent = {} /\ dropped = {}
  /\ state = [c \in Clients |-> "done"] /\ backlog = <<>> /\ inbox = {}
  /\ serving = "ended" /\ udpReady = FALSE /\ printed = [c \in Clients |-> 0]

------------------------------------------------------------------------------
(* TimeSync: as Ring *)

Readings == {-3, 0, 2}

NoTime ==
  /\ now = 0 /\ skew = 0 /\ asker = {} /\ server = 0 /\ served = 0 /\ stamps = 0
  /\ transit = 0 /\ measured = [c \in Askers |-> None] /\ stepped = FALSE

------------------------------------------------------------------------------
ASSUME Divisors!GcdAssumption

Start ==
  /\ Init
  /\ \/ part = "table" /\ NoRing /\ NoClient /\ NoGcd /\ NoTime
     \/ part = "ring" /\ RingInit /\ NoClient /\ NoGcd /\ NoTime
     \/ part = "client" /\ NoRing /\ ClientInit /\ NoGcd /\ NoTime
     \/ part = "gcd" /\ NoRing /\ NoClient /\ Divisors!Init /\ NoTime
     \/ part = "time" /\ NoRing /\ NoClient /\ NoGcd /\ TimeInit

PartStep ==
  \/ part = "table" /\ Next /\ UNCHANGED <<part, ringVars, pairVars, gcdVars, timeVars>>
  \/ part = "ring" /\ RingNext /\ UNCHANGED <<part, vars, pairVars, gcdVars, timeVars>>
  \/ part = "client" /\ ClientNext /\ UNCHANGED <<part, vars, ringVars, gcdVars, timeVars>>
  \/ part = "gcd" /\ Divisors!Next /\ UNCHANGED <<part, vars, ringVars, pairVars, timeVars>>
  \/ part = "time" /\ TimeNext /\ UNCHANGED <<part, vars, ringVars, pairVars, gcdVars>>

PartsSpec ==
  /\ Start
  /\ [][PartStep]_<<part, vars, ringVars, pairVars, gcdVars, timeVars>>
  /\ Fairness /\ ClientFairness /\ Divisors!Fairness

------------------------------------------------------------------------------
(* The properties of the parts, under names of their own where they are not extended *)

\* see Gcd
GcdKnown == part = "gcd" => Divisors!GcdKnown
ClientsServed == Divisors!ClientsServed
==============================================================================
