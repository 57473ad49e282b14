--------------------------------- MODULE Gcd ---------------------------------
(***************************************************************************)
(* The servers that compute a greatest common divisor.  The one of block   *)
(* 20 takes pairs over TCP and UDP and prints the result; select tells it  *)
(* which socket is ready, and it then blocks in accept and recv.  The one  *)
(* of block 31 answers one UDP request and ends.  Clients send their       *)
(* numbers as two bytes each.                                              *)
(***************************************************************************)
EXTENDS Integers, Sequences, FiniteSets, FiniteSetsExt

CONSTANTS
  Clients,
  Numbers     \* what may stand on the command line of a client

GcdAssumption == Numbers \subseteq Nat

VARIABLES
  block,      \* 20 or 31: the server that runs
  input,      \* client -> its two numbers, and whether it uses TCP
  silent,     \* the TCP clients that connect and never send
  dropped,    \* the UDP clients whose datagrams were lost
  state,      \* client -> "new", "connected" (TCP), "sent", "done"
  backlog,    \* the TCP connections not accepted yet, in their order
  inbox,      \* the UDP clients whose datagrams were not read yet
  serving,    \* "select", or the connected client recv waits for; "ended"
  udpReady,   \* did select report the UDP socket as well?
  printed     \* client -> the result printed for it, or 0

vars == <<block, input, silent, dropped, state, backlog, inbox, serving, udpReady, printed>>

------------------------------------------------------------------------------
(* Arithmetic *)

Common(a, b, range) == {i \in range : a % i = 0 /\ b % i = 0}

Largest(S) == IF S = {} THEN 1 ELSE Max(S)

\* mutant: the loop of block 31 stops before the smaller number
gcd31Short(a, b) == Largest(Common(a, b, 2..(Min({a, b}) - 1)))

\* block 31 tries 2 .. min(a, b), block 20 stops before b / 2
gcd31(a, b) == Largest(Common(a, b, 2..Min({a, b})))
gcd20(a, b) == Largest(Common(a, b, 2..((b \div 2) - 1)))

\* packData and unpackData keep two bytes of each number
Packed(x) == x % 65536

\* what the server works on for client c
Received(c) == <<Packed(input[c][1]), Packed(input[c][2])>>

Result(c) ==
  LET ab == Received(c)
  IN  IF block = 20 THEN gcd20(ab[1], ab[2]) ELSE gcd31(ab[1], ab[2])

------------------------------------------------------------------------------
(* Clients *)

usesTCP(c) == input[c][3]

\* a TCP client connects, ...
Connect(c) ==
  /\ state[c] = "new"
  /\ usesTCP(c)
  /\ state' = [state EXCEPT ![c] = "connected"]
  /\ backlog' = Append(backlog, c)
  /\ UNCHANGED <<block, input, silent, dropped, inbox, serving, udpReady, printed>>

\* ... then sends, and is done, if it does not stay silent
SendTCP(c) ==
  /\ state[c] = "connected"
  /\ c \notin silent
  /\ state' = [state EXCEPT ![c] = "sent"]
  /\ UNCHANGED <<block, input, silent, dropped, backlog, inbox, serving, udpReady, printed>>

\* the datagram of a UDP client arrives or is lost
SendUDP(c) ==
  /\ state[c] = "new"
  /\ ~usesTCP(c)
  /\ state' = [state EXCEPT ![c] = "sent"]
  /\ \/ inbox' = inbox \cup {c} /\ UNCHANGED dropped
     \/ dropped' = dropped \cup {c} /\ UNCHANGED inbox
  /\ UNCHANGED <<block, input, silent, backlog, serving, udpReady, printed>>

\* the client of block 31 waits for the answer, if the server still gives one
TakeAnswer(c) ==
  /\ block = 31
  /\ state[c] = "sent"
  /\ printed[c] # 0
  /\ state' = [state EXCEPT ![c] = "done"]
  /\ UNCHANGED <<block, input, silent, dropped, backlog, inbox, serving, udpReady, printed>>

------------------------------------------------------------------------------
(* Servers *)

\* block 20: select returns, and TCP is looked at first
Select ==
  /\ block = 20
  /\ serving = "select"
  /\ backlog # <<>> \/ inbox # {}
  /\ udpReady' = (inbox # {})
  /\ serving' = IF backlog # <<>> THEN Head(backlog) ELSE "udp"
  /\ backlog' = IF backlog # <<>> THEN Tail(backlog) ELSE backlog
  /\ UNCHANGED <<block, input, silent, dropped, state, inbox, printed>>

\* mutant: the UDP socket is read without looking at what select reported
ReceiveTCPThenUDP(c) ==
  /\ serving = c
  /\ state[c] = "sent"
  /\ printed' = [printed EXCEPT ![c] = Result(c)]
  /\ serving' = "udp"
  /\ UNCHANGED <<block, input, silent, dropped, state, backlog, inbox, udpReady>>

\* recv blocks until the accepted client has sent its numbers
ReceiveTCP(c) ==
  /\ serving = c
  /\ state[c] = "sent"
  /\ printed' = [printed EXCEPT ![c] = Result(c)]
  /\ serving' = IF udpReady THEN "udp" ELSE "select"
  /\ UNCHANGED <<block, input, silent, dropped, state, backlog, inbox, udpReady>>

ReceiveUDP(c) ==
  /\ serving = "udp"
  /\ c \in inbox
  /\ printed' = [printed EXCEPT ![c] = Result(c)]
  /\ inbox' = inbox \ {c}
  /\ serving' = "select"
  /\ UNCHANGED <<block, input, silent, dropped, state, backlog, udpReady>>

\* block 31: one request is answered, then the server ends
Serve31(c) ==
  /\ block = 31
  /\ serving = "select"
  /\ c \in inbox
  /\ printed' = [printed EXCEPT ![c] = Result(c)]
  /\ inbox' = inbox \ {c}
  /\ serving' = "ended"
  /\ UNCHANGED <<block, input, silent, dropped, state, backlog, udpReady>>

Init ==
  /\ block \in {20, 31}
  /\ input \in [Clients -> Numbers \X Numbers \X (IF block = 20 THEN BOOLEAN ELSE {FALSE})]
  /\ silent \in SUBSET {c \in Clients : input[c][3]}
  /\ dropped = {}
  /\ state = [c \in Clients |-> "new"]
  /\ backlog = <<>>
  /\ inbox = {}
  /\ serving = "select"
  /\ udpReady = FALSE
  /\ printed = [c \in Clients |-> 0]

Next ==
  \/ Select
  \/ \E c \in Clients :
       \/ Connect(c) \/ SendTCP(c) \/ SendUDP(c) \/ TakeAnswer(c)
       \/ ReceiveTCP(c) \/ ReceiveUDP(c) \/ Serve31(c)

\* The server is a loop; a client goes on with what it does.
Fairness ==
  /\ WF_vars(Select)
  /\ \A c \in Clients :
       /\ WF_vars(Connect(c)) /\ WF_vars(SendTCP(c)) /\ WF_vars(SendUDP(c))
       /\ WF_vars(ReceiveTCP(c))
       /\ WF_vars(Serve31(c))
  /\ WF_vars(\E c \in Clients : ReceiveUDP(c))

------------------------------------------------------------------------------
(* Properties *)

\* Euclid's algorithm
Euclid[a, b \in Nat] == IF b = 0 THEN a ELSE Euclid[b, a % b]

\* Block 31 is right unless one of the numbers, as it was received, is 0, and serves
\* one client only.  Block 20 is wrong exactly when the second number divides twice the
\* first and they have a common divisor.
GcdKnown ==
  /\ block = 31 => Cardinality({c \in Clients : printed[c] # 0}) <= 1
  /\ \A c \in Clients : printed[c] # 0 =>
       LET a == Received(c)[1]
           b == Received(c)[2]
           right == printed[c] = Euclid[a, b]
       IN  IF block = 31 THEN right <=> (a > 0 /\ b > 0) \/ a + b = 1
           ELSE b > 0 => (right <=> (2 * a) % b # 0 \/ Euclid[a, b] = 1)

\* The server of block 20 serves every client whose datagram is not lost, whichever
\* order connections and datagrams come in: it never blocks in recv on a UDP socket
\* without a datagram.  But one client that connects and stays silent ends its service
\* for good.  The server of block 31 serves one client and ends.
ClientsServed ==
  /\ block = 20 /\ silent = {} => <>(\A c \in Clients : printed[c] # 0 \/ c \in dropped)
  /\ block = 20 /\ silent # {} =>
       <>[](\E c \in silent : serving = c /\ state[c] = "connected")
  /\ block = 31 => <>(serving = "ended" \/ dropped = Clients)
==============================================================================
