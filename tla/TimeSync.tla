------------------------------ MODULE TimeSync ------------------------------
(***************************************************************************)
(* The time synchronisation of block 61: a client asks a server for its    *)
(* time and computes the delay of the network out of four clock readings,  *)
(* t1 and t4 of its own and t2 and t3 of the server.  The clocks differ,   *)
(* and either may be set while the request is on its way (CLOCK_REALTIME). *)
(* The server answers one request and ends.                                *)
(*                                                                         *)
(* A second has Second ticks here, instead of 10^9 nanoseconds.  now and   *)
(* transit are the true time and the time datagrams spent on their way.    *)
(***************************************************************************)
EXTENDS Integers, FiniteSets

CONSTANTS
  Askers,      \* the clients
  Second,      \* ticks of a second
  Skews,       \* how far a clock may be from the true time, in ticks
  MaxTime      \* bound: ticks of a behaviour

\* The epoch lies far enough back that every clock shows more than 0.
ASSUME TimeSyncAssumption ==
  /\ Second \in Nat \ {0}
  /\ Skews \subseteq Int /\ \A s \in Skews : s > -100 * Second
  /\ MaxTime \in Nat
  /\ "server" \notin Askers

VARIABLES
  now,        \* true time, in ticks
  skew,       \* "server" or client -> what its clock shows more than now
  asker,      \* the clients whose requests are on their way, with the time they left
  server,     \* "waiting", "working", "replied" or "ended"
  served,     \* the client it works for
  stamps,     \* client -> t1, t2, t3, t4 as far as they are known
  transit,    \* ticks the datagrams of the served client were on their way
  measured,   \* client -> the delay it printed, or None
  stepped     \* was a clock set since the first request?

timeVars == <<now, skew, asker, server, served, stamps, transit, measured, stepped>>

None == [sec |-> 0, nsec |-> -1]
Nobody == "nobody"
NoStamps == [t1 |-> 0, t2 |-> 0, t3 |-> 0, t4 |-> 0]

Clock(who) == 100 * Second + now + skew[who]

------------------------------------------------------------------------------
(* struct timespec *)

Timespec(t) == [sec |-> t \div Second, nsec |-> t % Second]

\* the sum of two times, with its carry
Add(x, y) ==
  LET nsec == x.nsec + y.nsec
  IN  IF nsec >= Second THEN [sec |-> x.sec + y.sec + 1, nsec |-> nsec - Second]
      ELSE [sec |-> x.sec + y.sec, nsec |-> nsec]

AtLeast(x, y) == x.sec > y.sec \/ (x.sec = y.sec /\ x.nsec >= y.nsec)

\* mutant: the borrow is forgotten
SubtractNoBorrow(x, y) ==
  IF x.nsec < y.nsec THEN [sec |-> x.sec - y.sec, nsec |-> x.nsec - y.nsec + Second]
  ELSE [sec |-> x.sec - y.sec, nsec |-> x.nsec - y.nsec]

\* the difference of two times of which the first is not less, with its borrow
Subtract(x, y) ==
  IF x.nsec < y.nsec THEN [sec |-> x.sec - y.sec - 1, nsec |-> x.nsec - y.nsec + Second]
  ELSE [sec |-> x.sec - y.sec, nsec |-> x.nsec - y.nsec]

\* (t4 + t2) - (t1 + t3); the sign of the result is that of its seconds
calcDelay(t1, t2, t3, t4) ==
  LET plus == Add(t4, t2)
      minus == Add(t1, t3)
  IN  IF AtLeast(plus, minus) THEN Subtract(plus, minus)
      ELSE [Subtract(minus, plus) EXCEPT !.sec = -1 * @]

------------------------------------------------------------------------------
(* Actions *)

TimeInit ==
  /\ now = 0
  /\ skew \in [Askers \cup {"server"} -> Skews]
  /\ asker = {}
  /\ server = "waiting"
  /\ served = Nobody
  /\ stamps = [c \in Askers |-> NoStamps]
  /\ transit = 0
  /\ measured = [c \in Askers |-> None]
  /\ stepped = FALSE

Ask(c) ==
  /\ stamps[c] = NoStamps
  /\ stamps' = [stamps EXCEPT ![c].t1 = Clock(c)]
  /\ asker' = asker \cup {<<c, now>>}
  /\ UNCHANGED <<now, skew, server, served, transit, measured, stepped>>

\* the server reads its clock when a request arrives ...
ServerReceive(c) ==
  /\ server = "waiting"
  /\ \E a \in asker :
       /\ a[1] = c
       /\ transit' = now - a[2]
       /\ asker' = asker \ {a}
  /\ server' = "working"
  /\ served' = c
  /\ stamps' = [stamps EXCEPT ![c].t2 = Clock("server")]
  /\ UNCHANGED <<now, skew, measured, stepped>>

\* ... and again when it replies; it is the last thing it does
ServerReply ==
  /\ server = "working"
  /\ server' = "replied"
  /\ stamps' = [stamps EXCEPT ![served].t3 = Clock("server")]
  /\ transit' = transit - now
  /\ UNCHANGED <<now, skew, asker, served, measured, stepped>>

Delay(s) == calcDelay(Timespec(s.t1), Timespec(s.t2), Timespec(s.t3), Timespec(s.t4))

ReceiveTime(c) ==
  /\ server = "replied"
  /\ served = c
  /\ server' = "ended"
  /\ stamps' = [stamps EXCEPT ![c].t4 = Clock(c)]
  /\ transit' = transit + now
  /\ measured' = [measured EXCEPT ![c] = Delay([stamps[c] EXCEPT !.t4 = Clock(c)])]
  /\ UNCHANGED <<now, skew, asker, served, stepped>>

Tick ==
  /\ now < MaxTime
  /\ now' = now + 1
  /\ UNCHANGED <<skew, asker, server, served, stamps, transit, measured, stepped>>

\* bound: one clock is set, once
SetClock(who) ==
  /\ ~stepped
  /\ \E s \in Skews : s # skew[who] /\ skew' = [skew EXCEPT ![who] = s]
  /\ stepped' = TRUE
  /\ UNCHANGED <<now, asker, server, served, stamps, transit, measured>>

TimeNext ==
  \/ \E c \in Askers : Ask(c) \/ ServerReceive(c) \/ ReceiveTime(c)
  \/ ServerReply
  \/ Tick
  \/ \E who \in Askers \cup {"server"} : SetClock(who)

TimeSpec == TimeInit /\ [][TimeNext]_timeVars

------------------------------------------------------------------------------
(* Properties *)

\* What is printed has the size of (t4 - t1) - (t3 - t2), and its sign unless that is
\* between -1 second and 0.  If no clock was set, it is the time the two datagrams
\* were on their way, however far the clocks are apart.  One client gets a result.
DelayMeasured ==
  \A c \in Askers : measured[c] # None =>
    LET s == stamps[c]
        d == measured[c]
        size == (IF d.sec < 0 THEN -1 * d.sec ELSE d.sec) * Second + d.nsec
        true == (s.t4 - s.t1) - (s.t3 - s.t2)
    IN  /\ c = served
        /\ d.nsec \in 0..(Second - 1)
        /\ size = IF true < 0 THEN -1 * true ELSE true
        /\ d.sec < 0 <=> true <= -1 * Second
        /\ stepped \/ size = transit
==============================================================================
