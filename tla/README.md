# Specifications of the TechGI4 network programs

The repository holds the solutions of a networking course: small client/server programs
(20, 21, 31, 32), a distributed hash table (31, 41, 42, 51), HTTP programs on top of it (51,
52), time synchronisation (61), and a Go-Back-N file transfer with the network simulator
ProtSim (80).  Block 32 brings the sources of the JSON library jansson along.  This directory
holds TLA+ models of the programs whose correctness depends on interleaving, loss, order,
failure or boundaries, TLC configurations that check them on small instances, and theorems that
TLAPS proves for all instances.

    tlc -config Servers.cfg MCServers          # model-check (see "Runs")
    tlapm HashTableProofs.tla                  # check proofs (see "Proofs" for the others)

## 1. The system and its components

| Component | Source | State it keeps | Operations | Model |
|---|---|---|---|---|
| hash table of a node | 42/hashServer.c 31-163 | 64 buckets, each a root node and a linked list | `hashSet`, `hashGet`, `hashDel` | `HashChain`, `HashTable` |
| DHT node and ring | 42/hashServer.c | table, ten slots of open client requests, address of the successor's successor | start-up exchange of addresses; receive a client's or a node's datagram; answer, forward, return to client | `DHT` |
| earlier DHT node | 41/hashServer.c | table and slots | the same without start-up and short cut; the bytes of a port are swapped on each hop | `Ring` |
| single hash server | 31/hashServer.c | table | one loop; `hashSet` refuses a key in use | `HashClient` |
| clients of the hash servers | 31, 41, 42 hashUdpClient.c | socket, the call it blocks in | four rounds of `hashSet/Get/Del/Get` via `rpcCall` | `HashClient`; as users in `DHT`, `Ring` |
| REST gateway | 51/block5.c | one `con_info` per connection; **global** key, value and flags | callbacks of libmicrohttpd, `rpcCall` | `HttpGateway` |
| cluster script | 51/dht-server-cluster.sh | - | starts four nodes with offsets | instance `dht_calls` |
| gcd servers and clients | 20/Sockets, 31/gdc* | sockets, what `select` reported | accept, receive, compute, print or answer | `Gcd` |
| time synchronisation | 61/server.c, 61/udpClient.c | clocks, four readings | request, reply, `calcDelay` | `TimeSync` |
| Go-Back-N of ProtSim | 80/protsim/userapps/GoBackN*.cc | window, buffer with timeouts, two timers; last number received | send timer, expiration timer, acknowledgement, data packet | `GoBackN` |
| packet buffer of the file sender | 80/src/DataBuffer.c | ring of packet pointers | allocate, put, get, free, `resetTimers` | `DataBuffer` |
| file receiver and proxy | 80/src/GoBackNReceiver.c, 80/protsim/techgi4/ErrorControlProxy.cc | last number received; a TCP connection to the simulator | main loop; a packet of the network, a message of the receiver | `FileTransfer` |
| file sender | 80/src/GoBackNSender.c | window, buffer | a template whose core is missing | its buffer |
| socket scheduler | 80/protsim/emulation/ProtSimSocketRTScheduler.cc, common/NetworkStack.cc | sockets, two registries of applications, application tables, module memory | accept, receive, hang up, deliver, end of run | `SocketScheduler` |
| interface queue | 80/protsim/support/InterfaceQueue.cc | bounded queue, link, timeout, statistics | packet arrives, transmission done, reset, batch | `InterfaceQueue` |
| network stack and routing | 80/protsim/common/NetworkStack.cc, routing, support | topology, forwarding tables | Dijkstra, forward, broadcast, change of a cost | `Dijkstra`, `Network` |
| ping-pong source | 80/protsim/userapps/PingPongAppl.cc | pings sent | ping, answer | in `Network` |
| line parser of the shell | 80/protsim/support/Parser.cc | line, arguments | next line, split, restore | `Parser` |
| jansson | 32/lib/jansson-2.7/src | values with reference counts, hash tables, seed | load, dump, pack, unpack, containers, copies | `Json*` |
| HTTP and weather clients, generated messages, evaluation scripts, libmicrohttpd, Tcl/Tk | 21, 32, 52, 80/protsim/messages, eval | - | pure input/output, generated or third-party code | not modelled |

How they interact: a client (or the gateway, which is a client for its HTTP users) sends one UDP
datagram to a node and blocks in `recvfrom`.  The node enters the request into a slot.  If the key
is in its quarter it answers from its table; else the request travels the ring as an *internal*
datagram that carries the client's address.  The owner turns the datagram into an answer which
keeps travelling until it meets a slot with the same key and client address; that node sends
the reply.  The file transfer is a chain sender - (proxy) - network - proxy - receiver, where
programs outside of the simulator talk to a proxy over TCP through the socket scheduler, which is
the simulator's event queue and the owner of their sockets at once;
inside the simulator, the Go-Back-N applications talk through stacks, queues and links that
delay, damage and drop packets.  jansson is used by the weather client of block 32 alone; its parts
call one another: loading builds values, values hold hash tables, these use the seed.

What is hard, and what makes each part correct:

* **Hash table.** `hashDel` does not unlink the last node but empties it; a deletion in the middle
  copies the next node over the deleted one; `hashSet` never writes the `next` pointer of a new
  node.  Correct: whatever the sequence of calls, the table is a dictionary.
* **DHT.** Concurrent requests with equal keys, answers that overtake each other, slots that
  outlive lost datagrams, short cuts learned while queries are on their way, 8-bit hash
  arithmetic, addresses and ports packed byte by byte.  Correct: clients see one linearizable
  dictionary; a reply belongs to the call that is waiting; queries approach their owner; calls return.
* **Clients and small servers.** One socket for many calls, doubled and late replies, blocking
  receives behind `select`, clocks that differ and are set.  Correct: a call returns its own
  result, everybody is served, what is printed is the number asked for.
* **Gateway.** Callbacks of several connections alternate and share globals; one thread blocks in
  a remote call; results are encoded as -2, -1, 0 and >= 0 and mapped to HTTP status codes.
  Correct: each HTTP request is the one call it asks for, its status says what happened, and it
  is answered.
* **Go-Back-N.** Rejects, timeouts and late acknowledgements cross; eight assertions say what
  the author believed.  Correct: in-order, exactly-once delivery, no failing assertion, a timer
  scheduled whenever something is unacknowledged, progress.
* **File receiver.**  It acknowledges another number than the simulated receiver does, through a
  proxy with an assertion of its own.  Correct: the same window protocol, and the file completes.
* **Packet buffer.** A ring that is full looks like one that is empty.  Correct: it is a queue.
* **Simulator.** Events at the same instant, costs that change while packets travel, equal paths,
  programs that connect, hang up and come in pieces, addresses of deleted modules that are used
  again, statistics collected in intervals.  Correct: routes are shortest, no packet stays behind,
  figures are exact, messages reach the program they are for.
* **jansson.** A malloc may fail in the middle of any call; functions that steal references; marks
  that must be taken back; lists cut into buckets; threads that race for the seed.  Correct: counts
  are references, a failed call leaves nothing behind, what is written is read back.

The full list of hazards, each with its line and the properties that would catch it, is in
`PROJECT.json`.

## 2. The modules

### HashChain, HashTable, Dictionary (42/hashServer.c)

`HashChain` defines one bucket as the sequence of its nodes: `hashGet`, `hashSet` and `hashDel` are
operators on that sequence.  The loops become the set of positions where they stop (`Walk`,
`Hits`, `Stops`).  `hashSet` does not write `next`, so what follows a new node is whatever
`malloc` returns: nothing in fresh memory, garbage in a recycled chunk.  Garbage is the pseudo node
`Wild` at the end of the list; a walk that reaches it ends the process (`Segfault`, `alive`).
`HashTable` has one action per operation on a table of such buckets.  `Dictionary` is the abstract
specification: a function from keys to values.

### DHT, KeyValueService (42/hashServer.c, 42/hashUdpClient.c)

One module for all nodes.  `table`, `slots` and `finger` are the nodes' globals, `net` is the set of
datagrams on their way.  `ReceiveInternal`, `ReceiveClient` and `OverrunSlots` are the branches of
the core loop (each one iteration: the loop is single-threaded), and call operators named like the
functions of the code.  Those take the slots and the rest of the network as arguments because one
iteration may change a slot (a client request is entered) and then read it (`forwardQuery`).

* A datagram is a record; packing is modelled where it does something: commands change to an `x`
  form for internal datagrams and to capitals for clients, addresses are sign-extended when
  unpacked (`extended`), keys hash to their low byte.
* `net` is a set: datagrams overtake each other, `Lose` drops them.  Two equal datagrams in
  flight would be one; `RequestTracked` shows that a client never has two.
* When all slots are taken, the code writes to `openClientRequests[-1]`.  What that memory is, the
  compiler decides; the model marks the node `overrun` and lets it take no further step.
* `answer` is a history variable: what the table answered to the waiting call.  It is the
  linearization point of the refinement and no action reads it.

`KeyValueService` is the abstract specification: calls, one atomic effect per call, returns.

### Ring (41/hashServer.c)

The earlier node is a module of its own rather than an instance of `DHT`: it has no start-up and no
short cut, its core loop is ordered differently, and the point of it is the port.  A
datagram carries whether its port is `reversed` just now, which each unpacking changes; a slot is
found only when port and address compare equal.  `hops` and `executed` are history.

### HashClient (hashUdpClient.c of 31, 41, 42; 31/hashServer.c)

One client runs its program, call by call, against the server of block 31 or a node.  `fresh` says
whether it opens a socket per call; a datagram carries the number of its call as history, so that
`accepted` can say whose reply was taken.  Packing keeps 16 bits; a client parses three letters of
the reply.  The network loses, delays and doubles datagrams.  The client of 31 sends to `their_addr`, which
`recvfrom` overwrites: after the first reply of a node, which comes from a socket that the node
closes, it is no longer `Addressed` at anyone.

### Gcd (20, 31) and TimeSync (61)

`Gcd` has the servers' loops with `select`, `accept` and the receives that block, clients that connect
and stay `silent`, datagrams that are lost on their way (`dropped`), and the two loops over candidate
divisors as the maximum of a set.  `TimeSync` has true time (`now`), a skew per clock
that `SetClock` changes at any moment, and `calcDelay` with its pairs of seconds and nanoseconds (`Add`,
`Subtract`); a second has two ticks.

### HttpGateway (51/block5.c)

libmicrohttpd calls `answer_to_connection` several times per request, and callbacks of different
connections alternate.  Each callback is an action: `Begin`, `Upload` (one piece of a POST body),
`Finish` (the call of the DHT), `Receive` (the rest of the same callback after `recvfrom`; while
`waiting` is set no other callback runs, as there is one thread), `Abort` (`request_completed` when
the client has gone).  `fields` holds the globals.  The DHT is an instance of `KeyValueService`
whose `Gateway` client is this program; a key without an owner comes back unanswered (`Refuse`),
as `DHT` shows in `dht_calls`.  `Failures` says what may fail: the mallocs at the beginning of a
request (`Decline` closes the connection), `sendto`, and `recvfrom`.  After a failed receive the
callback goes on with what the buffer holds, which is its own request (`ReceiveFails`), and the call that
it gave up goes on without it (`Orphan`, one at a time), until it is answered at a closed socket
(`Unheard`).  A GET or DELETE whose URL has no key gives `atoi` a null pointer and ends the process
(`Crashed`).

### GoBackN, SlidingWindow (80/protsim/userapps)

The sender's two timer events, its acknowledgement handler with both branches, and the receiver's
handler, which discards, delivers, rejects or ignores.  The simulator is a discrete-event loop, so
a handler is one step.  Time is abstracted: a scheduled timer may fire at any moment, which includes
every order that real delays allow; of a packet's timeout only *finite or not* remains.  So of the
assertion that a timeout taken over lies in the future (GoBackNSender.cc:212) only *has been set* is
left, and those that an event comes at its time (117, 159) are not in the model; the
assertions about numbers, buffer and window are, all of them.  Packets keep their order (links are queues), and may be damaged or
dropped.  `SlidingWindow` is the abstract specification: numbers sent, delivered and released.

### FileTransfer (80/src/GoBackNReceiver.c, 80/protsim/techgi4/ErrorControlProxy.cc)

Extends `GoBackN`: the same sender and network, and either of two receivers, which `outside` chooses
once and for all.  The one within the simulator (`Simulated`) is that of `GoBackN`.  The external
program's main loop is `ReceiveMessage`, with one operator per branch; `inbox` and `outbox` are the
two directions of the TCP connection, `ProxyData` and `ProxyAck` those of the proxy's handler.  The
fairness and the liveness of both are stated here.  An
acknowledgement of -1 fails the proxy's assertion and ends the simulator (`aborted`).  The
simulator's sender never sends the empty packet that ends a file; the instance lets it, as the file
sender, whose template is built like it, would.

### DataBuffer, PacketQueue (80/src/DataBuffer.c)

The ring with its four numbers, the pointers and, per packet, whether its timeout is armed; the
assertions are guards.  `Arm` is what the sender does when it sends a packet, `resetTimers` what it
does when it goes back.  The last assertion of `freeBuffer` admits one packet more than the buffer holds; no
caller in the repository does that, and the model frees only what is there.  `PacketQueue` is a bounded queue of
consecutive numbers; going back disarms everything in it, unless it is full.

### InterfaceQueue (80/protsim/support/InterfaceQueue.cc)

Discrete time, one action per handler (`handleMessage`, `handleTimeout`).  The interesting instant is
the one at which a transmission ends: the timeout and an arriving packet are events of the same time
and may be handled in either order.  A weighted statistic is its sum, its weight and the time of its
last change; `truth` is
history, kept by `Tick` alone, and says what they should be.

### Dijkstra, Network (80/protsim/routing, common, support, PingPongAppl.cc)

`Round` is one round of the loop in `Dijkstra.cc`, `doDijkstra` the recursive function over rounds,
with the assertion that a closest node was found.  `Distances` is the definition of a shortest
distance it is checked against (`WithinHops`: least sums over paths of more and more hops).
`Network` has every node's stack, daemon and application; stack and application are connected
without delay and handled in one step.

### SocketScheduler (ProtSimSocketRTScheduler.cc, NetworkStack.cc)

External programs connect, send messages of two units (size and data) that TCP may bring apart, hang
up or reset.  The two maps of the scheduler and the application tables of the nodes are three
registries of one thing.  Modules are addresses that are used again.  After undefined behaviour (an
iterator to an erased element, a description used or deleted twice) the simulator crashes
or goes on: `status'` has both.

### Parser (80/protsim/support/Parser.cc)

`saveSeparators` finds the strings of a line and `kept` the separators in them; splitting and
restoring follow.  A user's command is a sequence of arguments and the quotes they are put into; the
line is what the user types.  `ArgumentsKept` compares what comes out with what was meant.

### jansson (32/lib/jansson-2.7/src)

* `JsonHashtable`, `JsonObject`: pairs in one list and buckets as stretches of it; rehash, removal and
  clearing, with mallocs that fail.  `JsonObject` is the partial function it promises to be.
* `JsonValue`: values with counts; every call of the program on containers and strings is an action, and
  one malloc of it may fail.  A call works on a record of the heap, so that errors in the middle
  leave what the code leaves.  Freed memory that is used again sets `fault`.
* `JsonDump`: the recursion of `do_dump` as a list of what is left to do; each call of the program's
  callback may refuse.
* `JsonLexer`, `JsonParser`: scanner and parser as functions from a position to a position and a
  result, with the number of blocks that live; `JsonGrammar` says, independently, what JSON is.
* `JsonPack`: scanner, `pack` and `unpack` over a format and its arguments, with blocks and
  references, strings that are not UTF-8 (one makes what it is put into not UTF-8), and a buffer that
  every string nearly fills.  `JsonUtf8`: the codec and the spelling of reals.  `JsonSeed`: threads that race.

### Runs of several modules

Parts that do not depend on each other share a run: `MCGateway`, `MCSimulator`, `MCServers` and
`MCJson` choose one of them in the initial state (`part`, `odd`) and leave the variables of the others
at a value without meaning.  The states of such a run are the sum of those of its parts.  Modules
with theorems are extended, so that a run checks the very definitions that are proved, with the
constants of the `.cfg`: `InterfaceQueue`, `DataBuffer` and `SocketScheduler` in `MCSimulator`; `HashTable`, `Ring`,
`HashClient` and `TimeSync` in `MCServers`.  That is why their variables and their `Init`, `Next`
and `Spec` have names of their own (`SchedulerInit`, `RingNext`, `pairNet`, `timeVars`).  The others are
instances (`Network`, `Parser`, `Gcd`); their properties appear under the same or a longer name.
`MCGateway` is itself a `HttpGateway` with complete posts that do not overlap, and has a second
instance, `Odd`, with everything else: overlapping posts with odd bodies, a GET without a key, keys
that nobody owns, and every failure.  `MCJson` also calls the functions of `JsonParser` and
`JsonPack` once with each of a set of inputs.

## 3. Runs

Each `.cfg` goes with the MC module named in `PROJECT.json`.  All bounds are constants.

| Run | Bounds | Shows |
|---|---|---|
| `hash_table_key_zero` (violation) | key 0 in use, clean memory | key 0 deleted before an emptied node stays, with value 0 |
| `dht_service` | 4 nodes, 3 clients, 3 calls, one key with 2 values, 2 slots, loss | one linearizable dictionary; each request is in one place; a slot overrun is reached |
| `dht_calls` | 4 nodes with the offsets of the cluster script (0, 64, 128, 196), keys of two nodes and one of no node, entry at any node, one of two clients with a high address byte, no loss; one call during the start-up, or two after it | all short cuts are learned, calls vanish only before that; which calls return and which never do; what a reply can be |
| `gateway` | two POST connections with odd bodies, an unknown method, a GET without a key, every failure and a refused key; or a POST, a GET/DELETE connection and another DHT client | every request is answered, or its connection closed, unless the process has crashed; one linearizable dictionary through HTTP |
| `gateway_overlap` (violation) | two overlapping POSTs | one is stored with the other's field |
| `gateway_refused` (violation) | a key without an owner | 201 although nothing was stored |
| `transfers` | window 3, 6 packets, 3 data packets and 3 acknowledgements in flight, rejects, the receiver of the simulator or the file receiver with 2 messages per direction of its socket | assertions about numbers, buffer and window, sliding windows, never asleep, stuck only in one way, progress and completion otherwise |
| `file_abort` (violation) | window 2, a file of 4 packets | packet 0 damaged, packet 1 received: the proxy's assertion fails |
| `simulator` | *network*: a square with a diagonal, a triangle, a dead end, costs 0, 1 and 3, one change of a cost, 2 pings, TTL 2; *queue*: length 2, 5 ticks, durations 1 and 2, batches of 0 to 2; *scheduler*: 2 programs out of 5 ports, 2 messages each, 2 modules; *shell*: up to 3 arguments of up to 2 characters, with any quotes; *buffer*: 4 slots, numbers up to 9 | shortest routes, answered pings, a link that never stalls, exact statistics, agreeing registries, whole messages, arguments kept, a queue |
| `servers` | *table*: 3 keys in one bucket (not 0), 2 values, lists up to 5 nodes, any malloc content; *ring*: 3 or 4 nodes, 2 clients, one slot, one key nobody stores in a ring of three; *client*: 2 pairs with keys equal after 16 bits, one doubled datagram; *gcd*: 2 clients over TCP or UDP with 0, 3, 6 and 65545, any of them silent or its datagram lost; *time*: 2 clients, 3 ticks, skews up to 3 ticks | distinct keys, a dictionary until the process dies of a garbage pointer; where answers come home, what calls return, which gcd is right, which delay is measured, and who is served |
| `json` | *table*: 3 keys that collide in the first table and one that does not, 3 pairs, failing mallocs; *value*: 3 addresses, the first or second malloc of a call fails; *dump*: 3 values that refer to one another; *load*: texts of up to 3 pieces, 6 documents with one piece removed or replaced, any malloc failing; *pack*: formats of up to 3 characters, 5 longer ones edited likewise; *seed*: 3 threads | a map, exact counts, round trips, the JSON grammar, consistent formats, one seed |
| `validate_only` (violation) | the formats of `json` | only validating, `json_unpack` refuses a format with `s%` |

Why the bounds are enough.  *Hash table*: a bucket is independent of the others; three colliding keys
give a deletion at the root, in the middle and at the end, before and after emptied nodes (and the
theorems cover the rest).  *DHT*: four nodes are what the assignment's quarters need, and the short
cut is two hops, so the ring has every relation of entry node, owner and short cut.  With three
clients and two slots, slots are shared, reused and overrun; three calls let one client's second
call meet leftovers of its first while another client is active.  One key is the hard case for
`searchRequestId`, which tells requests apart by key and address.  *Ring*: what matters is whether the
number of hops is even.  *Gateway*: the shared state is one key and value, so two POSTs suffice.
*Go-Back-N*: six packets are twice a window of three;
the theorems hold for every window and without any of the bounds on traffic being
small (they are constants too).  *DataBuffer*: ten numbers through four slots wrap twice.
*Network*: a square with a diagonal has equal paths, and one change of a cost reroutes packets on their
way; a TTL of 2 is exceeded by just those that come back.  *Queue*: two packets wait while one is sent,
so it fills, overflows and drains; five ticks hold two batches.  *Scheduler*: two programs collide in
port, node or module.  *gcd*: 0, a divisor, a multiple, and a number that changes on the wire.
*jansson*: three pairs force a rehash from the first table; three addresses are a container, a
container in it and a leaf, or a circle; with any single malloc failing, and each argument in turn
NULL or not UTF-8, each error path is taken;
texts are short because an edited document has the depth that short texts lack.

Deadlock is not checked where calls, packets or time are bounded or a process may end
(`CHECK_DEADLOCK FALSE`): a cluster whose clients have used up their calls, or wait for a lost reply,
stops; so does a crashed server, a sender that has sent `MaxSeqNo` packets, and a function that has
been called.

### Fairness

* `dht_calls`: a node finishes its start-up; every datagram is read, as the loop
  never ends and the kernel queues datagrams (weak fairness per origin, the finest grain the code
  justifies: a client or node never has two in flight that compete for ever); a client reads its
  reply.  No loss in this run: under loss the code promises nothing, it never repeats anything.
* `gateway`: `select` reports every connection with input, so each connection's callback runs
  again and again (strong fairness, because another callback may block the thread in between), and
  the DHT answers (`OddFairness` in `MCGateway`).  `Begin` and `Abort` belong to the HTTP clients and
  are not fair.
* `transfers`: scheduled events of a discrete-event simulation happen, and processes that share a TCP
  connection take their turns.  Data packets are damaged
  independently, so one that arrives again and again arrives intact (strong fairness).
  Acknowledgements get no such promise.  As time is abstracted, a timer could always expire before
  the window is sent; the properties say so and assume that the window is sent again and again
  (`[]<>WindowSent`).
* `simulator`: events of the simulation happen (weak fairness of handling a notification and of
  receiving a packet).  Users change costs and send pings as they like.
* `servers`: nodes and servers are loops that read what arrives, blocked clients read their replies; a
  gcd client that has connected goes on and sends, unless it is a silent one (`Fairness` of `Ring` and `Gcd`,
  `ClientFairness`, put together in `PartsSpec`).  Datagrams may be lost in `Ring`, `HashClient` and
  `Gcd`, and the properties exclude just those (`lost`, `pairLost`, `dropped`).

### What the code does that one may not expect

The violation runs are listed as findings.  More limits are stated as properties that hold:

* `OthersNeverReturn` (with `CallsReturn` of `dht_calls`): a call returns exactly when its answer
  meets the slot.  The short cut applies to answers too, so an answer may jump over the entry node and
  circle for ever; so does every answer that travels if the client's address ends in a byte >= 128.
* `StuckWithBoth` (with `Delivered`): the receiver ignores old packets, so when every
  acknowledgement of a window is lost, the sender repeats that window for ever.  That is the only
  way for the protocol to stop.
* `RepliesAreAnswers`: with the offsets of the usage text (42/hashServer.c:507) and of the cluster
  script, nobody stores the hashes 192 to 195.  Such a request may come back to its entry node, which
  returns it to the client as it was sent.
* `OneBehind` (with `FileCompleted`): the file receiver acknowledges the packet it has
  where the sender expects the next one's number.  The sender forgets nothing too early, but it never
  learns that the last packet has arrived, and it repeats for ever once the receiver is silent.
* `ImplementsQueue`: resetting the timers of a full buffer does nothing.
* `HomeAfterLaps`: in a ring of odd size an answer passes its entry node unrecognised and goes
  round a second time, as its port reads backwards on the first lap.
* `ResultsExplained`: the client of 41 and 42 reports a failure for every call, as it expects lower-case
  replies; the one of 31 takes a doubled reply for that of a later call, and stays one behind.
* `ClientEnds`: the client of 31 waits for ever for its second reply when it talks to a node, as it
  sends to the socket that the first reply came from.
* `ClientsServed`: one client that connects to the server of block 20 and sends nothing ends its
  service, for TCP and UDP.
* `OddRequestsAnswered`: a GET or DELETE without a key ends the gateway.  After a failed receive the
  gateway reads its own request as the reply, so that a POST is answered with 201.
* `GcdKnown`: block 20 never tries the divisors from half of the second number on; block 31 is
  wrong if a number is 0 on the wire.  It serves one client and ends, as does the server of 61.
* `DelayMeasured`: the sign of a delay between -1 second and 0 is lost, and a clock that is set
  during the exchange is measured as delay.
* `RoutesShortest`: a node that cannot be reached ends the simulation with an assertion.
* `PingsAnswered`: a packet whose route changes may come back and exceed its TTL; nothing repeats it.
* `QueueExact`: the assertion of `detectBatch` fails if the transient phase is longer than a batch.
* `ProgramsRegistered`, `MessagesWhole`: entries of deleted modules stay in `applByModule`, where a
  new module at the same address replaces them; ports that are equal modulo nodes times applications
  end the simulation; a message that comes in pieces puts its stream out of step.
* `ImplementsObject`: when the new buckets of a rehash cannot be had, the table has none and a
  later call crashes (hashtable.c:153).
* `ValuesCounted`: cycles are never freed; `json_deep_copy` without memory returns the part that it has
  copied (value.c:631), where doc/apiref.rst:1523 says NULL.
* `RoundTrip`: a refusal while a key is written is ignored (dump.c:344 and 382): the call succeeds,
  the text is `torn`.
* `TextAccepted`: a NUL behind a number or a word is not noticed (`stream_unget` loses it, load.c
  214-230), so `json_loadb` accepts it; an escaped NUL in a key is refused even with
  `JSON_ALLOW_NUL`; the error of a load callback is taken for the end of the text.
* `PackedAndUnpacked`: a string that is put together is lost with its buffer when memory ends,
  or written to address 0 (pack_unpack.c:160).

## 4. Proofs

| Module | Theorems about | Property of a run proved for all constants |
|---|---|---|
| `HashTableProofs` | `HashTable` | `KeysDistinct`, `ImplementsDictionary` |
| `DHTProofs` | `DHT` | `RequestTracked`, `RepliesAreAnswers`, `OthersNeverReturn`, `QueryApproaches`, `VanishesOnlyEarly`, `ImplementsService` |
| `ServersProofs` | `Ring`, `HashClient`, `TimeSync` | `HomeAfterLaps`, `ResultsExplained`, `DelayMeasured` |
| `HttpGatewayProofs` | `HttpGateway` | `ImplementsService` |
| `FileTransferProofs` | `GoBackN`, `FileTransfer` | `AssertsHold`, `NeverAsleep`, `ImplementsWindow`, with either receiver; `OneBehind`, `StuckWithBoth` |
| `SimulatorProofs` | `DataBuffer`, `InterfaceQueue`, `SocketScheduler` | `ImplementsQueue`, `QueueExact`, `ProgramsRegistered`, `MessagesWhole` |
| `JsonSeedProofs` | `JsonSeed` | `OneSeed` |

`HashChainProofs` holds the lemmas about one bucket that the first two need: what `hashGet` finds in
a good list, and that `hashSet` and `hashDel` keep lists good and change the value of no other key.

`HashTableProofs` (for all keys, values, offsets and malloc contents):

* `TypeCorrect`, `ListsWellFormed`: the inductive invariant says that every bucket is `Good`: a
  non-empty sequence of nodes in which only the last may be empty and no key but 0 is live
  twice.  `OnlyLastEmpty` and `KeysDistinct` are not inductive without each other: that the walk
  of `hashSet` sees every live node needs the first, that it appends at the end the second.
* `RefinesDictionary`: if key 0 is not used, every operation is one of the dictionary's.  On a good
  list a key's value is that of its one live node (`GetFinds`), so it is enough to say what
  `SetGood` and `DelGood` do to the live nodes of each key.  The premise is needed: see
  `hash_table_key_zero`.

`DHTProofs` (for any number of nodes with any offsets, any keys, values, clients and number of slots):

* `NoStaleReply`: `TypeOK` and `AllTracked` are inductive together.  `Tracked` says of one client
  that it has at most one datagram and at most one slot, that both carry the key of its call, that
  the slot is at the entry node, and that the datagram is an internal one exactly while the slot is
  taken.  An answer therefore meets a slot with its own call in it or none.  `NodeStep` puts the
  loop of a node into one form (what is consumed, what is sent, which slot changes), and `SlotFound`
  says what `searchRequestId` returns; everything below is proved of that form.
* `ShortCutsRight`: with `SearchesRight` (where an exchange of addresses can be at each of its
  steps), a node knows its successor's successor or nobody.  That a query which goes there comes
  nearer to the node with its key needs `InRingOrder`, as do the next two.
* `RepliesRight` and `QueriesApproach` need `Near`: a query that has been passed on is nearer to the
  node with its key than its entry node, so it cannot come home unanswered.  Their premise
  `InRingOrder` says that the short cut is not taken when the next node has the key.  It is not a
  theorem: with offsets that are not in the order of the ring, the comparison of
  `shouldFastForwardQuery` jumps over the owner.
* `OnlyReachableReturn`: `Reachable` follows an answer from the owner of the key over the short cuts.
  `Route` is the least set of nodes that contains the first hop and is closed under hops, so that
  nothing has to be said about the length of a path; `OnRoute` says that an answer is on the route
  of its owner, and a query for a key without an owner on that of its entry node.  A reply therefore
  belongs to a client whose entry node is on the route, and whose address was recognised there.
* `SlotsSuffice`: no slot is overrun if there are no more clients than slots, as a client has one at
  most; the ten slots of the code serve ten clients.  `CallsKept` uses it: then, and without loss, a
  call vanishes only where a short cut is not known.
* `RefinesService`: the abstract dictionary maps a key to what its owner's bucket says of it.  Lists
  stay good (`HashChainProofs`), `Matched` ties a datagram to the call it carries and an
  answered one to `answer`, and an operation of the owner is the call's one effect (`Executes`).
  Premises: `InRingOrder`; every key has one owner (`Covered`: the offsets of the cluster script
  leave four hashes to nobody); key 0 is not in use (see `hash_table_key_zero`).  `dht_service`
  checks an instance that satisfies all three, and TLC evaluates them there.

`ServersProofs`, about `Ring` (for any number of nodes, slots and calls, and all clients):

* `DatagramsComeHome`: of each client at most one datagram is in flight, as a request, a reply, or an
  internal datagram that is `OnWay` from the one slot of its client.  `OnWay` ties together the
  number of hops, the distance from the entry node, whether the port is reversed, and whether a
  table has answered: the query is still active exactly while it has not come by an owner.  An answer
  is recognised when its hops are a whole number of laps and even, which in a ring of odd size
  is the second lap.

`ServersProofs`, about `HashClient` (for any pairs that `rand()` may give, any number of doubled datagrams):

* `ResultsAreExplained`: `OwnReplies` says that a socket per call takes replies to its own call.  Without
  doubled datagrams, `CallsInOrder` says where the one datagram is (`OnItsWay`), what it
  carries, and that the table is what the calls up to it have made of it: `HeldKeys` is the set of
  keys with a pair that has been set and none that has been deleted, and each has the value of the
  first pair with it (`StoreIs`).

`ServersProofs`, about `TimeSync` (for every length of a second, number of clients and set of clock errors above
-100 seconds):

* `DelayIsMeasured`: `Add`, `Subtract` and `calcDelay` are those of integers (`Shows`), with a carry
  and a borrow at most; `Measures` says which sign is lost.  The invariant follows the four
  readings: until a clock is set, they differ from true time by the two skews, which cancel.

`HttpGatewayProofs` (for any number of connections, peers, keys, values and bodies):

* `GatewayImplementsService`: HTTP clients and the gateway's peers together see one linearizable
  dictionary.  `Parsed` says that the globals hold what the pieces so far of the only POST have
  given, `Blocked` that the call of the gateway is the one its blocked request asks for, `Replied`
  that an answer is one to that call.  The effect of a call is that of the DHT; a call returns when
  its response is sent.
* Its premise `Calm` says: one connection posts, bodies are complete, every URL has a key, every key
  has an owner and nothing fails.  `gateway_overlap` drops the first of these, `gateway_refused` the
  last but one; `gateway` evaluates the premise for its instance.
* `GatewayIsHonest`: under the same premise, a status that says success is true and fields are
  one's own, which are the two properties that the violation runs refute without it.

`FileTransferProofs`, about `GoBackN` (for every window, with and without rejects, whatever is lost):

* the inductive invariant `IInv` adds to the type and `NeverAsleep`: the buffer is an interval
  from `lastAckSeqNo` that is no longer than the window and contains (or ends at) what the receiver
  expects (`BufferInv`); a packet is due only with room in the window (`RoomInv`);
  acknowledgements on their way are ordered and between what the sender and the receiver know
  (`AcksInv`); what was sent since the last go-back has a finite timeout (`TimeoutInv`).  One lemma
  per action shows that it is kept.
* `TypeCorrect`, `AlwaysScheduled`, `NoAssertionFails` (of those that are in the model) and
  `RefinesWindow` follow.

`FileTransferProofs`, about `FileTransfer` (for every window, file length and bound, with either receiver):

* `TransferInvariance`: `IInv` of the sender also holds with the receiver outside.  It takes three
  more parts: types and an unused socket in the other case (`SocketInv`); what the proxy has passed
  on was sent (`InboxInv`); acknowledgements are ordered all the way from the receiver through
  socket and network to the sender, and none is past what has been written (`OutboxInv`).  A step of
  the simulated receiver is that of `GoBackN`, so its lemmas are reused as they are.
* `NoTransferAssertionFails`, `TransferScheduled` and `StaysBehind` (`OneBehind`) follow, and so does
  `TransferRefinesWindow`: a receiver that acknowledges one number too few releases packets later,
  never earlier, than the sliding window allows.
* `RepeatsForEver`: `Stuck`, with nothing in `outbox`, is itself kept by every step, as an old packet
  is answered by nobody.

`SimulatorProofs`, about `DataBuffer` (for every number of slots):

* `RingInvariant`: `freeIndex` lies `count` places behind `firstIndex`, and the places between them hold
  consecutive numbers.  `PlaceIs`, `PlacesDiffer` and `PlacesAdd` are the modular arithmetic of
  the ring, stated once.
* `RingIsQueue`: `Put` appends, `Free` drops from the front, `Arm` and `resetTimers` change the packets
  held and no others; `QueueIs` says that lookup by number and position in the queue agree.

`SimulatorProofs`, about `InterfaceQueue` (for all queue lengths, phases, batches and durations, without a
bound on time):

* `QueueIsExact`: the inductive invariant `IInv` adds to the type and `StatisticsExact` that a
  pending timeout is the end of the transmission and is not past, that one is pending while the
  link is busy or a packet waits (`LinkInv`), and that no batch is recorded in the transient phase
  (`PhaseInv`).  `DetectResult` says what `detect` does: it ends the phase, or a batch, or nothing.
  Whatever it ends, the intervals up to now have been collected (`Settled`), so that what it records
  is the truth, and what it resets begins anew with it (`DetectionKeeps`).

`SimulatorProofs`, about `SocketScheduler` (for all ports, nodes, internal applications and modules, any
number of programs and messages):

* `ProgramsAreRegistered`: each connected program stands where its port says in all registries
  (`Registered`), and an address holds the internal application or a program that belongs there
  (`Occupied`), so that nobody's entry is overwritten although entries of deleted modules stay.  A
  refused program therefore has an address in common with another one, and then their ports differ
  by a multiple of applications times nodes (`SameAddress`, modular arithmetic with a lemma for each
  rule of it).
* `MessagesAreWhole`: while the messages of a program are whole, its stream begins with a message, and
  what it has sent is delivered, waits in the event queue or is still in the stream (`Accounted`).
  An application goes with an empty stream, or after a message in pieces (`LeftWhole`), and never
  with an event waiting, as sockets are asked only when none does (`EventsExist`).

`JsonSeedProofs` (for every set of threads and of seeds, both kinds of atomic builtins):

* `SeedIsOne`: with `__atomic` builtins at most one thread is on its way to set the seed, the one
  that claimed the flag, and there is one while the flag is set and the seed is not (`ClaimInv`), so
  nobody waits in vain.  With `__sync` builtins all threads generate, and the compare-and-swap lets
  the first one win; who loses finds the seed there (`SwapInv`).  Either way an object is made
  under the seed that then never changes (`SeedInv`).

Assumptions are the named ASSUMEs of the modules, or premises of the theorems that the MC modules
assume of their instances; TLC evaluates all of them in the runs.

Only model-checked:

* all liveness (`CallsReturn`, `FingersLearned`, `Delivered`, `FileCompleted` and those of the other
  runs): fairness and ENABLED are out of the prover's reach;
* what recursive operators and functions compute for every input, which takes induction over data:
  `RoutesShortest` (rounds of Dijkstra against paths of more and more hops), `GcdKnown` (the loops against
  Euclid's algorithm), `ArgumentsKept`, `RoundTrip`, `TextAccepted`, `PackedAndUnpacked`, and
  `ImplementsObject` and `ValuesCounted`, whose rehashes and releases walk lists and graphs
  recursively.  The types and
  steps around them (`Network`, `Gcd`, `Parser`) have no property of their own that a theorem would
  say more about than these runs do.

## 5. What is left out of the models

* Text output, argument parsing, creation of sockets, the wire format of HTTP, the simulator's clock
  and graphics.  The memory in front of `openClientRequests` is not modelled.  In `DHT` the
  next pointer of a new list node is zero (`HashTable` has the other case), and a datagram sent to a
  node that has not opened its socket is kept until it has.
* In `HttpGateway`, a response that libmicrohttpd cannot allocate (`send_page` returns MHD_NO).
* The file sender's missing core, and with it the proxy's direction from an external sender.
* `calcOffset` of block 61, which uses `%` on a double and does not compile.
* In the simulator: alert flags, which no application sets, other metrics than the cost, output
  vectors, counters and the histogram of the queue, commands of the shell.  A message in pieces at the
  file receiver itself (80/src/GoBackNReceiver.c:166).
* In jansson: texts and positions of errors, the hash function, conversions of numbers by the C
  library beyond their ranges, growth of the scanner's buffer (whose failure load.c:238 ignores),
  `json_object_update` with an `other` that the program does not own, and the variant of the seed
  without atomic builtins, whose race its own comment declares.
* HTTP and weather clients: 21 and 52 send one request and wait for ever (52 over UDP), 32 repeats it
  until a temperature above 0 comes back.  Generated messages, evaluation scripts, libmicrohttpd
  and Tcl/Tk.

## 6. Plan

1. *(done)* hash tables, DHT of 41 and 42, gateway, Go-Back-N, file receiver, packet buffer,
   clients and small servers, the parts of ProtSim, jansson, with the proofs above.
2. *(done)* theorems about every safety invariant and refinement of the runs that does not rest on
   induction over data.
3. A datagram to a port without a listener at start-up; a stream out of step at the file receiver.
