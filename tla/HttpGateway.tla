----------------------------- MODULE HttpGateway -----------------------------
(***************************************************************************)
(* The REST gateway of 51/block5.c: an HTTP server (libmicrohttpd, one     *)
(* thread) that turns GET, POST and DELETE requests into calls of the DHT. *)
(*                                                                         *)
(* libmicrohttpd calls answer_to_connection several times per request:     *)
(* once when the request begins, for a POST once per piece of its body,    *)
(* and once at its end.  Callbacks of several connections alternate, and   *)
(* all of them parse a body into the same global key and value.  The last  *)
(* callback calls the DHT and blocks the only thread until the reply.      *)
(*                                                                         *)
(* The DHT is the one of KeyValueService.  The gateway is one of its       *)
(* clients, Peers are others.  A call that the gateway gives up because    *)
(* recvfrom fails goes on as one of Orphan, whose answer nobody hears.     *)
(***************************************************************************)
EXTENDS Integers, Sequences

CONSTANTS
  Conns,      \* HTTP connections
  Posters,    \* those of them that send POST requests
  Peers,      \* other clients of the DHT
  Keys,       \* 16-bit keys of the DHT
  Values,     \* 16-bit values of the DHT
  Paths,      \* what follows the API name in the URL of a GET or a DELETE
  Methods,    \* methods of the requests without a body
  Bodies,     \* bodies of POST requests: sequences of Pieces
  Unowned,    \* keys that no node of the DHT stores
  Failures    \* what may fail: to "begin" a request, to "send", to "receive"

\* what iterate_post gets: (a part of) a field, fits: of 1 to MAXNAMESIZE bytes
Pieces == [field : {"key", "value", "other"}, num : Int, fits : BOOLEAN]

\* packData keeps 16 bits of a number
UInt16 == 0..65535

Wire(num) == num % 65536

Gateway == "gateway"

Orphan == "orphan"

Callers == Peers \cup {Gateway, Orphan}

NoConn == "no connection"

Crashed == "crashed"

ASSUME HttpGatewayAssumption ==
  /\ {Gateway, Orphan} \cap Peers = {}
  /\ {NoConn, Crashed} \cap Conns = {} /\ Peers \cap Conns = {}
  /\ Posters \subseteq Conns
  /\ Keys \subseteq UInt16
  /\ Values \subseteq UInt16
  /\ Paths \subseteq Seq(Int)
  /\ Methods \cap {"POST", "none"} = {}
  /\ Unowned \subseteq Keys
  /\ Bodies \subseteq Seq(Pieces)
  /\ Failures \subseteq {"begin", "send", "receive"}

VARIABLES
  request,    \* connection -> the request being processed (its con_info), or NoRequest
  rest,       \* connection -> the pieces of its body still to come
  fields,     \* the globals key, keySet, value and valueSet
  waiting,    \* the connection whose callback is blocked in rpcCall, NoConn while
              \* there is none, Crashed when the process has died
  response,   \* connection -> its last response, and the request it is for
  store, call, answer, last  \* of the DHT

httpVars == <<request, rest, fields, waiting, response>>
dhtVars == <<store, call, answer, last>>
vars == <<httpVars, dhtVars>>

DHT == INSTANCE KeyValueService WITH Clients <- Callers

------------------------------------------------------------------------------
(* Requests and responses *)

NoRequest == [method |-> "none", url |-> <<>>, body |-> <<>>]

Requests(c) ==
  [method : Methods \ {"GET", "DELETE"}, url : {<<>>}, body : {<<>>}]
  \cup [method : Methods \cap {"GET", "DELETE"}, url : Paths, body : {<<>>}]
  \cup [method : {"POST"}, url : {<<>>}, body : IF c \in Posters THEN Bodies ELSE {}]

\* the status of a connection that is closed without a response
Closed == -1

\* The first callback allocates the connection's con_info.
Begin(c, r) ==
  /\ waiting = NoConn
  /\ request[c] = NoRequest
  /\ request' = [request EXCEPT ![c] = r]
  /\ rest' = [rest EXCEPT ![c] = r.body]
  /\ UNCHANGED <<fields, waiting, response, dhtVars>>

\* There is no memory for it, or no post processor: the callback returns MHD_NO.
Decline(c, r) ==
  /\ "begin" \in Failures
  /\ waiting = NoConn
  /\ request[c] = NoRequest
  /\ response' = [response EXCEPT ![c] = [status |-> Closed, value |-> 0, to |-> r]]
  /\ UNCHANGED <<request, rest, fields, waiting, dhtVars>>

\* request_completed after the client has gone: what it uploaded stays
Abort(c) ==
  /\ waiting = NoConn
  /\ request[c] # NoRequest
  /\ request' = [request EXCEPT ![c] = NoRequest]
  /\ rest' = [rest EXCEPT ![c] = <<>>]
  /\ UNCHANGED <<fields, waiting, response, dhtVars>>

\* send_page, and request_completed
Respond(c, status, value) ==
  /\ request' = [request EXCEPT ![c] = NoRequest]
  /\ response' = [response EXCEPT ![c] =
                    [status |-> status, value |-> value, to |-> request[c]]]
  /\ UNCHANGED rest

------------------------------------------------------------------------------
(* The body of a POST *)

iterate_post(p) ==
  fields' = CASE p.field = "key" /\ p.fits ->
                   [fields EXCEPT !.key = p.num, !.keySet = TRUE]
              [] p.field = "value" /\ p.fits ->
                   [fields EXCEPT !.value = p.num, !.valueSet = TRUE]
              [] OTHER -> fields

\* mutant: *upload_data_size is not set to 0
UploadAgain(c) ==
  /\ waiting = NoConn
  /\ rest[c] # <<>>
  /\ iterate_post(Head(rest[c]))
  /\ UNCHANGED <<request, rest, waiting, response, dhtVars>>

\* A piece that does not fit makes the post processor ignore the rest.
Upload(c) ==
  LET p == Head(rest[c])
  IN  /\ waiting = NoConn
      /\ rest[c] # <<>>
      /\ iterate_post(p)
      /\ rest' = [rest EXCEPT ![c] =
                    IF p.fits \/ p.field = "other" THEN Tail(rest[c]) ELSE <<>>]
      /\ UNCHANGED <<request, waiting, response, dhtVars>>

------------------------------------------------------------------------------
(* Calls of the DHT *)

ERROR == -1
NOT_FOUND == -2

\* mutant: a DELETE of a missing key is not told apart
rpcResultNoNof(cmd, a) ==
  CASE cmd = "set" -> IF a.cmd = "OK!" THEN 1 ELSE ERROR
    [] cmd = "get" -> IF a.cmd = "VAL" THEN a.value
                      ELSE IF a.cmd = "NOF" THEN NOT_FOUND ELSE ERROR
    [] cmd = "del" -> 0

\* what rpcCall makes of a reply
rpcResult(cmd, a) ==
  CASE cmd = "set" /\ a.cmd = "OK!" -> 1
    [] cmd = "get" /\ a.cmd = "VAL" -> a.value
    [] cmd = "del" /\ a.cmd = "OK!" -> 0
    [] cmd \in {"get", "del"} /\ a.cmd = "NOF" -> NOT_FOUND
    [] OTHER -> ERROR

\* the response to the result of a call; any result of hashSet but 0 counts as true
Answer(c, result) ==
  LET method == request[c].method
  IN  \/ method = "POST" /\ result # 0 /\ Respond(c, 201, 0)
      \/ method = "POST" /\ result = 0 /\ Respond(c, 500, 0)
      \/ method = "GET" /\ result >= 0 /\ Respond(c, 200, result)
      \/ method = "DELETE" /\ result >= 0 /\ Respond(c, 200, 0)
      \/ method # "POST" /\ result = NOT_FOUND /\ Respond(c, 404, 0)
      \/ method # "POST" /\ result < 0 /\ result # NOT_FOUND /\ Respond(c, 500, 0)

\* rpcCall sends a datagram and blocks in recvfrom, or returns 0 at once
rpcCall(c, cmd, k, v) ==
  \/ /\ DHT!Call(Gateway)
     /\ call' = [call EXCEPT ![Gateway] =
                   [cmd |-> cmd, key |-> Wire(k), value |-> Wire(v)]]
     /\ waiting' = c
     /\ UNCHANGED <<request, rest, response>>
  \/ /\ "send" \in Failures
     /\ Answer(c, 0)
     /\ UNCHANGED <<waiting, dhtVars>>

\* the last callback of a request; strtok finds no key in some URLs, and atoi(NULL) crashes
Finish(c) ==
  /\ waiting = NoConn
  /\ request[c] # NoRequest
  /\ rest[c] = <<>>
  /\ \/ /\ request[c].method \in {"GET", "DELETE"}
        /\ request[c].url = <<>>
        /\ waiting' = Crashed
        /\ UNCHANGED <<request, rest, fields, response, dhtVars>>
     \/ /\ request[c].method = "GET"
        /\ request[c].url # <<>>
        /\ rpcCall(c, "get", Head(request[c].url), 0)
        /\ UNCHANGED fields
     \/ /\ request[c].method = "DELETE"
        /\ request[c].url # <<>>
        /\ rpcCall(c, "del", Head(request[c].url), 0)
        /\ UNCHANGED fields
     \/ /\ request[c].method = "POST"
        /\ fields.keySet /\ fields.valueSet
        /\ fields' = [fields EXCEPT !.keySet = FALSE, !.valueSet = FALSE]
        /\ rpcCall(c, "set", fields.key, fields.value)
     \/ /\ request[c].method = "POST"
        /\ ~(fields.keySet /\ fields.valueSet)
        /\ Respond(c, 400, 0)
        /\ UNCHANGED <<fields, waiting, dhtVars>>
     \/ /\ request[c].method \notin {"GET", "DELETE", "POST"}
        /\ Respond(c, 404, 0)
        /\ UNCHANGED <<fields, waiting, dhtVars>>

\* the reply arrives and the callback goes on
Receive ==
  /\ waiting \in Conns
  /\ DHT!Return(Gateway)
  /\ Answer(waiting, rpcResult(call[Gateway].cmd, answer[Gateway]))
  /\ waiting' = NoConn
  /\ UNCHANGED fields

\* recvfrom returns -1, and the callback goes on with the request that the buffer still
\* holds; the DHT may execute the call later (bound: one such call at a time)
ReceiveFails ==
  /\ "receive" \in Failures
  /\ waiting \in Conns
  /\ call[Orphan] = DHT!Idle
  /\ call' = [call EXCEPT ![Orphan] = call[Gateway], ![Gateway] = DHT!Idle]
  /\ answer' = [answer EXCEPT ![Orphan] = answer[Gateway], ![Gateway] = DHT!Idle]
  /\ Answer(waiting, rpcResult(call[Gateway].cmd, call[Gateway]))
  /\ waiting' = NoConn
  /\ UNCHANGED <<fields, store, last>>

------------------------------------------------------------------------------
(* The DHT: a call for a key without an owner comes back as it was sent *)

Execute(d) ==
  /\ call[d].key \notin Unowned
  /\ DHT!Execute(d)
  /\ UNCHANGED httpVars

Refuse(d) ==
  /\ call[d] # DHT!Idle
  /\ answer[d] = DHT!Idle
  /\ call[d].key \in Unowned
  /\ answer' = [answer EXCEPT ![d] =
       [call[d] EXCEPT !.cmd = CASE call[d].cmd = "set" -> "SET"
                                 [] call[d].cmd = "get" -> "GET"
                                 [] call[d].cmd = "del" -> "DEL"]]
  /\ UNCHANGED <<store, call, last, httpVars>>

Peer(d) == (DHT!Call(d) \/ DHT!Return(d)) /\ UNCHANGED httpVars

\* the answer to a call that the gateway has given up finds its socket closed
Unheard == DHT!Return(Orphan) /\ UNCHANGED httpVars

------------------------------------------------------------------------------
NoResponse == [status |-> 0, value |-> 0, to |-> NoRequest]

Init ==
  /\ request = [c \in Conns |-> NoRequest]
  /\ rest = [c \in Conns |-> <<>>]
  /\ fields = [key |-> 0, keySet |-> FALSE, value |-> 0, valueSet |-> FALSE]
  /\ waiting = NoConn
  /\ response = [c \in Conns |-> NoResponse]
  /\ DHT!Init

Next ==
  \/ \E c \in Conns :
       \/ \E r \in Requests(c) : Begin(c, r) \/ Decline(c, r)
       \/ Upload(c)
       \/ Finish(c)
       \/ Abort(c)
  \/ Receive
  \/ ReceiveFails
  \/ Unheard
  \/ \E d \in Callers : Execute(d) \/ Refuse(d)
  \/ \E d \in Peers : Peer(d)

Spec == Init /\ [][Next]_vars

------------------------------------------------------------------------------
(* Properties *)

\* the number a body gives for a field; 0 without one
Given(body, field) ==
  LET at == {i \in DOMAIN body : body[i].field = field}
  IN  IF at = {} THEN 0 ELSE body[CHOOSE i \in at : \A j \in at : j <= i].num

\* the call of the DHT that a request asks for
Asked(r) ==
  CASE r.method = "GET" -> [cmd |-> "get", key |-> Wire(Head(r.url)), value |-> 0]
    [] r.method = "DELETE" -> [cmd |-> "del", key |-> Wire(Head(r.url)), value |-> 0]
    [] r.method = "POST" -> [cmd |-> "set", key |-> Wire(Given(r.body, "key")),
                             value |-> Wire(Given(r.body, "value"))]

\* the answer of the DHT that a response stands for
Told(resp) ==
  LET q == Asked(resp.to)
      is(cmd, v) == [cmd |-> cmd, key |-> q.key, value |-> v]
  IN  CASE resp.status = 0 -> DHT!Idle
        [] resp.status = 404 -> is("NOF", q.value)
        [] resp.status = 201 -> is("OK!", q.value)
        [] resp.status = 200 /\ resp.to.method = "GET" -> is("VAL", resp.value)
        [] resp.status = 200 /\ resp.to.method = "DELETE" -> is("OK!", q.value)
        [] resp.status \in {Closed, 400, 500} -> is("ERR", q.value)

\* No two POSTs overlap, every body is complete, every URL has a key, the DHT takes and
\* answers all calls, and nothing fails.
\* (Premises of the theorem that the gateway implements the service.)
Calm ==
  /\ \A p, q \in Posters : p = q
  /\ \A b \in Bodies :
       /\ \A i \in DOMAIN b : b[i].fits \/ b[i].field = "other"
       /\ \A field \in {"key", "value"} : \E i \in DOMAIN b : b[i].field = field
  /\ Methods \subseteq {"GET", "DELETE"}
  /\ <<>> \notin Paths
  /\ Unowned = {}
  /\ Failures = {}

\* Then (see Calm) the gateway passes the dictionary on: its HTTP clients, together
\* with the other clients of the DHT, see one linearizable dictionary.  An HTTP client's
\* call is the one its own request asks for, and its answer the one its response stands
\* for.
Service ==
  INSTANCE KeyValueService WITH
    Clients <- Peers \cup Conns,
    call <- [d \in Peers \cup Conns |->
               IF d \in Peers THEN call[d]
               ELSE IF d = waiting THEN Asked(request[d]) ELSE DHT!Idle],
    answer <- [d \in Peers \cup Conns |->
                 IF d \in Peers THEN answer[d]
                 ELSE IF d = waiting THEN answer[Gateway] ELSE DHT!Idle],
    last <- [d \in Peers \cup Conns |->
               IF d \in Peers THEN last[d] ELSE Told(response[d])]

ImplementsService == Service!Spec

\* A GET or DELETE without a key has killed the process.
Killed ==
  /\ waiting = Crashed
  /\ \E c \in Conns : request[c].method \in {"GET", "DELETE"} /\ request[c].url = <<>>

\* Every request is answered, whatever other connections do and whatever fails, as long as
\* the DHT answers the gateway, unless a request without a key kills it.
RequestsAnswered ==
  \A c \in Conns : (request[c] # NoRequest) ~> (request[c] = NoRequest \/ Killed)

\* A 200 or 201 that answers a call is sent only when the DHT has carried it out.
SuccessIsReal ==
  [][\A c \in Conns :
       /\ response'[c] # response[c]
       /\ response'[c].status \in {200, 201}
       => answer[Gateway].cmd \in {"OK!", "VAL"}]_vars

\* The call made for a POST is the one its own body asks for.
OwnFields ==
  waiting \in Conns => call[Gateway] = Asked(request[waiting])
==============================================================================
