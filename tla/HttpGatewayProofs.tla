-------------------------- MODULE HttpGatewayProofs --------------------------
(***************************************************************************)
(* Proofs about HttpGateway, for all connections, requests, keys and       *)
(* values, while its premise Calm holds.                                   *)
(***************************************************************************)
EXTENDS HttpGateway, WellFoundedInduction, TLAPS

Idle == DHT!Idle

Users == Callers

\* what answers call q
Answers(q) ==
  {[cmd |-> cmd, key |-> q.key, value |-> q.value] :
     cmd \in IF q.cmd = "set" THEN {"OK!"}
            ELSE IF q.cmd = "get" THEN {"NOF"} ELSE {"OK!", "NOF"}}
  \cup {[cmd |-> "VAL", key |-> q.key, value |-> v] :
          v \in IF q.cmd = "get" THEN Values ELSE {}}

TypeOK ==
  /\ DOMAIN request = Conns
  /\ \A c \in Conns : request[c] \in Requests(c) \cup {NoRequest}
  /\ rest \in [Conns -> Seq(Pieces)]
  /\ fields \in [key : Int, keySet : BOOLEAN, value : Int, valueSet : BOOLEAN]
  /\ waiting \in Conns \cup {NoConn, Crashed}
  /\ DOMAIN response = Conns
  /\ store \in [Keys -> Values \cup {-1}]
  /\ call \in [Users -> DHT!Calls \cup {Idle}]
  /\ DOMAIN answer = Users
  /\ DOMAIN last = Users

\* piece i is the last one of its field among the first n of a body
LastOf(body, field, n, i) ==
  /\ i \in 1..n
  /\ body[i].field = field
  /\ \A j \in (i + 1)..n : body[j].field # field

\* the number of pieces of its body that a connection has parsed
Done(c) == Len(request[c].body) - Len(rest[c])

\* The globals hold what the pieces so far of the only POST have given.
Gathered(c) ==
  \A i \in 1..Done(c) :
    LET b == request[c].body
    IN  /\ LastOf(b, "key", Done(c), i) => fields.keySet /\ fields.key = b[i].num
        /\ LastOf(b, "value", Done(c), i) => fields.valueSet /\ fields.value = b[i].num

Parsed(c) ==
  /\ Done(c) >= 0
  /\ \A i \in 1..Len(rest[c]) : rest[c][i] = request[c].body[Done(c) + i]
  /\ c # waiting => Gathered(c)

\* The gateway's call is that of the request its thread is blocked for; it has given up
\* none, and runs.
Blocked ==
  /\ waiting # Crashed /\ call[Orphan] = Idle
  /\ IF waiting = NoConn THEN call[Gateway] = Idle
     ELSE /\ request[waiting] # NoRequest /\ rest[waiting] = <<>>
          /\ call[Gateway] = Asked(request[waiting])

\* Nobody has an answer without a call, and the gateway's is one to its call.
Replied ==
  /\ \A d \in Users : call[d] = Idle => answer[d] = Idle
  /\ answer[Gateway] # Idle => answer[Gateway] \in Answers(call[Gateway])

GInv == TypeOK /\ (\A c \in Conns : Parsed(c)) /\ Blocked /\ Replied

------------------------------------------------------------------------------
(* Types *)

\* What a request is, and how its body is typed.
LEMMA RequestIs ==
  ASSUME NEW c \in Conns, NEW r \in Requests(c) \cup {NoRequest}
  PROVE  /\ r.body \in Seq(Pieces)
         /\ r.body # <<>> => r.method = "POST" /\ c \in Posters /\ r.body \in Bodies
         /\ r.method = "POST" => r.body \in Bodies /\ c \in Posters
         /\ r.method \in {"GET", "DELETE"} => r.url \in Paths
<1>1. CASE r \in [method : Methods \ {"GET", "DELETE"}, url : {<<>>}, body : {<<>>}]
           \cup [method : Methods \cap {"GET", "DELETE"}, url : Paths, body : {<<>>}]
  <2>1. /\ r.method \in Methods /\ r.body = <<>>
        /\ r.method \in {"GET", "DELETE"} => r.url \in Paths
    BY <1>1
  <2> QED BY <2>1, HttpGatewayAssumption
<1>2. CASE r \in [method : {"POST"}, url : {<<>>}, body : IF c \in Posters THEN Bodies ELSE {}]
  <2>1. r.method = "POST" /\ r.body \in Bodies /\ c \in Posters
    BY <1>2
  <2> QED BY <2>1, HttpGatewayAssumption
<1>3. CASE r = NoRequest
  BY <1>3 DEF NoRequest
<1> QED BY <1>1, <1>2, <1>3 DEF Requests

\* What the head of a list of pieces is, and what its tail.
LEMMA Pieced ==
  ASSUME NEW s \in Seq(Pieces), s # <<>>
  PROVE  /\ Head(s) = s[1] /\ Head(s) \in Pieces
         /\ Tail(s) \in Seq(Pieces) /\ Len(Tail(s)) = Len(s) - 1
         /\ Len(s) \in Nat /\ Len(s) > 0
         /\ \A i \in 1..Len(Tail(s)) : Tail(s)[i] = s[i + 1]
OBVIOUS

\* The response is an entry of its connection, whose request is over.
LEMMA AnswerIs ==
  ASSUME NEW c \in Conns, NEW result, Answer(c, result)
  PROVE  \E status, value : Respond(c, status, value)
BY DEF Answer

\* A call to the service keeps the types of its variables, whoever makes it.
LEMMA ServiceTyped ==
  ASSUME TypeOK, NEW d \in Users, DHT!Call(d) \/ DHT!Execute(d) \/ DHT!Return(d)
  PROVE  /\ store' \in [Keys -> Values \cup {-1}]
         /\ call' \in [Users -> DHT!Calls \cup {Idle}]
         /\ DOMAIN answer' = Users
         /\ DOMAIN last' = Users
<1>1. CASE DHT!Call(d)
  BY <1>1 DEF TypeOK, DHT!Call
<1>2. CASE DHT!Execute(d)
  <2>1. call[d] \in DHT!Calls
    BY <1>2 DEF TypeOK, DHT!Execute, Idle
  <2>2. store' = DHT!Effect(call[d]) /\ DOMAIN answer' = Users /\ UNCHANGED <<call, last>>
    BY <1>2 DEF TypeOK, DHT!Execute
  <2>3. DHT!Effect(call[d]) \in [Keys -> Values \cup {-1}]
    BY <2>1 DEF TypeOK, DHT!Calls, DHT!Effect
  <2> QED BY <2>2, <2>3 DEF TypeOK
<1>3. CASE DHT!Return(d)
  BY <1>3 DEF TypeOK, DHT!Return, Idle
<1> QED BY <1>1, <1>2, <1>3

\* The initial state is typed.
LEMMA TypeInit == Init => TypeOK
<1>1. SUFFICES ASSUME Init PROVE TypeOK
  OBVIOUS
<1>2. /\ DOMAIN request = Conns
      /\ \A c \in Conns : request[c] \in Requests(c) \cup {NoRequest}
      /\ rest \in [Conns -> Seq(Pieces)]
      /\ waiting \in Conns \cup {NoConn, Crashed}
      /\ DOMAIN response = Conns
  <2>1. <<>> \in Seq(Pieces)
    OBVIOUS
  <2>2. rest \in [Conns -> Seq(Pieces)]
    BY <1>1, <2>1 DEF Init
  <2> QED BY <1>1, <2>2 DEF Init
<1>3. fields \in [key : Int, keySet : BOOLEAN, value : Int, valueSet : BOOLEAN]
  BY <1>1 DEF Init
<1>4. /\ store \in [Keys -> Values \cup {-1}]
      /\ call \in [Users -> DHT!Calls \cup {Idle}]
      /\ DOMAIN answer = Users
      /\ DOMAIN last = Users
  BY <1>1 DEF Init, DHT!Init, Users, Callers, Idle
<1> QED BY <1>2, <1>3, <1>4 DEF TypeOK

\* Every step keeps the types.
LEMMA TypeStep == TypeOK /\ [Next]_vars => TypeOK'
<1> SUFFICES ASSUME TypeOK, [Next]_vars PROVE TypeOK'
  OBVIOUS
<1> USE DEF TypeOK
<1>1. ASSUME NEW c \in Conns, NEW r \in Requests(c), Begin(c, r)
      PROVE  TypeOK'
  <2>1. r.body \in Seq(Pieces)
    BY RequestIs
  <2>2. rest' \in [Conns -> Seq(Pieces)]
    BY <1>1, <2>1 DEF Begin
  <2>3. /\ DOMAIN request' = Conns
        /\ \A cc \in Conns : request'[cc] \in Requests(cc) \cup {NoRequest}
    BY <1>1 DEF Begin
  <2> QED BY <1>1, <2>2, <2>3 DEF Begin, dhtVars
<1>2. ASSUME NEW c \in Conns, Upload(c)
      PROVE  TypeOK'
  <2>1. Head(rest[c]) \in Pieces /\ Tail(rest[c]) \in Seq(Pieces)
    BY <1>2, Pieced DEF Upload
  <2>2. rest' \in [Conns -> Seq(Pieces)]
    BY <1>2, <2>1 DEF Upload
  <2>3. fields' \in [key : Int, keySet : BOOLEAN, value : Int, valueSet : BOOLEAN]
    BY <1>2, <2>1 DEF Upload, iterate_post, Pieces
  <2> QED BY <1>2, <2>2, <2>3 DEF Upload, dhtVars
<1>3. ASSUME NEW c \in Conns, Abort(c)
      PROVE  TypeOK'
  <2>1. rest' = [rest EXCEPT ![c] = <<>>] /\ <<>> \in Seq(Pieces)
    BY <1>3 DEF Abort
  <2>2. /\ DOMAIN request' = Conns
        /\ \A cc \in Conns : request'[cc] \in Requests(cc) \cup {NoRequest}
    BY <1>3 DEF Abort
  <2> QED BY <1>3, <2>1, <2>2 DEF Abort, dhtVars
<1>4. ASSUME NEW c \in Conns, NEW status, NEW value, Respond(c, status, value)
      PROVE  /\ DOMAIN request' = Conns
             /\ \A cc \in Conns : request'[cc] \in Requests(cc) \cup {NoRequest}
             /\ rest' \in [Conns -> Seq(Pieces)]
             /\ DOMAIN response' = Conns
  <2>1. /\ request' = [request EXCEPT ![c] = NoRequest]
        /\ DOMAIN response' = DOMAIN response /\ rest' = rest
    BY <1>4 DEF Respond
  <2> QED BY <2>1
<1>12. ASSUME NEW c \in Conns, NEW r \in Requests(c), Decline(c, r)
       PROVE  TypeOK'
  BY <1>12 DEF Decline, dhtVars
<1>5. ASSUME NEW c \in Conns, NEW cmd, NEW k, NEW v, rpcCall(c, cmd, k, v),
             fields' \in [key : Int, keySet : BOOLEAN, value : Int, valueSet : BOOLEAN]
      PROVE  TypeOK'
  <2>1. CASE DHT!Call(Gateway) /\ waiting' = c /\ UNCHANGED <<request, rest, response>>
    BY <1>5, <2>1, ServiceTyped DEF Users, Callers
  <2>2. CASE Answer(c, 0) /\ UNCHANGED <<waiting, dhtVars>>
    BY <1>5, <2>2, <1>4, AnswerIs DEF dhtVars
  <2> QED BY <1>5, <2>1, <2>2 DEF rpcCall
<1>6. ASSUME NEW c \in Conns, Finish(c)
      PROVE  TypeOK'
  <2>1. fields' \in [key : Int, keySet : BOOLEAN, value : Int, valueSet : BOOLEAN]
    BY <1>6 DEF Finish
  <2>2. CASE \E cmd, k, v : rpcCall(c, cmd, k, v)
    BY <2>1, <2>2, <1>5
  <2>3. CASE (\E status, value : Respond(c, status, value)) /\ UNCHANGED <<waiting, dhtVars>>
    BY <2>1, <2>3, <1>4 DEF dhtVars
  <2>4. CASE waiting' = Crashed /\ UNCHANGED <<request, rest, fields, response, dhtVars>>
    BY <2>4 DEF dhtVars
  <2> QED BY <1>6, <2>2, <2>3, <2>4 DEF Finish
<1>7. CASE Receive
  <2>1. waiting \in Conns /\ DHT!Return(Gateway) /\ waiting' = NoConn /\ UNCHANGED fields
    BY <1>7 DEF Receive
  <2>2. \E status, value : Respond(waiting, status, value)
    BY <1>7, <2>1, AnswerIs DEF Receive
  <2> QED BY <2>1, <2>2, <1>4, ServiceTyped DEF Users, Callers
<1>13. CASE ReceiveFails
  <2>1. /\ waiting \in Conns /\ waiting' = NoConn /\ UNCHANGED <<fields, store, last>>
        /\ call' = [call EXCEPT ![Orphan] = call[Gateway], ![Gateway] = Idle]
        /\ DOMAIN answer' = Users
    BY <1>13 DEF ReceiveFails, Idle
  <2>2. \E status, value : Respond(waiting, status, value)
    BY <1>13, <2>1, AnswerIs DEF ReceiveFails
  <2>3. call' \in [Users -> DHT!Calls \cup {Idle}]
    BY <2>1 DEF Users, Callers
  <2> QED BY <2>1, <2>2, <2>3, <1>4
<1>14. CASE Unheard
  BY <1>14, ServiceTyped DEF Unheard, httpVars, Users, Callers
<1>8. ASSUME NEW d \in Users, Execute(d)
      PROVE  TypeOK'
  BY <1>8, ServiceTyped DEF Execute, httpVars
<1>9. ASSUME NEW d \in Users, Refuse(d)
      PROVE  TypeOK'
  BY <1>9 DEF Refuse, httpVars
<1>10. ASSUME NEW d \in Peers, Peer(d)
       PROVE  TypeOK'
  BY <1>10, ServiceTyped DEF Peer, httpVars, Users, Callers
<1>11. CASE UNCHANGED vars
  BY <1>11 DEF vars, httpVars, dhtVars
<1> QED
  BY <1>1, <1>2, <1>3, <1>6, <1>7, <1>8, <1>9, <1>10, <1>11, <1>12, <1>13, <1>14
  DEF Next, Users, Callers

------------------------------------------------------------------------------
(* The globals follow the one POST that is being received *)

\* A set of naturals has a least element.
LEMMA Least ==
  ASSUME NEW S, S \subseteq Nat, S # {}
  PROVE  \E x \in S : \A y \in S : x <= y
<1>1. \E x \in S : \A y \in S : ~(<<y, x>> \in OpToRel(<, Nat))
  BY NatLessThanWellFounded, WFMin
<1>2. PICK x \in S : \A y \in S : ~(<<y, x>> \in OpToRel(<, Nat))
  BY <1>1
<1>3. \A y \in S : x <= y
  <2>1. SUFFICES ASSUME NEW y \in S, ~(x <= y) PROVE FALSE
    OBVIOUS
  <2>2. x \in Nat /\ y \in Nat /\ y < x
    BY <2>1
  <2>3. <<y, x>> \in OpToRel(<, Nat)
    BY <2>2 DEF OpToRel
  <2> QED BY <2>3, <1>2
<1> QED BY <1>3

\* Of the pieces of a complete body some is the last one of a field.
LEMMA LastExists ==
  ASSUME NEW b \in Seq(Pieces), NEW field, \E i \in DOMAIN b : b[i].field = field
  PROVE  \E i \in 1..Len(b) : LastOf(b, field, Len(b), i)
<1> DEFINE S == {n \in Nat : \E i \in 1..Len(b) : n = Len(b) - i /\ b[i].field = field}
<1>1. Len(b) \in Nat /\ DOMAIN b = 1..Len(b)
  OBVIOUS
<1>2. S \subseteq Nat /\ S # {}
  <2>1. PICK k \in 1..Len(b) : b[k].field = field
    BY <1>1
  <2>2. Len(b) - k \in Nat
    BY <1>1
  <2>3. Len(b) - k \in S
    BY <2>1, <2>2
  <2> QED BY <2>3
<1>3. \E x \in S : \A y \in S : x <= y
  BY <1>2, Least
<1>4. PICK x \in S : \A y \in S : x <= y
  BY <1>3
<1>5. PICK i \in 1..Len(b) : x = Len(b) - i /\ b[i].field = field
  OBVIOUS
<1>6. ASSUME NEW j \in (i + 1)..Len(b), b[j].field = field
      PROVE  FALSE
  <2>1. Len(b) - j \in Nat /\ j \in 1..Len(b) /\ Len(b) - j < x
    BY <1>1, <1>5
  <2>2. Len(b) - j \in S
    BY <2>1, <1>6
  <2>3. x <= Len(b) - j
    BY <2>2, <1>4
  <2> HIDE DEF S
  <2> QED BY <2>1, <2>3, <1>1, <1>5
<1> QED BY <1>1, <1>5, <1>6 DEF LastOf

\* What a body gives for a field is the number of the last piece of it.
LEMMA GivenIsLast ==
  ASSUME NEW b \in Seq(Pieces), NEW field, NEW i, LastOf(b, field, Len(b), i)
  PROVE  Given(b, field) = b[i].num
<1> DEFINE at == {j \in DOMAIN b : b[j].field = field}
<1>1. Len(b) \in Nat /\ DOMAIN b = 1..Len(b)
  OBVIOUS
<1>2. i \in at /\ \A j \in at : j <= i
  BY <1>1 DEF LastOf
<1>3. at \subseteq Nat
  BY <1>1
<1>4. ASSUME NEW j \in at, \A k \in at : k <= j
      PROVE  j = i
  BY <1>2, <1>3, <1>4
<1>5. (CHOOSE j \in at : \A k \in at : k <= j) = i
  BY <1>2, <1>4
<1> QED BY <1>2, <1>5 DEF Given

\* Only the one poster has a body.
LEMMA OneBody ==
  ASSUME Calm, TypeOK, NEW c \in Conns, NEW d \in Conns, d # c, request[c].body # <<>>
  PROVE  request[d].body = <<>>
<1>1. c \in Posters
  BY RequestIs DEF TypeOK
<1>2. request[d].body # <<>> => d \in Posters
  BY RequestIs DEF TypeOK
<1> QED BY <1>1, <1>2 DEF Calm

\* A connection without a body has parsed all of it.
LEMMA NothingParsed ==
  ASSUME NEW c \in Conns, rest[c] \in Seq(Pieces), request[c].body = <<>>
  PROVE  Parsed(c) <=> rest[c] = <<>>
<1>1. Len(request[c].body) = 0
  BY SMT
<1>2. Len(rest[c]) \in Nat /\ (Len(rest[c]) = 0 <=> rest[c] = <<>>)
  OBVIOUS
<1> QED BY <1>1, <1>2 DEF Parsed, Done, Gathered

\* When the next piece is parsed, it is the last one of its field, and what was the last
\* one of another field still is.
LEMMA PieceMoved ==
  ASSUME NEW b \in Seq(Pieces), NEW s \in Seq(Pieces), s # <<>>,
         NEW done \in Nat, done = Len(b) - Len(s),
         \A i \in 1..Len(s) : s[i] = b[done + i]
  PROVE  /\ Head(s) = b[done + 1] /\ Head(s) \in Pieces /\ done + 1 \in DOMAIN b
         /\ Len(b) - Len(Tail(s)) = done + 1
         /\ \A i \in 1..Len(Tail(s)) : Tail(s)[i] = b[(done + 1) + i]
         /\ \A field : \A i \in 1..(done + 1) :
              LastOf(b, field, done + 1, i)
              => \/ i = done + 1 /\ Head(s).field = field
                 \/ i \in 1..done /\ LastOf(b, field, done, i) /\ Head(s).field # field
<1>1. Len(b) \in Nat /\ DOMAIN b = 1..Len(b)
  OBVIOUS
<1>2. /\ Head(s) = s[1] /\ Head(s) \in Pieces
      /\ Tail(s) \in Seq(Pieces) /\ Len(Tail(s)) = Len(s) - 1
      /\ Len(s) \in Nat /\ Len(s) > 0
      /\ \A i \in 1..Len(Tail(s)) : Tail(s)[i] = s[i + 1]
  BY Pieced
<1>3. Head(s) = b[done + 1] /\ done + 1 \in DOMAIN b
  BY <1>1, <1>2
<1>4. Len(b) - Len(Tail(s)) = done + 1
  BY <1>1, <1>2
<1>5. ASSUME NEW i \in 1..Len(Tail(s))
      PROVE  Tail(s)[i] = b[(done + 1) + i]
  <2>1. i + 1 \in 1..Len(s) /\ i \in Int /\ done + (i + 1) = (done + 1) + i
    BY <1>2
  <2> QED BY <2>1, <1>2
<1>6. ASSUME NEW field, NEW i \in 1..(done + 1), LastOf(b, field, done + 1, i)
      PROVE  \/ i = done + 1 /\ Head(s).field = field
             \/ i \in 1..done /\ LastOf(b, field, done, i) /\ Head(s).field # field
  <2>1. CASE i = done + 1
    BY <2>1, <1>3, <1>6 DEF LastOf
  <2>2. CASE i # done + 1
    <3>1. i \in 1..done /\ done + 1 \in (i + 1)..(done + 1)
      BY <2>2
    <3>2. (i + 1)..done \subseteq (i + 1)..(done + 1)
      BY <3>1
    <3> QED BY <3>1, <3>2, <1>3, <1>6 DEF LastOf
  <2> QED BY <2>1, <2>2
<1> QED BY <1>2, <1>3, <1>4, <1>5, <1>6

\* A piece leaves the list of those to come and enters the globals.
LEMMA UploadParses ==
  ASSUME Calm, TypeOK, NEW c \in Conns, Parsed(c), c # waiting, Upload(c)
  PROVE  Parsed(c)'
<1>1. PICK b \in Seq(Pieces) : b = request[c].body
  BY RequestIs DEF TypeOK
<1>2. PICK s \in Seq(Pieces) : s = rest[c]
  BY DEF TypeOK
<1>3. PICK done \in Nat : done = Len(b) - Len(s) /\ done = Done(c)
  <2>1. Len(b) \in Nat /\ Len(s) \in Nat /\ Done(c) >= 0 /\ Done(c) = Len(b) - Len(s)
    BY <1>1, <1>2 DEF Parsed, Done
  <2> QED BY <2>1
<1>4. s # <<>> /\ \A i \in 1..Len(s) : s[i] = b[done + i]
  BY <1>1, <1>2, <1>3 DEF Parsed, Upload
<1>5. /\ Head(s) = b[done + 1] /\ Head(s) \in Pieces /\ done + 1 \in DOMAIN b
      /\ Len(b) - Len(Tail(s)) = done + 1
      /\ \A i \in 1..Len(Tail(s)) : Tail(s)[i] = b[(done + 1) + i]
      /\ \A field : \A i \in 1..(done + 1) :
           LastOf(b, field, done + 1, i)
           => \/ i = done + 1 /\ Head(s).field = field
              \/ i \in 1..done /\ LastOf(b, field, done, i) /\ Head(s).field # field
  BY <1>3, <1>4, PieceMoved, Zenon
<1>6. b \in Bodies
  <2>1. DOMAIN b = 1..Len(b) /\ Len(b) \in Nat
    OBVIOUS
  <2>2. b # <<>>
    BY <1>5, <2>1
  <2> QED BY <2>2, <1>1, RequestIs DEF TypeOK
<1>7. Head(s).fits \/ Head(s).field = "other"
  <2>1. b[done + 1].fits \/ b[done + 1].field = "other"
    BY <1>5, <1>6, Zenon DEF Calm
  <2> QED BY <1>5, <2>1, Zenon
<1>8. rest'[c] = Tail(s) /\ request'[c].body = b
  BY <1>1, <1>2, <1>7 DEF Upload, TypeOK
<1>9. ASSUME NEW i \in 1..(done + 1)
      PROVE  /\ LastOf(b, "key", done + 1, i) => fields'.keySet /\ fields'.key = b[i].num
             /\ LastOf(b, "value", done + 1, i)
                  => fields'.valueSet /\ fields'.value = b[i].num
  <2>1. \A j \in 1..done :
          /\ LastOf(b, "key", done, j) => fields.keySet /\ fields.key = b[j].num
          /\ LastOf(b, "value", done, j) => fields.valueSet /\ fields.value = b[j].num
    BY <1>1, <1>3 DEF Parsed, Gathered
  <2>2. CASE Head(s).field = "key"
    <3>1. fields' = [fields EXCEPT !.key = Head(s).num, !.keySet = TRUE]
      BY <2>2, <1>2, <1>7 DEF Upload, iterate_post
    <3>2. /\ fields'.key = Head(s).num /\ fields'.keySet
          /\ fields'.value = fields.value /\ fields'.valueSet = fields.valueSet
      BY <3>1 DEF TypeOK
    <3> QED BY <3>2, <2>1, <2>2, <1>5
  <2>3. CASE Head(s).field = "value"
    <3>1. fields' = [fields EXCEPT !.value = Head(s).num, !.valueSet = TRUE]
      BY <2>3, <1>2, <1>7 DEF Upload, iterate_post
    <3>2. /\ fields'.value = Head(s).num /\ fields'.valueSet
          /\ fields'.key = fields.key /\ fields'.keySet = fields.keySet
      BY <3>1 DEF TypeOK
    <3> QED BY <3>2, <2>1, <2>3, <1>5
  <2>4. CASE Head(s).field \notin {"key", "value"}
    <3>1. fields' = fields
      BY <2>4, <1>2 DEF Upload, iterate_post
    <3> QED BY <3>1, <2>1, <2>4, <1>5
  <2> QED BY <2>2, <2>3, <2>4
<1>10. Done(c)' = done + 1
  BY <1>5, <1>8 DEF Done
<1>11. Gathered(c)'
  <2>1. SUFFICES ASSUME NEW i \in 1..Done(c)'
                 PROVE  /\ LastOf(request'[c].body, "key", Done(c)', i)
                             => fields'.keySet /\ fields'.key = request'[c].body[i].num
                        /\ LastOf(request'[c].body, "value", Done(c)', i)
                             => fields'.valueSet /\ fields'.value = request'[c].body[i].num
    BY Zenon DEF Gathered, LastOf
  <2>2. i \in 1..(done + 1)
    BY <1>10
  <2>3. /\ LastOf(b, "key", done + 1, i) => fields'.keySet /\ fields'.key = b[i].num
        /\ LastOf(b, "value", done + 1, i) => fields'.valueSet /\ fields'.value = b[i].num
    BY <1>9, <2>2
  <2> QED BY <1>8, <1>10, <2>3, Zenon
<1>12. Done(c)' >= 0
  BY <1>10
<1> QED BY <1>5, <1>8, <1>10, <1>11, <1>12 DEF Parsed

\* Every step but an upload leaves what a connection has parsed, or there is nothing of it.
LEMMA ParsedKept ==
  ASSUME NEW c \in Conns, Parsed(c), request'[c] = request[c], rest'[c] = rest[c],
         \/ fields' = fields /\ (c # waiting' => c # waiting)
         \/ request[c].body = <<>> /\ rest[c] \in Seq(Pieces)
         \/ c = waiting'
  PROVE  Parsed(c)'
<1>1. Done(c)' = Done(c)
  BY DEF Done
<1>2. CASE fields' = fields /\ (c # waiting' => c # waiting)
  <2>1. Gathered(c) => Gathered(c)'
    BY <1>1, <1>2 DEF Gathered
  <2> QED BY <1>1, <1>2, <2>1 DEF Parsed
<1>3. CASE request[c].body = <<>> /\ rest[c] \in Seq(Pieces)
  <2>1. rest[c] = <<>>
    BY <1>3, NothingParsed
  <2>2. Done(c) = 0
    BY <2>1, <1>3 DEF Done
  <2>3. Gathered(c)'
    BY <2>2, <1>1 DEF Gathered
  <2> QED BY <2>1, <2>2, <2>3, <1>1 DEF Parsed
<1>4. CASE c = waiting'
  BY <1>1, <1>4 DEF Parsed
<1> QED BY <1>2, <1>3, <1>4

\* A connection whose request has just begun or ended has parsed nothing.
LEMMA FreshParsed ==
  ASSUME NEW c \in Conns, rest'[c] = request'[c].body, rest'[c] \in Seq(Pieces)
  PROVE  Parsed(c)'
<1>1. Len(rest'[c]) \in Nat
  OBVIOUS
<1>2. Done(c)' = 0
  BY <1>1 DEF Done
<1>3. \A i \in 1..Len(rest'[c]) : rest'[c][i] = request'[c].body[0 + i]
  OBVIOUS
<1> QED BY <1>1, <1>2, <1>3 DEF Parsed, Gathered

------------------------------------------------------------------------------
(* Calls and answers *)

\* The last callback of a request makes the call that the request asks for.
LEMMA FinishCalls ==
  ASSUME Calm, TypeOK, NEW c \in Conns, Parsed(c), Finish(c)
  PROVE  /\ DHT!Call(Gateway)
         /\ call' = [call EXCEPT ![Gateway] = Asked(request[c])]
         /\ waiting' = c
         /\ UNCHANGED <<request, rest, response>>
         /\ fields' = fields \/ request[c].body # <<>>
<1>1. ASSUME NEW cmd, NEW k, NEW v, rpcCall(c, cmd, k, v)
      PROVE  /\ DHT!Call(Gateway)
             /\ call' = [call EXCEPT ![Gateway] =
                           [cmd |-> cmd, key |-> Wire(k), value |-> Wire(v)]]
             /\ waiting' = c
             /\ UNCHANGED <<request, rest, response>>
  BY <1>1 DEF rpcCall, Calm
<1>2. Wire(0) = 0
  BY DEF Wire
<1>7. ~(request[c].method \in {"GET", "DELETE"} /\ request[c].url = <<>>)
  <2>1. request[c] \in Requests(c)
    BY DEF TypeOK, Finish
  <2>2. request[c].method \in {"GET", "DELETE"} => request[c].url \in Paths
    BY <2>1, RequestIs
  <2> QED BY <2>2 DEF Calm
<1>3. CASE request[c].method = "GET"
  <2>1. rpcCall(c, "get", Head(request[c].url), 0) /\ fields' = fields
    BY <1>3, <1>7 DEF Finish
  <2>2. Asked(request[c]) = [cmd |-> "get", key |-> Wire(Head(request[c].url)), value |-> Wire(0)]
    BY <1>2, <1>3 DEF Asked
  <2> QED BY <2>1, <2>2, <1>1
<1>4. CASE request[c].method = "DELETE"
  <2>1. rpcCall(c, "del", Head(request[c].url), 0) /\ fields' = fields
    BY <1>4, <1>7 DEF Finish
  <2>2. Asked(request[c]) = [cmd |-> "del", key |-> Wire(Head(request[c].url)), value |-> Wire(0)]
    BY <1>2, <1>4 DEF Asked
  <2> QED BY <2>1, <2>2, <1>1
<1>5. CASE request[c].method = "POST"
  <2>1. PICK b \in Seq(Pieces) : b = request[c].body /\ b \in Bodies
    BY <1>5, RequestIs DEF TypeOK
  <2>2. Len(b) \in Nat /\ DOMAIN b = 1..Len(b)
    OBVIOUS
  <2>3. Done(c) = Len(b) /\ waiting = NoConn
    BY <2>1, <2>2 DEF Finish, Done
  <2>4. PICK i \in 1..Len(b) : LastOf(b, "key", Len(b), i)
    BY <2>1, LastExists DEF Calm
  <2>5. PICK j \in 1..Len(b) : LastOf(b, "value", Len(b), j)
    BY <2>1, LastExists DEF Calm
  <2>6. Gathered(c)
    BY <2>3, HttpGatewayAssumption DEF Parsed
  <2>7. fields.keySet /\ fields.key = Given(b, "key")
    <3>1. fields.keySet /\ fields.key = b[i].num
      BY <2>1, <2>3, <2>4, <2>6 DEF Gathered
    <3> QED BY <3>1, <2>4, GivenIsLast
  <2>8. fields.valueSet /\ fields.value = Given(b, "value")
    <3>1. fields.valueSet /\ fields.value = b[j].num
      BY <2>1, <2>3, <2>5, <2>6 DEF Gathered
    <3> QED BY <3>1, <2>5, GivenIsLast
  <2>9. rpcCall(c, "set", fields.key, fields.value)
    BY <1>5, <2>7, <2>8 DEF Finish
  <2>10. Asked(request[c]) =
           [cmd |-> "set", key |-> Wire(fields.key), value |-> Wire(fields.value)]
    BY <1>5, <2>1, <2>7, <2>8 DEF Asked
  <2>11. b # <<>>
    BY <2>2, <2>4
  <2> QED BY <1>1, <2>1, <2>9, <2>10, <2>11
<1>6. request[c].method \in {"GET", "DELETE", "POST"}
  <2>1. request[c] \in Requests(c)
    BY DEF TypeOK, Finish
  <2> QED BY <2>1 DEF Requests, Calm
<1> QED BY <1>3, <1>4, <1>5, <1>6

\* A reply answers the call it is to, if the call is one of the service.
LEMMA ResultAnswers ==
  ASSUME TypeOK, NEW q \in DHT!Calls
  PROVE  DHT!Result(q) \in Answers(q) /\ DHT!Result(q) # Idle /\ q # Idle
<1>1. store[q.key] \in Values \cup {-1}
  BY DEF TypeOK, DHT!Calls
<1>2. CASE q.cmd = "set"
  BY <1>2 DEF DHT!Calls, DHT!Result, DHT!Idle, Answers, Idle
<1>3. CASE q.cmd = "get"
  <2> DEFINE k == q.key
  <2>1. q = [cmd |-> "get", key |-> k, value |-> 0]
    BY <1>3 DEF DHT!Calls
  <2>2. CASE store[k] = -1
    <3>1. DHT!Result(q) = [cmd |-> "NOF", key |-> q.key, value |-> q.value]
      BY <2>1, <2>2 DEF DHT!Result
    <3>2. DHT!Result(q) \in Answers(q)
      BY <3>1, <1>3 DEF Answers
    <3> QED BY <2>1, <3>1, <3>2 DEF DHT!Idle, Idle
  <2>3. CASE store[k] # -1
    <3>1. store[k] \in Values
      BY <2>3, <1>1
    <3>2. DHT!Result(q) = [cmd |-> "VAL", key |-> k, value |-> store[k]]
      BY <2>1, <2>3 DEF DHT!Result
    <3>3. DHT!Result(q) \in Answers(q)
      BY <3>1, <3>2, <1>3 DEF Answers
    <3>4. DHT!Result(q).cmd = "VAL"
      BY <3>2
    <3> QED BY <3>3, <3>4, <1>3 DEF DHT!Idle, Idle
  <2> QED BY <2>2, <2>3
<1>4. CASE q.cmd = "del"
  BY <1>1, <1>4 DEF DHT!Calls, DHT!Result, DHT!Idle, Answers, Idle
<1> QED BY <1>2, <1>3, <1>4 DEF DHT!Calls

\* The service's own steps keep what is known of answers.
LEMMA ServiceReplied ==
  ASSUME TypeOK, Replied, NEW d \in Users, DHT!Call(d) \/ DHT!Execute(d) \/ DHT!Return(d)
  PROVE  Replied'
<1>1. CASE DHT!Call(d)
  <2>1. PICK q \in DHT!Calls : call' = [call EXCEPT ![d] = q]
    BY <1>1 DEF DHT!Call
  <2>2. answer' = answer /\ call[d] = Idle /\ q # Idle
    BY <1>1, ResultAnswers DEF DHT!Call, Idle
  <2>3. \A e \in Users : call'[e] = IF e = d THEN q ELSE call[e]
    BY <2>1 DEF TypeOK
  <2>4. Gateway \in Users
    BY DEF Users, Callers
  <2> QED BY <2>2, <2>3, <2>4 DEF Replied
<1>2. CASE DHT!Execute(d)
  <2>1. call[d] \in DHT!Calls /\ call[d] # Idle
    BY <1>2 DEF DHT!Execute, TypeOK, Idle
  <2>2. call' = call /\ answer' = [answer EXCEPT ![d] = DHT!Result(call[d])]
    BY <1>2 DEF DHT!Execute
  <2>3. \A e \in Users : answer'[e] = IF e = d THEN DHT!Result(call[d]) ELSE answer[e]
    BY <2>2 DEF TypeOK
  <2>4. DHT!Result(call[d]) \in Answers(call[d])
    BY <2>1, ResultAnswers
  <2>5. Gateway \in Users
    BY DEF Users, Callers
  <2> QED BY <2>1, <2>2, <2>3, <2>4, <2>5 DEF Replied
<1>3. CASE DHT!Return(d)
  <2>1. /\ call' = [call EXCEPT ![d] = Idle]
        /\ answer' = [answer EXCEPT ![d] = Idle]
    BY <1>3 DEF DHT!Return, Idle
  <2>2. \A e \in Users :
          /\ call'[e] = IF e = d THEN Idle ELSE call[e]
          /\ answer'[e] = IF e = d THEN Idle ELSE answer[e]
    BY <2>1 DEF TypeOK
  <2>3. Gateway \in Users
    BY DEF Users, Callers
  <2> QED BY <2>2, <2>3 DEF Replied
<1> QED BY <1>1, <1>2, <1>3

\* Values are no error codes.
LEMMA ValuesAreNat == Values \subseteq Nat
<1>1. UInt16 \subseteq Nat
  BY DEF UInt16
<1> QED BY <1>1, HttpGatewayAssumption

\* What each response tells.
LEMMA ToldIs ==
  ASSUME NEW resp
  PROVE  /\ resp.status = 0 => Told(resp) = Idle
         /\ resp.status = 404 => Told(resp) =
              [cmd |-> "NOF", key |-> Asked(resp.to).key, value |-> Asked(resp.to).value]
         /\ resp.status = 201 => Told(resp) =
              [cmd |-> "OK!", key |-> Asked(resp.to).key, value |-> Asked(resp.to).value]
         /\ resp.status = 200 /\ resp.to.method = "GET" => Told(resp) =
              [cmd |-> "VAL", key |-> Asked(resp.to).key, value |-> resp.value]
         /\ resp.status = 200 /\ resp.to.method = "DELETE" => Told(resp) =
              [cmd |-> "OK!", key |-> Asked(resp.to).key, value |-> Asked(resp.to).value]
<1>1. CASE resp.status = 0
  BY <1>1 DEF Told, Idle, Closed
<1>2. CASE resp.status = 404
  BY <1>2 DEF Told, Closed
<1>3. CASE resp.status = 201
  BY <1>3 DEF Told, Closed
<1>4. CASE resp.status = 200 /\ resp.to.method = "GET"
  BY <1>4 DEF Told, Closed
<1>5. CASE resp.status = 200 /\ resp.to.method = "DELETE"
  BY <1>5 DEF Told, Closed
<1> QED BY <1>1, <1>2, <1>3, <1>4, <1>5

\* The response to the blocked request tells what the DHT has answered to its call.
LEMMA ReceiveTells ==
  ASSUME Calm, GInv, Receive
  PROVE  /\ waiting \in Conns
         /\ \E status, value : Respond(waiting, status, value)
         /\ Told(response'[waiting]) = answer[Gateway]
<1> DEFINE c == waiting
           r == request[c]
           q == Asked(r)
           a == answer[Gateway]
<1>1. c \in Conns /\ DHT!Return(Gateway) /\ Answer(c, rpcResult(call[Gateway].cmd, a))
  BY DEF Receive
<1>2. call[Gateway] = q /\ r # NoRequest /\ a # Idle /\ a \in Answers(q)
  BY <1>1, HttpGatewayAssumption DEF GInv, Blocked, Replied, Receive, DHT!Return, Idle
<1>3. \E status, value : Respond(c, status, value)
  BY <1>1, AnswerIs
<1>4. ASSUME NEW status, NEW value, Respond(c, status, value)
      PROVE  /\ response'[c].status = status /\ response'[c].value = value
             /\ response'[c].to = r
  BY <1>1, <1>4 DEF Respond, GInv, TypeOK
<1>5. CASE r.method = "GET"
  <2>1. q.cmd = "get"
    BY <1>5 DEF Asked
  <2>2. CASE a.cmd = "NOF"
    <3>1. rpcResult(q.cmd, a) = NOT_FOUND
      BY <2>1, <2>2 DEF rpcResult
    <3>2. Respond(c, 404, 0)
      BY <1>1, <1>2, <1>5, <3>1 DEF Answer, NOT_FOUND
    <3>3. Told(response'[c]) = [cmd |-> "NOF", key |-> q.key, value |-> q.value]
      BY <3>2, <1>4, ToldIs
    <3>4. a = [cmd |-> "NOF", key |-> q.key, value |-> q.value]
      BY <1>2, <2>1, <2>2 DEF Answers
    <3> QED BY <1>1, <1>3, <3>3, <3>4
  <2>3. CASE a.cmd # "NOF"
    <3>1. PICK v \in Values : a = [cmd |-> "VAL", key |-> q.key, value |-> v]
      BY <1>2, <2>1, <2>3 DEF Answers
    <3>2. rpcResult(q.cmd, a) = v /\ v \in Nat
      BY <2>1, <3>1, ValuesAreNat DEF rpcResult
    <3>3. Respond(c, 200, v)
      BY <1>1, <1>2, <1>5, <3>2 DEF Answer, NOT_FOUND
    <3>4. Told(response'[c]) = [cmd |-> "VAL", key |-> q.key, value |-> v]
      BY <3>3, <1>4, <1>5, ToldIs
    <3> QED BY <1>1, <1>3, <3>1, <3>4
  <2> QED BY <2>2, <2>3
<1>6. CASE r.method = "DELETE"
  <2>1. q.cmd = "del"
    BY <1>6 DEF Asked
  <2>2. CASE a.cmd = "NOF"
    <3>1. rpcResult(q.cmd, a) = NOT_FOUND
      BY <2>1, <2>2 DEF rpcResult
    <3>2. Respond(c, 404, 0)
      BY <1>1, <1>2, <1>6, <3>1 DEF Answer, NOT_FOUND
    <3>3. Told(response'[c]) = [cmd |-> "NOF", key |-> q.key, value |-> q.value]
      BY <3>2, <1>4, ToldIs
    <3>4. a = [cmd |-> "NOF", key |-> q.key, value |-> q.value]
      BY <1>2, <2>1, <2>2 DEF Answers
    <3> QED BY <1>1, <1>3, <3>3, <3>4
  <2>3. CASE a.cmd # "NOF"
    <3>1. a = [cmd |-> "OK!", key |-> q.key, value |-> q.value]
      BY <1>2, <2>1, <2>3 DEF Answers
    <3>2. rpcResult(q.cmd, a) = 0
      BY <2>1, <3>1 DEF rpcResult
    <3>3. Respond(c, 200, 0)
      BY <1>1, <1>2, <1>6, <3>2 DEF Answer, NOT_FOUND
    <3>4. Told(response'[c]) = [cmd |-> "OK!", key |-> q.key, value |-> q.value]
      BY <3>3, <1>4, <1>6, ToldIs
    <3> QED BY <1>1, <1>3, <3>1, <3>4
  <2> QED BY <2>2, <2>3
<1>7. CASE r.method = "POST"
  <2>1. q.cmd = "set"
    BY <1>7 DEF Asked
  <2>2. a = [cmd |-> "OK!", key |-> q.key, value |-> q.value]
    BY <1>2, <2>1 DEF Answers
  <2>3. rpcResult(q.cmd, a) = 1
    BY <2>1, <2>2 DEF rpcResult
  <2>4. Respond(c, 201, 0)
    BY <1>1, <1>2, <1>7, <2>3 DEF Answer
  <2>5. Told(response'[c]) = [cmd |-> "OK!", key |-> q.key, value |-> q.value]
    BY <2>4, <1>4, ToldIs
  <2> QED BY <1>1, <1>3, <2>2, <2>5
<1>8. r.method \in {"GET", "DELETE", "POST"}
  <2>1. r \in Requests(c)
    BY <1>1, <1>2 DEF GInv, TypeOK
  <2> QED BY <2>1 DEF Requests, Calm
<1> QED BY <1>5, <1>6, <1>7, <1>8

------------------------------------------------------------------------------
(* The inductive invariant *)

\* Nothing is known of anybody at the start.
LEMMA GInit == Init => GInv
<1>1. SUFFICES ASSUME Init PROVE GInv
  OBVIOUS
<1>2. ASSUME NEW c \in Conns
      PROVE  Parsed(c)
  <2>1. request[c].body = <<>> /\ rest[c] = <<>> /\ rest[c] \in Seq(Pieces)
    BY <1>1 DEF Init, NoRequest
  <2> QED BY <2>1, NothingParsed
<1>3. Blocked
  BY <1>1 DEF Init, DHT!Init, Blocked, Idle, Users, Callers, NoConn, Crashed
<1>4. Replied
  BY <1>1 DEF Init, DHT!Init, Replied, Users, Callers, Idle
<1> QED BY <1>1, <1>2, <1>3, <1>4, TypeInit DEF GInv

\* A step that leaves the requests alone keeps what has been parsed.
LEMMA ParsedStays ==
  ASSUME \A c \in Conns : Parsed(c), UNCHANGED <<request, rest, fields, waiting>>,
         NEW c \in Conns
  PROVE  Parsed(c)'
<1>1. Parsed(c) /\ request'[c] = request[c] /\ rest'[c] = rest[c]
  OBVIOUS
<1>2. c # waiting' => c # waiting
  OBVIOUS
<1> QED BY <1>1, <1>2, ParsedKept

\* Every step keeps the invariant, while the premise of the theorem holds.
LEMMA GStep == Calm /\ GInv /\ [Next]_vars => GInv'
<1>1. SUFFICES ASSUME Calm, GInv, [Next]_vars PROVE GInv'
  OBVIOUS
<1> USE <1>1
<1>2. TypeOK /\ (\A c \in Conns : Parsed(c)) /\ Blocked /\ Replied
  BY DEF GInv
<1>3. TypeOK'
  BY <1>2, TypeStep
<1>4. /\ NoConn \notin Conns /\ Crashed \notin Conns /\ Gateway # Orphan
      /\ Gateway \in Users /\ Gateway \notin Peers /\ Orphan \in Users /\ Orphan \notin Peers
  BY HttpGatewayAssumption DEF Users, Callers, Gateway, Orphan
<1>5. ASSUME NEW c \in Conns
      PROVE  rest[c] \in Seq(Pieces) /\ rest'[c] \in Seq(Pieces)
  BY <1>2, <1>3 DEF TypeOK
<1>6. ASSUME NEW c \in Conns, NEW r \in Requests(c), Begin(c, r)
      PROVE  GInv'
  <2>1. UNCHANGED <<fields, waiting, call, answer>> /\ waiting = NoConn
    BY <1>6 DEF Begin, dhtVars
  <2>2. rest'[c] = request'[c].body
    BY <1>2, <1>6 DEF Begin, TypeOK
  <2>3. ASSUME NEW e \in Conns
        PROVE  Parsed(e)'
    <3>1. CASE e = c
      BY <2>2, <3>1, <1>5, FreshParsed
    <3>2. CASE e # c
      <4>1. request'[e] = request[e] /\ rest'[e] = rest[e]
        BY <1>2, <1>6, <3>2 DEF Begin, TypeOK
      <4> QED BY <4>1, <2>1, <1>2, ParsedKept
    <3> QED BY <3>1, <3>2
  <2>4. Blocked' /\ Replied'
    BY <2>1, <1>2 DEF Blocked, Replied
  <2> QED BY <2>3, <2>4, <1>3 DEF GInv
<1>7. ASSUME NEW c \in Conns, Abort(c)
      PROVE  GInv'
  <2>1. UNCHANGED <<fields, waiting, call, answer>> /\ waiting = NoConn
    BY <1>7 DEF Abort, dhtVars
  <2>2. rest'[c] = request'[c].body
    BY <1>2, <1>7 DEF Abort, TypeOK, NoRequest
  <2>3. ASSUME NEW e \in Conns
        PROVE  Parsed(e)'
    <3>1. CASE e = c
      BY <2>2, <3>1, <1>5, FreshParsed
    <3>2. CASE e # c
      <4>1. request'[e] = request[e] /\ rest'[e] = rest[e]
        BY <1>2, <1>7, <3>2 DEF Abort, TypeOK
      <4> QED BY <4>1, <2>1, <1>2, ParsedKept
    <3> QED BY <3>1, <3>2
  <2>4. Blocked' /\ Replied'
    BY <2>1, <1>2 DEF Blocked, Replied
  <2> QED BY <2>3, <2>4, <1>3 DEF GInv
<1>8. ASSUME NEW c \in Conns, Upload(c)
      PROVE  GInv'
  <2>1. UNCHANGED <<request, waiting, call, answer>> /\ waiting = NoConn /\ rest[c] # <<>>
    BY <1>8 DEF Upload, dhtVars
  <2>2. request[c].body # <<>>
    BY <2>1, <1>2, <1>5, NothingParsed
  <2>3. ASSUME NEW e \in Conns
        PROVE  Parsed(e)'
    <3>1. CASE e = c
      BY <3>1, <2>1, <1>2, <1>4, <1>8, UploadParses
    <3>2. CASE e # c
      <4>1. request'[e] = request[e] /\ rest'[e] = rest[e]
        BY <1>2, <1>8, <3>2 DEF Upload, TypeOK
      <4>2. request[e].body = <<>>
        BY <2>2, <3>2, <1>2, OneBody
      <4> QED BY <4>1, <4>2, <1>2, <1>5, ParsedKept
    <3> QED BY <3>1, <3>2
  <2>4. Blocked' /\ Replied'
    BY <2>1, <1>2 DEF Blocked, Replied
  <2> QED BY <2>3, <2>4, <1>3 DEF GInv
<1>9. ASSUME NEW c \in Conns, Finish(c)
      PROVE  GInv'
  <2>1. /\ DHT!Call(Gateway)
        /\ call' = [call EXCEPT ![Gateway] = Asked(request[c])]
        /\ waiting' = c
        /\ UNCHANGED <<request, rest, response>>
        /\ fields' = fields \/ request[c].body # <<>>
    BY <1>2, <1>9, FinishCalls
  <2>2. waiting = NoConn /\ request[c] # NoRequest /\ rest[c] = <<>>
    BY <1>9 DEF Finish
  <2>3. ASSUME NEW e \in Conns
        PROVE  Parsed(e)'
    <3>1. request'[e] = request[e] /\ rest'[e] = rest[e]
      BY <2>1
    <3>2. CASE e = c
      BY <3>1, <3>2, <2>1, <1>2, ParsedKept
    <3>3. CASE e # c /\ fields' = fields
      BY <3>1, <3>3, <2>2, <1>2, <1>4, ParsedKept
    <3>4. CASE e # c /\ fields' # fields
      <4>1. request[e].body = <<>>
        BY <3>4, <2>1, <1>2, OneBody
      <4> QED BY <3>1, <4>1, <1>2, <1>5, ParsedKept
    <3> QED BY <3>2, <3>3, <3>4
  <2>4. Blocked'
    <3>1. call'[Gateway] = Asked(request'[c]) /\ call'[Orphan] = Idle
      BY <2>1, <1>2, <1>4 DEF TypeOK, Blocked
    <3> QED BY <3>1, <2>1, <2>2, <1>4 DEF Blocked
  <2>5. Replied'
    BY <2>1, <1>2, <1>4, ServiceReplied
  <2> QED BY <2>3, <2>4, <2>5, <1>3 DEF GInv
<1>10. CASE Receive
  <2> DEFINE c == waiting
  <2>1. c \in Conns /\ \E status, value : Respond(c, status, value)
    BY <1>10, ReceiveTells
  <2>2. /\ request' = [request EXCEPT ![c] = NoRequest]
        /\ rest' = rest /\ rest[c] = <<>>
    BY <2>1, <1>2, <1>4 DEF Respond, Blocked
  <2>3. DHT!Return(Gateway) /\ waiting' = NoConn /\ fields' = fields
    BY <1>10 DEF Receive
  <2>4. ASSUME NEW e \in Conns
        PROVE  Parsed(e)'
    <3>1. CASE e = c
      <4>1. rest'[e] = request'[e].body
        BY <2>1, <2>2, <3>1, <1>2 DEF TypeOK, NoRequest
      <4> QED BY <4>1, <1>5, FreshParsed
    <3>2. CASE e # c
      <4>1. request'[e] = request[e] /\ rest'[e] = rest[e]
        BY <2>1, <2>2, <3>2, <1>2 DEF TypeOK
      <4> QED BY <4>1, <2>3, <3>2, <1>2, ParsedKept
    <3> QED BY <3>1, <3>2
  <2>5. Blocked'
    <3>1. call'[Gateway] = Idle /\ call'[Orphan] = Idle
      BY <2>3, <1>2, <1>4 DEF TypeOK, DHT!Return, Idle, Blocked
    <3> QED BY <3>1, <2>3 DEF Blocked, NoConn, Crashed
  <2>6. Replied'
    BY <2>3, <1>2, <1>4, ServiceReplied
  <2> QED BY <2>4, <2>5, <2>6, <1>3 DEF GInv
<1>15. ASSUME NEW c \in Conns, NEW r \in Requests(c), Decline(c, r)
       PROVE  FALSE
  BY <1>15 DEF Decline, Calm
<1>16. CASE ReceiveFails
  BY <1>16 DEF ReceiveFails, Calm
<1>17. CASE Unheard
  BY <1>17, <1>2 DEF Unheard, DHT!Return, Blocked, Idle
<1>11. ASSUME NEW d \in Users, Execute(d)
       PROVE  GInv'
  <2>1. DHT!Execute(d) /\ UNCHANGED <<request, rest, fields, waiting>> /\ call' = call
    BY <1>11 DEF Execute, httpVars, DHT!Execute
  <2>2. Blocked'
    BY <2>1, <1>2 DEF Blocked
  <2> QED BY <2>1, <2>2, <1>2, <1>3, ParsedStays, ServiceReplied DEF GInv
<1>12. ASSUME NEW d \in Users, Refuse(d)
       PROVE  GInv'
  BY <1>12 DEF Refuse, Calm
<1>13. ASSUME NEW d \in Peers, Peer(d)
       PROVE  GInv'
  <2>1. /\ DHT!Call(d) \/ DHT!Return(d)
        /\ UNCHANGED <<request, rest, fields, waiting>> /\ d \in Users
    BY <1>13 DEF Peer, httpVars, Users, Callers
  <2>2. call'[Gateway] = call[Gateway] /\ call'[Orphan] = call[Orphan]
    <3>1. CASE DHT!Call(d)
      BY <3>1, <1>2, <1>4 DEF TypeOK, DHT!Call
    <3>2. CASE DHT!Return(d)
      BY <3>2, <1>2, <1>4 DEF TypeOK, DHT!Return
    <3> QED BY <2>1, <3>1, <3>2
  <2>3. Blocked'
    BY <2>1, <2>2, <1>2 DEF Blocked
  <2> QED BY <2>1, <2>3, <1>2, <1>3, ParsedStays, ServiceReplied DEF GInv
<1>14. CASE UNCHANGED vars
  <2>1. UNCHANGED <<request, rest, fields, waiting, call, answer>>
    BY <1>14 DEF vars, httpVars, dhtVars
  <2>2. Blocked' /\ Replied'
    BY <2>1, <1>2 DEF Blocked, Replied
  <2> QED BY <2>1, <2>2, <1>2, <1>3, ParsedStays DEF GInv
<1> QED
  BY <1>6, <1>7, <1>8, <1>9, <1>10, <1>11, <1>12, <1>13, <1>14, <1>15, <1>16, <1>17
  DEF Next, Users

------------------------------------------------------------------------------
(* The gateway implements the service *)

\* what the service sees of calls, answers and last answers
Calling ==
  [d \in Peers \cup Conns |->
     IF d \in Peers THEN call[d] ELSE IF d = waiting THEN Asked(request[d]) ELSE DHT!Idle]

Answering ==
  [d \in Peers \cup Conns |->
     IF d \in Peers THEN answer[d] ELSE IF d = waiting THEN answer[Gateway] ELSE DHT!Idle]

Answered == [d \in Peers \cup Conns |-> IF d \in Peers THEN last[d] ELSE Told(response[d])]

seen == <<store, Calling, Answering, Answered>>

\* A call of the service, said of what it sees.
LEMMA ServiceCall ==
  ASSUME NEW c \in Peers \cup Conns, Calling[c] = Idle, NEW q \in DHT!Calls,
         Calling' = [Calling EXCEPT ![c] = q], UNCHANGED <<store, Answering, Answered>>
  PROVE  Service!Next
<1>1. Service!Idle = Idle /\ Service!Calls = DHT!Calls
  BY DEF Service!Idle, Idle, DHT!Idle, Service!Calls, DHT!Calls
<1>2. Service!Call(c)
  BY <1>1 DEF Service!Call, Calling, Answering, Answered
<1> QED BY <1>2 DEF Service!Next

\* The one effect of a call, said of what the service sees.
LEMMA ServiceExecute ==
  ASSUME NEW c \in Peers \cup Conns, NEW q, Calling[c] = q, q # Idle, Answering[c] = Idle,
         store' = DHT!Effect(q), Answering' = [Answering EXCEPT ![c] = DHT!Result(q)],
         UNCHANGED <<Calling, Answered>>
  PROVE  Service!Next
<1>1. Service!Idle = Idle
  BY DEF Service!Idle, Idle, DHT!Idle
<1>2. Service!Effect(q) = DHT!Effect(q) /\ Service!Result(q) = DHT!Result(q)
  BY DEF Service!Effect, DHT!Effect, Service!Result, DHT!Result
<1>3. Service!Execute(c)
  BY <1>1, <1>2 DEF Service!Execute, Calling, Answering, Answered
<1> QED BY <1>3 DEF Service!Next

\* The return of a call, said of what the service sees.
LEMMA ServiceReturn ==
  ASSUME NEW c \in Peers \cup Conns, Calling[c] # Idle, Answering[c] # Idle,
         Calling' = [Calling EXCEPT ![c] = Idle], Answering' = [Answering EXCEPT ![c] = Idle],
         Answered' = [Answered EXCEPT ![c] = Answering[c]], UNCHANGED store
  PROVE  Service!Next
<1>1. Service!Idle = Idle
  BY DEF Service!Idle, Idle, DHT!Idle
<1>2. Service!Return(c)
  BY <1>1 DEF Service!Return, Calling, Answering, Answered
<1> QED BY <1>2 DEF Service!Next

\* What the service sees changes only with the calls and answers, with the blocked
\* connection and with the responses.
LEMMA Unseen ==
  ASSUME UNCHANGED <<waiting, response, store, call, answer, last>>,
         waiting # NoConn => request' = request, GInv
  PROVE  UNCHANGED seen
<1>1. NoConn \notin Conns
  BY HttpGatewayAssumption
<1>2. Calling' = Calling
  BY <1>1 DEF Calling
<1>3. Answering' = Answering
  BY DEF Answering
<1>4. Answered' = Answered
  BY DEF Answered
<1> QED BY <1>2, <1>3, <1>4 DEF seen

\* Every step is one of the service or changes nothing that it sees.
LEMMA ServiceStep == Calm /\ GInv /\ [Next]_vars => [Service!Next]_seen
<1>1. SUFFICES ASSUME Calm, GInv, [Next]_vars PROVE [Service!Next]_seen
  OBVIOUS
<1> USE <1>1
<1>2. TypeOK /\ (\A c \in Conns : Parsed(c)) /\ Blocked /\ Replied
  BY DEF GInv
<1>3. /\ NoConn \notin Conns /\ Crashed \notin Conns
      /\ Gateway \in Users /\ Gateway \notin Peers /\ Orphan \in Users
      /\ \A d \in Peers : d \in Users /\ d \notin Conns /\ d # Gateway
  BY HttpGatewayAssumption DEF Users, Callers
<1>4. ASSUME NEW c \in Conns, NEW r \in Requests(c), Begin(c, r)
      PROVE  UNCHANGED seen
  <2>1. waiting = NoConn /\ UNCHANGED <<waiting, response, store, call, answer, last>>
    BY <1>4 DEF Begin, dhtVars
  <2> QED BY <2>1, Unseen
<1>5. ASSUME NEW c \in Conns, Abort(c)
      PROVE  UNCHANGED seen
  <2>1. waiting = NoConn /\ UNCHANGED <<waiting, response, store, call, answer, last>>
    BY <1>5 DEF Abort, dhtVars
  <2> QED BY <2>1, Unseen
<1>6. ASSUME NEW c \in Conns, Upload(c)
      PROVE  UNCHANGED seen
  <2>1. waiting = NoConn /\ UNCHANGED <<waiting, response, store, call, answer, last>>
    BY <1>6 DEF Upload, dhtVars
  <2> QED BY <2>1, Unseen
<1>7. ASSUME NEW c \in Conns, Finish(c)
      PROVE  Service!Next
  <2>1. /\ DHT!Call(Gateway)
        /\ call' = [call EXCEPT ![Gateway] = Asked(request[c])]
        /\ waiting' = c /\ waiting = NoConn
        /\ UNCHANGED <<request, rest, response>>
    BY <1>2, <1>7, FinishCalls DEF Finish
  <2>2. call[Gateway] = Idle /\ answer[Gateway] = Idle
        /\ UNCHANGED <<store, answer, last>>
    BY <2>1, <1>2, <1>3 DEF DHT!Call, Idle, Replied
  <2>3. PICK q \in DHT!Calls : call' = [call EXCEPT ![Gateway] = q]
    BY <2>1 DEF DHT!Call
  <2>4. q = Asked(request[c])
    BY <2>1, <2>3, <1>2, <1>3 DEF TypeOK
  <2>5. \A d \in Peers : call'[d] = call[d]
    BY <2>3, <1>2, <1>3 DEF TypeOK
  <2>6. Calling' = [Calling EXCEPT ![c] = q]
    BY <2>1, <2>4, <2>5, <1>3 DEF Calling
  <2>7. Answering' = Answering
    BY <2>1, <2>2, <1>3 DEF Answering, Idle
  <2>8. Answered' = Answered
    BY <2>1, <2>2 DEF Answered
  <2>9. Calling[c] = Idle
    BY <2>1, <1>3 DEF Calling, Idle
  <2> QED BY <2>2, <2>6, <2>7, <2>8, <2>9, ServiceCall
<1>8. CASE Receive
  <2> DEFINE c == waiting
  <2>1. /\ c \in Conns /\ \E status, value : Respond(c, status, value)
        /\ Told(response'[c]) = answer[Gateway]
    BY <1>8, ReceiveTells
  <2>2. /\ waiting' = NoConn /\ UNCHANGED store
        /\ call[Gateway] # Idle /\ answer[Gateway] # Idle
        /\ call' = [call EXCEPT ![Gateway] = Idle]
        /\ answer' = [answer EXCEPT ![Gateway] = Idle]
        /\ last' = [last EXCEPT ![Gateway] = answer[Gateway]]
    BY <1>8 DEF Receive, DHT!Return, Idle
  <2>3. \A d \in Peers : call'[d] = call[d] /\ answer'[d] = answer[d] /\ last'[d] = last[d]
    BY <2>2, <1>2, <1>3 DEF TypeOK
  <2>4. call[Gateway] = Asked(request[c])
    BY <2>1, <1>2, <1>3 DEF Blocked
  <2>5. Calling[c] = call[Gateway] /\ Answering[c] = answer[Gateway]
    BY <2>1, <2>4, <1>3 DEF Calling, Answering
  <2>6. Calling' = [Calling EXCEPT ![c] = Idle]
    BY <2>1, <2>2, <2>3, <1>3 DEF Calling, Idle
  <2>7. Answering' = [Answering EXCEPT ![c] = Idle]
    BY <2>1, <2>2, <2>3, <1>3 DEF Answering, Idle
  <2>8. \A d \in Conns : d # c => response'[d] = response[d]
    BY <2>1, <1>2 DEF Respond, TypeOK
  <2>9. Answered' = [Answered EXCEPT ![c] = answer[Gateway]]
    BY <2>1, <2>3, <2>8, <1>3 DEF Answered
  <2> QED BY <2>1, <2>2, <2>5, <2>6, <2>7, <2>9, ServiceReturn
<1>9. ASSUME NEW d \in Users, Execute(d)
      PROVE  Service!Next
  <2>1. /\ UNCHANGED <<request, waiting, response, call, last>>
        /\ call[d] # Idle /\ answer[d] = Idle
        /\ store' = DHT!Effect(call[d])
        /\ answer' = [answer EXCEPT ![d] = DHT!Result(call[d])]
    BY <1>9 DEF Execute, httpVars, DHT!Execute, Idle
  <2>2. \A e \in Users : answer'[e] = IF e = d THEN DHT!Result(call[d]) ELSE answer[e]
    BY <2>1, <1>2 DEF TypeOK
  <2>3. Calling' = Calling /\ Answered' = Answered
    BY <2>1 DEF Calling, Answered
  <2>4. CASE d \in Peers
    <3>1. Calling[d] = call[d] /\ Answering[d] = Idle
      BY <2>1, <2>4 DEF Calling, Answering
    <3>2. Answering' = [Answering EXCEPT ![d] = DHT!Result(call[d])]
      BY <2>1, <2>2, <2>4, <1>3 DEF Answering
    <3> QED BY <2>1, <2>3, <2>4, <3>1, <3>2, ServiceExecute
  <2>6. CASE d = Orphan
    BY <2>1, <2>6, <1>2 DEF Blocked
  <2>5. CASE d = Gateway
    <3>1. waiting \in Conns /\ call[d] = Asked(request[waiting])
      BY <2>1, <2>5, <1>2 DEF Blocked, TypeOK
    <3>2. Calling[waiting] = call[d] /\ Answering[waiting] = Idle
      BY <2>1, <2>5, <3>1, <1>3 DEF Calling, Answering
    <3>3. Answering' = [Answering EXCEPT ![waiting] = DHT!Result(call[d])]
      BY <2>1, <2>2, <2>5, <3>1, <1>3 DEF Answering
    <3> QED BY <2>1, <2>3, <3>1, <3>2, <3>3, ServiceExecute
  <2> QED BY <2>4, <2>5, <2>6 DEF Users, Callers
<1>13. ASSUME NEW c \in Conns, NEW r \in Requests(c), Decline(c, r)
       PROVE  FALSE
  BY <1>13 DEF Decline, Calm
<1>14. CASE ReceiveFails
  BY <1>14 DEF ReceiveFails, Calm
<1>15. CASE Unheard
  BY <1>15, <1>2 DEF Unheard, DHT!Return, Blocked, Idle
<1>10. ASSUME NEW d \in Users, Refuse(d)
       PROVE  FALSE
  BY <1>10 DEF Refuse, Calm
<1>11. ASSUME NEW d \in Peers, Peer(d)
       PROVE  Service!Next
  <2>1. UNCHANGED <<request, waiting, response>>
    BY <1>11 DEF Peer, httpVars
  <2>2. CASE DHT!Call(d)
    <3>1. PICK q \in DHT!Calls : call' = [call EXCEPT ![d] = q]
      BY <2>2 DEF DHT!Call
    <3>2. call[d] = Idle /\ UNCHANGED <<store, answer, last>>
      BY <2>2 DEF DHT!Call, Idle
    <3>3. \A e \in Users : call'[e] = IF e = d THEN q ELSE call[e]
      BY <3>1, <1>2 DEF TypeOK
    <3>4. Calling' = [Calling EXCEPT ![d] = q] /\ Calling[d] = Idle
      BY <2>1, <3>2, <3>3, <1>3 DEF Calling
    <3>5. Answering' = Answering /\ Answered' = Answered
      BY <2>1, <3>2 DEF Answering, Answered
    <3> QED BY <3>2, <3>4, <3>5, ServiceCall
  <2>3. CASE DHT!Return(d)
    <3>1. /\ UNCHANGED store
          /\ call[d] # Idle /\ answer[d] # Idle
          /\ call' = [call EXCEPT ![d] = Idle]
          /\ answer' = [answer EXCEPT ![d] = Idle]
          /\ last' = [last EXCEPT ![d] = answer[d]]
      BY <2>3 DEF DHT!Return, Idle
    <3>2. \A e \in Users :
            /\ call'[e] = IF e = d THEN Idle ELSE call[e]
            /\ answer'[e] = IF e = d THEN Idle ELSE answer[e]
            /\ last'[e] = IF e = d THEN answer[d] ELSE last[e]
      BY <3>1, <1>2 DEF TypeOK
    <3>3. Calling' = [Calling EXCEPT ![d] = Idle] /\ Calling[d] = call[d]
      BY <2>1, <3>2, <1>3 DEF Calling
    <3>4. Answering' = [Answering EXCEPT ![d] = Idle] /\ Answering[d] = answer[d]
      BY <2>1, <3>2, <1>3 DEF Answering
    <3>5. Answered' = [Answered EXCEPT ![d] = answer[d]]
      BY <2>1, <3>2, <1>3 DEF Answered
    <3> QED BY <3>1, <3>3, <3>4, <3>5, ServiceReturn
  <2> QED BY <2>2, <2>3, <1>11 DEF Peer
<1>12. CASE UNCHANGED vars
  <2>1. UNCHANGED <<request, waiting, response, store, call, answer, last>>
    BY <1>12 DEF vars, httpVars, dhtVars
  <2> QED BY <2>1, Unseen
<1> QED
  BY <1>4, <1>5, <1>6, <1>7, <1>8, <1>9, <1>10, <1>11, <1>12, <1>13, <1>14, <1>15
  DEF Next, Users

\* While no two POSTs overlap, every body is complete and the DHT takes and answers all
\* calls, the HTTP clients of the gateway and the other clients of the DHT see one
\* linearizable dictionary, however their callbacks and calls alternate.
THEOREM GatewayImplementsService ==
  ASSUME Calm
  PROVE  Spec => ImplementsService
<1>1. Init => Service!Init
  <2>1. SUFFICES ASSUME Init PROVE Service!Init
    OBVIOUS
  <2>2. waiting = NoConn /\ NoConn \notin Conns
    BY <2>1, HttpGatewayAssumption DEF Init
  <2>3. \A d \in Peers : call[d] = Idle /\ answer[d] = Idle /\ last[d] = Idle
    BY <2>1 DEF Init, DHT!Init, Idle, Callers
  <2>4. \A d \in Conns : Told(response[d]) = Idle
    <3>1. Told(NoResponse) = Idle
      BY ToldIs DEF NoResponse
    <3> QED BY <2>1, <3>1 DEF Init
  <2>5. Service!Idle = Idle /\ DHT!Idle = Idle
    BY DEF Idle, DHT!Idle, Service!Idle
  <2>6. Calling = [d \in Peers \cup Conns |-> Idle]
    BY <2>2, <2>3, <2>5 DEF Calling
  <2>7. Answering = [d \in Peers \cup Conns |-> Idle]
    BY <2>2, <2>3, <2>5 DEF Answering
  <2>8. Answered = [d \in Peers \cup Conns |-> Idle]
    BY <2>3, <2>4 DEF Answered
  <2>9. store = [k \in Keys |-> -1]
    BY <2>1 DEF Init, DHT!Init
  <2> QED BY <2>5, <2>6, <2>7, <2>8, <2>9 DEF Service!Init, Calling, Answering, Answered
<1>2. Calm /\ GInv /\ [Next]_vars => GInv'
  BY GStep
<1>3. Calm /\ GInv /\ [Next]_vars
      => [Service!Next]_<<store, Calling, Answering, Answered>>
  BY ServiceStep DEF seen
<1> QED
  BY <1>1, <1>2, <1>3, GInit, PTL
  DEF Spec, ImplementsService, Service!Spec, Calling, Answering, Answered

\* Under the same premises the call made for a POST is the one its own body asks for, and
\* a success is only reported after the DHT has carried out the call.
THEOREM GatewayIsHonest ==
  ASSUME Calm
  PROVE  Spec => []OwnFields /\ SuccessIsReal
<1>1. GInv => OwnFields
  BY HttpGatewayAssumption DEF GInv, Blocked, OwnFields
<1>2. ASSUME GInv, [Next]_vars, NEW c \in Conns, response'[c] # response[c],
             response'[c].status \in {200, 201}
      PROVE  answer[Gateway].cmd \in {"OK!", "VAL"}
  <2>1. TypeOK /\ \A d \in Conns : Parsed(d)
    BY <1>2 DEF GInv
  <2>2. \A d \in Conns : ~Finish(d)
    BY <2>1, <1>2, FinishCalls
  <2>3. Receive
    BY <2>2, <1>2
    DEF Next, Begin, Decline, Upload, Abort, ReceiveFails, Unheard, Execute, Refuse, Peer,
        Calm, httpVars, dhtVars, vars
  <2>4. /\ waiting \in Conns /\ \E status, value : Respond(waiting, status, value)
        /\ Told(response'[waiting]) = answer[Gateway]
    BY <2>3, <1>2, ReceiveTells
  <2>5. c = waiting /\ response'[c].to = request[c]
    BY <2>1, <2>4, <1>2 DEF Respond, TypeOK
  <2>6. CASE response'[c].status = 201
    BY <2>4, <2>5, <2>6, ToldIs
  <2>7. CASE response'[c].status = 200
    <3>1. request[c].method \in {"GET", "DELETE"}
      <4>1. Answer(c, rpcResult(call[Gateway].cmd, answer[Gateway]))
        BY <2>3, <2>5 DEF Receive
      <4>2. ASSUME NEW status, NEW value, Respond(c, status, value)
            PROVE  response'[c].status = status
        BY <4>2, <2>1 DEF Respond, TypeOK
      <4>3. request[c].method \in {"GET", "DELETE", "POST"}
        <5>1. request[c] \in Requests(c) \cup {NoRequest} /\ request[c] # NoRequest
          BY <2>1, <2>5, <1>2, HttpGatewayAssumption DEF TypeOK, GInv, Blocked
        <5> QED BY <5>1 DEF Requests, Calm
      <4> QED BY <4>1, <4>2, <4>3, <2>7 DEF Answer
    <3> QED BY <3>1, <2>4, <2>5, <2>7, ToldIs
  <2> QED BY <2>6, <2>7, <1>2
<1>3. GInv /\ [Next]_vars
      => [\A c \in Conns :
            /\ response'[c] # response[c]
            /\ response'[c].status \in {200, 201}
            => answer[Gateway].cmd \in {"OK!", "VAL"}]_vars
  BY <1>2
<1>4. Calm /\ GInv /\ [Next]_vars => GInv'
  BY GStep
<1> QED BY <1>1, <1>3, <1>4, GInit, PTL DEF Spec, SuccessIsReal
==============================================================================
