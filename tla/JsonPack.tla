------------------------------- MODULE JsonPack -------------------------------
(***************************************************************************)
(* json_pack and json_unpack (jansson-2.7/src/pack_unpack.c): values out   *)
(* of a format and arguments, and back, with the blocks and the references *)
(* that are held when a format is wrong, an argument is NULL or a malloc   *)
(* fails.                                                                  *)
(*                                                                         *)
(* The arguments have the types that the format asks for; the i-th one is  *)
(* its number i.  i stands for i, I and b, which differ in the type only.  *)
(***************************************************************************)
EXTENDS Integers, Sequences, SequencesExt, FiniteSets

NoFailure == 99
End == "end"     \* the NUL that ends a format
NoToken == "none"
Ignored == {" ", ",", ":"}
NULL == <<"NULL", <<>>>>

\* blocks and references of a value
RECURSIVE Blocks(_)
Blocks(v) ==
  CASE v[1] = "NULL" \/ v[1] = "null" -> 0
    [] v[1] = "string" -> 2
    [] v[1] = "array" -> 2 + FoldLeft(LAMBDA n, w : n + Blocks(w), 0, v[2])
    [] v[1] = "object" -> 2 + FoldLeft(LAMBDA n, i : n + 1 + Blocks(i.value), 0, v[2])
    [] OTHER -> 1    \* a number, or a reference of a value that was passed

------------------------------------------------------------------------------
(* The scanner; over: was the format read beyond its end?                     *)

\* the token at p
TokenAt(m, p) ==
  [m EXCEPT !.prev = m.tok, !.pos = p + 1, !.tok = IF p > Len(m.fmt) THEN End ELSE m.fmt[p]]

next_token(m) ==
  IF m.next # NoToken THEN [m EXCEPT !.prev = m.tok, !.tok = m.next, !.next = NoToken]
  ELSE IF m.tok = End THEN [m EXCEPT !.over = TRUE]
  ELSE TokenAt(m, CHOOSE q \in m.pos .. Len(m.fmt) + 1 :
                    /\ \A r \in m.pos .. q - 1 : m.fmt[r] \in Ignored
                    /\ q > Len(m.fmt) \/ m.fmt[q] \notin Ignored)

\* mutant: the token that was looked at is lost
prev_tokenLost(m) == [m EXCEPT !.tok = m.prev]

prev_token(m) == [m EXCEPT !.next = m.tok, !.tok = m.prev]

\* the format, the flags, the argument that is NULL (0: none), the strings among
\* the arguments where they are not their numbers, and the malloc that fails
scanner_init(fmt, flags, null, args, left) ==
  next_token([fmt |-> fmt, flags |-> flags, null |-> null, args |-> args, left |-> left,
              pos |-> 1, prev |-> NoToken, tok |-> NoToken, next |-> NoToken,
              over |-> FALSE, arg |-> 1, live |-> 0, lost |-> 0, fault |-> FALSE,
              keys |-> <<>>, got |-> <<>>, refs |-> 0, ours |-> FALSE, ret |-> NULL])

\* va_arg; a string that is not UTF-8
Invalid == -1
Argument(m) == IF m.arg \in DOMAIN m.args THEN m.args[m.arg] ELSE m.arg
IsNull(m) == m.arg = m.null
Taken(m) == [m EXCEPT !.arg = @ + 1]

Fails(m, n) == m.left < n
Allocate(m, n) ==
  IF Fails(m, n) THEN [m EXCEPT !.left = NoFailure, !.ret = NULL]
  ELSE [m EXCEPT !.left = IF @ = NoFailure THEN @ ELSE @ - n, !.live = @ + n]
Free(m, n) == [m EXCEPT !.live = @ - n]
Fail(m, n) == [m EXCEPT !.live = @ - n, !.ret = NULL]
Return(m, v) == [m EXCEPT !.ret = v]
New(m, n, v) == IF Fails(m, n) THEN Allocate(m, n) ELSE Return(Allocate(m, n), v)

------------------------------------------------------------------------------
(* pack                                                                       *)

(* read_string: the token behind the s tells whether there are lengths, or more strings. *)
(* A buffer of our own that has something that is not UTF-8 is freed again.              *)

Utf8(m, chars, own) ==
  IF Invalid \in ToSet(chars) THEN Fail(m, own) ELSE Return(m, <<"chars", chars>>)

Length(m) == IF m.tok \in {"#", "%"} THEN Taken(m) ELSE prev_token(m)

RECURSIVE read_parts(_, _)
more_parts(m, chars) ==
  IF m.tok = "+" THEN read_parts(m, chars) ELSE Utf8(prev_token(m), chars, 1)

\* The buffer doubles when it is full; every string nearly fills the first one.
Full(chars) == \E i \in 0 .. Len(chars) : Len(chars) = 2 ^ i

\* strbuffer_append_bytes; a larger buffer takes the place of the old one
append_part(m, chars, part) ==
  IF Full(chars) /\ Fails(m, 1) THEN Fail(Allocate(m, 1), 1)
  ELSE more_parts(next_token(IF Full(chars) THEN Free(Allocate(m, 1), 1) ELSE m),
                  Append(chars, part))

\* the strings of s#+#+..., one after the other in the buffer
read_parts(m, chars) ==
  IF IsNull(m) THEN Fail(Taken(m), 1)
  ELSE append_part(Length(next_token(Taken(m))), chars, Argument(m))

\* the buffer is not checked: without it the first string is copied to address 0
read_buffer(m) ==
  IF Fails(m, 1) THEN [Allocate(m, 1) EXCEPT !.fault = TRUE]
  ELSE read_parts([Allocate(m, 1) EXCEPT !.ours = TRUE], <<>>)

read_one(m) ==
  IF IsNull(m) THEN Fail(Taken(m), 0)
  ELSE Utf8([Taken(m) EXCEPT !.ours = FALSE], <<Argument(m)>>, 0)

read_peeked(m) ==
  IF m.tok \in {"#", "%", "+"} THEN read_buffer(prev_token(m)) ELSE read_one(prev_token(m))

read_string(m) == read_peeked(next_token(m))

IndexOf(items, key) == SelectInSeq(items, LAMBDA i : i.key = key)

\* the value of a key that is there is replaced
Insert(items, key, value) ==
  IF IndexOf(items, key) = 0 THEN Append(items, [key |-> key, value |-> value])
  ELSE [items EXCEPT ![IndexOf(items, key)].value = value]

Stored(m, items, old) ==
  IF old = 0 THEN Allocate(m, 1) ELSE Free(m, Blocks(items[old].value))

RECURSIVE pack(_), pack_items(_, _, _), pack_elements(_, _, _)

\* pack_object, step by step; made: is there an object?
Object(items, made) == IF made THEN <<"object", items>> ELSE NULL

\* the value is in ret; ours: 1 if the key is a block of its own, whose end the message
\* of an error has again after it was freed
pack_item(m, key, ours, items, made) ==
  IF m.ret = NULL THEN Fail(m, Blocks(Object(items, made)) + ours)
  ELSE IF ~made \/ (IndexOf(items, key) = 0 /\ Fails(m, 1))
    THEN [Fail(IF made THEN Allocate(m, 1) ELSE m,
               Blocks(Object(items, made)) + ours + Blocks(m.ret))
            EXCEPT !.fault = (@ \/ ours = 1)]
  ELSE pack_items(next_token(Free(Stored(m, items, IndexOf(items, key)), ours)),
                  Insert(items, key, m.ret), made)

\* the key is in ret
pack_named(m, items, made) ==
  IF m.ret = NULL THEN Fail(m, Blocks(Object(items, made)))
  ELSE pack_item(pack(next_token(m)), m.ret[2], IF m.ours THEN 1 ELSE 0, items, made)

\* from the token that may end the object
pack_items(m, items, made) ==
  CASE m.tok = "}" -> Return(m, Object(items, made))
    [] m.tok = "s" ->
         pack_named(read_string([m EXCEPT !.keys = Append(@, Argument(m))]), items, made)
    [] OTHER -> Fail(m, Blocks(Object(items, made)))

pack_object(m) == pack_items(next_token(Allocate(m, 2)), <<>>, ~Fails(m, 2))

Array(elems, made) == IF made THEN <<"array", elems>> ELSE NULL

pack_element(m, elems, made) ==
  IF m.ret = NULL THEN Fail(m, Blocks(Array(elems, made)))
  ELSE IF ~made THEN Fail(m, Blocks(m.ret))
  ELSE pack_elements(next_token(m), Append(elems, m.ret), made)

pack_elements(m, elems, made) ==
  CASE m.tok = "]" -> Return(m, Array(elems, made))
    [] m.tok = End -> Fail(m, Blocks(Array(elems, made)))
    [] OTHER -> pack_element(pack(m), elems, made)

pack_array(m) == pack_elements(next_token(Allocate(m, 2)), <<>>, ~Fails(m, 2))

\* the chars are in ret; a buffer of our own is lost when there is no block for the value
NewString(m) ==
  IF m.ret = NULL THEN m
  ELSE IF ~m.ours THEN New(m, 2, <<"string", m.ret[2]>>)
  ELSE IF Fails(m, 1) THEN [Allocate(m, 1) EXCEPT !.lost = @ + 1]
  ELSE New(m, 1, <<"string", m.ret[2]>>)

pack_string(m) == NewString(read_string(m))

pack(m) ==
  CASE m.tok = "{" -> pack_object(m)
    [] m.tok = "[" -> pack_array(m)
    [] m.tok = "s" -> pack_string(m)
    [] m.tok = "n" -> Return(m, <<"null", <<>>>>)
    [] m.tok \in {"i", "f"} -> Taken(New(m, 1, <<m.tok, <<m.arg>>>>))
    [] m.tok \in {"o", "O"} /\ IsNull(m) -> Return(Taken(m), NULL)
    [] m.tok \in {"o", "O"} /\ ~IsNull(m) ->   \* a reference is given, or made
         Taken([m EXCEPT !.live = @ + 1, !.ret = <<"passed", <<m.arg>>>>])
    [] OTHER -> Return(m, NULL)

\* m has read the token behind the value
expect_end(m) == IF m.tok = End THEN m ELSE Fail(m, Blocks(m.ret))
pack_end(m) == IF m.ret = NULL THEN m ELSE expect_end(next_token(m))

json_vpack_ex(fmt, null, args, left) ==
  IF fmt = <<>> THEN Return(scanner_init(fmt, {}, null, args, left), NULL)
  ELSE pack_end(pack(scanner_init(fmt, {}, null, args, left)))

------------------------------------------------------------------------------
(* unpack: ret becomes "ok" or NULL, got the values that targets were given,   *)
(* refs the references that O has taken                                       *)

OK == <<"ok", <<>>>>
Starters == {"{", "[", "s", "i", "f", "F", "O", "o", "n"}

\* is v what the format character asks for?
Fits(v, c) ==
  CASE c = "F" -> v[1] \in {"i", "f"}
    [] c = "s" -> v[1] = "string"
    [] c = "n" -> v[1] = "null"
    [] c \in {"o", "O"} -> TRUE
    [] OTHER -> v[1] = c

Assign(m, v) ==
  IF "VALIDATE_ONLY" \in m.flags THEN m
  ELSE IF v = NULL THEN Taken(m)
  ELSE Taken([m EXCEPT !.got = Append(@, <<m.arg, v>>)])

\* a length after the string; it is not looked for when only validating
LengthTarget(m) == IF m.tok = "%" THEN Taken(m) ELSE prev_token(m)
StringTarget(m) ==
  IF "VALIDATE_ONLY" \in m.flags THEN m ELSE LengthTarget(next_token(m))

unpack_leaf(m, v) ==
  IF v # NULL /\ ~Fits(v, m.tok) THEN Return(m, NULL)
  ELSE CASE m.tok = "s" ->
              IF "VALIDATE_ONLY" \notin m.flags /\ IsNull(m) THEN Return(Taken(m), NULL)
              ELSE Return(StringTarget(Assign(m, v)), OK)
         [] m.tok = "n" -> Return(m, OK)
         [] m.tok = "O" /\ v # NULL /\ "VALIDATE_ONLY" \notin m.flags ->
              Return([Assign(m, v) EXCEPT !.refs = @ + 1], OK)
         [] OTHER -> Return(Assign(m, v), OK)

RECURSIVE unpack(_, _), unpack_items(_, _), unpack_elements(_, _, _, _)

Strict(m, strict) == strict = "!" \/ (strict = "" /\ "STRICT" \in m.flags)

(* unpack_object, step by step; o is the object: its value, the key set, the mark *)
(* that was met, and whether there was a ? so far                                *)

Item(v, key) ==
  IF v = NULL \/ IndexOf(v[2], key) = 0 THEN NULL ELSE v[2][IndexOf(v[2], key)].value

\* a block of the key set, which goes at the end; whether it can be had is not checked
Briefly(m) == [Allocate(m, 1) EXCEPT !.live = m.live, !.ret = m.ret]

set_key(m, o, key) ==
  IF m.ret = NULL THEN m
  ELSE IF key \in o.keys THEN unpack_items(next_token(m), o)
  ELSE unpack_items(next_token(Briefly(m)),
                    [o EXCEPT !.keys = IF Fails(m, 1) THEN @ ELSE @ \cup {key}])

unpack_item(m, o, key, optional) ==
  IF o.value # NULL /\ Item(o.value, key) = NULL /\ ~optional THEN Return(m, NULL)
  ELSE set_key(unpack(m, Item(o.value, key)), o, key)

\* m has read the token behind the key
unpack_named(m, o, key) ==
  IF m.tok = "?" THEN unpack_item(next_token(m), [o EXCEPT !.opt = TRUE], key, TRUE)
  ELSE unpack_item(m, o, key, FALSE)

Unread(o) == IF o.opt THEN {i \in ToSet(o.value[2]) : i.key \notin o.keys} # {}
             ELSE Len(o.value[2]) # Cardinality(o.keys)

unpack_items(m, o) ==
  CASE m.tok = "}" ->
         Return(m, IF o.value # NULL /\ Strict(m, o.strict) /\ Unread(o) THEN NULL ELSE OK)
    [] m.tok \in {"!", "*"} /\ o.strict = "" ->
         unpack_items(next_token(m), [o EXCEPT !.strict = m.tok])
    [] m.tok = "s" /\ o.strict = "" /\ ~IsNull(m) ->
         unpack_named(next_token(Taken(m)), o, <<Argument(m)>>)
    [] OTHER -> Return(m, NULL)

unpack_object(m, v) ==
  IF Fails(m, 1) THEN Allocate(m, 1)
  ELSE IF v # NULL /\ v[1] # "object" THEN Return(m, NULL)
  ELSE unpack_items(next_token(Briefly(m)),
                    [value |-> v, keys |-> {}, strict |-> "", opt |-> FALSE])

unpack_element(m, v, i) ==
  IF m.ret = NULL THEN m ELSE unpack_elements(next_token(m), v, i + 1, "")

unpack_elements(m, v, i, strict) ==
  CASE m.tok = "]" ->
         Return(m, IF v # NULL /\ Strict(m, strict) /\ Len(v[2]) # i - 1 THEN NULL ELSE OK)
    [] m.tok \in {"!", "*"} /\ strict = "" -> unpack_elements(next_token(m), v, i, m.tok)
    [] m.tok \in Starters /\ strict = "" /\ (v = NULL \/ i <= Len(v[2])) ->
         unpack_element(unpack(m, IF v = NULL THEN NULL ELSE v[2][i]), v, i)
    [] OTHER -> Return(m, NULL)

unpack_array(m, v) ==
  IF v # NULL /\ v[1] # "array" THEN Return(m, NULL)
  ELSE unpack_elements(next_token(m), v, 1, "")

unpack(m, v) ==
  CASE m.tok = "{" -> unpack_object(m, v)
    [] m.tok = "[" -> unpack_array(m, v)
    [] m.tok \in Starters \ {"{", "["} -> unpack_leaf(m, v)
    [] OTHER -> Return(m, NULL)

unpack_end(m) == IF m.ret = NULL \/ next_token(m).tok # End THEN Return(m, NULL) ELSE next_token(m)

json_vunpack_ex(v, fmt, flags, args, left) ==
  IF v = NULL \/ fmt = <<>> THEN Return(scanner_init(fmt, flags, 0, args, left), NULL)
  ELSE unpack_end(unpack(scanner_init(fmt, flags, 0, args, left), v))

=============================================================================
