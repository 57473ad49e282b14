------------------------------ MODULE JsonParser ------------------------------
(***************************************************************************)
(* The parser of jansson-2.7/src/load.c, lines 676 to 1105: json_loads,    *)
(* json_loadb, json_loadf, json_load_file and json_load_callback, with the *)
(* blocks that they allocate, free and hand over, when any one malloc may  *)
(* fail.                                                                   *)
(*                                                                         *)
(* A JSON value is <<type, content>>; the content of an object is the      *)
(* sequence of its items in the order of their insertion.  The scanner's   *)
(* buffer is assumed to grow when it has to: lex_save ignores its failure. *)
(***************************************************************************)
EXTENDS JsonLexer

CONSTANTS
  FirstSize,   \* entries that a new array has room for, 8 in the code
  MAX_BUF_LEN  \* bytes that a callback is asked for at a time

NoFailure == 99

NULL == <<"NULL", <<>>>>

\* blocks of a value: its own, the characters of a string, a pair per item
RECURSIVE Blocks(_)
Blocks(v) ==
  CASE v[1] = "string" -> 2
    [] v[1] = "array" -> 2 + FoldLeft(LAMBDA n, w : n + Blocks(w), 0, v[2])
    [] v[1] = "object" ->
         2 + FoldLeft(LAMBDA n, i : n + 1 + Blocks(i.value), 0, v[2])
    [] v[1] \in {"NULL", "word"} -> 0
    [] OTHER -> 1

(* A call's state: the tokens of the text and the flags, the last token and whether the  *)
(* scanner owns a string of it, the blocks allocated (live), the mallocs until *)
(* one fails (left), and the value that the last operator returned (ret)      *)

\* n blocks are allocated in a row, or none of them
Allocate(m, n) ==
  IF m.left < n THEN [m EXCEPT !.left = NoFailure, !.ret = NULL]
  ELSE [m EXCEPT !.left = IF @ = NoFailure THEN @ ELSE @ - n, !.live = @ + n]
Fails(m, n) == m.left < n
Free(m, n) == [m EXCEPT !.live = @ - n]
Fail(m, n) == [Free(m, n) EXCEPT !.ret = NULL]
Return(m, v) == [m EXCEPT !.ret = v]

\* lex_scan and the string that it allocates or frees
Scanned(m, t) ==
  IF t.type # "string" THEN [m EXCEPT !.tok = t, !.own = FALSE]
  ELSE IF Fails(m, 1) THEN [Allocate(m, 1) EXCEPT !.tok = Invalid(t.pos), !.own = FALSE]
  ELSE [Allocate(m, 1) EXCEPT !.tok = t, !.own = TRUE]

Scan(m) == Scanned(IF m.own THEN Free(m, 1) ELSE m, m.tokens[m.tok.pos])

HasNul(chars) == Find(chars, 0) # 0
IndexOf(items, key) == SelectInSeq(items, LAMBDA i : i.key = key)

\* json_object_set_nocheck: the value of a key that is there is replaced
Insert(items, key, value) ==
  IF IndexOf(items, key) = 0 THEN Append(items, [key |-> key, value |-> value])
  ELSE [items EXCEPT ![IndexOf(items, key)].value = value]

Grows(items) == Len(items) \in {FirstSize * 2^k : k \in 0 .. 3}

RECURSIVE parse_value(_), parse_items(_, _), parse_elements(_, _)

\* parse_object, step by step: items are those so far, and a failure frees them

next_item(m, items) ==
  CASE Is(m.tok, 44) -> parse_items(Scan(m), items)
    [] Is(m.tok, 125) -> Return(m, <<"object", items>>)
    [] OTHER -> Fail(m, Blocks(<<"object", items>>))

\* memory for a pair, which has its own copy of the key; or the old value goes
Stored(m, items, old) ==
  IF old = 0 THEN Allocate(m, 1) ELSE Free(m, Blocks(items[old].value))

\* mutant: the key is not freed when no value follows it
set_itemLeaks(m, items, key) ==
  IF m.ret = NULL THEN Fail(m, Blocks(<<"object", items>>))
  ELSE next_item(Scan(Free(Stored(m, items, IndexOf(items, key)), 1)),
                 Insert(items, key, m.ret))

\* the value is in ret
set_item(m, items, key) ==
  IF m.ret = NULL THEN Fail(m, Blocks(<<"object", items>>) + 1)
  ELSE IF IndexOf(items, key) = 0 /\ Fails(m, 1)
    THEN Fail(Allocate(m, 1), Blocks(<<"object", items>>) + 1 + Blocks(m.ret))
  ELSE next_item(Scan(Free(Stored(m, items, IndexOf(items, key)), 1)),
                 Insert(items, key, m.ret))

parse_colon(m, items, key) ==
  IF ~Is(m.tok, 58) THEN Fail(m, Blocks(<<"object", items>>) + 1)
  ELSE set_item(parse_value(Scan(m)), items, key)

\* the key was taken from the scanner
parse_named(m, items, key) ==
  IF HasNul(key) \/ ("REJECT_DUPLICATES" \in m.flags /\ IndexOf(items, key) # 0)
    THEN Fail(m, Blocks(<<"object", items>>) + 1)
  ELSE parse_colon(Scan(m), items, key)

parse_items(m, items) ==
  IF m.tok.type # "string" THEN Fail(m, Blocks(<<"object", items>>))
  ELSE parse_named([m EXCEPT !.own = FALSE], items, m.tok.value)

first_item(m) ==
  IF Is(m.tok, 125) THEN Return(m, <<"object", <<>>>>) ELSE parse_items(m, <<>>)

parse_object(m) ==
  IF Fails(m, 2) THEN Allocate(m, 2) ELSE first_item(Scan(Allocate(m, 2)))

\* parse_array in the same way

next_element(m, elems) ==
  CASE Is(m.tok, 44) -> parse_elements(Scan(m), elems)
    [] Is(m.tok, 93) -> Return(m, <<"array", elems>>)
    [] OTHER -> Fail(m, Blocks(<<"array", elems>>))

append_element(m, elems) ==
  IF m.ret = NULL THEN Fail(m, Blocks(<<"array", elems>>))
  ELSE IF Grows(elems) /\ Fails(m, 1)
    THEN Fail(Allocate(m, 1), Blocks(<<"array", elems>>) + Blocks(m.ret))
  ELSE next_element(Scan(IF Grows(elems) THEN Free(Allocate(m, 1), 1) ELSE m),
                    Append(elems, m.ret))

parse_elements(m, elems) ==
  IF m.tok.type = "eof" THEN Fail(m, Blocks(<<"array", elems>>))
  ELSE append_element(parse_value(m), elems)

first_element(m) ==
  IF Is(m.tok, 93) THEN Return(m, <<"array", <<>>>>) ELSE parse_elements(m, <<>>)

parse_array(m) ==
  IF Fails(m, 2) THEN Allocate(m, 2) ELSE first_element(Scan(Allocate(m, 2)))

\* the string that the scanner owns becomes the value's
ParseString(m) ==
  IF HasNul(m.tok.value) /\ "ALLOW_NUL" \notin m.flags THEN Return(m, NULL)
  ELSE IF Fails(m, 1) THEN Allocate(m, 1)
  ELSE Return([Allocate(m, 1) EXCEPT !.own = FALSE], <<"string", m.tok.value>>)

ParseNumber(m) ==
  LET n == m.tok
      type == IF "DECODE_INT_AS_REAL" \in m.flags THEN "real" ELSE n.type
  IN  IF Fails(m, 1) THEN Allocate(m, 1)
      ELSE Return(Allocate(m, 1), <<type, n.value>>)

parse_value(m) ==
  CASE m.tok.type = "string" -> ParseString(m)
    [] m.tok.type \in {"integer", "real"} -> ParseNumber(m)
    [] m.tok.type = "word" -> Return(m, <<"word", m.tok.value>>)
    [] Is(m.tok, 123) -> parse_object(m)
    [] Is(m.tok, 91) -> parse_array(m)
    [] OTHER -> Return(m, NULL)

\* m has read the token behind the value
expect_eof(m) == IF m.tok.type = "eof" THEN m ELSE Fail(m, Blocks(m.ret))

parse_end(m) ==
  IF m.ret = NULL \/ "DISABLE_EOF_CHECK" \in m.flags THEN m ELSE expect_eof(Scan(m))

parse_first(m) ==
  IF "DECODE_ANY" \notin m.flags /\ ~Is(m.tok, 91) /\ ~Is(m.tok, 123) THEN Return(m, NULL)
  ELSE parse_end(parse_value(m))

parse_json(m) == parse_first(Scan(m))

------------------------------------------------------------------------------
\* the token that is read at each position
Tokens(s) == [p \in 1 .. Len(s.bytes) + 2 |-> lex_scan(s, p)]

\* lex_init, and lex_close: what is returned and how many blocks are left
Opened(bytes, flags, left) ==
  [tokens |-> Tokens(Stream(bytes)), flags |-> flags, tok |-> Invalid(1), own |-> FALSE,
   live |-> 0, left |-> left, ret |-> NULL]

Closed(m) == [ret |-> m.ret, live |-> m.live - 1 - (IF m.own THEN 1 ELSE 0), pos |-> m.tok.pos]

Nothing == [ret |-> NULL, live |-> 0, pos |-> 1]

Load(bytes, flags, left) ==
  IF left < 1 THEN Nothing ELSE Closed(parse_json(Allocate(Opened(bytes, flags, left), 1)))

json_loads(text, flags, left) == Load(UpToNul(text), flags, left)

json_loadb(text, flags, left) == Load(text, flags, left)

json_loadf(text, flags, left) == Load(text, flags, left)

json_load_file(opens, text, flags, left) ==
  IF opens THEN json_loadf(text, flags, left)
  ELSE Nothing

\* a callback that fails, after so many calls, ends the text
json_load_callback(calls, text, flags, left) ==
  LET n == MAX_BUF_LEN * calls
  IN  Load(IF n < Len(text) THEN SubSeq(text, 1, n) ELSE text, flags, left)
=============================================================================
