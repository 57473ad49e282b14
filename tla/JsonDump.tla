------------------------------- MODULE JsonDump -------------------------------
(***************************************************************************)
(* Writing a JSON value as text (jansson-2.7/src/dump.c): the calls of the *)
(* program's callback, the marks that find circular references, and every  *)
(* way out when a call fails.                                              *)
(*                                                                         *)
(* The recursion of do_dump is a list of what is left to do.               *)
(***************************************************************************)
EXTENDS JsonUtf8

CONSTANTS
  Heaps,     \* the values to write: address -> type, and the bytes or items there
  FlagSets,  \* the flags of a call, INDENT for one space
  Root       \* the address that calls pass

VARIABLES
  heap,      \* the value
  flags,     \* of the call
  todo,      \* what is left to do, the next step first
  visited,   \* containers whose mark is set
  text,      \* what the callback has got
  refused,   \* did the callback, or a malloc, fail in this call?
  torn,      \* was a part of a key lost?
  ret        \* "none" before the first call, "busy", then "ok" (0) or "failed" (-1)

vars == <<heap, flags, todo, visited, text, refused, torn, ret>>

Write(bytes) == [op |-> "write", bytes |-> bytes, addr |-> 0, depth |-> 0]
Dump(addr, depth) == [op |-> "dump", bytes |-> <<>>, addr |-> addr, depth |-> depth]
Key(bytes) == [op |-> "key", bytes |-> bytes, addr |-> 0, depth |-> 0]
Leave(addr) == [op |-> "leave", bytes |-> <<>>, addr |-> addr, depth |-> 0]
Sort == [op |-> "sort", bytes |-> <<>>, addr |-> 0, depth |-> 0]
Give_up == [op |-> "error", bytes |-> <<>>, addr |-> 0, depth |-> 0]

Container(a) == heap[a].type \in {"array", "object"}

dump_indent(depth, space) ==
  IF "INDENT" \in flags
    THEN <<Write(<<10>>)>> \o [i \in 1 .. depth |-> Write(<<32>>)]
  ELSE IF space /\ "COMPACT" \notin flags THEN <<Write(<<32>>)>>
  ELSE <<>>

------------------------------------------------------------------------------
(* dump_string: runs of plain characters, and escapes                         *)

Hex(d) == IF d < 10 THEN 48 + d ELSE 55 + d
EscapeU(unit) == <<92, 117>> \o [i \in 1 .. 4 |-> Hex(Bits(unit, 16 - 4 * i, 4))]

MustEscape(c) ==
  \/ c < 32 \/ c \in {34, 92}
  \/ "ESCAPE_SLASH" \in flags /\ c = 47
  \/ "ENSURE_ASCII" \in flags /\ c > 127

Escaped(c) ==
  CASE c \in {34, 92, 47} -> <<92, c>>
    [] c = 8 -> <<92, 98>> [] c = 9 -> <<92, 116>> [] c = 10 -> <<92, 110>>
    [] c = 12 -> <<92, 102>> [] c = 13 -> <<92, 114>>
    [] c > 65535 -> EscapeU(55296 + Bits(c - 65536, 10, 10))
                      \o EscapeU(56320 + Bits(c - 65536, 0, 10))
    [] OTHER -> EscapeU(c)

IsPlain(c) == c.codepoint # NotUtf8 /\ ~MustEscape(c.codepoint)

\* where the run of plain characters that starts at p ends
RunEnd(s, p) ==
  LET end[q \in p .. Len(s) + 1] ==
        IF q <= Len(s) /\ IsPlain(utf8_iterate(s, q))
          THEN end[q + utf8_check_first(s[q])] ELSE q
  IN  end[p]

Run(s, p, q) == IF p = q THEN <<>> ELSE <<Write(SubSeq(s, p, q - 1))>>

RECURSIVE Chunks(_, _)
\* a run, and the character c that ends it: the run is not written if c cannot be decoded
RunAnd(s, run, c) ==
  IF c.codepoint = NotUtf8 THEN <<Give_up>>
  ELSE run \o <<Write(Escaped(c.codepoint))>> \o Chunks(s, c.next)

ChunksTo(s, p, q) ==
  IF q > Len(s) THEN Run(s, p, q) ELSE RunAnd(s, Run(s, p, q), utf8_iterate(s, q))

\* the chunks that dump_string writes from p on, where a run starts
Chunks(s, p) == ChunksTo(s, p, RunEnd(s, p))

Quoted(chunks) ==
  <<Write(<<34>>)>> \o chunks
    \o (IF chunks # <<>> /\ Last(chunks) = Give_up THEN <<>> ELSE <<Write(<<34>>)>>)

dump_string(s) == Quoted(Chunks(s, 1))

------------------------------------------------------------------------------
(* do_dump                                                                    *)

\* what follows the i-th of n items
Between(i, n, depth) ==
  IF i < n THEN <<Write(<<44>>)>> \o dump_indent(depth + 1, TRUE)
  ELSE dump_indent(depth, FALSE)
\* mutant: the mark of an empty container stays
EnclosedKeepsMark(a, open, close, body, depth) ==
  IF body = <<>> THEN <<Write(<<open>>), Write(<<close>>)>>
  ELSE <<Write(<<open>>)>> \o dump_indent(depth + 1, FALSE) \o body
         \o <<Leave(a), Write(<<close>>)>>

Enclosed(a, open, close, body, depth) ==
  <<Write(<<open>>)>>
    \o (IF body = <<>> THEN <<>> ELSE dump_indent(depth + 1, FALSE))
    \o body \o <<Leave(a), Write(<<close>>)>>

Elements(a, depth) ==
  LET items == heap[a].items
  IN  FlattenSeq([i \in DOMAIN items |->
        <<Dump(items[i], depth + 1)>> \o Between(i, Len(items), depth)])

\* strcmp on the bytes of two keys
Before(k, l) ==
  \E i \in 1 .. Len(l) : /\ i > Len(k) \/ k[i] < l[i]
                         /\ \A h \in 1 .. i - 1 : h <= Len(k) /\ k[h] = l[h]

Sorts == flags \cap {"SORT_KEYS", "PRESERVE_ORDER"} # {}

InOrder(items) ==
  CASE "SORT_KEYS" \in flags -> SortSeq(items, LAMBDA x, y : Before(x.key, y.key))
    [] "PRESERVE_ORDER" \in flags /\ "SORT_KEYS" \notin flags ->
         SortSeq(items, LAMBDA x, y : x.serial < y.serial)
    [] OTHER -> items

\* the array to sort the keys in comes first
Members(items, depth) ==
  LET colon == IF "COMPACT" \in flags THEN <<58>> ELSE <<58, 32>>
  IN  (IF Sorts /\ items # <<>> THEN <<Sort>> ELSE <<>>) \o FlattenSeq([i \in DOMAIN items |->
        <<Key(items[i].key), Write(colon), Dump(items[i].value, depth + 1)>>
          \o Between(i, Len(items), depth)])

Expansion(a, depth) ==
  CASE heap[a].type = "array" -> Enclosed(a, 91, 93, Elements(a, depth), depth)
    [] heap[a].type = "object" -> 
         Enclosed(a, 123, 125, Members(InOrder(heap[a].items), depth), depth)
    [] heap[a].type = "string" -> dump_string(heap[a].bytes)
    [] heap[a].type = "real" -> <<Write(jsonp_dtostr(heap[a].bytes))>>
    [] OTHER -> <<Write(heap[a].bytes)>>

\* every call of do_dump that is under way returns -1, and takes its mark away
Unwind(addrs) ==
  /\ visited' = visited \ (addrs \cup {i.addr : i \in {j \in ToSet(todo) : j.op = "leave"}})
  /\ todo' = <<>>
  /\ ret' = "failed"

------------------------------------------------------------------------------
Init ==
  /\ heap \in Heaps /\ flags = {} /\ todo = <<>> /\ visited = {} /\ text = <<>>
  /\ refused = FALSE /\ torn = FALSE /\ ret = "none"

\* json_dump_callback; json_dumps fails when its buffer cannot be had, and
\* json_dump_file when the file cannot be opened
json_dump_callback ==
  /\ ret # "busy"
  /\ flags' \in FlagSets
  /\ text' = <<>> /\ torn' = FALSE
  /\ \/ /\ "ENCODE_ANY" \in flags' \/ Container(Root)
        /\ todo' = <<Dump(Root, 0)>> /\ ret' = "busy" /\ refused' = FALSE
     \/ /\ "ENCODE_ANY" \notin flags' /\ ~Container(Root)
        /\ todo' = <<>> /\ ret' = "failed" /\ refused' = FALSE
     \/ todo' = <<>> /\ ret' = "failed" /\ refused' = TRUE
  /\ UNCHANGED <<heap, visited>>

Pending(op) == ret = "busy" /\ todo # <<>> /\ Head(todo).op = op

do_dump ==
  LET a == Head(todo).addr
  IN  /\ Pending("dump")
      /\ \/ /\ a \notin visited
            /\ todo' = Expansion(a, Head(todo).depth) \o Tail(todo)
            /\ visited' = IF Container(a) THEN visited \cup {a} ELSE visited
            /\ UNCHANGED <<refused, ret>>
         \/ a \in visited /\ Unwind({a}) /\ UNCHANGED refused
      /\ UNCHANGED <<heap, flags, text, torn>>

leave ==
  /\ Pending("leave")
  /\ visited' = visited \ {Head(todo).addr}
  /\ todo' = Tail(todo)
  /\ UNCHANGED <<heap, flags, text, refused, torn, ret>>

write ==
  /\ Pending("write")
  /\ \/ /\ text' = text \o Head(todo).bytes /\ todo' = Tail(todo)
        /\ UNCHANGED <<visited, refused, ret>>
     \/ Unwind({}) /\ refused' = TRUE /\ UNCHANGED text
  /\ UNCHANGED <<heap, flags, torn>>

\* an object's brace is written when the array to sort its keys in is asked for
sort ==
  /\ Pending("sort")
  /\ \/ todo' = Tail(todo) /\ UNCHANGED <<visited, refused, ret>>
     \/ Unwind({}) /\ refused' = TRUE
  /\ UNCHANGED <<heap, flags, text, torn>>

give_up ==
  /\ Pending("error")
  /\ Unwind({})
  /\ UNCHANGED <<heap, flags, text, refused, torn>>

\* the first ones of chunks, as many as the callback takes
write_some(chunks) ==
  \E n \in 0 .. Len(chunks) :
    /\ \A i \in 1 .. n : chunks[i] # Give_up
    /\ text' = text \o FlattenSeq([i \in 1 .. n |-> chunks[i].bytes])
    /\ torn' = (torn \/ n < Len(chunks))
    /\ refused' = (refused \/ (n < Len(chunks) /\ chunks[n + 1] # Give_up))

\* dump_string of a key: what it returns is ignored
key ==
  /\ Pending("key")
  /\ write_some(dump_string(Head(todo).bytes))
  /\ todo' = Tail(todo)
  /\ UNCHANGED <<heap, flags, visited, ret>>

\* json_dumps returns a copy of its buffer, which may fail
finish ==
  /\ ret = "busy" /\ todo = <<>>
  /\ \/ ret' = "ok" /\ UNCHANGED refused
     \/ ret' = "failed" /\ refused' = TRUE
  /\ UNCHANGED <<heap, flags, todo, visited, text, torn>>

Next == json_dump_callback \/ do_dump \/ leave \/ write \/ sort \/ give_up \/ key \/ finish

Spec == Init /\ [][Next]_vars

------------------------------------------------------------------------------
\* what the value at a reaches
Items(a) ==
  CASE heap[a].type = "array" -> ToSet(heap[a].items)
    [] heap[a].type = "object" -> {i.value : i \in ToSet(heap[a].items)}
    [] OTHER -> {}

Reached ==
  LET R[n \in 0 .. Cardinality(DOMAIN heap)] ==
        IF n = 0 THEN {Root} ELSE R[n - 1] \cup UNION {Items(a) : a \in R[n - 1]}
  IN  R[Cardinality(DOMAIN heap)]

Circular(a) ==
  LET R[n \in 0 .. Cardinality(DOMAIN heap)] ==
        IF n = 0 THEN Items(a) ELSE R[n - 1] \cup UNION {Items(b) : b \in R[n - 1]}
  IN  a \in R[Cardinality(DOMAIN heap)]

Undecodable(s) == utf8_check_string(s) <= Len(s)

\* No mark outlives a call, whichever way it ends, and a call fails only for a
\* reason: so a value shared by two containers is written twice, and one that was
\* circular, or whose text the program refused, can be written later.  (do_dump)
DumpExplained ==
  /\ ret # "busy" => visited = {}
  /\ ret = "failed" =>
       \/ refused
       \/ ~Container(Root) /\ "ENCODE_ANY" \notin flags
       \/ \E a \in Reached : \/ Circular(a)
                             \/ heap[a].type = "string" /\ Undecodable(heap[a].bytes)
  /\ ret = "ok" => \A a \in Reached : ~Circular(a)
=============================================================================
