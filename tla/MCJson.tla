-------------------------------- MODULE MCJson --------------------------------
(***************************************************************************)
(* The parts of jansson in one run: a behaviour belongs to one part, and   *)
(* the variables of the others stay at a value without meaning.  The pure  *)
(* functions, on texts and on formats, are called once with each input.    *)
(* OneSeed is that of JsonSeed.                                            *)
(***************************************************************************)
EXTENDS JsonValue, JsonSeed

VARIABLES
  part,
  pair, table, size, result, alive,                          \* JsonHashtable
  heap, flags, todo, visited, text, refused, torn, ret,      \* JsonDump
  input, output                                              \* a call and its result

tableVars == <<pair, table, size, result, alive>>
valueVars == vars    \* of JsonValue
dumpVars == <<heap, flags, todo, visited, text, refused, torn, ret>>
callVars == <<input, output>>

------------------------------------------------------------------------------
(* JsonHashtable: keys 1 to 3 collide in the first table, 4 never does         *)

Table == INSTANCE JsonHashtable WITH
  Keys <- 1 .. 4, Values <- {7, 8}, hash_str <- <<0, 4, 8, 2>>,
  FirstOrder <- 0, MaxPairs <- 3, MallocFails <- TRUE

NoTable == Table!Init

(* JsonValue: its definitions, under their own names *)

NoValue == node = <<>> /\ held = [a \in Addrs |-> 0] /\ fault = TRUE

------------------------------------------------------------------------------
(* JsonDump: three values that refer to one another, also in a circle         *)

Leaf(type, bytes) == [type |-> type, bytes |-> bytes, items |-> <<>>]
Container(type, items) == [type |-> type, bytes |-> <<>>, items |-> items]
Item(k, serial, value) == [key |-> k, serial |-> serial, value |-> value]

First ==
  {Container("array", <<2, 2>>), Container("array", <<3, 2>>),
   Container("object", <<Item(<<98>>, 1, 2), Item(<<97, 34>>, 0, 3)>>),
   Container("object",
             <<Item(<<97, 97>>, 1, 2), Item(<<97>>, 2, 3), Item(<<195, 169>>, 0, 3)>>),
   Container("object", <<Item(<<97, 255>>, 0, 3)>>), Leaf("string", <<97>>)}
Second ==
  {Container("array", <<>>), Container("object", <<>>), Container("array", <<1>>),
   Container("object", <<Item(<<97>>, 0, 3)>>)}
Third ==
  {Leaf("string", s) : s \in {<<>>, <<97, 34, 92, 47, 1, 10, 98>>, <<195, 169>>,
                              <<97, 240, 159, 152, 128>>, <<97, 255>>}}
    \cup {Leaf("integer", <<45, 49>>), Leaf("real", <<49>>),
          Leaf("real", <<49, 101, 43, 48, 50>>), Leaf("real", <<49, 101, 45, 48, 50>>)}

Dumper == INSTANCE JsonDump WITH
  Heaps <- {<<a, b, c>> : a \in First, b \in Second, c \in Third}, Root <- 1,
  FlagSets <- {{"SORT_KEYS", "INDENT"}, {"PRESERVE_ORDER", "COMPACT", "ENSURE_ASCII"},
               {"ESCAPE_SLASH", "ENCODE_ANY"}}

NoDump ==
  /\ heap = <<Leaf("word", <<>>)>> /\ flags = {} /\ todo = <<>> /\ visited = {}
  /\ text = <<>> /\ refused = TRUE /\ torn = TRUE /\ ret = "none"

------------------------------------------------------------------------------
(* JsonParser: texts of at most three pieces, and documents one piece of which is  *)
(* removed or replaced                                                             *)

Parser == INSTANCE JsonParser WITH
  MaxInteger <- 9, MaxExponent <- 2, FirstSize <- 1, MAX_BUF_LEN <- 2
Grammar == INSTANCE JsonGrammar WITH MaxInteger <- 9, MaxExponent <- 2

Chars(s) == <<34>> \o s \o <<34>>
NumberPieces == {<<48>>, <<49>>, <<45>>, <<46>>, <<101>>, <<43>>, <<0>>}
Pieces ==
  NumberPieces \cup {<<91>>, <<93>>, <<123>>, <<125>>, <<44>>, <<58>>, <<34>>, <<32>>, <<92>>,
                     <<195, 169>>, <<195>>, Parser!True, Chars(<<97>>)}

EscapedUnit(digits) == <<92, 117>> \o digits
Documents ==
  {<<<<123>>, Chars(<<97>>), <<58>>, <<49>>, <<44>>, Chars(<<98>>), <<58>>, <<91>>, <<93>>,
     <<125>>>>,
   <<<<123>>, Chars(<<97>>), <<58>>, Chars(<<98>>), <<44>>, Chars(<<97>>), <<58>>, <<50>>,
     <<125>>>>,
   <<<<91>>, <<49>>, <<44>>, Parser!NullWord, <<44>>, <<91>>, <<123>>, <<125>>, <<93>>, <<93>>>>,
   <<<<91>>, <<45>>, <<49>>, <<46>>, <<48>>, <<101>>, <<43>>, <<50>>, <<93>>>>,
   <<<<91>>, <<34>>, EscapedUnit(<<100, 56, 51, 68>>), EscapedUnit(<<68, 69, 48, 48>>),
     <<92, 110>>, EscapedUnit(<<48, 48, 48, 48>>), <<34>>, <<93>>>>,
   <<<<123>>, <<34>>, EscapedUnit(<<48, 48, 48, 48>>), <<34>>, <<58>>, <<49>>, <<125>>>>}

Edited(d, some) ==
  {d} \cup {RemoveAt(d, i) : i \in DOMAIN d}
      \cup {[d EXCEPT ![i] = p] : i \in DOMAIN d, p \in some}

Texts ==
  {FlattenSeq(d) : d \in UNION {[1 .. n -> Pieces] : n \in 0 .. 3}
                           \cup [1 .. 4 -> NumberPieces]
                           \cup UNION {Edited(d, Pieces) : d \in Documents}}

LoadFlags ==
  {{}, {"DECODE_ANY", "ALLOW_NUL"}, {"DECODE_ANY", "ALLOW_NUL", "REJECT_DUPLICATES"},
   {"DISABLE_EOF_CHECK", "DECODE_INT_AS_REAL"}}

Loads ==
  [source : {"loadb", "loads"}, text : Texts, flags : LoadFlags, left : {NoFailure}]
    \cup [source : {"loadb", "loads", "load_file", "load_callback", "broken", "unopened"},
          text : {FlattenSeq(d) : d \in Documents}, flags : LoadFlags, left : 0 .. 16]

\* a callback gives the whole text, or fails after the second piece that it was asked for
Load(c) ==
  CASE c.source = "loadb" -> Parser!json_loadb(c.text, c.flags, c.left)
    [] c.source = "loads" -> Parser!json_loads(c.text, c.flags, c.left)
    [] c.source = "load_file" -> Parser!json_load_file(TRUE, c.text, c.flags, c.left)
    [] c.source = "unopened" -> Parser!json_load_file(FALSE, c.text, c.flags, c.left)
    [] c.source = "broken" -> Parser!json_load_callback(2, c.text, c.flags, c.left)
    [] OTHER -> Parser!json_load_callback(Len(c.text), c.text, c.flags, c.left)

------------------------------------------------------------------------------
(* JsonPack: formats of at most three characters, and longer ones that are edited; *)
(* and objects that are unpacked by lists of items                                 *)

Packer == INSTANCE JsonPack

FormatChars == {"{", "}", "[", "]", "s", "i", "O", "#", "+", "?", "!", "x"}
Formats ==
  {<<"{", "s", ":", "i", ",", "s", "?", "[", "s", "%", "o", "!", "]", "!", "}">>,
   <<"[", "s", "#", "+", "%", "+", "{", "s", "#", "n", "}", "]">>,
   <<"{", "s", "?", "{", "s", "O", "*", "}", "s", "i", "}">>,
   <<"[", "F", "n", "i", "!", "]">>,
   <<"{", "s", "+", "i", "s", "[", "]", "}">>}
AllFormats ==
  UNION {[1 .. n -> FormatChars] : n \in 0 .. 3}
    \cup UNION {Edited(f, FormatChars) : f \in Formats}

\* what json_pack is given: json_unpack's marks left out
ToPack(f) ==
  [c \in DOMAIN SelectSeq(f, LAMBDA x : x \notin {"?", "!", "*"}) |->
     LET x == SelectSeq(f, LAMBDA y : y \notin {"?", "!", "*"})[c]
     IN  IF x = "F" THEN "f" ELSE x]

Same == [i \in 1 .. 20 |-> 0]     \* all strings are equal
Bad(i) == [j \in 1 .. i |-> IF j = i THEN Packer!Invalid ELSE j]
UnpackFlags == {{}, {"STRICT"}, {"VALIDATE_ONLY"}}

Packs ==
  [fmt : AllFormats, null : {0}, args : {<<>>}, left : {NoFailure}, flags : UnpackFlags]
    \cup [fmt : Formats, null : 0 .. 8, args : {<<>>, Same}, left : {NoFailure}, flags : {{}}]
    \cup [fmt : Formats, null : {0}, args : {<<>>, Same}, left : 0 .. 16, flags : {{}}]
    \cup [fmt : Formats, null : {0}, args : {Bad(i) : i \in 1 .. 8}, left : {NoFailure},
          flags : {{}}]

Pack(c) == Packer!json_vpack_ex(ToPack(c.fmt), c.null, c.args, c.left)

\* the value, or what there is of it, is unpacked with the whole format
PackAndUnpack(c) ==
  LET p == Pack(c)
      args == IF "VALIDATE_ONLY" \in c.flags THEN p.keys ELSE c.args
  IN  [packed |-> p, unpacked |-> Packer!json_vunpack_ex(p.ret, c.fmt, c.flags, args, c.left)]

\* the object with integers at 1 and 4, and null at 3
Known == [k \in {1, 3, 4} |-> IF k = 3 THEN "n" ELSE "i"]
Object ==
  <<"object", <<[key |-> <<1>>, value |-> <<"i", <<2>>>>], [key |-> <<3>>, value |-> <<"null", <<>>>>],
                [key |-> <<4>>, value |-> <<"i", <<5>>>>]>>>>

Wanted == [key : {1, 3, 4, 9}, type : {"i", "n"}, opt : BOOLEAN]
Unpacks ==
  [items : UNION {[1 .. n -> Wanted] : n \in 0 .. 2} \cup
           {<<[key |-> 1, type |-> "i", opt |-> FALSE], [key |-> 3, type |-> "n", opt |-> o], w>> :
              o \in BOOLEAN, w \in Wanted},
   mark : {<<>>, <<"!">>, <<"*">>}, flags : SUBSET {"STRICT", "VALIDATE_ONLY"}]

Unpack(c) ==
  LET fmt == FlattenSeq([i \in DOMAIN c.items |->
               <<"s">> \o (IF c.items[i].opt THEN <<"?">> ELSE <<>>) \o <<c.items[i].type>>])
      args == FlattenSeq([i \in DOMAIN c.items |->
                <<c.items[i].key>> \o (IF c.items[i].type = "i" /\ "VALIDATE_ONLY" \notin c.flags
                                         THEN <<0>> ELSE <<>>)])
  IN  Packer!json_vunpack_ex(Object, <<"{">> \o fmt \o c.mark \o <<"}">>, c.flags, args, NoFailure)

------------------------------------------------------------------------------
(* JsonSeed: its definitions, under their own names *)

NoSeed == SeedInit /\ variant = "sync"

------------------------------------------------------------------------------
ASSUME Table!JsonHashtableAssumption /\ JsonValueAssumption

NoCall == input = <<>> /\ output = <<>>

JsonInit ==
  \/ part = "table" /\ Table!Init /\ NoValue /\ NoDump /\ NoSeed /\ NoCall
  \/ part = "value" /\ NoTable /\ Init /\ NoDump /\ NoSeed /\ NoCall
  \/ part = "dump" /\ NoTable /\ NoValue /\ Dumper!Init /\ NoSeed /\ NoCall
  \/ part = "seed" /\ NoTable /\ NoValue /\ NoDump /\ SeedInit /\ NoCall
  \/ /\ NoTable /\ NoValue /\ NoDump /\ NoSeed /\ output = <<>>
     /\ \/ part = "load" /\ input \in Loads
        \/ part = "pack" /\ input \in Packs
        \/ part = "unpack" /\ input \in Unpacks

jsonVars == <<part, tableVars, valueVars, dumpVars, seedVars, callVars>>

Call ==
  /\ part \in {"load", "pack", "unpack"}
  /\ output = <<>>
  /\ output' = CASE part = "load" -> Load(input)
                 [] part = "pack" -> PackAndUnpack(input)
                 [] part = "unpack" -> Unpack(input)
  /\ UNCHANGED <<part, input, tableVars, valueVars, dumpVars, seedVars>>

JsonNext ==
  \/ /\ part = "table" /\ Table!Next
     /\ UNCHANGED <<part, valueVars, dumpVars, seedVars, callVars>>
  \/ /\ part = "value" /\ Next
     /\ UNCHANGED <<part, tableVars, dumpVars, seedVars, callVars>>
  \/ /\ part = "dump" /\ Dumper!Next
     /\ UNCHANGED <<part, tableVars, valueVars, seedVars, callVars>>
  \/ /\ part = "seed" /\ SeedNext
     /\ UNCHANGED <<part, tableVars, valueVars, dumpVars, callVars>>
  \/ Call

JsonSpec == JsonInit /\ [][JsonNext]_jsonVars

------------------------------------------------------------------------------
\* see JsonHashtable
ImplementsObject ==
  /\ part = "table" => Table!Object!Init
  /\ [][part = "table" => Table!Object!Step]_tableVars

\* see JsonValue
ValuesCounted == part = "value" => CountsExact /\ DeepCopyEqual

\* Is v what the heap has at address a?  (The order of an object's items is that of
\* the flags, if they ask for one.)
RECURSIVE Reads(_, _)
Reads(v, a) ==
  LET h == heap[a]
  IN  CASE h.type = "array" -> /\ v[1] = "array" /\ Len(v[2]) = Len(h.items)
                               /\ \A i \in DOMAIN h.items : Reads(v[2][i], h.items[i])
        [] h.type = "object" ->
             /\ v[1] = "object" /\ Len(v[2]) = Len(h.items)
             /\ \A i \in DOMAIN h.items : \E j \in DOMAIN v[2] :
                  v[2][j].key = h.items[i].key /\ Reads(v[2][j].value, h.items[i].value)
             /\ "SORT_KEYS" \in flags =>
                  \A i \in 2 .. Len(v[2]) : Dumper!Before(v[2][i - 1].key, v[2][i].key)
        [] h.type = "integer" -> v = <<"integer", -1>>
        [] h.type = "real" -> v = <<"real", Dumper!jsonp_dtostr(h.bytes)>>
        [] OTHER -> v = <<h.type, h.bytes>>

\* What a successful dump wrote, whatever the flags, is read back as the same value,
\* unless a part of a key was lost; a dump fails only for a reason, and leaves no
\* container marked.  (do_dump, and json_loadb)
RoundTrip ==
  part = "dump" =>
    /\ Dumper!DumpExplained
    /\ ret = "ok" /\ ~torn =>
         Reads(Parser!json_loadb(text, {"DECODE_ANY", "ALLOW_NUL"}, NoFailure).ret, 1)

\* the bytes of a call that are its text
Given(c) ==
  CASE c.source = "loads" -> Parser!UpToNul(c.text)
    [] c.source = "broken" -> SubSeq(c.text, 1, IF Len(c.text) < 4 THEN Len(c.text) ELSE 4)
    [] OTHER -> c.text
Visible(s) == SelectSeq(s, LAMBDA b : b # 0)

EscapedNul == EscapedUnit(<<48, 48, 48, 48>>)
\* a key has a NUL in it, in some document
NulKey(t) == \E i \in 1 .. Len(t) - 7 : SubSeq(t, i, i + 7) = EscapedNul \o <<34, 58>>

\* the flags admit all JSON, or that without NULs which is an array or object
Takes(some, t) ==
  \/ some = {"DECODE_ANY", "ALLOW_NUL"}
  \/ /\ some = {}
     /\ \E i \in DOMAIN t : t[i] \in {91, 123} /\ \A j \in 1 .. i - 1 : t[j] = 32
     /\ \A i \in 1 .. Len(t) - 5 : SubSeq(t, i, i + 5) # EscapedNul

\* Text is accepted exactly if it is JSON (a NUL behind a number or a word is not
\* noticed), and a call that fails, for the text or for memory, keeps no block of what
\* it had built.  (parse_json)
TextAccepted ==
  part = "load" /\ output # <<>> =>
    LET ok == output.ret # Parser!NULL
    IN  /\ output.live = Parser!Blocks(output.ret)
        /\ ok => /\ Grammar!IsJson(Visible(SubSeq(Given(input), 1, output.pos - 1)))
                 /\ "DISABLE_EOF_CHECK" \notin input.flags => output.pos > Len(Given(input))
        /\ /\ Takes(input.flags, Given(input)) /\ input.left = NoFailure
           /\ Grammar!IsJson(Given(input))
           => ok \/ Parser!HasNul(input.text) \/ input.source = "unopened"
                 \/ NulKey(input.text)

------------------------------------------------------------------------------
(* What formats are *)

RECURSIVE IsStrings(_, _, _), IsFormat(_, _, _, _), IsFormats(_, _, _, _, _)
\* what may follow an s: lengths, and more strings
IsStrings(f, i, j) ==
  \/ i > j
  \/ f[i] \in {"#", "%"} /\ IsStrings(f, i + 1, j) /\ (i < j => f[i + 1] = "+")
  \/ f[i] = "+" /\ IsStrings(f, i + 1, j)

IsString(f, i, j, unpacked) ==
  /\ i <= j /\ f[i] = "s"
  /\ IF unpacked THEN i = j \/ (j = i + 1 /\ f[j] = "%") ELSE IsStrings(f, i + 1, j)

IsFormat(f, i, j, unpacked) ==
  \/ i = j /\ f[i] \in {"i", "f", "n", "o", "O"} \cup (IF unpacked THEN {"F"} ELSE {})
  \/ IsString(f, i, j, unpacked)
  \/ /\ i < j /\ <<f[i], f[j]>> \in {<<"[", "]">>, <<"{", "}">>}
     /\ \/ IsFormats(f, i + 1, j - 1, f[i] = "{", unpacked)
        \/ /\ unpacked /\ f[j - 1] \in {"!", "*"}
           /\ IsFormats(f, i + 1, j - 2, f[i] = "{", unpacked)

IsFormats(f, i, j, named, unpacked) ==
  \/ i > j
  \/ \E k \in i .. j :
       /\ IsFormats(f, k + 1, j, named, unpacked)
       /\ \/ ~named /\ IsFormat(f, i, k, unpacked)
          \/ /\ named /\ ~unpacked
             /\ \E h \in i .. k - 1 : IsString(f, i, h, FALSE) /\ IsFormat(f, h + 1, k, FALSE)
          \/ /\ named /\ unpacked /\ f[i] = "s"
             /\ \/ IsFormat(f, i + 1, k, TRUE)
                \/ f[i + 1] = "?" /\ IsFormat(f, i + 2, k, TRUE)

WellFormed(f, unpacked) ==
  LET bare == SelectSeq(f, LAMBDA c : c \notin Packer!Ignored)
  IN  bare # <<>> /\ IsFormat(bare, 1, Len(bare), unpacked)

Sized(f) == \E i \in DOMAIN f : f[i] \in {"#", "%", "+"}

RECURSIVE IsUtf8(_)
IsUtf8(v) ==
  CASE v[1] = "string" -> Packer!Invalid \notin ToSet(v[2])
    [] v[1] = "array" -> \A w \in ToSet(v[2]) : IsUtf8(w)
    [] v[1] = "object" -> \A i \in ToSet(v[2]) :
         Packer!Invalid \notin ToSet(i.key) /\ IsUtf8(i.value)
    [] OTHER -> TRUE

PackSound(c, p) ==
  /\ ~p.over
  /\ p.ret # Packer!NULL => WellFormed(ToPack(c.fmt), FALSE) /\ IsUtf8(p.ret)
  /\ c.left = NoFailure /\ c.null = 0 /\ c.args \in {<<>>, Same} =>
       (WellFormed(ToPack(c.fmt), FALSE) => p.ret # Packer!NULL)
  /\ p.live = Packer!Blocks(p.ret) + p.lost
  /\ p.fault \/ p.lost > 0 => c.left # NoFailure /\ Sized(c.fmt)

\* of validating lengths (s%), see ValidatesAlike
UnpackSound(c, p, u) ==
  /\ ~u.over
  /\ p.ret # Packer!NULL /\ c.left = NoFailure /\ c.args = <<>> =>
       /\ "VALIDATE_ONLY" \notin c.flags \/ "%" \notin ToSet(c.fmt) =>
            (u.ret = Packer!OK <=> WellFormed(c.fmt, TRUE))
       /\ u.ret = Packer!OK => \A i \in DOMAIN u.got : u.got[i][2][2] = <<u.got[i][1]>>

\* the items are there, or optional; and all are asked for, if the call is strict
Asked(c) ==
  LET keys == {c.items[i].key : i \in DOMAIN c.items}
  IN  /\ \A i \in DOMAIN c.items :
           LET w == c.items[i]
           IN  IF w.key \in DOMAIN Known THEN Known[w.key] = w.type ELSE w.opt
      /\ c.mark = <<"!">> \/ (c.mark = <<>> /\ "STRICT" \in c.flags) => DOMAIN Known \subseteq keys

\* What json_pack makes of well-formed formats, json_unpack takes apart again with the
\* same format, each argument with its own value; all other formats fail, and nothing
\* of them is kept.  A strict json_unpack succeeds only if it asked for every item.
\* Strings and keys of a value are UTF-8.  (What memory costs: a string that
\* was put together is lost with its buffer, and one whose buffer cannot be had is
\* written to address 0.)
PackedAndUnpacked ==
  output # <<>> =>
    /\ part = "pack" =>
         PackSound(input, output.packed) /\ UnpackSound(input, output.packed, output.unpacked)
    /\ part = "unpack" => (output.ret = Packer!OK <=> Asked(input))

\* "Don't extract any data, just validate the JSON value against the given format
\* string" (doc/apiref.rst:1425): with JSON_VALIDATE_ONLY, json_unpack accepts a value
\* by exactly those formats that it is unpacked by without the flag.
ValidatesAlike ==
  part = "pack" /\ output # <<>> /\ input.flags = {"VALIDATE_ONLY"} =>
    (output.unpacked.ret = Packer!OK
       <=> Packer!json_vunpack_ex(output.packed.ret, input.fmt, {}, input.args, input.left).ret
             = Packer!OK)

\* the calls of json_pack and json_unpack alone
FormatSpec == JsonInit /\ part = "pack" /\ [][JsonNext]_jsonVars
=============================================================================
