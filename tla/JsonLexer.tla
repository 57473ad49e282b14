------------------------------ MODULE JsonLexer ------------------------------
(***************************************************************************)
(* The scanner of jansson-2.7/src/load.c, lines 137 to 643: characters     *)
(* out of a stream, and tokens out of characters.  A position is the index *)
(* of the next byte of the text; each operator returns the position where  *)
(* it leaves the stream.                                                   *)
(*                                                                         *)
(* stream_get checks a multi-byte character when it meets its first byte,  *)
(* and an error stays: nothing is read at or after the first bad byte.     *)
(***************************************************************************)
EXTENDS JsonUtf8

CONSTANT MaxInteger   \* the largest integer, 2^63 - 1 in the code
CONSTANT MaxExponent  \* of a real number

EOF == -1
ERROR == -2

Quote == 34
Backslash == 92
Blanks == {32, 9, 10, 13}
Letters == (65 .. 90) \cup (97 .. 122)
Structure == {123, 125, 91, 93, 58, 44}     \* { } [ ] : ,
Simple == {34, 92, 47, 98, 102, 110, 114, 116}   \* after a backslash
HexDigits == Digits \cup (65 .. 70) \cup (97 .. 102)

True == <<116, 114, 117, 101>>
False == <<102, 97, 108, 115, 101>>
NullWord == <<110, 117, 108, 108>>

\* what string_get (a NUL ends the text) lets through
UpToNul(text) == IF Find(text, 0) = 0 THEN text
                 ELSE SubSeq(text, 1, Find(text, 0) - 1)

\* a stream: its bytes, and how many of them can be decoded
Stream(bytes) == [bytes |-> bytes, good |-> utf8_check_string(bytes) - 1]

stream_get(s, p) ==
  CASE p <= s.good -> s.bytes[p]
    [] p > Len(s.bytes) -> EOF
    [] OTHER -> ERROR

\* c was read at p: a NUL cannot be put back, for a NUL in the buffer says
\* that the buffer is empty
stream_unget(s, p) == IF stream_get(s, p) = 0 THEN p + 1 ELSE p

\* where a run of characters of a set that starts at p ends
After(s, p, set) ==
  CHOOSE q \in p .. Len(s.bytes) + 1 :
    /\ \A r \in p .. q - 1 : stream_get(s, r) \in set
    /\ stream_get(s, q) \notin set

Saved(s, p, q) == SubSeq(s.bytes, p, q - 1)

Token(type, value, pos) == [type |-> type, value |-> value, pos |-> pos]
Invalid(pos) == Token("invalid", <<>>, pos)

------------------------------------------------------------------------------
(* lex_scan_string: the closing quote is looked for first                     *)

\* the first position from p on that is a closing quote, 0 when the string is
\* not well formed
StringEnd(s, p) ==
  LET end[q \in p .. Len(s.bytes) + 1] ==
        LET c == stream_get(s, q)
            d == stream_get(s, q + 1)
        IN  CASE c = Quote -> q
              [] c < 32 -> 0      \* a control character, the end or an error
              [] c = Backslash /\ d \in Simple -> end[q + 2]
              [] c = Backslash /\ d = 117 ->
                   IF \A i \in 2 .. 5 : stream_get(s, q + i) \in HexDigits
                     THEN end[q + 6] ELSE 0
              [] c = Backslash -> 0
              [] OTHER -> end[q + 1]
  IN  end[p]

HexValue(d) == CASE d \in Digits -> d - 48
                 [] d \in 97 .. 102 -> d - 87
                 [] d \in 65 .. 70 -> d - 55

\* of the four digits after the u at p
decode_unicode_escape(s, p) ==
  FoldLeft(LAMBDA v, d : v * 16 + HexValue(d), 0, Saved(s, p + 1, p + 5))

ShortEscape(c) ==
  CASE c = 98 -> 8 [] c = 102 -> 12 [] c = 110 -> 10 [] c = 114 -> 13
    [] c = 116 -> 9 [] OTHER -> c

BadEscape == <<NotUtf8>>

\* the characters between p and the quote at end, BadEscape last if a surrogate
\* is alone
Unescaped(s, p, end) ==
  LET escape(q) == s.bytes[q] = Backslash /\ s.bytes[q + 1] = 117
      chars[q \in p .. end] ==
        LET u == decode_unicode_escape(s, q + 1)
            v == decode_unicode_escape(s, q + 7)
        IN  CASE q = end -> <<>>
              [] s.bytes[q] # Backslash -> <<s.bytes[q]>> \o chars[q + 1]
              [] ~escape(q) -> <<ShortEscape(s.bytes[q + 1])>> \o chars[q + 2]
              [] u \notin 55296 .. 57343 -> utf8_encode(u) \o chars[q + 6]
              [] u \in 55296 .. 56319 /\ escape(q + 6) /\ v \in 56320 .. 57343 ->
                   utf8_encode((u - 55296) * 1024 + (v - 56320) + 65536)
                     \o chars[q + 12]
              [] OTHER -> BadEscape
  IN  chars[p]

\* the string that ends with the quote at end, if it is well formed
StringToken(s, end, chars) ==
  IF end = 0 THEN Invalid(Len(s.bytes) + 1)
  ELSE IF chars # <<>> /\ Last(chars) = NotUtf8 THEN Invalid(end + 1)
  ELSE Token("string", chars, end + 1)

\* p is behind the opening quote
lex_scan_string(s, p) ==
  LET end == StringEnd(s, p) IN StringToken(s, end, Unescaped(s, p, end))

------------------------------------------------------------------------------
(* lex_scan_number, from its first character at p                             *)

\* digits are added until the number is too big
IntegerOf(digits) ==
  FoldLeft(LAMBDA v, d : IF v > MaxInteger + 1 THEN v ELSE v * 10 + (d - 48), 0, digits)

IntegerToken(s, n, end) ==
  IF n \in -MaxInteger - 1 .. MaxInteger THEN Token("integer", n, stream_unget(s, end))
  ELSE Invalid(stream_unget(s, end))

\* strtod overflows: the exponent, from e on, is too big and the number is not 0
Overflows(s, p, e, end) ==
  /\ e < end /\ s.bytes[e + 1] # Minus
  /\ \E i \in p .. e - 1 : s.bytes[i] \in 49 .. 57
  /\ FoldLeft(LAMBDA v, d : IF v > MaxExponent \/ d = Plus THEN v
                            ELSE v * 10 + (d - 48),
              0, Saved(s, e + 1, end)) > MaxExponent

\* e is behind the fraction
RealToken(s, p, e, end) ==
  IF Overflows(s, p, e, end) THEN Invalid(stream_unget(s, end))
  ELSE Token("real", Saved(s, p, end), stream_unget(s, end))

\* digits, at least one from q on, and then the rest
scan_exponent_digits(s, p, e, q) ==
  IF stream_get(s, q) \in Digits THEN RealToken(s, p, e, After(s, q, Digits))
  ELSE Invalid(stream_unget(s, q))

scan_exponent(s, p, e) ==
  IF stream_get(s, e) \notin {69, Exp} THEN RealToken(s, p, e, e)
  ELSE scan_exponent_digits(s, p, e,
         IF stream_get(s, e + 1) \in {Plus, Minus} THEN e + 2 ELSE e + 1)

scan_fraction(s, p, q) ==
  IF stream_get(s, q) \in Digits THEN scan_exponent(s, p, After(s, q, Digits))
  ELSE Invalid(stream_unget(s, q))

\* from the end of the digits before a dot on; there is no digit behind a leading 0
scan_whole(s, p, digits, end) ==
  CASE end = digits \/ (s.bytes[digits] = 48 /\ stream_get(s, end) \in Digits) ->
         Invalid(stream_unget(s, end))
    [] stream_get(s, end) = Dot -> scan_fraction(s, p, end + 1)
    [] stream_get(s, end) \in {69, Exp} -> scan_exponent(s, p, end)
    [] OTHER -> IntegerToken(s, IntegerOf(Saved(s, digits, end))
                                  * (IF digits = p THEN 1 ELSE -1), end)

scan_digits(s, p, digits) ==
  scan_whole(s, p, digits, IF stream_get(s, digits) = 48 THEN digits + 1
                           ELSE After(s, digits, Digits))

lex_scan_number(s, p) == scan_digits(s, p, IF s.bytes[p] = Minus THEN p + 1 ELSE p)

------------------------------------------------------------------------------
WordToken(s, p, end) ==
  IF Saved(s, p, end) \in {True, False, NullWord}
    THEN Token("word", Saved(s, p, end), stream_unget(s, end))
    ELSE Invalid(stream_unget(s, end))

RECURSIVE lex_scan(_, _)
lex_scan(s, p) ==
  LET c == stream_get(s, p)
  IN  CASE c \in Blanks -> lex_scan(s, p + 1)
        [] c = EOF -> Token("eof", <<>>, p)
        [] c = ERROR -> Invalid(p)
        [] c \in Structure -> Token("structure", <<c>>, p + 1)
        [] c = Quote -> lex_scan_string(s, p + 1)
        [] c \in Digits \cup {Minus} -> lex_scan_number(s, p)
        [] c \in Letters -> WordToken(s, p, After(s, p, Letters))
        [] OTHER -> Invalid(p + 1)

Is(token, char) == token.type = "structure" /\ token.value = <<char>>
=============================================================================
