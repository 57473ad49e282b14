------------------------------- MODULE JsonUtf8 -------------------------------
(***************************************************************************)
(* UTF-8 and the spelling of real numbers (jansson-2.7/src/utf.c and       *)
(* strconv.c).  Text is a sequence of bytes; masks and shifts are written  *)
(* as arithmetic.                                                          *)
(***************************************************************************)
EXTENDS Integers, Sequences, SequencesExt, FiniteSets, FiniteSetsExt

NotUtf8 == -1

Bits(n, low, width) == (n \div (2^low)) % (2^width)

utf8_encode(codepoint) ==
  CASE codepoint \in 0 .. 127 -> <<codepoint>>
    [] codepoint \in 128 .. 2047 ->
         <<192 + Bits(codepoint, 6, 5), 128 + Bits(codepoint, 0, 6)>>
    [] codepoint \in 2048 .. 65535 ->
         <<224 + Bits(codepoint, 12, 4), 128 + Bits(codepoint, 6, 6),
           128 + Bits(codepoint, 0, 6)>>
    [] codepoint \in 65536 .. 1114111 ->
         <<240 + Bits(codepoint, 18, 3), 128 + Bits(codepoint, 12, 6),
           128 + Bits(codepoint, 6, 6), 128 + Bits(codepoint, 0, 6)>>

\* the length of the sequence that a byte starts, 0 if none
utf8_check_first(u) ==
  CASE u < 128 -> 1
    [] u \in 194 .. 223 -> 2
    [] u \in 224 .. 239 -> 3
    [] u \in 240 .. 244 -> 4
    [] OTHER -> 0

\* the code point of a sequence of two to four bytes, or NotUtf8
utf8_check_full(b) ==
  LET value == FoldLeft(LAMBDA v, u : v * 64 + Bits(u, 0, 6),
                        Bits(b[1], 0, 7 - Len(b)), Tail(b))
      least == CASE Len(b) = 2 -> 128 [] Len(b) = 3 -> 2048 [] OTHER -> 65536
  IN  IF /\ \A i \in 2 .. Len(b) : b[i] \in 128 .. 191
         /\ value <= 1114111 /\ value \notin 55296 .. 57343
         /\ value >= least
        THEN value
        ELSE NotUtf8

\* the character at position p: its code point and where the next one starts
utf8_iterate(s, p) ==
  LET n == utf8_check_first(s[p])
  IN  [codepoint |-> CASE n = 1 -> s[p]
                       [] n > 1 /\ p + n - 1 <= Len(s) ->
                            utf8_check_full(SubSeq(s, p, p + n - 1))
                       [] OTHER -> NotUtf8,
       next |-> p + n]

\* the first byte of s that is in no character, Len(s) + 1 if all are
utf8_check_string(s) ==
  LET valid[p \in 1 .. Len(s) + 1] ==
        IF p > Len(s) \/ utf8_iterate(s, p).codepoint = NotUtf8 THEN p
        ELSE valid[p + utf8_check_first(s[p])]
  IN  valid[1]

------------------------------------------------------------------------------
(* Real numbers: what printf writes, in the "C" locale, and what is made of it *)

Digits == 48 .. 57
Minus == 45
Plus == 43
Dot == 46
Exp == 101      \* e

Find(s, c) == SelectInSeq(s, LAMBDA x : x = c)

\* a dot is added where there is neither dot nor exponent
Dotted(s) == IF Find(s, Dot) = 0 /\ Find(s, Exp) = 0 THEN s \o <<Dot, 48>> ELSE s

\* the exponent at e, if there is one, loses its sign and leading zeros, a minus stays
ShortExponent(s, e) ==
  LET start == IF s[e + 1] = Minus THEN e + 2 ELSE e + 1
      end == CHOOSE p \in e + 2 .. Len(s) + 1 :
               /\ \A q \in e + 2 .. p - 1 : s[q] = 48
               /\ p = Len(s) + 1 \/ s[p] # 48
  IN  IF e = 0 THEN s ELSE SubSeq(s, 1, start - 1) \o SubSeq(s, end, Len(s))

jsonp_dtostr(printed) == ShortExponent(Dotted(printed), Find(printed, Exp))
=============================================================================
