----------------------------- MODULE JsonGrammar -----------------------------
(***************************************************************************)
(* What JSON text is, independently of how it is read: the grammar of      *)
(* RFC 7159 on the bytes from i to j of a text, with the limits that       *)
(* jansson puts on numbers and on escaped surrogates.                      *)
(***************************************************************************)
EXTENDS JsonUtf8

CONSTANTS MaxInteger, MaxExponent

IsBlank(t, i, j) == \A k \in i .. j : t[k] \in {32, 9, 10, 13}
IsDigits(t, i, j) == i <= j /\ \A k \in i .. j : t[k] \in Digits
Spells(t, i, j, word) == SubSeq(t, i, j) = word
IsHex(b) == b \in Digits \cup (65 .. 70) \cup (97 .. 102)

\* the number that a run of digits writes, at most too big
Limit(n) == IF n > 1000 THEN 1000 ELSE n
NumberOf(t, i, j) ==
  FoldLeft(LAMBDA n, b : Limit(10 * n + (b - 48)), 0, SubSeq(t, i, j))

IsWhole(t, i, j) == IsDigits(t, i, j) /\ (t[i] = 48 => i = j)

IsInteger(t, i, j) ==
  \/ IsWhole(t, i, j) /\ NumberOf(t, i, j) <= MaxInteger
  \/ t[i] = Minus /\ IsWhole(t, i + 1, j) /\ NumberOf(t, i + 1, j) <= MaxInteger + 1

\* an exponent that the number has room for; all that is 0 may have any
IsExponent(t, i, j, zero) ==
  \/ i > j
  \/ /\ i < j /\ t[i] \in {69, 101}
     /\ \/ t[i + 1] = Minus /\ IsDigits(t, i + 2, j)
        \/ \E k \in {i + 1, i + 2} :
             /\ k = i + 2 => t[i + 1] = Plus
             /\ IsDigits(t, k, j)
             /\ zero \/ NumberOf(t, k, j) <= MaxExponent

IsReal(t, i, j) ==
  \E w \in i .. j, f \in i .. j :
    /\ w <= f
    /\ \/ IsWhole(t, i, w)
       \/ t[i] = Minus /\ IsWhole(t, i + 1, w)
    /\ \/ f = w
       \/ f >= w + 2 /\ t[w + 1] = Dot /\ IsDigits(t, w + 2, f)
    /\ IsExponent(t, f + 1, j, \A k \in i .. f : t[k] \notin 49 .. 57)
    /\ i < j /\ (f = w => f < j)

\* what may stand between the quotes: characters and escapes
Hex4(t, i) == \A k \in i .. i + 3 : k <= Len(t) /\ IsHex(t[k])
Surrogate(t, i) ==
  CASE t[i] \in {68, 100} /\ t[i + 1] \in {56, 57, 65, 66, 97, 98} -> "high"
    [] t[i] \in {68, 100} /\ t[i + 1] \in (67 .. 70) \cup (99 .. 102) -> "low"
    [] OTHER -> "none"

IsEscapeU(t, i) == t[i] = 92 /\ i + 5 <= Len(t) /\ t[i + 1] = 117 /\ Hex4(t, i + 2)

RECURSIVE IsChars(_, _, _)
IsChars(t, i, j) ==
  \/ i > j
  \/ t[i] \notin (0 .. 31) \cup {34, 92} /\ IsChars(t, i + 1, j)
  \/ /\ i < j /\ t[i] = 92 /\ t[i + 1] \in {34, 92, 47, 98, 102, 110, 114, 116}
     /\ IsChars(t, i + 2, j)
  \/ /\ i + 5 <= j /\ IsEscapeU(t, i) /\ Surrogate(t, i + 2) = "none"
     /\ IsChars(t, i + 6, j)
  \/ /\ i + 11 <= j /\ IsEscapeU(t, i) /\ Surrogate(t, i + 2) = "high"
     /\ IsEscapeU(t, i + 6) /\ Surrogate(t, i + 8) = "low"
     /\ IsChars(t, i + 12, j)

IsString(t, i, j) == i < j /\ t[i] = 34 /\ t[j] = 34 /\ IsChars(t, i + 1, j - 1)

RECURSIVE IsValue(_, _, _), IsList(_, _, _, _)
\* a value among blanks
IsValue(t, i, j) ==
  \E b \in i .. j, e \in i .. j :
    /\ b <= e /\ IsBlank(t, i, b - 1) /\ IsBlank(t, e + 1, j)
    /\ \/ Spells(t, b, e, <<116, 114, 117, 101>>)
       \/ Spells(t, b, e, <<102, 97, 108, 115, 101>>)
       \/ Spells(t, b, e, <<110, 117, 108, 108>>)
       \/ IsInteger(t, b, e)
       \/ IsReal(t, b, e)
       \/ IsString(t, b, e)
       \/ /\ <<t[b], t[e]>> \in {<<91, 93>>, <<123, 125>>} /\ b < e
          /\ \/ IsBlank(t, b + 1, e - 1)
             \/ IsList(t, b + 1, e - 1, t[b] = 123)

\* items of an object, or elements, with commas between them
IsItem(t, i, j, named) ==
  IF ~named THEN IsValue(t, i, j)
  ELSE \E c \in i .. j : /\ t[c] = 58 /\ IsValue(t, c + 1, j)
                         /\ \E b \in i .. c, e \in i .. c - 1 :
                              /\ IsBlank(t, i, b - 1) /\ IsBlank(t, e + 1, c - 1)
                              /\ IsString(t, b, e)

IsList(t, i, j, named) ==
  \/ IsItem(t, i, j, named)
  \/ \E c \in i .. j : t[c] = 44 /\ IsItem(t, i, c - 1, named) /\ IsList(t, c + 1, j, named)

IsJson(t) == utf8_check_string(t) > Len(t) /\ t # <<>> /\ IsValue(t, 1, Len(t))
=============================================================================
