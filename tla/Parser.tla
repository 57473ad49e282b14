------------------------------- MODULE Parser -------------------------------
(***************************************************************************)
(* The line parser of ProtSim's shell (support/Parser.cc): keywords and    *)
(* arguments, quotes around arguments with separators, comments.  Lines    *)
(* are sequences of characters; a tabulator is a blank, letters stand for  *)
(* all characters without a meaning of their own, and the characters 1 to  *)
(* 3, which the parser refuses, are left out.                              *)
(***************************************************************************)
EXTENDS Integers, Sequences, FiniteSets, SequencesExt

CONSTANTS
  Commands,     \* what a user wants to say: sequences of arguments and their quotes
  OtherLines,   \* lines that are not written that way
  Keyword, min_arg, max_arg  \* the entry of the translation table

ParserAssumption == {min_arg, max_arg} \subseteq 0..16

Quotes == {"'", "\""}

VARIABLES
  meant,     \* the command, or <<>> for other lines
  data,      \* the string of a StringParser
  infinite,  \* does it give its line again and again?
  finished,  \* the line was already returned
  lineno,
  args,      \* arguments of the last line
  status     \* of the last call: "new", "line", "end", an error or "assertion"

vars == <<meant, data, infinite, finished, lineno, args, status>>

------------------------------------------------------------------------------
\* the line without its comment
Uncommented(line) ==
  LET hashes == {i \in DOMAIN line : line[i] = "#"}
  IN  IF hashes = {} THEN line
      ELSE SubSeq(line, 1, (CHOOSE i \in hashes : \A j \in hashes : i <= j) - 1)

\* mutant: separators in strings are not protected
saveNothing(line) == [open |-> "", last |-> "", kept |-> [i \in DOMAIN line |-> FALSE]]

\* saveSeparatorsInStrings: kept tells which characters are ones of strings.  The quote
\* open in the end, if any, is not terminated.
saveSeparators(line) ==
  FoldLeft(LAMBDA s, c :
             IF s.open = "" THEN [s EXCEPT !.open = IF c \in Quotes THEN c ELSE "", !.last = c,
                                           !.kept = Append(@, c \in Quotes)]
             ELSE LET ends == c = s.open /\ s.last # "\\"
                  IN  [open |-> IF ends THEN "" ELSE s.open, last |-> c,
                       kept |-> Append(s.kept, ~ends)],
           [open |-> "", last |-> "", kept |-> <<>>], line)

\* The tokens that strtok finds, from their first to their last character, in order.
\* Blanks and commas of strings are hidden from it, and no other characters.
Tokens(line, separators) ==
  LET kept == saveSeparators(line).kept
      Splits(i) == line[i] \in separators /\ ~(kept[i] /\ line[i] \in {" ", ","})
      starts == {i \in DOMAIN line : ~Splits(i) /\ (i = 1 \/ Splits(i - 1))}
      End(i) == CHOOSE j \in i..Len(line) :
                  /\ \A k \in i..j : ~Splits(k)
                  /\ j = Len(line) \/ Splits(j + 1)
  IN  [k \in 1..Cardinality(starts) |->
         LET i == SetToSortSeq(starts, <)[k] IN [from |-> i, to |-> End(i)]]

Text(line, t) == SubSeq(line, t.from, t.to)

\* the assertion about an argument that starts with a quote, and the argument without it
Glued(token) == token[1] \in Quotes /\ Last(token) # token[1]

Unquoted(token) ==
  IF token[1] \in Quotes THEN SubSeq(token, 2, Len(token) - 1) ELSE token

\* StringParser::readLine gives the line once or always
CanRead == infinite \/ ~finished

\* Errors in the order of their detection; the line of the parser has more tokens than
\* arguments may be.
Parsed(line) ==
  LET keyword == Head(Tokens(line, {" ", ":", "="}))
      rest == SubSeq(line, keyword.to + 2, Len(line))
      spans == Tokens(rest, {" ", ","})
      found == [i \in DOMAIN spans |-> Text(rest, spans[i])]
      Failure(e) == [status |-> e, args |-> <<>>]
  IN  CASE \E i \in 1..Len(found) : i <= 16 /\ Glued(found[i]) -> Failure("assertion")
        [] Len(found) > 16 -> Failure("ArgumentCountError")
        [] Text(line, keyword) # Keyword -> Failure("UnknownKeywordError")
        [] Len(found) \notin min_arg..max_arg -> Failure("ArgumentCountError")
        [] OTHER -> [status |-> "line", args |-> [i \in DOMAIN found |-> Unquoted(found[i])]]

\* Lines without a keyword are skipped: the next one is read, for ever if the parser
\* always gives the same.
nextLine ==
  LET line == Uncommented(data)
      Result(s, a) == status' = s /\ args' = a
  IN  /\ status \in {"new", "line"} /\ lineno < 2
      /\ \/ /\ CanRead
            /\ finished' = ~infinite
            /\ lineno' = lineno + 1
            /\ \/ /\ saveSeparators(line).open # ""
                  /\ Result("SyntaxError", <<>>)
               \/ /\ saveSeparators(line).open = "" /\ Tokens(line, {" ", ":", "="}) = <<>>
                  /\ Result(IF infinite THEN "endless" ELSE "end", <<>>)
               \/ /\ saveSeparators(line).open = "" /\ Tokens(line, {" ", ":", "="}) # <<>>
                  /\ Result(Parsed(line).status, Parsed(line).args)
         \/ /\ ~CanRead
            /\ Result("end", <<>>)
            /\ UNCHANGED <<finished, lineno>>
      /\ UNCHANGED <<meant, data, infinite>>

\* a command as it is written
Written(command) ==
  Keyword \o <<" ">> \o FlattenSeq([i \in DOMAIN command |->
    command[i].quote \o command[i].arg \o command[i].quote
      \o (IF i = Len(command) THEN <<>> ELSE <<",", " ">>)])

Init ==
  /\ \/ \E c \in Commands : meant = c /\ data = Written(c)
     \/ \E l \in OtherLines : meant = <<>> /\ data = l
  /\ infinite \in BOOLEAN
  /\ finished = FALSE /\ lineno = 0 /\ args = <<>> /\ status = "new"

Next == nextLine

Spec == Init /\ [][Next]_vars

------------------------------------------------------------------------------
(* Properties *)

\* An argument can be written in quotes unless it has that quote, a comment sign or a
\* backslash at its end; without quotes it may not have separators.
Writable(a) ==
  /\ \A i \in DOMAIN a.arg : a.arg[i] # "#" /\ <<a.arg[i]>> # a.quote
  /\ a.quote # <<>> /\ a.arg # <<>> => Last(a.arg) # "\\"
  /\ a.quote = <<>> => a.arg # <<>> /\ \A i \in DOMAIN a.arg : a.arg[i] \notin Quotes \cup {" ", ","}

\* Commands are understood as they were meant, separators in quotes included, each time
\* the parser gives the line.
ArgumentsKept ==
  meant # <<>> /\ (\A i \in DOMAIN meant : Writable(meant[i])) /\ status \notin {"new", "end"} =>
    IF Len(meant) \in min_arg..max_arg
    THEN status = "line" /\ args = [i \in DOMAIN meant |-> meant[i].arg]
    ELSE status = "ArgumentCountError"
==============================================================================
