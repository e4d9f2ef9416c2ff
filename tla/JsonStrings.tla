------------------------------ MODULE JsonStrings ------------------------------
(***************************************************************************)
(* Strings as JSON text writes and reads them (src/src/data/json.cpp).     *)
(*                                                                         *)
(* A text is a sequence of characters, with a few standing for several:    *)
(* the literals and the four digits after \u ("hex...").  "quote",         *)
(* "newline", "control", "high" and "low" are the characters they name,    *)
(* and "end" the zero that ends a text.                                    *)
(***************************************************************************)
EXTENDS Integers, Sequences, SequencesExt

Backslash == "\\"
Slash == "/"

\* The characters that are escaped by one letter, and those written as \uXXXX.
EscapeLetter == [c \in {"quote", Backslash, "newline"} |->
                    IF c = "newline" THEN "n" ELSE c]
HexOf == [c \in {"control", "high", "low"} |->
             CASE c = "control" -> "hexControl" [] c = "high" -> "hexHigh"
               [] c = "low" -> "hexLow"]

-----------------------------------------------------------------------------
(* Writing.                                                                *)

\* Mutant: the quote is not escaped.
EscapeLettersOnly(c) ==
    IF c \in DOMAIN EscapeLetter /\ c # "quote"
    THEN <<Backslash, EscapeLetter[c]>> ELSE <<c>>

Escape(c) ==
    IF c \in DOMAIN EscapeLetter THEN <<Backslash, EscapeLetter[c]>>
    ELSE IF c = "control" THEN <<Backslash, "u", HexOf[c]>>
    ELSE <<c>>

EscapeString(chars) ==
    <<"quote">> \o FlattenSeq([k \in DOMAIN chars |-> Escape(chars[k])])
        \o <<"quote">>

-----------------------------------------------------------------------------
(* Reading.  A result is whether it went well, the value and where the     *)
(* reader stands.                                                          *)

Unescaped == [letter \in {"quote", Backslash, Slash, "n"} |->
                 IF letter = "n" THEN "newline" ELSE letter]
HexChar == [h \in {"hexControl", "hexHigh", "hexLow"} |->
               CHOOSE c \in DOMAIN HexOf : HexOf[c] = h]

At(text, pos) == IF pos \in DOMAIN text THEN text[pos] ELSE "end"

Got(value, pos) == [ok |-> TRUE, value |-> value, pos |-> pos]
Failed == [ok |-> FALSE]

\* rest is what the reader makes of the text from each later place on.
Prefixed(chars, rest, next) ==
    LET later == rest[next]
    IN  IF later.ok THEN Got(chars \o later.value, later.pos) ELSE Failed

\* What a backslash begins: a letter, four digits or two times four.
ReadEscape(text, pos, rest) ==
    LET escape == At(text, pos + 1)
        hex == At(text, pos + 2)
    IN  CASE escape \in DOMAIN Unescaped ->
                Prefixed(<<Unescaped[escape]>>, rest, pos + 2)
          [] escape = "u" /\ hex = "hexHigh" ->
                IF /\ At(text, pos + 3) = Backslash /\ At(text, pos + 4) = "u"
                   /\ At(text, pos + 5) = "hexLow"
                THEN Prefixed(<<"high", "low">>, rest, pos + 6) ELSE Failed
          [] escape = "u" /\ hex \in DOMAIN HexChar \ {"hexHigh"} ->
                Prefixed(<<HexChar[hex]>>, rest, pos + 3)
          [] OTHER -> Failed

\* One turn of ParseString's loop.
ReadFrom(text, pos, rest) ==
    LET c == At(text, pos)
    IN  CASE c = "end" -> Failed
          [] c = "quote" -> Got(<<>>, pos + 1)
          [] c = Backslash -> ReadEscape(text, pos, rest)
          [] OTHER -> Prefixed(<<c>>, rest, pos + 1)

\* From inside the quotes.
StringFrom(text, start) ==
    LET from[pos \in 1 .. Len(text) + 1] == ReadFrom(text, pos, from)
    IN  from[start]

ParseString(text, pos) ==
    IF At(text, pos) = "quote" THEN StringFrom(text, pos + 1) ELSE Failed
===============================================================================
