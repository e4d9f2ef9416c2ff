--------------------------------- MODULE Json ---------------------------------
(***************************************************************************)
(* Documents, their text and the reader (src/src/data/json.cpp); strings   *)
(* and the characters of a text are those of JsonStrings.                  *)
(***************************************************************************)
EXTENDS JsonStrings

CONSTANTS
    kMaxNestingDepth,
    Characters,     \* what strings are made of
    Strings, MemberKeys,
    Numbers,        \* tokens of the numbers
    MaxBuilt        \* bound on the calls that build a document

Comma == ","
Colon == ":"
OpenBracket == "["
CloseBracket == "]"
OpenBrace == "{"
CloseBrace == "}"
Blank == " "

Digits == {"0", "1", "2", "3", "4", "5", "6", "7", "8", "9"}
NumberChars == Digits \cup {"-", "+", ".", "e"}
Literals == {"true", "false", "null"}
Whitespace == {Blank, "newline"}

\* What %lld and %.9g print of a finite number: a sign, digits, a fraction
\* and an exponent.
IsNumeral(token) ==
    LET digits(a, b) == a <= b /\ \A i \in a .. b : token[i] \in Digits
        n == Len(token)
    IN  \E sign \in 0 .. 1, whole \in 1 .. n : \E fraction \in whole .. n :
            /\ sign = 1 => token[1] = "-"
            /\ digits(sign + 1, whole)
            /\ fraction = whole \/ (token[whole + 1] = "." /\ digits(whole + 2, fraction))
            /\ fraction = n \/ (/\ fraction + 2 < n /\ token[fraction + 1] = "e"
                                /\ token[fraction + 2] \in {"+", "-"}
                                /\ digits(fraction + 3, n))

ASSUME JsonAssumption ==
    /\ kMaxNestingDepth \in Nat /\ MaxBuilt \in Nat
    /\ Characters \cap (Literals \cup DOMAIN HexChar \cup {"end"}) = {}
    /\ \A chars \in Strings \cup MemberKeys : chars \in Seq(Characters)
    /\ \A token \in Numbers : token \in Seq(NumberChars) /\ IsNumeral(token)

-----------------------------------------------------------------------------
(* Documents: Make..., Set and Push.                                       *)

Null == [type |-> "null"]
Bool(value) == [type |-> "bool", bool |-> value]
Number(token) == [type |-> "number", number |-> token]
String(chars) == [type |-> "string", string |-> chars]
Array(items) == [type |-> "array", array |-> items]
Object(members) == [type |-> "object", object |-> members]

Position(members, key) ==
    {k \in DOMAIN members : members[k][1] = key}

\* Mutant: a key that is there already is added again.
SetAdding(doc, key, value) ==
    Object(Append(IF doc.type = "object" THEN doc.object ELSE <<>>, <<key, value>>))

\* Set: a document of another type becomes an object; a key keeps its place.
Set(doc, key, value) ==
    LET members == IF doc.type = "object" THEN doc.object ELSE <<>>
    IN  Object(IF Position(members, key) = {}
               THEN Append(members, <<key, value>>)
               ELSE [k \in DOMAIN members |->
                        IF members[k][1] = key THEN <<key, value>> ELSE members[k]])

Push(doc, value) ==
    Array(Append(IF doc.type = "array" THEN doc.array ELSE <<>>, value))

\* A key added behind members that may have it already.
SetAll(members) ==
    LET kept[k \in 0 .. Len(members)] ==
            IF k = 0 THEN Object(<<>>)
            ELSE Set(kept[k - 1], members[k][1], members[k][2])
    IN  kept[Len(members)]

Scalars == {Null, Bool(TRUE), Bool(FALSE)} \cup {Number(token) : token \in Numbers}
               \cup {String(chars) : chars \in Strings}

\* What holds these values, a key perhaps more than once.
Containers(values) ==
    [type : {"array"}, array : Seq(values)]
        \cup [type : {"object"}, object : Seq(MemberKeys \X values)]

HasKeysOnce(value) ==
    value.type = "object" =>
        \A i, j \in DOMAIN value.object :
            value.object[i][1] = value.object[j][1] => i = j

\* The documents nested at most n deep.
Documents[n \in Nat] ==
    IF n = 0 THEN Scalars
    ELSE Scalars \cup {value \in Containers(Documents[n - 1]) : HasKeysOnce(value)}

-----------------------------------------------------------------------------
(* Writing.                                                                *)

Indent(compact, level) ==
    IF compact THEN <<>> ELSE <<"newline">> \o [k \in 1 .. 2 * level |-> Blank]

\* Items one to a line, with commas between, as arrays and objects have them.
Lines(items, level, compact) ==
    FlattenSeq([k \in DOMAIN items |->
        (IF k > 1 THEN <<Comma>> ELSE <<>>) \o Indent(compact, level + 1) \o items[k]])
        \o Indent(compact, level)

Bracketed(open, items, level, compact, close) ==
    IF items = <<>> THEN <<open, close>>
    ELSE <<open>> \o Lines(items, level, compact) \o <<close>>

\* inner is what the values in it are written as.
AppendSerialized(value, level, compact, inner) ==
    CASE value.type = "null" -> <<"null">>
      [] value.type = "bool" -> <<IF value.bool THEN "true" ELSE "false">>
      [] value.type = "number" -> value.number
      [] value.type = "string" -> EscapeString(value.string)
      [] value.type = "array" ->
            Bracketed(OpenBracket, [k \in DOMAIN value.array |->
                               inner[<<value.array[k], level + 1, compact>>]],
                      level, compact, CloseBracket)
      [] value.type = "object" ->
            Bracketed(OpenBrace, [k \in DOMAIN value.object |->
                               EscapeString(value.object[k][1])
                               \o (IF compact THEN <<Colon>> ELSE <<Colon, Blank>>)
                               \o inner[<<value.object[k][2], level + 1, compact>>]],
                      level, compact, CloseBrace)

\* What a value nested at most n deep is written as.
Texts[n \in Nat] ==
    [at \in (Scalars \cup (IF n = 0 THEN {} ELSE Containers(Documents[n - 1])))
               \X Nat \X BOOLEAN |->
        AppendSerialized(at[1], at[2], at[3], IF n = 0 THEN <<>> ELSE Texts[n - 1])]

\* The bound is on the documents that are built below.
Serialize(value, compact) == Texts[MaxBuilt + 1][<<value, 0, compact>>]

-----------------------------------------------------------------------------
(* Reading.                                                                *)

\* The first place from pos on whose character is not one of chars.
Past(text, pos, chars) ==
    CHOOSE p \in pos .. pos + Len(text) :
        /\ At(text, p) \notin chars
        /\ \A q \in pos .. p - 1 : At(text, q) \in chars

SkipWhitespace(text, pos) == Past(text, pos, Whitespace)

\* Behind a character, if it is one of chars.
PastOne(text, pos, chars) == IF At(text, pos) \in chars THEN pos + 1 ELSE pos

\* Behind a mark, one of signs and digits, if the mark is there.
PastMarked(text, pos, mark, signs) ==
    IF At(text, pos) = mark
    THEN Past(text, PastOne(text, pos + 1, signs), Digits) ELSE pos

\* A sign, digits, a fraction and an exponent, none of which must be there;
\* wcstod fails if there is no digit before the exponent.
ParseNumber(text, start) ==
    LET signed == PastOne(text, start, {"-"})
        whole == Past(text, signed, Digits)
        fraction == PastMarked(text, whole, ".", {})
        end == PastMarked(text, fraction, "e", {"+", "-"})
    IN  IF whole = signed /\ fraction = PastOne(text, whole, {"."}) THEN Failed
        ELSE Got(Number(SubSeq(text, start, end - 1)), end)

\* Mutant: the end of the text closes what is open.
ClosesAtEnd(c, bracket) == c \in {bracket, "end"}
Closes(c, bracket) == c = bracket

TooDeep(depth) == depth > kMaxNestingDepth

ParseArray(text, pos, depth, rest) ==
    LET inside == SkipWhitespace(text, pos + 1)
        items == rest[<<"items", inside, depth>>]
    IN  IF TooDeep(depth) THEN Failed
        ELSE IF At(text, inside) = CloseBracket THEN Got(Array(<<>>), inside + 1)
        ELSE IF items.ok THEN Got(Array(items.value), items.pos) ELSE Failed

ParseObject(text, pos, depth, rest) ==
    LET inside == SkipWhitespace(text, pos + 1)
        members == rest[<<"members", inside, depth>>]
    IN  IF TooDeep(depth) THEN Failed
        ELSE IF At(text, inside) = CloseBrace THEN Got(Object(<<>>), inside + 1)
        ELSE IF members.ok THEN Got(SetAll(members.value), members.pos) ELSE Failed

\* depth is that of the value's surroundings, rest what the loops of arrays
\* and objects make of the text from each later place on.
ParseValue(text, pos, depth, rest) ==
    LET start == SkipWhitespace(text, pos)
        c == At(text, start)
    IN  CASE c = OpenBrace -> ParseObject(text, start, depth + 1, rest)
          [] c = OpenBracket -> ParseArray(text, start, depth + 1, rest)
          [] c = "quote" ->
                LET read == ParseString(text, start)
                IN  IF read.ok THEN Got(String(read.value), read.pos) ELSE Failed
          [] c = "true" -> Got(Bool(TRUE), start + 1)
          [] c = "false" -> Got(Bool(FALSE), start + 1)
          [] c = "null" -> Got(Null, start + 1)
          [] c \in Digits \cup {"-"} -> ParseNumber(text, start)
          [] OTHER -> Failed

\* What the loop of ParseArray does behind an item.
ItemTurn(text, value, after, depth, rest) ==
    CASE At(text, after) = Comma ->
            Prefixed(<<value>>, rest, <<"items", SkipWhitespace(text, after + 1), depth>>)
      [] Closes(At(text, after), CloseBracket) -> Got(<<value>>, after + 1)
      [] OTHER -> Failed

\* The loop of ParseArray, from an item on.
ParseItems(text, pos, depth, rest) ==
    LET item == ParseValue(text, pos, depth, rest)
    IN  IF item.ok
        THEN ItemTurn(text, item.value, SkipWhitespace(text, item.pos), depth, rest)
        ELSE Failed

\* What the loop of ParseObject does behind a member.
MemberTurn(text, member, after, depth, rest) ==
    CASE At(text, after) = Comma ->
            Prefixed(<<member>>, rest, <<"members", after + 1, depth>>)
      [] Closes(At(text, after), CloseBrace) -> Got(<<member>>, after + 1)
      [] OTHER -> Failed

\* The loop of ParseObject, from a key on.
ParseMembers(text, pos, depth, rest) ==
    LET key == ParseString(text, SkipWhitespace(text, pos))
        colon == SkipWhitespace(text, key.pos)
        value == ParseValue(text, colon + 1, depth, rest)
    IN  IF key.ok /\ At(text, colon) = Colon /\ value.ok
        THEN MemberTurn(text, <<key.value, value.value>>, SkipWhitespace(text, value.pos),
                        depth, rest)
        ELSE Failed

\* Nothing but white space may follow the value.
Parse(text) ==
    LET rest[place \in {"items", "members"} \X (1 .. Len(text) + 1)
                          \X (1 .. kMaxNestingDepth)] ==
            IF place[1] = "items" THEN ParseItems(text, place[2], place[3], rest)
            ELSE ParseMembers(text, place[2], place[3], rest)
        read == ParseValue(text, 1, 0, rest)
    IN  IF read.ok /\ At(text, SkipWhitespace(text, read.pos)) = "end"
        THEN read.value ELSE Failed

-----------------------------------------------------------------------------
(* Documents as a program builds them.                                     *)

VARIABLES doc, built
jsonVars == <<doc, built>>

Leaves == Scalars \cup {Array(<<>>), Object(<<>>)}

JsonInit == doc \in Leaves /\ built = 0

AddMember == \E key \in MemberKeys, leaf \in Leaves : doc' = Set(doc, key, leaf)

AddItem == \E leaf \in Leaves : doc' = Push(doc, leaf)

Nest == \/ doc' = Push(Array(<<>>), doc)
        \/ \E key \in MemberKeys : doc' = Set(Object(<<>>), key, doc)

JsonNext ==
    /\ built < MaxBuilt /\ built' = built + 1
    /\ AddMember \/ AddItem \/ Nest
JsonSpec == JsonInit /\ [][JsonNext]_jsonVars

(* What is written is read again as it was, in both layouts and with any   *)
(* characters in it, down to the nesting limit and not beyond              *)
(* (json.cpp:12-17, 387-430, 594-719).                                     *)
RoundTrip ==
    \A compact \in BOOLEAN :
        Parse(Serialize(doc, compact)) =
            IF doc \in Documents[kMaxNestingDepth] THEN doc ELSE Failed

\* The beginnings of a text, cut between characters or inside one that stands
\* for several.
TornTexts(text) ==
    LET cut(k) == SubSeq(text, 1, k)
    IN  {cut(k) : k \in 0 .. Len(text) - 1}
            \cup {Append(cut(k - 1), "torn") :
                     k \in {i \in DOMAIN text : text[i] \in Literals \cup DOMAIN HexChar}}

(* A settings file cut short by a failed write is never taken for a whole  *)
(* one (json.cpp:704-719, Settings.cpp:66-80).                             *)
TornIsRejected ==
    doc.type = "object" =>
        \A text \in TornTexts(Serialize(doc, FALSE)) : Parse(text) = Failed

(* In a file edited by hand the last of two members of one key counts, and *)
(* the document has the key once (json.cpp:514-530).                       *)
LastMemberCounts ==
    doc.type = "object" /\ doc \in Documents[kMaxNestingDepth] =>
        \A k \in DOMAIN doc.object :
            LET member == <<doc.object[k][1], Bool(TRUE)>>
                text == Serialize(Object(Append(doc.object, member)), TRUE)
            IN  Parse(text) = Object([doc.object EXCEPT ![k] = member])
===============================================================================
