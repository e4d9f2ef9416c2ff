-------------------------- MODULE CapabilitiesParser --------------------------
(***************************************************************************)
(* ParseSupportedVcpCodes (src/src/ddc/CapabilitiesParser.cpp), one        *)
(* character of the capability string at a time.  The opening token, in    *)
(* any case, counts as one character wherever it stands.                   *)
(***************************************************************************)
EXTENDS Integers, Sequences, FiniteSets

CONSTANTS
    HexChars,       \* the hexadecimal digits of the texts,
    HexValue,       \* their values,
    UnsignedMod,    \* the modulus of unsigned, 2^32 in the build,
    MaxText         \* and a bound on the length of the vcp segment

VcpToken == "vcp("
Opening == "("
Closing == ")"
Space == " "
Others == {VcpToken, Opening, Closing, Space}
Chars == HexChars \cup Others

ASSUME ParserAssumption ==
    /\ HexChars \cap Others = {}
    /\ HexValue \in [HexChars -> 0 .. 15]
    /\ UnsignedMod \in Nat \ {0} /\ UnsignedMod % 256 = 0
    /\ MaxText \in Nat

VARIABLES
    found,          \* FindVcpSegmentStart has found the token
    segment,        \* the characters read since
    depth, hexAccumulator, hexDigits, codes

parserVars == <<found, segment, depth, hexAccumulator, hexDigits, codes>>

ParserInit ==
    /\ found = FALSE /\ segment = <<>>
    /\ depth = 1 /\ hexAccumulator = 0 /\ hexDigits = 0 /\ codes = {}

InSegment == found /\ depth > 0 /\ Len(segment) < MaxText

FindVcpSegmentStart(ch) ==
    /\ ~found
    /\ found' = (ch = VcpToken)
    /\ UNCHANGED <<segment, depth, hexAccumulator, hexDigits, codes>>

\* The accumulator is not reset at parentheses, only the count.
ReadOpening ==
    /\ depth' = depth + 1 /\ hexDigits' = 0
    /\ UNCHANGED <<hexAccumulator, codes>>

ReadClosing ==
    /\ depth' = depth - 1 /\ hexDigits' = 0
    /\ UNCHANGED <<hexAccumulator, codes>>

\* Mutant: without the cast, a digit from before a parenthesis counts.
ByteUncast(value) == value

\* The cast to BYTE.
Byte(value) == value % 256

ReadHex(ch) ==
    LET accumulated == (hexAccumulator * 16 + HexValue[ch]) % UnsignedMod
    IN  IF depth # 1 THEN UNCHANGED <<hexAccumulator, hexDigits, codes>>
        ELSE IF hexDigits + 1 = 2
        THEN /\ codes' = codes \cup {Byte(accumulated)}
             /\ hexDigits' = 0 /\ hexAccumulator' = 0
        ELSE /\ hexAccumulator' = accumulated /\ hexDigits' = hexDigits + 1
             /\ UNCHANGED codes

ReadOther ==
    /\ hexDigits' = 0 /\ hexAccumulator' = 0
    /\ UNCHANGED codes

\* The token inside the segment: v, c, p and an opening parenthesis.
ReadToken == depth' = depth + 1 /\ ReadOther

Read(ch) ==
    /\ InSegment
    /\ segment' = Append(segment, ch)
    /\ \/ ch = Opening /\ ReadOpening
       \/ ch = Closing /\ ReadClosing
       \/ ch = VcpToken /\ ReadToken
       \/ ch = Space /\ ReadOther /\ UNCHANGED depth
       \/ ch \in HexChars /\ ReadHex(ch) /\ UNCHANGED depth
    /\ UNCHANGED found

ParserNext == \E ch \in Chars : FindVcpSegmentStart(ch) \/ Read(ch)

ParserSpec == ParserInit /\ [][ParserNext]_parserVars

-----------------------------------------------------------------------------
(* What a capability string lists.                                         *)

Count(k, chars) == Cardinality({j \in 1 .. k - 1 : segment[j] \in chars})

\* How deep character k stands; 0 once the segment is closed.
Level(k) == 1 + Count(k, {Opening, VcpToken}) - Count(k, {Closing})

\* The digits from j to k stand next to each other.
Run(j, k) == \A i \in j .. k : segment[i] \in HexChars

\* A run is read in pairs from its start.
StartsPair(k) ==
    /\ Run(k, k + 1) /\ Level(k) = 1
    /\ \E j \in 1 .. k : /\ Run(j, k) /\ (k - j) % 2 = 0
                         /\ j = 1 \/ ~Run(j - 1, j - 1)

ListedCodes ==
    {16 * HexValue[segment[k]] + HexValue[segment[k + 1]] :
        k \in {i \in 1 .. Len(segment) - 1 : StartsPair(i)}}

(* The codes found are those the segment lists at its own level, a pair of *)
(* adjacent digits each, whatever odd digits, lists of values and          *)
(* unbalanced parentheses come between (CapabilitiesParser.h:12-27).       *)
CodesAreThoseListed == codes = ListedCodes
===============================================================================
