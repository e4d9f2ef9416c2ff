------------------------------ MODULE MCParts ------------------------------
(***************************************************************************)
(* The parts that are checked on their own, in one run: the percentage     *)
(* conversions, the capability parser, the JSON reader and writer, the     *)
(* vibrance row with its driver, and the settings store.  A behaviour      *)
(* exercises one of them while the others stay as they start, so that the  *)
(* run is the sum of five.                                                 *)
(***************************************************************************)
EXTENDS MCSettings, ScalingSweep, CapabilitiesParser, Json, VibranceRow

\* Maxima seen on panels (50, 100, 255), broken (0) and awkward ones.
SampleMaxima == {0, 1, 2, 3, 7, 10, 33, 50, 64, 99, 100, 101, 127, 199, 200,
                 255, 256, 640}

SampleHexValue == [c \in HexChars |-> IF c = "1" THEN 1 ELSE 11]

\* A string with every kind of character, keys with and without an escape.
SampleCharacters == {"a", "quote", "\\", "newline", "control", "high", "low"}
SampleStrings == {<<"a", "quote", "\\", "newline", "control", "high", "low">>}
SampleKeys == {<<"a">>, <<"quote">>}
SampleNumbers == {<<"-", "7", ".", "5", "e", "-", "1">>}

\* A range from zero and one that is not.
SampleDeviceRanges == {<<0, 3>>, <<1, 2>>}

-----------------------------------------------------------------------------
VARIABLE part

sweepVars == <<percent, max>>
storeVars == <<file, tmp, m_data, m_dirty, phase, exiting, saved>>

PartsInit ==
    /\ part \in {"scaling", "capabilities", "document", "vibrance", "settings"}
    /\ IF part = "scaling" THEN SweepInit ELSE percent = 0 /\ max = 1
    /\ IF part = "document" THEN JsonInit ELSE doc = Null /\ built = 0
    /\ ParserInit
    /\ RowInit
    /\ Init /\ (part # "settings" => file = Absent)

PartsNext ==
    /\ UNCHANGED part
    /\ \/ /\ part = "scaling" /\ SweepNext
          /\ UNCHANGED <<storeVars, parserVars, jsonVars, rowSystemVars>>
       \/ /\ part = "capabilities" /\ ParserNext
          /\ UNCHANGED <<sweepVars, storeVars, jsonVars, rowSystemVars>>
       \/ /\ part = "document" /\ JsonNext
          /\ UNCHANGED <<sweepVars, storeVars, parserVars, rowSystemVars>>
       \/ /\ part = "vibrance" /\ RowNext
          /\ UNCHANGED <<sweepVars, storeVars, parserVars, jsonVars>>
       \/ /\ part = "settings" /\ Next
          /\ UNCHANGED <<sweepVars, parserVars, jsonVars, rowSystemVars>>

PartsSpec ==
    PartsInit /\ [][PartsNext]_<<part, storeVars, sweepVars, parserVars, jsonVars,
                                 rowSystemVars>>
=============================================================================
