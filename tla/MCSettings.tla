----------------------------- MODULE MCSettings -----------------------------
(***************************************************************************)
(* Instances of SettingsStore for TLC.                                     *)
(***************************************************************************)
EXTENDS SettingsStore

\* First launch, a damaged file, two edited by hand, the second with numbers
\* beyond int, and one of an old version.
SampleFiles ==
    { Absent, Torn,
      Holding([enabled |-> Other, scrollStep |-> Num(-5), scope |-> Num(3),
               last |-> Num(250)]),
      Holding([scrollStep |-> Num(1000), scope |-> Num(-1000),
               last |-> Num(1000)]),
      Holding([scope |-> Num(0), last |-> Num(55)]) }

\* What an eight-bit int makes of a number it cannot hold.
SmallestInt == -128

\* The scope list: all monitors and the second one.
ScopeList == {-1, 1}
=============================================================================
