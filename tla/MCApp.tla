-------------------------------- MODULE MCApp --------------------------------
(***************************************************************************)
(* App for TLC: half notches up, one and a half down, two places.          *)
(***************************************************************************)
EXTENDS App

HalfAndMore == {60, -180}
=============================================================================
