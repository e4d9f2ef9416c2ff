------------------------------ MODULE MCDialog ------------------------------
(***************************************************************************)
(* Instances of SettingsDialog for TLC: up to two monitors that answer     *)
(* brightness, or one of them, or none.                                    *)
(***************************************************************************)
EXTENDS SettingsDialog

BrightnessRow == <<"Brightness">>

Ch(index, current) ==
    [param |-> "Brightness", monitorIndex |-> index, current |-> current]

OneOrTwo == { <<>>, <<Ch(0, 0), Ch(1, 0)>>, <<Ch(1, 0)>> }

ScrollDown == {-50}

\* A scope below -1 comes from a file edited by hand; it is not clamped.
EditedOrSecondMonitor == {-2, 1}
=============================================================================
