------------------------------ MODULE VibranceRow ------------------------------
(***************************************************************************)
(* The vibrance row of the settings window over VibranceService            *)
(* (src/src/data/SettingsDialog.cpp): refreshed with the other rows,       *)
(* dragged by the user.  A refresh is three steps, as a trackbar that is   *)
(* disabled ends its drag and so calls the driver in between.              *)
(***************************************************************************)
EXTENDS VibranceService

VARIABLES
    row,            \* the text of its label, its position, whether it is enabled
    m_draggingVibrance,
    seen,           \* level in RefreshRows
    refresh,        \* where RefreshRows is: "no", "read", "disabled", or "gone"
    current         \* since the row's last read only the refresh touched the driver

rowVars == <<row, m_draggingVibrance, seen, refresh, current>>
rowSystemVars == <<vibranceVars, rowVars>>

RowInit ==
    /\ VibranceInit
    /\ row = [text |-> "", pos |-> 0, enabled |-> TRUE]
    /\ m_draggingVibrance = FALSE /\ seen = -1
    /\ refresh = "no" /\ current = FALSE

\* App::Init probes before there is a window.
LoadInterface == TryLoad /\ UNCHANGED rowVars

ReadLevel ==
    /\ probed /\ refresh = "no" /\ refresh' = "read" /\ current' = TRUE
    /\ \E answer \in Outcomes :
           /\ seen' = GetLevel(answer)
           /\ service' = AfterGet(answer)
           /\ driver' \in IF service' # service THEN Unloaded(service, driver)
                          ELSE {driver}
    /\ UNCHANGED <<probed, row, m_draggingVibrance>>

SetLevel(level) ==
    \E answer \in Outcomes :
        /\ service' = AfterSet(service, answer)
        /\ \E d \in DriverAfterSet(service, driver, answer, level) :
               driver' \in IF service' # service THEN Unloaded(service, d) ELSE {d}

\* Mutant: a read that failed is shown as it is.
NothingToShowUnlessGone == ~service.available
NothingToShow == ~service.available \/ seen < 0

\* EnableWindow(FALSE): a drag ends, TB_ENDTRACK repeats its level.
Disable ==
    /\ refresh = "read" /\ NothingToShow /\ refresh' = "disabled"
    /\ row' = [row EXCEPT !.enabled = FALSE]
    /\ m_draggingVibrance' = FALSE
    /\ IF m_draggingVibrance THEN SetLevel(row.pos) ELSE UNCHANGED <<service, driver>>
    /\ UNCHANGED <<probed, seen, current>>

Explain ==
    /\ refresh = "disabled" /\ refresh' = "no"
    /\ row' = [row EXCEPT !.text = IF service.available THEN "detecting..."
                                   ELSE "unavailable"]
    /\ UNCHANGED <<vibranceVars, m_draggingVibrance, seen, current>>

Show ==
    /\ refresh = "read" /\ ~NothingToShow /\ refresh' = "no"
    /\ row' = IF m_draggingVibrance THEN row
              ELSE [text |-> "number", pos |-> seen, enabled |-> TRUE]
    /\ UNCHANGED <<vibranceVars, m_draggingVibrance, seen, current>>

\* Between MinLevel and MaxLevel, which a retired interface keeps.
SliderRange == service.range[1] .. service.range[2]

\* WM_HSCROLL: a thumb that is tracked, its release, or a key.
Slide ==
    /\ probed /\ refresh = "no" /\ row.enabled
    /\ m_draggingVibrance' \in BOOLEAN
    /\ \E pos \in SliderRange :
           /\ row' = [row EXCEPT !.pos = pos, !.text = "number"]
           /\ SetLevel(pos)
    /\ current' = FALSE
    /\ UNCHANGED <<probed, seen, refresh>>

Outside == LevelChanges /\ current' = FALSE
              /\ UNCHANGED <<row, m_draggingVibrance, seen, refresh>>

\* At exit the window goes first, then the service.
ServiceGoes ==
    /\ probed /\ refresh = "no" /\ refresh' = "gone"
    /\ m_draggingVibrance' = FALSE
    /\ service' = Released(service)
    /\ driver' \in Unloaded(service, driver)
    /\ UNCHANGED <<probed, row, seen, current>>

RowNext == \/ LoadInterface \/ ReadLevel \/ Disable \/ Explain \/ Show \/ Slide
           \/ Outside \/ ServiceGoes

RowSpec == RowInit /\ [][RowNext]_rowSystemVars

(* After a refresh the row says what the driver did, also when it faulted  *)
(* in that very refresh or in the drag the refresh cut short: gone is      *)
(* grayed and "unavailable", a failed read is grayed but comes back with   *)
(* the next good one, and an enabled row that is not being dragged stands  *)
(* at the driver's level.  One that is dragged stands where the driver was *)
(* last asked to go (SettingsDialog.cpp:222-241, 408-413, 548-567).        *)
VibranceRowTruthful ==
    /\ current /\ refresh = "no" =>
        /\ row.enabled <=> service.available /\ seen >= 0
        /\ ~service.available => row.text = "unavailable"
        /\ row.enabled /\ ~m_draggingVibrance => row.pos = driver.level
    /\ m_draggingVibrance /\ service.available => row.pos = driver.asked
================================================================================
