--------------------------- MODULE SettingsDialog ---------------------------
(***************************************************************************)
(* The settings window (src/src/data/SettingsDialog.cpp) and the handlers  *)
(* of App::HandleMessage that feed it, over the coordinator as the UI      *)
(* thread sees it.                                                         *)
(*                                                                         *)
(* The UI thread handles one message at a time.  A handler is an action    *)
(* that leaves in todo what it still has to ask the coordinator, one call  *)
(* per step, while the worker goes on: each call takes the mutex anew, and *)
(* Monitors() is read with no mutex at all.                                *)
(***************************************************************************)
EXTENDS CoordinatorView

CONSTANTS
    kRows,          \* the rows the instance has, in order: a Seq of Params
    SavedScopes,    \* the scopes Settings may have loaded
    MaxPosted       \* bound on the kMonitorsChanged messages not yet handled

kNeutralSliderPos == 50

Rows == {kRows[k] : k \in DOMAIN kRows}

Percent == 0 .. 100

ASSUME DialogAssumption ==
    /\ kRows \in Seq(Params)
    /\ SavedScopes \subseteq Int
    /\ MaxPosted \in Nat \ {0}
    /\ SliderPositions \subseteq Percent
    /\ kDefaultScrollStep \in Int /\ Steps \subseteq Int
    /\ MonitorCounts \subseteq Nat
    /\ ChannelLists \subseteq Seq([param : Params, monitorIndex : Nat,
                                  current : Percent])

VARIABLES
    dialog,         \* "none", "hidden" or "shown"
    entries,        \* monitors in the scope list, after "All monitors"
    selected,       \* CB_GETCURSEL: -1 none, 0 all monitors, k monitor k - 1
    previous,       \* in RefreshScopeCombo, the selection before the reset
    row,            \* per row its text, trackbar position and enabling
    m_dragging,     \* the rows between TB_THUMBTRACK and TB_ENDTRACK
    detectTimer,
    posted,         \* kMonitorsChanged messages in the queue
    savedScope,     \* Settings: data().scope
    todo            \* what the handler has still to do

scopeVars == <<entries, selected, previous, savedScope>>
rowVars == <<row, m_dragging>>
dialogVars == <<dialog, scopeVars, rowVars, detectTimer, posted, todo>>
vars == <<viewVars, dialogVars>>

-----------------------------------------------------------------------------
RowTasks == [k \in DOMAIN kRows |-> <<"ask", kRows[k]>>]
RefreshScopeCombo == << <<"reset">>, <<"list">> >>
RefreshRows == RowTasks
OnInitDialog(rest) ==
    RefreshScopeCombo \o (RefreshRows \o (<< <<"arm">> >> \o rest))
RefreshAndShow == RefreshRows \o << <<"show">> >>

Init ==
    /\ ViewInit
    /\ dialog = "none"
    /\ entries = 0 /\ selected = -1 /\ previous = -1
    /\ row = [p \in Rows |-> [text |-> "", pos |-> 0, enabled |-> TRUE]]
    /\ m_dragging = [p \in Rows |-> FALSE]
    /\ detectTimer = FALSE /\ posted = 0
    /\ savedScope \in SavedScopes
    /\ todo = <<>>

Idle == todo = <<>>
Running == Idle /\ m_started

\* App::Init: the saved scope first, then the worker.
Launch ==
    /\ Idle /\ ~m_started
    /\ m_scope' = savedScope
    /\ m_started' = TRUE /\ m_reenumerateRequested' = TRUE
    /\ UNCHANGED <<m_ready, m_channels, m_enabled, m_scrollStep, workerVars,
                   dialogVars>>

\* Mutant: an existing window is shown as it was.
OpenWithoutRefresh ==
    /\ Running
    /\ todo' = IF dialog = "none" THEN OnInitDialog(<< <<"show">> >>)
               ELSE << <<"show">> >>
    /\ dialog' = IF dialog = "none" THEN "hidden" ELSE dialog
    /\ UNCHANGED <<viewVars, scopeVars, rowVars, detectTimer, posted>>

\* The first time OnInitDialog runs; every time WM_APP refreshes the rows.
Open ==
    /\ Running
    /\ todo' = IF dialog = "none" THEN OnInitDialog(RefreshAndShow)
               ELSE RefreshAndShow
    /\ dialog' = IF dialog = "none" THEN "hidden" ELSE dialog
    /\ UNCHANGED <<viewVars, scopeVars, rowVars, detectTimer, posted>>

\* WM_TIMER: Ready() once, and the timer goes when it says yes.
DetectTick ==
    /\ Running /\ detectTimer
    /\ IF Ready THEN /\ detectTimer' = FALSE
                     /\ todo' = RefreshScopeCombo \o RefreshRows
       ELSE todo' = RefreshRows /\ UNCHANGED detectTimer
    /\ UNCHANGED <<viewVars, dialog, scopeVars, rowVars, posted>>

\* Mutants: half of OnMonitorsChanged is forgotten.
MonitorsChangedRowsOnly ==
    /\ Running /\ posted > 0
    /\ posted' = posted - 1
    /\ todo' = IF dialog = "none" THEN <<>> ELSE RefreshRows
    /\ UNCHANGED <<viewVars, dialog, scopeVars, rowVars, detectTimer>>
MonitorsChangedComboOnly ==
    /\ Running /\ posted > 0
    /\ posted' = posted - 1
    /\ todo' = IF dialog = "none" THEN <<>> ELSE RefreshScopeCombo
    /\ UNCHANGED <<viewVars, dialog, scopeVars, rowVars, detectTimer>>

\* kMonitorsChangedMessage: nothing happens before there is a dialog.
MonitorsChanged ==
    /\ Running /\ posted > 0
    /\ posted' = posted - 1
    /\ todo' = IF dialog = "none" THEN <<>> ELSE RefreshScopeCombo \o RefreshRows
    /\ UNCHANGED <<viewVars, dialog, scopeVars, rowVars, detectTimer>>

-----------------------------------------------------------------------------
(* The user.                                                               *)

\* WM_HSCROLL: a tracked thumb, its release, or a key or page step.
Slide(param, pos) ==
    /\ Running
    /\ \/ /\ dialog = "shown" /\ row[param].enabled
          /\ \E dragging \in {TRUE, m_dragging[param]} :
                m_dragging' = [m_dragging EXCEPT ![param] = dragging]
       \/ /\ m_dragging[param] /\ pos = row[param].pos
          /\ m_dragging' = [m_dragging EXCEPT ![param] = FALSE]
    /\ row' = [row EXCEPT ![param].pos = pos, ![param].text = "number"]
    /\ IF Accepting THEN AdjustTo(param, pos) ELSE UNCHANGED viewVars
    /\ UNCHANGED <<dialog, scopeVars, detectTimer, posted, todo>>

\* CBN_SELCHANGE of the scope list.
SelectScope ==
    /\ Running /\ dialog = "shown"
    /\ \E sel \in 0 .. entries :
          /\ selected' = sel
          /\ SetScope(sel - 1)
          /\ savedScope' = sel - 1
    /\ todo' = RefreshRows
    /\ UNCHANGED <<dialog, entries, previous, rowVars, detectTimer, posted>>

\* A scroll checkbox.
Toggle(param) ==
    /\ Running /\ dialog = "shown" /\ row[param].enabled
    /\ SetParamEnabled(param, ~m_enabled[param])
    /\ UNCHANGED dialogVars

\* Close, Esc and the title bar.
Hide ==
    /\ Running /\ dialog = "shown"
    /\ dialog' = "hidden"
    /\ UNCHANGED <<viewVars, scopeVars, rowVars, detectTimer, posted, todo>>

\* The wheel over the tray icon, then OnValuesChanged.
Scroll(steps) ==
    /\ Running
    /\ IF Accepting THEN AdjustAll(steps) ELSE UNCHANGED viewVars
    /\ todo' = IF dialog = "shown" THEN RefreshRows ELSE <<>>
    /\ UNCHANGED <<dialog, scopeVars, rowVars, detectTimer, posted>>

\* WM_DISPLAYCHANGE, WM_POWERBROADCAST, WM_DEVICECHANGE.
DisplayChange ==
    /\ Running
    /\ RequestReenumerate
    /\ UNCHANGED dialogVars

-----------------------------------------------------------------------------
(* What a handler has still to do.                                         *)

Task(name) == todo # <<>> /\ Head(todo)[1] = name
Then(tasks) == todo' = tasks \o Tail(todo)

ResetList ==
    /\ Task("reset")
    /\ previous' = selected
    /\ entries' = 0 /\ selected' = -1
    /\ Then(<<>>)
    /\ UNCHANGED <<viewVars, dialog, savedScope, rowVars, detectTimer, posted>>

(* What size() may be seen to be: Refresh empties the vector and fills it  *)
(* again while the dialog walks it.                                        *)
SeenMonitors == IF stage = "refreshing" THEN {listed, 0} ELSE {listed}

ListMonitor ==
    /\ Task("list")
    /\ \E seen \in SeenMonitors :
          IF entries < seen THEN entries' = entries + 1 /\ UNCHANGED todo
          ELSE Then(<< <<"select">> >>) /\ UNCHANGED entries
    /\ UNCHANGED <<viewVars, dialog, selected, previous, savedScope, rowVars,
                   detectTimer, posted>>

\* What RefreshScopeCombo is to select: what was, or the live scope.
Kept == IF previous \in 0 .. entries THEN previous - 1 ELSE m_scope

\* Mutant: the comparison is off by one.
PastOneBeyond == Kept > entries /\ entries # 0

\* itemCount - 2 is unsigned: with no monitor nothing is past the end.
PastTheEnd == Kept >= entries /\ entries # 0

\* Mutant: the reset is not persisted.
ResetWithoutSave == SetScope(-1) /\ selected' = 0 /\ UNCHANGED savedScope

ResetScope == SetScope(-1) /\ selected' = 0 /\ savedScope' = -1

\* CB_SETCURSEL past the end leaves nothing selected.
SelectKept ==
    /\ selected' = IF Kept < 0 THEN 0 ELSE IF Kept < entries THEN Kept + 1 ELSE -1
    /\ UNCHANGED <<viewVars, savedScope>>

SelectMonitor ==
    /\ Task("select")
    /\ IF PastTheEnd THEN ResetScope ELSE SelectKept
    /\ previous' = -1
    /\ Then(<<>>)
    /\ UNCHANGED <<dialog, entries, rowVars, detectTimer, posted>>

\* EnableWindow(FALSE) takes the capture from a trackbar: its drag is over.
GrayOut(param, reason) ==
    /\ row' = [row EXCEPT ![param].enabled = FALSE, ![param].text = reason]
    /\ m_dragging' = [m_dragging EXCEPT ![param] = FALSE]
    /\ Then(IF m_dragging[param] THEN << <<"end drag", param>> >> ELSE <<>>)

(* TB_ENDTRACK comes from within EnableWindow and repeats the position, in *)
(* a critical section of its own; its label is overwritten by the reason.  *)
EndDrag ==
    /\ Task("end drag")
    /\ LET param == Head(todo)[2] IN
       IF Accepting THEN AdjustTo(param, row[param].pos) ELSE UNCHANGED viewVars
    /\ Then(<<>>)
    /\ UNCHANGED <<dialog, scopeVars, rowVars, detectTimer, posted>>

\* Ready() and SupportsParam(); once ready, the first answer stays yes.
AskRow ==
    /\ Task("ask")
    /\ LET param == Head(todo)[2] IN
       CASE ~Ready -> GrayOut(param, "detecting...")
         [] Ready /\ ~SupportsParam(param, m_scope) ->
               GrayOut(param, "not supported on this monitor")
         [] OTHER ->
               /\ row' = [row EXCEPT ![param].enabled = TRUE]
               /\ Then(IF m_dragging[param] THEN <<>> ELSE << <<"show value", param>> >>)
               /\ UNCHANGED m_dragging
    /\ UNCHANGED <<viewVars, dialog, scopeVars, detectTimer, posted>>

\* Mutant: the answers that are no percentage reach the trackbar.
PositionAsGiven(value) == value

Position(value) == IF value < 0 THEN kNeutralSliderPos ELSE value

ShowValue ==
    /\ Task("show value")
    /\ LET param == Head(todo)[2]
           value == GetValue(param, m_scope)
       IN  row' = [row EXCEPT
                     ![param].pos = Position(value),
                     ![param].text = IF value = kValueMixed THEN "varies" ELSE "number"]
    /\ Then(<<>>)
    /\ UNCHANGED <<viewVars, dialog, scopeVars, m_dragging, detectTimer, posted>>

\* The end of OnInitDialog: another Ready(), and the timer if it says no.
Arm ==
    /\ Task("arm")
    /\ detectTimer' = ~Ready
    /\ Then(<<>>)
    /\ UNCHANGED <<viewVars, dialog, scopeVars, rowVars, posted>>

ShowWindow ==
    /\ Task("show")
    /\ dialog' = "shown"
    /\ Then(<<>>)
    /\ UNCHANGED <<viewVars, scopeVars, rowVars, detectTimer, posted>>

-----------------------------------------------------------------------------
\* The swap posts kMonitorsChanged before it lets go of the mutex.
SwapAndPost ==
    /\ posted < MaxPosted
    /\ Swap
    /\ posted' = posted + 1
    /\ UNCHANGED <<dialog, scopeVars, rowVars, detectTimer, todo>>

Worker == \/ (Take \/ Refresh) /\ UNCHANGED dialogVars
          \/ SwapAndPost

User == \/ Open \/ SelectScope \/ Hide \/ DisplayChange
        \/ \E param \in Rows : \E pos \in SliderPositions \cup {row[param].pos} :
               Slide(param, pos)
        \/ \E param \in Rows \cap ToggledParams : Toggle(param)
        \/ \E steps \in Steps : Scroll(steps)

Handler == ResetList \/ ListMonitor \/ SelectMonitor \/ AskRow \/ EndDrag
              \/ ShowValue \/ Arm \/ ShowWindow

Next == Launch \/ User \/ DetectTick \/ MonitorsChanged \/ Handler \/ Worker

Spec == Init /\ [][Next]_vars

(* The worker thread runs, a handler that was begun goes on, and a posted  *)
(* message reaches the head of the queue however busy the user is.  The    *)
(* timer is not counted on: WM_TIMER yields to everything else.            *)
FairSpec == Spec /\ WF_vars(Worker) /\ WF_vars(Handler) /\ SF_vars(MonitorsChanged)

-----------------------------------------------------------------------------
Texts == {"", "detecting...", "not supported on this monitor", "varies", "number"}

TypeOK ==
    /\ dialog \in {"none", "hidden", "shown"}
    /\ entries \in Nat /\ selected \in -1 .. entries
    /\ previous \in Int /\ savedScope \in Int
    /\ row \in [Rows -> [text : Texts, pos : Percent, enabled : BOOLEAN]]
    /\ m_dragging \in [Rows -> BOOLEAN]
    /\ detectTimer \in BOOLEAN /\ posted \in 0 .. MaxPosted

\* Nothing is under way that will refresh the dialog.
Quiescent == Idle /\ dialog # "none" /\ posted = 0 /\ stage = "idle"

(* A window the user sees tells the truth: with every message handled, a   *)
(* row that is not being dragged shows what the coordinator says of its    *)
(* parameter in the scope in force, whatever was enumerated, scrolled or   *)
(* slid while the row was being refreshed, hidden or grayed                *)
(* (SettingsDialog.cpp:134-157, 184-203, 473-547).                         *)
Truthful(param) ==
    LET value == GetValue(param, m_scope) IN
    CASE ~Ready -> row[param].text = "detecting..." /\ ~row[param].enabled
      [] Ready /\ ~SupportsParam(param, m_scope) ->
            row[param].text = "not supported on this monitor" /\ ~row[param].enabled
      [] OTHER -> /\ row[param].enabled
                  /\ row[param].text = IF value = kValueMixed THEN "varies" ELSE "number"
                  /\ row[param].pos = IF value = kValueMixed
                                      THEN kNeutralSliderPos ELSE value
RowsTellTheTruth ==
    dialog = "shown" /\ Idle /\ posted = 0 =>
        \A param \in Rows : ~m_dragging[param] => Truthful(param)

(* When the dust of a hot-plug settles the scope list has one entry per    *)
(* monitor, and the scope names one of them unless there is none at all:   *)
(* a list read while Refresh replaced the vector is read again             *)
(* (SettingsDialog.cpp:425-470, App.cpp:313-326).                          *)
ScopeNamesMonitor ==
    Quiescent => /\ entries = listed
                 /\ (m_scope < listed \/ listed = 0)

(* The list, the coordinator and the settings file agree on the scope      *)
(* whenever no handler is at work: every scope below 0, as a file edited   *)
(* by hand may have it, is all monitors, and with no monitor to select     *)
(* nothing may be selected (SettingsDialog.cpp:310-321, 455-470,           *)
(* Settings.cpp:46-47).                                                    *)
ScopeInSync ==
    /\ Running => savedScope = m_scope
    /\ Idle /\ dialog # "none" =>
          \/ selected = IF m_scope < 0 THEN 0 ELSE m_scope + 1
          \/ selected = -1 /\ entries = 0

(* "detecting..." does not outlive the first enumeration, though it may    *)
(* end anywhere between the rows asking and the timer being armed          *)
(* (SettingsDialog.cpp:184-203, 415-422).                                  *)
DetectionEnds ==
    \A param \in Rows :
        (dialog # "none" /\ row[param].text = "detecting...")
            ~> row[param].text # "detecting..."

(* "MonitorManager::Refresh() replaces its vector only while no one else   *)
(* can touch it", and "a persisted scope index that no longer exists       *)
(* (monitor unplugged, order changed) resets": only the scope of a monitor *)
(* that is gone is given up (AdjustmentCoordinator.h:56-58,                *)
(* SettingsDialog.h:45-48, SettingsDialog.cpp:438-469).                    *)
ScopeLostOnlyIfGone ==
    [][Task("select") /\ m_scope # -1 /\ m_scope' = -1 => m_scope >= listed]_vars
=============================================================================
