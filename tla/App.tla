--------------------------------- MODULE App ---------------------------------
(***************************************************************************)
(* The UI thread from wWinMain to the last destructor (src/src/app/App.cpp,*)
(* main.cpp), with the tray of TrayService, the autostart value of         *)
(* AutostartUtils.h and what the settings window does to them.             *)
(*                                                                         *)
(* Init, a message handler and the destructors are sequences of calls that *)
(* other processes and the worker may interleave: todo holds the calls     *)
(* still to make.  Messages whose content does not depend on when they     *)
(* were posted arrive when they are handled; those that do wait in posted. *)
(* The time between two clicks is not modelled: an event of the icon may   *)
(* always be dropped by the 400 ms debounce.                               *)
(***************************************************************************)
EXTENDS TrayService

CONSTANTS
    Deltas,         \* movements of the wheel in one hook event
    MaxPosted,      \* bound on the messages that wait
    RegistryFails   \* whether the registry may refuse a write

WHEEL_DELTA == 120

TaskbarMessage == [delta |-> 0, kind |-> "taskbar"]
WheelMessage(delta) == [delta |-> delta, kind |-> "wheel"]
Messages == {TaskbarMessage} \cup {WheelMessage(delta) : delta \in Deltas}

ASSUME AppAssumption ==
    /\ Deltas \subseteq Int
    /\ MaxPosted \in Nat \ {0}
    /\ RegistryFails \in BOOLEAN

VARIABLES
    stage,          \* "init", "run", "box" (Init failed), "unwind", "gone", "killed"
    todo,           \* the calls the UI thread is about to make
    posted,         \* queue of TaskbarCreated and wheel messages, these with a delta
    quit,           \* PostQuitMessage was called
    m_hwnd,         \* whether the hidden window is known to App
    rectTimer,
    m_scrollRemainder,
    owed,           \* wheel movement consumed and not yet turned into steps
    menu,           \* "closed", or open with its autostart item "ticked" or "plain"
    m_autostartEnabled,
    runKey,         \* the registry value of AutostartUtils.h is there
    dialog,         \* the settings window: "none", "hidden" or "shown"
    checkbox,       \* its "Start with Windows"
    unsaved,        \* a slider was dragged and no save was tried since
    worker          \* the coordinator's thread: "none", "running" or "joined"

queueVars == <<posted, quit>>
scrollVars == <<m_scrollRemainder, owed>>
autostartVars == <<menu, m_autostartEnabled, runKey, checkbox>>
dialogVars == <<dialog, unsaved>>
lifeVars == <<stage, m_hwnd, rectTimer, worker>>
vars == <<trayVars, queueVars, scrollVars, autostartVars, dialogVars, lifeVars,
          todo>>

-----------------------------------------------------------------------------
\* App::Init.  The settings are read first (SettingsStore, SettingsDialog) and
\* the vibrance driver is probed (VibranceService) before there is a window.
InitCalls == <<"readAutostart", "createWindow", "addIcon", "start",
               "installHook", "setTimer">>

\* Mutant: the hook stays for the destructor to remove.
ExitCallsKeepingHook == <<"killTimer", "removeIcon", "postQuit">>

ExitCalls == <<"killTimer", "removeHook", "removeIcon", "postQuit">>
TaskbarCreatedCalls == <<"removeIcon", "addIcon", "refreshRect">>

\* ~App, then its members in reverse order: m_settings (which tries to save
\* again), m_tray, m_coordinator (which stops again), m_monitors.
UnwindCalls == <<"removeIcon", "stop", "saveIfDirty", "destroyDialog",
                 "removeHook", "removeIcon", "stop", "destroyMonitors">>

\* Mutant: neither destructor stops the worker.
UnwindWithoutStop ==
    SelectSeq(IF m_hwnd THEN UnwindCalls ELSE Tail(UnwindCalls),
              LAMBDA call : call # "stop")

\* Without a window ~App has no icon to remove.
Unwind == IF m_hwnd THEN UnwindCalls ELSE Tail(UnwindCalls)

Init ==
    /\ TrayInit
    /\ stage = "init" /\ todo = InitCalls
    /\ posted = <<>> /\ quit = FALSE
    /\ m_hwnd = FALSE /\ rectTimer = FALSE /\ worker = "none"
    /\ m_scrollRemainder = 0 /\ owed = 0
    /\ runKey \in BOOLEAN /\ m_autostartEnabled = FALSE
    /\ menu = "closed" /\ checkbox = FALSE
    /\ dialog = "none" /\ unsaved = FALSE

Call(name) == todo # <<>> /\ Head(todo) = name

\* main.cpp: a failed Init shows a message box, whose loop pumps messages.
GiveUp == stage' = "box" /\ todo' = <<>>

-----------------------------------------------------------------------------
(* The calls.                                                              *)

ReadAutostart ==
    /\ Call("readAutostart")
    /\ m_autostartEnabled' = runKey
    /\ todo' = Tail(todo)
    /\ UNCHANGED <<trayVars, queueVars, scrollVars, menu, runKey, checkbox,
                   dialogVars, lifeVars>>

CreateHiddenWindow ==
    /\ Call("createWindow")
    /\ \/ m_hwnd' = TRUE /\ todo' = Tail(todo) /\ UNCHANGED stage
       \/ GiveUp /\ UNCHANGED m_hwnd
    /\ UNCHANGED <<trayVars, queueVars, scrollVars, autostartVars, dialogVars,
                   rectTimer, worker>>

\* Init gives up without an icon; the TaskbarCreated handler ignores the result.
AddTrayIcon ==
    /\ Call("addIcon")
    /\ \E added, versioned, deleted \in BOOLEAN :
           /\ AddIcon(added, versioned, deleted)
           /\ IF stage = "init" /\ ~(added /\ versioned) THEN GiveUp
              ELSE todo' = Tail(todo) /\ UNCHANGED stage
    /\ UNCHANGED <<queueVars, scrollVars, autostartVars, dialogVars, m_hwnd,
                   rectTimer, worker>>

RemoveTrayIcon ==
    /\ Call("removeIcon")
    /\ \E deleted \in BOOLEAN : RemoveIcon(deleted)
    /\ todo' = Tail(todo)
    /\ m_hwnd' = (m_hwnd /\ stage # "unwind")
    /\ UNCHANGED <<queueVars, scrollVars, autostartVars, dialogVars, stage,
                   rectTimer, worker>>

StartCoordinator ==
    /\ Call("start")
    /\ worker' = "running" /\ todo' = Tail(todo)
    /\ UNCHANGED <<trayVars, queueVars, scrollVars, autostartVars, dialogVars,
                   stage, m_hwnd, rectTimer>>

InstallHook ==
    /\ Call("installHook")
    /\ \E installed \in BOOLEAN :
           /\ InstallWheelHook(installed)
           /\ IF installed THEN todo' = Tail(todo) /\ UNCHANGED stage ELSE GiveUp
    /\ UNCHANGED <<queueVars, scrollVars, autostartVars, dialogVars, m_hwnd,
                   rectTimer, worker>>

\* With it m_taskbarCreatedMsg is known and Run begins.
StartTimer ==
    /\ Call("setTimer")
    /\ rectTimer' = TRUE /\ stage' = "run" /\ todo' = Tail(todo)
    /\ UNCHANGED <<trayVars, queueVars, scrollVars, autostartVars, dialogVars,
                   m_hwnd, worker>>

KillRectTimer ==
    /\ Call("killTimer")
    /\ rectTimer' = FALSE /\ todo' = Tail(todo)
    /\ UNCHANGED <<trayVars, queueVars, scrollVars, autostartVars, dialogVars,
                   stage, m_hwnd, worker>>

RemoveHook ==
    /\ Call("removeHook") /\ RemoveWheelHook
    /\ todo' = Tail(todo)
    /\ UNCHANGED <<queueVars, scrollVars, autostartVars, dialogVars, lifeVars>>

RefreshRect ==
    /\ Call("refreshRect") /\ RefreshWheelRect
    /\ todo' = Tail(todo)
    /\ UNCHANGED <<queueVars, scrollVars, autostartVars, dialogVars, lifeVars>>

PostQuit ==
    /\ Call("postQuit")
    /\ quit' = TRUE /\ todo' = Tail(todo)
    /\ UNCHANGED <<trayVars, posted, scrollVars, autostartVars, dialogVars,
                   lifeVars>>

\* Stop returns when the worker has been joined (AdjustmentCoordinator).
StopCoordinator ==
    /\ Call("stop")
    /\ worker' = IF worker = "running" THEN "joined" ELSE worker
    /\ todo' = Tail(todo)
    /\ UNCHANGED <<trayVars, queueVars, scrollVars, autostartVars, dialogVars,
                   stage, m_hwnd, rectTimer>>

SaveIfDirty ==
    /\ Call("saveIfDirty")
    /\ unsaved' = FALSE /\ todo' = Tail(todo)
    /\ UNCHANGED <<trayVars, queueVars, scrollVars, autostartVars, dialog,
                   lifeVars>>

DestroyDialog ==
    /\ Call("destroyDialog")
    /\ dialog' = "none" /\ unsaved' = FALSE /\ todo' = Tail(todo)
    /\ UNCHANGED <<trayVars, queueVars, scrollVars, autostartVars, lifeVars>>

DestroyMonitors ==
    /\ Call("destroyMonitors")
    /\ stage' = "gone" /\ todo' = Tail(todo)
    /\ UNCHANGED <<trayVars, queueVars, scrollVars, autostartVars, dialogVars,
                   m_hwnd, rectTimer, worker>>

Step ==
    \/ ReadAutostart \/ CreateHiddenWindow \/ AddTrayIcon \/ RemoveTrayIcon
    \/ StartCoordinator \/ InstallHook \/ StartTimer \/ KillRectTimer
    \/ RemoveHook \/ RefreshRect \/ PostQuit \/ StopCoordinator \/ SaveIfDirty
    \/ DestroyDialog \/ DestroyMonitors

-----------------------------------------------------------------------------
(* The message loop, or the one of the message box.                        *)

Pumping == stage \in {"run", "box"} /\ todo = <<>>

\* There is a window to have messages.
Receiving == Pumping /\ m_hwnd

\* TaskbarCreated is known by its number only once Init has succeeded.
TaskbarCreated ==
    /\ Pumping /\ posted # <<>> /\ Head(posted) = TaskbarMessage
    /\ posted' = Tail(posted)
    /\ todo' = IF stage = "run" THEN TaskbarCreatedCalls ELSE <<>>
    /\ UNCHANGED <<trayVars, quit, scrollVars, autostartVars, dialogVars, lifeVars>>

\* The two loops take whole notches off, each towards zero.
Notches(total) ==
    IF total >= 0 THEN total \div WHEEL_DELTA ELSE -((-total) \div WHEEL_DELTA)

\* Mutant: a step eats what is left of a notch.
RestForgotten(total) == IF Notches(total) = 0 THEN total ELSE 0
Rest(total) == total - WHEEL_DELTA * Notches(total)

\* kTrayScrollMessage: AdjustAll gets the steps (AdjustmentCoordinator).
Scroll ==
    /\ Pumping /\ posted # <<>> /\ Head(posted) # TaskbarMessage
    /\ LET total == m_scrollRemainder + Head(posted).delta
       IN  /\ m_scrollRemainder' = Rest(total)
           /\ owed' = owed - WHEEL_DELTA * Notches(total)
    /\ posted' = Tail(posted)
    /\ UNCHANGED <<trayVars, quit, autostartVars, dialogVars, lifeVars, todo>>

\* WM_TIMER comes when no posted message waits.
RectTimerTick ==
    /\ Pumping /\ rectTimer /\ posted = <<>>
    /\ RefreshWheelRect
    /\ UNCHANGED <<queueVars, scrollVars, autostartVars, dialogVars, lifeVars, todo>>

\* WM_DISPLAYCHANGE, WM_POWERBROADCAST; the re-enumeration is the coordinator's.
DisplayChange ==
    /\ Receiving /\ RefreshWheelRect
    /\ UNCHANGED <<queueVars, scrollVars, autostartVars, dialogVars, lifeVars, todo>>

\* WM_CLOSE
Close ==
    /\ Receiving /\ todo' = ExitCalls
    /\ UNCHANGED <<trayVars, queueVars, scrollVars, autostartVars, dialogVars,
                   lifeVars>>

\* OnInitDialog, run once, reads the registry for the check box.
OpenSettings ==
    /\ dialog' = "shown"
    /\ checkbox' = IF dialog = "none" THEN runKey ELSE checkbox

\* The shell sends an event of the icon it shows; one sent before Exit removed
\* it may still be handled.  A menu that is open takes the mouse.
IconEvent ==
    Receiving /\ menu = "closed" /\ (shell.icon \/ (quit /\ stage = "run"))

LeftClick ==
    /\ IconEvent /\ OpenSettings
    /\ UNCHANGED <<trayVars, queueVars, scrollVars, menu, m_autostartEnabled,
                   runKey, unsaved, lifeVars, todo>>

\* ShowMenu with the flag read at launch and toggled since.
RightClick ==
    /\ IconEvent
    /\ menu' = IF m_autostartEnabled THEN "ticked" ELSE "plain"
    /\ UNCHANGED <<trayVars, queueVars, scrollVars, m_autostartEnabled, runKey,
                   checkbox, dialogVars, lifeVars, todo>>

\* Nobody looks at the result.
SetEnabled(enabled) ==
    \/ runKey' = enabled
    \/ RegistryFails /\ UNCHANGED runKey

-----------------------------------------------------------------------------
(* The open menu: a modal loop in ShowMenu, which WM_QUIT ends too.        *)

MenuOpen == Pumping /\ menu # "closed"

ChooseNothing ==
    /\ MenuOpen /\ menu' = "closed"
    /\ UNCHANGED <<trayVars, queueVars, scrollVars, m_autostartEnabled, runKey,
                   checkbox, dialogVars, lifeVars, todo>>

ChooseSettings ==
    /\ MenuOpen /\ menu' = "closed" /\ OpenSettings
    /\ UNCHANGED <<trayVars, queueVars, scrollVars, m_autostartEnabled, runKey,
                   unsaved, lifeVars, todo>>

ToggleAutostart ==
    /\ MenuOpen /\ menu' = "closed"
    /\ m_autostartEnabled' = ~m_autostartEnabled
    /\ SetEnabled(~m_autostartEnabled)
    /\ UNCHANGED <<trayVars, queueVars, scrollVars, checkbox, dialogVars,
                   lifeVars, todo>>

ChooseExit ==
    /\ MenuOpen /\ menu' = "closed" /\ todo' = ExitCalls
    /\ UNCHANGED <<trayVars, queueVars, scrollVars, m_autostartEnabled, runKey,
                   checkbox, dialogVars, lifeVars>>

-----------------------------------------------------------------------------
(* The settings window, as far as it reaches beyond SettingsDialog.        *)

Shown == Pumping /\ dialog = "shown" /\ menu = "closed"

ClickAutostart ==
    /\ Shown
    /\ checkbox' = ~checkbox
    /\ SetEnabled(~checkbox)
    /\ UNCHANGED <<trayVars, queueVars, scrollVars, menu, m_autostartEnabled,
                   dialogVars, lifeVars, todo>>

DragSlider ==
    /\ Shown /\ unsaved' = TRUE
    /\ UNCHANGED <<trayVars, queueVars, scrollVars, autostartVars, dialog,
                   lifeVars, todo>>

\* SaveIfDirty, then ShowWindow.
HideDialog ==
    /\ Shown
    /\ dialog' = "hidden" /\ unsaved' = FALSE
    /\ UNCHANGED <<trayVars, queueVars, scrollVars, autostartVars, lifeVars, todo>>

-----------------------------------------------------------------------------
(* The ends.                                                               *)

\* Mutant: a shown dialog swallows WM_QUIT.
LoopEndsUnlessShown ==
    /\ Pumping /\ quit /\ posted = <<>> /\ menu = "closed" /\ dialog # "shown"
    /\ stage' = "unwind" /\ todo' = Unwind
    /\ UNCHANGED <<trayVars, queueVars, scrollVars, autostartVars, dialogVars,
                   m_hwnd, rectTimer, worker>>

\* WM_QUIT is what GetMessage returns when no posted message waits.
LoopEnds ==
    /\ Pumping /\ quit /\ posted = <<>> /\ menu = "closed"
    /\ stage' = "unwind" /\ todo' = Unwind
    /\ UNCHANGED <<trayVars, queueVars, scrollVars, autostartVars, dialogVars,
                   m_hwnd, rectTimer, worker>>

BoxClosed ==
    /\ Pumping /\ stage = "box" /\ menu = "closed"
    /\ stage' = "unwind" /\ todo' = Unwind
    /\ UNCHANGED <<trayVars, queueVars, scrollVars, autostartVars, dialogVars,
                   m_hwnd, rectTimer, worker>>

\* WM_ENDSESSION has no handler: Windows ends the process once it returns.
SessionEnds ==
    /\ Pumping
    /\ stage' = "killed" /\ worker' = "joined"
    /\ UNCHANGED <<trayVars, queueVars, scrollVars, autostartVars, dialogVars,
                   m_hwnd, rectTimer, todo>>

-----------------------------------------------------------------------------
(* The other processes.                                                    *)

Alive == stage \notin {"gone", "killed"}

\* The hook's procedure runs on this thread, when it pumps.
WheelTurns ==
    /\ Pumping /\ Len(posted) < MaxPosted
    /\ \E place \in Places, delta \in Deltas :
           /\ Consumes(place)
           /\ posted' = Append(posted, WheelMessage(delta))
           /\ owed' = owed + delta
    /\ UNCHANGED <<trayVars, quit, m_scrollRemainder, autostartVars, dialogVars,
                   lifeVars, todo>>

\* TaskbarCreated reaches the hidden window from its creation to its last pump.
Broadcast ==
    IF m_hwnd /\ stage # "unwind"
    THEN Len(posted) < MaxPosted /\ posted' = Append(posted, TaskbarMessage)
    ELSE UNCHANGED posted

ExplorerRestarts ==
    /\ Alive /\ ShellReturns /\ Broadcast
    /\ UNCHANGED <<quit, scrollVars, autostartVars, dialogVars, lifeVars, todo>>

\* A new taskbar that kept its icons, as after a change of resolution.
TaskbarRecreated ==
    /\ Alive /\ shell.up /\ m_hwnd /\ Broadcast
    /\ UNCHANGED <<trayVars, quit, scrollVars, autostartVars, dialogVars,
                   lifeVars, todo>>

ExplorerMoves ==
    /\ Alive /\ (ShellDies \/ IconMoves)
    /\ UNCHANGED <<queueVars, scrollVars, autostartVars, dialogVars, lifeVars, todo>>

Ended == ~Alive /\ UNCHANGED vars

-----------------------------------------------------------------------------
Handler ==
    \/ TaskbarCreated \/ Scroll
    \/ RectTimerTick \/ DisplayChange \/ Close \/ LeftClick \/ RightClick
    \/ ChooseNothing \/ ChooseSettings \/ ToggleAutostart \/ ChooseExit
    \/ ClickAutostart \/ DragSlider \/ HideDialog
    \/ LoopEnds \/ BoxClosed \/ SessionEnds

Others == WheelTurns \/ ExplorerRestarts \/ TaskbarRecreated \/ ExplorerMoves

Next == Step \/ Handler \/ Others \/ Ended

Spec == Init /\ [][Next]_vars

\* The thread makes its calls and takes what is posted.  The timer, once due,
\* and WM_QUIT are taken when the queue is empty.  WM_QUIT closes a menu.
Fairness ==
    /\ WF_vars(Step)
    /\ WF_vars(TaskbarCreated \/ Scroll)
    /\ SF_vars(RectTimerTick)
    /\ SF_vars(LoopEnds)
    /\ SF_vars(quit /\ ChooseNothing)

FairSpec == Spec /\ Fairness

-----------------------------------------------------------------------------
Calls == {"readAutostart", "createWindow", "addIcon", "removeIcon", "start",
          "installHook", "removeHook", "setTimer", "killTimer", "refreshRect",
          "postQuit", "stop", "saveIfDirty", "destroyDialog", "destroyMonitors"}

TypeOK ==
    /\ TrayTypeOK
    /\ stage \in {"init", "run", "box", "unwind", "gone", "killed"}
    /\ todo \in Seq(Calls)
    /\ posted \in Seq(Messages) /\ quit \in BOOLEAN
    /\ m_hwnd \in BOOLEAN /\ rectTimer \in BOOLEAN
    /\ worker \in {"none", "running", "joined"}
    /\ m_scrollRemainder \in Int /\ owed \in Int
    /\ menu \in {"closed", "ticked", "plain"}
    /\ m_autostartEnabled \in BOOLEAN /\ runKey \in BOOLEAN /\ checkbox \in BOOLEAN
    /\ dialog \in {"none", "hidden", "shown"} /\ unsaved \in BOOLEAN

(* Windows stalls the mouse of the whole system while the thread that owns *)
(* a low-level hook does not pump.  The hook is never there while the      *)
(* thread starts or joins the worker, or saves at exit (App.cpp:105-116).  *)
HookOnlyWhilePumping ==
    g_wheelHook =>
        /\ stage \in {"init", "run", "killed"}
        /\ \A k \in DOMAIN todo : todo[k] \notin {"start", "stop", "saveIfDirty"}

(* With every broadcast handled, the class holds an icon exactly when the  *)
(* shell does: none that an explorer restart took unnoticed, and, where    *)
(* the version switch failed, none that RemoveIcon cannot reach, except    *)
(* one that the shell itself refused to delete (App.cpp:362-378,           *)
(* TrayService.cpp:84-92, 97-105).                                         *)
IconAsBelieved ==
    (stage = "run" /\ todo = <<>> /\ shell.up
     /\ \A k \in DOMAIN posted : posted[k] # TaskbarMessage)
        => m_iconHwnd = (shell.icon /\ ~shell.orphan)

(* Whatever came in between, a process that ended in order left no icon    *)
(* but one the shell refused to delete, and no hook, joined its worker     *)
(* before the monitors went, and tried to save the last drag               *)
(* (App.cpp:15-31, App.h:57-66).                                           *)
NothingLeftBehind ==
    stage = "gone" => /\ shell.icon => shell.orphan
                      /\ ~g_wheelHook
                      /\ worker # "running"
                      /\ dialog = "none" /\ ~unsaved

\* The wheel movement the messages hold.
Movement(messages) ==
    LET sum[k \in 0 .. Len(messages)] ==
            IF k = 0 THEN 0 ELSE sum[k - 1] + messages[k].delta
    IN  sum[Len(messages)]

(* The wheel movement taken from the system is turned into steps or still  *)
(* counted, in the queue or as a remainder smaller than a notch            *)
(* (TrayService.cpp:41-60, App.cpp:268-294).                               *)
NoScrollLost ==
    /\ owed = m_scrollRemainder + Movement(posted)
    /\ m_scrollRemainder \in 1 - WHEEL_DELTA .. WHEEL_DELTA - 1

\* Broadcasts and wheel events leave the loop, while there is one, a moment
\* with nothing to do.
QueueEmpties == []<>(stage \in {"run", "box"} => Pumping /\ posted = <<>>)

(* An icon that moves with no broadcast is found again: while the loop     *)
(* runs and its queue gets empty, the hook's rectangle is not wrong for    *)
(* ever (App.cpp:126-137).                                                 *)
RectFollowsIcon ==
    QueueEmpties => ((Alive /\ rectTimer /\ g_iconRect # IconRect)
                        ~> (~Alive \/ ~rectTimer \/ g_iconRect = IconRect))

(* Once Exit has run the process ends, with a menu open, messages queued   *)
(* or explorer restarting, and its destructors come to an end, unless the  *)
(* loop's queue never gets empty or the user opens menus for ever          *)
(* (App.cpp:15-31, 194-200).                                               *)
ExitCompletes ==
    (QueueEmpties /\ <>[][~RightClick]_vars) => (quit ~> ~Alive)

(* What the comment of the check box says of the menu, "same source", the  *)
(* live registry (SettingsDialog.cpp:398).                                 *)
MenuTickIsRegistry ==
    menu # "closed" => (menu = "ticked") = runKey
=============================================================================
