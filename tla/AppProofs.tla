------------------------------ MODULE AppProofs ------------------------------
(***************************************************************************)
(* The UI thread from wWinMain to the last destructor, for every taskbar,  *)
(* every wheel and every bound on the message queue.                       *)
(*                                                                         *)
(* The calls of Init, of a handler and of the destructors may be           *)
(* interleaved with a shell that comes and goes, so the invariants say     *)
(* what holds between two calls by those that are left in todo.            *)
(***************************************************************************)
EXTENDS App, WellFoundedInduction, TLAPS

-----------------------------------------------------------------------------
(* What is left to do.                                                     *)

Left(calls) == {calls[k] : k \in DOMAIN calls}

InitTails ==
    { InitCalls,
      <<"createWindow", "addIcon", "start", "installHook", "setTimer">>,
      <<"addIcon", "start", "installHook", "setTimer">>,
      <<"start", "installHook", "setTimer">>,
      <<"installHook", "setTimer">>,
      <<"setTimer">> }

ExitTails ==
    { ExitCalls,
      <<"removeHook", "removeIcon", "postQuit">>,
      <<"removeIcon", "postQuit">>,
      <<"postQuit">> }

TaskbarTails ==
    { TaskbarCreatedCalls,
      <<"addIcon", "refreshRect">>,
      <<"refreshRect">> }

\* With and without the window that ~App takes the icon from first.
UnwindTails ==
    { UnwindCalls,
      <<"stop", "saveIfDirty", "destroyDialog", "removeHook", "removeIcon",
        "stop", "destroyMonitors">>,
      <<"saveIfDirty", "destroyDialog", "removeHook", "removeIcon", "stop",
        "destroyMonitors">>,
      <<"destroyDialog", "removeHook", "removeIcon", "stop",
        "destroyMonitors">>,
      <<"removeHook", "removeIcon", "stop", "destroyMonitors">>,
      <<"removeIcon", "stop", "destroyMonitors">>,
      <<"stop", "destroyMonitors">>,
      <<"destroyMonitors">> }

Shape ==
    /\ stage = "init" => todo \in InitTails
    /\ stage = "run" => todo \in ExitTails \cup TaskbarTails \cup {<<>>}
    /\ stage = "box" => todo \in ExitTails \cup {<<>>}
    /\ stage = "unwind" => todo \in UnwindTails
    /\ stage \in {"gone", "killed"} => todo = <<>>

-----------------------------------------------------------------------------
(* The invariants.                                                         *)

HookInv ==
    /\ g_wheelHook => stage \in {"init", "run", "killed"}
    /\ "installHook" \in Left(todo) => ~g_wheelHook
    /\ "postQuit" \in Left(todo) /\ "removeHook" \notin Left(todo) => ~g_wheelHook
    /\ quit => ~g_wheelHook /\ stage # "init"

TaskbarPosted == \E k \in DOMAIN posted : posted[k] = TaskbarMessage

\* The shell shows no icon that App does not know of but one it refused to
\* delete; one that App believes in and the shell has lost is about to be added
\* again.
IconInv ==
    /\ shell.icon => shell.up /\ (m_iconHwnd \/ shell.orphan)
    /\ shell.orphan => shell.icon /\ ~m_iconHwnd
    /\ m_iconHwnd => m_hwnd
    /\ "addIcon" \in Left(todo) /\ "removeIcon" \notin Left(todo) => ~m_iconHwnd
    /\ stage \in {"init", "run"} /\ "createWindow" \notin Left(todo) => m_hwnd
    /\ stage \in {"init", "run"} /\ shell.up /\ m_iconHwnd /\ ~shell.icon
          => TaskbarPosted \/ "addIcon" \in Left(todo)

EndInv ==
    stage = "unwind" =>
        /\ "removeIcon" \notin Left(todo) => ~m_iconHwnd
        /\ "stop" \notin Left(todo) => worker # "running"
        /\ "destroyDialog" \notin Left(todo) => dialog = "none" /\ ~unsaved

AppInv ==
    /\ TypeOK /\ Shape /\ HookInv /\ IconInv /\ EndInv
    /\ NothingLeftBehind /\ NoScrollLost

-----------------------------------------------------------------------------
(* Sequences of calls: what each list still holds behind its head.         *)

Tailed(t) ==
    /\ t # <<>> /\ t \in Seq(Calls)
    /\ Left(t) = {Head(t)} \cup Left(Tail(t))

LEMMA EmptyLeft == Left(<<>>) = {} /\ <<>> \in Seq(Calls)
BY DEF Left

LEMMA InitPoints ==
    ASSUME NEW t \in InitTails
    PROVE  /\ Tailed(t)
           /\ Left(t) \subseteq {"readAutostart", "createWindow", "addIcon",
                                 "start", "installHook", "setTimer"}
           /\ IF Head(t) = "setTimer" THEN Tail(t) = <<>>
              ELSE Tail(t) \in InitTails
           /\ Head(t) = "addIcon" => /\ "createWindow" \notin Left(t)
                                     /\ "addIcon" \notin Left(Tail(t))
           /\ Head(t) = "installHook" => Tail(t) = <<"setTimer">>
           /\ "installHook" \notin Left(t) => t = <<"setTimer">>
           /\ Head(t) = "setTimer" => Left(t) = {"setTimer"}
<1> USE DEF Tailed, InitTails, InitCalls, Left, Calls
<1>1. CASE t = <<"readAutostart", "createWindow", "addIcon", "start",
                 "installHook", "setTimer">> BY <1>1
<1>2. CASE t = <<"createWindow", "addIcon", "start", "installHook", "setTimer">>
  BY <1>2
<1>3. CASE t = <<"addIcon", "start", "installHook", "setTimer">> BY <1>3
<1>4. CASE t = <<"start", "installHook", "setTimer">> BY <1>4
<1>5. CASE t = <<"installHook", "setTimer">> BY <1>5
<1>6. CASE t = <<"setTimer">> BY <1>6
<1>7. QED BY <1>1, <1>2, <1>3, <1>4, <1>5, <1>6

LEMMA ExitPoints ==
    ASSUME NEW t \in ExitTails
    PROVE  /\ Tailed(t)
           /\ Left(t) \subseteq {"killTimer", "removeHook", "removeIcon", "postQuit"}
           /\ Tail(t) \in ExitTails \cup {<<>>}
           /\ Head(t) = "postQuit" => "removeHook" \notin Left(t)
<1> USE DEF Tailed, ExitTails, ExitCalls, Left, Calls
<1>1. CASE t = <<"killTimer", "removeHook", "removeIcon", "postQuit">> BY <1>1
<1>2. CASE t = <<"removeHook", "removeIcon", "postQuit">> BY <1>2
<1>3. CASE t = <<"removeIcon", "postQuit">> BY <1>3
<1>4. CASE t = <<"postQuit">> BY <1>4
<1>5. QED BY <1>1, <1>2, <1>3, <1>4

LEMMA TaskbarPoints ==
    ASSUME NEW t \in TaskbarTails
    PROVE  /\ Tailed(t)
           /\ Left(t) \subseteq {"removeIcon", "addIcon", "refreshRect"}
           /\ Tail(t) \in TaskbarTails \cup {<<>>}
           /\ Head(t) = "addIcon" => /\ "removeIcon" \notin Left(t)
                                     /\ "addIcon" \notin Left(Tail(t))
           /\ Head(t) = "removeIcon" => "addIcon" \in Left(Tail(t))
           /\ Head(t) = "refreshRect" => "addIcon" \notin Left(t)
<1> USE DEF Tailed, TaskbarTails, TaskbarCreatedCalls, Left, Calls
<1>1. CASE t = <<"removeIcon", "addIcon", "refreshRect">> BY <1>1
<1>2. CASE t = <<"addIcon", "refreshRect">> BY <1>2
<1>3. CASE t = <<"refreshRect">> BY <1>3
<1>4. QED BY <1>1, <1>2, <1>3

LEMMA UnwindPoints ==
    ASSUME NEW t \in UnwindTails
    PROVE  /\ Tailed(t)
           /\ Left(t) \subseteq {"stop", "saveIfDirty", "destroyDialog",
                                 "removeHook", "removeIcon", "destroyMonitors"}
           /\ IF Head(t) = "destroyMonitors" THEN Tail(t) = <<>>
              ELSE Tail(t) \in UnwindTails
           /\ Head(t) = "destroyMonitors" => Left(t) = {"destroyMonitors"}
<1> USE DEF Tailed, UnwindTails, UnwindCalls, Left, Calls
<1>1. CASE t = <<"removeIcon", "stop", "saveIfDirty", "destroyDialog",
                 "removeHook", "removeIcon", "stop", "destroyMonitors">> BY <1>1
<1>2. CASE t = <<"stop", "saveIfDirty", "destroyDialog", "removeHook",
                 "removeIcon", "stop", "destroyMonitors">> BY <1>2
<1>3. CASE t = <<"saveIfDirty", "destroyDialog", "removeHook", "removeIcon",
                 "stop", "destroyMonitors">> BY <1>3
<1>4. CASE t = <<"destroyDialog", "removeHook", "removeIcon", "stop",
                 "destroyMonitors">> BY <1>4
<1>5. CASE t = <<"removeHook", "removeIcon", "stop", "destroyMonitors">>
  BY <1>5
<1>6. CASE t = <<"removeIcon", "stop", "destroyMonitors">> BY <1>6
<1>7. CASE t = <<"stop", "destroyMonitors">> BY <1>7
<1>8. CASE t = <<"destroyMonitors">> BY <1>8
<1>9. QED BY <1>1, <1>2, <1>3, <1>4, <1>5, <1>6, <1>7, <1>8

LEMMA UnwindStarts ==
    /\ Unwind \in UnwindTails
    /\ {"stop", "destroyDialog", "removeIcon"} \subseteq Left(Unwind)
<1>1. UnwindCalls \in UnwindTails BY DEF UnwindTails
<1>2. Tail(UnwindCalls) =
        <<"stop", "saveIfDirty", "destroyDialog", "removeHook", "removeIcon",
          "stop", "destroyMonitors">>
  BY DEF UnwindCalls
<1>3. Unwind \in UnwindTails BY <1>1, <1>2 DEF UnwindTails, Unwind
<1>4. {"stop", "destroyDialog", "removeIcon"} \subseteq Left(UnwindCalls)
  BY DEF UnwindCalls, Left
<1>5. {"stop", "destroyDialog", "removeIcon"} \subseteq
        Left(<<"stop", "saveIfDirty", "destroyDialog", "removeHook",
               "removeIcon", "stop", "destroyMonitors">>)
  BY DEF Left
<1>6. QED BY <1>2, <1>3, <1>4, <1>5 DEF Unwind

Stages == {"init", "run", "box", "unwind", "gone", "killed"}

\* Where each call is made.
LEMMA CallStage ==
    ASSUME stage \in Stages, Shape, todo # <<>>
    PROVE  /\ Tailed(todo)
           /\ Head(todo) \in {"readAutostart", "createWindow", "start",
                              "installHook", "setTimer"}
                 => stage = "init" /\ todo \in InitTails
           /\ Head(todo) = "addIcon"
                 => \/ stage = "init" /\ todo \in InitTails
                    \/ stage = "run" /\ todo \in TaskbarTails
           /\ Head(todo) \in {"killTimer", "postQuit"}
                 => stage \in {"run", "box"} /\ todo \in ExitTails
           /\ Head(todo) = "refreshRect" => stage = "run" /\ todo \in TaskbarTails
           /\ Head(todo) = "removeIcon" => stage # "init"
           /\ Head(todo) \in {"stop", "saveIfDirty", "destroyDialog",
                              "destroyMonitors"}
                 => stage = "unwind" /\ todo \in UnwindTails
<1>1. CASE stage = "init"
  <2>1. todo \in InitTails BY <1>1 DEF Shape
  <2>2. QED BY <1>1, <2>1, InitPoints DEF Tailed
<1>2. CASE stage \in {"run", "box"} /\ todo \in ExitTails
  BY <1>2, ExitPoints DEF Tailed
<1>3. CASE stage = "run" /\ todo \in TaskbarTails
  BY <1>3, TaskbarPoints DEF Tailed
<1>4. CASE stage = "unwind"
  <2>1. todo \in UnwindTails BY <1>4 DEF Shape
  <2>2. QED BY <1>4, <2>1, UnwindPoints DEF Tailed
<1>5. QED BY <1>1, <1>2, <1>3, <1>4 DEF Shape, Stages

LEMMA Advance ==
    ASSUME stage \in Stages, Shape, todo # <<>>, todo' = Tail(todo),
           UNCHANGED stage, Head(todo) \notin {"setTimer", "destroyMonitors"}
    PROVE  Shape'
<1>1. CASE stage = "init"
  <2>1. todo \in InitTails BY <1>1 DEF Shape
  <2>2. todo' \in InitTails BY <2>1, InitPoints
  <2>3. QED BY <1>1, <2>2 DEF Shape
<1>2. CASE stage \in {"run", "box"} /\ todo \in ExitTails
  <2>1. todo' \in ExitTails \cup {<<>>} BY <1>2, ExitPoints
  <2>2. QED BY <1>2, <2>1 DEF Shape
<1>3. CASE stage = "run" /\ todo \in TaskbarTails
  <2>1. todo' \in TaskbarTails \cup {<<>>} BY <1>3, TaskbarPoints
  <2>2. QED BY <1>3, <2>1 DEF Shape
<1>4. CASE stage = "unwind"
  <2>1. todo \in UnwindTails BY <1>4 DEF Shape
  <2>2. todo' \in UnwindTails BY <2>1, UnwindPoints
  <2>3. QED BY <1>4, <2>2 DEF Shape
<1>5. QED BY <1>1, <1>2, <1>3, <1>4 DEF Shape, Stages

\* A handler begins when nothing is left to do.
LEMMA Starts ==
    /\ InitCalls \in InitTails /\ ExitCalls \in ExitTails
    /\ TaskbarCreatedCalls \in TaskbarTails
    /\ "removeHook" \in Left(ExitCalls)
    /\ {"removeIcon", "addIcon"} \subseteq Left(TaskbarCreatedCalls)
<1>1. "removeHook" \in Left(ExitCalls) BY DEF ExitCalls, Left
<1>2. {"removeIcon", "addIcon"} \subseteq Left(TaskbarCreatedCalls)
  BY DEF TaskbarCreatedCalls, Left
<1>3. QED BY <1>1, <1>2 DEF InitTails, ExitTails, TaskbarTails

-----------------------------------------------------------------------------
(* Types and shape.                                                        *)

LEMMA InitialState == Init => TypeOK /\ Shape
<1> SUFFICES ASSUME Init PROVE TypeOK /\ Shape OBVIOUS
<1>1. todo \in Seq(Calls) BY Starts, InitPoints DEF Init, Tailed
<1>2. TrayTypeOK BY DEF Init, TrayInit, TrayTypeOK, Spots
<1>3. posted \in Seq(Messages) /\ m_scrollRemainder \in Int /\ owed \in Int
  BY DEF Init
<1>4. TypeOK BY <1>1, <1>2, <1>3, Zenon DEF Init, TypeOK
<1>5. Shape BY Starts DEF Init, Shape
<1>6. QED BY <1>4, <1>5

\* The tray alone.
LEMMA RectType == TrayTypeOK => IconRect \in Places \cup {NoRect}
BY DEF IconRect

LEMMA TrayMoves ==
    ASSUME TrayTypeOK,
           \/ UNCHANGED trayVars
           \/ \E added, versioned, deleted \in BOOLEAN :
                 AddIcon(added, versioned, deleted)
           \/ \E deleted \in BOOLEAN : RemoveIcon(deleted)
           \/ \E installed \in BOOLEAN : InstallWheelHook(installed)
           \/ RemoveWheelHook \/ RefreshWheelRect
           \/ ShellDies \/ ShellReturns \/ IconMoves
    PROVE  TrayTypeOK'
<1> USE DEF TrayTypeOK
<1>1. CASE UNCHANGED trayVars BY <1>1 DEF trayVars
<1>2. ASSUME NEW added \in BOOLEAN, NEW versioned \in BOOLEAN,
             NEW deleted \in BOOLEAN, AddIcon(added, versioned, deleted)
      PROVE  TrayTypeOK'
  BY <1>2 DEF AddIcon
<1>3. ASSUME NEW deleted \in BOOLEAN, RemoveIcon(deleted)
      PROVE  TrayTypeOK'
  BY <1>3 DEF RemoveIcon
<1>4. ASSUME NEW installed \in BOOLEAN, InstallWheelHook(installed)
      PROVE  TrayTypeOK'
  BY <1>4, RectType DEF InstallWheelHook, QueryIconRect
<1>5. CASE RemoveWheelHook BY <1>5 DEF RemoveWheelHook
<1>6. CASE RefreshWheelRect BY <1>6, RectType DEF RefreshWheelRect, QueryIconRect
<1>7. CASE ShellDies BY <1>7 DEF ShellDies
<1>8. CASE ShellReturns BY <1>8 DEF ShellReturns
<1>9. CASE IconMoves BY <1>9 DEF IconMoves, Spots
<1>10. QED
  BY <1>1, <1>2, <1>3, <1>4, <1>5, <1>6, <1>7, <1>8, <1>9

\* The queue of messages.
LEMMA PostedTail ==
    ASSUME NEW q \in Seq(Messages), q # <<>>
    PROVE  Head(q) \in Messages /\ Tail(q) \in Seq(Messages)
OBVIOUS

LEMMA MessageType ==
    /\ TaskbarMessage \in Messages /\ TaskbarMessage.delta = 0
    /\ \A delta \in Deltas : /\ WheelMessage(delta) \in Messages
                             /\ WheelMessage(delta).delta = delta
                             /\ WheelMessage(delta) # TaskbarMessage
    /\ \A message \in Messages : message.delta \in Int
<1>1. TaskbarMessage.delta = 0 /\ TaskbarMessage.kind = "taskbar"
  BY DEF TaskbarMessage
<1>2. \A delta : /\ WheelMessage(delta).delta = delta
                 /\ WheelMessage(delta).kind = "wheel"
  BY DEF WheelMessage
<1>3. \A delta : WheelMessage(delta) # TaskbarMessage BY <1>1, <1>2
<1>4. QED BY <1>1, <1>2, <1>3, AppAssumption DEF Messages

LEMMA RestType ==
    ASSUME NEW total \in Int
    PROVE  /\ Notches(total) \in Int
           /\ Rest(total) = total - WHEEL_DELTA * Notches(total)
           /\ Rest(total) \in 1 - WHEEL_DELTA .. WHEEL_DELTA - 1
BY DEF Notches, Rest, WHEEL_DELTA

LEMMA CallDone ==
    ASSUME stage \in Stages, Shape, todo # <<>>, todo' = Tail(todo)
    PROVE  todo' \in Seq(Calls)
BY CallStage DEF Tailed

LEMMA StepTypes ==
    ASSUME TypeOK, Shape, Step PROVE TypeOK' /\ Shape'
<1> USE DEF TypeOK, trayVars, queueVars, scrollVars, autostartVars, dialogVars,
            lifeVars, Call
<1>0. stage \in Stages BY DEF Stages
<1>1. CASE ReadAutostart
  <2>1. todo' \in Seq(Calls) /\ Shape' BY <1>0, <1>1, CallDone, Advance DEF ReadAutostart
  <2>2. TrayTypeOK' BY <1>1, TrayMoves DEF ReadAutostart
  <2>3. QED BY <1>1, <2>1, <2>2 DEF ReadAutostart
<1>2. CASE CreateHiddenWindow
  <2>1. todo' \in Seq(Calls) /\ Shape'
    <3>1. CASE GiveUp BY <3>1, EmptyLeft DEF GiveUp, Shape
    <3>2. CASE todo' = Tail(todo) /\ UNCHANGED stage
      BY <1>0, <1>2, <3>2, CallDone, Advance DEF CreateHiddenWindow
    <3>3. QED BY <1>2, <3>1, <3>2 DEF CreateHiddenWindow
  <2>2. TrayTypeOK' BY <1>2, TrayMoves DEF CreateHiddenWindow
  <2>3. m_hwnd' \in BOOLEAN /\ stage' \in Stages
    BY <1>0, <1>2 DEF CreateHiddenWindow, GiveUp, Stages
  <2>4. QED BY <1>2, <2>1, <2>2, <2>3 DEF CreateHiddenWindow, Stages
<1>3. CASE AddTrayIcon
  <2>1. todo' \in Seq(Calls) /\ Shape'
    <3>1. CASE GiveUp BY <3>1, EmptyLeft DEF GiveUp, Shape
    <3>2. CASE todo' = Tail(todo) /\ UNCHANGED stage
      BY <1>0, <1>3, <3>2, CallDone, Advance DEF AddTrayIcon
    <3>3. QED BY <1>3, <3>1, <3>2 DEF AddTrayIcon
  <2>2. TrayTypeOK' BY <1>3, TrayMoves DEF AddTrayIcon
  <2>3. QED BY <1>3, <2>1, <2>2 DEF AddTrayIcon, GiveUp
<1>4. CASE RemoveTrayIcon
  <2>1. todo' \in Seq(Calls) /\ Shape' BY <1>0, <1>4, CallDone, Advance DEF RemoveTrayIcon
  <2>2. TrayTypeOK' BY <1>4, TrayMoves DEF RemoveTrayIcon
  <2>3. QED BY <1>4, <2>1, <2>2 DEF RemoveTrayIcon
<1>5. CASE StartCoordinator
  <2>1. todo' \in Seq(Calls) /\ Shape' BY <1>0, <1>5, CallDone, Advance DEF StartCoordinator
  <2>2. TrayTypeOK' BY <1>5, TrayMoves DEF StartCoordinator
  <2>3. QED BY <1>5, <2>1, <2>2 DEF StartCoordinator
<1>6. CASE InstallHook
  <2>1. todo' \in Seq(Calls) /\ Shape'
    <3>1. CASE GiveUp BY <3>1, EmptyLeft DEF GiveUp, Shape
    <3>2. CASE todo' = Tail(todo) /\ UNCHANGED stage
      BY <1>0, <1>6, <3>2, CallDone, Advance DEF InstallHook
    <3>3. QED BY <1>6, <3>1, <3>2 DEF InstallHook
  <2>2. TrayTypeOK' BY <1>6, TrayMoves DEF InstallHook
  <2>3. QED BY <1>6, <2>1, <2>2 DEF InstallHook, GiveUp
<1>7. CASE StartTimer
  <2>1. todo' = <<>> BY <1>0, <1>7, CallStage, InitPoints DEF StartTimer
  <2>2. todo' \in Seq(Calls) /\ Shape' BY <1>7, <2>1, EmptyLeft DEF StartTimer, Shape
  <2>3. TrayTypeOK' BY <1>7, TrayMoves DEF StartTimer
  <2>4. QED BY <1>7, <2>2, <2>3 DEF StartTimer
<1>8. CASE KillRectTimer
  <2>1. todo' \in Seq(Calls) /\ Shape' BY <1>0, <1>8, CallDone, Advance DEF KillRectTimer
  <2>2. TrayTypeOK' BY <1>8, TrayMoves DEF KillRectTimer
  <2>3. rectTimer' \in BOOLEAN BY <1>8 DEF KillRectTimer
  <2>4. QED BY <1>8, <2>1, <2>2, <2>3 DEF KillRectTimer
<1>9. CASE RemoveHook
  <2>1. todo' \in Seq(Calls) /\ Shape' BY <1>0, <1>9, CallDone, Advance DEF RemoveHook
  <2>2. TrayTypeOK' BY <1>9, TrayMoves DEF RemoveHook
  <2>3. QED BY <1>9, <2>1, <2>2 DEF RemoveHook
<1>10. CASE RefreshRect
  <2>1. todo' \in Seq(Calls) /\ Shape' BY <1>0, <1>10, CallDone, Advance DEF RefreshRect
  <2>2. TrayTypeOK' BY <1>10, TrayMoves DEF RefreshRect
  <2>3. QED BY <1>10, <2>1, <2>2 DEF RefreshRect
<1>11. CASE PostQuit
  <2>1. todo' \in Seq(Calls) /\ Shape' BY <1>0, <1>11, CallDone, Advance DEF PostQuit
  <2>2. TrayTypeOK' BY <1>11, TrayMoves DEF PostQuit
  <2>3. QED BY <1>11, <2>1, <2>2 DEF PostQuit
<1>12. CASE StopCoordinator
  <2>1. todo' \in Seq(Calls) /\ Shape' BY <1>0, <1>12, CallDone, Advance DEF StopCoordinator
  <2>2. TrayTypeOK' BY <1>12, TrayMoves DEF StopCoordinator
  <2>3. QED BY <1>12, <2>1, <2>2 DEF StopCoordinator
<1>13. CASE SaveIfDirty
  <2>1. todo' \in Seq(Calls) /\ Shape' BY <1>0, <1>13, CallDone, Advance DEF SaveIfDirty
  <2>2. TrayTypeOK' BY <1>13, TrayMoves DEF SaveIfDirty
  <2>3. unsaved' \in BOOLEAN BY <1>13 DEF SaveIfDirty
  <2>4. QED BY <1>13, <2>1, <2>2, <2>3 DEF SaveIfDirty
<1>14. CASE DestroyDialog
  <2>1. todo' \in Seq(Calls) /\ Shape' BY <1>0, <1>14, CallDone, Advance DEF DestroyDialog
  <2>2. TrayTypeOK' BY <1>14, TrayMoves DEF DestroyDialog
  <2>3. dialog' = "none" /\ unsaved' \in BOOLEAN BY <1>14 DEF DestroyDialog
  <2>4. QED BY <1>14, <2>1, <2>2, <2>3 DEF DestroyDialog
<1>15. CASE DestroyMonitors
  <2>1. todo' = <<>> BY <1>0, <1>15, CallStage, UnwindPoints DEF DestroyMonitors
  <2>2. todo' \in Seq(Calls) /\ Shape' BY <1>15, <2>1, EmptyLeft DEF DestroyMonitors, Shape
  <2>3. TrayTypeOK' BY <1>15, TrayMoves DEF DestroyMonitors
  <2>4. QED BY <1>15, <2>2, <2>3 DEF DestroyMonitors
<1>16. QED
  BY <1>1, <1>2, <1>3, <1>4, <1>5, <1>6, <1>7, <1>8, <1>9, <1>10, <1>11,
     <1>12, <1>13, <1>14, <1>15 DEF Step

\* The handlers that touch neither the tray, the messages nor what is left to do.
Quiet ==
    \/ LeftClick \/ RightClick \/ ChooseNothing \/ ChooseSettings
    \/ ToggleAutostart \/ ClickAutostart \/ DragSlider \/ HideDialog

LEMMA QuietFrame ==
    ASSUME Quiet
    PROVE  /\ Pumping
           /\ UNCHANGED <<trayVars, queueVars, scrollVars, lifeVars, todo>>
<1> USE DEF Pumping, Receiving, IconEvent, MenuOpen, Shown
<1>1. CASE LeftClick BY <1>1 DEF LeftClick
<1>2. CASE RightClick BY <1>2 DEF RightClick
<1>3. CASE ChooseNothing BY <1>3 DEF ChooseNothing
<1>4. CASE ChooseSettings BY <1>4 DEF ChooseSettings
<1>5. CASE ToggleAutostart BY <1>5 DEF ToggleAutostart
<1>6. CASE ClickAutostart BY <1>6 DEF ClickAutostart
<1>7. CASE DragSlider BY <1>7 DEF DragSlider
<1>8. CASE HideDialog BY <1>8 DEF HideDialog
<1>9. QED BY <1>1, <1>2, <1>3, <1>4, <1>5, <1>6, <1>7, <1>8 DEF Quiet

LEMMA QuietTypes ==
    ASSUME TypeOK, Quiet
    PROVE  /\ menu' \in {"closed", "ticked", "plain"}
           /\ m_autostartEnabled' \in BOOLEAN /\ runKey' \in BOOLEAN
           /\ checkbox' \in BOOLEAN
           /\ dialog' \in {"none", "hidden", "shown"} /\ unsaved' \in BOOLEAN
<1>0. /\ menu \in {"closed", "ticked", "plain"}
      /\ dialog \in {"none", "hidden", "shown"}
      /\ m_autostartEnabled \in BOOLEAN /\ runKey \in BOOLEAN
      /\ checkbox \in BOOLEAN /\ unsaved \in BOOLEAN
  BY DEF TypeOK
<1>1. CASE LeftClick \/ ChooseSettings
  <2>1. UNCHANGED <<m_autostartEnabled, runKey, unsaved>>
        /\ (checkbox' = runKey \/ checkbox' = checkbox)
    BY <1>1 DEF LeftClick, ChooseSettings, OpenSettings
  <2>2. dialog' = "shown" /\ menu' \in {menu, "closed"}
    BY <1>1 DEF LeftClick, ChooseSettings, OpenSettings
  <2>3. QED BY <1>0, <2>1, <2>2, Zenon
<1>2. CASE RightClick
  <2>1. UNCHANGED <<m_autostartEnabled, runKey, checkbox, dialogVars>>
        /\ menu' \in {"ticked", "plain"}
    BY <1>2 DEF RightClick
  <2>2. UNCHANGED <<dialog, unsaved>> BY <2>1 DEF dialogVars
  <2>3. QED BY <1>0, <2>1, <2>2, Zenon
<1>3. CASE ChooseNothing
  <2>1. UNCHANGED <<m_autostartEnabled, runKey, checkbox, dialogVars>>
        /\ menu' = "closed"
    BY <1>3 DEF ChooseNothing
  <2>2. UNCHANGED <<dialog, unsaved>> BY <2>1 DEF dialogVars
  <2>3. QED BY <1>0, <2>1, <2>2, Zenon
<1>4. CASE ToggleAutostart
  <2>1. UNCHANGED <<checkbox, dialogVars>> /\ menu' = "closed"
        /\ m_autostartEnabled' = ~m_autostartEnabled
        /\ (runKey' = ~m_autostartEnabled \/ runKey' = runKey)
    BY <1>4 DEF ToggleAutostart, SetEnabled
  <2>2. UNCHANGED <<dialog, unsaved>> BY <2>1 DEF dialogVars
  <2>3. QED BY <1>0, <2>1, <2>2, Zenon
<1>5. CASE ClickAutostart
  <2>1. UNCHANGED <<menu, m_autostartEnabled, dialogVars>>
        /\ checkbox' = ~checkbox
        /\ (runKey' = ~checkbox \/ runKey' = runKey)
    BY <1>5 DEF ClickAutostart, SetEnabled
  <2>2. UNCHANGED <<dialog, unsaved>> BY <2>1 DEF dialogVars
  <2>3. QED BY <1>0, <2>1, <2>2, Zenon
<1>6. CASE DragSlider \/ HideDialog
  <2>1. UNCHANGED autostartVars /\ dialog' \in {dialog, "hidden"}
        /\ (unsaved' = TRUE \/ unsaved' = FALSE)
    BY <1>6 DEF DragSlider, HideDialog
  <2>2. UNCHANGED <<menu, m_autostartEnabled, runKey, checkbox>>
    BY <2>1 DEF autostartVars
  <2>3. QED BY <1>0, <2>1, <2>2, Zenon
<1>7. QED BY <1>1, <1>2, <1>3, <1>4, <1>5, <1>6 DEF Quiet

LEMMA FrameTypes ==
    ASSUME TypeOK, Shape,
           UNCHANGED <<trayVars, queueVars, scrollVars, lifeVars, todo>>
    PROVE  /\ TrayTypeOK' /\ Shape'
           /\ stage' \in Stages /\ todo' \in Seq(Calls)
           /\ posted' \in Seq(Messages) /\ quit' \in BOOLEAN
           /\ m_hwnd' \in BOOLEAN /\ rectTimer' \in BOOLEAN
           /\ worker' \in {"none", "running", "joined"}
           /\ m_scrollRemainder' \in Int /\ owed' \in Int
<1>1. UNCHANGED <<stage, todo, posted, quit, m_hwnd, rectTimer, worker,
                  m_scrollRemainder, owed>>
  BY DEF trayVars, queueVars, scrollVars, lifeVars
<1>2. TrayTypeOK' BY TrayMoves DEF TypeOK
<1>3. Shape' BY <1>1 DEF Shape
<1>4. QED BY <1>1, <1>2, <1>3, Zenon DEF TypeOK, Stages

LEMMA HandlerTypes ==
    ASSUME TypeOK, Shape, Handler PROVE TypeOK' /\ Shape'
<1> USE DEF TypeOK, trayVars, queueVars, scrollVars, autostartVars, dialogVars,
            lifeVars, Pumping, Receiving, MenuOpen
<1>1. CASE Quiet
  <2>1. UNCHANGED <<trayVars, queueVars, scrollVars, lifeVars, todo>>
    BY <1>1, QuietFrame
  <2>2. QED BY <1>1, <2>1, QuietTypes, FrameTypes, Zenon DEF TypeOK, Stages
<1>2. CASE TaskbarCreated
  <2>1. posted' \in Seq(Messages) BY <1>2 DEF TaskbarCreated
  <2>2. todo' \in Seq(Calls) /\ Shape'
    BY <1>2, Starts, TaskbarPoints, EmptyLeft DEF TaskbarCreated, Shape, Tailed
  <2>3. TrayTypeOK' BY <1>2, TrayMoves DEF TaskbarCreated
  <2>4. QED BY <1>2, <2>1, <2>2, <2>3 DEF TaskbarCreated
<1>3. CASE Scroll
  <2>1. Head(posted).delta \in Int /\ posted' \in Seq(Messages)
    BY <1>3, MessageType, PostedTail DEF Scroll
  <2>2. m_scrollRemainder + Head(posted).delta \in Int BY <2>1
  <2>3. m_scrollRemainder' \in Int
    <3>1. m_scrollRemainder' = Rest(m_scrollRemainder + Head(posted).delta)
      BY <1>3 DEF Scroll
    <3>2. m_scrollRemainder' \in 1 - WHEEL_DELTA .. WHEEL_DELTA - 1
      BY <2>2, <3>1, RestType
    <3>3. QED BY <3>2 DEF WHEEL_DELTA
  <2>4. owed' \in Int
    <3>1. owed' = owed - WHEEL_DELTA * Notches(m_scrollRemainder + Head(posted).delta)
      BY <1>3 DEF Scroll
    <3>2. QED BY <2>2, <3>1, RestType DEF WHEEL_DELTA
  <2>5. TrayTypeOK' /\ Shape' BY <1>3, TrayMoves DEF Scroll, Shape
  <2>6. QED BY <1>3, <2>1, <2>3, <2>4, <2>5 DEF Scroll
<1>4. CASE RectTimerTick \/ DisplayChange
  <2>1. TrayTypeOK' /\ Shape'
    BY <1>4, TrayMoves DEF RectTimerTick, DisplayChange, Shape
  <2>2. QED BY <1>4, <2>1 DEF RectTimerTick, DisplayChange
<1>5. CASE Close \/ ChooseExit
  <2>1. todo' \in Seq(Calls) /\ Shape'
    BY <1>5, Starts, ExitPoints DEF Close, ChooseExit, Shape, Tailed
  <2>2. TrayTypeOK' BY <1>5, TrayMoves DEF Close, ChooseExit
  <2>3. QED BY <1>5, <2>1, <2>2 DEF Close, ChooseExit
<1>6. CASE LoopEnds \/ BoxClosed
  <2>1. stage' = "unwind" /\ todo' \in UnwindTails
    BY <1>6, UnwindStarts DEF LoopEnds, BoxClosed
  <2>2. todo' \in Seq(Calls) /\ Shape' BY <2>1, UnwindPoints DEF Tailed, Shape
  <2>3. TrayTypeOK' BY <1>6, TrayMoves DEF LoopEnds, BoxClosed
  <2>4. QED BY <1>6, <2>1, <2>2, <2>3 DEF LoopEnds, BoxClosed
<1>7. CASE SessionEnds
  <2>1. TrayTypeOK' /\ Shape' BY <1>7, TrayMoves DEF SessionEnds, Shape
  <2>2. QED BY <1>7, <2>1 DEF SessionEnds
<1>8. QED
  BY <1>1, <1>2, <1>3, <1>4, <1>5, <1>6, <1>7 DEF Handler, Quiet

LEMMA OthersTypes ==
    ASSUME TypeOK, Shape, Others PROVE TypeOK' /\ Shape'
<1> USE DEF TypeOK, trayVars, queueVars, scrollVars, autostartVars, dialogVars,
            lifeVars
<1>1. CASE WheelTurns
  <2>1. PICK delta \in Deltas : /\ posted' = Append(posted, WheelMessage(delta))
                                /\ owed' = owed + delta
    BY <1>1 DEF WheelTurns
  <2>2. posted' \in Seq(Messages) BY <2>1, MessageType
  <2>3. owed' \in Int BY <2>1, AppAssumption
  <2>4. TrayTypeOK' /\ Shape' BY <1>1, TrayMoves DEF WheelTurns, Shape
  <2>5. QED BY <1>1, <2>2, <2>3, <2>4 DEF WheelTurns
<1>2. CASE ExplorerRestarts
  <2>1. posted' \in Seq(Messages)
    BY <1>2, MessageType DEF ExplorerRestarts, Broadcast
  <2>2. TrayTypeOK' /\ Shape' BY <1>2, TrayMoves DEF ExplorerRestarts, Shape
  <2>3. QED BY <1>2, <2>1, <2>2 DEF ExplorerRestarts
<1>3. CASE TaskbarRecreated
  <2>1. posted' \in Seq(Messages)
    BY <1>3, MessageType DEF TaskbarRecreated, Broadcast
  <2>2. TrayTypeOK' /\ Shape' BY <1>3, TrayMoves DEF TaskbarRecreated, Shape
  <2>3. QED BY <1>3, <2>1, <2>2 DEF TaskbarRecreated
<1>4. CASE ExplorerMoves
  <2>1. TrayTypeOK' /\ Shape' BY <1>4, TrayMoves DEF ExplorerMoves, Shape
  <2>2. QED BY <1>4, <2>1 DEF ExplorerMoves
<1>5. QED BY <1>1, <1>2, <1>3, <1>4 DEF Others

LEMMA NextTypes ==
    ASSUME TypeOK, Shape, [Next]_vars PROVE TypeOK' /\ Shape'
<1>1. CASE UNCHANGED vars
  <2>1. UNCHANGED <<menu, m_autostartEnabled, runKey, checkbox, dialog, unsaved>>
    BY <1>1 DEF vars, autostartVars, dialogVars
  <2>2. UNCHANGED <<trayVars, queueVars, scrollVars, lifeVars, todo>>
    BY <1>1 DEF vars
  <2>3. QED BY <2>1, <2>2, FrameTypes, Zenon DEF TypeOK, Stages
<1>2. CASE Step BY <1>2, StepTypes
<1>3. CASE Handler BY <1>3, HandlerTypes
<1>4. CASE Others BY <1>4, OthersTypes
<1>5. QED BY <1>1, <1>2, <1>3, <1>4 DEF Next, Ended

-----------------------------------------------------------------------------
(* The hook.                                                               *)

LEMMA HookFrame ==
    ASSUME HookInv, UNCHANGED <<g_wheelHook, stage, todo, quit>>
    PROVE  HookInv'
BY DEF HookInv

\* A call that has to do with neither the hook nor the quit.
LEMMA HookKept ==
    ASSUME HookInv, Tailed(todo), todo' = Tail(todo), Head(todo) # "removeHook",
           UNCHANGED <<g_wheelHook, stage, quit>>
    PROVE  HookInv'
BY DEF HookInv, Tailed

LEMMA HookGivenUp ==
    ASSUME Shape, HookInv, stage = "init", todo # <<"setTimer">>,
           GiveUp, UNCHANGED <<g_wheelHook, quit>>
    PROVE  HookInv'
<1>1. ~g_wheelHook BY InitPoints DEF Shape, HookInv
<1>2. QED BY <1>1, EmptyLeft DEF HookInv, GiveUp

LEMMA HookStep ==
    ASSUME TypeOK, Shape, HookInv, Step PROVE HookInv'
<1> USE DEF Call, queueVars, lifeVars
<1>0. stage \in Stages BY DEF TypeOK, Stages
<1>1. CASE \/ ReadAutostart \/ RemoveTrayIcon \/ StartCoordinator \/ KillRectTimer
           \/ RefreshRect \/ StopCoordinator \/ SaveIfDirty \/ DestroyDialog
  <2>1. /\ todo # <<>> /\ todo' = Tail(todo) /\ Head(todo) # "removeHook"
        /\ UNCHANGED <<stage, quit>>
    BY <1>1
    DEF ReadAutostart, RemoveTrayIcon, StartCoordinator, KillRectTimer,
        RefreshRect, StopCoordinator, SaveIfDirty, DestroyDialog
  <2>2. UNCHANGED g_wheelHook
    BY <1>1
    DEF ReadAutostart, RemoveTrayIcon, StartCoordinator, KillRectTimer,
        RefreshRect, StopCoordinator, SaveIfDirty, DestroyDialog, trayVars,
        RemoveIcon, RefreshWheelRect
  <2>3. QED BY <1>0, <2>1, <2>2, CallStage, HookKept
<1>2. CASE CreateHiddenWindow \/ AddTrayIcon
  <2>1. /\ todo # <<>> /\ Head(todo) \in {"createWindow", "addIcon"}
        /\ GiveUp \/ (todo' = Tail(todo) /\ UNCHANGED stage)
        /\ UNCHANGED <<g_wheelHook, quit>>
    BY <1>2 DEF CreateHiddenWindow, AddTrayIcon, trayVars, AddIcon
  <2>2. CASE GiveUp
    <3>1. todo # <<"setTimer">> BY <2>1
    <3>2. stage = "init"
      <4>1. CASE CreateHiddenWindow
        BY <1>0, <4>1, CallStage DEF CreateHiddenWindow
      <4>2. CASE AddTrayIcon
        <5>1. stage = "init" \/ UNCHANGED stage BY <4>2 DEF AddTrayIcon
        <5>2. stage # "box" BY <1>0, <4>2, CallStage DEF AddTrayIcon
        <5>3. QED BY <2>2, <5>1, <5>2 DEF GiveUp
      <4>3. QED BY <1>2, <4>1, <4>2
    <3>3. QED BY <2>1, <2>2, <3>1, <3>2, HookGivenUp
  <2>3. CASE todo' = Tail(todo) /\ UNCHANGED stage
    BY <1>0, <2>1, <2>3, CallStage, HookKept
  <2>4. QED BY <2>1, <2>2, <2>3
<1>3. CASE InstallHook
  <2>1. stage = "init" /\ todo \in InitTails /\ Tail(todo) = <<"setTimer">>
    BY <1>0, <1>3, CallStage, InitPoints DEF InstallHook
  <2>2. UNCHANGED quit BY <1>3 DEF InstallHook
  <2>3. CASE GiveUp /\ UNCHANGED g_wheelHook
    <3>1. todo # <<"setTimer">> BY <1>3 DEF InstallHook
    <3>2. QED BY <2>1, <2>2, <2>3, <3>1, HookGivenUp
  <2>4. CASE todo' = Tail(todo) /\ UNCHANGED stage
    <3>1. Left(<<"setTimer">>) = {"setTimer"} BY DEF Left
    <3>2. Left(todo') = {"setTimer"} BY <2>1, <2>4, <3>1
    <3>3. QED BY <2>1, <2>2, <2>4, <3>2 DEF HookInv
  <2>5. (GiveUp /\ UNCHANGED g_wheelHook) \/ (todo' = Tail(todo) /\ UNCHANGED stage)
    BY <1>3 DEF InstallHook, InstallWheelHook, TypeOK, TrayTypeOK
  <2>6. QED BY <2>3, <2>4, <2>5
<1>4. CASE StartTimer
  <2>1. stage = "init" /\ todo' = <<>>
    BY <1>0, <1>4, CallStage, InitPoints DEF StartTimer
  <2>2. QED
    BY <1>4, <2>1, EmptyLeft DEF StartTimer, HookInv, trayVars
<1>5. CASE RemoveHook
  BY <1>5 DEF RemoveHook, RemoveWheelHook, HookInv
<1>6. CASE PostQuit
  <2>1. todo \in ExitTails /\ stage \in {"run", "box"}
    BY <1>0, <1>6, CallStage DEF PostQuit
  <2>2. "postQuit" \in Left(todo) /\ "removeHook" \notin Left(todo)
    BY <1>6, <2>1, ExitPoints DEF PostQuit, Tailed
  <2>3. Left(todo') \subseteq Left(todo)
    BY <1>6, <2>1, ExitPoints DEF PostQuit, Tailed
  <2>4. QED
    BY <1>6, <2>1, <2>2, <2>3 DEF PostQuit, HookInv, trayVars
<1>7. CASE DestroyMonitors
  <2>1. stage = "unwind" /\ todo' = <<>>
    BY <1>0, <1>7, CallStage, UnwindPoints DEF DestroyMonitors
  <2>2. QED
    BY <1>7, <2>1, EmptyLeft DEF DestroyMonitors, HookInv, trayVars
<1>8. QED BY <1>1, <1>2, <1>3, <1>4, <1>5, <1>6, <1>7 DEF Step

LEMMA HookHandler ==
    ASSUME Shape, HookInv, Handler PROVE HookInv'
<1> USE DEF Pumping, Receiving, MenuOpen, trayVars, queueVars, lifeVars
<1>1. CASE Quiet BY <1>1, QuietFrame, HookFrame
<1>2. CASE Scroll \/ RectTimerTick \/ DisplayChange
  BY <1>2, HookFrame
  DEF Scroll, RectTimerTick, DisplayChange, RefreshWheelRect
<1>3. CASE TaskbarCreated
  <2>1. "installHook" \notin Left(todo') /\ "postQuit" \notin Left(todo')
    BY <1>3, Starts, TaskbarPoints, EmptyLeft DEF TaskbarCreated
  <2>2. QED BY <1>3, <2>1 DEF TaskbarCreated, HookInv
<1>4. CASE Close \/ ChooseExit
  <2>1. "installHook" \notin Left(todo') /\ "removeHook" \in Left(todo')
    BY <1>4, Starts, ExitPoints DEF Close, ChooseExit
  <2>2. QED BY <1>4, <2>1 DEF Close, ChooseExit, HookInv
<1>5. CASE LoopEnds \/ BoxClosed
  <2>1. "installHook" \notin Left(todo') /\ "postQuit" \notin Left(todo')
    BY <1>5, UnwindStarts, UnwindPoints DEF LoopEnds, BoxClosed
  <2>2. QED BY <1>5, <2>1 DEF LoopEnds, BoxClosed, HookInv
<1>6. CASE SessionEnds
  BY <1>6, EmptyLeft DEF SessionEnds, HookInv
<1>7. QED
  BY <1>1, <1>2, <1>3, <1>4, <1>5, <1>6 DEF Handler, Quiet

LEMMA HookNext ==
    ASSUME TypeOK, Shape, HookInv, [Next]_vars PROVE HookInv'
<1>1. CASE UNCHANGED vars
  BY <1>1, HookFrame DEF vars, trayVars, queueVars, lifeVars
<1>2. CASE Others
  <2> DEFINE Kept == UNCHANGED <<g_wheelHook, stage, todo, quit>>
  <2>1. WheelTurns => Kept BY DEF WheelTurns, trayVars, lifeVars
  <2>2. ExplorerRestarts => Kept
    BY DEF ExplorerRestarts, ShellReturns, lifeVars
  <2>3. TaskbarRecreated => Kept BY DEF TaskbarRecreated, trayVars, lifeVars
  <2>4. ExplorerMoves => Kept
    BY DEF ExplorerMoves, ShellDies, IconMoves, queueVars, lifeVars
  <2>5. QED BY <1>2, <2>1, <2>2, <2>3, <2>4, HookFrame DEF Others
<1>3. QED BY <1>1, <1>2, HookStep, HookHandler DEF Next, Ended

LEMMA HookFromInv ==
    ASSUME Shape, HookInv PROVE HookOnlyWhilePumping
<1> SUFFICES ASSUME g_wheelHook
             PROVE  {"start", "stop", "saveIfDirty"} \cap Left(todo) = {}
  BY DEF HookOnlyWhilePumping, HookInv, Left
<1>1. CASE stage = "init"
  <2>1. todo = <<"setTimer">> BY <1>1, InitPoints DEF Shape, HookInv
  <2>2. QED BY <2>1 DEF Left
<1>2. CASE stage # "init"
  BY <1>2, ExitPoints, TaskbarPoints, EmptyLeft DEF Shape, HookInv
<1>3. QED BY <1>1, <1>2

-----------------------------------------------------------------------------
(* The icon.                                                               *)

LEMMA IconFrame ==
    ASSUME IconInv, UNCHANGED <<m_iconHwnd, shell, posted, stage, todo, m_hwnd>>
    PROVE  IconInv'
BY DEF IconInv, TaskbarPosted

\* A call that has to do with neither the icon nor the window.
LEMMA IconKept ==
    ASSUME IconInv, Tailed(todo), todo' = Tail(todo),
           Head(todo) \notin {"createWindow", "addIcon", "removeIcon"},
           UNCHANGED <<m_iconHwnd, shell, posted, stage, m_hwnd>>
    PROVE  IconInv'
BY DEF IconInv, Tailed, TaskbarPosted

\* Once the shell is left alone with a half-made application, no icon is owed.
LEMMA IconGivenUp ==
    ASSUME GiveUp,
           (shell.icon => shell.up /\ (m_iconHwnd \/ shell.orphan))',
           (shell.orphan => shell.icon /\ ~m_iconHwnd)',
           (m_iconHwnd => m_hwnd)'
    PROVE  IconInv'
BY EmptyLeft DEF GiveUp, IconInv

LEMMA IconAdded ==
    ASSUME TypeOK, Shape, IconInv, AddTrayIcon PROVE IconInv'
<1>0. stage \in Stages /\ Call("addIcon") /\ Tailed(todo)
  BY CallStage DEF AddTrayIcon, TypeOK, Stages, Call
<1>1. PICK added \in BOOLEAN, versioned \in BOOLEAN, deleted \in BOOLEAN :
        /\ AddIcon(added, versioned, deleted)
        /\ GiveUp \/ (todo' = Tail(todo) /\ UNCHANGED stage)
  BY DEF AddTrayIcon
<1>2. \/ stage = "init" /\ todo \in InitTails
      \/ stage = "run" /\ todo \in TaskbarTails
  BY <1>0, CallStage DEF Call
<1>3. /\ "removeIcon" \notin Left(todo) /\ "addIcon" \in Left(todo)
      /\ "createWindow" \notin Left(todo) /\ "addIcon" \notin Left(Tail(todo))
  BY <1>0, <1>2, InitPoints, TaskbarPoints DEF Call, Tailed
<1>4. ~m_iconHwnd /\ m_hwnd BY <1>2, <1>3 DEF IconInv
<1>5. /\ m_iconHwnd' = (added /\ versioned)
      /\ shell'.icon = (shell.icon \/ (added /\ (versioned \/ ~deleted)))
      /\ shell'.orphan = (shell.orphan \/ (added /\ ~versioned /\ ~deleted))
      /\ shell'.up = shell.up /\ (added => shell.up /\ ~shell.icon)
  BY <1>1, <1>4 DEF AddIcon, MayAdd, TypeOK, TrayTypeOK
<1>6. /\ (shell.icon => shell.up /\ (m_iconHwnd \/ shell.orphan))'
      /\ (shell.orphan => shell.icon /\ ~m_iconHwnd)'
      /\ m_iconHwnd' => shell'.icon
  BY <1>4, <1>5 DEF IconInv
<1>7. m_hwnd' BY <1>4 DEF AddTrayIcon
<1>8. CASE GiveUp BY <1>6, <1>7, <1>8, IconGivenUp
<1>9. CASE todo' = Tail(todo) /\ UNCHANGED stage
  BY <1>3, <1>6, <1>7, <1>9 DEF IconInv
<1>10. QED BY <1>1, <1>8, <1>9

LEMMA IconStep ==
    ASSUME TypeOK, Shape, IconInv, Step PROVE IconInv'
<1> USE DEF Call, queueVars, lifeVars
<1>0. stage \in Stages BY DEF TypeOK, Stages
<1>1. CASE \/ ReadAutostart \/ StartCoordinator \/ KillRectTimer \/ RefreshRect
           \/ StopCoordinator \/ SaveIfDirty \/ DestroyDialog \/ RemoveHook
           \/ PostQuit
  <2>1. /\ todo # <<>> /\ todo' = Tail(todo)
        /\ Head(todo) \notin {"createWindow", "addIcon", "removeIcon"}
        /\ UNCHANGED <<stage, posted, m_hwnd>>
    BY <1>1
    DEF ReadAutostart, StartCoordinator, KillRectTimer, RefreshRect,
        StopCoordinator, SaveIfDirty, DestroyDialog, RemoveHook, PostQuit
  <2>2. UNCHANGED <<m_iconHwnd, shell>>
    BY <1>1
    DEF ReadAutostart, StartCoordinator, KillRectTimer, RefreshRect,
        StopCoordinator, SaveIfDirty, DestroyDialog, RemoveHook, PostQuit,
        trayVars, RefreshWheelRect, RemoveWheelHook
  <2>3. QED BY <1>0, <2>1, <2>2, CallStage, IconKept
<1>2. CASE CreateHiddenWindow
  <2>1. stage = "init" /\ Tailed(todo) /\ Head(todo) = "createWindow"
    BY <1>0, <1>2, CallStage DEF CreateHiddenWindow
  <2>2. UNCHANGED <<m_iconHwnd, shell, posted>>
    BY <1>2 DEF CreateHiddenWindow, trayVars
  <2>3. CASE GiveUp /\ UNCHANGED m_hwnd BY <2>2, <2>3, IconGivenUp DEF IconInv
  <2>4. CASE m_hwnd' = TRUE /\ todo' = Tail(todo) /\ UNCHANGED stage
    BY <2>1, <2>2, <2>4 DEF IconInv, Tailed, TaskbarPosted
  <2>5. QED BY <1>2, <2>3, <2>4 DEF CreateHiddenWindow
<1>3. CASE AddTrayIcon BY <1>3, IconAdded
<1>4. CASE RemoveTrayIcon
  <2>1. Tailed(todo) /\ Head(todo) = "removeIcon" /\ todo' = Tail(todo)
    BY <1>0, <1>4, CallStage DEF RemoveTrayIcon
  <2>2. /\ ~m_iconHwnd' /\ (shell'.icon => shell'.up /\ shell'.orphan)
        /\ shell'.orphan => shell'.icon
    <3>1. PICK deleted \in BOOLEAN : RemoveIcon(deleted)
      BY <1>4 DEF RemoveTrayIcon
    <3>2. /\ shell'.icon = (shell.icon /\ ~(m_iconHwnd /\ deleted))
          /\ shell'.orphan = (shell.orphan \/ (shell.icon /\ m_iconHwnd /\ ~deleted))
          /\ shell'.up = shell.up /\ ~m_iconHwnd'
      BY <3>1 DEF RemoveIcon, TypeOK, TrayTypeOK
    <3>3. QED BY <3>2 DEF IconInv
  <2>3. UNCHANGED stage /\ m_hwnd' = (m_hwnd /\ stage # "unwind")
    BY <1>4 DEF RemoveTrayIcon
  <2>4. QED BY <2>1, <2>2, <2>3 DEF IconInv, Tailed
<1>5. CASE InstallHook
  <2>1. Tailed(todo) /\ Head(todo) = "installHook"
    BY <1>0, <1>5, CallStage DEF InstallHook
  <2>2. UNCHANGED <<m_iconHwnd, shell, posted, m_hwnd>>
    BY <1>5 DEF InstallHook, InstallWheelHook
  <2>3. CASE GiveUp BY <2>2, <2>3, IconGivenUp DEF IconInv
  <2>4. CASE todo' = Tail(todo) /\ UNCHANGED stage
    BY <2>1, <2>2, <2>4, IconKept
  <2>5. QED BY <1>5, <2>3, <2>4 DEF InstallHook
<1>6. CASE StartTimer
  <2>1. stage = "init" /\ Left(todo) = {"setTimer"} /\ todo' = <<>>
    BY <1>0, <1>6, CallStage, InitPoints DEF StartTimer
  <2>2. UNCHANGED <<m_iconHwnd, shell, posted, m_hwnd>> /\ stage' = "run"
    BY <1>6 DEF StartTimer, trayVars
  <2>3. QED BY <2>1, <2>2, EmptyLeft DEF IconInv, TaskbarPosted
<1>7. CASE DestroyMonitors
  <2>1. todo' = <<>> BY <1>0, <1>7, CallStage, UnwindPoints DEF DestroyMonitors
  <2>2. UNCHANGED <<m_iconHwnd, shell, posted, m_hwnd>> /\ stage' = "gone"
    BY <1>7 DEF DestroyMonitors, trayVars
  <2>3. QED BY <2>1, <2>2, EmptyLeft DEF IconInv
<1>8. QED BY <1>1, <1>2, <1>3, <1>4, <1>5, <1>6, <1>7 DEF Step

\* The broadcast is not forgotten before its turn.
LEMMA PostedKept ==
    ASSUME posted \in Seq(Messages)
    PROVE  /\ \A message \in Messages :
                posted' = Append(posted, message) =>
                    /\ TaskbarPosted => TaskbarPosted'
                    /\ message = TaskbarMessage => TaskbarPosted'
           /\ posted # <<>> /\ Head(posted) # TaskbarMessage
              /\ posted' = Tail(posted) /\ TaskbarPosted => TaskbarPosted'
<1>1. ASSUME NEW message \in Messages, posted' = Append(posted, message)
      PROVE  /\ TaskbarPosted => TaskbarPosted'
             /\ message = TaskbarMessage => TaskbarPosted'
  <2>1. /\ \A k \in DOMAIN posted : k \in DOMAIN posted' /\ posted'[k] = posted[k]
        /\ Len(posted) + 1 \in DOMAIN posted'
        /\ posted'[Len(posted) + 1] = message
    BY <1>1
  <2>2. QED BY <2>1 DEF TaskbarPosted
<1>2. ASSUME posted # <<>>, Head(posted) # TaskbarMessage,
             posted' = Tail(posted), TaskbarPosted
      PROVE  TaskbarPosted'
  <2>1. PICK k \in DOMAIN posted : posted[k] = TaskbarMessage
    BY <1>2 DEF TaskbarPosted
  <2>2. k # 1 BY <1>2, <2>1
  <2>3. k - 1 \in DOMAIN posted' /\ posted'[k - 1] = posted[k]
    BY <1>2, <2>2
  <2>4. QED BY <2>1, <2>3 DEF TaskbarPosted
<1>3. QED BY <1>1, <1>2

LEMMA IconHandler ==
    ASSUME TypeOK, Shape, IconInv, Handler PROVE IconInv'
<1> USE DEF Pumping, Receiving, MenuOpen, trayVars, queueVars, lifeVars
<1>0. posted \in Seq(Messages) BY DEF TypeOK
<1>1. CASE Quiet BY <1>1, QuietFrame, IconFrame
<1>2. CASE RectTimerTick \/ DisplayChange
  BY <1>2, IconFrame DEF RectTimerTick, DisplayChange, RefreshWheelRect
<1>3. CASE Scroll
  <2>1. UNCHANGED <<m_iconHwnd, shell, stage, todo, m_hwnd>>
    BY <1>3 DEF Scroll
  <2>2. TaskbarPosted => TaskbarPosted' BY <1>0, <1>3, PostedKept DEF Scroll
  <2>3. QED BY <2>1, <2>2 DEF IconInv
<1>4. CASE TaskbarCreated
  <2>1. UNCHANGED <<m_iconHwnd, shell, stage, m_hwnd>> /\ todo = <<>>
    BY <1>4 DEF TaskbarCreated
  <2>2. CASE stage = "run"
    <3>1. todo' = TaskbarCreatedCalls BY <1>4, <2>2 DEF TaskbarCreated
    <3>2. QED BY <2>1, <2>2, <3>1, Starts, EmptyLeft DEF IconInv
  <2>3. CASE stage = "box"
    <3>1. todo' = <<>> BY <1>4, <2>3 DEF TaskbarCreated
    <3>2. QED BY <2>1, <2>3, <3>1, EmptyLeft DEF IconInv
  <2>4. QED BY <1>4, <2>2, <2>3 DEF TaskbarCreated
<1>5. CASE Close \/ ChooseExit
  <2>1. UNCHANGED <<m_iconHwnd, shell, posted, stage, m_hwnd>> /\ todo = <<>>
    BY <1>5 DEF Close, ChooseExit
  <2>2. "addIcon" \notin Left(todo')
    BY <1>5, Starts, ExitPoints DEF Close, ChooseExit
  <2>3. QED BY <2>1, <2>2, EmptyLeft DEF IconInv, TaskbarPosted
<1>6. CASE LoopEnds \/ BoxClosed
  <2>1. UNCHANGED <<m_iconHwnd, shell, m_hwnd>> /\ stage' = "unwind"
    BY <1>6 DEF LoopEnds, BoxClosed
  <2>2. "addIcon" \notin Left(todo')
    BY <1>6, UnwindStarts, UnwindPoints DEF LoopEnds, BoxClosed
  <2>3. QED BY <2>1, <2>2 DEF IconInv
<1>7. CASE SessionEnds
  BY <1>7, EmptyLeft DEF SessionEnds, IconInv
<1>8. QED
  BY <1>1, <1>2, <1>3, <1>4, <1>5, <1>6, <1>7 DEF Handler, Quiet

LEMMA IconOthers ==
    ASSUME TypeOK, IconInv, Others PROVE IconInv'
<1> USE DEF lifeVars
<1>0. posted \in Seq(Messages) BY DEF TypeOK
<1>1. CASE WheelTurns
  <2>1. UNCHANGED <<m_iconHwnd, shell, stage, todo, m_hwnd>>
    BY <1>1 DEF WheelTurns, trayVars
  <2>2. TaskbarPosted => TaskbarPosted'
    BY <1>0, <1>1, PostedKept, MessageType DEF WheelTurns
  <2>3. QED BY <2>1, <2>2 DEF IconInv
<1>2. CASE TaskbarRecreated
  <2>1. UNCHANGED <<m_iconHwnd, shell, stage, todo, m_hwnd>>
    BY <1>2 DEF TaskbarRecreated, trayVars
  <2>2. TaskbarPosted => TaskbarPosted'
    <3>1. CASE posted' = Append(posted, TaskbarMessage)
      BY <1>0, <3>1, PostedKept, MessageType
    <3>2. CASE UNCHANGED posted BY <3>2 DEF TaskbarPosted
    <3>3. QED BY <1>2, <3>1, <3>2 DEF TaskbarRecreated, Broadcast
  <2>3. QED BY <2>1, <2>2 DEF IconInv
<1>3. CASE ExplorerRestarts
  <2>1. /\ UNCHANGED <<m_iconHwnd, stage, todo, m_hwnd>>
        /\ shell'.icon = shell.icon /\ shell'.orphan = shell.orphan
        /\ ~shell.up /\ shell'.up
    BY <1>3 DEF ExplorerRestarts, ShellReturns, TypeOK, TrayTypeOK
  <2>2. m_hwnd /\ stage # "unwind" => TaskbarPosted'
    BY <1>0, <1>3, PostedKept, MessageType DEF ExplorerRestarts, Broadcast
  <2>3. QED BY <2>1, <2>2 DEF IconInv
<1>4. CASE ExplorerMoves
  <2>1. UNCHANGED <<m_iconHwnd, posted, stage, todo, m_hwnd>>
    BY <1>4 DEF ExplorerMoves, ShellDies, IconMoves, queueVars
  <2>2. \/ ~shell'.up /\ ~shell'.icon /\ ~shell'.orphan
        \/ /\ shell'.up = shell.up /\ shell'.icon = shell.icon
           /\ shell'.orphan = shell.orphan
    BY <1>4 DEF ExplorerMoves, ShellDies, IconMoves, TypeOK, TrayTypeOK
  <2>3. QED BY <2>1, <2>2 DEF IconInv, TaskbarPosted
<1>5. QED BY <1>1, <1>2, <1>3, <1>4 DEF Others

LEMMA IconNext ==
    ASSUME TypeOK, Shape, IconInv, [Next]_vars PROVE IconInv'
<1>1. CASE UNCHANGED vars
  BY <1>1, IconFrame DEF vars, trayVars, queueVars, lifeVars
<1>2. QED BY <1>1, IconStep, IconHandler, IconOthers DEF Next, Ended

LEMMA IconFromInv ==
    ASSUME TypeOK, IconInv PROVE IconAsBelieved
BY EmptyLeft DEF IconAsBelieved, IconInv, TaskbarPosted, TypeOK, TrayTypeOK

-----------------------------------------------------------------------------
(* The end.                                                                *)

LEMMA EndStep ==
    ASSUME TypeOK, Shape, HookInv, IconInv, EndInv, NothingLeftBehind, Step
    PROVE  EndInv' /\ NothingLeftBehind'
<1> USE DEF Call, dialogVars, lifeVars
<1>0. stage \in Stages /\ todo # <<>>
  BY DEF TypeOK, Stages, Step, ReadAutostart, CreateHiddenWindow, AddTrayIcon,
     RemoveTrayIcon, StartCoordinator, InstallHook, StartTimer, KillRectTimer,
     RemoveHook, RefreshRect, PostQuit, StopCoordinator, SaveIfDirty,
     DestroyDialog, DestroyMonitors
<1>1. CASE \/ ReadAutostart \/ CreateHiddenWindow \/ AddTrayIcon
           \/ StartCoordinator \/ InstallHook \/ StartTimer \/ KillRectTimer
           \/ RefreshRect \/ PostQuit
  <2>1. Head(todo) \in {"readAutostart", "createWindow", "addIcon", "start",
                        "installHook", "setTimer", "killTimer", "refreshRect",
                        "postQuit"}
    BY <1>1
    DEF ReadAutostart, CreateHiddenWindow, AddTrayIcon, StartCoordinator,
        InstallHook, StartTimer, KillRectTimer, RefreshRect, PostQuit
  <2>2. stage' \in {stage, "box", "run"}
    BY <1>1
    DEF ReadAutostart, CreateHiddenWindow, AddTrayIcon, StartCoordinator,
        InstallHook, StartTimer, KillRectTimer, RefreshRect, PostQuit, GiveUp
  <2>3. stage \in {"init", "run", "box"} BY <1>0, <2>1, CallStage
  <2>4. QED BY <2>2, <2>3 DEF EndInv, NothingLeftBehind
<1>2. CASE RemoveTrayIcon
  <2>1. Tailed(todo) /\ Head(todo) = "removeIcon" /\ todo' = Tail(todo)
    BY <1>0, <1>2, CallStage DEF RemoveTrayIcon
  <2>2. UNCHANGED <<stage, worker, dialog, unsaved>> /\ ~m_iconHwnd'
    BY <1>2 DEF RemoveTrayIcon, RemoveIcon
  <2>3. QED BY <1>0, <2>1, <2>2 DEF EndInv, NothingLeftBehind, Tailed, Shape
<1>3. CASE RemoveHook
  <2>1. Tailed(todo) /\ Head(todo) = "removeHook" /\ todo' = Tail(todo)
    BY <1>0, <1>3, CallStage DEF RemoveHook
  <2>2. UNCHANGED <<stage, worker, dialog, unsaved, m_iconHwnd>>
    BY <1>3 DEF RemoveHook, RemoveWheelHook
  <2>3. QED BY <1>0, <2>1, <2>2 DEF EndInv, NothingLeftBehind, Tailed, Shape
<1>4. CASE StopCoordinator
  <2>1. Tailed(todo) /\ Head(todo) = "stop" /\ todo' = Tail(todo)
    BY <1>0, <1>4, CallStage DEF StopCoordinator
  <2>2. UNCHANGED <<stage, dialog, unsaved, m_iconHwnd>> /\ worker' # "running"
    BY <1>4 DEF StopCoordinator, trayVars
  <2>3. QED BY <1>0, <2>1, <2>2 DEF EndInv, NothingLeftBehind, Tailed, Shape
<1>5. CASE SaveIfDirty
  <2>1. Tailed(todo) /\ Head(todo) = "saveIfDirty" /\ todo' = Tail(todo)
    BY <1>0, <1>5, CallStage DEF SaveIfDirty
  <2>2. UNCHANGED <<stage, worker, dialog, m_iconHwnd>> /\ ~unsaved'
    BY <1>5 DEF SaveIfDirty, trayVars
  <2>3. QED BY <1>0, <2>1, <2>2 DEF EndInv, NothingLeftBehind, Tailed, Shape
<1>6. CASE DestroyDialog
  <2>1. Tailed(todo) /\ Head(todo) = "destroyDialog" /\ todo' = Tail(todo)
    BY <1>0, <1>6, CallStage DEF DestroyDialog
  <2>2. UNCHANGED <<stage, worker, m_iconHwnd>> /\ dialog' = "none" /\ ~unsaved'
    BY <1>6 DEF DestroyDialog, trayVars
  <2>3. QED BY <1>0, <2>1, <2>2 DEF EndInv, NothingLeftBehind, Tailed, Shape
<1>7. CASE DestroyMonitors
  <2>1. stage = "unwind" /\ Left(todo) = {"destroyMonitors"}
    BY <1>0, <1>7, CallStage, UnwindPoints DEF DestroyMonitors
  <2>2. /\ stage' = "gone"
        /\ UNCHANGED <<worker, dialog, unsaved, m_iconHwnd, shell, g_wheelHook>>
    BY <1>7 DEF DestroyMonitors, trayVars
  <2>3. ~m_iconHwnd /\ worker # "running" /\ dialog = "none" /\ ~unsaved
    BY <2>1 DEF EndInv
  <2>4. (shell.icon => shell.orphan) /\ ~g_wheelHook BY <2>1, <2>3 DEF IconInv, HookInv
  <2>5. QED BY <2>2, <2>3, <2>4 DEF EndInv, NothingLeftBehind
<1>8. QED BY <1>1, <1>2, <1>3, <1>4, <1>5, <1>6, <1>7 DEF Step

LEMMA EndNext ==
    ASSUME TypeOK, Shape, HookInv, IconInv, EndInv, NothingLeftBehind, [Next]_vars
    PROVE  EndInv' /\ NothingLeftBehind'
<1> USE DEF lifeVars, dialogVars
<1>1. CASE UNCHANGED vars
  BY <1>1 DEF vars, trayVars, EndInv, NothingLeftBehind
<1>2. CASE Step BY <1>2, EndStep
<1>3. CASE LoopEnds \/ BoxClosed
  <2>1. stage' = "unwind" /\ todo' = Unwind BY <1>3 DEF LoopEnds, BoxClosed
  <2>2. QED BY <2>1, UnwindStarts DEF EndInv, NothingLeftBehind
<1>4. CASE Handler /\ ~LoopEnds /\ ~BoxClosed
  <2>1. Pumping /\ stage' \in {stage, "killed"}
    <3>1. Quiet => Pumping /\ UNCHANGED stage BY QuietFrame
    <3>2. QED
      BY <1>4, <3>1
      DEF Handler, Quiet, TaskbarCreated, Scroll, RectTimerTick, DisplayChange,
          Close, ChooseExit, SessionEnds, Receiving, MenuOpen
  <2>2. QED BY <2>1 DEF Pumping, EndInv, NothingLeftBehind
<1>5. CASE Others
  <2>1. UNCHANGED <<stage, todo, worker, dialog, unsaved, m_iconHwnd>>
    <3>1. WheelTurns \/ TaskbarRecreated =>
            UNCHANGED <<stage, todo, worker, dialog, unsaved, m_iconHwnd>>
      BY DEF WheelTurns, TaskbarRecreated, trayVars
    <3>2. ExplorerRestarts \/ ExplorerMoves =>
            UNCHANGED <<stage, todo, worker, dialog, unsaved, m_iconHwnd>>
      BY DEF ExplorerRestarts, ExplorerMoves, ShellReturns, ShellDies, IconMoves
    <3>3. QED BY <1>5, <3>1, <3>2 DEF Others
  <2>2. stage # "gone"
    BY <1>5 DEF Others, WheelTurns, TaskbarRecreated, ExplorerRestarts,
       ExplorerMoves, Pumping, Alive
  <2>3. QED BY <2>1, <2>2 DEF EndInv, NothingLeftBehind
<1>6. QED BY <1>1, <1>2, <1>3, <1>4, <1>5 DEF Next, Ended

-----------------------------------------------------------------------------
(* The wheel: sums over the messages by induction on their number.         *)

LEMMA NatSetInduction ==
    ASSUME NEW S \in SUBSET Nat, 0 \in S, \A n \in S : n + 1 \in S
    PROVE  S = Nat
<1> SUFFICES ASSUME Nat \ S # {} PROVE FALSE OBVIOUS
<1>1. PICK m \in Nat \ S : \A k \in Nat \ S : <<k, m>> \notin OpToRel(<, Nat)
  BY WFMin, NatLessThanWellFounded
<1>2. m \in Nat /\ m # 0 BY <1>1
<1>3. m - 1 \in Nat /\ <<m - 1, m>> \in OpToRel(<, Nat) BY <1>2 DEF OpToRel
<1>4. m - 1 \in S BY <1>1, <1>3
<1>5. (m - 1) + 1 \in S /\ (m - 1) + 1 = m BY <1>2, <1>4
<1>6. QED BY <1>1, <1>5

\* What the recursive function of Movement is to be on the first n messages.
SumsTo(f, s, n) ==
    \A k \in 0 .. n : f[k] = IF k = 0 THEN 0 ELSE f[k - 1] + s[k].delta

LEMMA SumsExist ==
    ASSUME NEW s \in Seq(Messages)
    PROVE  \E f \in [0 .. Len(s) -> Int] : SumsTo(f, s, Len(s))
<1> DEFINE Summed(n) == n <= Len(s) => \E f \in [0 .. n -> Int] : SumsTo(f, s, n)
           N == {n \in Nat : Summed(n)}
<1>1. 0 \in N
  <2> DEFINE f == [k \in 0 .. 0 |-> 0]
  <2>1. f \in [0 .. 0 -> Int] /\ SumsTo(f, s, 0) BY DEF SumsTo
  <2>2. QED BY <2>1
<1>2. ASSUME NEW n \in N PROVE n + 1 \in N
  <2> SUFFICES ASSUME n + 1 <= Len(s)
               PROVE  \E f \in [0 .. n + 1 -> Int] : SumsTo(f, s, n + 1)
    OBVIOUS
  <2>1. PICK f \in [0 .. n -> Int] : SumsTo(f, s, n) OBVIOUS
  <2>2. s[n + 1].delta \in Int
    <3>1. n + 1 \in 1 .. Len(s) OBVIOUS
    <3>2. s[n + 1] \in Messages BY <3>1
    <3>3. QED BY <3>2, MessageType
  <2> DEFINE g == [k \in 0 .. n + 1 |->
                     IF k = n + 1 THEN f[n] + s[n + 1].delta ELSE f[k]]
  <2>3. g \in [0 .. n + 1 -> Int] BY <2>2
  <2>4. SumsTo(g, s, n + 1)
    <3>1. g[0] = f[0] /\ f[0] = 0 BY <2>1 DEF SumsTo
    <3>2. ASSUME NEW k \in 1 .. n + 1 PROVE g[k] = g[k - 1] + s[k].delta
      <4>1. CASE k = n + 1 BY <4>1, <2>2
      <4>2. CASE k # n + 1
        <5>1. k \in 1 .. n /\ k - 1 \in 0 .. n BY <4>2
        <5>2. f[k] = f[k - 1] + s[k].delta BY <2>1, <5>1 DEF SumsTo
        <5>3. g[k] = f[k] /\ g[k - 1] = f[k - 1] BY <5>1
        <5>4. QED BY <5>2, <5>3
      <4>3. QED BY <4>1, <4>2
    <3> HIDE DEF g
    <3>3. QED BY <3>1, <3>2 DEF SumsTo
  <2>5. QED BY <2>3, <2>4
<1> HIDE DEF Summed
<1>3. N = Nat BY <1>1, <1>2, NatSetInduction
<1>4. Summed(Len(s)) BY <1>3
<1>5. QED BY <1>4 DEF Summed

LEMMA SumsUnique ==
    ASSUME NEW s \in Seq(Messages), NEW f, NEW g,
           SumsTo(f, s, Len(s)), SumsTo(g, s, Len(s))
    PROVE  f[Len(s)] = g[Len(s)]
<1> DEFINE Agree(n) == n <= Len(s) => f[n] = g[n]
           N == {n \in Nat : Agree(n)}
<1>1. 0 \in N BY DEF SumsTo
<1>2. ASSUME NEW n \in N PROVE n + 1 \in N
  <2> SUFFICES ASSUME n + 1 <= Len(s) PROVE f[n + 1] = g[n + 1] OBVIOUS
  <2>1. n + 1 \in 0 .. Len(s) /\ (n + 1) - 1 = n /\ n + 1 # 0 OBVIOUS
  <2>2. f[n] = g[n] OBVIOUS
  <2>3. f[n + 1] = f[n] + s[n + 1].delta BY <2>1 DEF SumsTo
  <2>4. g[n + 1] = g[n] + s[n + 1].delta BY <2>1 DEF SumsTo
  <2>5. QED BY <2>2, <2>3, <2>4
<1> HIDE DEF Agree
<1>3. N = Nat BY <1>1, <1>2, NatSetInduction
<1>4. Agree(Len(s)) BY <1>3
<1>5. QED BY <1>4 DEF Agree

LEMMA MovementIs ==
    ASSUME NEW s \in Seq(Messages), NEW f \in [0 .. Len(s) -> Int],
           SumsTo(f, s, Len(s))
    PROVE  Movement(s) = f[Len(s)]
<1> DEFINE Is(g) == g = [k \in 0 .. Len(s) |->
                            IF k = 0 THEN 0 ELSE g[k - 1] + s[k].delta]
           sum == CHOOSE g : Is(g)
<1>1. Is(f) BY DEF SumsTo
<1>2. Is(sum) BY <1>1
<1>3. Movement(s) = sum[Len(s)] BY DEF Movement
<1> HIDE DEF sum
<1>4. SumsTo(sum, s, Len(s)) BY <1>2 DEF SumsTo
<1>5. QED BY <1>3, <1>4, SumsUnique

LEMMA MovementEmpty == Movement(<<>>) = 0
<1> DEFINE f == [k \in 0 .. 0 |-> 0]
<1>1. f \in [0 .. 0 -> Int] /\ SumsTo(f, <<>>, 0) BY DEF SumsTo
<1>2. <<>> \in Seq(Messages) /\ Len(<<>>) = 0 OBVIOUS
<1>3. QED BY <1>1, <1>2, MovementIs

LEMMA MovementAppend ==
    ASSUME NEW s \in Seq(Messages), NEW m \in Messages
    PROVE  /\ Movement(s) \in Int
           /\ Movement(Append(s, m)) = Movement(s) + m.delta
<1>1. PICK f \in [0 .. Len(s) -> Int] : SumsTo(f, s, Len(s)) BY SumsExist
<1>2. m.delta \in Int BY MessageType
<1> DEFINE t == Append(s, m)
           g == [k \in 0 .. Len(s) + 1 |->
                   IF k = Len(s) + 1 THEN f[Len(s)] + m.delta ELSE f[k]]
<1>3. /\ t \in Seq(Messages) /\ Len(t) = Len(s) + 1 /\ t[Len(s) + 1] = m
      /\ \A k \in 1 .. Len(s) : t[k] = s[k]
  OBVIOUS
<1> HIDE DEF t
<1>4. g \in [0 .. Len(t) -> Int] BY <1>2, <1>3
<1>5. SumsTo(g, t, Len(t))
  <2> SUFFICES ASSUME NEW k \in 0 .. Len(t)
               PROVE  g[k] = IF k = 0 THEN 0 ELSE g[k - 1] + t[k].delta
    BY DEF SumsTo
  <2>1. CASE k = Len(s) + 1
    <3>1. g[k] = f[Len(s)] + m.delta /\ k # 0 BY <2>1
    <3>2. g[k - 1] = f[Len(s)] BY <2>1
    <3>3. t[k] = m BY <1>3, <2>1
    <3>4. QED BY <3>1, <3>2, <3>3
  <2>2. CASE k # Len(s) + 1
    <3>1. k \in 0 .. Len(s) BY <1>3, <2>2
    <3>2. g[k] = f[k] /\ (k # 0 => g[k - 1] = f[k - 1]) BY <2>2, <3>1
    <3>3. k # 0 => t[k] = s[k] BY <1>3, <3>1
    <3>4. f[k] = IF k = 0 THEN 0 ELSE f[k - 1] + s[k].delta
      BY <1>1, <3>1 DEF SumsTo
    <3>5. QED BY <3>2, <3>3, <3>4
  <2>3. QED BY <2>1, <2>2
<1>6. Movement(t) = g[Len(t)] BY <1>3, <1>4, <1>5, MovementIs
<1>7. Movement(s) = f[Len(s)] BY <1>1, MovementIs
<1>8. QED BY <1>3, <1>6, <1>7 DEF t

LEMMA MovementTail ==
    ASSUME NEW s \in Seq(Messages), s # <<>>
    PROVE  /\ Movement(Tail(s)) \in Int
           /\ Movement(s) = Head(s).delta + Movement(Tail(s))
<1> DEFINE t == Tail(s)
           d == Head(s).delta
<1>1. /\ t \in Seq(Messages) /\ Len(t) = Len(s) - 1 /\ Len(s) \in Nat \ {0}
      /\ Head(s) = s[1] /\ s[1] \in Messages
      /\ \A k \in 1 .. Len(t) : t[k] = s[k + 1]
  OBVIOUS
<1>2. d \in Int BY <1>1, MessageType
<1> HIDE DEF t, d
<1>3. PICK f \in [0 .. Len(t) -> Int] : SumsTo(f, t, Len(t)) BY <1>1, SumsExist
<1> DEFINE g == [k \in 0 .. Len(s) |-> IF k = 0 THEN 0 ELSE d + f[k - 1]]
<1>4. g \in [0 .. Len(s) -> Int] BY <1>1, <1>2, <1>3
<1>5. SumsTo(g, s, Len(s))
  <2> SUFFICES ASSUME NEW k \in 1 .. Len(s)
               PROVE  g[k] = g[k - 1] + s[k].delta
    <3>1. g[0] = 0 OBVIOUS
    <3>2. \A k \in 0 .. Len(s) : k # 0 => k \in 1 .. Len(s) OBVIOUS
    <3> HIDE DEF g
    <3>3. QED BY <3>1, <3>2 DEF SumsTo
  <2>1. k - 1 \in 0 .. Len(t) BY <1>1
  <2>2. CASE k = 1
    <3>1. f[0] = 0 BY <1>1, <1>3 DEF SumsTo
    <3>2. g[1] = d + 0 /\ g[0] = 0 BY <1>1, <3>1
    <3>3. s[1].delta = d BY <1>1 DEF d
    <3>4. QED BY <1>2, <2>2, <3>2, <3>3
  <2>3. CASE k # 1
    <3>1. f[k - 1] = f[k - 2] + t[k - 1].delta
      <4>1. k - 1 # 0 /\ (k - 1) - 1 = k - 2 BY <2>3
      <4>2. QED BY <1>3, <2>1, <4>1 DEF SumsTo
    <3>2. t[k - 1] = s[k] BY <1>1, <2>1, <2>3
    <3>3. s[k].delta \in Int
      <4>1. s[k] \in Messages OBVIOUS
      <4>2. QED BY <4>1, MessageType
    <3>4. f[k - 2] \in Int
      <4>1. k - 2 \in 0 .. Len(t) BY <1>1, <2>3
      <4>2. QED BY <1>3, <4>1
    <3>5. g[k] = d + f[k - 1] /\ g[k - 1] = d + f[k - 2]
      BY <1>1, <2>3, SMTT(30)
    <3>6. QED BY <1>2, <3>1, <3>2, <3>3, <3>4, <3>5
  <2>4. QED BY <2>2, <2>3
<1>6. Movement(s) = g[Len(s)] BY <1>4, <1>5, MovementIs
<1>7. Movement(t) = f[Len(t)] BY <1>1, <1>3, MovementIs
<1>8. QED BY <1>1, <1>2, <1>6, <1>7 DEF t, d

LEMMA WheelKept ==
    ASSUME NoScrollLost, UNCHANGED <<scrollVars, posted>> PROVE NoScrollLost'
<1>1. UNCHANGED <<m_scrollRemainder, owed, posted>> BY DEF scrollVars
<1>2. Movement(posted') = Movement(posted) BY <1>1
<1>3. QED BY <1>1, <1>2 DEF NoScrollLost

LEMMA WheelAppend ==
    ASSUME TypeOK, NoScrollLost, NEW m \in Messages,
           posted' = Append(posted, m), owed' = owed + m.delta,
           UNCHANGED m_scrollRemainder
    PROVE  NoScrollLost'
<1>1. posted \in Seq(Messages) /\ owed \in Int /\ m_scrollRemainder \in Int
  BY DEF TypeOK
<1>2. m.delta \in Int BY MessageType
<1>3. /\ Movement(posted) \in Int
      /\ Movement(posted') = Movement(posted) + m.delta
  BY <1>1, MovementAppend
<1>4. QED BY <1>1, <1>2, <1>3 DEF NoScrollLost

LEMMA WheelTaken ==
    ASSUME TypeOK, NoScrollLost, posted # <<>>, TaskbarCreated \/ Scroll
    PROVE  NoScrollLost'
<1> DEFINE d == Head(posted).delta
           total == m_scrollRemainder + d
<1>1. /\ posted \in Seq(Messages) /\ owed \in Int /\ m_scrollRemainder \in Int
  BY DEF TypeOK
<1>2. d \in Int /\ Head(posted) \in Messages BY <1>1, PostedTail, MessageType
<1>3. /\ posted' = Tail(posted)
      /\ Movement(Tail(posted)) \in Int
      /\ Movement(posted) = d + Movement(Tail(posted))
  BY <1>1, MovementTail DEF TaskbarCreated, Scroll
<1> HIDE DEF d
<1>4. CASE TaskbarCreated
  <2>1. d = 0 BY <1>4, MessageType DEF TaskbarCreated, d
  <2>2. UNCHANGED <<m_scrollRemainder, owed>> BY <1>4 DEF TaskbarCreated, scrollVars
  <2>3. QED BY <1>1, <1>3, <2>1, <2>2 DEF NoScrollLost
<1>5. CASE Scroll
  <2>1. /\ m_scrollRemainder' = Rest(total)
        /\ owed' = owed - WHEEL_DELTA * Notches(total)
    BY <1>5 DEF Scroll, d
  <2>2. total \in Int BY <1>1, <1>2
  <2>3. /\ Notches(total) \in Int
        /\ Rest(total) = total - WHEEL_DELTA * Notches(total)
        /\ Rest(total) \in 1 - WHEEL_DELTA .. WHEEL_DELTA - 1
    BY <2>2, RestType
  <2>4. owed = m_scrollRemainder + (d + Movement(Tail(posted)))
    BY <1>3 DEF NoScrollLost
  <2> DEFINE n == WHEEL_DELTA * Notches(total)
  <2>5. n \in Int BY <2>3 DEF WHEEL_DELTA
  <2>6. owed' = owed - n BY <2>1
  <2>7. m_scrollRemainder' = total - n BY <2>1, <2>3
  <2> HIDE DEF n
  <2>8. owed' = m_scrollRemainder' + Movement(posted')
    BY <1>1, <1>2, <1>3, <2>4, <2>5, <2>6, <2>7
  <2>9. QED BY <2>1, <2>3, <2>8 DEF NoScrollLost
<1>6. QED BY <1>4, <1>5

LEMMA WheelOthers ==
    ASSUME TypeOK, NoScrollLost, Others PROVE NoScrollLost'
<1>1. ASSUME Broadcast, UNCHANGED scrollVars PROVE NoScrollLost'
  <2>1. posted' = Append(posted, TaskbarMessage) \/ UNCHANGED posted
    BY <1>1 DEF Broadcast
  <2>2. CASE posted' = Append(posted, TaskbarMessage)
    <3>1. owed' = owed + TaskbarMessage.delta /\ UNCHANGED m_scrollRemainder
      <4>1. owed \in Int BY DEF TypeOK
      <4>2. QED BY <1>1, <4>1, MessageType DEF scrollVars
    <3>2. QED BY <2>2, <3>1, MessageType, WheelAppend
  <2>3. CASE UNCHANGED posted BY <1>1, <2>3, WheelKept
  <2>4. QED BY <2>1, <2>2, <2>3
<1>2. CASE WheelTurns
  <2>1. PICK delta \in Deltas : /\ posted' = Append(posted, WheelMessage(delta))
                                /\ owed' = owed + delta
    BY <1>2 DEF WheelTurns
  <2>2. UNCHANGED m_scrollRemainder BY <1>2 DEF WheelTurns
  <2>3. QED BY <2>1, <2>2, MessageType, WheelAppend
<1>3. CASE ExplorerRestarts BY <1>1, <1>3 DEF ExplorerRestarts
<1>4. CASE TaskbarRecreated BY <1>1, <1>4 DEF TaskbarRecreated
<1>5. CASE ExplorerMoves
  BY <1>5, WheelKept DEF ExplorerMoves, queueVars
<1>6. QED BY <1>2, <1>3, <1>4, <1>5 DEF Others

LEMMA WheelNext ==
    ASSUME TypeOK, NoScrollLost, [Next]_vars PROVE NoScrollLost'
<1>1. CASE UNCHANGED vars BY <1>1, WheelKept DEF vars, queueVars
<1>2. CASE Step
  <2>1. UNCHANGED <<scrollVars, posted>>
    BY <1>2
    DEF Step, ReadAutostart, CreateHiddenWindow, AddTrayIcon, RemoveTrayIcon,
        StartCoordinator, InstallHook, StartTimer, KillRectTimer, RemoveHook,
        RefreshRect, PostQuit, StopCoordinator, SaveIfDirty, DestroyDialog,
        DestroyMonitors, queueVars
  <2>2. QED BY <2>1, WheelKept
<1>3. CASE Handler /\ ~TaskbarCreated /\ ~Scroll
  <2>1. UNCHANGED <<scrollVars, posted>>
    BY <1>3
    DEF Handler, RectTimerTick, DisplayChange, Close, LeftClick, RightClick,
        ChooseNothing, ChooseSettings, ToggleAutostart, ChooseExit,
        ClickAutostart, DragSlider, HideDialog, LoopEnds, BoxClosed,
        SessionEnds, queueVars
  <2>2. QED BY <2>1, WheelKept
<1>4. CASE TaskbarCreated \/ Scroll
  BY <1>4, WheelTaken DEF TaskbarCreated, Scroll
<1>5. CASE Others BY <1>5, WheelOthers
<1>6. QED BY <1>1, <1>2, <1>3, <1>4, <1>5 DEF Next, Ended

-----------------------------------------------------------------------------
(* The specification.                                                      *)

LEMMA InitInv == Init => AppInv
<1> SUFFICES ASSUME Init PROVE AppInv OBVIOUS
<1>1. TypeOK /\ Shape BY InitialState
<1>2. /\ stage = "init" /\ todo = InitCalls /\ posted = <<>> /\ ~quit
      /\ owed = 0 /\ m_scrollRemainder = 0
  BY DEF Init
<1>3. ~g_wheelHook /\ ~m_iconHwnd /\ ~shell.icon /\ ~shell.orphan
  BY DEF Init, TrayInit
<1>4. HookInv BY <1>2, <1>3 DEF HookInv
<1>5. "createWindow" \in Left(todo) BY <1>2 DEF Left, InitCalls
<1>6. IconInv BY <1>2, <1>3, <1>5 DEF IconInv
<1>7. EndInv /\ NothingLeftBehind BY <1>2 DEF EndInv, NothingLeftBehind
<1>8. NoScrollLost BY <1>2, MovementEmpty DEF NoScrollLost, WHEEL_DELTA
<1>9. QED BY <1>1, <1>4, <1>6, <1>7, <1>8 DEF AppInv

LEMMA NextInv == AppInv /\ [Next]_vars => AppInv'
<1> SUFFICES ASSUME AppInv, [Next]_vars PROVE AppInv' OBVIOUS
<1> USE DEF AppInv
<1>1. TypeOK' /\ Shape' BY NextTypes
<1>2. HookInv' BY HookNext
<1>3. IconInv' BY IconNext
<1>4. EndInv' /\ NothingLeftBehind' BY EndNext
<1>5. NoScrollLost' BY WheelNext
<1>6. QED BY <1>1, <1>2, <1>3, <1>4, <1>5

(* Between any two calls of Init, of a handler or of the destructors, what *)
(* is left to call tells what the tray, the worker and the dialog hold.    *)
THEOREM AppInvariant == Spec => []AppInv
<1>1. QED BY InitInv, NextInv, PTL DEF Spec

(* Every variable of the UI thread keeps its type, with every taskbar and  *)
(* every wheel.                                                            *)
THEOREM AppTypeCorrect == Spec => []TypeOK
<1>1. AppInv => TypeOK BY DEF AppInv
<1>2. QED BY <1>1, AppInvariant, PTL

(* The low-level mouse hook is never installed while the thread starts or  *)
(* joins the worker or saves at exit (App.cpp:105-116, 194-200).           *)
THEOREM HookNeverStalls == Spec => []HookOnlyWhilePumping
<1>1. AppInv => HookOnlyWhilePumping BY HookFromInv DEF AppInv
<1>2. QED BY <1>1, AppInvariant, PTL

(* A taskbar that came back has its icon again, and the shell shows none   *)
(* that RemoveIcon cannot reach but one whose deletion it refused          *)
(* (App.cpp:362-378, TrayService.cpp:84-105).                              *)
THEOREM IconStaysKnown == Spec => []IconAsBelieved
<1>1. AppInv => IconAsBelieved BY IconFromInv DEF AppInv
<1>2. QED BY <1>1, AppInvariant, PTL

(* A process that ends in order leaves no icon but one the shell refused   *)
(* to delete, and no hook, has joined its worker and tried to save         *)
(* (App.cpp:15-31, App.h:57-66).                                           *)
THEOREM EndLeavesNothing == Spec => []NothingLeftBehind
<1>1. AppInv => NothingLeftBehind BY DEF AppInv
<1>2. QED BY <1>1, AppInvariant, PTL

(* Whatever the deltas and however many messages wait, what the wheel      *)
(* moved is in the steps made, in the queue or in a remainder smaller than *)
(* a notch (TrayService.cpp:41-60, App.cpp:268-294).                       *)
THEOREM WheelIsConserved == Spec => []NoScrollLost
<1>1. AppInv => NoScrollLost BY DEF AppInv
<1>2. QED BY <1>1, AppInvariant, PTL
=============================================================================
