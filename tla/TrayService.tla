----------------------------- MODULE TrayService -----------------------------
(***************************************************************************)
(* The tray icon and the wheel hook (src/src/app/TrayService.cpp), with    *)
(* the shell they live in.  The shell is another process: explorer may     *)
(* die, come back with an empty notification area, announce a new taskbar  *)
(* without having lost anything, and move the icon whenever it likes.      *)
(*                                                                         *)
(* A call of the class is one action; the actions that read the shell read *)
(* what it is at that moment.                                              *)
(***************************************************************************)
EXTENDS Integers, Sequences

CONSTANT
    Places          \* where on the taskbar the icon can be

\* In the overflow flyout the icon has no rectangle; and no rectangle at all.
Overflow == "overflow"
NoRect == "none"

ASSUME PlacesAssumption == Overflow \notin Places /\ NoRect \notin Places

VARIABLES
    m_iconHwnd,     \* whether m_iconHwnd holds the window, or null
    g_wheelHook,    \* whether the low-level mouse hook is installed
    g_iconRect,     \* the rectangle the hook tests against, or NoRect
    shell           \* up, whether it holds our icon and where it shows it, and
                    \* (history) whether it refused to delete that very icon

trayVars == <<m_iconHwnd, g_wheelHook, g_iconRect, shell>>

Spots == Places \cup {Overflow}

TrayTypeOK ==
    /\ m_iconHwnd \in BOOLEAN /\ g_wheelHook \in BOOLEAN
    /\ g_iconRect \in Places \cup {NoRect}
    /\ shell \in [up : BOOLEAN, icon : BOOLEAN, at : Spots, orphan : BOOLEAN]

TrayInit ==
    /\ m_iconHwnd = FALSE /\ g_wheelHook = FALSE /\ g_iconRect = NoRect
    /\ shell \in [up : BOOLEAN, icon : {FALSE}, at : Spots, orphan : {FALSE}]

-----------------------------------------------------------------------------
(* The class.                                                              *)

\* Mutant: any place is taken for a rectangle.
IconRectAnywhere == IF shell.up /\ shell.icon THEN shell.at ELSE NoRect

\* Shell_NotifyIconGetRect: of an icon the shell shows outside the flyout.
IconRect == IF shell.up /\ shell.icon /\ shell.at \in Places THEN shell.at
            ELSE NoRect

\* Mutant: a failed query keeps the old rectangle.
QueryIconRectKeepingOld ==
    g_iconRect' = IF IconRect = NoRect THEN g_iconRect ELSE IconRect
QueryIconRect == g_iconRect' = IconRect

\* NIM_ADD is refused while the shell is away or already has the id, or for
\* reasons of its own; added and versioned are what the two calls return.
MayAdd(added) == added => (shell.up /\ ~shell.icon)

\* Mutant: a refused version switch leaves the icon to the shell.
AddIconOrphaned(added, versioned, deleted) ==
    /\ MayAdd(added)
    /\ shell' = [shell EXCEPT !.icon = @ \/ added]
    /\ m_iconHwnd' = (m_iconHwnd \/ (added /\ versioned))
    /\ UNCHANGED <<g_wheelHook, g_iconRect>>

\* After a refused version switch the icon is deleted again; nobody looks at
\* what that NIM_DELETE returns.
AddIcon(added, versioned, deleted) ==
    /\ MayAdd(added)
    /\ LET refused == added /\ ~versioned /\ ~deleted
       IN  shell' = [shell EXCEPT !.icon = @ \/ (added /\ versioned) \/ refused,
                                  !.orphan = @ \/ refused]
    /\ m_iconHwnd' = (m_iconHwnd \/ (added /\ versioned))
    /\ UNCHANGED <<g_wheelHook, g_iconRect>>

\* NIM_DELETE names the icon by m_iconHwnd, and fails silently on null.  What
\* it returns is ignored: m_iconHwnd is forgotten even if the icon stays.
RemoveIcon(deleted) ==
    /\ shell' = [shell EXCEPT
                   !.icon = @ /\ ~(m_iconHwnd /\ deleted),
                   !.orphan = @ \/ (shell.icon /\ m_iconHwnd /\ ~deleted)]
    /\ m_iconHwnd' = FALSE
    /\ UNCHANGED <<g_wheelHook, g_iconRect>>

\* installed is what SetWindowsHookEx returns.
InstallWheelHook(installed) ==
    /\ g_wheelHook' = (g_wheelHook \/ installed)
    /\ IF g_wheelHook THEN UNCHANGED g_iconRect ELSE QueryIconRect
    /\ UNCHANGED <<m_iconHwnd, shell>>

RemoveWheelHook ==
    /\ g_wheelHook' = FALSE /\ g_iconRect' = NoRect
    /\ UNCHANGED <<m_iconHwnd, shell>>

RefreshWheelRect == QueryIconRect /\ UNCHANGED <<m_iconHwnd, g_wheelHook, shell>>

\* WheelHookProc: a turn of the wheel at place is taken from the system and
\* posted, or passed on.
Consumes(place) == g_wheelHook /\ g_iconRect = place

-----------------------------------------------------------------------------
(* The shell.                                                              *)

ShellDies ==
    /\ shell.up
    /\ shell' = [shell EXCEPT !.up = FALSE, !.icon = FALSE, !.orphan = FALSE]
    /\ UNCHANGED <<m_iconHwnd, g_wheelHook, g_iconRect>>

\* With TaskbarCreated broadcast; Init and App compose the broadcast.
ShellReturns ==
    /\ ~shell.up
    /\ shell' = [shell EXCEPT !.up = TRUE]
    /\ UNCHANGED <<m_iconHwnd, g_wheelHook, g_iconRect>>

IconMoves ==
    /\ shell.up
    /\ \E place \in Spots \ {shell.at} : shell' = [shell EXCEPT !.at = place]
    /\ UNCHANGED <<m_iconHwnd, g_wheelHook, g_iconRect>>
=============================================================================
