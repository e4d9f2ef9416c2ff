--------------------------- MODULE MonitorManager ---------------------------
(***************************************************************************)
(* Enumeration of monitors and ownership of their handles                  *)
(* (MonitorManager.cpp, PhysicalMonitorHandle.cpp), against a Windows      *)
(* desktop that changes whenever it likes.                                 *)
(*                                                                         *)
(* The desktop is a sequence of logical monitors (HMONITOR), each the      *)
(* sequence of panels that show it: one panel, or several when mirrored.   *)
(* The position of a logical monitor stands for its GDI device name.       *)
(***************************************************************************)
EXTENDS VcpBus, Sequences

CONSTANTS
    Internal,   \* panels whose output technology is an embedded one
    Named,      \* panels whose EDID name is not a Windows placeholder
    Layouts,    \* the desktops Windows may present
    CallsFail   \* whether the desktop calls may fail, and handles die early

VARIABLES
    desktop,      \* what Windows shows now
    targets,      \* QueryActiveTargets' result, while Refresh runs
    refreshing,   \* Refresh() is between its two system queries
    m_monitors    \* LogicalEntry -> the handles of its physical entries

managerVars == <<desktop, targets, refreshing, m_monitors>>

ASSUME LayoutAssumption ==
    /\ Internal \subseteq Panels /\ Named \subseteq Panels
    /\ Layouts \subseteq Seq(Seq(Panels))
    /\ CallsFail \in BOOLEAN

\* The parts of S for which a desktop call may answer.
Answered(S) == IF CallsFail THEN SUBSET S ELSE {S}

NoTargets == [layout |-> <<>>, resolved |-> {}]

Attached(layout) ==
    { layout[at[1]][at[2]] :
        at \in UNION {{i} \X DOMAIN layout[i] : i \in DOMAIN layout} }

\* The RAII handles m_monitors keeps alive.
Entries(monitors) ==
    UNION { {i} \X DOMAIN monitors[i] : i \in DOMAIN monitors }
Owned(monitors) == { monitors[at[1]][at[2]] : at \in Entries(monitors) }

\* Windows shows a panel in one place only.
ASSUME PanelsOnceAssumption ==
    \A layout \in Layouts : \A a, b \in Entries(layout) :
        layout[a[1]][a[2]] = layout[b[1]][b[2]] => a = b

ManagerInit ==
    /\ desktop \in Layouts
    /\ targets = NoTargets
    /\ refreshing = FALSE
    /\ m_monitors = <<>>
    /\ routes = [h \in Handles |-> "free"]
    /\ panelValue \in [Panels -> UNION {PowerOn(p) : p \in Panels}]
    /\ \A p \in Panels : panelValue[p] \in PowerOn(p)

-----------------------------------------------------------------------------
(* QueryActiveTargets: any path whose device info cannot be read is left   *)
(* out, and a failing query yields no target at all (resolved = {}).       *)
QueryActiveTargets ==
    /\ ~refreshing
    /\ refreshing' = TRUE
    /\ \E resolved \in Answered(Attached(desktop)) :
           targets' = [layout |-> desktop, resolved |-> resolved]
    /\ UNCHANGED <<desktop, m_monitors, routes, panelValue>>

(* The candidate loop of Refresh for logical monitor i: the QDC targets    *)
(* with its device name, in order, up to the first one whose name is not   *)
(* generic.                                                                *)
Candidates(i) ==
    IF i \notin DOMAIN targets.layout THEN {}
    ELSE { k \in DOMAIN targets.layout[i] :
             targets.layout[i][k] \in targets.resolved }
Examined(i) ==
    { k \in Candidates(i) :
        \A j \in Candidates(i) : j < k => targets.layout[i][j] \notin Named }

\* Mutant: one embedded target is enough to hide the logical monitor.
InternalGateOnAny(i) ==
    \E k \in Examined(i) : targets.layout[i][k] \in Internal

\* The internal-panel gate: data exists and every target seen is embedded.
InternalGate(i) ==
    /\ Examined(i) # {}
    /\ \A k \in Examined(i) : targets.layout[i][k] \in Internal

Ascending(S) ==
    { s \in [1 .. Cardinality(S) -> S] :
        \A a, b \in 1 .. Cardinality(S) : a < b => s[a] < s[b] }

FreeHandles == { h \in Handles : routes[h] = "free" }

\* Mutant: the handles of the old entries are not destroyed.
RoutesWithoutDispose(opened) ==
    [h \in Handles |->
       IF \E at \in DOMAIN opened : opened[at] = h
       THEN LET at == CHOOSE a \in DOMAIN opened : opened[a] = h
            IN  desktop[at[1]][at[2]]
       ELSE routes[h]]

(* The handles once those in opened are acquired for the physical monitors *)
(* they are indexed by, and the old entries are destroyed.                 *)
RoutesAfter(opened) ==
    [h \in Handles |->
       IF \E at \in DOMAIN opened : opened[at] = h
       THEN LET at == CHOOSE a \in DOMAIN opened : opened[a] = h
            IN  desktop[at[1]][at[2]]
       ELSE IF h \in Owned(m_monitors) THEN "free"
       ELSE routes[h]]

\* The physical monitors behind the logical ones in acquired.
Wanted(acquired) == UNION { {i} \X DOMAIN desktop[i] : i \in acquired }

\* The new entries; one whose acquisition failed is listed all the same.
EntriesFor(order, acquired, opened) ==
    [n \in DOMAIN order |->
       IF order[n] \in acquired
       THEN [k \in 1 .. Len(desktop[order[n]]) |-> opened[<<order[n], k>>]]
       ELSE <<>>]

(* The rest of Refresh once EnumDisplayMonitors succeeded.  GetMonitorInfo *)
(* answers for the monitors in informed, AcquireForMonitor for those in    *)
(* acquired; the new handles are open before the old entries, and with     *)
(* them their handles, are destroyed.                                      *)
Rebuild ==
    \E informed \in Answered(DOMAIN desktop) :
      LET listed == { i \in informed : ~InternalGate(i) } IN
      \E acquired \in Answered(listed), order \in Ascending(listed) :
        \E opened \in [Wanted(acquired) -> FreeHandles] :
          /\ \A a, b \in Wanted(acquired) : opened[a] = opened[b] => a = b
          /\ m_monitors' = EntriesFor(order, acquired, opened)
          /\ routes' = RoutesAfter(opened)

Enumerate ==
    /\ refreshing
    /\ refreshing' = FALSE
    /\ targets' = NoTargets
    /\ \/ Rebuild
       \/ CallsFail /\ UNCHANGED <<m_monitors, routes>>
    /\ UNCHANGED <<desktop, panelValue>>

-----------------------------------------------------------------------------
(* Windows: a panel is plugged, unplugged, moved or mirrored, or the       *)
(* machine sleeps and wakes.  Handles on detached panels are dead, others  *)
(* may be too; a panel that comes back has power-on values.                *)
TopologyChange ==
    /\ desktop' \in Layouts
    /\ \E kept \in Answered(Attached(desktop) \cap Attached(desktop')) :
         LET lost == Attached(desktop) \ kept IN
             routes' = [h \in Handles |->
                         IF routes[h] \in lost THEN "gone" ELSE routes[h]]
    /\ LET returning == Attached(desktop') \ Attached(desktop) IN
       \E up \in [returning -> UNION {PowerOn(p) : p \in returning}] :
         /\ \A p \in returning : up[p] \in PowerOn(p)
         /\ panelValue' = [p \in Panels |-> IF p \in returning THEN up[p]
                                            ELSE panelValue[p]]
    /\ UNCHANGED <<targets, refreshing, m_monitors>>

ManagerNext == QueryActiveTargets \/ Enumerate \/ TopologyChange

ManagerSpec ==
    ManagerInit /\ [][ManagerNext]_<<managerVars, routes, panelValue>>

-----------------------------------------------------------------------------
ManagerTypeOK ==
    /\ desktop \in Layouts
    /\ targets.layout \in Layouts \cup {<<>>}
    /\ targets.resolved \subseteq Panels
    /\ refreshing \in BOOLEAN
    /\ m_monitors \in Seq(Seq(Handles))
    /\ routes \in [Handles -> Panels \cup {"free", "gone"}]
    /\ panelValue = [p \in Panels |-> panelValue[p]]
    /\ \A p \in Panels : panelValue[p] \in [Answers[p] -> Registers]

(* The RAII entries own exactly the handles that are open: none leaks when *)
(* a refresh replaces the entries, none is destroyed while still listed,   *)
(* and no two entries would destroy the same one                           *)
(* (MonitorManager.cpp:163-185, PhysicalMonitorHandle.cpp:38-73).          *)
HandlesOwnedOnce ==
    /\ Owned(m_monitors) = { h \in Handles : routes[h] # "free" }
    /\ \A a, b \in Entries(m_monitors) :
         m_monitors[a[1]][a[2]] = m_monitors[b[1]][b[2]] => a = b

(* A logical monitor that no embedded panel shows is never left out,       *)
(* whichever targets and names the query failed to read; one that an       *)
(* embedded panel shows as well is left out only if each of its external   *)
(* panels was missing from the query or stood behind an embedded one with  *)
(* an EDID name (MonitorManager.cpp:128-161).  That a query gap hides no   *)
(* monitor (MonitorManager.h:75-76) is true of the first kind only.  The   *)
(* desktop meant is the one the query saw: a change between it and         *)
(* EnumDisplayMonitors is met by the re-enumeration its WM_DISPLAYCHANGE   *)
(* asks for.                                                               *)
HiddenOnlyIfEmbedded ==
    \A i \in DOMAIN targets.layout : InternalGate(i) =>
        LET shown == targets.layout[i] IN
        /\ \E k \in DOMAIN shown : shown[k] \in Internal
        /\ \A k \in DOMAIN shown :
             \/ shown[k] \in Internal
             \/ shown[k] \notin targets.resolved
             \/ \E j \in Candidates(i) : j < k /\ shown[j] \in Internal \cap Named

(* "EVERY target behind this source reports an embedded panel (a clone of  *)
(* internal+external stays listed)" (MonitorManager.cpp:153-155).          *)
CloneStaysListed ==
    \A i \in DOMAIN targets.layout : InternalGate(i) =>
        \A k \in Candidates(i) : targets.layout[i][k] \in Internal
=============================================================================
