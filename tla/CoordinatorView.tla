--------------------------- MODULE CoordinatorView ---------------------------
(***************************************************************************)
(* What AdjustmentCoordinator promises the UI thread: the channels it      *)
(* lists with their cached percentages, the settings they are scrolled by, *)
(* and an enumeration that replaces them now and then.  There is no mutex, *)
(* no condition variable, no queue of writes and no handle here:           *)
(* AdjustmentCoordinator implements this specification (ImplementsView in  *)
(* CoordinatorRefinement), and SettingsDialog is composed with it.         *)
(*                                                                         *)
(* listed is the length of MonitorManager::Monitors(), which the dialog    *)
(* reads without the coordinator's mutex; stage is what the worker is      *)
(* doing to it.                                                            *)
(***************************************************************************)
EXTENDS CoordinatorApi, Sequences

CONSTANTS
    kDefaultScrollStep, Steps, SliderPositions, ScrollSteps, Scopes,
    ToggledParams,       \* as in AdjustmentCoordinator
    MonitorCounts,       \* how many logical monitors Refresh may list
    ChannelLists         \* the channels an enumeration may come up with

VARIABLES
    m_started, m_ready, m_reenumerateRequested,
    m_channels,          \* Seq of [param, monitorIndex, current]
    m_scope, m_enabled, m_scrollStep,
    listed,
    stage                \* "idle", "refreshing" or "building"

stateVars == <<m_started, m_ready, m_reenumerateRequested>>
settingVars == <<m_scope, m_enabled, m_scrollStep>>
workerVars == <<listed, stage>>
viewVars == <<stateVars, m_channels, settingVars, workerVars>>

ViewInit ==
    /\ m_started = FALSE /\ m_ready = FALSE /\ m_reenumerateRequested = FALSE
    /\ m_channels = <<>>
    /\ m_scope = -1
    /\ m_enabled = [p \in Params |-> p \in ScrolledByDefault]
    /\ m_scrollStep = kDefaultScrollStep
    /\ listed = 0 /\ stage = "idle"

-----------------------------------------------------------------------------
\* A worker is started only when the earlier one has finished.
Start ==
    /\ ~m_started /\ stage = "idle"
    /\ m_started' = TRUE /\ m_ready' = FALSE /\ m_reenumerateRequested' = TRUE
    /\ UNCHANGED <<m_channels, settingVars, workerVars>>

Stop ==
    /\ m_started
    /\ m_started' = FALSE
    /\ UNCHANGED <<m_ready, m_reenumerateRequested, m_channels, settingVars,
                   workerVars>>

RequestReenumerate ==
    /\ m_started
    /\ m_reenumerateRequested' = TRUE
    /\ UNCHANGED <<m_started, m_ready, m_channels, settingVars, workerVars>>

Accepting == m_started /\ m_ready

\* The channels that target maps show its percentage from here on.
Cache(target) ==
    /\ m_channels' = [i \in DOMAIN m_channels |->
                        IF i \in DOMAIN target
                        THEN [m_channels[i] EXCEPT !.current = target[i]]
                        ELSE m_channels[i]]
    /\ UNCHANGED <<stateVars, settingVars, workerVars>>

\* The channels a scroll moves.
Scrolled == UNION { MatchingIn(m_channels, p, m_scope) :
                      p \in {q \in Params : m_enabled[q]} }

AdjustAll(steps) ==
    /\ Accepting
    /\ Cache([i \in Scrolled |->
                Clamp(m_channels[i].current + steps * m_scrollStep)])

AdjustTo(param, value) ==
    /\ Accepting
    /\ Cache([i \in MatchingIn(m_channels, param, m_scope) |-> Clamp(value)])

SetScope(scope) ==
    /\ m_scope' = scope
    /\ UNCHANGED <<stateVars, m_channels, m_enabled, m_scrollStep, workerVars>>

SetParamEnabled(param, enabled) ==
    /\ m_enabled' = [m_enabled EXCEPT ![param] = enabled]
    /\ UNCHANGED <<stateVars, m_channels, m_scope, m_scrollStep, workerVars>>

SetScrollStep(step) ==
    /\ m_scrollStep' = IF step < 1 THEN 1 ELSE step
    /\ UNCHANGED <<stateVars, m_channels, m_scope, m_enabled, workerVars>>

Ready == m_ready
SupportsParam(param, scope) ==
    m_ready /\ MatchingIn(m_channels, param, scope) # {}
GetValue(param, scope) ==
    IF m_ready THEN ValueIn(m_channels, param, scope) ELSE kValueUnsupported

-----------------------------------------------------------------------------
(* The worker, as far as callers can tell.                                 *)

Take ==
    /\ m_started /\ m_reenumerateRequested /\ stage = "idle"
    /\ m_reenumerateRequested' = FALSE /\ stage' = "refreshing"
    /\ UNCHANGED <<m_started, m_ready, m_channels, settingVars, listed>>

Refresh ==
    /\ stage = "refreshing"
    /\ listed' \in MonitorCounts /\ stage' = "building"
    /\ UNCHANGED <<stateVars, m_channels, settingVars>>

\* The new channels are of monitors listed, and come with the callback.
Swap ==
    /\ stage = "building"
    /\ m_channels' \in { channels \in ChannelLists :
                           \A i \in DOMAIN channels :
                              channels[i].monitorIndex \in 0 .. listed - 1 }
    /\ m_ready' = TRUE /\ stage' = "idle"
    /\ UNCHANGED <<m_started, m_reenumerateRequested, settingVars, listed>>

ViewNext ==
    \/ Start \/ Stop \/ RequestReenumerate
    \/ \E steps \in Steps : AdjustAll(steps)
    \/ \E param \in Params, value \in SliderPositions : AdjustTo(param, value)
    \/ \E scope \in Scopes : SetScope(scope)
    \/ \E param \in ToggledParams, enabled \in BOOLEAN :
           SetParamEnabled(param, enabled)
    \/ \E step \in ScrollSteps : SetScrollStep(step)
    \/ Take \/ Refresh \/ Swap

ViewSpec == ViewInit /\ [][ViewNext]_viewVars
=============================================================================
