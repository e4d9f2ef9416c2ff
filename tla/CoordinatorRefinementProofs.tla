-------------------- MODULE CoordinatorRefinementProofs --------------------
(***************************************************************************)
(* AdjustmentCoordinator implements CoordinatorView for every set of       *)
(* panels, handles, layouts, faults and client inputs: what the dialog is  *)
(* checked against is what the coordinator does.  One lemma per kind of    *)
(* step; HandleInv is needed by the swap alone, whose channels must be of  *)
(* monitors that are listed.                                               *)
(***************************************************************************)
EXTENDS CoordinatorRefinement, AdjustmentCoordinatorProofs

\* What a step that no caller can see leaves alone.
Unseen == <<m_started, m_ready, m_reenumerateRequested, m_channels, m_scope,
            m_enabled, m_scrollStep, m_monitors, Stage>>

LEMMA Stutters == ASSUME UNCHANGED Unseen PROVE UNCHANGED View!viewVars
<1>1. Shown' = Shown BY DEF Unseen, Shown
<1>2. QED
  BY <1>1
  DEF Unseen, View!viewVars, View!stateVars, View!settingVars,
      View!workerVars

\* A waiter that is notified stays out of the enumeration.
LEMMA NotifiedStage == ASSUME worker' = Notified PROVE Stage' = Stage
BY DEF Notified, Stage

LEMMA ViewInitially == Init => View!ViewInit
BY DEF Init, ManagerInit, View!ViewInit, Shown, Stage, View!ScrolledByDefault,
       ScrolledByDefault, View!Params, Params

LEMMA ViewStart == ASSUME IInv, Start PROVE View!Start
<1>1. worker = "none" BY DEF IInv, OneWorker, Start, CanCall
<1>2. Stage = "idle" /\ Stage' = "idle" BY <1>1 DEF Start, Stage
<1>3. Shown' = Shown BY DEF Start, Shown
<1>4. QED
  BY <1>2, <1>3
  DEF Start, View!Start, View!settingVars, View!workerVars, settingVars,
      managerVars

LEMMA ViewStop == ASSUME Stop PROVE View!Stop
<1>1. Shown' = Shown /\ Stage' = Stage BY DEF Stop, Shown, Stage
<1>2. QED
  BY <1>1
  DEF Stop, View!Stop, View!settingVars, View!workerVars, settingVars,
      managerVars

LEMMA ViewRequest == ASSUME RequestReenumerate PROVE View!RequestReenumerate
<1>1. Shown' = Shown /\ Stage' = Stage BY DEF RequestReenumerate, Shown, Stage
<1>2. QED
  BY <1>1
  DEF RequestReenumerate, View!RequestReenumerate, View!settingVars,
      View!workerVars, settingVars, managerVars

LEMMA ViewSetting == ASSUME Setting PROVE View!ViewNext
<1>1. Shown' = Shown /\ Stage' = Stage
  BY DEF Setting, SetScope, SetParamEnabled, SetScrollStep, Shown, Stage
<1>2. UNCHANGED <<m_started, m_ready, m_reenumerateRequested, m_monitors>>
  BY DEF Setting, SetScope, SetParamEnabled, SetScrollStep, stateVars,
         managerVars
<1>3. CASE \E scope \in Scopes : SetScope(scope)
  <2>1. PICK scope \in Scopes : SetScope(scope) BY <1>3
  <2>2. View!SetScope(scope)
    BY <1>1, <1>2, <2>1
    DEF SetScope, View!SetScope, View!stateVars, View!workerVars
  <2>3. QED BY <2>2 DEF View!ViewNext
<1>4. CASE \E param \in ToggledParams, enabled \in BOOLEAN :
              SetParamEnabled(param, enabled)
  <2>1. PICK param \in ToggledParams, enabled \in BOOLEAN :
           SetParamEnabled(param, enabled)
    BY <1>4
  <2>2. View!SetParamEnabled(param, enabled)
    BY <1>1, <1>2, <2>1
    DEF SetParamEnabled, View!SetParamEnabled, View!stateVars,
        View!workerVars
  <2>3. QED BY <2>2 DEF View!ViewNext
<1>5. CASE \E step \in ScrollSteps : SetScrollStep(step)
  <2>1. PICK step \in ScrollSteps : SetScrollStep(step) BY <1>5
  <2>2. View!SetScrollStep(step)
    BY <1>1, <1>2, <2>1
    DEF SetScrollStep, View!SetScrollStep, View!stateVars, View!workerVars
  <2>3. QED BY <2>2 DEF View!ViewNext
<1>6. QED BY <1>3, <1>4, <1>5 DEF Setting

-----------------------------------------------------------------------------
\* Queueing targets for channels is caching them, as far as callers can see.
LEMMA ViewQueue ==
    ASSUME IInv, NEW target, DOMAIN target \subseteq DOMAIN m_channels,
           Queue(target)
    PROVE  View!Cache(target)
<1> DEFINE moved == {i \in DOMAIN target : target[i] # m_channels[i].current}
<1>1. m_channels' = [i \in DOMAIN m_channels |->
                       IF i \in moved
                       THEN [m_channels[i] EXCEPT !.current = target[i],
                                                  !.exact = TRUE]
                       ELSE m_channels[i]]
  BY DEF Queue
<1>2. \A i \in DOMAIN m_channels : m_channels[i] \in ChannelType
  BY ElementOfSeq DEF IInv, TypeOK
<1>3. \A i \in DOMAIN m_channels :
        /\ m_channels'[i].param = m_channels[i].param
        /\ m_channels'[i].monitorIndex = m_channels[i].monitorIndex
        /\ m_channels'[i].current = IF i \in DOMAIN target THEN target[i]
                                    ELSE m_channels[i].current
  <2> TAKE i \in DOMAIN m_channels
  <2>1. CASE i \in moved
    <3>1. m_channels'[i] = [m_channels[i] EXCEPT !.current = target[i],
                                                 !.exact = TRUE]
      BY <1>1, <2>1
    <3>2. m_channels[i] \in ChannelType BY <1>2
    <3>3. i \in DOMAIN target BY <2>1
    <3>4. QED BY <3>1, <3>2, <3>3 DEF ChannelType
  <2>2. CASE i \notin moved BY <1>1, <2>2
  <2>3. QED BY <2>1, <2>2
<1>4. DOMAIN m_channels' = DOMAIN m_channels BY <1>1
<1> HIDE DEF moved
<1>5. Shown' = [i \in DOMAIN Shown |->
                  IF i \in DOMAIN target
                  THEN [Shown[i] EXCEPT !.current = target[i]]
                  ELSE Shown[i]]
  BY <1>3, <1>4 DEF Shown
<1>6. UNCHANGED <<m_started, m_ready, m_reenumerateRequested, m_scope,
                  m_enabled, m_scrollStep, m_monitors>>
  BY DEF Queue, stateVars, settingVars, managerVars
<1>7. Stage' = Stage
  <2>1. worker' = worker \/ worker' = Notified BY DEF Queue
  <2>2. QED BY <2>1, NotifiedStage DEF Stage
<1>8. QED
  BY <1>5, <1>6, <1>7
  DEF View!Cache, View!stateVars, View!settingVars, View!workerVars

LEMMA ViewAdjustAll ==
    ASSUME IInv, NEW steps \in Steps, AdjustAll(steps)
    PROVE  View!AdjustAll(steps)
<1> DEFINE selected == {j \in DOMAIN m_channels :
               /\ m_enabled[m_channels[j].param]
               /\ InExplicitScope(m_channels[j].monitorIndex, m_scope)}
           target == [i \in selected |->
                        Clamp(m_channels[i].current + steps * m_scrollStep)]
<1>1. Queue(target) /\ m_started /\ m_ready BY DEF AdjustAll, Accepting
<1>2. \A i \in DOMAIN m_channels : m_channels[i] \in ChannelType
  BY ElementOfSeq DEF IInv, TypeOK
<1>3. View!Scrolled = selected
  <2>1. \A i : i \in View!Scrolled <=>
          \E p \in Params : m_enabled[p] /\ i \in View!MatchingIn(Shown, p, m_scope)
    BY DEF View!Scrolled, View!Params, Params
  <2>2. \A i, p : i \in View!MatchingIn(Shown, p, m_scope) <=>
          /\ i \in DOMAIN m_channels /\ m_channels[i].param = p
          /\ InExplicitScope(m_channels[i].monitorIndex, m_scope)
    BY DEF View!MatchingIn, View!InExplicitScope, InExplicitScope, Shown
  <2>3. \A i \in DOMAIN m_channels : m_channels[i].param \in Params
    BY <1>2 DEF ChannelType
  <2>4. \A i : i \in View!Scrolled <=> i \in selected BY <2>1, <2>2, <2>3
  <2>5. QED BY <2>4
<1>4. target = [i \in View!Scrolled |->
                  View!Clamp(Shown[i].current + steps * m_scrollStep)]
  BY <1>3 DEF View!Clamp, Clamp, Shown
<1>5. View!Cache(target)
  <2>1. DOMAIN target \subseteq DOMAIN m_channels OBVIOUS
  <2> HIDE DEF target
  <2>2. QED BY <1>1, <2>1, ViewQueue
<1>6. QED BY <1>1, <1>4, <1>5 DEF View!AdjustAll, View!Accepting

LEMMA ViewAdjustTo ==
    ASSUME IInv, NEW param \in Params, NEW value \in SliderPositions,
           AdjustTo(param, value)
    PROVE  View!AdjustTo(param, value)
<1> DEFINE matching == {j \in DOMAIN m_channels :
               /\ m_channels[j].param = param
               /\ InExplicitScope(m_channels[j].monitorIndex, m_scope)}
           target == [i \in matching |-> Clamp(value)]
<1>1. Queue(target) /\ m_started /\ m_ready BY DEF AdjustTo, Accepting
<1>2. View!MatchingIn(Shown, param, m_scope) = matching
  BY DEF View!MatchingIn, View!InExplicitScope, InExplicitScope, Shown
<1>3. target = [i \in View!MatchingIn(Shown, param, m_scope) |->
                  View!Clamp(value)]
  BY <1>2 DEF View!Clamp, Clamp
<1>4. View!Cache(target)
  <2>1. DOMAIN target \subseteq DOMAIN m_channels OBVIOUS
  <2> HIDE DEF target
  <2>2. QED BY <1>1, <2>1, ViewQueue
<1>5. QED BY <1>1, <1>3, <1>4 DEF View!AdjustTo, View!Accepting

LEMMA ViewInput == ASSUME IInv, Input PROVE View!ViewNext
<1>1. CASE \E steps \in Steps : AdjustAll(steps)
  BY <1>1, ViewAdjustAll DEF View!ViewNext
<1>2. CASE \E param \in Params, value \in SliderPositions :
              AdjustTo(param, value)
  <2>1. View!Params = Params BY DEF View!Params, Params
  <2>2. QED BY <1>2, <2>1, ViewAdjustTo DEF View!ViewNext
<1>3. QED BY <1>1, <1>2 DEF Input

-----------------------------------------------------------------------------
\* A decision of the loop shows only when it takes a request.
LEMMA ViewDecision ==
    ASSUME IInv, worker \notin {"refresh", "build"},
           LoopTop \/ IdleWait \/ Dispatch, UNCHANGED loopFrame
    PROVE  View!Take \/ UNCHANGED View!viewVars
<1>1. UNCHANGED <<m_started, m_stopping, m_ready, m_channels, m_scope,
                  m_enabled, m_scrollStep, m_monitors>>
  BY DEF loopFrame, settingVars, managerVars
<1>2. Stage = "idle" BY DEF Stage
<1>3. CASE TakeReenumerate
  <2>1. m_started BY <1>3 DEF IInv, TypeOK, TakeReenumerate
  <2>2. Stage' = "refreshing" BY <1>3 DEF TakeReenumerate, Stage
  <2>3. Shown' = Shown BY <1>1 DEF Shown
  <2>4. View!Take
    BY <1>1, <1>2, <1>3, <2>1, <2>2, <2>3
    DEF TakeReenumerate, View!Take, View!settingVars
  <2>5. QED BY <2>4
<1>4. CASE /\ worker' \in {"none", "write", "idleWait", "quietWait"}
           /\ m_reenumerateRequested' = m_reenumerateRequested
  <2>1. Stage' = "idle" BY <1>4 DEF Stage
  <2>2. UNCHANGED Unseen BY <1>1, <1>2, <1>4, <2>1 DEF Unseen
  <2>3. QED BY <2>2, Stutters
<1>5. CASE ExitLoop BY <1>4, <1>5 DEF ExitLoop
<1>6. CASE TakeBatch BY <1>4, <1>6 DEF TakeBatch
<1>7. CASE IdleWait /\ ~Dispatch BY <1>4, <1>7 DEF IdleWait
<1>8. CASE QuietWait BY <1>4, <1>8 DEF QuietWait
<1>9. QED
  BY <1>3, <1>5, <1>6, <1>7, <1>8, Zenon
  DEF LoopTop, IdleWait, Dispatch

LEMMA ViewRefresh ==
    ASSUME IInv, IInv', RefreshEnumerates PROVE View!Refresh
<1>1. Len(m_monitors') \in Nat BY DEF IInv, TypeOK, ManagerTypeOK
<1>2. Stage = "refreshing" /\ Stage' = "building"
  BY DEF RefreshEnumerates, Stage
<1>3. UNCHANGED <<m_started, m_ready, m_reenumerateRequested, m_channels,
                  m_scope, m_enabled, m_scrollStep>>
  BY DEF RefreshEnumerates, enumerateFrame, stateVars, settingVars
<1>4. Shown' = Shown BY <1>3 DEF Shown
<1>5. QED
  BY <1>1, <1>2, <1>3, <1>4
  DEF View!Refresh, View!stateVars, View!settingVars

LEMMA ViewSwap == ASSUME IInv, HandleInv, Swap PROVE View!Swap
<1> DEFINE Listed == [param : Params, monitorIndex : Nat, current : Percent]
<1>1. m_channels' = fresh /\ fresh \in Seq(ChannelType)
        /\ DOMAIN fresh = 1 .. Len(fresh) /\ Len(fresh) \in Nat
  BY DEF Swap, IInv, TypeOK
<1>2. \A i \in DOMAIN fresh : fresh[i] \in ChannelType BY <1>1, ElementOfSeq
<1>3. Shown' = [i \in 1 .. Len(fresh) |->
                  [param |-> fresh[i].param, current |-> fresh[i].current,
                   monitorIndex |-> fresh[i].monitorIndex]]
  BY <1>1 DEF Shown
<1>4. \A i \in 1 .. Len(fresh) :
        [param |-> fresh[i].param, current |-> fresh[i].current,
         monitorIndex |-> fresh[i].monitorIndex] \in Listed
  BY <1>1, <1>2 DEF ChannelType
<1>5. Shown' \in Seq(Listed)
  <2> HIDE DEF Listed
  <2>1. Shown' \in [1 .. Len(fresh) -> Listed] BY <1>3, <1>4
  <2>2. QED BY <1>1, <2>1
<1>6. \A i \in DOMAIN Shown' :
        Shown'[i].monitorIndex \in 0 .. Len(m_monitors) - 1
  <2> TAKE i \in DOMAIN Shown'
  <2>1. i \in DOMAIN fresh /\ Shown'[i].monitorIndex = fresh[i].monitorIndex
    BY <1>1, <1>3
  <2>2. fresh[i].monitorIndex \in Nat BY <1>2, <2>1 DEF ChannelType
  <2>3. fresh[i].monitorIndex + 1 \in DOMAIN m_monitors
    BY <2>1 DEF HandleInv, FreshMatches, Borrows
  <2>4. m_monitors \in Seq(Seq(Handles)) BY DEF IInv, TypeOK, ManagerTypeOK
  <2>5. QED BY <2>1, <2>2, <2>3, <2>4
<1>7. Stage = "building" /\ Stage' = "idle" BY DEF Swap, Stage
<1>8. UNCHANGED <<m_started, m_reenumerateRequested, m_scope, m_enabled,
                  m_scrollStep, m_monitors>> /\ m_ready' = TRUE
  BY DEF Swap, settingVars, managerVars
<1>9. QED
  BY <1>5, <1>6, <1>7, <1>8 DEF View!Swap, View!settingVars, View!Params, Params,
      Percent

-----------------------------------------------------------------------------
LEMMA ViewStep ==
    IInv /\ HandleInv /\ IInv' /\ [Next]_vars => [View!ViewNext]_View!viewVars
<1> SUFFICES ASSUME IInv, HandleInv, IInv', [Next]_vars
             PROVE  [View!ViewNext]_View!viewVars
  OBVIOUS
<1>1. CASE Input BY <1>1, ViewInput
<1>2. CASE Setting BY <1>2, ViewSetting
<1>3. CASE Lifecycle
  BY <1>3, ViewStart, ViewStop, ViewRequest DEF Lifecycle, View!ViewNext
<1>4. CASE EnterLoop \/ IdleWakes \/ QuietEnds \/ FlushDone \/ OnReady
  <2>1. worker \notin {"refresh", "build"}
    BY <1>4 DEF EnterLoop, IdleWakes, QuietEnds, FlushDone, OnReady
  <2>2. LoopTop \/ IdleWait \/ Dispatch
    BY <1>4, Zenon DEF EnterLoop, IdleWakes, QuietEnds, FlushDone, OnReady
  <2>3. UNCHANGED loopFrame
    BY <1>4, Zenon DEF EnterLoop, IdleWakes, QuietEnds, FlushDone, OnReady
  <2>4. QED BY <2>1, <2>2, <2>3, ViewDecision DEF View!ViewNext
<1>5. CASE RefreshEnumerates BY <1>5, ViewRefresh DEF View!ViewNext
<1>6. CASE Swap BY <1>6, ViewSwap DEF View!ViewNext
<1>7. CASE Caller \/ SpuriousWake \/ TimerExpires
  <2>1. UNCHANGED <<m_started, m_ready, m_reenumerateRequested, m_channels,
                    m_scope, m_enabled, m_scrollStep, m_monitors>>
    BY <1>7
    DEF Caller, NotifyAll, Join, SpuriousWake, TimerExpires, loopFrame,
        stateVars, settingVars, managerVars
  <2>2. \/ worker' = Notified \/ worker' = worker
        \/ worker = "quietWait" /\ worker' = "quietTimeout"
    BY <1>7 DEF Caller, NotifyAll, Join, SpuriousWake, TimerExpires
  <2>3. Stage' = Stage BY <2>2, NotifiedStage DEF Stage
  <2>4. QED BY <2>1, <2>3, Stutters DEF Unseen
<1>8. CASE \/ RefreshQueries \/ BuildPanel \/ BeginEntry \/ QuietElapses
           \/ Desktop \/ PanelSettles \/ UNCHANGED vars
  <2>1. UNCHANGED <<m_started, m_ready, m_reenumerateRequested, m_channels,
                    m_scope, m_enabled, m_scrollStep, m_monitors, worker>>
    BY <1>8
    DEF RefreshQueries, QueryActiveTargets, BuildPanel, BeginEntry,
        QuietElapses, Desktop, TopologyChange, PanelSettles, enumerateFrame,
        writeFrame, stateVars, settingVars, managerVars, vars
  <2>2. QED BY <2>1, Stutters DEF Unseen, Stage
<1>9. CASE Write \/ Retry
  <2>1. UNCHANGED <<m_started, m_ready, m_reenumerateRequested, m_channels,
                    m_scope, m_enabled, m_scrollStep, m_monitors>>
    BY <1>9
    DEF Write, Retry, writeFrame, stateVars, settingVars, managerVars
  <2>2. worker \in {"write", "retry"} /\ worker' \in {"write", "retry"}
    BY <1>9, Zenon DEF Write, Retry, CodeDone
  <2>3. Stage' = Stage BY <2>2 DEF Stage
  <2>4. QED BY <2>1, <2>3, Stutters DEF Unseen
<1>10. QED
  BY <1>1, <1>2, <1>3, <1>4, <1>5, <1>6, <1>7, <1>8, <1>9, Zenon
  DEF Next, Worker, Waking, Enumeration, Flush

(* What the UI thread sees of the coordinator, whatever the worker, the    *)
(* panels and Windows do, is what CoordinatorView promises: cached values  *)
(* change only by its own calls and by a swap that follows a refresh, the  *)
(* swap brings channels of listed monitors only, and a new worker follows  *)
(* only a finished one (AdjustmentCoordinator.cpp:49-131, 133-213,         *)
(* 340-405, 456-482).                                                      *)
THEOREM CoordinatorImplementsView == Spec => ImplementsView
<1>1. Init => View!ViewInit BY ViewInitially
<1>2. IInv /\ HandleInv /\ IInv' /\ [Next]_vars
        => [View!ViewNext]_View!viewVars
  BY ViewStep
<1>3. QED
  BY <1>1, <1>2, HandleSafe, PTL DEF Spec, ImplementsView, View!ViewSpec
=============================================================================
