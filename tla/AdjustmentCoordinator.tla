----------------------- MODULE AdjustmentCoordinator -----------------------
(***************************************************************************)
(* AdjustmentCoordinator (src/src/app/AdjustmentCoordinator.{h,cpp}): a    *)
(* UI thread that calls its API, the worker thread that enumerates and     *)
(* writes, and the mutex and condition variable between them, over the     *)
(* panels and handles of MonitorManager.                                   *)
(*                                                                         *)
(* A step is one critical section of m_mutex, one call out of the worker   *)
(* (refresh, the reads of one panel, one write), or one notification.      *)
(* Critical sections that return before unlocking are single steps; the    *)
(* one that keeps the mutex over a callback (swap, m_onReady) shows in     *)
(* m_mutex.  A most general client issues the API calls.                   *)
(***************************************************************************)
EXTENDS MonitorManager, CoordinatorApi

CONSTANTS
    kDefaultScrollStep,  \* 2 in the build
    Steps,               \* the notch counts a scroll delivers
    SliderPositions,     \* the values sliders and callers pass to AdjustTo
    ScrollSteps,         \* the values passed to SetScrollStep
    Scopes,              \* the values passed to SetScope
    ToggledParams        \* the parameters whose checkbox is touched

ASSUME ClientAssumption ==
    /\ kDefaultScrollStep \in Nat \ {0}
    /\ Steps \subseteq Int /\ SliderPositions \subseteq Int
    /\ ScrollSteps \subseteq Int /\ Scopes \subseteq Int
    /\ ToggledParams \subseteq Params

VARIABLES
    m_started, m_stopping, m_ready, m_reenumerateRequested,
    m_channels,     \* Seq of channels; their exact is a history field: it is
                    \* FALSE while current is a reading the panel gave before
                    \* it had caught up with an earlier write
    m_pending,      \* channel index -> target percent, a partial function
    m_scope, m_enabled, m_scrollStep,
    quiet,          \* kDebounceWindowMs have passed since m_lastInputTime
    m_mutex,        \* "free", or "worker" while it is kept across steps
    worker,         \* where the worker thread is
    caller,         \* where the UI thread is in Stop or RequestReenumerate
    fresh, at,      \* BuildFreshChannels: its result so far, and its place
    batch,          \* the targets the flush has still to write
    entry, left     \* the channel being written and its codes to go

stateVars == <<m_started, m_stopping, m_ready, m_reenumerateRequested>>
settingVars == <<m_scope, m_enabled, m_scrollStep>>
flushVars == <<batch, entry, left>>
vars == <<desktop, targets, refreshing, m_monitors, routes, panelValue,
          m_started, m_stopping, m_ready, m_reenumerateRequested,
          m_channels, m_pending, m_scope, m_enabled, m_scrollStep,
          quiet, m_mutex, worker, caller, fresh, at, batch, entry, left>>

-----------------------------------------------------------------------------
\* singleCodeChannels, and the axes that make up saturation.
CodesOf(param) ==
    CASE param = "Brightness" -> {Brightness}
      [] param = "Contrast"   -> {Contrast}
      [] param = "RedGain"    -> {RedGain}
      [] param = "GreenGain"  -> {GreenGain}
      [] param = "BlueGain"   -> {BlueGain}
      [] param = "Volume"     -> {Volume}
      [] OTHER                -> SaturationAxes

First(codes) == CHOOSE c \in codes : \A d \in codes : c <= d

NoTarget == [i \in {} |-> 0]

\* What notify_one and notify_all do: the worker is the only waiter.
Notified == CASE worker = "idleWait"  -> "idleWake"
              [] worker = "quietWait" -> "quietWake"
              [] OTHER                -> worker

Init ==
    /\ ManagerInit
    /\ m_started = FALSE /\ m_stopping = TRUE
    /\ m_ready = FALSE /\ m_reenumerateRequested = FALSE
    /\ m_channels = <<>> /\ m_pending = NoTarget
    /\ m_scope = -1
    /\ m_enabled = [p \in Params |-> p \in ScrolledByDefault]
    /\ m_scrollStep = kDefaultScrollStep
    /\ quiet = TRUE
    /\ m_mutex = "free" /\ worker = "none" /\ caller = "ready"
    /\ fresh = <<>> /\ at = <<1, 1>>
    /\ batch = NoTarget /\ entry = 0 /\ left = {}

-----------------------------------------------------------------------------
(* The API, on the UI thread.                                              *)

CanCall == caller = "ready" /\ m_mutex = "free"

\* Mutant: the channels of the run before still count as enumerated.
StartStillReady ==
    /\ CanCall /\ ~m_started /\ m_stopping
    /\ m_started' = TRUE /\ m_stopping' = FALSE
    /\ m_reenumerateRequested' = TRUE
    /\ worker' = "entry"
    /\ UNCHANGED <<managerVars, routes, panelValue, m_ready, m_channels,
                   m_pending, settingVars, quiet, m_mutex, caller, fresh, at,
                   flushVars>>

Start ==
    /\ CanCall /\ ~m_started /\ m_stopping
    /\ m_started' = TRUE /\ m_stopping' = FALSE
    /\ m_ready' = FALSE /\ m_reenumerateRequested' = TRUE
    /\ worker' = "entry"
    /\ UNCHANGED <<managerVars, routes, panelValue, m_channels, m_pending,
                   settingVars, quiet, m_mutex, caller, fresh, at, flushVars>>

\* Stop: the section, notify_all after it, and the join.
Stop ==
    /\ CanCall /\ m_started
    /\ m_started' = FALSE /\ m_stopping' = TRUE
    /\ m_pending' = NoTarget
    /\ caller' = "stopping"
    /\ UNCHANGED <<managerVars, routes, panelValue, m_ready,
                   m_reenumerateRequested, m_channels, settingVars, quiet,
                   m_mutex, worker, fresh, at, flushVars>>

RequestReenumerate ==
    /\ CanCall /\ m_started /\ ~m_stopping
    /\ m_reenumerateRequested' = TRUE
    /\ caller' = "notifying"
    /\ UNCHANGED <<managerVars, routes, panelValue, m_started, m_stopping,
                   m_ready, m_channels, m_pending, settingVars, quiet,
                   m_mutex, worker, fresh, at, flushVars>>

\* Mutant: Stop returns without joining.
NotifyAllWithoutJoin ==
    /\ caller \in {"stopping", "notifying"}
    /\ worker' = Notified
    /\ caller' = "ready"
    /\ UNCHANGED <<managerVars, routes, panelValue, stateVars, m_channels,
                   m_pending, settingVars, quiet, m_mutex, fresh, at,
                   flushVars>>

NotifyAll ==
    /\ caller \in {"stopping", "notifying"}
    /\ worker' = Notified
    /\ caller' = IF caller = "stopping" THEN "joining" ELSE "ready"
    /\ UNCHANGED <<managerVars, routes, panelValue, stateVars, m_channels,
                   m_pending, settingVars, quiet, m_mutex, fresh, at,
                   flushVars>>

Join ==
    /\ caller = "joining" /\ worker = "none"
    /\ caller' = "ready"
    /\ UNCHANGED <<managerVars, routes, panelValue, stateVars, m_channels,
                   m_pending, settingVars, quiet, m_mutex, worker, fresh, at,
                   flushVars>>

\* Mutant: a target already queued stays (emplace in place of operator[]).
FirstValueWins(target, moved) ==
    [i \in DOMAIN m_pending \cup moved |->
        IF i \in DOMAIN m_pending THEN m_pending[i] ELSE target[i]]

Requeued(target, moved) ==
    [i \in DOMAIN m_pending \cup moved |->
        IF i \in moved THEN target[i] ELSE m_pending[i]]

(* The loop AdjustAll and AdjustTo share: target maps the channels they    *)
(* select to the new percentages; one already there is left alone, any     *)
(* other replaces what is cached and what is queued.                       *)
Queue(target) ==
    LET moved == { i \in DOMAIN target : target[i] # m_channels[i].current }
    IN  /\ m_channels' =
             [i \in DOMAIN m_channels |->
                IF i \in moved
                THEN [m_channels[i] EXCEPT !.current = target[i],
                                           !.exact = TRUE]
                ELSE m_channels[i]]
        /\ m_pending' = Requeued(target, moved)
        /\ quiet' = (quiet /\ moved = {})
        /\ worker' = IF moved = {} THEN worker ELSE Notified
        /\ UNCHANGED <<managerVars, routes, panelValue, stateVars, settingVars,
                       m_mutex, caller, fresh, at, flushVars>>

Accepting == CanCall /\ m_started /\ ~m_stopping /\ m_ready

AdjustAll(steps) ==
    /\ steps # 0 /\ Accepting
    /\ Queue([i \in {j \in DOMAIN m_channels :
                       /\ m_enabled[m_channels[j].param]
                       /\ InExplicitScope(m_channels[j].monitorIndex, m_scope)}
                |-> Clamp(m_channels[i].current + steps * m_scrollStep)])

\* Mutant: the loop stops at the first channel that matches.
AdjustToFirstMatch(param, value) ==
    /\ Accepting
    /\ LET matches == {j \in DOMAIN m_channels :
                         /\ m_channels[j].param = param
                         /\ InExplicitScope(m_channels[j].monitorIndex, m_scope)}
       IN  Queue([i \in {j \in matches : \A k \in matches : j <= k}
                   |-> Clamp(value)])

AdjustTo(param, value) ==
    /\ Accepting
    /\ Queue([i \in {j \in DOMAIN m_channels :
                       /\ m_channels[j].param = param
                       /\ InExplicitScope(m_channels[j].monitorIndex, m_scope)}
                |-> Clamp(value)])

SetScope(scope) ==
    /\ CanCall
    /\ m_scope' = scope
    /\ UNCHANGED <<managerVars, routes, panelValue, stateVars, m_channels,
                   m_pending, m_enabled, m_scrollStep, quiet, m_mutex, worker,
                   caller, fresh, at, flushVars>>

SetParamEnabled(param, enabled) ==
    /\ CanCall
    /\ m_enabled' = [m_enabled EXCEPT ![param] = enabled]
    /\ UNCHANGED <<managerVars, routes, panelValue, stateVars, m_channels,
                   m_pending, m_scope, m_scrollStep, quiet, m_mutex, worker,
                   caller, fresh, at, flushVars>>

SetScrollStep(step) ==
    /\ CanCall
    /\ m_scrollStep' = IF step < 1 THEN 1 ELSE step
    /\ UNCHANGED <<managerVars, routes, panelValue, stateVars, m_channels,
                   m_pending, m_scope, m_enabled, quiet, m_mutex, worker,
                   caller, fresh, at, flushVars>>

\* SupportsParam and GetValue, the queries of the settings dialog.
SupportsParam(param, scope) ==
    m_ready /\ MatchingIn(m_channels, param, scope) # {}

GetValue(param, scope) ==
    IF m_ready THEN ValueIn(m_channels, param, scope) ELSE kValueUnsupported

-----------------------------------------------------------------------------
(* The worker.                                                             *)

\* The part of the loop body that decides; the mutex is held.
ExitLoop ==
    /\ m_stopping
    /\ worker' = "none"
    /\ UNCHANGED <<m_reenumerateRequested, m_pending, flushVars>>

TakeReenumerate ==
    /\ ~m_stopping /\ m_reenumerateRequested
    /\ m_reenumerateRequested' = FALSE
    /\ worker' = "refresh"
    /\ UNCHANGED <<m_pending, flushVars>>

TakeBatch ==
    /\ ~m_stopping /\ ~m_reenumerateRequested
    /\ batch' = m_pending
    /\ m_pending' = NoTarget
    /\ entry' = 0 /\ left' = {}
    /\ worker' = "write"
    /\ UNCHANGED m_reenumerateRequested

Dispatch == ExitLoop \/ TakeReenumerate \/ TakeBatch

\* Mutants: one of the reasons to wake is forgotten.
WorkToDoNotStopping == m_reenumerateRequested \/ DOMAIN m_pending # {}
WorkToDoNotPending == m_stopping \/ m_reenumerateRequested

\* The predicate of the idle wait.
WorkToDo == m_stopping \/ m_reenumerateRequested \/ DOMAIN m_pending # {}

\* m_cv.wait with its predicate: (go on) waiting, or on to the decision.
IdleWait ==
    \/ WorkToDo /\ Dispatch
    \/ /\ ~WorkToDo
       /\ worker' = "idleWait"
       /\ UNCHANGED <<m_reenumerateRequested, m_pending, flushVars>>

\* m_cv.wait_until: the deadline may have passed already.
QuietWait ==
    /\ worker' = "quietWait"
    /\ UNCHANGED <<m_reenumerateRequested, m_pending, flushVars>>

\* The top of the loop, to the first place where the mutex is released.
LoopTop ==
    \/ m_reenumerateRequested /\ Dispatch
    \/ ~m_reenumerateRequested /\ DOMAIN m_pending = {} /\ IdleWait
    \/ ~m_reenumerateRequested /\ DOMAIN m_pending # {} /\ QuietWait

\* What no wait and no decision of the loop touches.
loopFrame == <<managerVars, routes, panelValue, m_started, m_stopping, m_ready,
               m_channels, settingVars, quiet, caller, fresh, at>>

\* The thread's first lock, and the continue after a wait that was notified.
EnterLoop ==
    /\ worker \in {"entry", "quietWake"} /\ m_mutex = "free"
    /\ LoopTop
    /\ UNCHANGED <<loopFrame, m_mutex>>

IdleWakes ==
    /\ worker = "idleWake" /\ m_mutex = "free"
    /\ IdleWait
    /\ UNCHANGED <<loopFrame, m_mutex>>

\* wait_until's deadline passes; the mutex is locked again one step later.
TimerExpires ==
    /\ worker = "quietWait" /\ quiet
    /\ worker' = "quietTimeout"
    /\ UNCHANGED <<loopFrame, m_mutex, m_reenumerateRequested, m_pending,
                   flushVars>>

QuietEnds ==
    /\ worker = "quietTimeout" /\ m_mutex = "free"
    /\ Dispatch
    /\ UNCHANGED <<loopFrame, m_mutex>>

\* Once its deadline has passed a timed wait returns as timed out.
SpuriousWake ==
    /\ worker = "idleWait" \/ (worker = "quietWait" /\ ~quiet)
    /\ worker' = Notified
    /\ UNCHANGED <<loopFrame, m_mutex, m_reenumerateRequested, m_pending,
                   flushVars>>

-----------------------------------------------------------------------------
(* Re-enumeration: Refresh, BuildFreshChannels one panel at a time, swap.  *)

enumerateFrame == <<stateVars, m_channels, m_pending, settingVars, quiet,
                    m_mutex, caller, flushVars>>

RefreshQueries ==
    /\ worker = "refresh"
    /\ QueryActiveTargets
    /\ UNCHANGED <<enumerateFrame, worker, fresh, at>>

RefreshEnumerates ==
    /\ worker = "refresh"
    /\ Enumerate
    /\ worker' = "build" /\ fresh' = <<>> /\ at' = <<1, 1>>
    /\ UNCHANGED enumerateFrame

\* A read of code c gives what the panel holds.
CaughtUp(h, c) == Register(h, c).replies = Register(h, c).holds

\* Mutant: a channel that is there again keeps the percentage it had.
ChannelOfAsCached(h, index, param, replied) ==
    LET codes == CodesOf(param) \cap replied
        reading == Reading(h, First(codes))
        max == DeviceRange(reading.maximum)
        cached == {m_channels[i].current : i \in {j \in DOMAIN m_channels :
                      /\ m_channels[j].param = param
                      /\ m_channels[j].monitorIndex = index}}
    IN  IF codes = {} THEN <<>>
        ELSE << [monitor |-> h, codes |-> codes, maxValue |-> max,
                 current |-> IF cached = {} THEN Clamp(ToPercent(reading.current, max))
                             ELSE CHOOSE percent \in cached : TRUE,
                 param |-> param, monitorIndex |-> index,
                 exact |-> CaughtUp(h, First(codes))] >>

\* One channel, when any of its codes replied; the baseline is the first's.
ChannelOf(h, index, param, replied) ==
    LET codes == CodesOf(param) \cap replied
        reading == Reading(h, First(codes))
        max == DeviceRange(reading.maximum)
    IN  IF codes = {} THEN <<>>
        ELSE << [monitor |-> h, codes |-> codes, maxValue |-> max,
                 current |-> Clamp(ToPercent(reading.current, max)),
                 param |-> param, monitorIndex |-> index,
                 exact |-> CaughtUp(h, First(codes))] >>

PanelChannels(h, index, replied) ==
    LET Of(param) == ChannelOf(h, index, param, replied)
    IN  Of("Brightness") \o Of("Contrast") \o Of("RedGain") \o Of("GreenGain")
           \o Of("BlueGain") \o Of("Volume") \o Of("Saturation")

\* Mutant: counted per physical monitor.
PhysicalIndex ==
    Cardinality({ e \in Entries(m_monitors) :
                    e[1] < at[1] \/ (e[1] = at[1] /\ e[2] < at[2]) })

\* monitorIndex counts logical monitors, from 0.
MonitorIndex == at[1] - 1

BuildPanel ==
    /\ worker = "build" /\ at[1] <= Len(m_monitors)
    /\ IF at[2] <= Len(m_monitors[at[1]])
       THEN LET h == m_monitors[at[1]][at[2]] IN
            /\ \E replied \in ReplySets(h) :
                 fresh' = fresh \o PanelChannels(h, MonitorIndex, replied)
            /\ at' = <<at[1], at[2] + 1>>
       ELSE at' = <<at[1] + 1, 1>> /\ fresh' = fresh
    /\ UNCHANGED <<enumerateFrame, managerVars, routes, panelValue, worker>>

\* Mutant: the pending targets survive the swap.
SwapKeepingPending ==
    /\ worker = "build" /\ at[1] > Len(m_monitors) /\ m_mutex = "free"
    /\ m_mutex' = "worker"
    /\ m_channels' = fresh
    /\ m_ready' = TRUE
    /\ quiet' = (quiet /\ fresh = <<>>)
    /\ worker' = "onReady" /\ fresh' = <<>> /\ at' = <<1, 1>>
    /\ UNCHANGED <<managerVars, routes, panelValue, m_started, m_stopping,
                   m_reenumerateRequested, m_pending, settingVars, caller,
                   flushVars>>

\* Mutant: the request is taken as served here and not before Refresh.
SwapServingRequest ==
    /\ worker = "build" /\ at[1] > Len(m_monitors) /\ m_mutex = "free"
    /\ m_mutex' = "worker"
    /\ m_channels' = fresh
    /\ m_pending' = NoTarget
    /\ m_ready' = TRUE /\ m_reenumerateRequested' = FALSE
    /\ quiet' = (quiet /\ fresh = <<>>)
    /\ worker' = "onReady" /\ fresh' = <<>> /\ at' = <<1, 1>>
    /\ UNCHANGED <<managerVars, routes, panelValue, m_started, m_stopping,
                   settingVars, caller, flushVars>>

\* The mutex is taken here and still held when m_onReady runs.
Swap ==
    /\ worker = "build" /\ at[1] > Len(m_monitors) /\ m_mutex = "free"
    /\ m_mutex' = "worker"
    /\ m_channels' = fresh
    /\ m_pending' = NoTarget
    /\ m_ready' = TRUE
    /\ quiet' = (quiet /\ fresh = <<>>)
    /\ worker' = "onReady" /\ fresh' = <<>> /\ at' = <<1, 1>>
    /\ UNCHANGED <<managerVars, routes, panelValue, m_started, m_stopping,
                   m_reenumerateRequested, settingVars, caller, flushVars>>

OnReady ==
    /\ worker = "onReady"
    /\ m_mutex' = "free"
    /\ LoopTop
    /\ UNCHANGED loopFrame

-----------------------------------------------------------------------------
(* The flush: every code of every channel in the batch, mutex released.    *)

writeFrame == <<managerVars, routes, stateVars, m_channels, m_pending,
                settingVars, quiet, m_mutex, caller, fresh, at>>

\* The batch is an unordered_map: its entries come in any order.
BeginEntry ==
    /\ worker = "write" /\ entry = 0
    /\ \E i \in DOMAIN batch : entry' = i /\ left' = m_channels[i].codes
    /\ UNCHANGED <<writeFrame, panelValue, worker, batch>>

\* Mutant: the percentage goes to the panel unscaled.
UnscaledTarget == Clamp(batch[entry])

RawTarget == ToRaw(Clamp(batch[entry]), m_channels[entry].maxValue)

\* Mutant: the entry is over after its first code.
CodeEndsEntry ==
    /\ worker' = "write"
    /\ left' = {} /\ entry' = 0
    /\ batch' = [i \in DOMAIN batch \ {entry} |-> batch[i]]

\* The code is dealt with; after an entry's last one the entry is.
CodeDone ==
    /\ worker' = "write"
    /\ left' = left \ {First(left)}
    /\ IF left' = {}
       THEN /\ entry' = 0
            /\ batch' = [i \in DOMAIN batch \ {entry} |-> batch[i]]
       ELSE UNCHANGED <<entry, batch>>

Write ==
    /\ worker = "write" /\ entry # 0
    /\ LET h == m_channels[entry].monitor
           c == First(left)
       IN  \/ WriteSucceeds(h, c, RawTarget) /\ CodeDone
           \/ /\ WriteFails(h, c, RawTarget)
              /\ \E error \in Errors :
                   IF Classify(error) = "Transient"
                   THEN worker' = "retry" /\ UNCHANGED flushVars
                   ELSE CodeDone
    /\ UNCHANGED writeFrame

Retry ==
    /\ worker = "retry"
    /\ LET h == m_channels[entry].monitor
           c == First(left)
       IN  WriteSucceeds(h, c, RawTarget) \/ WriteFails(h, c, RawTarget)
    /\ CodeDone
    /\ UNCHANGED writeFrame

FlushDone ==
    /\ worker = "write" /\ entry = 0 /\ DOMAIN batch = {} /\ m_mutex = "free"
    /\ LoopTop
    /\ UNCHANGED <<loopFrame, m_mutex>>

-----------------------------------------------------------------------------
\* A quiet window passes since the last input.
QuietElapses ==
    /\ ~quiet
    /\ quiet' = TRUE
    /\ UNCHANGED <<managerVars, routes, panelValue, stateVars, m_channels,
                   m_pending, settingVars, m_mutex, worker, caller, fresh, at,
                   flushVars>>

Desktop ==
    /\ TopologyChange
    /\ UNCHANGED <<enumerateFrame, worker, fresh, at>>

PanelSettles ==
    /\ PanelCatchesUp
    /\ UNCHANGED <<enumerateFrame, managerVars, routes, worker, fresh, at>>

Input == \/ \E steps \in Steps : AdjustAll(steps)
         \/ \E param \in Params, value \in SliderPositions :
                AdjustTo(param, value)

Setting == \/ \E scope \in Scopes : SetScope(scope)
           \/ \E param \in ToggledParams, enabled \in BOOLEAN :
                  SetParamEnabled(param, enabled)
           \/ \E step \in ScrollSteps : SetScrollStep(step)

Lifecycle == Start \/ Stop \/ RequestReenumerate

\* The rest of a call the UI thread has begun.
Caller == NotifyAll \/ Join

Waking == EnterLoop \/ IdleWakes \/ TimerExpires \/ QuietEnds
Enumeration == RefreshQueries \/ RefreshEnumerates \/ BuildPanel \/ Swap
                  \/ OnReady
Flush == BeginEntry \/ Write \/ Retry \/ FlushDone
Worker == Waking \/ Enumeration \/ Flush

Next == \/ Input \/ Setting \/ Lifecycle \/ Caller
        \/ Worker \/ SpuriousWake
        \/ QuietElapses \/ Desktop \/ PanelSettles

Spec == Init /\ [][Next]_vars

(* The worker thread is scheduled and its system calls return; the UI      *)
(* thread finishes the call it is in; time passes.  Nothing obliges users  *)
(* or Windows to do anything.                                              *)
FairSpec == /\ Spec
            /\ WF_vars(Worker) /\ WF_vars(Caller) /\ WF_vars(QuietElapses)

-----------------------------------------------------------------------------
Percent == 0 .. 100

ChannelType ==
    [monitor : Handles, codes : (SUBSET Codes) \ {{}}, maxValue : Nat \ {0},
     current : Percent, param : Params, monitorIndex : Nat,
     exact : BOOLEAN]

TypeOK ==
    /\ ManagerTypeOK
    /\ m_started \in BOOLEAN /\ m_stopping \in BOOLEAN
    /\ m_started # m_stopping
    /\ m_ready \in BOOLEAN /\ m_reenumerateRequested \in BOOLEAN
    /\ m_channels \in Seq(ChannelType) /\ fresh \in Seq(ChannelType)
    /\ m_scope \in Int /\ m_enabled \in [Params -> BOOLEAN]
    /\ m_scrollStep \in Nat \ {0}
    /\ quiet \in BOOLEAN
    /\ m_mutex = IF worker = "onReady" THEN "worker" ELSE "free"
    /\ worker \in {"none", "entry", "idleWait", "idleWake", "quietWait",
                   "quietWake", "quietTimeout", "refresh", "build", "onReady",
                   "write", "retry"}
    /\ caller \in {"ready", "notifying", "stopping", "joining"}
    /\ at \in (Nat \ {0}) \X (Nat \ {0})
    /\ m_pending \in [DOMAIN m_pending -> Percent]
    /\ batch \in [DOMAIN batch -> Percent]
    /\ left \subseteq Codes

(* Start never finds an earlier worker still running (assigning to a       *)
(* joinable std::thread terminates the process), and a started coordinator *)
(* never lacks one (AdjustmentCoordinator.cpp:53-74, 109-131, 451-454).    *)
OneWorker ==
    /\ ~m_started /\ caller = "ready" => worker = "none"
    /\ m_started => worker # "none"
    /\ caller \in {"stopping", "joining"} => ~m_started
    /\ caller = "notifying" => m_started

(* Every queued or in-flight target names a channel of the current set:    *)
(* the flush indexes m_channels unlocked and unchecked                     *)
(* (AdjustmentCoordinator.cpp:468-469, 494).                               *)
TargetsNameChannels ==
    /\ DOMAIN m_pending \subseteq DOMAIN m_channels
    /\ DOMAIN batch \subseteq DOMAIN m_channels
    /\ entry # 0 => entry \in DOMAIN batch
    /\ entry # 0 <=> left # {}
    /\ worker \notin {"write", "retry"} => DOMAIN batch = {} /\ entry = 0
    /\ worker = "retry" => entry # 0

(* Last value wins: what is queued for a channel, or being written with    *)
(* nothing newer queued, is the value the dialog shows for it              *)
(* (AdjustmentCoordinator.cpp:165-169, 203-204, 489; h:40).                *)
LastValueWins ==
    m_started =>
        /\ \A i \in DOMAIN m_pending : m_pending[i] = m_channels[i].current
        /\ \A i \in DOMAIN batch \ DOMAIN m_pending :
               batch[i] = m_channels[i].current

\* The handle a channel borrows is one of those its monitorIndex owns.
Borrows(ch) ==
    /\ ch.monitorIndex + 1 \in DOMAIN m_monitors
    /\ \E k \in DOMAIN m_monitors[ch.monitorIndex + 1] :
           m_monitors[ch.monitorIndex + 1][k] = ch.monitor

(* Except while the worker itself rebuilds the set, every channel borrows  *)
(* a handle that MonitorManager still owns, and its monitorIndex is that   *)
(* of the owner in Monitors(): a write never goes through a destroyed      *)
(* handle, and a scope means the monitor the dialog lists at that index    *)
(* (AdjustmentCoordinator.h:53-59, cpp:340-405).                           *)
ChannelsMatchMonitors ==
    worker # "build" => \A i \in DOMAIN m_channels : Borrows(m_channels[i])

\* The percentage is what the channel's first code holds.
ShowsFirst(ch) ==
    ch.current = Clamp(ToPercent(Register(ch.monitor, First(ch.codes)).holds,
                                 ch.maxValue))

Shows(ch) ==
    \/ ShowsFirst(ch)
    \/ \A c \in ch.codes : Reliable(ch.monitor, c) =>
          Register(ch.monitor, c).holds = ToRaw(ch.current, ch.maxValue)

(* Once nothing is queued or in flight for a channel whose panel is still  *)
(* there, the cached percentage the dialog shows is what the panel holds:  *)
(* its enumeration baseline, or the last target on every axis that works.  *)
(* Only a baseline read before the panel had caught up with a write may be *)
(* wrong, and only until the channel is next moved                         *)
(* (AdjustmentCoordinator.cpp:165-169, 366, 389, 492-516).                 *)
SettledAgreement ==
    m_started /\ m_ready /\ worker # "build" =>
        \A i \in DOMAIN m_channels \ (DOMAIN m_pending \cup DOMAIN batch) :
            Routed(m_channels[i].monitor) =>
                ~m_channels[i].exact \/ Shows(m_channels[i])

(* Whatever the writes before it did, also those that failed for good and  *)
(* left their target in the cache, an enumeration shows what a panel holds *)
(* that had caught up with the last write when it was read; right after a  *)
(* write it may not have (AdjustmentCoordinator.cpp:160, 366, 389,         *)
(* 464-476, 503-504).                                                      *)
EnumerationHeals ==
    worker = "onReady" =>
        \A i \in DOMAIN m_channels :
            Routed(m_channels[i].monitor) /\ m_channels[i].exact =>
                ShowsFirst(m_channels[i])

(* One failing or unsupported axis never aborts the others: an entry       *)
(* leaves the batch only when every working code of its channel holds its  *)
(* target (AdjustmentCoordinator.h:41-42, cpp:499-515).                    *)
FanOutReachesEveryAxis ==
    [][ \A i \in DOMAIN batch \ DOMAIN batch' :
          \A c \in m_channels[i].codes :
            Reliable(m_channels[i].monitor, c) =>
              panelValue'[routes[m_channels[i].monitor]][c].holds
                 = ToRaw(batch[i], m_channels[i].maxValue) ]_vars

(* A slider reads back what it was set to: through the same scope the      *)
(* dialog queries with, whatever the scroll checkboxes say                 *)
(* (AdjustmentCoordinator.h:127-130, cpp:180-213, 289-315).                *)
SliderReadsBack ==
    [][ \A param \in Params, value \in SliderPositions :
          AdjustTo(param, value) =>
            GetValue(param, m_scope)' \in {Clamp(value), kValueUnsupported}
      ]_vars

(* A re-enumeration request is answered by an enumeration that begins      *)
(* after it, unless Stop comes first, and each enumeration begun ends with *)
(* its callback.  One already under way when the request comes is no       *)
(* answer; no wakeup is lost, though the flag is set in the section and    *)
(* notified outside it (AdjustmentCoordinator.cpp:251-264, 432-436,        *)
(* 456-482).                                                               *)
RequestServed ==
    /\ m_started /\ m_reenumerateRequested ~>
           \/ ~m_started
           \/ worker = "refresh" /\ ~refreshing /\ ~m_reenumerateRequested
    /\ worker = "refresh" ~> worker = "onReady"

(* Stop comes back: the worker it joins sees the flag wherever it is       *)
(* (AdjustmentCoordinator.cpp:109-131).                                    *)
StopReturns == caller = "stopping" ~> caller = "ready"

(* When the input stops, everything queued is written out, or dropped by a *)
(* re-enumeration or Stop (AdjustmentCoordinator.cpp:438-448, 485-518).    *)
InputDrains ==
    <>[][~Input]_vars => <>[](DOMAIN m_pending = {} /\ DOMAIN batch = {})

(* "Quiet time that must elapse after the latest input before pending      *)
(* targets flush to hardware" (AdjustmentCoordinator.h:73-75).             *)
FlushOnlyWhenQuiet ==
    [][DOMAIN batch = {} /\ DOMAIN batch' # {} => quiet]_vars

(* "Outside the lock; App marshals to the UI thread itself."               *)
(* (AdjustmentCoordinator.cpp:479).                                        *)
OnReadyOutsideLock == worker = "onReady" => m_mutex = "free"
=============================================================================
