# LiteDDC in TLA+

LiteDDC is a Windows tray program that sets brightness, contrast, colour and volume of
external monitors over DDC/CI. This directory models the part of it where mistakes are hard
to see and hard to test: a UI thread that never blocks, a worker thread that does nothing
else, monitors that come and go, a shell and a GPU driver that may fail at any call, and
settings that must survive all of it. TLC checks the models on small instances; TLAPS proves
the main safety properties for every value of the constants.

Source paths are relative to `src/src/`. `PROJECT.json` maps every definition to
its lines.

## 1. The system

### Components

| Component | State | Operations | Talks to |
|---|---|---|---|
| **AdjustmentCoordinator** (`app/`) | channels with cached percentages, pending targets, scope, enabled flags, scroll step, started / stopping / ready / request flags, one mutex, one condition variable, one thread | `Start`, `Stop`, `RequestReenumerate`, `AdjustAll`, `AdjustTo`, setters, queries; `WorkerLoop` with enumeration and flush | MonitorManager (worker only), the VCP bus, a ready callback |
| **MonitorManager**, **PhysicalMonitorHandle** (`ddc/`) | the list of logical monitors, each owning physical handles | `Refresh`, `Monitors` | Windows desktop and dxva2 calls |
| **VCP transport** (`ddc/NativeMonitorApi`, `VcpBus`, `VcpCodes`, `DdcErrors`) | none (the panels' registers) | read, write, classify an error | dxva2 |
| **VcpScaling** (`ddc/`) | none | percent ↔ raw | the coordinator |
| **CapabilitiesParser** (`ddc/`) | none | capability string → set of codes | MonitorManager |
| **App** (`app/`) | hidden window, timer, notch remainder, cached autostart flag | `Init`, message handlers, `Exit`, destructor | everything on the UI thread |
| **TrayService** (`app/`) | icon, icon rectangle, wheel hook | add / remove icon, hook, menu, balloon | explorer; posts messages to App |
| **SettingsDialog** (`data/`) | rows, scope list, drag flags, detection timer | open, hide, sliders, lists, refreshes | coordinator; `Monitors()` with no lock; Settings |
| **Settings**, **Paths** (`data/`) | preferences, dirty flag, a JSON file and its temporary | load, save, save if dirty | file system |
| **Json** (`data/`) | a document | parse, serialise | Settings |
| **VibranceService** (`app/`) | a driver library, its resolved functions, a display and its range | load, get, set, release | GPU driver |
| **Autostart** (`utils/`) | one registry value | read, toggle | registry |

### How they interact

App owns one of each. The wheel hook posts scroll messages; App adds up notches
and calls `AdjustAll`; the dialog calls `AdjustTo`. Both only change integers
under the coordinator's mutex and notify. The worker sleeps on the condition
variable, waits for a quiet window, takes the whole map of targets and writes
every code of every channel in it with the mutex released. Display, device and
power messages call `RequestReenumerate`; the worker then refreshes the
MonitorManager (destroying the handles all channels borrow), scans every panel and
swaps the channels in under the mutex, where it also runs the callback, which
posts a message that makes the dialog refresh. Settings are written by dialog
handlers and by two destructors.

### What is hard about it

* **Interleavings.** Flags are set inside a critical section and notified outside
  it; the flush reads `m_channels` with no lock, by indices queued earlier; the
  dialog asks one question per critical section; it walks `Monitors()` with none.
* **Failure.** Any DDC transaction may fail, transiently or for good, and a failed
  write may have been carried out; a panel may answer with the old value after a
  write. Any desktop call may fail, and so may any call to the shell. Any call of a
  save may fail and the process may die between two of them.
* **Ordering.** A newer value must win over one in flight; targets of an old
  channel set must never reach a new one; the last refresh of the dialog must
  come after the last swap.
* **Time.** A quiet window that is extended by input; a timer that polls until the
  first enumeration is over; a retry after a transient error.
* **Numbers.** Unsigned rounding in two directions, panels that report a maximum
  of 0, an unsigned subtraction below zero, settings edited by hand.

### What makes each component correct

* Coordinator: no wakeup is lost, `Stop` returns, one worker at a time; targets
  name channels that exist; the last value wins and is what is shown; what is
  shown is what the panel has; a failing axis does not stop the others; a channel's
  handle is open and belongs to the monitor its index names.
* MonitorManager: each open handle has exactly one owner; a monitor that no embedded panel
  shows is never hidden, whatever the queries left out.
* VcpScaling: nearest value, and round trips where the scales allow them.
* Settings: the last successful save survives anything but a later one; what is
  dirty stays dirty until written; what is in memory is valid.
* Dialog: rows and scope list tell the truth once messages are handled; scope in
  list, coordinator and file agree; "detecting..." ends; a scope is given up only
  when its monitor is gone.
* App and tray: the hook exists only while its thread pumps; the icon the program
  believes in is the icon the shell holds, unless the shell refused to delete it; whatever
  came in between, the end leaves no other icon, no hook, no running worker and no unsaved drag; no wheel movement is lost; the
  hook's rectangle follows the icon; exit completes.
* Vibrance: the driver interface is usable as a whole or gone as a whole, and the row
  says which.
* Autostart: what menu and check box show is the registry (they do not).
* CapabilitiesParser and Json: the codes are those listed; what is written is read
  again; what is torn is refused.

## 2. Modules

```
VcpScaling <- ScalingSweep <----------- MCParts         PartsProofs extends
    ^                                     | extends also MCSettings,      ScalingSweep,
    |                                     | CapabilitiesParser, Json,     CapabilitiesParser,
    |                                     | VibranceRow                   VibranceRow,
    |                                                                     SettingsStore
VcpBus <- MonitorManager <- MCManager                   MonitorManagerProofs
                ^                                              ^
CoordinatorApi <- AdjustmentCoordinator <------------ AdjustmentCoordinatorProofs
      ^             ^                                     ^              ^
      |   CoordinatorRefinement <- MCCoordinator          |  CoordinatorPanelProofs
      |         |          ^------------------- CoordinatorRefinementProofs
      |   INSTANCE (refinement)
      |         v
      +- CoordinatorView <- SettingsDialog <- MCDialog     DialogProofs

TrayService <- App <- MCApp                             AppProofs
VibranceService <- VibranceRow
SettingsStore <- MCSettings
      |
  INSTANCE (refinement)
      v
AtomicSettings
CapabilitiesParser
JsonStrings <- Json                                     JsonProofs
```
(`A <- B`: B extends A.)

**VcpScaling** has `ToRaw`, `ToPercent` and `DeviceRange` with their unsigned
arithmetic modulo `UintMod` (2^32 in the build, 2^16 in the runs, which is enough for
every 8- and 16-bit maximum of the sample; the proofs take any `UintMod`).
**ScalingSweep** runs every percentage over a set of maxima.

**VcpBus** is the DDC/CI bus: panels with registers, handles that route to a panel,
are `"gone"` (Windows dropped the panel) or `"free"` (destroyed), transactions that fail on
`Faulty` pairs with any error of `DdcErrors.h`, acknowledged or not. Each code has its own
maximum. A register is what it `holds` and what it `replies`: with `ReadsLag`, a write
changes the first only, and the reply follows at any time or never (`PanelCatchesUp`), since
reads right after a write can be stale (`AdjustmentCoordinator.cpp:503-504`).

**MonitorManager** is `Refresh` in two steps, the display-configuration query and
the enumeration, because the desktop may change between them. `targets` is the
result of the first. `Rebuild` opens the new handles while the old are still
open and then destroys the old, as the move assignment does. `TopologyChange` is
Windows.

**CoordinatorApi** holds what `AdjustmentCoordinator.h` gives its callers.
**AdjustmentCoordinator** models both threads. A step is one critical section, one
call out of the worker (a refresh, a panel's reads, one write) or one notification:

| Code | Model |
|---|---|
| `m_mutex` | sections that unlock before they wait are single steps; the one held over the callback is `m_mutex = "worker"` |
| `m_cv.wait`, `wait_until` | `worker` = `idleWait`, `quietWait`; `Notified` moves it to `idleWake`, `quietWake`; `SpuriousWake`; `TimerExpires` then `QuietEnds` once the mutex is free |
| `m_lastInputTime` + window | `quiet`, made false by input, true by `QuietElapses` |
| `Stop` | `Stop` (section), `NotifyAll`, `Join` |
| `WorkerLoop` | `LoopTop`, `Dispatch` (`ExitLoop`, `TakeReenumerate`, `TakeBatch`) |
| `BuildFreshChannels` | `BuildPanel` per physical monitor, `fresh` and `at` its locals |
| the flush | `BeginEntry`, `Write`, `Retry`, `FlushDone`; `batch`, `entry`, `left` its locals |
| (history) | a channel's `exact`: its baseline was read from a panel that had caught up with its last write, or it was moved since |

**CoordinatorView** is the abstract coordinator: cached values, settings, a stage
and the length of `Monitors()`, with no mutex, queue, handle or panel. It says that
cached values change only by the caller's own calls and by a swap that follows a
refresh, that a swap brings channels of listed monitors only, and that a new
worker follows only a finished one. `CoordinatorRefinement` maps the detailed
coordinator to it (`ImplementsView`), which is checked and proved.

**SettingsDialog** extends CoordinatorView with the UI thread. A handler is an action that
leaves in `todo` the calls it has still to make; the worker may move between any
two. The walk over `Monitors()` reads its length anew at every entry and, while
`Refresh` replaces the vector, may see the old length or none
(`SeenMonitors`): what the data race can produce short of a crash. Disabling a
trackbar ends its drag: that is the control's behaviour, external to the source. The handler
of `TB_ENDTRACK` then repeats the position to the coordinator from inside the refresh, in a
critical section of its own (`EndDrag`).

**SettingsStore** is the preferences with their file, temporary file and dirty flag.
`Save` is three steps (open, write, move), each of which may fail; `Crash` may come
anywhere. `enabled` stands for three checkboxes, `last` for eight slider memories. Numbers of
a file are integers of any size; `CastToInt` is `static_cast<int>`, which makes
`CastOverflow` of one that no `int` holds (undefined in C++, the smallest `int` on x64; the
proofs take any value). `Applied` is the step as `SetScrollStep` takes it: below 1 it is 1.

**AtomicSettings** is what the store promises: data in memory with a dirty flag, data on
disk, and a save that replaces the second by the first at one instant (`Commit`) or
not at all. Its `disk` is what a launch would read back, so that the refinement
(`ImplementsAtomic`) also covers writing, reading and the defaults for what is damaged.
`Commit` may end the process in the same step, because the save of the last destructor
does.

**TrayService** is the icon, the wheel hook and its rectangle, and the shell they live
in: explorer may die, return with an empty notification area and move the icon into
another place or the overflow flyout. `m_iconHwnd` is what the class believes,
`shell.icon` what is there. `AddIcon` is its two shell calls and the clean-up between
them, each of which may fail; so may the delete of `RemoveIcon`, whose result the code
ignores. `shell.orphan` is history: the shell refused to delete the icon it shows, so that
the class no longer knows it.

**App** is the UI thread from `wWinMain` to the last destructor. `Init`, the
`TaskbarCreated` handler, `Exit` and the destructors are sequences of calls, held in `todo`
one string per call, because the shell moves between any two of them; all other
handlers touch nothing another process can change and are one step. The destructors are
those of App and, in reverse order of declaration, of its members, so that an icon is removed
and the worker stopped twice. `stage` tells `Init`, `Run`, the
message box of a failed `Init` (whose loop pumps messages for a half-made
application), the destructors and the ends apart. `posted` holds the messages whose content or
moment matters, wheel movements and `TaskbarCreated`; all others arrive when they are handled.
`owed` is history: movement taken from the system and not yet turned into steps.

**VibranceService** has the driver's six entry points, any subset of which may
resolve, and calls that succeed, are refused or fault. Members are one record so
that a method ending in `Release` composes. **VibranceRow** is the row of the settings
window over it: `RefreshRows` in three steps (read, gray out, explain), because graying a
trackbar that is being dragged ends its drag, and that calls the driver.

**CapabilitiesParser** reads one character a step over an alphabet of two hexadecimal
digits, both parentheses, a blank and the opening token. `ListedCodes` is the
reference: what a segment lists, said without an accumulator.

**JsonStrings** has what a string is written as and the loop that reads it: a function
from positions in the text to what the reader makes of it from there. **Json** builds
documents call by call; `Documents[n]` are those nested at most `n` deep. Writer and reader
call themselves in the code. Here the writer is a function for every depth (`Texts[n]`, whose
`AppendSerialized` takes what the values inside are written as), and the reader one function from
places to outcomes: `ParseItems` and `ParseMembers` are the two loops from one item on, and what
they make of the rest of the text, in the container they are in or one that is opened, is the
function at a later place. `ParseMembers` gives all members of a text, and `SetAll` is `Set`
for each in turn, as the loop calls it. `RoundTrip` holds with equality only up to the nesting
limit, which the writer does not know of. The other short escapes (`\b`, `\f`, `\r`, `\t`) go the
way of `newline`. A number is the sequence of its characters, of the form `%lld` and `%.9g`
print (`IsNumeral`), and is read character by character; its value is not computed.

**MCParts** checks five parts that interact with nothing in one run: a behaviour picks one
in its initial state.

## 3. Runs

| Run | Shows |
|---|---|
| `parts` | settings: `TypeOK`, `LastSaveSurvives`, `ImplementsAtomic`; scaling: `NearestHalfUp`, `PercentRoundTrip`, `RawRoundTrip` over 101 percentages and 18 maxima; capability strings: `CodesAreThoseListed`; JSON: `RoundTrip`, `TornIsRejected`, `LastMemberCounts`; vibrance: `UsableOrGone`, `VibranceRowTruthful` |
| `monitor_manager` | `HandlesOwnedOnce`, `HiddenOnlyIfEmbedded`: laptop panel, television, desk monitor; every call may fail |
| `coordinator_panels` | two panels of ranges 100 and 50 side by side, mirrored, one unplugged; `TypeOK`, `TargetsNameChannels`, `LastValueWins`, `ChannelsMatchMonitors`, `SettledAgreement`, `SliderReadsBack`, `ImplementsView` |
| `coordinator_faults` | a panel with three saturation axes of maxima 0, 100 and 255, the first failing, replies that lag behind writes, unplugged and back: `OneWorker`, `SettledAgreement`, `EnumerationHeals`, `FanOutReachesEveryAxis`, and under fairness `RequestServed`, `StopReturns`, `InputDrains` |
| `dialog` | `TypeOK`, `RowsTellTheTruth`, `ScopeNamesMonitor`, `ScopeInSync`, and under fairness `DetectionEnds` |
| `app` | `TypeOK`, `HookOnlyWhilePumping`, `IconAsBelieved`, `NothingLeftBehind`, `NoScrollLost`, and under fairness `RectFollowsIcon`, `ExitCompletes` |
| `onready_lock` | **violated**: "Outside the lock" (`AdjustmentCoordinator.cpp:479`); the callback runs with the mutex held |
| `debounce` | **violated**: "Quiet time that must elapse after the latest input before pending targets flush" (`AdjustmentCoordinator.h:73`); the first input after idle is flushed at once |
| `clone_hidden` | **violated**: "a clone of internal+external stays listed" (`MonitorManager.cpp:154`); it is hidden when the internal target is first and has a name |
| `settings_lost` | **violated**: "cheap no-op when everything was already written through" (`App.cpp:28`); also a no-op when a checkbox's save failed |
| `dialog_scope_lost` | **violated**: Refresh "replaces its vector only while no one else can touch it" (`AdjustmentCoordinator.h:57`); the dialog's walk overlaps it and a scope whose monitor never left is reset and saved |
| `autostart` | **violated**: "Autostart reflects live registry state, same source as the tray menu" (`SettingsDialog.cpp:398`); the menu shows a flag read at launch, and choosing its item then writes the opposite of what it showed |

`RequestServed` asks for an enumeration that begins after the request: one under way when the
request is made does not answer it, although its callback comes later.

### Bounds, and why they are enough

* Two panels and four handles: a refresh holds the old and the new handles of both
  panels at once. Two logical monitors and one mirrored pair are the least in which an index can be
  wrong. Panels of different ranges tell percent from raw. Handles are
  symmetric; symmetry is used only in runs without liveness.
* `Steps`, `SliderPositions`: one large step that reaches a clamp, and one slider position that
  is nobody's baseline after a scroll. Two values per channel are enough for "older" and "newer".
* Three axes, the first faulty: it is the baseline when it answers and not when it fails, a
  failed write of it is what the next enumeration has to discard, and two axes are still to be written
  after it. Each has a maximum of its own, of which the first counts for all
  (`AdjustmentCoordinator.cpp:386-389`). `ReadsLag` is TRUE in this run and FALSE in the others;
  the proofs take either value. Its one step clamps with any scroll step, so that the default is set
  to the 1 that `SetScrollStep(0)` makes and setting it adds no states.
* `SampleFiles`: no file, a torn one, one with every field out of range or of another type, one with
  numbers beyond `int`, one with fields missing. `IntMax` = 127 with `CastOverflow` = -128 is an
  `int` of eight bits, wide enough for a percentage.
* The dialog has one row: rows share no state. Three sizes of the monitor list make
  it grow, shrink and vanish; `MaxPosted` = 1 bounds the unhandled
  messages. A second swap waits for the first message to be taken up, and may still come while it is
  being handled.
* Capability segments of 7 characters: two codes, or one code with an odd digit and a list of
  values before it. Two digits, one of them 0xb, tell a kept digit from a dropped one.
* Documents of four calls from every leaf, nesting to 4 with a limit of 2, so that
  documents at, below and beyond the limit occur; one string with every kind of
  character; one number with a sign, a fraction and an exponent; every place to tear a text.
* Two displays of which either may refuse or fault, ranges from 0 and from 1.
* One place on the taskbar and the flyout: a rectangle is right, wrong or none. Two
  posted messages, so that a broadcast and a scroll are in either order. Half notches up
  and one and a half down leave remainders of both signs.
* `CallsFail` is FALSE in the coordinator runs; failing desktop calls are
  explored in `monitor_manager` and covered by the proofs, which take either value.

Only `parts` switches deadlock checking off: a sweep ends at 100 percent, a
capability segment at its last parenthesis, a document at its bound. App ends in a step that
repeats itself (`Ended`), so that a stop anywhere else would be found.

### Fairness

* Coordinator: `WF(Worker)` (the thread is scheduled and its system calls
  return), `WF(Caller)` (the UI thread finishes the call it is in),
  `WF(QuietElapses)` (time passes). Input, settings, `Start`/`Stop`, hot-plug and
  spurious wakeups are never obliged to happen. `InputDrains` assumes input
  stops, since the code lets input put the flush off for ever.
* Dialog: `WF(Worker)`, `WF(Handler)` (a handler that was begun goes on), and
  `SF(MonitorsChanged)`, as posted messages are taken in order and so reach the
  head of the queue however busy the user is. `WM_TIMER`, which yields to
  everything else, gets none: `DetectionEnds` holds without it.
* App: `WF(Step)` (a sequence of calls goes on), `WF(TaskbarCreated \/ Scroll)` (the
  loop takes what is posted), `SF(RectTimerTick)` and `SF(LoopEnds)` (a due timer and
  `WM_QUIT` are taken whenever nothing is posted), `SF(quit /\ ChooseNothing)` (`WM_QUIT`
  ends the menu's own loop). Both liveness properties assume that the queue keeps
  getting empty while a loop pumps it (`QueueEmpties` says nothing of the destructors), and
  exit that the user stops opening menus: the code lets either put them off for ever.

## 4. Proofs

| Theorem | Says | Argument |
|---|---|---|
| `ToRawInRange`, `ToPercentInRange` | conversions stay on their scale | half-up division |
| `NearestHalfUpHolds`, `PercentRoundTripHolds`, `RawRoundTripHolds` | as the sweep, for every maximum whose products do not wrap (`NoWrap`) | bounds of `x + 50 = 100 q + r` both ways |
| `CodesAreListed` | for every string, the parser's set is the codes the segment lists | `ParserInv` = types, `PendingDigit` and the property; what one more character does to nesting, runs and pairs |
| `HandlesAlwaysOwnedOnce` | the entries own exactly the open handles | `ManagerInv` = types and ownership; acquisition is injective and disjoint from the open handles |
| `GateIsSound` | what the gate may hide, for every desktop and every subset of targets and names the query yields | from the gate and the types of `targets` |
| `TypeCorrect`, `TargetsAlwaysNameChannels`, `OneWorkerAlways` | coordinator safety | `IInv` = the three together |
| `LastValueAlwaysWins` | queued or in flight = shown | `IInv` and `ShownInv` |
| `ChannelsAlwaysMatchMonitors`, `WritesThroughOpenHandles` | borrowed handles are owned, and by the right monitor | `IInv` and `HandleInv` |
| `StoreTypeCorrect`, `SettingsSurvive` | what may be in memory, and that a launch runs with what the last save wrote, for every width of `int` and every outcome of an overflowing cast | `StoreIInv` = types, the property and what a complete temporary file holds |
| `StringsAreReadBack` | every string is read as it was written, wherever it stands in a text | where each character's escape begins (`Layout`), one turn of the loop per character, induction from the closing quote backwards |
| `TornStringsAreRefused` | a text that ends inside a written string is not read as a shorter one | the same layout; the escape the cut falls into fails (`TurnFails`) and the failure is passed back |
| `DocumentsStayShallow` | whatever calls built it, a document has each key once and no more levels than there were calls | `JsonInv`, inductive |
| `DocumentsAreReadBack`, `RoundTripHolds` | every document is read as it was written, in both layouts, down to the nesting limit and is refused beyond it | induction over the nesting depth, and in a container from the last item backwards |
| `LastMemberCountsHolds` | of two members of one key the last counts, in the place of the first | the same, and what `Set` does to a repeated key |
| `TornDocumentsAreRefused`, `TornIsRejectedHolds` | the text of an array or object, cut short anywhere, is refused | what is cut fails or stops at the end of the text; a missing bracket fails every loop around it |
| `StoreIsAtomic` | every behaviour of the store is one of AtomicSettings: the refinement | `StoreIInv`, `DataIsReadBack`; the rename is `Commit`, a failed save stutters or is the end of the process |
| `InterfaceUsableOrGone`, `RowTellsTheTruth` | the two invariants of the vibrance row, for every range and number of displays | `RowInv` = types, both invariants, `ProbedFirst` and `ReadIsFresh` |
| `CoordinatorImplementsView` | every behaviour of both threads is one of CoordinatorView: the refinement, for every instance | `IInv`, `HandleInv`; one lemma per kind of step |
| `EnumerationAlwaysHeals`, `CacheAgreesWithPanels`, `EveryAxisIsReached` | what is shown is what the panels hold, except a baseline read before its panel had caught up with a write | `PanelInv` = the invariants above with `RouteInv`, `ChannelInv`, `SettledInv` |
| `SlidersReadBack` | what a slider sets is what it reads | writing and reading select by the same `MatchingIn` |
| `DialogTypeCorrect` | types of the dialog | `TypeInv`, with the shape of `todo` (`WellFormed`) |
| `ScopeStaysInSync`, `ScopeAlwaysNamesMonitor` | list, coordinator and file agree; the scope names a monitor | `ScopeInv` = `TypeInv`, `SyncInv`, `WalkInv` |
| `RowsAlwaysTellTheTruth` | visible rows say what the coordinator says | `TypeInv`, `GrayInv` (a drag is cut short only for a row that no monitor in the scope supports) and `TruthInv` |
| `AppInvariant`, `AppTypeCorrect` | between any two calls, what is left to call tells what tray, worker and dialog hold | `AppInv` = types, `Shape`, `HookInv`, `IconInv`, `EndInv` and the properties |
| `HookNeverStalls` | no hook while the thread starts or joins the worker or saves at exit | `HookInv` |
| `IconStaysKnown` | the shell's icon is the one App believes in, once messages are handled, unless the shell refused to delete it | `IconInv` |
| `EndLeavesNothing` | an orderly end leaves no icon but one the shell refused to delete, and no hook, worker or unsaved drag | `EndInv` |
| `WheelIsConserved` | no wheel movement is lost, for every delta and queue length | induction on the number of messages |

Why the strengthenings are needed. `TypeOK` alone is not inductive: the flush
reads `m_channels[entry]`, so it needs `entry` in range, which needs
`TargetsNameChannels`; a new worker starts with an empty batch only because the
old one was joined, which needs `OneWorker`. `LastValueWins` speaks of started
coordinators; a batch that `Stop` left draining must be known to be finished at
the next `Start`, hence `StoppedQueuesNothing`. `ChannelsMatchMonitors` says nothing
while the worker rebuilds; `FreshMatches` carries it across to the swap, and
`HandlesOwnedOnce` comes from MonitorManagerProofs. `LastSaveSurvives` needs what the
temporary file holds just before it is renamed. `VibranceRowTruthful` speaks of finished
refreshes; `ReadIsFresh` says what their first steps have found out, and
`ProbedFirst` that nobody drags before the driver was probed.

`SettledAgreement` speaks of panels and says nothing of handles, and yet a write must
reach the panel of its own channel and no other: `RoutesInjective` (no two open handles
route to one panel) and `ChannelsApart` (no two channels of a handle share a code) say so.
`Progress` says which of a channel's codes already hold the target while the fan-out is under
way, and `FreshInv` that a channel under construction shows what was measured, also
when its panel is unplugged before the swap.

The dialog's properties speak of moments between handlers, so its invariants say
what holds in the middle of one, by the head of `todo`: `SyncInv` what the list
remembers between its reset and its selection, `WalkInv` how far the walk has come once no
worker and no message can disturb it, `TruthInv` that each row is asked again or good
already. They need the order of the calls (`WellFormed`): the list comes before the rows, and
a value only right after its row said yes.

App's properties are about a few `stage`s, and which calls have been made by then is
a matter of the lists in `Init`, `Exit` and the destructors. `Shape` says that `todo` is
always a tail of the list that belongs to the stage. The other parts are written over
`Left(todo)`, the calls still to come: an icon may be unknown to the shell as long as
`addIcon` is left or a `TaskbarCreated` waits in the queue; the hook is gone once `removeHook` is
no longer left before `postQuit`; each destructor has done its work once it is no
longer left. `NoScrollLost` is inductive as it stands, but its sum over the
queue is a recursive function: that appending a message adds its delta and taking one
subtracts it is proved by induction on the length, as the minimal counterexample of a well-founded order.

`CodesAreThoseListed` compares the codes the parser has stored with a reference over the whole segment read
so far, so the accumulator has to be tied to the text: `PendingDigit` says that a
digit is pending exactly behind an odd run of digits at depth 1, and is then the low one of
the accumulator. The high part may be a digit from before a parenthesis: the
cast to a byte drops it, and only the value modulo 16 is invariant. The lemmas beneath say that a run has
one start, that appending a character leaves every earlier level, run and pair alone, and that
a new code is made only by the second digit of a pair.

`StoreIsAtomic` needs `StoreIInv` at the rename only: the temporary file then holds
the data in memory as written, and `DataIsReadBack` says it is read back as that.

Json's three properties need of the state only `JsonInv`: the document is one of
`Documents[built + 1]`, has each key once and is as deep as the calls allow. The rest is about
texts, for every one of them, in four parts:

* *Recursion exists.* A recursive function is a `CHOOSE`, so that `Documents`, `Texts`, and the
  reader's `rest` are what their equations say only if some function satisfies them
  (`DocumentsExist`, `TextsExist`, `LoopsExist`). The reader's is built from the end of the text
  backwards: what `ParseValue` makes of a place depends only on `rest` at later places
  (`ValueLocal`, `ItemsLocal`, `MembersLocal`), because every character that is read moves on.
* *What is written is known by place.* `BracketedLaid` says where bracket, items, commas, line breaks
  and indentation of a container stand, `NumeralParts` where sign, digits, fraction and exponent of a
  number end.
* *Reading it back* (`ValuesRead`) is an induction over the nesting depth; under it the
  loop of a container is followed from its last item backwards (`LoopReads`). What comes out of
  an object is `SetAll` of its members, which is the object itself when each key occurs once
  (`SetAllIs`) and replaces in place when one is repeated (`SetAllReplaces`). The depth counted in the reader
  is compared with that of the document, so the limit is met exactly.
* *Torn text* (`ValuesRefused`) agrees with the whole up to the tear and has nothing behind it that closes
  anything (`Torn`). A value the tear cuts fails, or, if it is a number, stops at
  the end of the text (`Stalls`); a container fails because what closes it is missing, and
  each loop passes the failure back to its first item.

The assumptions are those named in the modules (`UintModAssumption`,
`MaximaAssumption`, `ParserAssumption`, `BusAssumption`, `LayoutAssumption`,
`ClientAssumption`, `StoreAssumption`, `VibranceAssumption`, `DialogAssumption`,
`AppAssumption`, `PlacesAssumption`, `JsonAssumption`): mostly types of the constants. Beyond types,
`MaximaAssumption` says that the products of a conversion do not wrap,
`ParserAssumption` that no digit is another character and that a byte divides the unsigned type,
`JsonAssumption` that no character of a string is one of the model's characters that stand for several
or the end of a text, and that numbers have the form the writer prints,
`PlacesAssumption` that the flyout and "no rectangle" are not places of the taskbar, and
`PanelsOnceAssumption` that a panel occurs at one place of a desktop. TLC evaluates each of
them on the instances.

Model-checked only: every liveness property, since fairness and ENABLED are beyond the
prover. All invariants and action properties of the passing runs, both refinements included, are
stated by theorems. Inductions over strings, documents and queues are done by hand, as the
minimal counterexample of a well-founded order, because the induction theorems of the library
take an operator as a parameter, which no backend instantiates.

## 5. Not modelled, and simplifications

* Nobody but LiteDDC writes registers (no on-screen menu), and a register takes any value
  written to it. A scan of one panel is one step. Windows' NULL handles are left out: handles
  are distinct.
* What the code does against its own comments, beyond the violated runs. A clone whose external
  target could not be read is hidden, although "a query gap can never hide a real monitor"
  (`MonitorManager.h:75-76`); `HiddenOnlyIfEmbedded` says which monitors a gap does not hide. A step
  beyond `int` in a file comes out of its cast below 1, although "clamped >= 1" (`Settings.h:24`): it
  stays in memory and in the next save, and is applied as 1 (`CastOverflow` in `TypeOK`). An icon whose
  deletion the shell refuses is forgotten all the same and out of `RemoveIcon`'s reach, and an
  `AddIcon` may meet it, against `App.cpp:368-370` (`shell.orphan` in `IconAsBelieved`).
* The gate is judged on the desktop its query saw; when the desktop changes before
  the monitors are enumerated, the next enumeration is the remedy.
* Capability strings do not affect channels in the code (the bus decides), so
  CapabilitiesParser stands alone. GDI device names are positions in the desktop.
* `Steps * m_scrollStep` does not overflow `int`.
* `LoadChannelsForTest` (the test seam, called on coordinators that were never started) and
  `SetOnReady`'s own locking.
* App and SettingsDialog are not composed: App keeps of the dialog only that it exists, is
  shown and has unsaved drags, and SettingsDialog takes App's handlers for the messages it reacts to.
* The theme icon, the tooltip and the balloon: drawing. The clock of the 400 ms
  debounce: an event of the icon may always be dropped. `WM_DEVICECHANGE`: one more caller
  of `RequestReenumerate`.
* The mutex that makes the program a single instance is closed before the destructors run, so
  two processes may overlap for a moment: one process is modelled.
* How a double is printed and read; the numbers of a settings file are integers, as fractions
  are cut off by the casts.
* A crash is of the process, not of power: what was written stays written.
* Resources, layout, icons, build files: no behaviour.

## 6. What is left

The modules above were written in this order: the coordinator with its bus and
manager, its abstract view, settings, the dialog; then App with the tray, vibrance, the parser
and JSON. Worth doing next:

1. **A register specification** per (panel, code): a last-value-wins register that the
   coordinator implements, apart from the view.
2. **The bus again**: NULL handles.
3. **App composed with SettingsDialog**, whose product is large for TLC: the
   dialog's handlers would have to be summarised first.
