---------------------------- MODULE VibranceService ----------------------------
(***************************************************************************)
(* GPU vibrance through a driver interface loaded at run time              *)
(* (src/src/app/VibranceService.cpp).  Every call into the driver may      *)
(* succeed, be refused, or fault, which the guards turn into a failure.    *)
(* The UI thread alone calls, so a method is one step; the members are the *)
(* fields of one record, so that a method that ends in Release composes.   *)
(***************************************************************************)
EXTENDS Integers, Sequences

CONSTANTS
    DeviceRanges,   \* the <<min, max>> a display may report
    MaxDisplays     \* bound on the displays the driver enumerates

Outcomes == {"ok", "refused", "fault"}
Interfaces == {"initialize", "unload", "enumDisplayHandles", "getDisplayName",
               "getDvcInfo", "setDvcLevel"}
\* The two that ProbeDriver does not keep are its locals.
Kept == Interfaces \ {"initialize", "getDisplayName"}

ASSUME VibranceAssumption ==
    /\ DeviceRanges \subseteq {range \in Int \X Int : range[1] <= range[2]}
    /\ MaxDisplays \in Nat

VARIABLES
    service,        \* m_library, the resolved members, m_display, range, m_available
    driver,         \* initialised, its level, the level last asked for
    probed          \* TryLoad has run

vibranceVars == <<service, driver, probed>>

Fresh == [library |-> FALSE, fns |-> {}, display |-> FALSE, range |-> <<0, 100>>,
          available |-> FALSE]

VibranceInit ==
    /\ service = Fresh
    /\ driver = [initialized |-> FALSE, level |-> 0, asked |-> 0]
    /\ probed = FALSE

-----------------------------------------------------------------------------
\* Mutant: a retired interface stays available.
ReleasedAvailable(s) ==
    [s EXCEPT !.library = FALSE, !.fns = {}, !.display = FALSE]

\* Release; m_min and m_max are kept.
Released(s) ==
    [s EXCEPT !.library = FALSE, !.fns = {}, !.display = FALSE, !.available = FALSE]

\* GuardedUnload, if the pointer was resolved: a fault leaves it undone.
Unloaded(s, d) ==
    {d} \cup {[d EXCEPT !.initialized = @ /\ "unload" \notin s.fns]}

\* The first display that answers both queries, unless an earlier one faults;
\* one that refuses is skipped.
Claims(displays) ==
    \E k \in DOMAIN displays :
        displays[k] = "ok" /\ \A j \in 1 .. k - 1 : displays[j] = "refused"

DisplayLists == UNION {[1 .. n -> Outcomes] : n \in 0 .. MaxDisplays}

\* ProbeDriver over what queryInterface resolves (a fault there resolves less),
\* what initialize says and what the displays answer; Release unless one is
\* claimed.
Probe(resolved, initialize, displays, range) ==
    LET usable == resolved = Interfaces
        claims == usable /\ initialize = "ok" /\ Claims(displays)
        loaded == [Fresh EXCEPT !.library = TRUE, !.fns = resolved \cap Kept]
        started == [driver EXCEPT !.initialized = usable /\ initialize = "ok"]
    IN  IF claims
        THEN /\ service' = [loaded EXCEPT !.display = TRUE, !.range = range,
                                          !.available = TRUE]
             /\ \E level \in range[1] .. range[2] :
                    driver' = [started EXCEPT !.level = level, !.asked = level]
        ELSE /\ service' = Released(loaded)
             /\ driver' \in Unloaded(loaded, started)

\* Without the library, or its one export, nothing is kept.
TryLoad ==
    /\ ~probed /\ probed' = TRUE
    /\ \/ UNCHANGED <<service, driver>>
       \/ \E resolved \in SUBSET Interfaces, initialize \in Outcomes,
             displays \in DisplayLists, range \in DeviceRanges :
             Probe(resolved, initialize, displays, range)

\* GetLevel: what it returns, and Release after a fault.
GetLevel(answer) ==
    IF service.available /\ answer = "ok" THEN driver.level ELSE -1

AfterGet(answer) ==
    IF service.available /\ answer = "fault" THEN Released(service) ELSE service

Clamped(s, level) ==
    IF level < s.range[1] THEN s.range[1]
    ELSE IF level > s.range[2] THEN s.range[2] ELSE level

\* SetLevel on the members s and the driver d; the driver's refusal is ignored,
\* and a fault may come after the level took effect.
AfterSet(s, answer) ==
    IF s.available /\ answer = "fault" THEN Released(s) ELSE s

DriverAfterSet(s, d, answer, level) ==
    IF ~s.available THEN {d}
    ELSE LET asked == [d EXCEPT !.asked = Clamped(s, level)]
         IN  (IF answer # "ok" THEN {asked} ELSE {})
                 \cup (IF answer # "refused"
                       THEN {[asked EXCEPT !.level = asked.asked]} ELSE {})

\* The driver's own control panel.
LevelChanges ==
    /\ service.available
    /\ \E level \in service.range[1] .. service.range[2] :
           driver' = [driver EXCEPT !.level = level]
    /\ UNCHANGED <<service, probed>>

-----------------------------------------------------------------------------
(* The interface is usable as a whole or gone as a whole: while Available  *)
(* says yes the library is mapped, the driver initialised and no pointer   *)
(* that a call goes through is null; when it says no, none of them is left *)
(* (VibranceService.cpp:53-62, 168-232).                                   *)
UsableOrGone ==
    IF service.available
    THEN service.library /\ service.display /\ service.fns = Kept /\ driver.initialized
    ELSE ~service.library /\ ~service.display /\ service.fns = {}
================================================================================
