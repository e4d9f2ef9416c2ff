---------------------------- MODULE SettingsStore ----------------------------
(***************************************************************************)
(* The persisted preferences (src/src/data/Settings.cpp, Paths.cpp): the   *)
(* data in memory with its dirty flag, the settings file, the temporary    *)
(* file it is replaced from, and a process that may die between any two    *)
(* calls to Windows.  Everything runs on the UI thread.                    *)
(*                                                                         *)
(* enabled stands for the three checkboxes and last for the eight slider   *)
(* memories, each kind with its own way of being read back.                *)
(***************************************************************************)
EXTENDS Integers

CONSTANTS
    InitialFiles,    \* what the settings file may hold before first launch
    SliderValues,    \* the positions a slider is dragged to
    StepChoices,     \* the entries of the scroll-step list
    ScopeChoices,    \* the entries of the scope list
    IntMax,          \* the largest int
    CastOverflow,    \* the int the build makes of a double no int can hold:
                     \* undefined in C++, the smallest int on x64
    ReadsFail,       \* whether ReadTextFile may fail on a file that is there
    WritesFail       \* whether the calls of Save may fail

Keys == {"enabled", "scrollStep", "scope", "last"}

\* What a JSON object can hold for a key, as far as the readers tell apart.
Num(n)  == [type |-> "number", value |-> n]
Flag(b) == [type |-> "bool", value |-> b]
Other   == [type |-> "other"]

\* A file is not there, holds no JSON object (or half of one), or holds one.
Absent == [kind |-> "absent"]
Torn   == [kind |-> "torn"]
Holding(object) == [kind |-> "object", object |-> object]

Ints == -(IntMax + 1) .. IntMax

\* Values are typed, a number being any integer a file may spell.
Values == [type : {"number"}, value : Int] \cup [type : {"bool"}, value : BOOLEAN]
             \cup {Other}

ASSUME StoreAssumption ==
    /\ \A f \in InitialFiles \ {Absent, Torn} :
          /\ f = Holding(f.object)
          /\ DOMAIN f.object \subseteq Keys
          /\ f.object \in [DOMAIN f.object -> Values]
    /\ SliderValues \subseteq 0 .. 100
    /\ IntMax \in Nat /\ IntMax >= 100 /\ CastOverflow \in Ints
    /\ StepChoices \subseteq 1 .. IntMax /\ ScopeChoices \subseteq Ints
    /\ ReadsFail \in BOOLEAN /\ WritesFail \in BOOLEAN

VARIABLES
    file, tmp,       \* settings.json and settings.json.tmp
    m_data, m_dirty,
    phase,           \* "down", "idle", or the call Save is at
    exiting,         \* whose destructor runs: "no", "App", "SettingsDialog"
    saved            \* history: the data of the last Save that succeeded

vars == <<file, tmp, m_data, m_dirty, phase, exiting, saved>>

-----------------------------------------------------------------------------
Defaults == [enabled |-> TRUE, scrollStep |-> 2, scope |-> -1, last |-> -1]

SerializeData(data) ==
    [enabled |-> Flag(data.enabled), scrollStep |-> Num(data.scrollStep),
     scope |-> Num(data.scope), last |-> Num(data.last)]

\* A key that is missing or of another type falls back to the default.
AsNumber(object, key) ==
    IF key \in DOMAIN object /\ object[key].type = "number"
    THEN object[key].value ELSE Defaults[key]
AsBool(object, key) ==
    IF key \in DOMAIN object /\ object[key].type = "bool"
    THEN object[key].value ELSE Defaults[key]

\* static_cast<int> of a double.
CastToInt(n) == IF n \in Ints THEN n ELSE CastOverflow

\* Mutant: slider memories are taken as they are.
DeserializeUnguarded(object) ==
    [enabled |-> AsBool(object, "enabled"),
     scrollStep |-> LET step == AsNumber(object, "scrollStep")
                    IN  IF step >= 1 THEN CastToInt(step) ELSE 1,
     scope |-> CastToInt(AsNumber(object, "scope")),
     last |-> CastToInt(AsNumber(object, "last"))]

DeserializeData(object) ==
    [enabled |-> AsBool(object, "enabled"),
     scrollStep |-> LET step == AsNumber(object, "scrollStep")
                    IN  IF step >= 1 THEN CastToInt(step) ELSE 1,
     scope |-> CastToInt(AsNumber(object, "scope")),
     last |-> LET value == AsNumber(object, "last")
              IN  IF value \in 0 .. 100 THEN value ELSE -1]

\* What Load makes of a file it can read.
Restored(content) ==
    IF content.kind = "object" THEN DeserializeData(content.object)
    ELSE Defaults

\* What the program runs with: App::Init hands the data to SetScrollStep, which
\* takes a step below 1 for 1.
Applied(data) ==
    [data EXCEPT !.scrollStep = IF data.scrollStep < 1 THEN 1 ELSE data.scrollStep]

Init ==
    /\ file \in InitialFiles /\ tmp = Absent
    /\ m_data = Defaults /\ m_dirty = FALSE
    /\ phase = "down" /\ exiting = "no"
    /\ saved = Restored(file)

-----------------------------------------------------------------------------
\* App::Init on a fresh process; an unreadable file leaves the defaults.
Load ==
    /\ phase = "down"
    /\ \/ m_data' = Restored(file)
       \/ ReadsFail /\ m_data' = Defaults
    /\ phase' = "idle"
    /\ UNCHANGED <<file, tmp, m_dirty, exiting, saved>>

Running == phase = "idle" /\ exiting = "no"

\* Checkbox, scope, step: the data changes and Save begins.
ChangeAndSave ==
    /\ Running
    /\ \/ \E b \in BOOLEAN : m_data' = [m_data EXCEPT !.enabled = b]
       \/ \E step \in StepChoices : m_data' = [m_data EXCEPT !.scrollStep = step]
       \/ \E scope \in ScopeChoices : m_data' = [m_data EXCEPT !.scope = scope]
    /\ phase' = "open"
    /\ UNCHANGED <<file, tmp, m_dirty, exiting, saved>>

\* A slider moves: MarkDirty, nothing is written yet.
MarkDirty ==
    /\ Running
    /\ \E pos \in SliderValues : m_data' = [m_data EXCEPT !.last = pos]
    /\ m_dirty' = TRUE
    /\ UNCHANGED <<file, tmp, phase, exiting, saved>>

\* The dialog hides: SaveIfDirty.
Hide ==
    /\ Running /\ m_dirty
    /\ phase' = "open"
    /\ UNCHANGED <<file, tmp, m_data, m_dirty, exiting, saved>>

Exit ==
    /\ Running
    /\ exiting' = "App"
    /\ UNCHANGED <<file, tmp, m_data, m_dirty, phase, saved>>

\* What follows the SaveIfDirty of a destructor: the next one, or the end.
Destroyed ==
    CASE exiting = "App"            -> exiting' = "SettingsDialog" /\ phase' = "idle"
      [] exiting = "SettingsDialog" -> exiting' = "no" /\ phase' = "down"
      [] OTHER                      -> exiting' = "no" /\ phase' = "idle"

\* ~App, then ~SettingsDialog: SaveIfDirty in each.
Destructor ==
    /\ phase = "idle" /\ exiting # "no"
    /\ IF m_dirty THEN phase' = "open" /\ UNCHANGED exiting ELSE Destroyed
    /\ IF phase' = "down" THEN m_data' = Defaults ELSE UNCHANGED m_data
    /\ UNCHANGED <<file, tmp, m_dirty, saved>>

-----------------------------------------------------------------------------
(* Save: EnsureConfigDir and the temporary file, its contents, the rename. *)
(* A failure deletes the temporary file, if that succeeds, and leaves      *)
(* m_dirty as it was.                                                      *)
SaveFails ==
    /\ WritesFail
    /\ Destroyed
    /\ IF phase' = "down" THEN m_data' = Defaults /\ m_dirty' = FALSE
                          ELSE UNCHANGED <<m_data, m_dirty>>
    /\ UNCHANGED <<file, saved>>

\* Mutant: the settings file itself is truncated and rewritten.
OpenTargetItself ==
    /\ phase = "open"
    /\ \/ /\ file' = Torn /\ tmp' = Torn
          /\ phase' = "write"
          /\ UNCHANGED <<m_data, m_dirty, exiting, saved>>
       \/ SaveFails /\ UNCHANGED tmp

OpenTemp ==
    /\ phase = "open"
    /\ \/ /\ tmp' = Torn
          /\ phase' = "write"
          /\ UNCHANGED <<file, m_data, m_dirty, exiting, saved>>
       \/ SaveFails /\ UNCHANGED tmp

WriteTemp ==
    /\ phase = "write"
    /\ \/ /\ tmp' = Holding(SerializeData(m_data))
          /\ phase' = "move"
          /\ UNCHANGED <<file, m_data, m_dirty, exiting, saved>>
       \/ SaveFails /\ tmp' \in {Absent, Torn}

\* Mutant: Save clears the flag whatever WriteTextFile returns.
MoveClearsDirty ==
    /\ phase = "move"
    /\ \/ file' = tmp /\ saved' = m_data /\ tmp' = Absent
       \/ WritesFail /\ tmp' \in {Absent, tmp} /\ UNCHANGED <<file, saved>>
    /\ Destroyed
    /\ m_dirty' = FALSE
    /\ IF phase' = "down" THEN m_data' = Defaults ELSE UNCHANGED m_data

Move ==
    /\ phase = "move"
    /\ \/ /\ file' = tmp /\ saved' = m_data /\ tmp' = Absent
          /\ m_dirty' = FALSE
          /\ Destroyed
          /\ IF phase' = "down" THEN m_data' = Defaults ELSE UNCHANGED m_data
       \/ SaveFails /\ tmp' \in {Absent, tmp}

\* The process is killed, or the session ends; the files stay as they are.
Crash ==
    /\ phase # "down"
    /\ phase' = "down" /\ exiting' = "no"
    /\ m_data' = Defaults /\ m_dirty' = FALSE
    /\ UNCHANGED <<file, tmp, saved>>

Save == OpenTemp \/ WriteTemp \/ Move

Next == Load \/ ChangeAndSave \/ MarkDirty \/ Hide \/ Exit \/ Destructor
           \/ Save \/ Crash

Spec == Init /\ [][Next]_vars

-----------------------------------------------------------------------------
(* What may be in memory, whatever a damaged or hand-edited file holds: a  *)
(* memory is a percentage or "never", and the step is at least 1 unless    *)
(* the file spells one beyond int, of which the cast makes what it will    *)
(* (Settings.cpp:43-62).                                                   *)
SettingsData ==
    [enabled : BOOLEAN, scrollStep : (1 .. IntMax) \cup {CastOverflow},
     scope : Ints, last : -1 .. 100]

TypeOK ==
    /\ m_data \in SettingsData /\ saved \in SettingsData
    /\ m_dirty \in BOOLEAN
    /\ phase \in {"down", "idle", "open", "write", "move"}
    /\ exiting \in {"no", "App", "SettingsDialog"}
    /\ phase = "down" => exiting = "no" /\ ~m_dirty
    /\ file.kind \in {"absent", "torn", "object"}
    /\ tmp.kind \in {"absent", "torn", "object"}

(* Whenever the process dies, and whichever of its calls fail, the next    *)
(* launch runs with what the last successful Save wrote, nothing torn and  *)
(* nothing older (Paths.cpp:123-148, Settings.cpp:67-98): a step that came *)
(* out of its cast below 1 is read back as 1, which is how it was applied  *)
(* (App.cpp:72, AdjustmentCoordinator.cpp:239-243).                        *)
LastSaveSurvives == Applied(Restored(file)) = Applied(saved)

Atomic == INSTANCE AtomicSettings WITH
              Data <- SettingsData, up <- phase # "down",
              memory <- Applied(m_data), dirty <- m_dirty,
              disk <- Applied(Restored(file))

(* A save is atomic: whichever call fails and wherever the process dies,   *)
(* what a launch would find changes only to the data in memory at once;    *)
(* the dirty flag is given up only then or with the process, so that a     *)
(* failed save is tried again at the next hide and twice at exit           *)
(* (Paths.cpp:123-148, Settings.cpp:67-105, App.cpp:27-29).                *)
ImplementsAtomic == Atomic!AtomicSpec

(* "Persist anything the dialog left dirty ...; cheap no-op when           *)
(* everything was already written through": a clean flag in a running      *)
(* process means there is nothing to write (App.cpp:27-29).                *)
CleanMeansWritten ==
    phase = "idle" /\ ~m_dirty => Applied(Restored(file)) = Applied(m_data)
=============================================================================
