---------------------------- MODULE AtomicSettings ----------------------------
(***************************************************************************)
(* What the preferences promise (src/src/data/Settings.h, and "Atomic      *)
(* write" in Paths.cpp:123): data in memory and data on disk, where a save *)
(* replaces the data on disk by that in memory at one instant or not at    *)
(* all, and a process that dies takes its memory along and nothing else.   *)
(* No file, no temporary file, no JSON and no order of destructors.        *)
(***************************************************************************)
CONSTANTS Data, Defaults

VARIABLES
    up,              \* there is a process
    memory, dirty,
    disk             \* what a launch that can read it would find

atomicVars == <<up, memory, dirty, disk>>

AtomicInit ==
    up = FALSE /\ memory = Defaults /\ dirty = FALSE /\ disk \in Data

\* What cannot be read counts as the defaults, and stays on disk.
Launch ==
    /\ ~up /\ up' = TRUE
    /\ memory' \in {disk, Defaults}
    /\ UNCHANGED <<dirty, disk>>

\* A checkbox or a list, or a slider, which leaves its value to be saved.
Change ==
    /\ up
    /\ memory' \in Data /\ dirty' \in {dirty, TRUE}
    /\ UNCHANGED <<up, disk>>

Gone == up' = FALSE /\ memory' = Defaults /\ dirty' = FALSE

\* The one way for the disk to change, and for dirty to fall while there is a
\* process; the last save of a process may end it.
Commit ==
    /\ up
    /\ disk' = memory
    /\ Gone \/ (dirty' = FALSE /\ UNCHANGED <<up, memory>>)

End == up /\ Gone /\ UNCHANGED disk

AtomicNext == Launch \/ Change \/ Commit \/ End

AtomicSpec == AtomicInit /\ [][AtomicNext]_atomicVars
===============================================================================
