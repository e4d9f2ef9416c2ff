------------------------------- MODULE VcpBus -------------------------------
(***************************************************************************)
(* The DDC/CI transport LiteDDC talks through: the VCP codes it knows      *)
(* (VcpCodes.h), the dxva2 calls behind IVcpBus (NativeMonitorApi.cpp) and *)
(* the classification of their errors (DdcErrors.h).                       *)
(*                                                                         *)
(* A physical monitor handle routes to the panel it was acquired for until *)
(* Windows drops the panel ("gone") or DestroyPhysicalMonitors releases it *)
(* ("free").  panelValue is the panels' own registers: what each holds,    *)
(* and what it replies, which may lag behind a write                       *)
(* (AdjustmentCoordinator.cpp:503-504).                                    *)
(***************************************************************************)
EXTENDS VcpScaling, FiniteSets

CONSTANTS
    Panels,      \* the physical panels
    Handles,     \* the physical monitor handles Windows can hand out
    Answers,     \* Answers[p]: the codes panel p answers on the bus
    RawMax,      \* RawMax[p][c]: the maximum p replies for c, 0 when broken
    Faulty,      \* the pairs <<p, c>> whose transactions may fail
    PowerOnRaw,  \* the register values a panel may come up with
    ReadsLag     \* whether a read after a write may still get the old value

VARIABLES routes, panelValue

-----------------------------------------------------------------------------
\* VcpCodes.h, with its numbers.
Brightness     == 16
Contrast       == 18
RedGain        == 22
GreenGain      == 24
BlueGain       == 26
Volume         == 98
SaturationAxes == 89 .. 94
Codes == {Brightness, Contrast, RedGain, GreenGain, BlueGain, Volume}
            \cup SaturationAxes

ASSUME BusAssumption ==
    /\ Answers \in [Panels -> SUBSET Codes]
    /\ \A p \in Panels : RawMax[p] \in [Answers[p] -> Nat]
    /\ PowerOnRaw \subseteq Nat
    /\ ReadsLag \in BOOLEAN
    /\ Panels \cap {"free", "gone"} = {}

-----------------------------------------------------------------------------
(* DdcErrors.h.  "unlisted" stands for every code its switch does not name *)
(* and "none" for the 0 that means success.                                *)
TerminalErrors  == {"VcpNotSupported", "InvalidPhysicalMonitorHandle",
                    "MonitorNoLongerExists", "UnsupportedVcpCodeLegacy"}
TransientErrors == {"Timeout", "I2cFailure"}
Errors == TerminalErrors \cup TransientErrors \cup {"unlisted", "none"}

Classify(error) ==
    CASE error = "none"             -> "Success"
      [] error \in TransientErrors  -> "Transient"
      [] OTHER                      -> "Terminal"

-----------------------------------------------------------------------------
Registers == [holds : Nat, replies : Nat]

PowerOn(p) == [Answers[p] -> {[holds |-> r, replies |-> r] : r \in PowerOnRaw}]

Routed(h) == routes[h] \in Panels

\* A transaction with code c through handle h can succeed ...
Answering(h, c) == Routed(h) /\ c \in Answers[routes[h]]
\* ... and does, unless the pair is listed as faulty.
Reliable(h, c) == Answering(h, c) /\ <<routes[h], c>> \notin Faulty

(* The sets of codes that may reply to a scan of handle h.  ReadVcp gives  *)
(* nullopt on any failure, an unsupported code being an ordinary one.      *)
ReplySets(h) ==
    { replied \in SUBSET {c \in Codes : Answering(h, c)} :
        \A c \in Codes : Reliable(h, c) => c \in replied }

Register(h, c) == panelValue[routes[h]][c]

Reading(h, c) == [current |-> Register(h, c).replies,
                  maximum |-> RawMax[routes[h]][c]]

Stored(old, raw) ==
    [holds |-> raw, replies |-> IF ReadsLag THEN old.replies ELSE raw]

Store(h, c, raw) ==
    panelValue' = [panelValue EXCEPT ![routes[h]][c] = Stored(@, raw)]

\* A register replies with what was last written to it again.
PanelCatchesUp ==
    \E p \in Panels : \E c \in Answers[p] :
        /\ panelValue[p][c].replies # panelValue[p][c].holds
        /\ panelValue' = [panelValue EXCEPT
                            ![p][c].replies = panelValue[p][c].holds]

(* WriteVcp: SetVCPFeature either succeeds, or fails with whatever         *)
(* GetLastError says; a failed transaction may still have reached the      *)
(* panel when only its acknowledgement was lost.                           *)
WriteSucceeds(h, c, raw) ==
    /\ Answering(h, c)
    /\ Store(h, c, raw)

WriteFails(h, c, raw) ==
    /\ ~Reliable(h, c)
    /\ \/ UNCHANGED panelValue
       \/ Answering(h, c) /\ Store(h, c, raw)
=============================================================================
