---------------------------- MODULE ScalingSweep ----------------------------
(***************************************************************************)
(* Every percentage against a set of device maxima: what the conversions   *)
(* of VcpScaling promise each other.                                       *)
(***************************************************************************)
EXTENDS VcpScaling

CONSTANT Maxima

\* The maxima of DDC/CI replies: no product of the conversions wraps.
ASSUME MaximaAssumption == Maxima \subseteq {max \in Nat : NoWrap(max)}

VARIABLES percent, max

SweepInit == percent = 0 /\ max \in Maxima
SweepNext == percent < 100 /\ percent' = percent + 1 /\ UNCHANGED max
SweepSpec == SweepInit /\ [][SweepNext]_<<percent, max>>

(* ToRaw rounds to the nearest device unit, halves up                      *)
(* (VcpScaling.h:17, 35).                                                  *)
NearestHalfUp ==
    100 * ToRaw(percent, max) - percent * DeviceRange(max) \in -49 .. 50

(* On a panel with at least 100 units, a percentage written and read back  *)
(* by the next enumeration is the same percentage: sliders do not creep    *)
(* across a hot-plug (VcpScaling.h:24-49, AdjustmentCoordinator.cpp:366).  *)
PercentRoundTrip ==
    DeviceRange(max) >= 100 => ToPercent(ToRaw(percent, max), max) = percent

(* On a coarser panel it is the device value that survives: writing back   *)
(* the percentage shown for a register leaves the register as it was       *)
(* (VcpScaling.h:24-49).                                                   *)
RawRoundTrip ==
    DeviceRange(max) <= 100 =>
        \A raw \in 0 .. DeviceRange(max) : ToRaw(ToPercent(raw, max), max) = raw
=============================================================================
