----------------------------- MODULE VcpScaling -----------------------------
(***************************************************************************)
(* Percent <-> raw device units (src/src/ddc/VcpScaling.h): integer math   *)
(* in uint32_t, half-up rounding, a zero maximum read as 100.  UintMod is  *)
(* the modulus of the unsigned type, 2^32 in the build; TLC's integers are *)
(* 32 bits signed, so the model-checked instances use a narrower one.      *)
(***************************************************************************)
EXTENDS Integers

CONSTANT UintMod

\* The unsigned type holds a DDC/CI maximum (two bytes) times a percentage.
ASSUME UintModAssumption == UintMod \in Nat /\ UintMod > 10100

\* A broken reply (maximum 0) is read as 100 by both conversions.
DeviceRange(max) == IF max = 0 THEN 100 ELSE max

\* Mutant: the half of the divisor is not added.
ToRawTruncating(percent, max) ==
    IF percent <= 0 THEN 0
    ELSE IF percent >= 100 THEN DeviceRange(max)
    ELSE ((percent * DeviceRange(max)) % UintMod) \div 100

ToRaw(percent, max) ==
    IF percent <= 0 THEN 0
    ELSE IF percent >= 100 THEN DeviceRange(max)
    ELSE ((percent * DeviceRange(max) + 50) % UintMod) \div 100

\* Mutant: the half of the divisor is not added.
ToPercentTruncating(raw, max) ==
    IF raw >= DeviceRange(max) THEN 100
    ELSE ((raw * 100) % UintMod) \div DeviceRange(max)

ToPercent(raw, max) ==
    IF raw >= DeviceRange(max) THEN 100
    ELSE ((raw * 100 + DeviceRange(max) \div 2) % UintMod) \div DeviceRange(max)

\* The ranges whose intermediate products fit the unsigned type.  A DDC/CI
\* reply carries the maximum in two bytes, so every real panel is one.
NoWrap(max) == 101 * DeviceRange(max) < UintMod
=============================================================================
