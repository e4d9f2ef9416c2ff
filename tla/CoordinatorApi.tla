--------------------------- MODULE CoordinatorApi ---------------------------
(***************************************************************************)
(* What AdjustmentCoordinator.h offers its callers: the parameters, the    *)
(* two special answers of GetValue, and the helpers of its anonymous       *)
(* namespace (AdjustmentCoordinator.cpp:18-41).                            *)
(***************************************************************************)
EXTENDS Integers, FiniteSets

Params == {"Brightness", "Contrast", "Saturation", "RedGain", "GreenGain",
           "BlueGain", "Volume"}

\* The parameters a scroll moves until a checkbox says otherwise.
ScrolledByDefault == {"Brightness", "Contrast", "Saturation"}

kValueUnsupported == -1
kValueMixed       == -2

\* Mutant: no clamping.
Unclamped(value) == value

Clamp(value) == IF value < 0 THEN 0 ELSE IF value > 100 THEN 100 ELSE value

InExplicitScope(channelMonitorIndex, scope) ==
    scope < 0 \/ channelMonitorIndex = scope

\* The channels of a parameter that a scope takes in.
MatchingIn(channels, param, scope) ==
    { i \in DOMAIN channels :
        /\ channels[i].param = param
        /\ InExplicitScope(channels[i].monitorIndex, scope) }

\* What they show: their common percentage, if they have one.
ValueIn(channels, param, scope) ==
    LET shown == { channels[i].current : i \in MatchingIn(channels, param, scope) }
    IN  IF shown = {} THEN kValueUnsupported
        ELSE IF Cardinality(shown) = 1 THEN CHOOSE v \in shown : TRUE
        ELSE kValueMixed
=============================================================================
