--------------------------- MODULE MCCoordinator ---------------------------
(***************************************************************************)
(* Instances of AdjustmentCoordinator for TLC.                             *)
(***************************************************************************)
EXTENDS CoordinatorRefinement, TLC

CONSTANTS p1, p2, h1, h2, h3, h4

HandleSymmetry == Permutations({h1, h2, h3, h4})

\* Two panels with brightness only, their ranges 100 and 50.
BrightnessOnly == (p1 :> {Brightness}) @@ (p2 :> {Brightness})
Ranges == (p1 :> (Brightness :> 100)) @@ (p2 :> (Brightness :> 50))
\* Side by side, mirrored, and one unplugged.
TwoPanelLayouts == { <<<<p1>>, <<p2>>>>, <<<<p1, p2>>>>, <<<<p2>>>> }

\* One panel with brightness only.
OneBrightness == (p1 :> {Brightness})
OneRange == (p1 :> (Brightness :> 100))

\* One panel with three saturation axes, whose first may fail and replies a
\* broken maximum, and whose others each have one of their own.
Axes == (p1 :> {89, 91, 94})
BrokenRange == (p1 :> ((89 :> 0) @@ (91 :> 100) @@ (94 :> 255)))
FaultyAxes == {<<p1, 89>>}
OnePanel == { <<<<p1>>>> }
UnpluggedOrNot == { <<>>, <<<<p1>>>> }
=============================================================================
