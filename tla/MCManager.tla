----------------------------- MODULE MCManager -----------------------------
(***************************************************************************)
(* Instances of MonitorManager for TLC.                                    *)
(***************************************************************************)
EXTENDS MonitorManager, TLC

CONSTANTS laptop, tv, desk

HandleSymmetry == Permutations(Handles)

NoAnswers == [p \in Panels |-> {}]
NoRange == [p \in Panels |-> [c \in {} |-> 0]]

\* A laptop panel, alone, mirrored to a television in either order, and
\* beside it, with a desk monitor or without.
LaptopLayouts ==
    { <<<<laptop>>>>, <<<<laptop, tv>>>>, <<<<tv, laptop>>>>,
      <<<<laptop>>, <<tv>>>>, <<<<laptop, tv>>, <<desk>>>>,
      <<<<desk>>>>, <<>> }
=============================================================================
