----------------------- MODULE CoordinatorRefinement -----------------------
(***************************************************************************)
(* AdjustmentCoordinator as its callers see it: the mapping under which it *)
(* implements CoordinatorView.                                             *)
(***************************************************************************)
EXTENDS AdjustmentCoordinator

(* The channels as callers see them, and where the worker is.              *)
Shown == [i \in DOMAIN m_channels |->
            [param |-> m_channels[i].param, current |-> m_channels[i].current,
             monitorIndex |-> m_channels[i].monitorIndex]]

Stage == CASE worker = "refresh" -> "refreshing"
           [] worker = "build"   -> "building"
           [] OTHER              -> "idle"

View == INSTANCE CoordinatorView WITH
            m_channels <- Shown, listed <- Len(m_monitors), stage <- Stage,
            MonitorCounts <- Nat,
            ChannelLists <- Seq([param : Params, monitorIndex : Nat,
                                 current : Percent])

(* What the UI thread sees of the coordinator is what CoordinatorView      *)
(* promises: cached values change only by its own calls and by a swap that *)
(* follows a refresh, and a new worker only follows a finished one         *)
(* (AdjustmentCoordinator.cpp:49-131, 133-213, 456-482).                   *)
ImplementsView == View!ViewSpec
=============================================================================
