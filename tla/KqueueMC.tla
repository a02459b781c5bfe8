------------------------------ MODULE KqueueMC ------------------------------
(***************************************************************************)
(* Instances of Kqueue for TLC: watchers over recycled descriptors next to *)
(* a timer with two phases.                                                *)
(***************************************************************************)
EXTENDS Kqueue
=============================================================================
