---------------------------- MODULE LoopWakeupMC ----------------------------
(***************************************************************************)
(* Instances of LoopWakeup for TLC: watched descriptors and the eventfd    *)
(* compete for a wait that returns at most MaxEvents entries, and other    *)
(* threads stop the loop and send it data.                                 *)
(***************************************************************************)
EXTENDS LoopWakeup
=============================================================================
