----------------------------- MODULE LoopRefsMC -----------------------------
(***************************************************************************)
(* Instances of LoopRefs for TLC: a loop created in any way, whose         *)
(* references pass between three threads when it is protected, and single  *)
(* ways of creating it that the documentation shows.                       *)
(***************************************************************************)
EXTENDS LoopRefs

AllCreations ==
  {[origin |-> "given", safety |-> s] : s \in {-1, 0, 1}}
    \cup {[origin |-> o, safety |-> 0] : o \in {"null", "default"}}

NullOnly == {[origin |-> "null", safety |-> 0]}

DefaultOnly == {[origin |-> "default", safety |-> 0]}

=============================================================================
