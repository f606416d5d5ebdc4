------------------------ MODULE MCControllerSession ------------------------
(* Instances of ControllerSession for TLC: one refresh, one service call.   *)
EXTENDS ControllerSession, TLC

Symmetry == Permutations(Pollers) \cup Permutations(Writers)
=============================================================================
