-------------------------- MODULE MCRefreshRepairs --------------------------
(* Instances of RefreshRepairs for TLC: switches and callers are alike.     *)
EXTENDS RefreshRepairs, TLC

Symmetry == Permutations(Devices) \cup Permutations(Callers)
=============================================================================
