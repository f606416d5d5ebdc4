---------------------------- MODULE MCConfigFlows ----------------------------
(* A small instance of ConfigFlows for TLC.                                *)
EXTENDS ConfigFlows, TLC

\* devices and dialogs are interchangeable
Symmetry == Permutations(Devices) \cup Permutations(Flows)
=============================================================================
