-------------------------- MODULE MCDeviceControl --------------------------
(* Instances of DeviceControl for TLC: the field values are compared for    *)
(* equality only and the writers are alike, so both are symmetric.          *)
EXTENDS DeviceControl, TLC

Symmetry == Permutations(Writers) \cup Permutations(Values) \cup Permutations(Devices)
=============================================================================
