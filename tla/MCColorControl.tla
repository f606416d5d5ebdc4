--------------------------- MODULE MCColorControl ---------------------------
(* Instances of ColorControl for TLC.  Painters and device values are only  *)
(* compared for equality; colors are not symmetric, the tolerance orders    *)
(* their channels.                                                          *)
EXTENDS ColorControl, TLC

Black == [c \in Channels |-> 0]
FactoryBlack == {Black}
Symmetry == Permutations(Painters) \cup Permutations(Values) \cup Permutations(Slots)
=============================================================================
