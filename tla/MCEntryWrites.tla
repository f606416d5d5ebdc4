--------------------------- MODULE MCEntryWrites ---------------------------
(* Instances of EntryWrites for TLC.                                        *)
EXTENDS EntryWrites, TLC

FactoryBlack == {[c \in Channels |-> 0]}
Symmetry == Permutations(Values) \cup Permutations(Writers) \cup Permutations(Painters)
=============================================================================
