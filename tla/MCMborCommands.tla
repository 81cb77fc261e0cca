--------------------------- MODULE MCMborCommands ---------------------------
(* Instances of MborCommands for TLC.                                       *)
EXTENDS MborCommands, TLC

Symmetry == Permutations(Tasks) \cup Permutations(Pins)
=============================================================================
