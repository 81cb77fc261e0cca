-------------------------- MODULE MCTborCommands ---------------------------
(* Instances of TborCommands for TLC: model values and their symmetries.   *)
EXTENDS TborCommands, TLC

\* IO slots are interchangeable; vault slots are not (they are scanned in order).
Symmetry == Permutations(Io)
=============================================================================
