---------------------------- MODULE MCUnoSessions ----------------------------
(* Instances of UnoSessions for TLC.                                        *)
EXTENDS UnoSessions, TLC

Symmetry == Permutations(Tasks)
=============================================================================
