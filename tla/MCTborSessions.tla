--------------------------- MODULE MCTborSessions ---------------------------
(* TborSessions for TLC: tasks and vault slots are interchangeable. *)
EXTENDS TborSessions, TLC

Symmetry == Permutations(Io) \cup Permutations(KeyId)
=============================================================================
