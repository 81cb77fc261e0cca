----------------------------- MODULE MCUpkaPool -----------------------------
(* UpkaPool with four tasks, three of which also ask for engines by number *)
(* as often as they like: enough for two waiters behind two busy engines,  *)
(* a full ring, a ring entry freed before an older one, a numbered engine  *)
(* taken by another caller than the one it was assigned to, and calls by   *)
(* number that keep both engines from the ring for ever.                   *)
EXTENDS UpkaPool

CONSTANTS t1, t2, t3, t4

MCTasks == {t1, t2, t3, t4}
MCSpecificCalls == {<<t1, 0>>, <<t2, 0>>, <<t2, 1>>, <<t3, 1>>}

=============================================================================
