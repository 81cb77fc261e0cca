---------------------------- MODULE MCResiliency ----------------------------
(* Instances of Resiliency for TLC: to which process a thread or key belongs,
   and who uses which key.                                                  *)
EXTENDS Resiliency, TLC

CONSTANTS p1, p2, t1, t2, t3, t4, k1, k2

\* Two processes: t1 and t2 use and delete k1 (and are interchangeable), t3 of
\* the same process deletes it; t4 makes k2, opens and closes the session of its
\* process and crashes and restarts it.
PairProcOf == [t \in Threads |-> IF t = t4 THEN p2 ELSE p1]

PairKeyProc == [k \in Keys |-> IF k = k2 THEN p2 ELSE p1]

PairUses == {t1, t2} \X {k1}

PairSymmetry == Permutations({t1, t2})

\* One process whose threads share every key.
SoloProcOf == [t \in Threads |-> p1]

SoloKeyProc == [k \in Keys |-> p1]

SoloUses == Threads \X Keys
=============================================================================
