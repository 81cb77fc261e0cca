----------------------------- MODULE EnginePool -----------------------------
(***************************************************************************)
(* What the public-key engine pool (drivers/upka) promises its callers,    *)
(* without ring, cursors, wakers or polls: an engine is free, kept for a   *)
(* caller that asked for it by number, or held by one task; tasks that     *)
(* find no free engine stand in line and are served in order of arrival.   *)
(***************************************************************************)
CONSTANTS
    Tasks,     \* the callers
    Engines,   \* the engines
    NoEngine   \* no engine

VARIABLES
    free,      \* engines nobody uses or waits for
    wanted,    \* engines a caller by number waits for
    kept,      \* engines that were released to such a caller
    holds,     \* the engine of each task, or NoEngine
    line,      \* tasks that wait for any engine
    ahead      \* for each of them, those in line before it

pool == <<free, wanted, kept, holds, line, ahead>>

Init ==
    /\ free = Engines /\ wanted = {} /\ kept = {}
    /\ holds = [t \in Tasks |-> NoEngine]
    /\ line = {} /\ ahead = [t \in Tasks |-> {}]

\* The task neither holds an engine nor stands in line.
Outside(t) == holds[t] = NoEngine /\ t \notin line

Hold(t, e) == holds' = [holds EXCEPT ![t] = e]

\* A free engine is taken: nobody stood in line for it.
Claim(t, e) ==
    /\ Outside(t) /\ e \in free /\ line = {}
    /\ free' = free \ {e} /\ Hold(t, e)
    /\ UNCHANGED <<wanted, kept, line, ahead>>

\* A caller by number takes the engine that was kept.
ClaimKept(t, e) ==
    /\ Outside(t) /\ e \in kept
    /\ kept' = kept \ {e} /\ Hold(t, e)
    /\ UNCHANGED <<free, wanted, line, ahead>>

\* A caller by number waits, one for each engine.
Want(t, e) ==
    /\ Outside(t) /\ e \in Engines \ (free \cup kept \cup wanted)
    /\ wanted' = wanted \cup {e}
    /\ UNCHANGED <<free, kept, holds, line, ahead>>

\* With no engine free the task goes to the end of the line.
StandInLine(t) ==
    /\ Outside(t) /\ free = {}
    /\ line' = line \cup {t}
    /\ ahead' = [ahead EXCEPT ![t] = line]
    /\ UNCHANGED <<free, wanted, kept, holds>>

\* Released with nobody waiting.
Free(t, e) ==
    /\ holds[t] = e /\ e \in Engines
    /\ e \notin wanted /\ line = {}
    /\ free' = free \cup {e} /\ Hold(t, NoEngine)
    /\ UNCHANGED <<wanted, kept, line, ahead>>

\* Released to the caller by number, who goes before the line.
Keep(t, e) ==
    /\ holds[t] = e /\ e \in wanted
    /\ wanted' = wanted \ {e} /\ kept' = kept \cup {e}
    /\ Hold(t, NoEngine)
    /\ UNCHANGED <<free, line, ahead>>

\* Released to the first task in line.
HandOver(t, e, u) ==
    /\ holds[t] = e /\ e \in Engines \ wanted
    /\ u \in line /\ ahead[u] = {}
    /\ holds' = [holds EXCEPT ![t] = NoEngine, ![u] = e]
    /\ line' = line \ {u}
    /\ ahead' = [v \in Tasks |-> ahead[v] \ {u}]
    /\ UNCHANGED <<free, wanted, kept>>

Next ==
    \E t \in Tasks :
        \/ StandInLine(t)
        \/ \E e \in Engines :
              \/ Claim(t, e) \/ ClaimKept(t, e) \/ Want(t, e)
              \/ Free(t, e) \/ Keep(t, e)
              \/ \E u \in line : HandOver(t, e, u)

Spec == Init /\ [][Next]_pool
=============================================================================
