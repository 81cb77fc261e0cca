------------------------------ MODULE UpkaPool ------------------------------
(***************************************************************************)
(* The public-key engine pool of the Uno platform (drivers/upka): tasks of *)
(* the cooperative executor acquire one of the hardware engines, run       *)
(* commands on it, wipe it and release it.  A release hands the engine to  *)
(* the task that waits for it by number, or else to the oldest entry of a  *)
(* ring of waiters; a task that cannot be served registers a waker and is  *)
(* polled again only when that waker is woken.                             *)
(*                                                                         *)
(* The driver's state is in a SingleCell and every poll runs to its next   *)
(* await without interruption, so one action is one poll.  Interrupts are  *)
(* polled by a task of their own (pal.rs run), which is the action         *)
(* WakeEngine.  Futures of this driver are never dropped half-way: the     *)
(* executor's tasks run to completion.                                     *)
(***************************************************************************)
EXTENDS Integers, FiniteSets

CONSTANTS
    Tasks,           \* the executor's tasks that use the driver
    NoTask,          \* an empty WakerRegistration
    ENGINES,         \* number of engines
    DEPTH,           \* capacity of the ring of waiters
    CursorMod,       \* the ring's cursors wrap here (2^8 in the code)
    MaxCommands,     \* bound: commands of one operation before its wipe
    SpecificCalls    \* which tasks ask for which engines by number, any number
                     \* of times

ASSUME TaskAssumption ==
    NoTask \notin Tasks /\ SpecificCalls \subseteq Tasks \X (0 .. ENGINES - 1)
ASSUME RingAssumption ==
    /\ ENGINES \in Nat \ {0} /\ DEPTH \in Nat \ {0}
    /\ CursorMod \in Nat /\ CursorMod > DEPTH /\ CursorMod % DEPTH = 0
    /\ MaxCommands \in Nat

Engines == 0 .. ENGINES - 1
Slots == 0 .. DEPTH - 1
NoEngine == -1
NoSlot == -1

VARIABLES
    free,      \* free_mask, as a set
    slot,      \* engine_slots: in use, completion armed, captured status
    waiter,    \* specific_waiters: waiting, assigned
    queue,     \* queue_slots: free, pending, or assigned to an engine
    head,      \* queue_head
    tail,      \* queue_tail
    busy,      \* engines whose BUSY bit is set
    mem,       \* what each engine's memory holds
    ewaker,    \* the wakers of engine_slots,
    swaker,    \*   of specific_waiters
    qwaker,    \*   and of queue_slots
    woken,     \* tasks the executor will poll
    pc,        \* where each task's call is
    eng,       \* the engine it holds, or waits for by number
    idx,       \* its entry in the ring (acquire_any's queue_idx)
    left       \* commands its operation still has to run

ring == <<queue, head, tail>>
wakers == <<ewaker, swaker, qwaker>>
vars == <<free, slot, waiter, ring, busy, mem, wakers, woken, pc, eng, idx, left>>

-----------------------------------------------------------------------------
(* The records of pool.rs.                                                 *)

IdleSlot == [inUse |-> FALSE, armed |-> FALSE, status |-> "none"]

\* mark_in_use(false): the engine has an owner that has issued nothing yet.
InUse == [inUse |-> TRUE, armed |-> FALSE, status |-> "none"]

\* arm_completion_wait, just before a command is issued.
Armed == [inUse |-> TRUE, armed |-> TRUE, status |-> "none"]

FreeEntry == [st |-> "free", engine |-> NoEngine]
Pending == [st |-> "pending", engine |-> NoEngine]
Assigned(e) == [st |-> "assigned", engine |-> e]

SlotStates ==
    {IdleSlot, InUse, Armed} \cup [inUse : {TRUE}, armed : {TRUE}, status : {"ok", "err"}]
Entries == {FreeEntry, Pending} \cup {Assigned(e) : e \in Engines}

-----------------------------------------------------------------------------
(* The ring of waiters.                                                    *)

\* Mutant: the cursors do not wrap.
AdvanceUnwrapped(c, n) == c + n

\* n times wrapping_add(1) on a cursor.
Advance(c, n) == (c + n) % CursorMod

\* queue_index of the cursor k steps after queue_head.
Index(k) == Advance(head, k) % DEPTH

\* queue_tail.wrapping_sub(queue_head): entries between the cursors.
Length == (tail - head) % CursorMod

\* Mutant: one waiter too many.
QueueIsFullTooLate == Length > DEPTH

QueueIsFull == Length >= DEPTH

\* Mutant: the scan for a waiter starts one entry late.
PendingAtSkipsHead == {k \in 1 .. Length - 1 : queue[Index(k)].st = "pending"}

\* Offsets from the head of the waiters that have no engine yet, in order.
PendingAt == {k \in 0 .. Length - 1 : queue[Index(k)].st = "pending"}

HasAnyWaiters == PendingAt # {}

\* Mutant: the youngest waiter is served.
LastPending == CHOOSE k \in PendingAt : \A j \in PendingAt : k >= j

\* The waiter a released engine goes to.
FirstPending == CHOOSE k \in PendingAt : \A j \in PendingAt : k <= j

\* Mutant: the head moves one entry whichever was freed.
HeadAfterOne(q) == Advance(head, 1)

\* clear_queue_entry: free the entry, then move the head past free entries.
HeadAfter(q) ==
    LET taken == {k \in 0 .. Length - 1 : Index(k) # q /\ queue[Index(k)].st # "free"}
        skip == IF taken = {} THEN Length ELSE CHOOSE k \in taken : \A j \in taken : k <= j
    IN  Advance(head, skip)

ClearQueueEntry(q) ==
    /\ queue' = [queue EXCEPT ![q] = FreeEntry]
    /\ head' = HeadAfter(q)
    /\ tail' = tail

-----------------------------------------------------------------------------
(* Wakers (embassy_sync's WakerRegistration, modelled from its use).       *)

\* Registering over another task's waker wakes that task.
Displaced(w, t) == {w} \ {t, NoTask}

WokenBy(w) == {w} \ {NoTask}

\* EngineSlot::register_waiter.
RegisterWaiter(e, t) == ewaker' = [ewaker EXCEPT ![e] = t]

\* Mutant: the poll that joins the ring leaves no waker.
RegisterEntryLost(q, t) == UNCHANGED qwaker

\* QueueSlot::register_waiter.
RegisterEntry(q, t) == qwaker' = [qwaker EXCEPT ![q] = t]

-----------------------------------------------------------------------------
Init ==
    /\ free = Engines
    /\ slot = [e \in Engines |-> IdleSlot]
    /\ waiter = [e \in Engines |-> [waiting |-> FALSE, assigned |-> FALSE]]
    /\ queue = [q \in Slots |-> FreeEntry]
    /\ head = 0 /\ tail = 0
    /\ busy = {}
    /\ mem = [e \in Engines |-> "clean"]
    /\ ewaker = [e \in Engines |-> NoTask]
    /\ swaker = [e \in Engines |-> NoTask]
    /\ qwaker = [q \in Slots |-> NoTask]
    /\ woken = {}
    /\ pc = [t \in Tasks |-> "idle"]
    /\ eng = [t \in Tasks |-> NoEngine]
    /\ idx = [t \in Tasks |-> NoSlot]
    /\ left = [t \in Tasks |-> 0]

\* execute_cmd up to its first await: arm the slot, submit the command, and
\* register for its completion.  n commands of the operation remain; the wipe
\* of release comes after the last one.
Issue(t, e, kind, n) ==
    /\ slot' = [slot EXCEPT ![e] = Armed]
    /\ busy' = busy \cup {e}
    /\ mem' = [mem EXCEPT ![e] = IF kind = "op" THEN "dirty" ELSE @]
    /\ RegisterWaiter(e, t)
    /\ pc' = [pc EXCEPT ![t] = kind]
    /\ eng' = [eng EXCEPT ![t] = e]
    /\ left' = [left EXCEPT ![t] = n]
    /\ woken' = (woken \ {t}) \cup Displaced(ewaker[e], t)

\* The task has the engine: with_engine runs its closure, whose first command
\* is issued in the same poll; a closure that rejects its input issues none.
Begin(t, e) ==
    \/ \E n \in 1 .. MaxCommands : Issue(t, e, "op", n - 1)
    \/ Issue(t, e, "wipe", 0)

\* The call returns: the task is done with the driver.
Return(t) ==
    /\ pc' = [pc EXCEPT ![t] = "idle"]
    /\ eng' = [eng EXCEPT ![t] = NoEngine]
    /\ UNCHANGED left

-----------------------------------------------------------------------------
(* acquire_any.                                                            *)

\* First poll, with a free engine and nobody queued before: take the lowest.
ClaimFreeEngine(t) ==
    /\ pc[t] = "idle"
    /\ ~HasAnyWaiters
    /\ free # {}
    /\ LET e == CHOOSE e \in free : \A f \in free : e <= f
       IN  free' = free \ {e} /\ Begin(t, e)
    /\ UNCHANGED <<waiter, ring, swaker, qwaker, idx>>

\* Mutant: a caller queues although an engine is free.
MustWaitAlways == TRUE

MustWait == HasAnyWaiters \/ free = {}

\* First poll, otherwise: reserve the entry at the tail and register.
JoinQueue(t) ==
    /\ pc[t] = "idle"
    /\ MustWait
    /\ ~QueueIsFull
    /\ LET q == tail % DEPTH
       IN  /\ queue' = [queue EXCEPT ![q] = Pending]
           /\ RegisterEntry(q, t)
           /\ idx' = [idx EXCEPT ![t] = q]
           /\ woken' = (woken \ {t}) \cup Displaced(qwaker[q], t)
    /\ tail' = Advance(tail, 1)
    /\ pc' = [pc EXCEPT ![t] = "queued"]
    /\ UNCHANGED <<free, slot, waiter, head, busy, mem, ewaker, swaker, eng, left>>

\* A later poll: leave the ring with the engine it has been assigned.
TakeAssigned(t) ==
    /\ pc[t] = "queued" /\ t \in woken
    /\ queue[idx[t]].st = "assigned"
    /\ Begin(t, queue[idx[t]].engine)
    /\ ClearQueueEntry(idx[t])
    /\ idx' = [idx EXCEPT ![t] = NoSlot]
    /\ UNCHANGED <<free, waiter, swaker, qwaker>>

-----------------------------------------------------------------------------
(* acquire_engine, for wipe_engine and with_specific_engine.               *)

\* Any poll of the call: an engine assigned to "the waiter" is taken by
\* whichever caller polls first.
TakeSpecific(t, e) ==
    /\ waiter[e].assigned
    /\ waiter' = [waiter EXCEPT ![e].assigned = FALSE]
    /\ UNCHANGED free
    /\ Begin(t, e)

TakeFreeSpecific(t, e) ==
    /\ ~waiter[e].assigned /\ e \in free
    /\ free' = free \ {e}
    /\ UNCHANGED waiter
    /\ Begin(t, e)

StartSpecific(t, e) ==
    /\ pc[t] = "idle" /\ <<t, e>> \in SpecificCalls
    /\ TakeSpecific(t, e) \/ TakeFreeSpecific(t, e)
    /\ UNCHANGED <<ring, swaker, qwaker, idx>>

\* The first poll finds the engine busy: become its one registered waiter.
WaitSpecific(t, e) ==
    /\ pc[t] = "idle" /\ <<t, e>> \in SpecificCalls
    /\ ~waiter[e].assigned /\ e \notin free
    /\ ~waiter[e].waiting
    /\ waiter' = [waiter EXCEPT ![e].waiting = TRUE]
    /\ swaker' = [swaker EXCEPT ![e] = t]
    /\ woken' = (woken \ {t}) \cup Displaced(swaker[e], t)
    /\ pc' = [pc EXCEPT ![t] = "specific"]
    /\ eng' = [eng EXCEPT ![t] = e]
    /\ UNCHANGED <<free, slot, ring, busy, mem, ewaker, qwaker, idx, left>>

\* A later poll of a registered caller.
ResumeSpecific(t) ==
    /\ pc[t] = "specific" /\ t \in woken
    /\ TakeSpecific(t, eng[t]) \/ TakeFreeSpecific(t, eng[t])
    /\ UNCHANGED <<ring, swaker, qwaker, idx>>

RepollSpecific(t) ==
    /\ pc[t] = "specific" /\ t \in woken
    /\ ~waiter[eng[t]].assigned /\ eng[t] \notin free
    /\ swaker' = [swaker EXCEPT ![eng[t]] = t]
    /\ woken' = (woken \ {t}) \cup Displaced(swaker[eng[t]], t)
    /\ UNCHANGED <<free, slot, waiter, ring, busy, mem, ewaker, qwaker, pc, eng, idx, left>>

-----------------------------------------------------------------------------
(* Commands and their completion.                                          *)

\* The hardware finishes the command or reports an error (external), and the
\* interrupt task's next look, wake_engine_inner, captures the flags.  Nothing
\* else reads them in between.
WakeEngine(e) ==
    /\ e \in busy
    /\ slot[e].inUse /\ slot[e].armed /\ slot[e].status = "none"
    /\ busy' = busy \ {e}
    /\ \E r \in {"ok", "err"} :
          /\ slot' = [slot EXCEPT ![e].status = r]
          /\ mem' = IF r = "ok" /\ \E t \in Tasks : eng[t] = e /\ pc[t] = "wipe"
                    THEN [mem EXCEPT ![e] = "clean"] ELSE mem
    /\ ewaker' = [ewaker EXCEPT ![e] = NoTask]
    /\ woken' = woken \cup WokenBy(ewaker[e])
    /\ UNCHANGED <<free, waiter, ring, swaker, qwaker, pc, eng, idx, left>>

\* poll_completion of a command of the operation: issue the next one, or the
\* wipe of release when there is none left or the command failed.
CommandDone(t) ==
    LET e == eng[t] IN
    /\ pc[t] = "op" /\ t \in woken
    /\ slot[e].status # "none"
    /\ IF slot[e].status = "ok" /\ left[t] > 0
       THEN Issue(t, e, "op", left[t] - 1)
       ELSE Issue(t, e, "wipe", 0)
    /\ UNCHANGED <<free, waiter, ring, swaker, qwaker, idx>>

\* release_engine_and_dispatch, by a task that leaves the driver.
ReleaseAndDispatch(t, e) ==
    \/ /\ waiter[e].waiting
       /\ slot' = [slot EXCEPT ![e] = InUse]
       /\ waiter' = [waiter EXCEPT ![e] = [waiting |-> FALSE, assigned |-> TRUE]]
       /\ swaker' = [swaker EXCEPT ![e] = NoTask]
       /\ woken' = (woken \ {t}) \cup WokenBy(swaker[e])
       /\ UNCHANGED <<free, ring, qwaker>>
    \/ /\ ~waiter[e].waiting
       /\ ~HasAnyWaiters
       /\ slot' = [slot EXCEPT ![e] = IdleSlot]
       /\ free' = free \cup {e}
       /\ woken' = woken \ {t}
       /\ UNCHANGED <<waiter, ring, swaker, qwaker>>
    \/ /\ ~waiter[e].waiting
       /\ HasAnyWaiters
       /\ LET q == Index(FirstPending)
          IN  /\ queue' = [queue EXCEPT ![q] = Assigned(e)]
              /\ qwaker' = [qwaker EXCEPT ![q] = NoTask]
              /\ woken' = (woken \ {t}) \cup WokenBy(qwaker[q])
       /\ slot' = [slot EXCEPT ![e] = InUse]
       /\ UNCHANGED <<free, waiter, head, tail, swaker>>

\* release: the wipe succeeded.
Release(t) ==
    /\ pc[t] = "wipe" /\ t \in woken
    /\ slot[eng[t]].status = "ok"
    /\ ReleaseAndDispatch(t, eng[t])
    /\ Return(t)
    /\ UNCHANGED <<busy, mem, ewaker, idx>>

\* Mutant: the engine is released without the second wipe.
SyncWipeSkipped(e) == UNCHANGED <<mem, busy>>

\* sync_wipe_and_release up to the release: wipe again and spin until the engine
\* is idle.  The result of this wipe is not read.
SyncWipe(e) ==
    /\ \E m \in {"clean", "unwiped"} : mem' = [mem EXCEPT ![e] = m]
    /\ busy' = busy \ {e}

\* release: the wipe failed, so the handle is dropped unreleased.
DropUnreleased(t) ==
    LET e == eng[t] IN
    /\ pc[t] = "wipe" /\ t \in woken
    /\ slot[e].status = "err"
    /\ SyncWipe(e)
    /\ ReleaseAndDispatch(t, e)
    /\ Return(t)
    /\ UNCHANGED <<ewaker, idx>>

Next ==
    \/ \E t \in Tasks :
          \/ ClaimFreeEngine(t) \/ JoinQueue(t) \/ TakeAssigned(t)
          \/ ResumeSpecific(t) \/ RepollSpecific(t)
          \/ CommandDone(t) \/ Release(t) \/ DropUnreleased(t)
    \/ \E t \in Tasks, e \in Engines : StartSpecific(t, e) \/ WaitSpecific(t, e)
    \/ \E e \in Engines : WakeEngine(e)

\* The executor polls every woken task; the hardware finishes every command;
\* the interrupt task never stops polling.  Nothing forces a new call.
Poll(t) ==
    TakeAssigned(t) \/ ResumeSpecific(t) \/ RepollSpecific(t)
        \/ CommandDone(t) \/ Release(t) \/ DropUnreleased(t)

Fairness ==
    /\ \A t \in Tasks : WF_vars(Poll(t))
    /\ \A e \in Engines : WF_vars(WakeEngine(e))

Spec == Init /\ [][Next]_vars /\ Fairness

-----------------------------------------------------------------------------
TypeOK ==
    /\ free \subseteq Engines
    /\ slot \in [Engines -> SlotStates]
    /\ waiter \in [Engines -> [waiting : BOOLEAN, assigned : BOOLEAN]]
    /\ queue \in [Slots -> Entries]
    /\ head \in 0 .. CursorMod - 1 /\ tail \in 0 .. CursorMod - 1
    /\ busy \subseteq Engines
    /\ mem \in [Engines -> {"clean", "dirty", "unwiped"}]
    /\ ewaker \in [Engines -> Tasks \cup {NoTask}]
    /\ swaker \in [Engines -> Tasks \cup {NoTask}]
    /\ qwaker \in [Slots -> Tasks \cup {NoTask}]
    /\ woken \subseteq Tasks
    /\ pc \in [Tasks -> {"idle", "queued", "specific", "op", "wipe"}]
    /\ eng \in [Tasks -> Engines \cup {NoEngine}]
    /\ idx \in [Tasks -> Slots \cup {NoSlot}]
    /\ left \in [Tasks -> 0 .. MaxCommands]

Holders(e) == {t \in Tasks : pc[t] \in {"op", "wipe"} /\ eng[t] = e}

\* Everything that has a claim on an engine.
Claims(e) ==
    {<<"task", t>> : t \in Holders(e)}
      \cup {<<"entry", q>> : q \in {p \in Slots : queue[p] = Assigned(e)}}
      \cup (IF e \in free THEN {<<"free", e>>} ELSE {})
      \cup (IF waiter[e].assigned THEN {<<"waiter", e>>} ELSE {})

\* The queued tasks of a ring entry.
Owners(q) == {t \in Tasks : pc[t] = "queued" /\ idx[t] = q}

\* An engine is exclusive and never lost: at any moment it is free, or held by one
\* task, or assigned to one ring entry, or to its numbered waiter, and to nothing
\* else; and a ring entry belongs to one queued task, or is free.
EngineAccounted ==
    /\ \A e \in Engines : \E c \in Claims(e) : Claims(e) = {c}
    /\ \A q \in Slots :
          IF queue[q].st = "free" THEN Owners(q) = {}
                                  ELSE \E t \in Owners(q) : Owners(q) = {t}

\* An engine that nobody runs commands on is quiet: no command is under way, no
\* completion is awaited, and the last owner's data was wiped unless the hardware
\* refused both wipes.
HandedOverQuiet ==
    \A e \in Engines : Holders(e) = {} =>
        e \notin busy /\ ~slot[e].armed /\ mem[e] # "dirty"

\* acquire_any never makes a task wait beside a free engine: while a ring entry
\* is pending every engine is taken.
NoIdleEngineWhileQueued == HasAnyWaiters => free = {}

\* The ring is served in arrival order: an entry has its engine only when every
\* older one has.
ServedInOrder ==
    \A j, k \in 0 .. Length - 1 :
        j < k /\ queue[Index(j)].st = "pending" => queue[Index(k)].st # "assigned"

\* Nobody is polled for nothing, and nobody who could run is left asleep: a queued
\* task is woken exactly when it has an engine, and a task that awaits a command
\* exactly when its status has been captured.
WokenIffReady ==
    \A t \in Tasks :
        /\ pc[t] = "idle" => t \notin woken
        /\ pc[t] = "queued" => (t \in woken <=> queue[idx[t]].st = "assigned")
        /\ pc[t] \in {"op", "wipe"} => (t \in woken <=> slot[eng[t]].status # "none")

\* Every waiter of the ring gets an engine and leaves the ring, unless every engine
\* is waited for by number again and again: one engine that is in the end left to
\* the ring is enough, whatever the other tasks keep asking for and whatever calls
\* by number do to the other engines.  Without that condition the ring starves,
\* because a release serves the numbered waiter first (release_engine_and_dispatch).
WaitersServed ==
    (\E e \in Engines : <>[](~waiter[e].waiting)) =>
        \A q \in Slots : queue[q].st # "free" ~> queue[q].st = "free"

-----------------------------------------------------------------------------
(* What the pool does for its callers, read off the driver's state.        *)

\* The engine a task holds: from the release that assigned it to its own release.
Holding(t) ==
    CASE pc[t] \in {"op", "wipe"} -> eng[t]
      [] pc[t] = "queued" -> queue[idx[t]].engine
      [] OTHER -> NoEngine

InLine == {t \in Tasks : pc[t] = "queued" /\ queue[idx[t]].st = "pending"}

\* The task's entry comes before the other's on the way from head to tail.
Before(u, t) ==
    \E j, k \in 0 .. Length - 1 : j < k /\ Index(j) = idx[u] /\ Index(k) = idx[t]

Wanted == {e \in Engines : waiter[e].waiting}
Kept == {e \in Engines : waiter[e].assigned}
Held == [t \in Tasks |-> Holding(t)]
Ahead == [t \in Tasks |-> IF t \in InLine THEN {u \in InLine : Before(u, t)} ELSE {}]

Pool == INSTANCE EnginePool WITH
    wanted <- Wanted, kept <- Kept, holds <- Held, line <- InLine, ahead <- Ahead

\* The ring, its wrapping cursors, the entries freed out of order and the polls
\* implement a pool that serves its line in order of arrival (EnginePool): an
\* engine passes from owner to owner without being lost, doubled or left idle,
\* nobody is overtaken, and only a caller by number goes before the line.
ImplementsPool == Pool!Spec

=============================================================================
