----------------------------- MODULE UnoSessions -----------------------------
(***************************************************************************)
(* Sessions and bulk keys of one partition on the Uno platform.            *)
(*                                                                         *)
(* A session slot maps a session id to the vault key that holds its        *)
(* secrets.  A bulk key (AES-GCM, XTS) lives in the fast-path engine, a    *)
(* separate processor reached by messages; the vault keeps only a handle   *)
(* to its engine slot, and a bitmap says which engine slots are taken.     *)
(* The three views must not drift apart, although every command awaits     *)
(* (DMA, engine messages) between its steps, commands interleave at those  *)
(* awaits, and a message or a vault write can fail after its effect.       *)
(*                                                                         *)
(* fp_bulk_lock serialises session_create, session_destroy and the bulk-key*)
(* operations; session_create_pending and session_promote do not take it.  *)
(* The lock is read off the program counters.                              *)
(***************************************************************************)
EXTENDS Naturals, FiniteSets

CONSTANTS
    Tasks,          \* command tasks of the executor
    MaxSessions,    \* session slots 0 .. MaxSessions - 1; slot 0 is the Officer's
    NumIds,         \* vault entries
    NumFp,          \* engine slots the partition owns
    Ops,            \* commands issued in the run
    MaxCommands,    \* bound on commands
    MaxFaults       \* bound on failed messages and vault writes

Slots == 0 .. MaxSessions - 1
Ids == 1 .. NumIds
FpSlots == 1 .. NumFp
NoTag == 0

ASSUME ConstantsAssumption ==
    /\ MaxSessions \in Nat \ {0, 1}
    /\ NumIds \in Nat
    /\ NumFp \in Nat
    /\ MaxCommands \in Nat
    /\ MaxFaults \in Nat

VARIABLES
    slot,           \* SessionTable: state and physical id of each slot, and
                    \* the session in it (history: see Opened)
    vault,          \* KeyVault: session blobs and bulk-key handles
    fpBits,         \* FP_SLOTS: engine slots taken
    engine,         \* engine: the bulk key in each slot, and its session id
    task,           \* the command each task runs
    made,           \* commands so far (names bulk keys; the bound)
    faults          \* failures so far

vars == <<slot, vault, fpBits, engine, task, made, faults>>

-----------------------------------------------------------------------------
FreeSlot == [st |-> "free", phys |-> 0, life |-> NoTag]
FreeEntry == [kind |-> "free", sess |-> 0, fp |-> 0, tag |-> NoTag, life |-> NoTag]
Blob == [FreeEntry EXCEPT !.kind = "blob"]
NoEngineKey == [tag |-> NoTag, sess |-> 0, life |-> NoTag]
Idle == [pc |-> "idle", sess |-> 0, id |-> 0, old |-> 0, fp |-> 0, tag |-> NoTag, life |-> NoTag]

\* The slot of a session that command t establishes.  Ids are used again, so
\* `life` tells the sessions of one id apart: the command that opened the session
\* names it.  The code keeps no such number; no guard reads it.
Opened(t) == [st |-> "active", phys |-> task[t].id, life |-> task[t].tag]

At(t, pc) == task[t].pc = pc

Goto(t, pc) == task' = [task EXCEPT ![t].pc = pc]

Return(t) == task' = [task EXCEPT ![t] = Idle]

Fault == faults < MaxFaults /\ faults' = faults + 1

Locked == {"create", "recreate", "rekeys", "reblob", "restage", "unstage",
           "keys", "blob", "slot", "send", "handle", "unsend", "engineDelete"}

LockFree == \A u \in Tasks : task[u].pc \notin Locked

IsLeast(x, S) == x \in S /\ \A y \in S : x <= y

FreeIds == {i \in Ids : vault[i].kind = "free"}

BulkOf(S) == {i \in Ids : vault[i].kind = "bulk" /\ vault[i].sess \in S}

FpOf(S) == {vault[i].fp : i \in S}

Drop(S) == [i \in Ids |-> IF i \in S THEN FreeEntry ELSE vault[i]]

\* Stage a session blob in the lowest free vault entry and go on.
Stage(t, pc) ==
    \E i \in Ids :
        /\ IsLeast(i, FreeIds)
        /\ vault' = [vault EXCEPT ![i] = Blob]
        /\ task' = [task EXCEPT ![t].pc = pc, ![t].id = i]

\* No room, or the copy into the vault failed and the entry was evicted.
StageFails(t) ==
    /\ (FreeIds = {} /\ UNCHANGED faults) \/ Fault
    /\ Return(t)
    /\ UNCHANGED vault

\* A command arrives.
Begin(t, op, pc, s) ==
    /\ op \in Ops
    /\ At(t, "idle")
    /\ made < MaxCommands
    /\ made' = made + 1
    /\ task' = [task EXCEPT ![t] = [pc |-> pc, sess |-> s, id |-> 0, old |-> 0, fp |-> 0,
                                    tag |-> made + 1, life |-> NoTag]]
    /\ UNCHANGED <<slot, vault, fpBits, engine, faults>>

-----------------------------------------------------------------------------
(* session_create_pending: not under fp_bulk_lock                           *)

StartPending(t, officer) ==
    Begin(t, "pending", "pending", IF officer THEN 0 ELSE 1)

PendingStage(t) ==
    /\ At(t, "pending")
    /\ \/ Stage(t, "reserve") /\ UNCHANGED faults
       \/ StageFails(t)
    /\ UNCHANGED <<slot, fpBits, engine, made>>

RoleSlots(s) == IF s = 0 THEN {0} ELSE Slots \ {0}

\* The lowest free slot of the role, else its lowest Pending slot.
Reserve(t) ==
    LET range == RoleSlots(task[t].sess)
        free  == {s \in range : slot[s].st = "free"}
        pend  == {s \in range : slot[s].st = "pending"}
        Install(s) == slot' = [slot EXCEPT ![s] = [FreeSlot EXCEPT !.st = "pending",
                                                                   !.phys = task[t].id]]
    IN
    /\ At(t, "reserve")
    /\ \/ \E s \in Slots : IsLeast(s, free) /\ Install(s) /\ Return(t)
       \/ /\ free = {}
          /\ \E s \in Slots :
               /\ IsLeast(s, pend)
               /\ Install(s)
               /\ task' = [task EXCEPT ![t].pc = "dropOld", ![t].old = slot[s].phys]
       \/ /\ free = {} /\ pend = {}
          /\ task' = [task EXCEPT ![t].pc = "dropOld", ![t].old = task[t].id]
          /\ UNCHANGED slot
    /\ UNCHANGED <<vault, fpBits, engine, made, faults>>

\* Delete a session blob that is no longer mapped; an absent entry or a failed
\* scrub is an error the callers ignore or return.
DropOld(t) ==
    /\ At(t, "dropOld")
    /\ \/ vault' = Drop({task[t].old}) /\ UNCHANGED faults
       \/ Fault /\ UNCHANGED vault
    /\ Return(t)
    /\ UNCHANGED <<slot, fpBits, engine, made>>

-----------------------------------------------------------------------------
(* session_promote: not under fp_bulk_lock                                  *)

StartPromote(t, s) == Begin(t, "promote", "promote", s)

PromoteStage(t) ==
    /\ At(t, "promote")
    /\ \/ slot[task[t].sess].st # "pending" /\ Return(t) /\ UNCHANGED <<vault, faults>>
       \/ /\ slot[task[t].sess].st = "pending"
          /\ (Stage(t, "bind") /\ UNCHANGED faults) \/ StageFails(t)
    /\ UNCHANGED <<slot, fpBits, engine, made>>

\* A slot that is no longer Pending fails the call and leaks the staged blob.
PromoteBind(t) ==
    LET s == task[t].sess IN
    /\ At(t, "bind")
    /\ \/ /\ slot[s].st = "pending"
          /\ slot' = [slot EXCEPT ![s] = Opened(t)]
          /\ task' = [task EXCEPT ![t].pc = "dropOld", ![t].old = slot[s].phys]
       \/ slot[s].st # "pending" /\ Return(t) /\ UNCHANGED slot
    /\ UNCHANGED <<vault, fpBits, engine, made, faults>>

-----------------------------------------------------------------------------
(* session_create: OpenSession and ReopenSession                            *)

StartOpen(t) == Begin(t, "open", "open", 0)

OpenStage(t) ==
    /\ At(t, "open")
    /\ LockFree
    /\ \/ Stage(t, "create") /\ UNCHANGED faults
       \/ StageFails(t)
    /\ UNCHANGED <<slot, fpBits, engine, made>>

Create(t) ==
    LET free == {s \in Slots : slot[s].st = "free"} IN
    /\ At(t, "create")
    /\ \/ \E s \in Slots :
            /\ IsLeast(s, free)
            /\ slot' = [slot EXCEPT ![s] = Opened(t)]
            /\ Return(t)
       \/ free = {} /\ Goto(t, "unstage") /\ UNCHANGED slot
    /\ UNCHANGED <<vault, fpBits, engine, made, faults>>

\* The slot could not be (re)created: the staged blob is deleted again.
Unstage(t) ==
    /\ At(t, "unstage")
    /\ vault' = Drop({task[t].id})
    /\ Return(t)
    /\ UNCHANGED <<slot, fpBits, engine, made, faults>>

StartReopen(t, s) == Begin(t, "reopen", "reopen", s)

\* A renegotiating slot has nothing to tear down; any other one has.
Reopen(t) ==
    LET s == task[t].sess IN
    /\ At(t, "reopen")
    /\ LockFree
    /\ \/ slot[s].st = "renego" /\ Goto(t, "restage")
       \/ /\ slot[s].st \in {"active", "pending"}
          /\ task' = [task EXCEPT ![t].pc = "rekeys", ![t].old = slot[s].phys]
       \/ slot[s].st = "free" /\ Return(t)
    /\ UNCHANGED <<slot, vault, fpBits, engine, made, faults>>

ReopenStage(t) ==
    /\ At(t, "restage")
    /\ \/ Stage(t, "recreate") /\ UNCHANGED faults
       \/ StageFails(t)
    /\ UNCHANGED <<slot, fpBits, engine, made>>

Recreate(t) ==
    LET s == task[t].sess IN
    /\ At(t, "recreate")
    /\ \/ /\ slot[s].st = "renego"
          /\ slot' = [slot EXCEPT ![s].st = "active", ![s].phys = task[t].id]
          /\ Return(t)
       \/ slot[s].st # "renego" /\ Goto(t, "unstage") /\ UNCHANGED slot
    /\ UNCHANGED <<vault, fpBits, engine, made, faults>>

-----------------------------------------------------------------------------
(* session_destroy: CloseSession, SessionClose, flush, undo walk            *)

StartClose(t, s) == Begin(t, "close", "close", s)

Close(t) ==
    LET s == task[t].sess IN
    /\ At(t, "close")
    /\ LockFree
    /\ \/ slot[s].st = "renego" /\ slot' = [slot EXCEPT ![s] = FreeSlot] /\ Return(t)
       \/ /\ slot[s].st \in {"active", "pending"}
          /\ task' = [task EXCEPT ![t].pc = "keys", ![t].old = slot[s].phys]
          /\ UNCHANGED slot
       \/ slot[s].st = "free" /\ Return(t) /\ UNCHANGED slot
    /\ UNCHANGED <<vault, fpBits, engine, made, faults>>

\* DeleteSessionOnly: the engine drops what it holds for the sessions of S.
EngineWithout(S) ==
    [f \in FpSlots |-> IF engine[f].tag # NoTag /\ engine[f].sess \in S
                       THEN NoEngineKey ELSE engine[f]]

\* delete_session_keys for each session of S: the engine's keys, then the
\* vault's, then the slots whose entry is gone.
KeysGone(S) ==
    /\ engine' = EngineWithout(S)
    /\ vault' = Drop(BulkOf(S))
    /\ fpBits' = fpBits \ FpOf(BulkOf(S))
    /\ UNCHANGED faults

\* Mutant: every slot is freed although the vault stopped part-way.
KeysStaySlotsFreed(S, s) ==
    /\ Fault
    /\ engine' = EngineWithout(S \cup {s})
    /\ \E some \in SUBSET BulkOf({s}) : vault' = Drop(BulkOf(S) \cup some)
    /\ fpBits' = fpBits \ FpOf(BulkOf(S \cup {s}))

\* It succeeds for the sessions of S and fails for s: the message fails, with
\* or without effect, or the vault stops part-way.
KeysStay(S, s) ==
    /\ Fault
    /\ \/ /\ engine' \in {EngineWithout(S), EngineWithout(S \cup {s})}
          /\ vault' = Drop(BulkOf(S))
          /\ fpBits' = fpBits \ FpOf(BulkOf(S))
       \/ /\ engine' = EngineWithout(S \cup {s})
          /\ \E some \in SUBSET BulkOf({s}) :
               /\ vault' = Drop(BulkOf(S) \cup some)
               /\ fpBits' = fpBits \ FpOf(BulkOf(S) \cup some)

SessionKeys(t, pc) ==
    \/ KeysGone({task[t].sess}) /\ Goto(t, pc)
    \/ KeysStay({}, task[t].sess) /\ Return(t)

DeleteSessionKeys(t) ==
    /\ \/ At(t, "keys") /\ SessionKeys(t, "blob")
       \/ At(t, "rekeys") /\ SessionKeys(t, "reblob")
    /\ UNCHANGED <<slot, made>>

\* An absent blob or a failed scrub fails the call and leaves the slot.
OldBlob(t, pc) ==
    LET old == task[t].old IN
    \/ vault[old].kind # "free" /\ vault' = Drop({old}) /\ Goto(t, pc) /\ UNCHANGED faults
    \/ vault[old].kind = "free" /\ Return(t) /\ UNCHANGED <<vault, faults>>
    \/ Fault /\ Return(t) /\ UNCHANGED vault

DeleteOldBlob(t) ==
    /\ \/ At(t, "blob") /\ OldBlob(t, "slot")
       \/ At(t, "reblob") /\ OldBlob(t, "restage")
    /\ UNCHANGED <<slot, fpBits, engine, made>>

CloseSlot(t) ==
    /\ At(t, "slot")
    /\ slot' = [slot EXCEPT ![task[t].sess] = FreeSlot]
    /\ Return(t)
    /\ UNCHANGED <<vault, fpBits, engine, made, faults>>

-----------------------------------------------------------------------------
(* fp_bulk_create                                                           *)

\* The dispatcher admits the command in an Active session only.
StartBulk(t, s) ==
    /\ slot[s].st = "active"
    /\ Begin(t, "bulk", "bulk", s)

\* Mutant: the session is not looked at again under the lock.
SessionUsableOnce(s) == TRUE

\* The session may have gone while the command waited for the lock.
SessionUsable(s) == slot[s].st \notin {"pending", "free"}

\* Mutant: slots are counted from zero.
BulkAllocFromZero(t) ==
    /\ At(t, "bulk")
    /\ LockFree
    /\ \/ /\ SessionUsable(task[t].sess)
          /\ \E f \in 0 .. NumFp :
               /\ IsLeast(f, (0 .. NumFp) \ fpBits)
               /\ fpBits' = fpBits \cup {f}
               /\ task' = [task EXCEPT ![t].pc = "send", ![t].fp = f,
                                       ![t].life = slot[task[t].sess].life]
       \/ /\ ~SessionUsable(task[t].sess) \/ fpBits = FpSlots
          /\ Return(t)
          /\ UNCHANGED fpBits
    /\ UNCHANGED <<slot, vault, engine, made, faults>>

BulkAlloc(t) ==
    /\ At(t, "bulk")
    /\ LockFree
    /\ \/ /\ SessionUsable(task[t].sess)
          /\ \E f \in FpSlots :
               /\ IsLeast(f, FpSlots \ fpBits)
               /\ fpBits' = fpBits \cup {f}
               /\ task' = [task EXCEPT ![t].pc = "send", ![t].fp = f,
                                       ![t].life = slot[task[t].sess].life]
       \/ /\ ~SessionUsable(task[t].sess) \/ fpBits = FpSlots
          /\ Return(t)
          /\ UNCHANGED fpBits
    /\ UNCHANGED <<slot, vault, engine, made, faults>>

\* The create message.  After a failure the engine may own the key, so the
\* slot stays reserved.
BulkSend(t) ==
    LET created == [engine EXCEPT ![task[t].fp] =
                      [tag |-> task[t].tag, sess |-> task[t].sess,
                       life |-> task[t].life]]
    IN
    /\ At(t, "send")
    /\ \/ engine' = created /\ Goto(t, "handle") /\ UNCHANGED faults
       \/ Fault /\ engine' \in {engine, created} /\ Return(t)
    /\ UNCHANGED <<slot, vault, fpBits, made>>

\* Record the handle in the vault, or take the key back.
BulkHandle(t) ==
    /\ At(t, "handle")
    /\ \/ /\ \E i \in Ids :
               /\ IsLeast(i, FreeIds)
               /\ vault' = [vault EXCEPT ![i] =
                              [kind |-> "bulk", sess |-> task[t].sess,
                               fp |-> task[t].fp, tag |-> task[t].tag,
                               life |-> task[t].life]]
          /\ Return(t)
          /\ UNCHANGED faults
       \/ /\ (FreeIds = {} /\ UNCHANGED faults) \/ Fault
          /\ Goto(t, "unsend")
          /\ UNCHANGED vault
    /\ UNCHANGED <<slot, fpBits, engine, made>>

\* The engine slot is freed only if the engine confirms.
BulkUnsend(t) ==
    LET cleared == [engine EXCEPT ![task[t].fp] = NoEngineKey] IN
    /\ At(t, "unsend")
    /\ \/ engine' = cleared /\ fpBits' = fpBits \ {task[t].fp} /\ UNCHANGED faults
       \/ Fault /\ engine' \in {engine, cleared} /\ UNCHANGED fpBits
    /\ Return(t)
    /\ UNCHANGED <<slot, vault, made>>

-----------------------------------------------------------------------------
(* vault_key_delete: DeleteKey of a bulk key, by its session                *)

\* The handler looks the key up, then waits for the lock.
StartDelete(t, i) ==
    /\ vault[i].kind = "bulk"
    /\ slot[vault[i].sess].st = "active"
    /\ Begin(t, "delete", "delete", i)

\* The entry is classified again under the lock: by then it may be gone, or
\* hold another bulk key, or a session blob, which is deleted at once.
Delete(t) ==
    LET i == task[t].sess IN
    /\ At(t, "delete")
    /\ LockFree
    /\ \/ /\ vault[i].kind = "bulk"
          /\ task' = [task EXCEPT ![t].pc = "engineDelete",
                                  ![t].id = i, ![t].fp = vault[i].fp]
          /\ UNCHANGED vault
       \/ vault[i].kind # "bulk" /\ vault' = Drop({i}) /\ Return(t)
    /\ UNCHANGED <<slot, fpBits, engine, made, faults>>

\* Mutant: the slot is released although the engine did not confirm.
EngineDeleteUnconfirmed(t) ==
    LET f == task[t].fp IN
    /\ At(t, "engineDelete")
    /\ \/ engine' = [engine EXCEPT ![f] = NoEngineKey] /\ UNCHANGED faults
       \/ Fault /\ UNCHANGED engine
    /\ vault' = Drop({task[t].id})
    /\ fpBits' = fpBits \ {f}
    /\ Return(t)
    /\ UNCHANGED <<slot, made>>

\* The engine's copy, then the vault entry, then the slot bit.
EngineDelete(t) ==
    LET f == task[t].fp
        cleared == [engine EXCEPT ![f] = NoEngineKey]
    IN
    /\ At(t, "engineDelete")
    /\ \/ /\ engine' = cleared
          /\ vault' = Drop({task[t].id})
          /\ fpBits' = IF vault[task[t].id].kind = "free" THEN fpBits ELSE fpBits \ {f}
          /\ UNCHANGED faults
       \/ /\ Fault
          /\ engine' \in {engine, cleared}
          /\ UNCHANGED <<vault, fpBits>>
    /\ Return(t)
    /\ UNCHANGED <<slot, made>>

-----------------------------------------------------------------------------
(* Partition lifecycle; no host command is in flight.                       *)

Quiet == \A t \in Tasks : At(t, "idle")

Mapped == {s \in Slots : slot[s].st \in {"active", "pending"}}

\* part_disable: the keys of every session, then the blobs; established slots
\* wait for renegotiation.
Disable ==
    /\ "disable" \in Ops
    /\ Quiet
    /\ engine' = EngineWithout(Mapped)
    /\ vault' = Drop(BulkOf(Mapped) \cup {slot[s].phys : s \in Mapped})
    /\ fpBits' = fpBits \ FpOf(BulkOf(Mapped))
    /\ slot' = [s \in Slots |-> IF slot[s].st \in {"active", "renego"}
                                THEN [slot[s] EXCEPT !.st = "renego", !.phys = 0]
                                ELSE FreeSlot]
    /\ UNCHANGED <<task, made, faults>>

\* It stops at the first session whose keys it cannot delete.
DisableFails ==
    /\ "disable" \in Ops
    /\ Quiet
    /\ \E s \in Mapped : KeysStay({r \in Mapped : r < s}, s)
    /\ UNCHANGED <<slot, task, made>>

\* part_migrate, part_free: everything goes; the engine tears the function
\* down itself.
Clear ==
    /\ "clear" \in Ops
    /\ Quiet
    /\ slot' = [s \in Slots |-> FreeSlot]
    /\ vault' = [i \in Ids |-> FreeEntry]
    /\ fpBits' = {}
    /\ engine' = [f \in FpSlots |-> NoEngineKey]
    /\ UNCHANGED <<task, made, faults>>

-----------------------------------------------------------------------------
Init ==
    /\ slot = [s \in Slots |-> FreeSlot]
    /\ vault = [i \in Ids |-> FreeEntry]
    /\ fpBits = {}
    /\ engine = [f \in FpSlots |-> NoEngineKey]
    /\ task = [t \in Tasks |-> Idle]
    /\ made = 0 /\ faults = 0

Start(t) ==
    \/ \E officer \in BOOLEAN : StartPending(t, officer)
    \/ \E s \in Slots : StartPromote(t, s) \/ StartReopen(t, s) \/ StartClose(t, s)
                        \/ StartBulk(t, s)
    \/ StartOpen(t)
    \/ \E i \in Ids : StartDelete(t, i)

Step(t) ==
    \/ PendingStage(t) \/ Reserve(t) \/ DropOld(t)
    \/ PromoteStage(t) \/ PromoteBind(t)
    \/ OpenStage(t) \/ Create(t) \/ Unstage(t)
    \/ Reopen(t) \/ ReopenStage(t) \/ Recreate(t)
    \/ Close(t) \/ DeleteSessionKeys(t) \/ DeleteOldBlob(t) \/ CloseSlot(t)
    \/ BulkAlloc(t) \/ BulkSend(t) \/ BulkHandle(t) \/ BulkUnsend(t)
    \/ Delete(t) \/ EngineDelete(t)

Next ==
    \/ \E t \in Tasks : Start(t) \/ Step(t)
    \/ Disable \/ DisableFails
    \/ Clear

Spec == Init /\ [][Next]_vars

-----------------------------------------------------------------------------
(* Properties                                                               *)

Pcs == Locked \cup {"idle", "pending", "reserve", "dropOld", "promote", "bind",
                    "open", "reopen", "close", "bulk", "delete"}

\* Types of the state.
TypeOK ==
    /\ slot \in [Slots -> [st : {"free", "pending", "active", "renego"},
                           phys : Ids \cup {0}, life : Nat]]
    /\ vault \in [Ids -> [kind : {"free", "blob", "bulk"}, sess : Slots,
                          fp : FpSlots \cup {0}, tag : Nat, life : Nat]]
    /\ fpBits \subseteq FpSlots
    /\ engine \in [FpSlots -> [tag : Nat, sess : Slots, life : Nat]]
    /\ task \in [Tasks -> [pc : Pcs, sess : Slots \cup Ids, id : Ids \cup {0},
                           old : Ids \cup {0}, fp : FpSlots \cup {0}, tag : Nat,
                           life : Nat]]
    /\ made \in 0 .. MaxCommands
    /\ faults \in 0 .. MaxFaults

\* At most one task owns fp_bulk_lock.
OneLockHolder ==
    \A t, u \in Tasks : task[t].pc \in Locked /\ task[u].pc \in Locked => t = u

\* No aliasing (delete_session_keys): the engine slot a vault handle names
\* holds that very key or nothing, whatever messages failed on the way.
HandlesNameTheirKey ==
    \A i \in Ids : vault[i].kind = "bulk" =>
        /\ engine[vault[i].fp].tag \in {vault[i].tag, NoTag}
        /\ \A j \in Ids : vault[j].kind = "bulk" /\ vault[j].fp = vault[i].fp => j = i

\* An engine slot that may hold a key is never handed out again.
EngineKeysReserved ==
    \A f \in FpSlots : engine[f].tag # NoTag => f \in fpBits

\* Session teardown never misses a registration (fp_bulk_create): a bulk key,
\* in the vault or in the engine, is a key of the session it was registered in,
\* and that very session still stands.  So no key outlives its session, and none
\* that was registered passes to the next session with the same id.
\* Which session it is registered in is decided under fp_bulk_lock and by id
\* alone: a create that waits while its session is closed and the id is opened
\* again registers its key in the new session, although the comment there says
\* the command is rejected.
BulkKeysHaveSession ==
    LET Stands(k) == slot[k.sess].st \in {"active", "renego"} /\ slot[k.sess].life = k.life IN
    /\ \A i \in Ids : vault[i].kind = "bulk" => Stands(vault[i])
    /\ \A f \in FpSlots : engine[f].tag # NoTag => Stands(engine[f])
=============================================================================
