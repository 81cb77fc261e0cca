------------------------------ MODULE Resiliency ------------------------------
(***************************************************************************)
(* Recovery from a device reset in the host library (api/lib).             *)
(*                                                                         *)
(* A reset (live migration, firmware crash) empties the device key table,  *)
(* forgets the credential and leaves every session id reserved but in need *)
(* of renegotiation.  Several processes share the device; each has one     *)
(* partition handle, one session and some threads.  A call that meets the  *)
(* reset re-establishes the credential (or finds that another process has  *)
(* done so), reopens the session, unmasks the key into a new device handle *)
(* and runs the operation again.                                           *)
(*                                                                         *)
(* Handles are small table indices that the device reuses at once, so a    *)
(* handle from before the reset may name another key after it.  The guard  *)
(* is the restore epoch: a number in the partition, in shared storage, and *)
(* stamped on every session and key.                                       *)
(*                                                                         *)
(* The locks are read off the program counters: the cross-process file     *)
(* lock, the per-partition key barrier (readers: operations; writer: a     *)
(* recovery, which keeps new readers out from the moment it queues) and    *)
(* the write lock of one key that delete_key takes.  The locks inside the  *)
(* partition and the session are held across no wait and left out.         *)
(***************************************************************************)
EXTENDS Integers, FiniteSets

CONSTANTS
    Procs,          \* processes that share the device
    Threads,        \* threads, all processes together
    ProcOf,         \* the process of each thread
    Keys,           \* application keys
    KeyProc,        \* the process that owns each key
    NumHandles,     \* size of the device key table
    Loaded,         \* keys that exist initially
    NoKey,          \* a free entry of the device key table
    Uses,           \* pairs: the threads that run operations on each key
    Generators,     \* threads that generate keys
    Deleters,       \* threads that delete keys
    Openers,        \* threads that close and open the session
    Restarters,     \* threads that initialise the partition after a crash
    MaxRetries,     \* MAX_RETRIES
    MaxResets,      \* bound on device resets
    MaxErrors       \* bound on IO aborts and failed writes to storage

Handles == 1 .. NumHandles

ASSUME ConstantsAssumption ==
    /\ ProcOf \in [Threads -> Procs]
    /\ KeyProc \in [Keys -> Procs]
    /\ NumHandles \in Nat
    /\ Loaded \subseteq Keys
    /\ NoKey \notin Keys
    /\ MaxRetries \in Nat
    /\ MaxResets \in Nat
    /\ MaxErrors \in Nat

VARIABLES
    cred,           \* device: the credential is established
    devSess,        \* device: state of each process's session id
    vault,          \* device: the key table
    store,          \* resiliency storage: the persisted epoch, 0 if none
    up,             \* process: the partition is initialised
    part,           \* process: restore_epoch of the partition
    sessOpen,       \* process: an HsmSession exists
    sessEpoch,      \* process: last_restore_epoch of the session
    key,            \* process: HsmKeyInner of each key
    th,             \* the call each thread is in
    resets,         \* resets so far
    errors,         \* transient errors so far
    astray          \* history: a key was stamped with an epoch its handle missed

device == <<cred, devSess, vault>>
procVars == <<up, part, sessOpen, sessEpoch, key>>
faults == <<resets, errors, astray>>
vars == <<device, store, procVars, th, faults>>

-----------------------------------------------------------------------------
(* Threads, locks, and the ways a step of a call ends.                      *)

Idle == [pc |-> "idle", call |-> "none", key |-> NoKey, attempt |-> 0,
         pre |-> 0, fresh |-> FALSE, handle |-> 0]

At(t, pc) == th[t].pc = pc

\* Go on; what restore_partition and init_part hold in locals is gone.
Resume(t, pc, n) ==
    th' = [th EXCEPT ![t] = [@ EXCEPT !.pc = pc, !.attempt = n,
                                      !.pre = 0, !.fresh = FALSE]]

Goto(t, pc) == Resume(t, pc, th[t].attempt)

Return(t) == th' = [th EXCEPT ![t] = Idle]

Begin(t, call, k, pc) ==
    /\ At(t, "idle")
    /\ th' = [th EXCEPT ![t] = [Idle EXCEPT !.pc = pc, !.call = call, !.key = k]]

\* Mutant: the guard outlives the recovery that failed.
HoldsWriteOnFailure(t) ==
    /\ th[t].pc \in {"check", "lock", "cred", "apply", "reopen", "rekey", "retry"}
    /\ th[t].call # "open" /\ (th[t].pc = "check" => th[t].attempt > 0)

\* The recovery of an open runs without the barrier.
HoldsWrite(t) ==
    /\ th[t].pc \in {"lock", "cred", "apply", "reopen", "rekey", "retry"}
    /\ th[t].call # "open"

HoldsRead(t) == th[t].pc \in {"epoch", "use", "erase"}

\* Queued for the write lock: the readers inside have yet to leave.
Draining(t) == At(t, "drain")

HoldsKey(t) == th[t].pc \in {"delete", "erase"}

HoldsFile(t) == th[t].pc \in {"cred", "apply", "initAgain", "initCred"}

Peers(t) == {u \in Threads : ProcOf[u] = ProcOf[t]}

\* The barrier is parking_lot's RwLock: a writer, inside or queued, keeps out
\* everyone who comes after it.
CanQueue(t) == \A u \in Peers(t) : ~HoldsWrite(u) /\ ~Draining(u)

CanRead(t) == CanQueue(t)

\* Mutant: a recovery does not wait for the operations under way.
CanWriteBesideReaders(t) == \A u \in Peers(t) : ~HoldsWrite(u)

CanWrite(t) == \A u \in Peers(t) : ~HoldsRead(u)

KeyFree(k) == \A u \in Threads : th[u].key = k => ~HoldsKey(u)

FileLockFree == \A u \in Threads : ~HoldsFile(u)

\* A transient error: the device aborts the call unexecuted (IoAborted), or
\* storage refuses a write.
Fault == errors < MaxErrors /\ errors' = errors + 1

\* What a failed recovery does to the call: another attempt, or the end.
GiveUp(t) ==
    LET n == th[t].attempt + 1 IN
    IF th[t].call = "op"
    THEN Resume(t, "check", n)
    ELSE IF n < MaxRetries THEN Resume(t, "recover", n) ELSE Return(t)

AfterRestore(call) == IF call = "open" THEN "retry" ELSE "reopen"

-----------------------------------------------------------------------------
(* The device.                                                              *)

FreeHandles == {h \in Handles : vault[h] = NoKey}

IsLowestFree(h) == h \in FreeHandles /\ \A g \in FreeHandles : h <= g

\* A reset, at any moment.
Reset ==
    /\ resets < MaxResets
    /\ resets' = resets + 1
    /\ cred' = FALSE
    /\ vault' = [h \in Handles |-> NoKey]
    /\ devSess' = [p \in Procs |->
                     IF devSess[p] = "none" THEN "none" ELSE "reneg"]
    /\ th' = [t \in Threads |-> [th[t] EXCEPT !.fresh = FALSE]]
    /\ UNCHANGED <<store, procVars, errors, astray>>

-----------------------------------------------------------------------------
(* execute_key_op_with_retry                                                *)

StartOp(t, k) ==
    /\ <<t, k>> \in Uses
    /\ up[ProcOf[t]]
    /\ KeyProc[k] = ProcOf[t]
    /\ key[k].st = "live"
    /\ Begin(t, "op", k, "check")
    /\ UNCHANGED <<device, store, procVars, faults>>

\* Phase 1 takes the barrier before it looks at the key.
Enter(t) ==
    /\ At(t, "check")
    /\ CanRead(t)
    /\ Goto(t, "epoch")
    /\ UNCHANGED <<device, store, procVars, faults>>

\* Phase 1, first half: the epoch check.  Reading the key's epoch takes the
\* key's lock, with the barrier held.
Check(t) ==
    LET k == th[t].key
        p == ProcOf[t]
    IN
    /\ At(t, "epoch")
    /\ KeyFree(k)
    /\ \/ /\ key[k].epoch = part[p]
          /\ Goto(t, "use")
       \/ /\ key[k].epoch < part[p]
          /\ th[t].attempt < MaxRetries
          /\ Goto(t, "recover")
       \/ /\ key[k].epoch < part[p] => th[t].attempt >= MaxRetries
          /\ key[k].epoch # part[p]
          /\ Return(t)
    /\ UNCHANGED <<device, store, procVars, faults>>

\* Mutant: the retry budget is not consulted.
AgainUnbounded(t) == Resume(t, "recover", th[t].attempt + 1)

\* Phase 2 after a retryable error.
Again(t) ==
    IF th[t].attempt < MaxRetries
    THEN Resume(t, "recover", th[t].attempt + 1)
    ELSE Return(t)

\* Phase 1, second half: the device call, under the key's read lock.
Use(t) ==
    LET ok == /\ devSess[ProcOf[t]] = "valid"
              /\ vault[key[th[t].key].handle] # NoKey
    IN
    /\ At(t, "use")
    /\ KeyFree(th[t].key)
    /\ \/ ok /\ Return(t) /\ UNCHANGED errors
       \/ ~ok /\ Again(t) /\ UNCHANGED errors
       \/ Fault /\ Again(t)
    /\ UNCHANGED <<device, store, procVars, resets, astray>>

-----------------------------------------------------------------------------
(* restore_partition, reopen_session_if_needed, restore_from_masked         *)

\* restore_partition begins: the epoch is noted before the file lock is taken.
NoteEpoch(t) == th' = [th EXCEPT ![t].pc = "lock", ![t].pre = part[ProcOf[t]]]

\* Queue for the barrier (key operations and generation).
Recover(t) ==
    /\ At(t, "recover")
    /\ \/ th[t].call = "open" /\ NoteEpoch(t)
       \/ th[t].call # "open" /\ CanQueue(t) /\ Goto(t, "drain")
    /\ UNCHANGED <<device, store, procVars, faults>>

\* The readers are gone: the barrier is held.
Drain(t) ==
    /\ Draining(t)
    /\ CanWrite(t)
    /\ NoteEpoch(t)
    /\ UNCHANGED <<device, store, procVars, faults>>

\* Mutant: whatever storage says is adopted.
SyncEpochBlindly(t) ==
    /\ part' = [part EXCEPT ![ProcOf[t]] = store]
    /\ Goto(t, AfterRestore(th[t].call))

\* "Credentials already established": take the epoch of the process that did it.
SyncEpoch(t) ==
    LET p == ProcOf[t] IN
    \/ /\ store > part[p]
       /\ part' = [part EXCEPT ![p] = store]
       /\ Goto(t, AfterRestore(th[t].call))
    \/ /\ store = part[p] \/ store = 0
       /\ Goto(t, AfterRestore(th[t].call))
       /\ UNCHANGED part
    \/ /\ store < part[p] /\ store > 0
       /\ GiveUp(t)
       /\ UNCHANGED part

\* Take the file lock, check the epoch again, and ask the device for a nonce.
Lock(t) ==
    /\ At(t, "lock")
    /\ FileLockFree
    /\ \/ /\ part[ProcOf[t]] # th[t].pre
          /\ Goto(t, AfterRestore(th[t].call))
          /\ UNCHANGED <<part, errors>>
       \/ /\ part[ProcOf[t]] = th[t].pre
          /\ \/ cred /\ SyncEpoch(t) /\ UNCHANGED errors
             \/ /\ ~cred
                /\ th' = [th EXCEPT ![t] = [@ EXCEPT !.pc = "cred", !.pre = 0, !.fresh = TRUE]]
                /\ UNCHANGED <<part, errors>>
             \/ Fault /\ GiveUp(t) /\ UNCHANGED part
    /\ UNCHANGED <<device, store, up, sessOpen, sessEpoch, key, resets, astray>>

\* establish_credential; a reset since the nonce was fetched is a mismatch.
Establish(t) ==
    /\ At(t, "cred")
    /\ \/ th[t].fresh /\ cred' = TRUE /\ Goto(t, "apply") /\ UNCHANGED errors
       \/ ~th[t].fresh /\ GiveUp(t) /\ UNCHANGED <<cred, errors>>
       \/ Fault /\ GiveUp(t) /\ UNCHANGED cred
    /\ UNCHANGED <<devSess, vault, store, procVars, resets, astray>>

\* Persist the backup masking key, then bump the epoch from the stored value.
Apply(t) ==
    LET p == ProcOf[t] IN
    /\ At(t, "apply")
    /\ \/ /\ part' = [part EXCEPT ![p] = store + 1]
          /\ store' = store + 1
          /\ Goto(t, AfterRestore(th[t].call))
          /\ UNCHANGED errors
       \/ /\ Fault
          /\ \/ part' = [part EXCEPT ![p] = store + 1]   \* write_epoch failed
             \/ UNCHANGED part                           \* persist_bmk failed
          /\ GiveUp(t)
          /\ UNCHANGED store
    /\ UNCHANGED <<device, up, sessOpen, sessEpoch, key, resets, astray>>

ReopenSession(t) ==
    LET p    == ProcOf[t]
        next == IF th[t].call = "op" THEN "rekey" ELSE "retry"
    IN
    /\ At(t, "reopen")
    /\ \/ /\ sessEpoch[p] = part[p]
          /\ Goto(t, next)
          /\ UNCHANGED <<devSess, sessEpoch, errors>>
       \/ /\ sessEpoch[p] < part[p]
          /\ cred /\ devSess[p] = "reneg"
          /\ devSess' = [devSess EXCEPT ![p] = "valid"]
          /\ sessEpoch' = [sessEpoch EXCEPT ![p] = part[p]]
          /\ Goto(t, next)
          /\ UNCHANGED errors
       \/ /\ sessEpoch[p] # part[p]
          /\ sessEpoch[p] < part[p] => ~cred \/ devSess[p] # "reneg"
          /\ GiveUp(t)
          /\ UNCHANGED <<devSess, sessEpoch, errors>>
       \/ /\ sessEpoch[p] < part[p]
          /\ Fault
          /\ GiveUp(t)
          /\ UNCHANGED <<devSess, sessEpoch>>
    /\ UNCHANGED <<cred, vault, store, up, part, sessOpen, key, resets, astray>>

\* The session has yet to be reopened in the epoch of its partition.
SessionBehind(p) == sessEpoch[p] # part[p]

\* Unmask the key into a new handle, under its write lock.
RestoreKey(t) ==
    LET k     == th[t].key
        p     == ProcOf[t]
        stale == key[k].epoch # part[p]
        ok    == key[k].st = "live" /\ devSess[p] = "valid" /\ FreeHandles # {}
    IN
    /\ At(t, "rekey")
    /\ KeyFree(k)
    /\ \/ ~stale /\ Goto(t, "check") /\ UNCHANGED <<vault, key, errors, astray>>
       \/ /\ stale /\ ok
          /\ \E h \in Handles :
               /\ IsLowestFree(h)
               /\ vault' = [vault EXCEPT ![h] = k]
               /\ key' = [key EXCEPT ![k].handle = h, ![k].epoch = part[p]]
          /\ astray' = (astray \/ SessionBehind(p))
          /\ Goto(t, "check")
          /\ UNCHANGED errors
       \/ stale /\ ~ok /\ GiveUp(t) /\ UNCHANGED <<vault, key, errors, astray>>
       \/ /\ stale /\ key[k].st = "live" /\ Fault /\ GiveUp(t)
          /\ UNCHANGED <<vault, key, astray>>
    /\ UNCHANGED <<cred, devSess, store, up, part, sessOpen, sessEpoch,
                   resets>>

-----------------------------------------------------------------------------
(* execute_key_gen_with_retry and execute_open_session_with_retry           *)

StartGenerate(t, k) ==
    /\ t \in Generators
    /\ up[ProcOf[t]] /\ sessOpen[ProcOf[t]]
    /\ KeyProc[k] = ProcOf[t]
    /\ key[k].st = "none"
    /\ \A u \in Threads : th[u].key # k
    /\ Begin(t, "gen", k, "try")
    /\ UNCHANGED <<device, store, procVars, faults>>

StartOpen(t) ==
    /\ t \in Openers
    /\ up[ProcOf[t]] /\ ~sessOpen[ProcOf[t]]
    /\ Begin(t, "open", NoKey, "try")
    /\ UNCHANGED <<device, store, procVars, faults>>

\* A retryable error: recover if the budget allows.
Retry(t) ==
    LET n == th[t].attempt + (IF At(t, "try") THEN 0 ELSE 1) IN
    IF n < MaxRetries THEN Resume(t, "recover", n) ELSE Return(t)

\* The device call of a key generation: the first under the barrier read
\* lock, the later ones under the write lock the recovery holds.
Generate(t) ==
    LET k     == th[t].key
        valid == devSess[ProcOf[t]] = "valid"
    IN
    /\ th[t].call = "gen"
    /\ At(t, "retry") \/ (At(t, "try") /\ CanRead(t))
    /\ \/ /\ valid
          /\ \E h \in Handles :
               /\ IsLowestFree(h)
               /\ vault' = [vault EXCEPT ![h] = k]
               /\ th' = [th EXCEPT ![t].pc = "stamp", ![t].handle = h]
          /\ UNCHANGED errors
       \/ valid /\ FreeHandles = {} /\ Return(t) /\ UNCHANGED <<vault, errors>>
       \/ ~valid /\ Retry(t) /\ UNCHANGED <<vault, errors>>
       \/ Fault /\ Retry(t) /\ UNCHANGED vault
    /\ UNCHANGED <<cred, devSess, store, procVars, resets, astray>>

\* The generated key is no longer where the device put it.
HandleMissed(t) == vault[th[t].handle] # th[t].key

\* Mutant: the key is stamped with the epoch in storage.
StampKeyFromStorage(t) ==
    /\ At(t, "stamp") /\ th[t].call = "gen"
    /\ key' = [key EXCEPT ![th[t].key] =
                 [st |-> "live", handle |-> th[t].handle, epoch |-> store]]
    /\ Return(t)
    /\ astray' = (astray \/ HandleMissed(t) \/ SessionBehind(ProcOf[t]))
    /\ UNCHANGED <<device, store, up, part, sessOpen, sessEpoch, resets, errors>>

\* HsmKeyInner::new, after the barrier is released.
StampKey(t) ==
    /\ At(t, "stamp") /\ th[t].call = "gen"
    /\ key' = [key EXCEPT ![th[t].key] =
                 [st |-> "live", handle |-> th[t].handle, epoch |-> part[ProcOf[t]]]]
    /\ Return(t)
    /\ astray' = (astray \/ HandleMissed(t) \/ SessionBehind(ProcOf[t]))
    /\ UNCHANGED <<device, store, up, part, sessOpen, sessEpoch, resets, errors>>

\* The device call of open_session: one session per device handle.
Open(t) ==
    LET p == ProcOf[t] IN
    /\ th[t].call = "open"
    /\ th[t].pc \in {"try", "retry"}
    /\ \/ /\ devSess[p] = "none" /\ cred
          /\ devSess' = [devSess EXCEPT ![p] = "valid"]
          /\ Goto(t, "stamp")
          /\ UNCHANGED errors
       \/ devSess[p] # "none" /\ Return(t) /\ UNCHANGED <<devSess, errors>>
       \/ devSess[p] = "none" /\ ~cred /\ Retry(t) /\ UNCHANGED <<devSess, errors>>
       \/ Fault /\ Retry(t) /\ UNCHANGED devSess
    /\ UNCHANGED <<cred, vault, store, procVars, resets, astray>>

\* HsmSessionInner::new
StampSession(t) ==
    LET p == ProcOf[t] IN
    /\ At(t, "stamp") /\ th[t].call = "open"
    /\ sessOpen' = [sessOpen EXCEPT ![p] = TRUE]
    /\ sessEpoch' = [sessEpoch EXCEPT ![p] = part[p]]
    /\ Return(t)
    /\ UNCHANGED <<device, store, up, part, key, faults>>

\* The last clone of the session is dropped: every key that held one is
\* gone.  An aborted close counts as done and leaves the device session.
CloseSession(t) ==
    LET p == ProcOf[t] IN
    /\ t \in Openers /\ At(t, "idle")
    /\ up[p] /\ sessOpen[p]
    /\ \A u \in Peers(t) : th[u].pc = "idle"
    /\ \A k \in Keys : KeyProc[k] = p => key[k].st # "live"
    /\ sessOpen' = [sessOpen EXCEPT ![p] = FALSE]
    /\ sessEpoch' = [sessEpoch EXCEPT ![p] = 0]
    /\ \/ /\ devSess' = [devSess EXCEPT ![p] = "none"]
          /\ vault' = [h \in Handles |->
                         IF vault[h] # NoKey /\ KeyProc[vault[h]] = p
                         THEN NoKey ELSE vault[h]]
          /\ UNCHANGED errors
       \/ Fault /\ UNCHANGED <<devSess, vault>>
    /\ UNCHANGED <<cred, store, up, part, key, th, resets, astray>>

-----------------------------------------------------------------------------
(* delete_key: the key's write lock first, then the barrier                 *)

StartDelete(t, k) ==
    /\ t \in Deleters
    /\ up[ProcOf[t]]
    /\ KeyProc[k] = ProcOf[t]
    /\ key[k].st = "live"
    /\ Begin(t, "delete", k, "own")
    /\ UNCHANGED <<device, store, procVars, faults>>

\* Take the key's write lock; another clone may have deleted the key.
Own(t) ==
    /\ At(t, "own")
    /\ KeyFree(th[t].key)
    /\ \/ key[th[t].key].st = "live" /\ Goto(t, "delete")
       \/ key[th[t].key].st # "live" /\ Return(t)
    /\ UNCHANGED <<device, store, procVars, faults>>

MarkDeleted(k) == key' = [key EXCEPT ![k].st = "deleted"]

\* A stale key went with the reset: nothing to delete.
DeleteCheck(t) ==
    LET k == th[t].key
        p == ProcOf[t]
    IN
    /\ At(t, "delete")
    /\ CanRead(t)
    /\ \/ key[k].epoch < part[p] /\ MarkDeleted(k) /\ Return(t)
       \/ key[k].epoch > part[p] /\ Return(t) /\ UNCHANGED key
       \/ key[k].epoch = part[p] /\ Goto(t, "erase") /\ UNCHANGED key
    /\ UNCHANGED <<device, store, up, part, sessOpen, sessEpoch, faults>>

\* Errors that a reset explains count as success; KeyNotFound does not.
Erase(t) ==
    LET k     == th[t].key
        h     == key[k].handle
        valid == devSess[ProcOf[t]] = "valid"
    IN
    /\ At(t, "erase")
    /\ \/ /\ valid /\ vault[h] # NoKey
          /\ vault' = [vault EXCEPT ![h] = NoKey]
          /\ MarkDeleted(k)
          /\ UNCHANGED errors
       \/ valid /\ vault[h] = NoKey /\ UNCHANGED <<vault, key, errors>>
       \/ ~valid /\ MarkDeleted(k) /\ UNCHANGED <<vault, errors>>
       \/ Fault /\ MarkDeleted(k) /\ UNCHANGED vault
    /\ Return(t)
    /\ UNCHANGED <<cred, devSess, store, up, part, sessOpen, sessEpoch,
                   resets, astray>>

-----------------------------------------------------------------------------
(* Process death, and HsmPartition::init afterwards                         *)

\* The process dies: its memory and file lock go; closing its device handle
\* flushes the session and the keys in it.
Crash(p) ==
    /\ up[p]
    /\ \E t \in Restarters : ProcOf[t] = p
    /\ up' = [up EXCEPT ![p] = FALSE]
    /\ part' = [part EXCEPT ![p] = 0]
    /\ sessOpen' = [sessOpen EXCEPT ![p] = FALSE]
    /\ sessEpoch' = [sessEpoch EXCEPT ![p] = 0]
    /\ key' = [k \in Keys |-> IF KeyProc[k] = p
                              THEN [st |-> "none", handle |-> 0, epoch |-> 0]
                              ELSE key[k]]
    /\ th' = [t \in Threads |-> IF ProcOf[t] = p THEN Idle ELSE th[t]]
    /\ devSess' = [devSess EXCEPT ![p] = "none"]
    /\ vault' = [h \in Handles |-> IF vault[h] # NoKey /\ KeyProc[vault[h]] = p
                                   THEN NoKey ELSE vault[h]]
    /\ UNCHANGED <<cred, store, faults>>

StartInit(t) ==
    /\ t \in Restarters
    /\ ~up[ProcOf[t]]
    /\ \A u \in Peers(t) : th[u].call # "init"
    /\ Begin(t, "init", NoKey, "init")
    /\ UNCHANGED <<device, store, procVars, faults>>

\* ResiliencyState::new: the epoch is read from storage, not advanced.
Initialised(p) ==
    /\ up' = [up EXCEPT ![p] = TRUE]
    /\ part' = [part EXCEPT ![p] = store]

\* A retryable error inside init_part; the file lock is kept.
InitRetry(t) ==
    IF th[t].attempt < MaxRetries
    THEN Resume(t, "initAgain", th[t].attempt + 1)
    ELSE Return(t)

\* Take the file lock for the whole of init and fetch the nonce.
InitNonce(t) ==
    /\ At(t, "initAgain") \/ (At(t, "init") /\ FileLockFree)
    /\ \/ cred /\ Initialised(ProcOf[t]) /\ Return(t) /\ UNCHANGED errors
       \/ /\ ~cred
          /\ th' = [th EXCEPT ![t].pc = "initCred", ![t].fresh = TRUE]
          /\ UNCHANGED <<up, part, errors>>
       \/ Fault /\ InitRetry(t) /\ UNCHANGED <<up, part>>
    /\ UNCHANGED <<device, store, sessOpen, sessEpoch, key, resets, astray>>

InitEstablish(t) ==
    /\ At(t, "initCred")
    /\ \/ /\ th[t].fresh
          /\ cred' = TRUE
          /\ \/ Initialised(ProcOf[t]) /\ UNCHANGED errors
             \/ Fault /\ UNCHANGED <<up, part>>        \* the BMK write failed
          /\ Return(t)
       \/ ~th[t].fresh /\ InitRetry(t) /\ UNCHANGED <<cred, up, part, errors>>
       \/ Fault /\ InitRetry(t) /\ UNCHANGED <<cred, up, part>>
    /\ UNCHANGED <<devSess, vault, store, sessOpen, sessEpoch, key, resets, astray>>

-----------------------------------------------------------------------------
(* Every process has an open session; the loaded keys occupy the table in
   some order.                                                              *)

Init ==
    /\ cred = TRUE
    /\ devSess = [p \in Procs |-> "valid"]
    /\ store = 0
    /\ up = [p \in Procs |-> TRUE]
    /\ part = [p \in Procs |-> 0]
    /\ sessOpen = [p \in Procs |-> TRUE]
    /\ sessEpoch = [p \in Procs |-> 0]
    /\ \E f \in [Loaded -> Handles] :
         /\ \A j, k \in Loaded : f[j] = f[k] => j = k
         /\ vault = [h \in Handles |-> IF \E k \in Loaded : f[k] = h
                                       THEN CHOOSE k \in Loaded : f[k] = h
                                       ELSE NoKey]
         /\ key = [k \in Keys |->
                     IF k \in Loaded
                     THEN [st |-> "live", handle |-> f[k], epoch |-> 0]
                     ELSE [st |-> "none", handle |-> 0, epoch |-> 0]]
    /\ th = [t \in Threads |-> Idle]
    /\ resets = 0 /\ errors = 0 /\ astray = FALSE

Start(t) ==
    \/ \E k \in Keys : StartOp(t, k) \/ StartGenerate(t, k) \/ StartDelete(t, k)
    \/ StartOpen(t) \/ StartInit(t) \/ CloseSession(t)

\* The steps of a call under way; some of them wait for a lock.
Step(t) ==
    \/ Enter(t) \/ Check(t) \/ Use(t)
    \/ Recover(t) \/ Drain(t) \/ Lock(t) \/ Establish(t) \/ Apply(t)
    \/ ReopenSession(t) \/ RestoreKey(t)
    \/ Generate(t) \/ StampKey(t) \/ Open(t) \/ StampSession(t)
    \/ Own(t) \/ DeleteCheck(t) \/ Erase(t)
    \/ InitNonce(t) \/ InitEstablish(t)

Next ==
    \/ \E t \in Threads : Start(t) \/ Step(t)
    \/ \E p \in Procs : Crash(p)
    \/ Reset

Spec == Init /\ [][Next]_vars

(* A thread inside a call keeps running, and a lock that is free again and
   again is eventually obtained (parking_lot's fair RwLock, flock's queue).
   Nothing obliges the application to make a call, or a fault to happen.    *)
FairSpec == Spec /\ \A t \in Threads : SF_vars(Step(t))

-----------------------------------------------------------------------------
(* Properties                                                               *)

Pcs == {"idle", "check", "epoch", "use", "recover", "drain", "lock", "cred",
        "apply", "reopen", "rekey", "try", "retry", "stamp", "own", "delete",
        "erase", "init", "initAgain", "initCred"}

\* Types of the state; a live key always has a handle of the device's table.
TypeOK ==
    /\ cred \in BOOLEAN
    /\ devSess \in [Procs -> {"none", "valid", "reneg"}]
    /\ vault \in [Handles -> Keys \cup {NoKey}]
    /\ store \in Nat
    /\ up \in [Procs -> BOOLEAN]
    /\ part \in [Procs -> Nat]
    /\ sessOpen \in [Procs -> BOOLEAN]
    /\ sessEpoch \in [Procs -> Nat]
    /\ key \in [Keys -> [st : {"none", "live", "deleted"},
                         handle : Handles \cup {0}, epoch : Nat]]
    /\ \A k \in Keys : key[k].st = "live" => key[k].handle \in Handles
    /\ th \in [Threads -> [pc : Pcs,
                           call : {"none", "op", "gen", "open", "delete", "init"},
                           key : Keys \cup {NoKey},
                           attempt : 0 .. MaxRetries + 1, pre : Nat,
                           fresh : BOOLEAN, handle : Handles \cup {0}]]
    /\ resets \in 0 .. MaxResets
    /\ errors \in 0 .. MaxErrors
    /\ astray \in BOOLEAN

\* Past the epoch check: the next step is the device call.
Cleared(t) == th[t].pc \in {"use", "erase"}

\* A thread that is about to use or delete a key through a session the device
\* accepts names that key or an empty entry, never another key that was given
\* the same table index after a reset (the ABA problem of resiliency.rs).
OpsHitOwnKey ==
    \A t \in Threads :
        /\ Cleared(t)
        /\ devSess[ProcOf[t]] = "valid"
        => vault[key[th[t].key].handle] \in {th[t].key, NoKey}

\* As long as every stamp was good when it was made (the epoch the session was
\* opened in, on a handle that still named the key), the epoch check keeps its
\* promise across any resets, recoveries and restarts: a thread about to use or
\* delete a live key through a session the device accepts names that very key.
StampedHandlesHold ==
    ~astray =>
        \A t \in Threads :
            /\ Cleared(t)
            /\ devSess[ProcOf[t]] = "valid"
            /\ key[th[t].key].st = "live"
            => vault[key[th[t].key].handle] = th[t].key

\* Storage knows the epoch of the partition, or its write was lost.
Written(p) == part[p] <= store \/ (errors > 0 /\ part[p] = store + 1)

\* No key or session is stamped with a later epoch than its partition's (the
\* branches the code calls impossible).  "Storage epoch always >= in-memory
\* epoch" (design-resiliency.md) holds in every history without an error;
\* bump_epoch assigns the epoch before it writes it, so a failed write_epoch
\* leaves the partition ahead of storage, by exactly one.
EpochsOrdered ==
    \A p \in Procs : up[p] =>
        /\ Written(p)
        /\ sessOpen[p] => sessEpoch[p] <= part[p]
        /\ \A k \in Keys : KeyProc[k] = p /\ key[k].st = "live"
                             => key[k].epoch <= part[p]

\* Whatever fails, the stored epoch and the epoch of a running partition or of
\* a key it keeps never go back (the debug assertion of HsmKeyInner::restore).
EpochsGrow ==
    [][ /\ store' >= store
        /\ \A p \in Procs : up[p] /\ up'[p] => part'[p] >= part[p]
        /\ \A k \in Keys : key[k].st = "live" /\ key'[k].st = "live"
                             => key'[k].epoch >= key[k].epoch ]_vars

\* The next step of the call needs a lock that another call holds.
Waits(t) ==
    \/ th[t].pc \in {"check", "delete"} /\ ~CanRead(t)
    \/ At(t, "try") /\ th[t].call = "gen" /\ ~CanRead(t)
    \/ At(t, "recover") /\ th[t].call # "open" /\ ~CanQueue(t)
    \/ Draining(t) /\ ~CanWrite(t)
    \/ th[t].pc \in {"epoch", "use", "own", "rekey"} /\ ~KeyFree(th[t].key)
    \/ th[t].pc \in {"lock", "init"} /\ ~FileLockFree

\* delete_key has the key's lock and waits for the barrier, while another call
\* of the process has the barrier and waits for the lock of the same key: a
\* recovery that restores the key, or an operation on it, the latter with a
\* recovery queued between the two.
Inverted(t, u) ==
    /\ At(t, "delete") /\ ~CanRead(t)
    /\ th[u].pc \in {"epoch", "use", "rekey"}
    /\ ProcOf[t] = ProcOf[u] /\ th[t].key = th[u].key

\* The locks of a process stop its calls only through delete_key, which takes
\* a key's lock before the barrier.  A call that waits is in the process of a
\* call that can go on, or waits while some call anywhere holds the file lock
\* (and goes on), or delete_key and another call of its process have taken the
\* lock of one key and the barrier crosswise.
OnlyInversionLocks ==
    \A t \in Threads : Waits(t) =>
        \/ \E u \in Peers(t) : ~At(u, "idle") /\ ~Waits(u)
        \/ \E u \in Threads : HoldsFile(u) /\ ~Waits(u)
        \/ \E u, v \in Peers(t) : Inverted(u, v)

\* Every API call returns, whatever resets, aborts and crashes it meets.
CallsEnd == \A t \in Threads : th[t].pc # "idle" ~> th[t].pc = "idle"

=============================================================================
