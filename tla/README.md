# Azure Integrated HSM: a TLA+ verification project

The repository holds an HSM's firmware (`src/fw`), the host library that talks to
it (`src/api`, `src/ddi`) and their tools. This project models the parts where
state is changed under concurrency and failure: the firmware's TBOR command
pipeline with its per-command undo log, the TBOR and MBOR session and key
commands, the session and bulk-key store and the public-key engine pool of the
hardware platform, and the host library's recovery from a device reset.

## 1. The system

A *partition* is a virtual HSM. Its host submits commands into queue entries; the
firmware runs one task per in-flight IO on a single-threaded cooperative executor
(embassy). A task runs without interruption from one `.await` to the next; DMA,
crypto and some platform verbs are awaited. Commands of one partition therefore
interleave at every await, and TBOR commands take no lock.

| Component | State | Operations | Interacts through |
|---|---|---|---|
| IO pipeline (`fw/core/lib/src/io.rs`, `ddi/tbor/mod.rs`) | one task per IO slot: request, response, handler result, undo log | gate, inbound DMA, dispatch, outbound DMA, CQE post, walk, drop | calls the handlers; owns the undo log |
| Provisioning (`part_init.rs`, `part_final.rs`, `part_state.rs`) | partition state, write-once key ids, policy hash, thumbprints | PartInit, PartFinal | property table, vault, undo log |
| PSK rotation (`psk_change.rs`) | `PSK_CO`, `PSK_CU`, one-shot budget per session | PskChange | property table, session table, undo log |
| Security domain (`sd_*.rs`) | `SD_INITIALIZED`, `SD_MK_KEY_ID` | create / restore | property table, vault, undo log |
| UnwrapKey (`unwrap_key.rs`) | a temporary vault key | unwrap, mask, delete | vault, undo log |
| Undo log (`fw/core/undo`) | one 256-byte buffer, two counters | push, discard, undo walk, commit walk | the platform's property, vault and session verbs |
| Session handshake (`session_open_*.rs`, `session_close.rs`) | pending blobs, established sessions | open-init, open-finish, close, flush | session table, vault, undo log |
| Session table (`plat/std/pal`) | 8 slots: empty, pending, active, needs-renegotiation | reserve, evict, promote, destroy, consume budget | vault |
| Partition table, key vault (`plat/std/pal`) | properties; key slots: free, live, disabled | set, clear; create, delete, disable, enable | all handlers |
| Uno PAL (`plat/uno/fw/pal`) | session slots, vault entries, a bitmap of engine slots; the fast-path engine's own keys | create, re-create, reserve, promote, destroy; bulk-key create and delete; disable, clear | messages to the engine and DMA, every one awaited and able to fail; `fp_bulk_lock` |
| Public-key engine pool (`plat/uno/fw/drivers/upka`) | free engines, completion slots, numbered waiters, a ring of waiters with wrapping cursors, wakers | acquire any or a given engine, run commands, wipe, release and dispatch, interrupt | the PAL's RSA and ECC operations; the executor's wakers; interrupts polled by a task |
| Host resiliency (`api/lib/src/resiliency.rs`, `partition.rs`, `session.rs`, `algo/mod.rs`) | restore epochs in storage, partition, session and key; masked keys | retry loops, restore, reopen, re-key, generate, delete, open, close, init | device, shared storage, other processes; file lock, key barrier, key lock |
| MBOR handlers (`ddi/mbor`) | nonce, credential, masking and unwrapping key ids | EstablishCredential, Open/Reopen/CloseSession, ChangePin, key commands, OP_FLUSH | session table, vault; `partition_lock`, which only some commands take; no undo log |
| Codecs, crypto, transports, OpenSSL plug-ins | none of their own | pure computation, I/O | – |

Hard behaviours: two commands of one partition racing across an await;
completions that are lost after the state has changed; handlers that fail
half-way; undo entries that hold stale pre-images; a vault, a session table or
an undo buffer at its limit; a slot that changes hands while a task awaits; an
engine that has executed a message whose answer was lost; a handle index that
the device gives to another key after a reset; a wake-up that is lost or goes to
the wrong task, and a ring whose cursors wrap; processes that restore, crash and
restart at the same time; locks taken in different orders.

What makes each component correct: an acknowledged command stands and an
unacknowledged one leaves no trace (pipeline, undo log); one-shot steps have one
winner (provisioning, security domain, PSK budget); a published key id names a
live key and a soft-deleted key is owned by a running command (vault); session
keys and active slots correspond and a slot's role is its keys' role (sessions);
the buffer behaves as a stack (undo log); every command returns its IO slot;
the vault, the slot bitmap and the engine agree about bulk keys (Uno); an engine
has one owner, is handed over wiped, and waiters are served in order and always
woken (engine pool); a nonce
authenticates once and a session is created only for the PIN in force (MBOR); an
operation never reaches another key through a stale handle, epochs never go
back, and calls end (host).

`PROJECT.json` lists the hazards with their lines and the properties aimed at
each.

## 2. The modules

| Module | What it is |
|---|---|
| `TborCommands` | the command pipeline with PartInit, PartFinal, PskChange, the SD create/restore family and UnwrapKey, over the property table and the vault |
| `TborSessions` | SessionOpenInit, SessionOpenFinish, SessionClose, OP_FLUSH and PskChange's budget over the session table |
| `UndoStack` | abstract: what an undo log promises |
| `UndoLog` | the byte buffer of the undo log; refines `UndoStack` |
| `MborCommands` | the MBOR credential, session and key commands of one partition |
| `UnoSessions` | the session and bulk-key verbs of the Uno platform against its fast-path engine |
| `EnginePool` | abstract: what the engine pool promises its callers |
| `UpkaPool` | the public-key engine pool: engines, ring of waiters, wakers; refines `EnginePool` |
| `Resiliency` | host processes and their threads through device resets, errors and crashes |
| `MC...` | symmetry sets; for `MCResiliency` who owns and uses which key, for `MCUpkaPool` which calls ask for an engine by number |
| `TborCommandsProofs` | type correctness, acknowledged claims and soft-deleted keys of `TborCommands` |
| `TborRollbackProofs` | published keys are live, and the rollback of a lone command is exact |
| `UndoLogProofs` | types of `UndoLog`, and its refinement of `UndoStack` |
| `TborSessionsProofs`, `MborCommandsProofs`, `UnoSessionsProofs`, `UpkaPoolProofs` | every safety property of these modules that holds; the last also the refinement of `EnginePool` |
| `ResiliencyProofs` | types and epochs of `Resiliency`, what a key's stamp vouches for, and how the locks can stop a process |

`TborCommands`, `TborSessions` and `MborCommands` look at one partition of the std
platform from three sides; each keeps the tables its commands change.
`UnoSessions` is the other platform under the same handlers, and `Resiliency` sees
the device only through the outcomes of its commands.

### TborCommands

`prop` is the partition's property table (`PartitionEntry` in the std PAL),
`vault` the state of each key slot, `pskUsed` the sessions whose PSK budget is
spent, `cmd[i]` the locals of IO task `i` with its undo log. `turn` names the
task that is inside a run of synchronous walk steps, during which no other task
can run. `acked`, `snap` and `tainted` are history, read by properties only.

An action is one await-free segment:

| Action | Code |
|---|---|
| `Submit`, `InboundFail` | `handle_io` gate and `bind_undo`; inbound half of `handle_tbor_op` |
| `Reject`, `Dispatch` | the gates of `dispatch` and the checks at the head of each handler |
| `ReadUms`, `StageKey` | PartFinal's validation; `stage_part_keys`, `stage_final_keys`, UnwrapKey's create |
| `CommitInit`, `CommitFinal` | the await-free `commit_partition_state`, `commit_final`, a failing setter leaving the earlier ones in place |
| `ClaimSd`, `VaultSd` | `commit_sd_to_vault` before and after its await |
| `PskReserve`, `PskInstall` | PskChange before and after the AEAD open |
| `UnwrapDone` | masking, delete and `discard` |
| `HandlerError` | an `Err` of parsing, crypto or allocation at an await |
| `OutboundOk`, `OutboundFail`, `Complete` | response DMA and `complete_io` |
| `UndoEntry`, `CommitEntry`, `WalkEnd` | `undo_one` with `undo_policy`, `commit_one`, `part_set_faulted` and `drop_io` |

A handler's `Err` becomes an encoded error response, so it reaches `Complete`
with `handlerOk` true, as in the code. Crypto is a success or an error. The
properties PTA_KEY_ID / PTA_PUB_KEY, and POLICY_HASH / the three thumbprints,
are written, recorded and cleared together and are one property each.

### TborSessions

`tbl` is the session table with the pending blob, `pending_seqs`, `phys_ids` and
`psk_change_mask` of each slot; `vault` maps a key slot to the handshake whose
keys it stores. A handshake is a pair (number, role); a MAC or envelope verifies
iff it was made, intact, under the handshake the firmware checks it with. The
host uses only what a posted completion told it (`told`), with intact or damaged
payloads and in any number of copies. The initial table is empty or restored
after a live migration, in which case slots need renegotiation. Partition
disable is left out; the MBOR session verbs are in `MborCommands`.

### UndoLog and UndoStack

`UndoLog` has the buffer byte by byte: entry slots from the front, pre-images
from the back, packed handles, the overflow check, both walks and the scrub. The
refinement mapping decodes the entries a walk has not reached. A slot byte is
the triple (action, data, index), which makes an overwritten slot visible. A
pre-image whose offset or length exceeds a half of the handle is refused like
one that does not fit (`PushBytes`), as `pack_bytes_handle` does; with a buffer of
256 bytes and 16-bit halves (`UndoConstantsOK`) this refusal does not occur.

### MborCommands

`nonce`, `cred`, `mk` and `unwrap` are the partition's properties, `slot` and `vault`
the two tables, `task[t]` the locals of a command. EstablishCredential,
OpenSession, ReopenSession and ChangePin share their head, so they share its
actions; every await is a boundary between two actions, at which commands that
do not take the lock may act.

| Action | Code |
|---|---|
| `Admitted`, `Check` | the session gate of the dispatcher; `partition_lock`, nonce comparison and the state checks |
| `Authenticate`, `Fail` | decryption of the PIN and the nonce refresh; an `Err` at an await, which keeps what was done |
| `ProvisionMk`, `ReimportUnwrappingKey`, `Establish` | EstablishCredential's masking key, unwrapping key and final synchronous writes |
| `VerifyCredential`, `CreateSession`, `RecreateSession`, `Respond`, `ChangePin` | the tails of the other three |
| `CloseSession`, `Flush` | `session_destroy` with the deletion of the session's keys |
| `StartGenerate`, `CommitKey`, `FinishKey`, `DeleteKey`, `GetUnwrappingKey` | the key commands; creation is `key_create` followed by masking, with the rollback by id |
| `Reset` | `part_disable` and `part_enable`: the vault is emptied, mapped slots await renegotiation |

A PIN stands for the whole credential. A nonce is the number of refreshes before
it. A physical id is the vault entry that stores the session's blob.

### UnoSessions

`slot`, `vault` and `fpBits` are the firmware's view, `engine` the fast-path
processor's. A message to the engine can fail before or after the engine has
executed it; the code sees only that it failed. A bulk key is created in four steps (engine
slot, message, vault handle, or roll-back), a session is destroyed in three (its
bulk keys, its blob, its slot), and `session_create_pending` and `session_promote`
run between those steps because they do not take `fp_bulk_lock`. `tag` names a bulk
key so that a property can tell two keys in one engine slot apart. Session ids are
reused, so `life` names the session that is in a slot: the command that
established it. A bulk key carries the life it was registered under. Both are
history; the code compares ids only. `DisableFails`
is a `part_disable` whose engine message fails; `Clear` empties the partition.

### UpkaPool

The driver's state is in a `SingleCell` and a poll is never interrupted, so an action
is one poll of one task: it may end one command and issue the next, or end the
wipe, release the engine and return. The closures that the PAL runs on an engine
await nothing but the engine's commands. Wakers are state (`ewaker`, `swaker`,
`qwaker`), because a poll that forgets to register one, or registers it over
another's, is the way such code fails; `woken` are the tasks the executor will poll.

| Action | Code |
|---|---|
| `ClaimFreeEngine`, `JoinQueue`, `TakeAssigned` | `acquire_any`: a free engine, a new ring entry, a later poll with an engine assigned |
| `StartSpecific`, `WaitSpecific`, `ResumeSpecific`, `RepollSpecific` | `acquire_engine` on its first and later polls |
| `WakeEngine` | the hardware ends a command and the interrupt task captures its status |
| `CommandDone` | the next command of the operation, or the wipe |
| `Release`, `DropUnreleased` | `release` after a wipe that succeeded or failed, with `release_engine_and_dispatch` |

A call that finds the ring full, or an engine's one waiting place taken, returns an
error and changes nothing, so it is no action. `CursorMod` is 256 in the code; that
the capacity divides it is the driver's power-of-two assertion.

`EnginePool` has no ring, cursors, wakers or polls: engines are free, kept for a
caller by number, or held by one task, and `ahead` says who stands in line before
whom. The mapping reads it off the driver. A task holds its engine from the
release that assigned it, although it finds out at its next poll; the line are
the pending entries, in the order from head to tail. `TakeAssigned`, which clears
an entry and moves the head, and all commands, interrupts and wipes are stutters.

### Resiliency

`cred`, `devSess`, `vault` are the device, `store` the epoch in shared storage, the
rest belongs to each process; `th[t]` is the call a thread is in. Locks are not
variables: who holds one, or is queued for writing, is read off the program
counters (`HoldsWrite`, `HoldsRead`, `Draining`, `HoldsKey`, `HoldsFile`). The key barrier is
`parking_lot`'s RwLock: a writer keeps new readers out from the moment it queues. An
operation takes the barrier first and then waits for the lock of its key with the
barrier held, to read the epoch (`Check`) and to use the handle (`Use`). The inner
locks of the partition and of the session are released before anything is waited
for, so they stop nobody and are left out. `astray` is history, read by one property only: a
key was stamped with an epoch its session was not opened in, or on a handle that
no longer named it. `Waits` lists the lock each step needs, from the guards of the
actions.

| Action | Code |
|---|---|
| `StartOp`, `Enter`, `Check`, `Use` | `execute_key_op_with_retry`, phase 1: the barrier's read lock, the epoch comparison, the operation |
| `Recover`, `Drain` | phase 3: queue for the barrier's write lock; obtain it once the readers have left |
| `Lock`, `Establish`, `Apply` | `restore_partition`: file lock, credential, storage and epoch |
| `ReopenSession`, `RestoreKey` | `reopen_session` and `restore_from_masked` |
| `StartGenerate`, `Retry`, `Generate`, `StampKey` | `execute_key_gen_with_retry` and `HsmKeyInner::new` |
| `StartOpen`, `Open`, `StampSession`, `CloseSession` | opening and closing a session |
| `StartDelete`, `Own`, `DeleteCheck`, `Erase` | `delete_key`: the key's write lock, then the barrier's read lock |
| `StartInit`, `InitRetry`, `InitNonce`, `InitEstablish` | `init_part` with its retry |
| `Crash`, `Reset` | a process dies at any point, releasing its locks; the device resets at any point |

## 3. The runs

| Run | Bounds | States | Shows |
|---|---|---|---|
| `all_commands` | 2 tasks, 2 commands of any kind and either role, 6 key slots, 2 losses, from a fresh, a rotated and a provisioned partition | 151 thousand | `TypeOK`, `AckedInitStands`, `AckedSdStands`, `SoftDeletedIsOwned`, `PublishedKeysLive`, `SoloUndoIsExact`, `EveryCommandEnds` |
| `sessions` | 2 tasks, 4 commands, 1 Officer and 2 User slots, 3 key slots, 1 loss | | `TypeOK`, `SessionKeysOwned`, `RoleBySlot`, `NoUnreportedSession`, `OneRotationPerSession`, `EvictsOldestPending` |
| `undo_buffer` | 7-byte buffer, 2-byte entries, pre-images up to 2 bytes, handle halves below 8 | | `TypeOK`, `ImplementsStack` |
| `mbor` | 2 tasks, 2 sessions, 4 vault ids, 2 PINs, 8 commands and resets | 2.3 million | `TypeOK`, `NonceUnspent`, `PinInForce`, `MaskingKeyLives`, `SessionKeysReachable` |
| `uno_sessions` | 2 tasks, 2 sessions, 3 vault ids, 2 engine slots, 5 commands, 2 faults | 3.4 million | `TypeOK`, `HandlesNameTheirKey`, `EngineKeysReserved`, `BulkKeysHaveSession` |
| `upka` | 4 tasks, 2 engines, a ring of 2, cursors modulo 4, 2 commands an operation; three tasks may ask for an engine by number, for each engine two of them, any number of times | 297 thousand | `TypeOK`, `EngineAccounted`, `HandedOverQuiet`, `NoIdleEngineWhileQueued`, `ServedInOrder`, `WokenIffReady`, `WaitersServed`, `ImplementsPool` |
| `resiliency` | 2 processes with 3 threads and 1, 2 keys, 1 handle, 1 retry, 2 resets, 1 error | 1.6 million | `TypeOK`, `StampedHandlesHold`, `EpochsOrdered`, `OnlyInversionLocks`, `EpochsGrow` |

Why the bounds are enough to meet the interesting cases.

* `all_commands`, `sessions`: claims are contested by two commands. Two losses let a
  rolled-back command meet another one, and a deleted key slot is reused. Two
  User slots make `create_pending` choose between an empty slot, two pending ones
  and the limit; four commands suffice to open, finish twice and close or rotate.
* `undo_buffer`: seven bytes have room for three entries or for two entries with
  pre-images, so slots and pre-images meet in the middle, with a byte to spare.
* `mbor`: eight commands establish, open two sessions, change the PIN, generate,
  reset, establish again and reopen; four ids are fewer than these ask for.
* `uno_sessions`: five commands open, create two bulk keys, close and create again
  in the slot that was freed; two engine slots and three ids fill up; two faults
  let a message fail and its clean-up fail too.
* `upka`: four tasks on two engines fill the ring of two and are refused a place; a
  cursor modulus of twice the capacity wraps after four arrivals, and arrivals
  are not bounded, by number or otherwise. Two tasks ask for each engine by number,
  so one of them can take the engine that was assigned to the other, and together
  they can keep both engines from the ring: without its premise `WaitersServed`
  fails in this instance.
* `resiliency`: one handle for two keys makes every index be reused after a reset,
  which is the case the epoch exists for, and the vault full when the other key is
  made or restored. Two resets let the second hit a recovery from the first, and
  exhaust the retry. Two processes race for the restore. Two threads of one use
  and delete its key and a third deletes it, as many as the longer lock-up needs:
  an operation, a delete and a queued recovery. The thread of the other makes and
  deletes its key, opens and closes its session, crashes and restarts. All three
  cases of `OnlyInversionLocks`, and both forms of the last, occur: without any
  one of them TLC finds the property violated. `StampedHandlesHold` excludes only
  the histories in which a key was stamped astray (`new_key_is_own` below), and
  speaks of keys that are not deleted, since a thread may pass the epoch check
  with a key that another thread then deletes. A handle that moves to another
  index takes two handles; that run is `new_key_is_own`, and the theorems have no
  such bound.

TLC's numbers say nothing about larger instances; the theorems of section 4 do.

*Deadlock* is checked in `resiliency` and `upka`, where calls are not bounded; in
`resiliency` one process can stop (`calls_end` below), the other goes on. The other runs
bound the number of commands, and a partition whose commands have all ended
rests.

*Fairness.* `EveryCommandEnds` assumes weak fairness of `Step(i)` for each firmware
task: the executor polls every woken task again, and the DMA and crypto engines a
task waits for answer with success or failure. `WaitersServed` assumes the same of
each task's `Poll(t)`, and of `WakeEngine(e)`: the hardware ends every command, and
the task that polls interrupts is an endless loop that yields. `CallsEnd` assumes strong fairness
of each host thread's `Step(t)`, because threads compete for locks: the key
barrier is a `parking_lot` RwLock, which does not starve a waiter, and waiters of
the file lock are served. Nothing is assumed about faults or about which outcome
occurs, and nothing about the callers' requests but in `WaitersServed`: a release
serves the waiter by number before the ring (`pool.rs:285`), so the property is
stated for behaviours in which some engine is in the end no longer waited for by
number. Without this the ring starves, as the last item below says.

### Disagreements between the source's words and its behaviour

Five runs expect a violation. Each states what a comment or a design document says,
and TLC shows the code's order of steps that contradicts it.

* `sd_claim_has_key`: an error response counts as success for the walk
  (`io.rs:445`), so an SD command that fails after its one-shot claim keeps the
  claim and no masking key; every later attempt is refused.
* `acked_rotation_stands`: undo writes the captured PSK back without looking; the
  failing one of two concurrent rotations puts the public default over the
  acknowledged one.
* `one_rotation_per_schedule`: promotion checks that the slot is Pending, not
  that it still holds the handshake that was verified, so a second copy of a
  finish can install the same keys in a later life of the slot.
* `new_key_is_own`: a generated key is stamped with the epoch current when its
  object is built, after the barrier is released; a reset and another thread's
  recovery in between make a dead handle look current. A process whose generating
  thread is alone can be affected too, in a longer history (three resets and two
  errors): it reopens its session after another process has established the
  credential and before that process has written the new epoch, so the session
  stays one epoch behind; a key generated then carries the newer epoch, and after
  the next reset counts as restored although it is not.
* `calls_end`: `delete_key` takes the key's lock before the key barrier, everyone else
  the barrier before the key's lock; the design document orders the barrier
  first. The lock-up has two forms. A recovery holds the barrier for writing and
  waits for the key it restores, which a delete holds that waits for the barrier.
  Or an operation holds the barrier for reading and waits for the key; the delete
  holds the key and is kept out of the barrier by a recovery that is queued for
  it; the recovery waits for the operation to leave. `OnlyInversionLocks` shows that
  the locks stop a process in no way that does not contain this inversion.

Seven more behaviours that the models contain are stated by no run:

* the teardown after a failed MAC acts on a slot id whose session another finish
  may have made Active meanwhile;
* ReopenSession is exempt from the session gate, and `io.rs:667` says that its handler
  checks the slot's state. It does not, and on an Active slot `session_create` deletes
  the session's keys and blob before the table rejects the call, so the session
  stays Active without a blob;
* `part_state.rs:203` says that only a free/realloc cycle clears Faulted. The quarantine
  is an ordinary write of STATE, and a command in flight that recorded STATE earlier
  writes its pre-image over it when its completion fails (two PartInit and a
  PartFinal, all with lost completions);
* in the engine pool an engine assigned to the waiter of its number is taken by
  whichever caller polls first; the waiter then registers again with `waiting`
  already false (`pool.rs:96` says the flag tells whether a task waits), and no
  release wakes it. Nothing outside the driver calls `acquire_engine` at this
  commit;
* `design-resiliency.md:301` says "Storage epoch always ≥ in-memory epoch". `bump_epoch`
  assigns the new epoch and then writes it (`partition.rs:1471-1472`), so after a
  failed `write_epoch` the partition is one ahead of storage. While the credential
  stands, every further recovery of that process then finds that storage went
  backwards and fails (`sync_epoch_from_storage`), until another reset makes it
  establish the credential itself. `EpochsOrdered` states what holds instead: no epoch
  is ahead of storage without an error, and after one by exactly the lost write;
* `vault.rs:414-416` says that a bulk-key create whose session was torn down while it
  waited for `fp_bulk_lock` is rejected. The check under the lock (`vault.rs:437-444`)
  looks at the session id only: if the session was closed and its id opened again
  meanwhile, the key of the old session's command is registered in the new
  session. `BulkKeysHaveSession` speaks of the session a key was registered in;
* callers that ask for every engine by number, again and again, keep the ring of
  the engine pool waiting for ever (`pool.rs:285-290`); again nothing outside the
  driver calls `acquire_engine` at this commit.

`PublishedKeysLive` is stated for histories in which no command that had company
was rolled back: with such a rollback a stale pre-image can publish the id of a
deleted key, the same mechanism as the second disagreement. `SoloUndoIsExact` is
stated for the same histories. Its command runs alone, but it starts from the
partition it finds, and PartInit and PartFinal record pre-images without reading
them (`push_prop_restore_absent`, `part_final.rs:651`): they are exact only if the
partition is in one of its proper phases, which a stale pre-image can undo.

## 4. The proofs

All are checked by TLAPS for every value of the constants: any number of IO slots,
key slots, sessions, processes, threads, commands and faults. The assumptions
are `ConstantsOK` (distinct sentinels) and `ProvisionedOK` (a partition that starts
provisioned has the key slots for it) of `TborCommands`, `ConstantsOK` of
`TborSessions`, and a `ConstantsAssumption` of types and distinct sentinels in
`MborCommands`, `UnoSessions` and `Resiliency`. `UndoLog` assumes in `UndoConstantsOK` and
`SentinelsOK` that entries have a positive size, that the buffer's offsets and the
pre-images' lengths fit the halves of a packed handle, and distinct sentinels.
`UpkaPool` assumes a positive number of engines and ring entries, and cursors that
wrap at a larger multiple of the ring's capacity.

* `TypeCorrect`: `Spec => []TypeOK`. `TypeOK` is not inductive: a commit block
  indexes `staged` and reads `ums`, whose length and presence follow from where
  the task is. `TypeInv` adds `ControlOK`, which ties each task's locals to its
  program counter.
* `InitStands`, `SdStands`, `SoftDeletedOwned`: `AckedInitStands`,
  `AckedSdStands`, `SoftDeletedIsOwned`, from one inductive invariant
  `ClaimsInductive`, the conjunction of
  * `TypeInv`;
  * `ShapeOK`: what a log may hold at each point of each command;
  * `ClaimInv`: at most one running command holds the inverse of a claim
    (`OneHolder`); while one does, nobody has been acknowledged for it; and an
    acknowledged or held claim is the value in the property table (`InitClaim`,
    `SdClaim`). This is the argument that guards-first commits resolve races: a
    loser fails before it records an inverse, so no walk can withdraw the
    winner's claim;
  * `SoftDeletedIsOwned` itself.

* `PublishedLive`, `SoloUndoExact`: `PublishedKeysLive` and `SoloUndoIsExact`, from
  `RollbackInv`, which adds to `ClaimsInductive` the shape of the logs (`LogsOK`), who
  runs alone (`AloneOK`), and, for histories without a tainted rollback,
  `PartitionOK`. The argument has three parts.
  * Outside a walk the partition is in one of three phases (`PhaseInv`): the
    pre-images that PartInit and PartFinal record blindly are the values in force.
  * A lone command's log rewinds the partition to its snapshot at every await
    (`RewindOK`), because each write is preceded by its inverse and the walk runs
    from the last entry to the first.
  * A walk restores the properties without an await before it deletes the first
    key. A command that arrives during the walk therefore finds a partition in a
    phase again, and what is left of the log (`TailOK`) only deletes keys that are
    published nowhere and withdraws an unused SD claim.

* `LogTypeOK`, `LogImplementsStack`: the two properties of `undo_buffer`, for every
  size of buffer, entry and pre-image. `LogInv` is the types, `WalkOK` and `Intact`: slots and pre-images do not overlap, and
  every slot in use decodes to an entry whose handle lies inside the arena. A push
  writes into the gap, so every entry below it, and every pre-image above, reads
  as before; with this each step of the buffer maps to a step of `UndoStack` or to
  a stutter.

* `SessionsTyped`, `KeysOwned`, `RolesMatch`, `UnreportedEnds`, `OneRotation` and
  `EvictionOrder`: the six properties of the `sessions` run, from one inductive
  invariant `SessionsInductive`, the conjunction of
  * the types, with `ControlOK`: a finish past its first segment works with a
    blob of its slot's role and has that slot in its log;
  * `PendingOK`: a pending slot holds a handshake of its role, stamped with its
    own number. Promotion only checks that the slot is Pending, so a finish may
    promote a slot that another handshake has taken over since; the role still
    matches because both handshakes are of the slot's role;
  * `SessionKeysOwned` and `RoleBySlot` themselves;
  * `OpenerOK`: the log of the command a slot's unreported occupant comes from
    names that slot, so the command's walk withdraws it;
  * `LifeOK`: promotions are told apart by their number, and a rotation under
    way or done has spent the budget of its session, if that is still there.

  `EvictionOrder` is an action property: only `create_pending` writes a pending
  record, and `Victim` chooses by sequence number, which `PendingOK` identifies
  with the age of the handshake.

* `MborTyped`, `NonceOnce`, `PinCurrent`, `MaskingKeyStays`, `KeysReachable`: the five
  properties of the `mbor` run, from `IInv`. `PinInForce` speaks of a command that is
  about to create a session, and is inductive only with what every command relies
  on across its awaits (`TasksOK`), that one command holds the lock (`OneLocked`),
  and that an Active slot implies a credential and a blob other than the masking
  key (`SlotsOK`): deletion is by id, and this is what keeps a teardown or a
  rollback away from the masking key.

* `UnoTyped`, `NoAliasing`, `SlotsReserved`, `TeardownComplete`: the properties of the
  `uno_sessions` run. `IInv` adds to the types one lock holder, `HandleInv` (two vault
  handles never share an engine slot, and a handle's slot is taken), `EngineInv` (a
  slot the engine uses is taken), and for each multi-step command what is left to
  do while it awaits: `CreateInv`, `DeleteInv`, `CloseInv`, `WaitInv`. A bulk-key create
  waits for the lock, and looks at its session again once it has it; without that
  second look `BulkKeysHaveSession` fails, which is the property's mutant. `HandleInv`
  and `EngineInv` carry the life of the session: no session of a slot is replaced
  while a handle or an engine slot is registered in it, because a close frees the
  slot last and under `fp_bulk_lock` (`CloseInv`).

* `ResiliencyTyped`, `EpochOrder`, `EpochsOnlyGrow`: the types and the two epoch
  properties of `resiliency`. A partition is ahead of storage only after an error, by
  the one epoch whose write was lost. The epochs are ordered only because a process that is
  down has no calls but its initialisation (`DownInv`), one thread at most
  initialises it (`OneInit`), and a call stamps only keys of its own process, with
  an epoch it read from its own partition (`CallInv`).

* `StampsVouch`: `StampedHandlesHold`, from `SInv` on top of the invariant of the epochs.
  `LockInv` says that the barrier and the key locks exclude, `SessionInv` and `GenInv`
  that live keys have a session and that a key under construction is known to its
  thread only. `StampInv` is the point: a live key's stamp is never later than its
  session's, and if it is equal and the device accepts the session, the handle
  names the key. A session's epoch moves only under the barrier's write lock,
  when no thread is between its check and its use, and every older stamp falls
  behind at that moment; a reset invalidates the session before it can be reopened.

* `TypeCorrect`, `EnginesAccounted`, `NoEngineIdles`, `ArrivalOrder`, `HandOverIsQuiet`,
  `NoLostWakeUp` of `UpkaPoolProofs`: the safety properties of the `upka` run. They start
  from the arithmetic of the ring: an index is the cursor modulo the capacity
  whether or not the cursor wrapped (`IndexIs`), entries less than a capacity apart
  are different (`IndexApart`), the entry a new waiter reserves is free
  (`TailIsFree`), and moving the head past free entries loses no waiter
  (`RingAfterClear`). `Inv` is the types, `RingOK` (every occupied entry is between
  the cursors, which are at most a capacity apart), `Exclusive` and `Complete` (at
  most and at least one claim on an engine), `Owned` (queued tasks and occupied
  entries correspond) and `Numbered`. On top of it `NoIdle` and `ServedInOrder` are
  inductive as they stand. `HandedOverQuiet` needs `Quiet`: a holder whose command
  has completed is not busy, and after a successful wipe not dirty. `WokenIffReady`
  needs `Wakers`: every registered waker belongs to the task that waits there, and
  a task that sleeps with something coming has its waker registered.

* `DriverImplementsPool`: `Spec => ImplementsPool`, from `Inv`, `NoIdle` and
  `ServedInOrder`. Two kinds of step need an argument. A poll that clears an entry
  must be a stutter: the entry it clears is not pending, and although the head then
  skips any number of entries, two pending entries keep their order (`SameLine`,
  from `RingAfterClear`), because a task occupies one place of the ring (`OnePlace`).
  A release must be `Free`, `Keep` or `HandOver`: the first pending entry from the head
  belongs to one task and nobody is ahead of it (`DispatchIsRelease`). That a free
  engine is claimed only while nobody stands in line, also by a caller by number
  who never looks at the ring, is `NoIdle`.

* `LocksDrain`: `OnlyInversionLocks`. The property is about who waits for whom and
  follows from `IInv`, which says that a call locks keys of its own process only. The
  holder of the file lock waits for nothing. With the file lock free, suppose that
  all calls of a process wait. Then somebody has the barrier for writing or is
  queued for it (`WaitsForWriter`): otherwise the calls wait for keys, and the
  `delete_key` that holds one can enter the barrier. A writer inside waits for the key
  it restores; a queued writer waits for a reader, and that reader waits for its
  key. In both cases the key is held by a `delete_key` of the process that cannot
  enter the barrier (`KeyHolder`), so the two are crossed (`WriterIsInverted`).

Only model-checked are `EveryCommandEnds`, `WaitersServed`, and the refutation of
`CallsEnd`: liveness under fairness is outside the prover. So is ENABLED, which is
why `OnlyInversionLocks` speaks of the locks a step needs.

## 5. Not modelled

* Crypto, codecs and transports are computation or I/O without state of their
  own; so are the OpenSSL engine and provider. They, their test vectors and their
  tests are most of the repository's lines.
* The commands that only read partition state (hash, sign, encrypt, reports) go
  through the same pipeline with an empty log.
* InitBk3 and SetSealedBk3 are one synchronous one-shot write each.
* Allocation and free of partitions by the administrator create and drop the
  whole table while no command of the partition is in flight.
* The other Uno drivers (IPC, IIC/OIC, GDMA) are registers and interrupts; in
  `UnoSessions` each is a message or a copy that succeeds or fails.
* The device simulator and the mock device of the host's tests are a second
  implementation of what the firmware models describe.
* On the host, the certificate chain's retry loop, which keeps no state, and the
  sessions of `open_session_ex`, which are not restored after a reset.

## 6. Plan

1. Done: `TborCommands`, `UndoLog`/`UndoStack`, `TborSessions`, `MborCommands`,
   `UnoSessions`, `UpkaPool`, `Resiliency`, with their theorems.
2. Done: a theorem for every safety property of the passing runs and for both
   refinements.
3. Open: InitBk3 and SetSealedBk3 in `MborCommands`; allocation and free against IOs
   that are still queued, with live migration.
