---------------------------- MODULE MborCommands ----------------------------
(***************************************************************************)
(* Credential, session and key commands of the MBOR command set on one     *)
(* partition of the std platform.                                          *)
(*                                                                         *)
(* EstablishCredential, OpenSession, ReopenSession and ChangePin share one *)
(* shape: take the partition lock, check the nonce and the partition's     *)
(* state, authenticate the request, refresh the nonce, and go on to the    *)
(* command's own steps, awaiting the crypto engine in between and keeping  *)
(* the lock to the end.  OP_FLUSH waits for the lock; CloseSession and the *)
(* key commands do not take it and run in between.  MBOR has no undo log:  *)
(* a command that fails keeps what it had done.                            *)
(*                                                                         *)
(* A nonce is the number of refreshes before it; a PIN stands for the      *)
(* whole credential.  The partition's own key pairs live in vault entries  *)
(* outside Ids.  Crypto is a success or a failure at each step.            *)
(***************************************************************************)
EXTENDS Naturals, FiniteSets

CONSTANTS
    Tasks,          \* command tasks of the executor
    MaxSessions,    \* session slots
    NumIds,         \* vault entries for masking, session and host keys
    Pins,           \* PINs the host uses
    NoPin,          \* no credential is set
    MaxCommands     \* bound on commands and partition resets

Slots == 0 .. MaxSessions - 1
Ids == 1 .. NumIds

ASSUME ConstantsAssumption ==
    /\ MaxSessions \in Nat
    /\ NumIds \in Nat
    /\ MaxCommands \in Nat
    /\ NoPin \notin Pins

VARIABLES
    nonce,          \* NONCE property
    cred,           \* CREDENTIAL property, or NoPin
    mk,             \* MK_KEY_ID property, or 0
    unwrap,         \* RSA_UNWRAPPING_KEY_ID property, or 0
    slot,           \* SessionTable: state and physical id of each slot
    vault,          \* KeyVault: kind of each entry and the session key it is bound to
    task,           \* the command each task runs
    made            \* commands so far

partVars == <<nonce, cred, mk, unwrap>>
vars == <<nonce, cred, mk, unwrap, slot, vault, task, made>>

-----------------------------------------------------------------------------
FreeSlot == [st |-> "free", phys |-> 0]
FreeEntry == [kind |-> "free", sess |-> 0]
Entry(kind) == [FreeEntry EXCEPT !.kind = kind]
Idle == [op |-> "none", pc |-> "idle", sess |-> 0, pin |-> NoPin, nonce |-> 0,
         id |-> 0, id2 |-> 0]

At(t, op, pc) == task[t].op = op /\ task[t].pc = pc

Goto(t, pc) == task' = [task EXCEPT ![t].pc = pc]

Return(t) == task' = [task EXCEPT ![t] = Idle]

\* Mutant: the lock is released once the credential is verified.
LockedToVerify == {"auth", "body", "import", "commit"}

\* Where a command holds the partition lock.
Locked == {"auth", "body", "import", "commit", "create", "respond"}

\* Mutant: the lock is not waited for.
LockIgnored == TRUE

LockFree == \A u \in Tasks : task[u].pc \notin Locked

IsLeast(x, S) == x \in S /\ \A y \in S : x <= y

FreeIds == {i \in Ids : vault[i].kind = "free"}

BoundTo(p) == {i \in Ids : vault[i].sess = p /\ p # 0}

Drop(S) == [i \in Ids |-> IF i \in S THEN FreeEntry ELSE vault[i]]

\* A new entry takes the lowest free id.
Store(i, e) ==
    /\ IsLeast(i, FreeIds)
    /\ vault' = [vault EXCEPT ![i] = e]

Count == made < MaxCommands /\ made' = made + 1

\* The host read the nonce before it sent the request.
Begin(t, op, pc, s, pin) ==
    /\ task[t].pc = "idle"
    /\ Count
    /\ task' = [task EXCEPT ![t] = [op |-> op, pc |-> pc, sess |-> s, pin |-> pin,
                                    nonce |-> nonce, id |-> 0, id2 |-> 0]]
    /\ UNCHANGED <<partVars, slot, vault>>

-----------------------------------------------------------------------------
(* The locked commands                                                      *)

StartEstablish(t, pin) == Begin(t, "establish", "wait", 0, pin)

StartOpen(t, pin) == Begin(t, "open", "wait", 0, pin)

\* ReopenSession is exempt from the dispatcher's live-session gate.
StartReopen(t, s, pin) == Begin(t, "reopen", "wait", s, pin)

StartChangePin(t, s, pin) ==
    /\ slot[s].st = "active"
    /\ Begin(t, "pin", "wait", s, pin)

Admitted(t) ==
    /\ task[t].nonce = nonce
    /\ task[t].op = "establish" => cred = NoPin /\ mk = 0
    /\ task[t].op \in {"open", "reopen"} => cred # NoPin /\ mk # 0
    /\ task[t].op = "open" => \E s \in Slots : slot[s].st = "free"
    /\ task[t].op = "pin" => cred # NoPin

\* check_fail_fast, once the lock is held.
Check(t) ==
    /\ task[t].pc = "wait"
    /\ LockFree
    /\ IF Admitted(t) THEN Goto(t, "auth") ELSE Return(t)
    /\ UNCHANGED <<partVars, slot, vault, made>>

\* The request's MAC holds and the nonce is refreshed, or the MAC fails.
Authenticate(t) ==
    /\ task[t].pc = "auth"
    /\ \/ nonce' = nonce + 1 /\ Goto(t, "body")
       \/ Return(t) /\ UNCHANGED nonce
    /\ UNCHANGED <<cred, mk, unwrap, slot, vault, made>>

\* A step inside a locked command fails: an error response, nothing undone.
Fail(t) ==
    /\ task[t].pc \in {"body", "import", "commit", "create"}
    /\ Return(t)
    /\ UNCHANGED <<partVars, slot, vault, made>>

-----------------------------------------------------------------------------
(* EstablishCredential                                                      *)

ProvisionMk(t) ==
    /\ At(t, "establish", "body")
    /\ \E i \in Ids :
         /\ Store(i, Entry("mk"))
         /\ task' = [task EXCEPT ![t].pc = "import", ![t].id = i]
    /\ UNCHANGED <<partVars, slot, made>>

\* After a migration the host presents the unwrapping key it had.
ReimportUnwrappingKey(t) ==
    /\ At(t, "establish", "import")
    /\ \/ Goto(t, "commit") /\ UNCHANGED vault
       \/ \E i \in Ids :
            /\ Store(i, Entry("unwrap"))
            /\ task' = [task EXCEPT ![t].pc = "commit", ![t].id2 = i]
    /\ UNCHANGED <<partVars, slot, made>>

Establish(t) ==
    /\ At(t, "establish", "commit")
    /\ cred' = task[t].pin
    /\ mk' = task[t].id
    /\ unwrap' = IF task[t].id2 = 0 THEN unwrap ELSE task[t].id2
    /\ Return(t)
    /\ UNCHANGED <<nonce, slot, vault, made>>

-----------------------------------------------------------------------------
(* OpenSession, ReopenSession, ChangePin                                    *)

\* part_verify_credential
VerifyCredential(t) ==
    /\ task[t].pc = "body" /\ task[t].op \in {"open", "reopen"}
    /\ task[t].pin = cred
    /\ Goto(t, "create")
    /\ UNCHANGED <<partVars, slot, vault, made>>

CreateSession(t) ==
    /\ At(t, "open", "create")
    /\ \E i \in Ids, s \in Slots :
         /\ Store(i, Entry("session"))
         /\ IsLeast(s, {r \in Slots : slot[r].st = "free"})
         /\ slot' = [slot EXCEPT ![s] = [st |-> "active", phys |-> i]]
    /\ Goto(t, "respond")
    /\ UNCHANGED <<partVars, made>>

\* A slot that awaits renegotiation gets a new blob.  For any other slot the
\* old session is torn down before `recreate` rejects the call.
RecreateSession(t) ==
    LET s   == task[t].sess
        old == slot[s].phys
    IN
    /\ At(t, "reopen", "create")
    /\ \/ /\ slot[s].st = "renego"
          /\ \E i \in Ids :
               /\ Store(i, Entry("session"))
               /\ slot' = [slot EXCEPT ![s] = [st |-> "active", phys |-> i]]
          /\ Goto(t, "respond")
       \/ /\ slot[s].st # "renego"
          /\ vault' = Drop(BoundTo(old) \cup {old})
          /\ Return(t)
          /\ UNCHANGED slot
    /\ UNCHANGED <<partVars, made>>

\* The response is encoded under the lock; if that fails the session stays.
Respond(t) ==
    /\ task[t].pc = "respond"
    /\ Return(t)
    /\ UNCHANGED <<partVars, slot, vault, made>>

\* The PIN is replaced, whatever became of the session meanwhile.
ChangePin(t) ==
    /\ At(t, "pin", "body")
    /\ cred' = task[t].pin
    /\ Return(t)
    /\ UNCHANGED <<nonce, mk, unwrap, slot, vault, made>>

-----------------------------------------------------------------------------
(* CloseSession and OP_FLUSH                                                *)

\* Mutant: the keys bound to the session are left.
DestroyKeepsKeys(s) ==
    \/ /\ slot[s].st = "renego"
       /\ slot' = [slot EXCEPT ![s] = FreeSlot]
       /\ UNCHANGED vault
    \/ /\ slot[s].st = "active"
       /\ vault' = Drop({slot[s].phys})
       /\ slot' = IF vault[slot[s].phys].kind = "free" THEN slot
                  ELSE [slot EXCEPT ![s] = FreeSlot]

\* session_destroy.  A session whose blob is missing loses its keys, and the
\* error that follows leaves its slot.
Destroy(s) ==
    \/ /\ slot[s].st = "renego"
       /\ slot' = [slot EXCEPT ![s] = FreeSlot]
       /\ UNCHANGED vault
    \/ /\ slot[s].st = "active"
       /\ vault' = Drop(BoundTo(slot[s].phys) \cup {slot[s].phys})
       /\ slot' = IF vault[slot[s].phys].kind = "free" THEN slot
                  ELSE [slot EXCEPT ![s] = FreeSlot]

CloseSession(s) ==
    /\ Count
    /\ Destroy(s)
    /\ UNCHANGED <<partVars, task>>

Flush(s) ==
    /\ LockFree
    /\ Count
    /\ Destroy(s)
    /\ UNCHANGED <<partVars, task>>

-----------------------------------------------------------------------------
(* Key commands: AesGenerateKey and its siblings, DeleteKey and
   GetUnwrappingKey                                                         *)

\* The session is checked when the command is dispatched.
StartGenerate(t, s) ==
    /\ slot[s].st = "active"
    /\ Begin(t, "generate", "generate", s, NoPin)

\* The session key a new key is bound to: looked up when the key is stored,
\* and unusable without a blob to mask under.
Binding(t, bound) ==
    IF bound
    THEN {p \in Ids : /\ slot[task[t].sess] = [st |-> "active", phys |-> p]
                      /\ vault[p].kind = "session"}
    ELSE {0}

\* commit_key: without a binding or a free entry nothing stays.
CommitKey(t) ==
    /\ At(t, "generate", "generate")
    /\ \/ \E i \in Ids, bound \in BOOLEAN : \E p \in Binding(t, bound) :
            /\ Store(i, [kind |-> "key", sess |-> p])
            /\ task' = [task EXCEPT ![t].pc = "mask", ![t].id = i]
       \/ Return(t) /\ UNCHANGED vault
    /\ UNCHANGED <<partVars, slot, made>>

\* The key is masked for the host; rollback_on_err deletes by id.
FinishKey(t) ==
    /\ At(t, "generate", "mask")
    /\ \/ UNCHANGED vault
       \/ vault' = Drop({task[t].id})
    /\ Return(t)
    /\ UNCHANGED <<partVars, slot, made>>

\* Mutant: the internal attribute is not looked at.
HostKeyAny(i) == vault[i].kind # "free"

\* Keys the device made for itself are internal.
HostKey(i) == vault[i].kind = "key"

DeleteKey(s, i) ==
    /\ slot[s].st = "active"
    /\ HostKey(i)
    /\ vault[i].sess \in {0, slot[s].phys}
    /\ Count
    /\ vault' = Drop({i})
    /\ UNCHANGED <<partVars, slot, task>>

\* The unwrapping key is generated when it is first asked for.
GetUnwrappingKey(s) ==
    /\ slot[s].st = "active"
    /\ unwrap = 0
    /\ Count
    /\ \E i \in Ids : Store(i, Entry("unwrap")) /\ unwrap' = i
    /\ UNCHANGED <<nonce, cred, mk, slot, task>>

-----------------------------------------------------------------------------
(* NSSR or migration: the administrator disables the partition and enables
   it again, with no command in flight                                      *)

\* Mutant: the survivors keep their physical ids.
SurvivingMapped(s) == IF slot[s].st = "free" THEN FreeSlot ELSE [slot[s] EXCEPT !.st = "renego"]

\* restore(backup()): the slot without its key.
Surviving(s) == IF slot[s].st = "free" THEN FreeSlot ELSE [st |-> "renego", phys |-> 0]

Reset ==
    /\ \A t \in Tasks : task[t].pc = "idle"
    /\ Count
    /\ nonce' = nonce + 1
    /\ cred' = NoPin
    /\ mk' = 0
    /\ unwrap' = 0
    /\ slot' = [s \in Slots |-> Surviving(s)]
    /\ vault' = [i \in Ids |-> FreeEntry]
    /\ UNCHANGED task

-----------------------------------------------------------------------------
Init ==
    /\ nonce = 0
    /\ cred = NoPin
    /\ mk = 0
    /\ unwrap = 0
    /\ slot = [s \in Slots |-> FreeSlot]
    /\ vault = [i \in Ids |-> FreeEntry]
    /\ task = [t \in Tasks |-> Idle]
    /\ made = 0

Start(t) ==
    \/ \E pin \in Pins : StartEstablish(t, pin) \/ StartOpen(t, pin)
    \/ \E s \in Slots, pin \in Pins : StartReopen(t, s, pin) \/ StartChangePin(t, s, pin)
    \/ \E s \in Slots : StartGenerate(t, s)

Step(t) ==
    \/ Check(t) \/ Authenticate(t) \/ Fail(t)
    \/ ProvisionMk(t) \/ ReimportUnwrappingKey(t) \/ Establish(t)
    \/ VerifyCredential(t) \/ CreateSession(t) \/ RecreateSession(t) \/ Respond(t)
    \/ ChangePin(t)
    \/ CommitKey(t) \/ FinishKey(t)

Next ==
    \/ \E t \in Tasks : Start(t) \/ Step(t)
    \/ \E s \in Slots : CloseSession(s) \/ Flush(s) \/ GetUnwrappingKey(s)
    \/ \E s \in Slots, i \in Ids : DeleteKey(s, i)
    \/ Reset

Spec == Init /\ [][Next]_vars

-----------------------------------------------------------------------------
(* Properties                                                               *)

\* Types of the state: an Active slot has a physical id, a slot that is free
\* or awaits renegotiation has none.
TypeOK ==
    /\ nonce \in Nat
    /\ cred \in Pins \cup {NoPin}
    /\ mk \in Ids \cup {0}
    /\ unwrap \in Ids \cup {0}
    /\ slot \in [Slots -> [st : {"free"}, phys : {0}] \cup [st : {"renego"}, phys : {0}]
                          \cup [st : {"active"}, phys : Ids]]
    /\ vault \in [Ids -> [kind : {"free"}, sess : {0}]
                         \cup [kind : {"mk", "unwrap", "session"}, sess : {0}]
                         \cup [kind : {"key"}, sess : Ids \cup {0}]]
    /\ task \in [Tasks -> [op : {"none", "establish", "open", "reopen", "pin", "generate"},
                           pc : {"idle", "wait", "auth", "body", "import", "commit", "create",
                                 "respond", "generate", "mask"},
                           sess : Slots \cup {0}, pin : Pins \cup {NoPin}, nonce : Nat,
                           id : Ids \cup {0}, id2 : Ids \cup {0}]]
    /\ made \in 0 .. MaxCommands

\* While a command is being authenticated its nonce is still the partition's:
\* no other command has been authenticated with it, so every nonce
\* authenticates at most one command, whatever waits, fails or is replayed.
NonceUnspent ==
    \A t \in Tasks : task[t].pc = "auth" => task[t].nonce = nonce

\* A command about to create or re-key a session has proved the PIN that is
\* in force at that moment, not one that was changed while it was awaiting.
PinInForce ==
    \A t \in Tasks : task[t].pc = "create" => task[t].pin = cred

\* A provisioned partition's masking key exists: no rollback by id, teardown
\* of a session with a stale mapping, host deletion or reset leaves the
\* partition with a masking-key id that names nothing or another key.
MaskingKeyLives ==
    /\ mk # 0 => vault[mk].kind = "mk"
    /\ cred # NoPin => mk # 0

\* A key bound to a session is bound to the session key of an Active slot:
\* however commands race with close, flush and reopen, no session key
\* outlives its session where no close could reach it.
SessionKeysReachable ==
    \A i \in Ids : vault[i].sess # 0
        => \E s \in Slots : slot[s] = [st |-> "active", phys |-> vault[i].sess]

=============================================================================
