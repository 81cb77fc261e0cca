-------------------------- MODULE MborCommandsProofs --------------------------
(***************************************************************************)
(* Proofs about MborCommands, for any number of tasks, session slots,      *)
(* vault entries, PINs and commands.                                       *)
(*                                                                         *)
(* The properties are not inductive.  What a command read before it        *)
(* awaited (the credential, the masking key it staged, the vault id of the *)
(* key it is masking) still holds when it goes on because only one task    *)
(* holds the partition lock, and because the commands that run without it  *)
(* need an Active session, which an unprovisioned partition does not have. *)
(* IInv says what each task relies on (TaskInv) and these two facts.       *)
(***************************************************************************)
EXTENDS MborCommands, TLAPS

Lockers == {"establish", "open", "reopen", "pin"}

\* What a command relies on, at each point where it awaits.
TaskInv(t) ==
    LET c == task[t] IN
    /\ c.op \in {"reopen", "generate"} => c.sess \in Slots
    /\ c.op \in Lockers => c.pin \in Pins
    /\ c.pc = "auth" => c.nonce = nonce
    /\ c.pc = "create" => c.pin = cred
    /\ c.op = "establish" /\ c.pc \in {"auth", "body", "import", "commit"}
         => cred = NoPin /\ mk = 0
    /\ c.op = "establish" /\ c.pc \in {"import", "commit"}
         => c.id \in Ids /\ vault[c.id].kind = "mk"
    /\ c.op = "pin" /\ c.pc \in {"auth", "body"} => cred # NoPin
    /\ c.pc \in {"generate", "mask"} => cred # NoPin
    /\ c.pc = "mask" => c.id # mk

TasksOK == \A t \in Tasks : TaskInv(t)

\* The partition lock excludes.
OneLocked ==
    \A t, u \in Tasks : task[t].pc \in Locked /\ task[u].pc \in Locked => t = u

\* Sessions are those of a provisioned partition, and none has the masking
\* key for its blob.
SlotsOK ==
    \A s \in Slots : slot[s].st = "active" => cred # NoPin /\ slot[s].phys # mk

IInv ==
    /\ TypeOK
    /\ TasksOK
    /\ OneLocked
    /\ SlotsOK
    /\ MaskingKeyLives
    /\ SessionKeysReachable

-----------------------------------------------------------------------------
(* Types                                                                    *)

Pcs == {"idle", "wait", "auth", "body", "import", "commit", "create", "respond",
        "generate", "mask"}

Ops == {"none", "establish", "open", "reopen", "pin", "generate"}

Records == [op : Ops, pc : Pcs, sess : Slots \cup {0}, pin : Pins \cup {NoPin},
            nonce : Nat, id : Ids \cup {0}, id2 : Ids \cup {0}]

Entries == [kind : {"free"}, sess : {0}]
           \cup [kind : {"mk", "unwrap", "session"}, sess : {0}]
           \cup [kind : {"key"}, sess : Ids \cup {0}]

SlotRecs == [st : {"free"}, phys : {0}] \cup [st : {"renego"}, phys : {0}]
            \cup [st : {"active"}, phys : Ids]

\* TypeOK over these sets.
LEMMA Types ==
    TypeOK <=> /\ nonce \in Nat
               /\ cred \in Pins \cup {NoPin}
               /\ mk \in Ids \cup {0}
               /\ unwrap \in Ids \cup {0}
               /\ slot \in [Slots -> SlotRecs]
               /\ vault \in [Ids -> Entries]
               /\ task \in [Tasks -> Records]
               /\ made \in 0 .. MaxCommands
BY DEF TypeOK, SlotRecs, Entries, Records, Pcs, Ops

\* The same of the next state.
LEMMA TypesNext ==
    TypeOK' <=> /\ nonce' \in Nat
                /\ cred' \in Pins \cup {NoPin}
                /\ mk' \in Ids \cup {0}
                /\ unwrap' \in Ids \cup {0}
                /\ slot' \in [Slots -> SlotRecs]
                /\ vault' \in [Ids -> Entries]
                /\ task' \in [Tasks -> Records]
                /\ made' \in 0 .. MaxCommands
BY DEF TypeOK, SlotRecs, Entries, Records, Pcs, Ops

\* 0 is no vault id, and the constants of the state are of their types.
LEMMA ConstantTypes ==
    /\ 0 \notin Ids
    /\ Idle \in Records
    /\ FreeEntry \in Entries
    /\ \A k \in {"mk", "unwrap", "session"} : Entry(k) \in Entries
    /\ FreeSlot \in SlotRecs
<1>1. 0 \notin Ids
  BY ConstantsAssumption DEF Ids
<1>2. Idle \in Records
  BY DEF Idle, Records, Pcs, Ops
<1>3. FreeEntry \in Entries /\ FreeSlot \in SlotRecs
  BY DEF FreeEntry, FreeSlot, Entries, SlotRecs
<1>4. ASSUME NEW k \in {"mk", "unwrap", "session"} PROVE Entry(k) \in Entries
  BY DEF Entry, FreeEntry, Entries
<1>5. QED
  BY <1>1, <1>2, <1>3, <1>4

Others(t) == \A u \in Tasks \ {t} : task'[u] = task[u]

\* A command that returns leaves an idle task.
LEMMA AfterReturn ==
    ASSUME task \in [Tasks -> Records], NEW t \in Tasks, Return(t)
    PROVE  /\ task' \in [Tasks -> Records]
           /\ task'[t].pc = "idle" /\ task'[t].op = "none"
           /\ Others(t)
BY ConstantTypes DEF Return, Idle, Others

\* A command that goes on changes only where it is.
LEMMA AfterGoto ==
    ASSUME task \in [Tasks -> Records], NEW t \in Tasks, NEW pc \in Pcs, Goto(t, pc)
    PROVE  /\ task' \in [Tasks -> Records]
           /\ task'[t] = [task[t] EXCEPT !.pc = pc]
           /\ Others(t)
BY DEF Goto, Records, Others

\* Dropping entries keeps the vault well typed and frees just those.
LEMMA AfterDrop ==
    ASSUME vault \in [Ids -> Entries], NEW S, vault' = Drop(S)
    PROVE  /\ vault' \in [Ids -> Entries]
           /\ \A i \in Ids : vault'[i] = IF i \in S THEN FreeEntry ELSE vault[i]
BY ConstantTypes DEF Drop

\* A new entry takes the place of a free one.
LEMMA AfterStore ==
    ASSUME vault \in [Ids -> Entries], NEW i \in Ids, NEW e \in Entries, Store(i, e)
    PROVE  /\ vault' \in [Ids -> Entries]
           /\ vault[i].kind = "free"
           /\ vault'[i] = e
           /\ \A j \in Ids : j # i => vault'[j] = vault[j]
BY DEF Store, IsLeast, FreeIds

\* Only keys are bound to a session.
LEMMA BoundIsKey ==
    ASSUME vault \in [Ids -> Entries], NEW i \in Ids, vault[i].sess # 0
    PROVE  vault[i].kind = "key"
BY DEF Entries

-----------------------------------------------------------------------------
(* What carries over a step                                                 *)

MkKept == \A i \in Ids : vault[i].kind = "mk" => vault'[i].kind = "mk"

\* A command that awaits keeps what it relies on while the credential and the
\* masking key stay.
LEMMA TaskKept ==
    ASSUME NEW u \in Tasks, TaskInv(u), task'[u] = task[u], cred' = cred, mk' = mk,
           nonce' = nonce \/ task[u].pc # "auth",
           cred # NoPin \/ MkKept
    PROVE  TaskInv(u)'
BY DEF TaskInv, MkKept

\* A step of one command, under the lock or outside it, keeps what the others
\* rely on.
LEMMA TaskStep ==
    ASSUME IInv, NEW t \in Tasks, Others(t), cred' = cred, mk' = mk,
           nonce' = nonce \/ task[t].pc = "auth",
           cred # NoPin \/ MkKept,
           TaskInv(t)',
           task'[t].pc \in Locked => task[t].pc \in Locked \/ LockFree
    PROVE  TasksOK' /\ OneLocked'
<1>1. ASSUME NEW u \in Tasks \ {t} PROVE TaskInv(u)'
  <2>1. nonce' = nonce \/ task[u].pc # "auth"
    BY DEF IInv, OneLocked, Locked
  <2>2. QED
    BY <2>1, TaskKept DEF IInv, TasksOK, Others
<1>2. TasksOK'
  BY <1>1 DEF TasksOK
<1>3. OneLocked'
  BY DEF IInv, OneLocked, Others, LockFree
<1>4. QED
  BY <1>2, <1>3

\* The same when no task moves.
LEMMA NoTaskStep ==
    ASSUME IInv, UNCHANGED <<task, cred, mk, nonce>>, cred # NoPin \/ MkKept
    PROVE  TasksOK' /\ OneLocked'
<1>1. TasksOK'
  BY TaskKept DEF IInv, TasksOK
<1>2. OneLocked'
  BY DEF IInv, OneLocked
<1>3. QED
  BY <1>1, <1>2

\* The facts about slots and keys, after a step that leaves the credential.
LEMMA KeysKept ==
    ASSUME IInv, cred' = cred, mk' = mk,
           \A s \in Slots : slot'[s].st = "active"
               => slot'[s] = slot[s] \/ (cred # NoPin /\ slot'[s].phys # mk),
           mk # 0 => vault'[mk].kind = "mk",
           \A i \in Ids : vault'[i].sess # 0
               => \E s \in Slots : slot'[s] = [st |-> "active", phys |-> vault'[i].sess]
    PROVE  SlotsOK' /\ MaskingKeyLives' /\ SessionKeysReachable'
<1>1. SlotsOK'
  BY DEF IInv, SlotsOK
<1>2. MaskingKeyLives'
  BY DEF IInv, MaskingKeyLives
<1>3. SessionKeysReachable'
  BY DEF SessionKeysReachable
<1>4. QED
  BY <1>1, <1>2, <1>3

\* In particular after a step that stores an entry bound to no session, or to
\* that of an Active slot.
LEMMA StoreKeeps ==
    ASSUME IInv, NEW i \in Ids, NEW e \in Entries, Store(i, e), UNCHANGED <<slot, cred, mk>>,
           e.sess # 0 => \E s \in Slots : slot[s] = [st |-> "active", phys |-> e.sess]
    PROVE  /\ SlotsOK' /\ MaskingKeyLives' /\ SessionKeysReachable'
           /\ MkKept
           /\ i # mk
           /\ vault' \in [Ids -> Entries]
<1>1. /\ vault' \in [Ids -> Entries]
      /\ vault[i].kind = "free" /\ vault'[i] = e
      /\ \A j \in Ids : j # i => vault'[j] = vault[j]
  BY AfterStore, Types DEF IInv
<1>2. MkKept
  BY <1>1 DEF MkKept
<1>3. mk # 0 => mk \in Ids /\ vault[mk].kind = "mk"
  BY Types DEF IInv, MaskingKeyLives
<1>4. i # mk
  BY <1>1, <1>3, ConstantTypes
<1>5. mk # 0 => vault'[mk].kind = "mk"
  BY <1>2, <1>3 DEF MkKept
<1>6. ASSUME NEW j \in Ids, vault'[j].sess # 0
      PROVE  \E s \in Slots : slot'[s] = [st |-> "active", phys |-> vault'[j].sess]
  <2>1. CASE j = i
    BY <1>1, <1>6, <2>1
  <2>2. CASE j # i
    BY <1>1, <1>6, <2>2 DEF IInv, SessionKeysReachable
  <2>3. QED
    BY <2>1, <2>2
<1>7. QED
  BY <1>1, <1>2, <1>4, <1>5, <1>6, KeysKept

\* And after a step that only drops entries other than the masking key.
LEMMA DropKeeps ==
    ASSUME IInv, NEW S, vault' = Drop(S), mk \notin S, UNCHANGED <<slot, cred, mk>>
    PROVE  /\ SlotsOK' /\ MaskingKeyLives' /\ SessionKeysReachable'
           /\ vault' \in [Ids -> Entries]
<1>1. /\ vault' \in [Ids -> Entries]
      /\ \A i \in Ids : vault'[i] = IF i \in S THEN FreeEntry ELSE vault[i]
  BY AfterDrop, Types DEF IInv
<1>2. mk # 0 => vault'[mk].kind = "mk"
  BY <1>1, Types DEF IInv, MaskingKeyLives
<1>3. ASSUME NEW j \in Ids, vault'[j].sess # 0
      PROVE  \E s \in Slots : slot'[s] = [st |-> "active", phys |-> vault'[j].sess]
  <2>1. vault'[j] = vault[j]
    BY <1>1, <1>3 DEF FreeEntry
  <2>2. QED
    BY <1>3, <2>1 DEF IInv, SessionKeysReachable
<1>4. QED
  BY <1>1, <1>2, <1>3, KeysKept

\* A command that only moves on: nothing but its record changes.
LEMMA QuietStep ==
    ASSUME IInv, NEW t \in Tasks, Others(t), task' \in [Tasks -> Records],
           UNCHANGED <<nonce, cred, mk, unwrap, slot, vault>>, made' \in 0 .. MaxCommands,
           TaskInv(t)',
           task'[t].pc \in Locked => task[t].pc \in Locked \/ LockFree
    PROVE  IInv'
<1>1. TypeOK'
  BY Types, TypesNext DEF IInv
<1>2. TasksOK' /\ OneLocked'
  BY TaskStep DEF MkKept
<1>3. SlotsOK' /\ MaskingKeyLives' /\ SessionKeysReachable'
  BY DEF IInv, SlotsOK, MaskingKeyLives, SessionKeysReachable
<1>4. QED
  BY <1>1, <1>2, <1>3 DEF IInv

\* A command that returns relies on nothing.
LEMMA ReturnInv ==
    ASSUME IInv, NEW t \in Tasks, Return(t)
    PROVE  /\ TaskInv(t)' /\ Others(t) /\ task' \in [Tasks -> Records]
           /\ task'[t].pc \notin Locked
<1>1. /\ task' \in [Tasks -> Records]
      /\ task'[t].pc = "idle" /\ task'[t].op = "none"
      /\ Others(t)
  BY AfterReturn, Types DEF IInv
<1>2. TaskInv(t)'
  BY <1>1 DEF TaskInv, Lockers
<1>3. QED
  BY <1>1, <1>2 DEF Locked

\* A request is admitted as an idle task's new command.
LEMMA BeginStep ==
    ASSUME IInv, NEW t \in Tasks, NEW op \in Ops, NEW pc \in {"wait", "generate"},
           NEW s \in Slots \cup {0}, NEW pin \in Pins \cup {NoPin},
           op \in {"reopen", "generate"} => s \in Slots,
           op \in Lockers => pin \in Pins,
           pc = "generate" => cred # NoPin,
           Begin(t, op, pc, s, pin)
    PROVE  IInv'
<1> DEFINE c == [op |-> op, pc |-> pc, sess |-> s, pin |-> pin, nonce |-> nonce,
                 id |-> 0, id2 |-> 0]
<1>1. task \in [Tasks -> Records] /\ nonce \in Nat /\ made \in 0 .. MaxCommands
  BY Types DEF IInv
<1>2. c \in Records
  BY <1>1 DEF Records, Pcs
<1>3. task' \in [Tasks -> Records] /\ task'[t] = c /\ Others(t)
  BY <1>1, <1>2 DEF Begin, Others
<1>4. made' \in 0 .. MaxCommands
  BY <1>1, ConstantsAssumption DEF Begin, Count
<1>5. TaskInv(t)'
  BY <1>3 DEF TaskInv, Begin, partVars
<1>6. task'[t].pc \notin Locked
  BY <1>3 DEF Locked
<1>7. QED
  BY <1>3, <1>4, <1>5, <1>6, QuietStep DEF Begin, partVars

-----------------------------------------------------------------------------
(* One lemma per kind of action                                             *)

\* A new request.
LEMMA StartStep ==
    ASSUME IInv, NEW t \in Tasks, Start(t)
    PROVE  IInv'
<1>1. ASSUME NEW pin \in Pins, StartEstablish(t, pin) \/ StartOpen(t, pin) PROVE IInv'
  BY <1>1, BeginStep DEF StartEstablish, StartOpen, Ops
<1>2. ASSUME NEW s \in Slots, NEW pin \in Pins, StartReopen(t, s, pin) \/ StartChangePin(t, s, pin)
      PROVE  IInv'
  BY <1>2, BeginStep DEF StartReopen, StartChangePin, Ops
<1>3. ASSUME NEW s \in Slots, StartGenerate(t, s) PROVE IInv'
  <2>1. cred # NoPin
    BY <1>3 DEF StartGenerate, IInv, SlotsOK
  <2>2. QED
    BY <1>3, <2>1, BeginStep DEF StartGenerate, Ops, Lockers
<1>4. QED
  BY <1>1, <1>2, <1>3 DEF Start

\* Steps that move one command and nothing else: the check under the lock,
\* a failure, the credential's verification, the response.
LEMMA MoveStep ==
    ASSUME IInv, NEW t \in Tasks,
           Check(t) \/ Fail(t) \/ VerifyCredential(t) \/ Respond(t)
    PROVE  IInv'
<1>0. task \in [Tasks -> Records] /\ made \in 0 .. MaxCommands /\ TaskInv(t)
  BY Types DEF IInv, TasksOK
<1>1. ASSUME Return(t), UNCHANGED <<partVars, slot, vault, made>> PROVE IInv'
  BY <1>0, <1>1, ReturnInv, QuietStep DEF partVars
<1>2. ASSUME Check(t), Admitted(t), Goto(t, "auth") PROVE IInv'
  <2>1. /\ task' \in [Tasks -> Records]
        /\ task'[t] = [task[t] EXCEPT !.pc = "auth"]
        /\ Others(t)
    BY <1>0, <1>2, AfterGoto DEF Pcs
  <2>2. task[t] \in Records
    BY <1>0
  <2>3. TaskInv(t)'
    BY <1>0, <1>2, <2>1, <2>2 DEF TaskInv, Check, Admitted, partVars, Records
  <2>4. QED
    BY <1>0, <1>2, <2>1, <2>3, QuietStep DEF Check, partVars
<1>3. ASSUME VerifyCredential(t) PROVE IInv'
  <2>1. /\ task' \in [Tasks -> Records]
        /\ task'[t] = [task[t] EXCEPT !.pc = "create"]
        /\ Others(t)
    BY <1>0, <1>3, AfterGoto DEF Pcs, VerifyCredential
  <2>2. task[t] \in Records
    BY <1>0
  <2>3. TaskInv(t)'
    BY <1>0, <1>3, <2>1, <2>2 DEF TaskInv, VerifyCredential, partVars, Records
  <2>4. QED
    BY <1>0, <1>3, <2>1, <2>3, QuietStep DEF VerifyCredential, partVars, Locked
<1>4. QED
  BY <1>1, <1>2, <1>3 DEF Check, Fail, Respond

\* The nonce is refreshed under the lock: no other command is between its
\* check and its authentication.
LEMMA AuthenticateStep ==
    ASSUME IInv, NEW t \in Tasks, Authenticate(t)
    PROVE  IInv'
<1>0. task \in [Tasks -> Records] /\ task[t] \in Records /\ TaskInv(t)
  BY Types DEF IInv, TasksOK
<1>1. TaskInv(t)' /\ Others(t) /\ task' \in [Tasks -> Records]
  <2>1. CASE Return(t)
    BY <2>1, ReturnInv
  <2>2. CASE Goto(t, "body")
    <3>1. /\ task' \in [Tasks -> Records]
          /\ task'[t] = [task[t] EXCEPT !.pc = "body"]
          /\ Others(t)
      BY <1>0, <2>2, AfterGoto DEF Pcs
    <3>2. TaskInv(t)'
      BY <1>0, <3>1 DEF TaskInv, Authenticate, Records
    <3>3. QED
      BY <3>1, <3>2
  <2>3. QED
    BY <2>1, <2>2 DEF Authenticate
<1>2. nonce' \in Nat
  BY Types DEF IInv, Authenticate
<1>3. TypeOK'
  BY <1>1, <1>2, Types, TypesNext DEF IInv, Authenticate
<1>4. TasksOK' /\ OneLocked'
  BY <1>1, TaskStep DEF Authenticate, Locked, MkKept
<1>5. SlotsOK' /\ MaskingKeyLives' /\ SessionKeysReachable'
  BY DEF Authenticate, IInv, SlotsOK, MaskingKeyLives, SessionKeysReachable
<1>6. QED
  BY <1>3, <1>4, <1>5 DEF IInv

\* EstablishCredential stages the masking key.
LEMMA ProvisionMkStep ==
    ASSUME IInv, NEW t \in Tasks, ProvisionMk(t)
    PROVE  IInv'
<1>0. task \in [Tasks -> Records] /\ task[t] \in Records /\ TaskInv(t)
  BY Types DEF IInv, TasksOK
<1>1. PICK i \in Ids : /\ Store(i, Entry("mk"))
                       /\ task' = [task EXCEPT ![t].pc = "import", ![t].id = i]
  BY DEF ProvisionMk
<1>2. Entry("mk") \in Entries /\ Entry("mk").sess = 0 /\ Entry("mk").kind = "mk"
  BY ConstantTypes DEF Entry, FreeEntry
<1>3. /\ SlotsOK' /\ MaskingKeyLives' /\ SessionKeysReachable'
      /\ MkKept /\ vault' \in [Ids -> Entries]
  BY <1>1, <1>2, StoreKeeps DEF ProvisionMk, partVars
<1>4. /\ task' \in [Tasks -> Records]
      /\ task'[t] = [task[t] EXCEPT !.pc = "import", !.id = i]
      /\ Others(t)
  BY <1>0, <1>1 DEF Records, Others, Pcs
<1>5. vault'[i].kind = "mk"
  BY <1>1, <1>2, AfterStore, Types DEF IInv
<1>6. TaskInv(t)'
  BY <1>0, <1>4, <1>5 DEF TaskInv, ProvisionMk, At, partVars, Records
<1>7. TypeOK'
  BY <1>3, <1>4, Types, TypesNext DEF IInv, ProvisionMk, partVars
<1>8. TasksOK' /\ OneLocked'
  BY <1>3, <1>4, <1>6, TaskStep DEF ProvisionMk, At, partVars, Locked
<1>9. QED
  BY <1>3, <1>7, <1>8 DEF IInv

\* And the unwrapping key, when the host presents one.
LEMMA ReimportStep ==
    ASSUME IInv, NEW t \in Tasks, ReimportUnwrappingKey(t)
    PROVE  IInv'
<1>0. task \in [Tasks -> Records] /\ task[t] \in Records /\ TaskInv(t) /\ made \in 0 .. MaxCommands
  BY Types DEF IInv, TasksOK
<1>1. CASE Goto(t, "commit") /\ UNCHANGED vault
  <2>1. /\ task' \in [Tasks -> Records]
        /\ task'[t] = [task[t] EXCEPT !.pc = "commit"]
        /\ Others(t)
    BY <1>0, <1>1, AfterGoto DEF Pcs
  <2>2. TaskInv(t)'
    BY <1>0, <1>1, <2>1 DEF TaskInv, ReimportUnwrappingKey, At, partVars, Records
  <2>3. QED
    BY <1>0, <1>1, <2>1, <2>2, QuietStep DEF ReimportUnwrappingKey, At, partVars, Locked
<1>2. ASSUME NEW i \in Ids, Store(i, Entry("unwrap")),
             task' = [task EXCEPT ![t].pc = "commit", ![t].id2 = i]
      PROVE  IInv'
  <2>1. Entry("unwrap") \in Entries /\ Entry("unwrap").sess = 0
    BY ConstantTypes DEF Entry, FreeEntry
  <2>2. /\ SlotsOK' /\ MaskingKeyLives' /\ SessionKeysReachable'
        /\ MkKept /\ vault' \in [Ids -> Entries]
    BY <1>2, <2>1, StoreKeeps DEF ReimportUnwrappingKey, partVars
  <2>3. /\ task' \in [Tasks -> Records]
        /\ task'[t] = [task[t] EXCEPT !.pc = "commit", !.id2 = i]
        /\ Others(t)
    BY <1>0, <1>2 DEF Records, Others, Pcs
  <2>4. TaskInv(t)'
    BY <1>0, <2>2, <2>3 DEF TaskInv, MkKept, ReimportUnwrappingKey, At, partVars, Records
  <2>5. TypeOK'
    BY <2>2, <2>3, Types, TypesNext DEF IInv, ReimportUnwrappingKey, partVars
  <2>6. TasksOK' /\ OneLocked'
    BY <2>2, <2>3, <2>4, TaskStep DEF ReimportUnwrappingKey, At, partVars, Locked
  <2>7. QED
    BY <2>2, <2>5, <2>6 DEF IInv
<1>3. QED
  BY <1>1, <1>2 DEF ReimportUnwrappingKey

\* A new credential, set under the lock: no other command holds anything it
\* checked against the old one.
LEMMA NewCredential ==
    ASSUME IInv, NEW t \in Tasks, Return(t), task[t].pc \in Locked,
           cred' \in Pins, cred # NoPin => mk' = mk, nonce' = nonce
    PROVE  TasksOK' /\ OneLocked' /\ task' \in [Tasks -> Records]
<1>1. TaskInv(t)' /\ Others(t) /\ task' \in [Tasks -> Records] /\ task'[t].pc \notin Locked
  BY ReturnInv
<1>2. cred' # NoPin
  BY ConstantsAssumption
<1>3. ASSUME NEW u \in Tasks \ {t} PROVE TaskInv(u)'
  <2>1. task[u].pc \notin Locked /\ task'[u] = task[u] /\ TaskInv(u)
    BY <1>1 DEF IInv, OneLocked, TasksOK, Others
  <2>2. task'[u].pc \in {"generate", "mask"} => mk' = mk
    BY <2>1 DEF TaskInv
  <2>3. QED
    BY <1>2, <2>1, <2>2 DEF TaskInv, Locked
<1>4. QED
  BY <1>1, <1>3 DEF TasksOK, IInv, OneLocked, Others

\* EstablishCredential commits to a partition without sessions.
LEMMA EstablishStep ==
    ASSUME IInv, NEW t \in Tasks, Establish(t)
    PROVE  IInv'
<1>0. /\ task[t] \in Records /\ TaskInv(t)
      /\ task[t].op = "establish" /\ task[t].pc = "commit"
  BY Types DEF IInv, TasksOK, Establish, At
<1>1. /\ cred = NoPin /\ mk = 0
      /\ task[t].id \in Ids /\ vault[task[t].id].kind = "mk"
      /\ task[t].pin \in Pins
  BY <1>0 DEF TaskInv, Lockers
<1>2. TasksOK' /\ OneLocked' /\ task' \in [Tasks -> Records]
  BY <1>0, <1>1, NewCredential DEF Establish, Locked
<1>3. unwrap' \in Ids \cup {0}
  BY <1>0, Types DEF IInv, Establish, Records
<1>4. TypeOK'
  BY <1>1, <1>2, <1>3, Types, TypesNext DEF IInv, Establish
<1>5. \A s \in Slots : slot'[s].st # "active"
  BY <1>1 DEF IInv, SlotsOK, Establish
<1>6. SlotsOK' /\ MaskingKeyLives' /\ SessionKeysReachable'
  BY <1>1, <1>5, ConstantTypes DEF IInv, SlotsOK, MaskingKeyLives, SessionKeysReachable, Establish
<1>7. QED
  BY <1>2, <1>4, <1>6 DEF IInv

\* ChangePin commits to a provisioned one.
LEMMA ChangePinStep ==
    ASSUME IInv, NEW t \in Tasks, ChangePin(t)
    PROVE  IInv'
<1>0. task[t].op = "pin" /\ task[t].pc = "body" /\ TaskInv(t)
  BY DEF IInv, TasksOK, ChangePin, At
<1>1. cred # NoPin /\ task[t].pin \in Pins
  BY <1>0 DEF TaskInv, Lockers
<1>2. TasksOK' /\ OneLocked' /\ task' \in [Tasks -> Records]
  BY <1>0, <1>1, NewCredential DEF ChangePin, Locked
<1>3. TypeOK'
  BY <1>1, <1>2, Types, TypesNext DEF IInv, ChangePin
<1>4. SlotsOK' /\ MaskingKeyLives' /\ SessionKeysReachable'
  BY <1>1, ConstantsAssumption DEF IInv, SlotsOK, MaskingKeyLives, SessionKeysReachable, ChangePin
<1>5. QED
  BY <1>2, <1>3, <1>4 DEF IInv

\* A new session blob, for a slot that has none.
LEMMA NewSession ==
    ASSUME IInv, NEW t \in Tasks, NEW i \in Ids, NEW s \in Slots,
           task[t].pc = "create", task[t].op \in {"open", "reopen"},
           slot[s].st # "active",
           Store(i, Entry("session")),
           slot' = [slot EXCEPT ![s] = [st |-> "active", phys |-> i]],
           Goto(t, "respond"), UNCHANGED <<partVars, made>>
    PROVE  IInv'
<1>0. /\ task \in [Tasks -> Records] /\ task[t] \in Records /\ TaskInv(t)
      /\ slot \in [Slots -> SlotRecs] /\ vault \in [Ids -> Entries]
      /\ cred' = cred /\ mk' = mk /\ nonce' = nonce
  BY Types DEF IInv, TasksOK, partVars
<1>1. cred # NoPin
  BY <1>0, ConstantsAssumption DEF TaskInv, Lockers
<1>2. Entry("session") \in Entries /\ Entry("session").sess = 0
  BY ConstantTypes DEF Entry, FreeEntry
<1>3. /\ vault' \in [Ids -> Entries]
      /\ vault[i].kind = "free" /\ vault'[i].sess = 0
      /\ \A j \in Ids : j # i => vault'[j] = vault[j]
  BY <1>0, <1>2, AfterStore
<1>4. /\ task' \in [Tasks -> Records]
      /\ task'[t] = [task[t] EXCEPT !.pc = "respond"]
      /\ Others(t)
  BY <1>0, AfterGoto DEF Pcs
<1>5. slot' \in [Slots -> SlotRecs]
  BY <1>0 DEF SlotRecs
<1>6. TypeOK'
  BY <1>3, <1>4, <1>5, Types, TypesNext DEF IInv, partVars
<1>7. TaskInv(t)'
  BY <1>0, <1>4 DEF TaskInv, Records
<1>8. TasksOK' /\ OneLocked'
  BY <1>0, <1>1, <1>4, <1>7, TaskStep DEF Locked
<1>9. mk \in Ids /\ vault[mk].kind = "mk"
  BY <1>1, Types DEF IInv, MaskingKeyLives
<1>10. i # mk /\ vault'[mk].kind = "mk"
  BY <1>3, <1>9
<1>11. \A r \in Slots : slot'[r].st = "active" => slot'[r] = slot[r] \/ slot'[r].phys = i
  BY <1>0
<1>12. ASSUME NEW j \in Ids, vault'[j].sess # 0
       PROVE  \E r \in Slots : slot'[r] = [st |-> "active", phys |-> vault'[j].sess]
  <2>1. vault'[j] = vault[j]
    BY <1>3, <1>12
  <2>2. PICK r \in Slots : slot[r] = [st |-> "active", phys |-> vault[j].sess]
    BY <1>12, <2>1 DEF IInv, SessionKeysReachable
  <2>3. slot'[r] = slot[r]
    BY <1>0, <2>2
  <2>4. QED
    BY <2>1, <2>2, <2>3
<1>13. SlotsOK' /\ MaskingKeyLives' /\ SessionKeysReachable'
  BY <1>0, <1>1, <1>10, <1>11, <1>12, KeysKept
<1>14. QED
  BY <1>6, <1>8, <1>13 DEF IInv

\* OpenSession creates its session in a free slot.
LEMMA CreateSessionStep ==
    ASSUME IInv, NEW t \in Tasks, CreateSession(t)
    PROVE  IInv'
<1>1. PICK i \in Ids, s \in Slots :
         /\ Store(i, Entry("session"))
         /\ slot[s].st = "free"
         /\ slot' = [slot EXCEPT ![s] = [st |-> "active", phys |-> i]]
  BY DEF CreateSession, IsLeast
<1>2. QED
  BY <1>1, NewSession DEF CreateSession, At

\* The blob of a slot and the keys bound to it are not the masking key.
LEMMA TeardownSparesMk ==
    ASSUME IInv, NEW s \in Slots
    PROVE  mk \notin BoundTo(slot[s].phys) \cup {slot[s].phys} \/ mk = 0
<1> SUFFICES ASSUME mk # 0 PROVE mk \notin BoundTo(slot[s].phys) \cup {slot[s].phys}
  OBVIOUS
<1>1. mk \in Ids /\ vault[mk].kind = "mk" /\ slot[s] \in SlotRecs /\ vault \in [Ids -> Entries]
  BY Types DEF IInv, MaskingKeyLives
<1>2. vault[mk].sess = 0
  BY <1>1, BoundIsKey
<1>3. slot[s].phys # mk
  BY <1>1, ConstantTypes DEF IInv, SlotsOK, SlotRecs
<1>4. QED
  BY <1>2, <1>3 DEF BoundTo

\* ReopenSession re-keys a slot, or tears one down and fails.
LEMMA RecreateSessionStep ==
    ASSUME IInv, NEW t \in Tasks, RecreateSession(t)
    PROVE  IInv'
<1> DEFINE s == task[t].sess
           old == slot[s].phys
<1>0. TaskInv(t) /\ task[t].op = "reopen" /\ task[t].pc = "create"
  BY DEF IInv, TasksOK, RecreateSession, At
<1>1. s \in Slots /\ cred # NoPin
  BY <1>0, ConstantsAssumption DEF TaskInv, Lockers
<1>2. CASE slot[s].st = "renego"
  <2>1. PICK i \in Ids : /\ Store(i, Entry("session"))
                         /\ slot' = [slot EXCEPT ![s] = [st |-> "active", phys |-> i]]
    BY <1>2 DEF RecreateSession
  <2>2. Goto(t, "respond") /\ UNCHANGED <<partVars, made>>
    BY <1>2 DEF RecreateSession
  <2>3. QED
    BY <1>0, <1>1, <1>2, <2>1, <2>2, NewSession
<1>3. CASE slot[s].st # "renego"
  <2>1. /\ vault' = Drop(BoundTo(old) \cup {old})
        /\ Return(t) /\ UNCHANGED <<slot, partVars, made>>
    BY <1>3 DEF RecreateSession
  <2>2. mk # 0
    BY <1>1 DEF IInv, MaskingKeyLives
  <2>3. mk \notin BoundTo(old) \cup {old}
    BY <1>1, <2>2, TeardownSparesMk
  <2>4. /\ SlotsOK' /\ MaskingKeyLives' /\ SessionKeysReachable'
        /\ vault' \in [Ids -> Entries]
    BY <2>1, <2>3, DropKeeps DEF partVars
  <2>5. TaskInv(t)' /\ Others(t) /\ task' \in [Tasks -> Records] /\ task'[t].pc \notin Locked
    BY <2>1, ReturnInv
  <2>6. TasksOK' /\ OneLocked'
    BY <1>1, <2>1, <2>5, TaskStep DEF partVars
  <2>7. TypeOK'
    BY <2>1, <2>4, <2>5, Types, TypesNext DEF IInv, partVars
  <2>8. QED
    BY <2>4, <2>6, <2>7 DEF IInv
<1>4. QED
  BY <1>2, <1>3

\* CloseSession and OP_FLUSH: the keys of the slot go with it.
LEMMA DestroyStep ==
    ASSUME IInv, NEW s \in Slots, Destroy(s), Count, UNCHANGED <<partVars, task>>
    PROVE  IInv'
<1>0. /\ slot \in [Slots -> SlotRecs] /\ vault \in [Ids -> Entries]
      /\ made \in 0 .. MaxCommands /\ FreeSlot \in SlotRecs
      /\ cred' = cred /\ mk' = mk /\ nonce' = nonce /\ unwrap' = unwrap
  BY Types, ConstantTypes DEF IInv, partVars
<1>1. made' \in 0 .. MaxCommands
  BY <1>0, ConstantsAssumption DEF Count
<1>2. slot' \in [Slots -> SlotRecs] /\ slot' \in {slot, [slot EXCEPT ![s] = FreeSlot]}
  BY <1>0 DEF Destroy
<1>3. \A r \in Slots : slot'[r].st = "active" => slot'[r] = slot[r]
  BY <1>0, <1>2 DEF FreeSlot
<1>4. CASE slot[s].st = "renego"
  <2>1. UNCHANGED vault
    BY <1>4 DEF Destroy
  <2>2. ASSUME NEW j \in Ids, vault'[j].sess # 0
        PROVE  \E r \in Slots : slot'[r] = [st |-> "active", phys |-> vault'[j].sess]
    <3>1. PICK r \in Slots : slot[r] = [st |-> "active", phys |-> vault[j].sess]
      BY <2>1, <2>2 DEF IInv, SessionKeysReachable
    <3>2. slot'[r] = slot[r]
      BY <1>0, <1>2, <1>4, <3>1
    <3>3. QED
      BY <2>1, <3>1, <3>2
  <2>3. mk # 0 => vault'[mk].kind = "mk"
    BY <2>1 DEF IInv, MaskingKeyLives
  <2>4. SlotsOK' /\ MaskingKeyLives' /\ SessionKeysReachable'
    BY <1>0, <1>3, <2>2, <2>3, KeysKept
  <2>5. TasksOK' /\ OneLocked'
    BY <1>0, <2>1, NoTaskStep DEF MkKept
  <2>6. TypeOK'
    BY <1>0, <1>1, <1>2, <2>1, Types, TypesNext DEF IInv
  <2>7. QED
    BY <2>4, <2>5, <2>6 DEF IInv
<1>5. CASE slot[s].st = "active"
  <2> DEFINE p == slot[s].phys
             S == BoundTo(p) \cup {p}
  <2>1. vault' = Drop(S)
    BY <1>5 DEF Destroy
  <2>2. cred # NoPin
    BY <1>5 DEF IInv, SlotsOK
  <2>3. mk # 0 /\ mk \in Ids /\ vault[mk].kind = "mk"
    BY <2>2, Types DEF IInv, MaskingKeyLives
  <2>4. mk \notin S
    BY <2>3, TeardownSparesMk
  <2>5. /\ vault' \in [Ids -> Entries]
        /\ \A i \in Ids : vault'[i] = IF i \in S THEN FreeEntry ELSE vault[i]
    BY <1>0, <2>1, AfterDrop
  <2>6. vault'[mk].kind = "mk"
    BY <2>3, <2>4, <2>5
  <2>7. ASSUME NEW j \in Ids, vault'[j].sess # 0
        PROVE  \E r \in Slots : slot'[r] = [st |-> "active", phys |-> vault'[j].sess]
    <3>1. j \notin S /\ vault'[j] = vault[j]
      BY <2>5, <2>7 DEF FreeEntry
    <3>2. PICK r \in Slots : slot[r] = [st |-> "active", phys |-> vault[j].sess]
      BY <2>7, <3>1 DEF IInv, SessionKeysReachable
    <3>3. vault[j].sess # p
      BY <2>7, <3>1 DEF BoundTo
    <3>4. r # s
      BY <3>2, <3>3
    <3>5. slot'[r] = slot[r]
      BY <1>0, <1>2, <3>4
    <3>6. QED
      BY <3>1, <3>2, <3>5
  <2>8. SlotsOK' /\ MaskingKeyLives' /\ SessionKeysReachable'
    BY <1>0, <1>3, <2>6, <2>7, KeysKept
  <2>9. TasksOK' /\ OneLocked'
    BY <1>0, <2>2, NoTaskStep
  <2>10. TypeOK'
    BY <1>0, <1>1, <1>2, <2>5, Types, TypesNext DEF IInv
  <2>11. QED
    BY <2>8, <2>9, <2>10 DEF IInv
<1>6. QED
  BY <1>4, <1>5 DEF Destroy

\* A key is stored, bound to the session its slot has at that moment.
LEMMA CommitKeyStep ==
    ASSUME IInv, NEW t \in Tasks, CommitKey(t)
    PROVE  IInv'
<1>0. /\ task \in [Tasks -> Records] /\ task[t] \in Records /\ TaskInv(t)
      /\ made \in 0 .. MaxCommands
      /\ task[t].op = "generate" /\ task[t].pc = "generate"
  BY Types DEF IInv, TasksOK, CommitKey, At
<1>1. task[t].sess \in Slots /\ cred # NoPin
  BY <1>0 DEF TaskInv
<1>2. CASE Return(t) /\ UNCHANGED vault
  BY <1>0, <1>2, ReturnInv, QuietStep DEF CommitKey, partVars
<1>3. ASSUME NEW i \in Ids, NEW bound \in BOOLEAN, NEW p \in Binding(t, bound),
             Store(i, [kind |-> "key", sess |-> p]),
             task' = [task EXCEPT ![t].pc = "mask", ![t].id = i]
      PROVE  IInv'
  <2>1. p \in Ids \cup {0}
    BY DEF Binding
  <2>2. p # 0 => slot[task[t].sess] = [st |-> "active", phys |-> p]
    BY DEF Binding
  <2>3. [kind |-> "key", sess |-> p] \in Entries
    BY <2>1 DEF Entries
  <2>4. /\ SlotsOK' /\ MaskingKeyLives' /\ SessionKeysReachable'
        /\ i # mk /\ vault' \in [Ids -> Entries]
    BY <1>1, <1>3, <2>2, <2>3, StoreKeeps DEF CommitKey, partVars
  <2>5. /\ task' \in [Tasks -> Records]
        /\ task'[t] = [task[t] EXCEPT !.pc = "mask", !.id = i]
        /\ Others(t)
    BY <1>0, <1>3 DEF Records, Others, Pcs
  <2>6. TaskInv(t)'
    BY <1>0, <1>1, <2>4, <2>5 DEF TaskInv, CommitKey, partVars, Records
  <2>7. TypeOK'
    BY <2>4, <2>5, Types, TypesNext DEF IInv, CommitKey, partVars
  <2>8. task'[t].pc \notin Locked
    BY <1>0, <2>5 DEF Locked, Records
  <2>9. TasksOK' /\ OneLocked'
    BY <1>1, <2>5, <2>6, <2>8, TaskStep DEF CommitKey, partVars
  <2>10. QED
    BY <2>4, <2>7, <2>9 DEF IInv
<1>4. QED
  BY <1>2, <1>3 DEF CommitKey

\* Its rollback drops whatever entry has the id: never the masking key's.
LEMMA FinishKeyStep ==
    ASSUME IInv, NEW t \in Tasks, FinishKey(t)
    PROVE  IInv'
<1>0. TaskInv(t) /\ task[t].pc = "mask" /\ made \in 0 .. MaxCommands
  BY Types DEF IInv, TasksOK, FinishKey, At
<1>1. cred # NoPin /\ task[t].id # mk
  BY <1>0 DEF TaskInv
<1>2. TaskInv(t)' /\ Others(t) /\ task' \in [Tasks -> Records] /\ task'[t].pc \notin Locked
  BY ReturnInv DEF FinishKey
<1>3. CASE UNCHANGED vault
  BY <1>0, <1>2, <1>3, QuietStep DEF FinishKey, partVars
<1>4. CASE vault' = Drop({task[t].id})
  <2>1. /\ SlotsOK' /\ MaskingKeyLives' /\ SessionKeysReachable'
        /\ vault' \in [Ids -> Entries]
    BY <1>1, <1>4, DropKeeps DEF FinishKey, partVars
  <2>2. TasksOK' /\ OneLocked'
    BY <1>1, <1>2, TaskStep DEF FinishKey, partVars
  <2>3. TypeOK'
    BY <1>2, <2>1, Types, TypesNext DEF IInv, FinishKey, partVars
  <2>4. QED
    BY <2>1, <2>2, <2>3 DEF IInv
<1>5. QED
  BY <1>3, <1>4 DEF FinishKey

\* The host deletes a key of its own.
LEMMA DeleteKeyStep ==
    ASSUME IInv, NEW s \in Slots, NEW i \in Ids, DeleteKey(s, i)
    PROVE  IInv'
<1>0. /\ cred # NoPin /\ vault[i].kind = "key" /\ made \in 0 .. MaxCommands
  BY Types DEF IInv, SlotsOK, DeleteKey, HostKey
<1>1. i # mk
  BY <1>0, ConstantTypes DEF IInv, MaskingKeyLives
<1>2. /\ SlotsOK' /\ MaskingKeyLives' /\ SessionKeysReachable'
      /\ vault' \in [Ids -> Entries]
  BY <1>1, DropKeeps DEF DeleteKey, partVars
<1>3. TasksOK' /\ OneLocked'
  BY <1>0, NoTaskStep DEF DeleteKey, partVars
<1>4. made' \in 0 .. MaxCommands
  BY <1>0, ConstantsAssumption DEF DeleteKey, Count
<1>5. TypeOK'
  BY <1>2, <1>4, Types, TypesNext DEF IInv, DeleteKey, partVars
<1>6. QED
  BY <1>2, <1>3, <1>5 DEF IInv

\* The device makes its unwrapping key.
LEMMA GetUnwrappingKeyStep ==
    ASSUME IInv, NEW s \in Slots, GetUnwrappingKey(s)
    PROVE  IInv'
<1>0. made \in 0 .. MaxCommands
  BY Types DEF IInv
<1>1. PICK i \in Ids : Store(i, Entry("unwrap")) /\ unwrap' = i
  BY DEF GetUnwrappingKey
<1>2. Entry("unwrap") \in Entries /\ Entry("unwrap").sess = 0
  BY ConstantTypes DEF Entry, FreeEntry
<1>3. /\ SlotsOK' /\ MaskingKeyLives' /\ SessionKeysReachable'
      /\ MkKept /\ vault' \in [Ids -> Entries]
  BY <1>1, <1>2, StoreKeeps DEF GetUnwrappingKey
<1>4. TasksOK' /\ OneLocked'
  BY <1>3, NoTaskStep DEF GetUnwrappingKey
<1>5. made' \in 0 .. MaxCommands
  BY <1>0, ConstantsAssumption DEF GetUnwrappingKey, Count
<1>6. TypeOK'
  BY <1>1, <1>3, <1>5, Types, TypesNext DEF IInv, GetUnwrappingKey
<1>7. QED
  BY <1>3, <1>4, <1>6 DEF IInv

\* The partition is disabled and enabled with no command in flight.
LEMMA ResetStep ==
    ASSUME IInv, Reset
    PROVE  IInv'
<1>0. task \in [Tasks -> Records] /\ made \in 0 .. MaxCommands /\ nonce \in Nat
  BY Types DEF IInv
<1>1. made' \in 0 .. MaxCommands /\ nonce' \in Nat
  BY <1>0, ConstantsAssumption DEF Reset, Count
<1>2. slot' \in [Slots -> SlotRecs] /\ \A s \in Slots : slot'[s].st # "active"
  BY ConstantTypes DEF Reset, Surviving, FreeSlot, SlotRecs
<1>3. vault' \in [Ids -> Entries] /\ \A i \in Ids : vault'[i].sess = 0
  BY ConstantTypes DEF Reset, FreeEntry
<1>4. TypeOK'
  BY <1>0, <1>1, <1>2, <1>3, TypesNext DEF Reset
<1>5. ASSUME NEW t \in Tasks PROVE TaskInv(t)'
  <2>1. TaskInv(t) /\ task'[t] = task[t] /\ task[t].pc = "idle"
    BY DEF IInv, TasksOK, Reset
  <2>2. QED
    BY <2>1 DEF TaskInv
<1>6. OneLocked'
  BY DEF Reset, OneLocked, Locked
<1>7. SlotsOK' /\ MaskingKeyLives' /\ SessionKeysReachable'
  BY <1>2, <1>3 DEF Reset, SlotsOK, MaskingKeyLives, SessionKeysReachable
<1>8. QED
  BY <1>4, <1>5, <1>6, <1>7 DEF IInv, TasksOK

-----------------------------------------------------------------------------
(* The theorems                                                             *)

\* A partition just enabled.
LEMMA InitIInv == Init => IInv
<1> SUFFICES ASSUME Init PROVE IInv
  OBVIOUS
<1>1. \A t \in Tasks : task[t].pc = "idle" /\ task[t].op = "none"
  BY DEF Init, Idle
<1>2. /\ task \in [Tasks -> Records] /\ vault \in [Ids -> Entries]
      /\ slot \in [Slots -> SlotRecs] /\ made \in 0 .. MaxCommands
  BY ConstantTypes, ConstantsAssumption DEF Init
<1>3. TypeOK
  BY <1>2, Types DEF Init
<1>4. TasksOK
  BY <1>1 DEF TasksOK, TaskInv, Lockers
<1>5. OneLocked
  BY <1>1 DEF OneLocked, Locked
<1>6. SlotsOK /\ MaskingKeyLives /\ SessionKeysReachable
  BY DEF Init, SlotsOK, MaskingKeyLives, SessionKeysReachable, FreeSlot, FreeEntry
<1>7. QED
  BY <1>3, <1>4, <1>5, <1>6 DEF IInv

\* Every step keeps IInv.
LEMMA NextIInv == IInv /\ [Next]_vars => IInv'
<1> SUFFICES ASSUME IInv, [Next]_vars PROVE IInv'
  OBVIOUS
<1>1. CASE UNCHANGED vars
  BY <1>1 DEF vars, IInv, TypeOK, TasksOK, TaskInv, OneLocked, SlotsOK, MaskingKeyLives,
     SessionKeysReachable
<1>2. ASSUME NEW t \in Tasks, Step(t) PROVE IInv'
  BY <1>2, MoveStep, AuthenticateStep, ProvisionMkStep, ReimportStep, EstablishStep,
     CreateSessionStep, RecreateSessionStep, ChangePinStep, CommitKeyStep, FinishKeyStep DEF Step
<1>3. ASSUME NEW s \in Slots, CloseSession(s) \/ Flush(s) PROVE IInv'
  BY <1>3, DestroyStep DEF CloseSession, Flush
<1>4. QED
  BY <1>1, <1>2, <1>3, StartStep, DeleteKeyStep, GetUnwrappingKeyStep, ResetStep DEF Next

\* IInv is an invariant.
LEMMA AlwaysIInv == Spec => []IInv
BY InitIInv, NextIInv, PTL DEF Spec

\* The partition's properties, the session table, the vault and the tasks
\* stay well typed: an Active slot always has a physical id.
THEOREM MborTyped == Spec => []TypeOK
<1>1. IInv => TypeOK
  BY DEF IInv
<1>2. QED
  BY AlwaysIInv, <1>1, PTL

\* A nonce authenticates one command (check_fail_fast compares it under the
\* lock that the refresh is made under).
THEOREM NonceOnce == Spec => []NonceUnspent
<1>1. IInv => NonceUnspent
  BY DEF IInv, TasksOK, TaskInv, NonceUnspent
<1>2. QED
  BY AlwaysIInv, <1>1, PTL

\* A session is created or re-keyed only for the PIN in force (ChangePin and
\* OpenSession hold the partition lock to the end).
THEOREM PinCurrent == Spec => []PinInForce
<1>1. IInv => PinInForce
  BY DEF IInv, TasksOK, TaskInv, PinInForce
<1>2. QED
  BY AlwaysIInv, <1>1, PTL

\* The masking key of a provisioned partition exists until the partition is
\* disabled, although key commands roll back by vault id and a session may be
\* torn down twice.
THEOREM MaskingKeyStays == Spec => []MaskingKeyLives
<1>1. IInv => MaskingKeyLives
  BY DEF IInv
<1>2. QED
  BY AlwaysIInv, <1>1, PTL

\* A session's keys stay where closing the session reaches them
\* (vault_key_create looks the session up when it stores the key).
THEOREM KeysReachable == Spec => []SessionKeysReachable
<1>1. IInv => SessionKeysReachable
  BY DEF IInv
<1>2. QED
  BY AlwaysIInv, <1>1, PTL
=============================================================================
