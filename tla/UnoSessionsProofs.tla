-------------------------- MODULE UnoSessionsProofs --------------------------
(***************************************************************************)
(* Proofs about UnoSessions, for any number of tasks, session slots, vault *)
(* entries, engine slots, commands and failures.                           *)
(*                                                                         *)
(* The properties are not inductive: that a new handle does not name a     *)
(* slot in use depends on what the task holding fp_bulk_lock knows about   *)
(* the slot it reserved, and that a freed session slot leaves no key       *)
(* depends on what session_destroy has deleted before.  IInv says both,    *)
(* and that only one task is in that position.                             *)
(***************************************************************************)
EXTENDS UnoSessions, TLAPS

IsBulk(i) == vault[i].kind = "bulk"

\* A task's session field is a slot, or the vault entry a delete names.
FieldsOK ==
    \A t \in Tasks :
        /\ task[t].pc \notin {"delete", "engineDelete"} => task[t].sess \in Slots
        /\ task[t].pc = "delete" => task[t].sess \in Ids

Typed == TypeOK /\ FieldsOK

\* Every handle has an engine slot of its own, in the Active session it was
\* registered in.
HandleInv ==
    \A i \in Ids : IsBulk(i) =>
        /\ vault[i].fp \in fpBits
        /\ slot[vault[i].sess].st = "active" /\ slot[vault[i].sess].life = vault[i].life
        /\ engine[vault[i].fp].tag \in {vault[i].tag, NoTag}
        /\ engine[vault[i].fp].tag # NoTag => engine[vault[i].fp].sess = vault[i].sess
        /\ \A j \in Ids : IsBulk(j) /\ vault[j].fp = vault[i].fp => j = i

EngineInv ==
    \A f \in FpSlots : engine[f].tag # NoTag =>
        /\ f \in fpBits
        /\ slot[engine[f].sess].st = "active" /\ slot[engine[f].sess].life = engine[f].life

\* What fp_bulk_create knows of the slot it reserved.
CreateInv ==
    \A t \in Tasks : task[t].pc \in {"send", "handle", "unsend"} =>
        /\ task[t].fp \in fpBits
        /\ slot[task[t].sess].st = "active" /\ slot[task[t].sess].life = task[t].life
        /\ \A i \in Ids : IsBulk(i) => vault[i].fp # task[t].fp
        /\ task[t].pc = "handle" =>
             /\ engine[task[t].fp].tag \in {task[t].tag, NoTag}
             /\ engine[task[t].fp].tag # NoTag => engine[task[t].fp].sess = task[t].sess

\* What vault_key_delete knows of the handle it deletes.
DeleteInv ==
    \A t \in Tasks : task[t].pc = "engineDelete" =>
        \A i \in Ids : IsBulk(i) /\ vault[i].fp = task[t].fp => i = task[t].id

\* What session_destroy has deleted before it frees the slot.
CloseInv ==
    \A t \in Tasks : task[t].pc \in {"blob", "slot"} =>
        /\ \A i \in Ids : IsBulk(i) => vault[i].sess # task[t].sess
        /\ \A f \in FpSlots : engine[f].tag # NoTag => engine[f].sess # task[t].sess

\* No slot falls into renegotiation under a waiting fp_bulk_create.
WaitInv ==
    \A t \in Tasks : task[t].pc = "bulk" => slot[task[t].sess].st # "renego"

IInv ==
    /\ Typed
    /\ OneLockHolder
    /\ HandleInv
    /\ EngineInv
    /\ CreateInv
    /\ DeleteInv
    /\ CloseInv
    /\ WaitInv

-----------------------------------------------------------------------------
(* Types                                                                    *)

Records == [pc : Pcs, sess : Slots \cup Ids, id : Ids \cup {0},
            old : Ids \cup {0}, fp : FpSlots \cup {0}, tag : Nat, life : Nat]

Entries == [kind : {"free", "blob", "bulk"}, sess : Slots,
            fp : FpSlots \cup {0}, tag : Nat, life : Nat]

SlotRecs == [st : {"free", "pending", "active", "renego"}, phys : Ids \cup {0}, life : Nat]

\* The constants of the state are of their types.
LEMMA ConstantTypes ==
    /\ 0 \in Slots /\ 1 \in Slots
    /\ Idle \in Records
    /\ FreeEntry \in Entries /\ Blob \in Entries
    /\ NoEngineKey \in [tag : Nat, sess : Slots, life : Nat]
    /\ FreeSlot \in SlotRecs
<1>1. 0 \in Slots /\ 1 \in Slots
  BY ConstantsAssumption DEF Slots
<1>2. QED
  BY <1>1 DEF Idle, FreeEntry, Blob, NoEngineKey, FreeSlot, Records, Entries, SlotRecs, Pcs, Locked, NoTag

\* Dropping vault entries keeps the vault well typed.
LEMMA DropTyped ==
    ASSUME vault \in [Ids -> Entries], NEW S
    PROVE  Drop(S) \in [Ids -> Entries]
BY ConstantTypes DEF Drop

\* So does the engine's deletion by session for the engine.
LEMMA EngineWithoutTyped ==
    ASSUME engine \in [FpSlots -> [tag : Nat, sess : Slots, life : Nat]], NEW S
    PROVE  EngineWithout(S) \in [FpSlots -> [tag : Nat, sess : Slots, life : Nat]]
BY ConstantTypes DEF EngineWithout

\* The slot Reserve leaves for a handshake.
Reserved(t) == [FreeSlot EXCEPT !.st = "pending", !.phys = task[t].id]

\* The slots a command writes are of their type.
LEMMA OpenedTyped ==
    ASSUME task \in [Tasks -> Records], NEW t \in Tasks
    PROVE  Opened(t) \in SlotRecs /\ Reserved(t) \in SlotRecs
BY DEF Opened, Reserved, Records, SlotRecs, FreeSlot, NoTag

Others(t) == \A u \in Tasks \ {t} : task'[u] = task[u]

\* What a task's record is after each form of assignment to it.
LEMMA AfterReturn ==
    ASSUME task \in [Tasks -> Records], NEW t \in Tasks, Return(t)
    PROVE  /\ task' \in [Tasks -> Records]
           /\ task'[t] = Idle /\ task'[t].pc = "idle" /\ task'[t].sess = 0
           /\ Others(t)
BY ConstantTypes DEF Return, Records, Idle, Others

\* A command that goes on changes only where it is.
LEMMA AfterGoto ==
    ASSUME task \in [Tasks -> Records], NEW t \in Tasks, NEW pc \in Pcs, Goto(t, pc)
    PROVE  /\ task' \in [Tasks -> Records]
           /\ task'[t].pc = pc /\ task'[t].sess = task[t].sess
           /\ task'[t].id = task[t].id /\ task'[t].fp = task[t].fp
           /\ task'[t].tag = task[t].tag /\ task'[t].life = task[t].life
           /\ Others(t)
BY DEF Goto, Records, Others

\* A command that has staged an entry keeps its id.
LEMMA AfterId ==
    ASSUME task \in [Tasks -> Records], NEW t \in Tasks, NEW pc \in Pcs, NEW i \in Ids,
           task' = [task EXCEPT ![t].pc = pc, ![t].id = i]
    PROVE  /\ task' \in [Tasks -> Records]
           /\ task'[t].pc = pc /\ task'[t].sess = task[t].sess
           /\ Others(t)
BY DEF Records, Others

\* A command that has read the old physical id keeps it.
LEMMA AfterOld ==
    ASSUME task \in [Tasks -> Records], NEW t \in Tasks, NEW pc \in Pcs, NEW i \in Ids \cup {0},
           task' = [task EXCEPT ![t].pc = pc, ![t].old = i]
    PROVE  /\ task' \in [Tasks -> Records]
           /\ task'[t].pc = pc /\ task'[t].sess = task[t].sess
           /\ Others(t)
BY DEF Records, Others

\* A command that has reserved an engine slot keeps it, and the session it is
\* reserved in.
LEMMA AfterFp ==
    ASSUME task \in [Tasks -> Records], NEW t \in Tasks, NEW pc \in Pcs, NEW f \in FpSlots, NEW l \in Nat,
           task' = [task EXCEPT ![t].pc = pc, ![t].fp = f, ![t].life = l]
    PROVE  /\ task' \in [Tasks -> Records]
           /\ task'[t].pc = pc /\ task'[t].sess = task[t].sess /\ task'[t].fp = f
           /\ task'[t].tag = task[t].tag /\ task'[t].life = l
           /\ Others(t)
BY DEF Records, Others

\* A delete keeps the entry it names and that entry's engine slot.
LEMMA AfterIdFp ==
    ASSUME task \in [Tasks -> Records], NEW t \in Tasks, NEW pc \in Pcs,
           NEW i \in Ids, NEW f \in FpSlots \cup {0},
           task' = [task EXCEPT ![t].pc = pc, ![t].id = i, ![t].fp = f]
    PROVE  /\ task' \in [Tasks -> Records]
           /\ task'[t].pc = pc /\ task'[t].id = i /\ task'[t].fp = f
           /\ Others(t)
BY DEF Records, Others

\* The session field of a task stays what its program counter says.
LEMMA FieldsStep ==
    ASSUME FieldsOK, NEW t \in Tasks, Others(t),
           task'[t].pc # "delete",
           task'[t].pc # "engineDelete" => task'[t].sess \in Slots
    PROVE  FieldsOK'
BY DEF FieldsOK, Others

\* Types are preserved by the first steps of a command.
LEMMA BeginTyped ==
    ASSUME Typed, NEW t \in Tasks, NEW op, NEW pc \in Pcs, NEW s \in Slots \cup Ids,
           pc \notin {"delete", "engineDelete"} => s \in Slots,
           pc = "delete" => s \in Ids,
           Begin(t, op, pc, s)
    PROVE  Typed'
<1>1. task' = [task EXCEPT ![t] = [pc |-> pc, sess |-> s, id |-> 0, old |-> 0, fp |-> 0,
                                   tag |-> made + 1, life |-> NoTag]]
  BY DEF Begin
<1>2. made \in Nat /\ made' \in 0 .. MaxCommands
  BY ConstantsAssumption DEF Begin, Typed, TypeOK
<1>3. task' \in [Tasks -> Records]
  BY <1>1, <1>2 DEF Typed, TypeOK, Records, NoTag
<1>4. TypeOK'
  BY <1>2, <1>3 DEF Begin, Typed, TypeOK, Records
<1>5. FieldsOK'
  BY <1>1 DEF Typed, TypeOK, FieldsOK
<1>6. QED
  BY <1>4, <1>5 DEF Typed

\* The steps of a command keep the types.
LEMMA StepTyped ==
    ASSUME Typed, NEW t \in Tasks, Step(t)
    PROVE  Typed'
<1> USE DEF At
<1>0. /\ task \in [Tasks -> Records]
      /\ vault \in [Ids -> Entries]
      /\ slot \in [Slots -> SlotRecs]
      /\ engine \in [FpSlots -> [tag : Nat, sess : Slots, life : Nat]]
      /\ fpBits \subseteq FpSlots
      /\ made \in 0 .. MaxCommands
      /\ faults \in 0 .. MaxFaults
  BY DEF Typed, TypeOK, Records, Entries, SlotRecs
<1>f. ASSUME Fault PROVE faults' \in 0 .. MaxFaults
  BY <1>0, <1>f, ConstantsAssumption DEF Fault
<1>g. ASSUME UNCHANGED faults PROVE faults' \in 0 .. MaxFaults
  BY <1>0, <1>g
<1>d. ASSUME NEW S, vault' = Drop(S) PROVE vault' \in [Ids -> Entries]
  BY <1>0, <1>d, DropTyped
<1>r. ASSUME Return(t) PROVE task' \in [Tasks -> Records] /\ FieldsOK'
  BY <1>0, <1>r, AfterReturn, FieldsStep, ConstantTypes DEF Typed
<1>v. ASSUME task[t].pc \notin {"delete", "engineDelete"} PROVE task[t].sess \in Slots
  BY <1>v DEF Typed, FieldsOK
<1>p. ASSUME NEW pc \in Pcs \ {"delete", "engineDelete"}, Goto(t, pc),
             task[t].pc \notin {"delete", "engineDelete"}
      PROVE  task' \in [Tasks -> Records] /\ FieldsOK'
  BY <1>0, <1>p, <1>v, AfterGoto, FieldsStep DEF Typed
<1>s. ASSUME NEW pc \in Pcs \ {"delete", "engineDelete"}, Stage(t, pc),
             task[t].pc \notin {"delete", "engineDelete"}
      PROVE  task' \in [Tasks -> Records] /\ FieldsOK' /\ vault' \in [Ids -> Entries]
  <2>1. PICK i \in Ids : /\ vault' = [vault EXCEPT ![i] = Blob]
                         /\ task' = [task EXCEPT ![t].pc = pc, ![t].id = i]
    BY <1>s DEF Stage
  <2>2. vault' \in [Ids -> Entries]
    BY <1>0, <2>1, ConstantTypes
  <2>3. QED
    BY <1>0, <1>s, <1>v, <2>1, <2>2, AfterId, FieldsStep DEF Typed
<1>o. ASSUME NEW pc \in Pcs \ {"delete", "engineDelete"}, NEW s \in Slots,
             task' = [task EXCEPT ![t].pc = pc, ![t].old = slot[s].phys],
             task[t].pc \notin {"delete", "engineDelete"}
      PROVE  task' \in [Tasks -> Records] /\ FieldsOK'
  <2>1. slot[s].phys \in Ids \cup {0}
    BY <1>0 DEF SlotRecs
  <2>2. QED
    BY <1>0, <1>o, <1>v, <2>1, AfterOld, FieldsStep DEF Typed
<1>t. ASSUME NEW s, NEW rec \in SlotRecs, slot' = [slot EXCEPT ![s] = rec]
      PROVE  slot' \in [Slots -> SlotRecs]
  BY <1>0, <1>t
<1>e. Opened(t) \in SlotRecs /\ Reserved(t) \in SlotRecs
  BY <1>0, OpenedTyped
<1>q. SUFFICES /\ task' \in [Tasks -> Records] /\ FieldsOK'
               /\ vault' \in [Ids -> Entries]
               /\ slot' \in [Slots -> SlotRecs]
               /\ engine' \in [FpSlots -> [tag : Nat, sess : Slots, life : Nat]]
               /\ fpBits' \subseteq FpSlots
               /\ made' \in 0 .. MaxCommands
               /\ faults' \in 0 .. MaxFaults
  BY DEF Typed, TypeOK, Records, Entries, SlotRecs
<1>n. {"idle", "reserve", "dropOld", "bind", "create", "unstage", "recreate", "restage", "rekeys",
       "reblob", "keys", "blob", "slot", "send", "handle", "unsend"} \subseteq Pcs \ {"delete", "engineDelete"}
  BY DEF Pcs, Locked
<1>1. CASE PendingStage(t)
  BY <1>1, <1>0, <1>f, <1>g, <1>r, <1>s, <1>n DEF PendingStage, StageFails
<1>2. CASE Reserve(t)
  <2>1. task' \in [Tasks -> Records] /\ FieldsOK'
    <3>1. CASE Return(t)
      BY <3>1, <1>r
    <3>2. CASE \E s \in Slots : task' = [task EXCEPT ![t].pc = "dropOld", ![t].old = slot[s].phys]
      BY <1>2, <1>o, <1>n, <3>2 DEF Reserve
    <3>3. CASE task' = [task EXCEPT ![t].pc = "dropOld", ![t].old = task[t].id]
      <4>1. task[t].id \in Ids \cup {0} /\ "dropOld" \in Pcs
        BY <1>0, <1>n DEF Records
      <4>2. QED
        <5>1. /\ task' \in [Tasks -> Records] /\ Others(t)
              /\ task'[t].pc = "dropOld" /\ task'[t].sess = task[t].sess
          BY <1>0, <3>3, <4>1, AfterOld
        <5>2. task[t].sess \in Slots
          BY <1>2, <1>v DEF Reserve
        <5>3. QED
          BY <5>1, <5>2, FieldsStep DEF Typed
    <3>4. QED
      BY <1>2, <3>1, <3>2, <3>3 DEF Reserve
  <2>2. QED
    <3>1. UNCHANGED slot \/ \E s \in Slots, rec \in SlotRecs : slot' = [slot EXCEPT ![s] = rec]
      BY <1>2, <1>v, <1>e DEF Reserve, Reserved
    <3>2. slot' \in [Slots -> SlotRecs]
      BY <1>0, <1>t, <3>1
    <3>3. QED
      BY <1>2, <1>0, <2>1, <3>2 DEF Reserve
<1>3. CASE DropOld(t)
  BY <1>3, <1>0, <1>f, <1>g, <1>r, <1>d DEF DropOld
<1>4. CASE PromoteStage(t)
  BY <1>4, <1>0, <1>f, <1>g, <1>r, <1>s, <1>n DEF PromoteStage, StageFails
<1>5. CASE PromoteBind(t)
  <2>1. task[t].sess \in Slots
    BY <1>5 DEF PromoteBind, Typed, FieldsOK
  <2>2. task' \in [Tasks -> Records] /\ FieldsOK'
    BY <1>5, <1>r, <1>o, <1>n, <2>1 DEF PromoteBind
  <2>3. QED
    <3>1. UNCHANGED slot \/ \E s \in Slots, rec \in SlotRecs : slot' = [slot EXCEPT ![s] = rec]
      BY <1>5, <1>v, <1>e DEF PromoteBind
    <3>2. slot' \in [Slots -> SlotRecs]
      BY <1>0, <1>t, <3>1
    <3>3. QED
      BY <1>5, <1>0, <2>1, <2>2, <3>2 DEF PromoteBind
<1>6. CASE OpenStage(t)
  BY <1>6, <1>0, <1>f, <1>g, <1>r, <1>s, <1>n DEF OpenStage, StageFails
<1>7. CASE Create(t)
  <2>1. task' \in [Tasks -> Records] /\ FieldsOK'
    BY <1>7, <1>r, <1>p, <1>n DEF Create
  <2>2. QED
    <3>1. UNCHANGED slot \/ \E s \in Slots, rec \in SlotRecs : slot' = [slot EXCEPT ![s] = rec]
      BY <1>7, <1>v, <1>e DEF Create
    <3>2. slot' \in [Slots -> SlotRecs]
      BY <1>0, <1>t, <3>1
    <3>3. QED
      BY <1>7, <1>0, <2>1, <3>2 DEF Create
<1>8. CASE Unstage(t)
  BY <1>8, <1>0, <1>r, <1>d DEF Unstage
<1>9. CASE Reopen(t)
  <2>1. task[t].sess \in Slots
    BY <1>9 DEF Reopen, Typed, FieldsOK
  <2>2. CASE slot[task[t].sess].st = "renego"
    BY <1>9, <1>0, <1>p, <1>n, <2>2 DEF Reopen
  <2>3. CASE slot[task[t].sess].st = "free"
    BY <1>9, <1>0, <1>r, <2>3 DEF Reopen
  <2>4. CASE slot[task[t].sess].st \in {"active", "pending"}
    BY <1>9, <1>0, <1>n, <1>o, <2>1, <2>4 DEF Reopen
  <2>5. QED
    BY <1>9, <2>2, <2>3, <2>4 DEF Reopen
<1>10. CASE ReopenStage(t)
  BY <1>10, <1>0, <1>f, <1>g, <1>r, <1>s, <1>n DEF ReopenStage, StageFails
<1>11. CASE Recreate(t)
  <2>1. task' \in [Tasks -> Records] /\ FieldsOK'
    BY <1>11, <1>r, <1>p, <1>n DEF Recreate
  <2>2. QED
    <3>0. task[t].sess \in Slots /\ task[t].id \in Ids \cup {0}
      BY <1>11, <1>0, <1>v DEF Recreate, Records
    <3>1. UNCHANGED slot \/ \E s \in Slots, rec \in SlotRecs : slot' = [slot EXCEPT ![s] = rec]
      BY <1>11, <1>0, <3>0 DEF Recreate, SlotRecs
    <3>2. slot' \in [Slots -> SlotRecs]
      BY <1>0, <1>t, <3>1
    <3>3. QED
      BY <1>11, <1>0, <2>1, <3>2 DEF Recreate
<1>12. CASE Close(t)
  <2>1. task[t].sess \in Slots
    BY <1>12 DEF Close, Typed, FieldsOK
  <2>2. CASE slot[task[t].sess].st \in {"renego", "free"}
    BY <1>12, <1>0, <1>r, <2>2, ConstantTypes DEF Close
  <2>3. CASE slot[task[t].sess].st \in {"active", "pending"}
    BY <1>12, <1>0, <1>n, <1>o, <2>1, <2>3 DEF Close
  <2>4. QED
    BY <1>12, <2>2, <2>3 DEF Close
<1>13. CASE DeleteSessionKeys(t)
  <2>1. task' \in [Tasks -> Records] /\ FieldsOK'
    BY <1>13, <1>r, <1>p, <1>n DEF DeleteSessionKeys, SessionKeys
  <2>2. engine' \in [FpSlots -> [tag : Nat, sess : Slots, life : Nat]]
    BY <1>13, <1>0, EngineWithoutTyped DEF DeleteSessionKeys, SessionKeys, KeysGone, KeysStay
  <2>3. vault' \in [Ids -> Entries]
    BY <1>13, <1>d DEF DeleteSessionKeys, SessionKeys, KeysGone, KeysStay
  <2>4. QED
    BY <1>13, <1>0, <1>f, <1>g, <2>1, <2>2, <2>3 DEF DeleteSessionKeys, SessionKeys, KeysGone, KeysStay
<1>14. CASE DeleteOldBlob(t)
  BY <1>14, <1>0, <1>f, <1>g, <1>r, <1>p, <1>d, <1>n DEF DeleteOldBlob, OldBlob
<1>15. CASE CloseSlot(t)
  BY <1>15, <1>0, <1>r, ConstantTypes DEF CloseSlot
<1>16. CASE BulkAlloc(t)
  <2>1. task' \in [Tasks -> Records] /\ FieldsOK'
    <3>1. CASE Return(t)
      BY <3>1, <1>r
    <3>2. ASSUME NEW f \in FpSlots, NEW l \in Nat,
                 task' = [task EXCEPT ![t].pc = "send", ![t].fp = f, ![t].life = l]
          PROVE  task' \in [Tasks -> Records] /\ FieldsOK'
      <4>1. /\ task' \in [Tasks -> Records] /\ Others(t)
            /\ task'[t].pc = "send" /\ task'[t].sess = task[t].sess
        BY <1>0, <1>n, <3>2, AfterFp
      <4>2. task[t].sess \in Slots
        BY <1>16, <1>v DEF BulkAlloc
      <4>3. QED
        BY <4>1, <4>2, FieldsStep DEF Typed
    <3>3. slot[task[t].sess].life \in Nat
      BY <1>16, <1>0, <1>v DEF BulkAlloc, SlotRecs
    <3>4. QED
      BY <1>16, <3>1, <3>2, <3>3 DEF BulkAlloc
  <2>2. QED
    BY <1>16, <1>0, <2>1 DEF BulkAlloc
<1>17. CASE BulkSend(t)
  <2>1. task' \in [Tasks -> Records] /\ FieldsOK'
    BY <1>17, <1>r, <1>p, <1>n DEF BulkSend
  <2>2. task[t].sess \in Slots /\ task[t].tag \in Nat /\ task[t].life \in Nat
    BY <1>17, <1>0 DEF BulkSend, Typed, FieldsOK, Records
  <2>3. [engine EXCEPT ![task[t].fp] = [tag |-> task[t].tag, sess |-> task[t].sess,
                                      life |-> task[t].life]]
          \in [FpSlots -> [tag : Nat, sess : Slots, life : Nat]]
    BY <1>0, <2>2
  <2>4. QED
    BY <1>17, <1>0, <1>f, <1>g, <2>1, <2>3 DEF BulkSend
<1>18. CASE BulkHandle(t)
  <2>1. task' \in [Tasks -> Records] /\ FieldsOK'
    BY <1>18, <1>r, <1>p, <1>n DEF BulkHandle
  <2>2. /\ task[t].sess \in Slots /\ task[t].fp \in FpSlots \cup {0}
        /\ task[t].tag \in Nat /\ task[t].life \in Nat
    BY <1>18, <1>0 DEF BulkHandle, Typed, FieldsOK, Records
  <2>3. vault' \in [Ids -> Entries]
    <3>1. [kind |-> "bulk", sess |-> task[t].sess, fp |-> task[t].fp, tag |-> task[t].tag,
           life |-> task[t].life]
            \in Entries
      BY <2>2 DEF Entries
    <3>2. QED
      BY <1>18, <1>0, <3>1 DEF BulkHandle
  <2>4. QED
    BY <1>18, <1>0, <1>f, <1>g, <2>1, <2>3 DEF BulkHandle
<1>19. CASE BulkUnsend(t)
  <2>1. engine' \in [FpSlots -> [tag : Nat, sess : Slots, life : Nat]]
    BY <1>19, <1>0, ConstantTypes DEF BulkUnsend
  <2>2. QED
    BY <1>19, <1>0, <1>f, <1>g, <1>r, <2>1 DEF BulkUnsend
<1>20. CASE Delete(t)
  <2>1. CASE vault[task[t].sess].kind = "bulk"
    <3>1. task[t].sess \in Ids
      BY <1>20 DEF Delete, Typed, FieldsOK
    <3>2. vault[task[t].sess].fp \in FpSlots \cup {0}
      BY <1>0, <3>1 DEF Entries
    <3>3. "engineDelete" \in Pcs
      BY DEF Pcs, Locked
    <3>4. task' \in [Tasks -> Records] /\ FieldsOK'
      <4>1. PICK i \in Ids, f \in FpSlots \cup {0} :
              task' = [task EXCEPT ![t].pc = "engineDelete", ![t].id = i, ![t].fp = f]
        BY <1>20, <2>1, <3>1, <3>2 DEF Delete
      <4>2. task' \in [Tasks -> Records] /\ Others(t) /\ task'[t].pc = "engineDelete"
        BY <1>0, <3>3, <4>1, AfterIdFp
      <4>3. QED
        BY <4>2, FieldsStep DEF Typed
    <3>5. QED
      BY <1>20, <1>0, <2>1, <3>4 DEF Delete
  <2>2. CASE vault[task[t].sess].kind # "bulk"
    BY <1>20, <1>0, <1>r, <1>d, <2>2 DEF Delete
  <2>3. QED
    BY <2>1, <2>2
<1>21. CASE EngineDelete(t)
  <2>1. engine' \in [FpSlots -> [tag : Nat, sess : Slots, life : Nat]]
    BY <1>21, <1>0, ConstantTypes DEF EngineDelete
  <2>2. vault' \in [Ids -> Entries]
    BY <1>21, <1>0, <1>d DEF EngineDelete
  <2>3. QED
    BY <1>21, <1>0, <1>f, <1>g, <1>r, <2>1, <2>2 DEF EngineDelete
<1>22. QED
  BY <1>1, <1>2, <1>3, <1>4, <1>5, <1>6, <1>7, <1>8, <1>9, <1>10, <1>11, <1>12, <1>13,
     <1>14, <1>15, <1>16, <1>17, <1>18, <1>19, <1>20, <1>21 DEF Step

\* Every step keeps the types.
LEMMA NextTyped ==
    ASSUME Typed, [Next]_vars
    PROVE  Typed'
<1>0. {"pending", "promote", "open", "reopen", "close", "bulk", "delete"} \subseteq Pcs
  BY DEF Pcs
<1>1. ASSUME NEW t \in Tasks, Start(t) PROVE Typed'
  <2>1. ASSUME NEW o \in BOOLEAN, StartPending(t, o) PROVE Typed'
    BY <1>0, <2>1, BeginTyped, ConstantTypes DEF StartPending
  <2>2. ASSUME NEW s \in Slots, StartPromote(t, s) \/ StartReopen(t, s) \/ StartClose(t, s)
        PROVE  Typed'
    BY <1>0, <2>2, BeginTyped DEF StartPromote, StartReopen, StartClose
  <2>3. ASSUME NEW s \in Slots, StartBulk(t, s) PROVE Typed'
    BY <1>0, <2>3, BeginTyped DEF StartBulk
  <2>4. CASE StartOpen(t)
    BY <1>0, <2>4, BeginTyped, ConstantTypes DEF StartOpen
  <2>5. ASSUME NEW i \in Ids, StartDelete(t, i) PROVE Typed'
    BY <1>0, <2>5, BeginTyped DEF StartDelete
  <2>6. QED
    BY <1>1, <2>1, <2>2, <2>3, <2>4, <2>5 DEF Start
<1>2. CASE Disable \/ DisableFails
  <2>1. engine' \in [FpSlots -> [tag : Nat, sess : Slots, life : Nat]]
    <3>1. \E S : engine' = EngineWithout(S)
      BY <1>2 DEF Disable, DisableFails, KeysStay
    <3>2. QED
      BY <3>1, EngineWithoutTyped DEF Typed, TypeOK
  <2>2. vault' \in [Ids -> Entries]
    <3>1. \E S : vault' = Drop(S)
      BY <1>2 DEF Disable, DisableFails, KeysStay
    <3>2. QED
      BY <3>1, DropTyped DEF Typed, TypeOK, Entries
  <2>3. faults' \in 0 .. MaxFaults
    <3>1. faults \in 0 .. MaxFaults
      BY DEF Typed, TypeOK
    <3>2. faults' = faults \/ Fault
      BY <1>2 DEF Disable, DisableFails, KeysStay
    <3>3. QED
      BY <3>1, <3>2, ConstantsAssumption DEF Fault
  <2>4. slot' \in [Slots -> SlotRecs]
    <3>1. slot' = slot \/ slot' = [s \in Slots |-> IF slot[s].st \in {"active", "renego"}
                                   THEN [slot[s] EXCEPT !.st = "renego", !.phys = 0]
                                   ELSE FreeSlot]
      BY <1>2 DEF Disable, DisableFails
    <3>3. slot \in [Slots -> SlotRecs]
      BY DEF Typed, TypeOK, SlotRecs
    <3>2. \A s \in Slots : [slot[s] EXCEPT !.st = "renego", !.phys = 0] \in SlotRecs
      BY <3>3 DEF SlotRecs
    <3>4. QED
      BY <3>1, <3>2, <3>3, ConstantTypes
  <2>5. fpBits' \subseteq FpSlots
    BY <1>2 DEF Disable, DisableFails, KeysStay, Typed, TypeOK
  <2>6. task' = task /\ made' = made
    BY <1>2 DEF Disable, DisableFails
  <2>7. QED
    BY <2>1, <2>2, <2>3, <2>4, <2>5, <2>6 DEF Typed, TypeOK, FieldsOK, Entries, SlotRecs
<1>3. CASE Clear
  <2>1. engine' \in [FpSlots -> [tag : Nat, sess : Slots, life : Nat]]
    BY <1>3, ConstantTypes DEF Clear
  <2>2. vault' \in [Ids -> Entries]
    BY <1>3, ConstantTypes DEF Clear
  <2>3. slot' \in [Slots -> SlotRecs]
    BY <1>3, ConstantTypes DEF Clear
  <2>4. QED
    BY <1>3, <2>1, <2>2, <2>3 DEF Clear, Typed, TypeOK, FieldsOK, Entries, SlotRecs
<1>4. CASE UNCHANGED vars
  BY <1>4 DEF vars, Typed, TypeOK, FieldsOK
<1>5. QED
  BY <1>1, <1>2, <1>3, <1>4, StepTyped DEF Next

-----------------------------------------------------------------------------
(* The lock                                                                 *)

\* What a step does to program counters: only its own changes, and it enters
\* the locked region only when nobody is in it.
Shape(t) ==
    /\ Others(t)
    /\ task'[t].pc \in Locked => task[t].pc \in Locked \/ LockFree

\* Every step moves one task, and takes fp_bulk_lock only when it is free.
LEMMA StepShape ==
    ASSUME Typed, NEW t \in Tasks, Step(t)
    PROVE  Shape(t)
<1> USE DEF At
<1>0. task \in [Tasks -> Records]
  BY DEF Typed, TypeOK, Records
<1>r. ASSUME Return(t) PROVE Shape(t)
  BY <1>0, <1>r, AfterReturn DEF Shape, Locked
<1>p. ASSUME NEW pc \in Pcs, Goto(t, pc), task[t].pc \in Locked PROVE Shape(t)
  BY <1>0, <1>p, AfterGoto DEF Shape
<1>s. ASSUME NEW pc \in Pcs, Stage(t, pc), pc \notin Locked \/ task[t].pc \in Locked \/ LockFree
      PROVE  Shape(t)
  <2>1. PICK i \in Ids : task' = [task EXCEPT ![t].pc = pc, ![t].id = i]
    BY <1>s DEF Stage
  <2>2. task'[t].pc = pc /\ Others(t)
    BY <1>0, <2>1, AfterId
  <2>3. QED
    BY <1>s, <2>2 DEF Shape
<1>o. ASSUME NEW pc \in Pcs, NEW i \in Ids \cup {0},
             task' = [task EXCEPT ![t].pc = pc, ![t].old = i],
             pc \notin Locked \/ LockFree
      PROVE  Shape(t)
  BY <1>0, <1>o, AfterOld DEF Shape
<1>v. ASSUME task[t].pc \notin {"delete", "engineDelete"} PROVE slot[task[t].sess].phys \in Ids \cup {0}
  BY <1>v DEF Typed, TypeOK, FieldsOK
<1>n. {"reserve", "dropOld", "bind", "create", "unstage", "recreate", "restage", "rekeys",
       "reblob", "keys", "blob", "slot", "send", "handle", "unsend", "engineDelete"} \subseteq Pcs
  BY DEF Pcs, Locked
<1>u. {"idle", "reserve", "bind", "dropOld"} \cap Locked = {}
  BY DEF Locked
<1>l. {"create", "unstage", "recreate", "restage", "rekeys",
       "reblob", "keys", "blob", "slot", "send", "handle", "unsend", "engineDelete"} \subseteq Locked
  BY DEF Locked
<1>1. CASE PendingStage(t)
  BY <1>1, <1>r, <1>s, <1>n, <1>u DEF PendingStage, StageFails
<1>2. CASE Reserve(t)
  <2>1. task[t].id \in Ids \cup {0}
    BY <1>0 DEF Records
  <2>2. \A s \in Slots : slot[s].phys \in Ids \cup {0}
    BY DEF Typed, TypeOK
  <2>3. Return(t) \/ \E i \in Ids \cup {0} :
                        task' = [task EXCEPT ![t].pc = "dropOld", ![t].old = i]
    BY <1>2, <2>1, <2>2 DEF Reserve
  <2>4. QED
    BY <2>3, <1>r, <1>o, <1>n, <1>u
<1>3. CASE DropOld(t) \/ Unstage(t) \/ CloseSlot(t) \/ BulkUnsend(t) \/ EngineDelete(t)
  BY <1>3, <1>r DEF DropOld, Unstage, CloseSlot, BulkUnsend, EngineDelete
<1>4. CASE PromoteStage(t)
  BY <1>4, <1>r, <1>s, <1>n, <1>u DEF PromoteStage, StageFails
<1>5. CASE PromoteBind(t)
  BY <1>5, <1>r, <1>o, <1>v, <1>n, <1>u DEF PromoteBind
<1>6. CASE OpenStage(t)
  BY <1>6, <1>r, <1>s, <1>n DEF OpenStage, StageFails
<1>7. CASE Create(t) \/ Recreate(t)
  BY <1>7, <1>r, <1>p, <1>n, <1>l DEF Create, Recreate
<1>8. CASE Reopen(t) \/ Close(t)
  <2>1. LockFree
    BY <1>8 DEF Reopen, Close
  <2>2. CASE Return(t)
    BY <2>2, <1>r
  <2>3. CASE Goto(t, "restage")
    BY <2>1, <2>3, <1>0, <1>n, AfterGoto DEF Shape
  <2>4. CASE \E i \in Ids \cup {0}, pc \in {"keys", "rekeys"} :
               task' = [task EXCEPT ![t].pc = pc, ![t].old = i]
    BY <2>1, <2>4, <1>o, <1>n
  <2>5. QED
    BY <1>8, <1>v, <2>2, <2>3, <2>4 DEF Reopen, Close
<1>9. CASE ReopenStage(t)
  BY <1>9, <1>r, <1>s, <1>n, <1>l DEF ReopenStage, StageFails
<1>10. CASE DeleteSessionKeys(t)
  BY <1>10, <1>r, <1>p, <1>n, <1>l DEF DeleteSessionKeys, SessionKeys
<1>11. CASE DeleteOldBlob(t)
  BY <1>11, <1>r, <1>p, <1>n, <1>l DEF DeleteOldBlob, OldBlob
<1>12. CASE BulkAlloc(t)
  <2>1. ASSUME NEW f \in FpSlots, NEW l \in Nat, LockFree,
               task' = [task EXCEPT ![t].pc = "send", ![t].fp = f, ![t].life = l]
        PROVE  Shape(t)
    BY <2>1, <1>0, <1>n, AfterFp DEF Shape
  <2>2. slot[task[t].sess].life \in Nat
    BY <1>12 DEF BulkAlloc, Typed, TypeOK, FieldsOK
  <2>3. QED
    BY <1>12, <1>r, <2>1, <2>2 DEF BulkAlloc
<1>13. CASE BulkSend(t) \/ BulkHandle(t)
  BY <1>13, <1>r, <1>p, <1>n, <1>l DEF BulkSend, BulkHandle
<1>14. CASE Delete(t)
  <2>1. ASSUME NEW i \in Ids, NEW f \in FpSlots \cup {0}, LockFree,
               task' = [task EXCEPT ![t].pc = "engineDelete", ![t].id = i, ![t].fp = f]
        PROVE  Shape(t)
    BY <2>1, <1>0, <1>n, AfterIdFp DEF Shape
  <2>2. task[t].sess \in Ids /\ vault[task[t].sess].fp \in FpSlots \cup {0}
    BY <1>14 DEF Delete, Typed, TypeOK, FieldsOK
  <2>3. QED
    BY <1>14, <1>r, <2>1, <2>2 DEF Delete
<1>15. QED
  BY <1>1, <1>2, <1>3, <1>4, <1>5, <1>6, <1>7, <1>8, <1>9, <1>10, <1>11, <1>12, <1>13, <1>14 DEF Step

\* At most one task is in the region fp_bulk_lock protects.
LEMMA LockStep ==
    ASSUME OneLockHolder, NEW t \in Tasks, Shape(t)
    PROVE  OneLockHolder'
BY DEF OneLockHolder, Shape, Others, LockFree

-----------------------------------------------------------------------------
(* Steps that create no handle and take no session away                     *)

Critical == {"send", "handle", "unsend", "engineDelete", "blob", "slot", "bulk"}

\* Handles are only lost; the others are what they were.
OnlyLoses == \A i \in Ids : IsBulk(i)' => vault'[i] = vault[i]

\* An Active session stays so, and it stays the same session; none falls into
\* renegotiation.
SlotsKeep ==
    /\ \A s \in Slots : slot[s].st = "active" =>
                          slot'[s].st = "active" /\ slot'[s].life = slot[s].life
    /\ \A s \in Slots : slot'[s].st = "renego" => slot[s].st = "renego"

\* Dropping entries makes no handle.
LEMMA DropOnlyLoses ==
    ASSUME NEW S, vault' = Drop(S)
    PROVE  OnlyLoses /\ \A i \in Ids : IsBulk(i)' => i \notin S
BY DEF OnlyLoses, IsBulk, Drop, FreeEntry

\* Nor does staging a session blob.
LEMMA StageOnlyLoses ==
    ASSUME Typed, NEW t \in Tasks, NEW pc, Stage(t, pc)
    PROVE  OnlyLoses
<1>1. PICK i \in Ids : vault' = [vault EXCEPT ![i] = Blob]
  BY DEF Stage
<1>2. Blob.kind = "blob"
  BY DEF Blob, FreeEntry
<1>3. QED
  BY <1>1, <1>2 DEF OnlyLoses, IsBulk, Typed, TypeOK

\* Such a step, outside the critical positions, keeps the invariant.
LEMMA Harmless ==
    ASSUME IInv, Typed', OneLockHolder', NEW t \in Tasks, Others(t),
           UNCHANGED <<engine, fpBits>>, OnlyLoses, SlotsKeep,
           \/ task'[t].pc \notin Critical
           \/ task'[t].pc = "bulk" /\ slot'[task'[t].sess].st # "renego"
    PROVE  IInv'
<1>0. /\ \A i \in Ids : vault[i].sess \in Slots
      /\ \A f \in FpSlots : engine[f].sess \in Slots
      /\ \A u \in Tasks : task[u].pc \in Critical \ {"engineDelete"} => task[u].sess \in Slots
  BY DEF IInv, Typed, TypeOK, FieldsOK, Critical
<1>1. HandleInv'
  BY <1>0 DEF IInv, HandleInv, OnlyLoses, SlotsKeep, IsBulk
<1>2. EngineInv'
  BY <1>0 DEF IInv, EngineInv, SlotsKeep
<1>3. CreateInv'
  BY <1>0 DEF IInv, CreateInv, OnlyLoses, SlotsKeep, IsBulk, Others, Critical
<1>4. DeleteInv'
  BY DEF IInv, DeleteInv, OnlyLoses, IsBulk, Others, Critical
<1>5. CloseInv'
  BY DEF IInv, CloseInv, OnlyLoses, IsBulk, Others, Critical
<1>6. WaitInv'
  BY <1>0 DEF IInv, WaitInv, SlotsKeep, Others, Critical
<1>7. QED
  BY <1>1, <1>2, <1>3, <1>4, <1>5, <1>6 DEF IInv

\* The steps of a command that are of that kind.
LEMMA HarmlessSteps ==
    ASSUME IInv, NEW t \in Tasks,
           \/ PendingStage(t) \/ Reserve(t) \/ DropOld(t)
           \/ PromoteStage(t) \/ PromoteBind(t)
           \/ OpenStage(t) \/ Create(t) \/ Unstage(t)
           \/ Reopen(t) \/ ReopenStage(t) \/ Recreate(t)
           \/ Close(t)
    PROVE  IInv'
<1> USE DEF At
<1>0. Step(t)
  BY DEF Step
<1>1. Typed' /\ OneLockHolder' /\ Others(t)
  BY <1>0, StepTyped, StepShape, LockStep DEF IInv, Shape
<1>2. UNCHANGED <<engine, fpBits>>
  BY DEF PendingStage, Reserve, DropOld, PromoteStage, PromoteBind, OpenStage, Create, Unstage,
         Reopen, ReopenStage, Recreate, Close
<1>3. OnlyLoses
  <2>1. UNCHANGED vault \/ (\E S : vault' = Drop(S)) \/ \E pc : Stage(t, pc)
    BY DEF PendingStage, Reserve, DropOld, PromoteStage, PromoteBind, OpenStage, Create, Unstage,
           Reopen, ReopenStage, Recreate, Close, StageFails
  <2>2. QED
    BY <2>1, DropOnlyLoses, StageOnlyLoses DEF OnlyLoses, IInv
<1>4. SlotsKeep
  <2>1. slot \in [Slots -> SlotRecs]
    BY DEF IInv, Typed, TypeOK, SlotRecs
  <2>2. CASE UNCHANGED slot
    BY <2>2 DEF SlotsKeep
  <2>3. CASE \E s \in Slots, r \in SlotRecs :
               /\ slot[s].st # "active" /\ r.st # "renego"
               /\ slot' = [slot EXCEPT ![s] = r]
    BY <2>1, <2>3 DEF SlotsKeep
  <2>4. FreeSlot \in SlotRecs /\ FreeSlot.st = "free"
    BY ConstantTypes DEF FreeSlot
  <2>5. /\ Opened(t) \in SlotRecs /\ Opened(t).st = "active"
        /\ Reserved(t) \in SlotRecs /\ Reserved(t).st = "pending"
    <3>1. task \in [Tasks -> Records]
      BY DEF IInv, Typed, TypeOK, Records
    <3>2. QED
      BY <3>1, OpenedTyped DEF Opened, Reserved, FreeSlot
  <2>6. task[t].pc \notin {"delete", "engineDelete"} => task[t].sess \in Slots
    BY DEF IInv, Typed, FieldsOK
  <2>7. CASE PromoteBind(t)
    BY <2>2, <2>3, <2>5, <2>6, <2>7 DEF PromoteBind
  <2>8. CASE Recreate(t)
    <3>1. task[t].sess \in Slots /\ task[t].id \in Ids \cup {0}
      BY <2>6, <2>8 DEF Recreate, IInv, Typed, TypeOK
    <3>2. CASE slot[task[t].sess].st = "renego"
      <4>1. slot' = [slot EXCEPT ![task[t].sess].st = "active", ![task[t].sess].phys = task[t].id]
        BY <2>8, <3>2 DEF Recreate
      <4>2. /\ slot'[task[t].sess].st = "active"
            /\ \A s \in Slots : s # task[t].sess => slot'[s] = slot[s]
        BY <2>1, <3>1, <4>1 DEF SlotRecs
      <4>3. QED
        BY <3>2, <4>2 DEF SlotsKeep
    <3>3. QED
      BY <2>2, <2>8, <3>2 DEF Recreate
  <2>9. CASE Close(t)
    BY <2>2, <2>3, <2>4, <2>6, <2>9 DEF Close
  <2>10. CASE Create(t)
    BY <2>2, <2>3, <2>5, <2>10 DEF Create, IsLeast
  <2>11. CASE Reserve(t)
    BY <2>2, <2>3, <2>5, <2>11 DEF Reserve, Reserved, IsLeast
  <2>12. QED
    BY <2>2, <2>7, <2>8, <2>9, <2>10, <2>11
       DEF PendingStage, DropOld, PromoteStage, OpenStage, Unstage, Reopen, ReopenStage
<1>5. task'[t].pc \notin Critical
  <2>0. task \in [Tasks -> Records]
    BY DEF IInv, Typed, TypeOK, Records
  <2>1. \A s \in Slots : slot[s].phys \in Ids \cup {0}
    BY DEF IInv, Typed, TypeOK
  <2>2. task[t].pc \notin {"delete", "engineDelete"} => task[t].sess \in Slots
    BY DEF IInv, Typed, FieldsOK
  <2>3. task[t].id \in Ids \cup {0}
    BY <2>0 DEF Records
  <2>4. CASE Return(t)
    BY <2>0, <2>4, AfterReturn DEF Critical
  <2>5. CASE Goto(t, "unstage") \/ Goto(t, "restage")
    BY <2>0, <2>5, AfterGoto DEF Critical, Pcs, Locked
  <2>6. ASSUME NEW pc \in Pcs \ Critical, Stage(t, pc) PROVE task'[t].pc \notin Critical
    <3>1. PICK i \in Ids : task' = [task EXCEPT ![t].pc = pc, ![t].id = i]
      BY <2>6 DEF Stage
    <3>2. QED
      BY <2>0, <2>6, <3>1, AfterId
  <2>7. ASSUME NEW pc \in Pcs \ Critical, NEW i \in Ids \cup {0},
               task' = [task EXCEPT ![t].pc = pc, ![t].old = i]
        PROVE  task'[t].pc \notin Critical
    BY <2>0, <2>7, AfterOld
  <2>8. {"reserve", "dropOld", "bind", "create", "recreate", "rekeys", "keys"} \subseteq Pcs \ Critical
    BY DEF Pcs, Locked, Critical
  <2>9. \/ Return(t) \/ Goto(t, "unstage") \/ Goto(t, "restage")
        \/ \E pc \in Pcs \ Critical : Stage(t, pc)
        \/ \E pc \in Pcs \ Critical, i \in Ids \cup {0} :
              task' = [task EXCEPT ![t].pc = pc, ![t].old = i]
    <3>1. CASE Reserve(t)
      BY <2>1, <2>3, <2>8, <3>1 DEF Reserve
    <3>2. CASE PromoteBind(t)
      BY <2>1, <2>2, <2>8, <3>2 DEF PromoteBind
    <3>3. CASE Reopen(t) \/ Close(t)
      BY <2>1, <2>2, <2>8, <3>3 DEF Reopen, Close
    <3>4. QED
      BY <2>8, <3>1, <3>2, <3>3 DEF PendingStage, DropOld, PromoteStage, OpenStage, Create, Unstage,
         ReopenStage, Recreate, StageFails
  <2>10. QED
    BY <2>4, <2>5, <2>6, <2>7, <2>9
<1>6. QED
  BY <1>1, <1>2, <1>3, <1>4, <1>5, Harmless

\* A command arrives.
LEMMA BeginStep ==
    ASSUME IInv, NEW t \in Tasks, NEW op, NEW pc \in Pcs, NEW s \in Slots \cup Ids,
           pc \notin Locked,
           pc # "delete" => s \in Slots,
           pc = "delete" => s \in Ids,
           pc = "bulk" => slot[s].st = "active",
           Begin(t, op, pc, s)
    PROVE  IInv'
<1>1. /\ task'[t].pc = pc /\ task'[t].sess = s /\ Others(t)
  BY DEF Begin, IInv, Typed, TypeOK, Others
<1>2. Typed'
  BY BeginTyped DEF IInv, Locked
<1>3. OneLockHolder'
  BY <1>1, LockStep DEF Shape, IInv
<1>4. UNCHANGED <<slot, vault, engine, fpBits>>
  BY DEF Begin
<1>5. OnlyLoses /\ SlotsKeep
  BY <1>4 DEF OnlyLoses, SlotsKeep
<1>6. pc \notin Critical \/ pc = "bulk"
  BY DEF Critical, Locked
<1>7. QED
  BY <1>1, <1>2, <1>3, <1>4, <1>5, <1>6, Harmless

\* A new command.
LEMMA StartStep ==
    ASSUME IInv, NEW t \in Tasks, Start(t)
    PROVE  IInv'
<1>0. {"pending", "promote", "open", "reopen", "close", "bulk", "delete"} \subseteq Pcs \ Locked
  BY DEF Pcs, Locked
<1>1. ASSUME NEW o \in BOOLEAN, StartPending(t, o) PROVE IInv'
  BY <1>0, <1>1, BeginStep, ConstantTypes DEF StartPending
<1>2. ASSUME NEW s \in Slots, StartPromote(t, s) \/ StartReopen(t, s) \/ StartClose(t, s)
      PROVE  IInv'
  BY <1>0, <1>2, BeginStep DEF StartPromote, StartReopen, StartClose
<1>3. ASSUME NEW s \in Slots, StartBulk(t, s) PROVE IInv'
  BY <1>0, <1>3, BeginStep DEF StartBulk
<1>4. CASE StartOpen(t)
  BY <1>0, <1>4, BeginStep, ConstantTypes DEF StartOpen
<1>5. ASSUME NEW i \in Ids, StartDelete(t, i) PROVE IInv'
  BY <1>0, <1>5, BeginStep DEF StartDelete
<1>6. QED
  BY <1>1, <1>2, <1>3, <1>4, <1>5 DEF Start

-----------------------------------------------------------------------------
(* The steps of the task that holds the lock                                *)

CreateOf(t) ==
    task[t].pc \in {"send", "handle", "unsend"} =>
        /\ task[t].fp \in fpBits
        /\ slot[task[t].sess].st = "active" /\ slot[task[t].sess].life = task[t].life
        /\ \A i \in Ids : IsBulk(i) => vault[i].fp # task[t].fp
        /\ task[t].pc = "handle" =>
             /\ engine[task[t].fp].tag \in {task[t].tag, NoTag}
             /\ engine[task[t].fp].tag # NoTag => engine[task[t].fp].sess = task[t].sess

DeleteOf(t) ==
    task[t].pc = "engineDelete" =>
        \A i \in Ids : IsBulk(i) /\ vault[i].fp = task[t].fp => i = task[t].id

CloseOf(t) ==
    task[t].pc \in {"blob", "slot"} =>
        /\ \A i \in Ids : IsBulk(i) => vault[i].sess # task[t].sess
        /\ \A f \in FpSlots : engine[f].tag # NoTag => engine[f].sess # task[t].sess

\* Nobody else is in a critical position, so what t knows is all there is.
LEMMA Exclusive ==
    ASSUME IInv, NEW t \in Tasks, Step(t),
           task[t].pc \in Locked \/ LockFree,
           \A s \in Slots : slot'[s].st = "renego" => slot[s].st = "renego",
           task'[t].pc # "bulk",
           HandleInv', EngineInv', CreateOf(t)', DeleteOf(t)', CloseOf(t)'
    PROVE  IInv'
<1>1. Typed' /\ OneLockHolder' /\ Others(t)
  BY StepTyped, StepShape, LockStep DEF IInv, Shape
<1>2. \A u \in Tasks \ {t} : task'[u] = task[u] /\ task[u].pc \notin Locked
  BY <1>1 DEF IInv, OneLockHolder, LockFree, Others
<1>3. CreateInv'
  BY <1>2 DEF CreateInv, CreateOf, Locked
<1>4. DeleteInv'
  BY <1>2 DEF DeleteInv, DeleteOf, Locked
<1>5. CloseInv'
  BY <1>2 DEF CloseInv, CloseOf, Locked
<1>6. WaitInv'
  BY <1>2 DEF IInv, WaitInv, Typed, FieldsOK
<1>7. QED
  BY <1>1, <1>3, <1>4, <1>5, <1>6 DEF IInv

\* A step that returns has nothing left to know.
LEMMA ReturnKnowsNothing ==
    ASSUME IInv, NEW t \in Tasks, Return(t)
    PROVE  /\ task'[t].pc # "bulk" /\ task'[t].pc \notin Critical
           /\ CreateOf(t)' /\ DeleteOf(t)' /\ CloseOf(t)'
<1>1. task \in [Tasks -> Records]
  BY DEF IInv, Typed, TypeOK, Records
<1>2. task'[t].pc = "idle"
  BY <1>1, AfterReturn
<1>3. QED
  BY <1>2 DEF CreateOf, DeleteOf, CloseOf, Critical

\* fp_bulk_create reserves a slot nobody uses.
LEMMA BulkAllocStep ==
    ASSUME IInv, NEW t \in Tasks, BulkAlloc(t)
    PROVE  IInv'
<1>0. Step(t) /\ LockFree /\ task[t].pc = "bulk" /\ UNCHANGED <<slot, vault, engine>>
  BY DEF Step, BulkAlloc, At
<1>1. CASE Return(t) /\ UNCHANGED fpBits
  <2>1. Typed' /\ OneLockHolder' /\ Others(t)
    BY <1>0, StepTyped, StepShape, LockStep DEF IInv, Shape
  <2>2. OnlyLoses /\ SlotsKeep
    BY <1>0 DEF OnlyLoses, SlotsKeep
  <2>3. QED
    BY <1>0, <1>1, <2>1, <2>2, Harmless, ReturnKnowsNothing
<1>2. CASE /\ SessionUsable(task[t].sess)
           /\ \E f \in FpSlots \ fpBits :
                /\ fpBits' = fpBits \cup {f}
                /\ task' = [task EXCEPT ![t].pc = "send", ![t].fp = f,
                                        ![t].life = slot[task[t].sess].life]
  <2>1. PICK f \in FpSlots \ fpBits :
                /\ fpBits' = fpBits \cup {f}
                /\ task' = [task EXCEPT ![t].pc = "send", ![t].fp = f,
                                        ![t].life = slot[task[t].sess].life]
    BY <1>2
  <2>2. /\ task'[t].pc = "send" /\ task'[t].fp = f /\ task'[t].sess = task[t].sess
        /\ task'[t].life = slot[task[t].sess].life
    <3>1. task \in [Tasks -> Records] /\ "send" \in Pcs
      BY DEF IInv, Typed, TypeOK, Records, Pcs, Locked
    <3>2. ASSUME NEW g \in FpSlots, NEW l \in Nat,
                 task' = [task EXCEPT ![t].pc = "send", ![t].fp = g, ![t].life = l]
          PROVE  /\ task'[t].pc = "send" /\ task'[t].fp = g /\ task'[t].sess = task[t].sess
                 /\ task'[t].life = l
      BY <3>1, <3>2 DEF Records
    <3>3. f \in FpSlots /\ slot[task[t].sess].life \in Nat
      BY <1>0, <2>1 DEF IInv, Typed, TypeOK, FieldsOK
    <3>4. QED
      BY <2>1, <3>2, <3>3
  <2>3. slot[task[t].sess].st = "active"
    BY <1>0, <1>2 DEF SessionUsable, IInv, WaitInv, Typed, TypeOK, FieldsOK
  <2>4. HandleInv' /\ EngineInv'
    BY <1>0, <2>1 DEF IInv, HandleInv, EngineInv, IsBulk
  <2>5. CreateOf(t)'
    <3>1. \A i \in Ids : IsBulk(i) => vault[i].fp # f
      BY <2>1 DEF IInv, HandleInv
    <3>2. slot' = slot /\ vault' = vault /\ f \in fpBits'
      BY <1>0, <2>1
    <3>3. \A i \in Ids : IsBulk(i)' => vault'[i].fp # task'[t].fp
      BY <2>2, <3>1, <3>2 DEF IsBulk
    <3>4. /\ slot'[task'[t].sess].st = "active" /\ slot'[task'[t].sess].life = task'[t].life
          /\ task'[t].fp \in fpBits' /\ task'[t].pc # "handle"
      BY <2>2, <2>3, <3>2
    <3>5. QED
      BY <3>3, <3>4 DEF CreateOf
  <2>6. DeleteOf(t)' /\ CloseOf(t)'
    BY <2>2 DEF DeleteOf, CloseOf
  <2>7. QED
    BY <1>0, <2>2, <2>4, <2>5, <2>6, Exclusive
<1>3. QED
  BY <1>1, <1>2 DEF BulkAlloc, IsLeast

\* The create message: the engine now holds the key, or may hold it.
LEMMA BulkSendStep ==
    ASSUME IInv, NEW t \in Tasks, BulkSend(t)
    PROVE  IInv'
<1> DEFINE f == task[t].fp
           rec == [tag |-> task[t].tag, sess |-> task[t].sess, life |-> task[t].life]
           created == [engine EXCEPT ![f] = rec]
<1>0. Step(t) /\ task[t].pc = "send" /\ slot' = slot /\ vault' = vault /\ fpBits' = fpBits
  BY DEF Step, BulkSend, At
<1>1. /\ f \in fpBits /\ f \in FpSlots /\ task[t].sess \in Slots
      /\ slot[task[t].sess].st = "active" /\ slot[task[t].sess].life = task[t].life
      /\ \A i \in Ids : IsBulk(i) => vault[i].fp # f
  BY <1>0 DEF IInv, CreateInv, Typed, TypeOK, FieldsOK
<1>2. engine \in [FpSlots -> [tag : Nat, sess : Slots, life : Nat]] /\ task \in [Tasks -> Records]
  BY DEF IInv, Typed, TypeOK, Records
<1>3. engine' = engine \/ engine' = created
  BY DEF BulkSend
<1>4. \A g \in FpSlots : engine'[g] = engine[g] \/ (g = f /\ engine'[g] = rec)
  BY <1>2, <1>3
<1>5. HandleInv'
  <2>1. \A i \in Ids : IsBulk(i) => vault[i].fp \in FpSlots /\ engine'[vault[i].fp] = engine[vault[i].fp]
    BY <1>1, <1>4 DEF IInv, HandleInv, Typed, TypeOK
  <2>2. QED
    BY <1>0, <2>1 DEF IInv, HandleInv, IsBulk
<1>6. EngineInv'
  BY <1>0, <1>1, <1>4 DEF IInv, EngineInv
<1>7. CASE Return(t)
  BY <1>0, <1>5, <1>6, <1>7, ReturnKnowsNothing, Exclusive DEF Locked
<1>8. CASE engine' = created /\ Goto(t, "handle")
  <2>1. "handle" \in Pcs
    BY DEF Pcs, Locked
  <2>2. /\ task'[t].pc = "handle" /\ task'[t].fp = f
        /\ task'[t].tag = task[t].tag /\ task'[t].sess = task[t].sess
        /\ task'[t].life = task[t].life
    BY <1>2, <1>8, <2>1, AfterGoto
  <2>3. engine'[f] = rec
    BY <1>1, <1>2, <1>8
  <2>4. CreateOf(t)'
    <3>1. \A i \in Ids : IsBulk(i)' => vault'[i].fp # task'[t].fp
      BY <1>0, <1>1, <2>2 DEF IsBulk
    <3>2. /\ slot'[task'[t].sess].st = "active" /\ slot'[task'[t].sess].life = task'[t].life
          /\ task'[t].fp \in fpBits'
      BY <1>0, <1>1, <2>2
    <3>3. engine'[task'[t].fp].tag = task'[t].tag /\ engine'[task'[t].fp].sess = task'[t].sess
      BY <2>2, <2>3
    <3>4. QED
      BY <3>1, <3>2, <3>3 DEF CreateOf
  <2>5. DeleteOf(t)' /\ CloseOf(t)'
    BY <2>2 DEF DeleteOf, CloseOf
  <2>6. QED
    BY <1>0, <1>5, <1>6, <2>2, <2>4, <2>5, Exclusive DEF Locked
<1>9. QED
  BY <1>7, <1>8 DEF BulkSend

\* The new handle names a slot no other handle names.
LEMMA BulkHandleStep ==
    ASSUME IInv, NEW t \in Tasks, BulkHandle(t)
    PROVE  IInv'
<1> DEFINE f == task[t].fp
           rec == [kind |-> "bulk", sess |-> task[t].sess, fp |-> f, tag |-> task[t].tag,
                   life |-> task[t].life]
<1>0. Step(t) /\ task[t].pc = "handle" /\ slot' = slot /\ engine' = engine /\ fpBits' = fpBits
  BY DEF Step, BulkHandle, At
<1>1. /\ f \in fpBits /\ f \in FpSlots /\ task[t].sess \in Slots
      /\ slot[task[t].sess].st = "active" /\ slot[task[t].sess].life = task[t].life
      /\ \A i \in Ids : IsBulk(i) => vault[i].fp # f
      /\ engine[f].tag \in {task[t].tag, NoTag}
      /\ engine[f].tag # NoTag => engine[f].sess = task[t].sess
  BY <1>0 DEF IInv, CreateInv, Typed, TypeOK, FieldsOK
<1>2. vault \in [Ids -> Entries] /\ task \in [Tasks -> Records]
  BY DEF IInv, Typed, TypeOK, Records, Entries
<1>3. EngineInv'
  BY <1>0 DEF IInv, EngineInv
<1>4. CASE Return(t) /\ \E i \in Ids : vault' = [vault EXCEPT ![i] = rec]
  <2>1. PICK i \in Ids : vault' = [vault EXCEPT ![i] = rec]
    BY <1>4
  <2>2. vault'[i] = rec /\ \A j \in Ids \ {i} : vault'[j] = vault[j]
    BY <1>2, <2>1
  <2>3. HandleInv'
    <3> SUFFICES ASSUME NEW k \in Ids, IsBulk(k)'
                 PROVE  /\ vault'[k].fp \in fpBits
                        /\ slot[vault'[k].sess].st = "active" /\ slot[vault'[k].sess].life = vault'[k].life
                        /\ engine[vault'[k].fp].tag \in {vault'[k].tag, NoTag}
                        /\ engine[vault'[k].fp].tag # NoTag =>
                             engine[vault'[k].fp].sess = vault'[k].sess
                        /\ \A j \in Ids : IsBulk(j)' /\ vault'[j].fp = vault'[k].fp => j = k
      BY <1>0 DEF HandleInv
    <3>1. CASE k = i
      <4>1. \A j \in Ids \ {i} : IsBulk(j)' => vault'[j].fp # f
        BY <1>1, <2>2 DEF IsBulk
      <4>2. QED
        BY <1>1, <2>2, <3>1, <4>1
    <3>2. CASE k # i
      <4>1. vault'[k] = vault[k] /\ IsBulk(k)
        BY <2>2, <3>2 DEF IsBulk
      <4>2. vault[k].fp # f
        BY <1>1, <4>1
      <4>3. \A j \in Ids \ {i} : IsBulk(j)' => IsBulk(j) /\ vault'[j] = vault[j]
        BY <2>2 DEF IsBulk
      <4>4. QED
        BY <2>2, <4>1, <4>2, <4>3 DEF IInv, HandleInv
    <3>3. QED
      BY <3>1, <3>2
  <2>4. QED
    BY <1>0, <1>3, <1>4, <2>3, ReturnKnowsNothing, Exclusive DEF Locked
<1>5. CASE Goto(t, "unsend") /\ vault' = vault
  <2>1. "unsend" \in Pcs
    BY DEF Pcs, Locked
  <2>2. /\ task'[t].pc = "unsend" /\ task'[t].fp = f /\ task'[t].sess = task[t].sess
        /\ task'[t].life = task[t].life
    BY <1>2, <1>5, <2>1, AfterGoto
  <2>3. HandleInv'
    BY <1>0, <1>5 DEF IInv, HandleInv, IsBulk
  <2>4. CreateOf(t)'
    <3>1. \A i \in Ids : IsBulk(i)' => vault'[i].fp # task'[t].fp
      BY <1>1, <1>5, <2>2 DEF IsBulk
    <3>2. /\ slot'[task'[t].sess].st = "active" /\ slot'[task'[t].sess].life = task'[t].life
          /\ task'[t].fp \in fpBits'
      BY <1>0, <1>1, <2>2
    <3>3. QED
      BY <2>2, <3>1, <3>2 DEF CreateOf
  <2>5. DeleteOf(t)' /\ CloseOf(t)'
    BY <2>2 DEF DeleteOf, CloseOf
  <2>6. QED
    BY <1>0, <1>3, <2>2, <2>3, <2>4, <2>5, Exclusive DEF Locked
<1>6. QED
  BY <1>4, <1>5 DEF BulkHandle

\* The failed registration is taken back; the slot is freed only if it is empty.
LEMMA BulkUnsendStep ==
    ASSUME IInv, NEW t \in Tasks, BulkUnsend(t)
    PROVE  IInv'
<1> DEFINE f == task[t].fp
           cleared == [engine EXCEPT ![f] = NoEngineKey]
<1>0. Step(t) /\ task[t].pc = "unsend" /\ slot' = slot /\ vault' = vault /\ Return(t)
  BY DEF Step, BulkUnsend, At
<1>1. f \in fpBits /\ f \in FpSlots /\ \A i \in Ids : IsBulk(i) => vault[i].fp # f
  BY <1>0 DEF IInv, CreateInv, Typed, TypeOK
<1>2. engine \in [FpSlots -> [tag : Nat, sess : Slots, life : Nat]] /\ NoEngineKey.tag = NoTag
  BY DEF IInv, Typed, TypeOK, NoEngineKey
<1>3. \/ engine' = cleared /\ fpBits' = fpBits \ {f}
      \/ engine' \in {engine, cleared} /\ fpBits' = fpBits
  BY DEF BulkUnsend
<1>4. /\ \A g \in FpSlots : engine'[g] = engine[g] \/ (g = f /\ engine'[g].tag = NoTag)
      /\ \A g \in fpBits : g # f => g \in fpBits'
      /\ f \in fpBits' \/ engine'[f].tag = NoTag
  BY <1>1, <1>2, <1>3
<1>5. HandleInv'
  <2>1. \A i \in Ids : IsBulk(i) => /\ vault[i].fp \in FpSlots /\ vault[i].fp \in fpBits'
                                    /\ engine'[vault[i].fp] = engine[vault[i].fp]
    BY <1>1, <1>4 DEF IInv, HandleInv, Typed, TypeOK
  <2>2. QED
    BY <1>0, <2>1 DEF IInv, HandleInv, IsBulk
<1>6. EngineInv'
  BY <1>0, <1>4 DEF IInv, EngineInv
<1>7. QED
  BY <1>0, <1>5, <1>6, ReturnKnowsNothing, Exclusive DEF Locked

\* vault_key_delete finds the handle, or something else, in the entry.
LEMMA DeleteStep ==
    ASSUME IInv, NEW t \in Tasks, Delete(t)
    PROVE  IInv'
<1> DEFINE n == task[t].sess
<1>0. Step(t) /\ LockFree /\ task[t].pc = "delete" /\ slot' = slot /\ engine' = engine /\ fpBits' = fpBits
  BY DEF Step, Delete, At
<1>1. n \in Ids /\ vault[n].fp \in FpSlots \cup {0}
  BY <1>0 DEF IInv, Typed, TypeOK, FieldsOK
<1>2. CASE vault' = Drop({n}) /\ Return(t)
  <2>1. Typed' /\ OneLockHolder' /\ Others(t)
    BY <1>0, StepTyped, StepShape, LockStep DEF IInv, Shape
  <2>2. OnlyLoses
    BY <1>2, DropOnlyLoses
  <2>3. SlotsKeep
    BY <1>0 DEF SlotsKeep
  <2>4. QED
    BY <1>0, <1>2, <2>1, <2>2, <2>3, Harmless, ReturnKnowsNothing
<1>3. CASE /\ IsBulk(n) /\ vault' = vault
           /\ task' = [task EXCEPT ![t].pc = "engineDelete", ![t].id = n, ![t].fp = vault[n].fp]
  <2>1. HandleInv' /\ EngineInv'
    BY <1>0, <1>3 DEF IInv, HandleInv, EngineInv, IsBulk
  <2>2. PICK i \in Ids, f \in FpSlots \cup {0} :
          /\ i = n /\ f = vault[n].fp
          /\ task' = [task EXCEPT ![t].pc = "engineDelete", ![t].id = i, ![t].fp = f]
    BY <1>1, <1>3
  <2>3. task'[t].pc = "engineDelete" /\ task'[t].id = i /\ task'[t].fp = f
    <3>1. task \in [Tasks -> Records] /\ "engineDelete" \in Pcs
      BY DEF IInv, Typed, TypeOK, Records, Pcs, Locked
    <3>2. task' = [task EXCEPT ![t].pc = "engineDelete", ![t].id = i, ![t].fp = f]
      BY <2>2
    <3>3. QED
      BY <3>1, <3>2, AfterIdFp
  <2>4. DeleteOf(t)'
    <3>1. \A j \in Ids : IsBulk(j) /\ vault[j].fp = f => j = i
      BY <1>1, <1>3, <2>2 DEF IInv, HandleInv
    <3>2. QED
      BY <1>3, <2>3, <3>1 DEF DeleteOf, IsBulk
  <2>5. CreateOf(t)' /\ CloseOf(t)'
    BY <2>3 DEF CreateOf, CloseOf
  <2>6. QED
    BY <1>0, <2>1, <2>3, <2>4, <2>5, Exclusive
<1>4. QED
  BY <1>2, <1>3 DEF Delete, IsBulk

\* The engine's copy goes first, so the freed slot is empty.
LEMMA EngineDeleteStep ==
    ASSUME IInv, NEW t \in Tasks, EngineDelete(t)
    PROVE  IInv'
<1> DEFINE f == task[t].fp
           n == task[t].id
           cleared == [engine EXCEPT ![f] = NoEngineKey]
<1>0. Step(t) /\ task[t].pc = "engineDelete" /\ slot' = slot /\ Return(t)
  BY DEF Step, EngineDelete, At
<1>1. \A i \in Ids : IsBulk(i) /\ vault[i].fp = f => i = n
  BY <1>0 DEF IInv, DeleteInv
<1>2. engine \in [FpSlots -> [tag : Nat, sess : Slots, life : Nat]] /\ NoEngineKey.tag = NoTag
  BY DEF IInv, Typed, TypeOK, NoEngineKey
<1>3. \A g \in FpSlots : engine'[g] = engine[g] \/ (g = f /\ engine'[g].tag = NoTag)
  BY <1>2 DEF EngineDelete
<1>4. CASE engine' = cleared /\ vault' = Drop({n}) /\ fpBits' \in {fpBits, fpBits \ {f}}
  <2>1. OnlyLoses /\ \A i \in Ids : IsBulk(i)' => i # n
    BY <1>4, DropOnlyLoses
  <2>2. \A i \in Ids : IsBulk(i)' => IsBulk(i) /\ vault'[i] = vault[i] /\ vault[i].fp # f
    BY <1>1, <2>1 DEF OnlyLoses, IsBulk
  <2>3. \A i \in Ids : IsBulk(i)' => /\ vault[i].fp \in FpSlots /\ vault[i].fp \in fpBits'
                                     /\ engine'[vault[i].fp] = engine[vault[i].fp]
    BY <1>3, <1>4, <2>2 DEF IInv, HandleInv, Typed, TypeOK
  <2>4. HandleInv'
    BY <1>0, <2>2, <2>3 DEF IInv, HandleInv
  <2>5. EngineInv'
    <3>0. f \in FpSlots => engine'[f] = NoEngineKey
      BY <1>2, <1>4
    <3>1. \A g \in FpSlots : engine'[g].tag # NoTag => g # f /\ engine'[g] = engine[g]
      BY <1>2, <1>3, <3>0
    <3>2. QED
      BY <1>0, <1>4, <3>1 DEF IInv, EngineInv
  <2>6. QED
    BY <1>0, <2>4, <2>5, ReturnKnowsNothing, Exclusive DEF Locked
<1>5. CASE vault' = vault /\ fpBits' = fpBits
  <2>1. EngineInv'
    BY <1>0, <1>3, <1>5 DEF IInv, EngineInv
  <2>2. \A i \in Ids : IsBulk(i) => \/ engine'[vault[i].fp] = engine[vault[i].fp]
                                    \/ engine'[vault[i].fp].tag = NoTag
    BY <1>3 DEF IInv, HandleInv, Typed, TypeOK
  <2>3. HandleInv'
    BY <1>0, <1>5, <2>2 DEF IInv, HandleInv, IsBulk
  <2>4. QED
    BY <1>0, <2>1, <2>3, ReturnKnowsNothing, Exclusive DEF Locked
<1>6. QED
  BY <1>4, <1>5 DEF EngineDelete

-----------------------------------------------------------------------------
(* Session teardown                                                         *)

\* delete_session_keys, complete or not: the engine forgets the sessions of E,
\* and the handles of some of their keys go, together with their slots.
LEMMA Purge ==
    ASSUME IInv, NEW E, NEW gone \in SUBSET BulkOf(E),
           engine' = EngineWithout(E), vault' = Drop(gone), fpBits' = fpBits \ FpOf(gone),
           slot' = slot
    PROVE  HandleInv' /\ EngineInv'
<1>1. \A i \in gone : i \in Ids /\ IsBulk(i) /\ vault[i].sess \in E
  BY DEF BulkOf, IsBulk
<1>2. \A i \in Ids : IsBulk(i)' => IsBulk(i) /\ vault'[i] = vault[i] /\ i \notin gone
  BY DropOnlyLoses DEF OnlyLoses, IsBulk
<1>3. \A f \in FpSlots : \/ engine'[f] = engine[f]
                         \/ engine'[f].tag = NoTag
  BY DEF EngineWithout, NoEngineKey
<1>4. \A f \in FpSlots : engine'[f].tag # NoTag => engine'[f] = engine[f] /\ engine[f].sess \notin E
  BY DEF EngineWithout, NoEngineKey
<1>5. \A i \in Ids : IsBulk(i)' => vault[i].fp \in fpBits'
  <2> SUFFICES ASSUME NEW i \in Ids, IsBulk(i)', vault[i].fp \in FpOf(gone)
               PROVE  FALSE
    BY <1>2 DEF IInv, HandleInv
  <2>1. PICK j \in gone : vault[j].fp = vault[i].fp
    BY DEF FpOf
  <2>2. j = i
    BY <1>1, <1>2, <2>1 DEF IInv, HandleInv
  <2>3. QED
    BY <1>2, <2>1, <2>2
<1>6. HandleInv'
  <2>1. \A i \in Ids : IsBulk(i) => vault[i].fp \in FpSlots
    BY DEF IInv, HandleInv, Typed, TypeOK
  <2>2. QED
    BY <1>2, <1>3, <1>5, <2>1 DEF IInv, HandleInv
<1>7. EngineInv'
  <2> SUFFICES ASSUME NEW f \in FpSlots, engine'[f].tag # NoTag
               PROVE  /\ f \in fpBits' /\ slot[engine'[f].sess].st = "active"
                      /\ slot[engine'[f].sess].life = engine'[f].life
    BY DEF EngineInv
  <2>1. engine'[f] = engine[f] /\ engine[f].sess \notin E
    BY <1>4
  <2>2. /\ f \in fpBits /\ slot[engine[f].sess].st = "active"
        /\ slot[engine[f].sess].life = engine[f].life
    BY <2>1 DEF IInv, EngineInv
  <2>3. f \notin FpOf(gone)
    <3> SUFFICES ASSUME NEW j \in gone, vault[j].fp = f PROVE FALSE
      BY DEF FpOf
    <3>1. engine[f].sess = vault[j].sess
      BY <1>1, <2>1 DEF IInv, HandleInv
    <3>2. QED
      BY <1>1, <2>1, <3>1
  <2>4. QED
    BY <2>1, <2>2, <2>3
<1>8. QED
  BY <1>6, <1>7

\* The engine confirmed the deletion of a session's keys.
LEMMA KeysGoneKeeps ==
    ASSUME IInv, NEW S, KeysGone(S), slot' = slot
    PROVE  HandleInv' /\ EngineInv'
BY Purge DEF KeysGone

\* The engine's deletion failed or went unconfirmed.
LEMMA KeysStayKeeps ==
    ASSUME IInv, NEW S, NEW s, KeysStay(S, s), slot' = slot
    PROVE  HandleInv' /\ EngineInv'
<1>0. BulkOf(S) \subseteq BulkOf(S \cup {s}) /\ BulkOf({s}) \subseteq BulkOf(S \cup {s})
  BY DEF BulkOf
<1>1. CASE /\ engine' = EngineWithout(S)
           /\ vault' = Drop(BulkOf(S)) /\ fpBits' = fpBits \ FpOf(BulkOf(S))
  BY <1>1, Purge
<1>2. CASE /\ engine' = EngineWithout(S \cup {s})
           /\ vault' = Drop(BulkOf(S)) /\ fpBits' = fpBits \ FpOf(BulkOf(S))
  BY <1>0, <1>2, Purge
<1>3. CASE /\ engine' = EngineWithout(S \cup {s})
           /\ \E some \in SUBSET BulkOf({s}) :
                /\ vault' = Drop(BulkOf(S) \cup some)
                /\ fpBits' = fpBits \ FpOf(BulkOf(S) \cup some)
  <2>1. PICK some \in SUBSET BulkOf({s}) :
                /\ vault' = Drop(BulkOf(S) \cup some)
                /\ fpBits' = fpBits \ FpOf(BulkOf(S) \cup some)
    BY <1>3
  <2>2. BulkOf(S) \cup some \in SUBSET BulkOf(S \cup {s})
    BY <1>0
  <2>3. QED
    BY <1>3, <2>1, <2>2, Purge
<1>4. QED
  BY <1>1, <1>2, <1>3 DEF KeysStay

\* Once the keys are gone, session_destroy knows that none is left.
LEMMA DeleteSessionKeysStep ==
    ASSUME IInv, NEW t \in Tasks, DeleteSessionKeys(t)
    PROVE  IInv'
<1> DEFINE s == task[t].sess
<1>0. Step(t) /\ task[t].pc \in Locked /\ slot' = slot
  BY DEF Step, DeleteSessionKeys, At, Locked
<1>1. CASE KeysStay({}, s) /\ Return(t)
  <2>1. HandleInv' /\ EngineInv'
    BY <1>0, <1>1, KeysStayKeeps
  <2>2. QED
    BY <1>0, <1>1, <2>1, ReturnKnowsNothing, Exclusive
<1>2. ASSUME NEW pc \in {"blob", "reblob"}, KeysGone({s}), Goto(t, pc)
      PROVE  IInv'
  <2>1. HandleInv' /\ EngineInv'
    BY <1>0, <1>2, KeysGoneKeeps
  <2>2. task'[t].pc = pc /\ task'[t].sess = s
    <3>1. task \in [Tasks -> Records] /\ pc \in Pcs
      BY DEF IInv, Typed, TypeOK, Records, Pcs, Locked
    <3>2. QED
      BY <1>2, <3>1, AfterGoto
  <2>3. \A i \in Ids : IsBulk(i)' => vault'[i].sess # s
    <3>1. vault' = Drop(BulkOf({s}))
      BY <1>2 DEF KeysGone
    <3>2. QED
      BY <3>1, DropOnlyLoses DEF OnlyLoses, IsBulk, BulkOf
  <2>4. \A f \in FpSlots : engine'[f].tag # NoTag => engine'[f].sess # s
    BY <1>2 DEF KeysGone, EngineWithout, NoEngineKey
  <2>5. CloseOf(t)'
    BY <2>2, <2>3, <2>4 DEF CloseOf
  <2>6. CreateOf(t)' /\ DeleteOf(t)'
    BY <2>2 DEF CreateOf, DeleteOf
  <2>7. QED
    BY <1>0, <2>1, <2>2, <2>5, <2>6, Exclusive
<1>3. QED
  BY <1>1, <1>2 DEF DeleteSessionKeys, SessionKeys

\* Deleting the old blob changes nothing of that.
LEMMA DeleteOldBlobStep ==
    ASSUME IInv, NEW t \in Tasks, DeleteOldBlob(t)
    PROVE  IInv'
<1>0. /\ Step(t) /\ task[t].pc \in {"blob", "reblob"}
      /\ slot' = slot /\ engine' = engine /\ fpBits' = fpBits
  BY DEF Step, DeleteOldBlob, At
<1>1. Typed' /\ OneLockHolder' /\ Others(t)
  BY <1>0, StepTyped, StepShape, LockStep DEF IInv, Shape
<1>2. OnlyLoses
  <2>1. vault' = vault \/ \E S : vault' = Drop(S)
    BY DEF DeleteOldBlob, OldBlob
  <2>2. QED
    BY <2>1, DropOnlyLoses DEF OnlyLoses
<1>3. SlotsKeep
  BY <1>0 DEF SlotsKeep
<1>4. task \in [Tasks -> Records] /\ {"slot", "restage"} \subseteq Pcs
  BY DEF IInv, Typed, TypeOK, Records, Pcs, Locked
<1>5. CASE Return(t)
  BY <1>0, <1>1, <1>2, <1>3, <1>5, Harmless, ReturnKnowsNothing
<1>6. CASE Goto(t, "restage")
  <2>1. task'[t].pc \notin Critical
    BY <1>4, <1>6, AfterGoto DEF Critical
  <2>2. QED
    BY <1>0, <1>1, <1>2, <1>3, <2>1, Harmless
<1>7. CASE task[t].pc = "blob" /\ Goto(t, "slot")
  <2>1. task'[t].pc = "slot" /\ task'[t].sess = task[t].sess
    BY <1>4, <1>7, AfterGoto
  <2>2. \A i \in Ids : IsBulk(i)' => IsBulk(i) /\ vault'[i] = vault[i]
    BY <1>2 DEF OnlyLoses, IsBulk
  <2>3. HandleInv' /\ EngineInv'
    BY <1>0, <2>2 DEF IInv, HandleInv, EngineInv
  <2>4. CloseOf(t)'
    BY <1>0, <1>7, <2>1, <2>2 DEF CloseOf, IInv, CloseInv
  <2>5. CreateOf(t)' /\ DeleteOf(t)'
    BY <2>1 DEF CreateOf, DeleteOf
  <2>6. QED
    BY <1>0, <2>1, <2>3, <2>4, <2>5, Exclusive DEF Locked
<1>8. QED
  BY <1>5, <1>6, <1>7 DEF DeleteOldBlob, OldBlob, At

\* The slot is freed after the last key of its session.
LEMMA CloseSlotStep ==
    ASSUME IInv, NEW t \in Tasks, CloseSlot(t)
    PROVE  IInv'
<1> DEFINE s == task[t].sess
<1>0. /\ Step(t) /\ task[t].pc = "slot" /\ Return(t)
      /\ vault' = vault /\ engine' = engine /\ fpBits' = fpBits
      /\ slot' = [slot EXCEPT ![s] = FreeSlot]
  BY DEF Step, CloseSlot, At
<1>1. /\ slot \in [Slots -> SlotRecs] /\ s \in Slots /\ FreeSlot.st = "free"
      /\ \A i \in Ids : vault[i].sess \in Slots
      /\ \A f \in FpSlots : engine[f].sess \in Slots
  BY <1>0 DEF IInv, Typed, TypeOK, FieldsOK, SlotRecs, FreeSlot
<1>2. \A r \in Slots : slot'[r] = slot[r] \/ (r = s /\ slot'[r].st = "free")
  BY <1>0, <1>1
<1>3. /\ \A i \in Ids : IsBulk(i) => vault[i].sess # s
      /\ \A f \in FpSlots : engine[f].tag # NoTag => engine[f].sess # s
  BY <1>0 DEF IInv, CloseInv
<1>4. HandleInv'
  BY <1>0, <1>1, <1>2, <1>3 DEF IInv, HandleInv, IsBulk
<1>5. EngineInv'
  BY <1>0, <1>1, <1>2, <1>3 DEF IInv, EngineInv
<1>6. \A r \in Slots : slot'[r].st = "renego" => slot[r].st = "renego"
  BY <1>2
<1>7. QED
  BY <1>0, <1>4, <1>5, <1>6, ReturnKnowsNothing, Exclusive DEF Locked

\* With no command in flight nothing is known of any task.
LEMMA QuietKeeps ==
    ASSUME IInv, Quiet, task' = task, Typed', HandleInv', EngineInv'
    PROVE  IInv'
<1>1. \A t \in Tasks : task'[t].pc = "idle"
  BY DEF Quiet, At
<1>2. OneLockHolder'
  BY <1>1 DEF OneLockHolder, Locked
<1>3. CreateInv' /\ DeleteInv' /\ CloseInv' /\ WaitInv'
  BY <1>1 DEF CreateInv, DeleteInv, CloseInv, WaitInv
<1>4. QED
  BY <1>2, <1>3 DEF IInv

\* Resets of the partition.
LEMMA LifecycleStep ==
    ASSUME IInv, Disable \/ DisableFails \/ Clear
    PROVE  IInv'
<1>1. Typed'
  BY NextTyped DEF IInv, Next
<1>2. CASE DisableFails
  BY <1>1, <1>2, KeysStayKeeps, QuietKeeps DEF DisableFails
<1>3. CASE Clear
  <2>1. \A i \in Ids : ~ IsBulk(i)'
    BY <1>3 DEF Clear, IsBulk, FreeEntry
  <2>2. \A f \in FpSlots : engine'[f].tag = NoTag
    BY <1>3 DEF Clear, NoEngineKey
  <2>3. HandleInv' /\ EngineInv'
    BY <2>1, <2>2 DEF HandleInv, EngineInv
  <2>4. QED
    BY <1>1, <1>3, <2>3, QuietKeeps DEF Clear
<1>4. CASE Disable
  <2>1. \A i \in Ids : IsBulk(i) => vault[i].sess \in Mapped
    BY DEF IInv, HandleInv, Mapped, Typed, TypeOK
  <2>2. \A f \in FpSlots : engine[f].tag # NoTag => engine[f].sess \in Mapped
    BY DEF IInv, EngineInv, Mapped, Typed, TypeOK
  <2>3. \A i \in Ids : ~ IsBulk(i)'
    <3>1. vault' = Drop(BulkOf(Mapped) \cup {slot[s].phys : s \in Mapped})
      BY <1>4 DEF Disable
    <3>2. \A i \in Ids : IsBulk(i)' => IsBulk(i) /\ i \notin BulkOf(Mapped)
      BY <3>1, DropOnlyLoses DEF OnlyLoses, IsBulk
    <3>3. QED
      BY <2>1, <3>2 DEF BulkOf, IsBulk
  <2>4. \A f \in FpSlots : engine'[f].tag = NoTag
    BY <1>4, <2>2 DEF Disable, EngineWithout, NoEngineKey
  <2>5. HandleInv' /\ EngineInv'
    BY <2>3, <2>4 DEF HandleInv, EngineInv
  <2>6. QED
    BY <1>1, <1>4, <2>5, QuietKeeps DEF Disable
<1>5. QED
  BY <1>2, <1>3, <1>4

-----------------------------------------------------------------------------
(* The theorems                                                             *)

\* An empty device.
LEMMA InitIInv == Init => IInv
<1> SUFFICES ASSUME Init PROVE IInv
  OBVIOUS
<1>1. \A t \in Tasks : task[t].pc = "idle" /\ task[t].sess = 0
  BY DEF Init, Idle
<1>2. \A i \in Ids : ~ IsBulk(i)
  BY DEF Init, IsBulk, FreeEntry
<1>3. \A f \in FpSlots : engine[f].tag = NoTag
  BY DEF Init, NoEngineKey
<1>4. TypeOK
  <2>1. /\ task \in [Tasks -> Records] /\ vault \in [Ids -> Entries]
        /\ slot \in [Slots -> SlotRecs] /\ engine \in [FpSlots -> [tag : Nat, sess : Slots, life : Nat]]
    BY ConstantTypes DEF Init
  <2>2. fpBits \subseteq FpSlots /\ made \in 0 .. MaxCommands /\ faults \in 0 .. MaxFaults
    BY ConstantsAssumption DEF Init
  <2>3. QED
    BY <2>1, <2>2 DEF TypeOK, Records, Entries, SlotRecs
<1>5. FieldsOK
  BY <1>1, ConstantTypes DEF FieldsOK
<1>6. OneLockHolder
  BY <1>1 DEF OneLockHolder, Locked
<1>7. QED
  BY <1>1, <1>2, <1>3, <1>4, <1>5, <1>6 DEF IInv, Typed, HandleInv, EngineInv, CreateInv,
     DeleteInv, CloseInv, WaitInv

\* Every step keeps IInv.
LEMMA NextIInv == IInv /\ [Next]_vars => IInv'
<1> SUFFICES ASSUME IInv, [Next]_vars PROVE IInv'
  OBVIOUS
<1>1. CASE UNCHANGED vars
  BY <1>1 DEF vars, IInv, Typed, TypeOK, FieldsOK, OneLockHolder, HandleInv, EngineInv, CreateInv,
     DeleteInv, CloseInv, WaitInv, IsBulk
<1>2. ASSUME NEW t \in Tasks, Step(t) PROVE IInv'
  BY <1>2, HarmlessSteps, BulkAllocStep, BulkSendStep, BulkHandleStep, BulkUnsendStep, DeleteStep,
     EngineDeleteStep, DeleteSessionKeysStep, DeleteOldBlobStep, CloseSlotStep DEF Step
<1>3. QED
  BY <1>1, <1>2, StartStep, LifecycleStep DEF Next

\* IInv is an invariant.
LEMMA AlwaysIInv == Spec => []IInv
BY InitIInv, NextIInv, PTL DEF Spec

\* The session table, the vault, the engine's slots and the tasks stay well
\* typed.
THEOREM UnoTyped == Spec => []TypeOK
<1>1. IInv => TypeOK
  BY DEF IInv, Typed
<1>2. QED
  BY AlwaysIInv, <1>1, PTL

\* No interleaving and no failed message makes a vault handle name another
\* bulk key (delete_session_keys: slots are freed after the vault entries).
THEOREM NoAliasing == Spec => []HandlesNameTheirKey
<1>1. IInv => HandlesNameTheirKey
  BY DEF IInv, HandleInv, HandlesNameTheirKey, IsBulk
<1>2. QED
  BY AlwaysIInv, <1>1, PTL

\* A slot of the engine that may hold a key is never handed out again
\* (fp_bulk_create and vault_key_delete free it only on confirmation).
THEOREM SlotsReserved == Spec => []EngineKeysReserved
<1>1. IInv => EngineKeysReserved
  BY DEF IInv, EngineInv, EngineKeysReserved
<1>2. QED
  BY AlwaysIInv, <1>1, PTL

\* Every bulk key belongs to the very session it was registered in under
\* fp_bulk_lock, and that session still stands: none outlives it or passes to the
\* next session of its id, whatever creates and deletes race with the teardown
\* (session_destroy holds fp_bulk_lock to the end).
THEOREM TeardownComplete == Spec => []BulkKeysHaveSession
<1>1. IInv => BulkKeysHaveSession
  BY DEF IInv, HandleInv, EngineInv, BulkKeysHaveSession, IsBulk
<1>2. QED
  BY AlwaysIInv, <1>1, PTL
=============================================================================
