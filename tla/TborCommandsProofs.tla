------------------------- MODULE TborCommandsProofs -------------------------
(* Theorems about TborCommands, for every set of IO slots, vault slots,    *)
(* sessions and PSKs and every number of commands and transport failures.  *)
EXTENDS TborCommands, TLAPS, SequenceTheorems

\* The handler returned Ok and its response has not been lost so far.
Succeeded(c) == /\ c.res = "ok"
                /\ \/ c.pc = "outbound"
                   \/ c.pc = "complete" /\ c.handlerOk

(* What a task's locals hold at each await point. *)
Control(c) ==
    /\ c.pc = "inbound" => c.staged = <<>> /\ c.log = <<>>
    /\ c.pc \in {"claim", "vaultSd"} => c.op = "SdCreate" /\ c.staged = <<>>
    /\ c.pc = "validate" => c.op = "PartFinal" /\ c.staged = <<>>
    /\ c.pc = "open" => c.op = "PskChange"
    /\ c.pc = "stage" => /\ c.op \in {"PartInit", "PartFinal", "UnwrapKey"}
                         /\ Len(c.staged) < StagedKeys(c.op)
    /\ c.pc = "commit" => /\ c.op \in {"PartInit", "PartFinal"}
                          /\ Len(c.staged) = StagedKeys(c.op)
    /\ c.pc = "mask" => c.op = "UnwrapKey" /\ Len(c.staged) = 1
    /\ c.pc \in {"stage", "commit"} /\ c.op = "PartFinal" => c.ums \in KeyId
    /\ c.pc \in {"inbound", "open"} /\ c.op = "PskChange" => c.psk \in Psk
    /\ Succeeded(c) =>
          /\ c.op = "PartInit" => Len(c.staged) = 2
          /\ c.op = "PartFinal" => Len(c.staged) = 3
          /\ c.op = "SdCreate" => Len(c.staged) = 1

ControlOK == \A i \in Io : Control(cmd[i])

TypeInv == TypeOK /\ ControlOK

-----------------------------------------------------------------------------
LEMMA IdleType == IdleCommand \in Command
BY ConstantsOK DEF IdleCommand, Command, PC, OpName, Sess

LEMMA IdleControl == Control(IdleCommand)
<1>1. IdleCommand.pc = "idle"
  BY DEF IdleCommand
<1> QED BY <1>1 DEF Control, Succeeded

LEMMA FailedType ==
    ASSUME NEW c \in Command PROVE Failed(c) \in Command
BY IdleType DEF Failed, IdleCommand, Command, PC

LEMMA PropValues ==
    /\ \A p \in KeyProp : p \in PropId /\ PropValue(p) = KeyId \cup {Absent}
    /\ \A p \in FlagProp : p \in PropId /\ PropValue(p) = {Absent, Present}
    /\ \A p \in PskProp : p \in PropId /\ PropValue(p) = Psk \cup {DefaultPsk}
    /\ "STATE" \in PropId /\ PropValue("STATE") = PartState
    /\ \A p \in PropId : PropValue(p) \subseteq Value
BY DEF PropValue, PropId, KeyProp, FlagProp, PskProp, Value

LEMMA EntryTypes ==
    /\ \A k \in KeyId : VaultCreate(k) \in Entry /\ VaultDisable(k) \in Entry
    /\ \A p \in PropId : \A v \in PropValue(p) : PropRestore(p, v) \in Entry
BY PropValues DEF Entry, VaultCreate, VaultDisable, PropRestore, Value

LEMMA InverseTypes ==
    /\ InitInverses \in Seq(Entry)
    /\ \A u \in KeyId : FinalInverses(u) \in Seq(Entry)
    /\ \A k \in KeyId : SdInverses(k) \in Seq(Entry)
<1>1. /\ PropRestore("PTA_KEY_ID", Absent) \in Entry
      /\ PropRestore("UPS_KEY_ID", Absent) \in Entry
      /\ PropRestore("POLICY_HASH", Absent) \in Entry
      /\ PropRestore("LOCAL_MK_KEY_ID", Absent) \in Entry
      /\ PropRestore("EPHEMERAL_MK_KEY_ID", Absent) \in Entry
      /\ PropRestore("SD_MK_KEY_ID", Absent) \in Entry
      /\ PropRestore("SD_INITIALIZED", Absent) \in Entry
      /\ PropRestore("STATE", "Enabled") \in Entry
      /\ PropRestore("STATE", "Initializing") \in Entry
  BY EntryTypes, PropValues DEF KeyProp, FlagProp, PartState
<1>2. ASSUME NEW u \in KeyId
      PROVE /\ PropRestore("UPS_KEY_ID", u) \in Entry
            /\ VaultDisable(u) \in Entry /\ VaultCreate(u) \in Entry
  BY EntryTypes, PropValues DEF KeyProp
<1>3. ASSUME NEW u \in KeyId PROVE FinalInverses(u) \in Seq(Entry)
  BY <1>1, <1>2 DEF FinalInverses
<1>4. ASSUME NEW k \in KeyId PROVE SdInverses(k) \in Seq(Entry)
  BY <1>1, <1>2 DEF SdInverses
<1> QED BY <1>1, <1>3, <1>4 DEF InitInverses

-----------------------------------------------------------------------------
LEMMA TypeInit == Init => TypeInv
<1> SUFFICES ASSUME Init PROVE TypeInv
  OBVIOUS
<1>1. cmd \in [Io -> Command] /\ ControlOK
  <2>1. cmd = [i \in Io |-> IdleCommand]
    BY DEF Init
  <2> QED BY <2>1, IdleType, IdleControl DEF ControlOK
<1>2. /\ DOMAIN prop = PropId /\ \A p \in PropId : prop[p] \in PropValue(p)
      /\ vault \in [KeyId -> {"free", "live", "disabled"}]
  <2>1. PartitionInit
    BY DEF Init
  <2>2. CASE "fresh" \in Starts /\ prop = FreshProps(DefaultPsk) /\ vault = [k \in KeyId |-> "free"]
    BY <2>2, PropValues DEF FreshProps, PropId, PskProp, KeyProp, FlagProp, PartState
  <2>3. CASE /\ \E v \in Psk : prop = FreshProps(v)
             /\ vault = [k \in KeyId |-> "free"]
    <3>1. PICK v \in Psk : prop = FreshProps(v)
      BY <2>3
    <3> QED BY <2>3, <3>1, PropValues
      DEF FreshProps, PropId, PskProp, KeyProp, FlagProp, PartState
  <2>4. CASE /\ "provisioned" \in Starts
             /\ \E v \in Psk : prop = ProvisionedProps(v)
             /\ vault = [k \in KeyId |->
                  IF \E p \in PartKeyProp : ProvisionedKeys[p] = k
                  THEN "live" ELSE "free"]
    <3>1. ProvisionedKeys \in [PartKeyProp -> KeyId]
      BY <2>4, ProvisionedOK DEF ProvisionedKeys, KeyChoice
    <3> QED BY <2>4, <3>1, PropValues
      DEF ProvisionedProps, PartKeyProp, PropId, PskProp, KeyProp, FlagProp, PartState
  <2> QED BY <2>1, <2>2, <2>3, <2>4 DEF PartitionInit
<1>3. pskUsed \subseteq Sess /\ turn \in Io \cup {NoIo} /\ tainted \in BOOLEAN
  BY Zenon DEF Init
<1>4. issued \in 0 .. MaxCommands /\ lost \in 0 .. MaxLost
  <2>1. issued = 0 /\ lost = 0
    BY DEF Init
  <2> QED BY <2>1, ConstantsOK
<1> QED BY <1>1, <1>2, <1>3, <1>4 DEF TypeInv, TypeOK

\* One task's record is replaced by a well-formed one.
LEMMA CmdUpdate ==
    ASSUME TypeInv, NEW i \in Io, NEW c \in Command, Control(c),
           cmd' = [cmd EXCEPT ![i] = c]
    PROVE  cmd' \in [Io -> Command] /\ ControlOK'
BY DEF TypeInv, TypeOK, ControlOK

LEMMA FailedControl ==
    ASSUME NEW c PROVE Control(Failed(c))
BY DEF Control, Succeeded, Failed, IdleCommand

\* The facts about one task that TypeInv gives.
LEMMA TaskType ==
    ASSUME TypeInv, NEW i \in Io
    PROVE  cmd[i] \in Command /\ Control(cmd[i])
BY DEF TypeInv, TypeOK, ControlOK

\* Part of the type invariant: everything but the tasks' records.
RestOK ==
    /\ DOMAIN prop = PropId
    /\ \A p \in PropId : prop[p] \in PropValue(p)
    /\ vault \in [KeyId -> {"free", "live", "disabled"}]
    /\ pskUsed \subseteq Sess
    /\ turn \in Io \cup {NoIo}
    /\ issued \in 0 .. MaxCommands
    /\ lost \in 0 .. MaxLost
    /\ tainted \in BOOLEAN

LEMMA TypeParts ==
    /\ TypeInv <=> RestOK /\ cmd \in [Io -> Command] /\ ControlOK
    /\ TypeInv' <=> RestOK' /\ cmd' \in [Io -> Command] /\ ControlOK'
<1>1. TypeInv <=> RestOK /\ cmd \in [Io -> Command] /\ ControlOK
  BY Zenon DEF TypeInv, TypeOK, RestOK
<1>2. TypeInv' <=> RestOK' /\ cmd' \in [Io -> Command] /\ ControlOK'
  BY Zenon DEF TypeInv, TypeOK, RestOK
<1> QED BY <1>1, <1>2

\* Handling of a command up to its first await.
LEMMA TypeArrive ==
    ASSUME TypeInv, NEW i \in Io, Arrive(i) PROVE TypeInv'
<1>1. PICK o \in Ops, s \in Sess : \E v \in Payload(o) : Submit(i, o, s, v)
  BY DEF Arrive
<1>2. PICK v \in Payload(o) : Submit(i, o, s, v)
  BY <1>1
<1> DEFINE c == [IdleCommand EXCEPT !.pc = "inbound", !.op = o, !.sess = s, !.psk = v]
<1>3. v \in Psk \cup {Absent} /\ (o = "PskChange" => v \in Psk)
  BY DEF Payload
<1>4. o \in OpName
  BY ConstantsOK
<1>5. c \in Command
  BY <1>3, <1>4, IdleType DEF Command, PC, IdleCommand
<1>6. Control(c)
  BY <1>3 DEF Control, Succeeded, IdleCommand
<1>7. cmd' \in [Io -> Command] /\ ControlOK'
  <2>1. cmd' = [cmd EXCEPT ![i] = c]
    BY <1>2 DEF Submit
  <2> QED BY <2>1, <1>5, <1>6, CmdUpdate
<1>8. RestOK'
  <2>1. issued \in 0 .. MaxCommands /\ issued < MaxCommands /\ issued' = issued + 1
    BY <1>2, TypeParts DEF Submit, RestOK
  <2>2. issued' \in 0 .. MaxCommands
    BY <2>1, ConstantsOK
  <2>3. UNCHANGED <<prop, vault, pskUsed, turn, lost, tainted>>
    BY <1>2 DEF Submit
  <2> QED BY <2>2, <2>3, TypeParts, Zenon DEF RestOK
<1> QED BY <1>7, <1>8, TypeParts

\* The task fails, and nothing but its record changes.
LEMMA TypeFailed ==
    ASSUME TypeInv, NEW i \in Io, NEW c \in Command,
           cmd' = [cmd EXCEPT ![i] = Failed(c)]
    PROVE  cmd' \in [Io -> Command] /\ ControlOK'
<1>1. Failed(c) \in Command
  BY FailedType
<1>2. Control(Failed(c))
  BY FailedControl
<1> HIDE DEF Failed
<1> QED BY <1>1, <1>2, CmdUpdate

\* The actions that change only the task's own record.
LEMMA TypeLocal ==
    ASSUME TypeInv, NEW i \in Io,
           \/ InboundFail(i) \/ HandlerError(i) \/ Reject(i)
           \/ Dispatch(i) \/ ReadUms(i) \/ OutboundOk(i)
    PROVE  TypeInv'
<1> DEFINE c == cmd[i]
<1>1. c \in Command /\ Control(c) /\ cmd \in [Io -> Command]
  BY TaskType, TypeParts
<1>2. UNCHANGED <<prop, vault, pskUsed, turn, issued, lost, tainted>>
  BY DEF InboundFail, HandlerError, Reject, Dispatch, ReadUms, OutboundOk,
         part, bounds, history
<1>3. RestOK'
  BY <1>2, TypeParts, Zenon DEF RestOK
<1>4. CASE InboundFail(i)
  <2> DEFINE d == [c EXCEPT !.pc = "complete", !.handlerOk = FALSE]
  <2>1. cmd' = [cmd EXCEPT ![i] = d]
    BY <1>4, <1>1 DEF InboundFail
  <2>2. d \in Command
    BY <1>1 DEF Command, PC
  <2>3. Control(d)
    BY <1>1, <1>4 DEF Control, Succeeded, InboundFail, Command
  <2> QED BY <2>1, <2>2, <2>3, <1>3, CmdUpdate, TypeParts
<1>5. CASE HandlerError(i) \/ Reject(i)
  <2>1. cmd' = [cmd EXCEPT ![i] = Failed(c)]
    BY <1>5 DEF HandlerError, Reject
  <2> QED BY <2>1, <1>1, <1>3, TypeFailed, TypeParts
<1>6. CASE Dispatch(i)
  <2> DEFINE d == [c EXCEPT !.pc = FirstPc(c.op)]
  <2>1. cmd' = [cmd EXCEPT ![i] = d]
    BY <1>6, <1>1 DEF Dispatch
  <2>2. d \in Command
    BY <1>1 DEF Command, PC, FirstPc
  <2>3. Control(d)
    <3>1. c.pc = "inbound" /\ c.op # "PskChange" /\ c.staged = <<>> /\ c.op \in OpName
      BY <1>1, <1>6 DEF Control, Succeeded, Dispatch, Command
    <3>2. d.op = c.op /\ d.staged = <<>> /\ d.pc = FirstPc(c.op)
      BY <1>1, <3>1 DEF Command
    <3>3. CASE c.op = "PartFinal"
      BY <3>1, <3>2, <3>3 DEF Control, Succeeded, FirstPc
    <3>4. CASE c.op = "SdCreate"
      BY <3>1, <3>2, <3>4 DEF Control, Succeeded, FirstPc
    <3>5. CASE c.op \in {"PartInit", "UnwrapKey"}
      <4>1. d.pc = "stage"
        BY <3>2, <3>5 DEF FirstPc
      <4>2. Len(d.staged) < StagedKeys(d.op)
        BY <3>2, <3>5 DEF StagedKeys
      <4> HIDE DEF d
      <4> QED BY <4>1, <4>2, <3>2, <3>5 DEF Control, Succeeded
    <3> QED BY <3>1, <3>3, <3>4, <3>5 DEF OpName
  <2> QED BY <2>1, <2>2, <2>3, <1>3, CmdUpdate, TypeParts
<1>7. CASE ReadUms(i)
  <2> DEFINE d == [c EXCEPT !.pc = "stage", !.ums = prop["UPS_KEY_ID"]]
  <2>1. cmd' = [cmd EXCEPT ![i] = d]
    BY <1>7, <1>1 DEF ReadUms
  <2>2. prop["UPS_KEY_ID"] \in KeyId
    BY <1>7, TypeParts, PropValues DEF ReadUms, RestOK, KeyProp
  <2>3. d \in Command
    BY <1>1, <2>2 DEF Command, PC
  <2>4. Control(d)
    BY <1>1, <1>7, <2>2 DEF Control, Succeeded, ReadUms, Command, StagedKeys
  <2> QED BY <2>1, <2>3, <2>4, <1>3, CmdUpdate, TypeParts
<1>8. CASE OutboundOk(i)
  <2> DEFINE d == [c EXCEPT !.pc = "complete", !.handlerOk = TRUE]
  <2>1. cmd' = [cmd EXCEPT ![i] = d]
    BY <1>8, <1>1 DEF OutboundOk
  <2>2. d \in Command
    BY <1>1 DEF Command, PC
  <2>3. d.pc = "complete" /\ d.res = c.res /\ d.op = c.op /\ d.staged = c.staged
    BY <1>1 DEF Command
  <2>4. c.pc = "outbound"
    BY <1>8 DEF OutboundOk
  <2>5. Control(d)
    <3>1. c.res = "ok" => Succeeded(c)
      BY <2>4 DEF Succeeded
    <3>2. c.res = "ok" => /\ c.op = "PartInit" => Len(c.staged) = 2
                          /\ c.op = "PartFinal" => Len(c.staged) = 3
                          /\ c.op = "SdCreate" => Len(c.staged) = 1
      BY <1>1, <3>1 DEF Control
    <3> HIDE DEF d
    <3> QED BY <2>3, <3>2 DEF Control, Succeeded
  <2> QED BY <2>1, <2>2, <2>5, <1>3, CmdUpdate, TypeParts
<1> QED BY <1>4, <1>5, <1>6, <1>7, <1>8

LEMMA TypeOutboundFail ==
    ASSUME TypeInv, NEW i \in Io, OutboundFail(i)
    PROVE  TypeInv'
<1> DEFINE c == cmd[i]
           d == [c EXCEPT !.pc = "complete", !.handlerOk = FALSE]
<1>1. c \in Command /\ Control(c) /\ cmd \in [Io -> Command]
  BY TaskType, TypeParts
<1>2. cmd' = [cmd EXCEPT ![i] = d]
  BY <1>1 DEF OutboundFail
<1>3. d \in Command
  BY <1>1 DEF Command, PC
<1>4. Control(d)
  BY <1>1 DEF Control, Succeeded, OutboundFail, Command
<1>5. lost' \in 0 .. MaxLost
  BY TypeParts, ConstantsOK DEF RestOK, OutboundFail
<1>6. UNCHANGED <<prop, vault, pskUsed, turn, issued, tainted>>
  BY DEF OutboundFail, part, history
<1>7. RestOK'
  BY <1>5, <1>6, TypeParts, Zenon DEF RestOK
<1> QED BY <1>2, <1>3, <1>4, <1>7, CmdUpdate, TypeParts

\* Every way a handler can end leaves a well-formed record.
LEMMA TypeRespond ==
    ASSUME TypeInv, NEW i \in Io, NEW c \in Command, NEW ok \in BOOLEAN,
           ok /\ c.op = "PartInit" => Len(c.staged) = 2,
           ok /\ c.op = "PartFinal" => Len(c.staged) = 3,
           ok /\ c.op = "SdCreate" => Len(c.staged) = 1,
           Respond(i, ok, c)
    PROVE  cmd' \in [Io -> Command] /\ ControlOK'
<1>1. CASE ok /\ cmd' = [cmd EXCEPT ![i] = [c EXCEPT !.pc = "outbound"]]
  <2> DEFINE d == [c EXCEPT !.pc = "outbound"]
  <2>1. d \in Command
    BY DEF Command, PC
  <2>2. Control(d)
    BY <1>1 DEF Control, Succeeded, Command
  <2> QED BY <1>1, <2>1, <2>2, CmdUpdate
<1>2. CASE cmd' = [cmd EXCEPT ![i] = Failed(c)]
  BY <1>2, TypeFailed
<1> QED BY <1>1, <1>2 DEF Respond

\* PskProp and property values of a session's role.
LEMMA PskPropType == \A s : PskPropOf(s) \in PskProp
BY DEF PskPropOf, PskProp

LEMMA TypePsk ==
    ASSUME TypeInv, NEW i \in Io, PskReserve(i) \/ PskInstall(i)
    PROVE  TypeInv'
<1> DEFINE c == cmd[i]
           p == PskPropOf(c.sess)
<1>1. c \in Command /\ Control(c) /\ cmd \in [Io -> Command] /\ RestOK
  BY TaskType, TypeParts
<1>2. p \in PskProp /\ p \in PropId /\ PropValue(p) = Psk \cup {DefaultPsk}
  BY PskPropType, PropValues
<1>3. CASE PskReserve(i)
  <2> DEFINE d == [c EXCEPT !.pc = "open", !.log = Append(c.log, PropRestore(p, prop[p]))]
  <2>1. \/ cmd' = [cmd EXCEPT ![i] = d]
        \/ cmd' = [cmd EXCEPT ![i] = Failed(c)]
    BY <1>3, <1>1 DEF PskReserve
  <2>2. PropRestore(p, prop[p]) \in Entry
    BY <1>1, <1>2, EntryTypes DEF RestOK
  <2>3. d \in Command
    <3>1. Append(c.log, PropRestore(p, prop[p])) \in Seq(Entry)
      BY <1>1, <2>2 DEF Command
    <3> HIDE DEF p
    <3> QED BY <1>1, <3>1 DEF Command, PC
  <2>4. Control(d)
    <3>1. d.pc = "open" /\ d.op = "PskChange" /\ d.psk = c.psk /\ c.psk \in Psk
      BY <1>1, <1>3 DEF PskReserve, Command, Control
    <3> HIDE DEF d
    <3> QED BY <3>1 DEF Control, Succeeded
  <2>5. cmd' \in [Io -> Command] /\ ControlOK'
    <3>1. CASE cmd' = [cmd EXCEPT ![i] = d]
      BY <3>1, <2>3, <2>4, CmdUpdate
    <3>2. CASE cmd' = [cmd EXCEPT ![i] = Failed(c)]
      BY <3>2, <1>1, TypeFailed
    <3> QED BY <2>1, <3>1, <3>2
  <2>6. pskUsed' \subseteq Sess
    BY <1>1, <1>3 DEF PskReserve, RestOK, Command
  <2>7. UNCHANGED <<prop, vault, turn, issued, lost, tainted>>
    BY <1>3 DEF PskReserve, bounds, history
  <2>8. RestOK'
    BY <1>1, <2>6, <2>7, Zenon DEF RestOK
  <2> QED BY <2>5, <2>8, TypeParts
<1>4. CASE PskInstall(i)
  <2>1. cmd' \in [Io -> Command] /\ ControlOK'
    <3>1. c.op = "PskChange" /\ Serving \in BOOLEAN /\ Respond(i, Serving, c)
      BY <1>1, <1>4 DEF PskInstall, Control, Serving
    <3> QED BY <3>1, <1>1, TypeRespond
  <2>2. DOMAIN prop' = PropId /\ \A q \in PropId : prop'[q] \in PropValue(q)
    <3>1. c.psk \in Psk
      BY <1>1, <1>4 DEF PskInstall, Control
    <3>2. prop' = prop \/ prop' = [prop EXCEPT ![p] = c.psk]
      BY <1>4 DEF PskInstall
    <3> HIDE DEF p
    <3> QED BY <1>1, <1>2, <3>1, <3>2 DEF RestOK
  <2>3. UNCHANGED <<vault, pskUsed, turn, issued, lost, tainted>>
    BY <1>4 DEF PskInstall, bounds, history
  <2>4. RestOK'
    BY <1>1, <2>2, <2>3, Zenon DEF RestOK
  <2> QED BY <2>1, <2>4, TypeParts
<1> QED BY <1>3, <1>4

LEMMA FreeSlotType ==
    ~VaultFull => FreeSlot \in KeyId /\ vault[FreeSlot] = "free"
BY DEF VaultFull, FreeSlot

LEMMA TypeStage ==
    ASSUME TypeInv, NEW i \in Io, StageKey(i)
    PROVE  TypeInv'
<1> DEFINE c == cmd[i]
           k == FreeSlot
           n == IF Len(c.staged) + 1 < StagedKeys(c.op) THEN "stage"
                ELSE IF c.op = "UnwrapKey" THEN "mask" ELSE "commit"
           st == Append(c.staged, k)
           lg == Append(c.log, VaultCreate(k))
           d == [c EXCEPT !.staged = st, !.log = lg, !.pc = n]
<1>1. c \in Command /\ Control(c) /\ cmd \in [Io -> Command] /\ RestOK
  BY TaskType, TypeParts
<1>2. k \in KeyId /\ VaultCreate(k) \in Entry
  BY FreeSlotType, EntryTypes DEF StageKey
<1>3. cmd' = [cmd EXCEPT ![i] = d]
  BY <1>1 DEF StageKey
<1>4. st \in Seq(KeyId) /\ lg \in Seq(Entry) /\ Len(st) = Len(c.staged) + 1
      /\ Len(c.staged) \in Nat
  BY <1>1, <1>2 DEF Command
<1>5. d \in Command
  <2>1. n \in PC
    BY DEF PC
  <2> HIDE DEF st, lg, n
  <2> QED BY <1>1, <1>4, <2>1 DEF Command
<1>6. Control(d)
  <2>1. /\ c.pc = "stage" /\ Len(c.staged) < StagedKeys(c.op)
        /\ c.op \in {"PartInit", "PartFinal", "UnwrapKey"}
        /\ c.op = "PartFinal" => c.ums \in KeyId
    BY <1>1 DEF StageKey, Control
  <2>2. d.pc = n /\ d.op = c.op /\ d.staged = st /\ d.ums = c.ums
    BY <1>1 DEF Command
  <2>3. n = "stage" => Len(st) < StagedKeys(c.op)
    BY <1>4
  <2>4. n \in {"commit", "mask"} => Len(st) = StagedKeys(c.op)
    BY <1>4, <2>1 DEF StagedKeys
  <2>5. n = "commit" => c.op \in {"PartInit", "PartFinal"}
    BY <2>1
  <2>6. n = "mask" => c.op = "UnwrapKey" /\ StagedKeys(c.op) = 1
    BY DEF StagedKeys
  <2>7. n \in {"stage", "mask", "commit"}
    OBVIOUS
  <2> HIDE DEF d, n, st
  <2> QED BY <2>1, <2>2, <2>3, <2>4, <2>5, <2>6, <2>7 DEF Control, Succeeded
<1>7. vault' \in [KeyId -> {"free", "live", "disabled"}]
  BY <1>1, <1>2 DEF RestOK, StageKey
<1>8. UNCHANGED <<prop, pskUsed, turn, issued, lost, tainted>>
  BY DEF StageKey, bounds, history
<1>9. RestOK'
  BY <1>1, <1>7, <1>8, Zenon DEF RestOK
<1> HIDE DEF d
<1> QED BY <1>3, <1>5, <1>6, <1>9, CmdUpdate, TypeParts

LEMMA TypeUnwrap ==
    ASSUME TypeInv, NEW i \in Io, UnwrapDone(i)
    PROVE  TypeInv'
<1> DEFINE c == cmd[i]
           k == c.staged[1]
           d == [c EXCEPT !.pc = "outbound", !.log = <<>>]
<1>1. c \in Command /\ Control(c) /\ cmd \in [Io -> Command] /\ RestOK
  BY TaskType, TypeParts
<1>2. c.pc = "mask" /\ c.op = "UnwrapKey" /\ Len(c.staged) = 1
  BY <1>1 DEF UnwrapDone, Control
<1>3. k \in KeyId
  BY <1>1, <1>2 DEF Command
<1>4. \/ cmd' = [cmd EXCEPT ![i] = d] \/ cmd' = [cmd EXCEPT ![i] = Failed(c)]
  <2>1. CASE vault[k] # "free"
    <3>1. cmd' = [cmd EXCEPT ![i].pc = "outbound", ![i].log = <<>>]
      BY <2>1 DEF UnwrapDone
    <3> QED BY <1>1, <3>1
  <2>2. CASE vault[k] = "free"
    BY <2>2 DEF UnwrapDone
  <2> QED BY <2>1, <2>2
<1>5. d \in Command
  <2>1. <<>> \in Seq(Entry)
    OBVIOUS
  <2> QED BY <1>1, <2>1 DEF Command, PC
<1>6. Control(d)
  <2>1. d.pc = "outbound" /\ d.op = "UnwrapKey"
    BY <1>1, <1>2 DEF Command
  <2> HIDE DEF d
  <2> QED BY <2>1 DEF Control, Succeeded
<1>7. cmd' \in [Io -> Command] /\ ControlOK'
  <2>1. CASE cmd' = [cmd EXCEPT ![i] = d]
    BY <2>1, <1>5, <1>6, CmdUpdate
  <2>2. CASE cmd' = [cmd EXCEPT ![i] = Failed(c)]
    BY <2>2, <1>1, TypeFailed
  <2> QED BY <1>4, <2>1, <2>2
<1>8. vault' \in [KeyId -> {"free", "live", "disabled"}]
  BY <1>1, <1>3 DEF RestOK, UnwrapDone
<1>9. UNCHANGED <<prop, pskUsed, turn, issued, lost, tainted>>
  BY DEF UnwrapDone, bounds, history
<1>10. RestOK'
  BY <1>1, <1>8, <1>9, Zenon DEF RestOK
<1> QED BY <1>7, <1>10, TypeParts

\* Concatenating well-formed inverses keeps a record well-formed.
LEMMA LogType ==
    ASSUME NEW c \in Command, NEW l \in Seq(Entry)
    PROVE  /\ [c EXCEPT !.log = c.log \o l] \in Command
           /\ [c EXCEPT !.log = c.log \o l].op = c.op
           /\ [c EXCEPT !.log = c.log \o l].staged = c.staged
<1>1. c.log \o l \in Seq(Entry)
  BY DEF Command
<1> QED BY <1>1 DEF Command

LEMMA TypeCommitInit ==
    ASSUME TypeInv, NEW i \in Io, CommitInit(i)
    PROVE  TypeInv'
<1> DEFINE c == cmd[i]
           ups == prop["UPS_KEY_ID"] = Absent
           policy == ups /\ prop["POLICY_HASH"] = Absent
           legal == policy /\ prop["STATE"] \in {"Enabled", "Initializing"}
           d == [c EXCEPT !.log = c.log \o InitInverses]
<1>1. c \in Command /\ Control(c) /\ cmd \in [Io -> Command] /\ RestOK
  BY TaskType, TypeParts
<1>2. c.op = "PartInit" /\ Len(c.staged) = 2
  BY <1>1 DEF CommitInit, Control, StagedKeys
<1>3. c.staged[1] \in KeyId /\ c.staged[2] \in KeyId
  BY <1>1, <1>2 DEF Command
<1>4. d \in Command /\ d.op = c.op /\ d.staged = c.staged
  BY <1>1, InverseTypes, LogType
<1>5. UNCHANGED <<vault, pskUsed, turn, issued, lost, tainted>>
  BY DEF CommitInit, bounds, history
<1>6. CASE prop["PTA_KEY_ID"] # Absent
  <2>1. Respond(i, FALSE, c) /\ UNCHANGED prop
    BY <1>6 DEF CommitInit, AlreadyProvisioned
  <2>2. cmd' \in [Io -> Command] /\ ControlOK'
    BY <2>1, <1>1, TypeRespond
  <2>3. RestOK'
    BY <1>1, <1>5, <2>1, Zenon DEF RestOK
  <2> QED BY <2>2, <2>3, TypeParts
<1>7. CASE prop["PTA_KEY_ID"] = Absent
  <2>1. Respond(i, legal, d)
    BY <1>7, Zenon DEF CommitInit, AlreadyProvisioned
  <2>2. cmd' \in [Io -> Command] /\ ControlOK'
    <3> HIDE DEF legal, d
    <3>1. legal \in BOOLEAN
      BY DEF legal
    <3> QED BY <2>1, <3>1, <1>2, <1>4, TypeRespond
  <2>3. prop' = [prop EXCEPT
                    !["PTA_KEY_ID"]  = c.staged[2],
                    !["UPS_KEY_ID"]  = IF ups THEN c.staged[1] ELSE @,
                    !["POLICY_HASH"] = IF policy THEN Present ELSE @,
                    !["STATE"]       = IF legal THEN "Initializing" ELSE @]
    BY <1>7 DEF CommitInit, AlreadyProvisioned
  <2>4. DOMAIN prop' = PropId /\ \A p \in PropId : prop'[p] \in PropValue(p)
    <3> HIDE DEF c, ups, policy, legal
    <3> QED BY <1>1, <1>3, <2>3, PropValues DEF RestOK, KeyProp, FlagProp, PartState
  <2>5. RestOK'
    BY <1>1, <1>5, <2>4, Zenon DEF RestOK
  <2> QED BY <2>2, <2>5, TypeParts
<1> QED BY <1>6, <1>7

LEMMA TypeCommitFinal ==
    ASSUME TypeInv, NEW i \in Io, CommitFinal(i)
    PROVE  TypeInv'
<1> DEFINE c == cmd[i]
           u == c.ums
           disabled == vault[u] = "live"
           d == [c EXCEPT !.log = c.log \o FinalInverses(u)]
<1>1. c \in Command /\ Control(c) /\ cmd \in [Io -> Command] /\ RestOK
  BY TaskType, TypeParts
<1>2. c.op = "PartFinal" /\ Len(c.staged) = 3 /\ u \in KeyId
  BY <1>1 DEF CommitFinal, Control, StagedKeys
<1>3. c.staged[1] \in KeyId /\ c.staged[2] \in KeyId /\ c.staged[3] \in KeyId
  BY <1>1, <1>2 DEF Command
<1>4. d \in Command /\ d.op = c.op /\ d.staged = c.staged
  BY <1>1, <1>2, InverseTypes, LogType
<1>5. UNCHANGED <<pskUsed, turn, issued, lost, tainted>>
  BY DEF CommitFinal, bounds, history
<1>6. CASE prop["STATE"] # "Initializing"
  <2>1. Respond(i, FALSE, c) /\ UNCHANGED <<prop, vault>>
    BY <1>6 DEF CommitFinal
  <2>2. cmd' \in [Io -> Command] /\ ControlOK'
    BY <2>1, <1>1, TypeRespond
  <2>3. RestOK'
    BY <1>1, <1>5, <2>1, Zenon DEF RestOK
  <2> QED BY <2>2, <2>3, TypeParts
<1>7. CASE prop["STATE"] = "Initializing"
  <2>1. Respond(i, disabled, d)
    BY <1>7, Zenon DEF CommitFinal
  <2>2. cmd' \in [Io -> Command] /\ ControlOK'
    <3> HIDE DEF disabled, d
    <3>1. disabled \in BOOLEAN
      BY DEF disabled
    <3> QED BY <2>1, <3>1, <1>2, <1>4, TypeRespond
  <2>3. prop' = [prop EXCEPT
                    !["LOCAL_MK_KEY_ID"]     = c.staged[1],
                    !["EPHEMERAL_MK_KEY_ID"] = c.staged[2],
                    !["UPS_KEY_ID"]          = c.staged[3],
                    !["STATE"] = IF disabled THEN "Initialized" ELSE @]
    BY <1>7 DEF CommitFinal
  <2>4. DOMAIN prop' = PropId /\ \A p \in PropId : prop'[p] \in PropValue(p)
    <3> HIDE DEF c, disabled
    <3> QED BY <1>1, <1>3, <2>3, PropValues DEF RestOK, KeyProp, FlagProp, PartState
  <2>5. vault' \in [KeyId -> {"free", "live", "disabled"}]
    BY <1>1, <1>2, <1>7 DEF RestOK, CommitFinal
  <2>6. RestOK'
    BY <1>1, <1>5, <2>4, <2>5, Zenon DEF RestOK
  <2> QED BY <2>2, <2>6, TypeParts
<1> QED BY <1>6, <1>7

LEMMA TypeClaimSd ==
    ASSUME TypeInv, NEW i \in Io, ClaimSd(i)
    PROVE  TypeInv'
<1> DEFINE c == cmd[i]
           e == PropRestore("SD_INITIALIZED", Absent)
           d == [c EXCEPT !.pc = "vaultSd", !.log = Append(c.log, e)]
<1>1. c \in Command /\ Control(c) /\ cmd \in [Io -> Command] /\ RestOK
  BY TaskType, TypeParts
<1>2. UNCHANGED <<vault, pskUsed, turn, issued, lost, tainted>>
  BY DEF ClaimSd, bounds, history
<1>3. e \in Entry
  BY EntryTypes, PropValues DEF FlagProp
<1>4. Append(c.log, e) \in Seq(Entry)
  BY <1>1, <1>3 DEF Command
<1>5. d \in Command
  <2> HIDE DEF e
  <2> QED BY <1>1, <1>4 DEF Command, PC
<1>6. Control(d)
  <2>1. d.pc = "vaultSd" /\ d.op = "SdCreate" /\ d.staged = <<>>
    BY <1>1 DEF ClaimSd, Command, Control
  <2> HIDE DEF d
  <2> QED BY <2>1 DEF Control, Succeeded
<1>7. CASE prop["SD_INITIALIZED"] # Absent
  <2>1. cmd' = [cmd EXCEPT ![i] = Failed(c)] /\ UNCHANGED prop
    BY <1>7 DEF ClaimSd, SdClaimed
  <2>2. RestOK'
    BY <1>1, <1>2, <2>1, Zenon DEF RestOK
  <2> QED BY <2>1, <2>2, <1>1, TypeFailed, TypeParts
<1>8. CASE prop["SD_INITIALIZED"] = Absent
  <2>1. cmd' = [cmd EXCEPT ![i] = d]
    BY <1>1, <1>8 DEF ClaimSd, SdClaimed
  <2>2. prop' = [prop EXCEPT !["SD_INITIALIZED"] = Present]
    BY <1>8 DEF ClaimSd, SdClaimed
  <2>3. DOMAIN prop' = PropId /\ \A p \in PropId : prop'[p] \in PropValue(p)
    BY <1>1, <2>2, PropValues DEF RestOK, FlagProp
  <2>4. RestOK'
    BY <1>1, <1>2, <2>3, Zenon DEF RestOK
  <2> HIDE DEF d
  <2> QED BY <2>1, <2>4, <1>5, <1>6, CmdUpdate, TypeParts
<1> QED BY <1>7, <1>8

LEMMA TypeVaultSd ==
    ASSUME TypeInv, NEW i \in Io, VaultSd(i)
    PROVE  TypeInv'
<1> DEFINE c == cmd[i]
           k == FreeSlot
           st == Append(c.staged, k)
           lg == c.log \o SdInverses(k)
           d == [c EXCEPT !.staged = st, !.log = lg]
<1>1. c \in Command /\ Control(c) /\ cmd \in [Io -> Command] /\ RestOK
  BY TaskType, TypeParts
<1>2. k \in KeyId /\ SdInverses(k) \in Seq(Entry)
  BY FreeSlotType, InverseTypes DEF VaultSd
<1>3. c.op = "SdCreate" /\ c.staged = <<>>
  BY <1>1 DEF VaultSd, Control
<1>4. st \in Seq(KeyId) /\ Len(st) = 1 /\ lg \in Seq(Entry)
  BY <1>1, <1>2, <1>3 DEF Command
<1>5. d \in Command /\ d.op = c.op /\ d.staged = st
  <2> HIDE DEF st, lg
  <2> QED BY <1>1, <1>4 DEF Command
<1>6. Respond(i, TRUE, d)
  BY Zenon DEF VaultSd
<1>7. cmd' \in [Io -> Command] /\ ControlOK'
  <2> HIDE DEF d, st
  <2> QED BY <1>3, <1>4, <1>5, <1>6, TypeRespond
<1>8. UNCHANGED <<pskUsed, turn, issued, lost, tainted>>
  BY DEF VaultSd, bounds, history
<1>9. vault' \in [KeyId -> {"free", "live", "disabled"}]
  BY <1>1, <1>2 DEF RestOK, VaultSd
<1>10. DOMAIN prop' = PropId /\ \A p \in PropId : prop'[p] \in PropValue(p)
  <2>1. prop' = [prop EXCEPT !["SD_MK_KEY_ID"] = k]
    BY DEF VaultSd
  <2> HIDE DEF k
  <2> QED BY <1>1, <1>2, <2>1, PropValues DEF RestOK, KeyProp
<1>11. RestOK'
  BY <1>1, <1>8, <1>9, <1>10, Zenon DEF RestOK
<1> QED BY <1>7, <1>11, TypeParts

\* A record at "walk" is unconstrained.
LEMMA WalkControl ==
    ASSUME NEW c, c.pc \in {"walk", "idle"} PROVE Control(c)
BY DEF Control, Succeeded

LEMMA TypeComplete ==
    ASSUME TypeInv, NEW i \in Io, NEW posted \in BOOLEAN, Complete(i, posted)
    PROVE  TypeInv'
<1> DEFINE c == cmd[i]
           commit == c.handlerOk /\ posted
           d == [IdleCommand EXCEPT !.pc = "walk", !.log = c.log, !.commit = commit]
<1>1. c \in Command /\ Control(c) /\ cmd \in [Io -> Command] /\ RestOK
  BY TaskType, TypeParts
<1>2. cmd' = [cmd EXCEPT ![i] = d]
  BY Zenon DEF Complete
<1>3. d \in Command
  <2>1. commit \in BOOLEAN /\ c.log \in Seq(Entry)
    BY <1>1 DEF Command
  <2> HIDE DEF commit
  <2> QED BY <2>1, IdleType DEF Command, PC, IdleCommand
<1>4. Control(d)
  <2>1. d.pc = "walk"
    BY DEF IdleCommand
  <2> HIDE DEF d
  <2> QED BY <2>1, WalkControl
<1>5. lost' \in 0 .. MaxLost
  BY <1>1, ConstantsOK DEF RestOK, Complete
<1>6. turn' \in Io \cup {NoIo}
  <2>1. turn' = i \/ turn' = NoIo
    BY Zenon DEF Complete
  <2> QED BY <2>1
<1>7. tainted' \in BOOLEAN
  BY Zenon DEF Complete
<1>8. UNCHANGED <<prop, vault, pskUsed, issued>>
  BY DEF Complete, part
<1>9. RestOK'
  BY <1>1, <1>5, <1>6, <1>7, <1>8, Zenon DEF RestOK
<1> HIDE DEF d
<1> QED BY <1>2, <1>3, <1>4, <1>9, CmdUpdate, TypeParts

LEMMA TurnType ==
    ASSUME NEW i \in Io, NEW e, NEW more, NEW next
    PROVE  NextTurn(i, e, more, next) \in Io \cup {NoIo}
BY Zenon DEF NextTurn

LEMMA TypeUndoEntry ==
    ASSUME TypeInv, NEW i \in Io, UndoEntry(i)
    PROVE  TypeInv'
<1> DEFINE c == cmd[i]
           n == Len(c.log)
           e == c.log[n]
           rest == SubSeq(c.log, 1, n - 1)
           failed == \/ e.kind = "VaultDisable" /\ vault[e.id] = "free"
                     \/ e.kind = "PropRestore" /\ e.id \in PskProp /\ ~Serving
           d == [c EXCEPT !.log = rest, !.poisoned = c.poisoned \/ failed]
<1>1. c \in Command /\ Control(c) /\ cmd \in [Io -> Command] /\ RestOK
  BY TaskType, TypeParts
<1>2. c.log \in Seq(Entry) /\ c.log # <<>> /\ c.pc = "walk"
  BY <1>1 DEF Command, UndoEntry
<1>3. n \in Nat /\ n > 0 /\ e \in Entry /\ rest \in Seq(Entry)
  BY <1>2
<1>4. cmd' = [cmd EXCEPT ![i] = d]
  <2>1. cmd' = [cmd EXCEPT ![i].log = rest, ![i].poisoned = @ \/ failed]
    BY Zenon DEF UndoEntry
  <2> HIDE DEF rest, failed
  <2> QED BY <1>1, <2>1
<1>5. d \in Command
  <2>1. (c.poisoned \/ failed) \in BOOLEAN
    OBVIOUS
  <2> HIDE DEF rest, failed
  <2> QED BY <1>1, <1>3, <2>1 DEF Command
<1>6. Control(d)
  <2>1. d.pc = "walk"
    BY <1>1, <1>2 DEF Command
  <2> HIDE DEF d
  <2> QED BY <2>1, WalkControl
<1>7. /\ e.kind # "PropRestore" => e.id \in KeyId
      /\ e.kind = "PropRestore" => e.id \in PropId /\ e.val \in PropValue(e.id)
  BY <1>3 DEF Entry
<1>8. vault' \in [KeyId -> {"free", "live", "disabled"}]
  <2>1. \/ vault' = vault
        \/ e.kind # "PropRestore" /\ vault' = [vault EXCEPT ![e.id] = "free"]
        \/ e.kind # "PropRestore" /\ vault' = [vault EXCEPT ![e.id] = "live"]
    <3>1. vault' = CASE e.kind = "VaultCreate" -> [vault EXCEPT ![e.id] = "free"]
                     [] e.kind = "VaultDisable" /\ ~failed
                           -> [vault EXCEPT ![e.id] = "live"]
                     [] OTHER -> vault
      BY Zenon DEF UndoEntry
    <3> HIDE DEF e, failed
    <3> QED BY <3>1
  <2> HIDE DEF e
  <2> QED BY <2>1, <1>1, <1>7 DEF RestOK
<1>9. DOMAIN prop' = PropId /\ \A p \in PropId : prop'[p] \in PropValue(p)
  <2>1. prop' = IF e.kind = "PropRestore" /\ ~failed
                THEN [prop EXCEPT ![e.id] = e.val] ELSE prop
    BY Zenon DEF UndoEntry
  <2> HIDE DEF e, failed
  <2> QED BY <2>1, <1>1, <1>7 DEF RestOK
<1>10. turn' \in Io \cup {NoIo}
  <2>1. turn' = NextTurn(i, e, n > 1, c.log[n - 1])
    BY Zenon DEF UndoEntry
  <2> QED BY <2>1, TurnType
<1>11. UNCHANGED <<pskUsed, issued, lost, tainted>>
  BY DEF UndoEntry, bounds, history
<1>12. RestOK'
  BY <1>1, <1>8, <1>9, <1>10, <1>11, Zenon DEF RestOK
<1> HIDE DEF d
<1> QED BY <1>4, <1>5, <1>6, <1>12, CmdUpdate, TypeParts

LEMMA TypeCommitEntry ==
    ASSUME TypeInv, NEW i \in Io, CommitEntry(i)
    PROVE  TypeInv'
<1> DEFINE c == cmd[i]
           e == Head(c.log)
           d == [c EXCEPT !.log = Tail(c.log)]
<1>1. c \in Command /\ Control(c) /\ cmd \in [Io -> Command] /\ RestOK
  BY TaskType, TypeParts
<1>2. c.log \in Seq(Entry) /\ c.log # <<>> /\ c.pc = "walk"
  BY <1>1 DEF Command, CommitEntry
<1>3. e \in Entry /\ Tail(c.log) \in Seq(Entry)
  BY <1>2
<1>4. cmd' = [cmd EXCEPT ![i] = d]
  BY <1>1 DEF CommitEntry
<1>5. d \in Command /\ d.pc = "walk"
  BY <1>1, <1>2, <1>3 DEF Command
<1>6. Control(d)
  <2> HIDE DEF d
  <2> QED BY <1>5, WalkControl
<1>7. vault' \in [KeyId -> {"free", "live", "disabled"}]
  <2>1. vault' = IF e.kind = "VaultDisable"
                 THEN [vault EXCEPT ![e.id] = "free"] ELSE vault
    BY DEF CommitEntry
  <2>2. e.kind = "VaultDisable" => e.id \in KeyId
    BY <1>3 DEF Entry
  <2> HIDE DEF e
  <2> QED BY <2>1, <2>2, <1>1 DEF RestOK
<1>8. turn' \in Io \cup {NoIo}
  <2>1. turn' = NextTurn(i, e, Len(c.log) > 1, c.log[2])
    BY Zenon DEF CommitEntry
  <2> QED BY <2>1, TurnType
<1>9. UNCHANGED <<prop, pskUsed, issued, lost, tainted>>
  BY DEF CommitEntry, bounds, history
<1>10. RestOK'
  BY <1>1, <1>7, <1>8, <1>9, Zenon DEF RestOK
<1> HIDE DEF d
<1> QED BY <1>4, <1>5, <1>6, <1>10, CmdUpdate, TypeParts

LEMMA TypeWalkEnd ==
    ASSUME TypeInv, NEW i \in Io, WalkEnd(i)
    PROVE  TypeInv'
<1>1. RestOK
  BY TypeParts
<1>2. cmd' \in [Io -> Command] /\ ControlOK'
  BY IdleType, IdleControl, CmdUpdate DEF WalkEnd
<1>3. DOMAIN prop' = PropId /\ \A p \in PropId : prop'[p] \in PropValue(p)
  <2>1. prop' = prop \/ prop' = [prop EXCEPT !["STATE"] = "Faulted"]
    BY DEF WalkEnd
  <2> QED BY <1>1, <2>1, PropValues DEF RestOK, PartState
<1>4. turn' = NoIo /\ UNCHANGED <<vault, pskUsed, issued, lost, tainted>>
  BY DEF WalkEnd, bounds
<1>5. RestOK'
  BY <1>1, <1>3, <1>4, Zenon DEF RestOK
<1> QED BY <1>2, <1>5, TypeParts

LEMMA TypeStep == TypeInv /\ [Next]_vars => TypeInv'
<1> SUFFICES ASSUME TypeInv, [Next]_vars PROVE TypeInv'
  OBVIOUS
<1>1. CASE UNCHANGED vars
  <2>1. UNCHANGED <<prop, vault, pskUsed, cmd, turn, issued, lost, tainted>>
    BY <1>1 DEF vars
  <2> QED BY <2>1, Zenon DEF TypeInv, TypeOK, ControlOK
<1>2. CASE Next
  <2>1. PICK i \in Io : Arrive(i) \/ Step(i)
    BY <1>2 DEF Next
  <2> QED BY <2>1, TypeArrive, TypeLocal, TypeOutboundFail, TypePsk, TypeStage,
             TypeUnwrap, TypeCommitInit, TypeCommitFinal, TypeClaimSd,
             TypeVaultSd, TypeComplete, TypeUndoEntry, TypeCommitEntry,
             TypeWalkEnd DEF Step
<1> QED BY <1>1, <1>2

\* Every state the pipeline reaches is well-typed: no handler, no error path
\* and no walk of the undo log, in any interleaving, writes a value of the
\* wrong kind into the property table or reads a staged key it has not
\* created.
THEOREM TypeCorrect == Spec => []TypeOK
<1>1. TypeInv => TypeOK
  BY DEF TypeInv
<1> QED BY TypeInit, TypeStep, <1>1, PTL DEF Spec
-----------------------------------------------------------------------------
(* The claim discipline of the TBOR pipeline: why an acknowledged PartInit  *)
(* and an acknowledged security domain survive every other command's walk,  *)
(* and why no soft-deleted key is forgotten.                                *)
(*                                                                          *)
(* PartInit claims PTA_KEY_ID and SdCreate claims SD_INITIALIZED: an        *)
(* await-free test-and-set that records the inverse on the task's own log.  *)
(* The inductive invariant says who may hold such an inverse and when.      *)

\* Entry `e` is an inverse that rewrites property `p`.
Restores(e, p) == e.kind = "PropRestore" /\ e.id = p

\* Log `l` holds such an inverse.
Has(l, p) == \E n \in 1 .. Len(l) : Restores(l[n], p)

\* Log `l` is to delete or re-enable the soft-deleted key `k`.
Owns(l, k) == \E n \in 1 .. Len(l) : l[n] = VaultDisable(k)

\* The walk can no longer revert anything.
Committing(c) == c.pc = "walk" /\ c.commit

\* The two properties a handler claims by test-and-set.
Marker == {"PTA_KEY_ID", "SD_INITIALIZED"}
Guarded == Marker \cup {"SD_MK_KEY_ID"}

\* Entries a handler may log before its commit block.
Harmless(e) == e.kind # "VaultDisable" /\ \A p \in Guarded : ~Restores(e, p)

Unclaimed == {"idle", "inbound", "validate", "stage", "commit", "claim",
              "open", "mask"}

\* What a task's log looks like at each point.
Plain(c) == c.pc \in Unclaimed => \A n \in 1 .. Len(c.log) : Harmless(c.log[n])

Claimed(c) == c.pc = "vaultSd" =>
    /\ Has(c.log, "SD_INITIALIZED")
    /\ \A n \in 1 .. Len(c.log) :
         Harmless(c.log[n]) \/ Restores(c.log[n], "SD_INITIALIZED")

Once(l) == \A p \in Marker : \A m, n \in 1 .. Len(l) :
    Restores(l[m], p) /\ Restores(l[n], p) => m = n

\* The SDMK id is published under the claim, so it is withdrawn before it.
UnderClaim(l) == \A n \in 1 .. Len(l) : Restores(l[n], "SD_MK_KEY_ID") =>
    \E m \in 1 .. n - 1 : Restores(l[m], "SD_INITIALIZED")

Claimant(c) == Succeeded(c) =>
    /\ c.op = "PartInit" => Has(c.log, "PTA_KEY_ID")
    /\ c.op = "SdCreate" => Has(c.log, "SD_INITIALIZED")

Shape(c) == /\ Plain(c) /\ Claimed(c) /\ Once(c.log) /\ Claimant(c)
            /\ ~Committing(c) => UnderClaim(c.log)

ShapeOK == \A i \in Io : Shape(cmd[i])

\* A claim has one holder, and while it is held the property is set.
OneHolder ==
    /\ \A p \in Marker : \A i, j \in Io :
          Has(cmd[i].log, p) /\ Has(cmd[j].log, p) => i = j
    /\ \A p \in Marker : \A i \in Io : Has(cmd[i].log, p) => prop[p] # Absent

InitClaim ==
    /\ \A i \in Io : Succeeded(cmd[i]) /\ cmd[i].op = "PartInit"
          => prop["PTA_KEY_ID"] = cmd[i].staged[2]
    /\ \A k \in KeyId : <<"PTA_KEY_ID", k>> \in acked =>
          /\ prop["PTA_KEY_ID"] = k
          /\ \A i \in Io : Has(cmd[i].log, "PTA_KEY_ID") => Committing(cmd[i])

SdClaim ==
    /\ \A i \in Io : Succeeded(cmd[i]) /\ cmd[i].op = "SdCreate"
          => prop["SD_MK_KEY_ID"] = cmd[i].staged[1]
    /\ \A k \in KeyId : <<"SD_MK_KEY_ID", k>> \in acked =>
          /\ prop["SD_MK_KEY_ID"] = k /\ prop["SD_INITIALIZED"] = Present
          /\ \A i \in Io : Has(cmd[i].log, "SD_INITIALIZED") => Committing(cmd[i])

ClaimInv == OneHolder /\ InitClaim /\ SdClaim

ClaimsInductive == TypeInv /\ ShapeOK /\ ClaimInv /\ SoftDeletedIsOwned
-----------------------------------------------------------------------------
\* The log of an idle, failed or just started task.
LEMMA EmptyLog ==
    ASSUME NEW l, l = <<>>
    PROVE  /\ Once(l) /\ UnderClaim(l)
           /\ \A p : ~Has(l, p)
           /\ \A k : ~Owns(l, k)
           /\ 1 .. Len(l) = {}
BY DEF Once, UnderClaim, Has, Owns

LEMMA EmptyShape ==
    ASSUME NEW c, c.log = <<>>, c.pc # "vaultSd",
           Succeeded(c) => c.op \notin {"PartInit", "SdCreate"}
    PROVE  Shape(c)
BY EmptyLog DEF Shape, Plain, Claimed, Claimant

LEMMA OwnedAlt ==
    /\ SoftDeletedIsOwned <=>
         \A k \in KeyId : vault[k] = "disabled" => \E i \in Io : Owns(cmd[i].log, k)
    /\ SoftDeletedIsOwned' <=>
         \A k \in KeyId : vault'[k] = "disabled" => \E i \in Io : Owns(cmd'[i].log, k)
BY DEF SoftDeletedIsOwned, Owns

LEMMA ClaimsInit == Init => ClaimsInductive
<1> SUFFICES ASSUME Init PROVE ClaimsInductive
  OBVIOUS
<1>1. cmd = [i \in Io |-> IdleCommand] /\ acked = {}
  BY DEF Init
<1>2. IdleCommand.pc = "idle" /\ IdleCommand.log = <<>>
  BY DEF IdleCommand
<1>3. ~Succeeded(IdleCommand)
  BY <1>2 DEF Succeeded
<1>4. ShapeOK
  BY <1>1, <1>2, <1>3, EmptyShape DEF ShapeOK
<1>5. ClaimInv
  BY <1>1, <1>2, <1>3, EmptyLog DEF ClaimInv, OneHolder, InitClaim, SdClaim
<1>6. \A k \in KeyId : vault[k] # "disabled"
  BY DEF Init, PartitionInit
<1> QED BY <1>4, <1>5, <1>6, TypeInit, OwnedAlt DEF ClaimsInductive
-----------------------------------------------------------------------------
(* A step that claims nothing, withdraws nothing and acknowledges nothing. *)

Quiet(c, d) ==
    /\ \A p \in Marker : Has(d.log, p) =>
          Has(c.log, p) /\ (Committing(c) => Committing(d))
    /\ Succeeded(d) /\ d.op \in {"PartInit", "SdCreate"} =>
          Succeeded(c) /\ d.op = c.op /\ d.staged = c.staged

LEMMA QuietStep ==
    ASSUME ClaimsInductive, NEW i \in Io, NEW d, Quiet(cmd[i], d),
           cmd' = [cmd EXCEPT ![i] = d], acked' = acked,
           \A p \in Guarded : prop'[p] = prop[p]
    PROVE  ClaimInv'
<1>1. cmd \in [Io -> Command] /\ ClaimInv
  BY TypeParts DEF ClaimsInductive
<1>2. \A j \in Io : cmd'[j] = IF j = i THEN d ELSE cmd[j]
  BY <1>1
<1>3. /\ prop'["PTA_KEY_ID"] = prop["PTA_KEY_ID"]
      /\ prop'["SD_INITIALIZED"] = prop["SD_INITIALIZED"]
      /\ prop'["SD_MK_KEY_ID"] = prop["SD_MK_KEY_ID"]
  BY DEF Guarded, Marker
<1>4. \A j \in Io : \A p \in Marker : Has(cmd'[j].log, p) =>
          /\ Has(cmd[j].log, p)
          /\ Committing(cmd[j]) => Committing(cmd'[j])
  BY <1>2 DEF Quiet
<1>5. \A j \in Io : Succeeded(cmd'[j]) /\ cmd'[j].op \in {"PartInit", "SdCreate"} =>
          Succeeded(cmd[j]) /\ cmd'[j].op = cmd[j].op /\ cmd'[j].staged = cmd[j].staged
  BY <1>2 DEF Quiet
<1>6. OneHolder'
  <2>1. \A p \in Marker : prop'[p] = prop[p]
    BY DEF Guarded
  <2> QED BY <1>1, <1>4, <2>1 DEF ClaimInv, OneHolder
<1>7. InitClaim'
  BY <1>1, <1>3, <1>4, <1>5 DEF ClaimInv, InitClaim, Marker
<1>8. SdClaim'
  BY <1>1, <1>3, <1>4, <1>5 DEF ClaimInv, SdClaim, Marker
<1> QED BY <1>6, <1>7, <1>8 DEF ClaimInv

\* A step that soft-deletes nothing and drops no entry of a soft-deleted key.
LEMMA OwnedStep ==
    ASSUME ClaimsInductive, NEW i \in Io, NEW d,
           cmd' = [cmd EXCEPT ![i] = d],
           \A k \in KeyId : vault'[k] = "disabled" =>
               vault[k] = "disabled" /\ (Owns(cmd[i].log, k) => Owns(d.log, k))
    PROVE  SoftDeletedIsOwned'
<1>1. cmd \in [Io -> Command] /\ SoftDeletedIsOwned
  BY TypeParts DEF ClaimsInductive
<1>2. \A j \in Io : cmd'[j] = IF j = i THEN d ELSE cmd[j]
  BY <1>1
<1> QED BY <1>1, <1>2, OwnedAlt

LEMMA ShapeStep ==
    ASSUME ClaimsInductive, NEW i \in Io, NEW d, Shape(d),
           cmd' = [cmd EXCEPT ![i] = d]
    PROVE  ShapeOK'
<1>1. cmd \in [Io -> Command]
  BY TypeParts DEF ClaimsInductive
<1> QED BY <1>1 DEF ClaimsInductive, ShapeOK

\* The three of them together.
LEMMA TaskStep ==
    ASSUME ClaimsInductive, TypeInv', NEW i \in Io, NEW d,
           Shape(d), Quiet(cmd[i], d),
           cmd' = [cmd EXCEPT ![i] = d], acked' = acked,
           \A p \in Guarded : prop'[p] = prop[p],
           \A k \in KeyId : vault'[k] = "disabled" =>
               vault[k] = "disabled" /\ (Owns(cmd[i].log, k) => Owns(d.log, k))
    PROVE  ClaimsInductive'
<1>1. ClaimInv'
  BY QuietStep
<1>2. SoftDeletedIsOwned'
  BY OwnedStep
<1>3. ShapeOK'
  BY ShapeStep
<1> QED BY <1>1, <1>2, <1>3 DEF ClaimsInductive

LEMMA SameLog ==
    ASSUME NEW c, NEW d, Shape(c), d.log = c.log, ~Committing(c),
           d.pc \in Unclaimed => c.pc \in Unclaimed, d.pc # "vaultSd",
           Succeeded(d) /\ d.op \in {"PartInit", "SdCreate"} =>
              Succeeded(c) /\ d.op = c.op /\ d.staged = c.staged
    PROVE  Shape(d) /\ Quiet(c, d)
<1>1. Quiet(c, d)
  BY DEF Quiet
<1>2. Plain(d) /\ Claimed(d)
  BY DEF Shape, Plain, Claimed
<1>3. Once(d.log) /\ UnderClaim(d.log)
  BY DEF Shape
<1>4. Claimant(d)
  BY DEF Shape, Claimant
<1> QED BY <1>1, <1>2, <1>3, <1>4 DEF Shape

\* Only the task's record changes, and not its log.
LEMMA SameLogStep ==
    ASSUME ClaimsInductive, TypeInv', NEW i \in Io, NEW d,
           d.log = cmd[i].log, cmd[i].pc # "walk",
           d.pc \in Unclaimed => cmd[i].pc \in Unclaimed, d.pc # "vaultSd",
           Succeeded(d) /\ d.op \in {"PartInit", "SdCreate"} =>
              Succeeded(cmd[i]) /\ d.op = cmd[i].op /\ d.staged = cmd[i].staged,
           cmd' = [cmd EXCEPT ![i] = d], acked' = acked, vault' = vault,
           \A p \in Guarded : prop'[p] = prop[p]
    PROVE  ClaimsInductive'
<1>1. Shape(cmd[i]) /\ ~Committing(cmd[i])
  BY DEF ClaimsInductive, ShapeOK, Committing
<1>2. Shape(d) /\ Quiet(cmd[i], d)
  BY <1>1, SameLog
<1> QED BY <1>2, TaskStep

\* A failed handler: its record keeps the log and nothing else.
LEMMA FailedRecord ==
    ASSUME NEW c
    PROVE  /\ Failed(c).log = c.log /\ Failed(c).pc = "outbound"
           /\ Failed(c).res = "err" /\ ~Succeeded(Failed(c))
BY DEF Failed, IdleCommand, Succeeded

LEMMA FailedStep ==
    ASSUME ClaimsInductive, TypeInv', NEW i \in Io, cmd[i].pc # "walk",
           cmd' = [cmd EXCEPT ![i] = Failed(cmd[i])],
           acked' = acked, vault' = vault, \A p \in Guarded : prop'[p] = prop[p]
    PROVE  ClaimsInductive'
<1> DEFINE d == Failed(cmd[i])
<1>1. /\ d.log = cmd[i].log /\ d.pc \notin Unclaimed /\ d.pc # "vaultSd"
      /\ ~Succeeded(d) /\ cmd' = [cmd EXCEPT ![i] = d]
  BY FailedRecord DEF Unclaimed
<1> HIDE DEF d
<1> QED BY <1>1, SameLogStep
-----------------------------------------------------------------------------
LEMMA ClaimsArrive ==
    ASSUME ClaimsInductive, TypeInv', NEW i \in Io, Arrive(i)
    PROVE  ClaimsInductive'
<1>1. PICK o \in Ops, s \in Sess : \E v \in Payload(o) : Submit(i, o, s, v)
  BY DEF Arrive
<1>2. PICK v \in Payload(o) : Submit(i, o, s, v)
  BY <1>1
<1> DEFINE d == [IdleCommand EXCEPT !.pc = "inbound", !.op = o, !.sess = s, !.psk = v]
<1>3. d.pc = "inbound" /\ d.log = <<>>
  BY DEF IdleCommand
<1>4. /\ cmd' = [cmd EXCEPT ![i] = d] /\ acked' = acked /\ vault' = vault
      /\ prop' = prop /\ cmd[i].pc = "idle"
  BY <1>2 DEF Submit
<1> HIDE DEF d
<1>5. ~Succeeded(d)
  BY <1>3 DEF Succeeded
<1>6. Shape(d)
  BY <1>3, <1>5, EmptyShape
<1>7. Quiet(cmd[i], d)
  BY <1>3, <1>5, EmptyLog DEF Quiet
<1>8. \A k \in KeyId : ~Owns(cmd[i].log, k)
  <2>1. Plain(cmd[i])
    BY DEF ClaimsInductive, ShapeOK, Shape
  <2> QED BY <1>4, <2>1 DEF Plain, Unclaimed, Harmless, Owns, VaultDisable
<1> QED BY <1>4, <1>6, <1>7, <1>8, TaskStep

LEMMA ClaimsLocal ==
    ASSUME ClaimsInductive, TypeInv', NEW i \in Io,
           \/ InboundFail(i) \/ HandlerError(i) \/ Reject(i)
           \/ Dispatch(i) \/ ReadUms(i) \/ OutboundOk(i) \/ OutboundFail(i)
    PROVE  ClaimsInductive'
<1> DEFINE c == cmd[i]
<1>1. c \in Command /\ cmd \in [Io -> Command]
  BY TaskType, TypeParts DEF ClaimsInductive
<1>2. acked' = acked /\ vault' = vault /\ prop' = prop
  BY DEF InboundFail, HandlerError, Reject, Dispatch, ReadUms, OutboundOk,
         OutboundFail, part, bounds, history
<1>3. CASE HandlerError(i) \/ Reject(i)
  <2>1. c.pc # "walk" /\ cmd' = [cmd EXCEPT ![i] = Failed(c)]
    BY <1>3 DEF HandlerError, Reject
  <2> QED BY <2>1, <1>2, FailedStep
<1>4. CASE InboundFail(i) \/ OutboundFail(i)
  <2> DEFINE d == [c EXCEPT !.pc = "complete", !.handlerOk = FALSE]
  <2>1. cmd' = [cmd EXCEPT ![i] = d] /\ c.pc # "walk"
    BY <1>4, <1>1 DEF InboundFail, OutboundFail
  <2>2. d.pc = "complete" /\ d.log = c.log /\ d.handlerOk = FALSE
    BY <1>1 DEF Command
  <2> HIDE DEF d
  <2>3. ~Succeeded(d) /\ d.pc \notin Unclaimed
    BY <2>2 DEF Succeeded, Unclaimed
  <2> QED BY <2>1, <2>2, <2>3, <1>2, SameLogStep
<1>5. CASE Dispatch(i)
  <2> DEFINE d == [c EXCEPT !.pc = FirstPc(c.op)]
  <2>1. cmd' = [cmd EXCEPT ![i] = d] /\ c.pc = "inbound"
    BY <1>5, <1>1 DEF Dispatch
  <2>2. d.pc = FirstPc(c.op) /\ d.log = c.log
    BY <1>1 DEF Command
  <2>3. FirstPc(c.op) \in {"validate", "claim", "open", "stage"}
    BY DEF FirstPc
  <2> HIDE DEF d
  <2>4. ~Succeeded(d) /\ c.pc \in Unclaimed /\ d.pc # "vaultSd" /\ c.pc # "walk"
    BY <2>1, <2>2, <2>3 DEF Succeeded, Unclaimed
  <2> QED BY <2>1, <2>2, <2>4, <1>2, SameLogStep
<1>6. CASE ReadUms(i)
  <2> DEFINE d == [c EXCEPT !.pc = "stage", !.ums = prop["UPS_KEY_ID"]]
  <2>1. cmd' = [cmd EXCEPT ![i] = d] /\ c.pc = "validate"
    BY <1>6, <1>1 DEF ReadUms
  <2>2. d.pc = "stage" /\ d.log = c.log
    BY <1>1 DEF Command
  <2> HIDE DEF d
  <2>3. ~Succeeded(d) /\ c.pc \in Unclaimed /\ d.pc # "vaultSd" /\ c.pc # "walk"
    BY <2>1, <2>2 DEF Succeeded, Unclaimed
  <2> QED BY <2>1, <2>2, <2>3, <1>2, SameLogStep
<1>7. CASE OutboundOk(i)
  <2> DEFINE d == [c EXCEPT !.pc = "complete", !.handlerOk = TRUE]
  <2>1. cmd' = [cmd EXCEPT ![i] = d] /\ c.pc = "outbound"
    BY <1>7, <1>1 DEF OutboundOk
  <2>2. /\ d.pc = "complete" /\ d.log = c.log /\ d.res = c.res
        /\ d.op = c.op /\ d.staged = c.staged
    BY <1>1 DEF Command
  <2> HIDE DEF d
  <2>3. Succeeded(d) => Succeeded(c)
    BY <2>1, <2>2 DEF Succeeded
  <2>4. d.pc \notin Unclaimed /\ d.pc # "vaultSd" /\ c.pc # "walk"
    BY <2>1, <2>2 DEF Unclaimed
  <2> QED BY <2>1, <2>2, <2>3, <2>4, <1>2, SameLogStep
<1> QED BY <1>3, <1>4, <1>5, <1>6, <1>7

\* What Respond leaves in the task's record.
LEMMA RespondRecord ==
    ASSUME NEW i \in Io, NEW c \in Command, NEW ok, Respond(i, ok, c)
    PROVE  \E r : /\ cmd' = [cmd EXCEPT ![i] = r]
                  /\ r.pc = "outbound" /\ r.log = c.log
                  /\ Succeeded(r) => /\ ok /\ r.op = c.op
                                     /\ r.staged = c.staged
<1>1. CASE cmd' = [cmd EXCEPT ![i] = Failed(c)]
  <2> WITNESS Failed(c)
  <2> QED BY <1>1, FailedRecord
<1>2. CASE ok /\ cmd' = [cmd EXCEPT ![i] = [c EXCEPT !.pc = "outbound"]]
  <2> DEFINE d == [c EXCEPT !.pc = "outbound"]
  <2>1. d.pc = "outbound" /\ d.log = c.log /\ d.op = c.op /\ d.staged = c.staged
    BY DEF Command
  <2> WITNESS d
  <2> QED BY <1>2, <2>1
<1> QED BY <1>1, <1>2 DEF Respond

\* Logging one more harmless inverse before the commit block.
LEMMA AppendShape ==
    ASSUME NEW c \in Command, NEW d, NEW e \in Entry, Shape(c), Harmless(e),
           c.pc \in Unclaimed, d.pc \in Unclaimed, d.log = Append(c.log, e)
    PROVE  /\ Shape(d) /\ Quiet(c, d)
           /\ \A k \in KeyId : ~Owns(c.log, k)
<1>1. c.log \in Seq(Entry) /\ \A n \in 1 .. Len(c.log) : Harmless(c.log[n])
  BY DEF Command, Shape, Plain
<1>2. \A n \in 1 .. Len(d.log) : Harmless(d.log[n])
  BY <1>1
<1>3. \A p \in Guarded : ~Has(d.log, p)
  BY <1>2 DEF Harmless, Has
<1>4. ~Succeeded(d) /\ d.pc # "vaultSd"
  BY DEF Succeeded, Unclaimed
<1>5. Once(d.log) /\ UnderClaim(d.log)
  <2>1. "SD_MK_KEY_ID" \in Guarded /\ Marker \subseteq Guarded
    BY DEF Guarded
  <2> QED BY <1>2, <2>1 DEF Once, UnderClaim, Harmless
<1>6. Shape(d)
  BY <1>2, <1>4, <1>5 DEF Shape, Plain, Claimed, Claimant
<1>7. Quiet(c, d)
  BY <1>3, <1>4 DEF Quiet, Guarded
<1>8. \A k \in KeyId : ~Owns(c.log, k)
  BY <1>1 DEF Owns, Harmless, VaultDisable
<1> QED BY <1>6, <1>7, <1>8

LEMMA ClaimsPsk ==
    ASSUME ClaimsInductive, TypeInv', NEW i \in Io, PskReserve(i) \/ PskInstall(i)
    PROVE  ClaimsInductive'
<1> DEFINE c == cmd[i]
           p == PskPropOf(c.sess)
<1>1. c \in Command /\ cmd \in [Io -> Command] /\ Shape(c) /\ Control(c) /\ RestOK
  BY TaskType, TypeParts DEF ClaimsInductive, ShapeOK
<1>2. p \in PskProp /\ p \in PropId /\ p \notin Guarded
  BY PskPropType, PropValues DEF PskProp, Guarded, Marker
<1>3. CASE PskReserve(i)
  <2> DEFINE e == PropRestore(p, prop[p])
             d == [c EXCEPT !.pc = "open", !.log = Append(c.log, e)]
  <2>1. \/ cmd' = [cmd EXCEPT ![i] = d]
        \/ cmd' = [cmd EXCEPT ![i] = Failed(c)]
    BY <1>3, <1>1 DEF PskReserve
  <2>2. acked' = acked /\ vault' = vault /\ prop' = prop /\ c.pc = "inbound"
    BY <1>3 DEF PskReserve, history
  <2>3. CASE cmd' = [cmd EXCEPT ![i] = Failed(c)]
    BY <2>2, <2>3, FailedStep
  <2>4. CASE cmd' = [cmd EXCEPT ![i] = d]
    <3>1. e \in Entry
      BY <1>1, <1>2, EntryTypes DEF RestOK
    <3>2. Harmless(e)
      BY <1>2 DEF Harmless, Restores, PropRestore
    <3>3. d.pc = "open" /\ d.log = Append(c.log, e)
      <4> HIDE DEF e
      <4> QED BY <1>1 DEF Command
    <3> HIDE DEF d, e
    <3>4. Shape(d) /\ Quiet(c, d) /\ \A k \in KeyId : ~Owns(c.log, k)
      BY <1>1, <2>2, <3>1, <3>2, <3>3, AppendShape DEF Unclaimed
    <3> QED BY <2>2, <2>4, <3>4, TaskStep
  <2> QED BY <2>1, <2>3, <2>4
<1>4. CASE PskInstall(i)
  <2>1. c.pc = "open" /\ Respond(i, Serving, c)
    BY <1>4 DEF PskInstall
  <2>2. PICK r : /\ cmd' = [cmd EXCEPT ![i] = r]
                 /\ r.pc = "outbound" /\ r.log = c.log
                 /\ Succeeded(r) => Serving /\ r.op = c.op /\ r.staged = c.staged
    BY <1>1, <2>1, RespondRecord
  <2>3. c.op = "PskChange"
    BY <1>1, <2>1 DEF Control
  <2>4. acked' = acked /\ vault' = vault
    BY <1>4 DEF PskInstall, history
  <2>5. \A q \in Guarded : prop'[q] = prop[q]
    <3>1. prop' = prop \/ prop' = [prop EXCEPT ![p] = c.psk]
      BY <1>4 DEF PskInstall
    <3>2. Guarded \subseteq PropId /\ DOMAIN prop = PropId
      BY <1>1 DEF Guarded, Marker, PropId, KeyProp, FlagProp, RestOK
    <3> HIDE DEF p
    <3> QED BY <1>2, <3>1, <3>2
  <2>6. r.pc \notin Unclaimed /\ c.pc # "walk"
    BY <2>1, <2>2 DEF Unclaimed
  <2> QED BY <2>2, <2>3, <2>4, <2>5, <2>6, SameLogStep
<1> QED BY <1>3, <1>4

LEMMA ClaimsStage ==
    ASSUME ClaimsInductive, TypeInv', NEW i \in Io, StageKey(i)
    PROVE  ClaimsInductive'
<1> DEFINE c == cmd[i]
           k == FreeSlot
           e == VaultCreate(k)
           n == IF Len(c.staged) + 1 < StagedKeys(c.op) THEN "stage"
                ELSE IF c.op = "UnwrapKey" THEN "mask" ELSE "commit"
           st == Append(c.staged, k)
           lg == Append(c.log, e)
           d == [c EXCEPT !.staged = st, !.log = lg, !.pc = n]
<1>1. c \in Command /\ cmd \in [Io -> Command] /\ Shape(c) /\ RestOK
  BY TaskType, TypeParts DEF ClaimsInductive, ShapeOK
<1>2. k \in KeyId /\ e \in Entry /\ Harmless(e)
  BY FreeSlotType, EntryTypes DEF StageKey, Harmless, Restores, VaultCreate
<1>3. cmd' = [cmd EXCEPT ![i] = d]
  BY <1>1 DEF StageKey
<1>4. d.pc \in Unclaimed /\ d.log = lg
  <2>1. n \in Unclaimed
    BY DEF Unclaimed
  <2> HIDE DEF st, lg, n
  <2> QED BY <1>1, <2>1 DEF Command
<1>5. c.pc \in Unclaimed
  BY DEF StageKey, Unclaimed
<1>6. Shape(d) /\ Quiet(c, d) /\ \A q \in KeyId : ~Owns(c.log, q)
  <2> HIDE DEF d, e
  <2> QED BY <1>1, <1>2, <1>4, <1>5, AppendShape
<1>7. acked' = acked /\ prop' = prop
  BY DEF StageKey, history
<1>8. \A q \in KeyId : vault'[q] = "disabled" => vault[q] = "disabled"
  BY <1>1, <1>2 DEF StageKey, RestOK
<1> HIDE DEF d
<1> QED BY <1>3, <1>6, <1>7, <1>8, TaskStep

LEMMA ClaimsUnwrap ==
    ASSUME ClaimsInductive, TypeInv', NEW i \in Io, UnwrapDone(i)
    PROVE  ClaimsInductive'
<1> DEFINE c == cmd[i]
           k == c.staged[1]
           d == [c EXCEPT !.pc = "outbound", !.log = <<>>]
<1>1. c \in Command /\ cmd \in [Io -> Command] /\ Shape(c) /\ Control(c) /\ RestOK
  BY TaskType, TypeParts DEF ClaimsInductive, ShapeOK
<1>2. c.pc = "mask" /\ c.op = "UnwrapKey" /\ Len(c.staged) = 1
  BY <1>1 DEF UnwrapDone, Control
<1>3. acked' = acked /\ prop' = prop
  BY DEF UnwrapDone, history
<1>4. CASE vault[k] = "free"
  <2>1. cmd' = [cmd EXCEPT ![i] = Failed(c)] /\ vault' = vault
    BY <1>4 DEF UnwrapDone
  <2> QED BY <2>1, <1>2, <1>3, FailedStep
<1>5. CASE vault[k] # "free"
  <2>1. cmd' = [cmd EXCEPT ![i] = d]
    <3>1. cmd' = [cmd EXCEPT ![i].pc = "outbound", ![i].log = <<>>]
      BY <1>5 DEF UnwrapDone
    <3> QED BY <1>1, <3>1
  <2>2. vault' = [vault EXCEPT ![k] = "free"]
    BY <1>5 DEF UnwrapDone
  <2>3. d.pc = "outbound" /\ d.log = <<>> /\ d.op = "UnwrapKey"
    BY <1>1, <1>2 DEF Command
  <2> HIDE DEF d
  <2>4. Shape(d) /\ Quiet(c, d)
    BY <2>3, EmptyShape, EmptyLog DEF Quiet
  <2>5. \A q \in KeyId : ~Owns(c.log, q)
    BY <1>1, <1>2 DEF Shape, Plain, Unclaimed, Harmless, Owns, VaultDisable
  <2>6. \A q \in KeyId : vault'[q] = "disabled" => vault[q] = "disabled"
    BY <1>1, <2>2 DEF RestOK
  <2> QED BY <2>1, <2>4, <2>5, <2>6, <1>3, TaskStep
<1> QED BY <1>4, <1>5

LEMMA ClaimsWalkEnd ==
    ASSUME ClaimsInductive, TypeInv', NEW i \in Io, WalkEnd(i)
    PROVE  ClaimsInductive'
<1>1. cmd[i].log = <<>> /\ cmd' = [cmd EXCEPT ![i] = IdleCommand]
  BY DEF WalkEnd
<1>2. IdleCommand.pc = "idle" /\ IdleCommand.log = <<>>
  BY DEF IdleCommand
<1>3. Shape(IdleCommand) /\ Quiet(cmd[i], IdleCommand)
  BY <1>2, EmptyShape, EmptyLog DEF Quiet, Succeeded
<1>4. \A k \in KeyId : ~Owns(cmd[i].log, k)
  BY <1>1, EmptyLog
<1>5. acked' = acked /\ vault' = vault
  BY DEF WalkEnd
<1>6. \A p \in Guarded : prop'[p] = prop[p]
  <2>1. prop' = prop \/ prop' = [prop EXCEPT !["STATE"] = "Faulted"]
    BY DEF WalkEnd
  <2>2. Guarded \subseteq PropId /\ DOMAIN prop = PropId /\ "STATE" \notin Guarded
    BY TypeParts DEF ClaimsInductive, Guarded, Marker, PropId, KeyProp, FlagProp, RestOK
  <2> QED BY <2>1, <2>2
<1> QED BY <1>1, <1>3, <1>4, <1>5, <1>6, TaskStep
-----------------------------------------------------------------------------
(* The commit blocks.                                                      *)

\* A log with one claim and nothing else that is guarded.
LEMMA OneClaim ==
    ASSUME NEW l \in Seq(Entry), NEW m \in Marker, NEW x \in 1 .. Len(l),
           Restores(l[x], m), \A n \in 1 .. Len(l) : n # x => Harmless(l[n])
    PROVE  /\ Once(l) /\ UnderClaim(l) /\ Has(l, m)
           /\ \A p \in Marker : p # m => ~Has(l, p)
           /\ \A k : ~Owns(l, k)
<1>1. "SD_MK_KEY_ID" \in Guarded /\ Marker \subseteq Guarded /\ m # "SD_MK_KEY_ID"
  BY DEF Guarded, Marker
<1>2. Once(l)
  BY <1>1 DEF Once, Harmless, Restores
<1>3. UnderClaim(l)
  BY <1>1 DEF UnderClaim, Harmless, Restores
<1>4. Has(l, m)
  BY DEF Has
<1>5. \A p \in Marker : p # m => ~Has(l, p)
  BY <1>1 DEF Has, Harmless, Restores
<1>6. \A k : ~Owns(l, k)
  BY DEF Owns, Harmless, Restores, VaultDisable
<1> QED BY <1>2, <1>3, <1>4, <1>5, <1>6

\* A log with no guarded entry at all.
LEMMA NoClaim ==
    ASSUME NEW l \in Seq(Entry),
           \A n \in 1 .. Len(l) : \A p \in Guarded : ~Restores(l[n], p)
    PROVE  Once(l) /\ UnderClaim(l) /\ \A p \in Guarded : ~Has(l, p)
<1>1. "SD_MK_KEY_ID" \in Guarded /\ Marker \subseteq Guarded
  BY DEF Guarded
<1> QED BY <1>1 DEF Once, UnderClaim, Has

LEMMA Concat ==
    ASSUME NEW s \in Seq(Entry), NEW t \in Seq(Entry)
    PROVE  /\ s \o t \in Seq(Entry) /\ Len(s \o t) = Len(s) + Len(t)
           /\ Len(s) \in Nat /\ Len(t) \in Nat
           /\ \A n \in 1 .. Len(s) + Len(t) :
                (s \o t)[n] = IF n <= Len(s) THEN s[n] ELSE t[n - Len(s)]
BY ConcatProperties

LEMMA InitLog ==
    ASSUME NEW s \in Seq(Entry), \A n \in 1 .. Len(s) : Harmless(s[n])
    PROVE  LET l == s \o InitInverses IN
           /\ l \in Seq(Entry) /\ Len(s) + 1 \in 1 .. Len(l)
           /\ Restores(l[Len(s) + 1], "PTA_KEY_ID")
           /\ \A n \in 1 .. Len(l) : n # Len(s) + 1 => Harmless(l[n])
<1> DEFINE t == InitInverses
           l == s \o t
<1>1. t \in Seq(Entry) /\ Len(t) = 4
  BY InverseTypes DEF InitInverses
<1>2. Restores(t[1], "PTA_KEY_ID")
  BY DEF InitInverses, Restores, PropRestore
<1>3. \A n \in 2 .. 4 : Harmless(t[n])
  <2>1. Harmless(t[2]) /\ Harmless(t[3]) /\ Harmless(t[4])
    BY DEF InitInverses, Harmless, Restores, PropRestore, Guarded, Marker
  <2> QED BY <2>1
<1> HIDE DEF t
<1>4. /\ l \in Seq(Entry) /\ Len(l) = Len(s) + 4 /\ Len(s) \in Nat
      /\ \A n \in 1 .. Len(l) : l[n] = IF n <= Len(s) THEN s[n] ELSE t[n - Len(s)]
  <2>1. /\ l \in Seq(Entry) /\ Len(l) = Len(s) + Len(t) /\ Len(s) \in Nat
        /\ \A n \in 1 .. Len(s) + Len(t) :
             l[n] = IF n <= Len(s) THEN s[n] ELSE t[n - Len(s)]
    BY <1>1, Concat
  <2> HIDE DEF l
  <2> QED BY <1>1, <2>1
<1> HIDE DEF l
<1>5. Restores(l[Len(s) + 1], "PTA_KEY_ID")
  BY <1>2, <1>4
<1>6. \A n \in 1 .. Len(l) : n # Len(s) + 1 => Harmless(l[n])
  <2> TAKE n \in 1 .. Len(l)
  <2>1. CASE n <= Len(s)
    BY <2>1, <1>4
  <2>2. CASE n > Len(s) + 1
    <3>1. n - Len(s) \in 2 .. 4
      BY <2>2, <1>4
    <3> QED BY <2>2, <3>1, <1>3, <1>4
  <2> QED BY <2>1, <2>2, <1>4
<1> QED BY <1>4, <1>5, <1>6 DEF l, t

LEMMA FinalLog ==
    ASSUME NEW s \in Seq(Entry), NEW u \in KeyId,
           \A n \in 1 .. Len(s) : Harmless(s[n])
    PROVE  LET l == s \o FinalInverses(u) IN
           /\ l \in Seq(Entry) /\ Owns(l, u)
           /\ \A n \in 1 .. Len(l) : \A p \in Guarded : ~Restores(l[n], p)
<1> DEFINE t == FinalInverses(u)
           l == s \o t
<1>1. t \in Seq(Entry) /\ Len(t) = 5
  BY InverseTypes DEF FinalInverses
<1>2. t[4] = VaultDisable(u)
  BY DEF FinalInverses
<1>3. \A n \in 1 .. 5 : \A p \in Guarded : ~Restores(t[n], p)
  <2>1. \A p \in Guarded : /\ ~Restores(t[1], p) /\ ~Restores(t[2], p)
                            /\ ~Restores(t[3], p) /\ ~Restores(t[4], p)
                            /\ ~Restores(t[5], p)
    BY DEF FinalInverses, Restores, PropRestore, VaultDisable, Guarded, Marker
  <2> QED BY <2>1
<1> HIDE DEF t
<1>4. /\ l \in Seq(Entry) /\ Len(l) = Len(s) + 5 /\ Len(s) \in Nat
      /\ \A n \in 1 .. Len(l) : l[n] = IF n <= Len(s) THEN s[n] ELSE t[n - Len(s)]
  <2>1. /\ l \in Seq(Entry) /\ Len(l) = Len(s) + Len(t) /\ Len(s) \in Nat
        /\ \A n \in 1 .. Len(s) + Len(t) :
             l[n] = IF n <= Len(s) THEN s[n] ELSE t[n - Len(s)]
    BY <1>1, Concat
  <2> HIDE DEF l
  <2> QED BY <1>1, <2>1
<1> HIDE DEF l
<1>5. Owns(l, u)
  <2>1. Len(s) + 4 \in 1 .. Len(l) /\ l[Len(s) + 4] = t[4]
    BY <1>4
  <2> QED BY <2>1, <1>2 DEF Owns
<1>6. \A n \in 1 .. Len(l) : \A p \in Guarded : ~Restores(l[n], p)
  <2> TAKE n \in 1 .. Len(l)
  <2>1. CASE n <= Len(s)
    BY <2>1, <1>4 DEF Harmless
  <2>2. CASE n > Len(s)
    <3>1. n - Len(s) \in 1 .. 5
      BY <2>2, <1>4
    <3> QED BY <2>2, <3>1, <1>3, <1>4
  <2> QED BY <2>1, <2>2, <1>4
<1> QED BY <1>4, <1>5, <1>6 DEF l, t

LEMMA ClaimsCommitInit ==
    ASSUME ClaimsInductive, TypeInv', NEW i \in Io, CommitInit(i)
    PROVE  ClaimsInductive'
<1> DEFINE c == cmd[i]
           ups == prop["UPS_KEY_ID"] = Absent
           policy == ups /\ prop["POLICY_HASH"] = Absent
           legal == policy /\ prop["STATE"] \in {"Enabled", "Initializing"}
           l == c.log \o InitInverses
           d == [c EXCEPT !.log = l]
<1>1. c \in Command /\ cmd \in [Io -> Command] /\ Shape(c) /\ Control(c) /\ RestOK
  BY TaskType, TypeParts DEF ClaimsInductive, ShapeOK
<1>2. c.pc = "commit" /\ c.op = "PartInit" /\ Len(c.staged) = 2
  BY <1>1 DEF CommitInit, Control, StagedKeys
<1>3. vault' = vault /\ acked' = acked
  BY DEF CommitInit, history
<1>4. CASE prop["PTA_KEY_ID"] # Absent
  <2>1. Respond(i, FALSE, c) /\ prop' = prop
    BY <1>4 DEF CommitInit, AlreadyProvisioned
  <2>2. PICK r : /\ cmd' = [cmd EXCEPT ![i] = r]
                 /\ r.pc = "outbound" /\ r.log = c.log /\ ~Succeeded(r)
    BY <1>1, <2>1, RespondRecord
  <2>3. r.pc \notin Unclaimed /\ c.pc # "walk"
    BY <1>2, <2>2 DEF Unclaimed
  <2> QED BY <2>1, <2>2, <2>3, <1>3, SameLogStep
<1>5. CASE prop["PTA_KEY_ID"] = Absent
  <2>1. Respond(i, legal, d)
    BY <1>5, Zenon DEF CommitInit, AlreadyProvisioned
  <2>2. d \in Command /\ d.log = l /\ d.op = c.op /\ d.staged = c.staged
    <3>1. l \in Seq(Entry)
      BY <1>1, InverseTypes DEF Command
    <3> HIDE DEF l
    <3> QED BY <1>1, <3>1 DEF Command
  <2>3. PICK r : /\ cmd' = [cmd EXCEPT ![i] = r]
                 /\ r.pc = "outbound" /\ r.log = l
                 /\ Succeeded(r) => r.op = "PartInit" /\ r.staged = c.staged
    <3> HIDE DEF d, l, legal
    <3> QED BY <1>2, <2>1, <2>2, RespondRecord
  <2>4. c.log \in Seq(Entry) /\ \A n \in 1 .. Len(c.log) : Harmless(c.log[n])
    BY <1>1, <1>2 DEF Command, Shape, Plain, Unclaimed
  <2>5. /\ Once(l) /\ UnderClaim(l) /\ Has(l, "PTA_KEY_ID")
        /\ ~Has(l, "SD_INITIALIZED") /\ \A k : ~Owns(l, k)
    <3>1. /\ l \in Seq(Entry) /\ Len(c.log) + 1 \in 1 .. Len(l)
          /\ Restores(l[Len(c.log) + 1], "PTA_KEY_ID")
          /\ \A n \in 1 .. Len(l) : n # Len(c.log) + 1 => Harmless(l[n])
      BY <2>4, InitLog
    <3> HIDE DEF l
    <3>2. "PTA_KEY_ID" \in Marker /\ "SD_INITIALIZED" \in Marker
      BY DEF Marker
    <3> QED BY <3>1, <3>2, OneClaim
  <2> HIDE DEF l
  <2>6. Shape(r)
    BY <2>3, <2>5 DEF Shape, Plain, Claimed, Claimant, Unclaimed
  <2>7. prop' = [prop EXCEPT
                    !["PTA_KEY_ID"]  = c.staged[2],
                    !["UPS_KEY_ID"]  = IF ups THEN c.staged[1] ELSE @,
                    !["POLICY_HASH"] = IF policy THEN Present ELSE @,
                    !["STATE"]       = IF legal THEN "Initializing" ELSE @]
    BY <1>5 DEF CommitInit, AlreadyProvisioned
  <2>8. /\ prop'["PTA_KEY_ID"] = c.staged[2]
        /\ prop'["SD_INITIALIZED"] = prop["SD_INITIALIZED"]
        /\ prop'["SD_MK_KEY_ID"] = prop["SD_MK_KEY_ID"]
    <3> HIDE DEF c, ups, policy, legal
    <3> QED BY <1>1, <2>7 DEF RestOK, PropId, KeyProp, FlagProp
  <2>9. c.staged[2] # Absent /\ \A k \in KeyId : k # Absent
    BY <1>1, <1>2, ConstantsOK DEF Command
  <2>10. \A j \in Io : ~Has(cmd[j].log, "PTA_KEY_ID")
    BY <1>5 DEF ClaimsInductive, ClaimInv, OneHolder, Marker
  <2>11. \A j \in Io : cmd'[j] = IF j = i THEN r ELSE cmd[j]
    BY <1>1, <2>3
  <2>12. OneHolder'
    BY <2>3, <2>5, <2>8, <2>9, <2>10, <2>11
      DEF OneHolder, Marker, ClaimsInductive, ClaimInv
  <2>13. InitClaim'
    <3>1. \A j \in Io : Succeeded(cmd[j]) => cmd[j].op # "PartInit"
      BY <2>10 DEF ClaimsInductive, ShapeOK, Shape, Claimant
    <3>2. \A k \in KeyId : <<"PTA_KEY_ID", k>> \notin acked
      BY <1>5, <2>9 DEF ClaimsInductive, ClaimInv, InitClaim
    <3> QED BY <1>3, <2>3, <2>8, <2>11, <3>1, <3>2 DEF InitClaim
  <2>14. SdClaim'
    <3>1. ~(Succeeded(r) /\ r.op = "SdCreate") /\ ~Has(r.log, "SD_INITIALIZED")
      BY <2>3, <2>5
    <3>2. SdClaim
      BY DEF ClaimsInductive, ClaimInv
    <3> QED BY <1>3, <2>8, <2>11, <3>1, <3>2 DEF SdClaim
  <2>15. SoftDeletedIsOwned'
    <3>1. \A k \in KeyId : ~Owns(c.log, k)
      BY <2>4 DEF Owns, Harmless, VaultDisable
    <3> QED BY <1>3, <2>3, <3>1, OwnedStep
  <2> QED BY <2>3, <2>6, <2>12, <2>13, <2>14, <2>15, ShapeStep
        DEF ClaimsInductive, ClaimInv
<1> QED BY <1>4, <1>5

LEMMA ClaimsCommitFinal ==
    ASSUME ClaimsInductive, TypeInv', NEW i \in Io, CommitFinal(i)
    PROVE  ClaimsInductive'
<1> DEFINE c == cmd[i]
           u == c.ums
           disabled == vault[u] = "live"
           l == c.log \o FinalInverses(u)
           d == [c EXCEPT !.log = l]
<1>1. c \in Command /\ cmd \in [Io -> Command] /\ Shape(c) /\ Control(c) /\ RestOK
  BY TaskType, TypeParts DEF ClaimsInductive, ShapeOK
<1>2. c.pc = "commit" /\ c.op = "PartFinal" /\ u \in KeyId
  BY <1>1 DEF CommitFinal, Control
<1>3. acked' = acked
  BY DEF CommitFinal, history
<1>4. CASE prop["STATE"] # "Initializing"
  <2>1. Respond(i, FALSE, c) /\ prop' = prop /\ vault' = vault
    BY <1>4 DEF CommitFinal
  <2>2. PICK r : /\ cmd' = [cmd EXCEPT ![i] = r]
                 /\ r.pc = "outbound" /\ r.log = c.log /\ ~Succeeded(r)
    BY <1>1, <2>1, RespondRecord
  <2>3. r.pc \notin Unclaimed /\ c.pc # "walk"
    BY <1>2, <2>2 DEF Unclaimed
  <2> QED BY <2>1, <2>2, <2>3, <1>3, SameLogStep
<1>5. CASE prop["STATE"] = "Initializing"
  <2>1. Respond(i, disabled, d)
    BY <1>5, Zenon DEF CommitFinal
  <2>2. d \in Command /\ d.log = l /\ d.op = c.op /\ d.staged = c.staged
    <3>1. l \in Seq(Entry)
      BY <1>1, <1>2, InverseTypes, Concat DEF Command
    <3> HIDE DEF l
    <3> QED BY <1>1, <3>1 DEF Command
  <2>3. PICK r : /\ cmd' = [cmd EXCEPT ![i] = r]
                 /\ r.pc = "outbound" /\ r.log = l
                 /\ Succeeded(r) => r.op = "PartFinal"
    <3> HIDE DEF d, l, disabled
    <3> QED BY <1>2, <2>1, <2>2, RespondRecord
  <2>4. c.log \in Seq(Entry) /\ \A n \in 1 .. Len(c.log) : Harmless(c.log[n])
    BY <1>1, <1>2 DEF Command, Shape, Plain, Unclaimed
  <2>5. /\ Owns(l, u) /\ Once(l) /\ UnderClaim(l)
        /\ \A p \in Guarded : ~Has(l, p)
    <3>1. /\ l \in Seq(Entry) /\ Owns(l, u)
          /\ \A n \in 1 .. Len(l) : \A p \in Guarded : ~Restores(l[n], p)
      BY <1>2, <2>4, FinalLog
    <3> HIDE DEF l
    <3> QED BY <3>1, NoClaim
  <2> HIDE DEF l
  <2>6. Shape(r)
    BY <2>3, <2>5 DEF Shape, Plain, Claimed, Claimant, Unclaimed
  <2>7. Quiet(c, r)
    BY <2>3, <2>5 DEF Quiet, Guarded
  <2>8. prop' = [prop EXCEPT
                    !["LOCAL_MK_KEY_ID"]     = c.staged[1],
                    !["EPHEMERAL_MK_KEY_ID"] = c.staged[2],
                    !["UPS_KEY_ID"]          = c.staged[3],
                    !["STATE"] = IF disabled THEN "Initialized" ELSE @]
    BY <1>5 DEF CommitFinal
  <2>9. \A p \in Guarded : prop'[p] = prop[p]
    <3> HIDE DEF c, disabled
    <3> QED BY <1>1, <2>8 DEF RestOK, PropId, KeyProp, FlagProp, Guarded, Marker
  <2>10. ClaimInv'
    BY <1>3, <2>3, <2>7, <2>9, QuietStep
  <2>11. ShapeOK'
    BY <2>3, <2>6, ShapeStep
  <2>12. SoftDeletedIsOwned'
    <3>1. \A k \in KeyId : ~Owns(c.log, k)
      BY <2>4 DEF Owns, Harmless, VaultDisable
    <3>2. \A k \in KeyId : k # u => vault'[k] = vault[k]
      BY <1>1, <1>2, <1>5 DEF CommitFinal, RestOK
    <3>3. \A j \in Io : cmd'[j] = IF j = i THEN r ELSE cmd[j]
      BY <1>1, <2>3
    <3>4. \A k \in KeyId : vault[k] = "disabled" =>
              \E j \in Io : j # i /\ Owns(cmd[j].log, k)
      BY <3>1, OwnedAlt DEF ClaimsInductive
    <3>5. ASSUME NEW k \in KeyId, vault'[k] = "disabled"
          PROVE  \E j \in Io : Owns(cmd'[j].log, k)
      <4>1. CASE k = u
        BY <2>3, <2>5, <3>3, <4>1
      <4>2. CASE k # u
        BY <3>2, <3>3, <3>4, <3>5, <4>2
      <4> QED BY <4>1, <4>2
    <3> QED BY <3>5, OwnedAlt
  <2> QED BY <2>10, <2>11, <2>12 DEF ClaimsInductive
<1> QED BY <1>4, <1>5

LEMMA ClaimsClaimSd ==
    ASSUME ClaimsInductive, TypeInv', NEW i \in Io, ClaimSd(i)
    PROVE  ClaimsInductive'
<1> DEFINE c == cmd[i]
           e == PropRestore("SD_INITIALIZED", Absent)
           l == Append(c.log, e)
           d == [c EXCEPT !.pc = "vaultSd", !.log = l]
<1>1. c \in Command /\ cmd \in [Io -> Command] /\ Shape(c) /\ RestOK
  BY TaskType, TypeParts DEF ClaimsInductive, ShapeOK
<1>2. c.pc = "claim" /\ acked' = acked /\ vault' = vault
  BY DEF ClaimSd, history
<1>3. CASE prop["SD_INITIALIZED"] # Absent
  <2>1. cmd' = [cmd EXCEPT ![i] = Failed(c)] /\ prop' = prop
    BY <1>3 DEF ClaimSd, SdClaimed
  <2> QED BY <2>1, <1>2, FailedStep
<1>4. CASE prop["SD_INITIALIZED"] = Absent
  <2>1. cmd' = [cmd EXCEPT ![i] = d]
    BY <1>1, <1>4 DEF ClaimSd, SdClaimed
  <2>2. e \in Entry /\ Restores(e, "SD_INITIALIZED")
    BY EntryTypes, PropValues DEF FlagProp, Restores, PropRestore
  <2>3. d.pc = "vaultSd" /\ d.log = l
    <3> HIDE DEF e
    <3> QED BY <1>1 DEF Command
  <2> HIDE DEF d, e
  <2>4. c.log \in Seq(Entry) /\ \A n \in 1 .. Len(c.log) : Harmless(c.log[n])
    BY <1>1, <1>2 DEF Command, Shape, Plain, Unclaimed
  <2>5. /\ l \in Seq(Entry) /\ Len(c.log) + 1 \in 1 .. Len(l)
        /\ l[Len(c.log) + 1] = e
        /\ \A n \in 1 .. Len(l) : n # Len(c.log) + 1 => Harmless(l[n])
    BY <2>2, <2>4
  <2> HIDE DEF l
  <2>6. "PTA_KEY_ID" \in Marker /\ "SD_INITIALIZED" \in Marker
    BY DEF Marker
  <2>7. /\ Once(l) /\ UnderClaim(l) /\ Has(l, "SD_INITIALIZED")
        /\ ~Has(l, "PTA_KEY_ID")
    BY <2>2, <2>5, <2>6, OneClaim
  <2>8. Shape(d)
    <3>1. Claimed(d)
      BY <2>2, <2>3, <2>5, <2>7 DEF Claimed
    <3>2. Plain(d) /\ Claimant(d)
      BY <2>3 DEF Plain, Claimant, Succeeded, Unclaimed
    <3> QED BY <2>3, <2>7, <3>1, <3>2 DEF Shape
  <2>9. /\ prop'["SD_INITIALIZED"] = Present /\ Present # Absent
        /\ prop'["PTA_KEY_ID"] = prop["PTA_KEY_ID"]
        /\ prop'["SD_MK_KEY_ID"] = prop["SD_MK_KEY_ID"]
    BY <1>1, <1>4, ConstantsOK DEF ClaimSd, SdClaimed, RestOK, PropId, KeyProp, FlagProp
  <2>10. \A j \in Io : ~Has(cmd[j].log, "SD_INITIALIZED")
    BY <1>4 DEF ClaimsInductive, ClaimInv, OneHolder, Marker
  <2>11. \A j \in Io : cmd'[j] = IF j = i THEN d ELSE cmd[j]
    BY <1>1, <2>1
  <2>12. ~Succeeded(d)
    BY <2>3 DEF Succeeded
  <2>13. OneHolder'
    BY <2>3, <2>7, <2>9, <2>10, <2>11
      DEF OneHolder, Marker, ClaimsInductive, ClaimInv
  <2>14. InitClaim'
    <3>1. InitClaim
      BY DEF ClaimsInductive, ClaimInv
    <3> QED BY <1>2, <2>3, <2>7, <2>9, <2>11, <2>12, <3>1 DEF InitClaim
  <2>15. SdClaim'
    <3>1. \A j \in Io : Succeeded(cmd[j]) => cmd[j].op # "SdCreate"
      BY <2>10 DEF ClaimsInductive, ShapeOK, Shape, Claimant
    <3>2. \A k \in KeyId : <<"SD_MK_KEY_ID", k>> \notin acked
      BY <1>4, <2>9 DEF ClaimsInductive, ClaimInv, SdClaim
    <3> QED BY <1>2, <2>11, <2>12, <3>1, <3>2 DEF SdClaim
  <2>16. SoftDeletedIsOwned'
    <3>1. \A k \in KeyId : ~Owns(c.log, k)
      BY <2>4 DEF Owns, Harmless, VaultDisable
    <3> QED BY <1>2, <2>1, <3>1, OwnedStep
  <2> QED BY <2>1, <2>8, <2>13, <2>14, <2>15, <2>16, ShapeStep
        DEF ClaimsInductive, ClaimInv
<1> QED BY <1>3, <1>4

\* The two inverses logged under the claim.
LEMMA SdLog ==
    ASSUME NEW s \in Seq(Entry), NEW k \in KeyId, Once(s),
           Has(s, "SD_INITIALIZED"),
           \A n \in 1 .. Len(s) :
               Harmless(s[n]) \/ Restores(s[n], "SD_INITIALIZED")
    PROVE  LET l == s \o SdInverses(k) IN
           /\ l \in Seq(Entry) /\ Once(l) /\ UnderClaim(l)
           /\ Has(l, "SD_INITIALIZED") /\ ~Has(l, "PTA_KEY_ID")
<1> DEFINE t == SdInverses(k)
           l == s \o t
<1>1. t \in Seq(Entry) /\ Len(t) = 2
  BY InverseTypes DEF SdInverses
<1>2. /\ \A p \in Marker : ~Restores(t[1], p) /\ ~Restores(t[2], p)
      /\ ~Restores(t[1], "SD_MK_KEY_ID")
  BY DEF SdInverses, Restores, PropRestore, VaultCreate, Marker
<1> HIDE DEF t
<1>3. /\ l \in Seq(Entry) /\ Len(l) = Len(s) + 2 /\ Len(s) \in Nat
      /\ \A n \in 1 .. Len(l) : l[n] = IF n <= Len(s) THEN s[n] ELSE t[n - Len(s)]
  <2>1. /\ l \in Seq(Entry) /\ Len(l) = Len(s) + Len(t) /\ Len(s) \in Nat
        /\ \A n \in 1 .. Len(s) + Len(t) :
             l[n] = IF n <= Len(s) THEN s[n] ELSE t[n - Len(s)]
    BY <1>1, Concat
  <2> HIDE DEF l
  <2> QED BY <1>1, <2>1
<1> HIDE DEF l
<1>4. \A n \in 1 .. Len(l) : \A p \in Marker : Restores(l[n], p) =>
          n \in 1 .. Len(s) /\ Restores(s[n], p)
  <2> TAKE n \in 1 .. Len(l)
  <2>1. CASE n <= Len(s)
    BY <2>1, <1>3
  <2>2. CASE n = Len(s) + 1
    <3>1. l[n] = t[1]
      BY <2>2, <1>3
    <3> QED BY <3>1, <1>2
  <2>3. CASE n = Len(s) + 2
    <3>1. l[n] = t[2]
      BY <2>3, <1>3
    <3> QED BY <3>1, <1>2
  <2> QED BY <2>1, <2>2, <2>3, <1>3
<1>5. Once(l)
  BY <1>4 DEF Once
<1>6. PICK m \in 1 .. Len(s) : Restores(s[m], "SD_INITIALIZED")
  BY DEF Has
<1>7. m \in 1 .. Len(l) /\ Restores(l[m], "SD_INITIALIZED") /\ m < Len(s) + 2
  BY <1>3, <1>6
<1>8. UnderClaim(l)
  <2> SUFFICES ASSUME NEW n \in 1 .. Len(l), Restores(l[n], "SD_MK_KEY_ID")
               PROVE  \E q \in 1 .. n - 1 : Restores(l[q], "SD_INITIALIZED")
    BY DEF UnderClaim
  <2>1. ~(n <= Len(s))
    <3>1. \A q \in 1 .. Len(s) : ~Restores(s[q], "SD_MK_KEY_ID")
      BY DEF Harmless, Restores, Guarded
    <3> QED BY <3>1, <1>3
  <2>2. n = Len(s) + 2
    BY <2>1, <1>2, <1>3
  <2> QED BY <2>2, <1>7
<1>9. ~Has(l, "PTA_KEY_ID")
  <2>1. "PTA_KEY_ID" \in Marker /\ "PTA_KEY_ID" \in Guarded
    BY DEF Guarded, Marker
  <2>2. \A n \in 1 .. Len(s) : ~Restores(s[n], "PTA_KEY_ID")
    BY <2>1 DEF Harmless, Restores
  <2> QED BY <2>1, <2>2, <1>4 DEF Has
<1> QED BY <1>3, <1>5, <1>7, <1>8, <1>9 DEF l, t, Has

LEMMA ClaimsVaultSd ==
    ASSUME ClaimsInductive, TypeInv', NEW i \in Io, VaultSd(i)
    PROVE  ClaimsInductive'
<1> DEFINE c == cmd[i]
           k == FreeSlot
           st == Append(c.staged, k)
           l == c.log \o SdInverses(k)
           d == [c EXCEPT !.staged = st, !.log = l]
<1>1. c \in Command /\ cmd \in [Io -> Command] /\ Shape(c) /\ Control(c) /\ RestOK
  BY TaskType, TypeParts DEF ClaimsInductive, ShapeOK
<1>2. k \in KeyId /\ c.pc = "vaultSd" /\ acked' = acked
  BY FreeSlotType DEF VaultSd, history
<1>3. c.op = "SdCreate" /\ c.staged = <<>>
  BY <1>1, <1>2 DEF Control
<1>4. st \in Seq(KeyId) /\ st[1] = k
  BY <1>2, <1>3
<1>5. /\ c.log \in Seq(Entry) /\ Once(c.log) /\ Has(c.log, "SD_INITIALIZED")
      /\ \A n \in 1 .. Len(c.log) :
            Harmless(c.log[n]) \/ Restores(c.log[n], "SD_INITIALIZED")
  BY <1>1, <1>2 DEF Command, Shape, Claimed
<1>6. /\ l \in Seq(Entry) /\ Once(l) /\ UnderClaim(l)
      /\ Has(l, "SD_INITIALIZED") /\ ~Has(l, "PTA_KEY_ID")
  BY <1>2, <1>5, SdLog
<1>7. d \in Command /\ d.log = l /\ d.op = c.op /\ d.staged = st
  <2> HIDE DEF l, st
  <2> QED BY <1>1, <1>4, <1>6 DEF Command
<1>8. Respond(i, TRUE, d)
  BY Zenon DEF VaultSd
<1>9. PICK r : /\ cmd' = [cmd EXCEPT ![i] = r]
               /\ r.pc = "outbound" /\ r.log = l
               /\ Succeeded(r) => r.op = "SdCreate" /\ r.staged = st
  <2> DEFINE ok == TRUE
  <2>1. Respond(i, ok, d)
    BY <1>8
  <2> HIDE DEF d, l, st, ok
  <2> QED BY <1>3, <1>7, <2>1, RespondRecord
<1> HIDE DEF l, d
<1>10. Shape(r)
  BY <1>6, <1>9 DEF Shape, Plain, Claimed, Claimant, Unclaimed
<1>11. /\ prop'["SD_MK_KEY_ID"] = k
       /\ prop'["PTA_KEY_ID"] = prop["PTA_KEY_ID"]
       /\ prop'["SD_INITIALIZED"] = prop["SD_INITIALIZED"]
  <2>1. prop' = [prop EXCEPT !["SD_MK_KEY_ID"] = k]
    BY DEF VaultSd
  <2> HIDE DEF k
  <2> QED BY <1>1, <2>1 DEF RestOK, PropId, KeyProp, FlagProp
<1>12. \A j \in Io : cmd'[j] = IF j = i THEN r ELSE cmd[j]
  BY <1>1, <1>9
<1>13. OneHolder'
  <2>1. OneHolder
    BY DEF ClaimsInductive, ClaimInv
  <2> QED BY <1>5, <1>6, <1>9, <1>11, <1>12, <2>1 DEF OneHolder, Marker
<1>14. InitClaim'
  <2>1. InitClaim
    BY DEF ClaimsInductive, ClaimInv
  <2> QED BY <1>2, <1>6, <1>9, <1>11, <1>12, <2>1 DEF InitClaim
<1>15. SdClaim'
  <2>1. \A j \in Io : Succeeded(cmd[j]) /\ cmd[j].op = "SdCreate" => j = i
    BY <1>5 DEF ClaimsInductive, ShapeOK, Shape, Claimant, ClaimInv, OneHolder, Marker
  <2>2. \A q \in KeyId : <<"SD_MK_KEY_ID", q>> \notin acked
    BY <1>2, <1>5 DEF ClaimsInductive, ClaimInv, SdClaim, Committing
  <2> QED BY <1>2, <1>4, <1>9, <1>11, <1>12, <2>1, <2>2 DEF SdClaim
<1>16. SoftDeletedIsOwned'
  <2>1. \A q \in KeyId : ~Owns(c.log, q)
    BY <1>5 DEF Owns, Harmless, Restores, VaultDisable
  <2>2. \A q \in KeyId : vault'[q] = "disabled" => vault[q] = "disabled"
    BY <1>1, <1>2 DEF VaultSd, RestOK
  <2> QED BY <1>9, <2>1, <2>2, OwnedStep
<1> QED BY <1>9, <1>10, <1>13, <1>14, <1>15, <1>16, ShapeStep
      DEF ClaimsInductive, ClaimInv
-----------------------------------------------------------------------------
(* The acknowledgement and the walk.                                       *)

LEMMA AckPairs ==
    ASSUME NEW c \in Command, NEW k
    PROVE  /\ <<"PTA_KEY_ID", k>> \in Acknowledged(c) =>
                 c.op = "PartInit" /\ k = c.staged[2]
           /\ <<"SD_MK_KEY_ID", k>> \in Acknowledged(c) =>
                 c.op = "SdCreate" /\ k = c.staged[1]
<1>1. c.op \in OpName
  BY DEF Command
<1>2. PskPropOf(c.sess) # "PTA_KEY_ID" /\ PskPropOf(c.sess) # "SD_MK_KEY_ID"
  BY PskPropType DEF PskProp
<1>3. CASE c.op = "PartInit"
  BY <1>3 DEF Acknowledged
<1>4. CASE c.op = "PartFinal"
  BY <1>4 DEF Acknowledged
<1>5. CASE c.op = "SdCreate"
  BY <1>5 DEF Acknowledged
<1>6. CASE c.op = "PskChange"
  BY <1>2, <1>6 DEF Acknowledged
<1>7. CASE c.op = "UnwrapKey"
  BY <1>7 DEF Acknowledged
<1> QED BY <1>1, <1>3, <1>4, <1>5, <1>6, <1>7 DEF OpName

LEMMA ClaimsComplete ==
    ASSUME ClaimsInductive, TypeInv', NEW i \in Io, NEW posted \in BOOLEAN,
           Complete(i, posted)
    PROVE  ClaimsInductive'
<1> DEFINE c == cmd[i]
           commit == c.handlerOk /\ posted
           d == [IdleCommand EXCEPT !.pc = "walk", !.log = c.log, !.commit = commit]
<1>1. c \in Command /\ cmd \in [Io -> Command] /\ Shape(c) /\ RestOK
  BY TaskType, TypeParts DEF ClaimsInductive, ShapeOK
<1>2. c.pc = "complete" /\ prop' = prop /\ vault' = vault
  BY DEF Complete, part
<1>3. cmd' = [cmd EXCEPT ![i] = d]
  BY Zenon DEF Complete
<1>4. \/ acked' = acked
      \/ acked' = acked \cup Acknowledged(c) /\ commit /\ c.res = "ok"
  BY Zenon DEF Complete
<1>5. d.pc = "walk" /\ d.log = c.log /\ d.commit = commit
  <2> HIDE DEF commit
  <2> QED BY DEF IdleCommand
<1>6. commit => c.handlerOk
  BY <1>1 DEF Command
<1> HIDE DEF d, commit
<1>7. ~Committing(c) /\ ~Succeeded(d) /\ (commit => Committing(d))
  BY <1>2, <1>5, Zenon DEF Committing, Succeeded
<1>8. commit /\ c.res = "ok" => Succeeded(c)
  BY <1>2, <1>6, Zenon DEF Succeeded
<1>9. Shape(d)
  BY <1>1, <1>5, <1>7 DEF Shape, Plain, Claimed, Claimant, Unclaimed
<1>10. \A j \in Io : cmd'[j] = IF j = i THEN d ELSE cmd[j]
  BY <1>1, <1>3
<1>11. \A j \in Io : cmd'[j].log = cmd[j].log
  BY <1>5, <1>10
<1>12. OneHolder'
  <2>1. OneHolder
    BY DEF ClaimsInductive, ClaimInv
  <2> QED BY <1>2, <1>11, <2>1 DEF OneHolder
<1>13. InitClaim'
  <2>1. InitClaim
    BY DEF ClaimsInductive, ClaimInv
  <2>2. \A j \in Io : Succeeded(cmd'[j]) /\ cmd'[j].op = "PartInit"
            => prop'["PTA_KEY_ID"] = cmd'[j].staged[2]
    BY <1>2, <1>7, <1>10, <2>1 DEF InitClaim
  <2>3. ASSUME NEW k \in KeyId, <<"PTA_KEY_ID", k>> \in acked'
        PROVE  /\ prop'["PTA_KEY_ID"] = k
               /\ \A j \in Io : Has(cmd'[j].log, "PTA_KEY_ID") => Committing(cmd'[j])
    <3>1. CASE <<"PTA_KEY_ID", k>> \in acked
      <4>1. /\ prop["PTA_KEY_ID"] = k
            /\ \A j \in Io : Has(cmd[j].log, "PTA_KEY_ID") => Committing(cmd[j])
        BY <2>1, <3>1 DEF InitClaim
      <4> QED BY <1>2, <1>7, <1>10, <1>11, <4>1
    <3>2. CASE <<"PTA_KEY_ID", k>> \notin acked
      <4>1. <<"PTA_KEY_ID", k>> \in Acknowledged(c) /\ commit /\ c.res = "ok"
        BY <1>4, <2>3, <3>2
      <4>2. c.op = "PartInit" /\ k = c.staged[2] /\ Succeeded(c)
        BY <1>1, <1>8, <4>1, AckPairs
      <4>3. prop["PTA_KEY_ID"] = k
        BY <2>1, <4>2 DEF InitClaim
      <4>4. Has(c.log, "PTA_KEY_ID")
        BY <1>1, <4>2 DEF Shape, Claimant
      <4>5. \A j \in Io : Has(cmd[j].log, "PTA_KEY_ID") => j = i
        BY <4>4 DEF ClaimsInductive, ClaimInv, OneHolder, Marker
      <4> QED BY <1>2, <1>7, <1>10, <1>11, <4>1, <4>3, <4>5
    <3> QED BY <3>1, <3>2
  <2> QED BY <2>2, <2>3 DEF InitClaim
<1>14. SdClaim'
  <2>1. SdClaim
    BY DEF ClaimsInductive, ClaimInv
  <2>2. \A j \in Io : Succeeded(cmd'[j]) /\ cmd'[j].op = "SdCreate"
            => prop'["SD_MK_KEY_ID"] = cmd'[j].staged[1]
    BY <1>2, <1>7, <1>10, <2>1 DEF SdClaim
  <2>3. ASSUME NEW k \in KeyId, <<"SD_MK_KEY_ID", k>> \in acked'
        PROVE  /\ prop'["SD_MK_KEY_ID"] = k /\ prop'["SD_INITIALIZED"] = Present
               /\ \A j \in Io : Has(cmd'[j].log, "SD_INITIALIZED") => Committing(cmd'[j])
    <3>1. CASE <<"SD_MK_KEY_ID", k>> \in acked
      <4>1. /\ prop["SD_MK_KEY_ID"] = k /\ prop["SD_INITIALIZED"] = Present
            /\ \A j \in Io : Has(cmd[j].log, "SD_INITIALIZED") => Committing(cmd[j])
        BY <2>1, <3>1 DEF SdClaim
      <4> QED BY <1>2, <1>7, <1>10, <1>11, <4>1
    <3>2. CASE <<"SD_MK_KEY_ID", k>> \notin acked
      <4>1. <<"SD_MK_KEY_ID", k>> \in Acknowledged(c) /\ commit /\ c.res = "ok"
        BY <1>4, <2>3, <3>2
      <4>2. c.op = "SdCreate" /\ k = c.staged[1] /\ Succeeded(c)
        BY <1>1, <1>8, <4>1, AckPairs
      <4>3. prop["SD_MK_KEY_ID"] = k
        BY <2>1, <4>2 DEF SdClaim
      <4>4. Has(c.log, "SD_INITIALIZED")
        BY <1>1, <4>2 DEF Shape, Claimant
      <4>5. /\ prop["SD_INITIALIZED"] # Absent
            /\ \A j \in Io : Has(cmd[j].log, "SD_INITIALIZED") => j = i
        BY <4>4 DEF ClaimsInductive, ClaimInv, OneHolder, Marker
      <4>6. prop["SD_INITIALIZED"] = Present
        BY <1>1, <4>5, PropValues DEF RestOK, FlagProp
      <4> QED BY <1>2, <1>7, <1>10, <1>11, <4>1, <4>3, <4>5, <4>6
    <3> QED BY <3>1, <3>2
  <2> QED BY <2>2, <2>3 DEF SdClaim
<1>15. SoftDeletedIsOwned'
  BY <1>2, <1>3, <1>5, OwnedStep
<1> QED BY <1>3, <1>9, <1>12, <1>13, <1>14, <1>15, ShapeStep
      DEF ClaimsInductive, ClaimInv

\* Dropping the newest entry.
LEMMA PopLog ==
    ASSUME NEW l \in Seq(Entry), l # <<>>
    PROVE  LET n == Len(l)
               r == SubSeq(l, 1, n - 1)
           IN /\ n \in Nat \ {0} /\ n \in 1 .. n /\ l[n] \in Entry
              /\ Len(r) = n - 1 /\ \A m \in 1 .. n - 1 : r[m] = l[m]
<1> DEFINE n == Len(l)
           r == SubSeq(l, 1, n - 1)
<1>1. n \in Nat \ {0}
  BY EmptySeq
<1>2. n \in 1 .. n /\ \A m \in 1 .. n : l[m] \in Entry
  BY <1>1, ElementOfSeq
<1>3. \A m \in 1 .. n - 1 : l[m] \in Entry
  BY <1>1, <1>2
<1>4. /\ Len(r) = IF 1 <= n - 1 THEN n - 1 - 1 + 1 ELSE 0
      /\ \A m \in 1 .. n - 1 - 1 + 1 : r[m] = l[1 + m - 1]
  <2>1. 1 \in Int /\ n - 1 \in Int
    BY <1>1
  <2> QED BY <2>1, <1>3, SubSeqProperties
<1> HIDE DEF n, r
<1>5. Len(r) = n - 1 /\ \A m \in 1 .. n - 1 : r[m] = l[m]
  BY <1>1, <1>4
<1> QED BY <1>1, <1>2, <1>5 DEF n, r

LEMMA ClaimsUndoEntry ==
    ASSUME ClaimsInductive, TypeInv', NEW i \in Io, UndoEntry(i)
    PROVE  ClaimsInductive'
<1> DEFINE c == cmd[i]
           n == Len(c.log)
           e == c.log[n]
           rest == SubSeq(c.log, 1, n - 1)
           failed == \/ e.kind = "VaultDisable" /\ vault[e.id] = "free"
                     \/ e.kind = "PropRestore" /\ e.id \in PskProp /\ ~Serving
           d == [c EXCEPT !.log = rest, !.poisoned = c.poisoned \/ failed]
<1>1. c \in Command /\ cmd \in [Io -> Command] /\ Shape(c) /\ RestOK
  BY TaskType, TypeParts DEF ClaimsInductive, ShapeOK
<1>2. /\ c.pc = "walk" /\ ~c.commit /\ c.log \in Seq(Entry) /\ c.log # <<>>
      /\ acked' = acked
  BY <1>1 DEF UndoEntry, history, Command
<1>3. cmd' = [cmd EXCEPT ![i] = d]
  <2>1. cmd' = [cmd EXCEPT ![i].log = rest, ![i].poisoned = @ \/ failed]
    BY Zenon DEF UndoEntry
  <2> HIDE DEF rest, failed
  <2> QED BY <1>1, <2>1
<1>4. d.pc = "walk" /\ d.commit = c.commit /\ d.log = rest
  <2> HIDE DEF rest, failed
  <2> QED BY <1>1, <1>2 DEF Command
<1>5. /\ n \in Nat \ {0} /\ n \in 1 .. n /\ e \in Entry
      /\ Len(rest) = n - 1 /\ \A m \in 1 .. n - 1 : rest[m] = c.log[m]
  BY <1>2, PopLog
<1>6. vault' = CASE e.kind = "VaultCreate" -> [vault EXCEPT ![e.id] = "free"]
                 [] e.kind = "VaultDisable" /\ ~failed
                       -> [vault EXCEPT ![e.id] = "live"]
                 [] OTHER -> vault
  BY Zenon DEF UndoEntry
<1>7. prop' = IF e.kind = "PropRestore" /\ ~failed
              THEN [prop EXCEPT ![e.id] = e.val] ELSE prop
  BY Zenon DEF UndoEntry
<1>8. failed => /\ e.kind = "VaultDisable" => vault[e.id] = "free"
                /\ e.kind = "PropRestore" => e.id \in PskProp
  OBVIOUS
<1> HIDE DEF rest, failed, d, e, n
<1>9. ~Committing(c) /\ ~Committing(d) /\ ~Succeeded(d)
  BY <1>2, <1>4 DEF Committing, Succeeded
<1>10. \A p : Has(rest, p) => Has(c.log, p)
  BY <1>5 DEF Has, n
<1>11. Shape(d)
  <2>1. Once(c.log) /\ UnderClaim(c.log)
    BY <1>1, <1>9 DEF Shape
  <2>2. Once(rest)
    BY <1>5, <2>1 DEF Once, n
  <2>3. UnderClaim(rest)
    BY <1>5, <2>1 DEF UnderClaim, n
  <2> QED BY <1>4, <1>9, <2>2, <2>3 DEF Shape, Plain, Claimed, Claimant, Unclaimed
<1>12. ShapeOK'
  BY <1>3, <1>11, ShapeStep
<1>13. SoftDeletedIsOwned'
  <2>1. ASSUME NEW k \in KeyId, vault'[k] = "disabled"
        PROVE  vault[k] = "disabled" /\ (Owns(c.log, k) => Owns(rest, k))
    <3>1. e.kind # "PropRestore" => e.id \in KeyId
      BY <1>5 DEF Entry
    <3>2. vault[k] = "disabled" /\ (e.kind = "VaultDisable" => e.id # k)
      BY <1>1, <1>6, <1>8, <2>1, <3>1 DEF RestOK
    <3>3. e # VaultDisable(k)
      BY <3>2 DEF VaultDisable
    <3>4. ASSUME NEW m \in 1 .. Len(c.log), c.log[m] = VaultDisable(k)
          PROVE  Owns(rest, k)
      <4>1. m # n
        BY <3>3, <3>4 DEF e
      <4>2. m \in 1 .. Len(rest) /\ rest[m] = VaultDisable(k)
        BY <1>5, <3>4, <4>1 DEF n
      <4> QED BY <4>2 DEF Owns
    <3> QED BY <3>2, <3>4 DEF Owns
  <2>2. \A k \in KeyId : vault'[k] = "disabled" =>
            vault[k] = "disabled" /\ (Owns(cmd[i].log, k) => Owns(d.log, k))
    BY <1>4, <2>1
  <2> QED BY <1>3, <2>2, OwnedStep
<1>14. \A j \in Io : cmd'[j] = IF j = i THEN d ELSE cmd[j]
  BY <1>1, <1>3
<1>15. Guarded \subseteq PropId /\ DOMAIN prop = PropId
  BY <1>1 DEF Guarded, Marker, PropId, KeyProp, FlagProp, RestOK
<1>16. \A p \in Guarded : ~Restores(e, p) => prop'[p] = prop[p]
  BY <1>7, <1>15 DEF Restores
<1>17. \A p : Restores(e, p) => Has(c.log, p)
  BY <1>5 DEF Has, e, n
<1>18. CASE \A p \in Guarded : ~Restores(e, p)
  <2>1. Quiet(c, d)
    BY <1>4, <1>9, <1>10 DEF Quiet
  <2>2. ClaimInv'
    BY <1>2, <1>3, <1>16, <1>18, <2>1, QuietStep
  <2> QED BY <1>12, <1>13, <2>2 DEF ClaimsInductive
<1>19. ASSUME NEW m \in Guarded, Restores(e, m)
       PROVE  ClaimsInductive'
  <2> DEFINE q == IF m = "PTA_KEY_ID" THEN m ELSE "SD_INITIALIZED"
  <2>1. q \in Marker /\ Has(c.log, q)
    <3>1. CASE m = "SD_MK_KEY_ID"
      <4>1. UnderClaim(c.log) /\ n \in 1 .. Len(c.log) /\ e = c.log[n]
        BY <1>1, <1>5, <1>9 DEF Shape, e, n
      <4>2. PICK x \in 1 .. n - 1 : Restores(c.log[x], "SD_INITIALIZED")
        BY <1>19, <3>1, <4>1 DEF UnderClaim
      <4>3. x \in 1 .. Len(c.log)
        BY <1>5, <4>2 DEF n
      <4> QED BY <3>1, <4>2, <4>3 DEF Has, Marker
    <3>2. CASE m # "SD_MK_KEY_ID"
      BY <1>17, <1>19, <3>2 DEF Guarded, Marker
    <3> QED BY <3>1, <3>2
  <2>2. \A j \in Io : Has(cmd[j].log, q) => j = i
    BY <2>1 DEF ClaimsInductive, ClaimInv, OneHolder
  <2>3. \A p \in Guarded : p # m => prop'[p] = prop[p]
    BY <1>16, <1>19 DEF Restores
  <2>4. m \in Marker => ~Has(rest, m)
    <3> SUFFICES ASSUME m \in Marker, NEW x \in 1 .. Len(rest), Restores(rest[x], m)
                 PROVE  FALSE
      BY DEF Has
    <3>1. x \in 1 .. Len(c.log) /\ x # n /\ Restores(c.log[x], m)
      BY <1>5 DEF n
    <3>2. n \in 1 .. Len(c.log) /\ Restores(c.log[n], m)
      BY <1>5, <1>19 DEF n, e
    <3> QED BY <1>1, <3>1, <3>2 DEF Shape, Once
  <2>5. OneHolder'
    <3>1. OneHolder
      BY DEF ClaimsInductive, ClaimInv
    <3>2. \A j \in Io : \A p \in Marker : Has(cmd'[j].log, p) => Has(cmd[j].log, p)
      BY <1>4, <1>10, <1>14
    <3>3. \A j \in Io : m \in Marker => ~Has(cmd'[j].log, m)
      <4>1. m \in Marker => q = m
        BY DEF Marker
      <4> HIDE DEF q
      <4> QED BY <1>4, <1>14, <2>2, <2>4, <4>1
    <3>4. \A p \in Marker : p \in Guarded
      BY DEF Guarded
    <3> QED BY <2>3, <3>1, <3>2, <3>3, <3>4 DEF OneHolder
  <2>6. InitClaim'
    <3>1. InitClaim
      BY DEF ClaimsInductive, ClaimInv
    <3>2. CASE m = "PTA_KEY_ID"
      <4>1. \A j \in Io : ~(Succeeded(cmd'[j]) /\ cmd'[j].op = "PartInit")
        BY <1>9, <1>14, <2>2, <3>2 DEF ClaimsInductive, ShapeOK, Shape, Claimant
      <4>2. \A k \in KeyId : <<"PTA_KEY_ID", k>> \notin acked
        BY <1>9, <2>1, <3>1, <3>2 DEF InitClaim
      <4> QED BY <1>2, <4>1, <4>2 DEF InitClaim
    <3>3. CASE m # "PTA_KEY_ID"
      <4>1. prop'["PTA_KEY_ID"] = prop["PTA_KEY_ID"]
        BY <2>3, <3>3 DEF Guarded, Marker
      <4> QED BY <1>2, <1>4, <1>9, <1>10, <1>14, <3>1, <4>1 DEF InitClaim
    <3> QED BY <3>2, <3>3
  <2>7. SdClaim'
    <3>1. SdClaim
      BY DEF ClaimsInductive, ClaimInv
    <3>2. CASE m # "PTA_KEY_ID"
      <4>1. \A j \in Io : ~(Succeeded(cmd'[j]) /\ cmd'[j].op = "SdCreate")
        BY <1>9, <1>14, <2>2, <3>2 DEF ClaimsInductive, ShapeOK, Shape, Claimant
      <4>2. \A k \in KeyId : <<"SD_MK_KEY_ID", k>> \notin acked
        BY <1>9, <2>1, <3>1, <3>2 DEF SdClaim
      <4> QED BY <1>2, <4>1, <4>2 DEF SdClaim
    <3>3. CASE m = "PTA_KEY_ID"
      <4>1. /\ prop'["SD_MK_KEY_ID"] = prop["SD_MK_KEY_ID"]
            /\ prop'["SD_INITIALIZED"] = prop["SD_INITIALIZED"]
        BY <2>3, <3>3 DEF Guarded, Marker
      <4> QED BY <1>2, <1>4, <1>9, <1>10, <1>14, <3>1, <4>1 DEF SdClaim
    <3> QED BY <3>2, <3>3
  <2> QED BY <1>12, <1>13, <2>5, <2>6, <2>7 DEF ClaimsInductive, ClaimInv
<1> QED BY <1>18, <1>19

LEMMA TailLog ==
    ASSUME NEW l \in Seq(Entry), l # <<>>
    PROVE  /\ Len(l) \in Nat \ {0} /\ Head(l) = l[1] /\ l[1] \in Entry
           /\ Len(Tail(l)) = Len(l) - 1
           /\ \A m \in 1 .. Len(l) - 1 : Tail(l)[m] = l[m + 1]
<1>1. Len(l) \in Nat \ {0}
  BY EmptySeq
<1>2. Head(l) = l[1] /\ l[1] \in Entry
  BY <1>1, ElementOfSeq
<1> QED BY <1>1, <1>2

LEMMA ClaimsCommitEntry ==
    ASSUME ClaimsInductive, TypeInv', NEW i \in Io, CommitEntry(i)
    PROVE  ClaimsInductive'
<1> DEFINE c == cmd[i]
           e == Head(c.log)
           rest == Tail(c.log)
           d == [c EXCEPT !.log = rest]
<1>1. c \in Command /\ cmd \in [Io -> Command] /\ Shape(c) /\ RestOK
  BY TaskType, TypeParts DEF ClaimsInductive, ShapeOK
<1>2. /\ c.pc = "walk" /\ c.commit /\ c.log \in Seq(Entry) /\ c.log # <<>>
      /\ acked' = acked /\ prop' = prop
  BY <1>1 DEF CommitEntry, history, Command
<1>3. cmd' = [cmd EXCEPT ![i] = d]
  BY <1>1 DEF CommitEntry
<1>4. d.pc = "walk" /\ d.commit = c.commit /\ d.log = rest
  <2> HIDE DEF rest
  <2> QED BY <1>1, <1>2 DEF Command
<1>5. /\ Len(c.log) \in Nat \ {0} /\ e = c.log[1] /\ e \in Entry
      /\ Len(rest) = Len(c.log) - 1
      /\ \A m \in 1 .. Len(c.log) - 1 : rest[m] = c.log[m + 1]
  BY <1>2, TailLog
<1>6. vault' = IF e.kind = "VaultDisable"
               THEN [vault EXCEPT ![e.id] = "free"] ELSE vault
  BY DEF CommitEntry
<1> HIDE DEF rest, d, e
<1>7. Committing(c) /\ Committing(d) /\ ~Succeeded(d)
  BY <1>2, <1>4 DEF Committing, Succeeded
<1>8. \A p : Has(rest, p) => Has(c.log, p)
  BY <1>5 DEF Has
<1>9. Shape(d)
  <2>1. Once(c.log)
    BY <1>1 DEF Shape
  <2>2. Once(rest)
    <3> SUFFICES ASSUME NEW p \in Marker, NEW m \in 1 .. Len(rest),
                        NEW n \in 1 .. Len(rest),
                        Restores(rest[m], p), Restores(rest[n], p)
                 PROVE  m = n
      BY DEF Once
    <3>1. /\ m + 1 \in 1 .. Len(c.log) /\ n + 1 \in 1 .. Len(c.log)
          /\ Restores(c.log[m + 1], p) /\ Restores(c.log[n + 1], p)
      BY <1>5
    <3>2. m + 1 = n + 1
      BY <2>1, <3>1 DEF Once
    <3> QED BY <3>2
  <2> QED BY <1>4, <1>7, <2>2 DEF Shape, Plain, Claimed, Claimant, Unclaimed
<1>10. Quiet(c, d)
  BY <1>4, <1>7, <1>8 DEF Quiet
<1>11. ASSUME NEW k \in KeyId, vault'[k] = "disabled"
       PROVE  vault[k] = "disabled" /\ (Owns(c.log, k) => Owns(rest, k))
  <2>1. e.kind = "VaultDisable" => e.id \in KeyId
    BY <1>5 DEF Entry
  <2>2. vault[k] = "disabled" /\ (e.kind = "VaultDisable" => e.id # k)
    BY <1>1, <1>6, <1>11, <2>1 DEF RestOK
  <2>3. e # VaultDisable(k)
    BY <2>2 DEF VaultDisable
  <2>4. ASSUME NEW m \in 1 .. Len(c.log), c.log[m] = VaultDisable(k)
        PROVE  Owns(rest, k)
    <3>1. m # 1
      BY <1>5, <2>3, <2>4
    <3>2. m - 1 \in 1 .. Len(rest) /\ rest[m - 1] = VaultDisable(k)
      BY <1>5, <2>4, <3>1
    <3> QED BY <3>2 DEF Owns
  <2> QED BY <2>2, <2>4 DEF Owns
<1>12. \A k \in KeyId : vault'[k] = "disabled" =>
           vault[k] = "disabled" /\ (Owns(cmd[i].log, k) => Owns(d.log, k))
  BY <1>4, <1>11
<1> QED BY <1>2, <1>3, <1>9, <1>10, <1>12, TaskStep
-----------------------------------------------------------------------------
LEMMA ClaimsStep == ClaimsInductive /\ [Next]_vars => ClaimsInductive'
<1> SUFFICES ASSUME ClaimsInductive, [Next]_vars PROVE ClaimsInductive'
  OBVIOUS
<1>1. TypeInv'
  BY TypeStep DEF ClaimsInductive
<1>2. CASE UNCHANGED vars
  <2>1. UNCHANGED <<prop, vault, cmd, acked>>
    BY <1>2 DEF vars
  <2> QED BY <1>1, <2>1 DEF ClaimsInductive, ShapeOK, ClaimInv, OneHolder,
                            InitClaim, SdClaim, SoftDeletedIsOwned
<1>3. CASE Next
  <2>1. PICK i \in Io : Arrive(i) \/ Step(i)
    BY <1>3 DEF Next
  <2> QED BY <1>1, <2>1, ClaimsArrive, ClaimsLocal, ClaimsPsk, ClaimsStage,
             ClaimsUnwrap, ClaimsCommitInit, ClaimsCommitFinal, ClaimsClaimSd,
             ClaimsVaultSd, ClaimsComplete, ClaimsUndoEntry,
             ClaimsCommitEntry, ClaimsWalkEnd DEF Step
<1> QED BY <1>2, <1>3

LEMMA ClaimsAlways == Spec => []ClaimsInductive
BY ClaimsInit, ClaimsStep, PTL DEF Spec

\* A PartInit the host saw succeed is final, for any number of tasks, racing
\* commands and lost completions: no other command's rollback can reach the
\* PTA_KEY_ID its guards-first commit block claimed.
THEOREM InitStands == Spec => []AckedInitStands
<1>1. ClaimsInductive => AckedInitStands
  BY DEF ClaimsInductive, ClaimInv, InitClaim, AckedInitStands
<1> QED BY <1>1, ClaimsAlways, PTL

\* A security domain the host saw created is final: commit_sd_to_vault's
\* SD_INITIALIZED claim keeps the published SDMK id out of reach of every
\* loser's and every failed claimant's walk.
THEOREM SdStands == Spec => []AckedSdStands
<1>1. ClaimsInductive => AckedSdStands
  BY DEF ClaimsInductive, ClaimInv, SdClaim, AckedSdStands
<1> QED BY <1>1, ClaimsAlways, PTL

\* A key that PartFinal soft-deleted is always named by the unwalked log of a
\* running command, so no interleaving leaves a disabled slot behind.
THEOREM SoftDeletedOwned == Spec => []SoftDeletedIsOwned
<1>1. ClaimsInductive => SoftDeletedIsOwned
  BY DEF ClaimsInductive
<1> QED BY <1>1, ClaimsAlways, PTL
=============================================================================
