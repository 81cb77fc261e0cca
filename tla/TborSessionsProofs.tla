------------------------- MODULE TborSessionsProofs -------------------------
(* Theorems about TborSessions, for every number of IO slots, session      *)
(* slots and vault slots and every number of commands and losses.          *)
EXTENDS TborSessions, TLAPS, WellFoundedInduction

(* What a task's locals hold at each await point. *)
Control(c) ==
    /\ c.pc \in {"idle", "inbound", "hpke", "flush"} => c.log = {}
    /\ c.pc \in {"hpke", "mac"} => c.op = "OpenInit"
    /\ c.pc \in {"verify", "seed", "derive"} =>
         /\ c.op = "OpenFinish" /\ c.log = {c.slot}
         /\ c.loaded \in Handshake /\ c.loaded[2] = RoleOf(c.slot)
    /\ c.pc = "open" => c.op = "PskChange" /\ c.loaded \in Handshake
    /\ c.pc = "flush" => c.op = "Flush"
    /\ c.op = "OpenInit" /\ c.res = "ok" =>
         /\ c.pc \in {"mac", "outbound"} => c.hs \in Handshake
         /\ c.pc = "complete" /\ c.handlerOk => c.hs \in Handshake

ControlOK == \A i \in Io : Control(cmd[i])

\* A pending slot holds a handshake of its own role, stamped with its number.
PendingOK ==
    \A s \in Slot : tbl[s].st = "Pending" =>
        /\ tbl[s].hs \in Handshake /\ tbl[s].hs[2] = RoleOf(s)
        /\ tbl[s].seq = tbl[s].hs[1]

\* Everything the type invariant says but of the tasks, in two halves.
TableOK ==
    /\ tbl \in [Slot -> SlotRec]
    /\ nextSeq \in Nat /\ lives \in Nat
    /\ vault \in [KeyId -> Handshake \cup {NoHs}]
    /\ opener \in [Slot -> Io \cup {NoIo}]
    /\ PendingOK /\ SessionKeysOwned /\ RoleBySlot

RestOK ==
    /\ told \subseteq Slot \X Handshake
    /\ issued \in 0 .. MaxCommands /\ lost \in 0 .. MaxLost
    /\ rotated \in Seq(Handshake \X Nat)

TasksOK == cmd \in [Io -> Command] /\ ControlOK

KeysInv == TableOK /\ RestOK /\ TasksOK

\* A slot whose occupant is not yet reported is the one its command's log
\* names, so the command's walk withdraws it.
OpenerOK ==
    \A s \in Slot : opener[s] # NoIo =>
        cmd[opener[s]].pc # "idle" /\ cmd[opener[s]].log = {s}

\* A promotion's number identifies it, and a rotation under way or done has
\* spent its session's budget.
LifeOK ==
    /\ \A s \in Slot : tbl[s].st = "Active" =>
         /\ tbl[s].life <= lives
         /\ \A t \in Slot : tbl[t].st = "Active" /\ tbl[t].life = tbl[s].life => t = s
    /\ \A i \in Io : cmd[i].pc = "open" =>
         /\ cmd[i].life <= lives
         /\ \A s \in Slot : tbl[s].st = "Active" /\ tbl[s].life = cmd[i].life
                              => tbl[s].used
         /\ \A j \in Io : cmd[j].pc = "open" /\ cmd[j].life = cmd[i].life => j = i
         /\ \A n \in 1 .. Len(rotated) : rotated[n][2] # cmd[i].life
    /\ \A n \in 1 .. Len(rotated) :
         /\ rotated[n][2] <= lives
         /\ \A s \in Slot : tbl[s].st = "Active" /\ tbl[s].life = rotated[n][2]
                              => tbl[s].used

SessionsInductive == KeysInv /\ OpenerOK /\ LifeOK /\ OneRotationPerSession
-----------------------------------------------------------------------------
LEMMA Sentinels ==
    /\ NoHs \notin Handshake
    /\ EmptySlot \in SlotRec
    /\ 0 \in Slot /\ Slot \subseteq Nat
<1>1. NoHs \notin Handshake
  BY DEF NoHs, Handshake
<1>2. EmptySlot \in SlotRec
  BY DEF EmptySlot, SlotRec, SlotState
<1> QED BY <1>1, <1>2, ConstantsOK DEF Slot

LEMMA IdleTask == IdleCommand \in Command /\ Control(IdleCommand)
<1>1. IdleCommand \in Command
  BY Sentinels DEF IdleCommand, Command, PC, Op
<1>2. IdleCommand.pc = "idle" /\ IdleCommand.log = {}
  BY DEF IdleCommand
<1> QED BY <1>1, <1>2 DEF Control

\* A handler that failed keeps its command's name and its log.
LEMMA FailedTask ==
    ASSUME NEW c \in Command
    PROVE  /\ Failed(c) \in Command /\ Control(Failed(c))
           /\ Failed(c).pc = "outbound" /\ Failed(c).log = c.log
<1>1. Failed(c) \in Command
  BY IdleTask DEF Failed, IdleCommand, Command, PC
<1>2. /\ Failed(c).pc = "outbound" /\ Failed(c).log = c.log
      /\ Failed(c).res = "err"
  BY DEF Failed, IdleCommand
<1> QED BY <1>1, <1>2 DEF Control

\* One task's record is replaced by a well-formed one.
LEMMA TaskUpdate ==
    ASSUME TasksOK, NEW i \in Io, NEW c \in Command, Control(c),
           cmd' = [cmd EXCEPT ![i] = c]
    PROVE  TasksOK'
BY DEF TasksOK, ControlOK

LEMMA TaskFails ==
    ASSUME TasksOK, NEW i \in Io, NEW c \in Command,
           cmd' = [cmd EXCEPT ![i] = Failed(c)]
    PROVE  TasksOK'
<1>1. Failed(c) \in Command /\ Control(Failed(c))
  BY FailedTask
<1> HIDE DEF Failed
<1> QED BY <1>1, TaskUpdate

LEMMA TaskFacts ==
    ASSUME TasksOK, NEW i \in Io
    PROVE  cmd[i] \in Command /\ Control(cmd[i]) /\ cmd \in [Io -> Command]
BY DEF TasksOK, ControlOK

-----------------------------------------------------------------------------
(* What the session table's verbs keep.                                    *)

LEMMA RoleRange ==
    ASSUME NEW role \in {"CO", "CU"}, NEW s \in role_slot_range(role)
    PROVE  s \in Slot /\ RoleOf(s) = role
BY Sentinels DEF role_slot_range, RoleOf

\* Every non-empty set of naturals has a least element.
LEMMA Least ==
    ASSUME NEW T, T \subseteq Nat, T # {}
    PROVE  \E x \in T : \A y \in T : x <= y
<1>1. PICK R : R = OpToRel(<, Nat)
  OBVIOUS
<1>2. IsWellFoundedOn(R, Nat)
  BY <1>1, NatLessThanWellFounded, Zenon
<1>3. PICK x \in T : \A y \in T : ~(<<y, x>> \in R)
  BY <1>2, WFMin, Zenon
<1>4. \A y, z \in Nat : <<y, z>> \in R <=> y < z
  BY <1>1 DEF OpToRel
<1>5. \A y \in T : ~(y < x)
  BY <1>3, <1>4, Zenon
<1>6. \A y \in T : x <= y
  BY <1>5
<1> QED BY <1>6, Zenon

\* create_pending takes an empty slot of the role, and a pending one only
\* when there is none, and then the oldest.
LEMMA VictimFacts ==
    ASSUME NEW role \in {"CO", "CU"}, NEW s \in Victim(role)
    PROVE  /\ s \in role_slot_range(role)
           /\ \/ tbl[s].st = "Empty"
              \/ /\ tbl[s].st = "Pending"
                 /\ \A t \in role_slot_range(role) :
                      /\ tbl[t].st # "Empty"
                      /\ tbl[t].st = "Pending" => tbl[s].seq <= tbl[t].seq
<1> DEFINE free == {t \in role_slot_range(role) : tbl[t].st = "Empty"}
           pend == {t \in role_slot_range(role) : tbl[t].st = "Pending"}
<1>1. CASE free = {}
  <2>1. s \in {t \in pend : /\ \A u \in pend : tbl[t].seq <= tbl[u].seq
                            /\ \A u \in pend : tbl[u].seq = tbl[t].seq => t <= u}
    BY <1>1 DEF Victim
  <2> QED BY <1>1, <2>1, Zenon
<1>2. CASE free # {}
  <2>1. free \subseteq Nat
    BY RoleRange, Sentinels
  <2>2. \E t \in free : \A u \in free : t <= u
    BY <1>2, <2>1, Least
  <2>3. s = CHOOSE t \in free : \A u \in free : t <= u
    BY <1>2 DEF Victim
  <2>4. s \in free
    BY <2>2, <2>3, Zenon
  <2> QED BY <2>4
<1> QED BY <1>1, <1>2

LEMMA TableSame ==
    ASSUME TableOK, UNCHANGED table PROVE TableOK'
BY DEF table, TableOK, PendingOK, SessionKeysOwned, RoleBySlot

\* session_destroy takes the slot's key with it, and only that key.
LEMMA TableDestroy ==
    ASSUME TableOK, NEW s \in Slot, Destroy(s) PROVE TableOK'
<1>1. /\ tbl' = [tbl EXCEPT ![s] = EmptySlot]
      /\ vault' = IF tbl[s].st = "Active"
                  THEN [vault EXCEPT ![tbl[s].key] = NoHs] ELSE vault
      /\ opener' = [opener EXCEPT ![s] = NoIo]
      /\ nextSeq' = nextSeq /\ lives' = lives
  BY DEF Destroy
<1>2. /\ tbl \in [Slot -> SlotRec] /\ vault \in [KeyId -> Handshake \cup {NoHs}]
      /\ opener \in [Slot -> Io \cup {NoIo}] /\ nextSeq \in Nat /\ lives \in Nat
      /\ PendingOK /\ SessionKeysOwned /\ RoleBySlot
  BY DEF TableOK
<1>3. tbl' \in [Slot -> SlotRec]
  BY <1>1, <1>2, Sentinels
<1>4. tbl'[s].st = "Empty" /\ \A t \in Slot \ {s} : tbl'[t] = tbl[t]
  BY <1>1, <1>2 DEF EmptySlot
<1>5. PendingOK'
  BY <1>2, <1>4 DEF PendingOK
<1>6. vault' \in [KeyId -> Handshake \cup {NoHs}]
  BY <1>1, <1>2
<1>7. \A t \in Slot : tbl'[t].st = "Active" =>
        t # s /\ tbl'[t] = tbl[t] /\ vault'[tbl[t].key] = vault[tbl[t].key]
  <2> SUFFICES ASSUME NEW t \in Slot, tbl'[t].st = "Active"
               PROVE t # s /\ tbl'[t] = tbl[t] /\ vault'[tbl[t].key] = vault[tbl[t].key]
    OBVIOUS
  <2>1. t # s /\ tbl'[t] = tbl[t]
    BY <1>4
  <2>2. tbl[t].key \in KeyId /\ (tbl[s].st = "Active" => tbl[s].key # tbl[t].key)
    BY <1>2, <2>1 DEF SessionKeysOwned
  <2> QED BY <1>1, <1>2, <2>1, <2>2
<1>8. SessionKeysOwned'
  <2>1. \A t \in Slot : tbl'[t].st = "Active" =>
         /\ tbl'[t].key \in KeyId /\ vault'[tbl'[t].key] # NoHs
         /\ \A u \in Slot : tbl'[u].st = "Active" /\ tbl'[u].key = tbl'[t].key => u = t
    BY <1>2, <1>7 DEF SessionKeysOwned
  <2>2. ASSUME NEW k \in KeyId, vault'[k] # NoHs
        PROVE \E t \in Slot : tbl'[t].st = "Active" /\ tbl'[t].key = k
    <3>1. vault[k] # NoHs /\ ~(tbl[s].st = "Active" /\ tbl[s].key = k)
      BY <1>1, <1>2, <2>2
    <3>2. PICK t \in Slot : tbl[t].st = "Active" /\ tbl[t].key = k
      BY <1>2, <3>1 DEF SessionKeysOwned
    <3>3. t # s
      BY <3>1, <3>2
    <3> QED BY <1>4, <3>2, <3>3
  <2> QED BY <2>1, <2>2 DEF SessionKeysOwned
<1>9. RoleBySlot'
  BY <1>2, <1>7 DEF RoleBySlot
<1>10. opener' \in [Slot -> Io \cup {NoIo}]
  BY <1>1, <1>2
<1> QED BY <1>1, <1>2, <1>3, <1>5, <1>6, <1>8, <1>9, <1>10 DEF TableOK

\* The records the two verbs write.
LEMMA InstalledRec ==
    ASSUME NEW hs \in Handshake, nextSeq \in Nat
    PROVE  /\ Installed(hs) \in SlotRec /\ Installed(hs).st = "Pending"
           /\ Installed(hs).seq = nextSeq + 1 /\ Installed(hs).hs = hs
<1>1. PICK n \in Nat : n = nextSeq + 1
  OBVIOUS
<1>2. Installed(hs) = [EmptySlot EXCEPT !.st = "Pending", !.hs = hs, !.seq = n]
  BY <1>1, Zenon DEF Installed
<1> QED BY <1>1, <1>2, Sentinels DEF SlotRec, SlotState

LEMMA PromotedRec ==
    ASSUME NEW k \in KeyId, NEW n \in Nat
    PROVE  LET r == [EmptySlot EXCEPT !.st = "Active", !.key = k, !.life = n + 1]
           IN  r \in SlotRec /\ r.st = "Active" /\ r.key = k /\ r.life = n + 1
<1>1. PICK m \in Nat : m = n + 1
  OBVIOUS
<1> DEFINE r == [EmptySlot EXCEPT !.st = "Active", !.key = k, !.life = m]
<1>2. r \in SlotRec /\ r.st = "Active" /\ r.key = k /\ r.life = m
  BY Sentinels DEF SlotRec, SlotState
<1> QED BY <1>1, <1>2, Zenon

\* A new handshake over an empty or a pending slot touches no key.
LEMMA TableReserve ==
    ASSUME TableOK, NEW i \in Io, NEW role \in {"CO", "CU"},
           NEW s \in Victim(role),
           tbl' = [tbl EXCEPT ![s] = Installed(<<nextSeq + 1, role>>)],
           nextSeq' = nextSeq + 1, opener' = [opener EXCEPT ![s] = i],
           UNCHANGED <<vault, lives>>
    PROVE  TableOK'
<1> DEFINE r == Installed(<<nextSeq + 1, role>>)
<1>1. /\ tbl \in [Slot -> SlotRec] /\ vault \in [KeyId -> Handshake \cup {NoHs}]
      /\ opener \in [Slot -> Io \cup {NoIo}] /\ nextSeq \in Nat /\ lives \in Nat
      /\ PendingOK /\ SessionKeysOwned /\ RoleBySlot
  BY DEF TableOK
<1>2. s \in Slot /\ RoleOf(s) = role /\ tbl[s].st # "Active"
  BY VictimFacts, RoleRange
<1>3. <<nextSeq + 1, role>> \in Handshake
  BY <1>1 DEF Handshake
<1>4. /\ r \in SlotRec /\ r.st = "Pending" /\ r.seq = nextSeq + 1
      /\ r.hs = <<nextSeq + 1, role>>
  BY <1>1, <1>3, InstalledRec
<1> HIDE DEF r
<1>5. tbl' \in [Slot -> SlotRec] /\ tbl'[s] = r /\ \A t \in Slot \ {s} : tbl'[t] = tbl[t]
  BY <1>1, <1>2, <1>4 DEF r
<1>6. PendingOK'
  BY <1>1, <1>2, <1>3, <1>4, <1>5 DEF PendingOK
<1>7. \A t \in Slot : /\ tbl'[t].st = "Active" <=> tbl[t].st = "Active"
                      /\ tbl[t].st = "Active" => tbl'[t] = tbl[t]
  BY <1>2, <1>4, <1>5
<1>8. SessionKeysOwned' /\ RoleBySlot'
  BY <1>1, <1>7 DEF SessionKeysOwned, RoleBySlot
<1>9. opener' \in [Slot -> Io \cup {NoIo}] /\ nextSeq' \in Nat
  BY <1>1, <1>2
<1> QED BY <1>1, <1>5, <1>6, <1>8, <1>9 DEF TableOK

\* session_promote binds a key nobody held, of the slot's own role.
LEMMA TablePromote ==
    ASSUME TableOK, NEW i \in Io, NEW s \in Slot, NEW k \in KeyId,
           NEW hs \in Handshake, hs[2] = RoleOf(s), vault[k] = NoHs,
           tbl[s].st = "Pending",
           vault' = [vault EXCEPT ![k] = hs],
           tbl' = [tbl EXCEPT ![s] = [EmptySlot EXCEPT !.st = "Active",
                                        !.key = k, !.life = lives + 1]],
           lives' = lives + 1, opener' = [opener EXCEPT ![s] = i],
           UNCHANGED nextSeq
    PROVE  TableOK'
<1> DEFINE r == [EmptySlot EXCEPT !.st = "Active", !.key = k, !.life = lives + 1]
<1>1. /\ tbl \in [Slot -> SlotRec] /\ vault \in [KeyId -> Handshake \cup {NoHs}]
      /\ opener \in [Slot -> Io \cup {NoIo}] /\ nextSeq \in Nat /\ lives \in Nat
      /\ PendingOK /\ SessionKeysOwned /\ RoleBySlot
  BY DEF TableOK
<1>2. r \in SlotRec /\ r.st = "Active" /\ r.key = k
  BY <1>1, PromotedRec
<1> HIDE DEF r
<1>3. tbl' \in [Slot -> SlotRec] /\ tbl'[s] = r /\ \A t \in Slot \ {s} : tbl'[t] = tbl[t]
  BY <1>1, <1>2 DEF r
<1>4. /\ vault' \in [KeyId -> Handshake \cup {NoHs}] /\ vault'[k] = hs
      /\ \A l \in KeyId \ {k} : vault'[l] = vault[l]
  BY <1>1
<1>5. hs # NoHs
  BY Sentinels
<1>6. PendingOK'
  BY <1>1, <1>2, <1>3 DEF PendingOK
<1>7. ASSUME NEW t \in Slot, t # s, tbl'[t].st = "Active"
      PROVE /\ tbl'[t] = tbl[t] /\ tbl[t].key \in KeyId \ {k}
            /\ vault'[tbl[t].key] = vault[tbl[t].key] /\ vault[tbl[t].key] # NoHs
  <2>1. tbl'[t] = tbl[t]
    BY <1>3, <1>7
  <2>2. tbl[t].key \in KeyId /\ vault[tbl[t].key] # NoHs
    BY <1>1, <1>7, <2>1 DEF SessionKeysOwned
  <2> QED BY <1>4, <2>1, <2>2
<1>8. SessionKeysOwned'
  <2>1. ASSUME NEW t \in Slot, tbl'[t].st = "Active"
        PROVE /\ tbl'[t].key \in KeyId /\ vault'[tbl'[t].key] # NoHs
              /\ \A u \in Slot : tbl'[u].st = "Active" /\ tbl'[u].key = tbl'[t].key => u = t
    <3>1. CASE t = s
      BY <3>1, <1>2, <1>3, <1>4, <1>5, <1>7
    <3>2. CASE t # s
      <4>1. tbl'[t] = tbl[t] /\ tbl[t].key \in KeyId \ {k} /\ vault'[tbl[t].key] # NoHs
        BY <1>7, <2>1, <3>2
      <4>2. ASSUME NEW u \in Slot, tbl'[u].st = "Active", tbl'[u].key = tbl'[t].key
            PROVE u = t
        <5>1. u # s
          BY <4>1, <4>2, <1>2, <1>3
        <5> QED BY <4>1, <4>2, <5>1, <1>1, <1>7, <2>1 DEF SessionKeysOwned
      <4> QED BY <4>1, <4>2
    <3> QED BY <3>1, <3>2
  <2>2. ASSUME NEW l \in KeyId, vault'[l] # NoHs
        PROVE \E t \in Slot : tbl'[t].st = "Active" /\ tbl'[t].key = l
    <3>1. CASE l = k
      BY <3>1, <1>2, <1>3
    <3>2. CASE l # k
      <4>1. PICK t \in Slot : tbl[t].st = "Active" /\ tbl[t].key = l
        BY <1>1, <1>4, <2>2, <3>2 DEF SessionKeysOwned
      <4> QED BY <4>1, <1>3
    <3> QED BY <3>1, <3>2
  <2> QED BY <2>1, <2>2 DEF SessionKeysOwned
<1>9. RoleBySlot'
  <2> SUFFICES ASSUME NEW t \in Slot, tbl'[t].st = "Active"
               PROVE vault'[tbl'[t].key][2] = RoleOf(t)
    BY DEF RoleBySlot
  <2>1. CASE t = s
    BY <2>1, <1>2, <1>3, <1>4
  <2>2. CASE t # s
    BY <2>2, <1>1, <1>7 DEF RoleBySlot
  <2> QED BY <2>1, <2>2
<1>10. opener' \in [Slot -> Io \cup {NoIo}] /\ lives' \in Nat
  BY <1>1
<1> QED BY <1>1, <1>3, <1>4, <1>6, <1>8, <1>9, <1>10 DEF TableOK

LEMMA TableConsume ==
    ASSUME TableOK, NEW s \in Slot, tbl' = [tbl EXCEPT ![s].used = TRUE],
           Established(s), UNCHANGED <<nextSeq, vault, opener, lives>>
    PROVE  TableOK'
<1>1. /\ tbl \in [Slot -> SlotRec] /\ vault \in [KeyId -> Handshake \cup {NoHs}]
      /\ PendingOK /\ SessionKeysOwned /\ RoleBySlot
  BY DEF TableOK
<1>2. /\ tbl' \in [Slot -> SlotRec] /\ \A t \in Slot \ {s} : tbl'[t] = tbl[t]
      /\ tbl'[s].st = tbl[s].st /\ tbl'[s].key = tbl[s].key
  BY <1>1 DEF SlotRec
<1>3. PendingOK'
  BY <1>1, <1>2 DEF PendingOK, Established
<1>4. \A t \in Slot : tbl'[t].st = tbl[t].st /\ tbl'[t].key = tbl[t].key
  BY <1>2
<1>5. SessionKeysOwned' /\ RoleBySlot'
  BY <1>1, <1>4 DEF SessionKeysOwned, RoleBySlot
<1> QED BY <1>2, <1>3, <1>5 DEF TableOK
-----------------------------------------------------------------------------
(* What a step keeps of the whole invariant, by the kind of the step.      *)

LEMMA RestSame ==
    ASSUME RestOK, UNCHANGED <<told, issued, lost, rotated>> PROVE RestOK'
BY DEF RestOK

\* The task moves on and keeps its log, or had none; slots are at most
\* emptied.
LEMMA StepKeep ==
    ASSUME SessionsInductive, NEW i \in Io, NEW d \in Command, Control(d),
           cmd' = [cmd EXCEPT ![i] = d],
           d.pc # "idle", d.pc # "open",
           d.log = cmd[i].log \/ cmd[i].log = {},
           TableOK', RestOK', rotated' = rotated, lives' = lives,
           \A s \in Slot : opener'[s] \in {opener[s], NoIo},
           \A t \in Slot : tbl'[t] = tbl[t] \/ tbl'[t].st # "Active"
    PROVE  SessionsInductive'
<1>1. TasksOK /\ OpenerOK /\ LifeOK /\ OneRotationPerSession
  BY DEF SessionsInductive, KeysInv
<1>2. cmd \in [Io -> Command]
  BY <1>1 DEF TasksOK
<1>3. TasksOK'
  BY <1>1, TaskUpdate
<1>4. cmd'[i] = d /\ \A j \in Io \ {i} : cmd'[j] = cmd[j]
  BY <1>2
<1>5. opener \in [Slot -> Io \cup {NoIo}]
  BY DEF SessionsInductive, KeysInv, TableOK
<1>6. OpenerOK'
  <2> SUFFICES ASSUME NEW s \in Slot, opener'[s] # NoIo
               PROVE  cmd'[opener'[s]].pc # "idle" /\ cmd'[opener'[s]].log = {s}
    BY DEF OpenerOK
  <2>1. opener'[s] = opener[s] /\ opener[s] \in Io
    BY <1>5
  <2>2. cmd[opener[s]].pc # "idle" /\ cmd[opener[s]].log = {s}
    BY <1>1, <2>1 DEF OpenerOK
  <2>3. CASE opener[s] = i
    <3>1. d.log = {s}
      BY <2>2, <2>3
    <3> QED BY <1>4, <2>1, <2>3, <3>1
  <2>4. CASE opener[s] # i
    BY <1>4, <2>1, <2>2, <2>4
  <2> QED BY <2>3, <2>4
<1>7. \A j \in Io : cmd'[j].pc = "open" => j # i /\ cmd'[j] = cmd[j]
  BY <1>4
<1>8. \A t \in Slot : tbl'[t].st = "Active" => tbl'[t] = tbl[t]
  OBVIOUS
<1>9. LifeOK'
  BY <1>1, <1>7, <1>8 DEF LifeOK
<1>10. OneRotationPerSession'
  BY <1>1 DEF OneRotationPerSession
<1> QED BY <1>3, <1>6, <1>9, <1>10 DEF SessionsInductive, KeysInv

LEMMA Parts ==
    ASSUME SessionsInductive
    PROVE  /\ TableOK /\ RestOK /\ TasksOK /\ OpenerOK /\ LifeOK
           /\ OneRotationPerSession
           /\ tbl \in [Slot -> SlotRec] /\ opener \in [Slot -> Io \cup {NoIo}]
           /\ lives \in Nat /\ nextSeq \in Nat
BY DEF SessionsInductive, KeysInv, TableOK

\* Only the task's own record changes.
LEMMA StepLocal ==
    ASSUME SessionsInductive, NEW i \in Io, NEW d \in Command, Control(d),
           cmd' = [cmd EXCEPT ![i] = d],
           d.pc # "idle", d.pc # "open",
           d.log = cmd[i].log \/ cmd[i].log = {},
           UNCHANGED table, RestOK', rotated' = rotated
    PROVE  SessionsInductive'
<1>1. TableOK'
  BY Parts, TableSame
<1>2. tbl' = tbl /\ opener' = opener /\ lives' = lives
  BY DEF table
<1> QED BY <1>1, <1>2, StepKeep

\* The task destroys a slot and moves on.
LEMMA StepDestroy ==
    ASSUME SessionsInductive, NEW i \in Io, NEW d \in Command, Control(d),
           cmd' = [cmd EXCEPT ![i] = d],
           d.pc # "idle", d.pc # "open", d.log = cmd[i].log,
           NEW s \in Slot, Destroy(s),
           UNCHANGED <<told, issued, lost, rotated>>
    PROVE  SessionsInductive'
<1>1. TableOK' /\ RestOK'
  BY Parts, TableDestroy, RestSame
<1>2. /\ tbl' = [tbl EXCEPT ![s] = EmptySlot] /\ lives' = lives
      /\ opener' = [opener EXCEPT ![s] = NoIo]
  BY DEF Destroy
<1>3. \A t \in Slot : tbl'[t] = tbl[t] \/ tbl'[t].st # "Active"
  BY <1>2, Parts DEF EmptySlot
<1>4. \A t \in Slot : opener'[t] \in {opener[t], NoIo}
  BY <1>2, Parts
<1> QED BY <1>1, <1>2, <1>3, <1>4, StepKeep

\* The handler fails, whatever it does to the table.
LEMMA StepFails ==
    ASSUME SessionsInductive, NEW i \in Io, NEW c \in Command,
           c.log = cmd[i].log \/ cmd[i].log = {},
           cmd' = [cmd EXCEPT ![i] = Failed(c)],
           UNCHANGED table, UNCHANGED <<told, issued, lost, rotated>>
    PROVE  SessionsInductive'
<1>1. /\ Failed(c) \in Command /\ Control(Failed(c))
      /\ Failed(c).pc = "outbound" /\ Failed(c).log = c.log
  BY FailedTask
<1>2. RestOK' /\ rotated' = rotated
  BY Parts, RestSame
<1> HIDE DEF Failed
<1> QED BY <1>1, <1>2, StepLocal
-----------------------------------------------------------------------------
(* One lemma per action.                                                   *)

LEMMA InvInit == Init => SessionsInductive
<1> SUFFICES ASSUME Init PROVE SessionsInductive
  OBVIOUS
<1>1. /\ cmd = [i \in Io |-> IdleCommand] /\ told = {} /\ issued = 0 /\ lost = 0
      /\ nextSeq = 0 /\ vault = [k \in KeyId |-> NoHs]
      /\ opener = [s \in Slot |-> NoIo] /\ rotated = <<>> /\ lives = 0
  BY DEF Init
<1>2. PICK R \in SUBSET Slot : tbl = [s \in Slot |->
         IF s \in R THEN [EmptySlot EXCEPT !.st = "NeedsRenegotiation"]
         ELSE EmptySlot]
  BY DEF Init
<1>3. /\ [EmptySlot EXCEPT !.st = "NeedsRenegotiation"] \in SlotRec
      /\ [EmptySlot EXCEPT !.st = "NeedsRenegotiation"].st = "NeedsRenegotiation"
      /\ EmptySlot.st = "Empty"
  BY Sentinels DEF EmptySlot, SlotRec, SlotState
<1>4. tbl \in [Slot -> SlotRec] /\ \A s \in Slot : tbl[s].st \notin {"Active", "Pending"}
  BY <1>2, <1>3, Sentinels
<1>5. PendingOK /\ RoleBySlot
  BY <1>4 DEF PendingOK, RoleBySlot
<1>6. SessionKeysOwned
  BY <1>1, <1>4 DEF SessionKeysOwned
<1>7. TableOK
  BY <1>1, <1>4, <1>5, <1>6 DEF TableOK
<1>8. RestOK
  BY <1>1, ConstantsOK DEF RestOK
<1>9. TasksOK
  BY <1>1, IdleTask DEF TasksOK, ControlOK
<1>10. OpenerOK
  BY <1>1 DEF OpenerOK
<1>11. LifeOK /\ OneRotationPerSession
  <2>1. \A i \in Io : cmd[i].pc # "open"
    BY <1>1 DEF IdleCommand
  <2> QED BY <1>1, <1>4, <2>1 DEF LifeOK, OneRotationPerSession
<1> QED BY <1>7, <1>8, <1>9, <1>10, <1>11 DEF SessionsInductive, KeysInv

LEMMA InvArrive ==
    ASSUME SessionsInductive, NEW i \in Io, Arrive(i)
    PROVE  SessionsInductive'
<1>1. ASSUME NEW d \in Command, Control(d), d.pc \in {"inbound", "flush"}, Submit(i, d)
      PROVE SessionsInductive'
  <2>1. /\ cmd[i].pc = "idle" /\ issued < MaxCommands /\ issued' = issued + 1
        /\ cmd' = [cmd EXCEPT ![i] = d] /\ UNCHANGED <<table, told, lost, rotated>>
    BY <1>1 DEF Submit
  <2>2. cmd[i].log = {}
    BY <2>1, Parts, TaskFacts DEF Control
  <2>3. RestOK'
    <3>1. issued \in 0 .. MaxCommands /\ RestOK
      BY Parts DEF RestOK
    <3>2. issued' \in 0 .. MaxCommands
      BY <2>1, <3>1, ConstantsOK
    <3> QED BY <2>1, <3>1, <3>2 DEF RestOK
  <2> QED BY <1>1, <2>1, <2>2, <2>3, StepLocal
<1>2. CASE \E role \in Roles : SubmitInit(i, role)
  <2>1. PICK role \in Roles : SubmitInit(i, role)
    BY <1>2
  <2> DEFINE d == [IdleCommand EXCEPT !.pc = "inbound", !.role = role]
  <2>2. role \in {"CO", "CU"}
    BY ConstantsOK
  <2>3. d \in Command /\ d.pc = "inbound" /\ d.log = {}
    BY <2>2, IdleTask DEF Command, PC, IdleCommand
  <2>4. Control(d)
    BY <2>3 DEF Control
  <2> QED BY <1>1, <2>1, <2>3, <2>4 DEF SubmitInit
<1>3. CASE \E o \in Op \ {"OpenInit"}, h \in told, good \in BOOLEAN :
             SubmitInSession(i, o, h[1], h[2], good)
  <2>1. PICK o \in Op \ {"OpenInit"}, h \in told, good \in BOOLEAN :
             SubmitInSession(i, o, h[1], h[2], good)
    BY <1>3
  <2> DEFINE pc == IF o = "Flush" THEN "flush" ELSE "inbound"
             d == [IdleCommand EXCEPT !.op = o, !.slot = h[1], !.hs = h[2],
                     !.good = good, !.pc = pc]
  <2>2. h[1] \in Slot /\ h[2] \in Handshake
    BY Parts DEF RestOK
  <2>3. /\ d \in Command /\ d.pc = pc /\ d.log = {} /\ d.op = o
        /\ pc \in {"inbound", "flush"}
    BY <2>2, IdleTask DEF Command, PC, IdleCommand, Op
  <2>4. Control(d)
    BY <2>3 DEF Control
  <2>5. Submit(i, d)
    BY <2>1 DEF SubmitInSession
  <2> HIDE DEF d, pc
  <2> QED BY <1>1, <2>3, <2>4, <2>5
<1> QED BY <1>2, <1>3 DEF Arrive

\* The awaited crypto succeeds.
LEMMA InvAdvance ==
    ASSUME SessionsInductive, NEW i \in Io,
           InitBegin(i) \/ InitRespond(i) \/ FinishVerified(i) \/ FinishSeeded(i)
    PROVE  SessionsInductive'
<1>1. cmd[i] \in Command /\ Control(cmd[i]) /\ cmd \in [Io -> Command]
  BY Parts, TaskFacts
<1>2. ASSUME NEW from \in PC, NEW to \in PC, Advance(i, from, to),
             to # "idle", to # "open", Control([cmd[i] EXCEPT !.pc = to])
      PROVE  SessionsInductive'
  <2> DEFINE d == [cmd[i] EXCEPT !.pc = to]
  <2>1. d \in Command /\ d.pc = to /\ d.log = cmd[i].log
    BY <1>1 DEF Command
  <2>2. /\ cmd' = [cmd EXCEPT ![i] = d]
        /\ UNCHANGED <<table, told, issued, lost, rotated>>
    BY <1>1, <1>2 DEF Advance
  <2>3. UNCHANGED table /\ RestOK' /\ rotated' = rotated
    BY <2>2, Parts, RestSame
  <2>4. Control(d)
    BY <1>2
  <2> HIDE DEF d
  <2> QED BY <1>2, <2>1, <2>2, <2>3, <2>4, StepLocal
<1>3. CASE InitBegin(i)
  <2>1. Advance(i, "inbound", "hpke") /\ cmd[i].pc = "inbound" /\ cmd[i].op = "OpenInit"
    BY <1>3 DEF InitBegin, Advance
  <2>2. Control([cmd[i] EXCEPT !.pc = "hpke"])
    BY <1>1, <2>1 DEF Control, Command
  <2> QED BY <1>2, <2>1, <2>2 DEF PC
<1>4. CASE InitRespond(i)
  <2>1. Advance(i, "mac", "outbound") /\ cmd[i].pc = "mac"
    BY <1>4 DEF InitRespond, Advance
  <2>2. Control([cmd[i] EXCEPT !.pc = "outbound"])
    BY <1>1, <2>1 DEF Control, Command
  <2> QED BY <1>2, <2>1, <2>2 DEF PC
<1>5. CASE FinishVerified(i)
  <2>1. Advance(i, "verify", "seed") /\ cmd[i].pc = "verify"
    BY <1>5 DEF FinishVerified, Advance
  <2>2. Control([cmd[i] EXCEPT !.pc = "seed"])
    BY <1>1, <2>1 DEF Control, Command
  <2> QED BY <1>2, <2>1, <2>2 DEF PC
<1>6. CASE FinishSeeded(i)
  <2>1. Advance(i, "seed", "derive") /\ cmd[i].pc = "seed"
    BY <1>6 DEF FinishSeeded, Advance
  <2>2. Control([cmd[i] EXCEPT !.pc = "derive"])
    BY <1>1, <2>1 DEF Control, Command
  <2> QED BY <1>2, <2>1, <2>2 DEF PC
<1> QED BY <1>3, <1>4, <1>5, <1>6

LEMMA InvError ==
    ASSUME SessionsInductive, NEW i \in Io, HandlerError(i) \/ InitLimit(i)
    PROVE  SessionsInductive'
<1>1. cmd[i] \in Command
  BY Parts, TaskFacts
<1>2. /\ cmd' = [cmd EXCEPT ![i] = Failed(cmd[i])]
      /\ UNCHANGED <<table, told, issued, lost, rotated>>
  BY DEF HandlerError, InitLimit
<1>3. UNCHANGED table /\ UNCHANGED <<told, issued, lost, rotated>>
  BY <1>2
<1> HIDE DEF Failed
<1> QED BY <1>1, <1>2, <1>3, StepFails

\* The DMA ends, in either direction.
LEMMA InvTransfer ==
    ASSUME SessionsInductive, NEW i \in Io,
           InboundFail(i) \/ OutboundOk(i) \/ OutboundFail(i)
    PROVE  SessionsInductive'
<1>1. cmd[i] \in Command /\ Control(cmd[i]) /\ cmd \in [Io -> Command]
  BY Parts, TaskFacts
<1>2. PICK b \in BOOLEAN :
        /\ cmd' = [cmd EXCEPT ![i].pc = "complete", ![i].handlerOk = b]
        /\ b => cmd[i].pc = "outbound"
  BY DEF InboundFail, OutboundOk, OutboundFail
<1> DEFINE d == [cmd[i] EXCEPT !.pc = "complete", !.handlerOk = b]
<1>3. /\ d \in Command /\ d.pc = "complete" /\ d.log = cmd[i].log /\ d.handlerOk = b
      /\ d.op = cmd[i].op /\ d.res = cmd[i].res /\ d.hs = cmd[i].hs
  BY <1>1 DEF Command, PC
<1>4. cmd' = [cmd EXCEPT ![i] = d]
  BY <1>1, <1>2
<1> HIDE DEF d
<1>5. Control(d)
  BY <1>1, <1>2, <1>3 DEF Control
<1>6. UNCHANGED table /\ rotated' = rotated
  BY DEF InboundFail, OutboundOk, OutboundFail
<1>7. RestOK'
  <2>1. CASE OutboundFail(i)
    <3>1. lost < MaxLost /\ lost' = lost + 1 /\ UNCHANGED <<told, issued, rotated>>
      BY <2>1 DEF OutboundFail
    <3>2. lost \in 0 .. MaxLost /\ RestOK
      BY Parts DEF RestOK
    <3>3. lost' \in 0 .. MaxLost
      BY <3>1, <3>2, ConstantsOK
    <3> QED BY <3>1, <3>2, <3>3 DEF RestOK
  <2>2. CASE InboundFail(i) \/ OutboundOk(i)
    BY <2>2, Parts, RestSame DEF InboundFail, OutboundOk
  <2> QED BY <2>1, <2>2
<1> QED BY <1>3, <1>4, <1>5, <1>6, <1>7, StepLocal

\* A command takes a slot over: its log names the slot from now on.
LEMMA OpenerTake ==
    ASSUME SessionsInductive, NEW i \in Io, NEW s \in Slot, NEW d,
           cmd' = [cmd EXCEPT ![i] = d], d.pc # "idle", d.log = {s},
           cmd[i].log = {} \/ cmd[i].log = {s},
           opener' = [opener EXCEPT ![s] = i]
    PROVE  OpenerOK'
<1>1. /\ OpenerOK /\ opener \in [Slot -> Io \cup {NoIo}] /\ cmd \in [Io -> Command]
  BY Parts, TaskFacts
<1> SUFFICES ASSUME NEW t \in Slot, opener'[t] # NoIo
             PROVE  cmd'[opener'[t]].pc # "idle" /\ cmd'[opener'[t]].log = {t}
  BY DEF OpenerOK
<1>2. cmd'[i] = d /\ \A j \in Io \ {i} : cmd'[j] = cmd[j]
  BY <1>1
<1>3. CASE t = s
  BY <1>1, <1>2, <1>3
<1>4. CASE t # s
  <2>1. opener'[t] = opener[t] /\ opener[t] \in Io
    BY <1>1, <1>4
  <2>2. cmd[opener[t]].pc # "idle" /\ cmd[opener[t]].log = {t}
    BY <1>1, <2>1 DEF OpenerOK
  <2>3. opener[t] # i
    BY <1>4, <2>2
  <2> QED BY <1>2, <2>1, <2>2, <2>3
<1> QED BY <1>3, <1>4

LEMMA InvReserve ==
    ASSUME SessionsInductive, NEW i \in Io, InitReserve(i)
    PROVE  SessionsInductive'
<1> DEFINE role == cmd[i].role
           hs == <<nextSeq + 1, role>>
<1>1. cmd[i] \in Command /\ Control(cmd[i]) /\ cmd \in [Io -> Command]
  BY Parts, TaskFacts
<1>2. role \in {"CO", "CU"}
  BY <1>1 DEF Command
<1>3. PICK s \in Victim(role) :
        /\ tbl' = [tbl EXCEPT ![s] = Installed(hs)]
        /\ nextSeq' = nextSeq + 1 /\ opener' = [opener EXCEPT ![s] = i]
        /\ cmd' = [cmd EXCEPT ![i].pc = "mac", ![i].slot = s, ![i].hs = hs,
                               ![i].log = {s}]
  BY DEF InitReserve
<1>4. s \in Slot /\ tbl[s].st # "Active"
  BY <1>2, VictimFacts, RoleRange
<1>5. cmd[i].pc = "hpke" /\ UNCHANGED <<vault, lives, told, issued, lost, rotated>>
  BY DEF InitReserve
<1>6. TableOK'
  BY <1>2, <1>3, <1>5, Parts, TableReserve
<1>7. RestOK'
  BY <1>5, Parts, RestSame
<1>8. hs \in Handshake
  BY <1>2, Parts DEF Handshake
<1> HIDE DEF hs
<1> DEFINE d == [cmd[i] EXCEPT !.pc = "mac", !.slot = s, !.hs = hs, !.log = {s}]
<1>9. /\ d \in Command /\ d.pc = "mac" /\ d.log = {s} /\ d.hs = hs
      /\ d.op = cmd[i].op
  BY <1>1, <1>4, <1>8 DEF Command, PC
<1>10. cmd' = [cmd EXCEPT ![i] = d]
  BY <1>1, <1>3
<1> HIDE DEF d
<1>11. cmd[i].log = {} /\ d.op = "OpenInit"
  BY <1>1, <1>5, <1>9 DEF Control
<1>12. Control(d)
  BY <1>8, <1>9, <1>11 DEF Control
<1>13. TasksOK'
  BY <1>9, <1>10, <1>12, Parts, TaskUpdate
<1>14. OpenerOK'
  BY <1>3, <1>4, <1>9, <1>10, <1>11, OpenerTake
<1>15. Installed(hs).st = "Pending"
  BY <1>8, Parts, InstalledRec
<1>16. \A t \in Slot : tbl'[t].st = "Active" => tbl'[t] = tbl[t]
  BY <1>3, <1>4, <1>15, Parts
<1>17. \A j \in Io : cmd'[j].pc = "open" => cmd'[j] = cmd[j]
  BY <1>1, <1>9, <1>10
<1>18. lives' = lives /\ rotated' = rotated
  BY <1>5
<1>19. LifeOK' /\ OneRotationPerSession'
  BY <1>16, <1>17, <1>18, Parts DEF LifeOK, OneRotationPerSession
<1> QED BY <1>6, <1>7, <1>13, <1>14, <1>19 DEF SessionsInductive, KeysInv

LEMMA InvFinishBegin ==
    ASSUME SessionsInductive, NEW i \in Io, FinishBegin(i)
    PROVE  SessionsInductive'
<1> DEFINE s == cmd[i].slot
           c == [cmd[i] EXCEPT !.pc = "verify", !.loaded = tbl[s].hs, !.log = {s}]
<1>1. cmd[i] \in Command /\ Control(cmd[i]) /\ cmd \in [Io -> Command]
  BY Parts, TaskFacts
<1>2. s \in Slot /\ cmd[i].log = {} /\ cmd[i].op = "OpenFinish"
  BY <1>1 DEF Command, Control, FinishBegin
<1>3. UNCHANGED table /\ UNCHANGED <<told, issued, lost, rotated>>
  BY DEF FinishBegin
<1>4. RestOK' /\ rotated' = rotated
  BY <1>3, Parts, RestSame
<1>5. CASE tbl[s].st = "Pending"
  <2>1. cmd' = [cmd EXCEPT ![i] = c] \/ cmd' = [cmd EXCEPT ![i] = Failed(c)]
    BY <1>5 DEF FinishBegin
  <2>2. tbl[s].hs \in Handshake /\ tbl[s].hs[2] = RoleOf(s)
    BY <1>2, <1>5, Parts DEF TableOK, PendingOK
  <2>3. /\ c \in Command /\ c.pc = "verify" /\ c.log = {s} /\ c.loaded = tbl[s].hs
        /\ c.slot = s /\ c.op = "OpenFinish"
    BY <1>1, <1>2, <2>2 DEF Command, PC
  <2> HIDE DEF c
  <2>4. Control(c)
    BY <2>2, <2>3 DEF Control
  <2>5. CASE cmd' = [cmd EXCEPT ![i] = c]
    BY <1>2, <1>3, <1>4, <2>3, <2>4, <2>5, StepLocal
  <2>6. CASE cmd' = [cmd EXCEPT ![i] = Failed(c)]
    BY <1>2, <1>3, <2>3, <2>6, StepFails
  <2> QED BY <2>1, <2>5, <2>6
<1>6. CASE tbl[s].st # "Pending"
  <2>1. cmd' = [cmd EXCEPT ![i] = Failed(cmd[i])]
    BY <1>6 DEF FinishBegin
  <2> QED BY <1>1, <1>3, <2>1, StepFails
<1> QED BY <1>5, <1>6

\* A slot is destroyed by a failed authentication, a close or a flush.
LEMMA InvDestroy ==
    ASSUME SessionsInductive, NEW i \in Io,
           FinishAuthFail(i) \/ CloseSession(i) \/ FlushSession(i)
    PROVE  SessionsInductive'
<1> DEFINE s == cmd[i].slot
           f == Failed(cmd[i])
           o == [cmd[i] EXCEPT !.pc = "outbound"]
           h == [cmd[i] EXCEPT !.pc = "complete", !.handlerOk = TRUE]
<1>1. cmd[i] \in Command /\ Control(cmd[i]) /\ cmd \in [Io -> Command]
  BY Parts, TaskFacts
<1>2. s \in Slot
  BY <1>1 DEF Command
<1>3. f \in Command /\ Control(f) /\ f.pc = "outbound" /\ f.log = cmd[i].log
  BY <1>1, FailedTask
<1>4. /\ o \in Command /\ o.pc = "outbound" /\ o.log = cmd[i].log /\ o.op = cmd[i].op
      /\ h \in Command /\ h.pc = "complete" /\ h.log = cmd[i].log /\ h.op = cmd[i].op
  BY <1>1 DEF Command, PC
<1>5. UNCHANGED <<told, issued, lost, rotated>>
  BY DEF FinishAuthFail, CloseSession, FlushSession
<1>6. CASE FinishAuthFail(i)
  <2>1. cmd' = [cmd EXCEPT ![i] = f] /\ Destroy(s)
    BY <1>6 DEF FinishAuthFail
  <2> HIDE DEF f, Destroy
  <2> QED BY <1>2, <1>3, <1>5, <2>1, StepDestroy
<1>7. CASE CloseSession(i)
  <2>1. cmd[i].op = "Close"
    BY <1>7 DEF CloseSession
  <2>2. Control(o)
    <3> HIDE DEF o
    <3> QED BY <1>4, <2>1 DEF Control
  <2>3. \/ cmd' = [cmd EXCEPT ![i] = f] /\ UNCHANGED table
        \/ Destroy(s) /\ cmd' = [cmd EXCEPT ![i] = f]
        \/ Destroy(s) /\ cmd' = [cmd EXCEPT ![i] = o]
    BY <1>1, <1>7 DEF CloseSession
  <2>4. CASE cmd' = [cmd EXCEPT ![i] = f] /\ UNCHANGED table
    BY <1>1, <1>5, <2>4, StepFails
  <2> HIDE DEF f, o, Destroy
  <2>5. CASE Destroy(s) /\ cmd' = [cmd EXCEPT ![i] = f]
    BY <1>2, <1>3, <1>5, <2>5, StepDestroy
  <2>6. CASE Destroy(s) /\ cmd' = [cmd EXCEPT ![i] = o]
    BY <1>2, <1>4, <1>5, <2>2, <2>6, StepDestroy
  <2> QED BY <2>3, <2>4, <2>5, <2>6
<1>8. CASE FlushSession(i)
  <2>1. Destroy(s) /\ cmd' = [cmd EXCEPT ![i] = h]
    BY <1>1, <1>8 DEF FlushSession
  <2>2. cmd[i].op = "Flush"
    BY <1>1, <1>8 DEF FlushSession, Control
  <2>3. Control(h)
    <3> HIDE DEF h
    <3> QED BY <1>4, <2>2 DEF Control
  <2> HIDE DEF h, Destroy
  <2> QED BY <1>2, <1>4, <1>5, <2>1, <2>3, StepDestroy
<1> QED BY <1>6, <1>7, <1>8

\* The promoted slot gets a number no session, rotation or task has.
LEMMA InvPromote ==
    ASSUME SessionsInductive, NEW i \in Io, FinishPromote(i)
    PROVE  SessionsInductive'
<1> DEFINE s == cmd[i].slot
           o == [cmd[i] EXCEPT !.pc = "outbound"]
           f == Failed(cmd[i])
<1>1. cmd[i] \in Command /\ Control(cmd[i]) /\ cmd \in [Io -> Command]
  BY Parts, TaskFacts
<1>2. /\ s \in Slot /\ cmd[i].log = {s} /\ cmd[i].op = "OpenFinish"
      /\ cmd[i].loaded \in Handshake /\ cmd[i].loaded[2] = RoleOf(s)
  BY <1>1 DEF Command, Control, FinishPromote
<1>3. UNCHANGED <<told, issued, lost, rotated>>
  BY DEF FinishPromote
<1>4. CASE tbl[s].st # "Pending"
  <2>1. cmd' = [cmd EXCEPT ![i] = f] /\ UNCHANGED table
    BY <1>4 DEF FinishPromote
  <2> QED BY <1>1, <1>3, <2>1, StepFails
<1>5. CASE tbl[s].st = "Pending"
  <2>1. PICK k \in KeyId :
          /\ vault[k] = NoHs /\ vault' = [vault EXCEPT ![k] = cmd[i].loaded]
          /\ tbl' = [tbl EXCEPT ![s] = [EmptySlot EXCEPT !.st = "Active",
                       !.key = k, !.life = lives + 1]]
          /\ lives' = lives + 1 /\ opener' = [opener EXCEPT ![s] = i]
          /\ cmd' = [cmd EXCEPT ![i].pc = "outbound"] \/ cmd' = [cmd EXCEPT ![i] = f]
          /\ UNCHANGED nextSeq
    BY <1>5 DEF FinishPromote
  <2>2. TableOK'
    BY <1>2, <1>5, <2>1, Parts, TablePromote
  <2>3. RestOK'
    BY <1>3, Parts, RestSame
  <2>4. PICK d \in {o, f} : cmd' = [cmd EXCEPT ![i] = d]
    BY <1>1, <2>1
  <2>5. o \in Command /\ o.pc = "outbound" /\ o.log = {s} /\ o.op = "OpenFinish"
    BY <1>1, <1>2 DEF Command, PC
  <2>6. Control(o)
    <3> HIDE DEF o
    <3> QED BY <2>5 DEF Control
  <2>7. f \in Command /\ Control(f) /\ f.pc = "outbound" /\ f.log = {s}
    BY <1>1, <1>2, FailedTask
  <2> HIDE DEF o, f
  <2>8. d \in Command /\ Control(d) /\ d.pc = "outbound" /\ d.log = {s}
    BY <2>4, <2>5, <2>6, <2>7
  <2>9. TasksOK'
    BY <2>4, <2>8, Parts, TaskUpdate
  <2>10. OpenerOK'
    BY <1>2, <2>1, <2>4, <2>8, OpenerTake
  <2> DEFINE r == [EmptySlot EXCEPT !.st = "Active", !.key = k, !.life = lives + 1]
  <2>11. r.life = lives + 1
    BY Parts, PromotedRec
  <2> HIDE DEF r
  <2>12. tbl'[s] = r /\ \A t \in Slot \ {s} : tbl'[t] = tbl[t]
    BY <1>2, <2>1, Parts DEF r
  <2>13. \A j \in Io : cmd'[j].pc = "open" => cmd'[j] = cmd[j]
    BY <1>1, <2>4, <2>8
  <2>14. lives' = lives + 1 /\ lives \in Nat /\ rotated' = rotated
    BY <1>3, <2>1, Parts
  <2>15. /\ \A t \in Slot : tbl[t].life \in Nat
         /\ \A j \in Io : cmd[j].life \in Nat
         /\ \A n \in 1 .. Len(rotated) : rotated[n][2] \in Nat
    <3>1. \A t \in Slot : tbl[t].life \in Nat
      BY Parts DEF SlotRec
    <3>2. \A j \in Io : cmd[j].life \in Nat
      BY <1>1 DEF Command
    <3>3. rotated \in Seq(Handshake \X Nat)
      BY Parts DEF RestOK
    <3> QED BY <3>1, <3>2, <3>3
  <2>16. LifeOK
    BY Parts
  <2>17. LifeOK'
    <3>1. ASSUME NEW t \in Slot, tbl'[t].st = "Active"
          PROVE  /\ tbl'[t].life <= lives'
                 /\ \A u \in Slot : tbl'[u].st = "Active" /\ tbl'[u].life = tbl'[t].life => u = t
      BY <2>11, <2>12, <2>14, <2>15, <2>16, <3>1 DEF LifeOK
    <3>2. ASSUME NEW j \in Io, cmd'[j].pc = "open"
          PROVE  /\ cmd'[j].life <= lives'
                 /\ \A t \in Slot : tbl'[t].st = "Active" /\ tbl'[t].life = cmd'[j].life
                                      => tbl'[t].used
                 /\ \A l \in Io : cmd'[l].pc = "open" /\ cmd'[l].life = cmd'[j].life => l = j
                 /\ \A n \in 1 .. Len(rotated') : rotated'[n][2] # cmd'[j].life
      BY <2>11, <2>12, <2>13, <2>14, <2>15, <2>16, <3>2 DEF LifeOK
    <3>3. ASSUME NEW n \in 1 .. Len(rotated')
          PROVE  /\ rotated'[n][2] <= lives'
                 /\ \A t \in Slot : tbl'[t].st = "Active" /\ tbl'[t].life = rotated'[n][2]
                                      => tbl'[t].used
      BY <2>11, <2>12, <2>14, <2>15, <2>16, <3>3 DEF LifeOK
    <3> QED BY <3>1, <3>2, <3>3 DEF LifeOK
  <2>18. OneRotationPerSession'
    BY <2>14, Parts DEF OneRotationPerSession
  <2> QED BY <2>2, <2>3, <2>9, <2>10, <2>17, <2>18 DEF SessionsInductive, KeysInv
<1> QED BY <1>4, <1>5

\* The budget of a session is spent by the one task that rotates under it.
LEMMA InvConsume ==
    ASSUME SessionsInductive, NEW i \in Io, PskConsume(i)
    PROVE  SessionsInductive'
<1> DEFINE s == cmd[i].slot
           f == Failed(cmd[i])
           d == [cmd[i] EXCEPT !.pc = "open", !.life = tbl[s].life,
                                !.loaded = vault[tbl[s].key]]
<1>1. cmd[i] \in Command /\ Control(cmd[i]) /\ cmd \in [Io -> Command]
  BY Parts, TaskFacts
<1>2. s \in Slot /\ cmd[i].op = "PskChange" /\ cmd[i].log = {} /\ cmd[i].pc = "inbound"
  BY <1>1 DEF Command, Control, PskConsume
<1>3. /\ UNCHANGED <<told, issued, lost, rotated>>
      /\ UNCHANGED <<nextSeq, vault, opener, lives>>
  BY DEF PskConsume
<1>4. CASE ~(Established(s) /\ ~tbl[s].used)
  <2>1. cmd' = [cmd EXCEPT ![i] = f] /\ tbl' = tbl
    BY <1>4 DEF PskConsume
  <2> QED BY <1>1, <1>3, <2>1, StepFails DEF table
<1>5. CASE Established(s) /\ ~tbl[s].used
  <2>1. tbl' = [tbl EXCEPT ![s].used = TRUE]
    BY <1>5 DEF PskConsume
  <2>2. TableOK' /\ RestOK'
    BY <1>2, <1>3, <1>5, <2>1, Parts, TableConsume, RestSame
  <2>3. /\ \A t \in Slot : /\ tbl'[t].st = tbl[t].st /\ tbl'[t].life = tbl[t].life
                           /\ tbl[t].used => tbl'[t].used
        /\ tbl'[s].used = TRUE
    BY <1>2, <2>1, Parts DEF SlotRec
  <2>4. PICK e \in {d, f} : /\ cmd' = [cmd EXCEPT ![i] = e]
                            /\ e = d => tbl[s].st = "Active"
    <3>1. CASE tbl[s].st = "Active"
      BY <1>1, <1>5, <3>1 DEF PskConsume
    <3>2. CASE tbl[s].st # "Active"
      <4>1. cmd' = [cmd EXCEPT ![i] = f]
        BY <1>5, <3>2 DEF PskConsume
      <4>2. f.pc = "outbound" /\ d.pc = "open"
        BY <1>1, FailedTask DEF Command
      <4> HIDE DEF d, f
      <4> QED BY <4>1, <4>2
    <3> QED BY <3>1, <3>2
  <2>5. f \in Command /\ Control(f) /\ f.pc = "outbound" /\ f.log = {}
    BY <1>1, <1>2, FailedTask
  <2>6. ASSUME tbl[s].st = "Active"
        PROVE  /\ d \in Command /\ Control(d) /\ d.pc = "open" /\ d.log = {}
               /\ d.life = tbl[s].life
    <3>1. vault[tbl[s].key] \in Handshake /\ tbl[s].life \in Nat
      BY <1>2, <2>6, Parts DEF TableOK, SessionKeysOwned, SlotRec
    <3>2. /\ d \in Command /\ d.pc = "open" /\ d.log = {} /\ d.op = "PskChange"
          /\ d.loaded = vault[tbl[s].key] /\ d.life = tbl[s].life
      BY <1>1, <1>2, <3>1 DEF Command, PC
    <3> HIDE DEF d
    <3> QED BY <3>1, <3>2 DEF Control
  <2> HIDE DEF d, f
  <2>7. /\ e \in Command /\ Control(e) /\ e.pc # "idle" /\ e.log = {}
        /\ e.pc = "open" => e.life = tbl[s].life /\ tbl[s].st = "Active"
    BY <2>4, <2>5, <2>6
  <2>8. TasksOK'
    BY <2>4, <2>7, Parts, TaskUpdate
  <2>9. cmd'[i] = e /\ \A j \in Io \ {i} : cmd'[j] = cmd[j]
    BY <1>1, <2>4
  <2>10. OpenerOK'
    <3> SUFFICES ASSUME NEW t \in Slot, opener'[t] # NoIo
                 PROVE  cmd'[opener'[t]].pc # "idle" /\ cmd'[opener'[t]].log = {t}
      BY DEF OpenerOK
    <3>1. opener'[t] = opener[t] /\ opener[t] \in Io
      BY <1>3, Parts
    <3>2. cmd[opener[t]].pc # "idle" /\ cmd[opener[t]].log = {t}
      BY <3>1, Parts DEF OpenerOK
    <3>3. opener[t] # i
      BY <1>2, <3>2
    <3> QED BY <2>9, <3>1, <3>2, <3>3
  <2>11. lives' = lives /\ rotated' = rotated /\ LifeOK
    BY <1>3, Parts
  <2>12. LifeOK'
    <3>1. ASSUME NEW t \in Slot, tbl'[t].st = "Active"
          PROVE  /\ tbl'[t].life <= lives'
                 /\ \A u \in Slot : tbl'[u].st = "Active" /\ tbl'[u].life = tbl'[t].life => u = t
      BY <2>3, <2>11, <3>1 DEF LifeOK
    <3>2. ASSUME NEW j \in Io, cmd'[j].pc = "open"
          PROVE  /\ cmd'[j].life <= lives'
                 /\ \A t \in Slot : tbl'[t].st = "Active" /\ tbl'[t].life = cmd'[j].life
                                      => tbl'[t].used
                 /\ \A l \in Io : cmd'[l].pc = "open" /\ cmd'[l].life = cmd'[j].life => l = j
                 /\ \A n \in 1 .. Len(rotated') : rotated'[n][2] # cmd'[j].life
      <4>1. CASE j = i
        <5>1. tbl[s].st = "Active" /\ cmd'[j].life = tbl[s].life /\ ~tbl[s].used
          BY <1>5, <2>7, <2>9, <3>2, <4>1
        <5>2. \A t \in Slot : tbl'[t].st = "Active" /\ tbl'[t].life = cmd'[j].life => t = s
          BY <1>2, <2>3, <2>11, <5>1 DEF LifeOK
        <5>3. \A l \in Io : cmd'[l].pc = "open" /\ cmd'[l].life = cmd'[j].life => l = j
          BY <1>2, <2>9, <2>11, <4>1, <5>1 DEF LifeOK
        <5>4. \A n \in 1 .. Len(rotated') : rotated'[n][2] # cmd'[j].life
          BY <1>2, <2>11, <5>1 DEF LifeOK
        <5>5. cmd'[j].life <= lives'
          BY <1>2, <2>11, <5>1 DEF LifeOK
        <5> QED BY <2>3, <5>2, <5>3, <5>4, <5>5
      <4>2. CASE j # i
        <5>1. cmd'[j] = cmd[j]
          BY <2>9, <4>2
        <5>2. \A l \in Io : cmd'[l].pc = "open" /\ cmd'[l].life = cmd'[j].life => l = j
          BY <1>2, <1>5, <2>7, <2>9, <2>11, <3>2, <5>1 DEF LifeOK
        <5> QED BY <2>3, <2>11, <3>2, <5>1, <5>2 DEF LifeOK
      <4> QED BY <4>1, <4>2
    <3>3. ASSUME NEW n \in 1 .. Len(rotated')
          PROVE  /\ rotated'[n][2] <= lives'
                 /\ \A t \in Slot : tbl'[t].st = "Active" /\ tbl'[t].life = rotated'[n][2]
                                      => tbl'[t].used
      BY <2>3, <2>11, <3>3 DEF LifeOK
    <3> QED BY <3>1, <3>2, <3>3 DEF LifeOK
  <2>13. OneRotationPerSession'
    BY <2>11, Parts DEF OneRotationPerSession
  <2> QED BY <2>2, <2>8, <2>10, <2>12, <2>13 DEF SessionsInductive, KeysInv
<1> QED BY <1>4, <1>5

LEMMA InvInstall ==
    ASSUME SessionsInductive, NEW i \in Io, PskInstall(i)
    PROVE  SessionsInductive'
<1> DEFINE c == cmd[i]
           o == [c EXCEPT !.pc = "outbound"]
           f == Failed(c)
           x == <<c.loaded, c.life>>
<1>1. c \in Command /\ Control(c) /\ cmd \in [Io -> Command]
  BY Parts, TaskFacts
<1>2. /\ c.pc = "open" /\ c.op = "PskChange" /\ c.loaded \in Handshake /\ c.life \in Nat
  BY <1>1 DEF Command, Control, PskInstall
<1>3. /\ rotated' = Append(rotated, x) /\ UNCHANGED <<table, told, issued, lost>>
      /\ cmd' = [cmd EXCEPT ![i] = o] \/ cmd' = [cmd EXCEPT ![i] = f]
  BY <1>1 DEF PskInstall
<1>4. TableOK'
  BY <1>3, Parts, TableSame
<1>5. rotated \in Seq(Handshake \X Nat) /\ RestOK
  BY Parts DEF RestOK
<1>6. x \in Handshake \X Nat /\ x[2] = c.life
  BY <1>2
<1> HIDE DEF x
<1>7. RestOK'
  BY <1>3, <1>5, <1>6 DEF RestOK
<1>8. o \in Command /\ o.pc = "outbound" /\ o.log = c.log /\ o.op = "PskChange"
  BY <1>1, <1>2 DEF Command, PC
<1>9. Control(o)
  <2> HIDE DEF o
  <2> QED BY <1>8 DEF Control
<1>10. f \in Command /\ Control(f) /\ f.pc = "outbound" /\ f.log = c.log
  BY <1>1, FailedTask
<1> HIDE DEF o, f
<1>11. PICK d \in {o, f} : cmd' = [cmd EXCEPT ![i] = d]
  BY <1>3
<1>12. d \in Command /\ Control(d) /\ d.pc = "outbound" /\ d.log = c.log
  BY <1>8, <1>9, <1>10, <1>11
<1>13. TasksOK'
  BY <1>11, <1>12, Parts, TaskUpdate
<1>14. cmd'[i] = d /\ \A j \in Io \ {i} : cmd'[j] = cmd[j]
  BY <1>1, <1>11
<1>15. tbl' = tbl /\ opener' = opener /\ lives' = lives
  BY <1>3 DEF table
<1>16. OpenerOK'
  <2>1. \A j \in Io : cmd'[j].log = cmd[j].log /\ (cmd[j].pc # "idle" => cmd'[j].pc # "idle")
    BY <1>12, <1>14
  <2>2. OpenerOK /\ \A t \in Slot : opener[t] \in Io \cup {NoIo}
    BY Parts
  <2> QED BY <1>15, <2>1, <2>2 DEF OpenerOK
<1>17. /\ Len(rotated') = Len(rotated) + 1 /\ rotated'[Len(rotated) + 1] = x
       /\ \A n \in 1 .. Len(rotated) : rotated'[n] = rotated[n]
       /\ Len(rotated) \in Nat
  BY <1>3, <1>5, <1>6
<1>18. LifeOK /\ OneRotationPerSession
  BY Parts
<1>19. /\ \A t \in Slot : tbl[t].st = "Active" /\ tbl[t].life = c.life => tbl[t].used
       /\ \A n \in 1 .. Len(rotated) : rotated[n][2] # c.life
       /\ \A j \in Io : cmd[j].pc = "open" /\ cmd[j].life = c.life => j = i
       /\ c.life <= lives
  BY <1>2, <1>18 DEF LifeOK
<1>20. \A j \in Io : cmd'[j].pc = "open" => j # i /\ cmd'[j] = cmd[j]
  BY <1>12, <1>14
<1>21. \A n \in 1 .. Len(rotated') :
         rotated'[n] = x \/ (n \in 1 .. Len(rotated) /\ rotated'[n] = rotated[n])
  BY <1>17
<1>22. LifeOK'
  <2>1. ASSUME NEW j \in Io, cmd'[j].pc = "open", NEW n \in 1 .. Len(rotated')
        PROVE  rotated'[n][2] # cmd'[j].life
    BY <2>1, <1>6, <1>18, <1>19, <1>20, <1>21 DEF LifeOK
  <2>2. ASSUME NEW j \in Io, cmd'[j].pc = "open"
        PROVE  /\ cmd'[j].life <= lives'
               /\ \A t \in Slot : tbl'[t].st = "Active" /\ tbl'[t].life = cmd'[j].life
                                    => tbl'[t].used
               /\ \A l \in Io : cmd'[l].pc = "open" /\ cmd'[l].life = cmd'[j].life => l = j
    BY <2>2, <1>15, <1>18, <1>20 DEF LifeOK
  <2>3. ASSUME NEW n \in 1 .. Len(rotated')
        PROVE  /\ rotated'[n][2] <= lives'
               /\ \A t \in Slot : tbl'[t].st = "Active" /\ tbl'[t].life = rotated'[n][2]
                                    => tbl'[t].used
    BY <2>3, <1>6, <1>15, <1>18, <1>19, <1>21 DEF LifeOK
  <2>4. \A t \in Slot : tbl'[t].st = "Active" =>
         /\ tbl'[t].life <= lives'
         /\ \A u \in Slot : tbl'[u].st = "Active" /\ tbl'[u].life = tbl'[t].life => u = t
    BY <1>15, <1>18 DEF LifeOK
  <2> QED BY <2>1, <2>2, <2>3, <2>4 DEF LifeOK
<1>23. OneRotationPerSession'
  <2> SUFFICES ASSUME NEW m \in 1 .. Len(rotated'), NEW n \in 1 .. Len(rotated'),
                      rotated'[m][2] = rotated'[n][2]
               PROVE  m = n
    BY DEF OneRotationPerSession
  <2>1. CASE m \in 1 .. Len(rotated) /\ n \in 1 .. Len(rotated)
    BY <2>1, <1>17, <1>18 DEF OneRotationPerSession
  <2>2. CASE m \in 1 .. Len(rotated) /\ n = Len(rotated) + 1
    BY <2>2, <1>6, <1>17, <1>19
  <2>3. CASE n \in 1 .. Len(rotated) /\ m = Len(rotated) + 1
    BY <2>3, <1>6, <1>17, <1>19
  <2>4. CASE m = Len(rotated) + 1 /\ n = Len(rotated) + 1
    BY <2>4
  <2> QED BY <1>17, <2>1, <2>2, <2>3, <2>4
<1> QED BY <1>4, <1>7, <1>13, <1>16, <1>22, <1>23 DEF SessionsInductive, KeysInv

\* The command ends: its slot is reported, or destroyed through its log.
LEMMA InvComplete ==
    ASSUME SessionsInductive, NEW i \in Io, NEW posted \in BOOLEAN,
           Complete(i, posted)
    PROVE  SessionsInductive'
<1>1. cmd[i] \in Command /\ Control(cmd[i]) /\ cmd \in [Io -> Command]
  BY Parts, TaskFacts
<1>2. /\ cmd[i].pc = "complete" /\ cmd' = [cmd EXCEPT ![i] = IdleCommand]
      /\ UNCHANGED <<issued, rotated>>
  BY DEF Complete
<1>3. TasksOK'
  BY <1>2, IdleTask, Parts, TaskUpdate
<1>4. cmd'[i].pc = "idle" /\ \A j \in Io \ {i} : cmd'[j] = cmd[j]
  BY <1>1, <1>2 DEF IdleCommand
<1>5. lost' \in 0 .. MaxLost
  <2>1. lost \in 0 .. MaxLost
    BY Parts DEF RestOK
  <2>2. lost' = lost \/ (lost < MaxLost /\ lost' = lost + 1)
    BY DEF Complete
  <2> QED BY <2>1, <2>2, ConstantsOK
<1>6. /\ TableOK' /\ lives' = lives /\ told' \subseteq Slot \X Handshake
      /\ \A t \in Slot : tbl'[t] = tbl[t] \/ tbl'[t].st # "Active"
      /\ \A t \in Slot : opener'[t] \in {opener[t], NoIo} /\ opener'[t] # i
  <2>0. \A t \in Slot : opener[t] = i => cmd[i].log = {t}
    BY Parts, ConstantsOK DEF OpenerOK
  <2>1. CASE Commits(i, posted)
    <3>1. /\ told' = told \cup Reported(cmd[i]) /\ UNCHANGED <<tbl, nextSeq, vault, lives>>
          /\ opener' = [s \in Slot |-> IF opener[s] = i /\ posted THEN NoIo ELSE opener[s]]
          /\ posted /\ cmd[i].handlerOk
      BY <2>1 DEF Complete, Commits
    <3>2. Reported(cmd[i]) \subseteq Slot \X Handshake
      BY <1>1, <1>2, <3>1 DEF Reported, Control, Command
    <3>3. told \subseteq Slot \X Handshake
      BY Parts DEF RestOK
    <3>4. opener' \in [Slot -> Io \cup {NoIo}]
      BY <3>1, Parts
    <3>5. TableOK'
      BY <3>1, <3>4, Parts DEF TableOK, PendingOK, SessionKeysOwned, RoleBySlot
    <3>6. \A t \in Slot : opener'[t] \in {opener[t], NoIo} /\ opener'[t] # i
      BY <3>1, ConstantsOK
    <3> QED BY <3>1, <3>2, <3>3, <3>5, <3>6
  <2>2. CASE ~Commits(i, posted) /\ cmd[i].log = {}
    <3>1. told' = told /\ UNCHANGED table
      BY <2>2 DEF Complete
    <3>2. told \subseteq Slot \X Handshake
      BY Parts DEF RestOK
    <3>3. TableOK' /\ tbl' = tbl /\ opener' = opener /\ lives' = lives
      BY <3>1, Parts, TableSame DEF table
    <3> QED BY <2>0, <2>2, <3>1, <3>2, <3>3
  <2>3. CASE ~Commits(i, posted) /\ cmd[i].log # {}
    <3>1. PICK s \in cmd[i].log : Destroy(s)
      BY <2>3 DEF Complete
    <3>2. told' = told /\ told \subseteq Slot \X Handshake
      BY <2>3, Parts DEF Complete, RestOK
    <3>3. s \in Slot
      BY <1>1, <3>1 DEF Command
    <3>4. TableOK'
      BY <3>1, <3>3, Parts, TableDestroy
    <3>5. /\ tbl' = [tbl EXCEPT ![s] = EmptySlot] /\ lives' = lives
          /\ opener' = [opener EXCEPT ![s] = NoIo]
      BY <3>1 DEF Destroy
    <3>6. \A t \in Slot : tbl'[t] = tbl[t] \/ tbl'[t].st # "Active"
      BY <3>3, <3>5, Parts DEF EmptySlot
    <3>7. \A t \in Slot : opener[t] = i => t = s
      BY <2>0, <3>1
    <3>8. \A t \in Slot : opener'[t] \in {opener[t], NoIo} /\ opener'[t] # i
      BY <3>3, <3>5, <3>7, Parts, ConstantsOK
    <3> QED BY <3>2, <3>4, <3>5, <3>6, <3>8
  <2> QED BY <2>1, <2>2, <2>3
<1>7. RestOK'
  <2>1. RestOK /\ issued' = issued /\ rotated' = rotated
    BY <1>2, Parts
  <2> QED BY <1>5, <1>6, <2>1 DEF RestOK
<1>8. OpenerOK'
  <2> SUFFICES ASSUME NEW t \in Slot, opener'[t] # NoIo
               PROVE  cmd'[opener'[t]].pc # "idle" /\ cmd'[opener'[t]].log = {t}
    BY DEF OpenerOK
  <2>1. opener'[t] = opener[t] /\ opener[t] \in Io \ {i}
    BY <1>6, Parts
  <2> QED BY <1>4, <2>1, Parts DEF OpenerOK
<1>9. \A j \in Io : cmd'[j].pc = "open" => cmd'[j] = cmd[j]
  BY <1>4
<1>10. LifeOK' /\ OneRotationPerSession'
  <2>1. \A t \in Slot : tbl'[t].st = "Active" => tbl'[t] = tbl[t]
    BY <1>6
  <2>2. lives' = lives /\ rotated' = rotated
    BY <1>2, <1>6
  <2> QED BY <1>9, <2>1, <2>2, Parts DEF LifeOK, OneRotationPerSession
<1> QED BY <1>3, <1>6, <1>7, <1>8, <1>10 DEF SessionsInductive, KeysInv

LEMMA InvNext ==
    ASSUME SessionsInductive, [Next]_vars PROVE SessionsInductive'
<1>1. CASE UNCHANGED vars
  BY <1>1 DEF vars, SessionsInductive, KeysInv, TableOK, RestOK, TasksOK,
       ControlOK, Control, PendingOK, SessionKeysOwned, RoleBySlot, OpenerOK,
       LifeOK, OneRotationPerSession
<1>2. CASE Next
  <2>1. PICK i \in Io : Arrive(i) \/ Step(i)
    BY <1>2 DEF Next
  <2>2. CASE Arrive(i)
    BY <2>2, InvArrive
  <2>3. CASE Step(i)
    BY <2>3, InvAdvance, InvError, InvTransfer, InvReserve, InvFinishBegin,
       InvDestroy, InvPromote, InvConsume, InvInstall, InvComplete DEF Step
  <2> QED BY <2>1, <2>2, <2>3
<1> QED BY <1>1, <1>2

\* The inductive invariant holds throughout: the interleaved segments of the
\* session commands keep table, vault, tasks and their histories consistent.
THEOREM SessionsInvariant == Spec => []SessionsInductive
<1>1. Init => SessionsInductive
  BY InvInit
<1>2. SessionsInductive /\ [Next]_vars => SessionsInductive'
  BY InvNext
<1> QED BY <1>1, <1>2, PTL DEF Spec
-----------------------------------------------------------------------------
\* Every state of the session table, the vault and the tasks is well typed:
\* no task works with, and no completion reports, a handshake that is none.
THEOREM SessionsTyped == Spec => []TypeOK
<1>1. SessionsInductive => TypeOK
  BY Parts DEF TableOK, RestOK, TasksOK, TypeOK
<1> QED BY <1>1, SessionsInvariant, PTL

\* Session keys and Active slots correspond one to one, always.
THEOREM KeysOwned == Spec => []SessionKeysOwned
<1>1. SessionsInductive => SessionKeysOwned
  BY DEF SessionsInductive, KeysInv, TableOK
<1> QED BY <1>1, SessionsInvariant, PTL

\* The role a slot id stands for is the role its keys were negotiated with.
THEOREM RolesMatch == Spec => []RoleBySlot
<1>1. SessionsInductive => RoleBySlot
  BY DEF SessionsInductive, KeysInv, TableOK
<1> QED BY <1>1, SessionsInvariant, PTL

\* No handshake or session survives the command whose completion was lost.
THEOREM UnreportedEnds == Spec => []NoUnreportedSession
<1>1. SessionsInductive => NoUnreportedSession
  BY DEF SessionsInductive, OpenerOK, NoUnreportedSession
<1> QED BY <1>1, SessionsInvariant, PTL

\* One session rotates its PSK at most once.
THEOREM OneRotation == Spec => []OneRotationPerSession
<1>1. SessionsInductive => OneRotationPerSession
  BY DEF SessionsInductive
<1> QED BY <1>1, SessionsInvariant, PTL
\* The only step that puts a handshake in a slot is create_pending.
LEMMA EvictionReserve ==
    ASSUME SessionsInductive, NEW i \in Io, InitReserve(i),
           NEW s \in Slot, tbl'[s] # tbl[s]
    PROVE  \/ tbl[s].st = "Empty"
           \/ /\ tbl[s].st = "Pending"
              /\ \A t \in {t \in Slot : RoleOf(t) = RoleOf(s)} :
                   /\ tbl[t].st # "Empty"
                   /\ tbl[t].st = "Pending" => tbl[s].hs[1] <= tbl[t].hs[1]
<1> DEFINE role == cmd[i].role
<1>1. role \in {"CO", "CU"}
  BY Parts, TaskFacts DEF Command
<1>2. PICK v \in Victim(role) :
        tbl' = [tbl EXCEPT ![v] = Installed(<<nextSeq + 1, role>>)]
  BY DEF InitReserve
<1> HIDE DEF role
<1>3. s = v
  BY <1>2, Parts
<1>4. v \in Slot /\ RoleOf(v) = role
  BY <1>1, VictimFacts, RoleRange
<1>5. \A t \in Slot : RoleOf(t) = role => t \in role_slot_range(role)
  BY <1>1 DEF role_slot_range, RoleOf
<1>6. \A t \in Slot : tbl[t].st = "Pending" => tbl[t].seq = tbl[t].hs[1]
  BY Parts DEF TableOK, PendingOK
<1>7. \/ tbl[v].st = "Empty"
      \/ /\ tbl[v].st = "Pending"
         /\ \A t \in role_slot_range(role) :
              /\ tbl[t].st # "Empty"
              /\ tbl[t].st = "Pending" => tbl[v].seq <= tbl[t].seq
  BY <1>1, VictimFacts
<1> QED BY <1>3, <1>4, <1>5, <1>6, <1>7

\* No other step does: it leaves a slot, frees it, promotes it or marks it.
LEMMA EvictionOther ==
    ASSUME SessionsInductive, NEW i \in Io, Arrive(i) \/ Step(i), ~InitReserve(i),
           NEW s \in Slot
    PROVE  tbl'[s] = tbl[s] \/ tbl'[s].st # "Pending"
<1>0. tbl \in [Slot -> SlotRec] /\ cmd[i] \in Command
  BY Parts, TaskFacts
<1>1. ASSUME NEW t \in Slot, Destroy(t) PROVE tbl'[s] = tbl[s] \/ tbl'[s].st # "Pending"
  BY <1>0, <1>1 DEF Destroy, EmptySlot
<1>2. CASE Arrive(i) \/ InboundFail(i) \/ HandlerError(i) \/ InitBegin(i) \/ InitLimit(i)
           \/ InitRespond(i) \/ FinishBegin(i) \/ FinishVerified(i) \/ FinishSeeded(i)
           \/ PskInstall(i) \/ OutboundOk(i) \/ OutboundFail(i)
  <2>1. tbl' = tbl
    BY <1>2 DEF Arrive, Submit, SubmitInit, SubmitInSession, InboundFail, HandlerError,
         InitBegin, Advance, InitLimit, InitRespond, FinishBegin, FinishVerified,
         FinishSeeded, PskInstall, OutboundOk, OutboundFail, table
  <2> QED BY <2>1
<1>3. CASE FinishAuthFail(i) \/ FlushSession(i)
  BY <1>0, <1>1, <1>3 DEF FinishAuthFail, FlushSession, Command
<1>4. CASE CloseSession(i)
  <2>1. tbl' = tbl \/ Destroy(cmd[i].slot)
    BY <1>4 DEF CloseSession, table
  <2> QED BY <1>0, <1>1, <2>1 DEF Command
<1>5. CASE FinishPromote(i)
  <2>1. tbl' = tbl \/ \E t \in Slot, k \in KeyId : tbl' = [tbl EXCEPT ![t] =
          [EmptySlot EXCEPT !.st = "Active", !.key = k, !.life = lives + 1]]
    BY <1>0, <1>5 DEF FinishPromote, table, Command
  <2>2. CASE tbl' = tbl
    BY <2>2
  <2>3. CASE tbl' # tbl
    <3>1. PICK t \in Slot, k \in KeyId : tbl' = [tbl EXCEPT ![t] =
            [EmptySlot EXCEPT !.st = "Active", !.key = k, !.life = lives + 1]]
      BY <2>1, <2>3
    <3>2. [EmptySlot EXCEPT !.st = "Active", !.key = k, !.life = lives + 1].st = "Active"
      BY Parts, PromotedRec DEF TableOK
    <3> QED BY <1>0, <3>1, <3>2
  <2> QED BY <2>2, <2>3
<1>6. CASE PskConsume(i)
  <2>1. tbl' = tbl \/ (Established(cmd[i].slot)
                       /\ tbl' = [tbl EXCEPT ![cmd[i].slot].used = TRUE])
    BY <1>6 DEF PskConsume
  <2> QED BY <1>0, <2>1 DEF Established, SlotRec, Command
<1>7. CASE \E posted \in BOOLEAN : Complete(i, posted)
  <2>1. tbl' = tbl \/ \E t \in cmd[i].log : Destroy(t)
    BY <1>7 DEF Complete, table
  <2> QED BY <1>0, <1>1, <2>1 DEF Command
<1> QED BY <1>2, <1>3, <1>4, <1>5, <1>6, <1>7 DEF Step

\* create_pending evicts the oldest pending handshake of its role, and only
\* when the role has no empty slot: never an established session.
THEOREM EvictionOrder == Spec => EvictsOldestPending
<1> DEFINE Evicts ==
      \A s \in Slot : tbl'[s].st = "Pending" /\ tbl'[s] # tbl[s] =>
         \/ tbl[s].st = "Empty"
         \/ /\ tbl[s].st = "Pending"
            /\ \A t \in {t \in Slot : RoleOf(t) = RoleOf(s)} :
                 /\ tbl[t].st # "Empty"
                 /\ tbl[t].st = "Pending" => tbl[s].hs[1] <= tbl[t].hs[1]
<1>1. SessionsInductive /\ Next => Evicts
  <2> SUFFICES ASSUME SessionsInductive, NEW i \in Io, Arrive(i) \/ Step(i) PROVE Evicts
    BY DEF Next
  <2>1. CASE InitReserve(i)
    BY <2>1, EvictionReserve
  <2>2. CASE ~InitReserve(i)
    BY <2>2, EvictionOther
  <2> QED BY <2>1, <2>2
<1> QED BY <1>1, SessionsInvariant, PTL DEF Spec, EvictsOldestPending
=============================================================================
