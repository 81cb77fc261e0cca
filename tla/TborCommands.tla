---------------------------- MODULE TborCommands ----------------------------
(***************************************************************************)
(* The firmware's TBOR command pipeline on one partition: the IO task      *)
(* `Hsm::handle_io` / `handle_tbor_op` (fw/core/lib/src/io.rs), the        *)
(* state-changing handlers it dispatches to (PartInit, PartFinal,          *)
(* PskChange, the SD create/restore family, UnwrapKey), the per-command    *)
(* undo log (fw/core/undo) and the property and vault verbs of the         *)
(* partition (std PAL).                                                    *)
(*                                                                         *)
(* Tasks are cooperative: a task runs without interruption from one        *)
(* `.await` to the next, so one action is one await-free segment.  The     *)
(* walk of the undo log takes one entry per action; `turn` keeps the       *)
(* synchronous entries of one walk together.                               *)
(*                                                                         *)
(* Data abstraction.  "PTA_KEY_ID" stands for PTA_KEY_ID and PTA_PUB_KEY,  *)
(* "POLICY_HASH" for POLICY_HASH and the POTA / SATA / SAPOTA thumbprints: *)
(* each group is written by one handler, recorded and cleared as one block *)
(* with no await in between, so its members are present together.  A       *)
(* vault key is its slot id; `create` takes the first free slot of a fixed *)
(* scan order, and a slot is reused once its key is deleted.               *)
(***************************************************************************)
EXTENDS Naturals, Sequences, FiniteSets

CONSTANTS
    Io,            \* IO slots: the concurrently running send-tasks
    KeyId,         \* vault slots of the partition
    CoSess,        \* the Crypto-Officer session (slot 0)
    CuSess,        \* the Crypto-User sessions (slots 1..7)
    Psk,           \* PSK values other than the two public defaults
    DefaultPsk,    \* the public default PSK
    Absent,        \* an unset property
    Present,       \* a set property whose value does not matter
    NoIo,          \* no task is inside a synchronous walk segment
    Ops,           \* the commands the host issues
    Starts,        \* the partition states the host may find
    MaxCommands,   \* bound: commands issued
    MaxLost        \* bound: DMA-out / CQE-post failures

Sess == CuSess \cup {CoSess}

OpName == {"PartInit", "PartFinal", "PskChange", "SdCreate", "UnwrapKey"}

\* Distinct sentinels, and a known set of commands.
ASSUME ConstantsOK ==
    /\ CoSess \notin CuSess
    /\ Ops \subseteq OpName
    /\ DefaultPsk \notin Psk
    /\ Absent \notin KeyId /\ Present \notin KeyId /\ Absent # Present
    /\ NoIo \notin Io
    /\ MaxCommands \in Nat /\ MaxLost \in Nat

PartState == {"Enabled", "Initializing", "Initialized", "Faulted"}

KeyProp == {"PTA_KEY_ID", "UPS_KEY_ID", "LOCAL_MK_KEY_ID",
            "EPHEMERAL_MK_KEY_ID", "SD_MK_KEY_ID"}
FlagProp == {"POLICY_HASH", "SD_INITIALIZED"}
PskProp == {"PSK_CO", "PSK_CU"}
PropId == KeyProp \cup FlagProp \cup PskProp \cup {"STATE"}

Value == KeyId \cup {Absent, Present} \cup Psk \cup {DefaultPsk} \cup PartState

PropValue(p) == IF p \in KeyProp THEN KeyId \cup {Absent}
                ELSE IF p \in FlagProp THEN {Absent, Present}
                ELSE IF p \in PskProp THEN Psk \cup {DefaultPsk}
                ELSE PartState

VARIABLES
    prop,     \* the partition's property table
    vault,    \* [KeyId -> {"free", "live", "disabled"}]
    pskUsed,  \* sessions whose one-shot PSK-change budget is spent
    cmd,      \* one record per IO slot: the task's locals and its undo log
    turn,     \* the task inside a synchronous walk segment, or NoIo
    issued,   \* commands issued so far
    lost,     \* transport failures so far
    acked,    \* history: <<property, value>> pairs of acknowledged commands
    snap,     \* history: the partition when a command that has run alone began
    tainted   \* history: an undo walk has run for a command that had company

vars == <<prop, vault, pskUsed, cmd, turn, issued, lost, acked, snap, tainted>>
part == <<prop, vault, pskUsed>>
history == <<acked, snap, tainted>>
bounds == <<issued, lost>>
-----------------------------------------------------------------------------
(* Undo-log entries (fw/core/undo).  `val` is the pre-image of a property. *)

VaultCreate(k)    == [kind |-> "VaultCreate",  id |-> k, val |-> Absent]
VaultDisable(k)   == [kind |-> "VaultDisable", id |-> k, val |-> Absent]
PropRestore(p, v) == [kind |-> "PropRestore",  id |-> p, val |-> v]

Entry == {e \in [kind : {"VaultCreate", "VaultDisable", "PropRestore"},
                  id : KeyId \cup PropId, val : Value] :
            IF e.kind = "PropRestore"
            THEN e.id \in PropId /\ e.val \in PropValue(e.id)
            ELSE e.id \in KeyId /\ e.val = Absent}

\* The partition serves host traffic: the gate of `partition_enabled`, and
\* of every access to a sensitive property (the PSKs).
Serving == prop["STATE"] \in {"Enabled", "Initializing", "Initialized"}

PskPropOf(s) == IF s = CoSess THEN "PSK_CO" ELSE "PSK_CU"

\* KeyVault::create scans for the first free slot; with none it fails.
FreeSlot == CHOOSE k \in KeyId : vault[k] = "free"
VaultFull == \A k \in KeyId : vault[k] # "free"

PC == {"idle", "inbound", "validate", "stage", "commit", "claim", "vaultSd",
       "open", "mask", "outbound", "complete", "walk"}

\* The locals of one `handle_io` task: `staged` the vault keys it created,
\* `ums` the root key id PartFinal read, `res` the handler's own result,
\* `handlerOk` what `handle_tbor_op` returned, `commit` the walk's direction.
Command == [pc : PC, op : OpName, sess : Sess, psk : Psk \cup {Absent},
            staged : Seq(KeyId), ums : KeyId \cup {Absent},
            log : Seq(Entry), res : {"ok", "err"}, handlerOk : BOOLEAN,
            commit : BOOLEAN, poisoned : BOOLEAN]

IdleCommand == [pc |-> "idle", op |-> "PartInit", sess |-> CoSess,
                psk |-> Absent, staged |-> <<>>, ums |-> Absent, log |-> <<>>,
                res |-> "ok", handlerOk |-> FALSE, commit |-> FALSE,
                poisoned |-> FALSE]

\* The handler returned Err: its locals are gone, its log is not.
Failed(c) == [IdleCommand EXCEPT !.pc = "outbound", !.res = "err", !.log = c.log]

InFlight == {i \in Io : cmd[i].pc # "idle"}
CanRun(i) == turn \in {NoIo, i}

TypeOK ==
    /\ DOMAIN prop = PropId
    /\ \A p \in PropId : prop[p] \in PropValue(p)
    /\ vault \in [KeyId -> {"free", "live", "disabled"}]
    /\ pskUsed \subseteq Sess
    /\ cmd \in [Io -> Command]
    /\ turn \in Io \cup {NoIo}
    /\ issued \in 0 .. MaxCommands
    /\ lost \in 0 .. MaxLost
    /\ tainted \in BOOLEAN
-----------------------------------------------------------------------------
(* Initial states: a partition the admin just enabled, one whose PSKs were *)
(* rotated, and one that PartInit and PartFinal have provisioned.          *)

FreshProps(v) == [p \in PropId |->
    CASE p = "STATE"    -> "Enabled"
      [] p \in PskProp -> v
      [] OTHER          -> Absent]

\* The four keys a finished PartInit and PartFinal leave in the vault.
PartKeyProp == KeyProp \ {"SD_MK_KEY_ID"}
KeyChoice == {f \in [PartKeyProp -> KeyId] :
                \A p, q \in PartKeyProp : f[p] = f[q] => p = q}
ProvisionedKeys == CHOOSE f \in KeyChoice : TRUE

ProvisionedProps(v) == [p \in PropId |->
    CASE p = "STATE"         -> "Initialized"
      [] p \in PskProp      -> v
      [] p \in PartKeyProp  -> ProvisionedKeys[p]
      [] p = "POLICY_HASH"   -> Present
      [] OTHER               -> Absent]

ASSUME ProvisionedOK == "provisioned" \in Starts => KeyChoice # {}

PartitionInit ==
    \/ /\ "fresh" \in Starts
       /\ prop = FreshProps(DefaultPsk)
       /\ vault = [k \in KeyId |-> "free"]
    \/ /\ "rotated" \in Starts
       /\ \E v \in Psk : prop = FreshProps(v)
       /\ vault = [k \in KeyId |-> "free"]
    \/ /\ "provisioned" \in Starts
       /\ \E v \in Psk : prop = ProvisionedProps(v)
       /\ vault = [k \in KeyId |->
            IF \E p \in PartKeyProp : ProvisionedKeys[p] = k
            THEN "live" ELSE "free"]

Init ==
    /\ PartitionInit
    /\ pskUsed = {}
    /\ cmd = [i \in Io |-> IdleCommand]
    /\ turn = NoIo
    /\ issued = 0 /\ lost = 0
    /\ acked = {} /\ snap = [i \in Io |-> Absent] /\ tainted = FALSE
-----------------------------------------------------------------------------
(* handle_io: the enable gate, bind_undo and the inbound DMA.              *)

\* A host command arrives at a partition that serves traffic; the IO task
\* binds an empty undo log and starts the inbound DMA.
Submit(i, o, s, v) ==
    /\ turn = NoIo
    /\ cmd[i].pc = "idle" /\ issued < MaxCommands
    /\ Serving
    /\ cmd' = [cmd EXCEPT ![i] = [IdleCommand EXCEPT
                 !.pc = "inbound", !.op = o, !.sess = s, !.psk = v]]
    /\ issued' = issued + 1
    /\ snap' = [j \in Io |->
         IF j = i /\ InFlight = {} THEN <<prop, vault>> ELSE Absent]
    /\ UNCHANGED <<prop, vault, pskUsed, turn, lost, acked, tainted>>

\* Inbound DMA, SQE decode or header parse fails: handle_tbor_op returns Err
\* before it dispatches.
InboundFail(i) ==
    /\ CanRun(i) /\ cmd[i].pc = "inbound"
    /\ cmd' = [cmd EXCEPT ![i].pc = "complete", ![i].handlerOk = FALSE]
    /\ UNCHANGED <<part, turn, bounds, history>>

\* The handler returns Err(e) while nothing more is written: a malformed
\* request, failing crypto, an allocation that does not fit.
HandlerError(i) ==
    /\ CanRun(i)
    /\ cmd[i].pc \in {"inbound", "validate", "stage", "claim", "vaultSd",
                      "open", "mask"}
    /\ cmd' = [cmd EXCEPT ![i] = Failed(@)]
    /\ UNCHANGED <<part, turn, bounds, history>>
-----------------------------------------------------------------------------
(* dispatch: the default-PSK gate, then the handler up to its first await. *)

\* What the dispatcher and the head of the handler check before any await.
Admitted(c) ==
    /\ c.op # "PskChange" => Serving /\ prop[PskPropOf(c.sess)] # DefaultPsk
    /\ c.op \in {"PartInit", "PartFinal", "SdCreate"} => c.sess = CoSess
    /\ c.op = "PartFinal" => prop["STATE"] = "Initializing"
    /\ c.op = "SdCreate" => /\ prop["STATE"] = "Initialized"
                            /\ prop["SD_INITIALIZED"] = Absent
    /\ c.op = "PskChange" => c.sess \notin pskUsed

FirstPc(o) == CASE o = "PartFinal" -> "validate"
                [] o = "SdCreate"  -> "claim"
                [] o = "PskChange" -> "open"
                [] OTHER           -> "stage"

\* A rejected command: the handler returns Err before it changes anything.
Reject(i) ==
    /\ CanRun(i) /\ cmd[i].pc = "inbound"
    /\ ~Admitted(cmd[i])
    /\ cmd' = [cmd EXCEPT ![i] = Failed(@)]
    /\ UNCHANGED <<part, turn, bounds, history>>

\* PartInit, PartFinal, SdCreate and UnwrapKey start their crypto.
Dispatch(i) ==
    /\ CanRun(i) /\ cmd[i].pc = "inbound"
    /\ cmd[i].op # "PskChange" /\ Admitted(cmd[i])
    /\ cmd' = [cmd EXCEPT ![i].pc = FirstPc(cmd[i].op)]
    /\ UNCHANGED <<part, turn, bounds, history>>

\* PskChange: the session's one-shot budget is burnt and the prior PSK is
\* recorded on the log, before the AEAD open is awaited.  The prior PSK is
\* readable only while the partition serves; the budget is gone either way.
PskReserve(i) ==
    /\ CanRun(i) /\ cmd[i].pc = "inbound"
    /\ cmd[i].op = "PskChange" /\ Admitted(cmd[i])
    /\ pskUsed' = pskUsed \cup {cmd[i].sess}
    /\ LET p == PskPropOf(cmd[i].sess) IN
         cmd' = IF Serving
                THEN [cmd EXCEPT ![i].pc = "open",
                        ![i].log = Append(@, PropRestore(p, prop[p]))]
                ELSE [cmd EXCEPT ![i] = Failed(@)]
    /\ UNCHANGED <<prop, vault, turn, bounds, history>>

\* The handler ends with the locals and log `c`: it returns Ok only if `ok`,
\* and encode_response may still fail after the state is in place.
Respond(i, ok, c) ==
    \/ /\ ok
       /\ cmd' = [cmd EXCEPT ![i] = [c EXCEPT !.pc = "outbound"]]
    \/ cmd' = [cmd EXCEPT ![i] = Failed(c)]

\* PskChange: the envelope opened; the new PSK is written (a sensitive
\* property: only while the partition serves) and the response encoded,
\* which may itself fail.
PskInstall(i) ==
    /\ CanRun(i) /\ cmd[i].pc = "open"
    /\ Respond(i, Serving, cmd[i])
    /\ prop' = IF Serving
               THEN [prop EXCEPT ![PskPropOf(cmd[i].sess)] = cmd[i].psk]
               ELSE prop
    /\ UNCHANGED <<vault, pskUsed, turn, bounds, history>>
-----------------------------------------------------------------------------
(* Staging of vault keys: stage_part_keys, stage_final_keys, UnwrapKey.    *)

\* PartFinal: policy hash and PTA chain checked; read the root (UMS) key id
\* and derive UPS from the key behind it.
ReadUms(i) ==
    /\ CanRun(i) /\ cmd[i].pc = "validate"
    /\ prop["POLICY_HASH"] = Present /\ prop["PTA_KEY_ID"] # Absent
    /\ LET u == prop["UPS_KEY_ID"] IN
         /\ u # Absent /\ vault[u] = "live"
         /\ cmd' = [cmd EXCEPT ![i].pc = "stage", ![i].ums = u]
    /\ UNCHANGED <<part, turn, bounds, history>>

\* Vault keys each handler stages before its commit.
StagedKeys(o) == CASE o = "PartInit" -> 2 [] o = "PartFinal" -> 3 [] OTHER -> 1

\* vault_key_create in a free slot, and push_vault_create of its inverse.
StageKey(i) ==
    /\ CanRun(i) /\ cmd[i].pc = "stage" /\ ~VaultFull
    /\ LET k == FreeSlot IN
         /\ vault' = [vault EXCEPT ![k] = "live"]
         /\ cmd' = [cmd EXCEPT
              ![i].staged = Append(@, k),
              ![i].log    = Append(@, VaultCreate(k)),
              ![i].pc     = IF Len(cmd[i].staged) + 1 < StagedKeys(cmd[i].op)
                            THEN "stage"
                            ELSE IF cmd[i].op = "UnwrapKey" THEN "mask"
                            ELSE "commit"]
    /\ UNCHANGED <<prop, pskUsed, turn, bounds, history>>

\* UnwrapKey: the key is masked into the response and deleted again; only a
\* successful delete discards the log.
UnwrapDone(i) ==
    /\ CanRun(i) /\ cmd[i].pc = "mask"
    /\ LET k == cmd[i].staged[1] IN
         IF vault[k] # "free"
         THEN /\ vault' = [vault EXCEPT ![k] = "free"]
              /\ cmd' = [cmd EXCEPT ![i].pc = "outbound", ![i].log = <<>>]
         ELSE /\ cmd' = [cmd EXCEPT ![i] = Failed(@)]
              /\ UNCHANGED vault
    /\ UNCHANGED <<prop, pskUsed, turn, bounds, history>>
-----------------------------------------------------------------------------
(* The await-free commit blocks.  Each one records every inverse before it *)
(* applies the first mutation; a setter that fails returns Err and leaves  *)
(* the mutations before it in place for the walk.                          *)

\* Mutants: STATE not recorded; STATE recorded as a property to clear.
InitInversesNoState == <<PropRestore("PTA_KEY_ID", Absent),
                         PropRestore("UPS_KEY_ID", Absent),
                         PropRestore("POLICY_HASH", Absent)>>
InitInversesClearState == Append(InitInversesNoState, PropRestore("STATE", Absent))

InitInverses == <<PropRestore("PTA_KEY_ID", Absent),
                  PropRestore("UPS_KEY_ID", Absent),
                  PropRestore("POLICY_HASH", Absent),
                  PropRestore("STATE", "Enabled")>>

\* Mutant: the guard before the commit block is dropped.
NeverProvisioned == FALSE

\* ensure_key_id_unset: some PartInit has already committed.
AlreadyProvisioned == prop["PTA_KEY_ID"] # Absent

\* commit_partition_state: guards-first on PTA_KEY_ID, then the write-once
\* setters in order, then STATE through part_set_state.
CommitInit(i) ==
    /\ CanRun(i) /\ cmd[i].pc = "commit" /\ cmd[i].op = "PartInit"
    /\ IF AlreadyProvisioned
       THEN /\ Respond(i, FALSE, cmd[i])
            /\ UNCHANGED prop
       ELSE LET ups    == prop["UPS_KEY_ID"] = Absent
                policy == ups /\ prop["POLICY_HASH"] = Absent
                legal  == policy /\ prop["STATE"] \in {"Enabled", "Initializing"}
            IN /\ prop' = [prop EXCEPT
                    !["PTA_KEY_ID"]  = cmd[i].staged[2],
                    !["UPS_KEY_ID"]  = IF ups THEN cmd[i].staged[1] ELSE @,
                    !["POLICY_HASH"] = IF policy THEN Present ELSE @,
                    !["STATE"]       = IF legal THEN "Initializing" ELSE @]
               /\ Respond(i, legal, [cmd[i] EXCEPT !.log = cmd[i].log \o InitInverses])
    /\ UNCHANGED <<vault, pskUsed, turn, bounds, history>>

FinalInverses(ums) == <<PropRestore("LOCAL_MK_KEY_ID", Absent),
                        PropRestore("EPHEMERAL_MK_KEY_ID", Absent),
                        PropRestore("UPS_KEY_ID", ums),
                        VaultDisable(ums),
                        PropRestore("STATE", "Initializing")>>

\* commit_final: guards-first on STATE; the UMS key is soft-deleted, which
\* fails on a slot that is free or already disabled.
CommitFinal(i) ==
    /\ CanRun(i) /\ cmd[i].pc = "commit" /\ cmd[i].op = "PartFinal"
    /\ LET u == cmd[i].ums
           disabled == vault[u] = "live"
       IN IF prop["STATE"] # "Initializing"
          THEN /\ Respond(i, FALSE, cmd[i])
               /\ UNCHANGED <<prop, vault>>
          ELSE /\ prop' = [prop EXCEPT
                    !["LOCAL_MK_KEY_ID"]     = cmd[i].staged[1],
                    !["EPHEMERAL_MK_KEY_ID"] = cmd[i].staged[2],
                    !["UPS_KEY_ID"]          = cmd[i].staged[3],
                    !["STATE"] = IF disabled THEN "Initialized" ELSE @]
               /\ vault' = IF disabled
                           THEN [vault EXCEPT ![u] = "disabled"] ELSE vault
               /\ Respond(i, disabled,
                     [cmd[i] EXCEPT !.log = cmd[i].log \o FinalInverses(u)])
    /\ UNCHANGED <<pskUsed, turn, bounds, history>>

\* Mutant: the claim overwrites an earlier one.
SdNeverClaimed == FALSE

SdClaimed == prop["SD_INITIALIZED"] # Absent

\* commit_sd_to_vault, up to its await: the one-shot SD_INITIALIZED claim.
ClaimSd(i) ==
    /\ CanRun(i) /\ cmd[i].pc = "claim"
    /\ IF SdClaimed
       THEN /\ cmd' = [cmd EXCEPT ![i] = Failed(@)]
            /\ UNCHANGED prop
       ELSE /\ prop' = [prop EXCEPT !["SD_INITIALIZED"] = Present]
            /\ cmd' = [cmd EXCEPT ![i].pc = "vaultSd",
                 ![i].log = Append(@, PropRestore("SD_INITIALIZED", Absent))]
    /\ UNCHANGED <<vault, pskUsed, turn, bounds, history>>

\* Mutant: the published id is not recorded.
SdInversesNoId(k) == <<VaultCreate(k)>>

SdInverses(k) == <<VaultCreate(k), PropRestore("SD_MK_KEY_ID", Absent)>>

\* commit_sd_to_vault, after it: vault SDMK, publish its id.
VaultSd(i) ==
    /\ CanRun(i) /\ cmd[i].pc = "vaultSd" /\ ~VaultFull
    /\ LET k == FreeSlot IN
         /\ vault' = [vault EXCEPT ![k] = "live"]
         /\ prop' = [prop EXCEPT !["SD_MK_KEY_ID"] = k]
         /\ Respond(i, TRUE, [cmd[i] EXCEPT
              !.staged = Append(cmd[i].staged, k),
              !.log = cmd[i].log \o SdInverses(k)])
    /\ UNCHANGED <<pskUsed, turn, bounds, history>>
-----------------------------------------------------------------------------
(* The response DMA, the CQE and the walk of the undo log.                 *)

\* The outbound DMA ends.  A dispatch error has been encoded as an error
\* response by now, so it too makes handle_tbor_op return Ok.
OutboundOk(i) ==
    /\ CanRun(i) /\ cmd[i].pc = "outbound"
    /\ cmd' = [cmd EXCEPT ![i].pc = "complete", ![i].handlerOk = TRUE]
    /\ UNCHANGED <<part, turn, bounds, history>>

\* The outbound DMA fails, or the error response cannot be allocated.
OutboundFail(i) ==
    /\ CanRun(i) /\ cmd[i].pc = "outbound" /\ lost < MaxLost
    /\ lost' = lost + 1
    /\ cmd' = [cmd EXCEPT ![i].pc = "complete", ![i].handlerOk = FALSE]
    /\ UNCHANGED <<part, turn, issued, history>>

\* What an acknowledged success tells the host is in force.
Acknowledged(c) ==
    CASE c.op = "PartInit"  -> {<<"PTA_KEY_ID", c.staged[2]>>}
      [] c.op = "PartFinal" -> {<<"LOCAL_MK_KEY_ID", c.staged[1]>>}
      [] c.op = "SdCreate"  -> {<<"SD_MK_KEY_ID", c.staged[1]>>}
      [] c.op = "PskChange" -> {<<PskPropOf(c.sess), c.psk>>}
      [] OTHER              -> {}

\* vault_delete is the only async verb a walk calls: undo deletes the keys
\* the command created, commit the keys it disabled.
Yields(e, commit) ==
    e.kind = IF commit THEN "VaultDisable" ELSE "VaultCreate"

\* complete_io posts the CQE (`posted`) or fails; the walk commits iff
\* handler_ok and cqe_ok, and starts in the same segment.
Complete(i, posted) ==
    /\ CanRun(i) /\ cmd[i].pc = "complete"
    /\ ~posted => lost < MaxLost
    /\ lost' = IF posted THEN lost ELSE lost + 1
    /\ LET commit == cmd[i].handlerOk /\ posted
           log == cmd[i].log
           first == log[IF commit THEN 1 ELSE Len(log)]
       IN
         /\ turn' = IF log = <<>> \/ ~Yields(first, commit) THEN i ELSE NoIo
         /\ cmd' = [cmd EXCEPT ![i] = [IdleCommand EXCEPT
              !.pc = "walk", !.log = log, !.commit = commit]]
         /\ acked' = IF commit /\ cmd[i].res = "ok"
                     THEN acked \cup Acknowledged(cmd[i]) ELSE acked
         /\ tainted' = \/ tainted
                       \/ ~commit /\ log # <<>> /\ snap[i] = Absent
    /\ UNCHANGED <<part, issued, snap>>

\* A walk keeps the executor from one synchronous verb to the next.
NextTurn(i, e, more, next) ==
    IF \/ Yields(e, cmd[i].commit)
       \/ more /\ Yields(next, cmd[i].commit)
    THEN NoIo ELSE i

\* undo_one and its failure policy: deleting a missing key is benign,
\* enabling a missing key or writing a PSK of a quarantined partition
\* poisons the walk.
UndoEntry(i) ==
    /\ CanRun(i) /\ cmd[i].pc = "walk" /\ ~cmd[i].commit /\ cmd[i].log # <<>>
    /\ LET n == Len(cmd[i].log)
           e == cmd[i].log[n]
           rest == SubSeq(cmd[i].log, 1, n - 1)
           failed == \/ e.kind = "VaultDisable" /\ vault[e.id] = "free"
                     \/ e.kind = "PropRestore" /\ e.id \in PskProp /\ ~Serving
       IN /\ vault' = CASE e.kind = "VaultCreate" -> [vault EXCEPT ![e.id] = "free"]
                        [] e.kind = "VaultDisable" /\ ~failed
                             -> [vault EXCEPT ![e.id] = "live"]
                        [] OTHER -> vault
          /\ prop' = IF e.kind = "PropRestore" /\ ~failed
                     THEN [prop EXCEPT ![e.id] = e.val] ELSE prop
          /\ cmd' = [cmd EXCEPT ![i].log = rest, ![i].poisoned = @ \/ failed]
          /\ turn' = NextTurn(i, e, n > 1, cmd[i].log[n - 1])
    /\ UNCHANGED <<pskUsed, bounds, history>>

\* Mutant: committing leaves the soft-deleted key in its slot.
CommitEntryKeepsKey(i) ==
    /\ CanRun(i) /\ cmd[i].pc = "walk" /\ cmd[i].commit /\ cmd[i].log # <<>>
    /\ turn' = NextTurn(i, Head(cmd[i].log), Len(cmd[i].log) > 1, cmd[i].log[2])
    /\ cmd' = [cmd EXCEPT ![i].log = Tail(@)]
    /\ UNCHANGED <<part, bounds, history>>

\* commit_one: a soft-deleted key is deleted (best effort), the rest stands.
CommitEntry(i) ==
    /\ CanRun(i) /\ cmd[i].pc = "walk" /\ cmd[i].commit /\ cmd[i].log # <<>>
    /\ LET e == Head(cmd[i].log) IN
         /\ vault' = IF e.kind = "VaultDisable"
                     THEN [vault EXCEPT ![e.id] = "free"] ELSE vault
         /\ turn' = NextTurn(i, e, Len(cmd[i].log) > 1, cmd[i].log[2])
    /\ cmd' = [cmd EXCEPT ![i].log = Tail(@)]
    /\ UNCHANGED <<prop, pskUsed, bounds, history>>

\* Mutant: a poisoned walk returns before it quarantines and drops the IO.
WalkEndLeaksIo(i) ==
    /\ CanRun(i) /\ cmd[i].pc = "walk" /\ cmd[i].log = <<>>
    /\ ~cmd[i].poisoned
    /\ cmd' = [cmd EXCEPT ![i] = IdleCommand]
    /\ snap' = [snap EXCEPT ![i] = Absent]
    /\ turn' = NoIo
    /\ UNCHANGED <<part, bounds, acked, tainted>>

\* The walk has ended: a poisoned one quarantines the partition
\* (part_set_faulted); drop_io returns the slot.
WalkEnd(i) ==
    /\ CanRun(i) /\ cmd[i].pc = "walk" /\ cmd[i].log = <<>>
    /\ prop' = IF cmd[i].poisoned
               THEN [prop EXCEPT !["STATE"] = "Faulted"] ELSE prop
    /\ cmd' = [cmd EXCEPT ![i] = IdleCommand]
    /\ snap' = [snap EXCEPT ![i] = Absent]
    /\ turn' = NoIo
    /\ UNCHANGED <<vault, pskUsed, bounds, acked, tainted>>
-----------------------------------------------------------------------------
Step(i) ==
    \/ InboundFail(i) \/ HandlerError(i)
    \/ Reject(i) \/ Dispatch(i) \/ PskReserve(i) \/ PskInstall(i)
    \/ ReadUms(i) \/ StageKey(i) \/ UnwrapDone(i)
    \/ CommitInit(i) \/ CommitFinal(i) \/ ClaimSd(i) \/ VaultSd(i)
    \/ OutboundOk(i) \/ OutboundFail(i)
    \/ \E posted \in BOOLEAN : Complete(i, posted)
    \/ UndoEntry(i) \/ CommitEntry(i) \/ WalkEnd(i)

\* Only PskChange carries a PSK.
Payload(o) == IF o = "PskChange" THEN Psk ELSE {Absent}

Arrive(i) == \E o \in Ops, s \in Sess : \E v \in Payload(o) : Submit(i, o, s, v)

Next == \E i \in Io : Arrive(i) \/ Step(i)

Spec == Init /\ [][Next]_vars

\* The executor polls every ready task again and again, so a task whose
\* next segment stays runnable runs it.
FairSpec == Spec /\ \A i \in Io : WF_vars(Step(i))
-----------------------------------------------------------------------------
(* Properties that hold.                                                   *)

\* A soft-deleted key (PartFinal's retired UMS) never outlives its command:
\* every disabled slot is still named by the unwalked log of a running
\* command, which will delete or re-enable it.
SoftDeletedIsOwned ==
    \A k \in KeyId : vault[k] = "disabled" =>
        \E i \in Io : \E n \in 1 .. Len(cmd[i].log) :
            cmd[i].log[n] = VaultDisable(k)

\* A PartInit the host saw succeed is final: its PTA key id stays published
\* whatever other commands race, fail or roll back (so at most one succeeds).
AckedInitStands ==
    \A k \in KeyId : <<"PTA_KEY_ID", k>> \in acked => prop["PTA_KEY_ID"] = k

\* A security-domain create or restore the host saw succeed is final: the
\* one-shot SD_INITIALIZED claim admits one winner, and no loser's or failed
\* claimant's walk withdraws the winner's SDMK id.
AckedSdStands ==
    \A k \in KeyId : <<"SD_MK_KEY_ID", k>> \in acked =>
        prop["SD_MK_KEY_ID"] = k /\ prop["SD_INITIALIZED"] = Present

\* While no command that had company is rolled back, a published key id
\* never names a free or soft-deleted slot: keys are vaulted before they are
\* published, unpublished before they are deleted, re-enabled before they
\* are published again.
PublishedKeysLive ==
    ~tainted => \A p \in KeyProp : prop[p] # Absent => vault[prop[p]] = "live"

\* While no command that had company is rolled back, rolling back a command
\* that ran alone restores every property and every vault slot it found, and
\* cannot poison the partition.  (After such a rollback the pre-images that
\* PartInit and PartFinal record without reading them need not be in force.)
SoloUndoIsExact ==
    \A i \in Io :
        /\ ~tainted
        /\ cmd[i].pc = "walk" /\ ~cmd[i].commit /\ cmd[i].log = <<>>
        /\ snap[i] # Absent
        => <<prop, vault>> = snap[i] /\ ~cmd[i].poisoned

\* Every accepted command returns its IO slot.
EveryCommandEnds == \A i \in Io : cmd[i].pc # "idle" ~> cmd[i].pc = "idle"
-----------------------------------------------------------------------------
(* Properties that the source states and the code does not have.           *)

Quiescent == InFlight = {}

\* "All persistent mutations are recorded on the per-command undo log, so a
\* handler failure - or a failed completion - reverts them": once every
\* command has ended, a claimed security domain has its masking key.
SdClaimHasKey ==
    Quiescent => (prop["SD_INITIALIZED"] = Present => prop["SD_MK_KEY_ID"] # Absent)

\* "The rotation is all-or-nothing as the host observes it": after an
\* acknowledged rotation the role's PSK is not the public default again.
AckedRotationStands ==
    \A p \in PskProp, v \in Psk : <<p, v>> \in acked => prop[p] # DefaultPsk
=============================================================================
