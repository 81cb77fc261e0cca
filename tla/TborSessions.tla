---------------------------- MODULE TborSessions ----------------------------
(***************************************************************************)
(* The TBOR session handshake on one serving partition: SessionOpenInit,   *)
(* SessionOpenFinish, SessionClose, PskChange's budget and OP_FLUSH        *)
(* (fw/core/lib), over the std PAL's session table                         *)
(* (drivers/session.rs) and the SessionEx keys of the vault.               *)
(*                                                                         *)
(* As in TborCommands an action is one await-free segment of an IO task.   *)
(* The std PAL's session verbs do not suspend, so a handler's verb runs    *)
(* within the segment that follows the awaited crypto, and the undo walk   *)
(* (at most one SessionDestroy entry) within the segment that follows the  *)
(* CQE post.                                                               *)
(*                                                                         *)
(* Data abstraction.  A handshake is the pair <<n, role>> made by the n-th *)
(* pending-slot reservation; it stands for the HPKE exported secret, all   *)
(* keys derived from it and the role whose PSK authenticated it.  A MAC or *)
(* an envelope verifies iff the host computed it, untampered, under the    *)
(* handshake the firmware checks it with.                                  *)
(***************************************************************************)
EXTENDS Naturals, Sequences, FiniteSets

CONSTANTS
    Io,            \* IO slots: the concurrently running send-tasks
    CuSlots,       \* Crypto-User session slots (7 in the source)
    KeyId,         \* vault slots that may hold a SessionEx key
    NoKey, NoIo,   \* no vault key; no task
    Roles,         \* the roles the host opens sessions for
    MaxCommands,   \* bound: commands issued
    MaxLost        \* bound: DMA-out / CQE-post failures

ASSUME ConstantsOK ==
    /\ CuSlots \in Nat
    /\ NoKey \notin KeyId /\ NoIo \notin Io
    /\ Roles \subseteq {"CO", "CU"}
    /\ MaxCommands \in Nat /\ MaxLost \in Nat

Slot == 0 .. CuSlots

\* Mutant: the Crypto-User range starts at slot 0.
OverlappingSlotRange(role) == IF role = "CO" THEN {0} ELSE Slot

\* role_slot_range: slot 0 is the Crypto Officer's, the others Crypto-User.
role_slot_range(role) == IF role = "CO" THEN {0} ELSE Slot \ {0}

\* HsmSessId::role, the role the dispatcher reads off a session id.
RoleOf(s) == IF s = 0 THEN "CO" ELSE "CU"

Handshake == (Nat \ {0}) \X {"CO", "CU"}
NoHs == <<0, "CO">>

SlotState == {"Empty", "Pending", "Active", "NeedsRenegotiation"}

\* One slot of the session table: `hs` the Pending blob, `seq` its
\* pending_seqs entry, `key` its phys_ids entry, `used` its psk_change_mask
\* bit; `life` (history) numbers the promotions.
SlotRec == [st : SlotState, hs : Handshake \cup {NoHs}, seq : Nat,
            key : KeyId \cup {NoKey}, used : BOOLEAN, life : Nat]

Op == {"OpenInit", "OpenFinish", "Close", "PskChange", "Flush"}
PC == {"idle", "inbound", "hpke", "mac", "verify", "seed", "derive", "open",
       "flush", "outbound", "complete"}

\* The locals of one `handle_io` task.  `hs` is the handshake the host used,
\* `loaded` the one the handler works with; `log` is the slot of the one
\* SessionDestroy entry, or none.
Command == [pc : PC, op : Op, slot : Slot, hs : Handshake \cup {NoHs},
            role : {"CO", "CU"}, good : BOOLEAN,
            loaded : Handshake \cup {NoHs}, life : Nat,
            log : {{}} \cup {{s} : s \in Slot}, res : {"ok", "err"},
            handlerOk : BOOLEAN]

VARIABLES
    tbl,      \* the partition's session table
    nextSeq,  \* next_init_seq
    vault,    \* [KeyId -> handshake of the SessionEx blob, or NoHs]
    cmd,      \* the IO tasks
    told,     \* <<slot, handshake>> pairs a completed OpenInit gave the host
    issued, lost,
    opener,   \* history: the command a slot's occupant comes from, until
              \* that command's completion is posted
    rotated,  \* history: <<handshake, life>> of each installed PSK
    lives     \* history: promotions so far

vars == <<tbl, nextSeq, vault, cmd, told, issued, lost, opener, rotated, lives>>
table == <<tbl, nextSeq, vault, opener, lives>>

EmptySlot == [st |-> "Empty", hs |-> NoHs, seq |-> 0, key |-> NoKey,
              used |-> FALSE, life |-> 0]

IdleCommand == [pc |-> "idle", op |-> "OpenInit", slot |-> 0, hs |-> NoHs,
                role |-> "CO", good |-> FALSE, loaded |-> NoHs, life |-> 0,
                log |-> {}, res |-> "ok", handlerOk |-> FALSE]

\* The handler returned Err: its locals are gone, its log is not.
Failed(c) == [IdleCommand EXCEPT !.pc = "outbound", !.op = c.op,
                !.res = "err", !.log = c.log]

TypeOK ==
    /\ tbl \in [Slot -> SlotRec]
    /\ nextSeq \in Nat
    /\ vault \in [KeyId -> Handshake \cup {NoHs}]
    /\ cmd \in [Io -> Command]
    /\ told \subseteq Slot \X Handshake
    /\ issued \in 0 .. MaxCommands /\ lost \in 0 .. MaxLost
    /\ opener \in [Slot -> Io \cup {NoIo}]
    /\ rotated \in Seq(Handshake \X Nat)
    /\ lives \in Nat

\* A new table, or one a live migration restored: `restore` leaves every
\* session that was Active as a slot that needs renegotiation.
Init ==
    /\ \E R \in SUBSET Slot : tbl = [s \in Slot |->
         IF s \in R THEN [EmptySlot EXCEPT !.st = "NeedsRenegotiation"]
         ELSE EmptySlot]
    /\ nextSeq = 0
    /\ vault = [k \in KeyId |-> NoHs]
    /\ cmd = [i \in Io |-> IdleCommand]
    /\ told = {} /\ issued = 0 /\ lost = 0
    /\ opener = [s \in Slot |-> NoIo] /\ rotated = <<>> /\ lives = 0
-----------------------------------------------------------------------------
(* The session table and session_destroy.                                  *)

Established(s) == tbl[s].st \in {"Active", "NeedsRenegotiation"}

\* Mutant: pending_seqs is not stamped.
InstalledUnstamped(hs) == [EmptySlot EXCEPT !.st = "Pending", !.hs = hs]

\* install_pending over an empty (or just deleted) slot.
Installed(hs) == [EmptySlot EXCEPT !.st = "Pending", !.hs = hs,
                    !.seq = nextSeq + 1]

\* create_pending's choice: the first Empty slot of the role's range, else
\* its oldest Pending slot; empty if every slot is established.
Victim(role) ==
    LET range == role_slot_range(role)
        free  == {s \in range : tbl[s].st = "Empty"}
        pend  == {s \in range : tbl[s].st = "Pending"}
    IN IF free # {} THEN {CHOOSE s \in free : \A t \in free : s <= t}
       ELSE {s \in pend : /\ \A t \in pend : tbl[s].seq <= tbl[t].seq
                          /\ \A t \in pend : tbl[t].seq = tbl[s].seq => s <= t}

\* Mutant: the slot is freed without the cascade to its vault key.
DestroyKeepsKey(s) ==
    /\ tbl' = [tbl EXCEPT ![s] = EmptySlot]
    /\ opener' = [opener EXCEPT ![s] = NoIo]
    /\ UNCHANGED <<vault, nextSeq, lives>>

\* session_destroy: an Active slot's SessionEx key goes with it; a Pending
\* or renegotiating slot has none.  On an Empty slot it fails and changes
\* nothing.
Destroy(s) ==
    /\ tbl' = [tbl EXCEPT ![s] = EmptySlot]
    /\ vault' = IF tbl[s].st = "Active"
                THEN [vault EXCEPT ![tbl[s].key] = NoHs] ELSE vault
    /\ opener' = [opener EXCEPT ![s] = NoIo]
    /\ UNCHANGED <<nextSeq, lives>>
-----------------------------------------------------------------------------
(* Arrival.                                                                *)

\* A command reaches handle_io; all but OP_FLUSH start an inbound DMA.
Submit(i, c) ==
    /\ cmd[i].pc = "idle" /\ issued < MaxCommands
    /\ cmd' = [cmd EXCEPT ![i] = c]
    /\ issued' = issued + 1
    /\ UNCHANGED <<table, told, lost, rotated>>

SubmitInit(i, role) ==
    Submit(i, [IdleCommand EXCEPT !.pc = "inbound", !.role = role])

\* A command that names a session the host was given, made with the keys it
\* holds for it, intact or not.
SubmitInSession(i, o, s, hs, good) ==
    Submit(i, [IdleCommand EXCEPT !.op = o, !.slot = s, !.hs = hs,
                 !.good = good,
                 !.pc = IF o = "Flush" THEN "flush" ELSE "inbound"])

\* Inbound DMA or header parse fails: handle_tbor_op returns Err.
InboundFail(i) ==
    /\ cmd[i].pc = "inbound"
    /\ cmd' = [cmd EXCEPT ![i].pc = "complete", ![i].handlerOk = FALSE]
    /\ UNCHANGED <<table, told, issued, lost, rotated>>

\* The handler returns Err(e) and changes nothing: malformed request, failing
\* crypto, allocation.
HandlerError(i) ==
    /\ cmd[i].pc \in {"inbound", "hpke", "mac", "seed", "derive", "open"}
    /\ cmd' = [cmd EXCEPT ![i] = Failed(@)]
    /\ UNCHANGED <<table, told, issued, lost, rotated>>

\* The awaited crypto of `from` succeeds and the handler goes on to `to`.
Advance(i, from, to) ==
    /\ cmd[i].pc = from
    /\ cmd' = [cmd EXCEPT ![i].pc = to]
    /\ UNCHANGED <<table, told, issued, lost, rotated>>
-----------------------------------------------------------------------------
(* SessionOpenInit.                                                        *)

\* Request parsed and PSK loaded; HPKE auth_psk export starts.
InitBegin(i) == cmd[i].op = "OpenInit" /\ Advance(i, "inbound", "hpke")

\* HPKE done: create_pending and push_session_destroy; the MAC starts.
InitReserve(i) ==
    /\ cmd[i].pc = "hpke"
    /\ LET hs == <<nextSeq + 1, cmd[i].role>> IN
       \E s \in Victim(cmd[i].role) :
         /\ tbl' = [tbl EXCEPT ![s] = Installed(hs)]
         /\ nextSeq' = nextSeq + 1
         /\ opener' = [opener EXCEPT ![s] = i]
         /\ cmd' = [cmd EXCEPT ![i].pc = "mac", ![i].slot = s, ![i].hs = hs,
                                ![i].log = {s}]
    /\ UNCHANGED <<vault, lives, told, issued, lost, rotated>>

\* VaultSessionLimitReached: every slot of the range is established.
InitLimit(i) ==
    /\ cmd[i].pc = "hpke" /\ Victim(cmd[i].role) = {}
    /\ cmd' = [cmd EXCEPT ![i] = Failed(@)]
    /\ UNCHANGED <<table, told, issued, lost, rotated>>

\* Confirm MAC computed, response encoded.
InitRespond(i) == Advance(i, "mac", "outbound")
-----------------------------------------------------------------------------
(* SessionOpenFinish.                                                      *)

\* The slot must be Pending; its blob is copied and the teardown recorded
\* before the MAC is verified.  A missing identity key or a wrong MAC length
\* is an error after that.
FinishBegin(i) ==
    /\ cmd[i].pc = "inbound" /\ cmd[i].op = "OpenFinish"
    /\ LET s == cmd[i].slot
           c == [cmd[i] EXCEPT !.pc = "verify", !.loaded = tbl[s].hs, !.log = {s}]
       IN IF tbl[s].st = "Pending"
          THEN \/ cmd' = [cmd EXCEPT ![i] = c]
               \/ cmd' = [cmd EXCEPT ![i] = Failed(c)]
          ELSE cmd' = [cmd EXCEPT ![i] = Failed(@)]
    /\ UNCHANGED <<table, told, issued, lost, rotated>>

\* verify_mac succeeds: the host used the handshake that was loaded.
FinishVerified(i) ==
    /\ cmd[i].good /\ cmd[i].hs = cmd[i].loaded
    /\ Advance(i, "verify", "seed")

\* verify_mac or open_seed_envelope fails: the slot is destroyed at once,
\* whatever it holds by now.
FinishAuthFail(i) ==
    /\ cmd[i].pc \in {"verify", "seed"}
    /\ Destroy(cmd[i].slot)
    /\ cmd' = [cmd EXCEPT ![i] = Failed(@)]
    /\ UNCHANGED <<told, issued, lost, rotated>>

\* Seed envelope opened; the session keys and the recovery blob are derived.
FinishSeeded(i) == Advance(i, "seed", "derive")

\* session_promote: SessionEx key vaulted and the slot bound to it, if the
\* slot is Pending; then the response, whose encoding may fail.
FinishPromote(i) ==
    /\ cmd[i].pc = "derive"
    /\ LET s == cmd[i].slot IN
         IF tbl[s].st = "Pending"
         THEN \E k \in KeyId :
                /\ vault[k] = NoHs
                /\ vault' = [vault EXCEPT ![k] = cmd[i].loaded]
                /\ tbl' = [tbl EXCEPT ![s] = [EmptySlot EXCEPT !.st = "Active",
                             !.key = k, !.life = lives + 1]]
                /\ lives' = lives + 1
                /\ opener' = [opener EXCEPT ![s] = i]
                /\ \/ cmd' = [cmd EXCEPT ![i].pc = "outbound"]
                   \/ cmd' = [cmd EXCEPT ![i] = Failed(@)]
                /\ UNCHANGED nextSeq
         ELSE /\ cmd' = [cmd EXCEPT ![i] = Failed(@)]
              /\ UNCHANGED table
    /\ UNCHANGED <<told, issued, lost, rotated>>
-----------------------------------------------------------------------------
(* SessionClose, OP_FLUSH and PskChange.                                   *)

\* SessionClose: SessionNotFound on a free slot.
CloseSession(i) ==
    /\ cmd[i].pc = "inbound" /\ cmd[i].op = "Close"
    /\ IF tbl[cmd[i].slot].st = "Empty"
       THEN /\ cmd' = [cmd EXCEPT ![i] = Failed(@)]
            /\ UNCHANGED table
       ELSE /\ Destroy(cmd[i].slot)
            /\ \/ cmd' = [cmd EXCEPT ![i].pc = "outbound"]
               \/ cmd' = [cmd EXCEPT ![i] = Failed(@)]
    /\ UNCHANGED <<told, issued, lost, rotated>>

\* handle_flush_op, holding partition_lock: a free slot is fine.
FlushSession(i) ==
    /\ cmd[i].pc = "flush"
    /\ Destroy(cmd[i].slot)
    /\ cmd' = [cmd EXCEPT ![i].pc = "complete", ![i].handlerOk = TRUE]
    /\ UNCHANGED <<told, issued, lost, rotated>>

\* Mutant: the budget is checked, not consumed.
PskConsumeUnspent(i) ==
    /\ cmd[i].pc = "inbound" /\ cmd[i].op = "PskChange"
    /\ LET s == cmd[i].slot IN
         /\ tbl[s].st = "Active" /\ ~tbl[s].used
         /\ cmd' = [cmd EXCEPT ![i].pc = "open", ![i].life = tbl[s].life,
                                ![i].loaded = vault[tbl[s].key]]
    /\ UNCHANGED <<table, told, issued, lost, rotated>>

\* PskChange up to its await: the one-shot budget of an established slot is
\* consumed; a slot without key material then has no param_key.
PskConsume(i) ==
    /\ cmd[i].pc = "inbound" /\ cmd[i].op = "PskChange"
    /\ LET s == cmd[i].slot IN
         IF Established(s) /\ ~tbl[s].used
         THEN /\ tbl' = [tbl EXCEPT ![s].used = TRUE]
              /\ cmd' = IF tbl[s].st = "Active"
                        THEN [cmd EXCEPT ![i].pc = "open",
                                ![i].life = tbl[s].life,
                                ![i].loaded = vault[tbl[s].key]]
                        ELSE [cmd EXCEPT ![i] = Failed(@)]
         ELSE /\ cmd' = [cmd EXCEPT ![i] = Failed(@)]
              /\ UNCHANGED tbl
    /\ UNCHANGED <<nextSeq, vault, opener, lives, told, issued, lost, rotated>>

\* The envelope opens under the session's param_key: the PSK is installed
\* and the response encoded, which may fail.
PskInstall(i) ==
    /\ cmd[i].pc = "open" /\ cmd[i].good /\ cmd[i].hs = cmd[i].loaded
    /\ rotated' = Append(rotated, <<cmd[i].loaded, cmd[i].life>>)
    /\ \/ cmd' = [cmd EXCEPT ![i].pc = "outbound"]
       \/ cmd' = [cmd EXCEPT ![i] = Failed(@)]
    /\ UNCHANGED <<table, told, issued, lost>>
-----------------------------------------------------------------------------
(* The response, the CQE and the walk.                                     *)

\* The outbound DMA ends.  A handler error has become an error response, so
\* it too makes handle_tbor_op return Ok.
OutboundOk(i) ==
    /\ cmd[i].pc = "outbound"
    /\ cmd' = [cmd EXCEPT ![i].pc = "complete", ![i].handlerOk = TRUE]
    /\ UNCHANGED <<table, told, issued, lost, rotated>>

OutboundFail(i) ==
    /\ cmd[i].pc = "outbound" /\ lost < MaxLost
    /\ lost' = lost + 1
    /\ cmd' = [cmd EXCEPT ![i].pc = "complete", ![i].handlerOk = FALSE]
    /\ UNCHANGED <<table, told, issued, rotated>>

\* Mutant: the CQE reports a slot for a failed OpenInit too.
ReportedOnError(c) == IF c.op = "OpenInit" THEN {<<c.slot, c.hs>>} ELSE {}

\* cqe_sess_id: a successful OpenInit tells the host its slot.
Reported(c) == IF c.op = "OpenInit" /\ c.res = "ok"
               THEN {<<c.slot, c.hs>>} ELSE {}

\* Mutant: the walk's direction ignores the CQE post.
CommitsUnposted(i, posted) == cmd[i].handlerOk

\* handle_io: commit iff the handler succeeded and the CQE posted.
Commits(i, posted) == cmd[i].handlerOk /\ posted

\* complete_io, then the walk: a commit leaves the session, an undo destroys
\* the slot the log names.
Complete(i, posted) ==
    /\ cmd[i].pc = "complete"
    /\ ~posted => lost < MaxLost
    /\ lost' = IF posted THEN lost ELSE lost + 1
    /\ IF Commits(i, posted)
       THEN /\ told' = told \cup Reported(cmd[i])
            /\ opener' = [s \in Slot |->
                 IF opener[s] = i /\ posted THEN NoIo ELSE opener[s]]
            /\ UNCHANGED <<tbl, nextSeq, vault, lives>>
       ELSE /\ told' = told
            /\ IF cmd[i].log = {} THEN UNCHANGED table
               ELSE \E s \in cmd[i].log : Destroy(s)
    /\ cmd' = [cmd EXCEPT ![i] = IdleCommand]
    /\ UNCHANGED <<issued, rotated>>
-----------------------------------------------------------------------------
Arrive(i) ==
    \/ \E role \in Roles : SubmitInit(i, role)
    \/ \E o \in Op \ {"OpenInit"}, h \in told, good \in BOOLEAN :
         SubmitInSession(i, o, h[1], h[2], good)

Step(i) ==
    \/ InboundFail(i) \/ HandlerError(i)
    \/ InitBegin(i) \/ InitReserve(i) \/ InitLimit(i) \/ InitRespond(i)
    \/ FinishBegin(i) \/ FinishVerified(i) \/ FinishAuthFail(i)
    \/ FinishSeeded(i) \/ FinishPromote(i)
    \/ CloseSession(i) \/ FlushSession(i) \/ PskConsume(i) \/ PskInstall(i)
    \/ OutboundOk(i) \/ OutboundFail(i)
    \/ \E posted \in BOOLEAN : Complete(i, posted)

Next == \E i \in Io : Arrive(i) \/ Step(i)

Spec == Init /\ [][Next]_vars
-----------------------------------------------------------------------------
(* Properties that hold.                                                   *)

\* The SessionEx keys of the vault and the Active slots correspond one to
\* one: no command's promote, close, flush or undo, in any interleaving,
\* leaves an Active session without its key, two sessions with one key, or a
\* session key no slot leads to.
SessionKeysOwned ==
    /\ \A s \in Slot : tbl[s].st = "Active" =>
         /\ tbl[s].key \in KeyId /\ vault[tbl[s].key] # NoHs
         /\ \A t \in Slot : tbl[t].st = "Active" /\ tbl[t].key = tbl[s].key => t = s
    /\ \A k \in KeyId : vault[k] # NoHs =>
         \E s \in Slot : tbl[s].st = "Active" /\ tbl[s].key = k

\* The role the dispatcher reads off a slot id is the role whose PSK the
\* session's keys were negotiated with, also when a finish promotes a slot
\* that was evicted and reserved again since it loaded its blob.
RoleBySlot ==
    \A s \in Slot : tbl[s].st = "Active" =>
        vault[tbl[s].key][2] = RoleOf(s)

\* A handshake or session whose completion never reached the host does not
\* survive: a slot is occupied only while the command that reserved or
\* promoted it runs, or after that command's completion was posted.
NoUnreportedSession ==
    \A s \in Slot : opener[s] # NoIo => cmd[opener[s]].pc # "idle"

\* Of several PskChange commands racing on one session at most one installs
\* a PSK.
OneRotationPerSession ==
    \A m, n \in 1 .. Len(rotated) : rotated[m][2] = rotated[n][2] => m = n

\* A new handshake takes a slot over only from the oldest pending handshake
\* of its role, only when the role has no empty slot, and never from an
\* established session.
EvictsOldestPending ==
    [][\A s \in Slot : tbl'[s].st = "Pending" /\ tbl'[s] # tbl[s] =>
         \/ tbl[s].st = "Empty"
         \/ /\ tbl[s].st = "Pending"
            /\ \A t \in {t \in Slot : RoleOf(t) = RoleOf(s)} :
                 /\ tbl[t].st # "Empty"
                 /\ tbl[t].st = "Pending" => tbl[s].hs[1] <= tbl[t].hs[1]]_vars
-----------------------------------------------------------------------------
(* Properties that the source states and the code does not have.           *)

\* "A successful return here means no further PskChange can succeed on this
\* session ... replay is already structurally impossible (HPKE-derived
\* per-session param_key)": one handshake's keys authorise one rotation.
OneRotationPerSchedule ==
    \A m, n \in 1 .. Len(rotated) : rotated[m][1] = rotated[n][1] => m = n
=============================================================================
