------------------------- MODULE TborRollbackProofs -------------------------
(***************************************************************************)
(* Why a rollback is exact: as long as no command that had company is      *)
(* rolled back, a published key id names a live key, and rolling back a    *)
(* command that ran alone restores the partition it found.                 *)
(*                                                                         *)
(* The argument.  Outside a walk the partition is in one of three phases   *)
(* (PhaseOK), so the pre-images PartInit and PartFinal record without      *)
(* reading them ("absent", "Enabled", "Initializing") are the ones in      *)
(* force.  A lone command's log rewinds the partition to its snapshot      *)
(* (Rewinds).  Properties are restored without an await, before the first  *)
(* key is deleted, so a command that arrives during the walk finds a       *)
(* partition in a phase again, and what is left of the log (TailOnly)      *)
(* only deletes keys nobody else knows and withdraws an unused SD claim.   *)
(***************************************************************************)
EXTENDS TborCommandsProofs

Undoing(c) == c.pc = "walk" /\ ~c.commit
Staging(c) == c.pc \in {"stage", "commit", "mask"}

\* Log `l` is to delete the key `k` when it is undone.
Creates(l, k) == \E n \in 1 .. Len(l) : l[n] = VaultCreate(k)

CreatesOnce(l) == \A k \in KeyId : \A m, n \in 1 .. Len(l) :
    l[m] = VaultCreate(k) /\ l[n] = VaultCreate(k) => m = n
OwnsOnce(l) == \A k \in KeyId : \A m, n \in 1 .. Len(l) :
    l[m] = VaultDisable(k) /\ l[n] = VaultDisable(k) => m = n

\* What a walk still does once its properties are restored.
TailEntry(e) == e.kind = "VaultCreate" \/ e = PropRestore("SD_INITIALIZED", Absent)
TailOnly(l) == \A n \in 1 .. Len(l) : TailEntry(l[n])

\* Every property but the SD claim is recorded after, so restored before, the
\* keys; a key is soft-deleted after, so re-enabled before, its id is recorded.
KeysBelow(l) == \A n \in 1 .. Len(l) : l[n].kind = "VaultCreate" =>
    \A m \in 1 .. n - 1 : TailEntry(l[m])
IdsBelow(l) == \A n \in 1 .. Len(l) : \A q \in KeyProp : Restores(l[n], q) =>
    \A m \in 1 .. n - 1 : l[m] # VaultDisable(l[n].val)
Layered(l) == KeysBelow(l) /\ IdsBelow(l)

\* The log at each await of the handlers.
LogAt(c) ==
    /\ c.pc \in {"inbound", "validate", "claim"} => c.log = <<>>
    /\ Staging(c) => /\ Len(c.log) = Len(c.staged)
                     /\ \A n \in 1 .. Len(c.staged) : c.log[n] = VaultCreate(c.staged[n])
    /\ c.pc = "open" => Has(c.log, PskPropOf(c.sess))
    /\ c.pc = "vaultSd" => c.log = <<PropRestore("SD_INITIALIZED", Absent)>>
    /\ Layered(c.log)
LogsOK == \A i \in Io : LogAt(cmd[i])

\* A command with a snapshot is the only one in flight.
AloneOK ==
    /\ DOMAIN snap = Io
    /\ \A i \in Io : snap[i] # Absent => \A j \in Io : j # i <=> cmd[j].pc = "idle"

PropTable == prop = [q \in PropId |-> prop[q]]
-----------------------------------------------------------------------------
\* The phases of a partition, in which every published key is a key of its own.
PhaseOK(p) ==
    /\ \/ /\ p["STATE"] = "Enabled" /\ p["POLICY_HASH"] = Absent
          /\ \A q \in PartKeyProp : p[q] = Absent
       \/ /\ p["STATE"] = "Initializing" /\ p["POLICY_HASH"] = Present
          /\ p["PTA_KEY_ID"] # Absent /\ p["UPS_KEY_ID"] # Absent
          /\ p["LOCAL_MK_KEY_ID"] = Absent /\ p["EPHEMERAL_MK_KEY_ID"] = Absent
       \/ /\ p["STATE"] = "Initialized" /\ p["POLICY_HASH"] = Present
          /\ \A q \in PartKeyProp : p[q] # Absent
    /\ p["SD_INITIALIZED"] = Absent => p["SD_MK_KEY_ID"] = Absent
    /\ \A q, r \in KeyProp : p[q] # Absent /\ p[q] = p[r] => q = r

Publishes(p, k) == \E q \in KeyProp : p[q] = k
KeysLive(p, v) == \A q \in KeyProp : p[q] # Absent => v[p[q]] = "live"

\* Only a lone walk that has the executor leaves the phases.
Rewinding(i) == turn = i /\ Undoing(cmd[i]) /\ snap[i] # Absent
PhaseInv == PhaseOK(prop) \/ \E i \in Io : Rewinding(i)

\* PartFinal's root key is the published one until PartFinal commits.
FinalOn(c, p) == c.op = "PartFinal" /\ c.pc \in {"stage", "commit"} =>
    /\ p["STATE"] # "Enabled"
    /\ p["STATE"] = "Initializing" => p["UPS_KEY_ID"] = c.ums
FinalOK == \A i \in Io : FinalOn(cmd[i], prop)

\* The keys only one task knows: staged, or left for its walk to delete.
Holder(c, s) == Staging(c) \/ (Undoing(c) /\ s = Absent)
Private(c, s, k) == Holder(c, s) /\ Creates(c.log, k)
OwnOK ==
    /\ \A i \in Io : \A k \in KeyId : Private(cmd[i], snap[i], k) =>
          vault[k] = "live" /\ ~Publishes(prop, k)
    /\ \A i, j \in Io : \A k \in KeyId :
          Private(cmd[i], snap[i], k) /\ Private(cmd[j], snap[j], k) => i = j
    /\ \A i \in Io : Holder(cmd[i], snap[i]) => CreatesOnce(cmd[i].log)

\* A soft-deleted key is in one entry of one log.
DisabledOK ==
    /\ \A i \in Io : \A k \in KeyId : Owns(cmd[i].log, k) => vault[k] = "disabled"
    /\ \A i, j \in Io : \A k \in KeyId :
          Owns(cmd[i].log, k) /\ Owns(cmd[j].log, k) => i = j
    /\ \A i \in Io : OwnsOnce(cmd[i].log)

\* Undoing the log l takes the partition <<p, v>> back to s = <<sp, sv>>.
RewindsProps(l, p, sp) == \A q \in PropId :
    /\ \A n \in 1 .. Len(l) : Restores(l[n], q) => l[n].val = sp[q]
    /\ ~Has(l, q) => p[q] = sp[q]
RewindsVault(l, v, sv) == \A k \in KeyId :
    /\ Creates(l, k) => sv[k] = "free" /\ v[k] = "live"
    /\ Owns(l, k) => sv[k] = "live"
    /\ ~Creates(l, k) /\ ~Owns(l, k) => v[k] = sv[k]
Snapshot(s, sp, sv) ==
    /\ s = <<sp, sv>>
    /\ sp = [q \in PropId |-> sp[q]] /\ sv = [k \in KeyId |-> sv[k]]
    /\ PhaseOK(sp) /\ KeysLive(sp, sv)
Rewinds(l, p, v, s) ==
    /\ CreatesOnce(l)
    /\ \E sp, sv :
          Snapshot(s, sp, sv) /\ RewindsProps(l, p, sp) /\ RewindsVault(l, v, sv)
RewindOK == \A i \in Io : snap[i] # Absent /\ ~Committing(cmd[i]) =>
    Rewinds(cmd[i].log, prop, vault, snap[i])

\* What is left of a walk when another task may run.
TailOn(c, s, p, t) == Undoing(c) =>
    /\ s = Absent \/ t = NoIo => TailOnly(c.log)
    /\ s = Absent /\ Has(c.log, "SD_INITIALIZED") => p["SD_MK_KEY_ID"] = Absent
TailOK == \A i \in Io : TailOn(cmd[i], snap[i], prop, turn)

NoPoison == \A i \in Io : ~cmd[i].poisoned

PartitionOK == /\ NoPoison /\ Serving /\ PhaseInv /\ KeysLive(prop, vault) /\ FinalOK
               /\ OwnOK /\ DisabledOK /\ RewindOK /\ TailOK

RollbackInv == /\ ClaimsInductive /\ LogsOK /\ AloneOK /\ PropTable
               /\ ~tainted => PartitionOK

-----------------------------------------------------------------------------
(* Logs: what a concatenation, an empty log and a shorter log hold.         *)

\* What a concatenation records is what its parts record.
LEMMA ConcatHolds ==
    ASSUME NEW s \in Seq(Entry), NEW t \in Seq(Entry)
    PROVE  /\ \A q : Has(s \o t, q) <=> Has(s, q) \/ Has(t, q)
           /\ \A k : Creates(s \o t, k) <=> Creates(s, k) \/ Creates(t, k)
           /\ \A k : Owns(s \o t, k) <=> Owns(s, k) \/ Owns(t, k)
<1> DEFINE l == s \o t
<1>1. /\ Len(l) = Len(s) + Len(t) /\ Len(s) \in Nat /\ Len(t) \in Nat
      /\ \A n \in 1 .. Len(l) : l[n] = IF n <= Len(s) THEN s[n] ELSE t[n - Len(s)]
  BY Concat, Zenon
<1> HIDE DEF l
<1>2. \A n \in 1 .. Len(s) : n \in 1 .. Len(l) /\ l[n] = s[n]
  BY <1>1
<1>3. \A n \in 1 .. Len(t) : n + Len(s) \in 1 .. Len(l) /\ l[n + Len(s)] = t[n]
  BY <1>1
<1>4. \A n \in 1 .. Len(l) :
          \/ n \in 1 .. Len(s) /\ l[n] = s[n]
          \/ n - Len(s) \in 1 .. Len(t) /\ l[n] = t[n - Len(s)]
  BY <1>1
<1>5. \A q : Has(l, q) <=> Has(s, q) \/ Has(t, q)
  BY <1>2, <1>3, <1>4, Zenon DEF Has
<1>6. \A k : Creates(l, k) <=> Creates(s, k) \/ Creates(t, k)
  BY <1>2, <1>3, <1>4, Zenon DEF Creates
<1>7. \A k : Owns(l, k) <=> Owns(s, k) \/ Owns(t, k)
  BY <1>2, <1>3, <1>4, Zenon DEF Owns
<1> QED BY <1>5, <1>6, <1>7 DEF l

\* An empty log records nothing.
LEMMA EmptyHolds ==
    ASSUME NEW l, l = <<>>
    PROVE  /\ \A q : ~Has(l, q)
           /\ \A k : ~Creates(l, k) /\ ~Owns(l, k)
           /\ CreatesOnce(l) /\ OwnsOnce(l) /\ Layered(l) /\ TailOnly(l)
<1>1. 1 .. Len(l) = {}
  BY EmptyLog
<1> QED BY <1>1 DEF Has, Creates, Owns, CreatesOnce, OwnsOnce, Layered, KeysBelow,
                    IdsBelow, TailOnly

\* A log of nothing but key creations.
KeysOnly(l) == \A n \in 1 .. Len(l) : l[n].kind = "VaultCreate"

\* A log of created keys restores no property and owns no soft-deleted key.
LEMMA KeysOnlyHolds ==
    ASSUME NEW l, KeysOnly(l)
    PROVE  /\ \A q : ~Has(l, q)
           /\ \A k : ~Owns(l, k)
           /\ OwnsOnce(l) /\ Layered(l) /\ TailOnly(l)
BY DEF KeysOnly, Has, Owns, OwnsOnce, Layered, KeysBelow, IdsBelow, TailOnly,
       TailEntry, Restores, VaultDisable

\* The tail of a walk restores no property but the SD claim.
LEMMA TailOnlyHolds ==
    ASSUME NEW l, TailOnly(l)
    PROVE  /\ \A q : q # "SD_INITIALIZED" => ~Has(l, q)
           /\ \A k : ~Owns(l, k)
BY DEF TailOnly, TailEntry, Has, Owns, Restores, PropRestore, VaultDisable

\* A log that ends in a key creation restores no property but the SD claim.
LEMMA TopKey ==
    ASSUME NEW l \in Seq(Entry), l # <<>>, Layered(l), l[Len(l)].kind = "VaultCreate"
    PROVE  TailOnly(l)
<1>1. Len(l) \in Nat /\ Len(l) \in 1 .. Len(l)
  BY PopLog
<1>2. \A m \in 1 .. Len(l) - 1 : TailEntry(l[m])
  BY <1>1 DEF Layered, KeysBelow
<1>3. \A m \in 1 .. Len(l) : m \in 1 .. Len(l) - 1 \/ m = Len(l)
  BY <1>1
<1> QED BY <1>2, <1>3 DEF TailOnly, TailEntry

\* Walking one entry, from the top (undo) or from the bottom (commit).
LEMMA LayeredPop ==
    ASSUME NEW l \in Seq(Entry), l # <<>>, Layered(l)
    PROVE  Layered(SubSeq(l, 1, Len(l) - 1)) /\ Layered(Tail(l))
<1> DEFINE r == SubSeq(l, 1, Len(l) - 1)
           t == Tail(l)
<1>1. Len(l) \in Nat /\ Len(r) = Len(l) - 1 /\ \A m \in 1 .. Len(r) : r[m] = l[m]
  BY PopLog, Zenon
<1>2. Len(t) = Len(l) - 1 /\ \A m \in 1 .. Len(t) : t[m] = l[m + 1]
  BY TailLog, Zenon
<1> HIDE DEF r, t
<1>3. \A n \in 1 .. Len(r) : n \in 1 .. Len(l) /\ r[n] = l[n]
          /\ \A m \in 1 .. n - 1 : r[m] = l[m]
  BY <1>1
<1>4. \A n \in 1 .. Len(t) : n + 1 \in 1 .. Len(l) /\ t[n] = l[n + 1]
          /\ \A m \in 1 .. n - 1 : m + 1 \in 1 .. (n + 1) - 1 /\ t[m] = l[m + 1]
  BY <1>1, <1>2
<1>5. Layered(r)
  BY <1>3, Zenon DEF Layered, KeysBelow, IdsBelow
<1>6. Layered(t)
  BY <1>4, Zenon DEF Layered, KeysBelow, IdsBelow
<1> QED BY <1>5, <1>6 DEF r, t

-----------------------------------------------------------------------------
(* How a log rewinds the partition. *)

\* A command that starts alone.
LEMMA RewindStart ==
    ASSUME NEW p, NEW v, p = [q \in PropId |-> p[q]], v = [k \in KeyId |-> v[k]],
           PhaseOK(p), KeysLive(p, v)
    PROVE  Rewinds(<<>>, p, v, <<p, v>>)
<1>1. /\ \A q : ~Has(<<>>, q)
      /\ \A k : ~Creates(<<>>, k) /\ ~Owns(<<>>, k)
      /\ CreatesOnce(<<>>) /\ 1 .. Len(<<>>) = {}
  BY EmptyHolds, EmptyLog
<1>2. Snapshot(<<p, v>>, p, v)
  BY DEF Snapshot
<1>3. RewindsProps(<<>>, p, p) /\ RewindsVault(<<>>, v, v)
  BY <1>1 DEF RewindsProps, RewindsVault
<1> QED BY <1>1, <1>2, <1>3, Zenon DEF Rewinds

\* The block `t` of inverses records what is in force, and the partition
\* <<p2, v2>> differs from <<p, v>> only where t says so.
PropsBlock(l, t, p, p2) ==
    /\ \A n \in 1 .. Len(t) : \A q \in PropId : Restores(t[n], q) =>
          ~Has(l, q) /\ t[n].val = p[q]
    /\ \A q \in PropId : ~Has(t, q) => p2[q] = p[q]
VaultBlock(l, t, v, v2) == \A k \in KeyId :
    /\ Creates(t, k) => /\ v[k] = "free" /\ v2[k] = "live"
                        /\ ~Creates(l, k) /\ ~Owns(l, k)
    /\ Owns(t, k) => v[k] = "live" /\ ~Creates(l, k) /\ ~Owns(l, k)
    /\ ~Creates(t, k) /\ ~Owns(t, k) => v2[k] = v[k]

\* Writes recorded by a block of inverses keep the log a way back to the snapshot.
LEMMA RewindBlock ==
    ASSUME NEW l \in Seq(Entry), NEW t \in Seq(Entry), NEW p, NEW p2, NEW v, NEW v2,
           NEW s, Rewinds(l, p, v, s), CreatesOnce(t),
           PropsBlock(l, t, p, p2), VaultBlock(l, t, v, v2),
           \A k \in KeyId : ~(Creates(t, k) /\ Owns(t, k))
    PROVE  Rewinds(l \o t, p2, v2, s)
<1> DEFINE m == l \o t
<1>1. /\ Len(m) = Len(l) + Len(t) /\ Len(l) \in Nat /\ Len(t) \in Nat
      /\ \A n \in 1 .. Len(m) : m[n] = IF n <= Len(l) THEN l[n] ELSE t[n - Len(l)]
  BY Concat, Zenon
<1>2. /\ \A q : Has(m, q) <=> Has(l, q) \/ Has(t, q)
      /\ \A k : Creates(m, k) <=> Creates(l, k) \/ Creates(t, k)
      /\ \A k : Owns(m, k) <=> Owns(l, k) \/ Owns(t, k)
  BY ConcatHolds, Zenon
<1> HIDE DEF m
<1>3. \A n \in 1 .. Len(m) :
          \/ n \in 1 .. Len(l) /\ m[n] = l[n]
          \/ n - Len(l) \in 1 .. Len(t) /\ m[n] = t[n - Len(l)]
  BY <1>1
<1>4. CreatesOnce(l)
  BY DEF Rewinds
<1>5. PICK sp, sv : Snapshot(s, sp, sv) /\ RewindsProps(l, p, sp) /\ RewindsVault(l, v, sv)
  BY DEF Rewinds
<1>6. CreatesOnce(m)
  <2> SUFFICES ASSUME NEW k \in KeyId, NEW x \in 1 .. Len(m), NEW y \in 1 .. Len(m),
                      m[x] = VaultCreate(k), m[y] = VaultCreate(k)
               PROVE  x = y
    BY DEF CreatesOnce
  <2>1. x \in 1 .. Len(l) /\ y \in 1 .. Len(l) => x = y
    BY <1>1, <1>4 DEF CreatesOnce
  <2>2. x - Len(l) \in 1 .. Len(t) /\ y - Len(l) \in 1 .. Len(t) => x = y
    <3> SUFFICES ASSUME x - Len(l) \in 1 .. Len(t), y - Len(l) \in 1 .. Len(t)
                 PROVE  x = y
      OBVIOUS
    <3>1. t[x - Len(l)] = VaultCreate(k) /\ t[y - Len(l)] = VaultCreate(k)
      BY <1>1
    <3>2. x - Len(l) = y - Len(l)
      BY <3>1, Zenon DEF CreatesOnce
    <3> QED BY <3>2, <1>1
  <2>3. ~(Creates(l, k) /\ Creates(t, k))
    BY DEF VaultBlock
  <2>4. \A z \in 1 .. Len(m) : m[z] = VaultCreate(k) =>
          \/ z \in 1 .. Len(l) /\ Creates(l, k)
          \/ z - Len(l) \in 1 .. Len(t) /\ Creates(t, k)
    BY <1>3, Zenon DEF Creates
  <2> QED BY <2>1, <2>2, <2>3, <2>4
<1>7. RewindsProps(m, p2, sp)
  <2> SUFFICES ASSUME NEW q \in PropId
               PROVE  /\ \A n \in 1 .. Len(m) : Restores(m[n], q) => m[n].val = sp[q]
                      /\ ~Has(m, q) => p2[q] = sp[q]
    BY DEF RewindsProps
  <2>1. /\ \A n \in 1 .. Len(l) : Restores(l[n], q) => l[n].val = sp[q]
        /\ ~Has(l, q) => p[q] = sp[q]
    BY <1>5 DEF RewindsProps
  <2>2. \A n \in 1 .. Len(t) : Restores(t[n], q) => t[n].val = sp[q]
    BY <2>1 DEF PropsBlock
  <2>3. ASSUME NEW n \in 1 .. Len(m), Restores(m[n], q) PROVE m[n].val = sp[q]
    <3>1. CASE n \in 1 .. Len(l) /\ m[n] = l[n]
      BY <3>1, <2>1, <2>3
    <3>2. CASE n - Len(l) \in 1 .. Len(t) /\ m[n] = t[n - Len(l)]
      BY <3>2, <2>2, <2>3
    <3> QED BY <1>3, <3>1, <3>2
  <2>4. ~Has(m, q) => p2[q] = sp[q]
    BY <1>2, <2>1 DEF PropsBlock
  <2> QED BY <2>3, <2>4
<1>8. RewindsVault(m, v2, sv)
  <2> SUFFICES ASSUME NEW k \in KeyId
               PROVE  /\ Creates(m, k) => sv[k] = "free" /\ v2[k] = "live"
                      /\ Owns(m, k) => sv[k] = "live"
                      /\ ~Creates(m, k) /\ ~Owns(m, k) => v2[k] = sv[k]
    BY DEF RewindsVault
  <2>1. /\ Creates(l, k) => sv[k] = "free" /\ v[k] = "live"
        /\ Owns(l, k) => sv[k] = "live"
        /\ ~Creates(l, k) /\ ~Owns(l, k) => v[k] = sv[k]
    BY <1>5 DEF RewindsVault
  <2> QED BY <2>1, <1>2 DEF VaultBlock
<1> QED BY <1>5, <1>6, <1>7, <1>8, Zenon DEF Rewinds, m

\* A property that the log already restores may be written.
LEMMA RewindWrite ==
    ASSUME NEW l, NEW p, NEW p2, NEW v, NEW s, NEW x, Rewinds(l, p, v, s), Has(l, x),
           \A q \in PropId : q # x => p2[q] = p[q]
    PROVE  Rewinds(l, p2, v, s)
<1>1. PICK sp, sv : Snapshot(s, sp, sv) /\ RewindsProps(l, p, sp) /\ RewindsVault(l, v, sv)
  BY DEF Rewinds
<1>2. RewindsProps(l, p2, sp)
  BY <1>1 DEF RewindsProps
<1> QED BY <1>1, <1>2 DEF Rewinds

\* A lone task's only key is deleted and its log discarded.
LEMMA RewindDiscard ==
    ASSUME NEW l, NEW p, NEW v, NEW v2, NEW s, NEW k \in KeyId,
           Rewinds(l, p, v, s), KeysOnly(l), Creates(l, k),
           \A x \in KeyId : Creates(l, x) => x = k,
           v2[k] = "free", \A x \in KeyId : x # k => v2[x] = v[x]
    PROVE  Rewinds(<<>>, p, v2, s)
<1>1. PICK sp, sv : Snapshot(s, sp, sv) /\ RewindsProps(l, p, sp) /\ RewindsVault(l, v, sv)
  BY DEF Rewinds
<1>2. /\ \A q : ~Has(<<>>, q)
      /\ \A x : ~Creates(<<>>, x) /\ ~Owns(<<>>, x)
      /\ CreatesOnce(<<>>) /\ 1 .. Len(<<>>) = {}
  BY EmptyHolds, EmptyLog
<1>3. (\A q : ~Has(l, q)) /\ (\A x : ~Owns(l, x))
  BY KeysOnlyHolds
<1>4. RewindsProps(<<>>, p, sp)
  BY <1>1, <1>2, <1>3 DEF RewindsProps
<1>5. RewindsVault(<<>>, v2, sv)
  BY <1>1, <1>2, <1>3 DEF RewindsVault
<1> QED BY <1>1, <1>2, <1>4, <1>5 DEF Rewinds

-----------------------------------------------------------------------------
(* The blocks of inverses the handlers record. *)

\* A layered block on top of created keys is layered.
LEMMA LayeredConcat ==
    ASSUME NEW l \in Seq(Entry), NEW t \in Seq(Entry), TailOnly(l), Layered(t)
    PROVE  Layered(l \o t)
<1> DEFINE m == l \o t
<1>1. /\ Len(m) = Len(l) + Len(t) /\ Len(l) \in Nat /\ Len(t) \in Nat
      /\ \A n \in 1 .. Len(m) : m[n] = IF n <= Len(l) THEN l[n] ELSE t[n - Len(l)]
  BY Concat, Zenon
<1> HIDE DEF m
<1>2. \A n \in 1 .. Len(l) : TailEntry(m[n])
  BY <1>1 DEF TailOnly
<1>3. ASSUME NEW n \in 1 .. Len(m), NEW x \in 1 .. n - 1
      PROVE  \/ TailEntry(m[x])
             \/ /\ n - Len(l) \in 1 .. Len(t) /\ x - Len(l) \in 1 .. (n - Len(l)) - 1
                /\ m[n] = t[n - Len(l)] /\ m[x] = t[x - Len(l)]
  BY <1>1, <1>2
<1>4. KeysBelow(m)
  BY <1>3 DEF Layered, KeysBelow
<1>5. \A e : TailEntry(e) => \A k : e # VaultDisable(k)
  BY DEF TailEntry, VaultDisable, PropRestore
<1>6. IdsBelow(m)
  BY <1>3, <1>5 DEF Layered, IdsBelow
<1> QED BY <1>4, <1>6 DEF Layered, m

\* The log entry of one created key.
LEMMA OneKey ==
    ASSUME NEW k \in KeyId
    PROVE  LET t == <<VaultCreate(k)>> IN
           /\ t \in Seq(Entry) /\ Layered(t) /\ CreatesOnce(t) /\ OwnsOnce(t)
           /\ \A n \in 1 .. Len(t) : \A q : ~Restores(t[n], q)
           /\ \A q : ~Has(t, q)
           /\ \A x : Creates(t, x) <=> x = k
           /\ \A x : ~Owns(t, x)
<1> DEFINE t == <<VaultCreate(k)>>
<1>1. t \in Seq(Entry) /\ 1 .. Len(t) = {1} /\ t[1] = VaultCreate(k)
  BY EntryTypes
<1> HIDE DEF t
<1>2. \A x : /\ VaultCreate(k) # VaultDisable(x)
             /\ VaultCreate(k) = VaultCreate(x) <=> x = k
             /\ ~Restores(VaultCreate(k), x)
  BY DEF VaultCreate, VaultDisable, Restores
<1>3. Layered(t) /\ CreatesOnce(t) /\ OwnsOnce(t)
  BY <1>1, <1>2 DEF Layered, KeysBelow, IdsBelow, CreatesOnce, OwnsOnce
<1> QED BY <1>1, <1>2, <1>3 DEF Has, Creates, Owns, t

\* The log entry of one recorded property.
LEMMA OneRestore ==
    ASSUME NEW x \in PropId, NEW w \in PropValue(x)
    PROVE  LET t == <<PropRestore(x, w)>> IN
           /\ t \in Seq(Entry) /\ Layered(t) /\ CreatesOnce(t) /\ OwnsOnce(t)
           /\ \A n \in 1 .. Len(t) : \A q : Restores(t[n], q) <=> q = x
           /\ \A n \in 1 .. Len(t) : t[n].val = w
           /\ \A q : Has(t, q) <=> q = x
           /\ \A k : ~Creates(t, k) /\ ~Owns(t, k)
<1> DEFINE t == <<PropRestore(x, w)>>
<1>1. t \in Seq(Entry) /\ 1 .. Len(t) = {1} /\ t[1] = PropRestore(x, w)
  BY EntryTypes
<1> HIDE DEF t
<1>2. /\ \A k : PropRestore(x, w) # VaultDisable(k) /\ PropRestore(x, w) # VaultCreate(k)
      /\ \A q : Restores(PropRestore(x, w), q) <=> q = x
      /\ PropRestore(x, w).val = w
  BY DEF VaultCreate, VaultDisable, PropRestore, Restores
<1>3. PropRestore(x, w).kind # "VaultCreate"
  BY DEF PropRestore
<1>4. Layered(t) /\ CreatesOnce(t) /\ OwnsOnce(t)
  BY <1>1, <1>2, <1>3 DEF Layered, KeysBelow, IdsBelow, CreatesOnce, OwnsOnce
<1> QED BY <1>1, <1>2, <1>4 DEF Has, Creates, Owns, t

InitProps == {"PTA_KEY_ID", "UPS_KEY_ID", "POLICY_HASH", "STATE"}

\* The inverses of PartInit's commit.
LEMMA InitBlock ==
    LET t == InitInverses IN
    /\ t \in Seq(Entry) /\ Layered(t) /\ CreatesOnce(t) /\ OwnsOnce(t)
    /\ \A n \in 1 .. Len(t) : \A q : Restores(t[n], q) =>
          q \in InitProps /\ t[n].val = IF q = "STATE" THEN "Enabled" ELSE Absent
    /\ \A q : Has(t, q) <=> q \in InitProps
    /\ \A k : ~Creates(t, k) /\ ~Owns(t, k)
<1> DEFINE t == InitInverses
<1>1. /\ t \in Seq(Entry) /\ 1 .. Len(t) = {1, 2, 3, 4}
      /\ t[1] = PropRestore("PTA_KEY_ID", Absent) /\ t[2] = PropRestore("UPS_KEY_ID", Absent)
      /\ t[3] = PropRestore("POLICY_HASH", Absent) /\ t[4] = PropRestore("STATE", "Enabled")
  <2>1. Len(t) = 4
    BY DEF InitInverses
  <2> QED BY <2>1, InverseTypes DEF InitInverses
<1> HIDE DEF t
<1>2. \A n \in 1 .. Len(t) : t[n].kind = "PropRestore"
  BY <1>1 DEF PropRestore
<1>3. \A n \in 1 .. Len(t) : \A k : t[n] # VaultCreate(k) /\ t[n] # VaultDisable(k)
  BY <1>2 DEF VaultCreate, VaultDisable
<1>4. Layered(t) /\ CreatesOnce(t) /\ OwnsOnce(t)
  BY <1>2, <1>3, <1>1 DEF Layered, KeysBelow, IdsBelow, CreatesOnce, OwnsOnce
<1>5. \A n \in 1 .. Len(t) : \A q : Restores(t[n], q) =>
          q \in InitProps /\ t[n].val = IF q = "STATE" THEN "Enabled" ELSE Absent
  BY <1>1 DEF Restores, PropRestore, InitProps
<1>6. \A q \in InitProps : Has(t, q)
  BY <1>1 DEF Has, Restores, PropRestore, InitProps
<1> QED BY <1>1, <1>3, <1>4, <1>5, <1>6 DEF Has, Creates, Owns, t

FinalProps == {"LOCAL_MK_KEY_ID", "EPHEMERAL_MK_KEY_ID", "UPS_KEY_ID", "STATE"}

\* The inverses of PartFinal's commit.
LEMMA FinalBlock ==
    ASSUME NEW u \in KeyId
    PROVE  LET t == FinalInverses(u) IN
           /\ t \in Seq(Entry) /\ Layered(t) /\ CreatesOnce(t) /\ OwnsOnce(t)
           /\ \A n \in 1 .. Len(t) : \A q : Restores(t[n], q) =>
                /\ q \in FinalProps
                /\ t[n].val = IF q = "STATE" THEN "Initializing"
                              ELSE IF q = "UPS_KEY_ID" THEN u ELSE Absent
           /\ \A q : Has(t, q) <=> q \in FinalProps
           /\ \A k : ~Creates(t, k)
           /\ \A k : Owns(t, k) <=> k = u
<1> DEFINE t == FinalInverses(u)
<1>1. /\ t \in Seq(Entry) /\ 1 .. Len(t) = {1, 2, 3, 4, 5}
      /\ t[1] = PropRestore("LOCAL_MK_KEY_ID", Absent)
      /\ t[2] = PropRestore("EPHEMERAL_MK_KEY_ID", Absent)
      /\ t[3] = PropRestore("UPS_KEY_ID", u) /\ t[4] = VaultDisable(u)
      /\ t[5] = PropRestore("STATE", "Initializing")
  <2>1. Len(t) = 5
    BY DEF FinalInverses
  <2> QED BY <2>1, InverseTypes DEF FinalInverses
<1> HIDE DEF t
<1>2. \A n \in 1 .. Len(t) : t[n].kind # "VaultCreate"
  BY <1>1 DEF PropRestore, VaultDisable
<1>3. \A n \in 1 .. Len(t) : \A k : t[n] # VaultCreate(k)
  BY <1>2 DEF VaultCreate
<1>4. \A n \in 1 .. Len(t) : \A k : t[n] = VaultDisable(k) <=> n = 4 /\ k = u
  BY <1>1 DEF PropRestore, VaultDisable
<1>5. \A n \in 1 .. Len(t) : \A q : Restores(t[n], q) =>
          /\ q \in FinalProps
          /\ t[n].val = IF q = "STATE" THEN "Initializing"
                        ELSE IF q = "UPS_KEY_ID" THEN u ELSE Absent
  BY <1>1 DEF Restores, PropRestore, VaultDisable, FinalProps
<1>6. \A q \in FinalProps : Has(t, q)
  BY <1>1 DEF Has, Restores, PropRestore, FinalProps
<1>7. CreatesOnce(t) /\ OwnsOnce(t) /\ KeysBelow(t)
  BY <1>2, <1>3, <1>4 DEF KeysBelow, CreatesOnce, OwnsOnce
<1>8. IdsBelow(t)
  <2> SUFFICES ASSUME NEW n \in 1 .. Len(t), NEW q \in KeyProp, Restores(t[n], q),
                      NEW m \in 1 .. n - 1, t[m] = VaultDisable(t[n].val)
               PROVE  FALSE
    BY DEF IdsBelow
  <2>1. m \in 1 .. Len(t) /\ n \in {1, 2, 3, 4, 5}
    BY <1>1
  <2>2. m = 4 /\ n = 5
    BY <2>1, <1>4
  <2>3. q = "STATE"
    BY <2>2, <1>1 DEF Restores, PropRestore
  <2> QED BY <2>3 DEF KeyProp
<1> QED BY <1>1, <1>3, <1>4, <1>5, <1>6, <1>7, <1>8 DEF Has, Creates, Owns, Layered, t

\* The inverses of an SD command's vault step.
LEMMA SdBlock ==
    ASSUME NEW k \in KeyId
    PROVE  LET t == SdInverses(k) IN
           /\ t \in Seq(Entry) /\ Layered(t) /\ CreatesOnce(t) /\ OwnsOnce(t)
           /\ \A n \in 1 .. Len(t) : \A q : Restores(t[n], q) =>
                q = "SD_MK_KEY_ID" /\ t[n].val = Absent
           /\ \A q : Has(t, q) <=> q = "SD_MK_KEY_ID"
           /\ \A x : Creates(t, x) <=> x = k
           /\ \A x : ~Owns(t, x)
<1> DEFINE t == SdInverses(k)
<1>1. /\ t \in Seq(Entry) /\ 1 .. Len(t) = {1, 2}
      /\ t[1] = VaultCreate(k) /\ t[2] = PropRestore("SD_MK_KEY_ID", Absent)
  <2>1. Len(t) = 2
    BY DEF SdInverses
  <2> QED BY <2>1, InverseTypes DEF SdInverses
<1> HIDE DEF t
<1>2. \A n \in 1 .. Len(t) : \A x :
          t[n] # VaultDisable(x) /\ (t[n] = VaultCreate(x) <=> n = 1 /\ x = k)
  BY <1>1 DEF VaultCreate, VaultDisable, PropRestore
<1>3. \A n \in 1 .. Len(t) : \A q : Restores(t[n], q) =>
          q = "SD_MK_KEY_ID" /\ t[n].val = Absent
  BY <1>1 DEF Restores, PropRestore, VaultCreate
<1>4. Has(t, "SD_MK_KEY_ID")
  BY <1>1 DEF Has, Restores, PropRestore
<1>5. KeysBelow(t)
  <2>1. t[2].kind # "VaultCreate"
    BY <1>1 DEF PropRestore
  <2> QED BY <2>1, <1>1 DEF KeysBelow
<1>6. CreatesOnce(t) /\ OwnsOnce(t)
  BY <1>2 DEF CreatesOnce, OwnsOnce
<1>7. IdsBelow(t)
  BY <1>1, <1>2 DEF IdsBelow
<1>8. \A x : (Creates(t, x) <=> x = k) /\ ~Owns(t, x)
  BY <1>1, <1>2 DEF Creates, Owns
<1>9. \A q : Has(t, q) <=> q = "SD_MK_KEY_ID"
  BY <1>3, <1>4 DEF Has
<1> QED BY <1>1, <1>3, <1>5, <1>6, <1>7, <1>8, <1>9 DEF Layered, t

-----------------------------------------------------------------------------
(* A step of task `i`, which leaves the task with the record `d`: what it   *)
(* must leave to the other tasks, to itself and to the partition.           *)

OthersSafe(i) == \A j \in Io \ {i} :
    /\ FinalOn(cmd[j], prop') /\ TailOn(cmd[j], snap[j], prop', turn')
    /\ \A k \in KeyId :
         /\ Private(cmd[j], snap[j], k) => vault'[k] = "live" /\ ~Publishes(prop', k)
         /\ Owns(cmd[j].log, k) => vault'[k] = "disabled"

\* Each key that the log of `d` holds is the task's alone.
KeysSafe(i, d) == \A k \in KeyId :
    /\ Private(d, snap'[i], k) =>
          /\ vault'[k] = "live" /\ ~Publishes(prop', k)
          /\ \A j \in Io \ {i} : ~Private(cmd[j], snap[j], k)
    /\ Owns(d.log, k) =>
          /\ vault'[k] = "disabled"
          /\ \A j \in Io \ {i} : ~Owns(cmd[j].log, k)

TaskSafe(i, d) ==
    /\ ~d.poisoned /\ FinalOn(d, prop') /\ TailOn(d, snap'[i], prop', turn')
    /\ Holder(d, snap'[i]) => CreatesOnce(d.log)
    /\ OwnsOnce(d.log) /\ KeysSafe(i, d)
    /\ snap'[i] # Absent /\ ~Committing(d) => Rewinds(d.log, prop', vault', snap'[i])

PartSafe == Serving' /\ PhaseInv' /\ KeysLive(prop', vault')

\* A step of one task keeps the partition right if it is safe for the task, for
\* the others and for the tables.
LEMMA TaskMove ==
    ASSUME TypeInv, AloneOK, PartitionOK, NEW i \in Io, cmd[i].pc # "idle", NEW d,
           cmd' = [cmd EXCEPT ![i] = d], \A j \in Io \ {i} : snap'[j] = snap[j],
           OthersSafe(i), TaskSafe(i, d), PartSafe
    PROVE  PartitionOK'
<1>1. cmd \in [Io -> Command]
  BY TypeParts
<1>2. cmd'[i] = d /\ \A j \in Io \ {i} : cmd'[j] = cmd[j] /\ snap'[j] = snap[j]
  BY <1>1
<1>3. NoPoison'
  <2>1. NoPoison /\ ~d.poisoned
    BY DEF PartitionOK, TaskSafe
  <2> QED BY <1>2, <2>1 DEF NoPoison
<1>4. FinalOK'
  <2>1. \A j \in Io : FinalOn(cmd'[j], prop')
    BY <1>2 DEF OthersSafe, TaskSafe
  <2> QED BY <2>1 DEF FinalOK
<1>5. TailOK'
  <2>1. \A j \in Io : TailOn(cmd'[j], snap'[j], prop', turn')
    BY <1>2 DEF OthersSafe, TaskSafe
  <2> QED BY <2>1 DEF TailOK
<1>6. RewindOK'
  <2>1. \A j \in Io \ {i} : snap'[j] = Absent
    BY <1>2 DEF AloneOK
  <2> QED BY <1>2, <2>1 DEF RewindOK, TaskSafe
<1>7. OwnOK'
  <2>1. OwnOK
    BY DEF PartitionOK
  <2>2. \A j \in Io : \A k \in KeyId : Private(cmd'[j], snap'[j], k) =>
          vault'[k] = "live" /\ ~Publishes(prop', k)
    BY <1>2 DEF OthersSafe, TaskSafe, KeysSafe
  <2>3. \A j, x \in Io : \A k \in KeyId :
          Private(cmd'[j], snap'[j], k) /\ Private(cmd'[x], snap'[x], k) => j = x
    <3> SUFFICES ASSUME NEW j \in Io, NEW x \in Io, NEW k \in KeyId, j # x,
                        Private(cmd'[j], snap'[j], k), Private(cmd'[x], snap'[x], k)
                 PROVE  FALSE
      OBVIOUS
    <3>1. CASE j = i
      BY <3>1, <1>2 DEF TaskSafe, KeysSafe
    <3>2. CASE x = i
      BY <3>2, <1>2 DEF TaskSafe, KeysSafe
    <3>3. CASE j # i /\ x # i
      BY <3>3, <1>2, <2>1 DEF OwnOK
    <3> QED BY <3>1, <3>2, <3>3
  <2>4. \A j \in Io : Holder(cmd'[j], snap'[j]) => CreatesOnce(cmd'[j].log)
    BY <1>2, <2>1 DEF OwnOK, TaskSafe
  <2> QED BY <2>2, <2>3, <2>4, Zenon DEF OwnOK
<1>8. DisabledOK'
  <2>1. DisabledOK
    BY DEF PartitionOK
  <2>2. \A j \in Io : \A k \in KeyId : Owns(cmd'[j].log, k) => vault'[k] = "disabled"
    BY <1>2 DEF OthersSafe, TaskSafe, KeysSafe
  <2>3. \A j, x \in Io : \A k \in KeyId :
          Owns(cmd'[j].log, k) /\ Owns(cmd'[x].log, k) => j = x
    <3> SUFFICES ASSUME NEW j \in Io, NEW x \in Io, NEW k \in KeyId, j # x,
                        Owns(cmd'[j].log, k), Owns(cmd'[x].log, k)
                 PROVE  FALSE
      OBVIOUS
    <3>1. CASE j = i
      BY <3>1, <1>2 DEF TaskSafe, KeysSafe
    <3>2. CASE x = i
      BY <3>2, <1>2 DEF TaskSafe, KeysSafe
    <3>3. CASE j # i /\ x # i
      BY <3>3, <1>2, <2>1 DEF DisabledOK
    <3> QED BY <3>1, <3>2, <3>3
  <2>4. \A j \in Io : OwnsOnce(cmd'[j].log)
    BY <1>2, <2>1 DEF DisabledOK, TaskSafe
  <2> QED BY <2>2, <2>3, <2>4, Zenon DEF DisabledOK
<1> QED BY <1>3, <1>4, <1>5, <1>6, <1>7, <1>8 DEF PartitionOK, PartSafe
-----------------------------------------------------------------------------
(* Steps of the handlers.  No lone walk is under way, so the partition is   *)
(* in a phase.                                                              *)

Handling(i) == /\ CanRun(i) /\ cmd[i].pc \notin {"idle", "walk"}
               /\ turn' = turn /\ snap' = snap

\* A task that runs outside an undo walk finds the partition in a phase.
LEMMA Phased ==
    ASSUME PartitionOK, NEW i \in Io, CanRun(i), ~Undoing(cmd[i])
    PROVE  PhaseOK(prop)
<1>1. \A j \in Io : ~Rewinding(j)
  BY ConstantsOK DEF Rewinding, CanRun
<1> QED BY <1>1 DEF PartitionOK, PhaseInv

\* A partition in a phase is not Faulted.
LEMMA PhaseServes ==
    ASSUME PhaseOK(prop') PROVE Serving'
BY DEF PhaseOK, Serving

\* What a handler's step has to show.
SdIdle(i) == \A j \in Io \ {i} : Undoing(cmd[j]) => ~Has(cmd[j].log, "SD_INITIALIZED")

HandlerSafe(i, d) ==
    /\ ~d.poisoned /\ d.pc # "walk"
    /\ PhaseOK(prop') /\ KeysLive(prop', vault')
    /\ FinalOn(d, prop') /\ \A j \in Io \ {i} : FinalOn(cmd[j], prop')
    /\ prop'["SD_MK_KEY_ID"] = prop["SD_MK_KEY_ID"] \/ SdIdle(i)
    /\ \A j \in Io \ {i} : \A k \in KeyId :
         /\ Private(cmd[j], snap[j], k) => vault'[k] = "live" /\ ~Publishes(prop', k)
         /\ Owns(cmd[j].log, k) => vault'[k] = "disabled"
    /\ Staging(d) => CreatesOnce(d.log)
    /\ OwnsOnce(d.log) /\ KeysSafe(i, d)
    /\ snap[i] # Absent => Rewinds(d.log, prop', vault', snap[i])

\* A handler step under the conditions of HandlerSafe keeps the partition right.
LEMMA HandlerMove ==
    ASSUME TypeInv, AloneOK, PartitionOK, NEW i \in Io, Handling(i), NEW d,
           cmd' = [cmd EXCEPT ![i] = d], HandlerSafe(i, d)
    PROVE  PartitionOK'
<1>1. /\ cmd[i].pc # "idle" /\ turn' = turn /\ snap' = snap /\ snap'[i] = snap[i]
      /\ \A j \in Io \ {i} : snap'[j] = snap[j]
  BY DEF Handling
<1>2. PartSafe
  BY PhaseServes DEF HandlerSafe, PartSafe, PhaseInv
<1>3. \A s, p, t : TailOn(d, s, p, t)
  BY DEF TailOn, Undoing, HandlerSafe
<1>4. ~Undoing(d)
  BY DEF Undoing, HandlerSafe
<1>5. TaskSafe(i, d)
  BY <1>1, <1>3, <1>4 DEF TaskSafe, HandlerSafe, Holder
<1>6. \A j \in Io \ {i} : TailOn(cmd[j], snap[j], prop', turn')
  <2> TAKE j \in Io \ {i}
  <2>1. TailOn(cmd[j], snap[j], prop, turn)
    BY DEF PartitionOK, TailOK
  <2> QED BY <1>1, <2>1 DEF TailOn, HandlerSafe, SdIdle
<1>7. OthersSafe(i)
  BY <1>6 DEF OthersSafe, HandlerSafe
<1> QED BY <1>1, <1>2, <1>5, <1>7, TaskMove

\* The keys of the other tasks and of the log, as PartitionOK gives them.
LEMMA OthersKeys ==
    ASSUME PartitionOK, NEW j \in Io, NEW k \in KeyId
    PROVE  /\ Private(cmd[j], snap[j], k) => vault[k] = "live" /\ ~Publishes(prop, k)
           /\ Owns(cmd[j].log, k) => vault[k] = "disabled"
           /\ \A i \in Io : i # j =>
                /\ ~(Private(cmd[i], snap[i], k) /\ Private(cmd[j], snap[j], k))
                /\ ~(Owns(cmd[i].log, k) /\ Owns(cmd[j].log, k))
<1>1. OwnOK /\ DisabledOK
  BY DEF PartitionOK
<1>2. Private(cmd[j], snap[j], k) => vault[k] = "live" /\ ~Publishes(prop, k)
  BY <1>1, Zenon DEF OwnOK
<1>3. Owns(cmd[j].log, k) => vault[k] = "disabled"
  BY <1>1, Zenon DEF DisabledOK
<1>4. ASSUME NEW i \in Io, i # j
      PROVE  /\ ~(Private(cmd[i], snap[i], k) /\ Private(cmd[j], snap[j], k))
             /\ ~(Owns(cmd[i].log, k) /\ Owns(cmd[j].log, k))
  BY <1>1, <1>4, Zenon DEF OwnOK, DisabledOK
<1> QED BY <1>2, <1>3, <1>4

\* Nothing but the task's locals changes.
LocalMove(i, d) ==
    /\ prop' = prop /\ vault' = vault
    /\ d.log = cmd[i].log /\ d.pc # "walk" /\ ~d.poisoned
    /\ Staging(d) => Staging(cmd[i]) \/ cmd[i].log = <<>>
    /\ FinalOn(d, prop)

\* A step that changes only the task's own locals keeps the partition right.
LEMMA LocalStep ==
    ASSUME TypeInv, AloneOK, PartitionOK, NEW i \in Io, Handling(i), NEW d,
           cmd' = [cmd EXCEPT ![i] = d], LocalMove(i, d)
    PROVE  PartitionOK'
<1>1. /\ prop' = prop /\ vault' = vault /\ d.log = cmd[i].log /\ d.pc # "walk"
      /\ ~d.poisoned /\ FinalOn(d, prop) /\ snap'[i] = snap[i]
      /\ cmd[i].pc # "walk"
  BY DEF LocalMove, Handling
<1>2. PhaseOK(prop)
  BY <1>1, Phased DEF Handling, Undoing
<1>3. KeysLive(prop, vault) /\ FinalOK /\ OwnOK /\ DisabledOK /\ RewindOK
  BY DEF PartitionOK
<1>4. Staging(d) => CreatesOnce(d.log)
  <2>1. Staging(cmd[i]) => CreatesOnce(cmd[i].log)
    BY <1>3 DEF OwnOK, Holder
  <2> QED BY <1>1, <2>1, EmptyHolds DEF LocalMove
<1>5. \A k \in KeyId : Private(d, snap'[i], k) => Private(cmd[i], snap[i], k)
  BY <1>1, EmptyHolds DEF LocalMove, Private, Holder, Undoing
<1>6. KeysSafe(i, d)
  BY <1>1, <1>5, OthersKeys DEF KeysSafe
<1>7. OwnsOnce(d.log)
  BY <1>1, <1>3 DEF DisabledOK
<1>8. snap[i] # Absent => Rewinds(d.log, prop', vault', snap[i])
  BY <1>1, <1>3 DEF RewindOK, Committing
<1>9. \A j \in Io \ {i} : FinalOn(cmd[j], prop')
  BY <1>1, <1>3 DEF FinalOK
<1>10. \A j \in Io \ {i} : \A k \in KeyId :
          /\ Private(cmd[j], snap[j], k) => vault'[k] = "live" /\ ~Publishes(prop', k)
          /\ Owns(cmd[j].log, k) => vault'[k] = "disabled"
  BY <1>1, OthersKeys
<1>11. HandlerSafe(i, d)
  BY <1>1, <1>2, <1>3, <1>4, <1>6, <1>7, <1>8, <1>9, <1>10 DEF HandlerSafe
<1> QED BY <1>11, HandlerMove

-----------------------------------------------------------------------------
Base == ClaimsInductive /\ LogsOK /\ AloneOK
Kept == LogsOK' /\ AloneOK'

\* A step that leaves a log of the right shape keeps the invariants of the logs.
LEMMA TaskKept ==
    ASSUME Base, NEW i \in Io, cmd[i].pc # "idle", NEW d, d.pc # "idle", LogAt(d),
           cmd' = [cmd EXCEPT ![i] = d], snap' = snap
    PROVE  Kept
<1>1. cmd \in [Io -> Command]
  BY TypeParts DEF Base, ClaimsInductive
<1>2. cmd'[i] = d /\ \A j \in Io \ {i} : cmd'[j] = cmd[j]
  BY <1>1
<1>3. \A j \in Io : cmd'[j].pc = "idle" <=> cmd[j].pc = "idle"
  BY <1>2
<1>4. AloneOK'
  BY <1>3 DEF AloneOK, Base
<1>5. LogsOK'
  BY <1>2 DEF LogsOK, Base
<1> QED BY <1>4, <1>5 DEF Kept

\* What Base says of one task.
LEMMA BaseTask ==
    ASSUME Base, NEW i \in Io
    PROVE  /\ cmd[i] \in Command /\ cmd \in [Io -> Command] /\ Control(cmd[i])
           /\ LogAt(cmd[i]) /\ TypeInv /\ RestOK /\ AloneOK
           /\ cmd[i].log \in Seq(Entry) /\ cmd[i].staged \in Seq(KeyId)
<1>1. cmd[i] \in Command
  BY TaskType DEF Base, ClaimsInductive
<1>2. cmd[i].log \in Seq(Entry) /\ cmd[i].staged \in Seq(KeyId)
  BY <1>1 DEF Command
<1> QED BY <1>1, <1>2, TaskType, TypeParts DEF Base, ClaimsInductive, LogsOK

\* A log at "outbound", "complete" or in a walk only has to be layered.
LEMMA LateLog ==
    ASSUME NEW d, d.pc \in {"outbound", "complete", "walk", "idle"}, Layered(d.log)
    PROVE  LogAt(d)
BY DEF LogAt, Staging

\* The handler fails and has changed nothing in this step.
LEMMA FailMove ==
    ASSUME Base, NEW i \in Io, Handling(i), prop' = prop, vault' = vault,
           cmd' = [cmd EXCEPT ![i] = Failed(cmd[i])]
    PROVE  Kept /\ (PartitionOK => PartitionOK')
<1> DEFINE d == Failed(cmd[i])
<1>1. /\ d.log = cmd[i].log /\ d.pc = "outbound" /\ ~d.poisoned
      /\ cmd' = [cmd EXCEPT ![i] = d]
  BY FailedRecord DEF Failed, IdleCommand
<1> HIDE DEF d
<1>2. LogAt(d)
  BY <1>1, BaseTask, LateLog DEF LogAt
<1>3. cmd[i].pc # "idle" /\ snap' = snap
  BY DEF Handling
<1>4. LocalMove(i, d)
  BY <1>1 DEF LocalMove, Staging, FinalOn
<1>5. ASSUME PartitionOK PROVE PartitionOK'
  BY <1>1, <1>4, <1>5, BaseTask, LocalStep
<1> QED BY <1>1, <1>2, <1>3, <1>5, TaskKept

\* The steps that touch neither the properties nor the vault.
LEMMA RollLocal ==
    ASSUME Base, NEW i \in Io,
           \/ InboundFail(i) \/ HandlerError(i) \/ Reject(i)
           \/ Dispatch(i) \/ ReadUms(i) \/ OutboundOk(i) \/ OutboundFail(i)
    PROVE  Kept /\ (PartitionOK => PartitionOK')
<1> DEFINE c == cmd[i]
<1>1. c \in Command /\ cmd \in [Io -> Command] /\ Control(c) /\ LogAt(c) /\ TypeInv /\ AloneOK
  BY BaseTask
<1>2. prop' = prop /\ vault' = vault /\ Handling(i)
  BY DEF InboundFail, HandlerError, Reject, Dispatch, ReadUms, OutboundOk,
         OutboundFail, part, bounds, history, Handling
<1>3. CASE HandlerError(i) \/ Reject(i)
  <2>1. cmd' = [cmd EXCEPT ![i] = Failed(c)]
    BY <1>3 DEF HandlerError, Reject
  <2> QED BY <2>1, <1>2, FailMove
<1>4. ASSUME NEW d, cmd' = [cmd EXCEPT ![i] = d], d.pc # "idle", LogAt(d),
             PartitionOK => LocalMove(i, d)
      PROVE  Kept /\ (PartitionOK => PartitionOK')
  <2>1. cmd[i].pc # "idle" /\ snap' = snap
    BY <1>2 DEF Handling
  <2>2. ASSUME PartitionOK PROVE PartitionOK'
    BY <1>1, <1>2, <1>4, <2>2, LocalStep
  <2> QED BY <1>4, <2>1, <2>2, TaskKept
<1>5. CASE InboundFail(i) \/ OutboundFail(i) \/ OutboundOk(i)
  <2> DEFINE d(b) == [c EXCEPT !.pc = "complete", !.handlerOk = b]
  <2>1. PICK b \in BOOLEAN : cmd' = [cmd EXCEPT ![i] = d(b)]
    BY <1>5, <1>1 DEF InboundFail, OutboundFail, OutboundOk
  <2>2. d(b).pc = "complete" /\ d(b).log = c.log /\ d(b).poisoned = c.poisoned
    BY <1>1 DEF Command
  <2> HIDE DEF d
  <2>3. LogAt(d(b))
    BY <2>2, <1>1, LateLog DEF LogAt
  <2>4. PartitionOK => LocalMove(i, d(b))
    BY <2>2, <1>2 DEF LocalMove, Staging, FinalOn, PartitionOK, NoPoison
  <2> QED BY <2>1, <2>2, <2>3, <2>4, <1>4
<1>6. CASE Dispatch(i)
  <2> DEFINE d == [c EXCEPT !.pc = FirstPc(c.op)]
  <2>1. cmd' = [cmd EXCEPT ![i] = d] /\ c.pc = "inbound" /\ c.op # "PskChange"
    BY <1>6, <1>1 DEF Dispatch
  <2>2. /\ d.pc = FirstPc(c.op) /\ d.log = c.log /\ d.poisoned = c.poisoned
        /\ d.op = c.op /\ d.staged = c.staged
    BY <1>1 DEF Command
  <2>3. /\ FirstPc(c.op) \in {"validate", "claim", "stage"}
        /\ c.op = "PartFinal" => FirstPc(c.op) = "validate"
    BY <2>1 DEF FirstPc
  <2>4. c.log = <<>> /\ c.staged = <<>>
    BY <1>1, <2>1 DEF Control
  <2> HIDE DEF d
  <2>5. LogAt(d)
    BY <2>2, <2>3, <2>4, EmptyHolds DEF LogAt, Staging
  <2>6. PartitionOK => LocalMove(i, d)
    BY <1>2, <2>2, <2>3, <2>4 DEF LocalMove, FinalOn, PartitionOK, NoPoison
  <2> QED BY <2>1, <2>2, <2>3, <2>5, <2>6, <1>4
<1>7. CASE ReadUms(i)
  <2> DEFINE d == [c EXCEPT !.pc = "stage", !.ums = prop["UPS_KEY_ID"]]
  <2>1. /\ cmd' = [cmd EXCEPT ![i] = d] /\ c.pc = "validate"
        /\ prop["POLICY_HASH"] = Present /\ CanRun(i)
    BY <1>7, <1>1 DEF ReadUms
  <2>2. /\ d.pc = "stage" /\ d.log = c.log /\ d.poisoned = c.poisoned
        /\ d.staged = c.staged /\ d.ums = prop["UPS_KEY_ID"]
    BY <1>1 DEF Command
  <2>3. c.log = <<>> /\ c.staged = <<>>
    BY <1>1, <2>1 DEF Control, LogAt
  <2> HIDE DEF d
  <2>4. LogAt(d)
    BY <2>2, <2>3, EmptyHolds DEF LogAt, Staging
  <2>5. ASSUME PartitionOK PROVE LocalMove(i, d)
    <3>1. PhaseOK(prop)
      BY <2>1, <2>5, Phased DEF Undoing
    <3>2. prop["STATE"] # "Enabled"
      BY <3>1, <2>1, ConstantsOK DEF PhaseOK
    <3>3. FinalOn(d, prop)
      BY <3>2, <2>2 DEF FinalOn
    <3> QED BY <1>2, <2>2, <2>3, <2>5, <3>3 DEF LocalMove, PartitionOK, NoPoison
  <2> QED BY <2>1, <2>2, <2>4, <2>5, <1>4
<1> QED BY <1>3, <1>5, <1>6, <1>7

-----------------------------------------------------------------------------
(* PskChange. *)

\* Both outcomes of a handler's last segment, as one step to the outbound half.
LEMMA RespondMove ==
    ASSUME NEW i \in Io, NEW c \in Command, NEW ok, Respond(i, ok, c)
    PROVE  \E r : /\ cmd' = [cmd EXCEPT ![i] = r]
                  /\ r.pc = "outbound" /\ r.log = c.log
                  /\ r.poisoned => c.poisoned
<1>1. CASE cmd' = [cmd EXCEPT ![i] = Failed(c)]
  <2>1. Failed(c).log = c.log /\ Failed(c).pc = "outbound" /\ ~Failed(c).poisoned
    BY FailedRecord DEF Failed, IdleCommand
  <2> WITNESS Failed(c)
  <2> QED BY <1>1, <2>1
<1>2. CASE cmd' = [cmd EXCEPT ![i] = [c EXCEPT !.pc = "outbound"]]
  <2> DEFINE d == [c EXCEPT !.pc = "outbound"]
  <2>1. d.pc = "outbound" /\ d.log = c.log /\ d.poisoned = c.poisoned
    BY DEF Command
  <2> WITNESS d
  <2> QED BY <1>2, <2>1
<1> QED BY <1>1, <1>2 DEF Respond

\* A task that is not staging any more, on an unchanged vault: its log holds
\* no soft-deleted key, and no other task notices.
LEMMA QuietKeys ==
    ASSUME PartitionOK, NEW i \in Io, NEW d, ~Holder(d, snap'[i]),
           \A k \in KeyId : ~Owns(d.log, k)
    PROVE  OwnsOnce(d.log) /\ KeysSafe(i, d)
<1>1. KeysSafe(i, d)
  BY DEF KeysSafe, Private
<1>2. OwnsOnce(d.log)
  BY DEF OwnsOnce, Owns
<1> QED BY <1>1, <1>2

\* PskChange records the PSK it read before the AEAD open.
LEMMA RollPskReserve ==
    ASSUME Base, NEW i \in Io, PskReserve(i)
    PROVE  Kept /\ (PartitionOK => PartitionOK')
<1> DEFINE c == cmd[i]
           x == PskPropOf(c.sess)
           e == PropRestore(x, prop[x])
           d == [c EXCEPT !.pc = "open", !.log = Append(c.log, e)]
<1>1. /\ c \in Command /\ cmd \in [Io -> Command] /\ Control(c) /\ LogAt(c)
      /\ TypeInv /\ AloneOK /\ RestOK
  BY BaseTask
<1>2. prop' = prop /\ vault' = vault /\ Handling(i) /\ c.pc = "inbound"
  BY DEF PskReserve, Handling, history
<1>3. \/ cmd' = [cmd EXCEPT ![i] = d]
      \/ cmd' = [cmd EXCEPT ![i] = Failed(c)]
  BY <1>1 DEF PskReserve
<1>4. CASE cmd' = [cmd EXCEPT ![i] = Failed(c)]
  BY <1>2, <1>4, FailMove
<1>5. CASE cmd' = [cmd EXCEPT ![i] = d]
  <2>1. x \in PropId /\ prop[x] \in PropValue(x)
    BY <1>1, PskPropType, PropValues DEF RestOK
  <2> DEFINE t == <<e>>
  <2>2. /\ t \in Seq(Entry) /\ Layered(t) /\ CreatesOnce(t) /\ OwnsOnce(t)
        /\ \A n \in 1 .. Len(t) : \A q : Restores(t[n], q) <=> q = x
        /\ \A n \in 1 .. Len(t) : t[n].val = prop[x]
        /\ \A q : Has(t, q) <=> q = x
        /\ \A k : ~Creates(t, k) /\ ~Owns(t, k)
    BY <2>1, OneRestore, Zenon
  <2>3. c.log = <<>>
    BY <1>1, <1>2 DEF Control
  <2>4. /\ d.pc = "open" /\ d.log = t /\ d.poisoned = c.poisoned /\ d.sess = c.sess
    <3>1. Append(<<>>, e) = t
      OBVIOUS
    <3> HIDE DEF e, t
    <3> QED BY <1>1, <2>3, <3>1 DEF Command
  <2> HIDE DEF d, t, e
  <2>5. LogAt(d)
    BY <2>2, <2>4 DEF LogAt, Staging
  <2>6. cmd[i].pc # "idle" /\ snap' = snap
    BY <1>2 DEF Handling
  <2>7. ASSUME PartitionOK PROVE PartitionOK'
    <3>1. PhaseOK(prop) /\ KeysLive(prop, vault) /\ FinalOK /\ RewindOK /\ ~c.poisoned
      BY <1>2, <2>7, Phased DEF Handling, Undoing, PartitionOK, NoPoison
    <3>2. ~Staging(d) /\ ~Undoing(d)
      BY <2>4 DEF Staging, Undoing
    <3>3. OwnsOnce(d.log) /\ KeysSafe(i, d)
      BY <2>2, <2>4, <2>7, <3>2, QuietKeys DEF Holder
    <3>4. snap[i] # Absent => Rewinds(d.log, prop', vault', snap[i])
      <4> SUFFICES ASSUME snap[i] # Absent PROVE Rewinds(d.log, prop', vault', snap[i])
        OBVIOUS
      <4>1. Rewinds(<<>>, prop, vault, snap[i])
        BY <1>2, <2>3, <3>1 DEF RewindOK, Committing
      <4>2. PropsBlock(<<>>, t, prop, prop)
        BY <2>2, EmptyHolds DEF PropsBlock
      <4>3. VaultBlock(<<>>, t, vault, vault)
        BY <2>2 DEF VaultBlock
      <4>4. <<>> \in Seq(Entry) /\ <<>> \o t = t
        BY <2>2
      <4>5. Rewinds(<<>> \o t, prop, vault, snap[i])
        BY <2>2, <4>1, <4>2, <4>3, <4>4, RewindBlock
      <4> QED BY <1>2, <2>4, <4>4, <4>5
    <3>5. \A j \in Io \ {i} : FinalOn(cmd[j], prop')
      BY <1>2, <3>1 DEF FinalOK
    <3>6. FinalOn(d, prop')
      BY <2>4 DEF FinalOn
    <3>7. \A j \in Io \ {i} : \A k \in KeyId :
            /\ Private(cmd[j], snap[j], k) => vault'[k] = "live" /\ ~Publishes(prop', k)
            /\ Owns(cmd[j].log, k) => vault'[k] = "disabled"
      BY <1>2, <2>7, OthersKeys
    <3>8. HandlerSafe(i, d)
      BY <1>2, <2>4, <3>1, <3>2, <3>3, <3>4, <3>5, <3>6, <3>7 DEF HandlerSafe
    <3> QED BY <1>1, <1>2, <1>5, <2>7, <3>8, HandlerMove
  <2> QED BY <1>5, <2>4, <2>5, <2>6, <2>7, TaskKept
<1> QED BY <1>3, <1>4, <1>5

\* PskChange installs the new PSK after the AEAD open.
LEMMA RollPskInstall ==
    ASSUME Base, NEW i \in Io, PskInstall(i)
    PROVE  Kept /\ (PartitionOK => PartitionOK')
<1> DEFINE c == cmd[i]
           x == PskPropOf(c.sess)
<1>1. /\ c \in Command /\ cmd \in [Io -> Command] /\ Control(c) /\ LogAt(c)
      /\ TypeInv /\ AloneOK /\ RestOK
  BY BaseTask
<1>2. vault' = vault /\ Handling(i) /\ c.pc = "open" /\ Respond(i, Serving, c)
  BY DEF PskInstall, Handling, history
<1>3. PICK d : /\ cmd' = [cmd EXCEPT ![i] = d]
               /\ d.pc = "outbound" /\ d.log = c.log
               /\ d.poisoned => c.poisoned
  BY <1>1, <1>2, RespondMove
<1>4. x \in PskProp /\ x \in PropId
  BY PskPropType, PropValues
<1>5. \A q \in PropId : q # x => prop'[q] = prop[q]
  <2>1. prop' = prop \/ prop' = [prop EXCEPT ![x] = c.psk]
    BY DEF PskInstall
  <2> HIDE DEF x
  <2> QED BY <1>1, <2>1 DEF RestOK
<1>6. LogAt(d)
  BY <1>1, <1>3, LateLog DEF LogAt
<1>7. cmd[i].pc # "idle" /\ snap' = snap
  BY <1>2 DEF Handling
<1>8. ASSUME PartitionOK PROVE PartitionOK'
  <2>1. PhaseOK(prop) /\ KeysLive(prop, vault) /\ FinalOK /\ RewindOK /\ ~c.poisoned
    BY <1>2, <1>8, Phased DEF Handling, Undoing, PartitionOK, NoPoison
  <2>2. \A q \in KeyProp \cup FlagProp \cup {"STATE"} : prop'[q] = prop[q]
    BY <1>4, <1>5 DEF PropId, PskProp, KeyProp, FlagProp
  <2>3. PhaseOK(prop') /\ KeysLive(prop', vault')
    <3>1. PartKeyProp \subseteq KeyProp
      BY DEF PartKeyProp
    <3>2. PhaseOK(prop')
      BY <2>1, <2>2, <3>1 DEF PhaseOK, KeyProp, FlagProp
    <3> QED BY <1>2, <2>1, <2>2, <3>2 DEF KeysLive
  <2>4. ~Staging(d) /\ ~Undoing(d) /\ ~Holder(d, snap'[i])
    BY <1>3 DEF Staging, Undoing, Holder
  <2>5. \A k \in KeyId : ~Owns(c.log, k)
    <3>1. Shape(c)
      BY DEF Base, ClaimsInductive, ShapeOK
    <3> QED BY <1>2, <3>1 DEF Shape, Plain, Unclaimed, Harmless, Owns, VaultDisable
  <2>6. OwnsOnce(d.log) /\ KeysSafe(i, d)
    BY <1>3, <1>8, <2>4, <2>5, QuietKeys
  <2>7. snap[i] # Absent => Rewinds(d.log, prop', vault', snap[i])
    <3>1. Has(c.log, x)
      BY <1>1, <1>2 DEF LogAt
    <3>2. snap[i] # Absent => Rewinds(c.log, prop, vault, snap[i])
      BY <1>2, <2>1 DEF RewindOK, Committing
    <3> QED BY <1>2, <1>3, <1>5, <3>1, <3>2, RewindWrite
  <2>8. \A j \in Io \ {i} : FinalOn(cmd[j], prop')
    <3>1. prop'["STATE"] = prop["STATE"] /\ prop'["UPS_KEY_ID"] = prop["UPS_KEY_ID"]
      BY <2>2 DEF KeyProp
    <3> QED BY <2>1, <3>1 DEF FinalOK, FinalOn
  <2>9. FinalOn(d, prop')
    BY <1>3 DEF FinalOn
  <2>10. \A j \in Io \ {i} : \A k \in KeyId :
          /\ Private(cmd[j], snap[j], k) => vault'[k] = "live" /\ ~Publishes(prop', k)
          /\ Owns(cmd[j].log, k) => vault'[k] = "disabled"
    <3>1. \A k : Publishes(prop', k) <=> Publishes(prop, k)
      BY <2>2 DEF Publishes
    <3> QED BY <1>2, <1>8, <3>1, OthersKeys
  <2>11. prop'["SD_MK_KEY_ID"] = prop["SD_MK_KEY_ID"]
    BY <2>2 DEF KeyProp
  <2>12. HandlerSafe(i, d)
    BY <1>3, <2>1, <2>3, <2>4, <2>6, <2>7, <2>8, <2>9, <2>10, <2>11 DEF HandlerSafe
  <2> QED BY <1>1, <1>2, <1>3, <1>8, <2>12, HandlerMove
<1> QED BY <1>3, <1>6, <1>7, <1>8, TaskKept

-----------------------------------------------------------------------------
(* Staging of vault keys, and UnwrapKey. *)

\* While keys are staged the log holds exactly their creations.
LEMMA StagedLog ==
    ASSUME Base, NEW i \in Io, Staging(cmd[i])
    PROVE  /\ KeysOnly(cmd[i].log) /\ Len(cmd[i].log) = Len(cmd[i].staged)
           /\ Len(cmd[i].log) \in Nat
           /\ \A n \in 1 .. Len(cmd[i].log) : /\ cmd[i].staged[n] \in KeyId
                                              /\ cmd[i].log[n] = VaultCreate(cmd[i].staged[n])
           /\ cmd[i].pc \notin {"idle", "walk"}
<1>1. /\ LogAt(cmd[i]) /\ cmd[i].staged \in Seq(KeyId) /\ cmd[i].log \in Seq(Entry)
  BY BaseTask
<1>2. /\ Len(cmd[i].log) = Len(cmd[i].staged)
      /\ \A n \in 1 .. Len(cmd[i].staged) : cmd[i].log[n] = VaultCreate(cmd[i].staged[n])
  BY <1>1 DEF LogAt
<1>3. \A n \in 1 .. Len(cmd[i].log) : cmd[i].staged[n] \in KeyId
  BY <1>1, <1>2
<1>4. KeysOnly(cmd[i].log)
  <2>1. \A k : VaultCreate(k).kind = "VaultCreate"
    BY DEF VaultCreate
  <2> QED BY <1>2, <2>1, Zenon DEF KeysOnly
<1>5. cmd[i].pc \notin {"idle", "walk"} /\ Len(cmd[i].log) \in Nat
  BY <1>1 DEF Staging
<1> QED BY <1>2, <1>3, <1>4, <1>5

\* A staged key is live, unpublished and known to its task only.
LEMMA StagedKey ==
    ASSUME Base, PartitionOK, NEW i \in Io, Staging(cmd[i]),
           NEW n \in 1 .. Len(cmd[i].log)
    PROVE  LET k == cmd[i].staged[n] IN
           /\ k \in KeyId /\ Creates(cmd[i].log, k) /\ Private(cmd[i], snap[i], k)
           /\ vault[k] = "live" /\ ~Publishes(prop, k) /\ k # Absent
           /\ \A j \in Io \ {i} : ~Private(cmd[j], snap[j], k)
           /\ \A j \in Io : ~Owns(cmd[j].log, k)
           /\ \A m \in 1 .. Len(cmd[i].log) : cmd[i].staged[m] = k => m = n
<1> DEFINE k == cmd[i].staged[n]
<1>1. k \in KeyId /\ cmd[i].log[n] = VaultCreate(k)
  BY StagedLog
<1>2. Creates(cmd[i].log, k) /\ Private(cmd[i], snap[i], k) /\ CreatesOnce(cmd[i].log)
  <2>1. Creates(cmd[i].log, k)
    BY <1>1 DEF Creates
  <2>2. Holder(cmd[i], snap[i])
    BY DEF Holder
  <2> QED BY <2>1, <2>2 DEF Private, PartitionOK, OwnOK
<1>3. \A m \in 1 .. Len(cmd[i].log) : cmd[i].staged[m] = k => m = n
  <2>1. \A m \in 1 .. Len(cmd[i].log) : cmd[i].staged[m] = k => cmd[i].log[m] = VaultCreate(k)
    BY StagedLog
  <2> QED BY <1>1, <1>2, <2>1, Zenon DEF CreatesOnce
<1>4. vault[k] = "live" /\ ~Publishes(prop, k)
  BY <1>1, <1>2, OthersKeys
<1>5. \A j \in Io \ {i} : ~Private(cmd[j], snap[j], k)
  BY <1>1, <1>2, OthersKeys
<1>6. \A j \in Io : ~Owns(cmd[j].log, k)
  BY <1>1, <1>4, OthersKeys
<1> QED BY <1>1, <1>2, <1>3, <1>4, <1>5, <1>6, ConstantsOK

\* A free slot is nobody's.
LEMMA FreeKey ==
    ASSUME PartitionOK, NEW k \in KeyId, vault[k] = "free"
    PROVE  /\ ~Publishes(prop, k)
           /\ \A j \in Io : ~Private(cmd[j], snap[j], k) /\ ~Owns(cmd[j].log, k)
<1>1. KeysLive(prop, vault)
  BY DEF PartitionOK
<1>2. ~Publishes(prop, k)
  BY <1>1, ConstantsOK DEF KeysLive, Publishes
<1> QED BY <1>2, OthersKeys

\* A staged key is live, in the log and published nowhere.
LEMMA RollStage ==
    ASSUME Base, NEW i \in Io, StageKey(i)
    PROVE  Kept /\ (PartitionOK => PartitionOK')
<1> DEFINE c == cmd[i]
           k == FreeSlot
           e == VaultCreate(k)
           n == IF Len(c.staged) + 1 < StagedKeys(c.op) THEN "stage"
                ELSE IF c.op = "UnwrapKey" THEN "mask" ELSE "commit"
           st == Append(c.staged, k)
           lg == Append(c.log, e)
           d == [c EXCEPT !.staged = st, !.log = lg, !.pc = n]
           t == <<e>>
<1>1. /\ c \in Command /\ cmd \in [Io -> Command] /\ Control(c) /\ LogAt(c)
      /\ TypeInv /\ AloneOK /\ RestOK /\ c.log \in Seq(Entry) /\ c.staged \in Seq(KeyId)
  BY BaseTask
<1>2. k \in KeyId /\ vault[k] = "free" /\ e \in Entry
  BY FreeSlotType, EntryTypes DEF StageKey
<1>3. cmd' = [cmd EXCEPT ![i] = d]
  BY <1>1 DEF StageKey
<1>4. prop' = prop /\ Handling(i) /\ c.pc = "stage" /\ vault' = [vault EXCEPT ![k] = "live"]
  BY DEF StageKey, Handling, history
<1>5. /\ d.pc = n /\ d.log = lg /\ d.staged = st /\ d.poisoned = c.poisoned
      /\ d.op = c.op /\ d.ums = c.ums
  <2> HIDE DEF st, lg, n
  <2> QED BY <1>1 DEF Command
<1>6. Staging(c) /\ Staging(d) /\ d.pc \in {"stage", "commit", "mask"}
  BY <1>4, <1>5 DEF Staging
<1>7. /\ KeysOnly(c.log) /\ Len(c.log) = Len(c.staged) /\ Len(c.log) \in Nat
      /\ \A m \in 1 .. Len(c.log) : c.log[m] = VaultCreate(c.staged[m])
  BY <1>6, StagedLog
<1>8. /\ t \in Seq(Entry) /\ Layered(t) /\ CreatesOnce(t) /\ OwnsOnce(t)
      /\ \A m \in 1 .. Len(t) : \A q : ~Restores(t[m], q)
      /\ \A q : ~Has(t, q)
      /\ \A x : Creates(t, x) <=> x = k
      /\ \A x : ~Owns(t, x)
  BY <1>2, OneKey, Zenon
<1>9. lg = c.log \o t
  BY <1>1, <1>2, AppendIsConcat
<1>10. /\ Len(lg) = Len(st) /\ \A m \in 1 .. Len(st) : lg[m] = VaultCreate(st[m])
  BY <1>1, <1>2, <1>7
<1> HIDE DEF d, n, st, lg, t, e, k
<1>11. LogAt(d)
  <2>1. Layered(lg)
    BY <1>1, <1>7, <1>8, <1>9, KeysOnlyHolds, LayeredConcat
  <2> QED BY <1>5, <1>6, <1>10, <2>1 DEF LogAt
<1>12. cmd[i].pc # "idle" /\ snap' = snap /\ snap'[i] = snap[i]
  BY <1>4 DEF Handling
<1>13. ASSUME PartitionOK PROVE PartitionOK'
  <2>1. PhaseOK(prop) /\ KeysLive(prop, vault) /\ FinalOK /\ RewindOK /\ ~c.poisoned
    BY <1>4, <1>13, Phased DEF Handling, Undoing, PartitionOK, NoPoison
  <2>2. /\ ~Publishes(prop, k)
        /\ \A j \in Io : ~Private(cmd[j], snap[j], k) /\ ~Owns(cmd[j].log, k)
    BY <1>2, <1>13, FreeKey
  <2>3. vault'[k] = "live" /\ \A x \in KeyId : x # k => vault'[x] = vault[x]
    BY <1>1, <1>2, <1>4 DEF RestOK
  <2>4. KeysLive(prop', vault')
    <3>1. \A q \in KeyProp : prop[q] # Absent => prop[q] \in KeyId
      BY <1>1, PropValues DEF RestOK
    <3> QED BY <1>4, <2>1, <2>3, <3>1 DEF KeysLive
  <2>5. \A x : Creates(d.log, x) <=> Creates(c.log, x) \/ x = k
    BY <1>1, <1>5, <1>8, <1>9, ConcatHolds
  <2>6. \A x : ~Owns(d.log, x) /\ ~Owns(c.log, x)
    BY <1>1, <1>5, <1>7, <1>8, <1>9, ConcatHolds, KeysOnlyHolds
  <2>7. Holder(c, snap[i]) /\ ~Creates(c.log, k)
    BY <1>6, <2>2 DEF Holder, Private
  <2>8. CreatesOnce(c.log)
    BY <1>13, <2>7 DEF PartitionOK, OwnOK
  <2>9. CreatesOnce(d.log)
    <3> SUFFICES ASSUME NEW x \in KeyId, NEW a \in 1 .. Len(lg), NEW b \in 1 .. Len(lg),
                        lg[a] = VaultCreate(x), lg[b] = VaultCreate(x)
                 PROVE  a = b
      BY <1>5 DEF CreatesOnce
    <3>1. /\ Len(lg) = Len(c.log) + 1 /\ \A m \in 1 .. Len(c.log) : lg[m] = c.log[m]
          /\ lg[Len(c.log) + 1] = VaultCreate(k)
      BY <1>1, <1>2 DEF lg, e
    <3>2. \A m \in 1 .. Len(c.log) : c.log[m] # VaultCreate(k)
      BY <2>7 DEF Creates
    <3>3. VaultCreate(x) = VaultCreate(k) => x = k
      BY DEF VaultCreate
    <3>4. \A m \in 1 .. Len(lg) : m \in 1 .. Len(c.log) \/ m = Len(c.log) + 1
      BY <3>1, <1>7
    <3> QED BY <3>1, <3>2, <3>3, <3>4, <2>8 DEF CreatesOnce
  <2>10. OwnsOnce(d.log)
    BY <2>6 DEF OwnsOnce, Owns
  <2>11. KeysSafe(i, d)
    <3> SUFFICES ASSUME NEW x \in KeyId, Creates(d.log, x)
                 PROVE  /\ vault'[x] = "live" /\ ~Publishes(prop', x)
                        /\ \A j \in Io \ {i} : ~Private(cmd[j], snap[j], x)
      BY <2>6 DEF KeysSafe, Private
    <3>1. CASE x = k
      BY <3>1, <1>4, <2>2, <2>3
    <3>2. CASE x # k
      <4>1. Private(c, snap[i], x)
        BY <3>2, <2>5, <2>7 DEF Private
      <4> QED BY <3>2, <4>1, <1>4, <1>13, <2>3, OthersKeys
    <3> QED BY <3>1, <3>2
  <2>12. snap[i] # Absent => Rewinds(d.log, prop', vault', snap[i])
    <3> SUFFICES ASSUME snap[i] # Absent PROVE Rewinds(c.log \o t, prop, vault', snap[i])
      BY <1>4, <1>5, <1>9
    <3>1. Rewinds(c.log, prop, vault, snap[i])
      BY <1>4, <2>1 DEF RewindOK, Committing
    <3>2. PropsBlock(c.log, t, prop, prop)
      BY <1>8 DEF PropsBlock
    <3>3. VaultBlock(c.log, t, vault, vault')
      BY <1>2, <1>8, <2>3, <2>6, <2>7 DEF VaultBlock
    <3> QED BY <1>1, <1>8, <3>1, <3>2, <3>3, RewindBlock
  <2>13. FinalOn(d, prop') /\ \A j \in Io \ {i} : FinalOn(cmd[j], prop')
    BY <1>4, <1>5, <2>1 DEF FinalOK, FinalOn
  <2>14. \A j \in Io \ {i} : \A x \in KeyId :
          /\ Private(cmd[j], snap[j], x) => vault'[x] = "live" /\ ~Publishes(prop', x)
          /\ Owns(cmd[j].log, x) => vault'[x] = "disabled"
    BY <1>4, <1>13, <2>2, <2>3, OthersKeys
  <2>15. d.pc # "walk"
    BY <1>6
  <2>16. HandlerSafe(i, d)
    BY <1>4, <1>5, <2>1, <2>4, <2>9, <2>10, <2>11, <2>12, <2>13, <2>14, <2>15
      DEF HandlerSafe
  <2> QED BY <1>1, <1>3, <1>4, <1>13, <2>16, HandlerMove
<1> QED BY <1>3, <1>6, <1>11, <1>12, <1>13, TaskKept

\* UnwrapKey deletes its own key and discards the log.
LEMMA RollUnwrap ==
    ASSUME Base, NEW i \in Io, UnwrapDone(i)
    PROVE  Kept /\ (PartitionOK => PartitionOK')
<1> DEFINE c == cmd[i]
           k == c.staged[1]
           d == [c EXCEPT !.pc = "outbound", !.log = <<>>]
<1>1. /\ c \in Command /\ cmd \in [Io -> Command] /\ Control(c) /\ LogAt(c)
      /\ TypeInv /\ AloneOK /\ RestOK /\ c.log \in Seq(Entry) /\ c.staged \in Seq(KeyId)
  BY BaseTask
<1>2. c.pc = "mask" /\ Len(c.staged) = 1 /\ Staging(c) /\ prop' = prop /\ Handling(i)
  BY <1>1 DEF UnwrapDone, Control, Staging, Handling, history
<1>3. CASE vault[k] = "free"
  <2>1. cmd' = [cmd EXCEPT ![i] = Failed(c)] /\ vault' = vault
    BY <1>3 DEF UnwrapDone
  <2> QED BY <2>1, <1>2, FailMove
<1>4. CASE vault[k] # "free"
  <2>1. cmd' = [cmd EXCEPT ![i] = d]
    <3>1. cmd' = [cmd EXCEPT ![i].pc = "outbound", ![i].log = <<>>]
      BY <1>4 DEF UnwrapDone
    <3> QED BY <1>1, <3>1
  <2>2. vault' = [vault EXCEPT ![k] = "free"]
    BY <1>4 DEF UnwrapDone
  <2>3. d.pc = "outbound" /\ d.log = <<>> /\ d.poisoned = c.poisoned
    BY <1>1 DEF Command
  <2>4. /\ KeysOnly(c.log) /\ Len(c.log) = 1 /\ k \in KeyId /\ 1 \in 1 .. Len(c.log)
        /\ c.log[1] = VaultCreate(k)
    BY <1>2, StagedLog
  <2> HIDE DEF d, k
  <2>5. LogAt(d)
    BY <2>3, LateLog, EmptyHolds
  <2>6. cmd[i].pc # "idle" /\ snap' = snap
    BY <1>2 DEF Handling
  <2>7. ASSUME PartitionOK PROVE PartitionOK'
    <3>1. PhaseOK(prop) /\ KeysLive(prop, vault) /\ FinalOK /\ RewindOK /\ ~c.poisoned
      BY <1>2, <2>7, Phased DEF Handling, Undoing, PartitionOK, NoPoison
    <3>2. /\ Creates(c.log, k) /\ vault[k] = "live" /\ ~Publishes(prop, k)
          /\ \A j \in Io \ {i} : ~Private(cmd[j], snap[j], k)
          /\ \A j \in Io : ~Owns(cmd[j].log, k)
      BY <1>2, <2>4, <2>7, StagedKey DEF k
    <3>3. vault'[k] = "free" /\ \A x \in KeyId : x # k => vault'[x] = vault[x]
      BY <1>1, <2>2, <2>4 DEF RestOK
    <3>4. KeysLive(prop', vault')
      <4>1. \A q \in KeyProp : prop[q] # Absent => prop[q] \in KeyId
        BY <1>1, PropValues DEF RestOK
      <4> QED BY <1>2, <3>1, <3>2, <3>3, <4>1 DEF KeysLive, Publishes
    <3>5. ~Staging(d) /\ ~Holder(d, snap'[i]) /\ \A x \in KeyId : ~Owns(d.log, x)
      BY <2>3, EmptyHolds DEF Staging, Holder, Undoing
    <3>6. OwnsOnce(d.log) /\ KeysSafe(i, d)
      BY <2>7, <3>5, QuietKeys
    <3>7. snap[i] # Absent => Rewinds(d.log, prop', vault', snap[i])
      <4> SUFFICES ASSUME snap[i] # Absent PROVE Rewinds(<<>>, prop, vault', snap[i])
        BY <1>2, <2>3
      <4>1. Rewinds(c.log, prop, vault, snap[i])
        BY <1>2, <3>1 DEF RewindOK, Committing
      <4>2. \A x \in KeyId : Creates(c.log, x) => x = k
        <5>1. \A x : VaultCreate(x) = VaultCreate(k) => x = k
          BY DEF VaultCreate
        <5> QED BY <2>4, <5>1 DEF Creates
      <4> QED BY <2>4, <3>2, <3>3, <4>1, <4>2, RewindDiscard
    <3>8. FinalOn(d, prop') /\ \A j \in Io \ {i} : FinalOn(cmd[j], prop')
      BY <1>2, <2>3, <3>1 DEF FinalOK, FinalOn
    <3>9. \A j \in Io \ {i} : \A x \in KeyId :
            /\ Private(cmd[j], snap[j], x) => vault'[x] = "live" /\ ~Publishes(prop', x)
            /\ Owns(cmd[j].log, x) => vault'[x] = "disabled"
      BY <1>2, <2>7, <3>2, <3>3, OthersKeys
    <3>10. HandlerSafe(i, d)
      BY <1>2, <2>3, <3>1, <3>4, <3>5, <3>6, <3>7, <3>8, <3>9 DEF HandlerSafe
    <3> QED BY <1>1, <1>2, <2>1, <2>7, <3>10, HandlerMove
  <2> QED BY <2>1, <2>3, <2>5, <2>6, <2>7, TaskKept
<1> QED BY <1>3, <1>4

-----------------------------------------------------------------------------
(* The commit blocks of PartInit and PartFinal.  In a phase every setter    *)
(* after the guard succeeds.                                                *)

\* The names of the properties.
LEMMA PropIds ==
    /\ PartKeyProp = {"PTA_KEY_ID", "UPS_KEY_ID", "LOCAL_MK_KEY_ID", "EPHEMERAL_MK_KEY_ID"}
    /\ KeyProp = PartKeyProp \cup {"SD_MK_KEY_ID"}
    /\ KeyProp \subseteq PropId /\ "STATE" \in PropId
    /\ "POLICY_HASH" \in PropId /\ "SD_INITIALIZED" \in PropId
BY DEF PartKeyProp, KeyProp, PropId, FlagProp

\* PartInit commits only from the Enabled phase, so its blind pre-images are right.
LEMMA RollCommitInit ==
    ASSUME Base, NEW i \in Io, CommitInit(i)
    PROVE  Kept /\ (PartitionOK => PartitionOK')
<1> DEFINE c == cmd[i]
           ups == prop["UPS_KEY_ID"] = Absent
           policy == ups /\ prop["POLICY_HASH"] = Absent
           legal == policy /\ prop["STATE"] \in {"Enabled", "Initializing"}
           t == InitInverses
           l == c.log \o t
           f == [c EXCEPT !.log = l]
<1>1. /\ c \in Command /\ cmd \in [Io -> Command] /\ Control(c) /\ LogAt(c)
      /\ TypeInv /\ AloneOK /\ RestOK /\ c.log \in Seq(Entry) /\ c.staged \in Seq(KeyId)
  BY BaseTask
<1>2. /\ c.pc = "commit" /\ Len(c.staged) = 2 /\ Staging(c) /\ Handling(i)
      /\ vault' = vault
  BY <1>1 DEF CommitInit, Control, StagedKeys, Staging, Handling, history
<1>3. cmd[i].pc # "idle" /\ snap' = snap /\ snap'[i] = snap[i]
  BY <1>2 DEF Handling
<1>4. CASE prop["PTA_KEY_ID"] # Absent
  <2>1. Respond(i, FALSE, c) /\ prop' = prop
    BY <1>4 DEF CommitInit, AlreadyProvisioned
  <2>2. PICK d : /\ cmd' = [cmd EXCEPT ![i] = d]
                 /\ d.pc = "outbound" /\ d.log = c.log
                 /\ d.poisoned => c.poisoned
    BY <1>1, <2>1, RespondMove
  <2>3. LogAt(d)
    BY <1>1, <2>2, LateLog DEF LogAt
  <2>4. ASSUME PartitionOK PROVE PartitionOK'
    <3>1. LocalMove(i, d)
      BY <1>2, <2>1, <2>2, <2>4 DEF LocalMove, Staging, FinalOn, PartitionOK, NoPoison
    <3> QED BY <1>1, <1>2, <2>2, <2>4, <3>1, LocalStep
  <2> QED BY <1>3, <2>2, <2>3, <2>4, TaskKept
<1>5. CASE prop["PTA_KEY_ID"] = Absent
  <2>1. Respond(i, legal, f)
    BY <1>5, Zenon DEF CommitInit, AlreadyProvisioned
  <2>2. f \in Command /\ f.log = l /\ f.poisoned = c.poisoned
    <3>1. l \in Seq(Entry)
      BY <1>1, InverseTypes
    <3> HIDE DEF l
    <3> QED BY <1>1, <3>1 DEF Command
  <2>3. PICK d : /\ cmd' = [cmd EXCEPT ![i] = d]
                 /\ d.pc = "outbound" /\ d.log = l
                 /\ d.poisoned => c.poisoned
    <3> HIDE DEF f, l, legal
    <3> QED BY <2>1, <2>2, RespondMove
  <2>4. /\ t \in Seq(Entry) /\ Layered(t) /\ CreatesOnce(t) /\ OwnsOnce(t)
        /\ \A n \in 1 .. Len(t) : \A q : Restores(t[n], q) =>
              q \in InitProps /\ t[n].val = IF q = "STATE" THEN "Enabled" ELSE Absent
        /\ \A q : Has(t, q) <=> q \in InitProps
        /\ \A k : ~Creates(t, k) /\ ~Owns(t, k)
    BY InitBlock, Zenon
  <2>5. prop' = [prop EXCEPT
                    !["PTA_KEY_ID"]  = c.staged[2],
                    !["UPS_KEY_ID"]  = IF ups THEN c.staged[1] ELSE @,
                    !["POLICY_HASH"] = IF policy THEN Present ELSE @,
                    !["STATE"]       = IF legal THEN "Initializing" ELSE @]
    BY <1>5 DEF CommitInit, AlreadyProvisioned
  <2>6. /\ KeysOnly(c.log) /\ Len(c.log) = 2
    BY <1>2, StagedLog
  <2> HIDE DEF t, f
  <2>7. LogAt(d)
    <3>1. Layered(l)
      BY <1>1, <2>4, <2>6, KeysOnlyHolds, LayeredConcat
    <3> HIDE DEF l
    <3> QED BY <2>3, <3>1, LateLog
  <2>8. ASSUME PartitionOK PROVE PartitionOK'
    <3>1. PhaseOK(prop) /\ KeysLive(prop, vault) /\ FinalOK /\ RewindOK /\ ~c.poisoned
      BY <1>2, <2>8, Phased DEF Handling, Undoing, PartitionOK, NoPoison
    <3>2. /\ prop["STATE"] = "Enabled" /\ prop["POLICY_HASH"] = Absent
          /\ \A q \in PartKeyProp : prop[q] = Absent
      BY <1>5, <3>1, PropIds DEF PhaseOK
    <3>3. ups /\ policy /\ legal
      BY <3>2, PropIds
    <3> DEFINE a == c.staged[2]
               b == c.staged[1]
    <3>4. /\ a \in KeyId /\ a # Absent /\ vault[a] = "live" /\ ~Publishes(prop, a)
          /\ b \in KeyId /\ b # Absent /\ vault[b] = "live" /\ ~Publishes(prop, b)
          /\ a # b
          /\ \A j \in Io \ {i} : ~Private(cmd[j], snap[j], a) /\ ~Private(cmd[j], snap[j], b)
      <4>1. 1 \in 1 .. Len(c.log) /\ 2 \in 1 .. Len(c.log)
        BY <2>6
      <4>2. /\ a \in KeyId /\ a # Absent /\ vault[a] = "live" /\ ~Publishes(prop, a)
            /\ \A j \in Io \ {i} : ~Private(cmd[j], snap[j], a)
            /\ \A m \in 1 .. Len(c.log) : c.staged[m] = a => m = 2
        BY <1>2, <2>8, <4>1, StagedKey
      <4>3. /\ b \in KeyId /\ b # Absent /\ vault[b] = "live" /\ ~Publishes(prop, b)
            /\ \A j \in Io \ {i} : ~Private(cmd[j], snap[j], b)
        BY <1>2, <2>8, <4>1, StagedKey
      <4>4. a # b
        BY <4>1, <4>2
      <4> QED BY <4>2, <4>3, <4>4
    <3>5. /\ prop'["PTA_KEY_ID"] = a /\ prop'["UPS_KEY_ID"] = b
          /\ prop'["POLICY_HASH"] = Present /\ prop'["STATE"] = "Initializing"
          /\ \A q \in PropId : q \notin InitProps => prop'[q] = prop[q]
      <4>1. prop' = [prop EXCEPT
                       !["PTA_KEY_ID"]  = a,
                       !["UPS_KEY_ID"]  = b,
                       !["POLICY_HASH"] = Present,
                       !["STATE"]       = "Initializing"]
        BY <2>5, <3>3
      <4> HIDE DEF a, b
      <4> QED BY <1>1, <4>1 DEF RestOK, InitProps, PropId, KeyProp, FlagProp
    <3> HIDE DEF a, b, ups, policy, legal
    <3>6. /\ prop'["LOCAL_MK_KEY_ID"] = Absent /\ prop'["EPHEMERAL_MK_KEY_ID"] = Absent
          /\ prop'["SD_MK_KEY_ID"] = prop["SD_MK_KEY_ID"]
          /\ prop'["SD_INITIALIZED"] = prop["SD_INITIALIZED"]
      BY <3>2, <3>5, PropIds DEF InitProps
    <3>7. prop["SD_MK_KEY_ID"] # a /\ prop["SD_MK_KEY_ID"] # b
      BY <3>4, PropIds DEF Publishes
    <3>8. PhaseOK(prop')
      BY <3>1, <3>4, <3>5, <3>6, <3>7, PropIds DEF PhaseOK
    <3>9. KeysLive(prop', vault')
      BY <1>2, <3>1, <3>4, <3>5, <3>6, PropIds DEF KeysLive
    <3>10. \A k \in KeyId : Publishes(prop', k) => k = a \/ k = b \/ Publishes(prop, k)
      BY <3>5, <3>6, PropIds, ConstantsOK DEF Publishes
    <3>11. \A j \in Io \ {i} : \A k \in KeyId :
            /\ Private(cmd[j], snap[j], k) => vault'[k] = "live" /\ ~Publishes(prop', k)
            /\ Owns(cmd[j].log, k) => vault'[k] = "disabled"
      BY <1>2, <2>8, <3>4, <3>10, OthersKeys
    <3>12. \A k \in KeyId : ~Owns(d.log, k)
      BY <1>1, <2>3, <2>4, <2>6, ConcatHolds, KeysOnlyHolds
    <3>13. ~Staging(d) /\ ~Holder(d, snap'[i])
      BY <2>3 DEF Staging, Holder, Undoing
    <3>14. OwnsOnce(d.log) /\ KeysSafe(i, d)
      BY <2>8, <3>12, <3>13, QuietKeys
    <3>15. snap[i] # Absent => Rewinds(d.log, prop', vault', snap[i])
      <4> SUFFICES ASSUME snap[i] # Absent PROVE Rewinds(c.log \o t, prop', vault, snap[i])
        BY <1>2, <2>3
      <4>1. Rewinds(c.log, prop, vault, snap[i])
        BY <1>2, <3>1 DEF RewindOK, Committing
      <4>2. \A q : ~Has(c.log, q)
        BY <2>6, KeysOnlyHolds
      <4>3. \A q \in InitProps : prop[q] = IF q = "STATE" THEN "Enabled" ELSE Absent
        BY <3>2, PropIds DEF InitProps
      <4>4. PropsBlock(c.log, t, prop, prop')
        BY <2>4, <3>5, <4>2, <4>3 DEF PropsBlock
      <4>5. VaultBlock(c.log, t, vault, vault)
        BY <2>4 DEF VaultBlock
      <4> QED BY <1>1, <2>4, <4>1, <4>4, <4>5, RewindBlock
    <3>16. FinalOn(d, prop') /\ \A j \in Io \ {i} : FinalOn(cmd[j], prop')
      BY <2>3, <3>1, <3>2 DEF FinalOK, FinalOn
    <3>17. HandlerSafe(i, d)
      BY <2>3, <3>1, <3>6, <3>8, <3>9, <3>11, <3>13, <3>14, <3>15, <3>16 DEF HandlerSafe
    <3> QED BY <1>1, <1>2, <2>3, <2>8, <3>17, HandlerMove
  <2> QED BY <1>3, <2>3, <2>7, <2>8, TaskKept
<1> QED BY <1>4, <1>5

\* Soft-deletions recorded on top of key creations.
LEMMA OwnsOnceConcat ==
    ASSUME NEW s \in Seq(Entry), NEW t \in Seq(Entry), KeysOnly(s), OwnsOnce(t)
    PROVE  OwnsOnce(s \o t)
<1> DEFINE l == s \o t
<1>1. /\ Len(l) = Len(s) + Len(t) /\ Len(s) \in Nat /\ Len(t) \in Nat
      /\ \A n \in 1 .. Len(l) : l[n] = IF n <= Len(s) THEN s[n] ELSE t[n - Len(s)]
  BY Concat, Zenon
<1> HIDE DEF l
<1> SUFFICES ASSUME NEW k \in KeyId, NEW x \in 1 .. Len(l), NEW y \in 1 .. Len(l),
                    l[x] = VaultDisable(k), l[y] = VaultDisable(k)
             PROVE  x = y
  BY DEF OwnsOnce, l
<1>2. \A n \in 1 .. Len(s) : s[n] # VaultDisable(k)
  BY DEF KeysOnly, VaultDisable
<1>3. /\ x - Len(s) \in 1 .. Len(t) /\ t[x - Len(s)] = VaultDisable(k)
      /\ y - Len(s) \in 1 .. Len(t) /\ t[y - Len(s)] = VaultDisable(k)
  BY <1>1, <1>2
<1>4. x - Len(s) = y - Len(s)
  BY <1>3, Zenon DEF OwnsOnce
<1> QED BY <1>1, <1>4

\* PartFinal commits only from the Initializing phase.
LEMMA RollCommitFinal ==
    ASSUME Base, NEW i \in Io, CommitFinal(i)
    PROVE  Kept /\ (PartitionOK => PartitionOK')
<1> DEFINE c == cmd[i]
           u == c.ums
           disabled == vault[u] = "live"
           t == FinalInverses(u)
           l == c.log \o t
           f == [c EXCEPT !.log = l]
<1>1. /\ c \in Command /\ cmd \in [Io -> Command] /\ Control(c) /\ LogAt(c)
      /\ TypeInv /\ AloneOK /\ RestOK /\ c.log \in Seq(Entry) /\ c.staged \in Seq(KeyId)
  BY BaseTask
<1>2. /\ c.pc = "commit" /\ c.op = "PartFinal" /\ Len(c.staged) = 3 /\ Staging(c)
      /\ Handling(i) /\ u \in KeyId
  BY <1>1 DEF CommitFinal, Control, StagedKeys, Staging, Handling, history
<1>3. cmd[i].pc # "idle" /\ snap' = snap /\ snap'[i] = snap[i]
  BY <1>2 DEF Handling
<1>4. CASE prop["STATE"] # "Initializing"
  <2>1. Respond(i, FALSE, c) /\ prop' = prop /\ vault' = vault
    BY <1>4 DEF CommitFinal
  <2>2. PICK d : /\ cmd' = [cmd EXCEPT ![i] = d]
                 /\ d.pc = "outbound" /\ d.log = c.log
                 /\ d.poisoned => c.poisoned
    BY <1>1, <2>1, RespondMove
  <2>3. LogAt(d)
    BY <1>1, <2>2, LateLog DEF LogAt
  <2>4. ASSUME PartitionOK PROVE PartitionOK'
    <3>1. LocalMove(i, d)
      BY <1>2, <2>1, <2>2, <2>4 DEF LocalMove, Staging, FinalOn, PartitionOK, NoPoison
    <3> QED BY <1>1, <1>2, <2>2, <2>4, <3>1, LocalStep
  <2> QED BY <1>3, <2>2, <2>3, <2>4, TaskKept
<1>5. CASE prop["STATE"] = "Initializing"
  <2>1. Respond(i, disabled, f)
    BY <1>5, Zenon DEF CommitFinal
  <2>2. f \in Command /\ f.log = l /\ f.poisoned = c.poisoned
    <3>1. l \in Seq(Entry)
      BY <1>1, <1>2, InverseTypes
    <3> HIDE DEF l
    <3> QED BY <1>1, <3>1 DEF Command
  <2>3. PICK d : /\ cmd' = [cmd EXCEPT ![i] = d]
                 /\ d.pc = "outbound" /\ d.log = l
                 /\ d.poisoned => c.poisoned
    <3> HIDE DEF f, l, disabled
    <3> QED BY <2>1, <2>2, RespondMove
  <2>4. /\ t \in Seq(Entry) /\ Layered(t) /\ CreatesOnce(t) /\ OwnsOnce(t)
        /\ \A n \in 1 .. Len(t) : \A q : Restores(t[n], q) =>
              /\ q \in FinalProps
              /\ t[n].val = IF q = "STATE" THEN "Initializing"
                            ELSE IF q = "UPS_KEY_ID" THEN u ELSE Absent
        /\ \A q : Has(t, q) <=> q \in FinalProps
        /\ \A k : ~Creates(t, k)
        /\ \A k : Owns(t, k) <=> k = u
    BY <1>2, FinalBlock, Zenon
  <2>5. prop' = [prop EXCEPT
                    !["LOCAL_MK_KEY_ID"]     = c.staged[1],
                    !["EPHEMERAL_MK_KEY_ID"] = c.staged[2],
                    !["UPS_KEY_ID"]          = c.staged[3],
                    !["STATE"] = IF disabled THEN "Initialized" ELSE @]
    BY <1>5 DEF CommitFinal
  <2>6. vault' = IF disabled THEN [vault EXCEPT ![u] = "disabled"] ELSE vault
    BY <1>5 DEF CommitFinal
  <2>7. KeysOnly(c.log) /\ Len(c.log) = 3
    BY <1>2, StagedLog
  <2> HIDE DEF t, f, u
  <2>8. LogAt(d)
    <3>1. Layered(l)
      BY <1>1, <2>4, <2>7, KeysOnlyHolds, LayeredConcat
    <3> HIDE DEF l
    <3> QED BY <2>3, <3>1, LateLog
  <2>9. ASSUME PartitionOK PROVE PartitionOK'
    <3>1. PhaseOK(prop) /\ KeysLive(prop, vault) /\ FinalOK /\ RewindOK /\ ~c.poisoned
      BY <1>2, <2>9, Phased DEF Handling, Undoing, PartitionOK, NoPoison
    <3>2. /\ prop["POLICY_HASH"] = Present
          /\ prop["PTA_KEY_ID"] # Absent /\ prop["UPS_KEY_ID"] # Absent
          /\ prop["LOCAL_MK_KEY_ID"] = Absent /\ prop["EPHEMERAL_MK_KEY_ID"] = Absent
      BY <1>5, <3>1 DEF PhaseOK
    <3>3. prop["UPS_KEY_ID"] = u /\ vault[u] = "live" /\ disabled
      <4>1. prop["UPS_KEY_ID"] = u
        BY <1>2, <1>5, <3>1 DEF FinalOK, FinalOn, u
      <4>2. vault[u] = "live"
        BY <4>1, <3>1, <3>2, PropIds DEF KeysLive
      <4> QED BY <4>1, <4>2
    <3> DEFINE a == c.staged[1]
               b == c.staged[2]
               e == c.staged[3]
               New(k) == /\ k \in KeyId /\ k # Absent /\ vault[k] = "live"
                         /\ ~Publishes(prop, k)
                         /\ \A j \in Io \ {i} : ~Private(cmd[j], snap[j], k)
    <3>4. New(a) /\ New(b) /\ New(e) /\ a # b /\ a # e /\ b # e
      <4>1. 1 \in 1 .. Len(c.log) /\ 2 \in 1 .. Len(c.log) /\ 3 \in 1 .. Len(c.log)
        BY <2>7
      <4>2. New(a)
        BY <1>2, <2>9, <4>1, StagedKey
      <4>3. New(b) /\ \A m \in 1 .. Len(c.log) : c.staged[m] = b => m = 2
        BY <1>2, <2>9, <4>1, StagedKey
      <4>4. New(e) /\ \A m \in 1 .. Len(c.log) : c.staged[m] = e => m = 3
        BY <1>2, <2>9, <4>1, StagedKey
      <4>5. a # b /\ a # e /\ b # e
        BY <4>1, <4>3, <4>4
      <4> QED BY <4>2, <4>3, <4>4, <4>5
    <3>5. /\ prop'["LOCAL_MK_KEY_ID"] = a /\ prop'["EPHEMERAL_MK_KEY_ID"] = b
          /\ prop'["UPS_KEY_ID"] = e /\ prop'["STATE"] = "Initialized"
          /\ \A q \in PropId : q \notin FinalProps => prop'[q] = prop[q]
      <4>1. prop' = [prop EXCEPT
                       !["LOCAL_MK_KEY_ID"]     = a,
                       !["EPHEMERAL_MK_KEY_ID"] = b,
                       !["UPS_KEY_ID"]          = e,
                       !["STATE"]               = "Initialized"]
        BY <2>5, <3>3
      <4> HIDE DEF a, b, e
      <4> QED BY <1>1, <4>1 DEF RestOK, FinalProps, PropId, KeyProp, FlagProp
    <3>6. vault'[u] = "disabled" /\ \A k \in KeyId : k # u => vault'[k] = vault[k]
      BY <1>1, <1>2, <2>6, <3>3 DEF RestOK
    <3> HIDE DEF a, b, e, disabled
    <3>7. /\ prop'["PTA_KEY_ID"] = prop["PTA_KEY_ID"]
          /\ prop'["SD_MK_KEY_ID"] = prop["SD_MK_KEY_ID"]
          /\ prop'["SD_INITIALIZED"] = prop["SD_INITIALIZED"]
          /\ prop'["POLICY_HASH"] = prop["POLICY_HASH"]
      BY <3>5, PropIds DEF FinalProps
    <3>8. \A k : New(k) => \A q \in KeyProp : prop[q] # k
      BY DEF Publishes
    <3>9. PhaseOK(prop')
      <4>1. /\ \A q \in PartKeyProp : prop'[q] # Absent
            /\ prop'["SD_INITIALIZED"] = Absent => prop'["SD_MK_KEY_ID"] = Absent
        BY <3>1, <3>2, <3>4, <3>5, <3>7, PropIds DEF PhaseOK
      <4>2. \A q, r \in KeyProp : prop'[q] # Absent /\ prop'[q] = prop'[r] => q = r
        <5>1. prop["PTA_KEY_ID"] # prop["SD_MK_KEY_ID"]
          BY <3>1, <3>2, PropIds DEF PhaseOK
        <5>2. /\ prop["PTA_KEY_ID"] \notin {a, b, e} /\ prop["SD_MK_KEY_ID"] \notin {a, b, e}
          BY <3>4, <3>8, PropIds
        <5> QED BY <3>4, <3>5, <3>7, <5>1, <5>2, PropIds
      <4> QED BY <3>2, <3>5, <3>7, <4>1, <4>2 DEF PhaseOK
    <3>10. KeysLive(prop', vault')
      <4>1. a # u /\ b # u /\ e # u
        BY <3>3, <3>4, <3>8, PropIds
      <4>2. prop["PTA_KEY_ID"] # u /\ prop["SD_MK_KEY_ID"] # u
        BY <3>1, <3>2, <3>3, PropIds DEF PhaseOK
      <4>3. /\ prop["PTA_KEY_ID"] \in KeyId \cup {Absent}
            /\ prop["SD_MK_KEY_ID"] \in KeyId \cup {Absent}
        BY <1>1, PropValues, PropIds DEF RestOK
      <4>4. \A k \in {a, b, e} : vault'[k] = "live"
        BY <3>4, <3>6, <4>1
      <4>5. \A q \in {"PTA_KEY_ID", "SD_MK_KEY_ID"} : prop[q] # Absent => vault'[prop[q]] = "live"
        BY <3>1, <3>6, <4>2, <4>3, PropIds DEF KeysLive
      <4> QED BY <3>5, <3>7, <4>4, <4>5, PropIds DEF KeysLive
    <3>11. \A k \in KeyId : Publishes(prop', k) => k \in {a, b, e} \/ Publishes(prop, k)
      BY <3>5, <3>7, PropIds, ConstantsOK DEF Publishes
    <3>12. Publishes(prop, u)
      BY <3>3, PropIds DEF Publishes
    <3>13. \A j \in Io \ {i} : \A k \in KeyId :
            /\ Private(cmd[j], snap[j], k) => vault'[k] = "live" /\ ~Publishes(prop', k)
            /\ Owns(cmd[j].log, k) => vault'[k] = "disabled"
      <4> TAKE j \in Io \ {i}
      <4> TAKE k \in KeyId
      <4>1. Private(cmd[j], snap[j], k) =>
              vault[k] = "live" /\ ~Publishes(prop, k) /\ k # u /\ k \notin {a, b, e}
        BY <2>9, <3>4, <3>12, OthersKeys
      <4>2. Owns(cmd[j].log, k) => vault[k] = "disabled" /\ k # u
        BY <2>9, <3>3, OthersKeys
      <4> QED BY <3>6, <3>11, <4>1, <4>2
    <3>14. \A k : Owns(d.log, k) <=> k = u
      BY <1>1, <2>3, <2>4, <2>7, ConcatHolds, KeysOnlyHolds
    <3>15. ~Staging(d) /\ ~Holder(d, snap'[i])
      BY <2>3 DEF Staging, Holder, Undoing
    <3>16. KeysSafe(i, d)
      <4>1. \A j \in Io \ {i} : ~Owns(cmd[j].log, u)
        BY <1>2, <2>9, <3>3, OthersKeys
      <4> QED BY <3>6, <3>14, <3>15, <4>1 DEF KeysSafe, Private
    <3>17. OwnsOnce(d.log)
      BY <1>1, <2>3, <2>4, <2>7, OwnsOnceConcat
    <3>18. snap[i] # Absent => Rewinds(d.log, prop', vault', snap[i])
      <4> SUFFICES ASSUME snap[i] # Absent PROVE Rewinds(c.log \o t, prop', vault', snap[i])
        BY <2>3
      <4>1. Rewinds(c.log, prop, vault, snap[i])
        BY <1>2, <3>1 DEF RewindOK, Committing
      <4>2. (\A q : ~Has(c.log, q)) /\ (\A k : ~Owns(c.log, k))
        BY <2>7, KeysOnlyHolds
      <4>3. \A q \in FinalProps : prop[q] = IF q = "STATE" THEN "Initializing"
                                            ELSE IF q = "UPS_KEY_ID" THEN u ELSE Absent
        BY <1>5, <3>2, <3>3 DEF FinalProps
      <4>4. PropsBlock(c.log, t, prop, prop')
        BY <2>4, <3>5, <4>2, <4>3 DEF PropsBlock
      <4>5. ~Creates(c.log, u)
        <5>1. ~Private(c, snap[i], u)
          BY <1>2, <2>9, <3>12, OthersKeys
        <5> QED BY <1>2, <5>1 DEF Private, Holder
      <4>6. VaultBlock(c.log, t, vault, vault')
        BY <2>4, <3>3, <3>6, <4>2, <4>5 DEF VaultBlock
      <4> QED BY <1>1, <2>4, <4>1, <4>4, <4>6, RewindBlock
    <3>19. FinalOn(d, prop') /\ \A j \in Io \ {i} : FinalOn(cmd[j], prop')
      BY <2>3, <3>5 DEF FinalOn
    <3>20. HandlerSafe(i, d)
      BY <2>3, <3>1, <3>7, <3>9, <3>10, <3>13, <3>15, <3>16, <3>17, <3>18, <3>19
        DEF HandlerSafe
    <3> QED BY <1>1, <1>2, <2>3, <2>9, <3>20, HandlerMove
  <2> QED BY <1>3, <2>3, <2>8, <2>9, TaskKept
<1> QED BY <1>4, <1>5
-----------------------------------------------------------------------------
(* The security-domain claim and its key. *)

\* The one-shot SD claim, before its key exists.
LEMMA RollClaimSd ==
    ASSUME Base, NEW i \in Io, ClaimSd(i)
    PROVE  Kept /\ (PartitionOK => PartitionOK')
<1> DEFINE c == cmd[i]
           e == PropRestore("SD_INITIALIZED", Absent)
           d == [c EXCEPT !.pc = "vaultSd", !.log = Append(c.log, e)]
           t == <<e>>
<1>1. /\ c \in Command /\ cmd \in [Io -> Command] /\ Control(c) /\ LogAt(c)
      /\ TypeInv /\ AloneOK /\ RestOK
  BY BaseTask
<1>2. vault' = vault /\ Handling(i) /\ c.pc = "claim"
  BY DEF ClaimSd, Handling, history
<1>3. CASE SdClaimed
  <2>1. cmd' = [cmd EXCEPT ![i] = Failed(c)] /\ prop' = prop
    BY <1>3 DEF ClaimSd
  <2> QED BY <1>2, <2>1, FailMove
<1>4. CASE ~SdClaimed
  <2>1. cmd' = [cmd EXCEPT ![i] = d] /\ prop' = [prop EXCEPT !["SD_INITIALIZED"] = Present]
    BY <1>4, <1>1 DEF ClaimSd
  <2>2. prop["SD_INITIALIZED"] = Absent
    BY <1>4 DEF SdClaimed
  <2>3. /\ t \in Seq(Entry) /\ Layered(t) /\ CreatesOnce(t) /\ OwnsOnce(t)
        /\ \A n \in 1 .. Len(t) : \A q : Restores(t[n], q) <=> q = "SD_INITIALIZED"
        /\ \A n \in 1 .. Len(t) : t[n].val = Absent
        /\ \A q : Has(t, q) <=> q = "SD_INITIALIZED"
        /\ \A k : ~Creates(t, k) /\ ~Owns(t, k)
    <3>1. "SD_INITIALIZED" \in PropId /\ Absent \in PropValue("SD_INITIALIZED")
      BY PropValues DEF FlagProp
    <3> QED BY <3>1, OneRestore, Zenon
  <2>4. c.log = <<>>
    BY <1>1, <1>2 DEF LogAt
  <2>5. d.pc = "vaultSd" /\ d.log = t /\ d.poisoned = c.poisoned
    <3>1. Append(<<>>, e) = t
      OBVIOUS
    <3> HIDE DEF e, t
    <3> QED BY <1>1, <2>4, <3>1 DEF Command
  <2>6. LogAt(d)
    <3>1. d.log = <<PropRestore("SD_INITIALIZED", Absent)>>
      BY <2>5
    <3> HIDE DEF d, t
    <3> QED BY <2>3, <2>5, <3>1 DEF LogAt, Staging
  <2> HIDE DEF d, t, e
  <2>7. cmd[i].pc # "idle" /\ snap' = snap
    BY <1>2 DEF Handling
  <2>8. ASSUME PartitionOK PROVE PartitionOK'
    <3>1. PhaseOK(prop) /\ KeysLive(prop, vault) /\ FinalOK /\ RewindOK /\ ~c.poisoned
      BY <1>2, <2>8, Phased DEF Handling, Undoing, PartitionOK, NoPoison
    <3>2. /\ prop'["SD_INITIALIZED"] = Present
          /\ \A q \in PropId : q # "SD_INITIALIZED" => prop'[q] = prop[q]
      BY <1>1, <2>1, PropIds DEF RestOK
    <3>3. /\ \A q \in KeyProp : prop'[q] = prop[q]
          /\ prop'["STATE"] = prop["STATE"] /\ prop'["POLICY_HASH"] = prop["POLICY_HASH"]
      BY <3>2, PropIds
    <3>4. PhaseOK(prop') /\ KeysLive(prop', vault')
      <4>1. PhaseOK(prop')
        BY <3>1, <3>2, <3>3, PropIds, ConstantsOK DEF PhaseOK
      <4> QED BY <1>2, <3>1, <3>3, <4>1 DEF KeysLive
    <3>5. ~Staging(d) /\ ~Holder(d, snap'[i])
      BY <2>5 DEF Staging, Holder, Undoing
    <3>6. OwnsOnce(d.log) /\ KeysSafe(i, d)
      BY <2>3, <2>5, <2>8, <3>5, QuietKeys
    <3>7. snap[i] # Absent => Rewinds(d.log, prop', vault', snap[i])
      <4> SUFFICES ASSUME snap[i] # Absent PROVE Rewinds(t, prop', vault, snap[i])
        BY <1>2, <2>5
      <4>1. Rewinds(<<>>, prop, vault, snap[i])
        BY <1>2, <2>4, <3>1 DEF RewindOK, Committing
      <4>2. PropsBlock(<<>>, t, prop, prop')
        BY <2>2, <2>3, <3>2, EmptyHolds DEF PropsBlock
      <4>3. VaultBlock(<<>>, t, vault, vault)
        BY <2>3 DEF VaultBlock
      <4>4. <<>> \in Seq(Entry) /\ <<>> \o t = t
        BY <2>3
      <4>5. Rewinds(<<>> \o t, prop', vault, snap[i])
        BY <2>3, <4>1, <4>2, <4>3, <4>4, RewindBlock
      <4> QED BY <4>4, <4>5
    <3>8. FinalOn(d, prop') /\ \A j \in Io \ {i} : FinalOn(cmd[j], prop')
      <4>1. prop'["UPS_KEY_ID"] = prop["UPS_KEY_ID"]
        BY <3>3, PropIds
      <4> QED BY <2>5, <3>1, <3>3, <4>1 DEF FinalOK, FinalOn
    <3>9. \A j \in Io \ {i} : \A k \in KeyId :
            /\ Private(cmd[j], snap[j], k) => vault'[k] = "live" /\ ~Publishes(prop', k)
            /\ Owns(cmd[j].log, k) => vault'[k] = "disabled"
      <4>1. \A k : Publishes(prop', k) <=> Publishes(prop, k)
        BY <3>3 DEF Publishes
      <4> QED BY <1>2, <2>8, <4>1, OthersKeys
    <3>10. prop'["SD_MK_KEY_ID"] = prop["SD_MK_KEY_ID"] /\ d.pc # "walk" /\ ~d.poisoned
      BY <2>5, <3>1, <3>3, PropIds
    <3>11. HandlerSafe(i, d)
      BY <3>4, <3>5, <3>6, <3>7, <3>8, <3>9, <3>10 DEF HandlerSafe
    <3> QED BY <1>1, <1>2, <2>1, <2>8, <3>11, HandlerMove
  <2> QED BY <2>1, <2>5, <2>6, <2>7, <2>8, TaskKept
<1> QED BY <1>3, <1>4

\* The SD masking key, published after the await.
LEMMA RollVaultSd ==
    ASSUME Base, NEW i \in Io, VaultSd(i)
    PROVE  Kept /\ (PartitionOK => PartitionOK')
<1> DEFINE c == cmd[i]
           k == FreeSlot
           t == SdInverses(k)
           l == c.log \o t
           f == [c EXCEPT !.staged = Append(c.staged, k), !.log = l]
           e == PropRestore("SD_INITIALIZED", Absent)
<1>1. /\ c \in Command /\ cmd \in [Io -> Command] /\ Control(c) /\ LogAt(c)
      /\ TypeInv /\ AloneOK /\ RestOK /\ c.log \in Seq(Entry) /\ c.staged \in Seq(KeyId)
  BY BaseTask
<1>2. k \in KeyId /\ vault[k] = "free"
  BY FreeSlotType DEF VaultSd
<1>3. /\ Handling(i) /\ c.pc = "vaultSd" /\ Respond(i, TRUE, f)
      /\ vault' = [vault EXCEPT ![k] = "live"] /\ prop' = [prop EXCEPT !["SD_MK_KEY_ID"] = k]
  BY Zenon DEF VaultSd, Handling, history, CanRun
<1>4. f \in Command /\ f.log = l /\ f.poisoned = c.poisoned
  <2>1. l \in Seq(Entry) /\ Append(c.staged, k) \in Seq(KeyId)
    BY <1>1, <1>2, InverseTypes
  <2> HIDE DEF l
  <2> QED BY <1>1, <2>1 DEF Command
<1>5. PICK d : /\ cmd' = [cmd EXCEPT ![i] = d]
               /\ d.pc = "outbound" /\ d.log = l
               /\ d.poisoned => c.poisoned
  <2> DEFINE ok == TRUE
  <2>1. Respond(i, ok, f)
    BY <1>3
  <2> HIDE DEF f, l, ok
  <2> QED BY <1>4, <2>1, RespondMove
<1>6. /\ t \in Seq(Entry) /\ Layered(t) /\ CreatesOnce(t) /\ OwnsOnce(t)
      /\ \A n \in 1 .. Len(t) : \A q : Restores(t[n], q) =>
            q = "SD_MK_KEY_ID" /\ t[n].val = Absent
      /\ \A q : Has(t, q) <=> q = "SD_MK_KEY_ID"
      /\ \A x : Creates(t, x) <=> x = k
      /\ \A x : ~Owns(t, x)
  BY <1>2, SdBlock, Zenon
<1>7. c.log = <<e>>
  BY <1>1, <1>3 DEF LogAt
<1>8. /\ \A q : Has(c.log, q) <=> q = "SD_INITIALIZED"
      /\ \A x : ~Creates(c.log, x) /\ ~Owns(c.log, x)
      /\ \A n \in 1 .. Len(c.log) : c.log[n] = e
      /\ 1 \in 1 .. Len(c.log)
  <2>1. "SD_INITIALIZED" \in PropId /\ Absent \in PropValue("SD_INITIALIZED")
    BY PropValues DEF FlagProp
  <2>2. /\ \A q : Has(<<e>>, q) <=> q = "SD_INITIALIZED"
        /\ \A x : ~Creates(<<e>>, x) /\ ~Owns(<<e>>, x)
    BY <2>1, OneRestore, Zenon
  <2>3. Len(<<e>>) = 1 /\ <<e>>[1] = e
    OBVIOUS
  <2> HIDE DEF e
  <2> QED BY <1>7, <2>2, <2>3
<1>9. TailOnly(c.log)
  BY <1>8 DEF TailOnly, TailEntry
<1> HIDE DEF t, f, k
<1>10. LogAt(d)
  <2>1. Layered(l)
    BY <1>1, <1>6, <1>9, LayeredConcat
  <2> HIDE DEF l
  <2> QED BY <1>5, <2>1, LateLog
<1>11. cmd[i].pc # "idle" /\ snap' = snap /\ snap'[i] = snap[i]
  BY <1>3 DEF Handling
<1>12. ASSUME PartitionOK PROVE PartitionOK'
  <2>1. PhaseOK(prop) /\ KeysLive(prop, vault) /\ FinalOK /\ RewindOK /\ ~c.poisoned
    BY <1>3, <1>12, Phased DEF Handling, Undoing, PartitionOK, NoPoison
  <2>2. /\ ~Publishes(prop, k)
        /\ \A j \in Io : ~Private(cmd[j], snap[j], k) /\ ~Owns(cmd[j].log, k)
    BY <1>2, <1>12, FreeKey
  <2>3. vault'[k] = "live" /\ \A x \in KeyId : x # k => vault'[x] = vault[x]
    BY <1>1, <1>2, <1>3 DEF RestOK
  <2>4. /\ prop'["SD_MK_KEY_ID"] = k
        /\ \A q \in PropId : q # "SD_MK_KEY_ID" => prop'[q] = prop[q]
    BY <1>1, <1>3, PropIds DEF RestOK
  <2>5. /\ \A q \in PartKeyProp : prop'[q] = prop[q]
        /\ prop'["STATE"] = prop["STATE"] /\ prop'["POLICY_HASH"] = prop["POLICY_HASH"]
        /\ prop'["SD_INITIALIZED"] = prop["SD_INITIALIZED"]
    BY <2>4, PropIds
  <2>6. /\ \A p \in Marker : \A a, b \in Io : Has(cmd[a].log, p) /\ Has(cmd[b].log, p) => a = b
        /\ \A p \in Marker : \A a \in Io : Has(cmd[a].log, p) => prop[p] # Absent
    BY DEF Base, ClaimsInductive, ClaimInv, OneHolder
  <2>7. prop["SD_INITIALIZED"] # Absent /\ SdIdle(i)
    <3>1. "SD_INITIALIZED" \in Marker /\ Has(c.log, "SD_INITIALIZED")
      BY <1>8 DEF Marker
    <3> QED BY <2>6, <3>1 DEF SdIdle
  <2>8. \A q \in KeyProp : prop[q] # k
    BY <2>2 DEF Publishes
  <2>9. PhaseOK(prop')
    <3>1. \A q, r \in KeyProp : prop'[q] # Absent /\ prop'[q] = prop'[r] => q = r
      <4>1. \A q, r \in PartKeyProp : prop[q] # Absent /\ prop[q] = prop[r] => q = r
        BY <2>1, PropIds, Zenon DEF PhaseOK
      <4> QED BY <2>4, <2>5, <2>8, <4>1, PropIds
    <3>2. \/ /\ prop'["STATE"] = "Enabled" /\ prop'["POLICY_HASH"] = Absent
             /\ \A q \in PartKeyProp : prop'[q] = Absent
          \/ /\ prop'["STATE"] = "Initializing" /\ prop'["POLICY_HASH"] = Present
             /\ prop'["PTA_KEY_ID"] # Absent /\ prop'["UPS_KEY_ID"] # Absent
             /\ prop'["LOCAL_MK_KEY_ID"] = Absent /\ prop'["EPHEMERAL_MK_KEY_ID"] = Absent
          \/ /\ prop'["STATE"] = "Initialized" /\ prop'["POLICY_HASH"] = Present
             /\ \A q \in PartKeyProp : prop'[q] # Absent
      BY <2>1, <2>5, PropIds DEF PhaseOK
    <3> QED BY <2>5, <2>7, <3>1, <3>2 DEF PhaseOK
  <2>10. KeysLive(prop', vault')
    <3>1. \A q \in PartKeyProp : prop[q] # Absent => prop[q] \in KeyId
      BY <1>1, PropValues, PropIds DEF RestOK
    <3>2. \A q \in PartKeyProp : prop'[q] # Absent => vault'[prop'[q]] = "live"
      BY <2>1, <2>3, <2>5, <2>8, <3>1, PropIds DEF KeysLive
    <3> QED BY <2>3, <2>4, <3>2, PropIds DEF KeysLive
  <2>11. \A x : Publishes(prop', x) => x = k \/ Publishes(prop, x)
    BY <2>4, <2>5, PropIds DEF Publishes
  <2>12. \A j \in Io \ {i} : \A x \in KeyId :
          /\ Private(cmd[j], snap[j], x) => vault'[x] = "live" /\ ~Publishes(prop', x)
          /\ Owns(cmd[j].log, x) => vault'[x] = "disabled"
    BY <1>12, <2>2, <2>3, <2>11, OthersKeys
  <2>13. \A x \in KeyId : ~Owns(d.log, x)
    BY <1>1, <1>5, <1>6, <1>8, ConcatHolds
  <2>14. ~Staging(d) /\ ~Holder(d, snap'[i])
    BY <1>5 DEF Staging, Holder, Undoing
  <2>15. OwnsOnce(d.log) /\ KeysSafe(i, d)
    BY <1>12, <2>13, <2>14, QuietKeys
  <2>16. snap[i] # Absent => Rewinds(d.log, prop', vault', snap[i])
    <3> SUFFICES ASSUME snap[i] # Absent PROVE Rewinds(c.log \o t, prop', vault', snap[i])
      BY <1>5
    <3>1. Rewinds(c.log, prop, vault, snap[i])
      BY <1>3, <2>1 DEF RewindOK, Committing
    <3>2. prop["SD_MK_KEY_ID"] = Absent
      <4>1. PICK sp, sv : Snapshot(snap[i], sp, sv) /\ RewindsProps(c.log, prop, sp)
        BY <3>1 DEF Rewinds
      <4>2. Restores(c.log[1], "SD_INITIALIZED") /\ c.log[1].val = Absent
        BY <1>8 DEF Restores, PropRestore
      <4>3. sp["SD_INITIALIZED"] = Absent
        BY <1>8, <4>1, <4>2, PropIds DEF RewindsProps
      <4>4. sp["SD_MK_KEY_ID"] = Absent
        BY <4>1, <4>3 DEF Snapshot, PhaseOK
      <4>5. prop["SD_MK_KEY_ID"] = sp["SD_MK_KEY_ID"]
        BY <1>8, <4>1, PropIds DEF RewindsProps
      <4> QED BY <4>4, <4>5
    <3>3. PropsBlock(c.log, t, prop, prop')
      BY <1>6, <1>8, <2>4, <3>2 DEF PropsBlock
    <3>4. VaultBlock(c.log, t, vault, vault')
      BY <1>2, <1>6, <1>8, <2>3 DEF VaultBlock
    <3> QED BY <1>1, <1>6, <3>1, <3>3, <3>4, RewindBlock
  <2>17. FinalOn(d, prop') /\ \A j \in Io \ {i} : FinalOn(cmd[j], prop')
    <3>1. prop'["UPS_KEY_ID"] = prop["UPS_KEY_ID"]
      BY <2>5, PropIds
    <3> QED BY <1>5, <2>1, <2>5, <3>1 DEF FinalOK, FinalOn
  <2>18. HandlerSafe(i, d)
    BY <1>5, <2>1, <2>7, <2>9, <2>10, <2>12, <2>14, <2>15, <2>16, <2>17 DEF HandlerSafe
  <2> QED BY <1>1, <1>3, <1>5, <1>12, <2>18, HandlerMove
<1> QED BY <1>5, <1>10, <1>11, <1>12, TaskKept

-----------------------------------------------------------------------------
(* Popping the top entry of a log. *)

\* The three kinds of log entry.
LEMMA EntryKinds ==
    ASSUME NEW e \in Entry
    PROVE  /\ e.kind \in {"VaultCreate", "VaultDisable", "PropRestore"}
           /\ e.kind = "VaultCreate" => e.id \in KeyId /\ e = VaultCreate(e.id)
           /\ e.kind = "VaultDisable" => e.id \in KeyId /\ e = VaultDisable(e.id)
           /\ e.kind = "PropRestore" => /\ e.id \in PropId /\ e.val \in PropValue(e.id)
                                        /\ \A q : Restores(e, q) <=> q = e.id
           /\ e.kind # "PropRestore" => \A q : ~Restores(e, q)
BY DEF Entry, VaultCreate, VaultDisable, Restores

\* What a log records, in terms of its last entry and the rest.
LEMMA PopHolds ==
    ASSUME NEW l \in Seq(Entry), l # <<>>
    PROVE  LET e == l[Len(l)]
               r == SubSeq(l, 1, Len(l) - 1)
           IN /\ \A q : Has(l, q) <=> Has(r, q) \/ Restores(e, q)
              /\ \A k : Creates(l, k) <=> Creates(r, k) \/ e = VaultCreate(k)
              /\ \A k : Owns(l, k) <=> Owns(r, k) \/ e = VaultDisable(k)
              /\ CreatesOnce(l) => /\ CreatesOnce(r)
                                   /\ \A k \in KeyId : e = VaultCreate(k) => ~Creates(r, k)
              /\ OwnsOnce(l) => /\ OwnsOnce(r)
                                /\ \A k \in KeyId : e = VaultDisable(k) => ~Owns(r, k)
              /\ TailOnly(l) => TailOnly(r) /\ TailEntry(e)
              /\ Layered(l) => \A q \in KeyProp : Restores(e, q) => ~Owns(r, e.val)
<1> DEFINE n == Len(l)
           e == l[n]
           r == SubSeq(l, 1, n - 1)
<1>1. /\ n \in Nat \ {0} /\ n \in 1 .. n /\ Len(r) = n - 1
      /\ \A m \in 1 .. n - 1 : r[m] = l[m]
  BY PopLog, Zenon
<1> HIDE DEF r
<1>2. \A m \in 1 .. n : m \in 1 .. n - 1 \/ m = n
  BY <1>1
<1>3. \A m \in 1 .. Len(r) : m \in 1 .. n - 1 /\ m \in 1 .. n /\ m # n /\ r[m] = l[m]
  BY <1>1
<1>4. \A m \in 1 .. n - 1 : m \in 1 .. Len(r)
  BY <1>1
<1>5. \A q : Has(l, q) <=> Has(r, q) \/ Restores(e, q)
  BY <1>1, <1>2, <1>3, <1>4 DEF Has
<1>6. \A k : Creates(l, k) <=> Creates(r, k) \/ e = VaultCreate(k)
  BY <1>1, <1>2, <1>3, <1>4 DEF Creates
<1>7. \A k : Owns(l, k) <=> Owns(r, k) \/ e = VaultDisable(k)
  BY <1>1, <1>2, <1>3, <1>4 DEF Owns
<1>8. CreatesOnce(l) => /\ CreatesOnce(r)
                        /\ \A k \in KeyId : e = VaultCreate(k) => ~Creates(r, k)
  <2> SUFFICES ASSUME CreatesOnce(l)
               PROVE  /\ CreatesOnce(r)
                      /\ \A k \in KeyId : e = VaultCreate(k) => ~Creates(r, k)
    OBVIOUS
  <2>1. \A k \in KeyId : \A a, b \in 1 .. n : l[a] = VaultCreate(k) /\ l[b] = VaultCreate(k) => a = b
    BY DEF CreatesOnce
  <2>2. CreatesOnce(r)
    BY <1>3, <2>1 DEF CreatesOnce
  <2>3. \A k \in KeyId : e = VaultCreate(k) => ~Creates(r, k)
    BY <1>1, <1>3, <2>1 DEF Creates
  <2> QED BY <2>2, <2>3
<1>9. OwnsOnce(l) => /\ OwnsOnce(r)
                     /\ \A k \in KeyId : e = VaultDisable(k) => ~Owns(r, k)
  <2> SUFFICES ASSUME OwnsOnce(l)
               PROVE  /\ OwnsOnce(r)
                      /\ \A k \in KeyId : e = VaultDisable(k) => ~Owns(r, k)
    OBVIOUS
  <2>1. \A k \in KeyId : \A a, b \in 1 .. n : l[a] = VaultDisable(k) /\ l[b] = VaultDisable(k) => a = b
    BY DEF OwnsOnce
  <2>2. OwnsOnce(r)
    BY <1>3, <2>1 DEF OwnsOnce
  <2>3. \A k \in KeyId : e = VaultDisable(k) => ~Owns(r, k)
    BY <1>1, <1>3, <2>1 DEF Owns
  <2> QED BY <2>2, <2>3
<1>10. TailOnly(l) => TailOnly(r) /\ TailEntry(e)
  BY <1>1, <1>3 DEF TailOnly
<1>11. Layered(l) => \A q \in KeyProp : Restores(e, q) => ~Owns(r, e.val)
  BY <1>1, <1>3 DEF Layered, IdsBelow, Owns
<1> QED BY <1>5, <1>6, <1>7, <1>8, <1>9, <1>10, <1>11 DEF r

\* What the walk does to the partition for the entry `e`, when it succeeds.
Undone(e, p, p2, v, v2) ==
    /\ \A q \in PropId : p2[q] = IF Restores(e, q) THEN e.val ELSE p[q]
    /\ \A k \in KeyId : v2[k] = IF e = VaultCreate(k) THEN "free"
                                ELSE IF e = VaultDisable(k) THEN "live" ELSE v[k]

\* Undoing the last entry leaves a log that still rewinds to the snapshot.
LEMMA RewindPop ==
    ASSUME NEW l \in Seq(Entry), l # <<>>, NEW p, NEW p2, NEW v, NEW v2, NEW s,
           Rewinds(l, p, v, s), Undone(l[Len(l)], p, p2, v, v2)
    PROVE  Rewinds(SubSeq(l, 1, Len(l) - 1), p2, v2, s)
<1> DEFINE e == l[Len(l)]
           r == SubSeq(l, 1, Len(l) - 1)
<1>1. /\ \A q : Has(l, q) <=> Has(r, q) \/ Restores(e, q)
      /\ \A k : Creates(l, k) <=> Creates(r, k) \/ e = VaultCreate(k)
      /\ \A k : Owns(l, k) <=> Owns(r, k) \/ e = VaultDisable(k)
      /\ CreatesOnce(l) => /\ CreatesOnce(r)
                           /\ \A k \in KeyId : e = VaultCreate(k) => ~Creates(r, k)
  BY PopHolds
<1>2. Len(l) \in 1 .. Len(l) /\ \A m \in 1 .. Len(r) : m \in 1 .. Len(l) /\ r[m] = l[m]
  <2>1. /\ Len(l) \in Nat \ {0} /\ Len(r) = Len(l) - 1
        /\ \A m \in 1 .. Len(l) - 1 : r[m] = l[m]
    BY PopLog, Zenon
  <2> HIDE DEF r
  <2> QED BY <2>1
<1>3. PICK sp, sv : Snapshot(s, sp, sv) /\ RewindsProps(l, p, sp) /\ RewindsVault(l, v, sv)
  BY DEF Rewinds
<1>4. CreatesOnce(r) /\ \A k \in KeyId : e = VaultCreate(k) => ~Creates(r, k)
  BY <1>1 DEF Rewinds
<1>5. Undone(e, p, p2, v, v2)
  OBVIOUS
<1>6. \A q \in PropId : Restores(e, q) => e.val = sp[q]
  BY <1>2, <1>3 DEF RewindsProps
<1> HIDE DEF r, e
<1>7. RewindsProps(r, p2, sp)
  <2> SUFFICES ASSUME NEW q \in PropId
               PROVE  /\ \A m \in 1 .. Len(r) : Restores(r[m], q) => r[m].val = sp[q]
                      /\ ~Has(r, q) => p2[q] = sp[q]
    BY DEF RewindsProps
  <2>1. /\ \A m \in 1 .. Len(l) : Restores(l[m], q) => l[m].val = sp[q]
        /\ ~Has(l, q) => p[q] = sp[q]
    BY <1>3 DEF RewindsProps
  <2>2. \A m \in 1 .. Len(r) : Restores(r[m], q) => r[m].val = sp[q]
    BY <1>2, <2>1
  <2>3. ~Has(r, q) => p2[q] = sp[q]
    BY <1>1, <1>5, <1>6, <2>1 DEF Undone
  <2> QED BY <2>2, <2>3
<1>8. RewindsVault(r, v2, sv)
  <2> SUFFICES ASSUME NEW k \in KeyId
               PROVE  /\ Creates(r, k) => sv[k] = "free" /\ v2[k] = "live"
                      /\ Owns(r, k) => sv[k] = "live"
                      /\ ~Creates(r, k) /\ ~Owns(r, k) => v2[k] = sv[k]
    BY DEF RewindsVault
  <2>1. /\ Creates(l, k) => sv[k] = "free" /\ v[k] = "live"
        /\ Owns(l, k) => sv[k] = "live"
        /\ ~Creates(l, k) /\ ~Owns(l, k) => v[k] = sv[k]
    BY <1>3 DEF RewindsVault
  <2> QED BY <1>1, <1>4, <1>5, <2>1 DEF Undone
<1> QED BY <1>3, <1>4, <1>7, <1>8, Zenon DEF Rewinds, r

\* Once its properties are restored, a lone walk is back in a phase, and the
\* keys it still has to delete are published nowhere.
LEMMA TailPhase ==
    ASSUME NEW l, NEW p, NEW v, NEW s, Rewinds(l, p, v, s), TailOnly(l)
    PROVE  /\ PhaseOK(p)
           /\ Has(l, "SD_INITIALIZED") => p["SD_MK_KEY_ID"] = Absent
           /\ \A k \in KeyId : Creates(l, k) => v[k] = "live" /\ ~Publishes(p, k)
<1>1. PICK sp, sv : Snapshot(s, sp, sv) /\ RewindsProps(l, p, sp) /\ RewindsVault(l, v, sv)
  BY DEF Rewinds
<1>2. PhaseOK(sp) /\ KeysLive(sp, sv)
  BY <1>1 DEF Snapshot
<1>3. \A q \in PropId : q # "SD_INITIALIZED" => p[q] = sp[q]
  BY <1>1, TailOnlyHolds DEF RewindsProps
<1>4. Has(l, "SD_INITIALIZED") => sp["SD_INITIALIZED"] = Absent
  <2> SUFFICES ASSUME NEW n \in 1 .. Len(l), Restores(l[n], "SD_INITIALIZED")
               PROVE  sp["SD_INITIALIZED"] = Absent
    BY DEF Has
  <2>1. l[n].val = Absent
    BY DEF TailOnly, TailEntry, Restores, PropRestore
  <2> QED BY <1>1, <2>1, PropIds DEF RewindsProps
<1>5. \/ p["SD_INITIALIZED"] = sp["SD_INITIALIZED"]
      \/ Has(l, "SD_INITIALIZED") /\ sp["SD_MK_KEY_ID"] = Absent
  BY <1>1, <1>2, <1>4, PropIds DEF RewindsProps, PhaseOK
<1>6. /\ \A q \in KeyProp : p[q] = sp[q]
      /\ p["STATE"] = sp["STATE"] /\ p["POLICY_HASH"] = sp["POLICY_HASH"]
  BY <1>3, PropIds
<1>7. PhaseOK(p)
  <2>1. p["SD_INITIALIZED"] = Absent => p["SD_MK_KEY_ID"] = Absent
    BY <1>2, <1>5, <1>6, PropIds DEF PhaseOK
  <2> QED BY <1>2, <1>6, <2>1, PropIds DEF PhaseOK
<1>8. Has(l, "SD_INITIALIZED") => p["SD_MK_KEY_ID"] = Absent
  BY <1>2, <1>4, <1>6, PropIds DEF PhaseOK
<1>9. ASSUME NEW k \in KeyId, Creates(l, k) PROVE v[k] = "live" /\ ~Publishes(p, k)
  <2>1. sv[k] = "free" /\ v[k] = "live"
    BY <1>1, <1>9 DEF RewindsVault
  <2>2. \A q \in KeyProp : sp[q] # k
    BY <1>2, <2>1, ConstantsOK DEF KeysLive
  <2> QED BY <1>6, <2>1, <2>2 DEF Publishes
<1> QED BY <1>7, <1>8, <1>9

\* The STATE a lone walk restores is one that serves, and a key id it
\* publishes again names a live key.
LEMMA RestoredValue ==
    ASSUME NEW l \in Seq(Entry), l # <<>>, Layered(l), NEW p, NEW v, NEW s,
           Rewinds(l, p, v, s), NEW q \in PropId, Restores(l[Len(l)], q)
    PROVE  LET w == l[Len(l)].val IN
           /\ q = "STATE" => w \in {"Enabled", "Initializing", "Initialized"}
           /\ q \in KeyProp /\ w \in KeyId => v[w] = "live"
<1> DEFINE e == l[Len(l)]
           w == e.val
<1>1. PICK sp, sv : Snapshot(s, sp, sv) /\ RewindsProps(l, p, sp) /\ RewindsVault(l, v, sv)
  BY DEF Rewinds
<1>2. PhaseOK(sp) /\ KeysLive(sp, sv)
  BY <1>1 DEF Snapshot
<1>3. w = sp[q]
  <2>1. Len(l) \in 1 .. Len(l)
    BY PopLog
  <2> QED BY <1>1, <2>1 DEF RewindsProps
<1>4. q = "STATE" => w \in {"Enabled", "Initializing", "Initialized"}
  BY <1>2, <1>3 DEF PhaseOK
<1>5. ASSUME q \in KeyProp, w \in KeyId PROVE v[w] = "live"
  <2>1. sv[w] = "live"
    BY <1>2, <1>3, <1>5, ConstantsOK DEF KeysLive
  <2>2. ~Owns(l, w)
    <3>1. ~Owns(SubSeq(l, 1, Len(l) - 1), w)
      BY <1>5, PopHolds
    <3>2. e # VaultDisable(w)
      BY DEF Restores, VaultDisable
    <3> QED BY <3>1, <3>2, PopHolds
  <2>3. ~Creates(l, w)
    BY <1>1, <1>5, <2>1 DEF RewindsVault
  <2> QED BY <1>1, <1>5, <2>1, <2>2, <2>3 DEF RewindsVault
<1> QED BY <1>4, <1>5

-----------------------------------------------------------------------------
(* The walk. *)

\* A walk that starts or goes on while a lone command's task runs: no other
\* task has a snapshot, so its tail does not depend on the executor.
LEMMA OthersTail ==
    ASSUME AloneOK, PartitionOK, NEW i \in Io, cmd[i].pc # "idle",
           prop'["SD_MK_KEY_ID"] \in {prop["SD_MK_KEY_ID"], Absent}
    PROVE  \A j \in Io \ {i} : snap[j] = Absent /\ TailOn(cmd[j], snap[j], prop', turn')
<1> TAKE j \in Io \ {i}
<1>1. snap[j] = Absent
  BY DEF AloneOK
<1>2. TailOn(cmd[j], snap[j], prop, turn)
  BY DEF PartitionOK, TailOK
<1> QED BY <1>1, <1>2 DEF TailOn

\* The completion decides between the two walks.
LEMMA RollComplete ==
    ASSUME Base, NEW i \in Io, NEW posted \in BOOLEAN, Complete(i, posted)
    PROVE  Kept /\ (PartitionOK /\ ~tainted' => PartitionOK')
<1> DEFINE c == cmd[i]
           commit == c.handlerOk /\ posted
           d == [IdleCommand EXCEPT !.pc = "walk", !.log = c.log, !.commit = commit]
<1>1. /\ c \in Command /\ cmd \in [Io -> Command] /\ LogAt(c)
      /\ TypeInv /\ AloneOK /\ RestOK /\ c.log \in Seq(Entry)
  BY BaseTask
<1>2. cmd' = [cmd EXCEPT ![i] = d]
  BY Zenon DEF Complete
<1>3. /\ c.pc = "complete" /\ CanRun(i) /\ prop' = prop /\ vault' = vault /\ snap' = snap
  BY DEF Complete, part
<1>4. d.pc = "walk" /\ d.log = c.log /\ ~d.poisoned /\ d.commit = commit
  BY DEF IdleCommand
<1>5. ~tainted' => commit \/ c.log = <<>> \/ snap[i] # Absent
  BY Zenon DEF Complete
<1>6. turn' = IF c.log = <<>> \/ ~Yields(c.log[IF commit THEN 1 ELSE Len(c.log)], commit)
              THEN i ELSE NoIo
  BY Zenon DEF Complete
<1>7. turn' = NoIo /\ ~commit => c.log # <<>> /\ c.log[Len(c.log)].kind = "VaultCreate"
  BY <1>6, ConstantsOK DEF Yields
<1> HIDE DEF d, commit
<1>8. LogAt(d)
  BY <1>1, <1>4, LateLog DEF LogAt
<1>9. ASSUME PartitionOK, ~tainted' PROVE PartitionOK'
  <2>1. PhaseOK(prop) /\ KeysLive(prop, vault) /\ FinalOK /\ RewindOK /\ DisabledOK
    BY <1>3, <1>9, Phased DEF Undoing, PartitionOK
  <2>2. PartSafe
    BY <1>3, <2>1, PhaseServes DEF PartSafe, PhaseInv
  <2>3. OthersSafe(i)
    <3>1. \A j \in Io \ {i} : TailOn(cmd[j], snap[j], prop', turn')
      <4>1. cmd[i].pc # "idle" /\ prop'["SD_MK_KEY_ID"] \in {prop["SD_MK_KEY_ID"], Absent}
        BY <1>3
      <4> QED BY <1>1, <1>9, <4>1, OthersTail, Zenon
    <3>2. \A j \in Io \ {i} : FinalOn(cmd[j], prop')
      BY <1>3, <2>1 DEF FinalOK
    <3> QED BY <1>3, <1>9, <3>1, <3>2, OthersKeys DEF OthersSafe
  <2>4. Undoing(d) /\ snap[i] = Absent => c.log = <<>>
    BY <1>4, <1>5, <1>9 DEF Undoing
  <2>5. TailOn(d, snap[i], prop, turn')
    <3>1. Undoing(d) /\ snap[i] = Absent => TailOnly(d.log) /\ ~Has(d.log, "SD_INITIALIZED")
      BY <1>4, <2>4, EmptyHolds
    <3>2. Undoing(d) /\ turn' = NoIo => TailOnly(d.log)
      BY <1>1, <1>4, <1>7, TopKey DEF Undoing, LogAt
    <3> QED BY <3>1, <3>2 DEF TailOn
  <2>6. \A k \in KeyId : ~Private(d, snap[i], k)
    BY <1>4, <2>4, EmptyHolds DEF Private, Holder, Staging
  <2>7. KeysSafe(i, d)
    BY <1>3, <1>4, <1>9, <2>6, OthersKeys DEF KeysSafe
  <2>8. Holder(d, snap[i]) => CreatesOnce(d.log)
    BY <1>4, <2>4, EmptyHolds DEF Holder, Staging
  <2>9. OwnsOnce(d.log)
    BY <1>4, <2>1 DEF DisabledOK
  <2>10. snap[i] # Absent => Rewinds(d.log, prop', vault', snap[i])
    BY <1>3, <1>4, <2>1 DEF RewindOK, Committing
  <2>11. FinalOn(d, prop')
    BY <1>4 DEF FinalOn
  <2>12. TaskSafe(i, d)
    BY <1>3, <1>4, <2>5, <2>7, <2>8, <2>9, <2>10, <2>11 DEF TaskSafe
  <2> QED BY <1>1, <1>2, <1>3, <1>9, <2>2, <2>3, <2>12, TaskMove
<1> QED BY <1>1, <1>2, <1>3, <1>4, <1>8, <1>9, TaskKept

\* What a log owns, in terms of its first entry and the rest.
LEMMA TailHolds ==
    ASSUME NEW l \in Seq(Entry), l # <<>>
    PROVE  /\ Head(l) \in Entry
           /\ \A k : Owns(l, k) <=> Owns(Tail(l), k) \/ Head(l) = VaultDisable(k)
           /\ OwnsOnce(l) =>
                /\ OwnsOnce(Tail(l))
                /\ \A k \in KeyId : Head(l) = VaultDisable(k) => ~Owns(Tail(l), k)
<1> DEFINE e == Head(l)
           r == Tail(l)
           n == Len(l)
<1>1. /\ n \in Nat \ {0} /\ e = l[1] /\ e \in Entry /\ Len(r) = n - 1
      /\ \A m \in 1 .. n - 1 : r[m] = l[m + 1]
  BY TailLog, Zenon
<1> HIDE DEF e, r, n
<1>2. \A m \in 1 .. Len(r) : m + 1 \in 1 .. n /\ m + 1 # 1 /\ r[m] = l[m + 1]
  BY <1>1
<1>3. 1 \in 1 .. n /\ \A m \in 1 .. n : m = 1 \/ (m - 1 \in 1 .. Len(r) /\ l[m] = r[m - 1])
  BY <1>1
<1>4. \A k : Owns(l, k) <=> Owns(r, k) \/ e = VaultDisable(k)
  BY <1>1, <1>2, <1>3 DEF Owns, n
<1>5. ASSUME OwnsOnce(l)
      PROVE  OwnsOnce(r) /\ \A k \in KeyId : e = VaultDisable(k) => ~Owns(r, k)
  <2>1. \A k \in KeyId : \A a, b \in 1 .. n :
          l[a] = VaultDisable(k) /\ l[b] = VaultDisable(k) => a = b
    BY <1>5 DEF OwnsOnce, n
  <2>2. OwnsOnce(r)
    <3> SUFFICES ASSUME NEW k \in KeyId, NEW a \in 1 .. Len(r), NEW b \in 1 .. Len(r),
                        r[a] = VaultDisable(k), r[b] = VaultDisable(k)
                 PROVE  a = b
      BY DEF OwnsOnce
    <3>1. /\ a + 1 \in 1 .. n /\ l[a + 1] = VaultDisable(k)
          /\ b + 1 \in 1 .. n /\ l[b + 1] = VaultDisable(k)
      BY <1>2
    <3>2. a + 1 = b + 1
      BY <2>1, <3>1, Zenon
    <3> QED BY <1>1, <3>2
  <2>3. ASSUME NEW k \in KeyId, e = VaultDisable(k), Owns(r, k) PROVE FALSE
    <3>1. PICK m \in 1 .. Len(r) : r[m] = VaultDisable(k)
      BY <2>3 DEF Owns
    <3>2. m + 1 \in 1 .. n /\ l[m + 1] = VaultDisable(k) /\ l[1] = VaultDisable(k)
      BY <1>1, <1>2, <2>3, <3>1
    <3>3. m + 1 = 1
      BY <1>3, <2>1, <3>2, Zenon
    <3> QED BY <1>2, <3>3
  <2> QED BY <2>2, <2>3
<1> QED BY <1>1, <1>4, <1>5 DEF e, r

\* A commit walk deletes for good the keys its log owns.
LEMMA RollCommitEntry ==
    ASSUME Base, NEW i \in Io, CommitEntry(i)
    PROVE  Kept /\ (PartitionOK => PartitionOK')
<1> DEFINE c == cmd[i]
           e == Head(c.log)
           d == [c EXCEPT !.log = Tail(c.log)]
<1>1. /\ c \in Command /\ cmd \in [Io -> Command] /\ LogAt(c)
      /\ TypeInv /\ AloneOK /\ RestOK /\ c.log \in Seq(Entry)
  BY BaseTask
<1>2. /\ c.pc = "walk" /\ c.commit /\ c.log # <<>> /\ CanRun(i)
      /\ prop' = prop /\ snap' = snap
  BY DEF CommitEntry, history
<1>3. cmd' = [cmd EXCEPT ![i] = d]
  BY <1>1 DEF CommitEntry
<1>4. vault' = IF e.kind = "VaultDisable" THEN [vault EXCEPT ![e.id] = "free"] ELSE vault
  BY DEF CommitEntry
<1>5. /\ d.pc = "walk" /\ d.log = Tail(c.log) /\ d.poisoned = c.poisoned
      /\ d.commit = c.commit
  BY <1>1, <1>2 DEF Command
<1>6. /\ e \in Entry
      /\ \A k : Owns(c.log, k) <=> Owns(d.log, k) \/ e = VaultDisable(k)
      /\ OwnsOnce(c.log) => /\ OwnsOnce(d.log)
                            /\ \A k \in KeyId : e = VaultDisable(k) => ~Owns(d.log, k)
  BY <1>1, <1>2, <1>5, TailHolds
<1> HIDE DEF d, e
<1>7. LogAt(d)
  <2>1. Layered(d.log)
    BY <1>1, <1>2, <1>5, LayeredPop DEF LogAt
  <2> QED BY <1>5, <2>1, LateLog
<1>8. ASSUME PartitionOK PROVE PartitionOK'
  <2>1. /\ PhaseOK(prop) /\ KeysLive(prop, vault) /\ FinalOK /\ DisabledOK /\ ~c.poisoned
    BY <1>2, <1>8, Phased DEF Undoing, PartitionOK, NoPoison
  <2>2. OwnsOnce(c.log)
    BY <2>1 DEF DisabledOK
  <2>3. \A k \in KeyId : \/ e = VaultDisable(k) /\ vault[k] = "disabled"
                         \/ e # VaultDisable(k) /\ vault'[k] = vault[k]
    <3>1. e.kind = "VaultDisable" => e.id \in KeyId /\ e = VaultDisable(e.id)
      BY <1>6, EntryKinds
    <3>2. \A k \in KeyId : e = VaultDisable(k) => vault[k] = "disabled"
      BY <1>6, <1>8, OthersKeys
    <3>3. \A k \in KeyId : e # VaultDisable(k) => vault'[k] = vault[k]
      BY <1>1, <1>4, <3>1 DEF RestOK
    <3> QED BY <3>2, <3>3
  <2>4. KeysLive(prop', vault')
    <3>1. \A q \in KeyProp : prop[q] # Absent => prop[q] \in KeyId
      BY <1>1, PropValues DEF RestOK
    <3> QED BY <1>2, <2>1, <2>3, <3>1 DEF KeysLive
  <2>5. PartSafe
    BY <1>2, <2>1, <2>4, PhaseServes DEF PartSafe, PhaseInv
  <2>6. OthersSafe(i)
    <3>1. \A j \in Io \ {i} : TailOn(cmd[j], snap[j], prop', turn')
      BY <1>1, <1>2, <1>8, OthersTail
    <3>2. \A j \in Io \ {i} : FinalOn(cmd[j], prop')
      BY <1>2, <2>1 DEF FinalOK
    <3>3. \A j \in Io \ {i} : \A k \in KeyId :
            /\ Private(cmd[j], snap[j], k) => vault'[k] = "live" /\ ~Publishes(prop', k)
            /\ Owns(cmd[j].log, k) => vault'[k] = "disabled"
      BY <1>2, <1>6, <1>8, <2>3, OthersKeys
    <3> QED BY <3>1, <3>2, <3>3 DEF OthersSafe
  <2>7. ~Holder(d, snap'[i]) /\ ~Undoing(d) /\ Committing(d)
    BY <1>2, <1>5 DEF Holder, Undoing, Committing, Staging
  <2>8. KeysSafe(i, d)
    BY <1>6, <1>8, <2>2, <2>3, <2>7, OthersKeys DEF KeysSafe, Private
  <2>9. FinalOn(d, prop') /\ TailOn(d, snap'[i], prop', turn')
    BY <1>5, <2>7 DEF FinalOn, TailOn
  <2>10. TaskSafe(i, d)
    BY <1>5, <1>6, <2>1, <2>2, <2>7, <2>8, <2>9 DEF TaskSafe
  <2> QED BY <1>1, <1>2, <1>3, <1>8, <2>5, <2>6, <2>10, TaskMove
<1> QED BY <1>1, <1>2, <1>3, <1>5, <1>7, <1>8, TaskKept

\* Between two awaits a walk restores properties until a key is on top of the
\* log; then it only has keys and the SD claim left.
LEMMA UndoTurn ==
    ASSUME Base, NEW i \in Io, UndoEntry(i), turn' # i
    PROVE  TailOnly(SubSeq(cmd[i].log, 1, Len(cmd[i].log) - 1))
<1> DEFINE l == cmd[i].log
           n == Len(l)
           r == SubSeq(l, 1, n - 1)
           e == l[n]
<1>1. l \in Seq(Entry) /\ Layered(l) /\ l # <<>> /\ ~cmd[i].commit
  BY BaseTask DEF UndoEntry, LogAt
<1>2. turn' = NextTurn(i, e, n > 1, l[n - 1])
  BY Zenon DEF UndoEntry
<1>3. \/ e.kind = "VaultCreate"
      \/ n > 1 /\ l[n - 1].kind = "VaultCreate"
  BY <1>1, <1>2 DEF NextTurn, Yields
<1>4. CASE e.kind = "VaultCreate"
  <2>1. TailOnly(l)
    BY <1>1, <1>4, TopKey
  <2> QED BY <1>1, <2>1, PopHolds
<1>5. CASE n > 1 /\ l[n - 1].kind = "VaultCreate"
  <2>1. r \in Seq(Entry) /\ Layered(r)
    BY <1>1, LayeredPop
  <2>2. n \in Nat /\ Len(r) = n - 1 /\ \A m \in 1 .. n - 1 : r[m] = l[m]
    BY <1>1, PopLog, Zenon
  <2> HIDE DEF r
  <2>3. r # <<>> /\ r[Len(r)].kind = "VaultCreate"
    BY <1>5, <2>2, EmptyLog
  <2> QED BY <2>1, <2>3, TopKey DEF r
<1> QED BY <1>3, <1>4, <1>5

\* The entry that a walk undoes, in a partition that is in order: undoing it
\* succeeds, the key it deletes is the task's alone and published nowhere, and
\* the value it restores is a good one.
UndoSafe(i, e) ==
    /\ \A k \in KeyId : e = VaultCreate(k) =>
          /\ vault[k] = "live" /\ ~Publishes(prop, k)
          /\ \A j \in Io \ {i} : ~Private(cmd[j], snap[j], k)
    /\ \A q \in KeyProp : Restores(e, q) /\ e.val \in KeyId => vault[e.val] = "live"
    /\ Restores(e, "STATE") => e.val \in {"Enabled", "Initializing", "Initialized"}

\* Undoing a command that ran alone: no other task is there to see the way back.
LEMMA UndoLone ==
    ASSUME Base, PartitionOK, NEW i \in Io, UndoEntry(i), snap[i] # Absent
    PROVE  /\ UndoSafe(i, cmd[i].log[Len(cmd[i].log)])
           /\ \A j \in Io \ {i} : cmd[j].pc = "idle"
           /\ Rewinds(cmd[i].log, prop, vault, snap[i])
<1> DEFINE l == cmd[i].log
           e == l[Len(l)]
<1>1. l \in Seq(Entry) /\ Layered(l) /\ l # <<>> /\ ~cmd[i].commit /\ AloneOK
  BY BaseTask DEF UndoEntry, LogAt
<1>2. \A j \in Io \ {i} : cmd[j].pc = "idle"
  BY <1>1 DEF AloneOK
<1>3. Rewinds(l, prop, vault, snap[i])
  BY <1>1 DEF PartitionOK, RewindOK, Committing
<1>4. ASSUME NEW k \in KeyId, e = VaultCreate(k)
      PROVE  /\ vault[k] = "live" /\ ~Publishes(prop, k)
             /\ \A j \in Io \ {i} : ~Private(cmd[j], snap[j], k)
  <2>1. TailOnly(l)
    BY <1>1, <1>4, TopKey DEF VaultCreate
  <2>2. Creates(l, k)
    BY <1>1, <1>4, PopHolds
  <2>3. vault[k] = "live" /\ ~Publishes(prop, k)
    BY <1>3, <2>1, <2>2, TailPhase
  <2>4. \A j \in Io \ {i} : ~Private(cmd[j], snap[j], k)
    BY <1>2 DEF Private, Holder, Staging, Undoing
  <2> QED BY <2>3, <2>4
<1>5. \A q \in KeyProp : Restores(e, q) /\ e.val \in KeyId => vault[e.val] = "live"
  BY <1>1, <1>3, RestoredValue, PropIds
<1>6. Restores(e, "STATE") => e.val \in {"Enabled", "Initializing", "Initialized"}
  BY <1>1, <1>3, RestoredValue, PropIds
<1> QED BY <1>2, <1>3, <1>4, <1>5, <1>6 DEF UndoSafe

\* Undoing past the last property: the partition is in a phase again.
LEMMA UndoShared ==
    ASSUME Base, PartitionOK, NEW i \in Io, UndoEntry(i), snap[i] = Absent
    PROVE  /\ UndoSafe(i, cmd[i].log[Len(cmd[i].log)])
           /\ PhaseOK(prop) /\ TailOnly(cmd[i].log) /\ CreatesOnce(cmd[i].log)
           /\ \A k \in KeyId : Creates(cmd[i].log, k) => Private(cmd[i], snap[i], k)
           /\ Has(cmd[i].log, "SD_INITIALIZED") => prop["SD_MK_KEY_ID"] = Absent
<1> DEFINE l == cmd[i].log
           e == l[Len(l)]
<1>1. l \in Seq(Entry) /\ l # <<>> /\ Undoing(cmd[i]) /\ CanRun(i)
  BY BaseTask DEF UndoEntry, Undoing
<1>2. PhaseOK(prop)
  <2>1. \A j \in Io : ~Rewinding(j)
    BY <1>1, ConstantsOK DEF Rewinding, CanRun
  <2> QED BY <2>1 DEF PartitionOK, PhaseInv
<1>3. TailOnly(l) /\ (Has(l, "SD_INITIALIZED") => prop["SD_MK_KEY_ID"] = Absent)
  BY <1>1 DEF PartitionOK, TailOK, TailOn
<1>4. CreatesOnce(l) /\ \A k \in KeyId : Creates(l, k) => Private(cmd[i], snap[i], k)
  BY <1>1 DEF PartitionOK, OwnOK, Holder, Private
<1>5. TailEntry(e)
  BY <1>1, <1>3, PopHolds
<1>6. ASSUME NEW k \in KeyId, e = VaultCreate(k)
      PROVE  /\ vault[k] = "live" /\ ~Publishes(prop, k)
             /\ \A j \in Io \ {i} : ~Private(cmd[j], snap[j], k)
  <2>1. Private(cmd[i], snap[i], k)
    BY <1>1, <1>4, <1>6, PopHolds
  <2> QED BY <2>1, OthersKeys
<1>7. \A q : Restores(e, q) => q = "SD_INITIALIZED"
  BY <1>5 DEF TailEntry, Restores, PropRestore
<1>8. "SD_INITIALIZED" \notin KeyProp /\ "SD_INITIALIZED" # "STATE"
  BY DEF KeyProp
<1> QED BY <1>2, <1>3, <1>4, <1>6, <1>7, <1>8 DEF UndoSafe

\* An undo step restores one property or removes one key.
LEMMA RollUndo ==
    ASSUME Base, NEW i \in Io, UndoEntry(i)
    PROVE  Kept /\ (PartitionOK => PartitionOK')
<1> DEFINE c == cmd[i]
           n == Len(c.log)
           e == c.log[n]
           r == SubSeq(c.log, 1, n - 1)
           failed == \/ e.kind = "VaultDisable" /\ vault[e.id] = "free"
                     \/ e.kind = "PropRestore" /\ e.id \in PskProp /\ ~Serving
           d == [c EXCEPT !.log = r, !.poisoned = c.poisoned \/ failed]
<1>1. /\ c \in Command /\ cmd \in [Io -> Command] /\ LogAt(c)
      /\ TypeInv /\ AloneOK /\ RestOK /\ c.log \in Seq(Entry)
  BY BaseTask
<1>2. c.pc = "walk" /\ ~c.commit /\ c.log # <<>> /\ CanRun(i) /\ snap' = snap
  BY DEF UndoEntry, history
<1>3. cmd' = [cmd EXCEPT ![i] = d]
  <2>1. cmd' = [cmd EXCEPT ![i].log = r, ![i].poisoned = @ \/ failed]
    BY Zenon DEF UndoEntry
  <2> HIDE DEF r, failed
  <2> QED BY <1>1, <2>1
<1>4. /\ vault' = CASE e.kind = "VaultCreate" -> [vault EXCEPT ![e.id] = "free"]
                     [] e.kind = "VaultDisable" /\ ~failed
                           -> [vault EXCEPT ![e.id] = "live"]
                     [] OTHER -> vault
      /\ prop' = IF e.kind = "PropRestore" /\ ~failed
                 THEN [prop EXCEPT ![e.id] = e.val] ELSE prop
  BY Zenon DEF UndoEntry
<1>5. /\ d.pc = "walk" /\ d.log = r /\ d.poisoned = (c.poisoned \/ failed)
      /\ d.commit = c.commit
  <2> HIDE DEF r, failed
  <2> QED BY <1>1, <1>2 DEF Command
<1>6. e \in Entry /\ Layered(r) /\ Layered(c.log)
  BY <1>1, <1>2, PopLog, LayeredPop DEF LogAt
<1>7. /\ \A q : Has(c.log, q) <=> Has(r, q) \/ Restores(e, q)
      /\ \A k : Creates(c.log, k) <=> Creates(r, k) \/ e = VaultCreate(k)
      /\ \A k : Owns(c.log, k) <=> Owns(r, k) \/ e = VaultDisable(k)
      /\ CreatesOnce(c.log) =>
            CreatesOnce(r) /\ \A k \in KeyId : e = VaultCreate(k) => ~Creates(r, k)
      /\ OwnsOnce(c.log) =>
            OwnsOnce(r) /\ \A k \in KeyId : e = VaultDisable(k) => ~Owns(r, k)
      /\ TailOnly(c.log) => TailOnly(r) /\ TailEntry(e)
  BY <1>1, <1>2, PopHolds
<1>8. turn' = i \/ (turn' = NoIo /\ TailOnly(r))
  <2>1. turn' = i \/ turn' = NoIo
    BY Zenon DEF UndoEntry, NextTurn
  <2> QED BY <2>1, UndoTurn, ConstantsOK
<1> HIDE DEF d, r
<1>9. LogAt(d)
  BY <1>5, <1>6, LateLog
<1>10. ASSUME PartitionOK PROVE PartitionOK'
  <2>1. /\ KeysLive(prop, vault) /\ Serving /\ DisabledOK /\ FinalOK /\ ~c.poisoned
    BY <1>10 DEF PartitionOK, NoPoison
  <2>2. UndoSafe(i, e)
    BY <1>10, UndoLone, UndoShared
  <2>3. /\ e.kind \in {"VaultCreate", "VaultDisable", "PropRestore"}
        /\ e.kind = "VaultCreate" => e.id \in KeyId /\ e = VaultCreate(e.id)
        /\ e.kind = "VaultDisable" => e.id \in KeyId /\ e = VaultDisable(e.id)
        /\ e.kind = "PropRestore" => /\ e.id \in PropId /\ e.val \in PropValue(e.id)
                                     /\ \A q : Restores(e, q) <=> q = e.id
        /\ e.kind # "PropRestore" => \A q : ~Restores(e, q)
        /\ \A k : e = VaultCreate(k) => e.kind = "VaultCreate" /\ e.id = k
        /\ \A k : e = VaultDisable(k) => e.kind = "VaultDisable" /\ e.id = k
    BY <1>6, EntryKinds DEF VaultCreate, VaultDisable
  <2>4. ~failed
    <3>1. e.kind = "VaultDisable" => vault[e.id] = "disabled"
      BY <1>7, <1>10, <2>3, OthersKeys
    <3> QED BY <2>1, <3>1
  <2> HIDE DEF failed, e
  <2>5. Undone(e, prop, prop', vault, vault')
    <3>1. ASSUME NEW q \in PropId PROVE prop'[q] = IF Restores(e, q) THEN e.val ELSE prop[q]
      BY <1>1, <1>4, <2>3, <2>4 DEF RestOK
    <3>2. ASSUME NEW k \in KeyId
          PROVE  vault'[k] = IF e = VaultCreate(k) THEN "free"
                             ELSE IF e = VaultDisable(k) THEN "live" ELSE vault[k]
      <4>1. CASE e.kind = "VaultCreate"
        BY <1>1, <1>4, <2>3, <4>1 DEF RestOK
      <4>2. CASE e.kind = "VaultDisable"
        BY <1>1, <1>4, <2>3, <2>4, <4>2 DEF RestOK
      <4>3. CASE e.kind = "PropRestore"
        BY <1>4, <2>3, <4>3
      <4> QED BY <2>3, <4>1, <4>2, <4>3
    <3> QED BY <3>1, <3>2 DEF Undone
  <2>6. \A q \in PropId : prop'[q] = IF Restores(e, q) THEN e.val ELSE prop[q]
    BY <2>5 DEF Undone
  <2>7. \A k \in KeyId : vault'[k] = IF e = VaultCreate(k) THEN "free"
                                     ELSE IF e = VaultDisable(k) THEN "live" ELSE vault[k]
    BY <2>5 DEF Undone
  <2>8. KeysLive(prop', vault')
    <3> SUFFICES ASSUME NEW q \in KeyProp, prop'[q] # Absent PROVE vault'[prop'[q]] = "live"
      BY DEF KeysLive
    <3>1. CASE Restores(e, q)
      <4>1. e.kind = "PropRestore" /\ e.id = q /\ e.val \in KeyId \cup {Absent}
        BY <2>3, <3>1, PropValues DEF Restores
      <4>2. prop'[q] = e.val /\ e.val \in KeyId
        BY <2>6, <3>1, <4>1, PropIds
      <4>3. vault[e.val] = "live"
        BY <2>2, <3>1, <4>2 DEF UndoSafe
      <4> QED BY <2>3, <2>7, <4>1, <4>2, <4>3
    <3>2. CASE ~Restores(e, q)
      <4>1. prop'[q] = prop[q]
        BY <2>6, <3>2, PropIds
      <4>2. prop[q] \in KeyId /\ vault[prop[q]] = "live"
        BY <1>1, <2>1, <4>1, PropValues DEF RestOK, KeysLive
      <4>3. e # VaultCreate(prop[q])
        BY <2>2, <4>2 DEF UndoSafe, Publishes
      <4> QED BY <2>7, <4>1, <4>2, <4>3
    <3> QED BY <3>1, <3>2
  <2>9. Serving'
    <3>1. prop'["STATE"] = prop["STATE"] \/ (Restores(e, "STATE") /\ prop'["STATE"] = e.val)
      BY <2>6, PropIds
    <3> QED BY <2>1, <2>2, <3>1 DEF UndoSafe, Serving
  <2>10. OwnsOnce(r) /\ \A k \in KeyId : Owns(r, k) =>
              vault'[k] = "disabled" /\ \A j \in Io \ {i} : ~Owns(cmd[j].log, k)
    <3>1. OwnsOnce(c.log)
      BY <2>1 DEF DisabledOK
    <3> QED BY <1>7, <1>10, <2>2, <2>7, <3>1, OthersKeys DEF UndoSafe
  <2>11. \A j \in Io \ {i} : \A k \in KeyId : Owns(cmd[j].log, k) => vault'[k] = "disabled"
    BY <1>7, <1>10, <2>2, <2>7, OthersKeys DEF UndoSafe
  <2>12. ~d.poisoned /\ FinalOn(d, prop') /\ Undoing(d)
    BY <1>2, <1>5, <2>1, <2>4 DEF FinalOn, Undoing
  <2>13. cmd[i].pc # "idle" /\ \A j \in Io \ {i} : snap'[j] = snap[j]
    BY <1>2
  <2>14. CASE snap[i] # Absent
    <3>1. Rewinds(r, prop', vault', snap[i])
      <4>1. Rewinds(c.log, prop, vault, snap[i])
        BY <1>10, <2>14, UndoLone
      <4>2. Undone(c.log[Len(c.log)], prop, prop', vault, vault')
        BY <2>5 DEF e
      <4> QED BY <1>1, <1>2, <4>1, <4>2, RewindPop DEF r
    <3>2. \A j \in Io \ {i} : cmd[j].pc = "idle"
      BY <1>10, <2>14, UndoLone
    <3>3. PhaseInv'
      <4>1. CASE turn' = i
        <5>1. cmd'[i] = d /\ snap'[i] # Absent
          BY <1>1, <1>2, <1>3, <2>14
        <5> QED BY <2>12, <4>1, <5>1 DEF PhaseInv, Rewinding
      <4>2. CASE TailOnly(r)
        BY <3>1, <4>2, TailPhase DEF PhaseInv
      <4> QED BY <1>8, <4>1, <4>2
    <3>4. PartSafe
      BY <2>8, <2>9, <3>3 DEF PartSafe
    <3>5. OthersSafe(i)
      BY <2>11, <3>2 DEF OthersSafe, FinalOn, TailOn, Undoing, Private, Holder, Staging
    <3>6. TailOn(d, snap'[i], prop', turn')
      BY <1>2, <1>5, <1>8, <2>14, ConstantsOK DEF TailOn
    <3>7. ~Holder(d, snap'[i])
      BY <1>2, <1>5, <2>14 DEF Holder, Staging
    <3>8. KeysSafe(i, d)
      BY <1>5, <2>10, <3>7 DEF KeysSafe, Private
    <3>9. TaskSafe(i, d)
      BY <1>2, <1>5, <2>10, <2>12, <3>1, <3>6, <3>7, <3>8 DEF TaskSafe
    <3> QED BY <1>1, <1>3, <1>10, <2>13, <3>4, <3>5, <3>9, TaskMove
  <2>15. CASE snap[i] = Absent
    <3>1. /\ PhaseOK(prop) /\ TailOnly(c.log) /\ CreatesOnce(c.log)
          /\ \A k \in KeyId : Creates(c.log, k) => Private(c, snap[i], k)
          /\ Has(c.log, "SD_INITIALIZED") => prop["SD_MK_KEY_ID"] = Absent
      BY <1>10, <2>15, UndoShared
    <3>2. TailEntry(e) /\ TailOnly(r)
      BY <1>7, <3>1
    <3>3. \A q : Restores(e, q) => q = "SD_INITIALIZED" /\ e.val = Absent
      BY <3>2 DEF TailEntry, Restores, PropRestore
    <3>4. /\ \A q \in PropId : q # "SD_INITIALIZED" => prop'[q] = prop[q]
          /\ \/ prop'["SD_INITIALIZED"] = prop["SD_INITIALIZED"]
             \/ prop["SD_MK_KEY_ID"] = Absent
      BY <1>7, <2>6, <3>1, <3>3, PropIds
    <3>5. /\ \A q \in KeyProp : prop'[q] = prop[q]
          /\ prop'["STATE"] = prop["STATE"] /\ prop'["POLICY_HASH"] = prop["POLICY_HASH"]
      <4>1. "SD_INITIALIZED" \notin KeyProp
        BY DEF KeyProp
      <4> QED BY <3>4, <4>1, PropIds
    <3>6. PhaseOK(prop')
      BY <3>1, <3>4, <3>5, PropIds DEF PhaseOK
    <3>7. PartSafe
      BY <2>8, <2>9, <3>6 DEF PartSafe, PhaseInv
    <3>8. \A k : Publishes(prop', k) <=> Publishes(prop, k)
      BY <3>5 DEF Publishes
    <3>9. prop'["SD_MK_KEY_ID"] = prop["SD_MK_KEY_ID"] /\ prop'["UPS_KEY_ID"] = prop["UPS_KEY_ID"]
      BY <3>5, PropIds
    <3>10. OthersSafe(i)
      <4>1. \A j \in Io \ {i} : TailOn(cmd[j], snap[j], prop', turn')
        BY <1>1, <1>10, <2>13, <3>9, OthersTail
      <4>2. \A j \in Io \ {i} : FinalOn(cmd[j], prop')
        BY <2>1, <3>5, <3>9 DEF FinalOK, FinalOn
      <4>3. \A j \in Io \ {i} : \A k \in KeyId :
              Private(cmd[j], snap[j], k) => vault'[k] = "live" /\ ~Publishes(prop', k)
        <5>1. \A k : e # VaultDisable(k)
          BY <3>2 DEF TailEntry, VaultDisable, PropRestore
        <5> QED BY <1>10, <2>2, <2>7, <3>8, <5>1, OthersKeys DEF UndoSafe
      <4> QED BY <2>11, <4>1, <4>2, <4>3 DEF OthersSafe
    <3>11. TailOn(d, snap'[i], prop', turn')
      BY <1>2, <1>5, <1>7, <3>1, <3>2, <3>9 DEF TailOn
    <3>12. CreatesOnce(d.log)
      BY <1>5, <1>7, <3>1
    <3>13. KeysSafe(i, d)
      <4> SUFFICES ASSUME NEW k \in KeyId, Creates(r, k)
                   PROVE  /\ vault'[k] = "live" /\ ~Publishes(prop', k)
                          /\ \A j \in Io \ {i} : ~Private(cmd[j], snap[j], k)
        BY <1>5, <2>10 DEF KeysSafe, Private
      <4>1. Private(c, snap[i], k) /\ e # VaultCreate(k)
        BY <1>7, <3>1
      <4>2. /\ vault[k] = "live" /\ ~Publishes(prop, k)
            /\ \A j \in Io \ {i} : ~Private(cmd[j], snap[j], k)
        BY <1>10, <4>1, OthersKeys
      <4> QED BY <2>7, <3>8, <4>1, <4>2
    <3>14. TaskSafe(i, d)
      BY <1>2, <1>5, <2>10, <2>12, <2>15, <3>11, <3>12, <3>13 DEF TaskSafe
    <3> QED BY <1>1, <1>3, <1>10, <2>13, <3>7, <3>10, <3>14, TaskMove
  <2> QED BY <2>14, <2>15
<1> QED BY <1>1, <1>2, <1>3, <1>5, <1>9, <1>10, TaskKept

\* At the end of a walk the log is empty, so the partition is in a phase.
LEMMA RollWalkEnd ==
    ASSUME Base, NEW i \in Io, WalkEnd(i)
    PROVE  Kept /\ (PartitionOK => PartitionOK')
<1> DEFINE c == cmd[i]
           d == IdleCommand
<1>1. /\ c \in Command /\ cmd \in [Io -> Command] /\ TypeInv /\ AloneOK /\ RestOK
  BY BaseTask
<1>2. /\ c.pc = "walk" /\ c.log = <<>> /\ CanRun(i) /\ vault' = vault /\ turn' = NoIo
      /\ cmd' = [cmd EXCEPT ![i] = d] /\ snap' = [snap EXCEPT ![i] = Absent]
      /\ ~c.poisoned => prop' = prop
  BY DEF WalkEnd
<1>3. d.pc = "idle" /\ d.log = <<>> /\ ~d.poisoned
  BY DEF IdleCommand
<1> HIDE DEF d
<1>4. /\ DOMAIN snap = Io /\ DOMAIN snap' = Io /\ snap'[i] = Absent
      /\ \A j \in Io \ {i} : snap'[j] = snap[j] /\ snap[j] = Absent
  BY <1>1, <1>2 DEF AloneOK
<1>5. Kept
  <2>1. LogAt(d)
    BY <1>3, EmptyHolds, LateLog
  <2>2. \A j \in Io : LogAt(cmd'[j])
    BY <1>1, <1>2, <2>1 DEF Base, LogsOK
  <2>3. AloneOK'
    BY <1>4 DEF AloneOK
  <2> QED BY <2>2, <2>3 DEF Kept, LogsOK
<1>6. ASSUME PartitionOK PROVE PartitionOK'
  <2>1. /\ KeysLive(prop, vault) /\ FinalOK /\ RewindOK /\ PhaseInv /\ ~c.poisoned
    BY <1>6 DEF PartitionOK, NoPoison
  <2>2. prop' = prop
    BY <1>2, <2>1
  <2>3. PhaseOK(prop)
    <3>1. CASE Rewinding(i)
      <4>1. Rewinds(c.log, prop, vault, snap[i])
        BY <2>1, <3>1 DEF RewindOK, Rewinding, Undoing, Committing
      <4>2. TailOnly(c.log)
        BY <1>2, EmptyHolds
      <4> QED BY <4>1, <4>2, TailPhase
    <3>2. \A j \in Io : Rewinding(j) => j = i
      BY <1>2, ConstantsOK DEF Rewinding, CanRun
    <3> QED BY <2>1, <3>1, <3>2 DEF PhaseInv
  <2>4. PartSafe
    BY <1>2, <2>1, <2>2, <2>3, PhaseServes DEF PartSafe, PhaseInv
  <2>5. OthersSafe(i)
    <3>1. cmd[i].pc # "idle" /\ prop'["SD_MK_KEY_ID"] = prop["SD_MK_KEY_ID"]
      BY <1>2, <2>2
    <3>2. \A j \in Io \ {i} : TailOn(cmd[j], snap[j], prop', turn')
      BY <1>1, <1>6, <3>1, OthersTail
    <3>3. \A j \in Io \ {i} : FinalOn(cmd[j], prop')
      BY <2>1, <2>2 DEF FinalOK
    <3> QED BY <1>2, <1>6, <2>2, <3>2, <3>3, OthersKeys DEF OthersSafe
  <2>6. ~Holder(d, snap'[i]) /\ ~Undoing(d) /\ \A k \in KeyId : ~Owns(d.log, k)
    BY <1>3, EmptyHolds DEF Holder, Undoing, Staging
  <2>7. OwnsOnce(d.log) /\ KeysSafe(i, d)
    BY <1>6, <2>6, QuietKeys
  <2>8. FinalOn(d, prop') /\ TailOn(d, snap'[i], prop', turn')
    BY <1>3, <2>6 DEF FinalOn, TailOn
  <2>9. TaskSafe(i, d)
    BY <1>3, <1>4, <2>6, <2>7, <2>8 DEF TaskSafe
  <2>10. cmd[i].pc # "idle"
    BY <1>2
  <2> QED BY <1>1, <1>2, <1>4, <1>6, <2>4, <2>5, <2>9, <2>10, TaskMove
<1> QED BY <1>5, <1>6

\* A lone walk that is joined by another command at an await has restored its
\* properties, and from here on counts as a walk that has company.
LEMMA Joined ==
    ASSUME AloneOK, PartitionOK, turn = NoIo, NEW j \in Io
    PROVE  /\ \A k \in KeyId : Private(cmd[j], Absent, k) =>
                /\ vault[k] = "live" /\ ~Publishes(prop, k)
                /\ \A x \in Io : Private(cmd[x], Absent, k) => x = j
           /\ Holder(cmd[j], Absent) => CreatesOnce(cmd[j].log)
           /\ \A t : TailOn(cmd[j], Absent, prop, t)
<1>1. OwnOK /\ TailOK /\ RewindOK
  BY DEF PartitionOK
<1>2. CASE Undoing(cmd[j]) /\ snap[j] # Absent
  <2>1. TailOnly(cmd[j].log) /\ Rewinds(cmd[j].log, prop, vault, snap[j])
    BY <1>1, <1>2 DEF TailOK, TailOn, RewindOK, Undoing, Committing
  <2>2. \A x \in Io \ {j} : ~Holder(cmd[x], Absent)
    BY <1>2 DEF AloneOK, Holder, Staging, Undoing
  <2>3. CreatesOnce(cmd[j].log)
    BY <2>1 DEF Rewinds
  <2>4. /\ Has(cmd[j].log, "SD_INITIALIZED") => prop["SD_MK_KEY_ID"] = Absent
        /\ \A k \in KeyId : Creates(cmd[j].log, k) => vault[k] = "live" /\ ~Publishes(prop, k)
    BY <2>1, TailPhase
  <2>5. \A t : TailOn(cmd[j], Absent, prop, t)
    BY <2>1, <2>4 DEF TailOn
  <2> QED BY <2>2, <2>3, <2>4, <2>5 DEF Private
<1>3. CASE ~(Undoing(cmd[j]) /\ snap[j] # Absent)
  <2>1. Holder(cmd[j], Absent) => Holder(cmd[j], snap[j])
    BY <1>3 DEF Holder
  <2>2. ASSUME NEW k \in KeyId, Private(cmd[j], Absent, k)
        PROVE  /\ vault[k] = "live" /\ ~Publishes(prop, k)
               /\ \A x \in Io : Private(cmd[x], Absent, k) => x = j
    <3>1. Private(cmd[j], snap[j], k)
      BY <2>1, <2>2 DEF Private
    <3>2. ASSUME NEW x \in Io, Private(cmd[x], Absent, k), x # j PROVE FALSE
      <4>1. cmd[j].pc # "idle"
        BY <2>2 DEF Private, Holder, Staging, Undoing
      <4>2. snap[x] = Absent
        BY <3>2, <4>1 DEF AloneOK
      <4> QED BY <3>1, <3>2, <4>2, OthersKeys
    <3> QED BY <3>1, <3>2, OthersKeys
  <2>3. Holder(cmd[j], Absent) => CreatesOnce(cmd[j].log)
    BY <1>1, <2>1 DEF OwnOK
  <2>4. \A t : TailOn(cmd[j], Absent, prop, t)
    BY <1>1, <1>3 DEF TailOK, TailOn
  <2> QED BY <2>2, <2>3, <2>4
<1> QED BY <1>2, <1>3

\* A command arrives: if no other is running, its snapshot is the partition it finds.
LEMMA RollArrive ==
    ASSUME Base, PropTable, NEW i \in Io, Arrive(i)
    PROVE  Kept /\ (PartitionOK => PartitionOK')
<1>1. PICK o \in Ops, s \in Sess : \E v \in Payload(o) : Submit(i, o, s, v)
  BY DEF Arrive
<1>2. PICK v \in Payload(o) : Submit(i, o, s, v)
  BY <1>1
<1> DEFINE d == [IdleCommand EXCEPT !.pc = "inbound", !.op = o, !.sess = s, !.psk = v]
<1>3. /\ cmd \in [Io -> Command] /\ TypeInv /\ AloneOK /\ RestOK
  BY BaseTask
<1>4. /\ turn = NoIo /\ cmd[i].pc = "idle" /\ Serving /\ prop' = prop /\ vault' = vault
      /\ turn' = turn /\ cmd' = [cmd EXCEPT ![i] = d]
      /\ snap' = [j \in Io |-> IF j = i /\ InFlight = {} THEN <<prop, vault>> ELSE Absent]
  BY <1>2 DEF Submit
<1>5. d.pc = "inbound" /\ d.log = <<>> /\ ~d.poisoned
  BY DEF IdleCommand
<1> HIDE DEF d
<1>6. cmd'[i] = d /\ \A j \in Io \ {i} : cmd'[j] = cmd[j]
  BY <1>3, <1>4
<1>7. /\ DOMAIN snap' = Io /\ \A j \in Io \ {i} : snap'[j] = Absent
      /\ snap'[i] # Absent => InFlight = {} /\ snap'[i] = <<prop, vault>>
  BY <1>4
<1>8. Kept
  <2>1. LogAt(d)
    BY <1>5, EmptyHolds DEF LogAt, Staging
  <2>2. \A j \in Io : LogAt(cmd'[j])
    BY <1>6, <2>1 DEF Base, LogsOK
  <2>3. AloneOK'
    <3>1. InFlight = {} => \A j \in Io : cmd[j].pc = "idle"
      BY DEF InFlight
    <3> QED BY <1>5, <1>6, <1>7, <3>1 DEF AloneOK
  <2> QED BY <2>2, <2>3 DEF Kept, LogsOK
<1>9. ASSUME PartitionOK PROVE PartitionOK'
  <2>1. /\ NoPoison /\ Serving /\ PhaseInv /\ KeysLive(prop, vault) /\ FinalOK /\ DisabledOK
    BY <1>9 DEF PartitionOK
  <2>2. PhaseOK(prop)
    <3>1. \A j \in Io : ~Rewinding(j)
      BY <1>4, ConstantsOK DEF Rewinding
    <3> QED BY <2>1, <3>1 DEF PhaseInv
  <2>3. \A k \in KeyId : ~Creates(d.log, k) /\ ~Owns(d.log, k)
    BY <1>5, EmptyHolds
  <2>4. ~Holder(d, snap'[i]) /\ ~Undoing(d)
    BY <1>5 DEF Holder, Staging, Undoing
  <2>5. NoPoison' /\ FinalOK'
    <3>1. \A j \in Io : ~cmd'[j].poisoned /\ FinalOn(cmd'[j], prop')
      BY <1>4, <1>5, <1>6, <2>1 DEF NoPoison, FinalOK, FinalOn
    <3> QED BY <3>1 DEF NoPoison, FinalOK
  <2>6. PartSafe
    BY <1>4, <2>1, <2>2, PhaseServes DEF PartSafe, PhaseInv
  <2>7. DisabledOK'
    <3>1. OwnsOnce(d.log)
      BY <1>5, EmptyHolds
    <3>2. \A j \in Io : OwnsOnce(cmd'[j].log)
      BY <1>6, <2>1, <3>1 DEF DisabledOK
    <3>3. \A j \in Io : \A k \in KeyId : Owns(cmd'[j].log, k) =>
            j # i /\ cmd'[j] = cmd[j] /\ vault'[k] = "disabled"
      BY <1>4, <1>6, <1>9, <2>3, OthersKeys
    <3>4. \A j, x \in Io : \A k \in KeyId :
            Owns(cmd'[j].log, k) /\ Owns(cmd'[x].log, k) => j = x
      BY <1>9, <3>3, OthersKeys
    <3> QED BY <3>2, <3>3, <3>4, Zenon DEF DisabledOK
  <2>8. OwnOK'
    <3>1. \A j \in Io : \A k \in KeyId : Private(cmd'[j], snap'[j], k) =>
            j # i /\ cmd'[j] = cmd[j] /\ Private(cmd[j], Absent, k)
      BY <1>6, <1>7, <2>4 DEF Private
    <3>2. \A j \in Io : \A k \in KeyId : Private(cmd'[j], snap'[j], k) =>
            vault'[k] = "live" /\ ~Publishes(prop', k)
      BY <1>3, <1>4, <1>9, <3>1, Joined
    <3>3. \A j, x \in Io : \A k \in KeyId :
            Private(cmd'[j], snap'[j], k) /\ Private(cmd'[x], snap'[x], k) => j = x
      BY <1>3, <1>4, <1>9, <3>1, Joined
    <3>4. \A j \in Io : Holder(cmd'[j], snap'[j]) => CreatesOnce(cmd'[j].log)
      BY <1>3, <1>4, <1>6, <1>7, <1>9, <2>4, Joined
    <3> QED BY <3>2, <3>3, <3>4, Zenon DEF OwnOK
  <2>9. TailOK'
    <3>1. \A j \in Io \ {i} : TailOn(cmd[j], Absent, prop, turn)
      BY <1>3, <1>4, <1>9, Joined
    <3>2. TailOn(d, snap'[i], prop', turn')
      BY <2>4 DEF TailOn
    <3>3. \A j \in Io : TailOn(cmd'[j], snap'[j], prop', turn')
      BY <1>4, <1>6, <1>7, <3>1, <3>2
    <3> QED BY <3>3 DEF TailOK
  <2>10. RewindOK'
    <3>1. vault = [k \in KeyId |-> vault[k]]
      BY <1>3 DEF RestOK
    <3>2. Rewinds(<<>>, prop, vault, <<prop, vault>>)
      BY <2>1, <2>2, <3>1, RewindStart DEF PropTable
    <3>3. \A j \in Io : snap'[j] # Absent => Rewinds(cmd'[j].log, prop', vault', snap'[j])
      BY <1>4, <1>5, <1>6, <1>7, <3>2
    <3> QED BY <3>3 DEF RewindOK
  <2> QED BY <2>5, <2>6, <2>7, <2>8, <2>9, <2>10 DEF PartitionOK, PartSafe
<1> QED BY <1>8, <1>9

-----------------------------------------------------------------------------
(* The property table stays a table, and `tainted` stays set. *)

\* Properties keep their types, and taint is for ever.
LEMMA TableStep ==
    ASSUME TypeInv, PropTable, NEW i \in Io, Arrive(i) \/ Step(i)
    PROVE  PropTable' /\ (tainted => tainted')
<1>1. tainted => tainted'
  <2>1. ASSUME NEW posted \in BOOLEAN, Complete(i, posted) PROVE tainted => tainted'
    BY <2>1, Zenon DEF Complete
  <2>2. Arrive(i) => tainted' = tainted
    BY DEF Arrive, Submit
  <2>3. WalkEnd(i) => tainted' = tainted
    BY DEF WalkEnd
  <2> QED BY <2>1, <2>2, <2>3 DEF Step, history, InboundFail, HandlerError, Reject,
             Dispatch, PskReserve, PskInstall, ReadUms, StageKey, UnwrapDone, CommitInit,
             CommitFinal, ClaimSd, VaultSd, OutboundOk, OutboundFail, UndoEntry,
             CommitEntry
<1>2. ASSUME prop' = prop PROVE PropTable'
  BY <1>2 DEF PropTable
<1>3. ASSUME NEW x, NEW w, prop' = [prop EXCEPT ![x] = w] PROVE PropTable'
  BY <1>3 DEF PropTable
<1>4. Arrive(i) => prop' = prop
  BY DEF Arrive, Submit
<1>5. PskInstall(i) => PropTable'
  BY <1>2, <1>3 DEF PskInstall
<1>6. CommitInit(i) => PropTable'
  <2> SUFFICES ASSUME CommitInit(i), ~AlreadyProvisioned PROVE PropTable'
    BY <1>2 DEF CommitInit
  <2> DEFINE ups    == prop["UPS_KEY_ID"] = Absent
             policy == ups /\ prop["POLICY_HASH"] = Absent
             legal  == policy /\ prop["STATE"] \in {"Enabled", "Initializing"}
  <2>1. prop' = [prop EXCEPT
           !["PTA_KEY_ID"]  = cmd[i].staged[2],
           !["UPS_KEY_ID"]  = IF ups THEN cmd[i].staged[1] ELSE @,
           !["POLICY_HASH"] = IF policy THEN Present ELSE @,
           !["STATE"]       = IF legal THEN "Initializing" ELSE @]
    BY Zenon DEF CommitInit
  <2> HIDE DEF ups, policy, legal
  <2> QED BY <2>1 DEF PropTable
<1>7. CommitFinal(i) => PropTable'
  <2> SUFFICES ASSUME CommitFinal(i), prop["STATE"] = "Initializing" PROVE PropTable'
    BY <1>2 DEF CommitFinal
  <2> DEFINE disabled == vault[cmd[i].ums] = "live"
  <2>1. prop' = [prop EXCEPT
           !["LOCAL_MK_KEY_ID"]     = cmd[i].staged[1],
           !["EPHEMERAL_MK_KEY_ID"] = cmd[i].staged[2],
           !["UPS_KEY_ID"]          = cmd[i].staged[3],
           !["STATE"] = IF disabled THEN "Initialized" ELSE @]
    BY Zenon DEF CommitFinal
  <2> HIDE DEF disabled
  <2> QED BY <2>1 DEF PropTable
<1>8. ClaimSd(i) => PropTable'
  BY <1>2, <1>3 DEF ClaimSd
<1>9. VaultSd(i) => PropTable'
  BY <1>3, Zenon DEF VaultSd
<1>10. UndoEntry(i) => PropTable'
  <2> SUFFICES ASSUME UndoEntry(i) PROVE PropTable'
    OBVIOUS
  <2>1. prop' = prop \/ \E x, w : prop' = [prop EXCEPT ![x] = w]
    BY Zenon DEF UndoEntry
  <2> QED BY <1>2, <1>3, <2>1
<1>11. WalkEnd(i) => PropTable'
  BY <1>2, <1>3 DEF WalkEnd
<1>12. (\E posted \in BOOLEAN : Complete(i, posted)) => prop' = prop
  BY DEF Complete, part
<1>13. \/ InboundFail(i) \/ HandlerError(i) \/ Reject(i) \/ Dispatch(i) \/ PskReserve(i)
       \/ ReadUms(i) \/ StageKey(i) \/ UnwrapDone(i) \/ OutboundOk(i) \/ OutboundFail(i)
       \/ CommitEntry(i)
       => prop' = prop
  BY DEF InboundFail, HandlerError, Reject, Dispatch, PskReserve, ReadUms, StageKey,
         UnwrapDone, OutboundOk, OutboundFail, CommitEntry, part
<1> QED BY <1>1, <1>2, <1>4, <1>5, <1>6, <1>7, <1>8, <1>9, <1>10, <1>11, <1>12, <1>13
        DEF Step

-----------------------------------------------------------------------------
(* Initial states, and the invariant. *)

\* A fresh partition is in its first phase.
LEMMA FreshStart ==
    ASSUME NEW v, prop = FreshProps(v)
    PROVE  PropTable /\ PhaseOK(prop) /\ KeysLive(prop, vault)
<1>1. PropTable
  BY DEF PropTable, FreshProps
<1>2. /\ \A q \in KeyProp : prop[q] = Absent
      /\ prop["STATE"] = "Enabled" /\ prop["POLICY_HASH"] = Absent
  BY DEF FreshProps, PropId, KeyProp, FlagProp, PskProp
<1>3. PhaseOK(prop)
  BY <1>2, PropIds DEF PhaseOK
<1> QED BY <1>1, <1>2, <1>3 DEF KeysLive

\* A provisioned partition is in its last phase, with live keys.
LEMMA ProvisionedStart ==
    ASSUME "provisioned" \in Starts, NEW v, prop = ProvisionedProps(v),
           vault = [k \in KeyId |-> IF \E p \in PartKeyProp : ProvisionedKeys[p] = k
                                    THEN "live" ELSE "free"]
    PROVE  PropTable /\ PhaseOK(prop) /\ KeysLive(prop, vault)
<1> DEFINE f == ProvisionedKeys
<1>1. /\ f \in [PartKeyProp -> KeyId]
      /\ \A p, q \in PartKeyProp : f[p] = f[q] => p = q
  <2>1. f \in KeyChoice
    BY ProvisionedOK DEF ProvisionedKeys
  <2> QED BY <2>1 DEF KeyChoice
<1>2. PropTable
  BY DEF PropTable, ProvisionedProps
<1>3. /\ \A q \in PartKeyProp : prop[q] = f[q]
      /\ prop["SD_MK_KEY_ID"] = Absent
      /\ prop["STATE"] = "Initialized" /\ prop["POLICY_HASH"] = Present
  BY PropIds DEF ProvisionedProps, PropId, FlagProp, PskProp
<1> HIDE DEF f
<1>4. \A q \in PartKeyProp : prop[q] \in KeyId /\ prop[q] # Absent
  BY <1>1, <1>3, ConstantsOK
<1>5. PhaseOK(prop)
  <2>1. \A q, r \in KeyProp : prop[q] # Absent /\ prop[q] = prop[r] => q = r
    BY <1>1, <1>3, <1>4, PropIds
  <2> QED BY <1>3, <1>4, <2>1 DEF PhaseOK
<1>6. \A q \in PartKeyProp : vault[prop[q]] = "live"
  BY <1>3, <1>4 DEF f
<1> QED BY <1>2, <1>3, <1>5, <1>6, PropIds DEF KeysLive

\* The initial states satisfy the invariant.
LEMMA RollInit == Init => RollbackInv
<1> SUFFICES ASSUME Init PROVE RollbackInv
  OBVIOUS
<1>1. PropTable /\ PhaseOK(prop) /\ KeysLive(prop, vault)
  <2>1. PartitionInit
    BY DEF Init
  <2> QED BY <2>1, FreshStart, ProvisionedStart DEF PartitionInit
<1>2. /\ cmd = [i \in Io |-> IdleCommand] /\ snap = [i \in Io |-> Absent]
  BY DEF Init
<1>3. IdleCommand.pc = "idle" /\ IdleCommand.log = <<>> /\ ~IdleCommand.poisoned
  BY DEF IdleCommand
<1>4. \A i \in Io : cmd[i].pc = "idle" /\ cmd[i].log = <<>> /\ ~cmd[i].poisoned
  BY <1>2, <1>3
<1>5. LogsOK
  BY <1>4, LateLog, EmptyHolds DEF LogsOK
<1>6. AloneOK
  BY <1>2 DEF AloneOK
<1>7. PartitionOK
  <2>1. \A i \in Io : ~Holder(cmd[i], snap[i]) /\ ~Undoing(cmd[i]) /\ snap[i] = Absent
    BY <1>2, <1>4 DEF Holder, Staging, Undoing
  <2>2. \A i \in Io : OwnsOnce(cmd[i].log) /\ \A k \in KeyId : ~Owns(cmd[i].log, k)
    BY <1>4, EmptyHolds
  <2>3. OwnOK /\ TailOK /\ RewindOK
    BY <2>1 DEF OwnOK, Private, TailOK, TailOn, RewindOK
  <2>4. DisabledOK
    BY <2>2 DEF DisabledOK
  <2>5. NoPoison /\ FinalOK
    BY <1>4 DEF NoPoison, FinalOK, FinalOn
  <2>6. Serving /\ PhaseInv
    BY <1>1 DEF Serving, PhaseInv, PhaseOK
  <2> QED BY <1>1, <2>3, <2>4, <2>5, <2>6 DEF PartitionOK
<1> QED BY <1>1, <1>5, <1>6, <1>7, ClaimsInit DEF RollbackInv

\* Every step preserves the invariant.
LEMMA RollStep == RollbackInv /\ [Next]_vars => RollbackInv'
<1> SUFFICES ASSUME RollbackInv, [Next]_vars PROVE RollbackInv'
  OBVIOUS
<1>1. ClaimsInductive' /\ Base /\ TypeInv /\ PropTable /\ (~tainted => PartitionOK)
  BY ClaimsStep DEF RollbackInv, Base, ClaimsInductive
<1>2. CASE UNCHANGED vars
  <2>1. UNCHANGED <<prop, vault, cmd, turn, snap, tainted>>
    BY <1>2 DEF vars
  <2>2. LogsOK' /\ AloneOK' /\ PropTable'
    BY <1>1, <2>1 DEF Base, LogsOK, AloneOK, PropTable
  <2>3. ASSUME PartitionOK PROVE PartitionOK'
    <3>1. NoPoison' /\ Serving' /\ KeysLive(prop', vault') /\ FinalOK' /\ RewindOK' /\ TailOK'
      BY <2>1, <2>3 DEF PartitionOK, NoPoison, Serving, FinalOK, RewindOK, TailOK
    <3>2. PhaseInv'
      BY <2>1, <2>3 DEF PartitionOK, PhaseInv, Rewinding
    <3>3. OwnOK' /\ DisabledOK'
      BY <2>1, <2>3 DEF PartitionOK, OwnOK, DisabledOK
    <3> QED BY <3>1, <3>2, <3>3 DEF PartitionOK
  <2> QED BY <1>1, <2>1, <2>2, <2>3 DEF RollbackInv
<1>3. CASE Next
  <2>1. PICK i \in Io : Arrive(i) \/ Step(i)
    BY <1>3 DEF Next
  <2>2. PropTable' /\ (tainted => tainted')
    BY <1>1, <2>1, TableStep
  <2>3. Kept /\ (PartitionOK /\ ~tainted' => PartitionOK')
    <3>1. CASE Arrive(i)
      BY <1>1, <3>1, RollArrive
    <3>2. ASSUME NEW posted \in BOOLEAN, Complete(i, posted)
          PROVE  Kept /\ (PartitionOK /\ ~tainted' => PartitionOK')
      BY <1>1, <3>2, RollComplete
    <3>3. CASE \/ InboundFail(i) \/ HandlerError(i) \/ Reject(i)
               \/ Dispatch(i) \/ ReadUms(i) \/ OutboundOk(i) \/ OutboundFail(i)
      BY <1>1, <3>3, RollLocal
    <3>4. CASE PskReserve(i) \/ PskInstall(i) \/ StageKey(i) \/ UnwrapDone(i)
      BY <1>1, <3>4, RollPskReserve, RollPskInstall, RollStage, RollUnwrap
    <3>5. CASE CommitInit(i) \/ CommitFinal(i) \/ ClaimSd(i) \/ VaultSd(i)
      BY <1>1, <3>5, RollCommitInit, RollCommitFinal, RollClaimSd, RollVaultSd
    <3>6. CASE UndoEntry(i) \/ CommitEntry(i) \/ WalkEnd(i)
      BY <1>1, <3>6, RollUndo, RollCommitEntry, RollWalkEnd
    <3> QED BY <2>1, <3>1, <3>2, <3>3, <3>4, <3>5, <3>6 DEF Step
  <2> QED BY <1>1, <2>2, <2>3 DEF RollbackInv, Kept
<1> QED BY <1>2, <1>3

\* The inductive invariant holds in every reachable state.
LEMMA RollAlways == Spec => []RollbackInv
BY RollInit, RollStep, PTL DEF Spec

\* While no command that had company is rolled back, a published key id never
\* names a free or soft-deleted vault slot, for any number of tasks, vault
\* slots, commands and transport failures: not between the writes of a
\* handler, not between two entries of a walk.
THEOREM PublishedLive == Spec => []PublishedKeysLive
<1>1. RollbackInv => PublishedKeysLive
  BY DEF RollbackInv, PartitionOK, KeysLive, PublishedKeysLive
<1> QED BY <1>1, RollAlways, PTL

\* Undo is exact: when the walk of a command that ran alone has undone its
\* last entry, the property table and the vault are the ones the command
\* found, entry for entry, and the walk is not poisoned; this includes the
\* pre-images that PartInit and PartFinal record without reading them.
THEOREM SoloUndoExact == Spec => []SoloUndoIsExact
<1>1. ASSUME RollbackInv PROVE SoloUndoIsExact
  <2> SUFFICES ASSUME NEW i \in Io, ~tainted, cmd[i].pc = "walk", ~cmd[i].commit,
                      cmd[i].log = <<>>, snap[i] # Absent
               PROVE  <<prop, vault>> = snap[i] /\ ~cmd[i].poisoned
    BY DEF SoloUndoIsExact
  <2>1. PartitionOK /\ PropTable /\ RestOK
    BY <1>1, TypeParts DEF RollbackInv, ClaimsInductive
  <2>2. ~cmd[i].poisoned
    BY <2>1 DEF PartitionOK, NoPoison
  <2>3. Rewinds(cmd[i].log, prop, vault, snap[i])
    BY <2>1 DEF PartitionOK, RewindOK, Committing
  <2>4. PICK sp, sv : /\ Snapshot(snap[i], sp, sv)
                      /\ RewindsProps(cmd[i].log, prop, sp)
                      /\ RewindsVault(cmd[i].log, vault, sv)
    BY <2>3 DEF Rewinds
  <2>5. /\ \A q \in PropId : prop[q] = sp[q]
        /\ \A k \in KeyId : vault[k] = sv[k]
    BY <2>4, EmptyHolds DEF RewindsProps, RewindsVault
  <2>6. prop = sp
    BY <2>1, <2>4, <2>5 DEF PropTable, Snapshot
  <2>7. vault = sv
    <3>1. vault = [k \in KeyId |-> vault[k]]
      BY <2>1 DEF RestOK
    <3> QED BY <2>4, <2>5, <3>1 DEF Snapshot
  <2> QED BY <2>2, <2>4, <2>6, <2>7 DEF Snapshot
<1> QED BY <1>1, RollAlways, PTL
=============================================================================
