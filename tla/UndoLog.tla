------------------------------ MODULE UndoLog -------------------------------
(***************************************************************************)
(* The undo log's backing buffer (fw/core/undo/src/lib.rs): entry slots    *)
(* grow up from the front, byte pre-images down from the back, an entry    *)
(* finds its pre-image through a packed {offset, len} handle, and a walk   *)
(* reads the slots back.  Shown to implement UndoStack.                    *)
(*                                                                         *)
(* A byte of an entry slot is the triple of what the slot serialises and   *)
(* its index in the slot, so reading a slot returns its entry iff all its  *)
(* bytes are still the ones that were written.                             *)
(***************************************************************************)
EXTENDS Naturals, Sequences

CONSTANTS
    Act, Disable, Byte, MaxLen, NoBytes, EntrySize, Size,  \* see UndoStack
    Zero,        \* a scrubbed byte
    HalfRange    \* values of each half of a handle (2^16)

ASSUME UndoConstantsOK ==
    /\ EntrySize \in Nat \ {0} /\ Size \in Nat /\ MaxLen \in Nat
    /\ HalfRange \in Nat /\ Disable \subseteq Act
    /\ Size < HalfRange /\ MaxLen < HalfRange

VARIABLES buf, nentries, arena_used,
          phase,  \* "open", "undo", "commit" or "done"
          pos,    \* the walk's loop variable
          res     \* the last call's result, or the verb it made

vars == <<buf, nentries, arena_used, phase, pos, res>>

Addr == 0 .. Size - 1
Half == 0 .. HalfRange - 1
Handle == 0 .. HalfRange * HalfRange - 1

\* An entry's data word: a byte pre-image's handle, or NoBytes for an entry
\* without one (its id or inline scalar is part of `act`).
Data == Handle \cup {NoBytes}
SlotByte == Act \X Data \X (0 .. EntrySize - 1)

Ok == <<"ok">>
UndoLogFull == <<"UndoLogFull">>
InvalidArg == <<"InvalidArg">>
Garbled == <<"garbled", NoBytes>>
Verb(a, v) == <<"verb", a, v>>

PreImage == UNION {[1 .. n -> Byte] : n \in 0 .. MaxLen}

\* The sentinels: NoBytes is neither a handle nor a pre-image, and no entry
\* reads as a garbled one.
ASSUME SentinelsOK == NoBytes \notin Handle \cup PreImage /\ "garbled" \notin Act

\* Types of the buffer and of its counters: no push runs past the end of it.
TypeOK ==
    /\ buf \in [Addr -> SlotByte \cup Byte \cup {Zero}]
    /\ nentries \in 0 .. Size \div EntrySize
    /\ arena_used \in 0 .. Size
    /\ phase \in {"open", "undo", "commit", "done"}
    /\ pos \in 0 .. nentries

Init ==
    /\ buf = [k \in Addr |-> Zero]
    /\ nentries = 0 /\ arena_used = 0
    /\ phase = "open" /\ pos = 0 /\ res = Ok
-----------------------------------------------------------------------------
pack_bytes_handle(off, len) == off * HalfRange + len
HandleOff(h) == h \div HalfRange
HandleLen(h) == h % HalfRange

\* UndoEntry::write at slot i of the buffer b.
WriteEntry(b, i, a, d) ==
    [k \in Addr |->
        IF k >= i * EntrySize /\ k < (i + 1) * EntrySize
        THEN <<a, d, k - i * EntrySize>> ELSE b[k]]

\* copy_from_slice of the bytes v to offset off of the buffer b.
CopyBytes(b, off, v) ==
    [k \in Addr |->
        IF k >= off /\ k < off + Len(v) THEN v[k - off + 1] ELSE b[k]]

\* UndoEntry::read of slot i: the entry <<act, data>> all of whose bytes are
\* there, or a garbled one.
entry_at(i) ==
    LET first == buf[i * EntrySize] IN
    IF /\ first \in SlotByte
       /\ \A j \in 0 .. EntrySize - 1 :
            buf[i * EntrySize + j] = <<first[1], first[2], j>>
    THEN <<first[1], first[2]>> ELSE Garbled

\* Mutant: the slot being pushed is not counted.
FitsOffByOne(extra) == nentries * EntrySize + arena_used + extra <= Size

\* push_entry_reserving's overflow check.
Fits(extra) == (nentries + 1) * EntrySize + arena_used + extra <= Size

\* push_vault_create, push_vault_disable, push_session_destroy,
\* push_prop_restore_absent and push_prop_restore_scalar.
PushEntry(a) ==
    /\ phase = "open"
    /\ IF Fits(0)
       THEN /\ buf' = WriteEntry(buf, nentries, a, NoBytes)
            /\ nentries' = nentries + 1
            /\ res' = Ok
       ELSE res' = UndoLogFull /\ UNCHANGED <<buf, nentries>>
    /\ UNCHANGED <<arena_used, phase, pos>>

\* Mutant: only the slot's bytes are reserved, not the pre-image's.
PushBytesUnreserved(a, v) ==
    /\ phase = "open"
    /\ LET len == Len(v)
           used == arena_used + len
           off == Size - used
       IN IF used <= Size /\ Fits(0)
          THEN /\ buf' = CopyBytes(WriteEntry(buf, nentries, a,
                           pack_bytes_handle(off, len)), off, v)
               /\ nentries' = nentries + 1
               /\ arena_used' = used
               /\ res' = Ok
          ELSE res' = UndoLogFull /\ UNCHANGED <<buf, nentries, arena_used>>
    /\ UNCHANGED <<phase, pos>>

\* push_prop_restore_bytes: the handle is packed (pack_bytes_handle refuses an
\* offset or a length beyond 16 bits, with the same error), slot and bytes are
\* reserved in one check, then the bytes are copied below the arena.
PushBytes(a, v) ==
    /\ phase = "open"
    /\ LET len == Len(v)
           used == arena_used + len
           off == Size - used
       IN IF used <= Size /\ off \in Half /\ len \in Half /\ Fits(len)
          THEN /\ buf' = CopyBytes(WriteEntry(buf, nentries, a,
                           pack_bytes_handle(off, len)), off, v)
               /\ nentries' = nentries + 1
               /\ arena_used' = used
               /\ res' = Ok
          ELSE res' = UndoLogFull /\ UNCHANGED <<buf, nentries, arena_used>>
    /\ UNCHANGED <<phase, pos>>

\* discard: the counters only.
Discard ==
    /\ phase = "open"
    /\ nentries' = 0 /\ arena_used' = 0 /\ res' = Ok
    /\ UNCHANGED <<buf, phase, pos>>
-----------------------------------------------------------------------------
\* apply_undo (from the last slot) and apply_commit (from the first).
StartWalk(dir) ==
    /\ phase = "open"
    /\ phase' = dir /\ res' = Ok
    /\ pos' = IF dir = "undo" THEN nentries ELSE 0
    /\ UNCHANGED <<buf, nentries, arena_used>>

\* bytes_from_handle: the bytes the handle points to, if it is in bounds.
InBounds(h) == HandleOff(h) + HandleLen(h) <= Size
bytes_from_handle(h) ==
    [k \in 1 .. HandleLen(h) |-> buf[HandleOff(h) + k - 1]]

PreImageOf(d) == IF d = NoBytes THEN NoBytes ELSE bytes_from_handle(d)

\* undo_one: the slot is read, its pre-image fetched, its verb called.
UndoNext ==
    /\ phase = "undo" /\ pos > 0
    /\ pos' = pos - 1
    /\ LET e == entry_at(pos - 1) IN
         res' = IF e = Garbled \/ (e[2] # NoBytes /\ ~InBounds(e[2]))
                THEN InvalidArg ELSE Verb(e[1], PreImageOf(e[2]))
    /\ UNCHANGED <<buf, nentries, arena_used, phase>>

\* commit_one: only a soft-delete is finalised.
CommitNext ==
    /\ phase = "commit" /\ pos < nentries
    /\ pos' = pos + 1
    /\ LET e == entry_at(pos) IN
         res' = IF e[1] \in Disable THEN Verb(e[1], NoBytes) ELSE Ok
    /\ UNCHANGED <<buf, nentries, arena_used, phase>>

\* zeroize's buf.zeroize().
Scrub == buf' = [k \in Addr |-> Zero]

\* The end of a walk: zeroize the buffer, reset the counters.
WalkEnd ==
    /\ \/ phase = "undo" /\ pos = 0
       \/ phase = "commit" /\ pos = nentries
    /\ Scrub
    /\ nentries' = 0 /\ arena_used' = 0 /\ pos' = 0
    /\ phase' = "done" /\ res' = Ok

Next ==
    \/ \E a \in Act : PushEntry(a)
    \/ \E a \in Act, v \in PreImage : PushBytes(a, v)
    \/ Discard \/ \E dir \in {"undo", "commit"} : StartWalk(dir)
    \/ UndoNext \/ CommitNext \/ WalkEnd

Spec == Init /\ [][Next]_vars
-----------------------------------------------------------------------------
(* The refinement mapping: the entries a walk has not reached, decoded.    *)

Unwalked == LET lo == IF phase = "commit" THEN pos ELSE 0
                hi == IF phase = "undo" THEN pos ELSE nentries
            IN [k \in 1 .. hi - lo |->
                  LET e == entry_at(lo + k - 1) IN <<e[1], PreImageOf(e[2])>>]

Stack == INSTANCE UndoStack
           WITH stack <- Unwalked, room <- Size - (nentries * EntrySize + arena_used)

\* The packed buffer is the promised stack: a push fails exactly when its
\* bytes do not fit and then changes nothing, slots and pre-images never
\* overwrite one another however pushes and discards alternate, and a walk
\* hands every verb the entry and the pre-image that were pushed, in order.
ImplementsStack == Stack!Spec
=============================================================================
