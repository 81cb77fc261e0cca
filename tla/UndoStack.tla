----------------------------- MODULE UndoStack ------------------------------
(***************************************************************************)
(* What the per-command undo log (fw/core/undo) promises its users: a      *)
(* stack of inverses, each with the pre-image it was pushed with, inside a *)
(* byte budget; one walk, last-in-first-out to undo or first-in-first-out  *)
(* to commit, that hands every inverse to its verb exactly once.           *)
(***************************************************************************)
EXTENDS Naturals, Sequences

CONSTANTS
    Act,         \* what an entry names: its kind and key / property / session
    Disable,     \* the entries a commit finalises (VaultDisable)
    Byte,        \* pre-image bytes
    MaxLen,      \* bound: bytes of a pre-image
    NoBytes,     \* the value of an entry without a pre-image in the arena
    EntrySize,   \* bytes of an entry slot (8)
    Size         \* bytes of the log's buffer (256)

VARIABLES
    stack,  \* the inverses not yet walked
    room,   \* bytes left
    phase,  \* "open" while the handler runs, then "undo" or "commit", "done"
    res     \* what the last call returned, or the verb it made

PreImage == UNION {[1 .. n -> Byte] : n \in 0 .. MaxLen}
Val == PreImage \cup {NoBytes}
Cost(v) == EntrySize + IF v = NoBytes THEN 0 ELSE Len(v)

Ok == <<"ok">>
Full == <<"UndoLogFull">>
Verb(a, v) == <<"verb", a, v>>

Init == stack = <<>> /\ room = Size /\ phase = "open" /\ res = Ok

\* A push succeeds iff the slot and the pre-image fit; a full log is unchanged.
Push(a, v) ==
    /\ phase = "open"
    /\ IF Cost(v) <= room
       THEN /\ stack' = Append(stack, <<a, v>>)
            /\ room' = room - Cost(v)
            /\ res' = Ok
       ELSE res' = Full /\ UNCHANGED <<stack, room>>
    /\ UNCHANGED phase

Discard ==
    /\ phase = "open"
    /\ stack' = <<>> /\ room' = Size /\ res' = Ok
    /\ UNCHANGED phase

StartWalk(dir) ==
    /\ phase = "open"
    /\ phase' = dir /\ res' = Ok
    /\ UNCHANGED <<stack, room>>

UndoNext ==
    /\ phase = "undo" /\ stack # <<>>
    /\ res' = Verb(stack[Len(stack)][1], stack[Len(stack)][2])
    /\ stack' = SubSeq(stack, 1, Len(stack) - 1)
    /\ UNCHANGED <<room, phase>>

CommitNext ==
    /\ phase = "commit" /\ stack # <<>>
    /\ res' = IF Head(stack)[1] \in Disable
              THEN Verb(Head(stack)[1], NoBytes) ELSE Ok
    /\ stack' = Tail(stack)
    /\ UNCHANGED <<room, phase>>

End ==
    /\ phase \in {"undo", "commit"} /\ stack = <<>>
    /\ phase' = "done" /\ room' = Size /\ res' = Ok
    /\ UNCHANGED stack

Next ==
    \/ \E a \in Act, v \in Val : Push(a, v)
    \/ Discard \/ \E dir \in {"undo", "commit"} : StartWalk(dir)
    \/ UndoNext \/ CommitNext \/ End

Spec == Init /\ [][Next]_<<stack, room, phase, res>>
=============================================================================
