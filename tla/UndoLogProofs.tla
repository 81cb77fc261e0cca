--------------------------- MODULE UndoLogProofs ----------------------------
(***************************************************************************)
(* Proofs about the undo log's buffer, for every buffer, slot and handle   *)
(* size: the packed buffer implements the stack UndoStack promises, and no *)
(* byte survives a walk.  The lemmas speak of a buffer b with n slots in   *)
(* use and u bytes of arena, so that they apply before and after a step.   *)
(***************************************************************************)
EXTENDS UndoLog, TLAPS, SequenceTheorems

-----------------------------------------------------------------------------
(* Arithmetic of slots and handles.                                        *)

\* Quotient and remainder of the division that packs a handle.
LEMMA Division ==
    ASSUME NEW x \in Int, NEW D \in Nat \ {0}
    PROVE  x = D * (x \div D) + (x % D) /\ x \div D \in Int /\ x % D \in 0 .. D - 1
  OBVIOUS

\* Slots follow one another in the buffer.
LEMMA SlotStart ==
    ASSUME NEW i \in Nat
    PROVE  i * EntrySize \in Nat /\ (i + 1) * EntrySize = i * EntrySize + EntrySize
  BY UndoConstantsOK

\* Slots are laid out in the order of their numbers.
LEMMA SlotsOrdered ==
    ASSUME NEW i \in Nat, NEW n \in Nat, i < n
    PROVE  (i + 1) * EntrySize <= n * EntrySize
  BY UndoConstantsOK

\* As many slots as fit in the buffer.
LEMMA SlotCount ==
    ASSUME NEW n \in Nat, n * EntrySize <= Size
    PROVE  n \in 0 .. Size \div EntrySize
<1> DEFINE q == Size \div EntrySize  r == Size % EntrySize
<1>1. q \in Int /\ r \in 0 .. EntrySize - 1 /\ Size = EntrySize * q + r
  BY Division, UndoConstantsOK
<1> HIDE DEF q, r
<1>2. ~(n >= q + 1)
  <2> SUFFICES ASSUME n >= q + 1 PROVE FALSE
    OBVIOUS
  <2>1. n * EntrySize >= (q + 1) * EntrySize
    BY <1>1, UndoConstantsOK
  <2>2. (q + 1) * EntrySize = EntrySize * q + EntrySize
    BY <1>1, UndoConstantsOK
  <2> DEFINE x == n * EntrySize  y == EntrySize * q  z == (q + 1) * EntrySize
  <2>3. x \in Int /\ y \in Int /\ z \in Int /\ x >= z /\ z = y + EntrySize
        /\ x <= Size /\ Size = y + r
    BY <2>1, <2>2, <1>1, UndoConstantsOK
  <2> HIDE DEF x, y, z
  <2> QED BY <2>3, <1>1, UndoConstantsOK
<1>3. n \in 0 .. q
  BY <1>1, <1>2
<1> QED BY <1>3 DEF q

\* A handle gives back the offset and the length it was packed from.
LEMMA HandleUnpacks ==
    ASSUME NEW off \in Half, NEW len \in Half
    PROVE  /\ pack_bytes_handle(off, len) \in Handle
           /\ HandleOff(pack_bytes_handle(off, len)) = off
           /\ HandleLen(pack_bytes_handle(off, len)) = len
<1> DEFINE M == HalfRange  h == off * M + len
<1>1. M \in Nat \ {0} /\ off \in 0 .. M - 1 /\ len \in 0 .. M - 1
  BY UndoConstantsOK DEF Half
<1>2. h \in Nat
  BY <1>1
<1>3. h <= M * M - 1
  <2>1. off * M <= (M - 1) * M
    BY <1>1
  <2>2. (M - 1) * M = M * M - M
    BY <1>1
  <2> DEFINE x == off * M  y == (M - 1) * M  z == M * M
  <2>3. x \in Int /\ y \in Int /\ z \in Int /\ x <= y /\ y = z - M
    BY <2>1, <2>2, <1>1
  <2> HIDE DEF x, y, z, M
  <2>4. x + len <= z - 1
    BY <2>3, <1>1
  <2> QED BY <2>4 DEF x, z
<1>4. h \div M = off /\ h % M = len
  <2> DEFINE q == h \div M  r == h % M
  <2> HIDE DEF h, M
  <2>1. q \in Int /\ r \in 0 .. M - 1 /\ h = M * q + r
    BY <1>1, <1>2, Division
  <2> HIDE DEF q, r
  <2>2. off * M + len = M * q + r
    BY <2>1 DEF h
  <2>3. M * (off - q) = r - len
    <3>1. M * (off - q) = off * M - M * q
      BY <1>1, <2>1
    <3> DEFINE x == off * M  y == M * q  z == M * (off - q)
    <3>2. x \in Int /\ y \in Int /\ z \in Int /\ x + len = y + r /\ z = x - y
      BY <3>1, <2>2, <1>1, <2>1
    <3> HIDE DEF x, y, z
    <3>3. z = r - len
      BY <3>2, <1>1, <2>1
    <3> QED BY <3>3 DEF z
  <2>4. CASE off - q >= 1
    <3>1. M * (off - q) >= M
      BY <2>4, <1>1, <2>1
    <3> QED BY <3>1, <2>3, <1>1, <2>1
  <2>5. CASE off - q <= 0 - 1
    <3>1. M * (off - q) <= 0 - M
      BY <2>5, <1>1, <2>1
    <3> QED BY <3>1, <2>3, <1>1, <2>1
  <2>6. off = q
    BY <2>4, <2>5, <1>1, <2>1
  <2>7. r = len
    BY <2>6, <2>3, <1>1, <2>1
  <2> QED BY <2>6, <2>7 DEF q, r
<1> QED BY <1>2, <1>3, <1>4, <1>1 DEF pack_bytes_handle, HandleOff, HandleLen, Handle

-----------------------------------------------------------------------------
(* Reading a buffer back.                                                  *)

\* The state-level readers, as functions of the buffer.
EntryIn(b, i) ==
    IF /\ b[i * EntrySize] \in SlotByte
       /\ \A j \in 0 .. EntrySize - 1 :
            b[i * EntrySize + j] = <<b[i * EntrySize][1], b[i * EntrySize][2], j>>
    THEN <<b[i * EntrySize][1], b[i * EntrySize][2]>> ELSE Garbled
BytesIn(b, h) == [k \in 1 .. HandleLen(h) |-> b[HandleOff(h) + k - 1]]
PreImageIn(b, d) == IF d = NoBytes THEN NoBytes ELSE BytesIn(b, d)
ValueIn(b, i) == <<EntryIn(b, i)[1], PreImageIn(b, EntryIn(b, i)[2])>>

Buffer == [Addr -> SlotByte \cup Byte \cup {Zero}]
Val == PreImage \cup {NoBytes}

\* Slot i of b holds the entry <<a, d>>.
Holds(b, i, a, d) == \A j \in 0 .. EntrySize - 1 : b[i * EntrySize + j] = <<a, d, j>>

\* A data word that names nothing, or bytes of the u bytes of arena in use.
Sound(d, u) ==
    d # NoBytes => /\ HandleOff(d) >= Size - u
                   /\ HandleOff(d) + HandleLen(d) <= Size
                   /\ HandleLen(d) <= MaxLen

\* The u bytes of arena hold bytes.
ArenaOK(b, u) == \A k \in Addr : k >= Size - u => b[k] \in Byte

\* The slots and the arena do not meet, every slot in use holds an entry that
\* points into the arena, and the arena holds bytes.
Intact(b, n, u) ==
    /\ n * EntrySize + u <= Size
    /\ \A i \in 0 .. n - 1 : \E a \in Act, d \in Data : Sound(d, u) /\ Holds(b, i, a, d)
    /\ ArenaOK(b, u)

\* A slot that holds an entry reads as that entry.
LEMMA HeldSlotReads ==
    ASSUME NEW b, NEW i \in Nat, NEW a \in Act, NEW d \in Data, Holds(b, i, a, d)
    PROVE  EntryIn(b, i) = <<a, d>>
<1>1. i * EntrySize \in Nat /\ 0 \in 0 .. EntrySize - 1
  BY SlotStart, UndoConstantsOK
<1>2. b[i * EntrySize] = <<a, d, 0>>
  <2>1. b[i * EntrySize + 0] = <<a, d, 0>>
    BY <1>1 DEF Holds
  <2>2. i * EntrySize + 0 = i * EntrySize
    BY <1>1
  <2> QED BY <2>1, <2>2
<1>3. <<a, d, 0>> \in SlotByte
  BY <1>1 DEF SlotByte
<1>4. \A j \in 0 .. EntrySize - 1 :
        b[i * EntrySize + j] = <<b[i * EntrySize][1], b[i * EntrySize][2], j>>
  BY <1>2 DEF Holds
<1> QED BY <1>2, <1>3, <1>4 DEF EntryIn

\* A sound data word's handle splits into naturals.
LEMMA HandleParts ==
    ASSUME NEW d \in Data, d # NoBytes
    PROVE  HandleOff(d) \in Nat /\ HandleLen(d) \in Nat
<1>1. d \in Nat
  BY UndoConstantsOK DEF Data, Handle
<1>2. HalfRange \in Nat \ {0}
  BY UndoConstantsOK
<1> DEFINE q == d \div HalfRange  r == d % HalfRange
<1>3. q \in Int /\ r \in 0 .. HalfRange - 1 /\ d = HalfRange * q + r
  BY <1>1, <1>2, Division
<1> HIDE DEF q, r
<1>4. ~(q <= 0 - 1)
  <2> SUFFICES ASSUME q <= 0 - 1 PROVE FALSE
    OBVIOUS
  <2>1. HalfRange * q <= 0 - HalfRange
    BY <1>2, <1>3
  <2> DEFINE x == HalfRange * q
  <2>2. x \in Int /\ x <= 0 - HalfRange /\ d = x + r
    BY <2>1, <1>2, <1>3
  <2> HIDE DEF x
  <2> QED BY <2>2, <1>1, <1>2, <1>3
<1>5. q \in Nat /\ r \in Nat
  BY <1>3, <1>4, <1>2
<1> QED BY <1>5 DEF q, r, HandleOff, HandleLen

\* The bytes a sound data word names are a pre-image.
LEMMA SoundReads ==
    ASSUME NEW b, NEW u \in 0 .. Size, NEW d \in Data, Sound(d, u),
           ArenaOK(b, u)
    PROVE  /\ PreImageIn(b, d) \in Val
           /\ d # NoBytes => PreImageIn(b, d) # NoBytes /\ HandleOff(d) + HandleLen(d) <= Size
<1>1. CASE d = NoBytes
  BY <1>1 DEF PreImageIn, Val
<1>2. CASE d # NoBytes
  <2>1. HandleOff(d) \in Nat /\ HandleLen(d) \in Nat
    BY <1>2, HandleParts
  <2>2. HandleOff(d) >= Size - u /\ HandleOff(d) + HandleLen(d) <= Size
        /\ HandleLen(d) <= MaxLen
    BY <1>2 DEF Sound
  <2> DEFINE o == HandleOff(d)  l == HandleLen(d)
  <2> HIDE DEF o, l
  <2>3. o \in Nat /\ l \in Nat /\ o >= Size - u /\ o + l <= Size /\ l <= MaxLen
    BY <2>1, <2>2 DEF o, l
  <2>4. \A k \in 1 .. l : b[o + k - 1] \in Byte
    BY <2>3, UndoConstantsOK DEF Addr, ArenaOK
  <2>5. [k \in 1 .. l |-> b[o + k - 1]] \in [1 .. l -> Byte]
    BY <2>4
  <2>6. l \in 0 .. MaxLen
    BY <2>3, UndoConstantsOK
  <2>7. [k \in 1 .. l |-> b[o + k - 1]] \in PreImage
    BY <2>5, <2>6 DEF PreImage
  <2>8. BytesIn(b, d) \in PreImage
    BY <2>7 DEF BytesIn, o, l
  <2>9. PreImageIn(b, d) \in PreImage
    BY <2>8, <1>2 DEF PreImageIn
  <2> QED BY <2>9, <2>2, SentinelsOK DEF Val
<1> QED BY <1>1, <1>2

\* What reading slot i of an intact buffer returns.
LEMMA IntactReads ==
    ASSUME NEW b, NEW n \in Nat, NEW u \in 0 .. Size, Intact(b, n, u), NEW i \in 0 .. n - 1
    PROVE  /\ EntryIn(b, i) \in Act \X Data
           /\ EntryIn(b, i) # Garbled
           /\ EntryIn(b, i)[2] # NoBytes => InBounds(EntryIn(b, i)[2])
           /\ ValueIn(b, i) \in Act \X Val
           /\ ValueIn(b, i)[1] = EntryIn(b, i)[1]
           /\ ValueIn(b, i)[2] = PreImageIn(b, EntryIn(b, i)[2])
<1>1. PICK a \in Act, d \in Data : Sound(d, u) /\ Holds(b, i, a, d)
  BY DEF Intact
<1>2. EntryIn(b, i) = <<a, d>>
  BY <1>1, HeldSlotReads
<1>3. <<a, d>> # Garbled
  BY SentinelsOK DEF Garbled
<1>4. PreImageIn(b, d) \in Val /\ (d # NoBytes => HandleOff(d) + HandleLen(d) <= Size)
  BY <1>1, SoundReads DEF Intact
<1> QED BY <1>2, <1>3, <1>4 DEF InBounds, ValueIn

-----------------------------------------------------------------------------
(* Writing to a buffer.                                                    *)

\* c has the bytes of b's n slots and u bytes of arena.
Keeps(b, c, n, u) ==
    \A k \in Addr : k < n * EntrySize \/ k >= Size - u => c[k] = b[k]

\* A buffer that keeps the bytes of the slots and of the arena in use keeps
\* every entry and every pre-image.
LEMMA KeptSlot ==
    ASSUME NEW b, NEW c, NEW n \in Nat, NEW u \in 0 .. Size, Intact(b, n, u),
           Keeps(b, c, n, u),
           NEW i \in 0 .. n - 1
    PROVE  /\ \E a \in Act, d \in Data : Sound(d, u) /\ Holds(c, i, a, d)
           /\ EntryIn(c, i) = EntryIn(b, i)
           /\ ValueIn(c, i) = ValueIn(b, i)
<1>1. PICK a \in Act, d \in Data : Sound(d, u) /\ Holds(b, i, a, d)
  BY DEF Intact
<1> DEFINE x == i * EntrySize  y == (i + 1) * EntrySize  z == n * EntrySize
<1>2. x \in Nat /\ y = x + EntrySize /\ y <= z /\ z \in Nat /\ z + u <= Size
  BY SlotStart, SlotsOrdered DEF Intact
<1> HIDE DEF x, y, z
<1>3. \A j \in 0 .. EntrySize - 1 : c[x + j] = b[x + j]
  <2> TAKE j \in 0 .. EntrySize - 1
  <2>1. x + j \in Addr /\ x + j < z
    BY <1>2, UndoConstantsOK DEF Addr
  <2> QED BY <2>1 DEF z, Keeps
<1>4. Holds(c, i, a, d)
  BY <1>1, <1>3 DEF Holds, x
<1>5. EntryIn(b, i) = <<a, d>> /\ EntryIn(c, i) = <<a, d>>
  BY <1>1, <1>4, HeldSlotReads
<1>6. PreImageIn(c, d) = PreImageIn(b, d)
  <2>1. CASE d = NoBytes
    BY <2>1 DEF PreImageIn
  <2>2. CASE d # NoBytes
    <3> DEFINE o == HandleOff(d)  l == HandleLen(d)
    <3>1. o \in Nat /\ l \in Nat /\ o >= Size - u /\ o + l <= Size
      BY <1>1, <2>2, HandleParts DEF Sound
    <3> HIDE DEF o, l
    <3>2. \A k \in 1 .. l : c[o + k - 1] = b[o + k - 1]
      <4> TAKE k \in 1 .. l
      <4>1. o + k - 1 \in Addr /\ o + k - 1 >= Size - u
        BY <3>1, UndoConstantsOK DEF Addr
      <4> QED BY <4>1 DEF Keeps
    <3>3. [k \in 1 .. l |-> c[o + k - 1]] = [k \in 1 .. l |-> b[o + k - 1]]
      BY <3>2
    <3>4. BytesIn(c, d) = BytesIn(b, d)
      BY <3>3 DEF BytesIn, o, l
    <3> QED BY <3>4, <2>2 DEF PreImageIn
  <2> QED BY <2>1, <2>2
<1>7. ValueIn(c, i) = ValueIn(b, i)
  BY <1>5, <1>6 DEF ValueIn
<1> QED BY <1>1, <1>4, <1>5, <1>7

\* A larger arena still holds what a sound data word names.
LEMMA SoundGrows ==
    ASSUME NEW d \in Data, NEW u \in 0 .. Size, NEW w \in 0 .. Size, u <= w, Sound(d, u)
    PROVE  Sound(d, w)
<1>1. CASE d = NoBytes
  BY <1>1 DEF Sound
<1>2. CASE d # NoBytes
  BY <1>2, HandleParts, UndoConstantsOK DEF Sound
<1> QED BY <1>1, <1>2

\* b became c by one more slot, with or without bytes, written into the gap
\* between slots and arena, which now takes w bytes.
GapWrite(b, c, n, u, a, d, w) ==
    /\ n \in Nat /\ u \in 0 .. Size /\ w \in 0 .. Size /\ u <= w
    /\ Intact(b, n, u) /\ Keeps(b, c, n, u)
    /\ a \in Act /\ d \in Data /\ Holds(c, n, a, d) /\ Sound(d, w)
    /\ (n + 1) * EntrySize + w <= Size
    /\ ArenaOK(c, w)

\* A write into the gap leaves the log intact and every older entry as it was.
LEMMA GapWritten ==
    ASSUME NEW b, NEW c, NEW n, NEW u, NEW a, NEW d, NEW w, GapWrite(b, c, n, u, a, d, w)
    PROVE  /\ Intact(c, n + 1, w)
           /\ \A i \in 0 .. n - 1 : ValueIn(c, i) = ValueIn(b, i)
           /\ ValueIn(c, n) = <<a, PreImageIn(c, d)>>
<1> USE DEF GapWrite
<1>1. ASSUME NEW i \in 0 .. n
      PROVE  \E aa \in Act, dd \in Data : Sound(dd, w) /\ Holds(c, i, aa, dd)
  <2>1. CASE i = n
    BY <2>1
  <2>2. CASE i # n
    <3>1. i \in 0 .. n - 1
      BY <1>1, <2>2
    <3>2. PICK aa \in Act, dd \in Data : Sound(dd, u) /\ Holds(c, i, aa, dd)
      BY <3>1, KeptSlot
    <3>3. Sound(dd, w)
      BY <3>2, SoundGrows
    <3> QED BY <3>2, <3>3
  <2> QED BY <2>1, <2>2
<1>2. \A i \in 0 .. (n + 1) - 1 :
        \E aa \in Act, dd \in Data : Sound(dd, w) /\ Holds(c, i, aa, dd)
  BY <1>1
<1>3. Intact(c, n + 1, w)
  BY <1>2 DEF Intact
<1>4. \A i \in 0 .. n - 1 : ValueIn(c, i) = ValueIn(b, i)
  BY KeptSlot
<1>5. EntryIn(c, n) = <<a, d>>
  BY HeldSlotReads
<1> QED BY <1>3, <1>4, <1>5 DEF ValueIn

\* WriteEntry writes the slot and nothing else.
LEMMA EntryWritten ==
    ASSUME NEW b \in Buffer, NEW n \in Nat, NEW a \in Act, NEW d \in Data,
           (n + 1) * EntrySize <= Size
    PROVE  /\ WriteEntry(b, n, a, d) \in Buffer
           /\ Holds(WriteEntry(b, n, a, d), n, a, d)
           /\ \A k \in Addr : k < n * EntrySize \/ k >= (n + 1) * EntrySize =>
                WriteEntry(b, n, a, d)[k] = b[k]
<1> DEFINE x == n * EntrySize  y == (n + 1) * EntrySize  c == WriteEntry(b, n, a, d)
<1>1. x \in Nat /\ y = x + EntrySize /\ y <= Size
  BY SlotStart
<1>2. c = [k \in Addr |-> IF k >= x /\ k < y THEN <<a, d, k - x>> ELSE b[k]]
  BY DEF WriteEntry
<1> HIDE DEF x, y, c
<1>3. ASSUME NEW k \in Addr
      PROVE  c[k] \in SlotByte \cup Byte \cup {Zero}
  <2>1. b[k] \in SlotByte \cup Byte \cup {Zero}
    BY <1>3 DEF Buffer
  <2>2. CASE k >= x /\ k < y
    <3>1. k - x \in 0 .. EntrySize - 1
      BY <1>1, <1>3, <2>2, UndoConstantsOK DEF Addr
    <3>2. <<a, d, k - x>> \in SlotByte
      BY <3>1 DEF SlotByte
    <3> QED BY <3>2, <1>2, <1>3, <2>2
  <2> QED BY <2>1, <2>2, <1>2, <1>3
<1>4. c \in Buffer
  BY <1>2, <1>3 DEF Buffer
<1>5. \A j \in 0 .. EntrySize - 1 : c[x + j] = <<a, d, j>>
  <2> TAKE j \in 0 .. EntrySize - 1
  <2>1. x + j \in Addr /\ x + j >= x /\ x + j < y /\ (x + j) - x = j
    BY <1>1, UndoConstantsOK DEF Addr
  <2> QED BY <2>1, <1>2
<1>6. \A k \in Addr : k < x \/ k >= y => c[k] = b[k]
  BY <1>1, <1>2, UndoConstantsOK DEF Addr
<1> QED BY <1>4, <1>5, <1>6 DEF Holds, x, y, c

\* CopyBytes writes the bytes and nothing else.
LEMMA BytesCopied ==
    ASSUME NEW b \in Buffer, NEW v \in PreImage, NEW off \in Nat, off + Len(v) <= Size
    PROVE  /\ CopyBytes(b, off, v) \in Buffer
           /\ \A k \in Addr : k < off \/ k >= off + Len(v) =>
                CopyBytes(b, off, v)[k] = b[k]
           /\ \A k \in 1 .. Len(v) : CopyBytes(b, off, v)[off + k - 1] = v[k]
           /\ \A k \in Addr : k >= off /\ k < off + Len(v) =>
                CopyBytes(b, off, v)[k] \in Byte
<1>1. PICK l \in 0 .. MaxLen : v \in [1 .. l -> Byte]
  BY DEF PreImage
<1>2. l \in Nat /\ Len(v) = l
  BY <1>1, UndoConstantsOK
<1> DEFINE c == CopyBytes(b, off, v)
<1>3. c = [k \in Addr |-> IF k >= off /\ k < off + l THEN v[k - off + 1] ELSE b[k]]
  BY <1>2 DEF CopyBytes
<1> HIDE DEF c
<1>4. \A k \in Addr : k >= off /\ k < off + l => c[k] \in Byte
  <2> SUFFICES ASSUME NEW k \in Addr, k >= off, k < off + l PROVE c[k] \in Byte
    OBVIOUS
  <2>1. k - off + 1 \in 1 .. l
    BY <1>2, UndoConstantsOK DEF Addr
  <2> QED BY <2>1, <1>1, <1>3
<1>5. \A k \in Addr : k < off \/ k >= off + l => c[k] = b[k]
  BY <1>2, <1>3, UndoConstantsOK DEF Addr
<1>6. \A k \in Addr : c[k] \in SlotByte \cup Byte \cup {Zero}
  <2> TAKE k \in Addr
  <2>1. b[k] \in SlotByte \cup Byte \cup {Zero}
    BY DEF Buffer
  <2>2. (k >= off /\ k < off + l) \/ k < off \/ k >= off + l
    BY <1>2, UndoConstantsOK DEF Addr
  <2> QED BY <2>1, <2>2, <1>4, <1>5
<1>7. c \in Buffer
  BY <1>3, <1>6 DEF Buffer
<1>8. \A k \in 1 .. l : c[off + k - 1] = v[k]
  <2> TAKE k \in 1 .. l
  <2>1. off + k - 1 \in Addr /\ off + k - 1 >= off /\ off + k - 1 < off + l
        /\ (off + k - 1) - off + 1 = k
    BY <1>2, UndoConstantsOK DEF Addr
  <2> QED BY <2>1, <1>3
<1> QED BY <1>2, <1>4, <1>5, <1>7, <1>8 DEF c

\* Pushing an entry without a pre-image.
LEMMA EntryPushed ==
    ASSUME NEW b \in Buffer, NEW n \in Nat, NEW u \in 0 .. Size, Intact(b, n, u),
           NEW a \in Act, (n + 1) * EntrySize + u <= Size
    PROVE  LET c == WriteEntry(b, n, a, NoBytes) IN
             /\ c \in Buffer /\ Intact(c, n + 1, u)
             /\ \A i \in 0 .. n - 1 : ValueIn(c, i) = ValueIn(b, i)
             /\ ValueIn(c, n) = <<a, NoBytes>>
<1> DEFINE c == WriteEntry(b, n, a, NoBytes)  y == (n + 1) * EntrySize
<1>1. y \in Nat /\ y + u <= Size /\ y <= Size /\ NoBytes \in Data
  BY SlotStart, UndoConstantsOK DEF Data
<1>2. c \in Buffer /\ Holds(c, n, a, NoBytes)
      /\ \A k \in Addr : k < n * EntrySize \/ k >= y => c[k] = b[k]
  BY <1>1, EntryWritten
<1> HIDE DEF c, y
<1>3. Keeps(b, c, n, u)
  BY <1>1, <1>2, UndoConstantsOK DEF Addr, Keeps
<1>4. ArenaOK(c, u)
  BY <1>3 DEF Intact, ArenaOK, Keeps
<1>5. Sound(NoBytes, u) /\ PreImageIn(c, NoBytes) = NoBytes
  BY DEF Sound, PreImageIn
<1>6. y + u <= Size /\ u <= u
  BY <1>1
<1>7. GapWrite(b, c, n, u, a, NoBytes, u)
  BY <1>1, <1>2, <1>3, <1>4, <1>5, <1>6 DEF y, GapWrite
<1>8. /\ Intact(c, n + 1, u)
      /\ \A i \in 0 .. n - 1 : ValueIn(c, i) = ValueIn(b, i)
      /\ ValueIn(c, n) = <<a, PreImageIn(c, NoBytes)>>
  BY <1>7, GapWritten
<1> QED BY <1>2, <1>5, <1>8 DEF c

\* Pushing an entry with its pre-image.
LEMMA BytesPushed ==
    ASSUME NEW b \in Buffer, NEW n \in Nat, NEW u \in 0 .. Size, Intact(b, n, u),
           NEW a \in Act, NEW v \in PreImage,
           (n + 1) * EntrySize + u + Len(v) <= Size
    PROVE  LET w == u + Len(v)
               h == pack_bytes_handle(Size - w, Len(v))
               c == CopyBytes(WriteEntry(b, n, a, h), Size - w, v)
           IN /\ w \in 0 .. Size /\ Size - w \in Half /\ Len(v) \in Half
              /\ c \in Buffer /\ Intact(c, n + 1, w)
              /\ \A i \in 0 .. n - 1 : ValueIn(c, i) = ValueIn(b, i)
              /\ ValueIn(c, n) = <<a, v>>
<1> DEFINE l == Len(v)  w == u + l  off == Size - w
           h == pack_bytes_handle(off, l)
           d == WriteEntry(b, n, a, h)
           c == CopyBytes(d, off, v)
           x == n * EntrySize
           y == (n + 1) * EntrySize
<1>1. l \in 0 .. MaxLen /\ v \in [1 .. l -> Byte]
  <2>1. PICK m \in 0 .. MaxLen : v \in [1 .. m -> Byte]
    BY DEF PreImage
  <2>2. Len(v) = m
    BY <2>1, UndoConstantsOK
  <2> QED BY <2>1, <2>2
<1>2. x \in Nat /\ y = x + EntrySize /\ y \in Nat /\ y + u + l <= Size
  BY SlotStart
<1> HIDE DEF l, x, y
<1>3. w \in 0 .. Size /\ off \in Nat /\ off + l = Size - u /\ off \in Half /\ l \in Half
      /\ y <= off /\ y <= Size /\ u <= w /\ y + w <= Size /\ off + l <= Size
  BY <1>1, <1>2, UndoConstantsOK DEF Half
<1> HIDE DEF w, off
<1>4. h \in Handle /\ HandleOff(h) = off /\ HandleLen(h) = l
  BY <1>3, HandleUnpacks
<1> HIDE DEF h
<1>5. h \in Data /\ h # NoBytes
  BY <1>4, SentinelsOK DEF Data
<1>6. d \in Buffer /\ Holds(d, n, a, h)
      /\ \A k \in Addr : k < x \/ k >= y => d[k] = b[k]
  BY <1>3, <1>5, EntryWritten DEF x, y
<1> HIDE DEF d
<1>7. /\ c \in Buffer
      /\ \A k \in Addr : k < off \/ k >= off + l => c[k] = d[k]
      /\ \A k \in 1 .. l : c[off + k - 1] = v[k]
      /\ \A k \in Addr : k >= off /\ k < off + l => c[k] \in Byte
  <2>1. off + Len(v) <= Size
    BY <1>3 DEF l
  <2> QED BY <2>1, <1>3, <1>6, BytesCopied DEF l
<1> HIDE DEF c
<1>8. Keeps(b, c, n, u)
  <2> SUFFICES ASSUME NEW k \in Addr, k < x \/ k >= Size - u PROVE c[k] = b[k]
    BY DEF Keeps, x
  <2>1. (k < off \/ k >= off + l) /\ (k < x \/ k >= y)
    BY <1>1, <1>2, <1>3, UndoConstantsOK DEF Addr
  <2> QED BY <2>1, <1>6, <1>7
<1>9. Holds(c, n, a, h)
  <2> SUFFICES ASSUME NEW j \in 0 .. EntrySize - 1 PROVE c[x + j] = <<a, h, j>>
    BY DEF Holds, x
  <2>1. x + j \in Addr /\ x + j < off
    BY <1>2, <1>3, UndoConstantsOK DEF Addr
  <2>2. c[x + j] = d[x + j]
    BY <2>1, <1>7
  <2> QED BY <2>2, <1>6 DEF Holds, x
<1>10. ArenaOK(c, w)
  <2> SUFFICES ASSUME NEW k \in Addr, k >= Size - w PROVE c[k] \in Byte
    BY DEF ArenaOK
  <2>1. k >= off
    BY DEF off
  <2>2. CASE k < off + l
    BY <2>1, <2>2, <1>7
  <2>3. CASE k >= off + l
    <3>1. k >= Size - u
      BY <2>3, <1>3
    <3>2. b[k] \in Byte
      BY <3>1 DEF Intact, ArenaOK
    <3> QED BY <3>1, <3>2, <1>8 DEF Keeps
  <2>4. k < off + l \/ k >= off + l
    BY <1>1, <1>3, UndoConstantsOK DEF Addr
  <2> QED BY <2>2, <2>3, <2>4
<1>11. Sound(h, w)
  <2>1. off >= Size - w
    BY <1>3, UndoConstantsOK DEF off
  <2> QED BY <2>1, <1>1, <1>3, <1>4, UndoConstantsOK DEF Sound
<1>12. PreImageIn(c, h) = v
  <2>1. [k \in 1 .. l |-> c[off + k - 1]] = v
    BY <1>1, <1>7
  <2> QED BY <2>1, <1>4, <1>5 DEF PreImageIn, BytesIn
<1>13. /\ Intact(c, n + 1, w)
       /\ \A i \in 0 .. n - 1 : ValueIn(c, i) = ValueIn(b, i)
       /\ ValueIn(c, n) = <<a, PreImageIn(c, h)>>
  <2>1. GapWrite(b, c, n, u, a, h, w)
    BY <1>3, <1>5, <1>8, <1>9, <1>10, <1>11 DEF y, GapWrite
  <2> QED BY <2>1, GapWritten
<1>14. /\ w \in 0 .. Size /\ off \in Half /\ l \in Half
       /\ c \in Buffer /\ Intact(c, n + 1, w)
       /\ \A i \in 0 .. n - 1 : ValueIn(c, i) = ValueIn(b, i)
       /\ ValueIn(c, n) = <<a, v>>
  BY <1>3, <1>7, <1>12, <1>13
<1> QED BY <1>14 DEF c, d, h, off, w, l

-----------------------------------------------------------------------------
(* The inductive invariant.                                                *)

\* What the walk's position says of the log.
WalkOK ==
    /\ phase \in {"open", "done"} => pos = 0
    /\ phase = "done" => nentries = 0

LogInv == TypeOK /\ WalkOK /\ Intact(buf, nentries, arena_used)

\* The types the arithmetic below needs.
LEMMA LogTyped ==
    ASSUME LogInv
    PROVE  buf \in Buffer /\ nentries \in Nat /\ arena_used \in 0 .. Size
           /\ pos \in Nat /\ pos <= nentries
<1>1. nentries \in Nat
  BY UndoConstantsOK DEF LogInv, TypeOK
<1> QED BY <1>1 DEF LogInv, TypeOK, Buffer

\* An empty log is intact whatever the buffer holds.
LEMMA IntactEmpty ==
    ASSUME NEW b
    PROVE  Intact(b, 0, 0)
<1>1. 0 * EntrySize + 0 <= Size
  BY UndoConstantsOK
<1>2. \A i \in 0 .. 0 - 1 : FALSE
  OBVIOUS
<1>3. \A k \in Addr : ~(k >= Size - 0)
  BY UndoConstantsOK DEF Addr
<1> QED BY <1>1, <1>2, <1>3 DEF Intact, ArenaOK

\* A fresh buffer satisfies the invariant.
LEMMA InitLog == Init => LogInv
<1> SUFFICES ASSUME Init PROVE LogInv
  OBVIOUS
<1>1. Intact(buf, nentries, arena_used)
  BY IntactEmpty DEF Init
<1>2. 0 \in 0 .. Size \div EntrySize
  <2>1. 0 * EntrySize <= Size
    BY UndoConstantsOK
  <2> QED BY <2>1, SlotCount
<1>3. TypeOK
  BY <1>2, UndoConstantsOK DEF Init, TypeOK
<1>4. WalkOK
  BY DEF Init, WalkOK
<1> QED BY <1>1, <1>3, <1>4 DEF LogInv

-----------------------------------------------------------------------------
(* The refinement mapping as a function of the buffer.                     *)

\* The values of the slots from lo up to hi.
Decoded(b, lo, hi) == [k \in 1 .. hi - lo |-> ValueIn(b, lo + k - 1)]

\* The refinement mapping before and after a step, as decoded ranges of slots.
LEMMA UnwalkedDecoded ==
    /\ Unwalked = Decoded(buf, IF phase = "commit" THEN pos ELSE 0,
                               IF phase = "undo" THEN pos ELSE nentries)
    /\ Unwalked' = Decoded(buf', IF phase' = "commit" THEN pos' ELSE 0,
                                 IF phase' = "undo" THEN pos' ELSE nentries')
<1>1. Unwalked = Decoded(buf, IF phase = "commit" THEN pos ELSE 0,
                              IF phase = "undo" THEN pos ELSE nentries)
  BY DEF Unwalked, Decoded, ValueIn, EntryIn, PreImageIn, BytesIn,
         entry_at, PreImageOf, bytes_from_handle
<1>2. Unwalked' = Decoded(buf', IF phase' = "commit" THEN pos' ELSE 0,
                                IF phase' = "undo" THEN pos' ELSE nentries')
  BY DEF Unwalked, Decoded, ValueIn, EntryIn, PreImageIn, BytesIn,
         entry_at, PreImageOf, bytes_from_handle
<1> QED BY <1>1, <1>2

\* The sequence s holds the values of the m slots from lo.
Decodes(s, b, lo, m) ==
    /\ s \in Seq(Act \X Val) /\ Len(s) = m
    /\ \A k \in 1 .. m : s[k] = ValueIn(b, lo + k - 1)

\* A range of slots decodes to a sequence with one value for each slot.
LEMMA DecodedSeq ==
    ASSUME NEW b, NEW n \in Nat, NEW u \in 0 .. Size, Intact(b, n, u),
           NEW lo \in Nat, NEW hi \in Nat, lo <= hi, hi <= n
    PROVE  Decodes(Decoded(b, lo, hi), b, lo, hi - lo)
<1> DEFINE m == hi - lo  s == Decoded(b, lo, hi)
<1>1. m \in Nat
  OBVIOUS
<1>2. s = [k \in 1 .. m |-> ValueIn(b, lo + k - 1)]
  BY DEF Decoded
<1>3. \A k \in 1 .. m : ValueIn(b, lo + k - 1) \in Act \X Val
  <2> TAKE k \in 1 .. m
  <2>1. lo + k - 1 \in 0 .. n - 1
    OBVIOUS
  <2> QED BY <2>1, IntactReads
<1> HIDE DEF m, s
<1>4. s \in [1 .. m -> Act \X Val]
  BY <1>2, <1>3
<1>5. s \in Seq(Act \X Val) /\ Len(s) = m
  BY <1>1, <1>4
<1> QED BY <1>2, <1>5 DEF m, s, Decodes

\* Nothing is left between two equal positions.
LEMMA DecodedEmpty ==
    ASSUME NEW b, NEW lo \in Nat
    PROVE  Decoded(b, lo, lo) = << >>
  BY DEF Decoded

\* One more slot appends its value.
LEMMA DecodedPush ==
    ASSUME NEW b, NEW c, NEW n \in Nat, NEW u \in 0 .. Size, NEW w \in 0 .. Size,
           Intact(b, n, u), Intact(c, n + 1, w),
           \A i \in 0 .. n - 1 : ValueIn(c, i) = ValueIn(b, i)
    PROVE  Decoded(c, 0, n + 1) = Append(Decoded(b, 0, n), ValueIn(c, n))
<1> DEFINE s == Decoded(b, 0, n)  t == Decoded(c, 0, n + 1)  v == ValueIn(c, n)
           a == Append(s, v)  S == Act \X Val
<1>1. s \in Seq(S) /\ Len(s) = n /\ \A k \in 1 .. n : s[k] = ValueIn(b, k - 1)
  <2>1. 0 \in Nat /\ 0 <= n /\ n <= n /\ n - 0 = n
    OBVIOUS
  <2>2. Decodes(s, b, 0, n - 0)
    BY <2>1, DecodedSeq, Zenon
  <2>3. \A k \in 1 .. n : 0 + k - 1 = k - 1
    OBVIOUS
  <2> QED BY <2>1, <2>2, <2>3 DEF Decodes
<1>2. t \in Seq(S) /\ Len(t) = n + 1 /\ \A k \in 1 .. n + 1 : t[k] = ValueIn(c, k - 1)
  <2>1. 0 \in Nat /\ n + 1 \in Nat /\ 0 <= n + 1 /\ n + 1 <= n + 1 /\ (n + 1) - 0 = n + 1
    OBVIOUS
  <2>2. Decodes(t, c, 0, (n + 1) - 0)
    BY <2>1, DecodedSeq, Zenon
  <2>3. \A k \in 1 .. n + 1 : 0 + k - 1 = k - 1
    OBVIOUS
  <2> QED BY <2>1, <2>2, <2>3 DEF Decodes
<1>3. v \in S
  <2>1. n + 1 \in Nat /\ n \in 0 .. (n + 1) - 1
    OBVIOUS
  <2> QED BY <2>1, IntactReads
<1> HIDE DEF s, t, v, S
<1>4. a \in Seq(S) /\ Len(a) = n + 1 /\ a[n + 1] = v /\ \A k \in 1 .. n : a[k] = s[k]
  BY <1>1, <1>3, AppendProperties
<1> HIDE DEF a
<1>5. \A k \in 1 .. n + 1 : t[k] = a[k]
  <2> TAKE k \in 1 .. n + 1
  <2>1. CASE k = n + 1
    <3>1. t[n + 1] = ValueIn(c, n)
      <4>1. (n + 1) - 1 = n /\ n + 1 \in 1 .. n + 1
        OBVIOUS
      <4> QED BY <4>1, <1>2
    <3> QED BY <3>1, <2>1, <1>4 DEF v
  <2>2. CASE k # n + 1
    <3>1. k \in 1 .. n /\ k - 1 \in 0 .. n - 1
      BY <2>2
    <3> QED BY <3>1, <1>1, <1>2, <1>4
  <2> QED BY <2>1, <2>2
<1>6. t = a
  BY <1>2, <1>4, <1>5, SeqEqual
<1> QED BY <1>6 DEF t, a, s, v

\* Walking back drops the last value.
LEMMA DecodedUndo ==
    ASSUME NEW b, NEW n \in Nat, NEW u \in 0 .. Size, Intact(b, n, u),
           NEW p \in 1 .. n
    PROVE  LET s == Decoded(b, 0, p) IN
             /\ s # << >> /\ s[Len(s)] = ValueIn(b, p - 1)
             /\ Decoded(b, 0, p - 1) = SubSeq(s, 1, Len(s) - 1)
<1> DEFINE s == Decoded(b, 0, p)  t == Decoded(b, 0, p - 1)  S == Act \X Val
           r == SubSeq(s, 1, p - 1)
<1>1. s \in Seq(S) /\ Len(s) = p /\ \A k \in 1 .. p : s[k] = ValueIn(b, k - 1)
  <2>1. 0 \in Nat /\ p \in Nat /\ 0 <= p /\ p <= n /\ p - 0 = p
    OBVIOUS
  <2>2. Decodes(s, b, 0, p - 0)
    BY <2>1, DecodedSeq, Zenon
  <2>3. \A k \in 1 .. p : 0 + k - 1 = k - 1
    OBVIOUS
  <2> QED BY <2>1, <2>2, <2>3 DEF Decodes
<1>2. t \in Seq(S) /\ Len(t) = p - 1 /\ \A k \in 1 .. p - 1 : t[k] = ValueIn(b, k - 1)
  <2>1. 0 \in Nat /\ p - 1 \in Nat /\ 0 <= p - 1 /\ p - 1 <= n /\ (p - 1) - 0 = p - 1
    OBVIOUS
  <2>2. Decodes(t, b, 0, (p - 1) - 0)
    BY <2>1, DecodedSeq, Zenon
  <2>3. \A k \in 1 .. p - 1 : 0 + k - 1 = k - 1
    OBVIOUS
  <2> QED BY <2>1, <2>2, <2>3 DEF Decodes
<1> HIDE DEF s, t, S
<1>3. r \in Seq(S) /\ Len(r) = p - 1 /\ \A k \in 1 .. p - 1 : r[k] = s[k]
  <2>1. \A k \in 1 .. p - 1 : s[k] \in S
    BY <1>1
  <2>2. /\ r \in Seq(S)
        /\ Len(r) = IF 1 <= p - 1 THEN (p - 1) - 1 + 1 ELSE 0
        /\ \A k \in 1 .. (p - 1) - 1 + 1 : r[k] = s[1 + k - 1]
    BY <2>1, SubSeqProperties
  <2>3. \A k \in 1 .. p - 1 : 1 + k - 1 = k
    OBVIOUS
  <2> QED BY <2>2, <2>3
<1> HIDE DEF r
<1>4. t = r
  BY <1>1, <1>2, <1>3, SeqEqual
<1>5. s # << >> /\ s[Len(s)] = ValueIn(b, p - 1)
  BY <1>1
<1>6. Decoded(b, 0, p - 1) = SubSeq(s, 1, Len(s) - 1)
  BY <1>1, <1>4 DEF t, r
<1> QED BY <1>5, <1>6 DEF s

\* Walking forward drops the first value.
LEMMA DecodedCommit ==
    ASSUME NEW b, NEW n \in Nat, NEW u \in 0 .. Size, Intact(b, n, u),
           NEW p \in 0 .. n - 1
    PROVE  LET s == Decoded(b, p, n) IN
             /\ s # << >> /\ Head(s) = ValueIn(b, p)
             /\ Decoded(b, p + 1, n) = Tail(s)
<1> DEFINE s == Decoded(b, p, n)  t == Decoded(b, p + 1, n)  S == Act \X Val  r == Tail(s)
<1>1. s \in Seq(S) /\ Len(s) = n - p /\ \A k \in 1 .. n - p : s[k] = ValueIn(b, p + k - 1)
  <2>1. p \in Nat /\ p <= n /\ n <= n
    OBVIOUS
  <2>2. Decodes(s, b, p, n - p)
    BY <2>1, DecodedSeq, Zenon
  <2> QED BY <2>2 DEF Decodes
<1>2. /\ t \in Seq(S) /\ Len(t) = n - p - 1
      /\ \A k \in 1 .. n - p - 1 : t[k] = ValueIn(b, p + k)
  <2>1. p + 1 \in Nat /\ p + 1 <= n /\ n <= n /\ n - (p + 1) = n - p - 1
    OBVIOUS
  <2>2. Decodes(t, b, p + 1, n - (p + 1))
    BY <2>1, DecodedSeq, Zenon
  <2>3. \A k \in 1 .. n - p - 1 : (p + 1) + k - 1 = p + k
    OBVIOUS
  <2> QED BY <2>1, <2>2, <2>3 DEF Decodes
<1> HIDE DEF s, t, S
<1>3. s # << >> /\ Head(s) = s[1]
  BY <1>1
<1>4. r \in Seq(S) /\ Len(r) = n - p - 1 /\ \A k \in 1 .. n - p - 1 : r[k] = s[k + 1]
  BY <1>1, <1>3, HeadTailProperties
<1> HIDE DEF r
<1>5. \A k \in 1 .. n - p - 1 : s[k + 1] = ValueIn(b, p + k)
  <2> TAKE k \in 1 .. n - p - 1
  <2>1. k + 1 \in 1 .. n - p /\ p + (k + 1) - 1 = p + k
    OBVIOUS
  <2> QED BY <2>1, <1>1
<1>6. t = r
  BY <1>2, <1>4, <1>5, SeqEqual
<1>7. Head(s) = ValueIn(b, p)
  <2>1. 1 \in 1 .. n - p /\ p + 1 - 1 = p
    OBVIOUS
  <2> QED BY <2>1, <1>1, <1>3
<1> QED BY <1>3, <1>6, <1>7 DEF s, t, r

-----------------------------------------------------------------------------
(* Every step keeps the invariant and is a step of the stack.              *)

\* The room the mapping sees, as the push guards count it.
Room == Size - (nentries * EntrySize + arena_used)

\* The bytes left, as the overflow check of a push counts them.
LEMMA RoomCounts ==
    ASSUME LogInv, NEW len \in Nat
    PROVE  /\ Room \in Nat
           /\ Fits(len) <=> EntrySize + len <= Room
           /\ Size - ((nentries + 1) * EntrySize + (arena_used + len)) = Room - (EntrySize + len)
           /\ Fits(len) => (nentries + 1) * EntrySize + arena_used + len <= Size
<1> DEFINE x == nentries * EntrySize  y == (nentries + 1) * EntrySize
<1>1. nentries \in Nat /\ arena_used \in 0 .. Size
  BY LogTyped
<1>2. x \in Nat /\ y = x + EntrySize /\ x + arena_used <= Size
  BY <1>1, SlotStart DEF LogInv, Intact
<1>3. Room = Size - (x + arena_used)
  BY DEF Room
<1>4. Fits(len) <=> y + arena_used + len <= Size
  BY DEF Fits
<1> HIDE DEF x, y
<1>5. /\ Room \in Nat
      /\ Fits(len) <=> EntrySize + len <= Room
      /\ Size - (y + (arena_used + len)) = Room - (EntrySize + len)
      /\ Fits(len) => y + arena_used + len <= Size
  BY <1>1, <1>2, <1>3, <1>4, UndoConstantsOK
<1> QED BY <1>5 DEF y

\* While the log is open the mapping decodes every slot.
LEMMA OpenUnwalked ==
    ASSUME phase = "open"
    PROVE  Unwalked = Decoded(buf, 0, nentries)
  BY UnwalkedDecoded

\* The buffer of an open log that grew by one slot.
LEMMA GrownLog ==
    ASSUME LogInv, phase = "open", phase' = "open", pos' = pos,
           nentries' = nentries + 1, arena_used' \in 0 .. Size,
           buf' \in Buffer, Intact(buf', nentries + 1, arena_used')
    PROVE  LogInv'
<1>1. nentries \in Nat /\ pos = 0
  BY LogTyped DEF LogInv, WalkOK
<1>2. nentries + 1 \in 0 .. Size \div EntrySize
  <2>1. PICK y, w : y = (nentries + 1) * EntrySize /\ w = arena_used'
    OBVIOUS
  <2>2. y \in Nat /\ w \in Nat /\ y + w <= Size
    <3>1. nentries + 1 \in Nat
      BY <1>1
    <3>2. y \in Nat
      BY <2>1, <3>1, SlotStart
    <3>3. w \in Nat
      BY <2>1, UndoConstantsOK
    <3>4. y + w <= Size
      BY <2>1 DEF Intact
    <3> QED BY <3>2, <3>3, <3>4
  <2>3. y <= Size
    BY <2>2, UndoConstantsOK
  <2> QED BY <1>1, <2>1, <2>3, SlotCount
<1>3. TypeOK'
  BY <1>1, <1>2 DEF TypeOK, Buffer
<1>4. WalkOK'
  BY <1>1 DEF WalkOK
<1>5. Intact(buf, nentries, arena_used)'
  BY DEF Intact, Sound, Holds, ArenaOK
<1> QED BY <1>3, <1>4, <1>5 DEF LogInv

\* A push without a pre-image, accepted or refused, is a push on the stack.
LEMMA StepPushEntry ==
    ASSUME LogInv, NEW a \in Act, PushEntry(a)
    PROVE  LogInv' /\ Stack!Push(a, NoBytes)
<1>1. /\ phase = "open" /\ phase' = "open" /\ pos' = pos /\ arena_used' = arena_used
      /\ buf \in Buffer /\ nentries \in Nat /\ arena_used \in 0 .. Size
      /\ Intact(buf, nentries, arena_used)
  BY LogTyped DEF PushEntry, LogInv
<1>2. Stack!Cost(NoBytes) = EntrySize + 0
  BY DEF Stack!Cost
<1>3. Unwalked = Decoded(buf, 0, nentries) /\ Unwalked' = Decoded(buf', 0, nentries')
  BY <1>1, UnwalkedDecoded
<1>4. CASE Fits(0)
  <2>1. buf' = WriteEntry(buf, nentries, a, NoBytes) /\ nentries' = nentries + 1 /\ res' = Ok
    BY <1>4 DEF PushEntry
  <2>2. (nentries + 1) * EntrySize + arena_used <= Size
    <3> DEFINE y == (nentries + 1) * EntrySize
    <3>1. y + arena_used + 0 <= Size /\ y \in Nat
      BY <1>1, <1>4, RoomCounts, SlotStart
    <3> HIDE DEF y
    <3>2. y + arena_used <= Size
      BY <3>1, <1>1, UndoConstantsOK
    <3> QED BY <3>2 DEF y
  <2>3. PICK c : c = WriteEntry(buf, nentries, a, NoBytes)
    OBVIOUS
  <2>4. /\ c \in Buffer /\ Intact(c, nentries + 1, arena_used)
        /\ \A i \in 0 .. nentries - 1 : ValueIn(c, i) = ValueIn(buf, i)
        /\ ValueIn(c, nentries) = <<a, NoBytes>>
    BY <1>1, <2>2, <2>3, EntryPushed
  <2>5. LogInv'
    BY <1>1, <2>1, <2>3, <2>4, GrownLog
  <2>6. Unwalked' = Append(Unwalked, <<a, NoBytes>>)
    BY <1>1, <1>3, <2>1, <2>3, <2>4, DecodedPush
  <2>7. Room' = Room - (EntrySize + 0) /\ EntrySize + 0 <= Room
    <3>1. Room' = Size - ((nentries + 1) * EntrySize + (arena_used + 0))
      BY <1>1, <2>1 DEF Room
    <3> QED BY <3>1, <1>4, RoomCounts
  <2> QED BY <1>1, <1>2, <2>1, <2>5, <2>6, <2>7 DEF Stack!Push, Stack!Ok, Ok, Room
<1>5. CASE ~Fits(0)
  <2>1. buf' = buf /\ nentries' = nentries /\ res' = UndoLogFull
    BY <1>5 DEF PushEntry
  <2>2. LogInv'
    BY <1>1, <2>1 DEF LogInv, TypeOK, WalkOK, Intact, Sound, Holds, ArenaOK
  <2>3. Unwalked' = Unwalked /\ Room' = Room
    BY <1>1, <1>3, <2>1 DEF Room
  <2>4. ~(EntrySize + 0 <= Room)
    BY <1>5, RoomCounts
  <2> QED BY <1>1, <1>2, <2>1, <2>2, <2>3, <2>4 DEF Stack!Push, Stack!Full, UndoLogFull, Room
<1> QED BY <1>4, <1>5

\* A push with a pre-image, accepted or refused, is a push on the stack.
LEMMA StepPushBytes ==
    ASSUME LogInv, NEW a \in Act, NEW v \in PreImage, PushBytes(a, v)
    PROVE  LogInv' /\ Stack!Push(a, v)
<1>1. /\ phase = "open" /\ phase' = "open" /\ pos' = pos
      /\ buf \in Buffer /\ nentries \in Nat /\ arena_used \in 0 .. Size
      /\ Intact(buf, nentries, arena_used)
  BY LogTyped DEF PushBytes, LogInv
<1>2. PICK len \in 0 .. MaxLen : len = Len(v)
  <2>1. PICK m \in 0 .. MaxLen : v \in [1 .. m -> Byte]
    BY DEF PreImage
  <2>2. Len(v) = m
    BY <2>1, UndoConstantsOK
  <2> QED BY <2>2
<1>3. len \in Nat
  BY UndoConstantsOK
<1>4. Stack!Cost(v) = EntrySize + len
  BY <1>2, SentinelsOK DEF Stack!Cost
<1>5. Unwalked = Decoded(buf, 0, nentries) /\ Unwalked' = Decoded(buf', 0, nentries')
  BY <1>1, UnwalkedDecoded
<1>6. CASE Fits(len)
  <2>1. (nentries + 1) * EntrySize + arena_used + len <= Size
    BY <1>3, <1>6, RoomCounts
  <2>2. PICK w : w = arena_used + len
    OBVIOUS
  <2>3. PICK c : c = CopyBytes(WriteEntry(buf, nentries, a,
                       pack_bytes_handle(Size - w, len)), Size - w, v)
    OBVIOUS
  <2>4. /\ w \in 0 .. Size /\ Size - w \in Half /\ len \in Half
        /\ c \in Buffer /\ Intact(c, nentries + 1, w)
        /\ \A i \in 0 .. nentries - 1 : ValueIn(c, i) = ValueIn(buf, i)
        /\ ValueIn(c, nentries) = <<a, v>>
    BY <1>1, <1>2, <2>1, <2>2, <2>3, BytesPushed
  <2>5. w <= Size
    BY <2>4, UndoConstantsOK
  <2>6. buf' = c /\ nentries' = nentries + 1 /\ arena_used' = w /\ res' = Ok
    BY <1>2, <1>6, <2>2, <2>3, <2>4, <2>5 DEF PushBytes
  <2>7. LogInv'
    BY <1>1, <2>4, <2>6, GrownLog
  <2>8. Unwalked' = Append(Unwalked, <<a, v>>)
    BY <1>1, <1>5, <2>4, <2>6, DecodedPush
  <2>9. Room' = Room - (EntrySize + len) /\ EntrySize + len <= Room
    <3>1. Room' = Size - ((nentries + 1) * EntrySize + (arena_used + len))
      BY <2>2, <2>6 DEF Room
    <3> QED BY <3>1, <1>3, <1>6, RoomCounts
  <2> QED BY <1>1, <1>4, <2>6, <2>7, <2>8, <2>9 DEF Stack!Push, Stack!Ok, Ok, Room
<1>7. CASE ~Fits(len)
  <2>1. buf' = buf /\ nentries' = nentries /\ arena_used' = arena_used /\ res' = UndoLogFull
    BY <1>2, <1>7 DEF PushBytes
  <2>2. LogInv'
    BY <1>1, <2>1 DEF LogInv, TypeOK, WalkOK, Intact, Sound, Holds, ArenaOK
  <2>3. Unwalked' = Unwalked /\ Room' = Room
    BY <1>1, <1>5, <2>1 DEF Room
  <2>4. ~(EntrySize + len <= Room)
    BY <1>3, <1>7, RoomCounts
  <2> QED BY <1>1, <1>4, <2>1, <2>2, <2>3, <2>4 DEF Stack!Push, Stack!Full, UndoLogFull, Room
<1> QED BY <1>6, <1>7

\* A log without entries has all its room.
LEMMA EmptyRoom == Size - (0 * EntrySize + 0) = Size
  BY UndoConstantsOK

\* Discard empties the stack.
LEMMA StepDiscard ==
    ASSUME LogInv, Discard
    PROVE  LogInv' /\ Stack!Discard
<1>1. /\ phase = "open" /\ phase' = "open" /\ pos' = 0 /\ pos = 0 /\ buf' = buf
      /\ nentries' = 0 /\ arena_used' = 0 /\ res' = Ok
  BY DEF Discard, LogInv, WalkOK
<1>2. Unwalked' = << >>
  BY <1>1, UnwalkedDecoded, DecodedEmpty
<1>3. Size - (nentries * EntrySize + arena_used)' = Size
  BY <1>1, EmptyRoom
<1>4. Intact(buf, nentries, arena_used)'
  <2>1. PICK c : c = buf'
    OBVIOUS
  <2>2. Intact(c, 0, 0)
    BY IntactEmpty
  <2> QED BY <2>1, <2>2, <1>1 DEF Intact, Sound, Holds, ArenaOK
<1>5. 0 \in 0 .. Size \div EntrySize
  <2>1. 0 * EntrySize <= Size
    BY UndoConstantsOK
  <2> QED BY <2>1, SlotCount
<1>6. TypeOK' /\ WalkOK'
  BY <1>1, <1>5, UndoConstantsOK DEF LogInv, TypeOK, WalkOK
<1> QED BY <1>1, <1>2, <1>3, <1>4, <1>6 DEF LogInv, Stack!Discard, Stack!Ok, Ok

\* Starting a walk leaves every entry to be walked.
LEMMA StepStartWalk ==
    ASSUME LogInv, NEW dir \in {"undo", "commit"}, StartWalk(dir)
    PROVE  LogInv' /\ Stack!StartWalk(dir)
<1>1. /\ phase = "open" /\ phase' = dir /\ res' = Ok /\ buf' = buf
      /\ nentries' = nentries /\ arena_used' = arena_used
      /\ pos' = IF dir = "undo" THEN nentries ELSE 0
  BY DEF StartWalk
<1>2. nentries \in Nat
  BY LogTyped
<1>3. Unwalked' = Unwalked
  BY <1>1, UnwalkedDecoded
<1>4. Intact(buf, nentries, arena_used)'
  BY <1>1 DEF LogInv, Intact, Sound, Holds, ArenaOK
<1>5. TypeOK' /\ WalkOK'
  BY <1>1, <1>2 DEF LogInv, TypeOK, WalkOK
<1> QED BY <1>1, <1>3, <1>4, <1>5 DEF LogInv, Stack!StartWalk, Stack!Ok, Ok

\* What entry_at reads at a walk's position.
LEMMA EntryAt ==
    ASSUME LogInv, NEW i \in 0 .. nentries - 1
    PROVE  /\ entry_at(i) # Garbled
           /\ entry_at(i)[2] # NoBytes => InBounds(entry_at(i)[2])
           /\ ValueIn(buf, i) = <<entry_at(i)[1], PreImageOf(entry_at(i)[2])>>
<1>1. nentries \in Nat /\ arena_used \in 0 .. Size /\ Intact(buf, nentries, arena_used)
  BY LogTyped DEF LogInv
<1>2. entry_at(i) = EntryIn(buf, i)
  BY DEF entry_at, EntryIn
<1>3. ValueIn(buf, i) = <<EntryIn(buf, i)[1], PreImageOf(EntryIn(buf, i)[2])>>
  BY DEF ValueIn, PreImageIn, BytesIn, PreImageOf, bytes_from_handle
<1>4. /\ EntryIn(buf, i) # Garbled
      /\ EntryIn(buf, i)[2] # NoBytes => InBounds(EntryIn(buf, i)[2])
  BY <1>1, IntactReads
<1> QED BY <1>2, <1>3, <1>4

\* A step that only moves the walk keeps the invariant.
LEMMA WalkMoves ==
    ASSUME LogInv, phase \in {"undo", "commit"}, phase' = phase, pos' \in 0 .. nentries,
           buf' = buf, nentries' = nentries, arena_used' = arena_used
    PROVE  LogInv'
<1>1. Intact(buf, nentries, arena_used)'
  BY DEF LogInv, Intact, Sound, Holds, ArenaOK
<1>2. TypeOK' /\ WalkOK'
  BY DEF LogInv, TypeOK, WalkOK
<1> QED BY <1>1, <1>2 DEF LogInv

\* An undo walk takes the newest entry left.
LEMMA StepUndoNext ==
    ASSUME LogInv, UndoNext
    PROVE  LogInv' /\ Stack!UndoNext
<1>1. /\ phase = "undo" /\ phase' = phase /\ pos' = pos - 1 /\ pos > 0
      /\ buf' = buf /\ nentries' = nentries /\ arena_used' = arena_used
  BY DEF UndoNext
<1>2. nentries \in Nat /\ pos \in 1 .. nentries /\ pos - 1 \in 0 .. nentries - 1
      /\ arena_used \in 0 .. Size /\ Intact(buf, nentries, arena_used)
  BY <1>1, LogTyped DEF LogInv
<1>3. LogInv'
  BY <1>1, <1>2, WalkMoves
<1>4. res' = Verb(ValueIn(buf, pos - 1)[1], ValueIn(buf, pos - 1)[2])
  BY <1>2, EntryAt DEF UndoNext
<1>5. Unwalked = Decoded(buf, 0, pos) /\ Unwalked' = Decoded(buf, 0, pos - 1)
  BY <1>1, UnwalkedDecoded
<1>6. /\ Unwalked # << >> /\ Unwalked[Len(Unwalked)] = ValueIn(buf, pos - 1)
      /\ Unwalked' = SubSeq(Unwalked, 1, Len(Unwalked) - 1)
  BY <1>2, <1>5, DecodedUndo
<1> QED BY <1>1, <1>3, <1>4, <1>6 DEF Stack!UndoNext, Stack!Verb, Verb

\* A commit walk takes the oldest entry left.
LEMMA StepCommitNext ==
    ASSUME LogInv, CommitNext
    PROVE  LogInv' /\ Stack!CommitNext
<1>1. /\ phase = "commit" /\ phase' = phase /\ pos' = pos + 1 /\ pos < nentries
      /\ buf' = buf /\ nentries' = nentries /\ arena_used' = arena_used
  BY DEF CommitNext
<1>2. nentries \in Nat /\ pos \in 0 .. nentries - 1 /\ pos + 1 \in 0 .. nentries
      /\ arena_used \in 0 .. Size /\ Intact(buf, nentries, arena_used)
  BY <1>1, LogTyped DEF LogInv
<1>3. LogInv'
  BY <1>1, <1>2, WalkMoves
<1>4. ValueIn(buf, pos)[1] = entry_at(pos)[1]
  BY <1>2, EntryAt
<1>5. Unwalked = Decoded(buf, pos, nentries) /\ Unwalked' = Decoded(buf, pos + 1, nentries)
  BY <1>1, UnwalkedDecoded
<1>6. Unwalked # << >> /\ Head(Unwalked) = ValueIn(buf, pos) /\ Unwalked' = Tail(Unwalked)
  BY <1>2, <1>5, DecodedCommit
<1>7. res' = IF Head(Unwalked)[1] \in Disable THEN Verb(Head(Unwalked)[1], NoBytes) ELSE Ok
  BY <1>4, <1>6 DEF CommitNext
<1> QED BY <1>1, <1>3, <1>6, <1>7 DEF Stack!CommitNext, Stack!Verb, Verb, Stack!Ok, Ok

\* The end of a walk scrubs the buffer and leaves no entry.
LEMMA StepWalkEnd ==
    ASSUME LogInv, WalkEnd
    PROVE  LogInv' /\ Stack!End
<1>1. /\ phase \in {"undo", "commit"} /\ phase' = "done" /\ res' = Ok
      /\ nentries' = 0 /\ arena_used' = 0 /\ pos' = 0
      /\ buf' = [k \in Addr |-> Zero]
  BY DEF WalkEnd, Scrub
<1>2. nentries \in Nat
  BY LogTyped
<1>3. Unwalked = << >>
  <2>1. CASE phase = "undo" /\ pos = 0
    BY <2>1, UnwalkedDecoded, DecodedEmpty
  <2>2. CASE phase = "commit" /\ pos = nentries
    BY <2>2, <1>2, UnwalkedDecoded, DecodedEmpty
  <2> QED BY <2>1, <2>2 DEF WalkEnd
<1>4. Unwalked' = << >>
  BY <1>1, UnwalkedDecoded, DecodedEmpty
<1>5. Size - (nentries * EntrySize + arena_used)' = Size
  BY <1>1, EmptyRoom
<1>6. Intact(buf, nentries, arena_used)'
  <2>1. PICK c : c = buf'
    OBVIOUS
  <2>2. Intact(c, 0, 0)
    BY IntactEmpty
  <2> QED BY <2>1, <2>2, <1>1 DEF Intact, Sound, Holds, ArenaOK
<1>7. 0 \in 0 .. Size \div EntrySize
  <2>1. 0 * EntrySize <= Size
    BY UndoConstantsOK
  <2> QED BY <2>1, SlotCount
<1>8. TypeOK' /\ WalkOK'
  BY <1>1, <1>7, UndoConstantsOK DEF TypeOK, WalkOK
<1> QED BY <1>1, <1>3, <1>4, <1>5, <1>6, <1>8 DEF LogInv, Stack!End, Stack!Ok, Ok

\* One step of the buffer is one step of the stack.
LEMMA LogStep ==
    ASSUME LogInv, Next
    PROVE  LogInv' /\ Stack!Next
<1>1. ASSUME NEW a \in Act, PushEntry(a) PROVE LogInv' /\ Stack!Next
  BY <1>1, StepPushEntry DEF Stack!Next, Stack!Val
<1>2. ASSUME NEW a \in Act, NEW v \in PreImage, PushBytes(a, v) PROVE LogInv' /\ Stack!Next
  <2>1. LogInv' /\ Stack!Push(a, v)
    BY <1>2, StepPushBytes
  <2>2. v \in Stack!Val
    BY <1>2 DEF PreImage, Stack!Val, Stack!PreImage
  <2> QED BY <2>1, <2>2 DEF Stack!Next
<1>3. CASE Discard
  BY <1>3, StepDiscard DEF Stack!Next
<1>4. ASSUME NEW dir \in {"undo", "commit"}, StartWalk(dir) PROVE LogInv' /\ Stack!Next
  <2>1. LogInv' /\ Stack!StartWalk(dir)
    BY <1>4, StepStartWalk
  <2> QED BY <2>1 DEF Stack!Next
<1>5. CASE UndoNext
  BY <1>5, StepUndoNext DEF Stack!Next
<1>6. CASE CommitNext
  BY <1>6, StepCommitNext DEF Stack!Next
<1>7. CASE WalkEnd
  BY <1>7, StepWalkEnd DEF Stack!Next
<1> QED BY <1>1, <1>2, <1>3, <1>4, <1>5, <1>6, <1>7 DEF Next

\* A step that changes nothing changes nothing of the stack.
LEMMA LogStutter ==
    ASSUME LogInv, UNCHANGED vars
    PROVE  LogInv' /\ UNCHANGED <<Unwalked, Size - (nentries * EntrySize + arena_used), phase, res>>
<1>1. /\ buf' = buf /\ nentries' = nentries /\ arena_used' = arena_used
      /\ phase' = phase /\ pos' = pos /\ res' = res
  BY DEF vars
<1>2. LogInv'
  BY <1>1 DEF LogInv, TypeOK, WalkOK, Intact, Sound, Holds, ArenaOK
<1>3. Unwalked' = Unwalked
  BY <1>1, UnwalkedDecoded
<1> QED BY <1>1, <1>2, <1>3

\* The first state of the buffer is the empty stack.
LEMMA LogStart == Init => Stack!Init
<1> SUFFICES ASSUME Init PROVE Stack!Init
  OBVIOUS
<1>1. Unwalked = << >>
  BY UnwalkedDecoded, DecodedEmpty DEF Init
<1>2. Size - (nentries * EntrySize + arena_used) = Size
  BY EmptyRoom DEF Init
<1> QED BY <1>1, <1>2 DEF Init, Stack!Init, Stack!Ok, Ok

-----------------------------------------------------------------------------
\* The inductive invariant of the undo buffer: the entry slots and the byte
\* arena of push_entry_reserving never meet, and every slot in use holds an
\* entry whose handle points into the arena.
THEOREM LogInvariant == Spec => []LogInv
<1>1. LogInv /\ [Next]_vars => LogInv'
  BY LogStep, LogStutter
<1> QED BY InitLog, <1>1, PTL DEF Spec

\* The undo buffer keeps its types: the counters stay inside the buffer and
\* the walk of apply_undo or apply_commit inside the entries.
THEOREM LogTypeOK == Spec => []TypeOK
<1>1. LogInv => TypeOK
  BY DEF LogInv
<1> QED BY LogInvariant, <1>1, PTL

\* The packed buffer of UndoLog implements the stack UndoStack promises: every
\* push, discard and walk step of the code is the stack's, with the entries and
\* pre-images that entry_at and bytes_from_handle read back.
THEOREM LogImplementsStack == Spec => ImplementsStack
<1>1. LogInv /\ [Next]_vars =>
        [Stack!Next]_<<Unwalked, Size - (nentries * EntrySize + arena_used), phase, res>>
  BY LogStep, LogStutter
<1> QED BY LogInvariant, LogStart, <1>1, PTL DEF Spec, ImplementsStack, Stack!Spec
=============================================================================
