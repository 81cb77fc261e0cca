--------------------------- MODULE UpkaPoolProofs ---------------------------
(***************************************************************************)
(* Proofs about the public-key engine pool, for every number of tasks,     *)
(* engines and ring entries and every width of the ring's cursors.  The    *)
(* ring is read modulo its capacity through cursors that wrap on their     *)
(* own, so the proofs start with the arithmetic of remainders and with     *)
(* what it says of the ring: a reserved entry was free, and moving the     *)
(* head past free entries loses no waiter.                                 *)
(***************************************************************************)
EXTENDS UpkaPool, TLAPS, WellFoundedInduction

-----------------------------------------------------------------------------
(* Remainders.                                                             *)

LEMMA ModRange ==
    ASSUME NEW a \in Int, NEW D \in Nat \ {0}
    PROVE  a % D \in 0 .. D - 1
  OBVIOUS

LEMMA Division ==
    ASSUME NEW a \in Int, NEW D \in Nat \ {0}
    PROVE  a = D * (a \div D) + (a % D) /\ a \div D \in Int
  OBVIOUS

LEMMA Remainder ==
    ASSUME NEW a \in Int, NEW D \in Nat \ {0}, NEW q \in Int, NEW r \in 0 .. D - 1, a = D * q + r
    PROVE  a % D = r
  OBVIOUS

\* Numbers less than a divisor apart have different remainders.
LEMMA ModApart ==
    ASSUME NEW a \in Nat, NEW b \in Nat, NEW D \in Nat \ {0}, a < b, b - a < D
    PROVE  a % D # b % D
<1> SUFFICES ASSUME a % D = b % D PROVE FALSE
  OBVIOUS
<1> DEFINE p == a \div D  q == b \div D
<1>1. p \in Int /\ q \in Int /\ a = D * p + (a % D) /\ b = D * q + (b % D)
  BY Division
<1> HIDE DEF p, q
<1>2. b - a = D * (q - p)
  <2>1. D * (q - p) = D * q - D * p
    BY <1>1
  <2>2. a % D \in Int /\ D * p \in Int /\ D * q \in Int
    BY <1>1
  <2> DEFINE x == D * p  y == D * q  z == D * (q - p)  r == a % D
  <2>3. a = x + r /\ b = y + r /\ z = y - x /\ x \in Int /\ y \in Int /\ r \in Int
    BY <2>1, <2>2, <1>1
  <2> HIDE DEF x, y, z, r
  <2>4. b - a = z
    BY <2>3
  <2> QED BY <2>4 DEF z
<1>3. CASE q - p <= 0
  <2>1. D * (q - p) <= 0
    BY <1>1, <1>3
  <2> QED BY <2>1, <1>2
<1>4. CASE q - p >= 1
  <2>1. D * (q - p) >= D
    BY <1>1, <1>4
  <2> QED BY <2>1, <1>2
<1> QED BY <1>1, <1>3, <1>4

\* A wrap at a multiple of the divisor does not change the remainder.
LEMMA ModOfMod ==
    ASSUME NEW a \in Nat, NEW D \in Nat \ {0}, NEW C \in Nat \ {0}, C % D = 0
    PROVE  (a % C) % D = a % D
<1> DEFINE p == a \div C  m == C \div D  r == a % C  k == r \div D  s == r % D
<1>1. p \in Int /\ m \in Int /\ a = C * p + r /\ C = D * m
  BY Division
<1>2. r \in Int /\ k \in Int /\ r = D * k + s /\ s \in 0..D-1
  BY Division, ModRange
<1> HIDE DEF p, m, r, k, s
<1>3. a = D * (m * p + k) + s
  <2>1. C * p = D * (m * p)
    BY <1>1
  <2>2. m * p \in Int
    BY <1>1
  <2>3. D * (m * p + k) = D * (m * p) + D * k
    BY <2>2, <1>2
  <2> QED BY <2>1, <2>2, <2>3, <1>1, <1>2
<1>4. m * p + k \in Int
  BY <1>1, <1>2
<1>5. a % D = s
  <2> DEFINE n == m * p + k
  <2>1. a = D * n + s /\ n \in Int
    BY <1>3, <1>4
  <2> HIDE DEF n
  <2> QED BY <2>1, <1>2, Remainder
<1> QED BY <1>5 DEF s, r

LEMMA ModShift ==
    ASSUME NEW a \in Int, NEW C \in Nat \ {0}
    PROVE  (a + C) % C = a % C
<1> DEFINE q == a \div C  r == a % C
<1>1. q \in Int /\ r \in 0..C-1 /\ a = C * q + r
  BY Division, ModRange
<1> HIDE DEF q, r
<1>2. C * (q + 1) = C * q + C
  BY <1>1
<1>3. a + C = C * (q + 1) + r
  <2> DEFINE x == C * q  y == C * (q + 1)
  <2>1. a = x + r /\ y = x + C /\ x \in Int
    BY <1>1, <1>2
  <2> HIDE DEF x, y
  <2>2. a + C = y + r
    BY <2>1, <1>1
  <2> QED BY <2>2 DEF y
<1>4. (a + C) % C = r
  BY <1>1, <1>3, Remainder
<1> QED BY <1>4 DEF r

\* A nonempty set of naturals has a smallest element.
LEMMA SmallestExists ==
    ASSUME NEW S, S \subseteq Nat, S # {}
    PROVE  \E k \in S : \A j \in S : k <= j
<1>1. PICK R : R = OpToRel(<, Nat)
  OBVIOUS
<1>2. IsWellFoundedOn(R, Nat)
  BY <1>1, NatLessThanWellFounded, Zenon
<1>3. PICK k \in S : \A j \in S : ~(<<j, k>> \in R)
  BY <1>2, WFMin, Zenon
<1>4. \A i, j \in Nat : <<i, j>> \in R <=> i < j
  BY <1>1 DEF OpToRel
<1>5. \A j \in S : ~(j < k)
  BY <1>3, <1>4, Zenon
<1>6. \A j \in S : k <= j
  BY <1>5
<1> QED BY <1>6, Zenon

-----------------------------------------------------------------------------
(* The ring.                                                               *)

Cursors == head \in 0 .. CursorMod - 1 /\ tail \in 0 .. CursorMod - 1

\* Reading on from a cursor that was advanced.
LEMMA AdvanceTwice ==
    ASSUME NEW c \in 0 .. CursorMod - 1, NEW m \in 0 .. CursorMod - 1, NEW n \in Nat
    PROVE  /\ Advance(c, m) \in 0 .. CursorMod - 1
           /\ Advance(Advance(c, m), n) = Advance(c, m + n)
<1>1. CursorMod \in Nat \ {0}
  BY RingAssumption
<1>2. CASE c + m < CursorMod
  <2>1. Advance(c, m) = c + m
    BY <1>1, <1>2 DEF Advance
  <2> QED BY <1>1, <1>2, <2>1 DEF Advance
<1>3. CASE c + m >= CursorMod
  <2>1. Advance(c, m) = c + m - CursorMod
    BY <1>1, <1>3 DEF Advance
  <2> DEFINE x == c + m - CursorMod + n
  <2>2. x \in Int /\ x + CursorMod = c + (m + n)
    BY <1>1
  <2>3. (x + CursorMod) % CursorMod = x % CursorMod
    BY <1>1, <2>2, ModShift
  <2> QED BY <1>1, <1>3, <2>1, <2>2, <2>3 DEF Advance
<1> QED BY <1>1, <1>2, <1>3

\* The tail is Length entries after the head.
LEMMA TailAfterHead ==
    ASSUME Cursors
    PROVE  Length \in 0 .. CursorMod - 1 /\ tail = Advance(head, Length)
<1>1. CursorMod \in Nat \ {0}
  BY RingAssumption
<1>2. CASE tail >= head
  <2>1. Length = tail - head
    BY <1>1, <1>2 DEF Cursors, Length
  <2> QED BY <1>1, <1>2, <2>1 DEF Cursors, Advance
<1>3. CASE tail < head
  <2>1. Length = tail - head + CursorMod
    BY <1>1, <1>3 DEF Cursors, Length
  <2>2. head + Length = tail + CursorMod
    BY <1>1, <2>1 DEF Cursors
  <2> QED BY <1>1, <1>3, <2>1, <2>2 DEF Cursors, Advance
<1> QED BY <1>1, <1>2, <1>3 DEF Cursors

\* Advancing the head over part of the ring shortens it by as much.
LEMMA LengthAfterAdvance ==
    ASSUME Cursors, NEW n \in 0 .. Length
    PROVE  (tail - Advance(head, n)) % CursorMod = Length - n
<1>1. CursorMod \in Nat \ {0}
  BY RingAssumption
<1>2. Length \in 0 .. CursorMod - 1
  BY TailAfterHead
<1>3. n \in 0 .. CursorMod - 1
  BY <1>1, <1>2
<1>4. Advance(head, n) = IF head + n < CursorMod THEN head + n ELSE head + n - CursorMod
  BY <1>1, <1>3 DEF Advance, Cursors
<1>5. Length = IF tail >= head THEN tail - head ELSE tail - head + CursorMod
  BY <1>1 DEF Length, Cursors
<1>6. tail - Advance(head, n) = Length - n \/ tail - Advance(head, n) = Length - n - CursorMod
  BY <1>1, <1>2, <1>3, <1>4, <1>5 DEF Cursors
<1>7. Length - n \in 0 .. CursorMod - 1
  BY <1>1, <1>2
<1> DEFINE d == Length - n
<1>8. d \in 0 .. CursorMod - 1 /\ d % CursorMod = d /\ (d - CursorMod) % CursorMod = d
  <2> HIDE DEF d
  <2>1. d \in 0 .. CursorMod - 1
    BY <1>7 DEF d
  <2> QED BY <1>1, <2>1
<1> QED BY <1>6, <1>8

\* A ring index is the cursor modulo the capacity, whether or not it wrapped.
LEMMA IndexIs ==
    ASSUME Cursors, NEW k \in Nat
    PROVE  Index(k) \in Slots /\ Index(k) = (head + k) % DEPTH
<1>1. CursorMod \in Nat \ {0} /\ DEPTH \in Nat \ {0} /\ CursorMod % DEPTH = 0 /\ head + k \in Nat
  BY RingAssumption DEF Cursors
<1>2. Index(k) = (head + k) % DEPTH
  BY <1>1, ModOfMod DEF Index, Advance
<1>3. (head + k) % DEPTH \in 0 .. DEPTH - 1
  <2>1. head + k \in Int
    BY <1>1
  <2> QED BY <1>1, <2>1, ModRange
<1> QED BY <1>2, <1>3 DEF Slots

\* Two entries less than a capacity apart are different.
LEMMA IndexApart ==
    ASSUME Cursors, NEW j \in Nat, NEW k \in Nat, j < k, k - j < DEPTH
    PROVE  Index(j) # Index(k)
<1>1. DEPTH \in Nat \ {0} /\ head + j \in Nat /\ head + k \in Nat
      /\ head + j < head + k /\ (head + k) - (head + j) < DEPTH
  BY RingAssumption DEF Cursors
<1>2. (head + j) % DEPTH # (head + k) % DEPTH
  BY <1>1, ModApart
<1> QED BY <1>2, IndexIs

\* Every occupied entry is between the cursors, and the ring is never overfull.
RingOK ==
    /\ Length <= DEPTH
    /\ \A q \in Slots : queue[q].st # "free" => \E k \in 0 .. Length - 1 : Index(k) = q

\* The entry at the tail of a ring that is not full is free.
LEMMA TailIsFree ==
    ASSUME Cursors, RingOK, ~QueueIsFull
    PROVE  /\ tail % DEPTH \in Slots
           /\ tail % DEPTH = Index(Length)
           /\ queue[tail % DEPTH].st = "free"
<1>1. Length \in Nat /\ Length < DEPTH /\ tail = Advance(head, Length)
  BY TailAfterHead, RingAssumption DEF QueueIsFull
<1>2. tail % DEPTH = Index(Length)
  BY <1>1 DEF Index
<1>3. Index(Length) \in Slots
  BY <1>1, IndexIs
<1>4. ASSUME queue[Index(Length)].st # "free" PROVE FALSE
  <2>1. PICK k \in 0 .. Length - 1 : Index(k) = Index(Length)
    BY <1>3, <1>4 DEF RingOK
  <2>2. k \in Nat /\ k < Length /\ Length - k < DEPTH
    BY <1>1, RingAssumption
  <2> QED BY <1>1, <2>1, <2>2, IndexApart
<1> QED BY <1>2, <1>3, <1>4

\* reserve_queue_slot lengthens the ring by the entry at its end.
LEMMA RingAfterJoin ==
    ASSUME Cursors, RingOK, ~QueueIsFull, queue \in [Slots -> Entries],
           queue' = [queue EXCEPT ![tail % DEPTH] = Pending],
           head' = head, tail' = Advance(tail, 1)
    PROVE  /\ Cursors'
           /\ RingOK'
           /\ Length' = Length + 1
           /\ \A k \in Nat : Index(k)' = Index(k)
<1>1. CursorMod \in Nat \ {0} /\ DEPTH \in Nat /\ CursorMod > DEPTH
      /\ Length \in 0 .. CursorMod - 1 /\ Length < DEPTH /\ tail = Advance(head, Length)
  BY TailAfterHead, RingAssumption DEF QueueIsFull
<1>2. tail' = Advance(head, Length + 1) /\ tail' \in 0 .. CursorMod - 1
  <2>1. Advance(Advance(head, Length), 1) = Advance(head, Length + 1)
    BY <1>1, AdvanceTwice DEF Cursors
  <2>2. Advance(tail, 1) \in 0 .. CursorMod - 1
    BY <1>1, ModRange DEF Advance, Cursors
  <2> QED BY <1>1, <2>1, <2>2
<1>3. Length' = Length + 1
  <2>1. Length = IF tail >= head THEN tail - head ELSE tail - head + CursorMod
    BY <1>1 DEF Length, Cursors
  <2>2. tail' = IF tail + 1 < CursorMod THEN tail + 1 ELSE 0
    BY <1>1 DEF Advance, Cursors
  <2>3. Length' = (tail' - head) % CursorMod
    BY DEF Length
  <2>4. tail' - head = Length + 1 \/ tail' - head = Length + 1 - CursorMod
    BY <1>1, <2>1, <2>2 DEF Cursors
  <2>5. PICK n \in 0 .. CursorMod - 1 : n = Length + 1
    BY <1>1
  <2>6. n % CursorMod = n /\ (n - CursorMod) % CursorMod = n
    BY <1>1
  <2>7. tail' - head = n \/ tail' - head = n - CursorMod
    BY <1>1, <1>2, <2>4, <2>5 DEF Cursors
  <2> QED BY <2>3, <2>5, <2>6, <2>7
<1>4. \A k \in Nat : Index(k)' = Index(k)
  BY DEF Index, Advance
<1>5. tail % DEPTH = Index(Length) /\ tail % DEPTH \in Slots
  BY TailIsFree
<1>6. ASSUME NEW q \in Slots, queue'[q].st # "free"
      PROVE  \E k \in 0 .. Length' - 1 : Index(k)' = q
  <2>1. CASE q = tail % DEPTH
    <3>1. PICK k \in Nat : k = Length
      BY <1>1
    <3>2. k \in 0 .. Length' - 1 /\ Index(k)' = q
      BY <1>1, <1>3, <1>4, <1>5, <2>1, <3>1
    <3> QED BY <3>2
  <2>2. CASE q # tail % DEPTH
    <3>1. queue[q].st # "free"
      BY <1>6, <2>2
    <3>2. PICK k \in 0 .. Length - 1 : Index(k) = q
      BY <3>1 DEF RingOK
    <3>3. k \in 0 .. Length' - 1 /\ Index(k)' = q
      BY <1>1, <1>3, <1>4, <3>2
    <3> QED BY <3>3
  <2> QED BY <2>1, <2>2
<1>7. Length' <= DEPTH
  BY <1>1, <1>3
<1> QED BY <1>2, <1>3, <1>4, <1>6, <1>7 DEF RingOK, Cursors

\* clear_queue_entry moves the head past free entries only.
LEMMA RingAfterClear ==
    ASSUME Cursors, RingOK, NEW q \in Slots,
           queue \in [Slots -> Entries],
           ClearQueueEntry(q)
    PROVE  /\ Cursors'
           /\ RingOK'
           /\ \E n \in 0 .. Length :
                /\ Length' = Length - n
                /\ \A k \in Nat : Index(k)' = Index(n + k)
<1>1. CursorMod \in Nat \ {0} /\ DEPTH \in Nat \ {0} /\ CursorMod > DEPTH
      /\ Length \in 0 .. CursorMod - 1
  BY TailAfterHead, RingAssumption
<1> DEFINE taken == {k \in 0 .. Length - 1 : Index(k) # q /\ queue[Index(k)].st # "free"}
           skip == IF taken = {} THEN Length ELSE CHOOSE k \in taken : \A j \in taken : k <= j
<1>2. head' = Advance(head, skip) /\ tail' = tail /\ queue' = [queue EXCEPT ![q] = FreeEntry]
  BY DEF ClearQueueEntry, HeadAfter
<1>3. skip \in 0 .. Length /\ \A k \in taken : skip <= k
  <2>1. CASE taken = {}
    BY <1>1, <2>1
  <2>2. CASE taken # {}
    <3>1. taken \subseteq Nat
      BY <1>1
    <3>2. \E k \in taken : \A j \in taken : k <= j
      BY <2>2, <3>1, SmallestExists
    <3>3. skip \in taken /\ \A k \in taken : skip <= k
      BY <2>2, <3>2
    <3>4. taken \subseteq 0 .. Length
      BY <1>1
    <3> QED BY <3>3, <3>4
  <2> QED BY <2>1, <2>2
<1>10. PICK n \in 0 .. Length : n = skip
  BY <1>3
<1> HIDE DEF skip
<1>4. Length' = Length - n
  BY <1>2, <1>10, LengthAfterAdvance DEF Length
<1>5. n \in 0 .. CursorMod - 1
  BY <1>1, <1>3
<1>6. ASSUME NEW k \in Nat PROVE Index(k)' = Index(n + k)
  BY <1>2, <1>10, <1>5, AdvanceTwice DEF Index, Cursors
<1>7. Cursors'
  BY <1>2, <1>10, <1>5, AdvanceTwice DEF Cursors
<1>8. ASSUME NEW p \in Slots, queue'[p].st # "free"
      PROVE  \E k \in 0 .. Length' - 1 : Index(k)' = p
  <2>1. p # q /\ queue[p].st # "free"
    BY <1>2, <1>8 DEF FreeEntry
  <2>2. PICK j \in 0 .. Length - 1 : Index(j) = p
    BY <2>1 DEF RingOK
  <2>3. j \in taken
    BY <2>1, <2>2
  <2>4. j - n \in 0 .. Length' - 1 /\ j - n \in Nat /\ n + (j - n) = j
    BY <1>1, <1>3, <1>10, <1>4, <2>2, <2>3
  <2>5. Index(j - n)' = p
    BY <1>6, <2>2, <2>4
  <2> QED BY <2>4, <2>5
<1>9. Length' <= DEPTH
  BY <1>1, <1>3, <1>4 DEF RingOK
<1> QED BY <1>3, <1>4, <1>6, <1>7, <1>8, <1>9 DEF RingOK

-----------------------------------------------------------------------------
(* The inductive invariant.                                                *)

Holds(t) == pc[t] \in {"op", "wipe"}

\* No engine has two claims.
Exclusive ==
    /\ \A t \in Tasks : Holds(t) =>
          eng[t] \in Engines /\ eng[t] \notin free /\ ~waiter[eng[t]].assigned
    /\ \A t, u \in Tasks : Holds(t) /\ Holds(u) /\ eng[t] = eng[u] => t = u
    /\ \A q \in Slots : queue[q].st = "assigned" =>
          /\ queue[q].engine \notin free /\ ~waiter[queue[q].engine].assigned
          /\ \A t \in Tasks : Holds(t) => eng[t] # queue[q].engine
    /\ \A p, q \in Slots :
          queue[p].st = "assigned" /\ queue[q].st = "assigned"
             /\ queue[p].engine = queue[q].engine => p = q
    /\ \A e \in free : ~waiter[e].assigned

\* Every engine has a claim.
Complete ==
    \A e \in Engines :
        \/ e \in free
        \/ waiter[e].assigned
        \/ \E t \in Tasks : Holds(t) /\ eng[t] = e
        \/ \E q \in Slots : queue[q] = Assigned(e)

\* Queued tasks and occupied entries correspond.
Owned ==
    /\ \A t \in Tasks : pc[t] = "queued" => idx[t] \in Slots /\ queue[idx[t]].st # "free"
    /\ \A t, u \in Tasks : pc[t] = "queued" /\ pc[u] = "queued" /\ idx[t] = idx[u] => t = u
    /\ \A q \in Slots : queue[q].st # "free" =>
          \E t \in Tasks : pc[t] = "queued" /\ idx[t] = q

\* A task that waits for an engine by number waits for one that exists.
Numbered == \A t \in Tasks : pc[t] = "specific" => eng[t] \in Engines

Inv == TypeOK /\ RingOK /\ Exclusive /\ Complete /\ Owned /\ Numbered

LEMMA EntryFacts ==
    /\ \A x \in Entries : x.st \in {"free", "pending", "assigned"}
    /\ \A x \in Entries : x.st = "assigned" => x.engine \in Engines /\ x = Assigned(x.engine)
    /\ FreeEntry \in Entries /\ Pending \in Entries
    /\ \A e \in Engines : Assigned(e) \in Entries
    /\ FreeEntry.st = "free" /\ Pending.st = "pending"
    /\ \A e \in Engines : Assigned(e).st = "assigned" /\ Assigned(e).engine = e
<1>1. ASSUME NEW x \in Entries
      PROVE  x = FreeEntry \/ x = Pending \/ \E e \in Engines : x = Assigned(e)
  BY DEF Entries
<1>2. FreeEntry.st = "free" /\ Pending.st = "pending"
  BY DEF FreeEntry, Pending
<1>3. \A e \in Engines : Assigned(e).st = "assigned" /\ Assigned(e).engine = e
  BY DEF Assigned
<1>4. FreeEntry \in Entries /\ Pending \in Entries /\ \A e \in Engines : Assigned(e) \in Entries
  BY DEF Entries
<1>5. ASSUME NEW x \in Entries
      PROVE  /\ x.st \in {"free", "pending", "assigned"}
             /\ x.st = "assigned" => x.engine \in Engines /\ x = Assigned(x.engine)
  BY <1>1, <1>2, <1>3
<1> QED BY <1>2, <1>3, <1>4, <1>5

LEMMA SlotFacts ==
    /\ IdleSlot \in SlotStates /\ InUse \in SlotStates /\ Armed \in SlotStates
    /\ \A x \in SlotStates, r \in {"ok", "err"} :
          x.armed => [x EXCEPT !.status = r] \in SlotStates
    /\ IdleSlot.status = "none" /\ InUse.status = "none" /\ Armed.status = "none"
    /\ ~IdleSlot.armed /\ ~InUse.armed
<1>1. ASSUME NEW x \in SlotStates, NEW r \in {"ok", "err"}, x.armed
      PROVE  [x EXCEPT !.status = r] \in SlotStates
  <2>1. CASE x = Armed
    BY <2>1 DEF SlotStates, Armed
  <2>2. CASE x \in [inUse : {TRUE}, armed : {TRUE}, status : {"ok", "err"}]
    BY <2>2 DEF SlotStates
  <2>3. CASE x = IdleSlot \/ x = InUse
    BY <1>1, <2>3 DEF IdleSlot, InUse
  <2> QED BY <2>1, <2>2, <2>3 DEF SlotStates
<1> QED BY <1>1 DEF SlotStates, IdleSlot, InUse, Armed

\* What taking an engine and issuing its first command changes.
LEMMA BeginFacts ==
    ASSUME TypeOK, NEW t \in Tasks, NEW e \in Engines, Begin(t, e)
    PROVE  /\ slot' = [slot EXCEPT ![e] = Armed]
           /\ busy' = busy \cup {e}
           /\ mem' \in [Engines -> {"clean", "dirty", "unwiped"}]
           /\ \A f \in Engines : f # e => mem'[f] = mem[f]
           /\ ewaker' \in [Engines -> Tasks \cup {NoTask}]
           /\ woken' \subseteq Tasks
           /\ left' \in [Tasks -> 0 .. MaxCommands]
           /\ eng' = [eng EXCEPT ![t] = e]
           /\ \E k \in {"op", "wipe"} : pc' = [pc EXCEPT ![t] = k]
           /\ slot' \in [Engines -> SlotStates] /\ busy' \subseteq Engines
           /\ eng' \in [Tasks -> Engines \cup {NoEngine}]
           /\ pc' \in [Tasks -> {"idle", "queued", "specific", "op", "wipe"}]
<1>1. MaxCommands \in Nat
  BY RingAssumption
<1>2. PICK k \in {"op", "wipe"}, n \in 0 .. MaxCommands : Issue(t, e, k, n)
  BY <1>1 DEF Begin
<1>3. woken' \subseteq Tasks
  BY <1>2 DEF TypeOK, Issue, Displaced
<1>4. mem' \in [Engines -> {"clean", "dirty", "unwiped"}]
      /\ \A f \in Engines : f # e => mem'[f] = mem[f]
  BY <1>2 DEF TypeOK, Issue
<1>5. slot' \in [Engines -> SlotStates] /\ busy' \subseteq Engines
  BY <1>2, SlotFacts DEF TypeOK, Issue
<1>6. /\ eng' \in [Tasks -> Engines \cup {NoEngine}]
      /\ pc' \in [Tasks -> {"idle", "queued", "specific", "op", "wipe"}]
  BY <1>2 DEF TypeOK, Issue
<1> QED BY <1>2, <1>3, <1>4, <1>5, <1>6 DEF TypeOK, Issue, RegisterWaiter

\* The scan finds a pending entry when there is one.
LEMMA ScanFinds ==
    ASSUME TypeOK, RingOK
    PROVE  /\ HasAnyWaiters <=> \E q \in Slots : queue[q].st = "pending"
           /\ HasAnyWaiters =>
                /\ FirstPending \in 0 .. Length - 1
                /\ Index(FirstPending) \in Slots
                /\ queue[Index(FirstPending)].st = "pending"
                /\ \A j \in PendingAt : FirstPending <= j
<1>1. Cursors /\ CursorMod \in Nat
  BY RingAssumption DEF TypeOK, Cursors
<1>2. Length \in Nat
  BY <1>1, TailAfterHead
<1>3. \A k \in 0 .. Length - 1 : k \in Nat /\ Index(k) \in Slots
  BY <1>1, <1>2, IndexIs
<1>4. ASSUME NEW q \in Slots, queue[q].st = "pending" PROVE HasAnyWaiters
  <2>1. PICK k \in 0 .. Length - 1 : Index(k) = q
    BY <1>4 DEF RingOK
  <2>2. k \in PendingAt
    BY <1>4, <2>1 DEF PendingAt
  <2> QED BY <2>2 DEF HasAnyWaiters
<1>5. PendingAt \subseteq Nat
  BY <1>3 DEF PendingAt
<1>6. ASSUME HasAnyWaiters
      PROVE  FirstPending \in PendingAt /\ \A j \in PendingAt : FirstPending <= j
  <2>1. \E k \in PendingAt : \A j \in PendingAt : k <= j
    BY <1>5, <1>6, SmallestExists DEF HasAnyWaiters
  <2> QED BY <2>1 DEF FirstPending
<1> QED BY <1>3, <1>4, <1>6 DEF PendingAt

-----------------------------------------------------------------------------
(* Every step keeps the invariant.                                         *)

\* A caller takes a free engine.
LEMMA TakeFreeKeeps ==
    ASSUME Inv, NEW t \in Tasks, NEW e \in free, pc[t] \in {"idle", "specific"},
           free' = free \ {e}, Begin(t, e),
           UNCHANGED <<waiter, ring, swaker, qwaker, idx>>
    PROVE  Inv'
<1>1. e \in Engines /\ ~waiter[e].assigned
  BY DEF Inv, TypeOK, Exclusive
<1>2. PICK k \in {"op", "wipe"} : pc' = [pc EXCEPT ![t] = k]
  BY <1>1, BeginFacts DEF Inv
<1>3. eng' = [eng EXCEPT ![t] = e]
  BY <1>1, BeginFacts DEF Inv
<1>4. TypeOK'
  <2>1. free' \subseteq Engines
    BY DEF Inv, TypeOK
  <2> QED BY <1>1, <2>1, BeginFacts DEF Inv, TypeOK, ring
<1>5. RingOK'
  BY DEF Inv, RingOK, ring, Length, Index, Advance
<1>6. Exclusive'
  BY <1>1, <1>2, <1>3 DEF Inv, TypeOK, Exclusive, Holds, ring
<1>7. Complete'
  BY <1>1, <1>2, <1>3 DEF Inv, TypeOK, Complete, Holds, ring
<1>8. Owned' /\ Numbered'
  BY <1>1, <1>2, <1>3 DEF Inv, TypeOK, Owned, Numbered, ring
<1> QED BY <1>4, <1>5, <1>6, <1>7, <1>8 DEF Inv

\* A caller takes the engine that was assigned to its number's waiter.
LEMMA TakeWaiterKeeps ==
    ASSUME Inv, NEW t \in Tasks, NEW e \in Engines, pc[t] \in {"idle", "specific"},
           waiter[e].assigned, waiter' = [waiter EXCEPT ![e].assigned = FALSE],
           Begin(t, e),
           UNCHANGED <<free, ring, swaker, qwaker, idx>>
    PROVE  Inv'
<1>1. PICK k \in {"op", "wipe"} : pc' = [pc EXCEPT ![t] = k]
  BY BeginFacts DEF Inv
<1>2. eng' = [eng EXCEPT ![t] = e]
  BY BeginFacts DEF Inv
<1>3. waiter' \in [Engines -> [waiting : BOOLEAN, assigned : BOOLEAN]]
      /\ ~waiter'[e].assigned
      /\ \A f \in Engines : f # e => waiter'[f] = waiter[f]
  BY DEF Inv, TypeOK
<1>4. TypeOK'
  BY <1>3, BeginFacts DEF Inv, TypeOK, ring
<1>5. RingOK'
  BY DEF Inv, RingOK, ring, Length, Index, Advance
<1>6. Exclusive'
  BY <1>1, <1>2, <1>3, EntryFacts DEF Inv, TypeOK, Exclusive, Holds, ring
<1>7. Complete'
  BY <1>1, <1>2, <1>3 DEF Inv, TypeOK, Complete, Holds, ring
<1>8. Owned' /\ Numbered'
  BY <1>1, <1>2 DEF Inv, TypeOK, Owned, Numbered, ring
<1> QED BY <1>4, <1>5, <1>6, <1>7, <1>8 DEF Inv

LEMMA ClaimFreeEngineKeeps ==
    ASSUME Inv, NEW t \in Tasks, ClaimFreeEngine(t)
    PROVE  Inv'
<1>1. \E e \in free : \A f \in free : e <= f
  <2>1. free \subseteq Nat
    BY RingAssumption DEF Inv, TypeOK, Engines
  <2> QED BY <2>1, SmallestExists DEF ClaimFreeEngine
<1>2. PICK e \in free : free' = free \ {e} /\ Begin(t, e)
  BY <1>1 DEF ClaimFreeEngine
<1> QED BY <1>2, TakeFreeKeeps DEF ClaimFreeEngine

LEMMA SpecificKeeps ==
    ASSUME Inv, NEW t \in Tasks, NEW e \in Engines,
           StartSpecific(t, e) \/ (ResumeSpecific(t) /\ e = eng[t])
    PROVE  Inv'
<1>1. /\ pc[t] \in {"idle", "specific"}
      /\ UNCHANGED <<ring, swaker, qwaker, idx>>
      /\ TakeSpecific(t, e) \/ TakeFreeSpecific(t, e)
  BY DEF StartSpecific, ResumeSpecific
<1>2. CASE TakeSpecific(t, e)
  BY <1>1, <1>2, TakeWaiterKeeps DEF TakeSpecific
<1>3. CASE TakeFreeSpecific(t, e)
  BY <1>1, <1>3, TakeFreeKeeps DEF TakeFreeSpecific
<1> QED BY <1>1, <1>2, <1>3

LEMMA JoinQueueKeeps ==
    ASSUME Inv, NEW t \in Tasks, JoinQueue(t)
    PROVE  Inv'
<1> DEFINE q == tail % DEPTH
<1>1. Cursors /\ TypeOK /\ RingOK /\ ~QueueIsFull
  BY DEF Inv, TypeOK, Cursors, JoinQueue
<1>2. q \in Slots /\ queue[q].st = "free"
  BY <1>1, TailIsFree
<1>3. /\ queue' = [queue EXCEPT ![q] = Pending] /\ head' = head /\ tail' = Advance(tail, 1)
      /\ idx' = [idx EXCEPT ![t] = q] /\ pc' = [pc EXCEPT ![t] = "queued"] /\ pc[t] = "idle"
      /\ UNCHANGED <<free, slot, waiter, busy, mem, ewaker, swaker, eng, left>>
  BY DEF JoinQueue
<1>4. Cursors' /\ RingOK'
  BY <1>1, <1>3, RingAfterJoin DEF TypeOK
<1>5. qwaker' \in [Slots -> Tasks \cup {NoTask}] /\ woken' \subseteq Tasks
  BY <1>1, <1>2 DEF JoinQueue, TypeOK, RegisterEntry, Displaced
<1> HIDE DEF q
<1>6. queue' \in [Slots -> Entries] /\ queue'[q].st = "pending"
      /\ \A p \in Slots : p # q => queue'[p] = queue[p]
  BY <1>1, <1>2, <1>3, EntryFacts DEF TypeOK
<1>7. TypeOK'
  <2>1. idx' \in [Tasks -> Slots \cup {NoSlot}]
        /\ pc' \in [Tasks -> {"idle", "queued", "specific", "op", "wipe"}]
    BY <1>1, <1>2, <1>3 DEF TypeOK
  <2> QED BY <1>1, <1>3, <1>4, <1>5, <1>6, <2>1 DEF TypeOK, Cursors
<1>8. Exclusive'
  BY <1>1, <1>2, <1>3, <1>6 DEF Inv, TypeOK, Exclusive, Holds
<1>9. Complete'
  <2> SUFFICES ASSUME NEW e \in Engines
               PROVE  \/ e \in free \/ waiter[e].assigned
                      \/ \E u \in Tasks : Holds(u)' /\ eng'[u] = e
                      \/ \E p \in Slots : queue'[p] = Assigned(e)
    BY <1>3 DEF Complete
  <2>1. ASSUME NEW u \in Tasks, Holds(u), eng[u] = e PROVE Holds(u)' /\ eng'[u] = e
    BY <1>1, <1>3, <2>1 DEF Holds, TypeOK
  <2>2. ASSUME NEW p \in Slots, queue[p] = Assigned(e) PROVE queue'[p] = Assigned(e)
    BY <1>2, <1>6, <2>2, EntryFacts
  <2> QED BY <2>1, <2>2 DEF Inv, Complete
<1>10. Owned'
  <2>1. ASSUME NEW u \in Tasks, pc'[u] = "queued"
        PROVE  idx'[u] \in Slots /\ queue'[idx'[u]].st # "free"
    BY <1>1, <1>2, <1>3, <1>6, <2>1 DEF Inv, Owned, TypeOK
  <2>2. ASSUME NEW u \in Tasks, NEW v \in Tasks,
               pc'[u] = "queued", pc'[v] = "queued", idx'[u] = idx'[v]
        PROVE  u = v
    BY <1>1, <1>2, <1>3, <2>2 DEF Inv, Owned, TypeOK
  <2>3. ASSUME NEW p \in Slots, queue'[p].st # "free"
        PROVE  \E u \in Tasks : pc'[u] = "queued" /\ idx'[u] = p
    <3>1. CASE p = q
      BY <1>1, <1>3, <3>1 DEF TypeOK
    <3>2. CASE p # q
      <4>1. PICK u \in Tasks : pc[u] = "queued" /\ idx[u] = p
        BY <1>6, <2>3, <3>2 DEF Inv, Owned
      <4> QED BY <1>1, <1>3, <4>1 DEF TypeOK
    <3> QED BY <3>1, <3>2
  <2> QED BY <2>1, <2>2, <2>3 DEF Owned
<1>11. Numbered'
  BY <1>1, <1>3 DEF Inv, Numbered, TypeOK
<1> QED BY <1>4, <1>7, <1>8, <1>9, <1>10, <1>11 DEF Inv

LEMMA TakeAssignedKeeps ==
    ASSUME Inv, NEW t \in Tasks, TakeAssigned(t)
    PROVE  Inv'
<1>1. PICK q \in Slots : q = idx[t] /\ queue[q].st = "assigned" /\ pc[t] = "queued"
  BY DEF Inv, Owned, TakeAssigned
<1>2. PICK e \in Engines : queue[q].engine = e /\ queue[q] = Assigned(e)
  BY <1>1, EntryFacts DEF Inv, TypeOK
<1>3. Begin(t, e) /\ ClearQueueEntry(q) /\ idx' = [idx EXCEPT ![t] = NoSlot]
      /\ UNCHANGED <<free, waiter, swaker, qwaker>>
  BY <1>1, <1>2 DEF TakeAssigned
<1>4. PICK k \in {"op", "wipe"} : pc' = [pc EXCEPT ![t] = k]
  BY <1>3, BeginFacts DEF Inv
<1>5. eng' = [eng EXCEPT ![t] = e]
  BY <1>3, BeginFacts DEF Inv
<1>6. Cursors' /\ RingOK'
  <2>1. Cursors /\ RingOK /\ queue \in [Slots -> Entries]
    BY DEF Inv, TypeOK, Cursors
  <2> QED BY <1>3, <2>1, RingAfterClear
<1>7. queue' \in [Slots -> Entries] /\ queue'[q] = FreeEntry /\ queue'[q].st = "free"
      /\ \A p \in Slots : p # q => queue'[p] = queue[p]
  BY <1>3, EntryFacts DEF Inv, TypeOK, ClearQueueEntry
<1>8. TypeOK'
  <2>1. idx' \in [Tasks -> Slots \cup {NoSlot}]
    BY <1>3 DEF Inv, TypeOK
  <2> QED BY <1>3, <1>6, <1>7, <2>1, BeginFacts DEF Inv, TypeOK, Cursors
<1>9. Exclusive'
  <2>1. ASSUME NEW u \in Tasks, Holds(u)'
        PROVE  (u = t /\ eng'[u] = e) \/ (u # t /\ Holds(u) /\ eng'[u] = eng[u] /\ eng[u] # e)
    BY <1>1, <1>2, <1>4, <1>5, <2>1 DEF Inv, TypeOK, Exclusive, Holds
  <2>2. ASSUME NEW p \in Slots, queue'[p].st = "assigned"
        PROVE  p # q /\ queue'[p] = queue[p] /\ queue[p].engine # e
    BY <1>1, <1>2, <1>7, <2>2 DEF Inv, Exclusive
  <2>3. e \notin free /\ ~waiter[e].assigned
    BY <1>1, <1>2 DEF Inv, Exclusive
  <2> QED BY <1>3, <2>1, <2>2, <2>3 DEF Inv, Exclusive
<1>10. Complete'
  <2> SUFFICES ASSUME NEW f \in Engines
               PROVE  \/ f \in free \/ waiter[f].assigned
                      \/ \E u \in Tasks : Holds(u)' /\ eng'[u] = f
                      \/ \E p \in Slots : queue'[p] = Assigned(f)
    BY <1>3 DEF Complete
  <2>1. CASE f = e
    <3>1. Holds(t)' /\ eng'[t] = f
      BY <1>4, <1>5, <2>1 DEF Holds, Inv, TypeOK
    <3> QED BY <3>1
  <2>2. CASE f # e
    <3>1. ASSUME NEW u \in Tasks, Holds(u), eng[u] = f PROVE Holds(u)' /\ eng'[u] = f
      BY <1>1, <1>4, <1>5, <3>1 DEF Holds, Inv, TypeOK
    <3>2. ASSUME NEW p \in Slots, queue[p] = Assigned(f) PROVE queue'[p] = Assigned(f)
      BY <1>2, <1>7, <2>2, <3>2, EntryFacts
    <3> QED BY <3>1, <3>2 DEF Inv, Complete
  <2> QED BY <2>1, <2>2
<1>11. Owned'
  <2>1. ASSUME NEW u \in Tasks, pc'[u] = "queued"
        PROVE  u # t /\ pc[u] = "queued" /\ idx'[u] = idx[u] /\ idx[u] # q
    BY <1>1, <1>3, <1>4, <2>1 DEF Inv, Owned, TypeOK
  <2>2. ASSUME NEW p \in Slots, queue'[p].st # "free"
        PROVE  \E u \in Tasks : pc'[u] = "queued" /\ idx'[u] = p
    <3>1. p # q /\ queue[p].st # "free"
      BY <1>7, <2>2
    <3>2. PICK u \in Tasks : pc[u] = "queued" /\ idx[u] = p
      BY <3>1 DEF Inv, Owned
    <3> QED BY <1>1, <1>3, <1>4, <3>1, <3>2 DEF Inv, TypeOK
  <2> QED BY <1>7, <2>1, <2>2 DEF Inv, Owned
<1>12. Numbered'
  BY <1>4, <1>5 DEF Inv, Numbered, TypeOK
<1> QED BY <1>6, <1>8, <1>9, <1>10, <1>11, <1>12 DEF Inv

LEMMA WaitSpecificKeeps ==
    ASSUME Inv, NEW t \in Tasks, NEW e \in Engines, WaitSpecific(t, e)
    PROVE  Inv'
<1>1. /\ pc[t] = "idle" /\ pc' = [pc EXCEPT ![t] = "specific"] /\ eng' = [eng EXCEPT ![t] = e]
      /\ waiter' = [waiter EXCEPT ![e].waiting = TRUE]
      /\ UNCHANGED <<free, slot, ring, busy, mem, ewaker, qwaker, idx, left>>
  BY DEF WaitSpecific
<1>2. waiter' \in [Engines -> [waiting : BOOLEAN, assigned : BOOLEAN]]
      /\ \A f \in Engines : waiter'[f].assigned = waiter[f].assigned
  BY <1>1 DEF Inv, TypeOK
<1>3. TypeOK'
  <2>1. /\ woken' \subseteq Tasks
        /\ swaker' \in [Engines -> Tasks \cup {NoTask}]
    BY DEF Inv, TypeOK, WaitSpecific, Displaced
  <2>2. /\ eng' \in [Tasks -> Engines \cup {NoEngine}]
        /\ pc' \in [Tasks -> {"idle", "queued", "specific", "op", "wipe"}]
    BY <1>1 DEF Inv, TypeOK
  <2> QED BY <1>1, <1>2, <2>1, <2>2 DEF Inv, TypeOK, ring
<1>4. RingOK'
  BY <1>1 DEF Inv, RingOK, ring, Length, Index, Advance
<1>5. Exclusive' /\ Complete'
  <2>1. \A u \in Tasks : Holds(u)' <=> Holds(u)
    BY <1>1 DEF Inv, TypeOK, Holds
  <2>2. \A u \in Tasks : Holds(u) => eng'[u] = eng[u]
    BY <1>1 DEF Inv, TypeOK, Holds
  <2>3. \A q \in Slots : queue[q].st = "assigned" => queue[q].engine \in Engines
    BY EntryFacts DEF Inv, TypeOK
  <2>4. Exclusive'
    BY <1>1, <1>2, <2>1, <2>2, <2>3 DEF Inv, TypeOK, Exclusive, ring
  <2>5. Complete'
    BY <1>1, <1>2, <2>1, <2>2 DEF Inv, Complete, ring
  <2> QED BY <2>4, <2>5
<1>6. Owned' /\ Numbered'
  BY <1>1 DEF Inv, TypeOK, Owned, Numbered, ring
<1> QED BY <1>3, <1>4, <1>5, <1>6 DEF Inv

\* Steps that move no claim: a repoll, a completion, and the next command.
LEMMA SameClaimsKeep ==
    ASSUME Inv, UNCHANGED <<free, waiter, ring, idx, eng>>, TypeOK',
           \A t \in Tasks : pc'[t] = pc[t] \/ (Holds(t) /\ Holds(t)')
    PROVE  Inv'
<1>1. RingOK'
  BY DEF Inv, RingOK, ring, Length, Index, Advance
<1>2. \A t \in Tasks : Holds(t)' <=> Holds(t)
  BY DEF Holds
<1>3. \A t \in Tasks : (pc'[t] = "queued" <=> pc[t] = "queued")
                       /\ (pc'[t] = "specific" <=> pc[t] = "specific")
  BY DEF Holds
<1>4. Exclusive'
  BY <1>2 DEF Inv, Exclusive, ring
<1>5. Complete'
  BY <1>2 DEF Inv, Complete, ring
<1>6. Owned' /\ Numbered'
  BY <1>3 DEF Inv, Owned, Numbered, ring
<1> QED BY <1>1, <1>4, <1>5, <1>6 DEF Inv

LEMMA RepollSpecificKeeps ==
    ASSUME Inv, NEW t \in Tasks, RepollSpecific(t)
    PROVE  Inv'
<1>1. swaker' \in [Engines -> Tasks \cup {NoTask}] /\ woken' \subseteq Tasks
  BY DEF Inv, TypeOK, Numbered, RepollSpecific, Displaced
<1>2. TypeOK'
  BY <1>1 DEF Inv, TypeOK, RepollSpecific, ring
<1> QED BY <1>2, SameClaimsKeep DEF RepollSpecific

LEMMA WakeEngineKeeps ==
    ASSUME Inv, NEW e \in Engines, WakeEngine(e)
    PROVE  Inv'
<1>1. slot' \in [Engines -> SlotStates]
  <2>1. PICK r \in {"ok", "err"} : slot' = [slot EXCEPT ![e].status = r]
    BY DEF WakeEngine
  <2>2. [slot[e] EXCEPT !.status = r] \in SlotStates
    BY SlotFacts DEF Inv, TypeOK, WakeEngine
  <2> QED BY <2>1, <2>2 DEF Inv, TypeOK
<1>2. mem' \in [Engines -> {"clean", "dirty", "unwiped"}]
  BY DEF Inv, TypeOK, WakeEngine
<1>3. ewaker' \in [Engines -> Tasks \cup {NoTask}] /\ woken' \subseteq Tasks /\ busy' \subseteq Engines
  BY DEF Inv, TypeOK, WakeEngine, WokenBy
<1>4. TypeOK'
  BY <1>1, <1>2, <1>3 DEF Inv, TypeOK, WakeEngine, ring
<1> QED BY <1>4, SameClaimsKeep DEF WakeEngine

LEMMA CommandDoneKeeps ==
    ASSUME Inv, NEW t \in Tasks, CommandDone(t)
    PROVE  Inv'
<1>1. PICK e \in Engines : e = eng[t]
  BY DEF Inv, Exclusive, Holds, CommandDone
<1>2. MaxCommands \in Nat /\ left[t] \in 0 .. MaxCommands /\ left \in [Tasks -> 0 .. MaxCommands]
  BY RingAssumption DEF Inv, TypeOK
<1>3. PICK k \in {"op", "wipe"}, n \in 0 .. MaxCommands : Issue(t, e, k, n)
  BY <1>1, <1>2 DEF CommandDone
<1>4. slot' \in [Engines -> SlotStates] /\ busy' \subseteq Engines
  BY <1>3, SlotFacts DEF Inv, TypeOK, Issue
<1>5. /\ mem' \in [Engines -> {"clean", "dirty", "unwiped"}]
      /\ ewaker' \in [Engines -> Tasks \cup {NoTask}] /\ woken' \subseteq Tasks
  BY <1>3 DEF Inv, TypeOK, Issue, RegisterWaiter, Displaced
<1>6. /\ pc' = [pc EXCEPT ![t] = k] /\ eng' = eng
      /\ pc' \in [Tasks -> {"idle", "queued", "specific", "op", "wipe"}]
      /\ left' \in [Tasks -> 0 .. MaxCommands]
  BY <1>1, <1>2, <1>3 DEF Inv, TypeOK, Issue
<1>7. TypeOK'
  BY <1>4, <1>5, <1>6 DEF Inv, TypeOK, CommandDone, ring
<1>8. \A u \in Tasks : pc'[u] = pc[u] \/ (Holds(u) /\ Holds(u)')
  BY <1>6 DEF Inv, TypeOK, CommandDone, Holds
<1> QED BY <1>6, <1>7, <1>8, SameClaimsKeep DEF CommandDone

\* What leaving the driver does to the task's own state.
LEMMA ReturnFacts ==
    ASSUME Inv, NEW t \in Tasks, pc[t] = "wipe", Return(t)
    PROVE  /\ pc' \in [Tasks -> {"idle", "queued", "specific", "op", "wipe"}]
           /\ eng' \in [Tasks -> Engines \cup {NoEngine}]
           /\ left' = left
           /\ pc'[t] = "idle"
           /\ ~Holds(t)'
           /\ \A u \in Tasks : u # t => pc'[u] = pc[u] /\ eng'[u] = eng[u] /\ (Holds(u)' <=> Holds(u))
           /\ \A u \in Tasks : Holds(u)' => u # t /\ Holds(u) /\ eng'[u] = eng[u] /\ eng[u] # eng[t]
<1>1. /\ pc' \in [Tasks -> {"idle", "queued", "specific", "op", "wipe"}]
      /\ eng' \in [Tasks -> Engines \cup {NoEngine}]
      /\ left' = left /\ pc'[t] = "idle"
  BY DEF Inv, TypeOK, Return
<1>2. ~Holds(t)'
  BY <1>1 DEF Holds
<1>3. \A u \in Tasks : u # t => pc'[u] = pc[u] /\ eng'[u] = eng[u]
  BY DEF Inv, TypeOK, Return
<1>4. \A u \in Tasks : u # t => (Holds(u)' <=> Holds(u))
  BY <1>3 DEF Holds
<1>5. Holds(t)
  BY DEF Holds
<1> QED BY <1>1, <1>2, <1>3, <1>4, <1>5 DEF Inv, Exclusive

\* release_engine_and_dispatch moves the one claim on the engine: to its numbered
\* waiter, to the oldest pending entry, or to the free engines.
LEMMA DispatchKeeps ==
    ASSUME Inv, NEW t \in Tasks, pc[t] = "wipe", ReleaseAndDispatch(t, eng[t]), Return(t),
           busy' \subseteq Engines, mem' \in [Engines -> {"clean", "dirty", "unwiped"}],
           UNCHANGED <<ewaker, idx>>
    PROVE  Inv'
<1>1. PICK e \in Engines : e = eng[t] /\ e \notin free /\ ~waiter[e].assigned
  BY DEF Inv, Exclusive, Holds
<1>2. Holds(t) /\ \A q \in Slots : queue[q].st = "assigned" => queue[q].engine # e
  BY <1>1 DEF Inv, Exclusive, Holds
<1>3. Numbered'
  BY ReturnFacts DEF Inv, Numbered
<1>4. CASE waiter[e].waiting
  <2>1. /\ slot' = [slot EXCEPT ![e] = InUse]
        /\ waiter' = [waiter EXCEPT ![e] = [waiting |-> FALSE, assigned |-> TRUE]]
        /\ swaker' = [swaker EXCEPT ![e] = NoTask]
        /\ woken' = (woken \ {t}) \cup WokenBy(swaker[e])
        /\ UNCHANGED <<free, ring, qwaker>>
    BY <1>1, <1>4 DEF ReleaseAndDispatch
  <2>2. waiter' \in [Engines -> [waiting : BOOLEAN, assigned : BOOLEAN]]
        /\ waiter'[e].assigned /\ \A f \in Engines : f # e => waiter'[f] = waiter[f]
    BY <2>1 DEF Inv, TypeOK
  <2>3. TypeOK'
    <3>1. slot' \in [Engines -> SlotStates] /\ swaker' \in [Engines -> Tasks \cup {NoTask}]
          /\ woken' \subseteq Tasks
      BY <2>1, SlotFacts DEF Inv, TypeOK, WokenBy
    <3> QED BY <2>1, <2>2, <3>1, ReturnFacts DEF Inv, TypeOK, ring
  <2>4. RingOK'
    BY <2>1 DEF Inv, RingOK, ring, Length, Index, Advance
  <2>5. Exclusive'
    <3>1. \A q \in Slots : queue[q].st = "assigned" => queue[q].engine \in Engines
      BY EntryFacts DEF Inv, TypeOK
    <3>2. \A u \in Tasks : Holds(u) => eng[u] \in Engines
      BY DEF Inv, Exclusive
    <3> QED BY <1>1, <1>2, <2>1, <2>2, <3>1, <3>2, ReturnFacts DEF Inv, TypeOK, Exclusive, ring
  <2>6. Complete'
    BY <1>1, <2>1, <2>2, ReturnFacts DEF Inv, Complete, ring
  <2>7. Owned'
    BY <2>1, ReturnFacts DEF Inv, Owned, ring
  <2> QED BY <1>3, <2>3, <2>4, <2>5, <2>6, <2>7 DEF Inv
<1>5. CASE ~waiter[e].waiting /\ ~HasAnyWaiters
  <2>1. /\ slot' = [slot EXCEPT ![e] = IdleSlot]
        /\ free' = free \cup {e}
        /\ woken' = woken \ {t}
        /\ UNCHANGED <<waiter, ring, swaker, qwaker>>
    BY <1>1, <1>5 DEF ReleaseAndDispatch
  <2>2. TypeOK'
    <3>1. slot' \in [Engines -> SlotStates] /\ free' \subseteq Engines /\ woken' \subseteq Tasks
      BY <2>1, SlotFacts DEF Inv, TypeOK
    <3> QED BY <2>1, <3>1, ReturnFacts DEF Inv, TypeOK, ring
  <2>3. RingOK'
    BY <2>1 DEF Inv, RingOK, ring, Length, Index, Advance
  <2>4. Exclusive'
    BY <1>1, <1>2, <2>1, ReturnFacts DEF Inv, Exclusive, ring
  <2>5. Complete'
    BY <1>1, <2>1, ReturnFacts DEF Inv, Complete, ring
  <2>6. Owned'
    BY <2>1, ReturnFacts DEF Inv, Owned, ring
  <2> QED BY <1>3, <2>2, <2>3, <2>4, <2>5, <2>6 DEF Inv
<1>6. CASE ~waiter[e].waiting /\ HasAnyWaiters
  <2>1. PICK q \in Slots : q = Index(FirstPending) /\ queue[q].st = "pending"
    BY <1>6, ScanFinds DEF Inv
  <2>2. /\ slot' = [slot EXCEPT ![e] = InUse]
        /\ queue' = [queue EXCEPT ![q] = Assigned(e)]
        /\ qwaker' = [qwaker EXCEPT ![q] = NoTask]
        /\ woken' = (woken \ {t}) \cup WokenBy(qwaker[q])
        /\ UNCHANGED <<free, waiter, head, tail, swaker>>
    BY <1>1, <1>6, <2>1 DEF ReleaseAndDispatch
  <2>3. queue' \in [Slots -> Entries] /\ queue'[q] = Assigned(e) /\ queue'[q].st = "assigned"
        /\ queue'[q].engine = e /\ \A p \in Slots : p # q => queue'[p] = queue[p]
    BY <2>2, EntryFacts DEF Inv, TypeOK
  <2>4. TypeOK'
    <3>1. slot' \in [Engines -> SlotStates] /\ qwaker' \in [Slots -> Tasks \cup {NoTask}]
          /\ woken' \subseteq Tasks
      BY <2>2, SlotFacts DEF Inv, TypeOK, WokenBy
    <3> QED BY <2>2, <2>3, <3>1, ReturnFacts DEF Inv, TypeOK
  <2>5. RingOK'
    <3>1. Length' = Length /\ \A k : Index(k)' = Index(k)
      BY <2>2 DEF Length, Index, Advance
    <3>2. \A p \in Slots : queue'[p].st # "free" => queue[p].st # "free"
      BY <2>1, <2>3
    <3> QED BY <3>1, <3>2 DEF Inv, RingOK
  <2>6. Exclusive'
    BY <1>1, <1>2, <2>1, <2>2, <2>3, ReturnFacts DEF Inv, Exclusive
  <2>7. Complete'
    <3> SUFFICES ASSUME NEW f \in Engines
                 PROVE  \/ f \in free \/ waiter[f].assigned
                        \/ \E u \in Tasks : Holds(u)' /\ eng'[u] = f
                        \/ \E p \in Slots : queue'[p] = Assigned(f)
      BY <2>2 DEF Complete
    <3>1. CASE f = e
      BY <2>3, <3>1
    <3>2. ASSUME NEW p \in Slots, queue[p] = Assigned(f) PROVE queue'[p] = Assigned(f)
      BY <2>1, <2>3, <3>2, EntryFacts
    <3> QED BY <1>1, <3>1, <3>2, ReturnFacts DEF Inv, Complete
  <2>8. Owned'
    <3>1. \A p \in Slots : queue'[p].st = "free" <=> queue[p].st = "free"
      BY <2>1, <2>3
    <3> QED BY <3>1, ReturnFacts DEF Inv, Owned
  <2> QED BY <1>3, <2>4, <2>5, <2>6, <2>7, <2>8 DEF Inv
<1> QED BY <1>4, <1>5, <1>6

LEMMA ReleaseKeeps ==
    ASSUME Inv, NEW t \in Tasks, Release(t) \/ DropUnreleased(t)
    PROVE  Inv'
<1>1. CASE Release(t)
  BY <1>1, DispatchKeeps DEF Release, Inv, TypeOK
<1>2. CASE DropUnreleased(t)
  <2>1. busy' \subseteq Engines /\ mem' \in [Engines -> {"clean", "dirty", "unwiped"}]
    BY <1>2 DEF DropUnreleased, SyncWipe, Inv, TypeOK
  <2> QED BY <1>2, <2>1, DispatchKeeps DEF DropUnreleased
<1> QED BY <1>1, <1>2

LEMMA InitInv == Init => Inv
<1> SUFFICES ASSUME Init PROVE Inv
  OBVIOUS
<1>1. CursorMod \in Nat \ {0} /\ DEPTH \in Nat \ {0} /\ MaxCommands \in Nat
  BY RingAssumption
<1>2. TypeOK
  BY <1>1, SlotFacts, EntryFacts DEF Init, TypeOK
<1>3. RingOK
  <2>1. Length = 0
    BY <1>1 DEF Init, Length
  <2> QED BY <1>1, <2>1, EntryFacts DEF Init, RingOK
<1>4. \A t \in Tasks : ~Holds(t) /\ pc[t] = "idle"
  BY DEF Init, Holds
<1>5. \A q \in Slots : queue[q].st = "free"
  BY EntryFacts DEF Init
<1>6. Exclusive /\ Complete /\ Owned /\ Numbered
  BY <1>4, <1>5 DEF Init, Exclusive, Complete, Owned, Numbered
<1> QED BY <1>2, <1>3, <1>6 DEF Inv

LEMMA StepInv == Inv /\ [Next]_vars => Inv'
<1> SUFFICES ASSUME Inv, [Next]_vars PROVE Inv'
  OBVIOUS
<1>1. ASSUME NEW t \in Tasks, NEW e \in Engines, StartSpecific(t, e) PROVE Inv'
  BY <1>1, SpecificKeeps
<1>2. ASSUME NEW t \in Tasks, ResumeSpecific(t) PROVE Inv'
  <2>1. eng[t] \in Engines
    BY <1>2 DEF Inv, Numbered, ResumeSpecific
  <2> QED BY <1>2, <2>1, SpecificKeeps
<1>3. CASE UNCHANGED vars
  <2>1. TypeOK'
    BY <1>3 DEF Inv, TypeOK, vars, ring, wakers
  <2> QED BY <1>3, <2>1, SameClaimsKeep DEF vars
<1> QED BY <1>1, <1>2, <1>3, ClaimFreeEngineKeeps, JoinQueueKeeps, TakeAssignedKeeps,
           WaitSpecificKeeps, RepollSpecificKeeps, CommandDoneKeeps, ReleaseKeeps,
           WakeEngineKeeps DEF Next

LEMMA SpecInv == Spec => []Inv
  BY InitInv, StepInv, PTL DEF Spec

\* The state of the pool keeps its types; above all the cursors wrap and the ring's
\* entries stay in their three states.
THEOREM TypeCorrect == Spec => []TypeOK
<1>1. Inv => TypeOK
  BY DEF Inv
<1> QED BY <1>1, SpecInv, PTL

\* Every engine always has exactly one claim, whatever the order of acquisitions,
\* releases and hand-overs: no engine is lost and none is given twice.
THEOREM EnginesAccounted == Spec => []EngineAccounted
<1>1. Inv => EngineAccounted
  <2> SUFFICES ASSUME Inv PROVE EngineAccounted
    OBVIOUS
  <2> DEFINE E(e) == {p \in Slots : queue[p] = Assigned(e)}
  <2>1. ASSUME NEW e \in Engines
        PROVE  /\ \A q \in E(e) : queue[q].st = "assigned" /\ queue[q].engine = e
               /\ \A t \in Holders(e) : Holds(t) /\ eng[t] = e
    BY EntryFacts DEF Holders, Holds
  <2>2. ASSUME NEW e \in Engines PROVE \E c \in Claims(e) : Claims(e) = {c}
    <3> DEFINE C == {<<"task", t>> : t \in Holders(e)} \cup {<<"entry", q>> : q \in E(e)}
                      \cup (IF e \in free THEN {<<"free", e>>} ELSE {})
                      \cup (IF waiter[e].assigned THEN {<<"waiter", e>>} ELSE {})
    <3>0. Claims(e) = C
      BY Zenon DEF Claims
    <3>1. CASE e \in free
      <4>1. Holders(e) = {}
        BY <2>1, <3>1 DEF Inv, Exclusive, Holders
      <4>2. E(e) = {}
        BY <2>1, <3>1 DEF Inv, Exclusive
      <4>3. ~waiter[e].assigned
        BY <3>1 DEF Inv, Exclusive
      <4>4. C = {<<"free", e>>}
        BY <3>1, <4>1, <4>2, <4>3
      <4> QED BY <3>0, <4>4, Zenon
    <3>2. CASE e \notin free /\ waiter[e].assigned
      <4>1. Holders(e) = {}
        BY <2>1, <3>2 DEF Inv, Exclusive, Holders
      <4>2. E(e) = {}
        BY <2>1, <3>2 DEF Inv, Exclusive
      <4>3. C = {<<"waiter", e>>}
        BY <3>2, <4>1, <4>2
      <4> QED BY <3>0, <4>3, Zenon
    <3>3. CASE \E t \in Tasks : Holds(t) /\ eng[t] = e
      <4>1. PICK t \in Tasks : Holds(t) /\ eng[t] = e
        BY <3>3
      <4>2. t \in Holders(e) /\ \A u \in Holders(e) : u = t
        BY <2>1, <4>1 DEF Inv, Exclusive, Holders, Holds
      <4>3. E(e) = {}
        BY <2>1, <4>1 DEF Inv, Exclusive
      <4>4. e \notin free /\ ~waiter[e].assigned
        BY <4>1 DEF Inv, Exclusive
      <4>5. C = {<<"task", t>>}
        BY <4>2, <4>3, <4>4
      <4> QED BY <3>0, <4>5, Zenon
    <3>4. CASE \E q \in Slots : queue[q] = Assigned(e)
      <4>1. PICK q \in Slots : q \in E(e)
        BY <3>4
      <4>2. queue[q].st = "assigned" /\ queue[q].engine = e
        BY <2>1, <4>1
      <4>3. \A p \in E(e) : p = q
        BY <2>1, <4>1, <4>2 DEF Inv, Exclusive
      <4>4. Holders(e) = {}
        BY <2>1, <4>2 DEF Inv, Exclusive, Holders
      <4>5. e \notin free /\ ~waiter[e].assigned
        BY <4>2 DEF Inv, Exclusive
      <4>6. C = {<<"entry", q>>}
        BY <4>1, <4>3, <4>4, <4>5
      <4> QED BY <3>0, <4>6, Zenon
    <3> QED BY <3>1, <3>2, <3>3, <3>4 DEF Inv, Complete
  <2>3. ASSUME NEW q \in Slots, queue[q].st = "free" PROVE Owners(q) = {}
    BY <2>3 DEF Inv, Owned, Owners
  <2>4. ASSUME NEW q \in Slots, queue[q].st # "free"
        PROVE  \E t \in Owners(q) : Owners(q) = {t}
    <3>1. PICK t \in Tasks : pc[t] = "queued" /\ idx[t] = q
      BY <2>4 DEF Inv, Owned
    <3>2. t \in Owners(q) /\ \A u \in Owners(q) : u = t
      BY <3>1 DEF Inv, Owned, Owners
    <3>3. Owners(q) = {t}
      BY <3>2, Zenon
    <3> QED BY <3>2, <3>3, Zenon
  <2> QED BY <2>2, <2>3, <2>4 DEF EngineAccounted
<1> QED BY <1>1, SpecInv, PTL

-----------------------------------------------------------------------------
(* No task waits beside a free engine.                                     *)

NoIdle == \A q \in Slots : queue[q].st = "pending" => free = {}

LEMMA NoIdleStep == Inv /\ NoIdle /\ [Next]_vars => NoIdle'
<1> SUFFICES ASSUME Inv, NoIdle, [Next]_vars PROVE NoIdle'
  OBVIOUS
<1>1. HasAnyWaiters <=> \E q \in Slots : queue[q].st = "pending"
  BY ScanFinds DEF Inv
<1>2. ASSUME queue' = queue, free' \subseteq free PROVE NoIdle'
  BY <1>2 DEF NoIdle
<1>3. ASSUME NEW t \in Tasks, JoinQueue(t) PROVE NoIdle'
  <2>1. free = {} /\ free' = free
    BY <1>1, <1>3 DEF JoinQueue, MustWait, NoIdle
  <2> QED BY <2>1 DEF NoIdle
<1>4. ASSUME NEW t \in Tasks, TakeAssigned(t) PROVE NoIdle'
  <2>1. free' = free /\ idx[t] \in Slots /\ queue' = [queue EXCEPT ![idx[t]] = FreeEntry]
    BY <1>4 DEF TakeAssigned, ClearQueueEntry, Inv, Owned
  <2>2. \A q \in Slots : queue'[q].st = "pending" => queue[q].st = "pending"
    BY <2>1, EntryFacts DEF Inv, TypeOK
  <2> QED BY <2>1, <2>2 DEF NoIdle
<1>5. ASSUME NEW t \in Tasks, NEW e \in Engines, ReleaseAndDispatch(t, e) PROVE NoIdle'
  <2>1. CASE HasAnyWaiters /\ ~waiter[e].waiting
    <3>1. free = {} /\ free' = free
      BY <1>1, <1>5, <2>1 DEF ReleaseAndDispatch, NoIdle
    <3> QED BY <3>1 DEF NoIdle
  <2>2. CASE ~HasAnyWaiters /\ ~waiter[e].waiting
    <3>1. queue' = queue
      BY <1>5, <2>2 DEF ReleaseAndDispatch, ring
    <3> QED BY <1>1, <2>2, <3>1 DEF NoIdle
  <2>3. CASE waiter[e].waiting
    BY <1>2, <1>5, <2>3 DEF ReleaseAndDispatch, ring
  <2> QED BY <2>1, <2>2, <2>3
<1>6. ASSUME NEW t \in Tasks, Release(t) \/ DropUnreleased(t) PROVE NoIdle'
  <2>1. eng[t] \in Engines
    BY <1>6 DEF Release, DropUnreleased, Inv, Exclusive, Holds
  <2> QED BY <1>5, <1>6, <2>1 DEF Release, DropUnreleased
<1>7. ASSUME NEW t \in Tasks, ClaimFreeEngine(t) PROVE NoIdle'
  BY <1>2, <1>7 DEF ClaimFreeEngine, ring
<1>8. ASSUME NEW t \in Tasks, NEW e \in Engines, StartSpecific(t, e) \/ WaitSpecific(t, e)
      PROVE  NoIdle'
  BY <1>2, <1>8 DEF StartSpecific, WaitSpecific, TakeSpecific, TakeFreeSpecific, ring
<1>9. ASSUME NEW t \in Tasks, ResumeSpecific(t) \/ RepollSpecific(t) \/ CommandDone(t)
      PROVE  NoIdle'
  BY <1>2, <1>9 DEF ResumeSpecific, RepollSpecific, CommandDone, TakeSpecific, TakeFreeSpecific, ring
<1>10. ASSUME NEW e \in Engines, WakeEngine(e) PROVE NoIdle'
  BY <1>2, <1>10 DEF WakeEngine, ring
<1>11. CASE UNCHANGED vars
  BY <1>2, <1>11 DEF vars, ring
<1> QED BY <1>3, <1>4, <1>6, <1>7, <1>8, <1>9, <1>10, <1>11 DEF Next

\* acquire_any leaves no engine idle beside a waiter of the ring, although calls by
\* number take engines out of turn.
THEOREM NoEngineIdles == Spec => []NoIdleEngineWhileQueued
<1>1. Init => NoIdle
  BY EntryFacts DEF Init, NoIdle
<1>2. Inv /\ NoIdle => NoIdleEngineWhileQueued
  BY ScanFinds DEF Inv, NoIdle, NoIdleEngineWhileQueued
<1> QED BY <1>1, <1>2, NoIdleStep, SpecInv, PTL DEF Spec

-----------------------------------------------------------------------------
(* The ring is served in arrival order.                                    *)

LEMMA OrderStep == Inv /\ ServedInOrder /\ [Next]_vars => ServedInOrder'
<1> SUFFICES ASSUME Inv, ServedInOrder, [Next]_vars PROVE ServedInOrder'
  OBVIOUS
<1>1. Cursors /\ RingOK /\ DEPTH \in Nat /\ Length \in Nat /\ Length <= DEPTH
      /\ queue \in [Slots -> Entries]
  <2>1. Cursors /\ RingOK /\ queue \in [Slots -> Entries]
    BY DEF Inv, TypeOK, Cursors
  <2> QED BY <2>1, TailAfterHead, RingAssumption DEF RingOK
<1>2. ASSUME UNCHANGED ring PROVE ServedInOrder'
  BY <1>2 DEF ServedInOrder, ring, Length, Index, Advance
<1>3. ASSUME NEW t \in Tasks, JoinQueue(t) PROVE ServedInOrder'
  <2>1. /\ ~QueueIsFull /\ queue' = [queue EXCEPT ![tail % DEPTH] = Pending]
        /\ head' = head /\ tail' = Advance(tail, 1)
    BY <1>3 DEF JoinQueue
  <2>2. Length' = Length + 1 /\ \A k \in Nat : Index(k)' = Index(k)
    BY <1>1, <2>1, RingAfterJoin
  <2>3. PICK n \in Nat : n = Length /\ tail % DEPTH = Index(n) /\ Index(n) \in Slots /\ n < DEPTH
    BY <1>1, <2>1, TailIsFree DEF QueueIsFull
  <2>4. ASSUME NEW k \in Nat, k < n PROVE queue'[Index(k)] = queue[Index(k)]
    BY <1>1, <2>1, <2>3, <2>4, IndexApart, IndexIs
  <2>5. queue'[Index(n)].st = "pending"
    BY <1>1, <2>1, <2>3, EntryFacts
  <2>6. ASSUME NEW j \in 0 .. Length' - 1, NEW k \in 0 .. Length' - 1, j < k,
               queue'[Index(j)'].st = "pending"
        PROVE  queue'[Index(k)'].st # "assigned"
    <3>1. /\ j \in Nat /\ k \in Nat /\ j < n /\ (k < n \/ k = n)
          /\ Index(j)' = Index(j) /\ Index(k)' = Index(k)
      BY <2>2, <2>3, <2>6
    <3>2. CASE k = n
      BY <2>5, <3>1, <3>2
    <3>3. CASE k < n
      BY <2>3, <2>4, <2>6, <3>1, <3>3 DEF ServedInOrder
    <3> QED BY <3>1, <3>2, <3>3
  <2> QED BY <2>6 DEF ServedInOrder
<1>4. ASSUME NEW t \in Tasks, TakeAssigned(t) PROVE ServedInOrder'
  <2>1. PICK q \in Slots : ClearQueueEntry(q)
    BY <1>4 DEF TakeAssigned, Inv, Owned
  <2>2. PICK n \in 0 .. Length : Length' = Length - n /\ \A k \in Nat : Index(k)' = Index(n + k)
    BY <1>1, <2>1, RingAfterClear
  <2>3. \A p \in Slots : queue'[p].st = "free" \/ queue'[p].st = queue[p].st
    BY <1>1, <2>1, EntryFacts DEF ClearQueueEntry
  <2>4. ASSUME NEW j \in 0 .. Length' - 1, NEW k \in 0 .. Length' - 1, j < k,
               queue'[Index(j)'].st = "pending"
        PROVE  queue'[Index(k)'].st # "assigned"
    <3>1. /\ n + j \in 0 .. Length - 1 /\ n + k \in 0 .. Length - 1 /\ n + j < n + k
          /\ Index(j)' = Index(n + j) /\ Index(k)' = Index(n + k)
      BY <1>1, <2>2, <2>4
    <3>2. n + j \in Nat /\ n + k \in Nat
      BY <1>1, <2>2, <2>4
    <3>3. Index(n + j) \in Slots /\ Index(n + k) \in Slots
      BY <1>1, <3>2, IndexIs
    <3>4. queue[Index(n + j)].st = "pending"
      BY <2>3, <2>4, <3>1, <3>3
    <3>5. queue[Index(n + k)].st # "assigned"
      BY <3>1, <3>4 DEF ServedInOrder
    <3> QED BY <2>3, <3>1, <3>3, <3>5
  <2> QED BY <2>4 DEF ServedInOrder
<1>5. ASSUME NEW t \in Tasks, NEW e \in Engines, ReleaseAndDispatch(t, e) PROVE ServedInOrder'
  <2>1. CASE waiter[e].waiting \/ ~HasAnyWaiters
    BY <1>2, <1>5, <2>1 DEF ReleaseAndDispatch
  <2>2. CASE ~waiter[e].waiting /\ HasAnyWaiters
    <3>1. PICK f \in 0 .. Length - 1 : /\ f = FirstPending /\ Index(f) \in Slots
                                       /\ \A j \in PendingAt : f <= j
      BY <2>2, ScanFinds DEF Inv
    <3>2. queue' = [queue EXCEPT ![Index(f)] = Assigned(e)] /\ head' = head /\ tail' = tail
      BY <1>5, <2>2, <3>1 DEF ReleaseAndDispatch
    <3>3. Length' = Length /\ \A k : Index(k)' = Index(k)
      BY <3>2 DEF Length, Index, Advance
    <3>4. ASSUME NEW j \in 0 .. Length - 1, NEW k \in 0 .. Length - 1, j < k,
                 queue'[Index(j)].st = "pending"
          PROVE  queue'[Index(k)].st # "assigned"
      <4>1. j \in Nat /\ k \in Nat /\ f \in Nat /\ Index(j) \in Slots /\ Index(k) \in Slots
        BY <1>1, <3>4, IndexIs
      <4>2. Index(j) # Index(f) /\ queue[Index(j)].st = "pending"
        BY <1>1, <3>1, <3>2, <3>4, <4>1, EntryFacts
      <4>3. f <= j
        BY <3>1, <4>2 DEF PendingAt
      <4>4. Index(k) # Index(f)
        <5>1. f < k /\ k - f < DEPTH
          BY <1>1, <3>4, <4>1, <4>3
        <5> QED BY <1>1, <4>1, <5>1, IndexApart
      <4>5. queue'[Index(k)] = queue[Index(k)]
        BY <1>1, <3>2, <4>1, <4>4
      <4> QED BY <3>4, <4>2, <4>5 DEF ServedInOrder
    <3> QED BY <3>3, <3>4 DEF ServedInOrder
  <2> QED BY <2>1, <2>2
<1>6. ASSUME NEW t \in Tasks, Release(t) \/ DropUnreleased(t) PROVE ServedInOrder'
  <2>1. eng[t] \in Engines
    BY <1>6 DEF Release, DropUnreleased, Inv, Exclusive, Holds
  <2> QED BY <1>5, <1>6, <2>1 DEF Release, DropUnreleased
<1>7. ASSUME NEW t \in Tasks, ClaimFreeEngine(t) \/ ResumeSpecific(t) \/ RepollSpecific(t)
                                 \/ CommandDone(t)
      PROVE  ServedInOrder'
  BY <1>2, <1>7 DEF ClaimFreeEngine, ResumeSpecific, RepollSpecific, CommandDone
<1>8. ASSUME NEW t \in Tasks, NEW e \in Engines, StartSpecific(t, e) \/ WaitSpecific(t, e)
      PROVE  ServedInOrder'
  BY <1>2, <1>8 DEF StartSpecific, WaitSpecific
<1>9. ASSUME NEW e \in Engines, WakeEngine(e) PROVE ServedInOrder'
  BY <1>2, <1>9 DEF WakeEngine
<1>10. CASE UNCHANGED vars
  BY <1>2, <1>10 DEF vars
<1> QED BY <1>3, <1>4, <1>6, <1>7, <1>8, <1>9, <1>10 DEF Next

\* No waiter overtakes an older one, however the entries are freed and however
\* often the cursors wrap.
THEOREM ArrivalOrder == Spec => []ServedInOrder
<1>1. Init => ServedInOrder
  <2> SUFFICES ASSUME Init PROVE ServedInOrder
    OBVIOUS
  <2>1. Length = 0
    BY RingAssumption DEF Init, Length
  <2> QED BY <2>1 DEF ServedInOrder
<1> QED BY <1>1, OrderStep, SpecInv, PTL DEF Spec

-----------------------------------------------------------------------------
(* An engine is handed over quiet.                                         *)

\* A holder whose command has completed has no command under way and, after a wipe
\* that succeeded, no data left in the engine.
Quiet ==
    /\ \A t \in Tasks : Holds(t) /\ slot[eng[t]].status # "none" => eng[t] \notin busy
    /\ \A t \in Tasks : pc[t] = "wipe" /\ slot[eng[t]].status = "ok" => mem[eng[t]] # "dirty"
    /\ \A e \in Engines : (\A t \in Tasks : Holds(t) => eng[t] # e) =>
          e \notin busy /\ ~slot[e].armed /\ mem[e] # "dirty"

LEMMA IssueQuiet ==
    ASSUME Inv, Inv', Quiet, NEW t \in Tasks, NEW e \in Engines, NEW k \in {"op", "wipe"}, NEW n,
           Issue(t, e, k, n), Holds(t) => eng[t] = e
    PROVE  Quiet'
<1>1. /\ slot' = [slot EXCEPT ![e] = Armed] /\ busy' = busy \cup {e}
      /\ \A f \in Engines : f # e => mem'[f] = mem[f]
  BY DEF Issue, Inv, TypeOK
<1>2. slot'[e].status = "none" /\ \A f \in Engines : f # e => slot'[f] = slot[f]
  BY <1>1, SlotFacts DEF Inv, TypeOK
<1>3. Holds(t)' /\ eng'[t] = e
  BY DEF Issue, Holds, Inv, TypeOK
<1>4. \A u \in Tasks : u # t => pc'[u] = pc[u] /\ eng'[u] = eng[u]
  BY DEF Issue, Inv, TypeOK
<1>5. \A u \in Tasks : u # t => (Holds(u)' <=> Holds(u))
  BY <1>4 DEF Holds
<1>6. \A u \in Tasks : Holds(u)' => eng'[u] \in Engines
  BY DEF Inv, Exclusive
<1>7. \A u \in Tasks : Holds(u)' /\ u # t => eng'[u] # e
  BY <1>3 DEF Inv, Exclusive
<1>8. ASSUME NEW u \in Tasks, Holds(u)', slot'[eng'[u]].status # "none"
      PROVE  eng'[u] \notin busy'
  BY <1>1, <1>2, <1>3, <1>4, <1>5, <1>6, <1>7, <1>8 DEF Quiet
<1>9. ASSUME NEW u \in Tasks, pc'[u] = "wipe", slot'[eng'[u]].status = "ok"
      PROVE  mem'[eng'[u]] # "dirty"
  <2>1. Holds(u)' /\ u # t
    BY <1>2, <1>3, <1>9 DEF Holds
  <2> QED BY <1>1, <1>2, <1>4, <1>6, <1>7, <1>9, <2>1 DEF Quiet
<1>10. ASSUME NEW f \in Engines, \A u \in Tasks : Holds(u)' => eng'[u] # f
       PROVE  f \notin busy' /\ ~slot'[f].armed /\ mem'[f] # "dirty"
  <2>1. f # e
    BY <1>3, <1>10
  <2>2. \A u \in Tasks : Holds(u) => eng[u] # f
    BY <1>4, <1>5, <1>10, <2>1
  <2> QED BY <1>1, <1>2, <2>1, <2>2 DEF Quiet
<1> QED BY <1>8, <1>9, <1>10 DEF Quiet

LEMMA BeginQuiet ==
    ASSUME Inv, Inv', Quiet, NEW t \in Tasks, NEW e \in Engines, Begin(t, e), ~Holds(t)
    PROVE  Quiet'
<1>1. PICK k \in {"op", "wipe"}, n \in Int : Issue(t, e, k, n)
  BY RingAssumption DEF Begin
<1> QED BY <1>1, IssueQuiet

LEMMA DispatchQuiet ==
    ASSUME Inv, Quiet, NEW t \in Tasks, pc[t] = "wipe", ReleaseAndDispatch(t, eng[t]), Return(t),
           busy' \subseteq busy, eng[t] \notin busy', mem'[eng[t]] # "dirty",
           \A f \in Engines : f # eng[t] => mem'[f] = mem[f]
    PROVE  Quiet'
<1>1. PICK e \in Engines : e = eng[t]
  BY DEF Inv, Exclusive, Holds
<1>2. slot' = [slot EXCEPT ![e] = InUse] \/ slot' = [slot EXCEPT ![e] = IdleSlot]
  BY <1>1 DEF ReleaseAndDispatch
<1>3. ~slot'[e].armed /\ \A f \in Engines : f # e => slot'[f] = slot[f]
  BY <1>2, SlotFacts DEF Inv, TypeOK
<1>4. \A u \in Tasks : Holds(u)' => /\ u # t /\ Holds(u) /\ pc'[u] = pc[u]
                                    /\ eng'[u] = eng[u] /\ eng[u] # e /\ eng[u] \in Engines
  BY <1>1, ReturnFacts DEF Inv, Exclusive
<1>5. ASSUME NEW u \in Tasks, Holds(u)', slot'[eng'[u]].status # "none"
      PROVE  eng'[u] \notin busy'
  BY <1>3, <1>4, <1>5 DEF Quiet
<1>6. ASSUME NEW u \in Tasks, pc'[u] = "wipe", slot'[eng'[u]].status = "ok"
      PROVE  mem'[eng'[u]] # "dirty"
  <2>1. Holds(u)'
    BY <1>6 DEF Holds
  <2> QED BY <1>1, <1>3, <1>4, <1>6, <2>1 DEF Quiet
<1>7. ASSUME NEW f \in Engines, f # e, \A u \in Tasks : Holds(u)' => eng'[u] # f
      PROVE  f \notin busy' /\ ~slot'[f].armed /\ mem'[f] # "dirty"
  <2>1. \A u \in Tasks : Holds(u) => eng[u] # f
    BY <1>1, <1>7, ReturnFacts
  <2> QED BY <1>1, <1>3, <1>7, <2>1 DEF Quiet
<1> QED BY <1>1, <1>3, <1>5, <1>6, <1>7 DEF Quiet

LEMMA SameQuiet ==
    ASSUME Inv, Quiet, UNCHANGED <<slot, busy, mem>>,
           \A t \in Tasks : (Holds(t)' <=> Holds(t)) /\ (pc'[t] = "wipe" <=> pc[t] = "wipe"),
           \A t \in Tasks : Holds(t) => eng'[t] = eng[t]
    PROVE  Quiet'
<1>1. \A t \in Tasks : pc[t] = "wipe" => Holds(t)
  BY DEF Holds
<1>2. ASSUME NEW t \in Tasks, Holds(t)', slot'[eng'[t]].status # "none" PROVE eng'[t] \notin busy'
  BY <1>2 DEF Quiet
<1>3. ASSUME NEW t \in Tasks, pc'[t] = "wipe", slot'[eng'[t]].status = "ok"
      PROVE  mem'[eng'[t]] # "dirty"
  BY <1>1, <1>3 DEF Quiet
<1>4. ASSUME NEW f \in Engines, \A t \in Tasks : Holds(t)' => eng'[t] # f
      PROVE  f \notin busy' /\ ~slot'[f].armed /\ mem'[f] # "dirty"
  BY <1>4 DEF Quiet
<1> QED BY <1>2, <1>3, <1>4 DEF Quiet

LEMMA QuietStep == Inv /\ Quiet /\ [Next]_vars => Quiet'
<1> SUFFICES ASSUME Inv, Quiet, [Next]_vars PROVE Quiet'
  OBVIOUS
<1>1. Inv'
  BY StepInv
<1>2. \A t \in Tasks : pc[t] \notin {"op", "wipe"} => ~Holds(t)
  BY DEF Holds
<1>3. ASSUME NEW t \in Tasks, ClaimFreeEngine(t) PROVE Quiet'
  <2>1. PICK e \in free : Begin(t, e)
    <3>1. free \subseteq Nat /\ free # {}
      BY <1>3, RingAssumption DEF Inv, TypeOK, Engines, ClaimFreeEngine
    <3>2. \E e \in free : \A f \in free : e <= f
      BY <3>1, SmallestExists
    <3> QED BY <1>3, <3>2 DEF ClaimFreeEngine
  <2>2. e \in Engines /\ ~Holds(t)
    BY <1>2, <1>3 DEF Inv, TypeOK, ClaimFreeEngine
  <2> QED BY <1>1, <2>1, <2>2, BeginQuiet
<1>4. ASSUME NEW t \in Tasks, NEW e \in Engines, StartSpecific(t, e) PROVE Quiet'
  BY <1>1, <1>2, <1>4, BeginQuiet DEF StartSpecific, TakeSpecific, TakeFreeSpecific
<1>5. ASSUME NEW t \in Tasks, ResumeSpecific(t) PROVE Quiet'
  <2>1. eng[t] \in Engines /\ ~Holds(t) /\ Begin(t, eng[t])
    BY <1>2, <1>5 DEF ResumeSpecific, TakeSpecific, TakeFreeSpecific, Inv, Numbered
  <2> QED BY <1>1, <2>1, BeginQuiet
<1>6. ASSUME NEW t \in Tasks, TakeAssigned(t) PROVE Quiet'
  <2>1. PICK e \in Engines : Begin(t, e)
    BY <1>6, EntryFacts DEF TakeAssigned, Inv, TypeOK, Owned
  <2> QED BY <1>1, <1>2, <1>6, <2>1, BeginQuiet DEF TakeAssigned
<1>7. ASSUME NEW t \in Tasks, CommandDone(t) PROVE Quiet'
  <2>1. eng[t] \in Engines
    BY <1>7 DEF CommandDone, Inv, Exclusive, Holds
  <2>2. PICK k \in {"op", "wipe"}, n \in Int : Issue(t, eng[t], k, n)
    <3>1. left[t] \in Int
      BY RingAssumption DEF Inv, TypeOK
    <3> QED BY <1>7, <3>1 DEF CommandDone
  <2> QED BY <1>1, <2>1, <2>2, IssueQuiet
<1>8. ASSUME NEW t \in Tasks, Release(t) PROVE Quiet'
  <2>1. Holds(t) /\ eng[t] \notin busy /\ mem[eng[t]] # "dirty"
    BY <1>8 DEF Release, Quiet, Holds
  <2> QED BY <1>8, <2>1, DispatchQuiet DEF Release
<1>9. ASSUME NEW t \in Tasks, DropUnreleased(t) PROVE Quiet'
  <2>1. eng[t] \in Engines
    BY <1>9 DEF DropUnreleased, Inv, Exclusive, Holds
  <2>2. /\ busy' \subseteq busy /\ eng[t] \notin busy' /\ mem'[eng[t]] # "dirty"
        /\ \A f \in Engines : f # eng[t] => mem'[f] = mem[f]
    BY <1>9, <2>1 DEF DropUnreleased, SyncWipe, Inv, TypeOK
  <2> QED BY <1>9, <2>2, DispatchQuiet DEF DropUnreleased
<1>10. ASSUME NEW e \in Engines, WakeEngine(e) PROVE Quiet'
  <2>1. PICK r \in {"ok", "err"} :
          /\ slot' = [slot EXCEPT ![e].status = r]
          /\ mem' = IF r = "ok" /\ \E t \in Tasks : eng[t] = e /\ pc[t] = "wipe"
                    THEN [mem EXCEPT ![e] = "clean"] ELSE mem
    BY <1>10 DEF WakeEngine
  <2>2. e \in busy /\ busy' = busy \ {e} /\ UNCHANGED <<pc, eng>>
    BY <1>10 DEF WakeEngine
  <2>3. \A f \in Engines : f # e => slot'[f] = slot[f] /\ mem'[f] = mem[f]
    BY <2>1 DEF Inv, TypeOK
  <2>4. \A t \in Tasks : (Holds(t)' <=> Holds(t)) /\ (Holds(t) => eng[t] \in Engines)
    BY <2>2 DEF Holds, Inv, Exclusive
  <2>5. ASSUME NEW t \in Tasks, Holds(t)', slot'[eng'[t]].status # "none"
        PROVE  eng'[t] \notin busy'
    BY <2>2, <2>3, <2>4, <2>5 DEF Quiet
  <2>6. ASSUME NEW t \in Tasks, pc'[t] = "wipe", slot'[eng'[t]].status = "ok"
        PROVE  mem'[eng'[t]] # "dirty"
    <3>1. Holds(t) /\ eng[t] \in Engines /\ pc[t] = "wipe" /\ eng'[t] = eng[t]
      BY <2>2, <2>4, <2>6 DEF Holds
    <3>2. CASE eng[t] = e
      <4>1. r = "ok"
        BY <2>1, <2>6, <3>1, <3>2 DEF Inv, TypeOK
      <4>2. mem' = [mem EXCEPT ![e] = "clean"]
        BY <2>1, <3>1, <3>2, <4>1
      <4> QED BY <3>1, <3>2, <4>2 DEF Inv, TypeOK
    <3>3. CASE eng[t] # e
      BY <2>3, <2>6, <3>1, <3>3 DEF Quiet
    <3> QED BY <3>2, <3>3
  <2>7. ASSUME NEW f \in Engines, \A t \in Tasks : Holds(t)' => eng'[t] # f
        PROVE  f \notin busy' /\ ~slot'[f].armed /\ mem'[f] # "dirty"
    <3>1. \A t \in Tasks : Holds(t) => eng[t] # f
      BY <2>2, <2>4, <2>7
    <3>2. f # e
      BY <2>2, <3>1 DEF Quiet
    <3> QED BY <2>2, <2>3, <3>1, <3>2 DEF Quiet
  <2> QED BY <2>5, <2>6, <2>7 DEF Quiet
<1>11. ASSUME NEW t \in Tasks, NEW k \in {"queued", "specific"}, pc[t] = "idle",
              pc' = [pc EXCEPT ![t] = k], \A u \in Tasks : u # t => eng'[u] = eng[u],
              UNCHANGED <<slot, busy, mem>>
       PROVE  Quiet'
  <2>1. \A u \in Tasks : (Holds(u)' <=> Holds(u)) /\ (pc'[u] = "wipe" <=> pc[u] = "wipe")
                         /\ (Holds(u) => u # t)
    BY <1>11 DEF Inv, TypeOK, Holds
  <2> QED BY <1>11, <2>1, SameQuiet
<1>12. ASSUME NEW t \in Tasks, JoinQueue(t) PROVE Quiet'
  BY <1>11, <1>12 DEF JoinQueue
<1>13. ASSUME NEW t \in Tasks, NEW e \in Engines, WaitSpecific(t, e) PROVE Quiet'
  BY <1>11, <1>13 DEF WaitSpecific, Inv, TypeOK
<1>14. ASSUME UNCHANGED <<slot, busy, mem, pc, eng>> PROVE Quiet'
  BY <1>14, SameQuiet DEF Holds
<1>15. ASSUME NEW t \in Tasks, RepollSpecific(t) PROVE Quiet'
  BY <1>14, <1>15 DEF RepollSpecific
<1>16. CASE UNCHANGED vars
  BY <1>14, <1>16 DEF vars
<1> QED BY <1>3, <1>4, <1>5, <1>6, <1>7, <1>8, <1>9, <1>10, <1>12, <1>13, <1>15, <1>16 DEF Next

\* Whoever gets an engine finds it idle, its completion slot disarmed and, unless the
\* hardware refused two wipes, the previous owner's data gone.
THEOREM HandOverIsQuiet == Spec => []HandedOverQuiet
<1>1. Init => Quiet
  BY SlotFacts DEF Init, Quiet, Holds
<1>2. Inv /\ Quiet => HandedOverQuiet
  BY DEF Quiet, HandedOverQuiet, Holders, Holds
<1> QED BY <1>1, <1>2, QuietStep, SpecInv, PTL DEF Spec

-----------------------------------------------------------------------------
(* A task is woken when, and only when, it can go on.                      *)

EngineWakers == \A e \in Engines : ewaker[e] # NoTask =>
    Holds(ewaker[e]) /\ eng[ewaker[e]] = e /\ slot[e].status = "none"

NumberedWakers == \A e \in Engines : swaker[e] # NoTask =>
    pc[swaker[e]] = "specific" /\ eng[swaker[e]] = e /\ swaker[e] \notin woken

RingWakers == \A q \in Slots : qwaker[q] # NoTask =>
    pc[qwaker[q]] = "queued" /\ idx[qwaker[q]] = q /\ queue[q].st = "pending"

HoldersWake == \A t \in Tasks : Holds(t) =>
    IF slot[eng[t]].status = "none" THEN ewaker[eng[t]] = t /\ t \notin woken ELSE t \in woken

QueuedWake == \A t \in Tasks : pc[t] = "queued" =>
    IF queue[idx[t]].st = "pending" THEN qwaker[idx[t]] = t /\ t \notin woken ELSE t \in woken

IdleSleep == \A t \in Tasks : pc[t] = "idle" => t \notin woken

\* Every registered waker belongs to the task that waits there, and every sleeping
\* task that has something coming has its waker registered.
Wakers == EngineWakers /\ NumberedWakers /\ RingWakers /\ HoldersWake /\ QueuedWake /\ IdleSleep

\* Issuing a command puts its task to sleep on the engine's slot.
LEMMA IssueWakes ==
    ASSUME Inv, Inv', Wakers, NEW t \in Tasks, NEW e \in Engines, NEW k \in {"op", "wipe"}, NEW n,
           Issue(t, e, k, n),
           Holds(t) => eng[t] = e /\ slot[e].status # "none",
           pc[t] = "specific" => t \in woken,
           pc[t] = "queued" => queue[idx[t]].st = "assigned",
           UNCHANGED <<swaker, qwaker>>,
           \A u \in Tasks : u # t => idx'[u] = idx[u],
           \A q \in Slots : queue'[q].st = queue[q].st \/ (pc[t] = "queued" /\ q = idx[t])
    PROVE  Wakers'
<1>1. Holds(t)' /\ eng'[t] = e /\ pc'[t] \in {"op", "wipe"}
  BY DEF Issue, Holds, Inv, TypeOK
<1>2. \A u \in Tasks : u # t => pc'[u] = pc[u] /\ eng'[u] = eng[u] /\ idx'[u] = idx[u]
  BY DEF Issue, Inv, TypeOK
<1>3. \A u \in Tasks : u # t => (Holds(u)' <=> Holds(u))
  BY <1>2 DEF Holds
<1>4. \A u \in Tasks : Holds(u)' /\ u # t => eng'[u] # e /\ eng'[u] \in Engines
  BY <1>1 DEF Inv, Exclusive
<1>5. NoTask \notin Tasks /\ ewaker \in [Engines -> Tasks \cup {NoTask}]
      /\ swaker \in [Engines -> Tasks \cup {NoTask}] /\ qwaker \in [Slots -> Tasks \cup {NoTask}]
  BY TaskAssumption DEF Inv, TypeOK
<1>6. ewaker[e] = NoTask
  <2> SUFFICES ASSUME ewaker[e] # NoTask PROVE FALSE
    OBVIOUS
  <2>1. PICK u \in Tasks : u = ewaker[e]
    BY <1>5
  <2>2. Holds(u) /\ eng[u] = e /\ slot[e].status = "none"
    BY <2>1, <1>5 DEF Wakers, EngineWakers
  <2> QED BY <1>2, <1>3, <1>4, <2>2
<1>7. woken' = woken \ {t}
  BY <1>6 DEF Issue, Displaced
<1>8. ewaker'[e] = t /\ \A f \in Engines : f # e => ewaker'[f] = ewaker[f]
  BY <1>5 DEF Issue, RegisterWaiter
<1>9. slot'[e].status = "none" /\ \A f \in Engines : f # e => slot'[f] = slot[f]
  BY SlotFacts DEF Issue, Inv, TypeOK
<1>10. \A f \in Engines : swaker[f] # t
  <2> SUFFICES ASSUME NEW f \in Engines, swaker[f] = t PROVE FALSE
    OBVIOUS
  <2> QED BY <1>5 DEF Wakers, NumberedWakers, Holds
<1>11. \A q \in Slots : qwaker[q] # t
  <2> SUFFICES ASSUME NEW q \in Slots, qwaker[q] = t PROVE FALSE
    OBVIOUS
  <2> QED BY <1>5 DEF Wakers, RingWakers
<1>12. EngineWakers'
  <2> SUFFICES ASSUME NEW f \in Engines, ewaker'[f] # NoTask
               PROVE  pc'[ewaker'[f]] \in {"op", "wipe"} /\ eng'[ewaker'[f]] = f /\ slot'[f].status = "none"
    BY DEF EngineWakers, Holds
  <2>1. CASE f = e
    BY <1>1, <1>8, <1>9, <2>1 DEF Holds
  <2>2. CASE f # e
    <3>1. PICK u \in Tasks : u = ewaker[f] /\ ewaker'[f] = u
      BY <1>5, <1>8, <2>2
    <3>2. Holds(u) /\ eng[u] = f /\ slot[f].status = "none"
      BY <1>5, <3>1 DEF Wakers, EngineWakers
    <3>3. u # t
      BY <2>2, <3>2
    <3>4. pc'[u] = pc[u] /\ eng'[u] = f /\ slot'[f] = slot[f]
      BY <1>2, <1>9, <2>2, <3>2, <3>3
    <3> QED BY <3>1, <3>2, <3>4 DEF Holds
  <2> QED BY <2>1, <2>2
<1>13. NumberedWakers'
  <2>1. ASSUME NEW f \in Engines, swaker[f] # NoTask
        PROVE  pc'[swaker[f]] = "specific" /\ eng'[swaker[f]] = f /\ swaker[f] \notin woken'
    BY <1>2, <1>5, <1>7, <1>10, <2>1 DEF Wakers, NumberedWakers
  <2> QED BY <2>1 DEF NumberedWakers
<1>14. RingWakers'
  <2>1. ASSUME NEW q \in Slots, qwaker[q] # NoTask
        PROVE  pc'[qwaker[q]] = "queued" /\ idx'[qwaker[q]] = q /\ queue'[q].st = "pending"
    <3>1. PICK u \in Tasks : u = qwaker[q] /\ u # t
      BY <1>5, <1>11, <2>1
    <3>2. pc[u] = "queued" /\ idx[u] = q /\ queue[q].st = "pending"
      BY <2>1, <3>1 DEF Wakers, RingWakers
    <3> QED BY <1>2, <3>1, <3>2
  <2> QED BY <2>1 DEF RingWakers
<1>15. HoldersWake'
  <2>1. ASSUME NEW u \in Tasks, Holds(u)'
        PROVE  IF slot'[eng'[u]].status = "none" THEN ewaker'[eng'[u]] = u /\ u \notin woken'
                                                 ELSE u \in woken'
    <3>1. CASE u = t
      BY <1>1, <1>7, <1>8, <1>9, <3>1
    <3>2. CASE u # t
      BY <1>2, <1>3, <1>4, <1>7, <1>8, <1>9, <2>1, <3>2 DEF Wakers, HoldersWake
    <3> QED BY <3>1, <3>2
  <2> QED BY <2>1 DEF HoldersWake
<1>16. QueuedWake'
  <2>1. ASSUME NEW u \in Tasks, pc'[u] = "queued"
        PROVE  IF queue'[idx'[u]].st = "pending" THEN qwaker[idx'[u]] = u /\ u \notin woken'
                                                 ELSE u \in woken'
    <3>1. u # t /\ pc[u] = "queued" /\ idx'[u] = idx[u] /\ idx[u] \in Slots
      BY <1>1, <1>2, <2>1 DEF Inv, Owned
    <3>2. queue'[idx[u]].st = queue[idx[u]].st
      BY <3>1 DEF Inv, Owned
    <3> QED BY <1>7, <3>1, <3>2 DEF Wakers, QueuedWake
  <2> QED BY <2>1 DEF QueuedWake
<1>17. IdleSleep'
  BY <1>1, <1>2, <1>7 DEF Wakers, IdleSleep
<1> QED BY <1>12, <1>13, <1>14, <1>15, <1>16, <1>17 DEF Wakers

\* A release wakes the task it serves and no other.
LEMMA DispatchWakes ==
    ASSUME Inv, Wakers, NEW t \in Tasks, pc[t] = "wipe", slot[eng[t]].status # "none",
           ReleaseAndDispatch(t, eng[t]), Return(t), UNCHANGED <<ewaker, idx>>
    PROVE  Wakers'
<1>1. PICK e \in Engines : e = eng[t]
  BY DEF Inv, Exclusive, Holds
<1>2. \A u \in Tasks : Holds(u)' => /\ u # t /\ Holds(u) /\ pc'[u] = pc[u]
                                    /\ eng'[u] = eng[u] /\ eng[u] # e /\ eng[u] \in Engines
  BY <1>1, ReturnFacts DEF Inv, Exclusive
<1>3. pc'[t] = "idle" /\ \A u \in Tasks : u # t => pc'[u] = pc[u] /\ eng'[u] = eng[u]
  BY ReturnFacts
<1>4. NoTask \notin Tasks /\ ewaker \in [Engines -> Tasks \cup {NoTask}]
      /\ swaker \in [Engines -> Tasks \cup {NoTask}] /\ qwaker \in [Slots -> Tasks \cup {NoTask}]
  BY TaskAssumption DEF Inv, TypeOK
<1>5. ewaker[e] = NoTask
  BY <1>1 DEF Wakers, EngineWakers
<1>6. \A f \in Engines : f # e => slot'[f] = slot[f]
  BY <1>1 DEF ReleaseAndDispatch, Inv, TypeOK
<1>7. EngineWakers'
  <2>1. ASSUME NEW f \in Engines, ewaker[f] # NoTask
        PROVE  pc'[ewaker[f]] \in {"op", "wipe"} /\ eng'[ewaker[f]] = f /\ slot'[f].status = "none"
    <3>1. PICK u \in Tasks : u = ewaker[f]
      BY <1>4, <2>1
    <3>2. Holds(u) /\ eng[u] = f /\ slot[f].status = "none" /\ f # e
      BY <1>5, <2>1, <3>1 DEF Wakers, EngineWakers
    <3>3. u # t
      BY <1>1, <3>2
    <3> QED BY <1>3, <1>6, <3>1, <3>2, <3>3 DEF Holds
  <2> QED BY <2>1 DEF EngineWakers, Holds
<1> DEFINE W == woken \ {t}
<1>8. ASSUME NEW s \in Tasks \cup {NoTask}, s # NoTask => pc[s] \in {"queued", "specific"},
             woken' = W \cup ({s} \ {NoTask})
      PROVE  HoldersWake' /\ IdleSleep'
  <2>1. \A u \in Tasks : u # s /\ u # t => (u \in woken' <=> u \in woken)
    BY <1>8
  <2>2. s # t
    BY <1>4, <1>8
  <2>3. t \notin woken'
    BY <1>8, <2>2
  <2>4. ASSUME NEW u \in Tasks, Holds(u)'
        PROVE  IF slot'[eng'[u]].status = "none" THEN ewaker'[eng'[u]] = u /\ u \notin woken'
                                                 ELSE u \in woken'
    <3>1. u # s
      BY <1>2, <1>4, <1>8, <2>4 DEF Holds
    <3> QED BY <1>2, <1>6, <2>1, <2>4, <3>1 DEF Wakers, HoldersWake
  <2>5. ASSUME NEW u \in Tasks, pc'[u] = "idle" PROVE u \notin woken'
    <3>1. CASE u = t
      BY <2>3, <3>1
    <3>2. CASE u # t
      <4>1. pc[u] = "idle" /\ u # s
        BY <1>3, <1>4, <1>8, <2>5, <3>2
      <4> QED BY <2>1, <3>2, <4>1 DEF Wakers, IdleSleep
    <3> QED BY <3>1, <3>2
  <2> QED BY <2>4, <2>5 DEF HoldersWake, IdleSleep
<1>9. \A u \in Tasks : (pc'[u] = "queued" <=> pc[u] = "queued" /\ u # t)
                       /\ (pc'[u] = "specific" <=> pc[u] = "specific" /\ u # t)
  BY <1>3
<1>10. CASE waiter[e].waiting
  <2>1. /\ swaker' = [swaker EXCEPT ![e] = NoTask]
        /\ woken' = W \cup ({swaker[e]} \ {NoTask})
        /\ UNCHANGED <<queue, qwaker>>
    BY <1>1, <1>10 DEF ReleaseAndDispatch, WokenBy, ring
  <2>2. swaker[e] \in Tasks \cup {NoTask}
        /\ (swaker[e] # NoTask => pc[swaker[e]] = "specific" /\ eng[swaker[e]] = e)
    BY <1>4 DEF Wakers, NumberedWakers
  <2>3. HoldersWake' /\ IdleSleep'
    BY <1>8, <2>1, <2>2
  <2>4. NumberedWakers'
    <3>1. ASSUME NEW f \in Engines, swaker'[f] # NoTask
          PROVE  pc'[swaker'[f]] = "specific" /\ eng'[swaker'[f]] = f /\ swaker'[f] \notin woken'
      <4>1. PICK s \in Tasks : s = swaker[f] /\ swaker'[f] = s /\ f # e
        BY <1>4, <2>1, <3>1
      <4>2. pc[s] = "specific" /\ eng[s] = f /\ s \notin woken
        BY <1>4, <4>1 DEF Wakers, NumberedWakers
      <4>3. s # t /\ s # swaker[e]
        BY <1>4, <2>2, <4>1, <4>2
      <4> QED BY <1>3, <2>1, <4>1, <4>2, <4>3
    <3> QED BY <3>1 DEF NumberedWakers
  <2>5. RingWakers'
    <3>1. ASSUME NEW q \in Slots, qwaker[q] # NoTask
          PROVE  pc'[qwaker[q]] = "queued" /\ idx[qwaker[q]] = q /\ queue[q].st = "pending"
      BY <1>3, <1>4, <3>1 DEF Wakers, RingWakers
    <3> QED BY <2>1, <3>1 DEF RingWakers
  <2>6. QueuedWake'
    <3>1. ASSUME NEW u \in Tasks, pc'[u] = "queued"
          PROVE  IF queue[idx[u]].st = "pending" THEN qwaker[idx[u]] = u /\ u \notin woken'
                                                 ELSE u \in woken'
      <4>1. pc[u] = "queued" /\ u # t /\ u # swaker[e]
        BY <1>4, <1>9, <2>2, <3>1
      <4> QED BY <2>1, <4>1 DEF Wakers, QueuedWake
    <3> QED BY <2>1, <3>1 DEF QueuedWake
  <2> QED BY <1>7, <2>3, <2>4, <2>5, <2>6 DEF Wakers
<1>11. ASSUME UNCHANGED swaker, NEW s \in Tasks \cup {NoTask},
              s # NoTask => pc[s] = "queued",
              woken' = W \cup ({s} \ {NoTask})
       PROVE  NumberedWakers'
  <2>1. ASSUME NEW f \in Engines, swaker[f] # NoTask
        PROVE  pc'[swaker[f]] = "specific" /\ eng'[swaker[f]] = f /\ swaker[f] \notin woken'
    <3>1. PICK u \in Tasks : u = swaker[f] /\ pc[u] = "specific" /\ eng[u] = f /\ u \notin woken
      BY <1>4, <2>1 DEF Wakers, NumberedWakers
    <3>2. u # t /\ u # s
      BY <1>4, <1>11, <3>1
    <3> QED BY <1>3, <1>11, <3>1, <3>2
  <2> QED BY <1>11, <2>1 DEF NumberedWakers
<1>12. CASE ~waiter[e].waiting /\ ~HasAnyWaiters
  <2>1. woken' = W \cup ({NoTask} \ {NoTask}) /\ UNCHANGED <<queue, swaker, qwaker>>
    BY <1>1, <1>12 DEF ReleaseAndDispatch, ring
  <2>2. HoldersWake' /\ IdleSleep' /\ NumberedWakers'
    BY <1>8, <1>11, <2>1
  <2>3. RingWakers'
    <3>1. ASSUME NEW q \in Slots, qwaker[q] # NoTask
          PROVE  pc'[qwaker[q]] = "queued" /\ idx[qwaker[q]] = q /\ queue[q].st = "pending"
      BY <1>3, <1>4, <3>1 DEF Wakers, RingWakers
    <3> QED BY <2>1, <3>1 DEF RingWakers
  <2>4. QueuedWake'
    BY <1>9, <2>1 DEF Wakers, QueuedWake
  <2> QED BY <1>7, <2>2, <2>3, <2>4 DEF Wakers
<1>13. CASE ~waiter[e].waiting /\ HasAnyWaiters
  <2>1. PICK q \in Slots : q = Index(FirstPending) /\ queue[q].st = "pending"
    BY <1>13, ScanFinds DEF Inv
  <2>2. /\ queue' = [queue EXCEPT ![q] = Assigned(e)]
        /\ qwaker' = [qwaker EXCEPT ![q] = NoTask]
        /\ woken' = W \cup ({qwaker[q]} \ {NoTask})
        /\ UNCHANGED swaker
    BY <1>1, <1>13, <2>1 DEF ReleaseAndDispatch, WokenBy
  <2>3. queue'[q].st = "assigned" /\ \A p \in Slots : p # q => queue'[p] = queue[p]
    BY <2>2, EntryFacts DEF Inv, TypeOK
  <2>4. qwaker[q] \in Tasks \cup {NoTask}
        /\ (qwaker[q] # NoTask => pc[qwaker[q]] = "queued" /\ idx[qwaker[q]] = q)
    BY <1>4 DEF Wakers, RingWakers
  <2>5. HoldersWake' /\ IdleSleep' /\ NumberedWakers'
    BY <1>8, <1>11, <2>2, <2>4
  <2>6. RingWakers'
    <3>1. ASSUME NEW p \in Slots, qwaker'[p] # NoTask
          PROVE  pc'[qwaker'[p]] = "queued" /\ idx[qwaker'[p]] = p /\ queue'[p].st = "pending"
      <4>1. p # q /\ qwaker'[p] = qwaker[p] /\ queue'[p] = queue[p]
        BY <1>4, <2>2, <2>3, <3>1
      <4> QED BY <1>3, <1>4, <3>1, <4>1 DEF Wakers, RingWakers
    <3> QED BY <3>1 DEF RingWakers
  <2>7. QueuedWake'
    <3>1. ASSUME NEW u \in Tasks, pc'[u] = "queued"
          PROVE  IF queue'[idx[u]].st = "pending" THEN qwaker'[idx[u]] = u /\ u \notin woken'
                                                  ELSE u \in woken'
      <4>1. pc[u] = "queued" /\ u # t /\ idx[u] \in Slots
        BY <1>9, <3>1 DEF Inv, Owned
      <4>2. CASE idx[u] = q
        <5>1. qwaker[q] = u
          BY <2>1, <4>1, <4>2 DEF Wakers, QueuedWake
        <5> QED BY <1>4, <2>2, <2>3, <4>1, <4>2, <5>1
      <4>3. CASE idx[u] # q
        <5>1. qwaker'[idx[u]] = qwaker[idx[u]] /\ queue'[idx[u]] = queue[idx[u]]
          BY <1>4, <2>2, <2>3, <4>1, <4>3
        <5>2. u # qwaker[q]
          BY <1>4, <2>4, <4>1, <4>3
        <5> QED BY <2>2, <4>1, <5>1, <5>2 DEF Wakers, QueuedWake
      <4> QED BY <4>2, <4>3
    <3> QED BY <3>1 DEF QueuedWake
  <2> QED BY <1>7, <2>5, <2>6, <2>7 DEF Wakers
<1> QED BY <1>10, <1>12, <1>13

LEMMA BeginWakes ==
    ASSUME Inv, Inv', Wakers, NEW t \in Tasks, NEW e \in Engines, Begin(t, e), ~Holds(t),
           pc[t] = "specific" => t \in woken,
           pc[t] = "queued" => queue[idx[t]].st = "assigned",
           UNCHANGED <<swaker, qwaker>>,
           \A u \in Tasks : u # t => idx'[u] = idx[u],
           \A q \in Slots : queue'[q].st = queue[q].st \/ (pc[t] = "queued" /\ q = idx[t])
    PROVE  Wakers'
<1>1. PICK k \in {"op", "wipe"}, n \in Int : Issue(t, e, k, n)
  BY RingAssumption DEF Begin
<1> QED BY <1>1, IssueWakes

LEMMA JoinQueueWakes ==
    ASSUME Inv, Wakers, NEW t \in Tasks, JoinQueue(t)
    PROVE  Wakers'
<1> DEFINE q == tail % DEPTH
<1>1. q \in Slots /\ queue[q].st = "free"
  BY TailIsFree DEF Inv, TypeOK, Cursors, JoinQueue
<1>2. NoTask \notin Tasks /\ qwaker \in [Slots -> Tasks \cup {NoTask}]
      /\ ewaker \in [Engines -> Tasks \cup {NoTask}] /\ swaker \in [Engines -> Tasks \cup {NoTask}]
  BY TaskAssumption DEF Inv, TypeOK
<1>3. qwaker[q] = NoTask
  BY <1>1 DEF Wakers, RingWakers
<1>4. /\ queue' = [queue EXCEPT ![q] = Pending] /\ qwaker' = [qwaker EXCEPT ![q] = t]
      /\ idx' = [idx EXCEPT ![t] = q] /\ pc' = [pc EXCEPT ![t] = "queued"] /\ pc[t] = "idle"
      /\ woken' = (woken \ {t}) \cup Displaced(qwaker[q], t)
      /\ UNCHANGED <<slot, ewaker, swaker, eng>>
  BY DEF JoinQueue, RegisterEntry
<1>5. woken' = woken /\ t \notin woken
  BY <1>3, <1>4 DEF Displaced, Wakers, IdleSleep
<1> HIDE DEF q
<1>6. queue'[q].st = "pending" /\ \A p \in Slots : p # q => queue'[p] = queue[p]
  BY <1>1, <1>4, EntryFacts DEF Inv, TypeOK
<1>7. pc'[t] = "queued" /\ idx'[t] = q
      /\ \A u \in Tasks : u # t => pc'[u] = pc[u] /\ idx'[u] = idx[u]
  BY <1>4 DEF Inv, TypeOK
<1>8. \A u \in Tasks : (Holds(u)' <=> Holds(u)) /\ (Holds(u) => u # t)
  BY <1>4, <1>7 DEF Holds
<1>9. EngineWakers'
  <2>1. ASSUME NEW f \in Engines, ewaker[f] # NoTask
        PROVE  pc'[ewaker[f]] \in {"op", "wipe"} /\ eng[ewaker[f]] = f /\ slot[f].status = "none"
    BY <1>2, <1>4, <1>7, <2>1 DEF Wakers, EngineWakers, Holds
  <2> QED BY <1>4, <2>1 DEF EngineWakers, Holds
<1>10. NumberedWakers'
  <2>1. ASSUME NEW f \in Engines, swaker[f] # NoTask
        PROVE  pc'[swaker[f]] = "specific" /\ eng[swaker[f]] = f /\ swaker[f] \notin woken
    BY <1>2, <1>4, <1>7, <2>1 DEF Wakers, NumberedWakers
  <2> QED BY <1>4, <1>5, <2>1 DEF NumberedWakers
<1>11. RingWakers'
  <2>1. ASSUME NEW p \in Slots, qwaker'[p] # NoTask
        PROVE  pc'[qwaker'[p]] = "queued" /\ idx'[qwaker'[p]] = p /\ queue'[p].st = "pending"
    <3>1. CASE p = q
      BY <1>1, <1>2, <1>4, <1>6, <1>7, <3>1
    <3>2. CASE p # q
      <4>1. PICK u \in Tasks : u = qwaker[p] /\ qwaker'[p] = u
        BY <1>2, <1>4, <2>1, <3>2
      <4>2. pc[u] = "queued" /\ idx[u] = p /\ queue[p].st = "pending"
        BY <1>2, <4>1 DEF Wakers, RingWakers
      <4> QED BY <1>4, <1>6, <1>7, <3>2, <4>1, <4>2
    <3> QED BY <3>1, <3>2
  <2> QED BY <2>1 DEF RingWakers
<1>12. HoldersWake'
  BY <1>4, <1>5, <1>8 DEF Wakers, HoldersWake
<1>13. QueuedWake'
  <2>1. ASSUME NEW u \in Tasks, pc'[u] = "queued"
        PROVE  IF queue'[idx'[u]].st = "pending" THEN qwaker'[idx'[u]] = u /\ u \notin woken
                                                 ELSE u \in woken
    <3>1. CASE u = t
      BY <1>1, <1>2, <1>4, <1>5, <1>6, <1>7, <3>1
    <3>2. CASE u # t
      <4>1. pc[u] = "queued" /\ idx'[u] = idx[u] /\ idx[u] \in Slots /\ idx[u] # q
        BY <1>1, <1>7, <2>1, <3>2 DEF Inv, Owned
      <4>2. qwaker'[idx[u]] = qwaker[idx[u]] /\ queue'[idx[u]] = queue[idx[u]]
        BY <1>2, <1>4, <1>6, <4>1
      <4> QED BY <4>1, <4>2 DEF Wakers, QueuedWake
    <3> QED BY <3>1, <3>2
  <2> QED BY <1>5, <2>1 DEF QueuedWake
<1>14. IdleSleep'
  BY <1>5, <1>7 DEF Wakers, IdleSleep
<1> QED BY <1>9, <1>10, <1>11, <1>12, <1>13, <1>14 DEF Wakers

\* A caller by number registers, displacing at most another caller by number.
LEMMA NumberedWakes ==
    ASSUME Inv, Wakers, NEW t \in Tasks, NEW e \in Engines,
           swaker' = [swaker EXCEPT ![e] = t],
           woken' = (woken \ {t}) \cup Displaced(swaker[e], t),
           pc[t] = "idle" \/ (pc[t] = "specific" /\ eng[t] = e),
           pc' = [pc EXCEPT ![t] = "specific"], eng' = [eng EXCEPT ![t] = e],
           UNCHANGED <<slot, queue, ewaker, qwaker, idx>>
    PROVE  Wakers'
<1>1. NoTask \notin Tasks /\ qwaker \in [Slots -> Tasks \cup {NoTask}]
      /\ ewaker \in [Engines -> Tasks \cup {NoTask}] /\ swaker \in [Engines -> Tasks \cup {NoTask}]
  BY TaskAssumption DEF Inv, TypeOK
<1>2. pc'[t] = "specific" /\ eng'[t] = e /\ ~Holds(t)
      /\ \A u \in Tasks : u # t => pc'[u] = pc[u] /\ eng'[u] = eng[u]
  BY DEF Inv, TypeOK, Holds
<1>3. \A u \in Tasks : Holds(u)' <=> Holds(u)
  BY <1>2 DEF Holds
<1>4. ASSUME NEW u \in Tasks, u # t, pc[u] # "specific" \/ eng[u] # e
      PROVE  u \in woken' <=> u \in woken
  <2>1. u # swaker[e]
    BY <1>1, <1>4 DEF Wakers, NumberedWakers
  <2> QED BY <1>4, <2>1 DEF Displaced
<1>5. t \notin woken'
  BY DEF Displaced
<1>6. EngineWakers'
  <2>1. ASSUME NEW f \in Engines, ewaker[f] # NoTask
        PROVE  pc'[ewaker[f]] \in {"op", "wipe"} /\ eng'[ewaker[f]] = f /\ slot[f].status = "none"
    BY <1>1, <1>2, <2>1 DEF Wakers, EngineWakers, Holds
  <2> QED BY <2>1 DEF EngineWakers, Holds
<1>7. NumberedWakers'
  <2>1. ASSUME NEW f \in Engines, swaker'[f] # NoTask
        PROVE  pc'[swaker'[f]] = "specific" /\ eng'[swaker'[f]] = f /\ swaker'[f] \notin woken'
    <3>1. CASE f = e
      BY <1>1, <1>2, <1>5, <3>1
    <3>2. CASE f # e
      <4>1. PICK u \in Tasks : u = swaker[f] /\ swaker'[f] = u
        BY <1>1, <2>1, <3>2
      <4>2. pc[u] = "specific" /\ eng[u] = f /\ u \notin woken
        BY <1>1, <4>1 DEF Wakers, NumberedWakers
      <4> QED BY <1>2, <1>4, <3>2, <4>1, <4>2
    <3> QED BY <3>1, <3>2
  <2> QED BY <2>1 DEF NumberedWakers
<1>8. RingWakers'
  <2>1. ASSUME NEW q \in Slots, qwaker[q] # NoTask
        PROVE  pc'[qwaker[q]] = "queued" /\ idx[qwaker[q]] = q /\ queue[q].st = "pending"
    BY <1>1, <1>2, <2>1 DEF Wakers, RingWakers
  <2> QED BY <2>1 DEF RingWakers
<1>9. HoldersWake'
  <2>1. ASSUME NEW u \in Tasks, Holds(u)
        PROVE  IF slot[eng'[u]].status = "none" THEN ewaker[eng'[u]] = u /\ u \notin woken'
                                                ELSE u \in woken'
    <3>1. u # t /\ pc[u] # "specific"
      BY <1>2, <2>1 DEF Holds
    <3> QED BY <1>2, <1>4, <2>1, <3>1 DEF Wakers, HoldersWake
  <2> QED BY <1>3, <2>1 DEF HoldersWake
<1>10. QueuedWake' /\ IdleSleep'
  BY <1>2, <1>4 DEF Wakers, QueuedWake, IdleSleep
<1> QED BY <1>6, <1>7, <1>8, <1>9, <1>10 DEF Wakers

LEMMA WakeEngineWakes ==
    ASSUME Inv, Wakers, NEW e \in Engines, WakeEngine(e)
    PROVE  Wakers'
<1>1. NoTask \notin Tasks /\ qwaker \in [Slots -> Tasks \cup {NoTask}]
      /\ ewaker \in [Engines -> Tasks \cup {NoTask}] /\ swaker \in [Engines -> Tasks \cup {NoTask}]
  BY TaskAssumption DEF Inv, TypeOK
<1>2. /\ slot[e].status = "none" /\ ewaker' = [ewaker EXCEPT ![e] = NoTask]
      /\ woken' = woken \cup ({ewaker[e]} \ {NoTask})
      /\ UNCHANGED <<queue, swaker, qwaker, pc, eng, idx>>
  BY DEF WakeEngine, WokenBy, ring
<1>3. slot'[e].status # "none" /\ \A f \in Engines : f # e => slot'[f] = slot[f]
  BY DEF WakeEngine, Inv, TypeOK, SlotStates, IdleSlot, InUse, Armed
<1>4. \A u \in Tasks : Holds(u)' <=> Holds(u)
  BY <1>2 DEF Holds
<1>5. ewaker[e] # NoTask => Holds(ewaker[e]) /\ eng[ewaker[e]] = e
  BY DEF Wakers, EngineWakers
<1>6. \A u \in Tasks : ~(Holds(u) /\ eng[u] = e) => (u \in woken' <=> u \in woken)
  BY <1>1, <1>2, <1>5
<1>7. EngineWakers'
  <2>1. ASSUME NEW f \in Engines, ewaker'[f] # NoTask
        PROVE  pc[ewaker'[f]] \in {"op", "wipe"} /\ eng[ewaker'[f]] = f /\ slot'[f].status = "none"
    BY <1>1, <1>2, <1>3, <2>1 DEF Wakers, EngineWakers, Holds
  <2> QED BY <1>2, <2>1 DEF EngineWakers, Holds
<1>8. NumberedWakers'
  <2>1. ASSUME NEW f \in Engines, swaker[f] # NoTask PROVE swaker[f] \notin woken'
    <3>1. swaker[f] \in Tasks /\ pc[swaker[f]] = "specific" /\ swaker[f] \notin woken
      BY <1>1, <2>1 DEF Wakers, NumberedWakers
    <3> QED BY <1>6, <3>1 DEF Holds
  <2> QED BY <1>2, <2>1 DEF Wakers, NumberedWakers
<1>9. RingWakers'
  BY <1>2 DEF Wakers, RingWakers
<1>10. HoldersWake'
  <2>1. ASSUME NEW u \in Tasks, Holds(u)
        PROVE  IF slot'[eng[u]].status = "none" THEN ewaker'[eng[u]] = u /\ u \notin woken'
                                                ELSE u \in woken'
    <3>1. eng[u] \in Engines
      BY <2>1 DEF Inv, Exclusive
    <3>2. CASE eng[u] = e
      <4>1. ewaker[e] = u
        BY <1>2, <2>1, <3>2 DEF Wakers, HoldersWake
      <4> QED BY <1>1, <1>2, <1>3, <3>2, <4>1
    <3>3. CASE eng[u] # e
      BY <1>1, <1>2, <1>3, <1>6, <2>1, <3>1, <3>3 DEF Wakers, HoldersWake
    <3> QED BY <3>2, <3>3
  <2> QED BY <1>2, <1>4, <2>1 DEF HoldersWake
<1>11. QueuedWake' /\ IdleSleep'
  <2>1. \A u \in Tasks : pc[u] \in {"queued", "idle"} => (u \in woken' <=> u \in woken)
    BY <1>6 DEF Holds
  <2> QED BY <1>2, <2>1 DEF Wakers, QueuedWake, IdleSleep
<1> QED BY <1>7, <1>8, <1>9, <1>10, <1>11 DEF Wakers

LEMMA WakersStep == Inv /\ Wakers /\ [Next]_vars => Wakers'
<1> SUFFICES ASSUME Inv, Wakers, [Next]_vars PROVE Wakers'
  OBVIOUS
<1>1. Inv'
  BY StepInv
<1>2. \A t \in Tasks : pc[t] \notin {"op", "wipe"} => ~Holds(t)
  BY DEF Holds
<1>3. ASSUME NEW t \in Tasks, ClaimFreeEngine(t) PROVE Wakers'
  <2>1. PICK e \in free : Begin(t, e)
    <3>1. free \subseteq Nat /\ free # {}
      BY <1>3, RingAssumption DEF Inv, TypeOK, Engines, ClaimFreeEngine
    <3>2. \E e \in free : \A f \in free : e <= f
      BY <3>1, SmallestExists
    <3> QED BY <1>3, <3>2 DEF ClaimFreeEngine
  <2>2. e \in Engines /\ ~Holds(t)
    BY <1>2, <1>3 DEF Inv, TypeOK, ClaimFreeEngine
  <2> QED BY <1>1, <1>3, <2>1, <2>2, BeginWakes DEF ClaimFreeEngine, ring
<1>4. ASSUME NEW t \in Tasks, NEW e \in Engines, StartSpecific(t, e) PROVE Wakers'
  BY <1>1, <1>2, <1>4, BeginWakes DEF StartSpecific, TakeSpecific, TakeFreeSpecific, ring
<1>5. ASSUME NEW t \in Tasks, ResumeSpecific(t) PROVE Wakers'
  <2>1. eng[t] \in Engines /\ ~Holds(t) /\ Begin(t, eng[t])
    BY <1>2, <1>5 DEF ResumeSpecific, TakeSpecific, TakeFreeSpecific, Inv, Numbered
  <2> QED BY <1>1, <1>5, <2>1, BeginWakes DEF ResumeSpecific, ring
<1>6. ASSUME NEW t \in Tasks, TakeAssigned(t) PROVE Wakers'
  <2>1. PICK e \in Engines : Begin(t, e)
    BY <1>6, EntryFacts DEF TakeAssigned, Inv, TypeOK, Owned
  <2>2. /\ \A u \in Tasks : u # t => idx'[u] = idx[u]
        /\ \A q \in Slots : queue'[q].st = queue[q].st \/ q = idx[t]
    BY <1>6 DEF TakeAssigned, ClearQueueEntry, Inv, TypeOK
  <2> QED BY <1>1, <1>2, <1>6, <2>1, <2>2, BeginWakes DEF TakeAssigned
<1>7. ASSUME NEW t \in Tasks, CommandDone(t) PROVE Wakers'
  <2>1. eng[t] \in Engines
    BY <1>7 DEF CommandDone, Inv, Exclusive, Holds
  <2>2. PICK k \in {"op", "wipe"}, n \in Int : Issue(t, eng[t], k, n)
    <3>1. left[t] \in Int
      BY RingAssumption DEF Inv, TypeOK
    <3> QED BY <1>7, <3>1 DEF CommandDone
  <2> QED BY <1>1, <1>7, <2>1, <2>2, IssueWakes DEF CommandDone, ring
<1>8. ASSUME NEW t \in Tasks, Release(t) \/ DropUnreleased(t) PROVE Wakers'
  BY <1>8, DispatchWakes DEF Release, DropUnreleased
<1>9. ASSUME NEW t \in Tasks, NEW e \in Engines, WaitSpecific(t, e) PROVE Wakers'
  BY <1>9, NumberedWakes DEF WaitSpecific, ring
<1>10. ASSUME NEW t \in Tasks, RepollSpecific(t) PROVE Wakers'
  <2>1. eng[t] \in Engines /\ pc[t] = "specific"
    BY <1>10 DEF RepollSpecific, Inv, Numbered
  <2>2. pc' = [pc EXCEPT ![t] = "specific"] /\ eng' = [eng EXCEPT ![t] = eng[t]]
    BY <1>10, <2>1 DEF RepollSpecific, Inv, TypeOK
  <2> QED BY <1>10, <2>1, <2>2, NumberedWakes DEF RepollSpecific, ring
<1>11. CASE UNCHANGED vars
  BY <1>11 DEF vars, wakers, ring, Wakers, EngineWakers, NumberedWakers, RingWakers,
               HoldersWake, QueuedWake, IdleSleep, Holds
<1> QED BY <1>3, <1>4, <1>5, <1>6, <1>7, <1>8, <1>9, <1>10, <1>11, JoinQueueWakes,
           WakeEngineWakes DEF Next

\* No wake-up is lost and none is spurious, for ring waiters and for tasks that await a
\* command, whoever registers over whose waker.
THEOREM NoLostWakeUp == Spec => []WokenIffReady
<1>1. Init => Wakers
  BY TaskAssumption DEF Init, Wakers, EngineWakers, NumberedWakers, RingWakers, HoldersWake,
                        QueuedWake, IdleSleep, Holds
<1>2. Inv /\ Wakers => WokenIffReady
  <2> SUFFICES ASSUME Inv, Wakers, NEW t \in Tasks
               PROVE  /\ pc[t] = "idle" => t \notin woken
                      /\ pc[t] = "queued" => (t \in woken <=> queue[idx[t]].st = "assigned")
                      /\ pc[t] \in {"op", "wipe"} => (t \in woken <=> slot[eng[t]].status # "none")
    BY DEF WokenIffReady
  <2>1. pc[t] = "queued" => queue[idx[t]].st \in {"pending", "assigned"}
    BY EntryFacts DEF Inv, TypeOK, Owned
  <2> QED BY <2>1 DEF Wakers, HoldersWake, QueuedWake, IdleSleep, Holds
<1> QED BY <1>1, <1>2, WakersStep, SpecInv, PTL DEF Spec


-----------------------------------------------------------------------------
(* The pool implements EnginePool.                                         *)

\* An entry has one place between the cursors.
LEMMA OnePlace ==
    ASSUME Inv, NEW j \in 0 .. Length - 1, NEW k \in 0 .. Length - 1, Index(j) = Index(k)
    PROVE  j = k
<1>1. Cursors /\ DEPTH \in Nat /\ Length \in Nat /\ Length <= DEPTH
  <2>1. Cursors
    BY DEF Inv, TypeOK, Cursors
  <2> QED BY <2>1, TailAfterHead, RingAssumption DEF Inv, RingOK
<1>2. j \in Nat /\ k \in Nat /\ j - k < DEPTH /\ k - j < DEPTH
  BY <1>1
<1> QED BY <1>1, <1>2, IndexApart

\* What the mapped variables are, task by task.
LEMMA HeldIs ==
    ASSUME Inv
    PROVE  /\ Held \in [Tasks -> Engines \cup {NoEngine}]
           /\ \A t \in Tasks : Holds(t) => Held[t] = eng[t] /\ t \notin InLine
           /\ \A t \in Tasks : pc[t] = "queued" =>
                /\ Held[t] = queue[idx[t]].engine
                /\ t \in InLine <=> queue[idx[t]].st = "pending"
           /\ \A t \in Tasks : ~Holds(t) /\ pc[t] # "queued" =>
                Held[t] = NoEngine /\ t \notin InLine
<1>1. ASSUME NEW t \in Tasks PROVE Holding(t) \in Engines \cup {NoEngine}
  <2>1. CASE Holds(t)
    BY <2>1 DEF Holding, Holds, Inv, TypeOK
  <2>2. CASE pc[t] = "queued"
    <3>1. queue[idx[t]] \in Entries
      BY <2>2 DEF Inv, Owned, TypeOK
    <3>2. \A x \in Entries : x.engine \in Engines \cup {NoEngine}
      BY DEF Entries, FreeEntry, Pending, Assigned
    <3> QED BY <2>2, <3>1, <3>2 DEF Holding
  <2>3. CASE ~Holds(t) /\ pc[t] # "queued"
    BY <2>3 DEF Holding, Holds
  <2> QED BY <2>1, <2>2, <2>3
<1>2. Held \in [Tasks -> Engines \cup {NoEngine}]
  BY <1>1 DEF Held
<1>3. \A t \in Tasks : Holds(t) => Held[t] = eng[t] /\ t \notin InLine
  BY DEF Held, Holding, Holds, InLine
<1>4. \A t \in Tasks : pc[t] = "queued" =>
        Held[t] = queue[idx[t]].engine /\ (t \in InLine <=> queue[idx[t]].st = "pending")
  BY DEF Held, Holding, InLine
<1>5. \A t \in Tasks : ~Holds(t) /\ pc[t] # "queued" => Held[t] = NoEngine /\ t \notin InLine
  BY DEF Held, Holding, Holds, InLine
<1> QED BY <1>2, <1>3, <1>4, <1>5

\* A step that leaves the ring and its owners alone leaves the line alone.
LEMMA SameLine ==
    ASSUME UNCHANGED ring,
           \A t \in Tasks : pc'[t] = "queued" <=> pc[t] = "queued",
           \A t \in Tasks : pc[t] = "queued" => idx'[t] = idx[t]
    PROVE  InLine' = InLine /\ Ahead' = Ahead
<1>1. InLine' = InLine
  BY DEF InLine, ring
<1>2. ASSUME NEW t \in InLine, NEW u \in InLine PROVE Before(u, t)' <=> Before(u, t)
  BY DEF Before, InLine, ring, Length, Index, Advance
<1> QED BY <1>1, <1>2 DEF Ahead

\* A task that holds nothing and waits for nothing.
LEMMA Outsider ==
    ASSUME Inv, NEW t \in Tasks, pc[t] \in {"idle", "specific"}
    PROVE  Pool!Outside(t)
BY HeldIs DEF Pool!Outside, Holds

\* A task starts on engine e: the others keep theirs.
LEMMA BeginHolds ==
    ASSUME Inv, Inv', NEW t \in Tasks, NEW e \in Engines, pc[t] \in {"idle", "specific"},
           Begin(t, e), UNCHANGED <<ring, idx>>
    PROVE  /\ Pool!Hold(t, e) /\ Pool!Outside(t)
           /\ InLine' = InLine /\ Ahead' = Ahead
<1>1. PICK k \in {"op", "wipe"} : pc' = [pc EXCEPT ![t] = k]
  BY BeginFacts DEF Inv
<1>2. eng' = [eng EXCEPT ![t] = e]
  BY BeginFacts DEF Inv
<1>3. pc'[t] = k /\ eng'[t] = e /\ \A u \in Tasks : u # t => pc'[u] = pc[u] /\ eng'[u] = eng[u]
  BY <1>1, <1>2 DEF Inv, TypeOK
<1>4. InLine' = InLine /\ Ahead' = Ahead
  BY <1>3, SameLine DEF InLine
<1>5. Held' = [Held EXCEPT ![t] = e]
  <2>1. ASSUME NEW u \in Tasks, u # t PROVE Holding(u)' = Holding(u)
    BY <1>3, <2>1 DEF Holding, ring
  <2>2. Holding(t)' = e
    BY <1>3 DEF Holding
  <2> QED BY <2>1, <2>2 DEF Held
<1> QED BY <1>4, <1>5, Outsider DEF Pool!Hold

\* A free engine is claimed only when nobody is in line.
LEMMA FreeIsClaim ==
    ASSUME Inv, Inv', NoIdle, NEW t \in Tasks, NEW e \in free, pc[t] \in {"idle", "specific"},
           free' = free \ {e}, Begin(t, e), UNCHANGED <<waiter, ring, idx>>
    PROVE  Pool!Next
<1>1. e \in Engines
  BY DEF Inv, TypeOK
<1>2. InLine = {}
  BY DEF InLine, NoIdle, Inv, Owned
<1>3. Wanted' = Wanted /\ Kept' = Kept
  BY DEF Wanted, Kept
<1>4. Pool!Claim(t, e)
  BY <1>1, <1>2, <1>3, BeginHolds DEF Pool!Claim
<1> QED BY <1>1, <1>4 DEF Pool!Next

\* The engine that was kept for a caller by number goes to one.
LEMMA KeptIsClaim ==
    ASSUME Inv, Inv', NEW t \in Tasks, NEW e \in Engines, pc[t] \in {"idle", "specific"},
           waiter[e].assigned, waiter' = [waiter EXCEPT ![e].assigned = FALSE],
           Begin(t, e), UNCHANGED <<free, ring, idx>>
    PROVE  Pool!Next
<1>1. /\ ~waiter'[e].assigned /\ waiter'[e].waiting = waiter[e].waiting
      /\ \A f \in Engines : f # e => waiter'[f] = waiter[f]
  BY DEF Inv, TypeOK
<1>2. Wanted' = Wanted /\ Kept' = Kept \ {e} /\ e \in Kept
  BY <1>1 DEF Wanted, Kept
<1>3. Pool!ClaimKept(t, e)
  BY <1>2, BeginHolds DEF Pool!ClaimKept
<1> QED BY <1>3 DEF Pool!Next

\* Waiting for an engine by number.
LEMMA WaitIsWant ==
    ASSUME Inv, NEW t \in Tasks, NEW e \in Engines, WaitSpecific(t, e)
    PROVE  Pool!Next
<1>1. /\ pc[t] = "idle" /\ pc' = [pc EXCEPT ![t] = "specific"] /\ eng' = [eng EXCEPT ![t] = e]
      /\ waiter' = [waiter EXCEPT ![e].waiting = TRUE]
      /\ ~waiter[e].assigned /\ e \notin free /\ ~waiter[e].waiting
      /\ UNCHANGED <<free, ring, idx>>
  BY DEF WaitSpecific
<1>2. pc'[t] = "specific" /\ \A u \in Tasks : u # t => pc'[u] = pc[u] /\ eng'[u] = eng[u]
  BY <1>1 DEF Inv, TypeOK
<1>3. InLine' = InLine /\ Ahead' = Ahead
  BY <1>1, <1>2, SameLine
<1>4. Held' = Held
  <2>1. ASSUME NEW u \in Tasks PROVE Holding(u)' = Holding(u)
    BY <1>1, <1>2 DEF Holding, ring
  <2> QED BY <2>1 DEF Held
<1>5. /\ waiter'[e].waiting /\ waiter'[e].assigned = waiter[e].assigned
      /\ \A f \in Engines : f # e => waiter'[f] = waiter[f]
  BY <1>1 DEF Inv, TypeOK
<1>6. Wanted' = Wanted \cup {e} /\ Kept' = Kept /\ e \notin Wanted /\ e \notin Kept
  BY <1>1, <1>5 DEF Wanted, Kept
<1>7. Pool!Want(t, e)
  BY <1>1, <1>3, <1>4, <1>6, Outsider DEF Pool!Want
<1> QED BY <1>7 DEF Pool!Next

\* Joining the ring is standing in line: every waiter's entry comes before the new
\* one, and the order of the others stays.
LEMMA JoinIsStand ==
    ASSUME Inv, NoIdle, NEW t \in Tasks, JoinQueue(t)
    PROVE  Pool!Next
<1> DEFINE q == tail % DEPTH
<1>1. Cursors /\ TypeOK /\ RingOK /\ ~QueueIsFull
  BY DEF Inv, TypeOK, Cursors, JoinQueue
<1>2. q \in Slots /\ queue[q].st = "free" /\ q = Index(Length)
  BY <1>1, TailIsFree
<1>3. /\ queue' = [queue EXCEPT ![q] = Pending] /\ head' = head /\ tail' = Advance(tail, 1)
      /\ idx' = [idx EXCEPT ![t] = q] /\ pc' = [pc EXCEPT ![t] = "queued"] /\ pc[t] = "idle"
      /\ UNCHANGED <<free, waiter, eng>>
  BY DEF JoinQueue
<1>4. Length' = Length + 1 /\ Length \in Nat /\ \A k \in Nat : Index(k)' = Index(k)
  BY <1>1, <1>3, RingAfterJoin, TailAfterHead, RingAssumption DEF TypeOK
<1> HIDE DEF q
<1>5. /\ queue'[q] = Pending /\ idx'[t] = q /\ pc'[t] = "queued"
      /\ \A p \in Slots : p # q => queue'[p] = queue[p]
      /\ \A u \in Tasks : u # t => pc'[u] = pc[u] /\ idx'[u] = idx[u]
  BY <1>1, <1>2, <1>3 DEF TypeOK
<1>6. ASSUME NEW u \in Tasks, pc[u] = "queued"
      PROVE  /\ u # t /\ idx[u] \in Slots /\ idx[u] # q /\ queue'[idx[u]] = queue[idx[u]]
             /\ \E k \in 0 .. Length - 1 : Index(k) = idx[u]
  <2>1. u # t /\ idx[u] \in Slots /\ queue[idx[u]].st # "free"
    BY <1>3, <1>6 DEF Inv, Owned
  <2>2. \E k \in 0 .. Length - 1 : Index(k) = idx[u]
    BY <1>1, <2>1 DEF RingOK
  <2> QED BY <1>2, <1>5, <2>1, <2>2
<1>7. t \notin InLine /\ InLine' = InLine \cup {t}
  <2>1. t \notin InLine
    BY <1>3 DEF InLine
  <2>2. ASSUME NEW u \in Tasks PROVE u \in InLine' <=> (u \in InLine \/ u = t)
    <3>1. CASE u = t
      BY <1>5, <3>1, EntryFacts DEF InLine
    <3>2. CASE u # t
      BY <1>5, <1>6, <3>2 DEF InLine
    <3> QED BY <3>1, <3>2
  <2>3. InLine \subseteq Tasks /\ InLine' \subseteq Tasks
    BY DEF InLine
  <2> QED BY <2>1, <2>2, <2>3
<1>8. Held' = Held
  <2>1. ASSUME NEW u \in Tasks PROVE Holding(u)' = Holding(u)
    <3>1. CASE u = t
      BY <1>3, <1>5, <3>1 DEF Holding, Pending
    <3>2. CASE u # t
      BY <1>3, <1>5, <1>6, <3>2 DEF Holding
    <3> QED BY <3>1, <3>2
  <2> QED BY <2>1 DEF Held
<1>9. \A u \in InLine : u \in Tasks /\ pc[u] = "queued"
  BY DEF InLine
<1>10. ASSUME NEW u \in InLine, NEW v \in InLine PROVE Before(u, v)' <=> Before(u, v)
  <2>1. idx'[u] = idx[u] /\ idx'[v] = idx[v] /\ idx[u] # q /\ idx[v] # q
    BY <1>5, <1>6, <1>9
  <2>2. ASSUME NEW j \in 0 .. Length' - 1, Index(j)' = idx[u] \/ Index(j)' = idx[v]
        PROVE  j \in 0 .. Length - 1 /\ Index(j)' = Index(j)
    <3>1. j \in Nat /\ Index(j)' = Index(j) /\ j # Length
      BY <1>2, <1>4, <2>1, <2>2
    <3> QED BY <1>4, <3>1
  <2>3. ASSUME Before(u, v)' PROVE Before(u, v)
    <3>1. PICK j \in 0 .. Length' - 1, k \in 0 .. Length' - 1 :
             j < k /\ Index(j)' = idx[u] /\ Index(k)' = idx[v]
      BY <2>1, <2>3 DEF Before
    <3> QED BY <2>2, <3>1 DEF Before
  <2>4. ASSUME Before(u, v) PROVE Before(u, v)'
    <3>1. PICK j \in 0 .. Length - 1, k \in 0 .. Length - 1 :
             j < k /\ Index(j) = idx[u] /\ Index(k) = idx[v]
      BY <2>4 DEF Before
    <3>2. j \in 0 .. Length' - 1 /\ k \in 0 .. Length' - 1
          /\ Index(j)' = Index(j) /\ Index(k)' = Index(k)
      BY <1>4
    <3> QED BY <2>1, <3>1, <3>2 DEF Before
  <2> QED BY <2>3, <2>4
<1>11. ASSUME NEW u \in InLine PROVE Before(u, t)' /\ ~Before(t, u)'
  <2>1. PICK i \in 0 .. Length - 1 : Index(i) = idx[u] /\ idx'[u] = idx[u] /\ idx[u] # q
    BY <1>5, <1>6, <1>9
  <2>2. PICK n \in 0 .. Length' - 1 : n = Length /\ Index(n)' = q
    BY <1>2, <1>4
  <2>3. i \in 0 .. Length' - 1 /\ Index(i)' = idx'[u] /\ i < n
    BY <1>4, <2>1, <2>2
  <2>4. Before(u, t)'
    BY <1>5, <2>2, <2>3 DEF Before
  <2>5. ASSUME NEW j \in 0 .. Length' - 1, NEW k \in 0 .. Length' - 1, j < k,
               Index(j)' = q, Index(k)' = idx[u]
        PROVE  FALSE
    <3>1. j \in Nat /\ j < Length /\ Index(j)' = Index(j) /\ Length < DEPTH /\ DEPTH \in Nat
      BY <1>1, <1>4, <2>5, RingAssumption DEF QueueIsFull
    <3>2. Index(j) # Index(Length)
      <4>1. Length - j < DEPTH
        BY <1>4, <3>1
      <4> QED BY <1>1, <1>4, <3>1, <4>1, IndexApart
    <3> QED BY <1>2, <2>5, <3>1, <3>2
  <2>6. ~Before(t, u)'
    BY <1>5, <2>1, <2>5 DEF Before
  <2> QED BY <2>4, <2>6
<1>12. ~Before(t, t)'
  <2>1. ASSUME NEW j \in 0 .. Length' - 1, NEW k \in 0 .. Length' - 1, j < k,
               Index(j)' = q, Index(k)' = q
        PROVE  FALSE
    <3>1. /\ j \in Nat /\ k \in Nat /\ k - j < DEPTH
          /\ Index(j)' = Index(j) /\ Index(k)' = Index(k)
      BY <1>1, <1>4, <2>1, RingAssumption DEF QueueIsFull
    <3> QED BY <1>1, <2>1, <3>1, IndexApart
  <2> QED BY <1>5, <2>1 DEF Before
<1>13. Ahead' = [Ahead EXCEPT ![t] = InLine]
  <2> DEFINE N == [Ahead EXCEPT ![t] = InLine]
  <2>1. ASSUME NEW v \in Tasks
        PROVE  {u \in InLine' : v \in InLine' /\ Before(u, v)'} = N[v]
    <3>1. CASE v = t
      BY <1>7, <1>11, <1>12, <3>1 DEF Ahead
    <3>2. CASE v # t
      <4>1. N[v] = {u \in InLine : v \in InLine /\ Before(u, v)}
        BY <3>2 DEF Ahead
      <4> QED BY <1>7, <1>10, <1>11, <3>2, <4>1
    <3> QED BY <3>1, <3>2
  <2>2. N = [v \in Tasks |-> N[v]]
    BY DEF Ahead
  <2>3. Ahead' = [v \in Tasks |-> {u \in InLine' : v \in InLine' /\ Before(u, v)'}]
    BY DEF Ahead
  <2> HIDE DEF N
  <2>4. Ahead' = N
    BY <2>1, <2>2, <2>3
  <2> QED BY <2>4 DEF N
<1>14. free = {} /\ Wanted' = Wanted /\ Kept' = Kept
  BY <1>1, <1>3, ScanFinds DEF JoinQueue, MustWait, NoIdle, Wanted, Kept
<1>15. Pool!StandInLine(t)
  BY <1>3, <1>7, <1>8, <1>13, <1>14, Outsider DEF Pool!StandInLine
<1> QED BY <1>15 DEF Pool!Next

\* What the callers see of the pool.
Seen == <<free, Wanted, Kept, Held, InLine, Ahead>>

\* Leaving the ring with the engine changes nothing for the callers: the task has
\* held the engine since it was assigned, and the head passes nobody who waits.
LEMMA TakeIsHidden ==
    ASSUME Inv, Inv', NEW t \in Tasks, TakeAssigned(t)
    PROVE  UNCHANGED Seen
<1>1. PICK q \in Slots : q = idx[t] /\ queue[q].st = "assigned" /\ pc[t] = "queued"
  BY DEF Inv, Owned, TakeAssigned
<1>2. PICK e \in Engines : queue[q].engine = e
  BY <1>1, EntryFacts DEF Inv, TypeOK
<1>3. Begin(t, e) /\ ClearQueueEntry(q) /\ idx' = [idx EXCEPT ![t] = NoSlot]
      /\ UNCHANGED <<free, waiter>>
  BY <1>1, <1>2 DEF TakeAssigned
<1>4. PICK c \in {"op", "wipe"} : pc' = [pc EXCEPT ![t] = c]
  BY <1>3, BeginFacts DEF Inv
<1>5. eng' = [eng EXCEPT ![t] = e]
  BY <1>3, BeginFacts DEF Inv
<1>6. /\ pc'[t] = c /\ eng'[t] = e
      /\ \A u \in Tasks : u # t => pc'[u] = pc[u] /\ eng'[u] = eng[u] /\ idx'[u] = idx[u]
  BY <1>3, <1>4, <1>5 DEF Inv, TypeOK
<1>7. \A p \in Slots : p # q => queue'[p] = queue[p]
  BY <1>3 DEF Inv, TypeOK, ClearQueueEntry
<1>8. ASSUME NEW u \in Tasks, u # t, pc[u] = "queued"
      PROVE  idx[u] \in Slots /\ idx[u] # q /\ queue'[idx[u]] = queue[idx[u]]
  BY <1>1, <1>7, <1>8 DEF Inv, Owned
<1>9. Held' = Held
  <2>1. ASSUME NEW u \in Tasks PROVE Holding(u)' = Holding(u)
    <3>1. CASE u = t
      BY <1>1, <1>2, <1>6, <3>1 DEF Holding
    <3>2. CASE u # t
      BY <1>6, <1>8, <3>2 DEF Holding
    <3> QED BY <3>1, <3>2
  <2> QED BY <2>1 DEF Held
<1>10. InLine' = InLine
  <2>1. ASSUME NEW u \in Tasks PROVE u \in InLine' <=> u \in InLine
    <3>1. CASE u = t
      BY <1>1, <1>6, <3>1 DEF InLine
    <3>2. CASE u # t
      BY <1>6, <1>8, <3>2 DEF InLine
    <3> QED BY <3>1, <3>2
  <2> QED BY <2>1 DEF InLine
<1>11. ASSUME NEW u \in InLine
       PROVE  /\ u \in Tasks /\ u # t /\ idx'[u] = idx[u]
              /\ \E k \in 0 .. Length' - 1 : Index(k)' = idx[u]
  <2>1. u \in Tasks /\ u # t /\ pc[u] = "queued" /\ queue[idx[u]].st = "pending"
    BY <1>1 DEF InLine
  <2>2. idx'[u] = idx[u] /\ idx[u] \in Slots /\ queue'[idx[u]].st # "free"
    BY <1>6, <1>8, <2>1
  <2> QED BY <2>1, <2>2 DEF Inv, RingOK
<1>12. PICK n \in 0 .. Length :
          /\ Length' = Length - n
          /\ \A k \in Nat : Index(k)' = Index(n + k)
  <2>1. Cursors /\ RingOK /\ queue \in [Slots -> Entries]
    BY DEF Inv, TypeOK, Cursors
  <2> QED BY <1>3, <2>1, RingAfterClear
<1>13. Length \in Nat
  <2>1. Cursors
    BY DEF Inv, TypeOK, Cursors
  <2> QED BY <2>1, TailAfterHead, RingAssumption
<1>14. ASSUME NEW k \in 0 .. Length' - 1
       PROVE  k \in Nat /\ n + k \in 0 .. Length - 1 /\ Index(k)' = Index(n + k)
  BY <1>12, <1>13
<1>15. ASSUME NEW u \in InLine, NEW v \in InLine PROVE Before(u, v)' <=> Before(u, v)
  <2>1. ASSUME Before(u, v)' PROVE Before(u, v)
    <3>1. PICK j \in 0 .. Length' - 1, k \in 0 .. Length' - 1 :
             j < k /\ Index(j)' = idx[u] /\ Index(k)' = idx[v]
      BY <1>11, <2>1 DEF Before
    <3>2. n + j < n + k
      BY <1>12, <1>13, <1>14, <3>1
    <3> QED BY <1>14, <3>1, <3>2 DEF Before
  <2>2. ASSUME Before(u, v) PROVE Before(u, v)'
    <3>1. PICK j \in 0 .. Length - 1, k \in 0 .. Length - 1 :
             j < k /\ Index(j) = idx[u] /\ Index(k) = idx[v]
      BY <2>2 DEF Before
    <3>2. PICK i \in 0 .. Length' - 1 : Index(i)' = idx[u]
      BY <1>11
    <3>3. PICK l \in 0 .. Length' - 1 : Index(l)' = idx[v]
      BY <1>11
    <3>4. n + i = j
      BY <1>14, <3>1, <3>2, OnePlace
    <3>5. n + l = k
      BY <1>14, <3>1, <3>3, OnePlace
    <3>6. i < l
      BY <1>12, <1>13, <1>14, <3>1, <3>4, <3>5
    <3> QED BY <1>11, <3>2, <3>3, <3>6 DEF Before
  <2> QED BY <2>1, <2>2
<1>16. Ahead' = Ahead
  BY <1>10, <1>15 DEF Ahead
<1> QED BY <1>3, <1>9, <1>10, <1>16 DEF Seen, Wanted, Kept

\* Commands, their completions and idle polls are hidden too.
LEMMA WorkIsHidden ==
    ASSUME UNCHANGED <<free, waiter, ring, idx, eng>>,
           \A t \in Tasks : pc'[t] = pc[t] \/ (Holds(t) /\ Holds(t)')
    PROVE  UNCHANGED Seen
<1>1. \A t \in Tasks : pc'[t] = "queued" <=> pc[t] = "queued"
  BY DEF Holds
<1>2. InLine' = InLine /\ Ahead' = Ahead
  BY <1>1, SameLine
<1>3. ASSUME NEW t \in Tasks PROVE Holding(t)' = Holding(t)
  BY DEF Holding, Holds, ring
<1>4. Held' = Held
  BY <1>3 DEF Held
<1> QED BY <1>2, <1>4 DEF Seen, Wanted, Kept

\* release_engine_and_dispatch: to the caller by number, to the free engines, or
\* to the task nobody in line is ahead of.
LEMMA DispatchIsRelease ==
    ASSUME Inv, NEW t \in Tasks, pc[t] = "wipe", ReleaseAndDispatch(t, eng[t]), Return(t),
           UNCHANGED idx
    PROVE  Pool!Next
<1>1. PICK e \in Engines : e = eng[t]
  BY DEF Inv, Exclusive, Holds
<1>2. Held[t] = e /\ t \notin InLine
  BY <1>1, HeldIs DEF Holds
<1>3. pc'[t] = "idle" /\ \A u \in Tasks : u # t => pc'[u] = pc[u] /\ eng'[u] = eng[u]
  BY ReturnFacts
<1>4. \A u \in Tasks : pc'[u] = "queued" <=> pc[u] = "queued"
  BY <1>3
<1>5. ASSUME UNCHANGED ring
      PROVE  InLine' = InLine /\ Ahead' = Ahead /\ Pool!Hold(t, NoEngine)
  <2>1. InLine' = InLine /\ Ahead' = Ahead
    BY <1>4, <1>5, SameLine
  <2>2. ASSUME NEW u \in Tasks, u # t PROVE Holding(u)' = Holding(u)
    BY <1>3, <1>5, <2>2 DEF Holding, ring
  <2>3. Holding(t)' = NoEngine
    BY <1>3 DEF Holding
  <2> QED BY <2>1, <2>2, <2>3 DEF Held, Pool!Hold
<1>6. CASE waiter[e].waiting
  <2>1. /\ waiter' = [waiter EXCEPT ![e] = [waiting |-> FALSE, assigned |-> TRUE]]
        /\ UNCHANGED <<free, ring>>
    BY <1>1, <1>6 DEF ReleaseAndDispatch
  <2>2. ~waiter'[e].waiting /\ waiter'[e].assigned /\ \A f \in Engines : f # e => waiter'[f] = waiter[f]
    BY <2>1 DEF Inv, TypeOK
  <2>3. Wanted' = Wanted \ {e} /\ Kept' = Kept \cup {e} /\ e \in Wanted
    BY <1>6, <2>2 DEF Wanted, Kept
  <2>4. Pool!Keep(t, e)
    BY <1>2, <1>5, <2>1, <2>3 DEF Pool!Keep
  <2> QED BY <2>4 DEF Pool!Next
<1>7. CASE ~waiter[e].waiting /\ ~HasAnyWaiters
  <2>1. free' = free \cup {e} /\ UNCHANGED <<waiter, ring>>
    BY <1>1, <1>7 DEF ReleaseAndDispatch
  <2>2. InLine = {}
    BY <1>7, ScanFinds DEF InLine, Inv, Owned
  <2>3. Wanted' = Wanted /\ Kept' = Kept /\ e \notin Wanted
    BY <1>7, <2>1 DEF Wanted, Kept
  <2>4. Pool!Free(t, e)
    BY <1>2, <1>5, <2>1, <2>2, <2>3 DEF Pool!Free
  <2> QED BY <2>4 DEF Pool!Next
<1>8. CASE ~waiter[e].waiting /\ HasAnyWaiters
  <2>1. PICK n \in 0 .. Length - 1, q \in Slots :
           /\ n = FirstPending /\ q = Index(n) /\ queue[q].st = "pending"
           /\ \A j \in PendingAt : n <= j
    BY <1>8, ScanFinds DEF Inv
  <2>2. queue' = [queue EXCEPT ![q] = Assigned(e)] /\ UNCHANGED <<free, waiter, head, tail>>
    BY <1>1, <1>8, <2>1 DEF ReleaseAndDispatch
  <2>3. queue'[q] = Assigned(e) /\ \A p \in Slots : p # q => queue'[p] = queue[p]
    BY <2>2 DEF Inv, TypeOK
  <2>4. PICK u \in Tasks : pc[u] = "queued" /\ idx[u] = q
    BY <2>1 DEF Inv, Owned
  <2>5. u # t /\ u \in InLine
    BY <2>1, <2>4 DEF InLine
  <2>6. ASSUME NEW v \in Tasks, v # u, pc[v] = "queued"
        PROVE  idx[v] \in Slots /\ idx[v] # q /\ queue'[idx[v]] = queue[idx[v]]
    BY <2>3, <2>4, <2>6 DEF Inv, Owned
  <2>7. ASSUME NEW v \in InLine PROVE ~Before(v, u)
    <3>1. SUFFICES ASSUME NEW j \in 0 .. Length - 1, NEW k \in 0 .. Length - 1, j < k,
                          Index(j) = idx[v], Index(k) = idx[u]
                   PROVE  FALSE
      BY DEF Before
    <3>2. k = n
      BY <2>1, <2>4, <3>1, OnePlace
    <3>3. j \in PendingAt
      BY <3>1 DEF PendingAt, InLine
    <3> QED BY <2>1, <3>1, <3>2, <3>3
  <2>8. Ahead[u] = {}
    BY <2>7 DEF Ahead
  <2>9. InLine' = InLine \ {u}
    <3>1. ASSUME NEW v \in Tasks PROVE v \in InLine' <=> v \in InLine /\ v # u
      <4>1. CASE v = u
        BY <1>4, <2>3, <2>4, <4>1, EntryFacts DEF InLine
      <4>2. CASE v # u
        BY <1>4, <2>6, <4>2 DEF InLine
      <4> QED BY <4>1, <4>2
    <3> QED BY <3>1 DEF InLine
  <2>10. \A v, w : Before(v, w)' <=> Before(v, w)
    BY <2>2 DEF Before, Length, Index, Advance
  <2>11. Ahead' = [v \in Tasks |-> Ahead[v] \ {u}]
    <3>1. Ahead' = [v \in Tasks |-> {w \in InLine' : v \in InLine' /\ Before(w, v)'}]
      BY DEF Ahead
    <3>2. ASSUME NEW v \in Tasks
          PROVE  {w \in InLine' : v \in InLine' /\ Before(w, v)'} = Ahead[v] \ {u}
      <4>1. CASE v = u
        BY <2>8, <2>9, <4>1
      <4>2. CASE v # u
        BY <2>9, <2>10, <4>2 DEF Ahead
      <4> QED BY <4>1, <4>2
    <3> QED BY <3>1, <3>2
  <2>12. Held' = [Held EXCEPT ![t] = NoEngine, ![u] = e]
    <3>1. ASSUME NEW v \in Tasks, v # t, v # u PROVE Holding(v)' = Holding(v)
      BY <1>3, <2>6, <3>1 DEF Holding
    <3>2. Holding(t)' = NoEngine
      BY <1>3 DEF Holding
    <3>3. Holding(u)' = e
      BY <1>3, <2>3, <2>4, <2>5, EntryFacts DEF Holding
    <3> QED BY <2>5, <3>1, <3>2, <3>3 DEF Held
  <2>13. Wanted' = Wanted /\ Kept' = Kept /\ e \notin Wanted
    BY <1>8, <2>2 DEF Wanted, Kept
  <2>14. Pool!HandOver(t, e, u)
    BY <1>2, <2>2, <2>5, <2>8, <2>9, <2>11, <2>12, <2>13 DEF Pool!HandOver
  <2> QED BY <2>5, <2>14 DEF Pool!Next
<1> QED BY <1>6, <1>7, <1>8

\* One poll, or one interrupt, is one step of the pool or none that a caller sees.
LEMMA PoolStep == Inv /\ Inv' /\ NoIdle /\ [Next]_vars => [Pool!Next]_Seen
<1> SUFFICES ASSUME Inv, Inv', NoIdle, [Next]_vars PROVE Pool!Next \/ UNCHANGED Seen
  OBVIOUS
<1>1. ASSUME NEW t \in Tasks, ClaimFreeEngine(t) PROVE Pool!Next
  <2>1. \E e \in free : \A f \in free : e <= f
    <3>1. free \subseteq Nat
      BY RingAssumption DEF Inv, TypeOK, Engines
    <3> QED BY <1>1, <3>1, SmallestExists DEF ClaimFreeEngine
  <2>2. PICK e \in free : free' = free \ {e} /\ Begin(t, e)
    BY <1>1, <2>1 DEF ClaimFreeEngine
  <2> QED BY <1>1, <2>2, FreeIsClaim DEF ClaimFreeEngine
<1>2. ASSUME NEW t \in Tasks, NEW e \in Engines,
             StartSpecific(t, e) \/ (ResumeSpecific(t) /\ e = eng[t])
      PROVE  Pool!Next
  <2>1. /\ pc[t] \in {"idle", "specific"} /\ UNCHANGED <<ring, idx>>
        /\ TakeSpecific(t, e) \/ TakeFreeSpecific(t, e)
    BY <1>2 DEF StartSpecific, ResumeSpecific
  <2>2. CASE TakeSpecific(t, e)
    BY <2>1, <2>2, KeptIsClaim DEF TakeSpecific
  <2>3. CASE TakeFreeSpecific(t, e)
    BY <2>1, <2>3, FreeIsClaim DEF TakeFreeSpecific
  <2> QED BY <2>1, <2>2, <2>3
<1>3. ASSUME NEW t \in Tasks, ResumeSpecific(t) PROVE Pool!Next
  <2>1. eng[t] \in Engines
    BY <1>3 DEF Inv, Numbered, ResumeSpecific
  <2> QED BY <1>2, <1>3, <2>1
<1>4. ASSUME NEW t \in Tasks, NEW e \in Engines, WaitSpecific(t, e) PROVE Pool!Next
  BY <1>4, WaitIsWant
<1>5. ASSUME NEW t \in Tasks, JoinQueue(t) PROVE Pool!Next
  BY <1>5, JoinIsStand
<1>6. ASSUME NEW t \in Tasks, TakeAssigned(t) PROVE UNCHANGED Seen
  BY <1>6, TakeIsHidden
<1>7. ASSUME NEW t \in Tasks, RepollSpecific(t) PROVE UNCHANGED Seen
  BY <1>7, WorkIsHidden DEF RepollSpecific
<1>8. ASSUME NEW t \in Tasks, CommandDone(t) PROVE UNCHANGED Seen
  <2>1. PICK k \in {"op", "wipe"} : pc' = [pc EXCEPT ![t] = k] /\ eng' = [eng EXCEPT ![t] = eng[t]]
    BY <1>8 DEF CommandDone, Issue
  <2>2. eng' = eng /\ \A u \in Tasks : pc'[u] = pc[u] \/ (Holds(u) /\ Holds(u)')
    BY <1>8, <2>1 DEF Inv, TypeOK, CommandDone, Holds
  <2> QED BY <1>8, <2>2, WorkIsHidden DEF CommandDone
<1>9. ASSUME NEW t \in Tasks, Release(t) \/ DropUnreleased(t) PROVE Pool!Next
  BY <1>9, DispatchIsRelease DEF Release, DropUnreleased
<1>10. ASSUME NEW e \in Engines, WakeEngine(e) PROVE UNCHANGED Seen
  BY <1>10, WorkIsHidden DEF WakeEngine
<1>11. CASE UNCHANGED vars
  BY <1>11, WorkIsHidden DEF vars
<1> QED BY <1>1, <1>2, <1>3, <1>4, <1>5, <1>6, <1>7, <1>8, <1>9, <1>10, <1>11 DEF Next

\* The empty pool.
LEMMA PoolStart == Init => Pool!Init
<1> SUFFICES ASSUME Init PROVE Pool!Init
  OBVIOUS
<1>1. InLine = {}
  BY DEF Init, InLine
<1>2. Held = [t \in Tasks |-> NoEngine]
  BY DEF Init, Held, Holding
<1>3. Ahead = [t \in Tasks |-> {}]
  BY <1>1 DEF Ahead
<1>4. Wanted = {} /\ Kept = {}
  BY DEF Init, Wanted, Kept
<1> QED BY <1>1, <1>2, <1>3, <1>4 DEF Init, Pool!Init

\* The driver of pool.rs and scheduler.rs implements EnginePool: with any number
\* of tasks and engines, any capacity of the ring and any width of its cursors,
\* acquire_any, acquire_engine and release pass the engines on as a pool with one
\* line does, first come first served.
THEOREM DriverImplementsPool == Spec => ImplementsPool
<1>1. Init => NoIdle
  BY EntryFacts DEF Init, NoIdle
<1>2. Spec => []NoIdle
  BY <1>1, NoIdleStep, SpecInv, PTL DEF Spec
<1>3. Inv /\ Inv' /\ NoIdle /\ [Next]_vars
        => [Pool!Next]_<<free, Wanted, Kept, Held, InLine, Ahead>>
  BY PoolStep DEF Seen
<1> QED BY <1>2, <1>3, SpecInv, PoolStart, PTL DEF Spec, ImplementsPool, Pool!Spec, Pool!pool
=============================================================================
