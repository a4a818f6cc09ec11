------------------------ MODULE CircularBufferProofs ------------------------
(***************************************************************************)
(* For every number of threads, every length and all functions mapped, the *)
(* buffer is a bounded first-in first-out queue used one operation at a    *)
(* time.  The arithmetic of the indices is done once, in the lemmas about  *)
(* PushTo and PopFrom; the rest speaks of Contents only.                   *)
(***************************************************************************)
EXTENDS CircularBuffer, Iteration, SequenceTheorems, TLAPS

LEMMA LengthIs == Length \in Nat /\ Length >= 1
BY LengthAssumption

USE LengthIs DEF Slot

(* A well-formed buffer. *)
Ring(b) ==
  /\ b \in Buffer
  /\ b.full => b.read = b.write
  /\ \A k \in 1..SizeOf(b) : Contents(b)[k] \in Value

-----------------------------------------------------------------------------
(* Indices. *)

LEMMA Below ==
  ASSUME NEW n \in Nat, n >= 1, NEW a \in 0..n - 1 PROVE a % n = a
OBVIOUS

LEMMA Above ==
  ASSUME NEW n \in Nat, n >= 1, NEW a \in n..n + n - 1 PROVE a % n = a - n
OBVIOUS

LEMMA WrapIs ==
  ASSUME NEW k \in 0..Length + Length - 1
  PROVE  /\ Wrap(k) \in Slot
         /\ k < Length => Wrap(k) = k
         /\ k >= Length => Wrap(k) = k - Length
<1>1. CASE k < Length
  <2>1. k % Length = k
    BY <1>1, Below
  <2>. QED
    BY <1>1, <2>1 DEF Wrap
<1>2. CASE k >= Length
  <2>1. k % Length = k - Length
    BY <1>2, Above
  <2>. QED
    BY <1>2, <2>1 DEF Wrap
<1>. QED
  BY <1>1, <1>2

LEMMA AfterIs ==
  ASSUME NEW s \in Slot
  PROVE  /\ After(s) \in Slot
         /\ s + 1 < Length => After(s) = s + 1
         /\ s + 1 = Length => After(s) = 0
<1>1. s + 1 \in 0..Length + Length - 1
  OBVIOUS
<1>. QED
  BY <1>1, WrapIs DEF After

LEMMA SizeIs ==
  ASSUME NEW b \in Buffer
  PROVE  /\ SizeOf(b) \in 0..Length
         /\ b.full => SizeOf(b) = Length
         /\ ~b.full /\ b.write >= b.read => SizeOf(b) = b.write - b.read
         /\ ~b.full /\ b.write < b.read => SizeOf(b) = b.write + Length - b.read
<1>1. b.write \in Slot /\ b.read \in Slot
  BY DEF Buffer
<1>2. b.write + Length - b.read \in 0..Length + Length - 1
  BY <1>1
<1>. QED
  BY <1>1, <1>2, WrapIs DEF SizeOf

(* The slot of the element at place k. *)
LEMMA PlaceIs ==
  ASSUME NEW s \in Slot, NEW k \in 1..Length
  PROVE  /\ Wrap(s + k - 1) \in Slot
         /\ s + k - 1 < Length => Wrap(s + k - 1) = s + k - 1
         /\ s + k - 1 >= Length => Wrap(s + k - 1) = s + k - 1 - Length
<1>1. s + k - 1 \in 0..Length + Length - 1
  OBVIOUS
<1>. QED
  BY <1>1, WrapIs

(* The slot after it. *)
LEMMA NextIs ==
  ASSUME NEW s \in Slot, NEW k \in 0..Length
  PROVE  /\ Wrap(s + k) \in Slot
         /\ s + k < Length => Wrap(s + k) = s + k
         /\ s + k >= Length => Wrap(s + k) = s + k - Length
<1>1. s + k \in 0..Length + Length - 1
  OBVIOUS
<1>. QED
  BY <1>1, WrapIs

(* Different places are different slots; the places after a step of the    *)
(* read index are one off.                                                 *)
LEMMA SamePlace ==
  ASSUME NEW s \in Slot, NEW k \in 1..Length, NEW n \in 1..Length
  PROVE  Wrap(s + k - 1) = Wrap(s + n - 1) <=> k = n
<1>1. /\ s + k - 1 < Length => Wrap(s + k - 1) = s + k - 1
      /\ s + k - 1 >= Length => Wrap(s + k - 1) = s + k - 1 - Length
  BY PlaceIs
<1>2. /\ s + n - 1 < Length => Wrap(s + n - 1) = s + n - 1
      /\ s + n - 1 >= Length => Wrap(s + n - 1) = s + n - 1 - Length
  BY PlaceIs
<1>. QED
  BY <1>1, <1>2

LEMMA ShiftPlace ==
  ASSUME NEW s \in Slot, NEW k \in 1..Length
  PROVE  /\ k < Length => Wrap(After(s) + k - 1) = Wrap(s + (k + 1) - 1)
         /\ Wrap(After(s) + k - 1) \in Slot
         /\ Wrap(After(s) + k - 1) = s <=> k = Length
<1>1. PICK a \in Slot : /\ a = After(s)
                        /\ s + 1 < Length => a = s + 1
                        /\ s + 1 = Length => a = 0
  BY AfterIs
<1>2. /\ Wrap(a + k - 1) \in Slot
      /\ a + k - 1 < Length => Wrap(a + k - 1) = a + k - 1
      /\ a + k - 1 >= Length => Wrap(a + k - 1) = a + k - 1 - Length
  BY PlaceIs
<1>3. CASE k < Length
  <2>1. k + 1 \in 1..Length
    BY <1>3
  <2>2. /\ s + (k + 1) - 1 < Length => Wrap(s + (k + 1) - 1) = s + (k + 1) - 1
        /\ s + (k + 1) - 1 >= Length
             => Wrap(s + (k + 1) - 1) = s + (k + 1) - 1 - Length
    BY <2>1, PlaceIs
  <2>. QED
    BY <1>1, <1>2, <1>3, <2>2
<1>4. CASE k = Length
  BY <1>1, <1>2, <1>4
<1>. QED
  BY <1>3, <1>4

LEMMA TurnPlace ==
  ASSUME NEW s \in Slot, NEW n \in 0..Length - 1
  PROVE  After(Wrap(s + n)) = Wrap(s + (n + 1))
<1>1. /\ Wrap(s + n) \in Slot
      /\ s + n < Length => Wrap(s + n) = s + n
      /\ s + n >= Length => Wrap(s + n) = s + n - Length
  BY NextIs
<1>5. n + 1 \in 0..Length
  OBVIOUS
<1>2. /\ s + (n + 1) < Length => Wrap(s + (n + 1)) = s + (n + 1)
      /\ s + (n + 1) >= Length => Wrap(s + (n + 1)) = s + (n + 1) - Length
  BY <1>5, NextIs
<1>3. PICK a \in Slot : a = Wrap(s + n)
  BY <1>1
<1>4. /\ a + 1 < Length => After(a) = a + 1
      /\ a + 1 = Length => After(a) = 0
  BY AfterIs
<1>. QED
  BY <1>1, <1>2, <1>3, <1>4

(* The write index is size places after the read index, and no fewer.      *)
LEMMA WritePlace ==
  ASSUME NEW b \in Buffer, b.full => b.read = b.write, NEW n \in 0..SizeOf(b)
  PROVE  Wrap(b.read + n) = b.write <=> n = SizeOf(b) \/ (b.full /\ n = 0)
<1>1. PICK r \in Slot, w \in Slot, m \in 0..Length :
        r = b.read /\ w = b.write /\ m = SizeOf(b)
  BY SizeIs DEF Buffer
<1>2. /\ b.full => m = Length /\ r = w
      /\ ~b.full /\ w >= r => m = w - r
      /\ ~b.full /\ w < r => m = w + Length - r
  BY <1>1, SizeIs
<1>3. n \in 0..m /\ n \in 0..Length
  BY <1>1
<1>4. /\ r + n < Length => Wrap(r + n) = r + n
      /\ r + n >= Length => Wrap(r + n) = r + n - Length
  BY <1>3, NextIs
<1>. QED
  BY <1>1, <1>2, <1>3, <1>4

LEMMA ContentsIs ==
  ASSUME NEW b \in Buffer
  PROVE  /\ Contents(b) = [k \in 1..SizeOf(b) |-> Contents(b)[k]]
         /\ \A k \in 1..SizeOf(b) :
              Contents(b)[k] = b.data[Wrap(b.read + k - 1)]
BY SizeIs DEF Contents

-----------------------------------------------------------------------------
(* Push and pop. *)

LEMMA PushShape ==
  ASSUME NEW b \in Buffer, NEW v \in Value, b.full => b.read = b.write
  PROVE  /\ PushTo(b, v) \in Buffer
         /\ PushTo(b, v).full => PushTo(b, v).read = PushTo(b, v).write
         /\ ~b.full => SizeOf(b) < Length /\ SizeOf(PushTo(b, v)) = SizeOf(b) + 1
         /\ b.full => SizeOf(PushTo(b, v)) = Length
<1> DEFINE c == PushTo(b, v)
<1>1. b.write \in Slot /\ b.read \in Slot /\ b.full \in BOOLEAN
  BY DEF Buffer
<1>2. /\ c.full = (b.full \/ b.read = After(b.write))
      /\ c.write = After(b.write)
      /\ c.read = IF b.full THEN After(b.read) ELSE b.read
  BY DEF PushTo
<1>3. c \in Buffer
  BY <1>1, AfterIs DEF PushTo, Buffer
<1>4. c.full => c.read = c.write
  BY <1>1, <1>2, AfterIs
<1>5. ~b.full => SizeOf(b) < Length /\ SizeOf(c) = SizeOf(b) + 1
  <2> HAVE ~b.full
  <2> HIDE DEF c
  <2>1. SizeOf(b) < Length
    BY <1>1, SizeIs
  <2>2. CASE b.read = After(b.write)
    <3>1. SizeOf(c) = Length
      BY <2>2, <1>2, <1>3, SizeIs
    <3>. QED
      BY <2>1, <2>2, <3>1, <1>1, SizeIs, AfterIs
  <2>3. CASE b.read # After(b.write)
    <3>1. ~c.full /\ c.read = b.read
      BY <2>3, <1>2
    <3>. QED
      BY <2>1, <2>3, <3>1, <1>1, <1>2, <1>3, SizeIs, AfterIs
  <2>. QED
    BY <2>2, <2>3
<1>6. b.full => SizeOf(c) = Length
  <2> HIDE DEF c
  <2>. QED
    BY <1>2, <1>3, SizeIs
<1>. QED
  BY <1>3, <1>4, <1>5, <1>6

(* A push appends its element, and drops the oldest if the buffer is full. *)
LEMMA PushItems ==
  ASSUME NEW b \in Buffer, NEW v \in Value, b.full => b.read = b.write
  PROVE  /\ ~b.full => \A k \in 1..SizeOf(b) + 1 :
              Contents(PushTo(b, v))[k] =
                IF k <= SizeOf(b) THEN Contents(b)[k] ELSE v
         /\ b.full => \A k \in 1..Length :
              Contents(PushTo(b, v))[k] =
                IF k < Length THEN Contents(b)[k + 1] ELSE v
<1> DEFINE c == PushTo(b, v)
<1>1. /\ b.write \in Slot /\ b.read \in Slot /\ b.full \in BOOLEAN
      /\ b.data \in [Slot -> Value \cup {Null}]
  BY DEF Buffer
<1>2. /\ c.read = IF b.full THEN After(b.read) ELSE b.read
      /\ c.data = [b.data EXCEPT ![b.write] = v]
  BY DEF PushTo
<1>3. /\ c \in Buffer
      /\ ~b.full => SizeOf(b) < Length /\ SizeOf(c) = SizeOf(b) + 1
      /\ b.full => SizeOf(c) = Length
  BY PushShape
<1> HIDE DEF c
<1>4. ASSUME ~b.full, NEW k \in 1..SizeOf(b) + 1
      PROVE  Contents(c)[k] = IF k <= SizeOf(b) THEN Contents(b)[k] ELSE v
  <2> DEFINE p == Wrap(b.read + k - 1)
  <2>1. SizeOf(b) \in 0..Length /\ k \in 1..Length
    BY <1>3, <1>4, SizeIs
  <2>2. p \in Slot /\ (p = b.write <=> k = SizeOf(b) + 1)
    <3>1. k - 1 \in 0..SizeOf(b) /\ b.read + (k - 1) = b.read + k - 1
      BY <1>1, <1>4, <2>1
    <3>. QED
      BY <3>1, <2>1, <1>1, <1>4, PlaceIs, WritePlace
  <2>3. Contents(c)[k] = c.data[p]
    <3>1. c.read = b.read /\ k \in 1..SizeOf(c)
      BY <1>2, <1>3, <1>4
    <3>. QED
      BY <3>1, <1>3, ContentsIs
  <2>4. k <= SizeOf(b) => Contents(b)[k] = b.data[p]
    BY <2>1, ContentsIs
  <2> HIDE DEF p
  <2>. QED
    BY <2>1, <2>2, <2>3, <2>4, <1>1, <1>2
<1>5. ASSUME b.full, NEW k \in 1..Length
      PROVE  Contents(c)[k] = IF k < Length THEN Contents(b)[k + 1] ELSE v
  <2> DEFINE p == Wrap(After(b.read) + k - 1)
  <2>1. After(b.read) \in Slot /\ SizeOf(b) = Length
    BY <1>1, <1>5, AfterIs, SizeIs
  <2>2. p \in Slot /\ (p = b.write <=> k = Length)
    BY <1>1, <1>5, ShiftPlace
  <2>3. Contents(c)[k] = c.data[p]
    <3>1. c.read = After(b.read) /\ k \in 1..SizeOf(c)
      BY <1>2, <1>3, <1>5
    <3>. QED
      BY <3>1, <1>3, ContentsIs
  <2>4. k < Length => Wrap(b.read + (k + 1) - 1) = p
    BY <1>1, <1>5, ShiftPlace
  <2>5. k < Length => Contents(b)[k + 1] = b.data[p]
    BY <2>1, <2>4, ContentsIs
  <2> HIDE DEF p
  <2>. QED
    BY <2>2, <2>3, <2>5, <1>1, <1>2
<1>. QED
  BY <1>4, <1>5 DEF c

(* A pop removes the oldest element, which is at the read index. *)
LEMMA PopItems ==
  ASSUME NEW b \in Buffer, b.full => b.read = b.write, ~IsEmpty(b)
  PROVE  /\ PopFrom(b) \in Buffer
         /\ ~PopFrom(b).full
         /\ SizeOf(b) >= 1
         /\ Contents(b)[1] = b.data[b.read]
         /\ SizeOf(PopFrom(b)) = SizeOf(b) - 1
         /\ \A k \in 1..SizeOf(b) - 1 :
              Contents(PopFrom(b))[k] = Contents(b)[k + 1]
<1> DEFINE c == PopFrom(b)
<1>1. b.write \in Slot /\ b.read \in Slot /\ b.full \in BOOLEAN
  BY DEF Buffer
<1>2. /\ c.full = FALSE
      /\ c.write = b.write
      /\ c.read = After(b.read)
      /\ c.data = b.data
  BY DEF PopFrom, Buffer
<1>3. c \in Buffer
  BY <1>1, AfterIs DEF PopFrom, Buffer
<1> HIDE DEF c
<1>4. SizeOf(b) \in 1..Length
  BY <1>1, SizeIs DEF IsEmpty
<1>5. SizeOf(c) = SizeOf(b) - 1
  BY <1>1, <1>2, <1>3, <1>4, SizeIs, AfterIs DEF IsEmpty
<1>6. Contents(b)[1] = b.data[b.read]
  <2>1. Wrap(b.read + 1 - 1) = b.read
    BY <1>1, PlaceIs
  <2>. QED
    BY <2>1, <1>4, ContentsIs
<1>7. ASSUME NEW k \in 1..SizeOf(b) - 1
      PROVE  Contents(c)[k] = Contents(b)[k + 1]
  <2>1. Wrap(After(b.read) + k - 1) = Wrap(b.read + (k + 1) - 1)
    <3>1. k \in 1..Length /\ k < Length
      BY <1>4, <1>7
    <3>. QED
      BY <3>1, <1>1, ShiftPlace
  <2>2. Contents(c)[k] = b.data[Wrap(After(b.read) + k - 1)]
    BY <1>2, <1>3, <1>5, <1>7, ContentsIs
  <2>3. Contents(b)[k + 1] = b.data[Wrap(b.read + (k + 1) - 1)]
    BY <1>4, <1>7, ContentsIs
  <2>. QED
    BY <2>1, <2>2, <2>3
<1>. QED
  BY <1>2, <1>3, <1>4, <1>5, <1>6, <1>7 DEF c

LEMMA PushRing ==
  ASSUME NEW b, Ring(b), NEW v \in Value PROVE Ring(PushTo(b, v))
<1>1. CASE b.full
  BY <1>1, PushShape, PushItems, SizeIs DEF Ring
<1>2. CASE ~b.full
  BY <1>2, PushShape, PushItems, SizeIs DEF Ring
<1>. QED
  BY <1>1, <1>2

LEMMA PopRing ==
  ASSUME NEW b, Ring(b), ~IsEmpty(b) PROVE Ring(PopFrom(b))
BY PopItems, SizeIs DEF Ring

-----------------------------------------------------------------------------
(* The inductive invariant.  LoopInv is used of the one thread that is in  *)
(* a loop, the owner of the lock.                                          *)

LEMMA ConstructIs == Ring(Construct) /\ SizeOf(Construct) = 0
<1> DEFINE b == Construct
<1>1. b \in Buffer /\ ~b.full /\ b.read = 0 /\ b.write = 0
  BY DEF Construct, Buffer
<1> HIDE DEF b
<1>2. SizeOf(b) = 0
  BY <1>1, SizeIs
<1>3. Ring(b)
  BY <1>1, <1>2 DEF Ring
<1>. QED
  BY <1>2, <1>3 DEF b

LEMMA InitInv == Init => IInv
<1> SUFFICES ASSUME Init PROVE IInv
  OBVIOUS
<1>1. Ring(buf)
  BY ConstructIs DEF Init
<1>. QED
  BY <1>1, ValueAssumption DEF Init, IInv, TypeOK, RingInv, OwnerInv, LoopInv, Ring, Same

(* The operations of one step need the lock free, so no thread loops. *)
LEMMA NobodyLoops ==
  ASSUME IInv, owner = Nobody PROVE \A t \in Thread : pc[t] = "idle"
BY ValueAssumption DEF IInv, OwnerInv

LEMMA RingNow == IInv => Ring(buf)
BY DEF IInv, TypeOK, RingInv, Ring

(* What LoopInv says of a thread t in a loop. *)
At(t) ==
  /\ Len(seen[t]) <= SizeOf(buf)
  /\ i[t] = Wrap(buf.read + Len(seen[t]))
  /\ f[t] <=> buf.full /\ seen[t] = <<>>
  /\ \A k \in 1..Len(seen[t]) :
       Contents(buf)[k] = IF pc[t] = "map" THEN fn[t][seen[t][k]] ELSE seen[t][k]

LEMMA AtLoop == ASSUME IInv, NEW t \in Thread, pc[t] # "idle" PROVE At(t)
BY DEF IInv, LoopInv, At

(* The loop's test is right: more elements are left when it says so. *)
LEMMA MoreIs ==
  ASSUME IInv, NEW t \in Thread, pc[t] # "idle"
  PROVE  /\ Len(seen[t]) \in 0..SizeOf(buf)
         /\ More(t) <=> Len(seen[t]) < SizeOf(buf)
<1>1. /\ buf \in Buffer /\ seen[t] \in Seq(Value) /\ f[t] \in BOOLEAN
      /\ buf.full => buf.read = buf.write
      /\ buf.full \in BOOLEAN /\ buf.read \in Slot /\ buf.write \in Slot
  BY DEF IInv, TypeOK, RingInv, Buffer
<1>2. /\ Len(seen[t]) \in 0..SizeOf(buf)
      /\ i[t] = Wrap(buf.read + Len(seen[t]))
      /\ f[t] <=> buf.full /\ seen[t] = <<>>
  BY <1>1, AtLoop, SizeIs DEF At
<1>3. seen[t] = <<>> <=> Len(seen[t]) = 0
  BY <1>1
<1>4. Wrap(buf.read + Len(seen[t])) = buf.write
        <=> Len(seen[t]) = SizeOf(buf) \/ (buf.full /\ Len(seen[t]) = 0)
  BY <1>1, <1>2, WritePlace
<1>5. SizeOf(buf) \in 0..Length /\ (buf.full => SizeOf(buf) = Length)
  BY <1>1, SizeIs
<1>6. PICK n \in 0..Length, m \in 0..Length :
        n = Len(seen[t]) /\ m = SizeOf(buf) /\ n <= m
  BY <1>2, <1>5
<1>. QED
  BY <1>1, <1>2, <1>3, <1>4, <1>5, <1>6 DEF More

(* A loop's turn: what Advance does to the thread's locals. *)
LEMMA AdvanceIs ==
  ASSUME IInv, NEW t \in Thread, pc[t] # "idle", More(t), Advance(t)
  PROVE  /\ i[t] = Wrap(buf.read + (Len(seen[t]) + 1) - 1)
         /\ i[t] \in Slot
         /\ Contents(buf)[Len(seen[t]) + 1] = buf.data[i[t]]
         /\ buf.data[i[t]] \in Value
         /\ seen'[t] = Append(seen[t], buf.data[i[t]])
         /\ seen' \in [Thread -> Seq(Value)]
         /\ i' \in [Thread -> Slot]
         /\ f' \in [Thread -> BOOLEAN]
         /\ i'[t] = Wrap(buf.read + (Len(seen[t]) + 1))
         /\ ~f'[t]
<1>1. /\ buf \in Buffer /\ seen \in [Thread -> Seq(Value)]
      /\ f \in [Thread -> BOOLEAN] /\ i \in [Thread -> Slot]
      /\ buf.read \in Slot
  BY DEF IInv, TypeOK, Buffer
<1>2. Len(seen[t]) \in 0..SizeOf(buf) - 1 /\ SizeOf(buf) \in 0..Length
  BY <1>1, MoreIs, SizeIs
<1>3. i[t] = Wrap(buf.read + Len(seen[t]))
  BY AtLoop DEF At
<1>4. buf.read + (Len(seen[t]) + 1) - 1 = buf.read + Len(seen[t])
  BY <1>1, <1>2
<1>5. Contents(buf)[Len(seen[t]) + 1] = buf.data[i[t]]
  <2>1. Len(seen[t]) + 1 \in 1..SizeOf(buf)
    BY <1>2
  <2>. QED
    BY <1>1, <1>3, <1>4, <2>1, ContentsIs
<1>6. buf.data[i[t]] \in Value
  BY <1>2, <1>5, RingNow DEF Ring
<1>7. After(i[t]) = Wrap(buf.read + (Len(seen[t]) + 1))
  <2>1. Len(seen[t]) \in 0..Length - 1
    BY <1>2
  <2>. QED
    BY <1>1, <1>3, <2>1, TurnPlace
<1>8. After(i[t]) \in Slot
  BY <1>1, AfterIs
<1>. QED
  BY <1>1, <1>3, <1>4, <1>5, <1>6, <1>7, <1>8 DEF Advance

LEMMA PutType ==
  ASSUME NEW b \in Buffer, NEW p \in Slot, NEW v \in Value
  PROVE  Put(b, p, v) \in Buffer
BY DEF Put, Buffer

(* Replacing the element at a place replaces it in the contents alone. *)
LEMMA Replace ==
  ASSUME NEW b, Ring(b), NEW n \in 1..SizeOf(b), NEW v \in Value,
         NEW c, c = Put(b, Wrap(b.read + n - 1), v)
  PROVE  /\ Ring(c)
         /\ c.read = b.read /\ c.full = b.full /\ SizeOf(c) = SizeOf(b)
         /\ \A k \in 1..SizeOf(b) :
              Contents(c)[k] = IF k = n THEN v ELSE Contents(b)[k]
<1> DEFINE p == Wrap(b.read + n - 1)
<1>1. b \in Buffer /\ b.read \in Slot /\ b.data \in [Slot -> Value \cup {Null}]
      /\ SizeOf(b) \in 0..Length
  BY SizeIs DEF Ring, Buffer
<1>2. p \in Slot
  <2>1. n \in 1..Length
    BY <1>1
  <2>. QED
    BY <1>1, <2>1, PlaceIs
<1>3. /\ c.read = b.read /\ c.full = b.full /\ c.write = b.write
      /\ c.data = [b.data EXCEPT ![p] = v]
  BY DEF Put
<1>4. c \in Buffer
  <2> HIDE DEF p
  <2>1. c = Put(b, p, v)
    BY DEF p
  <2>2. b \in Buffer
    BY <1>1
  <2>3. Put(b, p, v) \in Buffer
    BY <1>2, <2>2, PutType
  <2>. QED
    BY <2>1, <2>3
<1>5. SizeOf(c) = SizeOf(b)
  BY <1>3 DEF SizeOf
<1>6. ASSUME NEW k \in 1..SizeOf(b)
      PROVE  Contents(c)[k] = IF k = n THEN v ELSE Contents(b)[k]
  <2> DEFINE q == Wrap(b.read + k - 1)
  <2>1. k \in 1..Length /\ n \in 1..Length
    BY <1>1
  <2>2. q \in Slot
    BY <1>1, <2>1, PlaceIs
  <2>3. q = p <=> k = n
    BY <1>1, <2>1, SamePlace
  <2>4. Contents(c)[k] = c.data[q] /\ Contents(b)[k] = b.data[q]
    BY <1>1, <1>3, <1>4, <1>5, <1>6, ContentsIs
  <2> HIDE DEF p, q
  <2>. QED
    BY <1>1, <1>2, <1>3, <2>2, <2>3, <2>4
<1>7. Ring(c)
  BY <1>3, <1>4, <1>5, <1>6 DEF Ring
<1>. QED
  BY <1>3, <1>5, <1>6, <1>7

-----------------------------------------------------------------------------
(* Each operation keeps the invariant. *)

(* The oldest element of a buffer that is not empty. *)
LEMMA OldestIs ==
  ASSUME IInv, ~IsEmpty(buf)
  PROVE  buf.data[buf.read] \in Value
<1>1. Ring(buf)
  BY RingNow
<1>2. SizeOf(buf) >= 1 /\ SizeOf(buf) \in 0..Length
      /\ Contents(buf)[1] = buf.data[buf.read]
  BY <1>1, PopItems, SizeIs DEF Ring
<1>. QED
  BY <1>1, <1>2 DEF Ring

LEMMA Single ==
  ASSUME NEW S, NEW x \in S PROVE <<x>> \in Seq(S)
OBVIOUS

LEMMA AnswerType ==
  ASSUME IInv, NEW t \in Thread, NEW x, Return(t, x),
         x \in Seq(Reply)
  PROVE  answer' \in [Thread -> Seq(Reply)]
BY DEF Return, IInv, TypeOK

(* A well-formed buffer is all the invariant asks of a free one. *)
LEMMA FreeStep ==
  ASSUME IInv, owner = Nobody, UNCHANGED <<owner, pc, loopVars>>, Ring(buf'),
         answer' \in [Thread -> Seq(Reply)]
  PROVE  IInv'
<1>1. TypeOK' /\ RingInv' /\ OwnerInv'
  BY DEF IInv, TypeOK, Ring, RingInv, OwnerInv, loopVars
<1>2. LoopInv'
  BY NobodyLoops DEF LoopInv, loopVars
<1>. QED
  BY <1>1, <1>2 DEF IInv

LEMMA PushInv ==
  ASSUME IInv, NEW t \in Thread, NEW v \in Value, Push(t, v) PROVE IInv'
<1>1. owner = Nobody /\ UNCHANGED <<owner, pc, loopVars>> /\ buf' = PushTo(buf, v)
  BY DEF Push, Alone
<1>2. Ring(buf')
  BY <1>1, RingNow, PushRing
<1>3. Return(t, <<>>)
  BY DEF Push
<1>5. <<>> \in Seq(Reply)
  OBVIOUS
<1>4. answer' \in [Thread -> Seq(Reply)]
  BY <1>3, <1>5, AnswerType
<1>. QED
  BY <1>1, <1>2, <1>4, FreeStep

LEMMA PopInv ==
  ASSUME IInv, NEW t \in Thread, Pop(t) PROVE IInv'
<1>1. owner = Nobody /\ UNCHANGED <<owner, pc, loopVars>> /\ ~IsEmpty(buf)
      /\ buf' = PopFrom(buf)
  BY DEF Pop, Alone
<1>2. Ring(buf')
  BY <1>1, RingNow, PopRing
<1>3. Return(t, <<buf.data[buf.read]>>)
  BY DEF Pop
<1>5. <<buf.data[buf.read]>> \in Seq(Reply)
  BY <1>1, OldestIs, Single DEF Reply
<1>4. answer' \in [Thread -> Seq(Reply)]
  BY <1>3, <1>5, AnswerType
<1>. QED
  BY <1>1, <1>2, <1>4, FreeStep

LEMMA ContentsSeq ==
  ASSUME NEW b, Ring(b)
  PROVE  Contents(b) \in Seq(Value) /\ Len(Contents(b)) = SizeOf(b)
<1>1. SizeOf(b) \in 0..Length
  BY SizeIs DEF Ring
<1>2. Contents(b) \in [1..SizeOf(b) -> Value]
  BY ContentsIs DEF Ring
<1>3. Contents(b) \in Seq(Value)
  BY <1>1, <1>2, SeqDef
<1>4. DOMAIN Contents(b) = 1..SizeOf(b)
  BY <1>2
<1>. QED
  BY <1>1, <1>3, <1>4, LenProperties

LEMMA RenewInv ==
  ASSUME IInv, NEW t \in Thread, Renew(t) PROVE IInv'
<1>1. owner = Nobody /\ UNCHANGED <<owner, pc, loopVars>> /\ buf' = Construct
  BY DEF Renew, Alone
<1>2. Ring(buf')
  BY <1>1, ConstructIs
<1>3. Return(t, Contents(buf))
  BY DEF Renew
<1>4. Contents(buf) \in Seq(Reply)
  <2>1. Contents(buf) \in Seq(Value)
    BY RingNow, ContentsSeq
  <2>. QED
    BY <2>1 DEF Reply
<1>5. answer' \in [Thread -> Seq(Reply)]
  BY <1>3, <1>4, AnswerType
<1>. QED
  BY <1>1, <1>2, <1>5, FreeStep

LEMMA ReadInv ==
  ASSUME IInv, NEW t \in Thread, Peek(t) \/ Fails(t) \/ Size(t) PROVE IInv'
<1>1. owner = Nobody /\ UNCHANGED <<buf, owner, pc, loopVars>>
  BY DEF Peek, Fails, Size, Alone
<1>2. Ring(buf')
  BY <1>1, RingNow
<1>3. answer' \in [Thread -> Seq(Reply)]
  <2>1. CASE Peek(t)
    <3>1. ~IsEmpty(buf) /\ Return(t, <<buf.data[buf.read]>>)
      BY <2>1 DEF Peek
    <3>2. <<buf.data[buf.read]>> \in Seq(Reply)
      BY <3>1, OldestIs, Single DEF Reply
    <3>. QED
      BY <3>1, <3>2, AnswerType
  <2>2. CASE Fails(t)
    <3>1. Return(t, <<Nothing>>)
      BY <2>2 DEF Fails
    <3>2. <<Nothing>> \in Seq(Reply)
      BY Single DEF Reply
    <3>. QED
      BY <3>1, <3>2, AnswerType
  <2>3. CASE Size(t)
    <3>1. SizeOf(buf) \in 0..Length
      BY SizeIs DEF IInv, TypeOK
    <3>2. <<SizeOf(buf)>> \in Seq(Reply)
      BY <3>1, Single DEF Reply
    <3>3. Return(t, <<SizeOf(buf)>>)
      BY <2>3 DEF Size
    <3>. QED
      BY <3>2, <3>3, AnswerType
  <2>. QED
    BY <2>1, <2>2, <2>3
<1>. QED
  BY <1>1, <1>2, <1>3, FreeStep

LEMMA AppendIs ==
  ASSUME NEW S, NEW s \in Seq(S), NEW x \in S
  PROVE  /\ Append(s, x) \in Seq(S)
         /\ Len(Append(s, x)) = Len(s) + 1
         /\ Append(s, x) # <<>>
         /\ \A k \in 1..Len(s) + 1 :
              Append(s, x)[k] = IF k = Len(s) + 1 THEN x ELSE s[k]
<1>1. /\ Len(s) \in Nat /\ Append(s, x) \in Seq(S)
      /\ Len(Append(s, x)) = Len(s) + 1
      /\ \A k \in 1..Len(s) : Append(s, x)[k] = s[k]
      /\ Append(s, x)[Len(s) + 1] = x
  BY AppendProperties
<1>2. Append(s, x) # <<>>
  BY <1>1, EmptySeq
<1>. QED
  BY <1>1, <1>2

LEMMA EnterInv ==
  ASSUME IInv, NEW t \in Thread, NEW loop \in {"visit", "map"}, Enter(t, loop),
         fn' \in [Thread -> [Value -> Value]]
  PROVE  IInv'
<1>1. owner = Nobody /\ \A u \in Thread : pc[u] = "idle"
  BY NobodyLoops DEF Enter, Alone
<1>2. buf \in Buffer /\ buf.read \in Slot /\ buf.full \in BOOLEAN
  BY DEF IInv, TypeOK, Buffer
<1>3. TypeOK'
  <2>1. seen' \in [Thread -> Seq(Value)]
    BY DEF Enter, IInv, TypeOK
  <2>2. pc' \in [Thread -> {"idle", "visit", "map"}] /\ owner' \in Thread
    BY DEF Enter, IInv, TypeOK
  <2>3. i' \in [Thread -> Slot] /\ f' \in [Thread -> BOOLEAN]
    BY <1>2 DEF Enter, IInv, TypeOK
  <2>. QED
    BY <2>1, <2>2, <2>3 DEF Enter, IInv, TypeOK
<1>4. RingInv'
  BY DEF Enter, IInv, RingInv
<1>5. OwnerInv'
  BY <1>1, ValueAssumption DEF Enter, IInv, TypeOK, OwnerInv
<1>6. LoopInv'
  <2>1. \A u \in Thread : pc'[u] # "idle" => u = t
    BY <1>1 DEF Enter, IInv, TypeOK
  <2>2. /\ seen'[t] = <<>> /\ i'[t] = buf.read /\ (f'[t] <=> buf.full)
        /\ buf' = buf
    BY DEF Enter, IInv, TypeOK
  <2>3. SizeOf(buf) \in 0..Length /\ Wrap(buf.read + 0) = buf.read
    <3>1. buf.read + 0 < Length /\ 0 \in 0..Length
      BY <1>2, LengthAssumption DEF Slot
    <3>2. Wrap(buf.read + 0) = buf.read + 0
      BY <1>2, <3>1, NextIs
    <3>3. buf.read + 0 = buf.read
      BY <1>2 DEF Slot
    <3>4. Wrap(buf.read + 0) = buf.read
      BY <3>2, <3>3
    <3>. QED
      BY <1>2, <3>4, SizeIs
  <2>4. Len(<<>>) = 0
    OBVIOUS
  <2>. QED
    BY <2>1, <2>2, <2>3, <2>4 DEF LoopInv
<1>. QED
  BY <1>3, <1>4, <1>5, <1>6 DEF IInv

LEMMA VisitOneInv ==
  ASSUME IInv, NEW t \in Thread, VisitOne(t) PROVE IInv'
<1>1. /\ pc[t] = "visit" /\ More(t) /\ Advance(t) /\ buf' = buf
      /\ UNCHANGED <<owner, pc, fn, answer>>
  BY DEF VisitOne, Advance
<1>2. TypeOK'
  BY <1>1, AdvanceIs DEF IInv, TypeOK
<1>3. RingInv' /\ OwnerInv'
  BY <1>1 DEF IInv, RingInv, OwnerInv
<1>4. LoopInv'
  <2>1. \A u \in Thread : pc[u] # "idle" => u = t
    BY <1>1 DEF IInv, OwnerInv
  <2> DEFINE n == Len(seen[t])
  <2>2. seen[t] \in Seq(Value) /\ buf.data[i[t]] \in Value
    BY <1>1, AdvanceIs DEF IInv, TypeOK
  <2>3. Len(seen'[t]) = n + 1 /\ seen'[t] # <<>>
        /\ \A k \in 1..n + 1 :
             seen'[t][k] = IF k = n + 1 THEN buf.data[i[t]] ELSE seen[t][k]
    <3>1. seen'[t] = Append(seen[t], buf.data[i[t]])
      BY <1>1, AdvanceIs
    <3>2. Len(seen[t]) = n
      OBVIOUS
    <3> HIDE DEF n
    <3>. QED
      BY <2>2, <3>1, <3>2, AppendIs
  <2>4. n + 1 <= SizeOf(buf) /\ n \in Nat
    BY <1>1, <2>2, MoreIs, SizeIs DEF IInv, TypeOK
  <2>5. \A k \in 1..n : Contents(buf)[k] = seen[t][k]
    BY <1>1, AtLoop DEF At
  <2>6. Contents(buf)[n + 1] = buf.data[i[t]] /\ ~f'[t]
        /\ i'[t] = Wrap(buf.read + (n + 1))
    BY <1>1, AdvanceIs
  <2> HIDE DEF n
  <2>7. \A k \in 1..n + 1 : Contents(buf)[k] = seen'[t][k]
    BY <2>3, <2>4, <2>5, <2>6
  <2>. QED
    BY <1>1, <2>1, <2>3, <2>4, <2>6, <2>7 DEF LoopInv
<1>. QED
  BY <1>2, <1>3, <1>4 DEF IInv

LEMMA MapOneInv ==
  ASSUME IInv, NEW t \in Thread, MapOne(t) PROVE IInv'
<1> DEFINE n == Len(seen[t]) + 1
           x == buf.data[i[t]]
<1>1. /\ pc[t] = "map" /\ More(t) /\ Advance(t)
      /\ buf' = Put(buf, i[t], fn[t][x])
      /\ UNCHANGED <<owner, pc, fn, answer>>
  BY DEF MapOne, Advance
<1>2. /\ seen[t] \in Seq(Value) /\ fn[t] \in [Value -> Value]
      /\ Len(seen[t]) \in Nat /\ SizeOf(buf) \in 0..Length
  BY SizeIs DEF IInv, TypeOK
<1>3. n \in 1..SizeOf(buf)
  BY <1>1, <1>2, MoreIs
<1>4. /\ i[t] = Wrap(buf.read + n - 1)
      /\ Contents(buf)[n] = x /\ x \in Value
      /\ seen'[t] = Append(seen[t], x)
      /\ i'[t] = Wrap(buf.read + n)
      /\ ~f'[t]
  BY <1>1, AdvanceIs
<1>5. fn[t][x] \in Value
  BY <1>2, <1>4
<1>6. Len(seen'[t]) = n /\ seen'[t] # <<>>
      /\ \A k \in 1..n : seen'[t][k] = IF k = n THEN x ELSE seen[t][k]
  <2>1. Len(seen[t]) + 1 = n
    OBVIOUS
  <2> HIDE DEF n, x
  <2>. QED
    BY <1>2, <1>4, <2>1, AppendIs
<1>7. \A k \in 1..n : k # n => Contents(buf)[k] = fn[t][seen[t][k]]
  <2>1. \A k \in 1..Len(seen[t]) : Contents(buf)[k] = fn[t][seen[t][k]]
    BY <1>1, AtLoop DEF At
  <2>. QED
    BY <1>2, <2>1
<1> HIDE DEF n, x
<1>8. /\ Ring(buf')
      /\ buf'.read = buf.read /\ buf'.full = buf.full
      /\ SizeOf(buf') = SizeOf(buf)
      /\ \A k \in 1..SizeOf(buf) :
           Contents(buf')[k] = IF k = n THEN fn[t][x] ELSE Contents(buf)[k]
  <2>1. Ring(buf)
    BY RingNow
  <2>2. buf' = Put(buf, Wrap(buf.read + n - 1), fn[t][x])
    BY <1>1, <1>4
  <2>. QED
    BY <1>3, <1>5, <2>1, <2>2, Replace
<1>9. TypeOK'
  BY <1>1, <1>8, AdvanceIs DEF IInv, TypeOK, Ring
<1>10. RingInv' /\ OwnerInv'
  BY <1>1, <1>8 DEF IInv, RingInv, OwnerInv, Ring
<1>11. LoopInv'
  <2>1. \A u \in Thread : pc[u] # "idle" => u = t
    BY <1>1 DEF IInv, OwnerInv
  <2>2. \A k \in 1..n : Contents(buf')[k] = fn[t][seen'[t][k]]
    BY <1>2, <1>3, <1>6, <1>7, <1>8
  <2>3. n <= SizeOf(buf)
    BY <1>2, <1>3
  <2>. QED
    BY <1>1, <1>4, <1>6, <1>8, <2>1, <2>2, <2>3 DEF LoopInv
<1>. QED
  BY <1>9, <1>10, <1>11 DEF IInv

LEMMA LeaveInv ==
  ASSUME IInv, NEW t \in Thread, Leave(t) PROVE IInv'
<1>1. /\ pc[t] # "idle" /\ buf' = buf /\ owner' = Nobody /\ fn' = [fn EXCEPT ![t] = Same]
      /\ pc' = [pc EXCEPT ![t] = "idle"]
      /\ i' = [i EXCEPT ![t] = 0] /\ f' = [f EXCEPT ![t] = FALSE]
      /\ seen' = [seen EXCEPT ![t] = <<>>]
      /\ Return(t, IF pc[t] = "visit" THEN seen[t] ELSE <<>>)
  BY DEF Leave
<1>2. (IF pc[t] = "visit" THEN seen[t] ELSE <<>>) \in Seq(Reply)
  <2>1. seen[t] \in Seq(Value) /\ Value \subseteq Reply
    BY DEF IInv, TypeOK, Reply
  <2>2. seen[t] \in Seq(Reply) /\ <<>> \in Seq(Reply)
    BY <2>1, SeqMonotonic
  <2>. QED
    BY <2>2
<1>3. answer' \in [Thread -> Seq(Reply)]
  BY <1>1, <1>2, AnswerType
<1>4. TypeOK'
  <2>1. seen' \in [Thread -> Seq(Value)]
    BY <1>1 DEF IInv, TypeOK
  <2>2. pc' \in [Thread -> {"idle", "visit", "map"}]
    BY <1>1 DEF IInv, TypeOK
  <2>3. fn' \in [Thread -> [Value -> Value]]
    BY <1>1 DEF IInv, TypeOK, Same
  <2>. QED
    BY <1>1, <1>3, <2>1, <2>2, <2>3 DEF IInv, TypeOK
<1>5. \A u \in Thread : pc'[u] = "idle"
  BY <1>1 DEF IInv, TypeOK, OwnerInv
<1>. QED
  BY <1>1, <1>4, <1>5, ValueAssumption
  DEF IInv, RingInv, OwnerInv, LoopInv

LEMMA StepInv == IInv /\ [Next]_vars => IInv'
<1> SUFFICES ASSUME IInv, [Next]_vars PROVE IInv'
  OBVIOUS
<1>1. CASE UNCHANGED vars
  BY <1>1 DEF vars, loopVars, IInv, TypeOK, RingInv, OwnerInv, LoopInv, More
<1>2. CASE Next
  <2> SUFFICES ASSUME NEW t \in Thread,
                      \/ Pop(t) \/ Peek(t) \/ Fails(t) \/ Size(t) \/ Renew(t)
                      \/ Visit(t) \/ VisitOne(t) \/ MapOne(t) \/ Leave(t)
                      \/ \E v \in Value : Push(t, v)
                      \/ \E g \in [Value -> Value] : Map(t, g)
               PROVE  IInv'
    BY <1>2 DEF Next
  <2>1. CASE Pop(t)
    BY <2>1, PopInv
  <2>2. CASE Peek(t) \/ Fails(t) \/ Size(t)
    BY <2>2, ReadInv
  <2>3. CASE Visit(t)
    <3>1. Enter(t, "visit") /\ fn' \in [Thread -> [Value -> Value]]
      BY <2>3 DEF Visit, IInv, TypeOK
    <3>. QED
      BY <3>1, EnterInv
  <2>4. CASE VisitOne(t)
    BY <2>4, VisitOneInv
  <2>5. CASE MapOne(t)
    BY <2>5, MapOneInv
  <2>6. CASE Leave(t)
    BY <2>6, LeaveInv
  <2>7. CASE \E v \in Value : Push(t, v)
    BY <2>7, PushInv
  <2>8. CASE \E g \in [Value -> Value] : Map(t, g)
    <3>1. Enter(t, "map") /\ fn' \in [Thread -> [Value -> Value]]
      BY <2>8 DEF Map, IInv, TypeOK
    <3>. QED
      BY <3>1, EnterInv
  <2>9. CASE Renew(t)
    BY <2>9, RenewInv
  <2>. QED
    BY <2>1, <2>2, <2>3, <2>4, <2>5, <2>6, <2>7, <2>8, <2>9
<1>. QED
  BY <1>1, <1>2

(* The flag says full only when the indices meet, a thread in a loop holds *)
(* the lock, and its loop has passed the oldest elements in their order.   *)
THEOREM Invariance == Spec => []IInv
<1>1. Init => IInv
  BY InitInv
<1>2. IInv /\ [Next]_vars => IInv'
  BY StepInv
<1>. QED
  BY <1>1, <1>2, PTL DEF Spec

(* Every index stays in the array and every answer is of its type. *)
THEOREM TypeCorrect == Spec => []TypeOK
<1>1. IInv => TypeOK
  BY DEF IInv
<1>. QED
  BY <1>1, Invariance, PTL

-----------------------------------------------------------------------------
(* The refinement.  Outside a map the abstract queue is the contents.      *)
LEMMA ItemsFree ==
  ASSUME IInv, Passed = <<>> PROVE Items = Contents(buf)
<1>1. Ring(buf) /\ SizeOf(buf) \in 0..Length
  BY RingNow, SizeIs DEF Ring
<1>2. Contents(buf) = [k \in 1..SizeOf(buf) |-> Contents(buf)[k]]
  BY <1>1, ContentsIs DEF Ring
<1>3. Items = [k \in 1..SizeOf(buf) |-> Contents(buf)[k]]
  <2>1. \A k \in 1..SizeOf(buf) : ~(k <= Len(Passed))
    BY <1>1
  <2>. QED
    BY <2>1 DEF Items
<1>. QED
  BY <1>2, <1>3

LEMMA PassedFree == ASSUME owner = Nobody PROVE Passed = <<>>
BY DEF Passed

LEMMA InitRefines == Init => Abs!Init
<1> SUFFICES ASSUME Init PROVE Abs!Init
  OBVIOUS
<1>1. IInv /\ Passed = <<>>
  BY InitInv, PassedFree DEF Init
<1>2. Items \in Seq(Value) /\ Len(Items) = SizeOf(buf)
  BY <1>1, ItemsFree, RingNow, ContentsSeq
<1>3. SizeOf(buf) \in 0..Length
  BY <1>1, SizeIs DEF IInv, TypeOK
<1>. QED
  BY <1>2, <1>3 DEF Abs!Init

LEMMA PushRefines ==
  ASSUME IInv, IInv', NEW t \in Thread, NEW v \in Value, Push(t, v)
  PROVE  Abs!Push(t, v)
<1>1. /\ owner = Nobody /\ owner' = Nobody /\ buf' = PushTo(buf, v)
      /\ Return(t, <<>>)
  BY DEF Push, Alone
<1>2. Items = Contents(buf) /\ Items' = Contents(buf')
  <2>1. Items = Contents(buf)
    BY <1>1, ItemsFree, PassedFree
  <2>2. Passed' = <<>>
    BY <1>1 DEF Passed
  <2>3. (IInv /\ Passed = <<>> => Items = Contents(buf))'
    BY ItemsFree, PTL
  <2>. QED
    BY <2>1, <2>2, <2>3
<1>3. Ring(buf) /\ Ring(buf')
  BY <1>1, RingNow, PushRing
<1> DEFINE s == Contents(buf)
           r == Contents(buf')
<1>4. /\ s \in Seq(Value) /\ Len(s) = SizeOf(buf)
      /\ r \in Seq(Value) /\ Len(r) = SizeOf(buf')
      /\ SizeOf(buf) \in 0..Length
  BY <1>3, ContentsSeq, SizeIs DEF Ring
<1>5. buf \in Buffer /\ (buf.full => buf.read = buf.write)
      /\ (buf.full => SizeOf(buf) = Length)
      /\ (~buf.full => SizeOf(buf) < Length /\ SizeOf(buf') = SizeOf(buf) + 1)
      /\ (buf.full => SizeOf(buf') = Length)
  BY <1>1, <1>3, PushShape, SizeIs DEF Ring
<1>6. CASE ~buf.full
  <2>1. \A k \in 1..SizeOf(buf) + 1 : r[k] = IF k <= SizeOf(buf) THEN s[k] ELSE v
    BY <1>1, <1>5, <1>6, PushItems
  <2> HIDE DEF s, r
  <2>2. Append(s, v) \in Seq(Value) /\ Len(Append(s, v)) = Len(r)
    BY <1>4, <1>5, <1>6, AppendIs
  <2>3. \A k \in 1..Len(r) : r[k] = Append(s, v)[k]
    BY <1>4, <1>5, <1>6, <2>1, AppendIs
  <2>4. r = Append(s, v)
    BY <1>4, <2>2, <2>3, SeqEqual
  <2>5. Len(s) # Length
    BY <1>4, <1>5, <1>6
  <2>. QED
    BY <1>1, <1>2, <2>4, <2>5 DEF Abs!Push, Abs!Answer, Return, s, r
<1>7. CASE buf.full
  <2>1. \A k \in 1..Length : r[k] = IF k < Length THEN s[k + 1] ELSE v
    BY <1>1, <1>5, <1>7, PushItems
  <2>2. Len(s) = Length /\ Len(r) = Length
    BY <1>4, <1>5, <1>7
  <2> HIDE DEF s, r
  <2>3. s # <<>>
    BY <1>4, <2>2, EmptySeq
  <2>4. /\ Tail(s) \in Seq(Value) /\ Len(Tail(s)) = Length - 1
        /\ \A k \in 1..Length - 1 : Tail(s)[k] = s[k + 1]
    BY <1>4, <2>2, <2>3, HeadTailProperties
  <2>5. /\ Append(Tail(s), v) \in Seq(Value)
        /\ Len(Append(Tail(s), v)) = Length
        /\ \A k \in 1..Length :
             Append(Tail(s), v)[k] = IF k = Length THEN v ELSE Tail(s)[k]
    BY <2>4, AppendIs
  <2>6. \A k \in 1..Len(r) : r[k] = Append(Tail(s), v)[k]
    BY <2>1, <2>2, <2>4, <2>5
  <2>7. r = Append(Tail(s), v)
    BY <1>4, <2>2, <2>5, <2>6, SeqEqual
  <2>. QED
    BY <1>1, <1>2, <2>2, <2>7 DEF Abs!Push, Abs!Answer, Return, s, r
<1>. QED
  BY <1>6, <1>7

LEMMA PopRefines ==
  ASSUME IInv, IInv', NEW t \in Thread, Pop(t) PROVE Abs!Pop(t)
<1>1. /\ owner = Nobody /\ owner' = Nobody /\ buf' = PopFrom(buf)
      /\ ~IsEmpty(buf) /\ Return(t, <<buf.data[buf.read]>>)
  BY DEF Pop, Alone
<1>2. Items = Contents(buf) /\ Items' = Contents(buf')
  <2>1. Items = Contents(buf)
    BY <1>1, ItemsFree, PassedFree
  <2>2. Passed' = <<>>
    BY <1>1 DEF Passed
  <2>3. (IInv /\ Passed = <<>> => Items = Contents(buf))'
    BY ItemsFree, PTL
  <2>. QED
    BY <2>1, <2>2, <2>3
<1>3. Ring(buf) /\ Ring(buf')
  BY <1>1, RingNow, PopRing
<1> DEFINE s == Contents(buf)
           r == Contents(buf')
<1>4. /\ s \in Seq(Value) /\ Len(s) = SizeOf(buf)
      /\ r \in Seq(Value) /\ Len(r) = SizeOf(buf')
      /\ SizeOf(buf) \in 0..Length
  BY <1>3, ContentsSeq, SizeIs DEF Ring
<1>5. /\ SizeOf(buf) >= 1 /\ s[1] = buf.data[buf.read]
      /\ SizeOf(buf') = SizeOf(buf) - 1
      /\ \A k \in 1..SizeOf(buf) - 1 : r[k] = s[k + 1]
  BY <1>1, <1>3, PopItems DEF Ring
<1> HIDE DEF s, r
<1>6. s # <<>>
  BY <1>4, <1>5, EmptySeq
<1>7. /\ Tail(s) \in Seq(Value) /\ Len(Tail(s)) = SizeOf(buf) - 1
      /\ \A k \in 1..SizeOf(buf) - 1 : Tail(s)[k] = s[k + 1]
  BY <1>4, <1>6, HeadTailProperties
<1>8. \A k \in 1..Len(r) : r[k] = Tail(s)[k]
  BY <1>4, <1>5, <1>7
<1>9. r = Tail(s)
  BY <1>4, <1>5, <1>7, <1>8, SeqEqual
<1>10. Head(s) = s[1]
  BY <1>4, <1>6
<1>. QED
  BY <1>1, <1>2, <1>5, <1>6, <1>9, <1>10
  DEF Abs!Pop, Abs!Answer, Return, s, r

LEMMA ReadRefines ==
  ASSUME IInv, NEW t \in Thread, Peek(t) \/ Fails(t) \/ Size(t)
  PROVE  Abs!Peek(t) \/ Abs!Fails(t) \/ Abs!Size(t)
<1>1. owner = Nobody /\ UNCHANGED <<buf, owner, pc, loopVars>>
  BY DEF Peek, Fails, Size, Alone
<1>2. Items' = Items
  BY <1>1 DEF Items, Passed, loopVars
<1>3. Items = Contents(buf)
  BY <1>1, ItemsFree, PassedFree
<1>4. Ring(buf)
  BY RingNow
<1> DEFINE s == Contents(buf)
<1>5. s \in Seq(Value) /\ Len(s) = SizeOf(buf) /\ SizeOf(buf) \in 0..Length
  BY <1>4, ContentsSeq, SizeIs DEF Ring
<1>6. CASE Peek(t)
  <2>1. SizeOf(buf) >= 1 /\ s[1] = buf.data[buf.read]
    BY <1>4, <1>6, PopItems DEF Peek, Ring
  <2> HIDE DEF s
  <2>2. s # <<>> /\ Head(s) = s[1]
    BY <1>5, <2>1, EmptySeq
  <2>. QED
    BY <1>2, <1>3, <1>6, <2>1, <2>2 DEF Peek, Abs!Peek, Abs!Answer, Return, s
<1>7. CASE Fails(t)
  <2>1. SizeOf(buf) = 0
    BY <1>4, <1>7, SizeIs DEF Fails, IsEmpty, Ring, Buffer
  <2> HIDE DEF s
  <2>2. s = <<>>
    BY <1>5, <2>1, EmptySeq
  <2>. QED
    BY <1>2, <1>3, <1>7, <2>2 DEF Fails, Abs!Fails, Abs!Answer, Return, s
<1>8. CASE Size(t)
  <2> HIDE DEF s
  <2>. QED
    BY <1>2, <1>3, <1>5, <1>8 DEF Size, Abs!Size, Abs!Answer, Return, s
<1>. QED
  BY <1>6, <1>7, <1>8

LEMMA RenewRefines ==
  ASSUME IInv, IInv', NEW t \in Thread, Renew(t) PROVE Abs!Renew(t)
<1>1. owner = Nobody /\ owner' = Nobody /\ buf' = Construct /\ Return(t, Contents(buf))
  BY DEF Renew, Alone
<1>2. Items = Contents(buf)
  BY <1>1, ItemsFree, PassedFree
<1>3. Items' = Contents(buf')
  <2>1. Passed' = <<>>
    BY <1>1 DEF Passed
  <2>2. (IInv /\ Passed = <<>> => Items = Contents(buf))'
    BY ItemsFree, PTL
  <2>. QED
    BY <2>1, <2>2
<1>4. Contents(buf') = <<>>
  <2>1. /\ Contents(Construct) \in Seq(Value)
        /\ Len(Contents(Construct)) = 0
    BY ConstructIs, ContentsSeq
  <2>. QED
    BY <1>1, <2>1, EmptySeq
<1>. QED
  BY <1>1, <1>2, <1>3, <1>4 DEF Abs!Renew, Abs!Answer, Return

(* A loop's beginning and a visit's turns change nothing the other threads *)
(* see.                                                                    *)
LEMMA EnterRefines ==
  ASSUME IInv, NEW t \in Thread, NEW loop \in {"visit", "map"}, Enter(t, loop)
  PROVE  UNCHANGED <<Items, answer>>
<1>1. owner = Nobody /\ owner' = t /\ seen'[t] = <<>> /\ buf' = buf
      /\ answer' = answer
  BY DEF Enter, Alone, IInv, TypeOK
<1>2. Passed = <<>> /\ Passed' = <<>>
  BY <1>1 DEF Passed
<1>. QED
  BY <1>1, <1>2 DEF Items

LEMMA VisitOneRefines ==
  ASSUME IInv, NEW t \in Thread, VisitOne(t)
  PROVE  UNCHANGED <<Items, answer>>
<1>1. pc[t] = "visit" /\ UNCHANGED <<buf, owner, pc, answer>>
  BY DEF VisitOne, Advance
<1>2. owner = t
  BY <1>1 DEF IInv, OwnerInv
<1>3. Passed = <<>> /\ Passed' = <<>>
  BY <1>1, <1>2 DEF Passed
<1>. QED
  BY <1>1, <1>3 DEF Items

(* Nor do a map's: the element it replaces joins those it has passed.      *)
LEMMA MapOneRefines ==
  ASSUME IInv, NEW t \in Thread, MapOne(t)
  PROVE  UNCHANGED <<Items, answer>>
<1> DEFINE n == Len(seen[t]) + 1
           x == buf.data[i[t]]
<1>1. /\ pc[t] = "map" /\ More(t) /\ Advance(t)
      /\ buf' = Put(buf, i[t], fn[t][x])
      /\ UNCHANGED <<owner, pc, fn, answer>>
  BY DEF MapOne, Advance
<1>2. /\ seen[t] \in Seq(Value) /\ fn[t] \in [Value -> Value]
      /\ Len(seen[t]) \in Nat /\ SizeOf(buf) \in 0..Length
  BY SizeIs DEF IInv, TypeOK
<1>3. n \in 1..SizeOf(buf)
  BY <1>1, <1>2, MoreIs
<1>4. /\ i[t] = Wrap(buf.read + n - 1)
      /\ Contents(buf)[n] = x /\ x \in Value
      /\ seen'[t] = Append(seen[t], x)
  BY <1>1, AdvanceIs
<1>5. fn[t][x] \in Value
  BY <1>2, <1>4
<1>6. /\ Len(seen[t]) = n - 1
      /\ Len(seen'[t]) = n
      /\ \A k \in 1..n : seen'[t][k] = IF k = n THEN x ELSE seen[t][k]
  <2>1. Len(seen[t]) + 1 = n /\ Len(seen[t]) = n - 1
    BY <1>2
  <2> HIDE DEF n, x
  <2>. QED
    BY <1>2, <1>4, <2>1, AppendIs
<1>7. owner = t
  BY <1>1 DEF IInv, OwnerInv
<1>8. Passed = seen[t] /\ Passed' = seen'[t]
  BY <1>1, <1>7, ValueAssumption DEF Passed
<1> HIDE DEF n, x
<1>9. /\ SizeOf(buf') = SizeOf(buf)
      /\ \A k \in 1..SizeOf(buf) :
           Contents(buf')[k] = IF k = n THEN fn[t][x] ELSE Contents(buf)[k]
  <2>1. Ring(buf)
    BY RingNow
  <2>2. buf' = Put(buf, Wrap(buf.read + n - 1), fn[t][x])
    BY <1>1, <1>4
  <2>. QED
    BY <1>3, <1>5, <2>1, <2>2, Replace
<1>10. \A k \in 1..SizeOf(buf) :
         (IF k <= Len(Passed') THEN Passed'[k] ELSE Contents(buf')[k])
           = (IF k <= Len(Passed) THEN Passed[k] ELSE Contents(buf)[k])
  <2> TAKE k \in 1..SizeOf(buf)
  <2>1. k <= Len(Passed') <=> k <= n
    BY <1>6, <1>8
  <2>2. k <= Len(Passed) <=> k <= n - 1
    BY <1>6, <1>8
  <2>3. CASE k < n
    BY <1>3, <1>6, <1>8, <2>1, <2>2, <2>3
  <2>4. CASE k = n
    BY <1>3, <1>4, <1>6, <1>8, <2>1, <2>2, <2>4
  <2>5. CASE k > n
    BY <1>3, <1>9, <2>1, <2>2, <2>5
  <2>. QED
    BY <1>2, <1>3, <2>3, <2>4, <2>5
<1>11. Items' = Items
  BY <1>9, <1>10 DEF Items
<1>. QED
  BY <1>1, <1>11

(* Where a loop ends, the visit shows the queue and the map is done.       *)
LEMMA LeaveRefines ==
  ASSUME IInv, NEW t \in Thread, Leave(t)
  PROVE  Abs!Visit(t) \/ \E g \in [Value -> Value] : Abs!Map(t, g)
<1>1. /\ pc[t] # "idle" /\ ~More(t) /\ buf' = buf /\ owner' = Nobody
      /\ pc[t] \in {"idle", "visit", "map"}
      /\ Return(t, IF pc[t] = "visit" THEN seen[t] ELSE <<>>)
  BY DEF Leave, IInv, TypeOK
<1>2. Ring(buf) /\ owner = t
  BY <1>1, RingNow DEF IInv, OwnerInv
<1> DEFINE s == Contents(buf)
<1>3. /\ s \in Seq(Value) /\ Len(s) = SizeOf(buf) /\ SizeOf(buf) \in 0..Length
      /\ s = [k \in 1..SizeOf(buf) |-> s[k]]
  BY <1>2, ContentsSeq, ContentsIs, SizeIs DEF Ring
<1>4. /\ seen[t] \in Seq(Value)
      /\ Len(seen[t]) = SizeOf(buf)
  BY <1>1, <1>3, MoreIs DEF IInv, TypeOK
<1>5. \A k \in 1..SizeOf(buf) :
        s[k] = IF pc[t] = "map" THEN fn[t][seen[t][k]] ELSE seen[t][k]
  BY <1>1, <1>4, AtLoop DEF At
<1>6. Passed' = <<>> /\ SizeOf(buf') = SizeOf(buf) /\ Contents(buf') = s
  BY <1>1 DEF Passed
<1> HIDE DEF s
<1>7. Items' = s
  <2>1. \A k \in 1..SizeOf(buf) : ~(k <= Len(<<>>))
    BY <1>3
  <2>2. Items' = [k \in 1..SizeOf(buf) |-> s[k]]
    BY <1>6, <2>1 DEF Items
  <2>. QED
    BY <1>3, <2>2
<1>8. CASE pc[t] = "visit"
  <2>1. Passed = <<>>
    BY <1>2, <1>8 DEF Passed
  <2>2. Items = s
    BY <2>1, ItemsFree DEF s
  <2>3. s = seen[t]
    BY <1>3, <1>4, <1>5, <1>8, SeqEqual
  <2>. QED
    BY <1>1, <1>7, <1>8, <2>2, <2>3 DEF Abs!Visit, Abs!Answer, Return
<1>9. CASE pc[t] = "map"
  <2>1. Passed = seen[t]
    BY <1>2, <1>9, ValueAssumption DEF Passed
  <2>2. Items = [k \in 1..SizeOf(buf) |-> seen[t][k]]
    BY <1>3, <1>4, <2>1 DEF Items
  <2>3. seen[t] = [k \in 1..SizeOf(buf) |-> seen[t][k]]
    BY <1>4, LenProperties
  <2>4. Items = seen[t]
    BY <2>2, <2>3
  <2>5. fn[t] \in [Value -> Value]
    BY DEF IInv, TypeOK
  <2>6. s = [k \in 1..Len(Items) |-> fn[t][Items[k]]]
    BY <1>3, <1>4, <1>5, <1>9, <2>4
  <2>7. Abs!Map(t, fn[t])
    BY <1>1, <1>7, <1>9, <2>6 DEF Abs!Map, Abs!Answer, Return
  <2>. QED
    BY <2>5, <2>7
<1>. QED
  BY <1>1, <1>8, <1>9

LEMMA StepRefines ==
  ASSUME IInv, IInv', [Next]_vars PROVE [Abs!Next]_(Abs!vars)
<1>1. CASE UNCHANGED vars
  <2>1. Items' = Items /\ answer' = answer
    BY <1>1 DEF vars, loopVars, Items, Passed
  <2>. QED
    BY <2>1 DEF Abs!vars
<1>2. CASE Next
  <2> SUFFICES ASSUME NEW t \in Thread,
                      \/ Pop(t) \/ Peek(t) \/ Fails(t) \/ Size(t) \/ Renew(t)
                      \/ Visit(t) \/ VisitOne(t) \/ MapOne(t) \/ Leave(t)
                      \/ \E v \in Value : Push(t, v)
                      \/ \E g \in [Value -> Value] : Map(t, g)
               PROVE  [Abs!Next]_(Abs!vars)
    BY <1>2 DEF Next
  <2>1. CASE Pop(t)
    BY <2>1, PopRefines DEF Abs!Next
  <2>2. CASE Peek(t) \/ Fails(t) \/ Size(t)
    BY <2>2, ReadRefines DEF Abs!Next
  <2>3. CASE Visit(t) \/ \E g \in [Value -> Value] : Map(t, g)
    <3>1. \E loop \in {"visit", "map"} : Enter(t, loop)
      BY <2>3 DEF Visit, Map
    <3>. QED
      BY <3>1, EnterRefines DEF Abs!vars
  <2>4. CASE VisitOne(t)
    BY <2>4, VisitOneRefines DEF Abs!vars
  <2>5. CASE MapOne(t)
    BY <2>5, MapOneRefines DEF Abs!vars
  <2>6. CASE Leave(t)
    BY <2>6, LeaveRefines DEF Abs!Next
  <2>7. CASE \E v \in Value : Push(t, v)
    BY <2>7, PushRefines DEF Abs!Next
  <2>8. CASE Renew(t)
    BY <2>8, RenewRefines DEF Abs!Next
  <2>. QED
    BY <2>1, <2>2, <2>3, <2>4, <2>5, <2>6, <2>7, <2>8
<1>. QED
  BY <1>1, <1>2

(* The buffer is a bounded first-in first-out queue that drops its oldest  *)
(* element on overflow, used one operation at a time: the code's steps are *)
(* AbstractRing's or change nothing of it.                                 *)
THEOREM Refinement == Spec => Implements
<1>1. Init => Abs!Init
  BY InitRefines
<1>2. IInv /\ IInv' /\ [Next]_vars => [Abs!Next]_(Abs!vars)
  BY StepRefines
<1>. QED
  BY <1>1, <1>2, Invariance, PTL DEF Spec, Implements, Abs!Spec

-----------------------------------------------------------------------------
(* Unpacking.                                                              *)

(* The buffers that filling b with s goes through.                         *)
Filled(b, s) ==
  CHOOSE fill : fill = [k \in 0..Len(s) |-> IF k = 0 THEN b ELSE PushTo(fill[k - 1], s[k])]

Rings == {b \in Buffer : Ring(b)}

LEMMA FilledIs ==
  ASSUME NEW b, Ring(b), NEW s \in Seq(Value)
  PROVE  /\ Refill(b, s) = Filled(b, s)[Len(s)]
         /\ Filled(b, s)[0] = b
         /\ \A k \in 1..Len(s) : Filled(b, s)[k] = PushTo(Filled(b, s)[k - 1], s[k])
<1>. DEFINE F == [k \in 1..Len(s) |-> [c \in Rings |-> PushTo(c, s[k])]]
<1>1. Len(s) \in Nat /\ b \in Rings
  BY DEF Rings, Ring
<1>2. F \in Turns(Len(s), Rings)
  <2>1. ASSUME NEW k \in 1..Len(s), NEW c \in Rings PROVE PushTo(c, s[k]) \in Rings
    BY PushRing DEF Rings, Ring
  <2>. QED
    BY <2>1 DEF Turns
<1>. HIDE DEF F
<1>3. PICK g : Run(g, Len(s), Rings, b, F)
  BY <1>1, <1>2, Iterates
<1>4. g = [k \in 0..Len(s) |-> IF k = 0 THEN b ELSE PushTo(g[k - 1], s[k])]
  <2>1. ASSUME NEW k \in 1..Len(s) PROVE F[k][g[k - 1]] = PushTo(g[k - 1], s[k])
    <3>1. g[k - 1] \in Rings
      BY <1>1, <1>3 DEF Run
    <3>. QED
      BY <1>3, <3>1 DEF Run, F
  <2>2. \A k \in 0..Len(s) : k # 0 => k \in 1..Len(s)
    BY <1>1
  <2>. QED
    BY <1>3, <2>1, <2>2 DEF Run
<1>5. Filled(b, s) = [k \in 0..Len(s) |-> IF k = 0 THEN b ELSE PushTo(Filled(b, s)[k - 1], s[k])]
  BY <1>4 DEF Filled
<1>6. Refill(b, s) = Filled(b, s)[Len(s)]
  BY DEF Refill, Filled
<1>. HIDE DEF Filled
<1>7. ASSUME NEW n \in Nat, NEW h, h = [k \in 0..n |-> IF k = 0 THEN b ELSE PushTo(h[k - 1], s[k])]
      PROVE  h[0] = b /\ \A k \in 1..n : h[k] = PushTo(h[k - 1], s[k])
  <2>1. h[0] = b
    BY <1>7
  <2>2. ASSUME NEW k \in 1..n PROVE h[k] = PushTo(h[k - 1], s[k])
    <3>1. k \in 0..n /\ k # 0
      OBVIOUS
    <3>. QED
      BY <1>7, <3>1
  <2>. QED
    BY <2>1, <2>2
<1>. QED
  BY <1>1, <1>5, <1>6, <1>7

(* A buffer that has room for all of s holds it in its order.              *)
LEMMA RefillIs ==
  ASSUME NEW s \in Seq(Value), Len(s) <= Length
  PROVE  /\ Ring(FromContents(s))
         /\ SizeOf(FromContents(s)) = Len(s)
         /\ \A k \in 1..Len(s) : Contents(FromContents(s))[k] = s[k]
<1>. DEFINE ring == Filled(Construct, s)
            Right(m) == /\ Ring(ring[m])
                        /\ SizeOf(ring[m]) = m
                        /\ \A k \in 1..m : Contents(ring[m])[k] = s[k]
            Good == {m \in 0..Len(s) : Right(m)}
<1>1. /\ Len(s) \in Nat
      /\ FromContents(s) = ring[Len(s)]
      /\ ring[0] = Construct
      /\ \A k \in 1..Len(s) : ring[k] = PushTo(ring[k - 1], s[k])
  BY ConstructIs, FilledIs DEF FromContents
<1>. HIDE DEF ring
<1>2. 0 \in Good
  BY <1>1, ConstructIs
<1>3. ASSUME NEW m \in 1..Len(s), m - 1 \in Good PROVE m \in Good
  <2>1. PICK b : b = ring[m - 1] /\ ring[m] = PushTo(b, s[m])
    BY <1>1
  <2>2. /\ Ring(b)
        /\ SizeOf(b) = m - 1
        /\ \A k \in 1..m - 1 : Contents(b)[k] = s[k]
    BY <1>3, <2>1
  <2>3. b \in Buffer /\ (b.full => b.read = b.write) /\ s[m] \in Value
    BY <1>1, <2>2 DEF Ring
  <2>4. ~b.full
    BY <1>1, <2>2, <2>3, SizeIs
  <2>5. SizeOf(ring[m]) = m
    BY <1>1, <2>1, <2>2, <2>3, <2>4, PushShape
  <2>6. \A k \in 1..m : Contents(ring[m])[k] = IF k <= m - 1 THEN Contents(b)[k] ELSE s[m]
    <3>1. SizeOf(b) + 1 = m
      BY <2>2
    <3>2. \A k \in 1..SizeOf(b) + 1 :
             Contents(PushTo(b, s[m]))[k] = IF k <= SizeOf(b) THEN Contents(b)[k] ELSE s[m]
      BY <2>3, <2>4, PushItems
    <3>. QED
      BY <2>1, <2>2, <3>1, <3>2
  <2>7. \A k \in 1..m : Contents(ring[m])[k] = s[k]
    BY <1>1, <2>2, <2>6
  <2>8. Ring(ring[m])
    BY <2>1, <2>2, <2>3, PushRing
  <2>. QED
    BY <2>5, <2>7, <2>8
<1>4. Len(s) \in Good
  <2>. HIDE DEF Good
  <2>1. \A k \in 0..Len(s) : k \in Good
    BY <1>1, <1>2, <1>3, InductionUpTo
  <2>. QED
    BY <1>1, <2>1
<1>. QED
  BY <1>1, <1>4

LEMMA RoundTripNow == IInv => RoundTrip
<1>. SUFFICES ASSUME IInv PROVE RoundTrip
  OBVIOUS
<1>. DEFINE s == Contents(buf)
            c == FromContents(s)
<1>1. Ring(buf) /\ SizeOf(buf) \in 0..Length
  BY RingNow, SizeIs DEF Ring
<1>2. s = [k \in 1..SizeOf(buf) |-> s[k]] /\ \A k \in 1..SizeOf(buf) : s[k] \in Value
  BY <1>1, ContentsIs DEF Ring
<1>. HIDE DEF s
<1>3. s \in Seq(Value) /\ Len(s) = SizeOf(buf)
  BY <1>1, <1>2
<1>4. Ring(c) /\ SizeOf(c) = Len(s) /\ \A k \in 1..Len(s) : Contents(c)[k] = s[k]
  BY <1>1, <1>3, RefillIs
<1>. HIDE DEF c
<1>5. Contents(c) = [k \in 1..SizeOf(c) |-> Contents(c)[k]]
  BY <1>4, ContentsIs DEF Ring
<1>6. Contents(c) = s
  BY <1>2, <1>3, <1>4, <1>5
<1>. QED
  BY <1>6 DEF RoundTrip, s, c

(* Wherever the indices of a buffer have wandered to, packing it and       *)
(* unpacking what was written gives its elements in their order            *)
(* (circular_buffer_pack and _unpack).                                     *)
THEOREM PackedReturns == Spec => []RoundTrip
BY Invariance, RoundTripNow, PTL

=============================================================================
