--------------------------- MODULE CircularBuffer ---------------------------
(***************************************************************************)
(* src/data/circular_buffer/circular_buffer.c: a ring of pointers with a   *)
(* read and a write index that are equal when it is empty and when it is   *)
(* full, and a flag to tell which.  Any number of threads operate on it;   *)
(* every operation holds _lock from its first to its last access, so one   *)
(* without a loop is a single step here.                                   *)
(***************************************************************************)
EXTENDS Integers, Sequences

CONSTANTS
  Thread,
  Value,      \* the elements pushed
  Length,     \* the size the buffer is constructed with
  Null,       \* what an unused slot holds
  Nothing,    \* the answer of an operation that fails
  Nobody      \* the owner of a free mutex

ASSUME LengthAssumption == Length \in Nat \ {0}
ASSUME ValueAssumption == Null \notin Value /\ Nobody \notin Thread

Slot == 0..Length - 1

VARIABLES
  buf,      \* the structure: full, read, write and _p_data
  owner,    \* of _lock
  pc,       \* thread: which loop it is in, or "idle"
  i, f,     \* thread: the loop's index and first-turn flag
  fn,       \* thread: the function it maps with
  seen,     \* thread: the elements the loop has passed
  answer    \* thread: what its last operation gave it

loopVars == <<i, f, fn, seen>>
vars == <<buf, owner, pc, loopVars, answer>>

-----------------------------------------------------------------------------
(* The structure. *)

Construct ==
  [full |-> FALSE, read |-> 0, write |-> 0, data |-> [s \in Slot |-> Null]]

(* Mutant: take the size for the largest index. *)
Wrap_Long(k) == k % (Length + 1)

Wrap(k) == k % Length

After(s) == Wrap(s + 1)

IsEmpty(b) == ~b.full /\ b.read = b.write

SizeOf(b) ==
  IF b.full THEN Length ELSE Wrap(b.write + Length - b.read)

(* Mutant: the overwritten element stays the oldest. *)
PushTo_KeepRead(b, v) ==
  [full  |-> b.full \/ b.read = After(b.write),
   read  |-> b.read,
   write |-> After(b.write),
   data  |-> [b.data EXCEPT ![b.write] = v]]

(* Store, advance the write index; on overflow advance the read index too. *)
PushTo(b, v) ==
  [full  |-> b.full \/ b.read = After(b.write),
   read  |-> IF b.full THEN After(b.read) ELSE b.read,
   write |-> After(b.write),
   data  |-> [b.data EXCEPT ![b.write] = v]]

PopFrom(b) ==
  [full |-> FALSE, read |-> After(b.read), write |-> b.write, data |-> b.data]

Put(b, s, v) ==
  [full |-> b.full, read |-> b.read, write |-> b.write,
   data |-> [b.data EXCEPT ![s] = v]]

(* The elements, oldest first. *)
Contents(b) == [k \in 1..SizeOf(b) |-> b.data[Wrap(b.read + k - 1)]]

-----------------------------------------------------------------------------
(* Operations that hold the lock for one step. *)

Alone(t) == pc[t] = "idle" /\ owner = Nobody
Return(t, x) == answer' = [answer EXCEPT ![t] = x]

Push(t, v) ==
  /\ Alone(t)
  /\ buf' = PushTo(buf, v)
  /\ Return(t, <<>>)
  /\ UNCHANGED <<owner, pc, loopVars>>

Pop(t) ==
  /\ Alone(t)
  /\ ~IsEmpty(buf)
  /\ buf' = PopFrom(buf)
  /\ Return(t, <<buf.data[buf.read]>>)
  /\ UNCHANGED <<owner, pc, loopVars>>

Peek(t) ==
  /\ Alone(t)
  /\ ~IsEmpty(buf)
  /\ Return(t, <<buf.data[buf.read]>>)
  /\ UNCHANGED <<buf, owner, pc, loopVars>>

(* circular_buffer_pop and _peek of an empty buffer return 0. *)
Fails(t) ==
  /\ Alone(t)
  /\ IsEmpty(buf)
  /\ Return(t, <<Nothing>>)
  /\ UNCHANGED <<buf, owner, pc, loopVars>>

Size(t) ==
  /\ Alone(t)
  /\ Return(t, <<SizeOf(buf)>>)
  /\ UNCHANGED <<buf, owner, pc, loopVars>>

(* circular_buffer_destroy pops every element and releases it; nobody else *)
(* calls the buffer any more.  Then another one is constructed.            *)
Renew(t) ==
  /\ Alone(t)
  /\ Return(t, Contents(buf))
  /\ buf' = Construct
  /\ UNCHANGED <<owner, pc, loopVars>>

-----------------------------------------------------------------------------
(* Operations that loop over the elements: circular_buffer_foreach, _pack  *)
(* and _hash visit, circular_buffer_map replaces.                          *)

(* Mutant: no lock. *)
Enter_Unlocked(t, loop) ==
  /\ pc[t] = "idle"
  /\ pc' = [pc EXCEPT ![t] = loop]
  /\ i' = [i EXCEPT ![t] = buf.read]
  /\ f' = [f EXCEPT ![t] = buf.full]
  /\ seen' = [seen EXCEPT ![t] = <<>>]
  /\ UNCHANGED <<buf, owner, answer>>

Enter(t, loop) ==
  /\ Alone(t)
  /\ owner' = t
  /\ pc' = [pc EXCEPT ![t] = loop]
  /\ i' = [i EXCEPT ![t] = buf.read]
  /\ f' = [f EXCEPT ![t] = buf.full]
  /\ seen' = [seen EXCEPT ![t] = <<>>]
  /\ UNCHANGED <<buf, answer>>

Visit(t) == Enter(t, "visit") /\ UNCHANGED fn

(* What fn is while nothing is mapped. *)
Same == [v \in Value |-> v]

Map(t, g) == Enter(t, "map") /\ fn' = [fn EXCEPT ![t] = g]

More(t) == f[t] \/ i[t] # buf.write

(* Mutant: the index stays. *)
Advance_Still(t) ==
  /\ f' = [f EXCEPT ![t] = FALSE]
  /\ seen' = [seen EXCEPT ![t] = <<buf.data[i[t]]>>]
  /\ UNCHANGED <<owner, pc, i, fn, answer>>

Advance(t) ==
  /\ i' = [i EXCEPT ![t] = After(@)]
  /\ f' = [f EXCEPT ![t] = FALSE]
  /\ seen' = [seen EXCEPT ![t] = Append(@, buf.data[i[t]])]
  /\ UNCHANGED <<owner, pc, fn, answer>>

VisitOne(t) == pc[t] = "visit" /\ More(t) /\ Advance(t) /\ UNCHANGED buf

MapOne(t) ==
  /\ pc[t] = "map"
  /\ More(t)
  /\ Advance(t)
  /\ buf' = Put(buf, i[t], fn[t][buf.data[i[t]]])

(* The loop is over: unlock and return; the locals are gone. *)
Leave(t) ==
  /\ pc[t] # "idle"
  /\ ~More(t)
  /\ Return(t, IF pc[t] = "visit" THEN seen[t] ELSE <<>>)
  /\ pc' = [pc EXCEPT ![t] = "idle"]
  /\ owner' = Nobody
  /\ i' = [i EXCEPT ![t] = 0]
  /\ f' = [f EXCEPT ![t] = FALSE]
  /\ seen' = [seen EXCEPT ![t] = <<>>]
  /\ fn' = [fn EXCEPT ![t] = Same]
  /\ UNCHANGED buf

-----------------------------------------------------------------------------
(* Buffers made from a list: circular_buffer_from_contents pushes each     *)
(* element into a new buffer, and so does circular_buffer_unpack with the  *)
(* elements circular_buffer_pack wrote.                                    *)

(* Mutant: in the order they are needed on a stack. *)
Refill_Reversed(b, s) ==
  LET fill[k \in 0..Len(s)] ==
        IF k = 0 THEN b ELSE PushTo(fill[k - 1], s[Len(s) + 1 - k])
  IN  fill[Len(s)]

Refill(b, s) ==
  LET fill[k \in 0..Len(s)] ==
        IF k = 0 THEN b ELSE PushTo(fill[k - 1], s[k])
  IN  fill[Len(s)]

FromContents(s) == Refill(Construct, s)

(* A buffer from a list has the state its pushes lead to from here. *)
Init ==
  /\ buf = Construct
  /\ owner = Nobody
  /\ pc = [t \in Thread |-> "idle"]
  /\ i = [t \in Thread |-> 0]
  /\ f = [t \in Thread |-> FALSE]
  /\ fn = [t \in Thread |-> Same]
  /\ seen = [t \in Thread |-> <<>>]
  /\ answer = [t \in Thread |-> <<>>]

Next == \E t \in Thread :
  \/ Pop(t) \/ Peek(t) \/ Fails(t) \/ Size(t) \/ Renew(t)
  \/ Visit(t) \/ VisitOne(t) \/ MapOne(t) \/ Leave(t)
  \/ \E v \in Value : Push(t, v)
  \/ \E g \in [Value -> Value] : Map(t, g)

Spec == Init /\ [][Next]_vars

(* A thread inside a loop goes on; nobody is made to call the buffer. *)
FairSpec ==
  Spec /\ \A t \in Thread : WF_vars(VisitOne(t) \/ MapOne(t) \/ Leave(t))

-----------------------------------------------------------------------------
(* What may be relied on. *)

Buffer == [full : BOOLEAN, read : Slot, write : Slot,
           data : [Slot -> Value \cup {Null}]]

Reply == Value \cup 0..Length \cup {Nothing}

TypeOK ==
  /\ buf \in Buffer
  /\ owner \in Thread \cup {Nobody}
  /\ pc \in [Thread -> {"idle", "visit", "map"}]
  /\ i \in [Thread -> Slot]
  /\ f \in [Thread -> BOOLEAN]
  /\ fn \in [Thread -> [Value -> Value]]
  /\ seen \in [Thread -> Seq(Value)]
  /\ answer \in [Thread -> Seq(Reply)]

(* A map in progress has not happened yet for the other threads. *)
Passed == IF owner # Nobody /\ pc[owner] = "map" THEN seen[owner] ELSE <<>>
Items ==
  [k \in 1..SizeOf(buf) |->
     IF k <= Len(Passed) THEN Passed[k] ELSE Contents(buf)[k]]

Abs == INSTANCE AbstractRing WITH items <- Items

(* The buffer is a bounded first-in first-out queue that drops its oldest  *)
(* element on overflow, and every operation, loops over many elements      *)
(* included, takes effect at once: no thread sees a half-done map, and a   *)
(* visit shows the elements of one moment.                                 *)
Implements == Abs!Spec

(* circular_buffer_unpack of what circular_buffer_pack wrote is a buffer   *)
(* with the same elements in the same order, wherever the original's       *)
(* indices had wandered to.                                                *)
RoundTrip == Contents(FromContents(Contents(buf))) = Contents(buf)

(* A loop over the elements ends and releases the lock: its index comes    *)
(* round to the write index.                                               *)
LoopEnds == \A t \in Thread : pc[t] # "idle" ~> owner # t

-----------------------------------------------------------------------------
(* Why they hold: an inductive invariant. *)

(* The flag is set only when the indices meet, and the slots in use hold   *)
(* elements.                                                               *)
RingInv ==
  /\ buf.full => buf.read = buf.write
  /\ \A k \in 1..SizeOf(buf) : Contents(buf)[k] \in Value

(* The thread in a loop holds the lock. *)
OwnerInv == \A t \in Thread : pc[t] # "idle" <=> owner = t

(* It has passed the oldest elements, and its index is at the next; a map  *)
(* has replaced those it passed.                                           *)
LoopInv ==
  \A t \in Thread : pc[t] # "idle" =>
    /\ Len(seen[t]) <= SizeOf(buf)
    /\ i[t] = Wrap(buf.read + Len(seen[t]))
    /\ f[t] <=> buf.full /\ seen[t] = <<>>
    /\ \A k \in 1..Len(seen[t]) :
         Contents(buf)[k] = IF pc[t] = "map" THEN fn[t][seen[t][k]] ELSE seen[t][k]

IInv == TypeOK /\ RingInv /\ OwnerInv /\ LoopInv

=============================================================================
