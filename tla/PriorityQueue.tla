---------------------------- MODULE PriorityQueue ----------------------------
(***************************************************************************)
(* src/data/priority_queue/priority_queue.c: a binary heap in an array.    *)
(* enqueue, dequeue and empty take the mutex; max, extract_max, insert and *)
(* increase_key, public too, do not.  An enqueue or a dequeue that fails   *)
(* returns with the mutex taken.                                           *)
(***************************************************************************)
EXTENDS Container

VARIABLES
  queue,      \* entries.max, .count and .data, and whether _lock is taken
  pc,         \* pc[t]: the locking operation thread t has called, or "idle"
  answer

vars == <<queue, pc, answer>>

Construct(n) ==
  [max |-> n, count |-> 0, data |-> [s \in Slot |-> Null], locked |-> FALSE]

INSTANCE Heap   \* the heap itself

FromKeys(s) ==
  [max |-> Len(s), count |-> Len(s), locked |-> FALSE,
   data |-> BuildMaxHeap([x \in Slot |-> IF x < Len(s) THEN s[x + 1] ELSE Null], Len(s))]

-----------------------------------------------------------------------------
(* Operations that take the mutex. *)

Call(t, op) ==
  /\ pc[t] = "idle"
  /\ pc' = [pc EXCEPT ![t] = op]
  /\ UNCHANGED <<queue, answer>>

Locks(t, op) == pc[t] = op /\ ~queue.locked
Return(t, x) == pc' = [pc EXCEPT ![t] = "idle"] /\ answer' = x

Enqueue(t, e) ==
  /\ Locks(t, "enqueue")
  /\ queue.count < queue.max
  /\ queue' = Inserted(queue, e)
  /\ Return(t, <<>>)

Dequeue(t) ==
  /\ Locks(t, "dequeue")
  /\ queue.count # 0
  /\ queue' = Extracted(queue)
  /\ Return(t, <<queue.data[0]>>)

(* The error paths jump past the unlock. *)
Leaks(t) ==
  /\ \/ Locks(t, "enqueue") /\ queue.count >= queue.max
     \/ Locks(t, "dequeue") /\ queue.count = 0
  /\ queue' = [queue EXCEPT !.locked = TRUE]
  /\ Return(t, Nothing)

Empty(t) ==
  /\ Locks(t, "empty")
  /\ Return(t, <<queue.count = 0>>)
  /\ UNCHANGED queue

-----------------------------------------------------------------------------
(* Operations that do not.  Each is one step here, which is what a caller  *)
(* gets who keeps other threads from the queue.                            *)

Max ==
  /\ answer' = IF queue.count = 0 THEN Nothing ELSE <<queue.data[0]>>
  /\ UNCHANGED <<queue, pc>>

Insert(e) ==
  /\ queue.count < queue.max
  /\ queue' = Inserted(queue, e)
  /\ answer' = <<>>
  /\ UNCHANGED pc

ExtractMax ==
  /\ queue.count # 0
  /\ queue' = Extracted(queue)
  /\ answer' = <<queue.data[0]>>
  /\ UNCHANGED pc

(* insert into a full queue, extract_max from an empty one. *)
Refuses ==
  /\ queue.count >= queue.max \/ queue.count = 0
  /\ answer' = Nothing
  /\ UNCHANGED <<queue, pc>>

IncreaseKey(i, e) ==
  /\ queue' = IF Rank[e] < Rank[queue.data[i]] THEN queue
              ELSE [queue EXCEPT !.data = Raise(@, queue.count, i, e)]
  /\ answer' = IF Rank[e] < Rank[queue.data[i]] THEN Nothing ELSE <<>>
  /\ UNCHANGED pc

(* priority_queue_destroy, which does not ask for the mutex, when no thread *)
(* is inside, and priority_queue_construct for one of the same size.  The   *)
(* elements are not released.                                               *)
Renew ==
  /\ \A t \in Thread : pc[t] = "idle"
  /\ queue' = Construct(queue.max)
  /\ answer' = <<"released", <<>>>>
  /\ UNCHANGED pc

Init ==
  /\ queue \in {Construct(Size)} \cup {FromKeys(s) : s \in [1..Size -> Element]}
  /\ pc = [t \in Thread |-> "idle"]
  /\ answer = <<>>

Next ==
  \/ \E t \in Thread :
       \/ \E op \in {"enqueue", "dequeue", "empty"} : Call(t, op)
       \/ \E e \in Element : Enqueue(t, e)
       \/ Dequeue(t) \/ Leaks(t) \/ Empty(t)
  \/ Max \/ ExtractMax \/ Refuses \/ Renew
  \/ \E e \in Element : Insert(e) \/ \E i \in 0..queue.count - 1 : IncreaseKey(i, e)

Spec == Init /\ [][Next]_vars

-----------------------------------------------------------------------------
(* What may be relied on. *)

TypeOK ==
  /\ queue \in [max : 1..Size, count : 0..Size, data : [Slot -> Element \cup {Null}],
                locked : BOOLEAN]
  /\ queue.count <= queue.max
  /\ pc \in [Thread -> {"idle", "enqueue", "dequeue", "empty"}]

(* No element ranks above its parent, and there are no elements but the    *)
(* first count.                                                            *)
HeapOrder ==
  /\ \A i \in 1..queue.count - 1 : Rank[queue.data[Parent(i)]] >= Rank[queue.data[i]]
  /\ \A i \in Slot : queue.data[i] = Null <=> i >= queue.count

InUse == {queue.data[i] : i \in 0..queue.count - 1}
Bag == [e \in InUse |-> Cardinality({i \in 0..queue.count - 1 : queue.data[i] = e})]

Abs == INSTANCE AbstractPriorityQueue WITH queued <- Bag, capacity <- queue.max

=============================================================================
