----------------------------- MODULE DoubleQueue -----------------------------
(***************************************************************************)
(* src/data/double_queue/double_queue.c.  An addition that gets no memory  *)
(* returns with the mutex taken, and no operation that takes it comes back *)
(* after that.                                                             *)
(***************************************************************************)
EXTENDS LinkedList

VARIABLES queue, locked, answer

vars == <<queue, locked, answer>>

(* The mirror image of LinkRear: add node f with element e in front. *)
LinkFront(l, f, e) ==
  IF l.front = Null
  THEN [l EXCEPT !.front = f, !.rear = f, !.size = @ + 1, !.node[f] = New(e)]
  ELSE LET q == End(l, l.front, "prev")
       IN  [l EXCEPT !.front = f, !.size = @ + 1,
                     !.node = [@ EXCEPT ![q].prev = f,
                                        ![f] = [New(e) EXCEPT !.next = q]]]

UnlinkFront(l) ==
  LET f == l.front
      n == l.node[f].next
  IN  IF f # l.rear
      THEN [l EXCEPT !.front = n, !.size = @ - 1,
                     !.node = [@ EXCEPT ![n].prev = Null, ![f] = Unallocated]]
      ELSE [l EXCEPT !.front = Null, !.rear = Null, !.size = @ - 1, !.node[f] = Unallocated]

(* Mutant: the new rear keeps its way on to the released node. *)
UnlinkRear_KeepsNext(l) ==
  LET r == l.rear
  IN  IF r # l.front
      THEN [l EXCEPT !.rear = l.node[r].prev, !.size = @ - 1, !.node[r] = Unallocated]
      ELSE [l EXCEPT !.front = Null, !.rear = Null, !.size = @ - 1, !.node[r] = Unallocated]

UnlinkRear(l) ==
  LET r == l.rear
      p == l.node[r].prev
  IN  IF r # l.front
      THEN [l EXCEPT !.rear = p, !.size = @ - 1,
                     !.node = [@ EXCEPT ![p].next = Null, ![r] = Unallocated]]
      ELSE [l EXCEPT !.front = Null, !.rear = Null, !.size = @ - 1, !.node[r] = Unallocated]

-----------------------------------------------------------------------------
(* Operations. *)

FrontAdd(e) ==
  /\ ~locked
  /\ Spare(queue) # {}
  /\ queue' = LinkFront(queue, Fresh(queue), e)
  /\ answer' = <<>>
  /\ UNCHANGED locked

RearAdd(e) ==
  /\ ~locked
  /\ Spare(queue) # {}
  /\ queue' = LinkRear(queue, Fresh(queue), e)
  /\ answer' = <<>>
  /\ UNCHANGED locked

NoMemory ==
  /\ ~locked
  /\ Spare(queue) = {}
  /\ locked' = TRUE
  /\ answer' = Nothing
  /\ UNCHANGED queue

FrontRemove ==
  /\ ~locked
  /\ queue.front # Null
  /\ queue' = UnlinkFront(queue)
  /\ answer' = <<queue.node[queue.front].content>>
  /\ UNCHANGED locked

RearRemove ==
  /\ ~locked
  /\ queue.rear # Null
  /\ queue' = UnlinkRear(queue)
  /\ answer' = <<queue.node[queue.rear].content>>
  /\ UNCHANGED locked

See ==
  /\ ~locked
  /\ queue.front # Null
  /\ answer' \in {<<queue.node[queue.front].content>>, <<queue.node[queue.rear].content>>}
  /\ UNCHANGED <<queue, locked>>

Hash(l) == Hashed(Contents(l))

SeeAll ==
  /\ ~locked
  /\ answer' \in {<<"all", Contents(queue)>>, <<"hash", Hash(queue)>>}
  /\ UNCHANGED <<queue, locked>>

(* double_queue_destroy, and double_queue_construct.                       *)
Renew ==
  /\ ~locked
  /\ queue' = Empty
  /\ answer' = <<"released", Contents(queue)>>
  /\ UNCHANGED locked

(* double_queue_map: each content replaced by its image. *)
Map(g) ==
  /\ ~locked
  /\ queue' = [queue EXCEPT !.node =
       [n \in Id |-> IF n \in Range(Walk(queue, queue.front, "next"))
                     THEN [queue.node[n] EXCEPT !.content = g[@]] ELSE queue.node[n]]]
  /\ answer' = <<>>
  /\ UNCHANGED locked

EmptyFails ==
  /\ ~locked
  /\ queue.front = Null
  /\ answer' = Nothing
  /\ UNCHANGED <<queue, locked>>

(* double_queue_size reads without the mutex. *)
Count == answer' = <<queue.size>> /\ UNCHANGED <<queue, locked>>

Pack(l) == [size |-> l.size, body |-> Contents(l)]

(* Each element is added in front of those read before it. *)
Unpack(p) ==
  Through(LAMBDA l, i : LinkFront(l, i, p.body[i]), Empty, [i \in 1..p.size |-> i])

Init == queue = Empty /\ locked = FALSE /\ answer = <<>>

Next ==
  \/ \E e \in Element : FrontAdd(e) \/ RearAdd(e)
  \/ \E g \in Transform : Map(g)
  \/ NoMemory \/ FrontRemove \/ RearRemove
  \/ See \/ SeeAll \/ EmptyFails \/ Count \/ Renew

Spec == Init /\ [][Next]_vars

-----------------------------------------------------------------------------
(* What may be relied on. *)

TypeOK == queue \in List /\ locked \in BOOLEAN

(* From either end the same nodes are met in opposite orders, and the ways *)
(* end at the other: all that are allocated, as many as size says.         *)
LinkedBothWays ==
  LET w == Walk(queue, queue.front, "next")
  IN  /\ Walk(queue, queue.rear, "prev") = Backwards(w)
      /\ Range(w) = Id \ Spare(queue)
      /\ queue.size = Len(w)
      /\ IsInjective(w)
      /\ w # <<>> => queue.node[queue.rear].next = Null /\ queue.node[queue.front].prev = Null

Abs == INSTANCE AbstractSequence WITH items <- Contents(queue), capacity <- Nodes

(* A double ended queue that is packed and unpacked comes out reversed.    *)
RoundTripReverses == Contents(Unpack(Pack(queue))) = Backwards(Contents(queue))

=============================================================================
