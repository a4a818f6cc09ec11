-------------------------------- MODULE Queue --------------------------------
(***************************************************************************)
(* src/data/queue/queue.c.                                                 *)
(***************************************************************************)
EXTENDS LinkedList

VARIABLES queue, answer

vars == <<queue, answer>>

(* queue_construct, and queue_from_contents, which enqueues each element. *)
FromContents(s) == Through(LAMBDA l, i : LinkRear(l, i, s[i]), Empty, [i \in DOMAIN s |-> i])

(* Take the front node out and release it; size and the new front's prev   *)
(* stay as they are.                                                       *)
Unlink(l) ==
  LET f == l.front
  IN  IF f # l.rear
      THEN [l EXCEPT !.front = l.node[f].next, !.node[f] = Unallocated]
      ELSE [l EXCEPT !.front = Null, !.rear = Null, !.node[f] = Unallocated]

Enqueue(e) ==
  /\ Spare(queue) # {}
  /\ queue' = LinkRear(queue, Fresh(queue), e)
  /\ answer' = <<>>

NoMemory ==
  /\ Spare(queue) = {}
  /\ answer' = Nothing
  /\ UNCHANGED queue

Dequeue ==
  /\ queue.front # Null
  /\ queue' = Unlink(queue)
  /\ answer' = <<queue.node[queue.front].content>>

See ==
  /\ queue.front # Null
  /\ answer' \in {<<queue.node[queue.front].content>>, <<queue.node[queue.rear].content>>}
  /\ UNCHANGED queue

Hash(l) == Hashed(Contents(l))

(* queue_fori and queue_hash. *)
SeeAll ==
  /\ answer' \in {<<"all", Contents(queue)>>, <<"hash", Hash(queue)>>}
  /\ UNCHANGED queue

(* queue_destroy releases neither elements nor nodes; another queue is     *)
(* constructed.                                                            *)
Renew ==
  /\ queue' = Empty
  /\ answer' = <<"released", <<>>>>

Pack(l) == [size |-> l.size, body |-> Contents(l)]

(* As many elements are read as size says.  Where it says more than there  *)
(* are the reading goes on behind the packed form.                         *)
Unpack(p) == IF p.size > Len(p.body) THEN Nothing ELSE FromContents(SubSeq(p.body, 1, p.size))

(* queue_empty. *)
IsEmpty == answer' = <<queue.front = Null>> /\ UNCHANGED queue

EmptyFails ==
  /\ queue.front = Null
  /\ answer' = Nothing
  /\ UNCHANGED queue

(* size is not counted down, and nothing but its readers depends on it:    *)
(* the model stops adding when it is one more than there are nodes.        *)
SizeBound == queue.size <= Nodes

(* A queue from a list has the state its additions lead to from here. *)
Init == queue = Empty /\ answer = <<>>

Next ==
  \/ \E e \in Element : SizeBound /\ Enqueue(e)
  \/ NoMemory \/ Dequeue \/ See \/ SeeAll \/ EmptyFails \/ IsEmpty \/ Renew

Spec == Init /\ [][Next]_vars

-----------------------------------------------------------------------------
(* What may be relied on. *)

TypeOK == queue \in List

(* From the front every node but released ones is met, and the rear last,  *)
(* where the way ends: nothing is lost, nothing is met twice, released     *)
(* memory never.                                                           *)
Linked ==
  LET w == Walk(queue, queue.front, "next")
  IN  /\ Range(w) = Id \ Spare(queue)
      /\ IsInjective(w)
      /\ queue.rear = IF w = <<>> THEN Null ELSE w[Len(w)]
      /\ w # <<>> => queue.node[queue.rear].next = Null

(* A queue out of which nothing was taken is unpacked as it was packed.    *)
RoundTrip == queue.size = Len(Contents(queue)) => Contents(Unpack(Pack(queue))) = Contents(queue)

Abs == INSTANCE AbstractSequence WITH items <- Contents(queue), capacity <- Nodes

=============================================================================
