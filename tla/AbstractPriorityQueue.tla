------------------------- MODULE AbstractPriorityQueue -------------------------
(***************************************************************************)
(* A bag of elements that gives up one that ranks highest.  Elements of    *)
(* equal rank leave in any order.                                          *)
(***************************************************************************)
EXTENDS Integers, Sequences, Bags, Functions

CONSTANTS Element, Rank, Nothing

VARIABLES
  queued,     \* the bag
  capacity,
  answer

vars == <<queued, capacity, answer>>

One(e) == SetToBag({e})

Highest == {e \in BagToSet(queued) : \A x \in BagToSet(queued) : Rank[x] <= Rank[e]}

Init == IsABag(queued) /\ SumFunction(queued) <= capacity /\ answer = <<>>

Enqueue(e) ==
  /\ SumFunction(queued) < capacity
  /\ queued' = queued (+) One(e)
  /\ answer' = <<>>

Dequeue == \E e \in Highest :
  /\ queued' = queued (-) One(e)
  /\ answer' = <<e>>

Max == \E e \in Highest : answer' = <<e>> /\ UNCHANGED queued

(* Exchange an element for one that ranks no lower. *)
Increase(e) == \E x \in BagToSet(queued) :
  /\ Rank[x] <= Rank[e]
  /\ queued' = (queued (-) One(x)) (+) One(e)
  /\ answer' = <<>>

(* Only a full queue, an empty one or a lower rank is refused. *)
Fails ==
  /\ \/ SumFunction(queued) = capacity
     \/ queued = EmptyBag
     \/ \E e \in Element, x \in BagToSet(queued) : Rank[x] > Rank[e]
  /\ answer' = Nothing
  /\ UNCHANGED queued

Empty == answer' = <<queued = EmptyBag>> /\ UNCHANGED queued

(* An empty queue takes its place. *)
Renew == queued' = EmptyBag /\ answer' = <<"released", <<>>>>

Next ==
  /\ Dequeue \/ Max \/ Fails \/ Empty \/ Renew \/ \E e \in Element : Enqueue(e) \/ Increase(e)
  /\ UNCHANGED capacity

Spec == Init /\ [][Next]_vars

=============================================================================
