--------------------------- MODULE AbstractSequence ---------------------------
(***************************************************************************)
(* Elements in a row.  A queue of src/data promises its callers FifoNext,  *)
(* a stack LifoNext, a double ended queue DequeNext: they are used from    *)
(* the ends, and a call fails only where there is no element or no room.   *)
(* An array promises ArrayNext: its elements are used by signed indices,   *)
(* -1 the last and -Length the first, and it grows.  A cache promises      *)
(* LruNext: its elements have different keys, and the one used last stands *)
(* in front.                                                               *)
(***************************************************************************)
EXTENDS Integers, Sequences, FiniteSets

CONSTANTS Element, Key, KeyOf, Rank, Transform, Null, Nothing

VARIABLES
  items,
  capacity,   \* how many elements there is room for
  answer

vars == <<items, capacity, answer>>

Init == items \in Seq(Element) /\ Len(items) <= capacity /\ answer = <<>>

HasRoom == Len(items) < capacity

AddRear(e)  == HasRoom /\ items' = Append(items, e) /\ answer' = <<>>
AddFront(e) == HasRoom /\ items' = <<e>> \o items   /\ answer' = <<>>

(* Front and rear elements, when there are any. *)
First == items[1]
Last  == items[Len(items)]

RemoveFront ==
  /\ items # <<>>
  /\ items' = Tail(items)
  /\ answer' = <<First>>

RemoveRear ==
  /\ items # <<>>
  /\ items' = SubSeq(items, 1, Len(items) - 1)
  /\ answer' = <<Last>>

SeeFront == items # <<>> /\ answer' = <<First>> /\ UNCHANGED items
SeeRear  == items # <<>> /\ answer' = <<Last>>  /\ UNCHANGED items

(* Who is there an odd number of times. *)
Odd ==
  {e \in Element : Cardinality({i \in DOMAIN items : items[i] = e}) % 2 = 1}

(* All elements in a fixed order, a failed call, the state in numbers. *)
SeeAll  == answer' = <<"all", items>> /\ UNCHANGED items
Fails   == (items = <<>> \/ ~HasRoom) /\ answer' = Nothing /\ UNCHANGED items
Hash    == answer' = <<"hash", Odd>> /\ UNCHANGED items
IsEmpty == answer' = <<items = <<>>>> /\ UNCHANGED items
Count   == answer' = <<Len(items)>> /\ UNCHANGED items

Map(g) ==
  /\ items' = [i \in 1..Len(items) |-> g[items[i]]]
  /\ answer' = <<>>

-----------------------------------------------------------------------------
(* By index. *)

Length == Len(items)

(* The signed indices an element has: -1 is the last, -Length the first. *)
Index == -Length..Length - 1

Place(i) == IF i >= 0 THEN i + 1 ELSE Length + i + 1

Get(i) == answer' = <<"at", i, items[Place(i)]>> /\ UNCHANGED items

(* The first indices that no element has. *)
Outside == {-Length - 1, Length}

Refuses(i) == answer' = <<"refused", i>> /\ UNCHANGED items

Set(i, e) == items' = [items EXCEPT ![Place(i)] = e] /\ answer' = <<"set", i, e>>

(* What is left without place p. *)
Without(p) == SubSeq(items, 1, p - 1) \o SubSeq(items, p + 1, Length)

Remove(i) ==
  /\ answer' = <<"removed", i, items[Place(i)]>>
  /\ items' = Without(Place(i))

(* The same elements in an order the comparator agrees with. *)
Sort ==
  /\ \E p \in [1..Length -> 1..Length] :
       /\ \A i, j \in 1..Length : i < j => p[i] # p[j] /\ Rank[items[p[i]]] <= Rank[items[p[j]]]
       /\ items' = [i \in 1..Length |-> items[p[i]]]
  /\ answer' = <<>>

(* From one place to another, both included. *)
Slice(m, n) ==
  /\ answer' = <<"slice", m, n, SubSeq(items, m + 1, n + 1)>>
  /\ UNCHANGED items

-----------------------------------------------------------------------------
(* By key. *)

With(k) == {p \in 1..Length : KeyOf[items[p]] = k}

FindKey(k) == \E p \in With(k) : items' = <<items[p]>> \o Without(p) /\ answer' = <<items[p]>>

PeekKey(k) == \E p \in With(k) : answer' = <<items[p]>> /\ UNCHANGED items

MissesKey(k) == With(k) = {} /\ answer' = Nothing /\ UNCHANGED items

RemoveKey(k) == \E p \in With(k) : items' = Without(p) /\ answer' = <<items[p]>>

ReplaceKey(e) == \E p \in With(KeyOf[e]) : items' = <<e>> \o Without(p) /\ answer' = <<>>

(* What does not fit any more is what was used least recently. *)
InsertKey(e) ==
  /\ With(KeyOf[e]) = {}
  /\ items' = IF HasRoom THEN <<e>> \o items ELSE <<e>> \o SubSeq(items, 1, Length - 1)
  /\ answer' = <<>>

-----------------------------------------------------------------------------

(* An empty one takes its place; released is what goes to the allocator.   *)
Renew(released) == items' = <<>> /\ answer' = <<"released", released>>

FifoNext ==
  /\ \/ \E e \in Element : AddRear(e)
     \/ RemoveFront \/ SeeFront \/ SeeRear \/ SeeAll \/ Fails \/ IsEmpty
     \/ Hash \/ Renew(<<>>)
  /\ UNCHANGED capacity

LifoNext ==
  /\ \/ \E e \in Element : AddRear(e)
     \/ RemoveRear \/ SeeRear \/ SeeAll \/ Fails \/ IsEmpty
     \/ Hash \/ Renew(<<>>)
  /\ UNCHANGED capacity

DequeNext ==
  /\ \/ \E e \in Element : AddRear(e) \/ AddFront(e)
     \/ \E g \in Transform : Map(g)
     \/ RemoveFront \/ RemoveRear \/ SeeFront \/ SeeRear \/ SeeAll \/ Fails \/ Count
     \/ Hash \/ Renew(items)
  /\ UNCHANGED capacity

ArrayNext ==
  \/ \E i \in Index : Get(i) \/ Remove(i) \/ \E e \in Element : Set(i, e)
  \/ \E e \in Element : AddRear(e)
  \/ \E g \in Transform : Map(g)
  \/ \E i \in Outside : Refuses(i)
  \/ \E m \in 0..Length - 1 : \E n \in m..Length - 1 : Slice(m, n)
  \/ Sort \/ Count \/ SeeAll \/ Hash \/ Renew(items)

LruNext ==
  /\ \/ \E k \in Key : FindKey(k) \/ PeekKey(k) \/ MissesKey(k) \/ RemoveKey(k)
     \/ \E e \in Element : ReplaceKey(e) \/ InsertKey(e)
     \/ \E g \in Transform : Map(g)
     \/ SeeAll \/ Count \/ Hash \/ Renew(<<>>) \/ Renew(items)
  /\ UNCHANGED capacity

=============================================================================
