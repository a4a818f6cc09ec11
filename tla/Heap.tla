-------------------------------- MODULE Heap --------------------------------
(***************************************************************************)
(* src/data/priority_queue/priority_queue.c without the mutex: a binary    *)
(* heap whose elements stand at 0 .. count - 1 of a function "data".  The  *)
(* priority queue and the graph algorithms that keep a queue of vertices   *)
(* are built on it.                                                        *)
(***************************************************************************)
EXTENDS Integers

CONSTANTS
  Rank,   \* Rank[e]: where e stands in the queue's order
  Null    \* what is in a place that holds no element

Parent(i) == (i - 1) \div 2
Left(i)   == 2 * i + 1
Right(i)  == 2 * i + 2

Swap(d, i, j) == [d EXCEPT ![i] = d[j], ![j] = d[i]]

(* Mutant: compare the right child with its parent only. *)
Largest_RightFirst(d, n, i) ==
  IF Right(i) < n /\ Rank[d[Right(i)]] > Rank[d[i]] THEN Right(i)
  ELSE IF Left(i) < n /\ Rank[d[Left(i)]] > Rank[d[i]] THEN Left(i) ELSE i

(* i or the child that ranks above it, the higher of the two. *)
Largest(d, n, i) ==
  LET l == IF Left(i) < n /\ Rank[d[Left(i)]] > Rank[d[i]] THEN Left(i) ELSE i
  IN  IF Right(i) < n /\ Rank[d[Right(i)]] > Rank[d[l]] THEN Right(i) ELSE l

(* Mutant: exchange once and go no further down. *)
Heapify_Once(d, n, i) == Swap(d, i, Largest(d, n, i))

(* Sink the element at i below those that rank above it. *)
Heapify(d, n, i) ==
  LET sink[k \in 0..n] ==
        IF k = 0 THEN <<d, i>>
        ELSE LET at == sink[k - 1]
                 l  == Largest(at[1], n, at[2])
             IN  <<Swap(at[1], at[2], l), l>>
  IN  sink[n][1]

(* From the last parent to the root. *)
BuildMaxHeap(d, n) ==
  LET built[k \in 0..n \div 2] ==
        IF k = 0 THEN d ELSE Heapify(built[k - 1], n, (n \div 2) - k)
  IN  built[n \div 2]

(* Put e in place of what is at i and raise it above those that rank lower. *)
Raise(d, n, i, e) ==
  LET climb[k \in 0..n] ==
        IF k = 0 THEN <<[d EXCEPT ![i] = e], i>>
        ELSE LET at == climb[k - 1]
                 p  == Parent(at[2])
             IN  IF at[2] > 0 /\ Rank[at[1][p]] < Rank[at[1][at[2]]]
                 THEN <<Swap(at[1], at[2], p), p>> ELSE at
  IN  climb[n][1]

Inserted(q, e) ==
  [q EXCEPT !.count = @ + 1, !.data = Raise(@, q.count + 1, q.count, e)]

(* The last element takes the place of the first. *)
Extracted(q) ==
  LET n == q.count - 1
  IN  [q EXCEPT !.count = n,
                !.data = Heapify([[@ EXCEPT ![0] = q.data[n]] EXCEPT ![n] = Null], n, 0)]

=============================================================================
