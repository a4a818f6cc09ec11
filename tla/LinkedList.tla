------------------------------ MODULE LinkedList ------------------------------
(***************************************************************************)
(* The nodes that queue.c and double_queue.c link in both directions.  A   *)
(* structure is a record of front, rear, size and node; node[n] is the     *)
(* memory of node n, and live says whether the allocator has given it out. *)
(* The allocator has Nodes of them to give.                                *)
(***************************************************************************)
EXTENDS Container

Id == 1..Nodes

Unallocated == [live |-> FALSE, content |-> Null, prev |-> Null, next |-> Null]

Empty == [front |-> Null, rear |-> Null, size |-> 0,
          node |-> [n \in Id |-> Unallocated]]

Spare(l) == {n \in Id : ~l.node[n].live}

(* Nodes differ in their address only, so it does not matter which of the  *)
(* spare ones the allocator gives out.                                     *)
Fresh(l) == CHOOSE n \in Spare(l) : \A m \in Spare(l) : n <= m

(* The nodes met from n, following prev or next; behind the last there are *)
(* only null pointers.                                                     *)
Walk(l, n, link) ==
  LET After == [m \in Id \cup {Null} |-> IF m = Null THEN Null ELSE l.node[m][link]]
      met[k \in Id] == IF k = 1 THEN n ELSE After[met[k - 1]]
  IN  SubSeq(met, 1, Cardinality({k \in Id : met[k] # Null}))

End(l, n, link) == LET w == Walk(l, n, link) IN w[Len(w)]

Contents(l) ==
  LET w == Walk(l, l.front, "next") IN [i \in 1..Len(w) |-> l.node[w[i]].content]

New(e) == [live |-> TRUE, content |-> e, prev |-> Null, next |-> Null]

(* Mutant: rear stays. *)
LinkRear_KeepsRear(l, r, e) ==
  IF l.rear = Null
  THEN [l EXCEPT !.front = r, !.rear = r, !.size = @ + 1, !.node[r] = New(e)]
  ELSE LET q == End(l, l.rear, "next")
       IN  [l EXCEPT !.size = @ + 1,
                     !.node = [@ EXCEPT ![q].next = r,
                                        ![r] = [New(e) EXCEPT !.prev = q]]]

(* Add node r with element e behind the last node. *)
LinkRear(l, r, e) ==
  IF l.rear = Null
  THEN [l EXCEPT !.front = r, !.rear = r, !.size = @ + 1, !.node[r] = New(e)]
  ELSE LET q == End(l, l.rear, "next")
       IN  [l EXCEPT !.rear = r, !.size = @ + 1,
                     !.node = [@ EXCEPT ![q].next = r,
                                        ![r] = [New(e) EXCEPT !.prev = q]]]

List ==
  [front : Id \cup {Null}, rear : Id \cup {Null}, size : Nat,
   node : [Id -> [live : BOOLEAN, content : Element \cup {Null},
                  prev : Id \cup {Null}, next : Id \cup {Null}]]]

=============================================================================
