----------------------------- MODULE BinaryTree -----------------------------
(***************************************************************************)
(* src/data/binary/binary.c: a search tree that is not balanced.  It may   *)
(* be built in one go, balanced, from sorted values.                       *)
(***************************************************************************)
EXTENDS TreeNode

Construct == [root |-> Null, quantity |-> 0, alive |-> TRUE]

(* A new node of a tree that counts q; the tag is not used. *)
NodeCreate(v, q) == Node(v, 0, q, Null, Null)

(* The tree of pp_values[start] to pp_values[end], both included. *)
RECURSIVE Balanced(_, _, _)
Balanced(pp_values, start, end) ==
  LET median == (start + end) \div 2
      leaf == NodeCreate(pp_values[start], 0)
  IN  IF start = end THEN leaf
      ELSE IF end - start = 1 THEN Node(pp_values[end], 0, 0, leaf, Null)
      ELSE Node(pp_values[median], 0, 0, Balanced(pp_values, start, median - 1),
                                         Balanced(pp_values, median + 1, end))

(* The quantity stays 0.  The last place read is the one behind the list.  *)
ConstructBalanced(pp_values, property_quantity) ==
  [Construct EXCEPT !.root = Balanced(pp_values, 0, property_quantity)]

(* A value with a key that is there changes nothing; q is what the tree    *)
(* counts.                                                                 *)
RECURSIVE Inserted(_, _, _)
Inserted(n, v, q) ==
  IF n = Null THEN NodeCreate(v, q)
  ELSE IF Compare(n.value, RankOf[v]) < 0 THEN [n EXCEPT !.left = Inserted(@, v, q)]
  ELSE IF Compare(n.value, RankOf[v]) > 0 THEN [n EXCEPT !.right = Inserted(@, v, q)]
  ELSE n

(* Without its leftmost node, whose right child takes its place. *)
RECURSIVE Beheaded(_)
Beheaded(n) == IF n.left = Null THEN n.right ELSE [n EXCEPT !.left = Beheaded(@)]


(* A node with two children takes the value of its successor, which goes   *)
(* instead.                                                                *)
RECURSIVE Removed(_, _)
Removed(n, k) ==
  IF Compare(n.value, k) < 0 THEN [n EXCEPT !.left = Removed(@, k)]
  ELSE IF Compare(n.value, k) > 0 THEN [n EXCEPT !.right = Removed(@, k)]
  ELSE IF n.left = Null THEN n.right
  ELSE IF n.right = Null THEN n.left
  ELSE [n EXCEPT !.value = Leftmost(n.right), !.right = Beheaded(@)]

-----------------------------------------------------------------------------
(* Operations. *)

Search(t) == EndSearch(t, tree.root) \/ \E k \in TreeKey : StartSearch(t, k)

IsEmpty == See(<<"empty", tree.quantity = 0>>)
Count   == See(<<"count", tree.quantity>>)

(* Bound: one node at a time has the sentinel for its node_pointer. *)
Insert(v) ==
  /\ tree.alive /\ Countable
  /\ tree.quantity = Sentinel => \A n \in Below(tree.root) : n.pointer # Sentinel
  /\ tree' = [tree EXCEPT !.root = Inserted(@, v, tree.quantity), !.quantity = (@ + 1) % Word]
  /\ answer' = <<>>
  /\ UNCHANGED pc

Remove(k) ==
  /\ tree.alive
  /\ answer' = Lookup(tree.root, k)
  /\ tree' = IF answer' = Nothing THEN tree
             ELSE [tree EXCEPT !.root = Removed(@, k), !.quantity = (@ - 1) % Word]
  /\ UNCHANGED pc

TraversePreorder(t)  == Walk(t, "pre", Preorder(tree.root))
TraverseInorder(t)   == Walk(t, "in", Inorder(tree.root))
TraversePostorder(t) == Walk(t, "post", Postorder(tree.root))
ForContext(t)        == Walk(t, "context", Inorder(tree.root))

Hash == See(TreeHash(tree.root))

Destroy == Release([tree EXCEPT !.root = Null], tree.root)

(* A tree without a node cannot be packed: its root is not looked at. *)
Pack(t) == [quantity |-> t.quantity, nodes |-> PackNode(t.root)]

Unpack(p) == [Construct EXCEPT !.root = UnpackNode(p.nodes)[1], !.quantity = p.quantity]

(* Empty, or balanced.  There is a tree to use only when one more value,   *)
(* with a greater key, lies behind the list given to the constructor: what *)
(* else is read from there ("alive" is FALSE) nothing is said of.  The     *)
(* balanced constructor does not create the mutex but leaves it zeroed,    *)
(* which pthreads on Linux takes for an open one.                          *)
Init ==
  /\ \/ tree = Construct
     \/ tree = [Construct EXCEPT !.alive = FALSE]
     \/ \E property_quantity \in 0..Cardinality(TreeKey) - 1 :
          \E pp_values \in [0..property_quantity -> TreeValue] :
            /\ \A i \in 1..property_quantity : RankOf[pp_values[i - 1]] < RankOf[pp_values[i]]
            /\ tree = ConstructBalanced(pp_values, property_quantity)
  /\ Unused

Next ==
  \/ \E t \in Searcher :
       \/ Search(t)
       \/ TraversePreorder(t) \/ TraverseInorder(t) \/ TraversePostorder(t) \/ ForContext(t)
  \/ \E v \in TreeValue : Insert(v)
  \/ \E k \in TreeKey : Remove(k)
  \/ IsEmpty \/ Count \/ Hash \/ Destroy

Spec == Init /\ [][Next]_vars

-----------------------------------------------------------------------------
(* What may be relied on. *)

TypeOK ==
  /\ CommonTypeOK
  /\ \A n \in Below(tree.root) : n.value \in TreeValue /\ n.tag = 0 /\ n.pointer \in {0, Sentinel}

(* Keys increase from left to right.                                       *)
Sound == Increasing(Inorder(tree.root))

=============================================================================
