------------------------------- MODULE AvlTree -------------------------------
(***************************************************************************)
(* src/data/avl/avl.c: a search tree whose subtrees differ in height by at *)
(* most one.  A node's tag is its height.                                  *)
(***************************************************************************)
EXTENDS TreeNode

Construct == [root |-> Null, quantity |-> 0, alive |-> TRUE]

-----------------------------------------------------------------------------
(* Nodes. *)

Height(n) == IF n = Null THEN 0 ELSE n.tag

(* A new node of a tree that counts q. *)
NodeCreate(v, q) == Node(v, 1, q, Null, Null)

(* The node with these children and the height they give it. *)
UpdateHeight(n, l, r) ==
  [n EXCEPT !.tag = 1 + (IF Height(l) > Height(r) THEN Height(l) ELSE Height(r)),
            !.left = l, !.right = r]

BalanceFactor(n) == Height(n.left) - Height(n.right)

RightRotate(y) ==
  UpdateHeight(y.left, y.left.left, UpdateHeight(y, y.left.right, y.right))

LeftRotate(x) ==
  UpdateHeight(x.right, UpdateHeight(x, x.left, x.right.left), x.right.right)

(* Mutant: single rotations only. *)
Rebalance_Single(node) ==
  LET n == UpdateHeight(node, node.left, node.right)
  IN  IF BalanceFactor(n) > 1 THEN RightRotate(n)
      ELSE IF BalanceFactor(n) < -1 THEN LeftRotate(n) ELSE n

(* A subtree that leans the other way is rotated first. *)
Rebalance(node) ==
  LET n == UpdateHeight(node, node.left, node.right)
      l == IF BalanceFactor(n.left) < 0 THEN LeftRotate(n.left) ELSE n.left
      r == IF BalanceFactor(n.right) > 0 THEN RightRotate(n.right) ELSE n.right
  IN  IF BalanceFactor(n) > 1 THEN RightRotate([n EXCEPT !.left = l])
      ELSE IF BalanceFactor(n) < -1 THEN LeftRotate([n EXCEPT !.right = r]) ELSE n

(* A value with a key that is there changes nothing; q is what the tree    *)
(* counts.                                                                 *)
RECURSIVE Inserted(_, _, _)
Inserted(n, v, q) ==
  IF n = Null THEN NodeCreate(v, q)
  ELSE IF Compare(n.value, RankOf[v]) < 0 THEN Rebalance([n EXCEPT !.left = Inserted(@, v, q)])
  ELSE IF Compare(n.value, RankOf[v]) > 0 THEN Rebalance([n EXCEPT !.right = Inserted(@, v, q)])
  ELSE n

(* A node with two children takes the value of the leftmost one on its     *)
(* right, which goes instead.                                              *)
RECURSIVE Removed(_, _)
Removed(n, k) ==
  IF Compare(n.value, k) < 0 THEN Rebalance([n EXCEPT !.left = Removed(@, k)])
  ELSE IF Compare(n.value, k) > 0 THEN Rebalance([n EXCEPT !.right = Removed(@, k)])
  ELSE IF n.left = Null THEN n.right
  ELSE IF n.right = Null THEN n.left
  ELSE LET s == Leftmost(n.right)
       IN  Rebalance([n EXCEPT !.value = s, !.right = Removed(@, RankOf[s])])

-----------------------------------------------------------------------------
(* Operations. *)

Search(t) == EndSearch(t, tree.root) \/ \E k \in TreeKey : StartSearch(t, k)

IsEmpty == See(<<"empty", tree.quantity = 0>>)
Count   == See(<<"count", tree.quantity>>)

Insert(v) ==
  /\ tree.alive /\ Countable
  /\ tree' = [tree EXCEPT !.root = Inserted(@, v, tree.quantity), !.quantity = (@ + 1) % Word]
  /\ answer' = <<>>
  /\ UNCHANGED pc

Remove(k) ==
  /\ tree.alive
  /\ answer' = Lookup(tree.root, k)
  /\ tree' = IF answer' = Nothing THEN tree
             ELSE [tree EXCEPT !.root = Removed(@, k), !.quantity = (@ - 1) % Word]
  /\ UNCHANGED pc

TraversePreorder(t)  == Walk(t, "pre", Preorder(tree.root))
TraverseInorder(t)   == Walk(t, "in", Inorder(tree.root))
TraversePostorder(t) == Walk(t, "post", Postorder(tree.root))
ForContext(t)        == Walk(t, "context", Inorder(tree.root))

Hash == See(TreeHash(tree.root))

Destroy == Release([tree EXCEPT !.root = Null], tree.root)

(* A tree without a node cannot be packed: its root is not looked at. *)
Pack(t) == [quantity |-> t.quantity, nodes |-> PackNode(t.root)]

Unpack(p) == [Construct EXCEPT !.root = UnpackNode(p.nodes)[1], !.quantity = p.quantity]

Init == tree = Construct /\ Unused

Next ==
  \/ \E t \in Searcher :
       \/ Search(t)
       \/ TraversePreorder(t) \/ TraverseInorder(t) \/ TraversePostorder(t) \/ ForContext(t)
  \/ \E v \in TreeValue : Insert(v)
  \/ \E k \in TreeKey : Remove(k)
  \/ IsEmpty \/ Count \/ Hash \/ Destroy

Spec == Init /\ [][Next]_vars

-----------------------------------------------------------------------------
(* What may be relied on. *)

TypeOK ==
  /\ CommonTypeOK
  /\ \A n \in Below(tree.root) :
       n.value \in TreeValue /\ n.tag \in 1..Cardinality(TreeValue) /\ n.pointer \in {0, Sentinel}

(* Keys increase from left to right, heights are right, and the heights of *)
(* two children differ by at most one.                                     *)
Sound ==
  /\ Increasing(Inorder(tree.root))
  /\ \A n \in Below(tree.root) :
       n = UpdateHeight(n, n.left, n.right) /\ BalanceFactor(n) \in -1..1

=============================================================================
