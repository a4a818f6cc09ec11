------------------------------ MODULE TreeNode ------------------------------
(***************************************************************************)
(* What the trees of src/data share: nodes with a value and two children,  *)
(* the walks over them and their packed form.  Each of avl.c, binary.c and *)
(* red_black.c has these functions again; the lines named are avl.c's.     *)
(* A search looks at the root and a walk at the count, then they take the  *)
(* mutex and go down, in a second step; every other operation is one step. *)
(***************************************************************************)
EXTENDS Integers, Sequences, FiniteSets

CONSTANTS
  TreeValue,  \* the pointers stored
  RankOf,     \* the key of each, by its place in the order
  Searcher,   \* the threads whose searches may overlap other operations
  Most,       \* bound: no value is added to a tree that counts this many
  Word,       \* how many values a size_t has, more than twice Most
  Null,       \* no node
  Nothing     \* the answer of an operation that fails

VARIABLES
  tree,       \* p_root, metadata.quantity, and whether it was not destroyed
  pc,         \* pc[t]: where thread t is: Outside, at Walking(order) or at Searching(k)
  answer      \* what the last operation gave its caller, <<>> while it goes on

vars == <<tree, pc, answer>>

TreeKey == {RankOf[v] : v \in TreeValue}

Outside == <<>>
Walking(order) == <<"walk", order>>
Searching(k) == <<"search", k>>

(* default_comparator: below zero when the key belongs on the left. *)
Compare(v, k) == k - RankOf[v]

(* What a packed node has in the place of a child it does not have: the    *)
(* largest number there is.                                                *)
Sentinel == Word - 1

(* The node_pointer of a node added to a tree that counts q is q.  Nothing *)
(* but its being the sentinel or not is ever looked at.                    *)
NodePointer(q) == IF q = Sentinel THEN Sentinel ELSE 0

Node(v, tag, q, l, r) ==
  [value |-> v, tag |-> tag, pointer |-> NodePointer(q), left |-> l, right |-> r]

RECURSIVE Preorder(_), Inorder(_), Postorder(_)

Preorder(n) ==
  IF n = Null THEN <<>> ELSE <<n.value>> \o Preorder(n.left) \o Preorder(n.right)

Inorder(n) ==
  IF n = Null THEN <<>> ELSE Inorder(n.left) \o <<n.value>> \o Inorder(n.right)

Postorder(n) ==
  IF n = Null THEN <<>> ELSE Postorder(n.left) \o Postorder(n.right) \o <<n.value>>

(* The value found on the way down from n, if there is one. *)
RECURSIVE Lookup(_, _)
Lookup(n, k) ==
  IF n = Null THEN Nothing
  ELSE IF Compare(n.value, k) < 0 THEN Lookup(n.left, k)
  ELSE IF Compare(n.value, k) > 0 THEN Lookup(n.right, k) ELSE <<n.value>>

RECURSIVE Leftmost(_)
Leftmost(n) == IF n.left = Null THEN n.value ELSE Leftmost(n.left)

(* A node, the node_pointer or the sentinel for each child, the children. *)
RECURSIVE PackNode(_)
PackNode(n) ==
  LET child(c) == IF c = Null THEN Sentinel ELSE c.pointer
  IN  IF n = Null THEN <<>>
      ELSE <<<<n.value, n.tag, child(n.left), child(n.right)>>>>
           \o PackNode(n.left) \o PackNode(n.right)

(* The node that p begins with, and what follows it.  A child is read, and *)
(* given its node_pointer back, unless that is the sentinel.               *)
RECURSIVE UnpackNode(_)
UnpackNode(p) ==
  LET child(q, rest) ==
        LET below == UnpackNode(rest)
        IN  IF q = Sentinel THEN <<Null, rest>> ELSE <<[below[1] EXCEPT !.pointer = q], below[2]>>
      l == child(p[1][3], Tail(p))
      r == child(p[1][4], l[2])
  IN  <<Node(p[1][1], p[1][2], 0, l[1], r[1]), r[2]>>

(* The hashes of the values are combined with exclusive or: what counts is *)
(* which values there are.                                                 *)
NodeHash(n) == <<"hash", {Preorder(n)[i] : i \in 1..Len(Preorder(n))}>>

(* The tree without a node has a hash of its own. *)
TreeHash(n) == IF n = Null THEN <<"hash", Null>> ELSE NodeHash(n)


-----------------------------------------------------------------------------
(* What the operations of all trees look like.  top is the root node.      *)

(* Bounds: values are added at the counts below Most and at the two that   *)
(* come before zero, where the count has wrapped around.                   *)
Countable == tree.quantity < Most \/ tree.quantity \in {Word - 2, Word - 1}

See(x) == tree.alive /\ answer' = x /\ UNCHANGED <<tree, pc>>

(* A tree without a root is not searched. *)
StartSearch(t, k) ==
  /\ tree.alive /\ pc[t] = Outside
  /\ IF tree.root = Null THEN answer' = Nothing /\ UNCHANGED pc
                         ELSE pc' = [pc EXCEPT ![t] = Searching(k)] /\ answer' = <<>>
  /\ UNCHANGED tree

(* With the mutex the root is not looked at again: without one the thread  *)
(* reads through a null pointer.                                           *)
EndSearch(t, top) ==
  /\ tree.alive /\ pc[t] \in {Searching(k) : k \in TreeKey}
  /\ tree' = [tree EXCEPT !.alive = tree.root # Null]
  /\ answer' = Lookup(top, pc[t][2])
  /\ pc' = [pc EXCEPT ![t] = Outside]

(* A tree that counts nothing is not walked. *)
StartWalk(t, order) ==
  /\ tree.alive /\ pc[t] = Outside
  /\ IF tree.quantity = 0 THEN answer' = <<"all", <<>>>> /\ UNCHANGED pc
                          ELSE pc' = [pc EXCEPT ![t] = Walking(order)] /\ answer' = <<>>
  /\ UNCHANGED tree

EndWalk(t, order, walk) ==
  /\ tree.alive /\ pc[t] = Walking(order)
  /\ answer' = IF tree.root = Null THEN Nothing ELSE <<"all", walk>>
  /\ pc' = [pc EXCEPT ![t] = Outside]
  /\ UNCHANGED tree

Walk(t, order, walk) == StartWalk(t, order) \/ EndWalk(t, order, walk)

(* The values go with the nodes, each before those below it; the caller    *)
(* sees to it that no thread is inside.                                    *)
Release(emptied, top) ==
  /\ tree.alive /\ \A t \in Searcher : pc[t] = Outside
  /\ tree' = [emptied EXCEPT !.alive = FALSE]
  /\ answer' = <<"released", Preorder(top)>>
  /\ UNCHANGED pc

Unused ==
  /\ pc = [t \in Searcher |-> Outside]
  /\ answer = <<>>

-----------------------------------------------------------------------------
(* What the nodes must satisfy. *)

Increasing(s) == \A i \in 1..Len(s) - 1 : RankOf[s[i]] < RankOf[s[i + 1]]
NotDecreasing(s) == \A i \in 1..Len(s) - 1 : RankOf[s[i]] <= RankOf[s[i + 1]]

(* The nodes from here down. *)
RECURSIVE Below(_)
Below(n) == IF n = Null THEN {} ELSE {n} \cup Below(n.left) \cup Below(n.right)

Stored(n) == {m.value : m \in Below(n)}

(* A child was added at the count that is the sentinel. *)
Hidden(n) == \E m \in Below(n) : \E c \in {m.left, m.right} : c # Null /\ c.pointer = Sentinel

CommonTypeOK ==
  /\ tree.quantity \in 0..Word - 1
  /\ tree.alive \in BOOLEAN
  /\ pc \in [Searcher -> {Outside}
                       \cup {Searching(k) : k \in TreeKey}
                       \cup {Walking(order) : order \in {"pre", "in", "post", "context"}}]

=============================================================================
