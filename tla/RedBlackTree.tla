---------------------------- MODULE RedBlackTree ----------------------------
(***************************************************************************)
(* src/data/red_black/red_black.c: a search tree whose nodes know their    *)
(* parents and are red or black.  A pointer is stored at most once, so the *)
(* node that holds it is named after it.                                   *)
(***************************************************************************)
EXTENDS TreeNode

Blank == [left |-> Null, right |-> Null, parent |-> Null, red |-> FALSE, pointer |-> 0]

(* tree.node[v]: the node that holds v, or Blank. *)
Construct ==
  [root |-> Null, quantity |-> 0, alive |-> TRUE, node |-> [v \in TreeValue |-> Blank]]

(* The subtree of x as TreeNode has it, with the colour for a tag. *)
RECURSIVE Subtree(_, _)
Subtree(t, x) ==
  IF x = Null THEN Null
  ELSE Node(x, t.node[x].red, t.node[x].pointer,
            Subtree(t, t.node[x].left), Subtree(t, t.node[x].right))

(* The values stored. *)
Contents == {v \in TreeValue : v = tree.root \/ tree.node[v].parent # Null}

Top == Subtree(tree, tree.root)

Other(side) == IF side = "left" THEN "right" ELSE "left"
SideOf(t, p, x) == IF t.node[p].left = x THEN "left" ELSE "right"

IsRed(t, x) == x # Null /\ t.node[x].red
Colour(t, x, red) == IF x = Null THEN t ELSE [t EXCEPT !.node[x].red = red]

(* x is the child of p on that side. *)
Link(t, p, side, x) ==
  LET u == [t EXCEPT !.node[p][side] = x]
  IN  IF x = Null THEN u ELSE [u EXCEPT !.node[x].parent = p]

(* v takes the place of u below the parent of u. *)
Transplant(t, u, v) ==
  LET p == t.node[u].parent
      s == IF p = Null THEN [t EXCEPT !.root = v] ELSE [t EXCEPT !.node[p][SideOf(t, p, u)] = v]
  IN  IF v = Null THEN s ELSE [s EXCEPT !.node[v].parent = p]

(* x goes down on that side, its child on the other side comes up. *)
Rotate(t, x, side) ==
  LET y == t.node[x][Other(side)]
  IN  Link(Link(Transplant(t, x, y), x, Other(side), t.node[y][side]), y, side, x)

LeftRotate(t, x) == Rotate(t, x, "left")
RightRotate(t, x) == Rotate(t, x, "right")

Down(t, x, side) == IF side = "left" THEN LeftRotate(t, x) ELSE RightRotate(t, x)

(* z is red.  The loop reads the colour of z's parent before it asks       *)
(* whether there is one: when z is the root, that is a null pointer.       *)
RECURSIVE InsertFixup(_, _)
InsertFixup(t, z) ==
  LET p == t.node[z].parent
      g == t.node[p].parent
      side == SideOf(t, g, p)
      y == t.node[g][Other(side)]
      inner == t.node[p][Other(side)] = z
      \* the upper of the two red nodes, once they are in line
      u == IF inner THEN z ELSE p
      s == IF inner THEN Down(t, p, side) ELSE t
  IN  IF p = Null THEN [t EXCEPT !.alive = FALSE]
      ELSE IF ~IsRed(t, p) THEN Colour(t, t.root, FALSE)
      ELSE IF IsRed(t, y)
           THEN InsertFixup(Colour(Colour(Colour(t, p, FALSE), y, FALSE), g, TRUE), g)
      ELSE LET r == Down(Colour(Colour(s, u, FALSE), g, TRUE), g, Other(side))
           IN  Colour(r, r.root, FALSE)

(* Where a value with key k goes: below the node that the way down ends at.*)
RECURSIVE Place(_, _, _)
Place(t, x, k) ==
  LET side == IF Compare(x, k) < 0 THEN "left" ELSE "right"
  IN  IF t.node[x][side] = Null THEN <<x, side>> ELSE Place(t, t.node[x][side], k)

Inserted(t, v) ==
  LET at == Place(t, t.root, RankOf[v])
      s == [t EXCEPT !.node[v].red = TRUE, !.node[v].pointer = NodePointer(t.quantity)]
  IN  InsertFixup(IF t.root = Null THEN [s EXCEPT !.root = v] ELSE Link(s, at[1], at[2], v), v)

-----------------------------------------------------------------------------
(* x, below p on that side, lacks one black node. *)
RECURSIVE RemoveFixup(_, _, _, _)
RemoveFixup(t, x, p, side) ==
  LET far == Other(side)
      \* with a red sibling turned into a black one
      sibling == t.node[p][far]
      s == IF IsRed(t, sibling)
           THEN Down(Colour(Colour(t, sibling, FALSE), p, TRUE), p, side) ELSE t
      w == s.node[p][far]
      \* with the red child of the sibling on the far side
      near == s.node[w][side]
      turned == Down(Colour(Colour(s, near, FALSE), w, TRUE), w, far)
      r == IF IsRed(s, s.node[w][far]) THEN s ELSE turned
      v == r.node[p][far]
      done == Down(Colour(Colour(Colour(r, v, r.node[p].red), p, FALSE), r.node[v][far], FALSE), p, side)
      up == s.node[p].parent
  IN  IF x = t.root \/ IsRed(t, x) THEN Colour(t, x, FALSE)
      ELSE IF ~IsRed(s, near) /\ ~IsRed(s, s.node[w][far])
           THEN RemoveFixup(Colour(s, w, TRUE), p, up, IF up = Null THEN side ELSE SideOf(s, up, p))
      ELSE Colour(done, done.root, FALSE)

(* Mutant: the successor keeps its own colour. *)
Removed_KeepsColour(t, z) ==
  LET n == t.node[z]
      y == Leftmost(Subtree(t, n.right))
      x == t.node[y].right
      p == IF t.node[y].parent = z THEN y ELSE t.node[y].parent
      s == IF p = y THEN t ELSE Link(Transplant(t, y, x), y, "right", n.right)
      two == Link(Transplant(s, z, y), y, "left", n.left)
      child == IF n.left = Null THEN n.right ELSE n.left
      one == Transplant(t, z, child)
      r == IF n.left = Null \/ n.right = Null
           THEN IF n.red THEN one
                ELSE RemoveFixup(one, child, n.parent,
                       IF n.parent # Null /\ SideOf(t, n.parent, z) = "left" THEN "left" ELSE "right")
           ELSE IF t.node[y].red THEN two
                ELSE RemoveFixup(two, x, p, IF p = y THEN "right" ELSE "left")
  IN  [r EXCEPT !.node[z] = Blank]

(* A node with one child or none makes way for it; one with two makes way  *)
(* for its successor y, which takes its colour.                            *)
Removed(t, z) ==
  LET n == t.node[z]
      child == IF n.left = Null THEN n.right ELSE n.left
      one == Transplant(t, z, child)
      side == IF n.parent # Null /\ SideOf(t, n.parent, z) = "left" THEN "left" ELSE "right"
      y == Leftmost(Subtree(t, n.right))
      x == t.node[y].right
      p == IF t.node[y].parent = z THEN y ELSE t.node[y].parent
      s == IF p = y THEN t ELSE Link(Transplant(t, y, x), y, "right", n.right)
      two == Colour(Link(Transplant(s, z, y), y, "left", n.left), y, n.red)
      r == IF n.left = Null \/ n.right = Null
           THEN IF n.red THEN one ELSE RemoveFixup(one, child, n.parent, side)
           ELSE IF t.node[y].red THEN two
           ELSE RemoveFixup(two, x, p, IF p = y THEN "right" ELSE "left")
  IN  [r EXCEPT !.node[z] = Blank]

-----------------------------------------------------------------------------
(* Operations. *)

Search(t) == EndSearch(t, Top) \/ \E k \in TreeKey : StartSearch(t, k)

IsEmpty == See(<<"empty", tree.quantity = 0>>)
Count   == See(<<"count", tree.quantity>>)

(* A value whose key is there is added as well. *)
Insert(v) ==
  /\ tree.alive /\ v \notin Contents /\ Countable
  /\ tree' = [Inserted(tree, v) EXCEPT !.quantity = (@ + 1) % Word]
  /\ answer' = <<>>
  /\ UNCHANGED pc

Remove(k) ==
  /\ tree.alive
  /\ answer' = Lookup(Top, k)
  /\ tree' = IF answer' = Nothing THEN tree
             ELSE [Removed(tree, answer'[1]) EXCEPT !.quantity = (@ - 1) % Word]
  /\ UNCHANGED pc

TraversePreorder(t)  == Walk(t, "pre", Preorder(Top))
TraverseInorder(t)   == Walk(t, "in", Inorder(Top))
TraversePostorder(t) == Walk(t, "post", Postorder(Top))
ForContext(t)        == Walk(t, "context", Inorder(Top))

Hash == See(TreeHash(Top))

Destroy == Release(Construct, Top)

(* A tree without a node cannot be packed: its root is not looked at. *)
Pack(t) == [quantity |-> t.quantity, nodes |-> PackNode(Subtree(t, t.root))]

(* The nodes from n down, below p. *)
RECURSIVE UnpackBelow(_, _, _)
UnpackBelow(t, n, p) ==
  LET s == [t EXCEPT !.node[n.value].parent = p, !.node[n.value].red = n.tag,
                     !.node[n.value].pointer = n.pointer]
      l == IF n.left = Null THEN s
           ELSE UnpackBelow([s EXCEPT !.node[n.value].left = n.left.value], n.left, n.value)
  IN  IF n.right = Null THEN l
      ELSE UnpackBelow([l EXCEPT !.node[n.value].right = n.right.value], n.right, n.value)

Unpack(p) ==
  LET top == UnpackNode(p.nodes)[1]
  IN  [UnpackBelow(Construct, top, Null) EXCEPT !.root = top.value, !.quantity = p.quantity]

-----------------------------------------------------------------------------
(* All red-black trees over the values from place i to place j of s, with  *)
(* so many black nodes on the way to a leaf.                               *)
RECURSIVE Coloured(_, _, _, _)
Coloured(s, i, j, black) ==
  IF j < i THEN IF black = 0 THEN {Null} ELSE {}
  ELSE UNION {
    LET trees(red) == {Node(s[m], red, 0, l, r) :
          l \in Coloured(s, i, m - 1, IF red THEN black ELSE black - 1),
          r \in Coloured(s, m + 1, j, IF red THEN black ELSE black - 1)}
    IN  {n \in trees(TRUE) : \A c \in {n.left, n.right} : c # Null => ~c.tag}
        \cup (IF black = 0 THEN {} ELSE trees(FALSE)) : m \in i..j}

(* No tree grows from the empty one, so the others come from a buffer.     *)
Buffers ==
  UNION {LET s == CHOOSE s \in [1..n -> TreeValue] :
                    NotDecreasing(s) /\ Cardinality({s[i] : i \in 1..n}) = n
         IN  {[quantity |-> n, nodes |-> PackNode(t)] :
                t \in UNION {{c \in Coloured(s, 1, n, b) : ~c.tag} : b \in 1..3}} :
         n \in {1, Cardinality(TreeValue)}}

Init == tree \in {Construct} \cup {Unpack(p) : p \in Buffers} /\ Unused

Next ==
  \/ \E t \in Searcher :
       \/ Search(t)
       \/ TraversePreorder(t) \/ TraverseInorder(t) \/ TraversePostorder(t) \/ ForContext(t)
  \/ \E v \in TreeValue : Insert(v)
  \/ \E k \in TreeKey : Remove(k)
  \/ IsEmpty \/ Count \/ Hash \/ Destroy

Spec == Init /\ [][Next]_vars

-----------------------------------------------------------------------------
(* What may be relied on. *)

TypeOK ==
  /\ CommonTypeOK
  /\ tree.root \in TreeValue \cup {Null}
  /\ tree.node \in [TreeValue -> [left : TreeValue \cup {Null}, right : TreeValue \cup {Null},
                                  parent : TreeValue \cup {Null}, red : BOOLEAN,
                                  pointer : {0, Sentinel}]]

(* How many black nodes there are on the way from n to a leaf; 0 - 1 when  *)
(* the ways differ.                                                        *)
RECURSIVE BlackHeight(_)
BlackHeight(n) ==
  IF n = Null THEN 0
  ELSE LET l == BlackHeight(n.left)
       IN  IF l < 0 \/ l # BlackHeight(n.right) THEN -1 ELSE l + (IF n.tag THEN 0 ELSE 1)

(* Keys do not decrease from left to right, the root is black, no red node *)
(* has a red child, the ways to the leaves have equally many black nodes,  *)
(* and the links to the parents are those of the children.                 *)
Sound == tree.alive =>
  LET top == Top
      nodes == Below(top)
      edges == UNION {{<<n, c>> : c \in {n.left, n.right} \ {Null}} : n \in nodes}
  IN  /\ NotDecreasing(Inorder(top))
      /\ ~IsRed(tree, tree.root)
      /\ \A e \in edges : /\ ~(e[1].tag /\ e[2].tag)
                         /\ tree.node[e[2].value].parent = e[1].value
      /\ BlackHeight(top) >= 0
      /\ tree.root # Null => tree.node[tree.root].parent = Null
      /\ Contents = {n.value : n \in nodes}
      /\ \A v \in TreeValue \ Contents : tree.node[v] = Blank

=============================================================================
