-------------------------------- MODULE Tree --------------------------------
(***************************************************************************)
(* src/data/tree/tree.c: one interface to the three trees.  A tree carries *)
(* the functions of its type, and its packed form begins with the type.    *)
(***************************************************************************)
EXTENDS TreeNode

CONSTANT Early  \* bound: Early[type] are the values that trees of a type get

VARIABLE type

(* Of trees that are never balanced there are more shapes. *)
Binary   == INSTANCE BinaryTree WITH TreeValue <- Early["binary_tree"], Most <- Most - 1
Avl      == INSTANCE AvlTree WITH TreeValue <- Early["avl_tree"]
RedBlack == INSTANCE RedBlackTree WITH TreeValue <- Early["red_black_tree"]

(* The row of the table of functions. *)
ByType(binary, avl, redBlack) ==
  \/ type = "binary_tree" /\ binary
  \/ type = "avl_tree" /\ avl
  \/ type = "red_black_tree" /\ redBlack

Init == ByType(Binary!Init, Avl!Init, RedBlack!Init)

Search(t) == ByType(Binary!Search(t), Avl!Search(t), RedBlack!Search(t))
IsEmpty   == ByType(Binary!IsEmpty, Avl!IsEmpty, RedBlack!IsEmpty)
TreeSize  == ByType(Binary!Count, Avl!Count, RedBlack!Count)
Insert(v) == ByType(Binary!Insert(v), Avl!Insert(v), RedBlack!Insert(v))
Remove(k) == ByType(Binary!Remove(k), Avl!Remove(k), RedBlack!Remove(k))
TraverseInorder(t) ==
  ByType(Binary!TraverseInorder(t), Avl!TraverseInorder(t), RedBlack!TraverseInorder(t))
Hash      == ByType(Binary!Hash, Avl!Hash, RedBlack!Hash)
Destroy   == ByType(Binary!Destroy, Avl!Destroy, RedBlack!Destroy)

(* What only the trees themselves offer. *)
Direct(t) ==
  ByType(Binary!TraversePreorder(t) \/ Binary!TraversePostorder(t) \/ Binary!ForContext(t),
         Avl!TraversePreorder(t) \/ Avl!TraversePostorder(t) \/ Avl!ForContext(t),
         RedBlack!TraversePreorder(t) \/ RedBlack!TraversePostorder(t) \/ RedBlack!ForContext(t))

Values == Early[type]

Next ==
  /\ \/ \E t \in Searcher : Search(t) \/ TraverseInorder(t) \/ Direct(t)
     \/ \E v \in Values : Insert(v)
     \/ \E k \in {RankOf[v] : v \in Values} : Remove(k)
     \/ IsEmpty \/ TreeSize \/ Hash \/ Destroy
  /\ UNCHANGED type

Pack ==
  <<type, CASE type = "binary_tree"    -> Binary!Pack(tree)
            [] type = "avl_tree"       -> Avl!Pack(tree)
            [] type = "red_black_tree" -> RedBlack!Pack(tree)>>

Unpack(p) ==
  <<p[1], CASE p[1] = "binary_tree"    -> Binary!Unpack(p[2])
            [] p[1] = "avl_tree"       -> Avl!Unpack(p[2])
            [] p[1] = "red_black_tree" -> RedBlack!Unpack(p[2])>>

-----------------------------------------------------------------------------
(* What may be relied on. *)

TypeOK == ByType(Binary!TypeOK, Avl!TypeOK, RedBlack!TypeOK)
Sound  == ByType(Binary!Sound, Avl!Sound, RedBlack!Sound)

Top == IF type = "red_black_tree" THEN RedBlack!Top ELSE tree.root

(* A packed tree unpacks to the same tree of the same type, unless a node  *)
(* is hidden by its node_pointer: then it never does.  The root's own is   *)
(* not packed.                                                             *)
RoundTrip == tree.root # Null /\ tree.alive =>
  LET same == IF type = "red_black_tree" THEN tree ELSE [tree EXCEPT !.root.pointer = 0]
  IN  Unpack(Pack) = <<type, same>> <=> ~Hidden(Top)

Contents == IF type = "red_black_tree" THEN RedBlack!Contents ELSE Stored(tree.root)

Abs == INSTANCE AbstractTree WITH
  contents <- Contents, counted <- tree.quantity, alive <- tree.alive

(* What no caller is promised and the code does: an operation reads        *)
(* through a null pointer.  A search does when the tree lost its last      *)
(* value after the search looked at the root; the insertion into a red-    *)
(* black tree does when the tree is empty, and when the repair gets to the *)
(* root, which takes three values.                                         *)
NullRead ==
  /\ tree.alive /\ ~tree'.alive
  /\ UNCHANGED type
  /\ \/ \E t \in Searcher, k \in TreeKey :
          tree.root = Null /\ pc[t] = Searching(k) /\ pc' = [pc EXCEPT ![t] = Outside]
     \/ /\ type = "red_black_tree" /\ Cardinality(Contents) \notin {1, 2}
        /\ \E v \in TreeValue : Contents' = Contents \cup {v}
        /\ UNCHANGED pc

=============================================================================
