----------------------------- MODULE MCContainers -----------------------------
(***************************************************************************)
(* The containers, and the three trees beside them, on small sets.         *)
(***************************************************************************)
EXTENDS Containers

CONSTANTS
  TreeValue, Early, RankOf, Most, Word, \* what the trees hold: see TreeNode, Tree
  a, b, c, a1, a2, b1, c1

TreeKind == {"binary_tree", "avl_tree", "red_black_tree"}

Trees == INSTANCE Tree WITH type <- kind, tree <- obj, pc <- aux, Searcher <- Thread

AnySpec ==
  /\ Init \/ (kind \in Kind \cap TreeKind /\ Trees!Init)
  /\ [][Next \/ (kind \in TreeKind /\ Trees!Next)]_vars

(* Trees: the keys are in order and each tree is balanced in its own way:  *)
(* heights that differ by one at most, no red node below a red one and as  *)
(* many black ones on every way down.  A packed tree unpacks to the same,  *)
(* but for a node added when the count was the mark of no child.           *)
TreesSound == kind \in TreeKind => Trees!TypeOK /\ Trees!Sound /\ Trees!RoundTrip


(* The insertion into an empty red-black tree comes back: red_black.h says *)
(* "@return 1 on success, 0 on error" of it, and construct_A of            *)
(* tree_test.c makes a tree of each kind with one element by it.           *)
InsertReturns ==
  [][kind = "red_black_tree" /\ obj.root = Null /\ obj'.root # Null => obj'.alive]_vars

-----------------------------------------------------------------------------

(* Four elements with three keys.  The hashes put a and c in the same slot *)
(* of a table of four; one of them is negative.  a1 and a2 have the same   *)
(* rank, b1 ranks above them.                                              *)
Elements == {a1, a2, b1, c1}
Keys == {a, b, c}
KeyOfs == [e \in Elements |-> IF e = b1 THEN b ELSE IF e = c1 THEN c ELSE a]
HashOfs == [k \in Keys |-> IF k = a THEN -1 ELSE IF k = b THEN 5 ELSE 3]
Ranks == [e \in Elements |-> IF e = b1 THEN 2 ELSE IF e = c1 THEN 0 ELSE 1]
Transforms == {[e \in Elements |-> IF e = a1 THEN a2 ELSE IF e = a2 THEN a1 ELSE e]}

(* Seven values for the trees, two of them with the same key. *)
TreeValues == 1..7
TreeRanks == <<1, 2, 2, 3, 4, 5, 6>>
Earlies == [type \in TreeKind |->
  CASE type = "binary_tree" -> 1..5 [] type = "avl_tree" -> 1..6 [] OTHER -> TreeValues]

=============================================================================
