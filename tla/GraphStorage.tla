---------------------------- MODULE GraphStorage ----------------------------
(***************************************************************************)
(* What the three ways to store a graph share.  A vertex is its own key:   *)
(* vertices are told apart by the comparator or, once found, by their      *)
(* pointers, which comes to the same as no two with one key are stored.    *)
(* An edge is a pointer with the number the caller's accessor reads from   *)
(* it.  No edge is in a graph twice.                                       *)
(***************************************************************************)
EXTENDS Integers, Sequences, FiniteSets, SequencesExt

CONSTANTS
  Vertex,
  Edge,     \* records with a name and a weight
  Room,     \* the capacity the first vertex gives a matrix (8 in the code)
  Word,     \* how many values a size_t has
  Null,     \* no edge
  Nothing   \* the answer of an operation that fails

Done == <<"done">>

(* A graph after an operation, and what the operation gave its caller.     *)
Result(g, a) == [graph |-> g, answer |-> a]

(* The place of the vertex with that key, from 1; 0 when there is none.    *)
IndexOf(vertices, k) ==
  IF \E i \in DOMAIN vertices : vertices[i] = k
  THEN CHOOSE i \in DOMAIN vertices :
         vertices[i] = k /\ \A j \in 1..i - 1 : vertices[j] # k
  ELSE 0

(* What is passed to the allocators when a vertex goes: it and its edges.  *)
Released(v, edges) == <<"released", v, edges>>

(* The edge removed, or Null. *)
Taken(e) == <<"edge", e>>

(* The vertices and edges of a graph that is destroyed.                    *)
Freed(vertices, edges) == [vertices |-> vertices, edges |-> edges]

(* Hashes are combined with exclusive or: one that comes twice cancels.    *)
OddOnes(s) == {x \in ToSet(s) : Cardinality({i \in DOMAIN s : s[i] = x}) % 2 = 1}

Hashed(vertices, edges) == Freed(OddOnes(vertices), OddOnes(edges))

(* How many counts an edge makes. *)
Ways(g) == IF g.directed THEN 1 ELSE 2

=============================================================================
