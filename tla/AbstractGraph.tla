---------------------------- MODULE AbstractGraph ----------------------------
(***************************************************************************)
(* What a graph is to its caller: a set of vertices, a set of links        *)
(* <<u, v, e>> between them (in both directions when it has none), and a   *)
(* count of edges, which the three kinds of storage keep in their own way. *)
(***************************************************************************)
EXTENDS GraphStorage

VARIABLES storage, directed, vertices, links, counted, call, answer

kinds == <<storage, directed>>
vars  == <<kinds, vertices, links, counted, call, answer>>

(* The links of an edge from u to v. *)
LinksOf(u, v, e) == {<<u, v, e>>} \cup (IF directed THEN {} ELSE {<<v, u, e>>})

(* The links at the same ends, in either direction when there is none.     *)
Parallel(u, v) ==
  {l \in links : \/ l[1] = u /\ l[2] = v
                 \/ ~directed /\ l[1] = v /\ l[2] = u}

Edges(s) == {l[3] : l \in s}

(* How often e is in the sequence s. *)
Times(e, s) == Cardinality({i \in DOMAIN s : s[i] = e})

Each == IF directed THEN 1 ELSE 2

Counts(n) == counted' = (counted + n) % Word

(* A new vertex has no links. *)
VertexAdd(v) ==
  /\ call' = <<"VertexAdd", v>>
  /\ UNCHANGED <<links, counted>>
  /\ IF v \in vertices THEN answer' = Nothing /\ UNCHANGED vertices
     ELSE answer' = Done /\ vertices' = vertices \cup {v}

(* A vertex goes with all its links, and each of their edges is released,  *)
(* once; in lists without directions, where each stands twice, twice.      *)
VertexRemove(k) ==
  LET gone == {l \in links : k \in {l[1], l[2]}}
      copies == IF storage = "list" /\ ~directed THEN 2 ELSE 1
  IN  /\ call' = <<"VertexRemove", k>>
      /\ IF k \notin vertices THEN answer' = Nothing /\ UNCHANGED <<vertices, links, counted>>
         ELSE /\ vertices' = vertices \ {k}
              /\ links' = links \ gone
              /\ Counts(-Each * Cardinality(Edges(gone)))
              /\ Len(answer') = 3 /\ answer'[1] = "released" /\ answer'[2] = k
              /\ ToSet(answer'[3]) = Edges(gone)
              /\ \A e \in Edges(gone) : Times(e, answer'[3]) = copies

(* An edge joins the others between its ends; in a matrix it replaces the  *)
(* one that was there, which is counted on.                                *)
EdgeAdd(u, v) ==
  /\ call' = <<"EdgeAdd", u, v>>
  /\ UNCHANGED vertices
  /\ IF {u, v} \subseteq vertices
     THEN /\ answer' = Done
          /\ \E e \in Edges(links') \ Edges(links) :
               links' = LinksOf(u, v, e) \cup
                          (IF storage = "matrix" THEN links \ Parallel(u, v) ELSE links)
          /\ Counts(Each)
     ELSE answer' = Nothing /\ UNCHANGED <<links, counted>>

(* One of the edges between the two goes, and no other.  When there is     *)
(* none an edge list fails, the others do not, and a matrix counts it all  *)
(* the same.                                                               *)
EdgeRemove(u, v) ==
  /\ call' = <<"EdgeRemove", u, v>>
  /\ UNCHANGED vertices
  /\ \/ /\ {u, v} \subseteq vertices
        /\ \E e \in Edges(Parallel(u, v)) :
             /\ links' = {l \in links : l[3] # e}
             /\ answer' = Taken(e)
        /\ Counts(-Each)
     \/ /\ {u, v} \subseteq vertices /\ Parallel(u, v) = {} /\ storage # "edges"
        /\ answer' = Taken(Null)
        /\ Counts(IF storage = "matrix" THEN -Each ELSE 0)
        /\ UNCHANGED links
     \/ /\ ~({u, v} \subseteq vertices) \/ (Parallel(u, v) = {} /\ storage = "edges")
        /\ answer' = Nothing
        /\ UNCHANGED <<links, counted>>

(* Every vertex is visited once, every edge at least once. *)
SeeAll ==
  /\ call' = <<"SeeAll">>
  /\ UNCHANGED <<vertices, links, counted>>
  /\ Len(answer') = 3 /\ answer'[1] = "seen"
  /\ ToSet(answer'[2]) = vertices /\ Len(answer'[2]) = Cardinality(vertices)
  /\ ToSet(answer'[3]) = Edges(links)

(* Everything is released, and an empty graph takes its place.  Without    *)
(* directions an edge is released from both lists, or from both cells when *)
(* its ends are not the same vertex.                                       *)
Renew ==
  LET copies(e) == CASE directed \/ storage = "edges" -> 1
                     [] ~directed /\ storage = "list" -> 2
                     [] OTHER -> Cardinality({l \in links : l[3] = e})
  IN  /\ call' = <<"Renew">>
      /\ vertices' = {} /\ links' = {} /\ counted' = 0
      /\ Len(answer') = 2 /\ answer'[1] = "freed"
      /\ ToSet(answer'[2].vertices) = vertices /\ IsInjective(answer'[2].vertices)
      /\ ToSet(answer'[2].edges) = Edges(links)
      /\ \A e \in Edges(links) : Times(e, answer'[2].edges) = copies(e)

Init ==
  /\ \A l \in links : {l[1], l[2]} \subseteq vertices
  /\ ~directed => \A l \in links : <<l[2], l[1], l[3]>> \in links
  /\ counted = (Each * Cardinality(Edges(links))) % Word
  /\ call = <<>>
  /\ answer = Done

Next ==
  /\ UNCHANGED kinds
  /\ \/ \E v \in Vertex : VertexAdd(v) \/ VertexRemove(v)
     \/ \E u, v \in Vertex : EdgeAdd(u, v) \/ EdgeRemove(u, v)
     \/ SeeAll \/ Renew

Spec == Init /\ [][Next]_vars

=============================================================================
