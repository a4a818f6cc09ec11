---------------------------- MODULE AdjacencyList ----------------------------
(***************************************************************************)
(* src/data/adjacency_list/adjacency_list.c: every vertex has a list of    *)
(* the edges that leave it; without directions an edge is in two lists.    *)
(***************************************************************************)
EXTENDS GraphStorage

Construct(directed) ==
  [storage |-> "list", directed |-> directed, entries |-> <<>>, counted |-> 0]

(* An entry of the list of a vertex. *)
To(v, e) == [to |-> v, data |-> e]

Vertices(g) == [i \in DOMAIN g.entries |-> g.entries[i].vertex]

VertexIndexGet(g, k) == IndexOf(Vertices(g), k)

VertexSearch(g, k) == VertexIndexGet(g, k) # 0
VertexCount(g) == Len(g.entries)
EdgeCount(g) == g.counted

(* The list of the vertex with that key. *)
List(g, k) == g.entries[VertexIndexGet(g, k)].edges

(* The first entry that leads there. *)
EdgeSearch(g, u, v) ==
  LET found == SelectSeq(List(g, u), LAMBDA x : x.to = v)
  IN  IF VertexSearch(g, u) /\ found # <<>> THEN Taken(found[1].data) ELSE Nothing

NeighborsGet(g, k) == [i \in DOMAIN List(g, k) |-> List(g, k)[i].to]

VertexDegree(g, k) ==
  [in  |-> Len(SelectSeq(FlattenSeq([i \in DOMAIN g.entries |-> g.entries[i].edges]),
                         LAMBDA x : x.to = k)),
   out |-> Len(List(g, k))]

VertexAdd(g, v) ==
  IF VertexSearch(g, v) THEN Result(g, Nothing)
  ELSE Result([g EXCEPT !.entries = Append(@, [vertex |-> v, edges |-> <<>>])], Done)

(* Mutant: the entries of the other vertices stay. *)
VertexRemove_Dangles(g, k) ==
  LET i == VertexIndexGet(g, k)
  IN  IF i = 0 THEN Result(g, Nothing)
      ELSE Result([g EXCEPT !.entries = RemoveAt(@, i),
                            !.counted = (@ - Len(List(g, k))) % Word],
                  Released(k, [x \in DOMAIN List(g, k) |-> List(g, k)[x].data]))

(* Its own list goes from the front, what leads to it from the other lists *)
(* from the back.  An edge without direction is in both and passed twice.  *)
VertexRemove(g, k) ==
  LET i == VertexIndexGet(g, k)
      others == [j \in DOMAIN g.entries |->
                   IF j = i THEN <<>> ELSE Reverse(SelectSeq(g.entries[j].edges, LAMBDA x : x.to = k))]
      gone == g.entries[i].edges \o FlattenSeq(others)
      left == [j \in DOMAIN g.entries |->
                 [g.entries[j] EXCEPT !.edges = SelectSeq(@, LAMBDA x : x.to # k)]]
  IN  IF i = 0 THEN Result(g, Nothing)
      ELSE Result([g EXCEPT !.entries = RemoveAt(left, i), !.counted = (@ - Len(gone)) % Word],
                  Released(k, [x \in DOMAIN gone |-> gone[x].data]))

(* One more entry at the end of a list. *)
AddTo(g, u, v, e) ==
  [g EXCEPT !.entries[VertexIndexGet(g, u)].edges = Append(@, To(v, e)),
            !.counted = (@ + 1) % Word]

EdgeAdd(g, u, v, e) ==
  IF VertexSearch(g, u) /\ VertexSearch(g, v)
  THEN Result(IF g.directed THEN AddTo(g, u, v, e) ELSE AddTo(AddTo(g, u, v, e), v, u, e), Done)
  ELSE Result(g, Nothing)

(* The last entry of u's list that leads to v, as its place there; 0 when  *)
(* there is none.                                                          *)
LastTo(g, u, v) == SelectLastInSeq(List(g, u), LAMBDA x : x.to = v)

DropFrom(g, u, v) ==
  IF LastTo(g, u, v) = 0 THEN g
  ELSE [g EXCEPT !.entries[VertexIndexGet(g, u)].edges = RemoveAt(@, LastTo(g, u, v)),
                 !.counted = (@ - 1) % Word]

(* That there is no such edge is no failure. *)
EdgeRemove(g, u, v) ==
  IF ~VertexSearch(g, u) \/ ~VertexSearch(g, v) THEN Result(g, Nothing)
  ELSE Result(IF g.directed THEN DropFrom(g, u, v) ELSE DropFrom(DropFrom(g, u, v), v, u),
              Taken(IF LastTo(g, u, v) = 0 THEN Null ELSE List(g, u)[LastTo(g, u, v)].data))

(* The edges, list by list. *)
ListByList(g) ==
  FlattenSeq([i \in DOMAIN g.entries |->
    [j \in DOMAIN g.entries[i].edges |-> g.entries[i].edges[j].data]])

VertexForeach(g) == Vertices(g)
EdgeForeach(g) == ListByList(g)

(* The vertices an entry leads to are packed as places. *)
Pack(g) ==
  [directed |-> g.directed,
   entries |-> [i \in DOMAIN g.entries |->
     [vertex |-> g.entries[i].vertex,
      edges |-> [j \in DOMAIN g.entries[i].edges |->
        [to |-> VertexIndexGet(g, g.entries[i].edges[j].to), data |-> g.entries[i].edges[j].data]]]]]

(* Every entry is added as an edge: without directions each edge comes     *)
(* back twice, as either of its two entries adds both again.               *)
Unpack(p) ==
  LET vertex(i) == p.entries[i].vertex
      empty == FoldLeft(LAMBDA g, x : VertexAdd(g, x.vertex).graph, Construct(p.directed), p.entries)
      edges == FlattenSeq([i \in DOMAIN p.entries |->
                 [j \in DOMAIN p.entries[i].edges |-> <<i, p.entries[i].edges[j]>>]])
  IN  FoldLeft(LAMBDA g, x : EdgeAdd(g, vertex(x[1]), vertex(x[2].to), x[2].data).graph, empty, edges)

Hash(g) == Hashed(Vertices(g), ListByList(g))

(* Without directions each edge is in two lists, and passed twice.         *)
Destroy(g) == Freed(Vertices(g), ListByList(g))

-----------------------------------------------------------------------------
(* What it means, and what must hold. *)

Links(g) ==
  UNION {{<<g.entries[i].vertex, x.to, x.data>> : x \in ToSet(g.entries[i].edges)} :
         i \in DOMAIN g.entries}

TypeOK(g) ==
  /\ g.counted \in 0..Word - 1
  /\ \A i \in DOMAIN g.entries :
       /\ g.entries[i].vertex \in Vertex
       /\ g.entries[i].edges \in Seq([to : Vertex, data : Edge])

(* Every entry leads to a vertex of the graph, the count is that of the    *)
(* entries, and without directions an entry has its mirror image, with     *)
(* parallel edges in the same order in both lists.                         *)
Sound(g) ==
  /\ \A i \in DOMAIN g.entries : \A x \in ToSet(g.entries[i].edges) : VertexSearch(g, x.to)
  /\ g.counted = Len(ListByList(g)) % Word
  /\ ~g.directed => \A u, v \in ToSet(Vertices(g)) :
       LET between(s, t) == SelectSeq(List(g, s), LAMBDA x : x.to = t)
       IN  [i \in DOMAIN between(u, v) |-> between(u, v)[i].data]
             = [i \in DOMAIN between(v, u) |-> between(v, u)[i].data]

=============================================================================
