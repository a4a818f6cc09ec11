------------------------------ MODULE EdgeList ------------------------------
(***************************************************************************)
(* src/data/edge_list/edge_list.c: the vertices, and the edges with both   *)
(* their ends.                                                             *)
(***************************************************************************)
EXTENDS GraphStorage

Construct(directed) ==
  [storage |-> "edges", directed |-> directed, vertices |-> <<>>, edges |-> <<>>]

VertexIndexGet(g, k) == IndexOf(g.vertices, k)

VertexSearch(g, k) == VertexIndexGet(g, k) # 0
VertexCount(g) == Len(g.vertices)
EdgeCount(g) == Ways(g) * Len(g.edges)

(* Whether edge x leads from u to v. *)
Joins(g, x, u, v) ==
  \/ x.from = u /\ x.to = v
  \/ ~g.directed /\ x.from = v /\ x.to = u

EdgeSearch(g, u, v) ==
  LET found == SelectSeq(g.edges, LAMBDA x : Joins(g, x, u, v))
  IN  IF VertexSearch(g, u) /\ VertexSearch(g, v) /\ found # <<>>
      THEN Taken(found[1].data) ELSE Nothing

(* Mutant: only the edges given with this vertex first. *)
NeighborsGet_From(g, k) ==
  LET leaving == SelectSeq(g.edges, LAMBDA x : x.from = k)
  IN  [i \in DOMAIN leaving |-> leaving[i].to]

NeighborsGet(g, k) ==
  LET touching == SelectSeq(g.edges, LAMBDA x : x.from = k \/ (~g.directed /\ x.to = k))
  IN  [i \in DOMAIN touching |-> IF touching[i].from = k THEN touching[i].to ELSE touching[i].from]

(* Without directions only the edges given with this vertex first count.   *)
VertexDegree(g, k) ==
  LET leaving == Len(SelectSeq(g.edges, LAMBDA x : x.from = k))
  IN  [in  |-> IF g.directed THEN Len(SelectSeq(g.edges, LAMBDA x : x.to = k)) ELSE leaving,
       out |-> leaving]

VertexAdd(g, v) ==
  IF VertexSearch(g, v) THEN Result(g, Nothing)
  ELSE Result([g EXCEPT !.vertices = Append(@, v)], Done)

(* The edges go from the last to the first. *)
VertexRemove(g, k) ==
  LET gone == Reverse(SelectSeq(g.edges, LAMBDA x : x.from = k \/ x.to = k))
  IN  IF ~VertexSearch(g, k) THEN Result(g, Nothing)
      ELSE Result([g EXCEPT !.vertices = RemoveAt(@, VertexIndexGet(g, k)),
                            !.edges = SelectSeq(@, LAMBDA x : x.from # k /\ x.to # k)],
                  Released(k, [i \in DOMAIN gone |-> gone[i].data]))

EdgeAdd(g, u, v, e) ==
  IF VertexSearch(g, u) /\ VertexSearch(g, v)
  THEN Result([g EXCEPT !.edges = Append(@, [from |-> u, to |-> v, data |-> e])], Done)
  ELSE Result(g, Nothing)

(* Mutant: the direction of the edge given is not looked at. *)
EdgeRemove_AnyWay(g, u, v) ==
  LET i == SelectLastInSeq(g.edges, LAMBDA x : {x.from, x.to} = {u, v})
  IN  IF ~VertexSearch(g, u) \/ ~VertexSearch(g, v) \/ i = 0 THEN Result(g, Nothing)
      ELSE Result([g EXCEPT !.edges = RemoveAt(@, i)], Taken(g.edges[i].data))

(* The last edge of that kind; that there is none is a failure. *)
EdgeRemove(g, u, v) ==
  LET i == SelectLastInSeq(g.edges, LAMBDA x : Joins(g, x, u, v))
  IN  IF ~VertexSearch(g, u) \/ ~VertexSearch(g, v) \/ i = 0 THEN Result(g, Nothing)
      ELSE Result([g EXCEPT !.edges = RemoveAt(@, i)], Taken(g.edges[i].data))

Data(g) == [i \in DOMAIN g.edges |-> g.edges[i].data]

VertexForeach(g) == g.vertices
EdgeForeach(g) == Data(g)

(* The ends of an edge are packed as places. *)
Pack(g) ==
  [directed |-> g.directed, vertices |-> g.vertices,
   edges |-> [i \in DOMAIN g.edges |->
     [from |-> VertexIndexGet(g, g.edges[i].from), to |-> VertexIndexGet(g, g.edges[i].to),
      data |-> g.edges[i].data]]]

Unpack(p) ==
  LET empty == FoldLeft(LAMBDA g, v : VertexAdd(g, v).graph, Construct(p.directed), p.vertices)
  IN  FoldLeft(LAMBDA g, x : EdgeAdd(g, p.vertices[x.from], p.vertices[x.to], x.data).graph,
               empty, p.edges)

Hash(g) == Hashed(g.vertices, Data(g))

Destroy(g) == Freed(g.vertices, Data(g))

-----------------------------------------------------------------------------
(* What it means, and what must hold. *)

Links(g) ==
  {<<x.from, x.to, x.data>> : x \in ToSet(g.edges)}
  \cup (IF g.directed THEN {} ELSE {<<x.to, x.from, x.data>> : x \in ToSet(g.edges)})

TypeOK(g) ==
  /\ g.vertices \in Seq(Vertex)
  /\ g.edges \in Seq([from : Vertex, to : Vertex, data : Edge])

(* The ends of every edge are vertices of the graph. *)
Sound(g) == \A x \in ToSet(g.edges) : VertexSearch(g, x.from) /\ VertexSearch(g, x.to)

=============================================================================
