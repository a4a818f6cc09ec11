------------------------------- MODULE Graph -------------------------------
(***************************************************************************)
(* src/data/graph/graph.c without its algorithms: one interface over an    *)
(* adjacency matrix, an adjacency list and an edge list, chosen when the   *)
(* graph is constructed.  Nothing here takes a lock: one thread calls.     *)
(***************************************************************************)
EXTENDS GraphStorage

CONSTANTS
  Given,    \* graphs built before the first step
  Fresh,    \* the edges that are added later
  Key,      \* bound: the vertices that operations are called with
  Few       \* bound: graphs with more vertices are read, not changed

VARIABLES
  graph,
  call,     \* the last operation called, with its arguments
  answer    \* what it gave its caller

vars == <<graph, call, answer>>

Matrix == INSTANCE AdjacencyMatrix
List   == INSTANCE AdjacencyList
Edges  == INSTANCE EdgeList

Storage == {"matrix", "list", "edges"}

-----------------------------------------------------------------------------
(* The functions of graph.c, each of which calls that of the storage.      *)

Construct(storage, directed) ==
  CASE storage = "matrix" -> Matrix!Construct(directed)
    [] storage = "list"   -> List!Construct(directed)
    [] storage = "edges"  -> Edges!Construct(directed)

VertexSearch(g, k) ==
  CASE g.storage = "matrix" -> Matrix!VertexSearch(g, k)
    [] g.storage = "list"   -> List!VertexSearch(g, k)
    [] g.storage = "edges"  -> Edges!VertexSearch(g, k)

(* The vertices in the order they are stored. *)
VertexGet(g) ==
  CASE g.storage = "matrix" -> Matrix!VertexForeach(g)
    [] g.storage = "list"   -> List!VertexForeach(g)
    [] g.storage = "edges"  -> Edges!VertexForeach(g)

VertexCount(g) ==
  CASE g.storage = "matrix" -> Matrix!VertexCount(g)
    [] g.storage = "list"   -> List!VertexCount(g)
    [] g.storage = "edges"  -> Edges!VertexCount(g)

EdgeSearch(g, u, v) ==
  CASE g.storage = "matrix" -> Matrix!EdgeSearch(g, u, v)
    [] g.storage = "list"   -> List!EdgeSearch(g, u, v)
    [] g.storage = "edges"  -> Edges!EdgeSearch(g, u, v)

EdgeCount(g) ==
  CASE g.storage = "matrix" -> Matrix!EdgeCount(g)
    [] g.storage = "list"   -> List!EdgeCount(g)
    [] g.storage = "edges"  -> Edges!EdgeCount(g)

VertexDegree(g, k) ==
  CASE g.storage = "matrix" -> Matrix!VertexDegree(g, k)
    [] g.storage = "list"   -> List!VertexDegree(g, k)
    [] g.storage = "edges"  -> Edges!VertexDegree(g, k)

NeighborsGet(g, k) ==
  CASE g.storage = "matrix" -> Matrix!NeighborsGet(g, k)
    [] g.storage = "list"   -> List!NeighborsGet(g, k)
    [] g.storage = "edges"  -> Edges!NeighborsGet(g, k)

AddVertex(g, v) ==
  CASE g.storage = "matrix" -> Matrix!VertexAdd(g, v)
    [] g.storage = "list"   -> List!VertexAdd(g, v)
    [] g.storage = "edges"  -> Edges!VertexAdd(g, v)

RemoveVertex(g, k) ==
  CASE g.storage = "matrix" -> Matrix!VertexRemove(g, k)
    [] g.storage = "list"   -> List!VertexRemove(g, k)
    [] g.storage = "edges"  -> Edges!VertexRemove(g, k)

AddEdge(g, u, v, e) ==
  CASE g.storage = "matrix" -> Matrix!EdgeAdd(g, u, v, e)
    [] g.storage = "list"   -> List!EdgeAdd(g, u, v, e)
    [] g.storage = "edges"  -> Edges!EdgeAdd(g, u, v, e)

RemoveEdge(g, u, v) ==
  CASE g.storage = "matrix" -> Matrix!EdgeRemove(g, u, v)
    [] g.storage = "list"   -> List!EdgeRemove(g, u, v)
    [] g.storage = "edges"  -> Edges!EdgeRemove(g, u, v)

EdgeForeach(g) ==
  CASE g.storage = "matrix" -> Matrix!EdgeForeach(g)
    [] g.storage = "list"   -> List!EdgeForeach(g)
    [] g.storage = "edges"  -> Edges!EdgeForeach(g)

(* The packed form begins with the kind of storage. *)
Pack(g) ==
  [type |-> g.storage,
   body |-> CASE g.storage = "matrix" -> Matrix!Pack(g)
              [] g.storage = "list"   -> List!Pack(g)
              [] g.storage = "edges"  -> Edges!Pack(g)]

Unpack(p) ==
  CASE p.type = "matrix" -> Matrix!Unpack(p.body)
    [] p.type = "list"   -> List!Unpack(p.body)
    [] p.type = "edges"  -> Edges!Unpack(p.body)

Hash(g) ==
  CASE g.storage = "matrix" -> Matrix!Hash(g)
    [] g.storage = "list"   -> List!Hash(g)
    [] g.storage = "edges"  -> Edges!Hash(g)

Destroy(g) ==
  CASE g.storage = "matrix" -> Matrix!Destroy(g)
    [] g.storage = "list"   -> List!Destroy(g)
    [] g.storage = "edges"  -> Edges!Destroy(g)

(* The links <<u, v, e>> it stores, in both directions when it has none.   *)
Links(g) ==
  CASE g.storage = "matrix" -> Matrix!Links(g)
    [] g.storage = "list"   -> List!Links(g)
    [] g.storage = "edges"  -> Edges!Links(g)

-----------------------------------------------------------------------------
(* The steps. *)

(* A given graph in one of the storages, by adding what is in it.          *)
Built(storage, x) ==
  LET empty == FoldLeft(LAMBDA g, v : AddVertex(g, v).graph, Construct(storage, x.directed), x.vertices)
  IN  FoldLeft(LAMBDA g, a : AddEdge(g, a[1], a[2], a[3]).graph, empty, x.arcs)

Stored(g) == {l[3] : l \in Links(g)}

(* What a graph is asked for is decided by the caller.  Bound: it looks at *)
(* all of the graph before each change, which changes nothing.             *)
Seen == answer # Nothing /\ answer[1] = "seen"

Takes(c, result) ==
  /\ Seen
  /\ VertexCount(graph) <= Few
  /\ call' = c
  /\ graph' = result.graph
  /\ answer' = result.answer

(* Bound: only the given graphs without edges of their own grow.           *)
Grows == Stored(graph) \subseteq Fresh

(* The links out of u that lead to v. *)
Between(g, u, v) == {l \in Links(g) : l[1] = u /\ l[2] = v}

(* Bound: the count of a matrix that is off is not driven further off.     *)
Off == EdgeCount(graph) # (Ways(graph) * Cardinality(Stored(graph))) % Word

(* A matrix takes a vertex it already has; the others refuse it.           *)
VertexAdd(v) ==
  /\ Grows
  /\ graph.storage = "matrix" => ~VertexSearch(graph, v)
  /\ Takes(<<"VertexAdd", v>>, AddVertex(graph, v))

VertexRemove(k) == Takes(<<"VertexRemove", k>>, RemoveVertex(graph, k))

EdgeAdd(u, v, e) ==
  /\ Grows
  /\ e \notin Stored(graph)
  /\ Off => Between(graph, u, v) = {}
  /\ Takes(<<"EdgeAdd", u, v>>, AddEdge(graph, u, v, e))

EdgeRemove(u, v) ==
  /\ Off => Between(graph, u, v) # {}
  /\ Takes(<<"EdgeRemove", u, v>>, RemoveEdge(graph, u, v))

(* Visit every vertex, then every edge. *)
SeeAll ==
  /\ call' = <<"SeeAll">>
  /\ answer' = <<"seen", VertexGet(graph), EdgeForeach(graph)>>
  /\ UNCHANGED graph

(* graph_destroy, and graph_construct for another graph of the same kind.  *)
Renew ==
  Takes(<<"Renew">>, Result(Construct(graph.storage, graph.directed), <<"freed", Destroy(graph)>>))

(* A matrix is given no two edges between the same vertices.               *)
Init ==
  /\ graph \in {Built(s, x) : s \in Storage, x \in Given}
  /\ ~Off
  /\ call = <<>>
  /\ answer = Done

Next ==
  \/ \E v \in Key : VertexAdd(v) \/ VertexRemove(v)
  \/ \E u, v \in Key : EdgeRemove(u, v) \/ \E e \in Fresh : EdgeAdd(u, v, e)
  \/ SeeAll \/ Renew

Spec == Init /\ [][Next]_vars

-----------------------------------------------------------------------------
(* What may be relied on. *)

(* Each storage keeps its own structure whole: the lists lead to vertices  *)
(* of the graph and count themselves, the unused cells of a matrix are     *)
(* empty, and without directions either half mirrors the other.            *)
GraphSound ==
  CASE graph.storage = "matrix" -> Matrix!TypeOK(graph) /\ Matrix!Sound(graph)
    [] graph.storage = "list"   -> List!TypeOK(graph) /\ List!Sound(graph)
    [] graph.storage = "edges"  -> Edges!TypeOK(graph) /\ Edges!Sound(graph)

(* Lists without directions come back from a packed form with each edge    *)
(* twice.                                                                  *)
Twice(g) == ~g.directed /\ g.storage = "list"

Named == ToSet(VertexGet(graph))

(* Incoming and outgoing edges, an edge without direction being both.  Two *)
(* storages tell another number without directions: a list counts an edge  *)
(* from a vertex to itself twice, and an edge list counts every edge at    *)
(* only one of its ends.                                                   *)
DegreesAgree ==
  \/ /\ graph.storage = "edges" /\ ~graph.directed
     /\ \A u \in Named :
          LET degree == VertexDegree(graph, u)
          IN  degree.in = degree.out /\ degree.out <= Cardinality({l \in Links(graph) : l[1] = u})
     /\ Cardinality(Stored(graph)) =
          FoldLeft(LAMBDA n, u : n + VertexDegree(graph, u).out, 0, VertexGet(graph))
  \/ /\ graph.storage # "edges" \/ graph.directed
     /\ \A u \in Named :
          LET out   == {l \in Links(graph) : l[1] = u}
              in    == {l \in Links(graph) : l[2] = u}
              again == IF Twice(graph) THEN Cardinality(out \cap in) ELSE 0
          IN  VertexDegree(graph, u) =
                [in |-> Cardinality(in) + again, out |-> Cardinality(out) + again]

(* What comes back has the vertices and the links.  Its count and its hash *)
(* are those of the graph, or its links counted anew in a matrix, but not  *)
(* in lists without directions: there each edge is counted twice, and      *)
(* drops out of the hash, where it stands an even number of times.         *)
CopyAgrees(copy) ==
  /\ VertexGet(copy) = VertexGet(graph)
  /\ Links(copy) = Links(graph)
  /\ EdgeCount(copy) = CASE graph.storage = "matrix" -> Cardinality(Links(graph)) % Word
                         [] Twice(graph) -> (2 * EdgeCount(graph)) % Word
                         [] OTHER -> EdgeCount(graph)
  /\ Hash(copy) = IF Twice(graph) THEN Freed(Named, {}) ELSE Hash(graph)

(* Whatever way a graph is stored, its functions tell the same links:      *)
(* search finds an edge iff there is a link and finds one of those, the    *)
(* neighbours are the ends of the links, the degrees count them, every     *)
(* edge is visited, and what is packed comes back.  Where a graph without  *)
(* directions departs from what graph.h says, DegreesAgree and CopyAgrees  *)
(* say how far: the property bounds these departures, it does not deny     *)
(* them.                                                                   *)
QueriesAgree ==
  Seen =>
  /\ \A u, v \in Vertex :
       IF Between(graph, u, v) = {} THEN EdgeSearch(graph, u, v) = Nothing
       ELSE EdgeSearch(graph, u, v) \in {Taken(l[3]) : l \in Between(graph, u, v)}
  /\ \A u \in Named :
       ToSet(NeighborsGet(graph, u)) = {l[2] : l \in {x \in Links(graph) : x[1] = u}}
  /\ DegreesAgree
  /\ ToSet(EdgeForeach(graph)) = Stored(graph)
  /\ CopyAgrees(Unpack(Pack(graph)))

Abs == INSTANCE AbstractGraph WITH
  storage  <- graph.storage,
  directed <- graph.directed,
  vertices <- Named,
  links    <- Links(graph),
  counted  <- EdgeCount(graph)

(* The graph is the sets of its vertices and links, whatever stores it.    *)
GraphImplements == Abs!Spec

=============================================================================
