--------------------------- MODULE GraphAlgorithms ---------------------------
(***************************************************************************)
(* The algorithms of src/data/graph/graph.c: two traversals, three ways to *)
(* the shortest paths from one vertex or between all, and two to a minimum *)
(* spanning forest.  They read the graph through the interface only, and   *)
(* take the weight of u -> v from the edge that edge_search finds first.   *)
(* The tables of vertices they keep (hash tables twice as large as needed) *)
(* are sets and functions here.  The graphs are weighted: all but the      *)
(* traversals refuse another.                                              *)
(***************************************************************************)
EXTENDS Graph, FiniteSetsExt, TLC

CONSTANT
  Far     \* DBL_MAX, the distance of what is not reached

Weight(g, u, v) == EdgeSearch(g, u, v)[2].weight

Adjoins(g, u, v) == EdgeSearch(g, u, v) # Nothing

(* The vertices of a graph as a set. *)
Nodes(g) == ToSet(VertexGet(g))

-----------------------------------------------------------------------------
(* Traversals.  A vertex waits as often as it was met before its visit.    *)

RECURSIVE BfsLoop(_, _, _)
BfsLoop(g, waiting, seen) ==
  IF waiting = <<>> THEN seen
  ELSE LET u == Head(waiting)
           next == SelectSeq(NeighborsGet(g, u), LAMBDA v : v \notin ToSet(Append(seen, u)))
       IN  IF u \in ToSet(seen) THEN BfsLoop(g, Tail(waiting), seen)
           ELSE BfsLoop(g, Tail(waiting) \o next, Append(seen, u))

Bfs(g, k) == IF VertexSearch(g, k) THEN BfsLoop(g, <<k>>, <<>>) ELSE Nothing

(* What was visited and whether the stack had room for all that waited.    *)
RECURSIVE DfsLoop(_, _, _)
DfsLoop(g, stack, seen) ==
  IF stack = <<>> THEN [seen |-> seen, fits |-> TRUE]
  ELSE LET u == Last(stack)
           rest == Front(stack)
           next == SelectSeq(NeighborsGet(g, u), LAMBDA v : v \notin ToSet(Append(seen, u)))
       IN  IF u \in ToSet(seen) THEN DfsLoop(g, rest, seen)
           ELSE IF Len(rest) + Len(next) > VertexCount(g)
           THEN [seen |-> Append(seen, u), fits |-> FALSE]
           ELSE DfsLoop(g, rest \o next, Append(seen, u))

Dfs(g, k) == IF VertexSearch(g, k) THEN DfsLoop(g, <<k>>, <<>>) ELSE Nothing

-----------------------------------------------------------------------------
(* The priority queue the algorithms keep, of a fixed capacity.            *)

Nearest(rank) == INSTANCE Heap WITH Rank <- rank

Queue(n) == [max |-> n, count |-> 0, data |-> [i \in 0..n |-> Null], locked |-> FALSE]

Waiting(q) == {q.data[i] : i \in 0..q.count - 1}

(* A queue that is full refuses and stays locked: the next call waits.     *)
Enqueue(q, rank, x) ==
  IF q.count < q.max THEN Nearest(rank)!Inserted(q, x) ELSE [q EXCEPT !.locked = TRUE]

Dequeue(q, rank) == Nearest(rank)!Extracted(q)

Ended(q) == q.count = 0 \/ q.locked

-----------------------------------------------------------------------------
(* Dijkstra.  What waits are the results themselves: a distance that is    *)
(* lowered changes the order of the queue under its feet.                  *)

(* Nothing reached but the start. *)
Unreached(g, k) ==
  [distance |-> [v \in Nodes(g) |-> IF v = k THEN 0 ELSE Far],
   previous |-> [v \in Nodes(g) |-> Null]]

ByDistance(st) == [v \in DOMAIN st.distance |-> -st.distance[v]]

(* Remember in "rekeyed" that the result lowered was waiting already.      *)
DijkstraRelax(g, st, u, v) ==
  LET alt == st.distance[u] + Weight(g, u, v)
      low == [st EXCEPT !.distance[v] = alt, !.previous[v] = u,
                        !.rekeyed = @ \/ v \in Waiting(st.queue)]
  IN  IF v \in st.visited \/ ~Adjoins(g, u, v) \/ alt >= st.distance[v] THEN st
      ELSE [low EXCEPT !.queue = Enqueue(@, ByDistance(low), v)]

RECURSIVE DijkstraLoop(_, _)
DijkstraLoop(g, st) ==
  IF Ended(st.queue) THEN st
  ELSE LET u == st.queue.data[0]
           rest == [st EXCEPT !.queue = Dequeue(@, ByDistance(st)), !.visited = @ \cup {u}]
       IN  DijkstraLoop(g, IF u \in st.visited THEN rest
                           ELSE FoldLeft(LAMBDA s, v : DijkstraRelax(g, s, u, v), rest,
                                         NeighborsGet(g, u)))

Dijkstra(g, k) ==
  LET start == Unreached(g, k) @@ [visited |-> {}, rekeyed |-> FALSE, queue |-> Queue(EdgeCount(g) + 1)]
  IN  IF ~VertexSearch(g, k) THEN Nothing
      ELSE DijkstraLoop(g, [start EXCEPT !.queue = Enqueue(@, ByDistance(start), k)])

-----------------------------------------------------------------------------
(* Bellman and Ford. *)

(* Whether v is nearer by way of u than the distances d tell.              *)
Shortens(g, d, u, v) == Adjoins(g, u, v) /\ d[u] + Weight(g, u, v) < d[v]

Lower(g, st, u, v) ==
  IF Shortens(g, st.distance, u, v)
  THEN [st EXCEPT !.distance[v] = st.distance[u] + Weight(g, u, v), !.previous[v] = u] ELSE st

(* Every edge once, from the vertices that are reached. *)
Round(g, st) ==
  FoldLeft(LAMBDA a, u : IF a.distance[u] = Far THEN a
                         ELSE FoldLeft(LAMBDA b, v : Lower(g, b, u, v), a, NeighborsGet(g, u)),
           st, VertexGet(g))

(* Mutant: one round less. *)
Rounds_Short(g, st) ==
  FoldLeft(LAMBDA a, i : Round(g, a), st, [i \in 1..VertexCount(g) - 2 |-> i])

Rounds(g, st) == FoldLeft(LAMBDA a, i : Round(g, a), st, [i \in 1..VertexCount(g) - 1 |-> i])

(* What could be lowered still is on a cycle of negative weight.           *)
Improves(g, st) ==
  \E u \in Nodes(g) : /\ st.distance[u] # Far
                      /\ \E v \in ToSet(NeighborsGet(g, u)) : Shortens(g, st.distance, u, v)

BellmanFord(g, k) ==
  LET st == Rounds(g, Unreached(g, k))
  IN  IF ~VertexSearch(g, k) \/ Improves(g, st) THEN Nothing ELSE st

-----------------------------------------------------------------------------
(* Floyd and Warshall. *)

(* The edges as distances; that of a vertex to itself takes the place of 0.*)
Direct(g) ==
  [u \in Nodes(g) |-> [v \in Nodes(g) |->
     IF v \in ToSet(NeighborsGet(g, u)) THEN Weight(g, u, v) ELSE IF u = v THEN 0 ELSE Far]]

(* From u to v by way of w. *)
By(m, w, u, v) ==
  IF m[u][w] # Far /\ m[w][v] # Far /\ m[u][w] + m[w][v] < m[u][v]
  THEN [m EXCEPT ![u][v] = m[u][w] + m[w][v]] ELSE m

(* Every w, u and v, v going round the fastest. *)
Triples(vs) ==
  FlattenSeq([i \in DOMAIN vs |-> FlattenSeq([j \in DOMAIN vs |->
    [k \in DOMAIN vs |-> <<vs[i], vs[j], vs[k]>>]])])

FloydWarshall(g) ==
  IF VertexCount(g) = 0 THEN Nothing
  ELSE FoldLeft(LAMBDA m, x : By(m, x[1], x[2], x[3]), Direct(g), Triples(VertexGet(g)))

-----------------------------------------------------------------------------
(* Johnson: weights made positive by a round of Bellman and Ford from      *)
(* everywhere at once, then Dijkstra from each vertex.  What waits here is *)
(* made for the purpose, <<v, distance>>, and is never changed.            *)

Potential(g) ==
  Rounds(g, [distance |-> [v \in Nodes(g) |-> 0], previous |-> [v \in Nodes(g) |-> Null]])

ByNode(s) == [x \in s |-> -x[2]]

JohnsonRelax(g, h, st, u, v) ==
  LET alt == st.row[u] + Weight(g, u, v) + h[u] - h[v]
  IN  IF ~Adjoins(g, u, v) \/ alt >= st.row[v] THEN st
      ELSE [st EXCEPT !.row[v] = alt,
                      !.queue = Enqueue(@, ByNode(Waiting(@) \cup {<<v, alt>>}), <<v, alt>>)]

RECURSIVE JohnsonLoop(_, _, _)
JohnsonLoop(g, h, st) ==
  IF Ended(st.queue) THEN st
  ELSE LET u == st.queue.data[0][1]
           rest == [st EXCEPT !.queue = Dequeue(@, ByNode(Waiting(@))), !.visited = @ \cup {u}]
       IN  JohnsonLoop(g, h, IF u \in st.visited THEN rest
                             ELSE FoldLeft(LAMBDA s, v : JohnsonRelax(g, h, s, u, v), rest,
                                           NeighborsGet(g, u)))

(* Dijkstra's loop from vertex k, to its end. *)
JohnsonEnd(g, h, k) ==
  LET first == <<k, 0>>
  IN  JohnsonLoop(g, h, [row     |-> [v \in Nodes(g) |-> IF v = k THEN 0 ELSE Far],
                         visited |-> {},
                         queue   |-> Enqueue(Queue(EdgeCount(g) + 1), ByNode({first}), first)])

(* Mutant: the weights stay as they were made. *)
JohnsonRow_Hat(g, h, k) == JohnsonEnd(g, h, k).row

(* The row of vertex k, with the weights as they were. *)
JohnsonRow(g, h, k) ==
  LET row == JohnsonEnd(g, h, k).row
  IN  [v \in Nodes(g) |-> IF row[v] = Far THEN Far ELSE row[v] - h[k] + h[v]]

Johnson(g) ==
  IF VertexCount(g) = 0 \/ Improves(g, Potential(g)) THEN Nothing
  ELSE [k \in Nodes(g) |-> JohnsonRow(g, Potential(g).distance, k)]

-----------------------------------------------------------------------------
(* Kruskal: edges by weight, each joining two sets of vertices.            *)

(* Sets of vertices: parent[i] leads to the one that stands for the set.   *)
Alone(n) == [parent |-> [i \in 1..n |-> i], rank |-> [i \in 1..n |-> 0]]

RECURSIVE Root(_, _)
Root(uf, i) == IF uf.parent[i] = i THEN i ELSE Root(uf, uf.parent[i])

(* Looking for the root leads every vertex on the way to it directly.      *)
RECURSIVE Find(_, _)
Find(uf, i) ==
  IF uf.parent[i] = i THEN uf
  ELSE LET up == Find(uf, uf.parent[i]) IN [up EXCEPT !.parent[i] = Root(up, i)]

(* Mutant: the vertex itself is moved, not what stands for its set. *)
Union_Leaf(uf, i, j) == [uf EXCEPT !.parent[i] = Root(uf, j)]

(* The set of less rank goes under the other. *)
Union(uf, i, j) ==
  LET r == Root(uf, i)
      s == Root(uf, j)
  IN  CASE r = s -> uf
        [] r # s /\ uf.rank[r] < uf.rank[s] -> [uf EXCEPT !.parent[r] = s]
        [] r # s /\ uf.rank[r] > uf.rank[s] -> [uf EXCEPT !.parent[s] = r]
        [] OTHER -> [uf EXCEPT !.parent[r] = s, !.rank[s] = @ + 1]

(* A graph of the same kind with the same vertices and no edges.           *)
Bare(g) ==
  FoldLeft(LAMBDA h, v : AddVertex(h, v).graph, Construct(g.storage, g.directed), VertexGet(g))

(* Every edge as <<u, v, weight>>; without directions the one of its two   *)
(* ends that is not the lesser leads.                                      *)
Collected(g) ==
  FlattenSeq([i \in 1..VertexCount(g) |->
    LET u == VertexGet(g)[i]
        kept == SelectSeq(NeighborsGet(g, u), LAMBDA v : (g.directed \/ u >= v) /\ Adjoins(g, u, v))
    IN  [j \in DOMAIN kept |-> <<u, kept[j], Weight(g, u, kept[j])>>]])

(* Two of the orders that qsort may leave edges of one weight in.          *)
Sorted(s) ==
  {SortSeq(s, LAMBDA a, b : a[3] < b[3]), Reverse(SortSeq(s, LAMBDA a, b : a[3] > b[3]))}

(* Take the edge unless its ends are in one set already. *)
Join(g, st, x) ==
  LET i == IndexOf(VertexGet(g), x[1])
      j == IndexOf(VertexGet(g), x[2])
      uf == Find(Find(st.sets, i), j)
  IN  IF Root(uf, i) = Root(uf, j) THEN [st EXCEPT !.sets = uf]
      ELSE [mst  |-> AddEdge(st.mst, x[1], x[2], EdgeSearch(g, x[1], x[2])[2]).graph,
            sets |-> Union(uf, i, j)]

(* The forests that may come of it.  An empty graph has one; vertices      *)
(* without any edge are a failure, as no memory is asked for.              *)
Kruskal(g) ==
  CASE VertexCount(g) = 0 -> {Bare(g)}
    [] VertexCount(g) # 0 /\ EdgeCount(g) = 0 -> {}
    [] OTHER -> {FoldLeft(LAMBDA st, x : Join(g, st, x),
                          [mst |-> Bare(g), sets |-> Alone(VertexCount(g))], s).mst :
                 s \in Sorted(Collected(g))}

-----------------------------------------------------------------------------
(* Prim: from the first vertex, always by the lightest edge that leads on. *)

ByWeight(s) == [x \in s |-> -x[3]]

Offer(g, q, u, v) ==
  LET x == <<u, v, Weight(g, u, v)>>
  IN  IF Adjoins(g, u, v) THEN Enqueue(q, ByWeight(Waiting(q) \cup {x}), x) ELSE q

RECURSIVE PrimLoop(_, _)
PrimLoop(g, st) ==
  IF Ended(st.queue) THEN st
  ELSE LET u == st.queue.data[0][1]
           v == st.queue.data[0][2]
           rest == [st EXCEPT !.queue = Dequeue(@, ByWeight(Waiting(@)))]
           on == SelectSeq(NeighborsGet(g, v), LAMBDA w : w \notin st.visited \cup {v})
       IN  PrimLoop(g, IF v \in st.visited THEN rest
                       ELSE [mst     |-> AddEdge(st.mst, u, v, EdgeSearch(g, u, v)[2]).graph,
                             visited |-> st.visited \cup {v},
                             queue   |-> FoldLeft(LAMBDA q, w : Offer(g, q, v, w), rest.queue, on)])

PrimEnd(g) ==
  LET first == VertexGet(g)[1]
      start == FoldLeft(LAMBDA q, v : Offer(g, q, first, v), Queue(EdgeCount(g) + 1),
                        NeighborsGet(g, first))
  IN  PrimLoop(g, [mst |-> Bare(g), visited |-> {first}, queue |-> start])

Prim(g) == IF VertexCount(g) = 0 THEN Bare(g) ELSE PrimEnd(g).mst

-----------------------------------------------------------------------------
(* What the results have to be, from the weights of the arcs alone: w is a *)
(* function of pairs of vertices, the weight of the edge that is found.    *)

Arcs(g) ==
  [l \in {x \in Nodes(g) \X Nodes(g) : Adjoins(g, x[1], x[2])} |-> Weight(g, l[1], l[2])]

(* Where arcs lead from k in n steps. *)
Reached(arcs, k, n) ==
  FoldLeft(LAMBDA s, i : s \cup {l[2] : l \in {x \in arcs : x[1] \in s}}, {k}, [i \in 1..n |-> i])

(* The paths from k that meet none of n vertices twice. *)
Paths(w, k, n) ==
  LET on(p) == {l[2] : l \in {x \in DOMAIN w : x[1] = Last(p) /\ x[2] \notin ToSet(p)}}
      paths[i \in 1..n] ==
        IF i = 1 THEN {<<k>>} ELSE UNION {{Append(p, v) : v \in on(p)} : p \in paths[i - 1]}
  IN  UNION {paths[i] : i \in 1..n}

Length(w, p) ==
  FoldLeft(LAMBDA sum, i : sum + w[<<p[i], p[i + 1]>>], 0, [i \in 1..Len(p) - 1 |-> i])

(* The distance from k to every vertex by the shortest of the paths.       *)
Shortest(g, w, paths) ==
  [v \in Nodes(g) |-> LET ways == {p \in paths : Last(p) = v}
                      IN  IF ways = {} THEN Far ELSE Min({Length(w, p) : p \in ways})]

(* A cycle of negative weight that starts where the paths do.              *)
NegativeCycle(w, paths) ==
  \E p \in paths : <<Last(p), p[1]>> \in DOMAIN w /\ Length(w, p) + w[<<Last(p), p[1]>>] < 0

(* Every vertex that is reached but k has the distance of the one before   *)
(* it and the weight of the arc from there.                                *)
Traced(w, st, k) ==
  \A v \in DOMAIN st.distance :
    IF st.distance[v] = Far \/ v = k THEN st.previous[v] = Null
    ELSE LET u == st.previous[v]
         IN  <<u, v>> \in DOMAIN w /\ st.distance[v] = st.distance[u] + w[<<u, v>>]

(* Each vertex visited is met from the last one visited that leads to any  *)
(* that is not.                                                            *)
DepthFirst(arcs, seen) ==
  \A i \in 2..Len(seen) :
    LET before == SubSeq(seen, 1, i - 1)
        on(u) == {l[2] : l \in {x \in arcs : x[1] = u}} \ ToSet(before)
    IN  seen[i] \in on(before[SelectLastInSeq(before, LAMBDA u : on(u) # {})])

(* Both traversals visit what can be reached, once: one the nearer first,  *)
(* the other going on from where it is while it can.  The second fails     *)
(* when more vertices wait than there are, for which there must be more    *)
(* arcs than vertices.                                                     *)
TraversalsRight(g) ==
  \A k \in Nodes(g) :
    LET arcs == DOMAIN Arcs(g)
        bfs == Bfs(g, k)
        dfs == Dfs(g, k)
        steps(v) == Min({n \in 0..VertexCount(g) : v \in Reached(arcs, k, n)})
        all == Reached(arcs, k, VertexCount(g))
    IN  /\ ToSet(bfs) = all /\ IsInjective(bfs)
        /\ \A i \in 2..Len(bfs) : steps(bfs[i - 1]) <= steps(bfs[i])
        /\ IsInjective(dfs.seen) /\ DepthFirst(arcs, dfs.seen)
        /\ IF dfs.fits THEN ToSet(dfs.seen) = all ELSE Cardinality(Links(g)) > VertexCount(g)

(* Bellman and Ford fail iff a negative cycle can be reached, and give the *)
(* distances otherwise.  Dijkstra's results are paths to all that can be   *)
(* reached, and the shortest if no weight is negative and no result was    *)
(* lowered that waited in the queue.                                       *)
FromOneRight(g) ==
  \A k \in Nodes(g) :
    LET w == Arcs(g)
        paths == Paths(w, k, VertexCount(g))
        shortest == Shortest(g, w, paths)
        ford == BellmanFord(g, k)
        dijkstra == Dijkstra(g, k)
    IN  /\ IF \E v \in Nodes(g) : shortest[v] # Far /\ NegativeCycle(w, Paths(w, v, VertexCount(g)))
           THEN ford = Nothing
           ELSE ford # Nothing /\ ford.distance = shortest /\ Traced(w, ford, k)
        /\ ~dijkstra.queue.locked /\ Traced(w, dijkstra, k)
        /\ \A v \in Nodes(g) : dijkstra.distance[v] = Far <=> shortest[v] = Far
        /\ (\A l \in DOMAIN w : w[l] >= 0) /\ ~dijkstra.rekeyed => dijkstra.distance = shortest

(* Johnson's rows are the distances from each vertex, whatever the signs,  *)
(* and there are none iff there is a negative cycle or no vertex.  Floyd   *)
(* and Warshall give the same but for the diagonal, which is that of an    *)
(* edge from a vertex to itself or of a cycle if that is less; of negative *)
(* cycles the diagonal tells.                                              *)
FromAllRight(g) ==
  LET w == Arcs(g)
      n == VertexCount(g)
      shortest == [k \in Nodes(g) |-> Shortest(g, w, Paths(w, k, n))]
      warshall == FloydWarshall(g)
      negative == \E k \in Nodes(g) : NegativeCycle(w, Paths(w, k, n))
  IN  IF n = 0 THEN warshall = Nothing /\ Johnson(g) = Nothing
      ELSE IF negative
      THEN Johnson(g) = Nothing /\ \E k \in Nodes(g) : warshall[k][k] < 0
      ELSE /\ Johnson(g) = shortest
           /\ \A k \in Nodes(g) : ~JohnsonEnd(g, Potential(g).distance, k).queue.locked
           /\ \A u, v \in Nodes(g) :
                IF u = v /\ <<u, v>> \in DOMAIN w
                THEN warshall[u][v] \in 0..w[<<u, v>>] ELSE warshall[u][v] = shortest[u][v]

(* The arcs of a graph in both directions. *)
Both(arcs) == arcs \cup {<<l[2], l[1]>> : l \in arcs}

(* The forest has no cycle, joins what the arcs join, and there is no arc  *)
(* lighter than all the arcs by which its ends are joined in the forest.   *)
MinimumForest(g, forest) ==
  LET w == Arcs(g)
      n == VertexCount(g)
      kept == DOMAIN Arcs(forest)
      parts == {Reached(Both(DOMAIN w), k, n) : k \in Nodes(g)}
      upTo(x) == {l \in kept : Arcs(forest)[l] <= x}
  IN  /\ VertexGet(forest) = VertexGet(g) /\ Links(forest) \subseteq Links(g)
      /\ Cardinality(Stored(forest)) = n - Cardinality(parts)
      /\ \A l \in DOMAIN w : l[2] \in Reached(Both(upTo(w[l])), l[1], n)

(* Kruskal's result is a minimum spanning forest of the graph, Prim's that *)
(* of the part that can be reached from the first vertex.  With directions *)
(* Kruskal pays no heed to them, and Prim's tree is any.                   *)
ForestsRight(g) ==
  /\ \A forest \in Kruskal(g) : MinimumForest(g, forest)
  /\ VertexCount(g) = 0 \/ EdgeCount(g) # 0 => Kruskal(g) # {}
  /\ LET tree == Prim(g)
         first == VertexGet(g)[1]
         n == VertexCount(g)
         part == Reached(DOMAIN Arcs(g), first, n)
     IN  IF n = 0 THEN Nodes(tree) = {}
         ELSE /\ ~PrimEnd(g).queue.locked
              /\ VertexGet(tree) = VertexGet(g) /\ Links(tree) \subseteq Links(g)
              /\ Reached(DOMAIN Arcs(tree), first, n) = part
              /\ Cardinality(Stored(tree)) = Cardinality(part) - 1
              /\ ~g.directed =>
                   \A l \in DOMAIN Arcs(g) : l[1] \in part =>
                     l[2] \in Reached({x \in DOMAIN Arcs(tree) : Arcs(tree)[x] <= Arcs(g)[l]}, l[1], n)

(* The algorithms on every graph whose edges are counted right, however it *)
(* is stored.  Breadth first search, Bellman and Ford, Johnson and, on     *)
(* graphs without directions, Prim give what they are for.  The others do  *)
(* but for the cases named above: depth first search where its stack has   *)
(* no room, Dijkstra where a result was lowered while it waited, Floyd and *)
(* Warshall on the diagonal, and Kruskal on vertices without any edge.     *)
(* None of Dijkstra, Johnson and Prim waits for a queue it locked itself.  *)
AlgorithmsRight ==
  Seen /\ ~Off /\ Stored(graph) \cap Fresh = {} =>
    /\ TraversalsRight(graph) /\ FromOneRight(graph)
    /\ FromAllRight(graph) /\ ForestsRight(graph)

-----------------------------------------------------------------------------
(* What the comments of the source promise and the code does not keep.     *)

(* Dijkstra is to "Calculate SSSP": the shortest paths from the start,     *)
(* whenever no weight is negative.                                         *)
DijkstraShortest ==
  \A k \in Nodes(graph) :
    LET w == Arcs(graph)
    IN  (\A l \in DOMAIN w : w[l] >= 0) =>
          Dijkstra(graph, k).distance = Shortest(graph, w, Paths(w, k, VertexCount(graph)))

=============================================================================
