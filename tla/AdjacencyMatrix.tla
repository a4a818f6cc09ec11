--------------------------- MODULE AdjacencyMatrix ---------------------------
(***************************************************************************)
(* src/data/adjacency_matrix/adjacency_matrix.c: a cell for every pair of  *)
(* vertices, in a square that is larger than the vertices need.            *)
(***************************************************************************)
EXTENDS GraphStorage

Construct(directed) ==
  [storage |-> "matrix", directed |-> directed, vertices |-> <<>>, capacity |-> 0,
   cells |-> <<>>, counted |-> 0]

VertexIndexGet(g, k) == IndexOf(g.vertices, k)

(* The places that hold vertices. *)
Places(g) == 1..Len(g.vertices)

VertexSearch(g, k) == VertexIndexGet(g, k) # 0
VertexCount(g) == Len(g.vertices)
EdgeCount(g) == g.counted

EdgeSearch(g, u, v) ==
  IF VertexSearch(g, u) /\ VertexSearch(g, v)
     /\ g.cells[VertexIndexGet(g, u)][VertexIndexGet(g, v)] # Null
  THEN Taken(g.cells[VertexIndexGet(g, u)][VertexIndexGet(g, v)]) ELSE Nothing

NeighborsGet(g, k) ==
  SelectSeq(g.vertices, LAMBDA v : EdgeSearch(g, k, v) # Nothing)

VertexDegree(g, k) ==
  LET i == VertexIndexGet(g, k)
  IN  [in  |-> Cardinality({j \in Places(g) : g.cells[j][i] # Null}),
       out |-> Cardinality({j \in Places(g) : g.cells[i][j] # Null})]

(* Twice the room, or the first, with the used square copied.              *)
Grown(g) ==
  LET c == IF g.capacity = 0 THEN Room ELSE 2 * g.capacity
  IN  [g EXCEPT !.capacity = c,
                !.cells = [i \in 1..c |-> [j \in 1..c |->
                             IF {i, j} \subseteq Places(g) THEN g.cells[i][j] ELSE Null]]]

(* The cells of the new vertex are not written.  Another vertex with its   *)
(* key is not looked for: the callers see to it.                           *)
VertexAdd(g, v) ==
  LET h == IF Len(g.vertices) >= g.capacity THEN Grown(g) ELSE g
  IN  Result([h EXCEPT !.vertices = Append(@, v)], Done)

(* Mutant: the column stays where it was. *)
MoveLast_RowOnly(g, i) ==
  LET n == Len(g.vertices)
      rows == [g.cells EXCEPT ![i] = g.cells[n]]
  IN  [r \in 1..g.capacity |-> [c \in 1..g.capacity |->
         IF (c = n /\ r <= n) \/ r = n THEN Null ELSE rows[r][c]]]

(* The row and the column of the last vertex take the place of those at i. *)
MoveLast(g, i) ==
  LET n == Len(g.vertices)
      rows == [g.cells EXCEPT ![i] = g.cells[n]]
  IN  [r \in 1..g.capacity |-> [c \in 1..g.capacity |->
         IF (c = n /\ r <= n) \/ r = n THEN Null
         ELSE IF c = i /\ r <= n THEN rows[r][n] ELSE rows[r][c]]]

(* The cells that are emptied with the vertex at i, as pairs of places, in *)
(* the order their edges are released.                                     *)
Incident(g, i) ==
  LET At(r, c) == IF g.cells[r][c] = Null THEN <<>> ELSE <<<<r, c>>>>
  IN  FlattenSeq([j \in Places(g) |->
        At(i, j) \o (IF g.directed /\ j # i THEN At(j, i) ELSE <<>>)])

VertexRemove(g, k) ==
  LET i == VertexIndexGet(g, k)
      gone == Incident(g, i)
      At(r, c) == <<r, c>> \in ToSet(gone) \/ (~g.directed /\ <<c, r>> \in ToSet(gone))
      h == [g EXCEPT !.counted = (@ - Ways(g) * Len(gone)) % Word,
                     !.cells = [r \in 1..g.capacity |-> [c \in 1..g.capacity |->
                                  IF At(r, c) THEN Null ELSE g.cells[r][c]]]]
  IN  IF i = 0 THEN Result(g, Nothing)
      ELSE Result([h EXCEPT !.cells = MoveLast(h, i),
                            !.vertices = SubSeq([@ EXCEPT ![i] = Last(g.vertices)],
                                                1, Len(g.vertices) - 1)],
                  Released(k, [x \in 1..Len(gone) |-> g.cells[gone[x][1]][gone[x][2]]]))

(* The cell of <<u, v>>, and its mirror image when there are no directions.*)
Write(g, u, v, e) ==
  LET i == VertexIndexGet(g, u)
      j == VertexIndexGet(g, v)
      one == [g EXCEPT !.cells[i][j] = e]
  IN  IF g.directed THEN one ELSE [one EXCEPT !.cells[j][i] = e]

(* What was in the cell goes unseen, and is counted on.                    *)
EdgeAdd(g, u, v, e) ==
  IF VertexSearch(g, u) /\ VertexSearch(g, v)
  THEN Result([Write(g, u, v, e) EXCEPT !.counted = (@ + Ways(g)) % Word], Done)
  ELSE Result(g, Nothing)

(* An empty cell is emptied as well, and counted.                          *)
EdgeRemove(g, u, v) ==
  IF VertexSearch(g, u) /\ VertexSearch(g, v)
  THEN Result([Write(g, u, v, Null) EXCEPT !.counted = (@ - Ways(g)) % Word],
              Taken(g.cells[VertexIndexGet(g, u)][VertexIndexGet(g, v)]))
  ELSE Result(g, Nothing)

(* The edges in those cells, row by row. *)
RowByRow(g, cells) ==
  FlattenSeq([i \in Places(g) |-> FlattenSeq([j \in Places(g) |->
    IF <<i, j>> \in cells /\ g.cells[i][j] # Null THEN <<g.cells[i][j]>> ELSE <<>>])])

VertexForeach(g) == g.vertices
EdgeForeach(g) ==
  RowByRow(g, {c \in Places(g) \X Places(g) : g.directed \/ c[1] <= c[2]})

Pack(g) ==
  [directed |-> g.directed, vertices |-> g.vertices,
   cells |-> [i \in Places(g) |-> [j \in Places(g) |-> g.cells[i][j]]]]

(* What is counted is the cells that are not empty. *)
Unpack(p) ==
  LET n == Len(p.vertices)
      g == FoldLeft(LAMBDA h, v : VertexAdd(h, v).graph, Construct(p.directed), p.vertices)
  IN  [g EXCEPT !.cells = [i \in 1..g.capacity |-> [j \in 1..g.capacity |->
                             IF {i, j} \subseteq 1..n THEN p.cells[i][j] ELSE Null]],
                !.counted = Cardinality({c \in (1..n) \X (1..n) : p.cells[c[1]][c[2]] # Null})]

Hash(g) == Hashed(g.vertices, RowByRow(g, Places(g) \X Places(g)))

(* Without directions each edge is in two cells, and passed twice.         *)
Destroy(g) == Freed(g.vertices, RowByRow(g, Places(g) \X Places(g)))

-----------------------------------------------------------------------------
(* What it means, and what must hold. *)

Links(g) ==
  {<<g.vertices[c[1]], g.vertices[c[2]], g.cells[c[1]][c[2]]>> :
     c \in {d \in Places(g) \X Places(g) : g.cells[d[1]][d[2]] # Null}}

TypeOK(g) ==
  /\ Len(g.vertices) <= g.capacity
  /\ DOMAIN g.cells = 1..g.capacity
  /\ \A i \in 1..g.capacity : g.cells[i] \in [1..g.capacity -> Edge \cup {Null}]
  /\ g.counted \in 0..Word - 1

(* A vertex to come finds its cells empty; without directions a cell and   *)
(* its mirror image are the same.                                          *)
Sound(g) ==
  \A i, j \in 1..g.capacity :
    /\ ~({i, j} \subseteq Places(g)) => g.cells[i][j] = Null
    /\ ~g.directed => g.cells[i][j] = g.cells[j][i]

=============================================================================
