------------------------------ MODULE MCGraphs ------------------------------
(***************************************************************************)
(* Graphs for TLC: every directed graph of three vertices, weighed in      *)
(* three ways, every one without directions with weights -1, 1 and 3, and  *)
(* others for what these cannot show, each in the three storages.          *)
(***************************************************************************)
EXTENDS GraphAlgorithms

(* The graph with n vertices and an edge for every pair w is defined for,  *)
(* added in the order of the pairs.                                        *)
Weighted(n, directed, w) ==
  LET edge(a) == IF a \in DOMAIN w THEN <<<<a[1], a[2], [name |-> a, weight |-> w[a]]>>>> ELSE <<>>
  IN  [directed |-> directed, vertices |-> [i \in 1..n |-> i],
       arcs |-> FlattenSeq([i \in 1..n |-> FlattenSeq([j \in 1..n |-> edge(<<i, j>>)])])]

(* Every such graph with some of the pairs. *)
EveryGraph(n, directed, pairs, weights) ==
  {Weighted(n, directed, w) : w \in UNION {[p -> weights] : p \in SUBSET pairs}}

Pairs(n)  == {p \in (1..n) \X (1..n) : p[1] < p[2]}
Arcs3     == {p \in (1..3) \X (1..3) : p[1] # p[2]}

(* Alike, lighter back than forth, and lighter round than back.            *)
Weights3 ==
  {[a \in Arcs3 |-> 1], [a \in Arcs3 |-> IF a[1] < a[2] THEN 4 ELSE a[1] - a[2]],
   [a \in Arcs3 |-> IF a \in {<<1, 2>>, <<2, 3>>, <<3, 1>>} THEN 1 ELSE 3]}

(* Two vertices with an edge from each to itself. *)
Loops == EveryGraph(2, TRUE, {<<1, 1>>, <<1, 2>>, <<2, 1>>, <<2, 2>>}, {-1, 2})

(* The results for 3 and 4 are lowered while they wait, which leaves the   *)
(* queue out of order: Dijkstra takes 3 before 4 and gives 6 for it, not 3.*)
Lowered ==
  Weighted(4, TRUE, [a \in {<<1, 2>>, <<1, 3>>, <<1, 4>>, <<2, 3>>, <<2, 4>>, <<4, 3>>} |->
    CASE a = <<1, 2>> -> 1 [] a = <<1, 3>> -> 9 [] a = <<1, 4>> -> 10
      [] a = <<2, 3>> -> 5 [] a = <<2, 4>> -> 1 [] a = <<4, 3>> -> 1])

(* Two edges from 1 to 2 and two from 1 to 3: too many for the stack.      *)
Doubled(directed) ==
  LET edge(i, w) == [name |-> <<i, i>>, weight |-> w]
  IN  [directed |-> directed, vertices |-> <<1, 2, 3>>,
       arcs |-> <<<<1, 2, edge(1, 3)>>, <<1, 3, edge(2, 2)>>, <<1, 2, edge(3, 1)>>,
                  <<1, 3, edge(4, 4)>>, <<3, 2, edge(5, 1)>>>>]

Full(n) == Weighted(n, FALSE, [a \in Pairs(n) |-> (3 * a[1] + 5 * a[2]) % 7])

MCGiven ==
  {Weighted(0, d, <<>>) : d \in BOOLEAN}
  \cup {Weighted(3, TRUE, [a \in p |-> w[a]]) : p \in SUBSET Arcs3, w \in Weights3}
  \cup EveryGraph(3, FALSE, Pairs(3), {-1, 1, 3})
  \cup EveryGraph(3, TRUE, {<<1, 2>>, <<2, 3>>, <<3, 1>>, <<1, 3>>}, {-1, 2})
  \cup Loops
  \cup {Lowered, Full(4), Full(5), Doubled(TRUE), Doubled(FALSE)}

MCLowered == {Lowered}

MCVertex == 1..5
MCKey    == 1..3
MCFresh  == {[name |-> <<0, i>>, weight |-> i] : i \in 1..2}
MCEdge   == MCFresh \cup [name : MCVertex \X MCVertex, weight : -1..10]

MCFar == 1000

=============================================================================
