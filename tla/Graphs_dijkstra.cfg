SPECIFICATION Spec
CONSTANTS
  Vertex <- MCVertex
  Edge <- MCEdge
  Given <- MCLowered
  Fresh <- MCFresh
  Key <- MCKey
  Few = 3
  Room = 2
  Word = 32
  Far <- MCFar
  Null = Null
  Nothing = Nothing
INVARIANT DijkstraShortest
