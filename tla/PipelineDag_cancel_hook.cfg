SPECIFICATION Spec
CONSTANTS
  A = A  B = B  C = C  D = D
  Tasks = {A, B, C}
  BlockEdges <- LineBlock
  ContinueEdges <- NoEdges
  TopoIndex <- MCTopo
  Main = main
  Remote = {}
INVARIANTS NoDoomedTaskLeftPending
