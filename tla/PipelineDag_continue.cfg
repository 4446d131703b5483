SPECIFICATION HookedSpec
CONSTANTS
  A = A  B = B  C = C  D = D
  Tasks = {A, B, C}
  BlockEdges <- ChainBlock
  ContinueEdges <- ChainContinue
  TopoIndex <- MCTopo
  Main = main
  Remote = {}
INVARIANTS NoReadyTaskLeftBlocked
