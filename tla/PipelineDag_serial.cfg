SPECIFICATION FairSpec
CONSTANTS
  A = A  B = B  C = C  D = D
  Tasks = {A, B, C, D}
  BlockEdges <- DiamondBlock
  ContinueEdges <- DiamondContinue
  TopoIndex <- MCTopo
  Main = main
  Remote = {}
INVARIANTS DepsRespected RecordOfRunIsTrue NothingLeftToReconcile
PROPERTIES BootRepairs
