--------------------------- MODULE MCPipelineDag ---------------------------
(* Instances of PipelineDag: the DAGs, their topological order, the threads. *)
EXTENDS PipelineDag

CONSTANTS A, B, C, D

MCTopo == [t \in Tasks |-> CASE t = A -> 0 [] t = B -> 1 [] t = C -> 2 [] OTHER -> 3]

NoEdges == {}

\* A <- B blocking, B <- C continue on error.
ChainBlock == {<<B, A>>}
ChainContinue == {<<C, B>>}

\* A diamond A <- B, A <- C, B <- D, C <- D whose edge A <- C continues on error.
DiamondBlock == {<<B, A>>, <<D, B>>, <<D, C>>}
DiamondContinue == {<<C, A>>}

\* A <- B <- C, all blocking.
LineBlock == {<<B, A>>, <<C, B>>}
=============================================================================
