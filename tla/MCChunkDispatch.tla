-------------------------- MODULE MCChunkDispatch --------------------------
(***************************************************************************)
(* ChunkDispatch, and what it implements, for TLC.  The sets of goroutines *)
(* are model values; the handlers of two connections are interchangeable.  *)
(***************************************************************************)
EXTENDS ChunkRefinement, TLC

Symmetry == Permutations(Conns)
=============================================================================
