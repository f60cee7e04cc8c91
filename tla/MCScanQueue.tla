----------------------------- MODULE MCScanQueue -----------------------------
(***************************************************************************)
(* ScanQueue for TLC.                                                      *)
(***************************************************************************)
EXTENDS ScanQueue, TLC

Symmetry == Permutations(Conns)
=============================================================================
