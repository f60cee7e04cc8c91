--------------------------- MODULE ChunkRefinement ---------------------------
(***************************************************************************)
(* ChunkDispatch implements CheckpointedScan: the parts of the target are  *)
(* the chunks, a part is faulty once scan_chunks.attempts counts a failure *)
(* of it, and the agent is reachable while its tunnel is attached to a     *)
(* connection.                                                             *)
(***************************************************************************)
EXTENDS ChunkDispatch

Outcome == IF scan \in Active THEN "open" ELSE scan
Faulty  == {c \in Chunks : attempts[c] > 0}

Checkpointed == INSTANCE CheckpointedScan
    WITH Target <- Chunks, outcome <- Outcome, covered <- scanned,
         faulty <- Faulty, reachable <- (link # None)

(* Whatever is lost, retried or handled twice, the outcome announced for a *)
(* parent is one that the abstract scan could announce: complete only with *)
(* the whole target covered, failed only after a chunk failed or while no  *)
(* agent is connected.                                                     *)
ImplementsCheckpointedScan == Checkpointed!Spec
=============================================================================
