--------------------------- MODULE EvidenceAlgorithms ---------------------------
(*****************************************************************************)
(* The two algorithms that decide what a model may read of a repository: a   *)
(* file is cut into chunks, and stored chunks are ranked for an issue.  They *)
(* share the task and the database only, and the one consumer of the         *)
(* repository queue is in one of them at a time.                             *)
(*****************************************************************************)
EXTENDS SourceChunks, HybridRanking

vars == <<chunkingVars, rankingVars>>

Init == ChunkInit /\ RankingInit

Next == \/ phase = "idle" /\ ChunkNext /\ UNCHANGED rankingVars
        \/ stage = "visit" /\ lines = <<>> /\ RankingNext /\ UNCHANGED chunkingVars

Spec == Init /\ [][Next]_vars

===============================================================================
