--------------------------- MODULE MCChunkAccess ---------------------------
(* The instance of ChunkAccess that TLC checks: see MCChunkAccess.cfg. *)
EXTENDS ChunkAccess, TLC
=============================================================================
