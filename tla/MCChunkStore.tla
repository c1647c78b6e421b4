---------------------------- MODULE MCChunkStore ----------------------------
(* Instances of ChunkStore for TLC.                                        *)
EXTENDS ChunkStore, TLC

CONSTANTS a, b

Bytes == Permutations({a, b})

=============================================================================
