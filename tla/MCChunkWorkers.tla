--------------------------- MODULE MCChunkWorkers ---------------------------
(* Small instances of ChunkWorkers for TLC. *)
EXTENDS ChunkWorkers, TLC

CONSTANTS r1, r2, r3, c1, c2, w1, w2, w3

\* Three callers contend for one chunk.
OneChunk == [r \in {r1, r2, r3} |-> c1]

\* Two callers contend for one chunk; a third uses another.
TwoChunks == (r1 :> c1) @@ (r2 :> c1) @@ (r3 :> c2)

=============================================================================
