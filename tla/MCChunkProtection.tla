-------------------------- MODULE MCChunkProtection --------------------------
(* Two nodes, of which the chunk prefers the first.                          *)
EXTENDS ChunkProtection

Score2 == [c \in {"c"} |-> [n \in {1, 2} |-> 2 - n]]
=============================================================================
