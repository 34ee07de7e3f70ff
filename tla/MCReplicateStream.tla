-------------------------- MODULE MCReplicateStream --------------------------
(* One stream that sends a chunk, a request without hash and an invalid chunk
   through one slot. *)
EXTENDS ReplicateStream, TLC

CONSTANTS s1, c1, c2

OneStream == (s1 :> <<c1, NoHash, c2>>)

=============================================================================
