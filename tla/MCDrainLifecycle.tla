--------------------------- MODULE MCDrainLifecycle ---------------------------
(* One node with two data RPCs, one membership RPC, a CLI operation and a stop
   client: enough for a release, a cancellation, a refused registration and a
   lease to race with the drain. *)
EXTENDS DrainLifecycle
=============================================================================
