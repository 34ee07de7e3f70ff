---------------------------- MODULE MCClientStream ----------------------------
(* Two chunks through a queue of one: with one chunk being sent the other fills
   the queue, before put(), finish() and cancel() alike. *)
EXTENDS ClientStream
=============================================================================
