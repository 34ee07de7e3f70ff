----------------------------- MODULE MCMembership -----------------------------
(* Two nodes.  a persists up to three incarnations, which is enough for two
   restarts, a refutation and a restart, or two refutations; b watches it and
   may itself be suspected, but never starts again. *)
EXTENDS Membership

CONSTANTS a, b

MCMaxInc == [n \in Node |-> IF n = a THEN 3 ELSE 1]

=============================================================================
