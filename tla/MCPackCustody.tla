--------------------------- MODULE MCPackCustody ---------------------------
(* Instances of PackCustody for TLC.                                        *)
EXTENDS PackCustody, TLC

CONSTANTS r1, r2

Commands == {r1, r2}
Symmetry == Permutations(Commands)

(* scores that differ from pack to pack *)
Scores == <<<<1, 2>>, <<2, 1>>>>
=============================================================================
