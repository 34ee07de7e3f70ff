------------------------- MODULE MCErasureProtection -------------------------
(* Instances of ErasureProtection for TLC.                                  *)
EXTENDS ErasureProtection, TLC

CONSTANTS n1, n2, n3, c1, c2

Nodes3 == {n1, n2, n3}
TwoChunks == <<c1, c2>>
Sizes == [c \in {c1, c2} |-> 2]

(* the packs that can be formed, with scores that differ from pack to pack   *)
Ranks == (<<c1>> :> <<n1, n2, n3>>) @@ (<<c2>> :> <<n3, n1, n2>>) @@ (<<c1, c2>> :> <<n2, n3, n1>>)

(* pushes by hand of the first chunk only, beside the scheduled one of both   *)
First == {{c1}}
Mirror == {<<1, 1>>}
=============================================================================
