------------------------------ MODULE MCRestore ------------------------------
(* Instances of Restore for TLC.                                            *)
EXTENDS Restore, TLC

CONSTANTS f1, f2, c1, c2

TwoFiles == <<f1, f2>>
Chain == <<"cas", "p2p", "replica">>
Network == {"replica"}

(* a file of two chunks, and one of a single chunk                          *)
Recipes == (f1 :> <<c1, c2>>) @@ (f2 :> <<c2>>)

(* nothing local, a damaged copy of c1 in the store of the node, all at the replica *)
OnlyReplica == LET All(x) == [c \in Chunk |-> x]
               IN {[s \in ToSet(Chain) |->
                      IF s = "replica" THEN All("good")
                      ELSE IF s = "p2p" THEN [All("none") EXCEPT ![c1] = "bad"] ELSE All("none")]}
(* one file, with all its chunks in the local store                          *)
OneFile == <<f1>>
OneSource == <<"cas">>
OneRecipe == (f1 :> <<c1, c2>>)
AllLocal == {[s \in ToSet(OneSource) |-> [c \in Chunk |-> "good"]]}
=============================================================================
