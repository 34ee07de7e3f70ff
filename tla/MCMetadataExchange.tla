------------------------- MODULE MCMetadataExchange -------------------------
(* Two chunks of different sizes and prefixes, two trees (one has no file), *)
(* two snapshots, packs of two data shards and a parity shard, one loss.    *)
EXTENDS MetadataExchange

CONSTANTS v1, v2, n1, n2, n3

MCChunk == {"c1", "c2"}
MCSize == "c1" :> 1 @@ "c2" :> 2
MCPrefix == "c1" :> "0a" @@ "c2" :> "0b"
Entry(type, t) == [type |-> type, mtime |-> t]
MCTrees == {(<<>> :> Entry("dir", 1)) @@ (<<"a">> :> Entry("dir", -1)),
            (<<>> :> Entry("dir", -1)) @@ (<<"a">> :> Entry("dir", 1)) @@ (<<"a", "b">> :> Entry("file", 1))}
MCContents == {<<"c1">>, <<"c2", "c1">>}
Perms == Permutations(Vault) \cup Permutations(Node)
MCUuid == {1, 2}
MCSeconds == {1}
MCSpec == <<2, 1>>
MCStates == {"PLACED"}
=============================================================================
