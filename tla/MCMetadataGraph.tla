--------------------------- MODULE MCMetadataGraph ---------------------------
(* An instance of MetadataGraph for TLC.                                    *)
EXTENDS MetadataGraph

(* each content has a catalogue of its own and shares a tree with another   *)
Shared == [n \in State |-> {<<"catalog", n>>, <<"tree", (n + 1) \div 2>>}]
=============================================================================
