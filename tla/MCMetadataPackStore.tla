------------------------ MODULE MCMetadataPackStore ------------------------
(* A small instance of MetadataPackStore.                                   *)
EXTENDS MetadataPackStore

(* Two packs of one owner and one of another.                               *)
Owners3 == <<1, 1, 2>>
Sizes3 == <<1, 2, 2>>

=============================================================================
