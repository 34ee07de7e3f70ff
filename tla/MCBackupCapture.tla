--------------------------- MODULE MCBackupCapture ---------------------------
(* Small trees for BackupCapture.                                            *)
EXTENDS BackupCapture

(* two files that share a chunk; an edit gives f one more and g another      *)
SharedContent ==
    [x \in {"f", "g"} |-> [v \in 0..MaxVer |->
        IF v = 0 THEN <<"a">> ELSE IF x = "f" THEN <<"b", "a">> ELSE <<"b">>]]
=============================================================================
