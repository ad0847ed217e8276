------------------------- MODULE MCBackupScheduler --------------------------
(* The directory /d with the file /d/x, and the file or directory /w/f; the  *)
(* directory /w is watched on its own as well.                               *)
EXTENDS BackupScheduler

CONSTANTS f, d, x, t1, t2

MCDir     == [p \in {f, d, x} |-> CASE p = f -> "/w" [] p = d -> "/" [] p = x -> "/d"]
MCBelow   == [p \in {f, d, x} |-> IF p = d THEN {x} ELSE {}]
Nested    == [t \in {t1, t2} |-> IF t = t1 THEN {f, d, x} ELSE {f}]
=============================================================================
