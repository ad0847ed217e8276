--------------------------- MODULE MCBackupUpload ---------------------------
(* Two uploads, one of two chunks and one of a single chunk: of one file (two *)
(* of its saves), or of two files with the same base name (a/notes.txt and    *)
(* b/notes.txt).  With Wrap = 1 the longer file is larger than 2^32 bytes.    *)
EXTENDS BackupUpload

CONSTANTS u1, u2, p1, p2, b

MCUploads == {u1, u2}
MCPaths   == {p1, p2}
MCBaseOf  == [p \in MCPaths |-> b]
MCChunks  == [u \in MCUploads |-> IF u = u1 THEN 2 ELSE 1]

SamePath  == [u \in MCUploads |-> p1]
TwoPaths  == [u \in MCUploads |-> IF u = u1 THEN p1 ELSE p2]
=============================================================================
