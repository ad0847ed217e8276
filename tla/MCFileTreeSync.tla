--------------------------- MODULE MCFileTreeSync ---------------------------
(* A directory with one file in it; or a file in the root only.              *)
EXTENDS FileTreeSync

CONSTANTS d, f, g

MCDirs   == {<<d>>}
OneFile  == {<<d>>, <<d, f>>}
RootFile == {<<g>>}
NoDirs   == {}
=============================================================================
