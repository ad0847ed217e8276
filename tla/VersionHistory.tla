--------------------------- MODULE VersionHistory ---------------------------
(***************************************************************************)
(* What the backup store promises whoever restores a file: each path has a *)
(* history of versions, numbered from 1, that only ever grows at its end.  *)
(* An upload enters it once, under a name that has a file, and a name that *)
(* has a file keeps one.                                                   *)
(***************************************************************************)
EXTENDS Naturals, Sequences

CONSTANTS Uploads, Paths, Names, PathOf

VARIABLES
    files,   \* names with a file
    history  \* history[p][i]: upload and name of version i of p

vars == <<files, history>>

Init == files = {} /\ history = [p \in Paths |-> <<>>]

Enters(u) == \A p \in Paths : \A i \in DOMAIN history[p] : history[p][i].upload # u

Save(n) ==
    /\ files' = files \union {n}
    /\ UNCHANGED history

Record(u, n) ==
    /\ n \in files /\ Enters(u)
    /\ history' = [history EXCEPT ![PathOf[u]] = Append(@, [upload |-> u, name |-> n])]
    /\ UNCHANGED files

Next == \E n \in Names : Save(n) \/ \E u \in Uploads : Record(u, n)

Spec == Init /\ [][Next]_vars
=============================================================================
