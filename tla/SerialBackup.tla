---------------------------- MODULE SerialBackup ----------------------------
(***************************************************************************)
(* What the automatic backup promises for a path: its backups follow one   *)
(* another.  One starts only when the last has ended, and stores at most   *)
(* one version.                                                            *)
(***************************************************************************)
EXTENDS Naturals

CONSTANTS Paths, Versions

VARIABLES
    busy,   \* paths whose backup is under way and has stored nothing yet
    ending, \* paths whose backup has stored its version
    stored  \* stored[p]: the version last stored, 0 for none

vars == <<busy, ending, stored>>

Init == busy = {} /\ ending = {} /\ stored = [p \in Paths |-> 0]

Start(p) ==
    /\ p \notin busy \union ending
    /\ busy' = busy \union {p}
    /\ UNCHANGED <<ending, stored>>

Store(p) ==
    /\ p \in busy
    /\ busy' = busy \ {p}
    /\ ending' = ending \union {p}
    /\ \E v \in Versions : stored' = [stored EXCEPT ![p] = v]

End(p) ==
    /\ p \in busy \union ending
    /\ busy' = busy \ {p}
    /\ ending' = ending \ {p}
    /\ UNCHANGED stored

Next == \E p \in Paths : Start(p) \/ Store(p) \/ End(p)

Spec == Init /\ [][Next]_vars
=============================================================================
