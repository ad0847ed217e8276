----------------------------- MODULE Subsequence -----------------------------
(***************************************************************************)
(* The rows of a query in table order, and a list without the entries that *)
(* a loop passed over.  (SelectSeq of Sequences, in a form that proofs can  *)
(* look into.)                                                             *)
(***************************************************************************)
EXTENDS Naturals, Sequences

\* The elements of s that are in S, in the order of s.
Subsequence(s, S) ==
    LET taken[i \in 0..Len(s)] ==
            IF i = 0 THEN <<>>
            ELSE IF s[i] \in S THEN Append(taken[i - 1], s[i])
            ELSE taken[i - 1]
    IN  taken[Len(s)]

=============================================================================
