-------------------------- MODULE MCAdminConsole ----------------------------
(* Two devices; one has two directories, more than fit on a page, and a      *)
(* directory in the first of them.  Two commands, with one and two fields.   *)
EXTENDS AdminConsole

CONSTANTS v1, v2, a, b, c

MCOwner  == [d \in {a, b, c} |-> v1]
MCParent == [d \in {a, b, c} |-> IF d = b THEN a ELSE Root]
MCFields == <<1, 2>>
=============================================================================
