----------------------------- MODULE MCLtmTree -----------------------------
(***************************************************************************)
(* Small instances of LtmBrowse, and so of LtmTree, for TLC.               *)
(***************************************************************************)
EXTENDS LtmBrowse

CONSTANTS p, q, d

\* A daemon configured with one branch, and later with a branch inside it.
Growing == {<<<<"work">>>>, <<<<"work", "ideas">>>>}

\* "plain" is near `work' and, once it exists, nearer `ideas'; "vague" is about
\* as near to both; "stray" is near the root alone, which is no target.
Near(t, name) ==
    CASE name = "root" -> 1
      [] t = "plain" /\ name = "work"  -> 3
      [] t = "plain" /\ name = "ideas" -> 2
      [] t = "vague" /\ name = "work"  -> 3
      [] t = "vague" /\ name = "ideas" -> 3
      [] OTHER -> 9
Distances == [t \in Texts |-> [x \in Names \X {"curated", "rolled"} |->
                 IF x[2] = "rolled" THEN 9 ELSE Near(t, x[1])]]
=============================================================================
