---------------------------- MODULE MCWorkspace ----------------------------
(***************************************************************************)
(* Small instances of Workspace for TLC.                                   *)
(***************************************************************************)
EXTENDS Workspace, TLC

CONSTANTS p, q, gemma, minilm

\* Two models whose vectors a table cannot tell apart.
SameDims == (gemma :> 1) @@ (minilm :> 1)

Made(k, version, m, vecs) ==
    [version |-> version, kind |-> k, whole |-> TRUE, model |-> m,
     dim |-> IF m = None THEN 0 ELSE Dim[m],
     table |-> IF m = None THEN 1 ELSE Dim[m], vecs |-> vecs]
Pair(version, m, vecs) == [k \in Kinds |-> Made(k, version, m, vecs)]

\* Stores of this release; of an older one, with no recorded identity (one of
\* them empty, at another dimension); of a newer one; and two files given in the wrong order.
Current == Pair(Latest, gemma, {gemma})
Legacy  == Pair(0, None, {Unknown})
Empty   == [k \in Kinds |-> [Pair(0, None, {})[k] EXCEPT !.table = 2]]
Newer   == Pair(Latest + 1, gemma, {gemma})
Swapped == [k \in Kinds |-> Current[IF k = "stm" THEN "ltm" ELSE "stm"]]
AnyStores == {Current, Legacy, Empty, Newer, Swapped}
=============================================================================
