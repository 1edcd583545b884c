------------------------------ MODULE MCMemory ------------------------------
(* Small instances of Memory. *)
EXTENDS Memory, TLC

CONSTANTS p, q, c1, c2, v1, d1

mc_Procs == {p, q}
mc_Talkers == {p}
mc_Sweepers == {q}
\* p serves a client and the commands, q the documents and the maintenance.
mc_Calls == (p :> {"recall", "turn"}) @@ (q :> {"fact", "document", "forget", "reset"})
mc_Talk == [x \in Procs |-> {"recall", "fact"}]
\* The dialogue's texts are near each other, and near the document's.
mc_Alike == {{c1, v1}}
mc_Close == {{c1, c2}, {c1, v1}, {c2, v1}}
mc_Rate == [l \in Layers \cup {"reality"} |-> IF l = "working" THEN 2 ELSE 1]
=============================================================================
