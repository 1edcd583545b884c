--------------------------- MODULE MCResetReplay ---------------------------
(***************************************************************************)
(* Small instances of ResetReplay for TLC.                                 *)
(***************************************************************************)
EXTENDS ResetReplay, TLC

CONSTANTS a, b, doc

Event(id, text) == [key |-> id, form |-> "event", id |-> id, text |-> text]
Tombstone(key)  == [key |-> key, form |-> "null", id |-> None, text |-> None]

Contents == Permutations({a, b})

\* Two contents of a document, and its tombstone.
Writes == {Event(doc, a), Event(doc, b), Tombstone(doc)}

=============================================================================
