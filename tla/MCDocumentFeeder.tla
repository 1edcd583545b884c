-------------------------- MODULE MCDocumentFeeder --------------------------
(***************************************************************************)
(* Small instances of DocumentFeeder for TLC.                              *)
(***************************************************************************)
EXTENDS DocumentFeeder, TLC

CONSTANTS a, b, doc

Event(id, text) == [key |-> id, form |-> "event", id |-> id, text |-> text]
Tombstone(key)  == [key |-> key, form |-> "null", id |-> None, text |-> None]
Garbage == [key |-> None, form |-> "garbage", id |-> None, text |-> None]
NoId    == [key |-> None, form |-> "event", id |-> None, text |-> None]

\* The two contents are interchangeable wherever Messages holds both.
Contents == Permutations({a, b})

\* What writes a document, with two contents, and what no one can read.
Writes == {Event(doc, a), Event(doc, b), Tombstone(doc), Garbage}

\* What is set aside and what is passed over, beside a plain event.
Few == {Event(doc, a), Event(doc, None), NoId}
=============================================================================
