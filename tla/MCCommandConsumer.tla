------------------------- MODULE MCCommandConsumer -------------------------
(***************************************************************************)
(* Small instances of CommandConsumer for TLC.                             *)
(***************************************************************************)
EXTENDS CommandConsumer, TLC

CONSTANTS doc, thread, c1, c2, c3, c4, c5, c6

Bare(kind) == [kind |-> kind, id |-> None, usable |-> TRUE, thread |-> None,
               ccl |-> "reality", subjects |-> <<>>, doc |-> None]

\* A turn on the thread, about the document.
Turn(i, ccl) == [Bare("remember stm") EXCEPT !.id = i, !.thread = thread,
                    !.ccl = ccl, !.subjects = <<doc>>]
Note(i)      == [Bare("remember ltm") EXCEPT !.id = i]
Empty(i)     == [Note(i) EXCEPT !.usable = FALSE]
Forgetting(i) == [Bare("forget") EXCEPT !.id = i, !.doc = doc]
Refused      == [Bare("reset hard") EXCEPT !.usable = FALSE]

\* What the offsets are checked with: a write and a reset, of several steps each.
Door == {Note(c2), Bare("reset hard")}

\* What the stores and the ledger are checked with.
Writing == {Turn(c1, "working"), Turn(c2, "working"), Turn(c6, "reality"),
            Note(c3), Forgetting(c4), Bare("reset soft"), Empty(c5),
            Refused}

\* Where an error leaves something written behind.
HalfWay == {"edge", "unfact"}

\* The two working turns of Writing are interchangeable.
Twins == Permutations({c1, c2})
=============================================================================
