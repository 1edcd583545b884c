---------------------------- MODULE AtLeastOnce ----------------------------
(***************************************************************************)
(* At-least-once delivery of a partition, as the documents feeder promises *)
(* it (interfaces/kafka_feeder.rs, module documentation): messages are     *)
(* appended, dealt with, and the committed offset never passes one that is  *)
(* not; a rewind starts all over.  Nothing is said of the order, of the    *)
(* number of deliveries, or of when commits happen.                        *)
(***************************************************************************)
EXTENDS Naturals

VARIABLES
    length,     \* messages in the partition
    handled,    \* offsets dealt with since the last rewind
    committed   \* the group resumes after this offset

vars == <<length, handled, committed>>

Init ==
    /\ length = 0
    /\ handled = {}
    /\ committed = 0

Produce ==
    /\ length' = length + 1
    /\ UNCHANGED <<handled, committed>>

Handle(o) ==
    /\ o \in 1..length \ handled
    /\ handled' = handled \cup {o}
    /\ UNCHANGED <<length, committed>>

\* Also backwards: an older commit may arrive after a newer one was lost.
Commit ==
    /\ committed' \in {c \in 0..length : 1..c \subseteq handled}
    /\ UNCHANGED <<length, handled>>

Rewind ==
    /\ committed' = 0
    /\ handled' = {}
    /\ UNCHANGED length

Next == Produce \/ (\E o \in 1..length : Handle(o)) \/ Commit \/ Rewind

Spec == Init /\ [][Next]_vars
=============================================================================
