-------------------------- MODULE CommandConsumer --------------------------
(***************************************************************************)
(* The commands door of the Kafka daemon: the start position and consume   *)
(* loop of interfaces/command_consumer.rs, the writes it hands to          *)
(* application/write_service.rs, the store wipes of                        *)
(* application/reset_service.rs, and the processed-command ledger, for one *)
(* partition.                                                              *)
(*                                                                         *)
(* Each action that writes a store is one transaction of the code.  The    *)
(* documents feeder, which shares the stores, is DocumentFeeder; what a    *)
(* hard reset does to the concept tree and to the feeder's offsets is left *)
(* out here.                                                               *)
(*                                                                         *)
(* Offsets count from 1; `committed' and `position' are the number of      *)
(* commands already passed, and committed = -1 when the group has none.    *)
(***************************************************************************)
EXTENDS Integers, Sequences, FiniteSets

CONSTANTS
    Docs,           \* data ids
    Threads,        \* context keys
    Ids,            \* command ids
    None,           \* no id, no thread, no document
    Commands,       \* what producers may send
    FailurePoints,  \* where a call may return an error
    MaxLog,         \* bound: commands in the topic
    MaxStops,       \* bound: crashes plus shutdowns
    MaxRebalances,  \* bound: revocations of the partition
    MaxExpiries,    \* bound: losses of the committed offset at the broker
    MaxSweeps       \* bound: ledger entries dropped, nodes archived by age

VARIABLES
    topic,          \* the commands topic
    committed,      \* the group's committed offset at the broker, or -1
    pending,        \* the offset of an asynchronous commit in flight, or -1
    assigned,       \* does the consumer hold the partition
    position,       \* the consumer's fetch position
    stored,         \* the offset stored in the consumer, or -1
    stop,           \* the shutdown signal
    pc,             \* where the command task is
    pinEnd,         \* the end of the topic the start probe read
    hand,           \* offset of the command being processed
    turn,           \* the node of the turn it stored
    anchor,         \* the subject node found or created for it
    todo,           \* its subjects not yet linked
    ledger,         \* ids of the commands applied (processed_commands)
    turns,          \* STM nodes of kind turn
    anchors,        \* STM nodes of kind subject
    archived,       \* <<subject, last node when the sweep archived it>>
    about,          \* the edges <<turn, subject>>
    lastNode,       \* the last STM row id given out
    notes,          \* per command id, the LTM note leaves it left
    filed,          \* documents with leaves in LTM
    facts,          \* documents with a fact in STM
    born,           \* history: end of the topic when the group last began
    start,          \* history: the group promises all commands after it, or -1
    ran,            \* history: offsets processed to the end
    broken,         \* history: ids whose write was cut off half done
    undone,         \* history: ids whose effect was removed by a later command
    swept,          \* history: ids dropped from the ledger by age
    stops, rebalances, expiries     \* how much of each bound is used

broker  == <<committed, pending>>
began   == <<born, start>>
client  == <<assigned, position, stored>>
task    == <<pc, pinEnd, hand, turn, anchor, todo>>
stm     == <<turns, anchors, archived, about, lastNode, facts>>
ltm     == <<notes, filed>>
record  == <<ledger, undone, swept>>
budgets == <<stops, rebalances, expiries>>
vars    == <<topic, broker, client, stop, task, stm, ltm, record, began, ran,
             broken, budgets>>

Kinds == {"junk", "remember stm", "remember ltm", "forget", "reset soft",
          "reset hard"}

\* `usable' is false for a `remember' without the field its scope needs and for
\* a hard reset whose token is refused.
Command ==
    [kind : Kinds, id : Ids \cup {None}, usable : BOOLEAN,
     thread : Threads \cup {None}, ccl : {"reality", "working"},
     subjects : Seq(Docs), doc : Docs \cup {None}]

Writes == {"remember stm", "remember ltm", "forget"}

PCs == {"down", "probe", "pin", "idle", "check", "embed", "link", "refresh",
        "edge", "mark", "unlink", "unfact", "wipe", "wipe ltm", "replay", "settle",
        "closing", "closed"}

Failing == {"check", "embed", "link", "refresh", "edge", "mark", "unlink", "unfact",
            "wipe", "wipe ltm", "replay"}

ASSUME CommandConstants ==
    /\ Commands \subseteq Command
    /\ None \notin Docs \cup Threads \cup Ids
    /\ \A c \in Commands : c.kind \in Writes <=> c.id # None
    /\ \A c, d \in Commands : c.id = d.id /\ c.id # None => c = d
    /\ FailurePoints \subseteq Failing
    /\ {MaxLog, MaxStops, MaxRebalances, MaxExpiries, MaxSweeps} \subseteq Nat

Offsets == 1..MaxLog

\* The command in hand.
C == topic[hand]

\* Another task of the daemon's one thread runs only at these.
AwaitPoints == {"probe", "pin", "idle", "embed", "replay", "closed"}

TypeOK ==
    /\ topic \in Seq(Commands) /\ Len(topic) <= MaxLog
    /\ committed \in -1..MaxLog /\ pending \in -1..MaxLog
    /\ assigned \in BOOLEAN
    /\ position \in 0..MaxLog /\ stored \in -1..MaxLog
    /\ stop \in BOOLEAN
    /\ pc \in PCs
    /\ pinEnd \in 0..MaxLog /\ hand \in 0..MaxLog
    /\ turn \in 0..lastNode /\ anchor \in 0..lastNode
    /\ todo \in Seq(Docs)
    /\ ledger \subseteq Ids
    /\ turns \subseteq [n : 1..lastNode, id : Ids]
    /\ anchors \subseteq [n : 1..lastNode, thread : Threads, doc : Docs,
                          ccl : {"reality", "working"}]
    /\ archived \subseteq {a.n : a \in anchors} \X (1..lastNode)
    /\ about \subseteq (1..lastNode) \X (1..lastNode)
    /\ lastNode \in Nat
    /\ notes \in [Ids -> Nat]
    /\ filed \subseteq Docs /\ facts \subseteq Docs
    /\ born \in 0..MaxLog /\ start \in -1..MaxLog
    /\ ran \subseteq Offsets
    /\ broken \subseteq Ids /\ undone \subseteq Ids /\ swept \subseteq Ids
    /\ stops \in 0..MaxStops /\ rebalances \in 0..MaxRebalances
    /\ expiries \in 0..MaxExpiries

Init ==
    /\ topic = <<>>
    /\ committed = -1 /\ pending = -1 /\ start = -1 /\ born = 0
    /\ assigned = FALSE /\ position = 0 /\ stored = -1
    /\ stop = FALSE
    /\ pc = "down" /\ pinEnd = 0
    /\ hand = 0 /\ turn = 0 /\ anchor = 0 /\ todo = <<>>
    /\ ledger = {} /\ undone = {} /\ swept = {}
    /\ turns = {} /\ anchors = {} /\ archived = {} /\ about = {} /\ lastNode = 0
    /\ notes = [i \in Ids |-> 0]
    /\ filed = Docs /\ facts = Docs
    /\ ran = {} /\ broken = {}
    /\ stops = 0 /\ rebalances = 0 /\ expiries = 0

-----------------------------------------------------------------------------
(***************************************************************************)
(* The environment: producers, the broker, the consumer group.             *)
(***************************************************************************)
Produce(c) ==
    /\ Len(topic) < MaxLog
    /\ topic' = Append(topic, c)
    /\ UNCHANGED <<broker, client, stop, task, stm, ltm, record, began, ran,
                   broken, budgets>>

CommitOneOf(offsets) == committed' \in offsets /\ pending' = -1

Resolved == {committed} \cup (IF pending = -1 THEN {} ELSE {pending})

BrokerAnswers ==
    /\ pending # -1
    /\ CommitOneOf(Resolved)
    /\ UNCHANGED <<topic, client, stop, task, stm, ltm, record, began, ran,
                   broken, budgets>>

Revoke ==
    /\ assigned /\ rebalances < MaxRebalances
    /\ rebalances' = rebalances + 1
    /\ assigned' = FALSE /\ stored' = -1
    /\ CommitOneOf(Resolved)
    /\ UNCHANGED <<topic, position, stop, task, stm, ltm, record, began, ran,
                   broken, stops, expiries>>

\* Mutant: auto.offset.reset = earliest.
AssignAtEarliest ==
    /\ pc \notin {"down", "probe", "pin"} /\ ~assigned
    /\ assigned' = TRUE
    /\ CommitOneOf(Resolved)
    /\ position' = IF committed' = -1 THEN 0 ELSE committed'
    /\ start' = IF committed' = -1 THEN Len(topic) ELSE start
    /\ UNCHANGED <<topic, stored, stop, task, stm, ltm, record, born, ran,
                   broken, budgets>>

\* auto.offset.reset = latest: without a committed offset, the end.
Assign ==
    /\ pc \notin {"down", "probe", "pin"} /\ ~assigned
    /\ assigned' = TRUE
    /\ CommitOneOf(Resolved)
    /\ position' = IF committed' = -1 THEN Len(topic) ELSE committed'
    /\ start' = IF committed' = -1 THEN Len(topic) ELSE start
    /\ UNCHANGED <<topic, stored, stop, task, stm, ltm, record, born, ran,
                   broken, budgets>>

\* The broker drops the offset of a group that is away for too long.
Expire ==
    /\ pc = "down" /\ committed # -1 /\ expiries < MaxExpiries
    /\ expiries' = expiries + 1
    /\ committed' = -1 /\ start' = -1
    /\ UNCHANGED <<topic, pending, client, stop, task, stm, ltm, record, born, ran,
                   broken, stops, rebalances>>

(***************************************************************************)
(* The process.                                                            *)
(***************************************************************************)
Start ==
    /\ pc = "down"
    /\ pc' = "probe"
    /\ born' = IF committed = -1 THEN Len(topic) ELSE born
    /\ UNCHANGED <<topic, broker, client, stop, pinEnd, hand, turn, anchor, todo,
                   stm, ltm, record, start, ran, broken, budgets>>

ForgetMemory ==
    /\ assigned' = FALSE /\ position' = 0 /\ stored' = -1
    /\ stop' = FALSE
    /\ pc' = "down" /\ pinEnd' = 0
    /\ hand' = 0 /\ turn' = 0 /\ anchor' = 0 /\ todo' = <<>>

\* A remember cut off here has stored something and is not marked.
HalfDone ==
    IF pc \in {"link", "refresh", "edge", "mark"} /\ C.kind # "forget" THEN {C.id} ELSE {}

Crash ==
    /\ pc # "down" /\ stops < MaxStops
    /\ stops' = stops + 1
    /\ broken' = broken \cup HalfDone
    /\ ForgetMemory
    /\ CommitOneOf(Resolved)
    /\ UNCHANGED <<topic, stm, ltm, record, began, ran, rebalances, expiries>>

Shutdown ==
    /\ pc \notin {"down", "closed"} /\ ~stop /\ stops < MaxStops
    /\ stops' = stops + 1
    /\ stop' = TRUE
    /\ UNCHANGED <<topic, broker, client, task, stm, ltm, record, began, ran,
                   broken, rebalances, expiries>>

Close ==
    /\ pc = "closing"
    /\ CommitOneOf(Resolved \cup (IF stored # -1 THEN {stored} ELSE {}))
    /\ pc' = "closed"
    /\ UNCHANGED <<topic, client, stop, pinEnd, hand, turn, anchor, todo, stm,
                   ltm, record, began, ran, broken, budgets>>

Exit ==
    /\ pc = "closed"
    /\ ForgetMemory
    /\ CommitOneOf(Resolved)
    /\ UNCHANGED <<topic, stm, ltm, record, began, ran, broken, budgets>>

Swept == Cardinality(swept) + Cardinality(archived)

\* The scheduler's ledger sweep, for an id that has grown old enough.
SweepLedger(id) ==
    /\ pc \in AwaitPoints
    /\ id \in ledger /\ Swept < MaxSweeps
    /\ ledger' = ledger \ {id} /\ swept' = swept \cup {id}
    /\ UNCHANGED <<topic, broker, client, stop, task, stm, ltm, undone, began,
                   ran, broken, budgets>>

\* The subject nodes that are still active.
Live == {a \in anchors : \A s \in archived : s[1] # a.n}

\* The decay sweep of this process, or of an MCP server on the same store,
\* archives a subject node left alone for the half-lives of its layer: not the
\* one just created or refreshed.
Archive(a) ==
    /\ a \in Live /\ ~(pc = "edge" /\ a.n = anchor)
    /\ Swept < MaxSweeps
    /\ archived' = archived \cup {<<a.n, lastNode>>}
    /\ UNCHANGED <<topic, broker, client, stop, task, turns, anchors, about,
                   lastNode, facts, ltm, record, began, ran, broken, budgets>>

-----------------------------------------------------------------------------
(***************************************************************************)
(* Where the group starts (pin_command_start).  A failed attempt that is   *)
(* tried again amounts to a later attempt, so one is modelled.             *)
(***************************************************************************)
Probing == UNCHANGED <<topic, client, stop, hand, turn, anchor, todo, stm, ltm,
                       record, born, ran, broken, budgets>>

ReadEnd ==
    /\ pc = "probe"
    /\ IF committed = -1 THEN pc' = "pin" /\ pinEnd' = Len(topic)
                         ELSE pc' = "idle" /\ UNCHANGED pinEnd
    /\ Probing /\ UNCHANGED <<broker, start>>

PinAtEnd ==
    /\ pc = "pin"
    /\ CommitOneOf({pinEnd})
    /\ start' = pinEnd
    /\ pc' = "idle" /\ pinEnd' = 0
    /\ Probing

\* A warning; the commit may have been applied all the same.
ProbeFails ==
    /\ pc \in {"probe", "pin"}
    /\ CommitOneOf(IF pc = "pin" THEN Resolved \cup {pinEnd} ELSE Resolved)
    /\ start' = IF pc = "pin" /\ committed' # -1 THEN pinEnd ELSE start
    /\ pc' = "idle" /\ pinEnd' = 0
    /\ Probing

-----------------------------------------------------------------------------
(***************************************************************************)
(* The consume loop.                                                       *)
(***************************************************************************)
Take ==
    /\ pc = "idle" /\ ~stop /\ assigned /\ position < Len(topic)
    /\ position' = position + 1
    /\ stored' = position + 1       \* enable.auto.offset.store
    /\ hand' = position + 1
    /\ LET c == topic[position + 1]
       IN  pc' = CASE c.kind \in Writes                     -> "check"
                   [] c.kind = "reset soft"                 -> "wipe"
                   [] c.kind = "reset hard" /\ c.usable     -> "wipe"
                   [] OTHER                                 -> "settle"
    /\ UNCHANGED <<topic, committed, assigned, stop, pinEnd, turn, anchor,
                   todo, stm, ltm, record, began, ran, broken, budgets>>

\* Mutant: offsets are committed automatically, on receipt.
ReceiveCommitting == Take /\ pending' = position + 1

Receive == Take /\ UNCHANGED pending

LeaveLoop ==
    /\ pc = "idle" /\ stop
    /\ pc' = "closing"
    /\ UNCHANGED <<topic, broker, client, stop, pinEnd, hand, turn, anchor, todo,
                   stm, ltm, record, began, ran, broken, budgets>>

\* Committed whatever became of the command; without the partition the commit
\* may be refused.
Settle ==
    /\ pc = "settle"
    /\ pc' = "idle"
    /\ hand' = 0 /\ turn' = 0 /\ anchor' = 0 /\ todo' = <<>>
    /\ ran' = ran \cup {hand}
    /\ IF assigned THEN pending' = hand ELSE pending' \in {pending, hand}
    /\ UNCHANGED <<topic, committed, client, stop, pinEnd, stm, ltm,
                   record, began, broken, budgets>>

\* What every step inside `process' leaves alone.
Processing == UNCHANGED <<topic, broker, client, stop, pinEnd, hand, began, ran,
                          budgets>>

\* Mutant: a write that failed is tried again for ever.
FailsRetrying ==
    /\ pc \in FailurePoints
    /\ broken' = broken \cup HalfDone
    /\ pc' = IF C.kind \in Writes THEN "check" ELSE "settle"
    /\ Processing /\ UNCHANGED <<turn, anchor, todo, stm, ltm, record>>

\* An error is logged, and the command is over.
Fails ==
    /\ pc \in FailurePoints
    /\ broken' = broken \cup HalfDone
    /\ pc' = "settle"
    /\ Processing /\ UNCHANGED <<turn, anchor, todo, stm, ltm, record>>

-----------------------------------------------------------------------------
(***************************************************************************)
(* WriteService::handle.                                                   *)
(***************************************************************************)
Dispatch == CASE ~C.usable           -> "settle"
              [] C.kind = "forget"   -> "unlink"
              [] OTHER               -> "embed"

\* Mutant: the ledger is not consulted.
CheckNothing ==
    /\ pc = "check"
    /\ pc' = Dispatch
    /\ Processing /\ UNCHANGED <<turn, anchor, todo, stm, ltm, record, broken>>

Check ==
    /\ pc = "check"
    /\ pc' = IF C.id \in ledger THEN "settle" ELSE Dispatch
    /\ Processing /\ UNCHANGED <<turn, anchor, todo, stm, ltm, record, broken>>

\* The text is embedded and the turn stored.  Subjects count only on a thread.
StoreTurn ==
    /\ pc = "embed" /\ C.kind = "remember stm"
    /\ lastNode' = lastNode + 1
    /\ turns' = turns \cup {[n |-> lastNode + 1, id |-> C.id]}
    /\ turn' = lastNode + 1
    /\ todo' = IF C.thread = None THEN <<>> ELSE C.subjects
    /\ pc' = IF todo' = <<>> THEN "mark" ELSE "link"
    /\ Processing
    /\ UNCHANGED <<anchor, anchors, archived, about, facts, ltm, record, broken>>

\* Mutant: the node is looked for in the command's own layer.
OwnLayer == {a \in Live : a.thread = C.thread /\ a.doc = Head(todo) /\ a.ccl = C.ccl}

Reusable == {a \in Live : a.thread = C.thread /\ a.doc = Head(todo) /\ a.ccl = "working"}

Linking == /\ Processing
           /\ UNCHANGED <<turn, todo, turns, archived, about, facts, ltm, record, broken>>

\* find_or_create_subject finds the thread's newest active node in the working
\* layer.
FindSubject ==
    /\ pc = "link"
    /\ \E newest \in Reusable :
          /\ \A a \in Reusable : a.n <= newest.n
          /\ anchor' = newest.n
    /\ pc' = "refresh"
    /\ Linking /\ UNCHANGED <<anchors, lastNode>>

\* boost_relevance: a node archived since it was found stays archived.
RefreshSubject ==
    /\ pc = "refresh"
    /\ pc' = "edge"
    /\ Linking /\ UNCHANGED <<anchor, anchors, lastNode>>

\* Or it creates one, in the layer of the command.
CreateSubject ==
    /\ pc = "link" /\ Reusable = {}
    /\ lastNode' = lastNode + 1
    /\ anchors' = anchors \cup {[n |-> lastNode + 1, thread |-> C.thread,
                                 doc |-> Head(todo), ccl |-> C.ccl]}
    /\ anchor' = lastNode + 1
    /\ pc' = "edge"
    /\ Linking

StoreEdge ==
    /\ pc = "edge"
    /\ about' = about \cup {<<turn, anchor>>}
    /\ todo' = Tail(todo) /\ anchor' = 0
    /\ pc' = IF Len(todo) = 1 THEN "mark" ELSE "link"
    /\ Processing
    /\ UNCHANGED <<turn, turns, anchors, archived, lastNode, facts, ltm, record, broken>>

\* The text is embedded and placed as a leaf under a new data id.
StoreNote ==
    /\ pc = "embed" /\ C.kind = "remember ltm"
    /\ notes' = [notes EXCEPT ![C.id] = @ + 1]
    /\ pc' = "mark"
    /\ Processing /\ UNCHANGED <<turn, anchor, todo, stm, filed, record, broken>>

\* IngestionService::forget: the leaves and the body first.
ForgetLtm ==
    /\ pc = "unlink"
    /\ filed' = filed \ {C.doc}
    /\ pc' = "unfact"
    /\ Processing /\ UNCHANGED <<turn, anchor, todo, stm, notes, record, broken>>

\* Then every STM node of the document, its subject nodes included.
ForgetStm ==
    /\ pc = "unfact"
    /\ facts' = facts \ {C.doc}
    /\ anchors' = {a \in anchors : a.doc # C.doc}
    /\ archived' = {s \in archived : \E a \in anchors' : a.n = s[1]}
    /\ about' = {e \in about : \E a \in anchors' : a.n = e[2]}
    /\ undone' = undone \cup
                     {c.id : c \in {d \in Commands : /\ d.id \in ledger
                                                     /\ \E i \in DOMAIN d.subjects :
                                                            d.subjects[i] = C.doc}}
    /\ pc' = "mark"
    /\ Processing
    /\ UNCHANGED <<turn, anchor, todo, turns, lastNode, ltm, ledger, swept, broken>>

Mark ==
    /\ pc = "mark"
    /\ ledger' = ledger \cup {C.id}
    /\ undone' = undone \ {C.id}
    /\ pc' = "settle"
    /\ Processing /\ UNCHANGED <<turn, anchor, todo, stm, ltm, swept, broken>>

-----------------------------------------------------------------------------
(***************************************************************************)
(* ResetService.  The ledger is not cleared.                               *)
(***************************************************************************)
WipeStm ==
    /\ pc = "wipe"
    /\ turns' = {} /\ anchors' = {} /\ archived' = {} /\ about' = {} /\ facts' = {}
    /\ undone' = undone \cup
                     {c.id : c \in {d \in Commands : /\ d.id \in ledger
                                                     /\ d.kind = "remember stm"}}
    /\ pc' = IF C.kind = "reset hard" THEN "wipe ltm" ELSE "settle"
    /\ Processing
    /\ UNCHANGED <<turn, anchor, todo, lastNode, ltm, ledger, swept, broken>>

WipeLtm ==
    /\ pc = "wipe ltm"
    /\ notes' = [i \in Ids |-> 0] /\ filed' = {}
    /\ undone' = undone \cup
                     {c.id : c \in {d \in Commands : /\ d.id \in ledger
                                                     /\ d.kind = "remember ltm"}}
    /\ pc' = "replay"
    /\ Processing
    /\ UNCHANGED <<turn, anchor, todo, stm, ledger, swept, broken>>

\* The spine is seeded and embedded and the feeder rewound, or a warning logged.
Replayed ==
    /\ pc = "replay"
    /\ pc' = "settle"
    /\ Processing /\ UNCHANGED <<turn, anchor, todo, stm, ltm, record, broken>>

-----------------------------------------------------------------------------
Probe == ReadEnd \/ PinAtEnd \/ ProbeFails
LinkSubject == FindSubject \/ RefreshSubject \/ CreateSubject
Remember == StoreTurn \/ LinkSubject \/ StoreEdge \/ StoreNote
Forget == ForgetLtm \/ ForgetStm
Reset == WipeStm \/ WipeLtm \/ Replayed

CommandTask == Probe \/ Receive \/ LeaveLoop \/ Settle \/ Fails \/ Check
                 \/ Remember \/ Forget \/ Mark \/ Reset \/ Close

Environment == (\E c \in Commands : Produce(c)) \/ BrokerAnswers \/ Revoke
                 \/ Assign \/ Expire

Process == Start \/ Crash \/ Shutdown \/ Exit

Next == \/ CommandTask \/ Environment \/ Process
        \/ \E id \in Ids : SweepLedger(id)
        \/ \E a \in anchors : Archive(a)

Spec == Init /\ [][Next]_vars

\* The process is restarted, the group assigns the partition, and the task is
\* polled whenever it can run.
FairSpec ==
    Spec /\ WF_vars(Start) /\ WF_vars(Exit) /\ WF_vars(Assign)
         /\ WF_vars(CommandTask)

-----------------------------------------------------------------------------
(***************************************************************************)
(* Safety.                                                                 *)
(***************************************************************************)
\* A group that begins without a committed offset never runs a command sent
\* before, whether or not its start could be pinned (command_consumer_config,
\* "retained old commands are never re-run against the current store").
OldCommandsNeverRun == hand # 0 => hand > born

\* A command sent after the group's start is not skipped: no restart, rebalance
\* or lost commit moves the group past one that was not processed.  The start
\* is what it pinned, or the end of the topic it was last assigned at without a
\* committed offset ("commands sent while the group has no offset yet are
\* skipped", command_consumer_config).
NoneSkippedAfterStart ==
    \A o \in 1..committed : o > start => o \in ran

Effect(c) ==
    CASE c.kind = "remember stm" ->
            \E t \in turns :
                /\ t.id = c.id
                /\ c.thread # None =>
                      \A i \in DOMAIN c.subjects :
                          \E a \in anchors : /\ a.doc = c.subjects[i]
                                             /\ a.thread = c.thread
                                             /\ <<t.n, a.n>> \in about
      [] c.kind = "remember ltm" -> notes[c.id] > 0
      [] c.kind = "forget"       -> c.doc \notin filed \cup facts

\* A command in the ledger has its whole effect in the stores, unless a later
\* reset or forget took it away (WriteService, "marked only AFTER the write
\* succeeds").
MarkedIsStored ==
    \A c \in Commands : c.id \in ledger \ undone => Effect(c)

Copies(id) == Cardinality({t \in turns : t.id = id}) + notes[id]

\* However often a command is sent or delivered, it leaves one turn or one
\* note, unless a crash or an error fell between its write and its mark or the
\* ledger has dropped its id (WriteService, "a duplicate delivery is recorded
\* once and skipped thereafter").
DuplicatesArePaidFor ==
    \A id \in Ids \ (broken \cup swept) : Copies(id) <= 1

\* The ledger keeps its word both ways: what is marked is stored, and what is stored
\* twice had its mark lost, or broken off before it (WriteService::handle).
LedgerHolds == MarkedIsStored /\ DuplicatesArePaidFor

SameSubject(a, b) == a.thread = b.thread /\ a.doc = b.doc

\* The turns of a thread about one document connect through one node for as
\* long as the sweep leaves it active (find_or_create_subject, "a reused node
\* per (thread, dataId) so turns about the same thing connect through it").  An
\* active working node is the last its thread was given for the document,
\* whatever the layer of the turns since, and every turn stored after it that is
\* about the document at all is linked to it; and no turn is linked to a node
\* archived before the turn was stored.
TurnsMeet ==
    /\ \A a \in Live, b \in anchors :
          a.ccl = "working" /\ SameSubject(a, b) /\ a # b =>
              /\ b.n < a.n
              /\ \A e \in about : e[2] = b.n => e[1] < a.n
    /\ \A e \in about, s \in archived : e[2] = s[1] => e[1] <= s[2]

(***************************************************************************)
(* Liveness.                                                               *)
(***************************************************************************)
Owed(o) == start # -1 /\ start < o /\ o <= Len(topic)

\* A command sent after the group's start is eventually processed, unless the
\* group starts anew for want of a committed offset: neither a failure, a
\* rebalance, a crash nor a shutdown blocks the door (CommandConsumer::run).
EveryCommandRun == \A o \in Offsets : Owed(o) ~> o \in ran \/ ~Owed(o)
=============================================================================
