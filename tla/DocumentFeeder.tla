--------------------------- MODULE DocumentFeeder ---------------------------
(***************************************************************************)
(* The documents feeder of the Kafka daemon: the consume loop of           *)
(* interfaces/kafka_feeder.rs, the two-store upsert of                     *)
(* application/ingestion.rs it drives, and the offset bookkeeping of the   *)
(* consumer group, for one partition.                                      *)
(*                                                                         *)
(* The long-term store (leaves, bodies) and the short-term store (the      *)
(* document's fact, which carries the content fingerprint) are separate    *)
(* SQLite files.  Each action that writes one of them is one transaction   *)
(* of the code, so a crash or an error can fall between any two of them.   *)
(*                                                                         *)
(* Offsets count from 1: `committed' and `position' are the number of      *)
(* messages already passed, so the next one is committed + 1.              *)
(***************************************************************************)
EXTENDS Integers, Sequences, FiniteSets

CONSTANTS
    Docs,          \* data ids
    Versions,      \* contents of a document, as told apart by its fingerprint
    None,          \* no key, no id, no text, no body, no fact
    Standin,       \* the text the v2 migration gave a leaf filed without one
    Unmarked,      \* a fact written before fingerprints existed
    Messages,      \* what producers may append to the topic
    RewindOutcomes, \* how a rewind may end
    WriteAttempts, \* RetryPolicy.write_attempts
    MaxLog,        \* bound: messages in the topic
    MaxStops,      \* bound: crashes plus shutdowns
    MaxRewinds,    \* bound: rewinds
    MaxRebalances  \* bound: revocations of the partition

VARIABLES
    topic,         \* the documents topic
    committed,     \* the group's committed offset, at the broker
    pending,       \* the offset of an asynchronous commit in flight, or -1
    deadLetters,   \* source offsets forwarded to the dead-letter topic
    parked,        \* source offsets forwarded to the parking topic
    assigned,      \* does the consumer hold the partition
    position,      \* the consumer's fetch position
    stored,        \* the offset stored in the consumer, or -1
    generation,    \* RewindGeneration
    stop,          \* the shutdown signal
    pc,            \* where the feeder task is
    hand,          \* offset of the message being handled
    received,      \* generation in which it was received
    attempt,       \* write attempt, from 1
    leaves,        \* per document, the versions of its LTM leaves by node id
    body,          \* per document, its doc_bodies row
    fact,          \* per document, the fingerprint on its STM fact
    fate,          \* history: what last became of each offset
    stops, rewinds, rebalances   \* how much of each bound is used

broker  == <<committed, pending>>
aside   == <<deadLetters, parked>>
client  == <<assigned, position, stored, generation>>
task    == <<pc, hand, received, attempt>>
stores  == <<leaves, body, fact>>
budgets == <<stops, rewinds, rebalances>>
vars    == <<topic, broker, aside, client, stop, task, stores, fate, budgets>>

Message ==
    [key : Docs \cup {None}, form : {"null", "garbage", "event"},
     id : Docs \cup {None}, text : Versions \cup {None}]

ASSUME FeederConstants ==
    /\ Messages \subseteq Message
    /\ None \notin Docs /\ None \notin Versions
    /\ Standin \notin Versions /\ Standin # None
    /\ Unmarked \notin Versions /\ Unmarked # None
    /\ RewindOutcomes \subseteq
          {"seek failed", "store failed", "commit failed", "done"}
    /\ WriteAttempts \in Nat \ {0}
    /\ {MaxLog, MaxStops, MaxRewinds, MaxRebalances} \subseteq Nat

Offsets == 1..MaxLog

(***************************************************************************)
(* Classification of a message (decide, DocumentEvent::document_id and     *)
(* body): a tombstone forgets by its key; an event is ingested by its id.  *)
(***************************************************************************)
Decide(m) ==
    CASE m.form = "null"    /\ m.key # None -> "forget"
      [] m.form = "null"    /\ m.key = None -> "park"
      [] m.form = "garbage"                 -> "park"
      [] m.form = "event"   /\ m.id = None  -> "bad"
      [] m.form = "event"   /\ m.id # None /\ m.text = None -> "skip"
      [] OTHER                              -> "ingest"

Decision == Decide(topic[hand])
Target(m) == IF m.form = "null" THEN m.key ELSE m.id

\* The document the message in hand writes, and the content it carries.
D == Target(topic[hand])
V == topic[hand].text

Fates == {"none", "ingested", "unchanged", "forgotten", "skipped", "aside"}

PCs == {"down", "idle", "write", "distill", "place", "prune", "fact",
        "unlink", "unfact", "backoff", "aside", "asidePause", "settle",
        "closing", "closed"}

\* The daemon runs every task on one thread: another task of the process gets
\* to run only while the feeder is suspended at one of its awaits (or is done).
AwaitPoints == {"idle", "distill", "backoff", "aside", "asidePause", "closed"}
Writing == {"write", "distill", "place", "prune", "fact", "unlink", "unfact"}

TypeOK ==
    /\ topic \in Seq(Messages) /\ Len(topic) <= MaxLog
    /\ committed \in 0..MaxLog
    /\ pending \in -1..MaxLog
    /\ deadLetters \subseteq Offsets /\ parked \subseteq Offsets
    /\ assigned \in BOOLEAN
    /\ position \in 0..MaxLog
    /\ stored \in -1..MaxLog
    /\ generation \in 0..MaxRewinds
    /\ stop \in BOOLEAN
    /\ pc \in PCs
    /\ hand \in 0..MaxLog
    /\ received \in 0..MaxRewinds
    /\ attempt \in 0..WriteAttempts
    /\ leaves \in [Docs -> Seq(Versions)]
    /\ body \in [Docs -> Versions \cup {None, Standin}]
    /\ fact \in [Docs -> Versions \cup {None, Unmarked}]
    /\ fate \in [Offsets -> Fates]
    /\ stops \in 0..MaxStops
    /\ rewinds \in 0..MaxRewinds
    /\ rebalances \in 0..MaxRebalances

\* A store the daemon may open: empty, or holding documents filed by an older
\* release, migrated, whose events the topic no longer retains.
StoresInit ==
    /\ leaves \in [Docs -> {<<>>} \cup {<<v>> : v \in Versions}]
    /\ body = [d \in Docs |-> IF leaves[d] = <<>> THEN None ELSE Standin]
    /\ fact \in [Docs -> Versions \cup {None, Unmarked}]
    /\ \A d \in Docs :
          IF leaves[d] = <<>> THEN fact[d] = None
                              ELSE fact[d] \in {leaves[d][1], Unmarked}

Init ==
    /\ topic = <<>>
    /\ committed = 0 /\ pending = -1
    /\ deadLetters = {} /\ parked = {}
    /\ assigned = FALSE /\ position = 0 /\ stored = -1 /\ generation = 0
    /\ stop = FALSE
    /\ pc = "down" /\ hand = 0 /\ received = 0 /\ attempt = 0
    /\ StoresInit
    /\ fate = [o \in Offsets |-> "none"]
    /\ stops = 0 /\ rewinds = 0 /\ rebalances = 0

-----------------------------------------------------------------------------
(***************************************************************************)
(* The environment: producers, the broker, the consumer group.             *)
(***************************************************************************)
Produce(m) ==
    /\ Len(topic) < MaxLog
    /\ topic' = Append(topic, m)
    /\ UNCHANGED <<broker, aside, client, stop, task, stores, fate, budgets>>

\* Where the committed offset may end up once the asynchronous commit in
\* flight, if there is one, has been applied or has failed.
Resolved == {committed} \cup (IF pending = -1 THEN {} ELSE {pending})

BrokerAnswers ==
    /\ pending # -1
    /\ committed' \in Resolved
    /\ pending' = -1
    /\ UNCHANGED <<topic, aside, client, stop, task, stores, fate, budgets>>

Revoke ==
    /\ assigned /\ rebalances < MaxRebalances
    /\ rebalances' = rebalances + 1
    /\ assigned' = FALSE /\ stored' = -1
    /\ committed' \in Resolved /\ pending' = -1
    /\ UNCHANGED <<topic, aside, position, generation, stop, task, stores, fate,
                   stops, rewinds>>

\* The group gives the partition to this consumer, which waits for its own
\* commit in flight and starts fetching at the committed offset (with none
\* committed, at the earliest message).
Assign ==
    /\ pc # "down" /\ ~assigned
    /\ committed' \in Resolved /\ pending' = -1
    /\ assigned' = TRUE /\ position' = committed'
    /\ UNCHANGED <<topic, aside, stored, generation, stop, task, stores, fate,
                   budgets>>

(***************************************************************************)
(* The process.                                                            *)
(***************************************************************************)
Start ==
    /\ pc = "down"
    /\ pc' = "idle"
    /\ UNCHANGED <<topic, broker, aside, client, stop, hand, received, attempt,
                   stores, fate, budgets>>

ForgetMemory ==
    /\ assigned' = FALSE /\ position' = 0 /\ stored' = -1 /\ generation' = 0
    /\ stop' = FALSE
    /\ pc' = "down" /\ hand' = 0 /\ received' = 0 /\ attempt' = 0

Crash ==
    /\ pc # "down" /\ stops < MaxStops
    /\ stops' = stops + 1
    /\ ForgetMemory
    /\ committed' \in Resolved /\ pending' = -1
    /\ UNCHANGED <<topic, aside, stores, fate, rewinds, rebalances>>

Shutdown ==
    /\ pc \notin {"down", "closed"} /\ ~stop /\ stops < MaxStops
    /\ stops' = stops + 1
    /\ stop' = TRUE
    /\ UNCHANGED <<topic, broker, aside, client, task, stores, fate, rewinds,
                   rebalances>>

\* After the loop: commit the stored offset synchronously; an error is logged.
Close ==
    /\ pc = "closing"
    /\ committed' \in Resolved \cup
                      (IF assigned /\ stored # -1 THEN {stored} ELSE {})
    /\ pending' = -1
    /\ pc' = "closed"
    /\ UNCHANGED <<topic, aside, client, stop, hand, received, attempt, stores,
                   fate, budgets>>

Exit ==
    /\ pc = "closed"
    /\ ForgetMemory
    /\ committed' \in Resolved /\ pending' = -1
    /\ UNCHANGED <<topic, aside, stores, fate, budgets>>

-----------------------------------------------------------------------------
(***************************************************************************)
(* The consume loop and the handling of one message.                       *)
(***************************************************************************)
Take ==
    /\ pc = "idle" /\ ~stop /\ assigned /\ position < Len(topic)
    /\ position' = position + 1
    /\ hand' = position + 1
    /\ received' = generation
    /\ attempt' = 1
    /\ LET decision == Decide(topic[position + 1])
       IN  /\ pc' = CASE decision \in {"ingest", "forget"} -> "write"
                      [] decision = "skip"                 -> "settle"
                      [] OTHER                             -> "aside"
           /\ fate' = IF decision = "skip"
                        THEN [fate EXCEPT ![position + 1] = "skipped"] ELSE fate
    /\ UNCHANGED <<topic, broker, aside, assigned, generation, stop, stores,
                   budgets>>

\* Mutant: offsets are stored automatically, on receipt.
ReceiveStoring == Take /\ stored' = position + 1

Receive == Take /\ UNCHANGED stored

LeaveLoop ==
    /\ pc = "idle" /\ stop
    /\ pc' = "closing"
    /\ UNCHANGED <<topic, broker, aside, client, stop, hand, received, attempt,
                   stores, fate, budgets>>

\* What every step inside `handle' leaves alone.
Handling == UNCHANGED <<topic, broker, client, stop, hand, received, budgets>>

\* Exactly one fact with this fingerprint and exactly one leaf.
StoredVersion(d, v) == fact[d] = v /\ Len(leaves[d]) = 1

\* Mutant: a redelivery overwrites a newer body.
IngestUnchangedOverwriting ==
    /\ pc = "write" /\ Decision = "ingest" /\ StoredVersion(D, V)
    /\ body' = [body EXCEPT ![D] = V]
    /\ fate' = [fate EXCEPT ![hand] = "unchanged"]
    /\ pc' = "settle"
    /\ Handling /\ UNCHANGED <<aside, attempt, leaves, fact>>

\* A redelivery: only a body that is missing or a stand-in is filled in.
IngestUnchanged ==
    /\ pc = "write" /\ Decision = "ingest" /\ StoredVersion(D, V)
    /\ body' = [body EXCEPT ![D] = IF @ \in {None, Standin} THEN V ELSE @]
    /\ fate' = [fate EXCEPT ![hand] = "unchanged"]
    /\ pc' = "settle"
    /\ Handling /\ UNCHANGED <<aside, attempt, leaves, fact>>

IngestDistill ==
    /\ pc = "write" /\ Decision = "ingest" /\ ~StoredVersion(D, V)
    /\ pc' = "distill"
    /\ Handling /\ UNCHANGED <<aside, attempt, stores, fate>>

\* Mutant: the fact is written before the leaf.
DistilledFactFirst ==
    /\ pc = "distill"
    /\ fact' = [fact EXCEPT ![D] = V]
    /\ pc' = "place"
    /\ Handling /\ UNCHANGED <<aside, attempt, leaves, body, fate>>

Distilled ==
    /\ pc = "distill"
    /\ pc' = "place"
    /\ Handling /\ UNCHANGED <<aside, attempt, stores, fate>>

\* One transaction: the body, the leaf and its edge.
PlaceLeaf ==
    /\ pc = "place"
    /\ leaves' = [leaves EXCEPT ![D] = Append(@, V)]
    /\ body' = [body EXCEPT ![D] = V]
    /\ pc' = IF leaves[D] = <<>> THEN "fact" ELSE "prune"
    /\ Handling /\ UNCHANGED <<aside, attempt, fact, fate>>

\* Mutant: the new leaf is pruned with the old ones.
PruneEvery ==
    /\ pc = "prune"
    /\ leaves' = [leaves EXCEPT ![D] = <<>>]
    /\ pc' = "fact"
    /\ Handling /\ UNCHANGED <<aside, attempt, body, fact, fate>>

\* One transaction per older leaf; the leaf just placed is the last one.
PruneLeaf ==
    /\ pc = "prune"
    /\ leaves' = [leaves EXCEPT ![D] = Tail(@)]
    /\ pc' = IF Len(leaves[D]) = 2 THEN "fact" ELSE "prune"
    /\ Handling /\ UNCHANGED <<aside, attempt, body, fact, fate>>

\* The commit marker of the upsert, written last.
WriteFact ==
    /\ pc = "fact"
    /\ fact' = [fact EXCEPT ![D] = V]
    /\ fate' = [fate EXCEPT ![hand] = "ingested"]
    /\ pc' = "settle"
    /\ Handling /\ UNCHANGED <<aside, attempt, leaves, body>>

BeginForget ==
    /\ pc = "write" /\ Decision = "forget"
    /\ pc' = "unlink"
    /\ Handling /\ UNCHANGED <<aside, attempt, stores, fate>>

\* One transaction per leaf; deleting the last one fires the trigger that
\* drops the body.
UnlinkLeaf ==
    /\ pc = "unlink" /\ leaves[D] # <<>>
    /\ leaves' = [leaves EXCEPT ![D] = Tail(@)]
    /\ body' = [body EXCEPT ![D] = IF Len(leaves[D]) = 1 THEN None ELSE @]
    /\ Handling /\ UNCHANGED <<pc, aside, attempt, fact, fate>>

DropBody ==
    /\ pc = "unlink" /\ leaves[D] = <<>>
    /\ body' = [body EXCEPT ![D] = None]
    /\ pc' = "unfact"
    /\ Handling /\ UNCHANGED <<aside, attempt, leaves, fact, fate>>

DropFact ==
    /\ pc = "unfact"
    /\ fact' = [fact EXCEPT ![D] = None]
    /\ fate' = [fate EXCEPT ![hand] = "forgotten"]
    /\ pc' = "settle"
    /\ Handling /\ UNCHANGED <<aside, attempt, leaves, body>>

\* The call that was about to run failed: the attempt is over.
GiveUp(exhausted) ==
    /\ pc \in Writing
    /\ pc' = IF exhausted THEN "aside" ELSE "backoff"
    /\ Handling /\ UNCHANGED <<aside, attempt, stores, fate>>

WriteFails == GiveUp(attempt >= WriteAttempts)

\* Mutant: attempts are not counted.
RetryWriteForever ==
    /\ pc = "backoff" /\ ~stop
    /\ pc' = "write"
    /\ Handling /\ UNCHANGED <<aside, attempt, stores, fate>>

RetryWrite ==
    /\ pc = "backoff" /\ ~stop
    /\ attempt' = attempt + 1
    /\ pc' = "write"
    /\ Handling /\ UNCHANGED <<aside, stores, fate>>

Forwarded(o) ==
    IF Decision = "park"
      THEN parked' = parked \cup {o} /\ UNCHANGED deadLetters
      ELSE deadLetters' = deadLetters \cup {o} /\ UNCHANGED parked

SetAside ==
    /\ pc = "aside"
    /\ Forwarded(hand)
    /\ fate' = [fate EXCEPT ![hand] = "aside"]
    /\ pc' = "settle"
    /\ Handling /\ UNCHANGED <<attempt, stores>>

\* Mutant: a forward that failed counts as done.
SetAsideFailsQuietly ==
    /\ pc = "aside"
    /\ fate' = [fate EXCEPT ![hand] = "aside"]
    /\ pc' = "settle"
    /\ Handling /\ UNCHANGED <<aside, attempt, stores>>

\* The producer reports an error; the record may have been delivered anyway.
SetAsideFails ==
    /\ pc = "aside"
    /\ Forwarded(hand) \/ UNCHANGED aside
    /\ pc' = "asidePause"
    /\ Handling /\ UNCHANGED <<attempt, stores, fate>>

RetryAside ==
    /\ pc = "asidePause" /\ ~stop
    /\ pc' = "aside"
    /\ Handling /\ UNCHANGED <<aside, attempt, stores, fate>>

\* A pause cut short by the shutdown: the message is not committed.
Interrupt ==
    /\ pc \in {"backoff", "asidePause"} /\ stop
    /\ pc' = "closing"
    /\ Handling /\ UNCHANGED <<aside, attempt, stores, fate>>

\* The offset of a message that is dealt with, stored and committed if `current'.
\* Without the partition the store is refused, and the commit may be.
StoreAndCommit(current) ==
    /\ pc = "settle"
    /\ pc' = "idle" /\ hand' = 0 /\ received' = 0 /\ attempt' = 0
    /\ CASE ~current              -> UNCHANGED <<stored, pending>>
         [] current /\ assigned  -> stored' = hand /\ pending' = hand
         [] current /\ ~assigned -> UNCHANGED stored /\ pending' \in {pending, hand}
    /\ UNCHANGED <<topic, committed, aside, assigned, position, generation, stop,
                   stores, fate, budgets>>

\* offset_action drops the offset if the feeder was rewound meanwhile.
Settle == StoreAndCommit(received = generation)

-----------------------------------------------------------------------------
(***************************************************************************)
(* rewind_to_earliest, run by the command task: the generation moves       *)
(* first; then the assigned partition is sought to its start, and offset 0 *)
(* is stored and committed synchronously.  The first call to fail ends it. *)
(***************************************************************************)
RewindToEarliest(outcome) ==
    /\ pc \in AwaitPoints
    /\ generation' = generation + 1
    /\ IF ~assigned \/ outcome = "seek failed"
         THEN UNCHANGED <<position, stored, committed, pending>>
         ELSE /\ position' = 0
              /\ IF outcome = "store failed"
                   THEN UNCHANGED <<stored, committed, pending>>
                   ELSE /\ stored' = 0
                        /\ committed' \in IF outcome = "done" THEN {0}
                                                            ELSE Resolved \cup {0}
                        /\ pending' = -1
    /\ UNCHANGED <<topic, aside, assigned, stop, task, stores>>

\* Once it is done an offset counts as handled only when it is handled again.
Rewind(outcome) ==
    /\ rewinds < MaxRewinds
    /\ rewinds' = rewinds + 1
    /\ RewindToEarliest(outcome)
    /\ fate' = IF assigned /\ outcome = "done"
                 THEN [o \in Offsets |-> "none"] ELSE fate
    /\ UNCHANGED <<stops, rebalances>>

-----------------------------------------------------------------------------
Ingest == IngestUnchanged \/ IngestDistill \/ Distilled \/ PlaceLeaf
            \/ PruneLeaf \/ WriteFact
ForgetDoc == BeginForget \/ UnlinkLeaf \/ DropBody \/ DropFact
Retries == RetryWrite \/ RetryAside \/ Interrupt

FeederTask == Receive \/ LeaveLoop \/ Ingest \/ ForgetDoc \/ WriteFails
                \/ SetAside \/ SetAsideFails \/ Retries \/ Settle \/ Close

Environment == (\E m \in Messages : Produce(m)) \/ BrokerAnswers
                 \/ Revoke \/ Assign

Process == Start \/ Crash \/ Shutdown \/ Exit

Next == FeederTask \/ Environment \/ Process
          \/ \E outcome \in RewindOutcomes : Rewind(outcome)

Spec == Init /\ [][Next]_vars

\* The process is restarted, the group assigns the partition, the task is
\* polled whenever it can run, and a side topic does not refuse for ever.
Fairness ==
    /\ WF_vars(Start) /\ WF_vars(Exit) /\ WF_vars(Assign)
    /\ WF_vars(FeederTask) /\ SF_vars(SetAside)

FairSpec == Spec /\ Fairness

-----------------------------------------------------------------------------
(***************************************************************************)
(* Safety.                                                                 *)
(***************************************************************************)
Handled(o) == fate[o] # "none"

\* Nothing at or below the committed offset is unhandled: a crash reprocesses
\* rather than drops (kafka_feeder.rs:403-405), and once a rewind is
\* committed no commit of a message received before it moves the group past
\* what the replay has not reached (offset_action, DropStale).
CommittedOnlyHandled == \A o \in 1..committed : Handled(o)

\* A committed message that was not written is in the side topic its kind
\* calls for: what the feeder gave up on is never just skipped
\* (set_aside_until_done, Disposition::Done).
CommittedIsAccountedFor ==
    \A o \in 1..committed :
        LET decision == Decide(topic[o])
        IN  CASE decision = "park" -> o \in parked
              [] decision = "bad"  -> o \in deadLetters
              [] decision = "skip" -> TRUE
              [] OTHER -> \/ o \in deadLetters
                          \/ fate[o] \in {"ingested", "unchanged", "forgotten"}

\* A document that has a leaf keeps one until a forget takes it: neither a
\* crash nor an error in the middle of a replacement leaves it unfindable
\* (IngestionService, "the new leaf first, then prune the old ones").
ReplacementNeverLoses ==
    [][\A d \in Docs :
          leaves[d] # <<>> /\ leaves'[d] = <<>> =>
              pc = "unlink" /\ topic[hand].form = "null" /\ d = topic[hand].key]_vars

Newest(d) == leaves[d][Len(leaves[d])]

\* The stored text of a document is that of its newest leaf, or the stand-in
\* the migration left; there is none without a leaf, except between the
\* unlinking of the last leaf and the explicit delete that follows it.
BodyMatchesNewestLeaf ==
    \A d \in Docs :
        IF leaves[d] = <<>>
          THEN body[d] = None
          ELSE body[d] \in {Newest(d), Standin}

\* The offsets of the messages that name document d.
Touching(d) ==
    {o \in 1..Len(topic) :
        Decide(topic[o]) \in {"ingest", "forget"} /\ Target(topic[o]) = d}

CaughtUp == pc = "idle" /\ assigned /\ position = Len(topic)

\* When the feeder has caught up, a document none of whose messages was
\* dead-lettered is, in both stores, what its last message says, whatever
\* was redelivered, retried or interrupted on the way (at-least-once delivery
\* of an idempotent upsert, ingestion.rs:1-39).
CaughtUpAgrees ==
    CaughtUp =>
        \A d \in Docs :
            LET touching == Touching(d)
                last == CHOOSE o \in touching : \A p \in touching : p <= o
            IN  touching # {} /\ touching \cap deadLetters = {} =>
                  IF Decide(topic[last]) = "forget"
                    THEN leaves[d] = <<>> /\ body[d] = None /\ fact[d] = None
                    ELSE LET v == topic[last].text
                         IN  leaves[d] = <<v>> /\ body[d] = v /\ fact[d] = v

(***************************************************************************)
(* Liveness.                                                               *)
(***************************************************************************)
\* A message in the topic is eventually dealt with, and after a rewind again:
\* neither a poison event, a crash, a shutdown nor a lost assignment blocks
\* the partition (RetryPolicy, "can't block the partition").
EveryMessageHandled ==
    \A o \in Offsets : o <= Len(topic) ~> Handled(o)

(***************************************************************************)
(* The delivery contract the feeder implements.                            *)
(***************************************************************************)
Contract == INSTANCE AtLeastOnce
                WITH length <- Len(topic), handled <- {o \in Offsets : Handled(o)}

\* The offsets, the side topics and the retries add up to at-least-once
\* delivery (kafka_feeder.rs, "Delivery semantics: at-least-once").
AtLeastOnceDelivery == Contract!Spec
=============================================================================
