----------------------------- MODULE QueryDoor -----------------------------
(***************************************************************************)
(* The memory.query door: requests from a topic, answered one at a time on *)
(* another.  (interfaces/query_consumer.rs, bus_query.rs,                  *)
(* application/query_service.rs, the consumer half of kafka_client.rs.)    *)
(*                                                                         *)
(* The group starts at the end of the topic and goes on from what it       *)
(* committed; commits are asynchronous, and a crash may lose one.  What a  *)
(* query asks, and of which stores, is chosen when it is received.  The    *)
(* client library delivers a send or reports that it could not.            *)
(***************************************************************************)
EXTENDS Recall

CONSTANTS
    Questions,     \* what queries ask, and what the stores hold when they do
    SeedCount,     \* SEED_FACT_COUNT
    None,
    MaxRequests,   \* bound: requests sent
    MaxRestarts,   \* bound: kills and stops
    MaxFailures    \* bound: sends the broker refuses

VARIABLES
    topic,         \* the requests sent, by kind
    committed,     \* the group's offset, or None
    position,      \* the next offset to receive, or None while not assigned
    acking,        \* the commit under way, or None
    step,          \* "down", "waiting", "parsed", "answered", "copied", "finished"
    stopping,      \* the stop signal has fired
    asked,         \* the query being answered, or None
    reply,         \* what is about to be published, or None
    results,       \* <<offset, status>> of the replies published
    dlq, parking,  \* offsets of the messages copied there
    failed,        \* history: <<topic, offset>> of the sends that failed
    skipped,       \* history: offsets before the start of a group without a commit
    restarts

input == <<topic, skipped>>
offsets == <<committed, position, acking>>
handler == <<step, asked, reply>>
outputs == <<results, dlq, parking, failed>>
vars == <<input, offsets, handler, outputs, stopping, restarts>>

Kinds == {"query", "rejected", "unroutable"}
Offsets == 0 .. MaxRequests - 1
Statuses == {"ok", "empty", "error"}

ASSUME DoorConstants ==
    /\ SeedCount \in Nat /\ {MaxRequests, MaxRestarts, MaxFailures} \subseteq Nat
    /\ \A a \in Questions :
        /\ a.scope \in {"stm", "ltm", "both", "ltm_via_stm", "stm_map"}
        /\ a.scope \in {"stm", "both", "ltm_via_stm"} => IsSearch(a.stm)
        /\ a.scope \in {"ltm", "both", "ltm_via_stm"} => IsRecall(a.ltm)
        /\ a.scope = "stm_map" => IsMap(a.map)

Init ==
    /\ topic = <<>> /\ skipped = {}
    /\ committed = None /\ position = None /\ acking = None
    /\ step = "down" /\ asked = None /\ reply = None
    /\ results = {} /\ dlq = {} /\ parking = {} /\ failed = {}
    /\ stopping = FALSE /\ restarts = 0

\* parse_query: a request, one that can be refused, or one nobody can be told of.
Send ==
    /\ Len(topic) < MaxRequests
    /\ \E kind \in Kinds : topic' = Append(topic, kind)
    /\ UNCHANGED <<skipped, offsets, handler, outputs, stopping, restarts>>

\* The process starts and its group is assigned the topic.
Join ==
    /\ step = "down"
    /\ position' = IF committed = None THEN Len(topic) ELSE committed
    /\ skipped' = IF committed = None THEN skipped \cup 0 .. Len(topic) - 1 ELSE skipped
    /\ step' = "waiting" /\ stopping' = FALSE
    /\ UNCHANGED <<topic, committed, acking, asked, reply, outputs, restarts>>

\* recv_or_stop: only the wait is raced.
Receive ==
    /\ step = "waiting" /\ ~stopping /\ position < Len(topic)
    /\ position' = position + 1
    /\ step' = "parsed"
    /\ asked' \in IF topic[position + 1] = "query" THEN Questions ELSE {None}
    /\ UNCHANGED <<input, committed, acking, reply, outputs, stopping, restarts>>

Current == position - 1
Kind == topic[position]

-----------------------------------------------------------------------------
\* to_reply, MemoryReply::success
Success(stm, ltm, seeds) ==
    [stm |-> stm, ltm |-> ltm, seededBy |-> seeds,
     status |-> IF stm = <<>> /\ ltm = <<>> THEN "empty" ELSE "ok"]
Failure == [stm |-> <<>>, ltm |-> <<>>, seededBy |-> <<>>, status |-> "error"]

\* QueryService::execute.  A seeded recall is by the vector of the query and its
\* seeds, and by the words of the query.
Execute(a) ==
    CASE a.scope = "stm" -> Success(StmHits(a.stm), <<>>, <<>>)
      [] a.scope = "ltm" -> Success(<<>>, LtmEntries(a.ltm), <<>>)
      [] a.scope = "both" -> Success(StmHits(a.stm), LtmEntries(a.ltm), <<>>)
      [] a.scope = "ltm_via_stm" -> LET stm == StmHits(a.stm)
                                    IN  Success(stm, LtmEntries(a.ltm), First(stm, SeedCount))
      [] a.scope = "stm_map" -> Success(StmMap(a.map), <<>>, <<>>)

\* None is no offset and no reply.
ASSUME NoneIsNothing ==
    None \notin Nat /\ None # Failure /\ \A a \in Questions : Execute(a) # None

\* An error of the embedder or of a store becomes an error reply.
Respond ==
    /\ step = "parsed" /\ Kind = "query"
    /\ reply' \in {Execute(asked), Failure}
    /\ asked' = IF reply'.status = "error" THEN None ELSE asked
    /\ step' = "answered"
    /\ UNCHANGED <<input, offsets, outputs, stopping, restarts>>

\* A send is delivered to the topic, or fails with a warning.
Sent(out, name, message) ==
    \/ out' = out \cup {message} /\ UNCHANGED failed
    \/ /\ Cardinality(failed) < MaxFailures
       /\ failed' = failed \cup {<<name, Current>>} /\ UNCHANGED out

\* An internal failure is copied to the DLQ topic before it is replied.
CopyAside ==
    /\ step = "answered" /\ reply.status = "error"
    /\ Sent(dlq, "dlq", Current)
    /\ step' = "copied"
    /\ UNCHANGED <<input, offsets, asked, reply, results, parking, stopping, restarts>>

\* A reply that does not serialize is warned of and not sent, as one whose send fails.
PublishResult ==
    /\ step = "copied" \/ (step = "answered" /\ reply.status # "error")
    /\ Sent(results, "results", <<Current, reply.status>>)
    /\ step' = "finished" /\ asked' = None /\ reply' = None
    /\ UNCHANGED <<input, offsets, dlq, parking, stopping, restarts>>

\* Mutant: a malformed request is dropped.
DropIt ==
    /\ step = "parsed" /\ Kind = "rejected"
    /\ step' = "finished"
    /\ UNCHANGED <<input, offsets, asked, reply, outputs, stopping, restarts>>

\* Addressable but malformed: an error reply.
Refuse ==
    /\ step = "parsed" /\ Kind = "rejected"
    /\ Sent(results, "results", <<Current, "error">>)
    /\ step' = "finished"
    /\ UNCHANGED <<input, offsets, asked, reply, dlq, parking, stopping, restarts>>

\* No one to reply to.
Park ==
    /\ step = "parsed" /\ Kind = "unroutable"
    /\ Sent(parking, "parking", Current)
    /\ step' = "finished"
    /\ UNCHANGED <<input, offsets, asked, reply, results, dlq, stopping, restarts>>

\* Mutant: what has been received is committed, answered or not.
CommitReceived ==
    /\ step \in {"parsed", "finished"} /\ acking # position
    /\ acking' = position
    /\ step' = IF step = "finished" THEN "waiting" ELSE step
    /\ UNCHANGED <<input, committed, position, asked, reply, outputs, stopping, restarts>>

\* commit_message, without waiting for the broker.
CommitMessage ==
    /\ step = "finished"
    /\ acking' = position
    /\ step' = "waiting"
    /\ UNCHANGED <<input, committed, position, asked, reply, outputs, stopping, restarts>>

CommitLands ==
    /\ acking # None
    /\ committed' = acking /\ acking' = None
    /\ UNCHANGED <<input, position, handler, outputs, stopping, restarts>>

Stop ==
    /\ step # "down" /\ ~stopping /\ restarts < MaxRestarts
    /\ restarts' = restarts + 1
    /\ stopping' = TRUE
    /\ UNCHANGED <<input, offsets, handler, outputs>>

\* commit_on_shutdown: what is not committed yet, or a warning.
Leave ==
    /\ step = "waiting" /\ stopping
    /\ committed' \in {committed, IF acking # None THEN acking ELSE committed}
    /\ acking' = None /\ position' = None /\ step' = "down"
    /\ UNCHANGED <<input, asked, reply, outputs, stopping, restarts>>

Crash ==
    /\ step # "down" /\ restarts < MaxRestarts
    /\ restarts' = restarts + 1
    /\ acking' = None /\ position' = None
    /\ step' = "down" /\ asked' = None /\ reply' = None
    /\ UNCHANGED <<input, committed, outputs, stopping>>

Handle == Receive \/ Respond \/ CopyAside \/ PublishResult \/ Refuse \/ Park \/ CommitMessage
Next == Send \/ Join \/ Handle \/ CommitLands \/ Stop \/ Leave \/ Crash

\* The loop's own moves, as its step shows them: one of Handle can always make them.
Onward ==
    \/ step = "waiting" /\ ~stopping /\ position < Len(topic) /\ step' = "parsed"
    \/ step = "parsed" /\ step' \in {"answered", "finished"}
    \/ step = "answered" /\ step' \in {"copied", "finished"}
    \/ step = "copied" /\ step' = "finished"
    \/ step = "finished" /\ step' = "waiting"

\* The process is restarted, its loop is scheduled, and the broker answers.
Spec == Init /\ [][Next]_vars /\ WF_vars(Join) /\ WF_step(Onward) /\ WF_vars(CommitLands \/ Leave)

-----------------------------------------------------------------------------
\* The door keeps its position and what it publishes of the requests it was
\* sent; a query is being answered from its execution to its reply, and no longer.
TypeOK ==
    /\ topic \in Seq(Kinds) /\ Len(topic) <= MaxRequests
    /\ committed \in 0 .. Len(topic) \cup {None} /\ acking \in 0 .. Len(topic) \cup {None}
    /\ position \in 0 .. Len(topic) \cup {None}
    /\ step \in {"down", "waiting", "parsed", "answered", "copied", "finished"}
    /\ (position = None) = (step = "down")
    /\ (reply # None) = (step \in {"answered", "copied"})
    /\ reply # None => reply.status \in Statuses
    /\ results \subseteq Offsets \X Statuses /\ dlq \cup parking \cup skipped \subseteq Offsets
    /\ failed \subseteq {"results", "dlq", "parking"} \X Offsets
    /\ stopping \in BOOLEAN /\ restarts \in 0 .. MaxRestarts

Replied(o) == \E status \in Statuses : <<o, status>> \in results
Settled(o) ==
    \/ o \in skipped
    \/ topic[o + 1] = "unroutable" /\ (o \in parking \/ <<"parking", o>> \in failed)
    \/ topic[o + 1] # "unroutable" /\ (Replied(o) \/ <<"results", o>> \in failed)

\* A request behind the committed offset was replied, or parked when nobody can be
\* told, or its failure to be sent was logged: a restart never leaves one unanswered
\* because its offset was committed too early (QueryConsumer::run, process).
CommittedIsAnswered ==
    committed # None => \A o \in 0 .. committed - 1 : Settled(o)

\* The error reply of a query is never out before its copy for the operator is on
\* the DLQ topic, or the failure to copy logged, whenever the process dies (process).
ErrorsAreSeen ==
    \A o \in Offsets :
        (<<o, "error">> \in results /\ topic[o + 1] = "query")
            => (o \in dlq \/ <<"dlq", o>> \in failed)

\* Every request sent is answered in the end, or precedes the group's first
\* commit, once the process is no longer stopped ("never a hang").
EveryRequestSettled ==
    \A o \in Offsets : (o < Len(topic)) ~> (o < Len(topic) /\ Settled(o))

ReadsStm == asked # None /\ asked.scope \in {"stm", "both", "ltm_via_stm"}
ReadsLtm == asked # None /\ asked.scope \in {"ltm", "both", "ltm_via_stm"}

\* "Rows the caller can't see never take a rank": a search answers as if what its
\* caller cannot see were not stored, as long as the over-fetched neighbours hold
\* a leg's worth of visible ones (VISIBLE in search.rs).  Nor does a note of
\* another thread, or an anchor, take the place of a turn in the map of a thread
\* (recent_in_context).
Unseen(q) == [q EXCEPT !.near = Only(q.near, q.seen), !.words = Only(q.words, q.seen),
                       !.edges = q.edges \cap (q.seen \X q.seen)]
Reaches(q) == Len(Only(Knn(q), q.seen)) >= Lesser(Depth(q.k), Len(Only(q.near, q.seen)))
OnlyTurns(m) == [m EXCEPT !.touched = Only(@, m.seen \ m.anchors)]
HiddenTakesNothing ==
    /\ ReadsStm /\ Reaches(asked.stm) => StmHits(asked.stm) = StmHits(Unseen(asked.stm))
    /\ asked # None /\ asked.scope = "stm_map" => StmMap(asked.map) = StmMap(OnlyTurns(asked.map))

\* The fusion written in SQL and the one written in Rust order a search alike, ties
\* included ("the same fusion as rrf_fuse, ties included", search.rs).
FusionsAgree ==
    ReadsStm => LET q == asked.stm
                    legs == Legs(q)
                IN  Direct(q) = First(RrfFuse(legs[1], legs[2], q.weight), q.k)

\* A leg of weight 0 takes no result slot, in either store: without vectors only
\* keyword matches are hits, without keywords the nearest are, in their order
\* (Legs in search.rs, LtmRetrieval::recall).
OffLegIsSilent ==
    /\ ReadsStm =>
        LET q == asked.stm IN
        /\ q.weight[1] = 0 => ToSet(Direct(q)) \subseteq ToSet(q.words)
        /\ q.weight[2] = 0 => Direct(q) = First(Only(Knn(q), q.seen), q.k)
    /\ ReadsLtm =>
        LET t == asked.ltm IN
        /\ t.weight[1] = 0 => ToSet(LtmHits(t)) \subseteq ToSet(t.words)
        /\ t.weight[2] = 0 => LtmHits(t) = First(t.near, Greater(1, Lesser(t.k, MaxK)))

\* What the stores recalled reaches the client: a reply is empty only when no store
\* it reads had a hit ("so the recall isn't silently dropped", flatten_recall).
EmptyFoundNothing ==
    (reply # None /\ reply.status = "empty") =>
        /\ ReadsStm => StmHits(asked.stm) = <<>>
        /\ ReadsLtm => LtmHits(asked.ltm) = <<>>

\* The door keeps its order across restarts: nothing is committed before it is
\* answered, no error is answered before the operator has it (QueryConsumer::process).
DoorIsSound == TypeOK /\ CommittedIsAnswered /\ ErrorsAreSeen

\* An answer follows from what its caller may see and asked for: the invisible
\* takes no slot, nor does a leg that is switched off, and nothing found is lost
\* (hybrid_search, LtmRetrieval::recall, flatten_recall).
SearchIsFair == HiddenTakesNothing /\ OffLegIsSilent /\ EmptyFoundNothing
=============================================================================
