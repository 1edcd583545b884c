---------------------------- MODULE Conversation ----------------------------
(***************************************************************************)
(* push_dialogue: an MCP client's turns, archived as episodes and kept in  *)
(* a rolling window per session, compressed or trimmed when it grows, with *)
(* the facts learned from each turn.  (application/session_manager.rs,     *)
(* application/app.rs, and the models of infrastructure/llm.rs.)           *)
(*                                                                         *)
(* The steps of a call lie between its awaits: archiving up to the summary *)
(* asked for, the summary's answer, the recall's, the extraction's.  Calls *)
(* wait for one another in one line.  A message is its place among the     *)
(* archived episodes; the text of a summary is the messages it covers.     *)
(***************************************************************************)
EXTENDS Models, Integers, FiniteSetsExt, SequencesExt

CONSTANTS
    Callers,       \* tool calls the client has open at once
    Sessions,      \* session ids
    Lengths,       \* message lengths, in characters
    SummaryLength, \* length of a summary, in characters
    CharsPerToken, \* CHARS_PER_TOKEN
    Threshold,     \* SESSION_TOKEN_THRESHOLD
    KeepRecent,    \* SESSION_KEEP_RECENT
    MaxSessions,   \* MAX_SESSIONS
    MaxFacts,      \* MAX_FACTS_PER_EXTRACTION
    Setups,        \* the configurations tried
    MaxTurns,      \* bound: turns the client has to say
    MaxFaults      \* bound: failures of the store, kills, switches, hangs

VARIABLES
    said,          \* the client's turns: session, length and what became of them
    log,           \* the episodes: per id, the turn it archives
    buffers,       \* per session in memory, its window
    calls,         \* per caller, its push_dialogue call
    line,          \* the callers in line for one_at_a_time; the first has it
    models,        \* what create_models built
    born,          \* episodes there were when this process took the workspace up
    faults         \* bound used up

server == <<buffers, calls, line, born>>
vars == <<said, log, server, models, faults>>

ASSUME ConversationConstants ==
    /\ Lengths \subseteq Nat /\ SummaryLength \in Nat
    /\ CharsPerToken \in Nat \ {0} /\ Threshold \in Nat
    /\ KeepRecent \in Nat \ {0} /\ MaxSessions \in Nat \ {0}
    /\ {MaxFacts, MaxTurns, MaxFaults} \subseteq Nat
    /\ Setups \subseteq Configs /\ \A config \in Setups : Starts(config)

\* became: "open" while unanswered, then "ok", "error", or "lost" with the
\* process.  doubted: some call of this turn went without an answer.
Turn == [session : Sessions, length : Lengths, doubted : BOOLEAN,
         became : {"open", "ok", "error", "lost"}]

\* messages: the raw turns, oldest first.  summary: those the summary covers.
\* gone: those given up (trimmed, or covered by an empty summary).  since: the
\* episode it began with.
NewBuffer(id) == [messages |-> <<>>, summary |-> {}, tokens |-> 0, lastUsed |-> id,
                  gone |-> {}, since |-> id]

\* taken and prior: what the summary was asked of.  missed and learningError: of
\* an answered call, the facts of the reply not learned, and whether it says so.
NoCall == [at |-> "none", turn |-> 0, taken |-> <<>>, prior |-> {}, hung |-> FALSE,
           missed |-> 0, learningError |-> FALSE]

-----------------------------------------------------------------------------
EstimateTokens(length) == length \div CharsPerToken
Covers(messages) == {message.id : message \in ToSet(messages)}
SummaryTokens(summary) == IF summary = {} THEN 0 ELSE EstimateTokens(SummaryLength)
MessageTokens(messages) ==
    LET sum[n \in 0 .. Len(messages)] ==
            IF n = 0 THEN 0 ELSE sum[n - 1] + EstimateTokens(messages[n].length)
    IN sum[Len(messages)]

\* Mutant: the summary left out of the count.
RecountMessages(buffer) ==
    [buffer EXCEPT !.tokens = MessageTokens(buffer.messages)]
Recount(buffer) ==
    [buffer EXCEPT !.tokens = MessageTokens(buffer.messages) + SummaryTokens(buffer.summary)]

Lesser(m, n) == IF m < n THEN m ELSE n
Excess(buffer) == Len(buffer.messages) - Lesser(KeepRecent, Len(buffer.messages))
Older(buffer) == SubSeq(buffer.messages, 1, Excess(buffer))
Drain(buffer, n) == [buffer EXCEPT !.messages = SubSeq(@, n + 1, Len(@))]

TrimToRecent(buffer) ==
    Recount([Drain(buffer, Excess(buffer)) EXCEPT !.gone = @ \cup Covers(Older(buffer))])

\* Mutant: the session used last goes first.
UsedBefore(s, t) == buffers[s].lastUsed < buffers[t].lastUsed
UsedAfter(s, t) == buffers[s].lastUsed > buffers[t].lastUsed

\* How long ago a session was used is left open: any of the least recently used
\* may have been idle for SESSION_IDLE_TTL.
Idle == {{}} \cup {{t \in DOMAIN buffers : t = s \/ UsedAfter(s, t)} : s \in DOMAIN buffers}

\* The sessions evict_sessions leaves: not the idle, nor the least recently
\* used of more than MaxSessions; `keep`, if buffered, always.
EvictSessions(keep, idle) ==
    LET mine == {keep} \cap DOMAIN buffers
        others == DOMAIN buffers \ (idle \cup mine)
        After(s) == {t \in others : UsedAfter(t, s)}
    IN mine \cup {s \in others : Cardinality(After(s)) + Cardinality(mine) < MaxSessions}

-----------------------------------------------------------------------------
Init ==
    /\ said = <<>> /\ log = <<>> /\ born = 0
    /\ buffers = <<>> /\ line = <<>>
    /\ calls = [c \in Callers |-> NoCall]
    /\ models \in {CreateModels(config) : config \in Setups}
    /\ faults = 0

Fault == faults < MaxFaults /\ faults' = faults + 1

\* A free caller pushes a turn: a new one (0 until its call has its turn), or one
\* that brought an error or no answer.  An answered one is never pushed again.
New == {c \in Callers : calls[c].at = "archive" /\ calls[c].turn = 0}
Push(c) ==
    /\ calls[c].at \in {"none", "answered"}
    /\ \/ /\ Len(said) + Cardinality(New) < MaxTurns
          /\ calls' = [calls EXCEPT ![c] = [NoCall EXCEPT !.at = "archive"]]
          /\ UNCHANGED said
       \/ \E n \in DOMAIN said :
          /\ said[n].became \in {"error", "lost"}
          /\ said' = [said EXCEPT ![n].became = "open"]
          /\ calls' = [calls EXCEPT ![c] = [NoCall EXCEPT !.at = "archive", !.turn = n]]
    /\ line' = Append(line, c)
    /\ UNCHANGED <<log, buffers, models, born, faults>>

HasTurn(c) == line # <<>> /\ Head(line) = c

At(c, where) == calls[c].at = where /\ HasTurn(c)

Answer(c, reply) ==
    /\ calls' = [calls EXCEPT ![c] = reply]
    /\ line' = Tail(line)
Answered(c, reply) ==
    /\ Answer(c, reply)
    /\ said' = [said EXCEPT ![calls[c].turn].became = "ok"]
Window(missed, learningError) ==
    [NoCall EXCEPT !.at = "answered", !.missed = missed, !.learningError = learningError]

\* The turns said once the call's own is among them, and its number.
Opened(s, l) ==
    Append(said, [session |-> s, length |-> l, doubted |-> FALSE, became |-> "open"])
Saying(c) ==
    IF calls[c].turn > 0 THEN {said}
    ELSE {Opened(s, l) : s \in Sessions, l \in Lengths}
Number(c) == IF calls[c].turn > 0 THEN calls[c].turn ELSE Len(said) + 1

\* store_episode fails: the call is an error, and nothing was kept.
ArchiveFails(c) ==
    /\ At(c, "archive") /\ Fault
    /\ \E turns \in Saying(c) : said' = [turns EXCEPT ![Number(c)].became = "error"]
    /\ Answer(c, NoCall)
    /\ UNCHANGED <<log, buffers, models, born>>

\* Archived and buffered; over the threshold, trimmed if there is no chat model,
\* else a summary of all but the recent messages is asked for.
Archive(c) ==
    /\ At(c, "archive")
    /\ \E turns \in Saying(c), idle \in Idle :
       LET id == Len(log) + 1
           turn == turns[Number(c)]
           kept == EvictSessions(turn.session, idle)
           old == IF turn.session \in kept THEN buffers[turn.session] ELSE NewBuffer(id)
           grown == [old EXCEPT !.messages = Append(@, [id |-> id, length |-> turn.length]),
                                !.tokens = @ + EstimateTokens(turn.length), !.lastUsed = id]
           full == grown.tokens > Threshold
           asks == full /\ models.chat # "none" /\ Excess(grown) > 0
       IN /\ said' = turns
          /\ log' = Append(log, Number(c))
          /\ buffers' = [s \in kept \cup {turn.session} |->
                 CASE s # turn.session -> buffers[s]
                   [] s = turn.session /\ full /\ models.chat = "none" -> TrimToRecent(grown)
                   [] OTHER -> grown]
          /\ calls' = [calls EXCEPT ![c].turn = Number(c),
                                    ![c].at = IF asks THEN "compress" ELSE "recall",
                                    ![c].taken = IF asks THEN Older(grown) ELSE <<>>,
                                    ![c].prior = IF asks THEN grown.summary ELSE {}]
    /\ UNCHANGED <<line, models, born, faults>>

Awaiting(c, where) == At(c, where) /\ ~calls[c].hung

\* The call's own buffer, unless it was evicted meanwhile, becomes new(buffer).
Rewrite(c, new(_)) ==
    LET session == said[calls[c].turn].session
    IN buffers' = [s \in DOMAIN buffers |->
                      IF s = session THEN new(buffers[s]) ELSE buffers[s]]

\* The summary arrived: exactly what it covers is dropped.  An empty text is a
\* summary too, which covers nothing.
Summarise(buffer, call, empty) ==
    LET covered == call.prior \cup Covers(call.taken)
    IN Recount([Drain(buffer, Lesser(Len(call.taken), Len(buffer.messages))) EXCEPT
                   !.summary = IF empty THEN {} ELSE covered,
                   !.gone = @ \cup IF empty THEN covered ELSE {}])

Compressed(c) ==
    /\ Awaiting(c, "compress")
    /\ \E reply \in Replies(0) :
        /\ CompressContext(reply).ok
        /\ Rewrite(c, LAMBDA b : Summarise(b, calls[c], CompressContext(reply).empty))
    /\ calls' = [calls EXCEPT ![c].at = "recall", ![c].taken = <<>>, ![c].prior = {}]
    /\ UNCHANGED <<said, log, line, models, born, faults>>

\* Fall back to the rolling window (and say so in the window's warnings).
NotCompressed(c) ==
    /\ Rewrite(c, TrimToRecent)
    /\ calls' = [calls EXCEPT ![c].at = "recall", ![c].taken = <<>>, ![c].prior = {},
                              ![c].hung = FALSE]
    /\ UNCHANGED <<said, log, line, models, born>>

CompressionFails(c) ==
    /\ Awaiting(c, "compress") /\ \E reply \in Replies(0) : ~CompressContext(reply).ok
    /\ NotCompressed(c)
    /\ UNCHANGED faults

\* Recalled, or not (the window's warnings say so).  Then: nothing to learn with,
\* or the extraction is asked for.
Recalled(c) ==
    /\ IF models.chat = "none"
       THEN Answered(c, Window(0, TRUE))
       ELSE /\ calls' = [calls EXCEPT ![c].at = "learn", ![c].hung = FALSE]
            /\ UNCHANGED <<said, line>>
    /\ UNCHANGED <<log, buffers, models, born>>

Recall(c) ==
    /\ Awaiting(c, "recall") /\ \E reply \in EmbeddingReplies(models) : Embedded(reply)
    /\ Recalled(c) /\ UNCHANGED faults

\* Mutant: a failed recall fails the call.
FailRecalled(c) ==
    /\ Answer(c, NoCall)
    /\ said' = [said EXCEPT ![calls[c].turn].became = "error"]
    /\ UNCHANGED <<log, buffers, models, born>>
NotRecalled(c) == Recalled(c)

\* The embedding or the query failed.
RecallFails(c) ==
    /\ Awaiting(c, "recall") /\ NotRecalled(c)
    /\ UNCHANGED faults

\* process_episode: the facts are capped, and any step may fail after some of
\* them are stored.
Learned(reply, stored) ==
    LET extraction == ExtractFacts(models.chat, reply)
    IN Window(Lesser(reply.facts, MaxFacts) - stored,
              ~extraction.ok \/ stored < Lesser(extraction.facts, MaxFacts))

Learn(c) ==
    /\ Awaiting(c, "learn")
    /\ \E reply \in Replies(MaxFacts + 1) :
        \E stored \in 0 .. Lesser(ExtractFacts(models.chat, reply).facts, MaxFacts) :
            /\ stored > 0 => \E vector \in EmbeddingReplies(models) : Embedded(vector)
            /\ Answered(c, Learned(reply, stored))
    /\ UNCHANGED <<log, buffers, models, born, faults>>

-----------------------------------------------------------------------------
\* A provider stops answering (in the extraction; a fact's embedding that hangs
\* ends as a step of Learn that failed).  The request gives up at its timeout.
Hang(c) ==
    /\ \/ Awaiting(c, "compress") \/ Awaiting(c, "learn")
       \/ Awaiting(c, "recall") /\ Remote(models.embedder)
    /\ Fault /\ calls' = [calls EXCEPT ![c].hung = TRUE]
    /\ UNCHANGED <<said, log, buffers, line, models, born>>

\* Mutant: no request timeout.
NeverTimesOut(c) == FALSE
TimesOut(c) == HasTurn(c) /\ calls[c].hung

GiveUp(c) ==
    /\ TimesOut(c)
    /\ CASE calls[c].at = "compress" -> NotCompressed(c)
         [] calls[c].at = "recall" -> NotRecalled(c)
         [] calls[c].at = "learn" ->
              /\ Answered(c, Learned(Failed, 0))
              /\ UNCHANGED <<log, buffers, models, born>>
    /\ UNCHANGED faults

Emptied == buffers' = <<>> /\ born' = Len(log)

\* The process dies and is started again: what was in line has no answer.
Restart ==
    /\ Fault /\ Emptied /\ line' = <<>>
    /\ calls' = [c \in Callers |-> NoCall]
    /\ said' = [n \in DOMAIN said |->
                   IF said[n].became = "open"
                   THEN [said[n] EXCEPT !.became = "lost", !.doubted = TRUE] ELSE said[n]]
    /\ UNCHANGED <<log, models>>

\* workspace_switch and back, between two calls: a new app, with empty buffers.
Switch ==
    /\ line = <<>> /\ Fault /\ Emptied
    /\ UNCHANGED <<said, log, calls, line, models>>

Onward(c) ==
    \/ Archive(c) \/ Compressed(c) \/ CompressionFails(c)
    \/ Recall(c) \/ RecallFails(c) \/ Learn(c) \/ GiveUp(c)

Next ==
    \/ \E c \in Callers : Push(c) \/ ArchiveFails(c) \/ Onward(c) \/ Hang(c)
    \/ Restart \/ Switch

\* A call goes on while its turn lasts; whether the client pushes, the provider
\* hangs or the process dies is nobody's duty.
Fairness == \A c \in Callers : WF_vars(Onward(c))
Spec == Init /\ [][Next]_vars /\ Fairness

-----------------------------------------------------------------------------
\* The variables hold what their comments say.
Message == [id : Nat, length : Lengths]
Buffer == [messages : Seq(Message), summary : SUBSET Nat, tokens : Nat,
           lastUsed : Nat, gone : SUBSET Nat, since : Nat]
TypeOK ==
    /\ said \in Seq(Turn) /\ Len(said) <= MaxTurns
    /\ log \in Seq(DOMAIN said) /\ born \in 0 .. Len(log)
    /\ DOMAIN buffers \subseteq Sessions
    /\ \A s \in DOMAIN buffers : buffers[s] \in Buffer
    /\ \A c \in Callers :
        /\ calls[c].at \in {"none", "archive", "compress", "recall", "learn", "answered"}
        /\ calls[c].at \in {"none", "answered"} <=> c \notin ToSet(line)
    /\ IsInjective(line)
    /\ models \in [chat : Providers, embedder : Providers, embeds : BOOLEAN]

EpisodesOf(s) == {id \in DOMAIN log : said[log[id]].session = s}
LastOf(s) == Max(EpisodesOf(s) \cup {0})

\* A window accounts for each message pushed since it began, once: raw, in the
\* summary, or given up where the code means to.  The newest are the raw ones,
\* KeepRecent of them if there are so many.
\* (SessionManager::push_dialogue, compress_buffer, trim_to_recent.)
NothingVanishes ==
    \A s \in DOMAIN buffers :
        LET raw == Covers(buffers[s].messages)
            past == buffers[s].summary \cup buffers[s].gone
            pushed == {id \in EpisodesOf(s) : id >= buffers[s].since}
        IN /\ raw \cup past = pushed /\ raw \cap past = {}
           /\ buffers[s].summary \cap buffers[s].gone = {}
           /\ \A new \in raw, old \in past : old < new
           /\ Cardinality(raw) >= Lesser(KeepRecent, Cardinality(pushed))

\* Between calls a window has no more than the threshold's tokens, summary
\* included, or no more than the recent messages, whatever failed on the way.
\* ("memory stays bounded", SessionManager::push_dialogue.)
BufferIsBounded ==
    line = <<>> =>
        \A s \in DOMAIN buffers :
            \/ MessageTokens(buffers[s].messages) + SummaryTokens(buffers[s].summary) <= Threshold
            \/ Len(buffers[s].messages) <= KeepRecent

\* No session was evicted while one untouched for longer is kept, and none is
\* evicted by the push that uses it.  (evict_sessions.)
LeastRecentGoFirst ==
    \A s \in DOMAIN buffers, t \in Sessions \ DOMAIN buffers :
        LastOf(t) > born => LastOf(t) < LastOf(s)

\* A turn the client was answered about is archived once if the answer was a
\* success, and not at all if it was an error, so that pushing it again is safe
\* just when it is told to.  Only a process that died leaves it in doubt.
\* (push_dialogue: "failing the call would invite a retry that archives the
\* message twice".)
ArchivedOnce ==
    \A n \in DOMAIN said :
        LET episodes == {id \in DOMAIN log : log[id] = n}
        IN ~said[n].doubted =>
              /\ Cardinality(episodes) <= 1
              /\ said[n].became = "ok" => episodes # {}
              /\ said[n].became = "error" => episodes = {}

\* A successful push learned every fact the provider's reply stated, up to the
\* cap, or reports an error of learning; without a chat model it always does.
\* (NeurolitheApp::push_dialogue: "never swallowed".)
LearnedOrTold ==
    \A c \in Callers :
        calls[c].at = "answered" =>
            calls[c].learningError \/ (models.chat # "none" /\ calls[c].missed = 0)

\* Every push ends, whatever the providers do.  (build_http_client's timeout,
\* one_at_a_time.)
PushesEnd == \A c \in Callers : c \in ToSet(line) ~> c \notin ToSet(line)

\* A window keeps each message once, raw, summed up or knowingly dropped, and stays
\* within its threshold, whichever call failed (push_dialogue, compress_buffer).
WindowsAreSound == TypeOK /\ NothingVanishes /\ BufferIsBounded
=============================================================================
