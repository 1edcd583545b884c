----------------------------- MODULE McpServer -----------------------------
(***************************************************************************)
(* One MCP process: the line transport, the tool calls, the workspace they *)
(* reach, start-up and shutdown.  (interfaces/mcp/transport.rs, mod.rs,    *)
(* tools.rs, application/workspace.rs, and serve_mcp of daemon.rs.)        *)
(*                                                                         *)
(* The client may cancel, reuse ids, close stdin or go away at any time.   *)
(* Handlers are tasks of one thread: an action runs from one await to the  *)
(* next.  rmcp is external: it keeps one entry per id in flight, answers   *)
(* an id once, and drops the reply to a cancelled request.  Lines that     *)
(* leave no trace (blank or refused ones, stray notifications) stutter.     *)
(***************************************************************************)
EXTENDS Integers, Sequences, FiniteSets

CONSTANTS
    Ids,           \* request ids a client uses
    Names,         \* workspace names
    Home,          \* the workspace of this process ([workspace])
    DaemonHolds,   \* workspaces the Kafka loops keep open ({} without them)
    MaxRequests,   \* bound: requests handed to rmcp
    MaxFaults      \* bound: client departures, failed reads and opens, timeouts, signals

VARIABLES
    session,       \* of the transport: "open", "eof", "ended"
    started,       \* session_started
    owed,          \* per id, replies owed
    pool,          \* rmcp: ids in flight
    handlers,      \* rmcp: the requests being handled
    outbox,        \* rmcp: replies being written, by request
    queue,         \* calls holding or awaiting one_at_a_time, in order
    closing,       \* shutdown has begun
    phase,         \* "starting", "serving", "draining", "settling", "done"
    how,           \* how it was done: "drained", "gaveUp", "unsent", "early", or "none"
    allow,         \* allow_workspace_switch
    active,        \* the active workspace
    dirs,          \* workspaces on disk
    asked, told,   \* history: per id, requests accepted and replies written
    cancelled,     \* history: ids ever cancelled
    cutOff,        \* history: the session ended on replies owed
    gone,          \* the client reads no more
    reached,       \* history: workspaces that calls read, wrote, made or removed
    faults

transport == <<session, started, owed>>
rmcp == <<pool, handlers, outbox, queue>>
server == <<closing, phase, how>>
workspace == <<allow, active, dirs, reached>>
history == <<asked, told, cancelled>>
client == <<cutOff, gone, faults>>
vars == <<transport, rmcp, server, workspace, history, client>>

ASSUME McpConstants ==
    /\ Home \in Names /\ DaemonHolds \in {{}, {Home}}
    /\ MaxRequests \in Nat /\ MaxFaults \in Nat

Init ==
    /\ session = "open" /\ started = FALSE
    /\ owed = [i \in Ids |-> 0] /\ pool = {} /\ handlers = {} /\ outbox = {} /\ queue = <<>>
    /\ closing = FALSE /\ phase = "starting" /\ how = "none"
    /\ allow \in BOOLEAN /\ active = Home /\ dirs \in SUBSET Names /\ DaemonHolds \subseteq dirs
    /\ asked = owed /\ told = owed /\ cancelled = {}
    /\ cutOff = FALSE /\ gone = FALSE /\ reached = {} /\ faults = 0

Fault == faults < MaxFaults /\ faults' = faults + 1
NoFault == UNCHANGED client

-----------------------------------------------------------------------------
(***************************************************************************)
(* The transport reads one line at a time, its own last answer written.    *)
(***************************************************************************)
Reading == phase # "done" /\ session = "open"

Settle(o, i) == [o EXCEPT ![i] = IF @ > 0 THEN @ - 1 ELSE 0]

InUse(i) == owed[i] > 0

\* A line too long, not JSON, not a message, with bad parameters, sent before
\* initialize, or with an id in flight, is answered by the transport before it
\* reads on; a client that is gone ends the session.
Refuse ==
    /\ Reading /\ gone
    /\ session' = "ended"
    /\ UNCHANGED <<started, owed, rmcp, server, workspace, history>> /\ NoFault

Total == LET n[S \in SUBSET Ids] == IF S = {} THEN 0 ELSE LET i == CHOOSE i \in S : TRUE
                                                            IN asked[i] + n[S \ {i}]
         IN n[Ids]

\* A request is owed an answer, and handed to rmcp.
Hand(i, kind) ==
    /\ Reading /\ ~InUse(i)
    /\ Total < MaxRequests
    /\ owed' = [owed EXCEPT ![i] = @ + 1]
    /\ asked' = [asked EXCEPT ![i] = @ + 1]
    /\ pool' = pool \cup {i}
    /\ handlers' = handlers \cup {[id |-> i, nth |-> asked[i] + 1, at |-> kind, ws |-> Home]}
    /\ UNCHANGED <<session, outbox, queue, server, workspace, told, cancelled>> /\ NoFault

\* initialize, ping, tools/list, an unknown tool: answered without a workspace.
Ask(i) ==
    /\ Hand(i, "plain")
    /\ started' \in {started, TRUE}
\* A tools/call; which tool it names matters only once its turn comes.
Call(i) ==
    /\ started
    /\ Hand(i, "call")
    /\ UNCHANGED started

\* Mutant: what is cancelled stays owed.
StillOwed(o, i) == o
NotOwed(o, i) == Settle(o, i)

\* notifications/cancelled
Cancel(i) ==
    /\ Reading /\ asked[i] > 0
    /\ owed' = NotOwed(owed, i)
    /\ pool' = pool \ {i}
    /\ cancelled' = cancelled \cup {i}
    /\ UNCHANGED <<session, started, handlers, outbox, queue, server, workspace,
                   asked, told>> /\ NoFault

StdinCloses ==
    /\ Reading
    /\ session' = "eof"
    /\ UNCHANGED <<started, owed, rmcp, server, workspace, history>> /\ NoFault

\* Reading stdin fails: the session ends at once, whatever is owed.
ReadFails ==
    /\ Reading /\ Fault
    /\ session' = "ended"
    /\ cutOff' = (cutOff \/ \E i \in Ids : owed[i] > 0)
    /\ UNCHANGED <<started, owed, rmcp, server, workspace, history, gone>>

\* Mutant: a reply counts as given once its call has ended.
NothingHandled(o) == handlers = {}
AllSettled(o) == \A i \in Ids : o[i] = 0

\* At EOF, until every reply owed is written, or 300 seconds.
SessionEnds ==
    /\ phase # "done" /\ session = "eof"
    /\ \/ AllSettled(owed) /\ NoFault
       \/ ~AllSettled(owed) /\ Fault /\ cutOff' = TRUE /\ UNCHANGED gone
    /\ session' = "ended"
    /\ UNCHANGED <<started, owed, rmcp, server, workspace, history>>

\* A reply is written by a task of its own, and settled even when that fails.
Write(r) ==
    /\ phase # "done" /\ r \in outbox
    /\ outbox' = outbox \ {r}
    /\ told' = [told EXCEPT ![r.id] = IF gone THEN @ ELSE @ + 1]
    /\ owed' = Settle(owed, r.id)
    /\ UNCHANGED <<session, started, pool, handlers, queue, server, workspace,
                   asked, cancelled>> /\ NoFault

ClientGoes ==
    /\ phase # "done" /\ ~gone /\ Fault
    /\ gone' = TRUE
    /\ UNCHANGED <<transport, rmcp, server, workspace, history, cutOff>>

-----------------------------------------------------------------------------
(***************************************************************************)
(* A request's handler.                                                    *)
(***************************************************************************)
Alive(h) == phase # "done" /\ h \in handlers
Asking(h) == [id |-> h.id, nth |-> h.nth]
Moved(h, to) == handlers' = (handlers \ {h}) \cup {to}

\* The handler returns: its reply is sent if its id is still in flight.
Return(h) ==
    /\ handlers' = handlers \ {h}
    /\ pool' = IF session = "ended" THEN pool ELSE pool \ {h.id}
    /\ outbox' = IF h.id \in pool /\ session # "ended"
                    THEN outbox \cup {Asking(h)} ELSE outbox
    /\ UNCHANGED <<transport, history>>

\* Mutant: a shutdown that begins is not heeded by the calls.
NotClosing == TRUE
Open == ~closing

\* Accepted, unless shutdown has begun: counted in flight from here on.
Enter(h) ==
    /\ Alive(h) /\ h.at \in {"plain", "call"}
    /\ IF h.at = "plain" \/ ~Open
          THEN Return(h) /\ UNCHANGED queue
          ELSE Moved(h, [h EXCEPT !.at = "waiting"])
               /\ UNCHANGED <<pool, outbox, queue, transport, history>>
    /\ UNCHANGED <<server, workspace>> /\ NoFault

InFlight == {h \in handlers : h.at \notin {"plain", "call"}}
Ready == phase \in {"serving", "draining", "settling"}

\* The workspace is open: get in line for the turn.
LineUp(h) ==
    /\ Alive(h) /\ h.at = "waiting" /\ Ready
    /\ Moved(h, [h EXCEPT !.at = "queued"])
    /\ queue' = Append(queue, Asking(h))
    /\ UNCHANGED <<pool, outbox, transport, history, server, workspace>> /\ NoFault

MyTurn(h) == queue # <<>> /\ Head(queue) = Asking(h)

\* The turn comes, perhaps after shutdown began: the active workspace is resolved once, for the whole call.
TakeTurn(h) ==
    /\ Alive(h) /\ h.at = "queued" /\ MyTurn(h)
    /\ IF Open
          THEN Moved(h, [h EXCEPT !.at = "running", !.ws = active])
               /\ UNCHANGED <<pool, outbox, queue, transport, history>>
          ELSE Return(h) /\ queue' = Tail(queue)
    /\ UNCHANGED <<server, workspace>> /\ NoFault

Running(h) == Alive(h) /\ h.at = "running"
Finish(h) == Return(h) /\ queue' = Tail(queue) /\ UNCHANGED server /\ NoFault

\* A mistaken argument: missing, of a wrong type, too large, or one of another
\* view; or a service's error.
Mistake(h) ==
    /\ Running(h)
    /\ Finish(h) /\ UNCHANGED workspace

\* A memory tool, after whatever models it awaited.
Memory(h) ==
    /\ Running(h)
    /\ reached' = reached \cup {h.ws}
    /\ Finish(h) /\ UNCHANGED <<allow, active, dirs>>

-----------------------------------------------------------------------------
(***************************************************************************)
(* The workspace tools.                                                    *)
(***************************************************************************)
Unpinned(tool) == allow

Create(h, name) ==
    /\ Running(h) /\ Unpinned("create") /\ name \notin dirs
    /\ dirs' = dirs \cup {name}
    /\ reached' = reached \cup {name}
    /\ Finish(h) /\ UNCHANGED <<allow, active>>

Export(h, name) ==
    /\ Running(h) /\ name \in dirs
    /\ name # active => Unpinned("export")
    /\ reached' = reached \cup {name}
    /\ Finish(h) /\ UNCHANGED <<allow, active, dirs>>

\* Leases of this process: the active workspace, those of calls under way, and
\* the daemon's own.
Busy == {h \in handlers : h.at \in {"running", "opening"}}
Leased == {active} \cup {h.ws : h \in Busy} \cup DaemonHolds

\* Mutant: only the active workspace is protected.
NotActive(name) == name # active
Deletable(name) == name \notin Leased

Delete(h, name) ==
    /\ Running(h) /\ Unpinned("delete") /\ name \in dirs /\ name # active
    /\ Deletable(name)
    /\ dirs' = dirs \ {name}
    /\ reached' = reached \cup {name}
    /\ Finish(h) /\ UNCHANGED <<allow, active>>

\* The old handle is dropped, the new stores are opened (awaited), then active.
BeginSwitch(h, name) ==
    /\ Running(h) /\ Unpinned("switch") /\ name \in dirs
    /\ Moved(h, [h EXCEPT !.at = "opening", !.ws = name])
    /\ UNCHANGED <<pool, outbox, queue, transport, history, server, workspace>> /\ NoFault

EndSwitch(h) ==
    /\ Alive(h) /\ h.at = "opening"
    /\ Return(h) /\ queue' = Tail(queue) /\ UNCHANGED server
    /\ \/ active' = h.ws /\ reached' = reached \cup {h.ws} /\ NoFault
       \/ Fault /\ UNCHANGED <<active, reached, cutOff, gone>>
    /\ UNCHANGED <<allow, dirs>>

-----------------------------------------------------------------------------
(***************************************************************************)
(* serve_mcp: the workspace opens while the session already answers.       *)
(***************************************************************************)
Done(what) == phase' = "done" /\ how' = what /\ UNCHANGED closing
Idle == UNCHANGED <<transport, rmcp, history>>

Started ==
    /\ phase = "starting"
    /\ \/ /\ phase' = "serving" /\ UNCHANGED <<closing, how>>
          /\ dirs' = dirs \cup {Home} /\ NoFault
       \/ Done("early") /\ Fault /\ UNCHANGED <<dirs, cutOff, gone>>
    /\ Idle /\ UNCHANGED <<allow, active, reached>>

\* The session is over, or a signal: the calls are drained.
Shut(early) ==
    /\ IF phase = "starting" THEN Done("early")
       ELSE phase = "serving" /\ phase' = "draining" /\ closing' = TRUE /\ UNCHANGED how
    /\ Idle /\ UNCHANGED workspace
ServeEnds == session = "ended" /\ Shut("session") /\ NoFault
Signal == Fault /\ Shut("signal") /\ UNCHANGED <<cutOff, gone>>

\* drain_calls waits twice within one budget: until no call is in flight, counted
\* where calls enter and end, and only then until every reply owed is written.
\* The session may go on reading lines meanwhile.
CallsDone == InFlight = {}

CallsOut ==
    /\ phase = "draining" /\ CallsDone
    /\ phase' = "settling" /\ UNCHANGED <<closing, how>> /\ NoFault
    /\ Idle /\ UNCHANGED workspace

\* Then, or when the budget is spent, the active workspace is checkpointed.
RepliesOut ==
    /\ phase = "settling" /\ AllSettled(owed)
    /\ Done("drained") /\ NoFault
    /\ Idle /\ UNCHANGED workspace

BudgetSpent ==
    /\ \/ phase = "draining" /\ ~CallsDone /\ Done("gaveUp")
       \/ phase = "settling" /\ ~AllSettled(owed) /\ Done("unsent")
    /\ Fault /\ UNCHANGED <<cutOff, gone>>
    /\ Idle /\ UNCHANGED workspace

-----------------------------------------------------------------------------
Handling == \E h \in handlers :
    \/ Enter(h) \/ LineUp(h) \/ TakeTurn(h) \/ Memory(h) \/ Mistake(h)
    \/ \E n \in Names : Create(h, n) \/ Export(h, n) \/ Delete(h, n) \/ BeginSwitch(h, n)
    \/ EndSwitch(h)
Writing == \E r \in outbox : Write(r)
Lines == \/ Refuse \/ StdinCloses
         \/ \E i \in Ids : Ask(i) \/ Call(i) \/ Cancel(i)

Next == \/ Lines \/ Writing \/ Handling \/ SessionEnds \/ ReadFails \/ ClientGoes
        \/ Started \/ ServeEnds \/ Signal \/ CallsOut \/ RepliesOut \/ BudgetSpent

\* The runtime polls every task: models and stores answer, pipes are read.
Fairness == WF_vars(Handling) /\ WF_vars(Writing) /\ WF_vars(Started)

Spec == Init /\ [][Next]_vars /\ Fairness

-----------------------------------------------------------------------------
Request == [id : Ids, nth : Nat]
TypeOK ==
    /\ session \in {"open", "eof", "ended"} /\ {started, closing, allow, gone, cutOff} \subseteq BOOLEAN
    /\ owed \in [Ids -> 0..1] /\ pool \subseteq Ids
    /\ \A h \in handlers : h.id \in Ids /\ h.ws \in Names
    /\ outbox \subseteq Request /\ queue \in Seq(Request)
    /\ active \in Names /\ {dirs, reached} \subseteq SUBSET Names
    /\ \A i \in Ids : told[i] <= asked[i]

\* At stdin EOF every request handed to rmcp is answered before the session
\* ends (W1R-1), and a drained shutdown leaves none unanswered, those refused
\* while it waited included.  Out of the promise are the requests of an id that
\* was once cancelled, and a session that stopped with replies owed: given up
\* at EOF, or stdin failing (receive waits for no reply then).
NoReplyLost ==
    (session = "ended" \/ how = "drained") /\ ~cutOff /\ ~gone =>
        \A i \in Ids \ cancelled : told[i] = asked[i]

\* Once a shutdown has seen its calls out, the stores are left in peace until
\* the checkpoint: while replies are still being written no call is under way,
\* a cancelled one included, and no line read meanwhile, nor any call that was
\* waiting in line, gets to read, write, make, remove or activate a workspace
\* (drain_calls, before checkpoint_on_shutdown).
StoresRest ==
    [][phase = "settling" => Busy = {} /\ UNCHANGED <<active, dirs, reached>>]_vars

\* A workspace this process has open is on disk: nothing deletes it under a
\* call, the active session or the daemon's loops.
OpenIsThere == Ready => Leased \subseteq dirs

\* A pinned server reaches its own workspace only (P2R-4).
Confined == ~allow => active = Home /\ reached \subseteq {Home}

\* Every request owed a reply is settled in the end, whoever cancels, reuses
\* ids or queues before it, as long as the process serves.
Answering == \A i \in Ids :
    owed[i] > 0 ~> (owed[i] = 0 \/ session = "ended" \/ phase = "done")

\* One call at a time has the stores, and it is the first in line: also past a
\* cancelled call, and past an id used again (one_at_a_time).
OneAtATime == \A h \in Busy : MyTurn(h) /\ Busy = {h}

\* The session is never told twice for one request, never holds a workspace that
\* was deleted, a pinned one never leaves its own (Workspaces, delete_workspace),
\* and its calls do not overlap.
SessionIsSound == TypeOK /\ OpenIsThere /\ Confined /\ OneAtATime
=============================================================================
