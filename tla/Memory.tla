------------------------------- MODULE Memory -------------------------------
(***************************************************************************)
(* The short-term memory of one workspace: what dialogue, bus commands,    *)
(* recalls and the decay sweep do to its nodes, their vectors and edges.   *)
(* (infrastructure/repository/, application/sleep.rs, the conflict         *)
(* resolver, domain/decay.rs, the stm half of write_service.rs.)           *)
(*                                                                         *)
(* Each process has one connection and one thread, so what runs between    *)
(* two awaits is seen by the other process only, statement by statement.   *)
(* A text stands for its embedding.  A score is kept as its distance from  *)
(* 1.0 in half-lives, up to the level that archives.                       *)
(***************************************************************************)
EXTENDS Integers, FiniteSets, FiniteSetsExt

CONSTANTS
    Procs,        \* processes sharing the workspace
    Talkers,      \* those whose MCP client pushes dialogue
    Sweepers,     \* those whose decay schedule is on
    Chat,         \* texts of dialogue facts
    Versions,     \* texts of the document's versions
    Data,         \* data ids
    None,
    Alike,        \* pairs of texts within the assimilation distance
    Close,        \* pairs of texts within the accommodation distance
    Layers,       \* ccl layers of dialogue and commands
    Rate,         \* half-lives per tick, by layer
    Bound,        \* half-lives a score survives: ARCHIVE_THRESHOLD
    Batch,        \* SWEEP_BATCH
    Calls,        \* the kinds of call each process is given
    MaxFacts,     \* bound: texts taken from one message
    MaxNodes      \* bound: nodes ever inserted

VARIABLES
    node,         \* per id of a stored node, its row
    vec,          \* vec_nodes: per indexed id, the text of its vector
    edge,         \* <<source, target>> pairs
    last,         \* the last id given (AUTOINCREMENT)
    task,         \* per process, the call it is in
    lock          \* the process in a write transaction, or None

store == <<node, vec, edge, last>>
vars == <<store, task, lock>>

Texts == Chat \cup Versions
Ids == 1 .. MaxNodes
Cap == Bound + 1
Idle == [at |-> "idle", ids |-> {}, todo |-> 0, src |-> 0, hit |-> 0,
         text |-> None, ccl |-> None, next |-> "idle", archived |-> TRUE]

\* kind "fact", "turn" or "subject"; data: its dataId.  level: the score;
\* age: ticks since last_decayed_at; unread: ticks since it was written or read.
Row == [text : Texts \cup {None}, kind : {"fact", "turn", "subject"},
        data : Data \cup {None}, ccl : Layers \cup {"reality"}, active : BOOLEAN,
        level : 0 .. Cap, age : 0 .. Cap, unread : 0 .. Cap]

ASSUME MemoryConstants ==
    /\ Talkers \subseteq Procs /\ Sweepers \subseteq Procs
    /\ Chat \cap Versions = {} /\ None \notin Texts \cup Data \cup Procs
    /\ Alike \subseteq Close /\ Close \subseteq SUBSET Texts
    /\ Rate \in [Layers \cup {"reality"} -> Nat \ {0}]
    /\ {Bound, Batch, MaxFacts, MaxNodes} \subseteq Nat /\ Bound > 0 /\ Batch > 0
    /\ Calls \in [Procs -> SUBSET {"recall", "fact", "turn", "document", "forget", "reset"}]

-----------------------------------------------------------------------------
Stored == DOMAIN node
Active == {n \in Stored : node[n].active}
Least(x) == IF x > Cap THEN Cap ELSE x
Within(rel, t, u) == t = u \/ {t, u} \in rel
New(text, kind, data, ccl) ==
    [text |-> text, kind |-> kind, data |-> data, ccl |-> ccl, active |-> TRUE,
     level |-> 0, age |-> 0, unread |-> 0]

\* Any write waits for the write transaction under way.
Writable == lock = None
Goto(p, t) == task' = [task EXCEPT ![p] = t]
At(p, where) == task[p].at = where
Drop(f, S) == [n \in DOMAIN f \ S |-> f[n]]
Put(f, n, x) == [m \in DOMAIN f \cup {n} |-> IF m = n THEN x ELSE f[m]]

\* index_if_eligible: an active node whose vector is not zero.
Index(v, n, text, active) ==
    IF active /\ text # None THEN Put(v, n, text) ELSE v

\* store_node
Insert(row) ==
    /\ last < MaxNodes
    /\ last' = last + 1
    /\ node' = Put(node, last', row)
    /\ vec' = Index(vec, last', row.text, TRUE)

\* Deleting nodes takes their edges and vectors with them, in one transaction.
Delete(S) ==
    /\ node' = Drop(node, S) /\ vec' = Drop(vec, S)
    /\ edge' = {e \in edge : e[1] \notin S /\ e[2] \notin S}

Init == /\ node = <<>> /\ vec = <<>> /\ edge = {} /\ last = 0
        /\ task = [p \in Procs |-> Idle] /\ lock = None

-----------------------------------------------------------------------------
(***************************************************************************)
(* Recall: a search, and the boost of what it returned.                    *)
(***************************************************************************)
\* query_with_graph: any active nodes may be the hits and their neighbours.
Recall(p) ==
    /\ At(p, "idle") /\ "recall" \in Calls[p]
    /\ \E S \in SUBSET Active : Goto(p, [Idle EXCEPT !.at = "boost", !.ids = S])
    /\ UNCHANGED <<store, lock>>

\* boost_relevance: the score and the decay clock.
Boosted(S) == [n \in Stored |-> IF n \in S THEN [node[n] EXCEPT !.level = 0, !.age = 0,
                                                               !.unread = 0]
                                ELSE node[n]]

\* A recall ends here; a push_dialogue goes on to learn from its message.
Boost(p) ==
    /\ At(p, "boost") /\ Writable
    /\ node' = Boosted(task[p].ids)
    /\ \/ Goto(p, Idle)
       \/ p \in Talkers /\ Goto(p, [Idle EXCEPT !.at = "extract"])
    /\ UNCHANGED <<vec, edge, last, lock>>

-----------------------------------------------------------------------------
(***************************************************************************)
(* process_episode: facts extracted by the chat model, each resolved       *)
(* against what is stored.  The first text of a message is its fact, the   *)
(* others what the fact is related to.                                     *)
(***************************************************************************)
Extract(p) ==
    /\ At(p, "extract")
    /\ \/ Goto(p, Idle)                                  \* failed, or nothing found
       \/ \E k \in 1 .. MaxFacts, l \in Layers :
             Goto(p, [task[p] EXCEPT !.at = "embed", !.todo = k, !.ccl = l, !.next = "embed"])
    /\ UNCHANGED <<store, lock>>

\* Mutant: whatever is nearest is a merge partner.
AnyIdentity(n) == TRUE
SameIdentity(n) == node[n].kind = "fact" /\ node[n].data = None

\* find_similar_nodes: indexed, active, within reach, the nearest first.
Similar(t) == {n \in Active \cap DOMAIN vec : Within(Close, vec[n], t)}
Distance(t, n) == IF vec[n] = t THEN 0 ELSE IF Within(Alike, vec[n], t) THEN 1 ELSE 2
Nearest(t, S) == {n \in S : \A m \in S : Distance(t, n) <= Distance(t, m)}

\* Identical text, or near enough to say the same.
Same(t, n) == node[n].text = t \/ Within(Alike, vec[n], t)

\* The embedding arrives (or fails), and the resolver looks for a partner.
Resolve(p) ==
    /\ At(p, "embed")
    /\ \/ Goto(p, Idle)
       \/ \E t \in Chat :
             LET partners == {n \in Similar(t) : SameIdentity(n)} IN
             \/ partners = {} /\ Goto(p, [task[p] EXCEPT !.at = "create", !.text = t])
             \/ \E n \in Nearest(t, partners) :
                   Goto(p, IF Same(t, n)
                           THEN [task[p] EXCEPT !.at = "support", !.hit = n, !.text = node[n].text]
                           ELSE [task[p] EXCEPT !.at = "content", !.hit = n, !.text = t])
    /\ UNCHANGED <<store, lock>>

\* What follows a text resolved to node n: the edge, or the next text.
Onward(t, n) ==
    LET rest == [t EXCEPT !.todo = @ - 1, !.hit = 0, !.text = None]
    IN CASE t.src # 0 -> [rest EXCEPT !.at = "link", !.hit = n]
         [] t.src = 0 /\ rest.todo > 0 -> [rest EXCEPT !.at = "embed", !.src = n]
         [] OTHER -> Idle

\* update_node_support: no row, no effect.  New tags rewrite the whole
\* payload as it was read.
Supported(n, text) ==
    IF n \in Stored THEN [node EXCEPT ![n].level = 0, ![n].text = text] ELSE node

Support(p) ==
    /\ At(p, "support") /\ Writable
    /\ LET n == task[p].hit IN
       /\ \/ node' = Supported(n, task[p].text)
          \/ n \in Stored /\ node' = Supported(n, node[n].text)
       /\ Goto(p, Onward(task[p], n))
    /\ UNCHANGED <<vec, edge, last, lock>>

\* Mutant: the new vector is indexed without looking at the status.
IndexAlways(n, t) == Index(Drop(vec, {n}), n, t, TRUE)
Reindexed(n, t) == Index(Drop(vec, {n}), n, t, node[n].active)

\* update_node_content: the new text and its vector; an error if it is gone.
Content(p) ==
    /\ At(p, "content") /\ Writable
    /\ LET n == task[p].hit
           t == task[p].text
       IN IF n \in Stored
          THEN /\ node' = [node EXCEPT ![n].text = t, ![n].level = 0]
               /\ vec' = Reindexed(n, t)
               /\ Goto(p, Onward(task[p], n))
          ELSE Goto(p, Idle) /\ UNCHANGED <<node, vec>>
    /\ UNCHANGED <<edge, last, lock>>

\* A new node names its episode, which a reset may have deleted meanwhile.
Create(p) ==
    /\ At(p, "create") /\ Writable
    /\ IF task[p].archived
          THEN /\ Insert(New(task[p].text, "fact", None, task[p].ccl))
               /\ Goto(p, Onward(task[p], last'))
          ELSE Goto(p, Idle) /\ UNCHANGED <<node, vec, last>>
    /\ UNCHANGED <<edge, lock>>

BothStored(t) == {t.src, t.hit} \subseteq Stored

\* store_edge: both ends must still be stored.
Link(p) ==
    /\ At(p, "link") /\ Writable
    /\ LET t == task[p] IN
       IF BothStored(t)
       THEN /\ edge' = edge \cup {<<t.src, t.hit>>}
            /\ Goto(p, IF t.todo = 0 THEN Idle ELSE [t EXCEPT !.at = t.next, !.hit = 0])
       ELSE Goto(p, Idle) /\ UNCHANGED edge
    /\ UNCHANGED <<node, vec, last, lock>>

-----------------------------------------------------------------------------
(***************************************************************************)
(* Bus commands and tools.  Their embeddings are made before the first     *)
(* statement.                                                              *)
(***************************************************************************)
Call(p, what) == what \in Calls[p] /\ At(p, "idle") /\ Writable /\ UNCHANGED lock

\* store_explicit_fact: stored without looking for a partner.
StoreFact(p) ==
    /\ Call(p, "fact")
    /\ \E t \in Chat, l \in Layers : Insert(New(t, "fact", None, l))
    /\ UNCHANGED <<edge, task>>

\* remember_stm: the turn, then the subjects it is about, one by one.
RememberTurn(p) ==
    /\ Call(p, "turn")
    /\ \E t \in Chat, l \in Layers :
          /\ Insert(New(t, "turn", None, l))
          /\ \E k \in 0 .. MaxFacts :
                Goto(p, IF k = 0 THEN Idle
                        ELSE [Idle EXCEPT !.at = "subject", !.next = "subject", !.src = last',
                                          !.todo = k, !.ccl = l])
    /\ UNCHANGED edge

\* find_working_subject: the newest active anchor in the working layer.
Subjects(d) == {n \in Active : /\ node[n].kind = "subject" /\ node[n].data = d
                               /\ node[n].ccl = "working"}
FindSubject(p) ==
    /\ At(p, "subject")
    /\ \E d \in Data :
          LET found == Subjects(d)
              rest == [task[p] EXCEPT !.todo = @ - 1]
          IN Goto(p, IF found = {} THEN [rest EXCEPT !.at = "anchor", !.text = d]
                     ELSE [rest EXCEPT !.at = "refresh", !.hit = Max(found)])
    /\ UNCHANGED <<store, lock>>

RefreshSubject(p) ==
    /\ At(p, "refresh") /\ Writable
    /\ node' = Boosted({task[p].hit})
    /\ Goto(p, [task[p] EXCEPT !.at = "link"])
    /\ UNCHANGED <<vec, edge, last, lock>>

\* A new anchor, in the command's layer, with a zero vector.
AnchorSubject(p) ==
    /\ At(p, "anchor") /\ Writable
    /\ Insert(New(None, "subject", task[p].text, task[p].ccl))
    /\ Goto(p, [task[p] EXCEPT !.at = "link", !.hit = last', !.text = None])
    /\ UNCHANGED <<edge, lock>>

DocumentFacts(d) == {n \in Stored : node[n].data = d /\ node[n].kind = "fact"}

\* replace_document_node, in one transaction.
ReplaceDocument(p) ==
    /\ Call(p, "document") /\ last < MaxNodes
    /\ \E d \in Data, t \in Versions :
          /\ last' = last + 1
          /\ node' = Put(Drop(node, DocumentFacts(d)), last', New(t, "fact", d, "reality"))
          /\ vec' = Index(Drop(vec, DocumentFacts(d)), last', t, TRUE)
          /\ edge' = {e \in edge : {e[1], e[2]} \cap DocumentFacts(d) = {}}
    /\ UNCHANGED task

\* delete_nodes_by_data_id: anchors too.
Forget(p) ==
    /\ Call(p, "forget")
    /\ \E d \in Data : Delete({n \in Stored : node[n].data = d})
    /\ UNCHANGED <<last, task>>

\* reset_store, delete_tenant: nodes and episodes.
Reset(p) ==
    /\ Call(p, "reset")
    /\ Delete(Stored)
    /\ task' = [q \in Procs |-> IF task[q].at = "idle" THEN task[q]
                                ELSE [task[q] EXCEPT !.archived = FALSE]]
    /\ UNCHANGED last

-----------------------------------------------------------------------------
(***************************************************************************)
(* Decay.                                                                  *)
(***************************************************************************)
\* Time passes.  A batch takes milliseconds: it is written in the tick it was
\* read in.
Tick ==
    /\ Writable
    /\ node' = [n \in Stored |-> IF node[n].active
                  THEN [node[n] EXCEPT !.age = Least(@ + 1), !.unread = Least(@ + 1)]
                  ELSE node[n]]
    /\ UNCHANGED <<vec, edge, last, task, lock>>

\* The next batch of active ids above `after`.
NextBatch(after) ==
    LET above == {n \in Active : n > after}
    IN {n \in above : Cardinality({m \in above : m <= n}) <= Batch}

\* calculate_decay_for
Decayed(row) == Least(row.level + Rate[row.ccl] * row.age)

\* Mutant: the batch is read before the lock is taken.
ReadFirst(p) == UNCHANGED lock
TakeLock(p) == Writable /\ lock' = p

\* BEGIN IMMEDIATE, and the batch is read: ids, with the levels to write.
BeginBatch(p, after) ==
    /\ TakeLock(p)
    /\ Goto(p, [Idle EXCEPT !.at = "sweep",
                            !.ids = {<<n, Decayed(node[n])>> : n \in NextBatch(after)}])
    /\ UNCHANGED store

Sweep(p) == At(p, "idle") /\ p \in Sweepers /\ BeginBatch(p, 0)
SweepOn(p) == At(p, "swept") /\ BeginBatch(p, task[p].hit)

\* Mutant: the decay is not accumulated.
KeepScore(row, level) == [row EXCEPT !.age = 0, !.active = level <= Bound]
Rescored(row, level) == [row EXCEPT !.level = level, !.age = 0, !.active = level <= Bound]

\* An archived node's clock is never read again.
Shelved(row) == IF row.active THEN row ELSE [row EXCEPT !.level = 0, !.unread = 0]

\* The updates, by id whatever the row now holds, and the commit.
WriteBatch(p) ==
    /\ At(p, "sweep") /\ lock \in {p, None}
    /\ LET new == task[p].ids
           read == {s[1] : s \in new}
       IN /\ node' = [n \in Stored |->
                         IF n \in read
                         THEN Shelved(Rescored(node[n], CHOOSE k \in 0 .. Cap : <<n, k>> \in new))
                         ELSE node[n]]
          /\ vec' = Drop(vec, {n \in read \cap Stored : ~node'[n].active})
          /\ Goto(p, IF Cardinality(new) < Batch THEN Idle
                     ELSE [Idle EXCEPT !.at = "swept", !.hit = Max(read)])
    /\ lock' = None
    /\ UNCHANGED <<edge, last>>

-----------------------------------------------------------------------------
Step(p) ==
    \/ Recall(p) \/ Boost(p)
    \/ Extract(p) \/ Resolve(p) \/ Support(p) \/ Content(p) \/ Create(p) \/ Link(p)
    \/ StoreFact(p) \/ RememberTurn(p) \/ FindSubject(p) \/ RefreshSubject(p)
    \/ AnchorSubject(p) \/ ReplaceDocument(p) \/ Forget(p) \/ Reset(p)
    \/ Sweep(p) \/ SweepOn(p) \/ WriteBatch(p)
Next == Tick \/ \E p \in Procs : Step(p)

\* Time goes on, the schedule runs its sweep between calls, a sweep runs to its end, and
\* what a call awaits is answered.
Fairness ==
    /\ SF_vars(Tick)
    /\ \A p \in Procs :
        /\ SF_vars(Sweep(p))
        /\ WF_vars(SweepOn(p) \/ WriteBatch(p))
        /\ WF_vars(Boost(p) \/ Extract(p) \/ Resolve(p) \/ Support(p) \/ Content(p)
                   \/ Create(p) \/ Link(p) \/ FindSubject(p) \/ RefreshSubject(p)
                   \/ AnchorSubject(p))

Spec == Init /\ [][Next]_vars /\ Fairness

-----------------------------------------------------------------------------
(***************************************************************************)
(* Properties                                                              *)
(***************************************************************************)
TypeOK ==
    /\ Stored \subseteq Ids /\ \A n \in Stored : node[n] \in Row
    /\ DOMAIN vec \subseteq Stored /\ \A n \in DOMAIN vec : vec[n] \in Texts
    /\ edge \subseteq Stored \X Stored
    /\ last \in 0 .. MaxNodes
    /\ lock \in Procs \cup {None}

\* What search finds is what is there: an active node is indexed by the vector
\* of the text it now carries, an archived node and an anchor not at all.
\* (index_if_eligible, unindex, the transaction of update_node_content.)
VectorFollowsText ==
    /\ DOMAIN vec = {n \in Active : node[n].text # None}
    /\ \A n \in DOMAIN vec : vec[n] = node[n].text

\* A document's fact says what an event of that document said: dialogue is
\* never folded into it.  (identity, resolve.)
DocumentsSpeakForThemselves ==
    \A n \in Stored : node[n].kind = "fact" /\ node[n].data # None => node[n].text \in Versions

\* A node is archived only when nobody has read it for the half-lives its
\* layer allows, whatever a sweep of either process had read before.
\* (sweep_decay_batch, boost_relevance.)
FreshIsKept ==
    [][\A n \in Stored \cap DOMAIN node' :
          node[n].active /\ ~node'[n].active
             => Rate[node[n].ccl] * node[n].unread > Bound]_vars

\* Nothing stays for ever unless it is read or said again for ever.
Reinforced(n) == \E p \in Procs : /\ task[p].at \in {"support", "content"}
                                 /\ task[p].hit = n /\ task'[p] # task[p]
ForgottenFades ==
    \A n \in Ids :
        \/ []<>(n \notin Active \/ node[n].unread = 0)
        \/ []<><<Reinforced(n)>>_vars

\* Every edge has its two ends and every vector its node, whichever process deletes
\* (foreign keys, wipe_all), and a document's fact keeps to the document (identity).
RowsAreSound == TypeOK /\ DocumentsSpeakForThemselves
=============================================================================
