------------------------------ MODULE LtmTree ------------------------------
(***************************************************************************)
(* The long-term store's knowledge tree, as the processes that share one   *)
(* workspace change it: seeding and embedding the spine when a workspace   *)
(* is opened, filing, replacing and forgetting documents, the inbox        *)
(* gardener, rolling summaries, the hard reset and the re-embedding.       *)
(* (application/ltm_placement.rs, application/documents.rs, the writes of  *)
(* infrastructure/ltm_repository.rs.)                                      *)
(*                                                                         *)
(* Each action of a process is one read or one write of the database, the  *)
(* unit at which another process, or a crash, can come between.  The path  *)
(* from one to the next has no await, so within one process operations do  *)
(* not interleave.                                                         *)
(*                                                                         *)
(* A summary of a container stands for the list of titles it quotes, told  *)
(* apart by node; its truncation is left out.                              *)
(***************************************************************************)
EXTENDS Integers, Sequences, FiniteSets, SequencesExt

CONSTANTS
    Procs,         \* processes on the workspace (daemon, MCP servers)
    Docs,          \* data ids
    Texts,         \* contents a document may have; a text fixes its embedding
    None,
    Spines,        \* the [ltm.spine] a process may be configured with
    Distance,      \* Distance[t][<<name, source>>]: from a text to a concept
    Cutoff,        \* placement_max_distance
    MinMargin,     \* placement_min_margin, 0 = off
    MaxNodes,      \* bound: nodes ever created
    MaxCrashes,    \* bound: crashes and failed embeddings
    MaxOps,        \* bound: operations begun
    Maintenance    \* which of {"garden", "reset", "reembed"} may happen

VARIABLES
    node,          \* tree_nodes by id, with the leaves row of a document
    edges,         \* tree_edges
    summary,       \* per node, what its summary quotes
    vec,           \* vec_ltm: what each concept's vector was made from
    body,          \* doc_bodies by data id
    made,          \* sqlite_sequence: the last id given
    pc, job,       \* per process, where it is and what it is doing
    crashes, ops,
    disturbed,     \* history: a gardener was cut off, or two operations overlapped
    cut            \* history: seeding ended between making the inbox and linking it

tree == <<node, edges, summary, vec, body, made>>
vars == <<tree, pc, job, crashes, ops, disturbed, cut>>

Curated == [rolled |-> FALSE, items |-> {}]
Lists(ns) == [rolled |-> TRUE, items |-> ns]
NoJob == [op |-> "none"]
Ids == 1..MaxNodes
Kinds == {"spine", "inbox", "leaf"}

TreeNode(kind, name, d) == [kind |-> kind, name |-> name, doc |-> d]
Names == {"root", "inbox"} \cup
         UNION {UNION {ToSet(path) : path \in ToSet(s)} : s \in Spines}

ASSUME TreeConstants ==
    /\ None \notin Docs /\ None \notin Texts
    /\ Spines \subseteq Seq(Seq(STRING))
    /\ Maintenance \subseteq {"garden", "reset", "reembed"}
    /\ {Cutoff, MinMargin, MaxNodes, MaxCrashes, MaxOps} \subseteq Nat

-----------------------------------------------------------------------------
(***************************************************************************)
(* Reading the tree.                                                       *)
(***************************************************************************)
Live == DOMAIN node
Lowest(S) == IF S = {} THEN 0 ELSE CHOOSE n \in S : \A m \in S : n <= m

Children(n) == {m \in Live : <<n, m>> \in edges}
Parents(n)  == {m \in Live : <<m, n>> \in edges}
Roots       == {n \in Live : Parents(n) = {}}
LeavesOf(d) == {n \in Live : node[n].kind = "leaf" /\ node[n].doc = d}
Concepts    == {n \in Live : node[n].kind = "spine"}
FindByName(name) == Lowest({n \in Live : node[n].name = name})
ChildByName(p, name) == Lowest({n \in Children(p) \cap Concepts : node[n].name = name})
Inbox == Lowest({n \in Live : node[n].kind = "inbox"})

(***************************************************************************)
(* Placement: the nearest concept within the cutoff, unless the runner-up  *)
(* is nearer to it than the margin.  Roots are never targets.              *)
(***************************************************************************)
FarTo(t, n) == Distance[t][<<node[n].name, vec[n]>>]

Candidates(t) == (DOMAIN vec \cap Concepts) \ Roots

Decide(t, best) ==
    /\ best \in Candidates(t) /\ FarTo(t, best) <= Cutoff
    /\ \A other \in Candidates(t) \ {best} :
          /\ FarTo(t, other) >= FarTo(t, best)
          /\ MinMargin > 0 => FarTo(t, other) - FarTo(t, best) >= MinMargin

\* The concept to file under: 0 for the inbox.  Of two equally near concepts
\* the search may return either first.
Target(t) ==
    LET S == {n \in Candidates(t) : Decide(t, n)} IN IF S = {} THEN {0} ELSE S

(***************************************************************************)
(* A roll-up: the node it starts from and every ancestor, nearest first.   *)
(***************************************************************************)
\* No container is further from the root than a configured path is long, the
\* inbox is one edge from it, and nothing further than there are nodes.
Height == 1 + Lowest({h \in 1..MaxNodes : \/ h = MaxNodes
                                         \/ \A s \in Spines : \A path \in ToSet(s) : Len(path) <= h})
Level(start) ==
    LET f[k \in 0..Height] ==
          IF k = 0 THEN {start} ELSE UNION {Parents(n) : n \in f[k - 1]}
    IN  f
RollUp(start) ==
    LET level == Level(start)
        near(n) == Lowest({k \in 0..Height : n \in level[k]})
    IN  {<<n, near(n)>> : n \in UNION {level[k] : k \in 0..Height}}
Nearest(sweep) == {x \in sweep : \A y \in sweep : x[2] <= y[2]}

\* Rows listed by id, and taken in the order of their ids.
Upcoming(rows) == Lowest(DOMAIN rows)
Remaining(rows) == Restrict(rows, DOMAIN rows \ {Upcoming(rows)})

-----------------------------------------------------------------------------
Idle(p) == pc[p] = "idle"
Goto(p, where, what) == /\ pc' = [pc EXCEPT ![p] = where]
                        /\ job' = [job EXCEPT ![p] = what]
Finish(p) == Goto(p, "idle", NoJob)
Step(p, where) == pc[p] = where /\ UNCHANGED <<crashes, ops, disturbed, cut>>
TreeKept == UNCHANGED tree
NewId == made + 1
With(f, n, value) == [m \in DOMAIN f \cup {n} |-> IF m = n THEN value ELSE f[m]]
Overlaps(p) == \E q \in Procs \ {p} : pc[q] \notin {"idle", "down"}

\* A foreign key that no longer resolves fails the statement and, with it, the
\* operation.
Create(n) == /\ made < MaxNodes /\ made' = NewId
             /\ node' = With(node, NewId, n)
             /\ summary' = With(summary, NewId, Curated)

Init ==
    /\ node = <<>> /\ edges = {} /\ summary = <<>> /\ vec = <<>>
    /\ body = [d \in Docs |-> None] /\ made = 0
    /\ pc = [p \in Procs |-> "down"] /\ job = [p \in Procs |-> NoJob]
    /\ crashes = 0 /\ ops = 0 /\ disturbed = FALSE /\ cut = FALSE

-----------------------------------------------------------------------------
(***************************************************************************)
(* Seeding (seed_spine_from): the root, then every branch of every path,   *)
(* then the inbox.  Only what is missing is created, and a node and its    *)
(* edge are two statements.                                                *)
(***************************************************************************)
Open(p, spine) ==
    /\ pc[p] = "down"
    /\ Goto(p, "seedRoot", [op |-> "seed", spine |-> spine, at |-> 0, rest |-> <<>>,
                            left |-> spine, found |-> 0, root |-> 0])
    /\ disturbed' = (disturbed \/ Overlaps(p))
    /\ TreeKept /\ UNCHANGED <<crashes, ops, cut>>

FindRoot(p) ==
    /\ Step(p, "seedRoot")
    /\ Goto(p, "makeRoot", [job[p] EXCEPT !.found = FindByName("root")])
    /\ TreeKept

MakeRoot(p) ==
    /\ Step(p, "makeRoot")
    /\ IF job[p].found # 0
          THEN /\ Goto(p, "seedPath", [job[p] EXCEPT !.root = job[p].found])
               /\ TreeKept
          ELSE /\ Create(TreeNode("spine", "root", None))
               /\ Goto(p, "seedPath", [job[p] EXCEPT !.root = NewId])
               /\ UNCHANGED <<edges, vec, body>>

SeedPath(p) ==
    /\ Step(p, "seedPath")
    /\ Goto(p, IF job[p].left = <<>> THEN "seekInbox" ELSE "seekBranch",
            IF job[p].left = <<>> THEN job[p]
            ELSE [job[p] EXCEPT !.rest = Head(job[p].left), !.at = job[p].root,
                                !.left = Tail(job[p].left)])
    /\ TreeKept

\* Mutant: a branch is looked up by its name alone, wherever it hangs.
BranchAnywhere(p) == FindByName(Head(job[p].rest))
Branch(p) == ChildByName(job[p].at, Head(job[p].rest))

SeekBranch(p) ==
    /\ Step(p, "seekBranch")
    /\ LET there == Branch(p) IN
       IF job[p].rest = <<>>
          THEN Goto(p, "seedPath", job[p])
       ELSE IF there # 0
          THEN Goto(p, "seekBranch", [job[p] EXCEPT !.at = there, !.rest = Tail(@)])
          ELSE Goto(p, "makeBranch", job[p])
    /\ TreeKept

MakeBranch(p) ==
    /\ Step(p, "makeBranch")
    /\ Create(TreeNode("spine", Head(job[p].rest), None))
    /\ Goto(p, "linkBranch", [job[p] EXCEPT !.found = NewId])
    /\ UNCHANGED <<edges, vec, body>>

LinkBranch(p) ==
    /\ Step(p, "linkBranch")
    /\ IF {job[p].at, job[p].found} \subseteq Live
          THEN /\ edges' = edges \cup {<<job[p].at, job[p].found>>}
               /\ Goto(p, "seekBranch",
                       [job[p] EXCEPT !.at = job[p].found, !.rest = Tail(@)])
          ELSE /\ Goto(p, "down", NoJob) /\ UNCHANGED edges
    /\ UNCHANGED <<node, summary, vec, body, made>>

SeekInbox(p) ==
    /\ Step(p, "seekInbox")
    /\ Goto(p, IF Inbox = 0 THEN "makeInbox" ELSE "embed",
            [job[p] EXCEPT !.found = Inbox])
    /\ TreeKept

MakeInbox(p) ==
    /\ Step(p, "makeInbox")
    /\ Create(TreeNode("inbox", "inbox", None))
    /\ Goto(p, "linkInbox", [job[p] EXCEPT !.found = NewId])
    /\ UNCHANGED <<edges, vec, body>>

LinkInbox(p) ==
    /\ pc[p] = "linkInbox"
    /\ IF {job[p].root, job[p].found} \subseteq Live
          THEN /\ edges' = edges \cup {<<job[p].root, job[p].found>>}
               /\ Goto(p, "embed", job[p]) /\ UNCHANGED cut
          ELSE /\ Goto(p, "down", NoJob) /\ cut' = TRUE /\ UNCHANGED edges
    /\ UNCHANGED <<node, summary, vec, body, made, crashes, ops, disturbed>>

(***************************************************************************)
(* embed_spine_concepts: the concepts without a vector are listed once,    *)
(* with the text to embed, and embedded one by one across awaits.  An      *)
(* embedder failure leaves the rest for the next open.                     *)
(***************************************************************************)
Source(n) == IF summary[n].rolled THEN "rolled" ELSE "curated"

ListMissing(p) ==
    /\ Step(p, "embed")
    /\ Goto(p, "embedding",
            [op |-> "embed", rows |-> [n \in Concepts \ DOMAIN vec |-> Source(n)]])
    /\ TreeKept

EmbedConcept(p) ==
    /\ Step(p, "embedding") /\ DOMAIN job[p].rows # {}
    /\ LET n == Upcoming(job[p].rows) IN vec' = With(vec, n, job[p].rows[n])
    /\ Goto(p, "embedding", [job[p] EXCEPT !.rows = Remaining(@)])
    /\ UNCHANGED <<node, edges, summary, body, made>>

EmbedDone(p) ==
    /\ Step(p, "embedding") /\ DOMAIN job[p].rows = {}
    /\ Finish(p) /\ TreeKept

EmbedFails(p) ==
    /\ pc[p] = "embedding" /\ DOMAIN job[p].rows # {} /\ crashes < MaxCrashes
    /\ crashes' = crashes + 1
    /\ Finish(p) /\ TreeKept /\ UNCHANGED <<ops, disturbed, cut>>

-----------------------------------------------------------------------------
(***************************************************************************)
(* Rolling summaries up (roll_up_from, recompute_summary): read a node's   *)
(* children, then write its summary if it changed.                         *)
(***************************************************************************)
RollNext(p) ==
    /\ Step(p, "roll") /\ job[p].sweep = {}
    /\ IF job[p].starts = <<>>
          THEN Goto(p, job[p].after, job[p])
          ELSE Goto(p, "roll", [job[p] EXCEPT !.sweep = RollUp(Head(job[p].starts)),
                                              !.starts = Tail(@)])
    /\ TreeKept

ReadChildren(p) ==
    /\ Step(p, "roll")
    /\ \E x \in Nearest(job[p].sweep) :
          Goto(p, "sum", [job[p] EXCEPT !.sweep = @ \ {x}, !.cur = x[1],
                                        !.sums = [n \in {x[1]} |-> Children(n)]])
    /\ TreeKept

WriteSummary(p) ==
    /\ Step(p, "sum")
    /\ LET n == job[p].cur IN
          summary' = IF n \in Live THEN [summary EXCEPT ![n] = Lists(job[p].sums[n])]
                                   ELSE summary
    /\ Goto(p, "roll", job[p])
    /\ UNCHANGED <<node, edges, vec, body, made>>

-----------------------------------------------------------------------------
(***************************************************************************)
(* Documents.                                                              *)
(***************************************************************************)
NewTask == [op |-> "none", doc |-> None, text |-> None, parent |-> 0, keep |-> 0,
            cur |-> 0, todo |-> {}, rows |-> <<>>, touched |-> <<>>, starts |-> <<>>,
            sweep |-> {}, sums |-> <<>>, after |-> "done"]

Begin(p, where, what) ==
    /\ Idle(p) /\ ops < MaxOps
    /\ ops' = ops + 1
    /\ Goto(p, where, what)
    /\ disturbed' = (disturbed \/ Overlaps(p))
    /\ TreeKept /\ UNCHANGED <<crashes, cut>>

\* replace_with_body (the feeder's upsert and remember_document).
Replace(p, d, t) ==
    Begin(p, "target", [NewTask EXCEPT !.op = "replace", !.doc = d, !.text = t])

\* forget (a tombstone, or forget of a data id).
Forget(p, d) ==
    Begin(p, "list", [NewTask EXCEPT !.op = "forget", !.doc = d, !.after = "dropBody"])

FindTarget(p) ==
    /\ Step(p, "target")
    /\ \E t \in Target(job[p].text) :
          LET parent == IF t = 0 THEN Inbox ELSE t IN
          IF parent = 0 THEN Finish(p)
                        ELSE Goto(p, "file", [job[p] EXCEPT !.parent = parent])
    /\ TreeKept

\* create_leaf_node: the body, the leaf, its vector, its data id and its edge
\* in one transaction.
File(p) ==
    /\ Step(p, "file")
    /\ LET parent == job[p].parent IN
       IF parent \notin Live
          THEN Finish(p) /\ TreeKept
          ELSE /\ Create(TreeNode("leaf", job[p].text, job[p].doc))
               /\ edges' = edges \cup {<<parent, NewId>>}
               /\ body' = [body EXCEPT ![job[p].doc] = job[p].text]
               /\ Goto(p, "roll", [job[p] EXCEPT !.keep = NewId, !.starts = <<parent>>,
                                                 !.after = "list"])
               /\ UNCHANGED vec

\* remove_leaves: the leaves of the data id are listed once.
\* Mutant: the leaf just filed is among those removed.
EveryLeaf(d, keep) == LeavesOf(d)
\* Mutant: a replacement removes only the first other leaf (get_node_by_data_id).
FirstLeaf(d, keep) ==
    {n \in LeavesOf(d) \ {keep} : keep # 0 => n = Lowest(LeavesOf(d) \ {keep})}
OldLeaves(d, keep) == LeavesOf(d) \ {keep}

ListLeaves(p) ==
    /\ Step(p, "list")
    /\ Goto(p, "prune", [job[p] EXCEPT
                !.todo = OldLeaves(job[p].doc, job[p].keep),
                !.after = IF job[p].op = "forget" THEN "dropBody" ELSE "done"])
    /\ TreeKept

\* What each parent will quote without the leaf.
\* Mutant: the parents keep their summaries, left to the roll-up.
WithoutLeafLater(leaf) == <<>>
WithoutLeaf(leaf) == [n \in Parents(leaf) |-> Children(n) \ {leaf}]

PruneNext(p) ==
    /\ Step(p, "prune")
    /\ IF job[p].todo = {}
          THEN Goto(p, "roll", [job[p] EXCEPT !.starts = job[p].touched])
          ELSE LET leaf == Lowest(job[p].todo)
                   new == SetToSeq(Parents(leaf) \ ToSet(job[p].touched))
               IN  Goto(p, "delete", [job[p] EXCEPT !.todo = @ \ {leaf}, !.cur = leaf,
                                !.sums = WithoutLeaf(leaf),
                                !.touched = @ \o new])
    /\ TreeKept

\* Deleting the leaves row of a data id's last leaf drops its body (trigger).
IsLastLeaf(d, leaf) == LeavesOf(d) = {leaf}

EdgesWithout(leaf) == {e \in edges : leaf \notin {e[1], e[2]}}

\* delete_node_with_summaries, one transaction.
DeleteLeaf(p) ==
    /\ Step(p, "delete")
    /\ LET leaf == job[p].cur IN
          /\ node' = [n \in Live \ {leaf} |-> node[n]]
          /\ edges' = EdgesWithout(leaf)
          /\ summary' = [n \in DOMAIN summary \ {leaf} |->
                            IF n \in DOMAIN job[p].sums THEN Lists(job[p].sums[n])
                                                        ELSE summary[n]]
          /\ body' = IF IsLastLeaf(job[p].doc, leaf)
                        THEN [body EXCEPT ![job[p].doc] = None] ELSE body
    /\ Goto(p, "prune", job[p])
    /\ UNCHANGED <<vec, made>>

\* forget, last: a body no leaf carried goes too (delete_document_body).
DropBody(p) ==
    /\ Step(p, "dropBody")
    /\ body' = [body EXCEPT ![job[p].doc] = None]
    /\ Goto(p, "done", job[p])
    /\ UNCHANGED <<node, edges, summary, vec, made>>

Done(p) ==
    /\ Step(p, "done") /\ Finish(p) /\ TreeKept

-----------------------------------------------------------------------------
(***************************************************************************)
(* The inbox gardener (garden_inbox).                                      *)
(***************************************************************************)
Garden(p) ==
    /\ "garden" \in Maintenance
    /\ Begin(p, "gardenList", [NewTask EXCEPT !.op = "garden"])

InboxLeaves == {n \in Live : node[n].kind = "leaf" /\
                             \E m \in Parents(n) : node[m].kind = "inbox"}

GardenList(p) ==
    /\ Step(p, "gardenList")
    /\ IF Inbox = 0 THEN Finish(p)
       ELSE Goto(p, "gardenNext",
                 [job[p] EXCEPT !.cur = Inbox,
                                !.rows = [n \in InboxLeaves |-> node[n].name]])
    /\ TreeKept

\* Mutant: only the inbox, which shrank, is rolled up.
RollInboxOnly(j) == <<j.cur>>
RollAfterGarden(j) == IF j.touched = <<>> THEN <<>> ELSE <<j.cur>> \o j.touched

\* Mutant: the first document that matches no concept ends the sweep.
StopThere(rows) == <<>>
LeaveInInbox(rows) == Remaining(rows)

GardenNext(p) ==
    /\ Step(p, "gardenNext")
    /\ IF DOMAIN job[p].rows = {}
          THEN Goto(p, "roll", [job[p] EXCEPT !.starts = RollAfterGarden(job[p]),
                                              !.after = "done"])
          ELSE \E t \in Target(job[p].rows[Upcoming(job[p].rows)]) :
                  IF t = 0 THEN Goto(p, "gardenNext", [job[p] EXCEPT !.rows = LeaveInInbox(@)])
                           ELSE Goto(p, "unlink", [job[p] EXCEPT !.keep = t])
    /\ TreeKept

Unlink(p) ==
    /\ Step(p, "unlink")
    /\ edges' = edges \ {<<job[p].cur, Upcoming(job[p].rows)>>}
    /\ Goto(p, "relink", job[p])
    /\ UNCHANGED <<node, summary, vec, body, made>>

Relink(p) ==
    /\ pc[p] = "relink"
    /\ LET t == job[p].keep
           leaf == Upcoming(job[p].rows)
           known == ToSet(job[p].touched) IN
       IF {t, leaf} \subseteq Live
          THEN /\ edges' = edges \cup {<<t, leaf>>}
               /\ Goto(p, "gardenNext",
                       [job[p] EXCEPT !.rows = Remaining(@),
                                      !.touched = IF t \in known THEN @ ELSE Append(@, t)])
               /\ UNCHANGED disturbed
          ELSE /\ Finish(p) /\ disturbed' = TRUE /\ UNCHANGED edges
    /\ UNCHANGED <<node, summary, vec, body, made, crashes, ops, cut>>

-----------------------------------------------------------------------------
(***************************************************************************)
(* The hard reset (reset_store, then the spine again), the offline         *)
(* re-embedding (embed_ltm, write_ltm, under the exclusive lock), crashes. *)
(***************************************************************************)
Reset(p, spine) ==
    /\ "reset" \in Maintenance /\ Idle(p) /\ ops < MaxOps
    /\ ops' = ops + 1
    /\ node' = <<>> /\ edges' = {} /\ summary' = <<>> /\ vec' = <<>>
    /\ body' = [d \in Docs |-> None]
    /\ Goto(p, "seedRoot", [op |-> "seed", spine |-> spine, at |-> 0, rest |-> <<>>,
                            left |-> spine, found |-> 0, root |-> 0])
    /\ disturbed' = (disturbed \/ Overlaps(p))
    /\ cut' = FALSE
    /\ UNCHANGED <<made, crashes>>

Reembed ==
    /\ "reembed" \in Maintenance /\ ops < MaxOps
    /\ \A p \in Procs : pc[p] = "down"
    /\ vec' = [n \in Concepts |-> Source(n)]
    /\ ops' = ops + 1
    /\ UNCHANGED <<node, edges, summary, body, made, pc, job, crashes, disturbed, cut>>

Crash(p) ==
    /\ pc[p] # "down" /\ crashes < MaxCrashes
    /\ crashes' = crashes + 1
    /\ disturbed' = (disturbed \/ (job[p].op = "garden"))
    /\ cut' = (cut \/ pc[p] = "linkInbox")
    /\ Goto(p, "down", NoJob)
    /\ TreeKept /\ UNCHANGED ops

Close(p) ==
    /\ Idle(p)
    /\ Goto(p, "down", NoJob)
    /\ TreeKept /\ UNCHANGED <<crashes, ops, disturbed, cut>>

Seed(p) == \/ \E s \in Spines : Open(p, s)
           \/ FindRoot(p) \/ MakeRoot(p) \/ SeedPath(p) \/ SeekBranch(p)
           \/ MakeBranch(p) \/ LinkBranch(p)
           \/ SeekInbox(p) \/ MakeInbox(p) \/ LinkInbox(p)
Embed(p) == ListMissing(p) \/ EmbedConcept(p) \/ EmbedDone(p) \/ EmbedFails(p)
Roll(p) == RollNext(p) \/ ReadChildren(p) \/ WriteSummary(p)
Write(p) == \/ \E d \in Docs, t \in Texts : Replace(p, d, t)
            \/ \E d \in Docs : Forget(p, d)
            \/ FindTarget(p) \/ File(p) \/ ListLeaves(p) \/ PruneNext(p)
            \/ DeleteLeaf(p) \/ DropBody(p) \/ Done(p)
Tend(p) == \/ Garden(p) \/ GardenList(p) \/ GardenNext(p) \/ Unlink(p) \/ Relink(p)
           \/ \E s \in Spines : Reset(p, s)
           \/ Crash(p) \/ Close(p)

Next == Reembed \/ \E p \in Procs : Seed(p) \/ Embed(p) \/ Roll(p) \/ Write(p) \/ Tend(p)

Spec == Init /\ [][Next]_vars

-----------------------------------------------------------------------------
TypeOK ==
    /\ node \in [Live -> [kind : Kinds, name : Names \cup Texts, doc : Docs \cup {None}]]
    /\ Live \subseteq 1..made /\ made \in 0..MaxNodes
    /\ edges \subseteq Live \X Live
    /\ summary \in [Live -> [rolled : BOOLEAN, items : SUBSET Ids]]
    /\ vec \in [DOMAIN vec -> {"curated", "rolled"}] /\ DOMAIN vec \subseteq Ids
    /\ body \in [Docs -> Texts \cup {None}]
    /\ \A p \in Procs : job[p] = NoJob <=> pc[p] \in {"down", "idle"}
    /\ crashes \in 0..MaxCrashes /\ ops \in 0..MaxOps
    /\ disturbed \in BOOLEAN /\ cut \in BOOLEAN

\* A document's text is stored exactly while a leaf carries its data id,
\* whatever crash or failure comes between two statements (W3R-1, W3R-2: a
\* forgotten document's text may not stay on disk, and keyword recall must not
\* miss a filed document).
BodiesFollowLeaves == \A d \in Docs : body[d] # None <=> LeavesOf(d) # {}

\* While processes take turns, an open of the workspace ends with every branch of
\* its configuration under the root, and the inbox there too, whatever crashes of
\* seeding, filing or gardening and whatever configurations came before
\* (seed_spine_from makes what is missing and links it).  A branch whose link a crash
\* cut is made again; an inbox whose link one cut is found by its kind and never
\* linked again before a reset: `cut' is the only excuse, for the inbox alone.
Resolves(path) ==
    LET f[i \in 0..Len(path)] ==
          IF i = 0 THEN FindByName("root") ELSE ChildByName(f[i - 1], path[i])
    IN  FindByName("root") # 0 /\ \A i \in 1..Len(path) : f[i] # 0
SpineComplete ==
    \A p \in Procs : pc[p] = "embed" =>
        /\ Inbox # 0 /\ (cut \/ <<FindByName("root"), Inbox>> \in edges)
        /\ \A i \in DOMAIN job[p].spine : Resolves(job[p].spine[i])

\* No container quotes a document that has been removed: the leaf and its
\* parents' summaries go in one transaction, so no crash separates them
\* (W2R-2).  A gardener cut off in its moves is the exception.
NoGhostTitles ==
    disturbed \/ \A n \in Live : summary[n].items \subseteq Live

\* With no crash and every process at rest, each container that has been rolled
\* up quotes exactly the documents it holds.  (A branch a later configuration
\* adds is not quoted until a document moves: seeding rolls nothing up.)
Documents == {n \in Live : node[n].kind = "leaf"}
SummariesCurrent ==
    (crashes = 0 /\ ~disturbed /\ \A p \in Procs : pc[p] \in {"idle", "down"}) =>
        \A n \in Live \ Documents :
            summary[n].items \cap Documents = Children(n) \cap Documents

\* A filed document leaves the tree only by being forgotten, or with the whole
\* tree: a replacement, interrupted anywhere, leaves a duplicate, never a loss.
Forgetting(d) == \E p \in Procs : job[p].op = "forget" /\ job[p].doc = d
ReplacementKeepsOne ==
    [][\A d \in Docs : LeavesOf(d) # {} /\ ~Forgetting(d) =>
          LeavesOf(d)' # {} \/ node' = <<>>]_vars

\* When an operation on a document ends, whatever earlier crashes left behind
\* is healed: one leaf, under a parent, after a replacement; none after a
\* forget, the leaf a crashed gardener had unlinked included.
OperationsHeal ==
    [][\A p \in Procs : pc[p] = "done" /\ pc'[p] = "idle" =>
          LET S == LeavesOf(job[p].doc) IN
          /\ job[p].op = "replace" => S = {job[p].keep} /\ Parents(job[p].keep) # {}
          /\ job[p].op = "forget" => S = {}]_vars

\* No crash and no failed statement leaves the tree unsound: it keeps its shape, a
\* document's text goes with its last leaf (the trigger on leaves), and a removed
\* leaf's title goes with it (delete_leaf).
TreeIsSound == TypeOK /\ BodiesFollowLeaves /\ NoGhostTitles
=============================================================================
