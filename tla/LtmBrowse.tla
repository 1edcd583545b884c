------------------------------ MODULE LtmBrowse ------------------------------
(***************************************************************************)
(* What a reader of the knowledge tree is shown: the map and its branches, *)
(* a node with its context, where a data id lives, the counts of the       *)
(* health and stats views, and the placement view's reading of the stored  *)
(* documents.  (application/ltm_retrieval.rs, application/introspection.rs,*)
(* application/monitoring.rs, the reads of infrastructure/                 *)
(* ltm_repository.rs.)                                                     *)
(*                                                                         *)
(* Every view reads a state of LtmTree and changes nothing.  A view stands *)
(* for the nodes it shows; nesting, summaries and provenance are left out. *)
(***************************************************************************)
EXTENDS LtmTree

CONSTANT PageSize   \* child_limit of the node view

ASSUME PageConstant == PageSize \in Nat \ {0}

Nowhere == 0   \* no such node

-----------------------------------------------------------------------------
(***************************************************************************)
(* The map (map, build_map): the layers below the roots, documents left    *)
(* out.                                                                    *)
(***************************************************************************)
\* Mutant: a branch shows concepts only.
ConceptsBelow(n) == Children(n) \cap Concepts
ContainersBelow(n) == {m \in Children(n) : node[m].kind # "leaf"}

BuildMap(tops, depth) ==
    LET layer[k \in 1..depth] ==
          IF k = 1 THEN tops ELSE UNION {ContainersBelow(n) : n \in layer[k - 1]}
    IN  UNION {layer[k] : k \in 1..depth}

Map(depth) == BuildMap(Roots, depth)

-----------------------------------------------------------------------------
(***************************************************************************)
(* Upwards and downwards from a node.                                      *)
(***************************************************************************)
Ancestors(n) == LET level == Level(n) IN UNION {level[k] : k \in 1..Height}
Expand(n) == Children(n)
Drill(n) == {m \in Children(n) : node[m].kind = "leaf"}

\* inspect_node: children and documents share the window, each in the order of
\* their ids; the counts are of all there are.
Window(S, offset) ==
    {m \in S : Cardinality({n \in S : n < m}) \in offset .. offset + PageSize - 1}
InspectNode(n, offset) ==
    [parents |-> Parents(n), children |-> Window(Expand(n), offset),
     leaves |-> Window(Drill(n), offset)]

\* trace: one leaf of the data id, whichever the index gives, and its branch.
Trace(d) == IF LeavesOf(d) = {} THEN {[leaf |-> Nowhere, branch |-> {}]}
            ELSE {[leaf |-> n, branch |-> Ancestors(n)] : n \in LeavesOf(d)}

-----------------------------------------------------------------------------
(***************************************************************************)
(* Counts (ltm_stats): leaves without a parent, documents in an inbox, the *)
(* longest path from a root.                                               *)
(***************************************************************************)
Orphans == Documents \cap Roots
Depth == LET level[k \in 0 .. Height + 1] ==
               IF k = 0 THEN Roots ELSE UNION {Children(n) : n \in level[k - 1]}
         IN  Lowest({k \in 1 .. Height + 1 : level[k] = {}}) - 1
LtmStats ==
    [treeNodes |-> Cardinality(Live), leaves |-> Cardinality(Documents),
     edges |-> Cardinality(edges), inboxDocs |-> Cardinality(InboxLeaves),
     orphanLeaves |-> Cardinality(Orphans), maxDepth |-> Depth]

\* What placement would do with a stored document now (placement_debug).
Decision(t) ==
    IF \A n \in Candidates(t) : FarTo(t, n) > Cutoff THEN "inbox_too_far"
    ELSE IF Target(t) = {0} THEN "inbox_ambiguous" ELSE "file"
PlacementDebug == {[leaf |-> n, decision |-> Decision(node[n].name)] : n \in Documents}

-----------------------------------------------------------------------------
\* A reader who asks the health view how deep the tree is, lists the map that
\* deep and pages through each node it shows finds every stored document, and
\* its trace leads up to the root or an inbox: a branch a crashed seeding left
\* unlinked attracts nothing, although it gets its vector like any other
\* (candidates excludes parentless nodes).  Only a leaf a gardener is moving, or
\* was cut off from re-linking, is found nowhere: the health view counts it.
Listed(stats) ==
    UNION {InspectNode(n, offset).leaves : n \in Map(stats.maxDepth),
                                           offset \in 0 .. stats.leaves - 1}
LeadsHome(branch) == \E n \in branch : node[n].name \in {"root", "inbox"}
BrowsingFindsDocuments ==
    LET stats == LtmStats
        listed == Listed(stats)
    IN  /\ stats.orphanLeaves > 0 => disturbed \/ \E p \in Procs : pc[p] = "relink"
        /\ \A d \in Docs : \A found \in Trace(d) :
              found.leaf \in Live \ Orphans =>
                  found.leaf \in listed /\ LeadsHome(found.branch)

\* A gardening that ran to its end, alone, leaves no document in the inbox that
\* the placement view would file: a second one would move nothing
\* (garden_inbox, "Idempotent").
GardeningSettles ==
    [][\A p \in Procs : pc[p] = "done" /\ pc'[p] = "idle" /\ job[p].op = "garden" =>
          \/ disturbed
          \/ \A seen \in PlacementDebug :
                seen.leaf \in InboxLeaves => seen.decision # "file"]_vars
=============================================================================
