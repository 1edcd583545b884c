------------------------------- MODULE Recall -------------------------------
(***************************************************************************)
(* What a search returns: the two ranked legs, their fusion in SQL and in  *)
(* Rust, the graph around the hits and the wire entries of a document.     *)
(* (domain/ranking.rs, repository/search.rs, ltm_retrieval.rs,             *)
(* find_similar_any, bus_query.rs.)                                        *)
(*                                                                         *)
(* The indexes give the data: what is nearest and what matches best, in    *)
(* order.  Scores are whole numbers, in units of 1/Scale.  Ids are in the  *)
(* order of relevance_score, highest first.                                *)
(***************************************************************************)
EXTENDS Integers, Sequences, FiniteSets, SequencesExt

CONSTANTS
    RrfK,          \* rrf_k
    LegFactor,     \* leg_k_factor
    OverFetch,     \* KNN_OVERFETCH
    KnnMaxK,       \* KNN_MAX_K
    MaxK,          \* RECALL_MAX_K
    Scale          \* bound: a multiple of every rrf_k + rank

ASSUME RecallConstants ==
    /\ RrfK \in Nat /\ {LegFactor, OverFetch, KnnMaxK, MaxK, Scale} \subseteq Nat \ {0}

-----------------------------------------------------------------------------
First(s, n) == SubSeq(s, 1, IF Len(s) < n THEN Len(s) ELSE n)
Lesser(a, b) == IF a < b THEN a ELSE b
Greater(a, b) == IF a < b THEN b ELSE a
Depth(k) == Greater(k, 1) * LegFactor
Rank(leg, n) == SelectInSeq(leg, LAMBDA m : m = n)      \* 0: not in this leg
Points(weight, rank) == IF rank = 0 THEN 0 ELSE weight * (Scale \div (RrfK + rank))

\* Keys compare place by place, as ORDER BY and then_with do.
Sooner(a, b) == \E i \in DOMAIN a : a[i] < b[i] /\ \A j \in 1 .. i - 1 : a[j] = b[j]

\* The members of S in the order of their keys.
Ordered(S, key) ==
    [i \in 1 .. Cardinality(S) |->
        CHOOSE n \in S : Cardinality({m \in S : Sooner(key[m], key[n])}) = i - 1]
Only(s, S) ==
    LET kept == {i \in DOMAIN s : s[i] \in S}
        places == Ordered(kept, [i \in kept |-> <<i>>])
    IN  [j \in DOMAIN places |-> s[places[j]]]

\* Mutant: NULL where SQLite puts it by itself, before every number.
NullsFirst(rank, ranked) == rank
\* NULLS LAST, and rank_key: an absent rank sorts after every present one.
AbsentLast(rank, ranked) == IF rank = 0 THEN ranked + 1 ELSE rank

-----------------------------------------------------------------------------
(***************************************************************************)
(* Short-term memory: a search q has near (every indexed node, nearest     *)
(* first), words (every match, best first), seen (the visible nodes),      *)
(* edges (those of the layers and of the time window), k and the weights.  *)
(***************************************************************************)
\* An index lists a node once; a configuration has a leg that is on.
Listing(s) == s \in Seq(Nat) /\ IsInjective(s)
Valid(weight) == weight \in Nat \X Nat /\ weight # <<0, 0>>
IsSearch(q) ==
    /\ q \in [near : Seq(Nat), words : Seq(Nat), seen : SUBSET Nat,
              edges : SUBSET (Nat \X Nat), k : Nat, weight : Nat \X Nat]
    /\ Listing(q.near) /\ Listing(q.words) /\ Valid(q.weight)

\* Mutant: the leg is cut before what the caller cannot see is taken out.
CutThenSee(s, q) == Only(First(s, Depth(q.k)), q.seen)
Leg(s, q) == First(Only(s, q.seen), Depth(q.k))

\* knn_k: over-fetched, within what the vector index allows.
KnnK(limit) == Lesser(Greater(OverFetch * limit, 1), KnnMaxK)
Knn(q) == First(q.near, KnnK(Depth(q.k)))

LegIsOn(weight) == weight > 0

Legs(q) == << IF LegIsOn(q.weight[1]) THEN Leg(Knn(q), q) ELSE <<>>,
              IF LegIsOn(q.weight[2]) THEN Leg(q.words, q) ELSE <<>> >>

\* fused: the rows of both legs, grouped by node, ordered and limited.
SqlFused(legs, weight, k) ==
    LET ids == ToSet(legs[1]) \cup ToSet(legs[2])
        ranked == Len(legs[1]) + Len(legs[2])
        row == [n \in ids |-> LET v == Rank(legs[1], n)
                                  w == Rank(legs[2], n)
                              IN  << 0 - (Points(weight[1], v) + Points(weight[2], w)),
                                     AbsentLast(v, ranked), AbsentLast(w, ranked), n >>]
    IN  First(Ordered(ids, row), k)

Direct(q) == SqlFused(Legs(q), q.weight, q.k)

\* graph_context: what an edge joins to a hit, and can itself be seen.
Neighbours(q, hits) ==
    {n \in q.seen \ hits : \E h \in hits : <<n, h>> \in q.edges \/ <<h, n>> \in q.edges}

\* query_with_graph: the direct hits, then their neighbours.
StmHits(q) ==
    LET hits == Direct(q)
        joined == Neighbours(q, ToSet(hits))
        around == Ordered(joined, [n \in joined |-> <<n>>])
    IN  IF ~LegIsOn(q.weight[1]) /\ (~LegIsOn(q.weight[2]) \/ q.words = <<>>) THEN <<>>
        ELSE First(hits \o around, q.k)

(***************************************************************************)
(* Working memory: a map m has touched (the notes of a tenant, the latest  *)
(* touched first), seen (those active in the thread, in the layers asked), *)
(* anchors (the subjects), about (the edges to them), k, and whether a     *)
(* thread is named at all.                                                 *)
(***************************************************************************)
IsMap(m) ==
    m \in [touched : Seq(Nat), seen : SUBSET Nat, anchors : SUBSET Nat,
           about : SUBSET (Nat \X Nat), k : Nat, thread : BOOLEAN]

\* recent_in_context: anchors are reached through a turn, never listed as one.
RecentInContext(m) == First(Only(m.touched, m.seen \ m.anchors), m.k)

\* about_subjects: archived anchors too.
AboutSubjects(m, turn) == {n \in m.anchors : <<turn, n>> \in m.about}

StmMap(m) ==
    LET turns == IF m.thread THEN RecentInContext(m) ELSE <<>>
    IN  [i \in DOMAIN turns |-> [turn |-> turns[i], about |-> AboutSubjects(m, turns[i])]]

-----------------------------------------------------------------------------
(***************************************************************************)
(* rrf_fuse: entries in order of arrival, sorted by score and ranks.       *)
(***************************************************************************)
RrfFuse(vector, keyword, weight) ==
    LET order == vector \o Only(keyword, ToSet(keyword) \ ToSet(vector))
        last == Len(vector) + Len(keyword) + 1
        entry == [i \in DOMAIN order |->
                    LET v == Rank(vector, order[i])
                        w == Rank(keyword, order[i])
                    IN  << 0 - (Points(weight[1], v) + Points(weight[2], w)),
                           IF v = 0 THEN last ELSE v, IF w = 0 THEN last ELSE w, i >>]
        sorted == Ordered(DOMAIN order, entry)
    IN  [i \in DOMAIN sorted |-> order[sorted[i]]]

(***************************************************************************)
(* Long-term memory: a recall t has near (every concept and leaf with a    *)
(* vector, nearest first), words (the leaves whose text matches, best      *)
(* first), leaves, beneath (the documents under a concept), k, the weights. *)
(***************************************************************************)
IsRecall(t) ==
    /\ t \in [near : Seq(Nat), words : Seq(Nat), leaves : SUBSET Nat,
              beneath : Seq(Nat), k : Nat, weight : Nat \X Nat]
    /\ Listing(t.near) /\ Listing(t.words) /\ Valid(t.weight)

\* find_similar_any: both indexes to the full depth, merged by distance.
FindSimilarAny(t, depth) ==
    LET concepts == First(Only(t.near, ToSet(t.near) \ t.leaves), depth)
        leaves == First(Only(t.near, t.leaves), depth)
    IN  First(Only(t.near, ToSet(concepts) \cup ToSet(leaves)), depth)

\* recall: a keyword hit without a leaf vector is left out, its slot unused.
LtmHits(t) ==
    LET k == Greater(1, Lesser(t.k, MaxK))
        vector == IF LegIsOn(t.weight[1]) THEN FindSimilarAny(t, Depth(k)) ELSE <<>>
        keyword == IF LegIsOn(t.weight[2]) THEN First(t.words, Depth(k)) ELSE <<>>
        fused == First(RrfFuse(vector, keyword, t.weight), k)
    IN  Only(fused, ToSet(vector) \cup (ToSet(t.near) \cap t.leaves))

\* flatten_recall: one entry per document; a concept without any still has one.
FlattenRecall(t, hit) ==
    IF hit \in t.leaves THEN <<hit>>
    ELSE IF t.beneath = <<>> THEN <<hit>> ELSE t.beneath

LtmEntries(t) ==
    LET hits == LtmHits(t)
    IN  FlattenSeq([i \in DOMAIN hits |-> FlattenRecall(t, hits[i])])
=============================================================================
