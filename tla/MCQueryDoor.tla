---------------------------- MODULE MCQueryDoor ----------------------------
(***************************************************************************)
(* A small instance of QueryDoor for TLC: three nodes, every search and    *)
(* recall over them, and a few of each where a request reads both stores.  *)
(***************************************************************************)
EXTENDS QueryDoor

Node == 1 .. 3
Orders == {s \in SetToAllKPermutations(Node) : Len(s) < 3}
Weights == {<<20, 21>>, <<1, 1>>, <<1, 0>>, <<0, 1>>}

Searches ==
    {[near |-> <<1, 2, 3>>, words |-> o, seen |-> S, edges |-> {<<3, 1>>}, k |-> k, weight |-> w] :
        o \in Orders, S \in SUBSET Node, k \in 1 .. 2, w \in Weights}
Recalls ==
    {t \in [near : {<<1, 2, 3>>, <<3, 1, 2>>, <<>>}, words : Orders,
            leaves : {{2}, {2, 3}}, beneath : {<<>>, <<2>>}, k : {0, 3}, weight : Weights] :
        ToSet(t.words) \subseteq t.leaves}
FewSearches == {q \in Searches : /\ q.k = 2 /\ q.weight = <<20, 21>>
                                 /\ q.words \in {<<>>, <<2>>} /\ q.seen = {2}}
FewRecalls == {t \in Recalls : /\ t.near # <<1, 2, 3>> /\ t.k = 3
                               /\ t.weight = <<20, 21>> /\ t.leaves = {2, 3}}

Maps == [touched : {<<3, 1, 2>>}, seen : SUBSET Node, anchors : {{}, {3}},
         about : {{<<1, 3>>}}, k : 1 .. 2, thread : BOOLEAN]

Questioned ==
    {[scope |-> "stm", stm |-> q] : q \in Searches}
    \cup {[scope |-> "ltm", ltm |-> t] : t \in Recalls}
    \cup {[scope |-> s, stm |-> q, ltm |-> t] :
            s \in {"both", "ltm_via_stm"}, q \in FewSearches, t \in FewRecalls}
    \cup {[scope |-> "stm_map", map |-> m] : m \in Maps}
mc_Questions == Questioned      \* evaluated once
=============================================================================
