--------------------------- MODULE LtmTreeProofs ---------------------------
(***************************************************************************)
(* Theorems about LtmTree and LtmBrowse, for every set of documents, texts *)
(* and spines, every distance and every bound, while the processes that    *)
(* share the workspace take turns.                                         *)
(***************************************************************************)
EXTENDS LtmBrowse, TLAPS, FiniteSetTheorems, SequenceTheorems, WellFoundedInduction

\* One process at a time has an operation begun.
Active(p) == pc[p] \notin {"idle", "down"}
Alone == \A p, q \in Procs : Active(p) /\ Active(q) => p = q

Containers == {n \in Live : node[n].kind # "leaf"}

-----------------------------------------------------------------------------
(***************************************************************************)
(* The tree.                                                               *)
(***************************************************************************)
TreeOK ==
    /\ node \in [Live -> [kind : Kinds, name : Names \cup Texts, doc : Docs \cup {None}]]
    /\ Live \subseteq 1..made /\ made \in 0..MaxNodes
    /\ edges \subseteq Containers \X Live
    /\ summary \in [Live -> [rolled : BOOLEAN, items : SUBSET Ids]]
    /\ vec \in [DOMAIN vec -> {"curated", "rolled"}] /\ DOMAIN vec \subseteq Ids
    /\ body \in [Docs -> Texts \cup {None}]
    /\ crashes \in 0..MaxCrashes /\ ops \in 0..MaxOps /\ disturbed \in BOOLEAN

\* The root is the first node made, and there is one inbox.
Root == FindByName("root")
Rooted == Live # {} => Root \in Concepts /\ \A n \in Live : Root <= n
OneInbox == \A m, n \in Live : node[m].kind = "inbox" /\ node[n].kind = "inbox" => m = n

-----------------------------------------------------------------------------
(***************************************************************************)
(* What a seeding process has come to.                                     *)
(***************************************************************************)
Seeding == {"seedRoot", "makeRoot", "seedPath", "seekBranch", "makeBranch", "linkBranch",
            "seekInbox", "makeInbox", "linkInbox", "embed"}
SeedJob == [op : {"seed"}, spine : Spines, at : Nat, rest : Seq(Names),
            left : Seq(Seq(Names)), found : Nat, root : Nat]

\* n is where the first k names of the path lead, from the root.
Reached(path, k, n) ==
    \E g \in [0..k -> Live] :
        /\ g[0] = Root /\ g[k] = n
        /\ \A i \in 1..k : g[i] = ChildByName(g[i - 1], path[i])

IsEndOf(rest, path) ==
    /\ Len(rest) <= Len(path)
    /\ \A i \in 1..Len(rest) : rest[i] = path[Len(path) - Len(rest) + i]

\* The paths taken from `left' so far, and those of them that are whole.
Begun(j) == Len(j.spine) - Len(j.left)
Whole(j, m) == \A i \in 1..m : \E n \in Live : Reached(j.spine[i], Len(j.spine[i]), n)

OnPath(j) ==
    LET path == j.spine[Begun(j)]
    IN  /\ Begun(j) >= 1 /\ Whole(j, Begun(j) - 1)
        /\ IsEndOf(j.rest, path)
        /\ Reached(path, Len(path) - Len(j.rest), j.at)
        /\ j.at \in Concepts

Seeds(at, j) ==
    /\ j \in SeedJob
    /\ IsEndOf(j.left, j.spine)
    /\ at \in {"seedRoot", "makeRoot"} => j.left = j.spine
    /\ at = "makeRoot" => j.found = Root
    /\ at \notin {"seedRoot", "makeRoot"} => Live # {} /\ j.root = Root
    /\ at = "seedPath" => Whole(j, Begun(j))
    /\ at \in {"seekBranch", "makeBranch", "linkBranch"} => OnPath(j)
    /\ at \in {"makeBranch", "linkBranch"} =>
          j.rest # <<>> /\ ChildByName(j.at, Head(j.rest)) = 0
    /\ at = "linkBranch" =>
          /\ j.found = made /\ made \in Concepts /\ node[made].name = Head(j.rest)
          /\ Parents(made) = {} /\ Children(made) = {}
    /\ at \in {"seekInbox", "makeInbox", "linkInbox", "embed"} => Whole(j, Len(j.spine))
    /\ at = "makeInbox" => Inbox = 0
    /\ at = "linkInbox" => /\ j.found = made /\ made \in Live /\ node[made].kind = "inbox"
    /\ at = "embed" => Inbox # 0

-----------------------------------------------------------------------------
(***************************************************************************)
(* What a process has in hand at each step of an operation.                *)
(***************************************************************************)
Shape(j) ==
    [op : {"replace", "forget", "garden"}, doc : Docs \cup {None}, text : Texts \cup {None},
     parent : Nat, keep : Nat, cur : Nat, todo : SUBSET Nat, rows : {j.rows},
     touched : Seq(Nat), starts : Seq(Nat), sweep : SUBSET (Nat \X Nat), sums : {j.sums},
     after : {"list", "dropBody", "done"}]

\* The leaf a replacement has filed.
Kept(j) == IF j.op = "replace" THEN {j.keep} ELSE {}
Keeps(j) == j.op = "replace" => j.keep \in LeavesOf(j.doc) /\ Parents(j.keep) # {}

Firsts(sweep) == {x[1] : x \in sweep}

Rolling == {"roll", "sum"}
Pruning == {"list", "prune", "delete"}
Tending == {"gardenList", "gardenNext", "unlink", "relink"}

Works(at, j) ==
    /\ j \in Shape(j)
    /\ j.op # "garden" => j.doc \in Docs
    /\ j.op = "replace" => j.text \in Texts
    /\ at \in Tending <=> j.op = "garden" /\ at \notin Rolling \cup {"done"}
    /\ at \in {"target", "file"} => j.op = "replace"
    /\ at = "file" => j.parent \in Containers
    /\ at \notin {"target", "file"} => Keeps(j)
    /\ j.op = "forget" => j.keep = 0
    /\ ToSet(j.starts) \cup Firsts(j.sweep) \cup ToSet(j.touched) \subseteq Containers
    /\ at \in Rolling =>
          /\ j.after = "list" => j.op = "replace"
          /\ j.after = "dropBody" <=> j.op = "forget"
    /\ at = "sum" => j.cur \in Containers /\ j.sums = [n \in {j.cur} |-> Children(j.cur)]
    /\ at = "prune" => LeavesOf(j.doc) = j.todo \cup Kept(j) /\ j.keep \notin j.todo
    /\ at = "delete" =>
          /\ LeavesOf(j.doc) = j.todo \cup Kept(j) \cup {j.cur}
          /\ j.cur \notin j.todo \cup Kept(j) /\ j.keep \notin j.todo
          /\ j.sums = WithoutLeaf(j.cur)
    /\ at \in {"prune", "delete"} =>
          j.after = (IF j.op = "forget" THEN "dropBody" ELSE "done")
    /\ /\ at \in {"dropBody", "done"} \cup (IF j.after = "list" THEN {} ELSE Rolling)
       /\ j.op # "garden"
       => LeavesOf(j.doc) = Kept(j)
    /\ at = "dropBody" => j.op = "forget"
    /\ at \in {"gardenNext", "unlink", "relink"} =>
          /\ j.cur \in Live /\ node[j.cur].kind = "inbox"
          /\ DOMAIN j.rows \subseteq Documents
          /\ \A n \in DOMAIN j.rows : j.rows[n] = node[n].name
    /\ at \in {"unlink", "relink"} => DOMAIN j.rows # {} /\ j.keep \in Concepts
    /\ at = "relink" => <<j.cur, Upcoming(j.rows)>> \notin edges

Embeds(j) ==
    /\ j \in [op : {"embed"}, rows : {j.rows}]
    /\ j.rows \in [DOMAIN j.rows -> {"curated", "rolled"}] /\ DOMAIN j.rows \subseteq Ids

Stands(at, j) ==
    \/ at \in {"idle", "down"} /\ j = NoJob
    \/ at \in Seeding /\ Seeds(at, j)
    \/ at = "embedding" /\ Embeds(j)
    \/ at \in {"target", "file", "dropBody", "done"} \cup Rolling \cup Pruning \cup Tending
       /\ Works(at, j)
Stations ==
    /\ pc = [p \in Procs |-> pc[p]] /\ job = [p \in Procs |-> job[p]]
    /\ \A p \in Procs : Stands(pc[p], job[p])

-----------------------------------------------------------------------------
(***************************************************************************)
(* What containers quote.                                                  *)
(***************************************************************************)
\* The containers whose documents have changed and that are still to be rolled up.
Pending(at, j) ==
    CASE at = "roll" -> ToSet(j.starts) \cup Firsts(j.sweep)
      [] at = "sum" -> ToSet(j.starts) \cup Firsts(j.sweep) \cup {j.cur}
      [] at \in {"gardenNext", "unlink"} ->
            IF j.touched = <<>> THEN {} ELSE {j.cur} \cup ToSet(j.touched)
      [] at = "relink" -> {j.cur} \cup ToSet(j.touched)
      [] OTHER -> {}

Quotes(n) == summary[n].items \cap Documents
Same(n) == Quotes(n) = Children(n) \cap Documents

QuotesChildren ==
    ~disturbed => \A n \in Live :
        \/ Quotes(n) \subseteq Children(n)
        \/ \E p \in Procs : job[p].op = "garden" /\ n \in Pending(pc[p], job[p])
QuotesAll ==
    crashes = 0 /\ ~disturbed => \A n \in Containers :
        Same(n) \/ \E p \in Procs : n \in Pending(pc[p], job[p])
LeavesQuoteNothing == \A n \in Documents : summary[n].items = {}

\* What is still in the inbox and not to be looked at any more belongs nowhere.
Settled(at, j) ==
    /\ at \in {"gardenNext", "unlink", "relink"} =>
          \A n \in InboxLeaves : n \in DOMAIN j.rows \/ Target(node[n].name) = {0}
    /\ at \in Rolling \cup {"done"} /\ j.op = "garden" =>
          \A n \in InboxLeaves : Target(node[n].name) = {0}

TreeInv ==
    /\ TreeOK /\ Rooted /\ OneInbox /\ BodiesFollowLeaves /\ Stations
    /\ NoGhostTitles /\ QuotesChildren /\ QuotesAll /\ LeavesQuoteNothing
    /\ \A p \in Procs : ~disturbed => Settled(pc[p], job[p])

AloneInv == Alone => TreeInv
CalmInv == ~disturbed => Alone /\ TreeInv

-----------------------------------------------------------------------------
(***************************************************************************)
(* Numbers.                                                                *)
(***************************************************************************)
\* A set of natural numbers has a least one: < is well founded.
LEMMA LeastExists ==
    ASSUME NEW T, T \subseteq Nat, T # {}
    PROVE  \E least \in T : \A n \in T : least <= n
<1> DEFINE Below == {pair \in Nat \X Nat : pair[1] < pair[2]}
<1>1. IsWellFoundedOn(Below, Nat)
  BY NatLessThanWellFounded DEF OpToRel
<1>2. PICK least \in T : \A n \in T : ~ (<<n, least>> \in Below)
  <2> HIDE DEF Below
  <2> QED BY <1>1, WFMin
<1>3. \A n \in T : ~(n < least)
  BY <1>2
<1> QED BY <1>3

\* Induction on the natural numbers, on the set of those for which a fact holds.
LEMMA ByInduction ==
    ASSUME NEW S, 0 \in S, \A n \in Nat : n \in S => n + 1 \in S
    PROVE  Nat \subseteq S
<1> SUFFICES ASSUME Nat \ S # {} PROVE FALSE
  OBVIOUS
<1>1. PICK least \in Nat \ S : \A n \in Nat \ S : least <= n
  BY LeastExists
<1>2. least # 0 /\ least - 1 \in Nat
  BY <1>1
<1>3. least - 1 \in S
  BY <1>1, <1>2
<1>4. (least - 1) + 1 \in S
  BY <1>2, <1>3
<1> QED BY <1>1, <1>4

\* What Lowest is, of a set with members and of one without.
LEMMA LowestOf ==
    ASSUME NEW S, S \subseteq Nat, S # {}
    PROVE  Lowest(S) \in S /\ \A n \in S : Lowest(S) <= n
<1>1. PICK least \in S : \A n \in S : least <= n
  BY LeastExists
<1> QED BY <1>1 DEF Lowest

LEMMA LowestIs ==
    ASSUME NEW S, S \subseteq Nat, NEW n \in S, \A m \in S : n <= m
    PROVE  Lowest(S) = n
<1>1. Lowest(S) \in S /\ Lowest(S) <= n
  BY LowestOf
<1>2. n <= Lowest(S)
  BY <1>1
<1>3. n \in Nat /\ Lowest(S) \in Nat
  BY <1>1
<1> QED BY <1>1, <1>2, <1>3

LEMMA LowestNone == Lowest({}) = 0
BY DEF Lowest

\* Of positive numbers it is 0 only if there are none.
LEMMA LowestSome ==
    ASSUME NEW S, S \subseteq Nat \ {0}
    PROVE  /\ Lowest(S) # 0 => Lowest(S) \in S
           /\ Lowest(S) = 0 => S = {}
           /\ Lowest(S) \in Nat
<1>1. CASE S = {}
  BY <1>1, LowestNone
<1>2. CASE S # {}
  <2>1. Lowest(S) \in S
    BY <1>2, LowestOf
  <2> QED BY <1>2, <2>1
<1> QED BY <1>1, <1>2

\* What joins a set above its lowest changes nothing.
LEMMA LowestStays ==
    ASSUME NEW S, NEW T, T \subseteq Nat, S \subseteq T, S # {},
           \A n \in T \ S : \A m \in S : m <= n
    PROVE  Lowest(T) = Lowest(S)
<1>1. Lowest(S) \in S /\ \A n \in S : Lowest(S) <= n
  BY LowestOf
<1>2. \A n \in T : Lowest(S) <= n
  BY <1>1
<1> QED BY <1>1, <1>2, LowestIs

LEMMA HeightOK ==
    /\ Height \in Nat \ {0}
    /\ MaxNodes # 0 =>
          /\ Height >= 2
          /\ \/ Height = 1 + MaxNodes
             \/ \A s \in Spines : \A path \in ToSet(s) : Len(path) < Height
<1> DEFINE Short(h) == \A s \in Spines : \A path \in ToSet(s) : Len(path) <= h
           S == {h \in 1..MaxNodes : h = MaxNodes \/ Short(h)}
<1>1. S \subseteq Nat /\ S \subseteq 1..MaxNodes /\ MaxNodes \in Nat
  BY TreeConstants
<1>2. Height = 1 + Lowest(S)
  BY DEF Height
<1>3. CASE S = {}
  <2>1. MaxNodes = 0
    BY <1>1, <1>3
  <2> HIDE DEF S
  <2>2. Lowest(S) = 0
    BY <1>3, LowestNone
  <2> QED BY <1>2, <2>1, <2>2
<1>4. CASE S # {}
  <2>1. Lowest(S) \in S
    <3> HIDE DEF S
    <3> QED BY <1>1, <1>4, LowestOf
  <2>2. PICK h : h = Lowest(S)
    OBVIOUS
  <2>3. h \in 1..MaxNodes /\ (h = MaxNodes \/ Short(h))
    BY <2>1, <2>2
  <2>4. Height = 1 + h
    BY <1>2, <2>2
  <2>5. ASSUME Short(h) PROVE \A s \in Spines : \A path \in ToSet(s) : Len(path) < Height
    <3>1. ASSUME NEW s \in Spines, NEW path \in ToSet(s) PROVE Len(path) < Height
      <4>1. s \in Seq(Seq(STRING))
        BY TreeConstants
      <4>2. Len(path) \in Nat
        BY <4>1 DEF ToSet
      <4>3. Len(path) <= h
        BY <2>5
      <4> QED BY <1>1, <2>3, <2>4, <4>2, <4>3
    <3> QED BY <3>1
  <2> HIDE DEF S, Short
  <2> QED BY <1>1, <2>3, <2>4, <2>5
<1> QED BY <1>3, <1>4

\* What ends a path, one name on.
LEMMA EndsOn ==
    ASSUME NEW N, NEW path \in Seq(N), NEW rest \in Seq(N), IsEndOf(rest, path), rest # <<>>
    PROVE  /\ IsEndOf(Tail(rest), path) /\ Tail(rest) \in Seq(N)
           /\ Len(Tail(rest)) = Len(rest) - 1 /\ Len(rest) \in Nat \ {0}
           /\ Len(rest) <= Len(path) /\ Len(path) \in Nat
           /\ Head(rest) = path[Len(path) - Len(rest) + 1] /\ Head(rest) \in N
<1>1. Len(rest) \in Nat /\ Len(rest) >= 1 /\ Len(path) \in Nat
  OBVIOUS
<1>2. /\ Tail(rest) \in Seq(N) /\ Len(Tail(rest)) = Len(rest) - 1
      /\ \A i \in 1..Len(rest) - 1 : Tail(rest)[i] = rest[i + 1]
  BY <1>1
<1>3. Head(rest) = rest[1] /\ 1 \in 1..Len(rest) /\ rest[1] \in N
  BY <1>1
<1>4. IsEndOf(Tail(rest), path)
  BY <1>1, <1>2 DEF IsEndOf
<1> QED BY <1>1, <1>2, <1>3, <1>4 DEF IsEndOf

LEMMA SpinesAreNames == \A s \in Spines : s \in Seq(Seq(Names))
<1> SUFFICES ASSUME NEW s \in Spines PROVE s \in Seq(Seq(Names))
  OBVIOUS
<1>1. s \in Seq(Seq(STRING))
  BY TreeConstants
<1>2. ASSUME NEW i \in 1..Len(s) PROVE s[i] \in Seq(Names)
  <2>1. s[i] \in Seq(STRING) /\ s[i] \in ToSet(s)
    BY <1>1 DEF ToSet
  <2>2. ASSUME NEW k \in 1..Len(s[i]) PROVE s[i][k] \in Names
    <3>1. s[i][k] \in ToSet(s[i])
      BY <2>1 DEF ToSet
    <3> QED BY <2>1, <3>1 DEF Names
  <2> QED BY <2>1, <2>2
<1> QED BY <1>1, <1>2

-----------------------------------------------------------------------------
(***************************************************************************)
(* The levels of a roll-up.                                                *)
(***************************************************************************)
\* f has the nodes that are k edges above start, for every k up to n.
Levels(start, n, f) ==
    f = [k \in 0..n |-> IF k = 0 THEN {start} ELSE UNION {Parents(m) : m \in f[k - 1]}]

LEMMA LevelsExist ==
    ASSUME NEW start
    PROVE  \A n \in Nat : \E f : Levels(start, n, f)
<1> DEFINE S == {n \in Nat : \E f : Levels(start, n, f)}
<1>1. 0 \in S
  <2> DEFINE f == [k \in 0..0 |-> {start}]
  <2>1. \A k \in 0..0 : k = 0
    OBVIOUS
  <2>2. Levels(start, 0, f)
    BY <2>1 DEF Levels
  <2> QED BY <2>2
<1>2. ASSUME NEW n \in Nat, n \in S PROVE n + 1 \in S
  <2>1. PICK f : Levels(start, n, f)
    BY <1>2
  <2> DEFINE g == [k \in 0..n + 1 |-> IF k = n + 1 THEN UNION {Parents(m) : m \in f[n]}
                                                   ELSE f[k]]
  <2>2. ASSUME NEW k \in 0..n + 1
        PROVE  g[k] = IF k = 0 THEN {start} ELSE UNION {Parents(m) : m \in g[k - 1]}
    <3>1. CASE k = n + 1
      <4>1. g[k] = UNION {Parents(m) : m \in f[n]} /\ k # 0
        BY <3>1
      <4>2. g[k - 1] = f[n]
        BY <3>1
      <4> QED BY <4>1, <4>2
    <3>2. CASE k # n + 1
      <4>1. k \in 0..n /\ g[k] = f[k]
        BY <3>2
      <4>2. k # 0 => g[k - 1] = f[k - 1]
        BY <4>1
      <4>3. f[k] = IF k = 0 THEN {start} ELSE UNION {Parents(m) : m \in f[k - 1]}
        BY <2>1, <4>1 DEF Levels
      <4> QED BY <4>1, <4>2, <4>3
    <3> QED BY <3>1, <3>2
  <2>3. g = [k \in 0..n + 1 |-> g[k]]
    OBVIOUS
  <2>4. Levels(start, n + 1, g)
    <3> HIDE DEF g
    <3> QED BY <2>2, <2>3 DEF Levels
  <2> QED BY <2>4
<1>3. Nat \subseteq S
  <2> HIDE DEF S
  <2> QED BY <1>1, <1>2, ByInduction
<1> QED BY <1>3

\* A roll-up is of the node it starts from and of nodes with a child.
LEMMA RollUpOf ==
    ASSUME NEW start
    PROVE  /\ start \in Firsts(RollUp(start))
           /\ RollUp(start) \subseteq ({start} \cup UNION {Parents(m) : m \in {start} \cup Live}) \X Nat
<1> DEFINE level == Level(start)
           near(n) == Lowest({k \in 0..Height : n \in level[k]})
<1>1. Levels(start, Height, level)
  <2>1. \E f : Levels(start, Height, f)
    BY HeightOK, LevelsExist
  <2>2. level = CHOOSE f : Levels(start, Height, f)
    BY DEF Level, Levels
  <2> QED BY <2>1, <2>2
<1>2. RollUp(start) = {<<n, near(n)>> : n \in UNION {level[k] : k \in 0..Height}}
  BY DEF RollUp
<1> HIDE DEF level
<1>3. 0 \in 0..Height /\ level[0] = {start}
  BY <1>1, HeightOK DEF Levels
<1>4. \A n : near(n) \in Nat
  <2> TAKE n
  <2> DEFINE S == {k \in 0..Height : n \in level[k]}
  <2>1. S \subseteq Nat
    BY HeightOK
  <2>2. near(n) = Lowest(S)
    OBVIOUS
  <2> QED BY <2>1, <2>2, LowestOf, LowestNone
<1>5. ASSUME NEW k \in 0..Height, k # 0
      PROVE  level[k] = UNION {Parents(m) : m \in level[k - 1]}
  BY <1>1, <1>5 DEF Levels
<1>6. ASSUME NEW k \in 0..Height, NEW n \in level[k]
      PROVE  n = start \/ n \in UNION {Parents(m) : m \in {start} \cup Live}
  <2>1. CASE k = 0
    BY <2>1, <1>3, <1>6
  <2>2. CASE k # 0
    <3>1. PICK m \in level[k - 1] : n \in Parents(m)
      BY <1>5, <1>6, <2>2
    <3>2. k - 1 \in 0..Height
      BY <2>2, HeightOK
    <3>3. m = start \/ m \in Live
      <4>1. CASE k - 1 = 0
        BY <4>1, <1>3, <3>1
      <4>2. CASE k - 1 # 0
        <5>1. level[k - 1] = UNION {Parents(x) : x \in level[(k - 1) - 1]}
          BY <4>2, <3>2, <1>5
        <5>2. \A x : Parents(x) \subseteq Live
          BY DEF Parents
        <5> QED BY <3>1, <5>1, <5>2
      <4> QED BY <4>1, <4>2
    <3> QED BY <3>1, <3>3
  <2> QED BY <2>1, <2>2
<1>7. start \in Firsts(RollUp(start))
  <2>1. start \in UNION {level[k] : k \in 0..Height}
    BY <1>3
  <2>2. <<start, near(start)>> \in RollUp(start)
    BY <1>2, <2>1
  <2>3. <<start, near(start)>>[1] = start
    OBVIOUS
  <2> QED BY <2>2, <2>3 DEF Firsts
<1> HIDE DEF near
<1> QED BY <1>2, <1>4, <1>6, <1>7

LEMMA RollUpOK ==
    ASSUME TreeOK, NEW start \in Containers
    PROVE  /\ start \in Firsts(RollUp(start)) /\ Firsts(RollUp(start)) \subseteq Containers
           /\ RollUp(start) \subseteq Nat \X Nat
<1>1. start \in Live /\ Live \subseteq Nat
  BY DEF TreeOK, Containers
<1>2. \A m : Parents(m) \subseteq Containers
  BY DEF Parents, TreeOK
<1>3. RollUp(start) \subseteq Containers \X Nat
  BY <1>2, RollUpOf
<1>4. Containers \subseteq Nat
  BY <1>1 DEF Containers
<1> QED BY <1>3, <1>4, RollUpOf DEF Firsts

-----------------------------------------------------------------------------
(***************************************************************************)
(* Steps.                                                                  *)
(***************************************************************************)
\* Where a step takes a process.
LEMMA Moved ==
    ASSUME Stations, NEW p \in Procs, NEW w, NEW j, Goto(p, w, j)
    PROVE  /\ pc' = [q \in Procs |-> pc'[q]] /\ job' = [q \in Procs |-> job'[q]]
           /\ pc'[p] = w /\ job'[p] = j
           /\ \A q \in Procs \ {p} : pc'[q] = pc[q] /\ job'[q] = job[q]
BY DEF Stations, Goto

LEMMA AtRest ==
    ASSUME NEW at \in {"idle", "down"}
    PROVE  /\ Stands(at, NoJob) /\ Stands(at, NoJob)'
           /\ Pending(at, NoJob) = {} /\ Settled(at, NoJob) /\ Settled(at, NoJob)'
<1>1. at \notin {"roll", "sum", "gardenNext", "unlink", "relink", "done"}
  OBVIOUS
<1> QED BY <1>1 DEF Stands, Pending, Settled, Rolling

\* Beside a process in an operation every other is at rest.
LEMMA OthersRest ==
    ASSUME Stations, Alone, NEW p \in Procs, Active(p), NEW q \in Procs \ {p}
    PROVE  pc[q] \in {"idle", "down"} /\ job[q] = NoJob
<1>1. pc[q] \in {"idle", "down"}
  BY DEF Alone, Active
<1>2. Stands(pc[q], job[q])
  BY DEF Stations
<1> QED BY <1>1, <1>2 DEF Stands, Seeding, Rolling, Pruning, Tending

\* An unchanged tree reads as it did.
LEMMA SameTree ==
    ASSUME UNCHANGED tree
    PROVE  /\ Live' = Live /\ Containers' = Containers /\ Documents' = Documents
           /\ Concepts' = Concepts /\ InboxLeaves' = InboxLeaves
           /\ Root' = Root /\ Inbox' = Inbox
           /\ \A n : Children(n)' = Children(n) /\ Parents(n)' = Parents(n)
           /\ \A n : Quotes(n)' = Quotes(n) /\ Same(n)' = Same(n)
           /\ \A d : LeavesOf(d)' = LeavesOf(d)
           /\ \A n : WithoutLeaf(n)' = WithoutLeaf(n)
           /\ \A n, name : ChildByName(n, name)' = ChildByName(n, name)
           /\ \A t : Target(t)' = Target(t)
           /\ node' = node /\ edges' = edges /\ summary' = summary /\ vec' = vec
           /\ body' = body /\ made' = made
<1>1. /\ node' = node /\ edges' = edges /\ summary' = summary /\ vec' = vec
      /\ body' = body /\ made' = made
  BY DEF tree
<1>2. /\ Live' = Live /\ Containers' = Containers /\ Documents' = Documents
      /\ Concepts' = Concepts
  BY <1>1 DEF Live, Containers, Documents, Concepts
<1>3. \A n : Children(n)' = Children(n) /\ Parents(n)' = Parents(n)
  BY <1>1, <1>2 DEF Children, Parents
<1>4. InboxLeaves' = InboxLeaves /\ Root' = Root /\ Inbox' = Inbox
  BY <1>1, <1>2, <1>3 DEF InboxLeaves, Root, FindByName, Inbox
<1>5. \A n : Quotes(n)' = Quotes(n) /\ Same(n)' = Same(n)
  BY <1>1, <1>2, <1>3 DEF Quotes, Same
<1>6. \A d : LeavesOf(d)' = LeavesOf(d)
  BY <1>1, <1>2 DEF LeavesOf
<1>7. \A n : WithoutLeaf(n)' = WithoutLeaf(n)
  BY <1>3 DEF WithoutLeaf
<1>8. \A n, name : ChildByName(n, name)' = ChildByName(n, name)
  BY <1>1, <1>2, <1>3 DEF ChildByName
<1>9. \A t : Target(t)' = Target(t)
  <2>1. \A t : Candidates(t)' = Candidates(t)
    BY <1>1, <1>2, <1>3 DEF Candidates, Roots
  <2>2. \A t, n : FarTo(t, n)' = FarTo(t, n)
    BY <1>1 DEF FarTo
  <2>3. \A t, n : Decide(t, n)' = Decide(t, n)
    BY <2>1, <2>2 DEF Decide
  <2> QED BY <2>1, <2>3 DEF Target
<1> QED BY <1>1, <1>2, <1>3, <1>4, <1>5, <1>6, <1>7, <1>8, <1>9

\* So what a process stands on still holds.
LEMMA SameStands ==
    ASSUME UNCHANGED tree, NEW at, NEW j
    PROVE  Stands(at, j)' = Stands(at, j) /\ Settled(at, j)' = Settled(at, j)
<1>1. \A path, k, n : Reached(path, k, n)' = Reached(path, k, n)
  BY SameTree DEF Reached
<1>2. OnPath(j)' = OnPath(j) /\ \A m : Whole(j, m)' = Whole(j, m)
  BY <1>1, SameTree DEF OnPath, Whole, Begun
<1>3. Seeds(at, j)' = Seeds(at, j)
  BY <1>2, SameTree DEF Seeds, Begun
<1>4. Keeps(j)' = Keeps(j)
  BY SameTree DEF Keeps
<1>5. Works(at, j)' = Works(at, j)
  BY <1>4, SameTree DEF Works, Kept
<1>6. Settled(at, j)' = Settled(at, j)
  BY SameTree DEF Settled
<1> QED BY <1>3, <1>5, <1>6 DEF Stands

\* A step that reads, or begins or ends an operation.
LEMMA QuietStep ==
    ASSUME TreeInv, NEW p \in Procs, NEW w, NEW j, Goto(p, w, j), UNCHANGED tree,
           Stands(w, j),
           crashes' \in 0..MaxCrashes, ops' \in 0..MaxOps, disturbed' \in BOOLEAN,
           ~disturbed' => ~disturbed, crashes' = 0 => crashes = 0,
           ~disturbed' => Settled(w, j),
           ~disturbed' /\ job[p].op = "garden" =>
               \A n \in Live \cap Pending(pc[p], job[p]) :
                   \/ Quotes(n) \subseteq Children(n)
                   \/ j.op = "garden" /\ n \in Pending(w, j),
           ~disturbed' /\ crashes' = 0 =>
               \A n \in Containers \cap Pending(pc[p], job[p]) :
                   Same(n) \/ n \in Pending(w, j)
    PROVE  TreeInv'
<1>1. /\ pc' = [q \in Procs |-> pc'[q]] /\ job' = [q \in Procs |-> job'[q]]
      /\ pc'[p] = w /\ job'[p] = j
      /\ \A q \in Procs \ {p} : pc'[q] = pc[q] /\ job'[q] = job[q]
  BY Moved DEF TreeInv
<1>2. TreeOK'
  BY SameTree DEF TreeInv, TreeOK
<1>3. Rooted' /\ OneInbox' /\ BodiesFollowLeaves' /\ LeavesQuoteNothing'
  BY SameTree DEF TreeInv, Rooted, OneInbox, BodiesFollowLeaves, LeavesQuoteNothing
<1>4. NoGhostTitles'
  BY SameTree DEF TreeInv, NoGhostTitles
<1>5. Stations'
  <2>1. ASSUME NEW q \in Procs PROVE Stands(pc'[q], job'[q])
    BY <1>1 DEF TreeInv, Stations
  <2>2. ASSUME NEW q \in Procs PROVE Stands(pc[q], job[q])'
    <3>1. PICK at, k : at = pc'[q] /\ k = job'[q]
      OBVIOUS
    <3>2. Stands(at, k)'
      BY <2>1, <3>1, SameStands
    <3> QED BY <3>1, <3>2 DEF Stands
  <2> QED BY <1>1, <2>2 DEF Stations
<1>6. QuotesChildren'
  BY <1>1, SameTree DEF TreeInv, QuotesChildren
<1>7. QuotesAll'
  BY <1>1, SameTree DEF TreeInv, QuotesAll
<1>8. \A q \in Procs : ~disturbed' => Settled(pc[q], job[q])'
  <2> SUFFICES ASSUME NEW q \in Procs, ~disturbed' PROVE Settled(pc[q], job[q])'
    OBVIOUS
  <2>1. PICK at, k : at = pc'[q] /\ k = job'[q]
    OBVIOUS
  <2>2. Settled(at, k)
    BY <1>1, <2>1 DEF TreeInv
  <2>3. Settled(at, k)'
    BY <2>2, SameStands
  <2> QED BY <2>1, <2>3 DEF Settled
<1> QED BY <1>2, <1>3, <1>4, <1>5, <1>6, <1>7, <1>8 DEF TreeInv

\* What a process has in hand, by its place.
LEMMA InHand ==
    ASSUME Stations, NEW p \in Procs
    PROVE  /\ pc[p] \in Seeding => Seeds(pc[p], job[p])
           /\ pc[p] = "embedding" => Embeds(job[p])
           /\ pc[p] \in {"target", "file", "dropBody", "done"} \cup Rolling \cup Pruning \cup Tending
              => Works(pc[p], job[p])
           /\ pc[p] \in {"idle", "down"} => job[p] = NoJob
<1>1. Stands(pc[p], job[p])
  BY DEF Stations
<1> QED BY <1>1 DEF Stands, Seeding, Rolling, Pruning, Tending

\* A step that writes, beside processes at rest.
LEMMA LoneWriteStep ==
    ASSUME TreeInv, NEW p \in Procs, NEW w, NEW j, Goto(p, w, j),
           \A q \in Procs \ {p} : ~Active(q),
           TreeOK', Rooted', OneInbox', BodiesFollowLeaves', NoGhostTitles',
           LeavesQuoteNothing', Stands(w, j)', ~disturbed' => Settled(w, j)',
           ~disturbed' => \A n \in Live' :
               \/ Quotes(n)' \subseteq Children(n)'
               \/ j.op = "garden" /\ n \in Pending(w, j),
           ~disturbed' /\ crashes' = 0 => \A n \in Containers' :
               Same(n)' \/ n \in Pending(w, j)
    PROVE  TreeInv'
<1>1. /\ pc' = [q \in Procs |-> pc'[q]] /\ job' = [q \in Procs |-> job'[q]]
      /\ pc'[p] = w /\ job'[p] = j
      /\ \A q \in Procs \ {p} : pc'[q] = pc[q] /\ job'[q] = job[q]
  BY Moved DEF TreeInv
<1>2. \A q \in Procs \ {p} : pc'[q] \in {"idle", "down"} /\ job'[q] = NoJob
  BY <1>1, InHand DEF TreeInv, Active
<1>3. Stations'
  <2> SUFFICES ASSUME NEW q \in Procs PROVE Stands(pc[q], job[q])'
    BY <1>1 DEF Stations
  <2>1. PICK at, k : at = pc'[q] /\ k = job'[q]
    OBVIOUS
  <2>2. Stands(at, k)'
    BY <1>1, <1>2, <2>1, AtRest
  <2> QED BY <2>1, <2>2 DEF Stands
<1>4. QuotesChildren'
  BY <1>1 DEF QuotesChildren
<1>5. QuotesAll'
  BY <1>1 DEF QuotesAll
<1>6. \A q \in Procs : ~disturbed' => Settled(pc[q], job[q])'
  <2> SUFFICES ASSUME NEW q \in Procs, ~disturbed' PROVE Settled(pc[q], job[q])'
    OBVIOUS
  <2>1. PICK at, k : at = pc'[q] /\ k = job'[q]
    OBVIOUS
  <2>2. Settled(at, k)'
    BY <1>1, <1>2, <2>1, AtRest
  <2> QED BY <2>1, <2>2 DEF Settled
<1> QED BY <1>3, <1>4, <1>5, <1>6 DEF TreeInv

\* A step that writes, of the one process in an operation.
LEMMA WriteStep ==
    ASSUME TreeInv, Alone, NEW p \in Procs, Active(p), NEW w, NEW j, Goto(p, w, j),
           TreeOK', Rooted', OneInbox', BodiesFollowLeaves', NoGhostTitles',
           LeavesQuoteNothing', Stands(w, j)', ~disturbed' => Settled(w, j)',
           ~disturbed' => \A n \in Live' :
               \/ Quotes(n)' \subseteq Children(n)'
               \/ j.op = "garden" /\ n \in Pending(w, j),
           ~disturbed' /\ crashes' = 0 => \A n \in Containers' :
               Same(n)' \/ n \in Pending(w, j)
    PROVE  TreeInv'
<1>1. \A q \in Procs \ {p} : ~Active(q)
  BY DEF Alone
<1> QED BY <1>1, LoneWriteStep

-----------------------------------------------------------------------------
(***************************************************************************)
(* Seeding: the steps that read.                                           *)
(***************************************************************************)
LEMMA FreshSeed ==
    ASSUME NEW spine \in Spines,
           NEW j, j = [op |-> "seed", spine |-> spine, at |-> 0, rest |-> <<>>,
                       left |-> spine, found |-> 0, root |-> 0]
    PROVE  Seeds("seedRoot", j) /\ Seeds("seedRoot", j)'
<1>1. spine \in Seq(Seq(Names)) /\ <<>> \in Seq(Names)
  BY SpinesAreNames
<1>2. IsEndOf(spine, spine)
  BY <1>1 DEF IsEndOf
<1>3. j \in SeedJob /\ j.left = spine /\ j.spine = spine
  BY <1>1 DEF SeedJob
<1> QED BY <1>2, <1>3 DEF Seeds

LEMMA OpenStep ==
    ASSUME TreeInv, NEW p \in Procs, NEW spine \in Spines, Open(p, spine)
    PROVE  TreeInv'
<1>1. PICK j : /\ j = [op |-> "seed", spine |-> spine, at |-> 0, rest |-> <<>>,
                       left |-> spine, found |-> 0, root |-> 0]
               /\ Goto(p, "seedRoot", j)
  BY DEF Open
<1>2. Stands("seedRoot", j)
  BY <1>1, FreshSeed DEF Stands, Seeding
<1>3. UNCHANGED tree /\ disturbed' \in BOOLEAN /\ (~disturbed' => ~disturbed)
  BY DEF Open, TreeKept, TreeInv, TreeOK, Overlaps
<1>4. crashes' \in 0..MaxCrashes /\ ops' \in 0..MaxOps /\ (crashes' = 0 => crashes = 0)
  BY DEF Open, TreeInv, TreeOK
<1>5. Pending(pc[p], job[p]) = {}
  BY DEF Open, Pending
<1>6. Settled("seedRoot", j)
  BY DEF Settled, Rolling
<1> QED BY <1>1, <1>2, <1>3, <1>4, <1>5, <1>6, QuietStep

\* A reading step of a seeding.
LEMMA SeedReads ==
    ASSUME TreeInv, NEW p \in Procs, pc[p] \in Seeding, UNCHANGED <<crashes, ops, disturbed>>,
           UNCHANGED tree, NEW w \in Seeding, NEW j, Goto(p, w, j), Seeds(w, j)
    PROVE  TreeInv'
<1>1. Stands(w, j)
  BY DEF Stands
<1>2. Pending(pc[p], job[p]) = {}
  BY DEF Seeding, Pending
<1>3. Settled(w, j)
  BY DEF Settled, Rolling, Seeding
<1>4. /\ crashes' \in 0..MaxCrashes /\ ops' \in 0..MaxOps /\ disturbed' \in BOOLEAN
      /\ (~disturbed' => ~disturbed) /\ (crashes' = 0 => crashes = 0)
  BY DEF TreeInv, TreeOK
<1> QED BY <1>1, <1>2, <1>3, <1>4, QuietStep

LEMMA FindRootStep ==
    ASSUME TreeInv, NEW p \in Procs, FindRoot(p)
    PROVE  TreeInv'
<1>1. pc[p] = "seedRoot" /\ Seeds("seedRoot", job[p])
  BY InHand DEF FindRoot, Step, TreeInv, Seeding
<1>2. PICK j : j = [job[p] EXCEPT !.found = Root] /\ Goto(p, "makeRoot", j)
  BY DEF FindRoot, Root
<1>3. Root \in Nat
  BY LowestSome DEF Root, FindByName, TreeInv, TreeOK
<1>4. /\ j \in SeedJob /\ j.left = job[p].left /\ j.spine = job[p].spine /\ j.found = Root
  BY <1>1, <1>2, <1>3 DEF Seeds, SeedJob
<1>5. Seeds("makeRoot", j)
  BY <1>1, <1>4 DEF Seeds
<1> QED BY <1>1, <1>2, <1>5, SeedReads DEF FindRoot, Step, TreeKept, Seeding

\* A path is begun with all of its names to come.
LEMMA SeedPathStep ==
    ASSUME TreeInv, NEW p \in Procs, SeedPath(p)
    PROVE  TreeInv'
<1> DEFINE k == job[p]
<1>1. pc[p] = "seedPath" /\ Seeds("seedPath", k) /\ k \in SeedJob
  BY InHand DEF SeedPath, Step, TreeInv, Seeding, Seeds
<1>2. k.spine \in Seq(Seq(Names)) /\ k.left \in Seq(Seq(Names)) /\ IsEndOf(k.left, k.spine)
  BY <1>1, SpinesAreNames DEF Seeds, SeedJob
<1>3. CASE k.left = <<>>
  <2>1. Goto(p, "seekInbox", k)
    BY <1>3 DEF SeedPath
  <2>2. Begun(k) = Len(k.spine)
    BY <1>2, <1>3 DEF Begun
  <2>3. Seeds("seekInbox", k)
    BY <1>1, <2>2 DEF Seeds
  <2> QED BY <1>1, <2>1, <2>3, SeedReads DEF SeedPath, Step, TreeKept, Seeding
<1>4. CASE k.left # <<>>
  <2>1. PICK j : /\ j = [k EXCEPT !.rest = Head(k.left), !.at = k.root, !.left = Tail(k.left)]
                 /\ Goto(p, "seekBranch", j)
    BY <1>4 DEF SeedPath
  <2>2. /\ IsEndOf(Tail(k.left), k.spine) /\ Tail(k.left) \in Seq(Seq(Names))
        /\ Len(Tail(k.left)) = Len(k.left) - 1 /\ Len(k.left) \in Nat \ {0}
        /\ Len(k.left) <= Len(k.spine) /\ Len(k.spine) \in Nat
        /\ Head(k.left) = k.spine[Len(k.spine) - Len(k.left) + 1]
        /\ Head(k.left) \in Seq(Names)
    BY <1>2, <1>4, EndsOn
  <2>3. /\ j \in SeedJob /\ j.rest = Head(k.left) /\ j.at = k.root /\ j.left = Tail(k.left)
        /\ j.spine = k.spine /\ j.root = k.root
    BY <1>1, <2>1, <2>2 DEF SeedJob
  <2>4. /\ Begun(j) = Len(k.spine) - Len(k.left) + 1 /\ Begun(j) - 1 = Begun(k)
        /\ Begun(j) >= 1
    <3>1. Begun(j) = Len(k.spine) - (Len(k.left) - 1)
      BY <2>2, <2>3 DEF Begun
    <3>2. Begun(k) = Len(k.spine) - Len(k.left)
      BY DEF Begun
    <3>3. /\ Len(k.left) \in Nat \ {0} /\ Len(k.spine) \in Nat
          /\ Len(k.left) <= Len(k.spine)
      BY <2>2
    <3> HIDE DEF k
    <3> QED BY <3>1, <3>2, <3>3
  <2>5. k.spine[Begun(j)] = Head(k.left)
    <3>1. Head(k.left) = k.spine[Len(k.spine) - Len(k.left) + 1]
      BY <2>2
    <3>2. Begun(j) = Len(k.spine) - Len(k.left) + 1
      BY <2>4
    <3> QED BY <3>1, <3>2, Zenon
  <2>6. Root \in Live /\ k.root = Root /\ Root \in Concepts
    BY <1>1 DEF Seeds, TreeInv, Rooted, Concepts
  <2>7. OnPath(j)
    <3> DEFINE path == j.spine[Begun(j)]
    <3>1. path = j.rest /\ path \in Seq(Names)
      BY <2>2, <2>3, <2>5
    <3>2. IsEndOf(j.rest, path) /\ Len(path) - Len(j.rest) = 0
      BY <3>1 DEF IsEndOf
    <3>3. Whole(j, Begun(j) - 1)
      <4>1. Whole(k, Begun(k))
        BY <1>1 DEF Seeds
      <4> QED BY <2>3, <2>4, <4>1 DEF Whole
    <3>4. Reached(path, 0, j.at)
      <4> DEFINE g == [i \in 0..0 |-> Root]
      <4>1. g \in [0..0 -> Live] /\ g[0] = Root /\ \A i \in 1..0 : FALSE
        BY <2>6
      <4> QED BY <2>3, <2>6, <4>1 DEF Reached
    <3> QED BY <2>3, <2>4, <2>6, <3>2, <3>3, <3>4 DEF OnPath
  <2>8. Seeds("seekBranch", j)
    BY <1>1, <2>2, <2>3, <2>7 DEF Seeds
  <2> QED BY <1>1, <2>1, <2>8, SeedReads DEF SeedPath, Step, TreeKept, Seeding
<1> QED BY <1>3, <1>4
LEMMA MakeRootFound ==
    ASSUME TreeInv, NEW p \in Procs, MakeRoot(p), job[p].found # 0
    PROVE  TreeInv'
<1>1. pc[p] = "makeRoot" /\ Seeds("makeRoot", job[p]) /\ job[p] \in SeedJob
  BY InHand DEF MakeRoot, Step, TreeInv, Seeding, Seeds
<1>2. PICK j : j = [job[p] EXCEPT !.root = job[p].found] /\ Goto(p, "seedPath", j)
  BY DEF MakeRoot
<1>3. /\ j \in SeedJob /\ j.left = job[p].left /\ j.spine = job[p].spine /\ j.root = Root
  BY <1>1, <1>2 DEF Seeds, SeedJob
<1>4. Live # {} /\ job[p].found = Root
  BY <1>1, LowestNone DEF Seeds, Root, FindByName
<1>5. Whole(j, Begun(j))
  <2>1. j.left = j.spine /\ Len(j.spine) \in Nat
    BY <1>1, <1>3, SpinesAreNames DEF Seeds, SeedJob
  <2>2. Begun(j) = 0
    BY <2>1 DEF Begun
  <2> QED BY <2>2 DEF Whole
<1>6. Seeds("seedPath", j)
  BY <1>1, <1>3, <1>4, <1>5 DEF Seeds
<1> QED BY <1>1, <1>2, <1>6, SeedReads DEF MakeRoot, Step, TreeKept, Seeding

\* A child found extends the way from the root by one name.
LEMMA ReachOn ==
    ASSUME NEW path, NEW k \in Nat, NEW n, Reached(path, k, n),
           NEW m \in Live, m = ChildByName(n, path[k + 1])
    PROVE  Reached(path, k + 1, m)
<1>1. PICK g \in [0..k -> Live] :
          /\ g[0] = Root /\ g[k] = n
          /\ \A i \in 1..k : g[i] = ChildByName(g[i - 1], path[i])
  BY DEF Reached
<1> DEFINE h == [i \in 0..k + 1 |-> IF i = k + 1 THEN m ELSE g[i]]
<1>2. h \in [0..k + 1 -> Live] /\ h[0] = Root /\ h[k] = n /\ h[k + 1] = m
  BY <1>1
<1>3. \A i \in 1..k : h[i] = g[i] /\ h[i - 1] = g[i - 1]
  OBVIOUS
<1> HIDE DEF h
<1>4. ASSUME NEW i \in 1..k + 1 PROVE h[i] = ChildByName(h[i - 1], path[i])
  <2>1. CASE i = k + 1
    <3>1. i - 1 = k
      BY <2>1
    <3> QED BY <1>2, <2>1, <3>1
  <2>2. CASE i # k + 1
    <3>1. i \in 1..k
      BY <2>2
    <3> QED BY <1>1, <1>3, <3>1
  <2> QED BY <2>1, <2>2
<1> QED BY <1>2, <1>4 DEF Reached

LEMMA ReachOnThen ==
    ASSUME NEW path, NEW k \in Nat, NEW n, Reached(path, k, n)',
           NEW m \in Live', m = ChildByName(n, path[k + 1])'
    PROVE  Reached(path, k + 1, m)'
<1>1. PICK g \in [0..k -> Live'] :
          /\ g[0] = Root' /\ g[k] = n
          /\ \A i \in 1..k : g[i] = ChildByName(g[i - 1], path[i])'
  BY DEF Reached
<1> DEFINE h == [i \in 0..k + 1 |-> IF i = k + 1 THEN m ELSE g[i]]
<1>2. h \in [0..k + 1 -> Live'] /\ h[0] = Root' /\ h[k] = n /\ h[k + 1] = m
  BY <1>1
<1>3. \A i \in 1..k : h[i] = g[i] /\ h[i - 1] = g[i - 1]
  OBVIOUS
<1> HIDE DEF h
<1>4. ASSUME NEW i \in 1..k + 1 PROVE h[i] = ChildByName(h[i - 1], path[i])'
  <2>1. CASE i = k + 1
    <3>1. i - 1 = k
      BY <2>1
    <3> QED BY <1>2, <2>1, <3>1
  <2>2. CASE i # k + 1
    <3>1. i \in 1..k
      BY <2>2
    <3> QED BY <1>1, <1>3, <3>1
  <2> QED BY <2>1, <2>2
<1> QED BY <1>2, <1>4 DEF Reached

\* What a child looked up by its name is.
LEMMA ChildIs ==
    ASSUME TreeOK, NEW n, NEW name
    PROVE  LET m == ChildByName(n, name) IN
           /\ m \in Nat
           /\ m # 0 => m \in Children(n) \cap Concepts /\ node[m].name = name
           /\ m = 0 => \A x \in Children(n) \cap Concepts : node[x].name # name
<1> DEFINE S == {x \in Children(n) \cap Concepts : node[x].name = name}
<1>1. S \subseteq Nat \ {0}
  BY DEF TreeOK, Concepts
<1>2. ChildByName(n, name) = Lowest(S)
  BY DEF ChildByName
<1>3. /\ Lowest(S) # 0 => Lowest(S) \in S
      /\ Lowest(S) = 0 => S = {}
      /\ Lowest(S) \in Nat
  <2> HIDE DEF S
  <2> QED BY <1>1, LowestSome
<1> QED BY <1>2, <1>3

\* What a process on a path has in hand.
LEMMA PathIs ==
    ASSUME NEW at \in {"seekBranch", "makeBranch", "linkBranch"}, NEW j, Seeds(at, j)
    PROVE  LET path == j.spine[Begun(j)] IN
           /\ j \in SeedJob /\ OnPath(j) /\ Live # {} /\ j.root = Root
           /\ j.rest \in Seq(Names) /\ path \in Seq(Names) /\ IsEndOf(j.rest, path)
           /\ Begun(j) \in 1..Len(j.spine) /\ Len(j.spine) \in Nat
<1>1. j \in SeedJob /\ OnPath(j) /\ Live # {} /\ j.root = Root /\ IsEndOf(j.left, j.spine)
  BY DEF Seeds
<1>2. j.spine \in Seq(Seq(Names)) /\ j.rest \in Seq(Names) /\ j.left \in Seq(Seq(Names))
  BY <1>1, SpinesAreNames DEF SeedJob
<1>3. Len(j.spine) \in Nat /\ Len(j.left) \in Nat /\ Len(j.left) <= Len(j.spine)
  BY <1>1, <1>2 DEF IsEndOf
<1>4. Begun(j) \in 1..Len(j.spine)
  <2>1. Begun(j) = Len(j.spine) - Len(j.left) /\ Begun(j) >= 1
    BY <1>1 DEF Begun, OnPath
  <2>2. PICK a \in Nat, b \in Nat : a = Len(j.spine) /\ b = Len(j.left)
    BY <1>3
  <2>3. a - b \in 1..a
    <3>1. b <= a
      BY <1>3, <2>2
    <3>2. a - b >= 1
      BY <2>1, <2>2
    <3> QED BY <3>1, <3>2
  <2> QED BY <2>1, <2>2, <2>3
<1>5. j.spine[Begun(j)] \in Seq(Names)
  BY <1>2, <1>4
<1> QED BY <1>1, <1>2, <1>3, <1>4, <1>5 DEF OnPath

LEMMA SeekBranchStep ==
    ASSUME TreeInv, NEW p \in Procs, SeekBranch(p)
    PROVE  TreeInv'
<1> DEFINE k == job[p]
           path == k.spine[Begun(k)]
           there == ChildByName(k.at, Head(k.rest))
<1>1. pc[p] = "seekBranch" /\ Seeds("seekBranch", k)
  BY InHand DEF SeekBranch, Step, TreeInv, Seeding
<1>2. /\ k \in SeedJob /\ OnPath(k) /\ Live # {} /\ k.root = Root
      /\ k.rest \in Seq(Names) /\ path \in Seq(Names) /\ IsEndOf(k.rest, path)
      /\ Begun(k) \in 1..Len(k.spine) /\ Len(k.spine) \in Nat
  BY <1>1, PathIs
<1>3. CASE k.rest = <<>>
  <2>1. Goto(p, "seedPath", k)
    BY <1>3 DEF SeekBranch
  <2>2. Len(path) - Len(k.rest) = Len(path)
    BY <1>2, <1>3
  <2>3. Reached(path, Len(path), k.at) /\ k.at \in Live
    BY <1>2, <2>2 DEF OnPath, Concepts
  <2>4. Whole(k, Begun(k))
    <3>1. ASSUME NEW i \in 1..Begun(k)
          PROVE  \E n \in Live : Reached(k.spine[i], Len(k.spine[i]), n)
      <4>1. CASE i = Begun(k)
        BY <2>3, <4>1
      <4>2. CASE i # Begun(k)
        <5>1. i \in 1..Begun(k) - 1
          BY <1>2, <4>2
        <5> QED BY <1>2, <5>1 DEF OnPath, Whole
      <4> QED BY <4>1, <4>2
    <3> QED BY <3>1 DEF Whole
  <2>5. Seeds("seedPath", k)
    BY <1>1, <1>2, <2>4 DEF Seeds
  <2> QED BY <1>1, <2>1, <2>5, SeedReads DEF SeekBranch, Step, TreeKept, Seeding
<1>4. CASE k.rest # <<>> /\ there # 0
  <2>1. PICK j : j = [k EXCEPT !.at = there, !.rest = Tail(@)] /\ Goto(p, "seekBranch", j)
    BY <1>4 DEF SeekBranch, Branch
  <2>2. /\ IsEndOf(Tail(k.rest), path) /\ Tail(k.rest) \in Seq(Names)
        /\ Len(Tail(k.rest)) = Len(k.rest) - 1 /\ Len(k.rest) \in Nat \ {0}
        /\ Len(k.rest) <= Len(path) /\ Len(path) \in Nat
        /\ Head(k.rest) = path[Len(path) - Len(k.rest) + 1]
    <3>1. path \in Seq(Names) /\ k.rest \in Seq(Names) /\ IsEndOf(k.rest, path) /\ k.rest # <<>>
      BY <1>2, <1>4
    <3> HIDE DEF k, path
    <3>2. PICK a, b : a = path /\ b = k.rest
      OBVIOUS
    <3>3. a \in Seq(Names) /\ b \in Seq(Names) /\ IsEndOf(b, a) /\ b # <<>>
      BY <3>1, <3>2
    <3>4. /\ IsEndOf(Tail(b), a) /\ Tail(b) \in Seq(Names)
          /\ Len(Tail(b)) = Len(b) - 1 /\ Len(b) \in Nat \ {0}
          /\ Len(b) <= Len(a) /\ Len(a) \in Nat
          /\ Head(b) = a[Len(a) - Len(b) + 1]
      BY <3>3, EndsOn
    <3> QED BY <3>2, <3>4
  <2>3. there \in Concepts /\ there \in Live /\ there \in Nat
    BY <1>4, ChildIs DEF Concepts, TreeInv
  <2>4. /\ j \in SeedJob /\ j.rest = Tail(k.rest) /\ j.at = there /\ j.left = k.left
        /\ j.spine = k.spine /\ j.root = k.root
    BY <1>2, <2>1, <2>2, <2>3 DEF SeedJob
  <2>5. Begun(j) = Begun(k)
    BY <2>4 DEF Begun
  <2>6. Reached(path, Len(path) - Len(j.rest), j.at)
    <3>1. Len(path) - Len(k.rest) \in Nat /\ Reached(path, Len(path) - Len(k.rest), k.at)
      <4>1. Reached(path, Len(path) - Len(k.rest), k.at)
        BY <1>2 DEF OnPath
      <4> HIDE DEF k, path
      <4> QED BY <2>2, <4>1
    <3>2. Reached(path, Len(path) - Len(k.rest) + 1, there)
      <4>1. PICK i \in Nat : i = Len(path) - Len(k.rest)
        BY <3>1
      <4>2. there = ChildByName(k.at, path[i + 1])
        BY <2>2, <4>1
      <4>3. Reached(path, i + 1, there)
        BY <2>3, <3>1, <4>1, <4>2, ReachOn DEF TreeInv
      <4> QED BY <4>1, <4>3
    <3>3. Len(path) - Len(j.rest) = Len(path) - Len(k.rest) + 1
      <4>1. Len(j.rest) = Len(k.rest) - 1 /\ Len(k.rest) \in Nat /\ Len(path) \in Nat
        BY <2>2, <2>4
      <4> HIDE DEF k, path
      <4> QED BY <4>1
    <3> QED BY <2>4, <3>2, <3>3
  <2>7. OnPath(j)
    <3>1. Whole(j, Begun(j) - 1)
      BY <1>2, <2>4, <2>5 DEF OnPath, Whole
    <3>2. Begun(j) >= 1
      BY <1>2, <2>5
    <3> QED BY <2>2, <2>3, <2>4, <2>5, <2>6, <3>1, <3>2 DEF OnPath
  <2>8. Seeds("seekBranch", j)
    BY <1>1, <1>2, <2>4, <2>7 DEF Seeds
  <2> QED BY <1>1, <2>1, <2>8, SeedReads DEF SeekBranch, Step, TreeKept, Seeding
<1>5. CASE k.rest # <<>> /\ there = 0
  <2>1. Goto(p, "makeBranch", k)
    BY <1>5 DEF SeekBranch, Branch
  <2>2. Seeds("makeBranch", k)
    BY <1>1, <1>2, <1>5 DEF Seeds
  <2> QED BY <1>1, <2>1, <2>2, SeedReads DEF SeekBranch, Step, TreeKept, Seeding
<1> QED BY <1>3, <1>4, <1>5

LEMMA InboxIs ==
    ASSUME TreeOK
    PROVE  /\ Inbox \in Nat
           /\ Inbox # 0 => Inbox \in Live /\ node[Inbox].kind = "inbox"
           /\ Inbox = 0 => \A n \in Live : node[n].kind # "inbox"
<1> DEFINE S == {n \in Live : node[n].kind = "inbox"}
<1>1. S \subseteq Nat \ {0}
  BY DEF TreeOK
<1>2. Inbox = Lowest(S)
  BY DEF Inbox
<1>3. /\ Lowest(S) # 0 => Lowest(S) \in S
      /\ Lowest(S) = 0 => S = {}
      /\ Lowest(S) \in Nat
  <2> HIDE DEF S
  <2> QED BY <1>1, LowestSome
<1> QED BY <1>2, <1>3

LEMMA SeekInboxStep ==
    ASSUME TreeInv, NEW p \in Procs, SeekInbox(p)
    PROVE  TreeInv'
<1>1. pc[p] = "seekInbox" /\ Seeds("seekInbox", job[p]) /\ job[p] \in SeedJob
  BY InHand DEF SeekInbox, Step, TreeInv, Seeding, Seeds
<1>2. PICK j : /\ j = [job[p] EXCEPT !.found = Inbox]
               /\ Goto(p, IF Inbox = 0 THEN "makeInbox" ELSE "embed", j)
  BY DEF SeekInbox
<1>3. /\ j \in SeedJob /\ j.left = job[p].left /\ j.spine = job[p].spine
      /\ j.root = job[p].root
  BY <1>1, <1>2, InboxIs DEF SeedJob, TreeInv
<1>4. Whole(j, Len(j.spine))
  BY <1>1, <1>3 DEF Seeds, Whole
<1>5. CASE Inbox = 0
  <2>1. Seeds("makeInbox", j)
    BY <1>1, <1>3, <1>4, <1>5 DEF Seeds
  <2> QED BY <1>1, <1>2, <1>5, <2>1, SeedReads DEF SeekInbox, Step, TreeKept, Seeding
<1>6. CASE Inbox # 0
  <2>1. Seeds("embed", j)
    BY <1>1, <1>3, <1>4, <1>6 DEF Seeds
  <2> QED BY <1>1, <1>2, <1>6, <2>1, SeedReads DEF SeekInbox, Step, TreeKept, Seeding
<1> QED BY <1>5, <1>6

-----------------------------------------------------------------------------
(***************************************************************************)
(* Seeding: the steps that write.                                          *)
(***************************************************************************)
\* Ways from the root stay what they are while nothing on them changes.
LEMMA ReachedStays ==
    ASSUME TreeOK, Root' = Root, Live \subseteq Live',
           \A n \in Live : \A name : ChildByName(n, name) # 0
               => ChildByName(n, name)' = ChildByName(n, name)
    PROVE  /\ \A path : \A k \in Nat : \A n : Reached(path, k, n) => Reached(path, k, n)'
           /\ \A j \in SeedJob : \A m \in 0..Len(j.spine) : Whole(j, m) => Whole(j, m)'
<1>1. ASSUME NEW path, NEW k \in Nat, NEW n, Reached(path, k, n)
      PROVE  Reached(path, k, n)'
  <2>1. PICK g \in [0..k -> Live] :
            /\ g[0] = Root /\ g[k] = n
            /\ \A i \in 1..k : g[i] = ChildByName(g[i - 1], path[i])
    BY <1>1 DEF Reached
  <2>2. g \in [0..k -> Live']
    OBVIOUS
  <2>3. ASSUME NEW i \in 1..k PROVE g[i] = ChildByName(g[i - 1], path[i])'
    <3>1. i - 1 \in 0..k /\ i \in 0..k
      OBVIOUS
    <3>2. g[i - 1] \in Live /\ g[i] \in Live /\ g[i] # 0
      BY <3>1 DEF TreeOK
    <3> QED BY <2>1, <3>2
  <2> QED BY <2>1, <2>2, <2>3 DEF Reached
<1>2. ASSUME NEW j \in SeedJob, NEW m \in 0..Len(j.spine), Whole(j, m)
      PROVE  Whole(j, m)'
  <2>1. j.spine \in Seq(Seq(Names)) /\ Len(j.spine) \in Nat
    BY SpinesAreNames DEF SeedJob
  <2>2. ASSUME NEW i \in 1..m PROVE \E n \in Live' : Reached(j.spine[i], Len(j.spine[i]), n)'
    <3>1. Len(j.spine[i]) \in Nat
      <4>1. i \in 1..Len(j.spine)
        BY <2>1
      <4> QED BY <2>1, <4>1
    <3>2. PICK n \in Live : Reached(j.spine[i], Len(j.spine[i]), n)
      BY <1>2 DEF Whole
    <3> QED BY <1>1, <3>1, <3>2
  <2> QED BY <2>2 DEF Whole
<1> QED BY <1>1, <1>2

LEMMA OnPathStays ==
    ASSUME TreeOK, Root' = Root, Live \subseteq Live', Concepts \subseteq Concepts',
           \A n \in Live : \A name : ChildByName(n, name) # 0
               => ChildByName(n, name)' = ChildByName(n, name),
           NEW at \in {"seekBranch", "makeBranch", "linkBranch"}, NEW j, Seeds(at, j)
    PROVE  /\ OnPath(j)'
           /\ Whole(j, Begun(j) - 1)'
           /\ Reached(j.spine[Begun(j)], Len(j.spine[Begun(j)]) - Len(j.rest), j.at)'
<1>1. PICK path : path = j.spine[Begun(j)]
  OBVIOUS
<1>2. /\ j \in SeedJob /\ OnPath(j) /\ j.rest \in Seq(Names) /\ path \in Seq(Names)
      /\ IsEndOf(j.rest, path) /\ Begun(j) \in 1..Len(j.spine) /\ Len(j.spine) \in Nat
  BY <1>1, PathIs
<1>3. PICK b : b = Begun(j)
  OBVIOUS
<1>4. b - 1 \in 0..Len(j.spine) /\ b >= 1
  BY <1>2, <1>3
<1>5. Begun(j)' = b
  BY <1>3 DEF Begun
<1>6. Whole(j, b - 1)'
  BY <1>2, <1>3, <1>4, ReachedStays DEF OnPath
<1>7. Len(path) - Len(j.rest) \in Nat
  <2>1. Len(path) \in Nat /\ Len(j.rest) \in Nat /\ Len(j.rest) <= Len(path)
    BY <1>2 DEF IsEndOf
  <2> QED BY <2>1
<1>8. Reached(path, Len(path) - Len(j.rest), j.at)'
  BY <1>1, <1>2, <1>7, ReachedStays DEF OnPath
<1>9. j.at \in Concepts'
  BY <1>2 DEF OnPath
<1>10. OnPath(j)'
  BY <1>1, <1>2, <1>3, <1>4, <1>5, <1>6, <1>8, <1>9 DEF OnPath
<1> QED BY <1>1, <1>3, <1>5, <1>6, <1>8, <1>10

\* What the containers quote while one process works.
LEMMA QuotesNow ==
    ASSUME TreeInv, Alone, NEW p \in Procs, Active(p)
    PROVE  /\ ~disturbed => \A n \in Live :
                 \/ Quotes(n) \subseteq Children(n)
                 \/ job[p].op = "garden" /\ n \in Pending(pc[p], job[p])
           /\ crashes = 0 /\ ~disturbed => \A n \in Containers :
                 Same(n) \/ n \in Pending(pc[p], job[p])
<1>1. \A q \in Procs \ {p} : Pending(pc[q], job[q]) = {}
  BY OthersRest, AtRest DEF TreeInv
<1> QED BY <1>1 DEF TreeInv, QuotesChildren, QuotesAll

\* A container is made: bare, and after all the others.
LEMMA ContainerMade ==
    ASSUME TreeInv, NEW kind \in {"spine", "inbox"}, NEW name \in Names,
           Create(TreeNode(kind, name, None)), UNCHANGED <<edges, vec, body>>,
           UNCHANGED <<crashes, ops, disturbed>>, NEW new, new = NewId
    PROVE  /\ made' = new /\ new \notin Live /\ Live' = Live \cup {new}
           /\ \A n \in Live : n < new /\ node'[n] = node[n]
           /\ node'[new] = TreeNode(kind, name, None)
           /\ \A n : Children(n)' = Children(n) /\ Parents(n)' = Parents(n)
           /\ Children(new) = {} /\ Parents(new) = {}
           /\ Containers' = Containers \cup {new} /\ Documents' = Documents
           /\ \A n, x : ChildByName(n, x)' = ChildByName(n, x)
           /\ TreeOK' /\ BodiesFollowLeaves' /\ NoGhostTitles' /\ LeavesQuoteNothing'
           /\ \A n \in Live : Quotes(n)' = Quotes(n)
           /\ Quotes(new)' = {} /\ Same(new)'
           /\ \A n \in Live : Same(n) => Same(n)'
<1>1. made \in Nat /\ made' = new /\ new = made + 1 /\ new \in Ids
  BY TreeConstants DEF Create, NewId, TreeInv, TreeOK, Ids
<1>2. new \notin Live /\ \A n \in Live : n < new
  BY <1>1 DEF TreeInv, TreeOK
<1>3. /\ node' = [n \in Live \cup {new} |-> IF n \in Live THEN node[n]
                                            ELSE TreeNode(kind, name, None)]
      /\ summary' = [n \in Live \cup {new} |-> IF n \in Live THEN summary[n] ELSE Curated]
  <2>1. DOMAIN summary = Live
    BY DEF TreeInv, TreeOK
  <2> QED BY <1>2, <2>1 DEF Create, Live, With
<1>4. Live' = Live \cup {new}
  BY <1>3 DEF Live
<1>5. /\ \A n \in Live : node'[n] = node[n] /\ summary'[n] = summary[n]
      /\ node'[new] = TreeNode(kind, name, None) /\ summary'[new] = Curated
  BY <1>2, <1>3
<1>6. edges \subseteq Containers \X Live /\ Containers \subseteq Live
  BY DEF TreeInv, TreeOK, Containers
<1>7. \A n : Children(n)' = Children(n) /\ Parents(n)' = Parents(n)
  BY <1>2, <1>4, <1>6 DEF Children, Parents
<1>8. Children(new) = {} /\ Parents(new) = {}
  BY <1>2, <1>6 DEF Children, Parents
<1>9. node'[new].kind = kind /\ node'[new].name = name /\ node'[new].doc = None
  BY <1>5 DEF TreeNode
<1>10. Containers' = Containers \cup {new} /\ Documents' = Documents
  BY <1>2, <1>4, <1>5, <1>9 DEF Containers, Documents
<1>11. ASSUME NEW n, NEW x PROVE ChildByName(n, x)' = ChildByName(n, x)
  <2>1. Children(n) \subseteq Live /\ Children(n)' = Children(n)
    BY <1>7 DEF Children
  <2>2. \A m \in Children(n) : m \in Concepts' <=> m \in Concepts
    BY <1>4, <1>5, <2>1 DEF Concepts
  <2>3. \A m \in Children(n) : node'[m] = node[m]
    BY <1>5, <2>1
  <2>4. {m \in Children(n)' \cap Concepts' : node'[m].name = x}
        = {m \in Children(n) \cap Concepts : node[m].name = x}
    BY <2>1, <2>2, <2>3
  <2> QED BY <2>4 DEF ChildByName
<1>12. \A d : LeavesOf(d)' = LeavesOf(d)
  BY <1>2, <1>4, <1>5, <1>9 DEF LeavesOf
<1>13. TreeOK'
  <2>1. TreeOK
    BY DEF TreeInv
  <2>2. TreeNode(kind, name, None) \in
          [kind : Kinds, name : Names \cup Texts, doc : Docs \cup {None}]
    BY DEF TreeNode, Kinds
  <2>3. Curated \in [rolled : BOOLEAN, items : SUBSET Ids]
    BY DEF Curated
  <2>4. node' \in [Live' -> [kind : Kinds, name : Names \cup Texts, doc : Docs \cup {None}]]
    BY <1>3, <1>4, <2>1, <2>2 DEF TreeOK
  <2>5. summary' \in [Live' -> [rolled : BOOLEAN, items : SUBSET Ids]]
    BY <1>3, <1>4, <2>1, <2>3 DEF TreeOK
  <2>6. Live' \subseteq 1..made' /\ made' \in 0..MaxNodes
    <3>1. made < MaxNodes /\ MaxNodes \in Nat
      BY TreeConstants DEF Create
    <3>2. Live \subseteq 1..made
      BY <2>1 DEF TreeOK
    <3> QED BY <1>1, <1>4, <3>1, <3>2
  <2>7. edges' \subseteq Containers' \X Live'
    BY <1>4, <1>6, <1>10
  <2> QED BY <2>1, <2>4, <2>5, <2>6, <2>7 DEF TreeOK
<1>14. BodiesFollowLeaves'
  BY <1>12 DEF TreeInv, BodiesFollowLeaves
<1>15. NoGhostTitles'
  BY <1>4, <1>5 DEF TreeInv, NoGhostTitles, Curated
<1>16. LeavesQuoteNothing'
  BY <1>5, <1>10 DEF TreeInv, LeavesQuoteNothing, Documents
<1>17. /\ \A n \in Live : Quotes(n)' = Quotes(n) /\ (Same(n) => Same(n)')
       /\ Quotes(new)' = {} /\ Same(new)'
  BY <1>5, <1>7, <1>8, <1>10 DEF Quotes, Same, Curated
<1> QED BY <1>1, <1>2, <1>4, <1>5, <1>7, <1>8, <1>10, <1>11, <1>13, <1>14, <1>15, <1>16, <1>17

\* A writing step of a seeding.
LEMMA SeedWrites ==
    ASSUME TreeInv, Alone, NEW p \in Procs, pc[p] \in Seeding,
           UNCHANGED <<crashes, ops, disturbed>>, NEW w \in Seeding, NEW j, Goto(p, w, j),
           TreeOK', Rooted', OneInbox', BodiesFollowLeaves', NoGhostTitles',
           LeavesQuoteNothing', Seeds(w, j)',
           ~disturbed => \A n \in Live' : Quotes(n)' \subseteq Children(n)',
           crashes = 0 /\ ~disturbed => \A n \in Containers' : Same(n)'
    PROVE  TreeInv'
<1>1. Stands(w, j)'
  BY DEF Stands
<1>2. Settled(w, j)'
  BY DEF Settled, Rolling, Seeding
<1>3. Active(p)
  BY DEF Active, Seeding
<1> QED BY <1>1, <1>2, <1>3, WriteStep

LEMMA MakeRootStep ==
    ASSUME TreeInv, Alone, NEW p \in Procs, MakeRoot(p)
    PROVE  TreeInv'
<1>1. CASE job[p].found # 0
  BY <1>1, MakeRootFound
<1>2. CASE job[p].found = 0
  <2>1. pc[p] = "makeRoot" /\ Seeds("makeRoot", job[p]) /\ job[p] \in SeedJob
    BY InHand DEF MakeRoot, Step, TreeInv, Seeding, Seeds
  <2>2. PICK new : new = NewId
    OBVIOUS
  <2>3. /\ Create(TreeNode("spine", "root", None)) /\ UNCHANGED <<edges, vec, body>>
        /\ UNCHANGED <<crashes, ops, disturbed>>
    BY <1>2 DEF MakeRoot, Step
  <2>4. PICK j : j = [job[p] EXCEPT !.root = new] /\ Goto(p, "seedPath", j)
    BY <1>2, <2>2 DEF MakeRoot
  <2>5. Live = {}
    <3>1. Root = 0
      BY <1>2, <2>1 DEF Seeds
    <3>2. 0 \notin Live
      BY DEF TreeInv, TreeOK
    <3> QED BY <3>1, <3>2 DEF TreeInv, Rooted, Concepts
  <2>6. /\ Live' = {new} /\ new \in Nat /\ node'[new] = TreeNode("spine", "root", None)
        /\ TreeOK' /\ BodiesFollowLeaves' /\ NoGhostTitles' /\ LeavesQuoteNothing'
        /\ Containers' = Containers \cup {new} /\ Quotes(new)' = {} /\ Same(new)'
    <3>1. "spine" \in {"spine", "inbox"} /\ "root" \in Names
      BY DEF Names
    <3>2. new \in Nat
      BY <2>2 DEF NewId, TreeInv, TreeOK
    <3> QED BY <2>2, <2>3, <2>5, <3>1, <3>2, ContainerMade
  <2>7. node'[new].kind = "spine" /\ node'[new].name = "root"
    BY <2>6 DEF TreeNode
  <2>8. Root' = new
    <3>1. {n \in Live' : node'[n].name = "root"} = {new}
      BY <2>6, <2>7
    <3>2. Lowest({new}) = new
      BY <2>6, LowestIs
    <3> QED BY <3>1, <3>2 DEF Root, FindByName
  <2>9. Rooted' /\ OneInbox'
    BY <2>6, <2>7, <2>8 DEF Rooted, OneInbox, Concepts
  <2>10. /\ j \in SeedJob /\ j.left = job[p].left /\ j.spine = job[p].spine /\ j.root = new
    BY <2>1, <2>4, <2>6 DEF Seeds, SeedJob
  <2>11. Whole(j, Begun(j))'
    <3>1. j.left = j.spine /\ Len(j.spine) \in Nat
      BY <2>1, <2>10, SpinesAreNames DEF Seeds, SeedJob
    <3>2. Begun(j)' = 0
      BY <3>1 DEF Begun
    <3> QED BY <3>2 DEF Whole
  <2>12. Seeds("seedPath", j)'
    BY <2>1, <2>6, <2>8, <2>10, <2>11 DEF Seeds
  <2>13. \A n \in Live' : Quotes(n)' = {}
    BY <2>6
  <2>14. \A n \in Containers' : Same(n)'
    BY <2>5, <2>6 DEF Containers
  <2> QED BY <2>1, <2>3, <2>4, <2>6, <2>9, <2>12, <2>13, <2>14, SeedWrites DEF Seeding
<1> QED BY <1>1, <1>2

\* A container made beside others leaves the root and the ways from it.
LEMMA AnotherMade ==
    ASSUME TreeInv, Live # {}, NEW kind \in {"spine", "inbox"}, NEW name \in Names,
           Create(TreeNode(kind, name, None)), UNCHANGED <<edges, vec, body>>,
           UNCHANGED <<crashes, ops, disturbed>>
    PROVE  /\ Root' = Root /\ Rooted' /\ Live' # {}
           /\ Live \subseteq Live' /\ Concepts \subseteq Concepts'
<1>1. PICK new : new = NewId
  OBVIOUS
<1>2. /\ made' = new /\ new \notin Live /\ Live' = Live \cup {new}
      /\ \A n \in Live : n < new /\ node'[n] = node[n]
      /\ node'[new] = TreeNode(kind, name, None)
  BY <1>1, ContainerMade
<1>3. Live \subseteq Nat /\ Root \in Concepts /\ new \in Nat /\ \A n \in Live : Root <= n
  BY <1>1 DEF TreeInv, TreeOK, Rooted, NewId
<1> DEFINE S == {n \in Live : node[n].name = "root"}
           T == {n \in Live' : node'[n].name = "root"}
<1>4. T \subseteq Nat /\ S \subseteq T /\ \A n \in T \ S : n = new
  BY <1>2, <1>3
<1>5. S # {}
  <2>1. Lowest(S) # 0
    BY <1>3 DEF Root, FindByName, Concepts, TreeInv, TreeOK
  <2> QED BY <2>1, LowestNone
<1>6. \A n \in T \ S : \A m \in S : m <= n
  BY <1>2, <1>3, <1>4
<1>7. Lowest(T) = Lowest(S)
  <2> HIDE DEF S, T
  <2> QED BY <1>4, <1>5, <1>6, LowestStays
<1>8. Root' = Root
  BY <1>7 DEF Root, FindByName
<1>9. Concepts \subseteq Concepts'
  BY <1>2 DEF Concepts
<1>10. \A n \in Live' : Root <= n
  BY <1>2, <1>3 DEF Concepts
<1> QED BY <1>2, <1>3, <1>8, <1>9, <1>10 DEF Rooted

LEMMA MakeBranchStep ==
    ASSUME TreeInv, Alone, NEW p \in Procs, MakeBranch(p)
    PROVE  TreeInv'
<1>0. PICK k : k = job[p]
  OBVIOUS
<1>1. pc[p] = "makeBranch" /\ Seeds("makeBranch", k) /\ Active(p)
  BY <1>0, InHand DEF MakeBranch, Step, TreeInv, Seeding, Active
<1>2. /\ k \in SeedJob /\ Live # {} /\ k.root = Root /\ k.rest \in Seq(Names)
      /\ Head(k.rest) \in Names
  <2>1. k.rest # <<>>
    BY <1>1 DEF Seeds
  <2> QED BY <1>1, <2>1, PathIs
<1>3. PICK new, name : new = NewId /\ name = Head(k.rest)
  OBVIOUS
<1>4. /\ Create(TreeNode("spine", name, None)) /\ UNCHANGED <<edges, vec, body>>
      /\ UNCHANGED <<crashes, ops, disturbed>> /\ name \in Names /\ "spine" \in {"spine", "inbox"}
  BY <1>0, <1>2, <1>3 DEF MakeBranch, Step
<1>5. /\ made' = new /\ new \notin Live /\ Live' = Live \cup {new}
      /\ \A n \in Live : n < new /\ node'[n] = node[n]
      /\ node'[new] = TreeNode("spine", name, None)
      /\ \A n : Children(n)' = Children(n) /\ Parents(n)' = Parents(n)
      /\ Children(new) = {} /\ Parents(new) = {}
      /\ Containers' = Containers \cup {new} /\ Documents' = Documents
      /\ \A n, x : ChildByName(n, x)' = ChildByName(n, x)
      /\ TreeOK' /\ BodiesFollowLeaves' /\ NoGhostTitles' /\ LeavesQuoteNothing'
      /\ \A n \in Live : Quotes(n)' = Quotes(n)
      /\ Quotes(new)' = {} /\ Same(new)'
      /\ \A n \in Live : Same(n) => Same(n)'
  BY <1>3, <1>4, ContainerMade
<1>6. /\ Root' = Root /\ Rooted' /\ Live' # {}
      /\ Live \subseteq Live' /\ Concepts \subseteq Concepts'
  BY <1>2, <1>4, AnotherMade
<1>7. node'[new].kind = "spine" /\ node'[new].name = name
  BY <1>5 DEF TreeNode
<1>8. OneInbox'
  BY <1>5, <1>7 DEF OneInbox, TreeInv
<1>9. PICK j : j = [k EXCEPT !.found = new] /\ Goto(p, "linkBranch", j)
  BY <1>0, <1>3 DEF MakeBranch
<1>10. /\ j \in SeedJob /\ j.left = k.left /\ j.spine = k.spine /\ j.root = k.root
       /\ j.at = k.at /\ j.rest = k.rest /\ j.found = new
  <2>1. new \in Nat
    BY <1>3 DEF NewId, TreeInv, TreeOK
  <2> QED BY <1>2, <1>9, <2>1 DEF SeedJob
<1>11. OnPath(j)'
  <2>1. PICK b : b = Begun(k)
    OBVIOUS
  <2>2. OnPath(k)' /\ Begun(k)' = b /\ Begun(j)' = b
    BY <1>1, <1>5, <1>6, <1>10, <2>1, OnPathStays DEF TreeInv, Begun
  <2> QED BY <1>10, <2>2 DEF OnPath, Whole
<1>12. ChildByName(j.at, Head(j.rest))' = 0 /\ j.rest # <<>>
  BY <1>1, <1>5, <1>10 DEF Seeds
<1>13. new \in Concepts' /\ Parents(new)' = {} /\ Children(new)' = {}
  BY <1>5, <1>7 DEF Concepts
<1>14. Seeds("linkBranch", j)'
  BY <1>1, <1>2, <1>3, <1>5, <1>6, <1>7, <1>10, <1>11, <1>12, <1>13 DEF Seeds
<1>15. ~disturbed => \A n \in Live' : Quotes(n)' \subseteq Children(n)'
  BY <1>0, <1>1, <1>5, QuotesNow DEF Pending
<1>16. crashes = 0 /\ ~disturbed => \A n \in Containers' : Same(n)'
  BY <1>0, <1>1, <1>5, QuotesNow DEF Pending, Containers
<1> QED BY <1>1, <1>4, <1>5, <1>6, <1>8, <1>9, <1>14, <1>15, <1>16, SeedWrites DEF Seeding

\* A container is put under a concept.
LEMMA ContainerLinked ==
    ASSUME TreeInv, NEW up \in Concepts, NEW new \in Containers,
           edges' = edges \cup {<<up, new>>},
           UNCHANGED <<node, summary, vec, body, made, crashes, ops, disturbed>>
    PROVE  /\ Live' = Live /\ Concepts' = Concepts /\ Containers' = Containers
           /\ Root' = Root /\ Inbox' = Inbox
           /\ Children(up)' = Children(up) \cup {new}
           /\ \A n : n # up => Children(n)' = Children(n)
           /\ TreeOK' /\ Rooted' /\ OneInbox' /\ BodiesFollowLeaves' /\ NoGhostTitles'
           /\ LeavesQuoteNothing'
           /\ \A n : Quotes(n) \subseteq Children(n) => Quotes(n)' \subseteq Children(n)'
           /\ \A n : Same(n) => Same(n)'
<1>1. /\ Live' = Live /\ Concepts' = Concepts /\ Containers' = Containers
      /\ Documents' = Documents
  BY DEF Live, Concepts, Containers, Documents
<1>2. Root' = Root /\ Inbox' = Inbox
  BY <1>1 DEF Root, FindByName, Inbox
<1>3. new \in Live /\ new \notin Documents /\ up \in Containers
  BY DEF Containers, Concepts, Documents
<1>4. /\ Children(up)' = Children(up) \cup {new}
      /\ \A n : n # up => Children(n)' = Children(n)
  BY <1>1, <1>3 DEF Children
<1>5. TreeOK'
  BY <1>1, <1>3 DEF TreeInv, TreeOK
<1>6. Rooted' /\ OneInbox' /\ BodiesFollowLeaves' /\ LeavesQuoteNothing'
  <2>1. \A d : LeavesOf(d)' = LeavesOf(d)
    BY <1>1 DEF LeavesOf
  <2> QED BY <1>1, <1>2, <2>1
          DEF TreeInv, Rooted, OneInbox, BodiesFollowLeaves, LeavesQuoteNothing
<1>7. NoGhostTitles'
  BY <1>1 DEF TreeInv, NoGhostTitles
<1>8. \A n : Quotes(n)' = Quotes(n)
  BY <1>1 DEF Quotes
<1>9. \A n : Children(n)' \cap Documents' = Children(n) \cap Documents
  BY <1>1, <1>3, <1>4
<1>10. \A n : Quotes(n) \subseteq Children(n) => Quotes(n)' \subseteq Children(n)'
  BY <1>3, <1>4, <1>8 DEF Quotes
<1>11. \A n : Same(n) => Same(n)'
  BY <1>8, <1>9 DEF Same
<1> QED BY <1>1, <1>2, <1>4, <1>5, <1>6, <1>7, <1>10, <1>11

LEMMA LinkBranchStep ==
    ASSUME TreeInv, Alone, NEW p \in Procs, LinkBranch(p)
    PROVE  TreeInv'
<1>0. PICK k : k = job[p]
  OBVIOUS
<1>1. pc[p] = "linkBranch" /\ Seeds("linkBranch", k) /\ Active(p)
  BY <1>0, InHand DEF LinkBranch, Step, TreeInv, Seeding, Active
<1>2. /\ k \in SeedJob /\ OnPath(k) /\ Live # {} /\ k.root = Root /\ k.rest \in Seq(Names)
      /\ Begun(k) \in 1..Len(k.spine)
  BY <1>1, PathIs
<1>3. PICK b : b = Begun(k)
  OBVIOUS
<1>4. PICK path, at, new, rest, name : /\ path = k.spine[b] /\ at = k.at /\ new = k.found
                                       /\ rest = k.rest /\ name = Head(k.rest)
  OBVIOUS
<1>5. /\ at \in Concepts /\ at \in Live /\ new \in Concepts /\ new \in Containers /\ new \in Live
      /\ node[new].name = name /\ Parents(new) = {} /\ Children(new) = {}
      /\ ChildByName(at, name) = 0 /\ k.rest # <<>>
  BY <1>1, <1>2, <1>4 DEF Seeds, OnPath, Concepts, Containers
<1>6. PICK j : j = [k EXCEPT !.at = new, !.rest = Tail(@)] /\ Goto(p, "seekBranch", j)
  BY <1>0, <1>4, <1>5 DEF LinkBranch
<1>7. /\ edges' = edges \cup {<<at, new>>}
      /\ UNCHANGED <<node, summary, vec, body, made, crashes, ops, disturbed>>
  BY <1>0, <1>4, <1>5 DEF LinkBranch, Step
<1>8. /\ Live' = Live /\ Concepts' = Concepts /\ Containers' = Containers
      /\ Root' = Root /\ Inbox' = Inbox
      /\ Children(at)' = Children(at) \cup {new}
      /\ \A n : n # at => Children(n)' = Children(n)
      /\ TreeOK' /\ Rooted' /\ OneInbox' /\ BodiesFollowLeaves' /\ NoGhostTitles'
      /\ LeavesQuoteNothing'
      /\ \A n : Quotes(n) \subseteq Children(n) => Quotes(n)' \subseteq Children(n)'
      /\ \A n : Same(n) => Same(n)'
  BY <1>5, <1>7, ContainerLinked
<1>9. new \notin Children(at) /\ new \in Nat
  BY <1>5 DEF Children, Parents, TreeInv, TreeOK
<1>10. ChildByName(at, name)' = new
  <2>1. \A x \in Children(at) \cap Concepts : node[x].name # name
    BY <1>5, ChildIs DEF TreeInv
  <2>2. {x \in Children(at)' \cap Concepts' : node'[x].name = name} = {new}
    BY <1>5, <1>7, <1>8, <2>1
  <2>3. Lowest({new}) = new
    BY <1>9, LowestIs
  <2> QED BY <2>2, <2>3 DEF ChildByName
<1>11. ASSUME NEW n \in Live, NEW x, ChildByName(n, x) # 0
       PROVE  ChildByName(n, x)' = ChildByName(n, x)
  <2>1. CASE n # at
    BY <1>7, <1>8, <2>1 DEF ChildByName
  <2>2. CASE n = at
    <3>1. x # name
      BY <1>5, <1>11, <2>2
    <3>2. {y \in Children(at)' \cap Concepts' : node'[y].name = x}
          = {y \in Children(at) \cap Concepts : node[y].name = x}
      BY <1>5, <1>7, <1>8, <3>1
    <3> QED BY <2>2, <3>2 DEF ChildByName
  <2> QED BY <2>1, <2>2
<1>12. /\ Whole(k, b - 1)'
       /\ Reached(path, Len(path) - Len(rest), at)'
  BY <1>1, <1>3, <1>4, <1>8, <1>11, OnPathStays DEF TreeInv
<1>13. /\ path \in Seq(Names) /\ IsEndOf(rest, path)
  BY <1>1, <1>3, <1>4, PathIs
<1>14. /\ IsEndOf(Tail(rest), path) /\ Tail(rest) \in Seq(Names)
       /\ Len(Tail(rest)) = Len(rest) - 1 /\ Len(rest) \in Nat \ {0}
       /\ Len(rest) <= Len(path) /\ Len(path) \in Nat
       /\ Head(rest) = path[Len(path) - Len(rest) + 1]
  <2>1. rest \in Seq(Names) /\ rest # <<>>
    BY <1>2, <1>4, <1>5
  <2> QED BY <1>13, <2>1, EndsOn
<1>15. /\ j \in SeedJob /\ j.rest = Tail(rest) /\ j.at = new /\ j.left = k.left
       /\ j.spine = k.spine /\ j.root = k.root
  BY <1>2, <1>4, <1>6, <1>9, <1>14 DEF SeedJob
<1>16. Reached(path, Len(path) - Len(j.rest), new)'
  <2>1. PICK i \in Nat : i = Len(path) - Len(rest)
    BY <1>14
  <2>2. new = ChildByName(at, path[i + 1])'
    <3>1. path[i + 1] = name
      BY <1>4, <1>14, <2>1
    <3> QED BY <1>10, <3>1
  <2>3. Reached(path, i + 1, new)'
    <3>1. Reached(path, i, at)'
      BY <1>12, <2>1
    <3>2. new \in Live'
      BY <1>5, <1>8
    <3> QED BY <2>2, <3>1, <3>2, ReachOnThen
  <2>4. Len(path) - Len(j.rest) = i + 1
    BY <1>14, <1>15, <2>1
  <2> QED BY <2>3, <2>4
<1>17. OnPath(j)'
  <2>1. Begun(j)' = b /\ b >= 1
    BY <1>2, <1>3, <1>15 DEF Begun
  <2>2. Whole(j, b - 1)'
    BY <1>12, <1>15 DEF Whole
  <2> QED BY <1>4, <1>5, <1>8, <1>14, <1>15, <1>16, <2>1, <2>2 DEF OnPath
<1>18. Seeds("seekBranch", j)'
  <2>1. IsEndOf(j.left, j.spine) /\ j.root = Root
    BY <1>1, <1>15 DEF Seeds
  <2> QED BY <1>2, <1>8, <1>15, <1>17, <2>1 DEF Seeds
<1>19. ~disturbed => \A n \in Live' : Quotes(n)' \subseteq Children(n)'
  BY <1>0, <1>1, <1>8, QuotesNow DEF Pending
<1>20. crashes = 0 /\ ~disturbed => \A n \in Containers' : Same(n)'
  BY <1>0, <1>1, <1>8, QuotesNow DEF Pending
<1> QED BY <1>1, <1>6, <1>7, <1>8, <1>18, <1>19, <1>20, SeedWrites DEF Seeding

LEMMA MakeInboxStep ==
    ASSUME TreeInv, Alone, NEW p \in Procs, MakeInbox(p)
    PROVE  TreeInv'
<1>0. PICK k : k = job[p]
  OBVIOUS
<1>1. pc[p] = "makeInbox" /\ Seeds("makeInbox", k) /\ Active(p)
  BY <1>0, InHand DEF MakeInbox, Step, TreeInv, Seeding, Active
<1>2. k \in SeedJob /\ Live # {} /\ k.root = Root /\ IsEndOf(k.left, k.spine)
      /\ Inbox = 0 /\ Whole(k, Len(k.spine))
  BY <1>1 DEF Seeds
<1>3. PICK new : new = NewId
  OBVIOUS
<1>4. /\ Create(TreeNode("inbox", "inbox", None)) /\ UNCHANGED <<edges, vec, body>>
      /\ UNCHANGED <<crashes, ops, disturbed>>
      /\ "inbox" \in Names /\ "inbox" \in {"spine", "inbox"}
  BY DEF MakeInbox, Step, Names
<1>5. /\ made' = new /\ new \notin Live /\ Live' = Live \cup {new}
      /\ \A n \in Live : n < new /\ node'[n] = node[n]
      /\ node'[new] = TreeNode("inbox", "inbox", None)
      /\ Containers' = Containers \cup {new}
      /\ \A n : Children(n)' = Children(n) /\ Parents(n)' = Parents(n)
      /\ \A n, x : ChildByName(n, x)' = ChildByName(n, x)
      /\ TreeOK' /\ BodiesFollowLeaves' /\ NoGhostTitles' /\ LeavesQuoteNothing'
      /\ \A n \in Live : Quotes(n)' = Quotes(n)
      /\ Quotes(new)' = {} /\ Same(new)'
      /\ \A n \in Live : Same(n) => Same(n)'
  BY <1>3, <1>4, ContainerMade
<1>6. /\ Root' = Root /\ Rooted' /\ Live' # {} /\ Live \subseteq Live'
      /\ Concepts \subseteq Concepts'
  BY <1>2, <1>4, AnotherMade
<1>7. node'[new].kind = "inbox"
  BY <1>5 DEF TreeNode
<1>8. OneInbox'
  <2>1. \A n \in Live : node[n].kind # "inbox"
    BY <1>2, InboxIs DEF TreeInv
  <2> QED BY <1>5, <2>1 DEF OneInbox
<1>9. PICK j : j = [k EXCEPT !.found = new] /\ Goto(p, "linkInbox", j)
  BY <1>0, <1>3 DEF MakeInbox
<1>10. /\ j \in SeedJob /\ j.left = k.left /\ j.spine = k.spine /\ j.root = k.root
       /\ j.found = new
  <2>1. new \in Nat
    BY <1>3 DEF NewId, TreeInv, TreeOK
  <2> QED BY <1>2, <1>9, <2>1 DEF SeedJob
<1>11. Whole(j, Len(j.spine))'
  <2>1. Len(k.spine) \in 0..Len(k.spine)
    BY <1>2, SpinesAreNames DEF SeedJob
  <2>2. Whole(k, Len(k.spine))'
    BY <1>2, <1>5, <1>6, <2>1, ReachedStays DEF TreeInv
  <2> QED BY <1>10, <2>2 DEF Whole
<1>12. Seeds("linkInbox", j)'
  BY <1>2, <1>5, <1>6, <1>7, <1>10, <1>11 DEF Seeds
<1>13. ~disturbed => \A n \in Live' : Quotes(n)' \subseteq Children(n)'
  BY <1>0, <1>1, <1>5, QuotesNow DEF Pending
<1>14. crashes = 0 /\ ~disturbed => \A n \in Containers' : Same(n)'
  BY <1>0, <1>1, <1>5, QuotesNow DEF Pending, Containers
<1> QED BY <1>1, <1>4, <1>5, <1>6, <1>8, <1>9, <1>12, <1>13, <1>14, SeedWrites DEF Seeding

LEMMA LinkInboxStep ==
    ASSUME TreeInv, Alone, NEW p \in Procs, LinkInbox(p)
    PROVE  TreeInv'
<1>0. PICK k : k = job[p]
  OBVIOUS
<1>1. pc[p] = "linkInbox" /\ Seeds("linkInbox", k) /\ Active(p)
  BY <1>0, InHand DEF LinkInbox, Step, TreeInv, Seeding, Active
<1>2. /\ k \in SeedJob /\ Live # {} /\ k.root = Root /\ IsEndOf(k.left, k.spine)
      /\ Whole(k, Len(k.spine)) /\ k.found \in Live /\ node[k.found].kind = "inbox"
  BY <1>1 DEF Seeds
<1>3. PICK up, new : up = k.root /\ new = k.found
  OBVIOUS
<1>4. up \in Concepts /\ up \in Live /\ new \in Live /\ new \in Containers /\ new \notin Concepts
  BY <1>2, <1>3 DEF TreeInv, Rooted, Concepts, Containers
<1>5. /\ Goto(p, "embed", k) /\ edges' = edges \cup {<<up, new>>}
      /\ UNCHANGED <<node, summary, vec, body, made, crashes, ops, disturbed>>
  BY <1>0, <1>3, <1>4 DEF LinkInbox, Step
<1>6. /\ Live' = Live /\ Concepts' = Concepts /\ Containers' = Containers
      /\ Root' = Root /\ Inbox' = Inbox
      /\ Children(up)' = Children(up) \cup {new}
      /\ \A n : n # up => Children(n)' = Children(n)
      /\ TreeOK' /\ Rooted' /\ OneInbox' /\ BodiesFollowLeaves' /\ NoGhostTitles'
      /\ LeavesQuoteNothing'
      /\ \A n : Quotes(n) \subseteq Children(n) => Quotes(n)' \subseteq Children(n)'
      /\ \A n : Same(n) => Same(n)'
  BY <1>4, <1>5, ContainerLinked
<1>7. \A n, x : ChildByName(n, x)' = ChildByName(n, x)
  <2>1. \A n : Children(n)' \cap Concepts' = Children(n) \cap Concepts
    BY <1>4, <1>6
  <2> QED BY <1>5, <2>1 DEF ChildByName
<1>8. Whole(k, Len(k.spine))'
  <2>1. Len(k.spine) \in 0..Len(k.spine)
    BY <1>2, SpinesAreNames DEF SeedJob
  <2> QED BY <1>2, <1>6, <1>7, <2>1, ReachedStays DEF TreeInv
<1>9. Inbox # 0
  BY <1>2, InboxIs DEF TreeInv
<1>10. Seeds("embed", k)'
  BY <1>2, <1>6, <1>8, <1>9 DEF Seeds
<1>11. ~disturbed => \A n \in Live' : Quotes(n)' \subseteq Children(n)'
  BY <1>0, <1>1, <1>6, QuotesNow DEF Pending
<1>12. crashes = 0 /\ ~disturbed => \A n \in Containers' : Same(n)'
  BY <1>0, <1>1, <1>6, QuotesNow DEF Pending
<1> QED BY <1>1, <1>5, <1>6, <1>10, <1>11, <1>12, SeedWrites DEF Seeding

-----------------------------------------------------------------------------
(***************************************************************************)
(* Steps of the other operations.                                          *)
(***************************************************************************)
LEMMA LiveAreIds ==
    ASSUME TreeOK
    PROVE  Live \subseteq Ids /\ Live \subseteq Nat \ {0} /\ IsFiniteSet(Live)
<1>1. made \in 0..MaxNodes /\ MaxNodes \in Nat /\ Live \subseteq 1..made
  BY TreeConstants DEF TreeOK
<1>2. made \in Nat /\ made <= MaxNodes
  BY <1>1
<1>3. 1..made \subseteq 1..MaxNodes /\ 1..made \subseteq Nat \ {0}
  BY <1>1, <1>2
<1>4. IsFiniteSet(1..made)
  BY <1>2, FS_Interval
<1> QED BY <1>1, <1>3, <1>4, FS_Subset DEF Ids

\* An unchanged shape: the nodes and what hangs under what.
LEMMA SameShape ==
    ASSUME UNCHANGED <<node, edges>>
    PROVE  /\ Live' = Live /\ Containers' = Containers /\ Documents' = Documents
           /\ Concepts' = Concepts /\ InboxLeaves' = InboxLeaves
           /\ Root' = Root /\ Inbox' = Inbox
           /\ \A n : Children(n)' = Children(n) /\ Parents(n)' = Parents(n)
           /\ \A d : LeavesOf(d)' = LeavesOf(d)
           /\ \A at, j : Works(at, j)' = Works(at, j)
           /\ TreeInv => Rooted' /\ OneInbox'
<1>2. /\ Live' = Live /\ Containers' = Containers /\ Documents' = Documents
      /\ Concepts' = Concepts
  BY DEF Live, Containers, Documents, Concepts
<1>3. \A n : Children(n)' = Children(n) /\ Parents(n)' = Parents(n)
  BY <1>2 DEF Children, Parents
<1>4. InboxLeaves' = InboxLeaves /\ Root' = Root /\ Inbox' = Inbox
  BY <1>2, <1>3 DEF InboxLeaves, Root, FindByName, Inbox
<1>5. \A d : LeavesOf(d)' = LeavesOf(d)
  BY <1>2 DEF LeavesOf
<1>6. \A n : WithoutLeaf(n)' = WithoutLeaf(n)
  BY <1>3 DEF WithoutLeaf
<1>7. \A j : Keeps(j)' = Keeps(j)
  BY <1>3, <1>5 DEF Keeps
<1>8. ASSUME NEW at, NEW j PROVE Works(at, j)' = Works(at, j)
  BY <1>2, <1>3, <1>5, <1>6, <1>7 DEF Works, Kept
<1>9. TreeInv => Rooted' /\ OneInbox'
  BY <1>2, <1>4 DEF TreeInv, Rooted, OneInbox
<1> QED BY <1>2, <1>3, <1>4, <1>5, <1>8, <1>9

\* A reading step.
LEMMA ReadStep ==
    ASSUME TreeInv, NEW p \in Procs, UNCHANGED <<crashes, ops, disturbed>>, UNCHANGED tree,
           NEW w, NEW j, Goto(p, w, j), Stands(w, j), ~disturbed => Settled(w, j),
           Pending(pc[p], job[p]) \subseteq Pending(w, j),
           job[p].op = "garden" /\ Pending(pc[p], job[p]) # {} => j.op = "garden"
    PROVE  TreeInv'
<1>1. /\ crashes' \in 0..MaxCrashes /\ ops' \in 0..MaxOps /\ disturbed' \in BOOLEAN
      /\ (~disturbed' => ~disturbed) /\ (crashes' = 0 => crashes = 0)
  BY DEF TreeInv, TreeOK
<1>2. ~disturbed' /\ job[p].op = "garden" =>
          \A n \in Live \cap Pending(pc[p], job[p]) :
              \/ Quotes(n) \subseteq Children(n)
              \/ j.op = "garden" /\ n \in Pending(w, j)
  OBVIOUS
<1>3. \A n \in Containers \cap Pending(pc[p], job[p]) : Same(n) \/ n \in Pending(w, j)
  OBVIOUS
<1> QED BY <1>1, <1>2, <1>3, QuietStep

\* A step that ends an operation with nothing to be rolled up.
LEMMA EndStep ==
    ASSUME TreeInv, NEW p \in Procs, UNCHANGED tree, Goto(p, "idle", NoJob),
           crashes' \in 0..MaxCrashes, UNCHANGED <<ops, disturbed>>,
           crashes' = 0 => crashes = 0, Pending(pc[p], job[p]) = {}
    PROVE  TreeInv'
<1>1. Stands("idle", NoJob) /\ Settled("idle", NoJob)
  BY AtRest
<1>2. ops' \in 0..MaxOps /\ disturbed' \in BOOLEAN /\ (~disturbed' => ~disturbed)
  BY DEF TreeInv, TreeOK
<1> QED BY <1>1, <1>2, QuietStep

\* Only the vectors change: nothing in a tree's soundness is about them.
LEMMA VectorsOnly ==
    ASSUME TreeInv, UNCHANGED <<node, edges, summary, body, made, crashes, disturbed>>,
           ops' \in 0..MaxOps,
           vec' \in [DOMAIN vec' -> {"curated", "rolled"}], DOMAIN vec' \subseteq Ids
    PROVE  /\ TreeOK' /\ Rooted' /\ OneInbox' /\ BodiesFollowLeaves' /\ NoGhostTitles'
           /\ LeavesQuoteNothing' /\ Live' = Live /\ Containers' = Containers
           /\ \A n : Quotes(n)' = Quotes(n) /\ Children(n)' = Children(n) /\ Same(n)' = Same(n)
<1>1. /\ Live' = Live /\ Containers' = Containers /\ Documents' = Documents
      /\ \A n : Children(n)' = Children(n)
      /\ \A d : LeavesOf(d)' = LeavesOf(d)
      /\ Rooted' /\ OneInbox'
  BY SameShape
<1>2. TreeOK'
  BY <1>1 DEF TreeInv, TreeOK
<1>3. BodiesFollowLeaves' /\ NoGhostTitles' /\ LeavesQuoteNothing'
  BY <1>1 DEF TreeInv, BodiesFollowLeaves, NoGhostTitles, LeavesQuoteNothing
<1>4. \A n : Quotes(n)' = Quotes(n) /\ Same(n)' = Same(n)
  BY <1>1 DEF Quotes, Same
<1> QED BY <1>1, <1>2, <1>3, <1>4

-----------------------------------------------------------------------------
(***************************************************************************)
(* Embedding.                                                              *)
(***************************************************************************)
LEMMA ListMissingStep ==
    ASSUME TreeInv, NEW p \in Procs, ListMissing(p)
    PROVE  TreeInv'
<1>1. PICK j : /\ j = [op |-> "embed", rows |-> [n \in Concepts \ DOMAIN vec |-> Source(n)]]
               /\ Goto(p, "embedding", j)
  BY DEF ListMissing
<1>2. Concepts \subseteq Ids
  BY LiveAreIds DEF Concepts, TreeInv
<1>3. Embeds(j)
  BY <1>1, <1>2 DEF Embeds, Source
<1>4. Stands("embedding", j) /\ Settled("embedding", j)
  BY <1>3 DEF Stands, Settled, Rolling
<1>5. Pending(pc[p], job[p]) = {}
  BY DEF ListMissing, Step, Pending
<1> QED BY <1>1, <1>4, <1>5, ReadStep DEF ListMissing, Step, TreeKept

LEMMA EmbedConceptStep ==
    ASSUME TreeInv, Alone, NEW p \in Procs, EmbedConcept(p)
    PROVE  TreeInv'
<1>0. PICK k : k = job[p]
  OBVIOUS
<1>1. pc[p] = "embedding" /\ Embeds(k) /\ DOMAIN k.rows # {} /\ Active(p)
  BY <1>0, InHand DEF EmbedConcept, Step, TreeInv, Active
<1>2. PICK n : n = Upcoming(k.rows)
  OBVIOUS
<1>3. k \in [op : {"embed"}, rows : {k.rows}] /\ DOMAIN k.rows \subseteq Ids
      /\ k.rows \in [DOMAIN k.rows -> {"curated", "rolled"}]
  BY <1>1 DEF Embeds
<1>4. n \in DOMAIN k.rows
  <2>1. DOMAIN k.rows \subseteq Nat
    BY <1>3 DEF Ids
  <2> QED BY <1>1, <1>2, <2>1, LowestOf DEF Upcoming
<1>5. PICK j : j = [k EXCEPT !.rows = Remaining(@)] /\ Goto(p, "embedding", j)
  BY <1>0 DEF EmbedConcept
<1>6. j.op = "embed" /\ j \in [op : {"embed"}, rows : {j.rows}] /\ j.rows = Remaining(k.rows)
  BY <1>3, <1>5
<1>7. Embeds(j)
  <2>1. j.rows = [m \in DOMAIN k.rows \ {n} |-> k.rows[m]]
    BY <1>2, <1>6 DEF Remaining, Restrict
  <2> QED BY <1>3, <1>6, <2>1 DEF Embeds
<1>8. vec' = With(vec, n, k.rows[n])
  BY <1>0, <1>2 DEF EmbedConcept
<1>9. vec' \in [DOMAIN vec' -> {"curated", "rolled"}] /\ DOMAIN vec' \subseteq Ids
  BY <1>3, <1>4, <1>8 DEF With, TreeInv, TreeOK
<1>10. /\ UNCHANGED <<node, edges, summary, body, made, crashes, disturbed>>
       /\ ops' \in 0..MaxOps
  BY DEF EmbedConcept, Step, TreeInv, TreeOK
<1>11. /\ TreeOK' /\ Rooted' /\ OneInbox' /\ BodiesFollowLeaves' /\ NoGhostTitles'
       /\ LeavesQuoteNothing' /\ Live' = Live /\ Containers' = Containers
       /\ \A m : Quotes(m)' = Quotes(m) /\ Children(m)' = Children(m) /\ Same(m)' = Same(m)
  BY <1>9, <1>10, VectorsOnly
<1>12. Stands("embedding", j)' /\ Settled("embedding", j)'
  BY <1>7 DEF Stands, Embeds, Settled, Rolling
<1>13. Pending(pc[p], job[p]) = {}
  BY <1>1 DEF Pending
<1>14. ~disturbed' => \A m \in Live' : Quotes(m)' \subseteq Children(m)'
  BY <1>1, <1>10, <1>11, <1>13, QuotesNow
<1>15. ~disturbed' /\ crashes' = 0 => \A m \in Containers' : Same(m)'
  BY <1>1, <1>10, <1>11, <1>13, QuotesNow
<1> QED BY <1>1, <1>5, <1>11, <1>12, <1>14, <1>15, WriteStep

LEMMA EmbedDoneStep ==
    ASSUME TreeInv, NEW p \in Procs, EmbedDone(p)
    PROVE  TreeInv'
<1>1. Pending(pc[p], job[p]) = {}
  BY DEF EmbedDone, Step, Pending
<1> QED BY <1>1, EndStep DEF EmbedDone, Step, Finish, TreeKept, TreeInv, TreeOK

LEMMA EmbedFailsStep ==
    ASSUME TreeInv, NEW p \in Procs, EmbedFails(p)
    PROVE  TreeInv'
<1>1. Pending(pc[p], job[p]) = {}
  BY DEF EmbedFails, Pending
<1>2. crashes' \in 0..MaxCrashes /\ (crashes' = 0 => crashes = 0)
  <2>1. crashes \in 0..MaxCrashes /\ crashes < MaxCrashes /\ MaxCrashes \in Nat
        /\ crashes' = crashes + 1
    BY TreeConstants DEF EmbedFails, TreeInv, TreeOK
  <2> QED BY <2>1
<1> QED BY <1>1, <1>2, EndStep DEF EmbedFails, Finish, TreeKept

-----------------------------------------------------------------------------
(***************************************************************************)
(* Rolling up.                                                             *)
(***************************************************************************)
\* What every process at work has in hand.
LEMMA WorkIs ==
    ASSUME NEW at, NEW j, Works(at, j)
    PROVE  /\ j \in Shape(j) /\ j.op \in {"replace", "forget", "garden"}
           /\ j.starts \in Seq(Nat) /\ j.touched \in Seq(Nat) /\ j.sweep \subseteq Nat \X Nat
           /\ j.todo \subseteq Nat /\ j.cur \in Nat /\ j.keep \in Nat
           /\ ToSet(j.starts) \subseteq Containers /\ Firsts(j.sweep) \subseteq Containers
           /\ ToSet(j.touched) \subseteq Containers
BY DEF Works, Shape

\* A sequence is its head and the rest.
LEMMA FirstAndRest ==
    ASSUME NEW N, NEW s \in Seq(N), s # <<>>
    PROVE  /\ Head(s) \in ToSet(s) /\ Tail(s) \in Seq(N)
           /\ ToSet(s) = {Head(s)} \cup ToSet(Tail(s))
<1>1. Len(s) \in Nat \ {0} /\ Head(s) = s[1] /\ Tail(s) \in Seq(N)
      /\ Len(Tail(s)) = Len(s) - 1 /\ \A i \in 1..Len(s) - 1 : Tail(s)[i] = s[i + 1]
  <2>1. Len(s) \in Nat /\ Len(s) >= 1
    OBVIOUS
  <2>2. /\ Tail(s) \in Seq(N) /\ Len(Tail(s)) = Len(s) - 1
        /\ \A i \in 1..Len(s) - 1 : Tail(s)[i] = s[i + 1]
    BY <2>1
  <2>3. Head(s) = s[1]
    BY <2>1
  <2>4. Len(s) \in Nat \ {0}
    BY <2>1
  <2> QED BY <2>2, <2>3, <2>4, Zenon
<1>2. ToSet(s) = {s[i] : i \in 1..Len(s)} /\ ToSet(Tail(s)) = {Tail(s)[i] : i \in 1..Len(s) - 1}
  <2>1. DOMAIN s = 1..Len(s)
    OBVIOUS
  <2>2. DOMAIN Tail(s) = 1..Len(s) - 1
    <3>1. PICK t \in Seq(N) : t = Tail(s)
      BY <1>1
    <3>2. DOMAIN t = 1..Len(t) /\ Len(t) = Len(s) - 1
      BY <1>1, <3>1
    <3> QED BY <3>1, <3>2
  <2> QED BY <2>1, <2>2 DEF ToSet
<1>3. Head(s) \in ToSet(s)
  BY <1>1, <1>2
<1>4. ASSUME NEW x \in ToSet(s) PROVE x = Head(s) \/ x \in ToSet(Tail(s))
  <2>1. PICK i \in 1..Len(s) : x = s[i]
    BY <1>2
  <2>2. CASE i = 1
    BY <1>1, <2>1, <2>2
  <2>3. CASE i # 1
    <3>1. i - 1 \in 1..Len(s) - 1 /\ (i - 1) + 1 = i
      BY <1>1, <2>3
    <3>2. Tail(s)[i - 1] = x
      BY <1>1, <2>1, <3>1
    <3> QED BY <1>2, <3>1, <3>2
  <2> QED BY <2>2, <2>3
<1>5. ASSUME NEW x \in ToSet(Tail(s)) PROVE x \in ToSet(s)
  <2>1. PICK i \in 1..Len(s) - 1 : x = s[i + 1]
    BY <1>1, <1>2
  <2>2. i + 1 \in 1..Len(s)
    BY <1>1
  <2> QED BY <1>2, <2>1, <2>2
<1> QED BY <1>1, <1>3, <1>4, <1>5

LEMMA NothingIn == ToSet(<<>>) = {} /\ Firsts({}) = {}
BY DEF ToSet, Firsts

LEMMA RollNextStep ==
    ASSUME TreeInv, NEW p \in Procs, RollNext(p)
    PROVE  TreeInv'
<1>0. PICK k : k = job[p]
  OBVIOUS
<1>1. pc[p] = "roll" /\ Works("roll", k) /\ k.sweep = {} /\ (~disturbed => Settled("roll", k))
      /\ UNCHANGED <<crashes, ops, disturbed>> /\ UNCHANGED tree
  BY <1>0, InHand DEF RollNext, Step, TreeInv, Rolling, TreeKept
<1>2. /\ k \in Shape(k) /\ k.op \in {"replace", "forget", "garden"}
      /\ k.starts \in Seq(Nat) /\ ToSet(k.starts) \subseteq Containers
  BY <1>1, WorkIs
<1>3. Pending("roll", k) = ToSet(k.starts) \cup Firsts(k.sweep)
  BY DEF Pending
<1>4. CASE k.starts = <<>>
  <2>1. Goto(p, k.after, k) /\ k.after \in {"list", "dropBody", "done"}
    BY <1>0, <1>1, <1>2, <1>4 DEF RollNext, Shape
  <2>2. Pending(pc[p], job[p]) = {}
    BY <1>0, <1>1, <1>3, <1>4, NothingIn
  <2>3. /\ k.after = "list" => k.op = "replace"
        /\ k.after = "dropBody" <=> k.op = "forget"
        /\ (k.after # "list" /\ k.op # "garden") => LeavesOf(k.doc) = Kept(k)
    BY <1>1, <2>1 DEF Works, Rolling
  <2>4. Works(k.after, k)
    BY <1>1, <2>1, <2>3 DEF Works, Rolling, Tending
  <2>5. Stands(k.after, k)
    BY <2>1, <2>4 DEF Stands, Pruning
  <2>6. ~disturbed => Settled(k.after, k)
    BY <1>1, <2>1, <2>3 DEF Settled, Rolling
  <2> QED BY <1>1, <2>1, <2>2, <2>5, <2>6, ReadStep
<1>5. CASE k.starts # <<>>
  <2>1. PICK start, j : /\ start = Head(k.starts)
                        /\ j = [k EXCEPT !.sweep = RollUp(start), !.starts = Tail(@)]
                        /\ Goto(p, "roll", j)
    BY <1>0, <1>5 DEF RollNext
  <2>2. /\ start \in Containers /\ Tail(k.starts) \in Seq(Nat)
        /\ ToSet(k.starts) = {start} \cup ToSet(Tail(k.starts))
    BY <1>2, <1>5, <2>1, FirstAndRest
  <2>3. /\ start \in Firsts(RollUp(start)) /\ Firsts(RollUp(start)) \subseteq Containers
        /\ RollUp(start) \subseteq Nat \X Nat
    BY <2>2, RollUpOK DEF TreeInv
  <2>4. /\ j.sweep = RollUp(start) /\ j.starts = Tail(k.starts) /\ j \in Shape(j)
        /\ j.op = k.op /\ j.doc = k.doc /\ j.text = k.text /\ j.keep = k.keep
        /\ j.after = k.after /\ j.touched = k.touched /\ j.cur = k.cur /\ j.rows = k.rows
    BY <1>2, <2>1, <2>2, <2>3 DEF Shape
  <2>5. Works("roll", j)
    BY <1>1, <1>2, <2>2, <2>3, <2>4 DEF Works, Keeps, Kept, Rolling, Pruning, Tending
  <2>6. Stands("roll", j)
    BY <2>5 DEF Stands, Rolling
  <2>7. ~disturbed => Settled("roll", j)
    BY <1>1, <2>4 DEF Settled, Rolling
  <2>8. Pending("roll", j) = ToSet(Tail(k.starts)) \cup Firsts(RollUp(start))
    BY <2>4 DEF Pending
  <2>9. Pending(pc[p], job[p]) \subseteq Pending("roll", j)
    BY <1>0, <1>1, <1>3, <2>2, <2>3, <2>8, NothingIn
  <2> QED BY <1>0, <1>1, <2>1, <2>4, <2>6, <2>7, <2>9, ReadStep
<1> QED BY <1>4, <1>5

LEMMA ReadChildrenStep ==
    ASSUME TreeInv, NEW p \in Procs, ReadChildren(p)
    PROVE  TreeInv'
<1>0. PICK k : k = job[p]
  OBVIOUS
<1>1. pc[p] = "roll" /\ Works("roll", k) /\ (~disturbed => Settled("roll", k))
      /\ UNCHANGED <<crashes, ops, disturbed>> /\ UNCHANGED tree
  BY <1>0, InHand DEF ReadChildren, Step, TreeInv, Rolling, TreeKept
<1>2. /\ k \in Shape(k) /\ k.sweep \subseteq Nat \X Nat
      /\ ToSet(k.starts) \subseteq Containers /\ Firsts(k.sweep) \subseteq Containers
  BY <1>1, WorkIs
<1>3. PICK x \in k.sweep :
         Goto(p, "sum", [k EXCEPT !.sweep = @ \ {x}, !.cur = x[1],
                                  !.sums = [n \in {x[1]} |-> Children(n)]])
  BY <1>0 DEF ReadChildren, Nearest
<1>4. PICK n, j : /\ n = x[1] /\ Goto(p, "sum", j)
                  /\ j = [k EXCEPT !.sweep = @ \ {x}, !.cur = n,
                                   !.sums = [m \in {n} |-> Children(m)]]
  BY <1>3
<1>5. n \in Containers /\ n \in Nat
  BY <1>2, <1>4 DEF Firsts
<1>6. /\ j.sweep = k.sweep \ {x} /\ j.starts = k.starts /\ j \in Shape(j) /\ j.cur = n
      /\ j.sums = [m \in {n} |-> Children(n)]
      /\ j.op = k.op /\ j.doc = k.doc /\ j.text = k.text /\ j.keep = k.keep
      /\ j.after = k.after /\ j.touched = k.touched /\ j.rows = k.rows
  BY <1>2, <1>4, <1>5 DEF Shape
<1>7. Firsts(j.sweep) \subseteq Firsts(k.sweep) /\ Firsts(k.sweep) \subseteq Firsts(j.sweep) \cup {n}
  BY <1>4, <1>6 DEF Firsts
<1>8. Works("sum", j)
  BY <1>1, <1>2, <1>5, <1>6, <1>7 DEF Works, Keeps, Kept, Rolling, Pruning, Tending
<1>9. Stands("sum", j)
  BY <1>8 DEF Stands, Rolling
<1>10. ~disturbed => Settled("sum", j)
  BY <1>1, <1>6 DEF Settled, Rolling
<1>11. Pending("roll", k) = ToSet(k.starts) \cup Firsts(k.sweep)
  BY DEF Pending
<1>12. Pending("sum", j) = ToSet(j.starts) \cup Firsts(j.sweep) \cup {n}
  BY <1>6 DEF Pending
<1>13. Pending(pc[p], job[p]) \subseteq Pending("sum", j)
  BY <1>0, <1>1, <1>6, <1>7, <1>11, <1>12
<1> QED BY <1>0, <1>1, <1>4, <1>6, <1>9, <1>10, <1>13, ReadStep

-----------------------------------------------------------------------------
(***************************************************************************)
(* Documents: the steps that read.                                         *)
(***************************************************************************)
\* An operation begins.
LEMMA BeginStep ==
    ASSUME TreeInv, NEW p \in Procs, NEW w, NEW j, Begin(p, w, j), Stands(w, j), Settled(w, j)
    PROVE  TreeInv'
<1>1. Goto(p, w, j) /\ UNCHANGED tree /\ UNCHANGED crashes /\ pc[p] = "idle"
      /\ (~disturbed' => ~disturbed) /\ disturbed' \in BOOLEAN
  BY DEF Begin, TreeKept, Idle, Overlaps, TreeInv, TreeOK
<1>2. ops' \in 0..MaxOps
  <2>1. ops \in 0..MaxOps /\ ops < MaxOps /\ MaxOps \in Nat /\ ops' = ops + 1
    BY TreeConstants DEF Begin, TreeInv, TreeOK
  <2> QED BY <2>1
<1>3. Pending(pc[p], job[p]) = {}
  BY <1>1 DEF Pending
<1>4. crashes' \in 0..MaxCrashes /\ (crashes' = 0 => crashes = 0)
  BY <1>1 DEF TreeInv, TreeOK
<1> QED BY <1>1, <1>2, <1>3, <1>4, QuietStep

LEMMA NewTaskIs ==
    /\ NewTask \in Shape(NewTask) \cup [op : {"none"}, doc : {None}, text : {None},
          parent : {0}, keep : {0}, cur : {0}, todo : {{}}, rows : {<<>>}, touched : {<<>>},
          starts : {<<>>}, sweep : {{}}, sums : {<<>>}, after : {"done"}]
    /\ ToSet(<<>>) = {} /\ Firsts({}) = {} /\ <<>> \in Seq(Nat)
BY NothingIn DEF NewTask

LEMMA ReplaceStep ==
    ASSUME TreeInv, NEW p \in Procs, NEW d \in Docs, NEW t \in Texts, Replace(p, d, t)
    PROVE  TreeInv'
<1>1. PICK j : /\ j = [NewTask EXCEPT !.op = "replace", !.doc = d, !.text = t]
               /\ Begin(p, "target", j)
  BY DEF Replace
<1>2. /\ j.op = "replace" /\ j.doc = d /\ j.text = t /\ j.parent = 0 /\ j.keep = 0 /\ j.cur = 0
      /\ j.todo = {} /\ j.touched = <<>> /\ j.starts = <<>> /\ j.sweep = {} /\ j.after = "done"
      /\ j \in Shape(j)
  BY <1>1, NewTaskIs DEF NewTask, Shape
<1>3. Works("target", j)
  BY <1>2, NewTaskIs DEF Works, Tending, Rolling, Pruning
<1>4. Stands("target", j) /\ Settled("target", j)
  BY <1>3 DEF Stands, Settled, Rolling
<1> QED BY <1>1, <1>4, BeginStep

LEMMA ForgetStep ==
    ASSUME TreeInv, NEW p \in Procs, NEW d \in Docs, Forget(p, d)
    PROVE  TreeInv'
<1>1. PICK j : /\ j = [NewTask EXCEPT !.op = "forget", !.doc = d, !.after = "dropBody"]
               /\ Begin(p, "list", j)
  BY DEF Forget
<1>2. /\ j.op = "forget" /\ j.doc = d /\ j.parent = 0 /\ j.keep = 0 /\ j.cur = 0
      /\ j.todo = {} /\ j.touched = <<>> /\ j.starts = <<>> /\ j.sweep = {}
      /\ j \in Shape(j)
  BY <1>1, NewTaskIs DEF NewTask, Shape
<1>3. Works("list", j)
  BY <1>2, NewTaskIs DEF Works, Tending, Rolling, Pruning, Keeps
<1>4. Stands("list", j) /\ Settled("list", j)
  BY <1>3 DEF Stands, Settled, Rolling, Pruning
<1> QED BY <1>1, <1>4, BeginStep

LEMMA GardenStep ==
    ASSUME TreeInv, NEW p \in Procs, Garden(p)
    PROVE  TreeInv'
<1>1. PICK j : j = [NewTask EXCEPT !.op = "garden"] /\ Begin(p, "gardenList", j)
  BY DEF Garden
<1>2. /\ j.op = "garden" /\ j.parent = 0 /\ j.keep = 0 /\ j.cur = 0
      /\ j.todo = {} /\ j.touched = <<>> /\ j.starts = <<>> /\ j.sweep = {}
      /\ j \in Shape(j)
  BY <1>1, NewTaskIs DEF NewTask, Shape
<1>3. Works("gardenList", j)
  BY <1>2, NewTaskIs DEF Works, Tending, Rolling, Pruning, Keeps
<1>4. Stands("gardenList", j) /\ Settled("gardenList", j)
  BY <1>3 DEF Stands, Settled, Rolling, Tending
<1> QED BY <1>1, <1>4, BeginStep

\* Where placement may send a text.
LEMMA TargetIs ==
    ASSUME TreeOK, NEW x, NEW t \in Target(x)
    PROVE  /\ t # 0 => t \in Concepts /\ t \in Nat
           /\ t = 0 => Target(x) = {0}
<1>1. 0 \notin Concepts /\ Concepts \subseteq Nat
  BY DEF Concepts, TreeOK
<1>2. Candidates(x) \subseteq Concepts
  BY DEF Candidates
<1> QED BY <1>1, <1>2 DEF Target

LEMMA FindTargetStep ==
    ASSUME TreeInv, NEW p \in Procs, FindTarget(p)
    PROVE  TreeInv'
<1>0. PICK k : k = job[p]
  OBVIOUS
<1>1. pc[p] = "target" /\ Works("target", k) /\ Pending(pc[p], job[p]) = {}
      /\ UNCHANGED <<crashes, ops, disturbed>> /\ UNCHANGED tree
  BY <1>0, InHand DEF FindTarget, Step, TreeInv, TreeKept, Pending
<1>2. k \in Shape(k)
  BY <1>1, WorkIs
<1>3. PICK parent : /\ \E t \in Target(k.text) : parent = IF t = 0 THEN Inbox ELSE t
                    /\ IF parent = 0 THEN Finish(p)
                                     ELSE Goto(p, "file", [k EXCEPT !.parent = parent])
  BY <1>0 DEF FindTarget
<1>4. CASE parent = 0
  BY <1>1, <1>3, <1>4, EndStep DEF Finish, TreeInv, TreeOK
<1>5. CASE parent # 0
  <2>1. PICK j : j = [k EXCEPT !.parent = parent] /\ Goto(p, "file", j)
    BY <1>3, <1>5
  <2>2. parent \in Containers /\ parent \in Nat
    BY <1>3, <1>5, TargetIs, InboxIs DEF Containers, Concepts, TreeInv
  <2>3. /\ j.sweep = k.sweep /\ j.starts = k.starts /\ j \in Shape(j) /\ j.parent = parent
        /\ j.op = k.op /\ j.doc = k.doc /\ j.text = k.text /\ j.keep = k.keep
        /\ j.after = k.after /\ j.touched = k.touched /\ j.rows = k.rows
    BY <1>2, <2>1, <2>2 DEF Shape
  <2>4. Works("file", j)
    BY <1>1, <2>2, <2>3 DEF Works, Tending, Rolling, Pruning
  <2>5. Stands("file", j) /\ Settled("file", j)
    BY <2>4 DEF Stands, Settled, Rolling
  <2> QED BY <1>1, <2>1, <2>5, ReadStep
<1> QED BY <1>4, <1>5

LEMMA ListLeavesStep ==
    ASSUME TreeInv, NEW p \in Procs, ListLeaves(p)
    PROVE  TreeInv'
<1>0. PICK k : k = job[p]
  OBVIOUS
<1>1. pc[p] = "list" /\ Works("list", k) /\ Pending(pc[p], job[p]) = {}
      /\ UNCHANGED <<crashes, ops, disturbed>> /\ UNCHANGED tree
  BY <1>0, InHand DEF ListLeaves, Step, TreeInv, TreeKept, Pending, Pruning
<1>2. k \in Shape(k)
  BY <1>1, WorkIs
<1>3. PICK j : /\ j = [k EXCEPT !.todo = LeavesOf(k.doc) \ {k.keep},
                                !.after = IF k.op = "forget" THEN "dropBody" ELSE "done"]
               /\ Goto(p, "prune", j)
  BY <1>0 DEF ListLeaves, OldLeaves
<1>4. LeavesOf(k.doc) \subseteq Nat \ {0}
  BY DEF LeavesOf, TreeInv, TreeOK
<1>5. /\ j.sweep = k.sweep /\ j.starts = k.starts /\ j \in Shape(j)
      /\ j.op = k.op /\ j.doc = k.doc /\ j.text = k.text /\ j.keep = k.keep
      /\ j.touched = k.touched /\ j.rows = k.rows /\ j.todo = LeavesOf(k.doc) \ {k.keep}
      /\ j.after = IF k.op = "forget" THEN "dropBody" ELSE "done"
  BY <1>2, <1>3, <1>4 DEF Shape
<1>6. LeavesOf(k.doc) = j.todo \cup Kept(j) /\ j.keep \notin j.todo
  <2>1. k.op \in {"replace", "forget"} /\ Keeps(k) /\ (k.op = "forget" => k.keep = 0)
    <3>1. Keeps(k) /\ (k.op = "forget" => k.keep = 0)
      BY <1>1 DEF Works
    <3>2. k.op # "garden"
      BY <1>1 DEF Works, Tending, Rolling
    <3>3. k.op \in {"replace", "forget", "garden"}
      BY <1>1, WorkIs
    <3> QED BY <3>1, <3>2, <3>3
  <2>2. k.keep \in LeavesOf(k.doc) \/ (k.op = "forget" /\ k.keep \notin LeavesOf(k.doc))
    <3>1. CASE k.op = "replace"
      BY <2>1, <3>1 DEF Keeps
    <3>2. CASE k.op = "forget"
      <4>1. k.keep = 0
        BY <2>1, <3>2
      <4> QED BY <1>4, <3>2, <4>1
    <3> QED BY <2>1, <3>1, <3>2
  <2>3. Kept(j) = IF k.op = "replace" THEN {k.keep} ELSE {}
    BY <1>5 DEF Kept
  <2>4. j.keep \notin j.todo
    BY <1>5
  <2>5. CASE k.op = "replace"
    BY <1>5, <2>2, <2>3, <2>4, <2>5
  <2>6. CASE k.op = "forget"
    <3>1. k.keep \notin LeavesOf(k.doc)
      BY <1>4, <2>1, <2>6
    <3> QED BY <1>5, <2>3, <2>4, <2>6, <3>1
  <2> QED BY <2>1, <2>5, <2>6
<1>7. Works("prune", j)
  BY <1>1, <1>5, <1>6 DEF Works, Tending, Rolling, Pruning, Keeps
<1>8. Stands("prune", j) /\ Settled("prune", j)
  BY <1>7 DEF Stands, Settled, Rolling, Pruning
<1> QED BY <1>1, <1>3, <1>8, ReadStep

\* A finite set taken as a sequence has members of the set.
LEMMA SequenceOf ==
    ASSUME NEW S, S \subseteq Nat, IsFiniteSet(S)
    PROVE  SetToSeq(S) \in Seq(Nat) /\ ToSet(SetToSeq(S)) \subseteq S
<1> DEFINE n == Cardinality(S)
<1>1. n \in Nat /\ ExistsBijection(1..n, S)
  BY FS_CardinalityType
<1>2. PICK f : f \in [1..n -> S] /\ IsInjective(f)
  BY <1>1 DEF ExistsBijection, Bijection, Injection, IsInjective
<1>3. SetToSeq(S) \in [1..n -> S]
  BY <1>2 DEF SetToSeq
<1> HIDE DEF n
<1>4. PICK g : g = SetToSeq(S)
  OBVIOUS
<1>5. g \in [1..n -> S] /\ g \in Seq(Nat)
  <2>1. g \in [1..n -> S]
    BY <1>3, <1>4
  <2>2. g \in [1..n -> Nat]
    BY <2>1
  <2> QED BY <1>1, <2>1, <2>2, SeqDef
<1>6. ToSet(g) \subseteq S
  BY <1>5 DEF ToSet
<1> QED BY <1>4, <1>5, <1>6

\* Two sequences put together have the members of both.
LEMMA Together ==
    ASSUME NEW N, NEW s \in Seq(N), NEW t \in Seq(N)
    PROVE  s \o t \in Seq(N) /\ ToSet(s \o t) = ToSet(s) \cup ToSet(t)
<1>1. /\ Len(s) \in Nat /\ Len(t) \in Nat /\ s \o t \in Seq(N)
      /\ Len(s \o t) = Len(s) + Len(t)
      /\ \A i \in 1..Len(s) : (s \o t)[i] = s[i]
      /\ \A i \in 1..Len(t) : (s \o t)[Len(s) + i] = t[i]
  OBVIOUS
<1>2. /\ DOMAIN s = 1..Len(s) /\ DOMAIN t = 1..Len(t)
      /\ DOMAIN (s \o t) = 1..Len(s) + Len(t)
  OBVIOUS
<1>3. ASSUME NEW i \in 1..Len(s) + Len(t) PROVE (s \o t)[i] \in ToSet(s) \cup ToSet(t)
  <2>1. CASE i <= Len(s)
    BY <1>1, <1>2, <2>1 DEF ToSet
  <2>2. CASE i > Len(s)
    <3>1. i - Len(s) \in 1..Len(t) /\ Len(s) + (i - Len(s)) = i
      BY <1>1, <2>2
    <3>2. (s \o t)[i] = t[i - Len(s)]
      BY <1>1, <3>1
    <3> QED BY <1>2, <3>1, <3>2 DEF ToSet
  <2> QED BY <1>1, <2>1, <2>2
<1>4. ToSet(s \o t) \subseteq ToSet(s) \cup ToSet(t)
  BY <1>2, <1>3 DEF ToSet
<1>5. ASSUME NEW i \in 1..Len(s) PROVE s[i] \in ToSet(s \o t)
  <2>1. i \in 1..Len(s) + Len(t)
    BY <1>1
  <2> QED BY <1>1, <1>2, <2>1 DEF ToSet
<1>6. ASSUME NEW i \in 1..Len(t) PROVE t[i] \in ToSet(s \o t)
  <2>1. Len(s) + i \in 1..Len(s) + Len(t)
    BY <1>1
  <2> QED BY <1>1, <1>2, <2>1 DEF ToSet
<1>7. ToSet(s) \cup ToSet(t) \subseteq ToSet(s \o t)
  BY <1>2, <1>5, <1>6 DEF ToSet
<1> QED BY <1>1, <1>4, <1>7

LEMMA PruneNextStep ==
    ASSUME TreeInv, NEW p \in Procs, PruneNext(p)
    PROVE  TreeInv'
<1>0. PICK k : k = job[p]
  OBVIOUS
<1>1. pc[p] = "prune" /\ Works("prune", k) /\ Pending(pc[p], job[p]) = {}
      /\ UNCHANGED <<crashes, ops, disturbed>> /\ UNCHANGED tree
  BY <1>0, InHand DEF PruneNext, Step, TreeInv, TreeKept, Pending, Pruning
<1>2. k \in Shape(k) /\ k.todo \subseteq Nat /\ ToSet(k.touched) \subseteq Containers
      /\ k.op \in {"replace", "forget"}
  BY <1>1, WorkIs DEF Works, Tending, Rolling
<1>3. LeavesOf(k.doc) = k.todo \cup Kept(k) /\ k.keep \notin k.todo
      /\ k.after = (IF k.op = "forget" THEN "dropBody" ELSE "done")
  BY <1>1 DEF Works
<1>4. CASE k.todo = {}
  <2>1. PICK j : j = [k EXCEPT !.starts = k.touched] /\ Goto(p, "roll", j)
    BY <1>0, <1>4 DEF PruneNext
  <2>2. /\ j.sweep = k.sweep /\ j.starts = k.touched /\ j \in Shape(j) /\ j.after = k.after
        /\ j.op = k.op /\ j.doc = k.doc /\ j.text = k.text /\ j.keep = k.keep
        /\ j.touched = k.touched /\ j.rows = k.rows
    BY <1>2, <2>1 DEF Shape
  <2>3. LeavesOf(j.doc) = Kept(j)
    BY <1>3, <1>4, <2>2 DEF Kept
  <2>4. Works("roll", j)
    BY <1>1, <1>2, <1>3, <2>2, <2>3 DEF Works, Tending, Rolling, Pruning, Keeps
  <2>5. Stands("roll", j) /\ Settled("roll", j)
    BY <1>2, <2>2, <2>4 DEF Stands, Settled, Rolling
  <2> QED BY <1>1, <2>1, <2>5, ReadStep
<1>5. CASE k.todo # {}
  <2>1. PICK leaf, new, j :
           /\ leaf = Lowest(k.todo) /\ new = SetToSeq(Parents(leaf) \ ToSet(k.touched))
           /\ j = [k EXCEPT !.todo = @ \ {leaf}, !.cur = leaf, !.sums = WithoutLeaf(leaf),
                            !.touched = @ \o new]
           /\ Goto(p, "delete", j)
    BY <1>0, <1>5 DEF PruneNext
  <2>2. leaf \in k.todo /\ leaf \in Nat
    BY <1>2, <1>5, <2>1, LowestOf
  <2>3. new \in Seq(Nat) /\ ToSet(new) \subseteq Containers
    <3> DEFINE S == Parents(leaf) \ ToSet(k.touched)
    <3>1. S \subseteq Containers /\ S \subseteq Live
      BY DEF Parents, TreeInv, TreeOK
    <3>2. S \subseteq Nat /\ IsFiniteSet(S)
      BY <3>1, LiveAreIds, FS_Subset DEF TreeInv
    <3> HIDE DEF S
    <3>3. SetToSeq(S) \in Seq(Nat) /\ ToSet(SetToSeq(S)) \subseteq S
      BY <3>2, SequenceOf
    <3> QED BY <2>1, <3>1, <3>3 DEF S
  <2>4. k.touched \in Seq(Nat)
    BY <1>1, WorkIs
  <2>5. k.touched \o new \in Seq(Nat) /\ ToSet(k.touched \o new) \subseteq Containers
    <3>1. PICK s \in Seq(Nat) : s = k.touched
      BY <2>4
    <3>2. s \o new \in Seq(Nat) /\ ToSet(s \o new) = ToSet(s) \cup ToSet(new)
      BY <2>3, Together
    <3> QED BY <1>2, <2>3, <3>1, <3>2
  <2>6. /\ j.sweep = k.sweep /\ j.starts = k.starts /\ j \in Shape(j) /\ j.after = k.after
        /\ j.op = k.op /\ j.doc = k.doc /\ j.text = k.text /\ j.keep = k.keep
        /\ j.touched = k.touched \o new /\ j.rows = k.rows /\ j.cur = leaf
        /\ j.sums = WithoutLeaf(leaf) /\ j.todo = k.todo \ {leaf}
    BY <1>2, <2>1, <2>2, <2>5 DEF Shape
  <2>7. /\ LeavesOf(j.doc) = j.todo \cup Kept(j) \cup {j.cur}
        /\ j.cur \notin j.todo \cup Kept(j) /\ j.keep \notin j.todo
    BY <1>3, <2>2, <2>6 DEF Kept
  <2>8. Works("delete", j)
    BY <1>1, <1>2, <1>3, <2>5, <2>6, <2>7 DEF Works, Tending, Rolling, Pruning, Keeps
  <2>9. Stands("delete", j) /\ Settled("delete", j)
    BY <2>8 DEF Stands, Settled, Rolling, Pruning
  <2> QED BY <1>1, <2>1, <2>9, ReadStep
<1> QED BY <1>4, <1>5

\* The last leaf has taken the body with it: dropping it again changes nothing.
LEMMA DropBodyStep ==
    ASSUME TreeInv, NEW p \in Procs, DropBody(p)
    PROVE  TreeInv'
<1>0. PICK k : k = job[p]
  OBVIOUS
<1>1. pc[p] = "dropBody" /\ Works("dropBody", k) /\ Pending(pc[p], job[p]) = {}
      /\ UNCHANGED <<crashes, ops, disturbed>> /\ Goto(p, "done", k)
      /\ body' = [body EXCEPT ![k.doc] = None] /\ UNCHANGED <<node, edges, summary, vec, made>>
  BY <1>0, InHand DEF DropBody, Step, TreeInv, Pending
<1>2. k.op = "forget" /\ k.doc \in Docs /\ LeavesOf(k.doc) = {}
  BY <1>1 DEF Works, Kept, Rolling
<1>3. body[k.doc] = None /\ body = [d \in Docs |-> body[d]]
  BY <1>2 DEF TreeInv, TreeOK, BodiesFollowLeaves
<1>4. body' = body
  BY <1>1, <1>3
<1>5. UNCHANGED tree
  BY <1>1, <1>4 DEF tree
<1>6. Works("done", k)
  BY <1>1, <1>2 DEF Works, Tending, Rolling, Pruning, Kept
<1>7. Stands("done", k) /\ Settled("done", k)
  BY <1>2, <1>6 DEF Stands, Settled
<1> QED BY <1>1, <1>5, <1>7, ReadStep

LEMMA DoneStep ==
    ASSUME TreeInv, NEW p \in Procs, Done(p)
    PROVE  TreeInv'
<1>1. Pending(pc[p], job[p]) = {}
  BY DEF Done, Step, Pending
<1> QED BY <1>1, EndStep DEF Done, Step, Finish, TreeKept, TreeInv, TreeOK

-----------------------------------------------------------------------------
(***************************************************************************)
(* The gardener's reads, crashes and closings.                             *)
(***************************************************************************)
LEMMA GardenListStep ==
    ASSUME TreeInv, NEW p \in Procs, GardenList(p)
    PROVE  TreeInv'
<1>0. PICK k : k = job[p]
  OBVIOUS
<1>1. pc[p] = "gardenList" /\ Works("gardenList", k) /\ Pending(pc[p], job[p]) = {}
      /\ UNCHANGED <<crashes, ops, disturbed>> /\ UNCHANGED tree
  BY <1>0, InHand DEF GardenList, Step, TreeInv, TreeKept, Pending, Tending
<1>2. k \in Shape(k) /\ k.op = "garden"
  BY <1>1, WorkIs DEF Works, Tending, Rolling
<1>3. CASE Inbox = 0
  BY <1>1, <1>3, EndStep DEF GardenList, Finish, TreeInv, TreeOK
<1>4. CASE Inbox # 0
  <2>1. PICK rows, j : /\ rows = [n \in InboxLeaves |-> node[n].name]
                       /\ j = [k EXCEPT !.cur = Inbox, !.rows = rows]
                       /\ Goto(p, "gardenNext", j)
    BY <1>0, <1>4 DEF GardenList
  <2>2. Inbox \in Live /\ node[Inbox].kind = "inbox" /\ Inbox \in Nat
    BY <1>4, InboxIs DEF TreeInv
  <2>3. /\ j.sweep = k.sweep /\ j.starts = k.starts /\ j \in Shape(j) /\ j.cur = Inbox
        /\ j.op = k.op /\ j.doc = k.doc /\ j.text = k.text /\ j.keep = k.keep
        /\ j.touched = k.touched /\ j.rows = rows /\ j.after = k.after
    BY <1>2, <2>1, <2>2 DEF Shape
  <2>4. DOMAIN rows = InboxLeaves /\ InboxLeaves \subseteq Documents
        /\ \A n \in DOMAIN rows : rows[n] = node[n].name
    BY <2>1 DEF InboxLeaves, Documents
  <2>5. Works("gardenNext", j)
    BY <1>1, <1>2, <2>2, <2>3, <2>4 DEF Works, Keeps, Tending, Rolling, Pruning
  <2>6. Stands("gardenNext", j) /\ Settled("gardenNext", j)
    BY <2>3, <2>4, <2>5 DEF Stands, Settled, Rolling, Tending
  <2> QED BY <1>1, <2>1, <2>6, ReadStep
<1> QED BY <1>3, <1>4

\* The row a gardener takes next.
LEMMA NextRow ==
    ASSUME TreeOK, NEW rows, DOMAIN rows \subseteq Documents, DOMAIN rows # {}
    PROVE  /\ Upcoming(rows) \in DOMAIN rows /\ Upcoming(rows) \in Documents
           /\ DOMAIN Remaining(rows) = DOMAIN rows \ {Upcoming(rows)}
           /\ \A n \in DOMAIN Remaining(rows) : Remaining(rows)[n] = rows[n]
<1>1. DOMAIN rows \subseteq Nat
  BY LiveAreIds DEF Documents
<1>2. Upcoming(rows) \in DOMAIN rows
  BY <1>1, LowestOf DEF Upcoming
<1> QED BY <1>2 DEF Remaining, Restrict

LEMMA GardenNextStep ==
    ASSUME TreeInv, NEW p \in Procs, GardenNext(p)
    PROVE  TreeInv'
<1>0. PICK k : k = job[p]
  OBVIOUS
<1>1. pc[p] = "gardenNext" /\ Works("gardenNext", k)
      /\ (~disturbed => Settled("gardenNext", k))
      /\ UNCHANGED <<crashes, ops, disturbed>> /\ UNCHANGED tree
  BY <1>0, InHand DEF GardenNext, Step, TreeInv, TreeKept, Tending
<1>2. k \in Shape(k) /\ k.op = "garden" /\ k.touched \in Seq(Nat) /\ k.cur \in Nat
      /\ ToSet(k.touched) \subseteq Containers
  BY <1>1, WorkIs DEF Works, Tending, Rolling
<1>3. /\ k.cur \in Live /\ node[k.cur].kind = "inbox"
      /\ DOMAIN k.rows \subseteq Documents
      /\ \A n \in DOMAIN k.rows : k.rows[n] = node[n].name
  BY <1>1 DEF Works
<1>4. Pending("gardenNext", k) = IF k.touched = <<>> THEN {} ELSE {k.cur} \cup ToSet(k.touched)
  BY DEF Pending
<1>5. ~disturbed => \A n \in InboxLeaves : n \in DOMAIN k.rows \/ Target(node[n].name) = {0}
  BY <1>1 DEF Settled
<1>6. CASE DOMAIN k.rows = {}
  <2>1. PICK starts, j : /\ starts = RollAfterGarden(k)
                         /\ j = [k EXCEPT !.starts = starts, !.after = "done"]
                         /\ Goto(p, "roll", j)
    BY <1>0, <1>6 DEF GardenNext
  <2>2. starts \in Seq(Nat) /\ ToSet(starts) = Pending("gardenNext", k)
    <3>1. CASE k.touched = <<>>
      <4>1. starts = <<>> /\ Pending("gardenNext", k) = {}
        BY <1>4, <2>1, <3>1 DEF RollAfterGarden
      <4>2. <<>> \in Seq(Nat)
        OBVIOUS
      <4> QED BY <4>1, <4>2, NothingIn
    <3>2. CASE k.touched # <<>>
      <4>1. PICK s, t : s = <<k.cur>> /\ t = k.touched
        OBVIOUS
      <4>5. s \in Seq(Nat)
        BY <1>2, <4>1
      <4>6. t \in Seq(Nat)
        BY <1>2, <4>1
      <4>2. s \o t \in Seq(Nat) /\ ToSet(s \o t) = ToSet(s) \cup ToSet(t)
        BY <4>5, <4>6, Together
      <4>3. ToSet(s) = {k.cur}
        BY <4>1 DEF ToSet
      <4> QED BY <1>4, <2>1, <3>2, <4>1, <4>2, <4>3 DEF RollAfterGarden
    <3> QED BY <3>1, <3>2
  <2>3. /\ j.sweep = k.sweep /\ j.starts = starts /\ j \in Shape(j)
        /\ j.op = k.op /\ j.doc = k.doc /\ j.text = k.text /\ j.keep = k.keep
        /\ j.touched = k.touched /\ j.rows = k.rows /\ j.after = "done"
    BY <1>2, <2>1, <2>2 DEF Shape
  <2>4. ToSet(starts) \subseteq Containers
    BY <1>2, <1>3, <1>4, <2>2 DEF Containers
  <2>5. Works("roll", j)
    BY <1>1, <1>2, <2>3, <2>4 DEF Works, Keeps, Tending, Rolling, Pruning
  <2>6. Stands("roll", j) /\ (~disturbed => Settled("roll", j))
    BY <1>5, <1>6, <2>5 DEF Stands, Settled, Rolling
  <2>7. Pending("roll", j) = ToSet(j.starts) \cup Firsts(j.sweep)
    BY DEF Pending
  <2>8. Pending(pc[p], job[p]) \subseteq Pending("roll", j)
    BY <1>0, <1>1, <2>2, <2>3, <2>7
  <2> QED BY <1>0, <1>1, <1>2, <2>1, <2>3, <2>6, <2>8, ReadStep
<1>7. CASE DOMAIN k.rows # {}
  <2>1. PICK up : up = Upcoming(k.rows)
    OBVIOUS
  <2>2. /\ up \in DOMAIN k.rows /\ DOMAIN Remaining(k.rows) = DOMAIN k.rows \ {up}
        /\ \A n \in DOMAIN Remaining(k.rows) : Remaining(k.rows)[n] = k.rows[n]
    BY <1>3, <1>7, <2>1, NextRow DEF TreeInv
  <2>3. PICK t \in Target(node[up].name) :
           IF t = 0 THEN Goto(p, "gardenNext", [k EXCEPT !.rows = LeaveInInbox(@)])
                    ELSE Goto(p, "unlink", [k EXCEPT !.keep = t])
    <3>1. k.rows[up] = node[up].name
      BY <1>3, <2>2
    <3> QED BY <1>0, <1>7, <2>1, <3>1 DEF GardenNext
  <2>4. CASE t = 0
    <3>1. PICK rows, j : /\ rows = Remaining(k.rows) /\ j = [k EXCEPT !.rows = rows]
                         /\ Goto(p, "gardenNext", j)
      BY <2>3, <2>4 DEF LeaveInInbox
    <3>2. /\ j.sweep = k.sweep /\ j.starts = k.starts /\ j \in Shape(j) /\ j.cur = k.cur
          /\ j.op = k.op /\ j.doc = k.doc /\ j.text = k.text /\ j.keep = k.keep
          /\ j.touched = k.touched /\ j.rows = rows /\ j.after = k.after
      BY <1>2, <3>1 DEF Shape
    <3>3. /\ DOMAIN rows \subseteq Documents
          /\ \A n \in DOMAIN rows : rows[n] = node[n].name
      BY <1>3, <2>2, <3>1
    <3>4. Works("gardenNext", j)
      BY <1>1, <1>3, <3>2, <3>3 DEF Works, Keeps, Tending, Rolling, Pruning
    <3>5. Target(node[up].name) = {0}
      BY <2>3, <2>4, TargetIs DEF TreeInv
    <3>6. ~disturbed => Settled("gardenNext", j)
      BY <1>5, <2>2, <3>1, <3>2, <3>5 DEF Settled, Rolling
    <3>7. Stands("gardenNext", j)
      BY <3>4 DEF Stands, Tending
    <3>8. Pending("gardenNext", j) = Pending("gardenNext", k)
      BY <3>2 DEF Pending
    <3> QED BY <1>0, <1>1, <1>2, <3>1, <3>2, <3>6, <3>7, <3>8, ReadStep
  <2>5. CASE t # 0
    <3>1. PICK j : j = [k EXCEPT !.keep = t] /\ Goto(p, "unlink", j)
      BY <2>3, <2>5
    <3>2. t \in Concepts /\ t \in Nat
      BY <2>3, <2>5, TargetIs DEF TreeInv
    <3>3. /\ j.sweep = k.sweep /\ j.starts = k.starts /\ j \in Shape(j) /\ j.cur = k.cur
          /\ j.op = k.op /\ j.doc = k.doc /\ j.text = k.text /\ j.keep = t
          /\ j.touched = k.touched /\ j.rows = k.rows /\ j.after = k.after
      BY <1>2, <3>1, <3>2 DEF Shape
    <3>4. Works("unlink", j)
      BY <1>1, <1>2, <1>3, <1>7, <3>2, <3>3 DEF Works, Keeps, Tending, Rolling, Pruning
    <3>5. ~disturbed => Settled("unlink", j)
      BY <1>5, <3>3 DEF Settled, Rolling
    <3>6. Stands("unlink", j)
      BY <3>4 DEF Stands, Tending
    <3>7. Pending("unlink", j) = Pending("gardenNext", k)
      BY <3>3 DEF Pending
    <3> QED BY <1>0, <1>1, <1>2, <3>1, <3>3, <3>5, <3>6, <3>7, ReadStep
  <2> QED BY <2>4, <2>5
<1> QED BY <1>6, <1>7

LEMMA CrashStep ==
    ASSUME TreeInv, NEW p \in Procs, Crash(p)
    PROVE  TreeInv'
<1>1. /\ Goto(p, "down", NoJob) /\ UNCHANGED tree /\ UNCHANGED ops
      /\ crashes' = crashes + 1 /\ crashes < MaxCrashes
      /\ disturbed' = (disturbed \/ (job[p].op = "garden"))
  BY DEF Crash, TreeKept
<1>2. /\ crashes' \in 0..MaxCrashes /\ crashes' # 0
  <2>1. crashes \in 0..MaxCrashes /\ MaxCrashes \in Nat
    BY TreeConstants DEF TreeInv, TreeOK
  <2> QED BY <1>1, <2>1
<1>3. ops' \in 0..MaxOps /\ disturbed' \in BOOLEAN /\ (~disturbed' => ~disturbed)
  BY <1>1 DEF TreeInv, TreeOK
<1>4. Stands("down", NoJob) /\ Settled("down", NoJob)
  BY AtRest
<1>5. ~(~disturbed' /\ job[p].op = "garden")
  BY <1>1
<1> QED BY <1>1, <1>2, <1>3, <1>4, <1>5, QuietStep

LEMMA CloseStep ==
    ASSUME TreeInv, NEW p \in Procs, Close(p)
    PROVE  TreeInv'
<1>1. Stands("down", NoJob) /\ Settled("down", NoJob)
  BY AtRest
<1>2. Pending(pc[p], job[p]) = {}
  BY DEF Close, Idle, Pending
<1> QED BY <1>1, <1>2, ReadStep DEF Close, TreeKept

-----------------------------------------------------------------------------
(***************************************************************************)
(* The steps that write documents and summaries.                           *)
(***************************************************************************)
\* Rolling up writes what a container holds.
LEMMA WriteSummaryStep ==
    ASSUME TreeInv, Alone, NEW p \in Procs, WriteSummary(p)
    PROVE  TreeInv'
<1>0. PICK k : k = job[p]
  OBVIOUS
<1>1. pc[p] = "sum" /\ Works("sum", k) /\ (~disturbed => Settled("sum", k)) /\ Active(p)
      /\ UNCHANGED <<crashes, ops, disturbed>> /\ Goto(p, "roll", k)
      /\ UNCHANGED <<node, edges, vec, body, made>>
  BY <1>0, InHand DEF WriteSummary, Step, TreeInv, Rolling, Active
<1>2. PICK n : n = k.cur
  OBVIOUS
<1>3. n \in Containers /\ n \in Live /\ k.sums = [m \in {n} |-> Children(n)]
      /\ k.op \in {"replace", "forget", "garden"}
  BY <1>1, <1>2, WorkIs DEF Works, Containers
<1>4. summary' = [summary EXCEPT ![n] = Lists(Children(n))]
  <2>1. k.sums[n] = Children(n)
    BY <1>3
  <2> QED BY <1>0, <1>2, <1>3, <2>1 DEF WriteSummary
<1>5. summary \in [Live -> [rolled : BOOLEAN, items : SUBSET Ids]]
  BY DEF TreeInv, TreeOK
<1>6. summary'[n].items = Children(n) /\ \A m \in Live \ {n} : summary'[m] = summary[m]
  BY <1>3, <1>4, <1>5 DEF Lists
<1>7. /\ Live' = Live /\ Containers' = Containers /\ Documents' = Documents
      /\ Concepts' = Concepts /\ InboxLeaves' = InboxLeaves
      /\ \A m : Children(m)' = Children(m) /\ Parents(m)' = Parents(m)
      /\ \A d : LeavesOf(d)' = LeavesOf(d)
      /\ \A at, j : Works(at, j)' = Works(at, j)
      /\ Rooted' /\ OneInbox'
  BY <1>1, SameShape
<1>8. Children(n) \subseteq Live /\ Children(n) \subseteq Ids
  BY LiveAreIds DEF Children, TreeInv
<1>9. TreeOK'
  <2>1. Lists(Children(n)) \in [rolled : BOOLEAN, items : SUBSET Ids]
    BY <1>8 DEF Lists
  <2>2. summary' \in [Live -> [rolled : BOOLEAN, items : SUBSET Ids]]
    BY <1>3, <1>4, <1>5, <2>1
  <2> QED BY <1>1, <1>7, <2>2 DEF TreeInv, TreeOK
<1>10. BodiesFollowLeaves' /\ NoGhostTitles'
  BY <1>1, <1>6, <1>7, <1>8 DEF TreeInv, BodiesFollowLeaves, NoGhostTitles
<1>11. LeavesQuoteNothing'
  <2>1. n \notin Documents /\ Documents \subseteq Live
    BY <1>3 DEF Containers, Documents
  <2> QED BY <1>6, <1>7, <2>1 DEF TreeInv, LeavesQuoteNothing
<1>12. /\ Quotes(n)' = Children(n)' \cap Documents' /\ Same(n)'
       /\ \A m \in Live \ {n} : Quotes(m)' = Quotes(m) /\ Same(m)' = Same(m)
  BY <1>6, <1>7 DEF Quotes, Same
<1>13. Works("roll", k)
  BY <1>1, <1>3 DEF Works, Keeps, Kept, Rolling, Pruning, Tending
<1>14. Stands("roll", k)'
  BY <1>7, <1>13 DEF Stands, Rolling
<1>15. ~disturbed' => Settled("roll", k)'
  <2>1. \A t : Target(t)' = Target(t)
    <3>1. \A t : Candidates(t)' = Candidates(t)
      BY <1>1, <1>7 DEF Candidates, Roots
    <3>2. \A t, m : FarTo(t, m)' = FarTo(t, m)
      BY <1>1 DEF FarTo
    <3>3. \A t, m : Decide(t, m)' = Decide(t, m)
      BY <3>1, <3>2 DEF Decide
    <3> QED BY <3>1, <3>3 DEF Target
  <2>2. ~disturbed /\ k.op = "garden" => \A m \in InboxLeaves : Target(node[m].name) = {0}
    BY <1>1 DEF Settled, Rolling
  <2> QED BY <1>1, <1>7, <2>1, <2>2 DEF Settled, Rolling
<1>16. /\ Pending("sum", k) = ToSet(k.starts) \cup Firsts(k.sweep) \cup {n}
       /\ Pending("roll", k) = ToSet(k.starts) \cup Firsts(k.sweep)
  BY <1>2 DEF Pending
<1>17. ~disturbed' => \A m \in Live' :
          \/ Quotes(m)' \subseteq Children(m)'
          \/ k.op = "garden" /\ m \in Pending("roll", k)
  BY <1>0, <1>1, <1>7, <1>12, <1>16, QuotesNow
<1>18. ~disturbed' /\ crashes' = 0 => \A m \in Containers' : Same(m)' \/ m \in Pending("roll", k)
  <2>1. Containers \subseteq Live
    BY DEF Containers
  <2> QED BY <1>0, <1>1, <1>7, <1>12, <1>16, <2>1, QuotesNow
<1> QED BY <1>1, <1>7, <1>9, <1>10, <1>11, <1>14, <1>15, <1>17, <1>18, WriteStep

\* A document is filed as a leaf of its own, under its parent.
LEMMA FileStep ==
    ASSUME TreeInv, Alone, NEW p \in Procs, File(p)
    PROVE  TreeInv'
<1>0. PICK k : k = job[p]
  OBVIOUS
<1>1. pc[p] = "file" /\ Works("file", k) /\ Active(p) /\ Pending(pc[p], job[p]) = {}
      /\ UNCHANGED <<crashes, ops, disturbed>>
  BY <1>0, InHand DEF File, Step, TreeInv, Active, Pending
<1>2. /\ k \in Shape(k) /\ k.op = "replace" /\ k.doc \in Docs /\ k.text \in Texts
      /\ k.parent \in Containers /\ k.parent \in Live
  BY <1>1, WorkIs DEF Works, Containers
<1>3. PICK parent, d, t, new : parent = k.parent /\ d = k.doc /\ t = k.text /\ new = NewId
  OBVIOUS
<1>4. /\ Create(TreeNode("leaf", t, d)) /\ edges' = edges \cup {<<parent, new>>}
      /\ body' = [body EXCEPT ![d] = t] /\ UNCHANGED vec
      /\ Goto(p, "roll", [k EXCEPT !.keep = new, !.starts = <<parent>>, !.after = "list"])
  BY <1>0, <1>2, <1>3 DEF File
<1>5. PICK j : /\ j = [k EXCEPT !.keep = new, !.starts = <<parent>>, !.after = "list"]
               /\ Goto(p, "roll", j)
  BY <1>4
<1>6. made \in Nat /\ made' = new /\ new = made + 1 /\ new \in Ids /\ new \in Nat
      /\ made < MaxNodes /\ MaxNodes \in Nat
  BY <1>3, <1>4, TreeConstants DEF Create, NewId, TreeInv, TreeOK, Ids
<1>7. new \notin Live /\ \A n \in Live : n < new
  BY <1>6 DEF TreeInv, TreeOK
<1>8. /\ node' = [n \in Live \cup {new} |-> IF n = new THEN TreeNode("leaf", t, d) ELSE node[n]]
      /\ summary' = [n \in Live \cup {new} |-> IF n = new THEN Curated ELSE summary[n]]
  <2>1. DOMAIN summary = Live
    BY DEF TreeInv, TreeOK
  <2> QED BY <1>3, <1>4, <2>1 DEF Create, Live, With
<1>9. Live' = Live \cup {new}
  BY <1>8 DEF Live
<1>10. /\ \A n \in Live : node'[n] = node[n] /\ summary'[n] = summary[n]
       /\ node'[new].kind = "leaf" /\ node'[new].name = t /\ node'[new].doc = d
       /\ summary'[new].items = {}
  BY <1>7, <1>8 DEF TreeNode, Curated
<1>11. edges \subseteq Containers \X Live /\ Containers \subseteq Live
  BY DEF TreeInv, TreeOK, Containers
<1>12. /\ Containers' = Containers /\ Documents' = Documents \cup {new}
       /\ Concepts' = Concepts
  BY <1>7, <1>9, <1>10 DEF Containers, Documents, Concepts
<1>13. /\ Children(parent)' = Children(parent) \cup {new}
       /\ \A n : n # parent => Children(n)' = Children(n)
       /\ Parents(new)' = {parent}
  BY <1>2, <1>3, <1>4, <1>7, <1>9, <1>11 DEF Children, Parents
<1>14. /\ LeavesOf(d)' = LeavesOf(d) \cup {new}
       /\ \A e : e # d => LeavesOf(e)' = LeavesOf(e)
  BY <1>7, <1>9, <1>10 DEF LeavesOf
<1>15. TreeOK'
  <2>1. TreeOK
    BY DEF TreeInv
  <2>2. TreeNode("leaf", t, d) \in
          [kind : Kinds, name : Names \cup Texts, doc : Docs \cup {None}]
    BY <1>2, <1>3 DEF TreeNode, Kinds
  <2>3. Curated \in [rolled : BOOLEAN, items : SUBSET Ids]
    BY DEF Curated
  <2>4. node' \in [Live' -> [kind : Kinds, name : Names \cup Texts, doc : Docs \cup {None}]]
    BY <1>8, <1>9, <2>1, <2>2 DEF TreeOK
  <2>5. summary' \in [Live' -> [rolled : BOOLEAN, items : SUBSET Ids]]
    BY <1>8, <1>9, <2>1, <2>3 DEF TreeOK
  <2>6. Live' \subseteq 1..made' /\ made' \in 0..MaxNodes
    <3>1. Live \subseteq 1..made
      BY <2>1 DEF TreeOK
    <3> QED BY <1>6, <1>9, <3>1
  <2>7. edges' \subseteq Containers' \X Live'
    BY <1>2, <1>3, <1>4, <1>9, <1>11, <1>12
  <2>8. body' \in [Docs -> Texts \cup {None}]
    BY <1>2, <1>3, <1>4, <2>1 DEF TreeOK
  <2> QED BY <1>1, <1>4, <2>1, <2>4, <2>5, <2>6, <2>7, <2>8 DEF TreeOK
<1>16. Rooted'
  <2>1. Live \subseteq Nat /\ Root \in Concepts /\ \A n \in Live : Root <= n
    BY <1>2, <1>3 DEF TreeInv, TreeOK, Rooted
  <2> DEFINE S == {n \in Live : node[n].name = "root"}
             T == {n \in Live' : node'[n].name = "root"}
  <2>2. T \subseteq Nat /\ S \subseteq T /\ \A n \in T \ S : n = new
    BY <1>6, <1>9, <1>10, <2>1
  <2>3. S # {}
    <3>1. Lowest(S) # 0
      BY <2>1 DEF Root, FindByName, Concepts, TreeInv, TreeOK
    <3> QED BY <3>1, LowestNone
  <2>4. \A n \in T \ S : \A m \in S : m <= n
    BY <1>6, <1>7, <2>1, <2>2
  <2>5. Lowest(T) = Lowest(S)
    <3> HIDE DEF S, T
    <3> QED BY <2>2, <2>3, <2>4, LowestStays
  <2>6. Root' = Root
    BY <2>5 DEF Root, FindByName
  <2>7. \A n \in Live' : Root <= n
    BY <1>6, <1>7, <1>9, <2>1 DEF Concepts
  <2> QED BY <1>12, <2>1, <2>6, <2>7 DEF Rooted
<1>17. OneInbox'
  BY <1>9, <1>10 DEF TreeInv, OneInbox
<1>18. BodiesFollowLeaves'
  <2>1. body'[d] = t /\ t # None /\ \A e \in Docs \ {d} : body'[e] = body[e]
    BY <1>2, <1>3, <1>4, TreeConstants DEF TreeInv, TreeOK
  <2> QED BY <1>14, <2>1 DEF TreeInv, BodiesFollowLeaves
<1>19. NoGhostTitles' /\ LeavesQuoteNothing'
  BY <1>1, <1>9, <1>10, <1>12 DEF TreeInv, NoGhostTitles, LeavesQuoteNothing, Documents
<1>20. /\ j \in Shape(j) /\ j.op = "replace" /\ j.doc = d /\ j.text = t /\ j.keep = new
       /\ j.starts = <<parent>> /\ j.after = "list" /\ j.sweep = k.sweep /\ j.touched = k.touched
  <2>1. <<parent>> \in Seq(Nat)
    <3>1. parent \in Nat
      BY <1>2, <1>3 DEF TreeInv, TreeOK
    <3> QED BY <3>1
  <2> QED BY <1>2, <1>3, <1>5, <1>6, <2>1 DEF Shape
<1>21. ToSet(j.starts) = {parent}
  BY <1>20 DEF ToSet
<1>22. Works("roll", j)'
  <2>1. new \in LeavesOf(d)' /\ Parents(new)' # {}
    BY <1>13, <1>14
  <2>2. Keeps(j)'
    BY <1>20, <2>1 DEF Keeps
  <2>3. ToSet(j.starts) \cup Firsts(j.sweep) \cup ToSet(j.touched) \subseteq Containers'
    BY <1>1, <1>2, <1>3, <1>12, <1>20, <1>21, WorkIs
  <2> QED BY <1>2, <1>3, <1>20, <2>2, <2>3 DEF Works, Tending, Rolling, Pruning
<1>23. Stands("roll", j)' /\ Settled("roll", j)'
  BY <1>20, <1>22 DEF Stands, Settled, Rolling
<1>24. parent \in Pending("roll", j)
  BY <1>21 DEF Pending
<1>25. Quotes(new)' = {} /\ \A n : Children(n) \subseteq Children(n)'
  BY <1>10, <1>13 DEF Quotes
<1>26. ~disturbed => \A n \in Live : Quotes(n)' = Quotes(n)
  <2>1. ~disturbed => \A n \in Live : new \notin summary[n].items
    BY <1>7 DEF TreeInv, NoGhostTitles
  <2> QED BY <1>10, <1>12, <2>1 DEF Quotes
<1>27. \A n : n # parent => Children(n)' \cap Documents' = Children(n) \cap Documents
  <2>1. \A n : new \notin Children(n)
    BY <1>7 DEF Children
  <2> QED BY <1>12, <1>13, <2>1
<1>28. ~disturbed' => \A n \in Live' :
          \/ Quotes(n)' \subseteq Children(n)'
          \/ j.op = "garden" /\ n \in Pending("roll", j)
  <2>1. ~disturbed => \A n \in Live : Quotes(n) \subseteq Children(n)
    BY <1>1, QuotesNow
  <2> QED BY <1>1, <1>9, <1>25, <1>26, <2>1
<1>29. ~disturbed' /\ crashes' = 0 => \A n \in Containers' : Same(n)' \/ n \in Pending("roll", j)
  <2>1. ~disturbed /\ crashes = 0 => \A n \in Containers : Same(n)
    BY <1>1, QuotesNow
  <2> QED BY <1>1, <1>11, <1>12, <1>24, <1>26, <1>27, <2>1 DEF Same
<1> QED BY <1>1, <1>5, <1>15, <1>16, <1>17, <1>18, <1>19, <1>23, <1>28, <1>29, WriteStep

\* A leaf is removed with its edges, and its parents' summaries with it.
LEMMA DeleteLeafStep ==
    ASSUME TreeInv, Alone, NEW p \in Procs, DeleteLeaf(p)
    PROVE  TreeInv'
<1>0. PICK k, d, leaf : k = job[p] /\ d = k.doc /\ leaf = k.cur
  OBVIOUS
<1>1. pc[p] = "delete" /\ Works("delete", k) /\ Active(p) /\ Pending(pc[p], job[p]) = {}
      /\ UNCHANGED <<crashes, ops, disturbed>> /\ UNCHANGED <<vec, made>> /\ Goto(p, "prune", k)
  BY <1>0, InHand DEF DeleteLeaf, Step, TreeInv, Active, Pending, Pruning
<1>2. /\ k \in Shape(k) /\ k.op \in {"replace", "forget"} /\ d \in Docs
      /\ LeavesOf(d) = k.todo \cup Kept(k) \cup {leaf}
      /\ leaf \notin k.todo \cup Kept(k) /\ k.keep \notin k.todo
      /\ k.sums = WithoutLeaf(leaf) /\ Keeps(k)
  <2>1. k \in Shape(k) /\ k.op \in {"replace", "forget", "garden"}
    BY <1>1, WorkIs
  <2>2. k.op # "garden"
    BY <1>1 DEF Works, Tending, Rolling
  <2>3. d \in Docs
    BY <1>0, <1>1, <2>2 DEF Works
  <2>4. /\ LeavesOf(d) = k.todo \cup Kept(k) \cup {leaf}
        /\ leaf \notin k.todo \cup Kept(k) /\ k.keep \notin k.todo
        /\ k.sums = WithoutLeaf(leaf)
    BY <1>0, <1>1 DEF Works
  <2>5. Keeps(k)
    BY <1>1 DEF Works
  <2> QED BY <2>1, <2>2, <2>3, <2>4, <2>5
<1>3. leaf \in Live /\ node[leaf].kind = "leaf" /\ node[leaf].doc = d /\ leaf \in Documents
      /\ leaf \notin Containers /\ leaf \notin Concepts
  BY <1>2 DEF LeavesOf, Documents, Containers, Concepts
<1>4. edges \subseteq Containers \X Live /\ Containers \subseteq Live
      /\ DOMAIN summary = Live
  BY DEF TreeInv, TreeOK, Containers
<1>5. /\ node' = [n \in Live \ {leaf} |-> node[n]]
      /\ edges' = {e \in edges : leaf \notin {e[1], e[2]}}
      /\ summary' = [n \in Live \ {leaf} |-> IF n \in Parents(leaf)
                                             THEN Lists(Children(n) \ {leaf}) ELSE summary[n]]
      /\ body' = IF LeavesOf(d) = {leaf} THEN [body EXCEPT ![d] = None] ELSE body
  <2>1. DOMAIN k.sums = Parents(leaf) /\ \A n \in Parents(leaf) : k.sums[n] = Children(n) \ {leaf}
    BY <1>2 DEF WithoutLeaf
  <2>2. summary' = [n \in DOMAIN summary \ {leaf} |-> IF n \in DOMAIN k.sums
                                              THEN Lists(k.sums[n]) ELSE summary[n]]
    BY <1>0 DEF DeleteLeaf
  <2>3. summary' = [n \in Live \ {leaf} |-> IF n \in Parents(leaf)
                                         THEN Lists(Children(n) \ {leaf}) ELSE summary[n]]
    BY <1>4, <2>1, <2>2
  <2> QED BY <1>0, <2>3 DEF DeleteLeaf, EdgesWithout, IsLastLeaf
<1>6. Live' = Live \ {leaf} /\ \A n \in Live' : node'[n] = node[n]
  BY <1>5 DEF Live
<1>7. /\ Containers' = Containers /\ Documents' = Documents \ {leaf} /\ Concepts' = Concepts
      /\ Containers \subseteq Live'
  BY <1>3, <1>4, <1>6 DEF Containers, Documents, Concepts
<1>8. /\ \A n : n # leaf => Children(n)' = Children(n) \ {leaf} /\ Parents(n)' = Parents(n) \ {leaf}
      /\ \A n : leaf \notin Parents(n)
  BY <1>3, <1>4, <1>5, <1>6 DEF Children, Parents
<1>9. /\ LeavesOf(d)' = LeavesOf(d) \ {leaf}
      /\ \A e : e # d => LeavesOf(e)' = LeavesOf(e)
  BY <1>3, <1>6 DEF LeavesOf
<1>10. /\ \A n \in Live' : n \in Parents(leaf) => summary'[n].items = Children(n) \ {leaf}
       /\ \A n \in Live' : n \notin Parents(leaf) => summary'[n] = summary[n]
  BY <1>5, <1>6 DEF Lists
<1>11. TreeOK'
  <2>1. TreeOK
    BY DEF TreeInv
  <2>2. node' \in [Live' -> [kind : Kinds, name : Names \cup Texts, doc : Docs \cup {None}]]
    BY <1>5, <1>6, <2>1 DEF TreeOK
  <2>3. \A n : Lists(Children(n) \ {leaf}) \in [rolled : BOOLEAN, items : SUBSET Ids]
    <3>1. \A n : Children(n) \subseteq Ids
      BY <2>1, LiveAreIds DEF Children
    <3> QED BY <3>1 DEF Lists
  <2>4. summary' \in [Live' -> [rolled : BOOLEAN, items : SUBSET Ids]]
    BY <1>5, <1>6, <2>1, <2>3 DEF TreeOK
  <2>5. edges' \subseteq Containers' \X Live'
    BY <1>4, <1>5, <1>6, <1>7
  <2>6. body' \in [Docs -> Texts \cup {None}]
    BY <1>2, <1>5, <2>1 DEF TreeOK
  <2> QED BY <1>1, <1>6, <2>1, <2>2, <2>4, <2>5, <2>6 DEF TreeOK
<1>12. Rooted'
  <2>1. Live \subseteq Nat /\ Root \in Concepts /\ \A n \in Live : Root <= n
    BY <1>3 DEF TreeInv, TreeOK, Rooted
  <2> DEFINE S == {n \in Live : node[n].name = "root"}
             T == {n \in Live' : node'[n].name = "root"}
  <2>2. S \subseteq Nat \ {0} /\ Root = Lowest(S) /\ Root # 0
    BY <2>1 DEF Root, FindByName, Concepts, TreeInv, TreeOK
  <2>3. Root \in S
    <3> HIDE DEF S
    <3> QED BY <2>2, LowestSome
  <2>4. T = S \ {leaf} /\ Root \in T
    BY <1>3, <1>6, <2>1, <2>3
  <2>5. T \subseteq Nat /\ \A n \in T : Root <= n
    BY <2>1, <2>2, <2>4
  <2>6. Lowest(T) = Root
    <3> HIDE DEF S, T
    <3> QED BY <2>4, <2>5, LowestIs
  <2>7. Root' = Root
    BY <2>6 DEF Root, FindByName
  <2> QED BY <1>6, <1>7, <2>1, <2>7 DEF Rooted
<1>13. OneInbox'
  BY <1>6 DEF TreeInv, OneInbox
<1>14. BodiesFollowLeaves'
  <2>1. CASE LeavesOf(d) = {leaf}
    <3>1. body'[d] = None /\ \A e \in Docs \ {d} : body'[e] = body[e]
      BY <1>2, <1>5, <2>1 DEF TreeInv, TreeOK
    <3> QED BY <1>9, <2>1, <3>1 DEF TreeInv, BodiesFollowLeaves
  <2>2. CASE LeavesOf(d) # {leaf}
    <3>1. LeavesOf(d) \ {leaf} # {} /\ LeavesOf(d) # {}
      BY <1>2, <2>2
    <3> QED BY <1>5, <1>9, <2>2, <3>1 DEF TreeInv, BodiesFollowLeaves
  <2> QED BY <2>1, <2>2
<1>15. ~disturbed => \A n \in Live : Quotes(n) \subseteq Children(n)
  BY <1>1, QuotesNow
<1>16. NoGhostTitles'
  <2>1. ASSUME ~disturbed, NEW n \in Live', n \in Parents(leaf)
        PROVE  summary'[n].items \subseteq Live'
    BY <1>6, <1>10, <2>1 DEF Children
  <2>2. ASSUME ~disturbed, NEW n \in Live', n \notin Parents(leaf)
        PROVE  summary'[n].items \subseteq Live'
    <3>1. summary[n].items \subseteq Live /\ n \in Live
      BY <1>6, <2>2 DEF TreeInv, NoGhostTitles
    <3>2. leaf \notin Children(n)
      BY <2>2, <3>1 DEF Children, Parents
    <3>3. leaf \notin summary[n].items
      BY <1>3, <1>15, <2>2, <3>1, <3>2 DEF Quotes
    <3> QED BY <1>6, <1>10, <2>2, <3>1, <3>3
  <2> QED BY <1>1, <2>1, <2>2 DEF NoGhostTitles
<1>17. LeavesQuoteNothing'
  <2>1. \A n \in Documents' : n \in Live' /\ n \notin Parents(leaf)
    BY <1>4, <1>6, <1>7 DEF Documents, Parents, Containers
  <2> QED BY <1>7, <1>10, <2>1 DEF TreeInv, LeavesQuoteNothing
<1>18. Works("prune", k)'
  <2>1. Keeps(k)'
    BY <1>0, <1>2, <1>8, <1>9 DEF Keeps, Kept
  <2>2. LeavesOf(k.doc)' = k.todo \cup Kept(k)
    BY <1>0, <1>2, <1>9
  <2>3. ToSet(k.starts) \cup Firsts(k.sweep) \cup ToSet(k.touched) \subseteq Containers'
    BY <1>1, <1>7, WorkIs
  <2> QED BY <1>0, <1>1, <1>2, <2>1, <2>2, <2>3 DEF Works, Kept, Tending, Rolling, Pruning
<1>19. Stands("prune", k)' /\ Settled("prune", k)'
  BY <1>18 DEF Stands, Settled, Rolling, Pruning
<1>20. ~disturbed' => \A n \in Live' : Quotes(n)' \subseteq Children(n)'
  <2>1. ASSUME ~disturbed, NEW n \in Live' PROVE Quotes(n)' \subseteq Children(n)'
    <3>1. n \in Live /\ n # leaf
      BY <1>6
    <3>2. CASE n \in Parents(leaf)
      BY <1>8, <1>10, <3>1, <3>2 DEF Quotes
    <3>3. CASE n \notin Parents(leaf)
      BY <1>7, <1>8, <1>10, <1>15, <2>1, <3>1, <3>3 DEF Quotes
    <3> QED BY <3>2, <3>3
  <2> QED BY <1>1, <2>1
<1>21. ~disturbed' /\ crashes' = 0 => \A n \in Containers' : Same(n)'
  <2>1. ASSUME ~disturbed, crashes = 0, NEW n \in Containers PROVE Same(n)'
    <3>1. n \in Live' /\ n # leaf /\ Same(n)
      BY <1>1, <1>3, <1>7, <2>1, QuotesNow
    <3>2. CASE n \in Parents(leaf)
      BY <1>7, <1>8, <1>10, <3>1, <3>2 DEF Quotes, Same
    <3>3. CASE n \notin Parents(leaf)
      BY <1>7, <1>8, <1>10, <3>1, <3>3 DEF Quotes, Same
    <3> QED BY <3>2, <3>3
  <2> QED BY <1>1, <1>7, <2>1
<1> QED BY <1>1, <1>11, <1>12, <1>13, <1>14, <1>16, <1>17, <1>19, <1>20, <1>21, WriteStep

\* Where one document hangs changes, and nothing else.
LEMMA OneMoves ==
    ASSUME TreeInv, NEW up \in Documents, edges' \subseteq Containers \X Live,
           \A n, m : m # up => (<<n, m>> \in edges' <=> <<n, m>> \in edges),
           UNCHANGED <<node, summary, vec, body, made, crashes, ops, disturbed>>
    PROVE  /\ Live' = Live /\ Containers' = Containers /\ Documents' = Documents
           /\ Concepts' = Concepts
           /\ \A m : m # up => Parents(m)' = Parents(m)
           /\ \A n : Children(n)' \ {up} = Children(n) \ {up}
           /\ \A n : Quotes(n)' = Quotes(n)
           /\ \A t : Target(t)' = Target(t)
           /\ TreeOK' /\ Rooted' /\ OneInbox' /\ BodiesFollowLeaves' /\ NoGhostTitles'
           /\ LeavesQuoteNothing'
<1>1. /\ Live' = Live /\ Containers' = Containers /\ Documents' = Documents
      /\ Concepts' = Concepts
  BY DEF Live, Containers, Documents, Concepts
<1>2. \A m : m # up => Parents(m)' = Parents(m)
  BY <1>1 DEF Parents
<1>3. \A n : Children(n)' \ {up} = Children(n) \ {up}
  BY <1>1 DEF Children
<1>4. \A n : Quotes(n)' = Quotes(n)
  BY <1>1 DEF Quotes
<1>5. \A t : Target(t)' = Target(t)
  <2>1. up \notin Concepts
    BY DEF Documents, Concepts
  <2>2. DOMAIN vec' \cap Concepts' = DOMAIN vec \cap Concepts
    BY <1>1
  <2>3. \A n \in Concepts : n \in Roots' <=> n \in Roots
    <3>1. \A n \in Concepts : n \in Live /\ n # up
      BY <2>1 DEF Concepts
    <3> QED BY <1>1, <1>2, <3>1 DEF Roots
  <2>4. \A t : Candidates(t)' = Candidates(t)
    BY <2>2, <2>3 DEF Candidates
  <2>5. \A t, m : FarTo(t, m)' = FarTo(t, m)
    BY DEF FarTo
  <2>6. \A t, m : Decide(t, m)' = Decide(t, m)
    BY <2>4, <2>5 DEF Decide
  <2> QED BY <2>4, <2>6 DEF Target
<1>6. TreeOK'
  BY <1>1 DEF TreeInv, TreeOK
<1>7. Rooted' /\ OneInbox' /\ BodiesFollowLeaves'
  <2>1. \A d : LeavesOf(d)' = LeavesOf(d)
    BY <1>1 DEF LeavesOf
  <2>2. Root' = Root
    BY <1>1 DEF Root, FindByName
  <2> QED BY <1>1, <2>1, <2>2 DEF TreeInv, Rooted, OneInbox, BodiesFollowLeaves
<1>8. NoGhostTitles' /\ LeavesQuoteNothing'
  BY <1>1 DEF TreeInv, NoGhostTitles, LeavesQuoteNothing
<1> QED BY <1>1, <1>2, <1>3, <1>4, <1>5, <1>6, <1>7, <1>8

\* What a gardener about to move a document has in hand.
LEMMA Moving ==
    ASSUME TreeInv, NEW at \in {"unlink", "relink"}, NEW k, Works(at, k), NEW up, up = Upcoming(k.rows)
    PROVE  /\ k \in Shape(k) /\ k.op = "garden" /\ up \in DOMAIN k.rows /\ up \in Documents
           /\ k.cur \in Live /\ k.cur \in Containers /\ node[k.cur].kind = "inbox"
           /\ k.keep \in Concepts /\ k.keep \in Containers /\ k.cur # k.keep
           /\ DOMAIN k.rows \subseteq Documents
           /\ \A n \in DOMAIN k.rows : k.rows[n] = node[n].name
           /\ DOMAIN Remaining(k.rows) = DOMAIN k.rows \ {up}
           /\ \A n \in DOMAIN Remaining(k.rows) : Remaining(k.rows)[n] = k.rows[n]
<1>1. /\ k \in Shape(k) /\ k.op = "garden"
      /\ k.cur \in Live /\ node[k.cur].kind = "inbox" /\ k.keep \in Concepts
      /\ DOMAIN k.rows \subseteq Documents /\ DOMAIN k.rows # {}
      /\ \A n \in DOMAIN k.rows : k.rows[n] = node[n].name
  BY WorkIs DEF Works, Tending, Rolling
<1> QED BY <1>1, NextRow DEF TreeInv, Containers, Concepts

LEMMA UnlinkStep ==
    ASSUME TreeInv, Alone, NEW p \in Procs, Unlink(p)
    PROVE  TreeInv'
<1>0. PICK k : k = job[p]
  OBVIOUS
<1>1. pc[p] = "unlink" /\ Works("unlink", k) /\ (~disturbed => Settled("unlink", k)) /\ Active(p)
      /\ UNCHANGED <<node, summary, vec, body, made, crashes, ops, disturbed>>
      /\ Goto(p, "relink", k)
  BY <1>0, InHand DEF Unlink, Step, TreeInv, Tending, Active
<1>2. PICK up, cur : up = Upcoming(k.rows) /\ cur = k.cur
  OBVIOUS
<1>3. /\ k.op = "garden" /\ up \in Documents /\ cur \in Containers /\ node[cur].kind = "inbox"
      /\ DOMAIN k.rows \subseteq Documents /\ k.keep \in Concepts /\ cur \in Live
      /\ \A n \in DOMAIN k.rows : k.rows[n] = node[n].name
      /\ DOMAIN k.rows # {}
  BY <1>1, <1>2, Moving
<1>4. edges' = edges \ {<<cur, up>>}
  BY <1>0, <1>2 DEF Unlink
<1>5. /\ Live' = Live /\ Containers' = Containers /\ Documents' = Documents
      /\ Concepts' = Concepts
      /\ \A m : m # up => Parents(m)' = Parents(m)
      /\ \A n : Children(n)' \ {up} = Children(n) \ {up}
      /\ \A n : Quotes(n)' = Quotes(n)
      /\ \A t : Target(t)' = Target(t)
      /\ TreeOK' /\ Rooted' /\ OneInbox' /\ BodiesFollowLeaves' /\ NoGhostTitles'
      /\ LeavesQuoteNothing'
  <2>1. edges' \subseteq Containers \X Live
    BY <1>4 DEF TreeInv, TreeOK
  <2>2. \A n, m : m # up => (<<n, m>> \in edges' <=> <<n, m>> \in edges)
    BY <1>4
  <2> QED BY <1>1, <1>3, <2>1, <2>2, OneMoves
<1>6. \A n : n # cur => Children(n)' = Children(n)
  BY <1>4, <1>5 DEF Children
<1>7. <<cur, up>> \notin edges' /\ Parents(up)' \subseteq Parents(up)
  BY <1>4, <1>5 DEF Parents
<1>8. InboxLeaves' \subseteq InboxLeaves
  BY <1>1, <1>5, <1>7 DEF InboxLeaves
<1>9. Works("relink", k)'
  <2>1. ToSet(k.starts) \cup Firsts(k.sweep) \cup ToSet(k.touched) \subseteq Containers'
    BY <1>1, <1>5, WorkIs
  <2>2. k \in Shape(k)
    BY <1>1, WorkIs
  <2> QED BY <1>1, <1>2, <1>3, <1>5, <1>7, <2>1, <2>2 DEF Works, Keeps, Tending, Rolling, Pruning
<1>10. Stands("relink", k)'
  BY <1>9 DEF Stands, Tending
<1>11. ~disturbed' => Settled("relink", k)'
  <2>1. ~disturbed => \A n \in InboxLeaves : n \in DOMAIN k.rows \/ Target(node[n].name) = {0}
    BY <1>1 DEF Settled
  <2> QED BY <1>1, <1>5, <1>8, <2>1 DEF Settled, Rolling
<1>12. /\ Pending("relink", k) = {cur} \cup ToSet(k.touched)
       /\ Pending("unlink", k) \subseteq Pending("relink", k)
  BY <1>2 DEF Pending
<1>13. ~disturbed' => \A n \in Live' :
          \/ Quotes(n)' \subseteq Children(n)'
          \/ k.op = "garden" /\ n \in Pending("relink", k)
  BY <1>0, <1>1, <1>3, <1>5, <1>6, <1>12, QuotesNow
<1>14. ~disturbed' /\ crashes' = 0 => \A n \in Containers' : Same(n)' \/ n \in Pending("relink", k)
  BY <1>0, <1>1, <1>5, <1>6, <1>12, QuotesNow DEF Same
<1> QED BY <1>1, <1>5, <1>10, <1>11, <1>13, <1>14, WriteStep

LEMMA AppendedIs ==
    ASSUME NEW s \in Seq(Nat), NEW t \in Nat
    PROVE  /\ Append(s, t) \in Seq(Nat) /\ Append(s, t) # <<>>
           /\ ToSet(Append(s, t)) = ToSet(s) \cup {t}
<1>1. /\ Append(s, t) \in Seq(Nat) /\ Len(Append(s, t)) = Len(s) + 1 /\ Len(s) \in Nat
      /\ Append(s, t)[Len(s) + 1] = t
      /\ \A i \in 1..Len(s) : Append(s, t)[i] = s[i]
  OBVIOUS
<1>2. DOMAIN s = 1..Len(s) /\ DOMAIN Append(s, t) = 1..Len(s) + 1
  OBVIOUS
<1>3. 1..Len(s) + 1 = 1..Len(s) \cup {Len(s) + 1}
  BY <1>1
<1>4. ToSet(Append(s, t)) = ToSet(s) \cup {t}
  BY <1>1, <1>2, <1>3 DEF ToSet
<1>5. Append(s, t) # <<>>
  BY <1>1
<1> QED BY <1>1, <1>4, <1>5

LEMMA RelinkStep ==
    ASSUME TreeInv, Alone, NEW p \in Procs, Relink(p)
    PROVE  TreeInv'
<1>0. PICK k : k = job[p]
  OBVIOUS
<1>1. pc[p] = "relink" /\ Works("relink", k) /\ (~disturbed => Settled("relink", k)) /\ Active(p)
  BY <1>0, InHand DEF Relink, TreeInv, Tending, Active
<1>2. PICK up, cur, t, rows, touched :
         /\ up = Upcoming(k.rows) /\ cur = k.cur /\ t = k.keep /\ rows = Remaining(k.rows)
         /\ touched = IF t \in ToSet(k.touched) THEN k.touched ELSE Append(k.touched, t)
  OBVIOUS
<1>3. /\ k \in Shape(k) /\ k.op = "garden" /\ up \in Documents /\ cur \in Containers
      /\ node[cur].kind = "inbox" /\ cur \in Live /\ up \in DOMAIN k.rows
      /\ DOMAIN k.rows \subseteq Documents /\ t \in Concepts /\ t \in Containers
      /\ \A n \in DOMAIN k.rows : k.rows[n] = node[n].name
      /\ DOMAIN rows = DOMAIN k.rows \ {up}
      /\ \A n \in DOMAIN rows : rows[n] = k.rows[n]
  BY <1>1, <1>2, Moving
<1>4. up \in Live /\ t \in Live /\ t \in Nat
  BY <1>3, LiveAreIds DEF Documents, Concepts, TreeInv
<1>5. /\ edges' = edges \cup {<<t, up>>} /\ UNCHANGED disturbed
      /\ UNCHANGED <<node, summary, vec, body, made, crashes, ops>>
  BY <1>0, <1>2, <1>4 DEF Relink
<1>6. PICK j : j = [k EXCEPT !.rows = rows, !.touched = touched] /\ Goto(p, "gardenNext", j)
  BY <1>0, <1>2, <1>4 DEF Relink
<1>7. k.touched \in Seq(Nat) /\ ToSet(k.touched) \subseteq Containers
      /\ ToSet(k.starts) \cup Firsts(k.sweep) \subseteq Containers
  BY <1>1, WorkIs
<1>8. touched \in Seq(Nat) /\ touched # <<>> /\ ToSet(touched) = ToSet(k.touched) \cup {t}
  <2>1. PICK s \in Seq(Nat) : s = k.touched
    BY <1>7
  <2>2. CASE t \in ToSet(k.touched)
    <3>1. s # <<>>
      BY <2>1, <2>2, NothingIn
    <3> QED BY <1>2, <2>1, <2>2, <3>1
  <2>3. CASE t \notin ToSet(k.touched)
    BY <1>2, <1>4, <2>1, <2>3, AppendedIs
  <2> QED BY <2>2, <2>3
<1>9. /\ j \in Shape(j) /\ j.op = k.op /\ j.doc = k.doc /\ j.text = k.text /\ j.keep = k.keep
      /\ j.cur = cur /\ j.starts = k.starts /\ j.sweep = k.sweep /\ j.after = k.after
      /\ j.rows = rows /\ j.touched = touched
  BY <1>2, <1>3, <1>6, <1>8 DEF Shape
<1>10. /\ Live' = Live /\ Containers' = Containers /\ Documents' = Documents
       /\ Concepts' = Concepts
       /\ \A m : m # up => Parents(m)' = Parents(m)
       /\ \A n : Children(n)' \ {up} = Children(n) \ {up}
       /\ \A n : Quotes(n)' = Quotes(n)
       /\ \A x : Target(x)' = Target(x)
       /\ TreeOK' /\ Rooted' /\ OneInbox' /\ BodiesFollowLeaves' /\ NoGhostTitles'
       /\ LeavesQuoteNothing'
  <2>1. edges' \subseteq Containers \X Live
    BY <1>3, <1>4, <1>5 DEF TreeInv, TreeOK
  <2>2. \A n, m : m # up => (<<n, m>> \in edges' <=> <<n, m>> \in edges)
    BY <1>5
  <2> QED BY <1>3, <1>5, <2>1, <2>2, OneMoves
<1>11. /\ \A n : n # t => Children(n)' = Children(n)
       /\ \A n : Children(n) \subseteq Children(n)'
       /\ Parents(up)' = Parents(up) \cup {t}
  BY <1>4, <1>5, <1>10 DEF Children, Parents
<1>12. up \notin InboxLeaves'
  <2>1. <<cur, up>> \notin edges
    BY <1>1, <1>2 DEF Works
  <2>2. \A m \in Parents(up) : node[m].kind # "inbox"
    <3> SUFFICES ASSUME NEW m \in Parents(up), node[m].kind = "inbox" PROVE FALSE
      OBVIOUS
    <3>1. m \in Live /\ m = cur
      BY <1>3 DEF Parents, TreeInv, OneInbox
    <3> QED BY <2>1, <3>1 DEF Parents
  <2>3. node[t].kind # "inbox"
    BY <1>3 DEF Concepts
  <2> QED BY <1>5, <1>11, <2>2, <2>3 DEF InboxLeaves
<1>13. InboxLeaves' \subseteq InboxLeaves \ {up}
  BY <1>5, <1>10, <1>12 DEF InboxLeaves
<1>14. Works("gardenNext", j)'
  <2>1. ToSet(j.starts) \cup Firsts(j.sweep) \cup ToSet(j.touched) \subseteq Containers'
    BY <1>3, <1>7, <1>8, <1>9, <1>10
  <2>2. DOMAIN j.rows \subseteq Documents' /\ \A n \in DOMAIN j.rows : j.rows[n] = node'[n].name
    BY <1>3, <1>5, <1>9, <1>10
  <2> QED BY <1>3, <1>5, <1>9, <1>10, <2>1, <2>2 DEF Works, Keeps, Tending, Rolling, Pruning
<1>15. Stands("gardenNext", j)'
  BY <1>14 DEF Stands, Tending
<1>16. ~disturbed' => Settled("gardenNext", j)'
  <2>1. ~disturbed => \A n \in InboxLeaves : n \in DOMAIN k.rows \/ Target(node[n].name) = {0}
    BY <1>1 DEF Settled
  <2>2. ~disturbed => \A n \in InboxLeaves' : n \in DOMAIN j.rows \/ Target(node[n].name) = {0}
    BY <1>3, <1>9, <1>13, <2>1
  <2> QED BY <1>5, <1>10, <2>2 DEF Settled, Rolling
<1>17. /\ Pending("gardenNext", j) = {cur} \cup ToSet(touched)
       /\ Pending("relink", k) = {cur} \cup ToSet(k.touched)
  BY <1>2, <1>8, <1>9 DEF Pending
<1>18. ~disturbed' => \A n \in Live' :
          \/ Quotes(n)' \subseteq Children(n)'
          \/ j.op = "garden" /\ n \in Pending("gardenNext", j)
  BY <1>0, <1>1, <1>3, <1>5, <1>8, <1>9, <1>10, <1>11, <1>17, QuotesNow
<1>19. ~disturbed' /\ crashes' = 0 => \A n \in Containers' :
          Same(n)' \/ n \in Pending("gardenNext", j)
  BY <1>0, <1>1, <1>5, <1>8, <1>10, <1>11, <1>17, QuotesNow DEF Same
<1> QED BY <1>1, <1>6, <1>10, <1>15, <1>16, <1>18, <1>19, WriteStep

-----------------------------------------------------------------------------
(***************************************************************************)
(* The reset and the re-embedding.                                         *)
(***************************************************************************)
LEMMA ResetStep ==
    ASSUME TreeInv, NEW p \in Procs, NEW spine \in Spines, Reset(p, spine),
           \A q \in Procs \ {p} : ~Active(q)
    PROVE  TreeInv'
<1>1. PICK j : /\ j = [op |-> "seed", spine |-> spine, at |-> 0, rest |-> <<>>,
                       left |-> spine, found |-> 0, root |-> 0]
               /\ Goto(p, "seedRoot", j)
  BY DEF Reset
<1>2. /\ node' = <<>> /\ edges' = {} /\ summary' = <<>> /\ vec' = <<>>
      /\ body' = [d \in Docs |-> None] /\ made' = made /\ crashes' = crashes
      /\ ops' = ops + 1 /\ ops < MaxOps /\ disturbed' \in BOOLEAN
  BY DEF Reset, Overlaps, TreeInv, TreeOK
<1>3. Live' = {} /\ Containers' = {} /\ Documents' = {}
  BY <1>2 DEF Live, Containers, Documents
<1>4. Stands("seedRoot", j)' /\ Settled("seedRoot", j)'
  BY <1>1, FreshSeed DEF Stands, Seeding, Settled, Rolling
<1>5. TreeOK'
  <2>1. ops' \in 0..MaxOps
    <3>1. ops \in 0..MaxOps /\ MaxOps \in Nat
      BY TreeConstants DEF TreeInv, TreeOK
    <3> QED BY <1>2, <3>1
  <2>2. DOMAIN node' = {} /\ DOMAIN summary' = {} /\ DOMAIN vec' = {}
    BY <1>2
  <2>3. made \in 0..MaxNodes /\ crashes \in 0..MaxCrashes
    BY DEF TreeInv, TreeOK
  <2>4. \A T : <<>> \in [{} -> T]
    OBVIOUS
  <2> QED BY <1>2, <1>3, <2>1, <2>2, <2>3, <2>4 DEF TreeOK
<1>6. Rooted' /\ OneInbox' /\ LeavesQuoteNothing' /\ NoGhostTitles'
  BY <1>3 DEF Rooted, OneInbox, LeavesQuoteNothing, NoGhostTitles
<1>7. BodiesFollowLeaves'
  BY <1>2, <1>3 DEF BodiesFollowLeaves, LeavesOf
<1> QED BY <1>1, <1>3, <1>4, <1>5, <1>6, <1>7, LoneWriteStep

LEMMA ReembedStep ==
    ASSUME TreeInv, Reembed
    PROVE  TreeInv'
<1>1. /\ vec' = [n \in Concepts |-> Source(n)]
      /\ UNCHANGED <<node, edges, summary, body, made, pc, job, crashes, disturbed>>
      /\ \A p \in Procs : pc[p] = "down"
  BY DEF Reembed
<1>2. vec' \in [DOMAIN vec' -> {"curated", "rolled"}] /\ DOMAIN vec' \subseteq Ids
  <2>1. Concepts \subseteq Ids
    BY LiveAreIds DEF Concepts, TreeInv
  <2> QED BY <1>1, <2>1 DEF Source
<1>3. ops' \in 0..MaxOps
  <2>1. ops \in 0..MaxOps /\ MaxOps \in Nat /\ ops < MaxOps /\ ops' = ops + 1
    BY TreeConstants DEF Reembed, TreeInv, TreeOK
  <2> QED BY <2>1
<1>4. /\ TreeOK' /\ Rooted' /\ OneInbox' /\ BodiesFollowLeaves' /\ NoGhostTitles'
      /\ LeavesQuoteNothing' /\ Live' = Live /\ Containers' = Containers
      /\ \A n : Quotes(n)' = Quotes(n) /\ Children(n)' = Children(n) /\ Same(n)' = Same(n)
  BY <1>1, <1>2, <1>3, VectorsOnly
<1>5. \A p \in Procs : pc[p] = "down" /\ job[p] = NoJob
  BY <1>1, InHand DEF TreeInv
<1>6. \A p \in Procs : Stands(pc[p], job[p])' /\ Settled(pc[p], job[p])'
  <2> SUFFICES ASSUME NEW p \in Procs PROVE Stands(pc[p], job[p])' /\ Settled(pc[p], job[p])'
    OBVIOUS
  <2>1. pc'[p] = "down" /\ job'[p] = NoJob
    BY <1>1, <1>5
  <2>2. Stands("down", NoJob)' /\ Settled("down", NoJob)'
    BY AtRest
  <2> QED BY <2>1, <2>2 DEF Stands, Settled, NoJob
<1>7. Stations'
  BY <1>1, <1>6 DEF Stations, TreeInv
<1>8. \A p \in Procs : Pending(pc[p], job[p])' = Pending(pc[p], job[p])
  BY <1>1 DEF Pending
<1>9. QuotesChildren' /\ QuotesAll'
  BY <1>1, <1>4, <1>8 DEF TreeInv, QuotesChildren, QuotesAll
<1> QED BY <1>4, <1>6, <1>7, <1>9 DEF TreeInv

-----------------------------------------------------------------------------
(***************************************************************************)
(* All steps together.                                                     *)
(***************************************************************************)
LEMMA InitTree == Init => TreeInv /\ Alone
<1> SUFFICES ASSUME Init PROVE TreeInv /\ Alone
  OBVIOUS
<1>1. /\ node = <<>> /\ edges = {} /\ summary = <<>> /\ vec = <<>>
      /\ body = [d \in Docs |-> None] /\ made = 0 /\ crashes = 0 /\ ops = 0
      /\ disturbed = FALSE /\ pc = [p \in Procs |-> "down"] /\ job = [p \in Procs |-> NoJob]
  BY DEF Init
<1>2. Live = {} /\ Containers = {} /\ Documents = {}
  BY <1>1 DEF Live, Containers, Documents
<1>3. \A p \in Procs : pc[p] = "down" /\ job[p] = NoJob
  BY <1>1
<1>4. TreeOK
  <2>1. MaxNodes \in Nat /\ MaxCrashes \in Nat /\ MaxOps \in Nat
    BY TreeConstants
  <2>2. DOMAIN node = {} /\ DOMAIN summary = {} /\ DOMAIN vec = {}
    BY <1>1
  <2>3. \A T : <<>> \in [{} -> T]
    OBVIOUS
  <2>4. made \in 0..MaxNodes /\ crashes \in 0..MaxCrashes /\ ops \in 0..MaxOps
    BY <1>1, <2>1
  <2>5. /\ node \in [Live -> [kind : Kinds, name : Names \cup Texts, doc : Docs \cup {None}]]
        /\ summary \in [Live -> [rolled : BOOLEAN, items : SUBSET Ids]]
        /\ vec \in [DOMAIN vec -> {"curated", "rolled"}]
    BY <1>1, <1>2, <2>2, <2>3
  <2>6. Live \subseteq 1..made /\ edges \subseteq Containers \X Live /\ DOMAIN vec \subseteq Ids
    BY <1>1, <1>2, <2>2
  <2>7. body \in [Docs -> Texts \cup {None}] /\ disturbed \in BOOLEAN
    BY <1>1
  <2> QED BY <2>4, <2>5, <2>6, <2>7 DEF TreeOK
<1>5. Rooted /\ OneInbox /\ LeavesQuoteNothing /\ NoGhostTitles /\ BodiesFollowLeaves
  <2>1. Rooted /\ OneInbox /\ LeavesQuoteNothing /\ NoGhostTitles
    BY <1>2 DEF Rooted, OneInbox, LeavesQuoteNothing, NoGhostTitles
  <2>2. \A d : LeavesOf(d) = {}
    BY <1>2 DEF LeavesOf
  <2> QED BY <1>1, <2>1, <2>2 DEF BodiesFollowLeaves
<1>6. \A p \in Procs : Stands(pc[p], job[p]) /\ Settled(pc[p], job[p])
  BY <1>3, AtRest
<1>7. Stations
  BY <1>1, <1>6 DEF Stations
<1>8. QuotesChildren /\ QuotesAll
  BY <1>2 DEF QuotesChildren, QuotesAll
<1>9. Alone
  BY <1>3 DEF Alone, Active
<1> QED BY <1>4, <1>5, <1>6, <1>7, <1>8, <1>9 DEF TreeInv

\* A step that changes nothing.
LEMMA StutterStep ==
    ASSUME TreeInv, UNCHANGED vars
    PROVE  TreeInv'
<1>1. UNCHANGED tree /\ UNCHANGED <<pc, job, crashes, ops, disturbed>>
  BY DEF vars
<1>2. TreeOK'
  BY <1>1, SameTree DEF TreeInv, TreeOK
<1>3. Rooted' /\ OneInbox' /\ BodiesFollowLeaves' /\ LeavesQuoteNothing'
  BY <1>1, SameTree DEF TreeInv, Rooted, OneInbox, BodiesFollowLeaves, LeavesQuoteNothing
<1>4. NoGhostTitles'
  BY <1>1, SameTree DEF TreeInv, NoGhostTitles
<1>5. \A p \in Procs : Stands(pc[p], job[p])' = Stands(pc[p], job[p])
                       /\ Settled(pc[p], job[p])' = Settled(pc[p], job[p])
  <2> TAKE p \in Procs
  <2>1. PICK at, j : at = pc[p] /\ j = job[p]
    OBVIOUS
  <2>2. Stands(at, j)' = Stands(at, j) /\ Settled(at, j)' = Settled(at, j)
    BY <1>1, SameStands
  <2>3. at = pc'[p] /\ j = job'[p]
    BY <1>1, <2>1
  <2> QED BY <2>1, <2>2, <2>3 DEF Stands, Settled
<1>6. Stations'
  BY <1>1, <1>5 DEF TreeInv, Stations
<1>7. \A p \in Procs : ~disturbed' => Settled(pc[p], job[p])'
  BY <1>1, <1>5 DEF TreeInv
<1>8. \A p \in Procs : Pending(pc[p], job[p])' = Pending(pc[p], job[p])
  BY <1>1 DEF Pending
<1>9. QuotesChildren' /\ QuotesAll'
  BY <1>1, <1>8, SameTree DEF TreeInv, QuotesChildren, QuotesAll
<1> QED BY <1>2, <1>3, <1>4, <1>6, <1>7, <1>9 DEF TreeInv

\* A step before and after which one process at a time is in an operation.
LEMMA TreeStep ==
    ASSUME TreeInv, Alone, Alone', [Next]_vars
    PROVE  TreeInv'
<1>1. CASE UNCHANGED vars
  BY <1>1, StutterStep
<1>2. CASE Reembed
  BY <1>2, ReembedStep
<1>3. ASSUME NEW p \in Procs, Seed(p) PROVE TreeInv'
  BY <1>3, OpenStep, FindRootStep, MakeRootStep, SeedPathStep, SeekBranchStep, MakeBranchStep,
     LinkBranchStep, SeekInboxStep, MakeInboxStep, LinkInboxStep DEF Seed
<1>4. ASSUME NEW p \in Procs, Embed(p) PROVE TreeInv'
  BY <1>4, ListMissingStep, EmbedConceptStep, EmbedDoneStep, EmbedFailsStep DEF Embed
<1>5. ASSUME NEW p \in Procs, Roll(p) PROVE TreeInv'
  BY <1>5, RollNextStep, ReadChildrenStep, WriteSummaryStep DEF Roll
<1>6. ASSUME NEW p \in Procs, Write(p) PROVE TreeInv'
  BY <1>6, ReplaceStep, ForgetStep, FindTargetStep, FileStep, ListLeavesStep, PruneNextStep,
     DeleteLeafStep, DropBodyStep, DoneStep DEF Write
<1>7. ASSUME NEW p \in Procs, NEW spine \in Spines, Reset(p, spine) PROVE TreeInv'
  <2>1. /\ pc' = [q \in Procs |-> pc'[q]] /\ pc'[p] = "seedRoot"
        /\ \A q \in Procs \ {p} : pc'[q] = pc[q]
    BY <1>7 DEF Reset, Goto, TreeInv, Stations
  <2>2. \A q \in Procs \ {p} : ~Active(q)
    BY <2>1 DEF Alone, Active
  <2> QED BY <1>7, <2>2, ResetStep
<1>8. ASSUME NEW p \in Procs, Tend(p) PROVE TreeInv'
  BY <1>8, <1>7, GardenStep, GardenListStep, GardenNextStep, UnlinkStep, RelinkStep, CrashStep,
     CloseStep DEF Tend
<1> QED BY <1>1, <1>2, <1>3, <1>4, <1>5, <1>6, <1>8 DEF Next


\* A step is of one process; one that has no operation begun begins it or closes.
Goes(p) == \E w, j : Goto(p, w, j)
Continues(p) == Active(p) /\ Goes(p) /\ (disturbed' = disturbed \/ disturbed' = TRUE)
Starts(p) == Goes(p) /\ disturbed' = (disturbed \/ Overlaps(p))
Closes(p) == /\ \E j : Goto(p, "down", j)
             /\ (disturbed' = disturbed \/ disturbed' = (disturbed \/ (job[p].op = "garden")))

LEMMA StepIs ==
    ASSUME disturbed \in BOOLEAN, Next
    PROVE  \/ UNCHANGED <<pc, disturbed>>
           \/ \E p \in Procs : Continues(p) \/ Starts(p) \/ Closes(p)
<1>1. CASE Reembed
  BY <1>1 DEF Reembed
<1>2. ASSUME NEW p \in Procs, Seed(p) PROVE Continues(p) \/ Starts(p)
  <2>1. ASSUME NEW s \in Spines, Open(p, s) PROVE Starts(p)
    BY <2>1 DEF Open, Starts, Goes
  <2>2. CASE FindRoot(p) \/ MakeRoot(p) \/ SeedPath(p)
    BY <2>2 DEF FindRoot, MakeRoot, SeedPath, Step, Continues, Active, Goes
  <2>3. CASE SeekBranch(p)
    BY <2>3 DEF SeekBranch, Step, Continues, Active, Goes
  <2>4. CASE MakeBranch(p) \/ LinkBranch(p)
    BY <2>4 DEF MakeBranch, LinkBranch, Step, Continues, Active, Goes
  <2>5. CASE SeekInbox(p) \/ MakeInbox(p) \/ LinkInbox(p)
    BY <2>5 DEF SeekInbox, MakeInbox, LinkInbox, Step, Continues, Active, Goes
  <2> QED BY <1>2, <2>1, <2>2, <2>3, <2>4, <2>5 DEF Seed
<1>3. ASSUME NEW p \in Procs, Embed(p) PROVE Continues(p)
  BY <1>3 DEF Embed, ListMissing, EmbedConcept, EmbedDone, EmbedFails, Finish, Step, Continues,
              Active, Goes
<1>4. ASSUME NEW p \in Procs, Roll(p) PROVE Continues(p)
  BY <1>4 DEF Roll, RollNext, ReadChildren, WriteSummary, Step, Continues, Active, Goes
<1>5. ASSUME NEW p \in Procs, Write(p) PROVE Continues(p) \/ Starts(p)
  <2>1. ASSUME NEW d \in Docs, NEW t \in Texts, Replace(p, d, t) PROVE Starts(p)
    BY <2>1 DEF Replace, Begin, Starts, Goes
  <2>2. ASSUME NEW d \in Docs, Forget(p, d) PROVE Starts(p)
    BY <2>2 DEF Forget, Begin, Starts, Goes
  <2>3. CASE FindTarget(p)
    BY <2>3 DEF FindTarget, Finish, Step, Continues, Active, Goes
  <2>4. CASE File(p)
    BY <2>4 DEF File, Finish, Step, Continues, Active, Goes
  <2>5. CASE ListLeaves(p) \/ PruneNext(p)
    BY <2>5 DEF ListLeaves, PruneNext, Step, Continues, Active, Goes
  <2>6. CASE DeleteLeaf(p) \/ DropBody(p) \/ Done(p)
    BY <2>6 DEF DeleteLeaf, DropBody, Done, Finish, Step, Continues, Active, Goes
  <2> QED BY <1>5, <2>1, <2>2, <2>3, <2>4, <2>5, <2>6 DEF Write
<1>6. ASSUME NEW p \in Procs, Tend(p) PROVE Continues(p) \/ Starts(p) \/ Closes(p)
  <2>1. CASE Garden(p)
    BY <2>1 DEF Garden, Begin, Starts, Goes
  <2>2. CASE GardenList(p) \/ GardenNext(p)
    BY <2>2 DEF GardenList, GardenNext, Finish, Step, Continues, Active, Goes
  <2>3. CASE Unlink(p) \/ Relink(p)
    BY <2>3 DEF Unlink, Relink, Finish, Step, Continues, Active, Goes
  <2>4. ASSUME NEW s \in Spines, Reset(p, s) PROVE Starts(p)
    BY <2>4 DEF Reset, Starts, Goes
  <2>5. CASE Crash(p) \/ Close(p)
    BY <2>5 DEF Crash, Close, Closes
  <2> QED BY <1>6, <2>1, <2>2, <2>3, <2>4, <2>5 DEF Tend
<1> QED BY <1>1, <1>2, <1>3, <1>4, <1>5, <1>6 DEF Next

\* While no two operations have overlapped, one process at a time is in one.
LEMMA CalmStep ==
    ASSUME CalmInv, disturbed \in BOOLEAN, [Next]_vars
    PROVE  CalmInv' /\ disturbed' \in BOOLEAN
<1>1. CASE UNCHANGED vars
  <2>1. disturbed' = disturbed /\ pc' = pc
    BY <1>1 DEF vars
  <2>2. Alone => Alone'
    BY <2>1 DEF Alone, Active
  <2> QED BY <1>1, <2>1, <2>2, StutterStep DEF CalmInv
<1>2. CASE Next
  <2>1. disturbed' \in BOOLEAN /\ (~disturbed' => ~disturbed)
    <3>1. CASE UNCHANGED <<pc, disturbed>>
      BY <3>1
    <3>2. ASSUME NEW p \in Procs, Continues(p) \/ Starts(p) \/ Closes(p)
          PROVE  disturbed' \in BOOLEAN /\ (~disturbed' => ~disturbed)
      BY <3>2 DEF Continues, Starts, Closes, Overlaps
    <3> QED BY <1>2, <3>1, <3>2, StepIs
  <2> SUFFICES ASSUME ~disturbed' PROVE Alone' /\ TreeInv'
    BY <2>1 DEF CalmInv
  <2>2. Alone /\ TreeInv
    BY <2>1 DEF CalmInv
  <2>3. Alone'
    <3>1. CASE UNCHANGED <<pc, disturbed>>
      BY <3>1, <2>2 DEF Alone, Active
    <3>2. ASSUME NEW p \in Procs, Continues(p) PROVE Alone'
      <4>1. \A q \in Procs \ {p} : pc'[q] = pc[q]
        BY <3>2, <2>2, Moved DEF Continues, Goes, TreeInv
      <4> QED BY <3>2, <2>2, <4>1 DEF Alone, Active, Continues
    <3>3. ASSUME NEW p \in Procs, Starts(p) PROVE Alone'
      <4>1. \A q \in Procs \ {p} : pc'[q] = pc[q]
        BY <3>3, <2>2, Moved DEF Starts, Goes, TreeInv
      <4>2. \A q \in Procs \ {p} : pc[q] \in {"idle", "down"}
        BY <3>3 DEF Starts, Overlaps
      <4> QED BY <4>1, <4>2 DEF Alone, Active
    <3>4. ASSUME NEW p \in Procs, Closes(p) PROVE Alone'
      <4>1. pc'[p] = "down" /\ \A q \in Procs \ {p} : pc'[q] = pc[q]
        BY <3>4, <2>2, Moved DEF Closes, TreeInv
      <4> QED BY <4>1, <2>2 DEF Alone, Active
    <3> QED BY <1>2, <3>1, <3>2, <3>3, <3>4, StepIs
  <2> QED BY <2>2, <2>3, TreeStep
<1> QED BY <1>1, <1>2

\* What every behaviour keeps: with one process at a time in an operation, and in
\* any behaviour until two of them overlap or a gardener is cut off.
LEMMA AloneKeepsTree == Spec /\ []Alone => []TreeInv
<1>1. Init => TreeInv
  BY InitTree
<1>2. TreeInv /\ Alone /\ Alone' /\ [Next]_vars => TreeInv'
  BY TreeStep
<1> QED BY <1>1, <1>2, PTL DEF Spec

LEMMA CalmKeepsTree == Spec => [](CalmInv /\ disturbed \in BOOLEAN)
<1>1. Init => CalmInv /\ disturbed \in BOOLEAN
  BY InitTree DEF Init, CalmInv
<1>2. CalmInv /\ disturbed \in BOOLEAN /\ [Next]_vars => (CalmInv /\ disturbed \in BOOLEAN)'
  BY CalmStep
<1> QED BY <1>1, <1>2, PTL DEF Spec

-----------------------------------------------------------------------------
(***************************************************************************)
(* The inbox's link, which only a process cut off between making the inbox *)
(* and linking it leaves out.                                              *)
(***************************************************************************)
InboxLinked ==
    /\ cut \in BOOLEAN
    /\ cut \/ \A n \in Live : node[n].kind = "inbox" =>
          <<Root, n>> \in edges \/ \E p \in Procs : pc[p] = "linkInbox"

\* Of a step of p: it makes no inbox, and takes away documents and their edges only.
Spares(p) ==
    /\ Goes(p) /\ pc[p] # "linkInbox" /\ cut' = cut
    /\ \A n \in Live' : \/ n \in Live /\ node'[n] = node[n]
                        \/ n = NewId /\ node'[n].kind # "inbox"
    /\ \A n \in Live : n \in Live' \/ n \in Documents
    /\ \A e \in edges : e \in edges' \/ e[2] \in Documents

\* The root stays the root while it stays the first.
LEMMA RootStays ==
    ASSUME TreeInv, TreeInv', Live # {}, Root \in Live', \A n \in Live' : Root <= n
    PROVE  Root' = Root
<1>1. Root' \in Live' /\ Root' <= Root
  BY DEF TreeInv, Rooted, Concepts
<1>2. Root <= Root'
  BY <1>1
<1>3. Root \in Nat /\ Root' \in Nat
  BY <1>1 DEF TreeInv, TreeOK
<1> QED BY <1>1, <1>2, <1>3

LEMMA SparedStaysLinked ==
    ASSUME TreeInv, TreeInv', InboxLinked, NEW p \in Procs, Spares(p)
    PROVE  InboxLinked'
<1> SUFFICES ASSUME ~cut, NEW n \in Live', node'[n].kind = "inbox"
             PROVE  <<Root', n>> \in edges' \/ \E q \in Procs : pc'[q] = "linkInbox"
  BY DEF InboxLinked, Spares
<1>1. n \in Live /\ node[n].kind = "inbox" /\ n \notin Documents
  BY DEF Spares, Documents
<1>2. CASE \E q \in Procs : pc[q] = "linkInbox"
  <2>1. PICK q \in Procs : pc[q] = "linkInbox"
    BY <1>2
  <2>2. pc'[q] = pc[q]
    BY <2>1, Moved DEF Spares, Goes, TreeInv
  <2> QED BY <2>1, <2>2
<1>3. CASE <<Root, n>> \in edges
  <2>1. Root \in Concepts /\ \A m \in Live : Root <= m
    BY <1>1 DEF TreeInv, Rooted
  <2>2. Root \in Live'
    BY <2>1 DEF Spares, Documents, Concepts
  <2>3. \A m \in Live' : Root <= m
    <3>1. Live \subseteq 1..made /\ made \in Nat /\ Root \in Live
      BY <2>1, TreeConstants DEF TreeInv, TreeOK, Concepts
    <3>2. Root <= NewId
      BY <3>1 DEF NewId
    <3> QED BY <2>1, <3>2 DEF Spares
  <2>4. Root' = Root
    BY <1>1, <2>2, <2>3, RootStays
  <2> QED BY <1>1, <1>3, <2>4 DEF Spares
<1> QED BY <1>1, <1>2, <1>3 DEF InboxLinked

LEMMA CreateSpares ==
    ASSUME TreeOK, NEW n, n.kind # "inbox", Create(n)
    PROVE  /\ \A m \in Live' : \/ m \in Live /\ node'[m] = node[m]
                               \/ m = NewId /\ node'[m].kind # "inbox"
           /\ \A m \in Live : m \in Live'
<1>1. node' = [m \in Live \cup {NewId} |-> IF m = NewId THEN n ELSE node[m]]
  BY DEF Create, With, Live
<1>2. NewId \notin Live
  <2>1. Live \subseteq 1..made /\ made \in Nat
    BY TreeConstants DEF TreeOK
  <2> QED BY <2>1 DEF NewId
<1>3. Live' = Live \cup {NewId} /\ \A m \in Live : node'[m] = node[m]
  BY <1>1, <1>2 DEF Live
<1>4. node'[NewId] = n
  BY <1>1
<1> QED BY <1>3, <1>4

\* A step that changes neither nodes nor edges spares every inbox.
LEMMA StillSpares ==
    ASSUME NEW p \in Procs, Goes(p), pc[p] # "linkInbox", cut' = cut, UNCHANGED <<node, edges>>
    PROVE  Spares(p)
BY DEF Spares, Live

LEMMA SeedSpares ==
    ASSUME TreeInv, NEW p \in Procs, Seed(p), ~MakeInbox(p), ~LinkInbox(p)
    PROVE  Spares(p)
<1>1. CASE (\E s \in Spines : Open(p, s)) \/ FindRoot(p) \/ SeedPath(p) \/ SeekInbox(p)
  BY <1>1, StillSpares DEF Open, FindRoot, SeedPath, SeekInbox, Step, Goes, TreeKept, tree
<1>2. CASE SeekBranch(p)
  BY <1>2, StillSpares DEF SeekBranch, Step, Goes, TreeKept, tree
<1>3. CASE MakeRoot(p)
  <2>1. Goes(p) /\ pc[p] # "linkInbox" /\ cut' = cut
    BY <1>3 DEF MakeRoot, Step, Goes
  <2>2. CASE UNCHANGED <<node, edges>>
    BY <2>1, <2>2, StillSpares
  <2>3. CASE Create(TreeNode("spine", "root", None)) /\ UNCHANGED edges
    <3>1. TreeNode("spine", "root", None).kind # "inbox"
      BY DEF TreeNode
    <3> QED BY <2>1, <2>3, <3>1, CreateSpares DEF Spares, TreeInv
  <2> QED BY <1>3, <2>2, <2>3 DEF MakeRoot, TreeKept, tree
<1>4. CASE MakeBranch(p)
  <2>1. Goes(p) /\ pc[p] # "linkInbox" /\ cut' = cut /\ UNCHANGED edges
    BY <1>4 DEF MakeBranch, Step, Goes
  <2>2. TreeNode("spine", Head(job[p].rest), None).kind # "inbox"
    BY DEF TreeNode
  <2>3. Create(TreeNode("spine", Head(job[p].rest), None))
    BY <1>4 DEF MakeBranch
  <2> QED BY <2>1, <2>2, <2>3, CreateSpares DEF Spares, TreeInv
<1>5. CASE LinkBranch(p)
  <2>1. Goes(p) /\ pc[p] # "linkInbox" /\ cut' = cut /\ node' = node /\ edges \subseteq edges'
    BY <1>5 DEF LinkBranch, Step, Goes
  <2> QED BY <2>1 DEF Spares, Live
<1> QED BY <1>1, <1>2, <1>3, <1>4, <1>5 DEF Seed

LEMMA WriteSpares ==
    ASSUME TreeInv, NEW p \in Procs, Write(p)
    PROVE  Spares(p)
<1>1. ASSUME NEW d \in Docs, NEW t \in Texts, Replace(p, d, t) PROVE Spares(p)
  BY <1>1, StillSpares DEF Replace, Begin, Idle, Goes, TreeKept, tree
<1>2. ASSUME NEW d \in Docs, Forget(p, d) PROVE Spares(p)
  BY <1>2, StillSpares DEF Forget, Begin, Idle, Goes, TreeKept, tree
<1>3. CASE FindTarget(p)
  BY <1>3, StillSpares DEF FindTarget, Finish, Step, Goes, TreeKept, tree
<1>4. CASE ListLeaves(p) \/ PruneNext(p)
  BY <1>4, StillSpares DEF ListLeaves, PruneNext, Step, Goes, TreeKept, tree
<1>5. CASE DropBody(p) \/ Done(p)
  BY <1>5, StillSpares DEF DropBody, Done, Finish, Step, Goes, TreeKept, tree
<1>6. CASE File(p)
  <2>1. Goes(p) /\ pc[p] # "linkInbox" /\ cut' = cut
    BY <1>6 DEF File, Finish, Step, Goes
  <2>2. CASE UNCHANGED <<node, edges>>
    BY <2>1, <2>2, StillSpares
  <2>3. CASE Create(TreeNode("leaf", job[p].text, job[p].doc)) /\ edges \subseteq edges'
    <3>1. TreeNode("leaf", job[p].text, job[p].doc).kind # "inbox"
      BY DEF TreeNode
    <3> QED BY <2>1, <2>3, <3>1, CreateSpares DEF Spares, TreeInv
  <2> QED BY <1>6, <2>2, <2>3 DEF File, TreeKept, tree
<1>7. CASE DeleteLeaf(p)
  <2> PICK k : k = job[p]
    OBVIOUS
  <2>1. Goes(p) /\ pc[p] = "delete" /\ cut' = cut
    BY <1>7 DEF DeleteLeaf, Step, Goes
  <2>2. node' = [n \in Live \ {k.cur} |-> node[n]] /\ edges' = EdgesWithout(k.cur)
    BY <1>7 DEF DeleteLeaf
  <2>3. k.cur \in Documents
    <3>1. Works("delete", k)
      BY <2>1, InHand DEF TreeInv, Pruning
    <3> QED BY <3>1 DEF Works, LeavesOf, Documents
  <2>4. \A e \in edges : e \in edges' \/ e[2] \in Documents
    <3>1. \A e \in edges : e[1] \notin Documents
      BY DEF TreeInv, TreeOK, Containers, Documents
    <3> QED BY <2>2, <2>3, <3>1 DEF EdgesWithout
  <2>5. Live' = Live \ {k.cur} /\ \A n \in Live' : node'[n] = node[n]
    BY <2>2 DEF Live
  <2> QED BY <2>1, <2>3, <2>4, <2>5 DEF Spares
<1> QED BY <1>1, <1>2, <1>3, <1>4, <1>5, <1>6, <1>7 DEF Write

LEMMA TendSpares ==
    ASSUME TreeInv, NEW p \in Procs, Tend(p), ~Crash(p), \A s \in Spines : ~Reset(p, s)
    PROVE  Spares(p)
<1>1. CASE Garden(p)
  BY <1>1, StillSpares DEF Garden, Begin, Idle, Goes, TreeKept, tree
<1>2. CASE GardenList(p) \/ GardenNext(p)
  BY <1>2, StillSpares DEF GardenList, GardenNext, Finish, Step, Goes, TreeKept, tree
<1>3. CASE Unlink(p)
  <2> PICK k : k = job[p]
    OBVIOUS
  <2>1. /\ Goes(p) /\ pc[p] = "unlink" /\ cut' = cut /\ node' = node
        /\ edges' = edges \ {<<k.cur, Upcoming(k.rows)>>}
    BY <1>3 DEF Unlink, Step, Goes
  <2>2. Works("unlink", k)
    BY <2>1, InHand DEF TreeInv, Tending
  <2>3. Upcoming(k.rows) \in Documents
    <3>1. DOMAIN k.rows # {} /\ DOMAIN k.rows \subseteq Documents
      BY <2>2 DEF Works
    <3>2. Documents \subseteq Nat
      BY LiveAreIds DEF TreeInv, TreeOK, Documents
    <3> QED BY <3>1, <3>2, LowestOf DEF Upcoming
  <2> QED BY <2>1, <2>3 DEF Spares, Live
<1>4. CASE Relink(p)
  <2>1. Goes(p) /\ pc[p] # "linkInbox" /\ cut' = cut /\ node' = node /\ edges \subseteq edges'
    BY <1>4 DEF Relink, Finish, Goes
  <2> QED BY <2>1 DEF Spares, Live
<1>5. CASE Close(p)
  BY <1>5, StillSpares DEF Close, Idle, Goes, TreeKept, tree
<1> QED BY <1>1, <1>2, <1>3, <1>4, <1>5 DEF Tend

LEMMA LinkedStep ==
    ASSUME TreeInv, TreeInv', InboxLinked, [Next]_vars
    PROVE  InboxLinked'
<1>1. CASE UNCHANGED vars
  BY <1>1 DEF vars, tree, InboxLinked, Live, Root, FindByName
<1>2. CASE Reembed
  BY <1>2 DEF Reembed, InboxLinked, Live, Root, FindByName
<1>3. ASSUME NEW p \in Procs, MakeInbox(p) PROVE InboxLinked'
  <2>1. cut' = cut /\ \E j : Goto(p, "linkInbox", j)
    BY <1>3 DEF MakeInbox, Step
  <2>2. pc'[p] = "linkInbox"
    BY <2>1, Moved DEF TreeInv
  <2> QED BY <2>1, <2>2 DEF InboxLinked
<1>4. ASSUME NEW p \in Procs, LinkInbox(p) PROVE InboxLinked'
  <2> PICK k : k = job[p]
    OBVIOUS
  <2>1. pc[p] = "linkInbox" /\ node' = node
    BY <1>4 DEF LinkInbox
  <2>2. Seeds("linkInbox", k)
    BY <2>1, InHand DEF TreeInv, Seeding
  <2>3. k.root = Root /\ k.found \in Live /\ node[k.found].kind = "inbox"
    BY <2>2 DEF Seeds
  <2>4. Live' = Live /\ Root' = Root
    BY <2>1 DEF Live, Root, FindByName
  <2>5. CASE cut' = TRUE
    BY <2>5 DEF InboxLinked
  <2>6. CASE cut' = cut /\ edges' = edges \cup {<<k.root, k.found>>}
    <3>1. \A n \in Live' : node'[n].kind = "inbox" => <<Root', n>> \in edges'
      BY <2>1, <2>3, <2>4, <2>6 DEF TreeInv, OneInbox
    <3> QED BY <2>6, <3>1 DEF InboxLinked
  <2> QED BY <1>4, <2>5, <2>6 DEF LinkInbox
<1>5. ASSUME NEW p \in Procs, Seed(p), ~MakeInbox(p), ~LinkInbox(p) PROVE InboxLinked'
  BY <1>5, SeedSpares, SparedStaysLinked
<1>6. ASSUME NEW p \in Procs, Embed(p) PROVE InboxLinked'
  <2>1. Goes(p) /\ pc[p] # "linkInbox" /\ cut' = cut /\ UNCHANGED <<node, edges>>
    BY <1>6 DEF Embed, ListMissing, EmbedConcept, EmbedDone, EmbedFails, Finish, Step, Goes,
                TreeKept, tree
  <2> QED BY <2>1, StillSpares, SparedStaysLinked
<1>7. ASSUME NEW p \in Procs, Roll(p) PROVE InboxLinked'
  <2>1. Goes(p) /\ pc[p] # "linkInbox" /\ cut' = cut /\ UNCHANGED <<node, edges>>
    BY <1>7 DEF Roll, RollNext, ReadChildren, WriteSummary, Step, Goes, TreeKept, tree
  <2> QED BY <2>1, StillSpares, SparedStaysLinked
<1>8. ASSUME NEW p \in Procs, Write(p) PROVE InboxLinked'
  BY <1>8, WriteSpares, SparedStaysLinked
<1>9. ASSUME NEW p \in Procs, Crash(p) PROVE InboxLinked'
  <2>1. /\ Goto(p, "down", NoJob) /\ UNCHANGED <<node, edges>>
        /\ cut' = (cut \/ pc[p] = "linkInbox")
    BY <1>9 DEF Crash, TreeKept, tree
  <2>2. CASE pc[p] = "linkInbox"
    BY <2>1, <2>2 DEF InboxLinked
  <2>3. CASE pc[p] # "linkInbox"
    <3>1. cut' = cut /\ Goes(p)
      BY <2>1, <2>3 DEF InboxLinked, Goes
    <3> QED BY <2>1, <2>3, <3>1, StillSpares, SparedStaysLinked
  <2> QED BY <2>2, <2>3
<1>10. ASSUME NEW p \in Procs, NEW s \in Spines, Reset(p, s) PROVE InboxLinked'
  <2>1. node' = <<>> /\ cut' = FALSE
    BY <1>10 DEF Reset
  <2>2. Live' = {}
    BY <2>1 DEF Live
  <2> QED BY <2>1, <2>2 DEF InboxLinked
<1>11. ASSUME NEW p \in Procs, Tend(p), ~Crash(p), \A s \in Spines : ~Reset(p, s)
       PROVE  InboxLinked'
  BY <1>11, TendSpares, SparedStaysLinked
<1> QED BY <1>1, <1>2, <1>3, <1>4, <1>5, <1>6, <1>7, <1>8, <1>9, <1>10, <1>11 DEF Next

LEMMA AloneKeepsLink == Spec /\ []Alone => [](TreeInv /\ InboxLinked)
<1>1. Init => InboxLinked
  <2> SUFFICES ASSUME Init PROVE InboxLinked
    OBVIOUS
  <2>1. cut = FALSE
    BY DEF Init
  <2>2. Live = {}
    <3>1. node = <<>>
      BY DEF Init
    <3> QED BY <3>1 DEF Live
  <2> QED BY <2>1, <2>2 DEF InboxLinked
<1>2. TreeInv /\ TreeInv' /\ InboxLinked /\ [Next]_vars => InboxLinked'
  BY LinkedStep
<1> QED BY <1>1, <1>2, AloneKeepsTree, PTL DEF Spec

-----------------------------------------------------------------------------
(***************************************************************************)
(* What the tree promises.                                                 *)
(***************************************************************************)
LEMMA JobsFollowPlaces ==
    ASSUME Stations, NEW p \in Procs
    PROVE  job[p] = NoJob <=> pc[p] \in {"down", "idle"}
<1>1. Stands(pc[p], job[p])
  BY DEF Stations
<1>2. NoJob.op = "none"
  BY DEF NoJob
<1>3. CASE pc[p] \in {"down", "idle"}
  BY <1>3, InHand
<1>4. CASE pc[p] \in Seeding /\ Seeds(pc[p], job[p])
  <2>1. job[p].op = "seed"
    BY <1>4 DEF Seeds, SeedJob
  <2> QED BY <1>2, <1>4, <2>1 DEF Seeding
<1>5. CASE pc[p] = "embedding" /\ Embeds(job[p])
  <2>1. job[p].op = "embed"
    BY <1>5 DEF Embeds
  <2> QED BY <1>2, <1>5, <2>1
<1>6. CASE /\ pc[p] \in {"target", "file", "dropBody", "done"} \cup Rolling \cup Pruning \cup Tending
           /\ Works(pc[p], job[p])
  <2>1. job[p].op \in {"replace", "forget", "garden"}
    BY <1>6 DEF Works, Shape
  <2> QED BY <1>2, <1>6, <2>1 DEF Rolling, Pruning, Tending
<1> QED BY <1>1, <1>3, <1>4, <1>5, <1>6 DEF Stands

\* Whatever crashes and failed statements come between two steps, the tree keeps its
\* shape, a document's text is stored exactly while a leaf carries its data id, and no
\* container quotes a document that is gone (delete_node_with_summaries, the trigger
\* on leaves), while processes take turns.
THEOREM TreeStaysSound == Spec /\ []Alone => []TreeIsSound
<1>1. TreeInv /\ InboxLinked => TreeIsSound
  <2> SUFFICES ASSUME TreeInv, InboxLinked PROVE TreeIsSound
    OBVIOUS
  <2>1. \A p \in Procs : job[p] = NoJob <=> pc[p] \in {"down", "idle"}
    BY JobsFollowPlaces DEF TreeInv
  <2>2. edges \subseteq Live \X Live
    BY DEF TreeInv, TreeOK, Containers
  <2>3. TypeOK
    BY <2>1, <2>2 DEF TypeOK, TreeInv, TreeOK, InboxLinked
  <2> QED BY <2>3 DEF TreeIsSound, TreeInv
<1> QED BY <1>1, AloneKeepsLink, PTL

\* A path that has been reached resolves, name by name, from the root.
LEMMA ReachedResolves ==
    ASSUME TreeOK, NEW path, Len(path) \in Nat, NEW n, Reached(path, Len(path), n)
    PROVE  Resolves(path)
<1> DEFINE Trail(f) == f = [i \in 0..Len(path) |->
               IF i = 0 THEN FindByName("root") ELSE ChildByName(f[i - 1], path[i])]
<1>1. PICK g \in [0..Len(path) -> Live] :
          /\ g[0] = Root
          /\ \A i \in 1..Len(path) : g[i] = ChildByName(g[i - 1], path[i])
  BY DEF Reached
<1>2. Trail(g)
  <2>1. ASSUME NEW i \in 0..Len(path)
        PROVE  g[i] = IF i = 0 THEN FindByName("root") ELSE ChildByName(g[i - 1], path[i])
    BY <1>1 DEF Root
  <2>2. g = [i \in 0..Len(path) |-> g[i]]
    BY <1>1
  <2> QED BY <2>1, <2>2
<1> DEFINE f == CHOOSE x : Trail(x)
<1>3. Trail(f)
  <2> HIDE DEF Trail
  <2> QED BY <1>2
<1>4. \A x : Trail(x) => \A i \in 0..Len(path) :
          x[i] = IF i = 0 THEN FindByName("root") ELSE ChildByName(x[i - 1], path[i])
  OBVIOUS
<1>5. Resolves(path) <=> FindByName("root") # 0 /\ \A i \in 1..Len(path) : f[i] # 0
  BY DEF Resolves
<1> HIDE DEF Trail, f
<1>6. \A i \in 0..Len(path) : f[i] = g[i]
  <2> DEFINE S == {i \in Nat : i <= Len(path) => f[i] = g[i]}
  <2>1. 0 \in S
    BY <1>2, <1>3, <1>4
  <2>2. ASSUME NEW i \in Nat, i \in S PROVE i + 1 \in S
    <3> SUFFICES ASSUME i + 1 <= Len(path) PROVE f[i + 1] = g[i + 1]
      OBVIOUS
    <3>1. f[i] = g[i] /\ i + 1 \in 0..Len(path) /\ i + 1 # 0 /\ (i + 1) - 1 = i
      BY <2>2
    <3>2. f[i + 1] = ChildByName(f[i], path[i + 1])
      BY <1>3, <1>4, <3>1
    <3>3. g[i + 1] = ChildByName(g[i], path[i + 1])
      BY <1>2, <1>4, <3>1
    <3> QED BY <3>1, <3>2, <3>3
  <2>3. Nat \subseteq S
    <3> HIDE DEF S
    <3> QED BY <2>1, <2>2, ByInduction
  <2> QED BY <2>3
<1>7. 0 \notin Live
  BY DEF TreeOK
<1>8. \A i \in 0..Len(path) : g[i] # 0
  BY <1>1, <1>7
<1> QED BY <1>1, <1>5, <1>6, <1>8 DEF Root

\* While processes take turns, an open of the workspace ends with every branch of its
\* configuration under the root, and the inbox there too, after any crashes of seeding,
\* filing or gardening and any change of configuration; what can be missing is the link
\* of an inbox that a crash came to between making it and linking it (seed_spine_from).
THEOREM SpineGetsComplete == Spec /\ []Alone => []SpineComplete
<1>1. TreeInv /\ InboxLinked /\ Alone => SpineComplete
  <2> SUFFICES ASSUME TreeInv, InboxLinked, Alone, NEW p \in Procs, pc[p] = "embed"
               PROVE  /\ Inbox # 0 /\ (cut \/ <<Root, Inbox>> \in edges)
                      /\ \A i \in DOMAIN job[p].spine : Resolves(job[p].spine[i])
    BY DEF SpineComplete, Root
  <2>1. Seeds("embed", job[p])
    BY InHand DEF TreeInv, Seeding
  <2>2. Inbox # 0 /\ Whole(job[p], Len(job[p].spine)) /\ job[p].spine \in Spines
    BY <2>1 DEF Seeds, SeedJob
  <2>3. cut \/ <<Root, Inbox>> \in edges
    <3>1. Inbox \in Live /\ node[Inbox].kind = "inbox"
      BY <2>2, InboxIs DEF TreeInv
    <3>2. ASSUME NEW q \in Procs, pc[q] = "linkInbox" PROVE FALSE
      <4>1. Active(p) /\ Active(q) /\ q # p
        BY <3>2 DEF Active
      <4> QED BY <4>1 DEF Alone
    <3> QED BY <3>1, <3>2 DEF InboxLinked
  <2>4. ASSUME NEW i \in DOMAIN job[p].spine PROVE Resolves(job[p].spine[i])
    <3>1. job[p].spine \in Seq(Seq(Names))
      BY <2>2, SpinesAreNames
    <3>2. i \in 1..Len(job[p].spine)
      BY <3>1
    <3>3. Len(job[p].spine[i]) \in Nat
      BY <3>1, <3>2
    <3>4. PICK n \in Live : Reached(job[p].spine[i], Len(job[p].spine[i]), n)
      BY <2>2, <3>2 DEF Whole
    <3> QED BY <3>3, <3>4, ReachedResolves DEF TreeInv
  <2> QED BY <2>2, <2>3, <2>4
<1> QED BY <1>1, AloneKeepsLink, PTL

\* With no crash and every process at rest, a container quotes exactly the documents it
\* holds (roll_up_from after each change).
THEOREM SummariesStayCurrent == Spec => []SummariesCurrent
<1>1. CalmInv /\ disturbed \in BOOLEAN => SummariesCurrent
  <2> SUFFICES ASSUME CalmInv, crashes = 0, ~disturbed,
                      \A p \in Procs : pc[p] \in {"idle", "down"},
                      NEW n \in Live \ Documents
               PROVE  summary[n].items \cap Documents = Children(n) \cap Documents
    BY DEF SummariesCurrent
  <2>1. TreeInv
    BY DEF CalmInv
  <2>2. n \in Containers
    BY DEF Documents, Containers
  <2>3. \A p \in Procs : Pending(pc[p], job[p]) = {}
    <3> TAKE p \in Procs
    <3>1. pc[p] \notin {"roll", "sum", "gardenNext", "unlink", "relink"}
      OBVIOUS
    <3> QED BY <3>1 DEF Pending
  <2> QED BY <2>1, <2>2, <2>3 DEF TreeInv, QuotesAll, Same, Quotes
<1> QED BY <1>1, CalmKeepsTree, PTL

\* What a step does to the leaves: it keeps each, or is the deletion of one, or a reset.
LEMMA LeavesKept ==
    ASSUME TreeOK, NEW d, node' = node \/ \E n : Create(n)
    PROVE  LeavesOf(d) \subseteq LeavesOf(d)'
<1>1. CASE node' = node
  BY <1>1 DEF LeavesOf, Live
<1>2. ASSUME NEW n, Create(n) PROVE LeavesOf(d) \subseteq LeavesOf(d)'
  <2>1. node' = [m \in Live \cup {NewId} |-> IF m = NewId THEN n ELSE node[m]]
    BY <1>2 DEF Create, With, Live
  <2>2. NewId \notin Live
    <3>1. Live \subseteq 1..made /\ made \in Nat
      BY TreeConstants DEF TreeOK
    <3> QED BY <3>1 DEF NewId
  <2>3. Live' = Live \cup {NewId} /\ \A m \in Live : node'[m] = node[m]
    BY <2>1, <2>2 DEF Live
  <2> QED BY <2>3 DEF LeavesOf
<1> QED BY <1>1, <1>2

LEMMA NodesOf ==
    ASSUME Next
    PROVE  \/ node' = node \/ \E n : Create(n) \/ node' = <<>>
           \/ \E p \in Procs : DeleteLeaf(p)
<1> DEFINE Fine == node' = node \/ \E n : Create(n) \/ node' = <<>>
<1>1. CASE Reembed
  BY <1>1 DEF Reembed
<1>2. ASSUME NEW p \in Procs, Seed(p) PROVE Fine
  <2>1. CASE (\E s \in Spines : Open(p, s)) \/ FindRoot(p) \/ SeedPath(p) \/ SeekBranch(p)
             \/ LinkBranch(p) \/ SeekInbox(p) \/ LinkInbox(p)
    BY <2>1 DEF Open, FindRoot, SeedPath, SeekBranch, LinkBranch, SeekInbox, LinkInbox,
                TreeKept, tree
  <2>2. CASE MakeRoot(p) \/ MakeBranch(p) \/ MakeInbox(p)
    <3> HIDE DEF Fine
    <3>1. \A n : Create(n) => Fine
      BY DEF Fine
    <3>2. UNCHANGED tree => Fine
      BY DEF Fine, tree
    <3> QED BY <2>2, <3>1, <3>2 DEF MakeRoot, MakeBranch, MakeInbox, TreeKept
  <2> QED BY <1>2, <2>1, <2>2 DEF Seed
<1>3. ASSUME NEW p \in Procs, Embed(p) PROVE Fine
  BY <1>3 DEF Embed, ListMissing, EmbedConcept, EmbedDone, EmbedFails, TreeKept, tree
<1>4. ASSUME NEW p \in Procs, Roll(p) PROVE Fine
  BY <1>4 DEF Roll, RollNext, ReadChildren, WriteSummary, TreeKept, tree
<1>5. ASSUME NEW p \in Procs, Write(p) PROVE Fine \/ DeleteLeaf(p)
  <2>1. ASSUME NEW d \in Docs, NEW t \in Texts, Replace(p, d, t) PROVE Fine
    BY <2>1 DEF Replace, Begin, TreeKept, tree
  <2>2. ASSUME NEW d \in Docs, Forget(p, d) PROVE Fine
    BY <2>2 DEF Forget, Begin, TreeKept, tree
  <2>3. CASE File(p)
    <3> HIDE DEF Fine
    <3>1. \A n : Create(n) => Fine
      BY DEF Fine
    <3>2. UNCHANGED tree => Fine
      BY DEF Fine, tree
    <3> QED BY <2>3, <3>1, <3>2 DEF File, TreeKept
  <2>4. CASE FindTarget(p) \/ ListLeaves(p) \/ PruneNext(p) \/ DropBody(p) \/ Done(p)
    BY <2>4 DEF FindTarget, ListLeaves, PruneNext, DropBody, Done, TreeKept, tree
  <2> QED BY <1>5, <2>1, <2>2, <2>3, <2>4 DEF Write
<1>6. ASSUME NEW p \in Procs, Tend(p) PROVE Fine
  <2>1. ASSUME NEW s \in Spines, Reset(p, s) PROVE Fine
    BY <2>1 DEF Reset
  <2>2. CASE Garden(p) \/ GardenList(p) \/ GardenNext(p) \/ Unlink(p) \/ Relink(p)
             \/ Crash(p) \/ Close(p)
    BY <2>2 DEF Garden, Begin, GardenList, GardenNext, Unlink, Relink, Crash, Close, TreeKept,
                tree
  <2> QED BY <1>6, <2>1, <2>2 DEF Tend
<1> QED BY <1>1, <1>2, <1>3, <1>4, <1>5, <1>6 DEF Next

\* While processes take turns, a filed document leaves the tree only by being forgotten,
\* or with the whole tree: a replacement that is interrupted anywhere leaves a duplicate,
\* never a loss (replace_with_body files before it prunes).
THEOREM ReplacementAlwaysKeepsOne == Spec /\ []Alone => ReplacementKeepsOne
<1> DEFINE Keeping == \A d \in Docs : LeavesOf(d) # {} /\ ~Forgetting(d) =>
                          LeavesOf(d)' # {} \/ node' = <<>>
<1>1. TreeInv /\ [Next]_vars => [Keeping]_vars
  <2> SUFFICES ASSUME TreeInv, Next, NEW d \in Docs, LeavesOf(d) # {}, ~Forgetting(d)
               PROVE  LeavesOf(d)' # {} \/ node' = <<>>
    OBVIOUS
  <2>1. CASE node' = node \/ \E n : Create(n)
    <3>1. LeavesOf(d) \subseteq LeavesOf(d)'
      BY <2>1, LeavesKept DEF TreeInv
    <3> QED BY <3>1
  <2>2. ASSUME NEW p \in Procs, DeleteLeaf(p) PROVE LeavesOf(d)' # {}
    <3> PICK j : j = job[p]
      OBVIOUS
    <3>1. pc[p] = "delete" /\ node' = [n \in Live \ {j.cur} |-> node[n]]
      BY <2>2 DEF DeleteLeaf, Step
    <3>2. Works("delete", j)
      BY <3>1, InHand DEF TreeInv, Pruning
    <3>3. /\ j.op \in {"replace", "forget", "garden"} /\ j.op # "garden"
          /\ j.cur \in LeavesOf(j.doc) /\ Keeps(j) /\ j.cur \notin Kept(j)
      BY <3>2 DEF Works, Shape, Tending, Rolling
    <3>4. LeavesOf(d)' = LeavesOf(d) \ {j.cur}
      BY <3>1 DEF LeavesOf, Live
    <3>5. CASE d = j.doc
      <4>1. j.op = "replace"
        BY <3>3, <3>5 DEF Forgetting
      <4>2. j.keep \in LeavesOf(d) \ {j.cur}
        BY <3>3, <3>5, <4>1 DEF Keeps, Kept
      <4> QED BY <3>4, <4>2
    <3>6. CASE d # j.doc
      <4>1. j.cur \notin LeavesOf(d)
        BY <3>3, <3>6 DEF LeavesOf
      <4> QED BY <3>4, <4>1
    <3> QED BY <3>5, <3>6
  <2> QED BY <2>1, <2>2, NodesOf
<1>2. ReplacementKeepsOne <=> [][Keeping]_vars
  BY DEF ReplacementKeepsOne
<1> HIDE DEF Keeping
<1> QED BY <1>1, <1>2, AloneKeepsTree, PTL DEF Spec

\* While processes take turns, an operation on a document that comes to its end has
\* healed whatever earlier crashes left behind: one leaf, under a parent, after a
\* replacement, and none after a forget (remove_leaves).
THEOREM OperationsAlwaysHeal == Spec /\ []Alone => OperationsHeal
<1> DEFINE Healing == \A p \in Procs : pc[p] = "done" /\ pc'[p] = "idle" =>
               LET S == LeavesOf(job[p].doc) IN
               /\ job[p].op = "replace" => S = {job[p].keep} /\ Parents(job[p].keep) # {}
               /\ job[p].op = "forget" => S = {}
<1>1. TreeInv => Healing
  <2> SUFFICES ASSUME TreeInv, NEW p \in Procs, pc[p] = "done"
               PROVE  LET S == LeavesOf(job[p].doc) IN
                      /\ job[p].op = "replace" => S = {job[p].keep} /\ Parents(job[p].keep) # {}
                      /\ job[p].op = "forget" => S = {}
    OBVIOUS
  <2> PICK j : j = job[p]
    OBVIOUS
  <2>1. Works("done", j)
    BY InHand DEF TreeInv
  <2>2. j.op # "garden" => LeavesOf(j.doc) = Kept(j)
    BY <2>1 DEF Works
  <2>3. Keeps(j)
    BY <2>1 DEF Works
  <2> QED BY <2>2, <2>3 DEF Keeps, Kept
<1>2. OperationsHeal <=> [][Healing]_vars
  BY DEF OperationsHeal
<1> HIDE DEF Healing
<1> QED BY <1>1, <1>2, AloneKeepsTree, PTL

\* A gardening that ran to its end, alone, leaves no document in the inbox that the
\* placement view would file (garden_inbox, "Idempotent").
THEOREM GardeningAlwaysSettles == Spec => GardeningSettles
<1> DEFINE Settling == \A p \in Procs : pc[p] = "done" /\ pc'[p] = "idle" /\ job[p].op = "garden" =>
               \/ disturbed
               \/ \A seen \in PlacementDebug :
                     seen.leaf \in InboxLeaves => seen.decision # "file"
<1>1. CalmInv /\ disturbed \in BOOLEAN => Settling
  <2> SUFFICES ASSUME CalmInv, ~disturbed, NEW p \in Procs, pc[p] = "done",
                      job[p].op = "garden",
                      NEW seen \in PlacementDebug, seen.leaf \in InboxLeaves
               PROVE  seen.decision # "file"
    OBVIOUS
  <2>1. Settled("done", job[p])
    BY DEF CalmInv, TreeInv
  <2>2. Target(node[seen.leaf].name) = {0}
    BY <2>1 DEF Settled
  <2>3. seen.decision = Decision(node[seen.leaf].name)
    BY DEF PlacementDebug
  <2> QED BY <2>2, <2>3 DEF Decision
<1>2. GardeningSettles <=> [][Settling]_vars
  BY DEF GardeningSettles
<1> HIDE DEF Settling
<1> QED BY <1>1, <1>2, CalmKeepsTree, PTL

-----------------------------------------------------------------------------
(***************************************************************************)
(* What a reader of the tree finds.                                        *)
(***************************************************************************)
Home(n) == node[n].name \in {"root", "inbox"}
InboxNamed == \A n \in Live : node[n].kind = "inbox" => node[n].name = "inbox"

\* What holds something hangs under something, up to the root or an inbox.
Hung == \A e \in edges : Home(e[1]) \/ Parents(e[1]) # {}

\* Each container has a distance from the root, one more than its parents'.
Ranks(rank) ==
    /\ rank \in [Containers -> Nat]
    /\ \A n \in Containers : rank[n] < n /\ rank[n] < Height
    /\ Live # {} => rank[Root] = 0
    /\ \A e \in edges : e[2] \in Containers => rank[e[2]] = rank[e[1]] + 1
Ranked == \E rank : Ranks(rank)

\* Only the document a gardener is moving has no parent.
NoOrphans ==
    ~disturbed => \A n \in Documents :
        Parents(n) # {} \/ \E p \in Procs : pc[p] = "relink" /\ Upcoming(job[p].rows) = n

\* What a process is about to hang something under.
Hangs(at, j) ==
    /\ at = "linkBranch" => j.at < j.found
    /\ at = "linkInbox" => j.root < j.found /\ Parents(j.found) = {} /\ Children(j.found) = {}
    /\ at = "file" => Home(j.parent) \/ Parents(j.parent) # {}
    /\ at \in {"unlink", "relink"} => Parents(j.keep) # {}

BrowseInv ==
    /\ InboxNamed /\ Hung /\ Ranked /\ NoOrphans
    /\ \A p \in Procs : Hangs(pc[p], job[p])

\* Where nothing is made, linked or deleted, the parts that speak of the tree stay.
LEMMA SameHangs ==
    ASSUME UNCHANGED <<node, edges>>
    PROVE  /\ InboxNamed => InboxNamed'
           /\ Hung => Hung'
           /\ Ranked => Ranked'
           /\ \A at, j : Hangs(at, j)' = Hangs(at, j)
           /\ Documents' = Documents /\ \A n : Parents(n)' = Parents(n)
<1>1. Live' = Live /\ Containers' = Containers /\ Documents' = Documents
  BY DEF Live, Containers, Documents
<1>2. \A n : Parents(n)' = Parents(n) /\ Children(n)' = Children(n)
  BY <1>1 DEF Parents, Children
<1>3. Root' = Root
  BY <1>1 DEF Root, FindByName
<1>4. \A n : Home(n)' = Home(n)
  BY DEF Home
<1>5. InboxNamed => InboxNamed'
  BY <1>1 DEF InboxNamed
<1>6. Hung => Hung'
  BY <1>2, <1>4 DEF Hung
<1>7. \A rank : Ranks(rank) => Ranks(rank)'
  BY <1>1, <1>3 DEF Ranks
<1>8. \A at, j : Hangs(at, j)' = Hangs(at, j)
  BY <1>2, <1>4 DEF Hangs
<1> QED BY <1>1, <1>2, <1>5, <1>6, <1>7, <1>8 DEF Ranked

Hanging == {"linkBranch", "linkInbox", "file", "unlink", "relink"}

\* A step that neither hangs nor is about to.
Idles(p) ==
    /\ \E w, j : Goto(p, w, j) /\ w # "relink" /\ Hangs(w, j)
    /\ UNCHANGED <<node, edges>>
    /\ ~disturbed' => ~disturbed /\ pc[p] # "relink"

LEMMA IdlesBrowses ==
    ASSUME TreeInv, BrowseInv, NEW p \in Procs, Idles(p)
    PROVE  BrowseInv'
<1>1. PICK w, j : Goto(p, w, j) /\ w # "relink" /\ Hangs(w, j)
  BY DEF Idles
<1>2. /\ pc'[p] = w /\ job'[p] = j
      /\ \A q \in Procs \ {p} : pc'[q] = pc[q] /\ job'[q] = job[q]
  BY <1>1, Moved DEF TreeInv
<1>3. UNCHANGED <<node, edges>>
  BY DEF Idles
<1>4. InboxNamed' /\ Hung' /\ Ranked'
  BY <1>3, SameHangs DEF BrowseInv
<1>5. NoOrphans'
  <2> SUFFICES ASSUME ~disturbed', NEW n \in Documents'
               PROVE  \/ Parents(n)' # {}
                      \/ \E q \in Procs : pc'[q] = "relink" /\ Upcoming(job'[q].rows) = n
    BY DEF NoOrphans, Upcoming, Lowest
  <2>1. ~disturbed /\ pc[p] # "relink" /\ n \in Documents
    BY <1>3, SameHangs DEF Idles
  <2>2. CASE Parents(n) # {}
    BY <1>3, <2>2, SameHangs
  <2>3. ASSUME NEW q \in Procs, pc[q] = "relink" /\ Upcoming(job[q].rows) = n
        PROVE  pc'[q] = "relink" /\ Upcoming(job'[q].rows) = n
    BY <1>2, <2>1, <2>3
  <2> QED BY <2>1, <2>2, <2>3 DEF BrowseInv, NoOrphans
<1>6. ASSUME NEW q \in Procs PROVE Hangs(pc[q], job[q])'
  <2>1. PICK at, k : at = pc'[q] /\ k = job'[q]
    OBVIOUS
  <2>2. Hangs(at, k)
    BY <1>1, <1>2, <2>1 DEF BrowseInv
  <2>3. Hangs(at, k)'
    BY <1>3, <2>2, SameHangs
  <2> QED BY <2>1, <2>3 DEF Hangs
<1> QED BY <1>4, <1>5, <1>6 DEF BrowseInv

\* A step that hangs something, beside processes at rest.
LEMMA HangsBrowses ==
    ASSUME TreeInv, Alone, NEW p \in Procs, Active(p), NEW w, NEW j, Goto(p, w, j),
           InboxNamed', Hung', Ranked', Hangs(w, j)',
           ~disturbed' => \A n \in Documents' :
               Parents(n)' # {} \/ (w = "relink" /\ Upcoming(j.rows) = n)
    PROVE  BrowseInv'
<1>1. /\ pc'[p] = w /\ job'[p] = j
      /\ \A q \in Procs \ {p} : pc'[q] = pc[q] /\ job'[q] = job[q]
  BY Moved DEF TreeInv
<1>2. \A q \in Procs \ {p} : pc'[q] \in {"idle", "down"}
  BY <1>1 DEF Alone, Active
<1>3. NoOrphans'
  BY <1>1 DEF NoOrphans, Upcoming, Lowest
<1>4. ASSUME NEW q \in Procs PROVE Hangs(pc[q], job[q])'
  <2>1. PICK at, k : at = pc'[q] /\ k = job'[q]
    OBVIOUS
  <2>2. CASE q = p
    <3>1. at = w /\ k = j
      BY <1>1, <2>1, <2>2
    <3>2. Hangs(at, k)'
      BY <3>1
    <3> QED BY <2>1, <3>2 DEF Hangs
  <2>3. CASE q # p
    BY <1>2, <2>3 DEF Hangs
  <2> QED BY <2>2, <2>3
<1> QED BY <1>3, <1>4 DEF BrowseInv

\* Beside a process in an operation, no gardener has a document in hand.
LEMMA AllHang ==
    ASSUME TreeInv, Alone, BrowseInv, ~disturbed, NEW p \in Procs, Active(p), NEW n \in Documents
    PROVE  Parents(n) # {} \/ (pc[p] = "relink" /\ Upcoming(job[p].rows) = n)
<1>1. \A q \in Procs \ {p} : pc[q] # "relink"
  BY DEF Alone, Active
<1> QED BY <1>1 DEF BrowseInv, NoOrphans

\* What placement files under has a parent.
LEMMA TargetHangs ==
    ASSUME TreeOK, NEW x, NEW t \in Target(x), t # 0
    PROVE  t \in Concepts /\ Parents(t) # {}
<1>1. t \in Candidates(x)
  BY DEF Target
<1> QED BY <1>1 DEF Candidates, Roots, Concepts

\* Of a place that nothing is hung from, there is nothing to know.
LEMMA FreeToGo ==
    ASSUME NEW w, w \notin Hanging, NEW j
    PROVE  Hangs(w, j) /\ Hangs(w, j)' /\ w # "relink"
BY DEF Hanging, Hangs

LEMMA BeginIdles ==
    ASSUME NEW p \in Procs, NEW w, w \notin Hanging, NEW j, Begin(p, w, j), disturbed \in BOOLEAN
    PROVE  Idles(p)
<1>1. Goto(p, w, j) /\ UNCHANGED <<node, edges>> /\ pc[p] = "idle"
  BY DEF Begin, Idle, TreeKept, tree
<1>2. ~disturbed' => ~disturbed
  BY DEF Begin, Overlaps
<1> QED BY <1>1, <1>2, FreeToGo DEF Idles

\* The steps of a process at work that hang nothing.
LEMMA SeedIdles ==
    ASSUME TreeInv, NEW p \in Procs, Seed(p)
    PROVE  \/ Idles(p) \/ LinkBranch(p) \/ LinkInbox(p) \/ MakeBranch(p) \/ MakeInbox(p)
           \/ (MakeRoot(p) /\ job[p].found = 0)
<1> DEFINE Free == \E w, j : Goto(p, w, j) /\ w \notin Hanging
<1>1. Free /\ UNCHANGED tree /\ (~disturbed' => ~disturbed /\ pc[p] # "relink") => Idles(p)
  BY FreeToGo DEF Idles, tree
<1>2. ASSUME NEW s \in Spines, Open(p, s) PROVE Idles(p)
  <2>1. Free /\ UNCHANGED tree
    BY <1>2 DEF Open, Hanging, TreeKept
  <2>2. ~disturbed' => ~disturbed /\ pc[p] # "relink"
    BY <1>2 DEF Open
  <2> QED BY <1>1, <2>1, <2>2
<1>3. ASSUME FindRoot(p) PROVE Idles(p)
  BY <1>3, <1>1 DEF FindRoot, Step, Hanging, TreeKept
<1>4. ASSUME MakeRoot(p), job[p].found # 0 PROVE Idles(p)
  BY <1>4, <1>1 DEF MakeRoot, Step, Hanging, TreeKept
<1>5. ASSUME SeedPath(p) PROVE Idles(p)
  <2>1. CASE job[p].left = <<>>
    BY <1>5, <1>1, <2>1 DEF SeedPath, Step, Hanging, TreeKept
  <2>2. CASE job[p].left # <<>>
    BY <1>5, <1>1, <2>2 DEF SeedPath, Step, Hanging, TreeKept
  <2> QED BY <2>1, <2>2
<1>6. ASSUME SeekBranch(p) PROVE Idles(p)
  <2>1. Free
    BY <1>6 DEF SeekBranch, Hanging
  <2> QED BY <1>6, <1>1, <2>1 DEF SeekBranch, Step, TreeKept
<1>7. ASSUME SeekInbox(p) PROVE Idles(p)
  <2>1. Free
    BY <1>7 DEF SeekInbox, Hanging
  <2> QED BY <1>7, <1>1, <2>1 DEF SeekInbox, Step, TreeKept
<1> QED BY <1>2, <1>3, <1>4, <1>5, <1>6, <1>7 DEF Seed

LEMMA EmbedIdles ==
    ASSUME NEW p \in Procs, Embed(p)
    PROVE  Idles(p)
<1>1. (\E w, j : Goto(p, w, j) /\ w \notin Hanging) /\ UNCHANGED <<node, edges>>
  BY DEF Embed, ListMissing, EmbedConcept, EmbedDone, EmbedFails, Finish, Hanging, TreeKept, tree
<1>2. UNCHANGED disturbed /\ pc[p] # "relink"
  BY DEF Embed, ListMissing, EmbedConcept, EmbedDone, EmbedFails, Step
<1> QED BY <1>1, <1>2, FreeToGo DEF Idles

LEMMA RollIdles ==
    ASSUME TreeInv, NEW p \in Procs, Roll(p)
    PROVE  Idles(p)
<1>1. UNCHANGED <<node, edges>> /\ UNCHANGED disturbed /\ pc[p] \in Rolling
  BY DEF Roll, RollNext, ReadChildren, WriteSummary, Step, TreeKept, tree, Rolling
<1>2. job[p].after \notin Hanging
  <2>1. Works(pc[p], job[p])
    BY <1>1, InHand DEF TreeInv
  <2>2. job[p].after \in {"list", "dropBody", "done"}
    BY <2>1 DEF Works, Shape
  <2> QED BY <2>2 DEF Hanging
<1>3. \E w, j : Goto(p, w, j) /\ w \notin Hanging
  <2>1. CASE RollNext(p)
    <3>1. CASE job[p].starts = <<>>
      BY <1>2, <2>1, <3>1 DEF RollNext
    <3>2. CASE job[p].starts # <<>>
      BY <2>1, <3>2 DEF RollNext, Hanging
    <3> QED BY <3>1, <3>2
  <2>2. CASE ReadChildren(p)
    BY <2>2 DEF ReadChildren, Hanging
  <2>3. CASE WriteSummary(p)
    BY <2>3 DEF WriteSummary, Hanging
  <2> QED BY <2>1, <2>2, <2>3 DEF Roll
<1> QED BY <1>1, <1>3, FreeToGo DEF Idles, Rolling

LEMMA WriteIdles ==
    ASSUME TreeInv, BrowseInv, NEW p \in Procs, Write(p)
    PROVE  Idles(p) \/ DeleteLeaf(p) \/ (File(p) /\ job[p].parent \in Live)
<1>1. (\E w, j : Goto(p, w, j) /\ w \notin Hanging) /\ UNCHANGED <<node, edges>>
      /\ (~disturbed' => ~disturbed /\ pc[p] # "relink") => Idles(p)
  BY FreeToGo DEF Idles
<1>2. ASSUME NEW d \in Docs, NEW t \in Texts, Replace(p, d, t) PROVE Idles(p)
  BY <1>2, BeginIdles DEF Replace, Hanging, TreeInv, TreeOK
<1>3. ASSUME NEW d \in Docs, Forget(p, d) PROVE Idles(p)
  BY <1>3, BeginIdles DEF Forget, Hanging, TreeInv, TreeOK
<1>4. ASSUME FindTarget(p) PROVE Idles(p)
  <2>1. pc[p] = "target" /\ UNCHANGED disturbed /\ UNCHANGED <<node, edges>>
    BY <1>4 DEF FindTarget, Step, TreeKept, tree
  <2>2. PICK t, parent :
            /\ t \in Target(job[p].text) /\ parent = (IF t = 0 THEN Inbox ELSE t)
            /\ IF parent = 0 THEN Finish(p)
                             ELSE Goto(p, "file", [job[p] EXCEPT !.parent = parent])
    BY <1>4 DEF FindTarget
  <2>3. CASE parent = 0
    BY <1>1, <2>1, <2>2, <2>3 DEF Finish, Hanging
  <2>4. CASE parent # 0
    <3>1. Home(parent) \/ Parents(parent) # {}
      <4>1. CASE t = 0
        <5>1. Inbox \in Live /\ node[Inbox].kind = "inbox"
          BY <2>2, <2>4, <4>1, InboxIs DEF TreeInv
        <5> QED BY <2>2, <4>1, <5>1 DEF BrowseInv, InboxNamed, Home
      <4>2. CASE t # 0
        BY <2>2, <4>2, TargetHangs DEF TreeInv
      <4> QED BY <4>1, <4>2
    <3>2. PICK j : j = [job[p] EXCEPT !.parent = parent] /\ Goto(p, "file", j)
      BY <2>2, <2>4
    <3>3. j.parent = parent
      <4>1. Works("target", job[p])
        BY <2>1, InHand DEF TreeInv
      <4>2. job[p] \in Shape(job[p])
        BY <4>1, WorkIs
      <4> QED BY <3>2, <4>2 DEF Shape
    <3>4. Hangs("file", j)
      BY <3>1, <3>3 DEF Hangs
    <3> QED BY <2>1, <3>2, <3>4 DEF Idles
  <2> QED BY <2>3, <2>4
<1>5. ASSUME File(p), job[p].parent \notin Live PROVE Idles(p)
  BY <1>5, <1>1 DEF File, Step, Finish, Hanging, TreeKept, tree
<1>6. ASSUME ListLeaves(p) \/ PruneNext(p) PROVE Idles(p)
  <2>1. \E w, j : Goto(p, w, j) /\ w \notin Hanging
    BY <1>6 DEF ListLeaves, PruneNext, Hanging
  <2> QED BY <1>6, <1>1, <2>1 DEF ListLeaves, PruneNext, Step, TreeKept, tree
<1>7. ASSUME DropBody(p) \/ Done(p) PROVE Idles(p)
  BY <1>7, <1>1 DEF DropBody, Done, Step, Finish, Hanging, TreeKept, tree
<1> QED BY <1>2, <1>3, <1>4, <1>5, <1>6, <1>7 DEF Write

LEMMA TendIdles ==
    ASSUME TreeInv, BrowseInv, NEW p \in Procs, Tend(p)
    PROVE  \/ Idles(p) \/ Unlink(p) \/ \E s \in Spines : Reset(p, s)
           \/ (Relink(p) /\ {job[p].keep, Upcoming(job[p].rows)} \subseteq Live)
<1>1. (\E w, j : Goto(p, w, j) /\ w \notin Hanging) /\ UNCHANGED <<node, edges>>
      /\ (~disturbed' => ~disturbed /\ pc[p] # "relink") => Idles(p)
  BY FreeToGo DEF Idles
<1>2. ASSUME Garden(p) PROVE Idles(p)
  BY <1>2, BeginIdles DEF Garden, Hanging, TreeInv, TreeOK
<1>3. ASSUME GardenList(p) PROVE Idles(p)
  <2>1. \E w, j : Goto(p, w, j) /\ w \notin Hanging
    BY <1>3 DEF GardenList, Finish, Hanging
  <2> QED BY <1>3, <1>1, <2>1 DEF GardenList, Step, TreeKept, tree
<1>4. ASSUME GardenNext(p) PROVE Idles(p)
  <2>1. pc[p] = "gardenNext" /\ UNCHANGED disturbed /\ UNCHANGED <<node, edges>>
    BY <1>4 DEF GardenNext, Step, TreeKept, tree
  <2>2. CASE \E w, j : Goto(p, w, j) /\ w \notin Hanging
    BY <1>1, <2>1, <2>2
  <2>3. CASE \A w, j : Goto(p, w, j) => w \in Hanging
    <3>1. PICK t \in Target(job[p].rows[Upcoming(job[p].rows)]) :
              t # 0 /\ Goto(p, "unlink", [job[p] EXCEPT !.keep = t])
      BY <1>4, <2>3 DEF GardenNext, Hanging
    <3>2. Parents(t) # {}
      BY <3>1, TargetHangs DEF TreeInv
    <3>3. PICK j : j = [job[p] EXCEPT !.keep = t] /\ Goto(p, "unlink", j)
      BY <3>1
    <3>4. j.keep = t
      <4>1. Works("gardenNext", job[p])
        BY <2>1, InHand DEF TreeInv, Tending
      <4>2. job[p] \in Shape(job[p])
        BY <4>1, WorkIs
      <4> QED BY <3>3, <4>2 DEF Shape
    <3>5. Hangs("unlink", j)
      BY <3>2, <3>4 DEF Hangs
    <3> QED BY <2>1, <3>3, <3>5 DEF Idles
  <2> QED BY <2>2, <2>3
<1>5. ASSUME Relink(p), ~({job[p].keep, Upcoming(job[p].rows)} \subseteq Live) PROVE Idles(p)
  <2>1. Finish(p) /\ disturbed' = TRUE /\ UNCHANGED <<node, edges>>
    BY <1>5 DEF Relink
  <2> QED BY <1>1, <2>1 DEF Finish, Hanging
<1>6. ASSUME Crash(p) PROVE Idles(p)
  <2>1. disturbed' = (disturbed \/ (job[p].op = "garden")) /\ Goto(p, "down", NoJob)
        /\ UNCHANGED <<node, edges>>
    BY <1>6 DEF Crash, TreeKept, tree
  <2>2. pc[p] = "relink" => job[p].op = "garden"
    <3>1. pc[p] = "relink" => Works("relink", job[p])
      BY InHand DEF TreeInv, Tending
    <3> QED BY <3>1 DEF Works, Tending
  <2>3. ~disturbed' => ~disturbed /\ pc[p] # "relink"
    BY <2>1, <2>2 DEF TreeInv, TreeOK
  <2> QED BY <1>1, <2>1, <2>3 DEF Hanging
<1>7. ASSUME Close(p) PROVE Idles(p)
  BY <1>7, <1>1 DEF Close, Idle, Hanging, TreeKept, tree
<1> QED BY <1>2, <1>3, <1>4, <1>5, <1>6, <1>7 DEF Tend

\* The distances stay while the containers and the edges between them do.
LEMMA RanksStay ==
    ASSUME Ranked, Containers' = Containers, Root' = Root, Live # {},
           \A e \in edges' : e[2] \in Containers => e \in edges
    PROVE  Ranked'
<1>1. PICK rank : Ranks(rank)
  BY DEF Ranked
<1>2. Ranks(rank)'
  BY <1>1 DEF Ranks
<1> QED BY <1>2 DEF Ranked

LEMMA RootIs ==
    ASSUME TreeInv, Live # {}
    PROVE  /\ Root \in Containers /\ Root \in Live /\ Home(Root) /\ Root \in Nat /\ Root >= 1
           /\ \A n \in Live : Root <= n
<1>1. Root \in Concepts /\ \A n \in Live : Root <= n
  BY DEF TreeInv, Rooted
<1>2. Root \in Containers /\ Root \in Live
  BY <1>1 DEF Concepts, Containers
<1>3. Live \subseteq 1..made /\ made \in Nat
  BY DEF TreeInv, TreeOK
<1>4. Home(Root)
  <2> DEFINE S == {n \in Live : node[n].name = "root"}
  <2>1. S \subseteq Nat \ {0} /\ Root = Lowest(S)
    <3>1. Root = Lowest(S)
      BY DEF Root, FindByName
    <3>2. Live \subseteq Nat \ {0} /\ S \subseteq Live
      BY <1>3
    <3> QED BY <3>1, <3>2
  <2>2. Lowest(S) # 0
    <3>1. Root # 0
      BY <1>2, <1>3
    <3> HIDE DEF S
    <3> QED BY <2>1, <3>1
  <2>3. Lowest(S) \in S
    <3> HIDE DEF S
    <3> QED BY <2>1, <2>2, LowestSome
  <2> QED BY <2>1, <2>3 DEF Home
<1> QED BY <1>1, <1>2, <1>3, <1>4

\* Where the names of a path lead hangs under the root, as far from it as the path is long.
LEMMA ReachedRank ==
    ASSUME TreeInv, Live # {}, NEW path, NEW k \in Nat, NEW n, Reached(path, k, n)
    PROVE  /\ Home(n) \/ Parents(n) # {}
           /\ \A rank : Ranks(rank) => rank[n] = k
<1>1. PICK g \in [0..k -> Live] :
          /\ g[0] = Root /\ g[k] = n
          /\ \A i \in 1..k : g[i] = ChildByName(g[i - 1], path[i])
  BY DEF Reached
<1>2. 0 \notin Live
  BY DEF TreeInv, TreeOK
<1>3. ASSUME NEW i \in 1..k
      PROVE  /\ g[i] \in Children(g[i - 1]) \cap Concepts
             /\ <<g[i - 1], g[i]>> \in edges /\ g[i] \in Containers /\ g[i - 1] \in Live
  <2>1. i - 1 \in 0..k /\ i \in 0..k
    OBVIOUS
  <2>2. g[i] # 0 /\ g[i] = ChildByName(g[i - 1], path[i]) /\ g[i - 1] \in Live
    BY <1>1, <1>2, <2>1
  <2>3. g[i] \in Children(g[i - 1]) \cap Concepts
    BY <2>2, ChildIs DEF TreeInv
  <2> QED BY <2>2, <2>3 DEF Children, Concepts, Containers
<1>4. Home(n) \/ Parents(n) # {}
  <2>1. CASE k = 0
    BY <1>1, <2>1, RootIs
  <2>2. CASE k # 0
    <3>1. k \in 1..k
      BY <2>2
    <3>2. g[k - 1] \in Parents(n)
      BY <1>1, <1>3, <3>1 DEF Parents
    <3> QED BY <3>2
  <2> QED BY <2>1, <2>2
<1>5. ASSUME NEW rank, Ranks(rank) PROVE rank[n] = k
  <2> DEFINE S == {i \in Nat : i <= k => rank[g[i]] = i}
  <2>1. 0 \in S
    BY <1>1, <1>5 DEF Ranks
  <2>2. ASSUME NEW i \in Nat, i \in S PROVE i + 1 \in S
    <3> SUFFICES ASSUME i + 1 <= k PROVE rank[g[i + 1]] = i + 1
      OBVIOUS
    <3>1. i + 1 \in 1..k /\ (i + 1) - 1 = i /\ rank[g[i]] = i
      BY <2>2
    <3>2. <<g[i], g[i + 1]>> \in edges /\ g[i + 1] \in Containers
      BY <1>3, <3>1
    <3>3. rank[g[i + 1]] = rank[g[i]] + 1
      BY <1>5, <3>2 DEF Ranks
    <3> QED BY <3>1, <3>3
  <2>3. Nat \subseteq S
    <3> HIDE DEF S
    <3> QED BY <2>1, <2>2, ByInduction
  <2> QED BY <1>1, <2>3
<1> QED BY <1>4, <1>5

\* A container made beside others.
LEMMA MadeBrowses ==
    ASSUME TreeInv, TreeInv', Alone, BrowseInv, Live # {}, NEW p \in Procs, Active(p), pc[p] # "relink",
           NEW kind \in {"spine", "inbox"}, NEW name \in Names, kind = "inbox" => name = "inbox",
           Create(TreeNode(kind, name, None)), UNCHANGED <<edges, vec, body>>,
           UNCHANGED <<crashes, ops, disturbed>>, NEW new, new = NewId,
           NEW w, w # "relink", NEW j, Goto(p, w, j), Hangs(w, j)'
    PROVE  BrowseInv'
<1>1. /\ made' = new /\ new \notin Live /\ Live' = Live \cup {new}
      /\ \A n \in Live : n < new /\ node'[n] = node[n]
      /\ node'[new] = TreeNode(kind, name, None)
      /\ \A n : Parents(n)' = Parents(n)
      /\ Containers' = Containers \cup {new} /\ Documents' = Documents
  BY ContainerMade
<1>2. edges \subseteq Containers \X Live /\ Containers \subseteq Live /\ new \in Nat /\ new >= 1
  BY DEF TreeInv, TreeOK, Containers, NewId
<1>3. Root' = Root
  BY AnotherMade
<1>4. node'[new].kind = kind /\ node'[new].name = name
  BY <1>1 DEF TreeNode
<1>5. InboxNamed'
  BY <1>1, <1>4 DEF InboxNamed, BrowseInv
<1>6. Hung'
  <2>1. \A n \in Live : Home(n)' = Home(n)
    BY <1>1 DEF Home
  <2> QED BY <1>1, <1>2, <2>1 DEF Hung, BrowseInv
<1>7. Ranked'
  <2>1. PICK rank : Ranks(rank)
    BY DEF BrowseInv, Ranked
  <2> DEFINE more == [n \in Containers \cup {new} |-> IF n = new THEN 0 ELSE rank[n]]
  <2>2. more \in [Containers' -> Nat] /\ more[new] = 0 /\ \A n \in Containers : more[n] = rank[n]
    BY <1>1, <1>2, <2>1 DEF Ranks
  <2> HIDE DEF more
  <2>3. \A n \in Containers' : more[n] < n /\ more[n] < Height
    BY <1>1, <1>2, <2>1, <2>2, HeightOK DEF Ranks
  <2>4. more[Root'] = 0
    BY <1>3, <2>1, <2>2, RootIs DEF Ranks
  <2>5. \A e \in edges' : e[2] \in Containers' => more[e[2]] = more[e[1]] + 1
    <3> SUFFICES ASSUME NEW e \in edges, e[2] \in Containers'
                 PROVE  more[e[2]] = more[e[1]] + 1
      OBVIOUS
    <3>1. e[1] \in Containers /\ e[2] \in Containers
      BY <1>1, <1>2
    <3> QED BY <2>1, <2>2, <3>1 DEF Ranks
  <2> QED BY <2>2, <2>3, <2>4, <2>5 DEF Ranked, Ranks
<1>8. ~disturbed' => \A n \in Documents' :
          Parents(n)' # {} \/ (w = "relink" /\ Upcoming(j.rows) = n)
  BY <1>1, AllHang
<1> QED BY <1>5, <1>6, <1>7, <1>8, HangsBrowses

LEMMA MakeRootBrowses ==
    ASSUME TreeInv, TreeInv', Alone, BrowseInv, NEW p \in Procs, MakeRoot(p), job[p].found = 0
    PROVE  BrowseInv'
<1>1. pc[p] = "makeRoot" /\ Seeds("makeRoot", job[p]) /\ Active(p)
  BY InHand DEF MakeRoot, Step, TreeInv, Seeding, Active
<1>2. PICK new : new = NewId
  OBVIOUS
<1>3. /\ Create(TreeNode("spine", "root", None)) /\ UNCHANGED <<edges, vec, body>>
      /\ UNCHANGED <<crashes, ops, disturbed>>
  BY DEF MakeRoot, Step
<1>4. PICK j : Goto(p, "seedPath", j)
  BY DEF MakeRoot
<1>5. Live = {}
  <2>1. Root = 0
    BY <1>1 DEF Seeds
  <2>2. 0 \notin Live
    BY DEF TreeInv, TreeOK
  <2> QED BY <2>1, <2>2 DEF TreeInv, Rooted, Concepts
<1>6. /\ Live' = {new} /\ new \in Nat /\ new >= 1 /\ node'[new] = TreeNode("spine", "root", None)
      /\ Containers' = Containers \cup {new} /\ Documents' = Documents
  <2>1. "spine" \in {"spine", "inbox"} /\ "root" \in Names
    BY DEF Names
  <2>2. new \in Nat /\ new >= 1
    BY <1>2 DEF NewId, TreeInv, TreeOK
  <2> QED BY <1>2, <1>3, <1>5, <2>1, <2>2, ContainerMade
<1>7. Containers' = {new} /\ Documents' = {} /\ edges' = {} /\ node'[new].kind = "spine"
  BY <1>3, <1>5, <1>6 DEF Containers, Documents, TreeInv, TreeOK, TreeNode
<1>8. InboxNamed' /\ Hung'
  BY <1>6, <1>7 DEF InboxNamed, Hung
<1>9. Ranked'
  <2>1. Root' = new
    BY <1>6 DEF TreeInv, Rooted, Concepts
  <2> DEFINE rank == [n \in {new} |-> 0]
  <2>2. rank \in [{new} -> Nat] /\ rank[new] = 0
    OBVIOUS
  <2> HIDE DEF rank
  <2>3. Ranks(rank)'
    BY <1>6, <1>7, <2>1, <2>2, HeightOK DEF Ranks
  <2> QED BY <2>3 DEF Ranked
<1>10. Hangs("seedPath", j)'
  BY FreeToGo DEF Hanging
<1> QED BY <1>1, <1>4, <1>7, <1>8, <1>9, <1>10, HangsBrowses

LEMMA MakeBranchBrowses ==
    ASSUME TreeInv, TreeInv', Alone, BrowseInv, NEW p \in Procs, MakeBranch(p)
    PROVE  BrowseInv'
<1>0. PICK k : k = job[p]
  OBVIOUS
<1>1. pc[p] = "makeBranch" /\ Seeds("makeBranch", k) /\ Active(p)
  BY <1>0, InHand DEF MakeBranch, Step, TreeInv, Seeding, Active
<1>2. /\ k \in SeedJob /\ Live # {} /\ OnPath(k) /\ Head(k.rest) \in Names
  <2>1. k.rest # <<>>
    BY <1>1 DEF Seeds
  <2> QED BY <1>1, <2>1, PathIs
<1>3. PICK new, name : new = NewId /\ name = Head(k.rest)
  OBVIOUS
<1>4. /\ Create(TreeNode("spine", name, None)) /\ UNCHANGED <<edges, vec, body>>
      /\ UNCHANGED <<crashes, ops, disturbed>> /\ name \in Names /\ "spine" \in {"spine", "inbox"}
  BY <1>0, <1>2, <1>3 DEF MakeBranch, Step
<1>5. \A n \in Live : n < new
  BY <1>3, <1>4, ContainerMade
<1>6. PICK j : j = [k EXCEPT !.found = new] /\ Goto(p, "linkBranch", j)
  BY <1>0, <1>3 DEF MakeBranch
<1>7. j.at = k.at /\ j.found = new
  BY <1>2, <1>6 DEF SeedJob
<1>8. Hangs("linkBranch", j)'
  BY <1>2, <1>5, <1>7 DEF OnPath, Concepts, Hangs
<1> QED BY <1>1, <1>2, <1>3, <1>4, <1>6, <1>8, MadeBrowses

LEMMA MakeInboxBrowses ==
    ASSUME TreeInv, TreeInv', Alone, BrowseInv, NEW p \in Procs, MakeInbox(p)
    PROVE  BrowseInv'
<1>0. PICK k : k = job[p]
  OBVIOUS
<1>1. pc[p] = "makeInbox" /\ Seeds("makeInbox", k) /\ Active(p)
  BY <1>0, InHand DEF MakeInbox, Step, TreeInv, Seeding, Active
<1>2. /\ k \in SeedJob /\ Live # {} /\ k.root = Root
  BY <1>1 DEF Seeds
<1>3. PICK new : new = NewId
  OBVIOUS
<1>4. /\ Create(TreeNode("inbox", "inbox", None)) /\ UNCHANGED <<edges, vec, body>>
      /\ UNCHANGED <<crashes, ops, disturbed>> /\ "inbox" \in Names /\ "inbox" \in {"spine", "inbox"}
  BY <1>0, <1>3 DEF MakeInbox, Step, Names
<1>5. /\ \A n \in Live : n < new
      /\ \A n : Children(n)' = Children(n) /\ Parents(n)' = Parents(n)
      /\ Children(new) = {} /\ Parents(new) = {}
  BY <1>3, <1>4, ContainerMade
<1>6. PICK j : j = [k EXCEPT !.found = new] /\ Goto(p, "linkInbox", j)
  BY <1>0, <1>3 DEF MakeInbox
<1>7. j.root = k.root /\ j.found = new
  BY <1>2, <1>6 DEF SeedJob
<1>8. Hangs("linkInbox", j)'
  BY <1>2, <1>5, <1>7, RootIs DEF Hangs
<1> QED BY <1>1, <1>2, <1>3, <1>4, <1>6, <1>8, MadeBrowses

\* A container with nothing above or below it is hung.
LEMMA LinkedBrowses ==
    ASSUME TreeInv, TreeInv', Alone, BrowseInv, Live # {}, NEW p \in Procs, Active(p),
           pc[p] # "relink", NEW up \in Containers, Home(up) \/ Parents(up) # {},
           NEW new \in Containers, up < new, Parents(new) = {}, Children(new) = {},
           \A rank : Ranks(rank) => rank[up] + 1 < Height,
           edges' = edges \cup {<<up, new>>},
           UNCHANGED <<node, summary, vec, body, made, crashes, ops, disturbed>>,
           NEW w, w \notin Hanging, NEW j, Goto(p, w, j)
    PROVE  BrowseInv'
<1>1. Live' = Live /\ Containers' = Containers /\ Documents' = Documents /\ Root' = Root
  BY DEF Live, Containers, Documents, Root, FindByName
<1>2. \A n : Parents(n) \subseteq Parents(n)'
  BY <1>1 DEF Parents
<1>3. \A n : Home(n)' = Home(n)
  BY DEF Home
<1>4. InboxNamed'
  BY <1>1 DEF InboxNamed, BrowseInv
<1>5. Hung'
  BY <1>2, <1>3 DEF Hung, BrowseInv
<1>6. edges \subseteq Containers \X Live /\ Containers \subseteq Nat \ {0} /\ Containers \subseteq Live
  BY DEF TreeInv, TreeOK, Containers
<1>7. Ranked'
  <2>1. PICK rank : Ranks(rank)
    BY DEF BrowseInv, Ranked
  <2>2. rank \in [Containers -> Nat] /\ rank[up] < up
    BY <2>1 DEF Ranks
  <2>3. PICK h \in Nat : h = rank[up]
    BY <2>2
  <2>4. h < up /\ h + 1 < Height /\ h + 1 < new
    <3>1. up \in Nat /\ new \in Nat
      BY <1>6
    <3> QED BY <2>1, <2>2, <2>3, <3>1
  <2> DEFINE more == [n \in Containers |-> IF n = new THEN h + 1 ELSE rank[n]]
  <2>5. more \in [Containers -> Nat] /\ more[new] = h + 1
        /\ \A n \in Containers : n # new => more[n] = rank[n]
    BY <2>2, <2>3
  <2> HIDE DEF more
  <2>6. \A n \in Containers : more[n] < n /\ more[n] < Height
    BY <2>1, <2>4, <2>5 DEF Ranks
  <2>7. up # new /\ more[up] = h
    <3>1. up # new
      BY <1>6
    <3> QED BY <2>3, <2>5, <3>1
  <2>8. more[Root] = 0
    <3>1. Root # new
      BY <1>6, RootIs
    <3> QED BY <2>1, <2>5, <3>1, RootIs DEF Ranks
  <2>9. ASSUME NEW e \in edges', e[2] \in Containers PROVE more[e[2]] = more[e[1]] + 1
    <3>1. CASE e = <<up, new>>
      BY <2>5, <2>7, <3>1
    <3>2. CASE e \in edges
      <4>1. e[1] \in Containers /\ e[1] \in Live /\ e[2] \in Live /\ e = <<e[1], e[2]>>
        <5>1. e \in Containers \X Live
          BY <1>6, <3>2
        <5>2. e[1] \in Containers /\ e[2] \in Live /\ e = <<e[1], e[2]>>
          BY <5>1
        <5> QED BY <1>6, <5>2
      <4>2. e[1] # new
        BY <3>2, <4>1 DEF Children
      <4>3. e[2] # new
        BY <3>2, <4>1 DEF Parents
      <4> QED BY <2>1, <2>5, <2>9, <3>2, <4>1, <4>2, <4>3 DEF Ranks
    <3> QED BY <3>1, <3>2
  <2> QED BY <1>1, <2>5, <2>6, <2>8, <2>9 DEF Ranked, Ranks
<1>8. ~disturbed' => \A n \in Documents' :
          Parents(n)' # {} \/ (w = "relink" /\ Upcoming(j.rows) = n)
  BY <1>1, <1>2, AllHang
<1> QED BY <1>4, <1>5, <1>7, <1>8, FreeToGo, HangsBrowses

LEMMA LinkBranchBrowses ==
    ASSUME TreeInv, TreeInv', Alone, BrowseInv, NEW p \in Procs, LinkBranch(p)
    PROVE  BrowseInv'
<1>0. PICK k : k = job[p]
  OBVIOUS
<1>1. pc[p] = "linkBranch" /\ Seeds("linkBranch", k) /\ Active(p)
  BY <1>0, InHand DEF LinkBranch, Step, TreeInv, Seeding, Active
<1>2. PICK at, new, path, rest : at = k.at /\ new = k.found /\ path = k.spine[Begun(k)] /\ rest = k.rest
  OBVIOUS
<1>3. /\ Live # {} /\ OnPath(k) /\ rest \in Seq(Names) /\ path \in Seq(Names)
      /\ IsEndOf(rest, path) /\ Begun(k) \in 1..Len(k.spine) /\ k.spine \in Spines
      /\ k.spine \in Seq(Seq(Names))
  BY <1>1, <1>2, PathIs, SpinesAreNames DEF SeedJob
<1>4. /\ at \in Concepts /\ at \in Containers /\ at \in Live /\ new \in Containers /\ new \in Live
      /\ new = made /\ Parents(new) = {} /\ Children(new) = {} /\ rest # <<>>
  BY <1>1, <1>2, <1>3 DEF Seeds, OnPath, Concepts, Containers
<1>5. Reached(path, Len(path) - Len(rest), at)
  BY <1>2, <1>3 DEF OnPath
<1>6. PICK a \in Nat, b \in Nat : a = Len(path) /\ b = Len(rest) /\ b # 0 /\ b <= a
  BY <1>3, <1>4 DEF IsEndOf
<1>7. a - b \in Nat
  BY <1>6
<1>8. (Home(at) \/ Parents(at) # {}) /\ \A rank : Ranks(rank) => rank[at] = a - b
  BY <1>3, <1>5, <1>6, <1>7, ReachedRank
<1>9. at < new
  BY <1>0, <1>1, <1>2 DEF BrowseInv, Hangs
<1>10. ASSUME NEW rank, Ranks(rank) PROVE rank[at] + 1 < Height
  <2>1. rank[at] = a - b /\ rank[at] < at
    BY <1>4, <1>8, <1>10 DEF Ranks
  <2>2. new \in 1..MaxNodes /\ MaxNodes \in Nat /\ MaxNodes # 0 /\ at \in Nat
    <3>1. Live \subseteq 1..made /\ made \in 0..MaxNodes /\ MaxNodes \in Nat
      BY TreeConstants DEF TreeInv, TreeOK
    <3> QED BY <1>4, <3>1
  <2>3. CASE Height = 1 + MaxNodes
    BY <1>7, <1>9, <2>1, <2>2, <2>3
  <2>4. CASE \A s \in Spines : \A q \in ToSet(s) : Len(q) < Height
    <3>1. path \in ToSet(k.spine)
      BY <1>2, <1>3 DEF ToSet
    <3>2. a < Height
      BY <1>3, <1>6, <2>4, <3>1
    <3> QED BY <1>6, <2>1, <3>2, HeightOK
  <2> QED BY <2>2, <2>3, <2>4, HeightOK
<1>11. PICK j : Goto(p, "seekBranch", j)
  BY <1>0, <1>2, <1>4 DEF LinkBranch
<1>12. /\ edges' = edges \cup {<<at, new>>}
       /\ UNCHANGED <<node, summary, vec, body, made, crashes, ops, disturbed>>
  BY <1>0, <1>2, <1>4 DEF LinkBranch, Step
<1>13. "seekBranch" \notin Hanging
  BY DEF Hanging
<1> QED BY <1>1, <1>3, <1>4, <1>8, <1>9, <1>10, <1>11, <1>12, <1>13, LinkedBrowses

LEMMA LinkInboxBrowses ==
    ASSUME TreeInv, TreeInv', Alone, BrowseInv, NEW p \in Procs, LinkInbox(p)
    PROVE  BrowseInv'
<1>0. PICK k : k = job[p]
  OBVIOUS
<1>1. pc[p] = "linkInbox" /\ Seeds("linkInbox", k) /\ Active(p)
  BY <1>0, InHand DEF LinkInbox, Step, TreeInv, Seeding, Active
<1>2. PICK new : new = k.found
  OBVIOUS
<1>3. Live # {} /\ k.root = Root /\ new = made /\ new \in Live /\ node[new].kind = "inbox"
  BY <1>1, <1>2 DEF Seeds
<1>4. new \in Containers /\ Root \in Containers /\ Root \in Live /\ Home(Root)
  BY <1>3, RootIs DEF Containers
<1>5. Root < new /\ Parents(new) = {} /\ Children(new) = {}
  BY <1>0, <1>1, <1>2, <1>3 DEF BrowseInv, Hangs
<1>6. ASSUME NEW rank, Ranks(rank) PROVE rank[Root] + 1 < Height
  <2>1. rank[Root] = 0
    BY <1>3, <1>6 DEF Ranks
  <2>2. MaxNodes # 0
    BY <1>3 DEF TreeInv, TreeOK
  <2>3. Height \in Nat /\ Height >= 2 /\ Root \in Nat /\ new \in Nat /\ Root >= 1
    BY <1>3, <2>2, HeightOK, RootIs DEF TreeInv, TreeOK
  <2>4. Height > 1 + 0
    BY <2>3
  <2> QED BY <2>1, <2>4
<1>7. PICK j : Goto(p, "embed", j)
  BY <1>0, <1>2, <1>3, <1>4 DEF LinkInbox
<1>8. /\ edges' = edges \cup {<<Root, new>>}
      /\ UNCHANGED <<node, summary, vec, body, made, crashes, ops, disturbed>>
  BY <1>0, <1>2, <1>3, <1>4 DEF LinkInbox, Step
<1>9. "embed" \notin Hanging
  BY DEF Hanging
<1> QED BY <1>1, <1>3, <1>4, <1>5, <1>6, <1>7, <1>8, <1>9, LinkedBrowses

LEMMA FileBrowses ==
    ASSUME TreeInv, TreeInv', Alone, BrowseInv, NEW p \in Procs, File(p), job[p].parent \in Live
    PROVE  BrowseInv'
<1>0. PICK parent, new : parent = job[p].parent /\ new = NewId
  OBVIOUS
<1>1. /\ pc[p] = "file" /\ Active(p) /\ UNCHANGED disturbed /\ parent \in Live
      /\ Hangs("file", job[p])
  BY <1>0 DEF File, Step, Active, BrowseInv
<1>2. Home(parent) \/ Parents(parent) # {}
  BY <1>0, <1>1 DEF Hangs
<1>3. PICK x : Create(TreeNode("leaf", x, job[p].doc))
  BY DEF File
<1>4. edges' = edges \cup {<<parent, new>>} /\ \E j : Goto(p, "roll", j)
  BY <1>0, <1>1 DEF File
<1>5. made \in Nat /\ new = made + 1 /\ Live \subseteq 1..made
  BY <1>0 DEF NewId, TreeInv, TreeOK
<1>6. new \notin Live /\ \A n \in Live : n < new
  BY <1>5
<1>7. node' = [n \in Live \cup {new} |-> IF n = new THEN TreeNode("leaf", x, job[p].doc)
                                                    ELSE node[n]]
  BY <1>0, <1>3 DEF Create, With, Live
<1>8. /\ Live' = Live \cup {new} /\ \A n \in Live : node'[n] = node[n]
      /\ node'[new].kind = "leaf"
  BY <1>6, <1>7 DEF Live, TreeNode
<1>9. edges \subseteq Containers \X Live /\ Containers \subseteq Live
  BY DEF TreeInv, TreeOK, Containers
<1>10. Containers' = Containers /\ Documents' = Documents \cup {new}
  BY <1>6, <1>8 DEF Containers, Documents
<1>11. \A n : Parents(n) \subseteq Parents(n)' /\ parent \in Parents(new)'
  BY <1>1, <1>4, <1>8 DEF Parents
<1>12. \A n \in Live : Home(n)' = Home(n)
  BY <1>8 DEF Home
<1>13. InboxNamed'
  BY <1>8 DEF InboxNamed, BrowseInv
<1>14. Hung'
  <2> SUFFICES ASSUME NEW e \in edges' PROVE Home(e[1])' \/ Parents(e[1])' # {}
    BY DEF Hung
  <2>1. e[1] \in Live /\ (Home(e[1]) \/ Parents(e[1]) # {})
    BY <1>1, <1>2, <1>4, <1>9 DEF Hung, BrowseInv
  <2> QED BY <2>1, <1>11, <1>12
<1>15. Ranked'
  <2>1. Root' = Root /\ Live # {}
    <3>1. Live # {}
      BY <1>1
    <3>2. Root \in Live /\ Root \in Nat /\ \A n \in Live : Root <= n
      BY <3>1, RootIs
    <3>3. \A n \in Live' : Root <= n
      BY <1>5, <1>6, <1>8, <3>2
    <3> QED BY <1>8, <3>1, <3>2, <3>3, RootStays
  <2>2. \A e \in edges' : e[2] \in Containers => e \in edges
    BY <1>4, <1>6, <1>9
  <2> QED BY <1>10, <2>1, <2>2, RanksStay DEF BrowseInv
<1>16. ~disturbed' => \A n \in Documents' : Parents(n)' # {}
  BY <1>1, <1>10, <1>11, AllHang
<1>17. "roll" \notin Hanging
  BY DEF Hanging
<1> QED BY <1>1, <1>4, <1>13, <1>14, <1>15, <1>16, <1>17, FreeToGo, HangsBrowses

LEMMA DeleteLeafBrowses ==
    ASSUME TreeInv, TreeInv', Alone, BrowseInv, NEW p \in Procs, DeleteLeaf(p)
    PROVE  BrowseInv'
<1>0. PICK k, leaf : k = job[p] /\ leaf = k.cur
  OBVIOUS
<1>1. pc[p] = "delete" /\ Works("delete", k) /\ Active(p) /\ UNCHANGED disturbed
      /\ Goto(p, "prune", k)
  BY <1>0, InHand DEF DeleteLeaf, Step, TreeInv, Active, Pruning
<1>2. leaf \in LeavesOf(k.doc)
  BY <1>0, <1>1 DEF Works
<1>3. leaf \in Live /\ leaf \in Documents /\ leaf \notin Containers
  BY <1>2 DEF LeavesOf, Documents, Containers
<1>4. edges \subseteq Containers \X Live /\ Containers \subseteq Live
  BY DEF TreeInv, TreeOK, Containers
<1>5. /\ node' = [n \in Live \ {leaf} |-> node[n]]
      /\ edges' = {e \in edges : leaf \notin {e[1], e[2]}}
  BY <1>0 DEF DeleteLeaf, EdgesWithout
<1>6. Live' = Live \ {leaf} /\ \A n \in Live' : node'[n] = node[n]
  BY <1>5 DEF Live
<1>7. Containers' = Containers /\ Documents' = Documents \ {leaf} /\ Containers \subseteq Live'
  BY <1>3, <1>4, <1>6 DEF Containers, Documents
<1>8. \A n : n # leaf => Parents(n)' = Parents(n)
  BY <1>3, <1>4, <1>5, <1>6 DEF Parents
<1>9. InboxNamed'
  BY <1>6 DEF InboxNamed, BrowseInv
<1>10. Hung'
  <2> SUFFICES ASSUME NEW e \in edges' PROVE Home(e[1])' \/ Parents(e[1])' # {}
    BY DEF Hung
  <2>1. e \in edges /\ e[1] # leaf
    BY <1>5
  <2>2. e[1] \in Containers
    BY <1>4, <2>1
  <2>3. Home(e[1])' = Home(e[1])
    BY <1>6, <1>7, <2>2 DEF Home
  <2> QED BY <1>8, <2>1, <2>3 DEF BrowseInv, Hung
<1>11. Ranked'
  <2>1. Live # {} /\ Root \in Live'
    BY <1>3, <1>7, RootIs
  <2>2. \A n \in Live' : Root <= n
    BY <1>6, <2>1, RootIs
  <2>3. Root' = Root
    BY <2>1, <2>2, RootStays
  <2> QED BY <1>5, <1>7, <2>1, <2>3, RanksStay DEF BrowseInv
<1>12. ~disturbed' => \A n \in Documents' : Parents(n)' # {}
  BY <1>1, <1>7, <1>8, AllHang
<1>13. "prune" \notin Hanging
  BY DEF Hanging
<1> QED BY <1>1, <1>9, <1>10, <1>11, <1>12, <1>13, FreeToGo, HangsBrowses

\* A document moves.
LEMMA MoveBrowses ==
    ASSUME TreeInv, BrowseInv, NEW up \in Documents, edges' \subseteq Containers \X Live,
           \A n, m : m # up => (<<n, m>> \in edges' <=> <<n, m>> \in edges),
           \A e \in edges' \ edges : Home(e[1]) \/ Parents(e[1]) # {},
           UNCHANGED <<node, summary, vec, body, made, crashes, ops, disturbed>>
    PROVE  /\ InboxNamed' /\ Hung' /\ Ranked' /\ Documents' = Documents
           /\ \A m : m # up => Parents(m)' = Parents(m)
<1>1. /\ Live' = Live /\ Containers' = Containers /\ Documents' = Documents
      /\ \A m : m # up => Parents(m)' = Parents(m)
  BY OneMoves
<1>2. up \notin Containers /\ up \in Live
  BY DEF Documents, Containers
<1>3. InboxNamed'
  BY <1>1 DEF InboxNamed, BrowseInv
<1>4. Hung'
  <2> SUFFICES ASSUME NEW e \in edges' PROVE Home(e[1])' \/ Parents(e[1])' # {}
    BY DEF Hung
  <2>1. e \in Containers \X Live
    OBVIOUS
  <2>2. e[1] # up
    BY <1>2, <2>1
  <2>3. Home(e[1]) \/ Parents(e[1]) # {}
    BY DEF BrowseInv, Hung
  <2> QED BY <1>1, <2>2, <2>3 DEF Home
<1>5. Ranked'
  <2>1. Root' = Root /\ Live # {}
    BY <1>1, <1>2 DEF Root, FindByName
  <2>2. ASSUME NEW e \in edges', e[2] \in Containers PROVE e \in edges
    <3>1. e \in Containers \X Live
      OBVIOUS
    <3>2. e = <<e[1], e[2]>> /\ e[2] # up
      BY <1>2, <2>2, <3>1
    <3> QED BY <3>2
  <2> QED BY <1>1, <2>1, <2>2, RanksStay DEF BrowseInv
<1> QED BY <1>1, <1>3, <1>4, <1>5

LEMMA UnlinkBrowses ==
    ASSUME TreeInv, TreeInv', Alone, BrowseInv, NEW p \in Procs, Unlink(p)
    PROVE  BrowseInv'
<1>0. PICK k, up : k = job[p] /\ up = Upcoming(k.rows)
  OBVIOUS
<1>1. pc[p] = "unlink" /\ Works("unlink", k) /\ Active(p) /\ Goto(p, "relink", k)
      /\ UNCHANGED <<node, summary, vec, body, made, crashes, ops, disturbed>>
      /\ edges' = edges \ {<<k.cur, up>>}
  BY <1>0, InHand DEF Unlink, Step, TreeInv, Active, Tending
<1>2. up \in Documents /\ k.keep \in Containers
  BY <1>0, <1>1, Moving
<1>3. edges' \subseteq Containers \X Live /\ edges' \subseteq edges
  BY <1>1 DEF TreeInv, TreeOK
<1>4. \A n, m : m # up => (<<n, m>> \in edges' <=> <<n, m>> \in edges)
  BY <1>1
<1>5. /\ InboxNamed' /\ Hung' /\ Ranked' /\ Documents' = Documents
      /\ \A m : m # up => Parents(m)' = Parents(m)
  BY <1>1, <1>2, <1>3, <1>4, MoveBrowses
<1>6. Hangs("relink", k)'
  <2>1. Parents(k.keep) # {}
    BY <1>0, <1>1 DEF BrowseInv, Hangs
  <2>2. k.keep # up
    BY <1>2 DEF Containers, Documents
  <2> QED BY <1>5, <2>1, <2>2 DEF Hangs
<1>7. ~disturbed' => \A n \in Documents' : Parents(n)' # {} \/ Upcoming(k.rows) = n
  <2>1. ASSUME ~disturbed, NEW n \in Documents, n # up PROVE Parents(n)' # {}
    <3>1. Parents(n) # {}
      BY <1>1, <2>1, AllHang
    <3> QED BY <1>5, <2>1, <3>1
  <2> QED BY <1>0, <1>1, <1>5, <2>1
<1> QED BY <1>1, <1>5, <1>6, <1>7, HangsBrowses

LEMMA RelinkBrowses ==
    ASSUME TreeInv, TreeInv', Alone, BrowseInv, NEW p \in Procs, Relink(p),
           {job[p].keep, Upcoming(job[p].rows)} \subseteq Live
    PROVE  BrowseInv'
<1>0. PICK k, up : k = job[p] /\ up = Upcoming(k.rows)
  OBVIOUS
<1>1. pc[p] = "relink" /\ Works("relink", k) /\ Active(p)
  BY <1>0, InHand DEF Relink, TreeInv, Active, Tending
<1>2. up \in Documents /\ k.keep \in Containers
  BY <1>0, <1>1, Moving
<1>3. /\ edges' = edges \cup {<<k.keep, up>>} /\ \E j : Goto(p, "gardenNext", j)
      /\ UNCHANGED <<node, summary, vec, body, made, crashes, ops, disturbed>>
  BY <1>0 DEF Relink
<1>4. edges' \subseteq Containers \X Live
  BY <1>2, <1>3 DEF TreeInv, TreeOK, Documents
<1>5. \A n, m : m # up => (<<n, m>> \in edges' <=> <<n, m>> \in edges)
  BY <1>3
<1>6. Parents(k.keep) # {}
  BY <1>0, <1>1 DEF BrowseInv, Hangs
<1>7. \A e \in edges' \ edges : Home(e[1]) \/ Parents(e[1]) # {}
  BY <1>3, <1>6
<1>8. /\ InboxNamed' /\ Hung' /\ Ranked' /\ Documents' = Documents
      /\ \A m : m # up => Parents(m)' = Parents(m)
  BY <1>2, <1>3, <1>4, <1>5, <1>7, MoveBrowses
<1>9. ~disturbed' => \A n \in Documents' : Parents(n)' # {}
  <2>1. k.keep \in Parents(up)'
    <3>1. Live' = Live /\ k.keep \in Live
      BY <1>2, <1>3 DEF Live, Containers
    <3> QED BY <1>3, <3>1 DEF Parents
  <2>2. ASSUME ~disturbed, NEW n \in Documents, n # up PROVE Parents(n)' # {}
    <3>1. Parents(n) # {}
      BY <1>0, <1>1, <2>2, AllHang
    <3> QED BY <1>8, <2>2, <3>1
  <2> QED BY <1>3, <1>8, <2>1, <2>2
<1>10. "gardenNext" \notin Hanging
  BY DEF Hanging
<1> QED BY <1>1, <1>3, <1>8, <1>9, <1>10, FreeToGo, HangsBrowses

LEMMA ResetBrowses ==
    ASSUME TreeInv, NEW p \in Procs, NEW spine \in Spines, Reset(p, spine),
           \A q \in Procs \ {p} : ~Active(q)
    PROVE  BrowseInv'
<1>1. PICK j : Goto(p, "seedRoot", j)
  BY DEF Reset
<1>2. /\ pc'[p] = "seedRoot" /\ job'[p] = j
      /\ \A q \in Procs \ {p} : pc'[q] = pc[q] /\ job'[q] = job[q]
  BY <1>1, Moved DEF TreeInv
<1>3. Live' = {} /\ edges' = {}
  BY DEF Reset, Live
<1>4. Containers' = {} /\ Documents' = {}
  BY <1>3 DEF Containers, Documents
<1>5. InboxNamed' /\ Hung' /\ NoOrphans'
  BY <1>3, <1>4 DEF InboxNamed, Hung, NoOrphans
<1>6. Ranked'
  <2> DEFINE rank == [n \in {} |-> 0]
  <2>1. rank \in [{} -> Nat]
    OBVIOUS
  <2> HIDE DEF rank
  <2>2. Ranks(rank)'
    BY <1>3, <1>4, <2>1 DEF Ranks
  <2> QED BY <2>2 DEF Ranked
<1>7. ASSUME NEW q \in Procs PROVE Hangs(pc[q], job[q])'
  <2>1. pc'[q] \in {"seedRoot", "idle", "down"}
    BY <1>2 DEF Active
  <2> QED BY <2>1 DEF Hangs
<1> QED BY <1>5, <1>6, <1>7 DEF BrowseInv

\* Where neither the tree nor the processes change.
LEMMA StillBrowses ==
    ASSUME BrowseInv, UNCHANGED <<node, edges, pc, job, disturbed>>
    PROVE  BrowseInv'
<1>1. InboxNamed' /\ Hung' /\ Ranked'
  BY SameHangs DEF BrowseInv
<1>2. NoOrphans'
  <2>1. Documents' = Documents /\ \A n : Parents(n)' = Parents(n)
    BY SameHangs
  <2>2. \A p \in Procs : Upcoming(job'[p].rows) = Upcoming(job[p].rows) /\ pc'[p] = pc[p]
    OBVIOUS
  <2> QED BY <2>1, <2>2 DEF BrowseInv, NoOrphans, Upcoming, Lowest
<1>3. ASSUME NEW p \in Procs PROVE Hangs(pc[p], job[p])'
  <2>1. PICK at, j : at = pc[p] /\ j = job[p]
    OBVIOUS
  <2>2. Hangs(at, j) /\ Hangs(at, j)' = Hangs(at, j)
    BY <2>1, SameHangs DEF BrowseInv
  <2>3. at = pc'[p] /\ j = job'[p]
    BY <2>1
  <2> QED BY <2>2, <2>3 DEF Hangs
<1> QED BY <1>1, <1>2, <1>3 DEF BrowseInv

LEMMA InitBrowses == Init => BrowseInv
<1> SUFFICES ASSUME Init PROVE BrowseInv
  OBVIOUS
<1>1. edges = {} /\ node = <<>> /\ \A p \in Procs : pc[p] = "down"
  BY DEF Init
<1>2. Live = {} /\ Containers = {} /\ Documents = {}
  BY <1>1 DEF Live, Containers, Documents
<1>3. InboxNamed /\ Hung /\ NoOrphans
  BY <1>1, <1>2 DEF InboxNamed, Hung, NoOrphans
<1>4. Ranked
  <2> DEFINE rank == [n \in {} |-> 0]
  <2>1. rank \in [{} -> Nat]
    OBVIOUS
  <2> HIDE DEF rank
  <2>2. Ranks(rank)
    BY <1>1, <1>2, <2>1 DEF Ranks
  <2> QED BY <2>2 DEF Ranked
<1>5. \A p \in Procs : Hangs(pc[p], job[p])
  BY <1>1 DEF Hangs
<1> QED BY <1>3, <1>4, <1>5 DEF BrowseInv

LEMMA BrowseStep ==
    ASSUME TreeInv, TreeInv', Alone, Alone', BrowseInv, [Next]_vars
    PROVE  BrowseInv'
<1>1. CASE UNCHANGED vars
  BY <1>1, StillBrowses DEF vars, tree
<1>2. CASE Reembed
  BY <1>2, StillBrowses DEF Reembed
<1>3. ASSUME NEW p \in Procs, Seed(p) PROVE BrowseInv'
  BY <1>3, SeedIdles, IdlesBrowses, LinkBranchBrowses, LinkInboxBrowses, MakeBranchBrowses,
     MakeInboxBrowses, MakeRootBrowses
<1>4. ASSUME NEW p \in Procs, Embed(p) PROVE BrowseInv'
  BY <1>4, EmbedIdles, IdlesBrowses
<1>5. ASSUME NEW p \in Procs, Roll(p) PROVE BrowseInv'
  BY <1>5, RollIdles, IdlesBrowses
<1>6. ASSUME NEW p \in Procs, Write(p) PROVE BrowseInv'
  BY <1>6, WriteIdles, IdlesBrowses, DeleteLeafBrowses, FileBrowses
<1>7. ASSUME NEW p \in Procs, NEW spine \in Spines, Reset(p, spine) PROVE BrowseInv'
  <2>1. /\ pc' = [q \in Procs |-> pc'[q]] /\ pc'[p] = "seedRoot"
        /\ \A q \in Procs \ {p} : pc'[q] = pc[q]
    BY <1>7 DEF Reset, Goto, TreeInv, Stations
  <2>2. \A q \in Procs \ {p} : ~Active(q)
    BY <2>1 DEF Alone, Active
  <2> QED BY <1>7, <2>2, ResetBrowses
<1>8. ASSUME NEW p \in Procs, Tend(p) PROVE BrowseInv'
  BY <1>8, <1>7, TendIdles, IdlesBrowses, UnlinkBrowses, RelinkBrowses
<1> QED BY <1>1, <1>2, <1>3, <1>4, <1>5, <1>6, <1>8 DEF Next

LEMMA AloneKeepsBrowse == Spec /\ []Alone => [](TreeInv /\ BrowseInv)
<1>1. Init => TreeInv /\ BrowseInv
  BY InitTree, InitBrowses
<1>2. TreeInv /\ BrowseInv /\ Alone /\ Alone' /\ [Next]_vars => TreeInv' /\ BrowseInv'
  BY TreeStep, BrowseStep
<1> QED BY <1>1, <1>2, PTL DEF Spec

-----------------------------------------------------------------------------
(***************************************************************************)
(* The layers of the views.                                                *)
(***************************************************************************)
\* f has the nodes k edges below a root, for every k up to n; the map shows those
\* of them that are containers.
Layers(n, f) ==
    f = [k \in 0..n |-> IF k = 0 THEN Roots ELSE UNION {Children(m) : m \in f[k - 1]}]
Rows(n, g) ==
    g = [k \in 1..n |-> IF k = 1 THEN Roots ELSE UNION {ContainersBelow(m) : m \in g[k - 1]}]

LEMMA LayersExist == \A n \in Nat : \E f : Layers(n, f)
<1> DEFINE S == {n \in Nat : \E f : Layers(n, f)}
<1>1. 0 \in S
  <2> DEFINE f == [k \in 0..0 |-> Roots]
  <2>1. \A k \in 0..0 : k = 0
    OBVIOUS
  <2>2. Layers(0, f)
    BY <2>1 DEF Layers
  <2> QED BY <2>2
<1>2. ASSUME NEW n \in Nat, n \in S PROVE n + 1 \in S
  <2>1. PICK f : Layers(n, f)
    BY <1>2
  <2> DEFINE g == [k \in 0..n + 1 |-> IF k = n + 1 THEN UNION {Children(m) : m \in f[n]}
                                                   ELSE f[k]]
  <2>2. ASSUME NEW k \in 0..n + 1
        PROVE  g[k] = IF k = 0 THEN Roots ELSE UNION {Children(m) : m \in g[k - 1]}
    <3>1. CASE k = n + 1
      <4>1. g[k] = UNION {Children(m) : m \in f[n]} /\ k # 0
        BY <3>1
      <4>2. g[k - 1] = f[n]
        BY <3>1
      <4> QED BY <4>1, <4>2
    <3>2. CASE k # n + 1
      <4>1. k \in 0..n /\ g[k] = f[k]
        BY <3>2
      <4>2. k # 0 => g[k - 1] = f[k - 1]
        BY <4>1
      <4>3. f[k] = IF k = 0 THEN Roots ELSE UNION {Children(m) : m \in f[k - 1]}
        BY <2>1, <4>1 DEF Layers
      <4> QED BY <4>1, <4>2, <4>3
    <3> QED BY <3>1, <3>2
  <2>3. g = [k \in 0..n + 1 |-> g[k]]
    OBVIOUS
  <2>4. Layers(n + 1, g)
    <3> HIDE DEF g
    <3> QED BY <2>2, <2>3 DEF Layers
  <2> QED BY <2>4
<1>3. Nat \subseteq S
  <2> HIDE DEF S
  <2> QED BY <1>1, <1>2, ByInduction
<1> QED BY <1>3

LEMMA RowsExist == \A n \in Nat : \E g : Rows(n, g)
<1> DEFINE S == {n \in Nat : \E g : Rows(n, g)}
<1>1. 0 \in S
  <2> DEFINE f == [k \in 1..0 |-> Roots]
  <2>1. \A k \in 1..0 : FALSE
    OBVIOUS
  <2>2. Rows(0, f)
    BY <2>1 DEF Rows
  <2> QED BY <2>2
<1>2. ASSUME NEW n \in Nat, n \in S PROVE n + 1 \in S
  <2>1. PICK f : Rows(n, f)
    BY <1>2
  <2> DEFINE g == [k \in 1..n + 1 |->
                      IF k # n + 1 THEN f[k]
                      ELSE IF n = 0 THEN Roots ELSE UNION {ContainersBelow(m) : m \in f[n]}]
  <2>2. ASSUME NEW k \in 1..n + 1
        PROVE  g[k] = IF k = 1 THEN Roots ELSE UNION {ContainersBelow(m) : m \in g[k - 1]}
    <3>1. CASE k = n + 1 /\ n = 0
      <4>1. k = 1 /\ g[k] = Roots
        BY <3>1
      <4> QED BY <4>1
    <3>2. CASE k = n + 1 /\ n # 0
      <4>1. g[k] = UNION {ContainersBelow(m) : m \in f[n]} /\ k # 1
        BY <3>2
      <4>2. g[k - 1] = f[n]
        BY <3>2
      <4> QED BY <4>1, <4>2
    <3>3. CASE k # n + 1
      <4>1. k \in 1..n /\ g[k] = f[k]
        BY <3>3
      <4>2. k # 1 => g[k - 1] = f[k - 1]
        BY <4>1
      <4>3. f[k] = IF k = 1 THEN Roots ELSE UNION {ContainersBelow(m) : m \in f[k - 1]}
        BY <2>1, <4>1 DEF Rows
      <4> QED BY <4>1, <4>2, <4>3
    <3> QED BY <3>1, <3>2, <3>3
  <2>3. g = [k \in 1..n + 1 |-> g[k]]
    OBVIOUS
  <2>4. Rows(n + 1, g)
    <3> HIDE DEF g
    <3> QED BY <2>2, <2>3 DEF Rows
  <2> QED BY <2>4
<1>3. Nat \subseteq S
  <2> HIDE DEF S
  <2> QED BY <1>1, <1>2, ByInduction
<1> QED BY <1>3

LEMMA DepthIs ==
    \E f : Layers(Height + 1, f) /\ Depth = Lowest({k \in 1..Height + 1 : f[k] = {}}) - 1
<1> DEFINE f == CHOOSE f : Layers(Height + 1, f)
<1>1. Height + 1 \in Nat
  BY HeightOK
<1>2. Layers(Height + 1, f)
  <2>1. \E g : Layers(Height + 1, g)
    BY <1>1, LayersExist
  <2> QED BY <2>1
<1>3. Depth = Lowest({k \in 1..Height + 1 : f[k] = {}}) - 1
  BY DEF Depth, Layers
<1> QED BY <1>2, <1>3

LEMMA MapIs ==
    ASSUME NEW depth \in Nat
    PROVE  \E g : Rows(depth, g) /\ Map(depth) = UNION {g[k] : k \in 1..depth}
<1> DEFINE g == CHOOSE g : Rows(depth, g)
<1>1. Rows(depth, g)
  <2>1. \E f : Rows(depth, f)
    BY RowsExist
  <2> QED BY <2>1
<1>2. Map(depth) = UNION {g[k] : k \in 1..depth}
  BY DEF Map, BuildMap, Rows
<1> QED BY <1>1, <1>2

LEMMA LevelIs ==
    ASSUME NEW start
    PROVE  Levels(start, Height, Level(start))
<1>1. \E f : Levels(start, Height, f)
  BY HeightOK, LevelsExist
<1>2. Level(start) = CHOOSE f : Levels(start, Height, f)
  BY DEF Level, Levels
<1> QED BY <1>1, <1>2

\* A container is in a layer no deeper than its distance from the root.
LEMMA ContainersInLayers ==
    ASSUME TreeOK, NEW rank, Ranks(rank), NEW f, Layers(Height + 1, f)
    PROVE  \A n \in Containers : \E j \in 0..rank[n] : n \in f[j]
<1> DEFINE S == {r \in Nat : \A n \in Containers : rank[n] = r => \E j \in 0..r : n \in f[j]}
<1>1. Height \in Nat /\ rank \in [Containers -> Nat] /\ \A n \in Containers : rank[n] < Height
  BY HeightOK DEF Ranks
<1>2. f[0] = Roots
  BY <1>1 DEF Layers
<1>3. ASSUME NEW k \in Nat, k <= Height
      PROVE  f[k + 1] = UNION {Children(m) : m \in f[k]}
  <2>1. k + 1 \in 0..Height + 1 /\ k + 1 # 0 /\ (k + 1) - 1 = k
    BY <1>1, <1>3
  <2> QED BY <2>1 DEF Layers
<1>4. ASSUME NEW n \in Containers, Parents(n) = {}
      PROVE  \E j \in 0..rank[n] : n \in f[j]
  <2>1. n \in Roots /\ 0 \in 0..rank[n]
    BY <1>1, <1>4 DEF Roots, Containers
  <2> QED BY <1>2, <2>1
<1>5. ASSUME NEW n \in Containers, Parents(n) # {}
      PROVE  \E m \in Containers : rank[n] = rank[m] + 1 /\ n \in Children(m)
  <2>1. PICK m : m \in Parents(n)
    BY <1>5
  <2>2. <<m, n>> \in edges
    BY <2>1 DEF Parents
  <2>3. m \in Containers /\ n \in Live
    BY <2>2 DEF TreeOK
  <2>4. rank[n] = rank[m] + 1
    BY <2>2 DEF Ranks
  <2> QED BY <2>2, <2>3, <2>4 DEF Children
<1>6. 0 \in S
  <2> SUFFICES ASSUME NEW n \in Containers, rank[n] = 0 PROVE \E j \in 0..0 : n \in f[j]
    OBVIOUS
  <2>1. Parents(n) = {}
    BY <1>1, <1>5
  <2> QED BY <1>4, <2>1
<1>7. ASSUME NEW r \in Nat, r \in S PROVE r + 1 \in S
  <2> SUFFICES ASSUME NEW n \in Containers, rank[n] = r + 1
               PROVE  \E j \in 0..r + 1 : n \in f[j]
    OBVIOUS
  <2>1. CASE Parents(n) = {}
    BY <1>4, <2>1
  <2>2. CASE Parents(n) # {}
    <3>1. PICK m \in Containers : rank[n] = rank[m] + 1 /\ n \in Children(m)
      BY <1>5, <2>2
    <3>2. rank[m] = r
      BY <1>1, <3>1
    <3>3. PICK j \in 0..r : m \in f[j]
      BY <1>7, <3>2
    <3>4. j \in Nat /\ j <= Height /\ j + 1 \in 0..r + 1
      BY <1>1, <3>2
    <3>5. n \in f[j + 1]
      BY <1>3, <3>1, <3>3, <3>4
    <3> QED BY <3>4, <3>5
  <2> QED BY <2>1, <2>2
<1>8. Nat \subseteq S
  <2> HIDE DEF S
  <2> QED BY <1>6, <1>7, ByInduction
<1> QED BY <1>1, <1>8

\* What is in a layer is at least as far from the root; so there are no containers
\* as deep as Height, and nothing below.
LEMMA LayersEnd ==
    ASSUME TreeOK, NEW rank, Ranks(rank), NEW f, Layers(Height + 1, f)
    PROVE  f[Height + 1] = {}
<1> DEFINE S == {k \in Nat : k <= Height => \A n \in f[k] \cap Containers : rank[n] >= k}
<1>1. Height \in Nat /\ rank \in [Containers -> Nat] /\ \A n \in Containers : rank[n] < Height
  BY HeightOK DEF Ranks
<1>2. ASSUME NEW k \in Nat, k <= Height
      PROVE  f[k + 1] = UNION {Children(m) : m \in f[k]}
  <2>1. k + 1 \in 0..Height + 1 /\ k + 1 # 0 /\ (k + 1) - 1 = k
    BY <1>1, <1>2
  <2> QED BY <2>1 DEF Layers
<1>3. ASSUME NEW m, NEW n \in Children(m)
      PROVE  m \in Containers /\ (n \in Containers => rank[n] = rank[m] + 1)
  <2>1. <<m, n>> \in edges
    BY DEF Children
  <2> QED BY <2>1 DEF Ranks, TreeOK
<1>4. 0 \in S
  BY <1>1
<1>5. ASSUME NEW k \in Nat, k \in S PROVE k + 1 \in S
  <2> SUFFICES ASSUME k + 1 <= Height, NEW n \in f[k + 1] \cap Containers PROVE rank[n] >= k + 1
    OBVIOUS
  <2>0. k <= Height
    BY <1>1
  <2>1. PICK m \in f[k] : n \in Children(m)
    BY <1>2, <2>0
  <2>2. m \in Containers /\ rank[n] = rank[m] + 1
    BY <1>3, <2>1
  <2>3. rank[m] >= k
    BY <1>5, <2>0, <2>1, <2>2
  <2> QED BY <1>1, <2>2, <2>3
<1>6. Nat \subseteq S
  <2> HIDE DEF S
  <2> QED BY <1>4, <1>5, ByInduction
<1>7. f[Height] \cap Containers = {}
  <2>1. \A n \in f[Height] \cap Containers : rank[n] >= Height /\ rank[n] < Height /\ rank[n] \in Nat
    BY <1>1, <1>6
  <2> QED BY <1>1, <2>1
<1>8. f[Height + 1] = UNION {Children(m) : m \in f[Height]}
  BY <1>1, <1>2
<1> QED BY <1>3, <1>7, <1>8

\* A layer with something in it is not below the depth of the tree.
LEMMA DepthReaches ==
    ASSUME TreeOK, Ranked, NEW f, Layers(Height + 1, f),
           Depth = Lowest({k \in 1..Height + 1 : f[k] = {}}) - 1,
           NEW j \in 0..Height + 1, f[j] # {}
    PROVE  Depth \in Nat /\ j <= Depth /\ Depth <= Height
<1>1. PICK rank : Ranks(rank)
  BY DEF Ranked
<1>2. Height \in Nat /\ f[Height + 1] = {}
  BY <1>1, HeightOK, LayersEnd
<1> DEFINE S == {k \in 1..Height + 1 : f[k] = {}}
<1>3. Height + 1 \in S /\ S \subseteq Nat
  BY <1>2
<1>4. PICK low : low = Lowest(S)
  OBVIOUS
<1>5. low \in S
  <2> HIDE DEF S
  <2> QED BY <1>3, <1>4, LowestOf
<1>6. low \in 1..Height + 1 /\ f[low] = {} /\ Depth = low - 1
  BY <1>4, <1>5
<1> DEFINE T == {i \in Nat : low + i <= Height + 1 => f[low + i] = {}}
<1>7. 0 \in T
  BY <1>2, <1>6
<1>8. ASSUME NEW i \in Nat, i \in T PROVE i + 1 \in T
  <2> SUFFICES ASSUME low + (i + 1) <= Height + 1 PROVE f[low + (i + 1)] = {}
    OBVIOUS
  <2>1. low + i <= Height + 1 /\ f[low + i] = {}
    BY <1>2, <1>6, <1>8
  <2>2. PICK k : k = low + (i + 1)
    OBVIOUS
  <2>3. k \in 0..Height + 1 /\ k # 0 /\ k - 1 = low + i
    BY <1>2, <1>6, <2>2
  <2>4. f[k] = UNION {Children(m) : m \in f[k - 1]}
    BY <2>3 DEF Layers
  <2> QED BY <2>1, <2>2, <2>3, <2>4
<1>9. Nat \subseteq T
  <2> HIDE DEF T
  <2> QED BY <1>7, <1>8, ByInduction
<1>10. ASSUME low <= j PROVE FALSE
  <2>1. j - low \in Nat /\ low + (j - low) = j /\ j <= Height + 1
    BY <1>2, <1>6, <1>10
  <2>2. f[low + (j - low)] = {}
    BY <1>9, <2>1
  <2> QED BY <2>1, <2>2
<1> QED BY <1>2, <1>6, <1>10

\* The map shows the containers of a layer as far down as it goes.
LEMMA RowsShow ==
    ASSUME TreeOK, NEW f, Layers(Height + 1, f), NEW depth \in Nat, depth <= Height,
           NEW g, Rows(depth, g)
    PROVE  \A j \in Nat : j < depth => f[j] \cap Containers \subseteq g[j + 1]
<1> DEFINE S == {j \in Nat : j < depth => f[j] \cap Containers \subseteq g[j + 1]}
<1>1. Height \in Nat
  BY HeightOK
<1>2. 0 \in S
  <2> SUFFICES ASSUME 0 < depth PROVE f[0] \subseteq g[0 + 1]
    OBVIOUS
  <2>1. 1 \in 1..depth /\ 0 \in 0..Height + 1
    BY <1>1
  <2> QED BY <2>1 DEF Layers, Rows
<1>3. ASSUME NEW j \in Nat, j \in S PROVE j + 1 \in S
  <2> SUFFICES ASSUME j + 1 < depth, NEW n \in f[j + 1] \cap Containers
               PROVE  n \in g[(j + 1) + 1]
    OBVIOUS
  <2>1. PICK k : k = j + 1
    OBVIOUS
  <2>2. k \in 0..Height + 1 /\ k # 0 /\ k - 1 = j /\ j < depth
    BY <1>1, <2>1
  <2>3. f[k] = UNION {Children(m) : m \in f[k - 1]}
    BY <2>2 DEF Layers
  <2>4. PICK m \in f[j] : n \in Children(m)
    BY <2>1, <2>2, <2>3
  <2>5. <<m, n>> \in edges
    BY <2>4 DEF Children
  <2>6. m \in Containers /\ n \in ContainersBelow(m)
    BY <2>4, <2>5 DEF TreeOK, ContainersBelow, Containers
  <2>7. m \in g[k]
    BY <1>3, <2>1, <2>2, <2>4, <2>6
  <2>8. PICK i : i = k + 1
    OBVIOUS
  <2>9. i \in 1..depth /\ i # 1 /\ i - 1 = k
    BY <2>1, <2>8
  <2>10. g[i] = UNION {ContainersBelow(x) : x \in g[i - 1]}
    BY <2>9 DEF Rows
  <2> QED BY <2>1, <2>6, <2>7, <2>8, <2>9, <2>10
<1>4. Nat \subseteq S
  <2> HIDE DEF S
  <2> QED BY <1>2, <1>3, ByInduction
<1> QED BY <1>4

\* A document is in the window that starts where it stands among its neighbours.
LEMMA InItsWindow ==
    ASSUME TreeOK, NEW n, NEW leaf \in Drill(n)
    PROVE  \E offset \in 0..Cardinality(Documents) - 1 : leaf \in InspectNode(n, offset).leaves
<1> DEFINE before == {m \in Drill(n) : m < leaf}
           offset == Cardinality(before)
<1>1. Drill(n) \subseteq Documents /\ leaf \in Documents
  BY DEF Drill, Children, Documents
<1>2. IsFiniteSet(Documents)
  <2>1. made \in Nat /\ Documents \subseteq 1..made
    BY DEF TreeOK, Documents
  <2>2. IsFiniteSet(1..made)
    BY <2>1, FS_Interval
  <2> QED BY <2>1, <2>2, FS_Subset
<1>3. before \subseteq Documents \ {leaf}
  <2>1. leaf \in Nat
    BY <1>1 DEF TreeOK, Documents
  <2>2. leaf \notin before
    BY <2>1
  <2> QED BY <1>1, <2>2
<1>4. /\ IsFiniteSet(Documents \ {leaf})
      /\ Cardinality(Documents \ {leaf}) = Cardinality(Documents) - 1
  BY <1>1, <1>2, FS_RemoveElement
<1>5. IsFiniteSet(before) /\ Cardinality(before) <= Cardinality(Documents \ {leaf})
  BY <1>3, <1>4, FS_Subset
<1>6. offset \in Nat /\ Cardinality(Documents) \in Nat
  BY <1>2, <1>5, FS_CardinalityType
<1>7. offset \in 0..Cardinality(Documents) - 1
  <2> HIDE DEF before
  <2> QED BY <1>4, <1>5, <1>6
<1>8. offset \in offset .. offset + PageSize - 1
  <2> HIDE DEF offset
  <2> QED BY <1>6, PageConstant
<1>9. leaf \in Window(Drill(n), offset)
  BY <1>8 DEF Window
<1>10. InspectNode(n, offset).leaves = Window(Drill(n), offset)
  <2> HIDE DEF offset
  <2> QED BY DEF InspectNode
<1> QED BY <1>7, <1>9, <1>10

\* A document with a parent is listed by a reader of the map.
LEMMA FiledIsListed ==
    ASSUME TreeOK, Ranked, NEW leaf \in Documents, Parents(leaf) # {}
    PROVE  leaf \in Listed(LtmStats)
<1>1. PICK rank : Ranks(rank)
  BY DEF Ranked
<1>2. PICK n : n \in Parents(leaf)
  OBVIOUS
<1>3. <<n, leaf>> \in edges
  BY <1>2 DEF Parents
<1>4. n \in Containers /\ leaf \in Children(n) /\ leaf \in Drill(n)
  BY <1>3 DEF TreeOK, Children, Drill, Documents
<1>5. PICK f : Layers(Height + 1, f) /\ Depth = Lowest({k \in 1..Height + 1 : f[k] = {}}) - 1
  BY DepthIs
<1>6. PICK j \in 0..rank[n] : n \in f[j]
  BY <1>1, <1>4, <1>5, ContainersInLayers
<1>7. Height \in Nat /\ rank[n] \in Nat /\ rank[n] < Height
  BY <1>1, <1>4, HeightOK DEF Ranks
<1>8. PICK k : k = j + 1
  OBVIOUS
<1>9. k \in 0..Height + 1 /\ k # 0 /\ k - 1 = j /\ j \in Nat
  BY <1>7, <1>8
<1>10. f[k] = UNION {Children(m) : m \in f[k - 1]}
  BY <1>5, <1>9 DEF Layers
<1>11. leaf \in f[k]
  BY <1>4, <1>6, <1>9, <1>10
<1>12. Depth \in Nat /\ k <= Depth /\ Depth <= Height
  BY <1>5, <1>9, <1>11, DepthReaches
<1>13. PICK g : Rows(Depth, g) /\ Map(Depth) = UNION {g[i] : i \in 1..Depth}
  BY <1>12, MapIs
<1>14. n \in g[k]
  <2>1. j < Depth
    BY <1>8, <1>9, <1>12
  <2>2. f[j] \cap Containers \subseteq g[j + 1]
    BY <1>5, <1>9, <1>12, <1>13, <2>1, RowsShow
  <2> QED BY <1>4, <1>6, <1>8, <2>2
<1>15. n \in Map(Depth)
  <2>1. k \in 1..Depth
    BY <1>9, <1>12
  <2> QED BY <1>13, <1>14, <2>1
<1>16. PICK offset \in 0..Cardinality(Documents) - 1 : leaf \in InspectNode(n, offset).leaves
  BY <1>4, InItsWindow
<1>17. LtmStats.maxDepth = Depth /\ LtmStats.leaves = Cardinality(Documents)
  BY DEF LtmStats
<1> QED BY <1>15, <1>16, <1>17 DEF Listed

\* Its branch leads up to the root or an inbox.
LEMMA BranchLeadsHome ==
    ASSUME TreeOK, Ranked, Hung, NEW leaf \in Documents, Parents(leaf) # {}
    PROVE  LeadsHome(Ancestors(leaf))
<1>1. PICK rank : Ranks(rank)
  BY DEF Ranked
<1>2. PICK level : level = Level(leaf)
  OBVIOUS
<1>3. Levels(leaf, Height, level)
  BY <1>2, LevelIs
<1>4. Height \in Nat \ {0} /\ rank \in [Containers -> Nat] /\ \A n \in Containers : rank[n] < Height
  BY <1>1, HeightOK DEF Ranks
<1>5. ASSUME NEW k \in 1..Height PROVE level[k] = UNION {Parents(m) : m \in level[k - 1]}
  BY <1>3, <1>4 DEF Levels
<1>6. Ancestors(leaf) = UNION {level[k] : k \in 1..Height}
  BY <1>2 DEF Ancestors
<1>7. ASSUME NEW m, NEW n \in Parents(m)
      PROVE  /\ n \in Containers /\ (Home(n) \/ Parents(n) # {})
             /\ m \in Containers => rank[m] = rank[n] + 1
  <2>1. <<n, m>> \in edges
    BY DEF Parents
  <2>2. n \in Containers
    BY <2>1 DEF TreeOK
  <2>3. Home(n) \/ Parents(n) # {}
    BY <2>1 DEF Hung
  <2>4. m \in Containers => rank[m] = rank[n] + 1
    BY <1>1, <2>1 DEF Ranks
  <2> QED BY <2>2, <2>3, <2>4
<1> DEFINE Leads == \E k \in 1..Height : \E n \in level[k] : Home(n)
           S == {r \in Nat : \A k \in 1..Height : \A n \in level[k] \cap Containers :
                    rank[n] = r /\ k + r <= Height /\ (Home(n) \/ Parents(n) # {}) => Leads}
<1>8. 0 \in S
  <2> SUFFICES ASSUME NEW k \in 1..Height, NEW n \in level[k] \cap Containers, rank[n] = 0,
                      Home(n) \/ Parents(n) # {}
               PROVE  Leads
    OBVIOUS
  <2>1. Parents(n) = {}
    <3> SUFFICES ASSUME NEW m \in Parents(n) PROVE FALSE
      OBVIOUS
    <3>1. rank[n] = rank[m] + 1 /\ rank[m] \in Nat
      BY <1>4, <1>7
    <3> QED BY <3>1
  <2> QED BY <2>1
<1>9. ASSUME NEW r \in Nat, r \in S PROVE r + 1 \in S
  <2> SUFFICES ASSUME NEW k \in 1..Height, NEW n \in level[k] \cap Containers, rank[n] = r + 1,
                      k + (r + 1) <= Height, Home(n) \/ Parents(n) # {}
               PROVE  Leads
    OBVIOUS
  <2>1. CASE Home(n)
    BY <2>1
  <2>2. CASE Parents(n) # {}
    <3>1. PICK m : m \in Parents(n)
      BY <2>2
    <3>2. m \in Containers /\ (Home(m) \/ Parents(m) # {}) /\ rank[n] = rank[m] + 1
      BY <1>7, <3>1
    <3>3. rank[m] = r
      BY <1>4, <3>2
    <3>4. PICK i : i = k + 1
      OBVIOUS
    <3>5. i \in 1..Height /\ i - 1 = k /\ i + r <= Height
      BY <1>4, <3>4
    <3>6. m \in level[i]
      BY <1>5, <3>1, <3>5
    <3> QED BY <1>9, <3>2, <3>3, <3>5, <3>6
  <2> QED BY <2>1, <2>2
<1>10. Nat \subseteq S
  <2> HIDE DEF S
  <2> QED BY <1>8, <1>9, ByInduction
<1>11. Leads
  <2>1. PICK n : n \in Parents(leaf)
    OBVIOUS
  <2>2. 1 \in 1..Height /\ level[0] = {leaf}
    BY <1>3, <1>4 DEF Levels
  <2>3. n \in level[1]
    BY <1>5, <2>1, <2>2
  <2>4. n \in Containers /\ (Home(n) \/ Parents(n) # {})
    BY <1>7, <2>1
  <2>5. rank[n] \in Nat /\ 1 + rank[n] <= Height
    BY <1>4, <2>4
  <2> HIDE DEF Leads
  <2> QED BY <1>10, <2>2, <2>3, <2>4, <2>5
<1> QED BY <1>6, <1>11 DEF LeadsHome, Home

LEMMA BrowsingFinds ==
    ASSUME TreeInv, BrowseInv
    PROVE  BrowsingFindsDocuments
<1>1. LtmStats.orphanLeaves > 0 => disturbed \/ \E p \in Procs : pc[p] = "relink"
  <2> SUFFICES ASSUME Cardinality(Orphans) > 0 PROVE disturbed \/ \E p \in Procs : pc[p] = "relink"
    BY DEF LtmStats
  <2>1. Orphans # {}
    BY FS_EmptySet
  <2>2. PICK n : n \in Documents /\ Parents(n) = {}
    BY <2>1 DEF Orphans, Roots
  <2> QED BY <2>2 DEF BrowseInv, NoOrphans
<1>2. ASSUME NEW d \in Docs, NEW found \in Trace(d), found.leaf \in Live \ Orphans
      PROVE  found.leaf \in Listed(LtmStats) /\ LeadsHome(found.branch)
  <2>1. LeavesOf(d) # {}
    <3> SUFFICES ASSUME LeavesOf(d) = {} PROVE FALSE
      OBVIOUS
    <3>1. found.leaf = 0
      BY DEF Trace, Nowhere
    <3>2. 0 \notin Live
      BY DEF TreeInv, TreeOK
    <3> QED BY <1>2, <3>1, <3>2
  <2>2. PICK leaf \in LeavesOf(d) : found = [leaf |-> leaf, branch |-> Ancestors(leaf)]
    BY <2>1 DEF Trace
  <2>3. leaf \in Documents /\ Parents(leaf) # {}
    <3>1. leaf \in Documents /\ leaf \notin Orphans
      BY <1>2, <2>2 DEF LeavesOf, Documents
    <3> QED BY <3>1 DEF Orphans, Roots, Documents
  <2>4. leaf \in Listed(LtmStats) /\ LeadsHome(Ancestors(leaf))
    BY <2>3, FiledIsListed, BranchLeadsHome DEF TreeInv, BrowseInv
  <2> QED BY <2>2, <2>4
<1> QED BY <1>1, <1>2 DEF BrowsingFindsDocuments

\* A reader who lists the map as deep as the health view says and pages through the
\* nodes it shows finds every filed document, and each one's trace leads home
\* (map, inspect_node, trace, ltm_stats): whatever crash came between a node and
\* its edge, nothing hangs where the map does not go.
THEOREM BrowsingAlwaysFinds == Spec /\ []Alone => []BrowsingFindsDocuments
<1>1. TreeInv /\ BrowseInv => BrowsingFindsDocuments
  BY BrowsingFinds
<1> QED BY <1>1, AloneKeepsBrowse, PTL

=============================================================================
