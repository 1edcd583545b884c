---------------------------- MODULE MemoryProofs ----------------------------
(***************************************************************************)
(* Theorems about Memory, for every set of processes, texts and layers,    *)
(* and every bound.                                                        *)
(***************************************************************************)
EXTENDS Memory, TLAPS

Stations == {"idle", "boost", "extract", "embed", "support", "content", "create", "link",
             "subject", "refresh", "anchor", "sweep", "swept"}
Shape(t) == [at : Stations, ids : {t.ids}, todo : Int, src : Nat, hit : {t.hit},
             text : Texts \cup Data \cup {None}, ccl : Layers \cup {None},
             next : {"idle", "embed", "subject"}, archived : BOOLEAN]

\* A score has fallen no further than for the time nobody read the node.
Clock(row) ==
    row.active =>
        /\ row.age <= row.unread
        /\ \/ row.unread = Cap
           \/ row.level <= Rate[row.ccl] * (row.unread - row.age)
Speaks(row) == row.kind = "fact" /\ row.data # None => row.text \in Versions
Good(row) == row \in Row /\ Clock(row) /\ Speaks(row)

\* The rows, their vectors and edges, and the ids given, none of them twice.
Rows ==
    /\ Stored \subseteq 1 .. last /\ \A n \in Stored : Good(node[n])
    /\ DOMAIN vec \subseteq Stored /\ \A n \in DOMAIN vec : vec[n] \in Texts
    /\ edge \subseteq Stored \X Stored
    /\ last \in 0 .. MaxNodes

\* What a task has in hand at each of its stations: a node whose text it means to
\* write is, if still stored, a fact of no document.
Learning == {"embed", "support", "content", "create"}
Naming == {"subject", "refresh", "anchor"}
OwnFact(n) == n \in Stored => node[n].kind = "fact" /\ node[n].data = None
InHand(n) == n \in 1 .. last /\ OwnFact(n)
Sound(p, t) ==
    /\ t \in Shape(t)
    /\ t.at \in Learning \cup Naming \cup {"link"} => t.ccl \in Layers
    /\ t.at \in Learning => t.next = "embed" /\ p \in Talkers
    /\ t.at = "extract" => p \in Talkers
    /\ t.at \in Naming => t.next = "subject"
    /\ t.at = "link" => \/ t.next = "subject"
                        \/ t.next = "embed" /\ p \in Talkers
    /\ t.at \in {"support", "content"} => InHand(t.hit)
    /\ t.at = "support" => t.text \in Texts \cup {None}
    /\ t.at \in {"content", "create"} => t.text \in Chat
    /\ t.at = "anchor" => t.text \in Data
Tasks == /\ task = [p \in Procs |-> task[p]]
         /\ \A p \in Procs : Sound(p, task[p])

\* The write lock is a sweep's, and what the sweep has read is as it was.
Locked ==
    /\ lock \in Procs \cup {None}
    /\ \A p \in Procs : At(p, "sweep") <=> lock = p
    /\ \A p \in Procs : lock = p =>
           \A s \in task[p].ids : \E n \in Active : s = <<n, Decayed(node[n])>>

MemoryInv == Rows /\ Tasks /\ Locked

\* With one process that talks, the text it read is the text there is.
ReadIsThere ==
    \A p \in Procs : At(p, "support") /\ task[p].hit \in Stored =>
        task[p].text = node[task[p].hit].text
VectorInv == VectorFollowsText /\ ReadIsThere

-----------------------------------------------------------------------------
(***************************************************************************)
(* Rows.                                                                   *)
(***************************************************************************)
\* A clamped number stays on the scale.
LEMMA LeastLevel ==
    ASSUME NEW x \in Nat
    PROVE  Least(x) \in 0 .. Cap /\ Least(x) <= x /\ (Least(x) = x \/ Least(x) = Cap)
  BY MemoryConstants DEF Least, Cap

\* Half-lives never run backwards.
LEMMA RateCounts ==
    ASSUME NEW r \in Nat \ {0}, NEW u \in Nat, NEW a \in Nat, a <= u
    PROVE  /\ r * (u - a) \in Nat /\ r * (u - a) + r * a = r * u
           /\ r * a \in Nat /\ r * u \in Nat /\ u <= r * u
  <1>1. u - a \in Nat
    OBVIOUS
  <1>2. \A x \in Nat : r * x \in Nat /\ x <= r * x
    <2> TAKE x \in Nat
    <2>1. PICK k \in Nat : r = k + 1
      OBVIOUS
    <2>2. k * x \in Nat
      BY <2>1, SMT
    <2>3. r * x = k * x + x
      BY <2>1, SMT
    <2> QED BY <2>2, <2>3
  <1>3. r * (u - a) + r * a = r * u
    BY SMT
  <1> QED BY <1>1, <1>2, <1>3

\* A new row is good.
LEMMA NewIsGood ==
    ASSUME NEW text \in Texts \cup {None}, NEW kind \in {"fact", "turn", "subject"},
           NEW data \in Data \cup {None}, NEW ccl \in Layers \cup {"reality"},
           kind = "fact" /\ data # None => text \in Versions
    PROVE  Good(New(text, kind, data, ccl))
  <1> DEFINE row == New(text, kind, data, ccl)
  <1>1. row \in Row
    BY MemoryConstants DEF New, Row, Cap
  <1>2. Clock(row)
    <2>1. Rate[ccl] \in Nat \ {0}
      BY MemoryConstants
    <2>2. Rate[ccl] * (0 - 0) = 0
      BY <2>1
    <2> QED BY <2>2 DEF Clock, New
  <1>3. Speaks(row)
    BY DEF Speaks, New
  <1> QED BY <1>1, <1>2, <1>3 DEF Good

\* A row read or said again is good.
LEMMA BoostIsGood ==
    ASSUME NEW row, Good(row)
    PROVE  LET new == [row EXCEPT !.level = 0, !.age = 0, !.unread = 0]
           IN  /\ Good(new) /\ new.kind = row.kind /\ new.data = row.data
               /\ new.text = row.text /\ new.active = row.active
  <1> DEFINE new == [row EXCEPT !.level = 0, !.age = 0, !.unread = 0]
  <1>1. row \in Row
    BY DEF Good
  <1>a. 0 \in 0 .. Cap
    BY MemoryConstants DEF Cap
  <1>2. new \in Row /\ new.kind = row.kind /\ new.data = row.data /\ new.text = row.text
    BY <1>1, <1>a DEF Row
  <1>3. new.level = 0 /\ new.age = 0 /\ new.unread = 0 /\ new.ccl \in Layers \cup {"reality"}
    BY <1>1 DEF Row
  <1>4. Rate[new.ccl] * (new.unread - new.age) = 0
    BY <1>3, MemoryConstants
  <1>5. Clock(new)
    BY <1>3, <1>4 DEF Clock
  <1>6. Speaks(new)
    BY <1>2 DEF Good, Speaks
  <1>7. new.active = row.active
    BY <1>1 DEF Row
  <1> QED BY <1>2, <1>5, <1>6, <1>7 DEF Good

\* So is a fact of no document with another text and a full score.
LEMMA RewriteIsGood ==
    ASSUME NEW row, Good(row), row.kind = "fact" /\ row.data = None,
           NEW text \in Texts \cup {None}, NEW new,
           new = [row EXCEPT !.level = 0, !.text = text]
    PROVE  Good(new) /\ new.kind = "fact" /\ new.data = None
  <1>1. row \in Row
    BY DEF Good
  <1>a. 0 \in 0 .. Cap
    BY MemoryConstants DEF Cap
  <1>2. new \in Row /\ new.kind = "fact" /\ new.data = None
    BY <1>1, <1>a DEF Row
  <1>3. /\ new.level = 0 /\ new.age = row.age /\ new.unread = row.unread
        /\ new.ccl = row.ccl /\ new.active = row.active
    BY <1>1 DEF Row
  <1>4. /\ row.ccl \in Layers \cup {"reality"}
        /\ row.age \in 0 .. Cap /\ row.unread \in 0 .. Cap
    BY <1>1 DEF Row
  <1>5. Rate[row.ccl] \in Nat \ {0}
    BY <1>4, MemoryConstants
  <1>6. CASE row.active
    <2>1. row.age <= row.unread
      BY <1>6 DEF Good, Clock
    <2>2. Rate[row.ccl] * (row.unread - row.age) \in Nat
      BY <2>1, <1>4, <1>5, RateCounts
    <2>3. Clock(new)
      BY <2>1, <2>2, <1>3 DEF Clock
    <2> QED BY <2>3, <1>2 DEF Good, Speaks
  <1>7. CASE ~row.active
    BY <1>7, <1>2, <1>3 DEF Good, Clock, Speaks
  <1> QED BY <1>6, <1>7

Aged(row) == [row EXCEPT !.age = Least(@ + 1), !.unread = Least(@ + 1)]

\* A tick is time nobody read the node.
LEMMA AgedIsGood ==
    ASSUME NEW row, Good(row)
    PROVE  /\ Good(Aged(row)) /\ Aged(row).kind = row.kind /\ Aged(row).data = row.data
           /\ Aged(row).text = row.text /\ Aged(row).active = row.active
  <1> DEFINE new == Aged(row)
  <1>1. row \in Row
    BY DEF Good
  <1>2. /\ row.ccl \in Layers \cup {"reality"}
        /\ row.age \in 0 .. Cap /\ row.unread \in 0 .. Cap /\ row.level \in 0 .. Cap
    BY <1>1 DEF Row
  <1>3. Cap \in Nat
    BY MemoryConstants DEF Cap
  <1>4. Least(row.age + 1) \in 0 .. Cap /\ Least(row.unread + 1) \in 0 .. Cap
    BY <1>2, <1>3 DEF Least
  <1>5. /\ new.age = Least(row.age + 1) /\ new.unread = Least(row.unread + 1)
        /\ new.ccl = row.ccl /\ new.active = row.active /\ new.level = row.level
        /\ new.kind = row.kind /\ new.data = row.data /\ new.text = row.text
    BY <1>1 DEF Aged, Row
  <1>6. new \in Row
    BY <1>1, <1>4 DEF Aged, Row
  <1>7. Clock(new)
    <2> SUFFICES ASSUME row.active
                 PROVE  /\ new.age <= new.unread
                        /\ \/ new.unread = Cap
                           \/ new.level <= Rate[new.ccl] * (new.unread - new.age)
      BY <1>5 DEF Clock
    <2>1. row.age <= row.unread
      BY DEF Good, Clock
    <2>2. CASE row.unread = Cap
      BY <2>1, <2>2, <1>2, <1>3, <1>5 DEF Least
    <2>3. CASE row.unread # Cap
      <3>1. new.unread = row.unread + 1 /\ new.age = row.age + 1
        BY <2>1, <2>3, <1>2, <1>3, <1>5 DEF Least
      <3>2. new.unread - new.age = row.unread - row.age
        BY <3>1, <1>2
      <3>3. row.level <= Rate[row.ccl] * (row.unread - row.age)
        BY <2>3 DEF Good, Clock
      <3> QED BY <3>1, <3>2, <3>3, <1>5, <2>1, <1>2
    <2> QED BY <2>2, <2>3
  <1>8. Speaks(new)
    BY <1>5 DEF Good, Speaks
  <1> QED BY <1>5, <1>6, <1>7, <1>8 DEF Good

\* A sweep settles the time since the last one, and archives only what nobody
\* has read for long.
LEMMA SettledIsGood ==
    ASSUME NEW row, Good(row), row.active,
           NEW new, new = Shelved(Rescored(row, Decayed(row)))
    PROVE  /\ Good(new) /\ new.kind = row.kind /\ new.data = row.data /\ new.text = row.text
           /\ ~new.active => Rate[row.ccl] * row.unread > Bound
  <1> DEFINE level == Decayed(row)
             r == Rate[row.ccl]
             mid == Rescored(row, level)
  <1>1. row \in Row
    BY DEF Good
  <1>2. /\ row.ccl \in Layers \cup {"reality"}
        /\ row.age \in 0 .. Cap /\ row.unread \in 0 .. Cap /\ row.level \in 0 .. Cap
    BY <1>1 DEF Row
  <1>3. Cap \in Nat /\ Bound \in Nat /\ Cap = Bound + 1 /\ r \in Nat \ {0}
    BY <1>2, MemoryConstants DEF Cap
  <1>4. row.age <= row.unread
    BY DEF Good, Clock
  <1>5. /\ r * (row.unread - row.age) \in Nat
        /\ r * (row.unread - row.age) + r * row.age = r * row.unread
        /\ r * row.age \in Nat /\ r * row.unread \in Nat /\ row.unread <= r * row.unread
    BY <1>2, <1>3, <1>4, RateCounts
  <1>6. /\ level = Least(row.level + r * row.age)
        /\ level \in 0 .. Cap /\ level <= row.level + r * row.age
    <2>1. row.level + r * row.age \in Nat
      BY <1>2, <1>5
    <2> QED BY <2>1, LeastLevel DEF Decayed
  <1>7. row.unread = Cap \/ level <= r * row.unread
    <2>1. CASE row.level <= r * (row.unread - row.age)
      BY <2>1, <1>2, <1>5, <1>6
    <2> QED BY <2>1 DEF Good, Clock
  <1> HIDE DEF level
  <1>a. 0 \in 0 .. Cap
    BY <1>3
  <1>10. CASE level <= Bound
    <2>0. new = [row EXCEPT !.level = level, !.age = 0, !.active = TRUE]
      <3>1. (level <= Bound) = TRUE
        BY <1>10
      <3>2. mid = [row EXCEPT !.level = level, !.age = 0, !.active = TRUE]
        BY <3>1, Zenon DEF Rescored
      <3>3. mid.active = TRUE
        BY <3>2, <1>1 DEF Row
      <3> QED BY <3>2, <3>3 DEF Shelved, level
    <2>1. /\ new \in Row /\ new.level = level /\ new.age = 0 /\ new.unread = row.unread
          /\ new.active = TRUE /\ new.ccl = row.ccl /\ new.kind = row.kind
          /\ new.data = row.data /\ new.text = row.text
      BY <2>0, <1>1, <1>6, <1>a DEF Row
    <2>2. Clock(new)
      <3>1. new.unread - new.age = row.unread /\ new.age <= new.unread
        BY <2>1, <1>2, <1>3
      <3>2. Rate[new.ccl] = r
        BY <2>1
      <3> QED BY <3>1, <3>2, <2>1, <1>7 DEF Clock
    <2>3. Speaks(new)
      BY <2>1 DEF Speaks, Good
    <2> QED BY <2>1, <2>2, <2>3 DEF Good
  <1>11. CASE ~(level <= Bound)
    <2>1. (level <= Bound) = FALSE
      BY <1>11, <1>3, <1>6
    <2>2. mid = [row EXCEPT !.level = level, !.age = 0, !.active = FALSE]
      BY <2>1, Zenon DEF Rescored
    <2>3. /\ new \in Row /\ new.active = FALSE /\ new.kind = row.kind
          /\ new.data = row.data /\ new.text = row.text
      <3>1. mid \in Row /\ mid.active = FALSE /\ mid.kind = row.kind
            /\ mid.data = row.data /\ mid.text = row.text
        BY <2>2, <1>1, <1>6, <1>a DEF Row
      <3>2. new = [mid EXCEPT !.level = 0, !.unread = 0]
        BY <3>1 DEF Shelved, level
      <3> HIDE DEF mid
      <3> QED BY <3>1, <3>2, <1>a DEF Row
    <2>4. Clock(new) /\ Speaks(new)
      BY <2>3 DEF Clock, Speaks, Good
    <2>5. r * row.unread > Bound
      BY <1>2, <1>3, <1>5, <1>6, <1>7, <1>11
    <2> QED BY <2>3, <2>4, <2>5 DEF Good
  <1> QED BY <1>10, <1>11

-----------------------------------------------------------------------------
(***************************************************************************)
(* The store.                                                              *)
(***************************************************************************)
\* Edges whose ends are kept.
LEMMA EdgesLeft ==
    ASSUME NEW A, NEW B, NEW E, NEW F, E \subseteq A \X A,
           F \subseteq E, \A e \in F : e[1] \in A => e[1] \in B,
           \A e \in F : e[2] \in A => e[2] \in B
    PROVE  F \subseteq B \X B
  <1> SUFFICES ASSUME NEW e \in F
               PROVE  e \in B \X B
    OBVIOUS
  <1>1. PICK a \in A, b \in A : e = <<a, b>>
    OBVIOUS
  <1> QED BY <1>1

\* What a step may do to the nodes that other tasks have in hand.
Kept == /\ last <= last'
        /\ \A n \in 1 .. last : OwnFact(n) => OwnFact(n)'

\* A step that leaves the store alone.
LEMMA StoreStays ==
    ASSUME Rows, UNCHANGED store
    PROVE  Rows' /\ Kept
  <1> USE DEF store, Stored
  <1>1. last <= last'
    BY MemoryConstants DEF Rows
  <1> QED BY <1>1 DEF Rows, Kept, OwnFact

\* A step that rewrites rows in place, and keeps what they are.
LEMMA RowsRewritten ==
    ASSUME Rows, UNCHANGED <<edge, last>>, DOMAIN node' = DOMAIN node,
           \A n \in Stored : /\ Good(node'[n])
                             /\ node'[n].kind = node[n].kind
                             /\ node'[n].data = node[n].data,
           DOMAIN vec' \subseteq Stored, \A n \in DOMAIN vec' : vec'[n] \in Texts
    PROVE  Rows' /\ Kept
  <1> USE DEF Stored
  <1>1. last <= last'
    BY MemoryConstants DEF Rows
  <1>2. \A n \in DOMAIN node : Good(node[n])'
    BY DEF Good, Row, Clock, Speaks
  <1> QED BY <1>1, <1>2 DEF Rows, Kept, OwnFact

\* A new row under a new id.
LEMMA RowInserted ==
    ASSUME Rows, UNCHANGED edge, NEW row, Good(row), last < MaxNodes, last' = last + 1,
           node' = Put(node, last', row), vec' = Index(vec, last', row.text, TRUE),
           row.text \in Texts \cup {None}
    PROVE  /\ Rows' /\ Kept /\ last' \in Nat \ {0} /\ last' \notin Stored
           /\ DOMAIN node' = Stored \cup {last'} /\ node'[last'] = row
           /\ \A m \in Stored : node'[m] = node[m]
  <1> USE DEF Stored
  <1>1. last \in 0 .. MaxNodes /\ MaxNodes \in Nat
    BY MemoryConstants DEF Rows
  <1>2. last' \in 0 .. MaxNodes /\ last' \in Nat \ {0} /\ last <= last'
    BY <1>1
  <1>3. last' \notin DOMAIN node
    BY <1>1, <1>2 DEF Rows
  <1>4. /\ DOMAIN node' = DOMAIN node \cup {last'} /\ node'[last'] = row
        /\ \A m \in DOMAIN node : node'[m] = node[m]
    BY <1>3 DEF Put
  <1>5. /\ DOMAIN vec' \subseteq DOMAIN node'
        /\ \A n \in DOMAIN vec' : vec'[n] \in Texts
    <2>1. CASE row.text = None
      BY <2>1, <1>4 DEF Index, Rows
    <2>2. CASE row.text # None
      <3>1. vec' = Put(vec, last', row.text)
        BY <2>2 DEF Index
      <3>2. DOMAIN vec' = DOMAIN vec \cup {last'} /\ vec'[last'] = row.text
            /\ \A m \in DOMAIN vec : m # last' => vec'[m] = vec[m]
        BY <3>1 DEF Put
      <3> QED BY <3>2, <2>2, <1>4 DEF Rows
    <2> QED BY <2>1, <2>2
  <1>6. DOMAIN node' \subseteq 1 .. last'
    BY <1>1, <1>4 DEF Rows
  <1>7. \A n \in DOMAIN node' : Good(node'[n])
    BY <1>4 DEF Rows
  <1>8. \A n \in DOMAIN node' : Good(node[n])'
    BY <1>7 DEF Good, Row, Clock, Speaks
  <1>9. edge' \subseteq (DOMAIN node') \X (DOMAIN node')
    BY <1>4, EdgesLeft DEF Rows
  <1>10. Kept
    BY <1>1, <1>2, <1>3, <1>4 DEF Kept, OwnFact
  <1> QED BY <1>2, <1>3, <1>4, <1>5, <1>6, <1>8, <1>9, <1>10 DEF Rows

\* Rows deleted, with their vectors and edges.
LEMMA RowsDeleted ==
    ASSUME Rows, NEW S, Delete(S), UNCHANGED last
    PROVE  Rows' /\ Kept
  <1> USE DEF Stored
  <1>1. /\ DOMAIN node' = DOMAIN node \ S
        /\ \A m \in DOMAIN node' : node'[m] = node[m]
        /\ DOMAIN vec' = DOMAIN vec \ S
        /\ \A m \in DOMAIN vec' : vec'[m] = vec[m]
    BY DEF Delete, Drop
  <1>2. edge' \subseteq (DOMAIN node') \X (DOMAIN node')
    BY <1>1, EdgesLeft DEF Delete, Rows
  <1>3. \A n \in DOMAIN node' : Good(node[n])'
    BY <1>1 DEF Good, Row, Clock, Speaks, Rows
  <1>4. last <= last'
    BY MemoryConstants DEF Rows
  <1>5. Kept
    BY <1>1, <1>4 DEF Kept, OwnFact
  <1>6. DOMAIN vec' \subseteq DOMAIN node' /\ \A n \in DOMAIN vec' : vec'[n] \in Texts
    BY <1>1 DEF Rows
  <1> QED BY <1>1, <1>2, <1>3, <1>5, <1>6 DEF Rows

\* An edge between stored nodes.
LEMMA EdgeAdded ==
    ASSUME Rows, UNCHANGED <<node, vec, last>>, NEW a \in Stored, NEW b \in Stored,
           edge' = edge \cup {<<a, b>>}
    PROVE  Rows' /\ Kept
  <1> USE DEF Stored
  <1>1. last <= last'
    BY MemoryConstants DEF Rows
  <1>2. <<a, b>> \in (DOMAIN node') \X (DOMAIN node')
    OBVIOUS
  <1> QED BY <1>1, <1>2 DEF Rows, Kept, OwnFact

-----------------------------------------------------------------------------
(***************************************************************************)
(* Tasks and the lock.                                                     *)
(***************************************************************************)
\* The other tasks' hands are as full as they were.
LEMMA SoundKept ==
    ASSUME NEW p, NEW t, Sound(p, t), Kept, last \in Nat, last' \in Nat
    PROVE  Sound(p, t)'
  <1>1. InHand(t.hit) => InHand(t.hit)'
    BY DEF InHand, Kept
  <1> QED BY <1>1 DEF Sound, Shape, InHand

LEMMA TaskMoves ==
    ASSUME Rows, Rows', Tasks, Kept, NEW p \in Procs,
           task' = [task EXCEPT ![p] = task'[p]], Sound(p, task[p])'
    PROVE  Tasks'
  <1>1. task' = [q \in Procs |-> task'[q]]
    BY DEF Tasks
  <1>2. \A q \in Procs : q # p => task'[q] = task[q]
    BY DEF Tasks
  <1>3. last \in Nat /\ last' \in Nat
    BY MemoryConstants DEF Rows
  <1>4. ASSUME NEW q \in Procs, q # p
        PROVE  Sound(q, task[q])'
    <2>1. Sound(q, task[q])
      BY DEF Tasks
    <2>2. task'[q] = task[q]
      BY <1>2, <1>4
    <2>3. PICK t : t = task[q]
      OBVIOUS
    <2>4. Sound(q, t)'
      BY <2>1, <2>3, <1>3, SoundKept
    <2> QED BY <2>2, <2>3, <2>4
  <1> QED BY <1>1, <1>4 DEF Tasks

LEMMA TasksStay ==
    ASSUME Rows, Rows', Tasks, Kept, UNCHANGED task
    PROVE  Tasks'
  <1>3. last \in Nat /\ last' \in Nat
    BY MemoryConstants DEF Rows
  <1>4. ASSUME NEW q \in Procs
        PROVE  Sound(q, task[q])'
    <2>1. Sound(q, task[q])
      BY DEF Tasks
    <2>3. PICK t : t = task[q]
      OBVIOUS
    <2>4. Sound(q, t)'
      BY <2>1, <2>3, <1>3, SoundKept
    <2> QED BY <2>3, <2>4
  <1> QED BY <1>4 DEF Tasks

\* No sweep is under way, before or after.
LEMMA LockedFree ==
    ASSUME Locked, Writable, UNCHANGED lock, \A q \in Procs : task'[q].at # "sweep"
    PROVE  Locked'
  BY MemoryConstants DEF Locked, Writable, At

\* A step of a process that sweeps neither before nor after.
LEMMA LockedBeside ==
    ASSUME Locked, UNCHANGED <<store, lock>>, NEW p \in Procs,
           task = [q \in Procs |-> task[q]], task' = [task EXCEPT ![p] = task'[p]],
           ~At(p, "sweep"), task'[p].at # "sweep"
    PROVE  Locked'
  <1>1. \A q \in Procs : q # p => task'[q] = task[q]
    OBVIOUS
  <1>2. lock # p
    BY DEF Locked
  <1> QED BY <1>1, <1>2 DEF Locked, At, store, Active, Stored, Decayed

LEMMA Moved ==
    ASSUME Tasks, NEW p \in Procs, NEW t, Goto(p, t)
    PROVE  task' = [task EXCEPT ![p] = task'[p]] /\ task'[p] = t
  BY DEF Tasks, Goto

\* A step that touches nothing but the task of a process that holds no lock.
LEMMA QuietStep ==
    ASSUME MemoryInv, UNCHANGED <<store, lock>>, NEW p \in Procs, ~At(p, "sweep"),
           NEW t, Goto(p, t), Sound(p, t)', t.at # "sweep"
    PROVE  MemoryInv'
  <1> USE DEF MemoryInv
  <1>1. Rows' /\ Kept
    BY StoreStays
  <1>2. task' = [task EXCEPT ![p] = task'[p]] /\ task'[p] = t
    BY Moved
  <1>3. Sound(p, task[p])'
    BY <1>2
  <1>4. Tasks'
    BY <1>1, <1>2, <1>3, TaskMoves
  <1>5. task = [q \in Procs |-> task[q]] /\ task'[p].at # "sweep"
    BY <1>2 DEF Tasks
  <1>6. Locked'
    BY <1>2, <1>5, LockedBeside
  <1> QED BY <1>1, <1>4, <1>6

\* A write while nobody sweeps.
LEMMA WriteStep ==
    ASSUME MemoryInv, Rows', Kept, Writable, UNCHANGED lock, NEW p \in Procs,
           NEW t, Goto(p, t), Sound(p, t)', t.at # "sweep"
    PROVE  MemoryInv'
  <1> USE DEF MemoryInv
  <1>2. task' = [task EXCEPT ![p] = task'[p]] /\ task'[p] = t
    BY Moved
  <1>3. Sound(p, task[p])'
    BY <1>2
  <1>4. Tasks'
    BY <1>2, <1>3, TaskMoves
  <1>0. \A q \in Procs : task[q].at # "sweep"
    BY MemoryConstants DEF Locked, Writable, At
  <1>1. \A q \in Procs : q # p => task'[q] = task[q]
    BY <1>2 DEF Tasks
  <1>5. \A q \in Procs : task'[q].at # "sweep"
    BY <1>0, <1>1, <1>2
  <1>6. Locked'
    BY <1>5, LockedFree
  <1> QED BY <1>4, <1>6

LEMMA WriteAside ==
    ASSUME MemoryInv, Rows', Kept, Writable, UNCHANGED <<task, lock>>
    PROVE  MemoryInv'
  <1> USE DEF MemoryInv
  <1>1. \A q \in Procs : task'[q].at # "sweep"
    BY MemoryConstants DEF Locked, Writable, At
  <1> QED BY <1>1, LockedFree, TasksStay

LEMMA IdleSound ==
    ASSUME NEW p
    PROVE  Sound(p, Idle) /\ Sound(p, Idle)' /\ Idle.at = "idle"
  <1>1. Idle \in Shape(Idle) /\ Idle.at = "idle"
    BY DEF Idle, Shape, Stations
  <1> QED BY <1>1 DEF Sound, Learning, Naming

LEMMA IdleFields ==
    Idle \in [at : {"idle"}, ids : {{}}, todo : {0}, src : {0}, hit : {0}, text : {None},
              ccl : {None}, next : {"idle"}, archived : BOOLEAN]
  BY DEF Idle

LEMMA OnwardSound ==
    ASSUME NEW p, NEW t, Sound(p, t), t.at \in {"support", "content", "create"}, NEW n \in Nat
    PROVE  Sound(p, Onward(t, n))' /\ Onward(t, n).at \in {"link", "embed", "idle"}
  <1> DEFINE rest == [t EXCEPT !.todo = @ - 1, !.hit = 0, !.text = None]
  <1>1. t \in Shape(t) /\ t.ccl \in Layers /\ t.next = "embed" /\ p \in Talkers
    BY DEF Sound, Learning
  <1>a. rest \in [at : Stations, ids : {t.ids}, todo : Int, src : Nat, hit : {0},
                  text : {None}, ccl : Layers, next : {"embed"}, archived : BOOLEAN]
    <2>1. t \in [at : Stations, ids : {t.ids}, todo : Int, src : Nat, hit : {t.hit},
                 text : {t.text}, ccl : Layers, next : {"embed"}, archived : BOOLEAN]
      BY <1>1 DEF Shape
    <2>2. t.todo - 1 \in Int
      BY <2>1
    <2> QED BY <2>1, <2>2
  <1>2. CASE t.src # 0
    <2>1. Onward(t, n) = [rest EXCEPT !.at = "link", !.hit = n]
      BY <1>2 DEF Onward
    <2>2. rest \in [at : Stations, ids : {t.ids}, todo : Int, src : Nat, hit : {0},
                    text : {None}, ccl : Layers, next : {"embed"}, archived : BOOLEAN]
      BY <1>a
    <2> HIDE DEF rest
    <2>3. [rest EXCEPT !.at = "link", !.hit = n] \in
             [at : {"link"}, ids : {t.ids}, todo : Int, src : Nat, hit : {n},
              text : {None}, ccl : Layers, next : {"embed"}, archived : BOOLEAN]
      BY <2>2
    <2> DEFINE new == Onward(t, n)
    <2>4. new \in [at : {"link"}, ids : {t.ids}, todo : Int, src : Nat, hit : {n},
                   text : {None}, ccl : Layers, next : {"embed"}, archived : BOOLEAN]
      BY <2>1, <2>3
    <2> HIDE DEF new
    <2>5. new \in Shape(new) /\ new.at = "link" /\ new.ccl \in Layers /\ new.next = "embed"
      BY <2>4 DEF Shape, Stations
    <2>6. Sound(p, new)'
      BY <2>5, <1>1 DEF Sound, Learning, Naming, Shape
    <2> QED BY <2>5, <2>6 DEF new
  <1>3. CASE t.src = 0 /\ rest.todo > 0
    <2>1. Onward(t, n) = [rest EXCEPT !.at = "embed", !.src = n]
      BY <1>3 DEF Onward
    <2>2. rest \in [at : Stations, ids : {t.ids}, todo : Int, src : Nat, hit : {0},
                    text : {None}, ccl : Layers, next : {"embed"}, archived : BOOLEAN]
      BY <1>a
    <2> HIDE DEF rest
    <2>3. [rest EXCEPT !.at = "embed", !.src = n] \in
             [at : {"embed"}, ids : {t.ids}, todo : Int, src : Nat, hit : {0},
              text : {None}, ccl : Layers, next : {"embed"}, archived : BOOLEAN]
      BY <2>2
    <2> DEFINE new == Onward(t, n)
    <2>4. new \in [at : {"embed"}, ids : {t.ids}, todo : Int, src : Nat, hit : {0},
                   text : {None}, ccl : Layers, next : {"embed"}, archived : BOOLEAN]
      BY <2>1, <2>3
    <2> HIDE DEF new
    <2>5. new \in Shape(new) /\ new.at = "embed" /\ new.ccl \in Layers /\ new.next = "embed"
      BY <2>4 DEF Shape, Stations
    <2>6. Sound(p, new)'
      BY <2>5, <1>1 DEF Sound, Learning, Naming, Shape
    <2> QED BY <2>5, <2>6 DEF new
  <1>4. CASE t.src = 0 /\ ~(rest.todo > 0)
    BY <1>4, IdleSound DEF Onward
  <1> QED BY <1>2, <1>3, <1>4

-----------------------------------------------------------------------------
(***************************************************************************)
(* Recall and boost.                                                       *)
(***************************************************************************)
LEMMA BoostedRows ==
    ASSUME Rows, NEW S, node' = Boosted(S), UNCHANGED <<vec, edge, last>>
    PROVE  /\ Rows' /\ Kept /\ DOMAIN node' = Stored
           /\ \A n \in Stored : /\ node'[n].text = node[n].text
                               /\ node'[n].active = node[n].active
  <1>1. DOMAIN node' = DOMAIN node
    BY DEF Boosted, Stored
  <1>2. ASSUME NEW n \in Stored
        PROVE  /\ Good(node'[n]) /\ node'[n].kind = node[n].kind
               /\ node'[n].data = node[n].data /\ node'[n].text = node[n].text
               /\ node'[n].active = node[n].active
    <2>1. Good(node[n])
      BY DEF Rows
    <2>2. CASE n \in S
      <3>1. node'[n] = [node[n] EXCEPT !.level = 0, !.age = 0, !.unread = 0]
        BY <2>2 DEF Boosted
      <3> QED BY <2>1, <3>1, BoostIsGood
    <2>3. CASE n \notin S
      BY <2>1, <2>3 DEF Boosted
    <2> QED BY <2>2, <2>3
  <1>3. DOMAIN vec' \subseteq Stored /\ \A n \in DOMAIN vec' : vec'[n] \in Texts
    BY DEF Rows
  <1>4. Rows' /\ Kept
    BY <1>1, <1>2, <1>3, RowsRewritten
  <1> QED BY <1>1, <1>2, <1>4 DEF Stored

LEMMA RecallKeeps ==
    ASSUME MemoryInv, NEW p \in Procs, Recall(p)
    PROVE  MemoryInv'
  <1>1. PICK S \in SUBSET Active : Goto(p, [Idle EXCEPT !.at = "boost", !.ids = S])
    BY DEF Recall
  <1> DEFINE t == [Idle EXCEPT !.at = "boost", !.ids = S]
  <1>2. t \in Shape(t) /\ t.at = "boost"
    <2>1. t \in [at : {"boost"}, ids : {S}, todo : {0}, src : {0}, hit : {0}, text : {None},
                 ccl : {None}, next : {"idle"}, archived : BOOLEAN]
      BY IdleFields
    <2> HIDE DEF t
    <2> QED BY <2>1 DEF Shape, Stations
  <1> HIDE DEF t
  <1>3. Sound(p, t)'
    BY <1>2 DEF Sound, Shape, Learning, Naming
  <1>4. Goto(p, t) /\ ~At(p, "sweep") /\ UNCHANGED <<store, lock>>
    BY <1>1 DEF Recall, At, t
  <1> QED BY <1>2, <1>3, <1>4, QuietStep

LEMMA BoostKeeps ==
    ASSUME MemoryInv, NEW p \in Procs, Boost(p)
    PROVE  MemoryInv'
  <1>1. Rows' /\ Kept
    BY BoostedRows DEF Boost, MemoryInv
  <1>2. Writable /\ UNCHANGED lock
    BY DEF Boost
  <1>3. CASE Goto(p, Idle)
    BY <1>1, <1>2, <1>3, IdleSound, WriteStep
  <1>4. CASE p \in Talkers /\ Goto(p, [Idle EXCEPT !.at = "extract"])
    <2> DEFINE t == [Idle EXCEPT !.at = "extract"]
    <2>1. t \in Shape(t) /\ t.at = "extract"
      <3>1. t \in [at : {"extract"}, ids : {{}}, todo : {0}, src : {0}, hit : {0},
                   text : {None}, ccl : {None}, next : {"idle"}, archived : BOOLEAN]
        BY IdleFields
      <3> HIDE DEF t
      <3> QED BY <3>1 DEF Shape, Stations
    <2> HIDE DEF t
    <2>2. Sound(p, t)'
      BY <1>4, <2>1 DEF Sound, Shape, Learning, Naming
    <2>3. Goto(p, t)
      BY <1>4 DEF t
    <2> QED BY <1>1, <1>2, <2>1, <2>2, <2>3, WriteStep
  <1> QED BY <1>3, <1>4 DEF Boost

-----------------------------------------------------------------------------
(***************************************************************************)
(* Learning from a message.                                                *)
(***************************************************************************)
LEMMA ExtractKeeps ==
    ASSUME MemoryInv, NEW p \in Procs, Extract(p)
    PROVE  MemoryInv'
  <1>1. UNCHANGED <<store, lock>> /\ ~At(p, "sweep")
    BY DEF Extract, At
  <1>2. CASE Goto(p, Idle)
    BY <1>1, <1>2, IdleSound, QuietStep
  <1>3. ASSUME NEW k \in 1 .. MaxFacts, NEW l \in Layers,
               Goto(p, [task[p] EXCEPT !.at = "embed", !.todo = k, !.ccl = l, !.next = "embed"])
        PROVE  MemoryInv'
    <2>0. PICK t : t = [task[p] EXCEPT !.at = "embed", !.todo = k, !.ccl = l, !.next = "embed"]
      OBVIOUS
    <2>1. task[p] \in Shape(task[p]) /\ p \in Talkers
      BY DEF MemoryInv, Tasks, Sound, Extract, At
    <2>2. /\ t \in Shape(t) /\ t.at = "embed" /\ t.next = "embed" /\ t.ccl = l
      <3>1. t \in [at : {"embed"}, ids : {task[p].ids}, todo : Int, src : Nat,
                   hit : {task[p].hit}, text : {task[p].text}, ccl : {l},
                   next : {"embed"}, archived : BOOLEAN]
        <4>1. task[p] \in [at : Stations, ids : {task[p].ids}, todo : Int, src : Nat,
                   hit : {task[p].hit}, text : {task[p].text}, ccl : {task[p].ccl},
                   next : {task[p].next}, archived : BOOLEAN]
          BY <2>1 DEF Shape
        <4>2. k \in Int
          BY MemoryConstants
        <4> QED BY <4>1, <4>2, <2>0
      <3>2. task[p].text \in Texts \cup Data \cup {None}
        BY <2>1 DEF Shape
      <3> QED BY <3>1, <3>2 DEF Shape, Stations
    <2>3. Sound(p, t)'
      BY <2>1, <2>2 DEF Sound, Shape, Learning, Naming
    <2>4. Goto(p, t)
      BY <1>3, <2>0
    <2> QED BY <1>1, <2>2, <2>3, <2>4, QuietStep
  <1> QED BY <1>2, <1>3 DEF Extract

\* The partner that is found is the dialogue's own.
LEMMA ResolveKeeps ==
    ASSUME MemoryInv, NEW p \in Procs, Resolve(p)
    PROVE  MemoryInv'
  <1>1. UNCHANGED <<store, lock>> /\ ~At(p, "sweep")
    BY DEF Resolve, At
  <1>2. /\ task[p] \in Shape(task[p]) /\ p \in Talkers
        /\ task[p].ccl \in Layers /\ task[p].next = "embed"
    BY DEF MemoryInv, Tasks, Sound, Resolve, At, Learning
  <1>3. ASSUME NEW at \in {"create", "support", "content"}, NEW hit, NEW text, NEW t,
               t = [task[p] EXCEPT !.at = at, !.hit = hit, !.text = text],
               text \in Texts \cup {None}, at # "support" => text \in Chat,
               at # "create" => InHand(hit)
        PROVE  Sound(p, t)' /\ t.at # "sweep"
    <2>1. /\ t \in Shape(t) /\ t.at = at /\ t.next = "embed" /\ t.ccl \in Layers
          /\ t.text = text /\ t.hit = hit
      BY <1>2, <1>3 DEF Shape, Stations
    <2>2. at # "create" => InHand(hit)'
      BY <1>1, <1>3 DEF InHand, OwnFact, Stored, store
    <2> QED BY <1>2, <1>3, <2>1, <2>2 DEF Sound, Shape, Learning, Naming
  <1>4. CASE Goto(p, Idle)
    BY <1>1, <1>4, IdleSound, QuietStep
  <1>5. ASSUME NEW c \in Chat, Goto(p, [task[p] EXCEPT !.at = "create", !.text = c])
        PROVE  MemoryInv'
    <2>0. PICK t : t = [task[p] EXCEPT !.at = "create", !.text = c]
      OBVIOUS
    <2>1. t = [task[p] EXCEPT !.at = "create", !.hit = task[p].hit, !.text = c]
      BY <1>2, <2>0 DEF Shape
    <2>2. c \in Texts
      BY DEF Texts
    <2>3. Sound(p, t)' /\ t.at # "sweep"
      BY <2>1, <2>2, <1>3
    <2>4. Goto(p, t)
      BY <1>5, <2>0
    <2> QED BY <1>1, <2>3, <2>4, QuietStep
  <1>6. ASSUME NEW c \in Chat, NEW n \in Nearest(c, {m \in Similar(c) : SameIdentity(m)}),
               Goto(p, IF Same(c, n)
                       THEN [task[p] EXCEPT !.at = "support", !.hit = n, !.text = node[n].text]
                       ELSE [task[p] EXCEPT !.at = "content", !.hit = n, !.text = c])
        PROVE  MemoryInv'
    <2>1. n \in Stored /\ SameIdentity(n)
      BY <1>6 DEF Nearest, Similar, Active
    <2>2. n \in 1 .. last /\ Good(node[n])
      BY <2>1 DEF MemoryInv, Rows
    <2>3. InHand(n) /\ node[n].text \in Texts \cup {None} /\ c \in Texts
      BY <2>1, <2>2 DEF InHand, OwnFact, SameIdentity, Good, Row, Texts
    <2>4. CASE Same(c, n)
      <3>0. PICK t : t = [task[p] EXCEPT !.at = "support", !.hit = n, !.text = node[n].text]
        OBVIOUS
      <3>1. Goto(p, t)
        BY <1>6, <2>4, <3>0
      <3>2. Sound(p, t)' /\ t.at # "sweep"
        BY <1>3, <2>3, <3>0
      <3> QED BY <1>1, <3>1, <3>2, QuietStep
    <2>5. CASE ~Same(c, n)
      <3>0. PICK t : t = [task[p] EXCEPT !.at = "content", !.hit = n, !.text = c]
        OBVIOUS
      <3>1. Goto(p, t)
        BY <1>6, <2>5, <3>0
      <3>2. Sound(p, t)' /\ t.at # "sweep"
        BY <1>3, <2>3, <3>0
      <3> QED BY <1>1, <3>1, <3>2, QuietStep
    <2> QED BY <2>4, <2>5
  <1> QED BY <1>4, <1>5, <1>6 DEF Resolve

\* What a task means to write to is its own, and in reach.
LEMMA HeldRow ==
    ASSUME MemoryInv, NEW p \in Procs, task[p].at \in {"support", "content"},
           task[p].hit \in Stored
    PROVE  /\ Good(node[task[p].hit]) /\ node[task[p].hit].kind = "fact"
           /\ node[task[p].hit].data = None
  <1>1. Sound(p, task[p])
    BY DEF MemoryInv, Tasks
  <1> QED BY <1>1 DEF Sound, InHand, OwnFact, MemoryInv, Rows

\* The rows after one of them is said again, in other words perhaps.
LEMMA RowRewritten ==
    ASSUME Rows, NEW n \in Stored, node[n].kind = "fact", node[n].data = None,
           NEW text \in Texts \cup {None},
           node' = [node EXCEPT ![n].level = 0, ![n].text = text], UNCHANGED <<edge, last>>,
           DOMAIN vec' \subseteq Stored, \A m \in DOMAIN vec' : vec'[m] \in Texts
    PROVE  /\ Rows' /\ Kept /\ DOMAIN node' = Stored
           /\ node'[n].text = text /\ node'[n].active = node[n].active
           /\ \A m \in Stored : m # n => node'[m] = node[m]
  <1>1. node' = [node EXCEPT ![n] = [node[n] EXCEPT !.level = 0, !.text = text]]
    OBVIOUS
  <1>2. /\ DOMAIN node' = Stored /\ node'[n] = [node[n] EXCEPT !.level = 0, !.text = text]
        /\ \A m \in Stored : m # n => node'[m] = node[m]
    BY <1>1 DEF Stored
  <1>3. Good(node[n])
    BY DEF Rows
  <1>4. Good(node'[n]) /\ node'[n].kind = "fact" /\ node'[n].data = None
    <2>1. PICK row, new : row = node[n] /\ new = [row EXCEPT !.level = 0, !.text = text]
      OBVIOUS
    <2>2. Good(row) /\ row.kind = "fact" /\ row.data = None
      BY <1>3, <2>1
    <2>3. Good(new) /\ new.kind = "fact" /\ new.data = None
      BY <2>1, <2>2, RewriteIsGood
    <2> QED BY <1>2, <2>1, <2>3
  <1>5. ASSUME NEW m \in Stored
        PROVE  Good(node'[m]) /\ node'[m].kind = node[m].kind /\ node'[m].data = node[m].data
    BY <1>2, <1>4 DEF Rows
  <1>6. node[n] \in Row
    BY <1>3 DEF Good
  <1>7. node'[n].text = text /\ node'[n].active = node[n].active
    BY <1>2, <1>6 DEF Row
  <1>8. Rows' /\ Kept
    BY <1>2, <1>5, RowsRewritten DEF Stored
  <1> QED BY <1>2, <1>7, <1>8

LEMMA SupportKeeps ==
    ASSUME MemoryInv, NEW p \in Procs, Support(p)
    PROVE  MemoryInv'
  <1>0. PICK n : n = task[p].hit
    OBVIOUS
  <1>1. PICK t : t = task[p]
    OBVIOUS
  <1>2. /\ Sound(p, t) /\ t.at = "support" /\ n \in Nat \ {0} /\ Rows
        /\ t.text \in Texts \cup {None}
    BY <1>0, <1>1 DEF Support, At, MemoryInv, Tasks, Sound, InHand, Rows
  <1>3. /\ Writable /\ UNCHANGED <<vec, edge, last, lock>> /\ Goto(p, Onward(t, n))
        /\ \/ node' = Supported(n, t.text)
           \/ n \in Stored /\ node' = Supported(n, node[n].text)
    BY <1>0, <1>1 DEF Support
  <1>4. Sound(p, Onward(t, n))' /\ Onward(t, n).at \in {"link", "embed", "idle"}
    BY <1>2, OnwardSound
  <1>5. Rows' /\ Kept
    <2>1. CASE n \notin Stored
      <3>1. UNCHANGED store
        BY <1>3, <2>1 DEF Supported, store
      <3> QED BY <3>1, <1>2, StoreStays
    <2>2. CASE n \in Stored
      <3>1. Good(node[n]) /\ node[n].kind = "fact" /\ node[n].data = None
        BY <1>0, <1>1, <1>2, <2>2, HeldRow
      <3>2. PICK text \in Texts \cup {None} :
                node' = [node EXCEPT ![n].level = 0, ![n].text = text]
        <4>1. node[n].text \in Texts \cup {None}
          BY <3>1 DEF Good, Row
        <4> QED BY <4>1, <1>2, <1>3, <2>2 DEF Supported
      <3>3. DOMAIN vec' \subseteq Stored /\ \A m \in DOMAIN vec' : vec'[m] \in Texts
        BY <1>2, <1>3 DEF Rows
      <3> QED BY <1>2, <1>3, <2>2, <3>1, <3>2, <3>3, RowRewritten
    <2> QED BY <2>1, <2>2
  <1>6. PICK new : new = Onward(t, n) /\ Sound(p, new)'
    BY <1>4
  <1> QED BY <1>3, <1>4, <1>5, <1>6, WriteStep

\* The vectors after node n is indexed by t, or not at all.
VectorOf(new, n, t) ==
    /\ node[n].active /\ t # None => DOMAIN new = DOMAIN vec \cup {n}
    /\ ~(node[n].active /\ t # None) => DOMAIN new = DOMAIN vec \ {n}
    /\ \A m \in DOMAIN new : m = n => new[m] = t
    /\ \A m \in DOMAIN new : m # n => new[m] = vec[m]
    /\ DOMAIN new \subseteq Stored
    /\ \A m \in DOMAIN new : new[m] \in Texts

LEMMA ReindexedRows ==
    ASSUME Rows, NEW n \in Stored, NEW t \in Texts, NEW new, new = Reindexed(n, t)
    PROVE  VectorOf(new, n, t)
  <1> USE DEF VectorOf
  <1> DEFINE less == Drop(vec, {n})
  <1>1. DOMAIN less = DOMAIN vec \ {n} /\ \A m \in DOMAIN less : less[m] = vec[m]
    BY DEF Drop
  <1>2. CASE node[n].active /\ t # None
    <2>1. new = Put(less, n, t)
      BY <1>2 DEF Reindexed, Index
    <2> HIDE DEF less
    <2>2. /\ DOMAIN new = DOMAIN less \cup {n} /\ new[n] = t
          /\ \A m \in DOMAIN less : m # n => new[m] = less[m]
      BY <2>1 DEF Put
    <2>3. DOMAIN new = DOMAIN vec \cup {n}
      BY <1>1, <2>2
    <2>4. \A m \in DOMAIN new : m # n => new[m] = vec[m]
      BY <1>1, <2>2
    <2> QED BY <1>2, <2>2, <2>3, <2>4 DEF Rows
  <1>3. CASE ~(node[n].active /\ t # None)
    <2>1. new = less
      BY <1>3 DEF Reindexed, Index
    <2> HIDE DEF less
    <2>2. DOMAIN new = DOMAIN vec \ {n} /\ \A m \in DOMAIN new : new[m] = vec[m]
      BY <1>1, <2>1
    <2> QED BY <1>3, <2>2 DEF Rows
  <1> QED BY <1>2, <1>3

LEMMA ContentKeeps ==
    ASSUME MemoryInv, NEW p \in Procs, Content(p)
    PROVE  MemoryInv'
  <1>0. PICK n : n = task[p].hit
    OBVIOUS
  <1>1. PICK t : t = task[p]
    OBVIOUS
  <1>2. /\ Sound(p, t) /\ t.at = "content" /\ n \in Nat \ {0} /\ Rows /\ t.text \in Chat
    BY <1>0, <1>1 DEF Content, At, MemoryInv, Tasks, Sound, InHand, Rows
  <1>3. Writable /\ UNCHANGED <<edge, last, lock>>
    BY DEF Content
  <1>4. CASE n \in Stored
    <2>1. /\ node' = [node EXCEPT ![n].text = t.text, ![n].level = 0]
          /\ vec' = Reindexed(n, t.text) /\ Goto(p, Onward(t, n))
      BY <1>0, <1>1, <1>4 DEF Content
    <2>2. Good(node[n]) /\ node[n].kind = "fact" /\ node[n].data = None
      BY <1>0, <1>1, <1>2, <1>4, HeldRow
    <2>3. node' = [node EXCEPT ![n].level = 0, ![n].text = t.text]
      BY <2>1
    <2>4. t.text \in Texts
      BY <1>2 DEF Texts
    <2>5. DOMAIN vec' \subseteq Stored /\ \A m \in DOMAIN vec' : vec'[m] \in Texts
      BY <1>2, <1>4, <2>1, <2>4, ReindexedRows DEF VectorOf
    <2>6. Rows' /\ Kept
      BY <1>2, <1>3, <1>4, <2>2, <2>3, <2>4, <2>5, RowRewritten
    <2>7. Sound(p, Onward(t, n))' /\ Onward(t, n).at \in {"link", "embed", "idle"}
      BY <1>2, OnwardSound
    <2>8. PICK new : new = Onward(t, n) /\ Sound(p, new)'
      BY <2>7
    <2> QED BY <1>3, <2>1, <2>6, <2>7, <2>8, WriteStep
  <1>5. CASE n \notin Stored
    <2>1. Goto(p, Idle) /\ UNCHANGED <<store, lock>> /\ ~At(p, "sweep")
      BY <1>0, <1>3, <1>5 DEF Content, store, At
    <2> QED BY <2>1, IdleSound, QuietStep
  <1> QED BY <1>4, <1>5

LEMMA CreateKeeps ==
    ASSUME MemoryInv, NEW p \in Procs, Create(p)
    PROVE  MemoryInv'
  <1>1. PICK t : t = task[p]
    OBVIOUS
  <1>2. /\ Sound(p, t) /\ t.at = "create" /\ Rows /\ t.text \in Chat /\ t.ccl \in Layers
    BY <1>1 DEF Create, At, MemoryInv, Tasks, Sound, Learning
  <1>3. Writable /\ UNCHANGED <<edge, lock>>
    BY DEF Create
  <1>4. CASE t.archived
    <2> DEFINE row == New(t.text, "fact", None, t.ccl)
    <2>1. Insert(row) /\ Goto(p, Onward(t, last'))
      BY <1>1, <1>4 DEF Create
    <2>2. Good(row) /\ row.text \in Texts \cup {None} /\ row.text = t.text
      <3>1. t.text \in Texts \cup {None} /\ row.text = t.text
        BY <1>2 DEF Texts, New
      <3> QED BY <3>1, <1>2, NewIsGood
    <2> HIDE DEF row
    <2>3. Rows' /\ Kept /\ last' \in Nat
      BY <1>2, <1>3, <2>1, <2>2, RowInserted DEF Insert
    <2>4. PICK n \in Nat : n = last'
      BY <2>3
    <2>5. Sound(p, Onward(t, n))' /\ Onward(t, n).at \in {"link", "embed", "idle"}
      BY <1>2, OnwardSound
    <2>6. PICK new : new = Onward(t, n) /\ Sound(p, new)'
      BY <2>5
    <2> QED BY <1>3, <2>1, <2>3, <2>4, <2>5, <2>6, WriteStep
  <1>5. CASE ~t.archived
    <2>1. Goto(p, Idle) /\ UNCHANGED <<store, lock>> /\ ~At(p, "sweep")
      BY <1>1, <1>3, <1>5 DEF Create, store, At
    <2> QED BY <2>1, IdleSound, QuietStep
  <1> QED BY <1>4, <1>5

LEMMA LinkKeeps ==
    ASSUME MemoryInv, NEW p \in Procs, Link(p)
    PROVE  MemoryInv'
  <1>1. PICK t : t = task[p]
    OBVIOUS
  <1>2. /\ Sound(p, t) /\ t.at = "link" /\ Rows
    BY <1>1 DEF Link, At, MemoryInv, Tasks
  <1>3. Writable /\ UNCHANGED <<node, vec, last, lock>>
    BY DEF Link
  <1>4. CASE {t.src, t.hit} \subseteq Stored
    <2>1. /\ edge' = edge \cup {<<t.src, t.hit>>}
          /\ Goto(p, IF t.todo = 0 THEN Idle ELSE [t EXCEPT !.at = t.next, !.hit = 0])
      BY <1>1, <1>4 DEF Link, BothStored
    <2>2. Rows' /\ Kept
      BY <1>2, <1>3, <1>4, <2>1, EdgeAdded
    <2>3. CASE t.todo = 0
      BY <1>3, <2>1, <2>2, <2>3, IdleSound, WriteStep
    <2>4. CASE t.todo # 0
      <3> DEFINE new == [t EXCEPT !.at = t.next, !.hit = 0]
      <3>1. /\ t \in Shape(t) /\ t.ccl \in Layers
            /\ t.next = "subject" \/ (t.next = "embed" /\ p \in Talkers)
        BY <1>2 DEF Sound
      <3>2. /\ new \in Shape(new) /\ new.at = t.next /\ new.next = t.next
            /\ new.ccl \in Layers
        <4>1. t \in [at : {t.at}, ids : {t.ids}, todo : Int, src : Nat, hit : {t.hit},
                     text : Texts \cup Data \cup {None}, ccl : Layers, next : {t.next},
                     archived : BOOLEAN]
          BY <3>1 DEF Shape
        <4>2. new \in [at : {t.next}, ids : {t.ids}, todo : Int, src : Nat, hit : {0},
                       text : Texts \cup Data \cup {None}, ccl : Layers, next : {t.next},
                       archived : BOOLEAN]
          BY <4>1
        <4> HIDE DEF new
        <4> QED BY <3>1, <4>2 DEF Shape, Stations
      <3>3. Goto(p, new)
        BY <2>1, <2>4
      <3> HIDE DEF new
      <3>4. Sound(p, new)' /\ new.at # "sweep"
        BY <3>1, <3>2 DEF Sound, Learning, Naming, Shape
      <3> QED BY <1>3, <2>2, <3>3, <3>4, WriteStep
    <2> QED BY <2>3, <2>4
  <1>5. CASE ~({t.src, t.hit} \subseteq Stored)
    <2>1. Goto(p, Idle) /\ UNCHANGED <<store, lock>> /\ ~At(p, "sweep")
      BY <1>1, <1>3, <1>5 DEF Link, BothStored, store, At
    <2> QED BY <2>1, IdleSound, QuietStep
  <1> QED BY <1>4, <1>5

-----------------------------------------------------------------------------
(***************************************************************************)
(* Bus commands and tools.                                                 *)
(***************************************************************************)
LEMMA StoreFactKeeps ==
    ASSUME MemoryInv, NEW p \in Procs, StoreFact(p)
    PROVE  MemoryInv'
  <1>1. PICK t \in Chat, l \in Layers : Insert(New(t, "fact", None, l))
    BY DEF StoreFact
  <1>2. Writable /\ UNCHANGED <<edge, task, lock>> /\ Rows
    BY DEF StoreFact, Call, MemoryInv
  <1> DEFINE row == New(t, "fact", None, l)
  <1>3. Good(row) /\ row.text \in Texts \cup {None}
    <2>1. t \in Texts \cup {None} /\ row.text = t
      BY DEF Texts, New
    <2> QED BY <2>1, NewIsGood
  <1> HIDE DEF row
  <1>4. Insert(row)
    BY <1>1 DEF row
  <1>5. Rows' /\ Kept
    BY <1>2, <1>3, <1>4, RowInserted DEF Insert
  <1> QED BY <1>2, <1>5, WriteAside

LEMMA RememberTurnKeeps ==
    ASSUME MemoryInv, NEW p \in Procs, RememberTurn(p)
    PROVE  MemoryInv'
  <1>1. PICK t \in Chat, l \in Layers, k \in 0 .. MaxFacts :
            /\ Insert(New(t, "turn", None, l))
            /\ Goto(p, IF k = 0 THEN Idle
                       ELSE [Idle EXCEPT !.at = "subject", !.next = "subject", !.src = last',
                                         !.todo = k, !.ccl = l])
    BY DEF RememberTurn
  <1>2. Writable /\ UNCHANGED <<edge, lock>> /\ Rows
    BY DEF RememberTurn, Call, MemoryInv
  <1> DEFINE row == New(t, "turn", None, l)
  <1>3. Good(row) /\ row.text \in Texts \cup {None}
    <2>1. t \in Texts \cup {None} /\ row.text = t
      BY DEF Texts, New
    <2> QED BY <2>1, NewIsGood
  <1> HIDE DEF row
  <1>4. Insert(row)
    BY <1>1 DEF row
  <1>5. Rows' /\ Kept /\ last' \in Nat
    BY <1>2, <1>3, <1>4, RowInserted DEF Insert
  <1>6. CASE k = 0
    BY <1>1, <1>2, <1>5, <1>6, IdleSound, WriteStep
  <1>7. CASE k # 0
    <2>0. PICK n \in Nat : n = last'
      BY <1>5
    <2> DEFINE new == [Idle EXCEPT !.at = "subject", !.next = "subject", !.src = n,
                                   !.todo = k, !.ccl = l]
    <2>1. new \in [at : {"subject"}, ids : {{}}, todo : {k}, src : {n}, hit : {0},
                   text : {None}, ccl : {l}, next : {"subject"}, archived : BOOLEAN]
      BY IdleFields
    <2>2. Goto(p, new)
      BY <1>1, <1>7, <2>0
    <2> HIDE DEF new
    <2>3. k \in Int
      BY MemoryConstants
    <2>4. new \in Shape(new) /\ new.at = "subject" /\ new.next = "subject" /\ new.ccl = l
      BY <2>1, <2>3 DEF Shape, Stations
    <2>5. Sound(p, new)'
      BY <2>4 DEF Sound, Shape, Learning, Naming
    <2> QED BY <1>2, <1>5, <2>2, <2>4, <2>5, WriteStep
  <1> QED BY <1>6, <1>7

LEMMA FindSubjectKeeps ==
    ASSUME MemoryInv, NEW p \in Procs, FindSubject(p)
    PROVE  MemoryInv'
  <1>0. PICK t : t = task[p]
    OBVIOUS
  <1> DEFINE rest == [t EXCEPT !.todo = @ - 1]
  <1>1. PICK d \in Data :
            Goto(p, IF Subjects(d) = {} THEN [rest EXCEPT !.at = "anchor", !.text = d]
                    ELSE [rest EXCEPT !.at = "refresh", !.hit = Max(Subjects(d))])
    BY <1>0 DEF FindSubject
  <1>2. UNCHANGED <<store, lock>> /\ ~At(p, "sweep")
    BY DEF FindSubject, At
  <1>3. t \in Shape(t) /\ t.ccl \in Layers /\ t.next = "subject"
    BY <1>0 DEF MemoryInv, Tasks, Sound, FindSubject, At, Naming
  <1>4. rest \in [at : Stations, ids : {t.ids}, todo : Int, src : Nat, hit : {t.hit},
                  text : Texts \cup Data \cup {None}, ccl : Layers, next : {"subject"},
                  archived : BOOLEAN]
    <2>1. t \in [at : Stations, ids : {t.ids}, todo : Int, src : Nat, hit : {t.hit},
                 text : Texts \cup Data \cup {None}, ccl : Layers, next : {"subject"},
                 archived : BOOLEAN]
      BY <1>3 DEF Shape
    <2>2. t.todo - 1 \in Int
      BY <2>1
    <2> QED BY <2>1, <2>2
  <1> HIDE DEF rest
  <1>5. ASSUME NEW new, NEW at \in {"anchor", "refresh"}, NEW hit,
               new \in [at : {at}, ids : {t.ids}, todo : Int, src : Nat, hit : {hit},
                        text : Texts \cup Data \cup {None}, ccl : Layers,
                        next : {"subject"}, archived : BOOLEAN],
               at = "anchor" => new.text \in Data,
               Goto(p, new)
        PROVE  MemoryInv'
    <2>1. new \in Shape(new) /\ new.at = at /\ new.next = "subject" /\ new.ccl \in Layers
      BY <1>5 DEF Shape, Stations
    <2>2. Sound(p, new)' /\ new.at # "sweep"
      BY <1>5, <2>1 DEF Sound, Shape, Learning, Naming
    <2> QED BY <1>2, <1>5, <2>2, QuietStep
  <1>6. CASE Subjects(d) = {}
    <2> DEFINE new == [rest EXCEPT !.at = "anchor", !.text = d]
    <2>1. new \in [at : {"anchor"}, ids : {t.ids}, todo : Int, src : Nat, hit : {t.hit},
                   text : {d}, ccl : Layers, next : {"subject"}, archived : BOOLEAN]
      BY <1>4
    <2>2. Goto(p, new)
      BY <1>1, <1>6
    <2> HIDE DEF new
    <2>3. new.text \in Data
      BY <2>1
    <2>4. new \in [at : {"anchor"}, ids : {t.ids}, todo : Int, src : Nat, hit : {t.hit},
                   text : Texts \cup Data \cup {None}, ccl : Layers, next : {"subject"},
                   archived : BOOLEAN]
      BY <2>1
    <2> QED BY <1>5, <2>2, <2>3, <2>4
  <1>7. CASE Subjects(d) # {}
    <2>0. PICK hit : hit = Max(Subjects(d))
      OBVIOUS
    <2> DEFINE new == [rest EXCEPT !.at = "refresh", !.hit = hit]
    <2>1. new \in [at : {"refresh"}, ids : {t.ids}, todo : Int, src : Nat, hit : {hit},
                   text : Texts \cup Data \cup {None}, ccl : Layers, next : {"subject"},
                   archived : BOOLEAN]
      BY <1>4
    <2>2. Goto(p, new)
      BY <1>1, <1>7, <2>0
    <2> HIDE DEF new
    <2> QED BY <1>5, <2>1, <2>2
  <1> QED BY <1>6, <1>7

LEMMA RefreshSubjectKeeps ==
    ASSUME MemoryInv, NEW p \in Procs, RefreshSubject(p)
    PROVE  MemoryInv'
  <1>0. PICK t : t = task[p]
    OBVIOUS
  <1>1. t \in Shape(t) /\ t.ccl \in Layers /\ t.next = "subject"
    BY <1>0 DEF MemoryInv, Tasks, Sound, RefreshSubject, At, Naming
  <1>2. Writable /\ UNCHANGED lock /\ Goto(p, [t EXCEPT !.at = "link"])
    BY <1>0 DEF RefreshSubject
  <1>3. Rows' /\ Kept
    BY BoostedRows DEF RefreshSubject, MemoryInv
  <1> DEFINE new == [t EXCEPT !.at = "link"]
  <1>4. new \in Shape(new) /\ new.at = "link" /\ new.next = "subject" /\ new.ccl \in Layers
    BY <1>1 DEF Shape, Stations
  <1> HIDE DEF new
  <1>5. Sound(p, new)'
    BY <1>4 DEF Sound, Shape, Learning, Naming
  <1>6. Goto(p, new)
    BY <1>2 DEF new
  <1> QED BY <1>2, <1>3, <1>4, <1>5, <1>6, WriteStep

LEMMA AnchorSubjectKeeps ==
    ASSUME MemoryInv, NEW p \in Procs, AnchorSubject(p)
    PROVE  MemoryInv'
  <1>0. PICK t : t = task[p]
    OBVIOUS
  <1>1. /\ t \in Shape(t) /\ t.ccl \in Layers /\ t.next = "subject" /\ t.text \in Data
        /\ Rows
    BY <1>0 DEF MemoryInv, Tasks, Sound, AnchorSubject, At, Naming
  <1> DEFINE row == New(None, "subject", t.text, t.ccl)
  <1>2. Writable /\ UNCHANGED <<edge, lock>> /\ Insert(row)
    BY <1>0 DEF AnchorSubject
  <1>3. Good(row) /\ row.text \in Texts \cup {None}
    <2>1. row.text = None
      BY DEF New
    <2> QED BY <2>1, <1>1, NewIsGood
  <1> HIDE DEF row
  <1>4. Rows' /\ Kept /\ last' \in Nat
    BY <1>1, <1>2, <1>3, RowInserted DEF Insert
  <1>5. PICK n \in Nat : n = last'
    BY <1>4
  <1> DEFINE new == [t EXCEPT !.at = "link", !.hit = n, !.text = None]
  <1>6. new \in Shape(new) /\ new.at = "link" /\ new.next = "subject" /\ new.ccl \in Layers
    <2>1. t \in [at : {t.at}, ids : {t.ids}, todo : Int, src : Nat, hit : {t.hit},
                 text : {t.text}, ccl : Layers, next : {"subject"}, archived : BOOLEAN]
      BY <1>1 DEF Shape
    <2>2. new \in [at : {"link"}, ids : {t.ids}, todo : Int, src : Nat, hit : {n},
                   text : {None}, ccl : Layers, next : {"subject"}, archived : BOOLEAN]
      BY <2>1
    <2> HIDE DEF new
    <2> QED BY <2>2 DEF Shape, Stations
  <1>7. Goto(p, new)
    BY <1>0, <1>5 DEF AnchorSubject
  <1> HIDE DEF new
  <1>8. Sound(p, new)'
    BY <1>6 DEF Sound, Shape, Learning, Naming
  <1> QED BY <1>2, <1>4, <1>6, <1>7, <1>8, WriteStep

LEMMA ReplacedRows ==
    ASSUME Rows, NEW d \in Data, NEW t \in Versions, last < MaxNodes, last' = last + 1,
           node' = Put(Drop(node, DocumentFacts(d)), last', New(t, "fact", d, "reality")),
           vec' = Index(Drop(vec, DocumentFacts(d)), last', t, TRUE),
           edge' = {e \in edge : {e[1], e[2]} \cap DocumentFacts(d) = {}}
    PROVE  /\ Rows' /\ Kept /\ last' \notin Stored
           /\ DOMAIN node' = (Stored \ DocumentFacts(d)) \cup {last'}
           /\ node'[last'] = New(t, "fact", d, "reality")
           /\ \A m \in Stored \ DocumentFacts(d) : node'[m] = node[m]
           /\ DOMAIN vec' = (DOMAIN vec \ DocumentFacts(d)) \cup {last'}
           /\ vec'[last'] = t
           /\ \A m \in DOMAIN vec \ DocumentFacts(d) : vec'[m] = vec[m]
  <1> DEFINE S == DocumentFacts(d)
             row == New(t, "fact", d, "reality")
  <1>1. Good(row) /\ t \in Texts /\ t # None
    <2>1. t \in Texts \cup {None} /\ t # None
      BY MemoryConstants DEF Texts
    <2> QED BY <2>1, NewIsGood
  <1> HIDE DEF row, S
  <1>2. last \in 0 .. MaxNodes /\ MaxNodes \in Nat
    BY MemoryConstants DEF Rows
  <1>3. last' \in 0 .. MaxNodes /\ last <= last' /\ last' \notin DOMAIN node
    BY <1>2 DEF Rows, Stored
  <1>4. /\ DOMAIN node' = (DOMAIN node \ S) \cup {last'} /\ node'[last'] = row
        /\ \A m \in DOMAIN node \ S : node'[m] = node[m]
    BY <1>3 DEF Put, Drop, S, row
  <1>5. vec' = Put(Drop(vec, S), last', t)
    BY <1>1 DEF Index, S
  <1>6. /\ DOMAIN vec' = (DOMAIN vec \ S) \cup {last'} /\ vec'[last'] = t
        /\ \A m \in DOMAIN vec \ S : vec'[m] = vec[m]
    BY <1>3, <1>5 DEF Put, Drop, Rows, Stored
  <1>7. edge' \subseteq (DOMAIN node') \X (DOMAIN node')
    <2>1. edge \subseteq (DOMAIN node) \X (DOMAIN node)
      BY DEF Rows, Stored
    <2>2. edge' \subseteq edge /\ \A e \in edge' : e[1] \notin S /\ e[2] \notin S
      BY DEF S
    <2> QED BY <2>1, <2>2, <1>4, EdgesLeft
  <1>8. \A n \in DOMAIN node' : Good(node[n])'
    <2>1. \A n \in DOMAIN node' : Good(node'[n])
      BY <1>1, <1>4 DEF Rows, Stored
    <2> QED BY <2>1 DEF Good, Row, Clock, Speaks
  <1>9. Kept
    BY <1>2, <1>3, <1>4 DEF Kept, OwnFact, Stored
  <1>10. DOMAIN node' \subseteq 1 .. last'
    BY <1>2, <1>4 DEF Rows, Stored
  <1>11. DOMAIN vec' \subseteq DOMAIN node' /\ \A n \in DOMAIN vec' : vec'[n] \in Texts
    BY <1>1, <1>4, <1>6 DEF Rows, Stored
  <1> QED BY <1>3, <1>4, <1>6, <1>7, <1>8, <1>9, <1>10, <1>11 DEF Rows, Stored, S, row

LEMMA ReplaceDocumentKeeps ==
    ASSUME MemoryInv, NEW p \in Procs, ReplaceDocument(p)
    PROVE  MemoryInv'
  <1>1. Writable /\ UNCHANGED <<task, lock>> /\ Rows
    BY DEF ReplaceDocument, Call, MemoryInv
  <1>2. PICK d \in Data, t \in Versions :
          /\ last' = last + 1
          /\ node' = Put(Drop(node, DocumentFacts(d)), last', New(t, "fact", d, "reality"))
          /\ vec' = Index(Drop(vec, DocumentFacts(d)), last', t, TRUE)
          /\ edge' = {e \in edge : {e[1], e[2]} \cap DocumentFacts(d) = {}}
    BY DEF ReplaceDocument
  <1>3. last < MaxNodes
    BY DEF ReplaceDocument
  <1>4. Rows' /\ Kept
    BY <1>1, <1>2, <1>3, ReplacedRows
  <1> QED BY <1>1, <1>4, WriteAside

LEMMA ForgetKeeps ==
    ASSUME MemoryInv, NEW p \in Procs, Forget(p)
    PROVE  MemoryInv'
  <1>1. Writable /\ UNCHANGED <<last, task, lock>> /\ Rows
    BY DEF Forget, Call, MemoryInv
  <1>2. PICK d \in Data : Delete({n \in Stored : node[n].data = d})
    BY DEF Forget
  <1>3. Rows' /\ Kept
    BY <1>1, <1>2, RowsDeleted
  <1> QED BY <1>1, <1>3, WriteAside

\* A reset takes the episodes too: what a task then creates has none to name.
LEMMA ResetKeeps ==
    ASSUME MemoryInv, NEW p \in Procs, Reset(p)
    PROVE  MemoryInv'
  <1>1. Writable /\ UNCHANGED <<last, lock>> /\ Rows /\ Delete(Stored) /\ Locked
    BY DEF Reset, Call, MemoryInv
  <1>2. Rows' /\ Kept
    BY <1>1, RowsDeleted
  <1>3. task' = [q \in Procs |-> IF task[q].at = "idle" THEN task[q]
                                 ELSE [task[q] EXCEPT !.archived = FALSE]]
    BY DEF Reset
  <1>4. last \in Nat /\ last' \in Nat
    BY <1>1, <1>2, MemoryConstants DEF Rows
  <1>5. ASSUME NEW q \in Procs
        PROVE  Sound(q, task[q])' /\ task'[q].at = task[q].at
    <2>1. PICK t, new : t = task[q] /\ new = task'[q]
      OBVIOUS
    <2>2. Sound(q, t)
      BY <2>1 DEF MemoryInv, Tasks
    <2>3. Sound(q, t)'
      BY <1>2, <1>4, <2>2, SoundKept
    <2>4. CASE t.at = "idle"
      BY <1>3, <2>1, <2>3, <2>4
    <2>5. CASE t.at # "idle"
      <3>1. new = [t EXCEPT !.archived = FALSE]
        BY <1>3, <2>1, <2>5
      <3>2. t \in Shape(t)
        BY <2>2 DEF Sound
      <3>3. /\ new \in Shape(new) /\ new.at = t.at /\ new.next = t.next /\ new.ccl = t.ccl
            /\ new.hit = t.hit /\ new.text = t.text
        BY <3>1, <3>2 DEF Shape
      <3>4. Sound(q, new)'
        BY <2>3, <3>3 DEF Sound, Shape
      <3> QED BY <2>1, <3>3, <3>4
    <2> QED BY <2>4, <2>5
  <1>6. Tasks'
    <2>1. task' = [q \in Procs |-> task'[q]]
      BY <1>3
    <2> QED BY <2>1, <1>5 DEF Tasks
  <1>7. \A q \in Procs : task'[q].at # "sweep"
    BY <1>1, <1>5, MemoryConstants DEF Locked, Writable, At
  <1>8. Locked'
    BY <1>1, <1>7, LockedFree
  <1> QED BY <1>2, <1>6, <1>8 DEF MemoryInv

-----------------------------------------------------------------------------
(***************************************************************************)
(* Decay.                                                                  *)
(***************************************************************************)
LEMMA TickedRows ==
    ASSUME Rows, Tick
    PROVE  /\ Rows' /\ Kept /\ DOMAIN node' = Stored
           /\ \A n \in Stored : /\ node'[n].text = node[n].text
                               /\ node'[n].active = node[n].active
  <1>1. node' = [n \in Stored |-> IF node[n].active THEN Aged(node[n]) ELSE node[n]]
    BY DEF Tick, Aged
  <1>2. UNCHANGED <<vec, edge, last>> /\ DOMAIN node' = DOMAIN node
    BY <1>1 DEF Tick, Stored
  <1>3. ASSUME NEW n \in Stored
        PROVE  /\ Good(node'[n]) /\ node'[n].kind = node[n].kind
               /\ node'[n].data = node[n].data /\ node'[n].text = node[n].text
               /\ node'[n].active = node[n].active
    <2>1. Good(node[n])
      BY DEF Rows
    <2>2. CASE node[n].active
      <3>1. node'[n] = Aged(node[n])
        BY <1>1, <2>2
      <3> QED BY <2>1, <3>1, AgedIsGood
    <2>3. CASE ~node[n].active
      BY <1>1, <2>1, <2>3
    <2> QED BY <2>2, <2>3
  <1>4. DOMAIN vec' \subseteq Stored /\ \A n \in DOMAIN vec' : vec'[n] \in Texts
    BY <1>2 DEF Rows
  <1>5. Rows' /\ Kept
    BY <1>2, <1>3, <1>4, RowsRewritten
  <1> QED BY <1>2, <1>3, <1>5 DEF Stored

LEMMA TickKeeps ==
    ASSUME MemoryInv, Tick
    PROVE  MemoryInv'
  <1>1. Rows' /\ Kept /\ Writable /\ UNCHANGED <<task, lock>>
    BY TickedRows DEF Tick, MemoryInv
  <1> QED BY <1>1, WriteAside

\* The batch is read under the lock.
LEMMA BeginBatchKeeps ==
    ASSUME MemoryInv, NEW p \in Procs, NEW after, BeginBatch(p, after)
    PROVE  MemoryInv'
  <1> DEFINE ids == {<<n, Decayed(node[n])>> : n \in NextBatch(after)}
  <1>0. PICK t : t = [Idle EXCEPT !.at = "sweep", !.ids = ids]
    OBVIOUS
  <1>1. Writable /\ lock' = p /\ UNCHANGED store /\ Goto(p, t) /\ Rows /\ Tasks /\ Locked
    BY <1>0 DEF BeginBatch, TakeLock, MemoryInv
  <1>2. Rows' /\ Kept
    BY <1>1, StoreStays
  <1>3. task' = [task EXCEPT ![p] = task'[p]] /\ task'[p] = t
    BY <1>1, Moved
  <1>4. t.at = "sweep" /\ t.ids = ids /\ t \in Shape(t)
    <2> HIDE DEF ids
    <2>1. t \in [at : {"sweep"}, ids : {ids}, todo : {0}, src : {0}, hit : {0}, text : {None},
                 ccl : {None}, next : {"idle"}, archived : BOOLEAN]
      BY <1>0, IdleFields
    <2> QED BY <2>1 DEF Shape, Stations
  <1>5. Sound(p, task[p])'
    <2>1. Sound(p, t)'
      BY <1>4 DEF Sound, Shape, Learning, Naming
    <2> QED BY <2>1, <1>3
  <1>6. Tasks'
    BY <1>1, <1>2, <1>3, <1>5, TaskMoves
  <1>7. Locked'
    <2>1. \A q \in Procs : q # p => task'[q] = task[q]
      BY <1>1, <1>3 DEF Tasks
    <2>2. \A q \in Procs : task[q].at # "sweep"
      BY <1>1, MemoryConstants DEF Locked, Writable, At
    <2>3. \A s \in ids : \E n \in Active : s = <<n, Decayed(node[n])>>
      BY DEF NextBatch
    <2>4. Active' = Active /\ node' = node
      BY <1>1 DEF store, Active, Stored
    <2>5. ASSUME NEW s \in task'[p].ids
          PROVE  \E n \in Active' : s = <<n, Decayed(node'[n])>>
      BY <1>3, <1>4, <2>3, <2>4
    <2>6. (\A q \in Procs : At(q, "sweep") <=> lock = q)'
      BY <1>1, <1>3, <1>4, <2>1, <2>2 DEF At
    <2>7. (\A q \in Procs : lock = q =>
              \A s \in task[q].ids : \E n \in Active : s = <<n, Decayed(node[n])>>)'
      BY <1>1, <2>4, <2>5 DEF Decayed
    <2> QED BY <1>1, <2>6, <2>7 DEF Locked
  <1> QED BY <1>2, <1>6, <1>7 DEF MemoryInv

Settled(read) ==
    [n \in Stored |-> IF n \in read THEN Shelved(Rescored(node[n], Decayed(node[n])))
                     ELSE node[n]]

\* What is written is what the rows, as they are, call for.
LEMMA BatchWritten ==
    ASSUME MemoryInv, NEW p \in Procs, WriteBatch(p), NEW read,
           read = {s[1] : s \in task[p].ids}
    PROVE  /\ lock = p /\ read \subseteq Active
           /\ node' = Settled(read)
           /\ vec' = Drop(vec, {n \in read : ~node'[n].active})
  <1> DEFINE new == task[p].ids
  <1>1. lock = p
    BY MemoryConstants DEF MemoryInv, Locked, WriteBatch
  <1>2. \A s \in new : \E n \in Active : s = <<n, Decayed(node[n])>>
    BY <1>1 DEF MemoryInv, Locked
  <1>3. read \subseteq Active
    BY <1>2
  <1>4. ASSUME NEW n \in read
        PROVE  (CHOOSE k \in 0 .. Cap : <<n, k>> \in new) = Decayed(node[n])
    <2>1. n \in Stored /\ Good(node[n])
      BY <1>3 DEF Active, MemoryInv, Rows
    <2>2. Decayed(node[n]) \in 0 .. Cap
      <3>1. node[n] \in Row
        BY <2>1 DEF Good
      <3>2. PICK l, r, a : l = node[n].level /\ r = Rate[node[n].ccl] /\ a = node[n].age
        OBVIOUS
      <3>3. l \in Nat /\ a \in Nat /\ r \in Nat \ {0}
        BY <3>1, <3>2, MemoryConstants DEF Row
      <3>4. r * a \in Nat
        BY <3>3
      <3>5. l + r * a \in Nat
        BY <3>3, <3>4
      <3>6. Decayed(node[n]) = Least(l + r * a)
        BY <3>2 DEF Decayed
      <3> QED BY <3>5, <3>6, LeastLevel
    <2>3. PICK s \in new : s[1] = n
      BY <1>4
    <2>4. PICK m \in Active : s = <<m, Decayed(node[m])>>
      BY <1>2
    <2>5. <<n, Decayed(node[n])>> \in new
      BY <2>3, <2>4
    <2>6. \A k : <<n, k>> \in new => k = Decayed(node[n])
      <3> SUFFICES ASSUME NEW k, <<n, k>> \in new
                   PROVE  k = Decayed(node[n])
        OBVIOUS
      <3>1. PICK j \in Active : <<n, k>> = <<j, Decayed(node[j])>>
        BY <1>2
      <3> QED BY <3>1
    <2> HIDE DEF new
    <2> QED BY <2>2, <2>5, <2>6
  <1>5. node' = [n \in Stored |->
                    IF n \in read
                    THEN Shelved(Rescored(node[n], CHOOSE k \in 0 .. Cap : <<n, k>> \in new))
                    ELSE node[n]]
    BY DEF WriteBatch
  <1>6. node' = Settled(read)
    <2> DEFINE Level(n) == CHOOSE k \in 0 .. Cap : <<n, k>> \in new
    <2>1. \A n \in read : Level(n) = Decayed(node[n])
      BY <1>4
    <2>2. node' = [n \in Stored |-> IF n \in read THEN Shelved(Rescored(node[n], Level(n)))
                                   ELSE node[n]]
      BY <1>5
    <2> HIDE DEF Level
    <2> QED BY <2>1, <2>2 DEF Settled
  <1>7. vec' = Drop(vec, {n \in read : ~node'[n].active})
    <2>1. read \cap Stored = read
      BY <1>3 DEF Active
    <2> QED BY <2>1 DEF WriteBatch
  <1> QED BY <1>1, <1>3, <1>6, <1>7

\* A sweep keeps each row good, and what it archives nobody has read for long.
LEMMA SweptRows ==
    ASSUME MemoryInv, NEW p \in Procs, WriteBatch(p)
    PROVE  /\ Rows' /\ Kept /\ lock = p /\ DOMAIN node' = Stored
           /\ \A n \in Stored :
                 /\ node'[n].text = node[n].text
                 /\ node[n].active /\ ~node'[n].active
                       => Rate[node[n].ccl] * node[n].unread > Bound
                 /\ node'[n].active => node[n].active
           /\ vec' = Drop(vec, {n \in Active : ~node'[n].active})
  <1>0. PICK read : read = {s[1] : s \in task[p].ids}
    OBVIOUS
  <1>1. /\ lock = p /\ read \subseteq Active
        /\ node' = Settled(read)
        /\ vec' = Drop(vec, {n \in read : ~node'[n].active})
    BY <1>0, BatchWritten
  <1>2. DOMAIN node' = DOMAIN node /\ Rows /\ UNCHANGED <<edge, last>>
    BY <1>1 DEF Settled, Stored, MemoryInv, WriteBatch
  <1>3. ASSUME NEW n \in Stored
        PROVE  /\ Good(node'[n]) /\ node'[n].kind = node[n].kind
               /\ node'[n].data = node[n].data /\ node'[n].text = node[n].text
               /\ node[n].active /\ ~node'[n].active
                     => Rate[node[n].ccl] * node[n].unread > Bound
               /\ node'[n].active => node[n].active
               /\ n \notin read => node'[n] = node[n]
    <2>1. Good(node[n])
      BY <1>2 DEF Rows
    <2>2. CASE n \in read
      <3>1. node[n].active
        BY <1>1, <2>2 DEF Active
      <3>2. PICK row, new : row = node[n] /\ new = node'[n]
        OBVIOUS
      <3>3. new = Shelved(Rescored(row, Decayed(row)))
        BY <1>1, <2>2, <3>2 DEF Settled
      <3> QED BY <2>1, <2>2, <3>1, <3>2, <3>3, SettledIsGood
    <2>3. CASE n \notin read
      <3>1. node'[n] = node[n]
        BY <1>1, <2>3 DEF Settled
      <3> QED BY <2>1, <3>1
    <2> QED BY <2>2, <2>3
  <1>4. {n \in read : ~node'[n].active} = {n \in Active : ~node'[n].active}
    BY <1>1, <1>3 DEF Active
  <1>5. vec' = Drop(vec, {n \in Active : ~node'[n].active})
    BY <1>1, <1>4
  <1>6. DOMAIN vec' \subseteq Stored /\ \A n \in DOMAIN vec' : vec'[n] \in Texts
    BY <1>2, <1>5 DEF Drop, Rows
  <1>7. Rows' /\ Kept
    BY <1>2, <1>3, <1>6, RowsRewritten
  <1> QED BY <1>1, <1>2, <1>3, <1>5, <1>7 DEF Stored

LEMMA WriteBatchKeeps ==
    ASSUME MemoryInv, NEW p \in Procs, WriteBatch(p)
    PROVE  MemoryInv'
  <1>1. Rows /\ Tasks /\ Locked /\ Rows' /\ Kept /\ lock = p /\ lock' = None
    BY SweptRows DEF MemoryInv, WriteBatch
  <1>2. PICK t : /\ Goto(p, t)
                 /\ \/ t = Idle
                    \/ \E h : t = [Idle EXCEPT !.at = "swept", !.hit = h]
    BY DEF WriteBatch
  <1>3. Sound(p, t)' /\ t.at # "sweep"
    <2>1. CASE t = Idle
      BY <2>1, IdleSound
    <2>2. ASSUME NEW h, t = [Idle EXCEPT !.at = "swept", !.hit = h]
          PROVE  Sound(p, t)' /\ t.at # "sweep"
      <3>1. t \in [at : {"swept"}, ids : {{}}, todo : {0}, src : {0}, hit : {h}, text : {None},
                   ccl : {None}, next : {"idle"}, archived : BOOLEAN]
        BY <2>2, IdleFields
      <3>2. t \in Shape(t) /\ t.at = "swept"
        BY <3>1 DEF Shape, Stations
      <3> QED BY <3>2 DEF Sound, Shape, Learning, Naming
    <2> QED BY <1>2, <2>1, <2>2
  <1>4. task' = [task EXCEPT ![p] = task'[p]] /\ task'[p] = t
    BY <1>1, <1>2, Moved
  <1>5. Tasks'
    <2>1. Sound(p, task[p])'
      BY <1>3, <1>4
    <2> QED BY <1>1, <1>4, <2>1, TaskMoves
  <1>6. \A q \in Procs : task'[q].at # "sweep"
    <2>1. \A q \in Procs : q # p => task'[q] = task[q]
      BY <1>1, <1>4 DEF Tasks
    <2>2. \A q \in Procs : q # p => task[q].at # "sweep"
      BY <1>1 DEF Locked, At
    <2> QED BY <1>3, <1>4, <2>1, <2>2
  <1>7. Locked'
    BY <1>1, <1>6, MemoryConstants DEF Locked, At
  <1> QED BY <1>1, <1>5, <1>7 DEF MemoryInv

-----------------------------------------------------------------------------
(***************************************************************************)
(* The theorems.                                                           *)
(***************************************************************************)
LEMMA MemoryStarts == Init => MemoryInv
  <1> SUFFICES ASSUME Init
               PROVE  MemoryInv
    OBVIOUS
  <1> USE DEF Init
  <1>1. Stored = {} /\ DOMAIN vec = {}
    BY DEF Stored
  <1>2. Rows
    BY <1>1, MemoryConstants DEF Rows
  <1>3. Tasks
    BY IdleSound DEF Tasks
  <1>4. Locked
    BY IdleSound, MemoryConstants DEF Locked, At
  <1> QED BY <1>2, <1>3, <1>4 DEF MemoryInv

LEMMA MemoryStays == MemoryInv /\ [Next]_vars => MemoryInv'
  <1> SUFFICES ASSUME MemoryInv, [Next]_vars
               PROVE  MemoryInv'
    OBVIOUS
  <1>1. CASE UNCHANGED vars
    <2>1. UNCHANGED store /\ UNCHANGED <<task, lock>> /\ UNCHANGED <<node, vec, edge, last>>
      BY <1>1 DEF vars, store
    <2>2. Rows' /\ Kept
      BY <2>1, StoreStays DEF MemoryInv
    <2>3. Tasks'
      BY <2>1, <2>2, TasksStay DEF MemoryInv
    <2>4. Locked'
      BY <2>1 DEF MemoryInv, Locked, At, Active, Stored, Decayed
    <2> QED BY <2>2, <2>3, <2>4 DEF MemoryInv
  <1>2. CASE Tick
    BY <1>2, TickKeeps
  <1>3. ASSUME NEW p \in Procs, Step(p)
        PROVE  MemoryInv'
    <2>1. CASE Recall(p) \/ Boost(p) \/ Extract(p) \/ Resolve(p)
      BY <2>1, RecallKeeps, BoostKeeps, ExtractKeeps, ResolveKeeps
    <2>2. CASE Support(p) \/ Content(p) \/ Create(p) \/ Link(p)
      BY <2>2, SupportKeeps, ContentKeeps, CreateKeeps, LinkKeeps
    <2>3. CASE StoreFact(p) \/ RememberTurn(p) \/ FindSubject(p)
      BY <2>3, StoreFactKeeps, RememberTurnKeeps, FindSubjectKeeps
    <2>4. CASE RefreshSubject(p) \/ AnchorSubject(p) \/ ReplaceDocument(p)
      BY <2>4, RefreshSubjectKeeps, AnchorSubjectKeeps, ReplaceDocumentKeeps
    <2>5. CASE Forget(p) \/ Reset(p) \/ WriteBatch(p)
      BY <2>5, ForgetKeeps, ResetKeeps, WriteBatchKeeps
    <2>6. CASE Sweep(p)
      BY <2>6, BeginBatchKeeps DEF Sweep
    <2>7. CASE SweepOn(p)
      BY <2>7, BeginBatchKeeps DEF SweepOn
    <2> QED BY <1>3, <2>1, <2>2, <2>3, <2>4, <2>5, <2>6, <2>7 DEF Step
  <1> QED BY <1>1, <1>2, <1>3 DEF Next

\* Whatever the processes that share a workspace do between each other's
\* statements, every edge keeps its two ends and every vector its node, and a
\* document's fact says what an event of that document said.
THEOREM RowsSound == Spec => []RowsAreSound
  <1>1. MemoryInv => RowsAreSound
    <2> SUFFICES ASSUME MemoryInv
                 PROVE  RowsAreSound
      OBVIOUS
    <2>1. 1 .. last \subseteq Ids
      BY MemoryConstants DEF MemoryInv, Rows, Ids
    <2> QED BY <2>1 DEF MemoryInv, Rows, Locked, Good, Speaks, RowsAreSound, TypeOK,
                        DocumentsSpeakForThemselves
  <1> QED BY <1>1, MemoryStarts, MemoryStays, PTL DEF Spec

-----------------------------------------------------------------------------
(***************************************************************************)
(* What each step does to what is active, and to the vectors.              *)
(***************************************************************************)
\* No node's status changes.
Calm == \A n \in Stored \cap DOMAIN node' : node'[n].active = node[n].active
\* Nor its text; and an id in somebody's hand is not given again.
TextsKept ==
    /\ \A n \in Stored \cap DOMAIN node' : node'[n].text = node[n].text
    /\ \A n \in DOMAIN node' \ Stored : n \notin 1 .. last

LEMMA UntouchedFollows ==
    ASSUME VectorFollowsText, DOMAIN node' = Stored, vec' = vec,
           \A n \in Stored : /\ node'[n].text = node[n].text
                             /\ node'[n].active = node[n].active
    PROVE  VectorFollowsText' /\ Calm /\ TextsKept
  BY DEF VectorFollowsText, Calm, TextsKept, Active, Stored

LEMMA InsertFollows ==
    ASSUME Rows, NEW row, Insert(row), Good(row), UNCHANGED edge,
           row.text \in Texts \cup {None}, row.active
    PROVE  (VectorFollowsText => VectorFollowsText') /\ Calm /\ TextsKept
  <1>1. /\ last' \notin Stored /\ DOMAIN node' = Stored \cup {last'} /\ node'[last'] = row
        /\ \A m \in Stored : node'[m] = node[m]
    BY RowInserted DEF Insert
  <1>2. last' = last + 1 /\ last \in Nat /\ vec' = Index(vec, last', row.text, TRUE)
    BY MemoryConstants DEF Insert, Rows
  <1>3. Calm /\ TextsKept
    BY <1>1, <1>2 DEF Calm, TextsKept
  <1>4. ASSUME VectorFollowsText
        PROVE  VectorFollowsText'
    <2>1. CASE row.text = None
      <3>1. vec' = vec
        BY <1>2, <2>1 DEF Index
      <3> QED BY <3>1, <2>1, <1>1, <1>4 DEF VectorFollowsText, Active, Stored
    <2>2. CASE row.text # None
      <3>1. vec' = Put(vec, last', row.text)
        BY <1>2, <2>2 DEF Index
      <3>2. /\ DOMAIN vec' = DOMAIN vec \cup {last'} /\ vec'[last'] = row.text
            /\ \A m \in DOMAIN vec : m # last' => vec'[m] = vec[m]
        BY <3>1 DEF Put
      <3> QED BY <3>2, <2>2, <1>1, <1>4 DEF VectorFollowsText, Active, Stored
    <2> QED BY <2>1, <2>2
  <1> QED BY <1>3, <1>4

LEMMA DeleteFollows ==
    ASSUME NEW S, Delete(S)
    PROVE  (VectorFollowsText => VectorFollowsText') /\ Calm /\ TextsKept
  <1>1. /\ DOMAIN node' = DOMAIN node \ S
        /\ \A m \in DOMAIN node' : node'[m] = node[m]
        /\ DOMAIN vec' = DOMAIN vec \ S
        /\ \A m \in DOMAIN vec' : vec'[m] = vec[m]
    BY DEF Delete, Drop
  <1> QED BY <1>1 DEF VectorFollowsText, Calm, TextsKept, Active, Stored

LEMMA ReplaceFollows ==
    ASSUME MemoryInv, NEW p \in Procs, ReplaceDocument(p)
    PROVE  (VectorFollowsText => VectorFollowsText') /\ Calm /\ TextsKept
  <1>1. PICK d \in Data, t \in Versions :
          /\ last' = last + 1
          /\ node' = Put(Drop(node, DocumentFacts(d)), last', New(t, "fact", d, "reality"))
          /\ vec' = Index(Drop(vec, DocumentFacts(d)), last', t, TRUE)
          /\ edge' = {e \in edge : {e[1], e[2]} \cap DocumentFacts(d) = {}}
    BY DEF ReplaceDocument
  <1>2. last < MaxNodes /\ Rows
    BY DEF ReplaceDocument, MemoryInv
  <1> DEFINE S == DocumentFacts(d)
             row == New(t, "fact", d, "reality")
  <1>3. /\ last' \notin Stored /\ DOMAIN node' = (Stored \ S) \cup {last'} /\ node'[last'] = row
        /\ \A m \in Stored \ S : node'[m] = node[m]
        /\ DOMAIN vec' = (DOMAIN vec \ S) \cup {last'} /\ vec'[last'] = t
        /\ \A m \in DOMAIN vec \ S : vec'[m] = vec[m]
    BY <1>1, <1>2, ReplacedRows
  <1>4. row.active = TRUE /\ row.text = t /\ t # None
    BY MemoryConstants DEF New, Texts
  <1>5. S \subseteq Stored
    BY DEF DocumentFacts
  <1> HIDE DEF row, S
  <1>6. Calm /\ TextsKept
    <2>1. last \in Nat
      BY <1>2, MemoryConstants DEF Rows
    <2> QED BY <2>1, <1>1, <1>3 DEF Calm, TextsKept
  <1>7. ASSUME VectorFollowsText
        PROVE  VectorFollowsText'
    BY <1>3, <1>4, <1>5, <1>7 DEF VectorFollowsText, Active, Stored
  <1> QED BY <1>6, <1>7

LEMMA ContentFollows ==
    ASSUME MemoryInv, NEW p \in Procs, Content(p)
    PROVE  (VectorFollowsText => VectorFollowsText') /\ Calm /\ DOMAIN node' = Stored
  <1>0. PICK n, t : n = task[p].hit /\ t = task[p].text
    OBVIOUS
  <1>1. task[p].at = "content" /\ t \in Chat /\ Rows /\ UNCHANGED <<edge, last>>
    BY <1>0 DEF Content, At, MemoryInv, Tasks, Sound
  <1>2. CASE n \notin Stored
    <2>1. UNCHANGED <<node, vec>>
      BY <1>0, <1>2 DEF Content
    <2> QED BY <2>1, UntouchedFollows DEF Stored, Calm
  <1>3. CASE n \in Stored
    <2>1. /\ node' = [node EXCEPT ![n].text = t, ![n].level = 0] /\ vec' = Reindexed(n, t)
      BY <1>0, <1>3 DEF Content
    <2>2. Good(node[n]) /\ node[n].kind = "fact" /\ node[n].data = None
      BY <1>0, <1>1, <1>3, HeldRow
    <2>3. node' = [node EXCEPT ![n].level = 0, ![n].text = t]
      BY <2>1
    <2>4. t \in Texts /\ t # None
      BY <1>1, MemoryConstants DEF Texts
    <2>5. /\ node[n].active => DOMAIN vec' = DOMAIN vec \cup {n}
          /\ ~node[n].active => DOMAIN vec' = DOMAIN vec \ {n}
          /\ \A m \in DOMAIN vec' : m = n => vec'[m] = t
          /\ \A m \in DOMAIN vec' : m # n => vec'[m] = vec[m]
          /\ DOMAIN vec' \subseteq Stored /\ \A m \in DOMAIN vec' : vec'[m] \in Texts
      <3>1. VectorOf(vec', n, t)
        BY <1>1, <1>3, <2>1, <2>4, ReindexedRows
      <3> QED BY <2>4, <3>1 DEF VectorOf
    <2>6. /\ DOMAIN node' = Stored
          /\ node'[n].text = t /\ node'[n].active = node[n].active
          /\ \A m \in Stored : m # n => node'[m] = node[m]
      BY <1>1, <1>3, <2>2, <2>3, <2>4, <2>5, RowRewritten
    <2>7. Calm
      BY <2>6 DEF Calm
    <2>8. ASSUME VectorFollowsText
          PROVE  VectorFollowsText'
      BY <1>3, <2>4, <2>5, <2>6, <2>8 DEF VectorFollowsText, Active, Stored
    <2> QED BY <2>6, <2>7, <2>8
  <1> QED BY <1>2, <1>3

LEMMA SupportFollows ==
    ASSUME MemoryInv, NEW p \in Procs, Support(p)
    PROVE  /\ Calm /\ DOMAIN node' = Stored
           /\ ReadIsThere => TextsKept
           /\ ReadIsThere /\ VectorFollowsText => VectorFollowsText'
  <1>0. PICK n, t : n = task[p].hit /\ t = task[p].text
    OBVIOUS
  <1>1. /\ task[p].at = "support" /\ t \in Texts \cup {None} /\ Rows
        /\ UNCHANGED <<vec, edge, last>>
        /\ \/ node' = Supported(n, t)
           \/ n \in Stored /\ node' = Supported(n, node[n].text)
    BY <1>0 DEF Support, At, MemoryInv, Tasks, Sound
  <1>2. CASE n \notin Stored
    <2>1. UNCHANGED <<node, vec>>
      BY <1>1, <1>2 DEF Supported
    <2> QED BY <2>1, UntouchedFollows DEF Stored, Calm, TextsKept
  <1>3. CASE n \in Stored
    <2>1. Good(node[n]) /\ node[n].kind = "fact" /\ node[n].data = None
      BY <1>0, <1>1, <1>3, HeldRow
    <2>2. PICK text \in Texts \cup {None} :
              /\ node' = [node EXCEPT ![n].level = 0, ![n].text = text]
              /\ text = t \/ text = node[n].text
      <3>1. node[n].text \in Texts \cup {None}
        BY <2>1 DEF Good, Row
      <3> QED BY <3>1, <1>1, <1>3 DEF Supported
    <2>3. DOMAIN vec' \subseteq Stored /\ \A m \in DOMAIN vec' : vec'[m] \in Texts
      BY <1>1 DEF Rows
    <2>4. /\ DOMAIN node' = Stored
          /\ node'[n].text = text /\ node'[n].active = node[n].active
          /\ \A m \in Stored : m # n => node'[m] = node[m]
      BY <1>1, <1>3, <2>1, <2>2, <2>3, RowRewritten
    <2>5. Calm
      BY <2>4 DEF Calm
    <2>6. ASSUME ReadIsThere
          PROVE  \A m \in Stored : /\ node'[m].text = node[m].text
                                   /\ node'[m].active = node[m].active
      <3>1. t = node[n].text
        BY <1>0, <1>1, <1>3, <2>6 DEF ReadIsThere, At
      <3> QED BY <3>1, <2>2, <2>4
    <2>7. ReadIsThere => TextsKept
      BY <2>4, <2>6 DEF TextsKept
    <2>8. ReadIsThere /\ VectorFollowsText => VectorFollowsText'
      BY <1>1, <2>4, <2>6, UntouchedFollows
    <2> QED BY <2>4, <2>5, <2>7, <2>8
  <1> QED BY <1>2, <1>3

LEMMA SweepFollows ==
    ASSUME MemoryInv, NEW p \in Procs, WriteBatch(p)
    PROVE  (VectorFollowsText => VectorFollowsText') /\ TextsKept
  <1>1. /\ DOMAIN node' = Stored
        /\ \A n \in Stored : node'[n].text = node[n].text
        /\ vec' = Drop(vec, {n \in Active : ~node'[n].active})
    BY SweptRows
  <1>2. TextsKept
    BY <1>1 DEF TextsKept
  <1>3. /\ DOMAIN vec' = DOMAIN vec \ {n \in Active : ~node'[n].active}
        /\ \A n \in DOMAIN vec' : vec'[n] = vec[n]
    BY <1>1 DEF Drop
  <1>5. Active' = {n \in Active : node'[n].active}
    <2>1. \A n \in Stored : node'[n].active => node[n].active
      BY SweptRows
    <2> QED BY <1>1, <2>1 DEF Active, Stored
  <1>4. ASSUME VectorFollowsText
        PROVE  VectorFollowsText'
    <2>1. DOMAIN vec = {n \in Active : node[n].text # None}
      BY <1>4 DEF VectorFollowsText
    <2>2. DOMAIN vec' = {n \in Active' : node'[n].text # None}
      BY <1>1, <1>3, <1>5, <2>1 DEF Active
    <2>3. \A n \in DOMAIN vec' : vec'[n] = node'[n].text
      BY <1>1, <1>3, <1>4, <2>1 DEF VectorFollowsText, Active
    <2> QED BY <2>2, <2>3 DEF VectorFollowsText
  <1> QED BY <1>2, <1>4

\* Every other step of a process.
LEMMA RestFollows ==
    ASSUME MemoryInv, NEW p \in Procs, Step(p), ~Content(p), ~Support(p), ~WriteBatch(p)
    PROVE  (VectorFollowsText => VectorFollowsText') /\ Calm /\ TextsKept
  <1>0. Rows /\ Sound(p, task[p])
    BY DEF MemoryInv, Tasks
  <1>1. CASE UNCHANGED <<node, vec>>
    BY <1>1, UntouchedFollows DEF Stored, Calm, TextsKept
  <1>2. CASE Boost(p) \/ RefreshSubject(p)
    <2>1. PICK S : node' = Boosted(S) /\ UNCHANGED <<vec, edge, last>>
      BY <1>2 DEF Boost, RefreshSubject
    <2>2. DOMAIN node' = Stored /\ \A n \in Stored : /\ node'[n].text = node[n].text
                                                   /\ node'[n].active = node[n].active
      BY <1>0, <2>1, BoostedRows
    <2>3. Calm /\ TextsKept
      BY <2>2 DEF Calm, TextsKept
    <2> QED BY <2>1, <2>2, <2>3, UntouchedFollows
  <1>3. ASSUME NEW text \in Texts \cup {None}, NEW kind \in {"fact", "turn", "subject"},
               NEW data \in Data \cup {None}, NEW ccl \in Layers \cup {"reality"},
               kind = "fact" => data = None, UNCHANGED edge, Insert(New(text, kind, data, ccl))
        PROVE  (VectorFollowsText => VectorFollowsText') /\ Calm /\ TextsKept
    <2> DEFINE row == New(text, kind, data, ccl)
    <2>1. Good(row)
      BY <1>3, NewIsGood
    <2>2. row.text = text /\ row.active
      BY DEF New
    <2> HIDE DEF row
    <2>3. Insert(row)
      BY <1>3 DEF row
    <2> QED BY <1>0, <1>3, <2>1, <2>2, <2>3, InsertFollows
  <1>4. CASE Create(p) /\ ~UNCHANGED <<node, vec>>
    <2>1. /\ Insert(New(task[p].text, "fact", None, task[p].ccl)) /\ UNCHANGED edge
          /\ task[p].at = "create"
      BY <1>4 DEF Create, At
    <2>2. task[p].text \in Texts \cup {None} /\ task[p].ccl \in Layers \cup {"reality"}
      BY <1>0, <2>1 DEF Sound, Learning, Texts
    <2> QED BY <1>3, <2>1, <2>2
  <1>5. CASE StoreFact(p)
    <2>1. PICK t \in Chat, l \in Layers : Insert(New(t, "fact", None, l)) /\ UNCHANGED edge
      BY <1>5 DEF StoreFact
    <2>2. t \in Texts \cup {None} /\ l \in Layers \cup {"reality"}
      BY DEF Texts
    <2> QED BY <1>3, <2>1, <2>2
  <1>6. CASE RememberTurn(p)
    <2>1. PICK t \in Chat, l \in Layers : Insert(New(t, "turn", None, l)) /\ UNCHANGED edge
      BY <1>6 DEF RememberTurn
    <2>2. t \in Texts \cup {None} /\ l \in Layers \cup {"reality"}
      BY DEF Texts
    <2> QED BY <1>3, <2>1, <2>2
  <1>7. CASE AnchorSubject(p)
    <2>1. /\ Insert(New(None, "subject", task[p].text, task[p].ccl)) /\ UNCHANGED edge
          /\ task[p].at = "anchor"
      BY <1>7 DEF AnchorSubject, At
    <2>2. task[p].text \in Data \cup {None} /\ task[p].ccl \in Layers \cup {"reality"}
      BY <1>0, <2>1 DEF Sound, Naming
    <2> QED BY <1>3, <2>1, <2>2
  <1>8. CASE ReplaceDocument(p)
    BY <1>8, ReplaceFollows
  <1>9. CASE Forget(p) \/ Reset(p)
    <2>1. PICK S : Delete(S)
      BY <1>9 DEF Forget, Reset
    <2> QED BY <2>1, DeleteFollows
  <1>10. CASE Recall(p) \/ Extract(p) \/ Resolve(p) \/ FindSubject(p) \/ Sweep(p) \/ SweepOn(p)
              \/ Link(p)
    <2>1. UNCHANGED <<node, vec>>
      BY <1>10 DEF Recall, Extract, Resolve, FindSubject, Sweep, SweepOn, BeginBatch, Link, store
    <2> QED BY <1>1, <2>1
  <1> QED BY <1>1, <1>2, <1>4, <1>5, <1>6, <1>7, <1>8, <1>9, <1>10 DEF Step

\* A node is archived only when nobody has read it for the half-lives its layer
\* allows: what a sweep has read is still so when it writes, and a score falls
\* no faster than the time nobody reads.
THEOREM FreshKept == Spec => FreshIsKept
  <1> DEFINE Fair == \A n \in Stored \cap DOMAIN node' :
                        node[n].active /\ ~node'[n].active
                           => Rate[node[n].ccl] * node[n].unread > Bound
  <1>1. MemoryInv /\ [Next]_vars => [Fair]_vars
    <2> SUFFICES ASSUME MemoryInv, Next
                 PROVE  Fair
      OBVIOUS
    <2>1. CASE Tick
      <3>1. \A n \in Stored : node'[n].active = node[n].active
        BY <2>1, TickedRows DEF MemoryInv
      <3> QED BY <3>1
    <2>2. ASSUME NEW p \in Procs, WriteBatch(p)
          PROVE  Fair
      BY <2>2, SweptRows
    <2>3. ASSUME NEW p \in Procs, Step(p), ~WriteBatch(p)
          PROVE  Fair
      <3>1. Calm
        BY <2>3, RestFollows, ContentFollows, SupportFollows
      <3> QED BY <3>1 DEF Calm
    <2> QED BY <2>1, <2>2, <2>3 DEF Next
  <1> QED BY <1>1, MemoryStarts, MemoryStays, PTL DEF Spec, FreshIsKept

-----------------------------------------------------------------------------
(***************************************************************************)
(* One process that talks.                                                 *)
(***************************************************************************)
OneTalks == \A p, q \in Talkers : p = q

\* Only a resolution begins a merge.
LEMMA SupportComes ==
    ASSUME MemoryInv, NEW p \in Procs, Step(p), ~Resolve(p),
           NEW q \in Procs, task'[q].at = "support"
    PROVE  /\ q # p /\ task[q].at = "support"
           /\ task'[q].hit = task[q].hit /\ task'[q].text = task[q].text
  <1>0. task = [r \in Procs |-> task[r]] /\ \A r \in Procs : Sound(r, task[r])
    BY DEF MemoryInv, Tasks
  <1>1. PICK t : t = task[p]
    OBVIOUS
  <1>2. t \in Shape(t) /\ Sound(p, t)
    BY <1>0, <1>1 DEF Sound
  <1>3. ASSUME NEW new, Goto(p, new), new.at # "support"
        PROVE  /\ q # p /\ task[q].at = "support"
               /\ task'[q].hit = task[q].hit /\ task'[q].text = task[q].text
    BY <1>0, <1>3 DEF Goto
  <1>4. CASE Goto(p, Idle)
    BY <1>3, <1>4, IdleSound
  <1>5. CASE UNCHANGED task
    <2>1. CASE q = p
      <3>1. t.at = "support" /\ Support(p)
        BY <1>1, <1>5, <2>1 DEF Step, At, Recall, Boost, Extract, Resolve, Content, Create, Link,
              StoreFact, RememberTurn, FindSubject, RefreshSubject, AnchorSubject,
              ReplaceDocument, Forget, Reset, Call, Sweep, SweepOn, WriteBatch
      <3> DEFINE moved == Onward(t, t.hit)
      <3>2. t.hit \in Nat
        BY <1>2, <3>1 DEF Sound, InHand
      <3>3. moved.at # "support"
        BY <1>2, <3>1, <3>2, OnwardSound
      <3>4. Goto(p, moved)
        BY <1>1, <3>1 DEF Support
      <3> HIDE DEF moved
      <3> QED BY <1>3, <3>3, <3>4
    <2>2. CASE q # p
      BY <1>5, <2>2
    <2> QED BY <2>1, <2>2
  <1>6. CASE Recall(p) \/ Boost(p)
    <2>1. PICK new : /\ Goto(p, new)
                     /\ \/ new = Idle
                        \/ new = [Idle EXCEPT !.at = "extract"]
                        \/ \E S : new = [Idle EXCEPT !.at = "boost", !.ids = S]
      BY <1>6 DEF Recall, Boost
    <2>2. new.at # "support"
      BY <2>1, IdleFields
    <2> QED BY <1>3, <2>1, <2>2
  <1>7. CASE Extract(p)
    <2>1. PICK new : /\ Goto(p, new)
                     /\ \/ new = Idle
                        \/ \E k, l : new = [t EXCEPT !.at = "embed", !.todo = k, !.ccl = l,
                                                    !.next = "embed"]
      BY <1>1, <1>7 DEF Extract
    <2>2. new.at # "support"
      BY <2>1, <1>2, IdleFields DEF Shape
    <2> QED BY <1>3, <2>1, <2>2
  <1>8. ASSUME NEW n \in Nat, t.at \in {"support", "content", "create"}, Goto(p, Onward(t, n))
        PROVE  /\ q # p /\ task[q].at = "support"
               /\ task'[q].hit = task[q].hit /\ task'[q].text = task[q].text
    <2>1. PICK new : new = Onward(t, n)
      OBVIOUS
    <2>2. new.at # "support"
      BY <1>2, <1>8, <2>1, OnwardSound
    <2> QED BY <1>3, <1>8, <2>1, <2>2
  <1>9. CASE Support(p) \/ Content(p)
    <2>1. t.at \in {"support", "content"} /\ t.hit \in Nat
      BY <1>0, <1>1, <1>9 DEF Support, Content, At, Sound, InHand
    <2>2. Goto(p, Idle) \/ Goto(p, Onward(t, t.hit))
      BY <1>1, <1>9 DEF Support, Content
    <2> QED BY <2>1, <2>2, <1>4, <1>8
  <1>10. CASE Create(p)
    <2>1. t.at = "create" /\ last \in Nat
      BY <1>1, <1>10, MemoryConstants DEF Create, At, MemoryInv, Rows
    <2>2. CASE Goto(p, Onward(t, last')) /\ last' = last + 1
      BY <2>1, <2>2, <1>8
    <2> QED BY <1>1, <1>4, <1>10, <2>2 DEF Create, Insert
  <1>11. CASE Link(p)
    <2>1. PICK new : Goto(p, new) /\ (new = Idle \/ new = [t EXCEPT !.at = t.next, !.hit = 0])
      BY <1>1, <1>11 DEF Link
    <2>2. t.next \in {"idle", "embed", "subject"}
      BY <1>2 DEF Shape
    <2>3. new.at # "support"
      BY <2>1, <2>2, <1>2, IdleFields DEF Shape
    <2> QED BY <1>3, <2>1, <2>3
  <1>12. CASE RememberTurn(p)
    <2>1. PICK k, l : Goto(p, IF k = 0 THEN Idle
                             ELSE [Idle EXCEPT !.at = "subject", !.next = "subject",
                                               !.src = last', !.todo = k, !.ccl = l])
      BY <1>12 DEF RememberTurn
    <2>2. CASE k = 0
      BY <1>4, <2>1, <2>2
    <2>3. CASE k # 0
      <3>1. PICK n, new : /\ n = last'
                          /\ new = [Idle EXCEPT !.at = "subject", !.next = "subject",
                                                !.src = n, !.todo = k, !.ccl = l]
        OBVIOUS
      <3>2. Goto(p, new) /\ new.at # "support"
        BY <2>1, <2>3, <3>1, IdleFields
      <3> QED BY <1>3, <3>2
    <2> QED BY <2>2, <2>3
  <1>13. CASE FindSubject(p)
    <2>1. PICK new : /\ Goto(p, new)
                     /\ \/ \E d : new = [[t EXCEPT !.todo = @ - 1] EXCEPT !.at = "anchor", !.text = d]
                        \/ \E h : new = [[t EXCEPT !.todo = @ - 1] EXCEPT !.at = "refresh", !.hit = h]
      BY <1>1, <1>13 DEF FindSubject
    <2>2. new.at # "support"
      BY <2>1, <1>2 DEF Shape
    <2> QED BY <1>3, <2>1, <2>2
  <1>14. CASE RefreshSubject(p) \/ AnchorSubject(p)
    <2>1. PICK new : /\ Goto(p, new)
                     /\ \/ new = [t EXCEPT !.at = "link"]
                        \/ \E h : new = [t EXCEPT !.at = "link", !.hit = h, !.text = None]
      BY <1>1, <1>14 DEF RefreshSubject, AnchorSubject
    <2>2. new.at # "support"
      BY <2>1, <1>2 DEF Shape
    <2> QED BY <1>3, <2>1, <2>2
  <1>15. CASE Sweep(p) \/ SweepOn(p) \/ WriteBatch(p)
    <2>1. PICK new : /\ Goto(p, new)
                     /\ \/ new = Idle
                        \/ \E S : new = [Idle EXCEPT !.at = "sweep", !.ids = S]
                        \/ \E h : new = [Idle EXCEPT !.at = "swept", !.hit = h]
      BY <1>15 DEF Sweep, SweepOn, BeginBatch, WriteBatch
    <2>2. new.at # "support"
      BY <2>1, IdleFields
    <2> QED BY <1>3, <2>1, <2>2
  <1>16. CASE Reset(p)
    <2>1. task'[q] = IF task[q].at = "idle" THEN task[q] ELSE [task[q] EXCEPT !.archived = FALSE]
      BY <1>16 DEF Reset
    <2>2. task[q] \in Shape(task[q])
      BY <1>0 DEF Sound
    <2>3. /\ task'[q].at = task[q].at /\ task'[q].hit = task[q].hit
          /\ task'[q].text = task[q].text
      BY <2>1, <2>2 DEF Shape
    <2>4. task[p].at = "idle"
      BY <1>16 DEF Reset, Call, At
    <2> QED BY <2>3, <2>4
  <1>17. CASE StoreFact(p) \/ ReplaceDocument(p) \/ Forget(p)
    BY <1>5, <1>17 DEF StoreFact, ReplaceDocument, Forget
  <1> QED BY <1>6, <1>7, <1>9, <1>10, <1>11, <1>12, <1>13, <1>14, <1>15, <1>16, <1>17 DEF Step

LEMMA ReadStays ==
    ASSUME MemoryInv, ReadIsThere, TextsKept, NEW p \in Procs, Step(p), ~Resolve(p)
    PROVE  ReadIsThere'
  <1> SUFFICES ASSUME NEW q \in Procs, task'[q].at = "support", task'[q].hit \in Stored'
               PROVE  task'[q].text = node'[task'[q].hit].text
    BY DEF ReadIsThere, At
  <1>1. /\ task[q].at = "support"
        /\ task'[q].hit = task[q].hit /\ task'[q].text = task[q].text
    BY SupportComes
  <1>2. task[q].hit \in 1 .. last
    BY <1>1 DEF MemoryInv, Tasks, Sound, InHand
  <1>3. task[q].hit \in Stored \cap DOMAIN node'
    BY <1>1, <1>2 DEF TextsKept, Stored
  <1> QED BY <1>1, <1>3 DEF TextsKept, ReadIsThere, At

LEMMA ReadByResolve ==
    ASSUME MemoryInv, ReadIsThere, NEW p \in Procs, Resolve(p)
    PROVE  ReadIsThere'
  <1> SUFFICES ASSUME NEW q \in Procs, task'[q].at = "support", task'[q].hit \in Stored'
               PROVE  task'[q].text = node'[task'[q].hit].text
    BY DEF ReadIsThere, At
  <1>0. task = [r \in Procs |-> task[r]] /\ UNCHANGED node
    BY DEF MemoryInv, Tasks, Resolve, store
  <1>1. CASE q # p
    <2>1. task'[q] = task[q]
      BY <1>0, <1>1 DEF Resolve, Goto
    <2> QED BY <2>1, <1>0 DEF ReadIsThere, At, Stored
  <1>2. CASE q = p
    <2>1. PICK t : t = task[p] /\ t \in Shape(t)
      BY DEF MemoryInv, Tasks, Sound
    <2>2. PICK new : /\ Goto(p, new)
                     /\ \/ new = Idle
                        \/ \E c : new = [t EXCEPT !.at = "create", !.text = c]
                        \/ \E n : new = [t EXCEPT !.at = "support", !.hit = n,
                                                 !.text = node[n].text]
                        \/ \E c, n : new = [t EXCEPT !.at = "content", !.hit = n, !.text = c]
      BY <2>1 DEF Resolve
    <2>3. task'[p] = new
      BY <1>0, <2>2 DEF Goto
    <2>4. new.at # "support" \/ new.text = node[new.hit].text
      BY <2>1, <2>2, IdleFields DEF Shape
    <2> QED BY <1>0, <1>2, <2>3, <2>4
  <1> QED BY <1>1, <1>2

\* While one process talks, what search finds is what is there: no other process's
\* statements between the resolution and the write make an active node carry the
\* vector of another text than its own, or an archived one any.  (With two
\* processes that talk it is not so: see the run memory_talkers.)
THEOREM VectorSound == OneTalks => (Spec => []VectorFollowsText)
  <1> SUFFICES ASSUME OneTalks
               PROVE  Spec => []VectorFollowsText
    OBVIOUS
  <1>1. Init => VectorInv
    BY DEF Init, VectorInv, VectorFollowsText, ReadIsThere, Active, Stored, At, Idle
  <1>2. MemoryInv /\ VectorInv /\ [Next]_vars => VectorInv'
    <2> SUFFICES ASSUME MemoryInv, VectorFollowsText, ReadIsThere, [Next]_vars
                 PROVE  VectorFollowsText' /\ ReadIsThere'
      BY DEF VectorInv
    <2>1. CASE UNCHANGED vars
      BY <2>1 DEF vars, store, VectorFollowsText, ReadIsThere, Active, Stored, At
    <2>2. CASE Tick
      <3>1. /\ DOMAIN node' = Stored /\ UNCHANGED <<vec, task>>
            /\ \A n \in Stored : /\ node'[n].text = node[n].text
                                /\ node'[n].active = node[n].active
        BY <2>2, TickedRows DEF MemoryInv, Tick
      <3>2. VectorFollowsText'
        BY <3>1, UntouchedFollows
      <3>3. ReadIsThere'
        BY <3>1 DEF ReadIsThere, At, Stored
      <3> QED BY <3>2, <3>3
    <2>3. ASSUME NEW p \in Procs, Content(p)
          PROVE  VectorFollowsText' /\ ReadIsThere'
      <3>1. VectorFollowsText'
        BY <2>3, ContentFollows
      <3>2. p \in Talkers /\ ~Resolve(p)
        BY <2>3 DEF MemoryInv, Tasks, Sound, Learning, Content, Resolve, At
      <3>3. \A q \in Procs : task'[q].at # "support"
        <4> SUFFICES ASSUME NEW q \in Procs, task'[q].at = "support"
                     PROVE  FALSE
          OBVIOUS
        <4>1. q # p /\ task[q].at = "support"
          BY <2>3, <3>2, SupportComes DEF Step
        <4>2. q \in Talkers
          BY <4>1 DEF MemoryInv, Tasks, Sound, Learning
        <4> QED BY <3>2, <4>1, <4>2 DEF OneTalks
      <3>4. ReadIsThere'
        BY <3>3 DEF ReadIsThere, At
      <3> QED BY <3>1, <3>4
    <2>4. ASSUME NEW p \in Procs, Resolve(p)
          PROVE  VectorFollowsText' /\ ReadIsThere'
      <3>1. UNCHANGED <<node, vec>>
        BY <2>4 DEF Resolve, store
      <3>2. VectorFollowsText'
        BY <3>1 DEF VectorFollowsText, Active, Stored
      <3> QED BY <2>4, <3>2, ReadByResolve
    <2>5. ASSUME NEW p \in Procs, Step(p), ~Content(p), ~Resolve(p)
          PROVE  VectorFollowsText' /\ ReadIsThere'
      <3>1. VectorFollowsText' /\ TextsKept
        BY <2>5, RestFollows, SupportFollows, SweepFollows
      <3> QED BY <2>5, <3>1, ReadStays
    <2> QED BY <2>1, <2>2, <2>3, <2>4, <2>5 DEF Next
  <1>3. VectorInv => VectorFollowsText
    BY DEF VectorInv
  <1> QED BY <1>1, <1>2, <1>3, MemoryStarts, MemoryStays, PTL DEF Spec
=============================================================================
