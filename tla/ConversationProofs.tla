------------------------- MODULE ConversationProofs -------------------------
(***************************************************************************)
(* Theorems about Conversation, for every set of callers, sessions and     *)
(* lengths, every configuration and every bound.                           *)
(***************************************************************************)
EXTENDS Conversation, TLAPS, FiniteSetTheorems, SequenceTheorems, WellFoundedInduction

-----------------------------------------------------------------------------
(***************************************************************************)
(* Numbers.                                                                *)
(***************************************************************************)
\* A set of natural numbers has a least one: < is well founded.
LEMMA LeastOf ==
    ASSUME NEW T, T \subseteq Nat, T # {}
    PROVE  \E least \in T : \A n \in T : least <= n
<1> DEFINE R == {pair \in Nat \X Nat : pair[1] < pair[2]}
<1>1. IsWellFoundedOn(R, Nat)
  BY NatLessThanWellFounded DEF OpToRel
<1>2. PICK least \in T : \A n \in T : ~ (<<n, least>> \in R)
  <2> HIDE DEF R
  <2> QED BY <1>1, WFMin
<1>3. \A n \in T : ~(n < least)
  BY <1>2
<1> QED BY <1>3

\* Induction on the natural numbers, on the set of those for which a fact holds.
LEMMA Induct ==
    ASSUME NEW S, 0 \in S, \A n \in Nat : n \in S => n + 1 \in S
    PROVE  Nat \subseteq S
<1> SUFFICES ASSUME Nat \ S # {} PROVE FALSE
  OBVIOUS
<1>1. PICK least \in Nat \ S : \A n \in Nat \ S : least <= n
  BY LeastOf
<1>2. least # 0 /\ least - 1 \in Nat
  BY <1>1
<1>3. least - 1 \in S
  BY <1>1, <1>2
<1>4. (least - 1) + 1 \in S
  BY <1>2, <1>3
<1> QED BY <1>1, <1>4

\* What Max is of a bounded set.
LEMMA GreatestOf ==
    ASSUME NEW S, NEW top \in Nat, S \subseteq 0 .. top, S # {}
    PROVE  Max(S) \in S /\ \A n \in S : n <= Max(S)
<1> DEFINE T == {n \in Nat : \A m \in S : m <= n}
<1>1. top \in T
  OBVIOUS
<1>2. PICK least \in T : \A n \in T : least <= n
  <2> HIDE DEF T
  <2> QED BY <1>1, LeastOf DEF T
<1>3. least \in S
  <2> SUFFICES ASSUME least \notin S PROVE FALSE
    OBVIOUS
  <2>1. least # 0
    <3>1. PICK n \in S : TRUE
      OBVIOUS
    <3>2. n <= least /\ n # least /\ n \in Nat
      BY <1>2, <3>1
    <3> QED BY <3>2
  <2>2. least - 1 \in T
    BY <1>2, <2>1
  <2> QED BY <1>2, <2>2
<1>4. \A n \in S : least >= n
  BY <1>2, <1>3
<1>5. Max(S) \in S /\ \A n \in S : Max(S) >= n
  BY <1>3, <1>4 DEF Max
<1> QED BY <1>5

-----------------------------------------------------------------------------
(***************************************************************************)
(* Tokens.                                                                 *)
(***************************************************************************)
\* g is the running sum of the tokens of the first n messages.
Running(m, n, g) ==
    g = [i \in 0 .. n |-> IF i = 0 THEN 0 ELSE g[i - 1] + EstimateTokens(m[i].length)]

\* Tokens are counted in natural numbers.
LEMMA TokensOf == \A l \in Nat : EstimateTokens(l) \in Nat
BY ConversationConstants DEF EstimateTokens

\* There is a running sum,
LEMMA RunningExists ==
    ASSUME NEW m \in Seq(Message)
    PROVE  \A n \in 0 .. Len(m) : \E g \in [0 .. n -> Nat] : Running(m, n, g)
<1> DEFINE S == {n \in Nat : n <= Len(m) => \E g \in [0 .. n -> Nat] : Running(m, n, g)}
<1>1. 0 \in S
  <2> DEFINE g == [i \in 0 .. 0 |-> 0]
  <2>1. g \in [0 .. 0 -> Nat] /\ Running(m, 0, g)
    BY DEF Running
  <2> QED BY <2>1
<1>2. ASSUME NEW n \in Nat, n \in S PROVE n + 1 \in S
  <2> SUFFICES ASSUME n + 1 <= Len(m)
               PROVE  \E g \in [0 .. n + 1 -> Nat] : Running(m, n + 1, g)
    OBVIOUS
  <2>0. Len(m) \in Nat
    OBVIOUS
  <2>1. PICK g \in [0 .. n -> Nat] : Running(m, n, g)
    BY <1>2, <2>0
  <2> DEFINE e == EstimateTokens(m[n + 1].length)
             h == [i \in 0 .. n + 1 |-> IF i = n + 1 THEN g[n] + e ELSE g[i]]
  <2>2. m[n + 1] \in Message
    BY <2>0
  <2>3. e \in Nat
    BY <2>2, TokensOf, ConversationConstants DEF Message
  <2>4. h \in [0 .. n + 1 -> Nat]
    <3> HIDE DEF e
    <3> QED BY <2>3
  <2>5. ASSUME NEW i \in 0 .. n + 1
        PROVE  h[i] = IF i = 0 THEN 0 ELSE h[i - 1] + EstimateTokens(m[i].length)
    <3>1. CASE i = n + 1
      <4>1. h[i] = g[n] + e
        BY <3>1
      <4>2. h[i - 1] = g[n]
        BY <3>1
      <4> QED BY <4>1, <4>2, <3>1
    <3>2. CASE i # n + 1
      <4>1. i \in 0 .. n /\ h[i] = g[i]
        BY <3>2
      <4>2. i # 0 => h[i - 1] = g[i - 1]
        BY <4>1
      <4>3. g[i] = IF i = 0 THEN 0 ELSE g[i - 1] + EstimateTokens(m[i].length)
        BY <2>1, <4>1 DEF Running
      <4> QED BY <4>1, <4>2, <4>3
    <3> QED BY <3>1, <3>2
  <2>6. Running(m, n + 1, h)
    <3> HIDE DEF e
    <3>1. h = [i \in 0 .. n + 1 |-> h[i]]
      OBVIOUS
    <3> HIDE DEF h
    <3> QED BY <2>5, <3>1 DEF Running
  <2> QED BY <2>4, <2>6
<1>3. Nat \subseteq S
  <2> HIDE DEF S
  <2> QED BY <1>1, <1>2, Induct
<1> QED BY <1>3

\* and but one,
LEMMA RunningUnique ==
    ASSUME NEW m, NEW n \in Nat, NEW g, NEW h, Running(m, n, g), Running(m, n, h)
    PROVE  g = h
<1> DEFINE S == {i \in Nat : i <= n => g[i] = h[i]}
<1>1. 0 \in S
  BY DEF Running
<1>2. ASSUME NEW i \in Nat, i \in S PROVE i + 1 \in S
  <2> SUFFICES ASSUME i + 1 <= n PROVE g[i + 1] = h[i + 1]
    OBVIOUS
  <2>1. i + 1 \in 0 .. n /\ i + 1 # 0 /\ (i + 1) - 1 = i
    OBVIOUS
  <2>2. g[i] = h[i]
    BY <1>2, <2>1
  <2>3. g[i + 1] = g[i] + EstimateTokens(m[i + 1].length)
    BY <2>1 DEF Running
  <2>4. h[i + 1] = h[i] + EstimateTokens(m[i + 1].length)
    BY <2>1 DEF Running
  <2> QED BY <2>2, <2>3, <2>4
<1>3. Nat \subseteq S
  <2> HIDE DEF S
  <2> QED BY <1>1, <1>2, Induct
<1>4. DOMAIN g = 0 .. n /\ DOMAIN h = 0 .. n
  BY DEF Running
<1>5. \A i \in 0 .. n : g[i] = h[i]
  BY <1>3
<1>6. g = [i \in 0 .. n |-> g[i]] /\ h = [i \in 0 .. n |-> h[i]]
  BY <1>4 DEF Running
<1> QED BY <1>5, <1>6

\* of which MessageTokens is the last.
LEMMA TokensAre ==
    ASSUME NEW m \in Seq(Message), NEW g, Running(m, Len(m), g)
    PROVE  MessageTokens(m) = g[Len(m)]
<1>1. Len(m) \in Nat
  OBVIOUS
<1> DEFINE f == CHOOSE h : Running(m, Len(m), h)
<1>2. MessageTokens(m) = f[Len(m)]
  BY DEF MessageTokens, Running
<1>3. Running(m, Len(m), f)
  OBVIOUS
<1>4. f = g
  <2> HIDE DEF f
  <2> QED BY <1>1, <1>3, RunningUnique
<1> QED BY <1>2, <1>4

\* An empty window has no tokens.
LEMMA TokensCounted ==
    ASSUME NEW m \in Seq(Message)
    PROVE  /\ MessageTokens(m) \in Nat
           /\ m = <<>> => MessageTokens(m) = 0
<1>1. Len(m) \in Nat
  OBVIOUS
<1>2. PICK g \in [0 .. Len(m) -> Nat] : Running(m, Len(m), g)
  BY <1>1, RunningExists
<1>3. MessageTokens(m) = g[Len(m)]
  BY <1>2, TokensAre
<1>4. g[0] = 0
  BY <1>1, <1>2 DEF Running
<1> QED BY <1>1, <1>2, <1>3, <1>4

\* A message adds its own tokens: the count kept from push to push is the sum.
LEMMA TokensAppended ==
    ASSUME NEW m \in Seq(Message), NEW x \in Message
    PROVE  MessageTokens(Append(m, x)) = MessageTokens(m) + EstimateTokens(x.length)
<1> DEFINE a == Append(m, x)
           n == Len(m)
<1>1. n \in Nat /\ a \in Seq(Message) /\ Len(a) = n + 1 /\ a[n + 1] = x
        /\ \A i \in 1 .. n : a[i] = m[i]
  OBVIOUS
<1> HIDE DEF a, n
<1>2. PICK g \in [0 .. n + 1 -> Nat] : Running(a, n + 1, g)
  <2>1. n + 1 \in 0 .. Len(a)
    BY <1>1
  <2> QED BY <1>1, <2>1, RunningExists
<1> DEFINE h == [i \in 0 .. n |-> g[i]]
<1>3. Running(m, n, h)
  <2>1. ASSUME NEW i \in 0 .. n
        PROVE  h[i] = IF i = 0 THEN 0 ELSE h[i - 1] + EstimateTokens(m[i].length)
    <3>1. g[i] = IF i = 0 THEN 0 ELSE g[i - 1] + EstimateTokens(a[i].length)
      BY <1>1, <1>2 DEF Running
    <3>2. h[i] = g[i] /\ (i # 0 => h[i - 1] = g[i - 1] /\ a[i] = m[i])
      BY <1>1
    <3> QED BY <3>1, <3>2
  <2>2. h = [i \in 0 .. n |-> h[i]]
    OBVIOUS
  <2> HIDE DEF h
  <2> QED BY <2>1, <2>2 DEF Running
<1>4. MessageTokens(m) = h[n]
  <2> HIDE DEF h
  <2> QED BY <1>3, TokensAre DEF n
<1>5. MessageTokens(a) = g[n + 1]
  BY <1>1, <1>2, TokensAre
<1>6. g[n + 1] = g[n] + EstimateTokens(x.length)
  BY <1>1, <1>2 DEF Running
<1>7. h[n] = g[n]
  BY <1>1
<1> QED BY <1>4, <1>5, <1>6, <1>7 DEF a

-----------------------------------------------------------------------------
(***************************************************************************)
(* A window.                                                               *)
(***************************************************************************)
\* A window that accounts for the episodes pushed: each raw, summed up or given up,
\* the raw ones the newest and in order, and its tokens counted.
Faithful(b, pushed) ==
    /\ b \in Buffer
    /\ b.tokens = MessageTokens(b.messages) + SummaryTokens(b.summary)
    /\ \A i, j \in DOMAIN b.messages : i < j => b.messages[i].id < b.messages[j].id
    /\ \A i \in DOMAIN b.messages : \A old \in b.summary \cup b.gone : old < b.messages[i].id
    /\ b.summary \cap b.gone = {}
    /\ Covers(b.messages) \cup b.summary \cup b.gone = pushed
    /\ b.summary \cup b.gone # {} => Len(b.messages) >= KeepRecent

\* The episodes of the raw messages.
LEMMA CoversAre ==
    ASSUME NEW m \in Seq(Message)
    PROVE  /\ Covers(m) = {m[i].id : i \in 1 .. Len(m)}
           /\ Covers(m) \subseteq Nat
<1>1. DOMAIN m = 1 .. Len(m) /\ \A i \in 1 .. Len(m) : m[i] \in Message
  OBVIOUS
<1>2. Covers(m) = {m[i].id : i \in 1 .. Len(m)}
  BY <1>1 DEF Covers, ToSet
<1>3. \A i \in 1 .. Len(m) : m[i].id \in Nat
  BY <1>1 DEF Message
<1> QED BY <1>2, <1>3

\* A message brings its own episode.
LEMMA CoversAppended ==
    ASSUME NEW m \in Seq(Message), NEW x \in Message
    PROVE  Covers(Append(m, x)) = Covers(m) \cup {x.id}
<1> DEFINE a == Append(m, x)
           n == Len(m)
<1>1. n \in Nat /\ a \in Seq(Message) /\ Len(a) = n + 1 /\ a[n + 1] = x
        /\ \A i \in 1 .. n : a[i] = m[i]
  OBVIOUS
<1>2. Covers(a) = {a[i].id : i \in 1 .. n + 1}
  BY <1>1, CoversAre
<1>3. Covers(m) = {m[i].id : i \in 1 .. n}
  BY CoversAre
<1> HIDE DEF a, n
<1>4. {a[i].id : i \in 1 .. n + 1} = {m[i].id : i \in 1 .. n} \cup {x.id}
  BY <1>1
<1> QED BY <1>2, <1>3, <1>4 DEF a

\* What Older and Drain divide a window into.
LEMMA Split ==
    ASSUME NEW m \in Seq(Message), NEW k \in 0 .. Len(m)
    PROVE  /\ SubSeq(m, 1, k) \in Seq(Message) /\ SubSeq(m, k + 1, Len(m)) \in Seq(Message)
           /\ Len(SubSeq(m, 1, k)) = k /\ Len(SubSeq(m, k + 1, Len(m))) = Len(m) - k
           /\ \A i \in 1 .. k : SubSeq(m, 1, k)[i] = m[i]
           /\ \A i \in 1 .. Len(m) - k : SubSeq(m, k + 1, Len(m))[i] = m[k + i]
<1>1. Len(m) \in Nat /\ k \in Nat /\ \A i \in 1 .. Len(m) : m[i] \in Message
  OBVIOUS
<1>2. \A i \in 1 .. k : m[i] \in Message
  BY <1>1
<1>3. \A i \in k + 1 .. Len(m) : m[i] \in Message
  BY <1>1
<1>4. /\ SubSeq(m, 1, k) \in Seq(Message)
      /\ Len(SubSeq(m, 1, k)) = IF 1 <= k THEN k - 1 + 1 ELSE 0
      /\ \A i \in 1 .. k - 1 + 1 : SubSeq(m, 1, k)[i] = m[1 + i - 1]
  BY <1>1, <1>2, SubSeqProperties
<1>5. /\ SubSeq(m, k + 1, Len(m)) \in Seq(Message)
      /\ Len(SubSeq(m, k + 1, Len(m))) = IF k + 1 <= Len(m) THEN Len(m) - (k + 1) + 1 ELSE 0
      /\ \A i \in 1 .. Len(m) - (k + 1) + 1 :
            SubSeq(m, k + 1, Len(m))[i] = m[(k + 1) + i - 1]
  BY <1>1, <1>3, SubSeqProperties
<1> QED BY <1>1, <1>4, <1>5

\* A window whose older messages go, to the summary or for good, stays faithful.
LEMMA Drained ==
    ASSUME NEW b, NEW P, Faithful(b, P), NEW k \in 0 .. Len(b.messages), NEW r \in Buffer,
           r.messages = SubSeq(b.messages, k + 1, Len(b.messages)),
           r.tokens = MessageTokens(r.messages) + SummaryTokens(r.summary),
           r.summary \cup r.gone = b.summary \cup b.gone \cup Covers(SubSeq(b.messages, 1, k)),
           r.summary \cap r.gone = {},
           k > 0 => Len(b.messages) - k >= KeepRecent
    PROVE  Faithful(r, P)
<1> DEFINE m == b.messages
           n == Len(m)
           older == SubSeq(m, 1, k)
           newer == SubSeq(m, k + 1, n)
<1>1. m \in Seq(Message) /\ n \in Nat /\ k \in Nat /\ k <= n
  BY DEF Faithful, Buffer
<1>2. /\ older \in Seq(Message) /\ newer \in Seq(Message)
      /\ Len(older) = k /\ Len(newer) = n - k
      /\ \A i \in 1 .. k : older[i] = m[i]
      /\ \A i \in 1 .. n - k : newer[i] = m[k + i]
  BY <1>1, Split
<1>3. Covers(m) = {m[i].id : i \in 1 .. n}
  BY <1>1, CoversAre
<1>4. Covers(older) = {older[i].id : i \in 1 .. k}
  BY <1>2, CoversAre
<1>5. Covers(newer) = {newer[i].id : i \in 1 .. n - k}
  BY <1>2, CoversAre
<1>6. DOMAIN m = 1 .. n /\ DOMAIN newer = 1 .. n - k
  BY <1>1, <1>2
<1>7. \A i, j \in 1 .. n : i < j => m[i].id < m[j].id
  BY <1>6 DEF Faithful
<1>8. \A i \in 1 .. n : \A old \in b.summary \cup b.gone : old < m[i].id
  BY <1>6 DEF Faithful
<1>9. Covers(m) \cup b.summary \cup b.gone = P
  BY DEF Faithful
<1>10. r.messages = newer /\ r.summary \cup r.gone = b.summary \cup b.gone \cup Covers(older)
  OBVIOUS
<1>11. b.summary \cup b.gone # {} => n >= KeepRecent
  BY DEF Faithful
<1> HIDE DEF m, n, older, newer
<1>12. Covers(m) = Covers(older) \cup Covers(newer)
  <2>1. ASSUME NEW i \in 1 .. n PROVE m[i].id \in Covers(older) \cup Covers(newer)
    <3>1. CASE i <= k
      BY <1>1, <1>2, <1>4, <3>1
    <3>2. CASE i > k
      <4>1. i - k \in 1 .. n - k /\ k + (i - k) = i
        BY <1>1, <3>2
      <4>2. newer[i - k] = m[i]
        BY <1>2, <4>1
      <4> QED BY <1>5, <4>1, <4>2
    <3> QED BY <1>1, <3>1, <3>2
  <2>2. ASSUME NEW i \in 1 .. k PROVE older[i].id \in Covers(m)
    <3>1. i \in 1 .. n
      BY <1>1
    <3> QED BY <1>2, <1>3, <3>1
  <2>3. ASSUME NEW i \in 1 .. n - k PROVE newer[i].id \in Covers(m)
    <3>1. k + i \in 1 .. n
      BY <1>1
    <3> QED BY <1>2, <1>3, <3>1
  <2>4. Covers(m) \subseteq Covers(older) \cup Covers(newer)
    BY <1>3, <2>1
  <2>5. Covers(older) \subseteq Covers(m)
    BY <1>4, <2>2
  <2>6. Covers(newer) \subseteq Covers(m)
    BY <1>5, <2>3
  <2> QED BY <2>4, <2>5, <2>6
<1>13. \A i, j \in 1 .. n - k : i < j => newer[i].id < newer[j].id
  <2> SUFFICES ASSUME NEW i \in 1 .. n - k, NEW j \in 1 .. n - k, i < j
               PROVE  newer[i].id < newer[j].id
    OBVIOUS
  <2>1. k + i \in 1 .. n /\ k + j \in 1 .. n /\ k + i < k + j
    BY <1>1
  <2> QED BY <1>2, <1>7, <2>1
<1>14. \A i \in 1 .. n - k : \A old \in r.summary \cup r.gone : old < newer[i].id
  <2> SUFFICES ASSUME NEW i \in 1 .. n - k, NEW old \in r.summary \cup r.gone
               PROVE  old < newer[i].id
    OBVIOUS
  <2>1. k + i \in 1 .. n /\ newer[i] = m[k + i]
    BY <1>1, <1>2
  <2>2. CASE old \in b.summary \cup b.gone
    BY <1>8, <2>1, <2>2
  <2>3. CASE old \in Covers(older)
    <3>1. PICK j \in 1 .. k : old = older[j].id
      BY <1>4, <2>3
    <3>2. j \in 1 .. n /\ j < k + i /\ older[j] = m[j]
      BY <1>1, <1>2
    <3> QED BY <1>7, <2>1, <3>1, <3>2
  <2> QED BY <1>10, <2>2, <2>3
<1>15. Covers(newer) \cup r.summary \cup r.gone = P
  BY <1>9, <1>10, <1>12
<1>16. r.summary \cup r.gone # {} => Len(newer) >= KeepRecent
  <2>1. CASE k = 0
    <3>1. Covers(older) = {}
      BY <1>4, <2>1
    <3> QED BY <1>1, <1>2, <1>10, <1>11, <2>1, <3>1
  <2>2. CASE k > 0
    BY <1>2, <2>2 DEF n, m
  <2> QED BY <1>1, <2>1, <2>2
<1> QED BY <1>6, <1>10, <1>13, <1>14, <1>15, <1>16 DEF Faithful

\* So are the tokens of a summary counted.
LEMMA TokensOfSummary == \A summary : SummaryTokens(summary) \in Nat
BY TokensOf, ConversationConstants DEF SummaryTokens

\* Without its excess a window keeps the recent messages, and no more.
LEMMA ExcessIs ==
    ASSUME NEW b \in Buffer
    PROVE  /\ Len(b.messages) \in Nat
           /\ Excess(b) \in 0 .. Len(b.messages)
           /\ Excess(b) > 0 => Len(b.messages) - Excess(b) = KeepRecent
           /\ Len(b.messages) - Excess(b) <= KeepRecent
<1> DEFINE n == Len(b.messages)
<1>1. n \in Nat
  BY DEF Buffer
<1>2. KeepRecent \in Nat
  BY ConversationConstants
<1>3. Excess(b) = IF KeepRecent < n THEN n - KeepRecent ELSE n - n
  BY DEF Excess, Lesser
<1> HIDE DEF n
<1>4. /\ Excess(b) \in 0 .. n
      /\ Excess(b) > 0 => n - Excess(b) = KeepRecent
      /\ n - Excess(b) <= KeepRecent
  BY <1>1, <1>2, <1>3
<1> QED BY <1>1, <1>4 DEF n

\* A new window accounts for nothing.
LEMMA FreshFaithful ==
    ASSUME NEW id \in Nat
    PROVE  Faithful(NewBuffer(id), {})
<1> DEFINE b == NewBuffer(id)
<1>1. b \in Buffer /\ b.messages = <<>> /\ b.tokens = 0 /\ b.summary = {} /\ b.gone = {}
  BY DEF NewBuffer, Buffer
<1>2. <<>> \in Seq(Message)
  OBVIOUS
<1>3. MessageTokens(<<>>) = 0
  BY <1>2, TokensCounted
<1>4. SummaryTokens({}) = 0
  BY DEF SummaryTokens
<1>5. Covers(<<>>) = {} /\ DOMAIN <<>> = {}
  <2>1. ToSet(<<>>) = {}
    BY DEF ToSet
  <2> QED BY <2>1 DEF Covers
<1> HIDE DEF b
<1>6. DOMAIN b.messages = {} /\ b.summary \cup b.gone = {} /\ b.summary \cap b.gone = {}
  BY <1>1, <1>5
<1>7. b.tokens = MessageTokens(b.messages) + SummaryTokens(b.summary)
  BY <1>1, <1>3, <1>4
<1>8. Covers(b.messages) \cup b.summary \cup b.gone = {}
  BY <1>1, <1>5
<1>9. /\ \A i, j \in DOMAIN b.messages : i < j => b.messages[i].id < b.messages[j].id
      /\ \A i \in DOMAIN b.messages : \A old \in b.summary \cup b.gone :
            old < b.messages[i].id
  BY <1>6
<1>10. b.summary \cup b.gone # {} => Len(b.messages) >= KeepRecent
  BY <1>6
<1>11. Faithful(b, {})
  BY <1>1, <1>6, <1>7, <1>8, <1>9, <1>10 DEF Faithful
<1> QED BY <1>11 DEF b

\* The window push_dialogue adds a message to.
Grown(b, id, length) ==
    [b EXCEPT !.messages = Append(@, [id |-> id, length |-> length]),
              !.tokens = @ + EstimateTokens(length), !.lastUsed = id]

\* It accounts for one more.
LEMMA GrownFaithful ==
    ASSUME NEW b, NEW P, Faithful(b, P), NEW id \in Nat, NEW length \in Lengths,
           \A old \in P : old < id
    PROVE  /\ Faithful(Grown(b, id, length), P \cup {id})
           /\ Grown(b, id, length).since = b.since
           /\ Grown(b, id, length).lastUsed = id
<1> DEFINE m == b.messages
           x == [id |-> id, length |-> length]
           a == Append(m, x)
           n == Len(m)
           t == b.tokens + EstimateTokens(length)
           r == Grown(b, id, length)
<1>1. m \in Seq(Message) /\ x \in Message /\ n \in Nat
  BY DEF Faithful, Buffer, Message
<1>2. a \in Seq(Message) /\ Len(a) = n + 1 /\ a[n + 1] = x /\ \A i \in 1 .. n : a[i] = m[i]
  BY <1>1
<1>3. length \in Nat
  BY ConversationConstants
<1>4. MessageTokens(a) = MessageTokens(m) + EstimateTokens(length)
  BY <1>1, TokensAppended
<1>5. Covers(a) = Covers(m) \cup {id}
  BY <1>1, CoversAppended
<1>6. EstimateTokens(length) \in Nat /\ MessageTokens(m) \in Nat /\ SummaryTokens(b.summary) \in Nat
  BY <1>1, <1>3, TokensOf, TokensCounted, TokensOfSummary
<1>7. t \in Nat
  BY <1>6 DEF Faithful, Buffer
<1>8. b \in Buffer /\ DOMAIN m = 1 .. n /\ DOMAIN a = 1 .. n + 1
  BY <1>1, <1>2 DEF Faithful
<1>9. Covers(m) = {m[i].id : i \in 1 .. n}
  BY <1>1, CoversAre
<1>10. r \in Buffer /\ r.messages = a /\ r.tokens = t /\ r.lastUsed = id
        /\ r.summary = b.summary /\ r.gone = b.gone /\ r.since = b.since
  <2>1. r = [b EXCEPT !.messages = a, !.tokens = t, !.lastUsed = id]
    BY DEF Grown
  <2> HIDE DEF r, a, t
  <2> QED BY <1>2, <1>7, <1>8, <2>1 DEF Buffer
<1>11. b.tokens = MessageTokens(m) + SummaryTokens(b.summary)
  BY DEF Faithful
<1>12. /\ \A i, j \in 1 .. n : i < j => m[i].id < m[j].id
       /\ \A i \in 1 .. n : \A old \in b.summary \cup b.gone : old < m[i].id
  BY <1>8 DEF Faithful
<1>13. Covers(m) \cup b.summary \cup b.gone = P
  BY DEF Faithful
<1>14. b.summary \cap b.gone = {} /\ (b.summary \cup b.gone # {} => n >= KeepRecent)
  BY DEF Faithful
<1>15. t = b.tokens + EstimateTokens(length) /\ x.id = id
  OBVIOUS
<1> HIDE DEF m, a, n, r, t, x
<1>16. \A i, j \in 1 .. n + 1 : i < j => a[i].id < a[j].id
  <2> SUFFICES ASSUME NEW i \in 1 .. n + 1, NEW j \in 1 .. n + 1, i < j
               PROVE  a[i].id < a[j].id
    OBVIOUS
  <2>1. i \in 1 .. n /\ a[i] = m[i]
    BY <1>1, <1>2
  <2>2. CASE j \in 1 .. n
    BY <1>2, <1>12, <2>1, <2>2
  <2>3. CASE j = n + 1
    <3>1. m[i].id \in P
      BY <1>9, <1>13, <2>1
    <3> QED BY <1>2, <1>15, <2>1, <2>3, <3>1
  <2> QED BY <1>1, <2>2, <2>3
<1>17. \A i \in 1 .. n + 1 : \A old \in b.summary \cup b.gone : old < a[i].id
  <2> SUFFICES ASSUME NEW i \in 1 .. n + 1, NEW old \in b.summary \cup b.gone
               PROVE  old < a[i].id
    OBVIOUS
  <2>1. CASE i \in 1 .. n
    BY <1>2, <1>12, <2>1
  <2>2. CASE i = n + 1
    BY <1>2, <1>13, <1>15, <2>2
  <2> QED BY <1>1, <2>1, <2>2
<1>18. r.tokens = MessageTokens(r.messages) + SummaryTokens(r.summary)
  BY <1>4, <1>6, <1>10, <1>11, <1>15
<1>19. Covers(r.messages) \cup r.summary \cup r.gone = P \cup {id}
  BY <1>5, <1>10, <1>13
<1>20. r.summary \cup r.gone # {} => Len(r.messages) >= KeepRecent
  BY <1>1, <1>2, <1>10, <1>14, ConversationConstants
<1>21. Faithful(r, P \cup {id})
  BY <1>8, <1>10, <1>14, <1>16, <1>17, <1>18, <1>19, <1>20 DEF Faithful
<1> QED BY <1>10, <1>21 DEF r

\* Trimming gives up what it trims.
LEMMA TrimFaithful ==
    ASSUME NEW b, NEW P, Faithful(b, P)
    PROVE  /\ Faithful(TrimToRecent(b), P)
           /\ Len(TrimToRecent(b).messages) <= KeepRecent
           /\ TrimToRecent(b).since = b.since
           /\ TrimToRecent(b).lastUsed = b.lastUsed
<1> DEFINE m == b.messages
           k == Excess(b)
           r == TrimToRecent(b)
           newer == SubSeq(m, k + 1, Len(m))
           dropped == b.gone \cup Covers(Older(b))
           t == MessageTokens(newer) + SummaryTokens(b.summary)
<1>1. b \in Buffer /\ m \in Seq(Message)
  BY DEF Faithful, Buffer
<1>2. k \in 0 .. Len(m) /\ Len(m) \in Nat /\ Len(m) - k <= KeepRecent
        /\ (k > 0 => Len(m) - k = KeepRecent)
  BY <1>1, ExcessIs
<1>3. newer \in Seq(Message) /\ Len(newer) = Len(m) - k /\ Older(b) \in Seq(Message)
  BY <1>1, <1>2, Split DEF Older
<1>4. dropped \in SUBSET Nat /\ t \in Nat
  <2>1. Covers(Older(b)) \subseteq Nat /\ b.gone \subseteq Nat
    BY <1>1, <1>3, CoversAre DEF Buffer
  <2>2. MessageTokens(newer) \in Nat /\ SummaryTokens(b.summary) \in Nat
    BY <1>3, TokensCounted, TokensOfSummary
  <2> QED BY <2>1, <2>2
<1>5. r = [[[b EXCEPT !.messages = newer] EXCEPT !.gone = dropped] EXCEPT !.tokens = t]
  BY <1>1 DEF TrimToRecent, Recount, Drain, Buffer
<1>6. r \in Buffer /\ r.messages = newer /\ r.gone = dropped /\ r.summary = b.summary
        /\ r.tokens = t /\ r.since = b.since /\ r.lastUsed = b.lastUsed
  <2> HIDE DEF r, newer, dropped, t
  <2> QED BY <1>1, <1>3, <1>4, <1>5 DEF Buffer
<1>7. Older(b) = SubSeq(m, 1, k)
  BY DEF Older
<1>8. \A id \in Covers(Older(b)) : id \notin b.summary
  <2>1. Covers(Older(b)) = {m[i].id : i \in 1 .. k}
    <3>1. Covers(Older(b)) = {Older(b)[i].id : i \in 1 .. k}
      <4>1. Len(Older(b)) = k
        BY <1>1, <1>2, <1>7, Split
      <4> QED BY <1>3, <4>1, CoversAre
    <3>2. \A i \in 1 .. k : Older(b)[i] = m[i]
      BY <1>1, <1>2, <1>7, Split
    <3> QED BY <3>1, <3>2
  <2>2. \A i \in 1 .. k : \A old \in b.summary : old < m[i].id
    <3>1. 1 .. k \subseteq DOMAIN m
      BY <1>1, <1>2
    <3> QED BY <3>1 DEF Faithful
  <2>3. \A old \in b.summary : old \in Nat
    BY <1>1 DEF Buffer
  <2> HIDE DEF k, m
  <2> QED BY <2>1, <2>2, <2>3
<1>9. r.summary \cap r.gone = {}
  BY <1>6, <1>8 DEF Faithful
<1>10. r.summary \cup r.gone = b.summary \cup b.gone \cup Covers(SubSeq(m, 1, k))
  BY <1>6, <1>7
<1>11. k > 0 => Len(m) - k >= KeepRecent
  BY <1>2, ConversationConstants
<1>12. Faithful(r, P)
  <2> HIDE DEF k, r
  <2> QED BY <1>2, <1>6, <1>9, <1>10, <1>11, Drained
<1> QED BY <1>2, <1>3, <1>6, <1>12

\* A summary covers what it was asked of, which is dropped.
LEMMA SummaryFaithful ==
    ASSUME NEW b, NEW P, Faithful(b, P), Excess(b) > 0, NEW call, NEW empty \in BOOLEAN,
           call.taken = Older(b), call.prior = b.summary
    PROVE  /\ Faithful(Summarise(b, call, empty), P)
           /\ Len(Summarise(b, call, empty).messages) <= KeepRecent
           /\ Summarise(b, call, empty).since = b.since
           /\ Summarise(b, call, empty).lastUsed = b.lastUsed
<1> DEFINE m == b.messages
           k == Excess(b)
           r == Summarise(b, call, empty)
           newer == SubSeq(m, k + 1, Len(m))
           covered == b.summary \cup Covers(Older(b))
           kept == IF empty THEN {} ELSE covered
           dropped == b.gone \cup (IF empty THEN covered ELSE {})
           t == MessageTokens(newer) + SummaryTokens(kept)
<1>1. b \in Buffer /\ m \in Seq(Message)
  BY DEF Faithful, Buffer
<1>2. k \in 0 .. Len(m) /\ Len(m) \in Nat /\ Len(m) - k <= KeepRecent
        /\ (k > 0 => Len(m) - k = KeepRecent)
  BY <1>1, ExcessIs
<1>3. newer \in Seq(Message) /\ Len(newer) = Len(m) - k /\ Older(b) \in Seq(Message)
        /\ Len(Older(b)) = k
  BY <1>1, <1>2, Split DEF Older
<1>4. kept \in SUBSET Nat /\ dropped \in SUBSET Nat /\ t \in Nat
  <2>1. Covers(Older(b)) \subseteq Nat /\ b.gone \subseteq Nat /\ b.summary \subseteq Nat
    BY <1>1, <1>3, CoversAre DEF Buffer
  <2>2. MessageTokens(newer) \in Nat /\ SummaryTokens(kept) \in Nat
    BY <1>3, TokensCounted, TokensOfSummary
  <2> QED BY <2>1, <2>2
<1>5. r = [[[b EXCEPT !.messages = newer] EXCEPT !.summary = kept, !.gone = dropped]
             EXCEPT !.tokens = t]
  <2>1. Lesser(Len(call.taken), Len(m)) = k
    BY <1>2, <1>3 DEF Lesser
  <2> HIDE DEF k
  <2> QED BY <1>1, <2>1 DEF Summarise, Recount, Drain, Buffer
<1>6. r \in Buffer /\ r.messages = newer /\ r.gone = dropped /\ r.summary = kept
        /\ r.tokens = t /\ r.since = b.since /\ r.lastUsed = b.lastUsed
  <2> HIDE DEF r, newer, kept, dropped, t
  <2> QED BY <1>1, <1>3, <1>4, <1>5 DEF Buffer
<1>7. Older(b) = SubSeq(m, 1, k)
  BY DEF Older
<1>8. \A id \in Covers(Older(b)) : id \notin b.summary \cup b.gone
  <2>1. Covers(Older(b)) = {m[i].id : i \in 1 .. k}
    <3>1. Covers(Older(b)) = {Older(b)[i].id : i \in 1 .. k}
      <4>1. Len(Older(b)) = k
        BY <1>1, <1>2, <1>7, Split
      <4> QED BY <1>3, <4>1, CoversAre
    <3>2. \A i \in 1 .. k : Older(b)[i] = m[i]
      BY <1>1, <1>2, <1>7, Split
    <3> QED BY <3>1, <3>2
  <2>2. \A i \in 1 .. k : \A old \in b.summary \cup b.gone : old < m[i].id
    <3>1. 1 .. k \subseteq DOMAIN m
      BY <1>1, <1>2
    <3> QED BY <3>1 DEF Faithful
  <2>3. \A old \in b.summary \cup b.gone : old \in Nat
    BY <1>1 DEF Buffer
  <2> HIDE DEF k, m
  <2> QED BY <2>1, <2>2, <2>3
<1>9. r.summary \cap r.gone = {}
  BY <1>6, <1>8 DEF Faithful
<1>10. r.summary \cup r.gone = b.summary \cup b.gone \cup Covers(SubSeq(m, 1, k))
  BY <1>6, <1>7
<1>11. k > 0 => Len(m) - k >= KeepRecent
  BY <1>2, ConversationConstants
<1>12. Faithful(r, P)
  <2> HIDE DEF k, r
  <2> QED BY <1>2, <1>6, <1>9, <1>10, <1>11, Drained
<1> QED BY <1>2, <1>3, <1>6, <1>12

-----------------------------------------------------------------------------
(***************************************************************************)
(* The invariant.                                                          *)
(***************************************************************************)
\* What a call is.
Call == [at : {"none", "archive", "compress", "recall", "learn", "answered"}, turn : Nat,
         taken : Seq(Message), prior : SUBSET Nat, hung : BOOLEAN, missed : Int,
         learningError : BOOLEAN]

\* The turns, those still to come among them, the log and the rest have their types.
Held ==
    /\ said \in Seq(Turn) /\ Len(said) + Cardinality(New) <= MaxTurns
    /\ log \in Seq(DOMAIN said) /\ born \in 0 .. Len(log)
    /\ DOMAIN buffers \subseteq Sessions /\ IsFiniteSet(DOMAIN buffers)
    /\ calls \in [Callers -> Call]
    /\ models \in [chat : Providers, embedder : Providers, embeds : BOOLEAN]

\* The calls in line, each once and with a turn of its own.
InLine ==
    /\ line \in Seq(Callers) /\ IsInjective(line)
    /\ \A c \in Callers : calls[c].at \in {"none", "answered"} <=> c \notin ToSet(line)
    /\ \A c, d \in Callers : c # d /\ calls[c].turn = calls[d].turn => calls[c].turn = 0

Archived(n) == {id \in DOMAIN log : log[id] = n}

\* A turn that was not lost is archived once at most, as its answer says.
Once ==
    \A n \in DOMAIN said :
        /\ said[n].became = "lost" => said[n].doubted = TRUE
        /\ said[n].doubted = FALSE =>
              /\ \A i, j \in Archived(n) : i = j
              /\ said[n].became = "ok" => Archived(n) # {}
              /\ said[n].became = "error" => Archived(n) = {}

\* What the summary was asked of is what its window still begins with.
Asked(c) ==
    LET session == said[calls[c].turn].session
    IN /\ session \in DOMAIN buffers
       /\ Excess(buffers[session]) > 0
       /\ calls[c].taken = Older(buffers[session])
       /\ calls[c].prior = buffers[session].summary

\* What holds of a call at each of its stations.
Stands(c) ==
    /\ calls[c].at \in {"none", "answered"} => calls[c].turn = 0
    /\ calls[c].at = "answered" =>
          calls[c].learningError = TRUE \/ (models.chat # "none" /\ calls[c].missed = 0)
    /\ calls[c].hung = TRUE => calls[c].at \in {"compress", "recall", "learn"}
    /\ calls[c].turn # 0 =>
          /\ calls[c].turn \in DOMAIN said
          /\ said[calls[c].turn].became = "open"
          /\ said[calls[c].turn].doubted = FALSE =>
                (Archived(calls[c].turn) = {} <=> calls[c].at = "archive")
    /\ calls[c].at \in {"compress", "recall", "learn"} => calls[c].turn # 0 /\ HasTurn(c)
    /\ calls[c].at = "learn" => models.chat # "none"
    /\ calls[c].at = "compress" => Asked(c)

\* The episodes a window has to account for.
Pushed(s) == {id \in EpisodesOf(s) : id >= buffers[s].since}
Compressing(s) == \E c \in Callers : calls[c].at = "compress" /\ said[calls[c].turn].session = s

\* A window is faithful, remembers the last use of its session, and is no larger than
\* it may be unless its call is being compressed.
Whole(s) ==
    /\ Faithful(buffers[s], Pushed(s))
    /\ buffers[s].since \in 1 .. Len(log)
    /\ buffers[s].lastUsed \in EpisodesOf(s)
    /\ \A id \in EpisodesOf(s) : id <= buffers[s].lastUsed
    /\ \/ buffers[s].tokens <= Threshold
       \/ Len(buffers[s].messages) <= KeepRecent
       \/ Compressing(s)

\* A session without a window was last used before any with one.
Recent ==
    \A s \in DOMAIN buffers, t \in Sessions \ DOMAIN buffers :
        \A id \in EpisodesOf(t) : id > born => id < buffers[s].lastUsed

Stations == \A c \in Callers : Stands(c)
Windows == \A s \in DOMAIN buffers : Whole(s)

\* The inductive invariant.
ConversationInv ==
    /\ Held /\ InLine /\ Once
    /\ Stations /\ Windows /\ Recent

-----------------------------------------------------------------------------
(***************************************************************************)
(* The line, the log and the calls.                                        *)
(***************************************************************************)
\* A caller joins the line.
LEMMA LineGrows ==
    ASSUME NEW q \in Seq(Callers), IsInjective(q), NEW c \in Callers, c \notin ToSet(q)
    PROVE  /\ Append(q, c) \in Seq(Callers) /\ IsInjective(Append(q, c))
           /\ ToSet(Append(q, c)) = ToSet(q) \cup {c}
           /\ Append(q, c) # <<>>
           /\ q # <<>> => Head(Append(q, c)) = Head(q)
<1> DEFINE a == Append(q, c)
           n == Len(q)
<1>1. n \in Nat /\ a \in Seq(Callers) /\ Len(a) = n + 1 /\ a[n + 1] = c
        /\ \A i \in 1 .. n : a[i] = q[i]
  OBVIOUS
<1>2. DOMAIN a = 1 .. n + 1 /\ DOMAIN q = 1 .. n
  BY <1>1
<1>3. q # <<>> => Head(a) = Head(q)
  <2>1. q # <<>> => 1 \in 1 .. n
    BY <1>1
  <2> QED BY <1>1, <2>1
<1>4. a # <<>>
  BY AppendProperties
<1>5. \A i \in 1 .. n : q[i] # c
  BY <1>2 DEF ToSet
<1>6. \A i, j \in 1 .. n : q[i] = q[j] => i = j
  BY <1>2 DEF IsInjective
<1> HIDE DEF a, n
<1>7. \A i, j \in 1 .. n + 1 : a[i] = a[j] => i = j
  <2> SUFFICES ASSUME NEW i \in 1 .. n + 1, NEW j \in 1 .. n + 1, a[i] = a[j]
               PROVE  i = j
    OBVIOUS
  <2>1. CASE i \in 1 .. n /\ j \in 1 .. n
    BY <1>1, <1>6, <2>1
  <2>2. CASE i \in 1 .. n /\ j = n + 1
    BY <1>1, <1>5, <2>2
  <2>3. CASE i = n + 1 /\ j \in 1 .. n
    BY <1>1, <1>5, <2>3
  <2> QED BY <1>1, <2>1, <2>2, <2>3
<1>8. ToSet(a) = ToSet(q) \cup {c}
  <2>1. \A i \in 1 .. n + 1 : a[i] \in ToSet(q) \cup {c}
    BY <1>1, <1>2 DEF ToSet
  <2>2. \A i \in 1 .. n : q[i] \in ToSet(a)
    BY <1>1, <1>2 DEF ToSet
  <2>3. c \in ToSet(a)
    BY <1>1, <1>2 DEF ToSet
  <2> QED BY <1>2, <2>1, <2>2, <2>3 DEF ToSet
<1> QED BY <1>1, <1>2, <1>3, <1>4, <1>7, <1>8 DEF IsInjective, a

\* The first leaves it.
LEMMA LineMoves ==
    ASSUME NEW q \in Seq(Callers), IsInjective(q), q # <<>>
    PROVE  /\ Tail(q) \in Seq(Callers) /\ IsInjective(Tail(q))
           /\ ToSet(Tail(q)) = ToSet(q) \ {Head(q)}
           /\ Head(q) \in ToSet(q)
<1> DEFINE a == Tail(q)
           n == Len(q)
<1>1. n \in Nat \ {0} /\ a \in Seq(Callers) /\ Len(a) = n - 1 /\ Head(q) = q[1]
        /\ \A i \in 1 .. n - 1 : a[i] = q[i + 1]
  OBVIOUS
<1>2. DOMAIN a = 1 .. n - 1 /\ DOMAIN q = 1 .. n
  BY <1>1
<1>3. \A i, j \in 1 .. n : q[i] = q[j] => i = j
  BY <1>2 DEF IsInjective
<1> HIDE DEF a, n
<1>4. \A i, j \in 1 .. n - 1 : a[i] = a[j] => i = j
  <2> SUFFICES ASSUME NEW i \in 1 .. n - 1, NEW j \in 1 .. n - 1, a[i] = a[j]
               PROVE  i = j
    OBVIOUS
  <2>1. i + 1 \in 1 .. n /\ j + 1 \in 1 .. n /\ q[i + 1] = q[j + 1]
    BY <1>1
  <2> QED BY <1>1, <1>3, <2>1
<1>5. \A i \in 1 .. n - 1 : a[i] \in ToSet(q) \ {q[1]}
  <2> SUFFICES ASSUME NEW i \in 1 .. n - 1 PROVE a[i] \in ToSet(q) \ {q[1]}
    OBVIOUS
  <2>1. i + 1 \in 1 .. n /\ i + 1 # 1 /\ 1 \in 1 .. n /\ a[i] = q[i + 1]
    BY <1>1
  <2> QED BY <1>2, <1>3, <2>1 DEF ToSet
<1>6. \A i \in 1 .. n : q[i] # q[1] => q[i] \in ToSet(a)
  <2> SUFFICES ASSUME NEW i \in 1 .. n, q[i] # q[1] PROVE q[i] \in ToSet(a)
    OBVIOUS
  <2>1. i # 1
    OBVIOUS
  <2>2. i - 1 \in 1 .. n - 1 /\ (i - 1) + 1 = i
    BY <1>1, <2>1
  <2>3. a[i - 1] = q[i]
    BY <1>1, <2>2
  <2> QED BY <1>2, <2>2, <2>3 DEF ToSet
<1>7. ToSet(a) = ToSet(q) \ {q[1]}
  <2>1. ToSet(a) \subseteq ToSet(q) \ {q[1]}
    BY <1>2, <1>5 DEF ToSet
  <2>2. ToSet(q) \ {q[1]} \subseteq ToSet(a)
    BY <1>2, <1>6 DEF ToSet
  <2> QED BY <2>1, <2>2
<1>8. q[1] \in ToSet(q)
  <2>1. 1 \in 1 .. n
    BY <1>1
  <2> QED BY <1>2, <2>1 DEF ToSet
<1> QED BY <1>1, <1>2, <1>4, <1>7, <1>8 DEF IsInjective, a

\* The line is finite.
LEMMA LineFinite ==
    ASSUME NEW q \in Seq(Callers)
    PROVE  IsFiniteSet(ToSet(q))
<1> DEFINE f == [i \in 1 .. Len(q) |-> q[i]]
<1>1. Len(q) \in Nat /\ DOMAIN q = 1 .. Len(q)
  OBVIOUS
<1>2. IsFiniteSet(1 .. Len(q))
  BY <1>1, FS_Interval
<1>3. f \in Surjection(1 .. Len(q), ToSet(q))
  BY <1>1 DEF Surjection, ToSet
<1> QED BY <1>2, <1>3, FS_Surjection DEF ExistsSurjection

\* So are the calls that have no turn yet.
LEMMA NewCounted ==
    ASSUME Held, InLine
    PROVE  IsFiniteSet(New) /\ Cardinality(New) \in Nat
<1>1. New \subseteq ToSet(line)
  <2> SUFFICES ASSUME NEW c \in New PROVE c \in ToSet(line)
    OBVIOUS
  <2>1. c \in Callers /\ calls[c].at = "archive"
    BY DEF New
  <2>2. calls[c].at \notin {"none", "answered"}
    BY <2>1
  <2> QED BY <2>1, <2>2 DEF InLine
<1>2. IsFiniteSet(ToSet(line))
  BY LineFinite DEF InLine
<1>3. IsFiniteSet(New)
  BY <1>1, <1>2, FS_Subset
<1> QED BY <1>3, FS_CardinalityType

\* A session keeps its episodes while the log stays.
LEMMA EpisodesKept ==
    ASSUME Held, log' = log,
           \A n \in DOMAIN said : n \in DOMAIN said' /\ said'[n].session = said[n].session
    PROVE  \A s : EpisodesOf(s)' = EpisodesOf(s)
<1>1. \A id \in DOMAIN log : log[id] \in DOMAIN said
  BY DEF Held
<1> QED BY <1>1 DEF EpisodesOf

\* So does a turn.
LEMMA ArchivedKept ==
    ASSUME log' = log
    PROVE  \A n : Archived(n)' = Archived(n)
BY DEF Archived

\* A step that leaves the windows and the log alone.
LEMMA WindowsSame ==
    ASSUME Held, Windows, Recent, log' = log, buffers' = buffers, born' = born,
           \A n \in DOMAIN said : n \in DOMAIN said' /\ said'[n].session = said[n].session,
           \A d \in Callers : calls[d].at = "compress" =>
               /\ calls'[d].at = "compress" /\ calls'[d].turn = calls[d].turn
               /\ calls[d].turn \in DOMAIN said
    PROVE  Windows' /\ Recent'
<1>1. \A s : EpisodesOf(s)' = EpisodesOf(s)
  BY EpisodesKept
<1>2. ASSUME NEW s \in DOMAIN buffers PROVE Whole(s)'
  <2>1. Pushed(s)' = Pushed(s)
    BY <1>1 DEF Pushed
  <2>2. Compressing(s) => Compressing(s)'
    <3> SUFFICES ASSUME NEW d \in Callers, calls[d].at = "compress",
                        said[calls[d].turn].session = s
                 PROVE  Compressing(s)'
      BY DEF Compressing
    <3>1. said'[calls'[d].turn].session = s
      OBVIOUS
    <3> QED BY <3>1 DEF Compressing
  <2>3. Whole(s)
    BY DEF Windows
  <2> QED BY <1>1, <2>1, <2>2, <2>3 DEF Whole
<1>3. Recent'
  BY <1>1 DEF Recent
<1> QED BY <1>2, <1>3 DEF Windows

\* A call stands where it did while what it relies on stays.
LEMMA OthersStand ==
    ASSUME ConversationInv, NEW d \in Callers, calls'[d] = calls[d], models' = models,
           HasTurn(d) => HasTurn(d)' /\ buffers' = buffers,
           \A n : n = calls[d].turn /\ n # 0 =>
               n \in DOMAIN said' /\ said'[n] = said[n] /\ Archived(n)' = Archived(n)
    PROVE  Stands(d)'
<1>1. Stands(d)
  BY DEF ConversationInv, Stations
<1> DEFINE n == calls[d].turn
<1>2. n # 0 => n \in DOMAIN said' /\ said'[n] = said[n] /\ Archived(calls[d].turn)' = Archived(n)
  <2> SUFFICES ASSUME n # 0 PROVE Archived(calls[d].turn)' = Archived(n)
    OBVIOUS
  <2>1. PICK m : m = n
    OBVIOUS
  <2>2. Archived(m)' = Archived(m)
    BY <2>1
  <2> QED BY <2>1, <2>2 DEF Archived
<1>3. calls[d].at = "compress" => Asked(d)'
  <2> SUFFICES ASSUME calls[d].at = "compress" PROVE Asked(d)'
    OBVIOUS
  <2>1. Asked(d) /\ HasTurn(d) /\ n # 0
    BY <1>1 DEF Stands
  <2>2. buffers' = buffers /\ said'[n] = said[n]
    BY <1>2, <2>1
  <2> QED BY <2>1, <2>2 DEF Asked
<1>4. calls[d].at \in {"compress", "recall", "learn"} => HasTurn(d)'
  BY <1>1 DEF Stands
<1> QED BY <1>1, <1>2, <1>3, <1>4 DEF Stands

\* While one call has its turn no other is past the archive.
LEMMA HeadStands ==
    ASSUME Stations, NEW c \in Callers, NEW d \in Callers, HasTurn(c), d # c
    PROVE  ~HasTurn(d) /\ calls[d].at \notin {"compress", "recall", "learn"}
<1>1. ~HasTurn(d)
  BY DEF HasTurn
<1> QED BY <1>1 DEF Stations, Stands

\* A call being compressed has said its turn.
LEMMA CompressHasTurn ==
    ASSUME Stations
    PROVE  \A d \in Callers : calls[d].at = "compress" => calls[d].turn \in DOMAIN said
BY DEF Stations, Stands

\* A free caller.
LEMMA NoCallIs ==
    /\ NoCall \in Call
    /\ NoCall.at = "none" /\ NoCall.turn = 0 /\ NoCall.hung = FALSE
<1>1. <<>> \in Seq(Message)
  OBVIOUS
<1> QED BY <1>1 DEF NoCall, Call

-----------------------------------------------------------------------------
(***************************************************************************)
(* The actions.                                                            *)
(***************************************************************************)
\* The invariant at the start,
LEMMA InitHolds == Init => ConversationInv
<1> SUFFICES ASSUME Init PROVE ConversationInv
  OBVIOUS
<1>1. calls = [c \in Callers |-> NoCall] /\ NoCall.at = "none" /\ NoCall.turn = 0
        /\ NoCall.hung = FALSE /\ NoCall \in Call
  BY NoCallIs DEF Init
<1>2. said = <<>> /\ log = <<>> /\ born = 0 /\ buffers = <<>> /\ line = <<>>
  BY DEF Init
<1>3. New = {}
  BY <1>1 DEF New
<1>4. Len(said) + Cardinality(New) <= MaxTurns
  BY <1>2, <1>3, FS_EmptySet, ConversationConstants
<1>5. models \in [chat : Providers, embedder : Providers, embeds : BOOLEAN]
  <2>1. PICK config \in Setups : models = CreateModels(config)
    BY DEF Init
  <2>2. config \in Configs /\ Starts(config)
    BY ConversationConstants
  <2>3. BuildChatModel(config) \in Providers
    BY <2>2 DEF BuildChatModel, Configs, Providers
  <2>4. BuildEmbedder(config) \in Providers
    <3>1. EffectiveEmbeddingProvider(config) \in Providers
      BY <2>2 DEF EffectiveEmbeddingProvider, Configs, Providers
    <3>2. BuildEmbedder(config) # "unconfigured"
      BY <2>2 DEF Starts
    <3> QED BY <3>1, <3>2 DEF BuildEmbedder
  <2>5. Embeds(config) \in BOOLEAN
    BY <2>2 DEF Embeds, Configs
  <2> QED BY <2>1, <2>3, <2>4, <2>5 DEF CreateModels
<1>6. DOMAIN buffers = {} /\ DOMAIN said = {} /\ DOMAIN line = {}
  BY <1>2
<1>7. calls \in [Callers -> Call]
  BY <1>1
<1>8. said \in Seq(Turn) /\ log \in Seq(DOMAIN said) /\ Len(log) = 0
  BY <1>2
<1>9. Held
  BY <1>2, <1>4, <1>5, <1>6, <1>7, <1>8, FS_EmptySet DEF Held
<1>10. InLine
  <2>1. ToSet(line) = {} /\ line \in Seq(Callers) /\ IsInjective(line)
    BY <1>2, <1>6 DEF ToSet, IsInjective
  <2> QED BY <1>1, <2>1 DEF InLine
<1>11. Once
  BY <1>6 DEF Once
<1>12. Stations
  BY <1>1 DEF Stations, Stands
<1>13. Windows /\ Recent
  BY <1>6 DEF Windows, Recent
<1> QED BY <1>9, <1>10, <1>11, <1>12, <1>13 DEF ConversationInv

\* and after each action.  Push:
LEMMA PushKeeps ==
    ASSUME ConversationInv, NEW c \in Callers, Push(c)
    PROVE  ConversationInv'
<1>1. PICK v \in Call :
        /\ v.at = "archive" /\ v.hung = FALSE
        /\ calls' = [calls EXCEPT ![c] = v]
        /\ \/ /\ v.turn = 0 /\ said' = said
              /\ Len(said) + Cardinality(New) < MaxTurns
           \/ /\ v.turn \in DOMAIN said
              /\ said[v.turn].became \in {"error", "lost"}
              /\ said' = [said EXCEPT ![v.turn].became = "open"]
  <2>1. <<>> \in Seq(Message) /\ DOMAIN said \subseteq Nat
    BY DEF ConversationInv, Held
  <2>2. CASE /\ Len(said) + Cardinality(New) < MaxTurns
             /\ calls' = [calls EXCEPT ![c] = [NoCall EXCEPT !.at = "archive"]]
             /\ said' = said
    <3> DEFINE v == [NoCall EXCEPT !.at = "archive"]
    <3>1. v \in Call /\ v.at = "archive" /\ v.hung = FALSE /\ v.turn = 0
      BY <2>1, NoCallIs DEF Call
    <3> QED BY <2>2, <3>1
  <2>3. ASSUME NEW n \in DOMAIN said, said[n].became \in {"error", "lost"},
               said' = [said EXCEPT ![n].became = "open"],
               calls' = [calls EXCEPT ![c] = [NoCall EXCEPT !.at = "archive", !.turn = n]]
        PROVE  \E v \in Call :
                 /\ v.at = "archive" /\ v.hung = FALSE
                 /\ calls' = [calls EXCEPT ![c] = v]
                 /\ v.turn \in DOMAIN said
                 /\ said[v.turn].became \in {"error", "lost"}
                 /\ said' = [said EXCEPT ![v.turn].became = "open"]
    <3> DEFINE v == [NoCall EXCEPT !.at = "archive", !.turn = n]
    <3>1. v \in Call /\ v.at = "archive" /\ v.hung = FALSE /\ v.turn = n
      BY <2>1, NoCallIs DEF Call
    <3> QED BY <2>3, <3>1
  <2> QED BY <2>2, <2>3 DEF Push
<1> DEFINE n == v.turn
<1>2. /\ calls[c].at \in {"none", "answered"} /\ line' = Append(line, c)
      /\ UNCHANGED <<log, buffers, models, born>>
  BY DEF Push
<1>3. /\ said \in Seq(Turn) /\ log \in Seq(DOMAIN said) /\ calls \in [Callers -> Call]
      /\ line \in Seq(Callers) /\ IsInjective(line) /\ c \notin ToSet(line)
  BY <1>2 DEF ConversationInv, Held, InLine
<1>4. /\ calls'[c] = v /\ calls' \in [Callers -> Call]
      /\ \A d \in Callers : d # c => calls'[d] = calls[d]
  BY <1>1, <1>3
<1>5. /\ line' \in Seq(Callers) /\ IsInjective(line') /\ ToSet(line') = ToSet(line) \cup {c}
      /\ line' # <<>> /\ (line # <<>> => Head(line') = Head(line))
  BY <1>2, <1>3, LineGrows
<1>6. /\ said' \in Seq(Turn) /\ DOMAIN said' = DOMAIN said /\ Len(said') = Len(said)
      /\ \A m \in DOMAIN said : /\ said'[m].session = said[m].session
                                /\ said'[m].doubted = said[m].doubted
                                /\ m # n => said'[m] = said[m]
      /\ n # 0 => said'[n].became = "open"
  <2>1. CASE said' = said /\ n = 0
    BY <1>3, <2>1
  <2>2. CASE n \in DOMAIN said /\ said' = [said EXCEPT ![n].became = "open"]
    <3>1. n \in 1 .. Len(said) /\ DOMAIN said = 1 .. Len(said) /\ said[n] \in Turn
            /\ \A m \in DOMAIN said : said[m] \in Turn
      BY <1>3, <2>2
    <3> DEFINE e == [said[n] EXCEPT !.became = "open"]
    <3>2. e \in Turn /\ e.session = said[n].session /\ e.doubted = said[n].doubted
            /\ e.became = "open"
      BY <3>1 DEF Turn
    <3>3. said' = [said EXCEPT ![n] = e]
      BY <2>2
    <3> HIDE DEF e
    <3>4. said' \in Seq(Turn) /\ Len(said') = Len(said)
            /\ \A m \in 1 .. Len(said) : said'[m] = IF m = n THEN e ELSE said[m]
      BY <1>3, <3>1, <3>2, <3>3, ExceptSeq
    <3>5. DOMAIN said' = DOMAIN said
      BY <3>1, <3>3
    <3> QED BY <3>1, <3>2, <3>4, <3>5
  <2> QED BY <1>1, <2>1, <2>2
<1>7. \A d \in Callers : d # c /\ calls[d].turn # 0 =>
         calls[d].turn \in DOMAIN said /\ calls[d].turn # n
  <2> SUFFICES ASSUME NEW d \in Callers, d # c, calls[d].turn # 0
               PROVE  calls[d].turn \in DOMAIN said /\ calls[d].turn # n
    OBVIOUS
  <2>1. calls[d].turn \in DOMAIN said /\ said[calls[d].turn].became = "open"
    BY DEF ConversationInv, Stations, Stands
  <2> QED BY <1>1, <2>1
<1>8. \A m : Archived(m)' = Archived(m)
  BY <1>2, ArchivedKept
<1>9. Held'
  <2>1. Len(said') + Cardinality(New') <= MaxTurns
    <3>0. IsFiniteSet(New) /\ Cardinality(New) \in Nat /\ Len(said) \in Nat /\ MaxTurns \in Nat
      BY <1>3, NewCounted, ConversationConstants DEF ConversationInv
    <3>1. CASE n = 0
      <4>1. c \notin New
        BY <1>2 DEF New
      <4>2. New' = New \cup {c}
        BY <1>1, <1>4, <3>1 DEF New
      <4>3. Cardinality(New') = Cardinality(New) + 1
        BY <3>0, <4>1, <4>2, FS_AddElement
      <4>4. Len(said) + Cardinality(New) < MaxTurns
        <5>1. 0 \notin DOMAIN said
          BY <1>3
        <5> QED BY <1>1, <3>1, <5>1
      <4> QED BY <1>6, <3>0, <4>3, <4>4
    <3>2. CASE n # 0
      <4>1. New' = New
        BY <1>1, <1>2, <1>4, <3>2 DEF New
      <4> QED BY <1>6, <4>1 DEF ConversationInv, Held
    <3> QED BY <3>1, <3>2
  <2> QED BY <1>2, <1>4, <1>6, <2>1 DEF ConversationInv, Held
<1>10. InLine'
  <2>1. ASSUME NEW d \in Callers
        PROVE  calls'[d].at \in {"none", "answered"} <=> d \notin ToSet(line')
    <3>1. CASE d = c
      BY <1>1, <1>4, <1>5, <3>1
    <3>2. CASE d # c
      BY <1>4, <1>5, <3>2 DEF ConversationInv, InLine
    <3> QED BY <3>1, <3>2
  <2>2. ASSUME NEW d \in Callers, NEW e \in Callers, d # e, calls'[d].turn = calls'[e].turn
        PROVE  calls'[d].turn = 0
    <3>1. CASE d = c
      BY <1>4, <1>7, <2>2, <3>1
    <3>2. CASE e = c
      BY <1>4, <1>7, <2>2, <3>2
    <3>3. CASE d # c /\ e # c
      BY <1>4, <2>2, <3>3 DEF ConversationInv, InLine
    <3> QED BY <3>1, <3>2, <3>3
  <2> QED BY <1>5, <2>1, <2>2 DEF InLine
<1>11. Once'
  <2> SUFFICES ASSUME NEW m \in DOMAIN said
               PROVE  /\ said'[m].became = "lost" => said'[m].doubted = TRUE
                      /\ said'[m].doubted = FALSE =>
                            /\ \A i, j \in Archived(m) : i = j
                            /\ said'[m].became = "ok" => Archived(m) # {}
                            /\ said'[m].became = "error" => Archived(m) = {}
    BY <1>6, <1>8 DEF Once
  <2>1. CASE m = n
    <3>1. m # 0
      BY <1>3
    <3> QED BY <1>6, <2>1, <3>1 DEF ConversationInv, Once
  <2>2. CASE m # n
    BY <1>6, <2>2 DEF ConversationInv, Once
  <2> QED BY <2>1, <2>2
<1>12. Stations'
  <2> SUFFICES ASSUME NEW d \in Callers PROVE Stands(d)'
    BY DEF Stations
  <2>1. CASE d = c
    <3>1. n # 0 => (said[n].doubted = FALSE => Archived(n) = {})
      BY <1>1 DEF ConversationInv, Once
    <3>2. n # 0 => Archived(calls[d].turn)' = Archived(n)
      BY <1>2, <1>4, <2>1 DEF Archived
    <3>3. n # 0 => n \in DOMAIN said
      BY <1>1
    <3> QED BY <1>1, <1>4, <1>6, <2>1, <3>1, <3>2, <3>3 DEF Stands
  <2>2. CASE d # c
    <3>1. HasTurn(d) => HasTurn(d)' /\ buffers' = buffers
      BY <1>2, <1>5 DEF HasTurn
    <3> QED BY <1>2, <1>4, <1>6, <1>7, <1>8, <2>2, <3>1, OthersStand
  <2> QED BY <2>1, <2>2
<1>13. Windows' /\ Recent'
  <2>1. \A d \in Callers : calls[d].at = "compress" => calls'[d] = calls[d]
    BY <1>2, <1>4
  <2>2. \A d \in Callers : calls[d].at = "compress" => calls[d].turn \in DOMAIN said
    BY CompressHasTurn DEF ConversationInv
  <2> QED BY <1>2, <1>6, <2>1, <2>2, WindowsSame DEF ConversationInv
<1> QED BY <1>9, <1>10, <1>11, <1>12, <1>13 DEF ConversationInv

\* How a call about turn n ends: with an error before its archive, or an answer after.
Ended(c, n, reply) ==
    /\ calls[c].at # "compress"
    /\ reply \in Call /\ reply.turn = 0 /\ reply.hung = FALSE
    /\ reply.at \in {"none", "answered"}
    /\ reply.at = "answered" =>
          reply.learningError = TRUE \/ (models.chat # "none" /\ reply.missed = 0)
    /\ Answer(c, reply)
    /\ UNCHANGED <<log, buffers, models, born>>
    /\ said' \in Seq(Turn) /\ n \in DOMAIN said'
    /\ \A m \in DOMAIN said :
          /\ m \in DOMAIN said' /\ said'[m].session = said[m].session
          /\ said'[m].doubted = said[m].doubted
          /\ m # n => said'[m] = said[m]
    /\ \A m \in DOMAIN said' : m \in DOMAIN said \/ m = n
    /\ said'[n].became \in {"ok", "error"}
    /\ said'[n].doubted = FALSE =>
          /\ said'[n].became = "ok" => Archived(n) # {}
          /\ said'[n].became = "error" => Archived(n) = {}
    /\ \A d \in Callers : d # c /\ calls[d].turn # 0 => calls[d].turn # n
    /\ Len(said') <= Len(said) + (IF c \in New THEN 1 ELSE 0)

\* A call that ends keeps the invariant.
LEMMA EndKeeps ==
    ASSUME ConversationInv, NEW c \in Callers, NEW n, NEW reply, HasTurn(c), Ended(c, n, reply)
    PROVE  ConversationInv'
<1>1. /\ calls' = [calls EXCEPT ![c] = reply] /\ line' = Tail(line)
      /\ UNCHANGED <<log, buffers, models, born>>
  BY DEF Ended, Answer
<1>2. /\ said \in Seq(Turn) /\ log \in Seq(DOMAIN said) /\ calls \in [Callers -> Call]
      /\ line \in Seq(Callers) /\ IsInjective(line) /\ line # <<>> /\ Head(line) = c
  BY DEF ConversationInv, Held, InLine, HasTurn
<1>3. /\ calls'[c] = reply /\ calls' \in [Callers -> Call]
      /\ \A d \in Callers : d # c => calls'[d] = calls[d]
  BY <1>1, <1>2 DEF Ended
<1>4. /\ line' \in Seq(Callers) /\ IsInjective(line') /\ ToSet(line') = ToSet(line) \ {c}
  BY <1>1, <1>2, LineMoves
<1>5. \A m : Archived(m)' = Archived(m)
  BY <1>1, ArchivedKept
<1>6. Held'
  <2>1. Len(said') + Cardinality(New') <= MaxTurns
    <3>0. IsFiniteSet(New) /\ Cardinality(New) \in Nat /\ Len(said) \in Nat
            /\ Len(said') \in Nat /\ MaxTurns \in Nat
            /\ Len(said) + Cardinality(New) <= MaxTurns
      BY <1>2, NewCounted, ConversationConstants DEF ConversationInv, Held, Ended
    <3>1. New' = New \ {c}
      BY <1>3 DEF New, Ended
    <3>2. Cardinality(New') = IF c \in New THEN Cardinality(New) - 1 ELSE Cardinality(New)
      BY <3>0, <3>1, FS_RemoveElement
    <3>3. Len(said') <= Len(said) + (IF c \in New THEN 1 ELSE 0)
      BY DEF Ended
    <3> QED BY <3>0, <3>2, <3>3
  <2>2. log' \in Seq(DOMAIN said')
    <3>1. DOMAIN said \subseteq DOMAIN said'
      BY DEF Ended
    <3> QED BY <1>1, <1>2, <3>1, SeqMonotonic
  <2>3. said' \in Seq(Turn)
    BY DEF Ended
  <2> QED BY <1>1, <1>3, <2>1, <2>2, <2>3 DEF ConversationInv, Held
<1>7. InLine'
  <2>1. ASSUME NEW d \in Callers
        PROVE  calls'[d].at \in {"none", "answered"} <=> d \notin ToSet(line')
    <3>1. CASE d = c
      BY <1>3, <1>4, <3>1 DEF Ended
    <3>2. CASE d # c
      BY <1>3, <1>4, <3>2 DEF ConversationInv, InLine
    <3> QED BY <3>1, <3>2
  <2>2. ASSUME NEW d \in Callers, NEW e \in Callers, d # e, calls'[d].turn = calls'[e].turn
        PROVE  calls'[d].turn = 0
    <3>1. reply.turn = 0
      BY DEF Ended
    <3>2. CASE d = c \/ e = c
      BY <1>3, <2>2, <3>1, <3>2
    <3>3. CASE d # c /\ e # c
      BY <1>3, <2>2, <3>3 DEF ConversationInv, InLine
    <3> QED BY <3>2, <3>3
  <2> QED BY <1>4, <2>1, <2>2 DEF InLine
<1>8. Once'
  <2> SUFFICES ASSUME NEW m \in DOMAIN said'
               PROVE  /\ said'[m].became = "lost" => said'[m].doubted = TRUE
                      /\ said'[m].doubted = FALSE =>
                            /\ \A i, j \in Archived(m) : i = j
                            /\ said'[m].became = "ok" => Archived(m) # {}
                            /\ said'[m].became = "error" => Archived(m) = {}
    BY <1>5 DEF Once
  <2>1. said'[m].doubted = FALSE => \A i, j \in Archived(m) : i = j
    <3>1. CASE m \in DOMAIN said
      BY <3>1 DEF ConversationInv, Once, Ended
    <3>2. CASE m \notin DOMAIN said
      <4>1. Archived(m) = {}
        BY <1>2, <3>2 DEF Archived
      <4> QED BY <4>1
    <3> QED BY <3>1, <3>2
  <2>2. CASE m = n
    BY <2>1, <2>2 DEF Ended
  <2>3. CASE m # n
    <3>1. m \in DOMAIN said /\ said'[m] = said[m]
      BY <2>3 DEF Ended
    <3> QED BY <3>1 DEF ConversationInv, Once
  <2> QED BY <2>2, <2>3
<1>9. Stations'
  <2> SUFFICES ASSUME NEW d \in Callers PROVE Stands(d)'
    BY DEF Stations
  <2>1. CASE d = c
    BY <1>1, <1>3, <2>1 DEF Stands, Ended
  <2>2. CASE d # c
    <3>1. ~HasTurn(d)
      BY <2>2, HeadStands DEF ConversationInv
    <3>2. \A m : m = calls[d].turn /\ m # 0 => m \in DOMAIN said /\ m # n
      BY <2>2 DEF Ended, ConversationInv, Stations, Stands
    <3>3. \A m : m = calls[d].turn /\ m # 0 =>
             m \in DOMAIN said' /\ said'[m] = said[m] /\ Archived(m)' = Archived(m)
      BY <1>5, <3>2 DEF Ended
    <3> QED BY <1>1, <1>3, <2>2, <3>1, <3>3, OthersStand
  <2> QED BY <2>1, <2>2
<1>10. Windows' /\ Recent'
  <2>1. \A d \in Callers : calls[d].at = "compress" => calls'[d] = calls[d]
    BY <1>3 DEF Ended
  <2>2. \A d \in Callers : calls[d].at = "compress" => calls[d].turn \in DOMAIN said
    BY CompressHasTurn DEF ConversationInv
  <2>3. \A m \in DOMAIN said : m \in DOMAIN said' /\ said'[m].session = said[m].session
    BY DEF Ended
  <2> QED BY <1>1, <2>1, <2>2, <2>3, WindowsSame DEF ConversationInv
<1> QED BY <1>6, <1>7, <1>8, <1>9, <1>10 DEF ConversationInv

\* So does one that goes on, its window as it was,
LEMMA MovesKeeps ==
    ASSUME ConversationInv, NEW c \in Callers, NEW v \in Call, HasTurn(c),
           calls' = [calls EXCEPT ![c] = v],
           UNCHANGED <<said, log, buffers, line, models, born>>,
           calls[c].at \in {"compress", "recall", "learn"},
           v.at \in {"compress", "recall", "learn"},
           v.turn = calls[c].turn, v.taken = calls[c].taken, v.prior = calls[c].prior,
           v.at = "compress" <=> calls[c].at = "compress",
           v.at = "learn" => models.chat # "none"
    PROVE  ConversationInv'
<1>1. /\ calls'[c] = v /\ calls' \in [Callers -> Call]
      /\ \A d \in Callers : d # c => calls'[d] = calls[d]
  BY DEF ConversationInv, Held
<1>2. \A d \in Callers : calls'[d].turn = calls[d].turn
  BY <1>1
<1>3. Held'
  <2>1. New' = New
    BY <1>1 DEF New
  <2> QED BY <1>1, <2>1 DEF ConversationInv, Held
<1>4. InLine'
  BY <1>1, <1>2 DEF ConversationInv, InLine
<1>5. \A n : Archived(n)' = Archived(n)
  BY ArchivedKept
<1>6. Once'
  BY <1>5 DEF ConversationInv, Once
<1>7. Stations'
  <2> SUFFICES ASSUME NEW d \in Callers PROVE Stands(d)'
    BY DEF Stations
  <2>1. CASE d = c
    <3>1. Stands(c)
      BY DEF ConversationInv, Stations
    <3>2. Archived(calls[c].turn)' = Archived(calls[c].turn)
      BY <1>2 DEF Archived
    <3>3. v.at = "compress" => Asked(c)'
      BY <1>1, <3>1 DEF Stands, Asked
    <3>4. HasTurn(c)'
      BY DEF HasTurn
    <3> QED BY <1>1, <2>1, <3>1, <3>2, <3>3, <3>4 DEF Stands
  <2>2. CASE d # c
    <3>1. HasTurn(d) => HasTurn(d)'
      BY DEF HasTurn
    <3>2. \A n : n = calls[d].turn /\ n # 0 => n \in DOMAIN said
      BY DEF ConversationInv, Stations, Stands
    <3> QED BY <1>1, <1>5, <2>2, <3>1, <3>2, OthersStand
  <2> QED BY <2>1, <2>2
<1>8. Windows' /\ Recent'
  <2>1. \A d \in Callers : calls[d].at = "compress" =>
           calls'[d].at = "compress" /\ calls'[d].turn = calls[d].turn
    BY <1>1
  <2>2. \A d \in Callers : calls[d].at = "compress" => calls[d].turn \in DOMAIN said
    BY CompressHasTurn DEF ConversationInv
  <2> QED BY <2>1, <2>2, WindowsSame DEF ConversationInv
<1> QED BY <1>3, <1>4, <1>6, <1>7, <1>8 DEF ConversationInv

\* and one that makes its window b.
Rewritten(c, b) ==
    LET session == said[calls[c].turn].session
    IN /\ DOMAIN buffers' = DOMAIN buffers
       /\ \A s \in DOMAIN buffers : buffers'[s] = IF s = session THEN b ELSE buffers[s]

\* (A window no larger than the recent messages.)
LEMMA RewriteKeeps ==
    ASSUME ConversationInv, NEW c \in Callers, NEW v \in Call, NEW b, HasTurn(c),
           calls[c].at = "compress",
           calls' = [calls EXCEPT ![c] = v],
           v.at = "recall", v.turn = calls[c].turn,
           UNCHANGED <<said, log, line, models, born>>,
           Rewritten(c, b),
           Faithful(b, Pushed(said[calls[c].turn].session)),
           Len(b.messages) <= KeepRecent,
           b.since = buffers[said[calls[c].turn].session].since,
           b.lastUsed = buffers[said[calls[c].turn].session].lastUsed
    PROVE  ConversationInv'
<1> DEFINE session == said[calls[c].turn].session
<1>1. /\ calls'[c] = v /\ calls' \in [Callers -> Call]
      /\ \A d \in Callers : d # c => calls'[d] = calls[d]
  BY DEF ConversationInv, Held
<1>2. \A d \in Callers : calls'[d].turn = calls[d].turn
  BY <1>1
<1>3. session \in DOMAIN buffers /\ DOMAIN buffers' = DOMAIN buffers /\ buffers'[session] = b
        /\ \A s \in DOMAIN buffers : s # session => buffers'[s] = buffers[s]
  BY DEF Rewritten, ConversationInv, Stations, Stands, Asked
<1>4. Held'
  <2>1. New' = New
    BY <1>1 DEF New
  <2> QED BY <1>1, <1>3, <2>1 DEF ConversationInv, Held
<1>5. InLine'
  BY <1>1, <1>2 DEF ConversationInv, InLine
<1>6. \A n : Archived(n)' = Archived(n)
  BY ArchivedKept
<1>7. Once'
  BY <1>6 DEF ConversationInv, Once
<1>8. Stations'
  <2> SUFFICES ASSUME NEW d \in Callers PROVE Stands(d)'
    BY DEF Stations
  <2>1. CASE d = c
    <3>1. Stands(c)
      BY DEF ConversationInv, Stations
    <3>2. Archived(calls[c].turn)' = Archived(calls[c].turn)
      BY <1>2 DEF Archived
    <3>3. HasTurn(c)'
      BY DEF HasTurn
    <3> QED BY <1>1, <2>1, <3>1, <3>2, <3>3 DEF Stands
  <2>2. CASE d # c
    <3>1. ~HasTurn(d)
      BY <2>2, HeadStands DEF ConversationInv
    <3>2. \A n : n = calls[d].turn /\ n # 0 => n \in DOMAIN said
      BY DEF ConversationInv, Stations, Stands
    <3> QED BY <1>1, <1>6, <2>2, <3>1, <3>2, OthersStand
  <2> QED BY <2>1, <2>2
<1>9. \A s : EpisodesOf(s)' = EpisodesOf(s)
  BY EpisodesKept DEF ConversationInv
<1>10. Windows'
  <2> SUFFICES ASSUME NEW s \in DOMAIN buffers PROVE Whole(s)'
    BY <1>3 DEF Windows
  <2>1. Whole(s)
    BY DEF ConversationInv, Windows
  <2>2. buffers'[s].since = buffers[s].since /\ buffers'[s].lastUsed = buffers[s].lastUsed
    BY <1>3
  <2>3. Pushed(s)' = Pushed(s)
    BY <1>9, <2>2 DEF Pushed
  <2>4. CASE s = session
    BY <1>3, <1>9, <2>1, <2>2, <2>3, <2>4 DEF Whole
  <2>5. CASE s # session
    <3>1. ~Compressing(s)
      <4> SUFFICES ASSUME NEW d \in Callers, calls[d].at = "compress",
                          said[calls[d].turn].session = s
                   PROVE  FALSE
        BY DEF Compressing
      <4>1. d # c
        BY <2>5
      <4> QED BY <4>1, HeadStands DEF ConversationInv
    <3> QED BY <1>3, <1>9, <2>1, <2>2, <2>3, <2>5, <3>1 DEF Whole
  <2> QED BY <2>4, <2>5
<1>11. Recent'
  <2>1. \A s \in DOMAIN buffers : buffers'[s].lastUsed = buffers[s].lastUsed
    BY <1>3
  <2> QED BY <1>3, <1>9, <2>1 DEF ConversationInv, Recent
<1> QED BY <1>4, <1>5, <1>7, <1>8, <1>10, <1>11 DEF ConversationInv

\* The two ways the windows are lost: between calls, or with the process.
Stopped == line = <<>> /\ UNCHANGED <<said, calls, line>>
Died ==
    /\ line' = <<>> /\ calls' = [c \in Callers |-> NoCall]
    /\ said' = [n \in DOMAIN said |->
                   IF said[n].became = "open"
                   THEN [said[n] EXCEPT !.became = "lost", !.doubted = TRUE] ELSE said[n]]

\* Switch and Restart.
LEMMA EmptiedKeeps ==
    ASSUME ConversationInv, Emptied, UNCHANGED <<log, models>>,
           Stopped \/ Died
    PROVE  ConversationInv'
<1>1. /\ said \in Seq(Turn) /\ log \in Seq(DOMAIN said) /\ calls \in [Callers -> Call]
      /\ line \in Seq(Callers) /\ IsInjective(line)
  BY DEF ConversationInv, Held, InLine
<1>2. line' = <<>> /\ ToSet(line') = {} /\ IsInjective(line') /\ line' \in Seq(Callers)
  <2>1. line' = <<>>
    BY DEF Stopped, Died
  <2> QED BY <2>1 DEF ToSet, IsInjective
<1>3. DOMAIN buffers' = {} /\ born' = Len(log')
  BY DEF Emptied
<1>4. calls' \in [Callers -> Call] /\ \A c \in Callers :
         /\ calls'[c].at \in {"none", "answered"} /\ calls'[c].turn = 0 /\ calls'[c].hung = FALSE
         /\ calls'[c].at = "answered" => calls'[c] = calls[c]
  <2>1. CASE Stopped
    <3>0. line = <<>> /\ calls' = calls
      BY <2>1 DEF Stopped
    <3>1. ToSet(line) = {}
      BY <3>0 DEF ToSet
    <3>2. \A c \in Callers : calls[c].at \in {"none", "answered"}
      BY <3>1 DEF ConversationInv, InLine
    <3>3. \A c \in Callers : calls[c].turn = 0 /\ calls[c].hung # TRUE /\ calls[c].hung \in BOOLEAN
      BY <1>1, <3>2 DEF ConversationInv, Stations, Stands, Call
    <3> QED BY <1>1, <3>0, <3>2, <3>3
  <2>2. CASE Died
    <3>1. calls' = [c \in Callers |-> NoCall]
      BY <2>2 DEF Died
    <3> QED BY <3>1, NoCallIs
  <2> QED BY <2>1, <2>2
<1>5. /\ said' \in Seq(Turn) /\ DOMAIN said' = DOMAIN said /\ Len(said') = Len(said)
      /\ \A n \in DOMAIN said : \/ said'[n] = said[n]
                                \/ said'[n].became = "lost" /\ said'[n].doubted = TRUE
  <2>1. CASE Stopped
    <3>1. said' = said
      BY <2>1 DEF Stopped
    <3> QED BY <1>1, <3>1
  <2>2. CASE Died
    <3>1. DOMAIN said = 1 .. Len(said) /\ Len(said) \in Nat
            /\ \A n \in DOMAIN said : said[n] \in Turn
      BY <1>1
    <3>2. ASSUME NEW n \in DOMAIN said
          PROVE  /\ said'[n] \in Turn
                 /\ \/ said'[n] = said[n]
                    \/ said'[n].became = "lost" /\ said'[n].doubted = TRUE
      <4>1. CASE said[n].became = "open"
        BY <2>2, <3>1, <4>1 DEF Turn, Died
      <4>2. CASE said[n].became # "open"
        BY <2>2, <3>1, <4>2 DEF Died
      <4> QED BY <4>1, <4>2
    <3>3. said' \in [1 .. Len(said) -> Turn] /\ DOMAIN said' = 1 .. Len(said)
      BY <2>2, <3>1, <3>2 DEF Died
    <3>4. said' \in Seq(Turn)
      BY <3>1, <3>3
    <3>5. Len(said') = Len(said)
      BY <3>1, <3>3, <3>4
    <3> QED BY <3>1, <3>2, <3>3, <3>4, <3>5
  <2> QED BY <2>1, <2>2
<1>6. Held'
  <2>1. New' = {}
    BY <1>4 DEF New
  <2>2. Len(said') + Cardinality(New') <= MaxTurns
    <3>1. Cardinality(New) \in Nat /\ Len(said) \in Nat /\ MaxTurns \in Nat
            /\ Len(said) + Cardinality(New) <= MaxTurns
      BY <1>1, NewCounted, ConversationConstants DEF ConversationInv, Held
    <3>2. Cardinality(New') = 0
      BY <2>1, FS_EmptySet
    <3> QED BY <1>5, <3>1, <3>2
  <2>3. Len(log) \in Nat /\ log' = log
    BY <1>1
  <2> QED BY <1>1, <1>3, <1>4, <1>5, <2>2, <2>3, FS_EmptySet DEF ConversationInv, Held
<1>7. InLine'
  BY <1>2, <1>4 DEF InLine
<1>8. Once'
  <2>1. \A n : Archived(n)' = Archived(n)
    BY ArchivedKept
  <2> SUFFICES ASSUME NEW m \in DOMAIN said
               PROVE  /\ said'[m].became = "lost" => said'[m].doubted = TRUE
                      /\ said'[m].doubted = FALSE =>
                            /\ \A i, j \in Archived(m) : i = j
                            /\ said'[m].became = "ok" => Archived(m) # {}
                            /\ said'[m].became = "error" => Archived(m) = {}
    BY <1>5, <2>1 DEF Once
  <2>2. CASE said'[m] = said[m]
    BY <2>2 DEF ConversationInv, Once
  <2>3. CASE said'[m].became = "lost" /\ said'[m].doubted = TRUE
    BY <2>3
  <2> QED BY <1>5, <2>2, <2>3
<1>9. Stations'
  <2> SUFFICES ASSUME NEW c \in Callers PROVE Stands(c)'
    BY DEF Stations
  <2>1. calls'[c].at = "answered" =>
           calls'[c].learningError = TRUE \/ (models.chat # "none" /\ calls'[c].missed = 0)
    BY <1>4 DEF ConversationInv, Stations, Stands
  <2> QED BY <1>4, <2>1 DEF Stands
<1>10. Windows' /\ Recent'
  BY <1>3 DEF Windows, Recent
<1> QED BY <1>6, <1>7, <1>8, <1>9, <1>10 DEF ConversationInv

\* A call that has its turn: a new one, or one said before and archived nowhere.
LEMMA Sayings ==
    ASSUME ConversationInv, NEW c \in Callers, calls[c].at = "archive", NEW turns \in Saying(c)
    PROVE  /\ turns \in Seq(Turn) /\ Number(c) \in DOMAIN turns
           /\ \A m \in DOMAIN said : m \in DOMAIN turns /\ turns[m] = said[m]
           /\ \A m \in DOMAIN turns : m \in DOMAIN said \/ m = Number(c)
           /\ turns[Number(c)].became = "open"
           /\ turns[Number(c)].doubted = FALSE => Archived(Number(c)) = {}
           /\ Len(turns) = Len(said) + (IF c \in New THEN 1 ELSE 0)
           /\ \A d \in Callers : d # c /\ calls[d].turn # 0 => calls[d].turn # Number(c)
<1> DEFINE n == Number(c)
<1>1. /\ said \in Seq(Turn) /\ log \in Seq(DOMAIN said) /\ calls \in [Callers -> Call]
      /\ calls[c].turn \in Nat /\ Len(said) \in Nat /\ DOMAIN said = 1 .. Len(said)
  <2>1. said \in Seq(Turn) /\ log \in Seq(DOMAIN said) /\ calls \in [Callers -> Call]
    BY DEF ConversationInv, Held
  <2>2. calls[c].turn \in Nat
    BY <2>1 DEF Call
  <2> QED BY <2>1, <2>2
<1>2. \A d \in Callers : calls[d].turn # 0 => calls[d].turn \in DOMAIN said
  BY DEF ConversationInv, Stations, Stands
<1>3. CASE calls[c].turn = 0
  <2>1. PICK s \in Sessions, l \in Lengths : turns = Opened(s, l)
    BY <1>3 DEF Saying
  <2> DEFINE x == [session |-> s, length |-> l, doubted |-> FALSE, became |-> "open"]
  <2>2. x \in Turn /\ x.became = "open"
    BY DEF Turn
  <2> HIDE DEF x
  <2>3. /\ turns \in Seq(Turn) /\ Len(turns) = Len(said) + 1 /\ turns[Len(said) + 1] = x
        /\ \A m \in 1 .. Len(said) : turns[m] = said[m]
        /\ DOMAIN turns = 1 .. Len(said) + 1
    BY <1>1, <2>1, <2>2, AppendProperties DEF x, Opened
  <2>4. Number(c) = Len(said) + 1 /\ c \in New
    BY <1>3 DEF Number, New
  <2>5. Archived(Number(c)) = {}
    <3>1. \A id \in DOMAIN log : log[id] \in 1 .. Len(said)
      BY <1>1
    <3> QED BY <1>1, <2>4, <3>1 DEF Archived
  <2>6. \A d \in Callers : d # c /\ calls[d].turn # 0 => calls[d].turn # Number(c)
    BY <1>1, <1>2, <2>4
  <2> QED BY <1>1, <2>2, <2>3, <2>4, <2>5, <2>6
<1>4. CASE calls[c].turn # 0
  <2>1. calls[c].turn > 0
    BY <1>1, <1>4
  <2>2. turns = said /\ Number(c) = calls[c].turn /\ c \notin New
    BY <1>4, <2>1 DEF Saying, Number, New
  <2>3. /\ calls[c].turn \in DOMAIN said
        /\ said[calls[c].turn].became = "open"
        /\ said[calls[c].turn].doubted = FALSE => Archived(calls[c].turn) = {}
    BY <1>4 DEF ConversationInv, Stations, Stands
  <2>4. \A d \in Callers : d # c /\ calls[d].turn # 0 => calls[d].turn # calls[c].turn
    BY DEF ConversationInv, InLine
  <2> QED BY <1>1, <2>2, <2>3, <2>4
<1> QED BY <1>3, <1>4

\* ArchiveFails.
LEMMA ArchiveFailsKeeps ==
    ASSUME ConversationInv, NEW c \in Callers, ArchiveFails(c)
    PROVE  ConversationInv'
<1>1. PICK turns \in Saying(c) : said' = [turns EXCEPT ![Number(c)].became = "error"]
  BY DEF ArchiveFails
<1>2. /\ calls[c].at = "archive" /\ HasTurn(c) /\ Answer(c, NoCall)
      /\ UNCHANGED <<log, buffers, models, born>>
  BY DEF ArchiveFails, At
<1>3. /\ turns \in Seq(Turn) /\ Number(c) \in DOMAIN turns
      /\ \A m \in DOMAIN said : m \in DOMAIN turns /\ turns[m] = said[m]
      /\ \A m \in DOMAIN turns : m \in DOMAIN said \/ m = Number(c)
      /\ turns[Number(c)].doubted = FALSE => Archived(Number(c)) = {}
      /\ Len(turns) = Len(said) + (IF c \in New THEN 1 ELSE 0)
      /\ \A d \in Callers : d # c /\ calls[d].turn # 0 => calls[d].turn # Number(c)
  BY <1>2, Sayings
<1> DEFINE n == Number(c)
           e == [turns[n] EXCEPT !.became = "error"]
<1>4. n \in 1 .. Len(turns) /\ DOMAIN turns = 1 .. Len(turns) /\ turns[n] \in Turn
  BY <1>3
<1>5. e \in Turn /\ e.session = turns[n].session /\ e.doubted = turns[n].doubted
        /\ e.became = "error"
  BY <1>4 DEF Turn
<1>6. said' = [turns EXCEPT ![n] = e]
  BY <1>1
<1> HIDE DEF e, n
<1>7. said' \in Seq(Turn) /\ Len(said') = Len(turns) /\ DOMAIN said' = DOMAIN turns
        /\ \A m \in DOMAIN turns : said'[m] = IF m = n THEN e ELSE turns[m]
  <2>1. said' \in Seq(Turn) /\ Len(said') = Len(turns)
          /\ \A m \in 1 .. Len(turns) : said'[m] = IF m = n THEN e ELSE turns[m]
    BY <1>3, <1>4, <1>5, <1>6, ExceptSeq
  <2>2. DOMAIN said' = DOMAIN turns
    BY <1>6
  <2> QED BY <1>4, <2>1, <2>2
<1>8. \A m \in DOMAIN said :
          /\ m \in DOMAIN said' /\ said'[m].session = said[m].session
          /\ said'[m].doubted = said[m].doubted
          /\ m # n => said'[m] = said[m]
  BY <1>3, <1>5, <1>7
<1>9. Len(said') <= Len(said) + (IF c \in New THEN 1 ELSE 0)
  <2>1. Len(said') \in Nat
    BY <1>7
  <2> QED BY <1>3, <1>7, <2>1
<1>10. n = Number(c)
  BY DEF n
<1>11. Ended(c, n, NoCall)
  BY <1>2, <1>3, <1>4, <1>5, <1>7, <1>8, <1>9, <1>10, NoCallIs DEF Ended
<1> QED BY <1>2, <1>11, EndKeeps

\* Whoever is evicted was used before whoever stays: fewer than MaxSessions were
\* used after one that stays, and after an earlier one at least as many.
LEMMA EvictionFair ==
    ASSUME ConversationInv, NEW keep, NEW idle \in Idle,
           NEW s \in EvictSessions(keep, idle), s # keep,
           NEW t \in DOMAIN buffers, t \notin EvictSessions(keep, idle)
    PROVE  buffers[t].lastUsed < buffers[s].lastUsed
<1> DEFINE mine == {keep} \cap DOMAIN buffers
           others == DOMAIN buffers \ (idle \cup mine)
           After(x) == {y \in others : UsedAfter(y, x)}
           Used(x) == buffers[x].lastUsed
<1>1. EvictSessions(keep, idle)
        = mine \cup {x \in others : Cardinality(After(x)) + Cardinality(mine) < MaxSessions}
  BY DEF EvictSessions
<1>2. s \in others /\ Cardinality(After(s)) + Cardinality(mine) < MaxSessions
  BY <1>1
<1>3. \A x \in DOMAIN buffers : Used(x) \in Nat
  BY DEF ConversationInv, Windows, Whole, Faithful, Buffer
<1>4. s \in DOMAIN buffers /\ t # s /\ t # keep
  BY <1>1, <1>2
<1>5. Used(s) # Used(t)
  BY <1>4 DEF ConversationInv, Windows, Whole, EpisodesOf
<1>6. CASE t \in idle
  <2>1. PICK r \in DOMAIN buffers : idle = {x \in DOMAIN buffers : x = r \/ UsedAfter(r, x)}
    BY <1>6 DEF Idle
  <2>2. Used(t) <= Used(r) /\ ~(Used(r) > Used(s))
    BY <1>2, <1>3, <1>6, <2>1 DEF UsedAfter
  <2> QED BY <1>3, <1>4, <1>5, <2>1, <2>2
<1>7. CASE t \notin idle
  <2>1. t \in others /\ ~(Cardinality(After(t)) + Cardinality(mine) < MaxSessions)
    BY <1>1, <1>4, <1>7
  <2>2. SUFFICES ASSUME Used(t) > Used(s) PROVE FALSE
    BY <1>3, <1>4, <1>5
  <2>3. After(t) \subseteq After(s)
    BY <1>3, <1>4, <2>2 DEF UsedAfter
  <2>4. IsFiniteSet(DOMAIN buffers)
    BY DEF ConversationInv, Held
  <2>5. IsFiniteSet(After(s)) /\ IsFiniteSet(mine)
    <3>1. After(s) \subseteq DOMAIN buffers /\ mine \subseteq DOMAIN buffers
      OBVIOUS
    <3> HIDE DEF After, mine
    <3> QED BY <2>4, <3>1, FS_Subset
  <2>6. IsFiniteSet(After(t)) /\ Cardinality(After(t)) <= Cardinality(After(s))
    <3> HIDE DEF After
    <3> QED BY <2>3, <2>5, FS_Subset
  <2>7. Cardinality(After(t)) \in Nat /\ Cardinality(After(s)) \in Nat /\ Cardinality(mine) \in Nat
    <3> HIDE DEF After, mine
    <3> QED BY <2>5, <2>6, FS_CardinalityType
  <2> HIDE DEF After, mine, others
  <2> QED BY <1>2, <2>1, <2>6, <2>7, ConversationConstants
<1> QED BY <1>6, <1>7

\* What Archive does, its local definitions as parameters.
Buffered(c, turns, kept, u, old, grown, full, asks) ==
    /\ said' = turns
    /\ log' = Append(log, Number(c))
    /\ buffers' = [s \in kept \cup {u} |->
           CASE s # u -> buffers[s]
             [] s = u /\ full /\ models.chat = "none" -> TrimToRecent(grown)
             [] OTHER -> grown]
    /\ calls' = [calls EXCEPT ![c].turn = Number(c),
                              ![c].at = IF asks THEN "compress" ELSE "recall",
                              ![c].taken = IF asks THEN Older(grown) ELSE <<>>,
                              ![c].prior = IF asks THEN grown.summary ELSE {}]

\* Archive.
LEMMA ArchiveKeeps ==
    ASSUME ConversationInv, NEW c \in Callers, Archive(c)
    PROVE  ConversationInv'
<1>1. PICK turns \in Saying(c), idle \in Idle :
        LET id == Len(log) + 1
            turn == turns[Number(c)]
            kept == EvictSessions(turn.session, idle)
            old == IF turn.session \in kept THEN buffers[turn.session] ELSE NewBuffer(id)
            grown == Grown(old, id, turn.length)
            full == grown.tokens > Threshold
            asks == full /\ models.chat # "none" /\ Excess(grown) > 0
        IN Buffered(c, turns, kept, turn.session, old, grown, full, asks)
  BY DEF Archive, Grown, Buffered
<1>0. PICK n : n = Number(c)
  OBVIOUS
<1> DEFINE id == Len(log) + 1
           u == turns[n].session
           kept == EvictSessions(u, idle)
           old == IF u \in kept THEN buffers[u] ELSE NewBuffer(id)
           grown == Grown(old, id, turns[n].length)
           full == grown.tokens > Threshold
           asks == full /\ models.chat # "none" /\ Excess(grown) > 0
           new == IF full /\ models.chat = "none" THEN TrimToRecent(grown) ELSE grown
           before == IF u \in kept THEN Pushed(u) ELSE {}
<1>2. /\ calls[c].at = "archive" /\ HasTurn(c)
      /\ UNCHANGED <<line, models, born, faults>>
  BY DEF Archive, At
<1>3. /\ turns \in Seq(Turn) /\ n \in DOMAIN turns
      /\ \A m \in DOMAIN said : m \in DOMAIN turns /\ turns[m] = said[m]
      /\ \A m \in DOMAIN turns : m \in DOMAIN said \/ m = n
      /\ turns[n].became = "open"
      /\ turns[n].doubted = FALSE => Archived(n) = {}
      /\ Len(turns) = Len(said) + (IF c \in New THEN 1 ELSE 0)
      /\ \A d \in Callers : d # c /\ calls[d].turn # 0 => calls[d].turn # n
  BY <1>0, <1>2, Sayings
<1>4. /\ said \in Seq(Turn) /\ log \in Seq(DOMAIN said) /\ calls \in [Callers -> Call]
      /\ Len(log) \in Nat /\ id \in Nat /\ DOMAIN log = 1 .. Len(log)
      /\ turns[n] \in Turn /\ n \in Nat \ {0} /\ u \in Sessions
  <2>1. said \in Seq(Turn) /\ log \in Seq(DOMAIN said) /\ calls \in [Callers -> Call]
    BY DEF ConversationInv, Held
  <2>2. turns[n] \in Turn /\ n \in Nat \ {0}
    BY <1>3
  <2> QED BY <2>1, <2>2 DEF Turn
<1>5. Buffered(c, turns, kept, u, old, grown, full, asks)
  BY <1>0, <1>1
<1>6. /\ DOMAIN buffers' = kept \cup {u} /\ buffers'[u] = new
      /\ \A s \in kept : s # u => buffers'[s] = buffers[s]
  BY <1>5 DEF Buffered
<1>7. kept \subseteq DOMAIN buffers
  BY DEF EvictSessions
<1>8. said' = turns /\ log' = Append(log, n)
  BY <1>0, <1>5 DEF Buffered
<1>9. \A s : EpisodesOf(s) \subseteq 1 .. Len(log)
  BY <1>4 DEF EpisodesOf
<1>10. Faithful(old, before) /\ old.since \in 1 .. id
  <2>1. CASE u \in kept
    <3>1. Whole(u)
      BY <1>7, <2>1 DEF ConversationInv, Windows
    <3> QED BY <1>4, <2>1, <3>1 DEF Whole
  <2>2. CASE u \notin kept
    <3>1. NewBuffer(id).since = id
      BY DEF NewBuffer
    <3> QED BY <1>4, <2>2, <3>1, FreshFaithful
  <2> QED BY <2>1, <2>2
<1>11. \A x \in before : x < id
  BY <1>4, <1>9 DEF Pushed
<1>12. Faithful(grown, before \cup {id}) /\ grown.since = old.since /\ grown.lastUsed = id
  <2>1. turns[n].length \in Lengths
    BY <1>4 DEF Turn
  <2>2. id \in Nat
    BY <1>4
  <2> HIDE DEF old, before, id, kept
  <2> QED BY <1>10, <1>11, <2>1, <2>2, GrownFaithful
<1>13. /\ Faithful(new, before \cup {id}) /\ new.since = old.since /\ new.lastUsed = id
       /\ new # grown => Len(new.messages) <= KeepRecent
  <2> HIDE DEF old, before, id, grown, full
  <2> QED BY <1>12, TrimFaithful
<1>14. DOMAIN log' = 1 .. id /\ log'[id] = n /\ Len(log') = id /\ log' \in Seq(DOMAIN said')
         /\ \A x \in 1 .. Len(log) : log'[x] = log[x]
  <2>1. DOMAIN said \subseteq DOMAIN said' /\ n \in DOMAIN said'
    BY <1>3, <1>8
  <2>2. log \in Seq(DOMAIN said')
    BY <1>4, <2>1, SeqMonotonic
  <2> QED BY <1>4, <1>8, <2>1, <2>2, AppendProperties
<1>15. /\ EpisodesOf(u)' = EpisodesOf(u) \cup {id}
       /\ \A s : s # u => EpisodesOf(s)' = EpisodesOf(s)
  <2>1. \A x \in 1 .. Len(log) : said'[log'[x]].session = said[log[x]].session
    <3>1. \A x \in 1 .. Len(log) : log[x] \in DOMAIN said
      BY <1>4
    <3> QED BY <1>3, <1>8, <1>14, <3>1
  <2>2. said'[log'[id]].session = u
    BY <1>8, <1>14
  <2>3. DOMAIN log' = DOMAIN log \cup {id}
    BY <1>4, <1>14
  <2> HIDE DEF id, u
  <2> QED BY <1>4, <2>1, <2>2, <2>3 DEF EpisodesOf
<1>16. /\ Archived(n)' = Archived(n) \cup {id}
       /\ \A m : m # n => Archived(m)' = Archived(m)
  <2>1. DOMAIN log' = DOMAIN log \cup {id}
    BY <1>4, <1>14
  <2> HIDE DEF id
  <2> QED BY <1>4, <1>14, <2>1 DEF Archived
<1>17. PICK v \in Call :
          /\ calls' = [calls EXCEPT ![c] = v] /\ v.turn = n /\ v.hung = FALSE
          /\ \/ ~asks /\ v.at = "recall"
             \/ /\ asks /\ v.at = "compress"
                /\ v.taken = Older(grown) /\ v.prior = grown.summary
  <2> DEFINE e == [calls[c] EXCEPT !.turn = n,
                                   !.at = IF asks THEN "compress" ELSE "recall",
                                   !.taken = IF asks THEN Older(grown) ELSE <<>>,
                                   !.prior = IF asks THEN grown.summary ELSE {}]
  <2>1. calls' = [calls EXCEPT ![c] = e]
    BY <1>0, <1>5 DEF Buffered
  <2>2. calls[c] \in Call /\ calls[c].hung # TRUE
    BY <1>2, <1>4 DEF ConversationInv, Stations, Stands
  <2>3. calls[c].hung = FALSE
    BY <2>2 DEF Call
  <2>4. grown \in Buffer
    BY <1>12 DEF Faithful
  <2>5. Older(grown) \in Seq(Message) /\ <<>> \in Seq(Message) /\ grown.summary \in SUBSET Nat
    <3>1. Excess(grown) \in 0 .. Len(grown.messages) /\ grown.messages \in Seq(Message)
            /\ grown.summary \in SUBSET Nat
      BY <2>4, ExcessIs DEF Buffer
    <3> HIDE DEF grown
    <3>2. Older(grown) \in Seq(Message)
      BY <3>1, Split DEF Older
    <3> QED BY <3>1, <3>2
  <2> HIDE DEF grown, asks
  <2>6. CASE asks
    <3>1. e \in Call /\ e.turn = n /\ e.hung = FALSE /\ e.at = "compress"
            /\ e.taken = Older(grown) /\ e.prior = grown.summary
      BY <1>4, <2>2, <2>3, <2>5, <2>6 DEF Call
    <3> QED BY <2>1, <2>6, <3>1
  <2>7. CASE ~asks
    <3>1. e \in Call /\ e.turn = n /\ e.hung = FALSE /\ e.at = "recall"
      BY <1>4, <2>2, <2>3, <2>5, <2>7 DEF Call
    <3> QED BY <2>1, <2>7, <3>1
  <2> QED BY <2>6, <2>7
<1>18. /\ calls'[c] = v /\ calls' \in [Callers -> Call]
       /\ \A d \in Callers : d # c => calls'[d] = calls[d]
  BY <1>4, <1>17
<1>19. DOMAIN said \subseteq DOMAIN said' /\ said' \in Seq(Turn)
  BY <1>3, <1>8
<1>20. Held'
  <2>1. Len(said') + Cardinality(New') <= MaxTurns
    <3>1. IsFiniteSet(New) /\ Cardinality(New) \in Nat /\ Len(said) \in Nat
            /\ Len(said) + Cardinality(New) <= MaxTurns
      BY <1>4, NewCounted DEF ConversationInv, Held
    <3>2. New' = New \ {c}
      BY <1>17, <1>18 DEF New
    <3>3. Cardinality(New') = IF c \in New THEN Cardinality(New) - 1 ELSE Cardinality(New)
      BY <3>1, <3>2, FS_RemoveElement
    <3>4. Len(said') = Len(said) + (IF c \in New THEN 1 ELSE 0)
      BY <1>3, <1>8
    <3> QED BY <3>1, <3>3, <3>4, ConversationConstants
  <2>2. DOMAIN buffers' \subseteq Sessions /\ IsFiniteSet(DOMAIN buffers')
    <3>1. DOMAIN buffers \subseteq Sessions /\ IsFiniteSet(DOMAIN buffers)
      BY DEF ConversationInv, Held
    <3>2. IsFiniteSet(kept)
      BY <1>7, <3>1, FS_Subset
    <3>3. IsFiniteSet(kept \cup {u})
      BY <3>2, FS_AddElement
    <3> QED BY <1>4, <1>6, <1>7, <3>1, <3>3
  <2>3. born' \in 0 .. Len(log')
    <3>1. born \in 0 .. Len(log) /\ born' = born
      BY <1>2 DEF ConversationInv, Held
    <3> QED BY <1>4, <1>14, <3>1
  <2>4. models' \in [chat : Providers, embedder : Providers, embeds : BOOLEAN]
    BY <1>2 DEF ConversationInv, Held
  <2> HIDE DEF u, kept, id
  <2> QED BY <1>14, <1>18, <1>19, <2>1, <2>2, <2>3, <2>4 DEF Held
<1>21. InLine'
  <2>1. c \in ToSet(line)
    BY <1>2 DEF ConversationInv, InLine
  <2>2. ASSUME NEW d \in Callers
        PROVE  calls'[d].at \in {"none", "answered"} <=> d \notin ToSet(line')
    <3>1. CASE d = c
      BY <1>2, <1>17, <1>18, <2>1, <3>1
    <3>2. CASE d # c
      BY <1>2, <1>18, <3>2 DEF ConversationInv, InLine
    <3> QED BY <3>1, <3>2
  <2>3. ASSUME NEW d \in Callers, NEW e \in Callers, d # e, calls'[d].turn = calls'[e].turn
        PROVE  calls'[d].turn = 0
    <3>1. CASE d = c
      BY <1>3, <1>17, <1>18, <2>3, <3>1
    <3>2. CASE e = c
      BY <1>3, <1>17, <1>18, <2>3, <3>2
    <3>3. CASE d # c /\ e # c
      BY <1>18, <2>3, <3>3 DEF ConversationInv, InLine
    <3> QED BY <3>1, <3>2, <3>3
  <2> QED BY <1>2, <2>2, <2>3 DEF ConversationInv, InLine
<1>22. Once'
  <2> SUFFICES ASSUME NEW m \in DOMAIN said'
               PROVE  /\ said'[m].became = "lost" => said'[m].doubted = TRUE
                      /\ said'[m].doubted = FALSE =>
                            /\ \A i, j \in Archived(m)' : i = j
                            /\ said'[m].became = "ok" => Archived(m)' # {}
                            /\ said'[m].became = "error" => Archived(m)' = {}
    BY DEF Once
  <2> HIDE DEF id, u, kept
  <2>1. CASE m = n
    BY <1>3, <1>8, <1>16, <2>1
  <2>2. CASE m # n
    BY <1>3, <1>8, <1>16, <2>2 DEF ConversationInv, Once
  <2> QED BY <2>1, <2>2
<1>23. Stations'
  <2> SUFFICES ASSUME NEW d \in Callers PROVE Stands(d)'
    BY DEF Stations
  <2>1. CASE d = c
    <3>1. said'[n].became = "open" /\ n \in DOMAIN said' /\ n # 0 /\ said'[n].session = u
      BY <1>3, <1>4, <1>8
    <3>2. Archived(calls[c].turn)' # {}
      BY <1>16, <1>17, <1>18 DEF Archived
    <3>3. HasTurn(c)'
      BY <1>2 DEF HasTurn
    <3>4. v.at = "compress" => Asked(c)'
      <4> SUFFICES ASSUME v.at = "compress" PROVE Asked(c)'
        OBVIOUS
      <4>1. asks /\ v.taken = Older(grown) /\ v.prior = grown.summary
        BY <1>17
      <4>2. buffers'[u] = grown /\ Excess(grown) > 0 /\ u \in DOMAIN buffers'
        BY <1>6, <4>1
      <4> HIDE DEF grown, asks, u, kept, id, new
      <4> QED BY <1>17, <1>18, <3>1, <4>1, <4>2 DEF Asked
    <3> HIDE DEF grown, asks, u, kept, id
    <3> QED BY <1>17, <1>18, <2>1, <3>1, <3>2, <3>3, <3>4 DEF Stands
  <2>2. CASE d # c
    <3>1. ~HasTurn(d)
      BY <1>2, <2>2, HeadStands DEF ConversationInv
    <3>2. \A m : m = calls[d].turn /\ m # 0 => m \in DOMAIN said /\ m # n
      BY <1>3, <2>2 DEF ConversationInv, Stations, Stands
    <3>3. \A m : m = calls[d].turn /\ m # 0 =>
             m \in DOMAIN said' /\ said'[m] = said[m] /\ Archived(m)' = Archived(m)
      BY <1>3, <1>8, <1>16, <3>2
    <3> QED BY <1>2, <1>18, <2>2, <3>1, <3>3, OthersStand
  <2> QED BY <2>1, <2>2
<1>24. Windows'
  <2> SUFFICES ASSUME NEW s \in kept \cup {u} PROVE Whole(s)'
    BY <1>6 DEF Windows
  <2>1. CASE s = u
    <3>1. Pushed(u)' = before \cup {id}
      <4>1. CASE u \in kept
        <5>1. buffers[u].since \in 1 .. Len(log) /\ buffers'[u].since = buffers[u].since
          BY <1>6, <1>7, <1>12, <1>13, <4>1 DEF ConversationInv, Windows, Whole
        <5> QED BY <1>4, <1>15, <4>1, <5>1 DEF Pushed
      <4>2. CASE u \notin kept
        <5>1. buffers'[u].since = id
          BY <1>6, <1>12, <1>13, <4>2 DEF NewBuffer
        <5> QED BY <1>4, <1>9, <1>15, <4>2, <5>1 DEF Pushed
      <4> QED BY <4>1, <4>2
    <3>2. buffers'[u].since \in 1 .. Len(log')
      BY <1>6, <1>10, <1>12, <1>13, <1>14
    <3>3. /\ buffers'[u].lastUsed \in EpisodesOf(u)'
          /\ \A x \in EpisodesOf(u)' : x <= buffers'[u].lastUsed
      <4>1. buffers'[u].lastUsed = id
        BY <1>6, <1>13
      <4>2. \A x \in EpisodesOf(u) : x <= id
        BY <1>4, <1>9
      <4> HIDE DEF u, id
      <4> QED BY <1>4, <1>15, <4>1, <4>2
    <3>4. \/ buffers'[u].tokens <= Threshold
          \/ Len(buffers'[u].messages) <= KeepRecent
          \/ Compressing(u)'
      <4>1. CASE asks
        <5>1. calls'[c].at = "compress" /\ said'[calls'[c].turn].session = u
          BY <1>8, <1>17, <1>18, <4>1
        <5> QED BY <5>1 DEF Compressing
      <4>2. CASE ~asks /\ new = grown
        <5>1. grown \in Buffer /\ Threshold \in Nat /\ grown.tokens \in Nat
          BY <1>12, ConversationConstants DEF Faithful, Buffer
        <5>2. CASE ~full
          BY <1>6, <4>2, <5>1, <5>2
        <5>3. CASE full
          <6>1. Excess(grown) <= 0 \/ models.chat = "none"
            <7>1. Excess(grown) \in 0 .. Len(grown.messages) /\ Len(grown.messages) \in Nat
              BY <5>1, ExcessIs
            <7> HIDE DEF grown
            <7> QED BY <4>2, <5>3, <7>1
          <6>2. CASE models.chat = "none"
            <7>1. grown = TrimToRecent(grown)
              BY <4>2, <5>3, <6>2
            <7>2. Len(grown.messages) <= KeepRecent
              <8> HIDE DEF grown
              <8> QED BY <1>12, <7>1, TrimFaithful
            <7> QED BY <1>6, <4>2, <7>2
          <6>3. CASE Excess(grown) <= 0
            <7>1. Excess(grown) \in 0 .. Len(grown.messages) /\ Len(grown.messages) \in Nat
                    /\ Len(grown.messages) - Excess(grown) <= KeepRecent
              BY <5>1, ExcessIs
            <7>2. Len(grown.messages) <= KeepRecent
              <8> HIDE DEF grown
              <8> QED BY <6>3, <7>1, ConversationConstants
            <7> QED BY <1>6, <4>2, <7>2
          <6> QED BY <6>1, <6>2, <6>3
        <5> QED BY <5>2, <5>3
      <4>3. CASE new # grown
        BY <1>6, <1>13, <4>3
      <4> QED BY <4>1, <4>2, <4>3
    <3>5. Faithful(buffers'[u], Pushed(u)')
      BY <1>6, <1>13, <3>1
    <3> HIDE DEF grown, asks, u, kept, id, new
    <3> QED BY <2>1, <3>2, <3>3, <3>4, <3>5 DEF Whole
  <2>2. CASE s # u
    <3>1. s \in kept /\ buffers'[s] = buffers[s] /\ EpisodesOf(s)' = EpisodesOf(s)
      BY <1>6, <1>15, <2>2
    <3>2. Pushed(s)' = Pushed(s)
      BY <3>1 DEF Pushed
    <3>3. Whole(s)
      BY <1>7, <3>1 DEF ConversationInv, Windows
    <3>4. ~Compressing(s)
      <4> SUFFICES ASSUME NEW d \in Callers, calls[d].at = "compress" PROVE FALSE
        BY DEF Compressing
      <4>1. d # c
        BY <1>2
      <4> QED BY <1>2, <4>1, HeadStands DEF ConversationInv
    <3>5. buffers'[s].since \in 1 .. Len(log')
      BY <1>4, <1>14, <3>1, <3>3 DEF Whole
    <3> HIDE DEF u, kept, id
    <3> QED BY <3>1, <3>2, <3>3, <3>4, <3>5 DEF Whole
  <2> QED BY <2>1, <2>2
<1>25. Recent'
  <2> SUFFICES ASSUME NEW s \in kept \cup {u}, NEW t \in Sessions, t \notin kept \cup {u},
                      NEW x \in EpisodesOf(t)', x > born'
               PROVE  x < buffers'[s].lastUsed
    BY <1>6 DEF Recent
  <2>1. x \in EpisodesOf(t) /\ x \in 1 .. Len(log) /\ x > born
    BY <1>2, <1>9, <1>15
  <2>2. CASE s = u
    BY <1>4, <1>6, <1>13, <2>1, <2>2
  <2>3. CASE s # u
    <3>1. s \in kept /\ s \in DOMAIN buffers /\ buffers'[s].lastUsed = buffers[s].lastUsed
      BY <1>6, <1>7, <2>3
    <3>2. CASE t \in DOMAIN buffers
      <4>1. buffers[t].lastUsed < buffers[s].lastUsed
        BY <2>3, <3>1, <3>2, EvictionFair
      <4>2. x <= buffers[t].lastUsed
        BY <2>1, <3>2 DEF ConversationInv, Windows, Whole
      <4>3. buffers[t].lastUsed \in Nat /\ buffers[s].lastUsed \in Nat
        BY <3>1, <3>2 DEF ConversationInv, Windows, Whole, Faithful, Buffer
      <4> QED BY <2>1, <3>1, <4>1, <4>2, <4>3
    <3>3. CASE t \notin DOMAIN buffers
      BY <2>1, <3>1, <3>3 DEF ConversationInv, Recent
    <3> QED BY <3>2, <3>3
  <2> QED BY <2>2, <2>3
<1> HIDE DEF u, kept, id, old, grown, full, asks, new, before
<1> QED BY <1>20, <1>21, <1>22, <1>23, <1>24, <1>25 DEF ConversationInv

\* A call past the archive.
LEMMA AtRecall ==
    ASSUME ConversationInv, NEW c \in Callers, calls[c].at \in {"compress", "recall", "learn"}
    PROVE  /\ calls[c] \in Call /\ HasTurn(c)
           /\ calls[c].turn \in DOMAIN said /\ said[calls[c].turn].became = "open"
           /\ said[calls[c].turn].doubted = FALSE => Archived(calls[c].turn) # {}
           /\ \A d \in Callers : d # c /\ calls[d].turn # 0 => calls[d].turn # calls[c].turn
<1>1. calls[c] \in Call
  BY DEF ConversationInv, Held
<1>2. Stands(c)
  BY DEF ConversationInv, Stations
<1>3. \A d \in Callers : d # c /\ calls[d].turn # 0 => calls[d].turn # calls[c].turn
  BY DEF ConversationInv, InLine
<1> QED BY <1>1, <1>2, <1>3 DEF Stands

\* Compressed.
LEMMA CompressedKeeps ==
    ASSUME ConversationInv, NEW c \in Callers, Compressed(c)
    PROVE  ConversationInv'
<1>1. PICK reply \in Replies(0) :
         Rewrite(c, LAMBDA b : Summarise(b, calls[c], CompressContext(reply).empty))
  BY DEF Compressed
<1>2. /\ calls[c].at = "compress" /\ HasTurn(c)
      /\ calls' = [calls EXCEPT ![c].at = "recall", ![c].taken = <<>>, ![c].prior = {}]
      /\ UNCHANGED <<said, log, line, models, born>>
  BY DEF Compressed, Awaiting, At
<1> DEFINE session == said[calls[c].turn].session
           b == Summarise(buffers[session], calls[c], CompressContext(reply).empty)
           v == [calls[c] EXCEPT !.at = "recall", !.taken = <<>>, !.prior = {}]
<1>3. Asked(c) /\ session \in DOMAIN buffers
  BY <1>2 DEF ConversationInv, Stations, Stands, Asked
<1>4. Faithful(buffers[session], Pushed(session))
  BY <1>3 DEF ConversationInv, Windows, Whole
<1>5. CompressContext(reply).empty \in BOOLEAN
  BY DEF CompressContext
<1>6. /\ Faithful(b, Pushed(session)) /\ Len(b.messages) <= KeepRecent
      /\ b.since = buffers[session].since /\ b.lastUsed = buffers[session].lastUsed
  BY <1>3, <1>4, <1>5, SummaryFaithful DEF Asked
<1>7. Rewritten(c, b)
  BY <1>1 DEF Rewrite, Rewritten
<1>8. v \in Call /\ v.at = "recall" /\ v.turn = calls[c].turn
  <2>0. <<>> \in Seq(Message)
    OBVIOUS
  <2>1. calls[c] \in Call /\ <<>> \in Seq(Message)
    BY <1>2, <2>0, AtRecall
  <2> QED BY <2>1 DEF Call
<1>9. calls' = [calls EXCEPT ![c] = v]
  BY <1>2
<1> HIDE DEF b, v
<1> QED BY <1>2, <1>6, <1>7, <1>8, <1>9, RewriteKeeps

\* CompressionFails, and the summary that timed out.
LEMMA NotCompressedKeeps ==
    ASSUME ConversationInv, NEW c \in Callers, calls[c].at = "compress", NotCompressed(c)
    PROVE  ConversationInv'
<1>1. /\ Rewrite(c, TrimToRecent)
      /\ calls' = [calls EXCEPT ![c].at = "recall", ![c].taken = <<>>, ![c].prior = {},
                                ![c].hung = FALSE]
      /\ UNCHANGED <<said, log, line, models, born>>
  BY DEF NotCompressed
<1> DEFINE session == said[calls[c].turn].session
           b == TrimToRecent(buffers[session])
           v == [calls[c] EXCEPT !.at = "recall", !.taken = <<>>, !.prior = {}, !.hung = FALSE]
<1>2. session \in DOMAIN buffers
  BY DEF ConversationInv, Stations, Stands, Asked
<1>3. Faithful(buffers[session], Pushed(session))
  BY <1>2 DEF ConversationInv, Windows, Whole
<1>4. /\ Faithful(b, Pushed(session)) /\ Len(b.messages) <= KeepRecent
      /\ b.since = buffers[session].since /\ b.lastUsed = buffers[session].lastUsed
  BY <1>3, TrimFaithful
<1>5. Rewritten(c, b)
  BY <1>1 DEF Rewrite, Rewritten
<1>6. v \in Call /\ v.at = "recall" /\ v.turn = calls[c].turn
  <2>0. <<>> \in Seq(Message)
    OBVIOUS
  <2>1. calls[c] \in Call /\ <<>> \in Seq(Message)
    BY <2>0, AtRecall
  <2> QED BY <2>1 DEF Call
<1>7. calls' = [calls EXCEPT ![c] = v]
  BY <1>1
<1>8. HasTurn(c)
  BY AtRecall
<1> HIDE DEF b, v
<1> QED BY <1>1, <1>4, <1>5, <1>6, <1>7, <1>8, RewriteKeeps

\* The answers to a push.
LEMMA WindowIs ==
    ASSUME NEW missed \in Int, NEW told \in BOOLEAN
    PROVE  /\ Window(missed, told) \in Call /\ Window(missed, told).turn = 0
           /\ Window(missed, told).hung = FALSE /\ Window(missed, told).at = "answered"
           /\ Window(missed, told).missed = missed
           /\ Window(missed, told).learningError = told
BY NoCallIs DEF Window, Call

\* One that reports an error of learning.
LEMMA ToldIs ==
    ASSUME NEW missed \in Int
    PROVE  /\ Window(missed, TRUE) \in Call /\ Window(missed, TRUE).turn = 0
           /\ Window(missed, TRUE).hung = FALSE /\ Window(missed, TRUE).at = "answered"
           /\ Window(missed, TRUE).learningError = TRUE
BY NoCallIs DEF Window, Call

\* A call is answered.
LEMMA AnsweredKeeps ==
    ASSUME ConversationInv, NEW c \in Callers, calls[c].at \in {"recall", "learn"},
           NEW reply \in Call, reply.turn = 0, reply.hung = FALSE, reply.at = "answered",
           reply.learningError = TRUE \/ (models.chat # "none" /\ reply.missed = 0),
           Answered(c, reply),
           UNCHANGED <<log, buffers, models, born>>
    PROVE  ConversationInv'
<1>0. PICK n : n = calls[c].turn
  OBVIOUS
<1> DEFINE e == [said[n] EXCEPT !.became = "ok"]
<1>1. /\ HasTurn(c) /\ n \in DOMAIN said /\ said[n].became = "open"
      /\ said[n].doubted = FALSE => Archived(n) # {}
      /\ \A d \in Callers : d # c /\ calls[d].turn # 0 => calls[d].turn # n
  BY <1>0, AtRecall
<1>3. said \in Seq(Turn) /\ DOMAIN said = 1 .. Len(said) /\ Len(said) \in Nat /\ said[n] \in Turn
  <2>1. said \in Seq(Turn)
    BY DEF ConversationInv, Held
  <2> QED BY <1>1, <2>1
<1>4. Answer(c, reply) /\ said' = [said EXCEPT ![n] = e]
  BY <1>0 DEF Answered
<1>5. e \in Turn /\ e.session = said[n].session /\ e.doubted = said[n].doubted /\ e.became = "ok"
  BY <1>3 DEF Turn
<1> HIDE DEF e
<1>6. /\ said' \in Seq(Turn) /\ Len(said') = Len(said) /\ DOMAIN said' = DOMAIN said
      /\ \A m \in DOMAIN said : said'[m] = IF m = n THEN e ELSE said[m]
  <2>1. /\ said' \in Seq(Turn) /\ Len(said') = Len(said)
        /\ \A m \in 1 .. Len(said) : said'[m] = IF m = n THEN e ELSE said[m]
    BY <1>1, <1>3, <1>4, <1>5, ExceptSeq
  <2> QED BY <1>3, <1>4, <2>1
<1>7. Len(said') <= Len(said) + (IF c \in New THEN 1 ELSE 0)
  BY <1>3, <1>6
<1>8. \A m \in DOMAIN said :
          /\ m \in DOMAIN said' /\ said'[m].session = said[m].session
          /\ said'[m].doubted = said[m].doubted
          /\ m # n => said'[m] = said[m]
  BY <1>5, <1>6
<1>9. Ended(c, n, reply)
  BY <1>1, <1>4, <1>5, <1>6, <1>7, <1>8 DEF Ended
<1>10. HasTurn(c)
  BY <1>1
<1> QED BY <1>9, <1>10, EndKeeps

\* Recall, RecallFails, and the recall that timed out.
LEMMA RecalledKeeps ==
    ASSUME ConversationInv, NEW c \in Callers, calls[c].at = "recall", Recalled(c)
    PROVE  ConversationInv'
<1>1. UNCHANGED <<log, buffers, models, born>>
  BY DEF Recalled
<1>2. CASE models.chat = "none"
  <2>1. Answered(c, Window(0, TRUE))
    BY <1>2 DEF Recalled
  <2>0. PICK none \in Int : none = 0
    OBVIOUS
  <2> DEFINE reply == Window(none, TRUE)
  <2>2. reply \in Call /\ reply.turn = 0 /\ reply.hung = FALSE /\ reply.at = "answered"
          /\ reply.learningError = TRUE
    BY NoCallIs DEF Window, Call
  <2>3. calls[c].at \in {"recall", "learn"}
    OBVIOUS
  <2> HIDE DEF reply
  <2>4. Answered(c, reply)
    BY <2>0, <2>1 DEF reply
  <2> QED BY <1>1, <2>2, <2>3, <2>4, AnsweredKeeps
<1>3. CASE models.chat # "none"
  <2>1. /\ calls' = [calls EXCEPT ![c].at = "learn", ![c].hung = FALSE]
        /\ UNCHANGED <<said, line>>
    BY <1>3 DEF Recalled
  <2> DEFINE v == [calls[c] EXCEPT !.at = "learn", !.hung = FALSE]
  <2>2. calls[c] \in Call /\ HasTurn(c)
    BY AtRecall
  <2>3. v \in Call /\ v.at = "learn" /\ v.turn = calls[c].turn /\ v.taken = calls[c].taken
          /\ v.prior = calls[c].prior
    BY <2>2 DEF Call
  <2>4. calls' = [calls EXCEPT ![c] = v]
    BY <2>1
  <2> HIDE DEF v
  <2> QED BY <1>1, <1>3, <2>1, <2>2, <2>3, <2>4, MovesKeeps
<1> QED BY <1>2, <1>3

\* An extraction that succeeds has the facts of the reply.
LEMMA ExtractionIs ==
    ASSUME NEW most \in Nat, NEW reply \in Replies(most), NEW client
    PROVE  /\ reply.facts \in Nat
           /\ ExtractFacts(client, reply).facts \in Nat
           /\ ExtractFacts(client, reply).ok \in BOOLEAN
           /\ ExtractFacts(client, reply).ok = TRUE =>
                 ExtractFacts(client, reply).facts = reply.facts
<1>1. CASE reply = Failed
  BY <1>1 DEF Failed, ExtractFacts, Error
<1>2. CASE reply \in [text : {"missing", "blank", "shapeless", "prose"}, facts : {0}]
  BY <1>2 DEF ExtractFacts, Error, Facts
<1>3. CASE reply \in [text : {"json", "wrapped"}, facts : 0 .. most]
  BY <1>3 DEF ExtractFacts, Error, Facts
<1> QED BY <1>1, <1>2, <1>3 DEF Replies

\* Learn.
LEMMA LearnKeeps ==
    ASSUME ConversationInv, NEW c \in Callers, Learn(c)
    PROVE  ConversationInv'
<1>1. calls[c].at = "learn" /\ UNCHANGED <<log, buffers, models, born>>
  BY DEF Learn, Awaiting, At
<1>2. PICK reply \in Replies(MaxFacts + 1) :
        \E stored \in 0 .. Lesser(ExtractFacts(models.chat, reply).facts, MaxFacts) :
            Answered(c, Learned(reply, stored))
  BY DEF Learn
<1> DEFINE extraction == ExtractFacts(models.chat, reply)
<1>3. PICK stored \in 0 .. Lesser(extraction.facts, MaxFacts) :
         Answered(c, Learned(reply, stored))
  BY <1>2
<1> DEFINE missed == Lesser(reply.facts, MaxFacts) - stored
           told == ~extraction.ok \/ stored < Lesser(extraction.facts, MaxFacts)
<1>4. Learned(reply, stored) = Window(missed, told)
  BY DEF Learned
<1>5. MaxFacts \in Nat /\ MaxFacts + 1 \in Nat
  BY ConversationConstants
<1>6. /\ reply.facts \in Nat /\ extraction.facts \in Nat /\ extraction.ok \in BOOLEAN
      /\ extraction.ok = TRUE => extraction.facts = reply.facts
  BY <1>5, ExtractionIs
<1>7. models.chat # "none"
  BY <1>1 DEF ConversationInv, Stations, Stands
<1> HIDE DEF extraction
<1>8. missed \in Int /\ told \in BOOLEAN
  BY <1>5, <1>6 DEF Lesser
<1>9. told = TRUE \/ missed = 0
  <2> SUFFICES ASSUME ~told PROVE missed = 0
    BY <1>8
  <2>1. extraction.ok = TRUE /\ ~(stored < Lesser(extraction.facts, MaxFacts))
    BY <1>6
  <2> QED BY <1>5, <1>6, <2>1 DEF Lesser
<1> HIDE DEF missed, told
<1>10. Answered(c, Window(missed, told))
  BY <1>3, <1>4
<1> QED BY <1>1, <1>7, <1>8, <1>9, <1>10, WindowIs, AnsweredKeeps

\* Hang.
LEMMA HangKeeps ==
    ASSUME ConversationInv, NEW c \in Callers, Hang(c)
    PROVE  ConversationInv'
<1>1. /\ calls[c].at \in {"compress", "recall", "learn"}
      /\ calls' = [calls EXCEPT ![c].hung = TRUE]
      /\ UNCHANGED <<said, log, buffers, line, models, born>>
  BY DEF Hang, Awaiting, At
<1> DEFINE v == [calls[c] EXCEPT !.hung = TRUE]
<1>2. calls[c] \in Call /\ HasTurn(c)
  BY <1>1, AtRecall
<1>3. v \in Call /\ v.at = calls[c].at /\ v.turn = calls[c].turn /\ v.taken = calls[c].taken
        /\ v.prior = calls[c].prior
  BY <1>2 DEF Call
<1>4. calls' = [calls EXCEPT ![c] = v]
  BY <1>1
<1>5. v.at = "learn" => models.chat # "none"
  BY <1>3 DEF ConversationInv, Stations, Stands
<1> HIDE DEF v
<1> QED BY <1>1, <1>2, <1>3, <1>4, <1>5, MovesKeeps

\* GiveUp.
LEMMA GiveUpKeeps ==
    ASSUME ConversationInv, NEW c \in Callers, GiveUp(c)
    PROVE  ConversationInv'
<1>1. calls[c].hung = TRUE
  <2>1. calls[c] \in Call
    BY DEF ConversationInv, Held
  <2> QED BY <2>1 DEF GiveUp, TimesOut, Call
<1>2. calls[c].at \in {"compress", "recall", "learn"}
  BY <1>1 DEF ConversationInv, Stations, Stands
<1>3. CASE calls[c].at = "compress"
  <2>1. NotCompressed(c)
    BY <1>3 DEF GiveUp
  <2> QED BY <1>3, <2>1, NotCompressedKeeps
<1>4. CASE calls[c].at = "recall"
  <2>1. Recalled(c)
    BY <1>4 DEF GiveUp, NotRecalled
  <2> QED BY <1>4, <2>1, RecalledKeeps
<1>5. CASE calls[c].at = "learn"
  <2>1. Answered(c, Learned(Failed, 0)) /\ UNCHANGED <<log, buffers, models, born>>
    BY <1>5 DEF GiveUp
  <2> DEFINE missed == Lesser(0, MaxFacts) - 0
  <2>2. Learned(Failed, 0) = Window(missed, TRUE)
    BY DEF Learned, ExtractFacts, Failed, Error
  <2>3. missed \in Int
    BY ConversationConstants DEF Lesser
  <2> HIDE DEF missed
  <2>4. Answered(c, Window(missed, TRUE))
    BY <2>1, <2>2
  <2> QED BY <1>5, <2>1, <2>3, <2>4, ToldIs, AnsweredKeeps
<1> QED BY <1>2, <1>3, <1>4, <1>5

\* Every step.
LEMMA StepHolds == ConversationInv /\ [Next]_vars => ConversationInv'
<1> SUFFICES ASSUME ConversationInv, [Next]_vars PROVE ConversationInv'
  OBVIOUS
<1>1. ASSUME NEW c \in Callers, Push(c) PROVE ConversationInv'
  BY <1>1, PushKeeps
<1>2. ASSUME NEW c \in Callers, ArchiveFails(c) PROVE ConversationInv'
  BY <1>2, ArchiveFailsKeeps
<1>3. ASSUME NEW c \in Callers, Archive(c) PROVE ConversationInv'
  BY <1>3, ArchiveKeeps
<1>4. ASSUME NEW c \in Callers, Compressed(c) PROVE ConversationInv'
  BY <1>4, CompressedKeeps
<1>5. ASSUME NEW c \in Callers, CompressionFails(c) PROVE ConversationInv'
  BY <1>5, NotCompressedKeeps DEF CompressionFails, Awaiting, At
<1>6. ASSUME NEW c \in Callers, Recall(c) PROVE ConversationInv'
  BY <1>6, RecalledKeeps DEF Recall, Awaiting, At
<1>7. ASSUME NEW c \in Callers, RecallFails(c) PROVE ConversationInv'
  BY <1>7, RecalledKeeps DEF RecallFails, NotRecalled, Awaiting, At
<1>8. ASSUME NEW c \in Callers, Learn(c) PROVE ConversationInv'
  BY <1>8, LearnKeeps
<1>9. ASSUME NEW c \in Callers, GiveUp(c) PROVE ConversationInv'
  BY <1>9, GiveUpKeeps
<1>10. ASSUME NEW c \in Callers, Hang(c) PROVE ConversationInv'
  BY <1>10, HangKeeps
<1>11. CASE Restart
  <2>1. Died
    BY <1>11 DEF Restart, Died
  <2> QED BY <1>11, <2>1, EmptiedKeeps DEF Restart
<1>12. CASE Switch
  <2>1. Stopped
    BY <1>12 DEF Switch, Stopped
  <2> QED BY <1>12, <2>1, EmptiedKeeps DEF Switch
<1>13. CASE UNCHANGED vars
  <2>1. UNCHANGED <<said, log, buffers, calls, line, born, models>>
    BY <1>13 DEF vars, server
  <2>2. Held'
    BY <2>1 DEF ConversationInv, Held, New
  <2>3. InLine'
    BY <2>1 DEF ConversationInv, InLine
  <2>4. Once'
    BY <2>1 DEF ConversationInv, Once, Archived
  <2>5. Stations'
    BY <2>1 DEF ConversationInv, Stations, Stands, Asked, HasTurn, Archived
  <2>6. Windows'
    BY <2>1 DEF ConversationInv, Windows, Whole, Pushed, Compressing, EpisodesOf
  <2>7. Recent'
    BY <2>1 DEF ConversationInv, Recent, EpisodesOf
  <2> QED BY <2>2, <2>3, <2>4, <2>5, <2>6, <2>7 DEF ConversationInv
<1> QED BY <1>1, <1>2, <1>3, <1>4, <1>5, <1>6, <1>7, <1>8, <1>9, <1>10, <1>11, <1>12, <1>13
        DEF Next, Onward

-----------------------------------------------------------------------------
(***************************************************************************)
(* The theorems.                                                           *)
(***************************************************************************)
\* The invariant is one.
LEMMA Always == Spec => []ConversationInv
<1>1. Init => ConversationInv
  BY InitHolds
<1>2. ConversationInv /\ [Next]_vars => ConversationInv'
  BY StepHolds
<1> QED BY <1>1, <1>2, PTL DEF Spec

\* As many episodes as raw messages: none is there twice.
LEMMA CountedCovers ==
    ASSUME NEW b, NEW P, Faithful(b, P)
    PROVE  IsFiniteSet(Covers(b.messages)) /\ Cardinality(Covers(b.messages)) = Len(b.messages)
<1> DEFINE m == b.messages
           n == Len(m)
           f == [i \in 1 .. n |-> m[i].id]
<1>1. m \in Seq(Message) /\ n \in Nat /\ DOMAIN m = 1 .. n
  BY DEF Faithful, Buffer
<1>2. Covers(m) = {m[i].id : i \in 1 .. n}
  BY <1>1, CoversAre
<1>3. \A i \in 1 .. n : m[i].id \in Nat
  <2>1. \A i \in 1 .. n : m[i] \in Message
    BY <1>1
  <2> QED BY <2>1 DEF Message
<1>4. \A i, j \in 1 .. n : i < j => m[i].id < m[j].id
  BY <1>1 DEF Faithful
<1> HIDE DEF m, n
<1>5. \A i, j \in 1 .. n : m[i].id = m[j].id => i = j
  <2> SUFFICES ASSUME NEW i \in 1 .. n, NEW j \in 1 .. n, i # j PROVE m[i].id # m[j].id
    OBVIOUS
  <2>1. i < j \/ j < i
    OBVIOUS
  <2> QED BY <1>3, <1>4, <2>1
<1>6. f \in Bijection(1 .. n, Covers(m))
  BY <1>2, <1>5 DEF Bijection, Injection, Surjection, IsInjective
<1>7. ExistsBijection(1 .. n, Covers(m))
  BY <1>6 DEF ExistsBijection
<1>8. IsFiniteSet(1 .. n) /\ Cardinality(1 .. n) = n
  BY <1>1, FS_Interval DEF n
<1> QED BY <1>7, <1>8, FS_Bijection DEF m, n

\* What follows from it.
LEMMA WindowsFollow == ConversationInv => WindowsAreSound
<1> SUFFICES ASSUME ConversationInv PROVE WindowsAreSound
  OBVIOUS
<1>1. TypeOK
  <2>1. Len(said) <= MaxTurns
    <3>1. Cardinality(New) \in Nat /\ Len(said) \in Nat /\ MaxTurns \in Nat
            /\ Len(said) + Cardinality(New) <= MaxTurns
      BY NewCounted, ConversationConstants DEF ConversationInv, Held
    <3> QED BY <3>1
  <2>2. \A s \in DOMAIN buffers : buffers[s] \in Buffer
    BY DEF ConversationInv, Windows, Whole, Faithful
  <2>3. \A c \in Callers :
          calls[c].at \in {"none", "archive", "compress", "recall", "learn", "answered"}
    BY DEF ConversationInv, Held, Call
  <2> QED BY <2>1, <2>2, <2>3 DEF ConversationInv, Held, InLine, TypeOK
<1>2. NothingVanishes
  <2> SUFFICES ASSUME NEW s \in DOMAIN buffers
               PROVE  LET raw == Covers(buffers[s].messages)
                          past == buffers[s].summary \cup buffers[s].gone
                      IN /\ raw \cup past = Pushed(s) /\ raw \cap past = {}
                         /\ buffers[s].summary \cap buffers[s].gone = {}
                         /\ \A new \in raw, old \in past : old < new
                         /\ Cardinality(raw) >= Lesser(KeepRecent, Cardinality(Pushed(s)))
    BY DEF NothingVanishes, Pushed
  <2> DEFINE b == buffers[s]
             raw == Covers(b.messages)
             past == b.summary \cup b.gone
  <2>1. Faithful(b, Pushed(s))
    BY DEF ConversationInv, Windows, Whole
  <2>2. b.messages \in Seq(Message) /\ past \subseteq Nat
    BY <2>1 DEF Faithful, Buffer
  <2>3. raw = {b.messages[i].id : i \in 1 .. Len(b.messages)} /\ raw \subseteq Nat
    BY <2>2, CoversAre
  <2>4. \A new \in raw, old \in past : old < new
    <3>1. \A i \in 1 .. Len(b.messages) : \A old \in past : old < b.messages[i].id
      BY <2>1, <2>2 DEF Faithful
    <3> HIDE DEF raw, past
    <3> QED BY <2>3, <3>1
  <2>5. raw \cap past = {}
    <3>1. \A x \in raw : x \in Nat
      BY <2>3
    <3> HIDE DEF raw, past
    <3>2. \A x \in raw : x \notin past
      BY <2>4, <3>1
    <3> QED BY <3>2
  <2>6. raw \cup past = Pushed(s) /\ b.summary \cap b.gone = {}
          /\ (past # {} => Len(b.messages) >= KeepRecent)
    BY <2>1 DEF Faithful
  <2>7. Cardinality(raw) = Len(b.messages) /\ Len(b.messages) \in Nat
    BY <2>1, <2>2, CountedCovers
  <2>8. Cardinality(raw) >= Lesser(KeepRecent, Cardinality(Pushed(s)))
    <3>1. KeepRecent \in Nat
      BY ConversationConstants
    <3>2. CASE past = {}
      <4>1. Pushed(s) = raw
        BY <2>6, <3>2
      <4> HIDE DEF raw
      <4> QED BY <2>7, <3>1, <4>1 DEF Lesser
    <3>3. CASE past # {}
      <4>1. IsFiniteSet(Pushed(s))
        <5>1. Pushed(s) \subseteq 1 .. Len(log) /\ Len(log) \in Nat
          BY DEF ConversationInv, Held, Pushed, EpisodesOf
        <5>2. IsFiniteSet(1 .. Len(log))
          BY <5>1, FS_Interval
        <5> QED BY <5>1, <5>2, FS_Subset
      <4>2. Cardinality(Pushed(s)) \in Nat
        BY <4>1, FS_CardinalityType
      <4> HIDE DEF raw, past
      <4> QED BY <2>6, <2>7, <3>1, <3>3, <4>2 DEF Lesser
    <3> QED BY <3>2, <3>3
  <2> QED BY <2>4, <2>5, <2>6, <2>8
<1>3. BufferIsBounded
  <2> SUFFICES ASSUME line = <<>>, NEW s \in DOMAIN buffers
               PROVE  \/ MessageTokens(buffers[s].messages) + SummaryTokens(buffers[s].summary)
                            <= Threshold
                      \/ Len(buffers[s].messages) <= KeepRecent
    BY DEF BufferIsBounded
  <2>1. Whole(s)
    BY DEF ConversationInv, Windows
  <2>2. ~Compressing(s)
    <3> SUFFICES ASSUME NEW c \in Callers, calls[c].at = "compress" PROVE FALSE
      BY DEF Compressing
    <3>1. ToSet(line) = {}
      BY DEF ToSet
    <3> QED BY <3>1 DEF ConversationInv, InLine
  <2>3. buffers[s].tokens = MessageTokens(buffers[s].messages) + SummaryTokens(buffers[s].summary)
    BY <2>1 DEF Whole, Faithful
  <2> QED BY <2>1, <2>2, <2>3 DEF Whole
<1> QED BY <1>1, <1>2, <1>3 DEF WindowsAreSound

\* The last use of a session is its newest episode.
LEMMA LastIs ==
    ASSUME ConversationInv, NEW s
    PROVE  /\ LastOf(s) \in EpisodesOf(s) \cup {0} /\ LastOf(s) \in Nat
           /\ \A id \in EpisodesOf(s) : id <= LastOf(s)
<1>1. log \in Seq(DOMAIN said) /\ Len(log) \in Nat /\ DOMAIN log = 1 .. Len(log)
  BY DEF ConversationInv, Held
<1>2. EpisodesOf(s) \cup {0} \subseteq 0 .. Len(log)
  BY <1>1 DEF EpisodesOf
<1>3. /\ LastOf(s) \in EpisodesOf(s) \cup {0}
      /\ \A id \in EpisodesOf(s) \cup {0} : id <= LastOf(s)
  BY <1>1, <1>2, GreatestOf DEF LastOf
<1> QED BY <1>1, <1>2, <1>3

\* A session without a window has no newer episode.
LEMMA EvictionFollows == ConversationInv => LeastRecentGoFirst
<1> SUFFICES ASSUME ConversationInv, NEW s \in DOMAIN buffers, NEW t \in Sessions \ DOMAIN buffers,
                    LastOf(t) > born
             PROVE  LastOf(t) < LastOf(s)
  BY DEF LeastRecentGoFirst
<1>1. born \in Nat
  BY DEF ConversationInv, Held
<1>2. LastOf(t) \in EpisodesOf(t)
  BY <1>1, LastIs
<1>3. LastOf(t) < buffers[s].lastUsed
  BY <1>2 DEF ConversationInv, Recent
<1>4. buffers[s].lastUsed <= LastOf(s)
  BY LastIs DEF ConversationInv, Windows, Whole
<1>5. buffers[s].lastUsed \in Nat
  BY DEF ConversationInv, Windows, Whole, Faithful, Buffer
<1> QED BY <1>3, <1>4, <1>5, LastIs

\* Two episodes of a turn are one.
LEMMA ArchivedFollows == ConversationInv => ArchivedOnce
<1> SUFFICES ASSUME ConversationInv, NEW n \in DOMAIN said, ~said[n].doubted
             PROVE  /\ Cardinality(Archived(n)) <= 1
                    /\ said[n].became = "ok" => Archived(n) # {}
                    /\ said[n].became = "error" => Archived(n) = {}
  BY DEF ArchivedOnce, Archived
<1>1. said[n].doubted = FALSE
  <2>1. said[n] \in Turn
    BY DEF ConversationInv, Held
  <2> QED BY <2>1 DEF Turn
<1>2. /\ \A i, j \in Archived(n) : i = j
      /\ said[n].became = "ok" => Archived(n) # {}
      /\ said[n].became = "error" => Archived(n) = {}
  BY <1>1 DEF ConversationInv, Once
<1>3. Cardinality(Archived(n)) <= 1
  <2>1. CASE Archived(n) = {}
    BY <2>1, FS_EmptySet
  <2>2. CASE Archived(n) # {}
    <3>1. PICK id \in Archived(n) : TRUE
      BY <2>2
    <3>2. Archived(n) = {id}
      BY <1>2, <3>1
    <3>3. Cardinality({id}) = 1
      BY FS_Singleton
    <3> QED BY <3>2, <3>3
  <2> QED BY <2>1, <2>2
<1> QED BY <1>2, <1>3

\* An answer stands as it was given.
LEMMA LearnedFollows == ConversationInv => LearnedOrTold
BY DEF ConversationInv, Stations, Stands, LearnedOrTold

\* A window accounts for each message pushed since it began, once, and between calls
\* is within its threshold or down to the recent messages, whichever call failed.
\* (SessionManager::push_dialogue, compress_buffer, trim_to_recent.)
THEOREM WindowsSound == Spec => []WindowsAreSound
BY Always, WindowsFollow, PTL

\* No session is evicted while one untouched for longer is kept.  (evict_sessions.)
THEOREM EvictionInOrder == Spec => []LeastRecentGoFirst
BY Always, EvictionFollows, PTL

\* A turn is archived once if its push succeeded and not at all if it failed, unless
\* the process died on it.  (NeurolitheApp::push_dialogue.)
THEOREM ArchivedAtMostOnce == Spec => []ArchivedOnce
BY Always, ArchivedFollows, PTL

\* A successful push learned every fact the reply stated, up to the cap, or says that
\* it did not.  (NeurolitheApp::push_dialogue, process_episode.)
THEOREM NothingSwallowed == Spec => []LearnedOrTold
BY Always, LearnedFollows, PTL
=============================================================================
