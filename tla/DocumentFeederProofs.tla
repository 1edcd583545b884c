------------------------ MODULE DocumentFeederProofs ------------------------
(***************************************************************************)
(* Theorems about DocumentFeeder and, in the last section, ResetReplay,    *)
(* for every set of documents, contents and messages and every bound.  The *)
(* invariants are not inductive on their own: `Control' ties the message   *)
(* in hand to where the task is, `Progress' says what has been handled     *)
(* below each of the offsets the feeder and the broker remember, and       *)
(* `Fitting' what the stores hold of the messages below the one that is    *)
(* read next.                                                              *)
(***************************************************************************)
EXTENDS ResetReplay, SequenceTheorems, WellFoundedInduction, TLAPS

Busy == PCs \ {"down", "idle", "closing", "closed"}

Control ==
    /\ hand \in 0..Len(topic) /\ position \in 0..Len(topic)
    /\ committed \in 0..Len(topic)
    /\ pending \in -1..Len(topic) /\ stored \in -1..Len(topic)
    /\ pc \in {"down", "idle"} => hand = 0
    /\ pc \in Busy => hand >= 1
    /\ pc \in {"distill", "place", "prune", "fact"} => Decision = "ingest"
    /\ pc \in {"unlink", "unfact"} => Decision = "forget"
    /\ pc \in {"write", "backoff"} => Decision \in {"ingest", "forget"}
    /\ pc = "backoff" => attempt < WriteAttempts
    /\ pc = "prune" => Len(leaves[D]) >= 2
    /\ received <= generation /\ generation <= rewinds

TypeInv == TypeOK /\ Control

HandledUpTo(n) == \A o \in 1..n : Handled(o)

Progress ==
    /\ HandledUpTo(committed) /\ HandledUpTo(pending) /\ HandledUpTo(stored)
    /\ received = generation => HandledUpTo(hand - 1)
    /\ \A o \in 1..position : o = hand \/ Handled(o)
    /\ pc = "settle" => Handled(hand)

IInv == TypeInv /\ Progress

-----------------------------------------------------------------------------
LEMMA BoundsAreNumbers ==
    /\ MaxLog \in Nat /\ MaxStops \in Nat /\ MaxRewinds \in Nat
    /\ MaxRebalances \in Nat /\ WriteAttempts \in Nat \ {0}
  BY FeederConstants

LEMMA Zeros ==
    /\ 0 \in 0..MaxLog /\ -1 \in -1..MaxLog /\ 0 \in 0..MaxRewinds
    /\ 0 \in 0..WriteAttempts
    /\ \A n \in 0..MaxStops : n < MaxStops => n + 1 \in 0..MaxStops
    /\ \A n \in 0..MaxRebalances : n < MaxRebalances => n + 1 \in 0..MaxRebalances
  BY BoundsAreNumbers

\* A message that is ingested names a document and carries a content; one that
\* forgets names a document.
LEMMA DecideNames ==
    ASSUME NEW m \in Messages
    PROVE  /\ Decide(m) \in {"ingest", "forget", "park", "bad", "skip"}
           /\ Decide(m) = "ingest" => Target(m) \in Docs /\ m.text \in Versions
           /\ Decide(m) = "forget" => Target(m) \in Docs
  <1>1. m \in Message
    BY FeederConstants
  <1>2. /\ m.key \in Docs \cup {None} /\ m.id \in Docs \cup {None}
        /\ m.text \in Versions \cup {None}
        /\ m.form \in {"null", "garbage", "event"}
    BY <1>1 DEF Message
  <1> QED
    BY <1>2, FeederConstants DEF Decide, Target

\* The message in hand is in the topic while it is being handled, and stays
\* the same when the topic grows.
LEMMA InHand ==
    ASSUME TypeOK, Control, pc \in Busy
    PROVE  /\ hand \in 1..Len(topic) /\ hand \in Offsets
           /\ topic[hand] \in Messages
  BY DEF TypeOK, Control, Offsets

LEMMA InHandNames ==
    ASSUME TypeOK, Control, pc \in Busy
    PROVE  /\ Decision = "ingest" => D \in Docs /\ V \in Versions
           /\ Decision = "forget" => D \in Docs
  BY InHand, DecideNames DEF Decision, D, V

LEMMA ResolvedOffsets ==
    ASSUME TypeOK, Control
    PROVE  Resolved \subseteq 0..MaxLog /\ Resolved \subseteq 0..Len(topic)
  BY BoundsAreNumbers DEF TypeOK, Control, Resolved

LEMMA NextInTopic ==
    ASSUME TypeOK, Receive
    PROVE  /\ position + 1 \in 1..Len(topic) /\ position + 1 \in Offsets
           /\ position + 1 \in 0..MaxLog
  <1>1. position < Len(topic)
    BY DEF Receive, Take
  <1>2. position \in 0..MaxLog /\ Len(topic) <= MaxLog /\ Len(topic) \in Nat
    BY BoundsAreNumbers DEF TypeOK
  <1> QED
    BY <1>1, <1>2, BoundsAreNumbers DEF Offsets

LEMMA InitTypeInv == Init => TypeInv
  <1> SUFFICES ASSUME Init PROVE TypeInv
    OBVIOUS
  <1>1. leaves \in [Docs -> Seq(Versions)]
    <2>1. \A v \in Versions : <<v>> \in Seq(Versions)
      OBVIOUS
    <2>2. <<>> \in Seq(Versions)
      OBVIOUS
    <2>3. leaves \in [Docs -> {<<>>} \cup {<<v>> : v \in Versions}]
      BY DEF Init, StoresInit
    <2> QED
      BY <2>1, <2>2, <2>3
  <1>2. /\ body \in [Docs -> Versions \cup {None, Standin}]
        /\ fact \in [Docs -> Versions \cup {None, Unmarked}]
    BY DEF Init, StoresInit
  <1>3. fate \in [Offsets -> Fates]
    BY DEF Init, Fates
  <1>4. topic \in Seq(Messages) /\ Len(topic) = 0
    BY DEF Init
  <1>5. TypeOK
    <2>1. committed \in 0..MaxLog /\ pending \in -1..MaxLog /\ position \in 0..MaxLog
      BY BoundsAreNumbers DEF Init
    <2>2. stored \in -1..MaxLog /\ generation \in 0..MaxRewinds /\ hand \in 0..MaxLog
      BY BoundsAreNumbers DEF Init
    <2>3. received \in 0..MaxRewinds /\ attempt \in 0..WriteAttempts
      BY BoundsAreNumbers DEF Init
    <2>4. stops \in 0..MaxStops /\ rewinds \in 0..MaxRewinds
            /\ rebalances \in 0..MaxRebalances
      BY BoundsAreNumbers DEF Init
    <2>5. /\ deadLetters \subseteq Offsets /\ parked \subseteq Offsets
          /\ assigned \in BOOLEAN /\ stop \in BOOLEAN /\ pc \in PCs
      BY DEF Init, PCs
    <2>6. topic \in Seq(Messages) /\ Len(topic) <= MaxLog
      BY <1>4, BoundsAreNumbers
    <2> QED
      BY <1>1, <1>2, <1>3, <2>1, <2>2, <2>3, <2>4, <2>5, <2>6 DEF TypeOK
  <1>6. Control
    BY <1>4, BoundsAreNumbers DEF Init, Control, Busy
  <1> QED
    BY <1>5, <1>6 DEF TypeInv

LEMMA NextTypeInv == TypeInv /\ [Next]_vars => TypeInv'
  <1> SUFFICES ASSUME TypeInv, [Next]_vars PROVE TypeInv'
    OBVIOUS
  <1> USE BoundsAreNumbers DEF TypeInv
  <1>1. CASE \E m \in Messages : Produce(m)
    <2>1. TypeOK'
      BY <1>1, InHand DEF TypeOK, Busy, PCs, Fates, Offsets, Produce, broker, aside, client, task, stores, budgets
    <2>2. Control'
      BY <1>1, InHand DEF TypeOK, Control, Busy, PCs, Decision, D, Produce, broker, aside, client, task, stores, budgets
    <2> QED
      BY <2>1, <2>2
  <1>2. CASE BrokerAnswers
    <2>1. TypeOK'
      BY <1>2, InHand DEF TypeOK, Busy, PCs, Fates, Offsets, BrokerAnswers, Resolved, aside, client, task, stores, budgets
    <2>2. Control'
      BY <1>2, InHand DEF TypeOK, Control, Busy, PCs, Decision, D, BrokerAnswers, Resolved, aside, client, task, stores, budgets
    <2> QED
      BY <2>1, <2>2
  <1>3. CASE Revoke
    <2>1. committed' \in 0..MaxLog /\ committed' \in 0..Len(topic)
      BY <1>3, ResolvedOffsets DEF Revoke
    <2>2. TypeOK'
      BY <1>3, <2>1, Zeros DEF TypeOK, PCs, Revoke, aside, task, stores
    <2>3. Control'
      BY <1>3, <2>1 DEF TypeOK, Control, Busy, Decision, D, Revoke, aside, task, stores
    <2> QED
      BY <2>2, <2>3
  <1>4. CASE Assign
    <2>1. TypeOK'
      BY <1>4, InHand DEF TypeOK, Busy, PCs, Fates, Offsets, Assign, Resolved, aside, task, stores, budgets
    <2>2. Control'
      BY <1>4, InHand DEF TypeOK, Control, Busy, PCs, Decision, D, Assign, Resolved, aside, task, stores, budgets
    <2> QED
      BY <2>1, <2>2
  <1>5. CASE Start
    <2>1. TypeOK'
      BY <1>5, InHand DEF TypeOK, Busy, PCs, Fates, Offsets, Start, broker, aside, client, stores, budgets
    <2>2. Control'
      BY <1>5, InHand DEF TypeOK, Control, Busy, PCs, Decision, D, Start, broker, aside, client, stores, budgets
    <2> QED
      BY <2>1, <2>2
  <1>6. CASE Crash
    <2>1. committed' \in 0..MaxLog /\ committed' \in 0..Len(topic)
      BY <1>6, ResolvedOffsets DEF Crash
    <2>2. TypeOK'
      BY <1>6, <2>1, Zeros DEF TypeOK, PCs, Crash, ForgetMemory, aside, stores
    <2>3. Control'
      BY <1>6, <2>1 DEF TypeOK, Control, Busy, Decision, D, Crash, ForgetMemory, aside, stores
    <2> QED
      BY <2>2, <2>3
  <1>7. CASE Shutdown
    <2>1. TypeOK'
      BY <1>7, InHand DEF TypeOK, Busy, PCs, Fates, Offsets, Shutdown, broker, aside, client, task, stores
    <2>2. Control'
      BY <1>7, InHand DEF TypeOK, Control, Busy, PCs, Decision, D, Shutdown, broker, aside, client, task, stores
    <2> QED
      BY <2>1, <2>2
  <1>8. CASE Exit
    <2>1. committed' \in 0..MaxLog /\ committed' \in 0..Len(topic)
      BY <1>8, ResolvedOffsets DEF Exit
    <2>2. TypeOK'
      BY <1>8, <2>1, Zeros DEF TypeOK, PCs, Exit, ForgetMemory, aside, stores, budgets
    <2>3. Control'
      BY <1>8, <2>1 DEF TypeOK, Control, Busy, Decision, D, Exit, ForgetMemory, aside, stores, budgets
    <2> QED
      BY <2>2, <2>3
  <1>9. CASE Receive
    <2> DEFINE next == position + 1
    <2>1. next \in 1..Len(topic) /\ next \in Offsets /\ next \in 0..MaxLog
      BY <1>9, NextInTopic
    <2>2. topic[next] \in Messages
      BY <2>1 DEF TypeOK
    <2>3. /\ pc' \in {"write", "settle", "aside"}
          /\ pc' = "write" => Decide(topic[next]) \in {"ingest", "forget"}
      BY <1>9 DEF Receive, Take
    <2>4. fate' \in [Offsets -> Fates]
      BY <1>9, <2>1 DEF Receive, Take, TypeOK, Fates
    <2>5. /\ topic' = topic /\ position' = next /\ hand' = next
          /\ received' = generation /\ attempt' = 1
          /\ UNCHANGED <<broker, aside, assigned, stored, generation, stop, stores,
                         budgets>>
      BY <1>9 DEF Receive, Take
    <2> HIDE DEF next
    <2>6. TypeOK'
      BY <2>1, <2>3, <2>4, <2>5 DEF TypeOK, PCs, broker, aside, stores, budgets
    <2>7. Control'
      BY <2>1, <2>3, <2>5
         DEF TypeOK, Control, Busy, Decision, D, broker, stores, budgets
    <2> QED
      BY <2>6, <2>7
  <1>10. CASE LeaveLoop
    <2>1. TypeOK'
      BY <1>10, InHand DEF TypeOK, Busy, PCs, Fates, Offsets, LeaveLoop, broker, aside, client, stores, budgets
    <2>2. Control'
      BY <1>10, InHand DEF TypeOK, Control, Busy, PCs, Decision, D, LeaveLoop, broker, aside, client, stores, budgets
    <2> QED
      BY <2>1, <2>2
  <1>11. CASE IngestUnchanged
    <2>1. pc \in Busy /\ hand \in Offsets /\ D \in Docs /\ V \in Versions
      BY <1>11, InHand, InHandNames DEF IngestUnchanged, Busy, PCs
    <2>2. body' \in [Docs -> Versions \cup {None, Standin}]
      BY <1>11, <2>1 DEF IngestUnchanged, TypeOK
    <2>3. fate' \in [Offsets -> Fates]
      BY <1>11, <2>1 DEF IngestUnchanged, TypeOK, Fates
    <2>4. TypeOK'
      BY <1>11, <2>2, <2>3 DEF TypeOK, PCs, IngestUnchanged, Handling, broker, aside, client, stores, budgets
    <2>5. Control'
      BY <1>11, InHand DEF TypeOK, Control, Busy, PCs, Decision, D, IngestUnchanged, Handling, broker, aside, client, stores, budgets
    <2> QED
      BY <2>4, <2>5
  <1>12. CASE IngestDistill
    <2>1. TypeOK'
      BY <1>12, InHand DEF TypeOK, Busy, PCs, Fates, Offsets, IngestDistill, Handling, broker, aside, client, stores, budgets
    <2>2. Control'
      BY <1>12, InHand DEF TypeOK, Control, Busy, PCs, Decision, D, IngestDistill, Handling, broker, aside, client, stores, budgets
    <2> QED
      BY <2>1, <2>2
  <1>13. CASE Distilled
    <2>1. TypeOK'
      BY <1>13, InHand DEF TypeOK, Busy, PCs, Fates, Offsets, Distilled, Handling, broker, aside, client, stores, budgets
    <2>2. Control'
      BY <1>13, InHand DEF TypeOK, Control, Busy, PCs, Decision, D, Distilled, Handling, broker, aside, client, stores, budgets
    <2> QED
      BY <2>1, <2>2
  <1>14. CASE PlaceLeaf
    <2>1. pc \in Busy /\ D \in Docs /\ V \in Versions
      BY <1>14, InHandNames DEF PlaceLeaf, Control, Busy, PCs
    <2>2. leaves' \in [Docs -> Seq(Versions)]
      BY <1>14, <2>1 DEF PlaceLeaf, TypeOK
    <2>3. body' \in [Docs -> Versions \cup {None, Standin}]
      BY <1>14, <2>1 DEF PlaceLeaf, TypeOK
    <2>4. TypeOK'
      BY <1>14, <2>2, <2>3 DEF TypeOK, PCs, PlaceLeaf, Handling, broker, aside, client, stores, budgets
    <2>5. /\ leaves'[D] = Append(leaves[D], V)
          /\ leaves[D] \in Seq(Versions)
      BY <1>14, <2>1 DEF PlaceLeaf, TypeOK
    <2>6. pc' = "prune" => Len(leaves'[D]) >= 2
      BY <1>14, <2>1, <2>5 DEF PlaceLeaf
    <2>7. /\ pc' \in {"fact", "prune"} /\ D' = D /\ Decision' = Decision
          /\ Decision = "ingest"
      BY <1>14 DEF PlaceLeaf, Control, D, Decision, Handling
    <2>8. Control'
      BY <1>14, <2>1, <2>6, <2>7
         DEF TypeOK, Control, Busy, PCs, PlaceLeaf, Handling, broker, aside, client, stores, budgets
    <2> QED
      BY <2>4, <2>8
  <1>15. CASE PruneLeaf
    <2>1. pc \in Busy /\ D \in Docs
      BY <1>15, InHandNames DEF PruneLeaf, Control, Busy, PCs
    <2>2. leaves[D] \in Seq(Versions) /\ Len(leaves[D]) >= 2
      BY <1>15, <2>1 DEF PruneLeaf, Control, TypeOK
    <2>3. Tail(leaves[D]) \in Seq(Versions) /\ Len(Tail(leaves[D])) = Len(leaves[D]) - 1
      BY <2>2
    <2>4. leaves' \in [Docs -> Seq(Versions)] /\ leaves'[D] = Tail(leaves[D])
      BY <1>15, <2>1, <2>3 DEF PruneLeaf, TypeOK
    <2>5. TypeOK'
      BY <1>15, <2>4 DEF TypeOK, PCs, PruneLeaf, Handling, broker, aside, client, stores, budgets
    <2>6. pc' = "prune" => Len(leaves'[D]) >= 2
      BY <1>15, <2>2, <2>3, <2>4 DEF PruneLeaf
    <2>7. /\ pc' \in {"fact", "prune"} /\ D' = D /\ Decision' = Decision
          /\ Decision = "ingest"
      BY <1>15 DEF PruneLeaf, Control, D, Decision, Handling
    <2>8. Control'
      BY <1>15, <2>1, <2>6, <2>7
         DEF TypeOK, Control, Busy, PCs, PruneLeaf, Handling, broker, aside, client, stores, budgets
    <2> QED
      BY <2>5, <2>8
  <1>16. CASE WriteFact
    <2>1. pc \in Busy /\ hand \in Offsets /\ D \in Docs /\ V \in Versions
      BY <1>16, InHand, InHandNames DEF WriteFact, Control, Busy, PCs
    <2>2. fact' \in [Docs -> Versions \cup {None, Unmarked}]
      BY <1>16, <2>1 DEF WriteFact, TypeOK
    <2>3. fate' \in [Offsets -> Fates]
      BY <1>16, <2>1 DEF WriteFact, TypeOK, Fates
    <2>4. TypeOK'
      BY <1>16, <2>2, <2>3 DEF TypeOK, PCs, WriteFact, Handling, broker, aside, client, stores, budgets
    <2>5. Control'
      BY <1>16, InHand DEF TypeOK, Control, Busy, PCs, Decision, D, WriteFact, Handling, broker, aside, client, stores, budgets
    <2> QED
      BY <2>4, <2>5
  <1>17. CASE BeginForget
    <2>1. TypeOK'
      BY <1>17, InHand DEF TypeOK, Busy, PCs, Fates, Offsets, BeginForget, Handling, broker, aside, client, stores, budgets
    <2>2. Control'
      BY <1>17, InHand DEF TypeOK, Control, Busy, PCs, Decision, D, BeginForget, Handling, broker, aside, client, stores, budgets
    <2> QED
      BY <2>1, <2>2
  <1>18. CASE UnlinkLeaf
    <2>1. pc \in Busy /\ D \in Docs
      BY <1>18, InHandNames DEF UnlinkLeaf, Control, Busy, PCs
    <2>2. leaves[D] \in Seq(Versions) /\ leaves[D] # <<>>
      BY <1>18, <2>1 DEF UnlinkLeaf, TypeOK
    <2>3. Tail(leaves[D]) \in Seq(Versions)
      BY <2>2
    <2>4. leaves' \in [Docs -> Seq(Versions)]
      BY <1>18, <2>3 DEF UnlinkLeaf, TypeOK
    <2>5. body' \in [Docs -> Versions \cup {None, Standin}]
      BY <1>18, <2>1 DEF UnlinkLeaf, TypeOK
    <2>6. TypeOK'
      BY <1>18, <2>4, <2>5 DEF TypeOK, PCs, UnlinkLeaf, Handling, broker, aside, client, stores, budgets
    <2>7. Control'
      BY <1>18, InHand DEF TypeOK, Control, Busy, PCs, Decision, D, UnlinkLeaf, Handling, broker, aside, client, stores, budgets
    <2> QED
      BY <2>6, <2>7
  <1>19. CASE DropBody
    <2>1. TypeOK'
      BY <1>19, InHand DEF TypeOK, Busy, PCs, Fates, Offsets, DropBody, Handling, broker, aside, client, stores, budgets
    <2>2. Control'
      BY <1>19, InHand DEF TypeOK, Control, Busy, PCs, Decision, D, DropBody, Handling, broker, aside, client, stores, budgets
    <2> QED
      BY <2>1, <2>2
  <1>20. CASE DropFact
    <2>1. TypeOK'
      BY <1>20, InHand DEF TypeOK, Busy, PCs, Fates, Offsets, DropFact, Handling, broker, aside, client, stores, budgets
    <2>2. Control'
      BY <1>20, InHand DEF TypeOK, Control, Busy, PCs, Decision, D, DropFact, Handling, broker, aside, client, stores, budgets
    <2> QED
      BY <2>1, <2>2
  <1>21. CASE WriteFails
    <2>1. TypeOK'
      BY <1>21, InHand DEF TypeOK, Busy, PCs, Fates, Offsets, WriteFails, GiveUp, Writing, Handling, broker, aside, client, stores, budgets
    <2>2. Control'
      BY <1>21, InHand DEF TypeOK, Control, Busy, PCs, Decision, D, WriteFails, GiveUp, Writing, Handling, broker, aside, client, stores, budgets
    <2> QED
      BY <2>1, <2>2
  <1>22. CASE SetAside
    <2>1. TypeOK'
      BY <1>22, InHand DEF TypeOK, Busy, PCs, Fates, Offsets, SetAside, Forwarded, Handling, broker, aside, client, stores, budgets
    <2>2. Control'
      BY <1>22, InHand DEF TypeOK, Control, Busy, PCs, Decision, D, SetAside, Forwarded, Handling, broker, aside, client, stores, budgets
    <2> QED
      BY <2>1, <2>2
  <1>23. CASE SetAsideFails
    <2>1. TypeOK'
      BY <1>23, InHand DEF TypeOK, Busy, PCs, Fates, Offsets, SetAsideFails, Forwarded, Handling, broker, aside, client, stores, budgets
    <2>2. Control'
      BY <1>23, InHand DEF TypeOK, Control, Busy, PCs, Decision, D, SetAsideFails, Forwarded, Handling, broker, aside, client, stores, budgets
    <2> QED
      BY <2>1, <2>2
  <1>24. CASE RetryWrite
    <2>1. attempt' \in 0..WriteAttempts
      BY <1>24 DEF RetryWrite, TypeOK, Control
    <2>2. TypeOK'
      BY <1>24, <2>1 DEF TypeOK, PCs, RetryWrite, Handling, broker, aside, client, stores, budgets
    <2>3. Control'
      BY <1>24 DEF TypeOK, Control, Busy, PCs, Decision, D, RetryWrite, Handling, broker, aside, client, stores, budgets
    <2> QED
      BY <2>2, <2>3
  <1>25. CASE RetryAside
    <2>1. TypeOK'
      BY <1>25, InHand DEF TypeOK, Busy, PCs, Fates, Offsets, RetryAside, Handling, broker, aside, client, stores, budgets
    <2>2. Control'
      BY <1>25, InHand DEF TypeOK, Control, Busy, PCs, Decision, D, RetryAside, Handling, broker, aside, client, stores, budgets
    <2> QED
      BY <2>1, <2>2
  <1>26. CASE Interrupt
    <2>1. TypeOK'
      BY <1>26, InHand DEF TypeOK, Busy, PCs, Fates, Offsets, Interrupt, Handling, broker, aside, client, stores, budgets
    <2>2. Control'
      BY <1>26, InHand DEF TypeOK, Control, Busy, PCs, Decision, D, Interrupt, Handling, broker, aside, client, stores, budgets
    <2> QED
      BY <2>1, <2>2
  <1>27. CASE Settle
    <2>1. hand \in 1..Len(topic) /\ hand \in 0..MaxLog
      BY <1>27, InHand DEF Settle, StoreAndCommit, Busy, PCs, TypeOK
    <2>2. stored' \in {stored, hand} /\ pending' \in {pending, hand}
      BY <1>27 DEF Settle, StoreAndCommit
    <2>3. /\ pc' = "idle" /\ hand' = 0 /\ received' = 0 /\ attempt' = 0
          /\ UNCHANGED <<topic, committed, aside, assigned, position, generation,
                         stop, stores, fate, budgets>>
      BY <1>27 DEF Settle, StoreAndCommit
    <2>4. TypeOK'
      BY <2>1, <2>2, <2>3 DEF TypeOK, PCs, aside, stores, budgets
    <2>5. Control'
      BY <2>1, <2>2, <2>3 DEF TypeOK, Control, Busy, budgets
    <2> QED
      BY <2>4, <2>5
  <1>28. CASE Close
    <2>1. TypeOK'
      BY <1>28, InHand DEF TypeOK, Busy, PCs, Fates, Offsets, Close, Resolved, aside, client, stores, budgets
    <2>2. Control'
      BY <1>28, InHand DEF TypeOK, Control, Busy, PCs, Decision, D, Close, Resolved, aside, client, stores, budgets
    <2> QED
      BY <2>1, <2>2
  <1>29. CASE \E outcome \in RewindOutcomes : Rewind(outcome)
    <2>1. PICK outcome \in RewindOutcomes : Rewind(outcome)
      BY <1>29
    <2>2. /\ generation' = generation + 1
          /\ UNCHANGED <<topic, aside, assigned, stop, task, stores, stops, rebalances>>
          /\ rewinds < MaxRewinds /\ rewinds' = rewinds + 1
      BY <2>1 DEF Rewind, RewindToEarliest
    <2>3. /\ position' \in {0, position} /\ stored' \in {0, stored}
          /\ pending' \in {-1, pending} /\ committed' \in {0, committed} \cup Resolved
      BY <2>1 DEF Rewind, RewindToEarliest
    <2>4. fate' \in [Offsets -> Fates]
      BY <2>1 DEF Rewind, TypeOK, Fates
    <2>5. committed' \in 0..MaxLog /\ committed' \in 0..Len(topic)
      BY <2>3, ResolvedOffsets DEF TypeOK, Control
    <2>6. TypeOK'
      BY <2>2, <2>3, <2>4, <2>5 DEF TypeOK, Control, aside, task, stores
    <2>7. Control'
      BY <2>2, <2>3, <2>5 DEF TypeOK, Control, Decision, D, task, stores
    <2> QED
      BY <2>6, <2>7
  <1>30. CASE UNCHANGED vars
    <2>1. TypeOK'
      BY <1>30, InHand DEF TypeOK, Busy, PCs, Fates, Offsets, vars, broker, aside, client, task, stores, budgets
    <2>2. Control'
      BY <1>30, InHand DEF TypeOK, Control, Busy, PCs, Decision, D, vars, broker, aside, client, task, stores, budgets
    <2> QED
      BY <2>1, <2>2
  <1> QED
    BY <1>1, <1>2, <1>3, <1>4, <1>5, <1>6, <1>7, <1>8, <1>9, <1>10, <1>11, <1>12, <1>13, <1>14, <1>15, <1>16, <1>17, <1>18, <1>19, <1>20, <1>21, <1>22, <1>23, <1>24, <1>25, <1>26, <1>27, <1>28, <1>29, <1>30
       DEF Next, FeederTask, Environment, Process, Ingest, ForgetDoc, Retries

-----------------------------------------------------------------------------
LEMMA InitProgress == Init => Progress
  BY DEF Init, Progress, HandledUpTo

\* A message that has been handled keeps whatever was below it handled.
LEMMA HandleOne ==
    ASSUME TypeInv, Progress, pc \in Busy, NEW f \in Fates \ {"none"},
           fate' = [fate EXCEPT ![hand] = f],
           UNCHANGED <<committed, pending, stored, position, hand, received, generation>>
    PROVE  Progress'
  <1>1. hand \in Offsets /\ fate \in [Offsets -> Fates]
    BY InHand DEF TypeInv, TypeOK
  <1>2. Handled(hand)' /\ \A o : o \in Offsets /\ Handled(o) => Handled(o)'
    BY <1>1 DEF Handled
  <1>3. \A n \in -1..MaxLog : HandledUpTo(n) => HandledUpTo(n)'
    BY <1>2, BoundsAreNumbers DEF HandledUpTo, Offsets
  <1>4. /\ committed \in -1..MaxLog /\ pending \in -1..MaxLog /\ stored \in -1..MaxLog
        /\ hand - 1 \in -1..MaxLog /\ 1..position \subseteq Offsets
    BY <1>1, BoundsAreNumbers DEF TypeInv, TypeOK, Offsets
  <1>5. HandledUpTo(committed)' /\ HandledUpTo(pending)' /\ HandledUpTo(stored)'
    BY <1>3, <1>4 DEF Progress
  <1>6. (received = generation => HandledUpTo(hand - 1))'
    BY <1>3, <1>4 DEF Progress
  <1>7. (\A o \in 1..position : o = hand \/ Handled(o))'
    BY <1>2, <1>4 DEF Progress
  <1> QED
    BY <1>2, <1>5, <1>6, <1>7 DEF Progress

LEMMA NextProgress == TypeInv /\ Progress /\ [Next]_vars => Progress'
  <1> SUFFICES ASSUME TypeInv, Progress, [Next]_vars PROVE Progress'
    OBVIOUS
  <1> USE BoundsAreNumbers DEF TypeInv
  <1>1. CASE \E m \in Messages : Produce(m)
    BY <1>1 DEF Progress, HandledUpTo, Handled, TypeOK, Control, Produce, broker, aside, client, task, stores, budgets
  <1>2. CASE BrokerAnswers
    BY <1>2 DEF Progress, HandledUpTo, Handled, TypeOK, Control, BrokerAnswers, Resolved, aside, client, task, stores, budgets
  <1>3. CASE Revoke
    BY <1>3 DEF Progress, HandledUpTo, Handled, TypeOK, Control, Revoke, Resolved, aside, task, stores
  <1>4. CASE Assign
    BY <1>4 DEF Progress, HandledUpTo, Handled, TypeOK, Control, Assign, Resolved, aside, task, stores, budgets
  <1>5. CASE Start
    BY <1>5 DEF Progress, HandledUpTo, Handled, TypeOK, Control, Start, broker, aside, client, stores, budgets
  <1>6. CASE Crash
    BY <1>6 DEF Progress, HandledUpTo, Handled, TypeOK, Control, Crash, Resolved, ForgetMemory, aside, stores
  <1>7. CASE Shutdown
    BY <1>7 DEF Progress, HandledUpTo, Handled, TypeOK, Control, Shutdown, broker, aside, client, task, stores
  <1>8. CASE Exit
    BY <1>8 DEF Progress, HandledUpTo, Handled, TypeOK, Control, Exit, Resolved, ForgetMemory, aside, stores, budgets
  <1>9. CASE Receive
    <2>1. /\ hand = 0 /\ hand' = position + 1 /\ position' = position + 1
          /\ UNCHANGED <<committed, pending, stored, generation>>
      BY <1>9 DEF Receive, Take, Control, broker
    <2>2. position + 1 \in Offsets
      BY <1>9, NextInTopic
    <2>3. \A o \in Offsets : Handled(o) => Handled(o)'
      BY <1>9, <2>2 DEF Receive, Take, Handled, TypeOK
    <2>4. pc' = "settle" => Handled(hand)'
      BY <1>9, <2>2 DEF Receive, Take, Handled, TypeOK
    <2>5. HandledUpTo(position) /\ position \in 0..MaxLog
      BY <2>1 DEF Progress, HandledUpTo, TypeOK
    <2>6. \A n \in -1..MaxLog : HandledUpTo(n) => HandledUpTo(n)'
      BY <2>3 DEF HandledUpTo, Offsets
    <2>7. HandledUpTo(hand - 1)'
      <3>1. hand' - 1 = position /\ position \in -1..MaxLog
        BY <2>1, <2>5
      <3> QED
        BY <3>1, <2>5, <2>6
    <2> QED
      BY <2>1, <2>3, <2>4, <2>5, <2>6, <2>7 DEF Progress, TypeOK, HandledUpTo, Offsets
  <1>10. CASE LeaveLoop
    BY <1>10 DEF Progress, HandledUpTo, Handled, TypeOK, Control, LeaveLoop, broker, aside, client, stores, budgets
  <1>11. CASE IngestUnchanged
    BY <1>11, HandleOne DEF IngestUnchanged, Handling, client, broker, Busy, PCs, Fates
  <1>12. CASE IngestDistill
    BY <1>12 DEF Progress, HandledUpTo, Handled, TypeOK, Control, IngestDistill, Handling, broker, aside, client, stores, budgets
  <1>13. CASE Distilled
    BY <1>13 DEF Progress, HandledUpTo, Handled, TypeOK, Control, Distilled, Handling, broker, aside, client, stores, budgets
  <1>14. CASE PlaceLeaf
    BY <1>14 DEF Progress, HandledUpTo, Handled, TypeOK, Control, PlaceLeaf, Handling, broker, aside, client, stores, budgets
  <1>15. CASE PruneLeaf
    BY <1>15 DEF Progress, HandledUpTo, Handled, TypeOK, Control, PruneLeaf, Handling, broker, aside, client, stores, budgets
  <1>16. CASE WriteFact
    BY <1>16, HandleOne DEF WriteFact, Handling, client, broker, Busy, PCs, Fates
  <1>17. CASE BeginForget
    BY <1>17 DEF Progress, HandledUpTo, Handled, TypeOK, Control, BeginForget, Handling, broker, aside, client, stores, budgets
  <1>18. CASE UnlinkLeaf
    BY <1>18 DEF Progress, HandledUpTo, Handled, TypeOK, Control, UnlinkLeaf, Handling, broker, aside, client, stores, budgets
  <1>19. CASE DropBody
    BY <1>19 DEF Progress, HandledUpTo, Handled, TypeOK, Control, DropBody, Handling, broker, aside, client, stores, budgets
  <1>20. CASE DropFact
    BY <1>20, HandleOne DEF DropFact, Handling, client, broker, Busy, PCs, Fates
  <1>21. CASE WriteFails
    BY <1>21 DEF Progress, HandledUpTo, Handled, TypeOK, Control, WriteFails, GiveUp, Writing, Handling, broker, aside, client, stores, budgets
  <1>22. CASE SetAside
    BY <1>22, HandleOne DEF SetAside, Handling, client, broker, Busy, PCs, Fates
  <1>23. CASE SetAsideFails
    BY <1>23 DEF Progress, HandledUpTo, Handled, TypeOK, Control, SetAsideFails, Forwarded, Handling, broker, aside, client, stores, budgets
  <1>24. CASE RetryWrite
    BY <1>24 DEF Progress, HandledUpTo, Handled, TypeOK, Control, RetryWrite, Handling, broker, aside, client, stores, budgets
  <1>25. CASE RetryAside
    BY <1>25 DEF Progress, HandledUpTo, Handled, TypeOK, Control, RetryAside, Handling, broker, aside, client, stores, budgets
  <1>26. CASE Interrupt
    BY <1>26 DEF Progress, HandledUpTo, Handled, TypeOK, Control, Interrupt, Handling, broker, aside, client, stores, budgets
  <1>27. CASE Settle
    <2>1. hand \in 1..Len(topic) /\ Handled(hand)
      BY <1>27, InHand DEF Settle, StoreAndCommit, Busy, PCs, Progress
    <2>2. /\ pc' = "idle" /\ hand' = 0 /\ received' = 0
          /\ UNCHANGED <<committed, position, generation, fate>>
      BY <1>27 DEF Settle, StoreAndCommit
    <2>3. \/ UNCHANGED <<stored, pending>>
          \/ received = generation /\ stored' \in {stored, hand}
                                   /\ pending' \in {pending, hand}
      BY <1>27 DEF Settle, StoreAndCommit
    <2>4. received = generation => HandledUpTo(hand)
      BY <2>1 DEF Progress, HandledUpTo, TypeOK
    <2>5. HandledUpTo(stored') /\ HandledUpTo(pending')
      BY <2>3, <2>4 DEF Progress
    <2> QED
      BY <2>1, <2>2, <2>5 DEF Progress, HandledUpTo, Handled
  <1>28. CASE Close
    BY <1>28 DEF Progress, HandledUpTo, Handled, TypeOK, Control, Close, Resolved, aside, client, stores, budgets
  <1>29. CASE \E outcome \in RewindOutcomes : Rewind(outcome)
    <2>1. PICK outcome \in RewindOutcomes : Rewind(outcome)
      BY <1>29
    <2>2. /\ generation' = generation + 1 /\ UNCHANGED <<received, hand, pc>>
          /\ pc # "settle"
      BY <2>1 DEF Rewind, RewindToEarliest, task, AwaitPoints
    <2>3. received' # generation'
      BY <2>2 DEF Control, TypeOK
    <2>4. CASE assigned /\ outcome = "done"
      <3>1. committed' = 0 /\ pending' = -1 /\ stored' = 0 /\ position' = 0
        BY <2>1, <2>4 DEF Rewind, RewindToEarliest
      <3> QED
        BY <2>2, <2>3, <3>1 DEF Progress, HandledUpTo
    <2>5. CASE ~(assigned /\ outcome = "done")
      <3>1. UNCHANGED fate
        BY <2>1, <2>5 DEF Rewind
      <3>2. /\ committed' \in {0, committed, pending} /\ pending' \in {-1, pending}
            /\ stored' \in {0, stored} /\ position' \in {0, position}
        BY <2>1 DEF Rewind, RewindToEarliest, Resolved
      <3> QED
        BY <2>2, <2>3, <3>1, <3>2 DEF Progress, HandledUpTo, Handled
    <2> QED
      BY <2>4, <2>5
  <1>30. CASE UNCHANGED vars
    BY <1>30 DEF Progress, HandledUpTo, Handled, TypeOK, Control, vars, broker, aside, client, task, stores, budgets
  <1> QED
    BY <1>1, <1>2, <1>3, <1>4, <1>5, <1>6, <1>7, <1>8, <1>9, <1>10, <1>11, <1>12, <1>13, <1>14, <1>15, <1>16, <1>17, <1>18, <1>19, <1>20, <1>21, <1>22, <1>23, <1>24, <1>25, <1>26, <1>27, <1>28, <1>29, <1>30
       DEF Next, FeederTask, Environment, Process, Ingest, ForgetDoc, Retries

-----------------------------------------------------------------------------
LEMMA Inductive == Spec => []IInv
  <1>1. Init => IInv
    BY InitTypeInv, InitProgress DEF IInv
  <1>2. IInv /\ [Next]_vars => IInv'
    BY NextTypeInv, NextProgress DEF IInv
  <1> QED
    BY <1>1, <1>2, PTL DEF Spec

\* Every variable keeps its type, for every set of messages and every bound.
THEOREM TypeCorrect == Spec => []TypeOK
  <1>1. IInv => TypeOK
    BY DEF IInv, TypeInv
  <1> QED
    BY <1>1, Inductive, PTL

\* The committed offset never covers a message that was not dealt with, whatever
\* crashes, shutdowns, rewinds and rebalances do in between.
THEOREM NothingSkipped == Spec => []CommittedOnlyHandled
  <1>1. IInv => CommittedOnlyHandled
    BY DEF IInv, Progress, HandledUpTo, CommittedOnlyHandled
  <1> QED
    BY <1>1, Inductive, PTL

-----------------------------------------------------------------------------
(***************************************************************************)
(* The feeder implements AtLeastOnce.                                      *)
(***************************************************************************)
HandledSet == {o \in Offsets : Handled(o)}

\* Only messages that are in the topic have been handled.
HandledInTopic == HandledSet \subseteq 1..Len(topic)

\* A step that neither appends nor handles is a commit of the contract, if
\* perhaps of the offset that was committed already.
LEMMA CommitStep ==
    ASSUME TypeInv', Progress', UNCHANGED <<topic, fate>>
    PROVE  Contract!Commit
  <1>1. /\ committed' \in 0..Len(topic) /\ Len(topic) <= MaxLog
        /\ Len(topic) \in Nat
    BY DEF TypeInv, TypeOK, Control
  <1>2. \A o \in 1..committed' : o \in Offsets /\ Handled(o)
    BY <1>1, BoundsAreNumbers DEF Progress, HandledUpTo, Handled, Offsets
  <1>3. HandledSet' = HandledSet
    BY DEF HandledSet, Handled, Offsets
  <1> QED
    BY <1>1, <1>2, <1>3 DEF Contract!Commit, HandledSet

\* Recording the fate of message o handles it, unless it was handled before.
LEMMA HandleStep ==
    ASSUME TypeInv, HandledInTopic, NEW o \in 1..Len(topic),
           NEW f \in Fates \ {"none"},
           fate' = [fate EXCEPT ![o] = f], UNCHANGED <<topic, committed>>
    PROVE  (Contract!Next \/ UNCHANGED Contract!vars) /\ HandledInTopic'
  <1>1. o \in Offsets /\ fate \in [Offsets -> Fates]
    BY BoundsAreNumbers DEF TypeInv, TypeOK, Offsets
  <1>2. HandledSet' = HandledSet \cup {o}
    BY <1>1 DEF HandledSet, Handled
  <1>3. HandledInTopic'
    BY <1>2 DEF HandledInTopic
  <1>4. CASE o \in HandledSet
    BY <1>2, <1>3, <1>4 DEF Contract!vars, HandledSet
  <1>5. CASE o \notin HandledSet
    <2>1. Contract!Handle(o)
      BY <1>2, <1>5 DEF Contract!Handle, HandledSet
    <2> QED
      BY <1>3, <2>1 DEF Contract!Next
  <1> QED
    BY <1>4, <1>5

LEMMA InitContract == Init => Contract!Init /\ HandledInTopic
  BY DEF Init, Contract!Init, HandledInTopic, HandledSet, Handled

\* What leaves the topic and the record of handled messages alone.
Quiet == \/ BrokerAnswers \/ Revoke \/ Assign \/ Start \/ Crash \/ Shutdown
         \/ Exit \/ LeaveLoop \/ IngestDistill \/ Distilled \/ PlaceLeaf
         \/ PruneLeaf \/ BeginForget \/ UnlinkLeaf \/ DropBody \/ WriteFails
         \/ SetAsideFails \/ RetryWrite \/ RetryAside \/ Interrupt \/ Settle
         \/ Close

LEMMA QuietStep == Quiet => UNCHANGED <<topic, fate>>
  BY DEF Quiet, Handling, BrokerAnswers, Revoke, Assign, Start, Crash, Shutdown,
         Exit, LeaveLoop, IngestDistill, Distilled, PlaceLeaf, PruneLeaf,
         BeginForget, UnlinkLeaf, DropBody, WriteFails, GiveUp, SetAsideFails,
         RetryWrite, RetryAside, Interrupt, Settle, StoreAndCommit, Close

LEMMA NextContract ==
    ASSUME IInv, IInv', HandledInTopic, [Next]_vars
    PROVE  (Contract!Next \/ UNCHANGED Contract!vars) /\ HandledInTopic'
  <1> USE DEF IInv
  <1>1. CASE \E m \in Messages : Produce(m)
    <2>1. /\ Len(topic') = Len(topic) + 1 /\ Len(topic) \in Nat
          /\ UNCHANGED <<fate, committed>>
      BY <1>1 DEF Produce, broker, TypeInv, TypeOK
    <2>2. HandledSet' = HandledSet
      BY <2>1 DEF HandledSet, Handled, Offsets
    <2>3. Contract!Produce
      BY <2>1, <2>2 DEF Contract!Produce, HandledSet
    <2> QED
      BY <2>1, <2>2, <2>3 DEF Contract!Next, HandledInTopic
  <1>2. ASSUME UNCHANGED <<topic, fate>>
        PROVE  (Contract!Next \/ UNCHANGED Contract!vars) /\ HandledInTopic'
    BY <1>2, CommitStep DEF Contract!Next, HandledInTopic, HandledSet, Handled, Offsets
  <1>3. CASE Quiet \/ UNCHANGED vars
    BY <1>2, <1>3, QuietStep DEF vars
  <1>4. CASE IngestUnchanged \/ WriteFact \/ DropFact \/ SetAside
    <2>1. pc \in Busy
      BY <1>4 DEF IngestUnchanged, WriteFact, DropFact, SetAside, Busy, PCs
    <2>2. hand \in 1..Len(topic)
      BY <2>1, InHand DEF TypeInv
    <2>3. UNCHANGED <<topic, committed>>
      BY <1>4 DEF IngestUnchanged, WriteFact, DropFact, SetAside, Handling, broker
    <2>4. \E f \in Fates \ {"none"} : fate' = [fate EXCEPT ![hand] = f]
      BY <1>4 DEF IngestUnchanged, WriteFact, DropFact, SetAside, Fates
    <2> QED
      BY <2>2, <2>3, <2>4, HandleStep
  <1>5. CASE Receive
    <2>1. position + 1 \in 1..Len(topic)
      BY <1>5, NextInTopic DEF TypeInv
    <2>2. UNCHANGED <<topic, committed>>
      BY <1>5 DEF Receive, Take, broker
    <2>3. CASE fate' = [fate EXCEPT ![position + 1] = "skipped"]
      BY <2>1, <2>2, <2>3, HandleStep DEF Fates
    <2>4. CASE UNCHANGED fate
      BY <1>2, <2>2, <2>4
    <2> QED
      BY <1>5, <2>3, <2>4 DEF Receive, Take
  <1>6. CASE \E outcome \in RewindOutcomes : Rewind(outcome)
    <2>1. PICK outcome \in RewindOutcomes : Rewind(outcome)
      BY <1>6
    <2>2. UNCHANGED topic
      BY <2>1 DEF Rewind, RewindToEarliest
    <2>3. CASE assigned /\ outcome = "done"
      <3>1. committed' = 0 /\ fate' = [o \in Offsets |-> "none"]
        BY <2>1, <2>3 DEF Rewind, RewindToEarliest
      <3>2. HandledSet' = {}
        BY <3>1 DEF HandledSet, Handled
      <3>3. Contract!Rewind
        BY <2>2, <3>1, <3>2 DEF Contract!Rewind, HandledSet
      <3> QED
        BY <3>2, <3>3 DEF Contract!Next, HandledInTopic
    <2>4. CASE ~(assigned /\ outcome = "done")
      <3>1. UNCHANGED fate
        BY <2>1, <2>4 DEF Rewind
      <3> QED
        BY <1>2, <2>2, <3>1
    <2> QED
      BY <2>3, <2>4
  <1> QED
    BY <1>1, <1>3, <1>4, <1>5, <1>6
       DEF Next, FeederTask, Environment, Process, Ingest, ForgetDoc, Retries, Quiet

\* The feeder's offsets, side topics and retries implement the delivery contract:
\* every step appends, handles one message, moves the committed offset within
\* what is handled, or rewinds.
THEOREM Delivery == Spec => AtLeastOnceDelivery
  <1>1. Init => Contract!Init /\ HandledInTopic
    BY InitContract
  <1>2. IInv /\ IInv' /\ HandledInTopic /\ [Next]_vars
          => [Contract!Next]_(Contract!vars) /\ HandledInTopic'
    BY NextContract
  <1> QED
    BY <1>1, <1>2, Inductive, PTL DEF Spec, AtLeastOnceDelivery, Contract!Spec

-----------------------------------------------------------------------------
(***************************************************************************)
(* What became of each message.                                            *)
(***************************************************************************)
\* A message that was handled is where its kind belongs.
InItsPlace(o) ==
    /\ Decide(topic[o]) = "park" => o \in parked
    /\ Decide(topic[o]) = "bad" => o \in deadLetters
    /\ Decide(topic[o]) \in {"ingest", "forget"}
          => o \in deadLetters \/ fate[o] \in {"ingested", "unchanged", "forgotten"}

Accounted == \A o \in Offsets : Handled(o) => o \in 1..Len(topic) /\ InItsPlace(o)

\* What was accounted for stays so while no topic loses a message.
LEMMA StaysInPlace ==
    ASSUME TypeInv, Accounted, Len(topic) <= Len(topic'), Len(topic') \in Nat,
           \A o \in 1..Len(topic) : topic'[o] = topic[o],
           parked \subseteq parked', deadLetters \subseteq deadLetters',
           NEW o \in Offsets, Handled(o), fate'[o] = fate[o]
    PROVE  o \in 1..Len(topic') /\ InItsPlace(o)'
  <1>1. Len(topic) \in Nat
    BY DEF TypeInv, TypeOK
  <1>2. o \in 1..Len(topic) /\ InItsPlace(o)
    BY DEF Accounted
  <1>3. topic'[o] = topic[o]
    BY <1>2
  <1> QED
    BY <1>1, <1>2, <1>3 DEF InItsPlace

LEMMA QuietAccounted ==
    ASSUME TypeInv, Accounted, UNCHANGED <<topic, fate>>,
           parked \subseteq parked', deadLetters \subseteq deadLetters'
    PROVE  Accounted'
  <1>1. Len(topic) \in Nat
    BY DEF TypeInv, TypeOK
  <1> QED
    BY <1>1, StaysInPlace DEF Accounted, Handled, Offsets

\* The message in hand is dealt with, and the rest is left alone.
LEMMA OneAccounted ==
    ASSUME TypeInv, Accounted, NEW n \in 1..Len(topic), NEW f,
           UNCHANGED topic, fate' = [fate EXCEPT ![n] = f], InItsPlace(n)',
           parked \subseteq parked', deadLetters \subseteq deadLetters'
    PROVE  Accounted'
  <1>1. Len(topic) \in Nat /\ fate \in [Offsets -> Fates]
    BY DEF TypeInv, TypeOK
  <1> SUFFICES ASSUME NEW o \in Offsets, Handled(o)'
               PROVE  o \in 1..Len(topic') /\ InItsPlace(o)'
    BY DEF Accounted, Offsets
  <1>2. CASE o = n
    BY <1>2
  <1>3. CASE o # n
    <2>1. fate'[o] = fate[o] /\ Handled(o)
      BY <1>1, <1>3 DEF Handled
    <2> QED
      BY <1>1, <2>1, StaysInPlace
  <1> QED
    BY <1>2, <1>3

LEMMA ForwardedGrows ==
    ASSUME NEW o, Forwarded(o)
    PROVE  /\ parked \subseteq parked' /\ deadLetters \subseteq deadLetters'
           /\ IF Decision = "park" THEN o \in parked' ELSE o \in deadLetters'
  BY DEF Forwarded

LEMMA NextAccounted ==
    ASSUME TypeInv, Accounted, [Next]_vars
    PROVE  Accounted'
  <1>1. CASE \E m \in Messages : Produce(m)
    <2>1. PICK m \in Messages : Produce(m)
      BY <1>1
    <2>2. /\ topic' = Append(topic, m) /\ topic \in Seq(Messages)
          /\ UNCHANGED <<fate, parked, deadLetters>>
      BY <2>1 DEF Produce, aside, TypeInv, TypeOK
    <2>3. /\ Len(topic) <= Len(topic') /\ Len(topic') \in Nat
          /\ \A o \in 1..Len(topic) : topic'[o] = topic[o]
      BY <2>2
    <2> QED
      BY <2>2, <2>3, StaysInPlace DEF Accounted, Handled, Offsets
  <1>2. CASE (Quiet /\ ~SetAsideFails) \/ UNCHANGED vars
    <2>1. UNCHANGED <<topic, fate>>
      BY <1>2, QuietStep DEF vars
    <2>2. UNCHANGED <<parked, deadLetters>>
      BY <1>2 DEF Quiet, vars, aside, BrokerAnswers, Revoke, Assign, Start, Crash, Shutdown,
            Exit, LeaveLoop, IngestDistill, Distilled, PlaceLeaf, PruneLeaf, BeginForget,
            UnlinkLeaf, DropBody, WriteFails, GiveUp, RetryWrite, RetryAside, Interrupt,
            Settle, StoreAndCommit, Close
    <2> QED
      BY <2>1, <2>2, QuietAccounted
  <1>3. CASE SetAsideFails
    <2>1. UNCHANGED <<topic, fate>>
      BY <1>3 DEF SetAsideFails, Handling
    <2>2. parked \subseteq parked' /\ deadLetters \subseteq deadLetters'
      BY <1>3, ForwardedGrows DEF SetAsideFails, aside
    <2> QED
      BY <2>1, <2>2, QuietAccounted
  <1>4. CASE IngestUnchanged \/ WriteFact \/ DropFact \/ SetAside
    <2>1. pc \in Busy /\ UNCHANGED <<topic, hand>>
      BY <1>4 DEF IngestUnchanged, WriteFact, DropFact, SetAside, Busy, PCs, Handling
    <2>2. /\ hand \in 1..Len(topic) /\ hand \in Offsets /\ topic[hand] \in Messages
          /\ fate \in [Offsets -> Fates]
      BY <2>1, InHand DEF TypeInv, TypeOK
    <2>3. CASE IngestUnchanged \/ WriteFact \/ DropFact
      <3>1. PICK f \in {"ingested", "unchanged", "forgotten"} : fate' = [fate EXCEPT ![hand] = f]
        BY <2>3 DEF IngestUnchanged, WriteFact, DropFact
      <3>2. Decision \in {"ingest", "forget"} /\ UNCHANGED <<parked, deadLetters>>
        BY <2>3 DEF IngestUnchanged, WriteFact, DropFact, aside, TypeInv, Control
      <3>3. fate'[hand] = f
        BY <2>2, <3>1
      <3>4. InItsPlace(hand)'
        BY <2>1, <3>1, <3>2, <3>3 DEF InItsPlace, Decision
      <3> QED
        BY <2>1, <2>2, <3>1, <3>2, <3>4, OneAccounted
    <2>4. CASE SetAside
      <3>1. Forwarded(hand) /\ fate' = [fate EXCEPT ![hand] = "aside"]
        BY <2>4 DEF SetAside
      <3>2. /\ parked \subseteq parked' /\ deadLetters \subseteq deadLetters'
            /\ IF Decision = "park" THEN hand \in parked' ELSE hand \in deadLetters'
        BY <3>1, ForwardedGrows
      <3>3. InItsPlace(hand)'
        BY <2>1, <3>2 DEF InItsPlace, Decision
      <3> QED
        BY <2>1, <2>2, <3>1, <3>2, <3>3, OneAccounted
    <2> QED
      BY <1>4, <2>3, <2>4
  <1>5. CASE Receive
    <2>1. PICK n \in 1..Len(topic) : n = position + 1 /\ n \in Offsets
      BY <1>5, NextInTopic DEF TypeInv
    <2>2. UNCHANGED <<topic, parked, deadLetters>>
      BY <1>5 DEF Receive, Take, aside
    <2>3. CASE Decide(topic[n]) = "skip"
      <3>1. fate' = [fate EXCEPT ![n] = "skipped"]
        BY <1>5, <2>1, <2>3 DEF Receive, Take
      <3>2. InItsPlace(n)'
        BY <2>2, <2>3 DEF InItsPlace
      <3> QED
        BY <2>1, <2>2, <3>1, <3>2, OneAccounted
    <2>4. CASE Decide(topic[n]) # "skip"
      <3>1. UNCHANGED fate
        BY <1>5, <2>1, <2>4 DEF Receive, Take
      <3> QED
        BY <2>2, <3>1, QuietAccounted
    <2> QED
      BY <2>3, <2>4
  <1>6. CASE \E outcome \in RewindOutcomes : Rewind(outcome)
    <2>1. PICK outcome \in RewindOutcomes : Rewind(outcome)
      BY <1>6
    <2>2. UNCHANGED <<topic, parked, deadLetters>>
      BY <2>1 DEF Rewind, RewindToEarliest, aside
    <2>3. CASE assigned /\ outcome = "done"
      BY <2>1, <2>3 DEF Rewind, Accounted, Handled, Offsets
    <2>4. CASE ~(assigned /\ outcome = "done")
      <3>1. UNCHANGED fate
        BY <2>1, <2>4 DEF Rewind
      <3> QED
        BY <2>2, <3>1, QuietAccounted
    <2> QED
      BY <2>3, <2>4
  <1> QED
    BY <1>1, <1>2, <1>3, <1>4, <1>5, <1>6
       DEF Next, FeederTask, Environment, Process, Ingest, ForgetDoc, Retries, Quiet

\* What the feeder committed without writing it is in the side topic its kind calls
\* for, whatever retries, crashes and rewinds came in between.
THEOREM NothingUnaccounted == Spec => []CommittedIsAccountedFor
  <1>1. Init => Accounted
    BY DEF Init, Accounted, Handled
  <1>2. IInv /\ Accounted /\ [Next]_vars => Accounted'
    BY NextAccounted DEF IInv
  <1>3. IInv /\ Accounted => CommittedIsAccountedFor
    <2> SUFFICES ASSUME IInv, Accounted, NEW o \in 1..committed
                 PROVE  LET decision == Decide(topic[o])
                        IN  CASE decision = "park" -> o \in parked
                              [] decision = "bad"  -> o \in deadLetters
                              [] decision = "skip" -> TRUE
                              [] OTHER -> \/ o \in deadLetters
                                          \/ fate[o] \in {"ingested", "unchanged", "forgotten"}
      BY DEF CommittedIsAccountedFor
    <2>1. Handled(o)
      BY DEF IInv, Progress, HandledUpTo
    <2>2. o \in Offsets
      <3>1. committed \in 0..MaxLog /\ MaxLog \in Nat
        BY BoundsAreNumbers DEF IInv, TypeInv, TypeOK
      <3> QED
        BY <3>1 DEF Offsets
    <2>3. o \in 1..Len(topic) /\ InItsPlace(o)
      BY <2>1, <2>2, Zenon DEF Accounted
    <2>4. Decide(topic[o]) \in {"ingest", "forget", "park", "bad", "skip"}
      <3>1. topic[o] \in Messages
        BY <2>3 DEF IInv, TypeInv, TypeOK
      <3> QED
        BY <3>1, DecideNames
    <2> QED
      BY <2>3, <2>4 DEF InItsPlace
  <1> QED
    BY <1>1, <1>2, <1>3, Inductive, PTL DEF Spec

-----------------------------------------------------------------------------
(***************************************************************************)
(* The two stores.                                                         *)
(***************************************************************************)
LEMMA AppendPutsLast ==
    ASSUME NEW S, NEW s \in Seq(S), NEW e \in S
    PROVE  Append(s, e) # <<>> /\ Append(s, e)[Len(Append(s, e))] = e
  OBVIOUS

LEMMA TailKeepsLast ==
    ASSUME NEW S, NEW s \in Seq(S), Len(s) >= 2
    PROVE  Tail(s) # <<>> /\ Tail(s)[Len(Tail(s))] = s[Len(s)]
  <1>1. s # <<>> /\ Len(s) \in Nat
    BY EmptySeq
  <1>2. Len(Tail(s)) = Len(s) - 1 /\ Tail(s) \in Seq(S)
    BY <1>1, HeadTailProperties
  <1>3. Tail(s)[Len(s) - 1] = s[Len(s)]
    <2>1. \A i \in 1..Len(Tail(s)) : Tail(s)[i] = s[i + 1]
      BY <1>1, HeadTailProperties
    <2>2. Len(s) - 1 \in 1..Len(Tail(s)) /\ (Len(s) - 1) + 1 = Len(s)
      BY <1>1, <1>2
    <2> QED
      BY <2>1, <2>2
  <1>4. Tail(s) # <<>>
    <2>1. Len(Tail(s)) # 0
      BY <1>1, <1>2
    <2> QED
      BY <2>1, EmptySeq
  <1> QED
    BY <1>2, <1>3, <1>4

\* A sequence of length one has an empty tail; a non-empty one of any other
\* length has at least two elements.
LEMMA LengthOne ==
    ASSUME NEW S, NEW s \in Seq(S)
    PROVE  /\ Len(s) = 1 => s # <<>> /\ Tail(s) = <<>>
           /\ s # <<>> /\ Len(s) # 1 => Len(s) >= 2
  <1>1. s # <<>> => Len(s) \in Nat \ {0}
    BY EmptySeq
  <1>2. ASSUME Len(s) = 1 PROVE s # <<>> /\ Tail(s) = <<>>
    <2>1. s # <<>>
      BY <1>2, EmptySeq
    <2>2. Len(Tail(s)) = 0 /\ Tail(s) \in Seq(S)
      BY <1>2, <2>1, HeadTailProperties
    <2> QED
      BY <2>1, <2>2, EmptySeq
  <1>3. ASSUME s # <<>>, Len(s) # 1 PROVE Len(s) >= 2
    <2> DEFINE n == Len(s)
    <2>1. n \in Nat \ {0} /\ n # 1
      BY <1>1, <1>3
    <2> HIDE DEF n
    <2>2. n >= 2
      BY <2>1
    <2> QED
      BY <2>2 DEF n
  <1> QED
    BY <1>2, <1>3

\* What a step inside a replacement relies on about the document in hand.
Replacing ==
    /\ pc \in {"prune", "fact"} =>
          leaves[D] # <<>> /\ Newest(D) = V /\ body[D] = V
    /\ pc = "unfact" => leaves[D] = <<>>

\* A document whose body is the stand-in was not replaced since the migration:
\* its fact, if it has one, is of the same version or has no fingerprint.
StandinIsOld ==
    \A d \in Docs : leaves[d] # <<>> /\ body[d] = Standin =>
        fact[d] \in {Newest(d), Unmarked, None}

StoresInv == BodyMatchesNewestLeaf /\ Replacing /\ StandinIsOld

LEMMA InitStores == Init => StoresInv
  <1> SUFFICES ASSUME Init PROVE StoresInv
    OBVIOUS
  <1>1. ASSUME NEW d \in Docs, leaves[d] # <<>>
        PROVE  Newest(d) = leaves[d][1] /\ body[d] = Standin
    <2>1. leaves[d] \in {<<v>> : v \in Versions}
      BY <1>1 DEF Init, StoresInit
    <2>2. Len(leaves[d]) = 1
      BY <2>1
    <2> QED
      BY <1>1, <2>2 DEF Newest, Init, StoresInit
  <1>2. BodyMatchesNewestLeaf
    BY <1>1 DEF Init, StoresInit, BodyMatchesNewestLeaf
  <1>3. StandinIsOld
    BY <1>1 DEF Init, StoresInit, StandinIsOld
  <1> QED
    BY <1>2, <1>3 DEF StoresInv, Replacing, Init

\* A step that leaves the stores alone keeps them as they must be, unless it
\* enters the middle of a replacement.
LEMMA StoresUntouched ==
    ASSUME IInv, StoresInv, UNCHANGED stores,
           \/ pc' \notin {"prune", "fact", "unfact"}
           \/ UNCHANGED <<pc, hand>> /\ topic'[hand] = topic[hand]
    PROVE  StoresInv'
  BY DEF StoresInv, BodyMatchesNewestLeaf, Replacing, StandinIsOld, stores, Newest, D, V

LEMMA NextStores ==
    ASSUME IInv, StoresInv, [Next]_vars
    PROVE  StoresInv'
  <1> USE DEF IInv, TypeInv
  <1>1. CASE \E m \in Messages : Produce(m)
    <2>1. PICK m \in Messages : Produce(m)
      BY <1>1
    <2>2. pc \in {"prune", "fact", "unfact"} => hand \in 1..Len(topic)
      BY InHand DEF Busy, PCs
    <2>3. pc \in {"prune", "fact", "unfact"} => topic'[hand] = topic[hand]
      BY <2>1, <2>2 DEF Produce, TypeOK
    <2> QED
      BY <2>1, <2>3, StoresUntouched DEF Produce, stores, task
  <1>2. CASE BrokerAnswers \/ Revoke \/ Assign \/ Shutdown \/ UNCHANGED vars
    BY <1>2, StoresUntouched DEF BrokerAnswers, Revoke, Assign, Shutdown, vars, task
  <1>3. CASE \/ Start \/ Crash \/ Exit \/ LeaveLoop \/ Close \/ Settle \/ Receive
    BY <1>3, StoresUntouched
       DEF Start, Crash, Exit, ForgetMemory, LeaveLoop, Close, Settle,
           StoreAndCommit, Receive, Take
  <1>4. CASE \/ IngestDistill \/ Distilled \/ BeginForget \/ WriteFails \/ SetAside
             \/ SetAsideFails \/ RetryWrite \/ RetryAside \/ Interrupt
    BY <1>4, StoresUntouched
       DEF IngestDistill, Distilled, BeginForget, WriteFails, GiveUp, SetAside,
           SetAsideFails, RetryWrite, RetryAside, Interrupt, stores
  <1>5. CASE \E outcome \in RewindOutcomes : Rewind(outcome)
    BY <1>5, StoresUntouched DEF Rewind, RewindToEarliest, AwaitPoints, task
  <1>6. CASE IngestUnchanged
    <2>1. D \in Docs /\ V \in Versions /\ fact[D] = V /\ Len(leaves[D]) = 1
      BY <1>6, InHandNames DEF IngestUnchanged, StoredVersion, Busy, PCs
    <2>2. leaves[D] # <<>>
      BY <2>1, LengthOne DEF TypeOK
    <2>3. body[D] # None /\ (body[D] = Standin => Newest(D) = V)
      <3>1. Newest(D) \in Versions
        <4>1. leaves[D] \in Seq(Versions) /\ 1 \in 1..Len(leaves[D])
          BY <2>1 DEF TypeOK
        <4>2. leaves[D][1] \in Versions
          BY <4>1, ElementOfSeq
        <4> QED
          BY <2>1, <4>2 DEF Newest
      <3>2. body[D] \in {Newest(D), Standin}
        BY <2>1, <2>2 DEF StoresInv, BodyMatchesNewestLeaf
      <3>3. body[D] = Standin => fact[D] \in {Newest(D), Unmarked, None}
        BY <2>1, <2>2 DEF StoresInv, StandinIsOld
      <3> QED
        BY <2>1, <3>1, <3>2, <3>3, FeederConstants
    <2>4. body' = [body EXCEPT ![D] = IF @ = Standin THEN V ELSE @]
      BY <1>6, <2>3 DEF IngestUnchanged
    <2> QED
      BY <1>6, <2>1, <2>2, <2>3, <2>4, FeederConstants
         DEF IngestUnchanged, StoresInv, BodyMatchesNewestLeaf, Replacing,
             StandinIsOld, TypeOK, Newest, Handling
  <1>7. CASE PlaceLeaf
    <2>1. D \in Docs /\ V \in Versions /\ leaves[D] \in Seq(Versions)
      BY <1>7, InHandNames DEF PlaceLeaf, Control, Busy, PCs, TypeOK
    <2>2. /\ leaves' = [leaves EXCEPT ![D] = Append(leaves[D], V)]
          /\ body' = [body EXCEPT ![D] = V] /\ fact' = fact
          /\ pc' \in {"fact", "prune"} /\ D' = D /\ V' = V
      BY <1>7 DEF PlaceLeaf, Handling, D, V
    <2>3. leaves'[D] # <<>> /\ leaves'[D][Len(leaves'[D])] = V /\ body'[D] = V
      <3>1. leaves'[D] = Append(leaves[D], V) /\ body'[D] = V
        BY <2>1, <2>2 DEF TypeOK
      <3> QED
        BY <2>1, <3>1, AppendPutsLast
    <2>4. \A d \in Docs : d # D => leaves'[d] = leaves[d] /\ body'[d] = body[d]
      BY <2>1, <2>2 DEF TypeOK
    <2>5. V # Standin
      BY <2>1, FeederConstants
    <2>6. BodyMatchesNewestLeaf'
      BY <2>3, <2>4 DEF StoresInv, BodyMatchesNewestLeaf, Newest
    <2>7. StandinIsOld'
      BY <2>2, <2>3, <2>4, <2>5 DEF StoresInv, StandinIsOld, Newest
    <2>8. Replacing'
      BY <2>2, <2>3 DEF Replacing, Newest
    <2> QED
      BY <2>6, <2>7, <2>8 DEF StoresInv
  <1>8. CASE PruneLeaf
    <2>1. D \in Docs /\ leaves[D] \in Seq(Versions) /\ Len(leaves[D]) >= 2
      BY <1>8, InHandNames DEF PruneLeaf, Control, Busy, PCs, TypeOK
    <2>2. /\ leaves' = [leaves EXCEPT ![D] = Tail(leaves[D])]
          /\ UNCHANGED <<body, fact>>
          /\ pc = "prune" /\ pc' \in {"fact", "prune"} /\ D' = D /\ V' = V
      BY <1>8 DEF PruneLeaf, Handling, D, V
    <2>3. /\ leaves[D] # <<>> /\ leaves'[D] # <<>>
          /\ leaves'[D][Len(leaves'[D])] = Newest(D)
      <3>1. leaves'[D] = Tail(leaves[D])
        BY <2>1, <2>2 DEF TypeOK
      <3> QED
        BY <2>1, <3>1, TailKeepsLast DEF Newest
    <2>4. \A d \in Docs : d # D => leaves'[d] = leaves[d]
      BY <2>1, <2>2 DEF TypeOK
    <2> QED
      BY <2>1, <2>2, <2>3, <2>4
         DEF StoresInv, BodyMatchesNewestLeaf, Replacing, StandinIsOld, Newest
  <1>9. CASE WriteFact
    <2>1. D \in Docs /\ leaves[D] # <<>> /\ Newest(D) = V
      BY <1>9, InHandNames DEF WriteFact, Control, Busy, PCs, StoresInv, Replacing
    <2>2. /\ fact' = [fact EXCEPT ![D] = V] /\ UNCHANGED <<leaves, body>>
          /\ pc' = "settle"
      BY <1>9 DEF WriteFact
    <2> QED
      BY <2>1, <2>2
         DEF StoresInv, BodyMatchesNewestLeaf, Replacing, StandinIsOld, Newest, TypeOK
  <1>10. CASE UnlinkLeaf
    <2>1. D \in Docs /\ leaves[D] \in Seq(Versions) /\ leaves[D] # <<>>
      BY <1>10, InHandNames DEF UnlinkLeaf, Control, Busy, PCs, TypeOK
    <2>2. /\ leaves' = [leaves EXCEPT ![D] = Tail(leaves[D])]
          /\ body' = [body EXCEPT ![D] = IF Len(leaves[D]) = 1 THEN None ELSE body[D]]
          /\ fact' = fact /\ pc' = "unlink"
      BY <1>10 DEF UnlinkLeaf
    <2>3. CASE Len(leaves[D]) = 1
      <3>1. leaves'[D] = <<>> /\ body'[D] = None
        BY <2>1, <2>2, <2>3, LengthOne DEF TypeOK
      <3>2. \A d \in Docs : d # D => leaves'[d] = leaves[d] /\ body'[d] = body[d]
        BY <2>1, <2>2 DEF TypeOK
      <3> QED
        BY <2>2, <3>1, <3>2
           DEF StoresInv, BodyMatchesNewestLeaf, Replacing, StandinIsOld, Newest
    <2>4. CASE Len(leaves[D]) # 1
      <3>1. Len(leaves[D]) >= 2
        BY <2>1, <2>4, LengthOne
      <3>2. /\ leaves'[D] # <<>> /\ leaves'[D][Len(leaves'[D])] = Newest(D)
            /\ body'[D] = body[D]
        <4>1. leaves'[D] = Tail(leaves[D]) /\ body'[D] = body[D]
          BY <2>1, <2>2, <2>4 DEF TypeOK
        <4> QED
          BY <2>1, <3>1, <4>1, TailKeepsLast DEF Newest
      <3>3. \A d \in Docs : d # D => leaves'[d] = leaves[d] /\ body'[d] = body[d]
        BY <2>1, <2>2 DEF TypeOK
      <3> QED
        BY <2>1, <2>2, <3>2, <3>3
           DEF StoresInv, BodyMatchesNewestLeaf, Replacing, StandinIsOld, Newest
    <2> QED
      BY <2>3, <2>4
  <1>11. CASE DropBody
    <2>1. D \in Docs /\ leaves[D] = <<>>
      BY <1>11, InHandNames DEF DropBody, Control, Busy, PCs
    <2> QED
      BY <1>11, <2>1
         DEF DropBody, Handling, StoresInv, BodyMatchesNewestLeaf, Replacing,
             StandinIsOld, Newest, TypeOK, D
  <1>12. CASE DropFact
    <2>1. D \in Docs
      BY <1>12, InHandNames DEF DropFact, Control, Busy, PCs
    <2> QED
      BY <1>12, <2>1
         DEF DropFact, StoresInv, BodyMatchesNewestLeaf, Replacing, StandinIsOld,
             Newest, TypeOK
  <1> QED
    BY <1>1, <1>2, <1>3, <1>4, <1>5, <1>6, <1>7, <1>8, <1>9, <1>10, <1>11, <1>12
       DEF Next, FeederTask, Environment, Process, Ingest, ForgetDoc, Retries

\* The stored text of a document is that of its newest leaf or the migration's
\* stand-in: no order of crashes, retries and redeliveries leaves the text of
\* another version, or a text without a leaf.
THEOREM BodiesMatch == Spec => []BodyMatchesNewestLeaf
  <1>1. IInv /\ StoresInv /\ [Next]_vars => StoresInv'
    BY NextStores
  <1>2. StoresInv => BodyMatchesNewestLeaf
    BY DEF StoresInv
  <1> QED
    BY <1>1, <1>2, InitStores, Inductive, PTL DEF Spec

\* A document that has a leaf loses its last one only to a tombstone for it.
THEOREM NeverLost == Spec => ReplacementNeverLoses
  <1>1. ASSUME IInv, [Next]_vars, NEW d \in Docs, leaves[d] # <<>>, leaves'[d] = <<>>
        PROVE  pc = "unlink" /\ topic[hand].form = "null" /\ d = topic[hand].key
    <2> USE DEF IInv, TypeInv
    <2>1. CASE PlaceLeaf
      <3>1. D \in Docs /\ V \in Versions /\ leaves[D] \in Seq(Versions)
        BY <1>1, <2>1, InHandNames DEF PlaceLeaf, Control, Busy, PCs, TypeOK
      <3> QED
        BY <1>1, <2>1, <3>1, AppendPutsLast DEF PlaceLeaf, TypeOK
    <2>2. CASE PruneLeaf
      <3>1. D \in Docs /\ leaves[D] \in Seq(Versions) /\ Len(leaves[D]) >= 2
        BY <1>1, <2>2, InHandNames DEF PruneLeaf, Control, Busy, PCs, TypeOK
      <3> QED
        BY <1>1, <2>2, <3>1, TailKeepsLast DEF PruneLeaf, TypeOK
    <2>3. CASE UnlinkLeaf
      <3>1. pc = "unlink" /\ Decision = "forget" /\ D \in Docs
        BY <1>1, <2>3, InHandNames DEF UnlinkLeaf, Control, Busy, PCs
      <3>2. d = D
        BY <1>1, <2>3, <3>1 DEF UnlinkLeaf, TypeOK
      <3>3. topic[hand].form = "null"
        BY <3>1 DEF Decision, Decide
      <3> QED
        BY <3>1, <3>2, <3>3 DEF D, Target
    <2>4. CASE UNCHANGED leaves
      BY <1>1, <2>4
    <2>5. \/ PlaceLeaf \/ PruneLeaf \/ UnlinkLeaf \/ UNCHANGED leaves
      BY <1>1
         DEF Next, FeederTask, Environment, Process, Ingest, ForgetDoc, Retries,
             vars, stores, Produce, BrokerAnswers, Revoke, Assign, Start, Crash,
             Shutdown, Exit, Close, Receive, Take, LeaveLoop, IngestUnchanged,
             IngestDistill, Distilled, WriteFact, BeginForget, DropBody, DropFact,
             WriteFails, GiveUp, RetryWrite, SetAside, SetAsideFails, RetryAside,
             Interrupt, Settle, StoreAndCommit, Rewind, RewindToEarliest
    <2> QED
      BY <2>1, <2>2, <2>3, <2>4, <2>5
  <1>2. IInv /\ [Next]_vars =>
          [\A d \in Docs :
              leaves[d] # <<>> /\ leaves'[d] = <<>> =>
                 pc = "unlink" /\ topic[hand].form = "null" /\ d = topic[hand].key]_vars
    BY <1>1
  <1> QED
    BY <1>2, Inductive, PTL DEF Spec, ReplacementNeverLoses

-----------------------------------------------------------------------------
(***************************************************************************)
(* The history of a document: what the stores hold of it, and which of its *)
(* messages are still to be read, while the partition stays with the       *)
(* consumer and a rewind that began is completed.                          *)
(***************************************************************************)
\* Both stores hold what message o says of document d.
AgreesWith(d, o) ==
    IF Decide(topic[o]) = "forget"
      THEN leaves[d] = <<>> /\ body[d] = None /\ fact[d] = None
      ELSE LET v == topic[o].text
           IN  leaves[d] = <<v>> /\ body[d] = v /\ fact[d] = v

\* The fact is of another version than the one leaf there is, as a replacement or a
\* forget leaves it that was cut short: a redelivery of the older version would be
\* taken for unchanged.
Misled(d) == fact[d] \in Versions /\ Len(leaves[d]) = 1 /\ leaves[d][1] # fact[d]
Mends(o, d) == Decide(topic[o]) = "forget" \/ topic[o].text = leaves[d][1]

\* Of the first k messages, those of d need not be read again.
Fits(d, k) ==
    /\ \A o \in Touching(d) : o <= k /\ (\A p \in Touching(d) : p <= o) => AgreesWith(d, o)
    /\ Misled(d) => \E o \in Touching(d) : o > k /\ Mends(o, d)

\* Where reading goes on, or will after a restart.
Read == IF ~assigned THEN committed
        ELSE IF hand # 0 /\ pc # "settle" /\ hand <= position THEN hand - 1
        ELSE position

Order ==
    /\ committed <= Read /\ pending <= Read /\ stored <= Read
    /\ hand # 0 => position \in {0, hand} /\ (received = generation => position = hand)
Fitting == \A d \in Docs : Touching(d) \cap deadLetters = {} => Fits(d, Read)

\* What holds after a rewind that failed as well.
Mendable == \A d \in Docs : Misled(d) => \E o \in Touching(d) : Mends(o, d)
Handed ==
    /\ hand # 0 => assigned
    /\ ~assigned => pending = -1 /\ stored = -1
    /\ pc = "fact" => Len(leaves[D]) = 1

InProgress == Busy \ {"settle"}

LEMMA Numbers ==
    ASSUME TypeInv
    PROVE  /\ committed \in Nat /\ pending \in Int /\ stored \in Int /\ position \in Nat
           /\ hand \in Nat /\ received \in Nat /\ generation \in Nat /\ Len(topic) \in Nat
           /\ Read \in Int /\ Read <= Len(topic)
  <1>1. /\ committed \in 0..Len(topic) /\ position \in 0..Len(topic) /\ hand \in 0..Len(topic)
        /\ pending \in Int /\ stored \in Int /\ Len(topic) \in Nat
        /\ received \in Nat /\ generation \in Nat
    BY BoundsAreNumbers DEF TypeInv, TypeOK, Control
  <1> QED
    BY <1>1 DEF Read

LEMMA NumbersNext ==
    ASSUME TypeInv'
    PROVE  /\ committed' \in Nat /\ pending' \in Int /\ stored' \in Int /\ position' \in Nat
           /\ hand' \in Nat /\ Read' \in Int
  <1>1. /\ committed' \in 0..Len(topic') /\ position' \in 0..Len(topic')
        /\ hand' \in 0..Len(topic') /\ pending' \in Int /\ stored' \in Int /\ Len(topic') \in Nat
    BY BoundsAreNumbers DEF TypeInv, TypeOK, Control
  <1> QED
    BY <1>1 DEF Read

\* The message in hand touches the document it names.
LEMMA TouchesD ==
    ASSUME TypeInv, pc \in Busy, Decision \in {"ingest", "forget"}
    PROVE  hand \in Touching(D) /\ D \in Docs
  BY InHand, InHandNames DEF TypeInv, Touching, D, Decision

LEMMA TouchedIsD ==
    ASSUME NEW d, hand \in Touching(d)
    PROVE  d = D /\ Decision \in {"ingest", "forget"}
  BY DEF Touching, D, Decision

\* A message in hand has not been read.
LEMMA InHandAbove ==
    ASSUME TypeInv, Handed, Order, pc \in InProgress
    PROVE  /\ hand \in 1..Len(topic) /\ assigned /\ Read < hand
           /\ position = hand => Read = hand - 1
           /\ position # hand => position = 0 /\ Read = 0
  <1>1. hand \in 1..Len(topic) /\ hand \in Nat /\ hand # 0 /\ position \in Nat
    BY InHand, Numbers DEF TypeInv, InProgress
  <1>2. assigned /\ position \in {0, hand}
    BY <1>1 DEF Handed, Order
  <1> QED
    BY <1>1, <1>2 DEF Read, InProgress

\* What does not change, of a document none of whose messages is passed.
LEMMA FitsSame ==
    ASSUME NEW d \in Docs, NEW k \in Int, NEW l \in Int, Fits(d, k), topic' = topic,
           leaves'[d] = leaves[d], body'[d] = body[d], fact'[d] = fact[d],
           \A o \in Touching(d) : o <= l => o <= k
    PROVE  Fits(d, l)'
  <1>1. Touching(d)' = Touching(d) /\ Touching(d) \subseteq Nat
    BY DEF Touching
  <1>2. \A o : AgreesWith(d, o)' = AgreesWith(d, o) /\ Mends(o, d)' = Mends(o, d)
    BY DEF AgreesWith, Mends
  <1>3. Misled(d)' = Misled(d)
    BY DEF Misled
  <1>4. ASSUME NEW o \in Touching(d), o <= l, \A p \in Touching(d) : p <= o
        PROVE  AgreesWith(d, o)
    BY <1>4 DEF Fits
  <1>5. ASSUME Misled(d) PROVE \E o \in Touching(d) : o > l /\ Mends(o, d)
    <2>1. PICK o \in Touching(d) : o > k /\ Mends(o, d)
      BY <1>5 DEF Fits
    <2>2. o > l
      BY <1>1, <2>1
    <2> QED
      BY <2>1, <2>2
  <1> QED
    BY <1>1, <1>2, <1>3, <1>4, <1>5 DEF Fits

LEMMA FitsGrown ==
    ASSUME TypeInv, NEW m \in Messages, topic' = Append(topic, m), NEW d \in Docs,
           NEW k \in Int, k <= Len(topic), Fits(d, k), UNCHANGED stores
    PROVE  Fits(d, k)'
  <1>1. /\ Len(topic') = Len(topic) + 1 /\ Len(topic) \in Nat
        /\ \A o \in 1..Len(topic) : topic'[o] = topic[o]
    BY DEF TypeInv, TypeOK
  <1>2. /\ Touching(d) \subseteq Touching(d)' /\ Touching(d) \subseteq 1..Len(topic)
        /\ \A o \in Touching(d)' : o <= Len(topic) => o \in Touching(d)
        /\ Touching(d)' \subseteq Nat
    BY <1>1 DEF Touching
  <1>3. \A o \in 1..Len(topic) : AgreesWith(d, o)' = AgreesWith(d, o) /\ Mends(o, d)' = Mends(o, d)
    BY <1>1 DEF AgreesWith, Mends, stores
  <1>4. Misled(d)' = Misled(d)
    BY DEF Misled, stores
  <1>5. ASSUME NEW o \in Touching(d)', o <= k, \A p \in Touching(d)' : p <= o
        PROVE  AgreesWith(d, o)'
    <2>1. o \in Touching(d) /\ \A p \in Touching(d) : p <= o
      BY <1>1, <1>2, <1>5
    <2>2. AgreesWith(d, o)
      BY <1>5, <2>1 DEF Fits
    <2> QED
      BY <1>2, <1>3, <2>1, <2>2
  <1>6. ASSUME Misled(d)' PROVE \E o \in Touching(d)' : o > k /\ Mends(o, d)'
    <2>1. PICK o \in Touching(d) : o > k /\ Mends(o, d)
      BY <1>4, <1>6 DEF Fits
    <2> QED
      BY <1>2, <1>3, <2>1
  <1> QED
    BY <1>5, <1>6 DEF Fits

\* What reading again starts before is no worse off.
LEMMA FitsLess ==
    ASSUME NEW d, NEW k \in Int, NEW l \in Int, l <= k, Fits(d, k)'
    PROVE  Fits(d, l)'
  <1>1. Touching(d)' \subseteq Nat
    BY DEF Touching
  <1> QED
    BY <1>1 DEF Fits

\* Once its message is written a document needs none before it.
LEMMA AgreesFits ==
    ASSUME TypeInv, hand \in Touching(D), UNCHANGED <<topic, hand>>, AgreesWith(D, hand)'
    PROVE  Fits(D, hand)'
  <1>1. Touching(D)' = Touching(D) /\ Touching(D) \subseteq Nat /\ hand \in Nat
    BY DEF Touching, D
  <1>2. D' = D
    BY DEF D
  <1>3. ~Misled(D)'
    BY <1>2 DEF AgreesWith, Misled
  <1>4. ASSUME NEW o \in Touching(D), o <= hand, \A p \in Touching(D) : p <= o PROVE o = hand
    BY <1>1, <1>4
  <1> QED
    BY <1>1, <1>2, <1>3, <1>4 DEF Fits

\* The steps that leave the stores, the topic and the message in hand as they are.
Rests == \/ BrokerAnswers \/ Assign \/ Start \/ Crash \/ Shutdown \/ Exit \/ LeaveLoop
         \/ Close \/ IngestDistill \/ Distilled \/ BeginForget \/ WriteFails
         \/ SetAsideFails \/ RetryWrite \/ RetryAside \/ Interrupt \/ Settle
         \/ UNCHANGED vars
Rewinds == \E outcome \in {"done", "seek failed"} : Rewind(outcome)

LEMMA RestsKeeps ==
    ASSUME Rests \/ \E outcome \in RewindOutcomes : Rewind(outcome)
    PROVE  /\ UNCHANGED <<topic, stores>> /\ deadLetters \subseteq deadLetters'
           /\ pc' = "fact" => UNCHANGED <<pc, hand>>
  <1>1. CASE BrokerAnswers \/ Assign \/ Start \/ Crash \/ Shutdown \/ Exit \/ LeaveLoop \/ Close
    BY <1>1 DEF BrokerAnswers, Assign, Start, Crash, Shutdown, Exit, LeaveLoop, Close, ForgetMemory,
                aside, task
  <1>2. CASE IngestDistill \/ Distilled \/ BeginForget \/ WriteFails
    BY <1>2 DEF IngestDistill, Distilled, BeginForget, WriteFails, GiveUp, Handling, aside
  <1>3. CASE SetAsideFails \/ RetryWrite \/ RetryAside \/ Interrupt
    BY <1>3 DEF SetAsideFails, Forwarded, RetryWrite, RetryAside, Interrupt, Handling, aside
  <1>4. CASE Settle \/ UNCHANGED vars
    BY <1>4 DEF Settle, StoreAndCommit, vars, aside, task
  <1>5. CASE \E outcome \in RewindOutcomes : Rewind(outcome)
    BY <1>5 DEF Rewind, RewindToEarliest, aside, task
  <1> QED
    BY <1>1, <1>2, <1>3, <1>4, <1>5 DEF Rests

LEMMA MendableStays ==
    ASSUME Mendable, UNCHANGED <<topic, stores>>
    PROVE  Mendable'
  <1>1. \A d : Touching(d)' = Touching(d) /\ Misled(d)' = Misled(d)
    BY DEF Touching, Misled, stores
  <1>2. \A d, o : Mends(o, d)' = Mends(o, d)
    BY DEF Mends, stores
  <1> QED
    BY <1>1, <1>2 DEF Mendable

\* Reading goes on no later than it did, and every offset remembered is behind it.
LEMMA RestsOrder ==
    ASSUME TypeInv, TypeInv', Handed, Order, Rests
    PROVE  Order' /\ Read' <= Read
  <1> USE Numbers, NumbersNext
  <1>1. CASE BrokerAnswers
    <2>1. committed' \in {committed, pending} /\ pending' = -1
      BY <1>1 DEF BrokerAnswers, Resolved
    <2>2. ~assigned => pending = -1
      BY DEF Handed
    <2>3. ~assigned => committed' = committed
      BY <1>1, <2>2 DEF BrokerAnswers, Resolved
    <2> QED
      BY <1>1, <2>1, <2>3 DEF BrokerAnswers, client, task, Order, Read
  <1>2. CASE Assign
    <2>1. committed' = committed /\ pending' = -1 /\ position' = committed' /\ ~assigned /\ assigned'
      BY <1>2 DEF Assign, Resolved, Handed
    <2>2. hand = 0 /\ UNCHANGED <<hand, received, generation, stored>> /\ stored = -1
      BY <1>2, <2>1 DEF Assign, task, Handed
    <2> QED
      BY <2>1, <2>2 DEF Order, Read
  <1>3. CASE Start
    BY <1>3 DEF Start, broker, client, Order, Read, Control, TypeInv
  <1>4. CASE Crash \/ Exit
    <2>1. /\ committed' \in {committed, pending} /\ pending' = -1 /\ stored' = -1 /\ hand' = 0
          /\ ~assigned' /\ (committed' = pending => pending # -1)
      BY <1>4 DEF Crash, Exit, ForgetMemory, Resolved
    <2> QED
      BY <2>1 DEF Order, Read
  <1>5. CASE Close
    <2>1. /\ committed' \in {committed, pending, stored} /\ pending' = -1
          /\ (~assigned => committed' = committed)
          /\ UNCHANGED <<stored, position, assigned, hand, generation, received>>
          /\ pc = "closing" /\ pc' = "closed"
      BY <1>5 DEF Close, Resolved, client, Handed
    <2> QED
      BY <2>1 DEF Order, Read
  <1>6. CASE LeaveLoop \/ Shutdown \/ UNCHANGED vars
    <2>1. /\ UNCHANGED <<committed, pending, stored, assigned, position, hand, received, generation>>
          /\ pc' = "settle" <=> pc = "settle"
      BY <1>6 DEF LeaveLoop, Shutdown, vars, broker, client, task
    <2> QED
      BY <2>1 DEF Order, Read
  <1>7. CASE \/ IngestDistill \/ Distilled \/ BeginForget \/ WriteFails
             \/ SetAsideFails \/ RetryWrite \/ RetryAside \/ Interrupt
    <2>1. /\ UNCHANGED <<committed, pending, stored, assigned, position, hand, received, generation>>
          /\ pc' # "settle" /\ pc # "settle"
      BY <1>7 DEF IngestDistill, Distilled, BeginForget, WriteFails, GiveUp, Writing, SetAsideFails,
                  RetryWrite, RetryAside, Interrupt, Handling, broker, client
    <2> QED
      BY <2>1 DEF Order, Read
  <1>8. CASE Settle
    <2>1. /\ pc = "settle" /\ hand' = 0 /\ UNCHANGED <<committed, assigned, position, generation>>
          /\ \/ UNCHANGED <<stored, pending>>
             \/ received = generation /\ stored' \in {stored, hand} /\ pending' \in {pending, hand}
      BY <1>8 DEF Settle, StoreAndCommit
    <2>2. hand # 0 /\ assigned
      BY <2>1 DEF TypeInv, Control, Busy, PCs, Handed
    <2>3. Read = position /\ Read' = position
      BY <2>1, <2>2 DEF Read
    <2>4. received = generation => hand = position
      BY <2>2 DEF Order
    <2> QED
      BY <2>1, <2>3, <2>4 DEF Order
  <1> QED
    BY <1>1, <1>2, <1>3, <1>4, <1>5, <1>6, <1>7, <1>8 DEF Rests

LEMMA RewoundOrder ==
    ASSUME TypeInv, TypeInv', Order, pc # "settle", UNCHANGED <<received, hand, pc, assigned>>,
           generation' = generation + 1,
           \/ UNCHANGED <<committed, pending, stored, position>>
           \/ assigned /\ position' = 0 /\ committed' = 0 /\ stored' = 0 /\ pending' = -1
    PROVE  Order' /\ Read' <= Read
  <1>1. /\ committed \in Nat /\ pending \in Int /\ stored \in Int /\ position \in Nat
        /\ hand \in Nat /\ received \in Nat /\ generation \in Nat
    BY Numbers
  <1>2. received' # generation'
    <2>1. received <= generation
      BY DEF TypeInv, Control
    <2> QED
      BY <1>1, <2>1
  <1>3. CASE UNCHANGED <<committed, pending, stored, position>>
    BY <1>1, <1>2, <1>3 DEF Order, Read
  <1>4. CASE assigned /\ position' = 0 /\ committed' = 0 /\ stored' = 0 /\ pending' = -1
    <2>1. Read' = 0 /\ Read >= 0
      BY <1>1, <1>4 DEF Read
    <2> QED
      BY <1>1, <1>2, <1>4, <2>1 DEF Order
  <1> QED
    BY <1>3, <1>4

\* A rewind that is completed, or that does not begin, moves every offset together.
LEMMA RewindsMoves ==
    ASSUME NEW outcome, outcome \in {"done", "seek failed"}, Rewind(outcome)
    PROVE  /\ generation' = generation + 1 /\ UNCHANGED <<received, hand, pc, assigned>>
           /\ pc # "settle"
           /\ \/ UNCHANGED <<committed, pending, stored, position>>
              \/ assigned /\ position' = 0 /\ committed' = 0 /\ stored' = 0 /\ pending' = -1
  BY Zenon DEF Rewind, RewindToEarliest, task, AwaitPoints

LEMMA RewindsOrder ==
    ASSUME TypeInv, TypeInv', Order, Rewinds
    PROVE  Order' /\ Read' <= Read
  <1>1. /\ generation' = generation + 1 /\ UNCHANGED <<received, hand, pc, assigned>>
        /\ pc # "settle"
        /\ \/ UNCHANGED <<committed, pending, stored, position>>
           \/ assigned /\ position' = 0 /\ committed' = 0 /\ stored' = 0 /\ pending' = -1
    BY RewindsMoves, Zenon DEF Rewinds
  <1> QED
    BY <1>1, RewoundOrder

LEMMA FittingStays ==
    ASSUME TypeInv, TypeInv', Fitting, UNCHANGED <<topic, stores>>, deadLetters \subseteq deadLetters',
           Read' <= Read
    PROVE  Fitting'
  <1>1. Read \in Int /\ Read' \in Int
    BY Numbers, NumbersNext
  <1>2. PICK k, l \in Int : k = Read /\ l = Read'
    BY <1>1
  <1>3. ASSUME NEW d \in Docs, Touching(d)' \cap deadLetters' = {} PROVE Fits(d, l)'
    <2>1. Touching(d)' = Touching(d) /\ Touching(d) \subseteq Nat
      BY DEF Touching
    <2>2. Fits(d, k)
      BY <1>2, <1>3, <2>1 DEF Fitting
    <2>3. \A o \in Touching(d) : o <= l => o <= k
      BY <1>2, <2>1
    <2> QED
      BY <1>2, <2>2, <2>3, FitsSame DEF stores
  <1> QED
    BY <1>2, <1>3 DEF Fitting, Fits

\* The steps of one message's handling that write a store: they are about the document
\* it names, and leave the offsets alone.
Enters  == PlaceLeaf \/ PruneLeaf \/ UnlinkLeaf \/ DropBody
Finishes == WriteFact \/ DropFact

LEMMA WritesOne ==
    ASSUME TypeInv, Enters \/ Finishes \/ IngestUnchanged
    PROVE  /\ UNCHANGED <<topic, broker, client, hand, received, aside>> /\ D' = D /\ V' = V
           /\ D \in Docs /\ hand \in Touching(D) /\ pc \in InProgress
           /\ \A d \in Docs : d # D =>
                 leaves'[d] = leaves[d] /\ body'[d] = body[d] /\ fact'[d] = fact[d]
  <1>1. UNCHANGED <<topic, broker, client, hand, received, aside>>
    BY DEF Enters, Finishes, PlaceLeaf, PruneLeaf, UnlinkLeaf, DropBody, WriteFact, DropFact,
           IngestUnchanged, Handling
  <1>2. pc \in InProgress /\ pc \in Busy
    BY DEF Enters, Finishes, PlaceLeaf, PruneLeaf, UnlinkLeaf, DropBody, WriteFact, DropFact,
           IngestUnchanged, InProgress, Busy, PCs
  <1>3. Decision \in {"ingest", "forget"}
    BY DEF Enters, Finishes, PlaceLeaf, PruneLeaf, UnlinkLeaf, DropBody, WriteFact, DropFact,
           IngestUnchanged, TypeInv, Control
  <1>4. D \in Docs /\ hand \in Touching(D)
    BY <1>2, <1>3, TouchesD
  <1>5. \A d \in Docs : d # D =>
           leaves'[d] = leaves[d] /\ body'[d] = body[d] /\ fact'[d] = fact[d]
    BY <1>4 DEF Enters, Finishes, PlaceLeaf, PruneLeaf, UnlinkLeaf, DropBody, WriteFact, DropFact,
           IngestUnchanged, TypeInv, TypeOK
  <1> QED
    BY <1>1, <1>2, <1>4, <1>5 DEF D, V

\* Cut short between these, a redelivery of the message in hand repairs the document.
LEMMA HandMends ==
    ASSUME IInv, StoresInv', Enters, Misled(D)'
    PROVE  Mends(hand, D)'
  <1>1. UNCHANGED <<topic, hand>> /\ D' = D /\ V' = V
    BY WritesOne DEF IInv
  <1>2. CASE PlaceLeaf \/ PruneLeaf
    <2>1. pc' \in {"prune", "fact"}
      BY <1>2 DEF PlaceLeaf, PruneLeaf
    <2>2. Newest(D)' = V
      BY <1>1, <2>1 DEF StoresInv, Replacing
    <2>3. leaves'[D][1] = V
      BY <1>1, <2>2 DEF Misled, Newest
    <2> QED
      BY <1>1, <2>3 DEF Mends, V
  <1>3. CASE UnlinkLeaf \/ DropBody
    <2>1. Decision = "forget"
      BY <1>3 DEF UnlinkLeaf, DropBody, IInv, TypeInv, Control
    <2> QED
      BY <1>1, <2>1 DEF Mends, Decision
  <1> QED
    BY <1>2, <1>3 DEF Enters

LEMMA OneLeaf ==
    ASSUME NEW s \in Seq(Versions), Len(s) = 1
    PROVE  s = <<s[1]>>
  OBVIOUS

LEMMA FinishedAgrees ==
    ASSUME IInv, StoresInv, Handed, Finishes
    PROVE  AgreesWith(D, hand)'
  <1>1. UNCHANGED <<topic, hand>> /\ D' = D /\ D \in Docs
    BY WritesOne DEF IInv
  <1>2. CASE WriteFact
    <2>1. pc = "fact" /\ UNCHANGED <<leaves, body>> /\ fact' = [fact EXCEPT ![D] = V]
      BY <1>2 DEF WriteFact
    <2>2. Decision = "ingest" /\ fact'[D] = V
      BY <1>1, <2>1 DEF IInv, TypeInv, TypeOK, Control
    <2>3. Len(leaves[D]) = 1 /\ Newest(D) = V /\ body[D] = V /\ leaves[D] \in Seq(Versions)
      BY <1>1, <2>1 DEF Handed, StoresInv, Replacing, IInv, TypeInv, TypeOK
    <2>4. leaves[D] = <<V>>
      BY <2>3, OneLeaf DEF Newest
    <2> QED
      BY <1>1, <2>1, <2>2, <2>3, <2>4 DEF AgreesWith, Decision, V
  <1>3. CASE DropFact
    <2>1. pc = "unfact" /\ UNCHANGED <<leaves, body>> /\ fact' = [fact EXCEPT ![D] = None]
      BY <1>3 DEF DropFact
    <2>2. Decision = "forget" /\ fact'[D] = None
      BY <1>1, <2>1 DEF IInv, TypeInv, TypeOK, Control
    <2>3. leaves[D] = <<>> /\ body[D] = None
      BY <1>1, <2>1 DEF StoresInv, Replacing, BodyMatchesNewestLeaf
    <2> QED
      BY <1>1, <2>1, <2>2, <2>3 DEF AgreesWith, Decision
  <1> QED
    BY <1>2, <1>3 DEF Finishes

\* A redelivery leaves the document as its message says, or as misled as it was.
LEMMA RedeliveredAgrees ==
    ASSUME IInv, StoresInv, IngestUnchanged, ~Misled(D)
    PROVE  AgreesWith(D, hand)'
  <1>1. UNCHANGED <<topic, hand>> /\ D' = D /\ D \in Docs
    BY WritesOne DEF IInv
  <1>2. /\ Decision = "ingest" /\ fact[D] = V /\ Len(leaves[D]) = 1 /\ UNCHANGED <<leaves, fact>>
        /\ body' = [body EXCEPT ![D] = IF body[D] \in {None, Standin} THEN V ELSE body[D]]
        /\ pc = "write"
    BY DEF IngestUnchanged, StoredVersion
  <1>3. V \in Versions /\ leaves[D] \in Seq(Versions)
    BY <1>1, <1>2, InHandNames DEF IInv, TypeInv, TypeOK, Busy, PCs
  <1>4. leaves[D] = <<V>>
    BY <1>2, <1>3, OneLeaf DEF Misled
  <1>5. leaves[D] # <<>> /\ Newest(D) = V
    BY <1>2, <1>3, <1>4, LengthOne DEF Newest
  <1>6. body[D] \in {V, Standin}
    BY <1>1, <1>5 DEF StoresInv, BodyMatchesNewestLeaf
  <1>7. body'[D] = V
    BY <1>1, <1>2, <1>6 DEF IInv, TypeInv, TypeOK
  <1> QED
    BY <1>1, <1>2, <1>4, <1>7 DEF AgreesWith, Decision, V

LEMMA AgreesNotMisled ==
    ASSUME NEW d, NEW o, AgreesWith(d, o)'
    PROVE  ~Misled(d)'
  BY DEF AgreesWith, Misled

\* While the partition stays with the consumer, every step but a rewind is one of these.
LEMMA OrdinarySteps ==
    ASSUME TypeInv, MaxRebalances = 0, FeederTask \/ Environment \/ Process \/ UNCHANGED vars
    PROVE  \/ Rests \/ (\E m \in Messages : Produce(m)) \/ Receive \/ SetAside
           \/ Enters \/ Finishes \/ IngestUnchanged
  <1>1. ~Revoke
    <2>1. rebalances \in 0..0
      BY DEF TypeInv, TypeOK
    <2> QED
      BY <2>1 DEF Revoke
  <1> QED
    BY <1>1 DEF FeederTask, Environment, Process, Ingest, ForgetDoc, Retries, Rests, Enters, Finishes

LEMMA KindsOfStep ==
    ASSUME TypeInv, MaxRebalances = 0, [Next]_vars
    PROVE  \/ Rests \/ \E outcome \in RewindOutcomes : Rewind(outcome)
           \/ (\E m \in Messages : Produce(m)) \/ Receive \/ SetAside
           \/ Enters \/ Finishes \/ IngestUnchanged
  BY OrdinarySteps DEF Next

LEMMA MendableNext ==
    ASSUME IInv, StoresInv, StoresInv', Handed, Mendable, MaxRebalances = 0, [Next]_vars
    PROVE  Mendable'
  <1>1. CASE Rests \/ \E outcome \in RewindOutcomes : Rewind(outcome)
    BY <1>1, RestsKeeps, MendableStays
  <1>2. CASE Receive \/ SetAside
    <2>1. UNCHANGED <<topic, stores>>
      BY <1>2 DEF Receive, Take, SetAside, Handling
    <2> QED
      BY <2>1, MendableStays
  <1>3. CASE \E m \in Messages : Produce(m)
    <2>1. PICK m \in Messages : Produce(m)
      BY <1>3
    <2>2. topic' = Append(topic, m) /\ UNCHANGED stores /\ topic \in Seq(Messages)
      BY <2>1 DEF Produce, IInv, TypeInv, TypeOK
    <2>3. Len(topic') = Len(topic) + 1 /\ \A o \in 1..Len(topic) : topic'[o] = topic[o]
      BY <2>2
    <2>4. \A d : Touching(d) \subseteq Touching(d)' /\ Touching(d) \subseteq 1..Len(topic)
      <3>1. Len(topic) \in Nat /\ \A o \in 1..Len(topic) : o \in 1..Len(topic')
        BY <2>2, <2>3
      <3> QED
        BY <2>3, <3>1 DEF Touching
    <2>5. ASSUME NEW d \in Docs, Misled(d)' PROVE \E o \in Touching(d)' : Mends(o, d)'
      <3>1. Misled(d)
        BY <2>2, <2>5 DEF Misled, stores
      <3>2. PICK o \in Touching(d) : Mends(o, d)
        BY <3>1 DEF Mendable
      <3>3. Mends(o, d)' /\ o \in Touching(d)'
        BY <2>2, <2>3, <2>4, <3>2 DEF Mends, stores
      <3> QED
        BY <3>3
    <2> QED
      BY <2>5 DEF Mendable
  <1>4. CASE Enters \/ Finishes \/ IngestUnchanged
    <2>1. /\ UNCHANGED <<topic, hand>> /\ D' = D /\ D \in Docs /\ hand \in Touching(D)
          /\ \A d \in Docs : d # D =>
                leaves'[d] = leaves[d] /\ body'[d] = body[d] /\ fact'[d] = fact[d]
      BY <1>4, WritesOne DEF IInv
    <2>2. \A d : Touching(d)' = Touching(d)
      BY <2>1 DEF Touching
    <2>3. ASSUME NEW d \in Docs, Misled(d)', leaves'[d] = leaves[d], fact'[d] = fact[d]
          PROVE  \E o \in Touching(d) : Mends(o, d)'
      <3>1. Misled(d)
        BY <2>3 DEF Misled
      <3>2. PICK o \in Touching(d) : Mends(o, d)
        BY <3>1 DEF Mendable
      <3> QED
        BY <2>1, <2>3, <3>2 DEF Mends
    <2>4. ASSUME Misled(D)' PROVE \E o \in Touching(D) : Mends(o, D)'
      <3>1. CASE Enters
        BY <2>1, <2>4, <3>1, HandMends
      <3>2. CASE Finishes
        BY <2>1, <2>4, <3>2, FinishedAgrees, AgreesNotMisled
      <3>3. CASE IngestUnchanged
        <4>1. leaves'[D] = leaves[D] /\ fact'[D] = fact[D]
          BY <3>3 DEF IngestUnchanged
        <4> QED
          BY <2>1, <2>3, <2>4, <4>1
      <3> QED
        BY <1>4, <3>1, <3>2, <3>3
    <2>5. ASSUME NEW d \in Docs, Misled(d)' PROVE \E o \in Touching(d)' : Mends(o, d)'
      <3>1. CASE d = D
        BY <2>1, <2>2, <2>4, <2>5, <3>1
      <3>2. CASE d # D
        BY <2>1, <2>2, <2>3, <2>5, <3>2
      <3> QED
        BY <3>1, <3>2
    <2> QED
      BY <2>5 DEF Mendable
  <1> QED
    BY <1>1, <1>2, <1>3, <1>4, KindsOfStep DEF IInv

LEMMA RewindOwns ==
    ASSUME \E outcome \in RewindOutcomes : Rewind(outcome)
    PROVE  UNCHANGED <<hand, assigned>> /\ (~assigned => UNCHANGED <<pending, stored>>)
  <1>1. PICK outcome : Rewind(outcome)
    OBVIOUS
  <1>2. UNCHANGED <<hand, assigned>>
    BY <1>1 DEF Rewind, RewindToEarliest, task
  <1>3. ASSUME ~assigned PROVE UNCHANGED <<pending, stored>>
    BY <1>1, <1>3, Zenon DEF Rewind, RewindToEarliest
  <1> QED
    BY <1>2, <1>3

LEMMA HandedNext ==
    ASSUME IInv, StoresInv, Handed, MaxRebalances = 0, [Next]_vars
    PROVE  Handed'
  <1> DEFINE Owned == (hand # 0 => assigned) /\ (~assigned => pending = -1 /\ stored = -1)
             Single == pc = "fact" => Len(leaves[D]) = 1
  <1>0. Owned /\ Single
    BY DEF Handed
  <1>1. CASE Rests \/ \E outcome \in RewindOutcomes : Rewind(outcome)
    <2>1. UNCHANGED <<topic, stores>> /\ (pc' = "fact" => UNCHANGED <<pc, hand>>)
      BY <1>1, RestsKeeps
    <2>2. Single'
      BY <1>0, <2>1 DEF D, stores
    <2>3. Owned'
      <3>1. CASE BrokerAnswers \/ Assign \/ Start \/ Crash \/ Shutdown \/ Exit \/ LeaveLoop
        BY <1>0, <3>1 DEF BrokerAnswers, Assign, Start, Crash, Shutdown, Exit, LeaveLoop,
                          ForgetMemory, broker, client, task, Handed
      <3>2. CASE Close
        BY <1>0, <3>2 DEF Close, client
      <3>3. CASE \/ IngestDistill \/ Distilled \/ BeginForget \/ WriteFails \/ SetAsideFails
                 \/ RetryWrite \/ RetryAside \/ Interrupt
        BY <1>0, <3>3 DEF IngestDistill, Distilled, BeginForget, WriteFails, GiveUp, SetAsideFails,
                          RetryWrite, RetryAside, Interrupt, Handling, broker, client
      <3>4. CASE Settle
        <4>1. hand # 0
          <5>1. pc \in Busy
            BY <3>4 DEF Settle, StoreAndCommit, Busy, PCs
          <5> QED
            BY <5>1, InHand DEF IInv, TypeInv
        <4>2. assigned
          BY <1>0, <4>1
        <4> QED
          BY <3>4, <4>2 DEF Settle, StoreAndCommit
      <3>5. CASE UNCHANGED vars
        BY <1>0, <3>5 DEF vars, broker, client, task
      <3>6. CASE \E outcome \in RewindOutcomes : Rewind(outcome)
        <4>1. UNCHANGED <<hand, assigned>> /\ (~assigned => UNCHANGED <<pending, stored>>)
          BY <3>6, RewindOwns
        <4> QED
          BY <1>0, <4>1
      <3> QED
        BY <1>1, <3>1, <3>2, <3>3, <3>4, <3>5, <3>6 DEF Rests
    <2> QED
      BY <2>2, <2>3 DEF Handed
  <1>2. CASE Receive
    BY <1>0, <1>2 DEF Receive, Take, Handed, broker
  <1>3. CASE SetAside
    BY <1>0, <1>3 DEF SetAside, Handling, Handed, broker, client
  <1>4. CASE \E m \in Messages : Produce(m)
    <2>1. PICK m \in Messages : Produce(m)
      BY <1>4
    <2>2. UNCHANGED <<broker, client, task, stores>> /\ topic' = Append(topic, m)
          /\ topic \in Seq(Messages)
      BY <2>1 DEF Produce, IInv, TypeInv, TypeOK
    <2>3. pc = "fact" => hand \in 1..Len(topic)
      BY InHand DEF IInv, TypeInv, Busy, PCs
    <2>4. pc = "fact" => topic'[hand] = topic[hand]
      BY <2>2, <2>3
    <2> QED
      BY <1>0, <2>2, <2>4 DEF Handed, broker, client, task, stores, D
  <1>5. CASE Enters \/ Finishes \/ IngestUnchanged
    <2>1. UNCHANGED <<topic, broker, client, hand>> /\ D' = D /\ D \in Docs
      BY <1>5, WritesOne DEF IInv
    <2>2. Owned'
      BY <1>0, <2>1 DEF broker, client
    <2>3. ASSUME pc' = "fact" PROVE Len(leaves'[D]) = 1
      <3>1. CASE PlaceLeaf
        <4>1. leaves[D] = <<>> /\ leaves'[D] = Append(leaves[D], V)
          BY <2>1, <2>3, <3>1 DEF PlaceLeaf, IInv, TypeInv, TypeOK
        <4> QED
          BY <4>1
      <3>2. CASE PruneLeaf
        <4>1. Len(leaves[D]) = 2 /\ leaves'[D] = Tail(leaves[D]) /\ leaves[D] \in Seq(Versions)
          BY <2>1, <2>3, <3>2 DEF PruneLeaf, IInv, TypeInv, TypeOK
        <4> QED
          BY <4>1
      <3> QED
        BY <1>5, <2>3, <3>1, <3>2
           DEF Enters, Finishes, UnlinkLeaf, DropBody, WriteFact, DropFact, IngestUnchanged
    <2> QED
      BY <2>1, <2>2, <2>3 DEF Handed
  <1> QED
    BY <1>1, <1>2, <1>3, <1>4, <1>5, KindsOfStep DEF IInv

\* With the message in hand dealt with, reading has passed it, or starts before it.
LEMMA PassesHand ==
    ASSUME TypeInv, Handed, Order, pc \in InProgress, pc' = "settle",
           UNCHANGED <<position, assigned, hand>>
    PROVE  /\ Read \in Int /\ Read' \in Int /\ hand \in Nat /\ Read <= Read' /\ Read' <= hand
           /\ Read' = 0 \/ (Read' = hand /\ Read = hand - 1)
           /\ \A o \in Nat : o <= Read' /\ o # hand => o <= Read
  <1>1. /\ hand \in 1..Len(topic) /\ hand \in Nat /\ hand # 0 /\ assigned /\ Read < hand
        /\ position = hand => Read = hand - 1
        /\ position # hand => position = 0 /\ Read = 0
    BY InHandAbove, Numbers
  <1>2. Read' = position
    BY <1>1 DEF Read
  <1> QED
    BY <1>1, <1>2, Numbers

LEMMA OrderNext ==
    ASSUME TypeInv, TypeInv', Handed, Order,
           \/ Rests \/ Rewinds \/ (\E m \in Messages : Produce(m)) \/ Receive \/ SetAside
           \/ Enters \/ Finishes \/ IngestUnchanged
    PROVE  Order'
  <1>0. /\ committed \in Nat /\ pending \in Int /\ stored \in Int /\ position \in Nat
        /\ hand \in Nat /\ received \in Nat /\ generation \in Nat /\ Read \in Int /\ Read' \in Int
    BY Numbers, NumbersNext
  <1>1. CASE Rests
    BY <1>1, RestsOrder
  <1>2. CASE Rewinds
    BY <1>2, RewindsOrder
  <1>3. CASE \E m \in Messages : Produce(m)
    <2>1. UNCHANGED <<broker, client, task>>
      BY <1>3 DEF Produce
    <2> QED
      BY <2>1 DEF broker, client, task, Order, Read
  <1>4. CASE Receive
    <2>1. /\ hand = 0 /\ assigned /\ assigned' /\ position' = position + 1 /\ hand' = position + 1
          /\ UNCHANGED <<committed, pending, stored>>
      BY <1>4 DEF Receive, Take, broker, TypeInv, Control
    <2>2. Read = position /\ Read' \in {position, position + 1}
      BY <1>0, <2>1 DEF Read
    <2> QED
      BY <1>0, <2>1, <2>2 DEF Order
  <1>5. CASE Enters
    <2>1. UNCHANGED <<committed, pending, stored, assigned, position, hand, received, generation>>
      BY <1>5, WritesOne DEF broker, client
    <2>2. pc # "settle" /\ pc' # "settle"
      BY <1>5 DEF Enters, PlaceLeaf, PruneLeaf, UnlinkLeaf, DropBody
    <2> QED
      BY <2>1, <2>2 DEF Order, Read
  <1>6. CASE SetAside \/ Finishes \/ IngestUnchanged
    <2>1. UNCHANGED <<committed, pending, stored, assigned, position, hand, received, generation>>
      BY <1>6 DEF SetAside, Finishes, WriteFact, DropFact, IngestUnchanged, Handling, broker, client
    <2>2. pc \in InProgress /\ pc' = "settle"
      BY <1>6 DEF SetAside, Finishes, WriteFact, DropFact, IngestUnchanged, InProgress, Busy, PCs
    <2>3. Read <= Read'
      BY <2>1, <2>2, PassesHand
    <2> QED
      BY <1>0, <2>1, <2>3 DEF Order
  <1> QED
    BY <1>1, <1>2, <1>3, <1>4, <1>5, <1>6

\* A redelivery of the older version does not repair a document it is misled about: a
\* later message does.
LEMMA MisledFits ==
    ASSUME IInv, Handed, Order, IngestUnchanged, Misled(D), Fits(D, Read)
    PROVE  Fits(D, Read)'
  <1>1. /\ UNCHANGED <<topic, hand, position, assigned>> /\ D' = D
        /\ D \in Docs /\ hand \in Touching(D) /\ pc \in InProgress
    BY WritesOne DEF IInv, client
  <1>2. /\ Decision = "ingest" /\ fact[D] = V /\ UNCHANGED <<leaves, fact>> /\ pc' = "settle"
    BY DEF IngestUnchanged, StoredVersion
  <1>3. PICK o \in Touching(D) : o > Read /\ Mends(o, D)
    BY DEF Fits
  <1>4. o # hand
    BY <1>2, <1>3 DEF Mends, Misled, Decision, V
  <1>5. Touching(D)' = Touching(D) /\ Touching(D) \subseteq Nat
    BY <1>1 DEF Touching
  <1>6. PICK k, l : k = Read /\ l = Read'
    OBVIOUS
  <1>7. /\ k \in Int /\ l \in Int
        /\ l = 0 \/ (l = hand /\ k = hand - 1)
        /\ \A p \in Nat : p <= l /\ p # hand => p <= k
    <2>1. TypeInv
      BY DEF IInv
    <2> QED
      BY <1>1, <1>2, <1>6, <2>1, PassesHand
  <1>8. o > l
    BY <1>3, <1>4, <1>5, <1>6, <1>7
  <1>9. Mends(o, D)'
    BY <1>1, <1>2, <1>3 DEF Mends
  <1> QED
    BY <1>1, <1>5, <1>6, <1>7, <1>8, <1>9 DEF Fits

LEMMA FittingNext ==
    ASSUME IInv, IInv', StoresInv, StoresInv', Handed, Order, Fitting,
           \/ Rests \/ Rewinds \/ (\E m \in Messages : Produce(m)) \/ Receive \/ SetAside
           \/ Enters \/ Finishes \/ IngestUnchanged
    PROVE  Fitting'
  <1>0. TypeInv /\ TypeInv'
    BY DEF IInv
  <1>1. Read \in Int /\ Read' \in Int /\ hand \in Nat
    BY <1>0, Numbers, NumbersNext
  <1>2. PICK k, l : k = Read /\ l = Read'
    OBVIOUS
  <1>3. k \in Int /\ l \in Int
    BY <1>1, <1>2
  \* Whether dead-lettered or not, no message of d is taken back.
  <1>4. SUFFICES ASSUME NEW d \in Docs, Touching(d)' \cap deadLetters' = {}
                 PROVE  Fits(d, l)'
    BY <1>2 DEF Fitting, Fits
  <1>5. ASSUME Touching(d) \subseteq Touching(d)', deadLetters \subseteq deadLetters'
        PROVE  Fits(d, k)
    BY <1>2, <1>4, <1>5 DEF Fitting
  <1>6. CASE Rests
    <2>1. UNCHANGED <<topic, stores>> /\ deadLetters \subseteq deadLetters' /\ Read' <= Read
      BY <1>0, <1>6, RestsKeeps, RestsOrder
    <2>2. Fitting'
      BY <1>0, <2>1, FittingStays
    <2> QED
      BY <1>2, <1>4, <2>2 DEF Fitting, Fits
  <1>7. CASE Rewinds
    <2>1. UNCHANGED <<topic, stores>> /\ deadLetters \subseteq deadLetters' /\ Read' <= Read
      <3>1. PICK outcome : Rewind(outcome)
        BY <1>7 DEF Rewinds
      <3>2. UNCHANGED <<topic, stores, deadLetters>>
        BY <3>1 DEF Rewind, RewindToEarliest, aside
      <3> QED
        BY <1>0, <1>7, <3>2, RewindsOrder
    <2>2. Fitting'
      BY <1>0, <2>1, FittingStays
    <2> QED
      BY <1>2, <1>4, <2>2 DEF Fitting, Fits
  <1>8. CASE \E m \in Messages : Produce(m)
    <2>1. PICK m \in Messages : Produce(m)
      BY <1>8
    <2>2. /\ topic' = Append(topic, m) /\ UNCHANGED <<stores, deadLetters>> /\ topic \in Seq(Messages)
          /\ UNCHANGED <<broker, client, task>>
      BY <1>0, <2>1 DEF Produce, TypeInv, TypeOK, aside
    <2>3. l = k /\ k <= Len(topic)
      BY <1>0, <1>2, <2>2, Numbers DEF Read, broker, client, task
    <2>4. Touching(d) \subseteq Touching(d)'
      <3>1. /\ Len(topic') = Len(topic) + 1 /\ Len(topic) \in Nat
            /\ \A o \in 1..Len(topic) : topic'[o] = topic[o]
        BY <2>2
      <3>2. \A o \in 1..Len(topic) : o \in 1..Len(topic')
        BY <3>1
      <3> QED
        BY <3>1, <3>2 DEF Touching
    <2> QED
      BY <1>0, <1>3, <1>5, <2>2, <2>3, <2>4, FitsGrown
  <1>9. CASE Receive
    <2>1. UNCHANGED <<topic, stores, deadLetters>>
      BY <1>9 DEF Receive, Take, aside
    <2>2. Touching(d)' = Touching(d) /\ Touching(d) \subseteq Nat
      BY <2>1 DEF Touching
    <2>3. Fits(d, k)
      BY <1>5, <2>1, <2>2
    <2>4. /\ hand = 0 /\ assigned /\ assigned' /\ position' = position + 1 /\ hand' = position + 1
          /\ pc' = "settle" => Decide(topic[position + 1]) = "skip"
      BY <1>0, <1>9 DEF Receive, Take, TypeInv, Control
    <2>5. k = position /\ l = IF pc' = "settle" THEN position + 1 ELSE position
      BY <1>0, <1>2, <2>4, Numbers DEF Read
    <2>6. pc' = "settle" => position + 1 \notin Touching(d)
      BY <2>4 DEF Touching
    <2>7. \A o \in Touching(d) : o <= l => o <= k
      BY <1>3, <2>2, <2>5, <2>6
    <2> QED
      BY <1>3, <2>1, <2>3, <2>7, FitsSame DEF stores
  <1>10. CASE Enters
    <2>1. /\ UNCHANGED <<topic, broker, client, hand, deadLetters>> /\ D' = D
          /\ D \in Docs /\ hand \in Touching(D) /\ pc \in InProgress
          /\ \A e \in Docs : e # D =>
                leaves'[e] = leaves[e] /\ body'[e] = body[e] /\ fact'[e] = fact[e]
      BY <1>0, <1>10, WritesOne DEF aside
    <2>2. pc # "settle" /\ pc' # "settle"
      BY <1>10 DEF Enters, PlaceLeaf, PruneLeaf, UnlinkLeaf, DropBody
    <2>3. l = k /\ k < hand
      BY <1>0, <1>2, <2>1, <2>2, InHandAbove DEF Read, broker, client
    <2>4. \A e : Touching(e)' = Touching(e) /\ Touching(e) \subseteq Nat
      BY <2>1 DEF Touching
    <2>5. CASE d = D
      <3>1. Misled(D)' => Mends(hand, D)'
        BY <1>10, HandMends
      <3>2. \A o \in Touching(D) : ~(o <= l /\ \A p \in Touching(D) : p <= o)
        BY <1>1, <1>3, <2>1, <2>3, <2>4
      <3>3. hand > l
        BY <1>1, <1>3, <2>3
      <3> QED
        BY <2>1, <2>4, <2>5, <3>1, <3>2, <3>3 DEF Fits
    <2>6. CASE d # D
      <3>1. Fits(d, k)
        BY <1>5, <2>1, <2>4
      <3> QED
        BY <1>3, <2>1, <2>3, <2>6, <3>1, FitsSame
    <2> QED
      BY <2>5, <2>6
  <1>11. CASE Finishes \/ IngestUnchanged
    <2>1. /\ UNCHANGED <<topic, broker, client, hand, deadLetters>> /\ D' = D
          /\ D \in Docs /\ hand \in Touching(D) /\ pc \in InProgress
          /\ \A e \in Docs : e # D =>
                leaves'[e] = leaves[e] /\ body'[e] = body[e] /\ fact'[e] = fact[e]
      BY <1>0, <1>11, WritesOne DEF aside
    <2>2. pc' = "settle"
      BY <1>11 DEF Finishes, WriteFact, DropFact, IngestUnchanged
    <2>3. l <= hand /\ \A o \in Nat : o <= l /\ o # hand => o <= k
      BY <1>0, <1>2, <2>1, <2>2, PassesHand DEF client
    <2>4. \A e : Touching(e)' = Touching(e) /\ Touching(e) \subseteq Nat
      BY <2>1 DEF Touching
    <2>5. Fits(d, k)
      BY <1>5, <2>1, <2>4
    <2>6. CASE d # D
      <3>1. hand \notin Touching(d)
        BY <2>6, TouchedIsD
      <3>2. \A o \in Touching(d) : o <= l => o <= k
        BY <2>3, <2>4, <3>1
      <3> QED
        BY <1>3, <2>1, <2>5, <2>6, <3>2, FitsSame
    <2>7. CASE d = D /\ AgreesWith(D, hand)'
      <3>1. Fits(D, hand)'
        BY <1>0, <2>1, <2>7, AgreesFits
      <3>2. PICK h : h = hand
        OBVIOUS
      <3>3. h \in Int /\ l <= h /\ Fits(D, h)'
        BY <1>1, <2>1, <2>3, <3>1, <3>2 DEF Fits
      <3>4. Fits(d, h)'
        BY <2>1, <2>7, <3>3 DEF Fits
      <3> QED
        BY <1>3, <3>3, <3>4, FitsLess
    <2>8. CASE d = D /\ ~AgreesWith(D, hand)'
      <3>1. IngestUnchanged /\ Misled(D)
        BY <1>11, <2>8, FinishedAgrees, RedeliveredAgrees
      <3>2. Fits(D, Read)
        BY <1>2, <2>5, <2>8
      <3>3. Fits(D, Read)'
        BY <3>1, <3>2, MisledFits
      <3> QED
        BY <1>2, <2>1, <2>8, <3>3 DEF Fits
    <2> QED
      BY <2>6, <2>7, <2>8
  <1>12. CASE SetAside
    <2>1. /\ UNCHANGED <<topic, broker, client, hand, stores>> /\ pc = "aside" /\ pc' = "settle"
          /\ Forwarded(hand)
      BY <1>12 DEF SetAside, Handling
    <2>2. pc \in InProgress
      BY <2>1 DEF InProgress, Busy, PCs
    <2>3. l <= hand /\ \A o \in Nat : o <= l /\ o # hand => o <= k
      BY <1>0, <1>2, <2>1, <2>2, PassesHand DEF client
    <2>4. Touching(d)' = Touching(d) /\ Touching(d) \subseteq Nat
      BY <2>1 DEF Touching
    <2>5. deadLetters \subseteq deadLetters' /\ hand \notin Touching(d)
      <3>1. Decision # "park" => hand \in deadLetters'
        BY <2>1 DEF Forwarded
      <3>2. hand \in Touching(d) => Decision \in {"ingest", "forget"}
        BY TouchedIsD
      <3> QED
        BY <1>4, <2>1, <2>4, <3>1, <3>2 DEF Forwarded
    <2>6. \A o \in Touching(d) : o <= l => o <= k
      BY <2>3, <2>4, <2>5
    <2>7. Fits(d, k)
      BY <1>5, <2>4, <2>5
    <2> QED
      BY <1>3, <2>1, <2>6, <2>7, FitsSame DEF stores
  <1> QED
    BY <1>6, <1>7, <1>8, <1>9, <1>10, <1>11, <1>12

\* A set of offsets has a greatest one: < is well founded.
LEMMA GreatestExists ==
    ASSUME NEW n \in Nat, NEW T, T \subseteq 1..n, T # {}
    PROVE  \E o \in T : \A p \in T : p <= o
  <1> DEFINE Below == {pair \in Nat \X Nat : pair[1] < pair[2]}
             From == {n - o : o \in T}
  <1>1. IsWellFoundedOn(Below, Nat)
    BY NatLessThanWellFounded DEF OpToRel
  <1>2. From \subseteq Nat /\ From # {}
    <2>1. \A o \in T : n - o \in Nat
      OBVIOUS
    <2>2. PICK o : o \in T
      OBVIOUS
    <2>3. n - o \in From
      BY <2>2
    <2> QED
      BY <2>1, <2>3
  <1>3. PICK least \in From : \A k \in From : ~ (<<k, least>> \in Below)
    <2> HIDE DEF Below, From
    <2> QED
      BY <1>1, <1>2, WFMin
  <1>4. \A k \in From : least <= k
    <2>1. \A k \in From : ~(k < least)
      BY <1>2, <1>3
    <2> QED
      BY <1>2, <2>1
  <1>5. PICK o \in T : least = n - o
    BY <1>3
  <1>6. \A p \in T : n - o <= n - p
    BY <1>4, <1>5
  <1> QED
    BY <1>6

\* Caught up, reading has passed every message.
LEMMA FittingAgrees ==
    ASSUME IInv, Fitting
    PROVE  CaughtUpAgrees
  <1> SUFFICES ASSUME CaughtUp, NEW d \in Docs, Touching(d) # {}, Touching(d) \cap deadLetters = {},
                      NEW last, last = CHOOSE o \in Touching(d) : \A p \in Touching(d) : p <= o
               PROVE  AgreesWith(d, last)
    BY DEF CaughtUpAgrees, AgreesWith
  <1>1. Touching(d) \subseteq 1..Len(topic) /\ Len(topic) \in Nat
    BY Numbers DEF Touching, IInv
  <1>2. \E o \in Touching(d) : \A p \in Touching(d) : p <= o
    BY <1>1, GreatestExists
  <1>3. last \in Touching(d) /\ \A p \in Touching(d) : p <= last
    BY <1>2
  <1>4. Read = Len(topic)
    BY DEF CaughtUp, Read, IInv, TypeInv, Control
  <1>5. last <= Read
    BY <1>1, <1>3, <1>4
  <1> QED
    BY <1>3, <1>5 DEF Fitting, Fits

LEMMA InitHistory ==
    ASSUME Init
    PROVE  Handed /\ Mendable /\ Order /\ Fitting
  <1>1. Handed /\ Order
    BY DEF Init, Handed, Order, Read
  <1>2. \A d : Touching(d) = {}
    <2>1. 1..Len(topic) = {}
      BY DEF Init
    <2> QED
      BY <2>1 DEF Touching
  <1>3. ASSUME NEW d \in Docs PROVE ~Misled(d)
    <2>1. CASE leaves[d] = <<>>
      BY <2>1 DEF Misled
    <2>2. CASE leaves[d] # <<>>
      <3>1. fact[d] \in {leaves[d][1], Unmarked}
        BY <2>2 DEF Init, StoresInit
      <3> QED
        BY <3>1, FeederConstants DEF Misled
    <2> QED
      BY <2>1, <2>2
  <1> QED
    BY <1>1, <1>2, <1>3 DEF Mendable, Fitting, Fits

\* While the partition stays with the consumer, and a rewind that fails leaves the
\* position where it was, a caught-up feeder agrees with the topic: whatever crashed, was
\* retried or was read again on the way, each document is in both stores what its last
\* message says (ingestion.rs, kafka_feeder.rs: at-least-once delivery of an idempotent
\* upsert).
THEOREM CaughtUpAlwaysAgrees ==
    ASSUME MaxRebalances = 0, RewindOutcomes \subseteq {"done", "seek failed"}
    PROVE  Spec => []CaughtUpAgrees
  <1> DEFINE Inv == IInv /\ StoresInv /\ Handed /\ Order /\ Fitting
  <1>1. Init => Inv
    BY InitTypeInv, InitProgress, InitStores, InitHistory DEF IInv
  <1>2. ASSUME Inv, [Next]_vars PROVE Inv'
    <2>1. IInv' /\ StoresInv'
      BY <1>2, NextTypeInv, NextProgress, NextStores DEF IInv
    <2>2. Handed'
      BY <1>2, HandedNext
    <2>3. (\E outcome \in RewindOutcomes : Rewind(outcome)) => Rewinds
      BY Zenon DEF Rewinds
    <2>4. \/ Rests \/ Rewinds \/ (\E m \in Messages : Produce(m)) \/ Receive \/ SetAside
          \/ Enters \/ Finishes \/ IngestUnchanged
      <3>1. TypeInv
        BY <1>2 DEF IInv
      <3>2. \/ Rests \/ \E outcome \in RewindOutcomes : Rewind(outcome)
            \/ (\E m \in Messages : Produce(m)) \/ Receive \/ SetAside
            \/ Enters \/ Finishes \/ IngestUnchanged
        BY <1>2, <3>1, KindsOfStep, Zenon
      <3> QED
        BY <2>3, <3>2, Zenon
    <2>5. Order' /\ Fitting'
      <3>1. TypeInv /\ TypeInv'
        BY <1>2, <2>1 DEF IInv
      <3> QED
        BY <1>2, <2>1, <2>4, <3>1, OrderNext, FittingNext, Zenon
    <2> QED
      BY <2>1, <2>2, <2>5
  <1>3. Inv => CaughtUpAgrees
    BY FittingAgrees
  <1> QED
    BY <1>1, <1>2, <1>3, PTL DEF Spec

-----------------------------------------------------------------------------
(***************************************************************************)
(* A hard reset and the replay that follows it (ResetReplay).              *)
(***************************************************************************)
\* A reset in hand is not committed, and one committed was taken.
Commanded ==
    /\ cmdCommitted <= cmdPosition /\ cmdPending <= cmdPosition
    /\ cpc # "idle" => cmdCommitted < cmdPosition /\ cmdPending < cmdPosition

\* The command task is between two awaits only while the feeder is at one.
Turns ==
    /\ cpc \notin {"idle", "embed"} => pc \in AwaitPoints
    /\ pc = "down" => cpc = "idle"

\* What was wiped is being replayed, was given up on, or is wiped again: its command
\* was not committed.
Replays ==
    /\ cpc \notin {"idle", "wipe", "settle"} => wiped
    /\ wiped /\ ~unreplayed => cpc \notin {"idle", "settle"} \/ (cpc = "idle" /\ cmdPosition < sent)

Whole == ~wiped => Order /\ Fitting

StoresPart == IInv /\ StoresInv /\ Handed /\ Mendable
ResetInv == StoresPart /\ ResetTypeOK /\ Commanded /\ Turns /\ Replays /\ Whole

LEMMA Wipes ==
    ASSUME Turns, Replays, WipeStm \/ WipeLtm
    PROVE  /\ UNCHANGED <<topic, broker, aside, client, stop, task, fate, budgets, commands, unreplayed>>
           /\ pc \in AwaitPoints /\ wiped' /\ cpc # "idle" /\ cpc' \notin {"idle", "wipe", "settle"}
           /\ \/ fact' = [d \in Docs |-> None] /\ UNCHANGED <<leaves, body>>
              \/ /\ leaves' = [d \in Docs |-> <<>>] /\ body' = [d \in Docs |-> None]
                 /\ UNCHANGED fact
  <1>1. CASE WipeStm
    BY <1>1, Zenon DEF WipeStm, Turns
  <1>2. CASE WipeLtm
    <2>1. cpc \notin {"idle", "wipe", "settle", "embed"} /\ cpc' = "seed"
      BY <1>2, Zenon DEF WipeLtm
    <2>2. /\ UNCHANGED <<topic, broker, aside, client, stop, task, fate, budgets, commands>>
          /\ UNCHANGED <<wiped, unreplayed, fact>>
          /\ leaves' = [d \in Docs |-> <<>>] /\ body' = [d \in Docs |-> None]
      BY <1>2, Zenon DEF WipeLtm, history
    <2> QED
      BY <2>1, <2>2 DEF Turns, Replays
  <1> QED
    BY <1>1, <1>2

\* Every other step is a step of the feeder and its environment, or leaves them alone.
LEMMA ResetKinds ==
    ASSUME [ResetNext]_allVars
    PROVE  WipeStm \/ WipeLtm \/ [Next]_vars
  <1>1. CASE TakeReset \/ SeedSpine \/ ResetFails \/ EmbedSpine \/ SettleReset \/ SendReset
               \/ CommandBrokerAnswers \/ UNCHANGED allVars
    BY <1>1 DEF TakeReset, Fetch, SeedSpine, ResetFails, EmbedSpine, SettleReset, SendReset,
                CommandBrokerAnswers, allVars
  <1>2. CASE FeederMoves \/ EnvironmentMoves \/ StartDaemon \/ CrashDaemon \/ ShutDaemon \/ ExitDaemon
    BY <1>2 DEF FeederMoves, EnvironmentMoves, StartDaemon, CrashDaemon, ShutDaemon, ExitDaemon,
                Next, Process
  <1>3. CASE RewindFeeder
    BY <1>3 DEF RewindFeeder, Next
  <1> QED
    BY <1>1, <1>2, <1>3 DEF ResetNext, CommandTask

LEMMA WipedStores ==
    ASSUME StoresPart, pc \in AwaitPoints,
           UNCHANGED <<topic, broker, aside, client, stop, task, fate, budgets>>,
           \/ fact' = [d \in Docs |-> None] /\ UNCHANGED <<leaves, body>>
           \/ /\ leaves' = [d \in Docs |-> <<>>] /\ body' = [d \in Docs |-> None]
              /\ UNCHANGED fact
    PROVE  StoresPart'
  <1>1. pc' = pc /\ pc \notin {"prune", "fact", "unfact"}
    BY DEF AwaitPoints, task
  <1>2. TypeOK'
    <2>1. leaves' \in [Docs -> Seq(Versions)] /\ body' \in [Docs -> Versions \cup {None, Standin}]
          /\ fact' \in [Docs -> Versions \cup {None, Unmarked}]
      <3>1. <<>> \in Seq(Versions)
        OBVIOUS
      <3> QED
        BY <3>1 DEF StoresPart, IInv, TypeInv, TypeOK
    <2> QED
      BY <2>1 DEF StoresPart, IInv, TypeInv, TypeOK, broker, aside, client, task, budgets
  <1>3. Control'
    BY <1>1 DEF StoresPart, IInv, TypeInv, Control, Decision, D, broker, client, task, budgets
  <1>4. Progress'
    BY DEF StoresPart, IInv, Progress, HandledUpTo, Handled, broker, client, task
  <1>5. StoresInv'
    BY <1>1 DEF StoresPart, StoresInv, BodyMatchesNewestLeaf, Replacing, StandinIsOld, Newest
  <1>6. Handed'
    BY <1>1 DEF StoresPart, Handed, broker, client, task
  <1>7. \A d \in Docs : ~Misled(d)'
    <2>1. None \notin Versions
      BY FeederConstants, Zenon
    <2> QED
      BY <2>1 DEF Misled
  <1> QED
    BY <1>2, <1>3, <1>4, <1>5, <1>6, <1>7 DEF StoresPart, IInv, TypeInv, Mendable

LEMMA StoresPartNext ==
    ASSUME ResetInv, MaxRebalances = 0, [ResetNext]_allVars
    PROVE  StoresPart'
  <1>1. CASE WipeStm \/ WipeLtm
    BY <1>1, Wipes, WipedStores DEF ResetInv
  <1>2. CASE [Next]_vars
    <2>1. IInv' /\ StoresInv'
      BY <1>2, NextTypeInv, NextProgress, NextStores DEF ResetInv, StoresPart, IInv
    <2>2. Handed' /\ Mendable'
      BY <1>2, <2>1, HandedNext, MendableNext DEF ResetInv, StoresPart
    <2> QED
      BY <2>1, <2>2 DEF StoresPart
  <1> QED
    BY <1>1, <1>2, ResetKinds

\* Where the command task may be: the names of two of the places have a blank in them.
CommandPlaces == {"idle", "wipe", "wipe ltm", "seed", "embed", "rewind", "settle"}

CommandOffsets ==
    /\ sent \in 0..MaxResets /\ MaxResets \in Nat
    /\ cmdCommitted \in 0..sent /\ cmdPending \in -1..sent /\ cmdPosition \in 0..sent

CommandRest ==
    cpc \in CommandPlaces /\ spine \in {"none", "bare", "embedded"} /\ wiped \in BOOLEAN /\ unreplayed \in BOOLEAN

LEMMA ResetTypes == ResetTypeOK <=> CommandOffsets /\ CommandRest
  BY ResetConstants, Zenon DEF ResetTypeOK, CommandOffsets, CommandRest, CommandPlaces

LEMMA ResetTypesNext == CommandOffsets' /\ CommandRest' => ResetTypeOK'
  BY Zenon DEF ResetTypeOK, CommandOffsets, CommandRest, CommandPlaces

LEMMA Places ==
    /\ {"idle", "wipe", "seed", "embed", "rewind", "settle"} \subseteq CommandPlaces
    /\ WipeStm => cpc' \in CommandPlaces
    /\ ResetFailures \cap {"idle", "rewind", "settle"} = {}
  BY ResetConstants, Zenon DEF CommandPlaces, WipeStm

\* The offsets a process starts from again.
LEMMA RestartOffsets ==
    ASSUME CommandOffsets, Commanded, ForgetCommandTask,
           \/ cmdCommitted' \in CmdResolved
           \/ cpc = "idle" /\ cmdCommitted' = cmdPosition
    PROVE  /\ CommandOffsets' /\ Commanded' /\ cmdPosition' <= cmdPosition
           /\ cpc # "idle" => cmdPosition' < cmdPosition
           /\ UNCHANGED <<sent, spine, wiped, unreplayed>> /\ cpc' = "idle"
  <1>1. /\ cpc' = "idle" /\ cmdPending' = -1 /\ cmdPosition' = cmdCommitted'
        /\ UNCHANGED <<sent, spine, wiped, unreplayed>>
    BY DEF ForgetCommandTask, history
  <1>2. cmdCommitted' \in {cmdCommitted, cmdPosition} \/ (cmdPending # -1 /\ cmdCommitted' = cmdPending)
    BY DEF CmdResolved
  <1> QED
    BY <1>1, <1>2 DEF CommandOffsets, Commanded, CmdResolved

LEMMA CommandsNext ==
    ASSUME ResetInv, [ResetNext]_allVars
    PROVE  CommandOffsets' /\ CommandRest' /\ Commanded'
  <1>0. CommandOffsets /\ CommandRest /\ Commanded
    BY ResetTypes DEF ResetInv
  <1>1. CASE TakeReset
    <2>1. /\ cmdPosition < sent /\ cmdPosition' = cmdPosition + 1 /\ cpc' = "wipe"
          /\ UNCHANGED <<sent, cmdCommitted, cmdPending, spine, wiped, unreplayed>>
      BY <1>1 DEF TakeReset, Fetch, history
    <2> QED
      BY <1>0, <2>1, Places DEF CommandOffsets, CommandRest, Commanded
  <1>2. CASE WipeStm \/ WipeLtm
    <2>1. UNCHANGED commands /\ wiped' /\ unreplayed' = unreplayed /\ cpc # "idle"
      BY <1>2, Wipes DEF ResetInv
    <2>2. spine' \in {"none", "bare", "embedded"} /\ cpc' \in CommandPlaces /\ wiped' \in BOOLEAN
      <3>1. CASE WipeStm
        <4>1. spine' = spine /\ wiped' = TRUE
          BY <3>1, Zenon DEF WipeStm
        <4> QED
          BY <1>0, <3>1, <4>1, Places DEF CommandRest
      <3>2. CASE WipeLtm
        <4>1. spine' = "none" /\ cpc' = "seed" /\ wiped' = wiped
          BY <3>2, Zenon DEF WipeLtm, history
        <4> QED
          BY <1>0, <4>1, Places DEF CommandRest
      <3> QED
        BY <1>2, <3>1, <3>2
    <2> QED
      BY <1>0, <2>1, <2>2 DEF CommandOffsets, CommandRest, Commanded, commands
  <1>3. CASE SeedSpine
    BY <1>0, <1>3, Places DEF SeedSpine, commands, history, CommandOffsets, CommandRest, Commanded
  <1>4. CASE ResetFails
    <2>1. cpc # "idle" /\ cpc' = "settle" /\ unreplayed' = wiped /\ UNCHANGED <<commands, spine, wiped>>
      BY <1>4, Places DEF ResetFails
    <2> QED
      BY <1>0, <2>1, Places DEF commands, CommandOffsets, CommandRest, Commanded
  <1>5. CASE EmbedSpine
    BY <1>0, <1>5, Places DEF EmbedSpine, commands, history, CommandOffsets, CommandRest, Commanded
  <1>6. CASE RewindFeeder
    <2>1. /\ cpc = "rewind" /\ cpc' = "settle" /\ wiped' \in BOOLEAN /\ unreplayed' = wiped'
          /\ UNCHANGED <<commands, spine>>
      BY <1>6 DEF RewindFeeder
    <2> QED
      BY <1>0, <2>1, Places DEF commands, CommandOffsets, CommandRest, Commanded
  <1>7. CASE SettleReset
    <2>1. /\ cpc = "settle" /\ cpc' = "idle" /\ cmdPending' = cmdPosition
          /\ UNCHANGED <<sent, cmdCommitted, cmdPosition, spine, wiped, unreplayed>>
      BY <1>7 DEF SettleReset, history
    <2> QED
      BY <1>0, <2>1, Places DEF CommandOffsets, CommandRest, Commanded
  <1>8. CASE SendReset
    <2>1. /\ sent < MaxResets /\ sent' = sent + 1
          /\ UNCHANGED <<cmdCommitted, cmdPending, cmdPosition, cpc, spine, wiped, unreplayed>>
      BY <1>8 DEF SendReset, history
    <2> QED
      BY <1>0, <2>1 DEF CommandOffsets, CommandRest, Commanded
  <1>9. CASE CommandBrokerAnswers
    <2>1. /\ cmdCommitted' \in {cmdCommitted, cmdPending} /\ cmdPending # -1 /\ cmdPending' = -1
          /\ UNCHANGED <<sent, cmdPosition, cpc, spine, wiped, unreplayed>>
      BY <1>9 DEF CommandBrokerAnswers, CmdResolved, history
    <2> QED
      BY <1>0, <2>1 DEF CommandOffsets, CommandRest, Commanded
  <1>10. CASE FeederMoves \/ EnvironmentMoves \/ ShutDaemon \/ UNCHANGED allVars
    <2>1. UNCHANGED <<commands, cpc, spine, wiped, unreplayed>>
      BY <1>10 DEF FeederMoves, EnvironmentMoves, ShutDaemon, allVars, resetVars, history
    <2> QED
      BY <1>0, <2>1 DEF commands, CommandOffsets, CommandRest, Commanded
  <1>11. CASE StartDaemon
    <2>1. UNCHANGED <<commands, cpc, wiped, unreplayed>> /\ spine' \in {"embedded", "bare", spine}
      BY <1>11 DEF StartDaemon, history
    <2> QED
      BY <1>0, <2>1 DEF commands, CommandOffsets, CommandRest, Commanded
  <1>12. CASE CrashDaemon \/ ExitDaemon
    <2>1. /\ ForgetCommandTask
          /\ \/ cmdCommitted' \in CmdResolved
             \/ cpc = "idle" /\ cmdCommitted' = cmdPosition
      BY <1>12 DEF CrashDaemon, ExitDaemon
    <2> QED
      BY <1>0, <2>1, RestartOffsets, Places DEF CommandRest
  <1> QED
    BY <1>1, <1>2, <1>3, <1>4, <1>5, <1>6, <1>7, <1>8, <1>9, <1>10, <1>11, <1>12
       DEF ResetNext, CommandTask

LEMMA FeederKeepsUp ==
    ASSUME FeederTask, pc # "down"
    PROVE  pc' # "down"
  <1>1. CASE Receive \/ LeaveLoop \/ WriteFails \/ SetAside \/ SetAsideFails \/ Settle \/ Close
    BY <1>1 DEF Receive, Take, LeaveLoop, WriteFails, GiveUp, SetAside, SetAsideFails, Settle,
                StoreAndCommit, Close
  <1>2. CASE Ingest
    BY <1>2 DEF Ingest, IngestUnchanged, IngestDistill, Distilled, PlaceLeaf, PruneLeaf, WriteFact
  <1>3. CASE ForgetDoc \/ Retries
    BY <1>3 DEF ForgetDoc, BeginForget, UnlinkLeaf, DropBody, DropFact, Retries, RetryWrite,
                RetryAside, Interrupt, Handling
  <1> QED
    BY <1>1, <1>2, <1>3 DEF FeederTask

LEMMA DownRests ==
    ASSUME pc = "down"
    PROVE  ~FeederTask
  BY DEF FeederTask, Receive, Take, LeaveLoop, WriteFails, GiveUp, Writing, SetAside, SetAsideFails,
         Settle, StoreAndCommit, Close, Ingest, IngestUnchanged, IngestDistill, Distilled, PlaceLeaf,
         PruneLeaf, WriteFact, ForgetDoc, BeginForget, UnlinkLeaf, DropBody, DropFact, Retries,
         RetryWrite, RetryAside, Interrupt

LEMMA TurnsNext ==
    ASSUME ResetInv, [ResetNext]_allVars
    PROVE  Turns'
  <1>0. Turns
    BY DEF ResetInv
  <1>1. CASE TakeReset
    BY <1>0, <1>1 DEF TakeReset, Fetch, CommandTurn, vars, task, Turns, AwaitPoints
  <1>2. CASE WipeStm \/ WipeLtm
    <2>1. pc' = pc /\ pc \in AwaitPoints
      BY <1>2, Wipes DEF ResetInv, task
    <2> QED
      BY <2>1 DEF Turns, AwaitPoints
  <1>3. CASE SeedSpine \/ ResetFails
    <2>1. UNCHANGED pc /\ cpc' # "idle" /\ cpc \notin {"idle", "embed"}
      BY <1>3, Places DEF SeedSpine, ResetFails, vars, task
    <2> QED
      BY <1>0, <2>1 DEF Turns, AwaitPoints
  <1>4. CASE EmbedSpine
    BY <1>0, <1>4 DEF EmbedSpine, CommandTurn, vars, task, Turns, AwaitPoints
  <1>5. CASE RewindFeeder
    <2>1. PICK outcome : Rewind(outcome)
      BY <1>5 DEF RewindFeeder
    <2>2. UNCHANGED pc /\ pc \in AwaitPoints
      BY <2>1 DEF Rewind, RewindToEarliest, task
    <2> QED
      BY <2>2 DEF Turns, AwaitPoints
  <1>6. CASE SettleReset \/ SendReset \/ CommandBrokerAnswers \/ UNCHANGED allVars \/ ShutDaemon
    BY <1>0, <1>6 DEF SettleReset, SendReset, CommandBrokerAnswers, allVars, resetVars, vars, task,
                      ShutDaemon, Shutdown, Turns
  <1>7. CASE FeederMoves
    <2>1. pc' # "down" /\ cpc' \in {"idle", "embed"}
      BY <1>7, FeederKeepsUp, DownRests DEF FeederMoves, FeederTurn
    <2> QED
      BY <2>1 DEF Turns
  <1>8. CASE EnvironmentMoves
    <2>1. UNCHANGED <<pc, cpc>>
      BY <1>8 DEF EnvironmentMoves, resetVars, Environment, Produce, BrokerAnswers, Revoke, Assign, task
    <2> QED
      BY <1>0, <2>1 DEF Turns
  <1>9. CASE StartDaemon
    <2>1. pc = "down" /\ pc' = "idle" /\ cpc' = cpc
      BY <1>9 DEF StartDaemon, Start
    <2> QED
      BY <1>0, <2>1 DEF Turns
  <1>10. CASE CrashDaemon \/ ExitDaemon
    BY <1>10 DEF CrashDaemon, ExitDaemon, ForgetCommandTask, Turns
  <1> QED
    BY <1>1, <1>2, <1>3, <1>4, <1>5, <1>6, <1>7, <1>8, <1>9, <1>10 DEF ResetNext, CommandTask

LEMMA ReplaysNext ==
    ASSUME ResetInv, [ResetNext]_allVars
    PROVE  Replays'
  <1>0. Replays
    BY DEF ResetInv
  <1>1. CASE TakeReset
    BY <1>1 DEF TakeReset, Fetch, Replays
  <1>2. CASE WipeStm \/ WipeLtm
    <2>1. wiped' /\ cpc' \notin {"idle", "wipe", "settle"}
      BY <1>2, Wipes DEF ResetInv
    <2> QED
      BY <2>1 DEF Replays
  <1>3. CASE SeedSpine \/ EmbedSpine
    BY <1>0, <1>3 DEF SeedSpine, EmbedSpine, history, Replays
  <1>4. CASE ResetFails
    BY <1>4 DEF ResetFails, Replays
  <1>5. CASE RewindFeeder
    <2>1. cpc' = "settle" /\ unreplayed' = wiped'
      BY <1>5 DEF RewindFeeder
    <2> QED
      BY <2>1 DEF Replays
  <1>6. CASE SettleReset
    <2>1. cpc = "settle" /\ cpc' = "idle" /\ UNCHANGED <<wiped, unreplayed>>
      BY <1>6 DEF SettleReset, history
    <2> QED
      BY <1>0, <2>1 DEF Replays
  <1>7. CASE SendReset
    <2>1. sent' = sent + 1 /\ UNCHANGED <<cmdPosition, cpc, wiped, unreplayed>>
      BY <1>7 DEF SendReset, history
    <2>2. cmdPosition < sent => cmdPosition < sent + 1
      BY ResetTypes DEF ResetInv, CommandOffsets
    <2> QED
      BY <1>0, <2>1, <2>2 DEF Replays
  <1>8. CASE CommandBrokerAnswers \/ FeederMoves \/ EnvironmentMoves \/ StartDaemon \/ ShutDaemon
             \/ UNCHANGED allVars
    <2>1. UNCHANGED <<sent, cmdPosition, cpc, wiped, unreplayed>>
      BY <1>8 DEF CommandBrokerAnswers, FeederMoves, EnvironmentMoves, StartDaemon, ShutDaemon,
                  allVars, resetVars, history, commands
    <2> QED
      BY <1>0, <2>1 DEF Replays
  <1>9. CASE CrashDaemon \/ ExitDaemon
    <2>1. CommandOffsets /\ Commanded
      BY ResetTypes DEF ResetInv
    <2>2. /\ ForgetCommandTask
          /\ \/ cmdCommitted' \in CmdResolved
             \/ cpc = "idle" /\ cmdCommitted' = cmdPosition
      BY <1>9 DEF CrashDaemon, ExitDaemon
    <2>3. /\ CommandOffsets' /\ cmdPosition' <= cmdPosition /\ (cpc # "idle" => cmdPosition' < cmdPosition)
          /\ UNCHANGED <<sent, wiped, unreplayed>> /\ cpc' = "idle"
      BY <2>1, <2>2, RestartOffsets
    <2>4. wiped /\ ~unreplayed => cmdPosition' < sent
      BY <1>0, <2>1, <2>3 DEF Replays, CommandOffsets
    <2> QED
      BY <2>3, <2>4 DEF Replays
  <1> QED
    BY <1>1, <1>2, <1>3, <1>4, <1>5, <1>6, <1>7, <1>8, <1>9 DEF ResetNext, CommandTask

\* Before the rewind is done nothing need agree; once it is, nothing has been read.
LEMMA RewoundWhole ==
    ASSUME TypeInv, TypeInv', Mendable', assigned, Rewind("done")
    PROVE  Order' /\ Fitting'
  <1>1. /\ generation' = generation + 1 /\ UNCHANGED <<received, hand, pc, assigned>>
        /\ position' = 0 /\ committed' = 0 /\ stored' = 0 /\ pending' = -1 /\ pc # "settle"
    BY RewindsMoves, Zenon DEF Rewind, RewindToEarliest
  <1>2. /\ hand \in Nat /\ received \in Nat /\ generation \in Nat /\ received <= generation
    BY Numbers DEF TypeInv, Control
  <1>3. Read' = 0
    BY <1>1, <1>2 DEF Read
  <1>4. Order'
    BY <1>1, <1>2, <1>3 DEF Order
  <1>5. ASSUME NEW d \in Docs PROVE Fits(d, Read)'
    <2>1. Touching(d)' \subseteq 1..Len(topic') /\ Len(topic') \in Nat
      <3>1. Len(topic') \in Nat
        BY DEF TypeInv, TypeOK
      <3> QED
        BY <3>1 DEF Touching
    <2>2. \A o \in Touching(d)' : o \in Nat /\ o > 0
      BY <2>1
    <2> QED
      BY <1>3, <2>2 DEF Fits, Mendable
  <1> QED
    BY <1>4, <1>5 DEF Fitting

LEMMA WholeNext ==
    ASSUME ResetInv, StoresPart', MaxRebalances = 0, [ResetNext]_allVars
    PROVE  Whole'
  <1> SUFFICES ASSUME ~wiped' PROVE Order' /\ Fitting'
    BY DEF Whole
  <1>0. TypeInv /\ TypeInv'
    BY DEF ResetInv, StoresPart, IInv
  <1>1. CASE WipeStm \/ WipeLtm
    BY <1>1, Wipes DEF ResetInv
  <1>2. CASE RewindFeeder
    <2>1. assigned /\ Rewind("done")
      BY <1>2, Zenon DEF RewindFeeder
    <2> QED
      BY <1>0, <2>1, RewoundWhole DEF StoresPart
  <1>3. CASE ~(WipeStm \/ WipeLtm \/ RewindFeeder)
    <2>1. wiped' = wiped /\ (FeederTask \/ Environment \/ Process \/ UNCHANGED vars)
      <3>1. CASE TakeReset \/ SeedSpine \/ ResetFails \/ EmbedSpine \/ SettleReset \/ SendReset
                   \/ CommandBrokerAnswers \/ UNCHANGED allVars
        BY <3>1 DEF TakeReset, Fetch, SeedSpine, ResetFails, EmbedSpine, SettleReset, SendReset,
                    CommandBrokerAnswers, allVars, resetVars, history
      <3>2. CASE \/ FeederMoves \/ EnvironmentMoves \/ StartDaemon \/ CrashDaemon \/ ShutDaemon
                 \/ ExitDaemon
        BY <3>2 DEF FeederMoves, EnvironmentMoves, StartDaemon, CrashDaemon, ShutDaemon, ExitDaemon,
                    ForgetCommandTask, resetVars, history, Process
      <3> QED
        BY <1>3, <3>1, <3>2 DEF ResetNext, CommandTask
    <2>2. Order /\ Fitting
      BY <2>1 DEF ResetInv, Whole
    <2>3. \/ Rests \/ (\E m \in Messages : Produce(m)) \/ Receive \/ SetAside
          \/ Enters \/ Finishes \/ IngestUnchanged
      BY <1>0, <2>1, OrdinarySteps
    <2>4. Order'
      BY <1>0, <2>2, <2>3, OrderNext DEF ResetInv, StoresPart
    <2>5. Fitting'
      BY <2>2, <2>3, FittingNext DEF ResetInv, StoresPart
    <2> QED
      BY <2>4, <2>5
  <1> QED
    BY <1>1, <1>2, <1>3

LEMMA InitReset == ResetInit => ResetInv
  <1> SUFFICES ASSUME ResetInit PROVE ResetInv
    OBVIOUS
  <1>1. Init
    BY DEF ResetInit
  <1>2. StoresPart /\ Whole
    BY <1>1, InitTypeInv, InitProgress, InitStores, InitHistory DEF StoresPart, IInv, Whole
  <1>3. MaxResets \in Nat
    BY ResetConstants, Zenon
  <1>4. /\ sent = 0 /\ cmdCommitted = 0 /\ cmdPending = -1 /\ cmdPosition = 0
        /\ cpc = "idle" /\ spine = "none" /\ wiped = FALSE /\ unreplayed = FALSE
    BY DEF ResetInit
  <1>5. CommandOffsets /\ CommandRest
    <2>1. CommandOffsets
      BY <1>3, <1>4 DEF CommandOffsets
    <2>2. CommandRest
      BY <1>4, Places DEF CommandRest
    <2> QED
      BY <2>1, <2>2
  <1>6. Commanded /\ Turns /\ Replays
    BY <1>4 DEF Commanded, Turns, Replays
  <1> QED
    BY <1>2, <1>5, <1>6, ResetTypes DEF ResetInv

\* What a hard reset wiped is replayed: with every reset processed and the feeder caught
\* up, the stores hold what the topic says, whatever crashed in the middle of the reset,
\* whatever message was in hand when the feeder was rewound and whichever earlier rewind
\* failed half-way (ResetService, ConsumerRewind, CommandConsumer::process).
THEOREM ReplayAlwaysSound ==
    ASSUME MaxRebalances = 0
    PROVE  ResetSpec => []ReplayIsSound
  <1>1. ResetInit => ResetInv
    BY InitReset
  <1>2. ASSUME ResetInv, [ResetNext]_allVars PROVE ResetInv'
    <2>1. StoresPart'
      BY <1>2, StoresPartNext
    <2>2. ResetTypeOK' /\ Commanded'
      BY <1>2, CommandsNext, ResetTypesNext, Zenon
    <2>3. Turns' /\ Replays'
      BY <1>2, TurnsNext, ReplaysNext
    <2>4. Whole'
      BY <1>2, <2>1, WholeNext
    <2> QED
      BY <2>1, <2>2, <2>3, <2>4, Zenon DEF ResetInv
  <1>3. ASSUME ResetInv PROVE ReplayIsSound
    <2>1. ASSUME ResetsProcessed, ~unreplayed PROVE CaughtUpAgrees
      <3>1. cpc = "idle" /\ ~(cmdPosition < sent)
        BY <1>3, <2>1, ResetTypes DEF ResetsProcessed, ResetInv, CommandOffsets
      <3>2. ~wiped
        BY <1>3, <2>1, <3>1 DEF ResetInv, Replays
      <3> QED
        BY <1>3, <3>2, FittingAgrees DEF ResetInv, Whole, StoresPart
    <2> QED
      BY <1>3, <2>1, Zenon DEF ReplayIsSound, ReplayRestores, ResetInv
  <1> QED
    BY <1>1, <1>2, <1>3, PTL DEF ResetSpec

=============================================================================
