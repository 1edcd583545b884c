----------------------- MODULE CommandConsumerProofs -----------------------
(***************************************************************************)
(* Theorems about CommandConsumer, for every set of commands and every     *)
(* bound.  The offsets and the stores are separate concerns: a step of     *)
(* `process' moves neither an offset nor the hand, and every other step    *)
(* leaves the stores alone.  The ledger keeps its word                     *)
(* (WriteService::handle): what it marks is stored, and what it does not   *)
(* forget is stored once; its proof stands on both.                        *)
(***************************************************************************)
EXTENDS CommandConsumer, FiniteSetTheorems, TLAPS

Busy == Failing \cup {"settle"}

OffsetsOK ==
    /\ topic \in Seq(Commands) /\ Len(topic) <= MaxLog
    /\ committed \in -1..Len(topic) /\ pending \in -1..Len(topic)
    /\ assigned \in BOOLEAN
    /\ position \in 0..Len(topic) /\ stored \in -1..Len(topic)
    /\ stop \in BOOLEAN
    /\ pc \in PCs
    /\ pinEnd \in 0..Len(topic) /\ hand \in 0..Len(topic)
    /\ born \in 0..Len(topic) /\ start \in -1..Len(topic)
    /\ ran \subseteq Offsets
    /\ stops \in 0..MaxStops /\ rebalances \in 0..MaxRebalances
    /\ expiries \in 0..MaxExpiries

\* Where the task can be, given what it and the consumer hold.
Control ==
    /\ hand # 0 <=> pc \in Busy
    /\ pc \in {"down", "probe", "pin"} => ~assigned /\ pending = -1
    /\ ~assigned => stored = -1
    /\ pc = "pin" => committed = -1

\* No offset that the group remembers, or could resume from, is older than
\* its beginning.
NotBefore(o) == o = -1 \/ o >= born

Beginning ==
    /\ NotBefore(committed) /\ NotBefore(pending) /\ NotBefore(stored)
    /\ assigned => position >= born
    /\ pc = "pin" => pinEnd >= born
    /\ hand # 0 => hand > born

\* Up to each of these offsets, what the group promises has been processed.
Ran(o) == o \in ran \/ o <= start

Progress ==
    /\ \A o \in 1..committed : Ran(o)
    /\ \A o \in 1..pending : Ran(o)
    /\ \A o \in 1..stored : o = hand \/ Ran(o)
    /\ assigned => \A o \in 1..position : o = hand \/ Ran(o)
    /\ \A o \in 1..hand - 1 : Ran(o)

OffsetsInv == OffsetsOK /\ Control /\ Beginning /\ Progress

-----------------------------------------------------------------------------
LEMMA BoundsAreNumbers ==
    /\ MaxLog \in Nat /\ MaxStops \in Nat /\ MaxRebalances \in Nat
    /\ MaxExpiries \in Nat /\ MaxSweeps \in Nat
  BY CommandConstants

LEMMA InitOffsets == Init => OffsetsInv
  <1> SUFFICES ASSUME Init PROVE OffsetsInv
    OBVIOUS
  <1> USE BoundsAreNumbers
  <1>1. Len(topic) = 0 /\ topic \in Seq(Commands)
    BY DEF Init
  <1>2. OffsetsOK
    <2>1. assigned \in BOOLEAN /\ stop \in BOOLEAN
      BY Zenon DEF Init
    <2>2. pc \in PCs /\ ran \subseteq Offsets
      BY DEF Init, PCs
    <2>3. /\ Len(topic) <= MaxLog
          /\ committed \in -1..Len(topic) /\ pending \in -1..Len(topic)
          /\ position \in 0..Len(topic) /\ stored \in -1..Len(topic)
          /\ pinEnd \in 0..Len(topic) /\ hand \in 0..Len(topic)
          /\ born \in 0..Len(topic) /\ start \in -1..Len(topic)
      BY <1>1 DEF Init
    <2>4. /\ stops \in 0..MaxStops /\ rebalances \in 0..MaxRebalances
          /\ expiries \in 0..MaxExpiries
      BY DEF Init
    <2> QED
      BY <1>1, <2>1, <2>2, <2>3, <2>4 DEF OffsetsOK
  <1>3. Control /\ Beginning
    BY DEF Init, Control, Beginning, NotBefore, Busy, Failing
  <1>4. Progress
    BY DEF Init, Progress
  <1> QED
    BY <1>2, <1>3, <1>4 DEF OffsetsInv

\* A step of `process', whatever it does to the stores.
ProcessStep ==
    /\ pc \in Failing /\ pc' \in Busy
    /\ Processing

LEMMA ProcessSteps ==
    Fails \/ Check \/ Remember \/ Forget \/ Mark \/ Reset => ProcessStep
  BY CommandConstants
     DEF Fails, Check, Remember, Forget, Mark, Reset, StoreTurn, LinkSubject,
         FindSubject, RefreshSubject, CreateSubject, Linking, StoreEdge, StoreNote, ForgetLtm, ForgetStm, WipeStm, WipeLtm, Replayed,
         Dispatch, ProcessStep, Busy, Failing, Processing

LEMMA ProcessOffsets == OffsetsInv /\ ProcessStep => OffsetsInv'
  <1> SUFFICES ASSUME OffsetsInv, ProcessStep PROVE OffsetsInv'
    OBVIOUS
  <1>1. /\ pc \in Failing /\ pc' \in Busy
        /\ UNCHANGED <<topic, committed, pending, assigned, position, stored, stop,
                       pinEnd, hand, born, start, ran, stops, rebalances, expiries>>
    BY DEF ProcessStep, Processing, broker, client, began, budgets
  <1>2. OffsetsOK' /\ Control'
    BY <1>1 DEF OffsetsInv, OffsetsOK, Control, Busy, Failing, PCs
  <1>3. Beginning' /\ Progress'
    BY <1>1 DEF OffsetsInv, Beginning, Progress, NotBefore, Ran, Busy, Failing
  <1> QED
    BY <1>2, <1>3 DEF OffsetsInv

\* What the group may resume from once its commit in flight is settled.
LEMMA ResolvedOffsets ==
    ASSUME OffsetsInv, NEW o \in Resolved
    PROVE  /\ o \in -1..Len(topic) /\ NotBefore(o)
           /\ \A p \in 1..o : Ran(p)
  BY DEF OffsetsInv, OffsetsOK, Beginning, Progress, Resolved

LEMMA NextOffsets == OffsetsInv /\ [Next]_vars => OffsetsInv'
  <1> SUFFICES ASSUME OffsetsInv, [Next]_vars PROVE OffsetsInv'
    OBVIOUS
  <1> USE BoundsAreNumbers
  <1> USE DEF OffsetsInv
  <1>0. Len(topic) \in Nat
    BY DEF OffsetsOK
  <1> USE <1>0
  <1>1. ASSUME NEW c \in Commands, Produce(c) PROVE OffsetsInv'
    <2>1. /\ topic' = Append(topic, c) /\ Len(topic) < MaxLog
          /\ UNCHANGED <<committed, pending, assigned, position, stored, stop, pc,
                         pinEnd, hand, born, start, ran, stops, rebalances, expiries>>
      BY <1>1 DEF Produce, broker, client, task, began, budgets
    <2>2. topic' \in Seq(Commands) /\ Len(topic') = Len(topic) + 1 /\ Len(topic) \in Nat
      BY <2>1 DEF OffsetsOK
    <2>3. OffsetsOK'
      BY <2>1, <2>2 DEF OffsetsOK
    <2>4. Control' /\ Beginning' /\ Progress'
      BY <2>1 DEF Control, Beginning, Progress, NotBefore, Ran
    <2> QED
      BY <2>3, <2>4
  <1>2. CASE BrokerAnswers
    <2>1. PICK o \in Resolved : committed' = o
      BY <1>2 DEF BrokerAnswers, CommitOneOf
    <2>2. pc \notin {"down", "probe", "pin"} /\ pending' = -1
      BY <1>2 DEF BrokerAnswers, CommitOneOf, Control
    <2>3. UNCHANGED <<topic, assigned, position, stored, stop, pc, pinEnd, hand,
                      born, start, ran, stops, rebalances, expiries>>
      BY <1>2 DEF BrokerAnswers, client, task, began, budgets
    <2>4. OffsetsOK' /\ Control'
      BY <2>1, <2>2, <2>3, ResolvedOffsets DEF OffsetsOK, Control
    <2>5. Beginning' /\ Progress'
      BY <2>1, <2>2, <2>3, ResolvedOffsets DEF Beginning, Progress, NotBefore, Ran
    <2> QED
      BY <2>4, <2>5
  <1>3. CASE Revoke
    <2>1. PICK o \in Resolved : committed' = o
      BY <1>3 DEF Revoke, CommitOneOf
    <2>2. /\ assigned /\ assigned' = FALSE /\ stored' = -1 /\ pending' = -1
          /\ rebalances < MaxRebalances /\ rebalances' = rebalances + 1
          /\ UNCHANGED <<topic, position, stop, pc, pinEnd, hand, born, start, ran,
                         stops, expiries>>
      BY <1>3 DEF Revoke, CommitOneOf, task, began
    <2>3. OffsetsOK'
      <3>1. assigned' \in BOOLEAN
        BY <2>2, Zenon
      <3>2. rebalances' \in 0..MaxRebalances /\ stored' \in -1..Len(topic)
        BY <2>2 DEF OffsetsOK
      <3> QED
        BY <2>1, <2>2, <3>1, <3>2, ResolvedOffsets DEF OffsetsOK
    <2>4. Control'
      BY <2>2 DEF Control
    <2>5. Beginning' /\ Progress'
      BY <2>1, <2>2, ResolvedOffsets DEF Beginning, Progress, NotBefore, Ran
    <2> QED
      BY <2>3, <2>4, <2>5
  <1>4. CASE Assign
    <2>1. PICK o \in Resolved : committed' = o
      BY <1>4 DEF Assign, CommitOneOf
    <2>2. /\ pc \notin {"down", "probe", "pin"} /\ ~assigned /\ assigned' = TRUE
          /\ position' = (IF committed' = -1 THEN Len(topic) ELSE committed')
          /\ start' = (IF committed' = -1 THEN Len(topic) ELSE start)
          /\ pending' = -1
          /\ UNCHANGED <<topic, stored, stop, pc, pinEnd, hand, born, ran, stops,
                         rebalances, expiries>>
      BY <1>4 DEF Assign, CommitOneOf, task, budgets
    <2>3. start' >= start /\ start' \in -1..Len(topic) /\ stored = -1
      BY <2>1, <2>2 DEF OffsetsOK, Control
    <2>4. OffsetsOK' /\ Control'
      BY <2>1, <2>2, <2>3, ResolvedOffsets DEF OffsetsOK, Control
    <2>5. \A p \in Offsets : Ran(p) => Ran(p)'
      BY <2>2, <2>3 DEF Ran, Offsets, OffsetsOK
    <2>6. Beginning'
      BY <2>1, <2>2, <2>3, ResolvedOffsets DEF OffsetsOK, Beginning, NotBefore
    <2>7. /\ \A p \in 1..committed' : Ran(p)'
          /\ \A p \in 1..position' : Ran(p)'
          /\ \A p \in 1..hand - 1 : Ran(p)'
      BY <2>1, <2>2, <2>5, ResolvedOffsets DEF OffsetsOK, Progress, Ran, Offsets
    <2>8. Progress'
      BY <2>2, <2>3, <2>7 DEF Progress
    <2> QED
      BY <2>4, <2>6, <2>8
  <1>5. CASE Expire
    <2>1. /\ pc = "down" /\ committed' = -1 /\ start' = -1
          /\ expiries < MaxExpiries /\ expiries' = expiries + 1
          /\ UNCHANGED <<topic, pending, assigned, position, stored, stop, pc, pinEnd,
                         hand, born, ran, stops, rebalances>>
      BY <1>5 DEF Expire, client, task
    <2>2. hand = 0 /\ ~assigned /\ pending = -1 /\ stored = -1
      BY <2>1 DEF Control, Busy, Failing
    <2>3. OffsetsOK' /\ Control'
      BY <2>1, <2>2 DEF OffsetsOK, Control
    <2>4. Beginning' /\ Progress'
      BY <2>1, <2>2 DEF Beginning, Progress, NotBefore
    <2> QED
      BY <2>3, <2>4
  <1>6. CASE Start
    <2>1. /\ pc = "down" /\ pc' = "probe"
          /\ born' = (IF committed = -1 THEN Len(topic) ELSE born)
          /\ UNCHANGED <<topic, committed, pending, assigned, position, stored, stop,
                         pinEnd, hand, start, ran, stops, rebalances, expiries>>
      BY <1>6 DEF Start, broker, client, budgets
    <2>2. hand = 0 /\ ~assigned /\ pending = -1 /\ stored = -1
      BY <2>1 DEF Control, Busy, Failing
    <2>3. OffsetsOK' /\ Control'
      BY <2>1, <2>2 DEF OffsetsOK, Control, PCs, Busy, Failing
    <2>4. Beginning' /\ Progress'
      BY <2>1, <2>2 DEF Beginning, Progress, NotBefore, Ran
    <2> QED
      BY <2>3, <2>4
  <1>7. CASE Crash \/ Exit
    <2>1. PICK o \in Resolved : committed' = o
      BY <1>7 DEF Crash, Exit, CommitOneOf
    <2>2. /\ assigned' = FALSE /\ position' = 0 /\ stored' = -1 /\ stop' = FALSE
          /\ pc' = "down" /\ pinEnd' = 0 /\ hand' = 0 /\ pending' = -1
          /\ UNCHANGED <<topic, born, start, ran, rebalances, expiries>>
      BY <1>7 DEF Crash, Exit, ForgetMemory, CommitOneOf, began, budgets
    <2>3. stops' \in 0..MaxStops
      BY <1>7 DEF Crash, Exit, budgets, OffsetsOK
    <2>4. OffsetsOK'
      <3>1. assigned' \in BOOLEAN /\ stop' \in BOOLEAN
        BY <2>2, Zenon
      <3>2. /\ position' \in 0..Len(topic) /\ stored' \in -1..Len(topic)
            /\ pinEnd' \in 0..Len(topic) /\ hand' \in 0..Len(topic)
            /\ pending' \in -1..Len(topic) /\ pc' \in PCs
        BY <2>2 DEF PCs
      <3> QED
        BY <2>1, <2>2, <2>3, <3>1, <3>2, ResolvedOffsets DEF OffsetsOK
    <2>5. Control'
      BY <2>2 DEF Control, Busy, Failing
    <2>6. Beginning' /\ Progress'
      BY <2>1, <2>2, ResolvedOffsets DEF Beginning, Progress, NotBefore, Ran
    <2> QED
      BY <2>4, <2>5, <2>6
  <1>8. CASE Shutdown
    <2>1. /\ stops < MaxStops /\ stops' = stops + 1 /\ stop' = TRUE
          /\ UNCHANGED <<topic, committed, pending, assigned, position, stored, pc,
                         pinEnd, hand, born, start, ran, rebalances, expiries>>
      BY <1>8 DEF Shutdown, broker, client, task, began
    <2>2. OffsetsOK' /\ Control'
      BY <2>1 DEF OffsetsOK, Control
    <2>3. Beginning' /\ Progress'
      BY <2>1 DEF Beginning, Progress, NotBefore, Ran
    <2> QED
      BY <2>2, <2>3
  <1>9. CASE Close
    <2>1. /\ pc = "closing" /\ pc' = "closed" /\ pending' = -1
          /\ committed' \in Resolved \/ (stored # -1 /\ committed' = stored)
          /\ UNCHANGED <<topic, assigned, position, stored, stop, pinEnd, hand, born,
                         start, ran, stops, rebalances, expiries>>
      BY <1>9 DEF Close, CommitOneOf, client, began, budgets
    <2>2. hand = 0
      BY <2>1 DEF Control, Busy, Failing
    <2>3. \A p \in 1..stored : Ran(p)
      BY <2>2 DEF Progress, OffsetsOK
    <2>4. /\ committed' \in -1..Len(topic) /\ NotBefore(committed')
          /\ \A p \in 1..committed' : Ran(p)
      BY <2>1, <2>3, ResolvedOffsets DEF OffsetsOK, Beginning
    <2>5. OffsetsOK' /\ Control'
      BY <2>1, <2>2, <2>4 DEF OffsetsOK, Control, PCs, Busy, Failing
    <2>6. Beginning' /\ Progress'
      BY <2>1, <2>2, <2>4 DEF Beginning, Progress, NotBefore, Ran
    <2> QED
      BY <2>5, <2>6
  <1>10. ASSUME NEW id \in Ids, SweepLedger(id) PROVE OffsetsInv'
    <2>1. UNCHANGED <<topic, committed, pending, assigned, position, stored, stop, pc,
                      pinEnd, hand, born, start, ran, stops, rebalances, expiries>>
      BY <1>10 DEF SweepLedger, broker, client, task, began, budgets
    <2>2. OffsetsOK' /\ Control'
      BY <2>1 DEF OffsetsOK, Control
    <2>3. Beginning' /\ Progress'
      BY <2>1 DEF Beginning, Progress, NotBefore, Ran
    <2> QED
      BY <2>2, <2>3
  <1>11. CASE ReadEnd
    <2>1. /\ pc = "probe"
          /\ \/ committed = -1 /\ pc' = "pin" /\ pinEnd' = Len(topic)
             \/ pc' = "idle" /\ pinEnd' = pinEnd
          /\ UNCHANGED <<topic, committed, pending, assigned, position, stored, stop,
                         hand, born, start, ran, stops, rebalances, expiries>>
      BY <1>11 DEF ReadEnd, Probing, broker, client, budgets
    <2>2. OffsetsOK'
      <3>1. pc' \in PCs
        BY <2>1 DEF PCs
      <3>2. pinEnd \in 0..Len(topic) /\ Len(topic) \in 0..Len(topic)
        BY DEF OffsetsOK
      <3>3. pinEnd' \in 0..Len(topic)
        BY <2>1, <3>2
      <3> QED
        BY <2>1, <3>1, <3>3 DEF OffsetsOK
    <2>3. Control'
      BY <2>1 DEF Control, Busy, Failing
    <2>4. Beginning' /\ Progress'
      BY <2>1 DEF OffsetsOK, Beginning, Progress, NotBefore, Ran
    <2> QED
      BY <2>2, <2>3, <2>4
  <1>12. CASE PinAtEnd \/ ProbeFails
    <2>1. /\ pc \in {"probe", "pin"} /\ pc' = "idle" /\ pinEnd' = 0 /\ pending' = -1
          /\ UNCHANGED <<topic, assigned, position, stored, stop, hand, born, ran,
                         stops, rebalances, expiries>>
      BY <1>12 DEF PinAtEnd, ProbeFails, CommitOneOf, Probing, client, budgets
    <2>2. hand = 0 /\ ~assigned /\ pending = -1 /\ stored = -1
      BY <2>1 DEF Control, Busy, Failing
    <2>3. \/ committed' = committed /\ start' = start
          \/ pc = "pin" /\ committed' = pinEnd /\ start' = pinEnd
      BY <1>12, <2>2 DEF PinAtEnd, ProbeFails, CommitOneOf, Resolved, Control, OffsetsOK
    <2>4. OffsetsOK'
      <3>1. pc' \in PCs /\ pinEnd' \in 0..Len(topic) /\ pending' \in -1..Len(topic)
        BY <2>1 DEF PCs
      <3>2. committed' \in -1..Len(topic) /\ start' \in -1..Len(topic)
        BY <2>3 DEF OffsetsOK
      <3> QED
        BY <2>1, <3>1, <3>2 DEF OffsetsOK
    <2>5. Control'
      BY <2>1, <2>2 DEF Control, Busy, Failing
    <2>6. Beginning' /\ Progress'
      BY <2>1, <2>2, <2>3 DEF OffsetsOK, Beginning, Progress, NotBefore, Ran
    <2> QED
      BY <2>4, <2>5, <2>6
  <1>13. CASE Receive
    <2>0. pc' \in Busy
      BY <1>13 DEF Receive, Take, Busy, Failing
    <2>1. /\ pc = "idle" /\ assigned /\ position < Len(topic)
          /\ position' = position + 1 /\ stored' = position + 1
          /\ hand' = position + 1
          /\ UNCHANGED <<topic, committed, pending, assigned, stop, pinEnd, born,
                         start, ran, stops, rebalances, expiries>>
      BY <1>13, Zenon DEF Receive, Take, began, budgets
    <2>2. hand = 0 /\ position \in Nat /\ assigned'
      BY <2>1 DEF OffsetsOK, Control, Busy, Failing
    <2>3. OffsetsOK'
      <3>1. pc' \in PCs
        BY <2>0 DEF PCs, Busy, Failing
      <3> QED
        BY <2>1, <2>2, <3>1 DEF OffsetsOK
    <2>4. hand' # 0 /\ pc' \notin {"down", "probe", "pin"}
      <3>1. hand' # 0
        BY <2>1, <2>2
      <3>2. pc' \notin {"down", "probe", "pin"}
        BY <2>0 DEF Busy, Failing
      <3> QED
        BY <3>1, <3>2
    <2>5. Control'
      BY <2>0, <2>2, <2>4 DEF Control
    <2>6. \A o \in 1..position : Ran(o)
      BY <2>1, <2>2 DEF Progress, OffsetsOK
    <2>7. Beginning'
      <3>1. position >= born /\ born \in Nat
        BY <2>1 DEF OffsetsOK, Beginning
      <3> QED
        BY <2>1, <2>2, <2>4, <3>1 DEF Beginning, NotBefore
    <2>8. Progress'
      BY <2>1, <2>2, <2>6 DEF OffsetsOK, Progress, Ran
    <2> QED
      BY <2>3, <2>5, <2>7, <2>8
  <1>14. CASE LeaveLoop
    <2>1. /\ pc = "idle" /\ pc' = "closing"
          /\ UNCHANGED <<topic, committed, pending, assigned, position, stored, stop,
                         pinEnd, hand, born, start, ran, stops, rebalances, expiries>>
      BY <1>14 DEF LeaveLoop, broker, client, began, budgets
    <2>2. OffsetsOK' /\ Control'
      BY <2>1 DEF OffsetsOK, Control, PCs, Busy, Failing
    <2>3. Beginning' /\ Progress'
      BY <2>1 DEF Beginning, Progress, NotBefore, Ran
    <2> QED
      BY <2>2, <2>3
  <1>15. CASE Settle
    <2>1. /\ pc = "settle" /\ pc' = "idle" /\ hand' = 0
          /\ ran' = ran \cup {hand} /\ pending' \in {pending, hand}
          /\ UNCHANGED <<topic, committed, assigned, position, stored, stop, pinEnd,
                         born, start, stops, rebalances, expiries>>
      BY <1>15 DEF Settle, client, began, budgets
    <2>2. hand \in 1..Len(topic) /\ hand > born /\ hand \in Offsets
      BY <2>1 DEF Control, Busy, OffsetsOK, Beginning, Offsets
    <2>3. OffsetsOK' /\ Control'
      BY <2>1, <2>2 DEF OffsetsOK, Control, PCs, Busy, Failing
    <2>4. Beginning'
      BY <2>1, <2>2 DEF OffsetsOK, Beginning, NotBefore
    <2>5. \A o : o = hand \/ Ran(o) => o \in ran' \/ o <= start'
      BY <2>1 DEF Ran
    <2>6. \A o \in 1..hand : o \in ran' \/ o <= start'
      BY <2>2, <2>5 DEF Progress, OffsetsOK
    <2>7. Progress'
      BY <2>1, <2>2, <2>5, <2>6 DEF OffsetsOK, Progress, Ran
    <2> QED
      BY <2>3, <2>4, <2>7
  <1>16. CASE Fails \/ Check \/ Remember \/ Forget \/ Mark \/ Reset
    BY <1>16, ProcessSteps, ProcessOffsets
  <1>17. CASE UNCHANGED vars
    <2>1. UNCHANGED <<topic, committed, pending, assigned, position, stored, stop, pc,
                      pinEnd, hand, born, start, ran, stops, rebalances, expiries>>
      BY <1>17 DEF vars, broker, client, task, began, budgets
    <2>2. OffsetsOK' /\ Control'
      BY <2>1 DEF OffsetsOK, Control
    <2>3. Beginning' /\ Progress'
      BY <2>1 DEF Beginning, Progress, NotBefore, Ran
    <2> QED
      BY <2>2, <2>3
  <1>18. ASSUME NEW a \in anchors, Archive(a) PROVE OffsetsInv'
    <2>1. UNCHANGED <<topic, committed, pending, assigned, position, stored, stop, pc,
                      pinEnd, hand, born, start, ran, stops, rebalances, expiries>>
      BY <1>18 DEF Archive, broker, client, task, began, budgets
    <2>2. OffsetsOK' /\ Control'
      BY <2>1 DEF OffsetsOK, Control
    <2>3. Beginning' /\ Progress'
      BY <2>1 DEF Beginning, Progress, NotBefore, Ran
    <2> QED
      BY <2>2, <2>3
  <1> QED
    BY <1>1, <1>2, <1>3, <1>4, <1>5, <1>6, <1>7, <1>8, <1>9, <1>10, <1>11, <1>12,
       <1>13, <1>14, <1>15, <1>16, <1>17, <1>18
       DEF Next, CommandTask, Environment, Process, Probe

LEMMA OffsetsInductive == Spec => []OffsetsInv
  BY InitOffsets, NextOffsets, PTL DEF Spec

\* A command older than the group's beginning is never processed.
THEOREM NoOldCommand == Spec => []OldCommandsNeverRun
  <1>1. OffsetsInv => OldCommandsNeverRun
    BY DEF OffsetsInv, Beginning, OldCommandsNeverRun
  <1> QED
    BY <1>1, OffsetsInductive, PTL

\* No command after the group's start is committed past unprocessed.
THEOREM NoneSkipped == Spec => []NoneSkippedAfterStart
  <1>1. OffsetsInv => NoneSkippedAfterStart
    BY DEF OffsetsInv, OffsetsOK, Progress, Ran, NoneSkippedAfterStart
  <1> QED
    BY <1>1, OffsetsInductive, PTL

-----------------------------------------------------------------------------
(***************************************************************************)
(* The stores.                                                             *)
(***************************************************************************)
Writing == {"check", "embed", "link", "refresh", "edge", "mark", "unlink", "unfact"}

\* What a step of a write may rely on.
Holding ==
    /\ pc \in Writing => C.kind \in Writes
    /\ pc \in {"link", "refresh", "edge"} =>
          turn # 0 /\ todo # <<>> /\ C.thread \in Threads
    /\ pc \in {"refresh", "edge"} => anchor # 0

ScratchOK == turn \in 0..lastNode /\ anchor \in 0..lastNode /\ todo \in Seq(Docs)

NodesOK ==
    /\ lastNode \in Nat
    /\ turns \subseteq [n : 1..lastNode, id : Ids]
    /\ anchors \subseteq [n : 1..lastNode, thread : Threads, doc : Docs,
                          ccl : {"reality", "working"}]
    /\ archived \subseteq {a.n : a \in anchors} \X (1..lastNode)
    /\ about \subseteq (1..lastNode) \X (1..lastNode)
    /\ facts \subseteq Docs

RestOK ==
    /\ notes \in [Ids -> Nat] /\ filed \subseteq Docs
    /\ ledger \subseteq Ids
    /\ broken \subseteq Ids /\ undone \subseteq Ids /\ swept \subseteq Ids

StoresInv == ScratchOK /\ NodesOK /\ RestOK /\ Holding

LEMMA InitStores == Init => StoresInv
  <1> SUFFICES ASSUME Init PROVE StoresInv
    OBVIOUS
  <1>1. ScratchOK /\ NodesOK
    BY DEF Init, ScratchOK, NodesOK
  <1>2. RestOK
    BY DEF Init, RestOK
  <1>3. Holding
    BY DEF Init, Holding, Writing
  <1> QED
    BY <1>1, <1>2, <1>3 DEF StoresInv

\* The command in hand, and its id when it is a write.
LEMMA InHand ==
    ASSUME OffsetsInv, pc \in Busy
    PROVE  /\ C \in Commands /\ C \in Command
           /\ C.kind \in Writes => C.id \in Ids
           /\ hand \in 1..Len(topic)
  <1>1. hand \in 1..Len(topic) /\ topic \in Seq(Commands)
    BY DEF OffsetsInv, OffsetsOK, Control
  <1>2. C \in Commands
    BY <1>1 DEF C
  <1>3. C \in Command /\ (C.kind \in Writes <=> C.id # None)
    BY <1>2, CommandConstants
  <1> QED
    BY <1>1, <1>2, <1>3 DEF Command

LEMMA HalfDoneIds == OffsetsInv /\ StoresInv => HalfDone \subseteq Ids
  BY InHand DEF HalfDone, StoresInv, Holding, Writing, Busy, Failing

LEMMA NextStores == OffsetsInv /\ StoresInv /\ [Next]_vars => StoresInv'
  <1> SUFFICES ASSUME OffsetsInv, StoresInv, [Next]_vars PROVE StoresInv'
    OBVIOUS
  <1> USE DEF StoresInv
  <1> DEFINE Still == UNCHANGED <<stm, ltm, record, broken>>
  <1>0. ASSUME Still PROVE NodesOK' /\ RestOK'
    BY <1>0 DEF NodesOK, RestOK, stm, ltm, record
  <1>1. ASSUME NEW c \in Commands, Produce(c) PROVE StoresInv'
    <2>1. Still /\ UNCHANGED <<pc, hand, turn, anchor, todo, lastNode>>
      BY <1>1 DEF Produce, task, stm
    <2>2. ScratchOK'
      BY <2>1 DEF ScratchOK
    <2>3. pc \in Busy => C' = C
      BY <1>1, <2>1, InHand DEF Produce, C, OffsetsInv, OffsetsOK
    <2>4. Holding'
      BY <2>1, <2>3 DEF Holding, Writing, Busy, Failing
    <2> QED
      BY <1>0, <2>1, <2>2, <2>4
  <1>2. CASE BrokerAnswers \/ Revoke \/ Assign \/ Expire \/ Shutdown \/ UNCHANGED vars
    <2>1. Still /\ UNCHANGED <<topic, pc, hand, turn, anchor, todo, lastNode>>
      BY <1>2 DEF BrokerAnswers, Revoke, Assign, Expire, Shutdown, vars, task, stm
    <2>2. ScratchOK' /\ Holding'
      BY <2>1 DEF ScratchOK, Holding, C
    <2> QED
      BY <1>0, <2>1, <2>2
  <1>3. ASSUME NEW id \in Ids, SweepLedger(id) PROVE StoresInv'
    <2>1. /\ UNCHANGED <<topic, pc, hand, turn, anchor, todo, lastNode, turns, anchors,
                         archived, about, facts, notes, filed, undone, broken>>
          /\ ledger' = ledger \ {id} /\ swept' = swept \cup {id}
      BY <1>3 DEF SweepLedger, task, stm, ltm
    <2>2. ScratchOK' /\ Holding'
      BY <2>1 DEF ScratchOK, Holding, C
    <2>3. NodesOK'
      BY <2>1 DEF NodesOK
    <2>4. RestOK'
      BY <2>1 DEF RestOK
    <2> QED
      BY <2>2, <2>3, <2>4
  <1>4. CASE Start \/ Close \/ Probe \/ LeaveLoop
    <2>1. /\ Still /\ UNCHANGED <<turn, anchor, todo, lastNode>>
          /\ pc' \notin Writing
      BY <1>4 DEF Start, Close, Probe, ReadEnd, PinAtEnd, ProbeFails, Probing,
                  LeaveLoop, stm, Writing
    <2>2. ScratchOK' /\ Holding'
      BY <2>1 DEF ScratchOK, Holding, Writing
    <2> QED
      BY <1>0, <2>1, <2>2
  <1>5. CASE Crash \/ Exit \/ Settle
    <2>1. /\ UNCHANGED <<stm, ltm, record, lastNode>>
          /\ broken' \in {broken, broken \cup HalfDone}
          /\ turn' = 0 /\ anchor' = 0 /\ todo' = <<>>
          /\ pc' \notin Writing
      BY <1>5 DEF Crash, Exit, Settle, ForgetMemory, Writing, stm
    <2>2. ScratchOK' /\ Holding'
      BY <2>1 DEF ScratchOK, NodesOK, Holding, Writing
    <2>3. NodesOK'
      BY <2>1 DEF NodesOK, stm
    <2>4. RestOK'
      BY <2>1, HalfDoneIds DEF RestOK, ltm, record
    <2> QED
      BY <2>2, <2>3, <2>4
  <1>6. CASE Receive
    <2>1. Still /\ UNCHANGED <<turn, anchor, todo, lastNode>>
      BY <1>6 DEF Receive, Take, stm
    <2>2. pc' \in Writing => pc' = "check" /\ C'.kind \in Writes
      BY <1>6 DEF Receive, Take, Writing, C
    <2>3. ScratchOK' /\ Holding'
      BY <2>1, <2>2 DEF ScratchOK, Holding, Writing
    <2> QED
      BY <1>0, <2>1, <2>3
  <1>7. CASE Fails
    <2>1. /\ UNCHANGED <<stm, ltm, record, lastNode, turn, anchor, todo>>
          /\ broken' = broken \cup HalfDone /\ pc' \notin Writing
      BY <1>7 DEF Fails, Writing, stm
    <2>2. ScratchOK' /\ Holding'
      BY <2>1 DEF ScratchOK, Holding, Writing
    <2>3. NodesOK'
      BY <2>1 DEF NodesOK, stm
    <2>4. RestOK'
      BY <2>1, HalfDoneIds DEF RestOK, ltm, record
    <2> QED
      BY <2>2, <2>3, <2>4
  <1>8. CASE Check
    <2>1. Still /\ UNCHANGED <<topic, hand, turn, anchor, todo, lastNode>>
      BY <1>8 DEF Check, Processing, stm
    <2>2. pc = "check" /\ pc' \in {"settle", "unlink", "embed"}
      BY <1>8 DEF Check, Dispatch
    <2>3. ScratchOK' /\ Holding'
      BY <2>1, <2>2 DEF ScratchOK, Holding, Writing, C
    <2> QED
      BY <1>0, <2>1, <2>3
  <1>9. CASE StoreTurn
    <2> DEFINE n == lastNode + 1
    <2>0. n \in Nat /\ n # 0
      BY DEF NodesOK
    <2>1. C \in Command /\ C.id \in Ids /\ C' = C
      BY <1>9, InHand DEF StoreTurn, Processing, Busy, Failing, Writes, C
    <2>2. /\ lastNode' = n /\ turn' = n
          /\ turns' = turns \cup {[n |-> n, id |-> C.id]}
          /\ UNCHANGED <<anchor, anchors, archived, about, facts>>
      BY <1>9 DEF StoreTurn
    <2>3. /\ todo' \in Seq(Docs)
          /\ pc' \in {"mark", "link"}
          /\ pc' = "link" => todo' # <<>> /\ C.thread \in Threads
      <3>1. C.thread \in Threads \cup {None} /\ C.subjects \in Seq(Docs)
        BY <2>1 DEF Command
      <3>2. /\ todo' = (IF C.thread = None THEN <<>> ELSE C.subjects)
            /\ pc' = (IF todo' = <<>> THEN "mark" ELSE "link")
        BY <1>9 DEF StoreTurn
      <3>3. <<>> \in Seq(Docs)
        OBVIOUS
      <3> QED
        BY <3>1, <3>2, <3>3
    <2>4. ScratchOK'
      BY <2>0, <2>2, <2>3 DEF ScratchOK, NodesOK
    <2>5. NodesOK'
      BY <2>0, <2>1, <2>2 DEF NodesOK
    <2>6. RestOK'
      BY <1>9 DEF StoreTurn, RestOK, ltm, record
    <2>7. Holding'
      BY <1>9, <2>0, <2>1, <2>2, <2>3 DEF StoreTurn, Holding, Writes
    <2> QED
      BY <2>4, <2>5, <2>6, <2>7
  <1>10. CASE LinkSubject
    <2>1. /\ C \in Command /\ C' = C /\ C.kind \in Writes
          /\ turn # 0 /\ todo # <<>> /\ C.thread \in Threads
      BY <1>10, InHand DEF LinkSubject, FindSubject, RefreshSubject, CreateSubject, Linking,
                           Processing, Busy, Failing, Writing, Holding, C
    <2>2. /\ pc' \in {"refresh", "edge"}
          /\ UNCHANGED <<turn, todo, turns, archived, about, facts, ltm, record, broken>>
      BY <1>10 DEF LinkSubject, FindSubject, RefreshSubject, CreateSubject, Linking
    <2>3. Head(todo) \in Docs
      BY <2>1 DEF ScratchOK
    <2>4. RestOK'
      BY <2>2 DEF RestOK, ltm, record
    <2>5. CASE CreateSubject
      <3>1. /\ lastNode' = lastNode + 1 /\ anchor' = lastNode + 1
            /\ anchors' = anchors \cup {[n |-> lastNode + 1, thread |-> C.thread,
                                         doc |-> Head(todo), ccl |-> C.ccl]}
        BY <2>5 DEF CreateSubject
      <3>2. NodesOK'
        BY <2>1, <2>2, <2>3, <3>1 DEF NodesOK, Command
      <3>3. ScratchOK' /\ anchor' # 0
        BY <2>2, <3>1 DEF ScratchOK, NodesOK
      <3> QED
        BY <2>1, <2>2, <2>4, <3>2, <3>3 DEF Holding
    <2>6. CASE FindSubject
      <3>1. /\ \E a \in anchors : anchor' = a.n
            /\ UNCHANGED <<lastNode, anchors>>
        BY <2>6 DEF FindSubject, Reusable, Live
      <3>2. NodesOK'
        BY <2>2, <3>1 DEF NodesOK
      <3>3. ScratchOK' /\ anchor' # 0
        BY <2>2, <3>1 DEF ScratchOK, NodesOK
      <3> QED
        BY <2>1, <2>2, <2>4, <3>2, <3>3 DEF Holding
    <2>7. CASE RefreshSubject
      <3>1. UNCHANGED <<lastNode, anchors, anchor>> /\ anchor # 0
        BY <2>7 DEF RefreshSubject, Holding
      <3>2. NodesOK' /\ ScratchOK'
        BY <2>2, <3>1 DEF NodesOK, ScratchOK
      <3> QED
        BY <2>1, <2>2, <2>4, <3>1, <3>2 DEF Holding
    <2> QED
      BY <1>10, <2>5, <2>6, <2>7 DEF LinkSubject
  <1>11. CASE StoreEdge
    <2>1. /\ C' = C /\ C.kind \in Writes /\ turn # 0 /\ anchor # 0 /\ todo # <<>>
          /\ C.thread \in Threads
      BY <1>11 DEF StoreEdge, Processing, Writing, Holding, C
    <2>2. /\ about' = about \cup {<<turn, anchor>>} /\ anchor' = 0
          /\ todo' = Tail(todo)
          /\ UNCHANGED <<turn, turns, anchors, archived, lastNode, facts, ltm, record,
                         broken>>
      BY <1>11 DEF StoreEdge
    <2>3. todo' \in Seq(Docs) /\ (Len(todo) # 1 => todo' # <<>>)
      <3>1. todo \in Seq(Docs) /\ todo # <<>>
        BY <2>1 DEF ScratchOK
      <3>2. Tail(todo) \in Seq(Docs) /\ Len(Tail(todo)) = Len(todo) - 1 /\ Len(todo) \in Nat
        BY <3>1
      <3>3. Len(todo) # 1 => Len(Tail(todo)) # 0
        BY <3>2
      <3> QED
        BY <2>2, <3>2, <3>3
    <2>4. ScratchOK'
      BY <2>2, <2>3 DEF ScratchOK, NodesOK
    <2>5. NodesOK'
      <3>1. <<turn, anchor>> \in (1..lastNode) \X (1..lastNode)
        BY <2>1 DEF ScratchOK, NodesOK
      <3> QED
        BY <2>2, <3>1 DEF NodesOK
    <2>6. RestOK'
      BY <2>2 DEF RestOK, ltm, record
    <2>7. Holding'
      BY <1>11, <2>1, <2>2, <2>3 DEF StoreEdge, Holding
    <2> QED
      BY <2>4, <2>5, <2>6, <2>7
  <1>12. CASE StoreNote \/ ForgetLtm
    <2>1. C' = C /\ C.kind \in Writes /\ pc' \in {"mark", "unfact"}
      BY <1>12 DEF StoreNote, ForgetLtm, Processing, Writing, Holding, C
    <2>2. UNCHANGED <<turn, anchor, todo, stm, ledger, undone, swept, broken>>
      BY <1>12 DEF StoreNote, ForgetLtm, record
    <2>3. notes' \in [Ids -> Nat] /\ filed' \subseteq Docs
      <3>1. CASE StoreNote
        <4>1. C.id \in Ids /\ notes \in [Ids -> Nat]
          BY <3>1, InHand DEF StoreNote, Busy, Failing, Writes, RestOK
        <4>2. notes[C.id] + 1 \in Nat
          BY <4>1
        <4> QED
          BY <3>1, <4>1, <4>2 DEF StoreNote, RestOK
      <3>2. CASE ForgetLtm
        BY <3>2 DEF ForgetLtm, RestOK
      <3> QED
        BY <1>12, <3>1, <3>2
    <2>4. ScratchOK' /\ NodesOK'
      BY <2>2 DEF ScratchOK, NodesOK, stm
    <2>5. RestOK' /\ Holding'
      BY <2>1, <2>2, <2>3 DEF RestOK, Holding
    <2> QED
      BY <2>4, <2>5
  <1>13. CASE ForgetStm
    <2>1. C' = C /\ C.kind \in Writes /\ pc' = "mark"
      BY <1>13 DEF ForgetStm, Processing, Writing, Holding, C
    <2>2. /\ facts' \subseteq facts /\ anchors' \subseteq anchors
          /\ archived' = {s \in archived : \E a \in anchors' : a.n = s[1]}
          /\ about' \subseteq about
          /\ UNCHANGED <<turn, anchor, todo, turns, lastNode, ltm, ledger, swept, broken>>
      BY <1>13 DEF ForgetStm
    <2>3. undone' \subseteq Ids
      BY <1>13 DEF ForgetStm, RestOK
    <2>4. ScratchOK' /\ NodesOK'
      BY <2>2 DEF ScratchOK, NodesOK
    <2>5. RestOK' /\ Holding'
      BY <2>1, <2>2, <2>3 DEF RestOK, Holding, ltm
    <2> QED
      BY <2>4, <2>5
  <1>14. CASE Mark
    <2>1. C.id \in Ids
      BY <1>14, InHand DEF Mark, Busy, Failing, Writing, Holding
    <2>2. /\ ledger' = ledger \cup {C.id} /\ undone' = undone \ {C.id} /\ pc' = "settle"
          /\ UNCHANGED <<turn, anchor, todo, stm, ltm, swept, broken>>
      BY <1>14 DEF Mark
    <2>3. ScratchOK' /\ NodesOK'
      BY <2>2 DEF ScratchOK, NodesOK, stm
    <2>4. RestOK' /\ Holding'
      BY <2>1, <2>2 DEF RestOK, Holding, Writing, ltm
    <2> QED
      BY <2>3, <2>4
  <1>15. CASE Reset
    <2>1. /\ pc' \in {"settle", "wipe ltm", "replay"}
          /\ UNCHANGED <<turn, anchor, todo, lastNode, ledger, swept, broken>>
      BY <1>15 DEF Reset, WipeStm, WipeLtm, Replayed, stm, record
    <2>2. /\ turns' \subseteq turns /\ anchors' \subseteq anchors
          /\ about' \subseteq about /\ facts' \subseteq facts
          /\ archived' = {} \/ UNCHANGED <<anchors, archived>>
      BY <1>15 DEF Reset, WipeStm, WipeLtm, Replayed, stm
    <2>3. filed' \subseteq filed /\ notes' \in [Ids -> Nat] /\ undone' \subseteq Ids
      <3>1. CASE WipeStm
        BY <3>1 DEF WipeStm, RestOK, ltm
      <3>2. CASE WipeLtm
        BY <3>2 DEF WipeLtm, RestOK
      <3>3. CASE Replayed
        BY <3>3 DEF Replayed, RestOK, ltm, record
      <3> QED
        BY <1>15, <3>1, <3>2, <3>3 DEF Reset
    <2>4. ScratchOK' /\ NodesOK'
      BY <2>1, <2>2 DEF ScratchOK, NodesOK
    <2>5. RestOK' /\ Holding'
      BY <2>1, <2>3 DEF RestOK, Holding, Writing
    <2> QED
      BY <2>4, <2>5
  <1>16. ASSUME NEW a \in anchors, Archive(a) PROVE StoresInv'
    <2>1. /\ UNCHANGED <<topic, pc, hand, turn, anchor, todo, lastNode, turns, anchors,
                         about, facts, notes, filed, ledger, swept, undone, broken>>
          /\ archived' = archived \cup {<<a.n, lastNode>>}
      BY <1>16 DEF Archive, task, ltm, record
    <2>2. a.n \in 1..lastNode /\ lastNode \in 1..lastNode
      BY DEF NodesOK
    <2>3. ScratchOK' /\ Holding' /\ RestOK'
      BY <2>1 DEF ScratchOK, Holding, C, RestOK
    <2>4. NodesOK'
      BY <2>1, <2>2 DEF NodesOK
    <2> QED
      BY <2>3, <2>4
  <1> QED
    BY <1>1, <1>2, <1>3, <1>4, <1>5, <1>6, <1>7, <1>8, <1>9, <1>10, <1>11, <1>12,
       <1>13, <1>14, <1>15, <1>16
       DEF Next, CommandTask, Environment, Process, Remember, Forget

LEMMA StoresInductive == Spec => [](OffsetsInv /\ StoresInv)
  BY InitOffsets, NextOffsets, InitStores, NextStores, PTL DEF Spec

\* Every variable keeps its type: a turn, a subject node and an edge carry row
\* ids that were given out, and the ledger holds command ids only.
THEOREM CommandTypes == Spec => []TypeOK
  <1>1. ASSUME OffsetsInv, StoresInv PROVE TypeOK
    <2> USE BoundsAreNumbers
    <2>1. /\ 0..Len(topic) \subseteq 0..MaxLog /\ -1..Len(topic) \subseteq -1..MaxLog
          /\ topic \in Seq(Commands) /\ Len(topic) <= MaxLog
      BY <1>1 DEF OffsetsInv, OffsetsOK
    <2> QED
      BY <1>1, <2>1 DEF OffsetsInv, OffsetsOK, StoresInv, ScratchOK, NodesOK, RestOK, TypeOK
  <1> QED
    BY <1>1, StoresInductive, PTL

-----------------------------------------------------------------------------
(***************************************************************************)
(* Meeting.  The node in hand is the only active working one of its        *)
(* subject, from the moment it is found or made until the edge is stored.  *)
(***************************************************************************)
OneNode == \A a, b \in anchors : a.n = b.n => a = b

InHandMeets ==
    pc \in {"refresh", "edge"} =>
        /\ \E b \in anchors :
              /\ b.n = anchor /\ b.thread = C.thread /\ b.doc = Head(todo)
              /\ \A a \in Live : a.ccl = "working" /\ SameSubject(a, b) => a = b
        /\ \A s \in archived : s[1] = anchor => turn <= s[2]

MeetInv == TurnsMeet /\ OneNode /\ InHandMeets

\* The steps that leave the subject nodes, their status and their edges alone.
LEMMA MeetKept ==
    ASSUME MeetInv, UNCHANGED <<anchors, archived, about>>,
           pc' \in {"refresh", "edge"} =>
               /\ pc \in {"refresh", "edge"} /\ C' = C
               /\ UNCHANGED <<turn, anchor, todo>>
    PROVE  MeetInv'
  <1>1. Live' = Live
    BY DEF Live
  <1>2. TurnsMeet' /\ OneNode'
    BY <1>1 DEF MeetInv, TurnsMeet, OneNode, SameSubject
  <1>3. InHandMeets'
    BY <1>1 DEF MeetInv, InHandMeets, SameSubject
  <1> QED
    BY <1>2, <1>3 DEF MeetInv

\* The steps after which there is no node in hand, and fewer nodes.
LEMMA MeetShrinks ==
    ASSUME MeetInv, anchors' \subseteq anchors, about' \subseteq about,
           archived' \subseteq archived, pc' \notin {"refresh", "edge"},
           \A s \in archived : (\E a \in anchors' : a.n = s[1]) => s \in archived'
    PROVE  MeetInv'
  <1>1. Live' \subseteq Live
    BY DEF Live
  <1>2. TurnsMeet' /\ OneNode'
    BY <1>1 DEF MeetInv, TurnsMeet, OneNode, SameSubject
  <1> QED
    BY <1>2 DEF MeetInv, InHandMeets

LEMMA FoundMeets ==
    ASSUME OffsetsInv, StoresInv, MeetInv, FindSubject
    PROVE  MeetInv'
  <1>1. /\ UNCHANGED <<anchors, archived, about, turn, todo>> /\ C' = C
        /\ pc = "link" /\ pc' = "refresh"
    BY DEF FindSubject, Linking, Processing, C
  <1>2. Live' = Live
    BY <1>1 DEF Live
  <1>3. PICK b \in Reusable : anchor' = b.n
    BY DEF FindSubject
  <1>4. b \in Live /\ b \in anchors /\ b.ccl = "working"
        /\ b.thread = C.thread /\ b.doc = Head(todo)
    BY <1>3 DEF Reusable, Live
  <1>5. \A a \in Live : a.ccl = "working" /\ SameSubject(a, b) => a = b
    <2> SUFFICES ASSUME NEW a \in Live, a.ccl = "working", SameSubject(a, b), a # b
                 PROVE  FALSE
      OBVIOUS
    <2>1. a \in anchors /\ a.n \in Nat /\ b.n \in Nat
      BY <1>4 DEF Live, StoresInv, NodesOK
    <2>2. b.n < a.n /\ a.n < b.n
      BY <1>4, <2>1 DEF MeetInv, TurnsMeet, SameSubject
    <2> QED
      BY <2>1, <2>2
  <1>6. \A s \in archived : s[1] # anchor'
    BY <1>3, <1>4 DEF Live
  <1>7. TurnsMeet' /\ OneNode'
    BY <1>1, <1>2 DEF MeetInv, TurnsMeet, OneNode, SameSubject
  <1>8. InHandMeets'
    BY <1>1, <1>2, <1>3, <1>4, <1>5, <1>6 DEF InHandMeets, SameSubject
  <1> QED
    BY <1>7, <1>8 DEF MeetInv

LEMMA CreatedMeets ==
    ASSUME OffsetsInv, StoresInv, MeetInv, CreateSubject
    PROVE  MeetInv'
  <1> DEFINE new == [n |-> lastNode + 1, thread |-> C.thread, doc |-> Head(todo),
                     ccl |-> C.ccl]
  <1>1. /\ UNCHANGED <<archived, about, turn, todo>> /\ C' = C /\ Reusable = {}
        /\ anchors' = anchors \cup {new} /\ anchor' = lastNode + 1
    BY DEF CreateSubject, Linking, Processing, C
  <1>2. /\ lastNode \in Nat
        /\ \A a \in anchors : a.n \in Nat /\ a.n <= lastNode
        /\ \A s \in archived : s[1] \in Nat /\ s[1] <= lastNode
        /\ \A e \in about : e[1] \in Nat /\ e[1] <= lastNode
                            /\ e[2] \in Nat /\ e[2] <= lastNode
    BY DEF StoresInv, NodesOK
  <1>3. new.n = lastNode + 1 /\ new.thread = C.thread /\ new.doc = Head(todo)
    OBVIOUS
  <1> HIDE DEF new
  <1>4. \A s \in archived : s[1] # new.n
    BY <1>2, <1>3
  <1>5. Live' = Live \cup {new}
    BY <1>1, <1>4 DEF Live
  <1>6. \A a \in Live : a.ccl = "working" => ~SameSubject(a, new)
    BY <1>1, <1>3 DEF Reusable, SameSubject
  <1>7. OneNode'
    BY <1>1, <1>2, <1>3 DEF MeetInv, OneNode
  <1>8. TurnsMeet'
    <2>1. ASSUME NEW a \in Live', NEW b \in anchors', a.ccl = "working", SameSubject(a, b),
                 a # b
          PROVE  b.n < a.n /\ \A e \in about' : e[2] = b.n => e[1] < a.n
      <3>1. CASE a = new
        BY <1>1, <1>2, <1>3, <2>1, <3>1
      <3>2. CASE a # new
        <4>1. a \in Live /\ b \in anchors
          BY <1>1, <1>5, <1>6, <2>1, <3>2
        <4> QED
          BY <1>1, <2>1, <4>1 DEF MeetInv, TurnsMeet
      <3> QED
        BY <3>1, <3>2
    <2>2. \A e \in about', s \in archived' : e[2] = s[1] => e[1] <= s[2]
      BY <1>1 DEF MeetInv, TurnsMeet
    <2> QED
      BY <2>1, <2>2 DEF TurnsMeet, SameSubject
  <1>9. InHandMeets'
    <2>1. new \in anchors' /\ new.n = anchor' /\ new.thread = C'.thread
          /\ new.doc = Head(todo')
      BY <1>1, <1>3
    <2>2. \A a \in Live' : a.ccl = "working" /\ SameSubject(a, new) => a = new
      BY <1>5, <1>6
    <2>3. \A s \in archived' : s[1] # anchor'
      BY <1>1, <1>3, <1>4
    <2> QED
      BY <2>1, <2>2, <2>3 DEF InHandMeets, SameSubject
  <1> QED
    BY <1>7, <1>8, <1>9 DEF MeetInv

LEMMA EdgeMeets ==
    ASSUME OffsetsInv, StoresInv, MeetInv, StoreEdge
    PROVE  MeetInv'
  <1>1. /\ UNCHANGED <<anchors, archived>> /\ pc = "edge" /\ pc' \in {"mark", "link"}
        /\ about' = about \cup {<<turn, anchor>>}
    BY DEF StoreEdge
  <1>2. Live' = Live
    BY <1>1 DEF Live
  <1>3. PICK h \in anchors :
            /\ h.n = anchor
            /\ \A a \in Live : a.ccl = "working" /\ SameSubject(a, h) => a = h
    BY <1>1 DEF MeetInv, InHandMeets
  <1>4. TurnsMeet'
    <2>1. ASSUME NEW a \in Live, NEW b \in anchors, a.ccl = "working", SameSubject(a, b),
                 a # b
          PROVE  b.n < a.n /\ \A e \in about' : e[2] = b.n => e[1] < a.n
      <3>1. b.n < a.n /\ \A e \in about : e[2] = b.n => e[1] < a.n
        BY <2>1 DEF MeetInv, TurnsMeet
      <3>2. b.n # anchor
        BY <1>3, <2>1 DEF MeetInv, OneNode
      <3> QED
        BY <1>1, <3>1, <3>2
    <2>2. \A e \in about', s \in archived : e[2] = s[1] => e[1] <= s[2]
      BY <1>1 DEF MeetInv, TurnsMeet, InHandMeets
    <2> QED
      BY <1>1, <1>2, <2>1, <2>2 DEF TurnsMeet, SameSubject
  <1> QED
    BY <1>1, <1>4 DEF MeetInv, OneNode, InHandMeets

LEMMA ArchiveMeets ==
    ASSUME OffsetsInv, StoresInv, MeetInv, NEW x \in anchors, Archive(x)
    PROVE  MeetInv'
  <1>1. /\ UNCHANGED <<anchors, about, turn, anchor, todo, pc>> /\ C' = C
        /\ archived' = archived \cup {<<x.n, lastNode>>}
    BY DEF Archive, task, C
  <1>2. Live' \subseteq Live
    BY <1>1 DEF Live
  <1>3. turn <= lastNode /\ \A e \in about : e[1] <= lastNode
    BY DEF StoresInv, ScratchOK, NodesOK
  <1>4. TurnsMeet' /\ OneNode'
    BY <1>1, <1>2, <1>3 DEF MeetInv, TurnsMeet, OneNode, SameSubject
  <1>5. InHandMeets'
    BY <1>1, <1>2, <1>3 DEF MeetInv, InHandMeets, SameSubject
  <1> QED
    BY <1>4, <1>5 DEF MeetInv

LEMMA NextMeet == OffsetsInv /\ StoresInv /\ MeetInv /\ [Next]_vars => MeetInv'
  <1> SUFFICES ASSUME OffsetsInv, StoresInv, MeetInv, [Next]_vars PROVE MeetInv'
    OBVIOUS
  <1>1. ASSUME NEW c \in Commands, Produce(c) PROVE MeetInv'
    <2>1. UNCHANGED <<anchors, archived, about, turn, anchor, todo, pc>>
      BY <1>1 DEF Produce, stm, task
    <2>2. pc \in Busy => C' = C
      BY <1>1, InHand DEF Produce, C, task, OffsetsInv, OffsetsOK
    <2> QED
      BY <2>1, <2>2, MeetKept DEF Busy, Failing
  <1>2. CASE \/ BrokerAnswers \/ Revoke \/ Assign \/ Expire \/ Shutdown \/ Start \/ Close
             \/ Probe \/ LeaveLoop \/ Exit \/ Crash \/ Settle \/ UNCHANGED vars
             \/ \E id \in Ids : SweepLedger(id)
    <2>1. UNCHANGED <<anchors, archived, about>>
      BY <1>2 DEF BrokerAnswers, Revoke, Assign, Expire, Shutdown, Start, Close, Probe,
             ReadEnd, PinAtEnd, ProbeFails, Probing, LeaveLoop, Exit, Crash, Settle,
             SweepLedger, stm, vars
    <2>2. pc' \in {"refresh", "edge"} =>
              pc' = pc /\ UNCHANGED <<topic, hand, turn, anchor, todo>>
      BY <1>2 DEF BrokerAnswers, Revoke, Assign, Expire, Shutdown, Start, Close, Probe,
             ReadEnd, PinAtEnd, ProbeFails, Probing, LeaveLoop, Exit, Crash, ForgetMemory,
             Settle, SweepLedger, task, vars
    <2> QED
      BY <2>1, <2>2, MeetKept DEF C
  <1>3. CASE \/ Receive \/ Fails \/ Check \/ StoreTurn \/ StoreNote \/ ForgetLtm \/ Mark
             \/ Replayed \/ WipeLtm
    <2>1. UNCHANGED <<anchors, archived, about>> /\ pc' \notin {"refresh", "edge"}
      BY <1>3 DEF Receive, Take, Fails, Check, Dispatch, StoreTurn, StoreNote, ForgetLtm,
             Mark, Replayed, WipeLtm, stm
    <2> QED
      BY <2>1, MeetKept
  <1>4. CASE RefreshSubject
    <2>1. /\ UNCHANGED <<anchors, archived, about, turn, anchor, todo>> /\ C' = C
          /\ pc = "refresh"
      BY <1>4 DEF RefreshSubject, Linking, Processing, C
    <2> QED
      BY <2>1, MeetKept
  <1>5. CASE ForgetStm
    BY <1>5, MeetShrinks DEF ForgetStm
  <1>6. CASE WipeStm
    BY <1>6, MeetShrinks DEF WipeStm
  <1> QED
    BY <1>1, <1>2, <1>3, <1>4, <1>5, <1>6, FoundMeets, CreatedMeets, EdgeMeets, ArchiveMeets
       DEF Next, CommandTask, Environment, Process, Remember, LinkSubject, Forget, Reset

\* The turns of a thread about one document meet in its active working node,
\* whatever is stored, archived, forgotten or reset in between.
THEOREM TurnsAlwaysMeet == Spec => []TurnsMeet
  <1>1. Init => MeetInv
    BY DEF Init, MeetInv, TurnsMeet, OneNode, InHandMeets, Live
  <1>2. MeetInv => TurnsMeet
    BY DEF MeetInv
  <1> QED
    BY <1>1, <1>2, NextMeet, StoresInductive, PTL DEF Spec

-----------------------------------------------------------------------------
(***************************************************************************)
(* Once.  Between its write and its mark, a command in hand has one copy   *)
(* and is not in the ledger; any other command with a copy is.             *)
(***************************************************************************)
Midway == {"link", "refresh", "edge", "mark"}
Owner(id) == pc \in Midway /\ C.kind # "forget" /\ C.id = id
HasTurn(id) == \E t \in turns : t.id = id

Once(id) ==
    /\ \A t, u \in turns : t.id = id /\ u.id = id => t = u
    /\ notes[id] <= 1
    /\ HasTurn(id) => notes[id] = 0
    /\ HasTurn(id) \/ notes[id] # 0 => id \in ledger \/ Owner(id)

OnceInv ==
    /\ \A id \in Ids \ (broken \cup swept) : Once(id)
    /\ pc = "embed" => C.id \notin ledger

LEMMA OneCopy ==
    ASSUME StoresInv, NEW id \in Ids, Once(id)
    PROVE  Copies(id) <= 1
  <1> DEFINE T == {t \in turns : t.id = id}
  <1>1. notes[id] \in Nat /\ notes[id] <= 1
    BY DEF StoresInv, RestOK, Once
  <1>2. CASE T = {}
    <2>1. Cardinality(T) = 0
      BY <1>2, FS_EmptySet
    <2> QED
      BY <2>1, <1>1 DEF Copies
  <1>3. CASE T # {}
    <2>1. PICK t \in turns : t.id = id
      BY <1>3
    <2>2. T = {t}
      BY <2>1 DEF Once
    <2>3. Cardinality(T) = 1
      BY <2>2, FS_Singleton
    <2>4. notes[id] = 0
      BY <2>1 DEF Once, HasTurn
    <2> QED
      BY <2>3, <2>4 DEF Copies
  <1> QED
    BY <1>2, <1>3

\* A step that stores nothing, and leaves no owner behind that is not broken.
LEMMA OnceKept ==
    ASSUME OnceInv, StoresInv, UNCHANGED <<turns, notes>>,
           ledger \subseteq ledger' \cup swept', broken \subseteq broken', swept \subseteq swept',
           \A id \in Ids : Owner(id) => id \in ledger' \/ id \in broken' \/ Owner(id)',
           pc' = "embed" => C'.id \notin ledger'
    PROVE  OnceInv'
  <1>1. ASSUME NEW id \in Ids, id \notin broken' \cup swept' PROVE Once(id)'
    <2>1. Once(id)
      BY <1>1 DEF OnceInv
    <2>2. HasTurn(id)' = HasTurn(id) /\ notes'[id] = notes[id]
      BY DEF HasTurn
    <2>3. id \in ledger \/ Owner(id) => id \in ledger' \/ Owner(id)'
      BY <1>1
    <2> QED
      BY <2>1, <2>2, <2>3 DEF Once
  <1> QED
    BY <1>1 DEF OnceInv

LEMMA InitOnce == Init => OnceInv
  BY DEF Init, OnceInv, Once, HasTurn

\* The steps that store nothing.
LEMMA IdleOnce ==
    ASSUME OffsetsInv, StoresInv, OnceInv,
           \/ \E c \in Commands : Produce(c)
           \/ BrokerAnswers \/ Revoke \/ Assign \/ Expire \/ Shutdown
           \/ Start \/ Close \/ Probe \/ LeaveLoop \/ Exit \/ Settle \/ Receive
           \/ UNCHANGED vars
    PROVE  OnceInv'
  <1>1. UNCHANGED <<turns, notes, ledger, swept, broken>>
    BY DEF Produce, BrokerAnswers, Revoke, Assign, Expire, Shutdown, Start, Close, Probe,
           ReadEnd, PinAtEnd, ProbeFails, Probing, LeaveLoop, Exit, Settle, Receive, Take,
           stm, ltm, record, vars
  <1>2. /\ pc \in Midway => pc' = pc /\ hand' = hand
        /\ pc' = "embed" => pc = "embed" /\ hand' = hand
    BY DEF Produce, BrokerAnswers, Revoke, Assign, Expire, Shutdown, Start, Close, Probe,
           ReadEnd, PinAtEnd, ProbeFails, Probing, LeaveLoop, Exit, ForgetMemory, Settle,
           Receive, Take, task, vars, Midway
  <1>3. pc \in Busy /\ hand' = hand => C' = C
    <2>1. CASE topic' = topic
      BY <2>1 DEF C
    <2>2. CASE \E c \in Commands : Produce(c)
      BY <2>2, InHand DEF Produce, C, OffsetsInv, OffsetsOK
    <2>3. topic' = topic \/ \E c \in Commands : Produce(c)
      BY DEF BrokerAnswers, Revoke, Assign, Expire, Shutdown, Start, Close, Probe,
             ReadEnd, PinAtEnd, ProbeFails, Probing, LeaveLoop, Exit, Settle, Receive,
             Take, vars
    <2> QED
      BY <2>1, <2>2, <2>3
  <1>4. ASSUME NEW id \in Ids, Owner(id) PROVE Owner(id)'
    BY <1>2, <1>3, <1>4 DEF Owner, Midway, Busy, Failing
  <1>5. pc' = "embed" => C'.id \notin ledger'
    BY <1>1, <1>2, <1>3 DEF OnceInv, Busy, Failing
  <1> QED
    BY <1>1, <1>4, <1>5, OnceKept

\* The steps that break off.
LEMMA BrokenOnce ==
    ASSUME OffsetsInv, StoresInv, OnceInv, Crash \/ Fails
    PROVE  OnceInv'
  <1>1. /\ UNCHANGED <<turns, notes, ledger, swept>>
        /\ broken' = broken \cup HalfDone /\ pc' # "embed"
    BY DEF Crash, ForgetMemory, Fails, stm, ltm, record
  <1>2. ASSUME NEW id \in Ids, Owner(id) PROVE id \in broken'
    BY <1>1, <1>2 DEF Owner, HalfDone, Midway
  <1> QED
    BY <1>1, <1>2, OnceKept

\* A turn or a note is stored for a command that is not in the ledger, and so
\* has no copy yet.
LEMMA StoringOnce ==
    ASSUME OffsetsInv, StoresInv, OnceInv, StoreTurn \/ StoreNote
    PROVE  OnceInv'
  <1>1. /\ C' = C /\ C.id \in Ids /\ C.kind # "forget" /\ C.id \notin ledger
        /\ pc = "embed" /\ pc' \in Midway
        /\ UNCHANGED <<ledger, swept, broken>>
    BY InHand DEF StoreTurn, StoreNote, Processing, Busy, Failing, Writes, C, record, Midway, OnceInv
  <1>2. ASSUME NEW id \in Ids, id \notin broken' \cup swept' PROVE Once(id)'
    <2>1. Once(id) /\ ~Owner(id)
      BY <1>1, <1>2 DEF OnceInv, Owner, Midway
    <2>2. CASE id = C.id
      <3>1. ~HasTurn(id) /\ notes[id] = 0
        BY <1>1, <2>1, <2>2 DEF Once
      <3>2. Owner(id)'
        BY <1>1, <2>2 DEF Owner
      <3>3. CASE StoreTurn
        <4>1. /\ turns' = turns \cup {[n |-> lastNode + 1, id |-> id]}
              /\ notes' = notes
          BY <2>2, <3>3 DEF StoreTurn, ltm
        <4> QED
          BY <3>1, <3>2, <4>1 DEF Once, HasTurn
      <3>4. CASE StoreNote
        <4>1. notes \in [Ids -> Nat]
          BY DEF StoresInv, RestOK
        <4>2. turns' = turns /\ notes' = [notes EXCEPT ![id] = notes[id] + 1]
          BY <2>2, <3>4 DEF StoreNote, stm
        <4>3. notes'[id] = 1
          BY <3>1, <4>1, <4>2
        <4> QED
          BY <3>1, <3>2, <4>2, <4>3 DEF Once, HasTurn
      <3> QED
        BY <3>3, <3>4
    <2>3. CASE id # C.id
      <3>1. {t \in turns : t.id = id}' = {t \in turns : t.id = id} /\ notes'[id] = notes[id]
        <4>1. CASE StoreTurn
          <5>1. notes' = notes /\ turns' = turns \cup {[n |-> lastNode + 1, id |-> C.id]}
            BY <4>1 DEF StoreTurn, ltm
          <5>2. {t \in turns' : t.id = id} = {t \in turns : t.id = id}
            BY <2>3, <5>1
          <5> QED
            BY <5>1, <5>2
        <4>2. CASE StoreNote
          BY <2>3, <4>2 DEF StoreNote, stm, StoresInv, RestOK
        <4> QED
          BY <4>1, <4>2
      <3>2. HasTurn(id)' = HasTurn(id)
        BY <3>1 DEF HasTurn
      <3>3. \A t, u \in turns' : t.id = id /\ u.id = id => t = u
        BY <2>1, <3>1 DEF Once
      <3> QED
        BY <1>1, <2>1, <3>1, <3>2, <3>3 DEF Once
    <2> QED
      BY <2>2, <2>3
  <1> QED
    BY <1>1, <1>2 DEF OnceInv, Midway

\* The other steps of a command: a copy is kept, or wiped with all others.
LEMMA WorkingOnce ==
    ASSUME OffsetsInv, StoresInv, OnceInv,
           Check \/ LinkSubject \/ StoreEdge \/ Forget \/ Mark \/ Reset
    PROVE  OnceInv'
  <1>1. C' = C /\ UNCHANGED <<swept, broken>>
    BY DEF Check, LinkSubject, FindSubject, RefreshSubject, CreateSubject, Linking,
           StoreEdge, Forget, ForgetLtm, ForgetStm, Mark, Reset,
           WipeStm, WipeLtm, Replayed, Processing, C, record
  <1>2. pc' = "embed" => C.id \notin ledger /\ ledger' = ledger
    BY DEF Check, LinkSubject, FindSubject, RefreshSubject, CreateSubject, Linking,
           StoreEdge, Forget, ForgetLtm, ForgetStm, Mark, Reset,
           WipeStm, WipeLtm, Replayed, record
  <1>3. CASE Check \/ LinkSubject \/ StoreEdge \/ Forget \/ Mark \/ Replayed
    <2>1. UNCHANGED <<turns, notes>> /\ ledger \subseteq ledger'
      BY <1>3 DEF Check, LinkSubject, FindSubject, RefreshSubject, CreateSubject, Linking,
           StoreEdge, Forget, ForgetLtm, ForgetStm, Mark,
                  Replayed, stm, ltm, record
    <2>2. ASSUME NEW id \in Ids, Owner(id) PROVE id \in ledger' \/ Owner(id)'
      BY <1>1, <1>3, <2>2
         DEF Check, LinkSubject, FindSubject, RefreshSubject, CreateSubject, Linking,
           StoreEdge, Forget, ForgetLtm, ForgetStm, Mark, Replayed,
             Owner, Midway
    <2> QED
      BY <1>1, <1>2, <2>1, <2>2, OnceKept
  <1>4. CASE WipeStm \/ WipeLtm
    <2>1. ledger' = ledger /\ pc \notin Midway
      BY <1>4 DEF WipeStm, WipeLtm, Midway
    <2>2. ASSUME NEW id \in Ids, id \notin broken' \cup swept' PROVE Once(id)'
      <3>1. Once(id) /\ ~Owner(id)
        BY <1>1, <2>1, <2>2 DEF OnceInv, Owner
      <3>2. turns' \subseteq turns /\ notes'[id] \in {0, notes[id]}
        BY <1>4 DEF WipeStm, WipeLtm, stm, ltm
      <3>3. HasTurn(id)' => HasTurn(id)
        BY <3>2 DEF HasTurn
      <3> QED
        BY <2>1, <3>1, <3>2, <3>3 DEF Once
    <2> QED
      BY <1>1, <1>2, <2>2 DEF OnceInv
  <1> QED
    BY <1>3, <1>4 DEF Reset

LEMMA SweepOnce ==
    ASSUME OnceInv, StoresInv, NEW gone \in Ids, SweepLedger(gone)
    PROVE  OnceInv'
  <1>1. /\ UNCHANGED <<turns, notes, broken, pc, C>>
        /\ ledger' = ledger \ {gone} /\ swept' = swept \cup {gone}
    BY DEF SweepLedger, stm, ltm, task, C
  <1>2. \A id \in Ids : Owner(id) => Owner(id)'
    BY <1>1 DEF Owner
  <1>3. pc' = "embed" => C'.id \notin ledger'
    BY <1>1 DEF OnceInv
  <1> QED
    BY <1>1, <1>2, <1>3, OnceKept

LEMMA ArchiveOnce ==
    ASSUME OnceInv, StoresInv, NEW a \in anchors, Archive(a)
    PROVE  OnceInv'
  <1>1. UNCHANGED <<turns, notes, broken, ledger, swept, pc, C>>
    BY DEF Archive, ltm, record, task, C
  <1>2. \A id \in Ids : Owner(id) => Owner(id)'
    BY <1>1 DEF Owner
  <1>3. pc' = "embed" => C'.id \notin ledger'
    BY <1>1 DEF OnceInv
  <1> QED
    BY <1>1, <1>2, <1>3, OnceKept

LEMMA NextOnce == OffsetsInv /\ StoresInv /\ OnceInv /\ [Next]_vars => OnceInv'
  BY IdleOnce, BrokenOnce, StoringOnce, WorkingOnce, SweepOnce, ArchiveOnce
     DEF Next, CommandTask, Environment, Process, Remember

-----------------------------------------------------------------------------
(***************************************************************************)
(* Whole.  A command in the ledger has its whole effect; one in hand has   *)
(* the part its step has come to.                                          *)
(***************************************************************************)
Linked(t, c, i) ==
    \E a \in anchors :
        a.doc = c.subjects[i] /\ a.thread = c.thread /\ <<t, a.n>> \in about

Whole(c) ==
    /\ c.kind = "remember stm" =>
          \E t \in turns :
              /\ t.id = c.id
              /\ c.thread # None => \A i \in 1..Len(c.subjects) : Linked(t.n, c, i)
    /\ c.kind = "remember ltm" => notes[c.id] # 0
    /\ c.kind = "forget" => c.doc \notin filed /\ c.doc \notin facts

Marked == \A c \in Commands : c.id \in ledger \ undone => Whole(c)

\* The subjects still to do are the last of the command's; the others are linked.
RemainingIsLast(c) ==
    /\ Len(todo) <= Len(c.subjects)
    /\ \A j \in 1..Len(todo) : todo[j] = c.subjects[Len(c.subjects) - Len(todo) + j]
OthersLinked(c) == \A i \in 1..(Len(c.subjects) - Len(todo)) : Linked(turn, c, i)
Anchored(c) ==
    \E a \in anchors : a.n = anchor /\ a.thread = c.thread /\ a.doc = Head(todo)

Remembering(c) ==
    /\ \E t \in turns : t.n = turn /\ t.id = c.id
    /\ c.thread # None => RemainingIsLast(c) /\ OthersLinked(c)
    /\ pc \in {"refresh", "edge"} => Anchored(c)
    /\ pc = "mark" => todo = <<>>

Partly(c) ==
    /\ pc \in {"link", "refresh", "edge"} => c.kind = "remember stm"
    /\ pc \in {"unlink", "unfact"} => c.kind = "forget"
    /\ c.kind = "remember stm" => Remembering(c)
    /\ c.kind = "remember ltm" => notes[c.id] # 0
    /\ c.kind = "forget" /\ pc \in {"unfact", "mark"} => c.doc \notin filed
    /\ c.kind = "forget" /\ pc = "mark" => c.doc \notin facts

Held == {"link", "refresh", "edge", "mark", "unlink", "unfact"}
Underway == \A c \in Commands : pc \in Held /\ C = c => Partly(c)

MarkedInv == Marked /\ Underway

\* A command with an id is a write, and the only one with that id.
LEMMA IdsOfWrites ==
    ASSUME NEW c \in Commands, c.id \in Ids
    PROVE  /\ c.kind \in Writes /\ c.subjects \in Seq(Docs)
           /\ \A d \in Commands : d.id = c.id => d = c
  BY CommandConstants DEF Command

LEMMA WholeIsEffect ==
    ASSUME NEW c \in Commands, c.id \in Ids, StoresInv, Whole(c)
    PROVE  Effect(c)
  <1>1. c.kind \in Writes /\ c.subjects \in Seq(Docs)
    BY IdsOfWrites
  <1>2. CASE c.kind = "remember stm"
    <2>1. DOMAIN c.subjects = 1..Len(c.subjects)
      BY <1>1
    <2>2. \E t \in turns :
              /\ t.id = c.id
              /\ c.thread # None => \A i \in DOMAIN c.subjects :
                    \E a \in anchors : /\ a.doc = c.subjects[i] /\ a.thread = c.thread
                                       /\ <<t.n, a.n>> \in about
      BY <1>2, <2>1, Zenon DEF Whole, Linked
    <2> QED
      BY <1>2, <2>2, Zenon DEF Effect
  <1>3. CASE c.kind = "remember ltm"
    <2>1. notes[c.id] \in Nat /\ notes[c.id] # 0
      BY <1>3 DEF Whole, StoresInv, RestOK
    <2>2. notes[c.id] > 0
      BY <2>1
    <2> QED
      BY <1>3, <2>2 DEF Effect
  <1>4. CASE c.kind = "forget"
    BY <1>4 DEF Effect, Whole
  <1> QED
    BY <1>1, <1>2, <1>3, <1>4 DEF Writes

\* What is stored stays, and what is forgotten stays forgotten.
Growing ==
    /\ turns \subseteq turns' /\ anchors \subseteq anchors' /\ about \subseteq about'
    /\ \A id \in Ids : notes[id] # 0 => notes'[id] # 0
    /\ filed' \subseteq filed /\ facts' \subseteq facts

LEMMA LinkedGrows ==
    ASSUME Growing, NEW t, NEW c \in Commands, NEW i, Linked(t, c, i)
    PROVE  Linked(t, c, i)'
  BY DEF Growing, Linked

LEMMA WholeGrows ==
    ASSUME Growing, NEW c \in Commands, c.id \in Ids, Whole(c)
    PROVE  Whole(c)'
  <1>1. CASE c.kind = "remember stm"
    <2>1. PICK t \in turns :
              /\ t.id = c.id
              /\ c.thread # None => \A i \in 1..Len(c.subjects) : Linked(t.n, c, i)
      BY <1>1 DEF Whole
    <2>2. c.thread # None => \A i \in 1..Len(c.subjects) : Linked(t.n, c, i)'
      BY <2>1, LinkedGrows
    <2>3. t \in turns'
      BY DEF Growing
    <2> QED
      BY <1>1, <2>1, <2>2, <2>3 DEF Whole
  <1>2. CASE c.kind # "remember stm"
    BY <1>2 DEF Whole, Growing
  <1> QED
    BY <1>1, <1>2

LEMMA MarkedGrows ==
    ASSUME Growing, StoresInv, Marked, ledger' \ undone' \subseteq ledger \ undone
    PROVE  Marked'
  <1> SUFFICES ASSUME NEW c \in Commands, c.id \in ledger' \ undone' PROVE Whole(c)'
    BY DEF Marked
  <1> QED
    BY WholeGrows DEF Marked, StoresInv, RestOK

LEMMA InitMarked == Init => MarkedInv
  BY DEF Init, MarkedInv, Marked, Underway, Held

\* The steps that change neither the stores nor the command in hand.
LEMMA MarkedKept ==
    ASSUME StoresInv, MarkedInv, UNCHANGED <<turns, anchors, about, facts, ltm>>,
           ledger' \ undone' \subseteq ledger \ undone,
           pc' \in Held => pc' = pc /\ C' = C /\ UNCHANGED <<turn, anchor, todo>>
    PROVE  MarkedInv'
  <1>1. Growing
    BY DEF Growing, ltm
  <1>2. Marked'
    BY <1>1, MarkedGrows DEF MarkedInv
  <1>3. ASSUME NEW c \in Commands, pc' \in Held, C' = c PROVE Partly(c)'
    <2>1. Partly(c) /\ pc' = pc /\ UNCHANGED <<turn, anchor, todo>>
      BY <1>3 DEF MarkedInv, Underway
    <2>2. UNCHANGED <<turns, anchors, about, facts, notes, filed>>
      BY DEF ltm
    <2>3. \A t, i : Linked(t, c, i)' = Linked(t, c, i)
      BY <2>2 DEF Linked
    <2>4. Remembering(c)' = Remembering(c)
      BY <2>1, <2>2, <2>3 DEF Remembering, RemainingIsLast, OthersLinked, Anchored
    <2> QED
      BY <2>1, <2>2, <2>4 DEF Partly
  <1> QED
    BY <1>2, <1>3 DEF MarkedInv, Underway

LEMMA IdleMarked ==
    ASSUME OffsetsInv, StoresInv, MarkedInv,
           \/ \E c \in Commands : Produce(c)
           \/ BrokerAnswers \/ Revoke \/ Assign \/ Expire \/ Shutdown
           \/ Start \/ Close \/ Probe \/ LeaveLoop \/ Exit \/ Settle \/ Receive
           \/ Crash \/ Fails \/ UNCHANGED vars
           \/ \E id \in Ids : SweepLedger(id)
           \/ \E a \in anchors : Archive(a)
    PROVE  MarkedInv'
  <1>1. UNCHANGED <<turns, anchors, about, facts, ltm>> /\ ledger' \ undone' \subseteq ledger \ undone
    BY DEF Produce, BrokerAnswers, Revoke, Assign, Expire, Shutdown, Start, Close, Probe,
           ReadEnd, PinAtEnd, ProbeFails, Probing, LeaveLoop, Exit, Settle, Receive, Take,
           Crash, Fails, SweepLedger, Archive, stm, record, vars
  <1>2. pc' \in Held => pc' = pc /\ hand' = hand /\ UNCHANGED <<turn, anchor, todo>>
    <2>1. CASE Receive
      BY <2>1 DEF Receive, Take, Held
    <2>2. CASE ~Receive
      BY <2>2 DEF Produce, BrokerAnswers, Revoke, Assign, Expire, Shutdown, Start, Close,
             Probe, ReadEnd, PinAtEnd, ProbeFails, Probing, LeaveLoop, Exit, ForgetMemory,
             Settle, Crash, Fails, SweepLedger, Archive, task, vars, Held
    <2> QED
      BY <2>1, <2>2
  <1>3. ASSUME pc' \in Held PROVE C' = C
    <2>1. CASE topic' = topic
      BY <1>2, <1>3, <2>1 DEF C
    <2>2. CASE \E c \in Commands : Produce(c)
      <3>1. pc \in Busy /\ hand' = hand
        BY <1>2, <1>3 DEF Held, Busy, Failing
      <3> QED
        BY <2>2, <3>1, InHand DEF Produce, C, OffsetsInv, OffsetsOK
    <2>3. topic' = topic \/ \E c \in Commands : Produce(c)
      BY DEF BrokerAnswers, Revoke, Assign, Expire, Shutdown, Start, Close, Probe,
             ReadEnd, PinAtEnd, ProbeFails, Probing, LeaveLoop, Exit, Settle, Receive,
             Take, Crash, Fails, Processing, SweepLedger, Archive, vars
    <2> QED
      BY <2>1, <2>2, <2>3
  <1> QED
    BY <1>1, <1>2, <1>3, MarkedKept

LEMMA CheckMarked ==
    ASSUME OffsetsInv, StoresInv, MarkedInv, Check
    PROVE  MarkedInv'
  <1>1. /\ UNCHANGED <<stm, ltm, ledger, undone>> /\ C' = C
        /\ pc' \in Held => pc' = "unlink" /\ C.kind = "forget"
    BY DEF Check, Dispatch, Processing, Held, C, record
  <1>2. Growing
    BY <1>1 DEF Growing, stm, ltm
  <1>3. Marked'
    BY <1>1, <1>2, MarkedGrows DEF MarkedInv
  <1>4. ASSUME NEW c \in Commands, pc' \in Held, C' = c PROVE Partly(c)'
    BY <1>1, <1>4 DEF Partly
  <1> QED
    BY <1>3, <1>4 DEF MarkedInv, Underway

\* The turn is stored; without subjects, or without a thread, that is all.
LEMMA StoreTurnMarked ==
    ASSUME OffsetsInv, StoresInv, MarkedInv, StoreTurn
    PROVE  MarkedInv'
  <1>1. /\ C' = C /\ C \in Command /\ C.kind = "remember stm"
        /\ turns' = turns \cup {[n |-> lastNode + 1, id |-> C.id]} /\ turn' = lastNode + 1
        /\ todo' = (IF C.thread = None THEN <<>> ELSE C.subjects)
        /\ pc' = (IF todo' = <<>> THEN "mark" ELSE "link")
        /\ UNCHANGED <<anchors, about, facts, ltm, ledger, undone>>
    BY InHand DEF StoreTurn, Processing, C, record, Busy, Failing
  <1>2. Growing
    BY <1>1 DEF Growing, ltm
  <1>3. Marked'
    BY <1>1, <1>2, MarkedGrows DEF MarkedInv
  <1>4. ASSUME NEW c \in Commands, C' = c PROVE Partly(c)'
    <2>1. /\ [n |-> lastNode + 1, id |-> c.id] \in turns' /\ turn' = lastNode + 1
          /\ c.kind = "remember stm"
      BY <1>1, <1>4
    <2>2. \E t \in turns' : t.n = turn' /\ t.id = c.id
      BY <2>1
    <2>3. ASSUME c.thread # None PROVE RemainingIsLast(c)' /\ OthersLinked(c)'
      <3>1. todo' = c.subjects
        BY <1>1, <1>4, <2>3
      <3>2. c.subjects \in Seq(Docs)
        BY <1>1, <1>4 DEF Command
      <3>3. Len(c.subjects) \in Nat /\ Len(c.subjects) <= Len(c.subjects)
        BY <3>2
      <3> QED
        BY <3>1, <3>3 DEF RemainingIsLast, OthersLinked
    <2>4. pc' \in {"mark", "link"} /\ (pc' = "mark" => todo' = <<>>)
      BY <1>1
    <2> QED
      BY <2>1, <2>2, <2>3, <2>4 DEF Partly, Remembering
  <1> QED
    BY <1>3, <1>4 DEF MarkedInv, Underway

\* The subject node is found or made before the edge to it.
LEMMA LinkSubjectMarked ==
    ASSUME OffsetsInv, StoresInv, MarkedInv, LinkSubject
    PROVE  MarkedInv'
  <1>1. /\ C' = C /\ pc \in {"link", "refresh"} /\ pc' \in {"refresh", "edge"}
        /\ UNCHANGED <<turn, todo, turns, about, facts, ltm, ledger, undone>>
        /\ anchors \subseteq anchors'
    BY DEF LinkSubject, FindSubject, RefreshSubject, CreateSubject, Linking, Processing, C,
           record
  <1>2. Growing
    BY <1>1 DEF Growing, ltm
  <1>3. Marked'
    BY <1>1, <1>2, MarkedGrows DEF MarkedInv
  <1>4. ASSUME NEW c \in Commands, C' = c PROVE Partly(c)'
    <2>1. c.kind = "remember stm" /\ Remembering(c)
      BY <1>1, <1>4 DEF MarkedInv, Underway, Held, Partly
    <2>2. \E a \in anchors' : a.n = anchor' /\ a.thread = c.thread /\ a.doc = Head(todo)
      <3>1. CASE CreateSubject
        <4>1. /\ anchor' = lastNode + 1
              /\ [n |-> lastNode + 1, thread |-> c.thread, doc |-> Head(todo),
                  ccl |-> c.ccl] \in anchors'
          BY <1>1, <1>4, <3>1 DEF CreateSubject
        <4> QED
          BY <4>1
      <3>2. CASE FindSubject
        <4>1. \E a \in Reusable : a.n = anchor'
          BY <3>2 DEF FindSubject
        <4> QED
          BY <1>1, <1>4, <4>1 DEF Reusable, Live
      <3>3. CASE RefreshSubject
        BY <1>1, <2>1, <3>3 DEF RefreshSubject, Remembering, Anchored
      <3> QED
        BY <3>1, <3>2, <3>3 DEF LinkSubject
    <2>3. c.thread # None => RemainingIsLast(c)' /\ OthersLinked(c)'
      BY <1>1, <1>2, <2>1, LinkedGrows DEF Remembering, RemainingIsLast, OthersLinked
    <2> QED
      BY <1>1, <2>1, <2>2, <2>3 DEF Partly, Remembering, Anchored
  <1> QED
    BY <1>3, <1>4 DEF MarkedInv, Underway

\* One more subject is linked.
LEMMA StoreEdgeMarked ==
    ASSUME OffsetsInv, StoresInv, MarkedInv, StoreEdge
    PROVE  MarkedInv'
  <1>1. /\ C' = C /\ C \in Command /\ pc = "edge" /\ pc' = (IF Len(todo) = 1 THEN "mark" ELSE "link")
        /\ about' = about \cup {<<turn, anchor>>} /\ todo' = Tail(todo)
        /\ UNCHANGED <<turn, turns, anchors, facts, ltm, ledger, undone>>
    BY InHand DEF StoreEdge, Processing, C, record, Busy, Failing
  <1>2. Growing
    BY <1>1 DEF Growing, ltm
  <1>3. Marked'
    BY <1>1, <1>2, MarkedGrows DEF MarkedInv
  <1>4. /\ todo \in Seq(Docs) /\ todo # <<>> /\ Len(todo) \in Nat /\ Len(todo) # 0
        /\ Len(todo') = Len(todo) - 1 /\ Head(todo) = todo[1]
        /\ \A j \in 1..Len(todo') : todo'[j] = todo[j + 1]
        /\ Len(todo) = 1 => todo' = <<>>
    <2>1. todo \in Seq(Docs) /\ todo # <<>>
      BY <1>1 DEF StoresInv, ScratchOK, Holding
    <2> QED
      BY <1>1, <2>1
  <1>5. ASSUME NEW c \in Commands, C' = c PROVE Partly(c)'
    <2>1. c.kind = "remember stm" /\ Remembering(c) /\ Anchored(c)
      BY <1>1, <1>5 DEF MarkedInv, Underway, Held, Partly, Remembering
    <2>2. c.subjects \in Seq(Docs) /\ Len(c.subjects) \in Nat
      BY <1>1, <1>5 DEF Command
    <2>3. ASSUME c.thread # None PROVE RemainingIsLast(c)' /\ OthersLinked(c)'
      <3>0. PICK n \in Nat, all \in Nat : n = Len(todo) /\ all = Len(c.subjects)
        BY <1>4, <2>2
      <3>1. /\ n <= all /\ Len(todo') = n - 1 /\ n # 0
            /\ \A j \in 1..n : todo[j] = c.subjects[all - n + j]
            /\ \A i \in 1..(all - n) : Linked(turn, c, i)
        BY <1>4, <2>1, <2>3, <3>0 DEF Remembering, RemainingIsLast, OthersLinked
      <3>2. ASSUME NEW j \in 1..Len(todo') PROVE todo'[j] = c.subjects[all - Len(todo') + j]
        <4>1. j + 1 \in 1..n /\ all - n + (j + 1) = all - (n - 1) + j
          BY <3>1
        <4> QED
          BY <1>4, <3>1, <4>1
      <3>4. PICK t : t = turn /\ turn' = t
        BY <1>1
      <3>3. ASSUME NEW i \in 1..(all - Len(todo')) PROVE Linked(t, c, i)'
        <4>1. CASE i \in 1..(all - n)
          BY <1>2, <3>1, <3>4, <4>1, LinkedGrows
        <4>2. CASE i \notin 1..(all - n)
          <5>1. i = all - n + 1
            BY <3>1, <4>2
          <5>2. c.subjects[i] = Head(todo)
            <6>1. 1 \in 1..n /\ all - n + 1 = i
              BY <3>1, <5>1
            <6> QED
              BY <1>4, <3>1, <6>1
          <5>3. PICK a \in anchors : a.n = anchor /\ a.thread = c.thread /\ a.doc = Head(todo)
            BY <2>1 DEF Anchored
          <5>4. a \in anchors' /\ <<t, a.n>> \in about' /\ a.doc = c.subjects[i]
            BY <1>1, <3>4, <5>2, <5>3
          <5> QED
            BY <5>3, <5>4 DEF Linked
        <4> QED
          BY <4>1, <4>2
      <3>5. \A i \in 1..(all - Len(todo')) : Linked(t, c, i)'
        BY <3>3
      <3>6. OthersLinked(c)'
        BY <3>0, <3>4, <3>5 DEF OthersLinked, Linked
      <3>7. RemainingIsLast(c)'
        <4>1. Len(todo') <= Len(c.subjects) /\ Len(c.subjects) = all
          BY <3>0, <3>1
        <4> QED
          BY <3>2, <4>1 DEF RemainingIsLast
      <3> QED
        BY <3>6, <3>7
    <2> QED
      BY <1>1, <1>4, <2>1, <2>3 DEF Partly, Remembering
  <1> QED
    BY <1>3, <1>5 DEF MarkedInv, Underway

\* The note is stored; the document leaves the long-term store.
LEMMA NoteMarked ==
    ASSUME OffsetsInv, StoresInv, MarkedInv, StoreNote \/ ForgetLtm
    PROVE  MarkedInv'
  <1>1. /\ C' = C /\ UNCHANGED <<stm, ledger, undone>> /\ pc' \in {"mark", "unfact"}
    BY DEF StoreNote, ForgetLtm, Processing, C, record
  <1>2. /\ C.id \in Ids
        /\ StoreNote => C.kind = "remember ltm" /\ pc' = "mark"
        /\ ForgetLtm => C.kind = "forget" /\ pc' = "unfact"
    <2>1. pc \in Writing /\ pc \in Busy
      BY DEF StoreNote, ForgetLtm, Writing, Busy, Failing
    <2>2. C \in Commands /\ C.id \in Ids
      BY <2>1, InHand DEF StoresInv, Holding
    <2>3. ForgetLtm => C.kind = "forget"
      BY <2>2 DEF ForgetLtm, MarkedInv, Underway, Held, Partly
    <2> QED
      BY <2>2, <2>3 DEF StoreNote, ForgetLtm
  <1>3. /\ StoreNote => filed' = filed /\ notes' = [notes EXCEPT ![C.id] = @ + 1]
        /\ ForgetLtm => notes' = notes /\ filed' = filed \ {C.doc}
    BY DEF StoreNote, ForgetLtm
  <1>4. /\ \A id \in Ids : notes[id] # 0 => notes'[id] # 0
        /\ StoreNote => notes'[C.id] # 0
    <2>1. notes \in [Ids -> Nat]
      BY DEF StoresInv, RestOK
    <2>2. CASE StoreNote
      <3>1. ASSUME NEW id \in Ids PROVE notes[id] \in Nat /\ notes'[id] \in {notes[id], notes[id] + 1}
        BY <1>2, <1>3, <2>1, <2>2
      <3>2. notes'[C.id] = notes[C.id] + 1 /\ notes[C.id] \in Nat
        BY <1>2, <1>3, <2>1, <2>2
      <3> QED
        BY <3>1, <3>2
    <2>3. CASE ForgetLtm /\ ~StoreNote
      BY <1>3, <2>3
    <2> QED
      BY <2>2, <2>3
  <1>5. Growing
    BY <1>1, <1>3, <1>4 DEF Growing, stm
  <1>6. Marked'
    BY <1>1, <1>5, MarkedGrows DEF MarkedInv
  <1>7. ASSUME NEW c \in Commands, C' = c PROVE Partly(c)'
    BY <1>1, <1>2, <1>3, <1>4, <1>7 DEF Partly
  <1> QED
    BY <1>6, <1>7 DEF MarkedInv, Underway

\* A document's nodes go; what other commands wrote about other documents stays.
LEMMA ForgetStmMarked ==
    ASSUME OffsetsInv, StoresInv, MarkedInv, ForgetStm
    PROVE  MarkedInv'
  <1>1. PICK f \in Commands : f = C /\ C' = f
    BY InHand DEF ForgetStm, Processing, C, Busy, Failing
  <1>2. /\ pc = "unfact" /\ pc' = "mark" /\ UNCHANGED <<turns, notes, filed, ledger>>
        /\ facts' = facts \ {f.doc} /\ anchors' = {a \in anchors : a.doc # f.doc}
        /\ about' = {e \in about : \E a \in anchors' : a.n = e[2]}
        /\ undone' = undone \cup
                         {c.id : c \in {d \in Commands :
                                          /\ d.id \in ledger
                                          /\ \E i \in DOMAIN d.subjects : d.subjects[i] = f.doc}}
    BY <1>1 DEF ForgetStm, ltm
  <1>3. f.kind = "forget" /\ Partly(f)
    BY <1>1, <1>2 DEF MarkedInv, Underway, Held, Partly
  <1>4. ASSUME NEW c \in Commands, c.id \in ledger' \ undone' PROVE Whole(c)'
    <2>1. /\ c.id \in Ids /\ Whole(c) /\ c.subjects \in Seq(Docs)
          /\ \A i \in DOMAIN c.subjects : c.subjects[i] # f.doc
      <3>1. c.id \in ledger /\ c.id \notin undone /\ c.id \in Ids
        BY <1>2, <1>4 DEF StoresInv, RestOK
      <3>2. Whole(c)
        BY <3>1 DEF MarkedInv, Marked
      <3>3. \A i \in DOMAIN c.subjects : c.subjects[i] # f.doc
        BY <1>2, <1>4, <3>1
      <3> QED
        BY <3>1, <3>2, <3>3, IdsOfWrites
    <2>2. CASE c.kind = "remember stm"
      <3>1. PICK t \in turns :
                /\ t.id = c.id
                /\ c.thread # None => \A i \in 1..Len(c.subjects) : Linked(t.n, c, i)
        BY <2>1, <2>2 DEF Whole
      <3>2. ASSUME c.thread # None, NEW i \in 1..Len(c.subjects) PROVE Linked(t.n, c, i)'
        <4>1. PICK a \in anchors :
                  a.doc = c.subjects[i] /\ a.thread = c.thread /\ <<t.n, a.n>> \in about
          BY <3>1, <3>2 DEF Linked
        <4>2. a \in anchors'
          BY <1>2, <2>1, <4>1
        <4>3. <<t.n, a.n>> \in about'
          BY <1>2, <4>1, <4>2
        <4> QED
          BY <4>1, <4>2, <4>3 DEF Linked
      <3> QED
        BY <1>2, <2>2, <3>1, <3>2 DEF Whole
    <2>3. CASE c.kind # "remember stm"
      BY <1>2, <2>1, <2>3 DEF Whole
    <2> QED
      BY <2>2, <2>3
  <1>5. ASSUME NEW c \in Commands, C' = c PROVE Partly(c)'
    BY <1>1, <1>2, <1>3, <1>5 DEF Partly
  <1> QED
    BY <1>4, <1>5 DEF MarkedInv, Marked, Underway

\* A command is marked when its effect is whole.
LEMMA MarkMarked ==
    ASSUME OffsetsInv, StoresInv, MarkedInv, Mark
    PROVE  MarkedInv'
  <1>1. PICK f \in Commands : f = C /\ f.id \in Ids
    BY InHand DEF Mark, StoresInv, Holding, Writing, Busy, Failing
  <1>2. /\ pc = "mark" /\ pc' \notin Held
        /\ ledger' = ledger \cup {f.id} /\ undone' = undone \ {f.id}
        /\ UNCHANGED <<stm, ltm>>
    BY <1>1 DEF Mark, Held
  <1>3. f.kind \in Writes /\ f.subjects \in Seq(Docs)
    BY <1>1, IdsOfWrites
  <1>4. Whole(f)
    <2>1. Partly(f)
      BY <1>1, <1>2 DEF MarkedInv, Underway, Held
    <2>2. CASE f.kind = "remember stm"
      <3>1. Remembering(f) /\ todo = <<>>
        BY <1>2, <2>1, <2>2 DEF Partly, Remembering
      <3>2. Len(f.subjects) - Len(todo) = Len(f.subjects)
        BY <1>3, <3>1
      <3> QED
        BY <2>2, <3>1, <3>2 DEF Whole, Remembering, OthersLinked
    <2>3. CASE f.kind # "remember stm"
      BY <1>2, <2>1, <2>3 DEF Whole, Partly
    <2> QED
      BY <2>2, <2>3
  <1>5. Growing
    BY <1>2 DEF Growing, stm, ltm
  <1>6. ASSUME NEW c \in Commands, c.id \in ledger' \ undone' PROVE Whole(c)'
    <2>1. CASE c.id = f.id
      BY <1>1, <1>4, <1>5, <2>1, IdsOfWrites, WholeGrows
    <2>2. CASE c.id # f.id
      <3>1. c.id \in ledger \ undone /\ c.id \in Ids
        BY <1>2, <1>6, <2>2 DEF StoresInv, RestOK
      <3> QED
        BY <1>5, <3>1, WholeGrows DEF MarkedInv, Marked
    <2> QED
      BY <2>1, <2>2
  <1> QED
    BY <1>2, <1>6 DEF MarkedInv, Marked, Underway

\* A wipe takes effects away, and what it takes is known to be undone.
LEMMA ResetMarked ==
    ASSUME OffsetsInv, StoresInv, MarkedInv, Reset
    PROVE  MarkedInv'
  <1>1. pc' \notin Held /\ ledger' = ledger
    BY DEF Reset, WipeStm, WipeLtm, Replayed, Held, record
  <1>2. ASSUME NEW c \in Commands, c.id \in ledger' \ undone' PROVE Whole(c)'
    <2>1. undone \subseteq undone'
      BY DEF Reset, WipeStm, WipeLtm, Replayed, record
    <2>2. c.id \in ledger /\ Whole(c) /\ c.id \in Ids
      BY <1>1, <1>2, <2>1 DEF MarkedInv, Marked, StoresInv, RestOK
    <2>3. CASE WipeStm
      <3>1. c.kind # "remember stm"
        BY <1>2, <2>2, <2>3 DEF WipeStm
      <3> QED
        BY <2>2, <2>3, <3>1 DEF WipeStm, Whole, ltm
    <2>4. CASE WipeLtm
      <3>1. c.kind # "remember ltm" /\ UNCHANGED <<turns, anchors, about, facts>> /\ filed' = {}
        BY <1>2, <2>2, <2>4 DEF WipeLtm, stm
      <3> QED
        BY <2>2, <3>1 DEF Whole, Linked
    <2>5. CASE Replayed
      <3>1. Growing
        BY <2>5 DEF Replayed, Growing, stm, ltm
      <3> QED
        BY <2>2, <3>1, WholeGrows
    <2> QED
      BY <2>3, <2>4, <2>5 DEF Reset
  <1> QED
    BY <1>1, <1>2 DEF MarkedInv, Marked, Underway

LEMMA NextMarked == OffsetsInv /\ StoresInv /\ MarkedInv /\ [Next]_vars => MarkedInv'
  BY IdleMarked, CheckMarked, StoreTurnMarked, LinkSubjectMarked, StoreEdgeMarked,
     NoteMarked, ForgetStmMarked, MarkMarked, ResetMarked
     DEF Next, CommandTask, Environment, Process, Remember, Forget

-----------------------------------------------------------------------------
\* What the ledger marks is stored until a reset or a forget takes it, and what
\* it has not forgotten is stored once unless its writing was broken off.
THEOREM LedgerKept == Spec => []LedgerHolds
  <1>1. OffsetsInv /\ StoresInv /\ OnceInv /\ MarkedInv => LedgerHolds
    <2> SUFFICES ASSUME OffsetsInv, StoresInv, OnceInv, MarkedInv PROVE LedgerHolds
      OBVIOUS
    <2>1. ASSUME NEW c \in Commands, c.id \in ledger \ undone PROVE Effect(c)
      BY <2>1, WholeIsEffect DEF MarkedInv, Marked, StoresInv, RestOK
    <2>2. ASSUME NEW id \in Ids \ (broken \cup swept) PROVE Copies(id) <= 1
      BY OneCopy DEF OnceInv
    <2> QED
      BY <2>1, <2>2 DEF LedgerHolds, MarkedIsStored, DuplicatesArePaidFor
  <1> QED
    BY <1>1, InitOnce, NextOnce, InitMarked, NextMarked, StoresInductive, PTL DEF Spec
=============================================================================
