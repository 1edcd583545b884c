-------------------------- MODULE McpServerProofs --------------------------
(***************************************************************************)
(* Theorems about McpServer, for every set of ids and names and every      *)
(* bound.                                                                  *)
(***************************************************************************)
EXTENDS McpServer, FiniteSetTheorems, TLAPS

Stations == {"plain", "call", "waiting", "queued", "running", "opening"}
Handler == [id : Ids, nth : Nat, at : Stations, ws : Names]

Flags == {started, closing, allow, gone, cutOff} \subseteq BOOLEAN
Typed ==
    /\ session \in {"open", "eof", "ended"}
    /\ phase \in {"starting", "serving", "draining", "settling", "done"}
    /\ owed \in [Ids -> 0..1] /\ asked \in [Ids -> Nat] /\ told \in [Ids -> Nat]
    /\ pool \subseteq Ids /\ handlers \subseteq Handler
    /\ outbox \subseteq Request /\ queue \in Seq(Request)
    /\ active \in Names /\ dirs \subseteq Names /\ reached \subseteq Names

\* Each request accepted has one reply: told, being written, or still to come
\* while its id is in flight.
Sent(i) == {r \in outbox : r.id = i}
ToCome(i) == IF i \in pool THEN 1 ELSE 0
Counted ==
    /\ IsFiniteSet(outbox)
    /\ \A i \in Ids : told[i] + Cardinality(Sent(i)) + ToCome(i) <= asked[i]

\* An id never cancelled is owed exactly the reply that is coming.
Tracked(i) ==
    /\ i \in pool => owed[i] = 1 /\ Sent(i) = {}
    /\ Sent(i) # {} => owed[i] = 1
    /\ \A r, s \in Sent(i) : r = s
    /\ gone \/ asked[i] = told[i] + owed[i]
Exact == \A i \in Ids \ cancelled : Tracked(i)

\* What the ends of the session and of the process left behind.
Ends ==
    /\ session = "ended" /\ ~cutOff /\ ~gone => AllSettled(owed)
    /\ how = "drained" => phase = "done" /\ AllSettled(owed)

\* A shutdown under way refuses calls, and past its first wait none is left.
Calls ==
    /\ phase \in {"draining", "settling"} => closing
    /\ phase = "settling" => InFlight = {}
Draining == CallsOut \/ RepliesOut \/ BudgetSpent

\* Nothing is open before the workspace is.
Leases ==
    /\ phase = "starting" =>
          active = Home /\ \A h \in handlers : h.at \in {"plain", "call", "waiting"}
    /\ OpenIsThere /\ Confined
    /\ ~allow => \A h \in Busy : h.ws = Home

\* A handler is told from another by the request it answers.
Turns ==
    /\ \A h \in handlers : h.nth <= asked[h.id]
    /\ \A g, h \in handlers : Asking(g) = Asking(h) => g = h
    /\ \A h \in Busy : MyTurn(h)

McpInv == Typed /\ Flags /\ Counted /\ Exact /\ Ends /\ Calls /\ Leases /\ Turns

-----------------------------------------------------------------------------
LEMMA InitMcp == Init => McpInv
  <1> SUFFICES ASSUME Init PROVE McpInv
    OBVIOUS
  <1> USE McpConstants
  <1>1. Flags
    BY Zenon DEF Init, Flags
  <1>2. Typed
    BY DEF Init, Typed
  <1>3. Counted
    <2>1. \A i \in Ids : Sent(i) = {} /\ ToCome(i) = 0 /\ told[i] = 0 /\ asked[i] = 0
      BY DEF Init, Sent, ToCome
    <2>2. IsFiniteSet(outbox) /\ Cardinality({}) = 0
      BY FS_EmptySet DEF Init
    <2> QED
      BY <2>1, <2>2 DEF Counted
  <1>4. Exact
    BY DEF Init, Exact, Tracked, Sent
  <1>5. Ends /\ Calls
    BY DEF Init, Ends, Calls
  <1>6. Leases /\ Turns
    BY DEF Init, Leases, Turns, Busy, OpenIsThere, Confined, Ready
  <1> QED
    BY <1>1, <1>2, <1>3, <1>4, <1>5, <1>6 DEF McpInv

\* What the run checks follows.
LEMMA InvIsEnough == McpInv => SessionIsSound /\ NoReplyLost
  <1> SUFFICES ASSUME McpInv PROVE SessionIsSound /\ NoReplyLost
    OBVIOUS
  <1> USE DEF McpInv
  <1>1. TypeOK
    <2>1. ASSUME NEW i \in Ids PROVE told[i] <= asked[i]
      <3>1. IsFiniteSet(Sent(i))
        BY FS_Subset DEF Counted, Sent
      <3>2. Cardinality(Sent(i)) \in Nat /\ ToCome(i) \in Nat
        BY <3>1, FS_CardinalityType DEF ToCome
      <3> QED
        BY <3>2 DEF Counted, Typed
    <2>2. \A h \in handlers : h.id \in Ids /\ h.ws \in Names
      BY DEF Typed, Handler
    <2>3. {dirs, reached} \subseteq SUBSET Names
      BY DEF Typed
    <2> QED
      BY <2>1, <2>2, <2>3 DEF TypeOK, Typed, Flags
  <1>2. OneAtATime
    <2> SUFFICES ASSUME NEW h \in Busy PROVE MyTurn(h) /\ \A g \in Busy : g = h
      BY DEF OneAtATime
    <2> QED
      BY DEF Turns, MyTurn, Busy
  <1>3. NoReplyLost
    <2> SUFFICES ASSUME session = "ended" \/ how = "drained", ~cutOff, ~gone,
                        NEW i \in Ids \ cancelled
                 PROVE  told[i] = asked[i]
      BY DEF NoReplyLost
    <2>1. owed[i] = 0
      BY DEF Ends, AllSettled
    <2>2. asked[i] = told[i] + owed[i]
      BY DEF Exact, Tracked
    <2> QED
      BY <2>1, <2>2 DEF Typed
  <1> QED
    BY <1>1, <1>2, <1>3 DEF SessionIsSound, Leases

-----------------------------------------------------------------------------
(***************************************************************************)
(* The replies.  Whatever else it does, a step hands a request over,       *)
(* cancels one, writes a reply, has a handler return, or leaves them be.   *)
(***************************************************************************)
replies == <<owed, pool, outbox, asked, told, cancelled>>

Returns(h) ==
    /\ h \in handlers /\ Return(h) /\ gone' = gone
Quiet == UNCHANGED replies /\ (gone => gone')
Replying ==
    \/ \E i \in Ids : Hand(i, "plain") \/ Hand(i, "call") \/ Cancel(i)
    \/ \E r \in outbox : Write(r)
    \/ \E h \in handlers : Returns(h)
    \/ Quiet

LEMMA HandlingReplies ==
    ASSUME NEW h \in handlers,
           \/ Enter(h) \/ LineUp(h) \/ TakeTurn(h) \/ Memory(h) \/ Mistake(h)
           \/ \E n \in Names : Create(h, n) \/ Export(h, n) \/ Delete(h, n) \/ BeginSwitch(h, n)
           \/ EndSwitch(h)
    PROVE  Returns(h) \/ Quiet
  <1> USE DEF Returns, Quiet, replies, NoFault, client
  <1>1. CASE Enter(h)
    <2>1. Return(h) \/ UNCHANGED <<pool, outbox, transport, history>>
      BY <1>1, Zenon DEF Enter
    <2>2. gone' = gone
      BY <1>1 DEF Enter
    <2> QED
      BY <2>1, <2>2 DEF transport, history
  <1>2. CASE LineUp(h)
    BY <1>2 DEF LineUp, transport, history
  <1>3. CASE TakeTurn(h)
    BY <1>3 DEF TakeTurn, transport, history
  <1>4. CASE Memory(h) \/ Mistake(h)
    BY <1>4 DEF Memory, Mistake, Finish
  <1>5. CASE \E n \in Names : Create(h, n) \/ Export(h, n) \/ Delete(h, n)
    BY <1>5 DEF Create, Export, Delete, Finish
  <1>6. CASE \E n \in Names : BeginSwitch(h, n)
    <2>1. UNCHANGED <<pool, outbox, queue, transport, history, server, workspace>> /\ NoFault
      BY <1>6, Zenon DEF BeginSwitch
    <2> QED
      BY <2>1 DEF transport, history
  <1>7. CASE EndSwitch(h)
    BY <1>7 DEF EndSwitch
  <1> QED
    BY <1>1, <1>2, <1>3, <1>4, <1>5, <1>6, <1>7

LEMMA NextReplies == [Next]_vars => Replying
  <1> SUFFICES ASSUME [Next]_vars PROVE Replying
    OBVIOUS
  <1> USE DEF Quiet, replies, NoFault, client, transport, rmcp, history
  <1>1. CASE Lines
    BY <1>1 DEF Lines, Refuse, StdinCloses, Ask, Call, Replying
  <1>2. CASE Writing
    BY <1>2 DEF Writing, Replying
  <1>3. CASE Handling
    BY <1>3, HandlingReplies DEF Handling, Replying
  <1>4. CASE SessionEnds \/ ReadFails
    BY <1>4 DEF SessionEnds, ReadFails, Replying
  <1>5. CASE ClientGoes
    BY <1>5 DEF ClientGoes, Replying
  <1>6. CASE Started
    BY <1>6 DEF Started, Idle, Replying
  <1>7. CASE ServeEnds \/ Signal
    BY <1>7 DEF ServeEnds, Signal, Shut, Idle, Replying
  <1>8. CASE Draining
    BY <1>8 DEF Draining, CallsOut, RepliesOut, BudgetSpent, Idle, Replying
  <1>9. CASE UNCHANGED vars
    BY <1>9 DEF vars, Replying
  <1> QED
    BY <1>1, <1>2, <1>3, <1>4, <1>5, <1>6, <1>7, <1>8, <1>9 DEF Next, Draining

\* One reply more or less in the outbox, and those of the other ids.
LEMMA Posted ==
    ASSUME Typed, IsFiniteSet(outbox), NEW i \in Ids, NEW h \in handlers,
           outbox' = outbox \cup {Asking(h)}
    PROVE  /\ IsFiniteSet(outbox')
           /\ i # h.id => Sent(i)' = Sent(i)
           /\ i = h.id => Sent(i)' = Sent(i) \cup {Asking(h)}
           /\ Cardinality(Sent(h.id)') <= Cardinality(Sent(h.id)) + 1
           /\ Cardinality(Sent(h.id)') \in Nat /\ Cardinality(Sent(i)) \in Nat
  <1>1. Asking(h).id = h.id
    BY DEF Asking
  <1>2. \A j : IsFiniteSet(Sent(j))
    BY FS_Subset DEF Sent
  <1>3. Sent(h.id)' = Sent(h.id) \cup {Asking(h)}
    BY <1>1 DEF Sent
  <1>4. Cardinality(Sent(h.id)) \in Nat /\ Cardinality(Sent(i)) \in Nat
    BY <1>2, FS_CardinalityType
  <1>5. Cardinality(Sent(h.id)') \in {Cardinality(Sent(h.id)), Cardinality(Sent(h.id)) + 1}
    BY <1>2, <1>3, FS_AddElement
  <1>6. i # h.id => Sent(i)' = Sent(i)
    BY <1>1 DEF Sent
  <1>7. IsFiniteSet(outbox')
    BY FS_AddElement
  <1> QED
    BY <1>3, <1>4, <1>5, <1>6, <1>7

LEMMA Taken ==
    ASSUME Typed, IsFiniteSet(outbox), NEW i \in Ids, NEW r \in outbox, outbox' = outbox \ {r}
    PROVE  /\ IsFiniteSet(outbox')
           /\ Sent(i)' = Sent(i) \ {r}
           /\ i # r.id => Sent(i)' = Sent(i)
           /\ Cardinality(Sent(r.id)') = Cardinality(Sent(r.id)) - 1
           /\ Cardinality(Sent(r.id)) \in Nat
  <1>1. \A j : Sent(j)' = Sent(j) \ {r}
    BY DEF Sent
  <1>2. i # r.id => Sent(i)' = Sent(i)
    BY <1>1 DEF Sent
  <1>3. \A j : IsFiniteSet(Sent(j))
    BY FS_Subset DEF Sent
  <1>4. r \in Sent(r.id)
    BY DEF Sent
  <1>5. Cardinality(Sent(r.id)) \in Nat
    BY <1>3, FS_CardinalityType
  <1>6. Cardinality(Sent(r.id)') = Cardinality(Sent(r.id)) - 1
    BY <1>1, <1>3, <1>4, FS_RemoveElement
  <1>7. IsFiniteSet(outbox')
    BY FS_RemoveElement
  <1> QED
    BY <1>1, <1>2, <1>5, <1>6, <1>7

LEMMA Sizes ==
    ASSUME Counted, NEW i \in Ids PROVE Cardinality(Sent(i)) \in Nat
  <1>1. IsFiniteSet(Sent(i))
    BY FS_Subset DEF Counted, Sent
  <1> QED
    BY <1>1, FS_CardinalityType

LEMMA CountedStep ==
    ASSUME Typed, Counted, [Next]_vars PROVE Counted'
  <1> DEFINE Sum(i) == told[i] + Cardinality(Sent(i)) + ToCome(i) <= asked[i]
  <1> USE DEF Typed, ToCome
  <1>1. ASSUME NEW i \in Ids, Hand(i, "plain") \/ Hand(i, "call") PROVE Counted'
    <2>1. outbox' = outbox /\ told' = told /\ pool' = pool \cup {i}
          /\ asked' = [asked EXCEPT ![i] = @ + 1]
      BY <1>1 DEF Hand
    <2>2. ASSUME NEW j \in Ids PROVE Sum(j)'
      <3>1. Sent(j)' = Sent(j) /\ Cardinality(Sent(j)) \in Nat
        BY <2>1, Sizes DEF Sent
      <3>2. Sum(j)
        BY DEF Counted
      <3> QED
        BY <2>1, <3>1, <3>2
    <2> QED
      BY <2>1, <2>2 DEF Counted
  <1>2. ASSUME NEW i \in Ids, Cancel(i) PROVE Counted'
    <2>1. outbox' = outbox /\ told' = told /\ pool' = pool \ {i} /\ asked' = asked
      BY <1>2 DEF Cancel
    <2>2. ASSUME NEW j \in Ids PROVE Sum(j)'
      <3>1. Sent(j)' = Sent(j) /\ Cardinality(Sent(j)) \in Nat
        BY <2>1, Sizes DEF Sent
      <3>2. Sum(j)
        BY DEF Counted
      <3> QED
        BY <2>1, <3>1, <3>2
    <2> QED
      BY <2>1, <2>2 DEF Counted
  <1>3. ASSUME NEW r \in outbox, Write(r) PROVE Counted'
    <2>1. r.id \in Ids
      BY DEF Request
    <2>2. outbox' = outbox \ {r} /\ pool' = pool /\ asked' = asked
          /\ told' = [told EXCEPT ![r.id] = IF gone THEN @ ELSE @ + 1]
      BY <1>3 DEF Write
    <2>3. ASSUME NEW j \in Ids PROVE Sum(j)'
      <3>1. Sum(j)
        BY DEF Counted
      <3>2. CASE j = r.id
        BY <2>1, <2>2, <3>1, <3>2, Taken DEF Counted
      <3>3. CASE j # r.id
        <4>1. Sent(j)' = Sent(j) /\ Cardinality(Sent(j)) \in Nat
          BY <2>2, <3>3, Taken, Sizes DEF Counted
        <4> QED
          BY <2>2, <3>1, <3>3, <4>1
      <3> QED
        BY <3>2, <3>3
    <2>4. IsFiniteSet(outbox')
      BY <2>1, <2>2, Taken DEF Counted
    <2> QED
      BY <2>3, <2>4 DEF Counted
  <1>4. ASSUME NEW h \in handlers, Returns(h) PROVE Counted'
    <2>1. h.id \in Ids
      BY DEF Handler
    <2>2. asked' = asked /\ told' = told
      BY <1>4 DEF Returns, Return, history
    <2>3. CASE outbox' = outbox
      <3>1. pool' \subseteq pool
        BY <1>4 DEF Returns, Return
      <3>2. ASSUME NEW j \in Ids PROVE Sum(j)'
        <4>1. Sent(j)' = Sent(j) /\ Cardinality(Sent(j)) \in Nat
          BY <2>3, Sizes DEF Sent
        <4>2. Sum(j)
          BY DEF Counted
        <4> QED
          BY <2>2, <3>1, <4>1, <4>2
      <3> QED
        BY <2>3, <3>2 DEF Counted
    <2>4. CASE outbox' # outbox
      <3>1. outbox' = outbox \cup {Asking(h)} /\ h.id \in pool /\ pool' = pool \ {h.id}
        BY <1>4, <2>4 DEF Returns, Return
      <3>2. ASSUME NEW j \in Ids PROVE Sum(j)'
        <4>1. Sum(j)
          BY DEF Counted
        <4>2. CASE j = h.id
          BY <2>1, <2>2, <3>1, <4>1, <4>2, Posted DEF Counted
        <4>3. CASE j # h.id
          <5>1. Sent(j)' = Sent(j) /\ Cardinality(Sent(j)) \in Nat
            BY <3>1, <4>3, Posted, Sizes DEF Counted
          <5> QED
            BY <2>2, <3>1, <4>1, <4>3, <5>1
        <4> QED
          BY <4>2, <4>3
      <3>3. IsFiniteSet(outbox')
        BY <2>1, <3>1, Posted DEF Counted
      <3> QED
        BY <3>2, <3>3 DEF Counted
    <2> QED
      BY <2>3, <2>4
  <1>5. CASE Quiet
    BY <1>5 DEF Quiet, replies, Counted, Sent
  <1> QED
    BY <1>1, <1>2, <1>3, <1>4, <1>5, NextReplies DEF Replying

LEMMA ExactStep ==
    ASSUME Typed, Flags, Exact, [Next]_vars PROVE Exact'
  <1> USE DEF Typed
  <1>1. ASSUME NEW i \in Ids, Hand(i, "plain") \/ Hand(i, "call") PROVE Exact'
    <2>1. /\ owed[i] = 0
          /\ owed' = [owed EXCEPT ![i] = @ + 1] /\ asked' = [asked EXCEPT ![i] = @ + 1]
          /\ pool' = pool \cup {i} /\ outbox' = outbox /\ told' = told
          /\ cancelled' = cancelled /\ gone' = gone
      BY <1>1 DEF Hand, InUse, NoFault, client
    <2>2. \A j \in Ids : Sent(j)' = Sent(j)
      BY <2>1 DEF Sent
    <2> QED
      BY <2>1, <2>2 DEF Exact, Tracked
  <1>2. ASSUME NEW i \in Ids, Cancel(i) PROVE Exact'
    <2>1. /\ owed' = Settle(owed, i) /\ pool' = pool \ {i} /\ outbox' = outbox
          /\ asked' = asked /\ told' = told
          /\ cancelled' = cancelled \cup {i} /\ gone' = gone
      BY <1>2 DEF Cancel, NotOwed, NoFault, client
    <2>2. \A j \in Ids : Sent(j)' = Sent(j)
      BY <2>1 DEF Sent
    <2> QED
      BY <2>1, <2>2 DEF Exact, Tracked, Settle
  <1>3. ASSUME NEW r \in outbox, Write(r) PROVE Exact'
    <2>1. r.id \in Ids /\ r \in Sent(r.id)
      BY DEF Request, Sent
    <2>2. /\ outbox' = outbox \ {r} /\ pool' = pool /\ asked' = asked
          /\ told' = [told EXCEPT ![r.id] = IF gone THEN @ ELSE @ + 1]
          /\ owed' = Settle(owed, r.id) /\ cancelled' = cancelled /\ gone' = gone
      BY <1>3 DEF Write, NoFault, client
    <2>3. \A j \in Ids : Sent(j)' = Sent(j) \ {r}
      BY <2>2 DEF Sent
    <2>4. ASSUME NEW j \in Ids \ cancelled PROVE Tracked(j)'
      <3>1. Tracked(j)
        BY DEF Exact
      <3>2. CASE j = r.id
        <4>1. owed[j] = 1 /\ j \notin pool /\ Sent(j)' = {}
          BY <2>1, <2>3, <3>1, <3>2 DEF Tracked
        <4>2. owed'[j] = 0
          BY <2>2, <3>2, <4>1 DEF Settle
        <4>3. gone' \/ asked'[j] = told'[j] + owed'[j]
          BY <2>2, <3>1, <3>2, <4>1, <4>2 DEF Tracked
        <4> QED
          BY <2>2, <4>1, <4>3 DEF Tracked
      <3>3. CASE j # r.id
        <4>1. owed'[j] = owed[j] /\ told'[j] = told[j]
          BY <2>1, <2>2, <3>3 DEF Settle
        <4>2. Sent(j)' = Sent(j)
          BY <2>3, <3>3 DEF Sent
        <4> QED
          BY <2>2, <3>1, <4>1, <4>2 DEF Tracked
      <3> QED
        BY <3>2, <3>3
    <2> QED
      BY <2>2, <2>4 DEF Exact
  <1>4. ASSUME NEW h \in handlers, Returns(h) PROVE Exact'
    <2>1. h.id \in Ids /\ Asking(h).id = h.id
      BY DEF Handler, Asking
    <2>2. /\ asked' = asked /\ told' = told /\ owed' = owed /\ cancelled' = cancelled
          /\ gone' = gone
      BY <1>4 DEF Returns, Return, history, transport
    <2>3. CASE outbox' = outbox
      <3>1. pool' \subseteq pool /\ \A j \in Ids : Sent(j)' = Sent(j)
        BY <1>4, <2>3 DEF Returns, Return, Sent
      <3> QED
        BY <2>2, <3>1 DEF Exact, Tracked
    <2>4. CASE outbox' # outbox
      <3>1. outbox' = outbox \cup {Asking(h)} /\ h.id \in pool /\ pool' = pool \ {h.id}
        BY <1>4, <2>4 DEF Returns, Return
      <3>2. ASSUME NEW j \in Ids \ cancelled PROVE Tracked(j)'
        <4>1. Tracked(j)
          BY DEF Exact
        <4>2. CASE j = h.id
          <5>1. owed[j] = 1 /\ Sent(j)' = {Asking(h)}
            BY <2>1, <3>1, <4>1, <4>2 DEF Tracked, Sent
          <5> QED
            BY <2>2, <3>1, <4>1, <4>2, <5>1 DEF Tracked
        <4>3. CASE j # h.id
          <5>1. Sent(j)' = Sent(j)
            BY <2>1, <3>1, <4>3 DEF Sent
          <5> QED
            BY <2>2, <3>1, <4>1, <4>3, <5>1 DEF Tracked
        <4> QED
          BY <4>2, <4>3
      <3> QED
        BY <2>2, <3>2 DEF Exact
    <2> QED
      BY <2>3, <2>4
  <1>5. CASE Quiet
    BY <1>5 DEF Quiet, replies, Exact, Tracked, Sent
  <1> QED
    BY <1>1, <1>2, <1>3, <1>4, <1>5, NextReplies DEF Replying

-----------------------------------------------------------------------------
(***************************************************************************)
(* The types.                                                              *)
(***************************************************************************)
LEMMA ReturnTyped ==
    ASSUME Typed, NEW h \in handlers, Return(h)
    PROVE  /\ pool' \subseteq Ids /\ handlers' \subseteq Handler /\ outbox' \subseteq Request
           /\ UNCHANGED <<session, started, owed, asked, told, cancelled>>
  <1>1. Asking(h) \in Request
    BY DEF Typed, Handler, Asking, Request
  <1> QED
    BY <1>1 DEF Return, Typed, transport, history

LEMMA MovedTyped ==
    ASSUME Typed, NEW h \in handlers, NEW at \in Stations, NEW ws \in Names,
           \/ Moved(h, [h EXCEPT !.at = at])
           \/ Moved(h, [h EXCEPT !.at = at, !.ws = ws])
    PROVE  handlers' \subseteq Handler
  <1>1. h \in Handler
    BY DEF Typed
  <1>2. [h EXCEPT !.at = at] \in Handler /\ [h EXCEPT !.at = at, !.ws = ws] \in Handler
    BY <1>1 DEF Handler
  <1> QED
    BY <1>2 DEF Moved, Typed

\* The first in line has left it.
LEMMA TailTyped ==
    ASSUME Typed, queue # <<>> PROVE Tail(queue) \in Seq(Request)
  BY DEF Typed

LEMMA HandlingTyped ==
    ASSUME Typed, Turns, NEW h \in handlers,
           \/ Enter(h) \/ LineUp(h) \/ TakeTurn(h) \/ Memory(h) \/ Mistake(h)
           \/ \E n \in Names : Create(h, n) \/ Export(h, n) \/ Delete(h, n) \/ BeginSwitch(h, n)
           \/ EndSwitch(h)
    PROVE  Typed'
  <1> DEFINE Rest == UNCHANGED <<phase, active, dirs, reached>>
             Kept == UNCHANGED <<pool, outbox, queue, session, started, owed, asked, told>>
             Left == Return(h) /\ queue' = Tail(queue) /\ queue # <<>> /\ phase' = phase
  <1>0. Stations = {"plain", "call", "waiting", "queued", "running", "opening"}
        /\ h.ws \in Names /\ active \in Names /\ Asking(h) \in Request
    BY DEF Stations, Typed, Handler, Asking, Request
  <1>1. ASSUME Left, active' \in Names, dirs' \subseteq Names, reached' \subseteq Names
        PROVE  Typed'
    BY <1>1, ReturnTyped, TailTyped DEF Typed
  <1>2. ASSUME handlers' \subseteq Handler, Kept, Rest PROVE Typed'
    BY <1>2 DEF Typed
  <1>3. h \in Busy => queue # <<>>
    BY DEF Turns, MyTurn
  <1>4. Running(h) => h \in Busy
    BY DEF Running, Alive, Busy
  <1>5. CASE Enter(h)
    <2>1. Rest
      BY <1>5 DEF Enter, server, workspace
    <2>2. CASE Return(h) /\ UNCHANGED queue
      BY <2>1, <2>2, ReturnTyped DEF Typed
    <2>3. CASE /\ Moved(h, [h EXCEPT !.at = "waiting"])
               /\ UNCHANGED <<pool, outbox, queue, transport, history>>
      BY <1>0, <1>2, <2>1, <2>3, MovedTyped DEF transport, history
    <2> QED
      BY <1>5, <2>2, <2>3, Zenon DEF Enter
  <1>6. CASE LineUp(h)
    <2>1. handlers' \subseteq Handler
      BY <1>0, <1>6, MovedTyped DEF LineUp
    <2> QED
      BY <1>0, <1>6, <2>1 DEF LineUp, Typed, transport, history, server, workspace
  <1>7. CASE TakeTurn(h)
    <2>1. Rest
      BY <1>7 DEF TakeTurn, server, workspace
    <2>2. CASE Return(h) /\ queue' = Tail(queue)
      BY <1>0, <1>1, <1>7, <2>1, <2>2 DEF TakeTurn, MyTurn, Typed
    <2>3. CASE /\ Moved(h, [h EXCEPT !.at = "running", !.ws = active])
               /\ UNCHANGED <<pool, outbox, queue, transport, history>>
      BY <1>0, <1>2, <2>1, <2>3, MovedTyped DEF transport, history
    <2> QED
      BY <1>7, <2>2, <2>3, Zenon DEF TakeTurn
  <1>8. CASE Memory(h) \/ Mistake(h)
    BY <1>0, <1>1, <1>3, <1>4, <1>8 DEF Memory, Mistake, Finish, server, workspace, Typed
  <1>9. CASE \E n \in Names : Create(h, n) \/ Export(h, n) \/ Delete(h, n)
    BY <1>0, <1>1, <1>3, <1>4, <1>9 DEF Create, Export, Delete, Finish, server, workspace, Typed
  <1>10. CASE \E n \in Names : BeginSwitch(h, n)
    <2>1. PICK n \in Names : BeginSwitch(h, n)
      BY <1>10
    <2>2. UNCHANGED <<pool, outbox, queue, transport, history, server, workspace>>
      BY <2>1, Zenon DEF BeginSwitch
    <2>3. handlers' \subseteq Handler
      BY <1>0, <2>1, MovedTyped DEF BeginSwitch
    <2> QED
      BY <1>2, <2>2, <2>3 DEF transport, history, server, workspace
  <1>11. CASE EndSwitch(h)
    <2>1. Left
      BY <1>3, <1>11 DEF EndSwitch, Busy, server
    <2>2. active' \in Names /\ dirs' \subseteq Names /\ reached' \subseteq Names
      BY <1>0, <1>11 DEF EndSwitch, Typed
    <2> QED
      BY <1>1, <2>1, <2>2
  <1> QED
    BY <1>5, <1>6, <1>7, <1>8, <1>9, <1>10, <1>11

LEMMA TypedStep ==
    ASSUME Typed, Turns, [Next]_vars PROVE Typed'
  <1> USE McpConstants
  <1>1. CASE Refuse \/ StdinCloses
    BY <1>1 DEF Refuse, StdinCloses, Typed, rmcp, server, workspace, history
  <1>2. ASSUME NEW i \in Ids, Ask(i) \/ Call(i) PROVE Typed'
    <2>1. PICK kind \in Stations : Hand(i, kind)
      BY <1>2 DEF Ask, Call, Stations
    <2>2. [id |-> i, nth |-> asked[i] + 1, at |-> kind, ws |-> Home] \in Handler
      BY DEF Typed, Handler
    <2>3. handlers' \subseteq Handler
      BY <2>1, <2>2 DEF Hand, Typed
    <2>4. /\ owed[i] \in 0..1 /\ ~(owed[i] > 0)
          /\ owed' = [owed EXCEPT ![i] = owed[i] + 1]
          /\ asked' = [asked EXCEPT ![i] = asked[i] + 1] /\ asked[i] \in Nat
      BY <2>1 DEF Hand, InUse, Typed
    <2>5. owed[i] + 1 \in 0..1 /\ asked[i] + 1 \in Nat
      BY <2>4
    <2>6. owed' \in [Ids -> 0..1] /\ asked' \in [Ids -> Nat]
      BY <2>4, <2>5 DEF Typed
    <2> QED
      BY <2>1, <2>3, <2>6 DEF Hand, Typed, server, workspace
  <1>3. ASSUME NEW i \in Ids, Cancel(i) PROVE Typed'
    <2>1. owed' \in [Ids -> 0..1]
      BY <1>3 DEF Cancel, NotOwed, Settle, Typed
    <2> QED
      BY <1>3, <2>1 DEF Cancel, Typed, server, workspace
  <1>4. ASSUME NEW r \in outbox, Write(r) PROVE Typed'
    <2>1. r.id \in Ids
      BY DEF Typed, Request
    <2>2. owed' \in [Ids -> 0..1]
      BY <1>4, <2>1 DEF Write, Settle, Typed
    <2>3. told' = told \/ told' = [told EXCEPT ![r.id] = told[r.id] + 1]
      BY <1>4, <2>1 DEF Write, Typed
    <2>4. told' \in [Ids -> Nat]
      BY <2>1, <2>3 DEF Typed
    <2> QED
      BY <1>4, <2>2, <2>4 DEF Write, Typed, server, workspace
  <1>5. CASE Handling
    BY <1>5, HandlingTyped DEF Handling
  <1>6. CASE SessionEnds \/ ReadFails
    BY <1>6 DEF SessionEnds, ReadFails, Typed, rmcp, server, workspace, history
  <1>7. CASE ClientGoes
    BY <1>7 DEF ClientGoes, Typed, transport, rmcp, server, workspace, history
  <1>8. CASE Started
    BY <1>8 DEF Started, Done, Idle, Typed, transport, rmcp, history
  <1>9. CASE ServeEnds \/ Signal
    BY <1>9 DEF ServeEnds, Signal, Shut, Done, Idle, Typed, transport, rmcp, history, workspace
  <1>10. CASE Draining
    BY <1>10 DEF Draining, CallsOut, RepliesOut, BudgetSpent, Done, Idle, Typed, transport, rmcp, history, workspace
  <1>11. CASE UNCHANGED vars
    BY <1>11 DEF vars, Typed, transport, rmcp, history, server, workspace
  <1> QED
    BY <1>1, <1>2, <1>3, <1>4, <1>5, <1>6, <1>7, <1>8, <1>9, <1>10, <1>11
    DEF Next, Lines, Writing, Draining

LEMMA FlagsStep ==
    ASSUME Flags, [Next]_vars PROVE Flags'
  <1> DEFINE Same == UNCHANGED <<started, closing, allow, gone, cutOff>>
  <1>1. CASE Lines
    <2>1. started' \in {started, TRUE} /\ UNCHANGED <<closing, allow, gone, cutOff>>
      BY <1>1 DEF Lines, Refuse, StdinCloses, Ask, Call, Hand, Cancel,
                  NoFault, server, workspace, client
    <2> QED
      BY <2>1, Zenon DEF Flags
  <1>2. CASE Writing
    <2>1. Same
      BY <1>2 DEF Writing, Write, NoFault, server, workspace, client
    <2> QED
      BY <2>1, Zenon DEF Flags
  <1>3. CASE Handling
    <2> SUFFICES Same
      BY Zenon DEF Flags
    <2> PICK h \in handlers :
           \/ Enter(h) \/ LineUp(h) \/ TakeTurn(h) \/ Memory(h) \/ Mistake(h)
           \/ \E n \in Names : Create(h, n) \/ Export(h, n) \/ Delete(h, n) \/ BeginSwitch(h, n)
           \/ EndSwitch(h)
      BY <1>3 DEF Handling
    <2> USE DEF NoFault, server, client
    <2>1. CASE Enter(h)
      <3>1. Return(h) \/ UNCHANGED <<pool, outbox, queue, transport, history>>
        BY <2>1, Zenon DEF Enter
      <3> QED
        BY <2>1, <3>1 DEF Enter, Return, workspace, transport
    <2>2. CASE LineUp(h)
      BY <2>2 DEF LineUp, workspace, transport
    <2>3. CASE TakeTurn(h)
      <3>1. Return(h) \/ UNCHANGED <<pool, outbox, queue, transport, history>>
        BY <2>3, Zenon DEF TakeTurn
      <3> QED
        BY <2>3, <3>1 DEF TakeTurn, Return, workspace, transport
    <2>4. CASE Memory(h) \/ Mistake(h)
      BY <2>4 DEF Memory, Mistake, Finish, Return, workspace, transport
    <2>5. CASE \E n \in Names : Create(h, n) \/ Export(h, n) \/ Delete(h, n)
      BY <2>5 DEF Create, Export, Delete, Finish, Return, transport
    <2>6. CASE \E n \in Names : BeginSwitch(h, n)
      <3>1. UNCHANGED <<pool, outbox, queue, transport, history, server, workspace>> /\ NoFault
        BY <2>6, Zenon DEF BeginSwitch
      <3> QED
        BY <3>1 DEF workspace, transport
    <2>7. CASE EndSwitch(h)
      BY <2>7 DEF EndSwitch, Return, transport
    <2> QED
      BY <2>1, <2>2, <2>3, <2>4, <2>5, <2>6, <2>7
  <1>4. CASE SessionEnds \/ ReadFails \/ ClientGoes
    <2>1. cutOff' \in {cutOff, TRUE, cutOff \/ \E i \in Ids : owed[i] > 0}
          /\ gone' \in {gone, TRUE} /\ UNCHANGED <<started, closing, allow>>
      BY <1>4 DEF SessionEnds, ReadFails, ClientGoes, NoFault, server, workspace, transport, client
    <2> QED
      BY <2>1, Zenon DEF Flags
  <1>5. CASE Started \/ ServeEnds \/ Signal \/ Draining
    <2>1. closing' \in {closing, TRUE} /\ UNCHANGED <<started, allow, gone, cutOff>>
      BY <1>5 DEF Started, ServeEnds, Signal, Draining, CallsOut, RepliesOut, BudgetSpent, Shut, Done, Idle, NoFault,
                  workspace, transport, client
    <2> QED
      BY <2>1, Zenon DEF Flags
  <1>6. CASE UNCHANGED vars
    <2>1. Same
      BY <1>6 DEF vars, transport, server, workspace, client
    <2> QED
      BY <2>1, Zenon DEF Flags
  <1> QED
    BY <1>1, <1>2, <1>3, <1>4, <1>5, <1>6 DEF Next, Draining

-----------------------------------------------------------------------------
(***************************************************************************)
(* The ends of the session and of the process.                             *)
(***************************************************************************)
\* A process that is done does nothing more.
LEMMA DoneStays ==
    ASSUME phase = "done", [Next]_vars PROVE UNCHANGED vars
  <1>1. ~Lines
    BY DEF Lines, Refuse, StdinCloses, Ask, Call, Hand, Cancel, Reading
  <1>2. ~Handling
    BY DEF Handling, Enter, LineUp, TakeTurn, Memory, Mistake, Create, Export, Delete,
           BeginSwitch, EndSwitch, Running, Alive
  <1>3. ~Writing /\ ~SessionEnds /\ ~ReadFails /\ ~ClientGoes
    BY DEF Writing, Write, SessionEnds, ReadFails, ClientGoes, Reading
  <1>4. ~Started /\ ~ServeEnds /\ ~Signal /\ ~CallsOut /\ ~RepliesOut /\ ~BudgetSpent
    BY DEF Started, ServeEnds, Signal, Shut, CallsOut, RepliesOut, BudgetSpent
  <1> QED
    BY <1>1, <1>2, <1>3, <1>4 DEF Next

\* Only a drain that saw every reply written ends as drained.
LEMMA DrainStep ==
    ASSUME [Next]_vars
    PROVE  \/ how' = how /\ (phase' = phase \/ phase # "done")
           \/ how' # "drained"
           \/ AllSettled(owed) /\ phase' = "done" /\ UNCHANGED owed
  <1>1. CASE Lines
    BY <1>1 DEF Lines, Refuse, StdinCloses, Ask, Call, Hand, Cancel, server
  <1>2. CASE Writing
    BY <1>2 DEF Writing, Write, server
  <1>3. CASE Handling
    <2> PICK h \in handlers :
           \/ Enter(h) \/ LineUp(h) \/ TakeTurn(h) \/ Memory(h) \/ Mistake(h)
           \/ \E n \in Names : Create(h, n) \/ Export(h, n) \/ Delete(h, n) \/ BeginSwitch(h, n)
           \/ EndSwitch(h)
      BY <1>3 DEF Handling
    <2>1. UNCHANGED server
      BY DEF Enter, LineUp, TakeTurn, Memory, Mistake, Create, Export, Delete, Finish,
             BeginSwitch, EndSwitch
    <2> QED
      BY <2>1 DEF server
  <1>4. CASE SessionEnds \/ ReadFails \/ ClientGoes
    BY <1>4 DEF SessionEnds, ReadFails, ClientGoes, server
  <1>5. CASE Started
    BY <1>5 DEF Started, Done
  <1>6. CASE ServeEnds \/ Signal
    BY <1>6 DEF ServeEnds, Signal, Shut, Done
  <1>7. CASE Draining
    BY <1>7 DEF Draining, CallsOut, RepliesOut, BudgetSpent, Done, Idle, transport
  <1>8. CASE UNCHANGED vars
    BY <1>8 DEF vars, server
  <1> QED
    BY <1>1, <1>2, <1>3, <1>4, <1>5, <1>6, <1>7, <1>8 DEF Next, Draining

\* What is settled stays so once the transport reads no more.
LEMMA SettledStays ==
    ASSUME Typed, AllSettled(owed), session # "open", [Next]_vars PROVE AllSettled(owed)'
  <1>1. ASSUME NEW i \in Ids, Hand(i, "plain") \/ Hand(i, "call") \/ Cancel(i) PROVE FALSE
    BY <1>1 DEF Hand, Cancel, Reading
  <1>2. ASSUME NEW r \in outbox, Write(r) PROVE AllSettled(owed)'
    BY <1>2 DEF Write, Settle, AllSettled, Typed
  <1>3. ASSUME NEW h \in handlers, Returns(h) PROVE AllSettled(owed)'
    BY <1>3 DEF Returns, Return, AllSettled, transport
  <1>4. CASE Quiet
    BY <1>4 DEF Quiet, replies, AllSettled
  <1> QED
    BY <1>1, <1>2, <1>3, <1>4, NextReplies DEF Replying

\* The session ends with nothing owed, cut off or with the client gone, and stays ended.
LEMMA SessionStep ==
    ASSUME Typed, [Next]_vars
    PROVE  /\ gone => gone'
           /\ cutOff => cutOff'
           /\ \/ session' = session
              \/ session' # "ended"
              \/ gone' \/ cutOff'
              \/ AllSettled(owed) /\ owed' = owed
  <1> USE DEF NoFault, client
  <1>1. CASE Lines
    <2>1. UNCHANGED <<cutOff, gone>>
      BY <1>1 DEF Lines, Refuse, StdinCloses, Ask, Call, Hand, Cancel
    <2>2. session' = session \/ session' = "eof" \/ gone
      BY <1>1 DEF Lines, Refuse, StdinCloses, Ask, Call, Hand, Cancel
    <2> QED
      BY <2>1, <2>2
  <1>2. CASE Writing
    BY <1>2 DEF Writing, Write
  <1>3. CASE Handling
    <2> PICK h \in handlers :
           \/ Enter(h) \/ LineUp(h) \/ TakeTurn(h) \/ Memory(h) \/ Mistake(h)
           \/ \E n \in Names : Create(h, n) \/ Export(h, n) \/ Delete(h, n) \/ BeginSwitch(h, n)
           \/ EndSwitch(h)
      BY <1>3 DEF Handling
    <2>1. Return(h) \/ UNCHANGED transport
      <3>1. Enter(h) => Return(h) \/ UNCHANGED transport
        BY Zenon DEF Enter
      <3>2. TakeTurn(h) => Return(h) \/ UNCHANGED transport
        BY Zenon DEF TakeTurn
      <3> QED
        BY <3>1, <3>2, Zenon DEF LineUp, Memory, Mistake, Create, Export, Delete, Finish, BeginSwitch,
                          EndSwitch
    <2>2. session' = session
      BY <2>1 DEF Return, transport
    <2>3. UNCHANGED <<cutOff, gone>>
      BY DEF Enter, LineUp, TakeTurn, Memory, Mistake, Create, Export, Delete, Finish,
             BeginSwitch, EndSwitch
    <2> QED
      BY <2>2, <2>3
  <1>4. CASE SessionEnds
    <2>1. owed' = owed /\ gone' = gone
      BY <1>4 DEF SessionEnds
    <2>2. CASE AllSettled(owed) /\ UNCHANGED client
      BY <2>1, <2>2
    <2>3. CASE cutOff' = TRUE
      BY <2>1, <2>3
    <2> QED
      BY <1>4, <2>2, <2>3 DEF SessionEnds
  <1>7. CASE ClientGoes
    <2>1. session' = session
      BY <1>7 DEF ClientGoes, transport
    <2>2. cutOff' = cutOff /\ gone' = TRUE
      BY <1>7, Zenon DEF ClientGoes
    <2> QED
      BY <2>1, <2>2
  <1>5. CASE Started \/ ServeEnds \/ Signal \/ Draining
    BY <1>5 DEF Started, ServeEnds, Signal, Shut, Draining, CallsOut, RepliesOut, BudgetSpent,
                Idle, transport
  <1>8. CASE ReadFails
    <2>1. owed' = owed /\ gone' = gone /\ (cutOff => cutOff')
      BY <1>8 DEF ReadFails
    <2>2. CASE \E i \in Ids : owed[i] > 0
      <3>1. cutOff'
        BY <1>8, <2>2 DEF ReadFails
      <3> QED
        BY <2>1, <3>1
    <2>3. CASE ~\E i \in Ids : owed[i] > 0
      <3>1. AllSettled(owed)
        BY <2>3 DEF AllSettled, Typed
      <3> QED
        BY <2>1, <3>1
    <2> QED
      BY <2>2, <2>3
  <1>6. CASE UNCHANGED vars
    BY <1>6 DEF vars, transport
  <1> QED
    BY <1>1, <1>2, <1>3, <1>4, <1>5, <1>6, <1>7, <1>8 DEF Next, Draining

LEMMA EndsStep ==
    ASSUME Typed, Ends, [Next]_vars PROVE Ends'
  <1>1. session' = "ended" /\ ~cutOff' /\ ~gone' => AllSettled(owed)'
    <2> SUFFICES ASSUME session' = "ended", ~cutOff', ~gone' PROVE AllSettled(owed)'
      OBVIOUS
    <2>1. CASE session' = session
      BY <2>1, SessionStep, SettledStays DEF Ends
    <2>2. CASE AllSettled(owed) /\ owed' = owed
      BY <2>2 DEF AllSettled
    <2> QED
      BY <2>1, <2>2, SessionStep
  <1>2. how' = "drained" => phase' = "done" /\ AllSettled(owed)'
    <2>1. CASE how = "drained"
      <3>1. UNCHANGED vars
        BY <2>1, DoneStays DEF Ends
      <3> QED
        BY <2>1, <3>1 DEF vars, Ends, AllSettled, transport, server
    <2>2. CASE how # "drained"
      <3> SUFFICES ASSUME how' = "drained"
                   PROVE  phase' = "done" /\ AllSettled(owed)'
        OBVIOUS
      <3>1. AllSettled(owed) /\ phase' = "done" /\ UNCHANGED owed
        BY <2>2, DrainStep
      <3> QED
        BY <3>1 DEF AllSettled
    <2> QED
      BY <2>1, <2>2
  <1> QED
    BY <1>1, <1>2 DEF Ends

-----------------------------------------------------------------------------
(***************************************************************************)
(* Shutdown: calls are refused before they are counted, so that none left  *)
(* means none to come.                                                     *)
(***************************************************************************)
\* A handler's step while calls are refused and none is left: it returns.
LEMMA LastReturns ==
    ASSUME closing, InFlight = {}, NEW h \in handlers,
           \/ Enter(h) \/ LineUp(h) \/ TakeTurn(h) \/ Memory(h) \/ Mistake(h)
           \/ \E n \in Names : Create(h, n) \/ Export(h, n) \/ Delete(h, n) \/ BeginSwitch(h, n)
           \/ EndSwitch(h)
    PROVE  handlers' \subseteq handlers /\ UNCHANGED <<server, workspace>>
  <1>1. h.at \in {"plain", "call"}
    BY DEF InFlight
  <1>2. Enter(h)
    BY <1>1 DEF LineUp, TakeTurn, Memory, Mistake, Create, Export, Delete, BeginSwitch, EndSwitch,
                Running
  <1>3. Return(h)
    BY <1>2, Zenon DEF Enter, Open
  <1> QED
    BY <1>2, <1>3 DEF Enter, Return

LEMMA CallsStep ==
    ASSUME Calls, [Next]_vars PROVE Calls'
  <1>1. CASE Lines
    <2>1. UNCHANGED server /\ InFlight' = InFlight
      <3>1. ASSUME NEW i \in Ids, NEW kind \in {"plain", "call"}, Hand(i, kind)
            PROVE  UNCHANGED server /\ InFlight' = InFlight
        BY <3>1 DEF Hand, InFlight
      <3> QED
        BY <1>1, <3>1 DEF Lines, Refuse, StdinCloses, Ask, Call, Cancel, InFlight, rmcp
    <2> QED
      BY <2>1 DEF Calls, server
  <1>2. CASE Handling
    <2> PICK h \in handlers :
           \/ Enter(h) \/ LineUp(h) \/ TakeTurn(h) \/ Memory(h) \/ Mistake(h)
           \/ \E n \in Names : Create(h, n) \/ Export(h, n) \/ Delete(h, n) \/ BeginSwitch(h, n)
           \/ EndSwitch(h)
      BY <1>2 DEF Handling
    <2>1. UNCHANGED server
      BY DEF Enter, LineUp, TakeTurn, Memory, Mistake, Create, Export, Delete, Finish,
             BeginSwitch, EndSwitch
    <2>2. ASSUME phase = "settling" PROVE InFlight' = {}
      <3>1. closing /\ InFlight = {}
        BY <2>2 DEF Calls
      <3>2. handlers' \subseteq handlers
        BY <3>1, LastReturns
      <3> QED
        BY <3>1, <3>2 DEF InFlight
    <2> QED
      BY <2>1, <2>2 DEF Calls, server
  <1>3. CASE Writing \/ SessionEnds \/ ReadFails \/ ClientGoes
    BY <1>3 DEF Writing, Write, SessionEnds, ReadFails, ClientGoes, Calls, InFlight, rmcp, server
  <1>4. CASE Started
    BY <1>4 DEF Started, Done, Calls
  <1>5. CASE ServeEnds \/ Signal
    BY <1>5 DEF ServeEnds, Signal, Shut, Done, Calls
  <1>6. CASE CallsOut
    BY <1>6 DEF CallsOut, CallsDone, Idle, Calls, InFlight, rmcp
  <1>7. CASE RepliesOut \/ BudgetSpent
    BY <1>7 DEF RepliesOut, BudgetSpent, Done, Calls
  <1>8. CASE UNCHANGED vars
    BY <1>8 DEF vars, Calls, InFlight, rmcp, server
  <1> QED
    BY <1>1, <1>2, <1>3, <1>4, <1>5, <1>6, <1>7, <1>8 DEF Next

-----------------------------------------------------------------------------
(***************************************************************************)
(* The turn: one call at a time.                                           *)
(***************************************************************************)
Asked == UNCHANGED asked
\* A handler goes on to another station, or returns.
Onward(h, to) == Moved(h, to) /\ to.id = h.id /\ to.nth = h.nth /\ Asked
Leaves(h) == handlers' = handlers \ {h} /\ Asked

LEMMA OnwardTurns ==
    ASSUME Typed, Turns, NEW h \in handlers, NEW to \in Handler, Onward(h, to),
           \/ queue' = queue /\ (to.at \in {"running", "opening"} => MyTurn(h))
           \/ queue' = Append(queue, Asking(h)) /\ to.at \notin {"running", "opening"}
    PROVE  Turns'
  <1>1. handlers' = (handlers \ {h}) \cup {to} /\ asked' = asked
    BY DEF Onward, Moved, Asked
  <1>2. Asking(to) = Asking(h)
    BY DEF Onward, Asking
  <1>3. \A g \in handlers' : g.nth <= asked'[g.id]
    BY <1>1 DEF Turns, Onward
  <1>4. \A f, g \in handlers' : Asking(f) = Asking(g) => f = g
    BY <1>1, <1>2 DEF Turns
  <1>5. ASSUME NEW g \in Busy' PROVE MyTurn(g)'
    <2>1. \/ g \in Busy /\ g # h
          \/ g = to /\ to.at \in {"running", "opening"}
      BY <1>1 DEF Busy
    <2>2. \/ MyTurn(g)
          \/ g = to /\ queue' = queue /\ MyTurn(h)
      BY <2>1 DEF Turns
    <2>3. queue # <<>> /\ Head(queue) = Asking(g)
      BY <1>2, <2>2 DEF MyTurn
    <2>4. queue' # <<>> /\ Head(queue') = Head(queue)
      <3>1. queue \in Seq(Request) /\ Asking(h) \in Request
        BY DEF Typed, Handler, Asking, Request
      <3>2. Len(queue) \in Nat \ {0}
        BY <2>3, <3>1
      <3> QED
        BY <2>3, <3>1, <3>2
    <2> QED
      BY <2>3, <2>4 DEF MyTurn, Asking
  <1> QED
    BY <1>3, <1>4, <1>5 DEF Turns, Asking

LEMMA LeavesTurns ==
    ASSUME Turns, NEW h \in handlers, Leaves(h),
           queue' = queue \/ MyTurn(h)
    PROVE  Turns'
  <1>1. handlers' = handlers \ {h} /\ asked' = asked
    BY DEF Leaves, Asked
  <1>2. ASSUME NEW g \in Busy' PROVE MyTurn(g)'
    <2>1. g \in Busy /\ g # h
      BY <1>1 DEF Busy
    <2>2. MyTurn(g) /\ ~MyTurn(h)
      BY <2>1 DEF Turns, MyTurn, Busy
    <2> QED
      BY <2>2 DEF MyTurn, Asking
  <1> QED
    BY <1>1, <1>2 DEF Turns, Asking

LEMMA HandTurns ==
    ASSUME Typed, Turns, NEW i \in Ids, Hand(i, "plain") \/ Hand(i, "call") PROVE Turns'
  <1>1. PICK kind \in {"plain", "call"} : Hand(i, kind)
    OBVIOUS
  <1> DEFINE new == [id |-> i, nth |-> asked[i] + 1, at |-> kind, ws |-> Home]
  <1>2. /\ handlers' = handlers \cup {new} /\ queue' = queue
        /\ asked' = [asked EXCEPT ![i] = @ + 1]
    BY <1>1 DEF Hand
  <1>3. \A h \in handlers : h.id \in Ids /\ h.nth \in Nat /\ h.nth <= asked[h.id]
    BY DEF Typed, Handler, Turns
  <1>4. \A h \in handlers : Asking(h) # Asking(new)
    BY <1>3 DEF Typed, Asking
  <1>5. \A h \in handlers' : h.nth <= asked'[h.id]
    BY <1>2, <1>3 DEF Typed
  <1>6. \A g, h \in handlers' : Asking(g) = Asking(h) => g = h
    BY <1>2, <1>4 DEF Turns
  <1>7. Busy' = Busy
    BY <1>2 DEF Busy
  <1> QED
    BY <1>2, <1>5, <1>6, <1>7 DEF Turns, Asking, MyTurn

LEMMA StillTurns ==
    ASSUME Turns, UNCHANGED <<handlers, queue, asked>> PROVE Turns'
  BY DEF Turns, Busy, MyTurn, Asking

LEMMA ReturnLeaves ==
    ASSUME NEW h, Return(h) PROVE Leaves(h)
  BY DEF Return, Leaves, Asked, history

\* A call is at another station of its own.
LEMMA Stays ==
    ASSUME Typed, NEW h \in handlers, NEW at \in Stations, NEW ws \in Names
    PROVE  /\ [h EXCEPT !.at = at] \in Handler /\ [h EXCEPT !.at = at].at = at
           /\ [h EXCEPT !.at = at].id = h.id /\ [h EXCEPT !.at = at].nth = h.nth
           /\ [h EXCEPT !.at = at, !.ws = ws] \in Handler
           /\ [h EXCEPT !.at = at, !.ws = ws].at = at
           /\ [h EXCEPT !.at = at, !.ws = ws].ws = ws
           /\ [h EXCEPT !.at = at, !.ws = ws].id = h.id
           /\ [h EXCEPT !.at = at, !.ws = ws].nth = h.nth
  <1>1. h \in Handler
    BY DEF Typed
  <1> QED
    BY <1>1 DEF Handler

LEMMA HandlingTurns ==
    ASSUME Typed, Turns, NEW h \in handlers,
           \/ Enter(h) \/ LineUp(h) \/ TakeTurn(h) \/ Memory(h) \/ Mistake(h)
           \/ \E n \in Names : Create(h, n) \/ Export(h, n) \/ Delete(h, n) \/ BeginSwitch(h, n)
           \/ EndSwitch(h)
    PROVE  Turns'
  <1>0. /\ "waiting" \in Stations /\ "queued" \in Stations
        /\ "running" \in Stations /\ "opening" \in Stations
        /\ active \in Names /\ h.ws \in Names
    BY DEF Stations, Typed, Handler
  <1>1. h \in Busy => MyTurn(h)
    BY DEF Turns
  <1>2. CASE Enter(h)
    <2>1. CASE Return(h) /\ UNCHANGED queue
      BY <2>1, ReturnLeaves, LeavesTurns
    <2>2. CASE /\ Moved(h, [h EXCEPT !.at = "waiting"])
               /\ UNCHANGED <<pool, outbox, queue, transport, history>>
      BY <1>0, <2>2, Stays, OnwardTurns DEF Onward, Asked, history
    <2> QED
      BY <1>2, <2>1, <2>2, Zenon DEF Enter
  <1>3. CASE LineUp(h)
    <2> DEFINE to == [h EXCEPT !.at = "queued"]
    <2>1. to \in Handler /\ to.at = "queued" /\ to.id = h.id /\ to.nth = h.nth
      BY <1>0, Stays
    <2>2. Moved(h, to) /\ asked' = asked /\ queue' = Append(queue, Asking(h))
      BY <1>3 DEF LineUp, history
    <2> HIDE DEF to
    <2> QED
      BY <2>1, <2>2, OnwardTurns DEF Onward, Asked
  <1>4. CASE TakeTurn(h)
    <2>1. CASE Return(h) /\ queue' = Tail(queue)
      BY <1>4, <2>1, ReturnLeaves, LeavesTurns DEF TakeTurn
    <2>2. CASE /\ Moved(h, [h EXCEPT !.at = "running", !.ws = active])
               /\ UNCHANGED <<pool, outbox, queue, transport, history>>
      <3> DEFINE to == [h EXCEPT !.at = "running", !.ws = active]
      <3>0. h \in Handler
        BY DEF Typed
      <3>1. to \in Handler /\ to.id = h.id /\ to.nth = h.nth
        BY <1>0, <3>0 DEF Handler
      <3>2. Moved(h, to) /\ asked' = asked /\ queue' = queue /\ MyTurn(h)
        BY <1>4, <2>2 DEF TakeTurn, history
      <3> HIDE DEF to
      <3> QED
        BY <3>1, <3>2, OnwardTurns DEF Onward, Asked
    <2> QED
      BY <1>4, <2>1, <2>2, Zenon DEF TakeTurn
  <1>5. CASE \/ Memory(h) \/ Mistake(h) \/ EndSwitch(h)
             \/ \E n \in Names : Create(h, n) \/ Export(h, n) \/ Delete(h, n)
    <2>1. h \in Busy
      BY <1>5 DEF Memory, Mistake, EndSwitch, Create, Export, Delete, Running, Alive, Busy
    <2>2. Return(h)
      BY <1>5 DEF Memory, Mistake, EndSwitch, Create, Export, Delete, Finish
    <2> QED
      BY <1>1, <2>1, <2>2, ReturnLeaves, LeavesTurns
  <1>6. CASE \E n \in Names : BeginSwitch(h, n)
    <2>1. PICK n \in Names : BeginSwitch(h, n)
      BY <1>6
    <2>2. h \in Busy /\ Moved(h, [h EXCEPT !.at = "opening", !.ws = n]) /\ queue' = queue
      BY <2>1 DEF BeginSwitch, Running, Alive, Busy
    <2>3. asked' = asked
      BY <2>1 DEF BeginSwitch, history
    <2> DEFINE to == [h EXCEPT !.at = "opening", !.ws = n]
    <2>0. h \in Handler
      BY DEF Typed
    <2>4. to \in Handler /\ to.id = h.id /\ to.nth = h.nth
      BY <1>0, <2>0 DEF Handler
    <2> HIDE DEF to
    <2> QED
      BY <1>1, <2>2, <2>3, <2>4, OnwardTurns DEF Onward, Asked, to
  <1> QED
    BY <1>2, <1>3, <1>4, <1>5, <1>6

LEMMA TurnsStep ==
    ASSUME Typed, Turns, [Next]_vars PROVE Turns'
  <1>1. CASE Lines
    BY <1>1, HandTurns, StillTurns DEF Lines, Refuse, StdinCloses, Ask, Call, Cancel, rmcp, history
  <1>2. CASE Writing
    BY <1>2, StillTurns DEF Writing, Write
  <1>3. CASE Handling
    BY <1>3, HandlingTurns DEF Handling
  <1>4. CASE SessionEnds \/ ReadFails \/ ClientGoes
    BY <1>4, StillTurns DEF SessionEnds, ReadFails, ClientGoes, rmcp, history
  <1>5. CASE Started \/ ServeEnds \/ Signal \/ Draining
    BY <1>5, StillTurns DEF Started, ServeEnds, Signal, Shut, Draining, CallsOut, RepliesOut,
                            BudgetSpent, Idle, rmcp, history
  <1>6. CASE UNCHANGED vars
    BY <1>6, StillTurns DEF vars, rmcp, history
  <1> QED
    BY <1>1, <1>2, <1>3, <1>4, <1>5, <1>6 DEF Next, Draining

-----------------------------------------------------------------------------
(***************************************************************************)
(* The leases.                                                             *)
(***************************************************************************)
\* A handler returns: the others keep what they have open.
LEMMA LeavesLeases ==
    ASSUME Leases, NEW h \in handlers, handlers' = handlers \ {h}, UNCHANGED <<phase, allow>>,
           \/ active' = active
           \/ active' = h.ws /\ h \in Busy,
           \A w \in Leased : w \in dirs => w \in dirs',
           ~allow => reached' \subseteq reached \cup {Home}
    PROVE  Leases'
  <1>1. Busy' \subseteq Busy
    BY DEF Busy
  <1>2. Leased' \subseteq Leased
    BY <1>1 DEF Leased
  <1>3. OpenIsThere'
    BY <1>2 DEF Leases, OpenIsThere, Ready
  <1>4. Confined'
    BY DEF Leases, Confined
  <1>5. phase' = "starting" =>
            active' = Home /\ \A g \in handlers' : g.at \in {"plain", "call", "waiting"}
    BY DEF Leases, Busy
  <1> QED
    BY <1>1, <1>3, <1>4, <1>5 DEF Leases

\* A handler goes on: what it opens is there, and no other than it may.
LEMMA GoesOnLeases ==
    ASSUME Leases, NEW h \in handlers, NEW to, Moved(h, to),
           UNCHANGED <<phase, allow, active, dirs, reached>>,
           \/ to.at = "waiting"
           \/ to.at = "queued" /\ phase # "starting"
           \/ /\ phase # "starting"
              /\ Ready => to.ws \in dirs
              /\ ~allow => to.ws = Home
    PROVE  Leases'
  <1>1. Busy' \subseteq Busy \cup {to}
    BY DEF Busy, Moved
  <1>2. to \in Busy' => /\ phase # "starting"
                        /\ Ready => to.ws \in dirs
                        /\ ~allow => to.ws = Home
    BY DEF Busy
  <1>3. OpenIsThere'
    <2> SUFFICES ASSUME Ready PROVE Leased' \subseteq dirs
      BY DEF OpenIsThere, Ready
    <2>1. Leased \subseteq dirs
      BY DEF Leases, OpenIsThere
    <2> QED
      BY <1>1, <1>2, <2>1 DEF Leased
  <1>4. Confined'
    BY DEF Leases, Confined
  <1>5. phase' = "starting" =>
            active' = Home /\ \A g \in handlers' : g.at \in {"plain", "call", "waiting"}
    BY DEF Leases, Moved
  <1>6. ~allow' => \A g \in Busy' : g.ws = Home
    BY <1>1, <1>2 DEF Leases
  <1> QED
    BY <1>3, <1>4, <1>5, <1>6 DEF Leases

LEMMA SameLeases ==
    ASSUME Leases, handlers' = handlers \/ \E i \in Ids : Hand(i, "plain") \/ Hand(i, "call"),
           UNCHANGED <<allow, active, reached>>,
           \/ UNCHANGED <<phase, dirs>>
           \/ phase' = "serving" /\ phase = "starting" /\ dirs' = dirs \cup {Home}
           \/ phase' = "draining" /\ phase = "serving" /\ dirs' = dirs
           \/ phase' = "settling" /\ phase = "draining" /\ dirs' = dirs
           \/ phase' = "done" /\ dirs' = dirs
    PROVE  Leases'
  <1> USE McpConstants
  <1>1. Busy' = Busy
    BY DEF Busy, Hand
  <1>2. Leased' = Leased
    BY <1>1 DEF Leased
  <1>3. phase = "starting" => Leased \subseteq {Home}
    <2>1. phase = "starting" => Busy = {} /\ active = Home
      BY DEF Leases, Busy
    <2> QED
      BY <2>1 DEF Leased
  <1>4. OpenIsThere'
    BY <1>2, <1>3 DEF Leases, OpenIsThere, Ready
  <1>5. Confined'
    BY DEF Leases, Confined
  <1>6. phase' = "starting" =>
            active' = Home /\ \A g \in handlers' : g.at \in {"plain", "call", "waiting"}
    BY DEF Leases, Hand
  <1> QED
    BY <1>1, <1>4, <1>5, <1>6 DEF Leases

LEMMA HandlingLeases ==
    ASSUME Typed, Leases, NEW h \in handlers,
           \/ Enter(h) \/ LineUp(h) \/ TakeTurn(h) \/ Memory(h) \/ Mistake(h)
           \/ \E n \in Names : Create(h, n) \/ Export(h, n) \/ Delete(h, n) \/ BeginSwitch(h, n)
           \/ EndSwitch(h)
    PROVE  Leases'
  <1>0. h \in Handler
    BY DEF Typed
  <1>1. ~allow => active = Home /\ (h \in Busy => h.ws = Home)
    BY DEF Leases, Confined
  <1>2. CASE Enter(h)
    <2>1. UNCHANGED <<phase, allow, active, dirs, reached>>
      BY <1>2 DEF Enter, server, workspace
    <2>2. CASE Return(h) /\ UNCHANGED queue
      BY <2>1, <2>2, LeavesLeases DEF Return
    <2>3. CASE /\ Moved(h, [h EXCEPT !.at = "waiting"])
               /\ UNCHANGED <<pool, outbox, queue, transport, history>>
      <3>1. [h EXCEPT !.at = "waiting"].at = "waiting"
        BY <1>0 DEF Handler
      <3> QED
        BY <2>1, <2>3, <3>1, GoesOnLeases
    <2> QED
      BY <1>2, <2>2, <2>3, Zenon DEF Enter
  <1>3. CASE LineUp(h)
    <2>1. [h EXCEPT !.at = "queued"].at = "queued"
      BY <1>0 DEF Handler
    <2>2. phase # "starting"
      BY <1>3 DEF LineUp, Ready
    <2> QED
      BY <1>3, <2>1, <2>2, GoesOnLeases DEF LineUp, server, workspace
  <1>4. CASE TakeTurn(h)
    <2>1. UNCHANGED <<phase, allow, active, dirs, reached>>
      BY <1>4 DEF TakeTurn, server, workspace
    <2>2. CASE Return(h) /\ queue' = Tail(queue)
      BY <2>1, <2>2, LeavesLeases DEF Return
    <2>3. CASE /\ Moved(h, [h EXCEPT !.at = "running", !.ws = active])
               /\ UNCHANGED <<pool, outbox, queue, transport, history>>
      <3>1. [h EXCEPT !.at = "running", !.ws = active].ws = active
        BY <1>0 DEF Handler
      <3>2. phase # "starting"
        BY <1>4 DEF TakeTurn, Leases
      <3>3. Ready => active \in dirs
        BY DEF Leases, OpenIsThere, Leased
      <3> QED
        BY <1>1, <2>1, <2>3, <3>1, <3>2, <3>3, GoesOnLeases
    <2> QED
      BY <1>4, <2>2, <2>3, Zenon DEF TakeTurn
  <1>5. CASE Mistake(h)
    BY <1>5, LeavesLeases DEF Mistake, Finish, Return, server, workspace
  <1>6. CASE Memory(h)
    <2>1. h \in Busy
      BY <1>6 DEF Memory, Running, Alive, Busy
    <2> QED
      BY <1>1, <1>6, <2>1, LeavesLeases DEF Memory, Finish, Return, server
  <1>7. ASSUME NEW n \in Names, Create(h, n) PROVE Leases'
    <2>1. allow
      BY <1>7 DEF Create, Unpinned
    <2> QED
      BY <1>7, <2>1, LeavesLeases DEF Create, Finish, Return, server
  <1>8. ASSUME NEW n \in Names, Export(h, n) PROVE Leases'
    <2>1. ~allow => n = Home
      BY <1>1, <1>8 DEF Export, Unpinned
    <2> QED
      BY <1>8, <2>1, LeavesLeases DEF Export, Finish, Return, server
  <1>9. ASSUME NEW n \in Names, Delete(h, n) PROVE Leases'
    <2>1. allow
      BY <1>9 DEF Delete, Unpinned
    <2>2. n \notin Leased /\ dirs' = dirs \ {n}
      BY <1>9 DEF Delete, Deletable
    <2> QED
      BY <1>9, <2>1, <2>2, LeavesLeases DEF Delete, Finish, Return, server
  <1>10. ASSUME NEW n \in Names, BeginSwitch(h, n) PROVE Leases'
    <2>1. allow /\ n \in dirs
      BY <1>10 DEF BeginSwitch, Unpinned
    <2>2. UNCHANGED <<phase, allow, active, dirs, reached>>
      BY <1>10 DEF BeginSwitch, server, workspace
    <2>3. h.at = "running"
      BY <1>10 DEF BeginSwitch, Running
    <2>4. phase # "starting"
      BY <2>3 DEF Leases
    <2>5. [h EXCEPT !.at = "opening", !.ws = n].ws = n
      BY <1>0 DEF Handler
    <2>6. Moved(h, [h EXCEPT !.at = "opening", !.ws = n])
      BY <1>10 DEF BeginSwitch
    <2> QED
      BY <2>1, <2>2, <2>4, <2>5, <2>6, GoesOnLeases
  <1>11. CASE EndSwitch(h)
    <2>1. h \in Busy
      BY <1>11 DEF EndSwitch, Alive, Busy
    <2>2. reached' = reached \/ reached' = reached \cup {h.ws}
      BY <1>11 DEF EndSwitch
    <2>3. active' = active \/ active' = h.ws
      BY <1>11 DEF EndSwitch
    <2>4. handlers' = handlers \ {h} /\ UNCHANGED <<phase, allow, dirs>>
      BY <1>11 DEF EndSwitch, Return, server
    <2> QED
      BY <1>1, <2>1, <2>2, <2>3, <2>4, LeavesLeases
  <1> QED
    BY <1>2, <1>3, <1>4, <1>5, <1>6, <1>7, <1>8, <1>9, <1>10, <1>11

LEMMA LeasesStep ==
    ASSUME Typed, Leases, [Next]_vars PROVE Leases'
  <1>1. CASE Lines
    BY <1>1, SameLeases DEF Lines, Refuse, StdinCloses, Ask, Call, Cancel, Hand,
                            rmcp, server, workspace
  <1>2. CASE Writing
    BY <1>2, SameLeases DEF Writing, Write, server, workspace
  <1>3. CASE Handling
    BY <1>3, HandlingLeases DEF Handling
  <1>4. CASE SessionEnds \/ ReadFails \/ ClientGoes
    BY <1>4, SameLeases DEF SessionEnds, ReadFails, ClientGoes, rmcp, server, workspace
  <1>5. CASE Started
    BY <1>5, SameLeases DEF Started, Done, Idle, rmcp
  <1>6. CASE ServeEnds \/ Signal \/ Draining
    BY <1>6, SameLeases DEF ServeEnds, Signal, Shut, Done, Draining, CallsOut, RepliesOut,
                            BudgetSpent, Idle, rmcp, workspace
  <1>7. CASE UNCHANGED vars
    BY <1>7, SameLeases DEF vars, rmcp, server, workspace
  <1> QED
    BY <1>1, <1>2, <1>3, <1>4, <1>5, <1>6, <1>7 DEF Next, Draining

-----------------------------------------------------------------------------
LEMMA Inductive == Spec => []McpInv
  <1>1. McpInv /\ [Next]_vars => McpInv'
    BY TypedStep, FlagsStep, CountedStep, ExactStep, EndsStep, CallsStep, LeasesStep, TurnsStep DEF McpInv
  <1> QED
    BY InitMcp, <1>1, PTL DEF Spec

\* At most one reply is written for each request, what the process has open is
\* on disk, a pinned server reaches its own workspace only, and calls do not
\* overlap, whatever the client cancels, reuses or closes.
THEOREM SessionSound == Spec => []SessionIsSound
  BY Inductive, InvIsEnough, PTL

\* Every request accepted is answered before the session ends and by a shutdown
\* that drained, unless the session was cut off, the client left or it was cancelled.
THEOREM EveryReplyGiven == Spec => []NoReplyLost
  BY Inductive, InvIsEnough, PTL

\* Once a shutdown has seen its calls out, no call is under way and no workspace is
\* read, changed or activated until the checkpoint, whatever the client still sends.
THEOREM StoresComeToRest == Spec => StoresRest
  <1>1. ASSUME McpInv, [Next]_vars, phase = "settling"
        PROVE  Busy = {} /\ UNCHANGED <<active, dirs, reached>>
    <2>1. closing /\ InFlight = {}
      BY <1>1 DEF McpInv, Calls
    <2>2. Busy = {}
      BY <2>1 DEF Busy, InFlight
    <2> SUFFICES UNCHANGED <<active, dirs, reached>>
      BY <2>2
    <2>3. CASE Lines \/ Writing
      BY <2>3 DEF Lines, Refuse, StdinCloses, Ask, Call, Hand, Cancel, Writing, Write, workspace
    <2>4. CASE Handling
      BY <2>1, <2>4, LastReturns DEF Handling, workspace
    <2>5. CASE SessionEnds \/ ReadFails \/ ClientGoes
      BY <2>5 DEF SessionEnds, ReadFails, ClientGoes, workspace
    <2>6. CASE Started \/ ServeEnds \/ Signal
      BY <1>1, <2>6 DEF Started, ServeEnds, Signal, Shut, workspace
    <2>7. CASE CallsOut \/ RepliesOut \/ BudgetSpent
      BY <2>7 DEF CallsOut, RepliesOut, BudgetSpent, workspace
    <2>8. CASE UNCHANGED vars
      BY <2>8 DEF vars, workspace
    <2> QED
      BY <1>1, <2>3, <2>4, <2>5, <2>6, <2>7, <2>8 DEF Next
  <1> QED
    BY Inductive, <1>1, PTL DEF Spec, StoresRest
=============================================================================
