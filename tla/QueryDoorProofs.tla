-------------------------- MODULE QueryDoorProofs --------------------------
(***************************************************************************)
(* Theorems about QueryDoor, for every set of questions and every bound,   *)
(* and about the searches of Recall, for every index, depth and weight.    *)
(* To the door a reply is its status; what a search computes comes after.  *)
(***************************************************************************)
EXTENDS QueryDoor, FunctionTheorems, FiniteSetTheorems, SequenceTheorems, WellFoundedInduction, TLAPS

Handling == {"parsed", "answered", "copied", "finished"}
Steps == {"down", "waiting"} \cup Handling

\* The types, with each published reply that of a request already sent.
Typed ==
    /\ topic \in Seq(Kinds) /\ Len(topic) <= MaxRequests
    /\ committed \in 0 .. Len(topic) \cup {None} /\ acking \in 0 .. Len(topic) \cup {None}
    /\ position \in 0 .. Len(topic) \cup {None}
    /\ step \in Steps
    /\ results \subseteq (0 .. Len(topic) - 1) \X Statuses
    /\ dlq \cup parking \cup skipped \subseteq Offsets
    /\ failed \subseteq {"results", "dlq", "parking"} \X Offsets
    /\ stopping \in BOOLEAN /\ restarts \in 0 .. MaxRestarts

\* What the handler holds at each of its steps.
Copied(o) == o \in dlq \/ <<"dlq", o>> \in failed
Control ==
    /\ position = None <=> step = "down"
    /\ step \in Handling => position \in 1 .. Len(topic)
    /\ step = "parsed" /\ Kind = "query" => asked \in Questions
    /\ step \in {"answered", "copied"} => Kind = "query" /\ reply # None /\ reply.status \in Statuses
    /\ step \notin {"answered", "copied"} => reply = None
    /\ step = "copied" => Copied(Current)

\* Everything below an offset the group has, may come to have, or goes on from,
\* the request in hand excepted, is settled.
SettledBelow(n) == \A o \in 0 .. n - 1 : Settled(o)
Progress ==
    /\ committed # None => SettledBelow(committed)
    /\ acking # None => SettledBelow(acking)
    /\ step \in {"waiting", "finished"} => SettledBelow(position)
    /\ step \in Handling => SettledBelow(position - 1)

DoorInv == Typed /\ Control /\ Progress /\ ErrorsAreSeen

-----------------------------------------------------------------------------
LEMMA Numbers ==
    MaxRequests \in Nat /\ MaxRestarts \in Nat /\ MaxFailures \in Nat /\ None \notin Nat
  BY DoorConstants, NoneIsNothing

\* What a query is answered with has a status, and is no None.
LEMMA Answers ==
    ASSUME NEW a \in Questions, NEW r \in {Execute(a), Failure}
    PROVE  r # None /\ r.status \in Statuses
  <1>1. Execute(a).status \in Statuses
    <2>1. a.scope \in {"stm", "ltm", "both", "ltm_via_stm", "stm_map"}
      BY DoorConstants
    <2>2. \A stm, ltm, seeds : Success(stm, ltm, seeds).status \in Statuses
      BY DEF Success, Statuses
    <2> QED
      BY <2>1, <2>2 DEF Execute
  <1>2. Failure.status \in Statuses
    BY DEF Failure, Statuses
  <1> QED
    BY <1>1, <1>2, NoneIsNothing

\* The invariant is at least what the run checks.
LEMMA InvIsEnough == DoorInv => DoorIsSound
  <1> SUFFICES ASSUME DoorInv PROVE DoorIsSound
    OBVIOUS
  <1> USE Numbers
  <1>1. Len(topic) \in Nat
    BY DEF DoorInv, Typed
  <1>2. TypeOK
    <2>1. results \subseteq Offsets \X Statuses
      BY <1>1 DEF DoorInv, Typed, Offsets
    <2>2. /\ (position = None) = (step = "down")
          /\ (reply # None) = (step \in {"answered", "copied"})
      BY DEF DoorInv, Control
    <2>3. reply # None => reply.status \in Statuses
      BY DEF DoorInv, Control
    <2>4. step \in {"down", "waiting", "parsed", "answered", "copied", "finished"}
      BY DEF DoorInv, Typed, Steps, Handling
    <2> QED
      BY <2>1, <2>2, <2>3, <2>4 DEF TypeOK, DoorInv, Typed
  <1>3. CommittedIsAnswered
    BY DEF DoorInv, Progress, CommittedIsAnswered, SettledBelow
  <1> QED
    BY <1>2, <1>3 DEF DoorIsSound, DoorInv

LEMMA InitDoor == Init => DoorInv
  <1> SUFFICES ASSUME Init PROVE DoorInv
    OBVIOUS
  <1> USE Numbers
  <1>1. topic \in Seq(Kinds) /\ Len(topic) = 0
    BY DEF Init
  <1>2. Typed
    <2>1. stopping \in BOOLEAN
      BY Zenon DEF Init
    <2>2. step \in Steps /\ restarts \in 0 .. MaxRestarts
      BY DEF Init, Steps
    <2>3. /\ Len(topic) <= MaxRequests
          /\ committed = None /\ acking = None /\ position = None
          /\ results = {} /\ dlq = {} /\ parking = {} /\ failed = {} /\ skipped = {}
      BY <1>1 DEF Init
    <2> QED
      BY <1>1, <2>1, <2>2, <2>3 DEF Typed
  <1>3. Control /\ Progress
    BY DEF Init, Control, Progress, Handling
  <1>4. ErrorsAreSeen
    BY DEF Init, ErrorsAreSeen
  <1> QED
    BY <1>2, <1>3, <1>4 DEF DoorInv

-----------------------------------------------------------------------------
\* A step forgets nothing that settles a request.
Keeps ==
    /\ Len(topic) <= Len(topic)'
    /\ \A o \in 0 .. Len(topic) - 1 : topic'[o + 1] = topic[o + 1]
    /\ skipped \subseteq skipped' /\ results \subseteq results'
    /\ dlq \subseteq dlq' /\ parking \subseteq parking' /\ failed \subseteq failed'

\* Where nobody sends, the topic is as it was.
LEMMA KeptTopic ==
    ASSUME Typed, topic' = topic, skipped \subseteq skipped', results \subseteq results',
           dlq \subseteq dlq', parking \subseteq parking', failed \subseteq failed'
    PROVE  Keeps
  BY DEF Typed, Keeps

LEMMA StaySettled ==
    ASSUME Typed, Keeps, NEW n \in 0 .. Len(topic), SettledBelow(n)
    PROVE  SettledBelow(n)'
  <1> SUFFICES ASSUME NEW o \in 0 .. n - 1 PROVE Settled(o)'
    BY DEF SettledBelow
  <1>1. Len(topic) \in Nat
    BY DEF Typed
  <1>2. Settled(o) /\ o \in 0 .. Len(topic) - 1
    BY <1>1 DEF SettledBelow
  <1>3. topic'[o + 1] = topic[o + 1]
    BY <1>2 DEF Keeps
  <1> QED
    BY <1>2, <1>3 DEF Settled, Replied, Keeps

LEMMA NextKeeps ==
    ASSUME Typed, [Next]_vars PROVE Keeps
  <1> USE DEF Sent
  <1>1. CASE Send
    <2>1. PICK kind \in Kinds : topic' = Append(topic, kind)
      BY <1>1 DEF Send
    <2> QED
      BY <1>1, <2>1 DEF Send, Keeps, Typed, offsets, handler, outputs
  <1>2. CASE Join
    BY <1>2, KeptTopic DEF Join, outputs
  <1>3. CASE Receive
    BY <1>3, KeptTopic DEF Receive, input, outputs
  <1>4. CASE Respond
    BY <1>4, KeptTopic DEF Respond, input, outputs
  <1>5. CASE CopyAside
    BY <1>5, KeptTopic DEF CopyAside, input, outputs
  <1>6. CASE PublishResult
    BY <1>6, KeptTopic DEF PublishResult, input
  <1>7. CASE Refuse
    BY <1>7, KeptTopic DEF Refuse, input
  <1>8. CASE Park
    BY <1>8, KeptTopic DEF Park, input
  <1>9. CASE CommitMessage \/ CommitLands \/ Stop \/ Leave \/ Crash
    BY <1>9, KeptTopic DEF CommitMessage, CommitLands, Stop, Leave, Crash, input, outputs
  <1>10. CASE UNCHANGED vars
    BY <1>10, KeptTopic DEF vars, input, outputs
  <1> QED
    BY <1>1, <1>2, <1>3, <1>4, <1>5, <1>6, <1>7, <1>8, <1>9, <1>10 DEF Next, Handle

\* A published reply of a query keeps its copy.
LEMMA SeenStays ==
    ASSUME DoorInv, Keeps, results' = results PROVE ErrorsAreSeen'
  <1> SUFFICES ASSUME NEW o \in Offsets, <<o, "error">> \in results, topic'[o + 1] = "query"
               PROVE  o \in dlq' \/ <<"dlq", o>> \in failed'
    BY DEF ErrorsAreSeen
  <1>1. o \in 0 .. Len(topic) - 1
    BY DEF DoorInv, Typed
  <1>2. topic[o + 1] = "query"
    BY <1>1 DEF Keeps
  <1> QED
    BY <1>2 DEF DoorInv, ErrorsAreSeen, Keeps

-----------------------------------------------------------------------------
(***************************************************************************)
(* The types, action by action.                                            *)
(***************************************************************************)
LEMMA TypedStep ==
    ASSUME Typed, Control, [Next]_vars PROVE Typed'
  <1> USE Numbers
  <1> DEFINE Places == /\ committed \in 0 .. Len(topic) \cup {None}
                       /\ acking \in 0 .. Len(topic) \cup {None}
                       /\ position \in 0 .. Len(topic) \cup {None}
             Flags  == stopping \in BOOLEAN
             Rest   == restarts \in 0 .. MaxRestarts /\ step \in Steps
             Sends  == /\ results \subseteq (0 .. Len(topic) - 1) \X Statuses
                       /\ dlq \cup parking \cup skipped \subseteq Offsets
                       /\ failed \subseteq {"results", "dlq", "parking"} \X Offsets
             Input  == topic \in Seq(Kinds) /\ Len(topic) <= MaxRequests
  <1>1. Input /\ Places /\ Flags /\ Rest /\ Sends /\ Len(topic) \in Nat
    BY DEF Typed
  <1>2. Input' /\ Len(topic)' \in Nat /\ Len(topic) <= Len(topic)'
    <2>1. CASE Send
      BY <1>1, <2>1 DEF Send
    <2>2. CASE topic' = topic
      BY <1>1, <2>2
    <2> QED
      BY <2>1, <2>2 DEF Next, Handle, Join, Receive, Respond, CopyAside, PublishResult, Refuse,
            Park, CommitMessage, CommitLands, Stop, Leave, Crash, input, vars
  <1>3. Flags'
    <2>1. stopping' \in {stopping, TRUE, FALSE}
      BY DEF Next, Handle, Send, Join, Receive, Respond, CopyAside, PublishResult, Refuse,
            Park, CommitMessage, CommitLands, Stop, Leave, Crash, vars
    <2> QED
      BY <1>1, <2>1, Zenon
  <1>4. Rest'
    BY <1>1 DEF Next, Handle, Send, Join, Receive, Respond, CopyAside, PublishResult, Refuse,
          Park, CommitMessage, CommitLands, Stop, Leave, Crash, vars, handler, Steps, Handling
  <1>5. Places'
    <2>1. CASE position' = position /\ committed' = committed /\ acking' = acking
      BY <1>1, <1>2, <2>1
    <2>2. CASE Join
      BY <1>1, <1>2, <2>2 DEF Join
    <2>3. CASE Receive
      BY <1>1, <1>2, <2>3 DEF Receive, Control
    <2>4. CASE CommitMessage \/ CommitLands \/ Leave \/ Crash
      BY <1>1, <1>2, <2>4 DEF CommitMessage, CommitLands, Leave, Crash, input
    <2> QED
      BY <2>1, <2>2, <2>3, <2>4 DEF Next, Handle, Send, Respond, CopyAside, PublishResult,
            Refuse, Park, Stop, offsets, vars
  <1>6. Sends'
    <2>1. CASE results' = results /\ dlq' = dlq /\ parking' = parking /\ failed' = failed
               /\ skipped' = skipped
      BY <1>1, <1>2, <2>1
    <2>2. CASE Join
      BY <1>1, <1>2, <2>2 DEF Join, outputs, Offsets
    <2>3. step \in Handling => Current \in 0 .. Len(topic) - 1 /\ Current \in Offsets
      BY <1>1 DEF Control, Current, Offsets
    <2>4. CASE CopyAside
      BY <1>1, <2>3, <2>4 DEF CopyAside, Sent, Handling, input
    <2>5. CASE PublishResult
      <3>1. <<Current, reply.status>> \in (0 .. Len(topic) - 1) \X Statuses
        BY <2>3, <2>5 DEF PublishResult, Control, Handling
      <3> QED
        BY <1>1, <2>3, <2>5, <3>1 DEF PublishResult, Sent, Handling, input
    <2>6. CASE Refuse
      <3>1. <<Current, "error">> \in (0 .. Len(topic) - 1) \X Statuses
        BY <2>3, <2>6 DEF Refuse, Handling, Statuses
      <3> QED
        BY <1>1, <2>3, <2>6, <3>1 DEF Refuse, Sent, Handling, input
    <2>7. CASE Park
      BY <1>1, <2>3, <2>7 DEF Park, Sent, Handling, input
    <2> QED
      BY <2>1, <2>2, <2>4, <2>5, <2>6, <2>7 DEF Next, Handle, Send, Receive, Respond,
            CommitMessage, CommitLands, Stop, Leave, Crash, input, outputs, vars
  <1> QED
    BY <1>2, <1>3, <1>4, <1>5, <1>6 DEF Typed

(***************************************************************************)
(* What the handler holds.                                                 *)
(***************************************************************************)
LEMMA ControlStep ==
    ASSUME Typed, Control, [Next]_vars PROVE Control'
  <1> USE Numbers DEF Handling
  <1>1. Len(topic) \in Nat /\ step \in Steps
    BY DEF Typed
  <1>2. CASE Send
    <2>1. PICK kind \in Kinds : topic' = Append(topic, kind)
      BY <1>2 DEF Send
    <2>2. /\ Len(topic') = Len(topic) + 1
          /\ \A n \in 1 .. Len(topic) : topic'[n] = topic[n]
      BY <2>1 DEF Typed
    <2>3. /\ UNCHANGED <<position, step, asked, reply, dlq, failed>>
      BY <1>2 DEF Send, offsets, handler, outputs
    <2>4. step \in Handling => Kind' = Kind /\ Current' = Current
      BY <2>2, <2>3 DEF Control, Kind, Current
    <2> QED
      BY <1>1, <2>2, <2>3, <2>4 DEF Control, Copied
  <1>3. CASE Join
    BY <1>1, <1>3 DEF Join, Control, Typed
  <1>4. CASE Receive
    <2>1. position \in 0 .. Len(topic) - 1
      BY <1>1, <1>4 DEF Receive, Control, Typed
    <2> QED
      BY <1>1, <1>4, <2>1 DEF Receive, Control, Kind, input
  <1>5. CASE Respond
    <2>1. asked \in Questions /\ reply' # None /\ reply'.status \in Statuses
      BY <1>5, Answers DEF Respond, Control
    <2> QED
      BY <1>1, <1>5, <2>1 DEF Respond, Control, Kind, input, offsets
  <1>6. CASE CopyAside
    <2>1. Copied(Current)'
      BY <1>6 DEF CopyAside, Sent, Copied, Current, offsets
    <2> QED
      BY <1>1, <1>6, <2>1 DEF CopyAside, Control, Kind, input, offsets
  <1>7. CASE PublishResult \/ Refuse \/ Park
    BY <1>1, <1>7 DEF PublishResult, Refuse, Park, Control, Kind, input, offsets
  <1>8. CASE CommitMessage
    BY <1>1, <1>8 DEF CommitMessage, Control, Kind, input
  <1>9. CASE CommitLands \/ Stop \/ UNCHANGED vars
    BY <1>1, <1>9 DEF CommitLands, Stop, vars, Control, Kind, Copied, Current,
          input, handler, outputs, offsets
  <1>10. CASE Leave \/ Crash
    BY <1>1, <1>10 DEF Leave, Crash, Control
  <1> QED
    BY <1>2, <1>3, <1>4, <1>5, <1>6, <1>7, <1>8, <1>9, <1>10 DEF Next, Handle

(***************************************************************************)
(* Nothing is committed before it is settled.                              *)
(***************************************************************************)
\* The request in hand is settled by the step that finishes it.
LEMMA Finishing ==
    ASSUME Typed, Control, PublishResult \/ Refuse \/ Park
    PROVE  Settled(Current)' /\ Current' = Current
  <1> USE Numbers DEF Handling
  <1>1. position \in 1 .. Len(topic) /\ position' = position /\ topic' = topic
    BY DEF PublishResult, Refuse, Park, Control, input, offsets
  <1>2. topic'[Current + 1] = Kind
    BY <1>1 DEF Current, Kind
  <1>3. CASE PublishResult
    <2>1. Kind = "query" /\ reply.status \in Statuses
      BY <1>3 DEF PublishResult, Control
    <2> QED
      BY <1>1, <1>2, <1>3, <2>1 DEF PublishResult, Sent, Settled, Replied, Current
  <1>4. CASE Refuse
    BY <1>1, <1>2, <1>4 DEF Refuse, Sent, Settled, Replied, Current, Kind, Statuses
  <1>5. CASE Park
    BY <1>1, <1>2, <1>5 DEF Park, Sent, Settled, Current, Kind
  <1> QED
    BY <1>1, <1>3, <1>4, <1>5 DEF Current

LEMMA ProgressStep ==
    ASSUME Typed, Control, Progress, [Next]_vars PROVE Progress'
  <1> USE Numbers DEF Handling
  <1>1. Keeps
    BY NextKeeps
  <1>2. Len(topic) \in Nat /\ step \in Steps
    BY DEF Typed
  <1>3. \A n \in 0 .. Len(topic) : SettledBelow(n) => SettledBelow(n)'
    BY <1>1, StaySettled
  <1>4. \A n : SettledBelow(n)' <=> \A o \in 0 .. n - 1 : Settled(o)'
    BY DEF SettledBelow
  <1>5. /\ committed # None => committed \in 0 .. Len(topic)
        /\ acking # None => acking \in 0 .. Len(topic)
        /\ step # "down" => position \in 0 .. Len(topic)
    BY DEF Typed, Control
  <1>6. CASE Join
    <2>1. CASE committed = None
      <3>1. \A o \in 0 .. Len(topic) - 1 : Settled(o)'
        BY <1>6, <2>1 DEF Join, Settled
      <3> QED
        BY <1>2, <1>3, <1>5, <1>6, <2>1, <3>1 DEF Join, Progress, SettledBelow
    <2>2. CASE committed # None
      BY <1>2, <1>3, <1>5, <1>6, <2>2 DEF Join, Progress, SettledBelow
    <2> QED
      BY <2>1, <2>2
  <1>7. CASE Receive
    BY <1>2, <1>3, <1>5, <1>7 DEF Receive, Progress, SettledBelow
  <1>8. CASE Respond \/ CopyAside
    BY <1>2, <1>3, <1>5, <1>8 DEF Respond, CopyAside, Progress, SettledBelow, offsets, Control
  <1>9. CASE PublishResult \/ Refuse \/ Park
    <2>1. Settled(position - 1)' /\ position \in 1 .. Len(topic)
      BY <1>9, Finishing DEF Current, PublishResult, Refuse, Park, Control, offsets
    <2>2. SettledBelow(position - 1)'
      BY <1>3, <1>9, <2>1 DEF PublishResult, Refuse, Park, Progress, SettledBelow, offsets
    <2> QED
      BY <1>2, <1>3, <1>5, <1>9, <2>1, <2>2
         DEF PublishResult, Refuse, Park, Progress, SettledBelow, offsets
  <1>10. CASE CommitMessage \/ CommitLands \/ Leave \/ Crash
    BY <1>2, <1>3, <1>5, <1>10
       DEF CommitMessage, CommitLands, Leave, Crash, Progress, SettledBelow, handler
  <1>11. CASE Send \/ Stop \/ UNCHANGED vars
    BY <1>2, <1>3, <1>5, <1>11
       DEF Send, Stop, vars, offsets, handler, Progress, SettledBelow, Control
  <1> QED
    BY <1>6, <1>7, <1>8, <1>9, <1>10, <1>11 DEF Next, Handle

(***************************************************************************)
(* No error without its copy.                                              *)
(***************************************************************************)
LEMMA ErrorsStep ==
    ASSUME DoorInv, [Next]_vars PROVE ErrorsAreSeen'
  <1> USE Numbers DEF Handling
  <1>1. Keeps
    BY NextKeeps DEF DoorInv
  <1>2. CASE results' = results
    BY <1>1, <1>2, SeenStays
  <1>3. CASE PublishResult \/ Refuse
    <2>1. topic' = topic /\ dlq' = dlq /\ failed \subseteq failed'
      BY <1>3 DEF PublishResult, Refuse, Sent, input
    <2> SUFFICES ASSUME NEW o \in Offsets, <<o, "error">> \in results', topic[o + 1] = "query"
                 PROVE  o \in dlq \/ <<"dlq", o>> \in failed'
      BY <2>1 DEF ErrorsAreSeen
    <2>2. CASE <<o, "error">> \in results
      BY <2>1, <2>2 DEF DoorInv, ErrorsAreSeen
    <2>3. CASE <<o, "error">> \notin results
      <3>1. CASE PublishResult
        <4>1. o = Current /\ reply.status = "error"
          BY <2>3, <3>1 DEF PublishResult, Sent
        <4>2. Copied(Current)
          BY <3>1, <4>1 DEF PublishResult, DoorInv, Control
        <4> QED
          BY <2>1, <4>1, <4>2 DEF Copied
      <3>2. CASE Refuse
        <4>1. o = Current /\ position \in 1 .. Len(topic)
          BY <2>3, <3>2 DEF Refuse, Sent, DoorInv, Control
        <4> QED
          BY <3>2, <4>1 DEF Refuse, Kind, Current
      <3> QED
        BY <1>3, <3>1, <3>2
    <2> QED
      BY <2>2, <2>3
  <1> QED
    BY <1>2, <1>3 DEF Next, Handle, Send, Join, Receive, Respond, CopyAside, Park,
          CommitMessage, CommitLands, Stop, Leave, Crash, outputs, vars

LEMMA NextDoor == DoorInv /\ [Next]_vars => DoorInv'
  <1> SUFFICES ASSUME DoorInv, [Next]_vars PROVE DoorInv'
    OBVIOUS
  <1>1. Typed /\ Control /\ Progress
    BY DEF DoorInv
  <1> QED
    BY <1>1, TypedStep, ControlStep, ProgressStep, ErrorsStep DEF DoorInv

-----------------------------------------------------------------------------
\* The door is sound: a request behind the committed offset was answered, or
\* parked, or its failure to be sent logged, and an error is not answered before
\* its copy was sent aside (QueryConsumer::run, process, commit_on_shutdown).
THEOREM DoorSound == Spec => []DoorIsSound
  <1>1. Init => DoorInv
    BY InitDoor
  <1>2. DoorInv /\ [Next]_vars => DoorInv'
    BY NextDoor
  <1>3. DoorInv => DoorIsSound
    BY InvIsEnough
  <1> QED
    BY <1>1, <1>2, <1>3, PTL DEF Spec

-----------------------------------------------------------------------------
(***************************************************************************)
(* What is in order.                                                       *)
(***************************************************************************)
\* The keys of S are in a strict order, and no two are the same.
Strict(S, key) ==
    /\ \A a \in S : ~Sooner(key[a], key[a])
    /\ \A a, b, c \in S : Sooner(key[a], key[b]) /\ Sooner(key[b], key[c]) => Sooner(key[a], key[c])
    /\ \A a, b \in S : a # b => Sooner(key[a], key[b]) \/ Sooner(key[b], key[a])

Ahead(S, key, n) == {m \in S : Sooner(key[m], key[n])}

LEMMA Interval ==
    ASSUME NEW n \in Nat PROVE IsFiniteSet(1 .. n) /\ Cardinality(1 .. n) = n
  BY FS_Interval

\* How many are ahead tells where a member stands.
LEMMA Standing ==
    ASSUME NEW S, IsFiniteSet(S), NEW key, Strict(S, key)
    PROVE  /\ Cardinality(S) \in Nat
           /\ \A n \in S : Cardinality(Ahead(S, key, n)) \in 0 .. Cardinality(S) - 1
           /\ \A m, n \in S : Sooner(key[m], key[n]) =>
                  Cardinality(Ahead(S, key, m)) < Cardinality(Ahead(S, key, n))
  <1>1. Cardinality(S) \in Nat
    BY FS_CardinalityType
  <1>2. ASSUME NEW n \in S
        PROVE  /\ IsFiniteSet(Ahead(S, key, n))
               /\ Cardinality(Ahead(S, key, n)) \in 0 .. Cardinality(S) - 1
    <2>1. Ahead(S, key, n) \subseteq S \ {n}
      BY DEF Strict, Ahead
    <2>2. IsFiniteSet(S \ {n}) /\ Cardinality(S \ {n}) = Cardinality(S) - 1
      BY FS_RemoveElement
    <2>3. /\ IsFiniteSet(Ahead(S, key, n))
          /\ Cardinality(Ahead(S, key, n)) <= Cardinality(S \ {n})
      BY <2>1, <2>2, FS_Subset
    <2>4. Cardinality(Ahead(S, key, n)) \in Nat
      BY <2>3, FS_CardinalityType
    <2> QED
      BY <1>1, <2>2, <2>3, <2>4
  <1>3. ASSUME NEW m \in S, NEW n \in S, Sooner(key[m], key[n])
        PROVE  Cardinality(Ahead(S, key, m)) < Cardinality(Ahead(S, key, n))
    <2> DEFINE M == Ahead(S, key, m)
               N == Ahead(S, key, n)
    <2>1. M \subseteq N /\ m \in N /\ m \notin M
      BY <1>3 DEF Strict, Ahead
    <2>2. IsFiniteSet(M) /\ IsFiniteSet(N)
      BY <1>2
    <2> HIDE DEF M, N
    <2>3. Cardinality(M) <= Cardinality(N) /\ (Cardinality(M) = Cardinality(N) => M = N)
      BY <2>1, <2>2, FS_Subset
    <2>4. Cardinality(M) \in Nat /\ Cardinality(N) \in Nat
      BY <2>2, FS_CardinalityType
    <2>5. Cardinality(M) < Cardinality(N)
      BY <2>1, <2>3, <2>4
    <2> QED
      BY <2>5 DEF M, N
  <1> QED
    BY <1>1, <1>2, <1>3

\* The i-th is the one with i - 1 ahead of it, and there is one.
LEMMA OrderedFacts ==
    ASSUME NEW S, IsFiniteSet(S), NEW key, Strict(S, key)
    PROVE  LET f == Ordered(S, key) IN
           /\ f \in [1 .. Cardinality(S) -> S]
           /\ \A i \in 1 .. Cardinality(S) : Cardinality(Ahead(S, key, f[i])) = i - 1
           /\ \A i \in 1 .. Cardinality(S), n \in S :
                  Cardinality(Ahead(S, key, n)) = i - 1 => f[i] = n
           /\ \A n \in S : \E i \in 1 .. Cardinality(S) : f[i] = n
           /\ \A i, j \in 1 .. Cardinality(S) : i < j => Sooner(key[f[i]], key[f[j]])
  <1> DEFINE N == Cardinality(S)
             place == [n \in S |-> Cardinality(Ahead(S, key, n)) + 1]
             f == Ordered(S, key)
  <1>1. N \in Nat /\ place \in [S -> 1 .. N]
    BY Standing
  <1>2. \A m, n \in S : m # n => place[m] # place[n]
    <2> SUFFICES ASSUME NEW m \in S, NEW n \in S, m # n PROVE place[m] # place[n]
      OBVIOUS
    <2>1. Sooner(key[m], key[n]) \/ Sooner(key[n], key[m])
      BY DEF Strict
    <2>2. /\ Cardinality(Ahead(S, key, m)) \in Nat /\ Cardinality(Ahead(S, key, n)) \in Nat
          /\ Cardinality(Ahead(S, key, m)) # Cardinality(Ahead(S, key, n))
      BY <2>1, Standing
    <2> QED
      BY <2>2
  <1>3. \A i \in 1 .. N : \E n \in S : place[n] = i
    <2> HIDE DEF place
    <2>1. place \in Injection(S, 1 .. N)
      BY <1>1, <1>2, Fun_IsInj
    <2>2. IsFiniteSet(1 .. N) /\ Cardinality(1 .. N) = N
      BY <1>1, FS_Interval
    <2>3. place \in Surjection(S, 1 .. N)
      BY <2>1, <2>2, FS_Injection DEF N
    <2> QED
      BY <2>3, Fun_SurjectionProperties
  <1>4. ASSUME NEW i \in 1 .. N
        PROVE  f[i] \in S /\ Cardinality(Ahead(S, key, f[i])) = i - 1
    <2>1. f[i] = CHOOSE n \in S : Cardinality(Ahead(S, key, n)) = i - 1
      BY DEF Ordered, Ahead
    <2>2. \E n \in S : Cardinality(Ahead(S, key, n)) = i - 1
      <3>1. PICK n \in S : place[n] = i
        BY <1>3
      <3>2. Cardinality(Ahead(S, key, n)) \in Nat
        BY Standing
      <3> QED
        BY <3>1, <3>2
    <2> QED
      BY <2>1, <2>2
  <1>5. ASSUME NEW i \in 1 .. N, NEW n \in S, Cardinality(Ahead(S, key, n)) = i - 1
        PROVE  f[i] = n
    <2> HIDE DEF f
    <2>1. place[n] = place[f[i]]
      BY <1>4, <1>5
    <2> HIDE DEF place
    <2> QED
      BY <1>2, <1>4, <2>1
  <1>6. ASSUME NEW n \in S PROVE \E i \in 1 .. N : f[i] = n
    <2>1. place[n] \in 1 .. N /\ Cardinality(Ahead(S, key, n)) = place[n] - 1
      BY Standing
    <2> HIDE DEF place, f
    <2> QED
      BY <1>5, <2>1
  <1>7. ASSUME NEW i \in 1 .. N, NEW j \in 1 .. N, i < j PROVE Sooner(key[f[i]], key[f[j]])
    <2> HIDE DEF f
    <2>1. f[i] \in S /\ f[j] \in S /\ f[i] # f[j]
      BY <1>4, <1>7
    <2>2. ~Sooner(key[f[j]], key[f[i]])
      BY <1>4, <1>7, <2>1, Standing
    <2> QED
      BY <2>1, <2>2 DEF Strict
  <1>8. f \in [1 .. N -> S]
    <2>1. f = [i \in 1 .. N |-> f[i]]
      BY DEF Ordered
    <2> HIDE DEF f
    <2> QED
      BY <1>4, <2>1
  <1> HIDE DEF f
  <1>9. /\ f \in [1 .. N -> S]
        /\ \A i \in 1 .. N : Cardinality(Ahead(S, key, f[i])) = i - 1
        /\ \A i \in 1 .. N, n \in S : Cardinality(Ahead(S, key, n)) = i - 1 => f[i] = n
        /\ \A n \in S : \E i \in 1 .. N : f[i] = n
        /\ \A i, j \in 1 .. N : i < j => Sooner(key[f[i]], key[f[j]])
    BY <1>4, <1>5, <1>6, <1>7, <1>8
  <1> QED
    BY <1>9 DEF f

\* A sequence of the members of S, in the order of their keys.
Lists(g, N, S, key) ==
    /\ g \in [1 .. N -> S] /\ \A n \in S : \E i \in 1 .. N : g[i] = n
    /\ \A i, j \in 1 .. N : i < j => Sooner(key[g[i]], key[g[j]])

LEMMA OrderedLists ==
    ASSUME NEW S, IsFiniteSet(S), NEW key, Strict(S, key)
    PROVE  Lists(Ordered(S, key), Cardinality(S), S, key)
  BY OrderedFacts DEF Lists

LEMMA OrderedBy ==
    ASSUME NEW S, IsFiniteSet(S), NEW key, Strict(S, key), NEW N, N = Cardinality(S),
           NEW f, f = Ordered(S, key)
    PROVE  /\ f \in [1 .. N -> S]
           /\ \A n \in S : \E i \in 1 .. N : f[i] = n
           /\ \A i, j \in 1 .. N : i < j => Sooner(key[f[i]], key[f[j]])
  BY OrderedFacts

\* What lists the members by their keys is that order.
LEMMA OrderedIs ==
    ASSUME NEW S, IsFiniteSet(S), NEW key, Strict(S, key),
           NEW N \in Nat, NEW g, Lists(g, N, S, key)
    PROVE  Cardinality(S) = N /\ Ordered(S, key) = g
  <1> USE DEF Lists
  <1>1. \A i, j \in 1 .. N : g[i] = g[j] => i = j
    <2> SUFFICES ASSUME NEW i \in 1 .. N, NEW j \in 1 .. N, i < j PROVE g[i] # g[j]
      OBVIOUS
    <2> QED
      BY DEF Strict
  <1>2. Cardinality(S) = N
    <2>1. g \in Surjection(1 .. N, S) /\ g \in Injection(1 .. N, S)
      BY <1>1, Fun_IsInj, Fun_IsSurj
    <2>2. IsFiniteSet(1 .. N) /\ Cardinality(1 .. N) = N
      BY FS_Interval
    <2> QED
      BY <2>1, <2>2, FS_Surjection
  <1>3. ASSUME NEW i \in 1 .. N PROVE Cardinality(Ahead(S, key, g[i])) = i - 1
    <2> DEFINE A == Ahead(S, key, g[i])
               h == [j \in 1 .. i - 1 |-> g[j]]
    <2>1. ASSUME NEW j \in 1 .. i - 1 PROVE g[j] \in A
      <3>1. j \in 1 .. N /\ j < i
        OBVIOUS
      <3> QED
        BY <3>1 DEF Ahead
    <2>2. ASSUME NEW n \in A PROVE \E j \in 1 .. i - 1 : g[j] = n
      <3>1. n \in S /\ Sooner(key[n], key[g[i]])
        BY DEF Ahead
      <3>2. PICK j \in 1 .. N : g[j] = n
        BY <3>1
      <3>3. ~(i <= j)
        <4>1. CASE i = j
          BY <3>1, <3>2, <4>1 DEF Strict
        <4>2. CASE i < j
          <5>1. Sooner(key[g[i]], key[n])
            BY <3>2, <4>2
          <5> QED
            BY <3>1, <5>1 DEF Strict
        <4> QED
          BY <4>1, <4>2
      <3> QED
        BY <3>2, <3>3
    <2> HIDE DEF A
    <2>3. h \in [1 .. i - 1 -> A]
      BY <2>1
    <2>4. h \in Surjection(1 .. i - 1, A)
      <3>1. \A n \in A : \E j \in 1 .. i - 1 : h[j] = n
        BY <2>2
      <3> HIDE DEF h
      <3> QED
        BY <2>3, <3>1, Fun_IsSurj
    <2>5. h \in Injection(1 .. i - 1, A)
      <3>1. \A j, l \in 1 .. i - 1 : h[j] = h[l] => j = l
        BY <1>1
      <3> HIDE DEF h
      <3> QED
        BY <2>3, <3>1, Fun_IsInj
    <2>6. IsFiniteSet(1 .. i - 1) /\ Cardinality(1 .. i - 1) = i - 1
      BY FS_Interval
    <2> HIDE DEF h
    <2>7. Cardinality(A) = i - 1
      BY <2>4, <2>5, <2>6, FS_Surjection
    <2> QED
      BY <2>7 DEF A
  <1> DEFINE f == Ordered(S, key)
  <1>4. /\ f \in [1 .. N -> S]
        /\ \A i \in 1 .. N, n \in S : Cardinality(Ahead(S, key, n)) = i - 1 => f[i] = n
    BY <1>2, OrderedFacts
  <1> HIDE DEF f
  <1>5. \A i \in 1 .. N : f[i] = g[i]
    BY <1>3, <1>4
  <1>6. f = g
    BY <1>4, <1>5
  <1> QED
    BY <1>2, <1>6 DEF f

LEMMA SoonerOne == \A i, j : Sooner(<<i>>, <<j>>) <=> i < j
  <1> SUFFICES ASSUME NEW i, NEW j PROVE Sooner(<<i>>, <<j>>) <=> i < j
    OBVIOUS
  <1> PICK a, b : a = <<i>> /\ b = <<j>>
    OBVIOUS
  <1>1. DOMAIN a = {1} /\ a[1] = i /\ b[1] = j
    OBVIOUS
  <1>2. \A l \in 1 .. 1 - 1 : FALSE
    OBVIOUS
  <1>3. Sooner(a, b) <=> a[1] < b[1]
    BY <1>1, <1>2 DEF Sooner
  <1> QED
    BY <1>1, <1>3

LEMMA NumbersStrict ==
    ASSUME NEW T, T \subseteq Nat
    PROVE  /\ Strict(T, [i \in T |-> <<i>>])
           /\ \A i \in T : Ahead(T, [n \in T |-> <<n>>], i) = {h \in T : h < i}
  <1> DEFINE key == [i \in T |-> <<i>>]
  <1>1. \A a, b \in T : Sooner(key[a], key[b]) <=> a < b
    BY SoonerOne
  <1> HIDE DEF key
  <1>2. Strict(T, key)
    BY <1>1 DEF Strict
  <1>3. \A i \in T : Ahead(T, key, i) = {h \in T : h < i}
    BY <1>1 DEF Ahead
  <1> QED
    BY <1>2, <1>3 DEF key

-----------------------------------------------------------------------------
(***************************************************************************)
(* What is kept of a sequence, and its first members.                      *)
(***************************************************************************)
\* How many are kept before the i-th.
Earlier(s, S, i) == Cardinality({h \in 1 .. i - 1 : s[h] \in S})

LEMMA OnlyFacts ==
    ASSUME NEW X, NEW s \in Seq(X), NEW S, NEW t, t = Only(s, S)
    PROVE  /\ t \in Seq(X) /\ Len(t) \in 0 .. Len(s)
           /\ \A j \in 1 .. Len(t) : \E i \in 1 .. Len(s) :
                  t[j] = s[i] /\ s[i] \in S /\ Earlier(s, S, i) = j - 1
           /\ \A i \in 1 .. Len(s) : s[i] \in S =>
                  Earlier(s, S, i) + 1 \in 1 .. Len(t) /\ t[Earlier(s, S, i) + 1] = s[i]
  <1> DEFINE kept == {i \in DOMAIN s : s[i] \in S}
             key == [i \in kept |-> <<i>>]
             f == Ordered(kept, key)
             N == Cardinality(kept)
  <1>1. DOMAIN s = 1 .. Len(s) /\ Len(s) \in Nat /\ kept \subseteq 1 .. Len(s)
    OBVIOUS
  <1>2. IsFiniteSet(kept) /\ N \in 0 .. Len(s)
    <2> HIDE DEF kept, key, f
    <2>1. IsFiniteSet(1 .. Len(s)) /\ Cardinality(1 .. Len(s)) = Len(s)
      <3> PICK n \in Nat : n = Len(s)
        BY <1>1
      <3>1. IsFiniteSet(1 .. n) /\ Cardinality(1 .. n) = n
        BY Interval
      <3> QED
        BY <3>1
    <2>2. IsFiniteSet(kept) /\ N <= Len(s)
      <3> PICK T : T = 1 .. Len(s)
        OBVIOUS
      <3>1. IsFiniteSet(T) /\ Cardinality(T) = Len(s) /\ kept \in SUBSET T
        BY <1>1, <2>1
      <3> QED
        BY <3>1, FS_Subset
    <2>3. N \in Nat
      BY <2>2, FS_CardinalityType
    <2> QED
      BY <1>1, <2>2, <2>3
  <1>3. Strict(kept, key)
    <2>1. kept \subseteq Nat
      BY <1>1
    <2> HIDE DEF kept
    <2> QED
      BY <2>1, NumbersStrict
  <1>4. \A i \in kept : Cardinality(Ahead(kept, key, i)) = Earlier(s, S, i)
    <2> SUFFICES ASSUME NEW i \in kept PROVE Cardinality(Ahead(kept, key, i)) = Earlier(s, S, i)
      OBVIOUS
    <2>1. Ahead(kept, key, i) = {h \in kept : h < i}
      <3>1. kept \subseteq Nat
        BY <1>1
      <3> HIDE DEF kept
      <3> QED
        BY <3>1, NumbersStrict
    <2>2. {h \in kept : h < i} = {h \in 1 .. i - 1 : s[h] \in S}
      BY <1>1
    <2> HIDE DEF kept, key
    <2> QED
      BY <2>1, <2>2 DEF Earlier
  <1>5. t = [j \in 1 .. N |-> s[f[j]]]
    <2>1. DOMAIN f = 1 .. N
      BY DEF Ordered
    <2>2. t = [j \in DOMAIN f |-> s[f[j]]]
      BY DEF Only
    <2> HIDE DEF f, N
    <2> QED
      BY <2>1, <2>2
  <1>6. /\ f \in [1 .. N -> kept]
        /\ \A i \in 1 .. N : Cardinality(Ahead(kept, key, f[i])) = i - 1
        /\ \A i \in 1 .. N, n \in kept : Cardinality(Ahead(kept, key, n)) = i - 1 => f[i] = n
        /\ \A n \in kept : \E i \in 1 .. N : f[i] = n
    <2> HIDE DEF kept, key
    <2> QED
      BY <1>2, <1>3, OrderedFacts
  <1> HIDE DEF f, N, key
  <1>7. t \in Seq(X) /\ Len(t) = N
    <2>1. \A j \in 1 .. N : s[f[j]] \in X
      BY <1>1, <1>6
    <2> QED
      BY <1>2, <1>5, <2>1
  <1>8. ASSUME NEW j \in 1 .. N
        PROVE  \E i \in 1 .. Len(s) : t[j] = s[i] /\ s[i] \in S /\ Earlier(s, S, i) = j - 1
    <2>1. f[j] \in kept /\ Earlier(s, S, f[j]) = j - 1
      BY <1>4, <1>6
    <2>2. t[j] = s[f[j]]
      BY <1>5
    <2> QED
      BY <1>1, <2>1, <2>2
  <1>9. ASSUME NEW i \in 1 .. Len(s), s[i] \in S
        PROVE  Earlier(s, S, i) + 1 \in 1 .. N /\ t[Earlier(s, S, i) + 1] = s[i]
    <2>1. i \in kept
      BY <1>1, <1>9
    <2>2. PICK j \in 1 .. N : f[j] = i
      BY <1>6, <2>1
    <2>3. Earlier(s, S, i) = j - 1
      BY <1>4, <1>6, <2>1, <2>2
    <2>4. Earlier(s, S, i) + 1 = j
      BY <2>3
    <2> QED
      BY <1>5, <2>2, <2>4
  <1> QED
    BY <1>2, <1>7, <1>8, <1>9

LEMMA OnlyFrom ==
    ASSUME NEW X, NEW s \in Seq(X), NEW S, NEW t, t = Only(s, S), NEW j \in 1 .. Len(t)
    PROVE  \E i \in 1 .. Len(s) : t[j] = s[i] /\ s[i] \in S /\ Earlier(s, S, i) = j - 1
  BY OnlyFacts

LEMMA Alike ==
    ASSUME NEW X, NEW s \in Seq(X), NEW t \in Seq(X), Len(s) = Len(t),
           \A i \in 1 .. Len(s) : s[i] = t[i]
    PROVE  s = t
  OBVIOUS

LEMMA ToSetIs ==
    ASSUME NEW X, NEW s \in Seq(X)
    PROVE  /\ ToSet(s) \subseteq X
           /\ \A x : x \in ToSet(s) <=> \E i \in 1 .. Len(s) : s[i] = x
  BY DEF ToSet

LEMMA Listed ==
    ASSUME NEW s \in Seq(Nat), NEW i \in 1 .. Len(s)
    PROVE  s[i] \in ToSet(s)
  BY ToSetIs

LEMMA Where ==
    ASSUME NEW s \in Seq(Nat), NEW x \in ToSet(s)
    PROVE  \E i \in 1 .. Len(s) : s[i] = x
  BY ToSetIs

LEMMA OnlySet ==
    ASSUME NEW X, NEW s \in Seq(X), NEW S
    PROVE  ToSet(Only(s, S)) = ToSet(s) \cap S
  <1> PICK t : t = Only(s, S)
    OBVIOUS
  <1>0. /\ t \in Seq(X)
        /\ \A j \in 1 .. Len(t) : \E i \in 1 .. Len(s) :
               t[j] = s[i] /\ s[i] \in S /\ Earlier(s, S, i) = j - 1
        /\ \A i \in 1 .. Len(s) : s[i] \in S =>
               Earlier(s, S, i) + 1 \in 1 .. Len(t) /\ t[Earlier(s, S, i) + 1] = s[i]
    BY OnlyFacts
  <1>1. /\ \A j \in 1 .. Len(t) : \E i \in 1 .. Len(s) : t[j] = s[i] /\ s[i] \in S
        /\ \A i \in 1 .. Len(s) : s[i] \in S => \E j \in 1 .. Len(t) : t[j] = s[i]
    BY <1>0
  <1>2. \A x : x \in ToSet(t) <=> \E j \in 1 .. Len(t) : t[j] = x
    BY <1>0, ToSetIs
  <1>3. \A x : x \in ToSet(s) <=> \E i \in 1 .. Len(s) : s[i] = x
    BY ToSetIs
  <1>4. ASSUME NEW x PROVE x \in ToSet(t) <=> x \in ToSet(s) /\ x \in S
    <2>1. ASSUME x \in ToSet(t) PROVE x \in ToSet(s) /\ x \in S
      <3>1. PICK j \in 1 .. Len(t) : t[j] = x
        BY <1>2, <2>1
      <3>2. PICK i \in 1 .. Len(s) : t[j] = s[i] /\ s[i] \in S
        BY <1>1
      <3> QED
        BY <1>3, <3>1, <3>2
    <2>2. ASSUME x \in ToSet(s), x \in S PROVE x \in ToSet(t)
      <3>1. PICK i \in 1 .. Len(s) : s[i] = x
        BY <1>3, <2>2
      <3>2. PICK j \in 1 .. Len(t) : t[j] = s[i]
        BY <1>1, <2>2, <3>1
      <3> QED
        BY <1>2, <3>1, <3>2
    <2> QED
      BY <2>1, <2>2
  <1> QED
    BY <1>4

\* No member twice.
Once(s) == \A i, j \in 1 .. Len(s) : s[i] = s[j] => i = j

LEMMA ListingIs == ASSUME NEW s, Listing(s) PROVE s \in Seq(Nat) /\ Once(s)
  BY DEF Listing, IsInjective, Once

LEMMA OnlyOnce ==
    ASSUME NEW X, NEW s \in Seq(X), Once(s), NEW S
    PROVE  Once(Only(s, S))
  <1> PICK t : t = Only(s, S)
    OBVIOUS
  <1>1. \A j \in 1 .. Len(t) : \E i \in 1 .. Len(s) : t[j] = s[i] /\ Earlier(s, S, i) = j - 1
    BY OnlyFacts
  <1>2. ASSUME NEW j \in 1 .. Len(t), NEW l \in 1 .. Len(t), t[j] = t[l] PROVE j = l
    <2>1. PICK i \in 1 .. Len(s) : t[j] = s[i] /\ Earlier(s, S, i) = j - 1
      BY <1>1
    <2>2. PICK h \in 1 .. Len(s) : t[l] = s[h] /\ Earlier(s, S, h) = l - 1
      BY <1>1
    <2>3. i = h
      BY <1>2, <2>1, <2>2 DEF Once
    <2>4. j - 1 = l - 1
      BY <2>1, <2>2, <2>3
    <2> QED
      BY <2>4
  <1> QED
    BY <1>2 DEF Once

\* All that is kept is all there was.
LEMMA OnlyAll ==
    ASSUME NEW X, NEW s \in Seq(X), NEW S, ToSet(s) \subseteq S
    PROVE  Only(s, S) = s
  <1> PICK t : t = Only(s, S)
    OBVIOUS
  <1>0. \A i \in 1 .. Len(s) : s[i] \in S
    BY ToSetIs
  <1>1. ASSUME NEW i \in 1 .. Len(s) PROVE Earlier(s, S, i) = i - 1
    <2>1. {h \in 1 .. i - 1 : s[h] \in S} = 1 .. i - 1
      BY <1>0
    <2>2. Cardinality(1 .. i - 1) = i - 1
      BY FS_Interval
    <2> QED
      BY <2>1, <2>2 DEF Earlier
  <1>2. /\ t \in Seq(X) /\ Len(t) \in 0 .. Len(s)
        /\ \A i \in 1 .. Len(s) : s[i] \in S =>
                  Earlier(s, S, i) + 1 \in 1 .. Len(t) /\ t[Earlier(s, S, i) + 1] = s[i]
    BY OnlyFacts
  <1>3. \A i \in 1 .. Len(s) : i \in 1 .. Len(t) /\ t[i] = s[i]
    <2> SUFFICES ASSUME NEW i \in 1 .. Len(s) PROVE i \in 1 .. Len(t) /\ t[i] = s[i]
      OBVIOUS
    <2>1. Earlier(s, S, i) + 1 = i
      BY <1>1
    <2>2. Earlier(s, S, i) + 1 \in 1 .. Len(t) /\ t[Earlier(s, S, i) + 1] = s[i]
      BY <1>0, <1>2
    <2> QED
      BY <2>1, <2>2
  <1>4. Len(t) = Len(s)
    <2>1. Len(s) \in Nat /\ Len(t) \in Nat /\ (Len(s) > 0 => Len(s) \in 1 .. Len(s))
      BY <1>2
    <2> QED
      BY <1>2, <1>3, <2>1
  <1> QED
    BY <1>2, <1>3, <1>4

LEMMA FirstFacts ==
    ASSUME NEW X, NEW s \in Seq(X), NEW n \in Nat
    PROVE  /\ First(s, n) \in Seq(X)
           /\ Len(First(s, n)) = Lesser(n, Len(s))
           /\ Lesser(n, Len(s)) \in Nat
           /\ \A i \in 1 .. Lesser(n, Len(s)) : First(s, n)[i] = s[i]
  <1>1. PICK m : m = Lesser(n, Len(s))
    OBVIOUS
  <1>2. m \in 0 .. Len(s) /\ m = IF Len(s) < n THEN Len(s) ELSE n
    BY <1>1 DEF Lesser
  <1>3. SubSeq(s, 1, m) \in Seq(X) /\ Len(SubSeq(s, 1, m)) = m
        /\ \A i \in 1 .. m : SubSeq(s, 1, m)[i] = s[i]
    BY <1>2
  <1> QED
    BY <1>1, <1>2, <1>3 DEF First

LEMMA FirstAll ==
    ASSUME NEW X, NEW s \in Seq(X), NEW n \in Nat, Len(s) <= n
    PROVE  First(s, n) = s
  <1> PICK t : t = First(s, n)
    OBVIOUS
  <1>1. Lesser(n, Len(s)) = Len(s)
    BY DEF Lesser
  <1>2. t \in Seq(X) /\ Len(t) = Len(s) /\ \A i \in 1 .. Len(s) : t[i] = s[i]
    BY <1>1, FirstFacts
  <1> QED
    BY <1>2, Alike

\* The first of the first.
LEMMA FirstFirst ==
    ASSUME NEW X, NEW s \in Seq(X), NEW m \in Nat, NEW n \in Nat, n <= m \/ Len(s) <= m
    PROVE  First(First(s, m), n) = First(s, n)
  <1> PICK t, u, v : t = First(s, m) /\ u = First(t, n) /\ v = First(s, n)
    OBVIOUS
  <1>1. /\ t \in Seq(X) /\ Len(t) = Lesser(m, Len(s))
        /\ \A i \in 1 .. Lesser(m, Len(s)) : t[i] = s[i]
    BY FirstFacts
  <1>2. /\ u \in Seq(X) /\ Len(u) = Lesser(n, Len(t))
        /\ \A i \in 1 .. Lesser(n, Len(t)) : u[i] = t[i]
    BY <1>1, FirstFacts
  <1>3. /\ v \in Seq(X) /\ Len(v) = Lesser(n, Len(s))
        /\ \A i \in 1 .. Lesser(n, Len(s)) : v[i] = s[i]
    BY FirstFacts
  <1>4. Len(u) = Len(v) /\ \A i \in 1 .. Len(u) : i \in 1 .. Len(t)
    BY <1>1, <1>2, <1>3 DEF Lesser
  <1> QED
    BY <1>1, <1>2, <1>3, <1>4

\* What is kept of a beginning is a beginning of what is kept.
LEMMA OnlyBeginning ==
    ASSUME NEW X, NEW s \in Seq(X), NEW f \in Seq(X), NEW S,
           Len(f) <= Len(s), \A i \in 1 .. Len(f) : f[i] = s[i]
    PROVE  /\ Len(Only(f, S)) \in 0 .. Len(Only(s, S))
           /\ Only(f, S) = First(Only(s, S), Len(Only(f, S)))
  <1> PICK t : t = Only(s, S)
    OBVIOUS
  <1> PICK u : u = Only(f, S)
    OBVIOUS
  <1>1. Len(f) \in 0 .. Len(s)
    OBVIOUS
  <1>2. u \in Seq(X) /\ Len(u) \in 0 .. Len(f)
    BY OnlyFacts
  <1>3. /\ t \in Seq(X) /\ Len(t) \in Nat
        /\ \A i \in 1 .. Len(s) : s[i] \in S =>
                  Earlier(s, S, i) + 1 \in 1 .. Len(t) /\ t[Earlier(s, S, i) + 1] = s[i]
    BY OnlyFacts
  <1>4. ASSUME NEW j \in 1 .. Len(u) PROVE j \in 1 .. Len(t) /\ t[j] = u[j]
    <2>1. PICK i \in 1 .. Len(f) : u[j] = f[i] /\ f[i] \in S /\ Earlier(f, S, i) = j - 1
      BY OnlyFrom
    <2>2. i \in 1 .. Len(s) /\ s[i] = f[i]
      BY <1>1
    <2>3. {h \in 1 .. i - 1 : s[h] \in S} = {h \in 1 .. i - 1 : f[h] \in S}
      <3>1. \A h \in 1 .. i - 1 : h \in 1 .. Len(f)
        BY <1>1
      <3> QED
        BY <1>1, <3>1
    <2>4. Earlier(s, S, i) = j - 1
      BY <2>1, <2>3 DEF Earlier
    <2>5. Earlier(s, S, i) + 1 = j
      BY <2>4
    <2> QED
      BY <1>3, <2>1, <2>2, <2>5
  <1>5. Len(u) <= Len(t)
    <2>1. Len(u) > 0 => Len(u) \in 1 .. Len(u)
      BY <1>2
    <2> QED
      BY <1>2, <1>3, <1>4, <2>1
  <1>6. /\ First(t, Len(u)) \in Seq(X) /\ Len(First(t, Len(u))) = Len(u)
        /\ \A i \in 1 .. Len(u) : First(t, Len(u))[i] = t[i]
    BY <1>2, <1>3, <1>5, FirstFacts DEF Lesser
  <1>7. u = First(t, Len(u))
    BY <1>2, <1>4, <1>6
  <1> QED
    BY <1>2, <1>3, <1>5, <1>7

LEMMA OnlyFirst ==
    ASSUME NEW X, NEW s \in Seq(X), NEW n \in Nat, NEW S
    PROVE  /\ Len(Only(First(s, n), S)) \in 0 .. Len(Only(s, S))
           /\ Len(Only(First(s, n), S)) <= n
           /\ Only(First(s, n), S) = First(Only(s, S), Len(Only(First(s, n), S)))
  <1> PICK f : f = First(s, n)
    OBVIOUS
  <1>1. f \in Seq(X) /\ Len(f) <= Len(s) /\ Len(f) <= n /\ \A i \in 1 .. Len(f) : f[i] = s[i]
    BY FirstFacts DEF Lesser
  <1>2. Len(Only(f, S)) \in 0 .. Len(f) /\ Len(f) \in Nat
    BY <1>1, OnlyFacts
  <1> QED
    BY <1>1, <1>2, OnlyBeginning

-----------------------------------------------------------------------------
(***************************************************************************)
(* The fusions.                                                            *)
(***************************************************************************)
\* The rank of a node is its place in the leg.
LEMMA RankIs ==
    ASSUME NEW s \in Seq(Nat), Once(s), NEW n
    PROVE  /\ Rank(s, n) \in 0 .. Len(s)
           /\ \A i \in 1 .. Len(s) : s[i] = n => Rank(s, n) = i
           /\ Rank(s, n) = 0 <=> n \notin ToSet(s)
           /\ Rank(s, n) # 0 => s[Rank(s, n)] = n
  <1> DEFINE I == {i \in 1 .. Len(s) : s[i] = n}
  <1>1. Rank(s, n) = IF I # {} THEN Min(I) ELSE 0
    BY DEF Rank, SelectInSeq
  <1>2. n \in ToSet(s) <=> \E i \in 1 .. Len(s) : s[i] = n
    BY ToSetIs
  <1>3. CASE I = {}
    BY <1>1, <1>2, <1>3
  <1>4. CASE I # {}
    <2>1. PICK i \in 1 .. Len(s) : s[i] = n
      BY <1>4
    <2>2. I = {i}
      BY <2>1 DEF Once
    <2>3. Min({i}) = i
      BY DEF Min
    <2>4. Rank(s, n) = i
      BY <1>1, <2>2, <2>3
    <2>5. \A j \in 1 .. Len(s) : s[j] = n => j = i
      BY <2>1 DEF Once
    <2> QED
      BY <1>2, <2>1, <2>4, <2>5
  <1> QED
    BY <1>3, <1>4

LEMMA PointsAre ==
    ASSUME NEW weight \in Nat, NEW rank \in Nat
    PROVE  Points(weight, rank) \in Nat
  <1>1. CASE rank = 0
    BY <1>1 DEF Points
  <1>2. CASE rank # 0
    <2> PICK d : d = RrfK + rank
      OBVIOUS
    <2>1. d \in Nat /\ d > 0 /\ Scale \in Nat
      BY <1>2, RecallConstants
    <2>2. PICK e : e = Scale \div d
      OBVIOUS
    <2>3. e \in Nat
      BY <2>1, <2>2
    <2>4. weight * e \in Nat
      BY <2>3
    <2> QED
      BY <1>2, <2>2, <2>4 DEF Points
  <1> QED
    BY <1>1, <1>2

LEMMA SoonerFour ==
    ASSUME NEW a1, NEW a2, NEW a3, NEW a4, NEW b1, NEW b2, NEW b3, NEW b4
    PROVE  Sooner(<<a1, a2, a3, a4>>, <<b1, b2, b3, b4>>) <=>
             \/ a1 < b1
             \/ a1 = b1 /\ a2 < b2
             \/ a1 = b1 /\ a2 = b2 /\ a3 < b3
             \/ a1 = b1 /\ a2 = b2 /\ a3 = b3 /\ a4 < b4
  <1> PICK a : a = <<a1, a2, a3, a4>>
    OBVIOUS
  <1> PICK b : b = <<b1, b2, b3, b4>>
    OBVIOUS
  <1>1. /\ DOMAIN a = 1 .. 4 /\ a[1] = a1 /\ a[2] = a2 /\ a[3] = a3 /\ a[4] = a4
        /\ b[1] = b1 /\ b[2] = b2 /\ b[3] = b3 /\ b[4] = b4
    OBVIOUS
  <1>2. /\ 1 .. 1 - 1 = {} /\ 1 .. 2 - 1 = {1} /\ 1 .. 3 - 1 = {1, 2} /\ 1 .. 4 - 1 = {1, 2, 3}
        /\ 1 .. 4 = {1, 2, 3, 4}
    OBVIOUS
  <1>3. Sooner(a, b) <=> \E i \in {1, 2, 3, 4} : a[i] < b[i] /\ \A j \in 1 .. i - 1 : a[j] = b[j]
    BY <1>1, <1>2 DEF Sooner
  <1>4. Sooner(a, b) <=>
             \/ a[1] < b[1] /\ \A j \in 1 .. 1 - 1 : a[j] = b[j]
             \/ a[2] < b[2] /\ \A j \in 1 .. 2 - 1 : a[j] = b[j]
             \/ a[3] < b[3] /\ \A j \in 1 .. 3 - 1 : a[j] = b[j]
             \/ a[4] < b[4] /\ \A j \in 1 .. 4 - 1 : a[j] = b[j]
    BY <1>3
  <1>5. Sooner(a, b) <=>
             \/ a[1] < b[1]
             \/ a[2] < b[2] /\ a[1] = b[1]
             \/ a[3] < b[3] /\ a[1] = b[1] /\ a[2] = b[2]
             \/ a[4] < b[4] /\ a[1] = b[1] /\ a[2] = b[2] /\ a[3] = b[3]
    BY <1>2, <1>4
  <1> QED
    BY <1>1, <1>5

LEMMA Compared == \A x, y \in Int : x < y \/ y < x \/ x = y
  OBVIOUS

\* Numbers compared place by place, the last of them different, are a strict order.
Four(S, key, p, q, r, o) ==
    /\ p \in [S -> Int] /\ q \in [S -> Int] /\ r \in [S -> Int] /\ o \in [S -> Int]
    /\ \A m, n \in S : o[m] = o[n] => m = n
    /\ \A n \in S : key[n] = <<p[n], q[n], r[n], o[n]>>

LEMMA FourStrict ==
    ASSUME NEW S, NEW key, NEW p, NEW q, NEW r, NEW o, Four(S, key, p, q, r, o)
    PROVE  Strict(S, key)
  <1> USE DEF Four
  <1>1. ASSUME NEW m \in S, NEW n \in S
        PROVE  Sooner(key[m], key[n]) <=>
                  \/ p[m] < p[n]
                  \/ p[m] = p[n] /\ q[m] < q[n]
                  \/ p[m] = p[n] /\ q[m] = q[n] /\ r[m] < r[n]
                  \/ p[m] = p[n] /\ q[m] = q[n] /\ r[m] = r[n] /\ o[m] < o[n]
    <2>1. key[m] = <<p[m], q[m], r[m], o[m]>> /\ key[n] = <<p[n], q[n], r[n], o[n]>>
      OBVIOUS
    <2> QED
      BY <2>1, SoonerFour
  <1>2. \A n \in S : p[n] \in Int /\ q[n] \in Int /\ r[n] \in Int /\ o[n] \in Int
    OBVIOUS
  <1>3. ASSUME NEW a \in S PROVE ~Sooner(key[a], key[a])
    <2>1. ~(p[a] < p[a]) /\ ~(q[a] < q[a]) /\ ~(r[a] < r[a]) /\ ~(o[a] < o[a])
      BY <1>2
    <2> QED
      BY <1>1, <2>1
  <1>4. ASSUME NEW a \in S, NEW b \in S, NEW c \in S,
               Sooner(key[a], key[b]), Sooner(key[b], key[c])
        PROVE  Sooner(key[a], key[c])
    BY <1>1, <1>2, <1>4
  <1>5. ASSUME NEW a \in S, NEW b \in S, a # b
        PROVE  Sooner(key[a], key[b]) \/ Sooner(key[b], key[a])
    <2>1. o[a] # o[b]
      BY <1>5
    <2>2. /\ p[a] < p[b] \/ p[b] < p[a] \/ p[a] = p[b]
          /\ q[a] < q[b] \/ q[b] < q[a] \/ q[a] = q[b]
          /\ r[a] < r[b] \/ r[b] < r[a] \/ r[a] = r[b]
          /\ o[a] < o[b] \/ o[b] < o[a]
      BY <1>2, <2>1, Compared, Zenon
    <2>3. CASE p[a] # p[b]
      BY <1>1, <2>2, <2>3, Zenon
    <2>4. CASE p[a] = p[b] /\ q[a] # q[b]
      BY <1>1, <2>2, <2>4, Zenon
    <2>5. CASE p[a] = p[b] /\ q[a] = q[b] /\ r[a] # r[b]
      BY <1>1, <2>2, <2>5, Zenon
    <2>6. CASE p[a] = p[b] /\ q[a] = q[b] /\ r[a] = r[b]
      BY <1>1, <2>2, <2>6, Zenon
    <2> QED
      BY <2>3, <2>4, <2>5, <2>6
  <1> QED
    BY <1>3, <1>4, <1>5 DEF Strict


LEMMA MembersFinite ==
    ASSUME NEW X, NEW s \in Seq(X)
    PROVE  IsFiniteSet(ToSet(s))
  <1>1. Len(s) \in Nat /\ IsFiniteSet(1 .. Len(s))
    <2> PICK n \in Nat : n = Len(s)
      OBVIOUS
    <2> QED
      BY Interval
  <1>2. s \in [1 .. Len(s) -> ToSet(s)] /\ \A x \in ToSet(s) : \E i \in 1 .. Len(s) : s[i] = x
    <2>1. s \in [1 .. Len(s) -> X]
      OBVIOUS
    <2>2. \A i \in 1 .. Len(s) : s[i] \in ToSet(s)
      BY ToSetIs
    <2> QED
      BY <2>1, <2>2, ToSetIs
  <1>3. s \in Surjection(1 .. Len(s), ToSet(s))
    BY <1>2, Fun_IsSurj
  <1> QED
    BY <1>1, <1>3, FS_Surjection

\* The keys of the nodes two legs list, as both fusions compute them.
Nodes(a, b) == ToSet(a) \cup ToSet(b)
Score(a, b, w, n) == 0 - (Points(w[1], Rank(a, n)) + Points(w[2], Rank(b, n)))
Place(a, b, s, n) == IF Rank(s, n) = 0 THEN Len(a) + Len(b) + 1 ELSE Rank(s, n)
Row(a, b, w) ==
    [n \in Nodes(a, b) |-> <<Score(a, b, w, n), Place(a, b, a, n), Place(a, b, b, n), n>>]

LEMMA PlaceIs ==
    ASSUME NEW a \in Seq(Nat), NEW b \in Seq(Nat), Once(a), Once(b), NEW s \in {a, b}, NEW n
    PROVE  /\ Place(a, b, s, n) \in Nat
           /\ n \in ToSet(s) => Place(a, b, s, n) \in 1 .. Len(a) + Len(b)
                                /\ Place(a, b, s, n) = Rank(s, n)
           /\ n \notin ToSet(s) => Place(a, b, s, n) = Len(a) + Len(b) + 1
  <1>1. Len(a) \in Nat /\ Len(b) \in Nat /\ s \in Seq(Nat) /\ Once(s) /\ (s = a \/ s = b)
    OBVIOUS
  <1> PICK r : r = Rank(s, n)
    OBVIOUS
  <1>2. r \in 0 .. Len(s) /\ (r = 0 <=> n \notin ToSet(s))
    BY <1>1, RankIs
  <1>3. r \in Nat /\ r <= Len(a) + Len(b)
    BY <1>1, <1>2
  <1> QED
    BY <1>1, <1>2, <1>3 DEF Place

LEMMA PlacesDiffer ==
    ASSUME NEW a \in Seq(Nat), NEW b \in Seq(Nat), Once(a), Once(b),
           NEW m \in Nodes(a, b), NEW n \in Nodes(a, b), m # n
    PROVE  Place(a, b, a, m) # Place(a, b, a, n) \/ Place(a, b, b, m) # Place(a, b, b, n)
  <1>0. Len(a) + Len(b) + 1 \notin 1 .. Len(a) + Len(b)
    <2>1. Len(a) \in Nat /\ Len(b) \in Nat
      OBVIOUS
    <2> QED
      BY <2>1
  <1>1. ASSUME NEW s \in {a, b}, m \in ToSet(s)
        PROVE  Place(a, b, s, m) # Place(a, b, s, n)
    <2>0. s \in Seq(Nat) /\ Once(s)
      OBVIOUS
    <2>1. Place(a, b, s, m) \in 1 .. Len(a) + Len(b) /\ Place(a, b, s, m) = Rank(s, m)
      BY <1>1, PlaceIs
    <2>2. CASE n \in ToSet(s)
      <3>1. Place(a, b, s, n) = Rank(s, n)
        BY <2>2, PlaceIs
      <3>2. s[Rank(s, m)] = m /\ s[Rank(s, n)] = n
        BY <1>1, <2>0, <2>2, RankIs
      <3> QED
        BY <2>1, <3>1, <3>2
    <2>3. CASE n \notin ToSet(s)
      <3>1. Place(a, b, s, n) = Len(a) + Len(b) + 1
        BY <2>3, PlaceIs
      <3> QED
        BY <1>0, <2>1, <3>1
    <2> QED
      BY <2>2, <2>3
  <1> QED
    BY <1>1 DEF Nodes

LEMMA RowFacts ==
    ASSUME NEW a \in Seq(Nat), NEW b \in Seq(Nat), Once(a), Once(b), NEW w \in Nat \X Nat,
           NEW key, key = Row(a, b, w)
    PROVE  /\ IsFiniteSet(Nodes(a, b)) /\ Nodes(a, b) \subseteq Nat
           /\ \A n : Score(a, b, w, n) \in Int
           /\ Strict(Nodes(a, b), key)
           /\ \A m, n \in Nodes(a, b) : Sooner(key[m], key[n]) <=>
                  \/ Score(a, b, w, m) < Score(a, b, w, n)
                  \/ /\ Score(a, b, w, m) = Score(a, b, w, n)
                     /\ Place(a, b, a, m) < Place(a, b, a, n)
                  \/ /\ Score(a, b, w, m) = Score(a, b, w, n)
                     /\ Place(a, b, a, m) = Place(a, b, a, n)
                     /\ Place(a, b, b, m) < Place(a, b, b, n)
                  \/ /\ Score(a, b, w, m) = Score(a, b, w, n)
                     /\ Place(a, b, a, m) = Place(a, b, a, n)
                     /\ Place(a, b, b, m) = Place(a, b, b, n)
                     /\ m < n
  <1> PICK S : S = Nodes(a, b)
    OBVIOUS
  <1>1. IsFiniteSet(S) /\ S \subseteq Nat
    <2>1. IsFiniteSet(ToSet(a)) /\ IsFiniteSet(ToSet(b))
      BY MembersFinite
    <2>2. ToSet(a) \subseteq Nat /\ ToSet(b) \subseteq Nat
      BY ToSetIs
    <2> QED
      BY <2>1, <2>2, FS_Union DEF Nodes
  <1>2. ASSUME NEW n PROVE Score(a, b, w, n) \in Int
    <2>1. Rank(a, n) \in Nat /\ Rank(b, n) \in Nat
      BY RankIs
    <2>2. w[1] \in Nat /\ w[2] \in Nat
      OBVIOUS
    <2>3. Points(w[1], Rank(a, n)) \in Nat /\ Points(w[2], Rank(b, n)) \in Nat
      BY <2>1, <2>2, PointsAre
    <2> QED
      BY <2>3 DEF Score
  <1> PICK p : p = [n \in S |-> Score(a, b, w, n)]
    OBVIOUS
  <1> PICK q : q = [n \in S |-> Place(a, b, a, n)]
    OBVIOUS
  <1> PICK r : r = [n \in S |-> Place(a, b, b, n)]
    OBVIOUS
  <1> PICK o : o = [n \in S |-> n]
    OBVIOUS
  <1>3. p \in [S -> Int] /\ q \in [S -> Int] /\ r \in [S -> Int] /\ o \in [S -> Int]
    <2>1. \A n : Place(a, b, a, n) \in Nat /\ Place(a, b, b, n) \in Nat
      BY PlaceIs
    <2> QED
      BY <1>1, <1>2, <2>1
  <1>5. \A n \in S : p[n] = Score(a, b, w, n) /\ q[n] = Place(a, b, a, n)
                     /\ r[n] = Place(a, b, b, n) /\ o[n] = n
    OBVIOUS
  <1>4. \A n \in S : key[n] = <<p[n], q[n], r[n], o[n]>>
    BY <1>5 DEF Row
  <1>6. Strict(S, key)
    <2>1. Four(S, key, p, q, r, o)
      BY <1>3, <1>4, <1>5 DEF Four
    <2> QED
      BY <2>1, FourStrict
  <1>7. ASSUME NEW m \in S, NEW n \in S
        PROVE  Sooner(key[m], key[n]) <=>
                  \/ Score(a, b, w, m) < Score(a, b, w, n)
                  \/ /\ Score(a, b, w, m) = Score(a, b, w, n)
                     /\ Place(a, b, a, m) < Place(a, b, a, n)
                  \/ /\ Score(a, b, w, m) = Score(a, b, w, n)
                     /\ Place(a, b, a, m) = Place(a, b, a, n)
                     /\ Place(a, b, b, m) < Place(a, b, b, n)
                  \/ /\ Score(a, b, w, m) = Score(a, b, w, n)
                     /\ Place(a, b, a, m) = Place(a, b, a, n)
                     /\ Place(a, b, b, m) = Place(a, b, b, n)
                     /\ m < n
    <2>1. \A l \in S : key[l] = <<Score(a, b, w, l), Place(a, b, a, l), Place(a, b, b, l), l>>
      BY DEF Row
    <2>2. /\ key[m] = <<Score(a, b, w, m), Place(a, b, a, m), Place(a, b, b, m), m>>
          /\ key[n] = <<Score(a, b, w, n), Place(a, b, a, n), Place(a, b, b, n), n>>
      BY <2>1
    <2> QED
      BY <2>2, SoonerFour
  <1> QED
    BY <1>1, <1>2, <1>6, <1>7, Zenon

\* fused_hits_sql's order is that of the rows.
LEMMA SqlFusedIs ==
    ASSUME NEW a \in Seq(Nat), NEW b \in Seq(Nat), NEW w \in Nat \X Nat, NEW k \in Nat
    PROVE  SqlFused(<<a, b>>, w, k) = First(Ordered(Nodes(a, b), Row(a, b, w)), k)
  <1> PICK legs : legs = <<a, b>>
    OBVIOUS
  <1>1. legs[1] = a /\ legs[2] = b
    OBVIOUS
  <1> QED
    BY <1>1 DEF SqlFused, Row, Nodes, Score, Place, AbsentLast

\* What the second leg adds comes after the first.
LEMMA Appended ==
    ASSUME NEW a \in Seq(Nat), NEW b \in Seq(Nat), Once(a), Once(b),
           NEW c, c = a \o Only(b, ToSet(b) \ ToSet(a))
    PROVE  c \in Seq(Nat) /\ Once(c) /\ ToSet(c) = Nodes(a, b)
  <1> PICK d : d = Only(b, ToSet(b) \ ToSet(a))
    OBVIOUS
  <1>1. d \in Seq(Nat) /\ Once(d) /\ ToSet(d) = ToSet(b) \ ToSet(a)
    BY OnlyFacts, OnlyOnce, OnlySet
  <1>2. /\ c \in Seq(Nat) /\ Len(c) = Len(a) + Len(d)
        /\ Len(a) \in Nat /\ Len(d) \in Nat
        /\ \A i \in 1 .. Len(a) : c[i] = a[i]
        /\ \A i \in 1 .. Len(d) : c[Len(a) + i] = d[i]
    <2>1. c = a \o d
      OBVIOUS
    <2> QED
      BY <1>1, <2>1
  <1>3. ASSUME NEW i \in 1 .. Len(c)
        PROVE  \/ i \in 1 .. Len(a) /\ c[i] = a[i] /\ c[i] \in ToSet(a)
               \/ /\ i - Len(a) \in 1 .. Len(d) /\ c[i] = d[i - Len(a)]
                  /\ c[i] \in ToSet(d)
    <2>1. CASE i <= Len(a)
      <3>1. i \in 1 .. Len(a) /\ c[i] = a[i]
        BY <1>2, <2>1
      <3> QED
        BY <3>1, Listed
    <2>2. CASE ~(i <= Len(a))
      <3> PICK l : l = i - Len(a)
        OBVIOUS
      <3>1. l \in 1 .. Len(d) /\ i = Len(a) + l
        BY <1>2, <2>2
      <3>2. c[i] = d[l]
        BY <1>2, <3>1
      <3>3. d[l] \in ToSet(d)
        BY <1>1, <3>1, Listed
      <3> QED
        BY <3>1, <3>2, <3>3
    <2> QED
      BY <2>1, <2>2
  <1>4. ToSet(a) \cap ToSet(d) = {}
    BY <1>1
  <1>5. ASSUME NEW i \in 1 .. Len(c), NEW j \in 1 .. Len(c), c[i] = c[j] PROVE i = j
    <2>1. CASE c[i] \in ToSet(a)
      <3>1. i \in 1 .. Len(a) /\ c[i] = a[i] /\ j \in 1 .. Len(a) /\ c[j] = a[j]
        BY <1>3, <1>4, <1>5, <2>1
      <3> QED
        BY <1>5, <3>1 DEF Once
    <2>2. CASE c[i] \notin ToSet(a)
      <3>1. /\ i - Len(a) \in 1 .. Len(d) /\ c[i] = d[i - Len(a)]
            /\ j - Len(a) \in 1 .. Len(d) /\ c[j] = d[j - Len(a)]
        BY <1>3, <1>5, <2>2
      <3>2. i - Len(a) = j - Len(a)
        BY <1>1, <1>5, <3>1 DEF Once
      <3> QED
        BY <1>2, <3>2
    <2> QED
      BY <2>1, <2>2
  <1>6. ASSUME NEW x PROVE x \in ToSet(c) <=> x \in Nodes(a, b)
    <2>1. x \in ToSet(c) => x \in ToSet(a) \/ x \in ToSet(d)
      BY <1>2, <1>3, Where
    <2>2. ASSUME x \in ToSet(a) PROVE x \in ToSet(c)
      <3>1. PICK i \in 1 .. Len(a) : a[i] = x
        BY <2>2, Where
      <3>2. i \in 1 .. Len(c) /\ c[i] = x
        BY <1>2, <3>1
      <3> QED
        BY <1>2, <3>2, Listed
    <2>3. ASSUME x \in ToSet(d) PROVE x \in ToSet(c)
      <3>1. PICK i \in 1 .. Len(d) : d[i] = x
        BY <1>1, <2>3, Where
      <3>2. Len(a) + i \in 1 .. Len(c) /\ c[Len(a) + i] = x
        <4>1. c[Len(a) + i] = d[i]
          BY <1>2
        <4>2. Len(a) + i \in 1 .. Len(c)
          BY <1>2
        <4> QED
          BY <3>1, <4>1, <4>2
      <3> QED
        BY <1>2, <3>2, Listed
    <2> QED
      BY <1>1, <2>1, <2>2, <2>3 DEF Nodes
  <1> QED
    BY <1>2, <1>5, <1>6 DEF Once

\* rrf_fuse's order is that of the rows too: where the scores and both ranks are
\* equal, it is the same node.
LEMMA FuseIs ==
    ASSUME NEW a \in Seq(Nat), NEW b \in Seq(Nat), Once(a), Once(b), NEW w \in Nat \X Nat
    PROVE  RrfFuse(a, b, w) = Ordered(Nodes(a, b), Row(a, b, w))
  <1>order. PICK order : order = a \o Only(b, ToSet(b) \ ToSet(a))
    OBVIOUS
  <1>L. PICK L : L = Len(order)
    OBVIOUS
  <1>D. PICK D : D = 1 .. L
    OBVIOUS
  <1>key. PICK key : key = Row(a, b, w)
    OBVIOUS
  <1>1. order \in Seq(Nat) /\ Once(order) /\ ToSet(order) = Nodes(a, b)
    BY <1>order, Appended
  <1>2. L \in Nat /\ DOMAIN order = D /\ \A i \in D : order[i] \in Nodes(a, b)
    <2>1. L \in Nat /\ DOMAIN order = D
      BY <1>1, <1>L, <1>D
    <2>2. \A i \in D : order[i] \in ToSet(order)
      BY <1>1, <1>L, <1>D, Listed
    <2> QED
      BY <1>1, <2>1, <2>2
  <1>p. PICK p : p = [i \in D |-> Score(a, b, w, order[i])]
    OBVIOUS
  <1>q. PICK q : q = [i \in D |-> Place(a, b, a, order[i])]
    OBVIOUS
  <1>r. PICK r : r = [i \in D |-> Place(a, b, b, order[i])]
    OBVIOUS
  <1>o. PICK o : o = [i \in D |-> i]
    OBVIOUS
  <1>entry. PICK entry : entry = [i \in D |-> <<p[i], q[i], r[i], o[i]>>]
    OBVIOUS
  <1>3. p \in [D -> Int] /\ q \in [D -> Int] /\ r \in [D -> Int] /\ o \in [D -> Int]
    <2>1. \A n : /\ Place(a, b, a, n) \in Nat /\ Place(a, b, b, n) \in Nat
                 /\ Score(a, b, w, n) \in Int
      BY PlaceIs, RowFacts
    <2>2. D \subseteq Int
      BY <1>2, <1>D
    <2> QED
      BY <2>1, <2>2, <1>p, <1>q, <1>r, <1>o
  <1>4. Strict(D, entry)
    <2>1. Four(D, entry, p, q, r, o)
      BY <1>3, <1>o, <1>entry DEF Four
    <2> QED
      BY <2>1, FourStrict
  <1>5. IsFiniteSet(D) /\ Cardinality(D) = L
    BY <1>2, <1>D, Interval
  <1>f. PICK f : f = Ordered(D, entry)
    OBVIOUS
  <1>6. /\ f \in [1 .. L -> D]
        /\ \A n \in D : \E i \in 1 .. L : f[i] = n
        /\ \A i, j \in 1 .. L : i < j => Sooner(entry[f[i]], entry[f[j]])
    BY <1>4, <1>5, <1>f, OrderedBy
  <1>g. PICK g : g = [i \in 1 .. L |-> order[f[i]]]
    OBVIOUS
  <1>7. RrfFuse(a, b, w) = g
    <2>1. entry = [i \in DOMAIN order |->
                     << 0 - (Points(w[1], Rank(a, order[i])) + Points(w[2], Rank(b, order[i]))),
                        IF Rank(a, order[i]) = 0 THEN Len(a) + Len(b) + 1 ELSE Rank(a, order[i]),
                        IF Rank(b, order[i]) = 0 THEN Len(a) + Len(b) + 1 ELSE Rank(b, order[i]),
                        i >>]
      BY <1>2, <1>p, <1>q, <1>r, <1>o, <1>entry DEF Score, Place
    <2>2. RrfFuse(a, b, w) = [i \in DOMAIN f |-> order[f[i]]]
      BY <1>2, <1>order, <1>f, <2>1 DEF RrfFuse
    <2> QED
      BY <1>6, <1>g, <2>2
  <1>8. /\ g \in [1 .. L -> Nodes(a, b)]
        /\ \A n \in Nodes(a, b) : \E i \in 1 .. L : g[i] = n
    <2>1. \A i \in 1 .. L : f[i] \in D /\ g[i] = order[f[i]]
      BY <1>6, <1>g
    <2>2. ASSUME NEW n \in Nodes(a, b) PROVE \E i \in 1 .. L : g[i] = n
      <3>1. PICK h \in 1 .. Len(order) : order[h] = n
        BY <1>1, <1>L, <2>2, Where
      <3>2. PICK i \in 1 .. L : f[i] = h
        BY <1>6, <1>D, <1>L, <3>1
      <3> QED
        BY <2>1, <3>1, <3>2
    <2> QED
      BY <1>2, <1>g, <2>1, <2>2
  <1>9. ASSUME NEW i \in 1 .. L, NEW j \in 1 .. L, i < j PROVE Sooner(key[g[i]], key[g[j]])
    <2>m. PICK m : m = g[i]
      OBVIOUS
    <2>n. PICK n : n = g[j]
      OBVIOUS
    <2>1. m \in Nodes(a, b) /\ n \in Nodes(a, b) /\ m = order[f[i]] /\ n = order[f[j]]
          /\ f[i] \in D /\ f[j] \in D
      BY <1>6, <1>8, <1>g, <2>m, <2>n
    <2>2. Sooner(entry[f[i]], entry[f[j]])
      BY <1>6, <1>9
    <2>3. m # n
      <3>1. f[i] # f[j]
        BY <1>4, <2>1, <2>2 DEF Strict
      <3> QED
        BY <1>1, <1>L, <1>D, <2>1, <3>1 DEF Once
    <2>4. Place(a, b, a, m) # Place(a, b, a, n) \/ Place(a, b, b, m) # Place(a, b, b, n)
      BY <2>1, <2>3, PlacesDiffer
    <2>5. /\ entry[f[i]] = <<Score(a, b, w, m), Place(a, b, a, m), Place(a, b, b, m), f[i]>>
          /\ entry[f[j]] = <<Score(a, b, w, n), Place(a, b, a, n), Place(a, b, b, n), f[j]>>
      BY <2>1, <1>p, <1>q, <1>r, <1>o, <1>entry
    <2>6. \/ Score(a, b, w, m) < Score(a, b, w, n)
          \/ /\ Score(a, b, w, m) = Score(a, b, w, n)
             /\ Place(a, b, a, m) < Place(a, b, a, n)
          \/ /\ Score(a, b, w, m) = Score(a, b, w, n)
             /\ Place(a, b, a, m) = Place(a, b, a, n)
             /\ Place(a, b, b, m) < Place(a, b, b, n)
          \/ /\ Score(a, b, w, m) = Score(a, b, w, n)
             /\ Place(a, b, a, m) = Place(a, b, a, n)
             /\ Place(a, b, b, m) = Place(a, b, b, n)
             /\ f[i] < f[j]
      BY <2>2, <2>5, SoonerFour
    <2>7. Sooner(key[m], key[n])
      <3>1. /\ key[m] = <<Score(a, b, w, m), Place(a, b, a, m), Place(a, b, b, m), m>>
            /\ key[n] = <<Score(a, b, w, n), Place(a, b, a, n), Place(a, b, b, n), n>>
        BY <2>1, <1>key DEF Row
      <3> QED
        BY <2>4, <2>6, <3>1, SoonerFour
    <2> QED
      BY <2>m, <2>n, <2>7
  <1>10. IsFiniteSet(Nodes(a, b)) /\ Strict(Nodes(a, b), key)
    BY <1>key, RowFacts
  <1>11. \A i, j \in 1 .. L : i < j => Sooner(key[g[i]], key[g[j]])
    BY <1>9
  <1>12. Ordered(Nodes(a, b), key) = g
    <2>1. PICK S : S = Nodes(a, b)
      OBVIOUS
    <2>2. IsFiniteSet(S) /\ Strict(S, key) /\ L \in Nat /\ Lists(g, L, S, key)
      BY <1>2, <1>8, <1>10, <1>11, <2>1 DEF Lists
    <2>3. Ordered(S, key) = g
      BY <2>2, OrderedIs
    <2> QED
      BY <2>1, <2>3
  <1> QED
    BY <1>key, <1>7, <1>12

-----------------------------------------------------------------------------
(***************************************************************************)
(* The searches.                                                           *)
(***************************************************************************)
LEMMA FirstOnce ==
    ASSUME NEW s \in Seq(Nat), Once(s), NEW n \in Nat
    PROVE  First(s, n) \in Seq(Nat) /\ Once(First(s, n))
  <1>1. PICK t : t = First(s, n)
    OBVIOUS
  <1>2. /\ t \in Seq(Nat) /\ Len(t) = Lesser(n, Len(s))
        /\ \A i \in 1 .. Lesser(n, Len(s)) : t[i] = s[i]
    BY <1>1, FirstFacts
  <1>3. \A i \in 1 .. Len(t) : i \in 1 .. Len(s) /\ t[i] = s[i]
    BY <1>2 DEF Lesser
  <1> QED
    BY <1>1, <1>2, <1>3 DEF Once

LEMMA DepthIs ==
    ASSUME NEW k \in Nat
    PROVE  Depth(k) \in Nat /\ Depth(k) > 0 /\ k <= Depth(k)
  <1>1. PICK f : f = LegFactor
    OBVIOUS
  <1>2. PICK g : g = Greater(k, 1)
    OBVIOUS
  <1>3. f \in Nat /\ f > 0 /\ g \in Nat /\ g > 0 /\ k <= g
    BY <1>1, <1>2, RecallConstants DEF Greater
  <1>4. g * f \in Nat /\ g <= g * f
    BY <1>3
  <1> QED
    BY <1>1, <1>2, <1>3, <1>4 DEF Depth

LEMMA KnnIs ==
    ASSUME NEW q, IsSearch(q)
    PROVE  Knn(q) \in Seq(Nat) /\ Once(Knn(q)) /\ KnnK(Depth(q.k)) \in Nat
  <1>1. q.near \in Seq(Nat) /\ Once(q.near)
    BY ListingIs DEF IsSearch
  <1>2. q.k \in Nat
    BY DEF IsSearch
  <1>3. OverFetch \in Nat /\ KnnMaxK \in Nat /\ Depth(q.k) \in Nat
    BY <1>2, DepthIs, RecallConstants
  <1>4. KnnK(Depth(q.k)) \in Nat
    <2>1. PICK n \in Nat : n = OverFetch * Depth(q.k)
      BY <1>3
    <2> QED
      BY <1>3, <2>1 DEF KnnK, Lesser, Greater
  <1> QED
    BY <1>1, <1>4, FirstOnce DEF Knn

LEMMA LegIs ==
    ASSUME NEW q, IsSearch(q), NEW s \in Seq(Nat), Once(s)
    PROVE  Leg(s, q) \in Seq(Nat) /\ Once(Leg(s, q))
  <1>1. Only(s, q.seen) \in Seq(Nat) /\ Once(Only(s, q.seen))
    BY OnlyFacts, OnlyOnce
  <1>2. Depth(q.k) \in Nat
    BY DepthIs DEF IsSearch
  <1> QED
    BY <1>1, <1>2, FirstOnce DEF Leg

LEMMA LegsAre ==
    ASSUME NEW q, IsSearch(q)
    PROVE  \E a, b \in Seq(Nat) :
             /\ Legs(q) = <<a, b>> /\ Once(a) /\ Once(b)
             /\ a = IF q.weight[1] = 0 THEN <<>> ELSE Leg(Knn(q), q)
             /\ b = IF q.weight[2] = 0 THEN <<>> ELSE Leg(q.words, q)
  <1>1. PICK a : a = IF q.weight[1] = 0 THEN <<>> ELSE Leg(Knn(q), q)
    OBVIOUS
  <1>2. PICK b : b = IF q.weight[2] = 0 THEN <<>> ELSE Leg(q.words, q)
    OBVIOUS
  <1>3. q.weight[1] \in Nat /\ q.weight[2] \in Nat
    BY DEF IsSearch
  <1>4. Legs(q) = <<a, b>>
    BY <1>1, <1>2, <1>3 DEF Legs, LegIsOn
  <1>5. <<>> \in Seq(Nat) /\ Once(<<>>)
    BY DEF Once
  <1>6. Leg(Knn(q), q) \in Seq(Nat) /\ Once(Leg(Knn(q), q))
    BY KnnIs, LegIs
  <1>7. q.words \in Seq(Nat) /\ Once(q.words)
    BY ListingIs DEF IsSearch
  <1>8. Leg(q.words, q) \in Seq(Nat) /\ Once(Leg(q.words, q))
    BY <1>7, LegIs
  <1> QED
    BY <1>1, <1>2, <1>4, <1>5, <1>6, <1>8

LEMMA Agreement ==
    ASSUME NEW q, IsSearch(q)
    PROVE  LET legs == Legs(q)
           IN  Direct(q) = First(RrfFuse(legs[1], legs[2], q.weight), q.k)
  <1>1. PICK a \in Seq(Nat), b \in Seq(Nat) : Legs(q) = <<a, b>> /\ Once(a) /\ Once(b)
    BY LegsAre
  <1>2. q.weight \in Nat \X Nat /\ q.k \in Nat
    BY DEF IsSearch
  <1>3. Direct(q) = First(Ordered(Nodes(a, b), Row(a, b, q.weight)), q.k)
    BY <1>1, <1>2, SqlFusedIs DEF Direct
  <1>4. RrfFuse(a, b, q.weight) = Ordered(Nodes(a, b), Row(a, b, q.weight))
    BY <1>1, <1>2, FuseIs
  <1> QED
    BY <1>1, <1>3, <1>4

\* What is asked is one of the questions.
Asking == asked \in Questions \cup {None}

LEMMA AskingInit == Init => Asking
  BY DEF Init, Asking

LEMMA AskingNext == Asking /\ [Next]_vars => Asking'
  <1> SUFFICES ASSUME Asking, [Next]_vars PROVE Asking'
    OBVIOUS
  <1> USE DEF Asking
  <1>1. CASE Receive
    BY <1>1 DEF Receive
  <1>2. CASE Respond
    BY <1>2 DEF Respond
  <1>3. CASE Send \/ Join \/ CommitLands \/ Stop \/ Leave \/ Crash \/ UNCHANGED vars
    BY <1>3 DEF Send, Join, CommitLands, Stop, Leave, Crash, vars, handler
  <1>4. CASE CopyAside \/ PublishResult \/ Refuse \/ Park \/ CommitMessage
    BY <1>4 DEF CopyAside, PublishResult, Refuse, Park, CommitMessage
  <1> QED
    BY <1>1, <1>2, <1>3, <1>4 DEF Next, Handle

LEMMA Searching ==
    ASSUME Asking
    PROVE  /\ ReadsStm => IsSearch(asked.stm)
           /\ ReadsLtm => IsRecall(asked.ltm)
           /\ asked # None /\ asked.scope = "stm_map" => IsMap(asked.map)
  BY DoorConstants DEF Asking, ReadsStm, ReadsLtm

-----------------------------------------------------------------------------
(***************************************************************************)
(* What cannot be seen.                                                    *)
(***************************************************************************)
LEMMA NothingOrdered ==
    ASSUME NEW key
    PROVE  Ordered({}, key) = <<>>
  <1>1. Cardinality({}) = 0
    BY FS_EmptySet
  <1> QED
    BY <1>1 DEF Ordered

LEMMA FirstSet ==
    ASSUME NEW s \in Seq(Nat), NEW n \in Nat
    PROVE  ToSet(First(s, n)) \subseteq ToSet(s)
  <1>1. PICK t : t = First(s, n)
    OBVIOUS
  <1>2. t \in Seq(Nat) /\ \A i \in 1 .. Len(t) : i \in 1 .. Len(s) /\ t[i] = s[i]
    BY <1>1, FirstFacts DEF Lesser
  <1>3. ASSUME NEW x \in ToSet(t) PROVE x \in ToSet(s)
    <2>1. PICK i \in 1 .. Len(t) : t[i] = x
      BY <1>2, Where
    <2>2. i \in 1 .. Len(s) /\ s[i] = x
      BY <1>2, <2>1
    <2> QED
      BY <2>2, Listed
  <1> QED
    BY <1>1, <1>3

\* A fusion lists the nodes of its legs.
LEMMA FusionLists ==
    ASSUME NEW a \in Seq(Nat), NEW b \in Seq(Nat), Once(a), Once(b), NEW w \in Nat \X Nat,
           NEW f, f = Ordered(Nodes(a, b), Row(a, b, w))
    PROVE  f \in Seq(Nat) /\ ToSet(f) = Nodes(a, b)
  <1>1. PICK S : S = Nodes(a, b)
    OBVIOUS
  <1>2. PICK key : key = Row(a, b, w)
    OBVIOUS
  <1>3. IsFiniteSet(S) /\ S \subseteq Nat /\ Strict(S, key)
    BY <1>1, <1>2, RowFacts
  <1>4. PICK N : N = Cardinality(S)
    OBVIOUS
  <1>5. N \in Nat
    BY <1>3, <1>4, FS_CardinalityType
  <1>6. f = Ordered(S, key)
    BY <1>1, <1>2
  <1>7. f \in [1 .. N -> S] /\ \A n \in S : \E i \in 1 .. N : f[i] = n
    <2>1. Lists(f, N, S, key)
      BY <1>3, <1>4, <1>6, OrderedLists
    <2> QED
      BY <2>1 DEF Lists
  <1>8. f \in Seq(Nat) /\ Len(f) = N
    <2>1. f \in [1 .. N -> Nat]
      BY <1>3, <1>7
    <2> QED
      BY <1>5, <2>1
  <1>9. \A x : x \in ToSet(f) <=> \E i \in 1 .. N : f[i] = x
    BY <1>8, Listed, Where
  <1> QED
    BY <1>1, <1>7, <1>9

LEMMA DirectIs ==
    ASSUME NEW q, IsSearch(q), NEW a \in Seq(Nat), NEW b \in Seq(Nat),
           Once(a), Once(b), Legs(q) = <<a, b>>
    PROVE  /\ Direct(q) = First(Ordered(Nodes(a, b), Row(a, b, q.weight)), q.k)
           /\ Direct(q) \in Seq(Nat) /\ ToSet(Direct(q)) \subseteq Nodes(a, b)
  <1>1. q.weight \in Nat \X Nat /\ q.k \in Nat
    BY DEF IsSearch
  <1>2. PICK f : f = Ordered(Nodes(a, b), Row(a, b, q.weight))
    OBVIOUS
  <1>3. f \in Seq(Nat) /\ ToSet(f) = Nodes(a, b)
    BY <1>1, <1>2, FusionLists
  <1>4. Direct(q) = First(f, q.k)
    BY <1>1, <1>2, SqlFusedIs DEF Direct
  <1>5. First(f, q.k) \in Seq(Nat) /\ ToSet(First(f, q.k)) \subseteq ToSet(f)
    BY <1>1, <1>3, FirstSet, FirstFacts
  <1> QED
    BY <1>2, <1>3, <1>4, <1>5

LEMMA LegSet ==
    ASSUME NEW q, IsSearch(q), NEW s \in Seq(Nat)
    PROVE  ToSet(Leg(s, q)) \subseteq ToSet(s) \cap q.seen
  <1>1. PICK t : t = Only(s, q.seen)
    OBVIOUS
  <1>2. t \in Seq(Nat) /\ ToSet(t) = ToSet(s) \cap q.seen
    BY <1>1, OnlyFacts, OnlySet
  <1>3. Depth(q.k) \in Nat
    BY DepthIs DEF IsSearch
  <1> QED
    BY <1>1, <1>2, <1>3, FirstSet DEF Leg

\* The direct hits can be seen.
LEMMA DirectSeen ==
    ASSUME NEW q, IsSearch(q)
    PROVE  Direct(q) \in Seq(Nat) /\ ToSet(Direct(q)) \subseteq q.seen
  <1>1. PICK a \in Seq(Nat), b \in Seq(Nat) :
             /\ Legs(q) = <<a, b>> /\ Once(a) /\ Once(b)
             /\ a = IF q.weight[1] = 0 THEN <<>> ELSE Leg(Knn(q), q)
             /\ b = IF q.weight[2] = 0 THEN <<>> ELSE Leg(q.words, q)
    BY LegsAre
  <1>2. Knn(q) \in Seq(Nat) /\ q.words \in Seq(Nat)
    BY KnnIs, ListingIs DEF IsSearch
  <1>3. ToSet(Leg(Knn(q), q)) \subseteq q.seen /\ ToSet(Leg(q.words, q)) \subseteq q.seen
    BY <1>2, LegSet
  <1>4. ToSet(<<>>) = {}
    BY DEF ToSet
  <1>5. ToSet(a) \subseteq q.seen /\ ToSet(b) \subseteq q.seen
    BY <1>1, <1>3, <1>4
  <1>6. Direct(q) \in Seq(Nat) /\ ToSet(Direct(q)) \subseteq Nodes(a, b)
    BY <1>1, DirectIs
  <1> QED
    BY <1>5, <1>6 DEF Nodes

\* What joins the direct hits.
Around(q) ==
    LET joined == Neighbours(q, ToSet(Direct(q)))
    IN  Ordered(joined, [n \in joined |-> <<n>>])

\* A search without a leg to ask finds nothing by its own steps.
LEMMA StmHitsAre ==
    ASSUME NEW q, IsSearch(q)
    PROVE  StmHits(q) = First(Direct(q) \o Around(q), q.k)
  <1>1. q.weight[1] \in Nat /\ q.weight[2] \in Nat /\ q.k \in Nat
    BY DEF IsSearch
  <1>2. ASSUME q.weight[1] = 0, q.weight[2] = 0 \/ q.words = <<>>
        PROVE  First(Direct(q) \o Around(q), q.k) = <<>>
    <2>1. PICK a \in Seq(Nat), b \in Seq(Nat) :
             /\ Legs(q) = <<a, b>> /\ Once(a) /\ Once(b)
             /\ a = IF q.weight[1] = 0 THEN <<>> ELSE Leg(Knn(q), q)
             /\ b = IF q.weight[2] = 0 THEN <<>> ELSE Leg(q.words, q)
      BY LegsAre
    <2>2. ToSet(<<>>) = {} /\ <<>> \in Seq(Nat)
      BY DEF ToSet
    <2>3. q.words = <<>> => ToSet(Leg(q.words, q)) = {}
      BY <2>2, LegSet
    <2>4. ToSet(a) = {} /\ ToSet(b) = {}
      BY <1>2, <2>1, <2>2, <2>3
    <2>5. Direct(q) \in Seq(Nat) /\ ToSet(Direct(q)) = {}
      BY <2>1, <2>4, DirectIs DEF Nodes
    <2>6. Direct(q) = <<>>
      <3>1. Len(Direct(q)) = 0
        <4>1. Len(Direct(q)) # 0 => 1 \in 1 .. Len(Direct(q))
          BY <2>5
        <4> QED
          BY <2>5, <4>1, Listed
      <3> QED
        BY <2>5, <3>1
    <2>7. Neighbours(q, {}) = {}
      BY DEF Neighbours
    <2>8. Around(q) = <<>>
      BY <2>5, <2>7, NothingOrdered DEF Around
    <2>9. <<>> \o <<>> = <<>> /\ Len(<<>>) <= q.k
      BY <1>1
    <2> QED
      BY <1>1, <2>2, <2>6, <2>8, <2>9, FirstAll
  <1>3. StmHits(q) = IF q.weight[1] = 0 /\ (q.weight[2] = 0 \/ q.words = <<>>) THEN <<>>
                     ELSE First(Direct(q) \o Around(q), q.k)
    BY <1>1 DEF StmHits, Around, LegIsOn
  <1> QED
    BY <1>2, <1>3

LEMMA IsListing == ASSUME NEW s \in Seq(Nat), Once(s) PROVE Listing(s)
  BY DEF Listing, IsInjective, Once

LEMMA UnseenIs ==
    ASSUME NEW q, IsSearch(q), NEW u, u = Unseen(q)
    PROVE  /\ IsSearch(u)
           /\ u.near = Only(q.near, q.seen) /\ u.words = Only(q.words, q.seen)
           /\ u.edges = q.edges \cap (q.seen \X q.seen)
           /\ u.seen = q.seen /\ u.k = q.k /\ u.weight = q.weight
  <1>1. q \in [near : Seq(Nat), words : Seq(Nat), seen : SUBSET Nat,
                edges : SUBSET (Nat \X Nat), k : Nat, weight : Nat \X Nat]
    BY DEF IsSearch
  <1>2. q.near \in Seq(Nat) /\ Once(q.near) /\ q.words \in Seq(Nat) /\ Once(q.words)
    BY ListingIs DEF IsSearch
  <1>3. PICK n : n = Only(q.near, q.seen)
    OBVIOUS
  <1>4. PICK w : w = Only(q.words, q.seen)
    OBVIOUS
  <1>5. PICK e : e = q.edges \cap (q.seen \X q.seen)
    OBVIOUS
  <1>6. n \in Seq(Nat) /\ Once(n) /\ w \in Seq(Nat) /\ Once(w)
    BY <1>2, <1>3, <1>4, OnlyFacts, OnlyOnce
  <1>7. e \in SUBSET (Nat \X Nat)
    BY <1>1, <1>5
  <1>8. u = [q EXCEPT !.near = n, !.words = w, !.edges = e]
    BY <1>3, <1>4, <1>5 DEF Unseen
  <1>9. /\ u \in [near : Seq(Nat), words : Seq(Nat), seen : SUBSET Nat,
                   edges : SUBSET (Nat \X Nat), k : Nat, weight : Nat \X Nat]
        /\ u.near = n /\ u.words = w /\ u.edges = e
        /\ u.seen = q.seen /\ u.k = q.k /\ u.weight = q.weight
    BY <1>1, <1>6, <1>7, <1>8
  <1>10. Listing(u.near) /\ Listing(u.words) /\ Valid(u.weight)
    BY <1>6, <1>9, IsListing DEF IsSearch
  <1> QED
    BY <1>3, <1>4, <1>5, <1>9, <1>10 DEF IsSearch

\* What is kept of what was kept.
LEMMA OnlyTwice ==
    ASSUME NEW s \in Seq(Nat), NEW S
    PROVE  Only(Only(s, S), S) = Only(s, S)
  <1>1. PICK t : t = Only(s, S)
    OBVIOUS
  <1>2. t \in Seq(Nat) /\ ToSet(t) \subseteq S
    BY <1>1, OnlyFacts, OnlySet
  <1>3. Only(t, S) = t
    BY <1>2, OnlyAll
  <1> QED
    BY <1>1, <1>3

LEMMA WordsUnseen ==
    ASSUME NEW q, IsSearch(q), NEW u, u = Unseen(q)
    PROVE  Leg(u.words, u) = Leg(q.words, q)
  <1>1. q.words \in Seq(Nat)
    BY ListingIs DEF IsSearch
  <1>2. u.words = Only(q.words, q.seen) /\ u.seen = q.seen /\ u.k = q.k
    BY UnseenIs
  <1>3. Only(Only(q.words, q.seen), q.seen) = Only(q.words, q.seen)
    BY <1>1, OnlyTwice
  <1> QED
    BY <1>2, <1>3 DEF Leg

\* The nearest that can be seen are those of a store without the rest, where the
\* over-fetched ones hold a leg's worth of them.
LEMMA NearUnseen ==
    ASSUME NEW q, IsSearch(q), Reaches(q), NEW u, u = Unseen(q)
    PROVE  Leg(Knn(u), u) = Leg(Knn(q), q)
  <1>1. PICK D : D = Depth(q.k)
    OBVIOUS
  <1>2. PICK F : F = KnnK(D)
    OBVIOUS
  <1>3. D \in Nat /\ F \in Nat
    BY <1>1, <1>2, DepthIs, KnnIs DEF IsSearch
  <1>4. PICK s : s = q.near
    OBVIOUS
  <1>5. PICK t : t = Only(s, q.seen)
    OBVIOUS
  <1>6. s \in Seq(Nat) /\ t \in Seq(Nat) /\ ToSet(t) \subseteq q.seen
    <2>1. s \in Seq(Nat)
      BY <1>4, ListingIs DEF IsSearch
    <2> QED
      BY <1>5, <2>1, OnlyFacts, OnlySet
  <1>7. D <= F \/ Len(t) <= F
    <2>1. Knn(q) = First(s, F)
      BY <1>1, <1>2, <1>4 DEF Knn
    <2>2. PICK l : l = Len(Only(First(s, F), q.seen))
      OBVIOUS
    <2>3. l >= Lesser(D, Len(t))
      BY <1>1, <1>4, <1>5, <2>1, <2>2 DEF Reaches
    <2>4. First(s, F) \in Seq(Nat) /\ Len(First(s, F)) <= F
      BY <1>3, <1>6, FirstFacts DEF Lesser
    <2>5. l \in Nat /\ l <= F
      BY <1>3, <2>2, <2>4, OnlyFacts
    <2> QED
      BY <1>3, <1>6, <2>3, <2>5 DEF Lesser
  <1>8. Leg(Knn(u), u) = First(t, D)
    <2>1. u.near = t /\ u.seen = q.seen /\ u.k = q.k
      BY <1>4, <1>5, UnseenIs
    <2>2. Knn(u) = First(t, F)
      BY <1>1, <1>2, <2>1 DEF Knn
    <2>3. First(t, F) \in Seq(Nat) /\ ToSet(First(t, F)) \subseteq q.seen
      BY <1>3, <1>6, FirstFacts, FirstSet
    <2>4. Only(First(t, F), q.seen) = First(t, F)
      BY <2>3, OnlyAll
    <2>5. First(First(t, F), D) = First(t, D)
      BY <1>3, <1>6, <1>7, FirstFirst
    <2> QED
      BY <1>1, <2>1, <2>2, <2>4, <2>5 DEF Leg
  <1>9. Leg(Knn(q), q) = First(t, D)
    <2>1. Knn(q) = First(s, F)
      BY <1>1, <1>2, <1>4 DEF Knn
    <2>2. PICK l : l = Len(Only(First(s, F), q.seen))
      OBVIOUS
    <2>3. Only(First(s, F), q.seen) = First(t, l) /\ l \in 0 .. Len(t)
      BY <1>3, <1>5, <1>6, <2>2, OnlyFirst
    <2>4. l >= Lesser(D, Len(t))
      BY <1>1, <1>4, <1>5, <2>1, <2>2 DEF Reaches
    <2>5. l \in Nat /\ (D <= l \/ Len(t) <= l)
      BY <1>3, <1>6, <2>3, <2>4 DEF Lesser
    <2>6. First(First(t, l), D) = First(t, D)
      BY <1>3, <1>6, <2>5, FirstFirst
    <2> QED
      BY <1>1, <2>1, <2>3, <2>6 DEF Leg
  <1> QED
    BY <1>8, <1>9

LEMMA StmUnseen ==
    ASSUME NEW q, IsSearch(q), Reaches(q)
    PROVE  StmHits(q) = StmHits(Unseen(q))
  <1>1. PICK u : u = Unseen(q)
    OBVIOUS
  <1>2. /\ IsSearch(u) /\ u.edges = q.edges \cap (q.seen \X q.seen)
        /\ u.seen = q.seen /\ u.k = q.k /\ u.weight = q.weight
    BY <1>1, UnseenIs
  <1>3. Legs(u) = Legs(q)
    BY <1>1, <1>2, WordsUnseen, NearUnseen DEF Legs
  <1>4. Direct(u) = Direct(q)
    BY <1>2, <1>3 DEF Direct
  <1>5. PICK H : H = ToSet(Direct(q))
    OBVIOUS
  <1>6. H \subseteq q.seen
    BY <1>5, DirectSeen
  <1>7. Neighbours(u, H) = Neighbours(q, H)
    BY <1>2, <1>6 DEF Neighbours
  <1>8. Around(u) = Around(q)
    BY <1>4, <1>5, <1>7 DEF Around
  <1>9. /\ StmHits(q) = First(Direct(q) \o Around(q), q.k)
        /\ StmHits(u) = First(Direct(u) \o Around(u), u.k)
    BY <1>2, StmHitsAre
  <1> QED
    BY <1>1, <1>2, <1>4, <1>8, <1>9

LEMMA MapUnseen ==
    ASSUME NEW m, IsMap(m)
    PROVE  StmMap(m) = StmMap(OnlyTurns(m))
  <1>1. PICK S : S = m.seen \ m.anchors
    OBVIOUS
  <1>2. PICK t : t = Only(m.touched, S)
    OBVIOUS
  <1>3. PICK n : n = OnlyTurns(m)
    OBVIOUS
  <1>4. m \in [touched : Seq(Nat), seen : SUBSET Nat, anchors : SUBSET Nat,
               about : SUBSET (Nat \X Nat), k : Nat, thread : BOOLEAN]
    BY DEF IsMap
  <1>5. n = [m EXCEPT !.touched = t]
    BY <1>1, <1>2, <1>3 DEF OnlyTurns
  <1>6. /\ n.touched = t /\ n.seen = m.seen /\ n.anchors = m.anchors
        /\ n.about = m.about /\ n.k = m.k /\ n.thread = m.thread
    BY <1>4, <1>5
  <1>7. Only(t, S) = t
    BY <1>2, <1>4, OnlyTwice
  <1>8. RecentInContext(n) = RecentInContext(m)
    BY <1>1, <1>2, <1>6, <1>7 DEF RecentInContext
  <1>9. \A turn : AboutSubjects(n, turn) = AboutSubjects(m, turn)
    BY <1>6 DEF AboutSubjects
  <1> QED
    BY <1>3, <1>6, <1>8, <1>9 DEF StmMap

LEMMA HiddenIsOut == Asking => HiddenTakesNothing
  <1>1. ASSUME Asking, ReadsStm, Reaches(asked.stm)
        PROVE  StmHits(asked.stm) = StmHits(Unseen(asked.stm))
    BY <1>1, Searching, StmUnseen
  <1>2. ASSUME Asking, asked # None, asked.scope = "stm_map"
        PROVE  StmMap(asked.map) = StmMap(OnlyTurns(asked.map))
    BY <1>2, Searching, MapUnseen
  <1> QED
    BY <1>1, <1>2 DEF HiddenTakesNothing

-----------------------------------------------------------------------------
(***************************************************************************)
(* A leg that is off.                                                      *)
(***************************************************************************)
\* A share among more is no larger.
LEMMA Shares ==
    ASSUME NEW s \in Nat, NEW c \in Nat, NEW d \in Nat, 0 < c, c <= d
    PROVE  s \div d \in Nat /\ s \div c \in Nat /\ s \div d <= s \div c
  <1>1. PICK e : e = s \div d
    OBVIOUS
  <1>2. PICK f : f = s \div c
    OBVIOUS
  <1>3. e \in Nat /\ f \in Nat
    BY <1>1, <1>2
  <1>4. d * e <= s
    BY <1>1
  <1>5. s < c * (f + 1)
    BY <1>2
  <1>6. ASSUME f < e PROVE FALSE
    <2>1. f + 1 <= e
      BY <1>3, <1>6
    <2>2. c * (f + 1) <= c * e
      BY <1>3, <2>1
    <2>3. c * e <= d * e
      BY <1>3
    <2>4. c * (f + 1) \in Nat /\ c * e \in Nat /\ d * e \in Nat
      BY <1>3
    <2> QED
      BY <1>4, <1>5, <2>2, <2>3, <2>4
  <1> QED
    BY <1>1, <1>2, <1>3, <1>6

\* A later rank has no more points.
LEMMA PointsFall ==
    ASSUME NEW w \in Nat, NEW i \in Nat, NEW j \in Nat, 0 < i, i <= j
    PROVE  Points(w, j) <= Points(w, i) /\ Points(w, i) \in Nat /\ Points(w, j) \in Nat
  <1>1. RrfK \in Nat /\ Scale \in Nat
    BY RecallConstants
  <1>2. PICK c : c = RrfK + i
    OBVIOUS
  <1>3. PICK d : d = RrfK + j
    OBVIOUS
  <1>4. c \in Nat /\ d \in Nat /\ 0 < c /\ c <= d
    BY <1>1, <1>2, <1>3
  <1>5. PICK e : e = Scale \div d
    OBVIOUS
  <1>6. PICK f : f = Scale \div c
    OBVIOUS
  <1>7. e \in Nat /\ f \in Nat /\ e <= f
    BY <1>1, <1>4, <1>5, <1>6, Shares
  <1>8. w * e \in Nat /\ w * f \in Nat /\ w * e <= w * f
    BY <1>7
  <1>9. Points(w, i) = w * f /\ Points(w, j) = w * e
    BY <1>2, <1>3, <1>5, <1>6 DEF Points
  <1> QED
    BY <1>8, <1>9

LEMMA NoneSet == ToSet(<<>>) = {} /\ <<>> \in Seq(Nat) /\ Once(<<>>) /\ Len(<<>>) = 0
  BY DEF ToSet, Once

\* The fusion of one leg with nothing is that leg, in its order.
LEMMA FusionOfOne ==
    ASSUME NEW a \in Seq(Nat), Once(a), NEW w \in Nat \X Nat
    PROVE  Ordered(Nodes(a, <<>>), Row(a, <<>>, w)) = a
  <1>1. PICK b : b = <<>>
    OBVIOUS
  <1>2. b \in Seq(Nat) /\ Once(b) /\ ToSet(b) = {}
    BY <1>1, NoneSet
  <1>3. PICK S : S = Nodes(a, b)
    OBVIOUS
  <1>4. PICK key : key = Row(a, b, w)
    OBVIOUS
  <1>5. S = ToSet(a)
    BY <1>2, <1>3 DEF Nodes
  <1>6. IsFiniteSet(S) /\ Strict(S, key)
    BY <1>2, <1>3, <1>4, RowFacts
  <1>7. ASSUME NEW i \in 1 .. Len(a)
        PROVE  /\ a[i] \in S /\ Rank(a, a[i]) = i /\ Place(a, b, a, a[i]) = i
               /\ Score(a, b, w, a[i]) = 0 - Points(w[1], i)
    <2>1. a[i] \in S
      BY <1>5, Listed
    <2>2. Rank(a, a[i]) = i
      BY RankIs
    <2>3. Rank(b, a[i]) = 0
      BY <1>2, RankIs
    <2>4. Place(a, b, a, a[i]) = i
      BY <2>2 DEF Place
    <2>5. Points(w[1], i) \in Nat
      <3>1. w[1] \in Nat /\ i \in Nat
        OBVIOUS
      <3> QED
        BY <3>1, PointsAre
    <2>6. Points(w[2], 0) = 0
      BY DEF Points
    <2>7. Score(a, b, w, a[i]) = 0 - (Points(w[1], i) + 0)
      BY <2>2, <2>3, <2>6 DEF Score
    <2> QED
      BY <2>1, <2>2, <2>4, <2>5, <2>7
  <1>8. ASSUME NEW i \in 1 .. Len(a), NEW j \in 1 .. Len(a), i < j
        PROVE  Sooner(key[a[i]], key[a[j]])
    <2>1. /\ key[a[i]] = <<Score(a, b, w, a[i]), i, Place(a, b, b, a[i]), a[i]>>
          /\ key[a[j]] = <<Score(a, b, w, a[j]), j, Place(a, b, b, a[j]), a[j]>>
      BY <1>3, <1>4, <1>7 DEF Row
    <2>2. Points(w[1], j) <= Points(w[1], i) /\ Points(w[1], i) \in Nat /\ Points(w[1], j) \in Nat
      <3>1. PICK v : v = w[1]
        OBVIOUS
      <3>2. v \in Nat /\ i \in Nat /\ j \in Nat /\ 0 < i /\ i <= j
        BY <1>8, <3>1
      <3> QED
        BY <3>1, <3>2, PointsFall
    <2>3. \/ Score(a, b, w, a[i]) < Score(a, b, w, a[j])
          \/ Score(a, b, w, a[i]) = Score(a, b, w, a[j])
      BY <1>7, <2>2
    <2> QED
      BY <1>8, <2>1, <2>3, SoonerFour
  <1>9. Lists(a, Len(a), S, key)
    <2>1. a \in [1 .. Len(a) -> S]
      <3>1. a \in [1 .. Len(a) -> Nat]
        OBVIOUS
      <3> QED
        BY <1>7, <3>1
    <2>2. \A n \in S : \E i \in 1 .. Len(a) : a[i] = n
      BY <1>5, Where
    <2> QED
      BY <1>8, <2>1, <2>2 DEF Lists
  <1>10. Len(a) \in Nat
    OBVIOUS
  <1>11. Ordered(S, key) = a
    BY <1>6, <1>9, <1>10, OrderedIs
  <1> QED
    BY <1>1, <1>3, <1>4, <1>11

LEMMA StmOff ==
    ASSUME NEW q, IsSearch(q)
    PROVE  /\ q.weight[1] = 0 => ToSet(Direct(q)) \subseteq ToSet(q.words)
           /\ q.weight[2] = 0 => Direct(q) = First(Only(Knn(q), q.seen), q.k)
  <1>1. PICK a \in Seq(Nat), b \in Seq(Nat) :
             /\ Legs(q) = <<a, b>> /\ Once(a) /\ Once(b)
             /\ a = IF q.weight[1] = 0 THEN <<>> ELSE Leg(Knn(q), q)
             /\ b = IF q.weight[2] = 0 THEN <<>> ELSE Leg(q.words, q)
    BY LegsAre
  <1>2. /\ q.weight \in Nat \X Nat /\ q.k \in Nat /\ q.words \in Seq(Nat)
        /\ Knn(q) \in Seq(Nat)
    BY KnnIs, ListingIs DEF IsSearch
  <1>3. /\ Direct(q) = First(Ordered(Nodes(a, b), Row(a, b, q.weight)), q.k)
        /\ ToSet(Direct(q)) \subseteq Nodes(a, b)
    BY <1>1, DirectIs
  <1>4. ASSUME q.weight[1] = 0 PROVE ToSet(Direct(q)) \subseteq ToSet(q.words)
    <2>1. ToSet(a) = {}
      BY <1>1, <1>4, NoneSet
    <2>2. ToSet(b) \subseteq ToSet(q.words)
      BY <1>1, <1>2, LegSet, NoneSet
    <2> QED
      BY <1>3, <2>1, <2>2 DEF Nodes
  <1>5. ASSUME q.weight[2] = 0 PROVE Direct(q) = First(Only(Knn(q), q.seen), q.k)
    <2>1. q.weight[1] # 0
      <3>1. q.weight # <<0, 0>>
        BY DEF IsSearch, Valid
      <3> QED
        BY <1>2, <1>5, <3>1
    <2>2. a = Leg(Knn(q), q) /\ b = <<>>
      BY <1>1, <1>5, <2>1
    <2>3. Ordered(Nodes(a, b), Row(a, b, q.weight)) = a
      BY <1>1, <1>2, <2>2, FusionOfOne
    <2>4. Only(Knn(q), q.seen) \in Seq(Nat)
      BY <1>2, OnlyFacts
    <2>5. Depth(q.k) \in Nat /\ q.k <= Depth(q.k)
      BY <1>2, DepthIs
    <2>6. First(First(Only(Knn(q), q.seen), Depth(q.k)), q.k) = First(Only(Knn(q), q.seen), q.k)
      BY <1>2, <2>4, <2>5, FirstFirst
    <2> QED
      BY <1>3, <2>2, <2>3, <2>6 DEF Leg
  <1> QED
    BY <1>4, <1>5

LEMMA LimitIs ==
    ASSUME NEW k \in Nat
    PROVE  Greater(1, Lesser(k, MaxK)) \in Nat
  BY RecallConstants DEF Greater, Lesser

\* What is among the first is among the first of what is kept.
LEMMA FirstKept ==
    ASSUME NEW s \in Seq(Nat), NEW d \in Nat, NEW S
    PROVE  ToSet(First(s, d)) \cap S \subseteq ToSet(First(Only(s, S), d))
  <1>1. PICK f : f = First(s, d)
    OBVIOUS
  <1>2. PICK o : o = Only(s, S)
    OBVIOUS
  <1>3. f \in Seq(Nat) /\ o \in Seq(Nat)
    BY <1>1, <1>2, FirstFacts, OnlyFacts
  <1>4. PICK l : l = Len(Only(f, S))
    OBVIOUS
  <1>5. Only(f, S) = First(o, l) /\ l \in 0 .. Len(o) /\ l <= d
    BY <1>1, <1>2, <1>4, OnlyFirst
  <1>6. First(First(o, d), l) = First(o, l)
    BY <1>3, <1>5, FirstFirst
  <1>7. First(o, d) \in Seq(Nat)
    BY <1>3, FirstFacts
  <1>8. ToSet(First(First(o, d), l)) \subseteq ToSet(First(o, d))
    BY <1>5, <1>7, FirstSet
  <1>9. ToSet(Only(f, S)) = ToSet(f) \cap S
    BY <1>3, OnlySet
  <1> QED
    BY <1>1, <1>2, <1>5, <1>6, <1>8, <1>9

\* Both indexes to the full depth hold the nearest of all.
LEMMA NearestOfAll ==
    ASSUME NEW t, IsRecall(t), NEW d \in Nat
    PROVE  FindSimilarAny(t, d) = First(t.near, d)
  <1>1. PICK s : s = t.near
    OBVIOUS
  <1>2. s \in Seq(Nat)
    BY <1>1, ListingIs DEF IsRecall
  <1>3. PICK f : f = First(s, d)
    OBVIOUS
  <1>4. PICK T : T = ToSet(First(Only(s, ToSet(s) \ t.leaves), d))
                     \cup ToSet(First(Only(s, t.leaves), d))
    OBVIOUS
  <1>5. f \in Seq(Nat) /\ ToSet(f) \subseteq ToSet(s) /\ Len(f) = Lesser(d, Len(s))
    BY <1>2, <1>3, FirstFacts, FirstSet
  <1>6. ToSet(f) \subseteq T
    <2>1. ToSet(f) \cap (ToSet(s) \ t.leaves) \subseteq T
      BY <1>2, <1>3, <1>4, FirstKept
    <2>2. ToSet(f) \cap t.leaves \subseteq T
      BY <1>2, <1>3, <1>4, FirstKept
    <2> QED
      BY <1>5, <2>1, <2>2
  <1>7. Only(f, T) = f
    BY <1>5, <1>6, OnlyAll
  <1>8. PICK o : o = Only(s, T)
    OBVIOUS
  <1>9. o \in Seq(Nat) /\ Len(o) \in 0 .. Len(s)
    BY <1>2, <1>8, OnlyFacts
  <1>10. f = First(o, Len(f)) /\ Len(f) \in 0 .. Len(o)
    BY <1>2, <1>3, <1>7, <1>8, OnlyFirst
  <1>11. First(o, d) = f
    <2>1. CASE Len(f) = d
      BY <1>10, <2>1
    <2>2. CASE Len(f) # d
      <3>1. Len(f) = Len(s) /\ Len(s) < d
        BY <1>2, <1>5, <2>2 DEF Lesser
      <3>2. Len(o) <= Len(f) /\ Len(o) <= d /\ Len(f) \in Nat
        BY <1>2, <1>9, <3>1
      <3>3. First(o, Len(f)) = o /\ First(o, d) = o
        BY <1>9, <3>2, FirstAll
      <3> QED
        BY <1>10, <3>3
    <2> QED
      BY <2>1, <2>2
  <1>12. FindSimilarAny(t, d) = First(Only(s, T), d)
    BY <1>1, <1>4 DEF FindSimilarAny
  <1> QED
    BY <1>1, <1>3, <1>8, <1>11, <1>12

\* The legs of a recall, and what is made of them.
LEMMA RecallIs ==
    ASSUME NEW t, IsRecall(t)
    PROVE  \E v, w \in Seq(Nat), k, d \in Nat :
             /\ Once(v) /\ Once(w) /\ k = Greater(1, Lesser(t.k, MaxK)) /\ k <= d
             /\ v = IF t.weight[1] = 0 THEN <<>> ELSE First(t.near, d)
             /\ w = IF t.weight[2] = 0 THEN <<>> ELSE First(t.words, d)
             /\ LtmHits(t) = Only(First(Ordered(Nodes(v, w), Row(v, w, t.weight)), k),
                                  ToSet(v) \cup (ToSet(t.near) \cap t.leaves))
  <1>1. PICK k : k = Greater(1, Lesser(t.k, MaxK))
    OBVIOUS
  <1>2. PICK d : d = Depth(k)
    OBVIOUS
  <1>3. t.weight \in Nat \X Nat /\ t.weight[1] \in Nat /\ t.weight[2] \in Nat /\ t.k \in Nat
    BY DEF IsRecall
  <1>4. k \in Nat /\ d \in Nat /\ k <= d
    BY <1>1, <1>2, <1>3, LimitIs, DepthIs
  <1>5. PICK v : v = IF t.weight[1] = 0 THEN <<>> ELSE First(t.near, d)
    OBVIOUS
  <1>6. PICK w : w = IF t.weight[2] = 0 THEN <<>> ELSE First(t.words, d)
    OBVIOUS
  <1>7. FindSimilarAny(t, d) = First(t.near, d)
    BY <1>4, NearestOfAll
  <1>8. First(t.near, d) \in Seq(Nat) /\ Once(First(t.near, d))
    BY <1>4, ListingIs, FirstOnce DEF IsRecall
  <1>9. First(t.words, d) \in Seq(Nat) /\ Once(First(t.words, d))
    BY <1>4, ListingIs, FirstOnce DEF IsRecall
  <1>10. v \in Seq(Nat) /\ Once(v) /\ w \in Seq(Nat) /\ Once(w)
    BY <1>5, <1>6, <1>8, <1>9, NoneSet
  <1>11. LtmHits(t) = Only(First(RrfFuse(v, w, t.weight), k),
                           ToSet(v) \cup (ToSet(t.near) \cap t.leaves))
    <2>1. (LegIsOn(t.weight[1]) <=> t.weight[1] # 0) /\ (LegIsOn(t.weight[2]) <=> t.weight[2] # 0)
      BY <1>3 DEF LegIsOn
    <2>2. /\ v = IF LegIsOn(t.weight[1]) THEN FindSimilarAny(t, d) ELSE <<>>
          /\ w = IF LegIsOn(t.weight[2]) THEN First(t.words, d) ELSE <<>>
      BY <1>5, <1>6, <1>7, <2>1
    <2> QED
      BY <1>1, <1>2, <2>2 DEF LtmHits
  <1>12. RrfFuse(v, w, t.weight) = Ordered(Nodes(v, w), Row(v, w, t.weight))
    BY <1>3, <1>10, FuseIs
  <1> QED
    BY <1>1, <1>4, <1>5, <1>6, <1>10, <1>11, <1>12

LEMMA LtmOff ==
    ASSUME NEW t, IsRecall(t)
    PROVE  /\ t.weight[1] = 0 => ToSet(LtmHits(t)) \subseteq ToSet(t.words)
           /\ t.weight[2] = 0 => LtmHits(t) = First(t.near, Greater(1, Lesser(t.k, MaxK)))
  <1>1. PICK v \in Seq(Nat), w \in Seq(Nat), k \in Nat, d \in Nat :
             /\ Once(v) /\ Once(w) /\ k = Greater(1, Lesser(t.k, MaxK)) /\ k <= d
             /\ v = IF t.weight[1] = 0 THEN <<>> ELSE First(t.near, d)
             /\ w = IF t.weight[2] = 0 THEN <<>> ELSE First(t.words, d)
             /\ LtmHits(t) = Only(First(Ordered(Nodes(v, w), Row(v, w, t.weight)), k),
                                  ToSet(v) \cup (ToSet(t.near) \cap t.leaves))
    BY RecallIs
  <1>2. t.weight \in Nat \X Nat /\ t.near \in Seq(Nat) /\ t.words \in Seq(Nat)
    BY ListingIs DEF IsRecall
  <1>3. PICK f : f = Ordered(Nodes(v, w), Row(v, w, t.weight))
    OBVIOUS
  <1>4. PICK S : S = ToSet(v) \cup (ToSet(t.near) \cap t.leaves)
    OBVIOUS
  <1>5. LtmHits(t) = Only(First(f, k), S)
    BY <1>1, <1>3, <1>4
  <1>6. f \in Seq(Nat) /\ ToSet(f) = Nodes(v, w)
    <2>1. PICK x : x = t.weight
      OBVIOUS
    <2>2. x \in Nat \X Nat /\ f = Ordered(Nodes(v, w), Row(v, w, x))
      BY <1>2, <1>3, <2>1
    <2>3. v \in Seq(Nat) /\ w \in Seq(Nat) /\ Once(v) /\ Once(w)
      BY <1>1
    <2> QED
      BY <2>2, <2>3, FusionLists
  <1>7. First(f, k) \in Seq(Nat) /\ ToSet(First(f, k)) \subseteq Nodes(v, w)
    BY <1>1, <1>6, FirstFacts, FirstSet
  <1>8. ASSUME t.weight[1] = 0 PROVE ToSet(LtmHits(t)) \subseteq ToSet(t.words)
    <2>1. ToSet(v) = {}
      BY <1>1, <1>8, NoneSet
    <2>2. ToSet(w) \subseteq ToSet(t.words)
      BY <1>1, <1>2, FirstSet, NoneSet
    <2>3. ToSet(LtmHits(t)) \subseteq ToSet(First(f, k))
      BY <1>5, <1>7, OnlySet
    <2> QED
      BY <1>7, <2>1, <2>2, <2>3 DEF Nodes
  <1>9. ASSUME t.weight[2] = 0
        PROVE  LtmHits(t) = First(t.near, Greater(1, Lesser(t.k, MaxK)))
    <2>1. t.weight[1] # 0
      <3>1. t.weight # <<0, 0>>
        BY DEF IsRecall, Valid
      <3> QED
        BY <1>2, <1>9, <3>1
    <2>2. v = First(t.near, d) /\ w = <<>>
      BY <1>1, <1>9, <2>1
    <2>3. f = v
      BY <1>1, <1>2, <1>3, <2>2, FusionOfOne
    <2>4. ToSet(First(f, k)) \subseteq S
      BY <1>4, <1>7, <2>2, NoneSet DEF Nodes
    <2>5. LtmHits(t) = First(v, k)
      BY <1>5, <1>7, <2>3, <2>4, OnlyAll
    <2>6. First(v, k) = First(t.near, k)
      BY <1>1, <1>2, <2>2, FirstFirst
    <2> QED
      BY <1>1, <2>5, <2>6
  <1> QED
    BY <1>8, <1>9

LEMMA OffIsSilent == Asking => OffLegIsSilent
  BY Searching, StmOff, LtmOff DEF OffLegIsSilent

-----------------------------------------------------------------------------
(***************************************************************************)
(* What is found is said.                                                  *)
(***************************************************************************)
\* A set of natural numbers has a least one: < is well founded.
LEMMA LeastExists ==
    ASSUME NEW T, T \subseteq Nat, T # {}
    PROVE  \E least \in T : \A n \in T : least <= n
  <1> DEFINE Below == {pair \in Nat \X Nat : pair[1] < pair[2]}
  <1>1. IsWellFoundedOn(Below, Nat)
    BY NatLessThanWellFounded DEF OpToRel
  <1>2. PICK least \in T : \A n \in T : ~ (<<n, least>> \in Below)
    <2> HIDE DEF Below
    <2> QED
      BY <1>1, WFMin
  <1>3. \A n \in T : ~(n < least)
    BY <1>2
  <1> QED
    BY <1>3

\* Induction on the natural numbers, on the set of those for which a fact holds.
LEMMA ByInduction ==
    ASSUME NEW S, 0 \in S, \A n \in Nat : n \in S => n + 1 \in S
    PROVE  Nat \subseteq S
  <1> SUFFICES ASSUME Nat \ S # {} PROVE FALSE
    OBVIOUS
  <1>1. PICK least \in Nat \ S : \A n \in Nat \ S : least <= n
    BY LeastExists
  <1>2. least # 0 /\ least - 1 \in Nat
    BY <1>1
  <1>3. least - 1 \in S
    BY <1>1, <1>2
  <1>4. (least - 1) + 1 \in S
    BY <1>2, <1>3
  <1> QED
    BY <1>1, <1>4

\* What the pieces are joined to, one after the other.
Joined(g, s, n) ==
    /\ g \in [1 .. n -> Seq(Nat)]
    /\ \A i \in 1 .. n : g[i] = IF i = 1 THEN s[i] ELSE g[i - 1] \o s[i]

LEMMA JoinedExists ==
    ASSUME NEW s \in Seq(Seq(Nat))
    PROVE  \E g : Joined(g, s, Len(s))
  <1> DEFINE S == {n \in Nat : n <= Len(s) => \E g : Joined(g, s, n)}
  <1>1. 0 \in S
    <2>1. PICK g : g = [i \in 1 .. 0 |-> <<>>]
      OBVIOUS
    <2>2. Joined(g, s, 0)
      BY <2>1 DEF Joined
    <2> QED
      BY <2>2
  <1>2. ASSUME NEW n \in Nat, n \in S PROVE n + 1 \in S
    <2> SUFFICES ASSUME n + 1 <= Len(s) PROVE \E h : Joined(h, s, n + 1)
      OBVIOUS
    <2>1. n + 1 \in 1 .. Len(s) /\ n <= Len(s)
      OBVIOUS
    <2>2. PICK g : Joined(g, s, n)
      BY <1>2, <2>1
    <2>3. g \in [1 .. n -> Seq(Nat)] /\ \A i \in 1 .. n : g[i] = IF i = 1 THEN s[i] ELSE g[i - 1] \o s[i]
      BY <2>2 DEF Joined
    <2>4. PICK last : last = IF n = 0 THEN s[n + 1] ELSE g[n] \o s[n + 1]
      OBVIOUS
    <2>5. last \in Seq(Nat)
      <3>1. s[n + 1] \in Seq(Nat)
        BY <2>1
      <3>2. n # 0 => g[n] \in Seq(Nat)
        BY <2>3
      <3> QED
        BY <2>4, <3>1, <3>2
    <2>6. PICK h : h = [i \in 1 .. n + 1 |-> IF i = n + 1 THEN last ELSE g[i]]
      OBVIOUS
    <2>7. \A i \in 1 .. n : h[i] = g[i] /\ i \in 1 .. n + 1 /\ i # n + 1
      BY <2>6
    <2>8. h[n + 1] = last
      BY <2>6
    <2>9. h \in [1 .. n + 1 -> Seq(Nat)]
      BY <2>3, <2>5, <2>6
    <2>10. ASSUME NEW i \in 1 .. n + 1
           PROVE  h[i] = IF i = 1 THEN s[i] ELSE h[i - 1] \o s[i]
      <3>1. CASE i = n + 1
        <4>1. n # 0 => h[n] = g[n]
          <5>1. n # 0 => n \in 1 .. n
            OBVIOUS
          <5> QED
            BY <2>7, <5>1
        <4>2. i = 1 <=> n = 0
          BY <3>1
        <4>3. i - 1 = n
          BY <3>1
        <4> QED
          BY <2>4, <2>8, <3>1, <4>1, <4>2, <4>3
      <3>2. CASE i # n + 1
        <4>1. i \in 1 .. n /\ (i # 1 => i - 1 \in 1 .. n)
          BY <3>2
        <4>2. h[i] = g[i] /\ (i # 1 => h[i - 1] = g[i - 1])
          BY <2>7, <4>1
        <4> QED
          BY <2>3, <4>1, <4>2
      <3> QED
        BY <3>1, <3>2
    <2>11. Joined(h, s, n + 1)
      BY <2>9, <2>10 DEF Joined
    <2> QED
      BY <2>11
  <1> HIDE DEF S
  <1>3. Nat \subseteq S
    BY <1>1, <1>2, ByInduction
  <1>4. Len(s) \in S
    BY <1>3
  <1> QED
    BY <1>4 DEF S

\* Of pieces that are not empty there is something left.
LEMMA SomethingLeft ==
    ASSUME NEW s \in Seq(Seq(Nat)), Len(s) > 0, \A i \in 1 .. Len(s) : s[i] # <<>>
    PROVE  FlattenSeq(s) # <<>>
  <1>1. PICK N \in Nat : N = Len(s) /\ N > 0
    OBVIOUS
  <1>2. PICK f : f = CHOOSE g : g = [i \in 1 .. N |-> IF i = 1 THEN s[i] ELSE g[i - 1] \o s[i]]
    OBVIOUS
  <1>3. FlattenSeq(s) = f[N]
    BY <1>1, <1>2 DEF FlattenSeq
  <1>4. f = [i \in 1 .. N |-> IF i = 1 THEN s[i] ELSE f[i - 1] \o s[i]]
    <2>1. PICK g : Joined(g, s, N)
      BY <1>1, JoinedExists
    <2>2. g = [i \in 1 .. N |-> IF i = 1 THEN s[i] ELSE g[i - 1] \o s[i]]
      BY <2>1 DEF Joined
    <2> QED
      BY <1>2, <2>2
  <1>5. \A i \in 1 .. N : s[i] \in Seq(Nat) /\ s[i] # <<>> /\ Len(s[i]) \in Nat /\ Len(s[i]) > 0
    BY <1>1
  <1> DEFINE S == {n \in Nat : n \in 1 .. N => f[n] \in Seq(Nat) /\ Len(f[n]) > 0}
  <1>6. 0 \in S
    OBVIOUS
  <1>7. ASSUME NEW n \in Nat, n \in S PROVE n + 1 \in S
    <2> SUFFICES ASSUME n + 1 \in 1 .. N
                 PROVE  f[n + 1] \in Seq(Nat) /\ Len(f[n + 1]) > 0
      OBVIOUS
    <2>1. f[n + 1] = IF n + 1 = 1 THEN s[n + 1] ELSE f[(n + 1) - 1] \o s[n + 1]
      BY <1>4
    <2>2. CASE n = 0
      BY <1>5, <2>1, <2>2
    <2>3. CASE n # 0
      <3>1. n \in 1 .. N /\ (n + 1) - 1 = n /\ n + 1 # 1
        BY <2>3
      <3>2. f[n] \in Seq(Nat) /\ Len(f[n]) \in Nat
        BY <1>7, <3>1
      <3>3. f[n + 1] = f[n] \o s[n + 1]
        BY <2>1, <3>1
      <3>4. f[n + 1] \in Seq(Nat) /\ Len(f[n + 1]) = Len(f[n]) + Len(s[n + 1])
        BY <1>5, <3>2, <3>3
      <3>5. Len(s[n + 1]) \in Nat /\ Len(s[n + 1]) > 0
        BY <1>5
      <3>6. Len(f[n]) + Len(s[n + 1]) > 0
        <4>1. \A x, y \in Nat : y > 0 => x + y > 0
          OBVIOUS
        <4> QED
          BY <3>2, <3>5, <4>1
      <3> QED
        BY <3>4, <3>6
    <2> QED
      BY <2>2, <2>3
  <1> HIDE DEF S
  <1>8. Nat \subseteq S
    BY <1>6, <1>7, ByInduction
  <1>9. N \in S /\ N \in 1 .. N
    BY <1>1, <1>8
  <1>10. f[N] \in Seq(Nat) /\ Len(f[N]) > 0
    BY <1>9 DEF S
  <1> QED
    BY <1>3, <1>10

LEMMA HitsAre ==
    ASSUME NEW t, IsRecall(t)
    PROVE  LtmHits(t) \in Seq(Nat)
  <1>1. PICK v \in Seq(Nat), w \in Seq(Nat), k \in Nat, d \in Nat :
             /\ Once(v) /\ Once(w) /\ k = Greater(1, Lesser(t.k, MaxK)) /\ k <= d
             /\ v = IF t.weight[1] = 0 THEN <<>> ELSE First(t.near, d)
             /\ w = IF t.weight[2] = 0 THEN <<>> ELSE First(t.words, d)
             /\ LtmHits(t) = Only(First(Ordered(Nodes(v, w), Row(v, w, t.weight)), k),
                                  ToSet(v) \cup (ToSet(t.near) \cap t.leaves))
    BY RecallIs
  <1>2. PICK x : x = t.weight
    OBVIOUS
  <1>3. PICK f : f = Ordered(Nodes(v, w), Row(v, w, x))
    OBVIOUS
  <1>4. v \in Seq(Nat) /\ w \in Seq(Nat) /\ Once(v) /\ Once(w) /\ x \in Nat \X Nat
    BY <1>1, <1>2 DEF IsRecall
  <1>5. f \in Seq(Nat)
    BY <1>3, <1>4, FusionLists
  <1>6. First(f, k) \in Seq(Nat)
    BY <1>1, <1>5, FirstFacts
  <1> QED
    BY <1>1, <1>2, <1>3, <1>6, OnlyFacts

\* Every hit has an entry.
LEMMA EntriesOfHits ==
    ASSUME NEW t, IsRecall(t), LtmEntries(t) = <<>>
    PROVE  LtmHits(t) = <<>>
  <1>1. PICK hits : hits = LtmHits(t)
    OBVIOUS
  <1>2. hits \in Seq(Nat)
    BY <1>1, HitsAre
  <1>3. PICK s : s = [i \in DOMAIN hits |-> FlattenRecall(t, hits[i])]
    OBVIOUS
  <1>4. t.beneath \in Seq(Nat)
    BY DEF IsRecall
  <1>5. ASSUME NEW i \in 1 .. Len(hits)
        PROVE  /\ FlattenRecall(t, hits[i]) \in Seq(Nat)
               /\ FlattenRecall(t, hits[i]) # <<>>
    <2>1. hits[i] \in Nat
      BY <1>2
    <2>2. <<hits[i]>> \in Seq(Nat) /\ <<hits[i]>> # <<>>
      BY <2>1
    <2> QED
      BY <1>4, <2>2 DEF FlattenRecall
  <1>6. s \in Seq(Seq(Nat)) /\ Len(s) = Len(hits) /\ \A i \in 1 .. Len(s) : s[i] # <<>>
    <2>1. PICK N \in Nat : N = Len(hits) /\ DOMAIN hits = 1 .. N
      BY <1>2
    <2>2. \A i \in 1 .. N : s[i] \in Seq(Nat) /\ s[i] # <<>>
      BY <1>3, <1>5, <2>1
    <2>3. s \in [1 .. N -> Seq(Nat)]
      <3>1. s = [i \in 1 .. N |-> s[i]]
        BY <1>3, <2>1
      <3> QED
        BY <2>2, <3>1
    <2>4. s \in Seq(Seq(Nat)) /\ Len(s) = N
      BY <2>3
    <2> QED
      BY <2>1, <2>2, <2>4
  <1>7. FlattenSeq(s) = <<>>
    BY <1>1, <1>3 DEF LtmEntries
  <1>8. ~(Len(s) > 0)
    BY <1>6, <1>7, SomethingLeft
  <1> QED
    BY <1>1, <1>2, <1>6, <1>8

\* Only a failure is an error.
LEMMA NoError ==
    ASSUME NEW a \in Questions
    PROVE  Execute(a).status # "error"
  <1>1. a.scope \in {"stm", "ltm", "both", "ltm_via_stm", "stm_map"}
    BY DoorConstants
  <1>2. \A stm, ltm, seeds : Success(stm, ltm, seeds).status # "error"
    BY DEF Success
  <1> QED
    BY <1>1, <1>2 DEF Execute

\* What is about to be published is the answer to what was asked.
Answering == reply # None => reply = Failure \/ reply = Execute(asked)

LEMMA AnsweringInit == Init => Answering
  BY DEF Init, Answering

LEMMA AnsweringNext == DoorInv /\ Answering /\ [Next]_vars => Answering'
  <1> SUFFICES ASSUME DoorInv, Answering, [Next]_vars PROVE Answering'
    OBVIOUS
  <1>1. CASE Receive
    <2>1. reply = None /\ reply' = reply
      BY <1>1 DEF Receive, DoorInv, Control
    <2> QED
      BY <2>1 DEF Answering
  <1>2. CASE Respond
    <2>1. asked \in Questions
      BY <1>2 DEF Respond, DoorInv, Control
    <2>2. reply' = Failure \/ reply' = Execute(asked)
      BY <1>2 DEF Respond
    <2>3. reply' = Execute(asked) => asked' = asked
      BY <1>2, <2>1, NoError DEF Respond
    <2> QED
      BY <2>2, <2>3 DEF Answering
  <1>3. CASE Send \/ Join \/ CommitLands \/ Stop \/ Leave \/ CopyAside \/ Refuse \/ Park
               \/ CommitMessage \/ UNCHANGED vars
    <2>1. UNCHANGED <<asked, reply>>
      BY <1>3 DEF Send, Join, CommitLands, Stop, Leave, CopyAside, Refuse, Park,
                  CommitMessage, vars, handler
    <2> QED
      BY <2>1 DEF Answering
  <1>4. CASE PublishResult \/ Crash
    BY <1>4 DEF PublishResult, Crash, Answering
  <1> QED
    BY <1>1, <1>2, <1>3, <1>4 DEF Next, Handle

LEMMA NothingWasFound ==
    ASSUME Asking, Answering, reply # None, reply.status = "empty"
    PROVE  /\ ReadsStm => StmHits(asked.stm) = <<>>
           /\ ReadsLtm => LtmHits(asked.ltm) = <<>>
  <1>1. reply = Execute(asked)
    BY DEF Answering, Failure
  <1>2. \A stm, ltm, seeds :
            Success(stm, ltm, seeds).status = "empty" => stm = <<>> /\ ltm = <<>>
    BY DEF Success
  <1>3. ASSUME ReadsStm PROVE StmHits(asked.stm) = <<>>
    BY <1>1, <1>2, <1>3 DEF ReadsStm, Execute
  <1>4. ASSUME ReadsLtm PROVE LtmHits(asked.ltm) = <<>>
    <2>1. LtmEntries(asked.ltm) = <<>>
      BY <1>1, <1>2, <1>4 DEF ReadsLtm, Execute
    <2>2. IsRecall(asked.ltm)
      BY <1>4, Searching
    <2> QED
      BY <2>1, <2>2, EntriesOfHits
  <1> QED
    BY <1>3, <1>4

-----------------------------------------------------------------------------
\* The fusion written in SQL and the one written in Rust put any two legs in the same
\* order, ties included: both are the order of one key, whose ranks no two nodes
\* share (fused_hits_sql in search.rs, rrf_fuse in domain/ranking.rs).
THEOREM FusionsAlwaysAgree == Spec => []FusionsAgree
  <1>1. Asking => FusionsAgree
    BY Searching, Agreement DEF FusionsAgree
  <1> QED
    BY <1>1, AskingInit, AskingNext, PTL DEF Spec

\* Whatever the stores hold: what the caller cannot see takes no slot, a leg of weight
\* 0 takes none either and leaves the other in its order, and an empty reply found
\* nothing (hybrid_search, LtmRetrieval::recall, flatten_recall).
THEOREM SearchStaysFair == Spec => []SearchIsFair
  <1>1. Asking /\ Answering => SearchIsFair
    <2>1. Asking /\ Answering => EmptyFoundNothing
      BY NothingWasFound DEF EmptyFoundNothing
    <2> QED
      BY <2>1, HiddenIsOut, OffIsSilent DEF SearchIsFair
  <1> QED
    BY <1>1, AskingInit, AskingNext, InitDoor, AnsweringInit, AnsweringNext, NextDoor, PTL DEF Spec
=============================================================================
