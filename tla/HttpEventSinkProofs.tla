-------------------------- MODULE HttpEventSinkProofs --------------------------
(***************************************************************************)
(* Theorems about HttpEventSink, for every queue bound, every set of       *)
(* refused events and any number of calls and lost answers.  What the      *)
(* properties do not say themselves, and IInv adds, is that the queue      *)
(* holds the events offered last, all of them younger than what the poster *)
(* has had in its hands (QueueIsWindow), that the API can only have or     *)
(* still get what the poster has had (PostedOnlyTaken), and that the       *)
(* poster lets go of an event only when the API has it (HandedOver).       *)
(***************************************************************************)
EXTENDS HttpEventSink, SharedLemmas

USE MaxQueueSizeAssumption, BoundsAssumption

\* The events that are not waiting any more.
Past == offered - Len(queue)

QueueIsWindow == IsWindow(queue, offered) /\ current <= Past

\* What the API has or may still get has been in the poster's hands, and what
\* was given up has not.
PostedOnlyTaken ==
  /\ \A n \in Elements(log) \cup delayed : 1 <= n /\ n <= current
  /\ \A n \in givenUp : 1 <= n /\ n <= Past
  /\ givenUp \cap (Elements(log) \cup delayed \cup {current}) = {}

\* The poster takes the next event only when the API has the one before.
HandedOver ==
  /\ poster \notin {"post", "backoff", "abandoned"}
       => current = 0 \/ current \in Elements(log)
  /\ poster \in {"post", "backoff", "abandoned"} => current > 0
  /\ \A n \in delayed : n = current \/ n \in Elements(log)
  /\ \A n \in 1..Past : n \in Elements(log) \cup givenUp \cup {current}

\* Nothing is queued behind a poster that has left.
DrainedIsFinal == poster = "drained" => stop /\ queue = <<>>

IInv ==
  /\ TypeOK /\ QueueIsWindow /\ PostedOnlyTaken /\ HandedOver
  /\ DrainedIsFinal /\ FirstsInOrder

--------------------------------------------------------------------------------
(* What the operations do to the queue and to the log *)

LEMMA ElementsOfAppend ==
  ASSUME NEW s \in Seq(Nat), NEW e \in Nat
  PROVE  Elements(Append(s, e)) = Elements(s) \cup {e}
<1> DEFINE t == Append(s, e)
<1>1. /\ Len(s) \in Nat /\ Len(t) = Len(s) + 1
      /\ \A i \in 1..Len(s) : t[i] = s[i]
      /\ t[Len(s) + 1] = e
  BY AppendProperties, LenProperties
<1> HIDE DEF t
<1>2. 1..Len(t) = 1..Len(s) \cup {Len(s) + 1}
  BY <1>1
<1>3. {t[i] : i \in 1..Len(t)} = {s[i] : i \in 1..Len(s)} \cup {e}
  BY <1>1, <1>2
<1>. QED BY <1>3 DEF Elements, t

\* on_event: the new event is the youngest, and what is given up for it is the
\* oldest of those that wait.
LEMMA AppendEventKeepsWindow ==
  ASSUME TypeOK, QueueIsWindow, AppendEvent, offered' = offered + 1
  PROVE  /\ IsWindow(queue', offered') /\ Len(queue') <= MaxQueueSize
         /\ \/ Past' = Past /\ givenUp' = givenUp
            \/ Past' = Past + 1 /\ givenUp' = givenUp \cup {Past + 1}
         /\ Len(queue') = IF Full THEN Len(queue) ELSE Len(queue) + 1
         /\ Past \in Nat /\ queue' # <<>>
<1>1. /\ queue \in Seq(Nat) /\ Len(queue) \in Nat /\ offered \in Nat
      /\ Len(queue) <= offered /\ Len(queue) <= MaxQueueSize
      /\ IsWindow(queue, offered)
  BY LenProperties DEF TypeOK, QueueIsWindow, IsWindow
<1>2. queue' = Append(Roomy(queue, MaxQueueSize), offered + 1)
  BY DEF AppendEvent, Roomy, Full
<1>3. /\ IsWindow(queue', offered')
      /\ Len(queue') = IF Full THEN Len(queue) ELSE Len(queue) + 1
  BY <1>1, <1>2, PushKeepsWindow DEF Full
<1>4. Len(queue') <= MaxQueueSize
  BY <1>1, <1>3 DEF Full
<1>5. Full => Past' = Past + 1 /\ givenUp' = givenUp \cup {Past + 1}
  <2>. SUFFICES ASSUME Full PROVE Past' = Past + 1 /\ givenUp' = givenUp \cup {Past + 1}
    OBVIOUS
  <2>1. queue # <<>>
    BY <1>1, EmptySeq DEF Full
  <2>2. Head(queue) = offered - Len(queue) + 1
    BY <1>1, <2>1, PopKeepsWindow
  <2>3. givenUp' = givenUp \cup {Past + 1}
    BY <1>1, <2>2 DEF AppendEvent, Past
  <2>4. Past' = Past + 1
    BY <1>1, <1>3 DEF Past
  <2>. QED BY <2>3, <2>4
<1>6. ~Full => Past' = Past /\ givenUp' = givenUp
  BY <1>1, <1>3 DEF AppendEvent, Past
<1>7. queue' # <<>>
  <2>1. Len(queue') # 0
    BY <1>1, <1>3 DEF Full
  <2>. QED BY <2>1, EmptySeq
<1>8. Past \in Nat
  BY <1>1 DEF Past
<1>. QED BY <1>3, <1>4, <1>5, <1>6, <1>7, <1>8

\* PosterTake: the oldest event that waits is taken, and nothing is skipped.
LEMMA TakeKeepsWindow ==
  ASSUME TypeOK, QueueIsWindow, PosterTake
  PROVE  /\ IsWindow(queue', offered') /\ Len(queue') <= MaxQueueSize
         /\ Past \in Nat /\ current' = Past + 1 /\ Past' = Past + 1
         /\ Len(queue) # 0 /\ offered' = offered
<1>1. /\ queue \in Seq(Nat) /\ Len(queue) \in Nat /\ offered \in Nat
      /\ Len(queue) <= offered /\ Len(queue) <= MaxQueueSize
      /\ IsWindow(queue, offered)
  BY LenProperties DEF TypeOK, QueueIsWindow, IsWindow
<1>2. queue # <<>> /\ current' = Head(queue) /\ queue' = Tail(queue) /\ offered' = offered
  BY DEF PosterTake
<1>3. /\ Head(queue) = offered - Len(queue) + 1
      /\ IsWindow(queue', offered') /\ Len(queue') = Len(queue) - 1
  BY <1>1, <1>2, PopKeepsWindow
<1>4. Len(queue) # 0
  BY <1>1, <1>2, EmptySeq
<1>. QED BY <1>1, <1>2, <1>3, <1>4 DEF Past

\* The API takes an event that is not younger than any it has, or one it had.
LEMMA LogGrowsInOrder ==
  ASSUME TypeOK, FirstsInOrder, NEW e \in Nat, log' = Append(log, e),
         e \in Elements(log) \/ \A n \in Elements(log) : n <= e
  PROVE  FirstsInOrder'
<1>1. log \in Seq(Nat) /\ Len(log) \in Nat
  BY LenProperties DEF TypeOK
<1>2. /\ Len(log') = Len(log) + 1
      /\ \A i \in 1..Len(log) : log'[i] = log[i]
      /\ log'[Len(log) + 1] = e
  BY <1>1, AppendProperties
<1>3. \A i \in 1..Len(log) : log[i] \in Nat
  BY <1>1, ElementOfSeq
<1>4. ASSUME NEW j \in 1..Len(log'), NEW i \in 1..j, log'[j] < log'[i]
      PROVE  \E k \in 1..i : log'[k] = log'[j]
  <2>1. CASE j \in 1..Len(log)
    <3>1. i \in 1..Len(log) /\ log[j] < log[i]
      BY <1>1, <1>2, <1>4, <2>1
    <3>2. PICK k \in 1..i : log[k] = log[j]
      BY <2>1, <3>1 DEF FirstsInOrder
    <3>3. k \in 1..Len(log)
      BY <1>1, <2>1, <3>2
    <3>. QED BY <1>2, <2>1, <3>2, <3>3
  <2>2. CASE j = Len(log) + 1
    <3>1. log'[j] = e /\ i # j
      BY <1>2, <1>3, <1>4, <2>2
    <3>2. i \in 1..Len(log) /\ e < log[i] /\ log[i] \in Elements(log)
      BY <1>1, <1>2, <1>4, <2>2, <3>1 DEF Elements
    <3>3. e \in Elements(log)
      BY <1>3, <3>2
    <3>4. PICK k \in 1..Len(log) : log[k] = e
      BY <3>3 DEF Elements
    <3>5. CASE k <= i
      <4>1. k \in 1..i /\ log'[k] = log'[j]
        BY <1>1, <1>2, <3>1, <3>2, <3>4, <3>5
      <4>. QED BY <4>1
    <3>6. CASE i < k
      <4>1. PICK l \in 1..i : log[l] = log[k]
        BY <1>1, <3>2, <3>4, <3>6 DEF FirstsInOrder
      <4>2. l \in 1..Len(log)
        BY <1>1, <3>2, <4>1
      <4>. QED BY <1>2, <3>1, <3>4, <4>1, <4>2
    <3>7. k <= i \/ i < k
      BY <1>1, <3>2
    <3>. QED BY <3>5, <3>6, <3>7
  <2>. QED BY <1>1, <1>2, <2>1, <2>2
<1>. QED BY <1>4 DEF FirstsInOrder

--------------------------------------------------------------------------------
(* The inductive invariant *)

LEMMA IInvInit == Init => IInv
<1>. SUFFICES ASSUME Init PROVE IInv
  OBVIOUS
<1>1. /\ queue = <<>> /\ Len(queue) = 0 /\ queue \in Seq(Nat)
      /\ log = <<>> /\ Len(log) = 0 /\ log \in Seq(Nat)
  BY DEF Init
<1>2. Elements(log) = {} /\ Past = 0 /\ offered = 0
  <2>1. offered = 0 /\ Len(queue) = 0
    BY <1>1 DEF Init
  <2>2. 1..Len(log) = {}
    BY <1>1
  <2>3. offered - Len(queue) = 0
    BY <2>1
  <2>. QED BY <2>1, <2>2, <2>3 DEF Elements, Past
<1>3. TypeOK
  <2>1. stop \in BOOLEAN
    BY Zenon DEF Init
  <2>. QED BY <1>1, <2>1 DEF Init, TypeOK
<1>4. QueueIsWindow
  BY <1>1, <1>2 DEF Init, QueueIsWindow, IsWindow
<1>5. PostedOnlyTaken /\ HandedOver /\ DrainedIsFinal
  BY <1>1, <1>2 DEF Init, PostedOnlyTaken, HandedOver, DrainedIsFinal
<1>6. FirstsInOrder
  BY <1>1 DEF FirstsInOrder
<1>. QED BY <1>3, <1>4, <1>5, <1>6 DEF IInv

PosterStates == {"wait", "parking", "blocked", "ready", "post", "backoff", "drained",
                 "abandoned"}
InHand == poster \in {"post", "backoff", "abandoned"}

\* A step that touches neither the events nor the hands they are in.
ControlStep ==
  /\ stop' \in {stop, TRUE}
  /\ poster' \in PosterStates /\ InHand' = InHand
  /\ poster' = "drained" => poster = "drained" \/ (stop /\ queue = <<>>)
  /\ owner' \in {"alive", "stopping", "joining", "gone"}
  /\ UNCHANGED <<queue, current, log, delayed, offered, givenUp, unanswered>>

\* The steps that move a thread and touch neither queue nor log.
LEMMA ControlSteps ==
  ASSUME IInv, ControlStep
  PROVE  IInv'
<1>0. /\ stop' \in {stop, TRUE} /\ stop \in BOOLEAN
      /\ poster \in PosterStates /\ poster' \in PosterStates
      /\ InHand' <=> InHand
      /\ poster' = "drained" => poster = "drained" \/ (stop /\ queue = <<>>)
      /\ owner' \in {"alive", "stopping", "joining", "gone"}
      /\ UNCHANGED <<queue, current, log, delayed, offered, givenUp, unanswered>>
  BY Zenon DEF IInv, TypeOK, ControlStep, PosterStates
<1>1. TypeOK'
  <2>1. stop' \in BOOLEAN
    BY <1>0, Zenon
  <2>. QED BY <1>0, <2>1 DEF IInv, TypeOK, PosterStates
<1>2. QueueIsWindow' /\ Past' = Past
  BY <1>0 DEF IInv, QueueIsWindow, Past
<1>3. PostedOnlyTaken' /\ Elements(log)' = Elements(log)
  BY <1>0, <1>2 DEF IInv, PostedOnlyTaken, Elements
<1>4. HandedOver'
  BY <1>0, <1>2, <1>3 DEF IInv, HandedOver, InHand, PosterStates
<1>5. DrainedIsFinal'
  <2>1. stop => stop'
    BY <1>0, Zenon
  <2>. QED BY <1>0, <2>1 DEF IInv, DrainedIsFinal
<1>6. FirstsInOrder'
  BY <1>0 DEF IInv, FirstsInOrder
<1>. QED BY <1>1, <1>2, <1>3, <1>4, <1>5, <1>6 DEF IInv

\* The API takes the event e, which the poster has or a delayed request has.
LEMMA LogSteps ==
  ASSUME IInv, NEW e \in Nat, log' = Append(log, e),
         (e = current /\ poster = "post") \/ e \in delayed,
         (poster' \in {"wait", "backoff"} /\ e = current) \/ poster' = poster,
         delayed' \in {delayed, delayed \ {e}}, unanswered' \in Nat,
         UNCHANGED <<owner, stop, queue, current, offered, givenUp>>
  PROVE  IInv'
<1>0. /\ poster \in {"wait", "parking", "blocked", "ready", "post", "backoff",
                     "drained", "abandoned"}
      /\ log \in Seq(Nat) /\ current \in Nat /\ delayed \subseteq Nat
      /\ \A n \in Elements(log) : n \in Nat /\ n <= current
      /\ 1 <= e /\ e <= current /\ e \notin givenUp
  <2>1. \A n \in Elements(log) : n \in Nat
    BY ElementOfSeq DEF IInv, TypeOK, Elements
  <2>2. current > 0 \/ poster # "post"
    BY DEF IInv, HandedOver
  <2>. QED BY <2>1, <2>2 DEF IInv, TypeOK, PostedOnlyTaken
<1>1. Elements(log') = Elements(log) \cup {e} /\ Elements(log)' = Elements(log')
  BY <1>0, ElementsOfAppend DEF Elements
<1>2. TypeOK'
  <2>1. log' \in Seq(Nat)
    BY <1>0, AppendProperties
  <2>. QED BY <1>0, <2>1 DEF IInv, TypeOK
<1>3. QueueIsWindow' /\ Past' = Past
  BY DEF IInv, QueueIsWindow, Past
<1>4. PostedOnlyTaken'
  BY <1>0, <1>1, <1>3 DEF IInv, PostedOnlyTaken
<1>5. HandedOver'
  BY <1>0, <1>1, <1>3 DEF IInv, HandedOver
<1>6. DrainedIsFinal'
  BY <1>0 DEF IInv, DrainedIsFinal
<1>7. FirstsInOrder'
  <2>1. e \in Elements(log) \/ \A n \in Elements(log) : n <= e
    BY <1>0 DEF IInv, HandedOver
  <2>. QED BY <2>1, LogGrowsInOrder DEF IInv
<1>. QED BY <1>2, <1>3, <1>4, <1>5, <1>6, <1>7 DEF IInv

\* Every step of the callers, the poster and the network keeps the invariant.
LEMMA IInvNext == IInv /\ [Next]_vars => IInv'
<1> SUFFICES ASSUME IInv, [Next]_vars PROVE IInv'
  OBVIOUS
<1>0. /\ poster \in {"wait", "parking", "blocked", "ready", "post", "backoff",
                     "drained", "abandoned"}
      /\ owner \in {"alive", "stopping", "joining", "gone"} /\ stop \in BOOLEAN
      /\ current \in Nat /\ unanswered \in Nat /\ offered \in Nat
      /\ delayed \subseteq Nat /\ givenUp \subseteq Nat
  BY DEF IInv, TypeOK
<1>1. CASE OnEvent
  <2>1. /\ AppendEvent /\ offered' = offered + 1 /\ ~stop
        /\ poster' = Notified
        /\ UNCHANGED <<owner, stop, current, log, delayed, unanswered>>
    BY <1>1 DEF OnEvent
  <2>2. /\ IsWindow(queue', offered') /\ Len(queue') <= MaxQueueSize
        /\ \/ Past' = Past /\ givenUp' = givenUp
           \/ Past' = Past + 1 /\ givenUp' = givenUp \cup {Past + 1}
        /\ Past \in Nat /\ queue' # <<>>
    BY <2>1, AppendEventKeepsWindow DEF IInv
  <2>3. /\ poster' \in {"wait", "parking", "blocked", "ready", "post", "backoff",
                        "drained", "abandoned"}
        /\ poster' \in {"post", "backoff", "abandoned"}
             <=> poster \in {"post", "backoff", "abandoned"}
        /\ poster' # "drained"
    BY <1>0, <2>1 DEF Notified, IInv, DrainedIsFinal
  <2>4. Elements(log)' = Elements(log) /\ current <= Past
    BY <2>1 DEF Elements, IInv, QueueIsWindow
  <2>5. TypeOK'
    <3>1. queue' \in Seq(Nat)
      BY <2>2 DEF IsWindow
    <3>2. offered' \in Nat
      BY <1>0, <2>1
    <3>3. givenUp' \subseteq Nat
      <4>1. Past + 1 \in Nat
        BY <2>2
      <4>. QED BY <1>0, <2>2, <4>1
    <3>. QED BY <1>0, <2>1, <2>2, <2>3, <3>1, <3>2, <3>3 DEF IInv, TypeOK
  <2>6. QueueIsWindow'
    BY <1>0, <2>1, <2>2, <2>4 DEF QueueIsWindow
  <2>7. PostedOnlyTaken'
    <3>1. \A n \in Elements(log) \cup delayed : 1 <= n /\ n <= current
      BY DEF IInv, PostedOnlyTaken
    <3>2. Past + 1 \notin Elements(log) \cup delayed \cup {current}
      BY <1>0, <2>2, <2>4, <3>1
    <3>3. \A n \in givenUp' : 1 <= n /\ n <= Past'
      <4>1. \A n \in givenUp : n \in Nat /\ 1 <= n /\ n <= Past
        BY <1>0 DEF IInv, PostedOnlyTaken
      <4>. QED BY <2>2, <4>1
    <3>4. givenUp \cap (Elements(log) \cup delayed \cup {current}) = {}
      BY DEF IInv, PostedOnlyTaken
    <3>5. givenUp' \cap (Elements(log) \cup delayed \cup {current}) = {}
      BY <2>2, <3>2, <3>4
    <3>. QED BY <2>1, <2>4, <3>1, <3>3, <3>5 DEF PostedOnlyTaken
  <2>8. HandedOver'
    BY <2>1, <2>2, <2>3, <2>4 DEF IInv, HandedOver
  <2>9. DrainedIsFinal'
    BY <2>3 DEF DrainedIsFinal
  <2>10. FirstsInOrder'
    BY <2>1 DEF IInv, FirstsInOrder
  <2>. QED BY <2>5, <2>6, <2>7, <2>8, <2>9, <2>10 DEF IInv
<1>2. CASE SetStop
  <2>1. stop' \in {stop, TRUE}
    BY <1>2, Zenon DEF SetStop
  <2>2. /\ poster' \in PosterStates /\ InHand' = InHand
        /\ poster' = "drained" => poster = "drained"
        /\ owner' \in {"alive", "stopping", "joining", "gone"}
        /\ UNCHANGED <<queue, current, log, delayed, offered, givenUp, unanswered>>
    BY <1>0, <1>2 DEF SetStop, InHand, PosterStates
  <2>3. ControlStep
    BY <2>1, <2>2, Zenon DEF ControlStep
  <2>. QED BY <2>3, ControlSteps
<1>3. CASE NotifyAll
  <2>1. stop' \in {stop, TRUE}
    BY <1>3, Zenon DEF NotifyAll
  <2>2. /\ poster' \in PosterStates /\ InHand' = InHand
        /\ poster' = "drained" => poster = "drained"
        /\ owner' \in {"alive", "stopping", "joining", "gone"}
        /\ UNCHANGED <<queue, current, log, delayed, offered, givenUp, unanswered>>
    BY <1>0, <1>3 DEF NotifyAll, Notified, InHand, PosterStates
  <2>3. ControlStep
    BY <2>1, <2>2, Zenon DEF ControlStep
  <2>. QED BY <2>3, ControlSteps
<1>4. CASE Join
  <2>1. stop' \in {stop, TRUE}
    BY <1>4, Zenon DEF Join
  <2>2. /\ poster' \in PosterStates /\ InHand' = InHand
        /\ poster' = "drained" => poster = "drained"
        /\ owner' \in {"alive", "stopping", "joining", "gone"}
        /\ UNCHANGED <<queue, current, log, delayed, offered, givenUp, unanswered>>
    BY <1>0, <1>4 DEF Join, InHand, PosterStates
  <2>3. ControlStep
    BY <2>1, <2>2, Zenon DEF ControlStep
  <2>. QED BY <2>3, ControlSteps
<1>5. CASE PosterTest
  BY <1>0, <1>5, ControlSteps DEF ControlStep, InHand, PosterStates, PosterTest
<1>6. CASE PosterPark
  BY <1>0, <1>6, ControlSteps DEF ControlStep, InHand, PosterStates, PosterPark
<1>7. CASE PosterSpurious
  BY <1>0, <1>7, ControlSteps DEF ControlStep, InHand, PosterStates, PosterSpurious
<1>8. CASE PosterLeave
  BY <1>0, <1>8, ControlSteps DEF ControlStep, InHand, PosterStates, PosterLeave
<1>9. CASE PosterTake
  <2>1. /\ poster = "ready" /\ poster' = "post"
        /\ UNCHANGED <<owner, stop, log, delayed, offered, givenUp, unanswered>>
    BY <1>9 DEF PosterTake
  <2>2. /\ IsWindow(queue', offered') /\ Len(queue') <= MaxQueueSize
        /\ Past \in Nat /\ current' = Past + 1 /\ Past' = Past + 1
    BY <1>9, TakeKeepsWindow DEF IInv
  <2>3. Elements(log)' = Elements(log) /\ current <= Past
    BY <2>1 DEF Elements, IInv, QueueIsWindow
  <2>4. current = 0 \/ current \in Elements(log)
    BY <2>1 DEF IInv, HandedOver
  <2>5. TypeOK'
    BY <1>0, <2>1, <2>2 DEF IInv, TypeOK, IsWindow
  <2>6. QueueIsWindow'
    BY <2>2 DEF QueueIsWindow
  <2>7. PostedOnlyTaken'
    <3>1. \A n \in Elements(log) \cup delayed : n \in Nat /\ 1 <= n /\ n <= current
      <4>1. \A n \in Elements(log) : n \in Nat
        BY ElementOfSeq DEF IInv, TypeOK, Elements
      <4>. QED BY <1>0, <4>1 DEF IInv, PostedOnlyTaken
    <3>2. \A n \in Elements(log) \cup delayed : 1 <= n /\ n <= current'
      BY <1>0, <2>2, <2>3, <3>1
    <3>3. \A n \in givenUp : 1 <= n /\ n <= Past
      BY DEF IInv, PostedOnlyTaken
    <3>4. current' \notin givenUp /\ \A n \in givenUp : 1 <= n /\ n <= Past'
      BY <1>0, <2>2, <3>3
    <3>5. givenUp \cap (Elements(log) \cup delayed \cup {current}) = {}
      BY DEF IInv, PostedOnlyTaken
    <3>. QED BY <2>1, <2>3, <3>2, <3>4, <3>5 DEF PostedOnlyTaken
  <2>8. HandedOver'
    <3>1. \A n \in 1..Past' : n \in 1..Past \/ n = Past + 1
      BY <2>2
    <3>2. \A n \in 1..Past : n \in Elements(log) \cup givenUp
      BY <1>0, <2>2, <2>4 DEF IInv, HandedOver
    <3>. QED BY <1>0, <2>1, <2>2, <2>3, <2>4, <3>1, <3>2 DEF IInv, HandedOver, PostedOnlyTaken
  <2>9. DrainedIsFinal'
    BY <2>1 DEF DrainedIsFinal
  <2>10. FirstsInOrder'
    BY <2>1 DEF IInv, FirstsInOrder
  <2>. QED BY <2>5, <2>6, <2>7, <2>8, <2>9, <2>10 DEF IInv
<1>10. CASE PostAccepted
  BY <1>0, <1>10, LogSteps DEF PostAccepted
<1>11. CASE PostFails
  BY <1>0, <1>11, ControlSteps DEF ControlStep, InHand, PosterStates, PostFails, AfterFailure
<1>12. CASE PostAnswerLost
  BY <1>0, <1>12, LogSteps DEF PostAnswerLost, AfterFailure
<1>13. CASE PostDelayed
  <2>1. /\ poster = "post" /\ poster' = "backoff" /\ unanswered' \in Nat
        /\ delayed' = delayed \cup {current}
        /\ UNCHANGED <<owner, stop, queue, current, log, offered, givenUp>>
    BY <1>0, <1>13 DEF PostDelayed, AfterFailure
  <2>2. Elements(log)' = Elements(log) /\ Past' = Past
    BY <2>1 DEF Elements, Past
  <2>3. TypeOK'
    BY <1>0, <2>1 DEF IInv, TypeOK
  <2>4. QueueIsWindow' /\ DrainedIsFinal' /\ FirstsInOrder'
    BY <2>1, <2>2 DEF IInv, QueueIsWindow, DrainedIsFinal, FirstsInOrder
  <2>5. current > 0 /\ current \notin givenUp
    BY <2>1 DEF IInv, HandedOver, PostedOnlyTaken
  <2>6. PostedOnlyTaken'
    BY <1>0, <2>1, <2>2, <2>5 DEF IInv, PostedOnlyTaken
  <2>7. HandedOver'
    BY <2>1, <2>2, <2>5 DEF IInv, HandedOver
  <2>. QED BY <2>3, <2>4, <2>6, <2>7 DEF IInv
<1>14. CASE DelayedArrives
  <2>1. PICK n \in delayed : log' = Append(log, n) /\ delayed' = delayed \ {n}
    BY <1>14 DEF DelayedArrives
  <2>. QED BY <1>0, <1>14, <2>1, LogSteps DEF DelayedArrives
<1>15. CASE PosterRetries
  BY <1>0, <1>15, ControlSteps DEF ControlStep, InHand, PosterStates, PosterRetries
<1>16. CASE UNCHANGED vars
  <2>1. stop' \in {stop, TRUE}
    BY <1>16, Zenon DEF vars
  <2>2. /\ poster' \in PosterStates /\ InHand' = InHand
        /\ poster' = "drained" => poster = "drained"
        /\ owner' \in {"alive", "stopping", "joining", "gone"}
        /\ UNCHANGED <<queue, current, log, delayed, offered, givenUp, unanswered>>
    BY <1>0, <1>16 DEF vars, InHand, PosterStates
  <2>3. ControlStep
    BY <2>1, <2>2, Zenon DEF ControlStep
  <2>. QED BY <2>3, ControlSteps
<1>. QED
  BY <1>1, <1>2, <1>3, <1>4, <1>5, <1>6, <1>7, <1>8, <1>9, <1>10, <1>11, <1>12,
     <1>13, <1>14, <1>15, <1>16
  DEF Next, OwnerStep, PosterStep

\* IInv holds in every reachable state.
THEOREM Invariance == Spec => []IInv
<1>1. Init => IInv
  BY IInvInit
<1>2. IInv /\ [Next]_vars => IInv'
  BY IInvNext
<1>. QED BY <1>1, <1>2, PTL DEF Spec

--------------------------------------------------------------------------------
(* The theorems *)

\* TypeOK: the queue never exceeds its bound and every variable has its type.
THEOREM TypeCorrect == Spec => []TypeOK
BY Invariance, PTL DEF IInv

\* Every event that on_event was given waits, is in the poster's hands, was
\* given up for a younger one, or is with the API; what was given up is not.
THEOREM NoEventIsLost == Spec => []NothingLost
<1>1. IInv => NothingLost
  <2>. SUFFICES ASSUME IInv PROVE NothingLost
    OBVIOUS
  <2>1. /\ Len(queue) \in Nat /\ offered \in Nat /\ Len(queue) <= offered
        /\ \A i \in 1..Len(queue) : queue[i] = Past + i
    BY LenProperties DEF IInv, TypeOK, QueueIsWindow, IsWindow, Past
  <2>2. ASSUME NEW n \in 1..offered
        PROVE  n \in Elements(log) \cup Elements(queue) \cup givenUp \cup {current}
    <3>1. CASE n \in 1..Past
      BY <3>1 DEF IInv, HandedOver
    <3>2. CASE n \notin 1..Past
      <4>1. n - Past \in 1..Len(queue) /\ Past + (n - Past) = n
        BY <2>1, <3>2 DEF Past
      <4>2. queue[n - Past] = n
        BY <2>1, <4>1
      <4>. QED BY <4>1, <4>2 DEF Elements
    <3>. QED BY <3>1, <3>2
  <2>3. givenUp \cap (Elements(log) \cup delayed \cup {current}) = {}
    BY DEF IInv, PostedOnlyTaken
  <2>. QED BY <2>2, <2>3 DEF NothingLost
<1>. QED BY Invariance, <1>1, PTL

\* Retries and delayed requests repeat events and never bring one that is new
\* to the API before an older one.
THEOREM PostsAreOrdered == Spec => []FirstsInOrder
BY Invariance, PTL DEF IInv

\* A destructor that found its queue empty leaves nothing undelivered.
THEOREM ExitIsDrained == Spec => []DrainedAtExit
<1>1. IInv => DrainedAtExit
  <2>. SUFFICES ASSUME IInv, poster = "drained", NEW n \in 1..offered
                PROVE  n \in Elements(log) \cup givenUp
    BY DEF DrainedAtExit
  <2>1. queue = <<>> /\ offered \in Nat
    BY DEF IInv, TypeOK, DrainedIsFinal
  <2>2. Past = offered
    <3>1. Len(queue) = 0
      BY <2>1
    <3>. QED BY <2>1, <3>1 DEF Past
  <2>3. current = 0 \/ current \in Elements(log)
    BY DEF IInv, HandedOver
  <2>4. n \in Elements(log) \cup givenUp \cup {current}
    BY <2>2 DEF IInv, HandedOver
  <2>. QED BY <2>3, <2>4
<1>. QED BY Invariance, <1>1, PTL

\* HttpEventSink implements the bounded queue that drops its oldest item:
\* on_event is an Offer, PosterTake a Take, and every other step a stutter.
THEOREM QueueRefines == Spec => QueuePromise
<1>1. Init => Window!Init
  <2>. SUFFICES ASSUME Init PROVE Window!Init
    OBVIOUS
  <2>1. Len(queue) = 0 /\ offered = 0 /\ current = 0
    BY DEF Init
  <2>2. offered - Len(queue) = 0
    BY <2>1
  <2>. QED BY <2>1, <2>2 DEF Window!Init
<1>2. IInv /\ [Next]_vars => [Window!Next]_(Window!dropOldestVars)
  <2>. SUFFICES ASSUME IInv, [Next]_vars
                PROVE  [Window!Next]_(Window!dropOldestVars)
    OBVIOUS
  <2>0. /\ Len(queue) \in Nat /\ offered \in Nat /\ Len(queue) <= offered
        /\ Len(queue) <= MaxQueueSize
    BY LenProperties DEF IInv, TypeOK, QueueIsWindow, IsWindow
  <2>1. CASE OnEvent
    <3>1. /\ AppendEvent /\ offered' = offered + 1 /\ current' = current
      BY <2>1 DEF OnEvent
    <3>2. Len(queue') = IF Full THEN Len(queue) ELSE Len(queue) + 1
      BY <3>1, AppendEventKeepsWindow DEF IInv
    <3>3. offered - (offered - Len(queue)) = MaxQueueSize <=> Full
      BY <2>0 DEF Full
    <3>4. offered' - Len(queue') = IF Full THEN offered - Len(queue) + 1
                                           ELSE offered - Len(queue)
      BY <2>0, <3>1, <3>2
    <3>. QED BY <3>1, <3>3, <3>4 DEF Window!Next, Window!Offer
  <2>2. CASE PosterTake
    <3>1. /\ current' = Past + 1 /\ Past' = Past + 1
          /\ Len(queue) # 0 /\ offered' = offered
      BY <2>2, TakeKeepsWindow DEF IInv
    <3>2. offered - Len(queue) < offered
      BY <2>0, <3>1
    <3>. QED BY <3>1, <3>2 DEF Window!Next, Window!Take, Past
  <2>3. CASE UNCHANGED <<queue, offered, current>>
    BY <2>3 DEF Window!dropOldestVars
  <2>4. OnEvent \/ PosterTake \/ UNCHANGED <<queue, offered, current>>
    BY DEF Next, vars, SetStop, OwnerStep, NotifyAll, Join, PosterStep, PosterTest,
           PosterPark, PosterSpurious, PosterLeave, PostAccepted, PostFails,
           PostAnswerLost, PostDelayed, DelayedArrives, PosterRetries
  <2>. QED BY <2>1, <2>2, <2>3, <2>4
<1>. QED BY <1>1, <1>2, Invariance, PTL DEF Spec, QueuePromise, Window!Spec
================================================================================
