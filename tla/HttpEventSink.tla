----------------------------- MODULE HttpEventSink -----------------------------
(***************************************************************************)
(* HttpEventSink: the bounded queue between the worker thread, which calls *)
(* on_event, and the poster thread, which POSTs one event after the other  *)
(* to the API and retries each until the API takes it.                     *)
(*                                                                         *)
(* An event is the number of its on_event call.  The network and the API   *)
(* appear as what they do to one request: take it and say so; take it with *)
(* the answer lost; delay it beyond the client's timeout and deliver it    *)
(* later; lose it; refuse it.  `log' is what the API took, in its order.   *)
(*                                                                         *)
(* As in CaptureEngine the mutex needs no variable: the poster holds it    *)
(* between two steps exactly while it is "parking" or "ready".             *)
(***************************************************************************)
EXTENDS Naturals, Sequences

CONSTANTS
  MaxQueueSize,   \* HttpEventSinkConfig::max_queue_size
  Refused,        \* the events that the API answers with an error for good
  MaxEvents,      \* bound: calls of on_event
  MaxUnanswered   \* bound: requests taken or delayed whose answer is lost

ASSUME MaxQueueSizeAssumption == MaxQueueSize \in Nat \ {0}
ASSUME BoundsAssumption ==
  Refused \subseteq Nat /\ MaxEvents \in Nat /\ MaxUnanswered \in Nat

VARIABLES
  owner,       \* the destructor: "alive", "stopping", "joining", "gone"
  stop,        \* stop_
  queue,       \* queue_
  poster,      \* program counter of poster_loop
  current,     \* the event in the poster's hands, 0 before the first
  log,         \* what the API has taken
  delayed,     \* requests the client gave up that may still arrive
  offered,     \* history: calls of on_event
  givenUp,     \* history: events dropped from a full queue
  unanswered   \* history: requests counted against MaxUnanswered

vars == <<owner, stop, queue, poster, current, log, delayed, offered, givenUp,
          unanswered>>

Init ==
  /\ owner = "alive" /\ stop = FALSE
  /\ queue = <<>> /\ offered = 0 /\ givenUp = {}
  /\ poster = "wait" /\ current = 0
  /\ log = <<>> /\ delayed = {} /\ unanswered = 0

Elements(s) == {s[i] : i \in 1..Len(s)}

MutexFree == poster \notin {"parking", "ready"}

\* Fault: on_event does not notify.
NotifiedFault == poster
\* Waking the poster if it is in the wait set; it tests again.
Notified == IF poster = "blocked" THEN "wait" ELSE poster

--------------------------------------------------------------------------------
(* The worker thread: on_event *)

Full == Len(queue) >= MaxQueueSize

\* Fault: a full queue gives up its newest event.
AppendEventFault ==
  /\ queue' = IF Full THEN Append(SubSeq(queue, 1, Len(queue) - 1), offered + 1)
                      ELSE Append(queue, offered + 1)
  /\ givenUp' = IF Full THEN givenUp \cup {queue[Len(queue)]} ELSE givenUp
\* Fault: a full queue is emptied.
AppendEventFault2 ==
  /\ queue' = IF Full THEN <<offered + 1>> ELSE Append(queue, offered + 1)
  /\ givenUp' = IF Full THEN givenUp \cup {Head(queue)} ELSE givenUp
AppendEvent ==
  /\ queue' = Append(IF Full THEN Tail(queue) ELSE queue, offered + 1)
  /\ givenUp' = IF Full THEN givenUp \cup {Head(queue)} ELSE givenUp

\* The engine has joined its worker before it lets go of the sink, so no call
\* meets the destructor.
OnEvent ==
  /\ owner = "alive" /\ MutexFree /\ ~stop
  /\ offered < MaxEvents
  /\ offered' = offered + 1
  /\ AppendEvent
  /\ poster' = Notified
  /\ UNCHANGED <<owner, stop, current, log, delayed, unanswered>>

--------------------------------------------------------------------------------
(* The destructor *)

\* Fault: stop_ is an atomic set without the mutex.
SetStopFault ==
  /\ owner = "alive"
  /\ stop' = TRUE /\ owner' = "stopping"
  /\ UNCHANGED <<queue, poster, current, log, delayed, offered, givenUp, unanswered>>
SetStop ==
  /\ owner = "alive" /\ MutexFree
  /\ stop' = TRUE /\ owner' = "stopping"
  /\ UNCHANGED <<queue, poster, current, log, delayed, offered, givenUp, unanswered>>

NotifyAll ==
  /\ owner = "stopping"
  /\ poster' = Notified /\ owner' = "joining"
  /\ UNCHANGED <<stop, queue, current, log, delayed, offered, givenUp, unanswered>>

Join ==
  /\ owner = "joining" /\ poster \in {"drained", "abandoned"}
  /\ owner' = "gone"
  /\ UNCHANGED <<stop, queue, poster, current, log, delayed, offered, givenUp,
                 unanswered>>

--------------------------------------------------------------------------------
(* poster_loop *)

\* Takes the mutex and evaluates the predicate of cv_.wait.
PosterTest ==
  /\ poster = "wait"
  /\ poster' = IF stop \/ queue # <<>> THEN "ready" ELSE "parking"
  /\ UNCHANGED <<owner, stop, queue, current, log, delayed, offered, givenUp,
                 unanswered>>

PosterPark ==
  /\ poster = "parking"
  /\ poster' = "blocked"
  /\ UNCHANGED <<owner, stop, queue, current, log, delayed, offered, givenUp,
                 unanswered>>

PosterSpurious ==
  /\ poster = "blocked"
  /\ poster' = "wait"
  /\ UNCHANGED <<owner, stop, queue, current, log, delayed, offered, givenUp,
                 unanswered>>

\* Fault: a stopped poster leaves what is queued.
PosterLeaveFault ==
  /\ poster = "ready" /\ stop
  /\ poster' = "drained"
  /\ UNCHANGED <<owner, stop, queue, current, log, delayed, offered, givenUp,
                 unanswered>>
\* Stopped, and nothing left to post.
PosterLeave ==
  /\ poster = "ready" /\ stop /\ queue = <<>>
  /\ poster' = "drained"
  /\ UNCHANGED <<owner, stop, queue, current, log, delayed, offered, givenUp,
                 unanswered>>

PosterTake ==
  /\ poster = "ready" /\ queue # <<>>
  /\ current' = Head(queue) /\ queue' = Tail(queue)
  /\ poster' = "post"
  /\ UNCHANGED <<owner, stop, log, delayed, offered, givenUp, unanswered>>

\* post_once returns true: the API took the event and its 2xx arrived.
PostAccepted ==
  /\ poster = "post" /\ current \notin Refused
  /\ log' = Append(log, current)
  /\ poster' = "wait"
  /\ UNCHANGED <<owner, stop, queue, current, delayed, offered, givenUp, unanswered>>

\* Fault: an event is posted once and then forgotten.
AfterFailureFault == "wait"
\* post_once returns false: the poster sleeps for the backoff.
AfterFailure == "backoff"

\* No connection, or a status that is not 2xx.
PostFails ==
  /\ poster = "post"
  /\ poster' = AfterFailure
  /\ UNCHANGED <<owner, stop, queue, current, log, delayed, offered, givenUp,
                 unanswered>>

\* The API took the event, the answer is lost or comes after the timeout.
PostAnswerLost ==
  /\ poster = "post" /\ current \notin Refused
  /\ unanswered < MaxUnanswered
  /\ unanswered' = unanswered + 1
  /\ log' = Append(log, current)
  /\ poster' = AfterFailure
  /\ UNCHANGED <<owner, stop, queue, current, delayed, offered, givenUp>>

\* The client times out while its request is still on the way.
PostDelayed ==
  /\ poster = "post" /\ current \notin Refused
  /\ unanswered < MaxUnanswered
  /\ unanswered' = unanswered + 1
  /\ delayed' = delayed \cup {current}
  /\ poster' = AfterFailure
  /\ UNCHANGED <<owner, stop, queue, current, log, offered, givenUp>>

DelayedArrives ==
  /\ \E n \in delayed : log' = Append(log, n) /\ delayed' = delayed \ {n}
  /\ UNCHANGED <<owner, stop, queue, poster, current, offered, givenUp, unanswered>>

\* The backoff is over: give up if stopped meanwhile, else post again.
PosterRetries ==
  /\ poster = "backoff"
  /\ poster' = IF stop THEN "abandoned" ELSE "post"
  /\ UNCHANGED <<owner, stop, queue, current, log, delayed, offered, givenUp,
                 unanswered>>

--------------------------------------------------------------------------------
PosterStep ==
  \/ PosterTest \/ PosterPark \/ PosterLeave \/ PosterTake
  \/ PostAccepted \/ PostFails \/ PostAnswerLost \/ PostDelayed \/ PosterRetries

OwnerStep == NotifyAll \/ Join

Next ==
  \/ OnEvent \/ SetStop \/ OwnerStep
  \/ PosterStep \/ PosterSpurious
  \/ DelayedArrives

Spec == Init /\ [][Next]_vars

\* Both threads run when they can; the client's timeout ends every request.
\* SF_vars(PostAccepted) is about the API: an event that is posted again and
\* again, and that the API does not refuse, is answered some time.
Fairness ==
  WF_vars(PosterStep) /\ WF_vars(OwnerStep) /\ SF_vars(PostAccepted)

FairSpec == Spec /\ Fairness

--------------------------------------------------------------------------------
(* Properties *)

\* Every variable has its type, and the queue never exceeds its bound.
TypeOK ==
  /\ owner \in {"alive", "stopping", "joining", "gone"} /\ stop \in BOOLEAN
  /\ poster \in {"wait", "parking", "blocked", "ready", "post", "backoff",
                 "drained", "abandoned"}
  /\ queue \in Seq(Nat) /\ Len(queue) <= MaxQueueSize
  /\ log \in Seq(Nat)
  /\ delayed \subseteq Nat /\ givenUp \subseteq Nat
  /\ current \in Nat /\ offered \in Nat /\ unanswered \in Nat

\* An event that was offered waits, is in the poster's hands, has been given up
\* to make room -- and then it is not posted as well -- or is with the API.
NothingLost ==
  /\ \A n \in 1..offered :
       n \in Elements(log) \cup Elements(queue) \cup givenUp \cup {current}
  /\ givenUp \cap (Elements(log) \cup delayed \cup {current}) = {}

\* The API sees the events in the order of on_event: one that comes after a
\* later one is a repetition (a retry, or a delayed request) of what it had.
FirstsInOrder ==
  \A j \in 1..Len(log) : \A i \in 1..j :
    log[j] < log[i] => \E k \in 1..i : log[k] = log[j]

\* A destructor whose last request did not fail leaves nothing behind: what was
\* queued when it began is with the API.
DrainedAtExit ==
  poster = "drained" => \A n \in 1..offered : n \in Elements(log) \cup givenUp

\* The queue keeps the promise of a bounded queue that drops its oldest item.
Window == INSTANCE DropOldest WITH
  Capacity <- MaxQueueSize,
  offered <- offered, head <- offered - Len(queue), handed <- current

QueuePromise == Window!Spec

\* The destructor returns, whatever the API does: stop_ is set under the mutex,
\* so the poster cannot miss it, and it gives up after a failed request.
DestructorReturns == stop ~> owner = "gone"

\* README.md: the scanner "POSTs changes to the API when configured".  Every
\* event the API would take is given up to make room, or stopped for, or gets
\* to the API.
EventsArrive ==
  \A n \in (1..MaxEvents) \ Refused :
    offered >= n ~> (n \in Elements(log) \cup givenUp \/ stop)
================================================================================
