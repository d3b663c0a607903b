------------------------------ MODULE ProbePlanner ------------------------------
(***************************************************************************)
(* MdnsProbePlanner between the worker thread, which observes events, and  *)
(* the poller thread, which drains the planner once per tick and sends one *)
(* query per batch.  The planner's mutex is held by the worker for a whole *)
(* event; the clock is read for each request and may advance in between.   *)
(*                                                                         *)
(* Times are relative, so that time never has to end: `age' is how long    *)
(* ago last_probe_ was set and `sinceSent' how long ago a query was really *)
(* sent, both up to Cooldown, which also stands for "never"; nothing in    *)
(* the code tells longer times apart.  The unit is one Tick.               *)
(***************************************************************************)
EXTENDS Naturals, Sequences

CONSTANTS
  Services,          \* service types: a PTR to one is followed by a PTR query
  Instances,         \* instances: a PTR to one is followed by SRV and TXT
  MaxPending, MaxProbesPerTick, Cooldown,   \* MdnsProbePlannerConfig
  Interval,          \* the poll interval of run()
  MaxRecords         \* bound: probe-worthy records in one event

ASSUME ConfigAssumption ==
  MaxPending \in Nat /\ MaxProbesPerTick \in Nat /\ Cooldown \in Nat
ASSUME IntervalAssumption == Interval \in Nat \ {0} /\ MaxRecords \in Nat
ASSUME NamesAssumption == Services \cap Instances = {}

\* probe_key: the name and the query type.
Key == Services \X {"PTR"} \cup Instances \X {"SRV", "TXT"}

\* What observe asks for on a record that points to `name'.
BatchFor(name) ==
  IF name \in Services THEN << <<name, "PTR">> >>
                       ELSE << <<name, "SRV">>, <<name, "TXT">> >>

VARIABLES
  pending,      \* pending_, a queue of batches
  pendingKeys,  \* pending_keys_
  age,          \* last_probe_, as the time since
  todo,         \* records of the event under observation still to handle
  asked,        \* requests of the current batch still to try
  accepted,     \* requests of the current batch that were accepted
  worker,       \* "idle", "record" (between batches) or "request": the last
                \*   two hold the mutex
  sending,      \* batches drained and not sent yet
  sleep,        \* ticks until the poller wakes up, 0 while it is awake
  sinceSent     \* history: time since a query for the key went out

plannerVars == <<pending, pendingKeys, age>>
observeVars == <<todo, asked, accepted, worker>>
vars == <<plannerVars, observeVars, sending, sleep, sinceSent>>

Init ==
  /\ pending = <<>> /\ pendingKeys = {} /\ age = [k \in Key |-> Cooldown]
  /\ todo = <<>> /\ asked = <<>> /\ accepted = <<>> /\ worker = "idle"
  /\ sending = <<>> /\ sleep = 0
  /\ sinceSent = [k \in Key |-> Cooldown]

Requests(s) == {s[i] : i \in 1..Len(s)}
KeysOf(batches) == UNION {Requests(batches[i]) : i \in 1..Len(batches)}

--------------------------------------------------------------------------------
(* The worker: observe, enqueue_batch, try_enqueue *)

Observe ==
  /\ worker = "idle"
  /\ \E n \in 1..MaxRecords : todo' \in [1..n -> Services \cup Instances]
  /\ worker' = "record"
  /\ UNCHANGED <<plannerVars, asked, accepted, sending, sleep, sinceSent>>

HasRoom == Len(pending) < MaxPending

\* Fault: the key is marked before the bound is looked at.
BatchRefusedFault ==
  /\ worker = "record" /\ todo # <<>> /\ ~HasRoom
  /\ age' = [k \in Key |-> IF k \in Requests(BatchFor(Head(todo))) THEN 0 ELSE age[k]]
  /\ todo' = Tail(todo)
  /\ UNCHANGED <<pending, pendingKeys, asked, accepted, worker, sending, sleep,
                 sinceSent>>
\* enqueue_batch returns at once when pending_ is at its bound.
BatchRefused ==
  /\ worker = "record" /\ todo # <<>> /\ ~HasRoom
  /\ todo' = Tail(todo)
  /\ UNCHANGED <<plannerVars, asked, accepted, worker, sending, sleep, sinceSent>>

BatchStarted ==
  /\ worker = "record" /\ todo # <<>> /\ HasRoom
  /\ asked' = BatchFor(Head(todo)) /\ todo' = Tail(todo)
  /\ worker' = "request"
  /\ UNCHANGED <<plannerVars, accepted, sending, sleep, sinceSent>>

\* Fault: the cooldown is not looked at.
EligibleFault(k) == k \notin pendingKeys
Eligible(k) == k \notin pendingKeys /\ age[k] >= Cooldown

\* try_enqueue: the key is pending and its cooldown starts now, at the time of
\* queueing and not of sending.
RequestTried ==
  /\ worker = "request" /\ asked # <<>>
  /\ LET k == Head(asked) IN
       \/ /\ Eligible(k)
          /\ pendingKeys' = pendingKeys \cup {k}
          /\ age' = [age EXCEPT ![k] = 0]
          /\ accepted' = Append(accepted, k)
       \/ /\ ~Eligible(k)
          /\ UNCHANGED <<pendingKeys, age, accepted>>
  /\ asked' = Tail(asked)
  /\ UNCHANGED <<pending, todo, worker, sending, sleep, sinceSent>>

\* What was accepted becomes one batch.
BatchDone ==
  /\ worker = "request" /\ asked = <<>>
  /\ pending' = IF accepted # <<>> THEN Append(pending, accepted) ELSE pending
  /\ accepted' = <<>>
  /\ worker' = "record"
  /\ UNCHANGED <<pendingKeys, age, todo, asked, sending, sleep, sinceSent>>

ObserveDone ==
  /\ worker = "record" /\ todo = <<>>
  /\ worker' = "idle"
  /\ UNCHANGED <<plannerVars, todo, asked, accepted, sending, sleep, sinceSent>>

--------------------------------------------------------------------------------
(* The poller: drain_and_send_probes, then sleep_for(interval) *)

\* Fault: the branches are exchanged.
DrainLimitFault(maxBatches) == IF maxBatches > 0 THEN MaxProbesPerTick ELSE maxBatches
DrainLimit(maxBatches) == IF maxBatches > 0 THEN maxBatches ELSE MaxProbesPerTick

\* Fault: pending_keys_ is cleared whatever is left in pending_.
KeysLeftFault(drained) == {}
KeysLeft(drained) == pendingKeys \ KeysOf(drained)

\* drain_ready(0).
Drain ==
  /\ sleep = 0 /\ sending = <<>> /\ worker = "idle"
  /\ LET n == IF Len(pending) < DrainLimit(0) THEN Len(pending) ELSE DrainLimit(0)
         drained == SubSeq(pending, 1, n)
     IN  /\ pending' = SubSeq(pending, n + 1, Len(pending))
         /\ pendingKeys' = KeysLeft(drained)
         /\ sending' = drained
         /\ sleep' = IF n = 0 THEN Interval ELSE 0
  /\ UNCHANGED <<age, observeVars, sinceSent>>

\* One query with the questions of one batch.  It goes out or throws, which is
\* logged and not retried.
SendBatch ==
  /\ sending # <<>>
  /\ \/ sinceSent' = [k \in Key |-> IF k \in Requests(Head(sending)) THEN 0
                                                                     ELSE sinceSent[k]]
     \/ UNCHANGED sinceSent
  /\ sending' = Tail(sending)
  /\ sleep' = IF Len(sending) = 1 THEN Interval ELSE 0
  /\ UNCHANGED <<plannerVars, observeVars>>

--------------------------------------------------------------------------------
Older(t) == IF t < Cooldown THEN t + 1 ELSE t

\* Time passes only while the poller sleeps: next to a poll interval of seconds
\* draining and sending take no time, and the poller wakes up when it is due.
Tick ==
  /\ sleep > 0
  /\ sleep' = sleep - 1
  /\ age' = [k \in Key |-> Older(age[k])]
  /\ sinceSent' = [k \in Key |-> Older(sinceSent[k])]
  /\ UNCHANGED <<pending, pendingKeys, observeVars, sending>>

WorkerStep ==
  BatchRefused \/ BatchStarted \/ RequestTried \/ BatchDone \/ ObserveDone
PollerStep == Drain \/ SendBatch

Next == Observe \/ WorkerStep \/ PollerStep \/ Tick

Spec == Init /\ [][Next]_vars

\* The worker finishes the event it has begun, the poller runs when it is
\* awake, and time passes.  std::mutex promises nothing to a thread that finds
\* it taken, but the worker lets go of it after every event: SF for Drain.
Fairness ==
  /\ WF_vars(WorkerStep) /\ SF_vars(Drain) /\ WF_vars(SendBatch) /\ WF_vars(Tick)

FairSpec == Spec /\ Fairness

--------------------------------------------------------------------------------
(* Properties *)

\* Every variable has its type, and pending_ never exceeds its bound.
TypeOK ==
  /\ pending \in Seq(Seq(Key)) /\ Len(pending) <= MaxPending
  /\ pendingKeys \subseteq Key
  /\ age \in [Key -> 0..Cooldown] /\ sinceSent \in [Key -> 0..Cooldown]
  /\ todo \in Seq(Services \cup Instances)
  /\ asked \in Seq(Key) /\ accepted \in Seq(Key)
  /\ worker \in {"idle", "record", "request"}
  /\ sending \in Seq(Seq(Key))
  /\ sleep \in 0..Interval

\* No key waits twice, in two batches or in one.
NothingPendingTwice ==
  \A i, j \in 1..Len(pending) :
    \A m \in 1..Len(pending[i]), n \in 1..Len(pending[j]) :
      pending[i][m] = pending[j][n] => i = j /\ m = n

\* pending_keys_ is exactly what is queued, each key once.  A key too many would
\* never be probed again, a key too few would be queued twice.
PendingKeysExact ==
  /\ pendingKeys = KeysOf(pending) \cup Requests(accepted)
  /\ NothingPendingTwice

\* A name that finds the planner full is not remembered: its cooldown does not
\* start, so it is probed when it is seen again.
RefusedNotRemembered ==
  [][(\E k \in Key : age'[k] < age[k]) => Len(pending) < MaxPending]_vars

\* The longest a batch can wait to be drained.
MaxWait == Interval * ((MaxPending + MaxProbesPerTick - 1) \div MaxProbesPerTick)

Sends(k) == sending # <<>> /\ k \in Requests(Head(sending)) /\ sinceSent'[k] = 0

\* Two queries for one name are at least the cooldown apart, less the time the
\* second may have waited less than the first.
SpacingUpToBacklog ==
  [][\A k \in Key : sending' # sending /\ Sends(k)
        => sinceSent[k] + MaxWait >= Cooldown]_vars

\* Whatever is queued is drained some time.
ProbesLeaveTheQueue == \A k \in Key : k \in pendingKeys ~> k \notin pendingKeys

\* README.md: "Min ms before re-probing the same name".  Two queries for one
\* name are at least the cooldown apart.
CooldownBetweenProbes ==
  [][\A k \in Key : sending' # sending /\ Sends(k) => sinceSent[k] >= Cooldown]_vars
================================================================================
