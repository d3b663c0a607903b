----------------------------- MODULE CaptureEngine -----------------------------
(***************************************************************************)
(* DiscoveryEngine::run with the four threads it involves -- the caller    *)
(* ("main"), the receiver, the worker and the poller -- and the            *)
(* PacketReceiveQueue between the receiver and the worker.                 *)
(*                                                                         *)
(* Each thread has a program counter.  A step is what no other thread can  *)
(* interleave with: a critical section under the queue's mutex, one load   *)
(* or store of the atomic `running', or one call on the socket.  The mutex *)
(* needs no variable: push is one step, and the worker holds it exactly    *)
(* while it is "parking" (predicate found false, not blocked yet) or       *)
(* "ready" (predicate found true, not popped yet).                         *)
(*                                                                         *)
(* A packet is the number of its push; what it contains is chosen when the *)
(* worker looks at it, which is the first time anything depends on it.     *)
(* Follow-up probes (MdnsProbePlanner) and event sinks have modules of     *)
(* their own; here a poll tick is two sends that may fail.                 *)
(***************************************************************************)
EXTENDS Naturals, Sequences

CONSTANTS
  MaxQueueSize,  \* kMaxPacketQueueSize
  MaxPackets,    \* bound: datagrams the network delivers
  MaxRuns        \* bound: calls of run() that get past start()

ASSUME MaxQueueSizeAssumption == MaxQueueSize \in Nat \ {0}
ASSUME BoundsAssumption == MaxPackets \in Nat /\ MaxRuns \in Nat

VARIABLES
  main, receiver, worker, poller,   \* program counters
  running, errorOccurred, setupOk,  \* the engine's flags
  result,                           \* what the last run() returned
  queue, dropped,                   \* PacketReceiveQueue
  popped,                           \* the packet the worker popped last
  queriesSeen, responsesSeen, sinkEvents,
  undecodable,                      \* packets whose decoding threw (only logged)
  pushed,                           \* history: pushes so far
  carried,                          \* history: pushes before this run
                                    \*   that did not wait when it started
  runs                              \* how often run() got past start()

threadVars == <<main, receiver, worker, poller>>
flagVars == <<running, errorOccurred, setupOk, result, runs>>
queueVars == <<queue, dropped, pushed>>
counterVars == <<queriesSeen, responsesSeen, sinkEvents, undecodable, carried>>
vars == <<threadVars, flagVars, queueVars, counterVars, popped>>

Init ==
  /\ main = "idle" /\ receiver = "off" /\ worker = "off" /\ poller = "off"
  /\ running = FALSE /\ errorOccurred = FALSE /\ setupOk = TRUE
  /\ result = "none" /\ runs = 0
  /\ queue = <<>> /\ dropped = 0 /\ pushed = 0 /\ carried = 0
  /\ popped = 0
  /\ queriesSeen = 0 /\ responsesSeen = 0 /\ sinkEvents = 0 /\ undecodable = 0

--------------------------------------------------------------------------------
(* PacketReceiveQueue *)

MutexFree == worker \notin {"parking", "ready"}

\* Fault: the queue never notifies.
NotifiedFault == worker
\* Waking a blocked worker; it has to take the mutex and test again.
Notified == IF worker = "blocked" THEN "wait" ELSE worker

\* Faults: the bound is off by one; the newest packet is given up.
RoomMadeFault(q) == IF Len(q) > MaxQueueSize THEN Tail(q) ELSE q
RoomMadeFault2(q) ==
  IF Len(q) >= MaxQueueSize THEN SubSeq(q, 1, Len(q) - 1) ELSE q
\* A full queue gives up its oldest packet.
RoomMade(q) == IF Len(q) >= MaxQueueSize THEN Tail(q) ELSE q

\* push: make room, append, notify_one.
Push ==
  /\ MutexFree
  /\ queue' = Append(RoomMade(queue), pushed + 1)
  /\ dropped' = IF Len(queue) >= MaxQueueSize THEN dropped + 1 ELSE dropped
  /\ pushed' = pushed + 1
  /\ worker' = Notified

--------------------------------------------------------------------------------
(* The thread that calls run() *)

\* Past start() and the resets; running is set before a thread exists.  The
\* queue is not emptied: what an earlier run left is served by this one.
MainRun ==
  /\ main = "idle" /\ ~running
  /\ runs < MaxRuns
  /\ runs' = runs + 1
  /\ running' = TRUE /\ errorOccurred' = FALSE /\ setupOk' = TRUE
  /\ dropped' = 0
  /\ queriesSeen' = 0 /\ responsesSeen' = 0 /\ sinkEvents' = 0
  /\ undecodable' = 0 /\ carried' = pushed - Len(queue)
  /\ main' = "spawnWorker"
  /\ UNCHANGED <<receiver, worker, poller, result, queue, pushed, popped>>

\* start() fails: no interface, or the multicast bind throws.
MainStartFails ==
  /\ main = "idle" /\ ~running
  /\ result' = "false"
  /\ UNCHANGED <<threadVars, queueVars, counterVars, popped,
                 running, errorOccurred, setupOk, runs>>

\* A std::thread constructor: it starts the thread or throws, which the catch
\* clause turns into a failed run.
SpawnFails(at) ==
  /\ main = at
  /\ main' = "stop" /\ errorOccurred' = TRUE /\ setupOk' = FALSE
  /\ UNCHANGED <<receiver, worker, poller>>

SpawnWorker ==
  \/ main = "spawnWorker" /\ worker' = "loop" /\ main' = "spawnReceiver"
     /\ UNCHANGED <<receiver, poller, errorOccurred, setupOk>>
  \/ SpawnFails("spawnWorker")

SpawnReceiver ==
  \/ main = "spawnReceiver" /\ receiver' = "loop" /\ main' = "spawnPoller"
     /\ UNCHANGED <<worker, poller, errorOccurred, setupOk>>
  \/ SpawnFails("spawnReceiver")

\* Fault: error_occurred_ is reset once the threads run.
SpawnPollerFault ==
  \/ main = "spawnPoller" /\ poller' = "loop" /\ main' = "poll"
     /\ errorOccurred' = FALSE
     /\ UNCHANGED <<worker, receiver, setupOk>>
  \/ SpawnFails("spawnPoller")

SpawnPoller ==
  \/ main = "spawnPoller" /\ poller' = "loop" /\ main' = "poll"
     /\ UNCHANGED <<worker, receiver, errorOccurred, setupOk>>
  \/ SpawnFails("spawnPoller")

MainSpawn ==
  /\ SpawnWorker \/ SpawnReceiver \/ SpawnPoller
  /\ UNCHANGED <<running, result, runs, queueVars, counterVars, popped>>

\* The signal handler has asked for shutdown and the 200 ms poll sees it.
MainShutdown ==
  /\ main = "poll"
  /\ main' = "stop"
  /\ UNCHANGED <<receiver, worker, poller, flagVars, queueVars, counterVars, popped>>

\* Fault: run() returns at once when a thread could not be started.
MainStopFault ==
  /\ main = "stop"
  /\ running' = FALSE /\ main' = IF setupOk THEN "notify" ELSE "idle"
  /\ UNCHANGED <<receiver, worker, poller, errorOccurred, setupOk, result, runs,
                 queueVars, counterVars, popped>>

\* running.store(false), without the queue's mutex ...
MainStop ==
  /\ main = "stop"
  /\ running' = FALSE /\ main' = "notify"
  /\ UNCHANGED <<receiver, worker, poller, errorOccurred, setupOk, result, runs,
                 queueVars, counterVars, popped>>

\* ... then notify_all, without it either.
MainNotify ==
  /\ main = "notify"
  /\ worker' = Notified /\ main' = "joinReceiver"
  /\ UNCHANGED <<receiver, poller, flagVars, queueVars, counterVars, popped>>

\* A thread that was never started ("off") is not joinable and is skipped.
Joined(pc) == pc \in {"off", "exited"}

MainJoinReceiver ==
  /\ main = "joinReceiver" /\ Joined(receiver)
  /\ receiver' = "off" /\ main' = "joinPoller"
  /\ UNCHANGED <<worker, poller, flagVars, queueVars, counterVars, popped>>

MainJoinPoller ==
  /\ main = "joinPoller" /\ Joined(poller)
  /\ poller' = "off" /\ main' = "joinWorker"
  /\ UNCHANGED <<worker, receiver, flagVars, queueVars, counterVars, popped>>

\* The last join, and run() returns.
MainJoinWorker ==
  /\ main = "joinWorker" /\ Joined(worker)
  /\ worker' = "off" /\ main' = "idle"
  /\ result' = IF setupOk /\ ~errorOccurred THEN "true" ELSE "false"
  /\ UNCHANGED <<receiver, poller, running, errorOccurred, setupOk, runs,
                 queueVars, counterVars, popped>>

--------------------------------------------------------------------------------
(* receiver_loop *)

ReceiverLoop ==
  /\ receiver = "loop"
  /\ receiver' = IF running THEN "receive" ELSE "exited"
  /\ UNCHANGED <<main, worker, poller, flagVars, queueVars, counterVars, popped>>

\* receive_packet returns a datagram.
ReceiverGets ==
  /\ receiver = "receive"
  /\ pushed < MaxPackets
  /\ receiver' = "push"
  /\ UNCHANGED <<main, worker, poller, flagVars, queueVars, counterVars, popped>>

\* Fault: no receive timeout is set, a silent network blocks forever.
ReceiverGetsNothingFault == FALSE

\* The one second timeout (EAGAIN), a signal (EINTR), an empty datagram.
ReceiverGetsNothing ==
  /\ receiver = "receive"
  /\ receiver' = "loop"
  /\ UNCHANGED <<main, worker, poller, flagVars, queueVars, counterVars, popped>>

\* Any other error ends the thread.  The engine goes on without a receiver.
ReceiverFails ==
  /\ receiver = "receive"
  /\ errorOccurred' = TRUE /\ receiver' = "exited"
  /\ UNCHANGED <<main, worker, poller, running, setupOk, result, runs, queueVars,
                 counterVars, popped>>

ReceiverPush ==
  /\ receiver = "push"
  /\ Push
  /\ receiver' = "loop"
  /\ UNCHANGED <<main, poller, flagVars, counterVars, popped>>

--------------------------------------------------------------------------------
(* worker_loop and wait_pop *)

WorkerLoop ==
  /\ worker = "loop"
  /\ worker' = IF running THEN "wait" ELSE "exited"
  /\ UNCHANGED <<main, receiver, poller, flagVars, queueVars, counterVars, popped>>

\* Takes the mutex and evaluates the predicate of cv_.wait.
WorkerTest ==
  /\ worker = "wait"
  /\ worker' = IF queue # <<>> \/ ~running THEN "ready" ELSE "parking"
  /\ UNCHANGED <<main, receiver, poller, flagVars, queueVars, counterVars, popped>>

\* Joins the wait set and releases the mutex, atomically.
WorkerPark ==
  /\ worker = "parking"
  /\ worker' = "blocked"
  /\ UNCHANGED <<main, receiver, poller, flagVars, queueVars, counterVars, popped>>

\* Fault: cv_.wait without a predicate, not tested again after a wake-up.
WorkerSpuriousFault ==
  /\ worker = "blocked"
  /\ worker' = "ready"
  /\ UNCHANGED <<main, receiver, poller, flagVars, queueVars, counterVars, popped>>

\* A condition variable may wake up for no reason.
WorkerSpurious ==
  /\ worker = "blocked"
  /\ worker' = "wait"
  /\ UNCHANGED <<main, receiver, poller, flagVars, queueVars, counterVars, popped>>

\* `!should_continue() && queue_.empty()': wait_pop returns false.
WorkerLeave ==
  /\ worker = "ready"
  /\ ~running /\ queue = <<>>
  /\ worker' = "exited"
  /\ UNCHANGED <<main, receiver, poller, flagVars, queueVars, counterVars, popped>>

WorkerPop ==
  /\ worker = "ready"
  /\ running \/ queue # <<>>
  /\ popped' = Head(queue) /\ queue' = Tail(queue)
  /\ worker' = "decode"
  /\ UNCHANGED <<main, receiver, poller, flagVars, dropped, pushed, counterVars>>

\* decode_packet throws, which the loop catches and logs.
Malformed ==
  /\ undecodable' = undecodable + 1 /\ worker' = "loop"
  /\ UNCHANGED <<queriesSeen, responsesSeen>>

\* Fault: a query falls through to the responses.
QueryFault ==
  /\ queriesSeen' = queriesSeen + 1
  /\ responsesSeen' = responsesSeen + 1 /\ worker' = "emit"
  /\ UNCHANGED undecodable
\* Another host's question: counted and ignored.
Query ==
  /\ queriesSeen' = queriesSeen + 1 /\ worker' = "loop"
  /\ UNCHANGED <<undecodable, responsesSeen>>

Response ==
  /\ responsesSeen' = responsesSeen + 1 /\ worker' = "emit"
  /\ UNCHANGED <<undecodable, queriesSeen>>

\* Fault: what decode_packet throws ends the thread.
WorkerDecodeFault ==
  /\ worker = "decode"
  /\ worker' \in {"loop", "exited"}
  /\ UNCHANGED <<main, receiver, poller, flagVars, queueVars, counterVars, popped>>
WorkerDecode ==
  /\ worker = "decode"
  /\ Malformed \/ Query \/ Response
  /\ UNCHANGED <<main, receiver, poller, flagVars, queueVars, sinkEvents, carried,
                 popped>>

\* The planner observes the event; one with displayable records goes to the
\* sink.  What either throws is caught and the loop goes on.
WorkerEmit ==
  /\ worker = "emit"
  /\ sinkEvents' = sinkEvents + 1 \/ UNCHANGED sinkEvents
  /\ worker' = "loop"
  /\ UNCHANGED <<main, receiver, poller, flagVars, queueVars, queriesSeen,
                 responsesSeen, undecodable, carried, popped>>

--------------------------------------------------------------------------------
(* poller_loop *)

PollerLoop ==
  /\ poller = "loop"
  /\ poller' = IF running THEN "browse" ELSE "exited"
  /\ UNCHANGED <<main, receiver, worker, flagVars, queueVars, counterVars, popped>>

\* broadcast_meta_browse, then drain_and_send_probes, then sleep: a send that
\* fails only sets the flag.
PollerSends(from, to) ==
  /\ poller = from
  /\ poller' = to
  /\ errorOccurred' = TRUE \/ UNCHANGED errorOccurred
  /\ UNCHANGED <<main, receiver, worker, running, setupOk, result, runs, queueVars,
                 counterVars, popped>>

PollerBrowse == PollerSends("browse", "probe")
PollerProbe == PollerSends("probe", "sleep")

PollerWakes ==
  /\ poller = "sleep"
  /\ poller' = IF running THEN "loop" ELSE "exited"
  /\ UNCHANGED <<main, receiver, worker, flagVars, queueVars, counterVars, popped>>

--------------------------------------------------------------------------------
MainStep ==
  \/ MainSpawn \/ MainStop \/ MainNotify
  \/ MainJoinReceiver \/ MainJoinPoller \/ MainJoinWorker

ReceiverStep ==
  \/ ReceiverLoop \/ ReceiverGets \/ ReceiverGetsNothing \/ ReceiverFails
  \/ ReceiverPush

WorkerStep ==
  \/ WorkerLoop \/ WorkerTest \/ WorkerPark \/ WorkerLeave \/ WorkerPop
  \/ WorkerDecode \/ WorkerEmit

PollerStep == PollerLoop \/ PollerBrowse \/ PollerProbe \/ PollerWakes

Next ==
  \/ MainRun \/ MainStartFails \/ MainShutdown
  \/ MainStep \/ ReceiverStep \/ WorkerStep \/ WorkerSpurious \/ PollerStep

Spec == Init /\ [][Next]_vars

\* The scheduler runs every thread that can run, and SO_RCVTIMEO ends every
\* receive.  Nobody has to call run() or ask for shutdown, no datagram and no
\* socket error has to come, and no wake-up is spurious for sure.
Fairness ==
  /\ WF_vars(MainStep)
  /\ WF_vars(ReceiverLoop \/ ReceiverGetsNothing \/ ReceiverPush)
  /\ WF_vars(WorkerStep) /\ WF_vars(PollerStep)

FairSpec == Spec /\ Fairness

--------------------------------------------------------------------------------
(* Properties *)

\* Every variable has its type, and the queue never exceeds its bound.
TypeOK ==
  /\ main \in {"idle", "spawnWorker", "spawnReceiver", "spawnPoller", "poll",
               "stop", "notify", "joinReceiver", "joinPoller", "joinWorker"}
  /\ receiver \in {"off", "loop", "receive", "push", "exited"}
  /\ worker \in {"off", "loop", "wait", "parking", "blocked", "ready", "decode",
                 "emit", "exited"}
  /\ poller \in {"off", "loop", "browse", "probe", "sleep", "exited"}
  /\ running \in BOOLEAN /\ errorOccurred \in BOOLEAN /\ setupOk \in BOOLEAN
  /\ result \in {"none", "true", "false"}
  /\ queue \in Seq(Nat) /\ Len(queue) <= MaxQueueSize
  /\ dropped \in Nat /\ pushed \in Nat /\ popped \in Nat /\ carried \in Nat
  /\ queriesSeen \in Nat /\ responsesSeen \in Nat /\ sinkEvents \in Nat
  /\ undecodable \in Nat /\ runs \in Nat

\* The numbers run() reports at the end of a session add up: every packet the
\* session had to serve was dropped, still waits, is in the worker's hands or
\* has been counted exactly once; and only a response becomes an event.
PacketsAccountedFor ==
  /\ pushed - carried = dropped + Len(queue) + (IF worker = "decode" THEN 1 ELSE 0)
                        + queriesSeen + responsesSeen + undecodable
  /\ sinkEvents + (IF worker = "emit" THEN 1 ELSE 0) <= responsesSeen

\* The worker never sleeps on a queue that has a packet: a push cannot fall
\* between the worker's test and its wait, because both hold the mutex.
BlockedOnlyWhenEmpty == worker \in {"parking", "blocked"} => queue = <<>>

\* wait_pop reads `running' twice.  Whatever happens between the two reads, it
\* never takes the front of an empty queue.
NeverPopsEmpty == worker = "ready" /\ running => queue # <<>>

\* When run() has returned, no thread it started is left, also when one of
\* them could not be started: the engine may be destroyed or run again.
NoThreadOutlivesRun ==
  main = "idle" => ~running /\ receiver = "off" /\ worker = "off" /\ poller = "off"

\* An error any thread met during a run is still there when the run returns,
\* and makes it return false (the exit code of the program).
ErrorsStick ==
  [][main # "idle" /\ errorOccurred =>
       errorOccurred' /\ (main' = "idle" => result' = "false")]_vars

\* PacketReceiveQueue gives the worker the packets in the order of their
\* pushes, and loses one only to make room.
Window == INSTANCE DropOldest WITH
  Capacity <- MaxQueueSize,
  offered <- pushed, head <- pushed - Len(queue), handed <- popped

QueuePromise == Window!Spec

\* While the engine runs, every waiting packet is served or dropped.
PacketsServed ==
  \A n \in 1..MaxPackets :
    (\E i \in 1..Len(queue) : queue[i] = n)
      ~> (~running \/ ~\E i \in 1..Len(queue) : queue[i] = n)

\* Once the engine has been stopped, the receiver and the poller end: run()
\* gets as far as joining the worker.
HelpersStop == main = "stop" ~> main = "joinWorker"

\* PacketReceiveQueue.hpp: wait_pop blocks "until a packet is available or
\* should_continue returns false", so a stopped engine has its worker back.
StopEndsWorker == ~running ~> worker \in {"off", "exited"}
================================================================================
