------------------------- MODULE CaptureEngineProofs -------------------------
(***************************************************************************)
(* Theorems about CaptureEngine, for every queue bound, number of packets  *)
(* and number of runs.  All of them follow from one inductive invariant,   *)
(* IInv, which adds two things to the properties themselves: which threads *)
(* may exist in which phase of run() (Phases), and that the queue holds    *)
(* consecutive packets that end with the one pushed last (QueueIsWindow).  *)
(***************************************************************************)
EXTENDS CaptureEngine, SharedLemmas

\* A thread exists only between its start and its join, and `running' is set
\* exactly from the first reset of run() to the end of its main loop.
Phases ==
  /\ running <=> main \in {"spawnWorker", "spawnReceiver", "spawnPoller", "poll", "stop"}
  /\ main \in {"idle", "spawnWorker"} => worker = "off"
  /\ main \in {"idle", "spawnWorker", "spawnReceiver", "joinPoller", "joinWorker"}
       => receiver = "off"
  /\ main \in {"idle", "spawnWorker", "spawnReceiver", "spawnPoller", "joinWorker"}
       => poller = "off"

\* The queue is the window that ends at the last push, and everything popped
\* came before it.
QueueIsWindow ==
  /\ IsWindow(queue, pushed)
  /\ popped <= pushed - Len(queue)

IInv ==
  /\ TypeOK /\ Phases /\ QueueIsWindow
  /\ BlockedOnlyWhenEmpty /\ NeverPopsEmpty /\ PacketsAccountedFor
  /\ carried <= pushed

USE MaxQueueSizeAssumption

--------------------------------------------------------------------------------
(* The inductive invariant *)

LEMMA IInvInit == Init => IInv
<1>. SUFFICES ASSUME Init PROVE IInv
  OBVIOUS
<1>1. queue = <<>> /\ Len(queue) = 0 /\ queue \in Seq(Nat)
  BY DEF Init
<1>2. QueueIsWindow
  BY <1>1 DEF Init, QueueIsWindow, IsWindow
<1>3. TypeOK
  <2>1. running \in BOOLEAN /\ errorOccurred \in BOOLEAN /\ setupOk \in BOOLEAN
    BY Zenon DEF Init
  <2>. QED BY <1>1, <2>1 DEF Init, TypeOK
<1>4. PacketsAccountedFor /\ BlockedOnlyWhenEmpty /\ NeverPopsEmpty /\ Phases
  BY <1>1 DEF Init, PacketsAccountedFor, BlockedOnlyWhenEmpty, NeverPopsEmpty, Phases
<1>. QED BY <1>2, <1>3, <1>4 DEF Init, IInv

\* Every step of every thread keeps the invariant.
LEMMA IInvNext == IInv /\ [Next]_vars => IInv'
<1> SUFFICES ASSUME IInv, [Next]_vars PROVE IInv'
  OBVIOUS
<1> USE DEF IInv, TypeOK, Phases, BlockedOnlyWhenEmpty, NeverPopsEmpty,
            PacketsAccountedFor, threadVars, flagVars, queueVars, counterVars
<1>0. /\ Len(queue) \in Nat /\ queue \in Seq(Nat)
      /\ (UNCHANGED <<queue, pushed, popped>> => QueueIsWindow')
  BY LenProperties DEF QueueIsWindow, IsWindow
<1>1. CASE MainRun
  <2>1. pushed - Len(queue) \in Nat /\ pushed - Len(queue) <= pushed
    BY <1>0 DEF QueueIsWindow, IsWindow
  <2>2. TypeOK'
    <3>1. (running \in BOOLEAN /\ errorOccurred \in BOOLEAN /\ setupOk \in BOOLEAN)'
      BY <1>1, Zenon DEF MainRun
    <3>. QED BY <1>0, <1>1, <2>1, <3>1 DEF MainRun
  <2>3. PacketsAccountedFor'
    BY <1>0, <1>1, <2>1 DEF MainRun
  <2>. QED BY <1>0, <1>1, <2>1, <2>2, <2>3 DEF MainRun
<1>2. CASE MainStartFails
  BY <1>0, <1>2 DEF MainStartFails
<1>3. CASE MainShutdown
  BY <1>0, <1>3 DEF MainShutdown
<1>4. CASE MainSpawn
  <2>0. (running \in BOOLEAN /\ errorOccurred \in BOOLEAN /\ setupOk \in BOOLEAN)'
    BY <1>4, Zenon DEF MainSpawn, SpawnWorker, SpawnReceiver, SpawnPoller, SpawnFails
  <2>. USE <1>0, <1>4, <2>0 DEF MainSpawn, SpawnFails
  <2>1. CASE SpawnWorker
    BY <2>1 DEF SpawnWorker
  <2>2. CASE SpawnReceiver
    BY <2>2 DEF SpawnReceiver
  <2>3. CASE SpawnPoller
    BY <2>3 DEF SpawnPoller
  <2>. QED BY <1>4, <2>1, <2>2, <2>3 DEF MainSpawn
<1>5. CASE MainStop
  <2>1. (running \in BOOLEAN /\ errorOccurred \in BOOLEAN /\ setupOk \in BOOLEAN)'
    BY <1>5, Zenon DEF MainStop
  <2>. QED BY <1>0, <1>5, <2>1 DEF MainStop
<1>6. CASE MainNotify
  BY <1>0, <1>6 DEF MainNotify, Notified
<1>7. CASE MainJoinReceiver
  BY <1>0, <1>7 DEF MainJoinReceiver, Joined
<1>8. CASE MainJoinPoller
  BY <1>0, <1>8 DEF MainJoinPoller, Joined
<1>9. CASE MainJoinWorker
  BY <1>0, <1>9 DEF MainJoinWorker, Joined
<1>10. CASE ReceiverLoop
  BY <1>0, <1>10 DEF ReceiverLoop
<1>11. CASE ReceiverGets
  BY <1>0, <1>11 DEF ReceiverGets
<1>12. CASE ReceiverGetsNothing
  BY <1>0, <1>12 DEF ReceiverGetsNothing
<1>13. CASE ReceiverFails
  <2>1. (running \in BOOLEAN /\ errorOccurred \in BOOLEAN /\ setupOk \in BOOLEAN)'
    BY <1>13, Zenon DEF ReceiverFails
  <2>. QED BY <1>0, <1>13, <2>1 DEF ReceiverFails
<1>14. CASE ReceiverPush
  <2>1. /\ IsWindow(queue', pushed')
        /\ Len(queue') = IF Len(queue) >= MaxQueueSize THEN Len(queue) ELSE Len(queue) + 1
    BY <1>14, PushKeepsWindow DEF ReceiverPush, Push, RoomMade, Roomy, QueueIsWindow
  <2>2. queue' \in Seq(Nat) /\ Len(queue') \in Nat \ {0}
    BY <1>0, <2>1 DEF IsWindow
  <2>3. QueueIsWindow'
    <3>1. pushed' = pushed + 1 /\ popped' = popped
      BY <1>14 DEF ReceiverPush, Push
    <3>2. popped <= pushed - Len(queue)
      BY DEF QueueIsWindow
    <3>3. popped' <= pushed' - Len(queue')
      BY <1>0, <2>1, <3>1, <3>2
    <3>. QED BY <2>1, <3>3 DEF QueueIsWindow
  <2>4. queue' # <<>>
    BY <2>2
  <2>. QED BY <1>0, <1>14, <2>1, <2>2, <2>3, <2>4
           DEF ReceiverPush, Push, MutexFree, Notified
<1>15. CASE WorkerLoop
  BY <1>0, <1>15 DEF WorkerLoop
<1>16. CASE WorkerTest
  BY <1>0, <1>16 DEF WorkerTest
<1>17. CASE WorkerPark
  BY <1>0, <1>17 DEF WorkerPark
<1>18. CASE WorkerLeave
  BY <1>0, <1>18 DEF WorkerLeave
<1>19. CASE WorkerPop
  <2>1. queue # <<>>
    BY <1>19 DEF WorkerPop
  <2>2. /\ popped' \in Nat /\ popped' = pushed - Len(queue) + 1
        /\ IsWindow(queue', pushed) /\ Len(queue') = Len(queue) - 1
    BY <1>19, <2>1, PopKeepsWindow DEF WorkerPop, QueueIsWindow
  <2>3. queue' \in Seq(Nat)
    BY <2>2 DEF IsWindow
  <2>4. QueueIsWindow'
    <3>1. popped' <= pushed - Len(queue') /\ pushed' = pushed
      BY <1>0, <1>19, <2>2 DEF WorkerPop
    <3>. QED BY <2>2, <3>1 DEF QueueIsWindow
  <2>. QED BY <1>0, <1>19, <2>2, <2>3, <2>4 DEF WorkerPop
<1>20. CASE WorkerDecode
  <2>. USE <1>0, <1>20 DEF WorkerDecode
  <2>1. CASE Malformed
    BY <2>1 DEF Malformed
  <2>2. CASE Query
    BY <2>2 DEF Query
  <2>3. CASE Response
    BY <2>3 DEF Response
  <2>. QED BY <2>1, <2>2, <2>3
<1>21. CASE WorkerEmit
  BY <1>0, <1>21 DEF WorkerEmit
<1>22. CASE WorkerSpurious
  BY <1>0, <1>22 DEF WorkerSpurious
<1>23. CASE PollerLoop
  BY <1>0, <1>23 DEF PollerLoop
<1>24. CASE PollerBrowse
  <2>1. (running \in BOOLEAN /\ errorOccurred \in BOOLEAN /\ setupOk \in BOOLEAN)'
    BY <1>24, Zenon DEF PollerBrowse, PollerSends
  <2>. QED BY <1>0, <1>24, <2>1 DEF PollerBrowse, PollerSends
<1>25. CASE PollerProbe
  <2>1. (running \in BOOLEAN /\ errorOccurred \in BOOLEAN /\ setupOk \in BOOLEAN)'
    BY <1>25, Zenon DEF PollerProbe, PollerSends
  <2>. QED BY <1>0, <1>25, <2>1 DEF PollerProbe, PollerSends
<1>26. CASE PollerWakes
  BY <1>0, <1>26 DEF PollerWakes
<1>27. CASE UNCHANGED vars
  BY <1>0, <1>27 DEF vars
<1>. QED
  BY <1>1, <1>2, <1>3, <1>4, <1>5, <1>6, <1>7, <1>8, <1>9, <1>10, <1>11, <1>12, <1>13, <1>14, <1>15, <1>16, <1>17, <1>18, <1>19, <1>20, <1>21, <1>22, <1>23, <1>24, <1>25, <1>26, <1>27
     DEF Next, MainStep, ReceiverStep, WorkerStep, PollerStep

\* TypeOK, BlockedOnlyWhenEmpty, NeverPopsEmpty and PacketsAccountedFor are
\* conjuncts of the invariant, so they hold in every reachable state.
THEOREM Invariance == Spec => []IInv
<1>1. Init => IInv
  BY IInvInit
<1>2. IInv /\ [Next]_vars => IInv'
  BY IInvNext
<1>. QED BY <1>1, <1>2, PTL DEF Spec

--------------------------------------------------------------------------------
(* The theorems *)

\* TypeOK: the queue never exceeds its bound and every variable has its type.
THEOREM TypeCorrect == Spec => []TypeOK
BY Invariance, PTL DEF IInv

\* The worker never sleeps on a queue that has a packet.
THEOREM NoPushIsMissed == Spec => []BlockedOnlyWhenEmpty
BY Invariance, PTL DEF IInv

\* wait_pop never takes the front of an empty queue.
THEOREM PopsAreSafe == Spec => []NeverPopsEmpty
BY Invariance, PTL DEF IInv

\* The numbers of a session add up: every packet it had to serve is dropped,
\* waiting, in the worker's hands or counted exactly once.
THEOREM SessionsAddUp == Spec => []PacketsAccountedFor
BY Invariance, PTL DEF IInv

\* When run() has returned none of its threads is left.
THEOREM RunLeavesNoThread == Spec => []NoThreadOutlivesRun
<1>1. IInv => NoThreadOutlivesRun
  BY DEF IInv, Phases, TypeOK, NoThreadOutlivesRun
<1>. QED BY Invariance, <1>1, PTL

\* An error met during a run lasts until the run returns false.
THEOREM RunReportsErrors == Spec => ErrorsStick
<1>1. [Next]_vars =>
        [main # "idle" /\ errorOccurred =>
           errorOccurred' /\ (main' = "idle" => result' = "false")]_vars
  <2>. SUFFICES ASSUME Next, main # "idle", errorOccurred
                PROVE  errorOccurred' /\ (main' = "idle" => result' = "false")
    BY DEF vars
  <2>. USE DEF threadVars, flagVars
  <2>1. CASE MainRun \/ MainStartFails \/ MainShutdown
    BY <2>1 DEF MainRun, MainStartFails, MainShutdown
  <2>2. CASE MainStep
    BY <2>2 DEF MainStep, MainSpawn, SpawnWorker, SpawnReceiver, SpawnPoller,
                SpawnFails, MainStop, MainNotify, MainJoinReceiver, MainJoinPoller,
                MainJoinWorker
  <2>3. CASE ReceiverStep
    BY <2>3 DEF ReceiverStep, ReceiverLoop, ReceiverGets, ReceiverGetsNothing,
                ReceiverFails, ReceiverPush
  <2>4. CASE WorkerStep \/ WorkerSpurious
    BY <2>4 DEF WorkerStep, WorkerSpurious, WorkerLoop, WorkerTest, WorkerPark,
                WorkerLeave, WorkerPop, WorkerDecode, WorkerEmit
  <2>5. CASE PollerStep
    BY <2>5 DEF PollerStep, PollerLoop, PollerBrowse, PollerProbe, PollerSends,
                PollerWakes
  <2>. QED BY <2>1, <2>2, <2>3, <2>4, <2>5 DEF Next
<1>. QED BY <1>1, PTL DEF Spec, ErrorsStick

\* PacketReceiveQueue implements the bounded queue that drops its oldest item:
\* a push is an Offer, a pop a Take, and every other step a stutter.
THEOREM QueueRefines == Spec => QueuePromise
<1>1. Init => Window!Init
  <2>. SUFFICES ASSUME Init PROVE Window!Init
    OBVIOUS
  <2>1. Len(queue) = 0 /\ pushed = 0 /\ popped = 0
    BY DEF Init
  <2>2. pushed - Len(queue) = 0
    BY <2>1
  <2>. QED BY <2>1, <2>2 DEF Window!Init
<1>2. IInv /\ [Next]_vars => [Window!Next]_(Window!dropOldestVars)
  <2>. SUFFICES ASSUME IInv, [Next]_vars
                PROVE  [Window!Next]_(Window!dropOldestVars)
    OBVIOUS
  <2>0. /\ queue \in Seq(Nat) /\ Len(queue) \in Nat /\ Len(queue) <= MaxQueueSize
        /\ pushed \in Nat /\ Len(queue) <= pushed /\ IsWindow(queue, pushed)
    BY LenProperties DEF IInv, TypeOK, QueueIsWindow, IsWindow
  <2>1. CASE ReceiverPush
    <3>1. Len(queue') = IF Len(queue) >= MaxQueueSize THEN Len(queue) ELSE Len(queue) + 1
      BY <2>0, <2>1, PushKeepsWindow DEF ReceiverPush, Push, RoomMade, Roomy
    <3>2. pushed' = pushed + 1 /\ popped' = popped
      BY <2>1 DEF ReceiverPush, Push
    <3>3. pushed - (pushed - Len(queue)) = MaxQueueSize <=> Len(queue) >= MaxQueueSize
      BY <2>0
    <3>4. pushed' - Len(queue') = IF Len(queue) >= MaxQueueSize
                                    THEN pushed - Len(queue) + 1 ELSE pushed - Len(queue)
      BY <2>0, <3>1, <3>2
    <3>. QED BY <3>2, <3>3, <3>4 DEF Window!Next, Window!Offer
  <2>2. CASE WorkerPop
    <3>1. queue # <<>>
      BY <2>2 DEF WorkerPop, IInv, NeverPopsEmpty
    <3>2. popped' = pushed - Len(queue) + 1 /\ Len(queue') = Len(queue) - 1
      BY <2>0, <2>2, <3>1, PopKeepsWindow DEF WorkerPop
    <3>3. Len(queue) # 0 /\ pushed' = pushed
      BY <2>0, <2>2, <3>1, EmptySeq DEF WorkerPop, queueVars
    <3>4. /\ pushed - Len(queue) < pushed
          /\ pushed' - Len(queue') = pushed - Len(queue) + 1
      BY <2>0, <3>2, <3>3
    <3>. QED BY <3>2, <3>3, <3>4 DEF Window!Next, Window!Take
  <2>3. CASE UNCHANGED <<queue, pushed, popped>>
    BY <2>3 DEF Window!dropOldestVars
  <2>4. ReceiverPush \/ WorkerPop \/ UNCHANGED <<queue, pushed, popped>>
    BY DEF Next, vars, queueVars, MainRun, MainStartFails, MainShutdown, MainStep,
           MainSpawn, MainStop, MainNotify, MainJoinReceiver, MainJoinPoller,
           MainJoinWorker, ReceiverStep, ReceiverLoop, ReceiverGets,
           ReceiverGetsNothing, ReceiverFails, WorkerStep, WorkerSpurious,
           WorkerLoop, WorkerTest, WorkerPark, WorkerLeave, WorkerDecode,
           WorkerEmit, PollerStep, PollerLoop, PollerBrowse, PollerProbe,
           PollerSends, PollerWakes
  <2>. QED BY <2>1, <2>2, <2>3, <2>4
<1>. QED BY <1>1, <1>2, Invariance, PTL DEF Spec, QueuePromise, Window!Spec
================================================================================
