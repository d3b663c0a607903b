------------------------------ MODULE DropOldest ------------------------------
(***************************************************************************)
(* What the two bounded queues of the scanner promise to their users, the  *)
(* one between the receiver and the worker (PacketReceiveQueue) and the    *)
(* one between the worker and the HTTP poster (HttpEventSink).             *)
(*                                                                         *)
(* Items are numbered in the order in which they are offered.  At any time *)
(* the items head + 1 .. offered are waiting: a window over the offered    *)
(* items whose width never exceeds Capacity.  Offering an item to a full   *)
(* window gives up the oldest waiting item, and nothing else is ever given *)
(* up; a consumer is handed the oldest waiting item.                       *)
(***************************************************************************)
EXTENDS Naturals

\* kMaxPacketQueueSize and HttpEventSinkConfig::max_queue_size are 256, and
\* nothing in the program sets them: the modules that instantiate this one
\* assume that it is positive (with 0 the code would pop an empty deque).
CONSTANT Capacity

VARIABLES
  offered,  \* how many items have been offered
  head,     \* how many of them are not waiting any more
  handed    \* the number of the item handed out last, 0 before the first

dropOldestVars == <<offered, head, handed>>

Init == offered = 0 /\ head = 0 /\ handed = 0

Offer ==
  /\ offered' = offered + 1
  /\ head' = IF offered - head = Capacity THEN head + 1 ELSE head
  /\ UNCHANGED handed

Take ==
  /\ head < offered
  /\ head' = head + 1
  /\ handed' = head + 1
  /\ UNCHANGED offered

Next == Offer \/ Take

Spec == Init /\ [][Next]_dropOldestVars
===============================================================================
