---------------------------- MODULE MCHttpEventSink ----------------------------
(***************************************************************************)
(* HttpEventSink for TLC: two more events than the queue holds, so that it *)
(* overflows with the poster busy on an earlier event, and two requests    *)
(* whose answers are lost, so that one event is repeated twice or two are  *)
(* repeated once.                                                          *)
(***************************************************************************)
EXTENDS HttpEventSink
================================================================================
