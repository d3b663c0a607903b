---------------------------- MODULE MCCaptureEngine ----------------------------
(***************************************************************************)
(* CaptureEngine for TLC.  Two runs of the engine, so that the second one  *)
(* finds what the first one left in the queue; one packet more than the    *)
(* queue holds, so that it overflows while the worker is busy.             *)
(***************************************************************************)
EXTENDS CaptureEngine
================================================================================
