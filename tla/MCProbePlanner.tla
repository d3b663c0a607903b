---------------------------- MODULE MCProbePlanner ----------------------------
(***************************************************************************)
(* ProbePlanner for TLC: one service type and instances that may fill the  *)
(* queue, and events with two records, so that one event both fills the    *)
(* queue and finds it full.                                                *)
(***************************************************************************)
EXTENDS ProbePlanner
================================================================================
