------------------------------ MODULE MCRouter ------------------------------
(***************************************************************************)
(* Instances of Router for TLC: one channel, a window of two numbers and   *)
(* counters that wrap or are reset after a few messages.                   *)
(***************************************************************************)
EXTENDS Router
=============================================================================
