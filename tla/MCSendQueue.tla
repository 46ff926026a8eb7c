----------------------------- MODULE MCSendQueue -----------------------------
(***************************************************************************)
(* An instance of SendQueue for TLC: two producers that can fill a queue   *)
(* of two messages twice over, with two priorities.                        *)
(***************************************************************************)
EXTENDS SendQueue
=============================================================================
