---------------------------- MODULE SlidingWindow ----------------------------
(***************************************************************************)
(* What the latency buffer of node/metrics promises to whoever takes a     *)
(* snapshot: the most recent samples since the last reset, oldest first,   *)
(* and no more than Size of them.  Collector.tla implements this module    *)
(* with a ring that is never cleared.                                      *)
(***************************************************************************)
EXTENDS Naturals, Sequences

CONSTANTS Sample, Size

VARIABLE window

Init == window = <<>>

Add(x) == window' = IF Len(window) < Size THEN Append(window, x)
                                          ELSE Append(Tail(window), x)

Clear == window' = <<>>

Next == Clear \/ \E x \in Sample : Add(x)

Spec == Init /\ [][Next]_window
==============================================================================
