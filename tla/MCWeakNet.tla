----------------------------- MODULE MCWeakNet -----------------------------
(***************************************************************************)
(* Instances of WeakNet for TLC.                                           *)
(***************************************************************************)
EXTENDS WeakNet, TLC

CONSTANTS n1, n2, k1, k2

\* A key for each of two nodes.
OwnKeys == k1 :> {n1} @@ k2 :> {n2}
Versions == k1 :> 2 @@ k2 :> 1
=============================================================================
