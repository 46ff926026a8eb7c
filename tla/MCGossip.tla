------------------------------ MODULE MCGossip ------------------------------
(***************************************************************************)
(* Instances of Gossip for TLC.                                            *)
(***************************************************************************)
EXTENDS Gossip, TLC

CONSTANTS n1, k1, v1

\* One writer for a key, as in the gossip benchmark.
OneWriter == k1 :> {n1}

\* Values are only compared for equality, so the first one written may as
\* well be v1.
FirstIsV1 == written = {} => \A w \in written' : w.val = v1
=============================================================================
