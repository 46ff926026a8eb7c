------------------------- MODULE MCWeakNetPartition --------------------------
(***************************************************************************)
(* Four nodes that come up on two islands.  What is sent from one island   *)
(* to the other before a node has heard of its neighbour is lost; after    *)
(* that the network loses nothing, and no peer becomes stale (Aging = {}). *)
(* A round begins when the messages of the last one are done.              *)
(***************************************************************************)
EXTENDS WeakNet, TLC

CONSTANTS n1, n2, n3, n4, k1

OneWriter == k1 :> {n1}
OneWrite  == k1 :> 1

Islands == {{n1, n2}, {n3, n4}}
Neighbours(n, p) == \E i \in Islands : {n, p} \subseteq i

Idle == net = {} /\ \A n \in Node : todo[n] = {}
Begins(n) == \E p \in Node : <<p, FALSE>> \in todo'[n] \ todo[n]

TwoIslands ==
    /\ \A n, p \in Node :
          peers'[n][p].lastSeen = "fresh" => Neighbours(n, p)
    /\ \A n \in Node : Begins(n) => Idle

\* SyncFairness with a formula per node instead of one per link, which is the
\* same here: a round goes to all active peers, and once the islands are there
\* each node has one.
NodeFairness ==
    \A n \in Node :
        /\ SF_vars(\E targets \in SUBSET Peers(n) : SyncRound(n, targets))
        /\ \A p \in Peers(n), isReply \in BOOLEAN : WF_vars(SendPushPull(n, p, isReply))
        /\ SF_vars(\E p \in Peers(n) : ReceiveFrom(p, n))

PartitionSpec == Spec /\ NodeFairness
==============================================================================
