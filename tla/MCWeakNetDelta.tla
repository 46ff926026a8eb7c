--------------------------- MODULE MCWeakNetDelta ----------------------------
(***************************************************************************)
(* Two nodes that sync while a history variable notes what each of them    *)
(* has learnt, in its last sync with the other, that the other holds.      *)
(***************************************************************************)
EXTENDS MCWeakNet

VARIABLE synced    \* per node and peer, what the peer's last reply contained

deltaVars == <<vars, synced>>

DeltaInit == Init /\ synced = [n \in Node |-> [p \in Node |-> [k \in Key |-> Absent]]]

\* A sync that n has asked for ends when n handles the reply.
EndsSync(m) == m.isReply /\ HandlePushPull(m)

DeltaNext ==
    \/ \E m \in net :
          /\ EndsSync(m)
          /\ synced' = [synced EXCEPT ![m.to][m.from] = m.delta]
    \/ /\ Next
       /\ ~\E m \in net : EndsSync(m)
       /\ UNCHANGED synced

DeltaSpec == DeltaInit /\ [][DeltaNext]_deltaVars

-----------------------------------------------------------------------------
\* "Delta encoding: only entries that changed since the last sync with each
\* peer are transmitted" (weaknet.go, package comment): a request that is sent
\* carries no entry that the peer's last reply contained.
SendsOnlyChanges ==
    [][\A m \in net' \ net : m.kind = "pushpull" /\ ~m.isReply =>
          \A k \in Key :
             m.delta[k] # Absent => m.delta[k] # synced[m.from][m.to][k]]_deltaVars
==============================================================================
