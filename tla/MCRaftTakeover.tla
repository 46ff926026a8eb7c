--------------------------- MODULE MCRaftTakeover ---------------------------
(***************************************************************************)
(* An instance of Raft that explores one way in which leadership passes    *)
(* from a node to another and back.  The action constraint only leaves     *)
(* behaviours out; each one it keeps is a behaviour of Raft.               *)
(***************************************************************************)
EXTENDS MCRaft

\* Leadership goes from n1 to n2 and back to n1.
CandidateOf == <<"n1", "n2", "n1">>

\* The command proposed in each term.
CommandOf == <<"c1", "c2", "c1">>

Elections ==
    \A n \in Node : state'[n] = "candidate" => CandidateOf[currentTerm'[n]] = n

Proposals ==
    \A n \in Node : \A i \in 1..Len(log'[n]) :
        /\ log'[n][i].cmd = CommandOf[log'[n][i].term]
        /\ \A j \in 1..i - 1 : log'[n][i].term # log'[n][j].term

AllStarted == (\E n \in Node : currentTerm'[n] > 0) => started' = Node

NoHeartbeats ==
    UNCHANGED <<serverVars, logVars, leaderVars, timerVars>> =>
        BagCardinality(net') <= BagCardinality(net)

Scenario == AllStarted /\ Elections /\ Proposals /\ NoHeartbeats

AppliedView == <<LogView, applied>>
=============================================================================
