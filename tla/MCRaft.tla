------------------------------- MODULE MCRaft -------------------------------
(***************************************************************************)
(* Instances of Raft for TLC.  Nodes and commands are model values; no     *)
(* action and no property tells one node or one command from another, so   *)
(* permuting them is a symmetry.                                           *)
(***************************************************************************)
EXTENDS Raft, TLC

Symmetry == Permutations(Node) \union Permutations(Command)

\* What the rest of a behaviour, and a property of logs, can depend on.  A
\* node's replication indices matter while it leads, its vote count while it
\* is a candidate; the other variables left out are read by no action.
LogView ==
    LET ifState(n, s, x) == IF state[n] = s THEN x ELSE 0
    IN  <<net, currentTerm, votedFor, state, log, commitIndex, leaders,
          electionTimer, started,
          [n \in Node |-> ifState(n, "candidate", votesReceived[n])],
          [n \in Node |-> ifState(n, "leader", nextIndex[n])],
          [n \in Node |-> ifState(n, "leader", matchIndex[n])]>>

\* At most one node is still to be started when the first election begins, none
\* when the first command is proposed, and in the second term only a node that
\* stands for election or leads.
OneStartsLate ==
    LET late == Node \ started IN
    /\ (\E n \in Node : currentTerm[n] > 0) => Cardinality(late) <= 1
    /\ (\E n \in Node : currentTerm[n] > 1) => \A n \in late : state[n] # "follower"
    /\ (\E n \in Node : log[n] # <<>>) => late = {}

\* Elections are explored with all the messages MaxInFlight allows, and so is a
\* second entry in the first term; logs are otherwise explored with two at a time.
FewWithEntries ==
    \/ \A n \in Node : log[n] = <<>>
    \/ BagCardinality(net) <= 2
    \/ /\ \A n \in Node : currentTerm[n] = 1 /\ state[n] # "candidate"
       /\ \E n \in Node : Len(log[n]) > 1

\* A command is proposed once along a log, so that entries out of place show.
CommandsDiffer ==
    \A n \in Node : \A i, j \in 1..Len(log[n]) :
        i # j => log[n][i].cmd # log[n][j].cmd
=============================================================================
