------------------------------- MODULE MCNode --------------------------------
\* Model of a node for TLC: the algorithms with several timers on UDP, where
\* one goroutine reads, and two TCP connections with the simplest algorithm.
EXTENDS Node

Timers == {"raft_election", "raft_heartbeat", "gossip", "wn_sync", "wn_retx",
           "wn_purge"}
ThreeSlots == 1..3

On(tr, al) == [transport |-> tr, algo |-> al]
FourNodes == {On("udp", "raft"), On("udp", "weaknet"), On("udp", "gossip"),
              On("tcp", "gossip")}
TcpNode == {On("tcp", "gossip")}

\* As many messages as overflow the channel, where timers are few.
ReadBound == [s \in Setups |-> IF s.algo # "gossip" THEN 1
                               ELSE IF s.transport = "udp" THEN 4 ELSE 2]
==============================================================================
