------------------------------- MODULE Gossip -------------------------------
(***************************************************************************)
(* The push gossip of node/algorithm/gossip/gossip.go: every node keeps a  *)
(* map from keys to versioned values, changes it with Set, pushes all of   *)
(* it to a random sample of its peers when its timer fires, and merges     *)
(* what it receives entry by entry, the larger version winning.            *)
(*                                                                         *)
(* The network loses, delays, reorders and duplicates messages.  The cache *)
(* of seen messages, keyed by sender and sequence number, is a flag on the *)
(* copies still under way: an entry of which no copy is under way cannot   *)
(* be looked up again.                                                     *)
(***************************************************************************)
EXTENDS Integers, FiniteSets

CONSTANTS
    Node,
    Key,
    Value,
    NoValue,       \* the value of a key that is absent from the map
    Writers,       \* which nodes call Set on a key
    Fanout,        \* peers that a round pushes to
    MaxVersion,    \* bound: no Set beyond this version
    MaxCopies,     \* bound: copies the network makes of a message
    MaxInFlight    \* bound: messages under way after a round

ASSUME NodesFinite == IsFiniteSet(Node)
ASSUME WritersAreNodes == Writers \in [Key -> SUBSET Node]
ASSUME NoValueIsNone == NoValue \notin Value
ASSUME GossipBounds == /\ Fanout \in Nat \ {0} /\ MaxVersion \in Nat
                       /\ MaxCopies \in Nat \ {0} /\ MaxInFlight \in Nat

VARIABLES
    state,      \* per node and key, an Entry; version 0 for an absent key
    net,        \* messages under way
    written     \* history: every write, as [key, ver, val]

vars == <<state, net, written>>

Peers(n) == Node \ {n}

Version == 0..MaxVersion
Entry == [val : Value \union {NoValue}, ver : Version]
State == [Key -> Entry]

\* A gossip message with the number of its copies under way; seen tells
\* whether the receiver has its (from, seq) in the seen cache.
Message == [from : Node, to : Node, state : State, copies : 1..MaxCopies,
            seen : BOOLEAN]

Absent == [val |-> NoValue, ver |-> 0]

Init == /\ state = [n \in Node |-> [k \in Key |-> Absent]]
        /\ net = {}
        /\ written = {}

\* The version a Set of key k gives.  The mutant does not look at the entry
\* that is there.
NextVersionFixed(n, k) == 1
NextVersion(n, k) == state[n][k].ver + 1

Set(n, k, v) ==
    /\ n \in Writers[k]
    /\ NextVersion(n, k) <= MaxVersion
    /\ state' = [state EXCEPT ![n][k] = [val |-> v, ver |-> NextVersion(n, k)]]
    /\ written' = written
                    \union {[key |-> k, ver |-> NextVersion(n, k), val |-> v]}
    /\ UNCHANGED net

\* sampleN: all the peers if there are not more than Fanout.
Sample(n) == {T \in SUBSET Peers(n) :
                 \/ Cardinality(T) = Fanout
                 \/ T = Peers(n) /\ Cardinality(T) < Fanout}

\* evictSeen forgets the entries old, whose five seconds have passed.
EvictSeen(old) == (net \ old) \union {[m EXCEPT !.seen = FALSE] : m \in old}

\* What gossipRound sends: the whole map to each target, of which the network
\* makes c copies.
GossipRound(n, targets, c) ==
    {[from |-> n, to |-> p, state |-> state[n], copies |-> c, seen |-> FALSE] :
        p \in targets}

OnTick(n, targets, old) ==
    /\ targets \in Sample(n)
    /\ old \subseteq {m \in net : m.to = n /\ m.seen}
    /\ \E c \in 1..MaxCopies :
          net' = EvictSeen(old) \union GossipRound(n, targets, c)
    /\ Cardinality(net') <= MaxInFlight
    /\ UNCHANGED <<state, written>>

\* merge of one entry.  The mutants keep the value they have, take
\* whatever comes last, and take only versions two or more ahead.
MergeVersion(local, remote) ==
    IF remote.ver > local.ver THEN [local EXCEPT !.ver = remote.ver] ELSE local
MergeArrived(local, remote) == IF remote.ver > 0 THEN remote ELSE local
MergeAhead(local, remote) ==
    IF remote.ver > local.ver + 1 THEN remote ELSE local
Merge(local, remote) ==
    IF remote.ver > local.ver THEN remote ELSE local

\* OnMessage on one copy of m: dropped if m is in the seen cache, else
\* recorded there and merged.
OnMessage(m) ==
    /\ m \in net
    /\ net' = (net \ {m}) \union
                {r \in {[m EXCEPT !.copies = @ - 1, !.seen = TRUE]} : r.copies > 0}
    /\ \/ /\ m.seen
          /\ UNCHANGED state
       \/ /\ ~m.seen
          /\ state' = [state EXCEPT ![m.to] =
                         [k \in Key |-> Merge(@[k], m.state[k])]]
    /\ UNCHANGED written

\* All copies of m that are still under way are lost.
Lose(m) == m \in net /\ net' = net \ {m} /\ UNCHANGED <<state, written>>

Next ==
    \/ \E n \in Node, k \in Key, v \in Value : Set(n, k, v)
    \/ \E n \in Node : \E targets \in SUBSET Peers(n), old \in SUBSET net :
          OnTick(n, targets, old)
    \/ \E m \in net : OnMessage(m) \/ Lose(m)

\* The timer fires again and again and the random sample leaves out no peer
\* for ever; a link over which messages are sent for ever delivers some.
PushTo(n, p) == \E targets \in SUBSET Peers(n), old \in SUBSET net :
                   p \in targets /\ OnTick(n, targets, old)
DeliverFrom(n, p) == \E m \in net : m.from = n /\ m.to = p /\ OnMessage(m)

Fairness == \A n \in Node : \A p \in Peers(n) :
               SF_vars(PushTo(n, p)) /\ SF_vars(DeliverFrom(n, p))

Spec == Init /\ [][Next]_vars
FairSpec == Spec /\ Fairness

-----------------------------------------------------------------------------
\* Nodes keep versioned values and messages carry them; a key has a value
\* exactly when its version is positive.
TypeOK ==
    /\ state \in [Node -> State]
    /\ net \subseteq Message
    /\ written \subseteq [key : Key, ver : Version, val : Value]
    /\ \A n \in Node, k \in Key : state[n][k].val = NoValue <=> state[n][k].ver = 0

\* "monotonically increasing; last-write-wins": the value of a key changes on
\* a node only together with an increase of its version, whatever old,
\* reordered or repeated messages arrive.
NoRegress ==
    [][\A n \in Node, k \in Key :
          \/ state'[n][k] = state[n][k]
          \/ state'[n][k].ver > state[n][k].ver]_vars

\* Only one node calls Set on k, as on the position keys of the gossip
\* benchmark.
SingleWriter(k) == \A n, p \in Writers[k] : n = p

\* If a key has a single writer, two nodes with the same version of it have
\* the same value, and no node has a version that the writer is yet to give.
VersionsAgree ==
    \A k \in Key : SingleWriter(k) =>
        /\ \A n, p \in Node : state[n][k].ver = state[p][k].ver
                                 => state[n][k] = state[p][k]
        /\ \A n \in Node, w \in Writers[k] : state[n][k].ver <= state[w][k].ver

\* Once the writers have stopped, all nodes come to hold the same map and
\* keep it, although messages are lost, reordered and repeated.
Converges == <>[](\A n, p \in Node : state[n] = state[p])
=============================================================================
