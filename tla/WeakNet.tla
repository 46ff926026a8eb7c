------------------------------ MODULE WeakNet -------------------------------
(***************************************************************************)
(* The Push-Pull Delta-Sync of node/algorithm/weaknet/weaknet.go: versioned *)
(* maps synchronised by requests that carry a delta and are answered by a  *)
(* delta, statistics about each peer that choose whom to sync with, and    *)
(* critical messages that are sent again until their deadline.             *)
(*                                                                         *)
(* A round takes a.mu to choose its targets and again for each message it  *)
(* builds, and a request is merged under one lock and answered under       *)
(* another; todo holds the messages a node is still to build, so that      *)
(* writes and merges come in between.                                      *)
(*                                                                         *)
(* No code builds an ackPayload, so the branch of OnMessage that handles   *)
(* one is never reached and pending is emptied by deadlines alone, or by   *)
(* another message that takes the place of one.  What a critical message   *)
(* says does not matter here, and is left out.                             *)
(***************************************************************************)
EXTENDS Integers, FiniteSets

CONSTANTS
    Node,
    Key,
    Value,
    NoValue,       \* the value of a key that is absent from the map
    Writers,       \* which nodes call Set on a key
    Senders,       \* the nodes that call SendCritical
    Clock,         \* the readings of the clock, by which it keeps a message
    Fanout,        \* Config.Fanout
    MaxResend,     \* how many times retransmitCheck can run before the
                   \* deadline of a message: TTLCollision over half of
                   \* RetransmitTimeout, which is once, or once more if a
                   \* tick came late
    Aging,         \* bound: the nodes on which PeerStaleDuration may pass
    MaxVersion,    \* bound: per key, no Set beyond this version
    MaxInFlight    \* bound: messages of a kind under way on a link

ASSUME NodesFinite == IsFiniteSet(Node)
ASSUME WritersAreNodes == Writers \in [Key -> SUBSET Node]
ASSUME SendersAreNodes == Senders \subseteq Node
ASSUME NoValueIsNone == NoValue \notin Value
ASSUME WeakNetBounds ==
    /\ Fanout \in Nat \ {0} /\ MaxResend \in Nat
    /\ MaxVersion \in [Key -> Nat] /\ MaxInFlight \in Nat

VARIABLES
    state,      \* per node and key, an Entry; version 0 for an absent key
    peers,      \* per node and peer, a Stats
    todo,       \* per node, the <<peer, isReply>> for which it is to call
                \* sendPushPull
    pending,    \* per node, a set of Pending: the critical messages it may
                \* send again
    net         \* messages under way

vars == <<state, peers, todo, pending, net>>

Peers(n) == Node \ {n}

Entry == [val : Value \union {NoValue}, ver : Nat]
State == [Key -> Entry]

Absent == [val |-> NoValue, ver |-> 0]

\* peerStats, with the age of lastSeen: the zero time, less than
\* PeerStaleDuration ago, or longer ago.  A peer with no entry is as one with
\* the entry that getPeerStats creates.
Stats == [knownVer : Nat, lastSeen : {"zero", "fresh", "stale"}]
NewStats == [knownVer |-> 0, lastSeen |-> "zero"]

\* A push-pull message; full is what the sender held when it built the delta.
PushPull == [kind : {"pushpull"}, from : Node, to : Node, isReply : BOOLEAN,
             delta : State, knownVer : Nat, full : State]
CriticalMsg == [kind : {"critical"}, from : Node, to : Node]

\* pendingMsg under its key; resent is how often retransmitCheck has sent it.
Pending == [key : Clock, to : Node, resent : 0..MaxResend]

Init ==
    /\ state = [n \in Node |-> [k \in Key |-> Absent]]
    /\ peers = [n \in Node |-> [p \in Node |-> NewStats]]
    /\ todo  = [n \in Node |-> {}]
    /\ pending = [n \in Node |-> {}]
    /\ net = {}

\* The messages of out are sent; a link that carries MaxInFlight messages of
\* a kind loses the next one.
Link(m) == {x \in net : x.from = m.from /\ x.to = m.to /\ x.kind = m.kind}
Send(out) == net' = net \union {m \in out : Cardinality(Link(m)) < MaxInFlight}

Set(n, k, v) ==
    LET ver == state[n][k].ver + 1 IN
    /\ n \in Writers[k]
    /\ ver <= MaxVersion[k]
    /\ state' = [state EXCEPT ![n][k] = [val |-> v, ver |-> ver]]
    /\ UNCHANGED <<peers, todo, pending, net>>

\* activePeers: the peers seen recently, or all if there are none.
ActivePeers(n) ==
    LET recent == {p \in Peers(n) : peers[n][p].lastSeen = "fresh"}
    IN  IF recent = {} THEN Peers(n) ELSE recent

\* sampleN: all of S if it has not more than Fanout elements.
Sample(S) == {T \in SUBSET S : \/ Cardinality(T) = Fanout
                               \/ T = S /\ Cardinality(T) < Fanout}

\* syncRound of the timer goroutine, which has finished its last round.
SyncRound(n, targets) ==
    /\ \A p \in Node : <<p, FALSE>> \notin todo[n]
    /\ targets \in Sample(ActivePeers(n))
    /\ todo' = [todo EXCEPT ![n] = @ \union (targets \X {FALSE})]
    /\ UNCHANGED <<state, peers, pending, net>>

\* deltaFor: the entries above a version.
DeltaFor(s, since) == [k \in Key |-> IF s[k].ver > since THEN s[k] ELSE Absent]

\* sendPushPull: the message is built from what the node holds by now.
SendPushPull(n, p, isReply) ==
    LET known == peers[n][p].knownVer IN
    /\ <<p, isReply>> \in todo[n]
    /\ todo' = [todo EXCEPT ![n] = @ \ {<<p, isReply>>}]
    /\ Send({[kind |-> "pushpull", from |-> n, to |-> p, isReply |-> isReply,
              delta |-> DeltaFor(state[n], known), knownVer |-> known,
              full |-> state[n]]})
    /\ UNCHANGED <<state, peers, pending>>

\* mergeState of one entry.  The mutant takes what the delta says even if
\* it says nothing.
MergeReplace(local, remote) == remote
Merge(local, remote) == IF remote.ver > local.ver THEN remote ELSE local

Larger(a, b) == IF a > b THEN a ELSE b

\* The version that handlePushPull believes the peer to have, once m has come
\* from it: its statistics s are raised by what m says about the sender's own
\* belief.  The mutant also counts the versions the peer has sent, as the
\* comment on maxVer has it.
BelievedFromDelta(s, m) ==
    LET seen == {s.knownVer, m.knownVer} \union {m.delta[k].ver : k \in Key}
    IN  CHOOSE v \in seen : \A w \in seen : w <= v
Believed(s, m) == Larger(s.knownVer, m.knownVer)

\* OnMessage on a push-pull message, once the receive loop has answered the
\* one before: merge, note the peer, and answer a request.
HandlePushPull(m) ==
    LET n == m.to
        p == m.from
    IN
    /\ m \in net /\ m.kind = "pushpull"
    /\ \A q \in Node : <<q, TRUE>> \notin todo[n]
    /\ state' = [state EXCEPT ![n] = [k \in Key |-> Merge(@[k], m.delta[k])]]
    /\ peers' = [peers EXCEPT ![n][p] =
                   [knownVer |-> Believed(@, m), lastSeen |-> "fresh"]]
    /\ \/ m.isReply /\ UNCHANGED todo
       \/ ~m.isReply /\ todo' = [todo EXCEPT ![n] = @ \union {<<p, TRUE>>}]
    /\ net' = net \ {m}
    /\ UNCHANGED pending

\* SendCritical: node.Send fails for an unknown peer; otherwise the message
\* is kept under the low bits of the clock, in the place of one kept there.
SendCritical(n, p, t) ==
    \/ /\ p \notin Peers(n)
       /\ UNCHANGED vars
    \/ /\ p \in Peers(n)
       /\ Send({[kind |-> "critical", from |-> n, to |-> p]})
       /\ pending' = [pending EXCEPT ![n] =
                        {r \in @ : r.key # t}
                           \union {[key |-> t, to |-> p, resent |-> 0]}]
       /\ UNCHANGED <<state, peers, todo>>

\* retransmitCheck: what is past its deadline is dropped, the rest sent again.
\* The deadline can pass at any time, and has passed after MaxResend checks.
RetransmitCheck(n, due) ==
    /\ \A r \in pending[n] : r.resent = MaxResend => r \in due
    /\ pending' = [pending EXCEPT ![n] =
                     {[r EXCEPT !.resent = @ + 1] : r \in @ \ due}]
    /\ Send({[kind |-> "critical", from |-> n, to |-> r.to] :
                r \in pending[n] \ due})
    /\ UNCHANGED <<state, peers, todo>>

\* OnMessage on a critical message: its payload has no kind, nothing happens.
HandleCritical(m) ==
    /\ m \in net /\ m.kind = "critical"
    /\ net' = net \ {m}
    /\ UNCHANGED <<state, peers, todo, pending>>

\* purgeStalePeers forgets what it knows of the peers not heard of for three
\* times as long: some of the stale ones.
PurgeStalePeers(n, old) ==
    /\ \A p \in old : peers[n][p].lastSeen = "stale"
    /\ peers' = [peers EXCEPT ![n] =
                   [p \in Node |-> IF p \in old THEN NewStats ELSE @[p]]]
    /\ UNCHANGED <<state, todo, pending, net>>

\* Time passes for the statistics of a peer.
Grow(n, p) ==
    /\ n \in Aging
    /\ peers[n][p].lastSeen = "fresh"
    /\ peers' = [peers EXCEPT ![n][p].lastSeen = "stale"]
    /\ UNCHANGED <<state, todo, pending, net>>

Lose(m) ==
    /\ m \in net
    /\ net' = net \ {m}
    /\ UNCHANGED <<state, peers, todo, pending>>

Next ==
    \/ \E n \in Node, k \in Key, v \in Value : Set(n, k, v)
    \/ \E n \in Node : \/ \E targets \in SUBSET Peers(n) : SyncRound(n, targets)
                       \/ \E due \in SUBSET pending[n] : RetransmitCheck(n, due)
                       \/ \E old \in SUBSET Peers(n) : PurgeStalePeers(n, old)
    \/ \E n \in Senders, p \in Node, t \in Clock : SendCritical(n, p, t)
    \/ \E n \in Node : \E p \in Peers(n) :
          \/ \E isReply \in BOOLEAN : SendPushPull(n, p, isReply)
          \/ Grow(n, p)
    \/ \E m \in net : HandlePushPull(m) \/ HandleCritical(m) \/ Lose(m)

\* Timers fire again and again and the random sample leaves out no active peer
\* for ever; what a node has begun to send it sends; a link over which
\* messages are sent for ever delivers some.
SyncWith(n, p) == \E targets \in SUBSET Peers(n) :
                     p \in targets /\ SyncRound(n, targets)
ReceiveFrom(n, p) == \E m \in net : m.from = n /\ m.to = p /\ HandlePushPull(m)

SyncFairness ==
    \A n \in Node : \A p \in Peers(n) :
        /\ SF_vars(SyncWith(n, p))
        /\ \A isReply \in BOOLEAN : WF_vars(SendPushPull(n, p, isReply))
        /\ SF_vars(ReceiveFrom(n, p))

Spec == Init /\ [][Next]_vars
SyncSpec == Spec /\ SyncFairness

-----------------------------------------------------------------------------
\* Nodes keep versioned values, statistics and messages as weaknet.go
\* declares them; a key has a value exactly when its version is positive.
TypeOK ==
    /\ state \in [Node -> State]
    /\ peers \in [Node -> [Node -> Stats]]
    /\ todo \in [Node -> SUBSET (Node \X BOOLEAN)]
    /\ pending \in [Node -> SUBSET Pending]
    /\ net \subseteq PushPull \union CriticalMsg
    /\ \A n \in Node, k \in Key : state[n][k].val = NoValue <=> state[n][k].ver = 0

\* Last-write-wins by version: the value of a key changes on a node only
\* together with an increase of its version, whatever deltas arrive.
NoRegress ==
    [][\A n \in Node, k \in Key :
          \/ state'[n][k] = state[n][k]
          \/ state'[n][k].ver > state[n][k].ver]_vars

\* Delta encoding loses nothing: an entry that sendPushPull leaves out of a
\* delta is one that its receiver already has.  It holds because nothing is
\* ever left out (WeakNetProofs): the number that deltaFor compares the versions
\* of all keys with stays 0.  If it rose with what peers send, as the comment
\* in handlePushPull suggests, entries would be lost.
DeltaLosesNothing ==
    \A m \in net : m.kind = "pushpull" =>
        \A k \in Key : \/ m.delta[k] = m.full[k]
                        \/ state[m.to][k].ver >= m.full[k].ver

\* Only one node calls Set on k.
SingleWriter(k) == \A n, p \in Writers[k] : n = p

\* Once the writers have stopped, all nodes come to hold the same value of a
\* key that has a single writer, and keep it.
Converges ==
    <>[](\A k \in Key : SingleWriter(k) =>
            \A n, p \in Node : state[n][k] = state[p][k])
=============================================================================
