-------------------------------- MODULE Raft --------------------------------
(***************************************************************************)
(* The Raft algorithm of node/algorithm/raft/raft.go, as it runs on the    *)
(* node runtime: one action per entry point (Start, Propose, OnTick and    *)
(* the four branches of OnMessage).  Every entry point runs under a.mu, so *)
(* it is one atomic step.                                                  *)
(*                                                                         *)
(* The runtime gives the algorithm a network that loses and reorders       *)
(* messages but delivers each sent message at most once (the Router drops  *)
(* repeated sequence numbers), and named timers whose tick can be late: a  *)
(* goroutine of TimerManager that has already left its select runs the     *)
(* callback even though the timer has been cancelled meanwhile.            *)
(***************************************************************************)
EXTENDS Integers, Sequences, FiniteSets, Bags

CONSTANTS
    Node,          \* the cluster; every node knows all the others as peers
    Command,       \* commands a client may propose
    Nil,           \* "no node": the id 0 of the code
    MaxTerm,       \* bound: no election is started beyond this term
    MaxLog,        \* bound: no command is proposed on a log this long
    MaxInFlight    \* bound: messages in flight after a step

ASSUME NodeFinite  == IsFiniteSet(Node) /\ Node # {}
ASSUME NilNotNode  == Nil \notin Node
ASSUME BoundsAreNat == MaxTerm \in Nat /\ MaxLog \in Nat /\ MaxInFlight \in Nat

VARIABLES
    net,             \* bag of the messages in flight
    currentTerm,     \* per node, as the fields of the same name in Algorithm
    votedFor,
    log,             \* sequence of [term, cmd]
    state,
    commitIndex,
    leaderID,
    nextIndex,       \* [node -> [peer -> index]]; meaningful on a leader
    matchIndex,
    votesReceived,
    applied,         \* entries handed to applyCb; lastApplied is its length
    electionTimer,   \* "off", "armed", or "late": cancelled, one tick pending
    heartbeatTimer,  \* "off" or "armed"; a late heartbeat tick does nothing
    started,         \* the nodes on which Start has run
    voters,          \* history: the peers (and self) votesReceived counts
    ballots,         \* history: every vote ever cast
    leaders          \* history: every election ever won

serverVars  == <<currentTerm, votedFor, state, votesReceived, leaderID>>
logVars     == <<log, commitIndex, applied>>
leaderVars  == <<nextIndex, matchIndex>>
timerVars   == <<electionTimer, heartbeatTimer, started>>
historyVars == <<voters, ballots, leaders>>
vars == <<net, serverVars, logVars, leaderVars, timerVars, historyVars>>

Peers(n) == Node \ {n}

Term == 0..MaxTerm

Entry == [term : Term, cmd : Command]

RequestVote ==
    [type : {"RequestVote"}, from : Node, to : Node, term : Term,
     lastLogIndex : Nat, lastLogTerm : Term]

RequestVoteReply ==
    [type : {"RequestVoteReply"}, from : Node, to : Node, term : Term,
     voteGranted : BOOLEAN]

AppendEntries ==
    [type : {"AppendEntries"}, from : Node, to : Node, term : Term,
     prevLogIndex : Nat, prevLogTerm : Term, entries : Seq(Entry),
     leaderCommit : Nat]

AppendReply ==
    [type : {"AppendReply"}, from : Node, to : Node, term : Term,
     success : BOOLEAN, matchIndex : Nat]

\* No node sends to itself.
Message == {m \in RequestVote \union RequestVoteReply \union AppendEntries
                     \union AppendReply : m.from # m.to}

-----------------------------------------------------------------------------
(***************************************************************************)
(* The network.                                                            *)
(***************************************************************************)
InFlight(m) == m \in BagToSet(net)

\* The messages of the set out are sent.
Send(out) == /\ net' = net (+) SetToBag(out)
             /\ BagCardinality(net') <= MaxInFlight

\* Message m is consumed and the messages of the set out are sent.
Exchange(m, out) == /\ net' = (net (-) SetToBag({m})) (+) SetToBag(out)
                    /\ BagCardinality(net') <= MaxInFlight

-----------------------------------------------------------------------------
(***************************************************************************)
(* Helpers.                                                                *)
(***************************************************************************)
LastTerm(l) == IF l = <<>> THEN 0 ELSE l[Len(l)].term

Smaller(a, b) == IF a < b THEN a ELSE b

Highest(S) == CHOOSE x \in S : \A y \in S : y <= x

Lowest(S) == CHOOSE x \in S : \A y \in S : x <= y

\* Votes needed to win an election: len(Peers())/2 + 1.
VoteMajority(n) == Cardinality(Peers(n)) \div 2 + 1

\* The candidate's log is at least as up to date as l.
LogOK(m, l) == \/ m.lastLogTerm > LastTerm(l)
               \/ m.lastLogTerm = LastTerm(l) /\ m.lastLogIndex >= Len(l)

\* The next index to retry from after a failed reply, and a mutant of it: the
\* lower bound is forgotten.
BackOffUnbounded(next) == next - 1
BackOff(next) == IF next > 1 THEN next - 1 ELSE next

\* The AppendEntries a leader n of term t with log l and commit index c sends
\* to p when its next index for p is next.
AppendEntriesTo(n, p, t, l, next, c) ==
    LET prev == next - 1
    IN  [type |-> "AppendEntries", from |-> n, to |-> p, term |-> t,
         prevLogIndex |-> prev,
         prevLogTerm  |-> IF prev \in 1..Len(l) THEN l[prev].term ELSE 0,
         entries      |-> IF next \in 1..Len(l) THEN SubSeq(l, next, Len(l))
                                                ELSE <<>>,
         leaderCommit |-> c]

\* broadcastAppendEntries, for a leader n whose log is l and next indices nx.
AppendEntriesToAll(n, t, l, nx, c) ==
    {AppendEntriesTo(n, p, t, l, nx[p], c) : p \in Peers(n)}

\* The follower's log passes the consistency check of AppendEntries m; the
\* mutant compares lengths only.
ConsistentLength(m, l) == m.prevLogIndex <= Len(l)
Consistent(m, l) ==
    m.prevLogIndex > 0 => /\ m.prevLogIndex <= Len(l)
                          /\ l[m.prevLogIndex].term = m.prevLogTerm

\* Entries es follow index prev of l: those l already has are kept with what
\* comes after them, the first missing or conflicting one replaces the rest.
\* One mutant replaces entries and leaves what comes after them, the other ends
\* the log with the message.
AppendOver(l, prev, es) ==
    [i \in 1..(IF prev + Len(es) > Len(l) THEN prev + Len(es) ELSE Len(l)) |->
        IF i \in prev + 1..prev + Len(es) THEN es[i - prev] ELSE l[i]]
AppendAndCut(l, prev, es) == SubSeq(l, 1, prev) \o es
AppendNew(l, prev, es) ==
    LET fresh == {i \in 1..Len(es) : \/ prev + i > Len(l)
                                     \/ l[prev + i].term # es[i].term}
        first == Lowest(fresh)
    IN  IF fresh = {} THEN l
        ELSE SubSeq(l, 1, prev + first - 1) \o SubSeq(es, first, Len(es))

\* applyCommitted: what has been applied once the commit index is c.
ApplyUpTo(done, l, c) == done \o SubSeq(l, Len(done) + 1, c)

\* Indices above c that maybeCommit finds replicated on a majority of the
\* cluster, walking down from the end of l while entries have the term t.
\* The mutant commits entries of earlier terms too.
CommittableAnyTerm(n, l, t, match, c) ==
    {i \in c + 1..Len(l) :
        1 + Cardinality({p \in Peers(n) : match[p] >= i})
             > (Cardinality(Peers(n)) + 1) \div 2}
Committable(n, l, t, match, c) ==
    {i \in c + 1..Len(l) :
        /\ \A j \in i..Len(l) : l[j].term = t
        /\ 1 + Cardinality({p \in Peers(n) : match[p] >= i})
             > (Cardinality(Peers(n)) + 1) \div 2}

-----------------------------------------------------------------------------
Init ==
    /\ net = EmptyBag
    /\ currentTerm    = [n \in Node |-> 0]
    /\ votedFor       = [n \in Node |-> Nil]
    /\ log            = [n \in Node |-> <<>>]
    /\ state          = [n \in Node |-> "follower"]
    /\ commitIndex    = [n \in Node |-> 0]
    /\ leaderID       = [n \in Node |-> Nil]
    /\ nextIndex      = [n \in Node |-> [p \in Node |-> 0]]
    /\ matchIndex     = [n \in Node |-> [p \in Node |-> 0]]
    /\ votesReceived  = [n \in Node |-> 0]
    /\ applied        = [n \in Node |-> <<>>]
    /\ electionTimer  = [n \in Node |-> "off"]
    /\ heartbeatTimer = [n \in Node |-> "off"]
    /\ started = {}
    /\ voters  = [n \in Node |-> {}]
    /\ ballots = {}
    /\ leaders = {}

\* Start arms the election timer, whatever state the node is in: the receive
\* loop runs before it, so the node may have handled messages and may even lead.
Start(n) ==
    /\ n \notin started
    /\ started' = started \union {n}
    /\ electionTimer' = [electionTimer EXCEPT ![n] = "armed"]
    /\ UNCHANGED <<net, serverVars, logVars, leaderVars, heartbeatTimer,
                   historyVars>>

\* OnTick("election"): startElection, whatever the state of the node.
OnTickElection(n) ==
    LET t == currentTerm[n] + 1 IN
    /\ electionTimer[n] # "off"
    /\ t <= MaxTerm
    /\ state'         = [state EXCEPT ![n] = "candidate"]
    /\ currentTerm'   = [currentTerm EXCEPT ![n] = t]
    /\ votedFor'      = [votedFor EXCEPT ![n] = n]
    /\ votesReceived' = [votesReceived EXCEPT ![n] = 1]
    /\ electionTimer' = [electionTimer EXCEPT ![n] = "armed"]
    /\ Send({[type |-> "RequestVote", from |-> n, to |-> p, term |-> t,
              lastLogIndex |-> Len(log[n]),
              lastLogTerm |-> LastTerm(log[n])] : p \in Peers(n)})
    /\ voters'  = [voters EXCEPT ![n] = {n}]
    /\ ballots' = ballots
                    \union {[voter |-> n, term |-> t, candidate |-> n]}
    /\ UNCHANGED <<leaderID, logVars, leaderVars, heartbeatTimer, started, leaders>>

\* OnTick("heartbeat") on a leader; on any other node the tick does nothing.
\* The mutant does not look at the state: an old leader that is now a
\* candidate still has the timer.
OnTickHeartbeatAnyState(n) ==
    /\ heartbeatTimer[n] = "armed"
    /\ Send(AppendEntriesToAll(n, currentTerm[n], log[n], nextIndex[n],
                               commitIndex[n]))
    /\ UNCHANGED <<serverVars, logVars, leaderVars, timerVars, historyVars>>
OnTickHeartbeat(n) ==
    /\ heartbeatTimer[n] = "armed"
    /\ state[n] = "leader"
    /\ Send(AppendEntriesToAll(n, currentTerm[n], log[n], nextIndex[n],
                               commitIndex[n]))
    /\ UNCHANGED <<serverVars, logVars, leaderVars, timerVars, historyVars>>

\* Propose on a leader; any other node refuses without a change.
Propose(n, c) ==
    LET l == Append(log[n], [term |-> currentTerm[n], cmd |-> c]) IN
    /\ state[n] = "leader"
    /\ Len(log[n]) < MaxLog
    /\ log' = [log EXCEPT ![n] = l]
    /\ Send(AppendEntriesToAll(n, currentTerm[n], l, nextIndex[n],
                               commitIndex[n]))
    /\ UNCHANGED <<serverVars, commitIndex, applied, leaderVars, timerVars,
                   historyVars>>

\* stepDown to term t; v is the vote the handler then casts (Nil for none).
\* The mutant leaves the election timer as it is.
StepDownQuietly(n, t, v) ==
    /\ currentTerm'    = [currentTerm EXCEPT ![n] = t]
    /\ state'          = [state EXCEPT ![n] = "follower"]
    /\ votedFor'       = [votedFor EXCEPT ![n] = v]
    /\ heartbeatTimer' = [heartbeatTimer EXCEPT ![n] = "off"]
    /\ UNCHANGED <<electionTimer, started>>
StepDown(n, t, v) ==
    /\ currentTerm'    = [currentTerm EXCEPT ![n] = t]
    /\ state'          = [state EXCEPT ![n] = "follower"]
    /\ votedFor'       = [votedFor EXCEPT ![n] = v]
    /\ heartbeatTimer' = [heartbeatTimer EXCEPT ![n] = "off"]
    /\ electionTimer'  = [electionTimer EXCEPT ![n] = "armed"]
    /\ UNCHANGED started

\* Node n, in term t and with vote v, votes for the sender of RequestVote m;
\* the mutant forgets the vote it has cast.
GrantsAgain(m, n, t, v) == m.term = t /\ LogOK(m, log[n])
Grants(m, n, t, v) == m.term = t /\ LogOK(m, log[n]) /\ v \in {Nil, m.from}

HandleRequestVote(m) ==
    LET n     == m.to
        newer == m.term > currentTerm[n]
        t     == IF newer THEN m.term ELSE currentTerm[n]
        v     == IF newer THEN Nil ELSE votedFor[n]
        grant == Grants(m, n, t, v)
    IN
    /\ InFlight(m) /\ m.type = "RequestVote"
    /\ \/ newer /\ StepDown(n, t, IF grant THEN m.from ELSE Nil)
       \/ /\ ~newer /\ grant
          /\ votedFor' = [votedFor EXCEPT ![n] = m.from]
          /\ electionTimer' = [electionTimer EXCEPT ![n] = "armed"]
          /\ UNCHANGED <<currentTerm, state, heartbeatTimer, started>>
       \/ /\ ~newer /\ ~grant
          /\ UNCHANGED <<currentTerm, state, votedFor, timerVars>>
    /\ ballots' = IF grant
                  THEN ballots \union
                         {[voter |-> n, term |-> t, candidate |-> m.from]}
                  ELSE ballots
    /\ Exchange(m, {[type |-> "RequestVoteReply", from |-> n, to |-> m.from,
                     term |-> t, voteGranted |-> grant]})
    /\ UNCHANGED <<votesReceived, leaderID, logVars, leaderVars, voters,
                   leaders>>

\* becomeLeader, consuming the vote m that decided the election.
BecomeLeader(n, m) ==
    LET nx == [p \in Node |-> IF p = n THEN nextIndex[n][n]
                                       ELSE Len(log[n]) + 1] IN
    /\ state'          = [state EXCEPT ![n] = "leader"]
    /\ leaderID'       = [leaderID EXCEPT ![n] = n]
    /\ electionTimer'  = [electionTimer EXCEPT ![n] = "late"]
    /\ nextIndex'      = [nextIndex EXCEPT ![n] = nx]
    /\ matchIndex'     = [matchIndex EXCEPT ![n] = [p \in Node |-> 0]]
    /\ heartbeatTimer' = [heartbeatTimer EXCEPT ![n] = "armed"]
    /\ UNCHANGED started
    /\ Exchange(m, AppendEntriesToAll(n, currentTerm[n], log[n], nx,
                                      commitIndex[n]))
    /\ leaders' = leaders \union {[term |-> currentTerm[n], node |-> n]}

\* The vote m counts for the candidacy its receiver is running.  The mutant
\* takes a vote of an earlier term.
CountsStaleVote(m) == state[m.to] = "candidate" /\ m.voteGranted
CountsVote(m) == /\ state[m.to] = "candidate"
                 /\ m.term = currentTerm[m.to]
                 /\ m.voteGranted

HandleRequestVoteReply(m) ==
    LET n == m.to
        newer == m.term > currentTerm[n]
    IN
    /\ InFlight(m) /\ m.type = "RequestVoteReply"
    /\ \/ /\ newer /\ StepDown(n, m.term, Nil)
          /\ Exchange(m, {})
          /\ UNCHANGED <<votesReceived, leaderID, leaderVars, voters, leaders>>
       \/ /\ ~newer /\ ~CountsVote(m)
          /\ Exchange(m, {})
          /\ UNCHANGED <<serverVars, leaderVars, timerVars, voters, leaders>>
       \/ /\ ~newer /\ CountsVote(m)
          /\ votesReceived' = [votesReceived EXCEPT ![n] = @ + 1]
          /\ voters' = [voters EXCEPT ![n] = @ \union {m.from}]
          /\ \/ /\ votesReceived[n] + 1 >= VoteMajority(n)
                /\ BecomeLeader(n, m)
             \/ /\ votesReceived[n] + 1 < VoteMajority(n)
                /\ Exchange(m, {})
                /\ UNCHANGED <<state, leaderID, leaderVars, timerVars, leaders>>
          /\ UNCHANGED <<currentTerm, votedFor>>
    /\ UNCHANGED <<logVars, ballots>>

\* The log half of handleAppendEntries, once the message's term is accepted;
\* the reply carries the term t the node had when the message arrived.
Replicate(m, n, t) ==
    LET l == AppendNew(log[n], m.prevLogIndex, m.entries)
        c == IF m.leaderCommit > commitIndex[n]
             THEN Smaller(m.leaderCommit, Len(l)) ELSE commitIndex[n]
        reply(ok, match) ==
            [type |-> "AppendReply", from |-> n, to |-> m.from, term |-> t,
             success |-> ok, matchIndex |-> match]
    IN
    \/ /\ ~Consistent(m, log[n])
       /\ Exchange(m, {reply(FALSE, 0)})
       /\ UNCHANGED logVars
    \/ /\ Consistent(m, log[n])
       /\ log'         = [log EXCEPT ![n] = l]
       /\ commitIndex' = [commitIndex EXCEPT ![n] = c]
       /\ applied'     = [applied EXCEPT ![n] = ApplyUpTo(@, l, c)]
       /\ Exchange(m, {reply(TRUE, Len(l))})

HandleAppendEntries(m) ==
    LET n == m.to
        t == currentTerm[n]
    IN
    /\ InFlight(m) /\ m.type = "AppendEntries"
    /\ \/ /\ m.term < t
          /\ Exchange(m, {[type |-> "AppendReply", from |-> n, to |-> m.from,
                           term |-> t, success |-> FALSE, matchIndex |-> 0]})
          /\ UNCHANGED <<currentTerm, votedFor, state, timerVars, leaderID,
                         logVars>>
       \/ /\ m.term > t
          /\ StepDown(n, m.term, Nil)
          /\ leaderID' = [leaderID EXCEPT ![n] = m.from]
          /\ Replicate(m, n, t)
       \/ /\ m.term = t
          /\ state' = [state EXCEPT ![n] = "follower"]
          /\ electionTimer' = [electionTimer EXCEPT ![n] = "armed"]
          /\ leaderID' = [leaderID EXCEPT ![n] = m.from]
          /\ Replicate(m, n, t)
          /\ UNCHANGED <<currentTerm, votedFor, heartbeatTimer, started>>
    /\ UNCHANGED <<votesReceived, leaderVars, historyVars>>

\* maybeCommit on leader n with match indices match.
MaybeCommit(n, match) ==
    LET ready == Committable(n, log[n], currentTerm[n], match, commitIndex[n])
        c     == IF ready = {} THEN commitIndex[n] ELSE Highest(ready)
    IN  /\ commitIndex' = [commitIndex EXCEPT ![n] = c]
        /\ applied' = [applied EXCEPT ![n] = ApplyUpTo(@, log[n], c)]

\* A leader takes any reply that is not from a newer term at face value.
HandleAppendReply(m) ==
    LET n == m.to
        p == m.from
        lead == m.term <= currentTerm[n] /\ state[n] = "leader"
        back == BackOff(nextIndex[n][p])
        match == [matchIndex[n] EXCEPT ![p] = m.matchIndex]
    IN
    /\ InFlight(m) /\ m.type = "AppendReply"
    /\ \/ /\ m.term > currentTerm[n]
          /\ StepDown(n, m.term, Nil)
          /\ Exchange(m, {})
          /\ UNCHANGED <<leaderVars, commitIndex, applied>>
       \/ /\ m.term <= currentTerm[n] /\ ~lead
          /\ Exchange(m, {})
          /\ UNCHANGED <<currentTerm, votedFor, state, timerVars, leaderVars,
                         commitIndex, applied>>
       \/ /\ lead /\ m.success
          /\ matchIndex' = [matchIndex EXCEPT ![n] = match]
          /\ nextIndex'  = [nextIndex EXCEPT ![n][p] = m.matchIndex + 1]
          /\ MaybeCommit(n, match)
          /\ Exchange(m, {})
          /\ UNCHANGED <<currentTerm, votedFor, state, timerVars>>
       \/ /\ lead /\ ~m.success
          /\ nextIndex' = [nextIndex EXCEPT ![n][p] = back]
          /\ Exchange(m, {AppendEntriesTo(n, p, currentTerm[n], log[n], back,
                                          commitIndex[n])})
          /\ UNCHANGED <<currentTerm, votedFor, state, timerVars, matchIndex,
                         commitIndex, applied>>
    /\ UNCHANGED <<votesReceived, leaderID, log, historyVars>>

\* A message is lost: on the wire, evicted from a full queue, or expired.
Lose(m) ==
    /\ InFlight(m)
    /\ Exchange(m, {})
    /\ UNCHANGED <<serverVars, logVars, leaderVars, timerVars, historyVars>>

Receive(m) == \/ HandleRequestVote(m)
              \/ HandleRequestVoteReply(m)
              \/ HandleAppendEntries(m)
              \/ HandleAppendReply(m)

Next ==
    \/ \E n \in Node : Start(n) \/ OnTickElection(n) \/ OnTickHeartbeat(n)
    \/ \E n \in Node, c \in Command : Propose(n, c)
    \/ \E m \in BagToSet(net) : Receive(m) \/ Lose(m)

Spec == Init /\ [][Next]_vars
-----------------------------------------------------------------------------
(***************************************************************************)
(* Properties.                                                             *)
(***************************************************************************)
\* The fields of Algorithm and the messages in flight have the types that
\* raft.go declares; in particular no AppendEntries has an index below 0,
\* where sendAppendEntries would slice out of range.
TypeOK ==
    /\ IsABag(net) /\ BagToSet(net) \subseteq Message
    /\ currentTerm    \in [Node -> Term]
    /\ votedFor       \in [Node -> Node \union {Nil}]
    /\ log            \in [Node -> Seq(Entry)]
    /\ state          \in [Node -> {"follower", "candidate", "leader"}]
    /\ commitIndex    \in [Node -> Nat]
    /\ leaderID       \in [Node -> Node \union {Nil}]
    /\ nextIndex      \in [Node -> [Node -> Nat]]
    /\ matchIndex     \in [Node -> [Node -> Nat]]
    /\ votesReceived  \in [Node -> Nat]
    /\ applied        \in [Node -> Seq(Entry)]
    /\ electionTimer  \in [Node -> {"off", "armed", "late"}]
    /\ heartbeatTimer \in [Node -> {"off", "armed"}]
    /\ started \subseteq Node
    /\ voters  \in [Node -> SUBSET Node]
    /\ ballots \subseteq [voter : Node, term : Term, candidate : Node]
    /\ leaders \subseteq [term : Term, node : Node]

\* Over the whole history of the cluster no term is won by two nodes: the
\* "unique leader" that startElection, handleRequestVote and
\* handleRequestVoteReply are there to elect.
ElectionSafety ==
    \A l1, l2 \in leaders : l1.term = l2.term => l1.node = l2.node

\* The bare counter votesReceived counts distinct nodes that really voted for
\* this candidacy: handleRequestVoteReply does not look at the sender, so
\* no vote may be asked for, cast or delivered twice.
VotesCounted ==
    \A n \in Node : state[n] # "follower" =>
        /\ votesReceived[n] = Cardinality(voters[n])
        /\ \A v \in voters[n] :
              [voter |-> v, term |-> currentTerm[n], candidate |-> n]
                \in ballots

\* A node never votes for two candidates of one term, across stepDown,
\* startElection and handleRequestVote.
OneVotePerTerm ==
    \A b1, b2 \in ballots :
        b1.voter = b2.voter /\ b1.term = b2.term
            => b1.candidate = b2.candidate

\* Nobody falls silent: a leader's heartbeat timer is armed, and the election
\* timer of any other node is, once the node has been started or has heard of a
\* newer term.  resetElectionTimer, becomeLeader and stepDown each handle one
\* of the two timers, and Start may run late, on a node that already leads.
TimersArmed ==
    \A n \in Node :
        \/ state[n] = "leader" /\ heartbeatTimer[n] = "armed"
        \/ state[n] # "leader" /\ electionTimer[n] = "armed"
        \/ state[n] = "follower" /\ n \notin started /\ currentTerm[n] = 0

\* Only the winner of a term speaks as its leader: every AppendEntries in
\* flight comes from the node that won its term, so the leader a node reports
\* (LeaderID, StatusSnapshot) won an election of a term it has reached, and a
\* leader reports itself.
LeaderKnown ==
    /\ \A m \in BagToSet(net) : m.type = "AppendEntries" =>
          [term |-> m.term, node |-> m.from] \in leaders
    /\ \A n \in Node :
          /\ leaderID[n] # Nil =>
               \E l \in leaders : l.node = leaderID[n]
                                  /\ l.term <= currentTerm[n]
          /\ state[n] = "leader" =>
               /\ leaderID[n] = n
               /\ [term |-> currentTerm[n], node |-> n] \in leaders

\* Log matching: if two logs have an entry of the same term at the same
\* index, they are identical up to it.  This is what the consistency check
\* and the truncation of handleAppendEntries maintain.
LogMatching ==
    \A n, p \in Node :
        \A i \in 1..Smaller(Len(log[n]), Len(log[p])) :
            log[n][i].term = log[p][i].term =>
                SubSeq(log[n], 1, i) = SubSeq(log[p], 1, i)

\* Terms rise along a log and none is above the node's own: maybeCommit stops
\* its walk down the log at the first entry of another term, and
\* handleRequestVote compares logs by their last terms, as if they did.
TermsRise ==
    \A n \in Node : \A i \in 1..Len(log[n]) :
        /\ log[n][i].term <= currentTerm[n]
        /\ \A j \in 1..i : log[n][j].term <= log[n][i].term

\* A leader's next index for a peer stays at 1 or above, however many
\* failed, stale or reordered replies handleAppendReply processes: at 0
\* sendAppendEntries would slice the log out of range.
NextIndexPositive ==
    \A n \in Node : state[n] = "leader" =>
        \A p \in Peers(n) : nextIndex[n][p] >= 1

\* A leader advances its commit index only to an entry of its own term, and
\* never rewrites its own log: it can only append to it.
LeaderAppendOnly ==
    [][\A n \in Node :
         state[n] = "leader" /\ state'[n] = "leader" =>
           /\ Len(log'[n]) >= Len(log[n])
           /\ SubSeq(log'[n], 1, Len(log[n])) = log[n]
           /\ commitIndex'[n] # commitIndex[n] =>
                log[n][commitIndex'[n]].term = currentTerm[n]]_vars

\* What a node shares with the leader of its term it keeps.  The leader may
\* have counted it, and an AppendEntries that was delayed, or sent again, while
\* the log grew has fewer entries than the log that receives it.
SharedKept ==
    [][\A n, p \in Node :
         state[n] = "leader" /\ currentTerm'[p] = currentTerm[n] =>
           \A i \in 1..Smaller(Len(log[n]), Len(log[p])) :
              log[p][i] = log[n][i] =>
                i <= Len(log'[p]) /\ log'[p][i] = log[n][i]]_vars

\* All nodes apply the same sequence of commands.
AppliedAgree ==
    \A n, p \in Node :
        \A i \in 1..Smaller(Len(applied[n]), Len(applied[p])) :
            applied[n][i].cmd = applied[p][i].cmd
=============================================================================
