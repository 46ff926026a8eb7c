----------------------------- MODULE RaftProofs -----------------------------
(***************************************************************************)
(* What is proved about Raft, for every value of its constants.            *)
(***************************************************************************)
EXTENDS Raft, TLAPS, FiniteSetTheorems, SequenceTheorems, WellFoundedInduction

-----------------------------------------------------------------------------
(***************************************************************************)
(* The network: what a step does to the bag of messages in flight.         *)
(***************************************************************************)

\* After messages out are sent, net holds the old messages and out; what was
\* not in flight before is there once.
LEMMA SendBag ==
    ASSUME NEW B, IsABag(B), NEW out
    PROVE  LET C == B (+) SetToBag(out) IN
           /\ IsABag(C)
           /\ BagToSet(C) = BagToSet(B) \union out
           /\ \A x \in BagToSet(B) : x \notin out => C[x] = B[x]
           /\ \A x \in out : x \notin BagToSet(B) => C[x] = 1
  BY DEF IsABag, BagToSet, SetToBag, (+)

\* Consuming m leaves the other messages as they were, and one m fewer.
LEMMA ConsumeBag ==
    ASSUME NEW B, IsABag(B), NEW m \in BagToSet(B)
    PROVE  LET C == B (-) SetToBag({m}) IN
           /\ IsABag(C)
           /\ BagToSet(C) \subseteq BagToSet(B)
           /\ \A x \in BagToSet(C) : x # m => C[x] = B[x]
           /\ B[m] = 1 => m \notin BagToSet(C)
           /\ m \in BagToSet(C) => C[m] = B[m] - 1
  BY DEF IsABag, BagToSet, SetToBag, (-)

\* What a step that consumes the messages gone and sends the messages out
\* does to the network, as far as the proofs below need it.
NetStep(gone, out) ==
    /\ IsABag(net')
    /\ BagToSet(net') \subseteq BagToSet(net) \union out
    /\ \A x \in BagToSet(net') \ out :
          net[x] = 1 => x \notin gone /\ net'[x] = 1
    /\ \A x \in out \ BagToSet(net) : net'[x] = 1

\* Sending is a network step that consumes nothing.
LEMMA SendStep ==
    ASSUME IsABag(net), NEW out, Send(out)
    PROVE  NetStep({}, out)
  BY SendBag DEF Send, NetStep

\* Handling a message is a network step that consumes one copy of it.
LEMMA ExchangeStep ==
    ASSUME IsABag(net), NEW m \in BagToSet(net), NEW out, Exchange(m, out)
    PROVE  NetStep({m}, out)
<1> DEFINE C == net (-) SetToBag({m})
<1>1. /\ IsABag(C)
      /\ BagToSet(C) \subseteq BagToSet(net)
      /\ \A x \in BagToSet(C) : x # m => C[x] = net[x]
      /\ net[m] = 1 => m \notin BagToSet(C)
  BY ConsumeBag
<1>2. net' = C (+) SetToBag(out)
  BY DEF Exchange
<1> HIDE DEF C
<1>3. /\ IsABag(net')
      /\ BagToSet(net') = BagToSet(C) \union out
      /\ \A x \in BagToSet(C) : x \notin out => net'[x] = C[x]
      /\ \A x \in out : x \notin BagToSet(C) => net'[x] = 1
  BY <1>1, <1>2, SendBag
<1> QED
  BY <1>1, <1>3 DEF NetStep

-----------------------------------------------------------------------------
(***************************************************************************)
(* The operators on logs.                                                  *)
(***************************************************************************)

\* A non-empty set of natural numbers has a lowest element.
LEMMA LowestIn ==
    ASSUME NEW S, S \subseteq Nat, S # {}
    PROVE  Lowest(S) \in S /\ \A y \in S : Lowest(S) <= y
<1> DEFINE R == {ss \in Nat \X Nat : ss[1] < ss[2]}
<1>1. IsWellFoundedOn(R, Nat)
  <2>1. OpToRel(<, Nat) = R
    BY Zenon DEF OpToRel
  <2> QED
    BY <2>1, NatLessThanWellFounded, Zenon
<1>2. PICK x \in S : \A y \in S : ~(<<y, x>> \in R)
  <2> HIDE DEF R
  <2> QED
    BY <1>1, WFMin, Zenon
<1>3. ASSUME NEW y \in S, y < x  PROVE  <<y, x>> \in R
  BY <1>3
<1>4. \A y \in S : x <= y
  <2>1. \A y \in S : ~(y < x)
    BY <1>2, <1>3, Zenon
  <2> QED
    BY <2>1
<1> QED
  BY <1>4 DEF Lowest

\* A non-empty bounded set of natural numbers has a highest element.
LEMMA HighestIn ==
    ASSUME NEW b \in Nat, NEW S, S \subseteq 0..b, S # {}
    PROVE  Highest(S) \in S /\ \A y \in S : y <= Highest(S)
<1> DEFINE T == {k \in Nat : b - k \in S}
<1>1. T \subseteq Nat /\ T # {}
  <2>1. PICK x \in S : TRUE
    OBVIOUS
  <2>2. b - x \in T
    BY <2>1
  <2> QED
    BY <2>2
<1>2. Lowest(T) \in T /\ \A y \in T : Lowest(T) <= y
  BY <1>1, LowestIn
<1>3. \A y \in S : b - y \in T
  OBVIOUS
<1>4. \A y \in S : y <= b - Lowest(T)
  BY <1>2, <1>3
<1> QED
  BY <1>2, <1>4 DEF Highest

\* Terms are natural numbers.
LEMMA TermFacts == Term \subseteq Nat /\ 0 \in Term
  BY BoundsAreNat DEF Term

\* The entries of a log have terms.
LEMMA EntryTerm ==
    ASSUME NEW l \in Seq(Entry), NEW i \in 1..Len(l)
    PROVE  l[i].term \in Term
<1>1. l[i] \in Entry
  BY ElementOfSeq
<1> QED
  BY <1>1 DEF Entry

\* lastLogInfo returns a term, also for an empty log.
LEMMA LastTermType ==
    ASSUME NEW l \in Seq(Entry)
    PROVE  LastTerm(l) \in Term
<1>1. CASE l = <<>>
  BY <1>1, TermFacts DEF LastTerm
<1>2. CASE l # <<>>
  <2>1. Len(l) \in 1..Len(l)
    BY <1>2
  <2> QED
    BY <1>2, <2>1, EntryTerm DEF LastTerm
<1> QED
  BY <1>1, <1>2

\* applyCommitted stays within the log and covers the commit index.
LEMMA ApplyUpToType ==
    ASSUME NEW done \in Seq(Entry), NEW l \in Seq(Entry), NEW c \in Nat,
           c <= Len(l) \/ c <= Len(done)
    PROVE  /\ ApplyUpTo(done, l, c) \in Seq(Entry)
           /\ c <= Len(ApplyUpTo(done, l, c))
<1> DEFINE new == SubSeq(l, Len(done) + 1, c)
<1>1. \A i \in Len(done) + 1..c : l[i] \in Entry
  OBVIOUS
<1>2. /\ new \in Seq(Entry)
      /\ Len(new) = IF Len(done) + 1 <= c THEN c - (Len(done) + 1) + 1 ELSE 0
  BY <1>1, SubSeqProperties
<1> HIDE DEF new
<1>3. done \o new \in Seq(Entry) /\ Len(done \o new) = Len(done) + Len(new)
  BY <1>2, ConcatProperties
<1> QED
  BY <1>2, <1>3 DEF ApplyUpTo, new

\* The append loop of handleAppendEntries yields a log.
LEMMA AppendNewType ==
    ASSUME NEW l \in Seq(Entry), NEW es \in Seq(Entry), NEW prev \in Nat,
           prev <= Len(l)
    PROVE  AppendNew(l, prev, es) \in Seq(Entry)
<1> DEFINE fresh == {i \in 1..Len(es) : \/ prev + i > Len(l)
                                       \/ l[prev + i].term # es[i].term}
           first == Lowest(fresh)
           old   == SubSeq(l, 1, prev + first - 1)
           new   == SubSeq(es, first, Len(es))
<1>1. CASE fresh = {}
  BY <1>1 DEF AppendNew
<1>2. CASE fresh # {}
  <2>1. first \in fresh /\ \A i \in fresh : first <= i
    <3>1. fresh \subseteq Nat
      OBVIOUS
    <3> HIDE DEF fresh
    <3> QED
      BY <1>2, <3>1, LowestIn
  <2>2. first \in 1..Len(es) /\ prev + first - 1 <= Len(l)
    <3> HIDE DEF first
    <3>1. first \in 1..Len(es) /\ Len(l) \in Nat /\ Len(es) \in Nat
      BY <2>1
    <3>2. \A i \in 1..Len(es) : i < first => i \notin fresh
      <4> HIDE DEF fresh
      <4> QED
        BY <2>1, <3>1
    <3>3. \A i \in 1..Len(es) : i < first => ~(prev + i > Len(l))
      BY <3>2
    <3>4. first # 1 => first - 1 \in 1..Len(es) /\ first - 1 < first
      BY <3>1
    <3>5. first # 1 => ~(prev + (first - 1) > Len(l))
      BY <3>3, <3>4
    <3> QED
      BY <3>1, <3>5
  <2> HIDE DEF first, fresh
  <2>3. old \in Seq(Entry)
    <3>1. \A i \in 1..prev + first - 1 : l[i] \in Entry
      BY <2>2
    <3> QED
      BY <2>2, <3>1, SubSeqProperties
  <2>4. new \in Seq(Entry)
    <3>1. \A i \in first..Len(es) : es[i] \in Entry
      BY <2>2
    <3> QED
      BY <2>2, <3>1, SubSeqProperties
  <2>5. old \o new \in Seq(Entry)
    BY <2>3, <2>4, ConcatProperties
  <2> QED
    BY <1>2, <2>5 DEF AppendNew, fresh, first
<1> QED
  BY <1>1, <1>2

\* sendAppendEntries builds a well-formed message when the next index is
\* positive.
LEMMA AppendEntriesToType ==
    ASSUME NEW n \in Node, NEW p \in Node, NEW t \in Term,
           NEW l \in Seq(Entry), NEW next \in Nat, next >= 1, NEW c \in Nat
    PROVE  AppendEntriesTo(n, p, t, l, next, c) \in AppendEntries
<1>1. (IF next \in 1..Len(l) THEN SubSeq(l, next, Len(l)) ELSE <<>>)
        \in Seq(Entry)
  <2>1. CASE next \in 1..Len(l)
    <3>1. \A i \in next..Len(l) : l[i] \in Entry
      BY <2>1
    <3> QED
      BY <2>1, <3>1, SubSeqProperties
  <2>2. CASE next \notin 1..Len(l)
    BY <2>2
  <2> QED
    BY <2>1, <2>2
<1>2. (IF next - 1 \in 1..Len(l) THEN l[next - 1].term ELSE 0) \in Term
  BY TermFacts, EntryTerm
<1> QED
  BY <1>1, <1>2 DEF AppendEntriesTo, AppendEntries

\* The type field of a message determines its other fields.
LEMMA MessageKinds ==
    ASSUME NEW m \in Message
    PROVE  /\ m.from \in Node /\ m.to \in Node /\ m.from # m.to
           /\ m.term \in Term
           /\ m.type = "RequestVote"      => m \in RequestVote
           /\ m.type = "RequestVoteReply" => m \in RequestVoteReply
           /\ m.type = "AppendEntries"    => m \in AppendEntries
           /\ m.type = "AppendReply"      => m \in AppendReply
  BY DEF Message, RequestVote, RequestVoteReply, AppendEntries, AppendReply

-----------------------------------------------------------------------------
(***************************************************************************)
(* Type correctness.  TypeOK is not inductive: that the AppendEntries of a *)
(* leader have natural indices needs NextIndexPositive, and that           *)
(* applyCommitted stays within the log needs AppliedCovers.                *)
(***************************************************************************)

\* The entries up to the commit index have been applied: every handler that
\* moves commitIndex calls applyCommitted before it returns.
AppliedCovers == \A n \in Node : commitIndex[n] <= Len(applied[n])

TypeInv == TypeOK /\ NextIndexPositive /\ AppliedCovers

\* A network step that sends messages keeps a bag of messages.
LEMMA NetTypeStep ==
    ASSUME TypeOK, NEW gone, NEW out, NetStep(gone, out), out \subseteq Message
    PROVE  IsABag(net') /\ BagToSet(net') \subseteq Message
  BY DEF TypeOK, NetStep

\* The invariant holds of new nodes (New).
LEMMA TypeInvInit == Init => TypeInv
<1> SUFFICES ASSUME Init PROVE TypeInv
  OBVIOUS
<1>1. IsABag(net) /\ BagToSet(net) = {}
  BY DEF Init, EmptyBag, SetToBag, BagToSet, IsABag
<1>2. <<>> \in Seq(Entry) /\ Len(<<>>) = 0
  BY EmptySeq
<1>3. TypeOK
  BY <1>1, <1>2, TermFacts DEF Init, TypeOK
<1> QED
  BY <1>2, <1>3 DEF Init, TypeInv, NextIndexPositive, AppliedCovers

\* startElection keeps the invariant.
LEMMA TypeInvElection ==
    ASSUME TypeInv, NEW n \in Node, OnTickElection(n)
    PROVE  TypeInv'
<1> USE DEF TypeInv
<1> DEFINE t   == currentTerm[n] + 1
           out == {[type |-> "RequestVote", from |-> n, to |-> p, term |-> t,
                    lastLogIndex |-> Len(log[n]),
                    lastLogTerm |-> LastTerm(log[n])] : p \in Peers(n)}
<1>1. t \in Term
  BY BoundsAreNat DEF OnTickElection, Term, TypeOK
<1>2. IsABag(net') /\ BagToSet(net') \subseteq Message
  <2>1. LastTerm(log[n]) \in Term /\ Len(log[n]) \in Nat
    BY LastTermType DEF TypeOK
  <2>2. out \subseteq Message
    <3>1. \A p \in Peers(n) : p \in Node /\ p # n
      BY DEF Peers
    <3> QED
      BY <1>1, <2>1, <3>1 DEF Message, RequestVote
  <2>3. Send(out)
    BY DEF OnTickElection
  <2> QED
    BY <2>2, <2>3, SendStep, NetTypeStep DEF TypeOK
<1>3. TypeOK'
  BY <1>1, <1>2 DEF OnTickElection, logVars, leaderVars, TypeOK
<1>4. /\ state \in [Node -> {"follower", "candidate", "leader"}]
      /\ state' = [state EXCEPT ![n] = "candidate"]
      /\ UNCHANGED <<nextIndex, commitIndex, applied>>
  BY DEF OnTickElection, logVars, leaderVars, TypeOK
<1> QED
  BY <1>3, <1>4 DEF NextIndexPositive, AppliedCovers

\* broadcastAppendEntries sends messages.
LEMMA AppendEntriesToAllType ==
    ASSUME TypeOK, NEW n \in Node, NEW l \in Seq(Entry),
           NEW nx \in [Node -> Nat], \A p \in Peers(n) : nx[p] >= 1
    PROVE  AppendEntriesToAll(n, currentTerm[n], l, nx, commitIndex[n])
             \subseteq Message
<1>1. currentTerm[n] \in Term /\ commitIndex[n] \in Nat
  BY DEF TypeOK
<1>2. \A p \in Peers(n) :
        AppendEntriesTo(n, p, currentTerm[n], l, nx[p], commitIndex[n])
          \in AppendEntries
  BY <1>1, AppendEntriesToType DEF Peers
<1>3. \A p \in Peers(n) :
        AppendEntriesTo(n, p, currentTerm[n], l, nx[p], commitIndex[n])
          \in Message
  BY <1>2 DEF AppendEntriesTo, Message, Peers
<1> QED
  BY <1>3 DEF AppendEntriesToAll

\* A heartbeat tick keeps the invariant.
LEMMA TypeInvHeartbeat ==
    ASSUME TypeInv, NEW n \in Node, OnTickHeartbeat(n)
    PROVE  TypeInv'
<1> USE DEF TypeInv
<1>1. IsABag(net') /\ BagToSet(net') \subseteq Message
  <2> DEFINE out == AppendEntriesToAll(n, currentTerm[n], log[n],
                                       nextIndex[n], commitIndex[n])
  <2>1. out \subseteq Message
    BY AppendEntriesToAllType DEF OnTickHeartbeat, NextIndexPositive, TypeOK
  <2>2. Send(out)
    BY DEF OnTickHeartbeat
  <2> HIDE DEF out
  <2> QED
    BY <2>1, <2>2, SendStep, NetTypeStep DEF TypeOK
<1>2. UNCHANGED <<serverVars, logVars, leaderVars, timerVars, historyVars>>
  BY DEF OnTickHeartbeat
<1> QED
  BY <1>1, <1>2 DEF TypeOK, NextIndexPositive, AppliedCovers, serverVars,
                    logVars, leaderVars, timerVars, historyVars

\* Propose keeps the invariant.
LEMMA TypeInvPropose ==
    ASSUME TypeInv, NEW n \in Node, NEW c \in Command, Propose(n, c)
    PROVE  TypeInv'
<1> USE DEF TypeInv
<1> DEFINE l   == Append(log[n], [term |-> currentTerm[n], cmd |-> c])
           out == AppendEntriesToAll(n, currentTerm[n], l, nextIndex[n],
                                     commitIndex[n])
<1>1. l \in Seq(Entry)
  <2> DEFINE e == [term |-> currentTerm[n], cmd |-> c]
  <2>1. e \in Entry /\ log[n] \in Seq(Entry) BY DEF TypeOK, Entry
  <2> HIDE DEF e
  <2>2. Append(log[n], e) \in Seq(Entry) BY <2>1, AppendProperties
  <2> QED BY <2>2 DEF e
<1>2. Send(out) /\ log' = [log EXCEPT ![n] = l]
  BY DEF Propose
<1> HIDE DEF l
<1>3. IsABag(net') /\ BagToSet(net') \subseteq Message
  <2>1. out \subseteq Message
    BY <1>1, AppendEntriesToAllType DEF Propose, NextIndexPositive, TypeOK
  <2> HIDE DEF out
  <2> QED
    BY <1>2, <2>1, SendStep, NetTypeStep DEF TypeOK
<1>4. UNCHANGED <<serverVars, commitIndex, applied, leaderVars, timerVars,
                  historyVars>>
  BY DEF Propose
<1> QED
  BY <1>1, <1>2, <1>3, <1>4
     DEF TypeOK, NextIndexPositive, AppliedCovers, serverVars, leaderVars,
         timerVars, historyVars

\* What a received message, and the loss of a message, do to the network.
LEMMA ReceiveStep ==
    ASSUME TypeOK, NEW m, InFlight(m), NEW out, Exchange(m, out)
    PROVE  /\ m \in Message
           /\ NetStep({m}, out)
           /\ out \subseteq Message =>
                IsABag(net') /\ BagToSet(net') \subseteq Message
<1>1. NetStep({m}, out)
  BY ExchangeStep DEF TypeOK, InFlight
<1> QED
  BY <1>1, NetTypeStep DEF TypeOK, InFlight

\* Handling a message without an answer keeps a bag of messages.
LEMMA ConsumeStep ==
    ASSUME TypeOK, NEW m, InFlight(m), Exchange(m, {})
    PROVE  /\ NetStep({m}, {})
           /\ IsABag(net') /\ BagToSet(net') \subseteq Message
<1> DEFINE out == {}
<1>1. out \subseteq Message
  OBVIOUS
<1>2. Exchange(m, out)
  OBVIOUS
<1> HIDE DEF out
<1>3. NetStep({m}, out) /\ IsABag(net') /\ BagToSet(net') \subseteq Message
  BY <1>1, <1>2, ReceiveStep
<1> QED
  BY <1>3 DEF out

\* stepDown writes values of the right types.
LEMMA StepDownType ==
    ASSUME TypeOK, NEW n \in Node, NEW t \in Term, NEW v \in Node \union {Nil},
           StepDown(n, t, v)
    PROVE  /\ currentTerm' \in [Node -> Term]
           /\ votedFor' \in [Node -> Node \union {Nil}]
           /\ state' \in [Node -> {"follower", "candidate", "leader"}]
           /\ electionTimer' \in [Node -> {"off", "armed", "late"}]
           /\ heartbeatTimer' \in [Node -> {"off", "armed"}]
           /\ started' \subseteq Node
           /\ \A p \in Node : state'[p] = "leader" => state[p] = "leader"
  BY DEF TypeOK, StepDown

\* handleRequestVote keeps the invariant.
LEMMA TypeInvRequestVote ==
    ASSUME TypeInv, NEW m, HandleRequestVote(m)
    PROVE  TypeInv'
<1> USE DEF TypeInv
<1> DEFINE n     == m.to
           newer == m.term > currentTerm[n]
           t     == IF newer THEN m.term ELSE currentTerm[n]
           v     == IF newer THEN Nil ELSE votedFor[n]
           grant == Grants(m, n, t, v)
           out   == {[type |-> "RequestVoteReply", from |-> n, to |-> m.from,
                      term |-> t, voteGranted |-> grant]}
<1>1. InFlight(m) /\ Exchange(m, out)
  BY DEF HandleRequestVote
<1>2. /\ m \in Message /\ n \in Node /\ m.from \in Node /\ m.from # n
      /\ t \in Term
  BY <1>1, ReceiveStep, MessageKinds DEF TypeOK
<1>3. IsABag(net') /\ BagToSet(net') \subseteq Message
  <2>1. grant \in BOOLEAN
    BY DEF Grants, LogOK
  <2> HIDE DEF grant
  <2>2. out \subseteq Message
    BY <1>2, <2>1 DEF Message, RequestVoteReply
  <2> QED
    BY <1>1, <2>2, ReceiveStep
<1>4. UNCHANGED <<votesReceived, leaderID, logVars, leaderVars, voters, leaders>>
  BY DEF HandleRequestVote
<1>5. \/ StepDown(n, t, IF grant THEN m.from ELSE Nil)
      \/ /\ votedFor' = [votedFor EXCEPT ![n] = m.from]
         /\ electionTimer' = [electionTimer EXCEPT ![n] = "armed"]
         /\ UNCHANGED <<currentTerm, state, heartbeatTimer, started>>
      \/ UNCHANGED <<currentTerm, state, votedFor, timerVars>>
  BY DEF HandleRequestVote
<1>6. ballots' = ballots
        \/ ballots' = ballots \union
             {[voter |-> n, term |-> t, candidate |-> m.from]}
  BY DEF HandleRequestVote
<1> HIDE DEF grant, newer, t, n
<1>7. TypeOK'
  <2>1. ballots' \subseteq [voter : Node, term : Term, candidate : Node]
    <3> DEFINE B == [voter : Node, term : Term, candidate : Node]
               b == [voter |-> n, term |-> t, candidate |-> m.from]
    <3>1. b \in B BY <1>2
    <3>2. ballots \subseteq B BY DEF TypeOK
    <3>3. ballots' = ballots \/ ballots' = ballots \union {b} BY <1>6
    <3> HIDE DEF B, b
    <3>4. ballots' \subseteq B BY <3>1, <3>2, <3>3
    <3> QED BY <3>4 DEF B
  <2>2. /\ currentTerm' \in [Node -> Term]
        /\ votedFor' \in [Node -> Node \union {Nil}]
        /\ state' \in [Node -> {"follower", "candidate", "leader"}]
        /\ electionTimer' \in [Node -> {"off", "armed", "late"}]
        /\ heartbeatTimer' \in [Node -> {"off", "armed"}]
        /\ started' \subseteq Node
    <3>1. CASE StepDown(n, t, IF grant THEN m.from ELSE Nil)
      <4>1. (IF grant THEN m.from ELSE Nil) \in Node \union {Nil}
        BY <1>2
      <4> QED
        BY <1>2, <3>1, <4>1, StepDownType
    <3>2. CASE /\ votedFor' = [votedFor EXCEPT ![n] = m.from]
               /\ electionTimer' = [electionTimer EXCEPT ![n] = "armed"]
               /\ UNCHANGED <<currentTerm, state, heartbeatTimer, started>>
      BY <1>2, <3>2 DEF TypeOK
    <3>3. CASE UNCHANGED <<currentTerm, state, votedFor, timerVars>>
      BY <3>3 DEF TypeOK, timerVars
    <3> QED
      BY <1>5, <3>1, <3>2, <3>3
  <2> QED
    BY <1>3, <1>4, <2>1, <2>2 DEF TypeOK, logVars, leaderVars
<1>8. \A p \in Node : state'[p] = "leader" => state[p] = "leader"
  <2>1. state' = state \/ state' = [state EXCEPT ![n] = "follower"]
    BY <1>5 DEF StepDown
  <2>2. DOMAIN state = Node BY DEF TypeOK
  <2> QED BY <1>2, <2>1, <2>2
<1> QED
  BY <1>4, <1>7, <1>8 DEF NextIndexPositive, AppliedCovers, logVars, leaderVars

\* Counting a vote keeps the types of the counter and of its history.
LEMMA CountingType ==
    ASSUME TypeOK, NEW n \in Node, NEW v \in Node,
           votesReceived' = [votesReceived EXCEPT ![n] = @ + 1],
           voters' = [voters EXCEPT ![n] = @ \union {v}]
    PROVE  votesReceived' \in [Node -> Nat] /\ voters' \in [Node -> SUBSET Node]
<1>1. votesReceived \in [Node -> Nat] /\ voters \in [Node -> SUBSET Node]
  BY DEF TypeOK
<1>2. voters[n] \union {v} \in SUBSET Node
  BY <1>1
<1> QED
  BY <1>1, <1>2

\* handleRequestVoteReply keeps the invariant.
LEMMA TypeInvRequestVoteReply ==
    ASSUME TypeInv, NEW m, HandleRequestVoteReply(m)
    PROVE  TypeInv'
<1> USE DEF TypeInv
<1> DEFINE n == m.to
<1>1. InFlight(m) /\ UNCHANGED <<logVars, ballots>>
  BY DEF HandleRequestVoteReply
<1>2. m \in Message /\ n \in Node /\ m.from \in Node /\ m.term \in Term
  BY <1>1, MessageKinds DEF TypeOK, InFlight
<1>3. ASSUME Exchange(m, {})
      PROVE  IsABag(net') /\ BagToSet(net') \subseteq Message
  BY <1>1, <1>3, ConsumeStep
<1>4. CASE /\ StepDown(n, m.term, Nil)
           /\ Exchange(m, {})
           /\ UNCHANGED <<votesReceived, leaderID, leaderVars, voters, leaders>>
  <2>1. TypeOK'
    BY <1>1, <1>2, <1>3, <1>4 DEF TypeOK, StepDown, logVars, leaderVars
  <2>2. \A p \in Node : state'[p] = "leader" => state[p] = "leader"
    BY <1>4 DEF TypeOK, StepDown
  <2> QED
    BY <1>1, <1>4, <2>1, <2>2
       DEF NextIndexPositive, AppliedCovers, logVars, leaderVars
<1>5. CASE /\ Exchange(m, {})
           /\ UNCHANGED <<serverVars, leaderVars, timerVars, voters, leaders>>
  <2>1. TypeOK'
    BY <1>1, <1>3, <1>5
       DEF TypeOK, serverVars, logVars, leaderVars, timerVars
  <2> QED
    BY <1>1, <1>5, <2>1
       DEF NextIndexPositive, AppliedCovers, serverVars, logVars, leaderVars
<1>6. CASE /\ votesReceived' = [votesReceived EXCEPT ![n] = @ + 1]
           /\ voters' = [voters EXCEPT ![n] = @ \union {m.from}]
           /\ Exchange(m, {})
           /\ UNCHANGED <<state, leaderID, leaderVars, timerVars, leaders>>
           /\ UNCHANGED <<currentTerm, votedFor>>
  <2>1. TypeOK'
    <3>1. votesReceived' \in [Node -> Nat] /\ voters' \in [Node -> SUBSET Node]
      BY <1>2, <1>6, CountingType
    <3> QED
      BY <1>1, <1>3, <1>6, <3>1 DEF TypeOK, logVars, leaderVars, timerVars
  <2> QED
    BY <1>1, <1>6, <2>1 DEF NextIndexPositive, AppliedCovers, logVars, leaderVars
<1>7. CASE /\ votesReceived' = [votesReceived EXCEPT ![n] = @ + 1]
           /\ voters' = [voters EXCEPT ![n] = @ \union {m.from}]
           /\ BecomeLeader(n, m)
           /\ UNCHANGED <<currentTerm, votedFor>>
  <2> DEFINE nx  == [p \in Node |-> IF p = n THEN nextIndex[n][n]
                                             ELSE Len(log[n]) + 1]
             out == AppendEntriesToAll(n, currentTerm[n], log[n], nx,
                                       commitIndex[n])
  <2>1. Exchange(m, out) /\ nextIndex' = [nextIndex EXCEPT ![n] = nx]
    BY <1>7 DEF BecomeLeader
  <2>2. Len(log[n]) \in Nat /\ log[n] \in Seq(Entry)
    BY <1>2 DEF TypeOK
  <2>3. nx \in [Node -> Nat] /\ \A p \in Peers(n) : nx[p] >= 1
    <3>1. nextIndex[n][n] \in Nat BY <1>2 DEF TypeOK
    <3> QED BY <1>2, <2>2, <3>1 DEF Peers
  <2> HIDE DEF nx
  <2>4. out \subseteq Message
    BY <1>2, <2>2, <2>3, AppendEntriesToAllType
  <2> HIDE DEF out
  <2>5. IsABag(net') /\ BagToSet(net') \subseteq Message
    BY <1>1, <2>1, <2>4, ReceiveStep
  <2>6. TypeOK'
    <3>1. votesReceived' \in [Node -> Nat] /\ voters' \in [Node -> SUBSET Node]
      BY <1>2, <1>7, CountingType
    <3>2. nextIndex' \in [Node -> [Node -> Nat]]
      BY <1>2, <2>1, <2>3 DEF TypeOK
    <3>3. matchIndex' \in [Node -> [Node -> Nat]]
      BY <1>2, <1>7 DEF TypeOK, BecomeLeader
    <3>4. leaders' \subseteq [term : Term, node : Node]
      <4> DEFINE W == [term : Term, node : Node]
                 k == [term |-> currentTerm[n], node |-> n]
      <4>1. k \in W /\ leaders \subseteq W BY <1>2 DEF TypeOK
      <4>2. leaders' = leaders \union {k} BY <1>7 DEF BecomeLeader
      <4> HIDE DEF W, k
      <4>3. leaders' \subseteq W BY <4>1, <4>2
      <4> QED BY <4>3 DEF W
    <3>5. /\ state' \in [Node -> {"follower", "candidate", "leader"}]
          /\ leaderID' \in [Node -> Node \union {Nil}]
          /\ electionTimer' \in [Node -> {"off", "armed", "late"}]
          /\ heartbeatTimer' \in [Node -> {"off", "armed"}]
          /\ started' \subseteq Node
      <4>1. /\ state'          = [state EXCEPT ![n] = "leader"]
            /\ leaderID'       = [leaderID EXCEPT ![n] = n]
            /\ electionTimer'  = [electionTimer EXCEPT ![n] = "late"]
            /\ heartbeatTimer' = [heartbeatTimer EXCEPT ![n] = "armed"]
            /\ UNCHANGED started
        BY <1>7 DEF BecomeLeader
      <4> HIDE DEF n
      <4> QED BY <1>2, <4>1 DEF TypeOK
    <3> QED
      BY <1>1, <1>7, <2>5, <3>1, <3>2, <3>3, <3>4, <3>5 DEF TypeOK, logVars
  <2>7. NextIndexPositive'
    <3>1. \A p \in Node : p # n => state'[p] = state[p]
                                 /\ nextIndex'[p] = nextIndex[p]
      BY <1>7, <2>1 DEF BecomeLeader, TypeOK
    <3>2. nextIndex'[n] = nx
      BY <1>2, <2>1 DEF TypeOK
    <3> QED
      BY <2>3, <3>1, <3>2 DEF NextIndexPositive
  <2> QED
    BY <1>1, <2>6, <2>7 DEF AppliedCovers, logVars
<1> HIDE DEF n
<1> QED
  BY <1>4, <1>5, <1>6, <1>7 DEF HandleRequestVoteReply, n

\* The log half of handleAppendEntries keeps the types of log, commitIndex
\* and applied, and applies what it commits.
LEMMA ReplicateType ==
    ASSUME TypeInv, NEW m \in AppendEntries, InFlight(m),
           Replicate(m, m.to, currentTerm[m.to])
    PROVE  /\ IsABag(net') /\ BagToSet(net') \subseteq Message
           /\ log' \in [Node -> Seq(Entry)]
           /\ commitIndex' \in [Node -> Nat]
           /\ applied' \in [Node -> Seq(Entry)]
           /\ AppliedCovers'
<1> USE DEF TypeInv
<1> DEFINE n == m.to
           t == currentTerm[n]
           l == AppendNew(log[n], m.prevLogIndex, m.entries)
           c == IF m.leaderCommit > commitIndex[n]
                THEN Smaller(m.leaderCommit, Len(l)) ELSE commitIndex[n]
           a == ApplyUpTo(applied[n], l, c)
           reply(ok, match) ==
               [type |-> "AppendReply", from |-> n, to |-> m.from, term |-> t,
                success |-> ok, matchIndex |-> match]
<1>1. /\ n \in Node /\ m.from \in Node /\ m.prevLogIndex \in Nat
      /\ m.entries \in Seq(Entry) /\ m.leaderCommit \in Nat
      /\ m.from # n
  BY MessageKinds DEF AppendEntries, TypeOK, InFlight
<1>2. /\ t \in Term /\ log[n] \in Seq(Entry) /\ commitIndex[n] \in Nat
      /\ applied[n] \in Seq(Entry) /\ commitIndex[n] <= Len(applied[n])
  BY <1>1 DEF TypeOK, AppliedCovers
<1>3. ASSUME NEW ok \in BOOLEAN, NEW match \in Nat
      PROVE  {reply(ok, match)} \subseteq Message
  BY <1>1, <1>2 DEF Message, AppendReply
<1>4. CASE /\ Exchange(m, {reply(FALSE, 0)})
           /\ UNCHANGED logVars
  <2>1. {reply(FALSE, 0)} \subseteq Message
    BY <1>3
  <2>2. IsABag(net') /\ BagToSet(net') \subseteq Message
    <3> HIDE DEF reply
    <3> QED
      BY <1>4, <2>1, ReceiveStep
  <2> QED
    BY <1>4, <2>2 DEF TypeOK, AppliedCovers, logVars
<1>5. CASE /\ Consistent(m, log[n])
           /\ log'         = [log EXCEPT ![n] = l]
           /\ commitIndex' = [commitIndex EXCEPT ![n] = c]
           /\ applied'     = [applied EXCEPT ![n] = a]
           /\ Exchange(m, {reply(TRUE, Len(l))})
  <2>1. m.prevLogIndex <= Len(log[n])
    BY <1>1, <1>2, <1>5 DEF Consistent
  <2>2. l \in Seq(Entry) /\ Len(l) \in Nat
    <3>1. l \in Seq(Entry)
      BY <1>1, <1>2, <2>1, AppendNewType
    <3> HIDE DEF l
    <3> QED
      BY <3>1, LenProperties
  <2> HIDE DEF l
  <2>3. c \in Nat /\ (c <= Len(l) \/ c <= Len(applied[n]))
    BY <1>1, <1>2, <2>2 DEF Smaller
  <2> HIDE DEF c
  <2>4. a \in Seq(Entry) /\ c <= Len(a)
    BY <1>2, <2>2, <2>3, ApplyUpToType
  <2> HIDE DEF a
  <2>5. IsABag(net') /\ BagToSet(net') \subseteq Message
    <3>1. {reply(TRUE, Len(l))} \subseteq Message
      BY <1>3, <2>2
    <3> HIDE DEF reply
    <3> QED
      BY <1>5, <3>1, ReceiveStep
  <2>6. /\ log' \in [Node -> Seq(Entry)]
        /\ commitIndex' \in [Node -> Nat]
        /\ applied' \in [Node -> Seq(Entry)]
    BY <1>5, <2>2, <2>3, <2>4 DEF TypeOK
  <2>7. AppliedCovers'
    BY <1>1, <1>5, <2>4 DEF TypeOK, AppliedCovers
  <2> QED
    BY <2>5, <2>6, <2>7
<1> QED
  BY <1>4, <1>5 DEF Replicate

\* handleAppendEntries keeps the invariant.
LEMMA TypeInvAppendEntries ==
    ASSUME TypeInv, NEW m, HandleAppendEntries(m)
    PROVE  TypeInv'
<1> USE DEF TypeInv
<1> DEFINE n == m.to
           t == currentTerm[n]
<1>1. InFlight(m) /\ UNCHANGED <<votesReceived, leaderVars, historyVars>>
  BY DEF HandleAppendEntries
<1>2. /\ m \in AppendEntries /\ n \in Node /\ m.from \in Node
      /\ m.from # n /\ m.term \in Term /\ t \in Term
  BY <1>1, MessageKinds DEF HandleAppendEntries, TypeOK, InFlight
<1>3. CASE /\ Exchange(m, {[type |-> "AppendReply", from |-> n, to |-> m.from,
                            term |-> t, success |-> FALSE, matchIndex |-> 0]})
           /\ UNCHANGED <<currentTerm, votedFor, state, timerVars, leaderID,
                          logVars>>
  <2> DEFINE out == {[type |-> "AppendReply", from |-> n, to |-> m.from,
                      term |-> t, success |-> FALSE, matchIndex |-> 0]}
  <2>1. out \subseteq Message
    BY <1>2 DEF Message, AppendReply
  <2>2. Exchange(m, out)
    BY <1>3
  <2> HIDE DEF out
  <2>3. IsABag(net') /\ BagToSet(net') \subseteq Message
    BY <1>1, <2>1, <2>2, ReceiveStep
  <2>4. TypeOK'
    BY <1>1, <1>3, <2>3
       DEF TypeOK, timerVars, logVars, leaderVars, historyVars
  <2> QED
    BY <1>1, <1>3, <2>4 DEF NextIndexPositive, AppliedCovers, logVars, leaderVars
<1>4. CASE /\ StepDown(n, m.term, Nil)
           /\ leaderID' = [leaderID EXCEPT ![n] = m.from]
           /\ Replicate(m, n, t)
  <2>1. /\ currentTerm' \in [Node -> Term]
        /\ votedFor' \in [Node -> Node \union {Nil}]
        /\ state' \in [Node -> {"follower", "candidate", "leader"}]
        /\ electionTimer' \in [Node -> {"off", "armed", "late"}]
        /\ heartbeatTimer' \in [Node -> {"off", "armed"}]
        /\ started' \subseteq Node
        /\ \A p \in Node : state'[p] = "leader" => state[p] = "leader"
    BY <1>2, <1>4, StepDownType
  <2>2. leaderID' \in [Node -> Node \union {Nil}]
    BY <1>2, <1>4 DEF TypeOK
  <2>3. TypeOK' /\ AppliedCovers'
    BY <1>1, <1>2, <1>4, <2>1, <2>2, ReplicateType
       DEF TypeOK, leaderVars, historyVars
  <2> QED
    BY <1>1, <2>1, <2>3 DEF NextIndexPositive, leaderVars
<1>5. CASE /\ state' = [state EXCEPT ![n] = "follower"]
           /\ electionTimer' = [electionTimer EXCEPT ![n] = "armed"]
           /\ leaderID' = [leaderID EXCEPT ![n] = m.from]
           /\ Replicate(m, n, t)
           /\ UNCHANGED <<currentTerm, votedFor, heartbeatTimer, started>>
  <2>1. /\ state' \in [Node -> {"follower", "candidate", "leader"}]
        /\ electionTimer' \in [Node -> {"off", "armed", "late"}]
        /\ leaderID' \in [Node -> Node \union {Nil}]
        /\ \A p \in Node : state'[p] = "leader" => state[p] = "leader"
    BY <1>2, <1>5 DEF TypeOK
  <2>2. TypeOK' /\ AppliedCovers'
    BY <1>1, <1>2, <1>5, <2>1, ReplicateType DEF TypeOK, leaderVars, historyVars
  <2> QED
    BY <1>1, <2>1, <2>2 DEF NextIndexPositive, leaderVars
<1> QED
  BY <1>3, <1>4, <1>5 DEF HandleAppendEntries

\* Setting one next index to a positive value leaves the others alone.
LEMMA NextIndexStep ==
    ASSUME nextIndex \in [Node -> [Node -> Nat]],
           NEW n \in Node, NEW p \in Node, NEW i \in Nat, i >= 1,
           nextIndex' = [nextIndex EXCEPT ![n][p] = i]
    PROVE  /\ nextIndex' \in [Node -> [Node -> Nat]]
           /\ \A q, r \in Node : nextIndex'[q][r] = nextIndex[q][r]
                                \/ nextIndex'[q][r] >= 1
  OBVIOUS

\* handleAppendReply keeps the invariant.
LEMMA TypeInvAppendReply ==
    ASSUME TypeInv, NEW m, HandleAppendReply(m)
    PROVE  TypeInv'
<1> USE DEF TypeInv
<1> DEFINE n == m.to
           p == m.from
           lead == m.term <= currentTerm[n] /\ state[n] = "leader"
           back == BackOff(nextIndex[n][p])
           match == [matchIndex[n] EXCEPT ![p] = m.matchIndex]
<1>1. /\ InFlight(m)
      /\ UNCHANGED <<votesReceived, leaderID, log, historyVars>>
  BY DEF HandleAppendReply
<1>2. /\ m \in AppendReply /\ n \in Node /\ p \in Node /\ p # n
      /\ m.term \in Term /\ m.matchIndex \in Nat
  BY <1>1, MessageKinds DEF HandleAppendReply, TypeOK, InFlight, AppendReply
<1>3. ASSUME Exchange(m, {})
      PROVE  IsABag(net') /\ BagToSet(net') \subseteq Message
  BY <1>1, <1>3, ConsumeStep
<1>4. CASE /\ StepDown(n, m.term, Nil)
           /\ Exchange(m, {})
           /\ UNCHANGED <<leaderVars, commitIndex, applied>>
  <2>1. /\ currentTerm' \in [Node -> Term]
        /\ votedFor' \in [Node -> Node \union {Nil}]
        /\ state' \in [Node -> {"follower", "candidate", "leader"}]
        /\ electionTimer' \in [Node -> {"off", "armed", "late"}]
        /\ heartbeatTimer' \in [Node -> {"off", "armed"}]
        /\ started' \subseteq Node
        /\ \A q \in Node : state'[q] = "leader" => state[q] = "leader"
    BY <1>2, <1>4, StepDownType
  <2>2. TypeOK'
    BY <1>1, <1>3, <1>4, <2>1 DEF TypeOK, leaderVars, historyVars
  <2> QED
    BY <1>4, <2>1, <2>2 DEF NextIndexPositive, AppliedCovers, leaderVars
<1>5. CASE /\ Exchange(m, {})
           /\ UNCHANGED <<currentTerm, votedFor, state, timerVars, leaderVars,
                          commitIndex, applied>>
  <2>1. TypeOK'
    BY <1>1, <1>3, <1>5 DEF TypeOK, timerVars, leaderVars, historyVars
  <2> QED
    BY <1>5, <2>1 DEF NextIndexPositive, AppliedCovers, leaderVars
<1>6. CASE /\ lead
           /\ matchIndex' = [matchIndex EXCEPT ![n] = match]
           /\ nextIndex'  = [nextIndex EXCEPT ![n][p] = m.matchIndex + 1]
           /\ MaybeCommit(n, match)
           /\ Exchange(m, {})
           /\ UNCHANGED <<currentTerm, votedFor, state, timerVars>>
  <2> DEFINE ready == Committable(n, log[n], currentTerm[n], match,
                                  commitIndex[n])
             c     == IF ready = {} THEN commitIndex[n] ELSE Highest(ready)
             a     == ApplyUpTo(applied[n], log[n], c)
  <2>1. /\ log[n] \in Seq(Entry) /\ Len(log[n]) \in Nat
        /\ commitIndex[n] \in Nat /\ applied[n] \in Seq(Entry)
        /\ commitIndex[n] <= Len(applied[n])
    BY <1>2 DEF TypeOK, AppliedCovers
  <2>2. c \in Nat /\ (c <= Len(log[n]) \/ c <= Len(applied[n]))
    <3>1. ready \subseteq 0..Len(log[n])
      BY <2>1 DEF Committable
    <3> HIDE DEF ready
    <3>2. CASE ready = {}
      BY <2>1, <3>2
    <3>3. CASE ready # {}
      <4>1. Highest(ready) \in ready
        BY <2>1, <3>1, <3>3, HighestIn
      <4>2. c = Highest(ready)
        BY <3>3
      <4> HIDE DEF c
      <4> QED
        BY <2>1, <3>1, <4>1, <4>2
    <3> QED
      BY <3>2, <3>3
  <2>3. /\ commitIndex' = [commitIndex EXCEPT ![n] = c]
        /\ applied' = [applied EXCEPT ![n] = a]
    BY <1>6 DEF MaybeCommit
  <2> HIDE DEF c
  <2>4. a \in Seq(Entry) /\ c <= Len(a)
    BY <2>1, <2>2, ApplyUpToType
  <2> HIDE DEF a
  <2>5. match \in [Node -> Nat]
    BY <1>2 DEF TypeOK
  <2>6. matchIndex' \in [Node -> [Node -> Nat]]
    <3> HIDE DEF match
    <3> QED
      BY <1>6, <2>5 DEF TypeOK
  <2>7. /\ nextIndex' \in [Node -> [Node -> Nat]]
        /\ \A q, r \in Node : nextIndex'[q][r] = nextIndex[q][r]
                             \/ nextIndex'[q][r] >= 1
    <3> DEFINE i == m.matchIndex + 1
    <3>1. i \in Nat /\ i >= 1
      BY <1>2
    <3>2. nextIndex' = [nextIndex EXCEPT ![n][p] = i]
      BY <1>6
    <3>3. nextIndex \in [Node -> [Node -> Nat]]
      BY DEF TypeOK
    <3> HIDE DEF i, n, p
    <3> QED
      BY <1>2, <3>1, <3>2, <3>3, NextIndexStep
  <2>8. commitIndex' \in [Node -> Nat] /\ applied' \in [Node -> Seq(Entry)]
    BY <2>2, <2>3, <2>4 DEF TypeOK
  <2>9. TypeOK'
    BY <1>1, <1>3, <1>6, <2>6, <2>7, <2>8 DEF TypeOK, timerVars, historyVars
  <2>10. NextIndexPositive'
    BY <1>6, <2>7 DEF NextIndexPositive, Peers
  <2>11. AppliedCovers'
    BY <1>2, <2>3, <2>4 DEF TypeOK, AppliedCovers
  <2> QED
    BY <2>9, <2>10, <2>11
<1>7. CASE /\ lead
           /\ nextIndex' = [nextIndex EXCEPT ![n][p] = back]
           /\ Exchange(m, {AppendEntriesTo(n, p, currentTerm[n], log[n], back,
                                           commitIndex[n])})
           /\ UNCHANGED <<currentTerm, votedFor, state, timerVars, matchIndex,
                          commitIndex, applied>>
  <2> DEFINE out == {AppendEntriesTo(n, p, currentTerm[n], log[n], back,
                                     commitIndex[n])}
  <2>1. nextIndex[n][p] \in Nat /\ nextIndex[n][p] >= 1
    BY <1>2, <1>7 DEF TypeOK, NextIndexPositive, Peers
  <2>2. back \in Nat /\ back >= 1
    BY <2>1 DEF BackOff
  <2> HIDE DEF back
  <2>3. out \subseteq Message
    <3> DEFINE ae == AppendEntriesTo(n, p, currentTerm[n], log[n], back,
                                     commitIndex[n])
    <3>1. ae \in AppendEntries
      BY <1>2, <2>2, AppendEntriesToType DEF TypeOK
    <3>2. ae.from = n /\ ae.to = p
      BY DEF AppendEntriesTo
    <3> HIDE DEF ae
    <3>3. ae \in Message
      BY <1>2, <3>1, <3>2 DEF Message
    <3> QED
      BY <3>3 DEF ae
  <2>4. Exchange(m, out)
    BY <1>7
  <2> HIDE DEF out
  <2>5. IsABag(net') /\ BagToSet(net') \subseteq Message
    BY <1>1, <2>3, <2>4, ReceiveStep
  <2>6. /\ nextIndex' \in [Node -> [Node -> Nat]]
        /\ \A q, r \in Node : nextIndex'[q][r] = nextIndex[q][r]
                             \/ nextIndex'[q][r] >= 1
    BY <1>2, <1>7, <2>2, NextIndexStep DEF TypeOK
  <2>7. TypeOK'
    BY <1>1, <1>7, <2>5, <2>6 DEF TypeOK, timerVars, historyVars
  <2> QED
    BY <1>7, <2>6, <2>7 DEF NextIndexPositive, AppliedCovers, Peers
<1> HIDE DEF lead, back, match, n, p
<1> QED
  BY <1>4, <1>5, <1>6, <1>7 DEF HandleAppendReply, lead, back, match, n, p

\* Every step of the specification keeps the invariant.
LEMMA TypeInvNext ==
    ASSUME TypeInv, [Next]_vars
    PROVE  TypeInv'
<1>1. ASSUME NEW n \in Node, Start(n)  PROVE TypeInv'
  <2>1. UNCHANGED <<net, serverVars, logVars, leaderVars, heartbeatTimer,
                    historyVars>>
    BY <1>1 DEF Start
  <2>2. electionTimer' \in [Node -> {"off", "armed", "late"}] /\ started' \subseteq Node
    BY <1>1 DEF Start, TypeInv, TypeOK
  <2> QED
    BY <2>1, <2>2 DEF TypeInv, TypeOK, NextIndexPositive, AppliedCovers,
       serverVars, logVars, leaderVars, historyVars
<1>2. ASSUME NEW m, Lose(m)  PROVE TypeInv'
  <2>1. IsABag(net') /\ BagToSet(net') \subseteq Message
    BY <1>2, ConsumeStep DEF Lose, TypeInv
  <2>2. UNCHANGED <<serverVars, logVars, leaderVars, timerVars, historyVars>>
    BY <1>2 DEF Lose
  <2> QED
    BY <2>1, <2>2 DEF TypeInv, TypeOK, NextIndexPositive, AppliedCovers,
       serverVars, logVars, leaderVars, timerVars, historyVars
<1>3. CASE UNCHANGED vars
  BY <1>3 DEF TypeInv, TypeOK, NextIndexPositive, AppliedCovers, vars,
     serverVars, logVars, leaderVars, timerVars, historyVars
<1> QED
  BY <1>1, <1>2, <1>3, TypeInvElection, TypeInvHeartbeat, TypeInvPropose,
     TypeInvRequestVote, TypeInvRequestVoteReply, TypeInvAppendEntries,
     TypeInvAppendReply
     DEF Next, Receive

\* Type correctness of raft.go, for clusters, bounds and commands of any size.
THEOREM TypeCorrect == Spec => []TypeOK
<1>1. TypeInv => TypeOK
  BY DEF TypeInv
<1> QED
  BY <1>1, TypeInvInit, TypeInvNext, PTL DEF Spec

\* No sequence of replies makes sendAppendEntries slice the log below its
\* first entry.
THEOREM NextIndexStaysPositive == Spec => []NextIndexPositive
<1>1. TypeInv => NextIndexPositive
  BY DEF TypeInv
<1> QED
  BY <1>1, TypeInvInit, TypeInvNext, PTL DEF Spec

-----------------------------------------------------------------------------
(***************************************************************************)
(* What a step may do to the role of a node, to the record of elections    *)
(* and to the AppendEntries in flight.  The proofs below, and those about  *)
(* logs, use these facts instead of the actions.                           *)
(***************************************************************************)

\* Node q keeps its role and its term.
Stays(q) == /\ state'[q] = state[q]
            /\ currentTerm'[q] = currentTerm[q]
            /\ leaderID'[q] = leaderID[q]

\* q follows, in its term or a later one, and the leader it knows is the one
\* it knew or the sender of an AppendEntries of that term.
Follows(q) == /\ state'[q] = "follower"
              /\ currentTerm'[q] >= currentTerm[q]
              /\ \/ leaderID'[q] = leaderID[q]
                 \/ \E m \in BagToSet(net) : /\ m.type = "AppendEntries"
                                             /\ m.from = leaderID'[q]
                                             /\ m.term = currentTerm'[q]

\* q starts an election.
Runs(q) == /\ state'[q] = "candidate"
           /\ currentTerm'[q] = currentTerm[q] + 1
           /\ leaderID'[q] = leaderID[q]

\* q wins the election of its term.
Wins(q) == /\ state[q] = "candidate" /\ state'[q] = "leader"
           /\ currentTerm'[q] = currentTerm[q]
           /\ leaderID'[q] = q
           /\ leaders' = leaders \union {[term |-> currentTerm[q], node |-> q]}
           /\ log' = log

\* What a step does to roles and to the record of elections.
RolesMove == /\ \A q \in Node : Stays(q) \/ Follows(q) \/ Runs(q) \/ Wins(q)
             /\ leaders' = leaders \/ \E q \in Node : Wins(q)

\* Stepping down to the term of a message moves the roles.
LEMMA StepDownMoves ==
    ASSUME TypeInv, NEW n \in Node, NEW t \in Term, t >= currentTerm[n], NEW v,
           StepDown(n, t, v), UNCHANGED <<leaders, leaderID>>
    PROVE  RolesMove
<1>1. /\ state \in [Node -> {"follower", "candidate", "leader"}]
      /\ currentTerm \in [Node -> Term]
  BY DEF TypeInv, TypeOK
<1>2. \A q \in Node \ {n} : Stays(q)
  BY <1>1 DEF StepDown, Stays
<1>3. Follows(n)
  BY <1>1 DEF StepDown, Follows
<1> QED BY <1>2, <1>3 DEF RolesMove

\* The messages that change the role of their receiver.
LEMMA ReceiveMoves ==
    ASSUME TypeInv, NEW m \in BagToSet(net), Receive(m)
    PROVE  RolesMove
<1> DEFINE n == m.to
<1>1. n \in Node /\ m.from \in Node /\ m.term \in Term /\ currentTerm[n] \in Term
  BY MessageKinds DEF TypeInv, TypeOK
<1>2. /\ state \in [Node -> {"follower", "candidate", "leader"}]
      /\ currentTerm \in [Node -> Term] /\ Term \subseteq Nat
      /\ leaderID \in [Node -> Node \union {Nil}]
  BY TermFacts DEF TypeInv, TypeOK
<1>3. m.term \in Nat /\ currentTerm[n] \in Nat
  BY <1>1, TermFacts
<1> HIDE DEF n
<1>4. ASSUME UNCHANGED <<state, currentTerm, leaderID, leaders>>
      PROVE  RolesMove
  BY <1>4 DEF RolesMove, Stays
<1>5. ASSUME HandleRequestVote(m) PROVE RolesMove
  <2>1. UNCHANGED <<leaders, leaderID>> BY <1>5 DEF HandleRequestVote
  <2>2. CASE UNCHANGED <<currentTerm, state>> BY <1>4, <2>1, <2>2
  <2>3. ASSUME NEW v, m.term > currentTerm[n], StepDown(n, m.term, v)
        PROVE  RolesMove
    <3>1. m.term >= currentTerm[n] BY <1>3, <2>3
    <3> QED BY <1>1, <2>1, <2>3, <3>1, StepDownMoves
  <2> QED BY <1>5, <2>2, <2>3 DEF HandleRequestVote, n
<1>6. ASSUME HandleRequestVoteReply(m) PROVE RolesMove
  <2>1. CASE m.term > currentTerm[n] /\ StepDown(n, m.term, Nil)
              /\ UNCHANGED <<leaders, leaderID>>
    <3>1. m.term >= currentTerm[n] BY <1>3, <2>1
    <3> QED BY <1>1, <2>1, <3>1, StepDownMoves
  <2>2. CASE UNCHANGED <<state, currentTerm, leaderID, leaders>>
    BY <1>4, <2>2
  <2>3. CASE state[n] = "candidate" /\ BecomeLeader(n, m) /\ UNCHANGED currentTerm
              /\ UNCHANGED log
    <3>1. Wins(n) BY <1>1, <1>2, <2>3 DEF BecomeLeader, Wins
    <3>2. \A q \in Node \ {n} : Stays(q)
      BY <1>1, <1>2, <2>3 DEF BecomeLeader, Stays
    <3> QED BY <1>1, <3>1, <3>2 DEF RolesMove
  <2> QED
    BY <1>6, <2>1, <2>2, <2>3
       DEF HandleRequestVoteReply, CountsVote, serverVars, logVars, n
<1>7. ASSUME HandleAppendEntries(m) PROVE RolesMove
  <2>1. UNCHANGED leaders /\ m.type = "AppendEntries"
    BY <1>7 DEF HandleAppendEntries, historyVars
  <2>2. CASE UNCHANGED <<currentTerm, state, leaderID>> BY <1>4, <2>1, <2>2
  <2>3. CASE /\ state' = [state EXCEPT ![n] = "follower"]
             /\ leaderID' = [leaderID EXCEPT ![n] = m.from]
             /\ currentTerm' = [currentTerm EXCEPT ![n] = m.term]
             /\ m.term >= currentTerm[n]
    <3>1. Follows(n) BY <1>1, <1>2, <2>1, <2>3 DEF Follows
    <3>2. \A q \in Node \ {n} : Stays(q) BY <1>1, <1>2, <2>3 DEF Stays
    <3> QED BY <1>1, <2>1, <3>1, <3>2 DEF RolesMove
  <2>4. CASE m.term > currentTerm[n] /\ StepDown(n, m.term, Nil)
              /\ leaderID' = [leaderID EXCEPT ![n] = m.from]
    <3>1. m.term >= currentTerm[n] BY <1>3, <2>4
    <3> QED BY <2>3, <2>4, <3>1 DEF StepDown
  <2>5. CASE m.term = currentTerm[n] /\ UNCHANGED currentTerm
              /\ state' = [state EXCEPT ![n] = "follower"]
              /\ leaderID' = [leaderID EXCEPT ![n] = m.from]
    <3>1. m.term >= currentTerm[n] BY <1>3, <2>5
    <3>2. currentTerm' = [currentTerm EXCEPT ![n] = m.term]
      BY <1>1, <1>2, <2>5
    <3> QED BY <2>3, <2>5, <3>1, <3>2
  <2> QED BY <1>7, <2>2, <2>4, <2>5 DEF HandleAppendEntries, n
<1>8. ASSUME HandleAppendReply(m) PROVE RolesMove
  <2>1. UNCHANGED <<leaders, leaderID>>
    BY <1>8 DEF HandleAppendReply, historyVars
  <2>2. CASE UNCHANGED <<currentTerm, state>> BY <1>4, <2>1, <2>2
  <2>3. CASE m.term > currentTerm[n] /\ StepDown(n, m.term, Nil)
    <3>1. m.term >= currentTerm[n] BY <1>3, <2>3
    <3> QED BY <1>1, <2>1, <2>3, <3>1, StepDownMoves
  <2> QED BY <1>8, <2>2, <2>3 DEF HandleAppendReply, n
<1> QED BY <1>5, <1>6, <1>7, <1>8 DEF Receive

\* Every step moves the roles so.
LEMMA RoleStep ==
    ASSUME TypeInv, [Next]_vars
    PROVE  RolesMove
<1>1. ASSUME UNCHANGED <<state, currentTerm, leaderID, leaders>>
      PROVE  RolesMove
  BY <1>1 DEF RolesMove, Stays
<1>2. ASSUME NEW n \in Node, Start(n) \/ OnTickHeartbeat(n) PROVE RolesMove
  BY <1>1, <1>2 DEF Start, OnTickHeartbeat, serverVars, historyVars
<1>3. ASSUME NEW n \in Node, OnTickElection(n) PROVE RolesMove
  <2>1. /\ state \in [Node -> {"follower", "candidate", "leader"}]
        /\ currentTerm \in [Node -> Term]
    BY DEF TypeInv, TypeOK
  <2>2. Runs(n) BY <1>3, <2>1 DEF OnTickElection, Runs
  <2>3. \A q \in Node \ {n} : Stays(q) BY <1>3, <2>1 DEF OnTickElection, Stays
  <2>4. UNCHANGED leaders BY <1>3 DEF OnTickElection
  <2> QED BY <2>2, <2>3, <2>4 DEF RolesMove
<1>4. ASSUME NEW n \in Node, NEW c \in Command, Propose(n, c) PROVE RolesMove
  BY <1>1, <1>4 DEF Propose, serverVars, historyVars
<1>5. ASSUME NEW m, Lose(m) PROVE RolesMove
  BY <1>1, <1>5 DEF Lose, serverVars, historyVars
<1>6. CASE UNCHANGED vars
  BY <1>1, <1>6 DEF vars, serverVars, historyVars
<1> QED BY <1>2, <1>3, <1>4, <1>5, <1>6, ReceiveMoves DEF Next

\* Message m is what leader n of the present state sends to a peer.
SentBy(m, n) ==
    /\ state[n] = "leader"
    /\ \E p \in Peers(n) : \E next \in Nat \ {0} : \E c \in Nat :
          m = AppendEntriesTo(n, p, currentTerm[n], log[n], next, c)

\* The AppendEntries that a step puts into the network are sent by a node
\* that leads after the step, out of the log it has then.
LEMMA NewAppendEntries ==
    ASSUME TypeInv, [Next]_vars, NEW m \in BagToSet(net'),
           m \notin BagToSet(net), m.type = "AppendEntries"
    PROVE  \E n \in Node : SentBy(m, n)'
<1>1. IsABag(net) /\ TypeOK BY DEF TypeInv, TypeOK
<1>2. ASSUME NEW out, \E gone : NetStep(gone, out) PROVE m \in out
  BY <1>2 DEF NetStep
<1>3. ASSUME NEW n \in Node, NEW out,
             out = AppendEntriesToAll(n, currentTerm'[n], log'[n], nextIndex'[n],
                                      commitIndex[n]),
             state'[n] = "leader", m \in out
      PROVE  SentBy(m, n)'
  <2>1. PICK p \in Peers(n) :
          m = AppendEntriesTo(n, p, currentTerm'[n], log'[n], nextIndex'[n][p],
                              commitIndex[n])
    BY <1>3 DEF AppendEntriesToAll
  <2>2. commitIndex[n] \in Nat BY <1>1 DEF TypeOK
  <2>3. nextIndex'[n][p] \in Nat \ {0}
    <3>1. TypeInv' BY TypeInvNext
    <3>2. nextIndex'[n][p] \in Nat /\ nextIndex'[n][p] >= 1
      BY <1>3, <3>1 DEF TypeInv, TypeOK, NextIndexPositive, Peers
    <3> QED BY <3>2
  <2> DEFINE next == nextIndex'[n][p]
             c == commitIndex[n]
  <2>4. next \in Nat \ {0} /\ c \in Nat BY <2>2, <2>3
  <2>5. m = AppendEntriesTo(n, p, currentTerm'[n], log'[n], next, c) BY <2>1
  <2> HIDE DEF next, c
  <2> QED BY <1>3, <2>4, <2>5 DEF SentBy, AppendEntriesTo
<1>4. ASSUME NEW n \in Node, OnTickHeartbeat(n) PROVE SentBy(m, n)'
  <2> DEFINE out == AppendEntriesToAll(n, currentTerm[n], log[n], nextIndex[n],
                                       commitIndex[n])
  <2>1. Send(out) /\ state[n] = "leader"
        /\ UNCHANGED <<currentTerm, state, log, nextIndex>>
    BY <1>4 DEF OnTickHeartbeat, serverVars, logVars, leaderVars
  <2>2. out = AppendEntriesToAll(n, currentTerm'[n], log'[n], nextIndex'[n],
                                 commitIndex[n])
    BY <2>1
  <2> HIDE DEF out
  <2>3. m \in out BY <1>1, <1>2, <2>1, SendStep
  <2> QED BY <1>3, <2>1, <2>2, <2>3
<1>5. ASSUME NEW n \in Node, NEW c \in Command, Propose(n, c) PROVE SentBy(m, n)'
  <2> DEFINE l   == Append(log[n], [term |-> currentTerm[n], cmd |-> c])
             out == AppendEntriesToAll(n, currentTerm[n], l, nextIndex[n],
                                       commitIndex[n])
  <2>1. Send(out) /\ state[n] = "leader" /\ log' = [log EXCEPT ![n] = l]
        /\ UNCHANGED <<currentTerm, state, nextIndex>>
    BY <1>5 DEF Propose, serverVars, leaderVars
  <2>2. log'[n] = l BY <2>1, <1>1 DEF TypeOK
  <2>3. out = AppendEntriesToAll(n, currentTerm'[n], log'[n], nextIndex'[n],
                                 commitIndex[n])
    BY <2>1, <2>2
  <2> HIDE DEF out
  <2>4. m \in out BY <1>1, <1>2, <2>1, SendStep
  <2> QED BY <1>3, <2>1, <2>3, <2>4
<1>6. ASSUME NEW g \in BagToSet(net), HandleRequestVoteReply(g)
      PROVE  \E n \in Node : SentBy(m, n)'
  <2> DEFINE n  == g.to
             nx == [p \in Node |-> IF p = n THEN nextIndex[n][n]
                                            ELSE Len(log[n]) + 1]
             out == AppendEntriesToAll(n, currentTerm[n], log[n], nx,
                                       commitIndex[n])
  <2>1. n \in Node BY <1>1, MessageKinds DEF TypeOK
  <2>2. CASE Exchange(g, {})
    BY <1>1, <1>2, <2>2, ConsumeStep DEF InFlight
  <2>3. CASE BecomeLeader(n, g) /\ UNCHANGED <<currentTerm, log>>
    <3>1. /\ Exchange(g, out) /\ state'[n] = "leader" /\ nextIndex'[n] = nx
      BY <1>1, <2>1, <2>3 DEF BecomeLeader, TypeOK
    <3>2. out = AppendEntriesToAll(n, currentTerm'[n], log'[n], nextIndex'[n],
                                   commitIndex[n])
      BY <2>3, <3>1
    <3> HIDE DEF out
    <3>3. m \in out BY <1>1, <1>2, <3>1, ExchangeStep
    <3> QED BY <1>3, <2>1, <3>1, <3>2, <3>3
  <2> HIDE DEF n
  <2> QED BY <1>6, <2>2, <2>3 DEF HandleRequestVoteReply, logVars, n
<1>7. ASSUME NEW g \in BagToSet(net), HandleAppendReply(g)
      PROVE  \E n \in Node : SentBy(m, n)'
  <2> DEFINE n == g.to
             p == g.from
             back == BackOff(nextIndex[n][p])
             ae == AppendEntriesTo(n, p, currentTerm[n], log[n], back,
                                   commitIndex[n])
  <2>1. n \in Node /\ p \in Peers(n) BY <1>1, MessageKinds DEF TypeOK, Peers
  <2>2. CASE Exchange(g, {})
    BY <1>1, <1>2, <2>2, ConsumeStep DEF InFlight
  <2>3. CASE /\ state[n] = "leader" /\ Exchange(g, {ae})
             /\ UNCHANGED <<state, currentTerm, log>>
    <3>1. nextIndex[n][p] \in Nat /\ nextIndex[n][p] >= 1 /\ commitIndex[n] \in Nat
      BY <2>1, <2>3 DEF TypeInv, TypeOK, NextIndexPositive, Peers
    <3>2. back \in Nat \ {0} BY <3>1 DEF BackOff
    <3>3. m = ae
      <4> HIDE DEF ae
      <4> QED BY <1>1, <1>2, <2>3, ExchangeStep
    <3>4. SentBy(m, n)'
      <4> DEFINE c == commitIndex[n]
      <4>1. c \in Nat BY <3>1
      <4>2. m = AppendEntriesTo(n, p, currentTerm'[n], log'[n], back, c)
        BY <2>3, <3>3
      <4> HIDE DEF back, c, n, p
      <4> QED BY <2>1, <2>3, <3>2, <4>1, <4>2 DEF SentBy, AppendEntriesTo
    <3> QED BY <2>1, <3>4
  <2> HIDE DEF n, p, back, ae
  <2> QED BY <1>7, <2>2, <2>3 DEF HandleAppendReply, n, p, back, ae
<1>8. ASSUME \E out : /\ \E gone : NetStep(gone, out)
                      /\ \A x \in out : x.type # "AppendEntries"
      PROVE  FALSE
  BY <1>2, <1>8
<1>9. ASSUME NEW n \in Node, OnTickElection(n) PROVE FALSE
  <2> DEFINE out == {[type |-> "RequestVote", from |-> n, to |-> p,
                      term |-> currentTerm[n] + 1,
                      lastLogIndex |-> Len(log[n]),
                      lastLogTerm |-> LastTerm(log[n])] : p \in Peers(n)}
  <2>1. \A x \in out : x.type # "AppendEntries" OBVIOUS
  <2>2. Send(out) BY <1>9 DEF OnTickElection
  <2> HIDE DEF out
  <2> QED BY <1>1, <1>8, <2>1, <2>2, SendStep
<1>10. ASSUME NEW g \in BagToSet(net), NEW x, Exchange(g, {x}),
              x.type # "AppendEntries"
       PROVE  FALSE
  BY <1>1, <1>8, <1>10, ExchangeStep
<1>11. ASSUME NEW g \in BagToSet(net), HandleRequestVote(g) PROVE FALSE
  <2>1. \E t, ok : Exchange(g, {[type |-> "RequestVoteReply", from |-> g.to,
                                 to |-> g.from, term |-> t,
                                 voteGranted |-> ok]})
    BY <1>11, Zenon DEF HandleRequestVote
  <2> QED BY <1>10, <2>1
<1>12. ASSUME NEW g \in BagToSet(net), HandleAppendEntries(g) PROVE FALSE
  <2> DEFINE reply(t, ok, match) ==
               [type |-> "AppendReply", from |-> g.to, to |-> g.from,
                term |-> t, success |-> ok, matchIndex |-> match]
  <2>1. \E t, ok, match : Exchange(g, {reply(t, ok, match)})
    <3>1. ASSUME NEW t, Replicate(g, g.to, t)
          PROVE  \E ok, match : Exchange(g, {reply(t, ok, match)})
      BY <3>1, Zenon DEF Replicate
    <3>2. CASE Exchange(g, {reply(currentTerm[g.to], FALSE, 0)})
      BY <3>2, Zenon
    <3>3. CASE Replicate(g, g.to, currentTerm[g.to])
      BY <3>1, <3>3, Zenon
    <3> QED BY <1>12, <3>2, <3>3 DEF HandleAppendEntries
  <2> QED BY <1>10, <2>1
<1>13. ASSUME NEW g, Lose(g) PROVE FALSE
  BY <1>1, <1>2, <1>13, ConsumeStep DEF Lose
<1>14. ASSUME UNCHANGED net PROVE FALSE
  BY <1>14
<1> QED
  BY <1>4, <1>5, <1>6, <1>7, <1>9, <1>11, <1>12, <1>13, <1>14
     DEF Next, Receive, Start, vars

-----------------------------------------------------------------------------
(***************************************************************************)
(* Who is known as leader.                                                 *)
(***************************************************************************)
\* A step keeps what is known about leaders.
LEMMA KnownStep ==
    ASSUME TypeInv, LeaderKnown, [Next]_vars
    PROVE  LeaderKnown'
<1> DEFINE won(t, n) == [term |-> t, node |-> n]
<1>1. RolesMove BY RoleStep
<1>2. leaders \subseteq leaders' BY <1>1 DEF RolesMove, Wins
<1>3. TypeInv' BY TypeInvNext
<1>4. \A n \in Node : /\ currentTerm[n] \in Nat /\ currentTerm'[n] \in Nat
                      /\ currentTerm[n] \in Term /\ currentTerm'[n] \in Term
  BY <1>3, TermFacts DEF TypeInv, TypeOK
<1>5. \A l \in leaders : l.term \in Nat
  BY TermFacts DEF TypeInv, TypeOK
<1>6. ASSUME NEW n \in Node, state'[n] = "leader"
      PROVE  leaderID'[n] = n /\ won(currentTerm'[n], n) \in leaders'
  <2>1. CASE Stays(n)
    BY <1>2, <1>6, <2>1 DEF Stays, LeaderKnown
  <2>2. CASE Wins(n)
    BY <2>2 DEF Wins
  <2> QED BY <1>1, <1>6, <2>1, <2>2 DEF RolesMove, Follows, Runs
<1>7. ASSUME NEW n \in Node, leaderID'[n] # Nil
      PROVE  \E l \in leaders' : l.node = leaderID'[n] /\ l.term <= currentTerm'[n]
  <2>1. ASSUME leaderID'[n] = leaderID[n], currentTerm'[n] >= currentTerm[n]
        PROVE  \E l \in leaders' : l.node = leaderID'[n]
                                   /\ l.term <= currentTerm'[n]
    <3>1. PICK l \in leaders : l.node = leaderID[n] /\ l.term <= currentTerm[n]
      BY <1>7, <2>1 DEF LeaderKnown
    <3>2. l.term <= currentTerm'[n] BY <1>4, <1>5, <2>1, <3>1
    <3> QED BY <1>2, <2>1, <3>1, <3>2
  <2>2. CASE Stays(n) \/ Runs(n)
    BY <1>4, <2>1, <2>2 DEF Stays, Runs
  <2>3. CASE Follows(n)
    <3>1. ASSUME NEW m \in BagToSet(net), m.type = "AppendEntries",
                 m.from = leaderID'[n], m.term = currentTerm'[n]
          PROVE  \E l \in leaders' : l.node = leaderID'[n]
                                     /\ l.term <= currentTerm'[n]
      <4>1. won(m.term, m.from) \in leaders' BY <1>2, <3>1 DEF LeaderKnown
      <4>2. won(m.term, m.from).term = currentTerm'[n]
            /\ won(m.term, m.from).node = leaderID'[n]
        BY <3>1
      <4> HIDE DEF won
      <4> QED BY <1>4, <4>1, <4>2
    <3> QED BY <2>1, <2>3, <3>1 DEF Follows
  <2>4. CASE Wins(n)
    <3>1. won(currentTerm[n], n) \in leaders' BY <2>4 DEF Wins
    <3>2. won(currentTerm[n], n).term <= currentTerm'[n]
          /\ won(currentTerm[n], n).node = leaderID'[n]
      BY <1>4, <2>4 DEF Wins
    <3> HIDE DEF won
    <3> QED BY <3>1, <3>2
  <2> QED BY <1>1, <2>2, <2>3, <2>4 DEF RolesMove
<1>8. ASSUME NEW m \in BagToSet(net'), m.type = "AppendEntries"
      PROVE  won(m.term, m.from) \in leaders'
  <2>1. CASE m \in BagToSet(net) BY <1>2, <1>8, <2>1 DEF LeaderKnown
  <2>2. CASE m \notin BagToSet(net)
    <3>1. PICK n \in Node : SentBy(m, n)' BY <1>8, <2>2, NewAppendEntries
    <3>2. state'[n] = "leader" /\ m.term = currentTerm'[n] /\ m.from = n
      BY <3>1 DEF SentBy, AppendEntriesTo
    <3> QED BY <1>6, <3>2
  <2> QED BY <2>1, <2>2
<1> QED BY <1>6, <1>7, <1>8 DEF LeaderKnown

\* Every AppendEntries comes from the winner of its term, and the leader that
\* a node reports won an election of a term the node has reached: in clusters
\* of any size, even ones included.
THEOREM LeadersAreKnown == Spec => []LeaderKnown
<1>1. Init => TypeInv /\ LeaderKnown
  <2> SUFFICES ASSUME Init PROVE LeaderKnown
    BY TypeInvInit
  <2>1. BagToSet(net) = {}
    BY DEF Init, EmptyBag, SetToBag, BagToSet
  <2> QED BY <2>1 DEF Init, LeaderKnown
<1>2. TypeInv /\ LeaderKnown /\ [Next]_vars => (TypeInv /\ LeaderKnown)'
  BY TypeInvNext, KnownStep
<1> QED BY <1>1, <1>2, PTL DEF Spec

-----------------------------------------------------------------------------
(***************************************************************************)
(* Timers.  TimersArmed is inductive: whatever Start, a tick or a message  *)
(* does to a node's role, it leaves the timer of the new role armed.       *)
(***************************************************************************)
\* TimersArmed for node n.
TimersOf(n) ==
    \/ state[n] = "leader" /\ heartbeatTimer[n] = "armed"
    \/ state[n] # "leader" /\ electionTimer[n] = "armed"
    \/ state[n] = "follower" /\ n \notin started /\ currentTerm[n] = 0

\* The fields of node q that TimersOf reads.
KeepsTimers(q) ==
    /\ state'[q] = state[q] /\ currentTerm'[q] = currentTerm[q]
    /\ heartbeatTimer'[q] = heartbeatTimer[q]
    /\ electionTimer'[q] = electionTimer[q]
    /\ q \in started' <=> q \in started

\* A step that concerns one node.
LEMMA OneNodeTimers ==
    ASSUME TimersArmed, NEW n \in Node, TimersOf(n)',
           \A q \in Node \ {n} : KeepsTimers(q)
    PROVE  TimersArmed'
<1>1. \A q \in Node \ {n} : TimersOf(q)'
  BY DEF TimersArmed, TimersOf, KeepsTimers
<1> QED BY <1>1 DEF TimersArmed, TimersOf

\* stepDown arms the election timer and makes a follower.
LEMMA StepDownTimers ==
    ASSUME TypeOK, TimersArmed, NEW n \in Node, NEW t, NEW v, StepDown(n, t, v)
    PROVE  TimersArmed'
<1>1. TimersOf(n)' BY DEF StepDown, TypeOK, TimersOf
<1>2. \A q \in Node \ {n} : KeepsTimers(q) BY DEF StepDown, TypeOK, KeepsTimers
<1> QED BY <1>1, <1>2, OneNodeTimers

\* A step keeps the timers right.
LEMMA TimersStep ==
    ASSUME TypeInv, TimersArmed, [Next]_vars
    PROVE  TimersArmed'
<1>1. TypeOK BY DEF TypeInv
<1>2. ASSUME UNCHANGED <<state, currentTerm, electionTimer, heartbeatTimer,
                         started>>
      PROVE  TimersArmed'
  BY <1>2 DEF TimersArmed, TimersOf
<1>3. ASSUME NEW n \in Node, Start(n) PROVE TimersArmed'
  <2>1. TimersOf(n)'
    BY <1>1, <1>3 DEF Start, TypeOK, TimersOf, TimersArmed, serverVars
  <2>2. \A q \in Node \ {n} : KeepsTimers(q)
    BY <1>1, <1>3 DEF Start, TypeOK, KeepsTimers, serverVars
  <2> QED BY <2>1, <2>2, OneNodeTimers
<1>4. ASSUME NEW n \in Node, OnTickElection(n) PROVE TimersArmed'
  <2>1. TimersOf(n)' BY <1>1, <1>4 DEF OnTickElection, TypeOK, TimersOf
  <2>2. \A q \in Node \ {n} : KeepsTimers(q)
    BY <1>1, <1>4 DEF OnTickElection, TypeOK, KeepsTimers
  <2> QED BY <2>1, <2>2, OneNodeTimers
<1>5. ASSUME NEW n \in Node, OnTickHeartbeat(n) PROVE TimersArmed'
  BY <1>2, <1>5 DEF OnTickHeartbeat, serverVars, timerVars
<1>6. ASSUME NEW n \in Node, NEW c \in Command, Propose(n, c) PROVE TimersArmed'
  BY <1>2, <1>6 DEF Propose, serverVars, timerVars
<1>7. ASSUME NEW m, Lose(m) PROVE TimersArmed'
  BY <1>2, <1>7 DEF Lose, serverVars, timerVars
<1>8. ASSUME NEW m \in BagToSet(net), HandleRequestVote(m) PROVE TimersArmed'
  <2> DEFINE n == m.to
  <2>1. n \in Node /\ m.from \in Node /\ m.from # n
    BY <1>1, MessageKinds DEF TypeOK
  <2>2. CASE \E t, v : StepDown(n, t, v) BY <1>1, <2>1, <2>2, StepDownTimers
  <2>3. CASE /\ electionTimer' = [electionTimer EXCEPT ![n] = "armed"]
             /\ UNCHANGED <<currentTerm, state, heartbeatTimer, started>>
    <3>1. TimersOf(n)' BY <1>1, <2>1, <2>3 DEF TypeOK, TimersOf, TimersArmed
    <3>2. \A q \in Node \ {n} : KeepsTimers(q)
      BY <1>1, <2>1, <2>3 DEF TypeOK, KeepsTimers
    <3> QED BY <2>1, <3>1, <3>2, OneNodeTimers
  <2>4. CASE UNCHANGED <<currentTerm, state, timerVars>>
    BY <1>2, <2>4 DEF timerVars
  <2> HIDE DEF n
  <2> QED BY <1>8, <2>2, <2>3, <2>4 DEF HandleRequestVote, n
<1>9. ASSUME NEW m \in BagToSet(net), HandleRequestVoteReply(m) PROVE TimersArmed'
  <2> DEFINE n == m.to
  <2>1. n \in Node BY <1>1, MessageKinds DEF TypeOK
  <2>2. CASE StepDown(n, m.term, Nil) BY <1>1, <2>1, <2>2, StepDownTimers
  <2>3. CASE UNCHANGED <<currentTerm, state, timerVars>>
    BY <1>2, <2>3 DEF timerVars
  <2>4. CASE /\ state[n] = "candidate" /\ BecomeLeader(n, m)
             /\ UNCHANGED <<currentTerm, votedFor>>
    <3>1. TimersOf(n)'
      BY <1>1, <2>1, <2>4 DEF BecomeLeader, TypeOK, TimersOf, TimersArmed
    <3>2. \A q \in Node \ {n} : KeepsTimers(q)
      BY <1>1, <2>1, <2>4 DEF BecomeLeader, TypeOK, KeepsTimers
    <3> QED BY <2>1, <3>1, <3>2, OneNodeTimers
  <2> HIDE DEF n
  <2> QED
    BY <1>9, <2>2, <2>3, <2>4
       DEF HandleRequestVoteReply, CountsVote, serverVars, n
<1>10. ASSUME NEW m \in BagToSet(net), HandleAppendEntries(m) PROVE TimersArmed'
  <2> DEFINE n == m.to
  <2>1. n \in Node BY <1>1, MessageKinds DEF TypeOK
  <2>2. CASE StepDown(n, m.term, Nil) BY <1>1, <2>1, <2>2, StepDownTimers
  <2>3. CASE UNCHANGED <<currentTerm, state, timerVars>>
    BY <1>2, <2>3 DEF timerVars
  <2>4. CASE /\ state' = [state EXCEPT ![n] = "follower"]
             /\ electionTimer' = [electionTimer EXCEPT ![n] = "armed"]
             /\ UNCHANGED <<currentTerm, heartbeatTimer, started>>
    <3>1. TimersOf(n)' BY <1>1, <2>1, <2>4 DEF TypeOK, TimersOf
    <3>2. \A q \in Node \ {n} : KeepsTimers(q)
      BY <1>1, <2>1, <2>4 DEF TypeOK, KeepsTimers
    <3> QED BY <2>1, <3>1, <3>2, OneNodeTimers
  <2> HIDE DEF n
  <2> QED BY <1>10, <2>2, <2>3, <2>4 DEF HandleAppendEntries, n
<1>11. ASSUME NEW m \in BagToSet(net), HandleAppendReply(m) PROVE TimersArmed'
  <2>1. m.to \in Node BY <1>1, MessageKinds DEF TypeOK
  <2>2. CASE StepDown(m.to, m.term, Nil) BY <1>1, <2>1, <2>2, StepDownTimers
  <2>3. CASE UNCHANGED <<currentTerm, state, timerVars>>
    BY <1>2, <2>3 DEF timerVars
  <2> QED BY <1>11, <2>2, <2>3 DEF HandleAppendReply
<1>12. CASE UNCHANGED vars
  BY <1>2, <1>12 DEF vars, serverVars, timerVars
<1> QED
  BY <1>3, <1>4, <1>5, <1>6, <1>7, <1>8, <1>9, <1>10, <1>11, <1>12
     DEF Next, Receive

\* No node falls silent: a leader sends heartbeats, and everybody else who has
\* been started or has heard of a term will start an election unless he hears
\* more, also if Start runs after messages have made the node a leader.
THEOREM TimersStayArmed == Spec => []TimersArmed
<1>1. Init => TypeInv /\ TimersArmed
  BY TypeInvInit DEF Init, TimersArmed
<1>2. TypeInv /\ TimersArmed /\ [Next]_vars => (TypeInv /\ TimersArmed)'
  BY TypeInvNext, TimersStep
<1> QED BY <1>1, <1>2, PTL DEF Spec

-----------------------------------------------------------------------------
(***************************************************************************)
(* What a step may do to logs and commit indices.                          *)
(***************************************************************************)
\* Leader n appends a command of its term to its log.
Proposes(n) ==
    /\ state[n] = "leader" /\ UNCHANGED <<state, currentTerm, leaders>>
    /\ \E c \in Command :
          log' = [log EXCEPT ![n] =
                    Append(log[n], [term |-> currentTerm[n], cmd |-> c])]

\* The receiver of m, in the term of m, follows and adopts its entries.
Adopts(m) ==
    /\ m \in AppendEntries /\ Consistent(m, log[m.to])
    /\ state'[m.to] = "follower" /\ UNCHANGED leaders
    /\ currentTerm'[m.to] = m.term
    /\ log' = [log EXCEPT ![m.to] =
                 AppendNew(log[m.to], m.prevLogIndex, m.entries)]

LogsMove == \/ UNCHANGED log
            \/ \E n \in Node : Proposes(n)
            \/ \E m \in BagToSet(net) : Adopts(m)

\* A commit index moves on a follower, or on a leader to an entry of its term.
CommitsMove ==
    \A n \in Node :
        \/ commitIndex'[n] = commitIndex[n]
        \/ state'[n] = "follower"
        \/ /\ commitIndex'[n] \in 1..Len(log[n])
           /\ log[n][commitIndex'[n]].term = currentTerm[n]

\* maybeCommit stops at an entry of the leader's term.
LEMMA MaybeCommitOwnTerm ==
    ASSUME TypeInv, NEW n \in Node, NEW match, MaybeCommit(n, match)
    PROVE  /\ \A q \in Node \ {n} : commitIndex'[q] = commitIndex[q]
           /\ \/ commitIndex'[n] = commitIndex[n]
              \/ /\ commitIndex'[n] \in 1..Len(log[n])
                 /\ log[n][commitIndex'[n]].term = currentTerm[n]
<1> DEFINE ready == Committable(n, log[n], currentTerm[n], match, commitIndex[n])
           c == IF ready = {} THEN commitIndex[n] ELSE Highest(ready)
<1>1. /\ log[n] \in Seq(Entry) /\ Len(log[n]) \in Nat /\ commitIndex[n] \in Nat
      /\ commitIndex \in [Node -> Nat]
  BY DEF TypeInv, TypeOK
<1>2. commitIndex' = [commitIndex EXCEPT ![n] = c]
  BY DEF MaybeCommit
<1>3. \A i \in ready : i \in 1..Len(log[n]) /\ log[n][i].term = currentTerm[n]
  BY <1>1 DEF Committable
<1>4. ready # {} => Highest(ready) \in ready
  <2>1. ready \subseteq 0..Len(log[n]) BY <1>1, <1>3
  <2> HIDE DEF ready
  <2> QED BY <1>1, <2>1, HighestIn
<1>5. c = commitIndex[n] \/ (c \in 1..Len(log[n]) /\ log[n][c].term = currentTerm[n])
  <2>1. CASE ready = {} BY <2>1
  <2>2. CASE ready # {}
    <3>1. c = Highest(ready) BY <2>2
    <3> HIDE DEF c, ready
    <3> QED BY <1>3, <1>4, <2>2, <3>1
  <2> QED BY <2>1, <2>2
<1> HIDE DEF c
<1> QED BY <1>1, <1>2, <1>5

\* Every step moves logs and commit indices so.
LEMMA LogStep ==
    ASSUME TypeInv, [Next]_vars
    PROVE  LogsMove /\ CommitsMove
<1>1. TypeOK BY DEF TypeInv
<1>2. ASSUME UNCHANGED <<log, commitIndex>> PROVE LogsMove /\ CommitsMove
  BY <1>2 DEF LogsMove, CommitsMove
<1>3. ASSUME NEW n \in Node, NEW c \in Command, Propose(n, c)
      PROVE  LogsMove /\ CommitsMove
  <2>1. Proposes(n)
    BY <1>3 DEF Propose, Proposes, serverVars, historyVars
  <2>2. UNCHANGED commitIndex BY <1>3 DEF Propose
  <2> QED BY <2>1, <2>2 DEF LogsMove, CommitsMove
<1>4. ASSUME NEW n \in Node,
             Start(n) \/ OnTickElection(n) \/ OnTickHeartbeat(n)
      PROVE  LogsMove /\ CommitsMove
  BY <1>2, <1>4 DEF Start, OnTickElection, OnTickHeartbeat, logVars
<1>5. ASSUME NEW m, Lose(m) \/ HandleRequestVote(m) \/ HandleRequestVoteReply(m)
      PROVE  LogsMove /\ CommitsMove
  BY <1>2, <1>5 DEF Lose, HandleRequestVote, HandleRequestVoteReply, logVars
<1>6. ASSUME NEW m \in BagToSet(net), HandleAppendEntries(m)
      PROVE  LogsMove /\ CommitsMove
  <2> DEFINE n == m.to
  <2>1. /\ n \in Node /\ m \in AppendEntries /\ UNCHANGED leaders
    BY <1>1, <1>6, MessageKinds DEF TypeOK, HandleAppendEntries, historyVars
  <2>2. CASE UNCHANGED logVars BY <1>2, <2>2 DEF logVars
  <2>3. CASE /\ Replicate(m, n, currentTerm[n])
             /\ state' = [state EXCEPT ![n] = "follower"]
             /\ currentTerm'[n] = m.term
    <3>1. state'[n] = "follower" BY <1>1, <2>1, <2>3 DEF TypeOK
    <3>2. CASE UNCHANGED logVars BY <2>2, <3>2
    <3>3. CASE /\ Consistent(m, log[n])
               /\ log' = [log EXCEPT ![n] =
                            AppendNew(log[n], m.prevLogIndex, m.entries)]
               /\ \E c : commitIndex' = [commitIndex EXCEPT ![n] = c]
      <4>1. Adopts(m) BY <2>1, <2>3, <3>1, <3>3 DEF Adopts
      <4>2. \A q \in Node \ {n} : commitIndex'[q] = commitIndex[q]
        BY <1>1, <3>3 DEF TypeOK
      <4> QED BY <3>1, <4>1, <4>2 DEF LogsMove, CommitsMove
    <3> HIDE DEF n
    <3> QED BY <2>3, <3>2, <3>3, Zenon DEF Replicate
  <2>4. DOMAIN currentTerm = Node BY <1>1 DEF TypeOK
  <2> HIDE DEF n
  <2>5. \/ UNCHANGED logVars
        \/ /\ Replicate(m, n, currentTerm[n])
           /\ state' = [state EXCEPT ![n] = "follower"]
           /\ \/ currentTerm' = [currentTerm EXCEPT ![n] = m.term]
              \/ m.term = currentTerm[n] /\ UNCHANGED currentTerm
    BY <1>6, Zenon DEF HandleAppendEntries, StepDown, n
  <2> QED BY <2>1, <2>2, <2>3, <2>4, <2>5
<1>7. ASSUME NEW m \in BagToSet(net), HandleAppendReply(m)
      PROVE  LogsMove /\ CommitsMove
  <2>1. UNCHANGED log BY <1>7 DEF HandleAppendReply
  <2>2. m.to \in Node BY <1>1, MessageKinds DEF TypeOK
  <2>3. CASE UNCHANGED commitIndex BY <1>2, <2>1, <2>3
  <2>4. CASE \E match : MaybeCommit(m.to, match)
    BY <2>1, <2>2, <2>4, MaybeCommitOwnTerm DEF LogsMove, CommitsMove
  <2> QED BY <1>7, <2>3, <2>4 DEF HandleAppendReply
<1>8. CASE UNCHANGED vars
  BY <1>2, <1>8 DEF vars, logVars
<1> QED
  BY <1>3, <1>4, <1>5, <1>6, <1>7, <1>8 DEF Next, Receive

\* A leader never rewrites or shortens its log, and commits only up to an
\* entry of its own term (Propose, handleAppendEntries, maybeCommit).
THEOREM LeadersOnlyAppend == Spec => LeaderAppendOnly
<1> DEFINE Only(n) ==
             state[n] = "leader" /\ state'[n] = "leader" =>
               /\ Len(log'[n]) >= Len(log[n])
               /\ SubSeq(log'[n], 1, Len(log[n])) = log[n]
               /\ commitIndex'[n] # commitIndex[n] =>
                    log[n][commitIndex'[n]].term = currentTerm[n]
<1>1. ASSUME TypeInv, [Next]_vars PROVE \A n \in Node : Only(n)
  <2> SUFFICES ASSUME NEW n \in Node, state[n] = "leader", state'[n] = "leader"
               PROVE  /\ Len(log'[n]) >= Len(log[n])
                      /\ SubSeq(log'[n], 1, Len(log[n])) = log[n]
                      /\ commitIndex'[n] # commitIndex[n] =>
                           log[n][commitIndex'[n]].term = currentTerm[n]
    OBVIOUS
  <2>1. LogsMove /\ CommitsMove BY <1>1, LogStep
  <2>2. /\ log \in [Node -> Seq(Entry)] /\ log[n] \in Seq(Entry)
        /\ Len(log[n]) \in Nat /\ currentTerm[n] \in Term
    BY <1>1 DEF TypeInv, TypeOK
  <2>3. commitIndex'[n] # commitIndex[n] =>
          log[n][commitIndex'[n]].term = currentTerm[n]
    BY <2>1 DEF CommitsMove
  <2>4. \/ log'[n] = log[n]
        \/ \E e \in Entry : log'[n] = Append(log[n], e)
    <3>1. CASE UNCHANGED log BY <3>1
    <3>2. ASSUME NEW q \in Node, Proposes(q)
          PROVE  \/ log'[n] = log[n]
                 \/ \E e \in Entry : log'[n] = Append(log[n], e)
      <4>1. CASE q # n BY <2>2, <3>2, <4>1 DEF Proposes
      <4>2. CASE q = n
        <5>1. PICK c \in Command :
                log' = [log EXCEPT ![n] =
                          Append(log[n], [term |-> currentTerm[n], cmd |-> c])]
          BY <3>2, <4>2 DEF Proposes
        <5> DEFINE e == [term |-> currentTerm[n], cmd |-> c]
        <5>2. e \in Entry BY <2>2 DEF Entry
        <5>3. log'[n] = Append(log[n], e) BY <2>2, <5>1
        <5> QED BY <5>2, <5>3
      <4> QED BY <4>1, <4>2
    <3>3. ASSUME NEW m \in BagToSet(net), Adopts(m) PROVE log'[n] = log[n]
      <4>1. m.to # n BY <3>3 DEF Adopts
      <4> QED BY <2>2, <3>3, <4>1 DEF Adopts
    <3> QED BY <2>1, <3>1, <3>2, <3>3 DEF LogsMove
  <2>5. ASSUME NEW l \in Seq(Entry), Len(l) >= Len(log[n]),
               \A i \in 1..Len(log[n]) : l[i] = log[n][i]
        PROVE  SubSeq(l, 1, Len(log[n])) = log[n]
    <3>1. \A i \in 1..Len(log[n]) : l[i] \in Entry BY <2>2, <2>5
    <3>2. /\ SubSeq(l, 1, Len(log[n])) \in Seq(Entry)
          /\ Len(SubSeq(l, 1, Len(log[n]))) = Len(log[n])
          /\ \A i \in 1..Len(log[n]) : SubSeq(l, 1, Len(log[n]))[i] = log[n][i]
      BY <2>2, <2>5, <3>1, SubSeqProperties
    <3> DEFINE u == SubSeq(l, 1, Len(log[n]))
    <3>3. u \in Seq(Entry) /\ Len(u) = Len(log[n])
          /\ \A i \in 1..Len(u) : u[i] = log[n][i]
      BY <3>2
    <3> HIDE DEF u
    <3>4. u = log[n] BY <2>2, <3>3, SeqEqual
    <3> QED BY <3>4 DEF u
  <2>6. /\ log'[n] \in Seq(Entry) /\ Len(log'[n]) >= Len(log[n])
        /\ \A i \in 1..Len(log[n]) : log'[n][i] = log[n][i]
    <3>1. CASE log'[n] = log[n] BY <2>2, <3>1
    <3>2. ASSUME NEW e \in Entry, log'[n] = Append(log[n], e)
          PROVE  /\ log'[n] \in Seq(Entry) /\ Len(log'[n]) >= Len(log[n])
                 /\ \A i \in 1..Len(log[n]) : log'[n][i] = log[n][i]
      BY <2>2, <3>2, AppendProperties
    <3> QED BY <2>4, <3>1, <3>2
  <2> QED BY <2>3, <2>5, <2>6
<1>2. TypeInv /\ [Next]_vars => [\A n \in Node : Only(n)]_vars
  BY <1>1
<1> QED BY <1>2, TypeInvInit, TypeInvNext, PTL DEF Spec, LeaderAppendOnly
=============================================================================
