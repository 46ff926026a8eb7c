------------------------- MODULE RaftElectionProofs -------------------------
(***************************************************************************)
(* Election safety of Raft, for every odd cluster size: the votes that     *)
(* handleRequestVoteReply counts belong to distinct nodes, a node votes    *)
(* once per term, and two majorities of an odd cluster intersect.          *)
(* What follows from it for logs: they match, their terms rise, and what   *)
(* they share with the leader's they keep.                                 *)
(***************************************************************************)
EXTENDS RaftProofs

Ballot(v, t, c) == [voter |-> v, term |-> t, candidate |-> c]

IsRequest(m) == m.type = "RequestVote"
IsGrant(m) == m.type = "RequestVoteReply" /\ m.voteGranted = TRUE

\* A vote belongs to a term both its voter and its candidate have reached,
\* and in the voter's present term it is the vote recorded in votedFor.
BallotInv ==
    \A b \in ballots :
        /\ b.term <= currentTerm[b.voter]
        /\ b.term <= currentTerm[b.candidate]
        /\ b.term = currentTerm[b.voter] => votedFor[b.voter] = b.candidate

\* At most one request for a vote is in flight from a candidate to a peer in
\* a term, and once.
RequestInv ==
    \A m \in BagToSet(net) : IsRequest(m) =>
        /\ net[m] = 1
        /\ m.term <= currentTerm[m.from]
        /\ \A k \in BagToSet(net) :
             IsRequest(k) /\ k.from = m.from /\ k.to = m.to /\ k.term = m.term
                => k = m

\* A vote in flight has been cast, is in flight once, and the request it
\* answers is no longer in flight.
GrantInv ==
    \A g \in BagToSet(net) : IsGrant(g) =>
        /\ net[g] = 1
        /\ Ballot(g.from, g.term, g.to) \in ballots
        /\ \A m \in BagToSet(net) :
             IsRequest(m) => ~ /\ m.from = g.to
                               /\ m.to = g.from
                               /\ m.term = g.term

\* A candidate has neither a request to nor a vote from a node it has
\* already counted in flight.
CountInv ==
    \A n \in Node : state[n] = "candidate" =>
        \A m \in BagToSet(net) : m.term = currentTerm[n] =>
            /\ IsRequest(m) /\ m.from = n => m.to \notin voters[n]
            /\ IsGrant(m) /\ m.to = n => m.from \notin voters[n]

\* Every election on record was won with a majority of votes of its term.
LeaderInv ==
    \A l \in leaders : \E Q \in SUBSET Node :
        /\ Cardinality(Q) >= VoteMajority(l.node)
        /\ \A v \in Q : Ballot(v, l.term, l.node) \in ballots

ElectInv ==
    /\ TypeInv
    /\ BallotInv
    /\ OneVotePerTerm
    /\ RequestInv
    /\ GrantInv
    /\ VotesCounted
    /\ CountInv
    /\ LeaderInv

-----------------------------------------------------------------------------
\* The election invariant holds of new nodes.
LEMMA ElectInvInit == Init => ElectInv
<1> SUFFICES ASSUME Init PROVE ElectInv
  OBVIOUS
<1>1. BagToSet(net) = {}
  BY DEF Init, EmptyBag, SetToBag, BagToSet
<1>2. ballots = {} /\ leaders = {} /\ \A n \in Node : state[n] = "follower"
  BY DEF Init
<1> QED
  BY <1>1, <1>2, TypeInvInit
     DEF ElectInv, BallotInv, OneVotePerTerm, RequestInv, GrantInv,
         VotesCounted, CountInv, LeaderInv

\* What a step that neither casts nor counts a vote, and sends neither a
\* request for one nor a vote, does to the variables elections depend on.
QuietStep(gone, out) ==
    /\ UNCHANGED <<ballots, leaders, voters, votesReceived>>
    /\ NetStep(gone, out)
    /\ \A m \in out : ~IsRequest(m) /\ ~IsGrant(m)
    /\ \A n \in Node :
         \/ currentTerm'[n] > currentTerm[n] /\ state'[n] = "follower"
         \/ /\ currentTerm'[n] = currentTerm[n]
            /\ votedFor'[n] = votedFor[n]
            /\ state'[n] \in {state[n], "follower"}

\* Terms that occur in nodes, ballots and messages are natural numbers.
LEMMA NumberFacts ==
    ASSUME TypeInv, TypeInv'
    PROVE  /\ \A n \in Node : currentTerm[n] \in Nat /\ currentTerm'[n] \in Nat
           /\ \A b \in ballots : /\ b.voter \in Node /\ b.candidate \in Node
                                 /\ b.term \in Nat
           /\ \A m \in BagToSet(net) : m.from \in Node /\ m.term \in Nat
<1>1. \A n \in Node : currentTerm[n] \in Term /\ currentTerm'[n] \in Term
  BY DEF TypeInv, TypeOK
<1>2. \A b \in ballots : /\ b.voter \in Node /\ b.candidate \in Node
                        /\ b.term \in Term
  BY DEF TypeInv, TypeOK
<1>3. \A m \in BagToSet(net) : m.from \in Node /\ m.term \in Term
  BY MessageKinds DEF TypeInv, TypeOK
<1> QED
  BY <1>1, <1>2, <1>3, TermFacts

\* A step without a vote keeps the election invariant.
LEMMA QuietStepKeepsInv ==
    ASSUME ElectInv, TypeInv', NEW gone, NEW out, QuietStep(gone, out)
    PROVE  ElectInv'
<1> USE DEF ElectInv
<1>1. /\ \A n \in Node : currentTerm[n] \in Nat /\ currentTerm'[n] \in Nat
      /\ \A b \in ballots : /\ b.voter \in Node /\ b.candidate \in Node
                            /\ b.term \in Nat
      /\ \A m \in BagToSet(net) : m.from \in Node /\ m.term \in Nat
  BY NumberFacts
<1>2. UNCHANGED <<ballots, leaders, voters, votesReceived>>
  BY DEF QuietStep
<1>3. \A n \in Node :
        \/ currentTerm'[n] > currentTerm[n] /\ state'[n] = "follower"
        \/ /\ currentTerm'[n] = currentTerm[n]
           /\ votedFor'[n] = votedFor[n]
           /\ state'[n] \in {state[n], "follower"}
  BY DEF QuietStep
<1>4. \A m \in BagToSet(net') : IsRequest(m) \/ IsGrant(m) =>
        m \in BagToSet(net) /\ (net[m] = 1 => net'[m] = 1)
  BY DEF QuietStep, NetStep
<1>5. \A n \in Node : currentTerm[n] <= currentTerm'[n]
  BY <1>1, <1>3
<1>6. BallotInv'
  BY <1>1, <1>2, <1>3, <1>5 DEF BallotInv
<1>7. OneVotePerTerm'
  BY <1>2 DEF OneVotePerTerm
<1>8. RequestInv'
  <2> SUFFICES ASSUME NEW m \in BagToSet(net'), IsRequest(m)
               PROVE  /\ net'[m] = 1
                      /\ m.term <= currentTerm'[m.from]
                      /\ \A k \in BagToSet(net') :
                           IsRequest(k) /\ k.from = m.from /\ k.to = m.to
                               /\ k.term = m.term => k = m
    BY DEF RequestInv
  <2>1. m \in BagToSet(net) /\ net[m] = 1 /\ m.term <= currentTerm[m.from]
    BY <1>4 DEF RequestInv
  <2>2. m.term <= currentTerm'[m.from]
    BY <1>1, <1>5, <2>1
  <2> QED
    BY <1>4, <2>1, <2>2 DEF RequestInv
<1>9. GrantInv'
  BY <1>2, <1>4 DEF GrantInv
<1>10. VotesCounted'
  BY <1>2, <1>3 DEF VotesCounted
<1>11. CountInv'
  BY <1>2, <1>3, <1>4 DEF CountInv
<1>12. LeaderInv'
  BY <1>2 DEF LeaderInv
<1> QED
  BY <1>6, <1>7, <1>8, <1>9, <1>10, <1>11, <1>12

\* startElection: a fresh term, in which nobody has asked or voted for n.
LEMMA ElectInvElection ==
    ASSUME ElectInv, TypeInv', NEW n \in Node, OnTickElection(n)
    PROVE  ElectInv'
<1> USE DEF ElectInv
<1> DEFINE t   == currentTerm[n] + 1
           out == {[type |-> "RequestVote", from |-> n, to |-> p, term |-> t,
                    lastLogIndex |-> Len(log[n]),
                    lastLogTerm |-> LastTerm(log[n])] : p \in Peers(n)}
<1>1. /\ \A q \in Node : currentTerm[q] \in Nat /\ currentTerm'[q] \in Nat
      /\ \A b \in ballots : /\ b.voter \in Node /\ b.candidate \in Node
                            /\ b.term \in Nat
      /\ \A m \in BagToSet(net) : m.from \in Node /\ m.term \in Nat
  BY NumberFacts
<1>2. NetStep({}, out)
  BY SendStep DEF OnTickElection, TypeInv, TypeOK
<1>3. /\ ballots' = ballots \union {Ballot(n, t, n)}
      /\ UNCHANGED leaders
      /\ \A q \in Node : q # n => /\ currentTerm'[q] = currentTerm[q]
                                  /\ votedFor'[q] = votedFor[q]
                                  /\ state'[q] = state[q]
                                  /\ voters'[q] = voters[q]
                                  /\ votesReceived'[q] = votesReceived[q]
      /\ currentTerm'[n] = t /\ votedFor'[n] = n /\ state'[n] = "candidate"
      /\ voters'[n] = {n} /\ votesReceived'[n] = 1
  BY DEF OnTickElection, Ballot, TypeInv, TypeOK
<1>4. \A m \in out : /\ IsRequest(m) /\ ~IsGrant(m) /\ m.from = n
                      /\ m.term = t /\ m.to # n
                      /\ \A k \in out : k.to = m.to => k = m
  BY DEF IsRequest, IsGrant, Peers
<1> HIDE DEF out
<1>5. \A b \in ballots : b.voter = n \/ b.candidate = n => b.term < t
  BY <1>1 DEF BallotInv
<1>6. \A m \in BagToSet(net) : IsRequest(m) /\ m.from = n => m.term < t
  BY <1>1 DEF RequestInv
<1>7. \A g \in BagToSet(net) : IsGrant(g) /\ g.to = n => g.term < t
  <2> SUFFICES ASSUME NEW g \in BagToSet(net), IsGrant(g), g.to = n
               PROVE  g.term < t
    OBVIOUS
  <2>1. Ballot(g.from, g.term, g.to) \in ballots
    BY DEF GrantInv
  <2> QED
    BY <1>5, <2>1 DEF Ballot
<1>8. t \in Nat /\ \A q \in Node : currentTerm[q] <= currentTerm'[q]
  BY <1>1, <1>3
<1>9. /\ \A m \in out : m \notin BagToSet(net) /\ net'[m] = 1
      /\ \A m \in BagToSet(net') : m \notin out =>
           m \in BagToSet(net) /\ (net[m] = 1 => net'[m] = 1)
  <2>1. \A m \in out : m \notin BagToSet(net)
    BY <1>4, <1>6, <1>8
  <2> QED
    BY <1>2, <2>1 DEF NetStep
<1> HIDE DEF t
<1>10. BallotInv'
  <2> SUFFICES ASSUME NEW b \in ballots'
               PROVE  /\ b.term <= currentTerm'[b.voter]
                      /\ b.term <= currentTerm'[b.candidate]
                      /\ b.term = currentTerm'[b.voter] =>
                           votedFor'[b.voter] = b.candidate
    BY DEF BallotInv
  <2>1. CASE b \in ballots
    BY <1>1, <1>3, <1>5, <1>8, <2>1 DEF BallotInv
  <2>2. CASE b = Ballot(n, t, n)
    BY <1>3, <1>8, <2>2 DEF Ballot
  <2> QED
    BY <1>3, <2>1, <2>2
<1>11. OneVotePerTerm'
  <2>1. Ballot(n, t, n).voter = n /\ Ballot(n, t, n).term = t
    BY DEF Ballot
  <2>2. \A b \in ballots : ~(b.voter = n /\ b.term = t)
    BY <1>1, <1>5, <1>8
  <2> QED
    BY <1>3, <2>1, <2>2 DEF OneVotePerTerm
<1>12. RequestInv'
  <2> SUFFICES ASSUME NEW m \in BagToSet(net'), IsRequest(m)
               PROVE  /\ net'[m] = 1
                      /\ m.term <= currentTerm'[m.from]
                      /\ \A k \in BagToSet(net') :
                           IsRequest(k) /\ k.from = m.from /\ k.to = m.to
                               /\ k.term = m.term => k = m
    BY DEF RequestInv
  <2>1. CASE m \in out
    BY <1>1, <1>3, <1>4, <1>6, <1>8, <1>9, <2>1
  <2>2. CASE m \notin out
    <3>1. m \in BagToSet(net) /\ net[m] = 1 /\ m.term <= currentTerm[m.from]
      BY <1>9, <2>2 DEF RequestInv
    <3>2. m.term <= currentTerm'[m.from]
      BY <1>1, <1>8, <3>1
    <3>3. \A k \in out : ~(k.from = m.from /\ k.term = m.term)
      BY <1>1, <1>4, <1>6, <1>8, <3>1
    <3> QED
      BY <1>9, <2>2, <3>1, <3>2, <3>3 DEF RequestInv
  <2> QED
    BY <2>1, <2>2
<1>13. GrantInv'
  <2> SUFFICES ASSUME NEW g \in BagToSet(net'), IsGrant(g)
               PROVE  /\ net'[g] = 1
                      /\ Ballot(g.from, g.term, g.to) \in ballots'
                      /\ \A m \in BagToSet(net') :
                           IsRequest(m) => ~ /\ m.from = g.to
                                             /\ m.to = g.from
                                             /\ m.term = g.term
    BY DEF GrantInv
  <2>1. g \in BagToSet(net) /\ net'[g] = 1
    BY <1>4, <1>9 DEF GrantInv
  <2>2. \A m \in out : ~(m.from = g.to /\ m.term = g.term)
    BY <1>1, <1>4, <1>7, <1>8, <2>1
  <2> QED
    BY <1>3, <1>9, <2>1, <2>2 DEF GrantInv
<1>14. VotesCounted'
  <2>1. Cardinality({n}) = 1
    BY FS_Singleton
  <2>2. state'[n] # "follower" =>
          /\ votesReceived'[n] = Cardinality(voters'[n])
          /\ \A v \in voters'[n] : Ballot(v, currentTerm'[n], n) \in ballots'
    BY <1>3, <2>1
  <2> QED
    BY <1>3, <2>2 DEF VotesCounted, Ballot
<1>15. CountInv'
  <2> SUFFICES ASSUME NEW q \in Node, state'[q] = "candidate",
                      NEW m \in BagToSet(net'), m.term = currentTerm'[q]
               PROVE  /\ IsRequest(m) /\ m.from = q => m.to \notin voters'[q]
                      /\ IsGrant(m) /\ m.to = q => m.from \notin voters'[q]
    BY DEF CountInv
  <2>1. CASE q # n
    BY <1>3, <1>4, <1>9, <2>1 DEF CountInv
  <2>2. CASE q = n
    BY <1>1, <1>3, <1>4, <1>6, <1>7, <1>8, <1>9, <2>2
  <2> QED
    BY <2>1, <2>2
<1>16. LeaderInv'
  BY <1>3 DEF LeaderInv
<1> QED
  BY <1>10, <1>11, <1>12, <1>13, <1>14, <1>15, <1>16

\* handleRequestVote: the request m becomes a reply, and a vote if granted.
LEMMA ElectInvRequestVote ==
    ASSUME ElectInv, TypeInv', NEW r, HandleRequestVote(r)
    PROVE  ElectInv'
<1> USE DEF ElectInv
<1> DEFINE n     == r.to
           c     == r.from
           newer == r.term > currentTerm[n]
           t     == IF newer THEN r.term ELSE currentTerm[n]
           v     == IF newer THEN Nil ELSE votedFor[n]
           grant == Grants(r, n, t, v)
           reply == [type |-> "RequestVoteReply", from |-> n, to |-> c,
                     term |-> t, voteGranted |-> grant]
<1>1. /\ \A q \in Node : currentTerm[q] \in Nat /\ currentTerm'[q] \in Nat
      /\ \A b \in ballots : /\ b.voter \in Node /\ b.candidate \in Node
                            /\ b.term \in Nat
      /\ \A m \in BagToSet(net) : m.from \in Node /\ m.term \in Nat
  BY NumberFacts
<1>2. /\ r \in BagToSet(net) /\ IsRequest(r) /\ Exchange(r, {reply})
      /\ UNCHANGED <<votesReceived, voters, leaders>>
  BY DEF HandleRequestVote, InFlight, IsRequest
<1>3. /\ n \in Node /\ c \in Node /\ c # n /\ r.term \in Nat /\ t \in Nat
      /\ currentTerm[n] <= t /\ r.term <= t
  <2>1. r \in Message
    BY <1>2 DEF TypeInv, TypeOK
  <2>2. n \in Node /\ c \in Node /\ c # n
    BY <2>1, MessageKinds
  <2> QED
    BY <1>1, <1>2, <2>2
<1>4. grant => r.term = t /\ (newer \/ votedFor[n] \in {Nil, c})
  BY DEF Grants
<1>5. ballots' = IF grant THEN ballots \union {Ballot(n, t, c)} ELSE ballots
  BY DEF HandleRequestVote, Ballot
<1>6. /\ \A q \in Node : q # n => /\ currentTerm'[q] = currentTerm[q]
                                  /\ votedFor'[q] = votedFor[q]
                                  /\ state'[q] = state[q]
      /\ currentTerm'[n] = t
      /\ grant => votedFor'[n] = c
      /\ newer => state'[n] = "follower"
      /\ ~newer => state'[n] = state[n]
      /\ ~newer /\ ~grant => votedFor'[n] = votedFor[n]
  <2>1. /\ currentTerm \in [Node -> Term]
        /\ votedFor \in [Node -> Node \union {Nil}]
        /\ state \in [Node -> {"follower", "candidate", "leader"}]
    BY DEF TypeInv, TypeOK
  <2>2. \/ newer /\ StepDown(n, t, IF grant THEN c ELSE Nil)
        \/ /\ ~newer /\ grant
           /\ votedFor' = [votedFor EXCEPT ![n] = c]
           /\ UNCHANGED <<currentTerm, state>>
        \/ /\ ~newer /\ ~grant
           /\ UNCHANGED <<currentTerm, state, votedFor>>
    BY DEF HandleRequestVote
  <2>3. ~newer => t = currentTerm[n]
    OBVIOUS
  <2> HIDE DEF grant, newer, t, n, c
  <2> QED
    BY <1>3, <2>1, <2>2, <2>3 DEF StepDown
<1>7. /\ reply.type = "RequestVoteReply" /\ reply.from = n /\ reply.to = c
      /\ reply.term = t /\ (IsGrant(reply) => grant) /\ ~IsRequest(reply)
  BY DEF IsGrant, IsRequest
<1>8. newer => currentTerm[n] < t /\ r.term = t
  BY <1>1, <1>3
<1>9. ~newer => t = currentTerm[n]
  OBVIOUS
<1>10. Nil \notin Node
  BY NilNotNode
<1> HIDE DEF reply, grant, newer, t, n, c
<1>11. NetStep({r}, {reply})
  BY <1>2, ReceiveStep DEF TypeInv, InFlight
<1>12. net[r] = 1
  BY <1>2 DEF RequestInv
<1>13. IsGrant(reply) => reply \notin BagToSet(net)
  BY <1>2, <1>4, <1>7 DEF GrantInv, n, c
<1>14. \A m \in BagToSet(net') : IsRequest(m) =>
         m \in BagToSet(net) /\ m # r /\ (net[m] = 1 => net'[m] = 1)
  BY <1>7, <1>11, <1>12 DEF NetStep
<1>15. \A m \in BagToSet(net') : IsGrant(m) =>
         \/ m = reply /\ net'[m] = 1 /\ grant
         \/ m \in BagToSet(net) /\ (net[m] = 1 => net'[m] = 1)
  BY <1>7, <1>11, <1>13 DEF NetStep
<1>16. \A q \in Node : currentTerm[q] <= currentTerm'[q]
  BY <1>1, <1>3, <1>6
<1>17. r.term <= currentTerm[c]
  BY <1>2 DEF RequestInv, c
<1>18. ASSUME grant, NEW b \in ballots, b.voter = n, b.term = t
       PROVE  b.candidate = c
  <2>1. b.term <= currentTerm[n]
    BY <1>18 DEF BallotInv
  <2>2. ~newer
    BY <1>1, <1>3, <1>8, <1>18, <2>1
  <2>3. votedFor[n] = b.candidate /\ b.candidate \in Node
    BY <1>1, <1>9, <1>18, <2>2 DEF BallotInv
  <2> QED
    BY <1>4, <1>10, <1>18, <2>2, <2>3
<1>19. BallotInv'
  <2> SUFFICES ASSUME NEW b \in ballots'
               PROVE  /\ b.term <= currentTerm'[b.voter]
                      /\ b.term <= currentTerm'[b.candidate]
                      /\ b.term = currentTerm'[b.voter] =>
                           votedFor'[b.voter] = b.candidate
    BY DEF BallotInv
  <2>1. CASE b \in ballots
    <3>1. b.term <= currentTerm'[b.voter] /\ b.term <= currentTerm'[b.candidate]
      BY <1>1, <1>16, <2>1 DEF BallotInv
    <3>2. ASSUME b.term = currentTerm'[b.voter]
          PROVE  votedFor'[b.voter] = b.candidate
      <4>1. CASE b.voter # n
        BY <1>1, <1>6, <2>1, <3>2, <4>1 DEF BallotInv
      <4>2. CASE b.voter = n
        <5>1. ~newer
          BY <1>1, <1>6, <1>8, <2>1, <3>2, <4>2 DEF BallotInv
        <5>2. CASE grant
          BY <1>6, <1>18, <2>1, <3>2, <4>2, <5>2
        <5>3. CASE ~grant
          BY <1>6, <1>9, <2>1, <3>2, <4>2, <5>1, <5>3 DEF BallotInv
        <5> QED
          BY <5>2, <5>3
      <4> QED
        BY <4>1, <4>2
    <3> QED
      BY <3>1, <3>2
  <2>2. CASE b \notin ballots
    <3>1. grant /\ b = Ballot(n, t, c)
      BY <1>5, <2>2
    <3>2. t <= currentTerm'[c]
      BY <1>1, <1>3, <1>4, <1>16, <1>17, <3>1
    <3> QED
      BY <1>3, <1>6, <3>1, <3>2 DEF Ballot
  <2> QED
    BY <2>1, <2>2
<1>20. OneVotePerTerm'
  <2>1. /\ Ballot(n, t, c).voter = n /\ Ballot(n, t, c).term = t
        /\ Ballot(n, t, c).candidate = c
    BY DEF Ballot
  <2> QED
    BY <1>5, <1>18, <2>1 DEF OneVotePerTerm
<1>21. RequestInv'
  <2> SUFFICES ASSUME NEW m \in BagToSet(net'), IsRequest(m)
               PROVE  /\ net'[m] = 1
                      /\ m.term <= currentTerm'[m.from]
                      /\ \A k \in BagToSet(net') :
                           IsRequest(k) /\ k.from = m.from /\ k.to = m.to
                               /\ k.term = m.term => k = m
    BY DEF RequestInv
  <2>1. m \in BagToSet(net) /\ net'[m] = 1 /\ m.term <= currentTerm[m.from]
    BY <1>14 DEF RequestInv
  <2>2. m.term <= currentTerm'[m.from]
    BY <1>1, <1>16, <2>1
  <2> QED
    BY <1>14, <2>1, <2>2 DEF RequestInv
<1>22. GrantInv'
  <2> SUFFICES ASSUME NEW g \in BagToSet(net'), IsGrant(g)
               PROVE  /\ net'[g] = 1
                      /\ Ballot(g.from, g.term, g.to) \in ballots'
                      /\ \A m \in BagToSet(net') :
                           IsRequest(m) => ~ /\ m.from = g.to
                                             /\ m.to = g.from
                                             /\ m.term = g.term
    BY DEF GrantInv
  <2>1. CASE g = reply /\ net'[g] = 1 /\ grant
    <3>1. \A m \in BagToSet(net') : IsRequest(m) =>
            ~(m.from = c /\ m.to = n /\ m.term = t)
      BY <1>2, <1>4, <1>14, <2>1 DEF RequestInv, n, c
    <3> QED
      BY <1>5, <1>7, <2>1, <3>1
  <2>2. CASE g \in BagToSet(net) /\ (net[g] = 1 => net'[g] = 1)
    BY <1>5, <1>14, <2>2 DEF GrantInv
  <2> QED
    BY <1>15, <2>1, <2>2
<1>23. VotesCounted'
  <2>1. \A q \in Node : state'[q] # "follower" =>
          state'[q] = state[q] /\ currentTerm'[q] = currentTerm[q]
    BY <1>6, <1>9
  <2> QED
    BY <1>2, <1>5, <2>1 DEF VotesCounted
<1>24. CountInv'
  <2> SUFFICES ASSUME NEW q \in Node, state'[q] = "candidate",
                      NEW m \in BagToSet(net'), m.term = currentTerm'[q]
               PROVE  /\ IsRequest(m) /\ m.from = q => m.to \notin voters'[q]
                      /\ IsGrant(m) /\ m.to = q => m.from \notin voters'[q]
    BY DEF CountInv
  <2>1. state[q] = "candidate" /\ currentTerm'[q] = currentTerm[q]
    BY <1>6, <1>9
  <2>2. IsRequest(m) /\ m.from = q => m.to \notin voters'[q]
    BY <1>2, <1>14, <2>1 DEF CountInv
  <2>3. ASSUME IsGrant(m), m.to = q  PROVE m.from \notin voters'[q]
    <3>1. CASE m = reply /\ grant
      BY <1>2, <1>4, <1>7, <2>1, <2>3, <3>1 DEF CountInv, n, c
    <3>2. CASE m \in BagToSet(net)
      BY <1>2, <2>1, <2>3, <3>2 DEF CountInv
    <3> QED
      BY <1>15, <2>3, <3>1, <3>2
  <2> QED
    BY <2>2, <2>3
<1>25. LeaderInv'
  BY <1>2, <1>5 DEF LeaderInv
<1> QED
  BY <1>19, <1>20, <1>21, <1>22, <1>23, <1>24, <1>25

\* handleRequestVoteReply on a vote that counts: its sender was not counted
\* before, and the vote is no longer in flight.
LEMMA ElectInvCount ==
    ASSUME ElectInv, TypeInv', NEW g, HandleRequestVoteReply(g),
           ~(g.term > currentTerm[g.to]), CountsVote(g)
    PROVE  ElectInv'
<1> USE DEF ElectInv
<1> DEFINE n == g.to
<1>1. /\ g \in BagToSet(net) /\ IsGrant(g) /\ state[n] = "candidate"
      /\ g.term = currentTerm[n]
      /\ UNCHANGED <<currentTerm, votedFor, ballots>>
      /\ votesReceived' = [votesReceived EXCEPT ![n] = @ + 1]
      /\ voters' = [voters EXCEPT ![n] = @ \union {g.from}]
  <2>1. g \in Message /\ g.type = "RequestVoteReply"
    BY DEF HandleRequestVoteReply, InFlight, TypeInv, TypeOK
  <2>2. g.voteGranted \in BOOLEAN
    BY <2>1, MessageKinds DEF RequestVoteReply
  <2> QED
    BY <2>1, <2>2 DEF HandleRequestVoteReply, InFlight, IsGrant, CountsVote
<1>2. n \in Node /\ g.from \in Node
  BY <1>1, MessageKinds DEF TypeInv, TypeOK
<1>3. PICK out : /\ Exchange(g, out)
                 /\ \A m \in out : ~IsRequest(m) /\ ~IsGrant(m)
  <2>1. CASE Exchange(g, {})
    BY <2>1
  <2>2. CASE BecomeLeader(n, g)
    <3> DEFINE nx  == [p \in Node |-> IF p = n THEN nextIndex[n][n]
                                               ELSE Len(log[n]) + 1]
               out == AppendEntriesToAll(n, currentTerm[n], log[n], nx,
                                         commitIndex[n])
    <3>1. Exchange(g, out)
      BY <2>2 DEF BecomeLeader
    <3> HIDE DEF nx
    <3>2. \A m \in out : ~IsRequest(m) /\ ~IsGrant(m)
      BY DEF AppendEntriesToAll, AppendEntriesTo, IsRequest, IsGrant
    <3> QED
      BY <3>1, <3>2
  <2> QED
    BY <2>1, <2>2 DEF HandleRequestVoteReply
<1>4. NetStep({g}, out)
  BY <1>1, <1>3, ReceiveStep DEF TypeInv, InFlight
<1>5. net[g] = 1
  BY <1>1 DEF GrantInv
<1>6. \A m \in BagToSet(net') : IsRequest(m) \/ IsGrant(m) =>
        m \in BagToSet(net) /\ m # g /\ (net[m] = 1 => net'[m] = 1)
  BY <1>3, <1>4, <1>5 DEF NetStep
<1>7. \A q \in Node : q # n => /\ state'[q] = state[q]
                               /\ voters'[q] = voters[q]
                               /\ votesReceived'[q] = votesReceived[q]
  <2>1. state' = state \/ state' = [state EXCEPT ![n] = "leader"]
    BY DEF HandleRequestVoteReply, BecomeLeader
  <2>2. DOMAIN state = Node /\ DOMAIN voters = Node /\ DOMAIN votesReceived = Node
    BY DEF TypeInv, TypeOK
  <2> HIDE DEF n
  <2>3. \A q \in Node : q # n => state'[q] = state[q]
    BY <2>1, <2>2
  <2>4. \A q \in Node : q # n => voters'[q] = voters[q]
    BY <1>1, <2>2
  <2>5. \A q \in Node : q # n => votesReceived'[q] = votesReceived[q]
    BY <1>1, <2>2
  <2> QED
    BY <2>3, <2>4, <2>5
<1>8. /\ voters'[n] = voters[n] \union {g.from}
      /\ votesReceived'[n] = votesReceived[n] + 1
  <2>1. DOMAIN voters = Node /\ DOMAIN votesReceived = Node
    BY DEF TypeInv, TypeOK
  <2> HIDE DEF n
  <2> QED BY <1>1, <1>2, <2>1
<1>9. g.from \notin voters[n]
  BY <1>1, <1>2 DEF CountInv
<1>10. /\ IsFiniteSet(voters[n]) /\ voters[n] \subseteq Node
       /\ Cardinality(voters'[n]) = Cardinality(voters[n]) + 1
  <2>1. voters[n] \in SUBSET Node
    BY <1>2 DEF TypeInv, TypeOK
  <2>2. IsFiniteSet(voters[n])
    BY <2>1, FS_Subset, NodeFinite
  <2>3. Cardinality(voters[n] \union {g.from}) = Cardinality(voters[n]) + 1
    BY <1>9, <2>2, FS_AddElement
  <2> QED
    BY <1>8, <2>1, <2>2, <2>3
<1>11. Ballot(g.from, currentTerm[n], n) \in ballots
  BY <1>1 DEF GrantInv
<1>12. /\ votesReceived'[n] = Cardinality(voters'[n])
       /\ \A v \in voters'[n] : Ballot(v, currentTerm[n], n) \in ballots
  BY <1>1, <1>2, <1>8, <1>10, <1>11 DEF VotesCounted, Ballot
<1>13. leaders' = leaders
       \/ /\ leaders' = leaders \union {[term |-> currentTerm[n], node |-> n]}
          /\ votesReceived'[n] >= VoteMajority(n)
  BY <1>8 DEF HandleRequestVoteReply, BecomeLeader
<1>14. BallotInv' /\ OneVotePerTerm'
  BY <1>1 DEF BallotInv, OneVotePerTerm
<1> HIDE DEF n
<1>15. RequestInv'
  BY <1>1, <1>6 DEF RequestInv
<1>16. GrantInv'
  BY <1>1, <1>6 DEF GrantInv
<1>17. VotesCounted'
  BY <1>1, <1>7, <1>12 DEF VotesCounted, Ballot
<1>18. CountInv'
  <2> SUFFICES ASSUME NEW q \in Node, state'[q] = "candidate",
                      NEW m \in BagToSet(net'), m.term = currentTerm[q]
               PROVE  /\ IsRequest(m) /\ m.from = q => m.to \notin voters'[q]
                      /\ IsGrant(m) /\ m.to = q => m.from \notin voters'[q]
    BY <1>1 DEF CountInv
  <2>1. CASE q # n
    BY <1>6, <1>7, <2>1 DEF CountInv
  <2>2. CASE q = n
    <3>1. IsRequest(m) /\ m.from = n => m.to # g.from
      BY <1>1, <1>6, <2>2 DEF GrantInv, n
    <3>2. IsGrant(m) /\ m.to = n => m.from # g.from
      <4> SUFFICES ASSUME IsGrant(m), m.to = n, m.from = g.from
                   PROVE  FALSE
        OBVIOUS
      <4>1. m \in BagToSet(net) /\ m # g
        BY <1>6
      <4>2. m \in RequestVoteReply /\ g \in RequestVoteReply
        BY <1>1, <4>1, MessageKinds DEF TypeInv, TypeOK, IsGrant
      <4>3. m.voteGranted = TRUE /\ g.voteGranted = TRUE /\ g.to = m.to
        BY <1>1 DEF IsGrant, n
      <4> QED
        BY <1>1, <2>2, <4>1, <4>2, <4>3 DEF RequestVoteReply
    <3>3. /\ IsRequest(m) /\ m.from = n => m.to \notin voters[n]
          /\ IsGrant(m) /\ m.to = n => m.from \notin voters[n]
      BY <1>1, <1>2, <1>6, <2>2 DEF CountInv
    <3> QED
      BY <1>8, <2>2, <3>1, <3>2, <3>3
  <2> QED
    BY <2>1, <2>2
<1>19. LeaderInv'
  <2> SUFFICES ASSUME NEW l \in leaders'
               PROVE  \E Q \in SUBSET Node :
                        /\ Cardinality(Q) >= VoteMajority(l.node)
                        /\ \A v \in Q : Ballot(v, l.term, l.node) \in ballots
    BY <1>1 DEF LeaderInv
  <2>1. CASE l \in leaders
    BY <2>1 DEF LeaderInv
  <2>2. CASE l \notin leaders
    <3>1. /\ l = [term |-> currentTerm[n], node |-> n]
          /\ votesReceived'[n] >= VoteMajority(n)
      BY <1>13, <2>2
    <3>2. voters'[n] \in SUBSET Node
      BY <1>2, <1>8, <1>10
    <3> QED
      BY <1>12, <3>1, <3>2
  <2> QED
    BY <2>1, <2>2
<1> QED
  BY <1>14, <1>15, <1>16, <1>17, <1>18, <1>19

\* The handlers that neither cast nor count a vote take quiet steps.
LEMMA StepDownQuiet ==
    ASSUME TypeInv, NEW n \in Node, NEW t \in Term, t > currentTerm[n],
           StepDown(n, t, Nil)
    PROVE  \A q \in Node :
             \/ currentTerm'[q] > currentTerm[q] /\ state'[q] = "follower"
             \/ /\ currentTerm'[q] = currentTerm[q]
                /\ votedFor'[q] = votedFor[q]
                /\ state'[q] \in {state[q], "follower"}
  BY DEF StepDown, TypeInv, TypeOK

\* A reply of another term, or without a vote, is a step without a vote.
LEMMA IgnoredReplyQuiet ==
    ASSUME TypeInv, NEW g, HandleRequestVoteReply(g),
           g.term > currentTerm[g.to] \/ ~CountsVote(g)
    PROVE  QuietStep({g}, {})
<1>1. /\ Exchange(g, {}) /\ InFlight(g)
      /\ UNCHANGED <<votesReceived, voters, leaders, ballots>>
  BY DEF HandleRequestVoteReply, serverVars
<1>2. NetStep({g}, {})
  BY <1>1, ConsumeStep DEF TypeInv
<1>3. g.to \in Node /\ g.term \in Term
  BY <1>1, MessageKinds DEF TypeInv, TypeOK, InFlight
<1>4. CASE g.term > currentTerm[g.to] /\ StepDown(g.to, g.term, Nil)
  BY <1>1, <1>2, <1>3, <1>4, StepDownQuiet DEF QuietStep
<1>5. CASE UNCHANGED serverVars
  BY <1>1, <1>2, <1>5 DEF QuietStep, serverVars
<1> QED
  BY <1>4, <1>5 DEF HandleRequestVoteReply

\* handleAppendEntries is a step without a vote.
LEMMA AppendEntriesQuiet ==
    ASSUME TypeInv, NEW m, HandleAppendEntries(m)
    PROVE  \E out : QuietStep({m}, out)
<1>1. /\ InFlight(m)
      /\ UNCHANGED <<votesReceived, voters, leaders, ballots>>
  BY DEF HandleAppendEntries, historyVars
<1>2. PICK x : Exchange(m, {x}) /\ x.type = "AppendReply"
  <2> DEFINE reply(t, ok, match) ==
               [type |-> "AppendReply", from |-> m.to, to |-> m.from,
                term |-> t, success |-> ok, matchIndex |-> match]
  <2>1. \E t, ok, match : Exchange(m, {reply(t, ok, match)})
    <3>1. ASSUME NEW t, Replicate(m, m.to, t)
          PROVE  \E ok, match : Exchange(m, {reply(t, ok, match)})
      BY <3>1, Zenon DEF Replicate
    <3>2. CASE Exchange(m, {reply(currentTerm[m.to], FALSE, 0)})
      BY <3>2, Zenon
    <3>3. CASE Replicate(m, m.to, currentTerm[m.to])
      BY <3>1, <3>3, Zenon
    <3> QED
      BY <3>2, <3>3 DEF HandleAppendEntries
  <2>2. PICK t, ok, match : Exchange(m, {reply(t, ok, match)})
    BY <2>1, Zenon
  <2>3. reply(t, ok, match).type = "AppendReply"
    OBVIOUS
  <2> HIDE DEF reply
  <2> QED
    BY <2>2, <2>3, Zenon
<1>3. NetStep({m}, {x})
  BY <1>1, <1>2, ReceiveStep DEF TypeInv
<1>4. \A y \in {x} : ~IsRequest(y) /\ ~IsGrant(y)
  BY <1>2 DEF IsRequest, IsGrant
<1>5. m.to \in Node /\ m.term \in Term
  BY <1>1, MessageKinds DEF TypeInv, TypeOK, InFlight
<1>6. \A q \in Node :
        \/ currentTerm'[q] > currentTerm[q] /\ state'[q] = "follower"
        \/ /\ currentTerm'[q] = currentTerm[q]
           /\ votedFor'[q] = votedFor[q]
           /\ state'[q] \in {state[q], "follower"}
  <2>1. CASE m.term > currentTerm[m.to] /\ StepDown(m.to, m.term, Nil)
    BY <1>5, <2>1, StepDownQuiet
  <2>2. CASE /\ UNCHANGED <<currentTerm, votedFor>>
             /\ state' = [state EXCEPT ![m.to] = "follower"]
    BY <1>5, <2>2 DEF TypeInv, TypeOK
  <2>3. CASE UNCHANGED <<currentTerm, votedFor, state>>
    BY <2>3
  <2> QED
    BY <2>1, <2>2, <2>3 DEF HandleAppendEntries
<1>7. QuietStep({m}, {x})
  BY <1>1, <1>3, <1>4, <1>6 DEF QuietStep
<1> QED
  BY <1>7

\* handleAppendReply is a step without a vote.
LEMMA AppendReplyQuiet ==
    ASSUME TypeInv, NEW m, HandleAppendReply(m)
    PROVE  \E out : QuietStep({m}, out)
<1>1. /\ InFlight(m)
      /\ UNCHANGED <<votesReceived, voters, leaders, ballots>>
  BY DEF HandleAppendReply, historyVars
<1>2. PICK out : /\ Exchange(m, out)
                 /\ \A y \in out : ~IsRequest(y) /\ ~IsGrant(y)
  <2>1. CASE Exchange(m, {})
    BY <2>1
  <2>2. ASSUME NEW n, NEW p, NEW t, NEW l, NEW i, NEW c,
               Exchange(m, {AppendEntriesTo(n, p, t, l, i, c)})
        PROVE  \E out : /\ Exchange(m, out)
                        /\ \A y \in out : ~IsRequest(y) /\ ~IsGrant(y)
    <3> DEFINE out == {AppendEntriesTo(n, p, t, l, i, c)}
    <3>1. \A y \in out : ~IsRequest(y) /\ ~IsGrant(y)
      BY DEF AppendEntriesTo, IsRequest, IsGrant
    <3> QED
      BY <2>2, <3>1
  <2> QED
    BY <2>1, <2>2 DEF HandleAppendReply
<1>3. NetStep({m}, out)
  BY <1>1, <1>2, ReceiveStep DEF TypeInv
<1>4. m.to \in Node /\ m.term \in Term
  BY <1>1, MessageKinds DEF TypeInv, TypeOK, InFlight
<1>5. CASE m.term > currentTerm[m.to] /\ StepDown(m.to, m.term, Nil)
  <2>1. QuietStep({m}, out)
    BY <1>1, <1>2, <1>3, <1>4, <1>5, StepDownQuiet DEF QuietStep
  <2> QED
    BY <2>1
<1>6. CASE UNCHANGED <<currentTerm, votedFor, state>>
  <2>1. QuietStep({m}, out)
    BY <1>1, <1>2, <1>3, <1>6 DEF QuietStep
  <2> QED
    BY <2>1
<1> QED
  BY <1>5, <1>6 DEF HandleAppendReply

\* Start, heartbeats, proposals and losses are steps without a vote.
LEMMA LocalStepQuiet ==
    ASSUME TypeInv,
           \/ \E n \in Node : Start(n) \/ OnTickHeartbeat(n)
           \/ \E n \in Node, c \in Command : Propose(n, c)
           \/ \E m \in BagToSet(net) : Lose(m)
           \/ UNCHANGED vars
    PROVE  \E gone, out : QuietStep(gone, out)
<1>1. UNCHANGED <<serverVars, historyVars>>
  BY DEF Start, OnTickHeartbeat, Propose, Lose, vars
<1>2. ASSUME NEW gone, NEW out, NetStep(gone, out),
             \A y \in out : ~IsRequest(y) /\ ~IsGrant(y)
      PROVE  \E go, ou : QuietStep(go, ou)
  <2>1. QuietStep(gone, out)
    BY <1>1, <1>2 DEF QuietStep, serverVars, historyVars
  <2> QED
    BY <2>1
<1>3. ASSUME NEW n, NEW t, NEW l, NEW nx, NEW c,
             Send(AppendEntriesToAll(n, t, l, nx, c))
      PROVE  \E go, ou : QuietStep(go, ou)
  <2> DEFINE out == AppendEntriesToAll(n, t, l, nx, c)
  <2>1. \A y \in out : ~IsRequest(y) /\ ~IsGrant(y)
    BY DEF AppendEntriesToAll, AppendEntriesTo, IsRequest, IsGrant
  <2> HIDE DEF out
  <2>2. NetStep({}, out)
    BY <1>3, SendStep DEF TypeInv, TypeOK, out
  <2> QED
    BY <1>2, <2>1, <2>2
<1>4. ASSUME UNCHANGED net  PROVE \E go, ou : QuietStep(go, ou)
  <2> DEFINE out == {}
  <2>1. NetStep(out, out)
    BY <1>4 DEF NetStep, TypeInv, TypeOK
  <2> QED
    BY <1>2, <2>1
<1>5. ASSUME NEW m \in BagToSet(net), Lose(m)
      PROVE  \E go, ou : QuietStep(go, ou)
  <2>1. NetStep({m}, {})
    BY <1>5, ConsumeStep DEF Lose, TypeInv
  <2> QED
    BY <1>2, <2>1
<1> QED
  BY <1>3, <1>4, <1>5 DEF Start, OnTickHeartbeat, Propose, vars

\* Every step of the specification keeps the election invariant.
LEMMA ElectInvNext ==
    ASSUME ElectInv, [Next]_vars
    PROVE  ElectInv'
<1>1. TypeInv /\ TypeInv'
  BY TypeInvNext DEF ElectInv
<1>2. CASE \E n \in Node : OnTickElection(n)
  BY <1>1, <1>2, ElectInvElection
<1>3. CASE \E m \in BagToSet(net) : HandleRequestVote(m)
  BY <1>1, <1>3, ElectInvRequestVote
<1>4. CASE \E m \in BagToSet(net) : HandleRequestVoteReply(m)
  BY <1>1, <1>4, ElectInvCount, IgnoredReplyQuiet, QuietStepKeepsInv
<1>5. CASE \E m \in BagToSet(net) : HandleAppendEntries(m)
  BY <1>1, <1>5, AppendEntriesQuiet, QuietStepKeepsInv
<1>6. CASE \E m \in BagToSet(net) : HandleAppendReply(m)
  BY <1>1, <1>6, AppendReplyQuiet, QuietStepKeepsInv
<1>7. CASE \/ \E n \in Node : Start(n) \/ OnTickHeartbeat(n)
           \/ \E n \in Node, c \in Command : Propose(n, c)
           \/ \E m \in BagToSet(net) : Lose(m)
           \/ UNCHANGED vars
  BY <1>1, <1>7, LocalStepQuiet, QuietStepKeepsInv
<1> QED
  BY <1>2, <1>3, <1>4, <1>5, <1>6, <1>7 DEF Next, Receive

\* The vote counter of a candidate is the number of distinct nodes that voted
\* for it in its present term, and no node ever votes twice in a term.
THEOREM VotesAreCounted == Spec => [](VotesCounted /\ OneVotePerTerm)
<1>1. ElectInv => VotesCounted /\ OneVotePerTerm
  BY DEF ElectInv
<1> QED
  BY <1>1, ElectInvInit, ElectInvNext, PTL DEF Spec

-----------------------------------------------------------------------------
(***************************************************************************)
(* len(Peers())/2 + 1 is a majority of the cluster only when the cluster   *)
(* is odd.  In a cluster of 2k nodes it is k, and elections are not safe:  *)
(* the run on four nodes has the counterexample.                           *)
(***************************************************************************)
OddCluster == Cardinality(Node) % 2 = 1

\* In a cluster of odd size any two sets of VoteMajority nodes share a node.
LEMMA MajoritiesMeet ==
    ASSUME OddCluster, NEW n \in Node, NEW p \in Node,
           NEW Q \in SUBSET Node, NEW R \in SUBSET Node,
           Cardinality(Q) >= VoteMajority(n), Cardinality(R) >= VoteMajority(p)
    PROVE  Q \cap R # {}
<1>1. /\ Cardinality(Node) \in Nat
      /\ Cardinality(Q) \in Nat /\ Cardinality(R) \in Nat
  BY NodeFinite, FS_Subset, FS_CardinalityType
<1>2. /\ Cardinality(Peers(n)) = Cardinality(Node) - 1
      /\ Cardinality(Peers(p)) = Cardinality(Node) - 1
  BY NodeFinite, FS_RemoveElement DEF Peers
<1>3. 2 * ((Cardinality(Node) - 1) \div 2 + 1) > Cardinality(Node)
  BY <1>1 DEF OddCluster
<1>4. Cardinality(Q) + Cardinality(R) > Cardinality(Node)
  BY <1>1, <1>2, <1>3 DEF VoteMajority
<1> QED
  BY <1>4, NodeFinite, FS_MajoritiesIntersect

\* The election invariant implies that no term has two winners.
LEMMA InvElectionSafety ==
    ASSUME OddCluster, TypeOK, LeaderInv, OneVotePerTerm
    PROVE  ElectionSafety
<1> SUFFICES ASSUME NEW k \in leaders, NEW l \in leaders, k.term = l.term
             PROVE  k.node = l.node
  BY DEF ElectionSafety
<1>1. k.node \in Node /\ l.node \in Node
  BY DEF TypeOK
<1>2. PICK Q \in SUBSET Node :
        /\ Cardinality(Q) >= VoteMajority(k.node)
        /\ \A v \in Q : Ballot(v, k.term, k.node) \in ballots
  BY DEF LeaderInv
<1>3. PICK R \in SUBSET Node :
        /\ Cardinality(R) >= VoteMajority(l.node)
        /\ \A v \in R : Ballot(v, l.term, l.node) \in ballots
  BY DEF LeaderInv
<1>4. PICK v \in Q : v \in R
  BY <1>1, <1>2, <1>3, MajoritiesMeet
<1>5. Ballot(v, k.term, k.node) \in ballots /\ Ballot(v, k.term, l.node) \in ballots
  BY <1>2, <1>3, <1>4
<1> QED
  BY <1>5 DEF OneVotePerTerm, Ballot

\* In a cluster of odd size no term is ever won by two nodes, whatever is
\* lost, delayed or reordered and however late a cancelled timer ticks.
THEOREM ElectionIsSafe ==
    ASSUME OddCluster
    PROVE  Spec => []ElectionSafety
<1>1. ElectInv => ElectionSafety
  BY InvElectionSafety DEF ElectInv, TypeInv
<1> QED
  BY <1>1, ElectInvInit, ElectInvNext, PTL DEF Spec

-----------------------------------------------------------------------------
(***************************************************************************)
(* Log matching.  Logs and the AppendEntries in flight are taken apart     *)
(* into facts: an index, the entry there and the term of the entry before  *)
(* it.  Only a leader's Propose makes a fact, at an index above all others *)
(* of its term; handleAppendEntries and sendAppendEntries copy facts.  So  *)
(* index and term determine a fact, and two logs that agree at an index    *)
(* agree below it.                                                         *)
(***************************************************************************)
PrevTerm(l, i) == IF i = 1 THEN 0 ELSE l[i - 1].term

LogFacts(l) ==
    {[index |-> i, entry |-> l[i], prev |-> PrevTerm(l, i)] : i \in 1..Len(l)}

MsgFacts(m) ==
    {[index |-> m.prevLogIndex + i,
      entry |-> m.entries[i],
      prev  |-> IF i = 1 THEN m.prevLogTerm ELSE m.entries[i - 1].term]
        : i \in 1..Len(m.entries)}

Appends == {m \in BagToSet(net) : m.type = "AppendEntries"}

Facts == (UNION {LogFacts(log[n]) : n \in Node})
           \union (UNION {MsgFacts(m) : m \in Appends})

\* Index and term determine the entry and the term before it.
FactsUnique ==
    \A f, g \in Facts :
        f.index = g.index /\ f.entry.term = g.entry.term => f = g

\* Every entry was made in a term that somebody won.
FactsLed == \A f \in Facts : \E l \in leaders : l.term = f.entry.term

\* A leader has all entries of its term.
LeaderHas ==
    \A n \in Node : state[n] = "leader" =>
        \A f \in Facts : f.entry.term = currentTerm[n] => f.index <= Len(log[n])

\* A node has reached the terms it has won, and a candidate is past them.
WonBefore ==
    \A l \in leaders :
        /\ l.term <= currentTerm[l.node]
        /\ state[l.node] = "candidate" => l.term < currentTerm[l.node]

\* An AppendEntries from the start of the log has 0 for the term before it.
FromStart == \A m \in Appends : m.prevLogIndex = 0 => m.prevLogTerm = 0

LogInv == /\ ElectInv /\ LeaderKnown
          /\ FactsUnique /\ FactsLed /\ LeaderHas /\ WonBefore /\ FromStart

\* What sendAppendEntries sends are facts of the leader's log.
LEMMA SentFacts ==
    ASSUME NEW n, NEW p, NEW t, NEW l \in Seq(Entry), NEW next \in Nat \ {0},
           NEW c, NEW m, m = AppendEntriesTo(n, p, t, l, next, c)
    PROVE  /\ MsgFacts(m) \subseteq LogFacts(l)
           /\ m.prevLogIndex = 0 => m.prevLogTerm = 0
<1> DEFINE es == IF next \in 1..Len(l) THEN SubSeq(l, next, Len(l)) ELSE <<>>
<1>1. /\ m.prevLogIndex = next - 1
      /\ m.prevLogTerm = IF next - 1 \in 1..Len(l) THEN l[next - 1].term ELSE 0
      /\ m.entries = es
  BY DEF AppendEntriesTo
<1>2. m.prevLogIndex = 0 => m.prevLogTerm = 0 BY <1>1
<1>3. ASSUME NEW k \in 1..Len(es)
      PROVE  [index |-> m.prevLogIndex + k, entry |-> es[k],
              prev |-> IF k = 1 THEN m.prevLogTerm ELSE es[k - 1].term]
               \in LogFacts(l)
  <2>1. next \in 1..Len(l)
    <3>1. CASE next \notin 1..Len(l)
      <4>1. es = <<>> BY <3>1
      <4>2. Len(es) = 0 BY <4>1
      <4> HIDE DEF es
      <4> QED BY <4>2
    <3> QED BY <3>1
  <2>2. /\ Len(es) = Len(l) - next + 1
        /\ \A i \in 1..Len(es) : es[i] = l[next + i - 1]
    <3>1. es = SubSeq(l, next, Len(l)) BY <2>1
    <3>2. \A i \in next..Len(l) : l[i] \in Entry BY <2>1
    <3>3. Len(l) \in Int /\ next \in Int /\ next <= Len(l) BY <2>1
    <3> HIDE DEF es
    <3> QED BY <3>1, <3>2, <3>3, SubSeqProperties
  <2> HIDE DEF es
  <2> DEFINE i == next + k - 1
  <2>3. i \in 1..Len(l) /\ i = m.prevLogIndex + k /\ es[k] = l[i]
    BY <1>1, <2>1, <2>2
  <2>4. (IF k = 1 THEN m.prevLogTerm ELSE es[k - 1].term) = PrevTerm(l, i)
    <3>1. CASE k = 1
      <4>1. i = next BY <3>1
      <4>2. next - 1 \in 1..Len(l) <=> next # 1 BY <2>1
      <4> QED BY <1>1, <3>1, <4>1, <4>2 DEF PrevTerm
    <3>2. CASE k # 1
      <4>1. k - 1 \in 1..Len(es) /\ next + (k - 1) - 1 = i - 1 /\ i # 1
        BY <2>1, <2>2, <3>2
      <4>2. es[k - 1] = l[i - 1] BY <2>2, <4>1
      <4> QED BY <3>2, <4>1, <4>2 DEF PrevTerm
    <3> QED BY <3>1, <3>2
  <2> HIDE DEF i
  <2> QED BY <2>3, <2>4 DEF LogFacts
<1> HIDE DEF es
<1>4. MsgFacts(m) \subseteq LogFacts(l) BY <1>1, <1>3 DEF MsgFacts
<1> QED BY <1>2, <1>4

\* Propose adds one fact, above the end of the log.
LEMMA AppendFacts ==
    ASSUME NEW l \in Seq(Entry), NEW e \in Entry, NEW f \in LogFacts(Append(l, e)),
           f \notin LogFacts(l)
    PROVE  /\ f.index = Len(l) + 1 /\ f.entry = e
           /\ f.prev = PrevTerm(Append(l, e), Len(l) + 1)
<1> DEFINE r == Append(l, e)
<1>1. /\ Len(r) = Len(l) + 1 /\ r[Len(l) + 1] = e
      /\ \A i \in 1..Len(l) : r[i] = l[i]
      /\ Len(l) \in Nat
  BY AppendProperties
<1> HIDE DEF r
<1>2. PICK i \in 1..Len(r) :
        f = [index |-> i, entry |-> r[i], prev |-> PrevTerm(r, i)]
  BY DEF LogFacts, r
<1>3. i = Len(l) + 1
  <2>1. SUFFICES ASSUME i \in 1..Len(l) PROVE FALSE
    BY <1>1
  <2>2. i # 1 => i - 1 \in 1..Len(l) BY <2>1, <1>1
  <2>3. r[i] = l[i] /\ PrevTerm(r, i) = PrevTerm(l, i)
    BY <1>1, <2>1, <2>2 DEF PrevTerm
  <2> QED BY <1>2, <2>1, <2>3 DEF LogFacts
<1> QED BY <1>1, <1>2, <1>3 DEF r

\* r is the beginning of l up to index prev + first - 1, followed by es from
\* its entry first on; l and es agree in term on the entry before, if es has
\* one, and disagree on the entry first, if l has one.
Spliced(r, l, prev, es, first) ==
    /\ prev + first - 1 <= Len(l)
    /\ first # 1 => l[prev + first - 1].term = es[first - 1].term
    /\ prev + first <= Len(l) => l[prev + first].term # es[first].term
    /\ Len(r) = prev + Len(es)
    /\ \A i \in 1..prev + first - 1 : r[i] = l[i]
    /\ \A i \in prev + first..prev + Len(es) : r[i] = es[i - prev]

\* The append loop of handleAppendEntries keeps the log, or a beginning of it
\* that reaches the first entry of the message it does not have, followed by
\* the message's entries from there on.
LEMMA AppendNewShape ==
    ASSUME NEW l \in Seq(Entry), NEW es \in Seq(Entry), NEW prev \in Nat,
           prev <= Len(l), NEW r, r = AppendNew(l, prev, es)
    PROVE  r = l \/ \E first \in 1..Len(es) : Spliced(r, l, prev, es, first)
<1> DEFINE fresh == {i \in 1..Len(es) : \/ prev + i > Len(l)
                                       \/ l[prev + i].term # es[i].term}
           first == Lowest(fresh)
           old   == SubSeq(l, 1, prev + first - 1)
           new   == SubSeq(es, first, Len(es))
<1>1. CASE fresh = {}
  BY <1>1 DEF AppendNew
<1>2. CASE fresh # {}
  <2>1. first \in fresh /\ \A i \in fresh : first <= i
    <3>1. fresh \subseteq Nat OBVIOUS
    <3> HIDE DEF fresh
    <3> QED BY <1>2, <3>1, LowestIn
  <2>2. /\ first \in 1..Len(es) /\ prev + first - 1 <= Len(l)
        /\ first # 1 => l[prev + first - 1].term = es[first - 1].term
        /\ prev + first <= Len(l) => l[prev + first].term # es[first].term
    <3> HIDE DEF first
    <3>1. first \in 1..Len(es) /\ Len(l) \in Nat /\ Len(es) \in Nat
      BY <2>1
    <3>2. \A i \in 1..Len(es) : i < first => i \notin fresh
      <4> HIDE DEF fresh
      <4> QED BY <2>1, <3>1
    <3>3. \A i \in 1..Len(es) : i < first => /\ ~(prev + i > Len(l))
                                             /\ l[prev + i].term = es[i].term
      BY <3>2
    <3>4. first # 1 => first - 1 \in 1..Len(es) /\ first - 1 < first
                       /\ prev + (first - 1) = prev + first - 1
      BY <3>1
    <3>5. first # 1 => /\ ~(prev + (first - 1) > Len(l))
                       /\ l[prev + (first - 1)].term = es[first - 1].term
      BY <3>3, <3>4
    <3>6. prev + first > Len(l) \/ l[prev + first].term # es[first].term
      BY <2>1
    <3>7. prev + first - 1 <= Len(l)
      BY <3>1, <3>4, <3>5
    <3>8. prev + first <= Len(l) => ~(prev + first > Len(l)) BY <3>1
    <3> HIDE DEF fresh
    <3> QED BY <3>1, <3>4, <3>5, <3>6, <3>7, <3>8
  <2>3. r = old \o new BY <1>2 DEF AppendNew
  <2> HIDE DEF first, fresh
  <2>4. /\ old \in Seq(Entry) /\ Len(old) = prev + first - 1
        /\ \A i \in 1..prev + first - 1 : old[i] = l[i]
    <3>1. \A i \in 1..prev + first - 1 : l[i] \in Entry BY <2>2
    <3>2. prev + first - 1 \in Nat BY <2>2
    <3> QED BY <3>1, <3>2, SubSeqProperties
  <2>5. /\ new \in Seq(Entry) /\ Len(new) = Len(es) - first + 1
        /\ \A i \in 1..Len(new) : new[i] = es[first + i - 1]
    <3>1. \A i \in first..Len(es) : es[i] \in Entry BY <2>2
    <3>2. first \in Int /\ Len(es) \in Int /\ first <= Len(es) BY <2>2
    <3> QED BY <3>1, <3>2, SubSeqProperties
  <2> HIDE DEF old, new
  <2>6. /\ Len(r) = Len(old) + Len(new)
        /\ \A i \in 1..Len(old) + Len(new) :
              r[i] = IF i <= Len(old) THEN old[i] ELSE new[i - Len(old)]
    <3>1. old \in Seq(Entry) /\ new \in Seq(Entry) BY <2>4, <2>5
    <3>2. /\ Len(old \o new) = Len(old) + Len(new)
          /\ \A i \in 1..Len(old) + Len(new) :
                (old \o new)[i] = IF i <= Len(old) THEN old[i] ELSE new[i - Len(old)]
      BY <3>1, ConcatProperties
    <3> QED BY <2>3, <3>2
  <2>7. Len(r) = prev + Len(es) BY <2>2, <2>4, <2>5, <2>6
  <2>8. ASSUME NEW i \in 1..prev + first - 1 PROVE r[i] = l[i]
    <3>1. i \in 1..Len(old) + Len(new) /\ i <= Len(old)
      BY <2>2, <2>4, <2>5
    <3> QED BY <2>4, <2>6, <3>1
  <2>9. ASSUME NEW i \in prev + first..prev + Len(es) PROVE r[i] = es[i - prev]
    <3>1. /\ i \in 1..Len(old) + Len(new) /\ ~(i <= Len(old))
          /\ i - Len(old) \in 1..Len(new)
          /\ first + (i - Len(old)) - 1 = i - prev
      BY <2>2, <2>4, <2>5
    <3>2. r[i] = new[i - Len(old)] BY <2>6, <3>1
    <3>3. new[i - Len(old)] = es[first + (i - Len(old)) - 1] BY <2>5, <3>1
    <3> QED BY <3>1, <3>2, <3>3
  <2>10. Spliced(r, l, prev, es, first)
    BY <2>2, <2>7, <2>8, <2>9 DEF Spliced
  <2> QED BY <2>2, <2>10
<1> QED BY <1>1, <1>2

\* A log that has adopted the entries of m has facts of its own and of m: the
\* consistency check joins the two.
LEMMA AdoptedFacts ==
    ASSUME NEW l \in Seq(Entry), NEW m \in AppendEntries, Consistent(m, l),
           m.prevLogIndex = 0 => m.prevLogTerm = 0
    PROVE  LogFacts(AppendNew(l, m.prevLogIndex, m.entries))
             \subseteq LogFacts(l) \union MsgFacts(m)
<1> DEFINE prev == m.prevLogIndex
           es == m.entries
           r == AppendNew(l, prev, es)
<1>1. /\ prev \in Nat /\ es \in Seq(Entry) /\ Len(l) \in Nat /\ Len(es) \in Nat
      /\ prev <= Len(l) /\ (prev > 0 => l[prev].term = m.prevLogTerm)
  BY DEF AppendEntries, Consistent
<1>2. CASE r = l BY <1>2
<1>3. ASSUME NEW first \in 1..Len(es), Spliced(r, l, prev, es, first)
      PROVE  LogFacts(r) \subseteq LogFacts(l) \union MsgFacts(m)
  <2> HIDE DEF r
  <2> USE DEF Spliced
  <2> SUFFICES ASSUME NEW f \in LogFacts(r)
               PROVE  f \in LogFacts(l) \union MsgFacts(m)
    OBVIOUS
  <2>1. PICK i \in 1..Len(r) :
          f = [index |-> i, entry |-> r[i], prev |-> PrevTerm(r, i)]
    BY DEF LogFacts
  <2>2. CASE i <= prev + first - 1
    <3>1. i \in 1..Len(l) /\ i \in 1..prev + first - 1 BY <1>1, <1>3, <2>2
    <3>2. i # 1 => i - 1 \in 1..prev + first - 1 BY <1>1, <3>1
    <3>3. r[i] = l[i] /\ PrevTerm(r, i) = PrevTerm(l, i)
      BY <1>3, <3>1, <3>2 DEF PrevTerm
    <3> QED BY <2>1, <3>1, <3>3 DEF LogFacts
  <2>3. CASE i > prev + first - 1
    <3> DEFINE k == i - prev
    <3>1. /\ k \in 1..Len(es) /\ i \in prev + first..prev + Len(es)
          /\ i = prev + k /\ r[i] = es[k] /\ k >= first
      <4>1. /\ Len(r) = prev + Len(es) /\ first \in Nat /\ first >= 1
            /\ i \in Nat /\ i <= Len(r)
        BY <1>1, <1>3
      <4>2. i \in prev + first..prev + Len(es)
        <5> HIDE DEF prev, es
        <5> QED BY <1>1, <2>3, <4>1
      <4>3. r[i] = es[i - prev] BY <1>3, <4>2
      <4>4. i - prev \in 1..Len(es) /\ i = prev + (i - prev) /\ i - prev >= first
        <5> HIDE DEF prev, es
        <5> QED BY <1>1, <4>1, <4>2
      <4> QED BY <4>2, <4>3, <4>4
    <3>2. PrevTerm(r, i) = IF k = 1 THEN m.prevLogTerm ELSE es[k - 1].term
      <4>1. CASE i = 1
        <5>1. prev = 0 /\ k = 1 BY <1>1, <3>1, <4>1
        <5> QED BY <4>1, <5>1 DEF PrevTerm
      <4>2. CASE i # 1 /\ k = first
        <5>1. i - 1 = prev + first - 1 /\ i - 1 \in 1..prev + first - 1
          <6>1. i \in Nat /\ i >= 1 /\ first \in Nat BY <1>1, <1>3
          <6>2. i = prev + first BY <3>1, <4>2
          <6> HIDE DEF prev, es, k
          <6> QED BY <1>1, <4>2, <6>1, <6>2
        <5>2. r[i - 1] = l[prev + first - 1] BY <1>3, <5>1
        <5>3. CASE first = 1
          <6>1. l[prev + first - 1].term = m.prevLogTerm
            BY <1>1, <5>1, <5>3
          <6> QED BY <4>2, <5>2, <5>3, <6>1 DEF PrevTerm
        <5>4. CASE first # 1
          <6>1. l[prev + first - 1].term = es[k - 1].term BY <1>3, <4>2, <5>4
          <6> QED BY <4>2, <5>2, <5>4, <6>1 DEF PrevTerm
        <5> QED BY <5>3, <5>4
      <4>3. CASE i # 1 /\ k # first
        <5>1. /\ i - 1 \in prev + first..prev + Len(es)
              /\ (i - 1) - prev = k - 1 /\ k # 1
          <6>1. /\ i \in Nat /\ prev \in Nat /\ Len(es) \in Nat
                /\ first \in Nat /\ first >= 1 /\ k \in Nat /\ k > first
            <7> HIDE DEF k, prev, es
            <7>1. first \in 1..Len(es) /\ k \in 1..Len(es) /\ k >= first
              BY <1>3, <3>1
            <7>2. i = prev + k /\ k # first BY <3>1, <4>3
            <7> QED BY <1>1, <7>1, <7>2
          <6>2. i = prev + k /\ i <= prev + Len(es) BY <3>1, <6>1
          <6> HIDE DEF k, prev, es
          <6> QED BY <6>1, <6>2
        <5>2. r[i - 1] = es[k - 1] BY <1>3, <5>1
        <5> QED BY <4>3, <5>1, <5>2 DEF PrevTerm
      <4> QED BY <4>1, <4>2, <4>3
    <3> HIDE DEF k
    <3> QED BY <2>1, <3>1, <3>2 DEF MsgFacts
  <2> QED BY <1>1, <1>3, <2>2, <2>3
<1>4. r = l \/ \E first \in 1..Len(es) : Spliced(r, l, prev, es, first)
  <2>1. r = AppendNew(l, prev, es) OBVIOUS
  <2> HIDE DEF r, prev, es
  <2> QED BY <1>1, <2>1, AppendNewShape
<1> QED BY <1>2, <1>3, <1>4

\* A step makes no fact, or n makes one by proposing a command.
FactMade(n, new) ==
    /\ Proposes(n) /\ Len(log'[n]) = Len(log[n]) + 1
    /\ new.index = Len(log[n]) + 1 /\ new.entry.term = currentTerm[n]
    /\ Facts' \subseteq Facts \union {new}

\* Facts after a step belong to a log, or to a message that was in flight.
LEMMA FactsFrom ==
    ASSUME TypeInv, FromStart, [Next]_vars
    PROVE  /\ \A f \in Facts' : f \in Facts \/ \E n \in Node : f \in LogFacts(log'[n])
           /\ \A m \in Appends' : m \in Appends \/ \E n \in Node :
                /\ state'[n] = "leader" /\ m.term = currentTerm'[n]
                /\ MsgFacts(m) \subseteq LogFacts(log'[n])
           /\ FromStart'
<1>1. TypeInv' BY TypeInvNext
<1>2. ASSUME NEW m \in Appends', m \notin Appends
      PROVE  /\ \E n \in Node : /\ state'[n] = "leader" /\ m.term = currentTerm'[n]
                                /\ MsgFacts(m) \subseteq LogFacts(log'[n])
             /\ m.prevLogIndex = 0 => m.prevLogTerm = 0
  <2>1. m \in BagToSet(net') /\ m \notin BagToSet(net) /\ m.type = "AppendEntries"
    BY <1>2 DEF Appends
  <2>2. PICK n \in Node : SentBy(m, n)' BY <2>1, NewAppendEntries
  <2>3. PICK p \in Peers(n) : \E next \in Nat \ {0} : \E c \in Nat :
          m = AppendEntriesTo(n, p, currentTerm'[n], log'[n], next, c)
    BY <2>2 DEF SentBy, AppendEntriesTo
  <2>4. PICK next \in Nat \ {0} : \E c \in Nat :
          m = AppendEntriesTo(n, p, currentTerm'[n], log'[n], next, c)
    BY <2>3
  <2>5. PICK c \in Nat :
          m = AppendEntriesTo(n, p, currentTerm'[n], log'[n], next, c)
    BY <2>4
  <2> DEFINE l == log'[n]
             t == currentTerm'[n]
  <2>6. l \in Seq(Entry) BY <1>1 DEF TypeInv, TypeOK
  <2>7. m = AppendEntriesTo(n, p, t, l, next, c) BY <2>5
  <2>8. MsgFacts(m) \subseteq LogFacts(l) /\ (m.prevLogIndex = 0 => m.prevLogTerm = 0)
    <3> HIDE DEF l, t
    <3> QED BY <2>6, <2>7, SentFacts
  <2>9. m.term = t BY <2>7 DEF AppendEntriesTo
  <2>10. state'[n] = "leader" BY <2>2 DEF SentBy
  <2> QED BY <2>8, <2>9, <2>10
<1>3. FromStart' BY <1>2 DEF FromStart
<1>4. ASSUME NEW f \in Facts'
      PROVE  f \in Facts \/ \E n \in Node : f \in LogFacts(log'[n])
  <2>1. CASE \E n \in Node : f \in LogFacts(log'[n]) BY <2>1
  <2>2. ASSUME NEW m \in Appends', f \in MsgFacts(m)
        PROVE  f \in Facts \/ \E n \in Node : f \in LogFacts(log'[n])
    <3>1. CASE m \in Appends BY <2>2, <3>1 DEF Facts
    <3>2. CASE m \notin Appends BY <1>2, <2>2, <3>2
    <3> QED BY <3>1, <3>2
  <2>3. \/ \E n \in Node : f \in LogFacts(log'[n])
        \/ \E m \in Appends' : f \in MsgFacts(m)
    BY DEF Facts
  <2> QED BY <2>1, <2>2, <2>3
<1> QED BY <1>2, <1>3, <1>4

\* What a step does to the facts.
LEMMA FactsStep ==
    ASSUME TypeInv, FromStart, [Next]_vars
    PROVE  Facts' \subseteq Facts \/ \E n \in Node : \E new : FactMade(n, new)
<1>1. \A f \in Facts' : f \in Facts \/ \E n \in Node : f \in LogFacts(log'[n])
  BY FactsFrom
<1>2. LogsMove BY LogStep
<1>3. log \in [Node -> Seq(Entry)] /\ \A n \in Node : log[n] \in Seq(Entry)
  BY DEF TypeInv, TypeOK
<1>4. \A n \in Node : LogFacts(log[n]) \subseteq Facts BY DEF Facts
<1>5. CASE UNCHANGED log
  BY <1>1, <1>4, <1>5
<1>6. ASSUME NEW m \in BagToSet(net), Adopts(m) PROVE Facts' \subseteq Facts
  <2>1. m \in AppendEntries /\ m.to \in Node /\ m \in Appends
    BY <1>6, MessageKinds DEF Adopts, AppendEntries, Appends, TypeInv, TypeOK
  <2>2. log' = [log EXCEPT ![m.to] =
                  AppendNew(log[m.to], m.prevLogIndex, m.entries)]
    BY <1>6 DEF Adopts
  <2>3. LogFacts(AppendNew(log[m.to], m.prevLogIndex, m.entries))
          \subseteq LogFacts(log[m.to]) \union MsgFacts(m)
    <3>1. m.prevLogIndex = 0 => m.prevLogTerm = 0 BY <2>1 DEF FromStart
    <3>2. Consistent(m, log[m.to]) BY <1>6 DEF Adopts
    <3> QED BY <1>3, <2>1, <3>1, <3>2, AdoptedFacts
  <2>4. MsgFacts(m) \subseteq Facts BY <2>1 DEF Facts
  <2>5. \A n \in Node : n # m.to => log'[n] = log[n]
    BY <1>3, <2>2
  <2>6. log'[m.to] = AppendNew(log[m.to], m.prevLogIndex, m.entries)
    BY <1>3, <2>1, <2>2
  <2>7. \A n \in Node : LogFacts(log'[n]) \subseteq Facts
    BY <1>4, <2>1, <2>3, <2>4, <2>5, <2>6
  <2> QED BY <1>1, <2>7
<1>7. ASSUME NEW n \in Node, Proposes(n) PROVE \E new : FactMade(n, new)
  <2>1. PICK c \in Command :
          log' = [log EXCEPT ![n] =
                    Append(log[n], [term |-> currentTerm[n], cmd |-> c])]
    BY <1>7 DEF Proposes
  <2> DEFINE e == [term |-> currentTerm[n], cmd |-> c]
             l == log[n]
             new == [index |-> Len(l) + 1, entry |-> e,
                     prev |-> PrevTerm(Append(l, e), Len(l) + 1)]
  <2>2. e \in Entry /\ e.term = currentTerm[n]
    BY DEF Entry, TypeInv, TypeOK
  <2>3. l \in Seq(Entry) BY <1>3
  <2>4. log'[n] = Append(l, e) /\ \A q \in Node : q # n => log'[q] = log[q]
    BY <1>3, <2>1
  <2>5. new.index = Len(l) + 1 /\ new.entry = e
    OBVIOUS
  <2>6. \A f \in LogFacts(Append(l, e)) : f \in LogFacts(l) \/ f = new
    <3> SUFFICES ASSUME NEW f \in LogFacts(Append(l, e)), f \notin LogFacts(l)
                 PROVE  f = new
      OBVIOUS
    <3>1. /\ f.index = Len(l) + 1 /\ f.entry = e
          /\ f.prev = PrevTerm(Append(l, e), Len(l) + 1)
      <4> HIDE DEF e, l
      <4> QED BY <2>2, <2>3, AppendFacts
    <3>2. f = [index |-> f.index, entry |-> f.entry, prev |-> f.prev]
      BY DEF LogFacts
    <3> HIDE DEF e, l
    <3> QED BY <3>1, <3>2
  <2>7. Len(Append(l, e)) = Len(l) + 1 BY <2>2, <2>3, AppendProperties
  <2> HIDE DEF e, new
  <2>8. Facts' \subseteq Facts \union {new}
    BY <1>1, <1>4, <2>4, <2>6
  <2>9. FactMade(n, new)
    BY <1>7, <2>2, <2>4, <2>5, <2>7, <2>8 DEF FactMade
  <2> QED BY <2>9
<1> QED BY <1>2, <1>5, <1>6, <1>7 DEF LogsMove

\* Entries have natural indices and terms.
LEMMA FactTypes ==
    ASSUME TypeInv
    PROVE  \A f \in Facts : f.index \in Nat /\ f.entry.term \in Nat
<1>1. ASSUME NEW l \in Seq(Entry), NEW f \in LogFacts(l)
      PROVE  f.index \in Nat /\ f.entry.term \in Nat
  <2>1. PICK i \in 1..Len(l) : f.index = i /\ f.entry = l[i] BY DEF LogFacts
  <2>2. l[i].term \in Nat BY EntryTerm, TermFacts
  <2> QED BY <2>1, <2>2
<1>2. ASSUME NEW m \in Appends, NEW f \in MsgFacts(m)
      PROVE  f.index \in Nat /\ f.entry.term \in Nat
  <2>1. m \in AppendEntries
    BY MessageKinds DEF Appends, TypeInv, TypeOK
  <2>2. m.prevLogIndex \in Nat /\ m.entries \in Seq(Entry)
    BY <2>1 DEF AppendEntries
  <2>3. PICK i \in 1..Len(m.entries) :
          f.index = m.prevLogIndex + i /\ f.entry = m.entries[i]
    BY DEF MsgFacts
  <2>4. m.entries[i].term \in Nat BY <2>2, EntryTerm, TermFacts
  <2> QED BY <2>2, <2>3, <2>4
<1>3. \A n \in Node : log[n] \in Seq(Entry) BY DEF TypeInv, TypeOK
<1> QED BY <1>1, <1>2, <1>3 DEF Facts

\* A node that leads before and after a step has not lost an entry.
LEMMA LeaderLogGrows ==
    ASSUME TypeInv, [Next]_vars, NEW n \in Node, state'[n] = "leader"
    PROVE  Len(log'[n]) >= Len(log[n])
<1>1. LogsMove BY LogStep
<1>2. log \in [Node -> Seq(Entry)] /\ Len(log[n]) \in Nat
  BY DEF TypeInv, TypeOK
<1>3. CASE UNCHANGED log BY <1>2, <1>3
<1>4. ASSUME NEW q \in Node, Proposes(q) PROVE Len(log'[n]) >= Len(log[n])
  <2>1. PICK c \in Command :
          log' = [log EXCEPT ![q] =
                    Append(log[q], [term |-> currentTerm[q], cmd |-> c])]
    BY <1>4 DEF Proposes
  <2>2. CASE q # n BY <1>2, <2>1, <2>2
  <2>3. CASE q = n
    <3> DEFINE e == [term |-> currentTerm[n], cmd |-> c]
    <3>1. e \in Entry BY DEF Entry, TypeInv, TypeOK
    <3>2. log'[n] = Append(log[n], e) /\ log[n] \in Seq(Entry)
      BY <1>2, <2>1, <2>3
    <3> HIDE DEF e
    <3>3. Len(log'[n]) = Len(log[n]) + 1 BY <3>1, <3>2, AppendProperties
    <3> QED BY <1>2, <3>3
  <2> QED BY <2>2, <2>3
<1>5. ASSUME NEW m \in BagToSet(net), Adopts(m)
      PROVE  Len(log'[n]) >= Len(log[n])
  <2>1. m.to # n BY <1>5 DEF Adopts
  <2>2. log'[n] = log[n] BY <1>2, <1>5, <2>1 DEF Adopts
  <2> QED BY <1>2, <2>2
<1> QED BY <1>1, <1>3, <1>4, <1>5 DEF LogsMove

\* Two nodes that lead, or have just won, the same term are one.
LEMMA SameWinner ==
    ASSUME ElectionSafety, NEW t, NEW n, NEW p,
           [term |-> t, node |-> n] \in leaders,
           [term |-> t, node |-> p] \in leaders
    PROVE  n = p
<1> DEFINE k == [term |-> t, node |-> n]
           l == [term |-> t, node |-> p]
<1>1. k.term = l.term /\ k.node = n /\ l.node = p OBVIOUS
<1>2. k \in leaders /\ l \in leaders OBVIOUS
<1> HIDE DEF k, l
<1> QED BY <1>1, <1>2 DEF ElectionSafety

\* Nobody has won the term of a candidate that is about to win it, so no
\* entry has that term yet.
LEMMA NoFactBeforeWinning ==
    ASSUME LogInv, ElectionSafety', NEW n \in Node, Wins(n), NEW f \in Facts
    PROVE  f.entry.term # currentTerm[n]
<1> SUFFICES ASSUME f.entry.term = currentTerm[n] PROVE FALSE
  OBVIOUS
<1>1. PICK l \in leaders : l.term = currentTerm[n] BY DEF LogInv, FactsLed
<1> DEFINE k == [term |-> currentTerm[n], node |-> n]
<1>2. k \in leaders' /\ l \in leaders' BY DEF Wins
<1>3. k.term = l.term /\ k.node = n BY <1>1
<1>4. l.node = n
  <2> HIDE DEF k
  <2> QED BY <1>2, <1>3 DEF ElectionSafety
<1>5. l.term < currentTerm[n] BY <1>4 DEF LogInv, WonBefore, Wins
<1>6. currentTerm[n] \in Nat
  BY TermFacts DEF LogInv, ElectInv, TypeInv, TypeOK
<1> QED BY <1>1, <1>5, <1>6

\* The facts of logs and messages keep their invariant.
LEMMA LogInvNext ==
    ASSUME OddCluster, LogInv, [Next]_vars
    PROVE  LogInv'
<1>1. TypeInv /\ ElectInv /\ LeaderKnown /\ FromStart
  BY DEF LogInv, ElectInv
<1>2. ElectInv' BY <1>1, ElectInvNext
<1>3. LeaderKnown' BY <1>1, KnownStep
<1>4. ElectionSafety' BY <1>2, InvElectionSafety, PTL DEF ElectInv, TypeInv
<1>5. RolesMove BY <1>1, RoleStep
<1>6. leaders \subseteq leaders' BY <1>5 DEF RolesMove, Wins
<1>7. Facts' \subseteq Facts \/ \E n \in Node : \E new : FactMade(n, new)
  BY <1>1, FactsStep
<1>8. FromStart' BY <1>1, FactsFrom
<1>9. \A f \in Facts : f.index \in Nat /\ f.entry.term \in Nat
  BY <1>1, FactTypes
<1>10. \A n \in Node : /\ Len(log[n]) \in Nat /\ Len(log'[n]) \in Nat
                       /\ currentTerm[n] \in Nat /\ currentTerm'[n] \in Nat
  <2>1. TypeOK /\ TypeOK' BY <1>2 DEF LogInv, ElectInv, TypeInv
  <2>2. /\ log \in [Node -> Seq(Entry)] /\ log' \in [Node -> Seq(Entry)]
        /\ currentTerm \in [Node -> Term] /\ currentTerm' \in [Node -> Term]
    BY <2>1 DEF TypeOK
  <2> QED BY <2>2, TermFacts, LenProperties
<1>11. WonBefore'
  <2> SUFFICES ASSUME NEW l \in leaders'
               PROVE  /\ l.term <= currentTerm'[l.node]
                      /\ state'[l.node] = "candidate" =>
                           l.term < currentTerm'[l.node]
    BY DEF WonBefore
  <2>1. l.node \in Node /\ l.term \in Nat
    BY <1>2, TermFacts DEF ElectInv, TypeInv, TypeOK
  <2> DEFINE q == l.node
  <2>2. CASE l \in leaders
    <3>1. /\ l.term <= currentTerm[q]
          /\ state[q] = "candidate" => l.term < currentTerm[q]
      BY <2>2 DEF LogInv, WonBefore
    <3> HIDE DEF q
    <3>2. q \in Node BY <2>1 DEF q
    <3>3. Stays(q) \/ Follows(q) \/ Runs(q) \/ Wins(q)
      BY <1>5, <3>2 DEF RolesMove
    <3>4. /\ l.term <= currentTerm'[q]
          /\ state'[q] = "candidate" => l.term < currentTerm'[q]
      BY <1>10, <2>1, <3>1, <3>2, <3>3 DEF Stays, Follows, Runs, Wins
    <3> QED BY <3>4 DEF q
  <2>3. CASE l \notin leaders
    <3>1. PICK n \in Node : Wins(n) BY <1>5, <2>3 DEF RolesMove
    <3>2. l = [term |-> currentTerm[n], node |-> n] BY <2>3, <3>1 DEF Wins
    <3>3. l.node = n /\ l.term = currentTerm'[n] /\ state'[n] = "leader"
      BY <3>1, <3>2 DEF Wins
    <3> QED BY <1>10, <3>3
  <2> QED BY <2>2, <2>3
<1>12. ASSUME NEW n \in Node, NEW new, FactMade(n, new)
       PROVE  /\ [term |-> currentTerm[n], node |-> n] \in leaders
              /\ \A f \in Facts : f.entry.term = new.entry.term => f.index # new.index
  <2>1. state[n] = "leader" /\ new.index = Len(log[n]) + 1
        /\ new.entry.term = currentTerm[n]
    BY <1>12 DEF FactMade, Proposes
  <2>2. [term |-> currentTerm[n], node |-> n] \in leaders
    BY <1>1, <2>1 DEF LeaderKnown
  <2>3. ASSUME NEW f \in Facts, f.entry.term = new.entry.term
        PROVE  f.index # new.index
    <3>1. f.index <= Len(log[n]) BY <2>1, <2>3 DEF LogInv, LeaderHas
    <3> QED BY <1>9, <1>10, <2>1, <3>1
  <2> QED BY <2>2, <2>3
<1>13. FactsUnique'
  <2>1. \A f, g \in Facts :
          f.index = g.index /\ f.entry.term = g.entry.term => f = g
    BY DEF LogInv, FactsUnique
  <2>2. CASE Facts' \subseteq Facts BY <2>1, <2>2 DEF FactsUnique
  <2>3. ASSUME NEW n \in Node, NEW new, FactMade(n, new) PROVE FactsUnique'
    <3>1. Facts' \subseteq Facts \union {new} BY <2>3 DEF FactMade
    <3>2. \A f \in Facts : f.entry.term = new.entry.term => f.index # new.index
      BY <1>12, <2>3
    <3> QED BY <2>1, <3>1, <3>2 DEF FactsUnique
  <2> QED BY <1>7, <2>2, <2>3
<1>14. FactsLed'
  <2>1. \A f \in Facts : \E l \in leaders' : l.term = f.entry.term
    BY <1>6 DEF LogInv, FactsLed
  <2>2. CASE Facts' \subseteq Facts BY <2>1, <2>2 DEF FactsLed
  <2>3. ASSUME NEW n \in Node, NEW new, FactMade(n, new) PROVE FactsLed'
    <3>1. Facts' \subseteq Facts \union {new} /\ new.entry.term = currentTerm[n]
      BY <2>3 DEF FactMade
    <3>2. [term |-> currentTerm[n], node |-> n] \in leaders' BY <1>6, <1>12, <2>3
    <3>3. \E l \in leaders' : l.term = new.entry.term BY <3>1, <3>2
    <3> QED BY <2>1, <3>1, <3>3 DEF FactsLed
  <2> QED BY <1>7, <2>2, <2>3
<1>15. LeaderHas'
  <2> SUFFICES ASSUME NEW n \in Node, state'[n] = "leader",
                      NEW f \in Facts', f.entry.term = currentTerm'[n]
               PROVE  f.index <= Len(log'[n])
    BY DEF LeaderHas
  <2>1. Len(log'[n]) >= Len(log[n]) BY <1>1, LeaderLogGrows
  <2>2. Stays(n) \/ Wins(n)
    BY <1>5 DEF RolesMove, Follows, Runs
  <2>3. ASSUME f \in Facts PROVE f.index <= Len(log'[n])
    <3>1. CASE Stays(n)
      <4>1. f.index <= Len(log[n])
        BY <2>3, <3>1 DEF Stays, LogInv, LeaderHas
      <4> QED BY <1>9, <1>10, <2>1, <2>3, <4>1
    <3>2. CASE Wins(n)
      <4>1. f.entry.term # currentTerm[n]
        BY <1>4, <2>3, <3>2, NoFactBeforeWinning
      <4> QED BY <3>2, <4>1 DEF Wins
    <3> QED BY <2>2, <3>1, <3>2
  <2>4. ASSUME NEW p \in Node, NEW new, FactMade(p, new), f = new
        PROVE  f.index <= Len(log'[n])
    <3>1. /\ UNCHANGED <<state, currentTerm, leaders>>
          /\ f.index = Len(log[p]) + 1 /\ f.entry.term = currentTerm[p]
          /\ Len(log'[p]) = Len(log[p]) + 1
      BY <2>4 DEF FactMade, Proposes
    <3>2. /\ [term |-> currentTerm[n], node |-> p] \in leaders
          /\ [term |-> currentTerm[n], node |-> n] \in leaders
      <4>1. currentTerm[n] = currentTerm[p] /\ state[n] = "leader" BY <3>1
      <4> QED BY <1>1, <1>12, <2>4, <4>1 DEF LeaderKnown
    <3>3. ElectionSafety BY <1>4, <3>1 DEF ElectionSafety
    <3>4. n = p BY <3>2, <3>3, SameWinner
    <3> QED BY <1>10, <3>1, <3>4
  <2>5. CASE Facts' \subseteq Facts BY <2>3, <2>5
  <2>6. CASE \E p \in Node : \E new : FactMade(p, new)
    <3>1. PICK p \in Node : \E new : FactMade(p, new) BY <2>6
    <3>2. PICK new : FactMade(p, new) BY <3>1
    <3>3. f \in Facts \/ f = new BY <3>2 DEF FactMade
    <3> QED BY <2>3, <2>4, <3>2, <3>3
  <2> QED BY <1>7, <2>5, <2>6
<1> QED BY <1>2, <1>3, <1>8, <1>11, <1>13, <1>14, <1>15 DEF LogInv

LEMMA LogInvInit == Init => LogInv
<1> SUFFICES ASSUME Init PROVE LogInv
  OBVIOUS
<1>1. ElectInv BY ElectInvInit
<1>2. BagToSet(net) = {} BY DEF Init, EmptyBag, SetToBag, BagToSet
<1>3. /\ leaders = {} /\ \A n \in Node : /\ log[n] = <<>> /\ leaderID[n] = Nil
                                         /\ state[n] = "follower"
  BY DEF Init
<1>4. \A n \in Node : LogFacts(log[n]) = {} BY <1>3 DEF LogFacts
<1>5. Appends = {} BY <1>2 DEF Appends
<1>6. Facts = {} BY <1>4, <1>5 DEF Facts
<1>7. LeaderKnown BY <1>2, <1>3 DEF LeaderKnown
<1> QED
  BY <1>1, <1>3, <1>5, <1>6, <1>7
     DEF LogInv, FactsUnique, FactsLed, LeaderHas, WonBefore, FromStart

\* Two logs whose facts are unique are equal up to an entry of equal term:
\* otherwise the facts just above their highest difference would differ.
LEMMA LogsAgreeBelow ==
    ASSUME NEW l \in Seq(Entry), NEW r \in Seq(Entry),
           \A f \in LogFacts(l), g \in LogFacts(r) :
              f.index = g.index /\ f.entry.term = g.entry.term => f = g,
           NEW i \in 1..Len(l), i \in 1..Len(r), l[i].term = r[i].term
    PROVE  \A j \in 1..i : l[j] = r[j]
<1> DEFINE S == {j \in 1..i : l[j] # r[j]}
           h == Highest(S)
<1>1. Len(l) \in Nat /\ Len(r) \in Nat /\ i \in Nat OBVIOUS
<1>2. ASSUME NEW j \in 1..i, l[j].term = r[j].term
      PROVE  l[j] = r[j] /\ PrevTerm(l, j) = PrevTerm(r, j)
  <2> DEFINE f == [index |-> j, entry |-> l[j], prev |-> PrevTerm(l, j)]
             g == [index |-> j, entry |-> r[j], prev |-> PrevTerm(r, j)]
  <2>1. j \in 1..Len(l) /\ j \in 1..Len(r) BY <1>1
  <2>2. f \in LogFacts(l) /\ g \in LogFacts(r) BY <2>1 DEF LogFacts
  <2>3. /\ f.index = j /\ f.entry = l[j] /\ f.prev = PrevTerm(l, j)
        /\ g.index = j /\ g.entry = r[j] /\ g.prev = PrevTerm(r, j)
    OBVIOUS
  <2> HIDE DEF f, g
  <2>4. f = g BY <1>2, <2>2, <2>3
  <2> QED BY <2>3, <2>4
<1>3. CASE S = {} BY <1>3
<1>4. CASE S # {}
  <2>1. S \subseteq 0..i BY <1>1
  <2>2. h \in S /\ \A y \in S : y <= h
    <3> HIDE DEF S
    <3> QED BY <1>1, <1>4, <2>1, HighestIn
  <2> HIDE DEF h
  <2>3. h \in 1..i /\ l[h] # r[h] BY <2>2
  <2>4. h # i BY <1>1, <1>2, <2>3
  <2>5. h + 1 \in 1..i /\ h + 1 \notin S BY <1>1, <2>2, <2>3, <2>4
  <2>6. l[h + 1] = r[h + 1] BY <2>5
  <2>7. PrevTerm(l, h + 1) = PrevTerm(r, h + 1) BY <1>2, <2>5, <2>6
  <2>8. l[h].term = r[h].term
    <3>1. h + 1 # 1 /\ (h + 1) - 1 = h BY <2>3
    <3> QED BY <2>7, <3>1 DEF PrevTerm
  <2> QED BY <1>2, <2>3, <2>8
<1> QED BY <1>3, <1>4

\* Prefixes that agree entry by entry are equal.
LEMMA SamePrefix ==
    ASSUME NEW l \in Seq(Entry), NEW r \in Seq(Entry),
           NEW i \in 1..Len(l), i \in 1..Len(r), \A j \in 1..i : l[j] = r[j]
    PROVE  SubSeq(l, 1, i) = SubSeq(r, 1, i)
<1> DEFINE u == SubSeq(l, 1, i)
           v == SubSeq(r, 1, i)
<1>1. /\ \A j \in 1..i : l[j] \in Entry /\ r[j] \in Entry
      /\ Len(l) \in Nat /\ Len(r) \in Nat /\ i \in Nat
  OBVIOUS
<1>2. /\ u \in Seq(Entry) /\ Len(u) = i /\ \A j \in 1..i : u[j] = l[j]
      /\ v \in Seq(Entry) /\ Len(v) = i /\ \A j \in 1..i : v[j] = r[j]
  BY <1>1, SubSeqProperties
<1> HIDE DEF u, v
<1>3. u = v BY <1>2, SeqEqual
<1> QED BY <1>3 DEF u, v

\* The invariant implies log matching.
LEMMA LogInvMatching == LogInv => LogMatching
<1> SUFFICES ASSUME LogInv, NEW n \in Node, NEW p \in Node,
                    NEW i \in 1..Smaller(Len(log[n]), Len(log[p])),
                    log[n][i].term = log[p][i].term
             PROVE  SubSeq(log[n], 1, i) = SubSeq(log[p], 1, i)
  BY DEF LogMatching
<1> DEFINE l == log[n]
           r == log[p]
<1>1. l \in Seq(Entry) /\ r \in Seq(Entry)
  BY DEF LogInv, ElectInv, TypeInv, TypeOK
<1>2. LogFacts(l) \subseteq Facts /\ LogFacts(r) \subseteq Facts BY DEF Facts
<1>3. \A f \in LogFacts(l), g \in LogFacts(r) :
        f.index = g.index /\ f.entry.term = g.entry.term => f = g
  <2> HIDE DEF l, r
  <2> QED BY <1>2 DEF LogInv, FactsUnique
<1>4. l[i].term = r[i].term OBVIOUS
<1>5. i \in 1..Smaller(Len(l), Len(r)) OBVIOUS
<1> HIDE DEF l, r
<1>6. i \in 1..Len(l) /\ i \in 1..Len(r)
  <2>1. Len(l) \in Nat /\ Len(r) \in Nat BY <1>1, LenProperties
  <2> QED BY <1>5, <2>1 DEF Smaller
<1>7. SubSeq(l, 1, i) = SubSeq(r, 1, i)
  BY <1>1, <1>3, <1>4, <1>6, LogsAgreeBelow, SamePrefix
<1> QED BY <1>7 DEF l, r

\* In a cluster of odd size the consistency check and the truncation of
\* handleAppendEntries keep logs matching: an entry of the same term at the
\* same index means the same log up to it, for clusters, logs and terms of
\* any size and whatever the network loses, delays or reorders.
THEOREM LogsMatch ==
    ASSUME OddCluster
    PROVE  Spec => []LogMatching
BY LogInvInit, LogInvNext, LogInvMatching, PTL DEF Spec

-----------------------------------------------------------------------------
(***************************************************************************)
(* Terms along a log.                                                      *)
(***************************************************************************)
\* No entry follows one of a later term.
FactsRise == \A f \in Facts : f.prev <= f.entry.term

\* A node has reached the terms of its entries, the sender of an
\* AppendEntries had reached those of the entries it sent.
TermsReached ==
    /\ \A n \in Node : \A f \in LogFacts(log[n]) : f.entry.term <= currentTerm[n]
    /\ \A m \in Appends : \A f \in MsgFacts(m) : f.entry.term <= m.term

TermInv == TypeInv /\ FromStart /\ FactsRise /\ TermsReached

\* The entry before a proposed one is the last of the log.
LEMMA ProposedAfterLast ==
    ASSUME NEW l \in Seq(Entry), NEW e \in Entry, NEW t \in Nat, e.term = t,
           \A f \in LogFacts(l) : f.entry.term <= t
    PROVE  PrevTerm(Append(l, e), Len(l) + 1) <= t
<1>1. /\ Len(l) \in Nat /\ \A i \in 1..Len(l) : Append(l, e)[i] = l[i]
  BY AppendProperties
<1>2. CASE Len(l) = 0 BY <1>2 DEF PrevTerm
<1>3. CASE Len(l) # 0
  <2> DEFINE i == Len(l)
             f == [index |-> i, entry |-> l[i], prev |-> PrevTerm(l, i)]
  <2>1. i \in 1..Len(l) /\ i + 1 # 1 /\ (i + 1) - 1 = i BY <1>1, <1>3
  <2>2. f \in LogFacts(l) BY <2>1 DEF LogFacts
  <2>3. f.entry = l[i] OBVIOUS
  <2> HIDE DEF f
  <2>4. l[i].term <= t BY <2>2, <2>3
  <2> QED BY <1>1, <2>1, <2>4 DEF PrevTerm
<1> QED BY <1>2, <1>3

\* An entry of a log after a step was there before, is proposed by the node in
\* its term, or was sent in the term the node now has.
LEMMA LogFactsFrom ==
    ASSUME TermInv, [Next]_vars, NEW n \in Node, NEW f \in LogFacts(log'[n])
    PROVE  \/ f \in LogFacts(log[n])
           \/ /\ f.entry.term = currentTerm[n] /\ f.prev <= currentTerm[n]
              /\ currentTerm'[n] = currentTerm[n]
           \/ \E m \in Appends : f \in MsgFacts(m) /\ currentTerm'[n] = m.term
<1>1. TypeInv /\ FromStart BY DEF TermInv
<1>2. LogsMove BY <1>1, LogStep
<1>3. /\ log \in [Node -> Seq(Entry)] /\ log[n] \in Seq(Entry)
      /\ currentTerm[n] \in Term /\ currentTerm[n] \in Nat
  BY <1>1, TermFacts DEF TypeInv, TypeOK
<1>4. CASE UNCHANGED log BY <1>4
<1>5. ASSUME NEW q \in Node, Proposes(q), f \notin LogFacts(log[n])
      PROVE  /\ f.entry.term = currentTerm[n] /\ f.prev <= currentTerm[n]
             /\ currentTerm'[n] = currentTerm[n]
  <2>1. PICK c \in Command :
          log' = [log EXCEPT ![q] =
                    Append(log[q], [term |-> currentTerm[q], cmd |-> c])]
    BY <1>5 DEF Proposes
  <2>2. q = n BY <1>3, <1>5, <2>1
  <2> DEFINE e == [term |-> currentTerm[n], cmd |-> c]
  <2>3. e \in Entry /\ e.term = currentTerm[n] BY <1>3 DEF Entry
  <2>4. log'[n] = Append(log[n], e) BY <1>3, <2>1, <2>2
  <2> HIDE DEF e
  <2>5. f.entry = e /\ f.prev = PrevTerm(Append(log[n], e), Len(log[n]) + 1)
    BY <1>3, <1>5, <2>3, <2>4, AppendFacts
  <2>6. \A g \in LogFacts(log[n]) : g.entry.term <= currentTerm[n]
    BY DEF TermInv, TermsReached
  <2>7. f.prev <= currentTerm[n]
    BY <1>3, <2>3, <2>5, <2>6, ProposedAfterLast
  <2>8. UNCHANGED currentTerm BY <1>5 DEF Proposes
  <2> QED BY <2>3, <2>5, <2>7, <2>8
<1>6. ASSUME NEW m \in BagToSet(net), Adopts(m), f \notin LogFacts(log[n])
      PROVE  m \in Appends /\ f \in MsgFacts(m) /\ currentTerm'[n] = m.term
  <2>1. m \in AppendEntries /\ m \in Appends
    BY <1>6 DEF Adopts, AppendEntries, Appends
  <2>2. m.to = n BY <1>3, <1>6 DEF Adopts
  <2>3. log'[n] = AppendNew(log[n], m.prevLogIndex, m.entries)
    BY <1>3, <1>6, <2>2 DEF Adopts
  <2>4. m.prevLogIndex = 0 => m.prevLogTerm = 0 BY <1>1, <2>1 DEF FromStart
  <2>5. Consistent(m, log[n]) /\ currentTerm'[n] = m.term
    BY <1>6, <2>2 DEF Adopts
  <2>6. LogFacts(log'[n]) \subseteq LogFacts(log[n]) \union MsgFacts(m)
    BY <1>3, <2>1, <2>3, <2>4, <2>5, AdoptedFacts
  <2> QED BY <1>6, <2>1, <2>5, <2>6
<1> QED BY <1>2, <1>4, <1>5, <1>6 DEF LogsMove

LEMMA TermInvNext ==
    ASSUME TermInv, [Next]_vars
    PROVE  TermInv'
<1>1. TypeInv /\ FromStart BY DEF TermInv
<1>2. TypeInv' BY <1>1, TypeInvNext
<1>3. /\ \A f \in Facts' : f \in Facts \/ \E n \in Node : f \in LogFacts(log'[n])
      /\ \A m \in Appends' : m \in Appends \/ \E n \in Node :
           m.term = currentTerm'[n] /\ MsgFacts(m) \subseteq LogFacts(log'[n])
      /\ FromStart'
  BY <1>1, FactsFrom
<1>4. \A n \in Node : LogFacts(log[n]) \subseteq Facts BY DEF Facts
<1>5. \A m \in Appends : MsgFacts(m) \subseteq Facts BY DEF Facts
<1>6. \A n \in Node : /\ currentTerm[n] \in Nat /\ currentTerm'[n] \in Nat
                      /\ currentTerm'[n] >= currentTerm[n]
  <2>1. RolesMove BY <1>1, RoleStep
  <2>2. \A n \in Node : currentTerm[n] \in Nat /\ currentTerm'[n] \in Nat
    BY <1>1, <1>2, TermFacts DEF TypeInv, TypeOK
  <2> QED BY <2>1, <2>2 DEF RolesMove, Stays, Follows, Runs, Wins
<1>7. \A f \in Facts : f.entry.term \in Nat BY <1>1, FactTypes
<1>8. ASSUME NEW n \in Node, NEW f \in LogFacts(log'[n])
      PROVE  f.prev <= f.entry.term /\ f.entry.term <= currentTerm'[n]
  <2>1. CASE f \in LogFacts(log[n])
    <3>1. f \in Facts BY <1>4, <2>1
    <3>2. f.prev <= f.entry.term BY <3>1 DEF TermInv, FactsRise
    <3>3. f.entry.term <= currentTerm[n] BY <2>1 DEF TermInv, TermsReached
    <3> QED BY <1>6, <1>7, <3>1, <3>2, <3>3
  <2>2. CASE /\ f.entry.term = currentTerm[n] /\ f.prev <= currentTerm[n]
             /\ currentTerm'[n] = currentTerm[n]
    BY <1>6, <2>2
  <2>3. ASSUME NEW m \in Appends, f \in MsgFacts(m), currentTerm'[n] = m.term
        PROVE  f.prev <= f.entry.term /\ f.entry.term <= currentTerm'[n]
    <3>1. f.prev <= f.entry.term BY <1>5, <2>3 DEF TermInv, FactsRise
    <3>2. f.entry.term <= m.term BY <2>3 DEF TermInv, TermsReached
    <3> QED BY <2>3, <3>1, <3>2
  <2> QED BY <2>1, <2>2, <2>3, LogFactsFrom
<1>9. FactsRise' BY <1>3, <1>8 DEF TermInv, FactsRise
<1>10. \A m \in Appends' : \A f \in MsgFacts(m) : f.entry.term <= m.term
  <2> SUFFICES ASSUME NEW m \in Appends', NEW f \in MsgFacts(m)
               PROVE  f.entry.term <= m.term
    OBVIOUS
  <2>1. CASE m \in Appends BY <2>1 DEF TermInv, TermsReached
  <2>2. ASSUME NEW n \in Node, m.term = currentTerm'[n],
               MsgFacts(m) \subseteq LogFacts(log'[n])
        PROVE  f.entry.term <= m.term
    BY <1>8, <2>2
  <2> QED BY <1>3, <2>1, <2>2
<1>11. TermsReached' BY <1>8, <1>10 DEF TermsReached
<1> QED BY <1>2, <1>3, <1>9, <1>11 DEF TermInv

LEMMA TermInvInit == Init => TermInv
<1> SUFFICES ASSUME Init PROVE TermInv
  OBVIOUS
<1>1. LogInv BY LogInvInit
<1>2. TypeInv /\ FromStart BY <1>1 DEF LogInv, ElectInv
<1>3. BagToSet(net) = {} BY DEF Init, EmptyBag, SetToBag, BagToSet
<1>4. \A n \in Node : LogFacts(log[n]) = {} BY DEF Init, LogFacts
<1>5. Appends = {} BY <1>3 DEF Appends
<1>6. Facts = {} BY <1>4, <1>5 DEF Facts
<1> QED BY <1>2, <1>4, <1>5, <1>6 DEF TermInv, FactsRise, TermsReached

\* If no entry of a log follows one of a later term, terms rise along it.
LEMMA RisingLog ==
    ASSUME NEW l \in Seq(Entry), \A f \in LogFacts(l) : f.prev <= f.entry.term,
           NEW i \in 1..Len(l)
    PROVE  \A j \in 1..i : l[j].term <= l[i].term
<1> DEFINE S == {j \in 1..i : ~(l[j].term <= l[i].term)}
           h == Highest(S)
<1>1. Len(l) \in Nat /\ i \in Nat OBVIOUS
<1>2. \A j \in 1..Len(l) : l[j].term \in Nat BY EntryTerm, TermFacts
<1>3. ASSUME NEW j \in 1..Len(l) PROVE PrevTerm(l, j) <= l[j].term
  <2> DEFINE f == [index |-> j, entry |-> l[j], prev |-> PrevTerm(l, j)]
  <2>1. f \in LogFacts(l) BY DEF LogFacts
  <2>2. f.entry = l[j] /\ f.prev = PrevTerm(l, j) OBVIOUS
  <2> HIDE DEF f
  <2> QED BY <2>1, <2>2
<1>4. CASE S = {} BY <1>4
<1>5. CASE S # {}
  <2>1. S \subseteq 0..i BY <1>1
  <2>2. h \in S /\ \A y \in S : y <= h
    <3> HIDE DEF S
    <3> QED BY <1>1, <1>5, <2>1, HighestIn
  <2> HIDE DEF h
  <2>3. h \in 1..i /\ ~(l[h].term <= l[i].term) BY <2>2
  <2>4. h # i BY <1>2, <2>3
  <2>5. h + 1 \in 1..i /\ h + 1 \notin S BY <1>1, <2>2, <2>3, <2>4
  <2>6. l[h + 1].term <= l[i].term BY <2>5
  <2>7. l[h].term <= l[h + 1].term
    <3>1. h + 1 \in 1..Len(l) /\ h + 1 # 1 /\ (h + 1) - 1 = h
      BY <1>1, <2>3, <2>5
    <3>2. PrevTerm(l, h + 1) = l[h].term BY <3>1 DEF PrevTerm
    <3> QED BY <1>3, <3>1, <3>2
  <2>8. h \in 1..Len(l) /\ h + 1 \in 1..Len(l) BY <1>1, <2>3, <2>5
  <2> QED BY <1>2, <2>3, <2>6, <2>7, <2>8
<1> QED BY <1>4, <1>5

\* Terms rise along every log and none is above its node's term, whatever the
\* network loses or reorders and however many nodes believe they lead: Propose
\* and handleAppendEntries maintain what maybeCommit and handleRequestVote
\* rely on, in clusters of any size, even or odd.
THEOREM LogTermsRise == Spec => []TermsRise
<1>1. ASSUME TermInv PROVE TermsRise
  <2> SUFFICES ASSUME NEW n \in Node, NEW i \in 1..Len(log[n])
               PROVE  /\ log[n][i].term <= currentTerm[n]
                      /\ \A j \in 1..i : log[n][j].term <= log[n][i].term
    BY DEF TermsRise
  <2>1. log[n] \in Seq(Entry) BY <1>1 DEF TermInv, TypeInv, TypeOK
  <2>2. \A f \in LogFacts(log[n]) : f.prev <= f.entry.term
    BY <1>1 DEF TermInv, FactsRise, Facts
  <2> DEFINE f == [index |-> i, entry |-> log[n][i], prev |-> PrevTerm(log[n], i)]
  <2>3. f \in LogFacts(log[n]) /\ f.entry = log[n][i] BY DEF LogFacts
  <2> HIDE DEF f
  <2>4. log[n][i].term <= currentTerm[n]
    BY <1>1, <2>3 DEF TermInv, TermsReached
  <2> QED BY <2>1, <2>2, <2>4, RisingLog
<1> QED BY <1>1, TermInvInit, TermInvNext, PTL DEF Spec

-----------------------------------------------------------------------------
(***************************************************************************)
(* What a node shares with its leader.                                     *)
(***************************************************************************)
\* A leader has what the AppendEntries of its term carry, however late.
SentHeld ==
    \A n \in Node : \A m \in Appends :
        state[n] = "leader" /\ m.term = currentTerm[n] =>
            MsgFacts(m) \subseteq LogFacts(log[n])

SharedInv == LogInv /\ SentHeld

\* Append keeps the facts of a log.
LEMMA AppendKeepsFacts ==
    ASSUME NEW l \in Seq(Entry), NEW e \in Entry
    PROVE  LogFacts(l) \subseteq LogFacts(Append(l, e))
<1> DEFINE r == Append(l, e)
<1>1. /\ Len(r) = Len(l) + 1 /\ Len(l) \in Nat
      /\ \A i \in 1..Len(l) : r[i] = l[i]
  BY AppendProperties
<1> HIDE DEF r
<1>2. ASSUME NEW i \in 1..Len(l)
      PROVE  i \in 1..Len(r) /\ r[i] = l[i] /\ PrevTerm(r, i) = PrevTerm(l, i)
  <2>1. i # 1 => i - 1 \in 1..Len(l) BY <1>1
  <2> QED BY <1>1, <2>1 DEF PrevTerm
<1>3. LogFacts(l) \subseteq LogFacts(r) BY <1>2 DEF LogFacts
<1> QED BY <1>3 DEF r

\* A node that leads after a step has kept the facts of its log.
LEMMA LeaderKeepsFacts ==
    ASSUME TypeInv, [Next]_vars, NEW n \in Node, state'[n] = "leader"
    PROVE  LogFacts(log[n]) \subseteq LogFacts(log'[n])
<1>1. LogsMove BY LogStep
<1>2. /\ log \in [Node -> Seq(Entry)] /\ log[n] \in Seq(Entry)
      /\ currentTerm[n] \in Term
  BY DEF TypeInv, TypeOK
<1>3. CASE UNCHANGED log BY <1>3
<1>4. ASSUME NEW q \in Node, Proposes(q)
      PROVE  LogFacts(log[n]) \subseteq LogFacts(log'[n])
  <2>1. PICK c \in Command :
          log' = [log EXCEPT ![q] =
                    Append(log[q], [term |-> currentTerm[q], cmd |-> c])]
    BY <1>4 DEF Proposes
  <2>2. CASE q # n BY <1>2, <2>1, <2>2
  <2>3. CASE q = n
    <3> DEFINE e == [term |-> currentTerm[n], cmd |-> c]
    <3>1. e \in Entry BY <1>2 DEF Entry
    <3>2. log'[n] = Append(log[n], e) BY <1>2, <2>1, <2>3
    <3> HIDE DEF e
    <3> QED BY <1>2, <3>1, <3>2, AppendKeepsFacts
  <2> QED BY <2>2, <2>3
<1>5. ASSUME NEW m \in BagToSet(net), Adopts(m)
      PROVE  LogFacts(log[n]) \subseteq LogFacts(log'[n])
  <2>1. m.to # n BY <1>5 DEF Adopts
  <2>2. log'[n] = log[n] BY <1>2, <1>5, <2>1 DEF Adopts
  <2> QED BY <2>2
<1> QED BY <1>1, <1>3, <1>4, <1>5 DEF LogsMove

LEMMA SharedInvNext ==
    ASSUME OddCluster, SharedInv, [Next]_vars
    PROVE  SharedInv'
<1>1. /\ LogInv /\ TypeInv /\ ElectInv /\ LeaderKnown /\ WonBefore /\ FromStart
  BY DEF SharedInv, LogInv, ElectInv
<1>2. LogInv' BY <1>1, LogInvNext
<1>3. ElectInv' /\ LeaderKnown' BY <1>2 DEF LogInv
<1>4. ElectionSafety' BY <1>3, InvElectionSafety, PTL DEF ElectInv, TypeInv
<1>5. RolesMove BY <1>1, RoleStep
<1>6. \A m \in Appends' : m \in Appends \/ \E n \in Node :
        /\ state'[n] = "leader" /\ m.term = currentTerm'[n]
        /\ MsgFacts(m) \subseteq LogFacts(log'[n])
  BY <1>1, FactsFrom
<1>7. \A n \in Node : state'[n] = "leader" =>
        [term |-> currentTerm'[n], node |-> n] \in leaders'
  BY <1>3 DEF LeaderKnown
<1>8. ASSUME NEW n \in Node, NEW m \in Appends', state'[n] = "leader",
             m.term = currentTerm'[n]
      PROVE  MsgFacts(m) \subseteq LogFacts(log'[n])
  <2>1. Stays(n) \/ Wins(n)
    BY <1>5, <1>8 DEF RolesMove, Follows, Runs
  <2>2. CASE m \in Appends /\ Stays(n)
    <3>1. MsgFacts(m) \subseteq LogFacts(log[n])
      BY <1>8, <2>2 DEF SharedInv, SentHeld, Stays
    <3> QED BY <1>1, <1>8, <3>1, LeaderKeepsFacts
  <2>3. CASE m \in Appends /\ Wins(n)
    <3> DEFINE l == [term |-> m.term, node |-> m.from]
               k == [term |-> currentTerm[n], node |-> n]
    <3>1. l \in leaders BY <1>1, <2>3 DEF Appends, LeaderKnown
    <3>2. k \in leaders' /\ l \in leaders' /\ m.term = currentTerm[n]
      BY <1>8, <2>3, <3>1 DEF Wins
    <3>3. k.term = l.term /\ k.node = n /\ l.term = currentTerm[n] BY <3>2
    <3> HIDE DEF k, l
    <3>4. l.node = n BY <1>4, <3>2, <3>3 DEF ElectionSafety
    <3>5. currentTerm[n] < currentTerm[n]
      BY <1>1, <2>3, <3>1, <3>3, <3>4 DEF WonBefore, Wins
    <3>6. currentTerm[n] \in Nat BY <1>1, TermFacts DEF TypeInv, TypeOK
    <3> QED BY <3>5, <3>6
  <2>4. ASSUME NEW p \in Node, state'[p] = "leader", m.term = currentTerm'[p],
               MsgFacts(m) \subseteq LogFacts(log'[p])
        PROVE  MsgFacts(m) \subseteq LogFacts(log'[n])
    <3>1. /\ [term |-> m.term, node |-> n] \in leaders'
          /\ [term |-> m.term, node |-> p] \in leaders'
      BY <1>7, <1>8, <2>4
    <3>2. n = p
      <4> DEFINE k == [term |-> m.term, node |-> n]
                 l == [term |-> m.term, node |-> p]
      <4>1. /\ k \in leaders' /\ l \in leaders' /\ k.term = l.term
            /\ k.node = n /\ l.node = p
        BY <3>1
      <4> HIDE DEF k, l
      <4> QED BY <1>4, <4>1 DEF ElectionSafety
    <3> QED BY <2>4, <3>2
  <2> QED BY <1>6, <2>1, <2>2, <2>3, <2>4
<1>9. SentHeld' BY <1>8 DEF SentHeld
<1> QED BY <1>2, <1>9 DEF SharedInv

LEMMA SharedInvInit == Init => SharedInv
<1> SUFFICES ASSUME Init PROVE SharedInv
  OBVIOUS
<1>1. LogInv BY LogInvInit
<1>2. SentHeld BY DEF Init, SentHeld
<1> QED BY <1>1, <1>2 DEF SharedInv

\* A log that adopts entries of the leader's log keeps what it shares with it.
LEMMA AdoptedKeeps ==
    ASSUME NEW l \in Seq(Entry), NEW top \in Seq(Entry), NEW m \in AppendEntries,
           Consistent(m, l), MsgFacts(m) \subseteq LogFacts(top),
           NEW i \in 1..Len(l), i \in 1..Len(top),
           \A j \in 1..i : l[j] = top[j],
           NEW r, r = AppendNew(l, m.prevLogIndex, m.entries)
    PROVE  i <= Len(r) /\ r[i] = top[i]
<1> DEFINE prev == m.prevLogIndex
           es == m.entries
<1>1. /\ prev \in Nat /\ es \in Seq(Entry) /\ prev <= Len(l)
      /\ Len(l) \in Nat /\ Len(es) \in Nat
  BY DEF AppendEntries, Consistent
<1>2. ASSUME NEW k \in 1..Len(es) PROVE es[k] = top[prev + k]
  <2> DEFINE f == [index |-> prev + k, entry |-> es[k],
                   prev |-> IF k = 1 THEN m.prevLogTerm ELSE es[k - 1].term]
  <2>1. f \in MsgFacts(m) BY DEF MsgFacts
  <2>2. f.index = prev + k /\ f.entry = es[k] OBVIOUS
  <2> HIDE DEF f
  <2>3. PICK j \in 1..Len(top) :
          f = [index |-> j, entry |-> top[j], prev |-> PrevTerm(top, j)]
    BY <2>1 DEF LogFacts
  <2> QED BY <2>2, <2>3
<1>3. CASE r = l BY <1>1, <1>3
<1>4. ASSUME NEW first \in 1..Len(es), Spliced(r, l, prev, es, first)
      PROVE  i <= Len(r) /\ r[i] = top[i]
  <2> HIDE DEF prev, es
  <2> USE DEF Spliced
  <2>1. CASE i <= prev + first - 1
    <3>1. i \in 1..prev + first - 1 /\ i <= prev + Len(es) BY <1>1, <1>4, <2>1
    <3> QED BY <1>4, <3>1
  <2>2. CASE i > prev + first - 1
    <3>1. i <= prev + Len(es)
      <4>1. prev + first \in 1..i /\ prev + first <= Len(l)
        BY <1>1, <1>4, <2>2
      <4>2. l[prev + first] = es[first] BY <1>2, <4>1
      <4> QED BY <1>4, <4>1, <4>2
    <3>2. /\ i \in prev + first..prev + Len(es)
          /\ i - prev \in 1..Len(es) /\ prev + (i - prev) = i
      BY <1>1, <1>4, <2>2, <3>1
    <3>3. r[i] = top[i] BY <1>2, <1>4, <3>2
    <3> QED BY <1>4, <3>1, <3>3
  <2> QED BY <1>1, <1>4, <2>1, <2>2
<1>5. r = l \/ \E first \in 1..Len(es) : Spliced(r, l, prev, es, first)
  BY <1>1, AppendNewShape
<1> QED BY <1>3, <1>4, <1>5

\* In a cluster of odd size a node never gives up, in the term of its leader,
\* what its log shares with the leader's: the append loop of
\* handleAppendEntries does not cut a log because a delayed message is shorter.
THEOREM SharedIsKept ==
    ASSUME OddCluster
    PROVE  Spec => SharedKept
<1> DEFINE Kept(n, p) ==
             state[n] = "leader" /\ currentTerm'[p] = currentTerm[n] =>
               \A i \in 1..Smaller(Len(log[n]), Len(log[p])) :
                  log[p][i] = log[n][i] =>
                    i <= Len(log'[p]) /\ log'[p][i] = log[n][i]
<1>1. ASSUME SharedInv, [Next]_vars PROVE \A n, p \in Node : Kept(n, p)
  <2> SUFFICES ASSUME NEW n \in Node, NEW p \in Node, state[n] = "leader",
                      currentTerm'[p] = currentTerm[n],
                      NEW i \in 1..Smaller(Len(log[n]), Len(log[p])),
                      log[p][i] = log[n][i]
               PROVE  i <= Len(log'[p]) /\ log'[p][i] = log[n][i]
    OBVIOUS
  <2>1. LogInv /\ SentHeld /\ TypeInv BY <1>1 DEF SharedInv, LogInv, ElectInv
  <2>2. LogsMove BY <1>1, <2>1, LogStep
  <2>3. /\ log \in [Node -> Seq(Entry)] /\ log[p] \in Seq(Entry)
        /\ log[n] \in Seq(Entry) /\ currentTerm[p] \in Term
        /\ Len(log[n]) \in Nat /\ Len(log[p]) \in Nat
    <3>1. log \in [Node -> Seq(Entry)] /\ currentTerm \in [Node -> Term]
      BY <2>1 DEF TypeInv, TypeOK
    <3>2. log[p] \in Seq(Entry) /\ log[n] \in Seq(Entry) /\ currentTerm[p] \in Term
      BY <3>1
    <3> QED BY <3>1, <3>2, LenProperties
  <2>4. i \in 1..Len(log[n]) /\ i \in 1..Len(log[p])
    BY <2>3 DEF Smaller
  <2>5. CASE log'[p] = log[p] BY <2>3, <2>4, <2>5
  <2>6. ASSUME NEW q \in Node, Proposes(q)
        PROVE  i <= Len(log'[p]) /\ log'[p][i] = log[n][i]
    <3>1. PICK c \in Command :
            log' = [log EXCEPT ![q] =
                      Append(log[q], [term |-> currentTerm[q], cmd |-> c])]
      BY <2>6 DEF Proposes
    <3>2. CASE q # p BY <2>3, <2>5, <3>1, <3>2
    <3>3. CASE q = p
      <4> DEFINE e == [term |-> currentTerm[p], cmd |-> c]
      <4>1. e \in Entry BY <2>3 DEF Entry
      <4>2. log'[p] = Append(log[p], e) BY <2>3, <3>1, <3>3
      <4> HIDE DEF e
      <4>3. Len(log'[p]) = Len(log[p]) + 1 /\ log'[p][i] = log[p][i]
        BY <2>3, <2>4, <4>1, <4>2, AppendProperties
      <4> QED BY <2>3, <2>4, <4>3
    <3> QED BY <3>2, <3>3
  <2>7. ASSUME NEW m \in BagToSet(net), Adopts(m)
        PROVE  i <= Len(log'[p]) /\ log'[p][i] = log[n][i]
    <3>1. CASE m.to # p
      <4>1. log'[p] = log[p] BY <2>3, <2>7, <3>1 DEF Adopts
      <4> QED BY <2>5, <4>1
    <3>2. CASE m.to = p
      <4>1. /\ m \in AppendEntries /\ Consistent(m, log[p])
            /\ m.term = currentTerm[n]
            /\ log'[p] = AppendNew(log[p], m.prevLogIndex, m.entries)
        BY <2>3, <2>7, <3>2 DEF Adopts
      <4>2. m \in Appends BY <2>7, <4>1 DEF Appends, AppendEntries
      <4>3. MsgFacts(m) \subseteq LogFacts(log[n])
        BY <2>1, <4>1, <4>2 DEF SentHeld
      <4>4. \A j \in 1..i : log[p][j] = log[n][j]
        <5>1. \A f \in LogFacts(log[p]), g \in LogFacts(log[n]) :
                f.index = g.index /\ f.entry.term = g.entry.term => f = g
          BY <2>1 DEF LogInv, FactsUnique, Facts
        <5>2. log[p][i].term = log[n][i].term OBVIOUS
        <5> QED BY <2>3, <2>4, <5>1, <5>2, LogsAgreeBelow
      <4> QED BY <2>3, <2>4, <4>1, <4>3, <4>4, AdoptedKeeps
    <3> QED BY <3>1, <3>2
  <2> QED BY <2>2, <2>5, <2>6, <2>7 DEF LogsMove
<1>2. SharedInv /\ [Next]_vars => [\A n, p \in Node : Kept(n, p)]_vars
  BY <1>1
<1> QED BY <1>2, SharedInvInit, SharedInvNext, PTL DEF Spec, SharedKept
=============================================================================
