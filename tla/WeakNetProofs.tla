--------------------------- MODULE WeakNetProofs ---------------------------
(***************************************************************************)
(* For every number of nodes and keys, whatever is sent besides: merging   *)
(* deltas never brings an older value back, and no delta leaves out any-   *)
(* thing, because the record it is computed from never leaves 0.           *)
(***************************************************************************)
EXTENDS WeakNet, TLAPS

\* An entry has a value exactly when its version is positive.
Proper(s) == \A k \in Key : s[k].val = NoValue <=> s[k].ver = 0

\* The number that deltaFor compares versions with rises only to numbers
\* received from peers, which are of the same kind, and stays at 0.
RecordsStayZero == \A n, p \in Node : peers[n][p].knownVer = 0

\* A message carries the whole map of its sender, and a record of 0.
WholeMaps == \A m \in net : m.kind = "pushpull" =>
                /\ m.knownVer = 0
                /\ m.delta = m.full
                /\ Proper(m.delta)

WeakInv == TypeOK /\ RecordsStayZero /\ WholeMaps

\* What the versions and statistics are, in plain sets.
LEMMA Basics ==
    /\ Absent \in Entry
    /\ NewStats \in Stats /\ NewStats.knownVer = 0
BY DEF Entry, Absent, Stats, NewStats

\* A delta against record 0 is the whole map.
LEMMA DeltaIsWhole ==
    ASSUME NEW s \in State, Proper(s)
    PROVE  DeltaFor(s, 0) = s
<1>1. \A k \in Key : s[k] \in Entry /\ s[k].ver \in Nat
  BY Basics DEF State, Entry
<1>2. \A k \in Key : s[k].ver = 0 => s[k] = Absent
  BY <1>1 DEF Proper, Entry, Absent
<1>3. \A k \in Key : (IF s[k].ver > 0 THEN s[k] ELSE Absent) = s[k]
  BY <1>1, <1>2
<1> QED BY <1>3 DEF DeltaFor, State

\* The invariant holds of new nodes (New).
LEMMA WeakInit == Init => WeakInv
<1> SUFFICES ASSUME Init PROVE WeakInv
  OBVIOUS
<1>1. state \in [Node -> State] BY Basics DEF Init, State
<1>2. peers \in [Node -> [Node -> Stats]] /\ RecordsStayZero
  BY Basics DEF Init, RecordsStayZero
<1>3. \A n \in Node, k \in Key : state[n][k].val = NoValue <=> state[n][k].ver = 0
  BY DEF Init, Absent
<1>4. TypeOK BY <1>1, <1>2, <1>3 DEF Init, TypeOK
<1>5. WholeMaps BY DEF Init, WholeMaps
<1> QED BY <1>2, <1>4, <1>5 DEF WeakInv

\* What a Set does: one entry is replaced by one of the next version.
LEMMA SetEffect ==
    ASSUME TypeOK, NEW n \in Node, NEW k \in Key, NEW v \in Value, Set(n, k, v)
    PROVE  /\ state' \in [Node -> State]
           /\ \A p \in Node : Proper(state'[p])
           /\ \A p \in Node, j \in Key : \/ state'[p][j] = state[p][j]
                                         \/ state'[p][j].ver > state[p][j].ver
<1> DEFINE e == [val |-> v, ver |-> state[n][k].ver + 1]
<1>1. state[n][k].ver \in Nat /\ state[n] \in State
  BY Basics DEF TypeOK, State, Entry
<1>2. e \in Entry /\ e.ver > state[n][k].ver /\ e.ver # 0 /\ e.val # NoValue
  BY <1>1, NoValueIsNone DEF Set, Entry
<1>3. /\ state' \in [Node -> State]
      /\ \A p \in Node, j \in Key :
            state'[p][j] = IF p = n /\ j = k THEN e ELSE state[p][j]
  BY <1>2 DEF Set, TypeOK, State
<1>4. \A p \in Node : Proper(state'[p])
  BY <1>2, <1>3 DEF TypeOK, Proper
<1> QED BY <1>2, <1>3, <1>4

\* What handling a push-pull message does to the maps: entries are replaced by
\* newer ones from the delta.
LEMMA MergeEffect ==
    ASSUME WeakInv, NEW m \in net, HandlePushPull(m)
    PROVE  /\ state' \in [Node -> State]
           /\ \A p \in Node : Proper(state'[p])
           /\ \A p \in Node, j \in Key : \/ state'[p][j] = state[p][j]
                                         \/ state'[p][j].ver > state[p][j].ver
<1> DEFINE n == m.to
           new == [k \in Key |-> Merge(state[n][k], m.delta[k])]
<1>1. m \in PushPull BY DEF HandlePushPull, WeakInv, TypeOK, CriticalMsg
<1>2. n \in Node /\ m.delta \in State /\ Proper(m.delta)
  BY <1>1 DEF PushPull, WeakInv, WholeMaps
<1>3. state[n] \in State /\ Proper(state[n])
  BY <1>2 DEF WeakInv, TypeOK, Proper
<1>4. \A k \in Key : \/ new[k] = state[n][k]
                     \/ new[k] = m.delta[k] /\ new[k].ver > state[n][k].ver
  BY DEF Merge
<1>5. new \in State BY <1>2, <1>3, <1>4 DEF State
<1>6. Proper(new) BY <1>2, <1>3, <1>4 DEF Proper
<1>7. state' = [state EXCEPT ![n] = new] BY DEF HandlePushPull
<1>8. /\ state' \in [Node -> State]
      /\ \A p \in Node : state'[p] = IF p = n THEN new ELSE state[p]
  BY <1>2, <1>5, <1>7 DEF WeakInv, TypeOK
<1>9. \A p \in Node : Proper(state'[p])
  BY <1>6, <1>8 DEF WeakInv, TypeOK, Proper
<1> QED BY <1>4, <1>8, <1>9

\* Sending adds only messages of out to those under way.
LEMMA SendKeeps ==
    ASSUME NEW out, Send(out),
           net \subseteq PushPull \union CriticalMsg, WholeMaps,
           out \subseteq PushPull \union CriticalMsg,
           \A m \in out : m.kind = "pushpull" =>
              m.knownVer = 0 /\ m.delta = m.full /\ Proper(m.delta)
    PROVE  net' \subseteq PushPull \union CriticalMsg /\ WholeMaps'
<1>1. net' \subseteq net \union out BY DEF Send
<1>2. net' \subseteq PushPull \union CriticalMsg BY <1>1
<1>3. WholeMaps' BY <1>1 DEF WholeMaps, Proper
<1> QED BY <1>2, <1>3

\* Building a push-pull message sends the whole map.
LEMMA SendPushPullKeeps ==
    ASSUME WeakInv, NEW n \in Node, NEW p \in Peers(n), NEW isReply \in BOOLEAN,
           SendPushPull(n, p, isReply)
    PROVE  WeakInv'
<1> DEFINE m == [kind |-> "pushpull", from |-> n, to |-> p, isReply |-> isReply,
                 delta |-> state[n], knownVer |-> 0, full |-> state[n]]
<1>1. p \in Node BY DEF Peers
<1>2. state[n] \in State /\ Proper(state[n]) BY DEF WeakInv, TypeOK, Proper
<1>3. peers[n][p].knownVer = 0 BY <1>1 DEF WeakInv, RecordsStayZero
<1>4. DeltaFor(state[n], peers[n][p].knownVer) = state[n]
  BY <1>2, <1>3, DeltaIsWhole
<1>5. Send({m}) BY <1>3, <1>4 DEF SendPushPull
<1>6. m \in PushPull BY <1>1, <1>2, Basics DEF PushPull
<1>7. net' \subseteq PushPull \union CriticalMsg /\ WholeMaps'
  <2>1. \A x \in {m} : x.kind = "pushpull" =>
           x.knownVer = 0 /\ x.delta = x.full /\ Proper(x.delta)
    BY <1>2
  <2>2. {m} \subseteq PushPull \union CriticalMsg BY <1>6
  <2> HIDE DEF m
  <2> QED BY <1>5, <2>1, <2>2, SendKeeps DEF WeakInv, TypeOK
<1>8. UNCHANGED <<state, peers, pending>>
      /\ todo' = [todo EXCEPT ![n] = @ \ {<<p, isReply>>}]
  BY DEF SendPushPull
<1>9. todo' \in [Node -> SUBSET (Node \X BOOLEAN)]
  BY <1>8 DEF WeakInv, TypeOK
<1>10. TypeOK' BY <1>7, <1>8, <1>9 DEF WeakInv, TypeOK
<1>11. RecordsStayZero' BY <1>8 DEF WeakInv, RecordsStayZero
<1> QED BY <1>7, <1>10, <1>11 DEF WeakInv

\* Handling a message raises the record of its sender to at most the record
\* that the message carries, which is 0.
LEMMA HandlePushPullKeeps ==
    ASSUME WeakInv, NEW m \in net, HandlePushPull(m)
    PROVE  WeakInv'
<1>1. m \in PushPull BY DEF HandlePushPull, WeakInv, TypeOK, CriticalMsg
<1>2. m.to \in Node /\ m.from \in Node /\ m.knownVer = 0 /\ m.kind = "pushpull"
  BY <1>1 DEF PushPull, WeakInv, WholeMaps
<1>3. /\ net' = net \ {m} /\ UNCHANGED pending
      /\ peers' = [peers EXCEPT ![m.to][m.from] =
                     [knownVer |-> Believed(@, m), lastSeen |-> "fresh"]]
      /\ \/ UNCHANGED todo
         \/ todo' = [todo EXCEPT ![m.to] = @ \union {<<m.from, TRUE>>}]
  BY DEF HandlePushPull
<1>4. Believed(peers[m.to][m.from], m) = 0
  BY <1>2 DEF Believed, Larger, WeakInv, RecordsStayZero
<1>5. /\ peers' \in [Node -> [Node -> Stats]]
      /\ RecordsStayZero'
  <2>1. [knownVer |-> 0, lastSeen |-> "fresh"] \in Stats BY Basics DEF Stats
  <2>2. peers' = [peers EXCEPT ![m.to][m.from] = [knownVer |-> 0, lastSeen |-> "fresh"]]
    BY <1>3, <1>4
  <2>3. peers' \in [Node -> [Node -> Stats]]
    BY <1>2, <2>1, <2>2 DEF WeakInv, TypeOK
  <2>4. RecordsStayZero'
    BY <1>2, <2>2 DEF WeakInv, TypeOK, RecordsStayZero
  <2> QED BY <2>3, <2>4
<1>6. todo' \in [Node -> SUBSET (Node \X BOOLEAN)]
  <2> DEFINE more == todo[m.to] \union {<<m.from, TRUE>>}
  <2>1. todo \in [Node -> SUBSET (Node \X BOOLEAN)] BY DEF WeakInv, TypeOK
  <2>2. <<m.from, TRUE>> \in Node \X BOOLEAN BY <1>2
  <2>3. more \in SUBSET (Node \X BOOLEAN) BY <1>2, <2>1, <2>2
  <2>4. \/ todo' = todo
        \/ todo' = [todo EXCEPT ![m.to] = more]
    BY <1>3
  <2> HIDE DEF more
  <2> QED BY <1>2, <2>1, <2>3, <2>4
<1>7. WholeMaps' BY <1>3 DEF WeakInv, WholeMaps, Proper
<1>8. TypeOK' BY <1>3, <1>5, <1>6, MergeEffect DEF WeakInv, TypeOK, Proper
<1> QED BY <1>5, <1>7, <1>8 DEF WeakInv

\* Critical messages do not touch maps and records.
LEMMA CriticalKeeps ==
    ASSUME WeakInv, NEW n \in Node, NEW out, Send(out),
           \A m \in out : m \in CriticalMsg,
           pending' \in [Node -> SUBSET Pending],
           UNCHANGED <<state, peers, todo>>
    PROVE  WeakInv'
<1>1. \A m \in out : m.kind # "pushpull" BY DEF CriticalMsg
<1>2. net' \subseteq PushPull \union CriticalMsg /\ WholeMaps'
  BY <1>1, SendKeeps DEF WeakInv, TypeOK
<1>3. TypeOK' BY <1>2 DEF WeakInv, TypeOK
<1>4. RecordsStayZero' BY DEF WeakInv, RecordsStayZero
<1> QED BY <1>2, <1>3, <1>4 DEF WeakInv

\* Every step keeps the invariant.
LEMMA WeakStep == WeakInv /\ [Next]_vars => WeakInv'
<1> SUFFICES ASSUME WeakInv, [Next]_vars PROVE WeakInv'
  OBVIOUS
<1>1. ASSUME NEW n \in Node, NEW k \in Key, NEW v \in Value, Set(n, k, v)
      PROVE  WeakInv'
  <2>1. UNCHANGED <<peers, todo, pending, net>> BY <1>1 DEF Set
  <2>2. TypeOK' BY <1>1, <2>1, SetEffect DEF WeakInv, TypeOK, Proper
  <2> QED BY <2>1, <2>2 DEF WeakInv, RecordsStayZero, WholeMaps, Proper
<1>2. ASSUME NEW n \in Node, NEW targets \in SUBSET Peers(n), SyncRound(n, targets)
      PROVE  WeakInv'
  <2>1. /\ UNCHANGED <<state, peers, pending, net>>
        /\ todo' = [todo EXCEPT ![n] = @ \union (targets \X {FALSE})]
    BY <1>2 DEF SyncRound
  <2>2. todo' \in [Node -> SUBSET (Node \X BOOLEAN)]
    BY <2>1 DEF WeakInv, TypeOK, Peers
  <2>3. TypeOK' BY <2>1, <2>2 DEF WeakInv, TypeOK
  <2> QED BY <2>1, <2>3 DEF WeakInv, RecordsStayZero, WholeMaps, Proper
<1>3. ASSUME NEW n \in Node, NEW due \in SUBSET pending[n], RetransmitCheck(n, due)
      PROVE  WeakInv'
  <2> DEFINE out == {[kind |-> "critical", from |-> n, to |-> r.to] :
                        r \in pending[n] \ due}
             left == {[r EXCEPT !.resent = @ + 1] : r \in pending[n] \ due}
  <2>1. /\ Send(out) /\ pending' = [pending EXCEPT ![n] = left]
        /\ UNCHANGED <<state, peers, todo>>
    BY <1>3 DEF RetransmitCheck
  <2>2. pending \in [Node -> SUBSET Pending] BY DEF WeakInv, TypeOK
  <2>3. \A m \in out : m \in CriticalMsg BY <2>2 DEF CriticalMsg, Pending
  <2>4. ASSUME NEW r \in pending[n] \ due
        PROVE  [r EXCEPT !.resent = @ + 1] \in Pending
    <3>1. r \in Pending /\ r.resent # MaxResend BY <1>3, <2>2 DEF RetransmitCheck
    <3>2. r.resent + 1 \in 0..MaxResend BY <3>1, WeakNetBounds DEF Pending
    <3> QED BY <3>1, <3>2 DEF Pending
  <2>5. left \subseteq Pending BY <2>4
  <2> HIDE DEF out, left
  <2>6. pending' \in [Node -> SUBSET Pending] BY <2>1, <2>2, <2>5
  <2> QED BY <2>1, <2>3, <2>6, CriticalKeeps
<1>4. ASSUME NEW n \in Node, NEW old \in SUBSET Peers(n), PurgeStalePeers(n, old)
      PROVE  WeakInv'
  <2> DEFINE new == [p \in Node |-> IF p \in old THEN NewStats ELSE peers[n][p]]
  <2>1. UNCHANGED <<state, todo, pending, net>> /\ peers' = [peers EXCEPT ![n] = new]
    BY <1>4 DEF PurgeStalePeers
  <2>2. /\ new \in [Node -> Stats]
        /\ \A p \in Node : new[p].knownVer = 0
    BY Basics DEF WeakInv, TypeOK, RecordsStayZero
  <2> HIDE DEF new
  <2>3. peers' \in [Node -> [Node -> Stats]] BY <2>1, <2>2 DEF WeakInv, TypeOK
  <2>4. RecordsStayZero' BY <2>1, <2>2 DEF WeakInv, TypeOK, RecordsStayZero
  <2>5. TypeOK' BY <2>1, <2>3 DEF WeakInv, TypeOK
  <2> QED BY <2>1, <2>4, <2>5 DEF WeakInv, WholeMaps, Proper
<1>5. ASSUME NEW n \in Senders, NEW p \in Node, NEW t \in Clock, SendCritical(n, p, t)
      PROVE  WeakInv'
  <2> DEFINE out == {[kind |-> "critical", from |-> n, to |-> p]}
             now == {r \in pending[n] : r.key # t}
                       \union {[key |-> t, to |-> p, resent |-> 0]}
  <2>1. CASE UNCHANGED vars
    BY <2>1 DEF vars, WeakInv, TypeOK, RecordsStayZero, WholeMaps, Proper
  <2>2. CASE /\ Send(out) /\ pending' = [pending EXCEPT ![n] = now]
             /\ UNCHANGED <<state, peers, todo>>
    <3>1. n \in Node /\ pending \in [Node -> SUBSET Pending]
      BY SendersAreNodes DEF WeakInv, TypeOK
    <3>2. [key |-> t, to |-> p, resent |-> 0] \in Pending BY WeakNetBounds DEF Pending
    <3>3. now \subseteq Pending BY <3>1, <3>2
    <3>4. \A m \in out : m \in CriticalMsg BY <3>1 DEF CriticalMsg
    <3> HIDE DEF out, now
    <3>5. pending' \in [Node -> SUBSET Pending] BY <2>2, <3>1, <3>3
    <3> QED BY <2>2, <3>1, <3>4, <3>5, CriticalKeeps
  <2> QED BY <1>5, <2>1, <2>2 DEF SendCritical
<1>6. ASSUME NEW n \in Node, NEW p \in Peers(n), Grow(n, p) PROVE WeakInv'
  <2>1. p \in Node BY DEF Peers
  <2>2. peers[n][p] \in Stats BY <2>1 DEF WeakInv, TypeOK
  <2>3. peers' = [peers EXCEPT ![n][p].lastSeen = "stale"] BY <1>6 DEF Grow
  <2>4. UNCHANGED <<state, todo, pending, net>> BY <1>6 DEF Grow
  <2>5. [peers[n][p] EXCEPT !.lastSeen = "stale"]
          = [knownVer |-> peers[n][p].knownVer, lastSeen |-> "stale"]
    BY <2>2 DEF Stats
  <2>6. [knownVer |-> peers[n][p].knownVer, lastSeen |-> "stale"] \in Stats
    BY <2>2 DEF Stats
  <2>7. \A q, r \in Node : peers'[q][r] = IF q = n /\ r = p
                  THEN [knownVer |-> peers[n][p].knownVer, lastSeen |-> "stale"]
                  ELSE peers[q][r]
    BY <2>1, <2>3, <2>5 DEF WeakInv, TypeOK
  <2>8. peers' \in [Node -> [Node -> Stats]]
    BY <2>1, <2>3, <2>5, <2>6 DEF WeakInv, TypeOK
  <2>9. RecordsStayZero' BY <2>1, <2>7 DEF WeakInv, RecordsStayZero
  <2>10. TypeOK' BY <2>4, <2>8 DEF WeakInv, TypeOK
  <2> QED BY <2>4, <2>9, <2>10 DEF WeakInv, WholeMaps, Proper
<1>7. ASSUME NEW m \in net, HandleCritical(m) PROVE WeakInv'
  BY <1>7 DEF HandleCritical, WeakInv, TypeOK, RecordsStayZero, WholeMaps, Proper
<1>8. ASSUME NEW m \in net, Lose(m) PROVE WeakInv'
  BY <1>8 DEF Lose, WeakInv, TypeOK, RecordsStayZero, WholeMaps, Proper
<1>9. CASE UNCHANGED vars
  BY <1>9 DEF vars, WeakInv, TypeOK, RecordsStayZero, WholeMaps, Proper
<1> QED
  BY <1>1, <1>2, <1>3, <1>4, <1>5, <1>6, <1>7, <1>8, <1>9,
     SendPushPullKeeps, HandlePushPullKeeps DEF Next

\* Maps, statistics and messages keep their types, and the record of a peer
\* never leaves 0, whatever peers send: every delta is the whole map.
THEOREM RecordsNeverRise == Spec => [](TypeOK /\ RecordsStayZero)
<1>1. WeakInv => TypeOK /\ RecordsStayZero BY DEF WeakInv
<1> QED BY <1>1, WeakInit, WeakStep, PTL DEF Spec

\* No entry that its receiver lacks is left out of a delta.
THEOREM DeltasLoseNothing == Spec => []DeltaLosesNothing
<1>1. WeakInv => DeltaLosesNothing
  BY DEF WeakInv, WholeMaps, DeltaLosesNothing
<1> QED BY <1>1, WeakInit, WeakStep, PTL DEF Spec

\* The value of a key changes on a node only with an increase of its version,
\* whatever deltas arrive and however many nodes write the key.
THEOREM WeakNetNeverRegresses == Spec => NoRegress
<1> DEFINE Keeps == \A n \in Node, k \in Key :
                       \/ state'[n][k] = state[n][k]
                       \/ state'[n][k].ver > state[n][k].ver
<1>1. ASSUME WeakInv, [Next]_vars PROVE [Keeps]_vars
  <2>1. ASSUME NEW n \in Node, NEW k \in Key, NEW v \in Value, Set(n, k, v)
        PROVE  Keeps
    BY <1>1, <2>1, SetEffect DEF WeakInv
  <2>2. ASSUME NEW m \in net, HandlePushPull(m) PROVE Keeps
    BY <1>1, <2>2, MergeEffect
  <2>3. ASSUME state' = state PROVE Keeps BY <2>3
  <2>4. CASE /\ ~\E n \in Node, k \in Key, v \in Value : Set(n, k, v)
             /\ ~\E m \in net : HandlePushPull(m)
             /\ Next
    <3>1. state' = state
      BY <2>4 DEF Next, SyncRound, RetransmitCheck, PurgeStalePeers, SendPushPull,
                  SendCritical, vars, Grow, HandleCritical, Lose
    <3> QED BY <2>3, <3>1
  <2> QED BY <1>1, <2>1, <2>2, <2>4
<1>2. WeakInv /\ [Next]_vars => [Keeps]_vars BY <1>1
<1> QED BY <1>2, WeakInit, WeakStep, PTL DEF Spec, NoRegress
=============================================================================
