---------------------------- MODULE GossipProofs ----------------------------
(***************************************************************************)
(* Merging never loses a newer value, for every number of nodes and keys;  *)
(* and with one writer per key, versions decide what the value is.         *)
(***************************************************************************)
EXTENDS Gossip, TLAPS

\* Entry e of key k was written by some Set.
IsWritten(e, k) ==
    e.ver > 0 => [key |-> k, ver |-> e.ver, val |-> e.val] \in written

\* Values are not made up: what nodes hold and messages carry was written.
AllWritten == /\ \A n \in Node, k \in Key : IsWritten(state[n][k], k)
              /\ \A m \in net, k \in Key : IsWritten(m.state[k], k)

\* A version of a key with a single writer is given once.
WrittenOnce ==
    \A x, y \in written :
        SingleWriter(x.key) /\ x.key = y.key /\ x.ver = y.ver => x.val = y.val

\* The single writer of a key has the newest version of it.
WriterAhead ==
    \A x \in written : SingleWriter(x.key) =>
        \A w \in Writers[x.key] : x.ver <= state[w][x.key].ver

GossipInv == TypeOK /\ AllWritten
WriterInv == GossipInv /\ WrittenOnce /\ WriterAhead

\* The invariant holds of new nodes (New).
LEMMA GossipInit == Init => GossipInv
<1> SUFFICES ASSUME Init PROVE GossipInv
  OBVIOUS
<1>1. Absent \in Entry BY GossipBounds DEF Absent, Entry, Version
<1>2. \A n \in Node, k \in Key : state[n][k] = Absent BY DEF Init
<1>3. state \in [Node -> State] BY <1>1 DEF Init, State
<1>4. TypeOK BY <1>2, <1>3 DEF Init, TypeOK, Absent
<1>5. AllWritten BY <1>2 DEF Init, AllWritten, IsWritten, Absent
<1> QED BY <1>4, <1>5 DEF GossipInv

\* A Set replaces one entry by a written one of the next version.
LEMMA SetKeeps ==
    ASSUME GossipInv, NEW n \in Node, NEW k \in Key, NEW v \in Value, Set(n, k, v)
    PROVE  GossipInv'
<1> DEFINE e == [val |-> v, ver |-> NextVersion(n, k)]
<1>1. state[n][k].ver \in Nat /\ state[n] \in State
  BY GossipBounds DEF GossipInv, TypeOK, State, Entry, Version
<1>2. e \in Entry /\ e.ver > 0 /\ e.ver \in Version /\ e.val = v
  BY <1>1, GossipBounds DEF Set, NextVersion, Entry, Version
<1>3. /\ state' \in [Node -> State]
      /\ \A p \in Node, j \in Key :
            state'[p][j] = IF p = n /\ j = k THEN e ELSE state[p][j]
  BY <1>2 DEF Set, GossipInv, TypeOK, State
<1>4. /\ written' = written \union {[key |-> k, ver |-> e.ver, val |-> v]}
      /\ net' = net
  BY DEF Set
<1>5. TypeOK'
  <2>1. written' \subseteq [key : Key, ver : Version, val : Value]
    BY <1>2, <1>4 DEF GossipInv, TypeOK
  <2>2. \A p \in Node, j \in Key : state'[p][j].val = NoValue <=> state'[p][j].ver = 0
    BY <1>2, <1>3, NoValueIsNone DEF GossipInv, TypeOK
  <2> QED BY <1>3, <1>4, <2>1, <2>2 DEF GossipInv, TypeOK
<1>6. AllWritten'
  BY <1>2, <1>3, <1>4 DEF GossipInv, AllWritten, IsWritten
<1> QED BY <1>5, <1>6 DEF GossipInv

\* A round sends what the node holds.
LEMMA TickKeeps ==
    ASSUME GossipInv, NEW n \in Node, NEW targets \in SUBSET Peers(n),
           NEW old \in SUBSET net, OnTick(n, targets, old)
    PROVE  GossipInv'
<1>1. UNCHANGED <<state, written>> BY DEF OnTick
<1>2. PICK c \in 1..MaxCopies :
        net' = (net \ old)
                 \union {[m EXCEPT !.seen = FALSE] : m \in old}
                 \union {[from |-> n, to |-> p, state |-> state[n],
                          copies |-> c, seen |-> FALSE] : p \in targets}
  BY DEF OnTick, EvictSeen, GossipRound
<1>3. \A m \in net' : /\ m \in Message
                      /\ \A k \in Key : IsWritten(m.state[k], k)
  <2> TAKE m \in net'
  <2>1. CASE m \in net
    BY <2>1 DEF GossipInv, TypeOK, AllWritten
  <2>2. CASE \E o \in old : m = [o EXCEPT !.seen = FALSE]
    <3>1. PICK o \in net : m = [o EXCEPT !.seen = FALSE] BY <2>2
    <3>2. o \in Message BY DEF GossipInv, TypeOK
    <3>3. m \in Message /\ m.state = o.state BY <3>1, <3>2 DEF Message
    <3> QED BY <3>3 DEF GossipInv, AllWritten
  <2>3. CASE \E p \in targets : m = [from |-> n, to |-> p, state |-> state[n],
                                     copies |-> c, seen |-> FALSE]
    <3>1. m \in Message /\ m.state = state[n]
      BY <2>3 DEF Message, Peers, GossipInv, TypeOK
    <3> QED BY <3>1 DEF GossipInv, AllWritten
  <2> QED BY <1>2, <2>1, <2>2, <2>3
<1>4. TypeOK' BY <1>1, <1>3 DEF GossipInv, TypeOK
<1>5. AllWritten' BY <1>1, <1>3 DEF GossipInv, AllWritten, IsWritten
<1> QED BY <1>4, <1>5 DEF GossipInv

\* Receiving replaces entries by newer ones that the message carries.
LEMMA ReceiveEffect ==
    ASSUME GossipInv, NEW m \in net, OnMessage(m)
    PROVE  /\ state' \in [Node -> State]
           /\ \A n \in Node, k \in Key :
                 \/ state'[n][k] = state[n][k]
                 \/ /\ state'[n][k] = m.state[k]
                    /\ state'[n][k].ver > state[n][k].ver
           /\ net' \subseteq Message
           /\ \A r \in net' : r \in net \/ r.state = m.state
           /\ written' = written
<1>1. m \in Message BY DEF GossipInv, TypeOK
<1>2. m.to \in Node /\ m.state \in State BY <1>1 DEF Message
<1>3. written' = written BY DEF OnMessage
<1>4. /\ net' \subseteq Message
      /\ \A r \in net' : r \in net \/ r.state = m.state
  <2> SUFFICES ASSUME NEW r \in net' PROVE r \in Message /\ (r \in net \/ r.state = m.state)
    OBVIOUS
  <2>1. CASE r \in net BY <2>1 DEF GossipInv, TypeOK
  <2>2. CASE r = [m EXCEPT !.copies = @ - 1, !.seen = TRUE] /\ r.copies > 0
    <3>1. m.copies \in 1..MaxCopies /\ MaxCopies \in Nat
      BY <1>1, GossipBounds DEF Message
    <3>2. r = [from |-> m.from, to |-> m.to, state |-> m.state,
               copies |-> m.copies - 1, seen |-> TRUE]
      BY <1>1, <2>2 DEF Message
    <3>3. m.copies - 1 \in 1..MaxCopies BY <2>2, <3>1, <3>2
    <3> QED BY <1>1, <3>2, <3>3 DEF Message
  <2> QED BY <2>1, <2>2 DEF OnMessage
<1>5. CASE m.seen
  BY <1>3, <1>4, <1>5 DEF OnMessage, GossipInv, TypeOK
<1>6. CASE ~m.seen
  <2> DEFINE new == [k \in Key |-> Merge(state[m.to][k], m.state[k])]
  <2>1. state' = [state EXCEPT ![m.to] = new] BY <1>6 DEF OnMessage
  <2>2. state[m.to] \in State BY <1>2 DEF GossipInv, TypeOK
  <2>3. \A k \in Key : \/ new[k] = state[m.to][k]
                       \/ new[k] = m.state[k] /\ new[k].ver > state[m.to][k].ver
    BY DEF Merge
  <2>4. new \in State BY <1>2, <2>2, <2>3 DEF State
  <2>5. state' \in [Node -> State] BY <2>1, <2>4, <1>2 DEF GossipInv, TypeOK
  <2>6. \A n \in Node : state'[n] = IF n = m.to THEN new ELSE state[n]
    BY <2>1, <1>2 DEF GossipInv, TypeOK
  <2> QED BY <1>3, <1>4, <2>3, <2>5, <2>6
<1> QED BY <1>5, <1>6

\* Receiving keeps the invariant.
LEMMA ReceiveKeeps ==
    ASSUME GossipInv, NEW m \in net, OnMessage(m)
    PROVE  GossipInv'
<1>1. /\ state' \in [Node -> State]
      /\ \A n \in Node, k \in Key :
            \/ state'[n][k] = state[n][k]
            \/ /\ state'[n][k] = m.state[k]
               /\ state'[n][k].ver > state[n][k].ver
      /\ net' \subseteq Message
      /\ \A r \in net' : r \in net \/ r.state = m.state
      /\ written' = written
  BY ReceiveEffect
<1>2. AllWritten'
  BY <1>1 DEF GossipInv, AllWritten, IsWritten
<1>3. \A n \in Node, k \in Key : state'[n][k].val = NoValue <=> state'[n][k].ver = 0
  <2> TAKE n \in Node, k \in Key
  <2>1. CASE state'[n][k] = state[n][k] BY <2>1 DEF GossipInv, TypeOK
  <2>2. CASE state'[n][k].ver > state[n][k].ver
    <3>1. state[n][k].ver \in Nat /\ state'[n][k].ver \in Nat
      BY <1>1, GossipBounds DEF GossipInv, TypeOK, State, Entry, Version
    <3>2. [key |-> k, ver |-> state'[n][k].ver, val |-> state'[n][k].val] \in written
      BY <1>1, <1>2, <2>2, <3>1 DEF AllWritten, IsWritten
    <3>3. state'[n][k].val \in Value BY <3>2 DEF GossipInv, TypeOK
    <3> QED BY <2>2, <3>1, <3>3, NoValueIsNone
  <2> QED BY <1>1, <2>1, <2>2
<1>4. TypeOK' BY <1>1, <1>3 DEF GossipInv, TypeOK
<1> QED BY <1>2, <1>4 DEF GossipInv

\* Every step keeps the invariant.
LEMMA GossipStep == GossipInv /\ [Next]_vars => GossipInv'
<1> SUFFICES ASSUME GossipInv, [Next]_vars PROVE GossipInv'
  OBVIOUS
<1>1. ASSUME NEW m \in net, Lose(m) PROVE GossipInv'
  BY <1>1 DEF Lose, GossipInv, TypeOK, AllWritten, IsWritten
<1>2. CASE UNCHANGED vars
  BY <1>2 DEF vars, GossipInv, TypeOK, AllWritten, IsWritten
<1> QED BY <1>1, <1>2, SetKeeps, TickKeeps, ReceiveKeeps DEF Next

\* Nodes and messages always hold well-formed versioned values.
THEOREM GossipTypeCorrect == Spec => []TypeOK
<1>1. GossipInv => TypeOK BY DEF GossipInv
<1> QED BY <1>1, GossipInit, GossipStep, PTL DEF Spec

\* The value of a key changes on a node only with an increase of its version,
\* whatever the network does and however many nodes write the key.
THEOREM GossipNeverRegresses == Spec => NoRegress
<1> DEFINE Keeps == \A n \in Node, k \in Key :
                       \/ state'[n][k] = state[n][k]
                       \/ state'[n][k].ver > state[n][k].ver
<1>1. ASSUME GossipInv, [Next]_vars PROVE [Keeps]_vars
  <2>1. ASSUME NEW n \in Node, NEW k \in Key, NEW v \in Value, Set(n, k, v)
        PROVE  Keeps
    <3>1. state[n][k].ver \in Nat /\ state[n] \in State
      BY <1>1, GossipBounds DEF GossipInv, TypeOK, State, Entry, Version
    <3>2. \A p \in Node, j \in Key :
             state'[p][j] = IF p = n /\ j = k
                            THEN [val |-> v, ver |-> NextVersion(n, k)]
                            ELSE state[p][j]
      BY <1>1, <2>1 DEF Set, GossipInv, TypeOK, State
    <3> QED BY <3>1, <3>2 DEF NextVersion
  <2>2. ASSUME NEW m \in net, OnMessage(m) PROVE Keeps
    BY <1>1, <2>2, ReceiveEffect
  <2>3. ASSUME state' = state PROVE Keeps BY <2>3
  <2>4. ASSUME NEW n \in Node, NEW targets \in SUBSET Peers(n),
               NEW old \in SUBSET net, OnTick(n, targets, old)
        PROVE  Keeps
    BY <2>3, <2>4 DEF OnTick
  <2>5. ASSUME NEW m \in net, Lose(m) PROVE Keeps
    BY <2>3, <2>5 DEF Lose
  <2> QED BY <1>1, <2>1, <2>2, <2>4, <2>5 DEF Next
<1>2. GossipInv /\ [Next]_vars => [Keeps]_vars BY <1>1
<1> QED BY <1>2, GossipInit, GossipStep, PTL DEF Spec, NoRegress

\* Every step keeps what is special about keys with one writer.
LEMMA WriterStep ==
    ASSUME WriterInv, [Next]_vars
    PROVE  WriterInv'
<1>1. GossipInv' BY GossipStep DEF WriterInv
<1>2. ASSUME NEW n \in Node, NEW k \in Key, NEW v \in Value, Set(n, k, v)
      PROVE  WrittenOnce' /\ WriterAhead'
  <2> DEFINE e == [val |-> v, ver |-> NextVersion(n, k)]
             x == [key |-> k, ver |-> e.ver, val |-> v]
  <2>1. /\ state[n][k].ver \in Nat /\ e.ver = state[n][k].ver + 1
        /\ n \in Writers[k] /\ written' = written \union {x}
    BY <1>2, GossipBounds
    DEF Set, NextVersion, WriterInv, GossipInv, TypeOK, State, Entry, Version
  <2>2. \A p \in Node, j \in Key :
           state'[p][j] = IF p = n /\ j = k THEN e ELSE state[p][j]
    BY <1>2 DEF Set, WriterInv, GossipInv, TypeOK, State
  <2>3. \A y \in written : /\ y.key \in Key /\ y.ver \in Nat
                           /\ SingleWriter(k) /\ y.key = k => y.ver <= state[n][k].ver
    BY <2>1, GossipBounds DEF WriterInv, GossipInv, TypeOK, WriterAhead, Version
  <2>4. WrittenOnce'
    BY <2>1, <2>3 DEF WriterInv, WrittenOnce
  <2>5. WriterAhead'
    <3> SUFFICES ASSUME NEW y \in written', SingleWriter(y.key),
                        NEW w \in Writers[y.key]
                 PROVE  y.ver <= state'[w][y.key].ver
      BY DEF WriterAhead
    <3>1. y.key \in Key BY <2>1, <2>3
    <3>2. w \in Node BY <3>1, WritersAreNodes
    <3>3. CASE y = x
      BY <2>1, <2>2, <3>1, <3>2, <3>3 DEF SingleWriter
    <3>4. CASE y \in written /\ y.key = k
      BY <2>1, <2>2, <2>3, <3>1, <3>2, <3>4 DEF SingleWriter
    <3>5. CASE y \in written /\ y.key # k
      BY <2>2, <3>1, <3>2, <3>5 DEF WriterInv, WriterAhead
    <3> QED BY <2>1, <3>3, <3>4, <3>5
  <2> QED BY <2>4, <2>5
<1>3. ASSUME written' = written,
             \A n \in Node, k \in Key : \/ state'[n][k] = state[n][k]
                                        \/ state'[n][k].ver > state[n][k].ver
      PROVE  WrittenOnce' /\ WriterAhead'
  <2>1. WrittenOnce' BY <1>3 DEF WriterInv, WrittenOnce
  <2>2. ASSUME NEW y \in written, SingleWriter(y.key), NEW w \in Writers[y.key]
        PROVE  y.ver <= state'[w][y.key].ver
    <3>1. y.key \in Key /\ y.ver \in Nat
      BY GossipBounds DEF WriterInv, GossipInv, TypeOK, Version
    <3>2. w \in Node BY <3>1, WritersAreNodes
    <3>3. state[w][y.key].ver \in Nat /\ state'[w][y.key].ver \in Nat
      BY <1>1, <3>1, <3>2, GossipBounds
      DEF WriterInv, GossipInv, TypeOK, State, Entry, Version
    <3>4. y.ver <= state[w][y.key].ver BY <2>2 DEF WriterInv, WriterAhead
    <3> QED BY <1>3, <3>1, <3>2, <3>3, <3>4
  <2> QED BY <1>3, <2>1, <2>2 DEF WriterAhead
<1>4. ASSUME NEW m \in net, OnMessage(m) PROVE WrittenOnce' /\ WriterAhead'
  BY <1>3, <1>4, ReceiveEffect DEF WriterInv
<1>5. ASSUME UNCHANGED <<state, written>> PROVE WrittenOnce' /\ WriterAhead'
  BY <1>3, <1>5
<1>6. ASSUME NEW n \in Node, NEW targets \in SUBSET Peers(n),
             NEW old \in SUBSET net, OnTick(n, targets, old)
      PROVE  WrittenOnce' /\ WriterAhead'
  BY <1>5, <1>6 DEF OnTick
<1>7. ASSUME NEW m \in net, Lose(m) PROVE WrittenOnce' /\ WriterAhead'
  BY <1>5, <1>7 DEF Lose
<1>8. ASSUME UNCHANGED vars PROVE WrittenOnce' /\ WriterAhead'
  BY <1>5, <1>8 DEF vars
<1>9. WrittenOnce' /\ WriterAhead'
  BY <1>2, <1>4, <1>6, <1>7, <1>8 DEF Next
<1> QED BY <1>1, <1>9 DEF WriterInv

\* If a key has one writer, nodes with the same version of it have the
\* same value, and nobody is ahead of the writer: versions are enough to
\* decide a merge.
THEOREM SingleWriterAgrees == Spec => []VersionsAgree
<1>1. Init => WriterInv
  BY GossipInit DEF Init, WriterInv, WrittenOnce, WriterAhead
<1>2. WriterInv /\ [Next]_vars => WriterInv' BY WriterStep
<1>3. WriterInv => VersionsAgree
  <2> SUFFICES ASSUME WriterInv, NEW k \in Key, SingleWriter(k)
               PROVE  /\ \A n, p \in Node : state[n][k].ver = state[p][k].ver
                                               => state[n][k] = state[p][k]
                      /\ \A n \in Node, w \in Writers[k] :
                            state[n][k].ver <= state[w][k].ver
    BY DEF VersionsAgree
  <2>1. \A n \in Node : /\ state[n][k] \in Entry /\ state[n][k].ver \in Nat
                        /\ state[n][k].val = NoValue <=> state[n][k].ver = 0
    BY GossipBounds DEF WriterInv, GossipInv, TypeOK, State, Entry, Version
  <2>2. \A n \in Node : state[n][k].ver > 0 =>
           [key |-> k, ver |-> state[n][k].ver, val |-> state[n][k].val] \in written
    BY DEF WriterInv, GossipInv, AllWritten, IsWritten
  <2>3. ASSUME NEW n \in Node, NEW p \in Node, state[n][k].ver = state[p][k].ver
        PROVE  state[n][k] = state[p][k]
    <3>1. state[n][k].val = state[p][k].val
      <4>1. CASE state[n][k].ver = 0 BY <2>1, <2>3, <4>1
      <4>2. CASE state[n][k].ver > 0
        <5> DEFINE x == [key |-> k, ver |-> state[n][k].ver, val |-> state[n][k].val]
                   y == [key |-> k, ver |-> state[p][k].ver, val |-> state[p][k].val]
        <5>1. x \in written /\ y \in written BY <2>2, <2>3, <4>2
        <5>2. x.key = y.key /\ x.ver = y.ver BY <2>3
        <5>3. x.val = y.val BY <5>1, <5>2 DEF WriterInv, WrittenOnce
        <5> QED BY <5>3
      <4> QED BY <2>1, <4>1, <4>2
    <3> QED BY <2>1, <2>3, <3>1 DEF Entry
  <2>4. ASSUME NEW n \in Node, NEW w \in Writers[k]
        PROVE  state[n][k].ver <= state[w][k].ver
    <3>1. w \in Node BY WritersAreNodes
    <3>2. CASE state[n][k].ver = 0 BY <2>1, <3>1, <3>2
    <3>3. CASE state[n][k].ver > 0
      <4> DEFINE x == [key |-> k, ver |-> state[n][k].ver, val |-> state[n][k].val]
      <4>1. x \in written BY <2>2, <3>3
      <4>2. x.key = k /\ x.ver = state[n][k].ver OBVIOUS
      <4> HIDE DEF x
      <4> QED BY <4>1, <4>2 DEF WriterInv, WriterAhead
    <3> QED BY <2>1, <3>2, <3>3
  <2> QED BY <2>3, <2>4
<1> QED BY <1>1, <1>2, <1>3, PTL DEF Spec
=============================================================================
