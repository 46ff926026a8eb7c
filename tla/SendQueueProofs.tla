--------------------------- MODULE SendQueueProofs ---------------------------
(***************************************************************************)
(* The safety of the outbound queue for any number of producers, any set   *)
(* of priorities and any capacity: no lost wake-up, bounded memory, and    *)
(* messages that are overtaken only by later ones.                         *)
(***************************************************************************)
EXTENDS SendQueue, TLAPS, FiniteSetTheorems

\* What has been popped is older than anything still queued that is at least
\* as urgent: the link between the history and the queue that makes
\* ServiceOrder inductive.
PoppedFirst ==
    \A i \in 1..Len(popped) :
        /\ popped[i].seq <= counter
        /\ \A x \in queue : x.prio <= popped[i].prio => popped[i].seq < x.seq

\* Two items of the heap never carry the same insertion number.
DistinctSeq == \A x, y \in queue : x.seq = y.seq => x = y

\* The capacity bound, for a set that is finite to begin with.
FiniteBounded == IsFiniteSet(queue) /\ Bounded

QueueInv == /\ TypeOK /\ NoLostWakeup /\ FiniteBounded
            /\ DistinctSeq /\ PoppedFirst /\ ServiceOrder

\* Priorities and insertion numbers are natural numbers.
LEMMA ItemFields == \A x \in Item : x.seq \in Nat /\ x.prio \in Nat
<1> SUFFICES ASSUME NEW x \in Item PROVE x.seq \in Nat /\ x.prio \in Nat
  OBVIOUS
<1>1. x.seq \in 1..MaxPush /\ x.prio \in Priority BY DEF Item
<1>2. x.seq \in Nat BY <1>1, MaxPushNat
<1>3. x.prio \in Nat BY <1>1, PriorityNat, Zenon
<1> QED BY <1>2, <1>3

\* The invariant holds of a new queue (NewSendQueue).
LEMMA QueueInit == Init => QueueInv
<1> SUFFICES ASSUME Init PROVE QueueInv
  OBVIOUS
<1>1. TypeOK
  <2>1. 0 \in 0..MaxPush BY MaxPushNat
  <2>2. loop = "send" <=> hand # None BY DEF Init
  <2>3. popped \in Seq(Item) BY DEF Init
  <2> QED BY <2>1, <2>2, <2>3 DEF Init, TypeOK
<1>2. FiniteBounded
  BY CapPositive, FS_EmptySet DEF Init, FiniteBounded, Bounded
<1>3. NoLostWakeup /\ DistinctSeq /\ PoppedFirst /\ ServiceOrder
  BY DEF Init, NoLostWakeup, DistinctSeq, PoppedFirst, ServiceOrder
<1> QED BY <1>1, <1>2, <1>3 DEF QueueInv

\* Push under the lock: the new item has a number above every other, and an
\* eviction makes room for it when the queue is full.
LEMMA PushKeeps ==
    ASSUME QueueInv, NEW p \in Producer, NEW prio \in Priority, Push(p, prio)
    PROVE  QueueInv'
<1> DEFINE new == [prio |-> prio, seq |-> counter + 1]
<1>1. /\ new \in Item /\ new.prio = prio /\ new.seq = counter + 1
      /\ counter \in Nat /\ counter + 1 <= MaxPush /\ MaxPush \in Nat
  BY MaxPushNat DEF Push, Item, QueueInv, TypeOK
<1>2. PICK keep \in SUBSET queue :
        /\ queue' = keep \union {new}
        /\ \/ keep = queue /\ ~Full /\ UNCHANGED evicted
           \/ \E x \in queue : /\ keep = queue \ {x}
                               /\ evicted' = evicted \union {x}
  <2>1. CASE ~Full BY <2>1 DEF Push
  <2>2. CASE Full
    <3>1. PICK x \in queue : /\ queue' = (queue \ {x}) \union {new}
                             /\ evicted' = evicted \union {x}
      BY <2>2 DEF Push
    <3> QED BY <3>1
  <2> QED BY <2>1, <2>2
<1>3. \A x \in keep : /\ x \in queue /\ x \in Item /\ x.seq <= counter
                      /\ x.seq \in Nat
  BY MaxPushNat DEF QueueInv, TypeOK, Item
<1>4. /\ counter' = counter + 1
      /\ pushing' = pushing \union {p}
      /\ UNCHANGED <<notifyC, loop, hand, stopCh, popped, sent, failed>>
  BY DEF Push
<1>5. TypeOK'
  <2>1. queue' \subseteq Item /\ counter' \in 0..MaxPush
    BY <1>1, <1>2, <1>3, <1>4
  <2>2. \A x \in queue' : x.seq <= counter'
    BY <1>1, <1>2, <1>3, <1>4
  <2>3. evicted' \subseteq Item
    <3>1. CASE UNCHANGED evicted BY <3>1 DEF QueueInv, TypeOK
    <3>2. CASE \E x \in queue : evicted' = evicted \union {x}
      <4>1. PICK x \in queue : evicted' = evicted \union {x} BY <3>2
      <4>2. x \in Item /\ evicted \subseteq Item
        BY DEF QueueInv, TypeOK
      <4> QED BY <4>1, <4>2
    <3> QED BY <1>2, <3>1, <3>2
  <2>4. /\ pushing' \subseteq Producer
        /\ notifyC' \in BOOLEAN /\ stopCh' \in BOOLEAN
        /\ loop' \in {"wait", "drain", "send", "returned"}
        /\ hand' \in Item \union {None}
        /\ loop' = "send" <=> hand' # None
        /\ popped' \in Seq(Item)
        /\ sent' \subseteq Item /\ failed' \subseteq Item
    BY <1>4 DEF QueueInv, TypeOK
  <2> QED BY <2>1, <2>2, <2>3, <2>4 DEF TypeOK
<1>6. NoLostWakeup'
  BY <1>4 DEF NoLostWakeup
<1>7. FiniteBounded'
  <2>1. IsFiniteSet(queue) /\ Cardinality(queue) \in Nat /\ Cardinality(queue) <= Cap
    BY FS_CardinalityType DEF QueueInv, FiniteBounded, Bounded
  <2>2. /\ IsFiniteSet(keep) /\ Cardinality(keep) \in Nat
        /\ Cardinality(keep) < Cap
    <3>1. CASE keep = queue /\ ~Full
      BY <2>1, <3>1, CapPositive DEF Full
    <3>2. CASE \E x \in queue : keep = queue \ {x}
      <4>1. PICK x \in queue : keep = queue \ {x} BY <3>2
      <4>2. IsFiniteSet(keep) /\ Cardinality(keep) = Cardinality(queue) - 1
        BY <2>1, <4>1, FS_RemoveElement
      <4>3. Cardinality(keep) \in Nat BY <4>2, FS_CardinalityType
      <4> QED BY <2>1, <4>2, <4>3, CapPositive
    <3> QED BY <1>2, <3>1, <3>2
  <2>3. new \notin keep BY <1>1, <1>3
  <2>4. IsFiniteSet(queue') /\ Cardinality(queue') = Cardinality(keep) + 1
    BY <1>2, <2>2, <2>3, FS_AddElement
  <2> QED BY <2>2, <2>4, CapPositive DEF FiniteBounded, Bounded
<1>8. DistinctSeq'
  BY <1>1, <1>2, <1>3 DEF QueueInv, DistinctSeq
<1>9. PoppedFirst' /\ ServiceOrder'
  <2>1. ServiceOrder' BY <1>4 DEF QueueInv, ServiceOrder
  <2> SUFFICES ASSUME NEW i \in 1..Len(popped)
               PROVE  /\ popped[i].seq <= counter'
                      /\ \A x \in queue' : x.prio <= popped[i].prio
                                              => popped[i].seq < x.seq
    BY <1>4, <2>1 DEF PoppedFirst
  <2>2. popped[i] \in Item BY DEF QueueInv, TypeOK
  <2>3. popped[i].seq \in Nat /\ popped[i].seq <= counter
    BY <2>2, MaxPushNat DEF Item, QueueInv, PoppedFirst
  <2>4. \A x \in keep : x.prio <= popped[i].prio => popped[i].seq < x.seq
    BY DEF QueueInv, PoppedFirst
  <2> QED BY <1>1, <1>2, <1>4, <2>3, <2>4
<1> QED BY <1>5, <1>6, <1>7, <1>8, <1>9 DEF QueueInv

\* Pop takes an item that is more urgent, or older, than all that stay.
LEMMA PopKeeps == ASSUME QueueInv, Pop PROVE QueueInv'
<1>1. PICK x \in queue : /\ \A y \in queue : ~Less(y, x)
                         /\ queue' = queue \ {x}
                         /\ hand' = x
                         /\ popped' = Append(popped, x)
  BY DEF Pop
<1>2. /\ loop' = "send"
      /\ UNCHANGED <<counter, notifyC, pushing, stopCh, sent, failed, evicted>>
  BY DEF Pop
<1>3. /\ x \in Item /\ x.seq \in Nat /\ x.prio \in Nat /\ x.seq <= counter
      /\ counter \in Nat
  BY ItemFields, MaxPushNat DEF QueueInv, TypeOK
<1>4. TypeOK'
  <2>1. popped' \in Seq(Item) BY <1>1, <1>3 DEF QueueInv, TypeOK
  <2>2. hand' # None /\ hand' \in Item BY <1>1, <1>3, NoneNotItem
  <2> QED BY <1>1, <1>2, <2>1, <2>2 DEF QueueInv, TypeOK
<1>5. NoLostWakeup' BY <1>2 DEF NoLostWakeup
<1>6. FiniteBounded'
  <2>1. /\ IsFiniteSet(queue) /\ Cardinality(queue) \in Nat 
        /\ Cardinality(queue) <= Cap
    BY FS_CardinalityType DEF QueueInv, FiniteBounded, Bounded
  <2>2. IsFiniteSet(queue') /\ Cardinality(queue') = Cardinality(queue) - 1
    BY <1>1, <2>1, FS_RemoveElement
  <2> QED BY <2>1, <2>2, CapPositive DEF FiniteBounded, Bounded
<1>7. DistinctSeq' BY <1>1 DEF QueueInv, DistinctSeq
<1>8. \A y \in queue' : /\ y.seq \in Nat /\ y.prio \in Nat
                        /\ y.prio <= x.prio => x.seq < y.seq
  <2> SUFFICES ASSUME NEW y \in queue'
               PROVE  /\ y.seq \in Nat /\ y.prio \in Nat
                      /\ y.prio <= x.prio => x.seq < y.seq
    OBVIOUS
  <2>1. y \in queue /\ y # x BY <1>1
  <2>2. y.seq \in Nat /\ y.prio \in Nat
    BY <2>1, ItemFields DEF QueueInv, TypeOK
  <2>3. y.seq # x.seq BY <2>1 DEF QueueInv, DistinctSeq
  <2> QED BY <1>1, <1>3, <2>1, <2>2, <2>3 DEF Less
<1>9. /\ Len(popped) \in Nat /\ Len(popped') = Len(popped) + 1
      /\ \A i \in 1..Len(popped') :
            popped'[i] = IF i <= Len(popped) THEN popped[i] ELSE x
  BY <1>1, <1>3 DEF QueueInv, TypeOK
<1>10. PoppedFirst'
  <2> SUFFICES ASSUME NEW i \in 1..Len(popped')
               PROVE  /\ popped'[i].seq <= counter
                      /\ \A y \in queue' : y.prio <= popped'[i].prio
                                              => popped'[i].seq < y.seq
    BY <1>2 DEF PoppedFirst
  <2>1. CASE i <= Len(popped)
    BY <1>1, <1>9, <2>1 DEF QueueInv, PoppedFirst
  <2>2. CASE i > Len(popped)
    BY <1>3, <1>8, <1>9, <2>2
  <2> QED BY <1>9, <2>1, <2>2
<1>11. ServiceOrder'
  <2> SUFFICES ASSUME NEW i \in 1..Len(popped'), NEW j \in 1..Len(popped'),
                      i < j, popped'[j].prio <= popped'[i].prio
               PROVE  popped'[i].seq < popped'[j].seq
    BY DEF ServiceOrder
  <2>1. i <= Len(popped) /\ popped'[i] = popped[i] /\ i \in 1..Len(popped)
    BY <1>9
  <2>2. CASE j <= Len(popped)
    BY <1>9, <2>1, <2>2 DEF QueueInv, ServiceOrder
  <2>3. CASE j > Len(popped)
    <3>1. popped'[j] = x BY <1>9, <2>3
    <3> QED BY <1>1, <2>1, <3>1 DEF QueueInv, PoppedFirst
  <2> QED BY <1>9, <2>2, <2>3
<1> QED BY <1>4, <1>5, <1>6, <1>7, <1>10, <1>11 DEF QueueInv

\* The steps that leave the queue and the history of pops alone: the
\* notification, waking, returning, the end of a drain, the call of the
\* transport and Stop.
LEMMA OtherKeeps ==
    ASSUME QueueInv,
           \/ \E p \in Producer : Notify(p)
           \/ Wake \/ Return \/ PopEmpty \/ Stop
           \/ \E ok \in BOOLEAN : Transmit(ok)
           \/ UNCHANGED vars
    PROVE  QueueInv'
<1>1. UNCHANGED <<queue, counter, popped>>
  BY DEF Notify, Wake, Return, PopEmpty, Stop, Transmit, vars, queueVars, histories
<1>2. FiniteBounded' /\ DistinctSeq' /\ PoppedFirst' /\ ServiceOrder'
  BY <1>1 DEF QueueInv, FiniteBounded, Bounded, DistinctSeq, PoppedFirst,
              ServiceOrder
<1>3. TypeOK' /\ NoLostWakeup'
  <2>1. ASSUME NEW p \in Producer, Notify(p) PROVE TypeOK' /\ NoLostWakeup'
    BY <2>1 DEF Notify, QueueInv, TypeOK, NoLostWakeup, queueVars, histories
  <2>2. CASE Wake
    BY <2>2 DEF Wake, QueueInv, TypeOK, NoLostWakeup, queueVars, histories
  <2>3. CASE Return
    BY <2>3 DEF Return, QueueInv, TypeOK, NoLostWakeup, queueVars, histories
  <2>4. CASE PopEmpty
    BY <2>4 DEF PopEmpty, QueueInv, TypeOK, NoLostWakeup, queueVars, histories
  <2>5. CASE Stop
    BY <2>5 DEF Stop, QueueInv, TypeOK, NoLostWakeup, queueVars, histories
  <2>6. ASSUME NEW ok \in BOOLEAN, Transmit(ok) PROVE TypeOK' /\ NoLostWakeup'
    BY <2>6 DEF Transmit, QueueInv, TypeOK, NoLostWakeup, queueVars
  <2>7. CASE UNCHANGED vars
    BY <2>7 DEF vars, QueueInv, TypeOK, NoLostWakeup, queueVars, histories
  <2> QED BY <2>1, <2>2, <2>3, <2>4, <2>5, <2>6, <2>7
<1> QED BY <1>2, <1>3 DEF QueueInv

\* Every step of the specification keeps the invariant.
LEMMA QueueStep == QueueInv /\ [Next]_vars => QueueInv'
  BY PushKeeps, PopKeeps, OtherKeeps DEF Next, SendLoop

\* The invariant holds throughout.
LEMMA QueueIsSafe == Spec => []QueueInv
  BY QueueInit, QueueStep, PTL DEF Spec

\* sendLoop never sleeps on a non-empty queue with no notification on its
\* way, for any number of goroutines in Push.
THEOREM NoWakeupIsLost == Spec => [](TypeOK /\ NoLostWakeup)
<1>1. QueueInv => TypeOK /\ NoLostWakeup BY DEF QueueInv
<1> QED BY <1>1, QueueIsSafe, PTL

\* The queue holds at most Cap messages, for every capacity of at least one.
THEOREM QueueStaysBounded == Spec => []Bounded
<1>1. QueueInv => Bounded BY DEF QueueInv, FiniteBounded
<1> QED BY <1>1, QueueIsSafe, PTL

\* Messages leave the queue first-in first-out within a priority, and are
\* overtaken across priorities only by messages pushed after them.
THEOREM QueueKeepsOrder == Spec => []ServiceOrder
<1>1. QueueInv => ServiceOrder BY DEF QueueInv
<1> QED BY <1>1, QueueIsSafe, PTL

\* The state of the queue, of sendLoop and of the histories stays well typed,
\* and sendLoop holds an item exactly while it calls the transport.
THEOREM QueueTypes == Spec => []TypeOK
<1>1. QueueInv => TypeOK BY DEF QueueInv
<1> QED BY <1>1, QueueIsSafe, PTL

-----------------------------------------------------------------------------
\* What Accounted says of any five places P and n pushes, and that no place
\* holds an item numbered above the pushes: the part that makes a push safe.
AccountedIn(P, n) ==
    /\ \A m \in 1..n : \E k \in 1..5 : \E x \in P[k] : x.seq = m
    /\ \A k, l \in 1..5 : \A x \in P[k], y \in P[l] :
          k # l \/ x # y => x.seq # y.seq
    /\ \A k \in 1..5 : \A x \in P[k] : x.seq <= n

\* Five sets of items.
FivePlaces == [1..5 -> SUBSET Item]

\* Places Q are places P after item x has moved from place a to place b.
Moved(P, Q, a, b, x) ==
    \A k \in 1..5 : Q[k] = IF k = a THEN P[a] \ {x}
                           ELSE IF k = b THEN P[b] \union {x} ELSE P[k]

\* An item that moves from one place to another stays accounted for.
LEMMA MoveAccounted ==
    ASSUME NEW P \in FivePlaces, NEW Q \in FivePlaces, NEW n \in Nat,
           AccountedIn(P, n), NEW a \in 1..5, NEW b \in 1..5, a # b,
           NEW x \in P[a], Moved(P, Q, a, b, x)
    PROVE  AccountedIn(Q, n)
<1> USE DEF Moved
<1>1. \A k \in 1..5 : \A y \in Q[k] :
        \E l \in 1..5 : y \in P[l] /\ (y # x => l = k) /\ (y = x => l = a)
  OBVIOUS
<1>2. \A k \in 1..5 : x \in Q[k] => k = b
  <2>1. \A k \in 1..5 : x \in P[k] => k = a BY DEF AccountedIn
  <2> QED BY <2>1
<1>3. \A m \in 1..n : \E k \in 1..5 : \E y \in Q[k] : y.seq = m
  <2> SUFFICES ASSUME NEW m \in 1..n
               PROVE  \E k \in 1..5 : \E y \in Q[k] : y.seq = m
    OBVIOUS
  <2>k. PICK k \in 1..5 : \E y \in P[k] : y.seq = m BY DEF AccountedIn
  <2>1. PICK y \in P[k] : y.seq = m BY <2>k
  <2>2. CASE y = x /\ k = a
    <3>1. x \in Q[b] OBVIOUS
    <3> QED BY <2>1, <2>2, <3>1
  <2>3. CASE ~(y = x /\ k = a)
    <3>1. y \in Q[k] BY <2>3
    <3> QED BY <2>1, <3>1
  <2> QED BY <2>2, <2>3
<1>4. ASSUME NEW k \in 1..5, NEW l \in 1..5, NEW y \in Q[k], NEW z \in Q[l],
             k # l \/ y # z
      PROVE  y.seq # z.seq
  <2>1. PICK i \in 1..5 : y \in P[i] /\ (y # x => i = k) /\ (y = x => i = a)
    BY <1>1
  <2>2. PICK j \in 1..5 : z \in P[j] /\ (z # x => j = l) /\ (z = x => j = a)
    BY <1>1
  <2>3. y # z \/ i # j BY <1>2, <1>4, <2>1, <2>2
  <2> QED BY <2>1, <2>2, <2>3 DEF AccountedIn
<1>5. \A k \in 1..5 : \A y \in Q[k] : y.seq <= n
  BY <1>1 DEF AccountedIn
<1> QED BY <1>3, <1>4, <1>5 DEF AccountedIn

\* An item that arrives with the next number is the only one to carry it.
LEMMA ArrivalAccounted ==
    ASSUME NEW P \in FivePlaces, NEW Q \in FivePlaces, NEW n \in Nat,
           AccountedIn(P, n), NEW new \in Item, new.seq = n + 1,
           \A k \in 1..5 : Q[k] = IF k = 1 THEN P[1] \union {new} ELSE P[k]
    PROVE  AccountedIn(Q, n + 1)
<1>1. \A k \in 1..5 : \A y \in P[k] : y \in Item /\ y.seq \in Nat /\ y.seq <= n
  BY ItemFields DEF AccountedIn, FivePlaces
<1>2. \A k \in 1..5 : \A y \in Q[k] : y \in P[k] \/ (k = 1 /\ y = new)
  OBVIOUS
<1>3. \A m \in 1..(n + 1) : \E k \in 1..5 : \E y \in Q[k] : y.seq = m
  <2> SUFFICES ASSUME NEW m \in 1..(n + 1)
               PROVE  \E k \in 1..5 : \E y \in Q[k] : y.seq = m
    OBVIOUS
  <2>1. CASE m = n + 1
    <3>1. new \in Q[1] OBVIOUS
    <3> QED BY <2>1, <3>1
  <2>2. CASE m # n + 1
    <3>1. m \in 1..n BY <2>2
    <3>k. PICK k \in 1..5 : \E y \in P[k] : y.seq = m
      BY <3>1 DEF AccountedIn
    <3>2. PICK y \in P[k] : y.seq = m BY <3>k
    <3>3. y \in Q[k] OBVIOUS
    <3> QED BY <3>2, <3>3
  <2> QED BY <2>1, <2>2
<1>4. ASSUME NEW k \in 1..5, NEW l \in 1..5, NEW y \in Q[k], NEW z \in Q[l],
             k # l \/ y # z
      PROVE  y.seq # z.seq
  <2>1. CASE y \in P[k] /\ z \in P[l] BY <1>4, <2>1 DEF AccountedIn
  <2>2. CASE y \in P[k] /\ z = new BY <1>1, <2>2
  <2>3. CASE y = new /\ z \in P[l] BY <1>1, <2>3
  <2>4. CASE (k = 1 /\ y = new) /\ (l = 1 /\ z = new) BY <1>4, <2>4
  <2> QED BY <1>2, <2>1, <2>2, <2>3, <2>4
<1>5. \A k \in 1..5 : \A y \in Q[k] : y.seq <= n + 1
  BY <1>1, <1>2
<1> QED BY <1>3, <1>4, <1>5 DEF AccountedIn

\* A tuple of five sets of items.
LEMMA FiveTuple ==
    ASSUME NEW q \in SUBSET Item, NEW h \in SUBSET Item, NEW s \in SUBSET Item,
           NEW f \in SUBSET Item, NEW e \in SUBSET Item,
           NEW P, P = <<q, h, s, f, e>>
    PROVE  /\ P \in FivePlaces /\ DOMAIN P = 1..5
           /\ P[1] = q /\ P[2] = h /\ P[3] = s /\ P[4] = f /\ P[5] = e
  BY DEF FivePlaces

\* The five places of a well-typed state ...
LEMMA PlacesAre ==
    ASSUME TypeOK
    PROVE  /\ Places \in FivePlaces /\ DOMAIN Places = 1..5
           /\ Places[1] = queue /\ Places[2] = {hand} \ {None}
           /\ Places[3] = sent /\ Places[4] = failed /\ Places[5] = evicted
<1>1. queue \in SUBSET Item /\ {hand} \ {None} \in SUBSET Item
  BY DEF TypeOK
<1>2. sent \in SUBSET Item /\ failed \in SUBSET Item /\ evicted \in SUBSET Item
  BY DEF TypeOK
<1>3. Places = <<queue, {hand} \ {None}, sent, failed, evicted>> BY DEF Places
<1> QED BY <1>1, <1>2, <1>3, FiveTuple

\* ... and of the state after a step.
LEMMA NextPlacesAre ==
    ASSUME TypeOK'
    PROVE  /\ Places' \in FivePlaces
           /\ Places'[1] = queue' /\ Places'[2] = {hand'} \ {None}
           /\ Places'[3] = sent' /\ Places'[4] = failed'
           /\ Places'[5] = evicted'
<1>1. queue' \in SUBSET Item /\ {hand'} \ {None} \in SUBSET Item
  BY DEF TypeOK
<1>2. sent' \in SUBSET Item /\ failed' \in SUBSET Item /\ evicted' \in SUBSET Item
  BY DEF TypeOK
<1>3. Places' = <<queue', {hand'} \ {None}, sent', failed', evicted'>>
  BY DEF Places
<1> QED BY <1>1, <1>2, <1>3, FiveTuple

\* The inductive form of Accounted.
PlacesInv == QueueInv /\ AccountedIn(Places, counter)

\* A push: the evicted item, if any, moves to the evicted ones, and the new
\* item joins the queue with the next number.
LEMMA PushAccounted ==
    ASSUME PlacesInv, NEW p \in Producer, NEW prio \in Priority, Push(p, prio)
    PROVE  AccountedIn(Places, counter)'
<1> DEFINE new == [prio |-> prio, seq |-> counter + 1]
<1>1. TypeOK /\ TypeOK' /\ counter \in Nat /\ AccountedIn(Places, counter)
  <2>1. TypeOK /\ TypeOK' BY PushKeeps DEF PlacesInv, QueueInv
  <2>2. counter \in 0..MaxPush BY <2>1 DEF TypeOK
  <2> QED BY <2>1, <2>2, MaxPushNat DEF PlacesInv
<1>2. new \in Item /\ new.seq = counter + 1 /\ counter' = counter + 1
  BY <1>1, MaxPushNat DEF Push, Item
<1>3. UNCHANGED <<hand, sent, failed>> BY DEF Push
<1> DEFINE P == Places
           Q == Places'
<1>4. /\ P \in FivePlaces
      /\ P[1] = queue /\ P[2] = {hand} \ {None}
      /\ P[3] = sent /\ P[4] = failed /\ P[5] = evicted
  BY <1>1, PlacesAre
<1>5. /\ Q \in FivePlaces
      /\ Q[1] = queue' /\ Q[2] = {hand'} \ {None}
      /\ Q[3] = sent' /\ Q[4] = failed' /\ Q[5] = evicted'
  BY <1>1, NextPlacesAre
<1> HIDE DEF P, Q, new
<1>6. CASE queue' = queue \union {new} /\ UNCHANGED evicted
  <2>1. \A k \in 1..5 : Q[k] = IF k = 1 THEN P[1] \union {new} ELSE P[k]
    BY <1>3, <1>4, <1>5, <1>6
  <2>2. AccountedIn(P, counter) BY <1>1 DEF P
  <2>3. AccountedIn(Q, counter + 1)
    BY <1>1, <1>2, <1>4, <1>5, <2>1, <2>2, ArrivalAccounted
  <2> QED BY <1>2, <2>3 DEF Q
<1>7. ASSUME NEW x \in queue, queue' = (queue \ {x}) \union {new},
             evicted' = evicted \union {x}
      PROVE  AccountedIn(Places, counter)'
  <2> DEFINE R == [k \in 1..5 |-> IF k = 1 THEN P[1] \ {x}
                                  ELSE IF k = 5 THEN P[5] \union {x} ELSE P[k]]
  <2>1. x \in P[1] /\ x \in Item BY <1>1, <1>4 DEF TypeOK
  <2>2. R \in FivePlaces BY <1>4, <2>1 DEF FivePlaces
  <2>3. \A k \in 1..5 : R[k] = IF k = 1 THEN P[1] \ {x}
                               ELSE IF k = 5 THEN P[5] \union {x} ELSE P[k]
    OBVIOUS
  <2>4. AccountedIn(P, counter) BY <1>1 DEF P
  <2> HIDE DEF R
  <2>5. AccountedIn(R, counter)
    <3>1. Moved(P, R, 1, 5, x) BY <2>3 DEF Moved
    <3> QED BY <1>1, <1>4, <2>1, <2>2, <2>4, <3>1, MoveAccounted
  <2>6. \A k \in 1..5 : Q[k] = IF k = 1 THEN R[1] \union {new} ELSE R[k]
    <3>1. Q[1] = R[1] \union {new} BY <1>4, <1>5, <1>7, <2>3
    <3>2. Q[5] = R[5] BY <1>4, <1>5, <1>7, <2>3
    <3>3. Q[2] = R[2] /\ Q[3] = R[3] /\ Q[4] = R[4] BY <1>3, <1>4, <1>5, <2>3
    <3> QED BY <3>1, <3>2, <3>3
  <2>7. AccountedIn(Q, counter + 1)
    BY <1>1, <1>2, <1>5, <2>2, <2>5, <2>6, ArrivalAccounted
  <2> QED BY <1>2, <2>7 DEF Q
<1> QED BY <1>6, <1>7 DEF Push, new

\* A step that moves one item, or none, between the places.
LEMMA MoveKeepsPlaces ==
    ASSUME PlacesInv, TypeOK', UNCHANGED counter,
           \/ \E a, b \in 1..5 : \E x \in Places[a] :
                 /\ a # b
                 /\ \A k \in 1..5 :
                       Places'[k] = IF k = a THEN Places[a] \ {x}
                                    ELSE IF k = b THEN Places[b] \union {x}
                                    ELSE Places[k]
           \/ UNCHANGED Places
    PROVE  AccountedIn(Places, counter)'
<1>1. AccountedIn(Places, counter) /\ TypeOK BY DEF PlacesInv, QueueInv
<1>2. Places \in FivePlaces BY <1>1, PlacesAre
<1>3. Places' \in FivePlaces BY NextPlacesAre
<1>4. counter \in Nat
  <2>1. counter \in 0..MaxPush BY <1>1 DEF TypeOK
  <2> QED BY <2>1, MaxPushNat
<1>5. CASE UNCHANGED Places
  <2>1. AccountedIn(Places, counter)' <=> AccountedIn(Places', counter')
    BY DEF AccountedIn
  <2> QED BY <1>1, <1>5, <2>1
<1>6. ASSUME NEW a \in 1..5, NEW b \in 1..5, NEW x \in Places[a], a # b,
             \A k \in 1..5 :
                Places'[k] = IF k = a THEN Places[a] \ {x}
                             ELSE IF k = b THEN Places[b] \union {x}
                             ELSE Places[k]
      PROVE  AccountedIn(Places, counter)'
  <2>1. Moved(Places, Places', a, b, x) BY <1>6 DEF Moved
  <2>2. AccountedIn(Places', counter)
    BY <1>1, <1>2, <1>3, <1>4, <1>6, <2>1, MoveAccounted
  <2> QED BY <2>2
<1> QED BY <1>5, <1>6

\* Pop moves an item from the queue into the hands of sendLoop, which are
\* empty, and the call of the transport moves it on.
LEMMA LoopAccounted ==
    ASSUME PlacesInv, Pop \/ \E ok \in BOOLEAN : Transmit(ok)
    PROVE  AccountedIn(Places, counter)'
<1>1. TypeOK BY DEF PlacesInv, QueueInv
<1>2. TypeOK' BY PopKeeps, OtherKeeps DEF PlacesInv, QueueInv
<1>3. UNCHANGED counter BY DEF Pop, Transmit, queueVars
<1>4. /\ Places[1] = queue /\ Places[2] = {hand} \ {None}
      /\ Places[3] = sent /\ Places[4] = failed /\ Places[5] = evicted
  BY <1>1, PlacesAre
<1>5. /\ Places'[1] = queue' /\ Places'[2] = {hand'} \ {None}
      /\ Places'[3] = sent' /\ Places'[4] = failed' /\ Places'[5] = evicted'
  BY <1>2, NextPlacesAre
<1> DEFINE Moves(a, b, x) ==
             \A k \in 1..5 : Places'[k] = IF k = a THEN Places[a] \ {x}
                                          ELSE IF k = b THEN Places[b] \union {x}
                                          ELSE Places[k]
<1>6. CASE Pop
  <2>1. PICK x \in queue : queue' = queue \ {x} /\ hand' = x
    BY <1>6 DEF Pop
  <2>2. x # None /\ hand = None /\ UNCHANGED <<sent, failed, evicted>>
    BY <1>1, <1>6, NoneNotItem DEF Pop, TypeOK
  <2>3. Moves(1, 2, x) BY <1>4, <1>5, <2>1, <2>2
  <2>4. x \in Places[1] BY <1>4
  <2>5. 1 \in 1..5 /\ 2 \in 1..5 /\ 1 # 2 OBVIOUS
  <2> QED BY <1>2, <1>3, <2>3, <2>4, <2>5, MoveKeepsPlaces
<1>7. ASSUME NEW ok \in BOOLEAN, Transmit(ok)
      PROVE  AccountedIn(Places, counter)'
  <2>1. hand # None /\ hand' = None /\ UNCHANGED <<queue, evicted>>
    BY <1>1, <1>7 DEF Transmit, TypeOK, queueVars
  <2>2. hand \in Places[2] BY <1>4, <2>1
  <2>3. CASE ok
    <3>1. sent' = sent \union {hand} /\ UNCHANGED failed
      BY <1>7, <2>3 DEF Transmit
    <3>2. Moves(2, 3, hand) BY <1>4, <1>5, <2>1, <3>1
    <3>3. 2 \in 1..5 /\ 3 \in 1..5 /\ 2 # 3 OBVIOUS
    <3> QED BY <1>2, <1>3, <2>2, <3>2, <3>3, MoveKeepsPlaces
  <2>4. CASE ~ok
    <3>1. failed' = failed \union {hand} /\ UNCHANGED sent
      BY <1>7, <2>4 DEF Transmit
    <3>2. Moves(2, 4, hand) BY <1>4, <1>5, <2>1, <3>1
    <3>3. 2 \in 1..5 /\ 4 \in 1..5 /\ 2 # 4 OBVIOUS
    <3> QED BY <1>2, <1>3, <2>2, <3>2, <3>3, MoveKeepsPlaces
  <2> QED BY <2>3, <2>4
<1> QED BY <1>6, <1>7

\* Every step keeps every message accounted for.
LEMMA PlacesStep == PlacesInv /\ [Next]_vars => PlacesInv'
<1> SUFFICES ASSUME PlacesInv, [Next]_vars PROVE PlacesInv'
  OBVIOUS
<1>1. QueueInv' BY QueueStep DEF PlacesInv
<1>2. CASE \/ \E p \in Producer : Notify(p)
           \/ Wake \/ Return \/ PopEmpty \/ Stop \/ UNCHANGED vars
  <2>1. UNCHANGED <<queue, counter, hand, sent, failed, evicted>>
    BY <1>2 DEF Notify, Wake, Return, PopEmpty, Stop, vars, queueVars, histories
  <2>2. UNCHANGED Places BY <2>1 DEF Places
  <2>3. AccountedIn(Places, counter)'
    BY <1>1, <2>1, <2>2, MoveKeepsPlaces DEF QueueInv
  <2> QED BY <1>1, <2>3 DEF PlacesInv
<1>3. CASE \E p \in Producer : \E prio \in Priority : Push(p, prio)
  BY <1>1, <1>3, PushAccounted DEF PlacesInv
<1>4. CASE Pop \/ \E ok \in BOOLEAN : Transmit(ok)
  BY <1>1, <1>4, LoopAccounted DEF PlacesInv
<1> QED BY <1>2, <1>3, <1>4 DEF Next, SendLoop

\* Every message pushed is in the queue, in the hands of sendLoop, sent,
\* failed or evicted, and in one of these places only: the outbound path
\* neither loses a message unnoticed nor sends one twice, whatever the number
\* of producers, the priorities and the capacity.
THEOREM NothingUnaccounted == Spec => []Accounted
<1>1. Init => PlacesInv
  <2> SUFFICES ASSUME Init PROVE PlacesInv
    OBVIOUS
  <2>1. QueueInv BY QueueInit
  <2>2. \A k \in 1..5 : Places[k] = {} BY DEF Init, Places
  <2>3. AccountedIn(Places, counter) BY <2>2 DEF Init, AccountedIn
  <2> QED BY <2>1, <2>3 DEF PlacesInv
<1>2. PlacesInv => Accounted
  <2> SUFFICES ASSUME PlacesInv PROVE Accounted
    OBVIOUS
  <2>1. DOMAIN Places = 1..5 BY PlacesAre DEF PlacesInv, QueueInv
  <2>2. AccountedIn(Places, counter) BY DEF PlacesInv
  <2> QED BY <2>1, <2>2 DEF AccountedIn, Accounted
<1> QED BY <1>1, <1>2, PlacesStep, PTL DEF Spec
=============================================================================
