---------------------------- MODULE RouterProofs ----------------------------
(***************************************************************************)
(* Router implements Delivery for every window size, every width of the    *)
(* sequence numbers and every number of restarts.  The argument: a number  *)
(* handed over before is either still in the window or W or more below the *)
(* highest number, and IsDuplicate refuses both.                           *)
(***************************************************************************)
EXTENDS Router, TLAPS

\* Everything handed over is remembered by peerDedup or is too old for it.
HandledKnown ==
    \A i \in 1..Len(handled) :
        LET p == handled[i] IN
        /\ inited[p.ch]
        /\ p.seq <= highest[p.ch]
        /\ highest[p.ch] - p.seq < W => p.seq \in window[p.ch]

\* Nothing is recorded for a channel on which nothing has been received.
FreshChannel == \A c \in Channel : ~inited[c] => window[c] = {}

\* Places in a channel are handed out once.
SentNumbered == \A p \in sent : p.nth <= sends[p.ch]

RouterInv == TypeOK /\ WindowBounded /\ HandledKnown /\ FreshChannel /\ SentNumbered

\* Appending p to handled adds p and nothing else.
LEMMA HandledGrows ==
    ASSUME NEW p \in Packet, handled \in Seq(Packet), handled' = Append(handled, p)
    PROVE  /\ handled' \in Seq(Packet)
           /\ Len(handled') = Len(handled) + 1
           /\ \A i \in 1..Len(handled') : 
                 handled'[i] = IF i <= Len(handled) THEN handled[i] ELSE p
  OBVIOUS

\* The invariant holds when the node starts (NewNode, newPeerDedup).
LEMMA RouterInit == Init => RouterInv
  BY SeqLimitPositive, RouterBounds
  DEF Init, RouterInv, TypeOK, WindowBounded, HandledKnown, FreshChannel,
      SentNumbered, Packet

\* Sending leaves what the receiver keeps alone and takes a fresh place.
LEMMA SendKeeps ==
    ASSUME RouterInv, NEW c \in Channel, Send(c)
    PROVE  RouterInv'
<1> DEFINE p == [ch |-> c, nth |-> sends[c] + 1, seq |-> NextSeq(c)]
<1>0. NextSeq(c) \in 0..SeqLimit - 1
  BY SeqLimitPositive DEF RouterInv, TypeOK, NextSeq
<1>1. p \in Packet
  BY <1>0, RouterBounds DEF Send, Packet, RouterInv, TypeOK
<1>2. TypeOK'
  BY <1>0, <1>1, RouterBounds
  DEF Send, RouterInv, TypeOK, dedupVars
<1>3. WindowBounded' /\ HandledKnown' /\ FreshChannel'
  BY DEF Send, RouterInv, WindowBounded, HandledKnown, FreshChannel, dedupVars
<1>4. SentNumbered'
  <2> SUFFICES ASSUME NEW q \in sent' PROVE q.nth <= sends'[q.ch]
    BY DEF SentNumbered
  <2>1. q \in sent \/ q = p BY DEF Send
  <2>2. q \in Packet BY <2>1, <1>1 DEF RouterInv, TypeOK
  <2>3. q.ch \in Channel BY <2>2 DEF Packet
  <2>4. sends[q.ch] \in Nat /\ q.nth \in Nat
    BY <2>2, <2>3, RouterBounds DEF RouterInv, TypeOK, Packet
  <2>5. CASE q \in sent
    BY <2>3, <2>4, <2>5 DEF Send, RouterInv, SentNumbered, TypeOK
  <2>6. CASE q = p
    BY <2>6, RouterBounds DEF Send, RouterInv, TypeOK
  <2> QED BY <2>1, <2>5, <2>6
<1> QED BY <1>2, <1>3, <1>4 DEF RouterInv

\* Numbers sent to other nodes only use up places.
LEMMA SendElsewhereKeeps ==
    ASSUME RouterInv, NEW c \in Channel, SendElsewhere(c)
    PROVE  RouterInv'
<1>0. NextSeq(c) \in 0..SeqLimit - 1
  BY SeqLimitPositive DEF RouterInv, TypeOK, NextSeq
<1>2. TypeOK'
  BY <1>0, RouterBounds
  DEF SendElsewhere, RouterInv, TypeOK, dedupVars, networkVars
<1>3. WindowBounded' /\ HandledKnown' /\ FreshChannel'
  BY DEF SendElsewhere, RouterInv, WindowBounded, HandledKnown, FreshChannel,
         dedupVars
<1>4. SentNumbered'
  <2> SUFFICES ASSUME NEW q \in sent PROVE q.nth <= sends'[q.ch]
    BY DEF SentNumbered, SendElsewhere
  <2>1. q \in Packet BY DEF RouterInv, TypeOK
  <2>2. q.ch \in Channel /\ q.nth \in Nat BY <2>1, RouterBounds DEF Packet
  <2> QED BY <2>2, RouterBounds DEF SendElsewhere, RouterInv, SentNumbered, TypeOK
<1> QED BY <1>2, <1>3, <1>4 DEF RouterInv

\* A restart of a sender resets its counter and nothing on the receiver.
LEMMA RestartKeeps ==
    ASSUME RouterInv, NEW c \in Channel, Restart(c)
    PROVE  RouterInv'
<1>1. TypeOK'
  BY SeqLimitPositive, RouterBounds
  DEF Restart, RouterInv, TypeOK, dedupVars, networkVars
<1>2. WindowBounded' /\ HandledKnown' /\ FreshChannel' /\ SentNumbered'
  BY DEF Restart, RouterInv, WindowBounded, HandledKnown, FreshChannel,
         SentNumbered, dedupVars
<1> QED BY <1>1, <1>2 DEF RouterInv

\* Losing a packet and running out its TTL change neither side.
LEMMA NetworkKeeps ==
    ASSUME RouterInv, NEW p \in wire, Vanish(p) \/ Expire(p)
    PROVE  RouterInv'
<1>1. TypeOK'
  BY DEF Vanish, Expire, RouterInv, TypeOK, dedupVars, senderVars
<1>2. WindowBounded' /\ HandledKnown' /\ FreshChannel' /\ SentNumbered'
  BY DEF Vanish, Expire, RouterInv, WindowBounded, HandledKnown, FreshChannel,
         SentNumbered, dedupVars, senderVars
<1> QED BY <1>1, <1>2 DEF RouterInv

\* Handing a packet over records it, moves the highest number at most up, and
\* drops from the window only what becomes too old.
LEMMA AcceptKeeps ==
    ASSUME RouterInv, NEW p \in wire, Dispatch(p), 
           p \notin expired, ~IsDuplicate(p.ch, p.seq)
    PROVE  RouterInv'
<1> DEFINE c == p.ch
<1>1. /\ p \in Packet /\ c \in Channel /\ p.seq \in 0..SeqLimit - 1
      /\ p.seq \in Nat /\ highest[c] \in Nat /\ W \in Nat /\ W > 0
  BY WindowPositive, SeqLimitPositive DEF RouterInv, TypeOK, Packet
<1>2. /\ inited'  = [inited EXCEPT ![c] = TRUE]
      /\ highest' = [highest EXCEPT ![c] =
                       IF ~inited[c] \/ p.seq > @ THEN p.seq ELSE @]
      /\ window'  = [window EXCEPT ![c] = Advance(c, p.seq) \union {p.seq}]
      /\ handled' = Append(handled, p)
      /\ UNCHANGED <<senderVars, networkVars, refused>>
  BY DEF Dispatch
<1>3. /\ inited'[c] = TRUE
      /\ highest'[c] = IF ~inited[c] \/ p.seq > highest[c] THEN p.seq ELSE highest[c]
      /\ window'[c] = Advance(c, p.seq) \union {p.seq}
      /\ \A d \in Channel \ {c} : /\ inited'[d] = inited[d] 
                                  /\ highest'[d] = highest[d] 
                                  /\ window'[d] = window[d]
  BY <1>1, <1>2 DEF RouterInv, TypeOK
<1>4. Advance(c, p.seq) \subseteq window[c] /\ window[c] \subseteq Nat
  BY <1>1, SeqLimitPositive DEF Advance, RouterInv, TypeOK
<1>5. TypeOK'
  <2>1. window' \in [Channel -> SUBSET (0..SeqLimit - 1)]
    BY <1>1, <1>2, <1>4 DEF RouterInv, TypeOK
  <2>2. highest' \in [Channel -> 0..SeqLimit - 1] /\ inited' \in [Channel -> BOOLEAN]
    BY <1>1, <1>2 DEF RouterInv, TypeOK
  <2>3. handled' \in Seq(Packet) BY <1>1, <1>2, HandledGrows DEF RouterInv, TypeOK
  <2> QED BY <1>2, <2>1, <2>2, <2>3 DEF RouterInv, TypeOK, senderVars, networkVars
<1>6. WindowBounded'
  <2> SUFFICES ASSUME NEW d \in Channel, NEW k \in window'[d]
               PROVE  k <= highest'[d] /\ highest'[d] - k < W
    BY DEF WindowBounded
  <2>1. CASE d # c
    BY <1>3, <2>1 DEF RouterInv, WindowBounded
  <2>2. CASE d = c /\ k = p.seq
    <3>1. CASE ~inited[c] \/ p.seq > highest[c]
      BY <1>1, <1>3, <2>2, <3>1
    <3>2. CASE inited[c] /\ p.seq <= highest[c]
      BY <1>1, <1>3, <2>2, <3>2 DEF IsDuplicate, TooOld
    <3> QED BY <1>1, <3>1, <3>2
  <2>3. CASE d = c /\ k \in Advance(c, p.seq)
    <3>1. k \in window[c] /\ k \in Nat BY <1>4, <2>3
    <3>2. inited[c] BY <1>1, <3>1 DEF RouterInv, FreshChannel
    <3>3. k <= highest[c] /\ highest[c] - k < W
      BY <1>1, <3>1 DEF RouterInv, WindowBounded
    <3>4. CASE p.seq > highest[c] /\ p.seq >= W
      <4>1. k >= p.seq - W + 1 BY <2>3, <3>2, <3>4 DEF Advance
      <4> QED BY <1>1, <1>3, <2>3, <3>1, <3>3, <3>4, <4>1
    <3>5. CASE p.seq > highest[c] /\ p.seq < W
      BY <1>1, <1>3, <2>3, <3>1, <3>3, <3>5
    <3>6. CASE p.seq <= highest[c]
      BY <1>1, <1>3, <2>3, <3>1, <3>2, <3>3, <3>6
    <3> QED BY <1>1, <3>4, <3>5, <3>6
  <2> QED BY <1>3, <2>1, <2>2, <2>3
<1>7. HandledKnown'
  <2> SUFFICES ASSUME NEW i \in 1..Len(handled')
               PROVE  LET q == handled'[i] IN
                      /\ inited'[q.ch]
                      /\ q.seq <= highest'[q.ch]
                      /\ highest'[q.ch] - q.seq < W => q.seq \in window'[q.ch]
    BY DEF HandledKnown
  <2> DEFINE q == handled'[i]
  <2>1. /\ Len(handled') = Len(handled) + 1 /\ Len(handled) \in Nat
        /\ q = IF i <= Len(handled) THEN handled[i] ELSE p
    BY <1>1, <1>2, HandledGrows DEF RouterInv, TypeOK
  <2>2. CASE i > Len(handled)
    BY <1>1, <1>3, <2>1, <2>2
  <2>3. CASE i <= Len(handled)
    <3>1. q = handled[i] /\ i \in 1..Len(handled) BY <2>1, <2>3
    <3>2. q \in Packet BY <3>1 DEF RouterInv, TypeOK
    <3>3. q.ch \in Channel /\ q.seq \in Nat BY <3>2, SeqLimitPositive DEF Packet
    <3>4. /\ inited[q.ch] /\ q.seq <= highest[q.ch]
          /\ highest[q.ch] - q.seq < W => q.seq \in window[q.ch]
      BY <3>1 DEF RouterInv, HandledKnown
    <3>5. CASE q.ch # c BY <1>3, <3>3, <3>4, <3>5
    <3>6. CASE q.ch = c
      <4>1. highest'[c] >= highest[c] /\ q.seq <= highest'[c]
        BY <1>1, <1>3, <3>3, <3>4, <3>6
      <4>2. ASSUME highest'[c] - q.seq < W PROVE q.seq \in window'[c]
        <5>1. q.seq \in window[c] BY <1>1, <1>3, <3>3, <3>4, <3>6, <4>1, <4>2
        <5>2. q.seq \in Advance(c, p.seq)
          BY <1>1, <1>3, <3>3, <3>4, <3>6, <4>2, <5>1 DEF Advance
        <5> QED BY <1>3, <5>2
      <4> QED BY <1>3, <3>6, <4>1, <4>2
    <3> QED BY <3>5, <3>6
  <2> QED BY <2>1, <2>2, <2>3
<1>8. FreshChannel' /\ SentNumbered'
  BY <1>2, <1>3 DEF RouterInv, FreshChannel, SentNumbered, senderVars
<1> QED BY <1>5, <1>6, <1>7, <1>8 DEF RouterInv

\* A packet dropped for its TTL or as a duplicate changes nothing but the
\* history of refused packets.
LEMMA DropKeeps ==
    ASSUME RouterInv, NEW p \in wire, Dispatch(p), 
           p \in expired \/ IsDuplicate(p.ch, p.seq)
    PROVE  RouterInv' /\ UNCHANGED <<sent, handled>>
<1>1. UNCHANGED <<senderVars, networkVars, dedupVars, handled>>
  BY DEF Dispatch
<1>2. refused' = refused \/ refused' = refused \union {p}
  BY DEF Dispatch
<1>3. TypeOK'
  BY <1>1, <1>2 DEF RouterInv, TypeOK, senderVars, networkVars, dedupVars
<1>4. WindowBounded' /\ HandledKnown' /\ FreshChannel' /\ SentNumbered'
  BY <1>1 DEF RouterInv, WindowBounded, HandledKnown, FreshChannel, SentNumbered,
              dedupVars, senderVars
<1> QED BY <1>1, <1>3, <1>4 DEF RouterInv, senderVars

\* Every step of the specification keeps the invariant.
LEMMA RouterStep == RouterInv /\ [Next]_vars => RouterInv'
<1> SUFFICES ASSUME RouterInv, [Next]_vars PROVE RouterInv'
  OBVIOUS
<1>1. ASSUME NEW c \in Channel, Send(c) \/ SendElsewhere(c) \/ Restart(c)
      PROVE  RouterInv'
  BY <1>1, SendKeeps, SendElsewhereKeeps, RestartKeeps
<1>2. ASSUME NEW p \in wire, Dispatch(p) PROVE RouterInv'
  BY <1>2, AcceptKeeps, DropKeeps
<1>3. ASSUME NEW p \in wire, Vanish(p) \/ Expire(p) PROVE RouterInv'
  BY <1>3, NetworkKeeps
<1>4. CASE UNCHANGED vars
  BY <1>4 DEF vars, senderVars, networkVars, dedupVars, RouterInv, TypeOK,
              WindowBounded, HandledKnown, FreshChannel, SentNumbered
<1> QED BY <1>1, <1>2, <1>3, <1>4 DEF Next

\* peerDedup's window never holds a number W or more below the highest one,
\* so its memory is bounded however packets arrive (IsDuplicate).
THEOREM WindowStaysBounded == Spec => [](TypeOK /\ WindowBounded)
<1>1. RouterInv => TypeOK /\ WindowBounded BY DEF RouterInv
<1> QED BY <1>1, RouterInit, RouterStep, PTL DEF Spec

\* The algorithm's OnMessage is called at most once for each packet and only
\* with packets that were sent, whatever the network duplicates, reorders or
\* loses, and although sequence numbers wrap and senders restart.
THEOREM RouterDeliversAtMostOnce == Spec => DeliversAtMostOnce
<1>1. Init => AtMostOnce!Init
  BY DEF Init, AtMostOnce!Init
<1>2. RouterInv /\ [Next]_vars => [AtMostOnce!Next]_<<sent, handled>>
  <2> SUFFICES ASSUME RouterInv, [Next]_vars
               PROVE  [AtMostOnce!Next]_<<sent, handled>>
    OBVIOUS
  <2>1. ASSUME NEW c \in Channel, Send(c)
        PROVE  \E p \in Packet : AtMostOnce!Send(p)
    <3> DEFINE p == [ch |-> c, nth |-> sends[c] + 1, seq |-> NextSeq(c)]
    <3>1. p \in Packet
      BY <2>1, SeqLimitPositive, RouterBounds
      DEF Send, NextSeq, Packet, RouterInv, TypeOK
    <3>2. p \notin sent
      BY RouterBounds DEF RouterInv, SentNumbered, TypeOK
    <3>3. AtMostOnce!Send(p) BY <2>1, <3>2 DEF Send, AtMostOnce!Send
    <3> QED BY <3>1, <3>3
  <2>2. ASSUME NEW c \in Channel, SendElsewhere(c) \/ Restart(c)
        PROVE  UNCHANGED <<sent, handled>>
    BY <2>2 DEF SendElsewhere, Restart
  <2>3. ASSUME NEW p \in wire, Dispatch(p), p \notin expired,
               ~IsDuplicate(p.ch, p.seq)
        PROVE  \E q \in Packet : AtMostOnce!Deliver(q)
    <3>1. p \in sent /\ p \in Packet /\ p.ch \in Channel
      BY DEF RouterInv, TypeOK, Packet
    <3>2. ASSUME NEW i \in 1..Len(handled), handled[i] = p PROVE FALSE
      <4>1. /\ inited[p.ch] /\ p.seq <= highest[p.ch]
            /\ highest[p.ch] - p.seq < W => p.seq \in window[p.ch]
        BY <3>2 DEF RouterInv, HandledKnown
      <4>2. highest[p.ch] \in Nat /\ p.seq \in Nat /\ W \in Nat
        BY <3>1, WindowPositive, SeqLimitPositive DEF RouterInv, TypeOK, Packet
      <4>3. Advance(p.ch, p.seq) = window[p.ch] BY <4>1, <4>2 DEF Advance
      <4> QED BY <2>3, <4>1, <4>2, <4>3 DEF IsDuplicate, TooOld
    <3>3. handled' = Append(handled, p) /\ UNCHANGED sent
      BY <2>3 DEF Dispatch, senderVars
    <3>4. AtMostOnce!Deliver(p) BY <3>1, <3>2, <3>3 DEF AtMostOnce!Deliver
    <3> QED BY <3>1, <3>4
  <2>4. ASSUME NEW p \in wire, Dispatch(p),
               p \in expired \/ IsDuplicate(p.ch, p.seq)
        PROVE  UNCHANGED <<sent, handled>>
    BY <2>4, DropKeeps
  <2>5. ASSUME NEW p \in wire, Vanish(p) \/ Expire(p)
        PROVE  UNCHANGED <<sent, handled>>
    BY <2>5 DEF Vanish, Expire, senderVars
  <2>6. CASE UNCHANGED vars
    BY <2>6 DEF vars, senderVars
  <2> QED BY <2>1, <2>2, <2>3, <2>4, <2>5, <2>6 DEF Next, AtMostOnce!Next
<1> QED BY <1>1, <1>2, RouterInit, RouterStep, PTL
        DEF Spec, DeliversAtMostOnce, AtMostOnce!Spec

\* The counters, packets and the fields of peerDedup keep their widths, and
\* only packets that were sent are in flight.
THEOREM RouterTypes == Spec => []TypeOK
<1>1. RouterInv => TypeOK BY DEF RouterInv
<1> QED BY <1>1, RouterInit, RouterStep, PTL DEF Spec

-----------------------------------------------------------------------------
\* The sender of c has not been restarted and its counter has not wrapped.
InRun(c) == restarts[c] = 0 /\ sends[c] < SeqLimit

\* Within a run a packet's number is its place in the channel.
RunNumbered ==
    \A c \in Channel : InRun(c) =>
        /\ counter[c] = sends[c]
        /\ \A p \in sent : p.ch = c => p.seq = p.nth

\* peerDedup remembers nothing but numbers of packets it has let through: the
\* ones in the window and, once initialised, the highest one.
Witnessed(c, k) == \E q \in Handled : q.ch = c /\ q.seq = k
RemembersHandled ==
    \A c \in Channel : /\ \A k \in window[c] : Witnessed(c, k)
                       /\ inited[c] => Witnessed(c, highest[c])

\* Only packets that were sent are handed over.
HandledSent == Handled \subseteq sent

RefuseInv == /\ RouterInv /\ RunNumbered /\ RemembersHandled /\ HandledSent
             /\ RefusedWithinRun

\* Below the width an increment does not wrap.
LEMMA BelowWidth == \A a \in Nat, b \in Nat : a < b => a % b = a
  BY Z3

\* What is handed over stays handed over, and Append adds one packet.
LEMMA HandledSet ==
    ASSUME NEW p \in Packet, handled \in Seq(Packet), handled' = Append(handled, p)
    PROVE  Handled' = Handled \union {p}
<1>1. /\ Len(handled) \in Nat /\ Len(handled') = Len(handled) + 1
      /\ \A i \in 1..Len(handled') :
            handled'[i] = IF i <= Len(handled) THEN handled[i] ELSE p
  BY HandledGrows
<1>2. ASSUME NEW q \in Handled' PROVE q \in Handled \union {p}
  <2>1. PICK i \in 1..Len(handled') : q = handled'[i] BY DEF Handled
  <2>2. CASE i <= Len(handled)
    <3>1. i \in 1..Len(handled) /\ q = handled[i] BY <1>1, <2>1, <2>2
    <3> QED BY <3>1 DEF Handled
  <2>3. CASE i > Len(handled) BY <1>1, <2>1, <2>3
  <2> QED BY <1>1, <2>2, <2>3
<1>3. ASSUME NEW q \in Handled PROVE q \in Handled'
  <2>1. PICK i \in 1..Len(handled) : q = handled[i] BY DEF Handled
  <2>2. i \in 1..Len(handled') /\ q = handled'[i] BY <1>1, <2>1
  <2> QED BY <2>2 DEF Handled
<1>4. p \in Handled'
  <2>1. Len(handled') \in 1..Len(handled') /\ handled'[Len(handled')] = p
    BY <1>1
  <2> QED BY <2>1 DEF Handled
<1> QED BY <1>2, <1>3, <1>4

\* Numbering a packet: the run of a channel may end, never begin again.
LEMMA SendsKeepRefusals ==
    ASSUME RefuseInv, NEW c \in Channel, Send(c) \/ SendElsewhere(c) \/ Restart(c)
    PROVE  RunNumbered' /\ RemembersHandled' /\ HandledSent' /\ RefusedWithinRun'
<1>1. UNCHANGED <<inited, highest, window, handled, refused>>
  BY DEF Send, SendElsewhere, Restart, dedupVars
<1>2. TypeOK /\ SentNumbered BY DEF RefuseInv, RouterInv
<1>3. sent \subseteq sent' BY DEF Send, SendElsewhere, Restart
<1>4. \A d \in Channel : InRun(d)' =>
        /\ InRun(d) /\ (d = c => ~Restart(c))
        /\ sends[d] \in Nat /\ restarts[d] \in Nat
  <2> SUFFICES ASSUME NEW d \in Channel, InRun(d)'
               PROVE  /\ InRun(d) /\ (d = c => ~Restart(c))
                      /\ sends[d] \in Nat /\ restarts[d] \in Nat
    OBVIOUS
  <2>1. sends[d] \in Nat /\ restarts[d] \in Nat
    BY <1>2, RouterBounds DEF TypeOK
  <2>2. restarts'[d] = IF d = c /\ Restart(c) THEN restarts[d] + 1 ELSE restarts[d]
    BY <1>2 DEF TypeOK, Send, SendElsewhere, Restart
  <2>3. sends'[d] >= sends[d] /\ sends'[d] \in Nat
    BY <1>2, <2>1 DEF TypeOK, Send, SendElsewhere, Restart
  <2>4. restarts'[d] = 0 /\ sends'[d] < SeqLimit BY DEF InRun
  <2>5. restarts[d] = 0 /\ ~(d = c /\ Restart(c)) BY <2>1, <2>2, <2>4
  <2>6. sends[d] < SeqLimit BY <2>1, <2>3, <2>4, SeqLimitPositive
  <2> QED BY <2>1, <2>5, <2>6 DEF InRun
<1>5. RemembersHandled' /\ HandledSent'
  BY <1>1, <1>3 DEF RefuseInv, RemembersHandled, HandledSent, Witnessed, Handled
<1>6. RefusedWithinRun'
  <2> SUFFICES ASSUME NEW p \in refused, InRun(p.ch)'
               PROVE  RefusalJustified(p)'
    BY <1>1 DEF RefusedWithinRun, InRun
  <2>1. p.ch \in Channel BY <1>2 DEF TypeOK, Packet
  <2>2. RefusalJustified(p)
    BY <1>4, <2>1 DEF RefuseInv, RefusedWithinRun, InRun
  <2> QED BY <1>1, <2>2 DEF RefusalJustified, Handled
<1>7. RunNumbered'
  <2> SUFFICES ASSUME NEW d \in Channel, InRun(d)'
               PROVE  /\ counter'[d] = sends'[d]
                      /\ \A p \in sent' : p.ch = d => p.seq = p.nth
    BY DEF RunNumbered
  <2>1. /\ InRun(d) /\ counter[d] = sends[d] /\ sends[d] \in Nat
        /\ \A p \in sent : p.ch = d => p.seq = p.nth
    BY <1>4 DEF RefuseInv, RunNumbered
  <2>2. CASE d # c
    <3>1. counter'[d] = counter[d] /\ sends'[d] = sends[d]
      BY <1>2, <2>2 DEF TypeOK, Send, SendElsewhere, Restart
    <3>2. \A p \in sent' \ sent : p.ch = c
      BY DEF Send, SendElsewhere, Restart
    <3> QED BY <2>1, <2>2, <3>1, <3>2
  <2>3. CASE d = c
    <3>1. Send(c) \/ SendElsewhere(c) BY <1>4, <2>3
    <3>2. sends'[c] = sends[c] + 1 /\ counter'[c] = NextSeq(c)
      BY <1>2, <3>1 DEF TypeOK, Send, SendElsewhere
    <3>3. sends[c] + 1 < SeqLimit BY <2>3, <3>2 DEF InRun
    <3>4. NextSeq(c) = sends[c] + 1
      BY <2>1, <2>3, <3>3, BelowWidth, SeqLimitPositive DEF NextSeq
    <3>5. \A p \in sent' \ sent : p.seq = NextSeq(c) /\ p.nth = sends[c] + 1
      BY <3>1 DEF Send, SendElsewhere
    <3> QED BY <2>1, <2>3, <3>2, <3>4, <3>5
  <2> QED BY <2>2, <2>3
<1> QED BY <1>5, <1>6, <1>7

\* A packet is refused for a number that was let through before, and within
\* a run that number belongs to the packet itself or to one W places later.
LEMMA RefuseJustified ==
    ASSUME RefuseInv, NEW p \in wire, IsDuplicate(p.ch, p.seq), InRun(p.ch)
    PROVE  RefusalJustified(p)
<1>1. /\ p \in sent /\ p \in Packet /\ p.ch \in Channel /\ TypeOK
  BY DEF RefuseInv, RouterInv, TypeOK, Packet
<1>2. \A q \in Handled : q \in Packet /\ (q.ch = p.ch => q.nth = q.seq)
  BY <1>1 DEF RefuseInv, HandledSent, RunNumbered, TypeOK
<1>3. p.nth = p.seq BY <1>1 DEF RefuseInv, RunNumbered
<1>4. CASE TooOld(p.ch, p.seq)
  <2>1. PICK q \in Handled : q.ch = p.ch /\ q.seq = highest[p.ch]
    BY <1>1 DEF RefuseInv, RemembersHandled, Witnessed, IsDuplicate
  <2>2. q.nth - p.nth >= W BY <1>2, <1>3, <1>4, <2>1 DEF TooOld
  <2> QED BY <2>1, <2>2 DEF RefusalJustified
<1>5. CASE p.seq \in Advance(p.ch, p.seq)
  <2>1. p.seq \in window[p.ch] BY <1>5 DEF Advance
  <2>2. PICK q \in Handled : q.ch = p.ch /\ q.seq = p.seq
    BY <1>1, <2>1 DEF RefuseInv, RemembersHandled, Witnessed
  <2>3. q = p BY <1>1, <1>2, <1>3, <2>2 DEF Packet
  <2> QED BY <2>2, <2>3 DEF RefusalJustified
<1> QED BY <1>4, <1>5 DEF IsDuplicate

\* Dispatch: what is recorded belongs to a packet handed over.
LEMMA DispatchKeepsRefusals ==
    ASSUME RefuseInv, NEW p \in wire, Dispatch(p)
    PROVE  RunNumbered' /\ RemembersHandled' /\ HandledSent' /\ RefusedWithinRun'
<1>1. /\ p \in sent /\ p \in Packet /\ p.ch \in Channel /\ TypeOK
      /\ handled \in Seq(Packet)
  BY DEF RefuseInv, RouterInv, TypeOK, Packet
<1>2. UNCHANGED <<counter, restarts, sends, sent>> BY DEF Dispatch, senderVars
<1>3. RunNumbered' BY <1>2 DEF RefuseInv, RunNumbered, InRun
<1>4. CASE p \in expired \/ IsDuplicate(p.ch, p.seq)
  <2>1. UNCHANGED <<inited, highest, window, handled>>
    BY <1>4 DEF Dispatch, dedupVars
  <2>2. RemembersHandled' /\ HandledSent'
    BY <1>2, <2>1
    DEF RefuseInv, RemembersHandled, HandledSent, Witnessed, Handled
  <2>3. \A q \in refused' : q \in refused \/ (q = p /\ IsDuplicate(p.ch, p.seq))
    BY <1>4 DEF Dispatch
  <2>4. RefusedWithinRun'
    <3> SUFFICES ASSUME NEW q \in refused', InRun(q.ch)
                 PROVE  RefusalJustified(q)'
      BY <1>2 DEF RefusedWithinRun, InRun
    <3>1. RefusalJustified(q)
      BY <2>3, RefuseJustified DEF RefuseInv, RefusedWithinRun, InRun
    <3> QED BY <2>1, <3>1 DEF RefusalJustified, Handled
  <2> QED BY <1>3, <2>2, <2>4
<1>5. CASE p \notin expired /\ ~IsDuplicate(p.ch, p.seq)
  <2>1. /\ handled' = Append(handled, p) /\ UNCHANGED refused
        /\ inited'  = [inited EXCEPT ![p.ch] = TRUE]
        /\ highest' = [highest EXCEPT ![p.ch] =
                         IF ~inited[p.ch] \/ p.seq > @ THEN p.seq ELSE @]
        /\ window'  = [window EXCEPT ![p.ch] =
                         Advance(p.ch, p.seq) \union {p.seq}]
    BY <1>5 DEF Dispatch
  <2>2. Handled' = Handled \union {p} BY <1>1, <2>1, HandledSet
  <2>3. HandledSent' BY <1>1, <1>2, <2>2 DEF RefuseInv, HandledSent
  <2>4. RemembersHandled'
    <3> SUFFICES ASSUME NEW d \in Channel
                 PROVE  /\ \A k \in window'[d] : Witnessed(d, k)'
                        /\ inited'[d] => Witnessed(d, highest[d])'
      BY DEF RemembersHandled, Witnessed
    <3>1. \A k : Witnessed(d, k) => Witnessed(d, k)'
      BY <2>2 DEF Witnessed
    <3>2. d = p.ch => Witnessed(d, p.seq)' BY <2>2 DEF Witnessed
    <3>3. /\ \A k \in window[d] : Witnessed(d, k)
          /\ inited[d] => Witnessed(d, highest[d])
      BY DEF RefuseInv, RemembersHandled
    <3>4. \A k \in window'[d] : k \in window[d] \/ (d = p.ch /\ k = p.seq)
      BY <1>1, <2>1 DEF TypeOK, Advance
    <3>5. inited'[d] => \/ highest'[d] = highest[d] /\ inited[d]
                        \/ highest'[d] = p.seq /\ d = p.ch
      BY <1>1, <2>1 DEF TypeOK
    <3>6. \A k \in window'[d] : Witnessed(d, k)' BY <3>1, <3>2, <3>3, <3>4
    <3>7. inited'[d] => Witnessed(d, highest[d])'
      <4>1. CASE highest'[d] = highest[d] /\ inited[d]
        <5>1. PICK q \in Handled : q.ch = d /\ q.seq = highest[d]
          BY <3>3, <4>1 DEF Witnessed
        <5> QED BY <2>2, <4>1, <5>1 DEF Witnessed
      <4>2. CASE highest'[d] = p.seq /\ d = p.ch
        BY <2>2, <4>2 DEF Witnessed
      <4> QED BY <3>5, <4>1, <4>2
    <3> QED BY <3>6, <3>7
  <2>5. RefusedWithinRun'
    <3> SUFFICES ASSUME NEW q \in refused, InRun(q.ch)
                 PROVE  RefusalJustified(q)'
      BY <1>2, <2>1 DEF RefusedWithinRun, InRun
    <3>1. RefusalJustified(q) BY DEF RefuseInv, RefusedWithinRun, InRun
    <3> QED BY <2>2, <3>1 DEF RefusalJustified
  <2> QED BY <1>3, <2>3, <2>4, <2>5
<1> QED BY <1>4, <1>5

\* A packet is refused as a duplicate only if it, or one W or more places
\* after it, was handed over before: with a window of any size and however
\* the network reorders, no first copy within the window is thrown away
\* (peerDedup.IsDuplicate, Router.Dispatch), while the sender keeps running
\* and its counter has not wrapped.
THEOREM RefusalsAreJustified == Spec => []RefusedWithinRun
<1>1. Init => RefuseInv
  <2> SUFFICES ASSUME Init PROVE RefuseInv
    OBVIOUS
  <2>1. RouterInv BY RouterInit
  <2>2. Handled = {} BY DEF Init, Handled
  <2>3. RunNumbered /\ RemembersHandled /\ HandledSent /\ RefusedWithinRun
    BY <2>2 DEF Init, RunNumbered, RemembersHandled, HandledSent,
                RefusedWithinRun, Witnessed
  <2> QED BY <2>1, <2>3 DEF RefuseInv
<1>2. RefuseInv /\ [Next]_vars => RefuseInv'
  <2> SUFFICES ASSUME RefuseInv, [Next]_vars PROVE RefuseInv'
    OBVIOUS
  <2>1. RouterInv' BY RouterStep DEF RefuseInv
  <2>2. ASSUME NEW c \in Channel, Send(c) \/ SendElsewhere(c) \/ Restart(c)
        PROVE  RefuseInv'
    BY <2>1, <2>2, SendsKeepRefusals DEF RefuseInv
  <2>3. ASSUME NEW p \in wire, Dispatch(p) PROVE RefuseInv'
    BY <2>1, <2>3, DispatchKeepsRefusals DEF RefuseInv
  <2>4. ASSUME \/ \E p \in wire : Vanish(p) \/ Expire(p)
               \/ UNCHANGED vars
        PROVE  RefuseInv'
    <3>1. UNCHANGED <<senderVars, dedupVars, handled, refused>>
      BY <2>4 DEF Vanish, Expire, vars
    <3>2. RunNumbered' /\ RemembersHandled' /\ HandledSent' /\ RefusedWithinRun'
      BY <3>1 DEF RefuseInv, RunNumbered, InRun, RemembersHandled, Witnessed,
                  HandledSent, RefusedWithinRun, RefusalJustified, Handled,
                  senderVars, dedupVars
    <3> QED BY <2>1, <3>2 DEF RefuseInv
  <2> QED BY <2>2, <2>3, <2>4 DEF Next
<1>3. RefuseInv => RefusedWithinRun BY DEF RefuseInv
<1> QED BY <1>1, <1>2, <1>3, PTL DEF Spec
=============================================================================
