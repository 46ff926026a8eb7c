----------------------------- MODULE NodeProofs ------------------------------
(***************************************************************************)
(* Proofs about TimerManager and Node, for every set of timers, of         *)
(* connections and of setups, and for any capacity of the channel.         *)
(***************************************************************************)
EXTENDS Node, SequenceTheorems, TLAPS

\* A goroutine that runs has the name of a timer.
Named == \A s \in Slot : ticker[s].pc # "off" => ticker[s].name \in Name

TimerInv == TimerTypeOK /\ Named /\ NoOrphanTicker

\* The names an algorithm starts and stops are names of timers.
LEMMA AlgoNames ==
  ASSUME setup \in Setups
  PROVE  StartTimers[algo] \subseteq Name /\ StopTimers[algo] \subseteq Name
<1>1. StopTimers[setup.algo] \subseteq Name BY NamesKnown
<1>2. setup.algo \in {"raft", "gossip", "weaknet"} BY SetupsKnown
<1>3. StartTimers[setup.algo] \subseteq StopTimers[setup.algo]
  BY <1>2 DEF StartTimers, StopTimers
<1> QED BY <1>1, <1>3 DEF algo

LEMMA NewSlotFree ==
  ASSUME FreeSlot # {} PROVE NewSlot \in FreeSlot
  BY Zenon DEF NewSlot

\* Closing channels changes nothing of a goroutine but its flag.
LEMMA ClosedKeeps ==
  ASSUME TimerTypeOK, NEW names
  PROVE  /\ Closed(names) \in [Slot -> [name : Name \union {NoName},
                                        pc : {"off", "select", "callback"},
                                        stopped : BOOLEAN]]
         /\ \A s \in Slot :
              /\ Closed(names)[s].name = ticker[s].name
              /\ Closed(names)[s].pc = ticker[s].pc
              /\ ~Closed(names)[s].stopped =>
                   ~ticker[s].stopped /\ \A n \in names : timers[n] # s
<1>1. ASSUME NEW s \in Slot
      PROVE  /\ Closed(names)[s] \in [name : Name \union {NoName},
                                      pc : {"off", "select", "callback"},
                                      stopped : BOOLEAN]
             /\ Closed(names)[s].name = ticker[s].name
             /\ Closed(names)[s].pc = ticker[s].pc
             /\ ~Closed(names)[s].stopped =>
                  ~ticker[s].stopped /\ \A n \in names : timers[n] # s
  BY DEF Closed, TimerTypeOK
<1> QED BY <1>1 DEF Closed

LEMMA SetKeeps ==
  ASSUME TimerInv, NEW n \in Name, TimerSet(n)
  PROVE  TimerInv'
<1>1. NewSlot \in Slot BY NewSlotFree DEF TimerSet, FreeSlot
<1> DEFINE C == Closed({n})
<1>2. /\ C \in [Slot -> [name : Name \union {NoName},
                         pc : {"off", "select", "callback"}, stopped : BOOLEAN]]
      /\ \A s \in Slot : /\ C[s].name = ticker[s].name /\ C[s].pc = ticker[s].pc
                         /\ ~C[s].stopped => ~ticker[s].stopped /\ timers[n] # s
  BY ClosedKeeps DEF TimerInv
<1>3. /\ timers' = [timers EXCEPT ![n] = NewSlot]
      /\ ticker' = [C EXCEPT ![NewSlot] = Goroutine(n)]
  BY DEF TimerSet
<1> HIDE DEF C
<1>4. TimerTypeOK'
  BY <1>1, <1>2, <1>3 DEF TimerInv, TimerTypeOK, Goroutine
<1>5. Named'
  BY <1>1, <1>2, <1>3 DEF TimerInv, Named, Goroutine
<1>6. NoOrphanTicker'
  <2> SUFFICES ASSUME NEW s \in Slot, Live(s)' PROVE (timers[ticker[s].name] = s)'
    BY DEF NoOrphanTicker
  <2>1. CASE s = NewSlot
    BY <1>1, <1>2, <1>3, <2>1 DEF Goroutine, TimerInv, TimerTypeOK
  <2>2. CASE s # NewSlot
    <3>1. ticker'[s] = C[s] BY <1>1, <1>2, <1>3, <2>2
    <3>2. Live(s) /\ timers[n] # s BY <1>2, <3>1 DEF Live
    <3>3. timers[ticker[s].name] = s /\ ticker[s].name \in Name
      BY <3>2 DEF TimerInv, NoOrphanTicker, Named, Live
    <3> QED BY <1>2, <1>3, <3>1, <3>2, <3>3 DEF TimerInv, TimerTypeOK
  <2> QED BY <2>1, <2>2
<1> QED BY <1>4, <1>5, <1>6 DEF TimerInv

LEMMA CancelKeeps ==
  ASSUME TimerInv, NEW names, TimerCancel(names)
  PROVE  /\ TimerInv'
         /\ \A s \in Slot : Live(s)' => Live(s) /\ ticker[s].name \notin names
<1>1. /\ ticker' \in [Slot -> [name : Name \union {NoName},
                         pc : {"off", "select", "callback"}, stopped : BOOLEAN]]
      /\ \A s \in Slot :
           /\ ticker'[s].name = ticker[s].name /\ ticker'[s].pc = ticker[s].pc
           /\ ~ticker'[s].stopped =>
                ~ticker[s].stopped /\ \A n \in names : timers[n] # s
  BY ClosedKeeps DEF TimerInv, TimerCancel
<1>2. timers' = [n \in Name |-> IF n \in names THEN NoSlot ELSE timers[n]]
  BY DEF TimerCancel
<1>3. TimerTypeOK' BY <1>1, <1>2 DEF TimerInv, TimerTypeOK
<1>4. Named' BY <1>1 DEF TimerInv, Named
<1>5. ASSUME NEW s \in Slot, Live(s)'
      PROVE  Live(s) /\ ticker[s].name \notin names /\ (timers[ticker[s].name] = s)'
  <2>1. Live(s) /\ \A n \in names : timers[n] # s BY <1>1, <1>5 DEF Live
  <2>2. timers[ticker[s].name] = s /\ ticker[s].name \in Name
    BY <2>1 DEF TimerInv, NoOrphanTicker, Named, Live
  <2> QED BY <1>1, <1>2, <2>1, <2>2
<1> QED BY <1>3, <1>4, <1>5 DEF TimerInv, NoOrphanTicker

LEMMA TimerKeeps ==
  ASSUME TimerInv, NEW t \in Slot, Fire(t) \/ CallbackReturns(t) \/ TimerEnds(t)
  PROVE  TimerInv' /\ \A s \in Slot : Live(s)' => Live(s)
<1>1. /\ timers' = timers
      /\ ticker' \in [Slot -> [name : Name \union {NoName},
                         pc : {"off", "select", "callback"}, stopped : BOOLEAN]]
      /\ \A s \in Slot : s # t => ticker'[s] = ticker[s]
      /\ \/ /\ ticker'[t].name = ticker[t].name
            /\ ticker'[t].stopped = ticker[t].stopped /\ ticker[t].pc # "off"
         \/ ticker'[t] = Unused
  <2>1. CASE Fire(t) BY <2>1 DEF Fire, TimerInv, TimerTypeOK
  <2>2. CASE CallbackReturns(t) BY <2>2 DEF CallbackReturns, TimerInv, TimerTypeOK
  <2>3. CASE TimerEnds(t) BY <2>3 DEF TimerEnds, Unused, TimerInv, TimerTypeOK
  <2> QED BY <2>1, <2>2, <2>3
<1>2. TimerTypeOK' BY <1>1 DEF TimerInv, TimerTypeOK
<1>3. Named' BY <1>1 DEF TimerInv, Named, Unused
<1>4. ASSUME NEW s \in Slot, Live(s)'
      PROVE  Live(s) /\ ticker'[s].name = ticker[s].name
  BY <1>1, <1>4 DEF Live, Unused
<1> QED BY <1>1, <1>2, <1>3, <1>4 DEF TimerInv, NoOrphanTicker

-----------------------------------------------------------------------------
(* The goroutines of the node.                                             *)

Ended == {"off", "done"}
Quiet == {"close", "tr.Stop", "tr.Wait", "Wait", "stopped"}

\* TypeOK but for the timers.
NodeTypes ==
    /\ setup \in Setups
    /\ main \in {"new", "failed", "algo.Start", "running", "algo.Stop", "StopAll",
                 "close", "tr.Stop", "tr.Wait", "Wait", "stopped"}
    /\ todo \subseteq Name
    /\ stopCh \in BOOLEAN /\ trStop \in BOOLEAN /\ trClosed \in BOOLEAN
    /\ acceptLoop \in {"off", "accept", "done"}
    /\ reader \in [Conn -> {"off", "check", "read", "offer", "drop", "push", "done"}]
    /\ read \in [Conn -> 0..MaxRead[setup]]
    /\ recvCh \in Seq([conn : Conn, n : 1..MaxRead[setup]]) /\ Len(recvCh) <= Cap
    /\ recvLoop \in {"off", "select", "handle", "done"}
    /\ handled \in [Conn -> 0..MaxRead[setup]]
    /\ sendLoop \in {"off", "running", "done"}

\* A reader with a message in hand has read one.
HasRead ==
    \A c \in Conn : reader[c] \in {"offer", "drop", "push"} => read[c] >= 1

\* On UDP nobody else puts messages into the channel.
OneReader ==
    transport = "udp" => /\ acceptLoop = "off"
                         /\ \A c \in Conn : c # Socket => reader[c] = "off"

\* When the transport's Stop has returned its goroutines have ended.
ReadersGone ==
    main \in {"Wait", "stopped"} =>
        acceptLoop \in Ended /\ \A c \in Conn : reader[c] \in Ended

RestInv == NodeTypes /\ HasRead /\ OneReader /\ UdpNeverBlocks /\ ReadersGone
NodeInv == TimerInv /\ QuietOnceStopped /\ RestInv

LEMMA NodeInit == Init => NodeInv
<1> SUFFICES ASSUME Init PROVE NodeInv
  OBVIOUS
<1>1. TimerInv
  BY DEF Init, TimerInit, TimerInv, TimerTypeOK, Named, NoOrphanTicker, Live, Unused
<1>2. QuietOnceStopped BY DEF Init, QuietOnceStopped
<1>3. MaxRead[setup] \in Nat BY MaxReadNat DEF Init
<1>4. NodeTypes
  <2>1. /\ stopCh \in BOOLEAN /\ trStop \in BOOLEAN /\ trClosed \in BOOLEAN
    BY DEF Init
  <2>2. recvCh \in Seq([conn : Conn, n : 1..MaxRead[setup]]) /\ Len(recvCh) <= Cap
    BY CapPositive DEF Init
  <2>3. /\ reader \in [Conn -> {"off", "check", "read", "offer", "drop", "push", "done"}]
        /\ read \in [Conn -> 0..MaxRead[setup]]
        /\ handled \in [Conn -> 0..MaxRead[setup]]
    BY <1>3 DEF Init
  <2> QED BY <2>1, <2>2, <2>3, Zenon DEF Init, NodeTypes
<1>5. HasRead /\ OneReader /\ UdpNeverBlocks /\ ReadersGone
  BY DEF Init, HasRead, OneReader, UdpNeverBlocks, ReadersGone
<1> QED BY <1>1, <1>2, <1>4, <1>5 DEF NodeInv, RestInv

\* What does not touch the readers and the channel keeps their part, unless it
\* lets the transport's Stop return.
LEMMA RestKept ==
  ASSUME RestInv, NodeTypes', UNCHANGED <<setup, readVars>>,
         main' \in {"Wait", "stopped"} => main \in {"Wait", "stopped"}
  PROVE  RestInv'
  BY DEF RestInv, HasRead, OneReader, UdpNeverBlocks, ReadersGone, readVars,
         transport, HasRoom

\* Start, and the steps of Stop.
LEMMA MainKeeps ==
  ASSUME RestInv,
         \/ Start \/ StartFails \/ Stop \/ StopAll \/ CloseStopCh
         \/ TransportStop \/ TransportClose \/ TransportWait \/ Wait
         \/ \E n \in Name : AlgoStart(n) \/ AlgoStop(n)
  PROVE  RestInv'
<1> USE DEF RestInv
<1>1. CASE Start
  <2>1. StartTimers[algo] \subseteq Name BY AlgoNames DEF NodeTypes
  <2>2. NodeTypes'
    BY <1>1, <2>1 DEF Start, NodeTypes, stopVars
  <2>3. HasRead' BY <1>1, SocketConn DEF Start, HasRead, NodeTypes
  <2>4. OneReader' BY <1>1, SocketConn DEF Start, OneReader, NodeTypes, transport
  <2>5. UdpNeverBlocks'
    BY <1>1, SocketConn DEF Start, UdpNeverBlocks, NodeTypes, transport, HasRoom
  <2>6. ReadersGone' BY <1>1 DEF Start, ReadersGone
  <2> QED BY <2>2, <2>3, <2>4, <2>5, <2>6
<1>2. CASE TransportWait
  <2>1. NodeTypes' BY <1>2 DEF TransportWait, NodeTypes, stopVars, readVars, loopVars
  <2> QED
    BY <1>2, <2>1 DEF TransportWait, HasRead, OneReader, UdpNeverBlocks, ReadersGone,
                      readVars, transport, HasRoom, Ended
<1>3. CASE StartFails
  <2>1. NodeTypes' BY <1>3 DEF StartFails, NodeTypes, stopVars, readVars, loopVars
  <2> QED BY <1>3, <2>1, RestKept DEF StartFails
<1>4. CASE Stop
  <2>1. StopTimers[algo] \subseteq Name BY AlgoNames DEF NodeTypes
  <2>2. NodeTypes' BY <1>4, <2>1 DEF Stop, NodeTypes, stopVars, readVars, loopVars
  <2> QED BY <1>4, <2>2, RestKept DEF Stop
<1>5. CASE StopAll
  <2>1. NodeTypes' BY <1>5 DEF StopAll, NodeTypes, stopVars, readVars, loopVars
  <2> QED BY <1>5, <2>1, RestKept DEF StopAll
<1>6. CASE CloseStopCh
  <2>1. NodeTypes' BY <1>6 DEF CloseStopCh, NodeTypes, readVars, loopVars
  <2> QED BY <1>6, <2>1, RestKept DEF CloseStopCh
<1>7. CASE TransportStop
  <2>1. NodeTypes' BY <1>7 DEF TransportStop, NodeTypes, readVars, loopVars
  <2> QED BY <1>7, <2>1, RestKept DEF TransportStop
<1>8. CASE TransportClose
  <2>1. NodeTypes' BY <1>8 DEF TransportClose, NodeTypes, readVars, loopVars
  <2> QED BY <1>8, <2>1, RestKept DEF TransportClose
<1>9. CASE Wait
  <2>1. NodeTypes' BY <1>9 DEF Wait, NodeTypes, stopVars, readVars, loopVars
  <2> QED BY <1>9, <2>1, RestKept DEF Wait
<1>10. ASSUME NEW n \in Name, AlgoStart(n) PROVE RestInv'
  <2>1. NodeTypes' BY <1>10 DEF AlgoStart, NodeTypes, stopVars, readVars, loopVars
  <2> QED BY <1>10, <2>1, RestKept DEF AlgoStart
<1>11. ASSUME NEW n \in Name, AlgoStop(n) PROVE RestInv'
  <2>1. NodeTypes' BY <1>11 DEF AlgoStop, NodeTypes, stopVars, readVars, loopVars
  <2> QED BY <1>11, <2>1, RestKept DEF AlgoStop
<1> QED
  BY <1>1, <1>2, <1>3, <1>4, <1>5, <1>6, <1>7, <1>8, <1>9, <1>10, <1>11

\* Putting a message into the channel, where there is room.
LEMMA PushKeeps ==
  ASSUME RestInv, NEW c \in Conn, HasRoom, Push(c), setup' = setup,
         reader[c] \in {"offer", "push"}
  PROVE  /\ recvCh' \in Seq([conn : Conn, n : 1..MaxRead[setup']])
         /\ Len(recvCh') <= Cap
<1>1. MaxRead[setup] \in Nat BY MaxReadNat DEF RestInv, NodeTypes
<1>2. [conn |-> c, n |-> read[c]] \in [conn : Conn, n : 1..MaxRead[setup]]
  BY <1>1 DEF RestInv, NodeTypes, HasRead
<1> QED
  BY <1>2, CapPositive, AppendProperties DEF RestInv, NodeTypes, HasRoom, Push

\* Reading messages off the network into the channel.
LEMMA ReadersKeep ==
  ASSUME RestInv,
         \/ AcceptEnds
         \/ \E c \in Conn : Accept(c) \/ Read(c) \/ ReadFails(c) \/ ReaderStep(c)
  PROVE  RestInv'
<1> USE DEF RestInv, Unread, stopVars, loopVars
<1>1. MaxRead[setup] \in Nat BY MaxReadNat DEF NodeTypes
<1>2. CASE AcceptEnds
  <2>1. NodeTypes' BY <1>2 DEF AcceptEnds, NodeTypes
  <2> QED
    BY <1>2, <2>1 DEF AcceptEnds, HasRead, OneReader, UdpNeverBlocks, ReadersGone,
                      transport, HasRoom, Ended
<1>3. ASSUME NEW c \in Conn, Accept(c) PROVE RestInv'
  <2>1. NodeTypes' BY <1>3 DEF Accept, NodeTypes
  <2> QED
    BY <1>3, <2>1 DEF Accept, NodeTypes, HasRead, OneReader, UdpNeverBlocks,
                      ReadersGone, transport, HasRoom, Ended
<1>4. ASSUME NEW c \in Conn, Read(c) PROVE RestInv'
  <2>1. NodeTypes' BY <1>1, <1>4 DEF Read, NodeTypes
  <2> QED
    BY <1>1, <1>4, <2>1 DEF Read, NodeTypes, HasRead, OneReader, UdpNeverBlocks,
                      ReadersGone, transport, HasRoom, Ended
<1>5. ASSUME NEW c \in Conn, NEW pc \in {"check", "read", "drop", "done"},
             reader[c] \in {"check", "read", "offer"},
             pc = "drop" => reader[c] = "offer",
             reader' = [reader EXCEPT ![c] = pc],
             UNCHANGED <<Unread, acceptLoop, read, recvCh>>
      PROVE  RestInv'
  <2>1. reader' \in [Conn -> {"off", "check", "read", "offer", "drop", "push", "done"}]
    BY <1>5 DEF NodeTypes
  <2>2. /\ setup' = setup /\ main' = main /\ todo' = todo /\ stopCh' = stopCh
        /\ trStop' = trStop /\ trClosed' = trClosed /\ recvLoop' = recvLoop
        /\ handled' = handled /\ sendLoop' = sendLoop
        /\ acceptLoop' = acceptLoop /\ read' = read /\ recvCh' = recvCh
    BY <1>5
  <2>3. NodeTypes' BY <2>1, <2>2 DEF NodeTypes
  <2>4. \A d \in Conn : reader'[d] = IF d = c THEN pc ELSE reader[d]
    BY <1>5 DEF NodeTypes
  <2>5. HasRead' BY <1>5, <2>2, <2>4 DEF HasRead
  <2>6. OneReader' BY <1>5, <2>2, <2>4 DEF OneReader, transport
  <2>7. UdpNeverBlocks'
    BY <1>5, <2>2, <2>4 DEF UdpNeverBlocks, transport, HasRoom
  <2>8. ReadersGone' BY <1>5, <2>2, <2>4 DEF ReadersGone, Ended
  <2> QED BY <2>3, <2>5, <2>6, <2>7, <2>8
<1>6. ASSUME NEW c \in Conn, ReadFails(c) \/ Check(c) \/ ReadClosed(c) PROVE RestInv'
  <2>1. \E pc \in {"check", "read", "done"} :
          /\ reader[c] \in {"check", "read", "offer"}
          /\ reader' = [reader EXCEPT ![c] = pc]
          /\ UNCHANGED <<Unread, acceptLoop, read, recvCh>>
    BY <1>6 DEF ReadFails, Check, ReadClosed
  <2> QED BY <1>5, <2>1
<1>7. ASSUME NEW c \in Conn, Drop(c) PROVE RestInv'
  <2>1. /\ recvCh' \in Seq([conn : Conn, n : 1..MaxRead[setup]])
        /\ Len(recvCh') < Cap
    <3>1. CASE recvCh = <<>> BY <1>7, <3>1, CapPositive DEF Drop, NodeTypes
    <3>2. CASE recvCh # <<>>
      BY <1>7, <3>2, CapPositive, HeadTailProperties DEF Drop, NodeTypes
    <3> QED BY <3>1, <3>2
  <2>2. NodeTypes' BY <1>7, <2>1, CapPositive DEF Drop, NodeTypes
  <2> QED
    BY <1>7, <2>1, <2>2 DEF Drop, NodeTypes, HasRead, OneReader, UdpNeverBlocks,
                      ReadersGone, transport, HasRoom, Ended
<1>8. ASSUME NEW c \in Conn, reader[c] \in {"offer", "push"}, HasRoom, Push(c),
             reader' = [reader EXCEPT ![c] = "check"],
             UNCHANGED <<Unread, acceptLoop, read>>
      PROVE  RestInv'
  <2>1. NodeTypes'
    <3>1. /\ recvCh' \in Seq([conn : Conn, n : 1..MaxRead[setup']])
          /\ Len(recvCh') <= Cap
      <4>1. setup' = setup BY <1>8
      <4> QED BY <1>8, <4>1, PushKeeps
    <3>2. reader' \in [Conn -> {"off", "check", "read", "offer", "drop", "push", "done"}]
      BY <1>8 DEF NodeTypes
    <3>3. /\ setup' = setup /\ main' = main /\ todo' = todo /\ stopCh' = stopCh
          /\ trStop' = trStop /\ trClosed' = trClosed /\ recvLoop' = recvLoop
          /\ handled' = handled /\ sendLoop' = sendLoop
          /\ acceptLoop' = acceptLoop /\ read' = read
      BY <1>8
    <3> QED BY <3>1, <3>2, <3>3 DEF NodeTypes
  <2>2. UdpNeverBlocks'
    <3> SUFFICES ASSUME transport = "udp" PROVE \A d \in Conn : reader'[d] # "push"
      BY <1>8 DEF UdpNeverBlocks, transport
    <3>1. c = Socket BY <1>8 DEF OneReader
    <3>2. \A d \in Conn : reader'[d] = IF d = c THEN "check" ELSE reader[d]
      BY <1>8 DEF NodeTypes
    <3> QED BY <3>1, <3>2 DEF OneReader
  <2> QED
    BY <1>8, <2>1, <2>2 DEF NodeTypes, HasRead, OneReader, ReadersGone, transport,
                      Ended
<1>9. ASSUME NEW c \in Conn, PushBlocking(c) PROVE RestInv'
  BY <1>8, <1>9 DEF PushBlocking
<1>10. ASSUME NEW c \in Conn, Offer(c) PROVE RestInv'
  <2>1. CASE HasRoom BY <1>8, <1>10, <2>1 DEF Offer
  <2>2. CASE ~HasRoom
    <3>1. /\ reader' = [reader EXCEPT ![c] = "drop"] /\ reader[c] = "offer"
          /\ UNCHANGED <<Unread, acceptLoop, read, recvCh>>
      BY <1>10, <2>2 DEF Offer
    <3> QED BY <1>5, <3>1
  <2> QED BY <2>1, <2>2
<1> QED
  BY <1>2, <1>3, <1>4, <1>6, <1>7, <1>9, <1>10 DEF ReaderStep

\* recvLoop takes messages out of the channel and ends, and so does sendLoop.
LEMMA LoopsKeep ==
  ASSUME RestInv, Recv \/ OnMessageReturns \/ RecvLoopEnds \/ SendLoopEnds
  PROVE  RestInv'
<1> USE DEF RestInv
<1>1. MaxRead[setup] \in Nat BY MaxReadNat DEF NodeTypes
<1>2. CASE Recv
  <2>1. /\ recvCh' \in Seq([conn : Conn, n : 1..MaxRead[setup]])
        /\ Len(recvCh') < Len(recvCh)
        /\ Head(recvCh) \in [conn : Conn, n : 1..MaxRead[setup]]
    <3> DEFINE M == [conn : Conn, n : 1..MaxRead[setup]]
    <3>1. recvCh \in Seq(M) /\ recvCh # <<>> /\ recvCh' = Tail(recvCh)
      BY <1>2 DEF Recv, NodeTypes
    <3> HIDE DEF M
    <3>2. Tail(recvCh) \in Seq(M) /\ Len(Tail(recvCh)) = Len(recvCh) - 1
      BY <3>1, HeadTailProperties
    <3>3. Head(recvCh) \in M BY <3>1
    <3>4. Len(recvCh') < Len(recvCh) BY <3>1, <3>2
    <3> QED BY <3>1, <3>2, <3>3, <3>4 DEF M
  <2>2. NodeTypes'
    <3>1. /\ setup' = setup /\ main' = main /\ todo' = todo /\ stopCh' = stopCh
          /\ trStop' = trStop /\ trClosed' = trClosed /\ sendLoop' = sendLoop
          /\ acceptLoop' = acceptLoop /\ read' = read /\ reader' = reader
          /\ recvLoop' = "handle"
          /\ handled' = [handled EXCEPT ![Head(recvCh).conn] = Head(recvCh).n]
      BY <1>2 DEF Recv, stopVars
    <3>2. handled' \in [Conn -> 0..MaxRead[setup]]
      <4>1. Head(recvCh).conn \in Conn /\ Head(recvCh).n \in 0..MaxRead[setup]
        BY <1>1, <2>1
      <4> QED BY <3>1, <4>1 DEF NodeTypes
    <3>3. Len(recvCh') <= Cap
      <4>1. Len(recvCh) \in Nat /\ Len(recvCh') \in Nat /\ Len(recvCh) <= Cap
        BY <2>1 DEF NodeTypes
      <4> QED BY <2>1, <4>1, CapPositive
    <3> QED BY <2>1, <3>1, <3>2, <3>3 DEF NodeTypes
  <2>3. UNCHANGED <<setup, main, acceptLoop, reader, read>> BY <1>2 DEF Recv
  <2>4. HasRead' /\ OneReader' /\ ReadersGone'
    BY <2>3 DEF HasRead, OneReader, ReadersGone, transport
  <2>5. HasRoom => HasRoom'
    <3>1. Len(recvCh) \in Nat /\ Len(recvCh') \in Nat BY <2>2 DEF NodeTypes
    <3> QED BY <2>1, <3>1, CapPositive DEF HasRoom
  <2>6. UdpNeverBlocks' BY <2>3, <2>5 DEF UdpNeverBlocks, transport
  <2> QED BY <2>2, <2>4, <2>6
<1>3. CASE OnMessageReturns
  <2>1. NodeTypes' BY <1>3 DEF OnMessageReturns, NodeTypes, stopVars, readVars
  <2> QED BY <1>3, <2>1, RestKept DEF OnMessageReturns
<1>4. CASE RecvLoopEnds
  <2>1. NodeTypes' BY <1>4 DEF RecvLoopEnds, NodeTypes, stopVars, readVars
  <2> QED BY <1>4, <2>1, RestKept DEF RecvLoopEnds
<1>5. CASE SendLoopEnds
  <2>1. NodeTypes' BY <1>5 DEF SendLoopEnds, NodeTypes, stopVars, readVars
  <2> QED BY <1>5, <2>1, RestKept DEF SendLoopEnds
<1> QED BY <1>2, <1>3, <1>4, <1>5

-----------------------------------------------------------------------------
(* The timers while the goroutines run.                                    *)

\* What leaves the timers alone, or only ends them, keeps their part, unless
\* it is the step at which they have to be quiet.
LEMMA TimersKept ==
  ASSUME TimerInv, QuietOnceStopped, TimerInv', setup' = setup,
         \A s \in Slot : Live(s)' => Live(s),
         main' \in Quiet => main \in Quiet
  PROVE  TimerInv' /\ QuietOnceStopped'
  BY DEF QuietOnceStopped, Quiet, algo

LEMMA TimersAlone ==
  ASSUME TimerInv, QuietOnceStopped, UNCHANGED timerVars, setup' = setup,
         main' \in Quiet => main \in Quiet
  PROVE  TimerInv' /\ QuietOnceStopped'
<1>1. TimerInv'
  BY DEF TimerInv, TimerTypeOK, Named, NoOrphanTicker, Live, timerVars
<1>2. \A s \in Slot : Live(s)' => Live(s) BY DEF Live, timerVars
<1> QED BY <1>1, <1>2, TimersKept

LEMMA TimersStep ==
  ASSUME NodeInv, [Next]_vars
  PROVE  TimerInv' /\ QuietOnceStopped'
<1> USE DEF NodeInv
<1>1. CASE UNCHANGED vars
  BY <1>1, TimersAlone DEF vars
<1>2. CASE Start \/ StartFails \/ Stop \/ CloseStopCh
  BY <1>2, TimersAlone DEF Start, StartFails, Stop, CloseStopCh, Quiet
<1>3. CASE TransportStop \/ TransportClose \/ TransportWait \/ Wait
  BY <1>3, TimersAlone DEF TransportStop, TransportClose, TransportWait, Wait, Quiet
<1>4. CASE AcceptEnds \/ Recv \/ OnMessageReturns \/ RecvLoopEnds \/ SendLoopEnds
  BY <1>4, TimersAlone
  DEF AcceptEnds, Recv, OnMessageReturns, RecvLoopEnds, SendLoopEnds, Unread
<1>5. CASE \E c \in Conn : Accept(c) \/ Read(c) \/ ReadFails(c) \/ ReaderStep(c)
  <2>1. UNCHANGED <<timerVars, setup, main>>
    BY <1>5 DEF Accept, Read, ReadFails, ReaderStep, Check, ReadClosed, Offer, Drop,
                PushBlocking, Unread
  <2> QED BY <2>1, TimersAlone
<1>6. ASSUME NEW n \in Name, AlgoStart(n) PROVE TimerInv' /\ QuietOnceStopped'
  BY <1>6, SetKeeps DEF AlgoStart, QuietOnceStopped
<1>7. ASSUME NEW n \in Name, AlgoStop(n) PROVE TimerInv' /\ QuietOnceStopped'
  BY <1>7, CancelKeeps DEF AlgoStop, QuietOnceStopped
<1>8. CASE StopAll
  <2>1. TimerInv' /\ \A s \in Slot : Live(s)' => Live(s) /\ ticker[s].name \notin Name
    BY <1>8, CancelKeeps DEF StopAll
  <2>2. \A s \in Slot : ~Live(s)' BY <2>1 DEF TimerInv, Named, Live
  <2> QED BY <2>1, <2>2 DEF QuietOnceStopped
<1>9. ASSUME NEW n \in Name, HandlerTimer(n) PROVE TimerInv' /\ QuietOnceStopped'
  <2>1. algo' = "raft" BY <1>9 DEF HandlerTimer, algo
  <2>2. CASE TimerSet(n) BY <2>1, <2>2, SetKeeps DEF QuietOnceStopped
  <2>3. CASE TimerCancel({n}) BY <2>1, <2>3, CancelKeeps DEF QuietOnceStopped
  <2> QED BY <1>9, <2>2, <2>3 DEF HandlerTimer
<1>10. ASSUME NEW s \in Slot, Timer(s) PROVE TimerInv' /\ QuietOnceStopped'
  <2>1. TimerInv' /\ \A t \in Slot : Live(t)' => Live(t)
    BY <1>10, TimerKeeps DEF Timer
  <2> QED BY <1>10, <2>1, TimersKept DEF Timer
<1> QED
  BY <1>1, <1>2, <1>3, <1>4, <1>5, <1>6, <1>7, <1>8, <1>9, <1>10 DEF Next, MainStep

LEMMA RestStep ==
  ASSUME NodeInv, [Next]_vars
  PROVE  RestInv'
<1> USE DEF NodeInv
<1>1. ASSUME NEW n \in Name, HandlerTimer(n) PROVE RestInv'
  <2>1. NodeTypes'
    BY <1>1 DEF HandlerTimer, RestInv, NodeTypes, stopVars, readVars, loopVars
  <2> QED BY <1>1, <2>1, RestKept DEF HandlerTimer
<1>2. ASSUME NEW s \in Slot, Timer(s) PROVE RestInv'
  <2>1. NodeTypes'
    BY <1>2 DEF Timer, RestInv, NodeTypes, stopVars, readVars, loopVars
  <2> QED BY <1>2, <2>1, RestKept DEF Timer
<1>3. CASE UNCHANGED vars
  <2>1. NodeTypes'
    BY <1>3 DEF vars, RestInv, NodeTypes, stopVars, readVars, loopVars
  <2> QED BY <1>3, <2>1, RestKept DEF vars
<1> QED
  BY <1>1, <1>2, <1>3, MainKeeps, ReadersKeep, LoopsKeep DEF Next, MainStep

LEMMA NodeStep == NodeInv /\ [Next]_vars => NodeInv'
  BY TimersStep, RestStep DEF NodeInv

\* Every variable of a node keeps its type, and the channel its capacity.
THEOREM NodeTypeCorrect == Spec => []TypeOK
<1>1. NodeInv => TypeOK BY DEF NodeInv, RestInv, NodeTypes, TimerInv, TypeOK
<1> QED BY <1>1, NodeInit, NodeStep, PTL DEF Spec

\* A timer goroutine that goes on ticking is the one the map knows, however
\* the handlers, Start and Stop set and cancel timers.
THEOREM TickersAreKnown == Spec => []NoOrphanTicker
<1>1. NodeInv => NoOrphanTicker BY DEF NodeInv, TimerInv
<1> QED BY <1>1, NodeInit, NodeStep, PTL DEF Spec

\* Nothing ticks once StopAll has run, for the algorithms whose handlers set
\* no timers.
THEOREM StoppedIsQuiet == Spec => []QuietOnceStopped
<1>1. NodeInv => QuietOnceStopped BY DEF NodeInv
<1> QED BY <1>1, NodeInit, NodeStep, PTL DEF Spec

\* UDP's readLoop is the only one to fill the channel, so that what it has
\* freed is still free at its blocking send.
THEOREM UdpReaderNeverBlocks == Spec => []UdpNeverBlocks
<1>1. NodeInv => UdpNeverBlocks BY DEF NodeInv, RestInv
<1> QED BY <1>1, NodeInit, NodeStep, PTL DEF Spec

\* When the node's Stop has returned, recvLoop has ended.
LoopGone == main = "stopped" => recvLoop \in Ended

LEMMA LoopGoneStep ==
  ASSUME LoopGone, [Next]_vars
  PROVE  LoopGone'
<1> USE DEF LoopGone
<1>1. CASE UNCHANGED <<main, recvLoop>> BY <1>1
<1>2. CASE UNCHANGED recvLoop /\ main' # "stopped" BY <1>2
<1>3. CASE Start BY <1>3 DEF Start
<1>4. CASE Wait BY <1>4 DEF Wait, Ended, loopVars
<1>5. CASE Recv \/ OnMessageReturns \/ RecvLoopEnds \/ SendLoopEnds
  BY <1>5 DEF Recv, OnMessageReturns, RecvLoopEnds, SendLoopEnds, Ended
<1>6. CASE StartFails \/ Stop \/ StopAll \/ CloseStopCh \/ TransportStop
           \/ TransportClose \/ TransportWait
  BY <1>1, <1>2, <1>6 DEF StartFails, Stop, StopAll, CloseStopCh, TransportStop,
                          TransportClose, TransportWait, loopVars
<1>7. ASSUME NEW n \in Name, AlgoStart(n) \/ AlgoStop(n) \/ HandlerTimer(n)
      PROVE  LoopGone'
  BY <1>1, <1>2, <1>7 DEF AlgoStart, AlgoStop, HandlerTimer, loopVars
<1>8. CASE \/ AcceptEnds \/ UNCHANGED vars
           \/ \E c \in Conn : Accept(c) \/ Read(c) \/ ReadFails(c) \/ ReaderStep(c)
           \/ \E s \in Slot : Timer(s)
  <2>1. UNCHANGED <<main, recvLoop>>
    BY <1>8 DEF AcceptEnds, Accept, Read, ReadFails, ReaderStep, Check, ReadClosed,
                Offer, Drop, PushBlocking, Timer, Unread, loopVars, vars
  <2> QED BY <1>1, <2>1
<1> QED
  BY <1>3, <1>4, <1>5, <1>6, <1>7, <1>8 DEF Next, MainStep

\* After the transport's Stop has returned the channel only empties, and after
\* the node's Stop nothing happens to it and nothing is handled.
THEOREM ChannelOnlyEmpties == Spec => NothingAfterStop
<1> DEFINE Final == /\ main \in {"Wait", "stopped"} => Len(recvCh') <= Len(recvCh)
                    /\ main = "stopped" => UNCHANGED <<recvCh, handled>>
<1>1. ASSUME NodeInv, LoopGone, [Next]_vars PROVE [Final]_vars
  <2> SUFFICES ASSUME main \in {"Wait", "stopped"} PROVE Final
    OBVIOUS
  <2>1. acceptLoop \in Ended /\ \A c \in Conn : reader[c] \in Ended
    BY <1>1 DEF NodeInv, RestInv, ReadersGone
  <2>2. Len(recvCh) \in Nat BY <1>1 DEF NodeInv, RestInv, NodeTypes
  <2>3. CASE Recv
    <3> DEFINE M == [conn : Conn, n : 1..MaxRead[setup]]
    <3>1. recvCh \in Seq(M) /\ recvCh # <<>> /\ recvCh' = Tail(recvCh)
      BY <1>1, <2>3 DEF Recv, NodeInv, RestInv, NodeTypes
    <3> HIDE DEF M
    <3>2. Len(Tail(recvCh)) = Len(recvCh) - 1 BY <3>1, HeadTailProperties
    <3>3. main # "stopped" BY <1>1, <2>3 DEF Recv, LoopGone, Ended
    <3>4. Len(recvCh') <= Len(recvCh) BY <2>2, <3>1, <3>2
    <3> QED BY <3>3, <3>4
  <2>4. CASE UNCHANGED <<recvCh, handled>> BY <2>2, <2>4
  <2> HIDE DEF Final
  <2>5. CASE \E c \in Conn : Offer(c) \/ Drop(c) \/ PushBlocking(c)
    BY <2>1, <2>5 DEF Offer, Drop, PushBlocking, Ended
  <2>6. CASE Start \/ StartFails \/ Stop \/ StopAll \/ CloseStopCh \/ TransportStop
    BY <2>4, <2>6 DEF Start, StartFails, Stop, StopAll, CloseStopCh, TransportStop,
                      readVars, loopVars
  <2>7. CASE TransportClose \/ TransportWait \/ Wait \/ AcceptEnds \/ UNCHANGED vars
    BY <2>4, <2>7 DEF TransportClose, TransportWait, Wait, AcceptEnds, vars, readVars,
                      loopVars, Unread
  <2>8. CASE OnMessageReturns \/ RecvLoopEnds \/ SendLoopEnds
    BY <2>4, <2>8 DEF OnMessageReturns, RecvLoopEnds, SendLoopEnds, readVars
  <2>9. CASE \E n \in Name : AlgoStart(n) \/ AlgoStop(n) \/ HandlerTimer(n)
    BY <2>4, <2>9 DEF AlgoStart, AlgoStop, HandlerTimer, readVars, loopVars
  <2>10. CASE \E s \in Slot : Timer(s)
    BY <2>4, <2>10 DEF Timer, readVars, loopVars
  <2>11. CASE \E c \in Conn : Accept(c) \/ Read(c) \/ ReadFails(c) \/ Check(c)
                              \/ ReadClosed(c)
    BY <2>4, <2>11 DEF Accept, Read, ReadFails, Check, ReadClosed, Unread, loopVars
  <2> QED
    BY <1>1, <2>3, <2>5, <2>6, <2>7, <2>8, <2>9, <2>10, <2>11
    DEF Next, MainStep, ReaderStep
<1>2. Init => LoopGone BY DEF Init, LoopGone
<1> QED
  BY <1>1, <1>2, LoopGoneStep, NodeInit, NodeStep, PTL DEF Spec, NothingAfterStop

-----------------------------------------------------------------------------
(***************************************************************************)
(* The order of the channel.  Every step leaves it alone, takes its head   *)
(* out, or appends the message that a reader has in hand; handled follows  *)
(* the head, and LetGo the end.                                            *)
(***************************************************************************)
Msg == [conn : Conn, n : Nat]

\* NewestKept of a channel q when messages up to hd have been handled and
\* those up to lg let go of.
InOrder(q, hd, lg) ==
    /\ \A c \in Conn : hd[c] <= lg[c]
    /\ \A i \in 1..Len(q) :
         /\ q[i].n \in hd[q[i].conn] + 1..lg[q[i].conn]
         /\ \A k \in q[i].n..lg[q[i].conn] :
              \E j \in i..Len(q) : q[j] = [conn |-> q[i].conn, n |-> k]
         /\ \A j \in 1..i - 1 : q[j].conn = q[i].conn => q[j].n < q[i].n

Released == [c \in Conn |-> LetGo(c)]

LEMMA MsgParts ==
  ASSUME NEW q \in Seq(Msg)
  PROVE  \A i \in 1..Len(q) : q[i] \in Msg /\ q[i].conn \in Conn /\ q[i].n \in Nat
<1>1. \A i \in 1..Len(q) : q[i] \in Msg OBVIOUS
<1>2. \A m \in Msg : m.conn \in Conn /\ m.n \in Nat BY DEF Msg
<1> QED BY <1>1, <1>2

\* The channel, and what has been handled and let go of, in terms of Msg.
LEMMA ChannelTypes ==
  ASSUME NodeTypes
  PROVE  /\ recvCh \in Seq(Msg) /\ handled \in [Conn -> Nat]
         /\ Released \in [Conn -> Int]
<1> DEFINE M == [conn : Conn, n : 1..MaxRead[setup]]
<1>1. MaxRead[setup] \in Nat BY MaxReadNat DEF NodeTypes
<1>2. M \subseteq Msg BY <1>1 DEF Msg
<1>3. recvCh \in Seq(M) BY DEF NodeTypes
<1> HIDE DEF M
<1>4. recvCh \in Seq(Msg)
  <2>1. \A i \in 1..Len(recvCh) : recvCh[i] \in Msg BY <1>2, <1>3
  <2>2. recvCh = [i \in 1..Len(recvCh) |-> recvCh[i]] /\ Len(recvCh) \in Nat
    BY <1>3
  <2> QED BY <2>1, <2>2, IsASeq
<1>5. handled \in [Conn -> Nat] BY <1>1 DEF NodeTypes
<1>6. \A c \in Conn : LetGo(c) \in Int BY <1>1 DEF LetGo, InHand, NodeTypes
<1> QED BY <1>4, <1>5, <1>6 DEF Released

LEMMA NewestIsInOrder ==
  ASSUME NodeTypes
  PROVE  NewestKept <=> InOrder(recvCh, handled, Released)
<1>1. \A i \in 1..Len(recvCh) : recvCh[i].conn \in Conn
  BY ChannelTypes, MsgParts
<1>2. \A c \in Conn : Released[c] = LetGo(c) BY DEF Released
<1> QED BY <1>1, <1>2 DEF NewestKept, InOrder

\* Taking the head out, to drop it or to handle it.
LEMMA TailInOrder ==
  ASSUME NEW q \in Seq(Msg), q # <<>>, NEW hd \in [Conn -> Nat],
         NEW lg \in [Conn -> Int], InOrder(q, hd, lg)
  PROVE  /\ InOrder(Tail(q), hd, lg)
         /\ InOrder(Tail(q), [hd EXCEPT ![Head(q).conn] = Head(q).n], lg)
<1> DEFINE t == Tail(q)
           m == Head(q)
           h == [hd EXCEPT ![m.conn] = m.n]
<1>1. /\ t \in Seq(Msg) /\ Len(t) = Len(q) - 1 /\ Len(t) \in Nat
      /\ \A i \in 1..Len(t) : t[i] = q[i + 1]
      /\ m = q[1] /\ Len(q) >= 1 /\ Len(q) \in Nat /\ m \in Msg
  BY HeadTailProperties
<1> HIDE DEF t, m
<1>2. \A i \in 1..Len(q) : q[i] \in Msg /\ q[i].conn \in Conn /\ q[i].n \in Nat
  BY MsgParts
<1>3. ASSUME NEW i \in 1..Len(t)
      PROVE  /\ i + 1 \in 1..Len(q) /\ t[i] = q[i + 1]
             /\ t[i].n \in hd[t[i].conn] + 1..lg[t[i].conn]
             /\ \A k \in t[i].n..lg[t[i].conn] :
                  \E j \in i..Len(t) : t[j] = [conn |-> t[i].conn, n |-> k]
             /\ \A j \in 1..i - 1 : t[j].conn = t[i].conn => t[j].n < t[i].n
             /\ m.conn = t[i].conn => m.n < t[i].n
  <2>1. i + 1 \in 1..Len(q) /\ t[i] = q[i + 1] BY <1>1
  <2>2. t[i].n \in hd[t[i].conn] + 1..lg[t[i].conn] BY <2>1 DEF InOrder
  <2>3. ASSUME NEW k \in t[i].n..lg[t[i].conn]
        PROVE  \E j \in i..Len(t) : t[j] = [conn |-> t[i].conn, n |-> k]
    <3>1. PICK j \in i + 1..Len(q) : q[j] = [conn |-> t[i].conn, n |-> k]
      BY <2>1 DEF InOrder
    <3>2. j - 1 \in i..Len(t) /\ j - 1 \in 1..Len(t) /\ (j - 1) + 1 = j BY <1>1
    <3>3. t[j - 1] = q[j] BY <1>1, <3>2
    <3> QED BY <3>1, <3>2, <3>3
  <2>4. ASSUME NEW j \in 1..i, q[j].conn = t[i].conn PROVE q[j].n < t[i].n
    BY <1>1, <2>1, <2>4 DEF InOrder
  <2>5. ASSUME NEW j \in 1..i - 1, t[j].conn = t[i].conn PROVE t[j].n < t[i].n
    <3>1. t[j] = q[j + 1] /\ j + 1 \in 1..i BY <1>1
    <3> QED BY <2>4, <2>5, <3>1
  <2>6. m.conn = t[i].conn => m.n < t[i].n
    <3>1. 1 \in 1..i OBVIOUS
    <3> QED BY <1>1, <2>4, <3>1
  <2> QED BY <2>1, <2>2, <2>3, <2>5, <2>6
<1>4. InOrder(t, hd, lg) BY <1>3 DEF InOrder
<1>5. /\ h \in [Conn -> Nat] /\ m.conn \in Conn /\ m.n \in Nat
      /\ \A c \in Conn : h[c] = IF c = m.conn THEN m.n ELSE hd[c]
  BY <1>1 DEF Msg
<1> HIDE DEF h
<1>6. \A c \in Conn : h[c] <= lg[c]
  <2>1. 1 \in 1..Len(q) BY <1>1
  <2>2. m.n <= lg[m.conn] /\ lg[m.conn] \in Int
    BY <1>1, <1>5, <2>1 DEF InOrder
  <2> QED BY <1>5, <2>2 DEF InOrder
<1>7. ASSUME NEW i \in 1..Len(t)
      PROVE  t[i].n \in h[t[i].conn] + 1..lg[t[i].conn]
  <2>1. t[i].conn \in Conn /\ t[i].n \in Nat BY <1>2, <1>3
  <2>2. t[i].n \in hd[t[i].conn] + 1..lg[t[i].conn] BY <1>3
  <2>3. m.conn = t[i].conn => m.n < t[i].n BY <1>3
  <2> DEFINE x == t[i].n
             d == t[i].conn
  <2>4. /\ h[d] \in Nat /\ hd[d] \in Nat /\ lg[d] \in Int /\ x \in Nat
        /\ x <= lg[d]
    BY <1>5, <2>1, <2>2
  <2>5. h[d] < x
    <3>1. CASE d = m.conn BY <1>5, <2>1, <2>3, <3>1
    <3>2. CASE d # m.conn
      <4>1. h[d] = hd[d] BY <1>5, <2>1, <3>2
      <4>2. hd[d] + 1 <= x BY <2>1, <2>2
      <4> HIDE DEF x, d
      <4> QED BY <2>4, <4>1, <4>2
    <3> QED BY <3>1, <3>2
  <2> HIDE DEF x, d
  <2>6. x \in h[d] + 1..lg[d] BY <2>4, <2>5
  <2> QED BY <2>6 DEF x, d
<1>8. InOrder(t, h, lg) BY <1>3, <1>6, <1>7 DEF InOrder
<1> QED BY <1>4, <1>8 DEF t, h, m

\* Putting the next message of a connection into the channel.
LEMMA AppendInOrder ==
  ASSUME NEW q \in Seq(Msg), NEW hd \in [Conn -> Nat], NEW lg \in [Conn -> Int],
         InOrder(q, hd, lg), NEW c \in Conn, NEW k \in Nat, lg[c] = k - 1
  PROVE  InOrder(Append(q, [conn |-> c, n |-> k]), hd, [lg EXCEPT ![c] = k])
<1> DEFINE m == [conn |-> c, n |-> k]
           r == Append(q, m)
           g == [lg EXCEPT ![c] = k]
<1>1. m \in Msg /\ m.conn = c /\ m.n = k BY DEF Msg
<1>2. \A d \in Conn : g[d] = IF d = c THEN k ELSE lg[d] OBVIOUS
<1> HIDE DEF m, g
<1>3. /\ Len(r) = Len(q) + 1 /\ Len(q) \in Nat /\ r[Len(q) + 1] = m
      /\ \A i \in 1..Len(q) : r[i] = q[i]
  BY <1>1, AppendProperties
<1> HIDE DEF r
<1>4. \A i \in 1..Len(q) : q[i] \in Msg /\ q[i].conn \in Conn /\ q[i].n \in Nat
  BY MsgParts
<1>5. \A d \in Conn : hd[d] <= lg[d] /\ hd[d] \in Nat /\ lg[d] \in Int
  BY DEF InOrder
<1>6. \A d \in Conn : hd[d] <= g[d] /\ lg[d] <= g[d] /\ g[d] \in Int
  BY <1>2, <1>5
<1>7. ASSUME NEW i \in 1..Len(q)
      PROVE  /\ r[i].n \in hd[r[i].conn] + 1..g[r[i].conn]
             /\ \A x \in r[i].n..g[r[i].conn] :
                  \E j \in i..Len(r) : r[j] = [conn |-> r[i].conn, n |-> x]
             /\ \A j \in 1..i - 1 : r[j].conn = r[i].conn => r[j].n < r[i].n
  <2> DEFINE d == q[i].conn
  <2>1. r[i] = q[i] /\ d \in Conn /\ q[i].n \in Nat BY <1>3, <1>4
  <2>2. q[i].n \in hd[d] + 1..lg[d] BY DEF InOrder
  <2>3. q[i].n \in hd[d] + 1..g[d]
    <3> HIDE DEF d
    <3>1. g[d] \in Int /\ lg[d] <= g[d] /\ lg[d] \in Int /\ hd[d] \in Nat
      BY <1>5, <1>6, <2>1
    <3> QED BY <2>1, <2>2, <3>1
  <2>4. ASSUME NEW x \in q[i].n..g[d]
        PROVE  \E j \in i..Len(r) : r[j] = [conn |-> d, n |-> x]
    <3>1. CASE x \in q[i].n..lg[d]
      <4>1. PICK j \in i..Len(q) : q[j] = [conn |-> d, n |-> x]
        BY <3>1 DEF InOrder
      <4>2. j \in 1..Len(q) /\ j \in i..Len(r) BY <1>3
      <4> QED BY <1>3, <4>1, <4>2
    <3>2. CASE x \notin q[i].n..lg[d]
      <4>1. d = c /\ x = k BY <1>2, <1>5, <2>1, <3>2
      <4>2. Len(q) + 1 \in i..Len(r) BY <1>3
      <4> QED BY <1>3, <4>1, <4>2 DEF m
    <3> QED BY <3>1, <3>2
  <2>5. ASSUME NEW j \in 1..i - 1, r[j].conn = d PROVE r[j].n < q[i].n
    <3>1. r[j] = q[j] BY <1>3
    <3> QED BY <2>5, <3>1 DEF InOrder
  <2> HIDE DEF d
  <2>6. d = r[i].conn BY <2>1 DEF d
  <2> QED BY <2>1, <2>3, <2>4, <2>5, <2>6
<1>8. /\ m.n \in hd[m.conn] + 1..g[m.conn]
      /\ \A x \in m.n..g[m.conn] :
           \E j \in Len(q) + 1..Len(r) : r[j] = [conn |-> m.conn, n |-> x]
      /\ \A j \in 1..Len(q) : r[j].conn = m.conn => r[j].n < m.n
  <2>1. g[c] = k /\ hd[c] <= k - 1 BY <1>2, <1>5
  <2>2. k \in hd[c] + 1..k BY <1>5, <2>1
  <2>3. ASSUME NEW x \in k..k
        PROVE  \E j \in Len(q) + 1..Len(r) : r[j] = [conn |-> c, n |-> x]
    <3>1. x = k /\ Len(q) + 1 \in Len(q) + 1..Len(r) BY <1>3
    <3> QED BY <1>3, <3>1 DEF m
  <2>4. ASSUME NEW j \in 1..Len(q), r[j].conn = c PROVE r[j].n < k
    <3>1. r[j] = q[j] /\ q[j].n <= lg[c] BY <1>3, <2>4 DEF InOrder
    <3> QED BY <1>4, <3>1
  <2> QED BY <1>1, <2>1, <2>2, <2>3, <2>4
<1>9. ASSUME NEW i \in 1..Len(r)
      PROVE  /\ r[i].n \in hd[r[i].conn] + 1..g[r[i].conn]
             /\ \A x \in r[i].n..g[r[i].conn] :
                  \E j \in i..Len(r) : r[j] = [conn |-> r[i].conn, n |-> x]
             /\ \A j \in 1..i - 1 : r[j].conn = r[i].conn => r[j].n < r[i].n
  <2>1. CASE i \in 1..Len(q) BY <1>7, <2>1
  <2>2. CASE i \notin 1..Len(q)
    <3>1. i = Len(q) + 1 /\ i - 1 = Len(q) /\ r[i] = m BY <1>3, <2>2
    <3> QED BY <1>8, <3>1
  <2> QED BY <2>1, <2>2
<1>10. InOrder(r, hd, g) BY <1>6, <1>9 DEF InOrder
<1> QED BY <1>10 DEF r, g, m

\* What a step does to the channel.
Takes == /\ recvCh # <<>> /\ recvCh' = Tail(recvCh) /\ Released' = Released
         /\ \/ handled' = handled
            \/ handled' = [handled EXCEPT ![Head(recvCh).conn] = Head(recvCh).n]
Puts(c) == /\ recvCh' = Append(recvCh, [conn |-> c, n |-> read[c]])
           /\ LetGo(c) = read[c] - 1
           /\ Released' = [Released EXCEPT ![c] = read[c]]
           /\ handled' = handled
Leaves == UNCHANGED <<recvCh, handled, Released>>

\* A reader moves on: what its connection has let go of changes with what it
\* has in hand.
LEMMA ReleasedStep ==
  ASSUME NodeTypes, NEW c \in Conn, NEW pc, reader' = [reader EXCEPT ![c] = pc],
         NEW k, k = read'[c] - IF pc \in {"offer", "drop", "push"} THEN 1 ELSE 0,
         \A d \in Conn : d # c => read'[d] = read[d]
  PROVE  Released' = [Released EXCEPT ![c] = k]
<1>1. \A d \in Conn : reader'[d] = IF d = c THEN pc ELSE reader[d]
  BY DEF NodeTypes
<1>2. \A d \in Conn : LetGo(d)' = IF d = c THEN k ELSE LetGo(d)
  BY <1>1 DEF LetGo, InHand
<1> QED BY <1>2 DEF Released

\* Nothing reads before Start.
NotBeforeStart ==
    main = "new" => acceptLoop = "off" /\ \A c \in Conn : reader[c] = "off"

LEMMA NotBeforeStartStep ==
  ASSUME NotBeforeStart, [Next]_vars
  PROVE  NotBeforeStart'
<1>1. ASSUME main' # "new" PROVE NotBeforeStart' BY <1>1 DEF NotBeforeStart
<1>2. ASSUME UNCHANGED <<main, acceptLoop, reader>> PROVE NotBeforeStart'
  BY <1>2 DEF NotBeforeStart
<1>3. CASE Start \/ StartFails \/ Stop \/ StopAll \/ CloseStopCh
  BY <1>1, <1>3 DEF Start, StartFails, Stop, StopAll, CloseStopCh
<1>4. CASE TransportStop \/ TransportClose \/ TransportWait \/ Wait
  BY <1>1, <1>4 DEF TransportStop, TransportClose, TransportWait, Wait
<1>5. ASSUME NEW n \in Name, AlgoStart(n) \/ AlgoStop(n) PROVE NotBeforeStart'
  BY <1>1, <1>5 DEF AlgoStart, AlgoStop
<1>6. ASSUME NEW n \in Name, HandlerTimer(n) PROVE NotBeforeStart'
  BY <1>2, <1>6 DEF HandlerTimer, readVars
<1>7. ASSUME NEW s \in Slot, Timer(s) PROVE NotBeforeStart'
  BY <1>2, <1>7 DEF Timer, readVars
<1>8. CASE Recv \/ OnMessageReturns \/ RecvLoopEnds \/ SendLoopEnds \/ UNCHANGED vars
  BY <1>2, <1>8 DEF Recv, OnMessageReturns, RecvLoopEnds, SendLoopEnds, vars, readVars
<1>9. ASSUME AcceptEnds \/ \E c \in Conn : Accept(c) \/ Read(c) \/ ReadFails(c)
                                           \/ ReaderStep(c)
      PROVE  NotBeforeStart'
  <2>1. main' = main
    BY <1>9 DEF AcceptEnds, Accept, Read, ReadFails, ReaderStep, Check, ReadClosed,
                Offer, Drop, PushBlocking, Unread
  <2>2. main # "new"
    BY <1>9 DEF NotBeforeStart, AcceptEnds, Accept, Read, ReadFails, ReaderStep,
                Check, ReadClosed, Offer, Drop, PushBlocking
  <2> QED BY <1>1, <2>1, <2>2
<1> QED
  BY <1>3, <1>4, <1>5, <1>6, <1>7, <1>8, <1>9 DEF Next, MainStep

LEMMA ChannelStep ==
  ASSUME NodeInv, NotBeforeStart, [Next]_vars
  PROVE  Leaves \/ Takes \/ \E c \in Conn : Puts(c)
<1>1. NodeTypes BY DEF NodeInv, RestInv
<1>2. MaxRead[setup] \in Nat /\ \A c \in Conn : read[c] \in Nat
  BY <1>1, MaxReadNat DEF NodeTypes
<1>3. ASSUME UNCHANGED <<recvCh, handled, reader, read>> PROVE Leaves
  BY <1>3 DEF Leaves, Released, LetGo, InHand
<1>4. ASSUME NEW c \in Conn, NEW pc, reader' = [reader EXCEPT ![c] = pc],
             UNCHANGED <<recvCh, handled>>,
             \A d \in Conn : d # c => read'[d] = read[d],
             LetGo(c) = read'[c] - IF pc \in {"offer", "drop", "push"} THEN 1 ELSE 0
      PROVE  Leaves
  <2>1. Released' = [Released EXCEPT ![c] = LetGo(c)]
    BY <1>1, <1>4, ReleasedStep
  <2> QED BY <1>4, <2>1 DEF Leaves, Released
<1>5. CASE Start
  <2>1. CASE transport = "udp"
    <3>1. reader[Socket] = "off" BY <1>5, SocketConn DEF Start, NotBeforeStart
    <3>2. LetGo(Socket) = read[Socket] - 0
      BY <1>2, <3>1, SocketConn DEF LetGo, InHand
    <3> QED BY <1>4, <1>5, <2>1, <3>2, SocketConn DEF Start
  <2>2. CASE transport # "udp" BY <1>3, <1>5, <2>2 DEF Start
  <2> QED BY <2>1, <2>2
<1>6. CASE StartFails \/ Stop \/ StopAll \/ CloseStopCh \/ AcceptEnds
  BY <1>3, <1>6 DEF StartFails, Stop, StopAll, CloseStopCh, AcceptEnds, readVars,
                    loopVars, Unread
<1>7. CASE TransportStop \/ TransportClose \/ TransportWait \/ Wait \/ UNCHANGED vars
  BY <1>3, <1>7 DEF TransportStop, TransportClose, TransportWait, Wait, readVars,
                    loopVars, vars
<1>8. ASSUME NEW n \in Name, AlgoStart(n) \/ AlgoStop(n) \/ HandlerTimer(n)
      PROVE  Leaves
  BY <1>3, <1>8 DEF AlgoStart, AlgoStop, HandlerTimer, readVars, loopVars
<1>9. ASSUME NEW s \in Slot, Timer(s) PROVE Leaves
  BY <1>3, <1>9 DEF Timer, readVars, loopVars
<1>10. CASE OnMessageReturns \/ RecvLoopEnds \/ SendLoopEnds
  BY <1>3, <1>10 DEF OnMessageReturns, RecvLoopEnds, SendLoopEnds, readVars
<1>11. CASE Recv
  <2>1. Released' = Released BY <1>11 DEF Recv, Released, LetGo, InHand
  <2> QED BY <1>11, <2>1 DEF Recv, Takes
<1>12. ASSUME NEW c \in Conn, Accept(c) \/ ReadFails(c) \/ Check(c) \/ ReadClosed(c)
       PROVE  Leaves
  <2>1. PICK pc \in {"check", "read", "done"} : reader' = [reader EXCEPT ![c] = pc]
    BY <1>12 DEF Accept, ReadFails, Check, ReadClosed
  <2>2. UNCHANGED <<recvCh, handled, read>> /\ reader[c] \in {"off", "read", "check"}
    BY <1>12 DEF Accept, ReadFails, Check, ReadClosed, Unread, loopVars
  <2>3. LetGo(c) = read'[c] - IF pc \in {"offer", "drop", "push"} THEN 1 ELSE 0
    BY <2>1, <2>2 DEF LetGo, InHand
  <2> QED BY <1>4, <2>1, <2>2, <2>3
<1>13. ASSUME NEW c \in Conn, Read(c) PROVE Leaves
  <2>1. /\ reader' = [reader EXCEPT ![c] = "offer"] /\ reader[c] = "read"
        /\ UNCHANGED <<recvCh, handled>>
    BY <1>13 DEF Read, Unread, loopVars
  <2>2. read'[c] = read[c] + 1 /\ \A d \in Conn : d # c => read'[d] = read[d]
    BY <1>1, <1>13 DEF Read, NodeTypes
  <2>3. LetGo(c) = read'[c] - 1 BY <1>2, <2>1, <2>2 DEF LetGo, InHand
  <2> QED BY <1>4, <2>1, <2>2, <2>3
<1>14. ASSUME NEW c \in Conn, NEW pc \in {"drop", "push"},
              reader' = [reader EXCEPT ![c] = pc], reader[c] \in {"offer", "drop"},
              UNCHANGED read
       PROVE  Released' = Released
  <2>1. Released' = [Released EXCEPT ![c] = read[c] - 1]
    BY <1>1, <1>14, ReleasedStep
  <2>2. LetGo(c) = read[c] - 1 BY <1>14 DEF LetGo, InHand
  <2> QED BY <2>1, <2>2 DEF Released
<1>15. ASSUME NEW c \in Conn, Drop(c) PROVE Leaves \/ Takes
  <2>1. Released' = Released /\ handled' = handled
    BY <1>14, <1>15 DEF Drop, Unread, loopVars
  <2> QED BY <1>15, <2>1 DEF Drop, Leaves, Takes
<1>16. ASSUME NEW c \in Conn, Push(c), reader[c] \in {"offer", "push"},
              reader' = [reader EXCEPT ![c] = "check"], UNCHANGED <<read, handled>>
       PROVE  Puts(c)
  <2>1. Released' = [Released EXCEPT ![c] = read[c]]
    <3>1. read[c] = read'[c] - IF "check" \in {"offer", "drop", "push"}
                               THEN 1 ELSE 0
      BY <1>2, <1>16
    <3> QED BY <1>1, <1>16, <3>1, ReleasedStep
  <2>2. LetGo(c) = read[c] - 1 BY <1>16 DEF LetGo, InHand
  <2> QED BY <1>16, <2>1, <2>2 DEF Push, Puts
<1>17. ASSUME NEW c \in Conn, PushBlocking(c) PROVE Puts(c)
  BY <1>16, <1>17 DEF PushBlocking, Unread, loopVars
<1>18. ASSUME NEW c \in Conn, Offer(c) PROVE Leaves \/ Puts(c)
  <2>1. CASE HasRoom BY <1>16, <1>18, <2>1 DEF Offer, Unread, loopVars
  <2>2. CASE ~HasRoom
    <3>1. Released' = Released BY <1>14, <1>18, <2>2 DEF Offer
    <3> QED BY <1>18, <2>2, <3>1 DEF Offer, Leaves, Unread, loopVars
  <2> QED BY <2>1, <2>2
<1> QED
  BY <1>5, <1>6, <1>7, <1>8, <1>9, <1>10, <1>11, <1>12, <1>13, <1>15, <1>17, <1>18
  DEF Next, MainStep, ReaderStep

KeptInv == NodeInv /\ NotBeforeStart /\ NewestKept

LEMMA KeptStep ==
  ASSUME KeptInv, [Next]_vars
  PROVE  KeptInv'
<1> USE DEF KeptInv
<1>1. NodeInv' BY NodeStep
<1>2. NotBeforeStart' BY NotBeforeStartStep
<1>3. NodeTypes /\ NodeTypes' BY <1>1 DEF NodeInv, RestInv
<1>4. InOrder(recvCh, handled, Released) BY <1>3, NewestIsInOrder
<1>5. /\ recvCh \in Seq(Msg) /\ handled \in [Conn -> Nat]
      /\ Released \in [Conn -> Int]
  BY <1>3, ChannelTypes
<1>6. InOrder(recvCh', handled', Released')
  <2>1. CASE Leaves BY <1>4, <2>1 DEF Leaves
  <2>2. CASE Takes
    <3> DEFINE hd == [handled EXCEPT ![Head(recvCh).conn] = Head(recvCh).n]
    <3>1. InOrder(Tail(recvCh), handled, Released) /\ InOrder(Tail(recvCh), hd, Released)
      BY <1>4, <1>5, <2>2, TailInOrder DEF Takes
    <3>2. /\ recvCh' = Tail(recvCh) /\ Released' = Released
          /\ handled' = handled \/ handled' = hd
      BY <2>2 DEF Takes
    <3> HIDE DEF hd
    <3> QED BY <3>1, <3>2
  <2>3. ASSUME NEW c \in Conn, Puts(c)
        PROVE  InOrder(recvCh', handled', Released')
    <3> DEFINE k == read[c]
    <3>1. k \in Nat BY <1>3, MaxReadNat DEF NodeTypes
    <3>2. Released[c] = k - 1 BY <2>3 DEF Puts, Released
    <3>3. /\ recvCh' = Append(recvCh, [conn |-> c, n |-> k]) /\ handled' = handled
          /\ Released' = [Released EXCEPT ![c] = k]
      BY <2>3 DEF Puts
    <3> HIDE DEF k
    <3>4. InOrder(Append(recvCh, [conn |-> c, n |-> k]), handled,
                  [Released EXCEPT ![c] = k])
      BY <1>4, <1>5, <3>1, <3>2, AppendInOrder
    <3> QED BY <3>3, <3>4
  <2> QED BY <2>1, <2>2, <2>3, ChannelStep
<1>7. NewestKept'
  <2>1. (NodeTypes => (NewestKept <=> InOrder(recvCh, handled, Released)))'
    BY NewestIsInOrder, PTL
  <2> QED BY <1>3, <1>6, <2>1
<1> QED BY <1>1, <1>2, <1>7

\* Messages of a connection are handled in the order in which they were read,
\* and overflow drops the oldest, for any number of connections, any capacity
\* and however recvLoop and the readers interleave between the steps of a
\* full channel's drop and send.
THEOREM NewestAreKept == Spec => []NewestKept
<1>1. Init => KeptInv
  <2> SUFFICES ASSUME Init PROVE KeptInv
    OBVIOUS
  <2>1. /\ \A c \in Conn : LetGo(c) = 0 /\ handled[c] = 0
        /\ Len(recvCh) = 0
    BY DEF Init, LetGo, InHand
  <2>2. NewestKept BY <2>1 DEF NewestKept
  <2>3. NotBeforeStart BY DEF Init, NotBeforeStart
  <2> QED BY <2>2, <2>3, NodeInit DEF KeptInv
<1>2. KeptInv => NewestKept BY DEF KeptInv
<1> QED BY <1>1, <1>2, KeptStep, PTL DEF Spec
==============================================================================
