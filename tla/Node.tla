-------------------------------- MODULE Node ---------------------------------
(***************************************************************************)
(* The life of a node (node/runtime/node.go) with its timers and the       *)
(* inbound side of its transport (node/transport/udp, node/transport/tcp): *)
(* the goroutines that read the network into a bounded channel, the one    *)
(* that takes messages out of it and runs the algorithm's handlers, the    *)
(* timer goroutines that run them as well, and Start and Stop.             *)
(*                                                                         *)
(* What the handlers do is the business of the other modules; here they    *)
(* matter because those of Raft set and cancel timers, also while the node *)
(* is stopping.  sendLoop is SendQueue.tla and only has to end.            *)
(***************************************************************************)
EXTENDS TimerManager, Sequences, FiniteSets

CONSTANTS
    Conn,       \* connections; UDP has one socket and uses one of them
    Socket,     \* that one
    Cap,        \* recvBufSize
    Setups,     \* the transports and algorithms a node is made with
    MaxRead     \* bound: setup |-> messages read from a connection

ASSUME SocketConn == Socket \in Conn
ASSUME CapPositive == Cap \in Nat \ {0}
ASSUME SetupsKnown ==
    Setups \subseteq [transport : {"udp", "tcp"}, algo : {"raft", "gossip", "weaknet"}]
ASSUME MaxReadNat == MaxRead \in [Setups -> Nat]

VARIABLES
    setup,      \* what the node was made with
    main,       \* what the goroutine that calls Start and Stop does next
    todo,       \* the timers it still has to set or to cancel
    stopCh,     \* has Node.Stop closed the node's stopCh?
    trStop,     \* has the transport's Stop closed its stopCh ...
    trClosed,   \* ... and the socket or the listener?
    acceptLoop, \* tcp: "off", "accept" or "done"
    reader,     \* conn |-> what readLoop or handleConn does next
    read,       \* conn |-> number of messages read from it; a message is its
                \*          connection and its number
    recvCh,     \* the channel between the readers and recvLoop
    recvLoop,   \* "off", "select", "handle" or "done"
    handled,    \* conn |-> number of the last message handled
    sendLoop    \* "off", "running" or "done"

transport == setup.transport
algo == setup.algo
stopVars == <<stopCh, trStop, trClosed>>
readVars == <<acceptLoop, reader, read, recvCh>>
loopVars == <<recvLoop, handled, sendLoop>>
vars == <<timerVars, setup, main, todo, stopVars, readVars, loopVars>>

\* The timers an algorithm's Start sets, and those its Stop cancels.
StartTimers == [raft    |-> {"raft_election"},
                gossip  |-> {"gossip"},
                weaknet |-> {"wn_sync", "wn_retx", "wn_purge"}]
StopTimers == [StartTimers EXCEPT !.raft = @ \union {"raft_heartbeat"}]

ASSUME NamesKnown == \A s \in Setups : StopTimers[s.algo] \subseteq Name

Init ==
    /\ TimerInit
    /\ setup \in Setups
    /\ main = "new" /\ todo = {}
    /\ stopCh = FALSE /\ trStop = FALSE /\ trClosed = FALSE
    /\ acceptLoop = "off"
    /\ reader = [c \in Conn |-> "off"]
    /\ read = [c \in Conn |-> 0]
    /\ recvCh = <<>>
    /\ recvLoop = "off" /\ handled = [c \in Conn |-> 0]
    /\ sendLoop = "off"

-----------------------------------------------------------------------------
(* Start and Stop.                                                         *)

\* The transport starts, the two loops start, and then the algorithm.
Start ==
    /\ main = "new"
    /\ main' = "algo.Start" /\ todo' = StartTimers[algo]
    /\ IF transport = "udp"
       THEN reader' = [reader EXCEPT ![Socket] = "check"] /\ UNCHANGED acceptLoop
       ELSE acceptLoop' = "accept" /\ UNCHANGED reader
    /\ recvLoop' = "select" /\ sendLoop' = "running"
    /\ UNCHANGED <<timerVars, setup, stopVars, read, recvCh, handled>>

\* The address is taken: Start returns the error, and nothing runs.
StartFails ==
    /\ main = "new"
    /\ main' = "failed"
    /\ UNCHANGED <<timerVars, setup, todo, stopVars, readVars, loopVars>>

AlgoStart(n) ==
    /\ main = "algo.Start" /\ n \in todo
    /\ TimerSet(n)
    /\ todo' = todo \ {n}
    /\ main' = IF todo = {n} THEN "running" ELSE main
    /\ UNCHANGED <<setup, stopVars, readVars, loopVars>>

\* Stop: the algorithm cancels its timers, StopAll cancels what is left, and
\* stopCh is closed.
Stop ==
    /\ main \in {"running", "failed"}
    /\ main' = "algo.Stop" /\ todo' = StopTimers[algo]
    /\ UNCHANGED <<timerVars, setup, stopVars, readVars, loopVars>>

AlgoStop(n) ==
    /\ main = "algo.Stop" /\ n \in todo
    /\ TimerCancel({n})
    /\ todo' = todo \ {n}
    /\ main' = IF todo = {n} THEN "StopAll" ELSE main
    /\ UNCHANGED <<setup, stopVars, readVars, loopVars>>

StopAll ==
    /\ main = "StopAll"
    /\ TimerCancel(Name)
    /\ main' = "close"
    /\ UNCHANGED <<setup, todo, stopVars, readVars, loopVars>>

CloseStopCh ==
    /\ main = "close"
    /\ stopCh' = TRUE
    /\ main' = "tr.Stop"
    /\ UNCHANGED <<timerVars, setup, todo, trStop, trClosed, readVars, loopVars>>

\* The transport's Stop: its stopCh, the socket or the listener, but not the
\* connections that were accepted, and then it waits for its goroutines.
TransportStop ==
    /\ main = "tr.Stop" /\ ~trStop
    /\ trStop' = TRUE
    /\ UNCHANGED <<timerVars, setup, main, todo, stopCh, trClosed, readVars,
                   loopVars>>

TransportClose ==
    /\ main = "tr.Stop" /\ trStop
    /\ trClosed' = TRUE
    /\ main' = "tr.Wait"
    /\ UNCHANGED <<timerVars, setup, todo, stopCh, trStop, readVars, loopVars>>

\* The mutant does not wait.
TransportWaitNot ==
    /\ main = "tr.Wait"
    /\ main' = "Wait"
    /\ UNCHANGED <<timerVars, setup, todo, stopVars, readVars, loopVars>>
TransportWait ==
    /\ main = "tr.Wait"
    /\ acceptLoop \in {"off", "done"}
    /\ \A c \in Conn : reader[c] \in {"off", "done"}
    /\ main' = "Wait"
    /\ UNCHANGED <<timerVars, setup, todo, stopVars, readVars, loopVars>>

Wait ==
    /\ main = "Wait"
    /\ {recvLoop, sendLoop} \subseteq {"off", "done"}
    /\ main' = "stopped"
    /\ UNCHANGED <<timerVars, setup, todo, stopVars, readVars, loopVars>>

-----------------------------------------------------------------------------
(* The transport's goroutines.                                             *)

Unread == <<timerVars, setup, main, todo, stopVars, loopVars>>

\* acceptLoop: a peer connects, which may still happen between the two steps
\* of Stop; an error of a closed listener ends the loop.
Accept(c) ==
    /\ acceptLoop = "accept" /\ ~trClosed /\ reader[c] = "off"
    /\ reader' = [reader EXCEPT ![c] = "check"]
    /\ UNCHANGED <<Unread, acceptLoop, read, recvCh>>

AcceptEnds ==
    /\ acceptLoop = "accept" /\ trClosed
    /\ acceptLoop' = "done"
    /\ UNCHANGED <<Unread, reader, read, recvCh>>

\* The loop of a reader: look at stopCh, then block in a read.
Check(c) ==
    /\ reader[c] = "check"
    /\ reader' = [reader EXCEPT ![c] = IF trStop THEN "done" ELSE "read"]
    /\ UNCHANGED <<Unread, acceptLoop, read, recvCh>>

\* A message arrives and is decoded ...
Read(c) ==
    /\ reader[c] = "read" /\ read[c] < MaxRead[setup]
    /\ transport = "udp" => ~trClosed
    /\ read' = [read EXCEPT ![c] = @ + 1]
    /\ reader' = [reader EXCEPT ![c] = "offer"]
    /\ UNCHANGED <<Unread, acceptLoop, recvCh>>

\* ... or it cannot be: UDP goes on with the next datagram, TCP gives the
\* connection up, as it does when the peer closes it.
ReadFails(c) ==
    /\ reader[c] = "read"
    /\ transport = "udp" => ~trClosed
    /\ reader' = [reader EXCEPT ![c] = IF transport = "udp" THEN "check" ELSE "done"]
    /\ UNCHANGED <<Unread, acceptLoop, read, recvCh>>

\* The read of a socket that has been closed fails.
ReadClosed(c) ==
    /\ reader[c] = "read" /\ transport = "udp" /\ trClosed
    /\ reader' = [reader EXCEPT ![c] = "done"]
    /\ UNCHANGED <<Unread, acceptLoop, read, recvCh>>

\* The message goes into the channel if there is room.  If not, the oldest is
\* taken out, should there still be one, and the message is sent blocking.
Push(c) == recvCh' = Append(recvCh, [conn |-> c, n |-> read[c]])

\* The mutant of the capacity is off by one.
HasRoomOffByOne == Len(recvCh) <= Cap
HasRoom == Len(recvCh) < Cap

Offer(c) ==
    /\ reader[c] = "offer"
    /\ IF HasRoom
       THEN Push(c) /\ reader' = [reader EXCEPT ![c] = "check"]
       ELSE reader' = [reader EXCEPT ![c] = "drop"] /\ UNCHANGED recvCh
    /\ UNCHANGED <<Unread, acceptLoop, read>>

\* The mutants leave the channel as it is, and take the newest out of it.
DropNone(c) ==
    /\ reader[c] = "drop"
    /\ reader' = [reader EXCEPT ![c] = "push"]
    /\ UNCHANGED <<Unread, acceptLoop, read, recvCh>>
DropNewest(c) ==
    /\ reader[c] = "drop"
    /\ recvCh' = SubSeq(recvCh, 1, Len(recvCh) - 1)
    /\ reader' = [reader EXCEPT ![c] = "push"]
    /\ UNCHANGED <<Unread, acceptLoop, read>>
Drop(c) ==
    /\ reader[c] = "drop"
    /\ recvCh' = IF recvCh = <<>> THEN recvCh ELSE Tail(recvCh)
    /\ reader' = [reader EXCEPT ![c] = "push"]
    /\ UNCHANGED <<Unread, acceptLoop, read>>

PushBlocking(c) ==
    /\ reader[c] = "push" /\ HasRoom
    /\ Push(c)
    /\ reader' = [reader EXCEPT ![c] = "check"]
    /\ UNCHANGED <<Unread, acceptLoop, read>>

-----------------------------------------------------------------------------
(* recvLoop, sendLoop and the handlers.                                    *)

\* select: a message, or the end; with both ready either may be taken.
Recv ==
    /\ recvLoop = "select" /\ recvCh # <<>>
    /\ recvCh' = Tail(recvCh)
    /\ handled' = [handled EXCEPT ![Head(recvCh).conn] = Head(recvCh).n]
    /\ recvLoop' = "handle"
    /\ UNCHANGED <<timerVars, setup, main, todo, stopVars, acceptLoop, reader,
                   read, sendLoop>>

OnMessageReturns ==
    /\ recvLoop = "handle"
    /\ recvLoop' = "select"
    /\ UNCHANGED <<timerVars, setup, main, todo, stopVars, readVars, handled,
                   sendLoop>>

RecvLoopEnds ==
    /\ recvLoop = "select" /\ stopCh
    /\ recvLoop' = "done"
    /\ UNCHANGED <<timerVars, setup, main, todo, stopVars, readVars, handled,
                   sendLoop>>

SendLoopEnds ==
    /\ sendLoop = "running" /\ stopCh
    /\ sendLoop' = "done"
    /\ UNCHANGED <<timerVars, setup, main, todo, stopVars, readVars, recvLoop,
                   handled>>

\* A handler that runs, in recvLoop or in a timer goroutine, sets or cancels a
\* timer: those of Raft do, with either of its timers.
Handling == recvLoop = "handle" \/ \E s \in Slot : ticker[s].pc = "callback"

HandlerTimer(n) ==
    /\ Handling /\ algo = "raft" /\ n \in StopTimers[algo]
    /\ TimerSet(n) \/ TimerCancel({n})
    /\ UNCHANGED <<setup, main, todo, stopVars, readVars, loopVars>>

Timer(s) ==
    /\ Fire(s) \/ CallbackReturns(s) \/ TimerEnds(s)
    /\ UNCHANGED <<setup, main, todo, stopVars, readVars, loopVars>>

-----------------------------------------------------------------------------
MainStep ==
    \/ \E n \in Name : AlgoStart(n) \/ AlgoStop(n)
    \/ StopAll \/ CloseStopCh \/ TransportStop \/ TransportClose
    \/ TransportWait \/ Wait

ReaderStep(c) ==
    \/ Check(c) \/ ReadClosed(c) \/ Offer(c) \/ Drop(c) \/ PushBlocking(c)

Next ==
    \/ Start \/ StartFails \/ Stop \/ MainStep
    \/ AcceptEnds
    \/ \E c \in Conn : Accept(c) \/ Read(c) \/ ReadFails(c) \/ ReaderStep(c)
    \/ Recv \/ OnMessageReturns \/ RecvLoopEnds \/ SendLoopEnds
    \/ \E n \in Name : HandlerTimer(n)
    \/ \E s \in Slot : Timer(s)

Spec == Init /\ [][Next]_vars

\* Every goroutine that can run does so eventually: main once it is in Start
\* or Stop, the readers but for the arrival of data, and the loops.  Nothing
\* is assumed of the peers, of the user or of the clock.
Fairness ==
    /\ WF_vars(MainStep) /\ WF_vars(AcceptEnds)
    /\ \A c \in Conn : WF_vars(ReaderStep(c))
    /\ WF_vars(OnMessageReturns) /\ WF_vars(RecvLoopEnds)
    /\ WF_vars(SendLoopEnds)
    /\ \A s \in Slot : WF_vars(Timer(s) /\ ~Live(s))

FairSpec == Spec /\ Fairness

-----------------------------------------------------------------------------
\* Every variable has its type, and the channel its capacity.
TypeOK ==
    /\ TimerTypeOK
    /\ setup \in Setups
    /\ main \in {"new", "failed", "algo.Start", "running", "algo.Stop", "StopAll",
                 "close", "tr.Stop", "tr.Wait", "Wait", "stopped"}
    /\ todo \subseteq Name
    /\ stopCh \in BOOLEAN /\ trStop \in BOOLEAN /\ trClosed \in BOOLEAN
    /\ acceptLoop \in {"off", "accept", "done"}
    /\ reader \in [Conn -> {"off", "check", "read", "offer", "drop", "push", "done"}]
    /\ read \in [Conn -> 0..MaxRead[setup]]
    /\ recvCh \in Seq([conn : Conn, n : 1..MaxRead[setup]]) /\ Len(recvCh) <= Cap
    /\ recvLoop \in {"off", "select", "handle", "done"}
    /\ handled \in [Conn -> 0..MaxRead[setup]]
    /\ sendLoop \in {"off", "running", "done"}

\* "If a timer with name already exists it is cancelled first": a goroutine
\* that goes on ticking is the one the map knows, so that no timer ticks twice
\* and none is out of reach of Cancel and StopAll, whichever goroutines set
\* and cancel it and when.
NoOrphanTicker ==
    \A s \in Slot : Live(s) => timers[ticker[s].name] = s

\* Once Stop has cancelled the timers of an algorithm whose handlers set none,
\* nothing ticks any more.  Raft's handlers do set timers, and may do so
\* between StopAll and the end of recvLoop.
QuietOnceStopped ==
    main \in {"close", "tr.Stop", "tr.Wait", "Wait", "stopped"} /\ algo # "raft"
        => \A s \in Slot : ~Live(s)

\* "This prevents the goroutine from blocking": the second send of UDP's
\* readLoop finds room, whatever recvLoop did since the first one failed, also
\* when recvLoop has ended.
UdpNeverBlocks ==
    transport = "udp" =>
        \A c \in Conn : reader[c] = "push" => HasRoom

\* Messages of a connection are handled in the order in which they were read,
\* and what overflow drops is the oldest: a message in the channel has not been
\* overtaken by one that was handled, and all that its reader has let go of
\* since are behind it, none of them lost.
InHand(c) == IF reader[c] \in {"offer", "drop", "push"} THEN 1 ELSE 0
LetGo(c) == read[c] - InHand(c)
NewestKept ==
    /\ \A c \in Conn : handled[c] <= LetGo(c)
    /\ \A i \in 1..Len(recvCh) :
         LET m == recvCh[i]
         IN  /\ m.n \in handled[m.conn] + 1..LetGo(m.conn)
             /\ \A k \in m.n..LetGo(m.conn) :
                  \E j \in i..Len(recvCh) : recvCh[j] = [conn |-> m.conn, n |-> k]
             /\ \A j \in 1..i - 1 : recvCh[j].conn = m.conn => recvCh[j].n < m.n

\* Stop is final.  Once the transport's Stop has returned, no reader puts
\* anything into the channel; recvLoop may still take out and handle what was
\* left in it, until Node.Stop has returned as well: then nothing is received
\* or handled any more.
NothingAfterStop ==
    [][/\ main \in {"Wait", "stopped"} => Len(recvCh') <= Len(recvCh)
       /\ main = "stopped" => UNCHANGED <<recvCh, handled>>]_vars

\* A node on UDP that is told to stop has stopped eventually, whatever arrives.
UdpStops == transport = "udp" /\ main = "algo.Stop" ~> main = "stopped"

\* The same of a node on TCP.
TcpStops == transport = "tcp" /\ main = "algo.Stop" ~> main = "stopped"
==============================================================================
