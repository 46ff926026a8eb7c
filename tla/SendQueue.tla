------------------------------ MODULE SendQueue ------------------------------
(***************************************************************************)
(* The outbound path of a node (node/runtime/router.go and node.go): the   *)
(* priority queue SendQueue, the goroutines that push into it through      *)
(* Node.Send and Node.Broadcast, and sendLoop, which is woken through a    *)
(* channel of capacity one and drains the queue into the transport.        *)
(*                                                                         *)
(* Push holds the queue's lock for its first half and notifies after it    *)
(* has released the lock, so pushes, pops and notifications interleave.    *)
(***************************************************************************)
EXTENDS Integers, Sequences, FiniteSets

CONSTANTS
    Producer,   \* goroutines that send: timers, the receive loop, the user
    Priority,   \* priorities of messages, 0 the most urgent
    Cap,        \* capacity of the queue
    MaxPush,    \* bound: messages pushed in all
    None        \* no message in the hands of sendLoop

ASSUME CapPositive == Cap \in Nat \ {0}
ASSUME PriorityNat == Priority \subseteq Nat
ASSUME MaxPushNat  == MaxPush \in Nat

\* A queueItem: the message reduced to its priority, and its insertion order.
Item == [prio : Priority, seq : 1..MaxPush]

ASSUME NoneNotItem == None \notin Item

VARIABLES
    queue,      \* the items of the heap
    counter,    \* the insertion counter
    notifyC,    \* is there a value in the channel of capacity one?
    pushing,    \* producers that have released the lock and not yet notified
    loop,       \* where sendLoop is: "wait", "drain", "send" or "returned"
    hand,       \* the item that sendLoop has popped and not yet disposed of
    stopCh,     \* is stopCh closed?
    popped,     \* history: the items popped, in order
    sent,       \* history: the items the transport has accepted
    failed,     \* history: items with an unknown peer or a transport error
    evicted     \* history: the items that Push has evicted

queueVars == <<queue, counter>>
histories == <<popped, sent, failed, evicted>>
vars == <<queueVars, notifyC, pushing, loop, hand, stopCh, histories>>

Init ==
    /\ queue = {}
    /\ counter = 0
    /\ notifyC = FALSE
    /\ pushing = {}
    /\ loop = "wait"
    /\ hand = None
    /\ stopCh = FALSE
    /\ popped = <<>>
    /\ sent = {}
    /\ failed = {}
    /\ evicted = {}

\* msgHeap.Less.  The mutant has no tie-breaking.
LessByPriority(x, y) == x.prio < y.prio
Less(x, y) == x.prio < y.prio \/ (x.prio = y.prio /\ x.seq < y.seq)

\* The item Push evicts: the scan starts at the root of the heap and moves on
\* only for a larger priority value.  If the root's priority is the largest
\* the root, which is the oldest item, goes; otherwise one of the items of
\* the largest priority value, whichever the layout of the heap has first.
Worst(x) ==
    /\ \A y \in queue : y.prio <= x.prio
    /\ (\A y \in queue : y.prio = x.prio) => \A y \in queue : ~Less(y, x)

\* Is the queue at its capacity?  The mutant is off by one.
FullOffByOne == Cardinality(queue) > Cap
Full == Cardinality(queue) >= Cap

\* Push up to the release of the lock; Notify is its non-blocking send on
\* notifyC.
Push(p, prio) ==
    LET new == [prio |-> prio, seq |-> counter + 1]
    IN
    /\ p \notin pushing /\ counter < MaxPush
    /\ counter' = counter + 1
    /\ \/ /\ ~Full
          /\ queue' = queue \union {new}
          /\ UNCHANGED evicted
       \/ /\ Full
          /\ \E x \in queue :
                /\ Worst(x)
                /\ queue' = (queue \ {x}) \union {new}
                /\ evicted' = evicted \union {x}
    /\ pushing' = pushing \union {p}
    /\ UNCHANGED <<notifyC, loop, hand, stopCh, popped, sent, failed>>

Notify(p) ==
    /\ p \in pushing
    /\ pushing' = pushing \ {p}
    /\ notifyC' = TRUE
    /\ UNCHANGED <<queueVars, loop, hand, stopCh, histories>>

\* sendLoop's select takes the notification ...
Wake ==
    /\ loop = "wait" /\ notifyC
    /\ notifyC' = FALSE
    /\ loop' = "drain"
    /\ UNCHANGED <<queueVars, pushing, hand, stopCh, histories>>

\* ... or sees stopCh closed; if both are ready it may take either.  The
\* mutants look at stopCh in the middle of a drain, and only when woken.
ReturnAtOnce ==
    /\ loop # "returned" /\ stopCh
    /\ loop' = "returned"
    /\ UNCHANGED <<queueVars, notifyC, pushing, hand, stopCh, histories>>
ReturnOnWake ==
    /\ loop = "wait" /\ notifyC /\ stopCh
    /\ loop' = "returned"
    /\ UNCHANGED <<queueVars, notifyC, pushing, hand, stopCh, histories>>
Return ==
    /\ loop = "wait" /\ stopCh
    /\ loop' = "returned"
    /\ UNCHANGED <<queueVars, notifyC, pushing, hand, stopCh, histories>>

\* Pop of the most urgent item, and of an empty queue, which ends the drain.
\* The mutant leaves the item at the head of the queue.
PopPeek ==
    /\ loop = "drain"
    /\ \E x \in queue :
          /\ \A y \in queue : ~Less(y, x)
          /\ hand' = x
          /\ popped' = Append(popped, x)
    /\ loop' = "send"
    /\ UNCHANGED <<queueVars, notifyC, pushing, stopCh, sent, failed, evicted>>
Pop ==
    /\ loop = "drain"
    /\ \E x \in queue :
          /\ \A y \in queue : ~Less(y, x)
          /\ queue' = queue \ {x}
          /\ hand' = x
          /\ popped' = Append(popped, x)
    /\ loop' = "send"
    /\ UNCHANGED <<counter, notifyC, pushing, stopCh, sent, failed, evicted>>

PopEmpty ==
    /\ loop = "drain" /\ queue = {}
    /\ loop' = "wait"
    /\ UNCHANGED <<queueVars, notifyC, pushing, hand, stopCh, histories>>

\* The rest of the loop's body: the transport takes the item, or its peer is
\* unknown or the transport returns an error.  Either way the drain goes on.
\* The mutant gives up the drain when the transport fails.
TransmitOrWait(ok) ==
    /\ loop = "send"
    /\ sent'   = IF ok THEN sent \union {hand} ELSE sent
    /\ failed' = IF ok THEN failed ELSE failed \union {hand}
    /\ hand' = None
    /\ loop' = IF ok THEN "drain" ELSE "wait"
    /\ UNCHANGED <<queueVars, notifyC, pushing, stopCh, popped, evicted>>
Transmit(ok) ==
    /\ loop = "send"
    /\ sent'   = IF ok THEN sent \union {hand} ELSE sent
    /\ failed' = IF ok THEN failed ELSE failed \union {hand}
    /\ hand' = None
    /\ loop' = "drain"
    /\ UNCHANGED <<queueVars, notifyC, pushing, stopCh, popped, evicted>>

\* Node.Stop closes stopCh; producers may still be pushing.
Stop ==
    /\ ~stopCh
    /\ stopCh' = TRUE
    /\ UNCHANGED <<queueVars, notifyC, pushing, loop, hand, histories>>

SendLoop == Wake \/ Return \/ Pop \/ PopEmpty \/ \E ok \in BOOLEAN : Transmit(ok)

Next == \/ \E p \in Producer : Notify(p) \/ \E prio \in Priority : Push(p, prio)
        \/ SendLoop
        \/ Stop

\* The Go scheduler runs every goroutine that can run: sendLoop, whose calls
\* of the transport return, and a producer that is past the queue's lock.
Fairness == WF_vars(SendLoop) /\ \A p \in Producer : WF_vars(Notify(p))

Spec == Init /\ [][Next]_vars /\ Fairness

-----------------------------------------------------------------------------
\* The queue holds items with a number up to the counter; sendLoop holds an
\* item exactly between a pop and the end of the call of the transport.
TypeOK ==
    /\ queue \subseteq Item
    /\ counter \in 0..MaxPush
    /\ \A x \in queue : x.seq <= counter
    /\ notifyC \in BOOLEAN /\ stopCh \in BOOLEAN
    /\ pushing \subseteq Producer
    /\ loop \in {"wait", "drain", "send", "returned"}
    /\ hand \in Item \union {None}
    /\ loop = "send" <=> hand # None
    /\ popped \in Seq(Item)
    /\ sent \subseteq Item /\ failed \subseteq Item /\ evicted \subseteq Item

\* sendLoop never sleeps on a non-empty queue without a notification in the
\* channel or about to be put there, although Push notifies outside the lock
\* and the channel holds one value for any number of pushes.
NoLostWakeup == loop = "wait" /\ queue # {} => notifyC \/ pushing # {}

\* The queue never holds more than its capacity.
Bounded == Cardinality(queue) <= Cap

\* An item is overtaken only by items pushed after it: within a priority
\* messages leave in the order of the pushes ("FIFO within same priority
\* tier"), and a more urgent one overtakes only what it found waiting.
ServiceOrder ==
    \A i, j \in 1..Len(popped) :
        i < j /\ popped[j].prio <= popped[i].prio => popped[i].seq < popped[j].seq

\* Every pushed message is waiting, in the hands of sendLoop, sent, failed or
\* evicted, and only in one of these places.
Places == <<queue, {hand} \ {None}, sent, failed, evicted>>

Accounted ==
    /\ \A n \in 1..counter : \E k \in DOMAIN Places : \E x \in Places[k] : x.seq = n
    /\ \A k, l \in DOMAIN Places : \A x \in Places[k], y \in Places[l] :
          k # l \/ x # y => x.seq # y.seq

\* Once the producers pause, every message that waits in the queue leaves it or
\* the node is stopped: none is forgotten there, whatever the transport did to
\* those before it.  There are MaxPush pushes here, so that they do pause; the
\* priorities are strict, and urgent messages pushed without end would keep a
\* less urgent one waiting for ever.
EventuallyServed == \A x \in Item : x \in queue ~> x \notin queue \/ stopCh

\* Stop is not held up: sendLoop notices stopCh and returns, although it
\* looks at it only between drains.  (Messages pushed without end could keep
\* it draining; here there are MaxPush of them.)
StopReturns == stopCh ~> loop = "returned"
==============================================================================
