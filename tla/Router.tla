------------------------------- MODULE Router -------------------------------
(***************************************************************************)
(* The inbound path of a node (node/runtime/router.go): Router.Dispatch    *)
(* with its TTL check and the sliding window of sequence numbers that      *)
(* peerDedup keeps per sender and stream, fed by the counters with which   *)
(* Node.Send and Node.Broadcast number messages on the sending side.       *)
(*                                                                         *)
(* The datagram network in between loses, reorders and duplicates packets. *)
(* A sender may be restarted, which resets its counters; the receiver does *)
(* not notice.                                                             *)
(***************************************************************************)
EXTENDS Integers, Sequences, FiniteSets

CONSTANTS
    Channel,      \* pairs of a sender and a stream id, each with its counter
    W,            \* dedupWindowSize
    SeqLimit,     \* sequence numbers wrap to 0 here: 2^32
    MaxSend,      \* bound: messages sent per channel
    MaxRestarts   \* bound: restarts of the sender of a channel

ASSUME WindowPositive == W \in Nat \ {0}
ASSUME SeqLimitPositive == SeqLimit \in Nat \ {0}
ASSUME RouterBounds == MaxSend \in Nat /\ MaxRestarts \in Nat

VARIABLES
    counter,    \* per channel: the sender's seqCounters entry
    restarts,   \* per channel: restarts of the sender so far
    sends,      \* per channel: messages sent so far, over all restarts
    sent,       \* every packet ever sent
    wire,       \* packets of which a copy is still in the network
    expired,    \* packets whose TTL has run out
    inited,     \* per channel: the fields of peerDedup
    highest,
    window,
    handled,    \* the packets given to the algorithm's OnMessage, in order
    refused     \* history: the packets dropped as duplicates

senderVars  == <<counter, restarts, sends, sent>>
networkVars == <<wire, expired>>
dedupVars   == <<inited, highest, window>>
vars == <<senderVars, networkVars, dedupVars, handled, refused>>

\* A packet is told apart by its channel and its place among the numbers the
\* channel has used; the receiver only sees its sequence number.
Packet == [ch : Channel, nth : 1..MaxSend, seq : 0..SeqLimit - 1]

Init ==
    /\ counter  = [c \in Channel |-> 0]
    /\ restarts = [c \in Channel |-> 0]
    /\ sends    = [c \in Channel |-> 0]
    /\ sent = {}
    /\ wire = {}
    /\ expired = {}
    /\ inited  = [c \in Channel |-> FALSE]
    /\ highest = [c \in Channel |-> 0]
    /\ window  = [c \in Channel |-> {}]
    /\ handled = <<>>
    /\ refused = {}

\* nextSeq: an atomic increment of a uint32.  The mutant has no width.
NextSeqUnbounded(c) == counter[c] + 1
NextSeq(c) == (counter[c] + 1) % SeqLimit

\* Node.Send to the node modelled here, or to it in the course of Broadcast.
Send(c) ==
    LET p == [ch |-> c, nth |-> sends[c] + 1, seq |-> NextSeq(c)]
    IN
    /\ sends[c] < MaxSend
    /\ counter' = [counter EXCEPT ![c] = NextSeq(c)]
    /\ sends'   = [sends EXCEPT ![c] = @ + 1]
    /\ sent' = sent \union {p}
    /\ wire' = wire \union {p}
    /\ UNCHANGED <<restarts, expired, dedupVars, handled, refused>>

\* Node.Send to another node takes a number of the same counter, so the
\* numbers that one receiver sees have gaps.
SendElsewhere(c) ==
    /\ sends[c] < MaxSend
    /\ counter' = [counter EXCEPT ![c] = NextSeq(c)]
    /\ sends'   = [sends EXCEPT ![c] = @ + 1]
    /\ UNCHANGED <<restarts, sent, networkVars, dedupVars, handled, refused>>

\* The sending process is started again: NewNode has counters of 0.
Restart(c) ==
    /\ restarts[c] < MaxRestarts
    /\ restarts' = [restarts EXCEPT ![c] = @ + 1]
    /\ counter'  = [counter EXCEPT ![c] = 0]
    /\ UNCHANGED <<sends, sent, networkVars, dedupVars, handled, refused>>

\* The part of IsDuplicate that moves the window: a number above the highest
\* one evicts what falls out of range.
Advance(c, seq) ==
    IF inited[c] /\ seq > highest[c] /\ seq >= W
    THEN {k \in window[c] : k >= seq - W + 1}
    ELSE window[c]

\* Numbers that have left the window are dropped.  The mutant accepts the one
\* that has just left it.
TooOldOffByOne(c, seq) == seq <= highest[c] /\ highest[c] - seq > W
TooOld(c, seq) == seq <= highest[c] /\ highest[c] - seq >= W

\* The answer of IsDuplicate.  The first mutant does not look into the window;
\* the second takes every number up to the highest one as seen.
IsDuplicateTooOld(c, seq) == inited[c] /\ TooOld(c, seq)
IsDuplicateInOrder(c, seq) == inited[c] /\ seq <= highest[c]
IsDuplicate(c, seq) == inited[c] /\ (TooOld(c, seq) \/ seq \in Advance(c, seq))

\* Dispatch of an arriving copy of p; the network may hold further copies.
\* Refusing p changes nothing: the window holds no number above the highest
\* (WindowBounded), so a p that moves the window is never found in it.
Dispatch(p) ==
    /\ p \in wire
    /\ \/ /\ p \in expired
          /\ UNCHANGED <<dedupVars, handled, refused>>
       \/ /\ p \notin expired /\ IsDuplicate(p.ch, p.seq)
          /\ refused' = refused \union {p}
          /\ UNCHANGED <<dedupVars, handled>>
       \/ /\ p \notin expired /\ ~IsDuplicate(p.ch, p.seq)
          /\ inited'  = [inited EXCEPT ![p.ch] = TRUE]
          /\ highest' = [highest EXCEPT ![p.ch] =
                           IF ~inited[p.ch] \/ p.seq > @ THEN p.seq ELSE @]
          /\ window'  = [window EXCEPT ![p.ch] =
                           Advance(p.ch, p.seq) \union {p.seq}]
          /\ handled' = Append(handled, p)
          /\ UNCHANGED refused
    /\ UNCHANGED <<senderVars, networkVars>>

\* The last copy of p is delivered or lost.
Vanish(p) ==
    /\ p \in wire
    /\ wire' = wire \ {p}
    /\ UNCHANGED <<senderVars, expired, dedupVars, handled, refused>>

\* The TTL of p runs out (IsExpired compares it with the clock).
Expire(p) ==
    /\ p \in wire \ expired
    /\ expired' = expired \union {p}
    /\ UNCHANGED <<senderVars, wire, dedupVars, handled, refused>>

Next == \/ \E c \in Channel : Send(c) \/ SendElsewhere(c) \/ Restart(c)
        \/ \E p \in wire : Dispatch(p) \/ Vanish(p) \/ Expire(p)

Spec == Init /\ [][Next]_vars

-----------------------------------------------------------------------------
Handled == {handled[i] : i \in 1..Len(handled)}

\* The counters, the packets and the fields of peerDedup are values of a
\* uint32 and of sets of them; only packets that were sent are in flight.
TypeOK ==
    /\ counter  \in [Channel -> 0..SeqLimit - 1]
    /\ restarts \in [Channel -> 0..MaxRestarts]
    /\ sends    \in [Channel -> 0..MaxSend]
    /\ sent \subseteq Packet
    /\ wire \subseteq sent /\ expired \subseteq sent
    /\ inited  \in [Channel -> BOOLEAN]
    /\ highest \in [Channel -> 0..SeqLimit - 1]
    /\ window  \in [Channel -> SUBSET (0..SeqLimit - 1)]
    /\ handled \in Seq(Packet)
    /\ refused \subseteq Packet

\* peerDedup's memory stays bounded: the window of a channel only holds
\* numbers less than W below the highest one, however packets are reordered.
WindowBounded ==
    \A c \in Channel : \A k \in window[c] :
        k <= highest[c] /\ highest[c] - k < W

\* Router implements Delivery: the algorithm sees each packet at most once.
AtMostOnce == INSTANCE Delivery WITH
                 Packet <- Packet, sent <- sent, handled <- handled
DeliversAtMostOnce == AtMostOnce!Spec

\* p has been handed over, or one sent W or more numbers after it.
RefusalJustified(p) ==
    \/ p \in Handled
    \/ \E q \in Handled : q.ch = p.ch /\ q.nth - p.nth >= W

\* "handler is called for every valid (non-expired, non-duplicate) message":
\* a packet is refused as a duplicate only if it was handed over before, or
\* is too far behind one that was, however packets overtake each other and
\* leave gaps.  It is so of channels whose sender has not been restarted and
\* whose counter has not wrapped.
RefusedWithinRun ==
    \A p \in refused :
        restarts[p.ch] = 0 /\ sends[p.ch] < SeqLimit => RefusalJustified(p)
=============================================================================
