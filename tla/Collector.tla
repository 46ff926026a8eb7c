------------------------------ MODULE Collector ------------------------------
(***************************************************************************)
(* The metrics of a node (node/metrics/collector.go and snapshot.go): the  *)
(* counters and the ring of latencies that recvLoop updates message by     *)
(* message, and Reset, which another goroutine may call at any time.       *)
(*                                                                         *)
(* Counters are atomics that are updated one by one and the ring has a     *)
(* lock of its own, so recvLoop and Reset interleave between any two of    *)
(* them.  Two counters stand for all: arrived for msgRecv, which is        *)
(* updated and reset before the drop counters, and dropped for these.      *)
(***************************************************************************)
EXTENDS Integers, Sequences, FiniteSets

CONSTANTS
    RingSize,    \* latencyRingSize
    Latency,     \* the latencies that are measured, in ms
    MaxArrived   \* bound: no message arrives when the counter is there

ASSUME RingSizePositive == RingSize \in Nat \ {0}
ASSUME LatencyNat == Latency \subseteq Nat
ASSUME MaxArrivedNat == MaxArrived \in Nat

VARIABLES
    arrived,    \* msgRecv
    dropped,    \* dedupDropped + ttlExpiredDropped
    latBuf,     \* the ring, indexed from 0 as in Go
    latPos,     \* next write position
    latFull,    \* has the ring wrapped?
    recvLoop,   \* recvLoop: "idle", "count" or "dispatch", what it does next
    resetting   \* Reset: "idle", "drops" or "ring", what it does next

ring == <<latBuf, latPos, latFull>>
collectorVars == <<arrived, dropped, ring, recvLoop, resetting>>

CollectorInit ==
    /\ arrived = 0 /\ dropped = 0
    /\ latBuf = [i \in 0..RingSize - 1 |-> 0]
    /\ latPos = 0 /\ latFull = FALSE
    /\ recvLoop = "idle" /\ resetting = "idle"

\* A message comes out of the transport and RecordRecv counts it ...
RecordRecv ==
    /\ recvLoop = "idle" /\ arrived < MaxArrived
    /\ arrived' = arrived + 1
    /\ recvLoop' = "count"
    /\ UNCHANGED <<dropped, ring, resetting>>

\* ... and records its latency, unless it has no timestamp or one of a clock
\* that is ahead.  The mutants forget that the ring has wrapped, and wrap it
\* one position too late.
RecordLatencyLate(ms) ==
    /\ recvLoop = "count"
    /\ latBuf' = [latBuf EXCEPT ![latPos] = ms]
    /\ latPos' = IF latPos >= RingSize THEN 0 ELSE latPos + 1
    /\ latFull' = (latFull \/ latPos >= RingSize)
    /\ recvLoop' = "dispatch"
    /\ UNCHANGED <<arrived, dropped, resetting>>
RecordLatencyForgetful(ms) ==
    /\ recvLoop = "count"
    /\ latBuf' = [latBuf EXCEPT ![latPos] = ms]
    /\ latPos' = IF latPos + 1 >= RingSize THEN 0 ELSE latPos + 1
    /\ latFull' = (latPos + 1 >= RingSize)
    /\ recvLoop' = "dispatch"
    /\ UNCHANGED <<arrived, dropped, resetting>>
RecordLatency(ms) ==
    /\ recvLoop = "count"
    /\ latBuf' = [latBuf EXCEPT ![latPos] = ms]
    /\ latPos' = IF latPos + 1 >= RingSize THEN 0 ELSE latPos + 1
    /\ latFull' = (latFull \/ latPos + 1 >= RingSize)
    /\ recvLoop' = "dispatch"
    /\ UNCHANGED <<arrived, dropped, resetting>>

NoLatency ==
    /\ recvLoop = "count"
    /\ recvLoop' = "dispatch"
    /\ UNCHANGED <<arrived, dropped, ring, resetting>>

\* Router.Dispatch hands the message on or counts it as dropped.
Dispatch(drop) ==
    /\ recvLoop = "dispatch"
    /\ dropped' = dropped + (IF drop THEN 1 ELSE 0)
    /\ recvLoop' = "idle"
    /\ UNCHANGED <<arrived, ring, resetting>>

\* Reset, one store after the other.  The mutant zeroes the drop counters
\* first.
ResetArrivedLast ==
    /\ \/ /\ resetting = "idle"
          /\ resetting' = "drops"
          /\ dropped' = 0 /\ UNCHANGED arrived
       \/ /\ resetting = "drops"
          /\ resetting' = "ring"
          /\ arrived' = 0 /\ UNCHANGED dropped
    /\ UNCHANGED <<ring, recvLoop>>
ResetCounters ==
    /\ \/ /\ resetting = "idle"
          /\ resetting' = "drops"
          /\ arrived' = 0 /\ UNCHANGED dropped
       \/ /\ resetting = "drops"
          /\ resetting' = "ring"
          /\ dropped' = 0 /\ UNCHANGED arrived
    /\ UNCHANGED <<ring, recvLoop>>

ResetRing ==
    /\ resetting = "ring"
    /\ latPos' = 0 /\ latFull' = FALSE
    /\ resetting' = "idle"
    /\ UNCHANGED <<arrived, dropped, latBuf, recvLoop>>

CollectorNext ==
    \/ RecordRecv \/ NoLatency \/ ResetCounters \/ ResetRing
    \/ \E ms \in Latency : RecordLatency(ms)
    \/ \E drop \in BOOLEAN : Dispatch(drop)

CollectorSpec == CollectorInit /\ [][CollectorNext]_collectorVars

\* latencies(): a ring that has wrapped is read from latPos to its end and
\* then from its start, one that has not from its start to latPos.
Latencies ==
    [i \in 1..(IF latFull THEN RingSize ELSE latPos) |->
        IF ~latFull THEN latBuf[i - 1]
        ELSE IF latPos + i - 1 < RingSize THEN latBuf[latPos + i - 1]
        ELSE latBuf[latPos + i - 1 - RingSize]]

-----------------------------------------------------------------------------
\* The counters count, and the ring is written within its bounds.
CollectorTypeOK ==
    /\ arrived \in 0..MaxArrived /\ dropped \in Nat
    /\ latBuf \in [0..RingSize - 1 -> Latency \union {0}]
    /\ latPos \in 0..RingSize - 1 /\ latFull \in BOOLEAN
    /\ recvLoop \in {"idle", "count", "dispatch"}
    /\ resetting \in {"idle", "drops", "ring"}

\* Between resets no more messages are dropped than have arrived, but for the
\* one that recvLoop had in hand: whatever a Reset met half way, the counters
\* it leaves are off by one at most.
SkewBounded ==
    resetting # "drops" => dropped <= arrived + (IF recvLoop = "idle" THEN 1 ELSE 0)

\* The ring with its position and its flag is a window of the latest samples,
\* through wrapping and through resets that leave old samples in the buffer.
RingIsWindow == INSTANCE SlidingWindow WITH
                   Sample <- Latency, Size <- RingSize, window <- Latencies

RingShowsLatest == RingIsWindow!Spec
==============================================================================
