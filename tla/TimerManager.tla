---------------------------- MODULE TimerManager -----------------------------
(***************************************************************************)
(* Named recurring timers (node/runtime/timer.go).  Each Set starts a      *)
(* goroutine of its own, which outlives its entry in the map: it ends when *)
(* it next looks at its stop channel, after any callback it is running.    *)
(* Goroutines are numbered slots, taken again when they have ended.  A     *)
(* ticker delivers nothing once it is stopped (Go since 1.23).             *)
(***************************************************************************)
EXTENDS Naturals

CONSTANTS
    Name,   \* the names of the timers
    Slot    \* bound: the goroutines there can be at a time, numbers

ASSUME SlotNat == Slot \subseteq Nat \ {0}

VARIABLES
    timers,   \* the map: name |-> the slot of its goroutine, or NoSlot
    ticker    \* slot |-> its name, what it does, and is its stopCh closed?

timerVars == <<timers, ticker>>

NoSlot == 0
Goroutine(name) == [name |-> name, pc |-> "select", stopped |-> FALSE]
NoName == ""
Unused == [name |-> NoName, pc |-> "off", stopped |-> TRUE]

TimerInit ==
    /\ timers = [n \in Name |-> NoSlot]
    /\ ticker = [s \in Slot |-> Unused]

\* Closing the stop channels of the timers of some names.
Closed(names) ==
    [s \in Slot |-> [ticker[s] EXCEPT
        !.stopped = @ \/ \E n \in names : timers[n] = s]]

FreeSlot == {s \in Slot : ticker[s].pc = "off"}
NewSlot == CHOOSE s \in FreeSlot : TRUE

\* Set: the previous timer of this name is stopped first.  The mutant only
\* overwrites its entry.
TimerSetOver(n) ==
    /\ FreeSlot # {}
    /\ timers' = [timers EXCEPT ![n] = NewSlot]
    /\ ticker' = [ticker EXCEPT ![NewSlot] = Goroutine(n)]
TimerSet(n) ==
    /\ FreeSlot # {}
    /\ timers' = [timers EXCEPT ![n] = NewSlot]
    /\ ticker' = [Closed({n}) EXCEPT ![NewSlot] = Goroutine(n)]

\* Cancel of one name, StopAll of all of them.  The mutant deletes the entries
\* without closing their channels.
TimerCancelQuietly(names) ==
    /\ timers' = [n \in Name |-> IF n \in names THEN NoSlot ELSE timers[n]]
    /\ UNCHANGED ticker
TimerCancel(names) ==
    /\ timers' = [n \in Name |-> IF n \in names THEN NoSlot ELSE timers[n]]
    /\ ticker' = Closed(names)

\* The goroutine: a tick calls the callback, a closed stopCh ends it.
Fire(s) ==
    /\ ticker[s].pc = "select" /\ ~ticker[s].stopped
    /\ ticker' = [ticker EXCEPT ![s].pc = "callback"]
    /\ UNCHANGED timers

CallbackReturns(s) ==
    /\ ticker[s].pc = "callback"
    /\ ticker' = [ticker EXCEPT ![s].pc = "select"]
    /\ UNCHANGED timers

TimerEnds(s) ==
    /\ ticker[s].pc = "select" /\ ticker[s].stopped
    /\ ticker' = [ticker EXCEPT ![s] = Unused]
    /\ UNCHANGED timers

\* A goroutine that will go on ticking until somebody stops it.
Live(s) == ticker[s].pc # "off" /\ ~ticker[s].stopped

TimerTypeOK ==
    /\ timers \in [Name -> Slot \union {NoSlot}]
    /\ ticker \in [Slot ->
                    [name : Name \union {NoName}, pc : {"off", "select", "callback"},
                     stopped : BOOLEAN]]
==============================================================================
