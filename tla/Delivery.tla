------------------------------ MODULE Delivery ------------------------------
(***************************************************************************)
(* What the node runtime promises to an algorithm about inbound messages:  *)
(* OnMessage is called only with messages that were sent, and at most once *)
(* with each.  Messages may be lost and may overtake one another.  Raft    *)
(* relies on it when it counts votes.  Router.tla implements this module.  *)
(***************************************************************************)
EXTENDS Naturals, Sequences

CONSTANT Packet

VARIABLES sent,      \* set of the packets sent so far
          handled    \* sequence of the packets given to OnMessage

Init == sent = {} /\ handled = <<>>

Send(p) == p \notin sent /\ sent' = sent \union {p} /\ UNCHANGED handled

Deliver(p) == /\ p \in sent
              /\ \A i \in 1..Len(handled) : handled[i] # p
              /\ handled' = Append(handled, p)
              /\ UNCHANGED sent

Next == \E p \in Packet : Send(p) \/ Deliver(p)

Spec == Init /\ [][Next]_<<sent, handled>>
=============================================================================
