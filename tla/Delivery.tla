------------------------------- MODULE Delivery --------------------------------
(***************************************************************************)
(* What a push connection promises to the application: the messages the    *)
(* server wrote arrive in the order they were written, each at most once.  *)
(* Some may be left out.                                                   *)
(***************************************************************************)
EXTENDS Naturals, Sequences

CONSTANT MaxSent        \* messages the server writes (bound)

VARIABLES sent,         \* messages written so far: 0, 1, ..., sent - 1
          delivered     \* the messages handed to the application, in order

vars == <<sent, delivered>>

Init == sent = 0 /\ delivered = <<>>

Send ==
    /\ sent < MaxSent
    /\ sent' = sent + 1
    /\ UNCHANGED delivered

Later(m) == \A i \in DOMAIN delivered : delivered[i] < m

Deliver(m) ==
    /\ Later(m)
    /\ delivered' = Append(delivered, m)
    /\ UNCHANGED sent

Next == Send \/ \E m \in 0 .. (sent - 1) : Deliver(m)

Spec == Init /\ [][Next]_vars
==============================================================================
