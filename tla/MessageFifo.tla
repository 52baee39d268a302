----------------------------- MODULE MessageFifo ------------------------------
(***************************************************************************)
(* What the bridge between the application and a page promises: the page   *)
(* takes the messages in the order they were queued, and none is lost or   *)
(* doubled, unless the page is replaced.                                   *)
(***************************************************************************)
EXTENDS Naturals, Sequences

CONSTANT Messages

VARIABLES chan,      \* messages on their way to the page, in order
          page       \* which page this is

fifoVars == <<chan, page>>

FifoInit == chan = <<>> /\ page = 1

Put(m) == chan' = Append(chan, m) /\ UNCHANGED page

TakeOne == chan # <<>> /\ chan' = Tail(chan) /\ UNCHANGED page

NewPage == chan' = <<>> /\ page' = page + 1

FifoNext == TakeOne \/ NewPage \/ \E m \in Messages : Put(m)

FifoSpec == FifoInit /\ [][FifoNext]_fifoVars
==============================================================================
