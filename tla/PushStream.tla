------------------------------ MODULE PushStream ------------------------------
(***************************************************************************)
(* What one push connection reads: the loop of connectServer() in          *)
(* websocket/HjHTTPNotificationManager.java.  The server writes JSON       *)
(* messages, each followed by the marker "$^E", and at the end "logout".   *)
(* The client gets the text in chunks cut anywhere, collects them in msg,  *)
(* takes the markers out, and hands msg on as soon as it is one JSON value.*)
(*                                                                         *)
(* The text is an array of positions.  Message m takes four: 4m and 4m + 1 *)
(* are the halves of its JSON, 4m + 2 and 4m + 3 those of its marker; the  *)
(* word "logout" takes one.  A chunk cut inside a word is thus a cut       *)
(* between two positions.  msg always holds the consecutive positions      *)
(* lo .. hi - 1, less the whole markers among them.                        *)
(***************************************************************************)
EXTENDS Naturals, Sequences

CONSTANT MaxSent        \* messages the server writes (bound)

ASSUME StreamAssumption == MaxSent \in Nat

VARIABLES sent,         \* messages the server has written
          bye,          \* it has written "logout"
          lo, hi,       \* msg holds lo .. hi - 1, and hi is read next
          place,        \* where the thread is in its loop
          stoped,       \* HjHTTPNotificationManager.stoped
          delivered,    \* messages given to onNotification(), in order
          dropped       \* messages discarded because stoped was set

vars == <<sent, bye, lo, hi, place, stoped, delivered, dropped>>

Written == 4 * sent + (IF bye THEN 1 ELSE 0)

TypeOK ==
    /\ sent \in 0 .. MaxSent
    /\ bye \in BOOLEAN
    /\ lo \in Nat /\ hi \in Nat
    /\ lo <= hi /\ hi <= Written
    /\ place \in {"reading", "chunk", "ended"}
    /\ stoped \in BOOLEAN
    /\ delivered \in Seq(Nat)
    /\ dropped \subseteq Nat

Init ==
    /\ sent = 0
    /\ bye = FALSE
    /\ lo = 0 /\ hi = 0
    /\ place = "reading"
    /\ stoped = FALSE
    /\ delivered = <<>>
    /\ dropped = {}

(* The marker that position p belongs to lies wholly in a .. b - 1. *)
InWholeMarker(p, a, b) ==
    /\ p % 4 >= 2
    /\ a <= p - (p % 4) + 2
    /\ p - (p % 4) + 3 < b

(* A slip: the markers are not taken out. *)
ContentWithMarkers(a, b) == a .. (b - 1)

(* msg.replace("$^E", "") *)
Content(a, b) == {p \in a .. (b - 1) : ~InWholeMarker(p, a, b)}

Json(m) == {4 * m, 4 * m + 1}

(* What validate() takes: an empty text, or one whole message. *)
Valid(text) == text = {} \/ \E m \in 0 .. (sent - 1) : text = Json(m)

-----------------------------------------------------------------------------
(* Plausible slips in the code below, each caught by a property. *)

CollectForgets ==
    /\ ~Valid(Content(lo, hi))
    /\ lo' = hi
    /\ UNCHANGED <<delivered, dropped>>

HandOnKeepsText ==
    /\ Valid(Content(lo, hi))
    /\ UNCHANGED lo
    /\ \E m \in 0 .. (sent - 1) :
          /\ Content(lo, hi) = Json(m)
          /\ delivered' = Append(delivered, m)
          /\ UNCHANGED dropped

ReadTooMuch ==
    /\ place = "reading"
    /\ ~stoped
    /\ hi' = Written + 1
    /\ place' = "chunk"
    /\ UNCHANGED <<sent, bye, lo, stoped, delivered, dropped>>

-----------------------------------------------------------------------------
(* The server *)

Send ==
    /\ ~bye
    /\ sent < MaxSent
    /\ sent' = sent + 1
    /\ UNCHANGED <<bye, lo, hi, place, stoped, delivered, dropped>>

SendLogout ==
    /\ ~bye
    /\ bye' = TRUE
    /\ UNCHANGED <<sent, lo, hi, place, stoped, delivered, dropped>>

(* stop(), or the connectServer() of another thread, which clears it. *)
OthersSetStoped ==
    /\ stoped' = ~stoped
    /\ UNCHANGED <<sent, bye, lo, hi, place, delivered, dropped>>

-----------------------------------------------------------------------------
(* The connection's thread *)

(* read(): a chunk, of which nothing is kept when stoped is set. *)
Read ==
    /\ place = "reading"
    /\ hi' \in (hi + 1) .. Written
    /\ place' = IF stoped THEN "ended" ELSE "chunk"
    /\ UNCHANGED <<sent, bye, lo, stoped, delivered, dropped>>

(* "logout" counts only if it is all of msg. *)
OnlyLogout == bye /\ hi = Written /\ lo = hi - 1

TakeLogout ==
    /\ place = "chunk" /\ OnlyLogout
    /\ place' = "ended"
    /\ stoped' = TRUE
    /\ UNCHANGED <<sent, bye, lo, hi, delivered, dropped>>

(* msg is not JSON yet: it is kept. *)
Collect ==
    /\ ~Valid(Content(lo, hi))
    /\ UNCHANGED <<lo, delivered, dropped>>

(* msg is JSON: onNotification() unless stoped, and msg = "".  The empty   *)
(* text is handed on as well, and ignored there.                           *)
HandOn ==
    /\ Valid(Content(lo, hi))
    /\ lo' = hi
    /\ \/ /\ Content(lo, hi) = {}
          /\ UNCHANGED <<delivered, dropped>>
       \/ \E m \in 0 .. (sent - 1) :
             /\ Content(lo, hi) = Json(m)
             /\ IF stoped
                THEN dropped' = dropped \cup {m} /\ UNCHANGED delivered
                ELSE delivered' = Append(delivered, m) /\ UNCHANGED dropped

Process ==
    /\ place = "chunk" /\ ~OnlyLogout
    /\ Collect \/ HandOn
    /\ place' = "reading"
    /\ UNCHANGED <<sent, bye, hi, stoped>>

(* The end of the stream after "logout", or an exception. *)
Break ==
    /\ place = "reading"
    /\ place' = "ended"
    /\ stoped' = TRUE
    /\ UNCHANGED <<sent, bye, lo, hi, delivered, dropped>>

ThreadStep == Read \/ TakeLogout \/ Process \/ Break

Next == Send \/ SendLogout \/ OthersSetStoped \/ ThreadStep

Spec == Init /\ [][Next]_vars

(* The thread is scheduled and chunks arrive. *)
FairSpec == Spec /\ WF_vars(Read) /\ WF_vars(Process)

-----------------------------------------------------------------------------
(***************************************************************************)
(* NothingVanishes: a message that was read whole was handed on, or        *)
(* dropped because the connection was stopped, or still is in msg.  The    *)
(* loop never throws away text of a message it has begun to collect.       *)
(***************************************************************************)
NothingVanishes ==
    place = "reading" =>
        \A m \in 0 .. (sent - 1) :
            4 * m + 2 <= hi =>
                \/ \E i \in DOMAIN delivered : delivered[i] = m
                \/ m \in dropped
                \/ lo <= 4 * m

(***************************************************************************)
(* InOrder: however the text is cut into chunks and whenever stoped is set *)
(* and cleared, messages reach the application in the order the server     *)
(* wrote them and none of them twice.                                      *)
(***************************************************************************)
Ordered == INSTANCE Delivery

InOrder == Ordered!Spec

(***************************************************************************)
(* DeliversAll: if the server always waits until the client has taken in   *)
(* what it wrote, and nobody ever stops or breaks the connection, every    *)
(* message arrives.                                                        *)
(***************************************************************************)
OneAtATime == \A m \in 0 .. (sent - 1) : m + 1 < sent => 4 * m + 4 <= lo

Calm == place # "ended" /\ ~stoped /\ ~bye /\ OneAtATime

DeliversAll ==
    []Calm => \A m \in 0 .. (MaxSent - 1) :
                  m < sent ~> \E i \in DOMAIN delivered : delivered[i] = m
==============================================================================
