------------------------------- MODULE Swipeout -------------------------------
(***************************************************************************)
(* Rows that are swiped aside to uncover buttons, and deleted              *)
(* (framework7.js).  The handlers are the document's: one touch at a time, *)
(* whose variables outlive it.  swipeoutNoFollow is off, the list is a     *)
(* plain one.  A finger moves the content to the left, to the right or     *)
(* back to its place; how far is left out.                                 *)
(***************************************************************************)
EXTENDS Naturals, FiniteSets

CONSTANTS Items,       \* the swipeRows; all have buttons on the right,
          LeftItems,   \* these on the left too
          Nobody,
          MaxSwipes    \* bound on the touches and calls

ASSUME SwipeoutAssumption ==
    /\ LeftItems \subseteq Items /\ {Nobody, "dialog"} \cap Items = {}
    /\ MaxSwipes \in Nat

VARIABLES swipeRows, \* the swipeRows in the list, by their classes and buttons
          swipeout,  \* swipeoutOpenedEl, allowSwipeout, the callbacks that wait
          touch,     \* the variables of initSwipeout
          hurried,   \* see OpenRowHasButtons
          swipes     \* touches and calls so far, for the bound

swipeoutVars == <<swipeRows, swipeout, touch, hurried, swipes>>

Sides == {"left", "right"}
SidesOf(r) == IF r \in LeftItems THEN Sides ELSE {"right"}

(* A row: its classes swipeout-opened and deleting, the side whose actions
   are opened, the side on which its buttons stand beside the content, and
   whether the content slides. *)
AtRest == [opened |-> FALSE, deleting |-> FALSE, side |-> "none",
           buttons |-> "none", slides |-> FALSE]

Swiping == swipes < MaxSwipes /\ swipes' = swipes + 1

-----------------------------------------------------------------------------
(* Plausible slips in the code below, each caught by a property. *)

(* A touch beside the opened row leaves it open. *)
CloseNone(target) == FALSE

(* A row may be swiped while it closes. *)
StayAllowed(sw) == sw

-----------------------------------------------------------------------------
(* swipeoutClose takes the right to swipe until the row has closed, for
   which it waits twice: for the end of the slide and for a timer. *)
Forbid(sw) == [sw EXCEPT !.allow = FALSE]

SwipeoutClose(r) ==
    IF r \notin DOMAIN swipeRows \/ ~swipeRows[r].opened
    THEN UNCHANGED <<swipeRows, swipeout>>
    ELSE /\ swipeRows' = [swipeRows EXCEPT ![r].opened = FALSE, ![r].side = "none",
                                           ![r].slides = TRUE]
         /\ swipeout' = [Forbid(swipeout) EXCEPT
                            !.openedEl = IF @ = r THEN Nobody ELSE @,
                            !.waits = @ \cup {<<r, "onSwipeoutClose">>},
                            !.timers = @ \cup {r}]

(* onSwipeoutClose *)
Closed(sw, r) == [sw EXCEPT !.allow = TRUE, !.timers = @ \ {r}]

(* The document's listener: a touch beside the opened row closes it, one on
   it or on a dialog does not. *)
ClosesOpened(target) ==
    swipeout.openedEl # Nobody /\ target \notin {swipeout.openedEl, "dialog"}

(* handleTouchStart, on a row or elsewhere *)
SwipeTouchStart(target) ==
    /\ Swiping /\ touch.on = Nobody
    /\ IF ClosesOpened(target) THEN SwipeoutClose(swipeout.openedEl)
       ELSE UNCHANGED <<swipeRows, swipeout>>
    /\ touch' = IF target \in DOMAIN swipeRows /\ swipeout'.allow
                THEN [touch EXCEPT !.isTouched = TRUE, !.isMoved = FALSE, !.on = target]
                ELSE [touch EXCEPT !.on = target]
    /\ UNCHANGED hurried

(* handleTouchMove along the page: the page scrolls. *)
SwipeScrolls ==
    /\ touch.isTouched /\ ~touch.isMoved
    /\ touch' = [touch EXCEPT !.isTouched = FALSE]
    /\ UNCHANGED <<swipeRows, swipeout, hurried, swipes>>

(* handleTouchMove across.  At the first move the row is taken up: its
   opened classes go, and no slide of it comes to its end any more. *)
SwipeTouchMove(translate) ==
    LET r == touch.on
        first == ~touch.isMoved
        opened == IF first THEN swipeRows[r].opened ELSE touch.opened
        wrong == translate # "zero" /\ translate \notin SidesOf(r)
        to == IF wrong THEN "zero" ELSE translate
    IN  /\ touch.isTouched /\ r \in DOMAIN swipeRows
        /\ hurried' = (hurried \/ (first /\ swipeRows[r].slides
                              /\ <<r, "onSwipeoutClose">> \notin swipeout.waits))
        /\ touch' = IF wrong /\ ~opened
                    THEN [touch EXCEPT !.isTouched = FALSE, !.isMoved = FALSE,
                                       !.el = r, !.opened = opened]
                    ELSE [touch EXCEPT !.isMoved = TRUE, !.el = r, !.opened = opened,
                                       !.translate = to,
                                       !.direction = IF to = "zero" THEN @ ELSE to]
        /\ swipeRows' = [swipeRows EXCEPT ![r] =
                      IF first THEN [@ EXCEPT !.opened = FALSE, !.side = "none",
                                              !.slides = FALSE, !.buttons = "none"]
                      ELSE @]
        /\ UNCHANGED <<swipeout, swipes>>

(* swipeoutDelete.  The row is forgotten as the opened one, whichever it is. *)
Deleting(sw) == [sw EXCEPT !.openedEl = Nobody]

(* handleTouchEnd.  Swiped on over the last button, that is pressed. *)
SwipeOpens(over) ==
    LET r == touch.el
        opened == [swipeout EXCEPT !.openedEl = r, !.waits = @ \cup {<<r, "open">>}]
    IN  /\ touch.isMoved /\ touch.translate # "zero"
        /\ swipeRows' = [swipeRows EXCEPT ![r] =
                                    [@ EXCEPT !.opened = TRUE, !.slides = TRUE,
                                              !.side = touch.direction,
                                              !.buttons = touch.direction,
                                              !.deleting = over]]
        /\ swipeout' = IF over THEN Deleting(opened) ELSE opened

SwipeCloses ==
    LET r == touch.el IN
    /\ touch.isMoved
    /\ swipeRows' = [swipeRows EXCEPT ![r].slides = touch.translate # "zero"]
    /\ swipeout' = [swipeout EXCEPT !.openedEl = Nobody,
                                   !.waits = @ \cup {<<r, "close">>}]

SwipeTouchEnd ==
    /\ touch.on # Nobody
    /\ IF touch.isTouched /\ touch.isMoved /\ touch.el \in DOMAIN swipeRows
       THEN (\E over \in BOOLEAN : SwipeOpens(over)) \/ SwipeCloses
       ELSE UNCHANGED <<swipeRows, swipeout>>
    /\ touch' = [touch EXCEPT !.isTouched = FALSE, !.isMoved = FALSE, !.on = Nobody]
    /\ UNCHANGED <<hurried, swipes>>

-----------------------------------------------------------------------------
(* The end of a slide.  What waits for the end of a swipe asks the variable
   opened as the last touch has left it. *)
RowSlideEnds(r) ==
    LET due == {w \in swipeout.waits : w[1] = r}
        clears == \/ <<r, "onSwipeoutClose">> \in due
                  \/ <<r, "close">> \in due /\ touch.opened
        closed == <<r, "onSwipeoutClose">> \in due
        rest == [swipeout EXCEPT !.waits = @ \ due]
    IN  /\ swipeRows[r].slides
        /\ swipeRows' = [swipeRows EXCEPT
                            ![r].slides = FALSE, ![r].buttons = IF clears THEN "none" ELSE @]
        /\ swipeout' = IF closed THEN Closed(rest, r) ELSE rest
        /\ UNCHANGED <<touch, hurried, swipes>>

(* closeTO, which is longer than a slide; the listener stays. *)
CloseTimeout(r) ==
    /\ r \in swipeout.timers /\ (r \in DOMAIN swipeRows => ~swipeRows[r].slides)
    /\ swipeout' = Closed(swipeout, r)
    /\ swipeRows' = IF r \in DOMAIN swipeRows THEN [swipeRows EXCEPT ![r].buttons = "none"]
                    ELSE swipeRows
    /\ UNCHANGED <<touch, hurried, swipes>>

(* swipeoutOpen by a script, which asks neither for the right to swipe nor
   for another row that is open. *)
SwipeoutOpen(r, dir) ==
    /\ Swiping /\ ~swipeRows[r].opened /\ dir \in SidesOf(r)
    /\ swipeRows' = [swipeRows EXCEPT ![r] = [@ EXCEPT !.opened = TRUE, !.side = dir,
                                                      !.buttons = dir, !.slides = TRUE]]
    /\ swipeout' = [swipeout EXCEPT !.openedEl = r, !.waits = @ \cup {<<r, "open">>}]
    /\ hurried' = (hurried \/ ~swipeout.allow \/ swipeout.openedEl \notin {r, Nobody}
                           \/ touch.isTouched \/ \E w \in swipeout.waits : w[1] = r)
    /\ UNCHANGED touch

(* A button of the opened row that closes it, or deletes it at once or after
   the user has confirmed it *)
PressClose ==
    /\ Swiping /\ swipeout.openedEl # Nobody /\ touch.on = Nobody
    /\ SwipeoutClose(swipeout.openedEl)
    /\ UNCHANGED <<touch, hurried>>

PressDelete(r) ==
    /\ Swiping /\ swipeRows[r].opened /\ ~swipeRows[r].deleting /\ touch.on = Nobody
    /\ swipeRows' = [swipeRows EXCEPT ![r].deleting = TRUE, ![r].slides = TRUE]
    /\ swipeout' = Deleting(swipeout)
    /\ UNCHANGED <<touch, hurried>>

Deleted(r) ==
    /\ swipeRows[r].deleting
    /\ swipeRows' = [q \in DOMAIN swipeRows \ {r} |-> swipeRows[q]]
    /\ UNCHANGED <<swipeout, touch, hurried, swipes>>

SwipeoutInit ==
    /\ swipeRows = [r \in Items |-> AtRest]
    /\ swipeout = [openedEl |-> Nobody, allow |-> TRUE, waits |-> {}, timers |-> {}]
    /\ touch = [isTouched |-> FALSE, isMoved |-> FALSE, on |-> Nobody, el |-> Nobody,
                opened |-> FALSE, translate |-> "zero", direction |-> "right"]
    /\ hurried = FALSE
    /\ swipes = 0

SwipeoutNext ==
    \/ \E target \in DOMAIN swipeRows \cup {"elsewhere", "dialog"} : SwipeTouchStart(target)
    \/ SwipeScrolls
    \/ \E translate \in Sides \cup {"zero"} : SwipeTouchMove(translate)
    \/ SwipeTouchEnd
    \/ \E r \in DOMAIN swipeRows :
           \/ RowSlideEnds(r) \/ PressDelete(r) \/ Deleted(r)
           \/ \E dir \in Sides : SwipeoutOpen(r, dir)
    \/ \E r \in Items : CloseTimeout(r)
    \/ PressClose

SwipeoutSpec == SwipeoutInit /\ [][SwipeoutNext]_swipeoutVars

-----------------------------------------------------------------------------
(* The state of the swiped list is well formed. *)
SwipeoutTypeOK ==
    /\ DOMAIN swipeRows \subseteq Items
    /\ \A r \in DOMAIN swipeRows :
         /\ {swipeRows[r].side, swipeRows[r].buttons} \subseteq Sides \cup {"none"}
         /\ swipeRows[r].opened <=> swipeRows[r].side # "none"
    /\ swipeout.openedEl \in Items \cup {Nobody} /\ swipeout.timers \subseteq Items
    /\ touch.translate \in Sides \cup {"zero"} /\ touch.direction \in Sides
    /\ swipes \in 0 .. MaxSwipes

(* One row is open at a time, the one the list remembers as opened and will
   close at the next touch beside it.  A script that opens a second row, or
   a row under a finger or on its way, is excepted. *)
OneRowOpen ==
    ~hurried =>
        \A r \in DOMAIN swipeRows :
            swipeRows[r].opened /\ ~swipeRows[r].deleting => swipeout.openedEl = r

(* An open row has its buttons beside it, and while rows may not be
   swiped a timer is under way that allows it again.  A row that is taken up
   while it slides after a swipe is excepted: the end of an earlier slide may
   then clear the buttons of a later one. *)
OpenRowHasButtons ==
    /\ ~swipeout.allow => swipeout.timers # {}
    /\ ~hurried =>
           \A r \in DOMAIN swipeRows :
               swipeRows[r].opened /\ ~swipeRows[r].deleting =>
                   swipeRows[r].buttons = swipeRows[r].side

(***************************************************************************)
(* OpenRowIsKnown: whatever is swiped, closed, deleted or tapped while     *)
(* rows still slide, one row at most is open, the list knows which         *)
(* (OneRowOpen), it has its buttons, and a list that may not be swiped     *)
(* will allow it again (OpenRowHasButtons).  The exceptions are stated     *)
(* with the two parts, and noted in hurried.                               *)
(***************************************************************************)
OpenRowIsKnown == OneRowOpen /\ OpenRowHasButtons
================================================================================
