-------------------------------- MODULE MCPage ---------------------------------
(***************************************************************************)
(* The page of a business form (framework7.js, dsaordhtml.html), as it is  *)
(* model-checked: what is laid over the pages, taps, lists, forms, search  *)
(* bars, calendars, orders and pulls.  The parts share no state: a         *)
(* behaviour of this module is one of any of them, named by part, while    *)
(* the others stay as they are.                                            *)
(***************************************************************************)
EXTENDS Dialogs, Taps, VirtualList, FormPage, SearchList,
        Calendar, Swipeout, OrderList, PullRefresh

VARIABLE part

pageVars == <<dialogVars, tapVars, listVars, formVars, searchVars,
              calendarVars, swipeoutVars, orderVars, pullVars, part>>

Parts == {"dialogs", "taps", "list", "form", "search",
          "calendar", "swipeout", "orders", "pull"}

(* A document that fills no text or box and chooses one option. *)
PlainForm == [text |-> Empty, boxes |-> {}, chosen |-> {CHOOSE o \in Options : TRUE}]

(* A part that is not looked at stands still in one state.  With a select
   that is set up from its text the document is PlainForm (bound). *)
PageInit ==
    /\ part \in Parts
    /\ DialogInit /\ TapInit /\ SwipeoutInit /\ PullInit
    /\ ListInit /\ (part # "list" => list.items = <<>>)
    /\ FormInit
    /\ kind.valued \/ part # "form" => html.data = PlainForm
    /\ part # "form" => /\ kind = [multiple |-> FALSE, store |-> FALSE, valued |-> FALSE]
                        /\ html.options = Options
    /\ SearchInit
    /\ part # "search" => ~IsVirtual /\ ul = "none" /\ finds = [q \in Queries |-> {}]
    /\ CalendarInit
    /\ part # "calendar" => cal.kind = "picker" /\ ~cal.multiple /\ cal.given = <<>>
    /\ OrderInit /\ (part # "orders" => orders = {} /\ asked = <<>>)

(* A list of orders that is mixed is not followed any further (bound): mixed
   stays, and nothing is claimed of such a list. *)
PageNext ==
    /\ UNCHANGED part
    /\ IF part = "dialogs" THEN DialogNext ELSE UNCHANGED dialogVars
    /\ IF part = "taps" THEN TapNext ELSE UNCHANGED tapVars
    /\ IF part = "list" THEN ListNext ELSE UNCHANGED listVars
    /\ IF part = "form" THEN FormNext ELSE UNCHANGED formVars
    /\ IF part = "search" THEN SearchNext ELSE UNCHANGED searchVars
    /\ IF part = "calendar" THEN CalendarNext ELSE UNCHANGED calendarVars
    /\ IF part = "swipeout" THEN SwipeoutNext ELSE UNCHANGED swipeoutVars
    /\ IF part = "orders" /\ ~mixed THEN OrderNext ELSE UNCHANGED orderVars
    /\ IF part = "pull" THEN PullNext ELSE UNCHANGED pullVars

PageSpec == PageInit /\ [][PageNext]_pageVars

(* The state of every part is well formed. *)
PageTypeOK ==
    /\ DialogTypeOK /\ TapTypeOK
    /\ ListTypeOK /\ FormTypeOK /\ SearchTypeOK
    /\ CalendarTypeOK /\ SwipeoutTypeOK /\ OrderTypeOK /\ PullTypeOK
================================================================================
