------------------------------- MODULE OrderList -------------------------------
(***************************************************************************)
(* The list of sales orders (dsaordhtml.html) that grows as it is scrolled *)
(* (framework7.js).  A load asks for the orders of the tab's type from the *)
(* date of the last row on.  The phone (HjBusiness) deletes these from its *)
(* table, has them sent by the server, and answers from the table: to the  *)
(* latest call, once, and with what that asked for, whichever download it  *)
(* is that ended.  Other calls of HjBusiness are left out.  A row has the  *)
(* height 1.                                                               *)
(***************************************************************************)
EXTENDS Integers, SequencesExt

CONSTANTS Types, FirstType,   \* of orders: the tabs, the one chosen at first
          MaxDate,            \* the dates are 1 .. MaxDate
          MaxOrders,          \* bound on the orders of the server
          AnswerSize,         \* how many orders the server sends at once
          RowsInView,         \* the height of the page
          Distance,           \* data-distance
          MaxLoads            \* bound on the loads

ASSUME OrderAssumption ==
    /\ FirstType \in Types /\ MaxDate \in Nat /\ MaxOrders \in Nat /\ MaxLoads \in Nat \ {0}
    /\ AnswerSize \in Nat \ {0} /\ RowsInView \in Nat \ {0} /\ Distance \in Nat

VARIABLES orders,    \* of the server
          sheet,     \* the page: saordtype, lastdata, loading, the rows of home
          activePage,
          phone,     \* keys and values, whether callbackContext waits; the table
          asked,     \* the downloads under way
          results,   \* the answers on their way to the page
          mixed,     \* see OrdersWithoutGap
          loads      \* loads so far, for the bound

orderVars == <<orders, sheet, activePage, phone, asked, results, mixed, loads>>

(* The orders of a day are numbered. *)
AllOrders == [type : Types, date : 1 .. MaxDate, no : {1, 2}]
Since1900 == 0

(* line_no, and name_column too, follow the date. *)
LineNo == [o \in AllOrders |-> o.date * 2 + o.no]
ByLine(S) ==
    CHOOSE s \in [1 .. Cardinality(S) -> S] :
        ToSet(s) = S /\ \A i, j \in DOMAIN s : i < j => LineNo[s[i]] < LineNo[s[j]]

-----------------------------------------------------------------------------
(* A plausible slip: orders of the last date are not asked for again. *)
SelectAfter(S, q) == {o \in S : o.type = q.type /\ o.date > q.from}

-----------------------------------------------------------------------------
(* saordwhere *)
SelectFrom(S, q) == {o \in S : o.type = q.type /\ o.date >= q.from}

(* The server sends the first orders only. *)
AnswerTo(q) ==
    LET all == ByLine(SelectFrom(orders, q)) IN
    ToSet(SubSeq(all, 1, IF Len(all) < AnswerSize THEN Len(all) ELSE AnswerSize))

(* getBusinessData and the callback; when there is no row, an error goes back
   that changes nothing. *)
Tell(p, table) ==
    LET found == ByLine(SelectFrom(table, p.where)) IN
    /\ phone' = [p EXCEPT !.table = table, !.waits = FALSE]
    /\ results' = IF p.waits /\ found # <<>> THEN Append(results, found) ELSE results

(* loaddata and hjloaddata.  Without a network the table is asked at once. *)
LoadData(s) ==
    LET q == [type |-> s.type, from |-> s.lastdata]
        p == [phone EXCEPT !.where = q, !.waits = TRUE]
    IN  /\ loads < MaxLoads /\ loads' = loads + 1
        /\ \/ /\ phone' = [p EXCEPT !.table = @ \ SelectFrom(@, q)]
              /\ asked' = Append(asked, q)
              /\ UNCHANGED results
           \/ Tell(p, p.table) /\ UNCHANGED asked

(* handleInfiniteScroll, where no virtual list is: near the end it tells. *)
NearEnd(top) ==
    top + RowsInView >= Len(sheet.ul) - (IF Distance > RowsInView THEN RowsInView ELSE Distance)

(* on infinite: one timer at a time *)
Infinite ==
    /\ activePage = "home" /\ ~sheet.loading
    /\ \E top \in 0 .. Len(sheet.ul) : NearEnd(top)
    /\ sheet' = [sheet EXCEPT !.loading = TRUE]
    /\ UNCHANGED <<orders, activePage, phone, asked, results, mixed, loads>>

TimerFires ==
    /\ sheet.loading
    /\ sheet' = [sheet EXCEPT !.loading = FALSE]
    /\ LoadData(sheet)
    /\ UNCHANGED <<orders, activePage, mixed>>

(* The table has later orders of a type and lacks earlier ones: a tab that
   is filled from the table alone shows the later ones only. *)
Holes(table, t) ==
    \E o \in orders \ table, p \in table : o.type = t /\ p.type = t /\ o.date < p.date

(* The tabs ac-1, ac-2 and ac-3 *)
Tab(t) ==
    /\ activePage = "home"
    /\ sheet' = [sheet EXCEPT !.type = t, !.lastdata = Since1900, !.ul = <<>>]
    /\ LoadData(sheet')
    /\ mixed' = (mixed \/ asked # <<>> \/ results # <<>> \/ Holes(phone'.table, t))
    /\ UNCHANGED <<orders, activePage>>

(* procCompressJson: what was asked for is deleted from the table once more,
   unless nothing came, and what came is put there. *)
Downloaded(i) ==
    LET q == asked[i]
        came == AnswerTo(q)
        gone == IF came = {} THEN {} ELSE SelectFrom(phone.table, q)
    IN  /\ asked' = RemoveAt(asked, i)
        /\ Tell(phone, (phone.table \ gone) \cup came)
        /\ UNCHANGED <<orders, sheet, activePage, mixed, loads>>

(* onException *)
Failed(i) ==
    /\ asked' = RemoveAt(asked, i)
    /\ Tell(phone, phone.table)
    /\ UNCHANGED <<orders, sheet, activePage, mixed, loads>>

(* The network is gone when the queue comes to it. *)
Dropped(i) ==
    /\ asked' = RemoveAt(asked, i)
    /\ UNCHANGED <<orders, sheet, activePage, phone, results, mixed, loads>>

(* The rows go to the list of the page that is active by now. *)
RowsArrive ==
    /\ results # <<>>
    /\ results' = Tail(results)
    /\ sheet' = [sheet EXCEPT !.ul = IF activePage = "home" THEN @ \o results[1] ELSE @,
                              !.lastdata = Last(results[1]).date]
    /\ mixed' = (mixed \/ activePage # "home")
    /\ UNCHANGED <<orders, activePage, phone, asked, loads>>

(* An order is shown on a page of its own. *)
ChangePage ==
    /\ activePage' = IF activePage = "home" THEN "querysaord" ELSE "home"
    /\ UNCHANGED <<orders, sheet, phone, asked, results, mixed, loads>>

(* loaddata has been called once.  The table may hold what was sent before. *)
OrderInit ==
    /\ orders \in {S \in SUBSET AllOrders :
                     /\ IsFiniteSet(S) /\ Cardinality(S) <= MaxOrders
                     /\ \A o \in S : [o EXCEPT !.no = 1] \in S}
    /\ \E table \in {{}, orders}, online \in BOOLEAN :
          LET q == [type |-> FirstType, from |-> Since1900]
              found == SelectFrom(table, q)
          IN  /\ phone = [where |-> q, waits |-> online,
                          table |-> IF online THEN table \ found ELSE table]
              /\ asked = IF online THEN <<q>> ELSE <<>>
              /\ results = IF online \/ found = {} THEN <<>> ELSE <<ByLine(found)>>
    /\ sheet = [type |-> FirstType, lastdata |-> Since1900, loading |-> FALSE, ul |-> <<>>]
    /\ activePage = "home"
    /\ mixed = FALSE
    /\ loads = 1

OrderNext ==
    \/ Infinite \/ TimerFires \/ RowsArrive \/ ChangePage
    \/ \E t \in Types : Tab(t)
    \/ \E i \in DOMAIN asked : Downloaded(i) \/ Failed(i) \/ Dropped(i)

OrderSpec == OrderInit /\ [][OrderNext]_orderVars

-----------------------------------------------------------------------------
OrderTypeOK ==
    /\ orders \subseteq AllOrders /\ phone.table \subseteq orders
    /\ phone.where \in [type : Types, from : 0 .. MaxDate] /\ phone.waits \in BOOLEAN
    /\ sheet.type \in Types /\ sheet.lastdata \in 0 .. MaxDate
    /\ sheet.ul \in Seq(orders)
    /\ activePage \in {"home", "querysaord"}
    /\ loads \in 0 .. MaxLoads

(***************************************************************************)
(* OrdersWithoutGap: whichever loads overlap, fail, are answered in the    *)
(* place of others or from the table alone, the list holds every order of  *)
(* the tab's type that is older than the date from which it goes on, and   *)
(* none of another type.  The exceptions are named by mixed: a tab was     *)
(* chosen while a load was under way; or when the table had later orders   *)
(* of its type and lacked earlier ones, because of two loads that          *)
(* overlapped the first had failed; or rows came to another page.          *)
(***************************************************************************)
OrdersWithoutGap ==
    ~mixed =>
        /\ \A o \in orders :
               o.type = sheet.type /\ o.date < sheet.lastdata => o \in ToSet(sheet.ul)
        /\ \A o \in ToSet(sheet.ul) : o.type = sheet.type
================================================================================
