------------------------------ MODULE VirtualList -----------------------------
(***************************************************************************)
(* The virtual list (framework7.js): of a long list only the rows around   *)
(* the scroll position are in the document.  Rows once made are kept in    *)
(* domCache under the index of their item, and every change of the items   *)
(* has to move them there.  Rows have one height and one column; an item   *)
(* is what its row shows.  Indexes count from 0, as in the code.           *)
(***************************************************************************)
EXTENDS Integers, FiniteSets, SequencesExt, Selection

CONSTANTS RowHeight, PageHeight,   \* in pixels
          MaxItems,                \* bound on the items of the list
          MaxOps                   \* bound on the changes of the list

ASSUME ListAssumption ==
    /\ RowHeight \in Nat \ {0} /\ PageHeight \in Nat \ {0}
    /\ MaxItems \in Nat /\ MaxOps \in Nat

VARIABLES list,      \* vl: items, filtered, domCache
          view,      \* the page: scrollTop, lastRepaintY, the rows in the ul
          fresh,     \* the next new item
          changes,   \* changes so far, for the bound
          misled     \* the rows may be wrong: see MoveItem, ReplaceItem, ScrollToItem

listVars == <<list, view, fresh, changes, misled>>

NoY == -1

(* setListSize *)
RowsPerScreen == (PageHeight + RowHeight - 1) \div RowHeight
RowsBefore == 2 * RowsPerScreen
RowsAfter == RowsPerScreen
RowsToRender == RowsPerScreen + RowsBefore + RowsAfter
MaxBufferHeight == RowsPerScreen * RowHeight

ItemsShown(l) == IF l.filtered.on THEN l.filtered.list ELSE l.items

(* Where the browser puts a page that got shorter. *)
Clamp(l, y) ==
    LET most == Len(ItemsShown(l)) * RowHeight - PageHeight IN
    IF most <= 0 THEN 0 ELSE IF y > most THEN most ELSE y

(* vl.items.indexOf; no two items are the same *)
IndexOf(items, it) ==
    IF it \in ToSet(items) THEN (CHOOSE k \in DOMAIN items : items[k] = it) - 1 ELSE -1

-----------------------------------------------------------------------------
(* Plausible slips in the code below, each caught by a property. *)

(* The cache keeps its indexes when items come in before them. *)
StayPut(cache, from, by) == cache

(* No rows beyond the screen when the list is drawn. *)
NoBuffer(y) == y \div RowHeight .. y \div RowHeight + RowsPerScreen - 1

-----------------------------------------------------------------------------
(* The rows that render draws for a scroll position. *)
Window(y) ==
    LET first == IF y \div RowHeight > RowsBefore THEN y \div RowHeight - RowsBefore ELSE 0
    IN  first .. (first + RowsToRender - 1)

(* render: the rows come from the cache or are made and put there.  Items
   that were replaced under a filter all have the index -1, and their one row
   moves to the last of them. *)
PaintAt(l, y, top) ==
    LET shown == ItemsShown(l)
        at == Window(y) \cap 0 .. (Len(shown) - 1)
        index(k) == IndexOf(l.items, shown[k + 1])
        gone == {k \in at : index(k) = -1}
        made == {index(k) : k \in at} \ DOMAIN l.cache
        cache == [i \in DOMAIN l.cache \cup made |->
                    IF i \notin made THEN l.cache[i]
                    ELSE IF i = -1 THEN shown[Min(gone) + 1] ELSE l.items[i + 1]]
        kept == at \ {k \in gone : k # Max(gone)}
    IN  /\ list' = [l EXCEPT !.cache = cache]
        /\ view' = [top |-> top, lastY |-> y,
                    rows |-> {[at |-> k, shows |-> cache[index(k)]] : k \in kept}]

Paint(l, y) == PaintAt(l, y, y)

(* update: setListSize and render(true) *)
Update(l) == Paint(l, Clamp(l, view.top))

Abs(n) == IF n < 0 THEN -n ELSE n

(* handleScroll: render() draws nothing as long as the buffer lasts. *)
Scroll(y) ==
    /\ y # view.top /\ y = Clamp(list, y)
    /\ IF view.lastY = NoY \/ Abs(y - view.lastY) > MaxBufferHeight
       THEN Paint(list, y)
       ELSE view' = [view EXCEPT !.top = y] /\ UNCHANGED list
    /\ UNCHANGED <<fresh, changes, misled>>

-----------------------------------------------------------------------------
(* Changes of the items.  Shift moves the cache from one index on. *)
Shift(cache, from, by) ==
    LET moved(i) == IF i >= from THEN i + by ELSE i
    IN  [j \in {moved(i) : i \in DOMAIN cache} |->
            cache[CHOOSE i \in DOMAIN cache : moved(i) = j]]

CacheWithout(cache, gone) == [i \in DOMAIN cache \ gone |-> cache[i]]

NoCache == [i \in {} |-> 0]
NoFilter == [on |-> FALSE, list |-> <<>>]

Change == changes < MaxOps /\ changes' = changes + 1
New(n) == fresh' = fresh + n /\ Len(list.items) + n <= MaxItems

FilterItems(S) ==
    /\ Change
    /\ Paint([list EXCEPT !.filtered = [on |-> TRUE,
                 list |-> Among(list.items, {list.items[k + 1] : k \in S})]], 0)
    /\ UNCHANGED <<fresh, misled>>

ResetFilter ==
    /\ list.filtered.on
    /\ Update([list EXCEPT !.filtered = NoFilter])
    /\ UNCHANGED <<fresh, changes, misled>>

AppendItems ==
    /\ Change /\ New(1)
    /\ Update([list EXCEPT !.items = Append(@, fresh)])
    /\ UNCHANGED misled

PrependItems(n) ==
    /\ Change /\ New(n)
    /\ Update([list EXCEPT !.items = [k \in 1 .. n |-> fresh + k - 1] \o @,
                           !.cache = Shift(@, -1, n)])
    /\ UNCHANGED misled

(* replaceItem; a filter goes on naming the item that was replaced. *)
ReplaceItem(i) ==
    /\ Change /\ fresh' = fresh + 1 /\ i < Len(list.items)
    /\ Update([list EXCEPT !.items[i + 1] = fresh, !.cache = CacheWithout(@, {i})])
    /\ misled' = (misled \/ list.filtered.on)

(* insertItemBefore, in the middle: rows above are made again. *)
InsertItemBefore(i) ==
    /\ Change /\ New(1) /\ i \in 1 .. (Len(list.items) - 1)
    /\ Update([list EXCEPT
                 !.items = SubSeq(@, 1, i) \o <<fresh>> \o SubSeq(@, i + 1, Len(@)),
                 !.cache = Shift(CacheWithout(@, -1 .. (i - 1)), i, 1)])
    /\ UNCHANGED misled

(* moveItem.  The cache is updated as if the item always moved down. *)
MoveItem(i, j) ==
    LET n == Len(list.items)
        rest == SubSeq(list.items, 1, i) \o SubSeq(list.items, i + 2, n)
        to == IF j >= n - 1 THEN n - 1 ELSE j
        lo == IF i < to THEN i ELSE to
        hi == IF i < to THEN to ELSE i
        moved(c) == IF c = lo THEN hi
                    ELSE IF c > lo /\ c <= hi THEN c + (IF i < to THEN -1 ELSE 1) ELSE c
        from(c) == {d \in DOMAIN list.cache : moved(d) = c}
    IN  /\ Change /\ i < n /\ i # j
        /\ Update([list EXCEPT
             !.items = SubSeq(rest, 1, to) \o <<list.items[i + 1]>> \o SubSeq(rest, to + 1, n - 1),
             !.cache = [c \in {moved(d) : d \in DOMAIN list.cache} |->
                          list.cache[CHOOSE d \in from(c) : \A e \in from(c) : e <= d]]])
        /\ misled' = (misled \/ i > to)
        /\ UNCHANGED fresh

(* One round of deleteItems: the item at an index goes, everywhere. *)
DeleteOne(l, i) ==
    [items |-> SubSeq(l.items, 1, i) \o SubSeq(l.items, i + 2, Len(l.items)),
     filtered |-> [l.filtered EXCEPT
                     !.list = Among(@, ToSet(@) \ {l.items[i + 1]})],
     cache |-> Shift(CacheWithout(l.cache, {i}), i + 1, -1)]

(* deleteItems for ascending indexes, each corrected by those before it. *)
DeleteItems(indexes) ==
    LET after[n \in 0 .. Len(indexes)] ==
            IF n = 0 THEN list ELSE DeleteOne(after[n - 1], indexes[n] - (n - 1))
    IN  /\ Change
        /\ Update(after[Len(indexes)])
        /\ UNCHANGED <<fresh, misled>>

(* replaceAllItems, and deleteAllItems for none: both forget the filter. *)
ReplaceAllItems(n) ==
    /\ Change /\ fresh' = fresh + n
    /\ Update([items |-> [k \in 1 .. n |-> fresh + k - 1], filtered |-> NoFilter,
               cache |-> NoCache])
    /\ misled' = FALSE

(* scrollToItem draws the list for a position that the browser may correct;
   of that it hears as of any scrolling.  The index is one of all items,
   though a filter may be on: then the position may lie beyond the end, and if
   the page stays where it was there is no scrolling to hear of, and the rows
   in view are missing. *)
ScrollToItem(i) ==
    LET y == i * RowHeight
        top == Clamp(list, y)
        far == Abs(top - y) > MaxBufferHeight
    IN  /\ i <= Len(list.items)
        /\ IF far /\ top # view.top THEN PaintAt(list, top, top) ELSE PaintAt(list, y, top)
        /\ misled' = (misled \/ (far /\ top = view.top))
        /\ UNCHANGED <<fresh, changes>>

ClearCache ==
    /\ Change
    /\ list' = [list EXCEPT !.cache = NoCache]
    /\ UNCHANGED <<view, fresh, misled>>

(* handleResize and reinitVirtualList draw the list again. *)
Redraw == Update(list) /\ UNCHANGED <<fresh, changes, misled>>

-----------------------------------------------------------------------------
(* A new list has been drawn once. *)
ListInit ==
    /\ \E n \in 0 .. MaxItems :
          /\ list = [items |-> [k \in 1 .. n |-> k], filtered |-> NoFilter,
                     cache |-> [i \in {k \in 0 .. (n - 1) : k < RowsToRender} |-> i + 1]]
          /\ view = [top |-> 0, lastY |-> 0,
                     rows |-> {[at |-> k - 1, shows |-> k] :
                                  k \in {m \in 1 .. n : m <= RowsToRender}}]
          /\ fresh = n + 1
    /\ changes = 0
    /\ misled = FALSE

Indexes == 0 .. (Len(list.items) - 1)

ListNext ==
    \/ \E y \in 0 .. (MaxItems * RowHeight) : Scroll(y)
    \/ \E S \in SUBSET Indexes : FilterItems(S)
    \/ ResetFilter \/ AppendItems \/ ClearCache \/ Redraw
    \/ \E i \in 0 .. MaxItems : ScrollToItem(i)
    \/ \E n \in {1, 2} : PrependItems(n)
    \/ \E i \in Indexes : ReplaceItem(i) \/ InsertItemBefore(i)
    \/ \E i \in Indexes : \E j \in 0 .. Len(list.items) : MoveItem(i, j)
    \/ \E i \in Indexes : DeleteItems(<<i>>) \/ \E j \in Indexes : i < j /\ DeleteItems(<<i, j>>)
    \/ \E n \in {0, MaxItems} : ReplaceAllItems(n)

ListSpec == ListInit /\ [][ListNext]_listVars
-----------------------------------------------------------------------------
ListTypeOK ==
    /\ list.items \in Seq(Nat) /\ Len(list.items) <= MaxItems
    /\ list.filtered.on \in BOOLEAN /\ list.filtered.list \in Seq(Nat)
    /\ DOMAIN list.cache \subseteq -1 .. MaxItems
    /\ view.top \in Nat /\ view.lastY \in Nat \cup {NoY}
    /\ \A r \in view.rows : r.at \in 0 .. MaxItems
    /\ misled \in BOOLEAN

(***************************************************************************)
(* RowsShowItems: every row that is wholly in view is in the document, at  *)
(* its place, once, and shows the item of that place, wherever the user    *)
(* scrolled since the list was last drawn and whatever was moved, filtered *)
(* or deleted before.  Three exceptions are named by misled: an item moved *)
(* up, an item replaced under a filter, and scrollToItem under a filter to *)
(* a place beyond its end; they last until the items are replaced.  (A row *)
(* partly in view may be missing: the buffer ends one row too early.)      *)
(***************************************************************************)
RowsShowItems ==
    ~misled =>
        \A k \in 0 .. (Len(ItemsShown(list)) - 1) :
            k * RowHeight >= view.top /\ (k + 1) * RowHeight <= view.top + PageHeight =>
                {r.shows : r \in {r \in view.rows : r.at = k}} = {ItemsShown(list)[k + 1]}
===============================================================================
