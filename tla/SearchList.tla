------------------------------ MODULE SearchList ------------------------------
(***************************************************************************)
(* The search bar over a list (framework7.js, Searchbar), on Android.  The *)
(* page's keys only start a timer; the search runs when it fires, on what  *)
(* the input then holds.  Rows come and go meanwhile.                      *)
(***************************************************************************)
EXTENDS Naturals, FiniteSets

CONSTANTS
    Rows,         \* the rows the list may have
    Queries       \* what may be searched for, besides nothing

NoQuery == ""
Unset == "unset"

ASSUME SearchAssumption == {NoQuery, Unset} \cap Queries = {}

VARIABLES
    how,          \* what compares the rows: see Kinds
    finds,        \* the rows each query finds
    input,        \* the value of the input
    previousQuery,
    active,       \* s.active and class searchbar-active
    overlay,      \* the overlay over the list has its class
    pending,      \* a timer of handleInput has yet to fire
    unheard,      \* text came into the input without a key (pasted)
    ul,           \* s.ul: "none" yet, the list's "own", or one "replaced" since
    rows,         \* the rows of the list
    hidden,       \* those with class hidden-by-searchbar or left out by a filter
    narrowed,     \* the virtual list has filteredItems
    stale,        \* its params.items are no longer its items
    newcomers,    \* rows that came in after the last search
    hasty,        \* the bar was focused again before disable's timer fired
    notFound,     \* the text for "nothing found" is shown
    detached      \* destroy was called

rowVars == <<ul, rows, hidden, narrowed, stale, newcomers>>
searchVars == <<how, finds, input, previousQuery, active, overlay, pending, unheard,
                rowVars, hasty, notFound, detached>>

\* A plain list is searched by the text of its rows; a virtual one by the
\* page's function searchAll or its function searchByItem.
Kinds == {"text", "searchAll", "searchByItem"}
IsVirtual == how # "text"

Found(q) == IF q = NoQuery THEN Rows ELSE finds[q]

-----------------------------------------------------------------------------
SearchInit ==
    /\ how \in Kinds
    /\ finds \in [Queries -> SUBSET Rows]
    /\ input = NoQuery /\ previousQuery = Unset
    /\ active = FALSE /\ overlay = FALSE
    /\ pending = FALSE /\ unheard = FALSE
    /\ ul \in {"none", "own"}
    /\ rows \in IF ul = "own" THEN SUBSET Rows ELSE {{}}
    /\ hidden = {} /\ newcomers = {}
    /\ narrowed = FALSE /\ stale = FALSE
    /\ hasty = FALSE /\ notFound = FALSE
    /\ detached = FALSE

(* Plausible slips in the code below, each caught by a property. *)

\* Rows that were hidden are not shown before the rows are compared.
StayHidden(q) == hidden \cup (rows \ Found(q))

\* disable leaves the overlay to the search that follows.
OverlayStays == overlay

\* The rows a search leaves hidden.
Hide(q) == rows \ Found(q)

\* enable, on the focus of the input and before a search by the page's script
Enable ==
    /\ active' = TRUE
    /\ overlay' = (overlay \/ ~active)
    /\ hasty' = (hasty \/ (pending /\ ~active))

\* search, after the comparison with the previous query: the overlay is
\* over the list while nothing is searched for.
Overlay(q, on) == overlay' = IF on THEN q = NoQuery ELSE overlay

\* searchByItem is handed the item that params.items has at a row's index,
\* which is the row's own until the items are replaced.
Misjudged(q) == how = "searchByItem" /\ stale /\ q # NoQuery

Left(q) == IF Misjudged(q) THEN SUBSET rows ELSE {Hide(q)}

\* The rows of the list are compared, or, when the page has replaced it,
\* those of the list that is gone; a function that is handed no item may throw.
Compare(q) ==
    \/ /\ ul # "replaced"
       /\ ul' = IF ul = "none" /\ rows # {} THEN "own" ELSE ul
       /\ hidden' \in Left(q)
       /\ notFound' = (rows \subseteq hidden' /\ ~(IsVirtual /\ q = NoQuery))
       /\ newcomers' = {}
       /\ narrowed' = (IsVirtual /\ q # NoQuery)
    \/ /\ ul = "replaced"
       /\ notFound' \in BOOLEAN
       /\ UNCHANGED <<ul, hidden, narrowed, newcomers>>
    \/ /\ Misjudged(q)
       /\ UNCHANGED <<ul, hidden, narrowed, newcomers, notFound>>

\* The timer of handleInput fires.
HandleInput ==
    /\ pending
    /\ pending' = FALSE
    /\ IF detached \/ input = previousQuery
       THEN UNCHANGED <<previousQuery, overlay, ul, hidden, narrowed, newcomers, hasty, notFound>>
       ELSE /\ previousQuery' = input /\ hasty' = FALSE
            /\ Overlay(input, active)
            /\ Compare(input)
    /\ UNCHANGED <<how, finds, input, active, unheard, rows, stale, detached>>

\* s.search called by the page's script.
Search(q) ==
    /\ ~detached
    /\ q # previousQuery
    /\ previousQuery' = q /\ hasty' = FALSE
    /\ input' = q
    /\ active' = TRUE
    /\ Overlay(q, TRUE)
    /\ Compare(q)
    /\ unheard' = FALSE
    /\ UNCHANGED <<how, finds, pending, rows, stale, detached>>

\* The user types, pastes, focuses the input or leaves it.
Type(v) ==
    /\ ~detached /\ input' = v
    /\ pending' = TRUE /\ unheard' = FALSE
    /\ Enable
    /\ UNCHANGED <<how, finds, previousQuery, rowVars, notFound, detached>>

Paste(v) ==
    /\ ~detached /\ active /\ v # input
    /\ input' = v /\ unheard' = TRUE
    /\ UNCHANGED <<how, finds, previousQuery, active, overlay, pending, rowVars, hasty,
                   notFound, detached>>

Focus ==
    /\ ~detached
    /\ Enable
    /\ UNCHANGED <<how, finds, input, previousQuery, pending, unheard, rowVars, notFound,
                   detached>>

\* The browser fires change for text that came without a key.
Leave ==
    /\ unheard /\ ~detached
    /\ unheard' = FALSE /\ pending' = TRUE
    /\ UNCHANGED <<how, finds, input, previousQuery, active, overlay, rowVars, hasty,
                   notFound, detached>>

\* The overlay that disable leaves behind.
NoOverlay == FALSE

\* disable: the cancel button and the overlay.
Disable ==
    /\ ~detached
    /\ input' = NoQuery /\ pending' = TRUE /\ unheard' = FALSE
    /\ active' = FALSE
    /\ overlay' = NoOverlay /\ hasty' = FALSE
    /\ UNCHANGED <<how, finds, previousQuery, rowVars, notFound, detached>>

\* clear: empties the input and focuses it.
Clear ==
    /\ ~detached
    /\ input' = NoQuery /\ pending' = TRUE /\ unheard' = FALSE
    /\ Enable
    /\ UNCHANGED <<how, finds, previousQuery, rowVars, notFound, detached>>

\* destroy, before the page is removed; a timer that fires later throws.
Destroy ==
    /\ ~detached /\ detached' = TRUE
    /\ UNCHANGED <<how, finds, input, previousQuery, active, overlay, pending, unheard,
                   rowVars, hasty, notFound>>

\* What only the rows change.
OnlyRows == UNCHANGED <<how, finds, input, previousQuery, active, overlay, pending, unheard,
                        hasty, notFound, detached>>

\* Rows that come in are not compared before the next search.
ComeIn(S) == IF previousQuery \in Queries THEN S ELSE {}

\* A row comes in (appendItem, prependItem, insertItemBefore); a virtual list
\* that is narrowed does not show it.
AddRow(r) ==
    /\ ~detached /\ r \notin rows
    /\ rows' = rows \cup {r}
    /\ newcomers' = newcomers \cup ComeIn({r})
    /\ hidden' = IF narrowed THEN hidden \cup {r} ELSE hidden
    /\ OnlyRows /\ UNCHANGED <<ul, narrowed, stale>>

\* A row goes (deleteItem): out of the items and out of the filter.
RemoveRow(r) ==
    /\ ~detached /\ r \in rows
    /\ rows' = rows \ {r} /\ hidden' = hidden \ {r} /\ newcomers' = newcomers \ {r}
    /\ OnlyRows /\ UNCHANGED <<ul, narrowed, stale>>

\* replaceAllItems, and deleteAllItems for none: the virtual list has other
\* items and no filter, its params the items it was made with.
ReplaceAllRows(S) ==
    /\ ~detached /\ IsVirtual
    /\ rows' = S /\ hidden' = {} /\ newcomers' = ComeIn(S)
    /\ narrowed' = FALSE /\ stale' = TRUE
    /\ OnlyRows /\ UNCHANGED ul

\* The page removes the ul of a plain list with its rows and appends another.
ReplaceUl ==
    /\ ~detached /\ ~IsVirtual
    /\ ul' = IF ul = "own" THEN "replaced" ELSE ul
    /\ rows' = {} /\ hidden' = {} /\ newcomers' = {}
    /\ OnlyRows /\ UNCHANGED <<narrowed, stale>>

SearchNext ==
    \/ HandleInput \/ Focus \/ Leave \/ Disable \/ Clear \/ Destroy \/ ReplaceUl
    \/ \E q \in Queries \cup {NoQuery} : Search(q) \/ Type(q) \/ Paste(q)
    \/ \E r \in Rows : AddRow(r) \/ RemoveRow(r)
    \/ \E S \in SUBSET Rows : ReplaceAllRows(S)

SearchSpec == SearchInit /\ [][SearchNext]_searchVars
-----------------------------------------------------------------------------
SearchTypeOK ==
    /\ input \in Queries \cup {NoQuery}
    /\ previousQuery \in Queries \cup {NoQuery, Unset}
    /\ how \in Kinds
    /\ {active, overlay, pending, unheard, narrowed, stale, hasty, notFound, detached}
           \subseteq BOOLEAN
    /\ ul \in {"none", "own", "replaced"}
    /\ rows \subseteq Rows /\ hidden \subseteq rows /\ newcomers \subseteq rows

(***************************************************************************)
(* ResultsMatch: once the timers have fired, the rows that are shown are   *)
(* those the text in the input finds, however the text came there, was     *)
(* cleared or cancelled, and the overlay is over the list exactly while    *)
(* the bar is active and nothing is searched for.  Exceptions: text that   *)
(* was pasted and not left, rows that came in after the search, a plain    *)
(* list whose ul the page has replaced, a virtual list searched by         *)
(* searchByItem whose items were replaced (Misjudged; an empty query shows *)
(* it whole again), and the overlay when the bar was cancelled and its old *)
(* text typed again before the timer fired.                                *)
(***************************************************************************)
ResultsMatch ==
    ~pending /\ ~unheard /\ ~detached =>
        /\ ul # "replaced" /\ ~Misjudged(input) =>
               \A r \in rows \ newcomers : r \in hidden <=> r \notin Found(input)
        /\ ~hasty => (overlay <=> active /\ input = NoQuery)
=============================================================================
