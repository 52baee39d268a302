------------------------------- MODULE Router -------------------------------
(***************************************************************************)
(* The main view of a business form and its router (framework7.js): pages  *)
(* loaded by ajax, by name (domCache) or from content (smart select), the  *)
(* way back, the swipe from the left edge, and the browser's history that  *)
(* pushState keeps in step.  The forms differ in domCache and pushState    *)
(* (fee.html and dsaordhtml.html: both; dsaord.html: domCache; index1.html:*)
(* pushState; list.html: neither) and leave the other parameters at their  *)
(* defaults: animated pages, swipe back, preloaded previous page, no       *)
(* unique history.                                                         *)
(***************************************************************************)
EXTENDS Integers, FiniteSets, SequencesExt

CONSTANTS
    Inline,       \* the names of the inline pages besides the first
    Ajax,         \* the addresses of pages fetched by ajax
    MaxHistory    \* bound on the pages of a history

ASSUME RouterAssumption == MaxHistory \in Nat \ {0, 1}

VARIABLES
    params,       \* what the form chose: domCache, pushState
    app,          \* the view, its router and the browser's history
    swipe         \* the swipe back: isTouched/isMoved and what it captured

routerVars == <<params, app, swipe>>

(***************************************************************************)
(* Addresses.  A hash address belongs to an inline or a content page.      *)
(***************************************************************************)
Home == <<"home", 0>>
InlineUrls == {<<"inline", p>> : p \in Inline}
AjaxUrls == {<<"ajax", a>> : a \in Ajax}
Content(n) == <<"content", n>>
ContentUrls == {Content(n) : n \in 0..MaxHistory}
Urls == {Home} \cup InlineUrls \cup AjaxUrls \cup ContentUrls
NoUrl == <<"none", 0>>
IsContent(u) == u[1] = "content"

\* An address that the view can only show again from a cache of its own.
IsHash(u) == u[1] \in {"inline", "content"} \/ (u = Home /\ params.dom)

\* view.initialPages: the pages the form's document was written with.
Initial(u) == params.dom /\ u \in {Home} \cup InlineUrls

Classes == {"none", "left", "center", "right", "moving"}
Page(id, u, class, cached) ==
    [id |-> id, url |-> u, class |-> class, cached |-> cached]
NoXhr == [op |-> "none", url |-> NoUrl, push |-> FALSE]
NoSwipe == [at |-> "none", active |-> 0, previous |-> 0, changed |-> FALSE,
            over |-> FALSE]

Previous(history) ==
    IF Len(history) > 1 THEN history[Len(history) - 1] ELSE NoUrl

(***************************************************************************)
(* The pages of the view's container, in document order.                   *)
(***************************************************************************)
IdsIn(pages) == {pages[i].id : i \in DOMAIN pages}
Find(pages, id) == CHOOSE i \in DOMAIN pages : pages[i].id = id
Without(pages, id) == SelectSeq(pages, LAMBDA p : p.id # id)
InView(pages) == SelectSeq(pages, LAMBDA p : ~p.cached)

\* addClass and removeClass on one page.
Dress(pages, id, class, cached) ==
    [i \in DOMAIN pages |->
        IF pages[i].id = id
        THEN [pages[i] EXCEPT !.class = class, !.cached = cached]
        ELSE pages[i]]

\* The page is put right before another one (insertBefore), or stays where
\* it is when the other is not in the document.
Before(pages, page, id) ==
    IF id = page.id \/ id \notin IdsIn(pages) THEN pages
    ELSE LET rest == Without(pages, page.id)
             k == Find(rest, id)
         IN SubSeq(rest, 1, k - 1) \o <<page>> \o SubSeq(rest, k, Len(rest))

\* The page of that name, cached or not; <<>> when there is none.
Named(pages, u) == SelectSeq(pages, LAMBDA p : p.url = u)

\* A fresh element; elements that left the document keep their identity as
\* long as a callback holds them.
FreshId(s) ==
    LET held == IdsIn(s.pages) \cup {swipe.active, swipe.previous}
                \cup {a.new : a \in s.anims} \cup {a.old : a \in s.anims}
    IN CHOOSE n \in 1..(Cardinality(held) + 1) :
           n \notin held /\ \A m \in 1..(n - 1) : m \in held

(***************************************************************************)
(* The browser's history: the states of the entries up to where it is (a   *)
(* form gives no way forward).  history.back() only asks, the browser goes *)
(* later.                                                                  *)
(***************************************************************************)
PushState(s, u) == [s EXCEPT !.states = Append(@, u)]
AskBack(s) == [s EXCEPT !.going = @ + 1]
OneBack(s) == [s EXCEPT !.states = Front(@)]
EntryState(s) == Last(s.states)

(***************************************************************************)
(* _load, in the order of the code: the page is found or was just made,    *)
(* the older pages go, the address and both histories grow, the animation  *)
(* starts.                                                                 *)
(***************************************************************************)
ByName(u) == params.dom /\ u \in {Home} \cup InlineUrls

\* No page of that name, or it is the one that is shown already.
NothingToLoad(s, u) ==
    \/ InView(s.pages) = <<>>
    \/ ByName(u) /\ (Named(s.pages, u) = <<>> \/ s.active = u)

\* Every page in view but the last is hidden (domCache) or removed.
OlderPutAway(pages) ==
    LET last == Last(InView(pages)).id
    IN IF params.dom
       THEN [i \in DOMAIN pages |->
               IF pages[i].id = last THEN pages[i]
               ELSE [pages[i] EXCEPT !.cached = TRUE]]
       ELSE SelectSeq(pages, LAMBDA p : p.id = last)

\* The address of a content page says how deep it lies.
AddressOf(s, u) == IF IsContent(u) THEN Content(Len(s.history)) ELSE u

\* SLIP: the browser is not told of a page that came from content.
GrowUntold(s, u, push) ==
    LET to == AddressOf(s, u)
        pushed == IF params.push /\ push /\ ~IsContent(u) THEN PushState(s, to) ELSE s
    IN [pushed EXCEPT
          !.content = IF IsContent(u) /\ ~params.dom THEN @ \cup {to} ELSE @,
          !.url = to, !.history = Append(@, to)]

\* The browser's history follows, the view's address and history are set.
Grow(s, u, push) ==
    LET to == AddressOf(s, u)
        pushed == IF params.push /\ push THEN PushState(s, to) ELSE s
    IN [pushed EXCEPT
          !.content = IF IsContent(u) /\ ~params.dom THEN @ \cup {to} ELSE @,
          !.url = to, !.history = Append(@, to)]

\* The new page is appended and both move: animatePages 'to-left'.
Animate(s, u) ==
    LET id == IF ByName(u) THEN Head(Named(s.pages, u)).id ELSE FreshId(s)
        kept == OlderPutAway(s.pages)
        old == Last(InView(s.pages)).id
        rest == Dress(Without(kept, id), old, "moving", FALSE)
        to == AddressOf(s, u)
    IN [s EXCEPT !.pages = Append(rest, Page(id, to, "moving", FALSE)),
                 !.active = to,
                 !.anims = @ \cup {[kind |-> "load", new |-> id, old |-> old]}]

LoadNow(s, u, push) ==
    IF NothingToLoad(s, u) THEN [s EXCEPT !.allow = TRUE]
    ELSE Grow(Animate(s, u), u, push)

\* app.get: an address of the XHR cache is answered at once, any other asks.
Ask(s, op, u, push) == [s EXCEPT !.xhr = [op |-> op, url |-> u, push |-> push]]

\* router.load up to the answer: nothing while a page is changing, nothing
\* for the address that is shown.
Load(s, u, push) ==
    LET started == [s EXCEPT !.allow = FALSE, !.xhr = NoXhr]
    IN IF ~s.allow \/ (~IsHash(u) /\ s.url = u) THEN s
       ELSE IF IsHash(u) \/ u \in s.stored THEN LoadNow(started, u, push)
       ELSE Ask(started, "load", u, push)

(***************************************************************************)
(* _back.  setPages puts the previous page left of the one that leaves; a  *)
(* preload stops there, the way back starts the animation.                 *)
(***************************************************************************)
SetPages(s, page, old, preload) ==
    LET aside == [page EXCEPT !.cached = FALSE,
                             !.class = IF preload THEN "left" ELSE "moving"]
        there == IF page.id \in IdsIn(s.pages)
                 THEN Dress(s.pages, page.id, aside.class, FALSE) ELSE s.pages
        placed == Before(there, aside, old)
    IN IF preload
       THEN [s EXCEPT !.pages = placed, !.allow = TRUE]
       ELSE [s EXCEPT
               !.url = Previous(s.history),
               !.pages = Dress(placed, old, "moving",
                               placed[Find(placed, old)].cached),
               !.active = page.url,
               !.anims = @ \cup {[kind |-> "back", new |-> page.id, old |-> old]}]

\* The first lines of _back: the browser is asked to go back as well, unless
\* it already has, or stands at an entry without a state.
TellBrowser(s, push, preload) ==
    IF params.push /\ ~preload /\ push /\ EntryState(s) # NoUrl
    THEN AskBack(s) ELSE s

\* There is a page on the left: a preload has nothing to do.
BackInView(s, push, preload) ==
    LET told == TellBrowser(s, push, preload)
        shown == InView(s.pages)
    IN IF preload THEN [told EXCEPT !.allow = TRUE]
       ELSE SetPages([told EXCEPT !.url = Previous(s.history)],
                     shown[Len(shown) - 1], Last(shown).id, FALSE)

\* There is none: it is made anew from content or found by its name.
BackTo(s, u, push, preload) ==
    LET told == TellBrowser(s, push, preload)
        moved == IF preload THEN told
                 ELSE [told EXCEPT !.url = Previous(s.history)]
        byName == IsHash(u) /\ params.dom
        named == Named(s.pages, u)
        page == IF byName THEN Head(named)
                ELSE Page(FreshId(s), u, "left", FALSE)
        shown == InView(s.pages)
    IN IF (byName /\ named = <<>>) \/ shown = <<>>
       THEN [moved EXCEPT !.allow = TRUE]
       ELSE SetPages(moved, page, Last(shown).id, preload)

\* router.back up to the answer.
Back(s, push, preload) ==
    LET started == [s EXCEPT !.allow = FALSE, !.xhr = NoXhr]
        u == Previous(s.history)
    IN IF ~s.allow THEN s
       ELSE IF Len(InView(s.pages)) > 1 THEN BackInView(started, push, preload)
       ELSE IF u = NoUrl THEN [started EXCEPT !.allow = TRUE]
       ELSE IF IF IsHash(u) THEN params.dom \/ u \in s.content ELSE u \in s.stored
            THEN BackTo(started, u, push, preload)
       ELSE IF IsHash(u) THEN [started EXCEPT !.allow = TRUE]
       ELSE Ask(started, IF preload THEN "preload" ELSE "back", u, push)

\* pushStateClearQueue: the last of what the browser asked for meanwhile.
ClearQueue(s) ==
    LET q == Last(s.queue)
        rest == [s EXCEPT !.queue = Front(@)]
    IN IF s.queue = <<>> THEN s
       ELSE IF q.action = "back" THEN Back(rest, TRUE, FALSE)
       ELSE Load(rest, q.url, FALSE)

(***************************************************************************)
(* afterBack: the page that left is put away, both caches forget what no   *)
(* history names, the queue is served and the page before is preloaded.    *)
(***************************************************************************)
Preload(s, new) ==
    LET u == Previous(s.history)
        k == Find(s.pages, new)
        found == IF u \in {Home} \cup InlineUrls THEN Named(s.pages, u)
                 ELSE IF k > 1 /\ s.pages[k - 1].cached
                      THEN <<s.pages[k - 1]>> ELSE <<>>
        page == [Head(found) EXCEPT !.class = "left", !.cached = FALSE]
    IN IF ~params.dom THEN Back(s, TRUE, TRUE)
       ELSE IF u = NoUrl \/ found = <<>> \/ new \notin IdsIn(s.pages) THEN s
       ELSE [s EXCEPT !.pages = Before(Dress(@, page.id, "left", FALSE), page, new)]

\* SLIP: the page that left stays in the view.
LeaveOld(s, old) == s.pages

PutOldAway(s, old) ==
    IF old \notin IdsIn(s.pages) THEN s.pages
    ELSE LET p == s.pages[Find(s.pages, old)]
         IN IF Initial(p.url) THEN Dress(s.pages, old, p.class, TRUE)
            ELSE Without(s.pages, old)

AfterBack(s, old, new) ==
    LET history == IF s.history = <<>> THEN <<>> ELSE Front(s.history)
        kept == IF new \in IdsIn(s.pages)
                THEN Dress(PutOldAway(s, old), new, "center",
                           s.pages[Find(s.pages, new)].cached)
                ELSE PutOldAway(s, old)
        known == SelectSeq(kept, LAMBDA p : \/ ~params.dom \/ ~p.cached
                                            \/ Initial(p.url)
                                            \/ p.url \in ToSet(history))
        done == [s EXCEPT !.allow = TRUE, !.history = history, !.pages = known,
                          !.content = IF params.dom \/ s.history = <<>> THEN @
                                      ELSE @ \ {Last(s.history)}]
    IN Preload(IF params.push THEN ClearQueue(done) ELSE done, new)

(***************************************************************************)
(* popstate: the entry the browser came to is an address of the view's     *)
(* history, and the view goes back, or it is not, and the view loads it;   *)
(* what comes while a page is changing waits in pushStateQueue.            *)
(***************************************************************************)
HandlePopState(s) ==
    LET u == IF EntryState(s) = NoUrl THEN s.history[1] ELSE EntryState(s)
    IN IF s.history = <<>> \/ u = s.url THEN s
       ELSE IF u \in ToSet(s.history)
            THEN IF s.allow THEN Back(s, FALSE, FALSE)
                 ELSE [s EXCEPT !.queue = Append(@, [action |-> "back", url |-> NoUrl])]
       ELSE IF s.allow THEN Load(s, u, FALSE)
            ELSE [s EXCEPT !.queue = <<[action |-> "load", url |-> u]>> \o @]

-----------------------------------------------------------------------------
RouterInit ==
    /\ params \in [dom : BOOLEAN, push : BOOLEAN]
    /\ app = [allow |-> TRUE, url |-> Home, history |-> <<Home>>,
              pages |-> LET inline == SetToSeq(InlineUrls)
                        IN <<Page(1, Home, "center", FALSE)>> \o
                           (IF params.dom
                            THEN [i \in DOMAIN inline |->
                                     Page(i + 1, inline[i], "none", TRUE)]
                            ELSE <<>>),
              active |-> Home, content |-> {}, stored |-> {}, xhr |-> NoXhr,
              anims |-> {}, queue |-> <<>>, states |-> <<NoUrl>>,
              going |-> 0]
    /\ swipe = NoSwipe

\* A page is on its way, or a page change is being shown.
Changing(s) == s.xhr # NoXhr \/ s.anims # {}

\* What every step but the swipe's own does to a swipe that is under way: the
\* pages it captured may no longer be the ones it will be told about.
Overlap == swipe' = [swipe EXCEPT !.over = @ \/ (swipe.at = "moved" /\ Changing(app'))]

\* A swipe that ends over a page change leaves the pages in no order the
\* router knows: the model follows a run up to there.
Running == swipe.at # "crossed"

\* The browser needs less time to go back than an animation or a user takes.
Prompt == app.going = 0

\* The histories have room for one more page.
Room == /\ Len(app.history) < MaxHistory /\ Len(app.states) < MaxHistory
        /\ app.queue = <<>> /\ Prompt

\* A link, or router.loadPage, loadContent from a form's script.
Open(u) ==
    /\ Running /\ Room
    /\ u[1] = "inline" => params.dom
    /\ app.allow
    /\ app' = Load(app, u, TRUE)
    /\ UNCHANGED params /\ Overlap

\* A back link, or router.back from a form's script.
GoBack ==
    /\ Running /\ Prompt
    /\ app' = Back(app, TRUE, FALSE)
    /\ UNCHANGED params /\ Overlap

\* SLIP: a failed request keeps the router for itself.
KeepRouter(s) == s

\* The callback of app.get for an error.
Refuse(s) == [s EXCEPT !.allow = TRUE]

\* The callback of app.get for a page, which the XHR cache keeps.
Arrive(s, r) ==
    LET kept == [s EXCEPT !.stored = @ \cup {r.url}]
    IN IF r.op = "load" THEN LoadNow(kept, r.url, r.push)
       ELSE BackTo(kept, r.url, r.push, r.op = "preload")

\* $.ajax: onload with a good status, or with another one, or onerror.
AjaxAnswer ==
    LET done == [app EXCEPT !.xhr = NoXhr]
    IN /\ Running /\ app.xhr # NoXhr
       /\ app' \in {Refuse(done), Arrive(done, app.xhr)}
       /\ UNCHANGED params /\ Overlap

\* Ten minutes passed: an entry of the XHR cache is too old.
Expire(u) ==
    /\ Running /\ Room /\ u \in app.stored
    /\ app' = [app EXCEPT !.stored = @ \ {u}]
    /\ UNCHANGED params /\ Overlap

\* afterAnimation of _load: the new page is in the middle.
Shown(s, a) ==
    LET free == [s EXCEPT
                   !.allow = TRUE,
                   !.pages = Dress(Dress(@, a.old, "left",
                                         a.old \in IdsIn(@) /\ @[Find(@, a.old)].cached),
                                   a.new, "center", @[Find(@, a.new)].cached)]
    IN IF params.push THEN ClearQueue(free) ELSE free

AnimationEnd(a) ==
    /\ Running /\ Prompt /\ a.new \in IdsIn(app.pages)
    /\ LET ended == [app EXCEPT !.anims = @ \ {a}]
       IN app' = IF a.kind = "load" THEN Shown(ended, a)
                 ELSE AfterBack(ended, a.old, a.new)
    /\ UNCHANGED params /\ Overlap

\* The finger comes down at the edge and moves: handleTouchStart and the
\* first handleTouchMove.  Neither looks at allowPageChange.
SwipeMove ==
    LET lefts == SelectSeq(app.pages, LAMBDA p : p.class = "left" /\ ~p.cached)
        shown == InView(app.pages)
    IN /\ swipe.at = "none"
       /\ lefts # <<>> /\ shown # <<>>
       /\ swipe' = [NoSwipe EXCEPT !.at = "moved", !.active = Last(shown).id,
                                   !.previous = Head(lefts).id,
                                   !.over = Changing(app)]
       /\ UNCHANGED <<params, app>>

\* The finger leaves without having moved the page (touchesDiff is 0).
SwipeNothing ==
    /\ swipe.at = "moved"
    /\ swipe' = NoSwipe
    /\ UNCHANGED <<params, app>>

\* The finger leaves: far enough to go back, or not.
SwipeEnd(changed) ==
    /\ swipe.at = "moved"
    /\ swipe' = [swipe EXCEPT !.at = IF swipe.over THEN "crossed" ELSE "settling",
                              !.changed = changed]
    /\ LET p == app.pages
           moved == [i \in DOMAIN p |->
                       IF p[i].id = swipe.active
                       THEN [p[i] EXCEPT !.class = "right"]
                       ELSE IF p[i].id = swipe.previous
                       THEN [p[i] EXCEPT !.class = "center"] ELSE p[i]]
       IN app' = IF changed
                 THEN [app EXCEPT !.allow = FALSE, !.url = Previous(app.history),
                                  !.pages = moved,
                                  !.active = IF swipe.previous \in IdsIn(p)
                                             THEN p[Find(p, swipe.previous)].url
                                             ELSE @]
                 ELSE [app EXCEPT !.allow = FALSE]
    /\ UNCHANGED params

\* transitionEnd of the page that was dragged.
SwipeSettle ==
    /\ swipe.at = "settling" /\ Prompt
    /\ swipe.active \in IdsIn(app.pages)
    /\ swipe' = NoSwipe
    /\ LET free == [app EXCEPT !.allow = TRUE]
           told == IF params.push THEN AskBack(free) ELSE free
       IN app' = IF swipe.changed
                 THEN AfterBack(told, swipe.active, swipe.previous) ELSE free
    /\ UNCHANGED params

\* The browser goes where history.back() asked it to, if there is somewhere.
Traverse ==
    /\ Running /\ app.going > 0
    /\ LET gone == [app EXCEPT !.going = @ - 1]
       IN app' = IF Len(app.states) > 1 THEN HandlePopState(OneBack(gone)) ELSE gone
    /\ UNCHANGED params /\ Overlap

\* The user presses the device's back button.
Press ==
    /\ Running /\ Len(app.states) > 1 /\ app.queue = <<>> /\ Prompt
    /\ app' = HandlePopState(OneBack(app))
    /\ UNCHANGED params /\ Overlap

RouterNext ==
    \/ \E u \in {Home, Content(0)} \cup InlineUrls \cup AjaxUrls : Open(u)
    \/ GoBack \/ AjaxAnswer \/ SwipeMove \/ SwipeNothing \/ SwipeSettle
    \/ Traverse \/ Press
    \/ \E u \in AjaxUrls \cup {Home} : Expire(u)
    \/ \E a \in app.anims : AnimationEnd(a)
    \/ \E changed \in BOOLEAN : SwipeEnd(changed)

RouterSpec == RouterInit /\ [][RouterNext]_routerVars

\* Requests end, with an answer or an error; animations and transitions end;
\* the browser goes where it was asked to.  A finger may stay where it is.
\* Each line is weak fairness with the condition that enables the action
\* written out.
RouterFair ==
    /\ []<>(app.xhr = NoXhr \/ ~Running) \/ []<><<AjaxAnswer>>_routerVars
    /\ \/ []<>(app.anims = {} \/ ~Running)
       \/ []<><<\E a \in app.anims : AnimationEnd(a)>>_routerVars
    /\ []<>(swipe.at # "settling") \/ []<><<SwipeSettle>>_routerVars
    /\ []<>(app.going = 0 \/ ~Running) \/ []<><<Traverse>>_routerVars

RouterFairSpec == RouterSpec /\ RouterFair
-----------------------------------------------------------------------------
RouterTypeOK ==
    /\ params \in [dom : BOOLEAN, push : BOOLEAN]
    /\ app.allow \in BOOLEAN /\ app.url \in Urls \cup {NoUrl} /\ app.active \in Urls
    /\ app.history \in Seq(Urls) /\ app.history # <<>>
    /\ app.states \in Seq(Urls \cup {NoUrl}) /\ app.states # <<>>
    /\ \A i \in DOMAIN app.pages :
          /\ app.pages[i].url \in Urls /\ app.pages[i].class \in Classes
          /\ \A j \in DOMAIN app.pages :
                app.pages[i].id = app.pages[j].id => i = j
    /\ app.content \subseteq ContentUrls
    /\ app.stored \subseteq AjaxUrls \cup {Home}
    /\ app.xhr.op \in {"none", "load", "back", "preload"}
    /\ app.going \in Nat
    /\ swipe.at \in {"none", "moved", "settling", "crossed"}

\* The router is free: nothing is moving.
Free == app.allow /\ swipe.at \in {"none", "moved"}

\* When a page change is over, however it was asked for, one page is in the
\* middle, it is the last one in view, and it is the page the view's address,
\* the view's history and activePage speak of.
AddressShown ==
    LET centre == SelectSeq(app.pages, LAMBDA p : p.class = "center" /\ ~p.cached)
    IN /\ Len(centre) = 1
       /\ centre[1] = Last(InView(app.pages))
       /\ centre[1].url = app.url
       /\ app.url = Last(app.history)
       /\ app.url = app.active

\* Under it lies at most one page, the one the history names before: a swipe
\* uncovers the page that the way back leads to.  With domCache it is always
\* there, whatever was cached, moved by name or removed before.
PreviousAtHand ==
    LET shown == InView(app.pages)
    IN /\ Len(shown) <= 2
       /\ Len(shown) = 2 => /\ shown[1].url = Previous(app.history)
                            /\ shown[1].class = "left"
       /\ params.dom /\ Len(app.history) > 1 => Len(shown) = 2

PagesMatchHistory == Free => AddressShown /\ PreviousAtHand

\* The browser's history never lies deeper than the view's once it has gone
\* where it was asked to, so the device's back button leads nowhere the view
\* has already left; with domCache, where the way back needs no request, both
\* agree entry by entry unless a press still waits in pushStateQueue.
BrowserInStep ==
    Free /\ params.push /\ app.going = 0 =>
        /\ Len(app.states) <= Len(app.history)
        /\ params.dom /\ app.queue = <<>> => Tail(app.states) = Tail(app.history)

\* What the two histories and the document say of each other at rest,
\* whatever presses, links, swipes and failed requests crossed before.
HistoryInStep == PagesMatchHistory /\ BrowserInStep

\* A page change always ends: whatever fails or crosses its way, the router
\* is free again.
PageChangeEnds == ~app.allow ~> (app.allow \/ ~Running)
=============================================================================
