# Verification of the MZ ERP client

TLA+ models, TLC configurations and TLAPS proofs for the client in
`hJNerpAndroid_12/src/main`: an Android application for chat and business
(`java/com/mznerp`) that keeps one push connection to its server and stores
contacts, requests and messages in SQLite, and the HTML forms it shows in a
WebView (`assets/www`), written with Framework7 over a bridge of Cordova's
kind. Below, paths are relative to these two directories.

## The system

| Part | State it keeps | What is hard | Modelled in |
|---|---|---|---|
| Read handles (`db/Pool.java`, `db/SQLiteHelper.java`, `dao/BaseDao.java`) | list of handles, those in use, the write connection | two nested monitors, wait and notify, nested reads, the pool at its limit | `Lending`, `Pool`, `SQLiteHelper` |
| Push connection, life (`websocket/HjHTTPNotificationManager.java`, `service/IMChatService.java`, login and logout) | `stoped`, a thread per `start()`, the stored `forceExit`, service and receiver | one flag shared by old and new threads, silent loss of the network, a sticky service restarted without its activity | `PushConnection` |
| Push connection, framing (`connectServer`, `websocket/JsonValidator.java`) | the text collected so far | chunks cut anywhere, stop and revival in the middle | `Delivery`, `PushStream` |
| Sending messages (`activity/im/reSendMsg.java`, `ChatListTypeAdapter`, `ChatActivity`) | status of a message in the table and in a bean per load, the field `fileSend` | a task per drawn row, reset of running tasks, a data race on `fileSend` | `Chat` |
| Friends and requests (`IMChatService.processPacket*`, `dao/QiXinBaseDao.java`, `business/ContactBusiness.java`, `activity/contact`, `db/SQLiteWorker.java`) | contact table, table of requests, chats, posted steps | four writers with stale reads, lost answers and responses, a crash between two transactions | `Contacts` |
| Bridge (`cordova.js`, `NativeToJsMessageQueue.java`, `business/htmlutil/HjBusiness.java`, `hjbusiness.js`) | callbacks, two message queues, the event that tells the page, the callback of the latest call | messages over two ways, three threads, answers after a page load | `MessageFifo`, `WebBridge` |
| Start of a page (`cordova.js`: modules, channels, plugin loader, bootstrap) | channels, modules, scripts, the override of the back button | nested joins, scripts that load in any order or not at all | `WebBoot` |
| Database of a page (`pgsqliteplugin.js`) | the registry of open files, calls and answers, the file with its version | kills between batch and version, two helpers for one file, batches that fail half way | `PgSqlite`, `PgStatements` |
| Router (`framework7.js`) | pages in the document, the view's history, the browser's history, a swipe | a press, a link, a swipe or a failed request at any point of a page change | `Router` |
| Dialogs, popover, popups | the stack of waiting dialogs, overlays | shared overlays, elements that leave when a transition ends | `Dialogs` |
| Fast clicks | the touch, three timers | the browser's own late click | `Taps` |
| Virtual list | items, filter, cached rows by index, what is drawn | re-indexing, redrawing only after a screen | `VirtualList` |
| Stored forms and smart selects | inputs, the page of options, what is stored | the order of filling and setting up | `FormPage` |
| Search bar | query, timer, hidden rows, overlay | a timer against typing, clearing, cancelling | `SearchList` |
| Calendar | three months in a wrapper, chosen days | turns during a turn, year ends | `Calendar` |
| Rows swiped open | the open row, its classes, timers | one set of variables for all rows | `Swipeout` |
| List of orders (`dsaordhtml.html`, `HjBusiness`) | rows, the date to go on from, the phone's table | loads that overlap and are answered in place of each other | `OrderList` |
| Pull to refresh | classes of the content, the finger, refreshes not done | fingers during a refresh or a slide | `PullRefresh` |

How they interact. `PushStream` hands a text to `IMChatService`, whose handler
runs on the main thread and is one of the writers of `Contacts`. Activities
start threads that call the server (`manager/HJWebSocketManager.java`: one HTTP
request and its answer) and post SQL to the `SQLiteWorker`, a thread with a FIFO
queue. All read through the `Pool` and write through the one write connection.
Login and logout start and stop the connection. A form's page runs in a WebView
of its own: `WebBoot` is how it comes up, `WebBridge` how its scripts call the
application and get their answers, and the other parts are what its pages do;
`OrderList` goes from a scroll event through the bridge to the server and back.
The parts of the page share the document but no variables: where two meet (a
virtual list under a search bar, the page of a smart select in the router) the
one model has the other's outcomes as its inputs.

`PROJECT.json` lists the components (also those not modelled, with the reason),
the hazards at the lines where they bite, runs, mutants, theorems, and the
source lines of every definition. Each property has a mutant: the operators
introduced as plausible slips (a dropped guard, a forgotten reset, ...), put in
the place of the definition they are named after, break it.

## The modules of the application

### Pool, Lending, SQLiteHelper

`Pool` is the monitor: each synchronized method is a step, and `wait()` splits
`use()` into `Block` and `Rescan`. Handles are numbers in order of creation, so
the list is `1..lists`. The limit is MaxSize + 1 because `use()` tests
`lists.size() <= maxSize` (Pool.java:40); with the helper's 8 there are 9
handles. `WakeAnyway` is an interrupt or spurious wake-up, after which `use()`
may return null (place "null"). `MaxHeld` is the nesting of reads (a query
inside an open cursor in `BusinessBaseDao`).

`SQLiteHelper` extends `Pool` with the helper's own monitor (`owner`), which the
caller of `use()` keeps while it waits, and with writers. A step of the pool is
possible only for whom the monitor is free or his own. `WaitIsSound` says that
a waiting reader owns the monitor, is alone, and waits only with all MaxSize + 1
handles lent.

`Lending` is what a pool promises: a loan starts for a thing nobody has.
`LendingSpec` (Pool implements Lending, a loan is an element of `held`) is
checked and proved.

### PushConnection

State: the manager's flag `stoped`; `th[c]`, where each connection thread is;
`forceExit` (stored; TRUE while a user is logged in, in spite of its name); the
screen; the service, its `notificationManager` (`nm`), receiver registrations
(`regs`) and the deliveries of a broadcast that are still to come; the static
host name, which is lost with the process, and whether the manager's `url` has
it. Actions are the manager's `start`, `run`, `connectServer` (begin, answer,
end), the service's `onStart`, `onReceive`, `onDestroy`, the handling of a
CLIENT_OFFLINE packet, login, automatic login, logout, the dialog of a kicked
user, and `Kill`. `forceExit` survives `Kill`, and a running service returns
as "sticky".

Observed and in the model, but contradicting no text of the repository, hence
without a run: a silently lost connection is never noticed (the read timeout is
Integer.MAX_VALUE; `Cut`); a thread past its login check connects after a
logout's `stop()`; a kick read by an old reader during the next login clears the
new login's flag; the polling alarm is cancelled with another kind of intent
than it was set with, so `alarm` never becomes FALSE.

### PushStream, Delivery

The text is an array of positions, four to a message (two halves of its JSON,
two of its marker), so that every place where a chunk can be cut inside a word
is one of them. `msg` holds the positions `lo .. hi - 1` less the whole markers.
`Delivery` is an ordered channel that may leave messages out; `InOrder` says
that the loop implements it.

The loop removes markers instead of splitting at them. When two messages come
in one chunk the text is never one JSON value again and nothing is delivered
until the connection breaks. Therefore `DeliversAll` is stated for a server
that waits for the client between messages (`OneAtATime`) on a connection nobody
stops.

### Chat

A message has a status in the table and one in the bean of each load of the
chat. `OpenChat` turns what is under way into a failure and reads the table,
`DrawRow` starts a task for a row that is under way, tasks of a process run one
after the other, and a task looks at its bean before it posts. Posting, the
answer, the upload with its three callbacks and the loop that waits for
`fileSend` are steps; the loop may never see the field change (a data race), and
an upload without a network is dropped without an answer: both leave the task
`Stuck`, and with it the one thread all of them share. `Kill` drops everything
but the table. `excused` names the messages whose task outlives its load of the
chat or is sent again out of date; `StatusIsTrue` and `AnsweredOnce` except them
only where they say so.

Seen beside the model: the row of a voice message has no sign for
file_send_fail (ChatListTypeAdapter.java:770-772 tests the other failure
twice); a failed location is never sent again (ChatActivity.java:1525-1577);
the text of an error does not leave HJWebSocketManager (196, 245: assigned to a
parameter).

### Contacts

Tables: `contact[p]` (flag of the row of ctlm1355, 'Y' friend, 'N' known),
`temp[p]` (row of ctlm13550: who asked, open or granted), `chat[p]` (there is a
message). Every DAO call is a transaction and one step, a record `[op, who,
val]`; what a handler or posted task does is a sequence of steps, and steps of
other threads come between. Actors:

- the server and the peers: `rel[p]`, and `inbox`, the packets not yet
  acknowledged; external, from the packets the client handles;
- the main thread: `Receive` decides from the tables what a packet leads to
  (`Todo`, as the handler reads before it writes), `MainWrites` does it,
  `AckArrives`/`AckLost` is the response. A response that comes after the next
  packet was taken counts as lost: then, too, the packet is handled once more if
  a new connection sends it again. Branches that return before the response
  end in the step "return";
- the worker: `Post`, `WorkerWrites`;
- the activities' threads: `call[t]`, begun with what the screen showed,
  answered by the server (`Answer`), finished (`Complete`) by writing at once or
  by posting. "accept" is the list of requests, "card" and "request" are the
  three screens with the card of a person, "contacts" and "members" the two
  halves of a refresh that write this table, "look" the card of a friend;
- `End`: the process dies. The tables stay, the rest is lost. A lost answer of
  "accept", "request" and "remove" is an `End`, because these activities
  dereference the missing answer (`NoAnswer`).

`setContactFlag` reads the row and replaces it in two transactions; rows are
never deleted, so it acts as one step at the first (no row) or the second (a
row). For a person without a row it also writes a row without id, which names
nobody and is left out.

The ghost variables `past` (the closest the two have ever been) and `withdrawn`
(a request was deleted while its sender was no contact) are written only.

## The modules of the forms

### WebBridge, MessageFifo

Page side: `Exec` with `callbackFromNative` and the message loop, whose next
message waits in `ticks`. Application side: `queue`, the UI thread's runnables
(`ui`), the paused state while an exec pops messages, and the online-event mode:
`net` is the WebView's state, `online` what the application will set, `events`
what the WebView has yet to fire. Answers come from `work`, in any order and
through whatever callback `context` holds then. `Reload` replaces the page;
callback ids go on, as the random start of ids makes them. `MessageFifo` is an
ordered channel that a page load empties; `InOrder` shows that queue, batches
and polls implement it. `overtaken` names one race: a message is announced
before the page has seen the event of a reset; from then on the value to set and
the WebView's may be the same, setting it fires no event, and a message may wait
for the next exec. `ResultsArrive` excepts it.

### WebBoot

A task is an `agenda`; firing a channel or requiring a module puts what it does
in front of the rest. Timers, loading scripts, the page's events and its own
script come between tasks. A script that is missing counts as loaded
(cordova.js:1709) and makes the mapper throw: `thrown`, the exception of
`EveryListenerHears`.

### PgSqlite, PgStatements

`PgSqlite` follows a file through helpers, registry, calls and answers, for both
versions of the plugin, with `Kill` between any two steps; an open may fail.
For a file in the registry the constructor of `PGSQLitePlugin` answers itself
(pgsqliteplugin.js:266), before the helper's `db` is assigned (364): a helper's
first open of it throws, or hands the page null for a current file
(`OpenedInside`, place "empty"). No text of the repository denies it, so there is
no run. `VersionIsTrue` is the invariant a next start relies on: user_version is
1 or more only of a file whose tables have been made, and it is the helpers'
version wherever the page was told that its database is open. That the page was
also handed the database is not said. `PgStatements` is what the iPhone version makes of
insert, del, update and query: of the text it keeps the columns behind the
question marks, beside it the list of values, and it compares the table with
one that is written as the calls say (`wanted`, `due`: ghosts).

### Router

`app` is the view: the pages of the document with class and `cached`, the
histories of view and browser, the request and the animations under way, the
queue of pushState; `swipe` is the finger. A form is one choice of domCache and
pushState (`params`). Actions are opening an inline, ajax or content page, the
way back by link or by the device's button, the answer or failure of a request,
the end of an animation, the swipe and its end, the browser's traversal, and the
expiry of a cached page. `HistoryInStep` has two parts: `PagesMatchHistory` (the page
in the middle, address, history and activePage agree, and the page before lies
under it) and `BrowserInStep`. The latter is full only with domCache. A
swipe that ends over another page change leaves the pages in no order the router
knows; the model follows a run up to there (`Running`) and claims nothing of what
comes after.

### The parts of a page

`Dialogs`, `Taps`, `VirtualList`, `FormPage`, `SearchList`, `Calendar`,
`Swipeout`, `OrderList` and `PullRefresh` keep the variables of the code under
their names as far as they are control: classes are sets of strings, positions
are told apart as far as the code does, times become timers that fire at any
moment. `Selection` is what filter() keeps of an array, written as a recursive
function so that it can be proved about. A search bar compares the text of rows,
or asks the page's searchAll or searchByItem (`Kinds`). `FormPage` has the two
directions of initSmartSelects: the text beside a select from its options, or,
for a select of class smart-select-value (`kind.valued`), its options from the
text. Where the code gets something wrong that no text of the repository
denies, a variable names the case and the property excepts it:

| Module | Exception | What happens there |
|---|---|---|
| `Dialogs` | `crossed` | a popup opened again while it is being closed is hidden by the end of that closing (5598); its overlay stays over the page with nothing above it |
| `VirtualList` | `misled` | moveItem re-indexes the cache as if items only moved down (7436); replaceItem leaves the old item in a filter; scrollToItem takes an index of all items to a place beyond the end of a filtered list (7342), and no scrolling follows: the rows in view are missing |
| `Calendar` | `torn` | a turn back, or a change of the year, during a turn, and closing during one, leave wrong neighbours |
| `Swipeout` | `hurried` | a script opens a second row, or a row is taken up while it slides: the end of the earlier slide clears the later one's buttons |
| `OrderList` | `mixed` | a tab or page is changed while a load is under way: rows of two tabs in one list; two loads overlap and the first fails: the table has later orders without earlier ones, and a tab filled without a network shows the gap |
| `PullRefresh` | `rough` | a cancelled touch, a second refresh during the first, a finger that stops the slide |
| `Taps` | kinds "hasty" and "crossed" | a tap within the delay after another, or met by a late click of the browser: one click at most |
| `SearchList` | `unheard`, `newcomers`, `hasty`, `ul` "replaced" | pasted text, rows added later, old text typed again before the timer, a list the page put in the place of the first |
| `SearchList` | `stale` (`Misjudged`) | searchByItem is handed `params.items` (3313), which replaceAllItems leaves as they were (7393): rows are judged by items that are gone |
| `FormPage` | `filled`: "store", "beside", "page" | a script that fills a form sends no change event and writes no text |
| `FormPage` | `filled`: "choice", "beside" | a text of class smart-select-value is written over the choice whenever the select is set up (6820), also over the one restored from the store; a text of no option, or of several, leaves another choice than it names |

## The runs

| Run | Bounds | What it shows |
|---|---|---|
| `pool` | 4 readers, 3 handles, nesting 2 | `NoLostWakeup`, `LendingSpec`, `WaiterReturns`. Two nested readers exhaust the handles while two more wait, so competing waiters, spurious wake-ups and null results all occur |
| `helper` | the same and a writer | `WaitIsSound` |
| `helper_full` (violation) | 4 readers, 3 handles | `CanBeReleased`: one reader more, and the handles can never be returned |
| `push` | 3 threads, 2 registrations | `NotStopedMeansLive`, `ConnectsAgain`. Three threads are an old, a current and a started one; two registrations give a double delivery of a broadcast |
| `push_two` (violation) | 2 threads | `OneConnection`: `start()` twice before the first thread runs |
| `push_no_host` (violation) | 2 threads | `ReconnectsUntilConnected`: a service the system restarted has no address |
| `messages` | 4 messages in; a text and a picture, 2 loads and 3 tasks out | in: `NothingVanishes`, `InOrder`, `DeliversAll` for every cut, burst, stop, revival and break. Out: `StatusIsTrue`, `AnsweredOnce`, `SendingEnds`; three tasks are two for one message and one for another, two loads give a bean no screen shows any more |
| `contacts` | 1 peer, 1 thread, 2 packets, 3 posted steps, 4 moves | `NoStrangerIsFriend`, `ChatHasContact`, `FriendIsKnown`. Four moves reach friend-removed-friend again with a stale call under way, and ask-accept-delete with a refresh at any time |
| `contacts_shift` (violation) | 2 peers, 3 moves | `OnlyAgreedAreFriends`: accepting one makes a friend of another |
| `web` | see below | 11 properties of the script side of a form |
| `web_mixup` (violation) | 2 calls | `ResultsGoHome`: the answer to the first call goes to the callback of the second |
| `page` | see below | 12 properties of what the pages show |

Modules `MCMessages`, `MCWeb` and `MCPage` put parts that share no state side by
side: a behaviour is one of any of them, named by `part`, and the others stand
still in one state. So a run of them is as many separate checks.

`web`: the bridge with 3 calls, 2 page loads and batches of one message (so that
"more to come", a message during an exec and an answer after a load all occur);
the start with 2 plugins and 2 listeners of the back button; a database of
version 3 (one older version is created anew, one updated) with 2 helpers, 3
openings and a kill; 2 statements on a table of 2 columns and 2 values, alone or
in a transaction; the router with the first page, one inline, one ajax and
content pages, histories of 3 (a page in the middle, one under it, one below).
Properties: `OneResultPerCall`, `InOrder`, `ResultsArrive`, `ReadyMeansReady`,
`EveryListenerHears`, `BackButtonOverride`, `VersionIsTrue`, `TableAsAsked`,
`HistoryInStep`, `PageChangeEnds`, and the type invariant.

`page`: 2 alerts, a preloader, 2 popups and a popover; one element of each kind
to tap and two inputs; a list of up to 4 items two screens long with 2 changes;
a select of 2 options, a check box and a text (with a select that is set up from
its text the document gives the others nothing, and its one choice is
overwritten before anything reads it); a row and 2 queries; a calendar of two
years, opened at a year's first month, with 2 slides or choices; 2 rows that
swipe and 3 swipes; 3 orders over 2 dates and 2 tabs, sent one at a time, in 4
loads (the fourth is the first that can meet a table with a gap; a list that is
`mixed` is not followed further); 4 pulls. Properties: one or two for each part
(`OneDialogAtATime` and `CoveredForAReason`, `TapMeansClick`, `RowsShowItems`,
`ChoiceShown` and `FormReturns`, `ResultsMatch`, `CalendarIsTrue`,
`OpenRowIsKnown`, `OrdersWithoutGap`, `PullSettles`) and the type invariant.

Deadlock is checked where the system cannot stop (`helper`, `contacts`). The
pool alone stops when nested readers all wait, the push connection when nobody
logs in and every bound is used up, and messages, forms and pages when the bounds
on calls, loads and changes are used up: these runs do not check it.

Constants named `Max...` are bounds of the models, as are `Conns` and the sets of
threads, helpers and messages; the code has none of them. The exceptions are
`MaxSize` and `MaxHeld`, `MinDay` and `MaxDay` (parameters of a calendar), and
`BatchSize`, which stands for MAX_PAYLOAD_SIZE. `Far` is how many months from
today the days given to a calendar may lie, any number: it and `MaxTurns` say
which months need a grid (`Reach`).

### Fairness

- Pool and helper: a reader gives back what it holds (every DAO query does so in
  `finally`) and a thread that can run does (weak). Nothing makes anybody read.
  Java's monitors are not fair: a writer or reader gets one that stays free, and
  nothing is claimed of one that others keep taking.
- PushConnection: threads and the main thread's queue run (weak). That the
  network and the server work now and then (`SF` of `OpenOK`, `Broadcast` and
  `ReConnect`) is a premise about the world. Nothing makes users log in or out.
- PushStream: chunks arrive and the thread runs.
- Chat: a task goes on, an upload that reached the network is answered or times
  out, a callback ends what it began (weak). Nothing makes the user act, and
  nothing frees a task that is `Stuck`.
- Contacts: main thread, worker and activities run (weak); a response repeated
  for ever arrives (`SF` of `AckArrives`). That contacts are refreshed again and
  again (`onResume` of the contact screen) and that the process lives on are
  premises of `FriendIsKnown`, not fairness. Nothing else would repair a
  lost agreement.
- Bridge: the UI thread, the page's timers and the WebView's events run (weak);
  `OfBridge` and `OfBoot` restrict each condition to its part.
- WebBoot: a task runs to its end (weak). Timers fire, and scripts and the
  document load in the end or are found missing (strong: they wait while tasks
  of the page's own script run).
- Router: requests end with an answer or an error, animations and the browser's
  traversals end. `RouterFair` is weak fairness with the condition that enables
  each action written out. A finger may rest where it is.
- The page: none; its properties are invariants.

### What the violations show

1. `db/Pool.java:51`: the waiting reader owns the helper's monitor, which
   `releaseReadableDatabase` needs. With nine handles it takes ten simultaneous
   reads.
2. `HjHTTPNotificationManager.java:81`: `stoped` is FALSE only when the thread
   has reached `connectServer()`, so a second `start()` connects as well.
3. `IMChatService.java:126`: after a restart by the system there is no host, and
   reconnecting does not end.
4. `QiXinBaseDao.java:1655`: `shiftTempContactInfoById(userID)` has no WHERE.
5. `HjBusiness.java:152`: one field holds the callback of the latest call. The
   answer to an earlier asynchronous call (camera, location, download) goes to
   the later one's callback, whose own answer is then dropped.

In `Contacts` one sees besides, contradicting no text: a look-up or a refresh
under way when a removal is handled writes 'Y' again, and as refreshing only
replaces rows that ghost friend stays; a message from a friend whose row is not
yet 'Y' is acknowledged and lost; a status set to granted before the posted
shift hides the request if the process ends between.

## The proofs

| Module | Theorems | Argument |
|---|---|---|
| `DatabaseProofs` | `PoolTypeCorrect`, `PoolLendsExclusively`, `PoolMarksAccurate`, `PoolNoLostWakeup`, `PoolImplementsLending`, `FullWhenNoneFree` | `PoolInv`, the conjunction of the four invariants. Exclusive lending alone is not inductive: it needs that a handle not marked is held by nobody. Refinement: every step adds or removes one loan or none |
| `DatabaseProofs` | `HelperWaitIsSound`, `HelperLendsExclusively` | `PoolInv` with the type and `WaitIsSound`: only the owner waits, so nobody takes the handle it is woken for, and no handle is made or returned while it waits |
| `PushProofs` | `PushTypeCorrect`, `PushFlagIsBacked`, `PushReceiverScoped` | their conjunction; each way out of `connectServer` sets the flag, whoever cleared it |
| `MessagesProofs` | `StreamTypeCorrect`, `StreamNothingVanishes`, `StreamImplementsDelivery` | `StreamInv`: everything before `lo` is handled and what was handed on lies before `lo`; the first half of a message is never part of a marker, so a valid text is the only message that begins in it |
| `MessagesProofs` | `ChatStatusIsTrue`, `ChatAnsweredOnce`, `MessagesTypeCorrect` | `ChatInv`: the task that runs and the results to be saved know no more than the server; work for a bean of an earlier load is about an excused message; otherwise screen and table differ only while something is under way that will write both; and what was taken has no status from which it could be posted again |
| `ContactsProofs` | `ContactsTypeCorrect`, `ContactsNoStranger` | `ContactsInv`: rows are written from what was decided earlier, so every packet, step, list and call on its way that can make a row names people met; as the set of people met only grows, what has been collected stays good |
| `ContactsProofs` | `ChatsHaveContacts` | `ChatInv`: a chat waits in a queue only for somebody who has a row or will have one by a shift before it, and a thread that accepts somebody has read the request; rows go only with the request, which `withdrawn` notes |
| `PageProofs` | `DialogsOneAtATime`, `DialogsCoverForAReason`, `DialogsWaitOnce`, `PullComesToRest`, `SearchResultsMatch` | for the dialogs, the stack holds exactly those that wait, each once, and only while one is put up; an overlay stands on a dialog or popup that is in, and a popup that is in is displayed unless it was opened across its own closing (`crossed`). For pulls, what the classes, the finger and the awaited end say of each other. For the search bar, what is hidden belongs to the previous query, unless that was compared with items that are gone (`Misjudged`) |
| `PageProofs` | `ListWithoutGap`, `OrderTypeCorrect` | `OrderInv`: rows may come from any download under way, so the list is complete up to the date each was asked for from, and neither the phone's table nor an answer on its way has an order without the earlier ones that the list lacks. That `ByLine` can choose a sorted list is an induction on the number of orders |
| `FormProofs` | `TapsMeanClicks` | `TapInv`: while the finger is down, which variables of the fast clicks are set as long as the touch can still become a tap; afterwards, whether the one click has come or the browser has it yet |
| `FormProofs` | `SelectShowsChoice`, `StoredFormReturns`, `FormTypeCorrect` | `FormInv`: a select that takes one option has one at most in the document, in the form and in what is stored, and what is stored was stored by this form; setting up a select keeps this, whichever way it goes (`SetUpKeeps`) |
| `PageProofs` | `RowsInPlace`, `ListTypes` | `ListInv`: no two items are the same, so an item is found at its own index; a filter names items only; a cached row shows the item of its index; the rows in the document are those drawn for the last position, and the page scrolled no further from there than the buffer reaches. `Shift` moves rows the way the items move, and never onto a row that stays |
| `FormProofs` | `CalendarShowsTruth`, `CalendarTypeCorrect` | `CalendarInv`: while a slide is under way, which months will be left at its end (the last two or the first two, neighbours of each other) unless it was turned back; every month in the wrapper marks what is chosen; and no month or day is further from today than the turns so far can have led, so each has a grid. Of dates only rough bounds are needed: a year has 363 to 368 days and a month 27 to 35, from which 42 cells show every day of a month once |
| `PageProofs` | `PageTypeCorrect`, `PageIsSafe` | a behaviour of the page is one of each of its parts, so their types and invariants hold of the module that the run `page` checks |
| `FormProofs` | `OneRowOpenAndKnown`, `SwipeoutTypeCorrect` | `SwipeInv`: during a touch no other row is open; rows may not be swiped exactly while one timer runs; the end of an earlier slide does not meet a row opened since |
| `BridgeProofs` | `BridgeTypeCorrect`, `BridgeOneResultPerCall`, `BridgeEventsTellThePage`, `BridgeNoStuckMessage` | which callback each result under way belongs to and that its call is not finished otherwise; what the network state, the events and the flag for the next flush say of each other |
| `BridgeProofs` | `BridgeImplementsFifo` | refinement of `MessageFifo` by `UnderWay`: inbox and queue without the ends of batches, joined; each step appends, takes the head, or changes neither |
| `BridgeProofs` | `BackButtonIsPages` | the channel of the back button is not sticky, and override says whether it has a handler after every step of a task |
| `BridgeProofs` | `ReadyWhenTold` | `ReadyInv`: the calls that are left of a task come in an order (`After` says which kinds may follow which), so what a channel's firing waits for is either done or before it in the agenda; a join's count is never less than the calls it still awaits; plugins load only after the early part of `cordova/init` is over; and a module of the symbol list is in place or its assignment is still in front of `onCordovaReady` |
| `DatabaseProofs` | `PgVersionIsTrue` | `PgInv`: a helper that is being opened has exactly one call or answer under way, of the kind its stage says; the results in answers and registry still hold of the file; the version is written only behind a committed batch; and when a removal is among the calls nobody is further than opening |
| `DatabaseProofs` | `PgTableAsAsked` | `TableInv`: what waits in a transaction or on its way to the database is compiled from the calls it stands for, in their order. A statement does to any table what its call means (`CompiledRuns`: for-in takes every column of an object once, so by the pigeonhole principle each column has its mark), and induction along a batch keeps the rows between BEGIN and COMMIT where the calls so far want them |

The proofs hold for any sets of threads, peers, connections, messages, helpers,
dialogs, popups, rows, items, queries, elements, orders, days, values and (finite) options and
columns, any plugins, any version, and any bounds. They assume the named assumptions on the constants only
(`PoolAssumption`, `HelperAssumption`, `PushAssumption`, `StreamAssumption`,
`ChatAssumption`, `ContactsAssumption`, `BridgeAssumption`, `PluginsAssumption`
(finitely many plugins, none with the id of a module of `cordova.js`: `define`
takes an id once), `PgAssumption`, `StatementAssumption`,
`MaxClosersAssumption`, `PullAssumption`, `SearchAssumption`, `TapAssumption`,
`FormAssumption`, `SwipeoutAssumption`, `OrderAssumption`, `ListAssumption`,
`CalendarAssumption`, `ChosenAssumption`), which TLC evaluates in the runs.

Induction over numbers (`NumberInduction`) is done with a set: the numbers for
which a statement holds form a set with 0 and with every successor
(`SetInduction`, from the least number of its complement). So the recursive
definitions these proofs meet are within reach: `ResultsIn` of the bridge, the
sorting behind `ByLine`, `RunFirst` and `MeantByAll` of the statements, and
`Among` (module `Selection`), what virtual list and calendar keep of a sequence.

What the proofs taught about the models: `OrdersWithoutGap`, which TLC had
found true for two loads, does not hold for four. An earlier load fails, a
later one that overlapped it leaves its rows in the phone's table, and a tab
chosen without a network lists these. `mixed` names the case now, and the
bounds of `page` reach it. The others needed only what the code has by itself:
that "nothing" is no element and "dialog" no row, and that a select has an option.

Only model-checked:

- all liveness (`WaiterReturns`, `ConnectsAgain`, `DeliversAll`,
  `SendingEnds`, `FriendIsKnown`, `ResultsArrive`,
  `EveryListenerHears`, `PageChangeEnds`): TLAPS handles neither fairness nor
  ENABLED;
- the router: what `HistoryInStep` needs of histories, queue, requests,
  animations and swipe at once for each of its choices of parameters has not been
  found inductive;
- `WebTypeOK`, which joins the types of router and start with those proved.

## Not modelled

- Chat history: pages of ten by offset into a table that changes meanwhile. A
  row may be shown twice or skipped; no text denies it, and a property
  would have to except just what could go wrong.
- Groups: the operations the server pushes are replaced by the snapshot of the
  next refresh, as contacts are; their tables are written as in `Contacts`.
- JsonValidator's grammar: a descent over characters without state; `PushStream`
  takes from it that a text is a message when it is exactly one JSON object.
- Exceptions of SQLite (`endDMLOffTransaction` commits after them) and characters
  cut between two chunks.
- Of `framework7.js`: action sheets, panels, pickers, login screens and
  notifications, which the forms do not use; navbars and a second view;
  dynamic heights and columns of virtual lists; sortable lists; layout from
  right to left.
- Login, HTTP packets, bills and their upload, Lua forms, workflow, downloads:
  straight lines or stateless requests. Utilities, screens and adapters keep no
  state of interest; vendored libraries are third-party code. `PROJECT.json`
  has the reason for each.
