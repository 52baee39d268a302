------------------------------ MODULE WebBridge -------------------------------
(***************************************************************************)
(* The bridge between the page of a business form and the application.     *)
(* Page side: exec, callbackFromNative and the message loop of cordova.js. *)
(* Application side: NativeToJsMessageQueue with its online-event mode,    *)
(* CordovaBridge, CallbackContext, and the plugin HjBusiness, which keeps  *)
(* the callback of its latest call in one field.                           *)
(*                                                                         *)
(* Three threads meet here: the page's script runs one task at a time, the *)
(* UI thread runs the runnables it is given, and answers to calls come     *)
(* from any thread.  The application has no call into the page; it flips   *)
(* the WebView's "network available" state, which makes the WebView fire   *)
(* an online or offline event, on which the page polls.                    *)
(*                                                                         *)
(* Each message has a place in messagesFromNative; the batches that array  *)
(* holds are always taken apart message by message from the front, so here *)
(* it is the sequence of their messages, with More where a batch ended in  *)
(* "*".  isProcessing is TRUE only inside a step.                          *)
(***************************************************************************)
EXTENDS Naturals, Sequences, FiniteSets

CONSTANTS MaxCalls,    \* callback ids handed out (bound)
          MaxLoads,    \* times a page is loaded (bound)
          BatchSize    \* messages that fit in MAX_PAYLOAD_SIZE

ASSUME BridgeAssumption ==
    MaxCalls \in Nat /\ MaxLoads \in Nat \ {0} /\ BatchSize \in Nat \ {0}

VARIABLES load,        \* the page load this is: its bridgeSecret
          nextId,      \* cordova.callbackId
          callbacks,   \* cordova.callbacks: the ids it has an entry for
          inbox,       \* messagesFromNative
          ticks,       \* functions given to nextTick and not run yet
          jsAt,        \* where the page's script is
          enabled,     \* activeBridgeMode # null
          queue,       \* NativeToJsMessageQueue.queue
          ui,          \* "avail" runnables waiting for the UI thread
          online, ignoreNextFlush,   \* fields of OnlineEventsBridgeMode
          net,         \* the WebView's network state
          events,      \* online events under way to the page: what set net
          overtaken,   \* a message set net before the reset's event was seen
          context,     \* HjBusiness.callbackContext (0: none)
          finished,    \* callback contexts that have sent a final result
          work,        \* calls whose answer comes later
          made,        \* made[i]: the load in which id i was handed out
          got          \* the results that reached the page, in order

jsVars     == <<load, nextId, callbacks, inbox, ticks, jsAt, made, got>>
nativeVars == <<enabled, queue, ui, online, ignoreNextFlush, net, events, overtaken>>
pluginVars == <<context, finished, work>>
bridgeVars == <<jsVars, nativeVars, pluginVars>>

Ids == 1 .. MaxCalls

(* A result: the callback it goes to and the call it answers. *)
Results == [to : Ids, of : Ids]

(* The "*" at the end of a batch: more messages wait in the queue. *)
More == [to |-> 0, of |-> 0]

BridgeTypeOK ==
    /\ load \in 1 .. MaxLoads
    /\ nextId \in 1 .. (MaxCalls + 1)
    /\ callbacks \subseteq Ids
    /\ inbox \in Seq(Results \cup {More})
    /\ ticks \in Seq({"process", "poll"})
    /\ jsAt \in {"loading", "idle", "inPlugin", "popped"}
    /\ enabled \in BOOLEAN
    /\ queue \in Seq(Results)
    /\ ui \in Nat
    /\ online \in BOOLEAN /\ ignoreNextFlush \in BOOLEAN /\ net \in BOOLEAN
    /\ events \in Seq({"reset", "avail"})
    /\ overtaken \in BOOLEAN
    /\ context \in Ids \cup {0}
    /\ finished \subseteq Ids
    /\ work \subseteq Ids
    /\ made \in Seq(1 .. MaxLoads)
    /\ Len(made) = nextId - 1
    /\ got \in Seq([result : Results, load : 1 .. MaxLoads])

BridgeInit ==
    /\ load = 1
    /\ nextId = 1
    /\ callbacks = {}
    /\ inbox = <<>>
    /\ ticks = <<>>
    /\ jsAt = "loading"
    /\ enabled = FALSE
    /\ queue = <<>>
    /\ ui = 0
    /\ online = FALSE /\ ignoreNextFlush = FALSE /\ net = TRUE
    /\ events = <<>>
    /\ overtaken = FALSE
    /\ context = 0
    /\ finished = {}
    /\ work = {}
    /\ made = <<>>
    /\ got = <<>>

-----------------------------------------------------------------------------
(* Plausible slips in the code below, each caught by a property. *)

PushInFront(batch) == inbox' = batch \o inbox
KeepUnfinished == UNCHANGED finished
SilentResume == UNCHANGED ui

-----------------------------------------------------------------------------
(* The application's queue. *)

(* The messages popAndEncode takes at once ... *)
BatchLen == IF Len(queue) <= BatchSize THEN Len(queue) ELSE BatchSize

(* ... and how it ends them. *)
Encode(n) == SubSeq(queue, 1, n) \o IF n < Len(queue) THEN <<More>> ELSE <<>>

(* onNativeToJsMessageAvailable, as far as it runs at once *)
Notify(n) == ui' = ui + n

(* enqueueMessage; the page cannot be told while an exec holds paused *)
Enqueue(m) ==
    IF enabled
    THEN /\ queue' = Append(queue, m)
         /\ IF jsAt' \in {"inPlugin", "popped"} THEN UNCHANGED ui ELSE Notify(1)
    ELSE UNCHANGED <<queue, ui>>

(* notifyOfFlush *)
NotifyOfFlush(fromOnlineEvent) ==
    online' = IF fromOnlineEvent /\ ~ignoreNextFlush THEN ~online ELSE online

(* The UI thread runs the runnable of onNativeToJsMessageAvailable. *)
RunAvail ==
    /\ ui > 0
    /\ ui' = ui - 1
    /\ IF queue # <<>>
       THEN /\ ignoreNextFlush' = FALSE
            /\ net' = online
            /\ events' = IF net # online THEN Append(events, "avail") ELSE events
            /\ overtaken' = (overtaken \/ \E i \in DOMAIN events : events[i] = "reset")
       ELSE UNCHANGED <<ignoreNextFlush, net, events, overtaken>>
    /\ UNCHANGED <<jsVars, pluginVars, enabled, queue, online>>

-----------------------------------------------------------------------------
(* Loading a page. *)

(***************************************************************************)
(* androidExec.init(): the prompt gap_init sets the bridge mode, whose     *)
(* reset() makes the network available, and returns the secret.            *)
(***************************************************************************)
InitBridge ==
    /\ jsAt = "loading"
    /\ jsAt' = "idle"
    /\ enabled' = TRUE
    /\ online' = FALSE
    /\ ignoreNextFlush' = TRUE
    /\ net' = TRUE
    /\ events' = IF net THEN events ELSE Append(events, "reset")
    /\ overtaken' = FALSE
    /\ UNCHANGED <<load, nextId, callbacks, inbox, ticks, made, got, queue, ui, pluginVars>>

(* callbackId starts at a random number on every page: ids do not recur. *)
FreshIds == UNCHANGED <<nextId, made>>

(***************************************************************************)
(* Another page is loaded: CordovaBridge.reset() empties the queue and     *)
(* disables the bridge, and the script's state goes with the old page.     *)
(***************************************************************************)
Reload ==
    /\ jsAt = "idle"
    /\ load < MaxLoads
    /\ load' = load + 1
    /\ callbacks' = {}
    /\ inbox' = <<>>
    /\ ticks' = <<>>
    /\ jsAt' = "loading"
    /\ enabled' = FALSE
    /\ queue' = <<>>
    /\ events' = <<>>
    /\ FreshIds
    /\ UNCHANGED <<got, ui, online, ignoreNextFlush, net, overtaken, pluginVars>>

-----------------------------------------------------------------------------
(* The page calls the application. *)

PushBatch(batch) == inbox' = inbox \o batch

(* sendPluginResult: only the first final result of a context counts. *)
Finish == finished' = finished \cup {context'}

SendResult(call) ==
    IF context' \in finished
    THEN UNCHANGED <<finished, queue, ui>>
    ELSE /\ Finish
         /\ Enqueue([to |-> context', of |-> call])

(* The calls of hjbusiness.js and when each may be answered: before execute()
   returns, later by another thread or activity, or never. *)
RecordCalls == [onhjcapture |-> {"async"}, onhjscancode |-> {"async", "silent"},
                onhjsavectlm1347 |-> {"sync"}, onhjreadctlm1347 |-> {"sync"},
                getLocation |-> {"async"}, onhjupload |-> {"async", "silent"},
                onhjuploadctlm1347 |-> {"sync"}]

DataCalls == [hjloaddata |-> {"sync", "async"}, onhjbackmain |-> {"silent"},
              onf4scancode |-> {"silent"}, imgfilepath |-> {"sync"},
              imgalbum |-> {"async"}, delete1347 |-> {"sync"}, update1347 |-> {"sync"}]

Kinds == UNION ({RecordCalls[f] : f \in DOMAIN RecordCalls}
                \cup {DataCalls[f] : f \in DOMAIN DataCalls})

(* What the plugin does with a call while exec() waits for it. *)
Execute(id, kind) ==
    /\ context' = id
    /\ \/ kind = "sync"   /\ SendResult(id) /\ UNCHANGED work
       \/ kind = "async"  /\ work' = work \cup {id} /\ UNCHANGED <<finished, queue, ui>>
       \/ kind = "silent" /\ UNCHANGED <<work, finished, queue, ui>>

(***************************************************************************)
(* androidExec up to the end of the plugin's execute().  If the arguments  *)
(* arrived as null (lost = 1) the whole call is made again in prompt mode, *)
(* under an id of its own.                                                 *)
(***************************************************************************)
Exec(kind, lost) ==
    LET id == nextId + lost IN
    /\ jsAt = "idle"
    /\ id <= MaxCalls
    /\ nextId' = id + 1
    /\ callbacks' = callbacks \cup nextId .. id
    /\ made' = made \o [i \in 1 .. (1 + lost) |-> load]
    /\ jsAt' = "inPlugin"
    /\ Execute(id, kind)
    /\ UNCHANGED <<load, inbox, ticks, got, enabled, online, ignoreNextFlush, net, events, overtaken>>

(* popAndEncode(false) at the end of jsExec *)
ExecPop ==
    /\ jsAt = "inPlugin"
    /\ jsAt' = "popped"
    /\ NotifyOfFlush(FALSE)
    /\ IF queue = <<>>
       THEN UNCHANGED <<inbox, ticks, queue>>
       ELSE /\ PushBatch(Encode(BatchLen))
            /\ queue' = SubSeq(queue, BatchLen + 1, Len(queue))
            /\ ticks' = Append(ticks, "process")
    /\ UNCHANGED <<load, nextId, callbacks, made, got, enabled, ui, ignoreNextFlush,
                   net, events, overtaken, pluginVars>>

(* setPaused(false) tells the page of what came in meanwhile. *)
Resume == IF queue # <<>> THEN Notify(1) ELSE UNCHANGED ui

ExecReturn ==
    /\ jsAt = "popped"
    /\ jsAt' = "idle"
    /\ Resume
    /\ UNCHANGED <<load, nextId, callbacks, inbox, ticks, made, got, enabled, queue, online,
                   ignoreNextFlush, net, events, overtaken, pluginVars>>

(* The answer to an earlier call: it goes to the callback of the latest. *)
Answer(call) ==
    /\ call \in work
    /\ work' = work \ {call}
    /\ UNCHANGED <<jsVars, context>>
    /\ SendResult(call)
    /\ UNCHANGED <<enabled, online, ignoreNextFlush, net, events, overtaken>>

-----------------------------------------------------------------------------
(* The page takes its messages. *)

(***************************************************************************)
(* callbackFromNative: the entry goes once its handler has run, unless the *)
(* handler throws.  A result without an entry is ignored.                  *)
(***************************************************************************)
CallbackFromNative(m) ==
    IF m.to \in callbacks
    THEN /\ got' = Append(got, [result |-> m, load |-> load])
         /\ callbacks' \in {callbacks, callbacks \ {m.to}}
    ELSE UNCHANGED <<got, callbacks>>

(* processMessages, with box what messagesFromNative holds; later are the
   functions that wait behind it. *)
ProcessMessages(box, later) ==
    IF box = <<>>
    THEN inbox' = box /\ ticks' = later /\ UNCHANGED <<got, callbacks>>
    ELSE /\ inbox' = Tail(box)
         /\ ticks' = later \o
                (IF Tail(box) # <<>> THEN <<"process">>
                 ELSE IF Head(box) = More THEN <<"poll">> ELSE <<>>)
         /\ IF Head(box) = More THEN UNCHANGED <<got, callbacks>>
                                ELSE CallbackFromNative(Head(box))

(* pollOnce *)
PollOnce(fromOnlineEvent, later) ==
    /\ NotifyOfFlush(fromOnlineEvent)
    /\ queue' = SubSeq(queue, BatchLen + 1, Len(queue))
    /\ IF queue = <<>>
       THEN ticks' = later /\ UNCHANGED <<inbox, got, callbacks>>
       ELSE ProcessMessages(inbox \o Encode(BatchLen), later)

(* A function given to nextTick runs. *)
Tick ==
    /\ jsAt = "idle"
    /\ ticks # <<>>
    /\ \/ /\ Head(ticks) = "process"
          /\ ProcessMessages(inbox, Tail(ticks))
          /\ UNCHANGED <<queue, online>>
       \/ Head(ticks) = "poll" /\ PollOnce(FALSE, Tail(ticks))
    /\ UNCHANGED <<load, nextId, jsAt, made, enabled, ui, ignoreNextFlush, net, events,
                   overtaken, pluginVars>>

(* The page hears an online or offline event: pollOnceFromOnlineEvent. *)
OnlineEvent ==
    /\ jsAt = "idle"
    /\ events # <<>>
    /\ events' = Tail(events)
    /\ PollOnce(TRUE, ticks)
    /\ UNCHANGED <<load, nextId, jsAt, made, enabled, ui, ignoreNextFlush, net, overtaken,
                   pluginVars>>

-----------------------------------------------------------------------------
BridgeNext ==
    \/ InitBridge \/ Reload
    \/ \E kind \in Kinds : \E lost \in {0, 1} : Exec(kind, lost)
    \/ ExecPop \/ ExecReturn
    \/ \E call \in Ids : Answer(call)
    \/ Tick \/ OnlineEvent
    \/ RunAvail

BridgeSpec == BridgeInit /\ [][BridgeNext]_bridgeVars

(* The threads run what they are given; no call need ever be answered. *)
BridgeFairness ==
    /\ WF_bridgeVars(InitBridge)
    /\ WF_bridgeVars(ExecPop) /\ WF_bridgeVars(ExecReturn)
    /\ WF_bridgeVars(Tick) /\ WF_bridgeVars(OnlineEvent)
    /\ WF_bridgeVars(RunAvail)

BridgeFairSpec == BridgeSpec /\ BridgeFairness

-----------------------------------------------------------------------------
(***************************************************************************)
(* OneResultPerCall: no callback of the page is called for two results,    *)
(* whichever calls of HjBusiness were answered through it, and an answer   *)
(* that comes after its page was replaced calls none of the new page.      *)
(***************************************************************************)
OneResultPerCall ==
    /\ \A i, j \in DOMAIN got : got[i].result.to = got[j].result.to => i = j
    /\ \A i \in DOMAIN got : made[got[i].result.to] = got[i].load

(***************************************************************************)
(* NoStuckMessage: a message in the application's queue will be fetched:   *)
(* the UI thread has yet to tell the page, or an event is on its way, or   *)
(* an exec is not over, or the page knows that there is more.  The one     *)
(* exception is the race described at overtaken.                           *)
(***************************************************************************)
PageKnowsOfMore ==
    \/ \E i \in DOMAIN ticks : ticks[i] = "poll"
    \/ inbox # <<>> /\ inbox[Len(inbox)] = More

NoStuckMessage ==
    enabled /\ queue # <<>> /\ ~overtaken =>
        \/ ui > 0
        \/ \E i \in DOMAIN events : events[i] = "avail"
        \/ jsAt \in {"inPlugin", "popped"}
        \/ PageKnowsOfMore

(***************************************************************************)
(* EventsTellThePage: the value the application would set next differs     *)
(* from the WebView's, so that setting it fires an event, whenever none is *)
(* under way for a message.                                                *)
(***************************************************************************)
EventsTellThePage ==
    enabled /\ ~overtaken =>
        \/ events = <<>> /\ online # net
        \/ events = <<"reset">> /\ ignoreNextFlush /\ online # net
        \/ events = <<"avail">> /\ ~ignoreNextFlush /\ online = net

(***************************************************************************)
(* InOrder: seen from the page, the two queues with batches and polls      *)
(* between them are one queue: the bridge implements MessageFifo.          *)
(***************************************************************************)
ResultsIn(box) ==   \* without the ends of batches
    LET upTo[n \in 0 .. Len(box)] ==
            IF n = 0 THEN <<>>
            ELSE IF box[n] = More THEN upTo[n - 1] ELSE Append(upTo[n - 1], box[n])
    IN  upTo[Len(box)]

UnderWay == ResultsIn(inbox) \o queue

Fifo == INSTANCE MessageFifo WITH chan <- UnderWay, page <- load, Messages <- Results

InOrder == Fifo!FifoSpec

(***************************************************************************)
(* ResultsArrive: what the application has queued for a page reaches its   *)
(* message loop.                                                           *)
(***************************************************************************)
ResultsArrive == UnderWay # <<>> ~> UnderWay = <<>> \/ overtaken

(***************************************************************************)
(* ResultsGoHome: cordova.js:872 says of an exec that its callbacks are    *)
(* called "depending upon the result of the action": of that action.       *)
(***************************************************************************)
ResultsGoHome == \A i \in DOMAIN got : got[i].result.to = got[i].result.of
==============================================================================
