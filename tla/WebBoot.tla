------------------------------- MODULE WebBoot --------------------------------
(***************************************************************************)
(* How cordova.js starts on the page of a business form: require/define,   *)
(* the channels, cordova/init, the plugin loader, the module mapper and    *)
(* the platform's bootstrap, up to the deviceready event.                  *)
(*                                                                         *)
(* A script's task runs to its end before any other; agenda is what the    *)
(* running task still has to do, in order, and a call that fires a channel *)
(* or requires a module puts what that does in front of the rest.  Between *)
(* tasks, timers run, scripts load and the page's own script acts.  A task *)
(* that throws drops its agenda.                                           *)
(***************************************************************************)
EXTENDS Naturals, FiniteSets, SequencesExt

CONSTANTS Plugins,         \* the module ids cordova_plugins.js lists
          BackListeners    \* listeners the page has for the back button

VARIABLES chan,         \* the channels: state and handlers
          agenda,       \* what the running task still has to do
          timers,       \* functions given to setTimeout, in order
          scripts,      \* scripts injected and not loaded yet
          moduleMap,    \* ids defined
          inProgressModules,   \* ids being built
          built,        \* ids built
          scriptCounter,   \* plugin scripts still to come
          left,         \* channels each join still waits for
          symbols,      \* symbolList: modules to be mapped
          window,       \* modules found under their symbols
          hooked,       \* deviceready is a channel (addStickyDocumentEventHandler)
          secret,       \* the bridge secret is known
          readyState,   \* of the document
          domHook,      \* cordova/init listens for DOMContentLoaded
          override,     \* the application leaves the back button to the page
          listens,      \* how the page listens for deviceready
          heard,        \* times its listener was called
          constructor,  \* addConstructor's function: given, run
          thrown        \* what ended a task: "", "missing" or "cycle"

bootVars == <<chan, agenda, timers, scripts, moduleMap, inProgressModules, built,
              scriptCounter, left, symbols, window, hooked, secret, readyState, domHook,
              override, listens, heard, constructor, thrown>>

-----------------------------------------------------------------------------
(* The modules of cordova.js and what each requires when it is built. *)
Requires == [
    cordova     |-> <<"channel", "platform">>,
    channel     |-> <<"utils">>,
    platform    |-> <<>>,
    utils       |-> <<>>,
    urlutil     |-> <<>>,
    base64      |-> <<"utils">>,
    nativeapi   |-> <<"promptapi">>,
    promptapi   |-> <<>>,
    exec        |-> <<"cordova", "nativeapi", "utils", "base64", "channel">>,
    builder     |-> <<"utils">>,
    modulemapper |-> <<"builder">>,
    pluginloader |-> <<"modulemapper", "urlutil">>,
    app         |-> <<"exec", "cordova">>,
    init        |-> <<"channel", "cordova", "modulemapper", "platform", "pluginloader", "utils">>]

CoreModules == DOMAIN Requires
Modules == CoreModules \cup Plugins \cup {"plugin_list"}

\* define() takes an id once: a plugin has none of cordova.js.
ASSUME PluginsAssumption ==
    IsFiniteSet(Plugins) /\ Plugins \cap (CoreModules \cup {"plugin_list"}) = {}

(* What a module requires, plugins included. *)
RequiredBy(id) == IF id \in CoreModules THEN Requires[id] ELSE <<"exec">>

StickyChannels == {"onDOMContentLoaded", "onNativeReady", "onCordovaReady",
                   "onPluginsReady", "deviceready"}
Channels == StickyChannels \cup {"backbutton"}

Handlers == {"initStep", "readyStep", "show", "construct", "onReady"} \cup BackListeners

(* The functions a task may still have to call. *)
Do(what, on) == [do |-> what, on |-> on]
Sub(c, h) == [do |-> "subscribe", on |-> c, h |-> h]
Unsub(c, h) == [do |-> "unsubscribe", on |-> c, h |-> h]

BootTypeOK ==
    /\ \A c \in Channels : chan[c].state \in 0 .. 2 /\ ToSet(chan[c].handlers) \subseteq Handlers
    /\ \A c \in Channels : IsInjective(chan[c].handlers)
    /\ ToSet(timers) \subseteq {"loadPlugins", "deviceready"}
    /\ scripts \subseteq Modules
    /\ moduleMap \subseteq Modules
    /\ inProgressModules \subseteq moduleMap /\ built \subseteq moduleMap
    /\ scriptCounter \in 0 .. Cardinality(Plugins)
    /\ left \in [{"init", "ready"} -> 0 .. 2]
    /\ window \subseteq moduleMap
    /\ hooked \in BOOLEAN /\ secret \in BOOLEAN /\ domHook \in BOOLEAN /\ override \in BOOLEAN
    /\ readyState \in {"loading", "interactive"}
    /\ listens \in {"no", "early", "yes"}
    /\ heard \in Nat
    /\ constructor \in {"none", "given", "run"}
    /\ thrown \in {"", "missing", "cycle"}

(* channel.create and createSticky *)
NewChannel(sticky) == [state |-> IF sticky THEN 1 ELSE 0, handlers |-> <<>>]

BootInit ==
    /\ chan = [c \in Channels |-> NewChannel(c \in StickyChannels)]
    /\ agenda = <<Do("require", "cordova"), Do("require", "init")>>
    /\ timers = <<>>
    /\ scripts = {}
    /\ moduleMap = CoreModules
    /\ inProgressModules = {}
    /\ built = {}
    /\ scriptCounter = 0
    /\ left = [init |-> 0, ready |-> 0]
    /\ symbols = <<>>
    /\ window = {}
    /\ hooked = FALSE
    /\ secret = FALSE
    /\ readyState \in {"loading", "interactive"}
    /\ domHook = FALSE
    /\ override = FALSE
    /\ listens = "no"
    /\ heard = 0
    /\ constructor = "none"
    /\ thrown = ""

-----------------------------------------------------------------------------
(* Running the agenda: one step per call. *)

loaderVars == <<scripts, scriptCounter>>
moduleVars == <<moduleMap, inProgressModules, built, symbols, window>>
pageVars == <<readyState, listens, heard, constructor>>
setupVars == <<hooked, secret, domHook, left>>

Rest == Tail(agenda)
First(what) == agenda # <<>> /\ Head(agenda).do = what
Then(calls) == agenda' = calls \o Rest

Throw(why) == agenda' = <<>> /\ thrown' = why

-----------------------------------------------------------------------------
(* Plausible slips in the code below, each caught by a property. *)

(* fire() tells onHasSubscribersChange nothing, nor does unsubscribe(). *)
TellOnFirstOnly(c, n) == IF c = "backbutton" /\ n = 1 THEN override' = TRUE ELSE UNCHANGED override

(* join() waits for one channel less. *)
JoinOneLess(name, h, channels) ==
    /\ left' = [left EXCEPT ![name] = Len(channels) - 1]
    /\ Then([i \in DOMAIN channels |-> Sub(channels[i], h)])

(* fire() leaves the channel unfired. *)
FiredStaysOpen(c) == chan[c]

-----------------------------------------------------------------------------
(* onHasSubscribersChange of the back button: overrideBackbutton is given
   numHandlers == 1. *)
HasSubscribersChange(c, n) == IF c = "backbutton" THEN override' = (n = 1) ELSE UNCHANGED override

(* Channel.subscribe: a fired sticky channel calls the handler at once, and
   a handler is never there twice. *)
Subscribe ==
    /\ First("subscribe")
    /\ LET c == Head(agenda).on
           h == Head(agenda).h
           hs == chan[c].handlers
       IN  IF chan[c].state = 2
           THEN Then(<<Do("call", h)>>) /\ UNCHANGED <<chan, override>>
           ELSE IF h \in ToSet(hs)
           THEN Then(<<>>) /\ UNCHANGED <<chan, override>>
           ELSE /\ chan' = [chan EXCEPT ![c].handlers = Append(hs, h)]
                /\ Then(<<>>)
                /\ IF hs = <<>> THEN HasSubscribersChange(c, 1) ELSE UNCHANGED override
    /\ UNCHANGED <<timers, loaderVars, moduleVars, pageVars, setupVars, thrown>>

(* Channel.unsubscribe *)
Unsubscribe ==
    /\ First("unsubscribe")
    /\ LET c == Head(agenda).on
           hs == chan[c].handlers
       IN  \/ /\ Head(agenda).h \notin ToSet(hs)
              /\ UNCHANGED <<chan, override>>
           \/ \E i \in DOMAIN hs :
                 /\ hs[i] = Head(agenda).h
                 /\ chan' = [chan EXCEPT ![c].handlers = RemoveAt(hs, i)]
                 /\ IF Len(hs) = 1 THEN HasSubscribersChange(c, 0) ELSE UNCHANGED override
    /\ Then(<<>>)
    /\ UNCHANGED <<timers, loaderVars, moduleVars, pageVars, setupVars, thrown>>

(* The state fire() leaves a channel in. *)
Fired(c) == [chan[c] EXCEPT !.state = IF @ = 1 THEN 2 ELSE @]

(* Channel.fire: the handlers there are now are called in turn; a sticky
   channel then lets go of them. *)
Fire ==
    /\ First("fire")
    /\ LET c == Head(agenda).on
           hs == chan[c].handlers
       IN  /\ chan' = [chan EXCEPT ![c] = Fired(c)]
           /\ Then([i \in DOMAIN hs |-> Do("call", hs[i])]
                   \o IF hs = <<>> THEN <<>> ELSE <<Do("settle", c)>>)
    /\ UNCHANGED <<timers, loaderVars, moduleVars, pageVars, setupVars, override, thrown>>

Settle ==
    /\ First("settle")
    /\ LET c == Head(agenda).on IN
       chan' = IF chan[c].state = 2 THEN [chan EXCEPT ![c].handlers = <<>>] ELSE chan
    /\ Then(<<>>)
    /\ UNCHANGED <<timers, loaderVars, moduleVars, pageVars, setupVars, override, thrown>>

(* channel.join: h is called once for each of the channels, and does its
   work on the last call. *)
JoinChannels(name, h, channels) ==
    /\ left' = [left EXCEPT ![name] = Len(channels)]
    /\ Then([i \in DOMAIN channels |-> Sub(channels[i], h)])

-----------------------------------------------------------------------------
(* require() and define() *)

(* What cordova/init does besides requiring modules: it makes deviceready a
   channel, listens for the document, clobbers its symbols, bootstraps the
   platform, leaves the plugins to a timer and joins. *)
BodyOf(id) ==
    IF id # "init" THEN <<>>
    ELSE << Do("hook", ""), Do("require", "exec"), Do("bootstrap", ""),
            Do("defer", "loadPlugins"), Do("joinInit", "") >>

Require ==
    /\ First("require")
    /\ LET id == Head(agenda).on IN
       IF id \notin moduleMap
       THEN Throw("missing") /\ UNCHANGED <<inProgressModules, built>>
       ELSE IF id \in inProgressModules
       THEN Throw("cycle") /\ UNCHANGED <<inProgressModules, built>>
       ELSE IF id \in built
       THEN Then(<<>>) /\ UNCHANGED <<inProgressModules, built, thrown>>
       ELSE /\ inProgressModules' = inProgressModules \cup {id}
            /\ Then([i \in DOMAIN RequiredBy(id) |-> Do("require", RequiredBy(id)[i])]
                    \o BodyOf(id) \o <<Do("build", id)>>)
            /\ UNCHANGED <<built, thrown>>
    /\ UNCHANGED <<chan, timers, loaderVars, moduleMap, symbols, window, pageVars, setupVars, override>>

Build ==
    /\ First("build")
    /\ inProgressModules' = inProgressModules \ {Head(agenda).on}
    /\ built' = built \cup {Head(agenda).on}
    /\ Then(<<>>)
    /\ UNCHANGED <<chan, timers, loaderVars, moduleMap, symbols, window, pageVars, setupVars,
                   override, thrown>>

-----------------------------------------------------------------------------
(* cordova/init *)

(* The channels for document events, and the document's own event. *)
Hook ==
    /\ First("hook")
    /\ hooked' = TRUE
    /\ domHook' = (readyState = "loading")
    /\ Then(IF readyState = "loading" THEN <<>> ELSE <<Do("fire", "onDOMContentLoaded")>>)
    /\ symbols' = <<"cordova", "exec">>
    /\ UNCHANGED <<chan, timers, loaderVars, moduleMap, inProgressModules, built, window,
                   pageVars, secret, left, override, thrown>>

(* platform.bootstrap: exec.init gets the secret and fires onNativeReady. *)
Bootstrap ==
    /\ First("bootstrap")
    /\ secret' = TRUE
    /\ symbols' = Append(symbols, "app")
    /\ Then(<<Do("fire", "onNativeReady"), Sub("onCordovaReady", "show")>>)
    /\ UNCHANGED <<chan, timers, loaderVars, moduleMap, inProgressModules, built, window,
                   pageVars, hooked, domHook, left, override, thrown>>

(* setTimeout(f, 0) *)
Defer ==
    /\ First("defer")
    /\ timers' = Append(timers, Head(agenda).on)
    /\ Then(<<>>)
    /\ UNCHANGED <<chan, loaderVars, moduleVars, pageVars, setupVars, override, thrown>>

JoinInit ==
    /\ First("joinInit")
    /\ JoinChannels("init", "initStep", <<"onNativeReady", "onPluginsReady">>)
    /\ UNCHANGED <<chan, timers, loaderVars, moduleVars, pageVars, hooked, secret, domHook,
                   override, thrown>>

(* modulemapper.mapModules requires each module of symbolList and puts its
   exports under its symbol. *)
MapModules ==
    [i \in 1 .. 2 * Len(symbols) |->
        Do(IF i % 2 = 1 THEN "require" ELSE "assign", symbols[(i + 1) \div 2])]

Assign ==
    /\ First("assign")
    /\ window' = window \cup {Head(agenda).on}
    /\ Then(<<>>)
    /\ UNCHANGED <<chan, timers, loaderVars, moduleMap, inProgressModules, built, symbols,
                   pageVars, setupVars, override, thrown>>

(* The function of the first join: all objects are created, then onCordovaReady
   fires and the second join waits for deviceReadyChannelsArray. *)
InitStep ==
    /\ First("call") /\ Head(agenda).on = "initStep"
    /\ left' = [left EXCEPT !.init = @ - 1]
    /\ Then(IF left.init = 1
            THEN MapModules \o <<Do("fire", "onCordovaReady"), Do("joinReady", "")>>
            ELSE <<>>)
    /\ UNCHANGED <<chan, timers, loaderVars, moduleVars, pageVars, hooked, secret, domHook,
                   override, thrown>>

JoinReady ==
    /\ First("joinReady")
    /\ JoinChannels("ready", "readyStep", <<"onCordovaReady", "onDOMContentLoaded">>)
    /\ UNCHANGED <<chan, timers, loaderVars, moduleVars, pageVars, hooked, secret, domHook,
                   override, thrown>>

(* The function of the second join: fireDocumentEvent('deviceready'). *)
ReadyStep ==
    /\ First("call") /\ Head(agenda).on = "readyStep"
    /\ left' = [left EXCEPT !.ready = @ - 1]
    /\ Then(IF left.ready = 1 THEN <<Do("defer", "deviceready")>> ELSE <<>>)
    /\ UNCHANGED <<chan, timers, loaderVars, moduleVars, pageVars, hooked, secret, domHook,
                   override, thrown>>

(* The other handlers: show, a constructor, whose errors are caught, the
   page's own for deviceready and the back button. *)
CallHandler ==
    /\ First("call") /\ Head(agenda).on \notin {"initStep", "readyStep"}
    /\ LET h == Head(agenda).on IN
       /\ heard' = IF h = "onReady" THEN heard + 1 ELSE heard
       /\ constructor' = IF h = "construct" THEN "run" ELSE constructor
    /\ Then(<<>>)
    /\ UNCHANGED <<chan, timers, loaderVars, moduleVars, setupVars, readyState, listens,
                   override, thrown>>

-----------------------------------------------------------------------------
(* The plugin loader *)

(* injectIfNecessary for every plugin: those defined already count at once. *)
HandlePluginsObject(defined) ==
    LET missing == Plugins \ defined IN
    /\ scriptCounter' = Cardinality(missing)
    /\ scripts' = (scripts \ {"plugin_list"}) \cup missing
    /\ agenda' = IF missing = {} THEN <<Do("scriptsDone", "")>> ELSE <<>>

(* The timer of cordova/init: pluginloader.load. *)
LoadPlugins ==
    /\ agenda = <<>> /\ timers # <<>> /\ Head(timers) = "loadPlugins"
    /\ timers' = Tail(timers)
    /\ scripts' = {"plugin_list"}
    /\ UNCHANGED <<chan, agenda, scriptCounter, moduleVars, pageVars, setupVars, override, thrown>>

(* cordova_plugins.js is there, or is not: then loading is over. *)
PluginListLoaded ==
    /\ agenda = <<>> /\ "plugin_list" \in scripts
    /\ \/ /\ moduleMap' = moduleMap \cup {"plugin_list"}
          /\ HandlePluginsObject(moduleMap)
       \/ /\ scripts' = scripts \ {"plugin_list"}
          /\ agenda' = <<Do("fire", "onPluginsReady")>>
          /\ UNCHANGED <<moduleMap, scriptCounter>>
    /\ UNCHANGED <<chan, timers, inProgressModules, built, symbols, window, pageVars, setupVars,
                   override, thrown>>

(* A plugin's script has loaded, with its module defined, or has failed:
   scriptLoadedCallback either way. *)
PluginScriptLoaded(id) ==
    /\ agenda = <<>> /\ id \in scripts \ {"plugin_list"}
    /\ scripts' = scripts \ {id}
    /\ moduleMap' \in {moduleMap, moduleMap \cup {id}}
    /\ scriptCounter' = scriptCounter - 1
    /\ agenda' = IF scriptCounter = 1 THEN <<Do("scriptsDone", "")>> ELSE <<>>
    /\ UNCHANGED <<chan, timers, inProgressModules, built, symbols, window, pageVars, setupVars,
                   override, thrown>>

(* onScriptLoadingComplete: addEntry throws for a module that is not there. *)
ScriptsDone ==
    /\ First("scriptsDone")
    /\ IF Plugins \subseteq moduleMap
       THEN /\ symbols' = symbols \o SetToSeq(Plugins)
            /\ Then(<<Do("fire", "onPluginsReady")>>)
            /\ UNCHANGED thrown
       ELSE Throw("missing") /\ UNCHANGED symbols
    /\ UNCHANGED <<chan, timers, loaderVars, moduleMap, inProgressModules, built, window,
                   pageVars, setupVars, override>>

-----------------------------------------------------------------------------
(* The document and the page's script *)

DOMContentLoaded ==
    /\ agenda = <<>> /\ readyState = "loading"
    /\ readyState' = "interactive"
    /\ agenda' = IF domHook THEN <<Do("fire", "onDOMContentLoaded")>> ELSE <<>>
    /\ UNCHANGED <<chan, timers, loaderVars, moduleVars, listens, heard, constructor, setupVars,
                   override, thrown>>

(* The function fireDocumentEvent gave to setTimeout: listeners older than
   cordova.js are told by the document, the others by the channel. *)
FireDeviceReady ==
    /\ agenda = <<>> /\ timers # <<>> /\ Head(timers) = "deviceready"
    /\ timers' = Tail(timers)
    /\ agenda' = (IF listens = "early" THEN <<Do("call", "onReady")>> ELSE <<>>)
                 \o <<Do("fire", "deviceready")>>
    /\ UNCHANGED <<chan, loaderVars, moduleVars, pageVars, setupVars, override, thrown>>

(* document.addEventListener('deviceready', ...), before cordova.js ran or later *)
ListenEarly ==
    /\ listens = "no" /\ ~hooked /\ built = {} /\ inProgressModules = {}
    /\ listens' = "early"
    /\ UNCHANGED <<chan, agenda, timers, loaderVars, moduleVars, setupVars, readyState, heard,
                   constructor, override, thrown>>

Listen ==
    /\ agenda = <<>> /\ listens = "no" /\ hooked
    /\ listens' = "yes"
    /\ agenda' = <<Sub("deviceready", "onReady")>>
    /\ UNCHANGED <<chan, timers, loaderVars, moduleVars, setupVars, readyState, heard,
                   constructor, override, thrown>>

(* cordova.addConstructor *)
AddConstructor ==
    /\ agenda = <<>> /\ constructor = "none" /\ hooked
    /\ constructor' = "given"
    /\ agenda' = <<Sub("onCordovaReady", "construct")>>
    /\ UNCHANGED <<chan, timers, loaderVars, moduleVars, setupVars, readyState, listens, heard,
                   override, thrown>>

(* Listeners of the back button come and go. *)
BackListen(h) ==
    /\ agenda = <<>> /\ secret
    /\ agenda' \in {<<Sub("backbutton", h)>>, <<Unsub("backbutton", h)>>}
    /\ UNCHANGED <<chan, timers, loaderVars, moduleVars, pageVars, setupVars, override, thrown>>

-----------------------------------------------------------------------------
RunTask ==
    \/ Subscribe \/ Unsubscribe \/ Fire \/ Settle
    \/ Require \/ Build
    \/ Hook \/ Bootstrap \/ Defer \/ JoinInit \/ InitStep \/ JoinReady \/ ReadyStep \/ Assign
    \/ CallHandler \/ ScriptsDone

Loading ==
    \/ LoadPlugins \/ PluginListLoaded \/ FireDeviceReady \/ DOMContentLoaded
    \/ \E id \in Plugins : PluginScriptLoaded(id)

PageActs == ListenEarly \/ Listen \/ AddConstructor \/ \E h \in BackListeners : BackListen(h)

BootNext == RunTask \/ Loading \/ PageActs

BootSpec == BootInit /\ [][BootNext]_bootVars

(* A task runs to its end; a loader event is not put off for ever by tasks
   of the page's own script. *)
BootFairness == WF_bootVars(RunTask) /\ SF_bootVars(Loading)

BootFairSpec == BootSpec /\ BootFairness

-----------------------------------------------------------------------------
(***************************************************************************)
(* ReadyMeansReady: cordova.js:1281: deviceready is fired once the page    *)
(* has loaded, all constructors have run and the native side is ready;     *)
(* when the page's listener is called, the plugins are in place too.       *)
(***************************************************************************)
ReadyMeansReady ==
    heard > 0 =>
        /\ \A c \in StickyChannels \ {"deviceready"} : chan[c].state = 2
        /\ secret
        /\ readyState = "interactive"
        /\ scripts = {}
        /\ ToSet(symbols) \subseteq window
        /\ agenda = <<>> => constructor # "given"

(***************************************************************************)
(* EveryListenerHears: a page that listens for deviceready hears it,       *)
(* unless a plugin's script is missing: addEntry then throws, and          *)
(* onPluginsReady never fires.                                             *)
(***************************************************************************)
EveryListenerHears == listens # "no" ~> heard = 1 \/ thrown # ""

(***************************************************************************)
(* BackButtonOverride: between tasks the application leaves the back       *)
(* button to the page exactly when the page has a listener for it.         *)
(***************************************************************************)
BackButtonOverride == agenda = <<>> => (override <=> chan["backbutton"].handlers # <<>>)
==============================================================================
