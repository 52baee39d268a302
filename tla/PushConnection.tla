---------------------------- MODULE PushConnection ----------------------------
(***************************************************************************)
(* The life of the push connection: websocket/HjHTTPNotificationManager.java *)
(* driven by service/IMChatService.java and by the login and logout tasks. *)
(*                                                                         *)
(* Actors: the main thread (service callbacks, broadcast receiver, message *)
(* handler), the background login and logout tasks, and one thread per     *)
(* start() of the manager.  They share the manager's flag stoped and the   *)
(* stored flag forceExit, which is TRUE while a user is logged in (the     *)
(* name says the opposite).  A thread that was started runs only later, so *)
(* stoped still says "no connection" between start() and connectServer().  *)
(* What a connection reads is the subject of module PushStream; here a     *)
(* read only matters when it ends the thread or kicks the user out.        *)
(***************************************************************************)
EXTENDS Naturals, FiniteSets

CONSTANTS Conns,        \* connection threads alive at a time (bound)
          MaxRegs       \* registrations of the broadcast receiver (bound)

ASSUME PushAssumption == MaxRegs \in Nat

VARIABLES stoped,       \* HjHTTPNotificationManager.stoped
          th,           \* th[c]: where connection thread c is
          forceExit,    \* the stored preference: TRUE = logged in
          screen,       \* which activity the user sees
          service,      \* life of IMChatService
          nm,           \* the service's notificationManager is set
          regs,         \* times the receiver is registered
          calls,        \* deliveries of the current broadcast still to come
          stopAsked,    \* stopService() was called, onDestroy() is to come
          kicked,       \* a CLIENT_OFFLINE packet waits in the handler
          alarm,        \* the repeating alarm of PollingUtils is set
          host,         \* EapApplication.URL_SERVER_HOST_HTTP is not ""
          url           \* the manager's url names a host

vars == <<stoped, th, forceExit, screen, service, nm, regs, calls, stopAsked,
          kicked, alarm, host, url>>

connVars == <<stoped, th, url>>
appVars == <<forceExit, screen, host>>
serviceVars == <<service, nm, regs, calls, stopAsked, alarm>>

(***************************************************************************)
(* "none"     no thread                                                    *)
(* "new"      start() created it; run() has not begun                      *)
(* "init"     it saw a logged-in user and prepares its HTTP client         *)
(* "opening"  in connectServer(), waiting for the response                 *)
(* "doomed"   in connectServer(), its URL names no host                    *)
(* "reading"  in the read loop                                             *)
(* "dead"     in read() on a connection the server no longer knows         *)
(***************************************************************************)
Place == {"none", "new", "init", "opening", "doomed", "reading", "dead"}

Screens == {"login", "loading", "main", "leaving", "kickedOut"}

TypeOK ==
    /\ stoped \in BOOLEAN
    /\ th \in [Conns -> Place]
    /\ forceExit \in BOOLEAN
    /\ screen \in Screens
    /\ service \in {"absent", "running", "sticky"}
    /\ nm \in BOOLEAN
    /\ regs \in 0 .. MaxRegs
    /\ calls \in 0 .. regs
    /\ stopAsked \in BOOLEAN
    /\ kicked \in BOOLEAN
    /\ alarm \in BOOLEAN
    /\ host \in BOOLEAN
    /\ url \in BOOLEAN

Init ==
    /\ stoped = TRUE
    /\ th = [c \in Conns |-> "none"]
    /\ forceExit = FALSE
    /\ screen = "login"
    /\ service = "absent"
    /\ nm = FALSE
    /\ regs = 0
    /\ calls = 0
    /\ stopAsked = FALSE
    /\ kicked = FALSE
    /\ alarm = FALSE
    /\ host = FALSE
    /\ url = FALSE

InConnectServer(c) == th[c] \in {"opening", "doomed", "reading", "dead"}

-----------------------------------------------------------------------------
(* Plausible slips in the code below, each caught by a property. *)

EndForgetsFlag(c) ==
    /\ th' = [th EXCEPT ![c] = "none"]
    /\ UNCHANGED <<stoped, url>>

StartNeverAgain ==
    UNCHANGED <<stoped, th>>

OnDestroyKeepsReceiver ==
    /\ stopAsked /\ service = "running"
    /\ stoped' = (stoped \/ nm)
    /\ service' = "absent"
    /\ nm' = FALSE
    /\ stopAsked' = FALSE
    /\ UNCHANGED <<th, url, appVars, kicked, alarm, regs, calls>>

OnDestroyKeepsCalls ==
    /\ stopAsked /\ service = "running"
    /\ stoped' = (stoped \/ nm)
    /\ service' = "absent"
    /\ nm' = FALSE
    /\ regs' = 0
    /\ stopAsked' = FALSE
    /\ UNCHANGED <<th, url, appVars, kicked, alarm, calls>>

-----------------------------------------------------------------------------
(* HjHTTPNotificationManager *)

(* start(): a new thread, unless the flag says a connection is there. *)
Start ==
    \/ /\ stoped
       /\ \E c \in Conns : th[c] = "none" /\ th' = [th EXCEPT ![c] = "new"]
       /\ UNCHANGED stoped
    \/ /\ ~stoped
       /\ UNCHANGED <<stoped, th>>

(* run(): only a logged-in user gets a connection. *)
CheckLogin(c) ==
    /\ th[c] = "new"
    /\ th' = [th EXCEPT ![c] = IF forceExit THEN "init" ELSE "none"]
    /\ UNCHANGED <<stoped, url, appVars, serviceVars, kicked>>

(* connectServer() begins, and only now the flag changes. *)
Connect(c) ==
    /\ th[c] = "init"
    /\ th' = [th EXCEPT ![c] = IF url THEN "opening" ELSE "doomed"]
    /\ stoped' = FALSE
    /\ UNCHANGED <<url, appVars, serviceVars, kicked>>

(* The server answers 200. *)
OpenOK(c) ==
    /\ th[c] = "opening"
    /\ th' = [th EXCEPT ![c] = "reading"]
    /\ UNCHANGED <<stoped, url, appVars, serviceVars, kicked>>

(* Every way out of connectServer() sets the flag, whoever set it last. *)
End(c) ==
    /\ th' = [th EXCEPT ![c] = "none"]
    /\ stoped' = TRUE
    /\ UNCHANGED url

(* Another status, or an exception: errorResponse() reports it and stops. *)
OpenFail(c) ==
    /\ th[c] \in {"opening", "doomed"}
    /\ End(c)
    /\ UNCHANGED <<appVars, serviceVars, kicked>>

(* End of stream, "logout", an exception, or data read while stoped. *)
ReadEnds(c) ==
    /\ th[c] = "reading"
    /\ End(c)
    /\ UNCHANGED <<appVars, serviceVars, kicked>>

(* A CLIENT_OFFLINE packet is read and posted to the main thread. *)
ReadKick(c) ==
    /\ th[c] = "reading" /\ ~stoped /\ ~kicked
    /\ kicked' = TRUE
    /\ UNCHANGED <<connVars, appVars, serviceVars>>

(* The network drops the connection and nobody tells the client: the read *)
(* has a timeout of Integer.MAX_VALUE ms.                                  *)
Cut(c) ==
    /\ th[c] = "reading"
    /\ th' = [th EXCEPT ![c] = "dead"]
    /\ UNCHANGED <<stoped, url, appVars, serviceVars, kicked>>

-----------------------------------------------------------------------------
(* IMChatService, on the main thread *)

(* initChatManager(): with nobody logged in nothing; with a connection     *)
(* only nm; otherwise it takes the server's address and starts.            *)
InitChatManager ==
    IF ~forceExit
    THEN UNCHANGED <<nm, stoped, th, url>>
    ELSE /\ nm' = TRUE
         /\ url' = IF stoped THEN host ELSE url
         /\ Start

(* onStart(), called by MainActivity or by the system: initChatManager(),  *)
(* one more registration of the receiver, and the alarm.                   *)
OnStart ==
    /\ screen = "main" \/ service = "sticky"
    /\ ~stopAsked
    /\ regs < MaxRegs
    /\ service' = "running"
    /\ InitChatManager
    /\ regs' = regs + 1
    /\ alarm' = TRUE
    /\ UNCHANGED <<appVars, calls, stopAsked, kicked>>

(* A connectivity or screen-on broadcast, delivered once per registration. *)
Broadcast ==
    /\ calls = 0 /\ regs > 0
    /\ calls' = regs
    /\ UNCHANGED <<connVars, appVars, service, nm, regs, stopAsked, kicked, alarm>>

(* onReceive() with a network: reConnect() starts the manager if stoped. *)
ReConnect ==
    /\ calls > 0
    /\ calls' = calls - 1
    /\ Start
    /\ UNCHANGED <<url, appVars, service, nm, regs, stopAsked, kicked, alarm>>

(* onReceive() without a network only shows a toast. *)
NoNetwork ==
    /\ calls > 0
    /\ calls' = calls - 1
    /\ UNCHANGED <<connVars, appVars, service, nm, regs, stopAsked, kicked, alarm>>

(* onDestroy(): stop() and stopPollingService() only if nm is set; the     *)
(* latter cancels an intent the alarm does not use, so alarm keeps its     *)
(* value.                                                                  *)
OnDestroy ==
    /\ stopAsked /\ service = "running"
    /\ stoped' = (stoped \/ nm)
    /\ service' = "absent"
    /\ nm' = FALSE
    /\ regs' = 0
    /\ calls' = 0
    /\ stopAsked' = FALSE
    /\ UNCHANGED <<th, url, appVars, kicked, alarm>>

(* Context.stopService(): onDestroy() will follow, or no restart. *)
StopService ==
    /\ stopAsked' = (service = "running")
    /\ service' = IF service = "sticky" THEN "absent" ELSE service

(* processPacketIQ() of CLIENT_OFFLINE.  The main thread's queue is first  *)
(* in first out; here the kick may also be overtaken by later clicks.      *)
HandleKick ==
    /\ kicked
    /\ kicked' = FALSE
    /\ forceExit' = FALSE
    /\ StopService
    /\ screen' = IF screen = "main" THEN "kickedOut" ELSE screen
    /\ UNCHANGED <<connVars, host, nm, regs, calls, alarm>>

-----------------------------------------------------------------------------
(* Login, logout, and the process *)

(* The login button sets the server's address; LoginTask.login(): the      *)
(* server accepted the user.                                               *)
LoginAccepted ==
    /\ screen = "login"
    /\ host' = TRUE
    /\ forceExit' = TRUE
    /\ screen' = "loading"
    /\ UNCHANGED <<connVars, serviceVars, kicked>>

(* The rest of the login succeeded: MainActivity. *)
LoginDone ==
    /\ screen = "loading"
    /\ screen' = "main"
    /\ UNCHANGED <<forceExit, host, connVars, serviceVars, kicked>>

(* A later request of the login failed: the flag stays. *)
LoginFailed ==
    /\ screen = "loading"
    /\ screen' = "login"
    /\ UNCHANGED <<forceExit, host, connVars, serviceVars, kicked>>

(* LoginActivity.onCreate() with the flag set: AutoLoginTask opens         *)
(* MainActivity or shows the login form.                                   *)
AutoLogin ==
    /\ screen = "login" /\ forceExit
    /\ host' = TRUE
    /\ screen' \in {"main", "login"}
    /\ UNCHANGED <<forceExit, connVars, serviceVars, kicked>>

(* LogoutTask.logout() on its thread: stopService() comes first. *)
Logout ==
    /\ screen = "main"
    /\ screen' = "leaving"
    /\ StopService
    /\ UNCHANGED <<forceExit, host, connVars, nm, regs, calls, kicked, alarm>>

(* LogoutTask.onPostExecute(), at least a second later. *)
LogoutDone ==
    /\ screen = "leaving"
    /\ screen' = "login"
    /\ forceExit' = FALSE
    /\ UNCHANGED <<host, connVars, serviceVars, kicked>>

(* The button of the dialog that a kicked-out user sees. *)
ConfirmKick ==
    /\ screen = "kickedOut"
    /\ screen' = "login"
    /\ forceExit' = FALSE
    /\ StopService
    /\ UNCHANGED <<host, connVars, nm, regs, calls, kicked, alarm>>

(* The system kills the process; a running service is restarted later. *)
Kill ==
    /\ stoped' = TRUE
    /\ th' = [c \in Conns |-> "none"]
    /\ screen' = "login"
    /\ service' = IF service = "running" /\ ~stopAsked THEN "sticky" ELSE "absent"
    /\ nm' = FALSE
    /\ regs' = 0
    /\ calls' = 0
    /\ stopAsked' = FALSE
    /\ kicked' = FALSE
    /\ host' = FALSE
    /\ url' = FALSE
    /\ UNCHANGED <<forceExit, alarm>>

-----------------------------------------------------------------------------
ThreadStep(c) ==
    \/ CheckLogin(c)
    \/ Connect(c)
    \/ OpenOK(c)
    \/ OpenFail(c)
    \/ ReadEnds(c)
    \/ ReadKick(c)
    \/ Cut(c)

ServiceStep ==
    \/ OnStart
    \/ Broadcast
    \/ ReConnect
    \/ NoNetwork
    \/ OnDestroy
    \/ HandleKick

UserStep ==
    \/ LoginAccepted
    \/ LoginDone
    \/ LoginFailed
    \/ AutoLogin
    \/ Logout
    \/ LogoutDone
    \/ ConfirmKick
    \/ Kill

Next == (\E c \in Conns : ThreadStep(c)) \/ ServiceStep \/ UserStep

Spec == Init /\ [][Next]_vars

(***************************************************************************)
(* The phone runs started threads and the main thread's queue.  That a     *)
(* request keeps failing is excluded by strong fairness of OpenOK, and the *)
(* screen is unlocked or the network changes again and again.  Nothing     *)
(* makes users log in or out, servers close, or the system kill.           *)
(***************************************************************************)
RunsThreads ==
    \A c \in Conns : WF_vars(CheckLogin(c)) /\ WF_vars(Connect(c)) /\ WF_vars(OpenOK(c) \/ OpenFail(c))

RunsMainThread ==
    /\ WF_vars(OnDestroy) /\ WF_vars(HandleKick)
    /\ WF_vars(ReConnect \/ NoNetwork)
    /\ WF_vars(OnStart /\ (service # "running"))

GoodNetwork ==
    /\ \A c \in Conns : SF_vars(OpenOK(c))
    /\ SF_vars(Broadcast) /\ SF_vars(ReConnect)

(* The phone is scheduled, but the network promises nothing. *)
FairSpec == Spec /\ RunsThreads /\ RunsMainThread

LiveSpec == FairSpec /\ GoodNetwork

-----------------------------------------------------------------------------
(***************************************************************************)
(* NotStopedMeansLive: whenever stoped is FALSE some thread is inside      *)
(* connectServer().  start() and reConnect() trust this: with the flag     *)
(* FALSE and no thread, nothing would ever open a connection again.        *)
(***************************************************************************)
NotStopedMeansLive == ~stoped => \E c \in Conns : InConnectServer(c)

(***************************************************************************)
(* ReceiverOnlyWhileRunning: registrations of the receiver, and deliveries *)
(* to it, exist only while the service does; a destroyed service never     *)
(* reconnects.                                                             *)
(***************************************************************************)
ReceiverOnlyWhileRunning == service # "running" => regs = 0 /\ calls = 0

(***************************************************************************)
(* ConnectsAgain: as long as the user stays logged in, the service runs    *)
(* and the manager has an address, the client comes back to reading its    *)
(* push connection, whatever races happened between old and new threads.   *)
(* A connection that died without an error is excluded: nothing notices it.*)
(***************************************************************************)
Session == forceExit /\ service = "running" /\ ~stopAsked

Connected == \E c \in Conns : th[c] = "reading"

NoneDead == \A c \in Conns : th[c] # "dead"

ConnectsAgain == (<>[](Session /\ url /\ NoneDead)) => []<>Connected

(***************************************************************************)
(* OneConnection: HjHTTPNotificationManager.java:82 says of start() that a *)
(* normal connection needs no second one, so at most one thread is in      *)
(* connectServer().                                                        *)
(***************************************************************************)
OneConnection == \A c, d \in Conns : InConnectServer(c) /\ InConnectServer(d) => c = d

(***************************************************************************)
(* ReconnectsUntilConnected: IMChatService.java:756 says that reConnect()  *)
(* reconnects until it is connected.                                       *)
(***************************************************************************)
ReconnectsUntilConnected == (Session /\ NoneDead) ~> (Connected \/ ~(Session /\ NoneDead))
==============================================================================
