--------------------------------- MODULE Chat ---------------------------------
(***************************************************************************)
(* Sending of chat messages: ChatActivity with its list, the tasks         *)
(* (reSendMsg) that drawing a row starts, and the upload of files.         *)
(*                                                                         *)
(* Every load of the chat makes a bean (ChatHisBean) per message anew; a   *)
(* task keeps the bean it was given, and writes the status of the message  *)
(* to that bean and to the table.  Android runs the tasks of a process one *)
(* after the other.  Pictures, voice messages and locations are files; the *)
(* dialog that sends a failed one again does nothing for a location, which *)
(* is left out.                                                            *)
(***************************************************************************)
EXTENDS Naturals, Sequences, FiniteSets

CONSTANTS Texts, Files, \* the messages the user may send
          MaxLoads,     \* times the chat is loaded (bound)
          MaxTasks      \* tasks that are started (bound)

Messages == Texts \cup Files
Unset == "none"

ASSUME ChatAssumption == MaxLoads \in Nat /\ MaxTasks \in Nat /\ Unset \notin Messages

VARIABLES table,        \* the status of each message in the table
          screen,       \* where ChatActivity is in its life
          load,         \* the number of the load that message_pool comes from
          bean,         \* the status in the bean of each message, by load
          tasks,        \* the tasks that wait, in order
          running,      \* the task that runs, and how far it is
          saving,       \* upload results whose saveData is to come
          dialog,       \* the bean the dialog "send again" was opened for
          received,     \* the messages the server has
          uploaded,     \* those whose file it has
          answers,      \* positive answers to each message: 0, 1, or more (2)
          excused,      \* see StatusIsTrue and AnsweredOnce
          started       \* tasks so far, for the bound

statuses == <<table, bean>>
activity == <<screen, load, dialog>>
work == <<tasks, running, saving, started>>
server == <<received, uploaded>>
history == <<answers, excused>>
chatVars == <<statuses, activity, work, server, history>>

Statuses == {"ing", "success", "fail", "file_ing", "file_success", "file_fail"}
NoTask == [m |-> Unset, g |-> 0, at |-> "idle"]
Stages == {"idle", "accepted", "refused", "file", "queued", "sent", "result",
                "unheard", "unseen"}

(* A task or a result is on its way that will write the status of m. *)
Underway(m) ==
    \/ \E i \in DOMAIN tasks : tasks[i].m = m
    \/ running.m = m
    \/ \E s \in saving : s.m = m

BeingSent(status) == status \in {"ing", "file_ing"}

(* Who waits for an upload nobody will answer, or whose loop reads an old
   fileSend, keeps the one thread there is. *)
Stuck == running.at \in {"unheard", "unseen"}

Status(m, g, s) ==
    /\ table' = [table EXCEPT ![m] = s]
    /\ bean' = [bean EXCEPT ![m][g] = s]

-----------------------------------------------------------------------------
(* Plausible slips in the code below, each caught by a property. *)

(* What is under way goes to file_send_fail with the rest. *)
FlaggedAlike(s) == IF BeingSent(s) THEN "file_fail" ELSE s

(* A task sends its message whatever its status. *)
AlwaysDue(t) == TRUE

(* The result of an upload is written to the table only when it is good. *)
SaveGood(s) ==
    /\ s \in saving /\ s.ok
    /\ saving' = saving \ {s}
    /\ Status(s.m, s.g, "file_success")
    /\ UNCHANGED <<activity, tasks, running, started, server, history>>

-----------------------------------------------------------------------------
(* ChatActivity *)

(* updateSingleChatSendFlag, updateGroupChatSendFlag *)
Flagged(s) == CASE s = "ing" -> "fail" [] s = "file_ing" -> "file_fail" [] OTHER -> s

(* onCreate: what was under way when the chat was left counts as failed. *)
OpenChat ==
    /\ screen = "closed" /\ load < MaxLoads
    /\ screen' = "created"
    /\ table' = [m \in Messages |-> Flagged(table[m])]
    /\ UNCHANGED <<bean, load, dialog, work, server, history>>

(* onResume: the pool is loaded from the table, the list made anew. *)
Resume ==
    /\ screen \in {"created", "paused"} /\ load < MaxLoads
    /\ screen' = "shown"
    /\ load' = load + 1
    /\ bean' = [m \in Messages |-> [bean[m] EXCEPT ![load + 1] = table[m]]]
    /\ excused' = excused \cup {m \in Messages : Underway(m)}
    /\ UNCHANGED <<table, dialog, work, server, answers>>

Pause ==
    /\ screen = "shown" /\ screen' = "paused"
    /\ UNCHANGED <<statuses, load, dialog, work, server, history>>

Finish ==
    /\ screen = "paused" /\ screen' = "closed"
    /\ dialog' = NoTask
    /\ UNCHANGED <<statuses, load, work, server, history>>

(* sendMsg, sendVoiceMessage, sendPicMessage, sendLocationMessage *)
SendMessage(m) ==
    /\ screen = "shown" /\ table[m] = Unset
    /\ Status(m, load, "ing")
    /\ UNCHANGED <<activity, work, server, history>>

Execute(m, g) ==
    /\ started < MaxTasks /\ started' = started + 1
    /\ tasks' = Append(tasks, [m |-> m, g |-> g])

(* getView: drawing the row of a message that is being sent sends it. *)
DrawRow(m) ==
    /\ screen = "shown" /\ BeingSent(bean[m][load])
    /\ Execute(m, load)
    /\ UNCHANGED <<statuses, activity, running, saving, server, history>>

(* The sign of a failure is tapped: showResendDialog. *)
TapFailed(m) ==
    /\ screen = "shown" /\ dialog = NoTask
    /\ bean[m][load] \in {"fail", "file_fail"}
    /\ dialog' = [m |-> m, g |-> load, at |-> "idle"]
    /\ UNCHANGED <<statuses, screen, load, work, server, history>>

Again(m, s) == IF m \in Texts \/ s = "fail" THEN "ing"
               ELSE IF s = "file_fail" THEN "file_ing" ELSE s

(* Its button, which works for a bean of an earlier load, too.  A text is sent
   anew whatever has become of it meanwhile. *)
Resend ==
    LET m == dialog.m
        g == dialog.g
        failed == bean[m][g] \in {"fail", "file_fail"}
    IN  /\ screen = "shown" /\ dialog # NoTask
        /\ dialog' = NoTask
        /\ Execute(m, g)
        /\ bean' = [bean EXCEPT ![m][g] = Again(m, @)]
        /\ excused' = IF failed /\ g = load THEN excused ELSE excused \cup {m}
        /\ UNCHANGED <<table, screen, load, running, saving, server, answers>>

CancelDialog ==
    /\ screen = "shown" /\ dialog # NoTask /\ dialog' = NoTask
    /\ UNCHANGED <<statuses, screen, load, work, server, history>>

-----------------------------------------------------------------------------
(* reSendMsg.  The process may be killed, the chat left or loaded and the
   dialog used between any two of these steps. *)

(* Whether the task has a message to send. *)
Due(t) == bean[t.m][t.g] = "ing"

At(t, place) == [m |-> t.m, g |-> t.g, at |-> place]

(* The message is posted.  It may arrive and its answer be lost. *)
PostMessage ==
    /\ running = NoTask /\ tasks # <<>> /\ Due(Head(tasks))
    /\ tasks' = Tail(tasks)
    /\ \/ /\ received' = received \cup {Head(tasks).m}
          /\ running' = At(Head(tasks), "accepted")
       \/ /\ received' \in {received, received \cup {Head(tasks).m}}
          /\ running' = At(Head(tasks), "refused")
    /\ UNCHANGED <<statuses, activity, saving, started, uploaded, history>>

(* The status of a text or file may have changed since the row was drawn. *)
NothingToPost ==
    /\ running = NoTask /\ tasks # <<>> /\ ~Due(Head(tasks))
    /\ tasks' = Tail(tasks)
    /\ running' = At(Head(tasks), "file")
    /\ UNCHANGED <<statuses, activity, saving, started, server, history>>

Accepted ==
    /\ running.at = "accepted"
    /\ LET m == running.m IN
       /\ answers' = [answers EXCEPT ![m] = IF @ = 2 THEN 2 ELSE @ + 1]
       /\ Status(m, running.g, IF m \in Texts THEN "success" ELSE "file_ing")
       /\ running' = IF m \in Texts THEN NoTask ELSE At(running, "file")
    /\ UNCHANGED <<activity, tasks, started, saving, server, excused>>

Refused ==
    /\ running.at = "refused"
    /\ Status(running.m, running.g, "fail")
    /\ running' = NoTask
    /\ UNCHANGED <<activity, tasks, started, saving, server, history>>

(* sendPic, sendAudio: the upload is queued; or there is none to be done. *)
SendFile ==
    /\ running.at = "file"
    /\ running' = IF running.m \in Files /\ bean[running.m][running.g] = "file_ing"
                  THEN At(running, "queued") ELSE NoTask
    /\ UNCHANGED <<statuses, activity, tasks, started, saving, server, history>>

(* HttpClientManager takes the upload; it drops it without a word when there
   is no network just then. *)
TakeUpload ==
    /\ running.at = "queued"
    /\ running' \in {At(running, "sent"), At(running, "unheard")}
    /\ UNCHANGED <<statuses, activity, tasks, started, saving, server, history>>

(* onProcessResult sets fileSend; saveData is its next step.  Two results of
   one outcome for one bean at once are not looked at. *)
UploadResult ==
    /\ running.at = "sent"
    /\ \E ok \in BOOLEAN :
          LET s == [m |-> running.m, g |-> running.g, ok |-> ok]
          IN  /\ s \notin saving
              /\ saving' = saving \cup {s}
              /\ \/ uploaded' = uploaded \cup {running.m}
                 \/ ~ok /\ UNCHANGED uploaded
    /\ running' = At(running, "result")
    /\ UNCHANGED <<statuses, activity, tasks, started, received, history>>

SaveResult(s) ==
    /\ s \in saving
    /\ saving' = saving \ {s}
    /\ Status(s.m, s.g, IF s.ok THEN "file_success" ELSE "file_fail")
    /\ UNCHANGED <<activity, tasks, running, started, server, history>>

(* The loop reads fileSend, a plain field another thread has written: it may
   see it, or, compiled to read it once, never. *)
SeeResult ==
    /\ running.at = "result"
    /\ running' \in {NoTask, At(running, "unseen")}
    /\ UNCHANGED <<statuses, activity, tasks, started, saving, server, history>>

-----------------------------------------------------------------------------
(* The process is killed: the table stays. *)
Kill ==
    /\ screen' = "closed" /\ dialog' = NoTask
    /\ bean' = [m \in Messages |-> [g \in 1 .. MaxLoads |-> Unset]]
    /\ tasks' = <<>> /\ running' = NoTask /\ saving' = {}
    /\ excused' = excused \cup {m \in Messages : Underway(m)}
    /\ UNCHANGED <<table, load, started, server, answers>>

ChatInit ==
    /\ table = [m \in Messages |-> Unset]
    /\ screen = "closed" /\ load = 0 /\ started = 0
    /\ bean = [m \in Messages |-> [g \in 1 .. MaxLoads |-> Unset]]
    /\ tasks = <<>> /\ running = NoTask /\ saving = {} /\ dialog = NoTask
    /\ received = {} /\ uploaded = {} /\ answers = [m \in Messages |-> 0] /\ excused = {}

SaveAny == \E s \in saving : SaveResult(s)

TaskNext ==
    \/ PostMessage \/ NothingToPost \/ Accepted \/ Refused
    \/ SendFile \/ TakeUpload \/ UploadResult \/ SeeResult

ChatNext ==
    \/ OpenChat \/ Resume \/ Pause \/ Finish
    \/ \E m \in Messages : SendMessage(m) \/ DrawRow(m) \/ TapFailed(m)
    \/ Resend \/ CancelDialog
    \/ TaskNext \/ SaveAny \/ Kill

ChatSpec == ChatInit /\ [][ChatNext]_chatVars

(* A task goes on, an upload is answered or given up after its timeout, and
   what a callback has begun it ends.  Nothing makes the user act. *)
ChatFairness == WF_chatVars(TaskNext) /\ WF_chatVars(SaveAny)

-----------------------------------------------------------------------------
ChatTypeOK ==
    /\ table \in [Messages -> Statuses \cup {Unset}]
    /\ screen \in {"closed", "created", "shown", "paused"}
    /\ load \in 0 .. MaxLoads /\ started \in 0 .. MaxTasks
    /\ bean \in [Messages -> [1 .. MaxLoads -> Statuses \cup {Unset}]]
    /\ \A i \in DOMAIN tasks : tasks[i].m \in Messages /\ tasks[i].g \in 1 .. load
    /\ running.at \in Stages
    /\ answers \in [Messages -> 0 .. 2]
    /\ excused \subseteq Messages

(***************************************************************************)
(* StatusIsTrue: a status that says the server took a message (or that its *)
(* file alone failed, so that only the file is sent again) is shown and    *)
(* stored only of messages the server has, and "file_success" only of      *)
(* files it has; and once nothing is under way the screen shows what the   *)
(* table holds, but for messages that were under way when the chat was     *)
(* loaded: their screen keeps the old status.                              *)
(***************************************************************************)
ServerHasIt(m, s) ==
    /\ s \in {"success", "file_ing", "file_success", "file_fail"} => m \in received
    /\ s = "file_success" => m \in uploaded

ScreenIsTable ==
    screen = "shown" => \A m \in Messages \ excused :
                            Underway(m) \/ bean[m][load] = table[m]

StatusIsTrue ==
    /\ \A m \in Messages : /\ ServerHasIt(m, table[m])
                           /\ \A g \in 1 .. load : ServerHasIt(m, bean[m][g])
    /\ ScreenIsTable

(***************************************************************************)
(* AnsweredOnce: however often the row of a message is drawn while it is   *)
(* sent, each time with a task of its own, the server takes the message    *)
(* with a positive answer once.  Excused are messages that were under way  *)
(* when the chat was loaded or the process killed, and those whose failure *)
(* had passed, or was an earlier load's, when the user had them sent again.*)
(***************************************************************************)
AnsweredOnce == \A m \in Messages \ excused : answers[m] <= 1

(***************************************************************************)
(* SendingEnds: a message a task was started for does not stay under way   *)
(* on the screen, but for a task that is stuck: its upload was dropped for *)
(* want of a network, or the loop never sees the result.  Such a task      *)
(* blocks every task of the process.                                       *)
(***************************************************************************)
InHand(m) == screen = "shown" /\ BeingSent(bean[m][load]) /\ Underway(m) /\ ~Stuck

SendingEnds == \A m \in Messages : InHand(m) ~> ~InHand(m)
================================================================================
