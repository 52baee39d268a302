---------------------------- MODULE MessagesProofs ----------------------------
(***************************************************************************)
(* Proofs about the messages in and out: what a push connection reads      *)
(* (PushStream), for any number of messages and any way of cutting the     *)
(* text into chunks, and what the chat sends (Chat), for any messages and  *)
(* any number of loads of the chat and of tasks.                           *)
(*                                                                         *)
(* The inductive invariant of the read loop says how far the thread has    *)
(* got: everything before lo is handled, and what was handed on lies       *)
(* before lo.                                                              *)
(***************************************************************************)
EXTENDS MCMessages, SequenceTheorems, TLAPS

Handled(m) == (\E i \in DOMAIN delivered : delivered[i] = m) \/ m \in dropped

AllHandled == \A m \in 0 .. (sent - 1) : 4 * m < lo => Handled(m)

DeliveredBefore == \A i \in DOMAIN delivered : 4 * delivered[i] < lo

StreamInv == TypeOK /\ AllHandled /\ DeliveredBefore

(***************************************************************************)
(* The first half of a message's JSON is never part of a marker, so it     *)
(* stays in the text.                                                      *)
(***************************************************************************)
LEMMA HalfStays ==
  ASSUME NEW a \in Nat, NEW b \in Nat, NEW m \in Nat, a <= 4 * m, 4 * m < b
  PROVE  4 * m \in Content(a, b)
<1>1. (4 * m) % 4 = 0
  OBVIOUS
<1> QED
  BY <1>1 DEF Content, InWholeMarker

(***************************************************************************)
(* A message handed on was not before lo, and every message that begins    *)
(* in the text is the one handed on.                                       *)
(***************************************************************************)
LEMMA OneMessageInText ==
  ASSUME TypeOK, NEW m \in Nat, Content(lo, hi) = Json(m)
  PROVE  /\ lo <= 4 * m /\ 4 * m < hi
         /\ \A n \in Nat : lo <= 4 * n /\ 4 * n < hi => n = m
<1>1. 4 * m \in Content(lo, hi)
  BY DEF Json
<1>2. lo <= 4 * m /\ 4 * m < hi
  BY <1>1 DEF Content, TypeOK
<1>3. ASSUME NEW n \in Nat, lo <= 4 * n, 4 * n < hi
      PROVE  n = m
  <2>1. 4 * n \in Json(m)
    BY <1>3, HalfStays DEF TypeOK
  <2> QED
    BY <2>1 DEF Json
<1> QED
  BY <1>2, <1>3

LEMMA StreamInitInv == Init => StreamInv
<1> SUFFICES ASSUME Init PROVE StreamInv
  OBVIOUS
<1> USE DEF Init
<1>1. bye \in BOOLEAN /\ stoped \in BOOLEAN
  BY Zenon
<1>2. /\ sent = 0 /\ lo = 0 /\ hi = 0 /\ Written = 0
      /\ place = "reading" /\ delivered = <<>> /\ dropped = {}
  BY DEF Written
<1> QED
  BY <1>1, <1>2, StreamAssumption
  DEF StreamAssumption, StreamInv, TypeOK, AllHandled, DeliveredBefore

(***************************************************************************)
(* Handing on: lo moves to hi, and whatever begins between them is handled.*)
(***************************************************************************)
LEMMA HandOnInv ==
  ASSUME StreamInv, HandOn, UNCHANGED <<sent, bye, hi, stoped>>,
         place' = "reading"
  PROVE  StreamInv'
<1> USE DEF StreamInv, AllHandled, DeliveredBefore, Handled
<1>1. /\ lo' = hi /\ sent' = sent /\ hi' = hi /\ sent \in Nat
      /\ lo \in Nat /\ hi \in Nat /\ lo <= hi
  BY DEF HandOn, TypeOK
<1>2. CASE Content(lo, hi) = {} /\ UNCHANGED <<delivered, dropped>>
  <2>1. \A n \in 0 .. (sent - 1) : 4 * n < hi => 4 * n < lo
    BY <1>1, <1>2, HalfStays DEF TypeOK
  <2>2. TypeOK'
    BY <1>1, <1>2 DEF TypeOK, Written
  <2>3. AllHandled'
    BY <1>1, <1>2, <2>1
  <2>4. DeliveredBefore'
    BY <1>1, <1>2 DEF TypeOK
  <2> QED
    BY <2>2, <2>3, <2>4
<1>3. ASSUME NEW m \in 0 .. (sent - 1), Content(lo, hi) = Json(m),
             (dropped' = dropped \cup {m} /\ delivered' = delivered)
             \/ (delivered' = Append(delivered, m) /\ dropped' = dropped)
      PROVE  StreamInv'
  <2>1. /\ lo <= 4 * m /\ 4 * m < hi
        /\ \A n \in Nat : lo <= 4 * n /\ 4 * n < hi => n = m
    <3>1. m \in Nat
      BY <1>1
    <3>2. Content(lo, hi) = Json(m)
      BY <1>3
    <3>3. TypeOK
      OBVIOUS
    <3> QED
      BY <3>1, <3>2, <3>3, OneMessageInText
  <2>2. m \in Nat /\ delivered \in Seq(Nat) /\ dropped \subseteq Nat
    BY <1>1 DEF TypeOK
  <2>3. CASE dropped' = dropped \cup {m} /\ delivered' = delivered
    <3>1. TypeOK'
      BY <1>1, <2>2, <2>3 DEF TypeOK, Written
    <3>2. AllHandled'
      BY <1>1, <2>1, <2>2, <2>3
    <3>3. DeliveredBefore'
      BY <1>1, <2>1, <2>2, <2>3
    <3> QED
      BY <3>1, <3>2, <3>3
  <2>4. CASE delivered' = Append(delivered, m) /\ dropped' = dropped
    <3>1. TypeOK'
      BY <1>1, <2>2, <2>4 DEF TypeOK, Written
    <3>2. /\ DOMAIN delivered' = 1 .. (Len(delivered) + 1)
          /\ DOMAIN delivered = 1 .. Len(delivered) /\ Len(delivered) \in Nat
          /\ delivered'[Len(delivered) + 1] = m
          /\ \A i \in 1 .. Len(delivered) : delivered'[i] = delivered[i]
      BY <2>2, <2>4
    <3>3. DeliveredBefore'
      BY <1>1, <2>1, <2>2, <3>2
    <3>4. AllHandled'
      <4> SUFFICES ASSUME NEW n \in 0 .. (sent - 1), 4 * n < hi
                   PROVE  Handled(n)'
        BY <1>1
      <4>1. CASE 4 * n < lo
        BY <4>1, <2>4, <3>2
      <4>2. CASE n = m
        BY <4>2, <3>2
      <4> QED
        BY <1>1, <2>1, <4>1, <4>2
    <3> QED
      BY <3>1, <3>3, <3>4
  <2> QED
    BY <1>3, <2>3, <2>4
<1> QED
  BY <1>2, <1>3 DEF HandOn

LEMMA StreamStepInv == StreamInv /\ [Next]_vars => StreamInv'
<1> SUFFICES ASSUME StreamInv, [Next]_vars PROVE StreamInv'
  OBVIOUS
<1> USE StreamAssumption
    DEF StreamAssumption, StreamInv, TypeOK, AllHandled, DeliveredBefore,
        Handled, Written
<1>1. CASE Send
  BY <1>1 DEF Send
<1>2. CASE SendLogout
  BY <1>2 DEF SendLogout
<1>3. CASE OthersSetStoped
  <2>1. stoped' \in BOOLEAN
    BY <1>3, Zenon DEF OthersSetStoped
  <2>2. UNCHANGED <<sent, bye, lo, hi, place, delivered, dropped>>
    BY <1>3 DEF OthersSetStoped
  <2> QED
    BY <2>1, <2>2
<1>4. CASE Read
  BY <1>4 DEF Read
<1>5. CASE TakeLogout
  BY <1>5 DEF TakeLogout
<1>6. CASE Process
  <2>1. CASE Collect
    BY <1>6, <2>1 DEF Process, Collect
  <2>2. CASE HandOn
    BY <1>6, <2>2, HandOnInv DEF Process
  <2> QED
    BY <1>6, <2>1, <2>2 DEF Process
<1>7. CASE Break
  BY <1>7 DEF Break
<1>8. CASE UNCHANGED vars
  BY <1>8 DEF vars
<1> QED
  BY <1>1, <1>2, <1>3, <1>4, <1>5, <1>6, <1>7, <1>8 DEF Next, ThreadStep

LEMMA StreamInvariant == Spec => []StreamInv
  BY StreamInitInv, StreamStepInv, PTL DEF Spec

(***************************************************************************)
(* The thread never reads beyond what was written, and msg lies within     *)
(* what was read.                                                          *)
(***************************************************************************)
THEOREM StreamTypeCorrect == Spec => []TypeOK
  BY StreamInvariant, PTL DEF StreamInv

(***************************************************************************)
(* No message that was read whole vanishes.                                *)
(***************************************************************************)
THEOREM StreamNothingVanishes == Spec => []NothingVanishes
<1>1. StreamInv => NothingVanishes
  BY DEF StreamInv, TypeOK, AllHandled, Handled, NothingVanishes
<1> QED
  BY <1>1, StreamInvariant, PTL

-----------------------------------------------------------------------------
(***************************************************************************)
(* Every step of the loop is a step of the ordered channel or a stutter.   *)
(***************************************************************************)
LEMMA StreamStepMaps == StreamInv /\ [Next]_vars => [Ordered!Next]_(Ordered!vars)
<1> SUFFICES ASSUME StreamInv, [Next]_vars
             PROVE  [Ordered!Next]_(Ordered!vars)
  OBVIOUS
<1> USE DEF Ordered!vars
<1>1. CASE Send
  BY <1>1 DEF Send, Ordered!Next, Ordered!Send
<1>2. CASE Process /\ HandOn /\ delivered' # delivered
  <2>1. PICK m \in 0 .. (sent - 1) :
           Content(lo, hi) = Json(m) /\ delivered' = Append(delivered, m)
    BY <1>2 DEF HandOn
  <2>2. m \in Nat /\ lo <= 4 * m
    BY <2>1, OneMessageInText DEF StreamInv, TypeOK
  <2>3. \A i \in DOMAIN delivered : delivered[i] < m
    BY <2>2 DEF StreamInv, TypeOK, DeliveredBefore
  <2>4. Ordered!Deliver(m)
    BY <1>2, <2>1, <2>3 DEF Ordered!Deliver, Ordered!Later, Process, StreamInv, TypeOK
  <2> QED
    BY <2>4 DEF Ordered!Next
<1>3. CASE UNCHANGED <<sent, delivered>>
  BY <1>3
<1> QED
  BY <1>1, <1>2, <1>3
  DEF Next, ThreadStep, SendLogout, OthersSetStoped, Read, TakeLogout, Process,
      Collect, Break, vars

(***************************************************************************)
(* The push connection is an ordered channel, whatever the chunks, the     *)
(* stops and the breaks: no message is handed on twice or out of order.    *)
(***************************************************************************)
THEOREM StreamImplementsDelivery == Spec => InOrder
<1>1. Init => Ordered!Init
  BY DEF Init, Ordered!Init
<1> QED
  BY <1>1, StreamInvariant, StreamStepMaps, PTL DEF InOrder, Spec, Ordered!Spec

-----------------------------------------------------------------------------
(***************************************************************************)
(* The inductive invariant.  Statuses say no more than the server has, and *)
(* so do the task that runs and the results to be saved; work for a bean   *)
(* of an earlier load is about an excused message; of the others the       *)
(* screen differs from the table only while something is under way that    *)
(* will write both; and one that was taken has no status from which it     *)
(* could be posted again, in table or bean.                                *)
(***************************************************************************)
Beans == 1 .. MaxLoads

StatusSet == Statuses \cup {Unset}

TaskSet == [m : Messages, g : Beans]

RunSet == [m : Messages, g : Beans, at : Stages \ {"idle"}]

SaveSet == [m : Messages, g : Beans, ok : BOOLEAN]

Types ==
    /\ table \in [Messages -> StatusSet]
    /\ bean \in [Messages -> [Beans -> StatusSet]]
    /\ screen \in {"closed", "created", "shown", "paused"}
    /\ load \in 0 .. MaxLoads /\ (screen = "shown" => load \in Beans)
    /\ tasks \in Seq(TaskSet)
    /\ running \in RunSet \cup {NoTask}
    /\ saving \subseteq SaveSet
    /\ dialog \in [m : Messages, g : Beans, at : {"idle"}] \cup {NoTask}
    /\ received \subseteq Messages /\ uploaded \subseteq Messages
    /\ answers \in [Messages -> 0 .. 2]
    /\ excused \subseteq Messages

(* A status says no more than the server has, and nothing of a text's file. *)
Fits(m, s) ==
    /\ ServerHasIt(m, s)
    /\ m \in Texts => s \notin {"file_ing", "file_success", "file_fail"}

StatusesFit ==
    \A m \in Messages : Fits(m, table[m]) /\ \A g \in Beans : Fits(m, bean[m][g])

(* So do the task that runs and the results that are to be saved. *)
WorkFits ==
    /\ running.at = "accepted" => running.m \in received
    /\ running.at \in {"queued", "sent"} => running.m \in received /\ running.m \notin Texts
    /\ \A s \in saving :
          s.m \in received /\ s.m \notin Texts /\ (s.ok => s.m \in uploaded)

(* Work for a bean of an earlier load is excused. *)
WorkIsOfLoad ==
    /\ \A i \in 1 .. Len(tasks) : tasks[i].g = load \/ tasks[i].m \in excused
    /\ running = NoTask \/ running.g = load \/ running.m \in excused
    /\ \A s \in saving : s.g = load \/ s.m \in excused

(* Something is under way that will write the status of m. *)
WillWrite(m) ==
    \/ \E i \in 1 .. Len(tasks) : tasks[i].m = m
    \/ running.m = m /\ running.at \in {"accepted", "refused", "queued", "sent", "unheard"}
    \/ running.m = m /\ running.at = "file" /\ bean[m][load] = "file_ing"
    \/ \E s \in saving : s.m = m

(* Only what the user had sent again differs from the table. *)
ScreenFits ==
    screen = "shown" =>
        \A m \in Messages \ excused :
            bean[m][load] = table[m] \/ (BeingSent(bean[m][load]) /\ WillWrite(m))

(* A message that was taken is not posted any more. *)
TakenStays ==
    \A m \in Messages \ excused : answers[m] >= 1 =>
        /\ answers[m] = 1
        /\ table[m] \notin {"ing", "fail", Unset}
        /\ \A g \in Beans : g = load => bean[m][g] \notin {"ing", "fail"}
        /\ ~(running.m = m /\ running.at \in {"accepted", "refused"})

ChatInv == Types /\ StatusesFit /\ WorkFits /\ WorkIsOfLoad /\ ScreenFits /\ TakenStays

-----------------------------------------------------------------------------
LEMMA ChatInvInit == ChatInit => ChatInv
<1> SUFFICES ASSUME ChatInit PROVE ChatInv
  OBVIOUS
<1>1. Types
  BY ChatAssumption DEF ChatInit, Types, Beans, StatusSet
<1>2. StatusesFit
  BY DEF ChatInit, StatusesFit, Fits, ServerHasIt, Beans, Unset
<1>3. WorkFits /\ WorkIsOfLoad /\ ScreenFits /\ TakenStays
  BY DEF ChatInit, WorkFits, WorkIsOfLoad, ScreenFits, TakenStays, NoTask
<1> QED
  BY <1>1, <1>2, <1>3 DEF ChatInv

(* The running task, and when there is none. *)
LEMMA RunningIs ==
    ASSUME Types
    PROVE  /\ running = NoTask \/ (running \in RunSet /\ running.m \in Messages
                                   /\ running.g \in Beans /\ running # NoTask)
           /\ running.at # "idle" => running \in RunSet
           /\ NoTask.at = "idle" /\ NoTask.m \notin Messages
BY ChatAssumption DEF Types, RunSet, NoTask

(* Status writes one cell of the table and one of the beans. *)
LEMMA StatusWrites ==
    ASSUME Types, NEW m \in Messages, NEW g \in Beans, NEW s \in StatusSet, Status(m, g, s)
    PROVE  /\ table' \in [Messages -> StatusSet] /\ bean' \in [Messages -> [Beans -> StatusSet]]
           /\ table'[m] = s /\ bean'[m][g] = s
           /\ \A n \in Messages : n # m => table'[n] = table[n] /\ bean'[n] = bean[n]
           /\ \A k \in Beans : k # g => bean'[m][k] = bean[m][k]
BY DEF Types, Status

(* Statuses that fit stay so as the server's sets grow. *)
LEMMA FitsGrows ==
    ASSUME NEW m, NEW s, Fits(m, s), received \subseteq received', uploaded \subseteq uploaded'
    PROVE  Fits(m, s)'
BY DEF Fits, ServerHasIt

LEMMA TasksGrow ==
    ASSUME Types, NEW m \in Messages, NEW g \in Beans, Execute(m, g)
    PROVE  /\ tasks' \in Seq(TaskSet) /\ Len(tasks') = Len(tasks) + 1 /\ Len(tasks) \in Nat
           /\ \A i \in 1 .. Len(tasks) : tasks'[i] = tasks[i] /\ i \in 1 .. Len(tasks')
           /\ tasks'[Len(tasks) + 1] = [m |-> m, g |-> g]
           /\ Len(tasks) + 1 \in 1 .. Len(tasks')
           /\ \A i \in 1 .. Len(tasks') : i \in 1 .. Len(tasks) \/ i = Len(tasks) + 1
<1>1. [m |-> m, g |-> g] \in TaskSet /\ tasks \in Seq(TaskSet)
  BY DEF Types, TaskSet
<1>2. tasks' = Append(tasks, [m |-> m, g |-> g])
  BY DEF Execute
<1> QED
  BY <1>1, <1>2, AppendProperties, LenProperties

LEMMA TasksShrink ==
    ASSUME Types, tasks # <<>>, tasks' = Tail(tasks)
    PROVE  /\ tasks' \in Seq(TaskSet) /\ Len(tasks) = Len(tasks') + 1 /\ Len(tasks') \in Nat
           /\ tasks[1] = Head(tasks) /\ Head(tasks) \in TaskSet
           /\ \A i \in 1 .. Len(tasks') : tasks'[i] = tasks[i + 1] /\ i + 1 \in 1 .. Len(tasks)
           /\ 1 \in 1 .. Len(tasks)
           /\ \A i \in 1 .. Len(tasks) : i = 1 \/ (i - 1 \in 1 .. Len(tasks') /\ tasks'[i - 1] = tasks[i])
<1>1. tasks \in Seq(TaskSet)
  BY DEF Types
<1>2. /\ tasks' \in Seq(TaskSet) /\ Len(tasks) = Len(tasks') + 1 /\ Len(tasks') \in Nat
      /\ tasks[1] = Head(tasks) /\ Head(tasks) \in TaskSet
      /\ \A i \in 1 .. Len(tasks') : tasks'[i] = tasks[i + 1]
  BY <1>1, HeadTailProperties, LenProperties, ElementOfSeq
<1> QED
  BY <1>2

-----------------------------------------------------------------------------
(* The screen. *)

LEMMA OpenChatKeepsInv == ASSUME ChatInv, OpenChat PROVE ChatInv'
<1>1. /\ screen' = "created" /\ table' = [m \in Messages |-> Flagged(table[m])]
      /\ UNCHANGED <<bean, load, dialog, tasks, running, saving, started>>
      /\ UNCHANGED <<received, uploaded, answers, excused>>
  BY DEF OpenChat, work, server, history
<1>2. \A m \in Messages : table[m] \in StatusSet /\ table'[m] = Flagged(table[m])
  BY <1>1 DEF ChatInv, Types
<1>3. \A s \in StatusSet : /\ Flagged(s) \in StatusSet
                           /\ Flagged(s) = s \/ (s = "ing" /\ Flagged(s) = "fail")
                              \/ (s = "file_ing" /\ Flagged(s) = "file_fail")
  BY DEF Flagged, StatusSet, Statuses, Unset
<1>4. Types'
  BY <1>1, <1>2, <1>3 DEF ChatInv, Types
<1>5. StatusesFit'
  BY <1>1, <1>2, <1>3 DEF ChatInv, StatusesFit, Fits, ServerHasIt
<1>6. WorkFits' /\ WorkIsOfLoad' /\ ScreenFits'
  BY <1>1 DEF ChatInv, WorkFits, WorkIsOfLoad, ScreenFits
<1>7. TakenStays'
  BY <1>1, <1>2, <1>3 DEF ChatInv, TakenStays, Unset
<1> QED
  BY <1>4, <1>5, <1>6, <1>7 DEF ChatInv

LEMMA ResumeKeepsInv == ASSUME ChatInv, Resume PROVE ChatInv'
<1>1. /\ screen' = "shown" /\ load' = load + 1 /\ load < MaxLoads
      /\ bean' = [m \in Messages |-> [bean[m] EXCEPT ![load + 1] = table[m]]]
      /\ excused' = excused \cup {m \in Messages : Underway(m)}
      /\ UNCHANGED <<table, dialog, tasks, running, saving, received, uploaded, answers>>
  BY DEF Resume, work, server
<1>2. load' \in Beans
  BY <1>1, ChatAssumption DEF ChatInv, Types, Beans
<1>3. /\ bean' \in [Messages -> [Beans -> StatusSet]]
      /\ \A m \in Messages : /\ bean'[m][load'] = table[m]
                             /\ \A g \in Beans : g # load' => bean'[m][g] = bean[m][g]
  BY <1>1, <1>2 DEF ChatInv, Types
<1>4. Types'
  BY <1>1, <1>2, <1>3, ChatAssumption DEF ChatInv, Types, Beans
<1>5. StatusesFit'
  BY <1>1, <1>2, <1>3 DEF ChatInv, StatusesFit, Fits, ServerHasIt
<1>6. WorkFits'
  BY <1>1 DEF ChatInv, WorkFits
<1>7. WorkIsOfLoad'
  <2>1. \A i \in 1 .. Len(tasks) : tasks[i].m \in Messages
    <3>1. tasks \in Seq(TaskSet)
      BY DEF ChatInv, Types
    <3>2. \A i \in 1 .. Len(tasks) : tasks[i] \in TaskSet
      BY <3>1, ElementOfSeq
    <3> QED
      BY <3>2 DEF TaskSet
  <2>2. DOMAIN tasks = 1 .. Len(tasks)
    BY LenProperties DEF ChatInv, Types
  <2>3. \A i \in 1 .. Len(tasks) : tasks[i].m \in excused'
    BY <1>1, <2>1, <2>2 DEF Underway
  <2>4. running = NoTask \/ running.m \in excused'
    BY <1>1, RunningIs DEF ChatInv, Underway
  <2>5. \A s \in saving : s.m \in excused'
    BY <1>1 DEF ChatInv, Types, SaveSet, Underway
  <2> QED
    BY <1>1, <2>3, <2>4, <2>5 DEF WorkIsOfLoad
<1>8. ScreenFits' /\ TakenStays'
  BY <1>1, <1>3 DEF ChatInv, ScreenFits, TakenStays
<1> QED
  BY <1>4, <1>5, <1>6, <1>7, <1>8 DEF ChatInv

(* What only turns the screen off or opens or closes the dialog. *)
LEMMA ScreenKeepsInv ==
    ASSUME ChatInv, Pause \/ Finish \/ CancelDialog \/ \E m \in Messages : TapFailed(m)
    PROVE  ChatInv'
<1>1. /\ UNCHANGED <<table, bean, load, tasks, running, saving, started>>
      /\ UNCHANGED <<received, uploaded, answers, excused>>
      /\ screen' = "shown" => screen = "shown"
  BY DEF Pause, Finish, CancelDialog, TapFailed, statuses, work, server, history
<1>2. Types'
  BY <1>1 DEF ChatInv, Types, Pause, Finish, CancelDialog, TapFailed
<1>3. StatusesFit' /\ WorkFits' /\ WorkIsOfLoad' /\ TakenStays'
  BY <1>1 DEF ChatInv, StatusesFit, Fits, ServerHasIt, WorkFits, WorkIsOfLoad, TakenStays
<1>4. ScreenFits'
  BY <1>1 DEF ChatInv, ScreenFits, WillWrite, BeingSent
<1> QED
  BY <1>2, <1>3, <1>4 DEF ChatInv

LEMMA SendMessageKeepsInv ==
    ASSUME ChatInv, NEW m \in Messages, SendMessage(m)
    PROVE  ChatInv'
<1>1. /\ screen = "shown" /\ table[m] = Unset /\ Status(m, load, "ing")
      /\ UNCHANGED <<screen, load, dialog, tasks, running, saving, started>>
      /\ UNCHANGED <<received, uploaded, answers, excused>>
  BY DEF SendMessage, activity, work, server, history
<1>2. load \in Beans /\ "ing" \in StatusSet /\ Types
  BY <1>1 DEF ChatInv, Types, StatusSet, Statuses
<1>3. /\ table' \in [Messages -> StatusSet] /\ bean' \in [Messages -> [Beans -> StatusSet]]
      /\ table'[m] = "ing" /\ bean'[m][load] = "ing"
      /\ \A n \in Messages : n # m => table'[n] = table[n] /\ bean'[n] = bean[n]
      /\ \A k \in Beans : k # load => bean'[m][k] = bean[m][k]
  BY <1>1, <1>2, StatusWrites
<1>4. Types'
  BY <1>1, <1>2, <1>3 DEF Types
<1>5. StatusesFit'
  BY <1>1, <1>3 DEF ChatInv, StatusesFit, Fits, ServerHasIt
<1>6. WorkFits' /\ WorkIsOfLoad'
  BY <1>1 DEF ChatInv, WorkFits, WorkIsOfLoad
<1>7. ScreenFits'
  BY <1>1, <1>3 DEF ChatInv, ScreenFits, WillWrite, BeingSent
<1>8. TakenStays'
  BY <1>1, <1>3 DEF ChatInv, TakenStays
<1> QED
  BY <1>4, <1>5, <1>6, <1>7, <1>8 DEF ChatInv

LEMMA DrawRowKeepsInv ==
    ASSUME ChatInv, NEW m \in Messages, DrawRow(m)
    PROVE  ChatInv'
<1>1. /\ screen = "shown" /\ Execute(m, load)
      /\ UNCHANGED <<table, bean, screen, load, dialog, running, saving>>
      /\ UNCHANGED <<received, uploaded, answers, excused>>
  BY DEF DrawRow, statuses, activity, server, history
<1>2. load \in Beans /\ Types
  BY <1>1 DEF ChatInv, Types
<1>3. /\ tasks' \in Seq(TaskSet)
      /\ \A i \in 1 .. Len(tasks) : tasks'[i] = tasks[i] /\ i \in 1 .. Len(tasks')
      /\ tasks'[Len(tasks) + 1] = [m |-> m, g |-> load]
      /\ \A i \in 1 .. Len(tasks') : i \in 1 .. Len(tasks) \/ i = Len(tasks) + 1
  BY <1>1, <1>2, TasksGrow
<1>4. Types'
  BY <1>1, <1>2, <1>3 DEF Types
<1>5. StatusesFit' /\ WorkFits' /\ TakenStays'
  BY <1>1 DEF ChatInv, StatusesFit, Fits, ServerHasIt, WorkFits, TakenStays
<1>6. WorkIsOfLoad'
  BY <1>1, <1>3 DEF ChatInv, WorkIsOfLoad
<1>7. ScreenFits'
  <2>1. \A n : WillWrite(n) => WillWrite(n)'
    BY <1>1, <1>3 DEF WillWrite
  <2> QED
    BY <1>1, <2>1 DEF ChatInv, ScreenFits, BeingSent
<1> QED
  BY <1>4, <1>5, <1>6, <1>7 DEF ChatInv

LEMMA ResendKeepsInv == ASSUME ChatInv, Resend PROVE ChatInv'
<1> DEFINE m == dialog.m
           g == dialog.g
           failed == bean[m][g] \in {"fail", "file_fail"}
<1>1. /\ screen = "shown" /\ dialog # NoTask /\ dialog' = NoTask /\ Execute(m, g)
      /\ bean' = [bean EXCEPT ![m][g] = Again(m, @)]
      /\ excused' = (IF failed /\ g = load THEN excused ELSE excused \cup {m})
      /\ UNCHANGED <<table, screen, load, running, saving, received, uploaded, answers>>
  BY DEF Resend, server
<1>2. load \in Beans /\ Types /\ m \in Messages /\ g \in Beans /\ bean[m][g] \in StatusSet
  BY <1>1 DEF ChatInv, Types
<1> HIDE DEF m, g
<1>3. /\ tasks' \in Seq(TaskSet)
      /\ \A i \in 1 .. Len(tasks) : tasks'[i] = tasks[i] /\ i \in 1 .. Len(tasks')
      /\ tasks'[Len(tasks) + 1] = [m |-> m, g |-> g]
      /\ Len(tasks) + 1 \in 1 .. Len(tasks')
      /\ \A i \in 1 .. Len(tasks') : i \in 1 .. Len(tasks) \/ i = Len(tasks) + 1
  BY <1>1, <1>2, TasksGrow
<1> DEFINE a == Again(m, bean[m][g])
<1>4. /\ a \in StatusSet
      /\ bean[m][g] = "fail" => a = "ing"
      /\ bean[m][g] = "file_fail" => a \in {"ing", "file_ing"}
      /\ a \in {"ing", bean[m][g]} \/ (a = "file_ing" /\ bean[m][g] = "file_fail" /\ m \notin Texts)
      /\ bean[m][g] = "file_fail" /\ m \notin Texts => a = "file_ing"
  BY <1>2 DEF Again, StatusSet, Statuses
<1>5. /\ bean' \in [Messages -> [Beans -> StatusSet]]
      /\ bean'[m][g] = a
      /\ \A n \in Messages : n # m => bean'[n] = bean[n]
      /\ \A k \in Beans : k # g => bean'[m][k] = bean[m][k]
  BY <1>1, <1>2, <1>4 DEF Types
<1> HIDE DEF a
<1>6. Types'
  BY <1>1, <1>2, <1>3, <1>5 DEF Types
<1>7. StatusesFit'
  <2>1. Fits(m, a)
    BY <1>2, <1>4 DEF ChatInv, StatusesFit, Fits, ServerHasIt
  <2> QED
    BY <1>1, <1>2, <1>5, <2>1 DEF ChatInv, StatusesFit, Fits, ServerHasIt
<1>8. WorkFits'
  BY <1>1 DEF ChatInv, WorkFits
<1>9. WorkIsOfLoad'
  BY <1>1, <1>3 DEF ChatInv, WorkIsOfLoad
<1>10. ScreenFits'
  <2> SUFFICES ASSUME NEW n \in Messages \ excused'
               PROVE  \/ bean'[n][load] = table[n]
                      \/ BeingSent(bean'[n][load]) /\ WillWrite(n)'
    BY <1>1 DEF ScreenFits, BeingSent
  <2>1. CASE n = m
    <3>1. failed /\ g = load
      BY <1>1, <2>1
    <3>2. BeingSent(bean'[n][load])
      BY <1>4, <1>5, <2>1, <3>1 DEF BeingSent
    <3>3. WillWrite(n)'
      BY <1>3, <2>1 DEF WillWrite
    <3> QED
      BY <3>2, <3>3
  <2>2. CASE n # m
    <3>1. n \in Messages \ excused /\ bean'[n] = bean[n]
      BY <1>1, <1>5, <2>2
    <3>2. WillWrite(n) => WillWrite(n)'
      BY <1>1, <1>3, <3>1 DEF WillWrite
    <3> QED
      BY <1>1, <3>1, <3>2 DEF ChatInv, ScreenFits, BeingSent
  <2> QED
    BY <2>1, <2>2
<1>11. TakenStays'
  <2> SUFFICES ASSUME NEW n \in Messages \ excused', answers[n] >= 1
               PROVE  /\ answers[n] = 1
                      /\ table[n] \notin {"ing", "fail", Unset}
                      /\ \A k \in Beans : k = load => bean'[n][k] \notin {"ing", "fail"}
                      /\ ~(running.m = n /\ running.at \in {"accepted", "refused"})
    BY <1>1 DEF TakenStays
  <2>1. n \in Messages \ excused /\ bean[n][load] \notin {"ing", "fail"}
    BY <1>1, <1>2 DEF ChatInv, TakenStays
  <2>2. CASE n = m
    <3>1. failed /\ g = load
      BY <1>1, <2>2
    <3>2. bean[m][g] = "file_fail" /\ m \notin Texts
      BY <1>2, <2>1, <2>2, <3>1 DEF ChatInv, StatusesFit, Fits
    <3> QED
      BY <1>4, <1>5, <2>1, <2>2, <3>1, <3>2 DEF ChatInv, TakenStays
  <2>3. CASE n # m
    BY <1>5, <2>1, <2>3 DEF ChatInv, TakenStays
  <2> QED
    BY <2>2, <2>3
<1> QED
  BY <1>6, <1>7, <1>8, <1>9, <1>10, <1>11 DEF ChatInv

-----------------------------------------------------------------------------
(* The tasks. *)

(***************************************************************************)
(* TakenUpKeepsInv: the first task is taken up: it has posted its message, *)
(* which was due, or goes on to the file.                                  *)
(***************************************************************************)
LEMMA TakenUpKeepsInv ==
    ASSUME ChatInv, running = NoTask, tasks # <<>>, tasks' = Tail(tasks),
           NEW spot \in {"accepted", "refused", "file"},
           running' = At(Head(tasks), spot),
           spot = "file" <=> ~Due(Head(tasks)),
           UNCHANGED <<table, bean, screen, load, dialog, saving>>,
           UNCHANGED <<uploaded, answers, excused>>,
           received \subseteq received', received' \subseteq Messages,
           spot = "accepted" => Head(tasks).m \in received'
    PROVE  ChatInv'
<1> DEFINE t == Head(tasks)
<1>1. /\ tasks' \in Seq(TaskSet) /\ t \in TaskSet /\ tasks[1] = t
      /\ \A i \in 1 .. Len(tasks') : tasks'[i] = tasks[i + 1] /\ i + 1 \in 1 .. Len(tasks)
      /\ 1 \in 1 .. Len(tasks)
      /\ \A i \in 1 .. Len(tasks) :
             i = 1 \/ (i - 1 \in 1 .. Len(tasks') /\ tasks'[i - 1] = tasks[i])
  BY TasksShrink DEF ChatInv
<1>2. /\ t.m \in Messages /\ t.g \in Beans
      /\ running' = [m |-> t.m, g |-> t.g, at |-> spot] /\ running' \in RunSet
  BY <1>1 DEF TaskSet, At, RunSet, Stages
<1>3. Due(t) <=> bean[t.m][t.g] = "ing"
  BY DEF Due
<1>4. t.g = load \/ t.m \in excused
  BY <1>1 DEF ChatInv, WorkIsOfLoad
<1> HIDE DEF t
<1>5. Types'
  BY <1>1, <1>2 DEF ChatInv, Types
<1>6. StatusesFit'
  BY DEF ChatInv, StatusesFit, Fits, ServerHasIt
<1>7. WorkFits'
  BY <1>2 DEF ChatInv, WorkFits, t
<1>8. WorkIsOfLoad'
  BY <1>1, <1>2, <1>4 DEF ChatInv, WorkIsOfLoad
<1>9. ScreenFits'
  <2> SUFFICES ASSUME screen = "shown", NEW n \in Messages \ excused,
                      bean[n][load] # table[n]
               PROVE  BeingSent(bean[n][load]) /\ WillWrite(n)'
    BY DEF ScreenFits, BeingSent
  <2>1. BeingSent(bean[n][load]) /\ WillWrite(n)
    BY DEF ChatInv, ScreenFits
  <2>2. running.m # n
    BY RunningIs DEF ChatInv
  <2>3. CASE t.m = n
    <3>1. t.g = load
      BY <1>4, <2>3
    <3>2. spot = "file" => bean[n][load] = "file_ing"
      BY <1>3, <2>1, <2>3, <3>1 DEF BeingSent, t
    <3> QED
      BY <1>2, <2>1, <2>3, <3>2 DEF WillWrite
  <2>4. CASE t.m # n
    BY <1>1, <2>1, <2>2, <2>4 DEF WillWrite
  <2> QED
    BY <2>3, <2>4
<1>10. TakenStays'
  <2> SUFFICES ASSUME NEW n \in Messages \ excused, answers[n] >= 1
               PROVE  ~(running'.m = n /\ running'.at \in {"accepted", "refused"})
    BY DEF ChatInv, TakenStays
  <2> SUFFICES ASSUME t.m = n, spot # "file" PROVE FALSE
    BY <1>2
  <2>1. t.g = load /\ bean[n][t.g] = "ing"
    BY <1>3, <1>4 DEF t
  <2> QED
    BY <1>2, <2>1 DEF ChatInv, TakenStays
<1> QED
  BY <1>5, <1>6, <1>7, <1>8, <1>9, <1>10 DEF ChatInv

LEMMA PostMessageKeepsInv ==
    ASSUME ChatInv, PostMessage \/ NothingToPost
    PROVE  ChatInv'
<1>1. /\ running = NoTask /\ tasks # <<>> /\ tasks' = Tail(tasks)
      /\ UNCHANGED <<table, bean, screen, load, dialog, saving>>
      /\ UNCHANGED <<uploaded, answers, excused>>
  BY DEF PostMessage, NothingToPost, statuses, activity, server, history
<1>2. Head(tasks).m \in Messages /\ received \subseteq Messages
  BY <1>1, TasksShrink DEF ChatInv, Types, TaskSet
<1>3. CASE PostMessage
  <2>1. /\ Due(Head(tasks))
        /\ \/ received' = received \cup {Head(tasks).m} /\ running' = At(Head(tasks), "accepted")
           \/ /\ received' \in {received, received \cup {Head(tasks).m}}
              /\ running' = At(Head(tasks), "refused")
    BY <1>3 DEF PostMessage
  <2>2. received \subseteq received' /\ received' \subseteq Messages
    BY <1>2, <2>1
  <2>3. CASE Head(tasks).m \in received' /\ running' = At(Head(tasks), "accepted")
    BY <1>1, <2>1, <2>2, <2>3, TakenUpKeepsInv
  <2>4. CASE running' = At(Head(tasks), "refused")
    BY <1>1, <2>1, <2>2, <2>4, TakenUpKeepsInv
  <2> QED
    BY <2>1, <2>3, <2>4
<1>4. CASE NothingToPost
  <2>1. /\ ~Due(Head(tasks)) /\ running' = At(Head(tasks), "file") /\ received' = received
    BY <1>4 DEF NothingToPost, server
  <2> QED
    BY <1>1, <1>2, <2>1, TakenUpKeepsInv
<1> QED
  BY <1>3, <1>4

(***************************************************************************)
(* StatusKeeps: a status is written for a bean of the load or an excused   *)
(* message, by a task that then is at the file or done, or from a result.  *)
(***************************************************************************)
LEMMA StatusKeeps ==
    ASSUME ChatInv, NEW m \in Messages, NEW g \in Beans, NEW s \in StatusSet,
           Status(m, g, s), Fits(m, s), g = load \/ m \in excused,
           UNCHANGED <<screen, load, dialog, tasks, received, uploaded, excused>>,
           answers' \in [Messages -> 0 .. 2],
           \/ running' = running
           \/ running.m = m /\ (running' = NoTask
                                \/ running' = [m |-> m, g |-> running.g, at |-> "file"]),
           saving' \subseteq saving,
           \A r \in saving : r \in saving' \/ r.m = m
    PROVE  Types' /\ StatusesFit' /\ WorkFits' /\ WorkIsOfLoad' /\ ScreenFits'
<1>1. /\ table' \in [Messages -> StatusSet] /\ bean' \in [Messages -> [Beans -> StatusSet]]
      /\ table'[m] = s /\ bean'[m][g] = s
      /\ \A n \in Messages : n # m => table'[n] = table[n] /\ bean'[n] = bean[n]
      /\ \A k \in Beans : k # g => bean'[m][k] = bean[m][k]
  BY StatusWrites DEF ChatInv
<1>2. running' # running => running \in RunSet /\ running.g \in Beans
  BY RunningIs DEF ChatInv
<1>3. Types'
  <2>1. running' \in RunSet \cup {NoTask}
    BY <1>2 DEF ChatInv, Types, RunSet, Stages
  <2> QED
    BY <1>1, <2>1 DEF ChatInv, Types
<1>4. StatusesFit'
  <2>1. ASSUME NEW n \in Messages
        PROVE  Fits(n, table'[n]) /\ \A k \in Beans : Fits(n, bean'[n][k])
    <3>1. CASE n = m
      BY <1>1, <3>1 DEF ChatInv, StatusesFit
    <3>2. CASE n # m
      BY <1>1, <3>2 DEF ChatInv, StatusesFit
    <3> QED
      BY <3>1, <3>2
  <2> QED
    BY <2>1 DEF StatusesFit, Fits, ServerHasIt
<1>5. WorkFits'
  BY DEF ChatInv, WorkFits, NoTask
<1>6. WorkIsOfLoad'
  BY <1>2, RunningIs DEF ChatInv, WorkIsOfLoad
<1>7. ScreenFits'
  <2> SUFFICES ASSUME screen = "shown", NEW n \in Messages \ excused
               PROVE  \/ bean'[n][load] = table'[n]
                      \/ BeingSent(bean'[n][load]) /\ WillWrite(n)'
    BY DEF ScreenFits, BeingSent
  <2>1. CASE n = m
    BY <1>1, <2>1
  <2>2. CASE n # m
    <3>1. WillWrite(n) => WillWrite(n)'
      BY <1>1, <2>2 DEF WillWrite
    <3> QED
      BY <1>1, <2>2, <3>1 DEF ChatInv, ScreenFits, BeingSent
  <2> QED
    BY <2>1, <2>2
<1> QED
  BY <1>3, <1>4, <1>5, <1>6, <1>7

LEMMA AcceptedKeepsInv == ASSUME ChatInv, Accepted PROVE ChatInv'
<1> DEFINE m == running.m
           g == running.g
           s == IF m \in Texts THEN "success" ELSE "file_ing"
<1>1. /\ running.at = "accepted" /\ Status(m, g, s)
      /\ answers' = [answers EXCEPT ![m] = IF @ = 2 THEN 2 ELSE @ + 1]
      /\ running' = (IF m \in Texts THEN NoTask ELSE At(running, "file"))
      /\ UNCHANGED <<screen, load, dialog, tasks, saving, received, uploaded, excused>>
  BY DEF Accepted, activity, server
<1>2. m \in Messages /\ g \in Beans /\ running # NoTask
  BY <1>1, RunningIs DEF ChatInv, RunSet
<1>3. m \in received /\ (g = load \/ m \in excused)
  BY <1>1, <1>2 DEF ChatInv, WorkFits, WorkIsOfLoad
<1>4. s \in StatusSet /\ Fits(m, s) /\ s \in {"success", "file_ing"}
  BY <1>3 DEF StatusSet, Statuses, Fits, ServerHasIt
<1>5. /\ running' = NoTask \/ running' = [m |-> m, g |-> running.g, at |-> "file"]
      /\ answers' \in [Messages -> 0 .. 2]
      /\ answers'[m] = (IF answers[m] = 2 THEN 2 ELSE answers[m] + 1)
      /\ \A n \in Messages : n # m => answers'[n] = answers[n]
  BY <1>1, <1>2 DEF At, ChatInv, Types
<1>6. /\ table'[m] = s /\ bean'[m][g] = s
      /\ \A n \in Messages : n # m => table'[n] = table[n] /\ bean'[n] = bean[n]
  BY <1>1, <1>2, <1>4, StatusWrites DEF ChatInv
<1>7. running.m = m
  OBVIOUS
<1> HIDE DEF m, g, s
<1>8. Types' /\ StatusesFit' /\ WorkFits' /\ WorkIsOfLoad' /\ ScreenFits'
  BY <1>1, <1>2, <1>3, <1>4, <1>5, <1>7, StatusKeeps
<1>9. TakenStays'
  <2> SUFFICES ASSUME NEW n \in Messages \ excused, answers'[n] >= 1
               PROVE  /\ answers'[n] = 1
                      /\ table'[n] \notin {"ing", "fail", Unset}
                      /\ \A k \in Beans : k = load => bean'[n][k] \notin {"ing", "fail"}
                      /\ ~(running'.m = n /\ running'.at \in {"accepted", "refused"})
    BY <1>1 DEF TakenStays
  <2>1. running'.at \notin {"accepted", "refused"}
    BY <1>5 DEF NoTask
  <2>2. CASE n = m
    <3>1. answers[m] = 0
      <4>1. answers[m] \in 0 .. 2 /\ ~(answers[m] >= 1)
        BY <1>1, <1>2, <1>7, <2>2 DEF ChatInv, Types, TakenStays
      <4> QED
        BY <4>1
    <3>2. answers'[n] = 1
      BY <1>5, <2>2, <3>1
    <3>3. g = load
      BY <1>3, <2>2
    <3> QED
      BY <1>4, <1>6, <2>1, <2>2, <3>2, <3>3 DEF Unset
  <2>3. CASE n # m
    BY <1>5, <1>6, <2>1, <2>3 DEF ChatInv, TakenStays
  <2> QED
    BY <2>2, <2>3
<1> QED
  BY <1>8, <1>9 DEF ChatInv

LEMMA RefusedKeepsInv == ASSUME ChatInv, Refused PROVE ChatInv'
<1> DEFINE m == running.m
           g == running.g
<1>1. /\ running.at = "refused" /\ Status(m, g, "fail") /\ running' = NoTask
      /\ UNCHANGED <<screen, load, dialog, tasks, saving, received, uploaded, answers, excused>>
  BY DEF Refused, activity, server, history
<1>2. m \in Messages /\ g \in Beans /\ running # NoTask
  BY <1>1, RunningIs DEF ChatInv, RunSet
<1>3. g = load \/ m \in excused
  BY <1>2 DEF ChatInv, WorkIsOfLoad
<1>4. "fail" \in StatusSet /\ Fits(m, "fail")
  BY DEF StatusSet, Statuses, Fits, ServerHasIt
<1>5. answers' \in [Messages -> 0 .. 2]
  BY <1>1 DEF ChatInv, Types
<1>6. \A n \in Messages : n # m => table'[n] = table[n] /\ bean'[n] = bean[n]
  BY <1>1, <1>2, <1>4, StatusWrites DEF ChatInv
<1>7. running.m = m
  OBVIOUS
<1> HIDE DEF m, g
<1>8. Types' /\ StatusesFit' /\ WorkFits' /\ WorkIsOfLoad' /\ ScreenFits'
  BY <1>1, <1>2, <1>3, <1>4, <1>5, <1>7, StatusKeeps
<1>9. TakenStays'
  <2> SUFFICES ASSUME NEW n \in Messages \ excused, answers[n] >= 1
               PROVE  /\ answers[n] = 1
                      /\ table'[n] \notin {"ing", "fail", Unset}
                      /\ \A k \in Beans : k = load => bean'[n][k] \notin {"ing", "fail"}
                      /\ ~(running'.m = n /\ running'.at \in {"accepted", "refused"})
    BY <1>1 DEF TakenStays
  <2>1. n # m
    BY <1>1, <1>7 DEF ChatInv, TakenStays
  <2> QED
    BY <1>1, <1>6, <2>1 DEF ChatInv, TakenStays, NoTask
<1> QED
  BY <1>8, <1>9 DEF ChatInv

LEMMA SaveResultKeepsInv ==
    ASSUME ChatInv, NEW r \in saving, SaveResult(r)
    PROVE  ChatInv'
<1> DEFINE s == IF r.ok THEN "file_success" ELSE "file_fail"
<1>1. /\ Status(r.m, r.g, s) /\ saving' = saving \ {r}
      /\ UNCHANGED <<screen, load, dialog, tasks, running, received, uploaded, answers, excused>>
  BY DEF SaveResult, activity, server, history
<1>2. r.m \in Messages /\ r.g \in Beans
  BY DEF ChatInv, Types, SaveSet
<1>3. /\ r.g = load \/ r.m \in excused
      /\ r.m \in received /\ r.m \notin Texts /\ (r.ok => r.m \in uploaded)
  BY DEF ChatInv, WorkIsOfLoad, WorkFits
<1>4. s \in StatusSet /\ Fits(r.m, s) /\ s \in {"file_success", "file_fail"}
  BY <1>3 DEF StatusSet, Statuses, Fits, ServerHasIt
<1>5. answers' \in [Messages -> 0 .. 2]
  BY <1>1 DEF ChatInv, Types
<1> HIDE DEF s
<1>6. /\ table'[r.m] = s /\ bean'[r.m][r.g] = s
      /\ \A n \in Messages : n # r.m => table'[n] = table[n] /\ bean'[n] = bean[n]
      /\ \A k \in Beans : k # r.g => bean'[r.m][k] = bean[r.m][k]
  BY <1>1, <1>2, <1>4, StatusWrites DEF ChatInv
<1>7. Types' /\ StatusesFit' /\ WorkFits' /\ WorkIsOfLoad' /\ ScreenFits'
  BY <1>1, <1>2, <1>3, <1>4, <1>5, StatusKeeps
<1>8. TakenStays'
  BY <1>1, <1>4, <1>6 DEF ChatInv, TakenStays, Unset
<1> QED
  BY <1>7, <1>8 DEF ChatInv

(* The file: no status is written. *)
LEMMA FileKeepsInv ==
    ASSUME ChatInv, SendFile \/ TakeUpload \/ UploadResult \/ SeeResult
    PROVE  ChatInv'
<1> DEFINE m == running.m
           g == running.g
<1>1. /\ UNCHANGED <<table, bean, screen, load, dialog, tasks, received, answers, excused>>
      /\ running \in RunSet /\ m \in Messages /\ g \in Beans
      /\ g = load \/ m \in excused
  <2>1. /\ UNCHANGED <<table, bean, screen, load, dialog, tasks, received, answers, excused>>
        /\ running.at \in {"file", "queued", "sent", "result"}
    BY DEF SendFile, TakeUpload, UploadResult, SeeResult, statuses, activity, server, history
  <2>2. running \in RunSet
    BY <2>1, RunningIs DEF ChatInv
  <2> QED
    BY <2>1, <2>2, RunningIs DEF ChatInv, RunSet, WorkIsOfLoad
<1>2. ASSUME NEW next \in {"queued", "sent", "unheard", "result", "unseen", "idle"},
             running' = IF next = "idle" THEN NoTask ELSE At(running, next),
             next \in {"queued", "sent"} => m \in received /\ m \notin Texts,
             saving \subseteq saving', saving' \subseteq SaveSet,
             uploaded \subseteq uploaded', uploaded' \subseteq Messages,
             \A s \in saving' \ saving : /\ s.m = m /\ s.g = g
                                         /\ m \in received /\ m \notin Texts
                                         /\ s.ok => m \in uploaded',
             \/ next \in {"queued", "sent", "unheard"}
             \/ \E s \in saving' : s.m = m
             \/ running.at = "result"
             \/ running.at = "file" /\ bean[m][g] # "file_ing"
      PROVE  ChatInv'
  <2>1. /\ next # "idle" => running' = [m |-> m, g |-> g, at |-> next] /\ running' \in RunSet
        /\ next = "idle" => running' = NoTask
    BY <1>1, <1>2 DEF At, RunSet, Stages
  <2>2. Types'
    BY <1>1, <1>2, <2>1 DEF ChatInv, Types
  <2>3. StatusesFit'
    BY <1>1, <1>2 DEF ChatInv, StatusesFit, Fits, ServerHasIt
  <2>4. WorkFits'
    <3>1. running'.at = next
      BY <2>1 DEF NoTask
    <3>2. running'.at \in {"queued", "sent"} => running'.m = m
      BY <2>1, <3>1
    <3> QED
      BY <1>1, <1>2, <3>1, <3>2 DEF ChatInv, WorkFits
  <2>5. WorkIsOfLoad'
    <3>1. running' = NoTask \/ running'.g = load \/ running'.m \in excused
      BY <1>1, <2>1
    <3> QED
      BY <1>1, <1>2, <3>1 DEF ChatInv, WorkIsOfLoad
  <2>6. ScreenFits'
    <3> SUFFICES ASSUME screen = "shown", NEW n \in Messages \ excused,
                        bean[n][load] # table[n]
                 PROVE  BeingSent(bean[n][load]) /\ WillWrite(n)'
      BY <1>1 DEF ScreenFits, BeingSent
    <3>1. BeingSent(bean[n][load]) /\ WillWrite(n)
      BY DEF ChatInv, ScreenFits
    <3>2. CASE n # m
      BY <1>1, <1>2, <3>1, <3>2 DEF WillWrite
    <3>3. CASE n = m /\ (\/ \E i \in 1 .. Len(tasks) : tasks[i].m = n
                         \/ \E s \in saving : s.m = n)
      BY <1>1, <1>2, <3>1, <3>3 DEF WillWrite
    <3>4. CASE n = m /\ (next \in {"queued", "sent", "unheard"} \/ \E s \in saving' : s.m = m)
      BY <1>1, <2>1, <3>1, <3>4 DEF WillWrite
    <3>5. CASE n = m /\ running.at = "result"
      BY <3>1, <3>3, <3>5 DEF WillWrite
    <3>6. CASE n = m /\ running.at = "file" /\ bean[m][g] # "file_ing"
      BY <1>1, <3>1, <3>3, <3>6 DEF WillWrite
    <3> QED
      BY <1>2, <3>2, <3>3, <3>4, <3>5, <3>6
  <2>7. TakenStays'
    <3>1. running'.at \notin {"accepted", "refused"}
      BY <1>2, <2>1 DEF NoTask
    <3> QED
      BY <1>1, <3>1 DEF ChatInv, TakenStays
  <2> QED
    BY <2>2, <2>3, <2>4, <2>5, <2>6, <2>7 DEF ChatInv
<1>3. CASE SendFile
  <2>1. running.at = "file" /\ UNCHANGED <<saving, uploaded>>
    BY <1>3 DEF SendFile, server
  <2>2. CASE m \in Files /\ bean[m][g] = "file_ing"
    <3>1. running' = At(running, "queued")
      BY <1>3, <2>2 DEF SendFile
    <3>2. m \in received /\ m \notin Texts
      BY <1>1, <2>2 DEF ChatInv, StatusesFit, Fits, ServerHasIt
    <3> HIDE DEF m, g
    <3> QED
      BY <1>2, <2>1, <3>1, <3>2 DEF ChatInv, Types
  <2>3. CASE ~(m \in Files /\ bean[m][g] = "file_ing")
    <3>1. running' = NoTask
      BY <1>3, <2>3 DEF SendFile
    <3>2. bean[m][g] # "file_ing"
      BY <1>1, <2>3 DEF ChatInv, StatusesFit, Fits, Messages
    <3> HIDE DEF m, g
    <3> QED
      BY <1>2, <2>1, <3>1, <3>2 DEF ChatInv, Types
  <2> QED
    BY <2>2, <2>3
<1>4. CASE TakeUpload
  <2>1. /\ running.at = "queued" /\ UNCHANGED <<saving, uploaded>>
        /\ running' = At(running, "sent") \/ running' = At(running, "unheard")
    BY <1>4 DEF TakeUpload, server
  <2>2. m \in received /\ m \notin Texts
    BY <2>1 DEF ChatInv, WorkFits
  <2> HIDE DEF m, g
  <2> QED
    BY <1>2, <2>1, <2>2 DEF ChatInv, Types
<1>5. CASE UploadResult
  <2>1. PICK ok \in BOOLEAN :
            /\ saving' = saving \cup {[m |-> m, g |-> g, ok |-> ok]}
            /\ uploaded' = uploaded \cup {m} \/ (~ok /\ uploaded' = uploaded)
    BY <1>5 DEF UploadResult
  <2>2. running.at = "sent" /\ running' = At(running, "result")
    BY <1>5 DEF UploadResult
  <2>3. m \in received /\ m \notin Texts
    BY <2>2 DEF ChatInv, WorkFits
  <2>4. saving' \subseteq SaveSet /\ uploaded \subseteq uploaded' /\ uploaded' \subseteq Messages
    BY <1>1, <2>1 DEF ChatInv, Types, SaveSet
  <2>5. \A s \in saving' \ saving : s.m = m /\ s.g = g /\ (s.ok => m \in uploaded')
    BY <2>1
  <2>6. saving \subseteq saving' /\ \E s \in saving' : s.m = m
    <3> DEFINE r == [m |-> m, g |-> g, ok |-> ok]
    <3>1. r \in saving' /\ r.m = m /\ saving \subseteq saving'
      BY <2>1
    <3> QED
      BY <3>1
  <2> HIDE DEF m, g
  <2> QED
    BY <1>2, <2>2, <2>3, <2>4, <2>5, <2>6
<1>6. CASE SeeResult
  <2>1. /\ running.at = "result" /\ UNCHANGED <<saving, uploaded>>
        /\ running' = NoTask \/ running' = At(running, "unseen")
    BY <1>6 DEF SeeResult, server
  <2> HIDE DEF m, g
  <2> QED
    BY <1>2, <2>1 DEF ChatInv, Types
<1> QED
  BY <1>3, <1>4, <1>5, <1>6

LEMMA KillKeepsInv == ASSUME ChatInv, Kill PROVE ChatInv'
<1>1. /\ screen' = "closed" /\ dialog' = NoTask
      /\ bean' = [m \in Messages |-> [g \in Beans |-> Unset]]
      /\ tasks' = <<>> /\ running' = NoTask /\ saving' = {}
      /\ excused' = excused \cup {m \in Messages : Underway(m)}
      /\ UNCHANGED <<table, load, received, uploaded, answers>>
  BY DEF Kill, Beans, server
<1>2. Types'
  BY <1>1 DEF ChatInv, Types, StatusSet
<1>3. StatusesFit'
  BY <1>1 DEF ChatInv, StatusesFit, Fits, ServerHasIt, Unset
<1>4. WorkFits' /\ WorkIsOfLoad' /\ ScreenFits'
  BY <1>1 DEF WorkFits, WorkIsOfLoad, ScreenFits, NoTask
<1>5. TakenStays'
  BY <1>1 DEF ChatInv, TakenStays, NoTask, Unset
<1> QED
  BY <1>2, <1>3, <1>4, <1>5 DEF ChatInv

LEMMA ChatInvInductive == ChatInv /\ [ChatNext]_chatVars => ChatInv'
<1> SUFFICES ASSUME ChatInv, [ChatNext]_chatVars PROVE ChatInv'
  OBVIOUS
<1>1. CASE OpenChat \/ Resume \/ Resend \/ Kill
  BY <1>1, OpenChatKeepsInv, ResumeKeepsInv, ResendKeepsInv, KillKeepsInv
<1>2. CASE Pause \/ Finish \/ CancelDialog \/ \E m \in Messages : TapFailed(m)
  BY <1>2, ScreenKeepsInv
<1>3. CASE \E m \in Messages : SendMessage(m) \/ DrawRow(m)
  BY <1>3, SendMessageKeepsInv, DrawRowKeepsInv
<1>4. CASE TaskNext
  BY <1>4, PostMessageKeepsInv, AcceptedKeepsInv, RefusedKeepsInv, FileKeepsInv DEF TaskNext
<1>5. CASE SaveAny
  BY <1>5, SaveResultKeepsInv DEF SaveAny
<1>6. CASE UNCHANGED chatVars
  BY <1>6
  DEF chatVars, statuses, activity, work, server, history, ChatInv, Types, StatusesFit, Fits,
      ServerHasIt, WorkFits, WorkIsOfLoad, ScreenFits, WillWrite, BeingSent, TakenStays
<1> QED
  BY <1>1, <1>2, <1>3, <1>4, <1>5, <1>6 DEF ChatNext

LEMMA ChatInvHolds == ChatSpec => []ChatInv
BY ChatInvInit, ChatInvInductive, PTL DEF ChatSpec

-----------------------------------------------------------------------------
(***************************************************************************)
(* ChatStatusIsTrue: in table and beans a message is sent, or its file is, *)
(* only when the server has it, and a screen with nothing under way shows  *)
(* what the table holds, for any number of messages, loads and tasks.      *)
(***************************************************************************)
THEOREM ChatStatusIsTrue == ChatSpec => []StatusIsTrue
<1>1. ChatInv => StatusIsTrue
  <2> SUFFICES ASSUME ChatInv PROVE StatusIsTrue
    OBVIOUS
  <2>1. ASSUME NEW m \in Messages
        PROVE  ServerHasIt(m, table[m]) /\ \A g \in 1 .. load : ServerHasIt(m, bean[m][g])
    <3>1. 1 .. load \subseteq Beans
      BY ChatAssumption DEF ChatInv, Types, Beans
    <3> QED
      BY <3>1 DEF ChatInv, StatusesFit, Fits
  <2>2. \A m \in Messages : WillWrite(m) => Underway(m)
    <3>1. DOMAIN tasks = 1 .. Len(tasks)
      BY LenProperties DEF ChatInv, Types
    <3> QED
      BY <3>1 DEF WillWrite, Underway
  <2>3. ScreenIsTable
    BY <2>2 DEF ChatInv, ScreenFits, ScreenIsTable
  <2> QED
    BY <2>1, <2>3 DEF StatusIsTrue
<1> QED
  BY <1>1, ChatInvHolds, PTL

(***************************************************************************)
(* ChatAnsweredOnce: for any number of tasks that drawing its row starts,  *)
(* the server takes a message with a positive answer once, unless it is    *)
(* one of those excused.                                                   *)
(***************************************************************************)
THEOREM ChatAnsweredOnce == ChatSpec => []AnsweredOnce
<1>1. ChatInv => AnsweredOnce
  BY DEF ChatInv, Types, TakenStays, AnsweredOnce
<1> QED
  BY <1>1, ChatInvHolds, PTL

-----------------------------------------------------------------------------
(***************************************************************************)
(* Both parts together.  What ChatTypeOK says beyond ChatInv: the tasks    *)
(* are within their bound, and no task or dialog is about a load that is   *)
(* still to come.                                                          *)
(***************************************************************************)
NoLaterLoad ==
    /\ started \in 0 .. MaxTasks
    /\ \A i \in 1 .. Len(tasks) : tasks[i].g \in 1 .. load
    /\ dialog # NoTask => dialog.g \in 1 .. load

(* A task is added only for a load that has been. *)
LEMMA ExecuteOfLoad ==
    ASSUME ChatInv, NoLaterLoad, NEW m \in Messages, NEW g \in 1 .. load, load' = load,
           Execute(m, g)
    PROVE  started' \in 0 .. MaxTasks /\ \A i \in 1 .. Len(tasks') : tasks'[i].g \in 1 .. load'
<1>1. load \in 0 .. MaxLoads /\ Types /\ g \in Beans
  BY ChatAssumption DEF ChatInv, Types, Beans
<1>2. /\ tasks'[Len(tasks) + 1] = [m |-> m, g |-> g]
      /\ \A i \in 1 .. Len(tasks) : tasks'[i] = tasks[i]
      /\ \A i \in 1 .. Len(tasks') : i \in 1 .. Len(tasks) \/ i = Len(tasks) + 1
  BY <1>1, TasksGrow
<1>3. started' \in 0 .. MaxTasks
  BY ChatAssumption DEF Execute, NoLaterLoad
<1> QED
  BY <1>2, <1>3 DEF NoLaterLoad

(* Every step of the chat keeps this. *)
LEMMA NoLaterLoadInductive == ChatInv /\ NoLaterLoad /\ [ChatNext]_chatVars => NoLaterLoad'
<1> SUFFICES ASSUME ChatInv, NoLaterLoad, [ChatNext]_chatVars PROVE NoLaterLoad'
  OBVIOUS
<1>0. Types /\ load \in 0 .. MaxLoads /\ MaxLoads \in Nat
  BY ChatAssumption DEF ChatInv, Types
<1>1. CASE UNCHANGED <<tasks, load, started>> /\ dialog' \in {dialog, NoTask}
  BY <1>1 DEF NoLaterLoad
<1>2. CASE Resume
  <2>1. load' = load + 1 /\ UNCHANGED <<tasks, started, dialog>>
    BY <1>2 DEF Resume, work
  <2>2. 1 .. load \subseteq 1 .. load'
    BY <1>0, <2>1
  <2> QED
    BY <2>1, <2>2 DEF NoLaterLoad
<1>3. ASSUME NEW m \in Messages, TapFailed(m) PROVE NoLaterLoad'
  <2>1. /\ UNCHANGED <<tasks, load, started>> /\ screen = "shown"
        /\ dialog' = [m |-> m, g |-> load, at |-> "idle"]
    BY <1>3 DEF TapFailed, work
  <2>2. load \in 1 .. load
    BY <1>0, <2>1 DEF Types, Beans
  <2> QED
    BY <2>1, <2>2 DEF NoLaterLoad
<1>4. ASSUME NEW m \in Messages, DrawRow(m) PROVE NoLaterLoad'
  <2>1. Execute(m, load) /\ UNCHANGED <<load, dialog>> /\ screen = "shown"
    BY <1>4 DEF DrawRow, activity
  <2>2. load \in 1 .. load
    BY <1>0, <2>1 DEF Types, Beans
  <2> QED
    BY <2>1, <2>2, ExecuteOfLoad DEF NoLaterLoad
<1>5. CASE Resend
  <2>1. Execute(dialog.m, dialog.g) /\ load' = load /\ dialog # NoTask /\ dialog' = NoTask
    BY <1>5 DEF Resend
  <2>2. dialog.m \in Messages /\ dialog.g \in 1 .. load
    BY <1>0, <2>1 DEF Types, NoLaterLoad
  <2> QED
    BY <2>1, <2>2, ExecuteOfLoad DEF NoLaterLoad
<1>6. CASE PostMessage \/ NothingToPost
  <2>1. tasks # <<>> /\ tasks' = Tail(tasks) /\ UNCHANGED <<load, dialog, started>>
    BY <1>6 DEF PostMessage, NothingToPost, activity
  <2>2. \A i \in 1 .. Len(tasks') : tasks'[i] = tasks[i + 1] /\ i + 1 \in 1 .. Len(tasks)
    BY <1>0, <2>1, TasksShrink
  <2> QED
    BY <2>1, <2>2 DEF NoLaterLoad
<1>7. CASE Kill
  <2>1. tasks' = <<>> /\ dialog' = NoTask /\ UNCHANGED <<load, started>>
    BY <1>7 DEF Kill
  <2> QED
    BY <2>1 DEF NoLaterLoad
<1>8. CASE \/ OpenChat \/ Pause \/ Finish \/ CancelDialog \/ Accepted \/ Refused \/ SendFile
           \/ TakeUpload \/ UploadResult \/ SeeResult \/ SaveAny
           \/ \E m \in Messages : SendMessage(m)
  BY <1>1, <1>8
  DEF OpenChat, Pause, Finish, CancelDialog, Accepted, Refused, SendFile, TakeUpload,
      UploadResult, SeeResult, SaveAny, SaveResult, SendMessage, activity, work
<1>9. CASE UNCHANGED chatVars
  BY <1>1, <1>9 DEF chatVars, activity, work
<1> QED
  BY <1>2, <1>3, <1>4, <1>5, <1>6, <1>7, <1>8, <1>9 DEF ChatNext, TaskNext

MessagesInv == StreamInv /\ ChatInv /\ NoLaterLoad

(* One of the parts takes a step, the other stands still. *)
LEMMA MessagesInvHolds == MessagesSpec => []MessagesInv
<1>1. MessagesInit => MessagesInv
  <2> SUFFICES ASSUME MessagesInit PROVE MessagesInv
    OBVIOUS
  <2>1. StreamInv /\ ChatInv
    BY StreamInitInv, ChatInvInit DEF MessagesInit
  <2>2. NoLaterLoad
    BY ChatAssumption DEF MessagesInit, ChatInit, NoLaterLoad
  <2> QED
    BY <2>1, <2>2 DEF MessagesInv
<1>2. MessagesInv /\ [MessagesNext]_messageVars => MessagesInv'
  <2> SUFFICES ASSUME MessagesInv, [MessagesNext]_messageVars PROVE MessagesInv'
    OBVIOUS
  <2>1. [Next]_vars /\ [ChatNext]_chatVars
    BY DEF MessagesNext, messageVars
  <2> QED
    BY <2>1, StreamStepInv, ChatInvInductive, NoLaterLoadInductive DEF MessagesInv
<1> QED
  BY <1>1, <1>2, PTL DEF MessagesSpec

(***************************************************************************)
(* MessagesTypeCorrect: the state of both parts is well formed in every    *)
(* behaviour that is model-checked, for any messages, loads and tasks: the *)
(* thread reads nothing that was not written, a task is never about a load *)
(* of the chat that is still to come.                                      *)
(***************************************************************************)
THEOREM MessagesTypeCorrect == MessagesSpec => []MessagesTypeOK
<1>1. MessagesInv => MessagesTypeOK
  <2> SUFFICES ASSUME MessagesInv PROVE MessagesTypeOK
    OBVIOUS
  <2>1. TypeOK /\ Types /\ NoLaterLoad
    BY DEF MessagesInv, StreamInv, ChatInv
  <2>2. \A i \in DOMAIN tasks : tasks[i].m \in Messages /\ tasks[i].g \in 1 .. load
    <3>1. tasks \in Seq(TaskSet)
      BY <2>1 DEF Types
    <3>2. DOMAIN tasks = 1 .. Len(tasks) /\ \A i \in 1 .. Len(tasks) : tasks[i] \in TaskSet
      BY <3>1, ElementOfSeq
    <3> QED
      BY <2>1, <3>2 DEF NoLaterLoad, TaskSet
  <2>3. running.at \in Stages
    <3>1. NoTask.at = "idle"
      BY DEF NoTask
    <3> QED
      BY <2>1, <3>1 DEF Types, RunSet, Stages
  <2> QED
    BY <2>1, <2>2, <2>3 DEF MessagesTypeOK, ChatTypeOK, Types, StatusSet, Beans, NoLaterLoad
<1> QED
  BY <1>1, MessagesInvHolds, PTL
===============================================================================
