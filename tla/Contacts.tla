------------------------------- MODULE Contacts -------------------------------
(***************************************************************************)
(* The friends of the logged-in user: the contact table (ctlm1355, flag    *)
(* 'Y' for a friend, 'N' for somebody only known from a group), the table  *)
(* of friend requests (ctlm13550), the single chats, and everybody who     *)
(* writes to them:                                                         *)
(*   - the main thread, which handles the packets the server pushes        *)
(*     (IMChatService.processPacketMsg and processPacketIQ),               *)
(*   - the activities' threads, which call the server and wait for its     *)
(*     answer (AllVerfifyFriendsActivity, FriendsActivity,                 *)
(*     SearchQiXinFriendsretActivity, AddingFriendActivity, and            *)
(*     ContactFragment.getHttpData),                                       *)
(*   - the SQLiteWorker, to which they post what is to be written.         *)
(* Every DAO call is a transaction of its own, so what a handler or a task *)
(* writes is a sequence of steps that the others' steps come between, and  *)
(* that the end of the process cuts short; the tables survive it.          *)
(***************************************************************************)
EXTENDS Naturals, Sequences, SequencesExt

CONSTANTS Peers,        \* the other users
          Threads,      \* threads the activities have started
          MaxInbox,     \* packets the server keeps for the client (bound)
          MaxDml,       \* steps posted and not yet done (bound)
          MaxMoves      \* what the users do besides refreshing (bound)

ASSUME ContactsAssumption == MaxInbox \in Nat /\ MaxDml \in Nat /\ MaxMoves \in Nat

VARIABLES rel,          \* server: how p and the user stand to each other
          past,         \* history: the closest rel has ever been
          inbox,        \* server: packets the client has not acknowledged
          contact,      \* ctlm1355: the flag of p's row, or "none"
          temp,         \* ctlm13550: p's row, or "none"
          chat,         \* some message of the chat with p is stored
          withdrawn,    \* history: p's request was deleted, p not a contact
          main,         \* what the main thread still does for a packet
          dml,          \* SQLiteWorker: steps posted and not yet done
          call,         \* per thread: its call of the server
          moves         \* counts towards MaxMoves

server == <<rel, past, inbox>>
tables == <<contact, temp, chat, withdrawn>>
vars == <<server, tables, main, dml, call, moves>>

Relations == {"none", "asksMe", "iAsk", "friend"}
Flags == {"none", "Y", "N"}

(* id_user's row: who asked whom (verfify_type) and whether verfify_result *)
(* is still "ongo" or "permission".                                        *)
Requests == {"wanti", "wantiGranted", "iwant", "iwantGranted"}
Granted == [wanti |-> "wantiGranted", wantiGranted |-> "wantiGranted",
            iwant |-> "iwantGranted", iwantGranted |-> "iwantGranted"]

Features == {"msg", "add", "agree", "refuse", "remove", "echo", "group"}
Packets == [feature : Features, from : Peers, seen : BOOLEAN]

Ops == {"flag", "unfriend", "tempPut", "tempDel", "status", "shift",
        "chatAdd", "chatDel", "ack", "return"}
Steps == [op : Ops, who : SUBSET Peers, val : Flags \cup Requests]

Calls == [op : {"idle", "accept", "card", "request", "remove", "look",
                "contacts", "members", "post"},
          peer : Peers, answer : {"waiting", "ok", "already", "error"},
          list : SUBSET Peers]

Idle(t) == call[t].op = "idle"
NoCall(t) == [call[t] EXCEPT !.op = "idle", !.answer = "waiting", !.list = {}]

TypeOK ==
    /\ rel \in [Peers -> Relations]
    /\ past \in [Peers -> {"stranger", "asked", "agreed"}]
    /\ inbox \in Seq(Packets) /\ Len(inbox) <= MaxInbox
    /\ contact \in [Peers -> Flags]
    /\ temp \in [Peers -> {"none"} \cup Requests]
    /\ chat \in [Peers -> BOOLEAN]
    /\ withdrawn \subseteq Peers
    /\ main \in Seq(Steps)
    /\ dml \in Seq(Steps)
    /\ call \in [Threads -> Calls]
    /\ moves \in 0 .. MaxMoves

(* Right after a first login: the friends the server has are in the table. *)
Init ==
    /\ rel \in [Peers -> {"none", "friend"}]
    /\ past = [p \in Peers |-> IF rel[p] = "friend" THEN "agreed" ELSE "stranger"]
    /\ inbox = <<>>
    /\ contact = [p \in Peers |-> IF rel[p] = "friend" THEN "Y" ELSE "none"]
    /\ temp = [p \in Peers |-> "none"]
    /\ chat = [p \in Peers |-> FALSE]
    /\ withdrawn = {}
    /\ main = <<>>
    /\ dml = <<>>
    /\ call \in [Threads -> [op : {"idle"}, peer : Peers, answer : {"waiting"}, list : {{}}]]
    /\ moves = 0

Move == moves < MaxMoves /\ moves' = moves + 1

-----------------------------------------------------------------------------
(* The DAO calls, each one transaction.                                    *)

Step(o, s, v) == [op |-> o, who |-> s, val |-> v]
Flag(s, f)    == Step("flag", s, f)             \* replaceFriendInfos
Unfriend(p)   == Step("unfriend", {p}, "N")     \* setContactFlag, updateContactAsNOFriendById
TempPut(p, r) == Step("tempPut", {p}, r)        \* replaceTempContactInfo(N)
TempDel(p)    == Step("tempDel", {p}, "none")   \* deleteTempContactInfoById
Status(p)     == Step("status", {p}, "Y")       \* updateTempContactStatus
Shift(p)      == Step("shift", {p}, "Y")        \* shiftTempContactInfoById
ChatAdd(p)    == Step("chatAdd", {p}, "none")   \* saveSingleChatMsgIndb
ChatDel(p)    == Step("chatDel", {p}, "none")   \* deleteSingleMsgById
Ack           == Step("ack", {}, "none")        \* sendMsgResponses, sendIqResponses
Return        == Step("return", {}, "none")     \* return before the response

(* shiftTempContactInfoById copies every row of the table of requests.     *)
Shifted(s) == {p \in Peers : temp[p] # "none"}

ContactAfter(s) ==
    [p \in Peers |->
        IF \/ s.op = "flag" /\ p \in s.who
           \/ s.op = "unfriend" /\ p \in s.who /\ contact[p] # "none"
        THEN s.val
        ELSE IF s.op = "shift" /\ p \in Shifted(s) THEN "Y" ELSE contact[p]]

(* A slip: the flag of the contact written where the result belongs.       *)
TempAfterMixUp(s) ==
    [p \in Peers |->
        IF p \notin s.who THEN temp[p]
        ELSE IF s.op \in {"tempPut", "tempDel"} THEN s.val
        ELSE IF s.op = "status" /\ temp[p] # "none" THEN s.val
        ELSE temp[p]]

TempAfter(s) ==
    [p \in Peers |->
        IF p \notin s.who THEN temp[p]
        ELSE IF s.op \in {"tempPut", "tempDel"} THEN s.val
        ELSE IF s.op = "status" /\ temp[p] # "none" THEN Granted[temp[p]]
        ELSE temp[p]]

ChatAfter(s) ==
    [p \in Peers |->
        IF p \in s.who /\ s.op \in {"chatAdd", "chatDel"} THEN s.op = "chatAdd"
        ELSE chat[p]]

Apply(s) ==
    /\ contact' = ContactAfter(s)
    /\ temp' = TempAfter(s)
    /\ chat' = ChatAfter(s)
    /\ withdrawn' = withdrawn \cup
          {p \in s.who : s.op = "tempDel" /\ contact[p] = "none"}

-----------------------------------------------------------------------------
(* The server and the other users.                                         *)

Push(f, p) ==
    /\ Len(inbox) < MaxInbox
    /\ inbox' = Append(inbox, [feature |-> f, from |-> p, seen |-> FALSE])

Become(p, r) ==
    /\ rel' = [rel EXCEPT ![p] = r]
    /\ past' = [past EXCEPT ![p] =
          IF r = "friend" \/ @ = "agreed" THEN "agreed"
          ELSE IF r = "none" THEN @ ELSE "asked"]

PeerAsks(p) == rel[p] = "none" /\ Become(p, "asksMe") /\ Push("add", p)
PeerAgrees(p) == rel[p] = "iAsk" /\ Become(p, "friend") /\ Push("agree", p)
PeerRefuses(p) == rel[p] = "iAsk" /\ Become(p, "none") /\ Push("refuse", p)
PeerRemoves(p) == rel[p] = "friend" /\ Become(p, "none") /\ Push("remove", p)

(* A message; or a group operation that names p, who is no friend.         *)
PeerWrites(p) ==
    /\ rel[p] = "friend" /\ Push("msg", p)
    /\ UNCHANGED <<rel, past>>
PeerInGroup(p) ==
    /\ rel[p] # "friend" /\ Push("group", p)
    /\ UNCHANGED <<rel, past>>

Peer ==
    /\ \E p \in Peers : \/ PeerAsks(p) \/ PeerAgrees(p) \/ PeerRefuses(p)
                        \/ PeerRemoves(p) \/ PeerWrites(p) \/ PeerInGroup(p)
    /\ Move
    /\ UNCHANGED <<tables, main, dml, call>>

(* A new connection: what was not acknowledged is sent again.              *)
Unseen(s) == [i \in 1 .. Len(s) |-> [s[i] EXCEPT !.seen = FALSE]]
Reconnect ==
    /\ main = <<>>
    /\ inbox' = Unseen(inbox)
    /\ UNCHANGED <<rel, past, tables, main, dml, call, moves>>

(* The server answers the call of thread t: "already" stands for the error *)
(* codes NO_PERMISSION, CONTACT_HAD_ADDED and CONTACT_NOT_FOUND.           *)
Reply(t, a) == call' = [call EXCEPT ![t].answer = a]

AnswerAccept(t) ==
    LET p == call[t].peer IN
    /\ call[t].op \in {"accept", "card"}
    /\ \/ rel[p] = "asksMe" /\ Become(p, "friend") /\ Reply(t, "ok")
       \/ rel[p] # "asksMe" /\ Reply(t, "already") /\ UNCHANGED <<rel, past>>
    /\ UNCHANGED inbox

AnswerRequest(t) ==
    LET p == call[t].peer IN
    /\ call[t].op = "request"
    /\ \/ rel[p] = "none" /\ Become(p, "iAsk") /\ Reply(t, "ok")
       \/ rel[p] = "friend" /\ Reply(t, "already") /\ UNCHANGED <<rel, past>>
       \/ rel[p] \in {"iAsk", "asksMe"} /\ Reply(t, "error") /\ UNCHANGED <<rel, past>>
    /\ UNCHANGED inbox

AnswerRemove(t) ==
    LET p == call[t].peer IN
    /\ call[t].op = "remove"
    /\ \/ /\ rel[p] = "friend" /\ Become(p, "none") /\ Reply(t, "ok")
          /\ (UNCHANGED inbox \/ Push("echo", p))
       \/ /\ rel[p] # "friend" /\ Reply(t, "already")
          /\ UNCHANGED <<rel, past, inbox>>

AnswerLook(t) ==
    /\ call[t].op = "look"
    /\ Reply(t, "ok")
    /\ UNCHANGED server

AnswerList(t) ==
    /\ \/ /\ call[t].op = "contacts"
          /\ call' = [call EXCEPT ![t].answer = "ok",
                                  ![t].list = {p \in Peers : rel[p] = "friend"}]
       \/ /\ call[t].op = "members"
          /\ \E s \in SUBSET {p \in Peers : rel[p] # "friend"} :
                call' = [call EXCEPT ![t].answer = "ok", ![t].list = s]
    /\ UNCHANGED server

Answer(t) ==
    /\ call[t].answer = "waiting"
    /\ \/ AnswerAccept(t) \/ AnswerRequest(t) \/ AnswerRemove(t)
       \/ AnswerLook(t) \/ AnswerList(t)
    /\ UNCHANGED <<tables, main, dml, moves>>

-----------------------------------------------------------------------------
(* The main thread: one packet after the other, each to the end.           *)

FirstUnseen(i) ==
    /\ i \in DOMAIN inbox
    /\ ~inbox[i].seen
    /\ \A j \in 1 .. (i - 1) : inbox[j].seen

(* A message from somebody who is no friend is acknowledged all the same.  *)
OnMsg(p) == IF contact[p] = "Y" THEN <<ChatAdd(p), Ack>> ELSE <<Ack>>

(* A slip: no look for the row of the request.                             *)
OnAgreeBlindly(p) == <<Shift(p), Status(p), ChatAdd(p), Ack>>

(* An agreement counts only if there is a row of the request.              *)
OnAgree(p) ==
    IF temp[p] = "none" THEN <<Ack>>
    ELSE <<Shift(p), Status(p), ChatAdd(p), Ack>>

(* A slip: return before the response, as other branches do.               *)
OnRemoveWithoutResponse(p) == <<Unfriend(p), ChatDel(p), Return>>

OnRemove(p) == <<Unfriend(p), ChatDel(p), Ack>>

Todo(f, p) ==
    CASE f = "msg"    -> OnMsg(p)
      [] f = "add"    -> <<TempPut(p, "wanti"), Ack>>
      [] f = "agree"  -> OnAgree(p)
      [] f = "refuse" -> <<Ack>>
      [] f = "remove" -> OnRemove(p)
      [] f = "group"  -> <<Flag({p}, "N"), Ack>>
      [] f = "echo"   -> <<Return>>

Receive ==
    /\ main = <<>>
    /\ \E i \in DOMAIN inbox :
          FirstUnseen(i) /\ main' = Todo(inbox[i].feature, inbox[i].from)
    /\ UNCHANGED <<server, tables, dml, call, moves>>

MainWrites ==
    /\ main # <<>> /\ Head(main).op \notin {"ack", "return"}
    /\ Apply(Head(main))
    /\ main' = Tail(main)
    /\ UNCHANGED <<server, dml, call, moves>>

AckArrives ==
    /\ main # <<>> /\ Head(main).op = "ack"
    /\ \E i \in DOMAIN inbox : FirstUnseen(i) /\ inbox' = RemoveAt(inbox, i)
    /\ main' = Tail(main)
    /\ UNCHANGED <<rel, past, tables, dml, call, moves>>

AckLost ==
    /\ main # <<>> /\ Head(main).op \in {"ack", "return"}
    /\ \E i \in DOMAIN inbox :
          FirstUnseen(i) /\ inbox' = [inbox EXCEPT ![i].seen = TRUE]
    /\ main' = Tail(main)
    /\ UNCHANGED <<rel, past, tables, dml, call, moves>>

-----------------------------------------------------------------------------
(* The SQLiteWorker: first in, first out.                                  *)

Post(s) == Len(dml) + Len(s) <= MaxDml /\ dml' = dml \o s

WorkerWrites ==
    /\ dml # <<>>
    /\ Apply(Head(dml))
    /\ dml' = Tail(dml)
    /\ UNCHANGED <<server, main, call, moves>>

-----------------------------------------------------------------------------
(* The activities: what the user can start ...                             *)

Start(t, o, p) ==
    call' = [call EXCEPT ![t] = [op |-> o, peer |-> p, answer |-> "waiting", list |-> {}]]

(* The button is there while the request is open.                          *)
Accept(t, p) == temp[p] = "wanti" /\ Start(t, "accept", p)

(* The card of somebody who is no friend: answer his request, or ask.      *)
Add(t, p) ==
    /\ contact[p] # "Y"
    /\ Start(t, IF temp[p] \in {"wanti", "wantiGranted"} THEN "card" ELSE "request", p)

RemoveFriend(t, p) == contact[p] = "Y" /\ Start(t, "remove", p)
Look(t, p) == contact[p] = "Y" /\ Start(t, "look", p)
Refresh(t) == Start(t, "contacts", call[t].peer)

Begin(t) ==
    /\ Idle(t)
    /\ \/ Move /\ \E p \in Peers : Accept(t, p) \/ Add(t, p) \/ RemoveFriend(t, p) \/ Look(t, p)
       \/ Refresh(t) /\ UNCHANGED moves
    /\ UNCHANGED <<server, tables, main, dml>>

DeleteRequest(p) ==
    /\ main = <<>>
    /\ temp[p] \in {"wanti", "wantiGranted"}
    /\ Post(<<TempDel(p)>>)
    /\ Move
    /\ UNCHANGED <<server, tables, main, call>>

ClearChat(p) ==
    /\ main = <<>>
    /\ chat[p]
    /\ Apply(ChatDel(p))
    /\ Move
    /\ UNCHANGED <<server, main, dml, call>>

(* ... and what a thread does with the answer.                             *)
Finish(t) == call' = [call EXCEPT ![t] = NoCall(t)]
GoOn(t, o) == call' = [call EXCEPT ![t].op = o, ![t].answer = "waiting", ![t].list = {}]

(* Status at once, the shift by the worker.                                *)
StatusThenPost(t) == Apply(Status(call[t].peer)) /\ GoOn(t, "post") /\ UNCHANGED dml

FinishAccept(t) ==
    LET p == call[t].peer IN
    /\ call[t].op = "accept"
    /\ \/ /\ call[t].answer = "ok"
          /\ Post(<<Status(p), Shift(p), ChatAdd(p)>>) /\ Finish(t) /\ UNCHANGED tables
       \/ call[t].answer = "already" /\ StatusThenPost(t)

FinishCard(t) ==
    /\ call[t].op = "card"
    /\ \/ call[t].answer = "ok" /\ StatusThenPost(t)
       \/ call[t].answer = "already" /\ Finish(t) /\ UNCHANGED <<tables, dml>>

PostShift(t) ==
    /\ call[t].op = "post"
    /\ Post(<<Shift(call[t].peer)>>) /\ Finish(t) /\ UNCHANGED tables

FinishRequest(t) ==
    LET p == call[t].peer IN
    /\ call[t].op = "request"
    /\ \/ call[t].answer = "ok" /\ Post(<<TempPut(p, "iwant")>>)
       \/ /\ call[t].answer = "already"
          /\ Post(<<TempPut(p, "iwantGranted"), Flag({p}, "Y")>>)
       \/ call[t].answer = "error" /\ UNCHANGED dml
    /\ Finish(t) /\ UNCHANGED tables

FinishRemove(t) ==
    LET p == call[t].peer IN
    /\ call[t].op = "remove"
    /\ \/ call[t].answer = "ok" /\ Post(<<Unfriend(p), ChatDel(p), TempDel(p)>>)
       \/ call[t].answer = "already" /\ Post(<<Unfriend(p), ChatDel(p)>>)
    /\ Finish(t) /\ UNCHANGED tables

(* The flag as it was when the card was opened: only friends are looked up.*)
FinishLook(t) ==
    /\ call[t].op = "look"
    /\ Apply(Flag({call[t].peer}, "Y")) /\ Finish(t) /\ UNCHANGED dml

FinishContacts(t) ==
    /\ call[t].op = "contacts"
    /\ Apply(Flag(call[t].list, "Y")) /\ GoOn(t, "members") /\ UNCHANGED dml

(* A slip: the members of groups stored like the friends.                  *)
FinishMembersAsFriends(t) ==
    /\ call[t].op = "members"
    /\ Apply(Flag(call[t].list, "Y")) /\ Finish(t) /\ UNCHANGED dml

FinishMembers(t) ==
    /\ call[t].op = "members"
    /\ Apply(Flag(call[t].list, "N")) /\ Finish(t) /\ UNCHANGED dml

Complete(t) ==
    /\ \/ /\ call[t].answer # "waiting"
          /\ \/ FinishAccept(t) \/ FinishCard(t) \/ FinishRequest(t) \/ FinishRemove(t)
             \/ FinishLook(t) \/ FinishContacts(t) \/ FinishMembers(t)
       \/ PostShift(t)
    /\ UNCHANGED <<server, main, moves>>

-----------------------------------------------------------------------------
(* The process ends: killed, or by the NullPointerException of an activity *)
(* that looks into the answer it did not get.  The tables stay.            *)
End ==
    /\ inbox' = Unseen(inbox)
    /\ main' = <<>>
    /\ dml' = <<>>
    /\ call' = [t \in Threads |-> NoCall(t)]
    /\ UNCHANGED <<rel, past, tables, moves>>

(* The answer is lost or late, whether or not the server did its part.     *)
NoAnswer(t) ==
    \/ call[t].op \in {"accept", "request", "remove"} /\ End
    \/ /\ call[t].op \in {"card", "look", "members"} /\ Finish(t)
       /\ UNCHANGED <<server, tables, main, dml, moves>>
    \/ /\ call[t].op = "contacts" /\ GoOn(t, "members")
       /\ UNCHANGED <<server, tables, main, dml, moves>>

Next ==
    \/ Peer \/ Reconnect
    \/ Receive \/ MainWrites \/ AckArrives \/ AckLost
    \/ WorkerWrites
    \/ \E p \in Peers : DeleteRequest(p) \/ ClearChat(p)
    \/ \E t \in Threads : Begin(t) \/ Answer(t) \/ Complete(t) \/ NoAnswer(t)
    \/ End

Spec == Init /\ [][Next]_vars

(* Threads run; a response that is sent again and again arrives.           *)
Fairness ==
    /\ WF_vars(Receive) /\ WF_vars(MainWrites) /\ WF_vars(AckArrives \/ AckLost)
    /\ SF_vars(AckArrives)
    /\ WF_vars(WorkerWrites)
    /\ \A t \in Threads : WF_vars(Answer(t) \/ NoAnswer(t)) /\ WF_vars(Complete(t))
FairSpec == Spec /\ Fairness

-----------------------------------------------------------------------------
(* Nobody becomes a friend whom the user has never had to do with: a row   *)
(* with flag 'Y' belongs to somebody who was a friend, asked or was asked, *)
(* although the tables, the posted steps and the lists in flight are       *)
(* written by everybody and shiftTempContactInfoById looks at no id.       *)
NoStrangerIsFriend ==
    \A p \in Peers : contact[p] = "Y" => past[p] # "stranger"

(* A chat that is listed has a contact to show: messages are stored only   *)
(* for somebody with a row, except when the request that was being         *)
(* accepted is deleted meanwhile.                                          *)
ChatHasContact ==
    \A p \in Peers : chat[p] /\ contact[p] = "none" => p \in withdrawn

(* What shiftTempContactInfoById promises ("the temporary contact of the   *)
(* given id"): whoever is in the table as a friend did become one.         *)
OnlyAgreedAreFriends ==
    \A p \in Peers : contact[p] = "Y" => past[p] = "agreed"

(* A friend is found again: if p stays a friend, contacts are refreshed    *)
(* again and again, and the process no longer ends, then p's row says 'Y'  *)
(* for good, whatever was overtaken, sent twice or lost before.            *)
Refreshes(t) == call[t].answer = "ok" /\ FinishContacts(t)
FriendIsKnown ==
    \A p \in Peers :
       /\ <>[](rel[p] = "friend")
       /\ \E t \in Threads : []<><<Refreshes(t)>>_vars
       /\ <>[][~End]_vars
       => <>[](contact[p] = "Y")

=============================================================================
