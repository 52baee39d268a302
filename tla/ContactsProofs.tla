---------------------------- MODULE ContactsProofs ----------------------------
(***************************************************************************)
(* Proofs about Contacts for any set of peers, any number of threads and   *)
(* any bounds: the types, that nobody becomes a friend whom the user has   *)
(* never had to do with, and that a chat has its contact.                  *)
(*                                                                         *)
(* The second is not inductive: shiftTempContactInfoById makes a friend of *)
(* whoever has a row in the table of requests, and what is written now was *)
(* decided earlier, by whoever put the step into a queue, pushed the       *)
(* packet or asked for the list.  So the invariant says that everything on *)
(* its way that can make a row - a step, a packet, an answer, a list -     *)
(* names people the user has met.  past never goes back to "stranger", so  *)
(* what has been collected stays good.                                     *)
(*                                                                         *)
(* The third is decided long before the chat is stored: FinishAccept posts *)
(* the chat behind the shift that makes the contact's row, and the request *)
(* that is shifted was read when the thread began.  ChatInv says that of   *)
(* every queue and of every thread.                                        *)
(***************************************************************************)
EXTENDS Contacts, TLAPS

Met == {p \in Peers : past[p] # "stranger"}

(* A step of the right type that makes rows only for people met.           *)
Brings(s) == s.op = "tempPut" \/ (s.op \in {"flag", "unfriend"} /\ s.val = "Y")
Fine ==
    {s \in Steps :
       /\ s.op \in {"flag", "unfriend"} => s.val \in Flags
       /\ s.op = "tempPut" => s.val \in Requests
       /\ s.op = "tempDel" => s.val = "none"
       /\ Brings(s) => s.who \subseteq Met}

Mail == {k \in Packets : k.feature = "add" => k.from \in Met}

(* What a thread may have been told, and what it then writes.              *)
FineCall(c, met) ==
    /\ c.op = "contacts" => c.list \subseteq met
    /\ c.op = "look" => c.peer \in met
    /\ c.op = "request" /\ c.answer \in {"ok", "already"} => c.peer \in met

ServerInv ==
    /\ rel \in [Peers -> Relations]
    /\ past \in [Peers -> {"stranger", "asked", "agreed"}]
    /\ inbox \in Seq(Mail) /\ Len(inbox) <= MaxInbox
    /\ \A p \in Peers : rel[p] # "none" => p \in Met
TablesInv ==
    /\ contact \in [Peers -> Flags]
    /\ temp \in [Peers -> {"none"} \cup Requests]
    /\ chat \in [Peers -> BOOLEAN]
    /\ withdrawn \subseteq Peers
    /\ \A p \in Peers : contact[p] = "Y" \/ temp[p] # "none" => p \in Met
QueuesInv == main \in Seq(Fine) /\ dml \in Seq(Fine)
CallsInv ==
    /\ call \in [Threads -> Calls]
    /\ \A t \in Threads : FineCall(call[t], Met)

ContactsInv ==
    ServerInv /\ TablesInv /\ QueuesInv /\ CallsInv /\ moves \in 0 .. MaxMoves

-----------------------------------------------------------------------------
(* Sequences.                                                              *)

LEMMA SeqOfMore ==
  ASSUME NEW S, NEW T, S \subseteq T, NEW s \in Seq(S)
  PROVE  s \in Seq(T)
  OBVIOUS

LEMMA TailOfSeq ==
  ASSUME NEW S, NEW s \in Seq(S), s # <<>>
  PROVE  Head(s) \in S /\ Tail(s) \in Seq(S)
  OBVIOUS

LEMMA RemoveAtOfSeq ==
  ASSUME NEW S, NEW s \in Seq(S), NEW i \in DOMAIN s
  PROVE  RemoveAt(s, i) \in Seq(S) /\ Len(RemoveAt(s, i)) <= Len(s)
<1>1. i \in 1 .. Len(s) /\ Len(s) \in Nat
  OBVIOUS
<1>2. /\ SubSeq(s, 1, i - 1) \in Seq(S)
      /\ Len(SubSeq(s, 1, i - 1)) = i - 1
  BY <1>1
<1>3. /\ SubSeq(s, i + 1, Len(s)) \in Seq(S)
      /\ Len(SubSeq(s, i + 1, Len(s))) = Len(s) - i
  BY <1>1
<1>4. /\ RemoveAt(s, i) \in Seq(S)
      /\ Len(RemoveAt(s, i)) = (i - 1) + (Len(s) - i)
  BY <1>2, <1>3 DEF RemoveAt
<1> QED
  BY <1>1, <1>4

-----------------------------------------------------------------------------
(* past never goes back, so nobody is unmet.                               *)
LEMMA MetGrows ==
  ASSUME Met \subseteq Met'
  PROVE  /\ Fine \subseteq Fine'
         /\ Mail \subseteq Mail'
         /\ \A c : FineCall(c, Met) => FineCall(c, Met')
  BY DEF Fine, Mail, Brings, FineCall

-----------------------------------------------------------------------------
(* A step.                                                                 *)

LEMMA ApplyKeepsTables ==
  ASSUME TablesInv, NEW s \in Fine, Apply(s), Met' = Met
  PROVE  TablesInv'
<1>1. /\ s.op \in {"flag", "unfriend"} => s.val \in Flags
      /\ s.op = "tempPut" => s.val \in Requests
      /\ s.op = "tempDel" => s.val = "none"
      /\ Brings(s) => s.who \subseteq Met
      /\ s.who \subseteq Peers
  BY DEF Fine, Steps
<1>2. contact' \in [Peers -> Flags]
  BY <1>1 DEF Apply, ContactAfter, Flags, TablesInv
<1>3. temp' \in [Peers -> {"none"} \cup Requests]
  BY <1>1 DEF Apply, TempAfter, Granted, Requests, TablesInv
<1>4. chat' \in [Peers -> BOOLEAN]
  BY DEF Apply, ChatAfter, TablesInv
<1>5. withdrawn' \subseteq Peers
  BY <1>1 DEF Apply, TablesInv
<1>6. ASSUME NEW p \in Peers, contact'[p] = "Y" \/ temp'[p] # "none"
      PROVE  p \in Met'
  <2>1. CASE contact'[p] = "Y"
    BY <1>1, <2>1 DEF Apply, ContactAfter, Shifted, TablesInv, Brings
  <2>2. CASE temp'[p] # "none"
    BY <1>1, <2>2 DEF Apply, TempAfter, TablesInv, Brings
  <2> QED
    BY <1>6, <2>1, <2>2
<1> QED
  BY <1>2, <1>3, <1>4, <1>5, <1>6 DEF TablesInv

(* The steps that are written for a peer, whatever they make of his row.   *)
LEMMA FineSteps ==
  ASSUME NEW p \in Peers
  PROVE  /\ Ack \in Fine /\ Return \in Fine
         /\ Unfriend(p) \in Fine /\ TempDel(p) \in Fine /\ Status(p) \in Fine
         /\ Shift(p) \in Fine /\ ChatAdd(p) \in Fine /\ ChatDel(p) \in Fine
         /\ Flag({p}, "N") \in Fine
         /\ p \in Met => /\ \A r \in Requests : TempPut(p, r) \in Fine
                         /\ Flag({p}, "Y") \in Fine
  BY DEF Fine, Steps, Ops, Brings, Step, Ack, Return, Unfriend, TempDel, Status,
         Shift, ChatAdd, ChatDel, Flag, TempPut, Flags, Requests

LEMMA FineLists ==
  ASSUME NEW w \in SUBSET Peers
  PROVE  /\ Flag(w, "N") \in Fine
         /\ w \subseteq Met => Flag(w, "Y") \in Fine
  BY DEF Fine, Steps, Ops, Brings, Step, Flag, Flags

LEMMA TodoIsFine ==
  ASSUME NEW f \in Features, NEW p \in Peers, f = "add" => p \in Met
  PROVE  Todo(f, p) \in Seq(Fine)
<1>0. /\ Ack \in Fine /\ Return \in Fine /\ Unfriend(p) \in Fine /\ Status(p) \in Fine
      /\ Shift(p) \in Fine /\ ChatAdd(p) \in Fine /\ ChatDel(p) \in Fine
      /\ Flag({p}, "N") \in Fine
      /\ f = "add" => TempPut(p, "wanti") \in Fine
  BY FineSteps DEF Requests
<1>1. OnMsg(p) \in Seq(Fine)
  BY <1>0 DEF OnMsg
<1>2. OnAgree(p) \in Seq(Fine)
  BY <1>0 DEF OnAgree
<1>3. OnRemove(p) \in Seq(Fine)
  BY <1>0 DEF OnRemove
<1>4. <<Ack>> \in Seq(Fine) /\ <<Flag({p}, "N"), Ack>> \in Seq(Fine) /\ <<Return>> \in Seq(Fine)
  BY <1>0
<1>5. f = "add" => <<TempPut(p, "wanti"), Ack>> \in Seq(Fine)
  BY <1>0
<1> QED
  BY <1>1, <1>2, <1>3, <1>4, <1>5 DEF Todo, Features

-----------------------------------------------------------------------------
(* The server and the peers.                                               *)

LEMMA BecomeMeets ==
  ASSUME ServerInv, NEW p \in Peers, NEW r \in Relations, Become(p, r)
  PROVE  /\ rel' \in [Peers -> Relations]
         /\ past' \in [Peers -> {"stranger", "asked", "agreed"}]
         /\ Met \subseteq Met'
         /\ \A q \in Peers : rel'[q] # "none" => q \in Met'
  BY DEF ServerInv, Become, Met, Relations

LEMMA PushDelivers ==
  ASSUME ServerInv, NEW f \in Features, NEW p \in Peers, Push(f, p),
         Met \subseteq Met', f = "add" => p \in Met'
  PROVE  inbox' \in Seq(Mail') /\ Len(inbox') <= MaxInbox
<1>1. inbox \in Seq(Mail') /\ Len(inbox) \in Nat
  BY MetGrows, SeqOfMore DEF ServerInv
<1>2. [feature |-> f, from |-> p, seen |-> FALSE] \in Mail'
  BY DEF Mail, Packets
<1> QED
  BY <1>1, <1>2, ContactsAssumption DEF Push, ContactsAssumption

LEMMA OthersKeep ==
  ASSUME ContactsInv, Met \subseteq Met'
  PROVE  /\ UNCHANGED tables => TablesInv'
         /\ UNCHANGED main => main' \in Seq(Fine')
         /\ UNCHANGED dml => dml' \in Seq(Fine')
         /\ UNCHANGED call => CallsInv'
         /\ UNCHANGED moves \/ Move => moves' \in 0 .. MaxMoves
         /\ UNCHANGED server => ServerInv'
<1>1. UNCHANGED tables => TablesInv'
  BY DEF ContactsInv, TablesInv, tables
<1>2. main \in Seq(Fine') /\ dml \in Seq(Fine')
  BY MetGrows, SeqOfMore DEF ContactsInv, QueuesInv
<1>3. UNCHANGED call => CallsInv'
  BY MetGrows DEF ContactsInv, CallsInv
<1>4. UNCHANGED moves \/ Move => moves' \in 0 .. MaxMoves
  BY ContactsAssumption DEF ContactsInv, Move, ContactsAssumption
<1>5. UNCHANGED server => ServerInv'
  BY MetGrows, SeqOfMore DEF ContactsInv, ServerInv, server
<1> QED
  BY <1>1, <1>2, <1>3, <1>4, <1>5

LEMMA PeerInv ==
  ASSUME ContactsInv, Peer
  PROVE  ContactsInv'
<1>1. PICK p \in Peers : \/ PeerAsks(p) \/ PeerAgrees(p) \/ PeerRefuses(p)
                         \/ PeerRemoves(p) \/ PeerWrites(p) \/ PeerInGroup(p)
  BY DEF Peer
<1>2. ASSUME NEW r \in Relations, NEW f \in Features, Become(p, r), Push(f, p),
             f = "add" => r # "none"
      PROVE  Met \subseteq Met' /\ ServerInv'
  <2>1. /\ rel' \in [Peers -> Relations]
        /\ past' \in [Peers -> {"stranger", "asked", "agreed"}]
        /\ Met \subseteq Met'
        /\ \A q \in Peers : rel'[q] # "none" => q \in Met'
    BY <1>2, BecomeMeets DEF ContactsInv
  <2>2. f = "add" => p \in Met'
    BY <1>2, <2>1 DEF Become, ContactsInv, ServerInv
  <2>3. inbox' \in Seq(Mail') /\ Len(inbox') <= MaxInbox
    BY <1>2, <2>1, <2>2, PushDelivers DEF ContactsInv
  <2> QED
    BY <2>1, <2>3 DEF ServerInv
<1>3. ASSUME NEW f \in Features \ {"add"}, UNCHANGED <<rel, past>>, Push(f, p)
      PROVE  Met \subseteq Met' /\ ServerInv'
  <2>1. Met' = Met
    BY <1>3 DEF Met
  <2>2. inbox' \in Seq(Mail') /\ Len(inbox') <= MaxInbox
    BY <1>3, <2>1, PushDelivers DEF ContactsInv
  <2> QED
    BY <1>3, <2>1, <2>2 DEF ServerInv, ContactsInv
<1>4. Met \subseteq Met' /\ ServerInv'
  <2>1. CASE PeerAsks(p)
    BY <2>1, <1>2 DEF PeerAsks, Relations, Features
  <2>2. CASE PeerAgrees(p)
    BY <2>2, <1>2 DEF PeerAgrees, Relations, Features
  <2>3. CASE PeerRefuses(p)
    BY <2>3, <1>2 DEF PeerRefuses, Relations, Features
  <2>4. CASE PeerRemoves(p)
    BY <2>4, <1>2 DEF PeerRemoves, Relations, Features
  <2>5. CASE PeerWrites(p)
    BY <2>5, <1>3 DEF PeerWrites, Features
  <2>6. CASE PeerInGroup(p)
    BY <2>6, <1>3 DEF PeerInGroup, Features
  <2> QED
    BY <1>1, <2>1, <2>2, <2>3, <2>4, <2>5, <2>6
<1>5. Move /\ UNCHANGED tables /\ UNCHANGED main /\ UNCHANGED dml /\ UNCHANGED call
  BY DEF Peer
<1> QED
  BY <1>4, <1>5, OthersKeep DEF ContactsInv, QueuesInv

(* The same packets, seen or not.                                          *)
LEMMA MarkedIsMail ==
  ASSUME NEW k \in Mail, NEW b \in BOOLEAN
  PROVE  [k EXCEPT !.seen = b] \in Mail
<1> DEFINE m == [k EXCEPT !.seen = b]
<1>1. k \in Packets /\ (k.feature = "add" => k.from \in Met)
  BY DEF Mail
<1>2. m \in Packets
  BY <1>1 DEF Packets
<1>3. m.feature = k.feature /\ m.from = k.from
  BY <1>1 DEF Packets
<1> QED
  BY <1>1, <1>2, <1>3 DEF Mail

LEMMA UnseenIsMail ==
  ASSUME NEW s \in Seq(Mail)
  PROVE  Unseen(s) \in Seq(Mail) /\ Len(Unseen(s)) = Len(s)
<1>1. \A i \in 1 .. Len(s) : [s[i] EXCEPT !.seen = FALSE] \in Mail
  <2> TAKE i \in 1 .. Len(s)
  <2>1. s[i] \in Mail /\ FALSE \in BOOLEAN
    OBVIOUS
  <2> QED
    BY <2>1, MarkedIsMail, Zenon
<1> QED
  BY <1>1 DEF Unseen

LEMMA ReconnectInv ==
  ASSUME ContactsInv, Reconnect
  PROVE  ContactsInv'
<1>1. Met' = Met
  BY DEF Met, Reconnect
<1>2. inbox' \in Seq(Mail) /\ Len(inbox') <= MaxInbox
  BY UnseenIsMail DEF ContactsInv, ServerInv, Reconnect
<1>3. ServerInv'
  BY <1>1, <1>2, MetGrows, SeqOfMore DEF ContactsInv, ServerInv, Reconnect
<1>4. UNCHANGED tables /\ UNCHANGED main /\ UNCHANGED dml /\ UNCHANGED call /\ UNCHANGED moves
  BY DEF Reconnect
<1> QED
  BY <1>1, <1>3, <1>4, OthersKeep DEF ContactsInv, QueuesInv

-----------------------------------------------------------------------------
(* The main thread and the worker.                                         *)

LEMMA ReceiveInv ==
  ASSUME ContactsInv, Receive
  PROVE  ContactsInv'
<1>1. PICK i \in DOMAIN inbox : main' = Todo(inbox[i].feature, inbox[i].from)
  BY DEF Receive
<1>2. inbox[i] \in Mail
  BY DEF ContactsInv, ServerInv
<1>3. main' \in Seq(Fine)
  BY <1>1, <1>2, TodoIsFine DEF Mail, Packets
<1>4. UNCHANGED server /\ UNCHANGED tables /\ UNCHANGED dml /\ UNCHANGED call /\ UNCHANGED moves
  BY DEF Receive
<1>5. Met' = Met
  BY <1>4 DEF Met, server
<1>6. main' \in Seq(Fine')
  BY <1>3, <1>5, MetGrows, SeqOfMore
<1> QED
  BY <1>4, <1>5, <1>6, OthersKeep DEF ContactsInv, QueuesInv

LEMMA MainWritesInv ==
  ASSUME ContactsInv, MainWrites
  PROVE  ContactsInv'
<1>1. UNCHANGED server /\ UNCHANGED dml /\ UNCHANGED call /\ UNCHANGED moves
  BY DEF MainWrites
<1>2. Met' = Met
  BY <1>1 DEF Met, server
<1>3. Head(main) \in Fine /\ Tail(main) \in Seq(Fine)
  BY TailOfSeq DEF ContactsInv, QueuesInv, MainWrites
<1>4. main' \in Seq(Fine')
  BY <1>2, <1>3, MetGrows, SeqOfMore DEF MainWrites
<1>5. TablesInv'
  BY <1>2, <1>3, ApplyKeepsTables DEF ContactsInv, MainWrites
<1> QED
  BY <1>1, <1>2, <1>4, <1>5, OthersKeep DEF ContactsInv, QueuesInv

LEMMA WorkerWritesInv ==
  ASSUME ContactsInv, WorkerWrites
  PROVE  ContactsInv'
<1>1. UNCHANGED server /\ UNCHANGED main /\ UNCHANGED call /\ UNCHANGED moves
  BY DEF WorkerWrites
<1>2. Met' = Met
  BY <1>1 DEF Met, server
<1>3. Head(dml) \in Fine /\ Tail(dml) \in Seq(Fine)
  BY TailOfSeq DEF ContactsInv, QueuesInv, WorkerWrites
<1>4. dml' \in Seq(Fine')
  BY <1>2, <1>3, MetGrows, SeqOfMore DEF WorkerWrites
<1>5. TablesInv'
  BY <1>2, <1>3, ApplyKeepsTables DEF ContactsInv, WorkerWrites
<1> QED
  BY <1>1, <1>2, <1>4, <1>5, OthersKeep DEF ContactsInv, QueuesInv

LEMMA AckInv ==
  ASSUME ContactsInv, AckArrives \/ AckLost
  PROVE  ContactsInv'
<1>1. /\ UNCHANGED <<rel, past>> /\ UNCHANGED tables /\ UNCHANGED dml
      /\ UNCHANGED call /\ UNCHANGED moves
  BY DEF AckArrives, AckLost
<1>2. Met' = Met
  BY <1>1 DEF Met
<1>3. main' \in Seq(Fine)
  BY TailOfSeq DEF ContactsInv, QueuesInv, AckArrives, AckLost
<1>4. main' \in Seq(Fine')
  BY <1>2, <1>3, MetGrows, SeqOfMore
<1>5. inbox \in Seq(Mail) /\ Len(inbox) \in Nat /\ Len(inbox) <= MaxInbox
  BY DEF ContactsInv, ServerInv
<1>6. inbox' \in Seq(Mail) /\ Len(inbox') <= MaxInbox
  <2>1. CASE AckArrives
    <3>1. PICK i \in DOMAIN inbox : inbox' = RemoveAt(inbox, i)
      BY <2>1 DEF AckArrives
    <3>2. RemoveAt(inbox, i) \in Seq(Mail) /\ Len(RemoveAt(inbox, i)) <= Len(inbox)
      BY <1>5, RemoveAtOfSeq
    <3> QED
      BY <1>5, <3>1, <3>2, ContactsAssumption DEF ContactsAssumption
  <2>2. CASE AckLost
    <3>1. PICK i \in DOMAIN inbox : inbox' = [inbox EXCEPT ![i].seen = TRUE]
      BY <2>2 DEF AckLost
    <3>2. [inbox[i] EXCEPT !.seen = TRUE] \in Mail
      <4>1. inbox[i] \in Mail /\ TRUE \in BOOLEAN
        BY <1>5
      <4> QED
        BY <4>1, MarkedIsMail, Zenon
    <3> QED
      BY <1>5, <3>1, <3>2
  <2> QED
    BY <2>1, <2>2
<1>7. ServerInv'
  BY <1>1, <1>2, <1>6, MetGrows, SeqOfMore DEF ContactsInv, ServerInv
<1> QED
  BY <1>1, <1>2, <1>4, <1>7, OthersKeep DEF ContactsInv, QueuesInv

-----------------------------------------------------------------------------
(* The activities.                                                         *)

LEMMA CallChanges ==
  ASSUME CallsInv, Met \subseteq Met', NEW t \in Threads,
         call' \in [Threads -> Calls], FineCall(call'[t], Met'),
         \A u \in Threads \ {t} : call'[u] = call[u]
  PROVE  CallsInv'
<1>1. ASSUME NEW u \in Threads PROVE FineCall(call'[u], Met')
  <2>1. CASE u = t
    BY <2>1
  <2>2. CASE u # t
    BY <2>2, MetGrows DEF CallsInv
  <2> QED
    BY <2>1, <2>2
<1> QED
  BY <1>1 DEF CallsInv

LEMMA StartInv ==
  ASSUME CallsInv, Met' = Met, NEW t \in Threads, NEW p \in Peers,
         NEW o \in {"accept", "card", "request", "remove", "look", "contacts"},
         Start(t, o, p), o = "look" => p \in Met
  PROVE  CallsInv'
<1> DEFINE c == [op |-> o, peer |-> p, answer |-> "waiting", list |-> {}]
<1>1. c \in Calls /\ FineCall(c, Met')
  BY DEF Calls, FineCall
<1>2. call' = [call EXCEPT ![t] = c]
  BY DEF Start
<1> HIDE DEF c
<1>3. call' \in [Threads -> Calls] /\ call'[t] = c
  BY <1>1, <1>2 DEF CallsInv
<1>4. \A u \in Threads \ {t} : call'[u] = call[u]
  BY <1>2 DEF CallsInv
<1> QED
  BY <1>1, <1>3, <1>4, CallChanges

(* The thread is done, or goes on with another call, and knows no list.    *)
LEMMA FinishInv ==
  ASSUME CallsInv, Met' = Met, NEW t \in Threads,
         Finish(t) \/ GoOn(t, "post") \/ GoOn(t, "members")
  PROVE  CallsInv'
<1>1. call[t] \in Calls /\ call \in [Threads -> Calls]
  BY DEF CallsInv
<1>2. NoCall(t) \in Calls /\ NoCall(t).op = "idle"
  BY <1>1 DEF NoCall, Calls
<1>3. /\ call' \in [Threads -> Calls]
      /\ \A u \in Threads \ {t} : call'[u] = call[u]
      /\ call'[t].op \in {"idle", "post", "members"}
  <2>1. CASE Finish(t)
    BY <1>1, <1>2, <2>1 DEF Finish
  <2>2. CASE GoOn(t, "post")
    BY <1>1, <2>2 DEF GoOn, Calls
  <2>3. CASE GoOn(t, "members")
    BY <1>1, <2>3 DEF GoOn, Calls
  <2> QED
    BY <2>1, <2>2, <2>3
<1>4. FineCall(call'[t], Met')
  BY <1>3 DEF FineCall
<1> QED
  BY <1>3, <1>4, CallChanges

LEMMA BeginInv ==
  ASSUME ContactsInv, NEW t \in Threads, Begin(t)
  PROVE  ContactsInv'
<1>1. UNCHANGED server /\ UNCHANGED tables /\ UNCHANGED main /\ UNCHANGED dml
  BY DEF Begin
<1>2. Met' = Met
  BY <1>1 DEF Met, server
<1>3. UNCHANGED moves \/ Move
  BY DEF Begin
<1>4. PICK o \in {"accept", "card", "request", "remove", "look", "contacts"}, p \in Peers :
         Start(t, o, p) /\ (o = "look" => p \in Met)
  <2>1. CASE Refresh(t)
    BY <2>1 DEF Refresh, ContactsInv, CallsInv, Calls
  <2>2. CASE \E p \in Peers : Accept(t, p) \/ Add(t, p) \/ RemoveFriend(t, p) \/ Look(t, p)
    <3>1. PICK p \in Peers : Accept(t, p) \/ Add(t, p) \/ RemoveFriend(t, p) \/ Look(t, p)
      BY <2>2
    <3>2. CASE Accept(t, p)
      BY <3>2 DEF Accept
    <3>3. CASE Add(t, p)
      BY <3>3 DEF Add
    <3>4. CASE RemoveFriend(t, p)
      BY <3>4 DEF RemoveFriend
    <3>5. CASE Look(t, p)
      BY <3>5 DEF Look, ContactsInv, TablesInv
    <3> QED
      BY <3>1, <3>2, <3>3, <3>4, <3>5
  <2> QED
    BY <2>1, <2>2 DEF Begin
<1>5. CallsInv'
  BY <1>2, <1>4, StartInv DEF ContactsInv
<1> QED
  BY <1>1, <1>2, <1>3, <1>5, OthersKeep DEF ContactsInv, QueuesInv

(* What is posted is done after what was posted before.                    *)
LEMMA PostInv ==
  ASSUME dml \in Seq(Fine), NEW s \in Seq(Fine), Post(s)
  PROVE  dml' \in Seq(Fine)
  BY DEF Post

LEMMA UserInv ==
  ASSUME ContactsInv, NEW p \in Peers, DeleteRequest(p) \/ ClearChat(p)
  PROVE  ContactsInv'
<1>1. UNCHANGED server /\ UNCHANGED main /\ UNCHANGED call /\ Move
  BY DEF DeleteRequest, ClearChat
<1>2. Met' = Met
  BY <1>1 DEF Met, server
<1>3. TempDel(p) \in Fine /\ ChatDel(p) \in Fine
  BY FineSteps
<1>4. TablesInv' /\ dml' \in Seq(Fine)
  <2>1. CASE DeleteRequest(p)
    <3>1. <<TempDel(p)>> \in Seq(Fine) /\ dml \in Seq(Fine)
      BY <1>3 DEF ContactsInv, QueuesInv
    <3>2. dml' \in Seq(Fine)
      BY <2>1, <3>1, PostInv DEF DeleteRequest
    <3> QED
      BY <1>2, <2>1, <3>2, OthersKeep DEF DeleteRequest
  <2>2. CASE ClearChat(p)
    BY <1>2, <1>3, <2>2, ApplyKeepsTables DEF ClearChat, ContactsInv, QueuesInv
  <2> QED
    BY <2>1, <2>2
<1>5. dml' \in Seq(Fine')
  BY <1>2, <1>4, MetGrows, SeqOfMore
<1> QED
  BY <1>1, <1>2, <1>4, <1>5, OthersKeep DEF ContactsInv, QueuesInv

(* The server has done its part: what it answers is true of the peer.      *)
LEMMA ReplyInv ==
  ASSUME CallsInv, Met \subseteq Met', NEW t \in Threads,
         NEW a \in {"ok", "already", "error"}, Reply(t, a),
         call[t].op # "contacts",
         call[t].op = "request" /\ a \in {"ok", "already"} => call[t].peer \in Met'
  PROVE  CallsInv'
<1>1. call[t] \in Calls /\ call \in [Threads -> Calls]
  BY DEF CallsInv
<1>2. /\ call' \in [Threads -> Calls]
      /\ \A u \in Threads \ {t} : call'[u] = call[u]
      /\ call'[t].op = call[t].op /\ call'[t].peer = call[t].peer /\ call'[t].answer = a
  BY <1>1 DEF Reply, Calls
<1>3. call[t].op = "look" => call[t].peer \in Met'
  BY DEF CallsInv, FineCall
<1>4. FineCall(call'[t], Met')
  BY <1>2, <1>3 DEF FineCall
<1> QED
  BY <1>2, <1>4, CallChanges

LEMMA AnswerServer ==
  ASSUME ContactsInv, NEW t \in Threads,
         AnswerAccept(t) \/ AnswerRequest(t) \/ AnswerRemove(t) \/ AnswerLook(t) \/ AnswerList(t)
  PROVE  Met \subseteq Met' /\ ServerInv'
<1> DEFINE p == call[t].peer
<1>0. p \in Peers /\ ServerInv
  BY DEF ContactsInv, CallsInv, Calls
<1>1. CASE UNCHANGED server
  <2>1. Met' = Met
    BY <1>1 DEF Met, server
  <2> QED
    BY <1>1, <2>1, OthersKeep
<1>2. ASSUME NEW r \in Relations, Become(p, r), UNCHANGED inbox \/ Push("echo", p)
      PROVE  Met \subseteq Met' /\ ServerInv'
  <2>1. /\ rel' \in [Peers -> Relations]
        /\ past' \in [Peers -> {"stranger", "asked", "agreed"}]
        /\ Met \subseteq Met'
        /\ \A q \in Peers : rel'[q] # "none" => q \in Met'
    BY <1>0, <1>2, BecomeMeets
  <2>2. inbox' \in Seq(Mail') /\ Len(inbox') <= MaxInbox
    <3>1. CASE UNCHANGED inbox
      BY <1>0, <2>1, <3>1, MetGrows, SeqOfMore DEF ServerInv
    <3>2. CASE Push("echo", p)
      <4>1. "echo" \in Features
        BY DEF Features
      <4> QED
        BY <1>0, <2>1, <3>2, <4>1, PushDelivers
    <3> QED
      BY <1>2, <3>1, <3>2
  <2> QED
    BY <2>1, <2>2 DEF ServerInv
<1>3. CASE AnswerAccept(t)
  <2>1. CASE Become(p, "friend") /\ UNCHANGED inbox
    BY <1>2, <2>1 DEF Relations
  <2> QED
    BY <1>1, <1>3, <2>1 DEF AnswerAccept, server
<1>4. CASE AnswerRequest(t)
  <2>1. CASE Become(p, "iAsk") /\ UNCHANGED inbox
    BY <1>2, <2>1 DEF Relations
  <2> QED
    BY <1>1, <1>4, <2>1 DEF AnswerRequest, server
<1>5. CASE AnswerRemove(t)
  <2>1. CASE Become(p, "none") /\ (UNCHANGED inbox \/ Push("echo", p))
    BY <1>2, <2>1 DEF Relations
  <2> QED
    BY <1>1, <1>5, <2>1 DEF AnswerRemove, server
<1>6. CASE AnswerLook(t) \/ AnswerList(t)
  BY <1>1, <1>6 DEF AnswerLook, AnswerList
<1> QED
  BY <1>3, <1>4, <1>5, <1>6

LEMMA AnswerInv ==
  ASSUME ContactsInv, NEW t \in Threads, Answer(t)
  PROVE  ContactsInv'
<1>0. /\ CallsInv /\ call \in [Threads -> Calls] /\ call[t] \in Calls
      /\ call[t].peer \in Peers
      /\ \A q \in Peers : rel[q] # "none" => q \in Met
  BY DEF ContactsInv, ServerInv, CallsInv, Calls
<1>1. UNCHANGED tables /\ UNCHANGED main /\ UNCHANGED dml /\ UNCHANGED moves
  BY DEF Answer
<1>2. Met \subseteq Met' /\ ServerInv'
  BY AnswerServer DEF Answer
<1>3. \A q \in Peers : rel'[q] # "none" => q \in Met'
  BY <1>2 DEF ServerInv
<1>4. CallsInv'
  <2>1. CASE AnswerAccept(t)
    BY <1>0, <1>2, <2>1, ReplyInv DEF AnswerAccept
  <2>2. CASE AnswerRequest(t)
    <3>1. CASE Become(call[t].peer, "iAsk") /\ Reply(t, "ok")
      <4>1. call[t].peer \in Met'
        BY <1>0, <1>3, <3>1 DEF Become, ContactsInv, ServerInv
      <4> QED
        BY <1>0, <1>2, <2>2, <3>1, <4>1, ReplyInv DEF AnswerRequest
    <3>2. CASE rel[call[t].peer] = "friend" /\ Reply(t, "already")
      <4>1. call[t].peer \in Met'
        BY <1>0, <1>2, <3>2
      <4> QED
        BY <1>0, <1>2, <2>2, <3>2, <4>1, ReplyInv DEF AnswerRequest
    <3>3. CASE Reply(t, "error")
      BY <1>0, <1>2, <2>2, <3>3, ReplyInv DEF AnswerRequest
    <3> QED
      BY <2>2, <3>1, <3>2, <3>3 DEF AnswerRequest
  <2>3. CASE AnswerRemove(t)
    BY <1>0, <1>2, <2>3, ReplyInv DEF AnswerRemove
  <2>4. CASE AnswerLook(t)
    BY <1>0, <1>2, <2>4, ReplyInv DEF AnswerLook
  <2>5. CASE AnswerList(t)
    <3>1. PICK w \in SUBSET Peers :
             /\ call' = [call EXCEPT ![t].answer = "ok", ![t].list = w]
             /\ call[t].op = "contacts" => w \subseteq Met
             /\ call[t].op \in {"contacts", "members"}
      <4>1. CASE call[t].op = "contacts"
        <5> DEFINE w == {q \in Peers : rel[q] = "friend"}
        <5>1. w \subseteq Met
          BY <1>0
        <5>2. call' = [call EXCEPT ![t].answer = "ok", ![t].list = w]
          BY <2>5, <4>1 DEF AnswerList
        <5> HIDE DEF w
        <5>3. w \in SUBSET Peers
          BY DEF w
        <5> QED
          BY <4>1, <5>1, <5>2, <5>3
      <4>2. CASE call[t].op = "members"
        BY <2>5, <4>2 DEF AnswerList
      <4> QED
        BY <2>5, <4>1, <4>2 DEF AnswerList
    <3>2. /\ call' \in [Threads -> Calls]
          /\ \A u \in Threads \ {t} : call'[u] = call[u]
          /\ call'[t].op = call[t].op /\ call'[t].list = w
      BY <1>0, <3>1 DEF Calls
    <3>3. FineCall(call'[t], Met')
      BY <1>2, <3>1, <3>2 DEF FineCall
    <3> QED
      BY <1>0, <1>2, <3>2, <3>3, CallChanges
  <2> QED
    BY <2>1, <2>2, <2>3, <2>4, <2>5 DEF Answer
<1> QED
  BY <1>1, <1>2, <1>4, OthersKeep DEF ContactsInv, QueuesInv

(* What a thread writes, or posts, when it has its answer.                 *)
LEMMA CompleteInv ==
  ASSUME ContactsInv, NEW t \in Threads, Complete(t)
  PROVE  ContactsInv'
<1> DEFINE p == call[t].peer
<1>0. /\ CallsInv /\ TablesInv /\ dml \in Seq(Fine) /\ p \in Peers
      /\ call[t] \in Calls /\ FineCall(call[t], Met)
  BY DEF ContactsInv, QueuesInv, CallsInv, Calls
<1>1. UNCHANGED server /\ UNCHANGED main /\ UNCHANGED moves
  BY DEF Complete
<1>2. Met' = Met
  BY <1>1 DEF Met, server
<1>3. /\ Unfriend(p) \in Fine /\ TempDel(p) \in Fine /\ Status(p) \in Fine
      /\ Shift(p) \in Fine /\ ChatAdd(p) \in Fine /\ ChatDel(p) \in Fine
      /\ p \in Met => /\ TempPut(p, "iwant") \in Fine /\ TempPut(p, "iwantGranted") \in Fine
                      /\ Flag({p}, "Y") \in Fine
  BY <1>0, FineSteps DEF Requests
<1>4. ASSUME NEW s \in Fine, Apply(s), UNCHANGED dml
      PROVE  TablesInv' /\ dml' \in Seq(Fine)
  BY <1>0, <1>2, <1>4, ApplyKeepsTables
<1>5. ASSUME NEW s \in Seq(Fine), Post(s), UNCHANGED tables
      PROVE  TablesInv' /\ dml' \in Seq(Fine)
  BY <1>0, <1>2, <1>5, PostInv, OthersKeep
<1>6. TablesInv' /\ dml' \in Seq(Fine)
  <2>1. CASE FinishAccept(t)
    <3>1. <<Status(p), Shift(p), ChatAdd(p)>> \in Seq(Fine)
      BY <1>3
    <3> QED
      BY <1>3, <1>4, <1>5, <2>1, <3>1 DEF FinishAccept, StatusThenPost
  <2>2. CASE FinishCard(t)
    <3>1. CASE UNCHANGED <<tables, dml>>
      BY <1>0, <1>2, <3>1, OthersKeep
    <3> QED
      BY <1>3, <1>4, <2>2, <3>1 DEF FinishCard, StatusThenPost
  <2>3. CASE PostShift(t)
    <3>1. <<Shift(p)>> \in Seq(Fine)
      BY <1>3
    <3> QED
      BY <1>5, <2>3, <3>1 DEF PostShift
  <2>4. CASE FinishRequest(t)
    <3>1. call[t].answer \in {"ok", "already"} =>
             <<TempPut(p, "iwant")>> \in Seq(Fine)
             /\ <<TempPut(p, "iwantGranted"), Flag({p}, "Y")>> \in Seq(Fine)
      BY <1>0, <1>3, <2>4 DEF FinishRequest, FineCall
    <3>2. CASE UNCHANGED <<tables, dml>>
      BY <1>0, <1>2, <3>2, OthersKeep
    <3> QED
      BY <1>5, <2>4, <3>1, <3>2 DEF FinishRequest
  <2>5. CASE FinishRemove(t)
    <3>1. /\ <<Unfriend(p), ChatDel(p), TempDel(p)>> \in Seq(Fine)
          /\ <<Unfriend(p), ChatDel(p)>> \in Seq(Fine)
      BY <1>3
    <3> QED
      BY <1>5, <2>5, <3>1 DEF FinishRemove
  <2>6. CASE FinishLook(t)
    <3>1. Flag({p}, "Y") \in Fine
      BY <1>0, <1>3, <2>6 DEF FinishLook, FineCall
    <3> QED
      BY <1>4, <2>6, <3>1 DEF FinishLook
  <2>7. CASE FinishContacts(t)
    <3>1. call[t].list \in SUBSET Peers /\ call[t].list \subseteq Met
      BY <1>0, <2>7 DEF FinishContacts, FineCall, Calls
    <3>2. Flag(call[t].list, "Y") \in Fine
      BY <3>1, FineLists
    <3> QED
      BY <1>4, <2>7, <3>2 DEF FinishContacts
  <2>8. CASE FinishMembers(t)
    <3>1. Flag(call[t].list, "N") \in Fine
      BY <1>0, FineLists DEF Calls
    <3> QED
      BY <1>4, <2>8, <3>1 DEF FinishMembers
  <2> QED
    BY <2>1, <2>2, <2>3, <2>4, <2>5, <2>6, <2>7, <2>8 DEF Complete
<1>7. Finish(t) \/ GoOn(t, "post") \/ GoOn(t, "members")
  BY DEF Complete, FinishAccept, FinishCard, FinishRequest, FinishRemove, FinishLook,
         FinishContacts, FinishMembers, PostShift, StatusThenPost
<1>8. CallsInv'
  BY <1>0, <1>2, <1>7, FinishInv
<1>9. dml' \in Seq(Fine')
  BY <1>2, <1>6, MetGrows, SeqOfMore
<1> QED
  BY <1>1, <1>2, <1>6, <1>8, <1>9, OthersKeep DEF ContactsInv, QueuesInv

LEMMA EndInv ==
  ASSUME ContactsInv, End
  PROVE  ContactsInv'
<1>1. UNCHANGED <<rel, past>> /\ UNCHANGED tables /\ UNCHANGED moves
  BY DEF End
<1>2. Met' = Met
  BY <1>1 DEF Met
<1>3. inbox' \in Seq(Mail) /\ Len(inbox') <= MaxInbox
  BY UnseenIsMail DEF ContactsInv, ServerInv, End
<1>4. ServerInv'
  BY <1>1, <1>2, <1>3, MetGrows, SeqOfMore DEF ContactsInv, ServerInv
<1>5. main' \in Seq(Fine') /\ dml' \in Seq(Fine')
  BY DEF End
<1>6. CallsInv'
  <2>1. \A t \in Threads : NoCall(t) \in Calls /\ FineCall(NoCall(t), Met')
    BY DEF ContactsInv, CallsInv, NoCall, Calls, FineCall
  <2>2. call' = [t \in Threads |-> NoCall(t)]
    BY DEF End
  <2>3. call' \in [Threads -> Calls] /\ \A t \in Threads : call'[t] = NoCall(t)
    BY <2>1, <2>2
  <2> QED
    BY <2>1, <2>3 DEF CallsInv
<1> QED
  BY <1>1, <1>2, <1>4, <1>5, <1>6, OthersKeep DEF ContactsInv, QueuesInv

LEMMA NoAnswerInv ==
  ASSUME ContactsInv, NEW t \in Threads, NoAnswer(t)
  PROVE  ContactsInv'
<1>1. CASE End
  BY <1>1, EndInv
<1>2. CASE /\ Finish(t) \/ GoOn(t, "members")
           /\ UNCHANGED <<server, tables, main, dml, moves>>
  <2>1. UNCHANGED server /\ UNCHANGED tables /\ UNCHANGED main /\ UNCHANGED dml /\ UNCHANGED moves
    BY <1>2
  <2>2. Met' = Met
    BY <2>1 DEF Met, server
  <2>3. CallsInv'
    BY <1>2, <2>2, FinishInv DEF ContactsInv
  <2> QED
    BY <2>1, <2>2, <2>3, OthersKeep DEF ContactsInv, QueuesInv
<1> QED
  BY <1>1, <1>2 DEF NoAnswer

-----------------------------------------------------------------------------
LEMMA ContactsInvInitially == Init => ContactsInv
<1> SUFFICES ASSUME Init PROVE ContactsInv
  OBVIOUS
<1>1. ServerInv
  BY ContactsAssumption DEF ContactsAssumption, Init, ServerInv, Met, Relations
<1>2. TablesInv
  BY DEF Init, TablesInv, Met, Flags
<1>3. QueuesInv
  BY DEF Init, QueuesInv
<1>4. CallsInv
  BY DEF Init, CallsInv, Calls, FineCall
<1> QED
  BY <1>1, <1>2, <1>3, <1>4, ContactsAssumption DEF ContactsAssumption, Init, ContactsInv

LEMMA ContactsInvInductive == ContactsInv /\ [Next]_vars => ContactsInv'
<1> SUFFICES ASSUME ContactsInv, [Next]_vars PROVE ContactsInv'
  OBVIOUS
<1>1. CASE UNCHANGED vars
  <2>1. /\ UNCHANGED server /\ UNCHANGED tables /\ UNCHANGED main /\ UNCHANGED dml
        /\ UNCHANGED call /\ UNCHANGED moves
    BY <1>1 DEF vars
  <2>2. Met' = Met
    BY <2>1 DEF Met, server
  <2> QED
    BY <2>1, <2>2, OthersKeep DEF ContactsInv, QueuesInv
<1>2. CASE Peer \/ Reconnect
  BY <1>2, PeerInv, ReconnectInv
<1>3. CASE Receive \/ MainWrites \/ AckArrives \/ AckLost \/ WorkerWrites
  BY <1>3, ReceiveInv, MainWritesInv, AckInv, WorkerWritesInv
<1>4. CASE \E p \in Peers : DeleteRequest(p) \/ ClearChat(p)
  BY <1>4, UserInv
<1>5. CASE \E t \in Threads : Begin(t) \/ Answer(t) \/ Complete(t) \/ NoAnswer(t)
  BY <1>5, BeginInv, AnswerInv, CompleteInv, NoAnswerInv
<1>6. CASE End
  BY <1>6, EndInv
<1> QED
  BY <1>1, <1>2, <1>3, <1>4, <1>5, <1>6 DEF Next

LEMMA ContactsInvariant == Spec => []ContactsInv
  BY ContactsInvInitially, ContactsInvInductive, PTL DEF Spec

(***************************************************************************)
(* Every table, queue and call holds what its type says, whoever writes.   *)
(***************************************************************************)
THEOREM ContactsTypeCorrect == Spec => []TypeOK
<1>1. Fine \subseteq Steps /\ Mail \subseteq Packets
  BY DEF Fine, Mail
<1>2. ContactsInv => TypeOK
  BY <1>1, SeqOfMore
     DEF ContactsInv, ServerInv, TablesInv, QueuesInv, CallsInv, TypeOK
<1> QED
  BY <1>2, ContactsInvariant, PTL

(***************************************************************************)
(* However the packets, the posted steps, the answers and the ends of the  *)
(* process fall: no row says 'Y' for somebody the user never had to do     *)
(* with, neither a member of a group nor a chance correspondent.           *)
(***************************************************************************)
THEOREM ContactsNoStranger == Spec => []NoStrangerIsFriend
<1>1. ContactsInv => NoStrangerIsFriend
  BY DEF ContactsInv, TablesInv, Met, NoStrangerIsFriend
<1> QED
  BY <1>1, ContactsInvariant, PTL

-----------------------------------------------------------------------------
(* Who has a row of the contact table, or had one until the request was    *)
(* deleted; who has a request or is Rowed.                                 *)
Rowed == {p \in Peers : contact[p] # "none" \/ p \in withdrawn}
Known == {p \in Peers : temp[p] # "none"} \cup Rowed

(* A queue in which each chat to be stored is of somebody known who has a  *)
(* row, or will have one by a shift queued before it.                      *)
WellQueued(q, rowed, known) ==
    \A i \in 1 .. Len(q) :
       /\ q[i].op \in {"flag", "unfriend"} => q[i].val # "none"
       /\ q[i].op = "chatAdd" =>
             /\ q[i].who \subseteq known
             /\ q[i].who \subseteq rowed \/ \E j \in 1 .. (i - 1) : q[j].op = "shift"

(* ChatInv is inductive, together with ContactsInv.                        *)
ChatInv ==
    /\ WellQueued(main, Rowed, Known) /\ WellQueued(dml, Rowed, Known)
    /\ \A t \in Threads : call[t].op = "accept" => call[t].peer \in Known
    /\ ChatHasContact

(* More rows do a queue no harm,                                           *)
LEMMA WellQueuedLonger ==
  ASSUME NEW q, NEW rowed, NEW known, NEW rowed2, NEW known2,
         WellQueued(q, rowed, known), rowed \subseteq rowed2, known \subseteq known2
  PROVE  WellQueued(q, rowed2, known2)
  BY DEF WellQueued

(* nor does taking its first step, when that was done,                     *)
LEMMA WellQueuedTail ==
  ASSUME NEW S, NEW q \in Seq(S), q # <<>>, NEW rowed, NEW known, NEW rowed2, NEW known2,
         WellQueued(q, rowed, known), rowed \subseteq rowed2, known \subseteq known2,
         Head(q).op = "shift" => known \subseteq rowed2
  PROVE  WellQueued(Tail(q), rowed2, known2)
<1> SUFFICES ASSUME NEW i \in 1 .. Len(Tail(q))
             PROVE  /\ Tail(q)[i].op \in {"flag", "unfriend"} => Tail(q)[i].val # "none"
                    /\ Tail(q)[i].op = "chatAdd" =>
                         /\ Tail(q)[i].who \subseteq known2
                         /\ \/ Tail(q)[i].who \subseteq rowed2
                            \/ \E j \in 1 .. (i - 1) : Tail(q)[j].op = "shift"
  BY DEF WellQueued
<1>1. /\ i + 1 \in 1 .. Len(q) /\ Tail(q)[i] = q[i + 1] /\ i \in Nat /\ i >= 1
      /\ Len(Tail(q)) = Len(q) - 1
  OBVIOUS
<1>2. /\ q[i + 1].op \in {"flag", "unfriend"} => q[i + 1].val # "none"
      /\ q[i + 1].op = "chatAdd" =>
             /\ q[i + 1].who \subseteq known
             /\ \/ q[i + 1].who \subseteq rowed
                \/ \E j \in 1 .. i : q[j].op = "shift"
  <2>1. (i + 1) - 1 = i
    BY <1>1
  <2> QED
    BY <1>1, <2>1 DEF WellQueued
<1>3. ASSUME NEW j \in 1 .. i, q[j].op = "shift"
      PROVE  known \subseteq rowed2 \/ \E k \in 1 .. (i - 1) : Tail(q)[k].op = "shift"
  <2>1. CASE j = 1
    BY <1>3, <2>1
  <2>2. CASE j # 1
    <3>1. j - 1 \in 1 .. (i - 1) /\ j - 1 \in 1 .. Len(Tail(q))
      BY <1>1, <2>2
    <3>2. Tail(q)[j - 1] = q[j]
      BY <1>1, <3>1
    <3> QED
      BY <1>3, <3>1, <3>2
  <2> QED
    BY <2>1, <2>2
<1> QED
  BY <1>1, <1>2, <1>3

(* and queues are joined well.                                             *)
LEMMA WellQueuedConcat ==
  ASSUME NEW S, NEW a \in Seq(S), NEW b \in Seq(S), NEW rowed, NEW known,
         WellQueued(a, rowed, known), WellQueued(b, rowed, known)
  PROVE  WellQueued(a \o b, rowed, known)
<1> DEFINE q == a \o b
<1> SUFFICES ASSUME NEW i \in 1 .. Len(q)
             PROVE  /\ q[i].op \in {"flag", "unfriend"} => q[i].val # "none"
                    /\ q[i].op = "chatAdd" =>
                         /\ q[i].who \subseteq known
                         /\ \/ q[i].who \subseteq rowed
                            \/ \E j \in 1 .. (i - 1) : q[j].op = "shift"
  BY DEF WellQueued
<1>0. /\ Len(a) \in Nat /\ Len(b) \in Nat /\ Len(q) = Len(a) + Len(b) /\ i \in Nat
      /\ \A k \in 1 .. Len(a) : q[k] = a[k]
      /\ \A k \in 1 .. Len(b) : q[Len(a) + k] = b[k]
  OBVIOUS
<1> HIDE DEF q
<1>1. CASE i <= Len(a)
  <2>1. i \in 1 .. Len(a) /\ \A j \in 1 .. (i - 1) : j \in 1 .. Len(a)
    BY <1>0, <1>1
  <2> QED
    BY <1>0, <2>1 DEF WellQueued
<1>2. CASE i > Len(a)
  <2> DEFINE n == i - Len(a)
  <2>1. n \in 1 .. Len(b) /\ q[i] = b[n] /\ i = Len(a) + n
    BY <1>0, <1>2
  <2>2. \A j \in 1 .. (n - 1) : /\ Len(a) + j \in 1 .. (i - 1)
                                /\ q[Len(a) + j] = b[j]
    <3> SUFFICES ASSUME NEW j \in 1 .. (n - 1)
                 PROVE  Len(a) + j \in 1 .. (i - 1) /\ q[Len(a) + j] = b[j]
      OBVIOUS
    <3> HIDE DEF n
    <3>1. j \in 1 .. Len(b) /\ Len(a) + j \in 1 .. (i - 1)
      BY <1>0, <2>1
    <3> QED
      BY <1>0, <3>1
  <2> HIDE DEF n
  <2> QED
    BY <2>1, <2>2 DEF WellQueued
<1> QED
  BY <1>0, <1>1, <1>2

(* A step on the tables takes nobody's row, and a shift gives one to       *)
(* everybody known.                                                        *)
LEMMA ApplyRows ==
  ASSUME TablesInv, NEW s \in Fine, Apply(s),
         s.op \in {"flag", "unfriend"} => s.val # "none"
  PROVE  /\ Rowed \subseteq Rowed' /\ Known \subseteq Known'
         /\ s.op = "shift" => Known \subseteq Rowed'
         /\ ChatHasContact /\ (s.op = "chatAdd" => s.who \subseteq Rowed) => ChatHasContact'
<1>1. /\ s.op = "tempPut" => s.val \in Requests
      /\ s.op = "tempDel" => s.val = "none"
  BY DEF Fine
<1>2. ASSUME NEW p \in Peers
      PROVE  /\ contact[p] # "none" => contact'[p] # "none"
             /\ s.op = "shift" /\ temp[p] # "none" => contact'[p] # "none"
  BY DEF Apply, ContactAfter, Shifted
<1>3. withdrawn \subseteq withdrawn'
  BY DEF Apply
<1>4. Rowed \subseteq Rowed'
  BY <1>2, <1>3 DEF Rowed
<1>5. ASSUME NEW p \in Peers, temp[p] # "none"
      PROVE  p \in Known'
  <2>1. CASE s.op = "tempDel" /\ p \in s.who
    <3>1. contact[p] # "none" \/ p \in withdrawn'
      BY <2>1 DEF Apply
    <3> QED
      BY <1>2, <3>1 DEF Known, Rowed
  <2>2. CASE ~(s.op = "tempDel" /\ p \in s.who)
    <3>1. temp[p] \in Requests
      BY <1>5 DEF TablesInv
    <3>2. temp'[p] # "none"
      BY <1>1, <2>2, <3>1 DEF Apply, TempAfter, Granted, Requests
    <3> QED
      BY <3>2 DEF Known
  <2> QED
    BY <2>1, <2>2
<1>6. Known \subseteq Known'
  BY <1>4, <1>5 DEF Known
<1>7. s.op = "shift" => Known \subseteq Rowed'
  BY <1>2, <1>4 DEF Known, Rowed
<1>8. ASSUME ChatHasContact, s.op = "chatAdd" => s.who \subseteq Rowed,
             NEW p \in Peers, chat'[p], contact'[p] = "none"
      PROVE  p \in withdrawn'
  <2>1. contact[p] = "none"
    BY <1>2, <1>8
  <2>2. CASE chat[p]
    BY <1>3, <1>8, <2>1, <2>2 DEF ChatHasContact
  <2>3. CASE ~chat[p]
    <3>1. p \in s.who /\ s.op = "chatAdd"
      BY <1>8, <2>3 DEF Apply, ChatAfter
    <3> QED
      BY <1>3, <1>8, <2>1, <3>1 DEF Rowed
  <2> QED
    BY <2>2, <2>3
<1> QED
  BY <1>4, <1>6, <1>7, <1>8 DEF ChatHasContact

(* Without a step on the tables all this stays.                            *)
LEMMA SameTables ==
  ASSUME UNCHANGED tables
  PROVE  Rowed' = Rowed /\ Known' = Known /\ (ChatHasContact => ChatHasContact')
  BY DEF tables, Rowed, Known, ChatHasContact

(* A step that stores no chat keeps ChatHasContact.                        *)
LEMMA WritesChatInv ==
  ASSUME ContactsInv, ChatInv, NEW s \in Fine, Apply(s),
         s.op \in {"flag", "unfriend"} => s.val # "none", s.op # "chatAdd"
  PROVE  /\ Rowed \subseteq Rowed' /\ Known \subseteq Known' /\ ChatHasContact'
  BY ApplyRows DEF ContactsInv, ChatInv

(* Posted steps of the activities: none stores a chat, but for the one of  *)
(* FinishAccept.                                                           *)
LEMMA PostChat ==
  ASSUME ContactsInv, ChatInv, NEW s \in Seq(Fine), Post(s), WellQueued(s, Rowed, Known),
         UNCHANGED tables
  PROVE  WellQueued(dml', Rowed', Known')
  BY WellQueuedConcat, SameTables DEF ContactsInv, QueuesInv, ChatInv, Post

(* Each action keeps ChatInv.                                              *)
LEMMA ReceiveChat == ContactsInv /\ ChatInv /\ Receive => ChatInv'
<1> SUFFICES ASSUME ContactsInv, ChatInv, Receive PROVE ChatInv'
  OBVIOUS
<1>1. PICK i \in DOMAIN inbox : main' = Todo(inbox[i].feature, inbox[i].from)
  BY DEF Receive
<1> DEFINE f == inbox[i].feature
           p == inbox[i].from
<1>2. f \in Features /\ p \in Peers
  <2>1. inbox[i] \in Mail
    BY DEF ContactsInv, ServerInv
  <2> QED
    BY <2>1 DEF Mail, Packets
<1>3. UNCHANGED tables /\ UNCHANGED dml /\ UNCHANGED call
  BY DEF Receive
<1>4. main' = Todo(f, p)
  BY <1>1
<1> HIDE DEF f, p
<1>5. WellQueued(main', Rowed, Known)
  <2>1. CASE f = "msg"
    <3>1. CASE contact[p] = "Y"
      <4>1. p \in Rowed /\ p \in Known /\ main' = <<ChatAdd(p), Ack>>
        BY <1>2, <1>4, <2>1, <3>1 DEF Todo, OnMsg, Rowed, Known
      <4> QED
        BY <4>1 DEF WellQueued, ChatAdd, Ack, Step
    <3>2. CASE contact[p] # "Y"
      <4>1. main' = <<Ack>>
        BY <1>4, <2>1, <3>2 DEF Todo, OnMsg
      <4> QED
        BY <4>1 DEF WellQueued, Ack, Step
    <3> QED
      BY <3>1, <3>2
  <2>2. CASE f = "agree"
    <3>1. CASE temp[p] = "none"
      <4>1. main' = <<Ack>>
        BY <1>4, <2>2, <3>1 DEF Todo, OnAgree
      <4> QED
        BY <4>1 DEF WellQueued, Ack, Step
    <3>2. CASE temp[p] # "none"
      <4>1. p \in Known /\ main' = <<Shift(p), Status(p), ChatAdd(p), Ack>>
        BY <1>2, <1>4, <2>2, <3>2 DEF Todo, OnAgree, Known
      <4> DEFINE q == <<Shift(p), Status(p), ChatAdd(p), Ack>>
      <4>2. /\ Len(q) = 4 /\ q[1].op = "shift" /\ q[2].op = "status"
            /\ q[3].op = "chatAdd" /\ q[3].who = {p} /\ q[4].op = "ack"
        BY DEF Shift, Status, ChatAdd, Ack, Step
      <4> HIDE DEF q
      <4>3. WellQueued(q, Rowed, Known)
        BY <4>1, <4>2 DEF WellQueued
      <4> QED
        BY <4>1, <4>3 DEF q
    <3> QED
      BY <3>1, <3>2
  <2>3. CASE f \in {"add", "refuse", "remove", "group", "echo"}
    <3>1. \/ main' = <<TempPut(p, "wanti"), Ack>> \/ main' = <<Ack>>
          \/ main' = <<Unfriend(p), ChatDel(p), Ack>>
          \/ main' = <<Flag({p}, "N"), Ack>> \/ main' = <<Return>>
      BY <1>4, <2>3 DEF Todo, OnRemove
    <3> QED
      BY <3>1 DEF WellQueued, TempPut, Unfriend, ChatDel, Flag, Ack, Return, Step
  <2> QED
    BY <1>2, <2>1, <2>2, <2>3 DEF Features
<1> QED
  BY <1>3, <1>5, SameTables DEF ChatInv

(* The threads that write take the first step of a queue.                  *)
LEMMA QueueChat ==
  ASSUME ContactsInv, ChatInv,
         \/ MainWrites \/ WorkerWrites \/ AckArrives \/ AckLost
  PROVE  ChatInv'
<1>0. /\ TablesInv /\ main \in Seq(Fine) /\ dml \in Seq(Fine)
      /\ WellQueued(main, Rowed, Known) /\ WellQueued(dml, Rowed, Known) /\ ChatHasContact
      /\ \A t \in Threads : call[t].op = "accept" => call[t].peer \in Known
  BY DEF ContactsInv, QueuesInv, ChatInv
<1>1. ASSUME NEW q \in Seq(Fine), q # <<>>, WellQueued(q, Rowed, Known), Apply(Head(q))
      PROVE  /\ Rowed \subseteq Rowed' /\ Known \subseteq Known' /\ ChatHasContact'
             /\ WellQueued(Tail(q), Rowed', Known')
  <2>1. Head(q) \in Fine /\ 1 \in 1 .. Len(q) /\ Head(q) = q[1]
    BY <1>1
  <2>2. /\ Head(q).op \in {"flag", "unfriend"} => Head(q).val # "none"
        /\ Head(q).op = "chatAdd" => Head(q).who \subseteq Rowed
    BY <1>1, <2>1 DEF WellQueued
  <2>3. /\ Rowed \subseteq Rowed' /\ Known \subseteq Known' /\ ChatHasContact'
        /\ Head(q).op = "shift" => Known \subseteq Rowed'
    BY <1>0, <1>1, <2>1, <2>2, ApplyRows
  <2> QED
    BY <1>1, <2>3, WellQueuedTail
<1>2. CASE MainWrites
  <2>1. main # <<>> /\ Apply(Head(main)) /\ main' = Tail(main) /\ UNCHANGED dml /\ UNCHANGED call
    BY <1>2 DEF MainWrites
  <2>2. /\ Rowed \subseteq Rowed' /\ Known \subseteq Known' /\ ChatHasContact'
        /\ WellQueued(main', Rowed', Known')
    BY <1>0, <1>1, <2>1
  <2>3. WellQueued(dml', Rowed', Known')
    BY <1>0, <2>1, <2>2, WellQueuedLonger
  <2> QED
    BY <1>0, <2>1, <2>2, <2>3 DEF ChatInv
<1>3. CASE WorkerWrites
  <2>1. dml # <<>> /\ Apply(Head(dml)) /\ dml' = Tail(dml) /\ UNCHANGED main /\ UNCHANGED call
    BY <1>3 DEF WorkerWrites
  <2>2. /\ Rowed \subseteq Rowed' /\ Known \subseteq Known' /\ ChatHasContact'
        /\ WellQueued(dml', Rowed', Known')
    BY <1>0, <1>1, <2>1
  <2>3. WellQueued(main', Rowed', Known')
    BY <1>0, <2>1, <2>2, WellQueuedLonger
  <2> QED
    BY <1>0, <2>1, <2>2, <2>3 DEF ChatInv
<1>4. CASE AckArrives \/ AckLost
  <2>1. /\ main # <<>> /\ Head(main).op \in {"ack", "return"} /\ main' = Tail(main)
        /\ UNCHANGED tables /\ UNCHANGED dml /\ UNCHANGED call
    BY <1>4 DEF AckArrives, AckLost
  <2>2. WellQueued(Tail(main), Rowed, Known)
    BY <1>0, <2>1, WellQueuedTail
  <2> QED
    BY <1>0, <2>1, <2>2, SameTables DEF ChatInv
<1> QED
  BY <1>2, <1>3, <1>4

(* Steps by which no queue gets longer and no table changes.               *)
LEMMA QuietChat ==
  ASSUME ChatInv, UNCHANGED tables,
         main' \in {main, <<>>}, dml' \in {dml, <<>>},
         \A t \in Threads : call'[t].op = "accept" =>
             call'[t].peer \in Known \/ (call[t].op = "accept" /\ call'[t].peer = call[t].peer)
  PROVE  ChatInv'
<1>1. WellQueued(<<>>, Rowed, Known)
  BY DEF WellQueued
<1>2. Rowed' = Rowed /\ Known' = Known /\ ChatHasContact'
  BY SameTables DEF ChatInv
<1> QED
  BY <1>1, <1>2 DEF ChatInv

(* The user deletes a request, or clears a chat.                           *)
LEMMA UserChat ==
  ASSUME ContactsInv, ChatInv, NEW p \in Peers, DeleteRequest(p) \/ ClearChat(p)
  PROVE  ChatInv'
<1>0. TempDel(p) \in Fine /\ ChatDel(p) \in Fine
  BY FineSteps
<1>1. CASE DeleteRequest(p)
  <2>1. Post(<<TempDel(p)>>) /\ UNCHANGED tables /\ UNCHANGED main /\ UNCHANGED call
    BY <1>1 DEF DeleteRequest
  <2>2. <<TempDel(p)>> \in Seq(Fine) /\ WellQueued(<<TempDel(p)>>, Rowed, Known)
    BY <1>0 DEF WellQueued, TempDel, Step
  <2>3. WellQueued(dml', Rowed', Known')
    BY <2>1, <2>2, PostChat
  <2> QED
    BY <2>1, <2>3, SameTables DEF ChatInv
<1>2. CASE ClearChat(p)
  <2>1. Apply(ChatDel(p)) /\ UNCHANGED main /\ UNCHANGED dml /\ UNCHANGED call
    BY <1>2 DEF ClearChat
  <2>2. Rowed \subseteq Rowed' /\ Known \subseteq Known' /\ ChatHasContact'
    BY <1>0, <2>1, WritesChatInv DEF ChatDel, Step
  <2> QED
    BY <2>1, <2>2, WellQueuedLonger DEF ChatInv
<1> QED
  BY <1>1, <1>2

(* A thread that begins to accept somebody has read the request.           *)
LEMMA StartChat ==
  ASSUME ContactsInv, NEW t \in Threads, Begin(t)
  PROVE  /\ \A u \in Threads \ {t} : call'[u] = call[u]
         /\ call'[t].op = "accept" => call'[t].peer \in Known
<1>0. call \in [Threads -> Calls] /\ call[t].peer \in Peers
  BY DEF ContactsInv, CallsInv, Calls
<1>1. ASSUME NEW o, NEW p \in Peers, Start(t, o, p), o = "accept" => p \in Known
      PROVE  /\ \A u \in Threads \ {t} : call'[u] = call[u]
             /\ call'[t].op = "accept" => call'[t].peer \in Known
  BY <1>0, <1>1 DEF Start
<1>2. CASE Refresh(t)
  <2>1. Start(t, "contacts", call[t].peer)
    BY <1>2 DEF Refresh
  <2> QED
    BY <1>0, <1>1, <2>1
<1>3. CASE \E p \in Peers : Accept(t, p) \/ Add(t, p) \/ RemoveFriend(t, p) \/ Look(t, p)
  <2>1. PICK p \in Peers : Accept(t, p) \/ Add(t, p) \/ RemoveFriend(t, p) \/ Look(t, p)
    BY <1>3
  <2>2. CASE Accept(t, p)
    <3>1. p \in Known /\ Start(t, "accept", p)
      BY <2>2 DEF Accept, Known
    <3> QED
      BY <1>1, <3>1
  <2>3. CASE Add(t, p)
    BY <1>1, <2>3 DEF Add
  <2>4. CASE RemoveFriend(t, p)
    BY <1>1, <2>4 DEF RemoveFriend
  <2>5. CASE Look(t, p)
    BY <1>1, <2>5 DEF Look
  <2> QED
    BY <2>1, <2>2, <2>3, <2>4, <2>5
<1> QED
  BY <1>2, <1>3 DEF Begin

(* An answer leaves every thread with what it was about.                   *)
LEMMA AnswerKeepsPeer ==
  ASSUME ContactsInv, NEW t \in Threads, Answer(t), NEW u \in Threads
  PROVE  call'[u].op = call[u].op /\ call'[u].peer = call[u].peer
<1>1. call \in [Threads -> Calls] /\ call[t] \in Calls
  BY DEF ContactsInv, CallsInv
<1>2. ASSUME NEW a, Reply(t, a)
      PROVE  call'[u].op = call[u].op /\ call'[u].peer = call[u].peer
  BY <1>1, <1>2 DEF Reply, Calls
<1>3. ASSUME NEW w, call' = [call EXCEPT ![t].answer = "ok", ![t].list = w]
      PROVE  call'[u].op = call[u].op /\ call'[u].peer = call[u].peer
  BY <1>1, <1>3 DEF Calls
<1>4. CASE AnswerAccept(t) \/ AnswerRequest(t) \/ AnswerRemove(t) \/ AnswerLook(t)
  BY <1>2, <1>4 DEF AnswerAccept, AnswerRequest, AnswerRemove, AnswerLook
<1>5. CASE AnswerList(t)
  BY <1>3, <1>5 DEF AnswerList
<1> QED
  BY <1>4, <1>5 DEF Answer

(* A thread that is done, or goes on, accepts nobody any more.             *)
LEMMA DoneThread ==
  ASSUME ContactsInv, NEW t \in Threads,
         Finish(t) \/ GoOn(t, "post") \/ GoOn(t, "members"), NEW u \in Threads
  PROVE  call'[u].op = "accept" => call[u].op = "accept" /\ call'[u].peer = call[u].peer
<1>1. call \in [Threads -> Calls] /\ call[t] \in Calls
  BY DEF ContactsInv, CallsInv
<1>2. CASE Finish(t)
  <2>1. NoCall(t).op = "idle"
    BY <1>1 DEF NoCall, Calls
  <2>2. call'[u] = IF u = t THEN NoCall(t) ELSE call[u]
    BY <1>1, <1>2 DEF Finish
  <2> QED
    BY <2>1, <2>2
<1>3. ASSUME NEW o \in {"post", "members"}, GoOn(t, o)
      PROVE  call'[u].op = "accept" => call[u].op = "accept" /\ call'[u].peer = call[u].peer
  BY <1>1, <1>3 DEF GoOn, Calls
<1> QED
  BY <1>2, <1>3

(* A thread that has its answer posts its steps, the chat last.            *)
LEMMA CompleteChat ==
  ASSUME ContactsInv, ChatInv, NEW t \in Threads, Complete(t)
  PROVE  ChatInv'
<1> DEFINE p == call[t].peer
<1>0. /\ p \in Peers /\ call[t] \in Calls /\ FineCall(call[t], Met)
      /\ WellQueued(main, Rowed, Known) /\ WellQueued(dml, Rowed, Known) /\ ChatHasContact
      /\ \A u \in Threads : call[u].op = "accept" => call[u].peer \in Known
  BY DEF ContactsInv, CallsInv, Calls, ChatInv
<1>1. Finish(t) \/ GoOn(t, "post") \/ GoOn(t, "members")
  BY DEF Complete, FinishAccept, FinishCard, FinishRequest, FinishRemove, FinishLook,
         FinishContacts, FinishMembers, PostShift, StatusThenPost
<1>2. \A u \in Threads :
         call'[u].op = "accept" => call[u].op = "accept" /\ call'[u].peer = call[u].peer
  BY <1>1, DoneThread
<1>3. UNCHANGED main
  BY DEF Complete
<1>4. /\ Unfriend(p) \in Fine /\ TempDel(p) \in Fine /\ Status(p) \in Fine
      /\ Shift(p) \in Fine /\ ChatAdd(p) \in Fine /\ ChatDel(p) \in Fine
      /\ p \in Met => /\ TempPut(p, "iwant") \in Fine /\ TempPut(p, "iwantGranted") \in Fine
                      /\ Flag({p}, "Y") \in Fine
  BY <1>0, FineSteps DEF Requests
<1>5. ASSUME NEW s \in Fine, Apply(s), UNCHANGED dml, s.op \in {"flag", "status"},
             s.op = "flag" => s.val # "none"
      PROVE  ChatInv'
  <2>1. Rowed \subseteq Rowed' /\ Known \subseteq Known' /\ ChatHasContact'
    BY <1>5, WritesChatInv
  <2>2. WellQueued(main', Rowed', Known') /\ WellQueued(dml', Rowed', Known')
    BY <1>0, <1>3, <1>5, <2>1, WellQueuedLonger
  <2> QED
    BY <1>0, <1>2, <2>1, <2>2 DEF ChatInv
<1>6. ASSUME NEW s \in Seq(Fine), Post(s), UNCHANGED tables, WellQueued(s, Rowed, Known)
      PROVE  ChatInv'
  <2>1. WellQueued(dml', Rowed', Known')
    BY <1>6, PostChat
  <2> QED
    BY <1>0, <1>2, <1>3, <1>6, <2>1, SameTables DEF ChatInv
<1>7. CASE UNCHANGED <<tables, dml>>
  <2>1. UNCHANGED tables /\ UNCHANGED dml
    BY <1>7
  <2> QED
    BY <1>0, <1>2, <1>3, <2>1, SameTables DEF ChatInv
<1>8. Status(p).op = "status" /\ Flag({p}, "Y").op = "flag" /\ Flag({p}, "Y").val = "Y"
  BY DEF Status, Flag, Step
<1>9. CASE FinishAccept(t)
  <2> DEFINE q == <<Status(p), Shift(p), ChatAdd(p)>>
  <2>1. p \in Known
    BY <1>0, <1>9 DEF FinishAccept
  <2>2. /\ Len(q) = 3 /\ q[1].op = "status" /\ q[2].op = "shift"
        /\ q[3].op = "chatAdd" /\ q[3].who = {p}
    BY DEF Shift, Status, ChatAdd, Step
  <2>3. q \in Seq(Fine)
    BY <1>4
  <2>4. (Post(q) /\ UNCHANGED tables) \/ StatusThenPost(t)
    BY <1>9 DEF FinishAccept
  <2> HIDE DEF q
  <2>5. WellQueued(q, Rowed, Known)
    BY <2>1, <2>2 DEF WellQueued
  <2> QED
    BY <1>4, <1>5, <1>6, <1>8, <2>3, <2>4, <2>5 DEF StatusThenPost
<1>10. CASE FinishCard(t)
  BY <1>4, <1>5, <1>7, <1>8, <1>10 DEF FinishCard, StatusThenPost
<1>11. CASE PostShift(t)
  <2>1. <<Shift(p)>> \in Seq(Fine) /\ WellQueued(<<Shift(p)>>, Rowed, Known)
    BY <1>4 DEF WellQueued, Shift, Step
  <2> QED
    BY <1>6, <1>11, <2>1 DEF PostShift
<1>12. CASE FinishRequest(t)
  <2>1. call[t].answer \in {"ok", "already"} =>
           <<TempPut(p, "iwant")>> \in Seq(Fine)
           /\ <<TempPut(p, "iwantGranted"), Flag({p}, "Y")>> \in Seq(Fine)
    BY <1>0, <1>4, <1>12 DEF FinishRequest, FineCall
  <2>2. /\ WellQueued(<<TempPut(p, "iwant")>>, Rowed, Known)
        /\ WellQueued(<<TempPut(p, "iwantGranted"), Flag({p}, "Y")>>, Rowed, Known)
    BY DEF WellQueued, TempPut, Flag, Step
  <2> QED
    BY <1>6, <1>7, <1>12, <2>1, <2>2 DEF FinishRequest
<1>13. CASE FinishRemove(t)
  <2>1. /\ <<Unfriend(p), ChatDel(p), TempDel(p)>> \in Seq(Fine)
        /\ <<Unfriend(p), ChatDel(p)>> \in Seq(Fine)
    BY <1>4
  <2>2. /\ WellQueued(<<Unfriend(p), ChatDel(p), TempDel(p)>>, Rowed, Known)
        /\ WellQueued(<<Unfriend(p), ChatDel(p)>>, Rowed, Known)
    BY DEF WellQueued, Unfriend, ChatDel, TempDel, Step
  <2> QED
    BY <1>6, <1>13, <2>1, <2>2 DEF FinishRemove
<1>14. CASE FinishLook(t)
  <2>1. Flag({p}, "Y") \in Fine
    BY <1>0, <1>4, <1>14 DEF FinishLook, FineCall
  <2> QED
    BY <1>5, <1>8, <1>14, <2>1 DEF FinishLook
<1>15. CASE FinishContacts(t)
  <2>1. call[t].list \in SUBSET Peers /\ call[t].list \subseteq Met
    BY <1>0, <1>15 DEF FinishContacts, FineCall, Calls
  <2>2. Flag(call[t].list, "Y") \in Fine
    BY <2>1, FineLists
  <2>3. Flag(call[t].list, "Y").op = "flag" /\ Flag(call[t].list, "Y").val = "Y"
    BY DEF Flag, Step
  <2> QED
    BY <1>5, <1>15, <2>2, <2>3 DEF FinishContacts
<1>16. CASE FinishMembers(t)
  <2>1. Flag(call[t].list, "N") \in Fine
    BY <1>0, FineLists DEF Calls
  <2>2. Flag(call[t].list, "N").op = "flag" /\ Flag(call[t].list, "N").val = "N"
    BY DEF Flag, Step
  <2> QED
    BY <1>5, <1>16, <2>1, <2>2 DEF FinishMembers
<1> QED
  BY <1>9, <1>10, <1>11, <1>12, <1>13, <1>14, <1>15, <1>16 DEF Complete

(* The process ends: the queues are empty.                                 *)
LEMMA EndChat == ContactsInv /\ ChatInv /\ End => ChatInv'
<1> SUFFICES ASSUME ContactsInv, ChatInv, End PROVE ChatInv'
  OBVIOUS
<1>1. UNCHANGED tables /\ main' = <<>> /\ dml' = <<>>
  BY DEF End
<1>2. \A t \in Threads : NoCall(t).op = "idle"
  BY DEF ContactsInv, CallsInv, NoCall, Calls
<1>3. \A t \in Threads : call'[t].op = "idle"
  BY <1>2 DEF End
<1> QED
  BY <1>1, <1>3, QuietChat

(* Every step keeps ChatInv.                                               *)
LEMMA ChatInvInductive == ContactsInv /\ ChatInv /\ [Next]_vars => ChatInv'
<1> SUFFICES ASSUME ContactsInv, ChatInv, [Next]_vars PROVE ChatInv'
  OBVIOUS
<1>1. CASE UNCHANGED vars \/ Peer \/ Reconnect
  <2>1. UNCHANGED tables /\ UNCHANGED main /\ UNCHANGED dml /\ UNCHANGED call
    BY <1>1 DEF vars, Peer, Reconnect
  <2> QED
    BY <2>1, QuietChat
<1>2. CASE Receive
  BY <1>2, ReceiveChat
<1>3. CASE MainWrites \/ WorkerWrites \/ AckArrives \/ AckLost
  BY <1>3, QueueChat
<1>4. CASE \E p \in Peers : DeleteRequest(p) \/ ClearChat(p)
  BY <1>4, UserChat
<1>5. ASSUME NEW t \in Threads, Begin(t) PROVE ChatInv'
  <2>1. UNCHANGED tables /\ UNCHANGED main /\ UNCHANGED dml
    BY <1>5 DEF Begin
  <2>2. \A u \in Threads : call'[u].op = "accept" =>
             call'[u].peer \in Known \/ (call[u].op = "accept" /\ call'[u].peer = call[u].peer)
    BY <1>5, StartChat
  <2> QED
    BY <2>1, <2>2, QuietChat
<1>6. ASSUME NEW t \in Threads, Answer(t) PROVE ChatInv'
  <2>1. UNCHANGED tables /\ UNCHANGED main /\ UNCHANGED dml
    BY <1>6 DEF Answer
  <2>2. \A u \in Threads : call'[u].op = call[u].op /\ call'[u].peer = call[u].peer
    BY <1>6, AnswerKeepsPeer
  <2> QED
    BY <2>1, <2>2, QuietChat
<1>7. ASSUME NEW t \in Threads, Complete(t) PROVE ChatInv'
  BY <1>7, CompleteChat
<1>8. ASSUME NEW t \in Threads, NoAnswer(t) PROVE ChatInv'
  <2>1. CASE End
    BY <2>1, EndChat
  <2>2. CASE /\ Finish(t) \/ GoOn(t, "members")
             /\ UNCHANGED <<server, tables, main, dml, moves>>
    <3>1. UNCHANGED tables /\ UNCHANGED main /\ UNCHANGED dml
      BY <2>2
    <3>2. \A u \in Threads :
            call'[u].op = "accept" => call[u].op = "accept" /\ call'[u].peer = call[u].peer
      BY <2>2, DoneThread
    <3> QED
      BY <3>1, <3>2, QuietChat
  <2> QED
    BY <1>8, <2>1, <2>2 DEF NoAnswer
<1>9. CASE End
  BY <1>9, EndChat
<1> QED
  BY <1>1, <1>2, <1>3, <1>4, <1>5, <1>6, <1>7, <1>8, <1>9 DEF Next

(***************************************************************************)
(* ChatsHaveContacts: however packets, posted steps, answers and the ends  *)
(* of the process fall, a chat that is stored has a row of the contact     *)
(* table to show, unless the request was deleted meanwhile.                *)
(***************************************************************************)
THEOREM ChatsHaveContacts == Spec => []ChatHasContact
<1>1. Init => ChatInv
  BY DEF Init, ChatInv, WellQueued, ChatHasContact
<1>2. ChatInv => ChatHasContact
  BY DEF ChatInv
<1> QED
  BY <1>1, <1>2, ContactsInvariant, ChatInvInductive, PTL DEF Spec

=============================================================================
