------------------------------ MODULE MCMessages -------------------------------
(***************************************************************************)
(* Messages in and out, as they are model-checked: what a push connection  *)
(* reads (PushStream) and what the chat sends (Chat).  They share no       *)
(* state: a behaviour of this module is one of either, named by part.      *)
(***************************************************************************)
EXTENDS PushStream, Chat

VARIABLE part

messageVars == <<vars, chatVars, part>>

MessagesInit == part \in {"in", "out"} /\ Init /\ ChatInit

MessagesNext ==
    /\ UNCHANGED part
    /\ \/ part = "in" /\ Next /\ UNCHANGED chatVars
       \/ part = "out" /\ ChatNext /\ UNCHANGED vars

(* The fairness of both: what it is about cannot happen in the part that
   stands still. *)
MessagesSpec ==
    /\ MessagesInit /\ [][MessagesNext]_messageVars
    /\ WF_vars(Read) /\ WF_vars(Process) /\ ChatFairness

(* The state of both parts is well formed. *)
MessagesTypeOK == TypeOK /\ ChatTypeOK
================================================================================
