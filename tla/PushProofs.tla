------------------------------ MODULE PushProofs ------------------------------
(***************************************************************************)
(* Proofs about PushConnection for any set of threads and any bound on the *)
(* registrations.  Both invariants are inductive beside the type, so the   *)
(* inductive invariant is their conjunction.                               *)
(***************************************************************************)
EXTENDS PushConnection, TLAPS

PushInv == TypeOK /\ NotStopedMeansLive /\ ReceiverOnlyWhileRunning

LEMMA PushInitInv == Init => PushInv
<1> SUFFICES ASSUME Init PROVE PushInv
  OBVIOUS
<1> USE DEF Init
<1>1. /\ stoped \in BOOLEAN /\ forceExit \in BOOLEAN /\ nm \in BOOLEAN
      /\ stopAsked \in BOOLEAN /\ kicked \in BOOLEAN /\ alarm \in BOOLEAN
      /\ host \in BOOLEAN /\ url \in BOOLEAN
  BY Zenon
<1>2. /\ th \in [Conns -> Place] /\ screen \in Screens
      /\ service \in {"absent", "running", "sticky"}
      /\ regs \in 0 .. MaxRegs /\ calls \in 0 .. regs
  BY PushAssumption DEF Place, Screens
<1> QED
  BY <1>1, <1>2 DEF PushInv, TypeOK, NotStopedMeansLive, ReceiverOnlyWhileRunning

(***************************************************************************)
(* start() only adds a thread and leaves the flag alone.                   *)
(***************************************************************************)
LEMMA StartAddsAThread ==
  ASSUME PushInv, Start
  PROVE  /\ th' \in [Conns -> Place]
         /\ stoped' = stoped
         /\ \A c \in Conns : InConnectServer(c) => th'[c] = th[c]
  BY DEF PushInv, Start, TypeOK, Place, InConnectServer

(***************************************************************************)
(* stopService() never starts or ends a running service by itself.         *)
(***************************************************************************)
LEMMA StopServiceKeepsRunning ==
  ASSUME PushInv, StopService
  PROVE  /\ stopAsked' \in BOOLEAN
         /\ service' \in {"absent", "running", "sticky"}
         /\ service' # "running" <=> service # "running"
<1>1. stopAsked' \in BOOLEAN
  BY Zenon DEF StopService
<1>2. /\ service' \in {"absent", "running", "sticky"}
      /\ service' # "running" <=> service # "running"
  BY DEF StopService, PushInv, TypeOK
<1> QED
  BY <1>1, <1>2

(***************************************************************************)
(* A step of a connection thread preserves the invariant.  The step that   *)
(* could break it is the one that clears stoped, and its own thread is in  *)
(* connectServer() then.                                                   *)
(***************************************************************************)
LEMMA ThreadStepInv ==
  ASSUME PushInv, NEW c \in Conns, ThreadStep(c)
  PROVE  PushInv'
<1> USE DEF PushInv, TypeOK, Place, NotStopedMeansLive, ReceiverOnlyWhileRunning,
            InConnectServer, appVars, serviceVars, connVars
<1>1. CASE CheckLogin(c)
  BY <1>1 DEF CheckLogin
<1>2. CASE Connect(c)
  BY <1>2 DEF Connect
<1>3. CASE OpenOK(c)
  BY <1>3 DEF OpenOK
<1>4. CASE OpenFail(c)
  BY <1>4 DEF OpenFail, End
<1>5. CASE ReadEnds(c)
  BY <1>5 DEF ReadEnds, End
<1>6. CASE ReadKick(c)
  BY <1>6 DEF ReadKick
<1>7. CASE Cut(c)
  BY <1>7 DEF Cut
<1> QED
  BY <1>1, <1>2, <1>3, <1>4, <1>5, <1>6, <1>7 DEF ThreadStep

LEMMA ServiceStepInv ==
  ASSUME PushInv, ServiceStep
  PROVE  PushInv'
<1> USE PushAssumption
    DEF PushAssumption, PushInv, TypeOK, Place, Screens, NotStopedMeansLive,
        ReceiverOnlyWhileRunning, InConnectServer, appVars, serviceVars, connVars
<1>1. CASE OnStart
  <2>1. CASE forceExit
    BY <1>1, <2>1, StartAddsAThread DEF OnStart, InitChatManager
  <2>2. CASE ~forceExit
    BY <1>1, <2>2 DEF OnStart, InitChatManager
  <2> QED
    BY <2>1, <2>2
<1>2. CASE Broadcast
  BY <1>2 DEF Broadcast
<1>3. CASE ReConnect
  BY <1>3, StartAddsAThread DEF ReConnect
<1>4. CASE NoNetwork
  BY <1>4 DEF NoNetwork
<1>5. CASE OnDestroy
  <2>1. stoped' \in BOOLEAN /\ (~stoped' => ~stoped)
    BY <1>5, Zenon DEF OnDestroy
  <2>2. /\ service' = "absent" /\ nm' = FALSE /\ stopAsked' = FALSE
        /\ regs' = 0 /\ calls' = 0
        /\ UNCHANGED <<th, url, appVars, kicked, alarm>>
    BY <1>5 DEF OnDestroy
  <2>3. TypeOK'
    <3>1. nm' \in BOOLEAN /\ stopAsked' \in BOOLEAN
      BY <2>2, Zenon
    <3>2. regs' \in 0 .. MaxRegs /\ calls' \in 0 .. regs'
      BY <2>2
    <3> QED
      BY <2>1, <2>2, <3>1, <3>2
  <2>4. NotStopedMeansLive'
    BY <2>1, <2>2
  <2>5. ReceiverOnlyWhileRunning'
    BY <2>2
  <2> QED
    BY <2>3, <2>4, <2>5 
<1>6. CASE HandleKick
  BY <1>6, StopServiceKeepsRunning DEF HandleKick
<1> QED
  BY <1>1, <1>2, <1>3, <1>4, <1>5, <1>6 DEF ServiceStep

LEMMA UserStepInv ==
  ASSUME PushInv, UserStep
  PROVE  PushInv'
<1> USE DEF PushInv, TypeOK, Place, Screens, NotStopedMeansLive,
        ReceiverOnlyWhileRunning, InConnectServer, appVars, serviceVars, connVars
<1>1. CASE LoginAccepted
  BY <1>1 DEF LoginAccepted
<1>2. CASE LoginDone \/ LoginFailed
  BY <1>2 DEF LoginDone, LoginFailed
<1>3. CASE AutoLogin
  BY <1>3 DEF AutoLogin
<1>4. CASE LogoutDone
  BY <1>4 DEF LogoutDone
<1>5. CASE Logout
  BY <1>5, StopServiceKeepsRunning DEF Logout
<1>6. CASE ConfirmKick
  BY <1>6, StopServiceKeepsRunning DEF ConfirmKick
<1>7. CASE Kill
  <2>1. service' \in {"absent", "running", "sticky"}
    BY <1>7, Zenon DEF Kill
  <2>2. /\ stoped' = TRUE /\ nm' = FALSE /\ stopAsked' = FALSE /\ kicked' = FALSE
        /\ host' = FALSE /\ url' = FALSE /\ regs' = 0 /\ calls' = 0
        /\ th' = [c \in Conns |-> "none"] /\ screen' = "login"
        /\ UNCHANGED <<forceExit, alarm>>
    BY <1>7, Zenon DEF Kill
  <2>3. TypeOK'
    <3>1. /\ stoped' \in BOOLEAN /\ nm' \in BOOLEAN /\ stopAsked' \in BOOLEAN
          /\ kicked' \in BOOLEAN /\ host' \in BOOLEAN /\ url' \in BOOLEAN
      BY <2>2, Zenon
    <3>2. /\ regs' \in 0 .. MaxRegs /\ calls' \in 0 .. regs'
          /\ th' \in [Conns -> Place] /\ screen' \in Screens
      BY <2>2, PushAssumption DEF PushAssumption
    <3>3. forceExit' \in BOOLEAN /\ alarm' \in BOOLEAN
      BY <2>2
    <3> QED
      BY <2>1, <3>1, <3>2, <3>3
  <2> QED
    BY <2>2, <2>3
<1> QED
  BY <1>1, <1>5, <1>6, <1>7, <1>2, <1>3, <1>4 DEF UserStep

LEMMA PushStepInv == PushInv /\ [Next]_vars => PushInv'
<1> SUFFICES ASSUME PushInv, [Next]_vars PROVE PushInv'
  OBVIOUS
<1>1. CASE \E c \in Conns : ThreadStep(c)
  BY <1>1, ThreadStepInv
<1>2. CASE ServiceStep
  BY <1>2, ServiceStepInv
<1>3. CASE UserStep
  BY <1>3, UserStepInv
<1>4. CASE UNCHANGED vars
  BY <1>4 DEF vars, PushInv, TypeOK, NotStopedMeansLive,
     ReceiverOnlyWhileRunning, InConnectServer
<1> QED
  BY <1>1, <1>2, <1>3, <1>4 DEF Next

LEMMA PushInvariant == Spec => []PushInv
  BY PushInitInv, PushStepInv, PTL DEF Spec

(***************************************************************************)
(* The state of the manager, the service and the tasks is well formed.     *)
(***************************************************************************)
THEOREM PushTypeCorrect == Spec => []TypeOK
  BY PushInvariant, PTL DEF PushInv

(***************************************************************************)
(* Whatever the order of starts, stops, kicks, kills and ends of old       *)
(* threads: if start() believes there is a connection, there is a thread.  *)
(***************************************************************************)
THEOREM PushFlagIsBacked == Spec => []NotStopedMeansLive
  BY PushInvariant, PTL DEF PushInv

(***************************************************************************)
(* A service that does not run has no registered receiver.                 *)
(***************************************************************************)
THEOREM PushReceiverScoped == Spec => []ReceiverOnlyWhileRunning
  BY PushInvariant, PTL DEF PushInv
==============================================================================
