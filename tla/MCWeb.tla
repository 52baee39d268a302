-------------------------------- MODULE MCWeb ----------------------------------
(***************************************************************************)
(* The script side of a business form, as it is model-checked: the bridge  *)
(* to the application, the start of cordova.js, the page's database and    *)
(* its statements, and the router of its pages.  They share no state: a    *)
(* behaviour of this module is one of any of the five, named by part,      *)
(* while the others stay as they are.                                      *)
(***************************************************************************)
EXTENDS WebBridge, WebBoot, PgSqlite, PgStatements, Router

VARIABLE part

webVars == <<bridgeVars, bootVars, pgVars, statementVars, routerVars, part>>

Parts == {"bridge", "boot", "sqlite", "statements", "router"}

WebInit ==
    /\ part \in Parts
    /\ BridgeInit /\ BootInit /\ PgInit /\ StatementInit /\ RouterInit
    /\ part # "boot" => readyState = "loading"
    /\ part # "sqlite" => platform = "android" /\ ~exists
    /\ part # "router" => params = [dom |-> FALSE, push |-> FALSE]

WebNext ==
    /\ UNCHANGED part
    /\ IF part = "bridge" THEN BridgeNext ELSE UNCHANGED bridgeVars
    /\ IF part = "boot" THEN BootNext ELSE UNCHANGED bootVars
    /\ IF part = "sqlite" THEN PgNext ELSE UNCHANGED pgVars
    /\ IF part = "statements" THEN StatementNext ELSE UNCHANGED statementVars
    /\ IF part = "router" THEN RouterNext ELSE UNCHANGED routerVars

(* BridgeFairness, BootFairness and RouterFair: of the part that is looked
   at, as an action of each that can only happen there.  The router stands
   still in a state that asks nothing. *)
OfBridge(step) == part = "bridge" /\ step
OfBoot(step) == part = "boot" /\ step

WebFairness ==
    /\ WF_bridgeVars(OfBridge(InitBridge))
    /\ WF_bridgeVars(OfBridge(ExecPop)) /\ WF_bridgeVars(OfBridge(ExecReturn))
    /\ WF_bridgeVars(OfBridge(Tick)) /\ WF_bridgeVars(OfBridge(OnlineEvent))
    /\ WF_bridgeVars(OfBridge(RunAvail))
    /\ WF_bootVars(OfBoot(RunTask)) /\ SF_bootVars(OfBoot(Loading))
    /\ RouterFair

WebSpec == WebInit /\ [][WebNext]_webVars /\ WebFairness

(* The state of all five is well formed. *)
WebTypeOK == BridgeTypeOK /\ BootTypeOK /\ PgTypeOK /\ StatementTypeOK /\ RouterTypeOK
================================================================================
