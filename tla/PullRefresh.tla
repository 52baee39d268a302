------------------------------ MODULE PullRefresh -----------------------------
(***************************************************************************)
(* A page that is pulled down to load it anew (framework7.js).  How far it *)
(* is pulled is told apart as back above the start, short of the trigger   *)
(* distance, and beyond it.                                                *)
(***************************************************************************)
EXTENDS Naturals

CONSTANT MaxPulls   \* bound on the touches and on the refreshes by a script

ASSUME PullAssumption == MaxPulls \in Nat

VARIABLES content,     \* the container: its classes, whether translate3d holds
                       \* it down, whether it slides, whether an end is awaited
          pull,        \* the variables of initPullToRefresh, and the finger
          refreshes,   \* the refresh events that are not done yet
          rough,       \* see PullSettles
          pulls        \* touches and refreshes so far, for the bound

pullVars == <<content, pull, refreshes, rough, pulls>>

PullClasses == {"transitioning", "refreshing", "pull-up", "pull-down"}

ContentStates == [classes : SUBSET PullClasses, down : BOOLEAN, slides : BOOLEAN,
                  awaited : BOOLEAN]
PullStates == [finger : BOOLEAN, isTouched : BOOLEAN, isMoved : BOOLEAN, refresh : BOOLEAN]

PullsOn == pulls < MaxPulls /\ pulls' = pulls + 1

-----------------------------------------------------------------------------
(* A plausible slip: what the pull has left stays when it is done. *)
KeepPull(classes) == classes \ {"transitioning"}

-----------------------------------------------------------------------------
(* handleTouchStart; a touch that was cancelled leaves isTouched behind. *)
PullStart ==
    /\ PullsOn /\ ~pull.finger
    /\ pull' = [pull EXCEPT !.finger = TRUE, !.isTouched = TRUE, !.isMoved = FALSE]
    /\ UNCHANGED <<content, refreshes, rough>>

(* handleTouchMove sideways at first, or from far down the page, which takes
   the class that lets the content slide.  Whether a slide under way goes on
   is the browser's choice. *)
PullAside ==
    /\ pull.finger /\ pull.isTouched /\ ~pull.isMoved
    /\ pull' = [pull EXCEPT !.isTouched = FALSE]
    /\ UNCHANGED <<content, refreshes, rough, pulls>>

PullFarDown ==
    /\ pull.finger /\ pull.isTouched /\ ~pull.isMoved
    /\ pull' = [pull EXCEPT !.isTouched = FALSE]
    /\ \E slides \in {content.slides, FALSE} :
          /\ content' = [content EXCEPT !.classes = @ \ {"transitioning"}, !.slides = slides]
          /\ rough' = (rough \/ content.slides # slides)
    /\ UNCHANGED <<refreshes, pulls>>

(* handleTouchMove.  The first move stops a slide; later ones slide again
   when a refresh has been done meanwhile. *)
PullMove(to) ==
    LET classes == IF pull.isMoved THEN content.classes
                   ELSE content.classes \ {"transitioning"}
        shown == CASE to = "up" -> {} [] to = "near" -> {"pull-down"} [] to = "far" -> {"pull-up"}
    IN  /\ pull.finger /\ pull.isTouched
        /\ pull' = [pull EXCEPT !.isMoved = TRUE, !.refresh = (to = "far")]
        /\ content' = [content EXCEPT
                         !.classes = (classes \ {"pull-up", "pull-down"}) \cup shown,
                         !.down = @ \/ to # "up",
                         !.slides = IF to = "up" THEN @ /\ pull.isMoved
                                    ELSE "transitioning" \in classes]
        /\ UNCHANGED <<refreshes, rough, pulls>>

(* handleTouchEnd.  Beyond the trigger a refresh begins, though one may be
   under way. *)
PullEnd ==
    LET moved == pull.isTouched /\ pull.isMoved
        sliding == IF content.down THEN {"transitioning"} ELSE {}
        on == IF pull.refresh THEN {"refreshing"} ELSE {}
        off == IF pull.refresh THEN {} ELSE {"pull-down"}
    IN  /\ pull.finger
        /\ pull' = [pull EXCEPT !.finger = FALSE, !.isTouched = FALSE, !.isMoved = FALSE]
        /\ IF moved
           THEN /\ content' = [content EXCEPT !.classes = (@ \cup sliding \cup on) \ off,
                                              !.slides = @ \/ content.down,
                                              !.down = FALSE]
                /\ refreshes' = refreshes + (IF pull.refresh THEN 1 ELSE 0)
                /\ rough' = (rough \/ (pull.refresh /\ refreshes > 0))
           ELSE UNCHANGED <<content, refreshes, rough>>
        /\ UNCHANGED pulls

(* touchcancel is not heard. *)
PullCancelled ==
    /\ pull.finger
    /\ pull' = [pull EXCEPT !.finger = FALSE]
    /\ rough' = (rough \/ (pull.isTouched /\ pull.isMoved))
    /\ UNCHANGED <<content, refreshes, pulls>>

(* pullToRefreshTrigger *)
PullToRefreshTrigger ==
    /\ PullsOn /\ "refreshing" \notin content.classes
    /\ content' = [content EXCEPT !.classes = @ \cup {"transitioning", "refreshing"},
                                  !.slides = @ \/ ~content.down]
    /\ refreshes' = refreshes + 1
    /\ UNCHANGED <<pull, rough>>

(* pullToRefreshDone, which each refresh calls once.  Content that a finger
   holds down does not slide. *)
PullToRefreshDone ==
    /\ refreshes > 0
    /\ refreshes' = refreshes - 1
    /\ content' = [content EXCEPT
                     !.classes = (@ \ {"refreshing"}) \cup {"transitioning"},
                     !.awaited = TRUE,
                     !.slides = @ \/ ("refreshing" \in content.classes /\ ~content.down)]
    /\ UNCHANGED <<pull, rough, pulls>>

Settled(classes) == classes \ {"transitioning", "pull-up", "pull-down"}

ContentSlideEnds ==
    /\ content.slides
    /\ content' = [content EXCEPT !.slides = FALSE, !.awaited = FALSE,
                                  !.classes = IF content.awaited THEN Settled(@) ELSE @]
    /\ UNCHANGED <<pull, refreshes, rough, pulls>>

PullInit ==
    /\ content = [classes |-> {}, down |-> FALSE, slides |-> FALSE, awaited |-> FALSE]
    /\ pull = [finger |-> FALSE, isTouched |-> FALSE, isMoved |-> FALSE, refresh |-> FALSE]
    /\ refreshes = 0
    /\ rough = FALSE
    /\ pulls = 0

PullNext ==
    \/ PullStart \/ PullAside \/ PullFarDown \/ PullEnd \/ PullCancelled
    \/ \E to \in {"up", "near", "far"} : PullMove(to)
    \/ PullToRefreshTrigger \/ PullToRefreshDone \/ ContentSlideEnds

PullSpec == PullInit /\ [][PullNext]_pullVars

-----------------------------------------------------------------------------
PullTypeOK ==
    /\ content \in ContentStates /\ pull \in PullStates
    /\ refreshes \in 0 .. MaxPulls /\ pulls \in 0 .. MaxPulls

(***************************************************************************)
(* PullSettles: the page shows that it is being refreshed exactly as long  *)
(* as a refresh is not done; and when there is none, no finger and no      *)
(* slide, nothing is left of the pull, though fingers may have come and    *)
(* gone while it was refreshed and while it slid back.  Excepted by rough: *)
(* a pull that is cancelled, a second refresh pulled in during the first,  *)
(* and a finger far down the page that stops the slide back.               *)
(***************************************************************************)
PullSettles ==
    ~rough =>
        /\ refreshes > 0 <=> "refreshing" \in content.classes
        /\ refreshes = 0 /\ ~pull.finger /\ ~content.slides =>
               content.classes \subseteq {"transitioning"} /\ ~content.down
================================================================================
