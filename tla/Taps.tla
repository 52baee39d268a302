-------------------------------- MODULE Taps ----------------------------------
(***************************************************************************)
(* Fast clicks (framework7.js, initFastClicks) in the WebView of the       *)
(* Android application: a touch that does not move is answered with a      *)
(* click of the page's own at touchend, and the browser's click, which     *)
(* comes up to 300 ms later, must then not happen or be stopped.           *)
(*                                                                         *)
(* One finger.  tapHold is off, as in every form.  The class active-state  *)
(* is looks only and left out.                                             *)
(***************************************************************************)
EXTENDS Naturals, FiniteSets

CONSTANTS
    Links,        \* links and other elements that belong to no form
    Inputs,       \* text inputs, which take the focus
    Selects,      \* select elements: they open on mousedown
    NoFast        \* file inputs and elements with class no-fastclick

ASSUME TapAssumption == "nothing" \notin Links \cup Inputs \cup Selects \cup NoFast

VARIABLES
    finger,       \* the touch: where it is and what was prevented
    trackClick, targetElement, isMoved, needsFastClick,
    focus,        \* document.activeElement
    recent,       \* fastClicksDelayBetweenClicks has not passed since the last click
    calming,      \* the timer in needsFastClickTimeOut runs
    orphan,       \* one that was overwritten there, and is never cleared, runs
    native,       \* the element the browser will fire a click on
    late,         \* ... for a touch before the latest
    tap           \* the latest touch: what it was, and the clicks it led to

tapVars == <<finger, trackClick, targetElement, isMoved, needsFastClick, focus,
             recent, calming, orphan, native, late, tap>>

Elements == Links \cup Inputs \cup Selects \cup NoFast
Nothing == "nothing"
FormElements == Inputs \cup Selects \cup NoFast

TargetNeedsFastClick(el) == el \notin NoFast

\* Any element but an input or select takes the focus away from another.
AndroidNeedsBlur(el) == focus \notin {Nothing, el} /\ el \notin FormElements

\* Text inputs only: on Android a select needs none.
TargetNeedsFocus(el) == el \in Inputs /\ focus # el

-----------------------------------------------------------------------------
TapInit ==
    /\ finger = [on |-> Nothing, prevented |-> FALSE]
    /\ trackClick = FALSE /\ targetElement = Nothing
    /\ isMoved = FALSE /\ needsFastClick = FALSE
    /\ focus = Nothing
    /\ recent = FALSE /\ calming = FALSE /\ orphan = FALSE
    /\ native = Nothing /\ late = FALSE
    /\ tap = [kind |-> "none", clicks |-> 0]

(* Plausible slips in the code below, each caught by a property. *)

\* touchend lets the browser click as well.
LetBrowser(el) == native' = el

\* handleTouchStart
TouchStart(el) ==
    /\ finger.on = Nothing
    /\ isMoved' = FALSE
    /\ calming' = FALSE
    /\ needsFastClick' = TargetNeedsFastClick(el)
    /\ IF TargetNeedsFastClick(el)
       THEN /\ focus' = IF AndroidNeedsBlur(el) THEN Nothing ELSE focus
            /\ trackClick' = TRUE
            /\ targetElement' = el
            /\ finger' = [on |-> el, prevented |-> recent]
       ELSE /\ trackClick' = FALSE
            /\ finger' = [on |-> el, prevented |-> FALSE]
            /\ UNCHANGED <<focus, targetElement>>
    /\ tap' = [kind |-> IF native # Nothing THEN "crossed"
                        ELSE IF recent THEN "hasty" ELSE "tap", clicks |-> 0]
    /\ late' = (native # Nothing)
    /\ UNCHANGED <<recent, native, orphan>>

\* What a move over the threshold does to a tracked touch.
StopTracking == trackClick' = FALSE /\ targetElement' = Nothing

\* handleTouchMove, over the threshold
TouchMove ==
    /\ finger.on # Nothing /\ trackClick
    /\ StopTracking
    /\ isMoved' = TRUE
    /\ tap' = [tap EXCEPT !.kind = IF @ = "tap" THEN "moved" ELSE @]
    /\ UNCHANGED <<finger, needsFastClick, focus, recent, calming, orphan, native, late>>

\* The browser's own click after touchend, when nothing was prevented.
BrowserClick(el) == native' = IF finger.prevented THEN native ELSE el

\* e.preventDefault() at touchend
PreventClick(el) == native' = native

\* handleClick for the click of the page's own: it is let through and starts
\* needsFastClickTimeOut.  A select gets mousedown, which handleClick never sees.
Forward(el) ==
    /\ tap' = [tap EXCEPT !.clicks = @ + 1]
    /\ calming' = IF el \in Selects THEN calming ELSE TRUE

\* handleTouchEnd
TouchEnd ==
    /\ finger.on # Nothing
    /\ finger' = [on |-> Nothing, prevented |-> FALSE]
    /\ \/ /\ ~trackClick
          /\ IF needsFastClick THEN PreventClick(finger.on) ELSE BrowserClick(finger.on)
          /\ UNCHANGED <<trackClick, focus, recent, calming, orphan, tap>>
       \/ /\ trackClick /\ focus = finger.on
          /\ BrowserClick(finger.on)
          /\ UNCHANGED <<trackClick, focus, recent, calming, orphan, tap>>
       \/ /\ trackClick /\ focus # finger.on /\ recent
          /\ PreventClick(finger.on)
          /\ tap' = [tap EXCEPT !.kind = IF @ = "tap" THEN "hasty" ELSE @]
          /\ UNCHANGED <<trackClick, focus, recent, calming>>
       \/ /\ trackClick /\ focus # finger.on /\ ~recent
          /\ recent' = TRUE
          /\ trackClick' = FALSE
          /\ focus' = IF TargetNeedsFocus(targetElement) THEN targetElement ELSE Nothing
          /\ PreventClick(finger.on)
          /\ Forward(targetElement)
    /\ UNCHANGED <<targetElement, isMoved, needsFastClick, late, orphan>>

\* handleTouchCancel: the browser took the touch for a scroll.
TouchCancel ==
    /\ finger.on # Nothing
    /\ finger' = [on |-> Nothing, prevented |-> FALSE]
    /\ trackClick' = FALSE /\ targetElement' = Nothing
    /\ tap' = [tap EXCEPT !.kind = IF @ \in {"tap", "hasty"} THEN "moved" ELSE @]
    /\ UNCHANGED <<isMoved, needsFastClick, focus, recent, calming, orphan, native, late>>

\* The tests of handleClick for a click of the browser that meets no touch.
AllowClick(el) ==
    \/ targetElement = Nothing /\ el \notin FormElements
    \/ ~needsFastClick
    \/ focus = targetElement

\* handleClick for a click of the browser, which then sets the focus itself.
HandleClick ==
    /\ native # Nothing
    /\ native' = Nothing
    /\ late' = FALSE
    /\ tap' = IF ~late /\ (trackClick \/ AllowClick(native))
              THEN [tap EXCEPT !.clicks = @ + 1] ELSE tap
    /\ IF trackClick
       THEN /\ trackClick' = FALSE /\ targetElement' = Nothing
            /\ UNCHANGED <<calming, orphan>>
       ELSE /\ calming' = TRUE
            /\ orphan' = (orphan \/ calming)
            /\ targetElement' = IF AllowClick(native) THEN targetElement ELSE Nothing
            /\ UNCHANGED trackClick
    /\ focus' = IF native \in Inputs THEN native ELSE focus
    /\ UNCHANGED <<finger, isMoved, needsFastClick, recent>>

\* Time passes: the delay between clicks; needsFastClickTimeOut, which is
\* longer than the browser takes for its click.
Pause ==
    /\ recent /\ recent' = FALSE
    /\ UNCHANGED <<finger, trackClick, targetElement, isMoved, needsFastClick, focus,
                   calming, orphan, native, late, tap>>

NeedsFastClickTimeOut ==
    /\ calming /\ native = Nothing
    /\ needsFastClick' = FALSE
    /\ UNCHANGED <<finger, trackClick, targetElement, isMoved, focus, recent, native, late>>
    /\ calming' = FALSE
    /\ UNCHANGED <<orphan, tap>>

\* The lost timer fires, during a later touch perhaps.
OrphanTimeOut ==
    /\ orphan /\ native = Nothing
    /\ orphan' = FALSE /\ needsFastClick' = FALSE
    /\ tap' = [tap EXCEPT !.kind = "crossed"]
    /\ UNCHANGED <<finger, trackClick, targetElement, isMoved, focus, recent, calming,
                   native, late>>

\* The page's script takes the focus away (searchbar, forms).
ScriptBlurs ==
    /\ focus # Nothing /\ finger.on = Nothing
    /\ focus' = Nothing
    /\ UNCHANGED <<finger, trackClick, targetElement, isMoved, needsFastClick, recent,
                   calming, orphan, native, late, tap>>

TapNext ==
    \/ \E el \in Elements : TouchStart(el)
    \/ TouchMove \/ TouchEnd \/ TouchCancel \/ HandleClick
    \/ Pause \/ NeedsFastClickTimeOut \/ OrphanTimeOut \/ ScriptBlurs

TapSpec == TapInit /\ [][TapNext]_tapVars
-----------------------------------------------------------------------------
TapTypeOK ==
    /\ finger \in [on : Elements \cup {Nothing}, prevented : BOOLEAN]
    /\ targetElement \in Elements \cup {Nothing} /\ focus \in Inputs \cup {Nothing}
    /\ native \in Elements \cup {Nothing}
    /\ {trackClick, isMoved, needsFastClick, recent, calming, orphan, late} \subseteq BOOLEAN
    /\ tap.kind \in {"none", "tap", "moved", "hasty", "crossed"} /\ tap.clicks \in 0 .. 2

(***************************************************************************)
(* TapMeansClick: when a touch and what the browser makes of it are over,  *)
(* a tap has led to exactly one click, whatever has the focus and however  *)
(* the last taps ended; a touch that moved to none, unless the element     *)
(* leaves its clicks to the browser; a tap too soon after another, or one  *)
(* that a late click of the browser met, to one at the most.               *)
(***************************************************************************)
TapMeansClick ==
    finger.on = Nothing /\ native = Nothing =>
        /\ tap.kind = "tap" => tap.clicks = 1
        /\ tap.kind = "moved" => tap.clicks = 0
        /\ tap.clicks <= 1
=============================================================================
