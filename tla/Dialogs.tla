------------------------------- MODULE Dialogs -------------------------------
(***************************************************************************)
(* What a form lays over its pages (framework7.js, "Modals"): dialogs      *)
(* (alerts and preloaders, fresh elements that are shown one at a time),   *)
(* the popover and the popups of its document, and the overlays below      *)
(* them.  Opening and closing only change classes: an element leaves when  *)
(* its transition ends.                                                    *)
(***************************************************************************)
EXTENDS Integers, FiniteSets, SequencesExt

CONSTANTS
    Alerts,       \* dialogs with a button
    Preloaders,   \* dialogs that only hidePreloader closes
    Popups,       \* the popups of the document
    MaxClosers    \* bound on the closings of one popup under way

ASSUME MaxClosersAssumption == MaxClosers \in Nat

VARIABLES
    dialog,       \* what became of each dialog
    stack,        \* app.modalStack: the dialogs that wait for their turn
    popover,      \* the popover has class modal-in
    popup,        \* for each popup: modal-in, displayed, closings under way,
                  \* and how many of them its last opening came across
    overlays      \* which overlays have class modal-overlay-visible

dialogVars == <<dialog, stack, popover, popup, overlays>>

AllDialogs == Alerts \cup Preloaders
Overlays == {"modal-overlay", "popup-overlay"}
PutUp == {d \in AllDialogs : dialog[d] = "in"}
PopupsIn == {p \in Popups : popup[p].in}
PopupStates ==
    [in : BOOLEAN, shown : BOOLEAN, closers : 0 .. MaxClosers,
     crossed : 0 .. MaxClosers]
-----------------------------------------------------------------------------
DialogInit ==
    /\ dialog = [d \in AllDialogs |-> "new"]
    /\ stack = <<>>
    /\ popover = FALSE
    /\ popup = [p \in Popups |->
                   [in |-> FALSE, shown |-> FALSE, closers |-> 0, crossed |-> 0]]
    /\ overlays = {}

\* SLIP: a dialog is put up over another one.
NobodyUp(states) == TRUE

\* The test of openModal for a dialog.
FreeFor(states) == \A e \in AllDialogs : states[e] # "in"

\* openModal for a dialog: it waits while another one is up.
OpenDialog(states, waiting, visible, d) ==
    IF FreeFor(states)
    THEN /\ dialog' = [states EXCEPT ![d] = "in"]
         /\ stack' = waiting
         /\ overlays' = visible \cup {"modal-overlay"}
    ELSE /\ dialog' = [states EXCEPT ![d] = "waiting"]
         /\ stack' = Append(waiting, d)
         /\ overlays' = visible

\* app.modal, alert, confirm, prompt, showPreloader: a new element.
Show(d) ==
    /\ dialog[d] = "new"
    /\ OpenDialog(dialog, stack, overlays, d)
    /\ UNCHANGED <<popover, popup>>

\* SLIP: the next dialog stays where it is.
ServeNobody(states, visible) ==
    /\ dialog' = states /\ stack' = stack /\ overlays' = visible

\* modalStackClearQueue: the first that waits is opened, or waits again.
ServeStack(states, visible) ==
    IF stack = <<>>
    THEN /\ dialog' = states /\ stack' = stack /\ overlays' = visible
    ELSE OpenDialog(states, Tail(stack), visible, Head(stack))

\* closeModal for a dialog, whose element may already be on its way out.
CloseDialog(d) ==
    /\ dialog[d] \in {"in", "out"}
    /\ ServeStack([dialog EXCEPT ![d] = "out"], overlays \ {"modal-overlay"})
    /\ UNCHANGED <<popover, popup>>

\* The button of an alert; a second tap may hit it while it fades out.
PressButton(d) == d \in Alerts /\ CloseDialog(d)

\* hidePreloader: whatever dialog is up is closed, preloader or not.
HidePreloader == \E d \in PutUp : CloseDialog(d)

\* The transition is over: the element is removed.
DialogFaded(d) ==
    /\ dialog[d] = "out"
    /\ dialog' = [dialog EXCEPT ![d] = "gone"]
    /\ UNCHANGED <<stack, popover, popup, overlays>>

\* app.popover, and openModal, which does not ask for dialogs.
OpenPopover ==
    /\ popover' = TRUE
    /\ overlays' = overlays \cup {"modal-overlay"}
    /\ UNCHANGED <<dialog, stack, popup>>

\* SLIP: the popover leaves the overlay alone.
KeepOverlay(visible) == visible

\* The overlay that closeModal takes away with anything but a popup.
Uncover(visible) == visible \ {"modal-overlay"}

\* closeModal for the popover: there is no transition.
ClosePopover ==
    /\ popover
    /\ popover' = FALSE
    /\ overlays' = Uncover(overlays)
    /\ UNCHANGED <<dialog, stack, popup>>

\* What opening, closing and the end of a transition make of a popup.
Opening(state) == [state EXCEPT !.in = TRUE, !.shown = TRUE, !.crossed = state.closers]
Closing(state) == [state EXCEPT !.in = FALSE, !.closers = @ + 1, !.crossed = 0]
Ending(state) == [state EXCEPT !.shown = FALSE, !.closers = 0]

\* app.popup and openModal.
OpenPopup(p) ==
    /\ popup' = [popup EXCEPT ![p] = Opening(@)]
    /\ overlays' = overlays \cup {"popup-overlay"}
    /\ UNCHANGED <<dialog, stack, popover>>

\* closeModal for one popup: the overlay goes when it was the only one in.
ClosePopup(p) ==
    /\ popup[p].closers < MaxClosers
    /\ popup' = [popup EXCEPT ![p] = Closing(@)]
    /\ overlays' = IF Cardinality(PopupsIn) = 1
                   THEN overlays \ {"popup-overlay"} ELSE overlays
    /\ UNCHANGED <<dialog, stack, popover>>

\* closeModal('.popup.modal-in'): all of them.
ClosePopups ==
    /\ PopupsIn # {}
    /\ \A p \in PopupsIn : popup[p].closers < MaxClosers
    /\ popup' = [p \in Popups |->
                   IF popup[p].in THEN Closing(popup[p]) ELSE popup[p]]
    /\ overlays' = overlays \ {"popup-overlay"}
    /\ UNCHANGED <<dialog, stack, popover>>

\* The transition of a popup ends: every closing hides it, even one that was
\* followed by an opening.
PopupFaded(p) ==
    /\ popup[p].closers > 0
    /\ popup' = [popup EXCEPT ![p] = Ending(@)]
    /\ UNCHANGED <<dialog, stack, popover, overlays>>

\* A tap on the overlay (handleClicks): the popover closes, dialogs do not.
TapOverlay == "modal-overlay" \in overlays /\ ClosePopover

DialogNext ==
    \/ \E d \in AllDialogs : Show(d) \/ PressButton(d) \/ DialogFaded(d)
    \/ HidePreloader \/ OpenPopover \/ ClosePopover \/ TapOverlay \/ ClosePopups
    \/ \E p \in Popups : OpenPopup(p) \/ ClosePopup(p) \/ PopupFaded(p)

DialogSpec == DialogInit /\ [][DialogNext]_dialogVars
-----------------------------------------------------------------------------
DialogTypeOK ==
    /\ dialog \in [AllDialogs -> {"new", "waiting", "in", "out", "gone"}]
    /\ stack \in Seq(AllDialogs)
    /\ popover \in BOOLEAN
    /\ popup \in [Popups -> PopupStates]
    /\ overlays \subseteq Overlays

\* At most one dialog is up, and one waits only while another is: however
\* buttons are tapped twice and preloaders hidden, no dialog is left waiting
\* with nobody in its way.
OneDialogAtATime ==
    /\ Cardinality(PutUp) <= 1
    /\ stack # <<>> => PutUp # {}

\* A dialog waits exactly once: a dialog that is called up and has to wait
\* again is neither lost nor shown twice.
WaitsOnce ==
    /\ ToSet(stack) = {d \in AllDialogs : dialog[d] = "waiting"}
    /\ IsInjective(stack)

\* An overlay that takes the taps has something above it: a dialog or the
\* popover, or a popup that is in and displayed.  One case is excepted: a
\* popup that was opened again while it was being closed is hidden by the end
\* of that closing and keeps its overlay over the page (PopupFaded).
CoveredForAReason ==
    /\ "modal-overlay" \in overlays => PutUp # {} \/ popover
    /\ "popup-overlay" \in overlays =>
           \E p \in PopupsIn : popup[p].shown \/ popup[p].crossed > 0
=============================================================================
