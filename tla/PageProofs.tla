------------------------------ MODULE PageProofs -------------------------------
(***************************************************************************)
(* Proofs about parts of the page of a form: dialogs, popover and popups,  *)
(* pull to refresh, the search bar, the list of sales orders and the       *)
(* virtual list, for any number of each and of the steps taken; and, with  *)
(* those of FormProofs, about the page as a whole (module MCPage).         *)
(***************************************************************************)
EXTENDS MCPage, FormProofs, FiniteSetTheorems, SequenceTheorems, NumberInduction,
        TLAPS

-----------------------------------------------------------------------------
(***************************************************************************)
(* Dialogs (module Dialogs).  The inductive invariant joins the properties *)
(* with WaitsOnce (without it the head of the stack might be the dialog    *)
(* that is up, and serving it would leave two up or none) and with what is *)
(* displayed of the popups that are in.                                    *)
(***************************************************************************)

(* WaitsOnce and OneDialogAtATime, element by element. *)
Waiting(d) == dialog[d] = "waiting"

OneUp == \A d, e \in PutUp : d = e

EachWaitsOnce ==
    /\ \A i \in 1 .. Len(stack) : Waiting(stack[i])
    /\ \A i, j \in 1 .. Len(stack) : stack[i] = stack[j] => i = j
    /\ \A d \in AllDialogs : Waiting(d) => \E i \in 1 .. Len(stack) : stack[i] = d

SomeoneUpWhileWaiting == stack # <<>> => PutUp # {}

(* The overlays by who is open, be it displayed or not. *)
Covered ==
    /\ "modal-overlay" \in overlays => PutUp # {} \/ popover
    /\ "popup-overlay" \in overlays => PopupsIn # {}

(* A popup that is in is displayed and stays so, or was opened again. *)
InIsShown ==
    \A p \in PopupsIn : popup[p].crossed > 0 \/ (popup[p].shown /\ popup[p].closers = 0)

DialogInv ==
    /\ DialogTypeOK
    /\ OneUp /\ EachWaitsOnce /\ SomeoneUpWhileWaiting
    /\ Covered /\ InIsShown

-----------------------------------------------------------------------------
(***************************************************************************)
(* OpenDialogKeepsInv: openModal for dialog d, on the stack waiting: called *)
(* with the states of the others it keeps the invariant, whoever is up.    *)
(***************************************************************************)
LEMMA OpenDialogKeepsInv ==
    ASSUME DialogTypeOK,
           NEW states \in [AllDialogs -> {"new", "waiting", "in", "out", "gone"}],
           NEW waiting \in Seq(AllDialogs),
           NEW visible \in SUBSET Overlays,
           NEW d \in AllDialogs, states[d] # "in",
           \A i \in 1 .. Len(waiting) : states[waiting[i]] = "waiting" /\ waiting[i] # d,
           \A i, j \in 1 .. Len(waiting) : waiting[i] = waiting[j] => i = j,
           \A e \in AllDialogs \ {d} :
               states[e] = "waiting" => \E i \in 1 .. Len(waiting) : waiting[i] = e,
           \A e, f \in AllDialogs : states[e] = "in" /\ states[f] = "in" => e = f,
           "popup-overlay" \in visible => PopupsIn # {}, InIsShown,
           OpenDialog(states, waiting, visible, d),
           UNCHANGED <<popover, popup>>
    PROVE  DialogInv'
<1> USE DEF DialogTypeOK, OpenDialog, FreeFor
<1>1. CASE FreeFor(states)
  <2>1. dialog' = [states EXCEPT ![d] = "in"] /\ stack' = waiting
        /\ overlays' = visible \cup {"modal-overlay"}
    BY <1>1
  <2>2. DialogTypeOK'
    BY <2>1 DEF Overlays
  <2>3. d \in PutUp' /\ \A e \in PutUp' : e = d
    BY <1>1, <2>1 DEF PutUp
  <2>4. EachWaitsOnce'
    BY <2>1, ElementOfSeq DEF EachWaitsOnce, Waiting
  <2> QED
    BY <2>1, <2>2, <2>3, <2>4 DEF DialogInv, OneUp, SomeoneUpWhileWaiting, Covered, InIsShown, PopupsIn
<1>2. CASE ~FreeFor(states)
  <2>1. dialog' = [states EXCEPT ![d] = "waiting"] /\ stack' = Append(waiting, d)
        /\ overlays' = visible
    BY <1>2
  <2>2. DialogTypeOK'
    BY <2>1, AppendProperties
  <2>3. PutUp' # {} /\ OneUp'
    BY <1>2, <2>1 DEF PutUp, OneUp
  <2>4. /\ Len(stack') = Len(waiting) + 1 /\ Len(waiting) \in Nat
        /\ \A i \in 1 .. Len(waiting) : stack'[i] = waiting[i]
        /\ stack'[Len(waiting) + 1] = d
    BY <2>1, AppendProperties, LenProperties
  <2>5. EachWaitsOnce'
    <3>1. \A i \in 1 .. Len(stack') : Waiting(stack[i])'
      BY <2>1, <2>4, ElementOfSeq DEF Waiting
    <3>2. \A i, j \in 1 .. Len(stack') : stack'[i] = stack'[j] => i = j
      <4> TAKE i, j \in 1 .. Len(stack')
      <4> HAVE stack'[i] = stack'[j]
      <4>1. (i \in 1 .. Len(waiting) \/ i = Len(waiting) + 1)
            /\ (j \in 1 .. Len(waiting) \/ j = Len(waiting) + 1)
        BY <2>4
      <4> QED
        BY <2>4, <4>1
    <3>3. \A e \in AllDialogs : Waiting(e)' => \E i \in 1 .. Len(stack') : stack'[i] = e
      <4> TAKE e \in AllDialogs
      <4>1. CASE e = d
        BY <2>4, <4>1
      <4>2. CASE e # d
        BY <2>1, <2>4, <4>2 DEF Waiting
      <4> QED
        BY <4>1, <4>2
    <3> QED
      BY <3>1, <3>2, <3>3 DEF EachWaitsOnce
  <2> QED
    BY <2>1, <2>2, <2>3, <2>5 DEF DialogInv, SomeoneUpWhileWaiting, Covered, InIsShown, PopupsIn
<1> QED
  BY <1>1, <1>2

-----------------------------------------------------------------------------
(* Show: a new dialog is nobody's, so it can be put up or appended. *)
LEMMA ShowKeepsInv ==
    ASSUME DialogInv, NEW d \in AllDialogs, Show(d)
    PROVE  DialogInv'
<1>1. DialogTypeOK /\ OpenDialog(dialog, stack, overlays, d) /\ UNCHANGED <<popover, popup>>
      /\ InIsShown
  BY DEF DialogInv, Show
<1>2. /\ dialog[d] = "new"
      /\ \A i \in 1 .. Len(stack) : dialog[stack[i]] = "waiting" /\ stack[i] # d
  BY DEF DialogInv, Show, EachWaitsOnce, Waiting
<1>3. /\ \A i, j \in 1 .. Len(stack) : stack[i] = stack[j] => i = j
      /\ \A e \in AllDialogs \ {d} :
            dialog[e] = "waiting" => \E i \in 1 .. Len(stack) : stack[i] = e
  BY DEF DialogInv, EachWaitsOnce, Waiting
<1>4. \A e, f \in AllDialogs : dialog[e] = "in" /\ dialog[f] = "in" => e = f
  BY DEF DialogInv, OneUp, PutUp
<1>5. "popup-overlay" \in overlays => PopupsIn # {}
  BY DEF DialogInv, Covered
<1> QED
  BY <1>1, <1>2, <1>3, <1>4, <1>5, OpenDialogKeepsInv DEF DialogTypeOK

(***************************************************************************)
(* CloseDialogKeepsInv: d is on its way out, once or twice closed; who     *)
(* waits longest is served, and is waiting and nowhere else on the stack.  *)
(***************************************************************************)
LEMMA CloseDialogKeepsInv ==
    ASSUME DialogInv, NEW d \in AllDialogs, CloseDialog(d)
    PROVE  DialogInv'
<1> DEFINE states == [dialog EXCEPT ![d] = "out"]
           visible == overlays \ {"modal-overlay"}
<1>1. DialogTypeOK /\ ServeStack(states, visible) /\ UNCHANGED <<popover, popup>>
      /\ dialog[d] \in {"in", "out"} /\ InIsShown
  BY DEF DialogInv, CloseDialog
<1>2. states \in [AllDialogs -> {"new", "waiting", "in", "out", "gone"}]
      /\ visible \in SUBSET Overlays /\ stack \in Seq(AllDialogs)
  BY <1>1 DEF DialogTypeOK
<1>3. \A e, f \in AllDialogs : states[e] = "in" /\ states[f] = "in" => e = f
  BY <1>1, <1>2 DEF DialogInv, OneUp, PutUp, DialogTypeOK
<1>4. "popup-overlay" \in visible => PopupsIn # {}
  BY DEF DialogInv, Covered
<1>5. CASE stack = <<>>
  <2>1. dialog' = states /\ stack' = stack /\ overlays' = visible
    BY <1>1, <1>5 DEF ServeStack
  <2>2. DialogTypeOK'
    BY <1>1, <1>2, <2>1 DEF DialogTypeOK
  <2>3. OneUp' /\ SomeoneUpWhileWaiting'
    BY <1>3, <1>5, <2>1 DEF OneUp, PutUp, SomeoneUpWhileWaiting
  <2>4. EachWaitsOnce'
    BY <1>1, <1>2, <2>1, ElementOfSeq DEF DialogInv, EachWaitsOnce, Waiting, DialogTypeOK
  <2> QED
    BY <1>1, <1>4, <2>1, <2>2, <2>3, <2>4 DEF DialogInv, Covered, InIsShown, PopupsIn
<1>6. CASE stack # <<>>
  <2> DEFINE h == Head(stack)
             rest == Tail(stack)
  <2>1. OpenDialog(states, rest, visible, h)
    BY <1>1, <1>6 DEF ServeStack
  <2>2. /\ h \in AllDialogs /\ rest \in Seq(AllDialogs)
        /\ h = stack[1] /\ Len(stack) \in Nat /\ Len(rest) = Len(stack) - 1
        /\ \A i \in 1 .. Len(rest) : rest[i] = stack[i + 1]
        /\ 1 \in 1 .. Len(stack)
    BY <1>2, <1>6, HeadTailProperties, LenProperties, EmptySeq
  <2>3. \A i \in 1 .. Len(stack) : stack[i] \in AllDialogs /\ stack[i] # d /\ states[stack[i]] = "waiting"
    BY <1>1, <1>2, ElementOfSeq DEF DialogInv, EachWaitsOnce, Waiting, DialogTypeOK
  <2>4. states[h] # "in"
    BY <2>2, <2>3
  <2>5. \A i \in 1 .. Len(rest) : i + 1 \in 1 .. Len(stack)
    BY <2>2
  <2>6. \A i \in 1 .. Len(rest) : states[rest[i]] = "waiting" /\ rest[i] # h
    BY <2>2, <2>3, <2>5 DEF DialogInv, EachWaitsOnce
  <2>7. \A i, j \in 1 .. Len(rest) : rest[i] = rest[j] => i = j
    <3> TAKE i, j \in 1 .. Len(rest)
    <3> HAVE rest[i] = rest[j]
    <3>1. i + 1 = j + 1
      BY <2>2, <2>5 DEF DialogInv, EachWaitsOnce
    <3> QED
      BY <2>2, <3>1
  <2>8. \A e \in AllDialogs \ {h} :
           states[e] = "waiting" => \E i \in 1 .. Len(rest) : rest[i] = e
    <3> TAKE e \in AllDialogs \ {h}
    <3> HAVE states[e] = "waiting"
    <3>1. Waiting(e)
      BY <1>1 DEF Waiting, DialogTypeOK
    <3>2. PICK i \in 1 .. Len(stack) : stack[i] = e
      BY <3>1 DEF DialogInv, EachWaitsOnce
    <3>3. i # 1 /\ i - 1 \in 1 .. Len(rest) /\ rest[i - 1] = e
      BY <2>2, <3>2
    <3> QED
      BY <3>3
  <2>9. DialogTypeOK /\ InIsShown /\ UNCHANGED <<popover, popup>> /\ rest \in Seq(AllDialogs)
        /\ h \in AllDialogs /\ states \in [AllDialogs -> {"new", "waiting", "in", "out", "gone"}]
        /\ visible \in SUBSET Overlays
    BY <1>1, <1>2, <2>2
  <2> HIDE DEF states, visible, h, rest
  <2> QED
    BY <1>3, <1>4, <2>1, <2>4, <2>6, <2>7, <2>8, <2>9, OpenDialogKeepsInv, Zenon
<1> QED
  BY <1>5, <1>6

(* DialogFaded: an element that is out was neither up nor waiting. *)
LEMMA DialogFadedKeepsInv ==
    ASSUME DialogInv, NEW d \in AllDialogs, DialogFaded(d)
    PROVE  DialogInv'
<1> USE DEF DialogInv, DialogFaded, DialogTypeOK
<1>1. DialogTypeOK'
  OBVIOUS
<1>2. PutUp' = PutUp
  BY DEF PutUp
<1>3. EachWaitsOnce'
  BY ElementOfSeq DEF EachWaitsOnce, Waiting
<1> QED
  BY <1>1, <1>2, <1>3 DEF OneUp, SomeoneUpWhileWaiting, Covered, InIsShown, PopupsIn

(* The popover: its overlay is put up with it and taken away with it. *)
LEMMA PopoverKeepsInv ==
    ASSUME DialogInv, OpenPopover \/ ClosePopover
    PROVE  DialogInv'
<1>1. UNCHANGED <<dialog, stack, popup>>
  BY DEF OpenPopover, ClosePopover
<1>2. DialogTypeOK' /\ Covered'
  BY <1>1 DEF DialogInv, DialogTypeOK, Covered, OpenPopover, ClosePopover,
              Uncover, Overlays, PutUp, PopupsIn
<1> QED
  BY <1>1, <1>2 DEF DialogInv, OneUp, PutUp, EachWaitsOnce, Waiting, SomeoneUpWhileWaiting,
                    InIsShown, PopupsIn

(* What the steps of a popup leave of its classes and closings. *)
LEMMA PopupStateSteps ==
    ASSUME NEW r \in PopupStates
    PROVE  /\ r.closers < MaxClosers => Closing(r) \in PopupStates
           /\ Opening(r) \in PopupStates
           /\ Ending(r) \in PopupStates
           /\ ~Closing(r).in
           /\ Opening(r).in /\ Opening(r).shown
           /\ Opening(r).crossed = Opening(r).closers
           /\ Ending(r).in <=> r.in
           /\ Ending(r).crossed = r.crossed
<1>1. r.closers \in 0 .. MaxClosers /\ r.crossed \in 0 .. MaxClosers
  BY DEF PopupStates
<1>2. 0 \in 0 .. MaxClosers /\ (r.closers < MaxClosers => r.closers + 1 \in 0 .. MaxClosers)
  BY <1>1, MaxClosersAssumption
<1>3. r.closers < MaxClosers => Closing(r) \in PopupStates
  BY <1>2 DEF PopupStates, Closing
<1>4. Opening(r) \in PopupStates
  BY <1>1 DEF PopupStates, Opening
<1>5. Ending(r) \in PopupStates
  BY <1>2 DEF PopupStates, Ending
<1>6. ~Closing(r).in
  BY DEF PopupStates, Closing
<1>7. Opening(r).in /\ Opening(r).shown /\ Opening(r).crossed = Opening(r).closers
  BY DEF PopupStates, Opening
<1>8. (Ending(r).in <=> r.in) /\ Ending(r).crossed = r.crossed
  BY DEF PopupStates, Ending
<1> QED
  BY <1>3, <1>4, <1>5, <1>6, <1>7, <1>8

(* Popups leave the dialogs alone; the last one in takes the overlay along. *)
LEMMA PopupKeepsInv ==
    ASSUME DialogInv,
           \/ ClosePopups
           \/ \E p \in Popups : OpenPopup(p) \/ ClosePopup(p) \/ PopupFaded(p)
    PROVE  DialogInv'
<1>1. UNCHANGED <<dialog, stack, popover>>
  BY DEF ClosePopups, OpenPopup, ClosePopup, PopupFaded
<1>2. DialogTypeOK' /\ ("modal-overlay" \in overlays' => "modal-overlay" \in overlays)
  <2>1. overlays' \subseteq Overlays /\ ("modal-overlay" \in overlays' => "modal-overlay" \in overlays)
    BY DEF DialogInv, DialogTypeOK, Overlays, ClosePopups, OpenPopup, ClosePopup, PopupFaded
  <2>2. popup' \in [Popups -> PopupStates]
    <3> USE DEF DialogInv, DialogTypeOK
    <3>1. CASE ClosePopups
      BY <3>1, PopupStateSteps DEF ClosePopups, PopupsIn
    <3>2. ASSUME NEW p \in Popups, OpenPopup(p) \/ ClosePopup(p) \/ PopupFaded(p)
          PROVE  popup' \in [Popups -> PopupStates]
      <4>1. CASE OpenPopup(p)
        BY <4>1, PopupStateSteps DEF OpenPopup
      <4>2. CASE ClosePopup(p)
        BY <4>2, PopupStateSteps DEF ClosePopup
      <4>3. CASE PopupFaded(p)
        BY <4>3, PopupStateSteps DEF PopupFaded
      <4> QED
        BY <3>2, <4>1, <4>2, <4>3
    <3> QED
      BY <3>1, <3>2
  <2> QED
    BY <1>1, <2>1, <2>2 DEF DialogInv, DialogTypeOK
<1>3. "popup-overlay" \in overlays' => PopupsIn' # {}
  <2>1. CASE ClosePopups
    BY <2>1 DEF ClosePopups
  <2>2. ASSUME NEW p \in Popups, OpenPopup(p) PROVE PopupsIn' # {}
    <3>1. popup[p] \in PopupStates /\ popup'[p] = Opening(popup[p])
      BY <2>2 DEF DialogInv, DialogTypeOK, OpenPopup
    <3> QED
      BY <3>1, PopupStateSteps DEF PopupsIn
  <2>3. ASSUME NEW p \in Popups, ClosePopup(p), "popup-overlay" \in overlays'
        PROVE  PopupsIn' # {}
    <3>1. Cardinality(PopupsIn) # 1 /\ PopupsIn # {}
      BY <2>3 DEF DialogInv, Covered, ClosePopup
    <3>2. PICK q \in PopupsIn : q # p
      <4>1. PopupsIn # {p}
        BY <3>1, FS_Singleton
      <4> QED
        BY <3>1, <4>1
    <3>3. popup'[q] = popup[q]
      BY <2>3, <3>2 DEF DialogInv, DialogTypeOK, ClosePopup, PopupsIn
    <3> QED
      BY <3>2, <3>3 DEF PopupsIn
  <2>4. ASSUME NEW p \in Popups, PopupFaded(p) PROVE PopupsIn' = PopupsIn /\ overlays' = overlays
    <3>1. \A q \in Popups : popup[q] \in PopupStates
                           /\ popup'[q] \in {popup[q], Ending(popup[q])}
      BY <2>4 DEF DialogInv, DialogTypeOK, PopupFaded
    <3>2. \A q \in Popups : popup'[q].in <=> popup[q].in
      BY <3>1, PopupStateSteps
    <3> QED
      BY <2>4, <3>2 DEF PopupFaded, PopupsIn
  <2> QED
    BY <2>1, <2>2, <2>3, <2>4 DEF DialogInv, Covered
<1>4. InIsShown'
  <2>1. /\ \A q \in Popups : popup[q] \in PopupStates
        /\ \A q \in Popups : popup[q].in =>
               popup[q].crossed > 0 \/ (popup[q].shown /\ popup[q].closers = 0)
        /\ popup \in [Popups -> PopupStates]
    BY DEF DialogInv, DialogTypeOK, InIsShown, PopupsIn
  <2>2. \A q \in Popups : popup'[q] \in {popup[q], Closing(popup[q]), Opening(popup[q])}
                         \/ (popup[q].closers > 0 /\ popup'[q] = Ending(popup[q]))
    BY <2>1 DEF ClosePopups, OpenPopup, ClosePopup, PopupFaded
  <2>3. ASSUME NEW q \in Popups, popup'[q].in
        PROVE  popup'[q].crossed > 0 \/ (popup'[q].shown /\ popup'[q].closers = 0)
    <3>1. CASE popup'[q] = popup[q]
      BY <2>1, <2>3, <3>1
    <3>2. CASE popup'[q] = Closing(popup[q])
      BY <2>1, <2>3, <3>2, PopupStateSteps
    <3>3. CASE popup'[q] = Opening(popup[q])
      <4>1. /\ Opening(popup[q]).shown
            /\ Opening(popup[q]).crossed = Opening(popup[q]).closers
            /\ Opening(popup[q]) \in PopupStates
        BY <2>1, PopupStateSteps
      <4>2. Opening(popup[q]).closers > 0 \/ Opening(popup[q]).closers = 0
        BY <4>1, MaxClosersAssumption DEF PopupStates
      <4> QED
        BY <3>3, <4>1, <4>2
    <3>4. CASE popup[q].closers > 0 /\ popup'[q] = Ending(popup[q])
      <4>1. popup[q].in /\ popup'[q].crossed = popup[q].crossed
        BY <2>1, <2>3, <3>4, PopupStateSteps
      <4>2. popup[q].closers # 0
        BY <3>4, <2>1 DEF PopupStates
      <4> QED
        BY <2>1, <4>1, <4>2
    <3> QED
      BY <2>2, <3>1, <3>2, <3>3, <3>4
  <2> QED
    BY <2>3 DEF InIsShown, PopupsIn
<1> QED
  BY <1>1, <1>2, <1>3, <1>4 DEF DialogInv, OneUp, PutUp, EachWaitsOnce, Waiting,
                                SomeoneUpWhileWaiting, Covered

-----------------------------------------------------------------------------
THEOREM DialogInvariant == DialogSpec => []DialogInv
<1>1. DialogInit => DialogInv
  <2> SUFFICES ASSUME DialogInit PROVE DialogInv
    OBVIOUS
  <2> USE DEF DialogInit
  <2>1. DialogTypeOK
    <3>1. popup \in [Popups -> PopupStates]
      BY MaxClosersAssumption DEF PopupStates
    <3> QED
      BY <3>1, EmptySeq DEF DialogTypeOK, Overlays
  <2>2. Len(stack) = 0 /\ PutUp = {} /\ \A d \in AllDialogs : ~Waiting(d)
    BY EmptySeq DEF PutUp, Waiting
  <2> QED
    BY <2>1, <2>2 DEF DialogInv, OneUp, EachWaitsOnce, SomeoneUpWhileWaiting, Covered,
                          InIsShown, PopupsIn
<1>2. DialogInv /\ [DialogNext]_dialogVars => DialogInv'
  <2> SUFFICES ASSUME DialogInv, [DialogNext]_dialogVars PROVE DialogInv'
    OBVIOUS
  <2>1. ASSUME NEW d \in AllDialogs, Show(d) PROVE DialogInv'
    BY <2>1, ShowKeepsInv
  <2>2. ASSUME NEW d \in AllDialogs, PressButton(d) PROVE DialogInv'
    BY <2>2, CloseDialogKeepsInv DEF PressButton
  <2>3. ASSUME NEW d \in AllDialogs, DialogFaded(d) PROVE DialogInv'
    BY <2>3, DialogFadedKeepsInv
  <2>4. CASE HidePreloader
    BY <2>4, CloseDialogKeepsInv DEF HidePreloader, PutUp
  <2>5. CASE OpenPopover \/ ClosePopover \/ TapOverlay
    BY <2>5, PopoverKeepsInv DEF TapOverlay
  <2>6. CASE ClosePopups \/ \E p \in Popups : OpenPopup(p) \/ ClosePopup(p) \/ PopupFaded(p)
    BY <2>6, PopupKeepsInv
  <2>7. CASE UNCHANGED dialogVars
    BY <2>7 DEF dialogVars, DialogInv, DialogTypeOK, OneUp, PutUp, EachWaitsOnce, Waiting,
                SomeoneUpWhileWaiting, Covered, InIsShown, PopupsIn
  <2> QED
    BY <2>1, <2>2, <2>3, <2>4, <2>5, <2>6, <2>7 DEF DialogNext
<1> QED
  BY <1>1, <1>2, PTL DEF DialogSpec

(* OneDialogAtATime: two taps on an alert, a preloader hidden with another *)
(* dialog up: never two dialogs, and never one left waiting for nobody.    *)
THEOREM DialogsOneAtATime == DialogSpec => []OneDialogAtATime
<1>1. DialogInv => OneDialogAtATime
  <2> SUFFICES ASSUME DialogInv PROVE Cardinality(PutUp) <= 1
    BY DEF DialogInv, SomeoneUpWhileWaiting, OneDialogAtATime
  <2>1. CASE PutUp = {}
    BY <2>1, FS_EmptySet
  <2>2. CASE PutUp # {}
    <3>1. PICK d \in PutUp : PutUp = {d}
      BY <2>2 DEF DialogInv, OneUp
    <3> QED
      BY <3>1, FS_Singleton
  <2> QED
    BY <2>1, <2>2
<1> QED
  BY <1>1, DialogInvariant, PTL

(* CoveredForAReason: no overlay is left over the page with nothing above   *)
(* it to be seen, but for a popup opened again while it was being closed.   *)
THEOREM DialogsCoverForAReason == DialogSpec => []CoveredForAReason
<1>1. DialogInv => CoveredForAReason
  BY DEF DialogInv, Covered, InIsShown, CoveredForAReason
<1> QED
  BY <1>1, DialogInvariant, PTL

(* WaitsOnce: who is called up while another is shown is in the stack once, *)
(* so none is lost and none is shown twice.                                 *)
THEOREM DialogsWaitOnce == DialogSpec => []WaitsOnce
<1>1. DialogInv => WaitsOnce
  <2> SUFFICES ASSUME DialogInv PROVE WaitsOnce
    OBVIOUS
  <2>1. stack \in Seq(AllDialogs) /\ DOMAIN stack = 1 .. Len(stack)
    BY LenProperties DEF DialogInv, DialogTypeOK
  <2>2. ToSet(stack) = {d \in AllDialogs : dialog[d] = "waiting"}
    BY <2>1, ElementOfSeq DEF DialogInv, EachWaitsOnce, Waiting, ToSet
  <2>3. IsInjective(stack)
    BY <2>1 DEF DialogInv, EachWaitsOnce, IsInjective
  <2> QED
    BY <2>2, <2>3 DEF WaitsOnce
<1> QED
  BY <1>1, DialogInvariant, PTL

-----------------------------------------------------------------------------
(***************************************************************************)
(* Pull to refresh (module PullRefresh), for any number of pulls.  While a *)
(* finger moves the content its classes are the finger's; when it does     *)
(* not, they are there for a refresh or for the end of a slide that will   *)
(* take them away.                                                         *)
(***************************************************************************)
FingerMoves == pull.finger /\ pull.isTouched /\ pull.isMoved

PullTidy ==
    /\ refreshes > 0 <=> "refreshing" \in content.classes
    /\ refreshes <= 1
    /\ content.down => FingerMoves
    /\ FingerMoves /\ ~pull.refresh => "pull-up" \notin content.classes
    /\ refreshes = 0 /\ ~FingerMoves /\ ~(content.awaited /\ content.slides) =>
           content.classes \subseteq {"transitioning"}

PullInv ==
    /\ PullTypeOK
    /\ refreshes + (IF pull.finger THEN 1 ELSE 0) <= pulls
    /\ ~rough => PullTidy


(* What the steps leave of the two records is of their types. *)
LEMMA ContentFields ==
    ASSUME NEW c \in ContentStates, NEW S \in SUBSET PullClasses,
           NEW down \in BOOLEAN, NEW slides \in BOOLEAN
    PROVE  /\ c.classes \in SUBSET PullClasses
           /\ {c.down, c.slides, c.awaited} \subseteq BOOLEAN
           /\ [c EXCEPT !.classes = S, !.slides = slides] \in ContentStates
           /\ [c EXCEPT !.classes = S, !.down = down, !.slides = slides] \in ContentStates
           /\ [c EXCEPT !.classes = S, !.slides = slides, !.down = down] \in ContentStates
           /\ [c EXCEPT !.classes = S, !.awaited = TRUE, !.slides = slides] \in ContentStates
           /\ [c EXCEPT !.slides = FALSE, !.awaited = FALSE, !.classes = S] \in ContentStates
BY DEF ContentStates

(***************************************************************************)
(* PullMoveKeepsInv: the finger takes the content over, whatever it was    *)
(* doing; its classes are then the finger's.                               *)
(***************************************************************************)
LEMMA PullMoveKeepsInv ==
    ASSUME PullInv, NEW to \in {"up", "near", "far"}, PullMove(to)
    PROVE  PullInv'
<1> DEFINE classes == IF pull.isMoved THEN content.classes
                      ELSE content.classes \ {"transitioning"}
           shown == CASE to = "up" -> {} [] to = "near" -> {"pull-down"} [] to = "far" -> {"pull-up"}
           S == (classes \ {"pull-up", "pull-down"}) \cup shown
           down == content.down \/ to # "up"
           slides == IF to = "up" THEN content.slides /\ pull.isMoved
                     ELSE "transitioning" \in classes
<1> USE DEF PullInv, PullTypeOK
<1>1. /\ content' = [content EXCEPT !.classes = S, !.down = down, !.slides = slides]
      /\ pull' = [pull EXCEPT !.isMoved = TRUE, !.refresh = (to = "far")]
      /\ pull.finger /\ pull.isTouched /\ UNCHANGED <<refreshes, rough, pulls>>
  BY DEF PullMove
<1>2. S \in SUBSET PullClasses /\ down \in BOOLEAN /\ slides \in BOOLEAN
  <2>1. classes \in SUBSET PullClasses /\ content.down \in BOOLEAN
        /\ content.slides \in BOOLEAN /\ pull.isMoved \in BOOLEAN
    BY DEF ContentStates, PullStates
  <2>2. shown \in SUBSET PullClasses
    BY DEF PullClasses
  <2>3. S \in SUBSET PullClasses
    BY <2>1, <2>2
  <2>4. down \in BOOLEAN
    BY Zenon
  <2>5. slides \in BOOLEAN
    <3>1. CASE to = "up"
      BY <3>1, Zenon
    <3>2. CASE to # "up"
      <4>1. CASE "transitioning" \in classes
        BY <3>2, <4>1
      <4>2. CASE "transitioning" \notin classes
        BY <3>2, <4>2
      <4> QED
        BY <4>1, <4>2
    <3> QED
      BY <3>1, <3>2
  <2> QED
    BY <2>3, <2>4, <2>5
<1>3. content' \in ContentStates /\ content'.classes = S
  <2> HIDE DEF S, down, slides
  <2>1. content' \in ContentStates
    BY <1>1, <1>2, ContentFields
  <2>2. content'.classes = S
    BY <1>1 DEF ContentStates
  <2> QED
    BY <2>1, <2>2
<1>4. pull' \in PullStates /\ pull'.finger /\ FingerMoves' /\ pull'.refresh = (to = "far")
  BY <1>1 DEF PullStates, FingerMoves
<1>5. "refreshing" \in S <=> "refreshing" \in content.classes
  OBVIOUS
<1>6. to # "far" => "pull-up" \notin S
  OBVIOUS
<1> QED
  BY <1>1, <1>3, <1>4, <1>5, <1>6 DEF PullTidy

(***************************************************************************)
(* PullEndKeepsInv: the content goes back, or stays for the refresh that   *)
(* begins; a finger that moved nothing leaves it as it was.                *)
(***************************************************************************)
LEMMA PullEndKeepsInv ==
    ASSUME PullInv, PullEnd
    PROVE  PullInv'
<1> DEFINE S == (content.classes \cup (IF content.down THEN {"transitioning"} ELSE {})
                                 \cup (IF pull.refresh THEN {"refreshing"} ELSE {}))
                \ (IF pull.refresh THEN {} ELSE {"pull-down"})
           slides == content.slides \/ content.down
<1> USE DEF PullInv, PullTypeOK
<1>1. /\ pull.finger /\ ~pull'.finger /\ pull' \in PullStates /\ ~FingerMoves'
      /\ UNCHANGED pulls
  BY DEF PullEnd, PullStates, FingerMoves
<1>2. CASE ~FingerMoves
  <2>1. UNCHANGED <<content, refreshes, rough>>
    BY <1>1, <1>2 DEF PullEnd, FingerMoves
  <2> QED
    BY <1>1, <1>2, <2>1, PullAssumption DEF PullTidy
<1>3. CASE FingerMoves
  <2>1. /\ content' = [content EXCEPT !.classes = S, !.slides = slides, !.down = FALSE]
        /\ refreshes' = refreshes + (IF pull.refresh THEN 1 ELSE 0)
        /\ rough' = (rough \/ (pull.refresh /\ refreshes > 0))
    BY <1>3 DEF PullEnd, FingerMoves
  <2>2. S \in SUBSET PullClasses /\ slides \in BOOLEAN
    BY DEF ContentStates, PullClasses
  <2>3. content' \in ContentStates /\ content'.classes = S /\ content'.down = FALSE
    <3> HIDE DEF S, slides
    <3>1. content' \in ContentStates
      BY <2>1, <2>2, ContentFields
    <3>2. content'.classes = S /\ content'.down = FALSE
      BY <2>1 DEF ContentStates
    <3> QED
      BY <3>1, <3>2
  <2>4. pull.refresh => "refreshing" \in S
    OBVIOUS
  <2>5. ~pull.refresh => ("refreshing" \in S <=> "refreshing" \in content.classes)
    OBVIOUS
  <2>6. ~pull.refresh /\ refreshes = 0 /\ ~rough => S \subseteq {"transitioning"}
    BY <1>3, <2>2 DEF PullTidy, PullClasses
  <2>7. /\ refreshes' \in 0 .. MaxPulls
        /\ refreshes' + (IF pull'.finger THEN 1 ELSE 0) <= pulls'
    BY <1>1, <2>1, PullAssumption
  <2>8. ASSUME ~rough' PROVE PullTidy'
    <3>1. PullTidy /\ refreshes \in {0, 1}
      <4>1. PullTidy
        BY <2>1, <2>8
      <4> QED
        BY <4>1, PullAssumption DEF PullTidy
    <3>2. CASE pull.refresh
      <4>1. ~(refreshes > 0)
        BY <2>1, <2>8, <3>2
      <4>2. refreshes' = 1
        BY <2>1, <3>1, <3>2, <4>1
      <4>3. "refreshing" \in content'.classes
        BY <2>3, <2>4, <3>2
      <4> HIDE DEF PullInv, PullTypeOK, FingerMoves
      <4> QED
        BY <1>1, <2>3, <4>2, <4>3 DEF PullTidy
    <3>3. CASE ~pull.refresh
      <4>1. refreshes' = refreshes /\ ~rough
        <5>1. refreshes' = refreshes + 0
          BY <2>1, <3>3
        <5>2. ~rough
          BY <2>1, <2>8
        <5>3. refreshes + 0 = refreshes
          BY <3>1
        <5> QED
          BY <5>1, <5>2, <5>3
      <4>2. "refreshing" \in content'.classes <=> "refreshing" \in content.classes
        BY <2>3, <2>5, <3>3
      <4>3. refreshes = 0 => content'.classes \subseteq {"transitioning"}
        BY <2>3, <2>6, <3>3, <4>1
      <4> HIDE DEF PullInv, PullTypeOK, FingerMoves, S
      <4> QED
        BY <1>1, <2>3, <3>1, <4>1, <4>2, <4>3 DEF PullTidy
    <3> QED
      BY <3>2, <3>3
  <2> QED
    BY <1>1, <2>1, <2>3, <2>7, <2>8
<1> QED
  BY <1>2, <1>3

(* PullToRefreshDone: content that no finger holds slides back. *)
LEMMA PullDoneKeepsInv ==
    ASSUME PullInv, PullToRefreshDone
    PROVE  PullInv'
<1> DEFINE S == (content.classes \ {"refreshing"}) \cup {"transitioning"}
           slides == content.slides \/ ("refreshing" \in content.classes /\ ~content.down)
<1> USE DEF PullInv, PullTypeOK
<1>1. /\ content' = [content EXCEPT !.classes = S, !.awaited = TRUE, !.slides = slides]
      /\ refreshes > 0 /\ refreshes' = refreshes - 1 /\ UNCHANGED <<pull, rough, pulls>>
  BY DEF PullToRefreshDone
<1>2. S \in SUBSET PullClasses /\ slides \in BOOLEAN
  BY DEF ContentStates, PullClasses
<1>3. /\ content' \in ContentStates /\ content'.classes = S /\ content'.down = content.down
      /\ content'.awaited /\ content'.slides = slides
  <2> HIDE DEF S, slides
  <2>1. content' \in ContentStates
    BY <1>1, <1>2, ContentFields
  <2>2. /\ content'.classes = S /\ content'.down = content.down
        /\ content'.awaited /\ content'.slides = slides
    BY <1>1 DEF ContentStates
  <2> QED
    BY <2>1, <2>2
<1>4. ~rough => refreshes = 1 /\ (FingerMoves \/ content'.slides)
  <2> SUFFICES ASSUME ~rough PROVE refreshes = 1 /\ (FingerMoves \/ content'.slides)
    OBVIOUS
  <2>1. refreshes = 1
    BY <1>1, PullAssumption DEF PullTidy
  <2>2. "refreshing" \in content.classes
    BY <1>1 DEF PullTidy
  <2>3. content.down => FingerMoves
    BY DEF PullTidy
  <2> QED
    BY <1>3, <2>1, <2>2, <2>3, Zenon
<1>5. "refreshing" \notin S /\ ("pull-up" \in S <=> "pull-up" \in content.classes)
  OBVIOUS
<1> QED
  BY <1>1, <1>3, <1>4, <1>5, PullAssumption DEF PullTidy, FingerMoves

LEMMA PullStepKeepsInv ==
    ASSUME PullInv, [PullNext]_pullVars
    PROVE  PullInv'
<1> USE PullAssumption DEF PullInv, PullTypeOK
<1>1. CASE PullStart
  <2>1. pull' \in PullStates /\ pull'.finger /\ ~FingerMoves' /\ ~FingerMoves /\ ~pull.finger
    BY <1>1 DEF PullStart, PullStates, FingerMoves
  <2> QED
    BY <1>1, <2>1 DEF PullStart, PullsOn, PullTidy
<1>2. CASE PullAside
  <2>1. pull' \in PullStates /\ pull'.finger = pull.finger /\ ~FingerMoves' /\ ~FingerMoves
    BY <1>2 DEF PullAside, PullStates, FingerMoves
  <2> QED
    BY <1>2, <2>1 DEF PullAside, PullTidy
<1>3. CASE PullFarDown
  <2>1. pull' \in PullStates /\ pull'.finger = pull.finger /\ ~FingerMoves' /\ ~FingerMoves
    BY <1>3 DEF PullFarDown, PullStates, FingerMoves
  <2>2. PICK slides \in {content.slides, FALSE} :
           /\ content' = [content EXCEPT !.classes = @ \ {"transitioning"}, !.slides = slides]
           /\ rough' = (rough \/ content.slides # slides)
    BY <1>3 DEF PullFarDown
  <2>3. /\ content' \in ContentStates
        /\ content'.classes = content.classes \ {"transitioning"}
        /\ content'.down = content.down /\ content'.awaited = content.awaited
        /\ content'.slides = slides
    BY <2>2 DEF ContentStates
  <2>4. "refreshing" \in content'.classes <=> "refreshing" \in content.classes
    BY <2>3
  <2>5. content'.classes \subseteq content.classes /\ UNCHANGED <<refreshes, pulls>>
    BY <1>3, <2>3 DEF PullFarDown
  <2> QED
    BY <2>1, <2>2, <2>3, <2>4, <2>5 DEF PullTidy
<1>4. CASE PullCancelled
  <2>1. pull' \in PullStates /\ ~pull'.finger /\ pull.finger /\ ~FingerMoves'
        /\ (FingerMoves => rough') /\ (rough => rough')
    BY <1>4 DEF PullCancelled, PullStates, FingerMoves
  <2> QED
    BY <1>4, <2>1 DEF PullCancelled, PullTidy
<1>5. CASE PullToRefreshTrigger
  <2>1. /\ content' \in ContentStates
        /\ content'.classes = content.classes \cup {"transitioning", "refreshing"}
        /\ content'.down = content.down /\ content'.awaited = content.awaited
    BY <1>5 DEF PullToRefreshTrigger, ContentStates, PullClasses
  <2>2. /\ refreshes' = refreshes + 1 /\ pulls' = pulls + 1 /\ pulls < MaxPulls
        /\ UNCHANGED <<pull, rough>> /\ "refreshing" \notin content.classes
    BY <1>5 DEF PullToRefreshTrigger, PullsOn
  <2> QED
    BY <2>1, <2>2 DEF PullTidy, FingerMoves
<1>6. CASE ContentSlideEnds
  <2>1. /\ content.slides
        /\ content' \in ContentStates
        /\ content'.classes = IF content.awaited THEN Settled(content.classes) ELSE content.classes
        /\ content'.down = content.down /\ ~content'.slides
        /\ UNCHANGED <<pull, refreshes, rough, pulls, FingerMoves>>
    BY <1>6 DEF ContentSlideEnds, Settled, ContentStates, FingerMoves
  <2>2. "refreshing" \in content'.classes <=> "refreshing" \in content.classes
    BY <2>1 DEF Settled
  <2>3. /\ content'.classes \subseteq content.classes
        /\ content.awaited => content'.classes \subseteq {"refreshing"}
    BY <2>1 DEF Settled, ContentStates, PullClasses
  <2> QED
    BY <2>1, <2>2, <2>3 DEF PullTidy
<1>7. CASE UNCHANGED pullVars
  BY <1>7 DEF pullVars, PullTidy, FingerMoves
<1> QED
  BY <1>1, <1>2, <1>3, <1>4, <1>5, <1>6, <1>7, PullMoveKeepsInv, PullEndKeepsInv,
     PullDoneKeepsInv DEF PullNext

(* PullInvHolds: PullInv holds in every state. *)
LEMMA PullInvHolds == PullSpec => []PullInv
<1>1. PullInit => PullInv
  BY PullAssumption DEF PullInit, PullInv, PullTypeOK, ContentStates, PullStates, PullTidy,
     FingerMoves, PullClasses
<1> QED
  BY <1>1, PullStepKeepsInv, PTL DEF PullSpec

(* PullSettles: a page that was pulled shows a refresh as long as there is  *)
(* one, and is left as it was when fingers, slides and refreshes are over.  *)
THEOREM PullComesToRest == PullSpec => []PullSettles
<1>1. PullInv => PullSettles
  BY DEF PullInv, PullTidy, FingerMoves, PullSettles
<1> QED
  BY <1>1, PullInvHolds, PTL

-----------------------------------------------------------------------------
(***************************************************************************)
(* The search bar (module SearchList), for any rows and queries.  The rows *)
(* and the overlay are always those of the last search; what the input     *)
(* holds has been searched for unless a timer is pending.                  *)
(***************************************************************************)
Asked == IF previousQuery = Unset THEN NoQuery ELSE previousQuery

RowsAsAsked ==
    ul # "replaced" /\ ~Misjudged(Asked) =>
        \A r \in rows \ newcomers : r \in hidden <=> r \notin Found(Asked)

InputIsAsked == ~pending /\ ~unheard /\ ~detached => input = Asked

OverlayAsAsked == ~hasty => (overlay <=> active /\ Asked = NoQuery)

InactiveIsEmpty == ~active => input = NoQuery /\ ~unheard /\ ~hasty

SearchInv ==
    /\ SearchTypeOK
    /\ IsVirtual => ul # "replaced"
    /\ narrowed => IsVirtual /\ previousQuery \in Queries
    /\ finds \in [Queries -> SUBSET Rows]
    /\ RowsAsAsked /\ InputIsAsked /\ OverlayAsAsked /\ InactiveIsEmpty

(***************************************************************************)
(* AskedKeepsInv: what a search does, after a timer or called by a script: *)
(* the rows and the overlay are made those of the query q.                 *)
(***************************************************************************)
LEMMA AskedKeepsRows ==
    ASSUME SearchInv, NEW q \in Queries \cup {NoQuery}, Compare(q),
           previousQuery' = q, UNCHANGED <<rows, how, finds, stale>>
    PROVE  /\ RowsAsAsked'
           /\ ul' \in {"none", "own", "replaced"} /\ (IsVirtual' => ul' # "replaced")
           /\ narrowed' \in BOOLEAN /\ (narrowed' => IsVirtual' /\ previousQuery' \in Queries)
           /\ hidden' \subseteq rows' /\ newcomers' \subseteq rows' /\ notFound' \in BOOLEAN
           /\ Asked' = q
<1> USE SearchAssumption DEF SearchInv, SearchTypeOK
<1>1. Asked' = q /\ Found(q)' = Found(q) /\ Misjudged(q)' = Misjudged(q) /\ IsVirtual' = IsVirtual
  BY DEF Asked, Found, Misjudged, IsVirtual
<1>2. CASE ul = "replaced" /\ notFound' \in BOOLEAN /\ UNCHANGED <<ul, hidden, narrowed, newcomers>>
  BY <1>1, <1>2 DEF RowsAsAsked
<1>3. CASE /\ ul # "replaced" /\ hidden' \in Left(q) /\ newcomers' = {}
           /\ ul' = IF ul = "none" /\ rows # {} THEN "own" ELSE ul
           /\ notFound' = (rows \subseteq hidden' /\ ~(IsVirtual /\ q = NoQuery))
           /\ narrowed' = (IsVirtual /\ q # NoQuery)
  <2>1. hidden' \subseteq rows /\ (~Misjudged(q) => hidden' = rows \ Found(q))
    BY <1>3 DEF Left, Hide
  <2>2. narrowed' \in BOOLEAN /\ (narrowed' => IsVirtual' /\ q \in Queries)
        /\ notFound' \in BOOLEAN
    BY <1>1, <1>3
  <2>3. ul' \in {"none", "own"}
    BY <1>3
  <2>4. RowsAsAsked'
    BY <1>1, <1>3, <2>1 DEF RowsAsAsked
  <2> QED
    BY <1>1, <1>3, <2>1, <2>2, <2>3, <2>4
<1>4. CASE Misjudged(q) /\ UNCHANGED <<ul, hidden, narrowed, newcomers, notFound>>
  <2>1. RowsAsAsked'
    BY <1>1, <1>4 DEF RowsAsAsked
  <2>2. q \in Queries
    BY <1>4 DEF Misjudged
  <2> QED
    BY <1>1, <1>4, <2>1, <2>2
<1> QED
  BY <1>2, <1>3, <1>4 DEF Compare

(* Enable: the overlay comes with the bar's activation, before the query. *)
LEMMA EnableKeepsOverlay ==
    ASSUME SearchInv, Enable, ~detached, UNCHANGED previousQuery
    PROVE  OverlayAsAsked' /\ active' = TRUE /\ {overlay', hasty'} \subseteq BOOLEAN
<1> USE DEF SearchInv, SearchTypeOK, Enable
<1>1. Asked' = Asked
  BY DEF Asked
<1>2. CASE active
  BY <1>1, <1>2 DEF OverlayAsAsked
<1>3. CASE ~active /\ pending
  BY <1>3 DEF OverlayAsAsked
<1>4. CASE ~active /\ ~pending
  <2>1. Asked = NoQuery
    BY <1>4 DEF InactiveIsEmpty, InputIsAsked
  <2> QED
    BY <1>1, <1>4, <2>1 DEF OverlayAsAsked
<1> QED
  BY <1>2, <1>3, <1>4

LEMMA SearchStepKeepsInv ==
    ASSUME SearchInv, [SearchNext]_searchVars
    PROVE  SearchInv'
<1> USE SearchAssumption DEF SearchInv, SearchTypeOK
<1>1. CASE HandleInput
  <2>1. CASE detached \/ input = previousQuery
    BY <1>1, <2>1 DEF HandleInput, RowsAsAsked, InputIsAsked, OverlayAsAsked, InactiveIsEmpty,
                      Asked, Found, Misjudged, IsVirtual, rowVars
  <2>2. CASE ~detached /\ input # previousQuery
    <3>1. /\ previousQuery' = input /\ Compare(input) /\ hasty' = FALSE /\ pending' = FALSE
          /\ overlay' = IF active THEN input = NoQuery ELSE overlay
          /\ UNCHANGED <<how, finds, input, active, unheard, rows, stale, detached>>
      BY <1>1, <2>2 DEF HandleInput, Overlay
    <3>2. /\ RowsAsAsked' /\ Asked' = input
          /\ ul' \in {"none", "own", "replaced"} /\ (IsVirtual' => ul' # "replaced")
          /\ narrowed' \in BOOLEAN /\ (narrowed' => IsVirtual' /\ previousQuery' \in Queries)
          /\ hidden' \subseteq rows' /\ newcomers' \subseteq rows' /\ notFound' \in BOOLEAN
      BY <3>1, AskedKeepsRows
    <3>3. OverlayAsAsked'
      BY <3>1, <3>2 DEF OverlayAsAsked, InactiveIsEmpty
    <3> QED
      BY <3>1, <3>2, <3>3 DEF InputIsAsked, InactiveIsEmpty
  <2> QED
    BY <2>1, <2>2
<1>2. ASSUME NEW q \in Queries \cup {NoQuery}, Search(q) PROVE SearchInv'
  <2>1. /\ previousQuery' = q /\ Compare(q) /\ hasty' = FALSE /\ input' = q /\ active' = TRUE
        /\ overlay' = (q = NoQuery) /\ unheard' = FALSE
        /\ UNCHANGED <<how, finds, pending, rows, stale, detached>>
    BY <1>2 DEF Search, Overlay
  <2>2. /\ RowsAsAsked' /\ Asked' = q
        /\ ul' \in {"none", "own", "replaced"} /\ (IsVirtual' => ul' # "replaced")
        /\ narrowed' \in BOOLEAN /\ (narrowed' => IsVirtual' /\ previousQuery' \in Queries)
        /\ hidden' \subseteq rows' /\ newcomers' \subseteq rows' /\ notFound' \in BOOLEAN
    BY <2>1, AskedKeepsRows
  <2> QED
    BY <2>1, <2>2 DEF InputIsAsked, OverlayAsAsked, InactiveIsEmpty
<1>3. ASSUME NEW q \in Queries \cup {NoQuery}, Type(q) PROVE SearchInv'
  <2>1. OverlayAsAsked' /\ active' = TRUE /\ {overlay', hasty'} \subseteq BOOLEAN
    BY <1>3, EnableKeepsOverlay DEF Type
  <2> QED
    BY <1>3, <2>1 DEF Type, RowsAsAsked, InputIsAsked, InactiveIsEmpty, Asked, Found, Misjudged, IsVirtual, rowVars
<1>4. ASSUME NEW q \in Queries \cup {NoQuery}, Paste(q) PROVE SearchInv'
  BY <1>4 DEF Paste, RowsAsAsked, InputIsAsked, OverlayAsAsked, InactiveIsEmpty, Asked, Found, Misjudged, IsVirtual, rowVars
<1>5. CASE Focus
  <2>1. OverlayAsAsked' /\ active' = TRUE /\ {overlay', hasty'} \subseteq BOOLEAN
    BY <1>5, EnableKeepsOverlay DEF Focus
  <2> QED
    BY <1>5, <2>1 DEF Focus, RowsAsAsked, InputIsAsked, InactiveIsEmpty, Asked, Found, Misjudged, IsVirtual, rowVars
<1>6. CASE Clear
  <2>1. OverlayAsAsked' /\ active' = TRUE /\ {overlay', hasty'} \subseteq BOOLEAN
    BY <1>6, EnableKeepsOverlay DEF Clear
  <2> QED
    BY <1>6, <2>1 DEF Clear, RowsAsAsked, InputIsAsked, InactiveIsEmpty, Asked, Found, Misjudged, IsVirtual, rowVars
<1>7. CASE Leave
  BY <1>7 DEF Leave, RowsAsAsked, InputIsAsked, OverlayAsAsked, InactiveIsEmpty, Asked, Found, Misjudged, IsVirtual, rowVars
<1>8. CASE Disable
  BY <1>8 DEF Disable, NoOverlay, RowsAsAsked, InputIsAsked, OverlayAsAsked, InactiveIsEmpty,
              Asked, Found, Misjudged, IsVirtual, rowVars
<1>9. CASE Destroy
  BY <1>9 DEF Destroy, RowsAsAsked, InputIsAsked, OverlayAsAsked, InactiveIsEmpty, Asked, Found,
              Misjudged, IsVirtual, rowVars
<1>10. ASSUME OnlyRows PROVE /\ Asked' = Asked /\ Found(Asked)' = Found(Asked)
                             /\ InputIsAsked' /\ OverlayAsAsked' /\ InactiveIsEmpty'
                             /\ IsVirtual' = IsVirtual
  BY <1>10 DEF OnlyRows, Asked, Found, InputIsAsked, OverlayAsAsked, InactiveIsEmpty, IsVirtual
<1>11. previousQuery \notin Queries => Asked = NoQuery /\ Found(Asked) = Rows
  BY DEF Asked, Found
<1>12. ASSUME NEW r \in Rows, AddRow(r) \/ RemoveRow(r) PROVE SearchInv'
  <2>1. OnlyRows /\ UNCHANGED <<ul, narrowed, stale>>
    BY <1>12 DEF AddRow, RemoveRow
  <2>2. Misjudged(Asked)' = Misjudged(Asked)
    BY <1>10, <2>1 DEF Misjudged, OnlyRows
  <2>3. RowsAsAsked'
    <3>1. CASE AddRow(r)
      BY <1>10, <1>11, <2>1, <2>2, <3>1 DEF AddRow, ComeIn, RowsAsAsked
    <3>2. CASE RemoveRow(r)
      BY <1>10, <2>1, <2>2, <3>2 DEF RemoveRow, RowsAsAsked
    <3> QED
      BY <1>12, <3>1, <3>2
  <2>4. rows' \subseteq Rows /\ hidden' \subseteq rows' /\ newcomers' \subseteq rows'
    BY <1>12 DEF AddRow, RemoveRow, ComeIn
  <2> QED
    BY <1>10, <2>1, <2>3, <2>4 DEF OnlyRows
<1>13. ASSUME NEW S \in SUBSET Rows, ReplaceAllRows(S) PROVE SearchInv'
  <2>1. OnlyRows /\ UNCHANGED ul
    BY <1>13 DEF ReplaceAllRows
  <2>2. RowsAsAsked'
    BY <1>10, <1>11, <1>13, <2>1 DEF ReplaceAllRows, ComeIn, RowsAsAsked
  <2> QED
    BY <1>10, <1>13, <2>1, <2>2 DEF ReplaceAllRows, OnlyRows, ComeIn
<1>14. CASE ReplaceUl
  <2>1. OnlyRows /\ UNCHANGED <<narrowed, stale>>
    BY <1>14 DEF ReplaceUl
  <2> QED
    BY <1>10, <1>14, <2>1 DEF ReplaceUl, OnlyRows, RowsAsAsked
<1>15. CASE UNCHANGED searchVars
  BY <1>15 DEF searchVars, RowsAsAsked, InputIsAsked, OverlayAsAsked, InactiveIsEmpty, Asked, Found, Misjudged, IsVirtual, rowVars
<1> QED
  BY <1>1, <1>2, <1>3, <1>4, <1>5, <1>6, <1>7, <1>8, <1>9, <1>12, <1>13, <1>14,
     <1>15 DEF SearchNext

(* SearchInvHolds: SearchInv holds in every state. *)
LEMMA SearchInvHolds == SearchSpec => []SearchInv
<1>1. SearchInit => SearchInv
  BY SearchAssumption DEF SearchInit, SearchInv, SearchTypeOK, RowsAsAsked, InputIsAsked,
     OverlayAsAsked, InactiveIsEmpty, Asked, Found, IsVirtual, Kinds
<1> QED
  BY <1>1, SearchStepKeepsInv, PTL DEF SearchSpec

(* ResultsMatch: once the timers have fired the rows shown and the overlay *)
(* are those of the text in the input, however it came there.              *)
THEOREM SearchResultsMatch == SearchSpec => []ResultsMatch
<1>1. SearchInv => ResultsMatch
  BY DEF SearchInv, ResultsMatch, RowsAsAsked, InputIsAsked, OverlayAsAsked
<1> QED
  BY <1>1, SearchInvHolds, PTL

-----------------------------------------------------------------------------
(***************************************************************************)
(* The list of sales orders (module OrderList).  ByLine is a choice; that  *)
(* there is something to choose is proved first, by induction over a set   *)
(* of numbers.                                                             *)
(***************************************************************************)

(* What a load asks for, what the phone keeps, the page's own variables, and
   the answers, which are never empty. *)
QueryRecords == [type : Types, from : 0 .. MaxDate]
PhoneRecords == [where : QueryRecords, waits : BOOLEAN, table : SUBSET orders]
SheetRecords == [type : Types, lastdata : 0 .. MaxDate, loading : BOOLEAN, ul : Seq(orders)]
Answers == Seq(orders) \ {<<>>}

OrderTypes ==
    /\ orders \in SUBSET AllOrders /\ IsFiniteSet(orders)
    /\ sheet \in SheetRecords
    /\ activePage \in {"home", "querysaord"}
    /\ phone \in PhoneRecords
    /\ asked \in Seq(QueryRecords)
    /\ results \in Seq(Answers)
    /\ mixed \in BOOLEAN /\ loads \in 0 .. MaxLoads

(* Every order of the type shown that is older than d is in the list. *)
Held(s, d) ==
    \A o \in orders : o.type = s.type /\ o.date < d => o \in ToSet(s.ul)

(* Among the orders S nothing is left out: what is older than one of them,
   and of the type shown, is in S or in the list already. *)
Reaches(s, S) ==
    \A x \in S, o \in orders :
        x.type = s.type /\ o.type = s.type /\ o.date < x.date =>
            o \in S \/ o \in ToSet(s.ul)

(* What is known of the page with the sheet s, of the phone, of the downloads
   under way and of the answers on their way. *)
SheetKnown(s) == Held(s, s.lastdata) /\ \A o \in ToSet(s.ul) : o.type = s.type
PhoneKnown(s, p) ==
    Held(s, p.where.from) /\ p.where.type = s.type /\ Reaches(s, p.table)
AskedKnown(s, a) == \A i \in DOMAIN a : a[i].type = s.type /\ Held(s, a[i].from)
ResultsKnown(s, r) ==
    \A i \in DOMAIN r :
        (\A x \in ToSet(r[i]) : x.type = s.type) /\ Reaches(s, ToSet(r[i]))

OrderKnown ==
    /\ SheetKnown(sheet) /\ PhoneKnown(sheet, phone)
    /\ AskedKnown(sheet, asked) /\ ResultsKnown(sheet, results)

(***************************************************************************)
(* OrderInv is inductive.  OrdersWithoutGap alone is not: rows may come    *)
(* from any download that is under way, so each of these must have been    *)
(* asked for from a date up to which the list is complete, the table of    *)
(* the phone must have no order that the list still lacks before one it    *)
(* has, and the same holds of every answer on its way.                     *)
(***************************************************************************)
OrderInv == OrderTypes /\ (~mixed => OrderKnown)

-----------------------------------------------------------------------------
(* Orders of one type; their line numbers tell them apart. *)
Alike(S) == \A a, b \in S : a.type = b.type
Sorted(s, S) ==
    /\ s \in [1 .. Cardinality(S) -> S] /\ ToSet(s) = S
    /\ \A i, j \in DOMAIN s : i < j => LineNo[s[i]] < LineNo[s[j]]

(* LineNo is a number for every order. *)
LEMMA LineNoIs ==
    ASSUME NEW a \in AllOrders
    PROVE  /\ LineNo[a] = a.date * 2 + a.no
           /\ LineNo[a] \in 1 .. 2 * MaxDate + 2
           /\ a.date \in 1 .. MaxDate /\ a.no \in {1, 2} /\ a.type \in Types
<1>1. a.date \in 1 .. MaxDate /\ a.no \in {1, 2} /\ a.type \in Types
  BY DEF AllOrders
<1>2. LineNo[a] = a.date * 2 + a.no
  BY DEF LineNo
<1> QED
  BY <1>1, <1>2, OrderAssumption

(* Two orders of a type have different numbers. *)
LEMMA LineNoTellsApart ==
    ASSUME NEW a \in AllOrders, NEW b \in AllOrders, a.type = b.type, LineNo[a] = LineNo[b]
    PROVE  a = b
<1>1. a.date = b.date /\ a.no = b.no
  <2> HIDE DEF AllOrders
  <2>1. a.date \in Int /\ b.date \in Int /\ a.date * 2 + a.no = b.date * 2 + b.no
        /\ a.no \in {1, 2} /\ b.no \in {1, 2}
    BY LineNoIs, OrderAssumption
  <2> QED
    BY <2>1
<1> QED
  BY <1>1 DEF AllOrders

(* Of any orders one comes last. *)
LEMMA LastByLine ==
    ASSUME NEW S \in SUBSET AllOrders, S # {}
    PROVE  \E m \in S : \A x \in S : LineNo[x] <= LineNo[m]
<1> DEFINE top == 2 * MaxDate + 2
           T == {top - LineNo[x] : x \in S}
<1>1. \A x \in S : LineNo[x] \in 1 .. top
  BY LineNoIs
<1>2. top \in Nat
  BY OrderAssumption
<1> HIDE DEF top
<1>3. T \in SUBSET Nat /\ T # {}
  BY <1>1, <1>2
<1>4. PICK k \in T : \A l \in T : k <= l
  BY <1>3, LeastNumber
<1>5. PICK m \in S : k = top - LineNo[m]
  BY <1>4
<1>6. ASSUME NEW x \in S PROVE LineNo[x] <= LineNo[m]
  <2>1. top - LineNo[m] <= top - LineNo[x]
    BY <1>4, <1>5
  <2> QED
    BY <2>1, <1>1, <1>2
<1> QED
  BY <1>6

(* The last of some orders goes to the end of the others, sorted. *)
LEMMA SortedLonger ==
    ASSUME NEW S \in SUBSET AllOrders, IsFiniteSet(S), Alike(S), NEW m \in S,
           \A x \in S : LineNo[x] <= LineNo[m],
           NEW s, Sorted(s, S \ {m})
    PROVE  \E t : Sorted(t, S)
<1> DEFINE n == Cardinality(S)
           t == [i \in 1 .. n |-> IF i = n THEN m ELSE s[i]]
<1>1. n \in Nat /\ n # 0 /\ Cardinality(S \ {m}) = n - 1
  BY FS_CardinalityType, FS_RemoveElement, FS_EmptySet
<1> HIDE DEF n
<1>2. s \in [1 .. n - 1 -> S \ {m}] /\ ToSet(s) = S \ {m} /\ DOMAIN s = 1 .. n - 1
  BY <1>1 DEF Sorted
<1>3. t \in [1 .. n -> S]
  <2>1. ASSUME NEW i \in 1 .. n PROVE t[i] \in S
    BY <2>1, <1>1, <1>2
  <2> QED
    BY <2>1
<1>4. ToSet(t) = S
  <2>1. ASSUME NEW x \in S PROVE x \in ToSet(t)
    <3>1. CASE x = m
      <4>1. n \in DOMAIN t /\ t[n] = m
        BY <1>1
      <4> HIDE DEF t
      <4> QED
        BY <4>1, <3>1 DEF ToSet
    <3>2. CASE x # m
      <4>1. PICK i \in 1 .. n - 1 : s[i] = x
        BY <1>2, <3>2 DEF ToSet
      <4>2. i \in DOMAIN t /\ t[i] = x
        BY <4>1, <1>1
      <4> HIDE DEF t
      <4> QED
        BY <4>2 DEF ToSet
    <3> QED
      BY <3>1, <3>2
  <2> HIDE DEF t
  <2>2. ToSet(t) \subseteq S
    BY <1>3 DEF ToSet
  <2> QED
    BY <2>1, <2>2
<1>5. ASSUME NEW i \in 1 .. n, NEW j \in 1 .. n, i < j
      PROVE  LineNo[t[i]] < LineNo[t[j]]
  <2>1. i \in 1 .. n - 1 /\ t[i] = s[i] /\ s[i] \in S \ {m}
    BY <1>5, <1>1, <1>2
  <2>2. CASE j = n
    <3>1. t[j] = m
      BY <2>2, <1>1
    <3>2. LineNo[s[i]] # LineNo[m] /\ LineNo[s[i]] <= LineNo[m]
      BY <2>1, LineNoTellsApart DEF Alike
    <3>3. LineNo[s[i]] \in Int /\ LineNo[m] \in Int
      BY <2>1, LineNoIs, OrderAssumption
    <3> QED
      BY <2>1, <3>1, <3>2, <3>3
  <2>3. CASE j # n
    <3>1. j \in 1 .. n - 1 /\ t[j] = s[j]
      BY <2>3, <1>1
    <3> QED
      BY <2>1, <3>1, <1>5, <1>2 DEF Sorted
  <2> QED
    BY <2>2, <2>3
<1>6. DOMAIN t = 1 .. n
  OBVIOUS
<1> HIDE DEF t
<1>7. Sorted(t, S)
  BY <1>3, <1>4, <1>5, <1>6 DEF Sorted, n
<1> QED
  BY <1>7

(* Finitely many orders of a type can be sorted (induction on how many). *)
LEMMA SortedExists ==
    ASSUME NEW S \in SUBSET AllOrders, IsFiniteSet(S), Alike(S)
    PROVE  \E s : Sorted(s, S)
<1> DEFINE Small(n) == {T \in SUBSET AllOrders : IsFiniteSet(T) /\ Alike(T) /\ Cardinality(T) = n}
           N == {n \in Nat : \A T \in Small(n) : \E s : Sorted(s, T)}
<1>1. 0 \in N
  <2>1. ASSUME NEW T \in Small(0) PROVE \E s : Sorted(s, T)
    <3>1. T = {} /\ Cardinality(T) = 0
      BY FS_EmptySet
    <3>2. <<>> \in [1 .. 0 -> {}] /\ ToSet(<<>>) = {} /\ DOMAIN <<>> = {}
      BY DEF ToSet
    <3>3. Sorted(<<>>, T)
      BY <3>1, <3>2 DEF Sorted
    <3> QED
      BY <3>3
  <2> QED
    BY <2>1
<1>2. ASSUME NEW n \in Nat, n \in N PROVE n + 1 \in N
  <2>1. ASSUME NEW T \in Small(n + 1) PROVE \E s : Sorted(s, T)
    <3>1. T # {}
      BY FS_EmptySet
    <3>2. PICK m \in T : \A x \in T : LineNo[x] <= LineNo[m]
      BY <3>1, LastByLine
    <3>3. T \ {m} \in Small(n)
      <4>1. IsFiniteSet(T) /\ Cardinality(T) = n + 1 /\ Alike(T) /\ T \in SUBSET AllOrders
        OBVIOUS
      <4>2. IsFiniteSet(T \ {m}) /\ Cardinality(T \ {m}) = n
        <5> HIDE DEF Small
        <5>1. IsFiniteSet(T \ {m}) /\ Cardinality(T \ {m}) = Cardinality(T) - 1
          BY <4>1, FS_RemoveElement
        <5> QED
          BY <5>1, <4>1
      <4>3. Alike(T \ {m})
        BY <4>1 DEF Alike
      <4> QED
        BY <4>1, <4>2, <4>3
    <3>4. PICK s : Sorted(s, T \ {m})
      BY <3>3, <1>2
    <3> QED
      BY <3>2, <3>4, SortedLonger
  <2> QED
    BY <2>1
<1> HIDE DEF N
<1>3. \A n \in Nat : n \in N
  BY <1>1, <1>2, SetInduction
<1>4. Cardinality(S) \in Nat /\ S \in Small(Cardinality(S))
  BY FS_CardinalityType
<1> QED
  BY <1>3, <1>4 DEF N

(* ByLine: the orders it is given, each of them, by line number. *)
LEMMA ByLineIs ==
    ASSUME NEW S \in SUBSET AllOrders, IsFiniteSet(S), Alike(S)
    PROVE  /\ ByLine(S) \in Seq(S) /\ ToSet(ByLine(S)) = S
           /\ \A i, j \in 1 .. Len(ByLine(S)) :
                 i < j => LineNo[ByLine(S)[i]] < LineNo[ByLine(S)[j]]
<1>1. Sorted(ByLine(S), S)
  <2>1. PICK s : Sorted(s, S)
    BY SortedExists
  <2>2. s \in [1 .. Cardinality(S) -> S] /\ ToSet(s) = S
        /\ \A i, j \in DOMAIN s : i < j => LineNo[s[i]] < LineNo[s[j]]
    BY <2>1 DEF Sorted
  <2> QED
    BY <2>2 DEF Sorted, ByLine
<1> DEFINE b == ByLine(S)
<1>2. b = ByLine(S)
  OBVIOUS
<1> HIDE DEF b
<1>3. Cardinality(S) \in Nat /\ b \in [1 .. Cardinality(S) -> S]
  BY <1>1, <1>2, FS_CardinalityType DEF Sorted
<1>4. b \in Seq(S) /\ Len(b) = Cardinality(S) /\ DOMAIN b = 1 .. Len(b)
  BY <1>3
<1> QED
  BY <1>1, <1>2, <1>4 DEF Sorted

-----------------------------------------------------------------------------
(* What SelectFrom selects is a finite set of orders of one type. *)
LEMMA SelectedFinite ==
    ASSUME NEW S \in SUBSET AllOrders, IsFiniteSet(S), NEW q
    PROVE  /\ SelectFrom(S, q) \in SUBSET S
           /\ SelectFrom(S, q) \in SUBSET AllOrders
           /\ IsFiniteSet(SelectFrom(S, q)) /\ Alike(SelectFrom(S, q))
<1>1. SelectFrom(S, q) \in SUBSET S /\ Alike(SelectFrom(S, q))
  BY DEF SelectFrom, Alike
<1> QED
  BY <1>1, FS_Subset

(* AnswerTo: the server sends orders that were asked for, and with an order
   all older ones that were asked for. *)
LEMMA AnswerIs ==
    ASSUME OrderTypes, NEW q \in QueryRecords
    PROVE  /\ AnswerTo(q) \in SUBSET SelectFrom(orders, q)
           /\ \A x \in AnswerTo(q), o \in SelectFrom(orders, q) :
                 o.date < x.date => o \in AnswerTo(q)
<1> DEFINE chosen == SelectFrom(orders, q)
           all == ByLine(chosen)
           n == IF Len(all) < AnswerSize THEN Len(all) ELSE AnswerSize
           answered == SubSeq(all, 1, n)
<1>1. chosen \in SUBSET AllOrders /\ IsFiniteSet(chosen) /\ Alike(chosen)
  BY SelectedFinite DEF OrderTypes
<1>2. AnswerTo(q) = ToSet(answered)
  BY DEF AnswerTo
<1> HIDE DEF chosen
<1>3. /\ all \in Seq(chosen) /\ ToSet(all) = chosen
      /\ \A i, j \in 1 .. Len(all) : i < j => LineNo[all[i]] < LineNo[all[j]]
  BY <1>1, ByLineIs
<1> HIDE DEF all
<1>4. n \in 0 .. Len(all)
  BY <1>3, OrderAssumption
<1> HIDE DEF n
<1>5. Len(answered) = n /\ DOMAIN answered = 1 .. n /\ \A i \in 1 .. n : answered[i] = all[i]
  <2>1. \A i \in 1 .. n : all[i] \in chosen
    BY <1>3, <1>4
  <2> QED
    BY <2>1, <1>3, <1>4
<1> HIDE DEF answered
<1>6. ToSet(answered) \in SUBSET chosen
  BY <1>3, <1>4, <1>5 DEF ToSet
<1>7. ASSUME NEW x \in ToSet(answered), NEW o \in chosen, o.date < x.date
      PROVE  o \in ToSet(answered)
  <2>1. PICK i \in 1 .. n : x = all[i]
    BY <1>5 DEF ToSet
  <2>2. PICK j \in 1 .. Len(all) : o = all[j]
    BY <1>3 DEF ToSet
  <2>3. LineNo[o] < LineNo[x]
    <3>1. x \in AllOrders /\ o \in AllOrders
      BY <1>1, <1>6
    <3>2. /\ LineNo[o] = o.date * 2 + o.no /\ LineNo[x] = x.date * 2 + x.no
          /\ o.date \in Int /\ x.date \in Int /\ o.no \in {1, 2} /\ x.no \in {1, 2}
      BY <3>1, LineNoIs, OrderAssumption
    <3> QED
      BY <3>2, <1>7
  <2>4. j <= n
    <3>1. CASE j = i
      BY <3>1, <1>4
    <3>2. CASE i < j
      <4>1. LineNo[x] < LineNo[o]
        BY <3>2, <1>3, <1>4, <2>1, <2>2
      <4>2. LineNo[x] \in Int /\ LineNo[o] \in Int
        BY <1>1, <1>6, LineNoIs, OrderAssumption
      <4> QED
        BY <4>1, <4>2, <2>3
    <3>3. CASE j < i
      BY <3>3, <1>4
    <3> QED
      BY <3>1, <3>2, <3>3, <1>4
  <2> QED
    BY <2>2, <2>4, <1>5 DEF ToSet
<1> QED
  BY <1>2, <1>6, <1>7 DEF chosen

(* RemoveAt: what is left was there before. *)
LEMMA RemoveAtIs ==
    ASSUME NEW S, NEW s \in Seq(S), NEW i \in DOMAIN s
    PROVE  /\ RemoveAt(s, i) \in Seq(S)
           /\ \A j \in DOMAIN RemoveAt(s, i) : \E k \in DOMAIN s : RemoveAt(s, i)[j] = s[k]
<1>1. DOMAIN s = 1 .. Len(s) /\ Len(s) \in Nat /\ \A j \in 1 .. Len(s) : s[j] \in S
  OBVIOUS
<1> DEFINE a == SubSeq(s, 1, i - 1)
           b == SubSeq(s, i + 1, Len(s))
<1>2. a \in Seq(S) /\ Len(a) = i - 1 /\ \A j \in 1 .. i - 1 : a[j] = s[j]
  BY <1>1
<1>3. b \in Seq(S) /\ Len(b) = Len(s) - i /\ \A j \in 1 .. Len(s) - i : b[j] = s[i + j]
  <2>1. i \in Int /\ i \in 1 .. Len(s) /\ \A k \in i + 1 .. Len(s) : s[k] \in S
    BY <1>1
  <2>2. /\ b \in Seq(S) /\ Len(b) = IF i + 1 <= Len(s) THEN Len(s) - (i + 1) + 1 ELSE 0
        /\ \A j \in 1 .. Len(s) - (i + 1) + 1 : b[j] = s[(i + 1) + j - 1]
    BY <2>1, <1>1, SubSeqProperties
  <2> HIDE DEF b
  <2>3. Len(b) = Len(s) - i
    BY <2>1, <2>2, <1>1
  <2>4. ASSUME NEW j \in 1 .. Len(s) - i PROVE b[j] = s[i + j]
    <3>1. j \in 1 .. Len(s) - (i + 1) + 1 /\ (i + 1) + j - 1 = i + j
      BY <2>1, <1>1
    <3> QED
      BY <3>1, <2>2
  <2> QED
    BY <2>2, <2>3, <2>4
<1>4. RemoveAt(s, i) = a \o b
  BY DEF RemoveAt
<1> HIDE DEF a, b
<1>5. /\ a \o b \in Seq(S) /\ Len(a \o b) = Len(a) + Len(b)
      /\ \A j \in 1 .. Len(a) + Len(b) : (a \o b)[j] = IF j <= Len(a) THEN a[j] ELSE b[j - Len(a)]
  BY <1>2, <1>3, ConcatProperties
<1>6. ASSUME NEW j \in 1 .. Len(a) + Len(b) PROVE \E k \in DOMAIN s : (a \o b)[j] = s[k]
  <2>0. i \in 1 .. Len(s)
    BY <1>1
  <2>1. CASE j <= i - 1
    <3>1. (a \o b)[j] = a[j] /\ j \in 1 .. i - 1
      BY <2>1, <2>0, <1>1, <1>2, <1>3, <1>5
    <3>2. j \in DOMAIN s
      BY <3>1, <2>0, <1>1
    <3> QED
      BY <3>1, <3>2, <1>2
  <2>2. CASE i - 1 < j
    <3>1. (a \o b)[j] = b[j - (i - 1)]
      BY <2>0, <2>2, <1>1, <1>2, <1>5
    <3>2. /\ j - (i - 1) \in 1 .. Len(s) - i /\ i + (j - (i - 1)) = j + 1
          /\ j + 1 \in DOMAIN s
      BY <2>0, <2>2, <1>1, <1>2, <1>3
    <3>3. b[j - (i - 1)] = s[j + 1]
      BY <3>2, <1>3
    <3> QED
      BY <3>1, <3>2, <3>3
  <2> QED
    BY <2>0, <2>1, <2>2, <1>1
<1>7. DOMAIN (a \o b) = 1 .. Len(a) + Len(b)
  BY <1>5
<1> QED
  BY <1>4, <1>5, <1>6, <1>7


-----------------------------------------------------------------------------
(* Tell keeps the types. *)
LEMMA TellTypes ==
    ASSUME OrderTypes, NEW p, p \in PhoneRecords, NEW table \in SUBSET orders, Tell(p, table)
    PROVE  phone' \in PhoneRecords /\ results' \in Seq(Answers)
<1> DEFINE chosen == SelectFrom(table, p.where)
           found == ByLine(chosen)
<1>1. /\ phone' = [p EXCEPT !.table = table, !.waits = FALSE]
      /\ results' = IF p.waits /\ found # <<>> THEN Append(results, found) ELSE results
  BY DEF Tell
<1>2. chosen \in SUBSET AllOrders /\ IsFiniteSet(chosen) /\ Alike(chosen)
      /\ chosen \in SUBSET orders
  BY SelectedFinite, FS_Subset DEF OrderTypes
<1> HIDE DEF chosen
<1>3. found \in Seq(orders)
  BY <1>2, ByLineIs
<1> HIDE DEF found
<1>4. results' \in Seq(Answers)
  BY <1>1, <1>3 DEF OrderTypes, Answers
<1> QED
  BY <1>1, <1>4 DEF PhoneRecords

(* Tell: when nothing is left out of the table and what the latest call asked
   for starts where the list ends, the answer leaves nothing out. *)
LEMMA TellKnown ==
    ASSUME OrderTypes, NEW p, p \in PhoneRecords, NEW table \in SUBSET orders, Tell(p, table),
           NEW s, Held(s, p.where.from), p.where.type = s.type, Reaches(s, table),
           ResultsKnown(s, results)
    PROVE  /\ Held(s, phone'.where.from) /\ phone'.where.type = s.type
           /\ Reaches(s, phone'.table) /\ ResultsKnown(s, results')
<1> DEFINE chosen == SelectFrom(table, p.where)
           found == ByLine(chosen)
<1>1. /\ phone' = [p EXCEPT !.table = table, !.waits = FALSE]
      /\ results' = IF p.waits /\ found # <<>> THEN Append(results, found) ELSE results
  BY DEF Tell
<1>2. phone'.where = p.where /\ phone'.table = table
  BY <1>1 DEF PhoneRecords
<1>3. chosen \in SUBSET AllOrders /\ IsFiniteSet(chosen) /\ Alike(chosen)
  BY SelectedFinite, FS_Subset DEF OrderTypes
<1>4. Reaches(s, chosen) /\ \A x \in chosen : x.type = s.type
  <2>1. \A x \in chosen : x \in table /\ x.type = s.type
    BY DEF SelectFrom
  <2>2. ASSUME NEW x \in chosen, NEW o \in orders, o.type = s.type, o.date < x.date,
               o \notin ToSet(s.ul)
        PROVE  o \in chosen
    <3>1. o \in table
      BY <2>1, <2>2 DEF Reaches
    <3>2. ~ (o.date < p.where.from)
      BY <2>2 DEF Held
    <3>3. o.date \in Int /\ p.where.from \in Int
      BY OrderAssumption DEF OrderTypes, PhoneRecords, QueryRecords, AllOrders
    <3>4. o.date >= p.where.from
      BY <3>2, <3>3
    <3> QED
      BY <3>1, <3>4, <2>2 DEF SelectFrom
  <2> HIDE DEF chosen
  <2> QED
    BY <2>1, <2>2 DEF Reaches
<1> HIDE DEF chosen
<1>5. ToSet(found) = chosen /\ found \in Seq(chosen)
  BY <1>3, ByLineIs
<1> HIDE DEF found
<1>6. ASSUME NEW i \in DOMAIN results'
      PROVE  (\A x \in ToSet(results'[i]) : x.type = s.type) /\ Reaches(s, ToSet(results'[i]))
  <2>1. CASE results' = results
    BY <1>6, <2>1 DEF ResultsKnown
  <2>2. CASE results' = Append(results, found)
    <3>1. results \in Seq(Answers)
      BY DEF OrderTypes
    <3>2. CASE i \in DOMAIN results
      <4>1. results'[i] = results[i]
        BY <2>2, <3>1, <3>2
      <4> QED
        BY <4>1, <3>2 DEF ResultsKnown
    <3>3. CASE i \notin DOMAIN results
      <4>1. results'[i] = found
        BY <2>2, <3>1, <3>3, <1>6
      <4> QED
        BY <4>1, <1>4, <1>5
    <3> QED
      BY <3>2, <3>3
  <2> QED
    BY <1>1, <2>1, <2>2
<1> QED
  BY <1>2, <1>6 DEF ResultsKnown

(* LoadData keeps the types. *)
LEMMA LoadTypes ==
    ASSUME OrderTypes, NEW s, s \in SheetRecords, LoadData(s)
    PROVE  /\ phone' \in PhoneRecords /\ results' \in Seq(Answers)
           /\ asked' \in Seq(QueryRecords) /\ loads' \in 0 .. MaxLoads
<1> DEFINE q == [type |-> s.type, from |-> s.lastdata]
           p == [phone EXCEPT !.where = q, !.waits = TRUE]
<1>1. q \in QueryRecords
  BY DEF SheetRecords, QueryRecords
<1>2. p \in PhoneRecords /\ p.table \in SUBSET orders
  <2> HIDE DEF q
  <2> QED
    BY <1>1 DEF OrderTypes, PhoneRecords
<1>3. loads' \in 0 .. MaxLoads
  BY OrderAssumption DEF LoadData, OrderTypes
<1>4. \/ /\ phone' = [p EXCEPT !.table = @ \ SelectFrom(@, q)]
         /\ asked' = Append(asked, q) /\ results' = results
      \/ Tell(p, p.table) /\ asked' = asked
  BY DEF LoadData
<1> HIDE DEF p, q
<1>5. CASE /\ phone' = [p EXCEPT !.table = @ \ SelectFrom(@, q)]
           /\ asked' = Append(asked, q) /\ results' = results
  <2>1. phone' \in PhoneRecords
    BY <1>5, <1>2 DEF PhoneRecords
  <2> QED
    BY <2>1, <1>1, <1>3, <1>5 DEF OrderTypes
<1>6. CASE Tell(p, p.table) /\ asked' = asked
  <2>1. asked' \in Seq(QueryRecords)
    BY <1>6 DEF OrderTypes
  <2> QED
    BY <2>1, <1>2, <1>3, <1>6, TellTypes
<1> QED
  BY <1>4, <1>5, <1>6


(* LoadData: the orders deleted from the table are the last ones, so that
   still nothing is left out of it. *)
LEMMA LoadReaches ==
    ASSUME OrderTypes, NEW s, s \in SheetRecords, LoadData(s), Reaches(s, phone.table)
    PROVE  Reaches(s, phone'.table)
<1> DEFINE q == [type |-> s.type, from |-> s.lastdata]
           p == [phone EXCEPT !.where = q, !.waits = TRUE]
<1>1. phone'.table = phone.table \/ phone'.table = phone.table \ SelectFrom(phone.table, q)
  <2>1. \/ phone' = [p EXCEPT !.table = @ \ SelectFrom(@, q)]
        \/ Tell(p, p.table)
    BY DEF LoadData
  <2>2. q \in QueryRecords
    BY DEF SheetRecords, QueryRecords
  <2> HIDE DEF q
  <2>3. p \in PhoneRecords /\ p.table = phone.table
    BY <2>2 DEF OrderTypes, PhoneRecords
  <2> HIDE DEF p
  <2> QED
    BY <2>1, <2>3 DEF Tell, PhoneRecords
<1>2. ASSUME NEW x \in phone.table \ SelectFrom(phone.table, q), NEW o \in orders,
             x.type = s.type, o.type = s.type, o.date < x.date, o \notin ToSet(s.ul)
      PROVE  o \in phone.table \ SelectFrom(phone.table, q)
  <2>1. o \in phone.table
    BY <1>2 DEF Reaches
  <2>2. ~ (x.date >= q.from)
    BY <1>2 DEF SelectFrom
  <2>3. x.date \in Int /\ o.date \in Int /\ q.from \in Int
    BY OrderAssumption DEF OrderTypes, PhoneRecords, AllOrders, SheetRecords
  <2>4. ~ (o.date >= q.from)
    BY <2>2, <2>3, <1>2
  <2> QED
    BY <2>1, <2>4 DEF SelectFrom
<1> HIDE DEF q
<1> QED
  BY <1>1, <1>2 DEF Reaches

(* LoadData: what is asked for starts where the list ends. *)
LEMMA LoadKnown ==
    ASSUME OrderTypes, NEW s, s \in SheetRecords, LoadData(s), Held(s, s.lastdata),
           AskedKnown(s, asked), ResultsKnown(s, results), Reaches(s, phone'.table)
    PROVE  /\ Held(s, phone'.where.from) /\ phone'.where.type = s.type
           /\ AskedKnown(s, asked') /\ ResultsKnown(s, results')
<1> DEFINE q == [type |-> s.type, from |-> s.lastdata]
           p == [phone EXCEPT !.where = q, !.waits = TRUE]
<1>1. q \in QueryRecords /\ q.type = s.type /\ q.from = s.lastdata
  BY DEF SheetRecords, QueryRecords
<1>2. /\ p \in PhoneRecords
      /\ p.table = phone.table /\ p.where = q /\ phone.table \in SUBSET orders
  <2> HIDE DEF q
  <2> QED
    BY <1>1 DEF OrderTypes, PhoneRecords
<1>3. \/ /\ phone' = [p EXCEPT !.table = @ \ SelectFrom(@, q)]
         /\ asked' = Append(asked, q) /\ results' = results
      \/ Tell(p, p.table) /\ asked' = asked
  BY DEF LoadData
<1> HIDE DEF p, q
<1>5. CASE /\ phone' = [p EXCEPT !.table = @ \ SelectFrom(@, q)]
           /\ asked' = Append(asked, q) /\ results' = results
  <2>1. phone'.where = q
    BY <1>5, <1>2 DEF PhoneRecords
  <2>2. ASSUME NEW i \in DOMAIN asked' PROVE asked'[i].type = s.type /\ Held(s, asked'[i].from)
    <3>1. asked \in Seq(QueryRecords)
      BY DEF OrderTypes
    <3>2. CASE i \in DOMAIN asked
      <4>1. asked'[i] = asked[i]
        BY <1>5, <3>1, <3>2
      <4> QED
        BY <4>1, <3>2 DEF AskedKnown
    <3>3. CASE i \notin DOMAIN asked
      <4>1. asked'[i] = q
        BY <1>5, <3>1, <3>3, <2>2
      <4> QED
        BY <4>1, <1>1
    <3> QED
      BY <3>2, <3>3
  <2>3. ResultsKnown(s, results')
    BY <1>5
  <2> QED
    BY <1>1, <2>1, <2>2, <2>3 DEF AskedKnown
<1>6. CASE Tell(p, p.table) /\ asked' = asked
  <2>1. phone'.table = phone.table
    BY <1>6, <1>2 DEF Tell, PhoneRecords
  <2>2. Reaches(s, p.table)
    BY <2>1, <1>2
  <2>3. /\ Held(s, phone'.where.from) /\ phone'.where.type = s.type
        /\ ResultsKnown(s, results')
    BY <1>1, <1>2, <1>6, <2>2, TellKnown
  <2> QED
    BY <2>3, <1>6
<1> QED
  BY <1>3, <1>5, <1>6

-----------------------------------------------------------------------------
(* A step that leaves the list as it is keeps OrderKnown when it keeps what
   is known of phone, downloads and answers. *)
LEMMA SameSheet ==
    ASSUME OrderKnown, orders' = orders, sheet'.type = sheet.type, sheet'.ul = sheet.ul,
           sheet'.lastdata = sheet.lastdata,
           Held(sheet, phone'.where.from), phone'.where.type = sheet.type,
           Reaches(sheet, phone'.table), AskedKnown(sheet, asked'),
           ResultsKnown(sheet, results')
    PROVE  OrderKnown'
<1>1. \A d : Held(sheet, d) => Held(sheet, d)'
  BY DEF Held
<1>2. \A S : Reaches(sheet, S) => Reaches(sheet, S)'
  BY DEF Reaches
<1>3. SheetKnown(sheet)'
  BY DEF OrderKnown, SheetKnown, Held
<1>4. PhoneKnown(sheet, phone)'
  BY DEF PhoneKnown, Held, Reaches
<1>5. AskedKnown(sheet, asked)'
  BY DEF AskedKnown, Held
<1>6. ResultsKnown(sheet, results)'
  BY DEF ResultsKnown, Reaches
<1> QED
  BY <1>3, <1>4, <1>5, <1>6 DEF OrderKnown

(* Each action keeps OrderInv. *)
LEMMA InfiniteKeeps ==
    ASSUME OrderInv, Infinite
    PROVE  OrderInv'
<1>1. OrderTypes'
  BY DEF OrderInv, OrderTypes, Infinite, SheetRecords, PhoneRecords, Answers
<1>2. ASSUME ~mixed' PROVE OrderKnown'
  <2>1. OrderKnown
    BY <1>2 DEF OrderInv, Infinite
  <2>2. /\ orders' = orders /\ phone' = phone /\ asked' = asked /\ results' = results
        /\ sheet'.type = sheet.type /\ sheet'.ul = sheet.ul /\ sheet'.lastdata = sheet.lastdata
    BY DEF OrderInv, OrderTypes, Infinite, SheetRecords
  <2> QED
    BY <2>1, <2>2, SameSheet DEF OrderKnown, PhoneKnown
<1> QED
  BY <1>1, <1>2 DEF OrderInv

LEMMA TimerFiresKeeps ==
    ASSUME OrderInv, TimerFires
    PROVE  OrderInv'
<1>1. OrderTypes /\ sheet \in SheetRecords /\ LoadData(sheet)
  BY DEF OrderInv, OrderTypes, TimerFires
<1>2. /\ orders' = orders /\ activePage' = activePage /\ mixed' = mixed
      /\ sheet' = [sheet EXCEPT !.loading = FALSE]
  BY DEF TimerFires
<1>3. OrderTypes'
  <2>1. /\ phone' \in PhoneRecords /\ results' \in Seq(Answers)
        /\ asked' \in Seq(QueryRecords) /\ loads' \in 0 .. MaxLoads
    BY <1>1, LoadTypes
  <2>2. sheet' \in SheetRecords
    BY <1>1, <1>2 DEF SheetRecords
  <2> QED
    BY <1>1, <1>2, <2>1, <2>2 DEF OrderTypes, PhoneRecords, SheetRecords, Answers
<1>4. ASSUME ~mixed' PROVE OrderKnown'
  <2>1. OrderKnown
    BY <1>2, <1>4 DEF OrderInv
  <2>2. /\ Held(sheet, sheet.lastdata) /\ AskedKnown(sheet, asked)
        /\ ResultsKnown(sheet, results) /\ Reaches(sheet, phone.table)
    BY <2>1 DEF OrderKnown, SheetKnown, PhoneKnown
  <2>3. Reaches(sheet, phone'.table)
    BY <1>1, <2>2, LoadReaches
  <2>4. /\ Held(sheet, phone'.where.from) /\ phone'.where.type = sheet.type
        /\ AskedKnown(sheet, asked') /\ ResultsKnown(sheet, results')
    BY <1>1, <2>2, <2>3, LoadKnown
  <2>5. sheet'.type = sheet.type /\ sheet'.ul = sheet.ul /\ sheet'.lastdata = sheet.lastdata
    BY <1>1, <1>2 DEF SheetRecords
  <2> QED
    BY <1>2, <2>1, <2>3, <2>4, <2>5, SameSheet
<1> QED
  BY <1>3, <1>4 DEF OrderInv


LEMMA TabKeeps ==
    ASSUME OrderInv, NEW t \in Types, Tab(t)
    PROVE  OrderInv'
<1>1. /\ OrderTypes /\ LoadData(sheet')
      /\ sheet' = [sheet EXCEPT !.type = t, !.lastdata = Since1900, !.ul = <<>>]
      /\ mixed' = (mixed \/ asked # <<>> \/ results # <<>> \/ Holes(phone'.table, t))
      /\ orders' = orders /\ activePage' = activePage
  BY DEF Tab, OrderInv
<1>2. /\ sheet' \in SheetRecords /\ sheet'.type = t /\ sheet'.lastdata = 0
      /\ sheet'.ul = <<>> /\ ToSet(sheet'.ul) = {}
  <2>1. 0 \in 0 .. MaxDate /\ <<>> \in Seq(orders)
    BY OrderAssumption
  <2>2. /\ sheet' \in SheetRecords /\ sheet'.type = t /\ sheet'.lastdata = 0
        /\ sheet'.ul = <<>>
    BY <1>1, <2>1 DEF OrderTypes, SheetRecords, Since1900
  <2> QED
    BY <2>2 DEF ToSet
<1>3. /\ phone' \in PhoneRecords /\ results' \in Seq(Answers)
      /\ asked' \in Seq(QueryRecords) /\ loads' \in 0 .. MaxLoads
  BY <1>1, <1>2, LoadTypes
<1>4. OrderTypes'
  <2>1. mixed' \in BOOLEAN
    BY <1>1 DEF Holes, OrderTypes
  <2> QED
    BY <1>1, <1>2, <1>3, <2>1 DEF OrderTypes, PhoneRecords, SheetRecords, Answers
<1>5. ASSUME ~mixed' PROVE OrderKnown'
  <2>1. ~mixed /\ asked = <<>> /\ results = <<>> /\ ~Holes(phone'.table, t)
    BY <1>1, <1>5
  <2>2. Reaches(sheet', phone'.table)
    BY <2>1, <1>2 DEF Holes, Reaches
  <2>3. Held(sheet', sheet'.lastdata)
    BY <1>1, <1>2, OrderAssumption DEF Held, OrderTypes, AllOrders
  <2>4. AskedKnown(sheet', asked) /\ ResultsKnown(sheet', results)
    BY <2>1 DEF AskedKnown, ResultsKnown
  <2>5. /\ Held(sheet', phone'.where.from) /\ phone'.where.type = sheet'.type
        /\ AskedKnown(sheet', asked') /\ ResultsKnown(sheet', results')
    BY <1>1, <1>2, <2>2, <2>3, <2>4, LoadKnown
  <2>6. SheetKnown(sheet)'
    BY <1>1, <1>2, <2>3 DEF SheetKnown, Held
  <2>7. PhoneKnown(sheet, phone)'
    BY <1>1, <2>2, <2>5 DEF PhoneKnown, Held, Reaches
  <2>8. AskedKnown(sheet, asked)' /\ ResultsKnown(sheet, results)'
    BY <1>1, <2>5 DEF AskedKnown, ResultsKnown, Held, Reaches
  <2> QED
    BY <2>6, <2>7, <2>8 DEF OrderKnown
<1> QED
  BY <1>4, <1>5 DEF OrderInv

(* A download that ends leaves the others as they were. *)
LEMMA OneLessAsked ==
    ASSUME OrderTypes, NEW i \in DOMAIN asked, NEW s
    PROVE  /\ RemoveAt(asked, i) \in Seq(QueryRecords)
           /\ AskedKnown(s, asked) => AskedKnown(s, RemoveAt(asked, i))
<1>1. /\ RemoveAt(asked, i) \in Seq(QueryRecords)
      /\ \A j \in DOMAIN RemoveAt(asked, i) :
            \E k \in DOMAIN asked : RemoveAt(asked, i)[j] = asked[k]
  BY RemoveAtIs DEF OrderTypes
<1> QED
  BY <1>1 DEF AskedKnown

(* What both ends of a download have in common. *)
LEMMA EndKeeps ==
    ASSUME OrderInv, NEW i \in DOMAIN asked, NEW table \in SUBSET orders,
           Tell(phone, table), asked' = RemoveAt(asked, i),
           OrderKnown => Reaches(sheet, table),
           UNCHANGED <<orders, sheet, activePage, mixed, loads>>
    PROVE  OrderInv'
<1>1. OrderTypes /\ phone \in PhoneRecords
  BY DEF OrderInv, OrderTypes
<1>2. OrderTypes'
  <2>1. phone' \in PhoneRecords /\ results' \in Seq(Answers)
    BY <1>1, TellTypes
  <2>2. asked' \in Seq(QueryRecords)
    BY <1>1, OneLessAsked
  <2> QED
    BY <1>1, <2>1, <2>2 DEF OrderTypes, PhoneRecords, SheetRecords, Answers
<1>3. ASSUME ~mixed' PROVE OrderKnown'
  <2>1. OrderKnown
    BY <1>3 DEF OrderInv
  <2>2. /\ Held(sheet, phone.where.from) /\ phone.where.type = sheet.type
        /\ Reaches(sheet, table) /\ ResultsKnown(sheet, results)
    BY <2>1 DEF OrderKnown, PhoneKnown
  <2>3. /\ Held(sheet, phone'.where.from) /\ phone'.where.type = sheet.type
        /\ Reaches(sheet, phone'.table) /\ ResultsKnown(sheet, results')
    BY <1>1, <2>2, TellKnown
  <2>4. AskedKnown(sheet, asked')
    BY <1>1, <2>1, OneLessAsked DEF OrderKnown
  <2> QED
    BY <2>1, <2>3, <2>4, SameSheet
<1> QED
  BY <1>2, <1>3 DEF OrderInv

LEMMA DownloadedKeeps ==
    ASSUME OrderInv, NEW i \in DOMAIN asked, Downloaded(i)
    PROVE  OrderInv'
<1> DEFINE q == asked[i]
           came == AnswerTo(q)
           gone == IF came = {} THEN {} ELSE SelectFrom(phone.table, q)
           table == (phone.table \ gone) \cup came
<1>1. OrderTypes /\ q \in QueryRecords
  BY DEF OrderInv, OrderTypes
<1>2. /\ asked' = RemoveAt(asked, i) /\ Tell(phone, table)
      /\ UNCHANGED <<orders, sheet, activePage, mixed, loads>>
  BY DEF Downloaded
<1>3. /\ came \in SUBSET SelectFrom(orders, q)
      /\ \A x \in came, o \in SelectFrom(orders, q) : o.date < x.date => o \in came
  BY <1>1, AnswerIs
<1>4. came \in SUBSET orders
  BY <1>3 DEF SelectFrom
<1> HIDE DEF came
<1>5. table \in SUBSET orders
  BY <1>1, <1>4 DEF OrderTypes, PhoneRecords
<1>6. ASSUME OrderKnown PROVE Reaches(sheet, table)
  <2>1. /\ q.type = sheet.type /\ Held(sheet, q.from) /\ Reaches(sheet, phone.table)
    BY <1>6 DEF OrderKnown, AskedKnown, PhoneKnown
  <2>2. ASSUME NEW x \in table, NEW o \in orders, x.type = sheet.type, o.type = sheet.type,
               o.date < x.date, o \notin ToSet(sheet.ul)
        PROVE  o \in table
    <3>1. CASE came = {}
      BY <3>1, <2>1, <2>2 DEF Reaches
    <3>2. CASE came # {}
      <4>1. x.date \in Int /\ o.date \in Int /\ q.from \in Int
        BY <1>1, <1>5, OrderAssumption DEF OrderTypes, AllOrders, QueryRecords
      <4>2. ~ (o.date < q.from)
        BY <2>1, <2>2 DEF Held
      <4>3. o.date >= q.from /\ x.date >= q.from
        BY <4>1, <4>2, <2>2
      <4>4. o \in SelectFrom(orders, q)
        BY <4>3, <2>1, <2>2 DEF SelectFrom
      <4>5. x \in came
        <5>1. x \in SelectFrom(phone.table, q) \/ x \in came
          <6>1. x \in phone.table \/ x \in came
            OBVIOUS
          <6> QED
            BY <6>1, <4>3, <2>1, <2>2 DEF SelectFrom
        <5>2. gone = SelectFrom(phone.table, q)
          BY <3>2
        <5> QED
          BY <5>1, <5>2
      <4> QED
        BY <4>4, <4>5, <2>2, <1>3
    <3> QED
      BY <3>1, <3>2
  <2> HIDE DEF table
  <2> QED
    BY <2>2 DEF Reaches
<1> HIDE DEF table, q
<1> QED
  BY <1>2, <1>5, <1>6, EndKeeps

LEMMA FailedKeeps ==
    ASSUME OrderInv, NEW i \in DOMAIN asked, Failed(i)
    PROVE  OrderInv'
<1>1. phone.table \in SUBSET orders
  BY DEF OrderInv, OrderTypes, PhoneRecords
<1>2. OrderKnown => Reaches(sheet, phone.table)
  BY DEF OrderKnown, PhoneKnown
<1> QED
  BY <1>1, <1>2, EndKeeps DEF Failed

LEMMA DroppedKeeps ==
    ASSUME OrderInv, NEW i \in DOMAIN asked, Dropped(i)
    PROVE  OrderInv'
<1>1. OrderTypes /\ asked' = RemoveAt(asked, i)
      /\ UNCHANGED <<orders, sheet, activePage, phone, results, mixed, loads>>
  BY DEF OrderInv, Dropped
<1>2. /\ asked' \in Seq(QueryRecords)
      /\ AskedKnown(sheet, asked) => AskedKnown(sheet, asked')
  BY <1>1, OneLessAsked
<1>3. OrderTypes'
  BY <1>1, <1>2 DEF OrderTypes, PhoneRecords, SheetRecords, Answers
<1>4. ASSUME ~mixed' PROVE OrderKnown'
  <2>1. OrderKnown
    BY <1>1, <1>4 DEF OrderInv
  <2> QED
    BY <1>1, <1>2, <2>1, SameSheet DEF OrderKnown, PhoneKnown
<1> QED
  BY <1>3, <1>4 DEF OrderInv

LEMMA ChangePageKeeps ==
    ASSUME OrderInv, ChangePage
    PROVE  OrderInv'
<1>1. OrderTypes /\ activePage' \in {"home", "querysaord"}
      /\ UNCHANGED <<orders, sheet, asked, phone, results, mixed, loads>>
  BY DEF OrderInv, ChangePage
<1>2. OrderTypes'
  BY <1>1 DEF OrderTypes, PhoneRecords, SheetRecords, Answers
<1>3. ASSUME ~mixed' PROVE OrderKnown'
  <2>1. OrderKnown
    BY <1>1, <1>3 DEF OrderInv
  <2> QED
    BY <1>1, <2>1, SameSheet DEF OrderKnown, PhoneKnown
<1> QED
  BY <1>2, <1>3 DEF OrderInv


LEMMA RowsArriveKeeps ==
    ASSUME OrderInv, RowsArrive
    PROVE  OrderInv'
<1> DEFINE batch == results[1]
<1>1. /\ OrderTypes /\ results # <<>> /\ results' = Tail(results)
      /\ sheet' = [sheet EXCEPT !.ul = IF activePage = "home" THEN @ \o batch ELSE @,
                                !.lastdata = Last(batch).date]
      /\ mixed' = (mixed \/ activePage # "home")
      /\ UNCHANGED <<orders, activePage, phone, asked, loads>>
  BY DEF OrderInv, RowsArrive
<1>2. /\ results \in Seq(Answers) /\ batch \in Answers /\ 1 \in DOMAIN results
      /\ results' \in Seq(Answers)
      /\ \A i \in DOMAIN results' : i + 1 \in DOMAIN results /\ results'[i] = results[i + 1]
  BY <1>1 DEF OrderTypes
<1> HIDE DEF batch
<1>3. /\ batch \in Seq(orders) /\ batch # <<>> /\ Len(batch) \in DOMAIN batch
      /\ Last(batch) = batch[Len(batch)] /\ Last(batch) \in orders /\ Last(batch) \in ToSet(batch)
  <2>1. batch \in Seq(orders) /\ batch # <<>>
    BY <1>2 DEF Answers
  <2>2. Len(batch) \in DOMAIN batch /\ Last(batch) = batch[Len(batch)]
    BY <2>1 DEF Last
  <2> QED
    BY <2>1, <2>2 DEF ToSet
<1>4. Last(batch).date \in 1 .. MaxDate /\ Last(batch).date \in 0 .. MaxDate
  <2>1. Last(batch).date \in 1 .. MaxDate
    BY <1>1, <1>3 DEF OrderTypes, AllOrders
  <2> QED
    BY <2>1
<1>5. OrderTypes'
  <2>1. sheet.ul \in Seq(orders) /\ sheet.ul \o batch \in Seq(orders)
    BY <1>1, <1>3 DEF OrderTypes, SheetRecords
  <2>2. sheet' \in SheetRecords
    BY <1>1, <1>4, <2>1 DEF OrderTypes, SheetRecords
  <2> QED
    BY <1>1, <1>2, <2>2 DEF OrderTypes, PhoneRecords, SheetRecords, Answers
<1>6. ASSUME ~mixed' PROVE OrderKnown'
  <2>1. OrderKnown /\ activePage = "home"
    BY <1>1, <1>6 DEF OrderInv
  <2>2. /\ sheet'.type = sheet.type /\ sheet'.lastdata = Last(batch).date
        /\ sheet'.ul = sheet.ul \o batch
    BY <1>1, <2>1 DEF OrderTypes, SheetRecords
  <2>3. ToSet(sheet'.ul) = ToSet(sheet.ul) \cup ToSet(batch)
    <3>1. sheet.ul \in Seq(orders)
      BY <1>1 DEF OrderTypes, SheetRecords
    <3>2. ASSUME NEW u \in Seq(orders), NEW v \in Seq(orders)
          PROVE  ToSet(u \o v) = ToSet(u) \cup ToSet(v)
      <4>1. /\ DOMAIN u = 1 .. Len(u) /\ DOMAIN v = 1 .. Len(v)
            /\ DOMAIN (u \o v) = 1 .. Len(u) + Len(v)
            /\ Len(u) \in Nat /\ Len(v) \in Nat
            /\ \A i \in 1 .. Len(u) + Len(v) :
                  (u \o v)[i] = IF i <= Len(u) THEN u[i] ELSE v[i - Len(u)]
        BY <3>2
      <4>2. ASSUME NEW i \in DOMAIN (u \o v)
            PROVE  (u \o v)[i] \in ToSet(u) \cup ToSet(v)
        <5>1. CASE i <= Len(u)
          BY <5>1, <4>1 DEF ToSet
        <5>2. CASE ~(i <= Len(u))
          <6>1. (u \o v)[i] = v[i - Len(u)] /\ i - Len(u) \in DOMAIN v
            BY <5>2, <4>1
          <6> QED
            BY <6>1 DEF ToSet
        <5> QED
          BY <5>1, <5>2
      <4>3. ASSUME NEW i \in DOMAIN u PROVE u[i] \in ToSet(u \o v)
        <5>1. i \in DOMAIN (u \o v) /\ (u \o v)[i] = u[i]
          BY <4>1
        <5> QED
          BY <5>1 DEF ToSet
      <4>4. ASSUME NEW i \in DOMAIN v PROVE v[i] \in ToSet(u \o v)
        <5>1. i + Len(u) \in DOMAIN (u \o v) /\ (u \o v)[i + Len(u)] = v[i]
          BY <4>1
        <5> QED
          BY <5>1 DEF ToSet
      <4> QED
        BY <4>2, <4>3, <4>4 DEF ToSet
    <3> QED
      BY <2>2, <3>1, <3>2, <1>3
  <2>4. \A d : Held(sheet, d) => Held(sheet', d)
    BY <2>2, <2>3 DEF Held
  <2>5. \A S : Reaches(sheet, S) => Reaches(sheet', S)
    BY <2>2, <2>3 DEF Reaches
  <2>6. /\ \A x \in ToSet(batch) : x.type = sheet.type
        /\ Reaches(sheet, ToSet(batch))
    BY <2>1, <1>2 DEF OrderKnown, ResultsKnown, batch
  <2>7. SheetKnown(sheet')
    <3>1. Held(sheet', sheet'.lastdata)
      <4>1. ASSUME NEW o \in orders, o.type = sheet.type, o.date < Last(batch).date
            PROVE  o \in ToSet(sheet'.ul)
        BY <4>1, <2>3, <2>6, <1>3 DEF Reaches
      <4> QED
        BY <4>1, <2>2 DEF Held
    <3>2. \A o \in ToSet(sheet'.ul) : o.type = sheet'.type
      BY <2>1, <2>2, <2>3, <2>6 DEF OrderKnown, SheetKnown
    <3> QED
      BY <3>1, <3>2 DEF SheetKnown
  <2>8. PhoneKnown(sheet', phone')
    BY <1>1, <2>1, <2>2, <2>4, <2>5 DEF OrderKnown, PhoneKnown
  <2>9. AskedKnown(sheet', asked')
    BY <1>1, <2>1, <2>2, <2>4 DEF OrderKnown, AskedKnown
  <2>10. ResultsKnown(sheet', results')
    <3>1. ASSUME NEW i \in DOMAIN results'
          PROVE  (\A x \in ToSet(results'[i]) : x.type = sheet'.type)
                 /\ Reaches(sheet', ToSet(results'[i]))
      BY <1>2, <2>1, <2>2, <2>5 DEF OrderKnown, ResultsKnown
    <3> QED
      BY <3>1 DEF ResultsKnown
  <2> QED
    BY <1>1, <2>7, <2>8, <2>9, <2>10
    DEF OrderKnown, SheetKnown, PhoneKnown, AskedKnown, ResultsKnown, Held, Reaches
<1> QED
  BY <1>5, <1>6 DEF OrderInv

-----------------------------------------------------------------------------
(* The first load, with or without a network, and from a table that holds all
   orders or none. *)
LEMMA OrderInvAtFirst ==
    ASSUME OrderInit
    PROVE  OrderInv
<1>1. /\ orders \in SUBSET AllOrders /\ IsFiniteSet(orders)
      /\ sheet = [type |-> FirstType, lastdata |-> Since1900, loading |-> FALSE, ul |-> <<>>]
      /\ activePage = "home" /\ mixed = FALSE /\ loads = 1
  BY DEF OrderInit
<1> DEFINE q == [type |-> FirstType, from |-> Since1900]
           found(table) == SelectFrom(table, q)
<1>2. PICK table \in {{}, orders}, online \in BOOLEAN :
          /\ phone = [where |-> q, waits |-> online,
                      table |-> IF online THEN table \ found(table) ELSE table]
          /\ asked = IF online THEN <<q>> ELSE <<>>
          /\ results = IF online \/ found(table) = {} THEN <<>> ELSE <<ByLine(found(table))>>
  BY DEF OrderInit
<1>3. /\ FirstType \in Types /\ 0 \in 0 .. MaxDate /\ 1 \in 0 .. MaxLoads /\ q \in QueryRecords
      /\ q.type = FirstType /\ q.from = 0
  BY OrderAssumption DEF QueryRecords, Since1900
<1> DEFINE chosen == found(table)
           batch == ByLine(chosen)
<1>4. /\ chosen \in SUBSET orders /\ chosen \in SUBSET AllOrders /\ IsFiniteSet(chosen)
      /\ Alike(chosen)
      /\ chosen = {} \/ chosen = {o \in orders : o.type = FirstType /\ o.date >= 0}
  <2>1. table \in SUBSET AllOrders /\ IsFiniteSet(table) /\ table \in SUBSET orders
    BY <1>1, FS_EmptySet
  <2>2. chosen = {} \/ chosen = {o \in orders : o.type = FirstType /\ o.date >= 0}
    <3>1. CASE table = {}
      BY <3>1 DEF SelectFrom
    <3>2. CASE table = orders
      BY <3>2, <1>3 DEF SelectFrom
    <3> QED
      BY <3>1, <3>2
  <2> HIDE DEF q
  <2> QED
    BY <2>1, <2>2, SelectedFinite
<1>5. \A o \in orders : o.date \in Int /\ o.date >= 0
  BY <1>1, OrderAssumption DEF AllOrders
<1>6. \A t \in Types, S \in {{}, orders, chosen, table \ chosen} :
         t = FirstType => \A x \in S, o \in orders : x.type = t /\ o.type = t => o \in S
  <2>1. chosen = {} \/ chosen = {o \in orders : o.type = FirstType}
    BY <1>4, <1>5
  <2>2. table \ chosen = {} \/ table \ chosen = orders
        \/ table \ chosen = {o \in orders : o.type # FirstType}
    <3>1. CASE table = {}
      BY <3>1
    <3>2. CASE table = orders
      BY <3>2, <2>1
    <3> QED
      BY <3>1, <3>2
  <2> HIDE DEF chosen
  <2> QED
    BY <2>1, <2>2
<1> HIDE DEF chosen
<1>7. batch \in Seq(chosen) /\ ToSet(batch) = chosen
  BY <1>4, ByLineIs
<1> HIDE DEF batch
<1>8. batch \in Seq(orders) /\ (chosen # {} => batch # <<>>)
  BY <1>4, <1>7 DEF ToSet
<1>9. /\ phone \in PhoneRecords /\ phone.where = q
      /\ phone.table \in {{}, orders, chosen, table \ chosen}
  BY <1>2, <1>3 DEF PhoneRecords, chosen
<1>10. asked \in Seq(QueryRecords) /\ asked \in {<<q>>, <<>>}
  BY <1>2, <1>3
<1>11. results \in Seq(Answers) /\ (results = <<>> \/ results = <<batch>>)
  <2>1. results = <<>> \/ (chosen # {} /\ results = <<batch>>)
    BY <1>2 DEF chosen, batch
  <2>2. CASE results = <<>>
    BY <2>2
  <2>3. CASE chosen # {} /\ results = <<batch>>
    <3>1. batch \in Answers
      BY <2>3, <1>8 DEF Answers
    <3> HIDE DEF Answers
    <3> QED
      BY <2>3, <3>1
  <2> QED
    BY <2>1, <2>2, <2>3
<1>12. OrderTypes
  <2>1. sheet \in SheetRecords
    BY <1>1, <1>3 DEF SheetRecords, Since1900
  <2> QED
    BY <1>1, <1>3, <1>9, <1>10, <1>11, <2>1 DEF OrderTypes
<1>13. OrderKnown
  <2>1. sheet.type = FirstType /\ sheet.lastdata = 0 /\ sheet.ul = <<>> /\ ToSet(sheet.ul) = {}
    BY <1>1 DEF ToSet, Since1900
  <2>2. Held(sheet, 0)
    BY <1>5 DEF Held
  <2>3. \A S \in {{}, orders, chosen, table \ chosen} : Reaches(sheet, S)
    BY <1>3, <1>6, <2>1 DEF Reaches
  <2>4. SheetKnown(sheet)
    BY <2>1, <2>2 DEF SheetKnown
  <2>5. PhoneKnown(sheet, phone)
    BY <1>3, <1>9, <2>1, <2>2, <2>3 DEF PhoneKnown
  <2> HIDE DEF q
  <2>6. AskedKnown(sheet, asked)
    BY <1>3, <1>10, <2>1, <2>2 DEF AskedKnown
  <2>7. ResultsKnown(sheet, results)
    <3>1. CASE results = <<>>
      BY <3>1 DEF ResultsKnown
    <3>2. CASE results = <<batch>>
      <4>1. \A x \in chosen : x.type = FirstType
        BY <1>4
      <4>2. ASSUME NEW i \in DOMAIN results PROVE results[i] = batch
        BY <3>2
      <4> QED
        BY <4>1, <4>2, <2>1, <2>3, <1>7 DEF ResultsKnown
    <3> QED
      BY <1>11, <3>1, <3>2
  <2> QED
    BY <2>4, <2>5, <2>6, <2>7 DEF OrderKnown
<1> QED
  BY <1>12, <1>13 DEF OrderInv

(* Every step keeps OrderInv. *)
LEMMA OrderInvInductive == OrderInv /\ [OrderNext]_orderVars => OrderInv'
<1> SUFFICES ASSUME OrderInv, [OrderNext]_orderVars PROVE OrderInv'
  OBVIOUS
<1>1. CASE Infinite
  BY <1>1, InfiniteKeeps
<1>2. CASE TimerFires
  BY <1>2, TimerFiresKeeps
<1>3. CASE RowsArrive
  BY <1>3, RowsArriveKeeps
<1>4. CASE ChangePage
  BY <1>4, ChangePageKeeps
<1>5. ASSUME NEW t \in Types, Tab(t) PROVE OrderInv'
  BY <1>5, TabKeeps
<1>6. ASSUME NEW i \in DOMAIN asked, Downloaded(i) PROVE OrderInv'
  BY <1>6, DownloadedKeeps
<1>7. ASSUME NEW i \in DOMAIN asked, Failed(i) PROVE OrderInv'
  BY <1>7, FailedKeeps
<1>8. ASSUME NEW i \in DOMAIN asked, Dropped(i) PROVE OrderInv'
  BY <1>8, DroppedKeeps
<1>9. CASE UNCHANGED orderVars
  BY <1>9 DEF orderVars, OrderInv, OrderTypes, OrderKnown, SheetKnown, PhoneKnown, AskedKnown,
     ResultsKnown, Held, Reaches, PhoneRecords, SheetRecords, Answers
<1> QED
  BY <1>1, <1>2, <1>3, <1>4, <1>5, <1>6, <1>7, <1>8, <1>9 DEF OrderNext

(* OrderInv implies the two properties. *)
LEMMA OrderInvMeans == OrderInv => OrderTypeOK /\ OrdersWithoutGap
<1> SUFFICES ASSUME OrderInv PROVE OrderTypeOK /\ OrdersWithoutGap
  OBVIOUS
<1>1. OrderTypeOK
  BY DEF OrderInv, OrderTypes, OrderTypeOK, PhoneRecords, SheetRecords, QueryRecords
<1>2. OrdersWithoutGap
  BY DEF OrderInv, OrdersWithoutGap, OrderKnown, SheetKnown, Held
<1> QED
  BY <1>1, <1>2

(***************************************************************************)
(* OrderTypeCorrect: in every state of the list of sales orders its        *)
(* variables have their types, and the phone's table and the list hold     *)
(* orders of the server only.                                              *)
(***************************************************************************)
THEOREM OrderTypeCorrect == OrderSpec => []OrderTypeOK
<1> QED
  BY OrderInvAtFirst, OrderInvInductive, OrderInvMeans, PTL DEF OrderSpec

(***************************************************************************)
(* ListWithoutGap: for any orders, any number of them in an answer of the  *)
(* server and any number of loads that overlap, fail, are dropped, or are  *)
(* answered from the table alone: the list has every order of the tab's    *)
(* type that is older than the date it goes on from, and none of another   *)
(* type, apart from the exceptions that mixed names.                       *)
(***************************************************************************)
THEOREM ListWithoutGap == OrderSpec => []OrdersWithoutGap
<1> QED
  BY OrderInvAtFirst, OrderInvInductive, OrderInvMeans, PTL DEF OrderSpec

-----------------------------------------------------------------------------
(***************************************************************************)
(* The virtual list (module VirtualList).  The inductive invariant,        *)
(* ListInv, says beside the type what the rows in view follow from: no two *)
(* items are the same, so that an item is found at its own index; a filter *)
(* names items only; a cached row shows the item of its index; the rows in *)
(* the document are those drawn for the last position; and the page        *)
(* scrolled no further from there than the buffer reaches.  Each operation *)
(* moves items and cached rows the same way, and drawing does the rest.    *)
(***************************************************************************)

(* The list's parts, of their types and bounded. *)
WellFormed(l) ==
    /\ l = [items |-> l.items, filtered |-> l.filtered, cache |-> l.cache]
    /\ l.filtered = [on |-> l.filtered.on, list |-> l.filtered.list]
    /\ l.items \in Seq(Nat) /\ Len(l.items) <= MaxItems
    /\ l.filtered.on \in BOOLEAN
    /\ l.filtered.list \in Seq(Nat) /\ Len(l.filtered.list) <= MaxItems
    /\ DOMAIN l.cache \subseteq -1 .. Len(l.items)

(* No two items are the same. *)
Distinct(s) == \A i, j \in DOMAIN s : s[i] = s[j] => i = j

(* No two items are the same, none is to come, those shown by a filter are
   items, and a cached row shows the item of its index. *)
Truthful(l, next) ==
    /\ Distinct(l.items)
    /\ \A i \in DOMAIN l.items : l.items[i] < next
    /\ l.filtered.on =>
          \A i \in DOMAIN l.filtered.list : \E j \in DOMAIN l.items : l.filtered.list[i] = l.items[j]
    /\ \A i \in DOMAIN l.cache : i \in 0 .. (Len(l.items) - 1) /\ l.cache[i] = l.items[i + 1]

(* What render leaves in the document for a scroll position. *)
RowsDrawn(l, y) ==
    {[at |-> k, shows |-> ItemsShown(l)[k + 1]] :
        k \in Window(y) \cap 0 .. (Len(ItemsShown(l)) - 1)}

(* The inductive invariant *)
ListInv ==
    /\ WellFormed(list)
    /\ view = [top |-> view.top, lastY |-> view.lastY, rows |-> view.rows]
    /\ view.top \in Nat /\ view.lastY \in Nat
    /\ \A r \in view.rows : r.at \in 0 .. MaxItems
    /\ fresh \in Nat /\ misled \in BOOLEAN
    /\ ~misled => /\ Truthful(list, fresh)
                  /\ view.rows = RowsDrawn(list, view.lastY)
                  /\ Abs(view.top - view.lastY) <= MaxBufferHeight

(* What the rounding down of a quotient bounds. *)
LEMMA DivBounds ==
    ASSUME NEW y \in Nat, NEW r \in Nat \ {0}
    PROVE  y \div r \in Nat /\ (y \div r) * r <= y /\ y < (y \div r) * r + r
  OBVIOUS

(* Of two products with one factor in common the less has the lesser other one. *)
LEMMA LessTimes ==
    ASSUME NEW a \in Int, NEW b \in Int, NEW r \in Nat \ {0}, a * r < b * r
    PROVE  a < b
<1> SUFFICES ASSUME b <= a PROVE FALSE
  OBVIOUS
<1>1. (a - b) \in Nat /\ (a - b) * r >= 0
  OBVIOUS
<1>2. (a - b) * r = a * r - b * r
  OBVIOUS
<1> QED
  BY <1>1, <1>2

(* The rows of a screen fill it; the buffer is a screen on either side. *)
LEMMA Sizes ==
    /\ RowsPerScreen \in Nat /\ RowsPerScreen * RowHeight >= PageHeight
    /\ RowsBefore = 2 * RowsPerScreen /\ RowsToRender = 4 * RowsPerScreen
    /\ MaxBufferHeight \in Nat /\ MaxBufferHeight = RowsPerScreen * RowHeight
<1>1. RowHeight \in Nat \ {0} /\ PageHeight \in Nat \ {0} /\ PageHeight + RowHeight - 1 \in Nat
  BY ListAssumption
<1>2. RowsPerScreen \in Nat
      /\ PageHeight + RowHeight - 1 < RowsPerScreen * RowHeight + RowHeight
  BY <1>1, DivBounds DEF RowsPerScreen
<1>3. RowsPerScreen * RowHeight \in Nat
  BY <1>1, <1>2
<1>4. RowsPerScreen * RowHeight >= PageHeight
  BY <1>1, <1>2, <1>3
<1> QED
  BY <1>2, <1>3, <1>4 DEF RowsBefore, RowsToRender, RowsAfter, MaxBufferHeight

(* As long as the page scrolled no further than the buffer, a row that is
   wholly in view was drawn. *)
LEMMA InView ==
    ASSUME NEW y \in Nat, NEW top \in Nat, Abs(top - y) <= MaxBufferHeight,
           NEW k \in Nat, k * RowHeight >= top, (k + 1) * RowHeight <= top + PageHeight
    PROVE  k \in Window(y)
<1> DEFINE q == y \div RowHeight
           n == RowsPerScreen
<1>1. RowHeight \in Nat \ {0} /\ PageHeight \in Nat
  BY ListAssumption
<1>2. q \in Nat /\ q * RowHeight <= y /\ y < q * RowHeight + RowHeight
  BY <1>1, DivBounds
<1>3. n \in Nat /\ n * RowHeight >= PageHeight /\ MaxBufferHeight = n * RowHeight
      /\ RowsBefore = 2 * n /\ RowsToRender = 4 * n
  BY Sizes
<1>4. Window(y) = (IF q > 2 * n THEN q - 2 * n ELSE 0)
                    .. ((IF q > 2 * n THEN q - 2 * n ELSE 0) + 4 * n - 1)
  BY <1>3 DEF Window
<1> HIDE DEF q, n
<1>5. /\ n * RowHeight \in Nat /\ q * RowHeight \in Nat /\ k * RowHeight \in Nat
      /\ (k + 1) * RowHeight = k * RowHeight + RowHeight
      /\ (q + 2 * n) * RowHeight = q * RowHeight + 2 * (n * RowHeight)
      /\ (q - n - 1) * RowHeight = q * RowHeight - n * RowHeight - RowHeight
  BY <1>1, <1>2, <1>3
<1>6. top - y <= n * RowHeight /\ y - top <= n * RowHeight
  BY <1>3, <1>5 DEF Abs
<1>7. k < q + 2 * n
  <2>1. k * RowHeight < (q + 2 * n) * RowHeight
    BY <1>1, <1>2, <1>3, <1>5, <1>6
  <2> QED
    BY <2>1, <1>1, <1>2, <1>3, LessTimes
<1>8. k > q - n - 1
  <2>1. (q - n - 1) * RowHeight < k * RowHeight
    BY <1>1, <1>2, <1>3, <1>5, <1>6
  <2> QED
    BY <2>1, <1>1, <1>2, <1>3, LessTimes
<1> QED
  BY <1>2, <1>3, <1>4, <1>7, <1>8

(* indexOf finds each item at its own index when no two are the same. *)
LEMMA Aimed ==
    ASSUME NEW l, WellFormed(l)
    PROVE  /\ \A it : IndexOf(l.items, it) \in -1 .. (Len(l.items) - 1)
           /\ Distinct(l.items) =>
                 \A k \in 1 .. Len(l.items) : IndexOf(l.items, l.items[k]) = k - 1
<1>1. l.items \in Seq(Nat) /\ Len(l.items) \in Nat /\ DOMAIN l.items = 1 .. Len(l.items)
  BY DEF WellFormed
<1>2. ASSUME NEW it PROVE IndexOf(l.items, it) \in -1 .. (Len(l.items) - 1)
  <2>1. CASE it \in ToSet(l.items)
    <3>1. \E k \in DOMAIN l.items : l.items[k] = it
      BY <2>1 DEF ToSet
    <3>2. \A k \in DOMAIN l.items : k \in 1 .. Len(l.items)
      BY <1>1
    <3>3. (CHOOSE k \in DOMAIN l.items : l.items[k] = it) \in 1 .. Len(l.items)
      BY <3>1, <3>2
    <3> QED
      BY <2>1, <3>3, <1>1 DEF IndexOf
  <2>2. CASE it \notin ToSet(l.items)
    BY <2>2, <1>1 DEF IndexOf
  <2> QED
    BY <2>1, <2>2
<1>3. ASSUME Distinct(l.items), NEW k \in 1 .. Len(l.items)
      PROVE  IndexOf(l.items, l.items[k]) = k - 1
  <2>1. l.items[k] \in ToSet(l.items) /\ k \in DOMAIN l.items
    BY <1>1 DEF ToSet
  <2>2. (CHOOSE j \in DOMAIN l.items : l.items[j] = l.items[k]) = k
    BY <2>1, <1>3 DEF Distinct
  <2> QED
    BY <2>1, <2>2 DEF IndexOf
<1> QED
  BY <1>2, <1>3

(* The browser puts a page nowhere above its start. *)
LEMMA ClampTyped ==
    ASSUME NEW l, WellFormed(l), NEW y \in Nat
    PROVE  Clamp(l, y) \in Nat
<1>1. Len(ItemsShown(l)) \in Nat /\ RowHeight \in Nat /\ PageHeight \in Nat
  BY ListAssumption DEF WellFormed, ItemsShown
<1>2. Len(ItemsShown(l)) * RowHeight - PageHeight \in Int
  BY <1>1
<1> QED
  BY <1>2 DEF Clamp

(* What is shown *)
LEMMA ShownTyped ==
    ASSUME NEW l, WellFormed(l)
    PROVE  /\ ItemsShown(l) \in Seq(Nat) /\ Len(ItemsShown(l)) \in 0 .. MaxItems
           /\ \A k \in 0 .. (Len(ItemsShown(l)) - 1) :
                 k + 1 \in DOMAIN ItemsShown(l) /\ k \in 0 .. MaxItems
  BY ListAssumption DEF WellFormed, ItemsShown

(* domCache after render, the rows drawn, the index of each, and those made. *)
DrawnCache(l, at, made, gone) ==
    [i \in DOMAIN l.cache \cup made |->
        IF i \notin made THEN l.cache[i]
        ELSE IF i = -1 THEN ItemsShown(l)[Min(gone) + 1] ELSE l.items[i + 1]]

RowsAt(l, y) == Window(y) \cap 0 .. (Len(ItemsShown(l)) - 1)
IndexAt(l, k) == IndexOf(l.items, ItemsShown(l)[k + 1])
GoneOf(l, y) == {k \in RowsAt(l, y) : IndexAt(l, k) = -1}
MadeFor(l, y) == {IndexAt(l, k) : k \in RowsAt(l, y)} \ DOMAIN l.cache

(* render, by these names. *)
LEMMA Painted ==
    ASSUME NEW l, NEW y, NEW top, PaintAt(l, y, top)
    PROVE  /\ list' = [l EXCEPT !.cache = DrawnCache(l, RowsAt(l, y), MadeFor(l, y), GoneOf(l, y))]
           /\ view' = [top |-> top, lastY |-> y,
                       rows |-> {[at |-> k, shows |-> DrawnCache(l, RowsAt(l, y), MadeFor(l, y), GoneOf(l, y))[IndexAt(l, k)]] :
                          k \in RowsAt(l, y) \ {k \in GoneOf(l, y) : k # Max(GoneOf(l, y))}}]
  BY Zenon DEF PaintAt, DrawnCache, RowsAt, IndexAt, GoneOf, MadeFor

(* A cache that was true is true after render, and has each row drawn. *)
LEMMA PaintedCache ==
    ASSUME NEW l, WellFormed(l), NEW y \in Nat, NEW next, Truthful(l, next)
    PROVE  /\ GoneOf(l, y) = {}
           /\ \A k \in RowsAt(l, y) :
                 /\ IndexAt(l, k) \in 0 .. (Len(l.items) - 1)
                 /\ l.items[IndexAt(l, k) + 1] = ItemsShown(l)[k + 1]
<1>1. /\ l.items \in Seq(Nat) /\ l.filtered.list \in Seq(Nat) /\ l.filtered.on \in BOOLEAN
      /\ Len(l.items) \in Nat /\ DOMAIN l.items = 1 .. Len(l.items)
  BY DEF WellFormed
<1>2. \A j \in DOMAIN ItemsShown(l) : \E i \in DOMAIN l.items : ItemsShown(l)[j] = l.items[i]
  BY <1>1 DEF Truthful, ItemsShown
<1>3. ASSUME NEW k \in RowsAt(l, y)
      PROVE  /\ IndexAt(l, k) \in 0 .. (Len(l.items) - 1)
             /\ l.items[IndexAt(l, k) + 1] = ItemsShown(l)[k + 1]
  <2>1. k + 1 \in DOMAIN ItemsShown(l)
    BY ShownTyped DEF RowsAt
  <2>2. PICK i \in DOMAIN l.items : ItemsShown(l)[k + 1] = l.items[i]
    BY <1>2, <2>1
  <2>3. IndexOf(l.items, l.items[i]) = i - 1
    BY <1>1, Aimed DEF Truthful
  <2> QED
    BY <1>1, <2>2, <2>3 DEF IndexAt
<1>4. GoneOf(l, y) = {}
  BY <1>3 DEF GoneOf
<1> QED
  BY <1>3, <1>4

(* render keeps the invariant of a list that is well formed, and true unless
   an operation misled it, when the page is left within the buffer. *)
LEMMA PaintingKeepsInv ==
    ASSUME NEW l, WellFormed(l), NEW y \in Nat, NEW top \in Nat, PaintAt(l, y, top),
           fresh' \in Nat, misled' \in BOOLEAN,
           ~misled' => Truthful(l, fresh') /\ Abs(top - y) <= MaxBufferHeight
    PROVE  ListInv'
<1> DEFINE cache == DrawnCache(l, RowsAt(l, y), MadeFor(l, y), GoneOf(l, y))
           kept == RowsAt(l, y) \ {k \in GoneOf(l, y) : k # Max(GoneOf(l, y))}
<1>1. list' = [l EXCEPT !.cache = cache]
      /\ view' = [top |-> top, lastY |-> y,
                  rows |-> {[at |-> k, shows |-> cache[IndexAt(l, k)]] : k \in kept}]
  BY Painted
<1>2. DOMAIN cache = DOMAIN l.cache \cup MadeFor(l, y)
  BY DEF DrawnCache
<1>3. MadeFor(l, y) \subseteq -1 .. Len(l.items)
  <2>1. \A it : IndexOf(l.items, it) \in -1 .. (Len(l.items) - 1)
    BY Aimed
  <2>2. Len(l.items) \in Nat
    BY DEF WellFormed
  <2> QED
    BY <2>1, <2>2 DEF MadeFor, IndexAt
<1>4. /\ \A i \in DOMAIN cache :
             cache[i] = IF i \notin MadeFor(l, y) THEN l.cache[i]
                        ELSE IF i = -1 THEN ItemsShown(l)[Min(GoneOf(l, y)) + 1] ELSE l.items[i + 1]
  BY DEF DrawnCache
<1> HIDE DEF cache
<1>5. /\ list' = [items |-> l.items, filtered |-> l.filtered, cache |-> cache]
      /\ list'.items = l.items /\ list'.filtered = l.filtered /\ list'.cache = cache
  <2>1. l = [items |-> l.items, filtered |-> l.filtered, cache |-> l.cache]
    BY DEF WellFormed
  <2> QED
    BY <1>1, <2>1
<1>6. WellFormed(list')
  <2>1. DOMAIN cache \subseteq -1 .. Len(l.items)
    BY <1>2, <1>3 DEF WellFormed
  <2> QED
    BY <1>5, <2>1 DEF WellFormed
<1>7. \A r \in view'.rows : r.at \in 0 .. MaxItems
  <2>1. \A k \in kept : k \in 0 .. MaxItems
    BY ShownTyped DEF RowsAt
  <2>2. view'.rows = {[at |-> k, shows |-> cache[IndexAt(l, k)]] : k \in kept}
    BY <1>1
  <2> HIDE DEF kept
  <2> QED
    BY <2>1, <2>2
<1>8. ASSUME ~misled' PROVE Truthful(list', fresh') /\ view'.rows = RowsDrawn(list', y)
  <2>1. Truthful(l, fresh')
    BY <1>8
  <2>2. /\ GoneOf(l, y) = {}
        /\ \A k \in RowsAt(l, y) :
              /\ IndexAt(l, k) \in 0 .. (Len(l.items) - 1)
              /\ l.items[IndexAt(l, k) + 1] = ItemsShown(l)[k + 1]
    BY <2>1, PaintedCache
  <2>3. kept = RowsAt(l, y)
    BY <2>2
  <2>4. MadeFor(l, y) \subseteq 0 .. (Len(l.items) - 1)
    BY <2>2 DEF MadeFor
  <2>5. Len(l.items) \in Nat
    BY DEF WellFormed
  <2>6. \A i \in DOMAIN cache : i \in 0 .. (Len(l.items) - 1) /\ cache[i] = l.items[i + 1]
    <3> SUFFICES ASSUME NEW i \in DOMAIN cache
                 PROVE  i \in 0 .. (Len(l.items) - 1) /\ cache[i] = l.items[i + 1]
      OBVIOUS
    <3>1. CASE i \in MadeFor(l, y)
      BY <1>4, <2>4, <2>5, <3>1
    <3>2. CASE i \notin MadeFor(l, y)
      BY <1>2, <1>4, <2>1, <3>2 DEF Truthful
    <3> QED
      BY <3>1, <3>2
  <2>7. Truthful(list', fresh')
    BY <2>1, <2>6, <1>5 DEF Truthful
  <2>8. \A k \in RowsAt(l, y) : cache[IndexAt(l, k)] = ItemsShown(l)[k + 1]
    <3> SUFFICES ASSUME NEW k \in RowsAt(l, y)
                 PROVE  cache[IndexAt(l, k)] = ItemsShown(l)[k + 1]
      OBVIOUS
    <3>1. IndexAt(l, k) \in DOMAIN cache
      BY <1>2 DEF MadeFor
    <3> QED
      BY <2>2, <2>6, <3>1
  <2>9. view'.rows = {[at |-> k, shows |-> ItemsShown(l)[k + 1]] : k \in RowsAt(l, y)}
    <3>1. view'.rows = {[at |-> k, shows |-> cache[IndexAt(l, k)]] : k \in RowsAt(l, y)}
      BY <1>1, <2>3
    <3> QED
      BY <2>8, <3>1
  <2>10. ItemsShown(list') = ItemsShown(l)
    BY <1>5 DEF ItemsShown
  <2> QED
    BY <2>7, <2>9, <2>10 DEF RowsDrawn, RowsAt
<1>9. view' = [top |-> view'.top, lastY |-> view'.lastY, rows |-> view'.rows]
      /\ view'.top = top /\ view'.lastY = y
  BY <1>1
<1> QED
  BY <1>6, <1>7, <1>8, <1>9 DEF ListInv

(* Items that are made one after the other *)
NewItems(n, f) == [k \in 1 .. n |-> f + k - 1]

(* Items that are made together are new ones and no two the same. *)
LEMMA RunOfNew ==
    ASSUME NEW n \in Nat, NEW f \in Nat
    PROVE  /\ NewItems(n, f) \in Seq(Nat) /\ Len(NewItems(n, f)) = n
           /\ \A k \in 1 .. n : NewItems(n, f)[k] = f + k - 1
<1>1. \A k \in 1 .. n : f + k - 1 \in Nat
  OBVIOUS
<1> QED
  BY <1>1 DEF NewItems

ShiftedTo(i, from, by) == IF i >= from THEN i + by ELSE i

ShiftOf(old, from, by, new) ==
    \A j \in DOMAIN new :
        \E i \in DOMAIN old : j = ShiftedTo(i, from, by) /\ new[j] = old[i]

(* Shift moves rows from an index on, and none onto another: nothing is
   cached where they would come down on a row that stays. *)
LEMMA Shifted ==
    ASSUME NEW cache, DOMAIN cache \subseteq Int, NEW from \in Int, NEW by \in Int,
           by >= 0 \/ (by = -1 /\ from - 1 \notin DOMAIN cache)
    PROVE  ShiftOf(cache, from, by, Shift(cache, from, by))
<1> DEFINE moved(i) == IF i >= from THEN i + by ELSE i
           S == {moved(i) : i \in DOMAIN cache}
           h == [j \in S |-> cache[CHOOSE i \in DOMAIN cache : moved(i) = j]]
<1>1. Shift(cache, from, by) = h
  BY DEF Shift
<1>2. \A i, k \in DOMAIN cache : moved(i) = moved(k) => i = k
  <2> SUFFICES ASSUME NEW i \in DOMAIN cache, NEW k \in DOMAIN cache, moved(i) = moved(k)
               PROVE  i = k
    OBVIOUS
  <2>1. i \in Int /\ k \in Int
    OBVIOUS
  <2>2. CASE by >= 0
    BY <2>1, <2>2
  <2>3. CASE by = -1 /\ from - 1 \notin DOMAIN cache
    BY <2>1, <2>3
  <2> QED
    BY <2>2, <2>3
<1>3. ASSUME NEW j \in S
      PROVE  \E i \in DOMAIN cache : j = moved(i) /\ h[j] = cache[i]
  <2>1. PICK i \in DOMAIN cache : moved(i) = j
    BY <1>3
  <2> HIDE DEF moved
  <2>2. (CHOOSE k \in DOMAIN cache : moved(k) = j) = i
    BY <1>2, <2>1
  <2>3. h[j] = cache[i]
    BY <1>3, <2>2
  <2> QED
    BY <2>1, <2>3
<1>4. DOMAIN h = S
  OBVIOUS
<1> HIDE DEF h, S
<1> QED
  BY <1>1, <1>3, <1>4 DEF ShiftOf, ShiftedTo

(* The fields of a list written out. *)
LEMMA FieldsOf ==
    ASSUME NEW l, NEW a, NEW b, NEW c, l = [items |-> a, filtered |-> b, cache |-> c]
    PROVE  l.items = a /\ l.filtered = b /\ l.cache = c
  OBVIOUS

(* Update keeps the invariant of what it is given. *)
LEMMA UpdateKeepsInv ==
    ASSUME NEW l, WellFormed(l), ListInv, Update(l),
           fresh' \in Nat, misled' \in BOOLEAN, ~misled' => Truthful(l, fresh')
    PROVE  ListInv'
<1>1. Clamp(l, view.top) \in Nat
  BY ClampTyped DEF ListInv
<1>2. PaintAt(l, Clamp(l, view.top), Clamp(l, view.top))
  BY DEF Update, Paint
<1>3. Abs(Clamp(l, view.top) - Clamp(l, view.top)) <= MaxBufferHeight
  BY <1>1, Sizes DEF Abs
<1> HIDE DEF Update
<1> QED
  BY <1>1, <1>2, <1>3, PaintingKeepsInv

(* The fields of the list *)
LEMMA ListFields ==
    ASSUME ListInv
    PROVE  /\ list = [items |-> list.items, filtered |-> list.filtered, cache |-> list.cache]
           /\ list.filtered = [on |-> list.filtered.on, list |-> list.filtered.list]
           /\ list.items \in Seq(Nat) /\ Len(list.items) \in 0 .. MaxItems
           /\ DOMAIN list.items = 1 .. Len(list.items)
           /\ list.filtered.on \in BOOLEAN
           /\ list.filtered.list \in Seq(Nat) /\ Len(list.filtered.list) <= MaxItems
           /\ DOMAIN list.cache \subseteq -1 .. Len(list.items)
           /\ fresh \in Nat /\ misled \in BOOLEAN
           /\ ~misled => Truthful(list, fresh)
  BY DEF ListInv, WellFormed

(* Scrolling draws the rows again before the buffer is used up. *)
LEMMA ScrollKeepsInv ==
    ASSUME ListInv, NEW y \in Nat, Scroll(y)
    PROVE  ListInv'
<1>1. UNCHANGED <<fresh, changes, misled>>
  BY DEF Scroll
<1>2. CASE view.lastY = NoY \/ Abs(y - view.lastY) > MaxBufferHeight
  <2>1. PaintAt(list, y, y)
    BY <1>2 DEF Scroll, Paint
  <2>2. Abs(y - y) <= MaxBufferHeight
    BY Sizes DEF Abs
  <2> QED
    BY <1>1, <2>1, <2>2, PaintingKeepsInv DEF ListInv
<1>3. CASE ~(view.lastY = NoY \/ Abs(y - view.lastY) > MaxBufferHeight)
  <2>1. view' = [view EXCEPT !.top = y] /\ UNCHANGED list
    BY <1>3 DEF Scroll
  <2>2. view' = [top |-> y, lastY |-> view.lastY, rows |-> view.rows]
    BY <2>1 DEF ListInv
  <2>3. Abs(y - view.lastY) <= MaxBufferHeight
    <3>1. Abs(y - view.lastY) \in Int
      BY DEF Abs, ListInv
    <3> QED
      BY <1>3, <3>1, Sizes
  <2> QED
    BY <1>1, <2>1, <2>2, <2>3 DEF ListInv
<1> QED
  BY <1>2, <1>3

(* A filter shows some of the items; the cache stays that of all. *)
LEMMA FilterItemsKeepsInv ==
    ASSUME ListInv, NEW S, FilterItems(S)
    PROVE  ListInv'
<1> DEFINE chosen == {list.items[k + 1] : k \in S}
           r == Among(list.items, chosen)
           f == [on |-> TRUE, list |-> r]
           l == [list EXCEPT !.filtered = f]
<1>1. PaintAt(l, 0, 0) /\ fresh' = fresh /\ misled' = misled
  BY DEF FilterItems, Paint
<1> HIDE DEF chosen
<1>2. r \in Seq(Nat) /\ Len(r) <= Len(list.items)
      /\ \E g : Leaves(list.items, chosen, Len(list.items), r, g)
  BY ListFields, AmongLeaves
<1>3. \A i \in DOMAIN r : \E j \in DOMAIN list.items : r[i] = list.items[j]
  <2>1. PICK g : Leaves(list.items, chosen, Len(list.items), r, g)
    BY <1>2
  <2>2. DOMAIN r = 1 .. Len(r)
    BY <1>2
  <2> HIDE DEF r
  <2>3. \A i \in 1 .. Len(r) : g[i] \in 1 .. Len(list.items) /\ r[i] = list.items[g[i]]
    BY <2>1 DEF Leaves
  <2> QED
    BY <2>2, <2>3, ListFields
<1> HIDE DEF r
<1>4. l = [items |-> list.items, filtered |-> f, cache |-> list.cache]
  <2> HIDE DEF f
  <2>1. list = [items |-> list.items, filtered |-> list.filtered, cache |-> list.cache]
    BY ListFields
  <2> QED
    BY <2>1
<1> HIDE DEF l
<1>8. l.items = list.items /\ l.filtered = f /\ l.cache = list.cache /\ f.list = r
  BY <1>4
<1>5. WellFormed(l)
  <2>1. Len(r) <= MaxItems
    BY <1>2, ListFields, ListAssumption
  <2>2. f = [on |-> f.on, list |-> f.list] /\ f.on \in BOOLEAN
    OBVIOUS
  <2> HIDE DEF f
  <2> QED
    BY <1>2, <1>4, <1>8, <2>1, <2>2, ListFields DEF WellFormed
<1>6. ~misled' => Truthful(l, fresh')
  BY <1>1, <1>3, <1>8, ListFields DEF Truthful
<1>7. Abs(0 - 0) <= MaxBufferHeight
  BY Sizes DEF Abs
<1> QED
  BY <1>1, <1>5, <1>6, <1>7, ListFields, PaintingKeepsInv

(* Without a filter all items are shown again. *)
LEMMA ResetFilterKeepsInv ==
    ASSUME ListInv, ResetFilter
    PROVE  ListInv'
<1> DEFINE l == [list EXCEPT !.filtered = NoFilter]
<1>1. Update(l) /\ fresh' = fresh /\ misled' = misled
  BY DEF ResetFilter
<1>2. l = [items |-> list.items, filtered |-> NoFilter, cache |-> list.cache]
  <2>1. list = [items |-> list.items, filtered |-> list.filtered, cache |-> list.cache]
    BY ListFields
  <2> QED
    BY <2>1
<1> HIDE DEF l
<1>5. l.items = list.items /\ l.filtered = NoFilter /\ l.cache = list.cache
  BY <1>2
<1>3. WellFormed(l)
  <2>1. <<>> \in Seq(Nat) /\ Len(<<>>) <= MaxItems
    BY ListAssumption
  <2>2. /\ NoFilter = [on |-> NoFilter.on, list |-> NoFilter.list]
        /\ NoFilter.on \in BOOLEAN
        /\ NoFilter.list \in Seq(Nat) /\ Len(NoFilter.list) <= MaxItems
    BY <2>1 DEF NoFilter
  <2> QED
    BY <1>2, <1>5, <2>2, ListFields DEF WellFormed
<1>4. ~misled' => Truthful(l, fresh')
  BY <1>1, <1>5, ListFields DEF Truthful, NoFilter
<1> QED
  BY <1>1, <1>3, <1>4, ListFields, UpdateKeepsInv

(* Drawing again changes nothing but the rows. *)
LEMMA RedrawKeepsInv ==
    ASSUME ListInv, Redraw
    PROVE  ListInv'
  BY UpdateKeepsInv, ListFields DEF Redraw, ListInv

(* Nothing cached is nothing wrong. *)
LEMMA ClearCacheKeepsInv ==
    ASSUME ListInv, ClearCache
    PROVE  ListInv'
<1>1. /\ list' = [items |-> list.items, filtered |-> list.filtered, cache |-> NoCache]
      /\ UNCHANGED <<view, fresh, misled>>
  BY ListFields DEF ClearCache
<1>2. DOMAIN NoCache = {}
  BY DEF NoCache
<1>3. WellFormed(list')
  BY <1>1, <1>2, ListFields DEF WellFormed
<1>4. ~misled' => Truthful(list', fresh')
  BY <1>1, <1>2, ListFields DEF Truthful
<1>5. RowsDrawn(list', view.lastY) = RowsDrawn(list, view.lastY)
  BY <1>1 DEF RowsDrawn, ItemsShown
<1> QED
  BY <1>1, <1>3, <1>4, <1>5 DEF ListInv

(* Drawing for the position asked for is right when the browser corrects it
   within the buffer; otherwise the scrolling it causes draws again. *)
LEMMA ScrollToItemKeepsInv ==
    ASSUME ListInv, NEW i \in Nat, ScrollToItem(i)
    PROVE  ListInv'
<1> DEFINE y == i * RowHeight
           top == Clamp(list, y)
           far == Abs(top - y) > MaxBufferHeight
<1>1. y \in Nat
  BY ListAssumption
<1>2. top \in Nat
  BY <1>1, ClampTyped DEF ListInv
<1>3. /\ IF far /\ top # view.top THEN PaintAt(list, top, top) ELSE PaintAt(list, y, top)
      /\ misled' = (misled \/ (far /\ top = view.top))
      /\ fresh' = fresh
  BY DEF ScrollToItem
<1> HIDE DEF y, top
<1>4. Abs(top - y) \in Int /\ Abs(top - top) = 0 /\ MaxBufferHeight \in Nat
  BY <1>1, <1>2, Sizes DEF Abs
<1>5. CASE far /\ top # view.top
  <2>1. PaintAt(list, top, top) /\ misled' = misled
    BY <1>3, <1>5, ListFields
  <2> QED
    BY <1>2, <1>3, <1>4, <2>1, PaintingKeepsInv DEF ListInv
<1>6. CASE ~(far /\ top # view.top)
  <2>1. PaintAt(list, y, top) /\ misled' \in BOOLEAN /\ (~misled' => ~misled /\ ~far)
    BY <1>3, <1>6, ListFields
  <2>2. ~misled' => Abs(top - y) <= MaxBufferHeight
    BY <1>4, <2>1
  <2> HIDE DEF far
  <2> QED
    BY <1>1, <1>2, <1>3, <2>1, <2>2, PaintingKeepsInv DEF ListInv
<1> QED
  BY <1>5, <1>6

(* Items and cache within the bounds *)
Fits(items, cache) ==
    items \in Seq(Nat) /\ Len(items) <= MaxItems /\ DOMAIN cache \subseteq -1 .. Len(items)

(* Items that are distinct, and a cache that is true to them *)
TrueTo(items, cache, next) ==
    /\ Distinct(items)
    /\ \A i \in 1 .. Len(items) : items[i] < next
    /\ \A c \in DOMAIN cache : c \in 0 .. (Len(items) - 1) /\ cache[c] = items[c + 1]

(* What a filter names is among the items. *)
StillThere(some, items) ==
    \A i \in DOMAIN some : \E j \in 1 .. Len(items) : some[i] = items[j]

(* New items: from tells for each place which one it had, or how new it is. *)
Arranged(items, from, next) ==
    /\ \A j \in 1 .. Len(items) :
          /\ from[j] \in Int
          /\ from[j] > 0 => from[j] <= Len(list.items) /\ items[j] = list.items[from[j]]
          /\ from[j] <= 0 => items[j] = fresh - from[j] /\ items[j] < next
    /\ \A j, k \in 1 .. Len(items) : from[j] = from[k] => j = k

(* The cache moved the way the items did. *)
CacheArranged(items, from, cache) ==
    \A c \in DOMAIN cache :
        /\ c \in 0 .. (Len(items) - 1)
        /\ from[c + 1] - 1 \in DOMAIN list.cache
        /\ cache[c] = list.cache[from[c + 1] - 1]

(* What the invariant says while nothing misled the list. *)
LEMMA Truths ==
    ASSUME ListInv, ~misled
    PROVE  /\ \A i, j \in 1 .. Len(list.items) : list.items[i] = list.items[j] => i = j
           /\ \A i \in 1 .. Len(list.items) : list.items[i] \in Nat /\ list.items[i] < fresh
           /\ list.filtered.on => StillThere(list.filtered.list, list.items)
           /\ \A i \in DOMAIN list.cache :
                 i \in 0 .. (Len(list.items) - 1) /\ list.cache[i] = list.items[i + 1]
<1>1. Truthful(list, fresh) /\ DOMAIN list.items = 1 .. Len(list.items) /\ list.items \in Seq(Nat)
  BY ListFields
<1>2. \A i \in 1 .. Len(list.items) : list.items[i] \in Nat
  BY <1>1
<1> QED
  BY <1>1, <1>2 DEF Truthful, Distinct, StillThere

(* An operation that changes items and cache, and keeps the filter. *)
LEMMA ItemsUpdated ==
    ASSUME ListInv, NEW items, NEW cache, Fits(items, cache),
           NEW l, l = [items |-> items, filtered |-> list.filtered, cache |-> cache],
           Update(l), fresh' \in Nat, misled' \in BOOLEAN,
           ~misled' => /\ TrueTo(items, cache, fresh')
                       /\ list.filtered.on => StillThere(list.filtered.list, items)
    PROVE  ListInv'
<1>1. l.items = items /\ l.filtered = list.filtered /\ l.cache = cache
  OBVIOUS
<1>2. items \in Seq(Nat) /\ Len(items) <= MaxItems /\ DOMAIN cache \subseteq -1 .. Len(items)
      /\ DOMAIN items = 1 .. Len(items)
  BY DEF Fits
<1>3. WellFormed(l)
  BY <1>1, <1>2, ListFields DEF WellFormed
<1>4. ~misled' => Truthful(l, fresh')
  BY <1>1, <1>2 DEF Truthful, TrueTo, StillThere
<1> QED
  BY <1>3, <1>4, UpdateKeepsInv

(* Items put in a new arrangement are distinct, and the cache that moved with
   them is true to them. *)
LEMMA ArrangedIsTrue ==
    ASSUME ListInv, ~misled, NEW items \in Seq(Nat), NEW cache, NEW from, NEW next \in Nat,
           fresh <= next, Arranged(items, from, next), CacheArranged(items, from, cache)
    PROVE  TrueTo(items, cache, next)
<1>0. fresh \in Nat /\ Len(list.items) \in Nat /\ Len(items) \in Nat
      /\ DOMAIN items = 1 .. Len(items)
  BY ListFields
<1>1. ASSUME NEW j \in 1 .. Len(items)
      PROVE  \/ from[j] \in 1 .. Len(list.items) /\ items[j] = list.items[from[j]]
                /\ items[j] < fresh
             \/ from[j] \in Int /\ from[j] <= 0 /\ items[j] = fresh - from[j] /\ items[j] >= fresh
                /\ items[j] < next
  <2>1. CASE from[j] > 0
    <3>1. from[j] \in 1 .. Len(list.items) /\ items[j] = list.items[from[j]]
      BY <1>0, <2>1 DEF Arranged
    <3> QED
      BY <3>1, Truths
  <2>2. CASE ~(from[j] > 0)
    BY <1>0, <2>2 DEF Arranged
  <2> QED
    BY <2>1, <2>2
<1>2. \A j \in 1 .. Len(items) : items[j] < next
  <2>1. \A j \in 1 .. Len(items) : items[j] \in Nat
    OBVIOUS
  <2> QED
    BY <1>0, <1>1, <2>1
<1>3. Distinct(items)
  <2> SUFFICES ASSUME NEW j \in 1 .. Len(items), NEW k \in 1 .. Len(items), items[j] = items[k]
               PROVE  j = k
    BY <1>0 DEF Distinct
  <2>0. items[j] \in Nat /\ items[k] \in Nat
    OBVIOUS
  <2> DEFINE Stayed(i) == from[i] \in 1 .. Len(list.items) /\ items[i] = list.items[from[i]]
                        /\ items[i] < fresh
             Came(i) == from[i] \in Int /\ from[i] <= 0 /\ items[i] = fresh - from[i]
                         /\ items[i] >= fresh
  <2>2. (Stayed(j) \/ Came(j)) /\ (Stayed(k) \/ Came(k))
    BY <1>1
  <2>3. CASE Stayed(j) /\ Stayed(k)
    <3>1. from[j] = from[k]
      <4>1. \A p, q \in 1 .. Len(list.items) : list.items[p] = list.items[q] => p = q
        BY Truths
      <4> QED
        BY <2>3, <4>1
    <3> QED
      BY <3>1 DEF Arranged
  <2>4. CASE Came(j) /\ Came(k)
    <3>1. from[j] = from[k]
      <4>1. \A a, b \in Int : fresh - a = fresh - b => a = b
        BY <1>0
      <4>2. from[j] \in Int /\ from[k] \in Int /\ fresh - from[j] = fresh - from[k]
        BY <2>4
      <4> QED
        BY <4>1, <4>2
    <3> QED
      BY <3>1 DEF Arranged
  <2>5. CASE (Stayed(j) /\ Came(k)) \/ (Came(j) /\ Stayed(k))
    BY <1>0, <2>0, <2>5
  <2> QED
    BY <2>2, <2>3, <2>4, <2>5
<1>4. ASSUME NEW c \in DOMAIN cache
      PROVE  c \in 0 .. (Len(items) - 1) /\ cache[c] = items[c + 1]
  <2>1. /\ c \in 0 .. (Len(items) - 1)
        /\ from[c + 1] - 1 \in DOMAIN list.cache
        /\ cache[c] = list.cache[from[c + 1] - 1]
    BY DEF CacheArranged
  <2>2. c + 1 \in 1 .. Len(items) /\ from[c + 1] \in Int
    BY <1>0, <2>1 DEF Arranged
  <2>3. from[c + 1] - 1 \in 0 .. (Len(list.items) - 1)
        /\ list.cache[from[c + 1] - 1] = list.items[(from[c + 1] - 1) + 1]
    BY <2>1, Truths
  <2>4. (from[c + 1] - 1) + 1 = from[c + 1] /\ from[c + 1] > 0
    BY <2>2, <2>3
  <2>5. items[c + 1] = list.items[from[c + 1]]
    BY <2>2, <2>4 DEF Arranged
  <2> QED
    BY <2>1, <2>3, <2>4, <2>5
<1> QED
  BY <1>2, <1>3, <1>4 DEF TrueTo

(* Every item that a filter names is still at some place. *)
LEMMA ArrangedStillThere ==
    ASSUME ListInv, ~misled, NEW items, NEW from, NEW next, Arranged(items, from, next),
           \A p \in 1 .. Len(list.items) : \E j \in 1 .. Len(items) : from[j] = p
    PROVE  list.filtered.on => StillThere(list.filtered.list, items)
<1> SUFFICES ASSUME list.filtered.on, NEW i \in DOMAIN list.filtered.list
             PROVE  \E j \in 1 .. Len(items) : list.filtered.list[i] = items[j]
  BY DEF StillThere
<1>1. PICK p \in 1 .. Len(list.items) : list.filtered.list[i] = list.items[p]
  BY Truths DEF StillThere
<1>2. PICK j \in 1 .. Len(items) : from[j] = p
  OBVIOUS
<1>3. items[j] = list.items[p]
  <2>1. p > 0 /\ from[j] > 0
    BY <1>2, ListFields
  <2> QED
    BY <1>2, <2>1 DEF Arranged
<1> QED
  BY <1>1, <1>3

(* The fields that an operation on items and cache leaves. *)
LEMMA ItemsSet ==
    ASSUME ListInv, NEW d
    PROVE  /\ [list EXCEPT !.items = d]
                = [items |-> d, filtered |-> list.filtered, cache |-> list.cache]
           /\ \A e : [list EXCEPT !.items = d, !.cache = e]
                       = [items |-> d, filtered |-> list.filtered, cache |-> e]
<1>1. list = [items |-> list.items, filtered |-> list.filtered, cache |-> list.cache]
  BY ListFields
<1>2. [list EXCEPT !.items = d]
        = [items |-> d, filtered |-> list.filtered, cache |-> list.cache]
  BY <1>1
<1>3. ASSUME NEW e
      PROVE  [list EXCEPT !.items = d, !.cache = e]
               = [items |-> d, filtered |-> list.filtered, cache |-> e]
  <2> DEFINE a == [items |-> d, filtered |-> list.filtered, cache |-> list.cache]
  <2>1. [list EXCEPT !.items = d, !.cache = e] = [[list EXCEPT !.items = d] EXCEPT !.cache = e]
    OBVIOUS
  <2>2. [a EXCEPT !.cache = e] = [items |-> d, filtered |-> list.filtered, cache |-> e]
    OBVIOUS
  <2> QED
    BY <1>2, <2>1, <2>2
<1> QED
  BY <1>2, <1>3

(* appendItems: no index changes. *)
LEMMA AppendItemsKeepsInv ==
    ASSUME ListInv, AppendItems
    PROVE  ListInv'
<1> DEFINE items == Append(list.items, fresh)
           l == [list EXCEPT !.items = items]
           n == Len(list.items)
           from == [j \in 1 .. (n + 1) |-> IF j = n + 1 THEN 0 ELSE j]
<1>1. Update(l) /\ fresh' = fresh + 1 /\ n + 1 <= MaxItems /\ misled' = misled
  BY DEF AppendItems, New
<1>2. l = [items |-> items, filtered |-> list.filtered, cache |-> list.cache]
  BY ItemsSet
<1>3. /\ n \in Nat /\ items \in Seq(Nat) /\ Len(items) = n + 1
      /\ \A i \in 1 .. n : items[i] = list.items[i]
      /\ items[n + 1] = fresh
  BY ListFields, AppendProperties
<1> HIDE DEF items, l
<1>4. Fits(items, list.cache)
  BY <1>1, <1>3, ListFields DEF Fits
<1>5. /\ \A j \in 1 .. n : from[j] = j
      /\ from[n + 1] = 0
  BY <1>3
<1>6. \A j \in 1 .. Len(items) : j \in 1 .. n \/ j = n + 1
  BY <1>3
<1> HIDE DEF from
<1>7. ASSUME ~misled PROVE TrueTo(items, list.cache, fresh')
                           /\ (list.filtered.on => StillThere(list.filtered.list, items))
  <2>1. Arranged(items, from, fresh')
    <3> HIDE DEF n
    <3>1. ASSUME NEW j \in 1 .. Len(items)
          PROVE  /\ from[j] \in Int
                 /\ from[j] > 0 => from[j] <= n /\ items[j] = list.items[from[j]]
                 /\ from[j] <= 0 => items[j] = fresh - from[j] /\ items[j] < fresh'
      <4>1. CASE j \in 1 .. n
        BY <1>3, <1>5, <4>1
      <4>2. CASE j = n + 1
        BY <1>1, <1>3, <1>5, <4>2, ListFields
      <4> QED
        BY <1>6, <4>1, <4>2
    <3>2. ASSUME NEW j \in 1 .. Len(items), NEW k \in 1 .. Len(items), from[j] = from[k]
          PROVE  j = k
      <4>1. from[j] = (IF j = n + 1 THEN 0 ELSE j) /\ from[k] = (IF k = n + 1 THEN 0 ELSE k)
        BY <1>3, <1>5, <1>6
      <4>2. n \in Nat /\ j \in Int /\ k \in Int /\ 1 <= j /\ 1 <= k
        BY <1>3
      <4>3. (IF j = n + 1 THEN 0 ELSE j) = (IF k = n + 1 THEN 0 ELSE k)
        BY <3>2, <4>1
      <4> QED
        BY <4>2, <4>3
    <3> QED
      BY <3>1, <3>2 DEF Arranged, n
  <2>2. CacheArranged(items, from, list.cache)
    <3> SUFFICES ASSUME NEW c \in DOMAIN list.cache
                 PROVE  /\ c \in 0 .. (Len(items) - 1)
                        /\ from[c + 1] - 1 \in DOMAIN list.cache
                        /\ list.cache[c] = list.cache[from[c + 1] - 1]
      BY DEF CacheArranged
    <3>1. c \in 0 .. (n - 1)
      BY <1>7, Truths
    <3>2. c + 1 \in 1 .. n /\ (c + 1) - 1 = c
      BY <1>3, <3>1
    <3> QED
      BY <1>3, <1>5, <3>1, <3>2
  <2>3. \A p \in 1 .. n : p \in 1 .. Len(items) /\ from[p] = p
    BY <1>3, <1>5
  <2>4. fresh' \in Nat /\ fresh <= fresh'
    BY <1>1, ListFields
  <2> QED
    BY <1>3, <1>7, <2>1, <2>2, <2>3, <2>4, ArrangedIsTrue, ArrangedStillThere
<1>8. fresh' \in Nat /\ misled' \in BOOLEAN
  BY <1>1, ListFields
<1> QED
  BY <1>1, <1>2, <1>4, <1>7, <1>8, ItemsUpdated

(* prependItems: every index moves by as many as came in. *)
LEMMA PrependItemsKeepsInv ==
    ASSUME ListInv, NEW m \in Nat, PrependItems(m)
    PROVE  ListInv'
<1> DEFINE items == NewItems(m, fresh) \o list.items
           cache == Shift(list.cache, -1, m)
           l == [list EXCEPT !.items = items, !.cache = cache]
           n == Len(list.items)
           from == [j \in 1 .. (m + n) |-> IF j <= m THEN 1 - j ELSE j - m]
<1>1. Update(l) /\ fresh' = fresh + m /\ n + m <= MaxItems /\ misled' = misled
  BY DEF PrependItems, New, NewItems
<1>2. l = [items |-> items, filtered |-> list.filtered, cache |-> cache]
  BY ItemsSet
<1>3. /\ n \in Nat /\ items \in Seq(Nat) /\ Len(items) = m + n
      /\ \A i \in 1 .. m : items[i] = fresh + i - 1
      /\ \A i \in 1 .. n : items[m + i] = list.items[i]
  <2> DEFINE new == NewItems(m, fresh)
  <2>1. new \in Seq(Nat) /\ Len(new) = m /\ \A i \in 1 .. m : new[i] = fresh + i - 1
    BY RunOfNew, ListFields
  <2>2. list.items \in Seq(Nat) /\ n \in Nat
    BY ListFields
  <2> HIDE DEF new
  <2>3. /\ new \o list.items \in Seq(Nat) /\ Len(new \o list.items) = Len(new) + n
        /\ \A j \in 1 .. Len(new) + n :
              (new \o list.items)[j] = IF j <= Len(new) THEN new[j] ELSE list.items[j - Len(new)]
    BY <2>1, <2>2, Joined
  <2>4. items = new \o list.items
    BY DEF new
  <2> HIDE DEF items, n
  <2>5. ASSUME NEW i \in 1 .. m PROVE items[i] = fresh + i - 1
    BY <2>1, <2>2, <2>3, <2>4
  <2>6. ASSUME NEW i \in 1 .. n PROVE items[m + i] = list.items[i]
    <3>1. m + i \in 1 .. m + n /\ ~(m + i <= m) /\ (m + i) - m = i
      BY <2>2
    <3> QED
      BY <2>1, <2>3, <2>4, <3>1
  <2> QED
    BY <2>1, <2>2, <2>3, <2>4, <2>5, <2>6
<1>4. DOMAIN list.cache \subseteq -1 .. n
  BY ListFields
<1>5. ShiftOf(list.cache, -1, m, cache)
  <2>1. DOMAIN list.cache \subseteq Int /\ m >= 0 /\ -1 \in Int
    BY <1>3, <1>4
  <2> QED
    BY <2>1, Shifted
<1>6. /\ \A j \in 1 .. m : from[j] = 1 - j
      /\ \A p \in 1 .. n : from[m + p] = p
      /\ \A j \in 1 .. (m + n) : from[j] = IF j <= m THEN 1 - j ELSE j - m
  BY <1>3
<1> HIDE DEF items, l, cache, from, n
<1>7. \A j \in DOMAIN cache :
         \E i \in DOMAIN list.cache : /\ j = i + m /\ cache[j] = list.cache[i]
  BY <1>4, <1>5 DEF ShiftOf, ShiftedTo
<1>8. Fits(items, cache)
  <2>1. ASSUME NEW j \in DOMAIN cache PROVE j \in -1 .. Len(items)
    <3>1. PICK i \in DOMAIN list.cache : j = i + m
      BY <1>7
    <3>2. i \in -1 .. n
      BY <1>4
    <3> QED
      BY <1>3, <3>1, <3>2
  <2>2. Len(items) <= MaxItems
    BY <1>1, <1>3, ListAssumption
  <2> QED
    BY <1>3, <2>1, <2>2 DEF Fits
<1>9. ASSUME ~misled PROVE TrueTo(items, cache, fresh')
                           /\ (list.filtered.on => StillThere(list.filtered.list, items))
  <2>1. Arranged(items, from, fresh')
    <3>1. ASSUME NEW j \in 1 .. Len(items)
          PROVE  /\ from[j] \in Int
                 /\ from[j] > 0 => from[j] <= n /\ items[j] = list.items[from[j]]
                 /\ from[j] <= 0 => items[j] = fresh - from[j] /\ items[j] < fresh'
      <4>1. CASE j <= m
        BY <1>1, <1>3, <1>6, <4>1, ListFields
      <4>2. CASE ~(j <= m)
        <5>1. j - m \in 1 .. n /\ from[j] = j - m /\ m + (j - m) = j
          BY <1>3, <1>6, <4>2
        <5> QED
          BY <1>3, <5>1
      <4> QED
        BY <4>1, <4>2
    <3>2. ASSUME NEW j \in 1 .. Len(items), NEW k \in 1 .. Len(items), from[j] = from[k]
          PROVE  j = k
      <4>1. j \in 1 .. (m + n) /\ k \in 1 .. (m + n)
        BY <1>3
      <4>2. /\ from[j] = (IF j <= m THEN 1 - j ELSE j - m)
            /\ from[k] = (IF k <= m THEN 1 - k ELSE k - m)
        BY <1>6, <4>1
      <4>3. n \in Nat /\ j \in Int /\ k \in Int /\ 1 <= j /\ 1 <= k
        BY <1>3, <4>1
      <4>4. (IF j <= m THEN 1 - j ELSE j - m) = (IF k <= m THEN 1 - k ELSE k - m)
        BY <3>2, <4>2
      <4> QED
        BY <4>3, <4>4
    <3> QED
      BY <3>1, <3>2 DEF Arranged, n
  <2>2. CacheArranged(items, from, cache)
    <3> SUFFICES ASSUME NEW c \in DOMAIN cache
                 PROVE  /\ c \in 0 .. (Len(items) - 1)
                        /\ from[c + 1] - 1 \in DOMAIN list.cache
                        /\ cache[c] = list.cache[from[c + 1] - 1]
      BY DEF CacheArranged
    <3>1. PICK i \in DOMAIN list.cache : c = i + m /\ cache[c] = list.cache[i]
      BY <1>7
    <3>2. i \in 0 .. (n - 1)
      BY <1>9, Truths DEF n
    <3>3. c = i + m /\ i + 1 \in 1 .. n /\ c + 1 = m + (i + 1) /\ (i + 1) - 1 = i
      <4>1. n \in Nat /\ i \in Int /\ 0 <= i /\ i <= n - 1 /\ c = i + m
        BY <1>3, <3>1, <3>2
      <4> QED
        BY <4>1
    <3>4. from[c + 1] = i + 1 /\ from[c + 1] - 1 = i
      BY <1>6, <3>3
    <3>5. c \in 0 .. (Len(items) - 1)
      <4>1. n \in Nat /\ Len(items) = m + n /\ i \in Int /\ 0 <= i /\ i <= n - 1 /\ c = i + m
        BY <1>3, <3>2, <3>3
      <4> QED
        BY <4>1
    <3> QED
      BY <3>1, <3>4, <3>5
  <2>3. \A p \in 1 .. n : m + p \in 1 .. Len(items) /\ from[m + p] = p
    BY <1>3, <1>6
  <2>4. fresh' \in Nat /\ fresh <= fresh'
    BY <1>1, ListFields
  <2> QED
    BY <1>3, <1>9, <2>1, <2>2, <2>3, <2>4, ArrangedIsTrue, ArrangedStillThere DEF n
<1>10. fresh' \in Nat /\ misled' \in BOOLEAN
  BY <1>1, ListFields
<1> QED
  BY <1>1, <1>2, <1>8, <1>9, <1>10, ItemsUpdated

(* new is what CacheWithout leaves of old. *)
LeftOf(old, gone, new) ==
    DOMAIN new = DOMAIN old \ gone /\ \A c \in DOMAIN new : new[c] = old[c]

(* CacheWithout leaves what it says. *)
LEMMA CacheLess ==
    ASSUME NEW cache, NEW gone
    PROVE  LeftOf(cache, gone, CacheWithout(cache, gone))
  BY DEF CacheWithout, LeftOf

(* replaceItem: the row of the item replaced is no longer cached. *)
LEMMA ReplaceItemKeepsInv ==
    ASSUME ListInv, NEW i \in 0 .. (Len(list.items) - 1), ReplaceItem(i)
    PROVE  ListInv'
<1> DEFINE items == [list.items EXCEPT ![i + 1] = fresh]
           cache == CacheWithout(list.cache, {i})
           l == [list EXCEPT !.items = items, !.cache = cache]
           n == Len(list.items)
           from == [j \in 1 .. n |-> IF j = i + 1 THEN 0 ELSE j]
<1>0. n \in Nat /\ i \in Int /\ 0 <= i /\ i < n /\ n <= MaxItems /\ MaxItems \in Nat /\ fresh \in Nat
  BY ListFields, ListAssumption
<1>1. /\ Update([list EXCEPT !.items[i + 1] = fresh, !.cache = CacheWithout(@, {i})])
      /\ fresh' = fresh + 1 /\ misled' = (misled \/ list.filtered.on)
  BY DEF ReplaceItem
<1>2. l = [items |-> items, filtered |-> list.filtered, cache |-> cache]
  BY ItemsSet
<1>3. Update(l)
  <2>1. [list EXCEPT !.items[i + 1] = fresh, !.cache = CacheWithout(@, {i})] = l
    OBVIOUS
  <2> QED
    BY <1>1, <2>1
<1>4. /\ items \in Seq(Nat) /\ Len(items) = n
      /\ \A j \in 1 .. n : items[j] = IF j = i + 1 THEN fresh ELSE list.items[j]
  BY <1>0, ListFields, ExceptSeq
<1>5. DOMAIN cache = DOMAIN list.cache \ {i} /\ \A c \in DOMAIN cache : cache[c] = list.cache[c]
  BY CacheLess DEF LeftOf
<1>6. \A j \in 1 .. n : from[j] = IF j = i + 1 THEN 0 ELSE j
  OBVIOUS
<1> HIDE DEF items, l, cache, from, n
<1>7. Fits(items, cache)
  <2>1. DOMAIN list.cache \subseteq -1 .. n
    BY ListFields DEF n
  <2> QED
    BY <1>0, <1>4, <1>5, <2>1 DEF Fits
<1>8. ASSUME ~misled PROVE TrueTo(items, cache, fresh')
  <2>1. Arranged(items, from, fresh')
    <3>1. ASSUME NEW j \in 1 .. Len(items)
          PROVE  /\ from[j] \in Int
                 /\ from[j] > 0 => from[j] <= n /\ items[j] = list.items[from[j]]
                 /\ from[j] <= 0 => items[j] = fresh - from[j] /\ items[j] < fresh'
      <4>1. j \in 1 .. n
        BY <1>4
      <4>2. CASE j = i + 1
        BY <1>0, <1>1, <1>4, <1>6, <4>1, <4>2
      <4>3. CASE j # i + 1
        BY <1>0, <1>4, <1>6, <4>1, <4>3
      <4> QED
        BY <4>2, <4>3
    <3>2. ASSUME NEW j \in 1 .. Len(items), NEW k \in 1 .. Len(items), from[j] = from[k]
          PROVE  j = k
      <4>1. from[j] = (IF j = i + 1 THEN 0 ELSE j) /\ from[k] = (IF k = i + 1 THEN 0 ELSE k)
        BY <1>4, <1>6
      <4>2. j \in Int /\ k \in Int /\ 1 <= j /\ 1 <= k
        OBVIOUS
      <4>3. (IF j = i + 1 THEN 0 ELSE j) = (IF k = i + 1 THEN 0 ELSE k)
        BY <3>2, <4>1
      <4> QED
        BY <1>0, <4>2, <4>3
    <3> QED
      BY <3>1, <3>2 DEF Arranged, n
  <2>2. CacheArranged(items, from, cache)
    <3> SUFFICES ASSUME NEW c \in DOMAIN cache
                 PROVE  /\ c \in 0 .. (Len(items) - 1)
                        /\ from[c + 1] - 1 \in DOMAIN list.cache
                        /\ cache[c] = list.cache[from[c + 1] - 1]
      BY DEF CacheArranged
    <3>1. c \in DOMAIN list.cache /\ c # i /\ cache[c] = list.cache[c]
      BY <1>5
    <3>2. c \in 0 .. (n - 1)
      BY <1>8, <3>1, Truths DEF n
    <3>3. c + 1 \in 1 .. n /\ c + 1 # i + 1 /\ (c + 1) - 1 = c
      BY <1>0, <3>1, <3>2
    <3>4. from[c + 1] - 1 = c
      BY <1>6, <3>3
    <3> QED
      BY <1>4, <3>1, <3>2, <3>4
  <2>3. fresh' \in Nat /\ fresh <= fresh'
    BY <1>0, <1>1
  <2> QED
    BY <1>4, <1>8, <2>1, <2>2, <2>3, ArrangedIsTrue
<1>9. fresh' \in Nat /\ misled' \in BOOLEAN /\ (~misled' => ~misled /\ ~list.filtered.on)
  BY <1>0, <1>1, ListFields
<1> QED
  BY <1>2, <1>3, <1>7, <1>8, <1>9, ItemsUpdated

(* insertItemBefore: rows from the index on move, those above are forgotten. *)
LEMMA InsertItemBeforeKeepsInv ==
    ASSUME ListInv, NEW i \in 0 .. (Len(list.items) - 1), InsertItemBefore(i)
    PROVE  ListInv'
<1> DEFINE n == Len(list.items)
           items == With(list.items, n, i, fresh)
           below == CacheWithout(list.cache, -1 .. (i - 1))
           cache == Shift(below, i, 1)
           l == [list EXCEPT !.items = items, !.cache = cache]
           from == [j \in 1 .. (n + 1) |-> IF j <= i THEN j ELSE IF j = i + 1 THEN 0 ELSE j - 1]
<1>0. n \in Nat /\ i \in Int /\ 0 <= i /\ i < n /\ MaxItems \in Nat /\ fresh \in Nat
  BY ListFields, ListAssumption
<1>1. Update(l) /\ fresh' = fresh + 1 /\ n + 1 <= MaxItems /\ misled' = misled
  BY DEF InsertItemBefore, New, With
<1>2. l = [items |-> items, filtered |-> list.filtered, cache |-> cache]
  BY ItemsSet
<1>4. /\ items \in Seq(Nat) /\ Len(items) = n + 1
      /\ \A j \in 1 .. (n + 1) :
            items[j] = IF j <= i THEN list.items[j]
                       ELSE IF j = i + 1 THEN fresh ELSE list.items[j - 1]
  <2>1. i \in 0 .. n /\ list.items \in Seq(Nat)
    BY <1>0, ListFields
  <2>2. HasPutIn(list.items, n, i, fresh, items)
    BY <1>0, <2>1, PutIn
  <2> HIDE DEF items, n
  <2> QED
    BY <2>2 DEF HasPutIn
<1>5. DOMAIN list.cache \subseteq -1 .. n
  BY ListFields
<1>6. DOMAIN below = DOMAIN list.cache \ (-1 .. (i - 1))
      /\ \A d \in DOMAIN below : below[d] = list.cache[d]
  BY CacheLess DEF LeftOf
<1>7. ShiftOf(below, i, 1, cache)
  <2>1. DOMAIN below \subseteq Int /\ 1 >= 0 /\ 1 \in Int
    BY <1>0, <1>5, <1>6
  <2> HIDE DEF below
  <2> QED
    BY <1>0, <2>1, Shifted
<1>8. \A j \in 1 .. (n + 1) : from[j] = IF j <= i THEN j ELSE IF j = i + 1 THEN 0 ELSE j - 1
  OBVIOUS
<1> HIDE DEF items, l, cache, from, n, below
<1>9. ASSUME NEW c \in DOMAIN cache
      PROVE  \E d \in DOMAIN list.cache : d \in i .. n /\ c = d + 1 /\ cache[c] = list.cache[d]
  <2>1. PICK d \in DOMAIN below : c = (IF d >= i THEN d + 1 ELSE d) /\ cache[c] = below[d]
    BY <1>7 DEF ShiftOf, ShiftedTo
  <2>2. d \in DOMAIN list.cache /\ d \in -1 .. n /\ d \notin -1 .. (i - 1) /\ below[d] = list.cache[d]
    BY <1>5, <1>6
  <2>3. d \in i .. n
    BY <1>0, <2>2
  <2>4. c = d + 1
    BY <1>0, <2>1, <2>3
  <2> QED
    BY <2>1, <2>2, <2>3, <2>4
<1>10. Fits(items, cache)
  <2>1. ASSUME NEW c \in DOMAIN cache PROVE c \in -1 .. Len(items)
    <3>1. PICK d \in i .. n : c = d + 1
      BY <1>9
    <3>2. Len(items) = n + 1
      BY <1>4
    <3> QED
      BY <1>0, <3>1, <3>2
  <2> QED
    BY <1>0, <1>1, <1>4, <2>1 DEF Fits
<1>11. ASSUME ~misled
       PROVE  TrueTo(items, cache, fresh')
              /\ (list.filtered.on => StillThere(list.filtered.list, items))
  <2>1. Arranged(items, from, fresh')
    <3>1. ASSUME NEW j \in 1 .. Len(items)
          PROVE  /\ from[j] \in Int
                 /\ from[j] > 0 => from[j] <= n /\ items[j] = list.items[from[j]]
                 /\ from[j] <= 0 => items[j] = fresh - from[j] /\ items[j] < fresh'
      <4>1. j \in 1 .. (n + 1) /\ j \in Int /\ 1 <= j /\ j <= n + 1
        BY <1>0, <1>4
      <4>2. CASE j = i + 1
        <5>1. from[j] = 0 /\ items[j] = fresh
          BY <1>0, <1>4, <1>8, <4>1, <4>2
        <5> QED
          BY <1>0, <1>1, <5>1
      <4>3. CASE j <= i
        <5>1. from[j] = j /\ items[j] = list.items[j]
          BY <1>4, <1>8, <4>1, <4>3
        <5> QED
          BY <1>0, <4>1, <4>3, <5>1
      <4>4. CASE j > i + 1
        <5>1. from[j] = j - 1 /\ items[j] = list.items[j - 1]
          BY <1>0, <1>4, <1>8, <4>1, <4>4
        <5> QED
          BY <1>0, <4>1, <4>4, <5>1
      <4> QED
        BY <1>0, <4>1, <4>2, <4>3, <4>4
    <3>2. ASSUME NEW j \in 1 .. Len(items), NEW k \in 1 .. Len(items), from[j] = from[k]
          PROVE  j = k
      <4>1. j \in 1 .. (n + 1) /\ k \in 1 .. (n + 1)
        BY <1>4
      <4>2. /\ from[j] = (IF j <= i THEN j ELSE IF j = i + 1 THEN 0 ELSE j - 1)
            /\ from[k] = (IF k <= i THEN k ELSE IF k = i + 1 THEN 0 ELSE k - 1)
        BY <1>8, <4>1
      <4>3. j \in Int /\ k \in Int /\ 1 <= j /\ 1 <= k
        BY <1>0, <4>1
      <4>4. (IF j <= i THEN j ELSE IF j = i + 1 THEN 0 ELSE j - 1)
              = (IF k <= i THEN k ELSE IF k = i + 1 THEN 0 ELSE k - 1)
        BY <3>2, <4>2
      <4> QED
        BY <1>0, <4>3, <4>4
    <3> QED
      BY <3>1, <3>2 DEF Arranged, n
  <2>2. CacheArranged(items, from, cache)
    <3> SUFFICES ASSUME NEW c \in DOMAIN cache
                 PROVE  /\ c \in 0 .. (Len(items) - 1)
                        /\ from[c + 1] - 1 \in DOMAIN list.cache
                        /\ cache[c] = list.cache[from[c + 1] - 1]
      BY DEF CacheArranged
    <3>1. PICK d \in DOMAIN list.cache : d \in i .. n /\ c = d + 1 /\ cache[c] = list.cache[d]
      BY <1>9
    <3>2. d \in 0 .. (n - 1)
      BY <1>11, <3>1, Truths DEF n
    <3>3. d \in Int /\ i <= d /\ c + 1 = d + 2 /\ d + 2 \in 1 .. (n + 1) /\ c \in 0 .. n
      BY <1>0, <3>1, <3>2
    <3>4. from[c + 1] = d + 1
      BY <1>0, <1>8, <3>3
    <3>5. from[c + 1] - 1 = d /\ (n + 1) - 1 = n
      BY <1>0, <3>3, <3>4
    <3> QED
      BY <1>4, <3>1, <3>3, <3>5
  <2>3. ASSUME NEW p \in 1 .. n PROVE \E j \in 1 .. Len(items) : from[j] = p
    <3>1. CASE p <= i
      <4>1. p \in 1 .. (n + 1) /\ from[p] = p
        BY <1>0, <1>8, <3>1
      <4> QED
        BY <1>4, <4>1
    <3>2. CASE p > i
      <4>1. p + 1 \in 1 .. (n + 1) /\ ~(p + 1 <= i) /\ p + 1 # i + 1 /\ (p + 1) - 1 = p
        BY <1>0, <3>2
      <4>2. from[p + 1] = p
        BY <1>8, <4>1
      <4> QED
        BY <1>4, <4>1, <4>2
    <3> QED
      BY <1>0, <3>1, <3>2
  <2>4. fresh' \in Nat /\ fresh <= fresh'
    BY <1>0, <1>1
  <2> QED
    BY <1>4, <1>11, <2>1, <2>2, <2>3, <2>4, ArrangedIsTrue, ArrangedStillThere DEF n
<1>12. fresh' \in Nat /\ misled' \in BOOLEAN
  BY <1>0, <1>1, ListFields
<1> QED
  BY <1>1, <1>2, <1>10, <1>11, <1>12, ItemsUpdated

(* MoveItem's new index of a cached row, and the cache it leaves *)
MovedTo(c, i, to) ==
    LET lo == IF i < to THEN i ELSE to
        hi == IF i < to THEN to ELSE i
    IN  IF c = lo THEN hi
        ELSE IF c > lo /\ c <= hi THEN c + (IF i < to THEN -1 ELSE 1) ELSE c

CacheMoved(cache, i, to) ==
    [c \in {MovedTo(d, i, to) : d \in DOMAIN cache} |->
        cache[CHOOSE d \in {k \in DOMAIN cache : MovedTo(k, i, to) = c} :
                  \A e \in {k \in DOMAIN cache : MovedTo(k, i, to) = c} : e <= d]]

(* Where an item moved to index j of n comes to lie. *)
MoveTarget(j, n) == IF j >= n - 1 THEN n - 1 ELSE j

(* moveItem, by these names. *)
LEMMA MoveUpdates ==
    ASSUME NEW i, NEW j, MoveItem(i, j)
    PROVE  LET n == Len(list.items)
               to == MoveTarget(j, n)
               rest == Without(list.items, i)
           IN  /\ i < n /\ misled' = (misled \/ i > to) /\ fresh' = fresh
               /\ Update([list EXCEPT
                     !.items = With(rest, n - 1, to, list.items[i + 1]),
                     !.cache = CacheMoved(list.cache, i, to)])
  BY DEF MoveItem, MovedTo, CacheMoved, With, Without, MoveTarget

(* No row is cached beyond the items. *)
LEMMA CacheMovedDomain ==
    ASSUME NEW cache, NEW n \in Nat, DOMAIN cache \subseteq -1 .. n,
           NEW i \in 0 .. (n - 1), NEW to \in 0 .. (n - 1)
    PROVE  DOMAIN CacheMoved(cache, i, to) \subseteq -1 .. n
<1> SUFFICES ASSUME NEW d \in DOMAIN cache PROVE MovedTo(d, i, to) \in -1 .. n
  BY DEF CacheMoved
<1>1. d \in Int /\ -1 <= d /\ d <= n
  OBVIOUS
<1> QED
  BY <1>1 DEF MovedTo

(* Of an item moved down, each row cached after it is the one cached for the
   same item before. *)
LEMMA CacheMovedDown ==
    ASSUME NEW cache, DOMAIN cache \subseteq Int,
           NEW i \in Int, NEW to \in Int, i <= to,
           NEW c \in DOMAIN CacheMoved(cache, i, to)
    PROVE  \E d \in DOMAIN cache : /\ CacheMoved(cache, i, to)[c] = cache[d]
                                   /\ c = (IF d = i THEN to
                                           ELSE IF d > i /\ d <= to THEN d - 1 ELSE d)
<1>1. \A d \in DOMAIN cache :
         MovedTo(d, i, to) = IF d = i THEN to ELSE IF d > i /\ d <= to THEN d - 1 ELSE d
  <2> SUFFICES ASSUME NEW d \in DOMAIN cache
               PROVE  MovedTo(d, i, to)
                        = IF d = i THEN to ELSE IF d > i /\ d <= to THEN d - 1 ELSE d
    OBVIOUS
  <2>1. d \in Int
    OBVIOUS
  <2> QED
    BY <2>1 DEF MovedTo
<1>2. PICK d \in DOMAIN cache : c = MovedTo(d, i, to)
  BY DEF CacheMoved
<1>3. \A e \in DOMAIN cache : MovedTo(e, i, to) = c => e = d
  <2> SUFFICES ASSUME NEW e \in DOMAIN cache, MovedTo(e, i, to) = MovedTo(d, i, to)
               PROVE  e = d
    BY <1>2
  <2>1. e \in Int /\ d \in Int
    OBVIOUS
  <2>2. (IF e = i THEN to ELSE IF e > i /\ e <= to THEN e - 1 ELSE e)
          = (IF d = i THEN to ELSE IF d > i /\ d <= to THEN d - 1 ELSE d)
    BY <1>1
  <2> QED
    BY <2>1, <2>2
<1>4. {e \in DOMAIN cache : MovedTo(e, i, to) = c} = {d}
  BY <1>2, <1>3
<1>5. CacheMoved(cache, i, to)[c] = cache[CHOOSE e \in {d} : \A k \in {d} : k <= e]
  BY <1>4 DEF CacheMoved
<1>6. (CHOOSE e \in {d} : \A k \in {d} : k <= e) = d
  OBVIOUS
<1> QED
  BY <1>1, <1>2, <1>5, <1>6

(* moveItem: right for an item that moves down, misled for one that moves up. *)
LEMMA MoveItemKeepsInv ==
    ASSUME ListInv, NEW i \in 0 .. (Len(list.items) - 1), NEW j \in 0 .. Len(list.items),
           MoveItem(i, j)
    PROVE  ListInv'
<1> DEFINE n == Len(list.items)
           to == MoveTarget(j, n)
           x == list.items[i + 1]
           rest == Without(list.items, i)
           items == With(rest, n - 1, to, x)
           cache == CacheMoved(list.cache, i, to)
           l == [list EXCEPT !.items = items, !.cache = cache]
           from == [q \in 1 .. n |-> IF q - 1 < i \/ q - 1 > to THEN q
                                     ELSE IF q - 1 = to THEN i + 1 ELSE q + 1]
<1>0. n \in Nat /\ i \in Int /\ 0 <= i /\ i < n /\ MaxItems \in Nat /\ n <= MaxItems /\ fresh \in Nat
  BY ListFields, ListAssumption
<1>1. Update(l) /\ fresh' = fresh /\ misled' = (misled \/ i > to)
  BY MoveUpdates
<1>2. l = [items |-> items, filtered |-> list.filtered, cache |-> cache]
  BY ItemsSet
<1>3. to \in Int /\ 0 <= to /\ to <= n - 1
  <2>1. j \in Int /\ 0 <= j
    BY <1>0
  <2> HIDE DEF n
  <2> QED
    BY <1>0, <2>1 DEF MoveTarget
<1>4. /\ items \in Seq(Nat) /\ Len(items) = n
      /\ \A q \in 1 .. n :
            items[q] = IF q <= to THEN rest[q] ELSE IF q = to + 1 THEN x ELSE rest[q - 1]
      /\ \A q \in 1 .. (n - 1) :
            rest[q] = IF q <= i THEN list.items[q] ELSE list.items[q + 1]
  <2>1. list.items \in Seq(Nat) /\ i \in 0 .. (n - 1)
    BY ListFields
  <2>2. HasCutOut(list.items, i, rest)
    BY <2>1, CutOut
  <2>3. rest \in Seq(Nat) /\ n - 1 = Len(rest)
    BY <2>2 DEF HasCutOut
  <2>4. to \in 0 .. (n - 1) /\ x \in Nat
    <3>1. i + 1 \in 1 .. n
      BY <1>0
    <3> QED
      BY <1>0, <1>3, <2>1, <3>1
  <2>5. HasPutIn(rest, n - 1, to, x, items)
    <3> HIDE DEF rest, n, to, x
    <3> QED
      BY <2>3, <2>4, PutIn
  <2>6. (n - 1) + 1 = n
    BY <1>0
  <2> HIDE DEF rest, to, x, items
  <2> QED
    BY <2>2, <2>5, <2>6 DEF HasCutOut, HasPutIn
<1>5. DOMAIN list.cache \subseteq -1 .. n
  BY ListFields
<1>6. DOMAIN cache \subseteq -1 .. n
  BY <1>0, <1>3, <1>5, CacheMovedDomain
<1>7. i <= to =>
        \A c \in DOMAIN cache :
           \E d \in DOMAIN list.cache :
              /\ cache[c] = list.cache[d]
              /\ c = (IF d = i THEN to ELSE IF d > i /\ d <= to THEN d - 1 ELSE d)
  <2>1. DOMAIN list.cache \subseteq Int
    BY <1>0, <1>5
  <2> QED
    BY <1>0, <1>3, <2>1, CacheMovedDown
<1>8. \A q \in 1 .. n : from[q] = IF q - 1 < i \/ q - 1 > to THEN q
                                  ELSE IF q - 1 = to THEN i + 1 ELSE q + 1
  OBVIOUS
<1> HIDE DEF items, l, cache, from, n, to, rest
<1>9. Fits(items, cache)
  BY <1>0, <1>4, <1>6 DEF Fits
<1>10. ASSUME ~misled, i <= to
       PROVE  TrueTo(items, cache, fresh')
              /\ (list.filtered.on => StillThere(list.filtered.list, items))
  <2>1. ASSUME NEW q \in 1 .. n
        PROVE  from[q] \in 1 .. n /\ items[q] = list.items[from[q]]
    <3>1. q \in Int /\ 1 <= q /\ q <= n
      BY <1>0
    <3>2. CASE q - 1 < i
      <4>1. from[q] = q /\ q <= to /\ q <= i /\ q \in 1 .. (n - 1)
        BY <1>0, <1>3, <1>8, <1>10, <3>1, <3>2
      <4> QED
        BY <1>4, <4>1
    <3>3. CASE q - 1 > to
      <4>1. from[q] = q /\ ~(q <= to) /\ q # to + 1 /\ q - 1 \in 1 .. (n - 1)
            /\ ~(q - 1 <= i) /\ (q - 1) + 1 = q
        BY <1>0, <1>3, <1>8, <1>10, <3>1, <3>3
      <4>2. items[q] = rest[q - 1]
        BY <1>4, <4>1
      <4>3. rest[q - 1] = list.items[(q - 1) + 1]
        BY <1>4, <4>1
      <4> QED
        BY <4>1, <4>2, <4>3
    <3>4. CASE q - 1 = to
      <4>1. from[q] = i + 1 /\ ~(q <= to) /\ q = to + 1 /\ i + 1 \in 1 .. n
        BY <1>0, <1>3, <1>8, <1>10, <3>1, <3>4
      <4> QED
        BY <1>4, <4>1
    <3>5. CASE q - 1 >= i /\ q - 1 < to
      <4>1. from[q] = q + 1 /\ q <= to /\ ~(q <= i) /\ q \in 1 .. (n - 1) /\ q + 1 \in 1 .. n
        BY <1>0, <1>3, <1>8, <1>10, <3>1, <3>5
      <4> QED
        BY <1>4, <4>1
    <3> QED
      BY <1>0, <1>3, <3>1, <3>2, <3>3, <3>4, <3>5
  <2>2. ASSUME NEW q \in 1 .. n, NEW p \in 1 .. n, from[q] = from[p] PROVE q = p
    <3>1. q \in Int /\ p \in Int
      BY <1>0
    <3>2. (IF q - 1 < i \/ q - 1 > to THEN q ELSE IF q - 1 = to THEN i + 1 ELSE q + 1)
            = (IF p - 1 < i \/ p - 1 > to THEN p ELSE IF p - 1 = to THEN i + 1 ELSE p + 1)
      BY <1>8, <2>2
    <3> QED
      BY <1>0, <1>3, <1>10, <3>1, <3>2
  <2>3. Arranged(items, from, fresh')
    <3>1. ASSUME NEW q \in 1 .. n
          PROVE  from[q] \in Int /\ from[q] > 0 /\ from[q] <= n
      BY <1>0, <2>1
    <3> QED
      BY <1>0, <1>4, <2>1, <2>2, <3>1 DEF Arranged, n
  <2>4. CacheArranged(items, from, cache)
    <3> SUFFICES ASSUME NEW c \in DOMAIN cache
                 PROVE  /\ c \in 0 .. (Len(items) - 1)
                        /\ from[c + 1] - 1 \in DOMAIN list.cache
                        /\ cache[c] = list.cache[from[c + 1] - 1]
      BY DEF CacheArranged
    <3>1. PICK d \in DOMAIN list.cache :
              /\ cache[c] = list.cache[d]
              /\ c = (IF d = i THEN to ELSE IF d > i /\ d <= to THEN d - 1 ELSE d)
      BY <1>7, <1>10
    <3>2. d \in 0 .. (n - 1)
      BY <1>10, Truths DEF n
    <3>3. d \in Int /\ 0 <= d /\ d <= n - 1
      BY <1>0, <3>2
    <3>4. c \in Int /\ 0 <= c /\ c <= n - 1
      BY <1>0, <1>3, <1>10, <3>1, <3>3
    <3>5. c + 1 \in 1 .. n /\ (c + 1) - 1 = c
      BY <1>0, <3>4
    <3>6. from[c + 1] = IF c < i \/ c > to THEN c + 1 ELSE IF c = to THEN i + 1 ELSE c + 2
      <4>1. from[c + 1] = IF (c + 1) - 1 < i \/ (c + 1) - 1 > to THEN c + 1
                          ELSE IF (c + 1) - 1 = to THEN i + 1 ELSE (c + 1) + 1
        BY <1>8, <3>5
      <4>2. (c + 1) + 1 = c + 2
        BY <3>4
      <4> QED
        BY <3>5, <4>1, <4>2
    <3>7. from[c + 1] = d + 1
      BY <1>0, <1>3, <1>10, <3>1, <3>3, <3>4, <3>6
    <3>8. from[c + 1] - 1 = d /\ c \in 0 .. (n - 1)
      BY <1>0, <3>3, <3>4, <3>7
    <3> QED
      BY <1>4, <3>1, <3>8
  <2>5. ASSUME NEW p \in 1 .. n PROVE \E q \in 1 .. Len(items) : from[q] = p
    <3>1. p \in Int /\ 1 <= p /\ p <= n
      BY <1>0
    <3>2. CASE p - 1 < i \/ p - 1 > to
      BY <1>4, <1>8, <3>2
    <3>3. CASE p - 1 = i
      <4>1. to + 1 \in 1 .. n /\ (to + 1) - 1 = to /\ ~(to < i) /\ ~(to > to) /\ i + 1 = p
        BY <1>0, <1>3, <1>10, <3>1, <3>3
      <4>2. from[to + 1] = p
        BY <1>8, <4>1
      <4> QED
        BY <1>4, <4>1, <4>2
    <3>4. CASE p - 1 > i /\ p - 1 <= to
      <4>1. p - 1 \in 1 .. n /\ ~((p - 1) - 1 < i) /\ ~((p - 1) - 1 > to) /\ (p - 1) - 1 # to
            /\ (p - 1) + 1 = p
        BY <1>0, <1>3, <1>10, <3>1, <3>4
      <4>2. from[p - 1] = p
        BY <1>8, <4>1
      <4> QED
        BY <1>4, <4>1, <4>2
    <3> QED
      BY <1>0, <1>3, <3>1, <3>2, <3>3, <3>4
  <2>6. fresh' \in Nat /\ fresh <= fresh'
    BY <1>0, <1>1
  <2> QED
    BY <1>4, <1>10, <2>3, <2>4, <2>5, <2>6, ArrangedIsTrue, ArrangedStillThere DEF n
<1>11. fresh' \in Nat /\ misled' \in BOOLEAN /\ (~misled' => ~misled /\ i <= to)
  <2>1. ~(i > to) => i <= to
    BY <1>0, <1>3
  <2>2. fresh' = fresh /\ misled' = (misled \/ i > to) /\ misled \in BOOLEAN
    BY <1>1, ListFields
  <2>3. misled' \in BOOLEAN /\ (~misled' => ~misled /\ ~(i > to))
    BY <2>2
  <2> QED
    BY <1>0, <2>1, <2>2, <2>3
<1> QED
  BY <1>1, <1>2, <1>9, <1>10, <1>11, ItemsUpdated

(* replaceAllItems: a new list, nothing cached, no filter. *)
LEMMA ReplaceAllItemsKeepsInv ==
    ASSUME ListInv, NEW n \in 0 .. MaxItems, ReplaceAllItems(n)
    PROVE  ListInv'
<1> DEFINE items == NewItems(n, fresh)
           l == [items |-> items, filtered |-> NoFilter, cache |-> NoCache]
<1>0. n \in Nat /\ n <= MaxItems /\ MaxItems \in Nat /\ fresh \in Nat
  BY ListFields, ListAssumption
<1>1. Update(l) /\ fresh' = fresh + n /\ misled' = FALSE
  BY DEF ReplaceAllItems, NewItems
<1>2. items \in Seq(Nat) /\ Len(items) = n /\ \A k \in 1 .. n : items[k] = fresh + k - 1
  BY <1>0, RunOfNew
<1>3. l.items = items /\ l.filtered = NoFilter /\ l.cache = NoCache
  OBVIOUS
<1>4. l = [items |-> l.items, filtered |-> l.filtered, cache |-> l.cache]
  OBVIOUS
<1> HIDE DEF items, l
<1>5. DOMAIN NoCache = {}
  BY DEF NoCache
<1>6. WellFormed(l)
  <2>1. <<>> \in Seq(Nat) /\ Len(<<>>) <= MaxItems
    BY ListAssumption
  <2>2. /\ NoFilter = [on |-> NoFilter.on, list |-> NoFilter.list]
        /\ NoFilter.on \in BOOLEAN
        /\ NoFilter.list \in Seq(Nat) /\ Len(NoFilter.list) <= MaxItems
    BY <2>1 DEF NoFilter
  <2> QED
    BY <1>0, <1>2, <1>3, <1>4, <1>5, <2>2 DEF WellFormed
<1>7. Truthful(l, fresh')
  <2>1. DOMAIN items = 1 .. n /\ ~NoFilter.on
    BY <1>2 DEF NoFilter
  <2>2. \A k \in 1 .. n : items[k] < fresh + n
    BY <1>0, <1>2
  <2>3. \A j, k \in 1 .. n : items[j] = items[k] => j = k
    BY <1>0, <1>2
  <2> QED
    BY <1>1, <1>3, <1>5, <2>1, <2>2, <2>3 DEF Truthful, Distinct
<1>8. fresh' \in Nat
  <2>1. fresh + n \in Nat
    BY <1>0
  <2> QED
    BY <1>1, <2>1
<1>9. misled' \in BOOLEAN
  BY <1>1
<1> QED
  BY <1>6, <1>7, <1>1, <1>8, <1>9, UpdateKeepsInv

(* One round of deleteItems *)
LEMMA DeleteOneKeeps ==
    ASSUME NEW l, WellFormed(l), NEW i \in 0 .. (Len(l.items) - 1)
    PROVE  /\ WellFormed(DeleteOne(l, i))
           /\ Len(DeleteOne(l, i).items) = Len(l.items) - 1
           /\ \A next : Truthful(l, next) => Truthful(DeleteOne(l, i), next)
<1> DEFINE n == Len(l.items)
           items == Without(l.items, i)
           some == Among(l.filtered.list, ToSet(l.filtered.list) \ {l.items[i + 1]})
           filtered == [l.filtered EXCEPT !.list = some]
           left == CacheWithout(l.cache, {i})
           cache == Shift(left, i + 1, -1)
           d == DeleteOne(l, i)
<1>1. /\ l.items \in Seq(Nat) /\ n \in Nat /\ n <= MaxItems /\ MaxItems \in Nat
      /\ i \in Int /\ 0 <= i /\ i < n
      /\ l.filtered = [on |-> l.filtered.on, list |-> l.filtered.list]
      /\ l.filtered.on \in BOOLEAN /\ l.filtered.list \in Seq(Nat)
      /\ Len(l.filtered.list) <= MaxItems /\ Len(l.filtered.list) \in Nat
      /\ DOMAIN l.cache \subseteq -1 .. n
  BY ListAssumption DEF WellFormed
<1>2. d = [items |-> items, filtered |-> filtered, cache |-> cache]
  BY DEF DeleteOne, Without
<1>3. d.items = items /\ d.filtered = filtered /\ d.cache = cache
  BY <1>2
<1>4. /\ items \in Seq(Nat) /\ Len(items) = n - 1
      /\ \A j \in 1 .. (n - 1) : items[j] = IF j <= i THEN l.items[j] ELSE l.items[j + 1]
  <2>1. HasCutOut(l.items, i, items)
    BY <1>1, CutOut
  <2> HIDE DEF items
  <2> QED
    BY <2>1 DEF HasCutOut
<1>5. /\ some \in Seq(Nat) /\ Len(some) <= MaxItems
      /\ \E g : Leaves(l.filtered.list, ToSet(l.filtered.list) \ {l.items[i + 1]},
                       Len(l.filtered.list), some, g)
  <2>1. /\ some \in Seq(Nat) /\ Len(some) <= Len(l.filtered.list)
        /\ \E g : Leaves(l.filtered.list, ToSet(l.filtered.list) \ {l.items[i + 1]},
                         Len(l.filtered.list), some, g)
    BY <1>1, AmongLeaves
  <2>2. Len(some) \in Nat
    BY <2>1
  <2> HIDE DEF some, n
  <2> QED
    BY <1>1, <2>1, <2>2
<1>6. /\ filtered = [on |-> filtered.on, list |-> filtered.list]
      /\ filtered.on = l.filtered.on /\ filtered.list = some
  <2> HIDE DEF some
  <2> QED
    BY <1>1
<1>7. LeftOf(l.cache, {i}, left)
  BY CacheLess
<1>8. ShiftOf(left, i + 1, -1, cache)
  <2>1. DOMAIN left \subseteq Int /\ (i + 1) - 1 = i /\ i \notin DOMAIN left
        /\ i + 1 \in Int /\ -1 \in Int
    BY <1>1, <1>7 DEF LeftOf
  <2> HIDE DEF left
  <2> QED
    BY <2>1, Shifted
<1> HIDE DEF items, some, filtered, left, cache, d, n
<1>9. ASSUME NEW c \in DOMAIN cache
      PROVE  \E k \in DOMAIN l.cache : /\ k \in -1 .. n /\ k # i /\ cache[c] = l.cache[k]
                                       /\ c = (IF k >= i + 1 THEN k - 1 ELSE k)
  <2>1. PICK k \in DOMAIN left : c = (IF k >= i + 1 THEN k + -1 ELSE k) /\ cache[c] = left[k]
    BY <1>8 DEF ShiftOf, ShiftedTo
  <2>2. k \in DOMAIN l.cache /\ k # i /\ left[k] = l.cache[k] /\ k \in -1 .. n
    BY <1>1, <1>7 DEF LeftOf
  <2> QED
    BY <2>1, <2>2
<1>10. WellFormed(d)
  <2>1. ASSUME NEW c \in DOMAIN cache PROVE c \in -1 .. (n - 1)
    <3>1. PICK k \in -1 .. n : k # i /\ c = (IF k >= i + 1 THEN k - 1 ELSE k)
      BY <1>9
    <3> QED
      BY <1>1, <3>1
  <2>2. Len(items) <= MaxItems
    BY <1>1, <1>4
  <2> QED
    BY <1>1, <1>2, <1>3, <1>4, <1>5, <1>6, <2>1, <2>2 DEF WellFormed, n
<1>11. ASSUME NEW next, Truthful(l, next) PROVE Truthful(d, next)
  <2> DEFINE from(j) == IF j <= i THEN j ELSE j + 1
  <2>0. DOMAIN items = 1 .. (n - 1) /\ DOMAIN l.items = 1 .. n
    BY <1>1, <1>4 DEF n
  <2>1. \A j \in 1 .. (n - 1) : from(j) \in 1 .. n /\ items[j] = l.items[from(j)]
    <3> SUFFICES ASSUME NEW j \in 1 .. (n - 1)
                 PROVE  from(j) \in 1 .. n /\ items[j] = l.items[from(j)]
      OBVIOUS
    <3>1. j \in Int /\ 1 <= j /\ j <= n - 1
      BY <1>1
    <3>2. from(j) \in 1 .. n
      BY <1>1, <3>1
    <3>3. items[j] = IF j <= i THEN l.items[j] ELSE l.items[j + 1]
      BY <1>4
    <3> QED
      BY <3>2, <3>3
  <2>2. \A j, k \in 1 .. (n - 1) : from(j) = from(k) => j = k
    BY <1>1
  <2>3. \A p \in 1 .. n : p # i + 1 => \E j \in 1 .. (n - 1) : from(j) = p
    <3> SUFFICES ASSUME NEW p \in 1 .. n, p # i + 1
                 PROVE  \E j \in 1 .. (n - 1) : from(j) = p
      OBVIOUS
    <3>1. CASE p <= i
      <4>1. p \in 1 .. (n - 1) /\ from(p) = p
        BY <1>1, <3>1
      <4> QED
        BY <4>1
    <3>2. CASE p > i
      <4>1. p - 1 \in 1 .. (n - 1) /\ from(p - 1) = p
        BY <1>1, <3>2
      <4> QED
        BY <4>1
    <3> QED
      BY <1>1, <3>1, <3>2
  <2>4. ASSUME NEW c \in DOMAIN cache
        PROVE  c \in 0 .. (n - 2) /\ cache[c] = items[c + 1]
    <3>1. PICK k \in DOMAIN l.cache : /\ k # i /\ cache[c] = l.cache[k]
                                      /\ c = (IF k >= i + 1 THEN k - 1 ELSE k)
      BY <1>9
    <3>2. k \in 0 .. (n - 1) /\ l.cache[k] = l.items[k + 1]
      BY <1>11 DEF Truthful, n
    <3>3. k \in Int /\ 0 <= k /\ k <= n - 1
      BY <1>1, <3>2
    <3>4. c \in 0 .. (n - 2) /\ c + 1 \in 1 .. (n - 1) /\ from(c + 1) = k + 1
      <4>1. CASE k >= i + 1
        BY <1>1, <3>1, <3>3, <4>1
      <4>2. CASE k < i
        BY <1>1, <3>1, <3>3, <4>2
      <4> QED
        BY <1>1, <3>1, <3>3, <4>1, <4>2
    <3>5. items[c + 1] = l.items[from(c + 1)]
      BY <2>1, <3>4
    <3> QED
      BY <3>1, <3>2, <3>4, <3>5
  <2> HIDE DEF from
  <2>5. Distinct(items)
    BY <2>0, <2>1, <2>2, <1>11 DEF Truthful, Distinct
  <2>6. \A j \in DOMAIN items : items[j] < next
    BY <2>0, <2>1, <1>11 DEF Truthful
  <2>7. ASSUME l.filtered.on, NEW j \in DOMAIN some
        PROVE  \E k \in DOMAIN items : some[j] = items[k]
    <3>1. PICK g : Leaves(l.filtered.list, ToSet(l.filtered.list) \ {l.items[i + 1]},
                          Len(l.filtered.list), some, g)
      BY <1>5
    <3>2. j \in 1 .. Len(some)
      BY <1>5
    <3>3. /\ g[j] \in 1 .. Len(l.filtered.list)
          /\ some[j] = l.filtered.list[g[j]]
          /\ some[j] \in ToSet(l.filtered.list) \ {l.items[i + 1]}
      BY <3>1, <3>2 DEF Leaves
    <3>4. DOMAIN l.filtered.list = 1 .. Len(l.filtered.list)
      BY <1>1
    <3>5. PICK p \in 1 .. n : l.filtered.list[g[j]] = l.items[p]
      BY <1>11, <2>0, <2>7, <3>3, <3>4 DEF Truthful
    <3>6. p # i + 1
      BY <3>3, <3>5
    <3>7. PICK k \in 1 .. (n - 1) : from(k) = p
      BY <2>3, <3>6
    <3> QED
      BY <2>0, <2>1, <3>3, <3>5, <3>7
  <2>8. (n - 1) - 1 = n - 2
    BY <1>1
  <2> QED
    BY <1>3, <1>4, <1>6, <2>4, <2>5, <2>6, <2>7, <2>8 DEF Truthful
<1> QED
  BY <1>3, <1>4, <1>10, <1>11 DEF d, n

(* What is left after each round of deleteItems *)
AfterDeletes(indexes, after) ==
    after = [n \in 0 .. Len(indexes) |->
                IF n = 0 THEN list ELSE DeleteOne(after[n - 1], indexes[n] - (n - 1))]

(* deleteItems for one index is one round of it, *)
LEMMA DeletedOnce ==
    ASSUME NEW i, NEW after, AfterDeletes(<<i>>, after)
    PROVE  after[1] = DeleteOne(list, i - 0)
<1>1. Len(<<i>>) = 1 /\ 0 \in 0 .. 1 /\ 1 \in 0 .. 1 /\ 1 # 0 /\ 1 - 1 = 0 /\ <<i>>[1] = i
  OBVIOUS
<1>2. \A n \in 0 .. Len(<<i>>) :
         after[n] = IF n = 0 THEN list ELSE DeleteOne(after[n - 1], <<i>>[n] - (n - 1))
  BY DEF AfterDeletes
<1>3. after[0] = list
  BY <1>1, <1>2
<1>4. after[1] = DeleteOne(after[1 - 1], <<i>>[1] - (1 - 1))
  BY <1>1, <1>2
<1> QED
  BY <1>1, <1>3, <1>4

(* and for two it is two, the second index less by one. *)
LEMMA DeletedTwice ==
    ASSUME NEW i, NEW j, NEW after, AfterDeletes(<<i, j>>, after)
    PROVE  after[2] = DeleteOne(DeleteOne(list, i - 0), j - 1)
<1>1. Len(<<i, j>>) = 2 /\ 0 \in 0 .. 2 /\ 1 \in 0 .. 2 /\ 2 \in 0 .. 2
      /\ 1 # 0 /\ 1 - 1 = 0 /\ 2 # 0 /\ 2 - 1 = 1 /\ <<i, j>>[1] = i /\ <<i, j>>[2] = j
  OBVIOUS
<1>2. \A n \in 0 .. Len(<<i, j>>) :
         after[n] = IF n = 0 THEN list ELSE DeleteOne(after[n - 1], <<i, j>>[n] - (n - 1))
  BY DEF AfterDeletes
<1>3. after[0] = list
  BY <1>1, <1>2
<1>4. after[1] = DeleteOne(after[1 - 1], <<i, j>>[1] - (1 - 1))
  BY <1>1, <1>2
<1>5. after[2] = DeleteOne(after[2 - 1], <<i, j>>[2] - (2 - 1))
  BY <1>1, <1>2
<1> QED
  BY <1>1, <1>3, <1>4, <1>5

(* The rounds of deleteItems exist. *)
LEMMA DeletedExists ==
    ASSUME NEW indexes, Len(indexes) \in {1, 2}
    PROVE  \E after : AfterDeletes(indexes, after)
<1> DEFINE once == DeleteOne(list, indexes[1] - 0)
           twice == DeleteOne(once, indexes[2] - 1)
           f == [n \in 0 .. Len(indexes) |-> IF n = 0 THEN list ELSE IF n = 1 THEN once ELSE twice]
           h == [n \in 0 .. Len(indexes) |->
                   IF n = 0 THEN list ELSE DeleteOne(f[n - 1], indexes[n] - (n - 1))]
<1>1. ASSUME NEW n \in 0 .. Len(indexes) PROVE f[n] = h[n]
  <2>1. n \in {0, 1, 2}
    OBVIOUS
  <2>2. 0 \in 0 .. Len(indexes) /\ 1 \in 0 .. Len(indexes)
    OBVIOUS
  <2>3. CASE n = 0
    BY <2>2, <2>3
  <2>4. CASE n = 1
    <3>1. f[0] = list /\ f[1] = once /\ 1 # 0 /\ 1 - 1 = 0
      BY <2>2
    <3>2. h[1] = DeleteOne(f[1 - 1], indexes[1] - (1 - 1))
      BY <2>2, <3>1
    <3> HIDE DEF f, h
    <3> QED
      BY <2>4, <3>1, <3>2
  <2>5. CASE n = 2
    <3>1. f[1] = once /\ f[2] = twice /\ 2 # 0 /\ 2 - 1 = 1 /\ 2 \in 0 .. Len(indexes)
      BY <2>2, <2>5
    <3>2. h[2] = DeleteOne(f[2 - 1], indexes[2] - (2 - 1))
      BY <3>1
    <3> HIDE DEF f, h
    <3> QED
      BY <2>5, <3>1, <3>2
  <2> QED
    BY <2>1, <2>3, <2>4, <2>5
<1>2. f = h
  BY <1>1
<1>3. AfterDeletes(indexes, f)
  BY <1>2 DEF AfterDeletes
<1> HIDE DEF f
<1> QED
  BY <1>3

(* deleteItems, by these names. *)
LEMMA DeleteItemsUpdates ==
    ASSUME NEW indexes, DeleteItems(indexes)
    PROVE  /\ Update((CHOOSE after : AfterDeletes(indexes, after))[Len(indexes)])
           /\ UNCHANGED <<fresh, misled>>
  BY DEF DeleteItems, AfterDeletes

(* deleteItems of one item *)
LEMMA DeleteItemKeepsInv ==
    ASSUME ListInv, NEW i \in 0 .. (Len(list.items) - 1), DeleteItems(<<i>>)
    PROVE  ListInv'
<1> DEFINE after == CHOOSE after : AfterDeletes(<<i>>, after)
<1>1. Len(<<i>>) = 1
  OBVIOUS
<1>2. AfterDeletes(<<i>>, after)
  BY <1>1, DeletedExists
<1>3. Update(after[1]) /\ UNCHANGED <<fresh, misled>>
  BY <1>1, DeleteItemsUpdates
<1> HIDE DEF after
<1>4. after[1] = DeleteOne(list, i)
  <2>1. i - 0 = i
    BY ListFields
  <2> QED
    BY <1>2, <2>1, DeletedOnce
<1>5. WellFormed(list)
  BY DEF ListInv
<1>6. /\ WellFormed(DeleteOne(list, i))
      /\ \A next : Truthful(list, next) => Truthful(DeleteOne(list, i), next)
  BY <1>5, DeleteOneKeeps
<1> QED
  BY <1>3, <1>4, <1>6, ListFields, UpdateKeepsInv

(* deleteItems of two items *)
LEMMA DeleteTwoKeepsInv ==
    ASSUME ListInv, NEW i \in 0 .. (Len(list.items) - 1), NEW j \in 0 .. (Len(list.items) - 1),
           i < j, DeleteItems(<<i, j>>)
    PROVE  ListInv'
<1> DEFINE after == CHOOSE after : AfterDeletes(<<i, j>>, after)
           one == DeleteOne(list, i)
<1>1. Len(<<i, j>>) = 2
  OBVIOUS
<1>2. AfterDeletes(<<i, j>>, after)
  BY <1>1, DeletedExists
<1>3. Update(after[2]) /\ UNCHANGED <<fresh, misled>>
  BY <1>1, DeleteItemsUpdates
<1> HIDE DEF after
<1>4. after[2] = DeleteOne(one, j - 1)
  <2>1. i - 0 = i
    BY ListFields
  <2> QED
    BY <1>2, <2>1, DeletedTwice
<1>5. WellFormed(list)
  BY DEF ListInv
<1>6. /\ WellFormed(one) /\ Len(one.items) = Len(list.items) - 1
      /\ \A next : Truthful(list, next) => Truthful(one, next)
  BY <1>5, DeleteOneKeeps
<1> HIDE DEF one
<1>7. j - 1 \in 0 .. (Len(one.items) - 1)
  <2>1. Len(list.items) \in Nat
    BY ListFields
  <2> QED
    BY <1>6, <2>1
<1>8. /\ WellFormed(DeleteOne(one, j - 1))
      /\ \A next : Truthful(one, next) => Truthful(DeleteOne(one, j - 1), next)
  BY <1>6, <1>7, DeleteOneKeeps
<1> QED
  BY <1>3, <1>4, <1>6, <1>8, ListFields, UpdateKeepsInv

(* A list drawn for the first time. *)
LEMMA ListInitInv ==
    ASSUME ListInit
    PROVE  ListInv
<1> DEFINE cached(n) == {k \in 0 .. (n - 1) : k < RowsToRender}
           drawn(n) == {m \in 1 .. n : m <= RowsToRender}
<1>1. PICK n \in 0 .. MaxItems :
         /\ list = [items |-> [k \in 1 .. n |-> k], filtered |-> NoFilter,
                    cache |-> [i \in cached(n) |-> i + 1]]
         /\ view = [top |-> 0, lastY |-> 0,
                    rows |-> {[at |-> k - 1, shows |-> k] : k \in drawn(n)}]
         /\ fresh = n + 1
  BY DEF ListInit
<1>2. misled = FALSE
  BY DEF ListInit
<1> DEFINE items == [k \in 1 .. n |-> k]
           cache == [i \in cached(n) |-> i + 1]
           drawnRows == {[at |-> k - 1, shows |-> k] : k \in drawn(n)}
<1>3. n \in Nat /\ n <= MaxItems /\ MaxItems \in Nat
  BY ListAssumption
<1>4. items \in Seq(Nat) /\ Len(items) = n /\ DOMAIN items = 1 .. n
      /\ \A k \in 1 .. n : items[k] = k
  BY <1>3
<1>5. DOMAIN cache = cached(n) /\ \A i \in cached(n) : cache[i] = i + 1
  OBVIOUS
<1>6. /\ list.items = items /\ list.filtered = NoFilter /\ list.cache = cache
      /\ list = [items |-> list.items, filtered |-> list.filtered, cache |-> list.cache]
  BY <1>1
<1>7. view.top = 0 /\ view.lastY = 0 /\ view.rows = drawnRows
      /\ view = [top |-> view.top, lastY |-> view.lastY, rows |-> view.rows]
  BY <1>1
<1>8. cached(n) \subseteq 0 .. (n - 1)
  OBVIOUS
<1>9. Window(0) = 0 .. (RowsToRender - 1) /\ RowsToRender \in Nat
  <2>1. 0 \div RowHeight = 0
    BY ListAssumption
  <2>2. RowsBefore \in Nat /\ RowsToRender \in Nat
    BY Sizes
  <2> QED
    BY <2>1, <2>2 DEF Window
<1>10. drawn(n) = {k + 1 : k \in Window(0) \cap 0 .. (n - 1)}
  <2>1. ASSUME NEW m \in drawn(n) PROVE m \in {k + 1 : k \in Window(0) \cap 0 .. (n - 1)}
    <3>1. m - 1 \in Window(0) \cap 0 .. (n - 1) /\ (m - 1) + 1 = m
      BY <1>3, <1>9, <2>1
    <3> QED
      BY <3>1
  <2>2. ASSUME NEW k \in Window(0) \cap 0 .. (n - 1) PROVE k + 1 \in drawn(n)
    BY <1>3, <1>9
  <2> QED
    BY <2>1, <2>2
<1>11. \A k \in drawn(n) : k \in 1 .. n
  OBVIOUS
<1> HIDE DEF items, cache, cached, drawn
<1>12. WellFormed(list)
  <2>1. <<>> \in Seq(Nat) /\ Len(<<>>) <= MaxItems
    BY ListAssumption
  <2>2. /\ NoFilter = [on |-> NoFilter.on, list |-> NoFilter.list]
        /\ NoFilter.on \in BOOLEAN
        /\ NoFilter.list \in Seq(Nat) /\ Len(NoFilter.list) <= MaxItems
    BY <2>1 DEF NoFilter
  <2>3. cached(n) \subseteq -1 .. n
    BY <1>3, <1>8
  <2> QED
    BY <1>3, <1>4, <1>5, <1>6, <2>2, <2>3 DEF WellFormed
<1>13. Truthful(list, fresh)
  <2>1. ~NoFilter.on
    BY DEF NoFilter
  <2>2. fresh = n + 1
    BY <1>1
  <2>3. \A i \in cached(n) : i \in 0 .. (n - 1) /\ i + 1 \in 1 .. n
    BY <1>3, <1>8
  <2>4. \A i \in 1 .. n : items[i] < fresh
    BY <1>3, <1>4, <2>2
  <2> QED
    BY <1>3, <1>4, <1>5, <1>6, <2>1, <2>3, <2>4 DEF Truthful, Distinct
<1>14. drawnRows = RowsDrawn(list, 0)
  <2>1. ItemsShown(list) = items
    BY <1>6 DEF ItemsShown, NoFilter
  <2>2. \A k \in Window(0) \cap 0 .. (n - 1) : k + 1 \in 1 .. n /\ items[k + 1] = k + 1 /\ (k + 1) - 1 = k
    BY <1>3, <1>4
  <2>3. RowsDrawn(list, 0) = {[at |-> k, shows |-> items[k + 1]] : k \in Window(0) \cap 0 .. (n - 1)}
    BY <1>4, <2>1 DEF RowsDrawn
  <2>4. RowsDrawn(list, 0) = {[at |-> (k + 1) - 1, shows |-> k + 1] : k \in Window(0) \cap 0 .. (n - 1)}
    BY <2>2, <2>3
  <2> QED
    BY <1>10, <2>4
<1>15. \A r \in drawnRows : r.at \in 0 .. MaxItems
  <2>1. \A k \in drawn(n) : k - 1 \in 0 .. MaxItems
    BY <1>3, <1>11
  <2> QED
    BY <2>1
<1>16. Abs(0 - 0) <= MaxBufferHeight
  BY Sizes DEF Abs
<1>17. fresh \in Nat
  BY <1>1, <1>3
<1> HIDE DEF drawnRows
<1>18. view.top \in Nat /\ view.lastY \in Nat
  BY <1>7
<1>19. Abs(view.top - view.lastY) <= MaxBufferHeight
  BY <1>7, <1>16
<1>20. view.rows = RowsDrawn(list, view.lastY)
  BY <1>7, <1>14
<1>21. \A r \in view.rows : r.at \in 0 .. MaxItems
  BY <1>7, <1>15
<1>22. misled \in BOOLEAN /\ view = [top |-> view.top, lastY |-> view.lastY, rows |-> view.rows]
  BY <1>2, <1>7
<1> QED
  BY <1>12, <1>13, <1>17, <1>18, <1>19, <1>20, <1>21, <1>22 DEF ListInv

(* Every operation keeps the invariant. *)
LEMMA ListNextKeepsInv ==
    ASSUME ListInv, [ListNext]_listVars
    PROVE  ListInv'
<1>1. ASSUME NEW y \in 0 .. (MaxItems * RowHeight), Scroll(y) PROVE ListInv'
  <2>1. y \in Nat
    BY ListAssumption
  <2> QED
    BY <1>1, <2>1, ScrollKeepsInv
<1>2. ASSUME NEW S, FilterItems(S) PROVE ListInv'
  BY <1>2, FilterItemsKeepsInv
<1>3. CASE ResetFilter
  BY <1>3, ResetFilterKeepsInv
<1>4. CASE AppendItems
  BY <1>4, AppendItemsKeepsInv
<1>5. CASE ClearCache
  BY <1>5, ClearCacheKeepsInv
<1>6. CASE Redraw
  BY <1>6, RedrawKeepsInv
<1>7. ASSUME NEW i \in 0 .. MaxItems, ScrollToItem(i) PROVE ListInv'
  BY <1>7, ScrollToItemKeepsInv
<1>8. ASSUME NEW n \in {1, 2}, PrependItems(n) PROVE ListInv'
  BY <1>8, PrependItemsKeepsInv
<1>9. ASSUME NEW i \in Indexes, ReplaceItem(i) PROVE ListInv'
  BY <1>9, ReplaceItemKeepsInv DEF Indexes
<1>10. ASSUME NEW i \in Indexes, InsertItemBefore(i) PROVE ListInv'
  BY <1>10, InsertItemBeforeKeepsInv DEF Indexes
<1>11. ASSUME NEW i \in Indexes, NEW j \in 0 .. Len(list.items), MoveItem(i, j) PROVE ListInv'
  BY <1>11, MoveItemKeepsInv DEF Indexes
<1>12. ASSUME NEW i \in Indexes, DeleteItems(<<i>>) PROVE ListInv'
  BY <1>12, DeleteItemKeepsInv DEF Indexes
<1>13. ASSUME NEW i \in Indexes, NEW j \in Indexes, i < j, DeleteItems(<<i, j>>) PROVE ListInv'
  BY <1>13, DeleteTwoKeepsInv DEF Indexes
<1>14. ASSUME NEW n \in {0, MaxItems}, ReplaceAllItems(n) PROVE ListInv'
  <2>1. n \in 0 .. MaxItems
    BY ListAssumption
  <2> QED
    BY <1>14, <2>1, ReplaceAllItemsKeepsInv
<1>15. CASE UNCHANGED listVars
  BY <1>15 DEF listVars, ListInv, Truthful, WellFormed, RowsDrawn, ItemsShown, Distinct
<1> QED
  BY <1>1, <1>2, <1>3, <1>4, <1>5, <1>6, <1>7, <1>8, <1>9, <1>10, <1>11, <1>12, <1>13, <1>14,
     <1>15 DEF ListNext

LEMMA ListInvHolds == ListSpec => []ListInv
<1>1. ListInit => ListInv
  BY ListInitInv
<1>2. ListInv /\ [ListNext]_listVars => ListInv'
  BY ListNextKeepsInv
<1> QED
  BY <1>1, <1>2, PTL DEF ListSpec

(* The invariant has the type in it. *)
LEMMA ListTyped == ListInv => ListTypeOK
<1> SUFFICES ASSUME ListInv PROVE ListTypeOK
  OBVIOUS
<1>1. DOMAIN list.cache \subseteq -1 .. MaxItems
  <2>1. Len(list.items) \in Nat /\ Len(list.items) <= MaxItems /\ MaxItems \in Nat
    BY ListFields, ListAssumption
  <2>2. -1 .. Len(list.items) \subseteq -1 .. MaxItems
    BY <2>1
  <2> QED
    BY <2>2, ListFields
<1> QED
  BY <1>1, ListFields DEF ListTypeOK, ListInv

(***************************************************************************)
(* ListTypes: for any heights, any number of items and any number of       *)
(* changes the state of the list has its type, and no row is cached or     *)
(* drawn beyond the bound on the items.                                    *)
(***************************************************************************)
THEOREM ListTypes == ListSpec => []ListTypeOK
  BY ListInvHolds, ListTyped, PTL

(* A row wholly in view was drawn, as the page is within the buffer of where
   it was drawn for, and once, from a cache that is true. *)
LEMMA RowsDrawnShow == ListInv => RowsShowItems
<1> SUFFICES ASSUME ListInv, ~misled, NEW k \in 0 .. (Len(ItemsShown(list)) - 1),
                    k * RowHeight >= view.top, (k + 1) * RowHeight <= view.top + PageHeight
             PROVE  {r.shows : r \in {r \in view.rows : r.at = k}} = {ItemsShown(list)[k + 1]}
  BY DEF RowsShowItems
<1> DEFINE shown == ItemsShown(list)
           at == Window(view.lastY) \cap 0 .. (Len(shown) - 1)
<1>1. /\ view.top \in Nat /\ view.lastY \in Nat
      /\ view.rows = RowsDrawn(list, view.lastY)
      /\ Abs(view.top - view.lastY) <= MaxBufferHeight
  BY DEF ListInv
<1>2. k \in Nat
  OBVIOUS
<1>3. k \in at
  BY <1>1, <1>2, InView
<1>4. view.rows = {[at |-> m, shows |-> shown[m + 1]] : m \in at}
  BY <1>1 DEF RowsDrawn
<1> HIDE DEF shown, at
<1>5. \A r \in view.rows : r.at = k => r.shows = shown[k + 1]
  BY <1>4
<1>6. \E r \in view.rows : r.at = k /\ r.shows = shown[k + 1]
  <2> DEFINE r == [at |-> k, shows |-> shown[k + 1]]
  <2>1. r \in view.rows
    BY <1>3, <1>4
  <2>2. r.at = k /\ r.shows = shown[k + 1]
    OBVIOUS
  <2> HIDE DEF r
  <2> QED
    BY <2>1, <2>2
<1>7. {r.shows : r \in {r \in view.rows : r.at = k}} = {shown[k + 1]}
  BY <1>5, <1>6
<1> QED
  BY <1>7 DEF shown

(***************************************************************************)
(* RowsInPlace: for any heights of rows and page, any number of items and  *)
(* of changes, every row wholly in view is in the document, at its place,  *)
(* once, and shows the item of that place, apart from the three exceptions *)
(* that misled names.                                                      *)
(***************************************************************************)
THEOREM RowsInPlace == ListSpec => []RowsShowItems
  BY ListInvHolds, RowsDrawnShow, PTL

-----------------------------------------------------------------------------
(***************************************************************************)
(* The page as a whole (module MCPage).  Each part takes only steps of its *)
(* own specification or none, so what was proved of the parts holds of the *)
(* page, whichever part a behaviour follows.                               *)
(***************************************************************************)

(* PageIsItsParts: a behaviour of the page is one of each of its parts. *)
LEMMA PageIsItsParts ==
    PageSpec => /\ DialogSpec /\ TapSpec /\ ListSpec /\ FormSpec /\ SearchSpec
                /\ CalendarSpec /\ SwipeoutSpec /\ OrderSpec /\ PullSpec
<1>1. PageInit => /\ DialogInit /\ TapInit /\ ListInit /\ FormInit /\ SearchInit
                  /\ CalendarInit /\ SwipeoutInit /\ OrderInit /\ PullInit
  BY DEF PageInit
<1>2. [PageNext]_pageVars => [DialogNext]_dialogVars
  BY DEF PageNext, pageVars
<1>3. [PageNext]_pageVars => [TapNext]_tapVars
  BY DEF PageNext, pageVars
<1>4. [PageNext]_pageVars => [ListNext]_listVars
  BY DEF PageNext, pageVars
<1>5. [PageNext]_pageVars => [FormNext]_formVars
  BY DEF PageNext, pageVars
<1>6. [PageNext]_pageVars => [SearchNext]_searchVars
  BY DEF PageNext, pageVars
<1>7. [PageNext]_pageVars => [CalendarNext]_calendarVars
  BY DEF PageNext, pageVars
<1>8. [PageNext]_pageVars => [SwipeoutNext]_swipeoutVars
  BY DEF PageNext, pageVars
<1>9. [PageNext]_pageVars => [OrderNext]_orderVars
  BY DEF PageNext, pageVars
<1>10. [PageNext]_pageVars => [PullNext]_pullVars
  BY DEF PageNext, pageVars
<1> QED
  BY <1>1, <1>2, <1>3, <1>4, <1>5, <1>6, <1>7, <1>8, <1>9, <1>10,
     PTL DEF PageSpec, DialogSpec, TapSpec, ListSpec, FormSpec, SearchSpec, CalendarSpec,
             SwipeoutSpec, OrderSpec, PullSpec

(***************************************************************************)
(* PageTypeCorrect: whatever dialogs, elements, rows, options, days and    *)
(* orders there are, the state of each part of the page has its type.      *)
(***************************************************************************)
THEOREM PageTypeCorrect == PageSpec => []PageTypeOK
<1>1. DialogInv => DialogTypeOK
  BY DEF DialogInv
<1>2. TapInv => TapTypeOK
  <2> SUFFICES ASSUME TapInv PROVE TapTypeOK
    OBVIOUS
  <2>1. {trackClick, isMoved, needsFastClick, recent, calming, orphan, late} \subseteq BOOLEAN
    BY DEF TapInv, TapTypes
  <2>2. tap.kind \in TapKinds /\ tap.clicks \in 0 .. 2
    BY DEF TapInv, TapTypes
  <2>3. /\ finger \in [on : Elements \cup {Nothing}, prevented : BOOLEAN]
        /\ targetElement \in Elements \cup {Nothing} /\ focus \in Inputs \cup {Nothing}
        /\ native \in Elements \cup {Nothing}
    BY DEF TapInv, TapTypes
  <2> QED
    BY <2>1, <2>2, <2>3 DEF TapTypeOK, TapKinds
<1>3. SearchInv => SearchTypeOK
  BY DEF SearchInv
<1>4. PullInv => PullTypeOK
  BY DEF PullInv
<1>5. DialogTypeOK /\ TapTypeOK /\ ListTypeOK /\ FormTypeOK /\ SearchTypeOK
      /\ CalendarTypeOK /\ SwipeoutTypeOK /\ OrderTypeOK /\ PullTypeOK => PageTypeOK
  BY DEF PageTypeOK
<1> QED
  BY <1>1, <1>2, <1>3, <1>4, <1>5, PageIsItsParts, DialogInvariant, TapInvHolds, ListTypes,
     FormTypeCorrect, SearchInvHolds, CalendarTypeCorrect, SwipeoutTypeCorrect,
     OrderTypeCorrect, PullInvHolds, PTL

(***************************************************************************)
(* PageIsSafe: what was proved of the parts one by one, of the page as it  *)
(* is model-checked: dialogs one at a time and covered for a reason, taps  *)
(* that are clicks, rows, choices, forms, search results, calendar, swiped *)
(* rows and orders as they should be, each but for the exceptions it       *)
(* names, and pulls that come to rest.                                     *)
(***************************************************************************)
THEOREM PageIsSafe ==
    PageSpec => [](/\ OneDialogAtATime /\ CoveredForAReason /\ TapMeansClick /\ RowsShowItems
                   /\ ChoiceShown /\ FormReturns /\ ResultsMatch /\ CalendarIsTrue
                   /\ OpenRowIsKnown /\ OrdersWithoutGap /\ PullSettles)
BY PageIsItsParts, DialogsOneAtATime, DialogsCoverForAReason, TapsMeanClicks, RowsInPlace,
   SelectShowsChoice, StoredFormReturns, SearchResultsMatch, CalendarShowsTruth,
   OneRowOpenAndKnown, ListWithoutGap, PullComesToRest, PTL
================================================================================
