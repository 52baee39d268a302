------------------------------- MODULE FormProofs ------------------------------
(***************************************************************************)
(* Proofs about what the user touches on the page of a form: fast clicks,  *)
(* smart selects and the stored form, rows that are swiped open, and the   *)
(* calendar, for any elements, options, rows and days, and any number of   *)
(* touches.                                                                *)
(***************************************************************************)
EXTENDS Taps, FormPage, Swipeout, Calendar, FiniteSetTheorems, SequenceTheorems,
        NumberInduction, TLAPS

-----------------------------------------------------------------------------
(***************************************************************************)
(* Fast clicks (module Taps).  TapMeansClick speaks of a touch that is     *)
(* over.  What makes it inductive is said of a touch under way: which      *)
(* variables of the fast clicks are set while it can still become a tap    *)
(* (TapGoesOn), whose the click is that the browser has yet to fire        *)
(* (LateIsKnown), and that there is no click before it (ClicksSoFar).      *)
(***************************************************************************)

(* What a touch can turn out to be. *)
TapKinds == {"none", "tap", "moved", "hasty", "crossed"}

(* A click of the browser under way while a finger is down, or for a touch
   before the latest, is late. *)
LateIsKnown ==
    /\ late => native # Nothing /\ tap.kind = "crossed"
    /\ finger.on # Nothing /\ native # Nothing => late

(* A touch has led to no click while the finger is down, and to one at the
   most after that, when the browser has none left for it. *)
ClicksSoFar ==
    IF finger.on # Nothing THEN tap.clicks = 0
    ELSE tap.clicks = 0 \/ (tap.clicks = 1 /\ (native = Nothing \/ late))

(* A touch that may become a tap: the fast clicks follow it exactly when the
   element does not leave its clicks to the browser. *)
TapGoesOn ==
    /\ ~recent /\ ~finger.prevented /\ ~calming
    /\ trackClick <=> needsFastClick
    /\ needsFastClick <=> finger.on \notin NoFast
    /\ trackClick => targetElement = finger.on

(* The types of the variables; a touch never leads to more than one click. *)
TapTypes ==
    /\ finger \in [on : Elements \cup {Nothing}, prevented : BOOLEAN]
    /\ targetElement \in Elements \cup {Nothing} /\ focus \in Inputs \cup {Nothing}
    /\ native \in Elements \cup {Nothing}
    /\ trackClick \in BOOLEAN /\ isMoved \in BOOLEAN /\ needsFastClick \in BOOLEAN
    /\ recent \in BOOLEAN /\ calming \in BOOLEAN /\ orphan \in BOOLEAN /\ late \in BOOLEAN
    /\ tap \in [kind : TapKinds, clicks : {0, 1}]

(* What is known of the latest touch by what it was. *)
TapKnown ==
    /\ tap.kind = "none" => finger.on = Nothing /\ native = Nothing
    /\ tap.kind = "tap" =>
         IF finger.on # Nothing THEN TapGoesOn
         ELSE \/ native = Nothing /\ tap.clicks = 1
              \/ native # Nothing /\ tap.clicks = 0 /\ (trackClick \/ ~needsFastClick)
    /\ tap.kind = "moved" =>
         /\ native = Nothing /\ tap.clicks = 0
         /\ finger.on # Nothing => ~trackClick /\ needsFastClick /\ ~calming

(* TapInv is inductive. *)
TapInv == TapTypes /\ LateIsKnown /\ ClicksSoFar /\ TapKnown

(* Every step keeps TapInv. *)
LEMMA TapStepKeepsInv == TapInv /\ [TapNext]_tapVars => TapInv'
<1> SUFFICES ASSUME TapInv, [TapNext]_tapVars PROVE TapInv'
  OBVIOUS
<1> USE TapAssumption DEF TapInv, LateIsKnown, ClicksSoFar, TapKnown, TapGoesOn, Nothing
<1>0. Nothing \notin Elements /\ TapTypes
  BY DEF Elements
<1>1. ASSUME NEW el \in Elements, TouchStart(el) PROVE TapInv'
  <2>1. /\ finger.on = Nothing /\ isMoved' = FALSE /\ calming' = FALSE
        /\ UNCHANGED <<recent, native, orphan>>
        /\ tap' = [kind |-> IF native # Nothing THEN "crossed"
                            ELSE IF recent THEN "hasty" ELSE "tap", clicks |-> 0]
        /\ late' = (native # Nothing)
        /\ needsFastClick' = (el \notin NoFast)
        /\ focus' \in {Nothing, focus}
    BY <1>1 DEF TouchStart, TargetNeedsFastClick
  <2>2. CASE el \in NoFast
    <3>1. /\ trackClick' = FALSE /\ finger' = [on |-> el, prevented |-> FALSE]
          /\ targetElement' = targetElement
      BY <1>1, <2>2 DEF TouchStart, TargetNeedsFastClick
    <3>2. late' \in BOOLEAN /\ needsFastClick' = FALSE
      BY <2>1, <2>2
    <3>3. TapTypes'
      BY <1>0, <2>1, <3>1, <3>2 DEF TapTypes, TapKinds
    <3> QED
      BY <1>0, <1>1, <2>1, <2>2, <3>1, <3>2, <3>3
  <2>3. CASE el \notin NoFast
    <3>1. /\ trackClick' = TRUE /\ finger' = [on |-> el, prevented |-> recent]
          /\ targetElement' = el
      BY <1>1, <2>3 DEF TouchStart, TargetNeedsFastClick
    <3>2. late' \in BOOLEAN /\ needsFastClick' = TRUE
      BY <2>1, <2>3
    <3>3. TapTypes'
      <4>1. finger' \in [on : Elements \cup {Nothing}, prevented : BOOLEAN]
        BY <1>0, <3>1 DEF TapTypes
      <4> QED
        BY <1>0, <2>1, <3>1, <3>2, <4>1 DEF TapTypes, TapKinds
    <3> QED
      BY <1>0, <1>1, <2>1, <2>3, <3>1, <3>2, <3>3
  <2> QED
    BY <2>2, <2>3
<1>2. CASE TouchMove
  <2>1. /\ finger.on # Nothing /\ trackClick /\ trackClick' = FALSE /\ targetElement' = Nothing
        /\ isMoved' = TRUE /\ tap' = [tap EXCEPT !.kind = IF @ = "tap" THEN "moved" ELSE @]
        /\ UNCHANGED <<finger, needsFastClick, focus, recent, calming, orphan, native, late>>
    BY <1>2 DEF TouchMove, StopTracking
  <2>2. TapTypes'
    BY <1>0, <2>1 DEF TapTypes, TapKinds
  <2> QED
    BY <1>0, <2>1, <2>2 DEF TapTypes
<1>3. CASE TouchEnd
  <2>1. /\ finger.on # Nothing /\ finger' = [on |-> Nothing, prevented |-> FALSE]
        /\ finger.on \in Elements /\ tap.clicks = 0
        /\ UNCHANGED <<targetElement, isMoved, needsFastClick, late, orphan>>
    BY <1>0, <1>3 DEF TouchEnd, TapTypes
  <2>2. CASE /\ ~trackClick
             /\ IF needsFastClick THEN PreventClick(finger.on) ELSE BrowserClick(finger.on)
             /\ UNCHANGED <<trackClick, focus, recent, calming, orphan, tap>>
    <3>1. native' = IF needsFastClick \/ finger.prevented THEN native ELSE finger.on
      BY <2>2 DEF PreventClick, BrowserClick
    <3>2. TapTypes'
      BY <1>0, <2>1, <2>2, <3>1 DEF TapTypes
    <3> QED
      BY <1>0, <2>1, <2>2, <3>1, <3>2 DEF TapTypes
  <2>3. CASE /\ trackClick /\ focus = finger.on
             /\ BrowserClick(finger.on)
             /\ UNCHANGED <<trackClick, focus, recent, calming, orphan, tap>>
    <3>1. native' = IF finger.prevented THEN native ELSE finger.on
      BY <2>3 DEF BrowserClick
    <3>2. TapTypes'
      BY <1>0, <2>1, <2>3, <3>1 DEF TapTypes
    <3> QED
      BY <1>0, <2>1, <2>3, <3>1, <3>2 DEF TapTypes
  <2>4. CASE /\ trackClick /\ focus # finger.on /\ recent
             /\ PreventClick(finger.on)
             /\ tap' = [tap EXCEPT !.kind = IF @ = "tap" THEN "hasty" ELSE @]
             /\ UNCHANGED <<trackClick, focus, recent, calming>>
    <3>1. native' = native
      BY <2>4 DEF PreventClick
    <3>2. TapTypes'
      BY <1>0, <2>1, <2>4, <3>1 DEF TapTypes, TapKinds
    <3> QED
      BY <1>0, <2>1, <2>4, <3>1, <3>2 DEF TapTypes
  <2>5. CASE /\ trackClick /\ focus # finger.on /\ ~recent
             /\ recent' = TRUE /\ trackClick' = FALSE
             /\ focus' = IF TargetNeedsFocus(targetElement) THEN targetElement ELSE Nothing
             /\ PreventClick(finger.on)
             /\ Forward(targetElement)
    <3>1. native' = native /\ tap' = [tap EXCEPT !.clicks = @ + 1] /\ calming' \in {calming, TRUE}
      BY <2>5 DEF PreventClick, Forward
    <3>2. tap'.clicks = 1 /\ tap'.kind = tap.kind /\ tap' \in [kind : TapKinds, clicks : {0, 1}]
      BY <1>0, <2>1, <3>1 DEF TapTypes
    <3>3. focus' \in Inputs \cup {Nothing}
      BY <2>5 DEF TargetNeedsFocus
    <3>4. TapTypes'
      BY <1>0, <2>1, <2>5, <3>1, <3>2, <3>3 DEF TapTypes
    <3> QED
      BY <1>0, <2>1, <2>5, <3>1, <3>2, <3>4 DEF TapTypes
  <2> QED
    BY <1>3, <2>2, <2>3, <2>4, <2>5 DEF TouchEnd
<1>4. CASE TouchCancel
  <2>1. /\ finger.on # Nothing /\ finger' = [on |-> Nothing, prevented |-> FALSE]
        /\ trackClick' = FALSE /\ targetElement' = Nothing
        /\ tap' = [tap EXCEPT !.kind = IF @ \in {"tap", "hasty"} THEN "moved" ELSE @]
        /\ UNCHANGED <<isMoved, needsFastClick, focus, recent, calming, orphan, native, late>>
    BY <1>4 DEF TouchCancel
  <2>2. TapTypes'
    BY <1>0, <2>1 DEF TapTypes, TapKinds
  <2> QED
    BY <1>0, <2>1, <2>2 DEF TapTypes
<1>5. CASE HandleClick
  <2>1. TapTypes'
    <3>1. (orphan \/ calming) \in BOOLEAN
      OBVIOUS
    <3>2. trackClick' \in BOOLEAN /\ calming' \in BOOLEAN /\ orphan' \in BOOLEAN
      BY <1>0, <1>5, <3>1 DEF HandleClick, TapTypes
    <3>3. tap' \in [kind : TapKinds, clicks : {0, 1}]
      BY <1>0, <1>5 DEF HandleClick, TapTypes
    <3>4. /\ native' = Nothing /\ late' = FALSE
          /\ UNCHANGED <<finger, isMoved, needsFastClick, recent>>
          /\ focus' \in Inputs \cup {Nothing} /\ targetElement' \in Elements \cup {Nothing}
      BY <1>0, <1>5 DEF HandleClick, TapTypes
    <3> QED
      BY <1>0, <3>2, <3>3, <3>4 DEF TapTypes
  <2>2. LateIsKnown' /\ ClicksSoFar'
    BY <1>0, <1>5 DEF HandleClick, TapTypes
  <2> QED
    BY <1>0, <1>5, <2>1, <2>2 DEF HandleClick, AllowClick, TapTypes
<1>6. CASE Pause
  <2>1. /\ recent' = FALSE
        /\ UNCHANGED <<finger, trackClick, targetElement, isMoved, needsFastClick, focus,
                       calming, orphan, native, late, tap>>
    BY <1>6 DEF Pause
  <2>2. TapTypes'
    BY <1>0, <2>1 DEF TapTypes
  <2> QED
    BY <1>0, <2>1, <2>2
<1>7. CASE NeedsFastClickTimeOut
  <2>1. /\ calming /\ native = Nothing /\ needsFastClick' = FALSE /\ calming' = FALSE
        /\ UNCHANGED <<finger, trackClick, targetElement, isMoved, focus, recent, native, late>>
        /\ UNCHANGED <<orphan, tap>>
    BY <1>7 DEF NeedsFastClickTimeOut
  <2>2. TapTypes'
    BY <1>0, <2>1 DEF TapTypes
  <2> QED
    BY <1>0, <2>1, <2>2 DEF TapTypes
<1>8. CASE OrphanTimeOut
  <2>1. /\ native = Nothing /\ orphan' = FALSE /\ needsFastClick' = FALSE
        /\ tap' = [tap EXCEPT !.kind = "crossed"]
        /\ UNCHANGED <<finger, trackClick, targetElement, isMoved, focus, recent, calming,
                       native, late>>
    BY <1>8 DEF OrphanTimeOut
  <2>2. TapTypes'
    BY <1>0, <2>1 DEF TapTypes, TapKinds
  <2> QED
    BY <1>0, <2>1, <2>2 DEF TapTypes
<1>9. CASE ScriptBlurs
  <2>1. /\ focus' = Nothing
        /\ UNCHANGED <<finger, trackClick, targetElement, isMoved, needsFastClick, recent,
                       calming, orphan, native, late, tap>>
    BY <1>9 DEF ScriptBlurs
  <2> QED
    BY <1>0, <2>1 DEF TapTypes
<1>10. CASE UNCHANGED tapVars
  BY <1>0, <1>10 DEF tapVars, TapTypes
<1> QED
  BY <1>1, <1>2, <1>3, <1>4, <1>5, <1>6, <1>7, <1>8, <1>9, <1>10 DEF TapNext

(* TapInv holds in every state. *)
LEMMA TapInvHolds == TapSpec => []TapInv
<1>1. TapInit => TapInv
  <2> SUFFICES ASSUME TapInit PROVE TapInv
    OBVIOUS
  <2>1. /\ finger = [on |-> Nothing, prevented |-> FALSE]
        /\ trackClick = FALSE /\ targetElement = Nothing
        /\ isMoved = FALSE /\ needsFastClick = FALSE /\ focus = Nothing
        /\ recent = FALSE /\ calming = FALSE /\ orphan = FALSE
        /\ native = Nothing /\ late = FALSE
        /\ tap = [kind |-> "none", clicks |-> 0]
    BY DEF TapInit
  <2>2. TapTypes
    BY <2>1 DEF TapTypes, TapKinds
  <2>3. tap.kind = "none" /\ tap.clicks = 0 /\ finger.on = Nothing
    BY <2>1
  <2> QED
    BY <2>1, <2>2, <2>3 DEF TapInv, LateIsKnown, ClicksSoFar, TapKnown
<1> QED
  BY <1>1, TapStepKeepsInv, PTL DEF TapSpec

(***************************************************************************)
(* TapsMeanClicks: for any elements, and touches however fast and wherever *)
(* they move, a tap has led to exactly one click when all is over, a touch *)
(* that moved to none, and no touch to two.                                *)
(***************************************************************************)
THEOREM TapsMeanClicks == TapSpec => []TapMeansClick
<1>1. TapInv => TapMeansClick
  <2> SUFFICES ASSUME TapInv, finger.on = Nothing, native = Nothing
               PROVE  /\ tap.kind = "tap" => tap.clicks = 1
                      /\ tap.kind = "moved" => tap.clicks = 0
                      /\ tap.clicks <= 1
    BY DEF TapMeansClick
  <2>1. tap.clicks \in {0, 1}
    BY DEF TapInv, TapTypes
  <2> QED
    BY <2>1 DEF TapInv, TapKnown
<1> QED
  BY <1>1, TapInvHolds, PTL

-----------------------------------------------------------------------------
(***************************************************************************)
(* Smart selects and the stored form (module FormPage).  ChoiceShown and   *)
(* FormReturns need of each other that a select that takes one option has  *)
(* one at most, in the document, in the form and in what is stored, and    *)
(* that what is stored was stored by this form.                            *)
(***************************************************************************)

(* One element at the most, without counting. *)
AtMostOne(S) == \A o, p \in S : o = p

(* AtMostOne says what the code counts. *)
LEMMA AtMostOneIsCardinality ==
    ASSUME NEW S, IsFiniteSet(S)
    PROVE  Cardinality(S) <= 1 <=> AtMostOne(S)
<1>1. Cardinality(S) \in Nat
  BY FS_CardinalityType
<1>2. Cardinality(S) = 0 <=> S = {}
  BY FS_EmptySet
<1>3. Cardinality(S) = 1 <=> \E x : S = {x}
  BY FS_Singleton
<1>4. AtMostOne(S) <=> S = {} \/ \E x : S = {x}
  BY DEF AtMostOne
<1>5. Cardinality(S) <= 1 <=> Cardinality(S) = 0 \/ Cardinality(S) = 1
  BY <1>1
<1> QED
  BY <1>2, <1>3, <1>4, <1>5

(* The types of the variables. *)
FormTypes ==
    /\ html \in [options : SUBSET Options, data : Data, text : SUBSET Options]
    /\ kind \in [multiple : BOOLEAN, store : BOOLEAN, valued : BOOLEAN]
    /\ form \in Data /\ options \in SUBSET Options
    /\ beside \in SUBSET Options
    /\ page \in [open : BOOLEAN, listed : SUBSET Options, checked : SUBSET Options]
    /\ filled \in SUBSET {"store", "choice", "beside", "page"}
    /\ stored = NothingStored \/ stored \in [is : {TRUE}, data : Data]

(* What is selected is an option of the select, and one only when it takes
   one only. *)
Selected ==
    /\ html.data.chosen \subseteq html.options
    /\ form.chosen \subseteq options
    /\ page.listed \subseteq options /\ page.checked \subseteq page.listed
    /\ ~kind.multiple => AtMostOne(html.data.chosen) /\ AtMostOne(form.chosen)

(* What is stored was stored by this form, which stores. *)
StoredByTheForm ==
    stored.is => kind.store /\ (~kind.multiple => AtMostOne(stored.data.chosen))

(* FormInv is inductive. *)
FormInv == FormTypes /\ Selected /\ StoredByTheForm /\ ChoiceShown /\ FormReturns

(* formFromJSON field by field: boxes are set, an empty text leaves the one
   there is, and so does an empty choice of a select that takes one option. *)
LEMMA FormFromJSONFills ==
    ASSUME NEW data \in Data, NEW S \in SUBSET Options, NEW now \in Data
    PROVE  /\ FormFromJSON(data, S, now) \in Data
           /\ FormFromJSON(data, S, now).boxes = data.boxes
           /\ FormFromJSON(data, S, now).text =
                IF data.text = Empty THEN now.text ELSE data.text
           /\ FormFromJSON(data, S, now).chosen =
                IF data.chosen = {} /\ ~kind.multiple THEN now.chosen
                ELSE Select(S, data.chosen)
<1>1. Select(S, data.chosen) \in SUBSET Options
  BY DEF Select, Data
<1> DEFINE fields == FillFields(data, now)
<1>2. /\ fields \in Data /\ fields.boxes = data.boxes /\ fields.chosen = now.chosen
      /\ fields.text = IF data.text = Empty THEN now.text ELSE data.text
  BY DEF FillFields, Data
<1>3. FormFromJSON(data, S, now) =
        [fields EXCEPT !.chosen = IF data.chosen = {} /\ ~kind.multiple THEN @
                                  ELSE Select(S, data.chosen)]
  BY DEF FormFromJSON
<1> HIDE DEF fields
<1>4. now.chosen \in SUBSET Options
  BY DEF Data
<1> QED
  BY <1>1, <1>2, <1>3, <1>4 DEF Data

(* A select takes those values that are options of it. *)
LEMMA SelectKeeps ==
    ASSUME NEW S, NEW values
    PROVE  /\ Select(S, values) \subseteq S
           /\ values \subseteq S => Select(S, values) = values
           /\ AtMostOne(values) => AtMostOne(Select(S, values))
BY DEF Select, AtMostOne

(* The choice is of the options there are, and one when one is taken. *)
Suits(values, S) ==
    /\ values \in Data /\ S \in SUBSET Options
    /\ values.chosen \subseteq S /\ (~kind.multiple => AtMostOne(values.chosen))

(* Setting up a select changes its choice at most; unless a text that names
   no single option was there, text and choice then agree. *)
IsSetUp(values, text, S, result) ==
    /\ Suits(result, S)
    /\ result.text = values.text /\ result.boxes = values.boxes
    /\ TextBeside(text, result) \in SUBSET Options
    /\ "beside" \notin Unnamed(text, S) => TextBeside(text, result) = result.chosen

(* initSmartSelects sets a select up so. *)
LEMMA SetUpKeeps ==
    ASSUME NEW values, NEW text \in SUBSET Options, NEW S, Suits(values, S),
           NEW result \in SetUp(values, text, S)
    PROVE  IsSetUp(values, text, S, result)
<1> USE DEF Suits, IsSetUp
<1>1. CASE ~kind.valued
  BY <1>1 DEF SetUp, TextBeside, Data
<1>2. CASE kind.valued
  <2>1. PICK c \in ChosenBy(text, S) : result = [values EXCEPT !.chosen = c]
    BY <1>2 DEF SetUp
  <2>2. /\ c \subseteq S /\ (~kind.multiple => AtMostOne(c))
        /\ NamesOne(text, S) => c = text
    <3>1. CASE NamesOne(text, S)
      BY <3>1 DEF ChosenBy, NamesOne, AtMostOne
    <3>2. CASE ~NamesOne(text, S)
      <4>1. c = {} \/ (~kind.multiple /\ \E o \in S : c = {o})
        BY <3>2 DEF ChosenBy
      <4> QED
        BY <3>2, <4>1 DEF AtMostOne
    <3> QED
      BY <3>1, <3>2
  <2>3. /\ result \in Data /\ result.chosen = c
        /\ result.text = values.text /\ result.boxes = values.boxes
    BY <2>1, <2>2 DEF Data
  <2>4. "beside" \notin Unnamed(text, S) => NamesOne(text, S)
    BY <1>2 DEF Unnamed
  <2>5. TextBeside(text, result) = text
    BY <1>2 DEF TextBeside
  <2> QED
    BY <2>2, <2>3, <2>4, <2>5
<1> QED
  BY <1>1, <1>2

(* The page is set up, with what was stored. *)
LEMMA InitPageKeepsInv == FormInv /\ InitPage => FormInv'
<1> SUFFICES ASSUME FormInv, InitPage PROVE FormInv'
  OBVIOUS
<1> DEFINE kept == Initialised(stored)
<1>0. FormTypes /\ Selected /\ StoredByTheForm /\ FormReturns
  BY DEF FormInv
<1>1. /\ form' \in SetUp(kept, html.text, html.options)
      /\ options' = html.options /\ beside' = TextBeside(html.text, form')
      /\ filled' = Unnamed(html.text, html.options) \cup
                      IF form'.chosen = kept.chosen THEN {} ELSE {"choice"}
      /\ page' = NoPage /\ html' = html /\ kind' = kind /\ stored' = stored
  BY DEF InitPage
<1>2. /\ html.options \in SUBSET Options /\ html.data \in Data /\ html.text \in SUBSET Options
      /\ html.data.chosen \subseteq html.options
      /\ ~kind.multiple => AtMostOne(html.data.chosen)
  BY <1>0 DEF FormTypes, Selected
<1>3. page'.open = FALSE /\ page'.listed = {} /\ page'.checked = {}
  BY <1>1 DEF NoPage
<1>4. /\ kept \in Data /\ kept.chosen \subseteq html.options
      /\ ~kind.multiple => AtMostOne(kept.chosen)
      /\ stored.is =>
           /\ kept.boxes = stored.data.boxes
           /\ stored.data.text # Empty => kept.text = stored.data.text
           /\ stored.data.chosen \subseteq html.options
                /\ (kind.multiple \/ stored.data.chosen # {}) => kept.chosen = stored.data.chosen
  <2>1. CASE stored.is
    <3>1. kind.store /\ stored.data \in Data /\ (~kind.multiple => AtMostOne(stored.data.chosen))
      <4>1. stored # NothingStored
        BY <2>1 DEF NothingStored
      <4> QED
        BY <1>0, <2>1, <4>1 DEF FormTypes, StoredByTheForm
    <3>2. kept = FormFromJSON(stored.data, html.options, html.data)
      BY <2>1, <3>1 DEF Initialised
    <3>3. /\ kept \in Data /\ kept.boxes = stored.data.boxes
          /\ kept.text = IF stored.data.text = Empty THEN html.data.text ELSE stored.data.text
          /\ kept.chosen = IF stored.data.chosen = {} /\ ~kind.multiple THEN html.data.chosen
                           ELSE Select(html.options, stored.data.chosen)
      BY <1>2, <3>1, <3>2, FormFromJSONFills
    <3> HIDE DEF kept
    <3>4. kept.chosen \subseteq html.options /\ (~kind.multiple => AtMostOne(kept.chosen))
      BY <1>2, <3>1, <3>3, SelectKeeps
    <3> QED
      BY <3>3, <3>4, SelectKeeps
  <2>2. CASE ~stored.is
    BY <1>2, <2>2 DEF Initialised
  <2> QED
    BY <2>1, <2>2
<1> HIDE DEF kept
<1>5. /\ form' \in Data /\ form'.text = kept.text /\ form'.boxes = kept.boxes
      /\ form'.chosen \subseteq html.options
      /\ ~kind.multiple => AtMostOne(form'.chosen)
      /\ beside' \in SUBSET Options
      /\ "beside" \notin filled' => beside' = form'.chosen
  <2>1. Suits(kept, html.options) /\ html.text \in SUBSET Options
    BY <1>2, <1>4 DEF Suits
  <2>2. IsSetUp(kept, html.text, html.options, form')
    BY <1>1, <2>1, SetUpKeeps
  <2> QED
    BY <1>1, <2>2 DEF IsSetUp, Suits
<1>6. /\ filled' \in SUBSET {"store", "choice", "beside", "page"}
      /\ "choice" \notin filled' => form'.chosen = kept.chosen
  BY <1>1 DEF Unnamed
<1>7. FormTypes'
  BY <1>0, <1>1, <1>2, <1>5, <1>6 DEF FormTypes, NoPage
<1>8. Selected'
  BY <1>0, <1>1, <1>2, <1>3, <1>5 DEF Selected
<1>9. FormReturns'
  BY <1>1, <1>4, <1>5, <1>6 DEF FormReturns
<1>10. StoredByTheForm' /\ ChoiceShown'
  BY <1>0, <1>1, <1>3, <1>5 DEF StoredByTheForm, ChoiceShown
<1> QED
  BY <1>7, <1>8, <1>9, <1>10 DEF FormInv

(* A change stores the form as it is now. *)
LEMMA StoredAsItIs ==
    ASSUME FormTypes, StoredByTheForm, StoreForm, kind' = kind, form' \in Data,
           ~kind.multiple => AtMostOne(form'.chosen)
    PROVE  /\ stored' = NothingStored \/ stored' \in [is : {TRUE}, data : Data]
           /\ StoredByTheForm' /\ FormReturns'
<1>1. CASE kind.store
  <2>1. stored' = [is |-> TRUE, data |-> form']
    BY <1>1 DEF StoreForm, FormToJSON
  <2> QED
    BY <1>1, <2>1 DEF StoredByTheForm, FormReturns
<1>2. CASE ~kind.store
  <2>1. stored' = stored /\ ~stored.is
    BY <1>2 DEF StoreForm, StoredByTheForm
  <2> QED
    BY <2>1 DEF FormTypes, StoredByTheForm, FormReturns
<1> QED
  BY <1>1, <1>2

(* A change of the text or of a check box keeps FormInv. *)
LEMMA ChangesKeepInv ==
    ASSUME FormInv,
           \/ \E v \in Texts \cup {Empty} : ChangeText(v)
           \/ \E b \in Boxes : ChangeBox(b)
    PROVE  FormInv'
<1>0. FormTypes /\ Selected /\ StoredByTheForm /\ ChoiceShown
  BY DEF FormInv
<1>1. /\ form' \in Data /\ form'.chosen = form.chosen
      /\ StoreForm /\ filled' = filled \ {"store", "choice"} /\ html' = html /\ kind' = kind
      /\ options' = options /\ beside' = beside /\ page' = page
  <2>1. ASSUME NEW v \in Texts \cup {Empty}, ChangeText(v)
        PROVE form' \in Data /\ form'.chosen = form.chosen
    BY <1>0, <2>1 DEF ChangeText, FormTypes, Data
  <2>2. ASSUME NEW b \in Boxes, ChangeBox(b)
        PROVE form' \in Data /\ form'.chosen = form.chosen
    BY <1>0, <2>2 DEF ChangeBox, FormTypes, Data
  <2> QED
    BY <2>1, <2>2 DEF ChangeText, ChangeBox
<1>2. ~kind.multiple => AtMostOne(form'.chosen)
  BY <1>0, <1>1 DEF Selected
<1>3. /\ stored' = NothingStored \/ stored' \in [is : {TRUE}, data : Data]
      /\ StoredByTheForm' /\ FormReturns'
  BY <1>0, <1>1, <1>2, StoredAsItIs
<1>4. FormTypes'
  BY <1>0, <1>1, <1>3 DEF FormTypes
<1>5. Selected' /\ ChoiceShown'
  BY <1>0, <1>1 DEF Selected, ChoiceShown
<1> QED
  BY <1>3, <1>4, <1>5 DEF FormInv

(* So do the steps that leave the form alone, and the set-up of the select, *)
LEMMA OptionsPageKeepsInv ==
    FormInv /\ (SmartSelectOpen \/ LeaveOptions \/ InitSmartSelects \/ FormDeleteData) => FormInv'
<1> SUFFICES ASSUME FormInv,
                    SmartSelectOpen \/ LeaveOptions \/ InitSmartSelects \/ FormDeleteData
             PROVE  FormInv'
  OBVIOUS
<1>0. FormTypes /\ Selected /\ StoredByTheForm /\ ChoiceShown /\ FormReturns
  BY DEF FormInv
<1>1. CASE SmartSelectOpen
  <2>1. /\ page' = [open |-> TRUE, listed |-> options, checked |-> form.chosen]
        /\ filled' = filled \ {"page"}
        /\ UNCHANGED <<html, kind, form, options, beside, stored>>
    BY <1>1 DEF SmartSelectOpen, OpenedPage
  <2>2. FormTypes'
    BY <1>0, <2>1 DEF FormTypes, Data
  <2>3. Selected'
    BY <1>0, <2>1 DEF Selected
  <2> QED
    BY <1>0, <2>1, <2>2, <2>3 DEF FormInv, StoredByTheForm, ChoiceShown, FormReturns
<1>2. CASE LeaveOptions
  <2>1. page' = NoPage /\ UNCHANGED <<html, kind, form, options, beside, stored, filled>>
    BY <1>2 DEF LeaveOptions
  <2>2. page'.open = FALSE /\ page'.listed = {} /\ page'.checked = {}
    BY <2>1 DEF NoPage
  <2>3. FormTypes'
    BY <1>0, <2>1 DEF FormTypes, NoPage
  <2>4. Selected'
    BY <1>0, <2>1, <2>2 DEF Selected
  <2> QED
    BY <1>0, <2>1, <2>2, <2>3, <2>4 DEF FormInv, StoredByTheForm, ChoiceShown, FormReturns
<1>3. CASE InitSmartSelects
  <2>1. /\ form' \in SetUp(form, beside, options) /\ beside' = TextBeside(beside, form')
        /\ filled' = (filled \ {"beside"}) \cup Unnamed(beside, options)
                     \cup IF form'.chosen = form.chosen THEN {} ELSE {"choice", "page"}
        /\ UNCHANGED <<html, kind, options, page, stored>>
    BY <1>3 DEF InitSmartSelects
  <2>2. /\ form \in Data /\ beside \in SUBSET Options /\ options \in SUBSET Options
        /\ form.chosen \subseteq options /\ (~kind.multiple => AtMostOne(form.chosen))
    BY <1>0 DEF FormTypes, Selected
  <2>3. /\ form' \in Data /\ form'.text = form.text /\ form'.boxes = form.boxes
        /\ form'.chosen \subseteq options /\ (~kind.multiple => AtMostOne(form'.chosen))
        /\ beside' \in SUBSET Options
        /\ "beside" \notin filled' => beside' = form'.chosen
    <3>1. Suits(form, options)
      BY <2>2 DEF Suits
    <3>2. IsSetUp(form, beside, options, form')
      BY <2>1, <2>2, <3>1, SetUpKeeps
    <3> QED
      BY <2>1, <3>2 DEF IsSetUp, Suits
  <2>4. /\ filled' \in SUBSET {"store", "choice", "beside", "page"}
        /\ "store" \notin filled' => "store" \notin filled
        /\ "choice" \notin filled' => "choice" \notin filled /\ form'.chosen = form.chosen
        /\ "page" \notin filled' => "page" \notin filled /\ form'.chosen = form.chosen
    BY <1>0, <2>1 DEF Unnamed, FormTypes
  <2>5. FormTypes'
    BY <1>0, <2>1, <2>3, <2>4 DEF FormTypes
  <2>6. Selected' /\ StoredByTheForm'
    BY <1>0, <2>1, <2>3 DEF Selected, StoredByTheForm
  <2>7. ChoiceShown'
    BY <1>0, <2>1, <2>3, <2>4 DEF ChoiceShown
  <2>8. FormReturns'
    BY <1>0, <2>1, <2>3, <2>4 DEF FormReturns
  <2> QED
    BY <2>5, <2>6, <2>7, <2>8 DEF FormInv
<1>4. CASE FormDeleteData
  <2>1. /\ stored' = NothingStored /\ ~stored'.is
        /\ UNCHANGED <<html, kind, form, options, beside, page, filled>>
    BY <1>4 DEF FormDeleteData, NothingStored
  <2>2. FormTypes'
    BY <1>0, <2>1 DEF FormTypes
  <2>3. Selected'
    BY <1>0, <2>1 DEF Selected
  <2> QED
    BY <1>0, <2>1, <2>2, <2>3 DEF FormInv, StoredByTheForm, ChoiceShown, FormReturns
<1> QED
  BY <1>1, <1>2, <1>3, <1>4

(* a check box on the page of options, *)
LEMMA CheckOptionKeepsInv ==
    ASSUME FormInv, NEW o \in Options, CheckOption(o)
    PROVE  FormInv'
<1>0. FormTypes /\ Selected /\ StoredByTheForm /\ ChoiceShown
  BY DEF FormInv
<1> DEFINE checked == (page.checked \ {o}) \cup ({o} \ page.checked)
<1>1. /\ page.open /\ kind.multiple /\ o \in page.listed
      /\ page' = [page EXCEPT !.checked = checked]
      /\ form' = [form EXCEPT !.chosen = IF o \in checked THEN @ \cup {o} ELSE @ \ {o}]
      /\ beside' = form'.chosen /\ StoreForm /\ filled' = filled \ {"store", "choice", "beside"}
      /\ UNCHANGED <<html, kind, options>>
  BY DEF CheckOption
<1>2. checked \in SUBSET Options /\ checked \subseteq page.listed
  BY <1>0, <1>1 DEF FormTypes, Selected
<1>3. o \in checked <=> o \notin page.checked
  OBVIOUS
<1>4. form'.chosen = IF o \in checked THEN form.chosen \cup {o} ELSE form.chosen \ {o}
  BY <1>0, <1>1 DEF FormTypes, Data
<1>5. page.checked = form.chosen => checked = form'.chosen
  BY <1>3, <1>4
<1> HIDE DEF checked
<1>6. /\ form' \in Data /\ form'.chosen \subseteq options /\ form'.chosen \in SUBSET Options
  <2>1. form'.chosen \in SUBSET Options
    BY <1>0, <1>4 DEF FormTypes, Data
  <2> QED
    BY <1>0, <1>1, <1>4, <2>1 DEF FormTypes, Selected, Data
<1>7. page'.open = page.open /\ page'.listed = page.listed /\ page'.checked = checked
  BY <1>0, <1>1 DEF FormTypes
<1>8. /\ stored' = NothingStored \/ stored' \in [is : {TRUE}, data : Data]
      /\ StoredByTheForm' /\ FormReturns'
  BY <1>0, <1>1, <1>6, StoredAsItIs
<1>9. FormTypes'
  BY <1>0, <1>1, <1>2, <1>6, <1>8 DEF FormTypes
<1>10. Selected'
  BY <1>0, <1>1, <1>2, <1>6, <1>7 DEF Selected
<1>11. ChoiceShown'
  BY <1>0, <1>1, <1>5, <1>7 DEF ChoiceShown
<1> QED
  BY <1>8, <1>9, <1>10, <1>11 DEF FormInv

(* a radio button there, *)
LEMMA PickOptionKeepsInv ==
    ASSUME FormInv, NEW o \in Options, PickOption(o)
    PROVE  FormInv'
<1>0. FormTypes /\ Selected /\ StoredByTheForm
  BY DEF FormInv
<1>1. /\ page.open /\ ~kind.multiple /\ o \in page.listed
      /\ form' = [form EXCEPT !.chosen = {o}]
      /\ page' \in {NoPage, [page EXCEPT !.checked = {o}]}
      /\ beside' = {o} /\ StoreForm /\ filled' = {}
      /\ UNCHANGED <<html, kind, options>>
  BY DEF PickOption
<1>2. form' \in Data /\ form'.chosen = {o} /\ AtMostOne(form'.chosen) /\ o \in options
  BY <1>0, <1>1 DEF FormTypes, Data, AtMostOne, Selected
<1>3. /\ page' \in [open : BOOLEAN, listed : SUBSET Options, checked : SUBSET Options]
      /\ page'.listed \subseteq options /\ page'.checked \subseteq page'.listed
      /\ page'.open => page'.checked = {o}
  <2>1. CASE page' = NoPage
    BY <2>1 DEF NoPage
  <2>2. CASE page' = [page EXCEPT !.checked = {o}]
    BY <1>0, <1>1, <2>2 DEF FormTypes, Selected
  <2> QED
    BY <1>1, <2>1, <2>2
<1>4. /\ stored' = NothingStored \/ stored' \in [is : {TRUE}, data : Data]
      /\ StoredByTheForm' /\ FormReturns'
  BY <1>0, <1>1, <1>2, StoredAsItIs
<1>5. FormTypes'
  BY <1>0, <1>1, <1>2, <1>3, <1>4 DEF FormTypes
<1>6. Selected'
  BY <1>0, <1>1, <1>2, <1>3 DEF Selected
<1>7. ChoiceShown'
  BY <1>1, <1>2, <1>3 DEF ChoiceShown
<1> QED
  BY <1>4, <1>5, <1>6, <1>7 DEF FormInv

(* an option added by a script, with the page of options open or not, *)
LEMMA AddOptionKeepsInv ==
    ASSUME FormInv, NEW o \in Options, NEW busy \in BOOLEAN, SmartSelectAddOption(o, busy)
    PROVE  FormInv'
<1>0. FormTypes /\ Selected /\ StoredByTheForm /\ ChoiceShown /\ FormReturns
  BY DEF FormInv
<1>1. /\ options' = options \cup {o} /\ beside' = TextBeside(beside, form')
      /\ UNCHANGED <<html, kind, stored>>
      /\ options' \in SUBSET Options /\ beside \in SUBSET Options
  BY <1>0 DEF SmartSelectAddOption, FormTypes
<1>2. /\ page' = IF page.open /\ ~busy
                 THEN [open |-> TRUE, listed |-> options', checked |-> form'.chosen] ELSE page
      /\ filled' = (filled \ ({"beside"} \cup IF busy THEN {} ELSE {"page"}))
                  \cup Unnamed(beside, options')
                  \cup IF form'.chosen = form.chosen THEN {}
                       ELSE {"choice"} \cup IF busy THEN {"page"} ELSE {}
  BY DEF SmartSelectAddOption, OpenedPage
<1>3. PICK values \in WithOption(o) : form' \in SetUp(values, beside, options')
  BY DEF SmartSelectAddOption
<1>4. /\ values \in Data /\ values.text = form.text /\ values.boxes = form.boxes
      /\ values.chosen \subseteq options' /\ (~kind.multiple => AtMostOne(values.chosen))
  <2>1. CASE values = form
    BY <1>0, <1>1, <2>1 DEF FormTypes, Selected
  <2>2. CASE \E p \in options' : values = [form EXCEPT !.chosen = {p}]
    <3>1. PICK p \in options' : values = [form EXCEPT !.chosen = {p}]
      BY <2>2
    <3>2. /\ values \in Data /\ values.chosen = {p}
          /\ values.text = form.text /\ values.boxes = form.boxes
      BY <1>0, <1>1, <3>1 DEF FormTypes, Data
    <3> QED
      BY <1>1, <3>2 DEF AtMostOne
  <2> QED
    BY <1>1, <1>3, <2>1, <2>2 DEF WithOption
<1>5. /\ form' \in Data /\ form'.text = form.text /\ form'.boxes = form.boxes
      /\ form'.chosen \subseteq options' /\ (~kind.multiple => AtMostOne(form'.chosen))
      /\ beside' \in SUBSET Options
      /\ "beside" \notin filled' => beside' = form'.chosen
  <2>1. Suits(values, options') /\ beside \in SUBSET Options
    BY <1>1, <1>4 DEF Suits
  <2>2. IsSetUp(values, beside, options', form')
    BY <1>3, <2>1, SetUpKeeps
  <2> QED
    BY <1>1, <1>2, <1>4, <2>2 DEF IsSetUp, Suits
<1>6. form'.chosen \in SUBSET Options
  BY <1>1, <1>5
<1>7. /\ filled' \in SUBSET {"store", "choice", "beside", "page"}
      /\ "store" \notin filled' => "store" \notin filled
      /\ "choice" \notin filled' => "choice" \notin filled /\ form'.chosen = form.chosen
      /\ busy /\ "page" \notin filled' => "page" \notin filled /\ form'.chosen = form.chosen
  BY <1>0, <1>2 DEF Unnamed, FormTypes
<1>8. /\ page' \in [open : BOOLEAN, listed : SUBSET Options, checked : SUBSET Options]
      /\ page'.listed \subseteq options' /\ page'.checked \subseteq page'.listed
      /\ page'.open /\ "page" \notin filled' => page'.checked = form'.chosen
  <2>1. CASE page.open /\ ~busy
    BY <1>1, <1>2, <1>5, <1>6, <2>1
  <2>2. CASE ~(page.open /\ ~busy)
    <3>1. page' = page
      BY <1>2, <2>2
    <3>2. page.open /\ "page" \notin filled' => form'.chosen = form.chosen /\ "page" \notin filled
      BY <1>7, <2>2
    <3> QED
      BY <1>0, <1>1, <3>1, <3>2 DEF FormTypes, Selected, ChoiceShown
  <2> QED
    BY <2>1, <2>2
<1>9. FormTypes'
  BY <1>0, <1>1, <1>5, <1>7, <1>8 DEF FormTypes
<1>10. Selected'
  BY <1>0, <1>1, <1>5, <1>8 DEF Selected
<1>11. StoredByTheForm' /\ FormReturns'
  BY <1>0, <1>1, <1>5, <1>7 DEF StoredByTheForm, FormReturns
<1>12. ChoiceShown'
  BY <1>5, <1>8 DEF ChoiceShown
<1> QED
  BY <1>9, <1>10, <1>11, <1>12 DEF FormInv

(* and a script that fills the form. *)
LEMMA FillFormKeepsInv ==
    ASSUME FormInv, NEW data \in Given, FillForm(data)
    PROVE  FormInv'
<1>0. FormTypes /\ Selected /\ StoredByTheForm /\ ChoiceShown
  BY DEF FormInv
<1>1. /\ kind.multiple \/ Cardinality(data.chosen) <= 1
      /\ form' = FormFromJSON(data, options, form)
      /\ filled' = {"store"} \cup IF form'.chosen = form.chosen THEN filled
                                  ELSE {"beside", "page"}
      /\ UNCHANGED <<html, kind, options, beside, page, stored>>
  BY DEF FillForm
<1>2. data \in Data /\ form \in Data /\ options \in SUBSET Options
  BY <1>0 DEF FormTypes, Given
<1>3. /\ form' \in Data
      /\ form'.chosen = IF data.chosen = {} /\ ~kind.multiple THEN form.chosen
                        ELSE Select(options, data.chosen)
  BY <1>1, <1>2, FormFromJSONFills
<1>4. IsFiniteSet(data.chosen)
  <2>1. data.chosen \in SUBSET Options
    BY <1>2 DEF Data
  <2> QED
    BY <2>1, FormAssumption, FS_Subset
<1>5. ~kind.multiple => AtMostOne(data.chosen)
  BY <1>1, <1>4, AtMostOneIsCardinality
<1>6. form'.chosen \subseteq options /\ (~kind.multiple => AtMostOne(form'.chosen))
  BY <1>0, <1>3, <1>5, SelectKeeps DEF Selected
<1>7. FormTypes'
  BY <1>0, <1>1, <1>3 DEF FormTypes
<1>8. Selected'
  BY <1>0, <1>1, <1>6 DEF Selected
<1>9. "store" \in filled'
  BY <1>1
<1>10. ChoiceShown'
  BY <1>0, <1>1 DEF ChoiceShown
<1> QED
  BY <1>0, <1>1, <1>7, <1>8, <1>9, <1>10 DEF FormInv, StoredByTheForm, FormReturns

(* Every step keeps FormInv. *)
LEMMA FormInvInductive == FormInv /\ [FormNext]_formVars => FormInv'
<1> SUFFICES ASSUME FormInv, [FormNext]_formVars PROVE FormInv'
  OBVIOUS
<1>1. CASE UNCHANGED formVars
  BY <1>1 DEF FormInv, FormTypes, Selected, StoredByTheForm, ChoiceShown, FormReturns, formVars
<1>2. CASE FormNext
  BY <1>2, InitPageKeepsInv, ChangesKeepInv, OptionsPageKeepsInv, CheckOptionKeepsInv,
     PickOptionKeepsInv, AddOptionKeepsInv, FillFormKeepsInv DEF FormNext
<1> QED
  BY <1>1, <1>2

(* FormInv holds in every state. *)
LEMMA FormInvHolds == FormSpec => []FormInv
<1>1. FormInit => FormInv
  <2> SUFFICES ASSUME FormInit PROVE FormInv
    OBVIOUS
  <2>1. PICK S \in {Options, {CHOOSE o \in Options : TRUE}} :
          html \in [options : {S},
                    data : {d \in Given : d.chosen \in MayChoose(S)},
                    text : IF kind.valued THEN SUBSET Options ELSE {{}}]
    BY DEF FormInit
  <2>2. S \in SUBSET Options
    BY FormAssumption
  <2>3. /\ html.options = S /\ html.data \in Data /\ html.data.chosen \in MayChoose(S)
        /\ html.text \in SUBSET Options
        /\ html \in [options : SUBSET Options, data : Data, text : SUBSET Options]
    BY <2>1, <2>2 DEF Given
  <2>4. html.data.chosen \subseteq S /\ (~kind.multiple => AtMostOne(html.data.chosen))
    BY <2>3 DEF MayChoose, AtMostOne
  <2>5. /\ kind \in [multiple : BOOLEAN, store : BOOLEAN, valued : BOOLEAN]
        /\ form \in SetUp(html.data, html.text, S) /\ options = S
        /\ beside = TextBeside(html.text, form) /\ filled = Unnamed(html.text, S)
        /\ page = NoPage /\ stored = NothingStored
    BY <2>3 DEF FormInit
  <2>6. ~page.open /\ page.listed = {} /\ page.checked = {} /\ ~stored.is
    BY <2>5 DEF NoPage, NothingStored
  <2>7. /\ form \in Data /\ form.chosen \subseteq S /\ (~kind.multiple => AtMostOne(form.chosen))
        /\ beside \in SUBSET Options
        /\ "beside" \notin filled => beside = form.chosen
    <3>1. Suits(html.data, S)
      BY <2>2, <2>3, <2>4 DEF Suits
    <3>2. IsSetUp(html.data, html.text, S, form)
      BY <2>3, <2>5, <3>1, SetUpKeeps
    <3> QED
      BY <2>5, <3>2 DEF IsSetUp, Suits
  <2>8. filled \in SUBSET {"store", "choice", "beside", "page"}
    BY <2>5 DEF Unnamed
  <2>9. FormTypes
    BY <2>2, <2>3, <2>5, <2>7, <2>8 DEF FormTypes, NoPage
  <2>10. Selected
    BY <2>3, <2>4, <2>5, <2>6, <2>7 DEF Selected
  <2> QED
    BY <2>6, <2>7, <2>9, <2>10 DEF FormInv, StoredByTheForm, ChoiceShown, FormReturns
<1> QED
  BY <1>1, FormInvInductive, PTL DEF FormSpec

(***************************************************************************)
(* FormTypeCorrect: in every state of the form's page its variables have   *)
(* their types, what is selected is an option, and a select that takes one *)
(* option has one at most.                                                 *)
(***************************************************************************)
THEOREM FormTypeCorrect == FormSpec => []FormTypeOK
<1>1. FormInv => FormTypeOK
  <2> SUFFICES ASSUME FormInv PROVE FormTypeOK
    OBVIOUS
  <2>1. FormTypes /\ Selected
    BY DEF FormInv
  <2>2. IsFiniteSet(form.chosen)
    <3>1. form.chosen \in SUBSET Options
      BY <2>1 DEF FormTypes, Data
    <3> QED
      BY <3>1, FormAssumption, FS_Subset
  <2>3. ~kind.multiple => Cardinality(form.chosen) <= 1
    BY <2>1, <2>2, AtMostOneIsCardinality DEF Selected
  <2>4. stored.is \in BOOLEAN /\ (stored.is => stored.data \in Data)
    <3>1. CASE stored = NothingStored
      BY <3>1 DEF NothingStored
    <3>2. CASE stored \in [is : {TRUE}, data : Data]
      BY <3>2
    <3> QED
      BY <2>1, <3>1, <3>2 DEF FormTypes
  <2> QED
    BY <2>1, <2>3, <2>4 DEF FormTypeOK, FormTypes, Selected
<1> QED
  BY <1>1, FormInvHolds, PTL

(***************************************************************************)
(* SelectShowsChoice: for any options, with the page of options open,      *)
(* closed or opened again at any moment, the text beside a smart select    *)
(* and the open page show what is selected, unless a script has filled the *)
(* form since or the select was set up from a text that is not that of one *)
(* of its options.                                                         *)
(***************************************************************************)
THEOREM SelectShowsChoice == FormSpec => []ChoiceShown
<1>1. FormInv => ChoiceShown
  BY DEF FormInv
<1> QED
  BY <1>1, FormInvHolds, PTL

(***************************************************************************)
(* StoredFormReturns: after any changes and any loads of the page, a form  *)
(* that is stored has the boxes, the text and the choice that were stored  *)
(* last, as far as the document, its options and a text it chooses by      *)
(* allow.                                                                  *)
(***************************************************************************)
THEOREM StoredFormReturns == FormSpec => []FormReturns
<1>1. FormInv => FormReturns
  BY DEF FormInv
<1> QED
  BY <1>1, FormInvHolds, PTL

-----------------------------------------------------------------------------
(***************************************************************************)
(* Rows swiped open (module Swipeout).  That one row is open at the most   *)
(* holds because a touch on another row closes it first: so while a touch  *)
(* goes on no other row is open (NoOtherOpen), a close has its timer and   *)
(* its end of the slide (ClosingKnown), and the end of a slide that an     *)
(* earlier close waits for does not meet a row that was opened since       *)
(* (StaleKnown).  The latter three need that no row is taken up while it   *)
(* slides (hurried).                                                       *)
(***************************************************************************)

(* The states of a row. *)
RowStates == [opened : BOOLEAN, deleting : BOOLEAN, side : Sides \cup {"none"},
              buttons : Sides \cup {"none"}, slides : BOOLEAN]

(* The types of the rows: a row is open exactly when a side of it is. *)
RowTypes ==
    /\ DOMAIN swipeRows \subseteq Items
    /\ swipeRows \in [DOMAIN swipeRows -> RowStates]
    /\ \A r \in DOMAIN swipeRows : swipeRows[r].opened <=> swipeRows[r].side # "none"

(* The types of the other variables. *)
SwipeTypes ==
    /\ swipeout \in [openedEl : Items \cup {Nobody}, allow : BOOLEAN,
                     waits : SUBSET (Items \X {"onSwipeoutClose", "open", "close"}),
                     timers : SUBSET Items]
    /\ touch \in [isTouched : BOOLEAN, isMoved : BOOLEAN, el : Items \cup {Nobody},
                  on : Items \cup {Nobody, "elsewhere", "dialog"}, opened : BOOLEAN,
                  translate : Sides \cup {"zero"}, direction : Sides]
    /\ hurried \in BOOLEAN
    /\ swipes \in 0 .. MaxSwipes

(* A touch that is followed began on a row while rows could be swiped. *)
TouchKnown ==
    /\ touch.isTouched => touch.on \in Items /\ swipeout.allow
    /\ touch.isMoved => touch.isTouched /\ touch.el = touch.on

(* Rows cannot be swiped exactly while one timer runs, and a row that waits
   for the end of its slide after a close slides, is not open and has that
   timer. *)
ClosingKnown ==
    /\ swipeout.allow => swipeout.timers = {}
    /\ ~swipeout.allow => \E r \in Items : swipeout.timers = {r}
    /\ \A r \in DOMAIN swipeRows :
         /\ <<r, "onSwipeoutClose">> \in swipeout.waits =>
               swipeRows[r].slides /\ r \in swipeout.timers
         /\ r \in swipeout.timers => ~swipeRows[r].opened
         /\ swipeout.openedEl = r /\ swipeRows[r].opened => swipeout.allow

(* Where the end of a close is still waited for, the row is not about to be
   opened, and an open one slides and will not have its buttons cleared. *)
StaleKnown ==
    /\ touch.isMoved /\ <<touch.el, "close">> \in swipeout.waits => ~touch.opened
    /\ \A r \in DOMAIN swipeRows :
         swipeRows[r].opened /\ <<r, "close">> \in swipeout.waits =>
            swipeRows[r].slides /\ (swipeRows[r].deleting \/ ~touch.opened)

(* While a touch goes on no other row is open, and once it moves not even its
   own. *)
NoOtherOpen ==
    /\ touch.isTouched =>
          \A r \in DOMAIN swipeRows :
              swipeRows[r].opened /\ ~swipeRows[r].deleting => r = touch.on
    /\ touch.isMoved =>
          \A r \in DOMAIN swipeRows : r = touch.el => ~swipeRows[r].opened

(* SwipeInv is inductive. *)
SwipeInv ==
    /\ RowTypes /\ SwipeTypes /\ TouchKnown
    /\ ~hurried => ClosingKnown /\ StaleKnown /\ NoOtherOpen
    /\ OneRowOpen /\ OpenRowHasButtons

(* A step that changes one row leaves the others as they are. *)
LEMMA RowChanges ==
    ASSUME RowTypes, NEW r \in DOMAIN swipeRows, NEW new \in RowStates,
           new.opened <=> new.side # "none", swipeRows' = [swipeRows EXCEPT ![r] = new]
    PROVE  /\ RowTypes' /\ DOMAIN swipeRows' = DOMAIN swipeRows
           /\ swipeRows'[r] = new
           /\ \A q \in DOMAIN swipeRows : q # r => swipeRows'[q] = swipeRows[q]
<1>1. DOMAIN swipeRows' = DOMAIN swipeRows
  BY DEF RowTypes
<1>2. /\ swipeRows'[r] = new
      /\ \A q \in DOMAIN swipeRows : q # r => swipeRows'[q] = swipeRows[q]
  BY DEF RowTypes
<1>3. swipeRows' \in [DOMAIN swipeRows -> RowStates]
  BY DEF RowTypes
<1>4. \A q \in DOMAIN swipeRows : swipeRows'[q].opened <=> swipeRows'[q].side # "none"
  BY <1>2 DEF RowTypes
<1> QED
  BY <1>1, <1>2, <1>3, <1>4 DEF RowTypes

(* swipeoutClose of the row the list believes open: nothing happens, or the
   row is closed and a timer started. *)
LEMMA CloseEffect ==
    ASSUME RowTypes, SwipeTypes, swipeout.openedEl # Nobody,
           SwipeoutClose(swipeout.openedEl)
    PROVE  LET r == swipeout.openedEl IN
           \/ /\ r \notin DOMAIN swipeRows \/ ~swipeRows[r].opened
              /\ UNCHANGED <<swipeRows, swipeout>>
           \/ /\ r \in DOMAIN swipeRows /\ swipeRows[r].opened
              /\ RowTypes' /\ DOMAIN swipeRows' = DOMAIN swipeRows
              /\ \A q \in DOMAIN swipeRows : q # r => swipeRows'[q] = swipeRows[q]
              /\ ~swipeRows'[r].opened /\ swipeRows'[r].slides
              /\ swipeout' = [openedEl |-> Nobody, allow |-> FALSE,
                              waits |-> swipeout.waits \cup {<<r, "onSwipeoutClose">>},
                              timers |-> swipeout.timers \cup {r}]
<1> DEFINE r == swipeout.openedEl
<1>1. CASE r \notin DOMAIN swipeRows \/ ~swipeRows[r].opened
  BY <1>1 DEF SwipeoutClose
<1>2. CASE r \in DOMAIN swipeRows /\ swipeRows[r].opened
  <2> DEFINE new == [swipeRows[r] EXCEPT !.opened = FALSE, !.side = "none", !.slides = TRUE]
  <2>1. /\ swipeRows' = [swipeRows EXCEPT ![r].opened = FALSE, ![r].side = "none",
                                          ![r].slides = TRUE]
        /\ swipeout' = [Forbid(swipeout) EXCEPT
                            !.openedEl = IF @ = r THEN Nobody ELSE @,
                            !.waits = @ \cup {<<r, "onSwipeoutClose">>},
                            !.timers = @ \cup {r}]
    BY <1>2 DEF SwipeoutClose
  <2>2. swipeRows' = [swipeRows EXCEPT ![r] = new]
    BY <1>2, <2>1
  <2>3. new \in RowStates /\ ~new.opened /\ new.side = "none" /\ new.slides
    BY <1>2 DEF RowTypes, RowStates
  <2>4. swipeout' = [openedEl |-> Nobody, allow |-> FALSE,
                     waits |-> swipeout.waits \cup {<<r, "onSwipeoutClose">>},
                     timers |-> swipeout.timers \cup {r}]
    BY <2>1 DEF Forbid, SwipeTypes
  <2> HIDE DEF new
  <2>5. /\ RowTypes' /\ DOMAIN swipeRows' = DOMAIN swipeRows
        /\ swipeRows'[r] = new
        /\ \A q \in DOMAIN swipeRows : q # r => swipeRows'[q] = swipeRows[q]
    BY <1>2, <2>2, <2>3, RowChanges
  <2> QED
    BY <1>2, <2>3, <2>4, <2>5
<1> QED
  BY <1>1, <1>2

(* That close, by a touch elsewhere or by a button, keeps SwipeInv. *)
LEMMA CloseKeeps ==
    ASSUME SwipeInv, swipeout.openedEl # Nobody, SwipeoutClose(swipeout.openedEl),
           ~touch.isTouched, hurried' = hurried,
           ~touch'.isMoved, touch'.opened = touch.opened,
           touch' \in [isTouched : BOOLEAN, isMoved : BOOLEAN, el : Items \cup {Nobody},
                  on : Items \cup {Nobody, "elsewhere", "dialog"}, opened : BOOLEAN,
                  translate : Sides \cup {"zero"}, direction : Sides],
           touch'.isTouched => touch'.on \in Items /\ swipeout'.allow,
           swipes' \in 0 .. MaxSwipes
    PROVE  SwipeInv'
<1> DEFINE r == swipeout.openedEl
<1>0. RowTypes /\ SwipeTypes /\ r \in Items
  BY DEF SwipeInv, SwipeTypes
<1>1. CASE r \notin DOMAIN swipeRows \/ ~swipeRows[r].opened
  <2>1. UNCHANGED <<swipeRows, swipeout>>
    BY <1>1 DEF SwipeoutClose
  <2>2. RowTypes' /\ SwipeTypes'
    BY <1>0, <2>1 DEF RowTypes, SwipeTypes
  <2>3. ~hurried' => NoOtherOpen'
    BY <1>1, <2>1 DEF SwipeInv, OneRowOpen, NoOtherOpen
  <2> QED
    BY <2>1, <2>2, <2>3 DEF SwipeInv, TouchKnown, ClosingKnown, StaleKnown,
                            OneRowOpen, OpenRowHasButtons
<1>2. CASE r \in DOMAIN swipeRows /\ swipeRows[r].opened
  <2>1. /\ RowTypes' /\ DOMAIN swipeRows' = DOMAIN swipeRows
        /\ \A q \in DOMAIN swipeRows : q # r => swipeRows'[q] = swipeRows[q]
        /\ ~swipeRows'[r].opened /\ swipeRows'[r].slides
        /\ swipeout' = [openedEl |-> Nobody, allow |-> FALSE,
                        waits |-> swipeout.waits \cup {<<r, "onSwipeoutClose">>},
                        timers |-> swipeout.timers \cup {r}]
    BY <1>0, <1>2, CloseEffect
  <2>2. SwipeTypes'
    BY <1>0, <2>1 DEF SwipeTypes, SwipeInv
  <2>3. \A q \in DOMAIN swipeRows : q # Nobody
    BY <1>0, SwipeoutAssumption DEF RowTypes
  <2>4. /\ swipeout'.openedEl = Nobody /\ ~swipeout'.allow
        /\ swipeout'.waits = swipeout.waits \cup {<<r, "onSwipeoutClose">>}
        /\ swipeout'.timers = swipeout.timers \cup {r}
    BY <2>1
  <2>5. ~hurried => ClosingKnown'
    <3> SUFFICES ASSUME ~hurried PROVE ClosingKnown'
      OBVIOUS
    <3>1. ClosingKnown /\ swipeout.allow
      BY <1>2 DEF SwipeInv, ClosingKnown
    <3>2. swipeout'.timers = {r}
      BY <2>4, <3>1 DEF ClosingKnown
    <3>3. ASSUME NEW q \in DOMAIN swipeRows
          PROVE  <<q, "onSwipeoutClose">> \in swipeout'.waits => q = r
      BY <2>4, <3>1 DEF ClosingKnown
    <3> QED
      BY <1>0, <2>1, <2>3, <2>4, <3>2, <3>3 DEF ClosingKnown
  <2>6. ~hurried => \A q \in DOMAIN swipeRows : ~(swipeRows'[q].opened /\ ~swipeRows'[q].deleting)
    BY <2>1 DEF SwipeInv, OneRowOpen
  <2>7. ~hurried => StaleKnown'
    <3> SUFFICES ASSUME ~hurried PROVE StaleKnown'
      OBVIOUS
    <3>1. \A q : <<q, "close">> \in swipeout'.waits => <<q, "close">> \in swipeout.waits
      BY <2>4
    <3>2. StaleKnown
      BY DEF SwipeInv
    <3> QED
      BY <2>1, <2>6, <3>1, <3>2 DEF StaleKnown
  <2> QED
    BY <2>1, <2>2, <2>4, <2>5, <2>6, <2>7
       DEF SwipeInv, TouchKnown, NoOtherOpen, OneRowOpen, OpenRowHasButtons
<1> QED
  BY <1>1, <1>2

(* Each action keeps SwipeInv. *)
LEMMA SwipeTouchStartKeepsInv ==
    ASSUME SwipeInv, NEW target \in DOMAIN swipeRows \cup {"elsewhere", "dialog"},
           SwipeTouchStart(target)
    PROVE  SwipeInv'
<1>0. RowTypes /\ SwipeTypes /\ TouchKnown
  BY DEF SwipeInv
<1>1. /\ swipes < MaxSwipes /\ swipes' = swipes + 1 /\ touch.on = Nobody
      /\ hurried' = hurried
      /\ touch' = IF target \in DOMAIN swipeRows /\ swipeout'.allow
                  THEN [touch EXCEPT !.isTouched = TRUE, !.isMoved = FALSE, !.on = target]
                  ELSE [touch EXCEPT !.on = target]
  BY DEF SwipeTouchStart, Swiping
<1>2. swipes' \in 0 .. MaxSwipes
  BY <1>0, <1>1, SwipeoutAssumption DEF SwipeTypes
<1>3. ~touch.isTouched /\ ~touch.isMoved
  BY <1>0, <1>1, SwipeoutAssumption DEF TouchKnown
<1>4. /\ touch' \in [isTouched : BOOLEAN, isMoved : BOOLEAN, el : Items \cup {Nobody},
                     on : Items \cup {Nobody, "elsewhere", "dialog"}, opened : BOOLEAN,
                     translate : Sides \cup {"zero"}, direction : Sides]
      /\ ~touch'.isMoved /\ touch'.opened = touch.opened
      /\ touch'.isTouched => target \in DOMAIN swipeRows /\ touch'.on = target /\ swipeout'.allow
  BY <1>0, <1>1, <1>3 DEF SwipeTypes, RowTypes
<1>5. touch'.isTouched => touch'.on \in Items /\ swipeout'.allow
  BY <1>0, <1>4 DEF RowTypes
<1>6. CASE ClosesOpened(target)
  <2>1. swipeout.openedEl # Nobody /\ SwipeoutClose(swipeout.openedEl)
    BY <1>6 DEF SwipeTouchStart, ClosesOpened
  <2> QED
    BY <1>1, <1>2, <1>3, <1>4, <1>5, <2>1, CloseKeeps
<1>7. CASE ~ClosesOpened(target)
  <2>1. UNCHANGED <<swipeRows, swipeout>>
    BY <1>7 DEF SwipeTouchStart
  <2>2. RowTypes' /\ SwipeTypes'
    BY <1>0, <1>1, <1>2, <1>4, <2>1 DEF RowTypes, SwipeTypes
  <2>3. ~hurried => NoOtherOpen'
    <3> SUFFICES ASSUME ~hurried, touch'.isTouched, NEW q \in DOMAIN swipeRows,
                        swipeRows[q].opened, ~swipeRows[q].deleting
                 PROVE  q = target
      BY <1>4, <2>1 DEF NoOtherOpen
    <3>1. swipeout.openedEl = q /\ q \in Items
      BY <1>0 DEF SwipeInv, OneRowOpen, RowTypes
    <3>2. target \in Items
      BY <1>0, <1>4 DEF RowTypes
    <3>3. target \in {swipeout.openedEl, "dialog"}
      BY <1>7, <3>1, SwipeoutAssumption DEF ClosesOpened
    <3> QED
      BY <3>1, <3>2, <3>3, SwipeoutAssumption
  <2>4. TouchKnown'
    BY <1>4, <1>5 DEF TouchKnown
  <2> QED
    BY <1>1, <1>4, <2>1, <2>2, <2>3, <2>4
       DEF SwipeInv, ClosingKnown, StaleKnown, OneRowOpen, OpenRowHasButtons
<1> QED
  BY <1>6, <1>7

(* The finger scrolls the page: the touch is given up. *)
LEMMA SwipeScrollsKeepsInv == SwipeInv /\ SwipeScrolls => SwipeInv'
<1> SUFFICES ASSUME SwipeInv, SwipeScrolls PROVE SwipeInv'
  OBVIOUS
<1>1. /\ touch' = [touch EXCEPT !.isTouched = FALSE] /\ ~touch.isMoved
      /\ UNCHANGED <<swipeRows, swipeout, hurried, swipes>>
  BY DEF SwipeScrolls
<1>2. RowTypes' /\ SwipeTypes'
  BY <1>1 DEF SwipeInv, RowTypes, SwipeTypes
<1>3. ~touch'.isTouched /\ ~touch'.isMoved /\ touch'.opened = touch.opened
  BY <1>1 DEF SwipeInv, SwipeTypes
<1> QED
  BY <1>1, <1>2, <1>3 DEF SwipeInv, TouchKnown, ClosingKnown, StaleKnown, NoOtherOpen,
                          OneRowOpen, OpenRowHasButtons

(* The finger moves the row, the first move closing what is open. *)
LEMMA SwipeTouchMoveKeepsInv ==
    ASSUME SwipeInv, NEW translate \in Sides \cup {"zero"}, SwipeTouchMove(translate)
    PROVE  SwipeInv'
<1> DEFINE r == touch.on
           first == ~touch.isMoved
           opened == IF first THEN swipeRows[r].opened ELSE touch.opened
           wrong == translate # "zero" /\ translate \notin SidesOf(r)
           new == IF first THEN [swipeRows[r] EXCEPT !.opened = FALSE, !.side = "none",
                                                     !.slides = FALSE, !.buttons = "none"]
                  ELSE swipeRows[r]
<1>0. RowTypes /\ SwipeTypes /\ TouchKnown
  BY DEF SwipeInv
<1>1. /\ touch.isTouched /\ r \in DOMAIN swipeRows /\ r \in Items
      /\ hurried' = (hurried \/ (first /\ swipeRows[r].slides
                              /\ <<r, "onSwipeoutClose">> \notin swipeout.waits))
      /\ swipeRows' = [swipeRows EXCEPT ![r] = new]
      /\ swipeout' = swipeout /\ swipes' = swipes
  BY <1>0 DEF SwipeTouchMove, RowTypes
<1>2. /\ touch'.isMoved => touch'.isTouched
      /\ touch'.isTouched \in BOOLEAN /\ touch'.isMoved \in BOOLEAN
      /\ touch'.opened = opened /\ touch'.el = r /\ touch'.on = r
      /\ touch' \in [isTouched : BOOLEAN, isMoved : BOOLEAN, el : Items \cup {Nobody},
                     on : Items \cup {Nobody, "elsewhere", "dialog"}, opened : BOOLEAN,
                     translate : Sides \cup {"zero"}, direction : Sides]
  <2>1. opened \in BOOLEAN
    BY <1>0, <1>1 DEF RowTypes, RowStates, SwipeTypes
  <2>2. PICK to \in Sides \cup {"zero"} :
          touch' = IF wrong /\ ~opened
                    THEN [touch EXCEPT !.isTouched = FALSE, !.isMoved = FALSE,
                                       !.el = r, !.opened = opened]
                    ELSE [touch EXCEPT !.isMoved = TRUE, !.el = r, !.opened = opened,
                                       !.translate = to,
                                       !.direction = IF to = "zero" THEN @ ELSE to]
    BY DEF SwipeTouchMove
  <2> HIDE DEF opened, wrong
  <2>3. CASE wrong /\ ~opened
    BY <1>0, <1>1, <2>1, <2>2, <2>3 DEF SwipeTypes
  <2>4. CASE ~(wrong /\ ~opened)
    <3> DEFINE d == IF to = "zero" THEN touch.direction ELSE to
    <3>1. d \in Sides
      BY <1>0, <2>2 DEF SwipeTypes
    <3> HIDE DEF d
    <3>2. touch' = [touch EXCEPT !.isMoved = TRUE, !.el = r, !.opened = opened,
                                 !.translate = to, !.direction = d]
      BY <2>2, <2>4 DEF d
    <3> QED
      BY <1>0, <1>1, <2>1, <3>1, <3>2 DEF SwipeTypes
  <2> QED
    BY <2>3, <2>4
<1>3. hurried' \in BOOLEAN /\ (~hurried' => ~hurried)
  BY <1>0, <1>1 DEF SwipeTypes, RowTypes, RowStates
<1>4. /\ new \in RowStates /\ (new.opened <=> new.side # "none")
      /\ new.deleting = swipeRows[r].deleting
      /\ first => ~new.opened
      /\ ~first => new = swipeRows[r]
  BY <1>0, <1>1 DEF RowTypes, RowStates
<1> HIDE DEF new
<1>5. /\ RowTypes' /\ DOMAIN swipeRows' = DOMAIN swipeRows
      /\ swipeRows'[r] = new
      /\ \A q \in DOMAIN swipeRows : q # r => swipeRows'[q] = swipeRows[q]
  BY <1>0, <1>1, <1>4, RowChanges
<1>6. SwipeTypes' /\ TouchKnown'
  BY <1>0, <1>1, <1>2, <1>3 DEF SwipeTypes, TouchKnown
<1>7. ASSUME ~hurried'
      PROVE  ClosingKnown' /\ StaleKnown' /\ NoOtherOpen' /\ OneRowOpen' /\ OpenRowHasButtons'
  <2>0. ClosingKnown /\ StaleKnown /\ NoOtherOpen /\ OneRowOpen /\ OpenRowHasButtons /\ ~hurried
    BY <1>3, <1>7 DEF SwipeInv
  <2>1. swipeout.timers = {} /\ swipeout.allow
    BY <1>0, <1>1, <2>0 DEF TouchKnown, ClosingKnown
  <2>2. ClosingKnown'
    BY <1>1, <1>5, <2>0, <2>1 DEF ClosingKnown
  <2>3. \A q \in DOMAIN swipeRows : q # r =>
            ~(swipeRows'[q].opened /\ ~swipeRows'[q].deleting)
    BY <1>1, <1>5, <2>0 DEF NoOtherOpen
  <2>4. swipeRows'[r].opened => ~first /\ swipeRows'[r] = swipeRows[r] /\ touch'.opened = touch.opened
    BY <1>2, <1>4, <1>5
  <2>5. <<r, "close">> \in swipeout.waits => ~touch'.opened
    <3>1. CASE first
      <4> SUFFICES ASSUME <<r, "close">> \in swipeout.waits, swipeRows[r].opened PROVE FALSE
        BY <1>2, <3>1
      <4>1. swipeRows[r].slides /\ <<r, "onSwipeoutClose">> \notin swipeout.waits
        BY <1>1, <2>0, <2>1 DEF StaleKnown, ClosingKnown
      <4> QED
        BY <1>1, <1>7, <3>1, <4>1
    <3>2. CASE ~first
      BY <1>0, <1>2, <2>0, <3>2 DEF TouchKnown, StaleKnown
    <3> QED
      BY <3>1, <3>2
  <2>6. StaleKnown'
    <3>1. touch'.isMoved /\ <<touch'.el, "close">> \in swipeout'.waits => ~touch'.opened
      BY <1>1, <1>2, <2>5
    <3>2. ASSUME NEW q \in DOMAIN swipeRows, swipeRows'[q].opened, <<q, "close">> \in swipeout.waits
          PROVE  swipeRows'[q].slides /\ (swipeRows'[q].deleting \/ ~touch'.opened)
      <4>1. CASE q = r
        BY <2>0, <2>4, <2>5, <3>2, <4>1 DEF StaleKnown
      <4>2. CASE q # r
        BY <1>5, <2>0, <2>3, <3>2, <4>2 DEF StaleKnown
      <4> QED
        BY <4>1, <4>2
    <3> QED
      BY <1>1, <1>5, <3>1, <3>2 DEF StaleKnown
  <2>7. NoOtherOpen'
    <3>1. ~swipeRows'[r].opened
      BY <1>0, <1>1, <1>4, <1>5, <2>0 DEF NoOtherOpen, TouchKnown
    <3> QED
      BY <1>2, <1>5, <2>3, <3>1 DEF NoOtherOpen
  <2>8. OneRowOpen' /\ OpenRowHasButtons'
    BY <1>1, <1>5, <2>0, <2>3, <2>4 DEF OneRowOpen, OpenRowHasButtons
  <2> QED
    BY <2>2, <2>6, <2>7, <2>8
<1>8. ~swipeout'.allow => swipeout'.timers # {}
  BY <1>1 DEF SwipeInv, OpenRowHasButtons
<1> QED
  BY <1>5, <1>6, <1>7, <1>8 DEF SwipeInv, OneRowOpen, OpenRowHasButtons

(* The finger leaves the row: it opens or goes back. *)
LEMMA SwipeTouchEndKeepsInv == SwipeInv /\ SwipeTouchEnd => SwipeInv'
<1> SUFFICES ASSUME SwipeInv, SwipeTouchEnd PROVE SwipeInv'
  OBVIOUS
<1> DEFINE r == touch.el
<1>0. RowTypes /\ SwipeTypes /\ TouchKnown /\ (~swipeout.allow => swipeout.timers # {})
  BY DEF SwipeInv, OpenRowHasButtons
<1>1. /\ touch' = [touch EXCEPT !.isTouched = FALSE, !.isMoved = FALSE, !.on = Nobody]
      /\ hurried' = hurried /\ swipes' = swipes
  BY DEF SwipeTouchEnd
<1>2. /\ ~touch'.isTouched /\ ~touch'.isMoved /\ touch'.opened = touch.opened
      /\ touch' \in [isTouched : BOOLEAN, isMoved : BOOLEAN, el : Items \cup {Nobody},
                     on : Items \cup {Nobody, "elsewhere", "dialog"}, opened : BOOLEAN,
                     translate : Sides \cup {"zero"}, direction : Sides]
  BY <1>0, <1>1 DEF SwipeTypes
<1>3. TouchKnown' /\ NoOtherOpen'
  BY <1>2 DEF TouchKnown, NoOtherOpen
<1>4. CASE UNCHANGED <<swipeRows, swipeout>>
  <2>1. RowTypes' /\ SwipeTypes'
    BY <1>0, <1>1, <1>2, <1>4 DEF RowTypes, SwipeTypes
  <2> QED
    BY <1>1, <1>2, <1>3, <1>4, <2>1
       DEF SwipeInv, ClosingKnown, StaleKnown, OneRowOpen, OpenRowHasButtons
<1>5. ASSUME touch.isTouched, touch.isMoved, r \in DOMAIN swipeRows,
             NEW over \in BOOLEAN, SwipeOpens(over)
      PROVE  SwipeInv'
  <2> DEFINE new == [swipeRows[r] EXCEPT !.opened = TRUE, !.slides = TRUE,
                                         !.side = touch.direction,
                                         !.buttons = touch.direction, !.deleting = over]
  <2>1. /\ swipeRows' = [swipeRows EXCEPT ![r] = new]
        /\ swipeout' = [swipeout EXCEPT !.openedEl = IF over THEN Nobody ELSE r,
                                        !.waits = @ \cup {<<r, "open">>}]
    <3>1. CASE over
      BY <1>0, <1>5, <3>1 DEF SwipeOpens, Deleting, SwipeTypes
    <3>2. CASE ~over
      BY <1>0, <1>5, <3>2 DEF SwipeOpens, SwipeTypes
    <3> QED
      BY <3>1, <3>2
  <2>2. /\ new \in RowStates /\ (new.opened <=> new.side # "none") /\ new.slides
        /\ (new.deleting <=> over) /\ new.opened /\ new.buttons = new.side
    <3>1. touch.direction \in Sides /\ touch.direction # "none"
      BY <1>0 DEF SwipeTypes, Sides
    <3>2. swipeRows[r] \in RowStates
      BY <1>0, <1>5 DEF RowTypes
    <3> QED
      BY <1>5, <3>1, <3>2 DEF RowStates
  <2> HIDE DEF new
  <2>3. /\ RowTypes' /\ DOMAIN swipeRows' = DOMAIN swipeRows
        /\ swipeRows'[r] = new
        /\ \A q \in DOMAIN swipeRows : q # r => swipeRows'[q] = swipeRows[q]
    BY <1>0, <1>5, <2>1, <2>2, RowChanges
  <2>4. r \in Items
    BY <1>0, <1>5 DEF RowTypes
  <2>5. /\ swipeout'.allow = swipeout.allow /\ swipeout'.timers = swipeout.timers
        /\ swipeout'.waits = swipeout.waits \cup {<<r, "open">>}
        /\ swipeout'.openedEl = IF over THEN Nobody ELSE r
    BY <1>0, <2>1 DEF SwipeTypes
  <2>6. SwipeTypes'
    <3>1. swipeout'.waits \in SUBSET (Items \X {"onSwipeoutClose", "open", "close"})
      BY <1>0, <2>4, <2>5 DEF SwipeTypes
    <3>2. swipeout' = [openedEl |-> IF over THEN Nobody ELSE r, allow |-> swipeout.allow,
                       waits |-> swipeout'.waits, timers |-> swipeout.timers]
      BY <1>0, <2>1, <2>5 DEF SwipeTypes
    <3> QED
      BY <1>0, <1>1, <1>2, <2>4, <3>1, <3>2 DEF SwipeTypes
  <2>7. ASSUME ~hurried
        PROVE  ClosingKnown' /\ StaleKnown' /\ OneRowOpen' /\ OpenRowHasButtons'
    <3>0. ClosingKnown /\ StaleKnown /\ NoOtherOpen /\ OneRowOpen /\ OpenRowHasButtons
      BY <2>7 DEF SwipeInv
    <3>1. swipeout.timers = {} /\ swipeout.allow /\ r = touch.on
      BY <1>0, <1>5, <3>0 DEF TouchKnown, ClosingKnown
    <3>2. \A q : /\ <<q, "onSwipeoutClose">> \in swipeout'.waits <=>
                       <<q, "onSwipeoutClose">> \in swipeout.waits
                 /\ <<q, "close">> \in swipeout'.waits <=> <<q, "close">> \in swipeout.waits
      BY <2>5
    <3>3. ClosingKnown'
      BY <2>2, <2>3, <2>5, <3>0, <3>1, <3>2 DEF ClosingKnown
    <3>4. \A q \in DOMAIN swipeRows : q # r =>
              ~(swipeRows'[q].opened /\ ~swipeRows'[q].deleting)
      BY <1>5, <2>3, <3>0, <3>1 DEF NoOtherOpen
    <3>5. StaleKnown'
      <4>1. <<r, "close">> \in swipeout.waits => ~touch'.opened
        BY <1>2, <1>5, <3>0 DEF StaleKnown
      <4> QED
        BY <1>2, <2>2, <2>3, <3>0, <3>2, <3>4, <4>1 DEF StaleKnown
    <3>6. OneRowOpen' /\ OpenRowHasButtons'
      BY <2>2, <2>3, <2>5, <3>0, <3>1, <3>4 DEF OneRowOpen, OpenRowHasButtons
    <3> QED
      BY <3>3, <3>5, <3>6
  <2> QED
    BY <1>0, <1>1, <1>3, <2>3, <2>5, <2>6, <2>7 DEF SwipeInv, OneRowOpen, OpenRowHasButtons
<1>6. ASSUME touch.isTouched, touch.isMoved, r \in DOMAIN swipeRows, SwipeCloses
      PROVE  SwipeInv'
  <2> DEFINE new == [swipeRows[r] EXCEPT !.slides = touch.translate # "zero"]
  <2>1. /\ swipeRows' = [swipeRows EXCEPT ![r] = new]
        /\ swipeout' = [swipeout EXCEPT !.openedEl = Nobody,
                                        !.waits = @ \cup {<<r, "close">>}]
    BY <1>6 DEF SwipeCloses
  <2>2. /\ new \in RowStates /\ (new.opened <=> new.side # "none")
        /\ (new.opened <=> swipeRows[r].opened)
    <3>1. swipeRows[r] \in RowStates /\ (swipeRows[r].opened <=> swipeRows[r].side # "none")
      BY <1>0, <1>6 DEF RowTypes
    <3>2. (touch.translate # "zero") \in BOOLEAN
      OBVIOUS
    <3> QED
      BY <3>1, <3>2 DEF RowStates
  <2> HIDE DEF new
  <2>3. /\ RowTypes' /\ DOMAIN swipeRows' = DOMAIN swipeRows
        /\ swipeRows'[r] = new
        /\ \A q \in DOMAIN swipeRows : q # r => swipeRows'[q] = swipeRows[q]
    BY <1>0, <1>6, <2>1, <2>2, RowChanges
  <2>4. r \in Items
    BY <1>0, <1>6 DEF RowTypes
  <2>5. /\ swipeout'.allow = swipeout.allow /\ swipeout'.timers = swipeout.timers
        /\ swipeout'.waits = swipeout.waits \cup {<<r, "close">>}
        /\ swipeout'.openedEl = Nobody
    BY <1>0, <2>1 DEF SwipeTypes
  <2>6. SwipeTypes'
    <3>1. swipeout'.waits \in SUBSET (Items \X {"onSwipeoutClose", "open", "close"})
      BY <1>0, <2>4, <2>5 DEF SwipeTypes
    <3>2. swipeout' = [openedEl |-> Nobody, allow |-> swipeout.allow,
                       waits |-> swipeout'.waits, timers |-> swipeout.timers]
      BY <1>0, <2>1, <2>5 DEF SwipeTypes
    <3> QED
      BY <1>0, <1>1, <1>2, <3>1, <3>2 DEF SwipeTypes
  <2>7. ASSUME ~hurried
        PROVE  ClosingKnown' /\ StaleKnown' /\ OneRowOpen' /\ OpenRowHasButtons'
    <3>0. ClosingKnown /\ StaleKnown /\ NoOtherOpen /\ OneRowOpen /\ OpenRowHasButtons
      BY <2>7 DEF SwipeInv
    <3>1. swipeout.timers = {} /\ swipeout.allow /\ r = touch.on
      BY <1>0, <1>6, <3>0 DEF TouchKnown, ClosingKnown
    <3>2. \A q : /\ <<q, "onSwipeoutClose">> \in swipeout'.waits <=>
                       <<q, "onSwipeoutClose">> \in swipeout.waits
                 /\ q # r => (<<q, "close">> \in swipeout'.waits <=>
                                <<q, "close">> \in swipeout.waits)
      BY <2>5
    <3>3. ~swipeRows'[r].opened
      BY <1>6, <2>2, <2>3, <3>0 DEF NoOtherOpen
    <3>4. \A q \in DOMAIN swipeRows : ~(swipeRows'[q].opened /\ ~swipeRows'[q].deleting)
      BY <1>6, <2>3, <3>0, <3>1, <3>3 DEF NoOtherOpen
    <3>5. ClosingKnown'
      BY <1>6, <2>3, <2>5, <3>0, <3>1, <3>2, <3>3 DEF ClosingKnown
    <3>6. StaleKnown'
      BY <1>2, <2>3, <3>0, <3>2, <3>3, <3>4 DEF StaleKnown
    <3>7. OneRowOpen' /\ OpenRowHasButtons'
      BY <2>3, <2>5, <3>0, <3>4 DEF OneRowOpen, OpenRowHasButtons
    <3> QED
      BY <3>5, <3>6, <3>7
  <2> QED
    BY <1>0, <1>1, <1>3, <2>3, <2>5, <2>6, <2>7 DEF SwipeInv, OneRowOpen, OpenRowHasButtons
<1> QED
  BY <1>4, <1>5, <1>6 DEF SwipeTouchEnd

(* A slide ends, with all the callbacks that wait for it. *)
LEMMA RowSlideEndsKeepsInv ==
    ASSUME SwipeInv, NEW r \in DOMAIN swipeRows, RowSlideEnds(r)
    PROVE  SwipeInv'
<1> DEFINE due == {w \in swipeout.waits : w[1] = r}
           closed == <<r, "onSwipeoutClose">> \in due
           clears == closed \/ (<<r, "close">> \in due /\ touch.opened)
           new == [swipeRows[r] EXCEPT !.slides = FALSE,
                                       !.buttons = IF clears THEN "none" ELSE @]
<1>0. RowTypes /\ SwipeTypes /\ TouchKnown /\ (~swipeout.allow => swipeout.timers # {})
      /\ r \in Items
  BY DEF SwipeInv, OpenRowHasButtons, RowTypes
<1>1. /\ swipeRows' = [swipeRows EXCEPT
                            ![r].slides = FALSE, ![r].buttons = IF clears THEN "none" ELSE @]
      /\ swipeout' = IF closed THEN Closed([swipeout EXCEPT !.waits = @ \ due], r)
                     ELSE [swipeout EXCEPT !.waits = @ \ due]
      /\ UNCHANGED <<touch, hurried, swipes>>
  BY DEF RowSlideEnds
<1>2. clears \in BOOLEAN /\ closed \in BOOLEAN
  BY <1>0 DEF SwipeTypes
<1>3. /\ swipeout'.waits = swipeout.waits \ due
      /\ swipeout'.openedEl = swipeout.openedEl
      /\ swipeout'.allow = IF closed THEN TRUE ELSE swipeout.allow
      /\ swipeout'.timers = IF closed THEN swipeout.timers \ {r} ELSE swipeout.timers
      /\ swipeout' = [openedEl |-> swipeout'.openedEl, allow |-> swipeout'.allow,
                      waits |-> swipeout'.waits, timers |-> swipeout'.timers]
  <2> HIDE DEF due, closed
  <2>1. CASE closed
    BY <1>0, <1>1, <2>1 DEF SwipeTypes, Closed
  <2>2. CASE ~closed
    BY <1>0, <1>1, <2>2 DEF SwipeTypes
  <2> QED
    BY <2>1, <2>2
<1>4. \A q, x : <<q, x>> \in swipeout'.waits <=> <<q, x>> \in swipeout.waits /\ q # r
  BY <1>3
<1>5. closed <=> <<r, "onSwipeoutClose">> \in swipeout.waits
  OBVIOUS
<1>6. clears <=> closed \/ (<<r, "close">> \in swipeout.waits /\ touch.opened)
  OBVIOUS
<1> HIDE DEF due, closed, clears
<1>7. swipeRows' = [swipeRows EXCEPT ![r] = new]
  BY <1>0, <1>1 DEF RowTypes
<1>8. /\ new \in RowStates /\ (new.opened <=> new.side # "none")
      /\ (new.opened <=> swipeRows[r].opened) /\ (new.deleting <=> swipeRows[r].deleting)
      /\ new.side = swipeRows[r].side
      /\ ~clears => new.buttons = swipeRows[r].buttons
  <2>1. swipeRows[r] \in RowStates /\ (swipeRows[r].opened <=> swipeRows[r].side # "none")
    BY <1>0 DEF RowTypes
  <2>2. CASE clears
    BY <2>1, <2>2 DEF RowStates
  <2>3. CASE ~clears
    BY <2>1, <2>3 DEF RowStates
  <2> QED
    BY <2>2, <2>3
<1> HIDE DEF new
<1>9. /\ RowTypes' /\ DOMAIN swipeRows' = DOMAIN swipeRows
      /\ swipeRows'[r] = new
      /\ \A q \in DOMAIN swipeRows : q # r => swipeRows'[q] = swipeRows[q]
  BY <1>0, <1>7, <1>8, RowChanges
<1>10. SwipeTypes' /\ TouchKnown'
  <2>1. /\ swipeout'.waits \in SUBSET (Items \X {"onSwipeoutClose", "open", "close"})
        /\ swipeout'.openedEl \in Items \cup {Nobody} /\ swipeout'.allow \in BOOLEAN
        /\ swipeout'.timers \in SUBSET Items
        /\ swipeout.allow => swipeout'.allow
    <3>1. swipeout'.allow \in BOOLEAN /\ (swipeout.allow => swipeout'.allow)
      BY <1>0, <1>3 DEF SwipeTypes
    <3>2. swipeout'.timers \in SUBSET Items
      BY <1>0, <1>3 DEF SwipeTypes
    <3> QED
      BY <1>0, <1>3, <3>1, <3>2 DEF SwipeTypes
  <2>2. swipeout' \in [openedEl : Items \cup {Nobody}, allow : BOOLEAN,
                     waits : SUBSET (Items \X {"onSwipeoutClose", "open", "close"}),
                     timers : SUBSET Items]
    BY <1>3, <2>1
  <2> QED
    BY <1>0, <1>1, <2>1, <2>2 DEF SwipeTypes, TouchKnown
<1>11. ~swipeout'.allow => swipeout'.timers # {}
  BY <1>0, <1>3
<1>12. ASSUME ~hurried
       PROVE  /\ ClosingKnown' /\ StaleKnown' /\ NoOtherOpen'
              /\ OneRowOpen' /\ OpenRowHasButtons'
  <2>0. ClosingKnown /\ StaleKnown /\ NoOtherOpen /\ OneRowOpen /\ OpenRowHasButtons
    BY <1>12 DEF SwipeInv
  <2>1. closed => swipeout.timers = {r} /\ ~swipeRows[r].opened
    BY <1>0, <1>5, <2>0 DEF ClosingKnown
  <2>2. ClosingKnown'
    <3>1. CASE closed
      <4>1. swipeout'.timers = {} /\ swipeout'.allow
        BY <1>3, <2>1, <3>1
      <4>2. \A q \in DOMAIN swipeRows : <<q, "onSwipeoutClose">> \notin swipeout'.waits
        BY <1>4, <2>0, <2>1, <3>1 DEF ClosingKnown
      <4> QED
        BY <1>9, <4>1, <4>2 DEF ClosingKnown
    <3>2. CASE ~closed
      <4>1. swipeout'.timers = swipeout.timers /\ swipeout'.allow = swipeout.allow
        BY <1>3, <3>2
      <4> QED
        BY <1>3, <1>4, <1>8, <1>9, <2>0, <4>1 DEF ClosingKnown
    <3> QED
      BY <3>1, <3>2
  <2>3. \A q \in DOMAIN swipeRows :
           /\ (swipeRows'[q].opened <=> swipeRows[q].opened)
           /\ (swipeRows'[q].deleting <=> swipeRows[q].deleting)
           /\ swipeRows'[q].side = swipeRows[q].side
    BY <1>8, <1>9
  <2>4. StaleKnown' /\ NoOtherOpen' /\ OneRowOpen'
    BY <1>1, <1>3, <1>4, <1>9, <2>0, <2>3 DEF StaleKnown, NoOtherOpen, OneRowOpen
  <2>5. swipeRows[r].opened /\ ~swipeRows[r].deleting => ~clears
    BY <1>6, <2>0, <2>1 DEF StaleKnown
  <2>6. OpenRowHasButtons'
    BY <1>8, <1>9, <1>11, <2>0, <2>3, <2>5, <1>12 DEF OpenRowHasButtons
  <2> QED
    BY <2>2, <2>4, <2>6
<1> QED
  BY <1>1, <1>9, <1>10, <1>11, <1>12 DEF SwipeInv, OneRowOpen, OpenRowHasButtons

(* The timer of a close runs out. *)
LEMMA CloseTimeoutKeepsInv ==
    ASSUME SwipeInv, NEW r \in Items, CloseTimeout(r)
    PROVE  SwipeInv'
<1>0. RowTypes /\ SwipeTypes /\ TouchKnown
  BY DEF SwipeInv
<1>1. /\ r \in swipeout.timers /\ (r \in DOMAIN swipeRows => ~swipeRows[r].slides)
      /\ swipeout' = [swipeout EXCEPT !.allow = TRUE, !.timers = @ \ {r}]
      /\ swipeRows' = IF r \in DOMAIN swipeRows
                      THEN [swipeRows EXCEPT ![r].buttons = "none"] ELSE swipeRows
      /\ UNCHANGED <<touch, hurried, swipes>>
  BY DEF CloseTimeout, Closed
<1>2. /\ swipeout'.allow /\ swipeout'.timers = swipeout.timers \ {r}
      /\ swipeout'.waits = swipeout.waits /\ swipeout'.openedEl = swipeout.openedEl
      /\ SwipeTypes' /\ TouchKnown'
  BY <1>0, <1>1 DEF SwipeTypes, TouchKnown
<1>3. /\ RowTypes' /\ DOMAIN swipeRows' = DOMAIN swipeRows
      /\ \A q \in DOMAIN swipeRows :
           /\ (swipeRows'[q].opened <=> swipeRows[q].opened)
           /\ (swipeRows'[q].deleting <=> swipeRows[q].deleting)
           /\ (swipeRows'[q].slides <=> swipeRows[q].slides)
           /\ swipeRows'[q].side = swipeRows[q].side
           /\ q # r => swipeRows'[q].buttons = swipeRows[q].buttons
  <2>1. CASE r \in DOMAIN swipeRows
    <3> DEFINE new == [swipeRows[r] EXCEPT !.buttons = "none"]
    <3>1. swipeRows' = [swipeRows EXCEPT ![r] = new]
      BY <1>1, <2>1
    <3>2. /\ new \in RowStates /\ (new.opened <=> new.side # "none")
          /\ (new.opened <=> swipeRows[r].opened) /\ (new.deleting <=> swipeRows[r].deleting)
          /\ (new.slides <=> swipeRows[r].slides) /\ new.side = swipeRows[r].side
      <4>1. swipeRows[r] \in RowStates /\ (swipeRows[r].opened <=> swipeRows[r].side # "none")
        BY <1>0, <2>1 DEF RowTypes
      <4> QED
        BY <4>1 DEF RowStates
    <3> HIDE DEF new
    <3>3. /\ RowTypes' /\ DOMAIN swipeRows' = DOMAIN swipeRows /\ swipeRows'[r] = new
          /\ \A q \in DOMAIN swipeRows : q # r => swipeRows'[q] = swipeRows[q]
      BY <1>0, <2>1, <3>1, <3>2, RowChanges
    <3> QED
      BY <3>2, <3>3
  <2>2. CASE r \notin DOMAIN swipeRows
    BY <1>0, <1>1, <2>2 DEF RowTypes
  <2> QED
    BY <2>1, <2>2
<1>4. ASSUME ~hurried
      PROVE  /\ ClosingKnown' /\ StaleKnown' /\ NoOtherOpen'
             /\ OneRowOpen' /\ OpenRowHasButtons'
  <2>0. ClosingKnown /\ StaleKnown /\ NoOtherOpen /\ OneRowOpen /\ OpenRowHasButtons
    BY <1>4 DEF SwipeInv
  <2>1. swipeout.timers = {r} /\ swipeout'.timers = {}
    BY <1>1, <1>2, <2>0 DEF ClosingKnown
  <2>2. \A q \in DOMAIN swipeRows : <<q, "onSwipeoutClose">> \notin swipeout.waits
    BY <1>1, <2>0, <2>1 DEF ClosingKnown
  <2>3. ClosingKnown'
    BY <1>2, <1>3, <2>1, <2>2 DEF ClosingKnown
  <2>4. StaleKnown' /\ NoOtherOpen' /\ OneRowOpen'
    BY <1>1, <1>2, <1>3, <2>0 DEF StaleKnown, NoOtherOpen, OneRowOpen
  <2>5. OpenRowHasButtons'
    BY <1>1, <1>2, <1>3, <2>0, <2>1 DEF OpenRowHasButtons, ClosingKnown
  <2> QED
    BY <2>3, <2>4, <2>5
<1> QED
  BY <1>1, <1>2, <1>3, <1>4 DEF SwipeInv, OneRowOpen, OpenRowHasButtons

(* A script opens a row. *)
LEMMA SwipeoutOpenKeepsInv ==
    ASSUME SwipeInv, NEW r \in DOMAIN swipeRows, NEW dir \in Sides, SwipeoutOpen(r, dir)
    PROVE  SwipeInv'
<1> DEFINE new == [swipeRows[r] EXCEPT !.opened = TRUE, !.side = dir,
                                       !.buttons = dir, !.slides = TRUE]
<1>0. RowTypes /\ SwipeTypes /\ TouchKnown /\ (~swipeout.allow => swipeout.timers # {})
      /\ r \in Items
  BY DEF SwipeInv, OpenRowHasButtons, RowTypes
<1>1. /\ swipes < MaxSwipes /\ swipes' = swipes + 1
      /\ swipeRows' = [swipeRows EXCEPT ![r] = new]
      /\ swipeout' = [swipeout EXCEPT !.openedEl = r, !.waits = @ \cup {<<r, "open">>}]
      /\ touch' = touch
  BY DEF SwipeoutOpen, Swiping
<1>2. hurried' = (hurried \/ ~swipeout.allow \/ swipeout.openedEl \notin {r, Nobody}
                           \/ touch.isTouched \/ \E w \in swipeout.waits : w[1] = r)
  BY DEF SwipeoutOpen
<1>3. /\ hurried' \in BOOLEAN
      /\ ~hurried' => /\ ~hurried /\ swipeout.allow /\ ~touch.isTouched
                      /\ swipeout.openedEl \in {r, Nobody}
                      /\ \A x : <<r, x>> \notin swipeout.waits
  BY <1>0, <1>2 DEF SwipeTypes
<1>4. /\ new \in RowStates /\ (new.opened <=> new.side # "none")
      /\ new.slides /\ new.buttons = new.side
  <2>1. swipeRows[r] \in RowStates /\ dir # "none"
    BY <1>0 DEF RowTypes, Sides
  <2> QED
    BY <2>1 DEF RowStates
<1> HIDE DEF new
<1>5. /\ RowTypes' /\ DOMAIN swipeRows' = DOMAIN swipeRows /\ swipeRows'[r] = new
      /\ \A q \in DOMAIN swipeRows : q # r => swipeRows'[q] = swipeRows[q]
  BY <1>0, <1>1, <1>4, RowChanges
<1>6. /\ swipeout'.allow = swipeout.allow /\ swipeout'.timers = swipeout.timers
      /\ swipeout'.waits = swipeout.waits \cup {<<r, "open">>}
      /\ swipeout'.openedEl = r
      /\ swipeout' = [openedEl |-> r, allow |-> swipeout.allow,
                      waits |-> swipeout.waits \cup {<<r, "open">>},
                      timers |-> swipeout.timers]
  BY <1>0, <1>1 DEF SwipeTypes
<1>7. SwipeTypes' /\ TouchKnown'
  <2>1. swipeout.waits \cup {<<r, "open">>}
          \in SUBSET (Items \X {"onSwipeoutClose", "open", "close"})
    BY <1>0 DEF SwipeTypes
  <2>2. swipes' \in 0 .. MaxSwipes
    BY <1>0, <1>1, SwipeoutAssumption DEF SwipeTypes
  <2> QED
    BY <1>0, <1>1, <1>3, <1>6, <2>1, <2>2 DEF SwipeTypes, TouchKnown
<1>8. ASSUME ~hurried'
      PROVE  /\ ClosingKnown' /\ StaleKnown' /\ NoOtherOpen'
             /\ OneRowOpen' /\ OpenRowHasButtons'
  <2>0. ClosingKnown /\ StaleKnown /\ NoOtherOpen /\ OneRowOpen /\ OpenRowHasButtons
    BY <1>3, <1>8 DEF SwipeInv
  <2>1. \A q : /\ <<q, "onSwipeoutClose">> \in swipeout'.waits <=>
                     <<q, "onSwipeoutClose">> \in swipeout.waits
               /\ <<q, "close">> \in swipeout'.waits <=> <<q, "close">> \in swipeout.waits
    BY <1>6
  <2>2. swipeout.timers = {} /\ swipeout.allow /\ ~touch.isTouched /\ ~touch.isMoved
    BY <1>0, <1>3, <1>8, <2>0 DEF ClosingKnown, TouchKnown
  <2>3. ClosingKnown'
    BY <1>3, <1>5, <1>6, <1>8, <2>0, <2>1, <2>2 DEF ClosingKnown
  <2>4. StaleKnown'
    BY <1>1, <1>3, <1>5, <1>8, <2>0, <2>1, <2>2 DEF StaleKnown
  <2>5. NoOtherOpen'
    BY <1>1, <2>2 DEF NoOtherOpen
  <2>6. \A q \in DOMAIN swipeRows : q # r => ~(swipeRows[q].opened /\ ~swipeRows[q].deleting)
    BY <1>0, <1>3, <1>8, <2>0, SwipeoutAssumption DEF OneRowOpen, RowTypes
  <2>7. OneRowOpen' /\ OpenRowHasButtons'
    BY <1>4, <1>5, <1>6, <2>2, <2>6 DEF OneRowOpen, OpenRowHasButtons
  <2> QED
    BY <2>3, <2>4, <2>5, <2>7
<1> QED
  BY <1>0, <1>5, <1>6, <1>7, <1>8 DEF SwipeInv, OneRowOpen, OpenRowHasButtons

(* A button that closes is pressed. *)
LEMMA PressCloseKeepsInv == SwipeInv /\ PressClose => SwipeInv'
<1> SUFFICES ASSUME SwipeInv, PressClose PROVE SwipeInv'
  OBVIOUS
<1>1. /\ swipes < MaxSwipes /\ swipes' = swipes + 1 /\ touch.on = Nobody
      /\ swipeout.openedEl # Nobody /\ SwipeoutClose(swipeout.openedEl)
      /\ UNCHANGED <<touch, hurried>>
  BY DEF PressClose, Swiping
<1>2. SwipeTypes /\ TouchKnown
  BY DEF SwipeInv
<1>3. swipes' \in 0 .. MaxSwipes
  BY <1>1, <1>2, SwipeoutAssumption DEF SwipeTypes
<1>4. ~touch.isTouched /\ ~touch.isMoved
  BY <1>1, <1>2, SwipeoutAssumption DEF TouchKnown
<1> QED
  BY <1>1, <1>2, <1>3, <1>4, CloseKeeps DEF SwipeTypes

(* A button that deletes is pressed. *)
LEMMA PressDeleteKeepsInv ==
    ASSUME SwipeInv, NEW r \in DOMAIN swipeRows, PressDelete(r)
    PROVE  SwipeInv'
<1> DEFINE new == [swipeRows[r] EXCEPT !.deleting = TRUE, !.slides = TRUE]
<1>0. RowTypes /\ SwipeTypes /\ TouchKnown /\ (~swipeout.allow => swipeout.timers # {})
      /\ r \in Items
  BY DEF SwipeInv, OpenRowHasButtons, RowTypes
<1>1. /\ swipes < MaxSwipes /\ swipes' = swipes + 1
      /\ swipeRows[r].opened /\ ~swipeRows[r].deleting /\ touch.on = Nobody
      /\ swipeRows' = [swipeRows EXCEPT ![r] = new]
      /\ swipeout' = [swipeout EXCEPT !.openedEl = Nobody]
      /\ UNCHANGED <<touch, hurried>>
  BY DEF PressDelete, Swiping, Deleting
<1>2. /\ new \in RowStates /\ (new.opened <=> new.side # "none")
      /\ new.slides /\ new.deleting /\ (new.opened <=> swipeRows[r].opened)
  <2>1. swipeRows[r] \in RowStates /\ (swipeRows[r].opened <=> swipeRows[r].side # "none")
    BY <1>0 DEF RowTypes
  <2> QED
    BY <2>1 DEF RowStates
<1> HIDE DEF new
<1>3. /\ RowTypes' /\ DOMAIN swipeRows' = DOMAIN swipeRows /\ swipeRows'[r] = new
      /\ \A q \in DOMAIN swipeRows : q # r => swipeRows'[q] = swipeRows[q]
  BY <1>0, <1>1, <1>2, RowChanges
<1>4. /\ swipeout'.allow = swipeout.allow /\ swipeout'.timers = swipeout.timers
      /\ swipeout'.waits = swipeout.waits /\ swipeout'.openedEl = Nobody
      /\ SwipeTypes' /\ TouchKnown'
  <2>1. swipes' \in 0 .. MaxSwipes
    BY <1>0, <1>1, SwipeoutAssumption DEF SwipeTypes
  <2> QED
    BY <1>0, <1>1, <2>1 DEF SwipeTypes, TouchKnown
<1>5. ~touch.isTouched /\ ~touch.isMoved
  BY <1>0, <1>1, SwipeoutAssumption DEF TouchKnown
<1>6. ASSUME ~hurried
      PROVE  /\ ClosingKnown' /\ StaleKnown' /\ NoOtherOpen'
             /\ OneRowOpen' /\ OpenRowHasButtons'
  <2>0. ClosingKnown /\ StaleKnown /\ NoOtherOpen /\ OneRowOpen /\ OpenRowHasButtons
    BY <1>6 DEF SwipeInv
  <2>1. ClosingKnown'
    BY <1>0, <1>1, <1>2, <1>3, <1>4, <2>0, SwipeoutAssumption DEF ClosingKnown, RowTypes
  <2>2. StaleKnown' /\ NoOtherOpen'
    BY <1>1, <1>2, <1>3, <1>4, <1>5, <2>0 DEF StaleKnown, NoOtherOpen
  <2>3. \A q \in DOMAIN swipeRows : ~(swipeRows'[q].opened /\ ~swipeRows'[q].deleting)
    BY <1>1, <1>2, <1>3, <1>6, <2>0 DEF OneRowOpen
  <2>4. OneRowOpen' /\ OpenRowHasButtons'
    BY <1>3, <1>4, <2>0, <2>3 DEF OneRowOpen, OpenRowHasButtons
  <2> QED
    BY <2>1, <2>2, <2>4
<1> QED
  BY <1>0, <1>1, <1>3, <1>4, <1>6 DEF SwipeInv, OneRowOpen, OpenRowHasButtons

(* The row is gone. *)
LEMMA DeletedKeepsInv ==
    ASSUME SwipeInv, NEW r \in DOMAIN swipeRows, Deleted(r)
    PROVE  SwipeInv'
<1>0. RowTypes /\ SwipeTypes /\ TouchKnown
  BY DEF SwipeInv
<1>1. /\ swipeRows' = [q \in DOMAIN swipeRows \ {r} |-> swipeRows[q]]
      /\ UNCHANGED <<swipeout, touch, hurried, swipes>>
  BY DEF Deleted
<1>2. /\ DOMAIN swipeRows' \subseteq DOMAIN swipeRows
      /\ \A q \in DOMAIN swipeRows' : swipeRows'[q] = swipeRows[q]
  BY <1>1
<1>3. RowTypes'
  BY <1>0, <1>1, <1>2 DEF RowTypes
<1>4. SwipeTypes' /\ TouchKnown'
  BY <1>0, <1>1 DEF SwipeTypes, TouchKnown
<1>5. ~hurried => ClosingKnown' /\ StaleKnown' /\ NoOtherOpen'
  BY <1>1, <1>2 DEF SwipeInv, ClosingKnown, StaleKnown, NoOtherOpen
<1>6. OneRowOpen' /\ OpenRowHasButtons'
  BY <1>1, <1>2 DEF SwipeInv, OneRowOpen, OpenRowHasButtons
<1> QED
  BY <1>1, <1>3, <1>4, <1>5, <1>6 DEF SwipeInv

(* Every step keeps SwipeInv. *)
LEMMA SwipeInvInductive == SwipeInv /\ [SwipeoutNext]_swipeoutVars => SwipeInv'
<1> SUFFICES ASSUME SwipeInv, [SwipeoutNext]_swipeoutVars PROVE SwipeInv'
  OBVIOUS
<1>1. CASE UNCHANGED swipeoutVars
  BY <1>1 DEF SwipeInv, RowTypes, SwipeTypes, TouchKnown, ClosingKnown, StaleKnown,
              NoOtherOpen, OneRowOpen, OpenRowHasButtons, swipeoutVars
<1>2. CASE SwipeoutNext
  BY <1>2, SwipeTouchStartKeepsInv, SwipeScrollsKeepsInv, SwipeTouchMoveKeepsInv,
     SwipeTouchEndKeepsInv, RowSlideEndsKeepsInv, CloseTimeoutKeepsInv, SwipeoutOpenKeepsInv,
     PressCloseKeepsInv, PressDeleteKeepsInv, DeletedKeepsInv DEF SwipeoutNext
<1> QED
  BY <1>1, <1>2

(* SwipeInv holds in every state. *)
LEMMA SwipeInvHolds == SwipeoutSpec => []SwipeInv
<1>1. SwipeoutInit => SwipeInv
  <2> SUFFICES ASSUME SwipeoutInit PROVE SwipeInv
    OBVIOUS
  <2>1. /\ swipeRows = [r \in Items |-> AtRest]
        /\ swipeout = [openedEl |-> Nobody, allow |-> TRUE, waits |-> {}, timers |-> {}]
        /\ touch = [isTouched |-> FALSE, isMoved |-> FALSE, on |-> Nobody, el |-> Nobody,
                    opened |-> FALSE, translate |-> "zero", direction |-> "right"]
        /\ hurried = FALSE /\ swipes = 0
    BY DEF SwipeoutInit
  <2>2. RowTypes /\ \A r \in DOMAIN swipeRows : ~swipeRows[r].opened
    BY <2>1 DEF RowTypes, RowStates, AtRest
  <2>3. SwipeTypes
    <3>1. swipes \in 0 .. MaxSwipes
      BY <2>1, SwipeoutAssumption
    <3>2. touch \in [isTouched : BOOLEAN, isMoved : BOOLEAN, el : Items \cup {Nobody},
                     on : Items \cup {Nobody, "elsewhere", "dialog"}, opened : BOOLEAN,
                     translate : Sides \cup {"zero"}, direction : Sides]
      BY <2>1 DEF Sides
    <3> QED
      BY <2>1, <3>1, <3>2 DEF SwipeTypes
  <2>4. TouchKnown /\ ~touch.isTouched /\ ~touch.isMoved
    BY <2>1 DEF TouchKnown
  <2>5. swipeout.allow /\ swipeout.timers = {} /\ swipeout.waits = {}
    BY <2>1
  <2> QED
    BY <2>2, <2>3, <2>4, <2>5 DEF SwipeInv, ClosingKnown, StaleKnown, NoOtherOpen,
                                  OneRowOpen, OpenRowHasButtons
<1> QED
  BY <1>1, SwipeInvInductive, PTL DEF SwipeoutSpec

(***************************************************************************)
(* SwipeoutTypeCorrect: in every state the variables of the rows, of the   *)
(* touch and of the list have their types.                                 *)
(***************************************************************************)
THEOREM SwipeoutTypeCorrect == SwipeoutSpec => []SwipeoutTypeOK
<1>1. SwipeInv => SwipeoutTypeOK
  BY DEF SwipeInv, SwipeoutTypeOK, RowTypes, RowStates, SwipeTypes
<1> QED
  BY <1>1, SwipeInvHolds, PTL

(***************************************************************************)
(* OneRowOpenAndKnown: for any rows and any touches, closes and deletions  *)
(* while rows still slide, one row at most is open and the list knows      *)
(* which, it has its buttons, and a list that may not be swiped will allow *)
(* it again.  A row that is being deleted is not counted, and the          *)
(* exceptions named by hurried (a script opens a row beside another or     *)
(* under a finger, a row is taken up while it slides) are all there are.   *)
(***************************************************************************)
THEOREM OneRowOpenAndKnown == SwipeoutSpec => []OpenRowIsKnown
<1>1. SwipeInv => OpenRowIsKnown
  BY DEF SwipeInv, OpenRowIsKnown
<1> QED
  BY <1>1, SwipeInvHolds, PTL

-----------------------------------------------------------------------------
(***************************************************************************)
(* The calendar (module Calendar).  MonthIsShown speaks of a calendar at   *)
(* rest.  The inductive invariant, CalendarInv, says what a slide under    *)
(* way will leave (CalSlides): the months without a class go, and the two  *)
(* that stay, with the one put in, are neighbours.  It says that all       *)
(* months in the wrapper mark the days chosen, those put in later too      *)
(* (MonthsTrue), and how far from today months and days can be after so    *)
(* many turns (Bound), so that each has a grid.  A slide that was turned   *)
(* back, or overtaken by setYearMonth, is exempt until the calendar is     *)
(* laid out again or a setYearMonth ends.  About the arithmetic of dates   *)
(* no more is needed than rough bounds on the length of a month.           *)
(***************************************************************************)

(* FirstOf in parts: the days before a month, leap years, whole years *)
DaysBefore == <<0, 31, 59, 90, 120, 151, 181, 212, 243, 273, 304, 334>>
LeapYear(y) == y % 4 = 0 /\ (y % 100 # 0 \/ y % 400 = 0)
DaysOfYears(y) == 365 * (y - 1) + (y - 1) \div 4 - (y - 1) \div 100 + (y - 1) \div 400
FirstIs(n) == DaysOfYears(n \div 12) + DaysBefore[(n % 12) + 1] + IF LeapYear(n \div 12) /\ n % 12 > 1 THEN 1 ELSE 0

(* FirstOf is the sum of these. *)
LEMMA FirstOfIs == \A n \in Int : FirstOf[n] = FirstIs(n)
<1> DEFINE f == [n \in Int |-> FirstIs(n)]
<1>1. FirstOf = CHOOSE g : g = f
  BY DEF FirstOf, FirstIs, DaysBefore, LeapYear, DaysOfYears
<1>2. FirstOf = f
  BY <1>1
<1> QED
  BY <1>2

(* A year has from 363 to 368 days: rough, and enough for its months. *)
LEMMA YearsTyped ==
    ASSUME NEW y \in Int
    PROVE  DaysOfYears(y) \in Int /\ DaysOfYears(y) + 363 <= DaysOfYears(y + 1) /\ DaysOfYears(y + 1) <= DaysOfYears(y) + 368
<1> DEFINE x == y - 1
<1>1. x \in Int /\ (y + 1) - 1 = x + 1
  OBVIOUS
<1>2. /\ x \div 4 \in Int /\ x \div 4 <= (x + 1) \div 4 /\ (x + 1) \div 4 <= x \div 4 + 1
  BY <1>1
<1>3. /\ x \div 100 \in Int /\ x \div 100 <= (x + 1) \div 100 /\ (x + 1) \div 100 <= x \div 100 + 1
  BY <1>1
<1>4. /\ x \div 400 \in Int /\ x \div 400 <= (x + 1) \div 400 /\ (x + 1) \div 400 <= x \div 400 + 1
  BY <1>1
<1>5. DaysOfYears(y) = 365 * x + x \div 4 - x \div 100 + x \div 400
  BY DEF DaysOfYears
<1>6. DaysOfYears(y + 1) = 365 * (x + 1) + (x + 1) \div 4 - (x + 1) \div 100 + (x + 1) \div 400
  BY <1>1 DEF DaysOfYears
<1> HIDE DEF x
<1> QED
  BY <1>1, <1>2, <1>3, <1>4, <1>5, <1>6

(* A month has from 27 to 35 days: rough, and enough for a grid of 42 cells to
   show it between two neighbours. *)
LEMMA MonthLengths ==
    ASSUME NEW n \in Int
    PROVE  FirstOf[n] \in Int /\ DaysInMonth(n) \in 27 .. 35
<1> DEFINE y == n \div 12
           m == n % 12
           leap == IF LeapYear(y) THEN 1 ELSE 0
<1>1. y \in Int /\ m \in 0 .. 11 /\ n + 1 \in Int
  OBVIOUS
<1>2. IF m = 11 THEN (n + 1) \div 12 = y + 1 /\ (n + 1) % 12 = 0
      ELSE (n + 1) \div 12 = y /\ (n + 1) % 12 = m + 1
  OBVIOUS
<1>3. DaysOfYears(y) \in Int /\ DaysOfYears(y) + 363 <= DaysOfYears(y + 1) /\ DaysOfYears(y + 1) <= DaysOfYears(y) + 368
      /\ DaysOfYears(y + 1) \in Int
  BY <1>1, YearsTyped
<1>4. /\ FirstOf[n] = DaysOfYears(y) + DaysBefore[m + 1] + IF LeapYear(y) /\ m > 1 THEN 1 ELSE 0
      /\ FirstOf[n + 1] = DaysOfYears((n + 1) \div 12) + DaysBefore[((n + 1) % 12) + 1]
                          + IF LeapYear((n + 1) \div 12) /\ (n + 1) % 12 > 1 THEN 1 ELSE 0
  BY <1>1, FirstOfIs DEF FirstIs
<1> HIDE DEF y, m
<1>5. leap \in {0, 1}
  OBVIOUS
<1>6. FirstOf[n] = DaysOfYears(y) + DaysBefore[m + 1] + IF m > 1 THEN leap ELSE 0
  BY <1>4
<1>7. CASE m = 11
  <2>1. FirstOf[n + 1] = DaysOfYears(y + 1) + DaysBefore[1] + 0
    BY <1>2, <1>4, <1>7
  <2>2. DaysBefore[1] = 0 /\ DaysBefore[12] = 334
    BY DEF DaysBefore
  <2>3. FirstOf[n] = DaysOfYears(y) + 334 + leap
    BY <1>6, <1>7, <2>2
  <2> HIDE DEF leap
  <2> QED
    BY <1>3, <1>5, <2>1, <2>2, <2>3 DEF DaysInMonth
<1>8. CASE m # 11
  <2>1. FirstOf[n + 1] = DaysOfYears(y) + DaysBefore[m + 2] + IF m > 0 THEN leap ELSE 0
    BY <1>1, <1>2, <1>4, <1>8
  <2>2. DaysBefore[m + 1] \in Nat /\ DaysBefore[m + 2] - DaysBefore[m + 1] \in 28 .. 31 /\ DaysBefore[m + 2] \in Nat
    BY <1>1, <1>8 DEF DaysBefore
  <2> HIDE DEF leap
  <2> QED
    BY <1>1, <1>3, <1>5, <1>6, <2>1, <2>2 DEF DaysInMonth
<1> QED
  BY <1>7, <1>8

(* Later months start later. *)
LEMMA MonthsFollow ==
    ASSUME NEW a \in Int, NEW b \in Int, a < b
    PROVE  FirstOf[a] < FirstOf[b]
<1> DEFINE N == {k \in Nat : FirstOf[a] + k <= FirstOf[a + k]}
<1>1. 0 \in N
  <2>1. a + 0 = a /\ FirstOf[a] \in Int
    BY MonthLengths
  <2> QED
    BY <2>1
<1>2. ASSUME NEW k \in Nat, k \in N PROVE k + 1 \in N
  <2>1. a + k \in Int /\ a + (k + 1) \in Int /\ (a + k) + 1 = a + (k + 1)
    OBVIOUS
  <2>2. FirstOf[a + k] \in Int /\ DaysInMonth(a + k) \in 27 .. 35
    BY <2>1, MonthLengths
  <2>3. FirstOf[a + (k + 1)] \in Int /\ FirstOf[a] \in Int
    BY <2>1, MonthLengths
  <2>4. DaysInMonth(a + k) = FirstOf[a + (k + 1)] - FirstOf[a + k]
    BY <2>1 DEF DaysInMonth
  <2>5. FirstOf[a] + k <= FirstOf[a + k]
    BY <1>2
  <2>6. FirstOf[a] + (k + 1) <= FirstOf[a + (k + 1)]
    BY <2>2, <2>3, <2>4, <2>5
  <2> QED
    BY <2>6
<1> HIDE DEF N
<1>3. \A k \in Nat : k \in N
  BY <1>1, <1>2, SetInduction
<1>4. b - a \in Nat /\ a + (b - a) = b /\ b - a > 0
  OBVIOUS
<1>5. FirstOf[a] + (b - a) <= FirstOf[b]
  BY <1>3, <1>4 DEF N
<1>6. FirstOf[a] \in Int /\ FirstOf[b] \in Int
  BY MonthLengths
<1> QED
  BY <1>4, <1>5, <1>6

(* Days that lie at most b months from the month of today *)
Within(b, d) == d \in FirstOf[Today - b] .. (FirstOf[Today + b + 1] - 1)
(* Months that lie at most b months from it *)
Near(b, n) == n \in (Today - b) .. (Today + b)

(* Days near today are within any larger bound. *)
LEMMA WithinMore ==
    ASSUME NEW b \in Nat, NEW c \in Nat, b <= c, NEW d, Within(b, d)
    PROVE  Within(c, d)
<1>1. Today \in Int /\ Today - b \in Int /\ Today + b + 1 \in Int
      /\ Today - c \in Int /\ Today + c + 1 \in Int
  BY CalendarAssumption
<1>2. /\ FirstOf[Today - b] \in Int /\ FirstOf[Today + b + 1] \in Int
      /\ FirstOf[Today - c] \in Int /\ FirstOf[Today + c + 1] \in Int
  BY <1>1, MonthLengths
<1>3. CASE b = c
  BY <1>3
<1>4. CASE b < c
  <2>1. Today - c < Today - b /\ Today + b + 1 < Today + c + 1
    BY <1>4, CalendarAssumption
  <2>2. FirstOf[Today - c] < FirstOf[Today - b] /\ FirstOf[Today + b + 1] < FirstOf[Today + c + 1]
    BY <1>1, <2>1, MonthsFollow
  <2> QED
    BY <1>2, <2>2 DEF Within
<1> QED
  BY <1>3, <1>4

(* MonthOf finds the month of a day that lies within reach. *)
LEMMA MonthFound ==
    ASSUME NEW b \in Nat, b <= Far + 12 * MaxTurns, NEW d, Within(b, d)
    PROVE  Near(b, MonthOf(d))
<1> DEFINE lo == Today - b
           hi == Today + b
           N == {k \in Nat : d < FirstOf[lo + k + 1]}
<1>0. /\ Today \in Int /\ lo \in Int /\ hi \in Int /\ Far \in Nat /\ MaxTurns \in Nat
      /\ hi - lo \in Nat /\ lo + (hi - lo) + 1 = hi + 1 /\ 12 * MaxTurns \in Nat
  BY CalendarAssumption, ChosenAssumption
<1>1. lo .. hi \subseteq Reach
  BY <1>0 DEF Reach
<1>2. d \in Int /\ FirstOf[lo] <= d /\ d < FirstOf[hi + 1]
  <2>1. FirstOf[lo] \in Int /\ FirstOf[hi + 1] \in Int
    BY <1>0, MonthLengths
  <2> QED
    BY <2>1 DEF Within
<1> HIDE DEF lo, hi
<1>3. \E n \in lo .. hi : FirstOf[n] <= d /\ d < FirstOf[n + 1]
  <2>1. hi - lo \in N
    BY <1>0, <1>2
  <2>2. PICK m \in N : \A k \in N : m <= k
    <3>1. N \in SUBSET Nat /\ N # {}
      BY <2>1
    <3> HIDE DEF N
    <3> QED
      BY <3>1, LeastNumber
  <2>3. m \in Nat /\ m <= hi - lo /\ d < FirstOf[lo + m + 1]
    BY <2>1, <2>2
  <2>4. lo + m \in lo .. hi
    BY <1>0, <2>3
  <2>5. FirstOf[lo + m] <= d
    <3>1. CASE m = 0
      BY <1>0, <1>2, <3>1
    <3>2. CASE m # 0
      <4>1. m - 1 \in Nat /\ ~(m <= m - 1) /\ lo + (m - 1) + 1 = lo + m
        BY <1>0, <2>3, <3>2
      <4>2. m - 1 \notin N
        BY <2>2, <4>1
      <4>3. ~(d < FirstOf[lo + m])
        BY <4>1, <4>2
      <4>4. FirstOf[lo + m] \in Int
        BY <2>4, <1>0, MonthLengths
      <4> QED
        BY <1>2, <4>3, <4>4
    <3> QED
      BY <3>1, <3>2
  <2> QED
    BY <2>3, <2>4, <2>5
<1>4. MonthOf(d) \in Reach /\ FirstOf[MonthOf(d)] <= d /\ d < FirstOf[MonthOf(d) + 1]
  BY <1>1, <1>3 DEF MonthOf
<1> DEFINE n == MonthOf(d)
<1>5. n \in Int
  BY <1>0, <1>4 DEF Reach
<1> HIDE DEF n
<1>6. FirstOf[n] \in Int /\ FirstOf[n + 1] \in Int /\ n + 1 \in Int
      /\ FirstOf[lo] \in Int /\ FirstOf[hi + 1] \in Int
  BY <1>5, <1>0, MonthLengths
<1>7. FirstOf[n] <= d /\ d < FirstOf[n + 1]
  BY <1>4 DEF n
<1>8. n <= hi
  <2> SUFFICES ASSUME hi + 1 <= n PROVE FALSE
    BY <1>0, <1>5
  <2>1. hi + 1 = n \/ FirstOf[hi + 1] < FirstOf[n]
    BY <1>0, <1>5, MonthsFollow
  <2>2. FirstOf[hi + 1] <= FirstOf[n]
    BY <1>6, <2>1
  <2> QED
    BY <1>2, <1>6, <1>7, <2>2
<1>9. lo <= n
  <2> SUFFICES ASSUME n + 1 <= lo PROVE FALSE
    BY <1>0, <1>5
  <2>1. n + 1 = lo \/ FirstOf[n + 1] < FirstOf[lo]
    BY <1>0, <1>5, <1>6, MonthsFollow
  <2>2. FirstOf[n + 1] <= FirstOf[lo]
    BY <1>6, <2>1
  <2> QED
    BY <1>2, <1>6, <1>7, <2>2
<1>10. n \in lo .. hi
  BY <1>0, <1>5, <1>8, <1>9
<1> QED
  BY <1>10 DEF Near, n, lo, hi

(* The place of cell k in month n, counted from its first day *)
NumberAt(n, k) == k + FirstDay - 1 - FirstDayOfMonthIndex(n)

(* The first of a month is on a weekday; a cell is 7 days before it at most. *)
LEMMA NumberTyped ==
    ASSUME NEW n \in Int, NEW k \in 1 .. 42
    PROVE  /\ FirstDayOfMonthIndex(n) \in 1 .. 7
           /\ NumberAt(n, k) \in -7 .. 41
<1>1. FirstOf[n] \in Int
  BY MonthLengths
<1>2. FirstDayOfMonthIndex(n) \in 1 .. 7
  BY <1>1 DEF FirstDayOfMonthIndex
<1> QED
  BY <1>2, CalendarAssumption DEF NumberAt

(* The days of a grid follow each other, and its own are in the middle. *)
LEMMA DayAtIs ==
    ASSUME NEW n \in Reach, n \in Int, NEW k \in 1 .. 42
    PROVE  /\ DayAt(n, k) = FirstOf[n] + NumberAt(n, k)
           /\ Grid[n][k].kind = "own" <=> NumberAt(n, k) \in 0 .. (DaysInMonth(n) - 1)
<1> DEFINE x == NumberAt(n, k)
<1>1. x \in Int
  <2>1. x \in -7 .. 41
    BY NumberTyped
  <2> HIDE DEF x
  <2> QED
    BY <2>1
<1>2. Grid[n][k] = Cell(n, k)
  BY DEF Grid
<1>3. n - 1 \in Int /\ n + 1 \in Int /\ (n - 1) + 1 = n
  OBVIOUS
<1>4. /\ FirstOf[n] \in Int /\ FirstOf[n - 1] \in Int /\ FirstOf[n + 1] \in Int
      /\ DaysInMonth(n) \in Int
  BY <1>3, MonthLengths
<1>5. DaysInMonth(n) = FirstOf[n + 1] - FirstOf[n] /\ DaysInMonth(n - 1) = FirstOf[n] - FirstOf[n - 1]
  BY <1>3 DEF DaysInMonth
<1>6. Cell(n, k) = IF x < 0
                   THEN [month |-> n - 1, number |-> DaysInMonth(n - 1) + x + 1, kind |-> "prev"]
                   ELSE IF x + 1 > DaysInMonth(n)
                   THEN [month |-> n + 1, number |-> x + 1 - DaysInMonth(n), kind |-> "next"]
                   ELSE [month |-> n, number |-> x + 1, kind |-> "own"]
  BY DEF Cell, NumberAt
<1>7. DayAt(n, k) = FirstOf[Cell(n, k).month] + Cell(n, k).number - 1
  BY <1>2 DEF DayAt, DayOf
<1> HIDE DEF x
<1>8. CASE x < 0
  <2>1. Cell(n, k).month = n - 1 /\ Cell(n, k).number = DaysInMonth(n - 1) + x + 1
        /\ Cell(n, k).kind = "prev"
    BY <1>6, <1>8
  <2>2. DayAt(n, k) = FirstOf[n - 1] + (DaysInMonth(n - 1) + x + 1) - 1
    BY <1>7, <2>1
  <2>3. DayAt(n, k) = FirstOf[n] + x
    BY <1>1, <1>4, <1>5, <2>2
  <2>4. Grid[n][k].kind # "own" /\ ~(x \in 0 .. (DaysInMonth(n) - 1))
    BY <1>2, <2>1, <1>1, <1>8
  <2> QED
    BY <2>3, <2>4 DEF x
<1>9. CASE x >= 0 /\ x + 1 > DaysInMonth(n)
  <2>1. Cell(n, k).month = n + 1 /\ Cell(n, k).number = x + 1 - DaysInMonth(n)
        /\ Cell(n, k).kind = "next"
    BY <1>1, <1>6, <1>9
  <2>2. DayAt(n, k) = FirstOf[n + 1] + (x + 1 - DaysInMonth(n)) - 1
    BY <1>7, <2>1
  <2>3. DayAt(n, k) = FirstOf[n] + x
    BY <1>1, <1>4, <1>5, <2>2
  <2>4. Grid[n][k].kind # "own"
    BY <1>2, <2>1
  <2>5. ~(x \in 0 .. (DaysInMonth(n) - 1))
    BY <1>1, <1>4, <1>9
  <2> QED
    BY <2>3, <2>4, <2>5 DEF x
<1>10. CASE x >= 0 /\ ~(x + 1 > DaysInMonth(n))
  <2>1. Cell(n, k).month = n /\ Cell(n, k).number = x + 1 /\ Cell(n, k).kind = "own"
    BY <1>1, <1>6, <1>10
  <2>2. DayAt(n, k) = FirstOf[n] + (x + 1) - 1
    BY <1>7, <2>1
  <2>3. DayAt(n, k) = FirstOf[n] + x
    BY <1>1, <1>4, <2>2
  <2>4. Grid[n][k].kind = "own"
    BY <1>2, <2>1
  <2>5. x \in 0 .. (DaysInMonth(n) - 1)
    BY <1>1, <1>4, <1>10
  <2> QED
    BY <2>3, <2>4, <2>5 DEF x
<1> QED
  BY <1>1, <1>8, <1>9, <1>10

(* Every grid has the days in order, and those of its month once each. *)
LEMMA GridWhole ==
    ASSUME NEW n \in Reach, n \in Int
    PROVE  GridIsWhole[n]
<1> DEFINE own == {k \in 1 .. 42 : Grid[n][k].kind = "own"}
           days == FirstOf[n] .. (FirstOf[n + 1] - 1)
<1>0. /\ FirstOf[n] \in Int /\ FirstOf[n + 1] \in Int /\ DaysInMonth(n) \in 27 .. 35
      /\ DaysInMonth(n) = FirstOf[n + 1] - FirstOf[n]
  BY MonthLengths DEF DaysInMonth
<1>1. ASSUME NEW k \in 1 .. 41 PROVE DayAt(n, k + 1) = DayAt(n, k) + 1
  <2>1. k \in 1 .. 42 /\ k + 1 \in 1 .. 42
    OBVIOUS
  <2>2. NumberAt(n, k + 1) = NumberAt(n, k) + 1 /\ NumberAt(n, k) \in Int
    <3>1. FirstDayOfMonthIndex(n) \in Int /\ FirstDay \in Int /\ k \in Int
      BY <2>1, NumberTyped, CalendarAssumption
    <3> QED
      BY <3>1 DEF NumberAt
  <2>3. DayAt(n, k + 1) = FirstOf[n] + NumberAt(n, k + 1) /\ DayAt(n, k) = FirstOf[n] + NumberAt(n, k)
    BY <2>1, DayAtIs
  <2> QED
    BY <1>0, <2>2, <2>3
<1>2. ASSUME NEW k \in own PROVE DayAt(n, k) \in days
  <2>1. k \in 1 .. 42
    OBVIOUS
  <2>2. DayAt(n, k) = FirstOf[n] + NumberAt(n, k) /\ NumberAt(n, k) \in 0 .. (DaysInMonth(n) - 1)
    BY <2>1, DayAtIs
  <2> QED
    BY <1>0, <2>2
<1>3. ASSUME NEW d \in days PROVE \E k \in own : DayAt(n, k) = d
  <2> DEFINE k == (d - FirstOf[n]) - FirstDay + 1 + FirstDayOfMonthIndex(n)
  <2>1. FirstDayOfMonthIndex(n) \in 1 .. 7 /\ FirstDay \in {0, 1}
    <3>1. 1 \in 1 .. 42
      OBVIOUS
    <3> QED
      BY <3>1, NumberTyped, CalendarAssumption
  <2>2. d - FirstOf[n] \in 0 .. (DaysInMonth(n) - 1)
    BY <1>0
  <2>3. k \in 1 .. 42
    BY <1>0, <2>1, <2>2
  <2>4. NumberAt(n, k) = d - FirstOf[n]
    BY <1>0, <2>1, <2>2 DEF NumberAt
  <2> HIDE DEF k
  <2>5. Grid[n][k].kind = "own" /\ DayAt(n, k) = FirstOf[n] + (d - FirstOf[n])
    BY <2>2, <2>3, <2>4, DayAtIs
  <2>6. DayAt(n, k) = d
    BY <1>0, <2>5
  <2> QED
    BY <2>3, <2>5, <2>6
<1>4. {DayAt(n, k) : k \in own} = days
  BY <1>2, <1>3
<1>5. GridIsWhole[n] = (/\ \A k \in 1 .. 41 : DayAt(n, k + 1) = DayAt(n, k) + 1
                        /\ {DayAt(n, k) : k \in own} = days)
  BY DEF GridIsWhole
<1> HIDE DEF own, days
<1>6. \A k \in 1 .. 41 : DayAt(n, k + 1) = DayAt(n, k) + 1
  BY <1>1
<1> QED
  BY <1>4, <1>5, <1>6, Zenon

(* The days a grid shows are of its month or of a neighbour. *)
LEMMA DayNear ==
    ASSUME NEW b \in Nat, NEW n \in Reach, Near(b, n), NEW k \in 1 .. 42
    PROVE  Within(b + 1, DayAt(n, k))
<1>0. Today \in Int /\ n \in Int /\ Today - b <= n /\ n <= Today + b
  BY CalendarAssumption DEF Near
<1> DEFINE lo == Today - (b + 1)
           hi == Today + (b + 1) + 1
<1>1. lo \in Int /\ hi \in Int /\ n - 1 \in Int /\ n + 1 \in Int /\ n + 2 \in Int /\ (n - 1) + 1 = n
      /\ (n + 1) + 1 = n + 2 /\ lo <= n - 1 /\ n + 2 <= hi
  BY <1>0
<1> HIDE DEF lo, hi
<1>2. /\ FirstOf[n] \in Int /\ FirstOf[n - 1] \in Int /\ FirstOf[n + 1] \in Int /\ FirstOf[n + 2] \in Int
      /\ FirstOf[lo] \in Int /\ FirstOf[hi] \in Int
  BY <1>0, <1>1, MonthLengths
<1>3. FirstOf[n] - FirstOf[n - 1] \in 27 .. 35
  BY <1>0, <1>1, MonthLengths DEF DaysInMonth
<1>4. FirstOf[n + 1] - FirstOf[n] \in 27 .. 35
  BY <1>0, <1>1, MonthLengths DEF DaysInMonth
<1>5. FirstOf[n + 2] - FirstOf[n + 1] \in 27 .. 35
  BY <1>0, <1>1, MonthLengths DEF DaysInMonth
<1>6. DayAt(n, k) = FirstOf[n] + NumberAt(n, k) /\ NumberAt(n, k) \in -7 .. 41
  BY <1>0, DayAtIs, NumberTyped
<1>7. FirstOf[lo] <= FirstOf[n - 1]
  <2>1. lo = n - 1 \/ FirstOf[lo] < FirstOf[n - 1]
    BY <1>1, MonthsFollow
  <2> QED
    BY <1>2, <2>1
<1>8. FirstOf[n + 2] <= FirstOf[hi]
  <2>1. n + 2 = hi \/ FirstOf[n + 2] < FirstOf[hi]
    BY <1>1, MonthsFollow
  <2> QED
    BY <1>2, <2>1
<1>9. DayAt(n, k) \in FirstOf[lo] .. (FirstOf[hi] - 1)
  BY <1>2, <1>3, <1>4, <1>5, <1>6, <1>7, <1>8
<1> QED
  BY <1>9 DEF Within, lo, hi

(* The types of a month in the wrapper, of the end waited for, and of p *)
MonthRecords ==
    [month : Int, class : {"none", "prev", "current", "next"}, at : Int, marked : SUBSET Int]
EndRecords == [due : BOOLEAN, dir : {"next", "prev"}, both : BOOLEAN, old : BOOLEAN]
CalRecords ==
    [multiple : BOOLEAN, closeOnSelect : BOOLEAN, kind : {"inline", "picker", "popover"},
     given : Values, set : BOOLEAN, value : Seq(Int), month : Int, translate : Int,
     animating : BOOLEAN, opened : BOOLEAN, listening : BOOLEAN, months : Seq(MonthRecords),
     ending : EndRecords, torn : BOOLEAN, fading : BOOLEAN]

(* The days chosen are near today. *)
ValueWithin(value, b) == \A i \in DOMAIN value : Within(b, value[i])

(* Each month in the wrapper is near, and marks the days chosen. *)
MonthsTrue(ps, value, b) ==
    \A i \in DOMAIN ps : /\ Near(b + 1, ps[i].month)
                         /\ ps[i].marked = DaysShown[ps[i].month] \cap ToSet(value)

(* One month only is the current one, and it is the month in view. *)
OneCurrent(ps, n) ==
    \E i \in DOMAIN ps : /\ ps[i].class = "current" /\ ps[i].month = n
                         /\ \A j \in DOMAIN ps : ps[j].class = "current" => j = i

(* A slide forward: the last two months stay, and the last is n. *)
EndsNext(ps, n) ==
    /\ Len(ps) >= 2
    /\ ps[Len(ps)].month = n /\ ps[Len(ps) - 1].month = n - 1
    /\ \A i \in 1 .. Len(ps) : ps[i].class = "none" <=> i < Len(ps) - 1

(* A slide back: the first two months stay, and the first is n. *)
EndsPrev(ps, n) ==
    /\ Len(ps) >= 2
    /\ ps[1].month = n /\ ps[2].month = n + 1
    /\ \A i \in 1 .. Len(ps) : ps[i].class = "none" <=> i > 2

(* Month n lies between its neighbours. *)
InOrder(ps, n, t) ==
    /\ Len(ps) = 3
    /\ ps[1].month = n - 1 /\ ps[2].month = n /\ ps[3].month = n + 1
    /\ \A i \in 1 .. 3 : ps[i].at + t = i - 2

(* An end is waited for during a slide only, one month is current then, and
   if the slide was not turned back it leaves the two months it should. *)
CalSlides(s) ==
    /\ s.ending.due => s.animating /\ OneCurrent(s.months, s.month)
    /\ s.ending.old => s.ending.due
    /\ s.ending.due /\ ~s.ending.both /\ ~s.torn =>
          IF s.ending.dir = "next" THEN EndsNext(s.months, s.month) ELSE EndsPrev(s.months, s.month)

(* At rest three months lie in order. *)
CalRests(s) ==
    /\ s.opened => Len(s.months) >= 1
    /\ s.opened /\ ~s.animating /\ ~s.torn => InOrder(s.months, s.month, s.translate)

(* What holds of the calendar, whose months are at most b from today *)
CalGood(s, b) ==
    /\ s \in CalRecords
    /\ Near(b, s.month) /\ ValueWithin(s.value, b) /\ MonthsTrue(s.months, s.value, b)
    /\ CalSlides(s) /\ CalRests(s)

(* onMonthChangeStart: what it leaves *)
Turned(ps, current, left, to, qs) ==
    /\ qs \in Seq(MonthRecords) /\ Len(qs) = Len(ps)
    /\ \A i \in 1 .. Len(ps) :
          /\ qs[i].month = ps[i].month /\ qs[i].at = ps[i].at /\ qs[i].marked = ps[i].marked
          /\ qs[i].class = IF i = current THEN "current" ELSE IF i # left THEN "none" ELSE to

Classed(ps, current, left, to) ==
    [i \in DOMAIN ps |-> [ps[i] EXCEPT !.class = IF i = current THEN "current"
                                                 ELSE IF i # left THEN "none" ELSE to]]

(* The new classes change nothing else of the months. *)
LEMMA TurnedIs ==
    ASSUME NEW ps \in Seq(MonthRecords), NEW current, NEW left, NEW to \in {"prev", "next"}
    PROVE  Turned(ps, current, left, to, Classed(ps, current, left, to))
<1> DEFINE c(i) == IF i = current THEN "current" ELSE IF i # left THEN "none" ELSE to
           qs == [i \in DOMAIN ps |-> [ps[i] EXCEPT !.class = c(i)]]
<1>1. DOMAIN ps = 1 .. Len(ps) /\ Len(ps) \in Nat /\ \A i \in 1 .. Len(ps) : ps[i] \in MonthRecords
  OBVIOUS
<1>2. \A i : c(i) \in {"none", "prev", "current", "next"}
  OBVIOUS
<1> HIDE DEF c
<1>3. ASSUME NEW i \in 1 .. Len(ps)
      PROVE  /\ qs[i].month = ps[i].month /\ qs[i].at = ps[i].at /\ qs[i].marked = ps[i].marked
             /\ qs[i].class = c(i) /\ qs[i] \in MonthRecords
  <2>1. qs[i] = [ps[i] EXCEPT !.class = c(i)]
    BY <1>1
  <2>2. ps[i] = [month |-> ps[i].month, class |-> ps[i].class, at |-> ps[i].at, marked |-> ps[i].marked]
        /\ ps[i].month \in Int /\ ps[i].at \in Int /\ ps[i].marked \in SUBSET Int
    BY <1>1 DEF MonthRecords
  <2>3. qs[i] = [month |-> ps[i].month, class |-> c(i), at |-> ps[i].at, marked |-> ps[i].marked]
    BY <2>1, <2>2
  <2> QED
    BY <1>2, <2>2, <2>3 DEF MonthRecords
<1>4. qs = [i \in 1 .. Len(ps) |-> qs[i]]
  BY <1>1
<1> HIDE DEF qs
<1>5. qs \in [1 .. Len(ps) -> MonthRecords]
  BY <1>3, <1>4
<1>6. qs \in Seq(MonthRecords) /\ Len(qs) = Len(ps)
  BY <1>1, <1>5
<1>7. Turned(ps, current, left, to, qs)
  BY <1>3, <1>6 DEF Turned, c
<1>8. Classed(ps, current, left, to) = qs
  BY DEF Classed, qs, c
<1> QED
  BY <1>7, <1>8

(* What onMonthChangeStart changes of p, and what it leaves *)
ChangesTo(s, ps, dir, t, both, r) ==
    LET current == IF dir = "next" THEN Len(ps) ELSE 1
        left == IF dir = "next" THEN current - 1 ELSE current + 1
        turnedBack == s.ending.due /\ ~s.ending.both /\ (both \/ dir # s.ending.dir)
    IN  /\ r \in CalRecords
        /\ Turned(ps, current, left, IF dir = "next" THEN "prev" ELSE "next", r.months)
        /\ r.month = ps[current].month /\ r.translate = t /\ r.animating = TRUE
        /\ r.ending = IF s.animating THEN s.ending
                      ELSE [due |-> TRUE, dir |-> dir, both |-> both, old |-> FALSE]
        /\ r.torn = (s.torn \/ turnedBack)
        /\ r.value = s.value /\ r.opened = s.opened

(* ChangeStart changes that. *)
LEMMA ChangeStartIs ==
    ASSUME NEW s \in CalRecords, NEW ps \in Seq(MonthRecords), Len(ps) >= 1,
           NEW dir \in {"next", "prev"}, NEW t \in Int, NEW both \in BOOLEAN
    PROVE  ChangesTo(s, ps, dir, t, both, ChangeStart(s, ps, dir, t, both))
<1> DEFINE current == IF dir = "next" THEN Len(ps) ELSE 1
           left == IF dir = "next" THEN current - 1 ELSE current + 1
           to == IF dir = "next" THEN "prev" ELSE "next"
           turnedBack == s.ending.due /\ ~s.ending.both /\ (both \/ dir # s.ending.dir)
           qs == Classed(ps, current, left, to)
           new == [due |-> TRUE, dir |-> dir, both |-> both, old |-> FALSE]
           end == IF s.animating THEN s.ending ELSE new
           n == ps[current].month
           torn == s.torn \/ turnedBack
           r == [s EXCEPT !.months = qs, !.month = n, !.translate = t, !.animating = TRUE,
                          !.ending = end, !.torn = torn]
<1>1. Turned(ps, current, left, to, qs)
  <2>1. to \in {"prev", "next"}
    OBVIOUS
  <2> HIDE DEF current, left, to
  <2> QED
    BY <2>1, TurnedIs
<1>2. qs \in Seq(MonthRecords)
  BY <1>1 DEF Turned
<1>3. n \in Int
  <2>1. current \in 1 .. Len(ps)
    OBVIOUS
  <2>2. ps[current] \in MonthRecords
    BY <2>1
  <2> QED
    BY <2>2 DEF MonthRecords
<1>4. end \in EndRecords /\ torn \in BOOLEAN
  <2>1. s.ending \in EndRecords /\ s.torn \in BOOLEAN
    BY DEF CalRecords
  <2>2. new \in EndRecords
    BY DEF EndRecords
  <2> QED
    BY <2>1, <2>2
<1>5. ChangeStart(s, ps, dir, t, both) = r
  BY DEF ChangeStart, Classed
<1> HIDE DEF qs, end, n, torn
<1>6. r \in CalRecords
  BY <1>2, <1>3, <1>4 DEF CalRecords
<1>7. /\ r.months = qs /\ r.month = n /\ r.translate = t /\ r.animating = TRUE
      /\ r.ending = end /\ r.torn = torn /\ r.value = s.value /\ r.opened = s.opened
  BY DEF CalRecords
<1> HIDE DEF r
<1>8. ChangesTo(s, ps, dir, t, both, r)
  BY <1>1, <1>6, <1>7 DEF ChangesTo, n, end, torn
<1> QED
  BY <1>5, <1>8

(* What is near is near with any larger bound. *)
LEMMA NearMore ==
    ASSUME NEW b \in Nat, NEW c \in Nat, b <= c, NEW n, Near(b, n)
    PROVE  n \in Int /\ Near(c, n)
  BY CalendarAssumption DEF Near

(* So for the months, *)
LEMMA MonthsMore ==
    ASSUME NEW b \in Nat, NEW c \in Nat, b <= c, NEW ps, NEW value, MonthsTrue(ps, value, b)
    PROVE  MonthsTrue(ps, value, c)
<1>1. b + 1 \in Nat /\ c + 1 \in Nat /\ b + 1 <= c + 1
  OBVIOUS
<1> QED
  BY <1>1, NearMore DEF MonthsTrue

(* the days chosen, *)
LEMMA ValueMore ==
    ASSUME NEW b \in Nat, NEW c \in Nat, b <= c, NEW value, ValueWithin(value, b)
    PROVE  ValueWithin(value, c)
  BY WithinMore DEF ValueWithin

(* and the calendar. *)
LEMMA GoodMore ==
    ASSUME NEW b \in Nat, NEW c \in Nat, b <= c, NEW s, CalGood(s, b)
    PROVE  CalGood(s, c)
  BY NearMore, MonthsMore, ValueMore DEF CalGood

(* The month put in last is next to the one that was in view. *)
EndsNextTo(ps, dir) ==
    /\ Len(ps) >= 2
    /\ IF dir = "next" THEN ps[Len(ps) - 1].month = ps[Len(ps)].month - 1
       ELSE ps[2].month = ps[1].month + 1

(* A slide keeps what holds when the month that comes in is marked and near,
   and follows on the one in view, unless the slide turns back or is one of
   setYearMonth. *)
LEMMA TurnGood ==
    ASSUME NEW b \in Nat, NEW c \in Nat, b <= c, NEW s, CalGood(s, b), s.opened,
           NEW ps \in Seq(MonthRecords), Len(ps) >= 1,
           NEW dir \in {"next", "prev"}, NEW t \in Int, NEW both \in BOOLEAN,
           MonthsTrue(ps, s.value, c),
           Near(c, ps[IF dir = "next" THEN Len(ps) ELSE 1].month),
           ~s.torn /\ ~both
             /\ (s.animating => s.ending.due /\ ~s.ending.both /\ s.ending.dir = dir)
             => EndsNextTo(ps, dir)
    PROVE  CalGood(ChangeStart(s, ps, dir, t, both), c)
<1> DEFINE r == ChangeStart(s, ps, dir, t, both)
           current == IF dir = "next" THEN Len(ps) ELSE 1
           left == IF dir = "next" THEN current - 1 ELSE current + 1
           to == IF dir = "next" THEN "prev" ELSE "next"
           turnedBack == s.ending.due /\ ~s.ending.both /\ (both \/ dir # s.ending.dir)
           new == [due |-> TRUE, dir |-> dir, both |-> both, old |-> FALSE]
<1>0. s \in CalRecords /\ ValueWithin(s.value, b) /\ s.ending \in EndRecords /\ s.ending.due \in BOOLEAN
      /\ s.animating \in BOOLEAN /\ s.torn \in BOOLEAN /\ s.ending.both \in BOOLEAN
      /\ s.ending.dir \in {"next", "prev"}
  BY DEF CalGood, CalRecords, EndRecords
<1>1. ChangesTo(s, ps, dir, t, both, r)
  BY <1>0, ChangeStartIs
<1>2. current \in 1 .. Len(ps) /\ Len(ps) \in Nat /\ DOMAIN ps = 1 .. Len(ps)
  OBVIOUS
<1> HIDE DEF r
<1>3. /\ r \in CalRecords /\ Turned(ps, current, left, to, r.months)
      /\ r.month = ps[current].month /\ r.animating = TRUE
      /\ r.ending = IF s.animating THEN s.ending ELSE new
      /\ r.torn = (s.torn \/ turnedBack)
      /\ r.value = s.value /\ r.opened = s.opened
  BY <1>1 DEF ChangesTo
<1> DEFINE qs == r.months
<1>4. /\ Len(qs) = Len(ps) /\ DOMAIN qs = 1 .. Len(ps)
      /\ \A i \in 1 .. Len(ps) :
            /\ qs[i].month = ps[i].month /\ qs[i].marked = ps[i].marked
            /\ qs[i].class = IF i = current THEN "current" ELSE IF i # left THEN "none" ELSE to
  <2> HIDE DEF current, left, to
  <2>1. Turned(ps, current, left, to, qs)
    BY <1>3
  <2> HIDE DEF qs
  <2>2. qs \in Seq(MonthRecords) /\ Len(qs) = Len(ps)
    BY <2>1 DEF Turned
  <2>3. DOMAIN qs = 1 .. Len(ps)
    BY <2>2
  <2> QED
    BY <2>1, <2>2, <2>3 DEF Turned
<1> HIDE DEF qs
<1>5. Near(c, r.month) /\ ValueWithin(r.value, c)
  <2>1. Near(c, ps[current].month)
    OBVIOUS
  <2> QED
    BY <2>1, <1>0, <1>3, ValueMore
<1>6. MonthsTrue(qs, r.value, c)
  <2> SUFFICES ASSUME NEW i \in 1 .. Len(ps)
               PROVE  /\ Near(c + 1, qs[i].month)
                      /\ qs[i].marked = DaysShown[qs[i].month] \cap ToSet(r.value)
    BY <1>4 DEF MonthsTrue
  <2>1. /\ Near(c + 1, ps[i].month)
        /\ ps[i].marked = DaysShown[ps[i].month] \cap ToSet(s.value)
    BY <1>2 DEF MonthsTrue
  <2>2. qs[i].month = ps[i].month /\ qs[i].marked = ps[i].marked
    BY <1>4
  <2> QED
    BY <1>3, <2>1, <2>2
<1>7. OneCurrent(qs, r.month)
  <2>1. to # "current"
    OBVIOUS
  <2> HIDE DEF current, left, to
  <2>2. qs[current].class = "current" /\ qs[current].month = r.month
    BY <1>2, <1>3, <1>4
  <2>3. \A j \in 1 .. Len(ps) : qs[j].class = "current" => j = current
    BY <2>1, <1>4
  <2> QED
    BY <2>2, <2>3, <1>2, <1>4 DEF OneCurrent
<1>8. new.due = TRUE /\ new.dir = dir /\ new.both = both /\ new.old = FALSE
  OBVIOUS
<1> HIDE DEF new
<1>9. r.ending.old => r.ending.due
  BY <1>3, <1>8 DEF CalGood, CalSlides
<1>10. ASSUME r.ending.due, ~r.ending.both, ~r.torn
       PROVE  r.ending.dir = dir /\ EndsNextTo(ps, dir)
  <2>1. CASE s.animating
    BY <1>10, <1>3, <2>1
  <2>2. CASE ~s.animating
    BY <1>10, <1>3, <1>8, <2>2
  <2> QED
    BY <2>1, <2>2
<1>11. ASSUME EndsNextTo(ps, dir), dir = "next"
       PROVE  EndsNext(qs, r.month)
  <2>1. current = Len(ps) /\ left = Len(ps) - 1 /\ to = "prev" /\ Len(ps) >= 2
    BY <1>11, <1>2 DEF EndsNextTo
  <2>2. ps[Len(ps) - 1].month = ps[Len(ps)].month - 1
    BY <1>11 DEF EndsNextTo
  <2> HIDE DEF current, left, to
  <2>3. Len(ps) - 1 \in 1 .. Len(ps) /\ Len(ps) \in 1 .. Len(ps)
    BY <1>2, <2>1
  <2>4. qs[Len(qs)].month = r.month /\ qs[Len(qs) - 1].month = r.month - 1
    BY <1>3, <1>4, <2>1, <2>2, <2>3
  <2>5. ASSUME NEW i \in 1 .. Len(qs) PROVE qs[i].class = "none" <=> i < Len(qs) - 1
    <3>1. i = Len(ps) \/ i = Len(ps) - 1 \/ (i < Len(ps) - 1 /\ i # Len(ps) /\ i # Len(ps) - 1)
      BY <1>2, <1>4
    <3>2. Len(ps) # Len(ps) - 1 /\ ~(Len(ps) < Len(ps) - 1) /\ ~(Len(ps) - 1 < Len(ps) - 1)
      <4>1. \A m \in Nat : m # m - 1 /\ ~(m < m - 1) /\ ~(m - 1 < m - 1)
        OBVIOUS
      <4> QED
        BY <1>2, <4>1
    <3>3. qs[i].class = IF i = current THEN "current" ELSE IF i # left THEN "none" ELSE to
      BY <1>4
    <3> QED
      BY <1>4, <2>1, <3>1, <3>2, <3>3
  <2> QED
    BY <1>4, <2>1, <2>4, <2>5 DEF EndsNext
<1>12. ASSUME EndsNextTo(ps, dir), dir # "next"
       PROVE  EndsPrev(qs, r.month)
  <2>1. current = 1 /\ left = 2 /\ to = "next" /\ Len(ps) >= 2
    BY <1>12, <1>2 DEF EndsNextTo
  <2>2. ps[2].month = ps[1].month + 1
    BY <1>12 DEF EndsNextTo
  <2> HIDE DEF current, left, to
  <2>3. 1 \in 1 .. Len(ps) /\ 2 \in 1 .. Len(ps)
    BY <1>2, <2>1
  <2>4. qs[1].month = r.month /\ qs[2].month = r.month + 1
    BY <1>3, <1>4, <2>1, <2>2, <2>3
  <2>5. ASSUME NEW i \in 1 .. Len(qs) PROVE qs[i].class = "none" <=> i > 2
    <3>1. i = 1 \/ i = 2 \/ (i > 2 /\ i # 1 /\ i # 2)
      BY <1>2, <1>4
    <3>3. qs[i].class = IF i = current THEN "current" ELSE IF i # left THEN "none" ELSE to
      BY <1>4
    <3> QED
      BY <2>1, <3>1, <3>3
  <2> QED
    BY <1>4, <2>1, <2>4, <2>5 DEF EndsPrev
<1> HIDE DEF current, left, to
<1>13. CalSlides(r)
  BY <1>3, <1>7, <1>9, <1>10, <1>11, <1>12 DEF CalSlides, qs
<1>14. CalRests(r)
  BY <1>3, <1>4 DEF CalRests, qs
<1>15. CalGood(r, c)
  BY <1>3, <1>5, <1>6, <1>13, <1>14 DEF CalGood, qs
<1> QED
  BY <1>15 DEF r

(* A new month of the wrapper at its place *)
MonthAt(n, value, at) == [MonthHTML(n, value) EXCEPT !.at = at]

(* p is month n, with the days chosen marked. *)
IsMonth(p, n, value) ==
    p \in MonthRecords /\ p.month = n /\ p.marked = DaysShown[n] \cap ToSet(value)

(* monthHTML makes such a month. *)
LEMMA NewMonth ==
    ASSUME NEW n \in Int, NEW value \in Seq(Int), NEW at \in Int
    PROVE  IsMonth(MonthHTML(n, value), n, value) /\ IsMonth(MonthAt(n, value, at), n, value)
<1> DEFINE m == DaysShown[n] \cap ToSet(value)
<1>1. m \in SUBSET Int
  BY DEF ToSet
<1>2. MonthHTML(n, value) = [month |-> n, class |-> "none", at |-> 0, marked |-> m]
  BY DEF MonthHTML
<1>4. m = DaysShown[n] \cap ToSet(value)
  OBVIOUS
<1> HIDE DEF m
<1>3. MonthAt(n, value, at) = [month |-> n, class |-> "none", at |-> at, marked |-> m]
  <2>1. MonthAt(n, value, at) = [[month |-> n, class |-> "none", at |-> 0, marked |-> m] EXCEPT !.at = at]
    BY <1>2 DEF MonthAt
  <2> QED
    BY <2>1
<1> QED
  BY <1>1, <1>2, <1>3, <1>4 DEF IsMonth, MonthRecords

(* qs is ps with p behind it, or ahead of it. *)
PutsBehind(ps, p, qs) ==
    /\ qs \in Seq(MonthRecords) /\ Len(qs) = Len(ps) + 1
    /\ qs[Len(ps) + 1] = p /\ \A i \in 1 .. Len(ps) : qs[i] = ps[i]

PutsAhead(ps, p, qs) ==
    /\ qs \in Seq(MonthRecords) /\ Len(qs) = Len(ps) + 1
    /\ qs[1] = p /\ \A i \in 1 .. Len(ps) : qs[i + 1] = ps[i]

(* Append puts a month behind, *)
LEMMA PutBehind ==
    ASSUME NEW ps \in Seq(MonthRecords), NEW p \in MonthRecords
    PROVE  PutsBehind(ps, p, Append(ps, p))
  BY DEF PutsBehind

(* and the other way round ahead. *)
LEMMA PutAhead ==
    ASSUME NEW ps \in Seq(MonthRecords), NEW p \in MonthRecords
    PROVE  PutsAhead(ps, p, <<p>> \o ps)
<1>1. <<p>> \in Seq(MonthRecords) /\ Len(<<p>>) = 1 /\ <<p>>[1] = p /\ Len(ps) \in Nat
  OBVIOUS
<1> DEFINE one == <<p>>
<1>2. one \in Seq(MonthRecords) /\ Len(one) = 1 /\ one[1] = p
  BY <1>1
<1> HIDE DEF one
<1>3. /\ one \o ps \in Seq(MonthRecords) /\ Len(one \o ps) = Len(one) + Len(ps)
      /\ \A i \in 1 .. Len(one) + Len(ps) :
            (one \o ps)[i] = IF i <= Len(one) THEN one[i] ELSE ps[i - Len(one)]
  BY <1>2, ConcatProperties
<1> DEFINE qs == one \o ps
<1> HIDE DEF qs
<1>4. /\ qs \in Seq(MonthRecords) /\ Len(qs) = Len(ps) + 1
      /\ \A i \in 1 .. Len(ps) + 1 : qs[i] = IF i <= 1 THEN one[i] ELSE ps[i - 1]
  BY <1>1, <1>2, <1>3 DEF qs
<1>5. qs[1] = p
  BY <1>1, <1>2, <1>4
<1>6. ASSUME NEW i \in 1 .. Len(ps) PROVE qs[i + 1] = ps[i]
  <2>1. i + 1 \in 1 .. Len(ps) + 1 /\ ~(i + 1 <= 1) /\ (i + 1) - 1 = i
    BY <1>1
  <2> QED
    BY <1>4, <2>1
<1>7. PutsAhead(ps, p, qs)
  BY <1>1, <1>4, <1>5, <1>6 DEF PutsAhead
<1> QED
  BY <1>7 DEF qs, one

(* Months that are true stay true with one more behind, *)
LEMMA BehindTrue ==
    ASSUME NEW ps \in Seq(MonthRecords), NEW value, NEW c, MonthsTrue(ps, value, c),
           NEW n, Near(c + 1, n), NEW p, IsMonth(p, n, value), NEW qs, PutsBehind(ps, p, qs)
    PROVE  MonthsTrue(qs, value, c)
<1>1. DOMAIN qs = 1 .. (Len(ps) + 1) /\ DOMAIN ps = 1 .. Len(ps) /\ Len(ps) \in Nat
  BY DEF PutsBehind
<1> SUFFICES ASSUME NEW i \in 1 .. (Len(ps) + 1)
             PROVE  /\ Near(c + 1, qs[i].month)
                    /\ qs[i].marked = DaysShown[qs[i].month] \cap ToSet(value)
  BY <1>1 DEF MonthsTrue
<1>2. i = Len(ps) + 1 \/ i \in 1 .. Len(ps)
  BY <1>1
<1>3. CASE i = Len(ps) + 1
  <2>1. qs[i] = p
    BY <1>3 DEF PutsBehind
  <2> QED
    BY <2>1 DEF IsMonth
<1>4. CASE i \in 1 .. Len(ps)
  <2>1. qs[i] = ps[i]
    BY <1>4 DEF PutsBehind
  <2> QED
    BY <1>1, <1>4, <2>1 DEF MonthsTrue
<1> QED
  BY <1>2, <1>3, <1>4

(* or ahead. *)
LEMMA AheadTrue ==
    ASSUME NEW ps \in Seq(MonthRecords), NEW value, NEW c, MonthsTrue(ps, value, c),
           NEW n, Near(c + 1, n), NEW p, IsMonth(p, n, value), NEW qs, PutsAhead(ps, p, qs)
    PROVE  MonthsTrue(qs, value, c)
<1>1. DOMAIN qs = 1 .. (Len(ps) + 1) /\ DOMAIN ps = 1 .. Len(ps) /\ Len(ps) \in Nat
  BY DEF PutsAhead
<1> SUFFICES ASSUME NEW i \in 1 .. (Len(ps) + 1)
             PROVE  /\ Near(c + 1, qs[i].month)
                    /\ qs[i].marked = DaysShown[qs[i].month] \cap ToSet(value)
  BY <1>1 DEF MonthsTrue
<1>2. i = 1 \/ (i - 1 \in 1 .. Len(ps) /\ (i - 1) + 1 = i)
  BY <1>1
<1>3. CASE i = 1
  <2>1. qs[i] = p
    BY <1>3 DEF PutsAhead
  <2> QED
    BY <2>1 DEF IsMonth
<1>4. CASE i - 1 \in 1 .. Len(ps) /\ (i - 1) + 1 = i
  <2>1. qs[i] = ps[i - 1]
    BY <1>4 DEF PutsAhead
  <2> QED
    BY <1>1, <1>4, <2>1 DEF MonthsTrue
<1> QED
  BY <1>2, <1>3, <1>4

(* What CalGood says of the fields of p *)
GoodTypes(s, b) ==
    /\ s \in CalRecords /\ s.month \in Int /\ s.translate \in Int
    /\ s.value \in Seq(Int) /\ s.months \in Seq(MonthRecords) /\ s.given \in Values
    /\ s.ending \in EndRecords /\ s.ending.due \in BOOLEAN /\ s.ending.both \in BOOLEAN
    /\ s.ending.old \in BOOLEAN /\ s.ending.dir \in {"next", "prev"}
    /\ s.animating \in BOOLEAN /\ s.torn \in BOOLEAN /\ s.opened \in BOOLEAN
    /\ s.set \in BOOLEAN /\ s.multiple \in BOOLEAN
    /\ s.kind \in {"inline", "picker", "popover"}
    /\ Near(b, s.month) /\ ValueWithin(s.value, b) /\ MonthsTrue(s.months, s.value, b)
    /\ s.opened => Len(s.months) >= 1

LEMMA GoodFields ==
    ASSUME NEW b, NEW s, CalGood(s, b)
    PROVE  GoodTypes(s, b)
<1>1. s \in CalRecords /\ (s.opened => Len(s.months) >= 1)
      /\ Near(b, s.month) /\ ValueWithin(s.value, b) /\ MonthsTrue(s.months, s.value, b)
  BY DEF CalGood, CalRests
<1> QED
  BY <1>1 DEF GoodTypes, CalRecords, EndRecords

(* nextMonth keeps what holds. *)
LEMMA NextMonthGood ==
    ASSUME NEW b \in Nat, NEW s, CalGood(s, b), s.opened
    PROVE  CalGood(NextMonth(s), b + 12)
<1> DEFINE ms == s.months
           last == ms[Len(ms)].month
           t == s.translate - 1
           c == b + 12
<1>f. GoodTypes(s, b)
  BY GoodFields
<1>0. c \in Nat /\ b <= c /\ b + 1 <= c /\ b + 1 \in Nat /\ b + 2 \in Nat /\ b + 2 <= c
  OBVIOUS
<1>1. ms \in Seq(MonthRecords) /\ Len(ms) >= 1 /\ Len(ms) \in Nat /\ DOMAIN ms = 1 .. Len(ms)
  BY <1>f DEF GoodTypes
<1>2. Len(ms) \in 1 .. Len(ms)
  BY <1>1
<1>3. Near(b + 1, last) /\ MonthsTrue(ms, s.value, b)
  <2>1. MonthsTrue(ms, s.value, b)
    BY <1>f DEF GoodTypes
  <2> QED
    BY <1>1, <1>2, <2>1 DEF MonthsTrue
<1>4. last \in Int /\ Near(c, last) /\ Near(b + 2, last + 1)
  <2>1. Near(b + 2, last + 1)
    BY <1>3, CalendarAssumption DEF Near
  <2>2. last \in Int /\ Near(c, last)
    BY <1>0, <1>3, NearMore
  <2> QED
    BY <2>1, <2>2
<1>5. Last(ms) = ms[Len(ms)]
  BY DEF Last
<1>6. t \in Int /\ -t \in Int /\ s.value \in Seq(Int) /\ s.month \in Int /\ s.torn \in BOOLEAN
  BY <1>f DEF GoodTypes
<1> DEFINE p == MonthAt(last + 1, s.value, -t)
           app == Append(ms, p)
<1>7. IsMonth(p, last + 1, s.value)
  <2>1. last + 1 \in Int /\ -t \in Int
    BY <1>4, <1>6
  <2> HIDE DEF last, t
  <2> QED
    BY <1>6, <2>1, NewMonth
<1>8. NextMonth(s) = IF FirstOf[last] > MaxDay THEN s
                     ELSE ChangeStart(s, IF last % 12 # s.month % 12 THEN ms ELSE app, "next", t, FALSE)
  BY <1>5 DEF NextMonth, MonthAt
<1> HIDE DEF p, app, c, ms, last, t
<1>9. CASE FirstOf[last] > MaxDay
  BY <1>0, <1>8, <1>9, GoodMore DEF c
<1>10. CASE ~(FirstOf[last] > MaxDay) /\ last % 12 # s.month % 12
  <2>1. NextMonth(s) = ChangeStart(s, ms, "next", t, FALSE)
    BY <1>8, <1>10
  <2>2. MonthsTrue(ms, s.value, c)
    BY <1>0, <1>3, MonthsMore
  <2>3. ASSUME ~s.torn, s.animating => s.ending.due /\ ~s.ending.both /\ s.ending.dir = "next"
        PROVE  EndsNextTo(ms, "next")
    <3>1. CASE s.animating
      <4>1. EndsNext(ms, s.month)
        BY <2>3, <3>1 DEF CalGood, CalSlides, ms
      <4>2. last = s.month
        BY <4>1 DEF EndsNext, last
      <4> QED
        BY <4>2, <1>10
    <3>2. CASE ~s.animating
      <4>1. InOrder(ms, s.month, s.translate)
        BY <2>3, <3>2 DEF CalGood, CalRests, ms
      <4>2. Len(ms) = 3 /\ ms[2].month = s.month /\ ms[3].month = s.month + 1
        BY <4>1 DEF InOrder
      <4>3. Len(ms) >= 2 /\ Len(ms) - 1 = 2 /\ s.month = (s.month + 1) - 1
        BY <4>2, <1>6
      <4> QED
        BY <4>2, <4>3 DEF EndsNextTo
    <3> QED
      BY <3>1, <3>2
  <2>4. Near(c, ms[Len(ms)].month)
    BY <1>4 DEF last
  <2> QED
    BY <1>0, <1>1, <1>6, <2>1, <2>2, <2>3, <2>4, TurnGood DEF c
<1>11. CASE ~(FirstOf[last] > MaxDay) /\ ~(last % 12 # s.month % 12)
  <2>1. NextMonth(s) = ChangeStart(s, app, "next", t, FALSE)
    BY <1>8, <1>11
  <2>2. PutsBehind(ms, p, app)
    BY <1>1, <1>7, PutBehind DEF IsMonth, app
  <2>3. MonthsTrue(app, s.value, c)
    <3>1. MonthsTrue(app, s.value, b + 1)
      <4>1. MonthsTrue(ms, s.value, b + 1) /\ (b + 1) + 1 = b + 2
        BY <1>0, <1>3, MonthsMore
      <4> QED
        BY <1>1, <1>4, <1>7, <2>2, <4>1, BehindTrue
    <3> QED
      BY <1>0, <3>1, MonthsMore
  <2>4. app \in Seq(MonthRecords) /\ Len(app) >= 2 /\ Len(app) = Len(ms) + 1
        /\ app[Len(app)].month = last + 1 /\ app[Len(app) - 1].month = last
    <3>1. Len(app) = Len(ms) + 1 /\ app \in Seq(MonthRecords) /\ app[Len(ms) + 1] = p
          /\ app[Len(ms)] = ms[Len(ms)]
      BY <1>2, <2>2 DEF PutsBehind
    <3>2. (Len(ms) + 1) - 1 = Len(ms) /\ Len(ms) + 1 >= 2
      BY <1>1
    <3> QED
      BY <1>7, <3>1, <3>2 DEF IsMonth, last
  <2>5. EndsNextTo(app, "next")
    <3>1. last = (last + 1) - 1
      BY <1>4
    <3> QED
      BY <2>4, <3>1 DEF EndsNextTo
  <2>6. Near(c, app[Len(app)].month) /\ Len(app) >= 1
    BY <1>0, <1>4, <2>4, NearMore
  <2> QED
    BY <1>0, <1>6, <2>1, <2>3, <2>4, <2>5, <2>6, TurnGood DEF c
<1> QED
  BY <1>9, <1>10, <1>11

(* So does prevMonth. *)
LEMMA PrevMonthGood ==
    ASSUME NEW b \in Nat, NEW s, CalGood(s, b), s.opened
    PROVE  CalGood(PrevMonth(s), b + 12)
<1> DEFINE ms == s.months
           first == ms[1].month
           t == s.translate + 1
           c == b + 12
<1>f. GoodTypes(s, b)
  BY GoodFields
<1>0. c \in Nat /\ b <= c /\ b + 1 <= c /\ b + 1 \in Nat /\ b + 2 \in Nat /\ b + 2 <= c
  OBVIOUS
<1>1. ms \in Seq(MonthRecords) /\ Len(ms) >= 1 /\ Len(ms) \in Nat /\ DOMAIN ms = 1 .. Len(ms)
  BY <1>f DEF GoodTypes
<1>2. 1 \in 1 .. Len(ms)
  BY <1>1
<1>3. Near(b + 1, first) /\ MonthsTrue(ms, s.value, b)
  <2>1. MonthsTrue(ms, s.value, b)
    BY <1>f DEF GoodTypes
  <2> QED
    BY <1>1, <1>2, <2>1 DEF MonthsTrue
<1>4. first \in Int /\ Near(c, first) /\ Near(b + 2, first - 1)
  <2>1. Near(b + 2, first - 1)
    BY <1>3, CalendarAssumption DEF Near
  <2>2. first \in Int /\ Near(c, first)
    BY <1>0, <1>3, NearMore
  <2> QED
    BY <2>1, <2>2
<1>5. Head(ms) = ms[1]
  BY <1>1
<1>6. t \in Int /\ -t \in Int /\ s.value \in Seq(Int) /\ s.month \in Int /\ s.torn \in BOOLEAN
  BY <1>f DEF GoodTypes
<1> DEFINE p == MonthAt(first - 1, s.value, -t)
           app == <<p>> \o ms
<1>7. IsMonth(p, first - 1, s.value)
  <2>1. first - 1 \in Int /\ -t \in Int
    BY <1>4, <1>6
  <2> HIDE DEF first, t
  <2> QED
    BY <1>6, <2>1, NewMonth
<1>8. PrevMonth(s) = IF FirstOf[first + 1] - 2 < MinDay THEN s
                     ELSE ChangeStart(s, IF first % 12 # s.month % 12 THEN ms ELSE app, "prev", t, FALSE)
  BY <1>5 DEF PrevMonth, MonthAt
<1> HIDE DEF p, app, c, ms, first, t
<1>9. CASE FirstOf[first + 1] - 2 < MinDay
  BY <1>0, <1>8, <1>9, GoodMore DEF c
<1>10. CASE ~(FirstOf[first + 1] - 2 < MinDay) /\ first % 12 # s.month % 12
  <2>1. PrevMonth(s) = ChangeStart(s, ms, "prev", t, FALSE)
    BY <1>8, <1>10
  <2>2. MonthsTrue(ms, s.value, c)
    BY <1>0, <1>3, MonthsMore
  <2>3. ASSUME ~s.torn, s.animating => s.ending.due /\ ~s.ending.both /\ s.ending.dir = "prev"
        PROVE  EndsNextTo(ms, "prev")
    <3>1. CASE s.animating
      <4>1. EndsPrev(ms, s.month)
        BY <2>3, <3>1 DEF CalGood, CalSlides, ms
      <4>2. first = s.month
        BY <4>1 DEF EndsPrev, first
      <4> QED
        BY <4>2, <1>10
    <3>2. CASE ~s.animating
      <4>1. InOrder(ms, s.month, s.translate)
        BY <2>3, <3>2 DEF CalGood, CalRests, ms
      <4>2. Len(ms) = 3 /\ ms[2].month = s.month /\ ms[1].month = s.month - 1
        BY <4>1 DEF InOrder
      <4>3. Len(ms) >= 2 /\ s.month = (s.month - 1) + 1
        BY <4>2, <1>6
      <4> QED
        BY <4>2, <4>3 DEF EndsNextTo
    <3> QED
      BY <3>1, <3>2
  <2>4. Near(c, ms[1].month)
    BY <1>4 DEF first
  <2> QED
    BY <1>0, <1>1, <1>6, <2>1, <2>2, <2>3, <2>4, TurnGood DEF c
<1>11. CASE ~(FirstOf[first + 1] - 2 < MinDay) /\ ~(first % 12 # s.month % 12)
  <2>1. PrevMonth(s) = ChangeStart(s, app, "prev", t, FALSE)
    BY <1>8, <1>11
  <2>2. PutsAhead(ms, p, app)
    BY <1>1, <1>7, PutAhead DEF IsMonth, app
  <2>3. MonthsTrue(app, s.value, c)
    <3>1. MonthsTrue(app, s.value, b + 1)
      <4>1. MonthsTrue(ms, s.value, b + 1) /\ (b + 1) + 1 = b + 2
        BY <1>0, <1>3, MonthsMore
      <4> QED
        BY <1>1, <1>4, <1>7, <2>2, <4>1, AheadTrue
    <3> QED
      BY <1>0, <3>1, MonthsMore
  <2>4. app \in Seq(MonthRecords) /\ Len(app) >= 2 /\ Len(app) = Len(ms) + 1
        /\ app[1].month = first - 1 /\ app[2].month = first
    <3>1. Len(app) = Len(ms) + 1 /\ app \in Seq(MonthRecords) /\ app[1] = p
          /\ app[1 + 1] = ms[1]
      BY <1>2, <2>2 DEF PutsAhead
    <3>2. 1 + 1 = 2 /\ Len(ms) + 1 >= 2
      BY <1>1
    <3> QED
      BY <1>7, <3>1, <3>2 DEF IsMonth, first
  <2>5. EndsNextTo(app, "prev")
    <3>1. first = (first - 1) + 1
      BY <1>4
    <3> QED
      BY <2>4, <3>1 DEF EndsNextTo
  <2>6. Near(c, app[1].month) /\ Len(app) >= 1
    BY <1>0, <1>4, <2>4, NearMore
  <2> QED
    BY <1>0, <1>6, <2>1, <2>3, <2>4, <2>5, <2>6, TurnGood DEF c
<1> QED
  BY <1>9, <1>10, <1>11

(* Some of months that are true are true. *)
LEMMA SomeTrue ==
    ASSUME NEW ps \in Seq(MonthRecords), NEW value, NEW c, MonthsTrue(ps, value, c),
           NEW qs \in Seq(MonthRecords),
           \A i \in 1 .. Len(qs) : \E j \in 1 .. Len(ps) : qs[i] = ps[j]
    PROVE  MonthsTrue(qs, value, c)
<1>1. DOMAIN qs = 1 .. Len(qs) /\ DOMAIN ps = 1 .. Len(ps)
  OBVIOUS
<1> SUFFICES ASSUME NEW i \in 1 .. Len(qs)
             PROVE  /\ Near(c + 1, qs[i].month)
                    /\ qs[i].marked = DaysShown[qs[i].month] \cap ToSet(value)
  BY <1>1 DEF MonthsTrue
<1>2. PICK j \in 1 .. Len(ps) : qs[i] = ps[j]
  OBVIOUS
<1> QED
  BY <1>1, <1>2 DEF MonthsTrue

(* setYearMonth takes a month out, and leaves the others as they are. *)
LEMMA StayTrue ==
    ASSUME NEW b \in Nat, NEW s, CalGood(s, b), s.opened, NEW dir \in {"next", "prev"}
    PROVE  Stay(s, dir) \in Seq(MonthRecords) /\ MonthsTrue(Stay(s, dir), s.value, b)
<1> DEFINE ms == s.months
<1>1. ms \in Seq(MonthRecords) /\ Len(ms) >= 1 /\ MonthsTrue(ms, s.value, b)
  BY GoodFields DEF GoodTypes
<1>2. Stay(s, dir) = IF s.animating THEN ms ELSE IF dir = "next" THEN Front(ms) ELSE Tail(ms)
  BY DEF Stay
<1> HIDE DEF ms
<1>3. Len(ms) \in Nat /\ Len(ms) - 1 \in Nat /\ \A k \in 1 .. Len(ms) : ms[k] \in MonthRecords
  BY <1>1
<1>4. /\ Front(ms) \in Seq(MonthRecords)
      /\ \A i \in 1 .. Len(Front(ms)) : \E j \in 1 .. Len(ms) : Front(ms)[i] = ms[j]
  <2>1. \A k \in 1 .. (Len(ms) - 1) : ms[k] \in MonthRecords
    BY <1>3
  <2>2. 1 \in Int /\ Len(ms) - 1 \in Int
    BY <1>3
  <2>3. /\ SubSeq(ms, 1, Len(ms) - 1) \in Seq(MonthRecords)
        /\ Len(SubSeq(ms, 1, Len(ms) - 1)) = IF 1 <= Len(ms) - 1 THEN (Len(ms) - 1) - 1 + 1 ELSE 0
        /\ \A j \in 1 .. (Len(ms) - 1) - 1 + 1 : SubSeq(ms, 1, Len(ms) - 1)[j] = ms[1 + j - 1]
    BY <2>1, <2>2, SubSeqProperties
  <2> DEFINE f == SubSeq(ms, 1, Len(ms) - 1)
  <2>4. Front(ms) = f
    BY DEF Front
  <2> HIDE DEF f
  <2>7. f \in Seq(MonthRecords) /\ Len(f) = IF 1 <= Len(ms) - 1 THEN (Len(ms) - 1) - 1 + 1 ELSE 0
    BY <2>3 DEF f
  <2>8. (IF 1 <= Len(ms) - 1 THEN (Len(ms) - 1) - 1 + 1 ELSE 0) = Len(ms) - 1
    <3>1. \A m \in Nat : (IF 1 <= m THEN m - 1 + 1 ELSE 0) = m
      OBVIOUS
    <3> QED
      BY <1>3, <3>1
  <2>5. f \in Seq(MonthRecords) /\ Len(f) = Len(ms) - 1
    BY <2>7, <2>8
  <2>6. \A j \in 1 .. (Len(ms) - 1) : f[j] = ms[j] /\ j \in 1 .. Len(ms)
    <3>1. \A j \in 1 .. (Len(ms) - 1) : j \in 1 .. (Len(ms) - 1) - 1 + 1 /\ 1 + j - 1 = j /\ j \in 1 .. Len(ms)
      BY <1>3
    <3>2. \A j \in 1 .. (Len(ms) - 1) - 1 + 1 : f[j] = ms[1 + j - 1]
      BY <2>3 DEF f
    <3> QED
      BY <3>1, <3>2
  <2> QED
    BY <2>4, <2>5, <2>6
<1>5. /\ Tail(ms) \in Seq(MonthRecords)
      /\ \A i \in 1 .. Len(Tail(ms)) : \E j \in 1 .. Len(ms) : Tail(ms)[i] = ms[j]
  <2>1. ms # <<>>
    BY <1>1
  <2>2. Tail(ms) \in Seq(MonthRecords) /\ Len(Tail(ms)) = Len(ms) - 1
    BY <1>1, <2>1
  <2>3. \A i \in 1 .. (Len(ms) - 1) : Tail(ms)[i] = ms[i + 1] /\ i + 1 \in 1 .. Len(ms)
    BY <1>1, <1>3, <2>1
  <2> QED
    BY <2>2, <2>3
<1>6. MonthsTrue(Front(ms), s.value, b)
  BY <1>1, <1>4, SomeTrue
<1>7. MonthsTrue(Tail(ms), s.value, b)
  BY <1>1, <1>5, SomeTrue
<1> QED
  BY <1>1, <1>2, <1>4, <1>5, <1>6, <1>7

(* setYearMonth keeps what holds. *)
LEMMA SetYearMonthGood ==
    ASSUME NEW b \in Nat, NEW s, CalGood(s, b), s.opened, NEW n \in Int, Near(b + 12, n)
    PROVE  CalGood(SetYearMonth(s, n), b + 12)
<1> DEFINE c == b + 12
           target == IF n \div 12 < s.month \div 12 THEN FirstOf[n + 1] - 2 ELSE FirstOf[n]
           dir == IF target > FirstOf[s.month] THEN "next" ELSE "prev"
           t == IF dir = "next" THEN s.translate - 1 ELSE s.translate + 1
           new == MonthAt(n, s.value, -t)
           stay == Stay(s, dir)
           ps == IF dir = "next" THEN Append(stay, new) ELSE <<new>> \o stay
<1>f. GoodTypes(s, b)
  BY GoodFields
<1>0. c \in Nat /\ b <= c /\ c + 1 \in Nat /\ c <= c + 1
  OBVIOUS
<1>1. SetYearMonth(s, n) = IF Disabled(target) THEN s ELSE ChangeStart(s, ps, dir, t, TRUE)
  BY DEF SetYearMonth, MonthAt
<1>2. t \in Int /\ -t \in Int /\ s.value \in Seq(Int)
  <2>1. s.translate \in Int /\ s.value \in Seq(Int)
    BY <1>f DEF GoodTypes
  <2> HIDE DEF dir
  <2>2. t \in Int
    BY <2>1
  <2> HIDE DEF t
  <2> QED
    BY <2>1, <2>2
<1> HIDE DEF target
<1>3. dir \in {"next", "prev"}
  OBVIOUS
<1> HIDE DEF dir, t
<1>4. IsMonth(new, n, s.value)
  BY <1>2, NewMonth
<1>5. stay \in Seq(MonthRecords) /\ MonthsTrue(stay, s.value, c)
  <2>1. stay \in Seq(MonthRecords) /\ MonthsTrue(stay, s.value, b)
    BY <1>3, StayTrue
  <2> QED
    BY <1>0, <2>1, MonthsMore
<1>6. Near(c, n) /\ Near(c + 1, n)
  <2>1. Near(c, n)
    OBVIOUS
  <2> QED
    BY <1>0, <2>1, NearMore
<1> HIDE DEF c, new, stay
<1>7. new \in MonthRecords /\ new.month = n
  BY <1>4 DEF IsMonth
<1>8. ASSUME dir = "next"
      PROVE  ps \in Seq(MonthRecords) /\ Len(ps) >= 1 /\ MonthsTrue(ps, s.value, c)
             /\ ps[Len(ps)].month = n
  <2>1. ps = Append(stay, new)
    BY <1>8
  <2>2. PutsBehind(stay, new, ps)
    BY <1>5, <1>7, <2>1, PutBehind
  <2> HIDE DEF ps
  <2>3. MonthsTrue(ps, s.value, c)
    BY <1>4, <1>5, <1>6, <2>2, BehindTrue
  <2>4. Len(stay) \in Nat
    BY <1>5
  <2> QED
    BY <1>7, <2>2, <2>3, <2>4 DEF PutsBehind
<1>9. ASSUME dir # "next"
      PROVE  ps \in Seq(MonthRecords) /\ Len(ps) >= 1 /\ MonthsTrue(ps, s.value, c)
             /\ ps[1].month = n
  <2>1. ps = <<new>> \o stay
    BY <1>9
  <2>2. PutsAhead(stay, new, ps)
    BY <1>5, <1>7, <2>1, PutAhead
  <2> HIDE DEF ps
  <2>3. MonthsTrue(ps, s.value, c)
    BY <1>4, <1>5, <1>6, <2>2, AheadTrue
  <2>4. Len(stay) \in Nat
    BY <1>5
  <2> QED
    BY <1>7, <2>2, <2>3, <2>4 DEF PutsAhead
<1> HIDE DEF ps
<1>10. ps \in Seq(MonthRecords) /\ Len(ps) >= 1 /\ MonthsTrue(ps, s.value, c)
       /\ Near(c, ps[IF dir = "next" THEN Len(ps) ELSE 1].month)
  BY <1>6, <1>8, <1>9
<1>11. CalGood(ChangeStart(s, ps, dir, t, TRUE), c)
  BY <1>0, <1>2, <1>3, <1>10, TurnGood
<1>12. CalGood(s, c)
  BY <1>0, GoodMore
<1> QED
  BY <1>1, <1>11, <1>12 DEF c

(* setMonthsTranslate *)
Translated(ps, t, qs) ==
    /\ qs \in Seq(MonthRecords) /\ Len(qs) = Len(ps)
    /\ \A i \in 1 .. Len(ps) :
          /\ qs[i].month = ps[i].month /\ qs[i].marked = ps[i].marked
          /\ i <= 3 => qs[i].at = i - 2 - t /\ qs[i].class = <<"prev", "current", "next">>[i]

(* It changes classes and places only. *)
LEMMA TranslatedIs ==
    ASSUME NEW ps \in Seq(MonthRecords), NEW t \in Int
    PROVE  Translated(ps, t, SetMonthsTranslate(ps, t))
<1> DEFINE qs == SetMonthsTranslate(ps, t)
           names == <<"prev", "current", "next">>
<1>1. DOMAIN ps = 1 .. Len(ps) /\ Len(ps) \in Nat /\ \A i \in 1 .. Len(ps) : ps[i] \in MonthRecords
  OBVIOUS
<1>2. qs = [i \in 1 .. Len(ps) |-> qs[i]] /\ DOMAIN qs = 1 .. Len(ps)
  BY <1>1 DEF SetMonthsTranslate
<1>3. ASSUME NEW i \in 1 .. Len(ps)
      PROVE  /\ qs[i].month = ps[i].month /\ qs[i].marked = ps[i].marked
             /\ i <= 3 => qs[i].at = i - 2 - t /\ qs[i].class = names[i]
             /\ qs[i] \in MonthRecords
  <2>1. ps[i] = [month |-> ps[i].month, class |-> ps[i].class, at |-> ps[i].at, marked |-> ps[i].marked]
        /\ ps[i].month \in Int /\ ps[i].at \in Int /\ ps[i].marked \in SUBSET Int
    BY <1>1 DEF MonthRecords
  <2>2. CASE i > 3
    <3>1. qs[i] = [ps[i] EXCEPT !.class = "none"]
      BY <1>1, <2>2 DEF SetMonthsTranslate
    <3>2. qs[i] = [month |-> ps[i].month, class |-> "none", at |-> ps[i].at, marked |-> ps[i].marked]
      BY <2>1, <3>1
    <3> HIDE DEF qs
    <3>3. ~(i <= 3)
      BY <2>2
    <3> QED
      BY <2>1, <3>2, <3>3 DEF MonthRecords
  <2>3. CASE ~(i > 3)
    <3>1. qs[i] = [ps[i] EXCEPT !.class = names[i], !.at = i - 2 - t]
      BY <1>1, <2>3 DEF SetMonthsTranslate
    <3>2. qs[i] = [month |-> ps[i].month, class |-> names[i], at |-> i - 2 - t, marked |-> ps[i].marked]
      BY <2>1, <3>1
    <3>3. i \in {1, 2, 3} /\ i - 2 - t \in Int
      BY <2>3
    <3>4. names[i] \in {"none", "prev", "current", "next"}
      BY <3>3
    <3> HIDE DEF qs, names
    <3> QED
      BY <2>1, <3>2, <3>3, <3>4 DEF MonthRecords
  <2> QED
    BY <2>2, <2>3
<1> HIDE DEF qs
<1>4. qs \in Seq(MonthRecords) /\ Len(qs) = Len(ps)
  <2>1. qs \in [1 .. Len(ps) -> MonthRecords]
    BY <1>2, <1>3
  <2> QED
    BY <1>1, <2>1
<1>5. Translated(ps, t, qs)
  BY <1>3, <1>4 DEF Translated
<1> QED
  BY <1>5 DEF qs

(* Months stay true when they are put in their places. *)
LEMMA TranslatedTrue ==
    ASSUME NEW ps \in Seq(MonthRecords), NEW value, NEW c, MonthsTrue(ps, value, c),
           NEW t \in Int, NEW qs, Translated(ps, t, qs)
    PROVE  MonthsTrue(qs, value, c)
<1>1. DOMAIN qs = 1 .. Len(ps) /\ DOMAIN ps = 1 .. Len(ps)
  BY DEF Translated
<1> SUFFICES ASSUME NEW i \in 1 .. Len(ps)
             PROVE  /\ Near(c + 1, qs[i].month)
                    /\ qs[i].marked = DaysShown[qs[i].month] \cap ToSet(value)
  BY <1>1 DEF MonthsTrue
<1>2. qs[i].month = ps[i].month /\ qs[i].marked = ps[i].marked
  BY DEF Translated
<1> QED
  BY <1>1, <1>2 DEF MonthsTrue

(* Three neighbours put in their places lie in order. *)
LEMMA TranslatedInOrder ==
    ASSUME NEW ps \in Seq(MonthRecords), Len(ps) = 3, NEW t \in Int, NEW n \in Int,
           ps[1].month = n - 1, ps[2].month = n, ps[3].month = n + 1,
           NEW qs, Translated(ps, t, qs)
    PROVE  InOrder(qs, n, t) /\ OneCurrent(qs, n)
<1> DEFINE names == <<"prev", "current", "next">>
<1>1. Len(qs) = 3 /\ DOMAIN qs = 1 .. 3
  BY DEF Translated
<1>2. ASSUME NEW i \in 1 .. 3
      PROVE  qs[i].month = ps[i].month /\ qs[i].at = i - 2 - t /\ qs[i].class = names[i]
  BY DEF Translated
<1>3. \A i \in 1 .. 3 : qs[i].at + t = i - 2
  <2> SUFFICES ASSUME NEW i \in 1 .. 3 PROVE qs[i].at + t = i - 2
    OBVIOUS
  <2>1. qs[i].at = i - 2 - t
    BY <1>2
  <2> QED
    BY <2>1
<1>4. 1 \in 1 .. 3 /\ 2 \in 1 .. 3 /\ 3 \in 1 .. 3
  OBVIOUS
<1>5. InOrder(qs, n, t)
  BY <1>1, <1>2, <1>3, <1>4 DEF InOrder
<1>6. names[1] # "current" /\ names[2] = "current" /\ names[3] # "current"
  OBVIOUS
<1> HIDE DEF names
<1>7. \A j \in 1 .. 3 : j = 1 \/ j = 2 \/ j = 3
  OBVIOUS
<1>8. OneCurrent(qs, n)
  BY <1>1, <1>2, <1>4, <1>6, <1>7 DEF OneCurrent
<1> QED
  BY <1>5, <1>8

(* Months by their class *)
InClass(ps, c) == {p \in ToSet(ps) : p.class = c}
OutOfClass(ps, c) == {p \in ToSet(ps) : p.class # c}

(* What is kept of the months are some of them. *)
LEMMA KeptPlaces ==
    ASSUME NEW ps \in Seq(MonthRecords), NEW S
    PROVE  /\ Among(ps, S) \in Seq(MonthRecords)
           /\ \E g : Leaves(ps, S, Len(ps), Among(ps, S), g)
           /\ \A i \in 1 .. Len(Among(ps, S)) : \E j \in 1 .. Len(ps) : Among(ps, S)[i] = ps[j]
<1>1. PICK g : Leaves(ps, S, Len(ps), Among(ps, S), g)
  BY AmongLeaves
<1>2. Among(ps, S) \in Seq(MonthRecords)
  BY AmongLeaves
<1>3. \A i \in 1 .. Len(Among(ps, S)) : g[i] \in 1 .. Len(ps) /\ Among(ps, S)[i] = ps[g[i]]
  BY <1>1 DEF Leaves
<1> QED
  BY <1>1, <1>2, <1>3

(* After a slide forward two months remain, the last of them in view. *)
LEMMA RemainingNext ==
    ASSUME NEW ps \in Seq(MonthRecords), NEW n, EndsNext(ps, n)
    PROVE  /\ Len(Remaining(ps)) = 2
           /\ Remaining(ps)[1].month = n - 1 /\ Remaining(ps)[2].month = n
<1> DEFINE S == OutOfClass(ps, "none")
           r == Among(ps, S)
           l == Len(ps)
<1>1. Remaining(ps) = r
  BY DEF Remaining, OutOfClass
<1>2. r \in Seq(MonthRecords) /\ \E g : Leaves(ps, S, l, r, g)
  BY KeptPlaces
<1>3. PICK g : Leaves(ps, S, l, r, g)
  BY <1>2
<1>4. l \in Nat /\ l >= 2 /\ l - 1 \in 1 .. l /\ l \in 1 .. l
      /\ \A i \in 1 .. l : ps[i].class = "none" <=> i < l - 1
  BY DEF EndsNext
<1>5. \A i \in 1 .. l : ps[i] \in S <=> ps[i].class # "none"
  BY DEF OutOfClass, ToSet
<1> HIDE DEF S, r
<1>6. /\ Len(r) \in Nat
      /\ \A i \in 1 .. Len(r) : g[i] \in 1 .. l /\ r[i] = ps[g[i]] /\ ps[g[i]] \in S
      /\ \A i, j \in 1 .. Len(r) : i < j => g[i] < g[j]
      /\ \A k \in 1 .. l : ps[k] \in S => \E i \in 1 .. Len(r) : g[i] = k
  BY <1>2, <1>3 DEF Leaves
<1> HIDE DEF l
<1>7. \A i \in 1 .. Len(r) : g[i] = l - 1 \/ g[i] = l
  <2> SUFFICES ASSUME NEW i \in 1 .. Len(r) PROVE g[i] = l - 1 \/ g[i] = l
    OBVIOUS
  <2>1. g[i] \in 1 .. l /\ ~(g[i] < l - 1)
    BY <1>4, <1>5, <1>6
  <2> QED
    BY <1>4, <2>1
<1>8. l - 1 < l /\ ~(l - 1 < l - 1) /\ ~(l < l) /\ ~(l < l - 1) /\ l - 1 # l
  BY <1>4
<1>9. PICK i \in 1 .. Len(r), j \in 1 .. Len(r) : g[i] = l - 1 /\ g[j] = l
  <2>1. ps[l - 1] \in S /\ ps[l] \in S
    BY <1>4, <1>5, <1>8
  <2> QED
    BY <1>4, <1>6, <2>1
<1>10. ASSUME NEW k \in 1 .. Len(r) PROVE k = i \/ k = j
  <2>1. k = i \/ k < i \/ i < k
    OBVIOUS
  <2>2. k = j \/ k < j \/ j < k
    OBVIOUS
  <2>3. \A a, b \in 1 .. Len(r) : a < b => g[a] < g[b]
    BY <1>6
  <2>4. CASE g[k] = l - 1
    BY <1>8, <1>9, <2>1, <2>3, <2>4
  <2>5. CASE g[k] = l
    BY <1>8, <1>9, <2>2, <2>3, <2>5
  <2> QED
    BY <1>7, <2>4, <2>5
<1>11. i < j
  <2>1. i = j \/ i < j \/ j < i
    OBVIOUS
  <2> QED
    BY <1>6, <1>8, <1>9, <2>1
<1>12. i = 1 /\ j = 2 /\ Len(r) = 2
  <2>1. i \in Nat /\ j \in Nat /\ i >= 1 /\ j <= Len(r)
    BY <1>6
  <2>2. 1 = i
    <3>1. 1 \in 1 .. Len(r)
      BY <1>6, <2>1, <1>11
    <3> QED
      BY <1>10, <1>11, <2>1, <3>1
  <2>3. 2 = j
    <3>1. 2 \in 1 .. Len(r)
      BY <1>6, <2>1, <1>11
    <3> QED
      BY <1>10, <2>2, <3>1
  <2>4. Len(r) = j
    <3>1. Len(r) \in 1 .. Len(r)
      BY <1>6, <2>1, <1>11
    <3> QED
      BY <1>10, <2>2, <2>3, <3>1, <1>11
  <2> QED
    BY <2>2, <2>3, <2>4
<1>13. r[1] = ps[l - 1] /\ r[2] = ps[l]
  BY <1>6, <1>9, <1>12
<1> QED
  BY <1>1, <1>12, <1>13 DEF EndsNext, l

(* After a slide back two months remain, the first of them in view. *)
LEMMA RemainingPrev ==
    ASSUME NEW ps \in Seq(MonthRecords), NEW n, EndsPrev(ps, n)
    PROVE  /\ Len(Remaining(ps)) = 2
           /\ Remaining(ps)[1].month = n /\ Remaining(ps)[2].month = n + 1
<1> DEFINE S == OutOfClass(ps, "none")
           r == Among(ps, S)
           l == Len(ps)
<1>1. Remaining(ps) = r
  BY DEF Remaining, OutOfClass
<1>2. r \in Seq(MonthRecords) /\ \E g : Leaves(ps, S, l, r, g)
  BY KeptPlaces
<1>3. PICK g : Leaves(ps, S, l, r, g)
  BY <1>2
<1>4. l \in Nat /\ l >= 2 /\ 1 \in 1 .. l /\ 2 \in 1 .. l
      /\ \A i \in 1 .. l : ps[i].class = "none" <=> i > 2
  BY DEF EndsPrev
<1>5. \A i \in 1 .. l : ps[i] \in S <=> ps[i].class # "none"
  BY DEF OutOfClass, ToSet
<1> HIDE DEF S, r
<1>6. /\ Len(r) \in Nat
      /\ \A i \in 1 .. Len(r) : g[i] \in 1 .. l /\ r[i] = ps[g[i]] /\ ps[g[i]] \in S
      /\ \A i, j \in 1 .. Len(r) : i < j => g[i] < g[j]
      /\ \A k \in 1 .. l : ps[k] \in S => \E i \in 1 .. Len(r) : g[i] = k
  BY <1>2, <1>3 DEF Leaves
<1> HIDE DEF l
<1>7. \A i \in 1 .. Len(r) : g[i] = 1 \/ g[i] = 2
  <2> SUFFICES ASSUME NEW i \in 1 .. Len(r) PROVE g[i] = 1 \/ g[i] = 2
    OBVIOUS
  <2>1. g[i] \in 1 .. l /\ ~(g[i] > 2)
    BY <1>4, <1>5, <1>6
  <2> QED
    BY <1>4, <2>1
<1>9. PICK i \in 1 .. Len(r), j \in 1 .. Len(r) : g[i] = 1 /\ g[j] = 2
  <2>1. ps[1] \in S /\ ps[2] \in S
    BY <1>4, <1>5
  <2> QED
    BY <1>4, <1>6, <2>1
<1>10. ASSUME NEW k \in 1 .. Len(r) PROVE k = i \/ k = j
  <2>1. k = i \/ k < i \/ i < k
    OBVIOUS
  <2>2. k = j \/ k < j \/ j < k
    OBVIOUS
  <2> QED
    BY <1>6, <1>7, <1>9, <2>1, <2>2
<1>11. i < j
  <2>1. i = j \/ i < j \/ j < i
    OBVIOUS
  <2> QED
    BY <1>6, <1>9, <2>1
<1>12. i = 1 /\ j = 2 /\ Len(r) = 2
  <2>1. i \in Nat /\ j \in Nat /\ i >= 1 /\ j <= Len(r)
    BY <1>6
  <2>2. 1 = i
    <3>1. 1 \in 1 .. Len(r)
      BY <1>6, <2>1, <1>11
    <3> QED
      BY <1>10, <1>11, <2>1, <3>1
  <2>3. 2 = j
    <3>1. 2 \in 1 .. Len(r)
      BY <1>6, <2>1, <1>11
    <3> QED
      BY <1>10, <2>2, <3>1
  <2>4. Len(r) = j
    <3>1. Len(r) \in 1 .. Len(r)
      BY <1>6, <2>1, <1>11
    <3> QED
      BY <1>10, <2>2, <2>3, <3>1, <1>11
  <2> QED
    BY <2>2, <2>3, <2>4
<1>13. r[1] = ps[1] /\ r[2] = ps[2]
  BY <1>6, <1>9, <1>12
<1> QED
  BY <1>1, <1>12, <1>13 DEF EndsPrev

(* The current month remains. *)
LEMMA RemainingCurrent ==
    ASSUME NEW ps \in Seq(MonthRecords), NEW n, OneCurrent(ps, n)
    PROVE  OneCurrent(Remaining(ps), n)
<1> DEFINE S == OutOfClass(ps, "none")
           r == Among(ps, S)
<1>1. Remaining(ps) = r
  BY DEF Remaining, OutOfClass
<1>2. r \in Seq(MonthRecords) /\ \E g : Leaves(ps, S, Len(ps), r, g)
  BY KeptPlaces
<1>3. PICK g : Leaves(ps, S, Len(ps), r, g)
  BY <1>2
<1>4. DOMAIN ps = 1 .. Len(ps) /\ DOMAIN r = 1 .. Len(r)
  BY <1>2
<1>5. \A i \in 1 .. Len(ps) : ps[i] \in S <=> ps[i].class # "none"
  BY <1>4 DEF OutOfClass, ToSet
<1> HIDE DEF S, r
<1>6. /\ \A i \in 1 .. Len(r) : g[i] \in 1 .. Len(ps) /\ r[i] = ps[g[i]]
      /\ \A i, j \in 1 .. Len(r) : i < j => g[i] < g[j]
      /\ \A k \in 1 .. Len(ps) : ps[k] \in S => \E i \in 1 .. Len(r) : g[i] = k
  BY <1>3 DEF Leaves
<1>7. PICK k \in 1 .. Len(ps) :
          /\ ps[k].class = "current" /\ ps[k].month = n
          /\ \A j \in 1 .. Len(ps) : ps[j].class = "current" => j = k
  BY <1>4 DEF OneCurrent
<1>8. PICK i \in 1 .. Len(r) : g[i] = k
  BY <1>5, <1>6, <1>7
<1>9. r[i].class = "current" /\ r[i].month = n
  BY <1>6, <1>7, <1>8
<1>10. ASSUME NEW j \in 1 .. Len(r), r[j].class = "current" PROVE j = i
  <2>1. g[j] = k
    BY <1>6, <1>7, <1>10
  <2>2. ~(k < k)
    BY <1>7
  <2>3. j = i \/ j < i \/ i < j
    OBVIOUS
  <2> QED
    BY <1>6, <1>8, <2>1, <2>2, <2>3
<1>11. OneCurrent(r, n)
  BY <1>4, <1>9, <1>10 DEF OneCurrent
<1> QED
  BY <1>1, <1>11

(* After setYearMonth the month of its own is the one in view. *)
LEMMA OwnIs ==
    ASSUME NEW ps \in Seq(MonthRecords), NEW n, OneCurrent(ps, n)
    PROVE  /\ Len(Among(ps, InClass(ps, "current"))) = 1
           /\ Among(ps, InClass(ps, "current"))[1].month = n
<1> DEFINE S == InClass(ps, "current")
           r == Among(ps, S)
<1>2. r \in Seq(MonthRecords) /\ \E g : Leaves(ps, S, Len(ps), r, g)
  BY KeptPlaces
<1>3. PICK g : Leaves(ps, S, Len(ps), r, g)
  BY <1>2
<1>4. DOMAIN ps = 1 .. Len(ps) /\ DOMAIN r = 1 .. Len(r) /\ Len(r) \in Nat
  BY <1>2
<1>5. \A i \in 1 .. Len(ps) : ps[i] \in S <=> ps[i].class = "current"
  BY <1>4 DEF InClass, ToSet
<1> HIDE DEF S, r
<1>6. /\ \A i \in 1 .. Len(r) : g[i] \in 1 .. Len(ps) /\ r[i] = ps[g[i]] /\ ps[g[i]] \in S
      /\ \A i, j \in 1 .. Len(r) : i < j => g[i] < g[j]
      /\ \A k \in 1 .. Len(ps) : ps[k] \in S => \E i \in 1 .. Len(r) : g[i] = k
  BY <1>3 DEF Leaves
<1>7. PICK k \in 1 .. Len(ps) :
          /\ ps[k].class = "current" /\ ps[k].month = n
          /\ \A j \in 1 .. Len(ps) : ps[j].class = "current" => j = k
  BY <1>4 DEF OneCurrent
<1>8. PICK i \in 1 .. Len(r) : g[i] = k
  BY <1>5, <1>6, <1>7
<1>9. \A j \in 1 .. Len(r) : g[j] = k
  BY <1>5, <1>6, <1>7
<1>10. ~(k < k)
  BY <1>7
<1>11. \A j \in 1 .. Len(r) : ~(j < i) /\ ~(i < j)
  BY <1>6, <1>8, <1>9, <1>10
<1>12. i = 1 /\ Len(r) = 1
  <2>1. 1 \in 1 .. Len(r) /\ Len(r) \in 1 .. Len(r) /\ i \in Nat
    BY <1>4, <1>8
  <2> QED
    BY <1>4, <1>11, <2>1
<1>13. r[1].month = n
  BY <1>6, <1>7, <1>9, <1>12
<1> QED
  BY <1>12, <1>13 DEF r, S

LEMMA PutLast ==
    ASSUME NEW ps \in Seq(MonthRecords), NEW p \in MonthRecords
    PROVE  PutsBehind(ps, p, ps \o <<p>>)
<1>1. ps \o <<p>> = Append(ps, p)
  BY AppendIsConcat
<1> QED
  BY <1>1, PutBehind

(* The months that onMonthChangeEnd leaves *)
EndMonths(s) ==
    LET kept == Remaining(s.months)
        own == Among(kept, InClass(kept, "current"))
        next == MonthHTML(s.month + 1, s.value)
        prev == MonthHTML(s.month - 1, s.value)
    IN  IF s.ending.both THEN <<prev>> \o own \o <<next>>
        ELSE IF s.ending.dir = "next" THEN Append(kept, next) ELSE <<prev>> \o kept

(* A month and its neighbours *)
AreNeighbours(ps, n) ==
    Len(ps) = 3 /\ ps[1].month = n - 1 /\ ps[2].month = n /\ ps[3].month = n + 1

(* At the end of a slide the month in view is between its neighbours, unless
   a slide of one month was turned back or overtaken. *)
LEMMA EndMonthsAre ==
    ASSUME NEW b \in Nat, NEW s, CalGood(s, b), s.ending.due
    PROVE  /\ EndMonths(s) \in Seq(MonthRecords) /\ Len(EndMonths(s)) >= 1
           /\ MonthsTrue(EndMonths(s), s.value, b)
           /\ s.ending.both \/ ~s.torn => AreNeighbours(EndMonths(s), s.month)
<1> DEFINE ms == s.months
           m == s.month
           kept == Remaining(ms)
           own == Among(kept, InClass(kept, "current"))
           next == MonthHTML(m + 1, s.value)
           prev == MonthHTML(m - 1, s.value)
           one == <<prev>> \o own
           both == one \o <<next>>
           on == Append(kept, next)
           back == <<prev>> \o kept
<1>f. GoodTypes(s, b)
  BY GoodFields
<1>1. EndMonths(s) = IF s.ending.both THEN both ELSE IF s.ending.dir = "next" THEN on ELSE back
  BY DEF EndMonths
<1>2. /\ ms \in Seq(MonthRecords) /\ m \in Int /\ s.value \in Seq(Int) /\ Near(b, m)
      /\ MonthsTrue(ms, s.value, b)
  BY <1>f DEF GoodTypes
<1>3. IsMonth(next, m + 1, s.value) /\ IsMonth(prev, m - 1, s.value)
  <2>1. m + 1 \in Int /\ m - 1 \in Int
    BY <1>2
  <2> HIDE DEF m
  <2> QED
    BY <1>2, <2>1, NewMonth
<1>4. Near(b + 1, m + 1) /\ Near(b + 1, m - 1)
  BY <1>2, CalendarAssumption DEF Near
<1>5. OneCurrent(ms, m) /\ s.ending.dir \in {"next", "prev"}
  BY <1>f DEF CalGood, CalSlides, GoodTypes
<1>6. ~s.ending.both /\ ~s.torn => IF s.ending.dir = "next" THEN EndsNext(ms, m) ELSE EndsPrev(ms, m)
  BY DEF CalGood, CalSlides
<1> HIDE DEF ms, m
<1>7. /\ kept \in Seq(MonthRecords) /\ MonthsTrue(kept, s.value, b) /\ OneCurrent(kept, m)
      /\ Len(kept) \in Nat
  <2>1. kept = Among(ms, OutOfClass(ms, "none"))
    BY DEF Remaining, OutOfClass
  <2>2. OneCurrent(kept, m)
    BY <1>2, <1>5, RemainingCurrent
  <2> HIDE DEF kept
  <2>3. kept \in Seq(MonthRecords) /\ \A i \in 1 .. Len(kept) : \E j \in 1 .. Len(ms) : kept[i] = ms[j]
    BY <1>2, <2>1, KeptPlaces
  <2>4. MonthsTrue(kept, s.value, b)
    BY <1>2, <2>3, SomeTrue
  <2> QED
    BY <2>2, <2>3, <2>4
<1> HIDE DEF next, prev
<1>8. next \in MonthRecords /\ next.month = m + 1 /\ prev \in MonthRecords /\ prev.month = m - 1
  BY <1>3 DEF IsMonth
<1>9. both \in Seq(MonthRecords) /\ Len(both) >= 1 /\ MonthsTrue(both, s.value, b) /\ AreNeighbours(both, m)
  <2>1. own \in Seq(MonthRecords) /\ Len(own) = 1 /\ own[1].month = m
        /\ \A i \in 1 .. Len(own) : \E j \in 1 .. Len(kept) : own[i] = kept[j]
    BY <1>7, KeptPlaces, OwnIs
  <2> HIDE DEF own
  <2>2. MonthsTrue(own, s.value, b)
    BY <1>7, <2>1, SomeTrue
  <2>3. PutsAhead(own, prev, one)
    BY <1>8, <2>1, PutAhead
  <2> HIDE DEF one
  <2>4. MonthsTrue(one, s.value, b)
    BY <1>3, <1>4, <2>1, <2>2, <2>3, AheadTrue
  <2>5. one \in Seq(MonthRecords) /\ Len(one) = 2 /\ one[1] = prev /\ one[2] = own[1]
    <3>1. one \in Seq(MonthRecords) /\ Len(one) = 1 + 1 /\ one[1] = prev /\ one[1 + 1] = own[1]
      BY <2>1, <2>3 DEF PutsAhead
    <3> QED
      BY <3>1
  <2>6. PutsBehind(one, next, both)
    BY <1>8, <2>5, PutLast
  <2> HIDE DEF both
  <2>7. MonthsTrue(both, s.value, b)
    BY <1>3, <1>4, <2>4, <2>5, <2>6, BehindTrue
  <2>8. both \in Seq(MonthRecords) /\ Len(both) = 3 /\ both[3] = next /\ both[1] = prev /\ both[2] = own[1]
    <3>1. both \in Seq(MonthRecords) /\ Len(both) = 2 + 1 /\ both[2 + 1] = next
          /\ both[1] = one[1] /\ both[2] = one[2]
      BY <2>5, <2>6 DEF PutsBehind
    <3> QED
      BY <2>5, <3>1
  <2> QED
    BY <1>8, <2>1, <2>7, <2>8 DEF AreNeighbours
<1>10. /\ on \in Seq(MonthRecords) /\ Len(on) >= 1 /\ MonthsTrue(on, s.value, b)
       /\ EndsNext(ms, m) => AreNeighbours(on, m)
  <2> HIDE DEF kept
  <2>1. PutsBehind(kept, next, on)
    BY <1>7, <1>8, PutBehind
  <2> HIDE DEF on
  <2>2. MonthsTrue(on, s.value, b)
    BY <1>3, <1>4, <1>7, <2>1, BehindTrue
  <2>3. on \in Seq(MonthRecords) /\ Len(on) >= 1
    BY <1>7, <2>1 DEF PutsBehind
  <2>4. ASSUME EndsNext(ms, m) PROVE AreNeighbours(on, m)
    <3>1. Len(kept) = 2 /\ kept[1].month = m - 1 /\ kept[2].month = m
      BY <1>2, <2>4, RemainingNext DEF kept
    <3>2. Len(on) = 2 + 1 /\ on[2 + 1] = next /\ on[1] = kept[1] /\ on[2] = kept[2]
      BY <2>1, <3>1 DEF PutsBehind
    <3> QED
      BY <1>8, <3>1, <3>2 DEF AreNeighbours
  <2> QED
    BY <2>2, <2>3, <2>4
<1>11. /\ back \in Seq(MonthRecords) /\ Len(back) >= 1 /\ MonthsTrue(back, s.value, b)
       /\ EndsPrev(ms, m) => AreNeighbours(back, m)
  <2> HIDE DEF kept
  <2>1. PutsAhead(kept, prev, back)
    BY <1>7, <1>8, PutAhead
  <2> HIDE DEF back
  <2>2. MonthsTrue(back, s.value, b)
    BY <1>3, <1>4, <1>7, <2>1, AheadTrue
  <2>3. back \in Seq(MonthRecords) /\ Len(back) >= 1
    BY <1>7, <2>1 DEF PutsAhead
  <2>4. ASSUME EndsPrev(ms, m) PROVE AreNeighbours(back, m)
    <3>1. Len(kept) = 2 /\ kept[1].month = m /\ kept[2].month = m + 1
      BY <1>2, <2>4, RemainingPrev DEF kept
    <3>2. Len(back) = 2 + 1 /\ back[1] = prev /\ back[1 + 1] = kept[1] /\ back[2 + 1] = kept[2]
      BY <2>1, <3>1 DEF PutsAhead
    <3> QED
      BY <1>8, <3>1, <3>2 DEF AreNeighbours
  <2> QED
    BY <2>2, <2>3, <2>4
<1> HIDE DEF both, on, back
<1> QED
  BY <1>1, <1>5, <1>6, <1>9, <1>10, <1>11 DEF m

(* onMonthChangeEnd keeps what holds. *)
LEMMA MonthChangeEndGood ==
    ASSUME NEW b \in Nat, NEW s, CalGood(s, b), s.ending.due
    PROVE  CalGood(MonthChangeEnd(s), b)
<1> DEFINE all == EndMonths(s)
           qs == SetMonthsTranslate(all, s.translate)
           torn == s.torn /\ ~s.ending.both
           r == [s EXCEPT !.months = qs, !.animating = FALSE, !.ending = NoEnd, !.torn = torn]
<1>f. GoodTypes(s, b)
  BY GoodFields
<1>1. MonthChangeEnd(s) = r
  BY DEF MonthChangeEnd, EndMonths, InClass
<1>2. /\ all \in Seq(MonthRecords) /\ Len(all) >= 1 /\ MonthsTrue(all, s.value, b)
      /\ s.ending.both \/ ~s.torn => AreNeighbours(all, s.month)
  BY EndMonthsAre
<1> HIDE DEF all
<1>3. s.translate \in Int /\ s.month \in Int /\ s \in CalRecords /\ s.torn \in BOOLEAN
      /\ Near(b, s.month) /\ ValueWithin(s.value, b)
  BY <1>f DEF GoodTypes
<1>4. Translated(all, s.translate, qs)
  BY <1>2, <1>3, TranslatedIs
<1> HIDE DEF qs
<1>5. MonthsTrue(qs, s.value, b) /\ qs \in Seq(MonthRecords) /\ Len(qs) >= 1
  <2>1. MonthsTrue(qs, s.value, b)
    BY <1>2, <1>3, <1>4, TranslatedTrue
  <2> QED
    BY <2>1, <1>2, <1>4 DEF Translated
<1>6. s.ending.both \/ ~s.torn => InOrder(qs, s.month, s.translate)
  BY <1>2, <1>3, <1>4, TranslatedInOrder DEF AreNeighbours
<1>7. NoEnd \in EndRecords /\ ~NoEnd.due /\ ~NoEnd.old
  BY DEF NoEnd, EndRecords
<1>8. torn \in BOOLEAN /\ (~torn => s.ending.both \/ ~s.torn)
  BY <1>3
<1> HIDE DEF torn
<1>9. r \in CalRecords
  BY <1>3, <1>5, <1>7, <1>8 DEF CalRecords
<1>10. /\ r.months = qs /\ r.animating = FALSE /\ r.ending = NoEnd /\ r.torn = torn
       /\ r.month = s.month /\ r.value = s.value /\ r.translate = s.translate
  BY <1>3 DEF CalRecords
<1> HIDE DEF r
<1>11. CalSlides(r)
  BY <1>7, <1>10 DEF CalSlides
<1>12. CalRests(r)
  BY <1>5, <1>6, <1>8, <1>10 DEF CalRests
<1>13. CalGood(r, b)
  BY <1>3, <1>5, <1>9, <1>10, <1>11, <1>12 DEF CalGood
<1> QED
  BY <1>1, <1>13

(* updateValue: what it leaves *)
MarkedAs(ps, value, qs) ==
    /\ qs \in Seq(MonthRecords) /\ Len(qs) = Len(ps)
    /\ \A i \in 1 .. Len(ps) :
          /\ qs[i].month = ps[i].month /\ qs[i].class = ps[i].class /\ qs[i].at = ps[i].at
          /\ qs[i].marked = DaysShown[ps[i].month] \cap ToSet(value)

(* It changes the marks only. *)
LEMMA MarkIs ==
    ASSUME NEW ps \in Seq(MonthRecords), NEW value \in Seq(Int)
    PROVE  MarkedAs(ps, value, Mark(ps, value))
<1> DEFINE qs == Mark(ps, value)
           marks(i) == DaysShown[ps[i].month] \cap ToSet(value)
<1>1. DOMAIN ps = 1 .. Len(ps) /\ Len(ps) \in Nat /\ \A i \in 1 .. Len(ps) : ps[i] \in MonthRecords
  OBVIOUS
<1>2. qs = [i \in 1 .. Len(ps) |-> qs[i]] /\ DOMAIN qs = 1 .. Len(ps)
  BY <1>1 DEF Mark
<1>3. ASSUME NEW i \in 1 .. Len(ps)
      PROVE  /\ qs[i].month = ps[i].month /\ qs[i].class = ps[i].class /\ qs[i].at = ps[i].at
             /\ qs[i].marked = marks(i) /\ qs[i] \in MonthRecords
  <2>1. ps[i] = [month |-> ps[i].month, class |-> ps[i].class, at |-> ps[i].at, marked |-> ps[i].marked]
        /\ ps[i].month \in Int /\ ps[i].at \in Int
        /\ ps[i].class \in {"none", "prev", "current", "next"}
    BY <1>1 DEF MonthRecords
  <2>2. qs[i] = [ps[i] EXCEPT !.marked = marks(i)]
    BY <1>1 DEF Mark
  <2>3. marks(i) \in SUBSET Int
    BY DEF ToSet
  <2> HIDE DEF qs, marks
  <2>4. qs[i] = [month |-> ps[i].month, class |-> ps[i].class, at |-> ps[i].at, marked |-> marks(i)]
    BY <2>1, <2>2
  <2> QED
    BY <2>1, <2>3, <2>4 DEF MonthRecords
<1> HIDE DEF qs
<1>4. qs \in Seq(MonthRecords) /\ Len(qs) = Len(ps)
  <2>1. qs \in [1 .. Len(ps) -> MonthRecords]
    BY <1>2, <1>3
  <2> QED
    BY <1>1, <2>1
<1>5. MarkedAs(ps, value, qs)
  BY <1>3, <1>4 DEF MarkedAs
<1> QED
  BY <1>5 DEF qs

(* The order and the classes of the months stay. *)
LEMMA MarkKeeps ==
    ASSUME NEW ps \in Seq(MonthRecords), NEW value, NEW qs, MarkedAs(ps, value, qs),
           NEW n, NEW t
    PROVE  /\ OneCurrent(ps, n) => OneCurrent(qs, n)
           /\ EndsNext(ps, n) => EndsNext(qs, n)
           /\ EndsPrev(ps, n) => EndsPrev(qs, n)
           /\ InOrder(ps, n, t) => InOrder(qs, n, t)
<1>1. DOMAIN qs = 1 .. Len(ps) /\ DOMAIN ps = 1 .. Len(ps) /\ Len(qs) = Len(ps) /\ Len(ps) \in Nat
  BY DEF MarkedAs
<1>2. \A i \in 1 .. Len(ps) :
         qs[i].month = ps[i].month /\ qs[i].class = ps[i].class /\ qs[i].at = ps[i].at
  BY DEF MarkedAs
<1>3. OneCurrent(ps, n) => OneCurrent(qs, n)
  BY <1>1, <1>2 DEF OneCurrent
<1>4. ASSUME EndsNext(ps, n) PROVE EndsNext(qs, n)
  <2>1. Len(ps) >= 2
    BY <1>4 DEF EndsNext
  <2>2. Len(ps) \in 1 .. Len(ps) /\ Len(ps) - 1 \in 1 .. Len(ps)
    BY <1>1, <2>1
  <2> QED
    BY <1>1, <1>2, <1>4, <2>2 DEF EndsNext
<1>5. ASSUME EndsPrev(ps, n) PROVE EndsPrev(qs, n)
  <2>1. Len(ps) >= 2
    BY <1>5 DEF EndsPrev
  <2>2. 1 \in 1 .. Len(ps) /\ 2 \in 1 .. Len(ps)
    BY <1>1, <2>1
  <2> QED
    BY <1>1, <1>2, <1>5, <2>2 DEF EndsPrev
<1>6. InOrder(ps, n, t) => InOrder(qs, n, t)
  BY <1>1, <1>2 DEF InOrder
<1> QED
  BY <1>3, <1>4, <1>5, <1>6

(* Months marked anew mark the days chosen. *)
LEMMA MarkTrue ==
    ASSUME NEW ps \in Seq(MonthRecords), NEW old, NEW c, MonthsTrue(ps, old, c),
           NEW value, NEW qs, MarkedAs(ps, value, qs)
    PROVE  MonthsTrue(qs, value, c)
<1>1. DOMAIN qs = 1 .. Len(ps) /\ DOMAIN ps = 1 .. Len(ps)
  BY DEF MarkedAs
<1> SUFFICES ASSUME NEW i \in 1 .. Len(ps)
             PROVE  /\ Near(c + 1, qs[i].month)
                    /\ qs[i].marked = DaysShown[qs[i].month] \cap ToSet(value)
  BY <1>1 DEF MonthsTrue
<1>2. qs[i].month = ps[i].month /\ qs[i].marked = DaysShown[ps[i].month] \cap ToSet(value)
  BY DEF MarkedAs
<1>3. Near(c + 1, ps[i].month)
  BY <1>1 DEF MonthsTrue
<1> QED
  BY <1>2, <1>3

(* updateValue keeps what holds. *)
LEMMA SetValueOfGood ==
    ASSUME NEW b \in Nat, NEW s, CalGood(s, b), NEW v \in Seq(Int), ValueWithin(v, b)
    PROVE  CalGood(SetValueOf(s, v), b)
<1> DEFINE qs == Mark(s.months, v)
           r == [s EXCEPT !.value = v, !.set = TRUE, !.months = qs]
<1>f. GoodTypes(s, b)
  BY GoodFields
<1>1. SetValueOf(s, v) = r
  BY <1>f DEF SetValueOf, GoodTypes, CalRecords
<1>2. s.months \in Seq(MonthRecords) /\ s \in CalRecords /\ Near(b, s.month)
      /\ MonthsTrue(s.months, s.value, b)
  BY <1>f DEF GoodTypes
<1>3. MarkedAs(s.months, v, qs)
  BY <1>2, MarkIs
<1> HIDE DEF qs
<1>4. MonthsTrue(qs, v, b) /\ qs \in Seq(MonthRecords) /\ Len(qs) = Len(s.months)
  <2>1. MonthsTrue(qs, v, b)
    BY <1>2, <1>3, MarkTrue
  <2> QED
    BY <2>1, <1>3 DEF MarkedAs
<1>5. /\ OneCurrent(s.months, s.month) => OneCurrent(qs, s.month)
      /\ EndsNext(s.months, s.month) => EndsNext(qs, s.month)
      /\ EndsPrev(s.months, s.month) => EndsPrev(qs, s.month)
      /\ InOrder(s.months, s.month, s.translate) => InOrder(qs, s.month, s.translate)
  BY <1>2, <1>3, MarkKeeps
<1>6. r \in CalRecords
  BY <1>2, <1>4 DEF CalRecords
<1>7. /\ r.months = qs /\ r.value = v /\ r.month = s.month /\ r.translate = s.translate
      /\ r.ending = s.ending /\ r.torn = s.torn /\ r.animating = s.animating /\ r.opened = s.opened
  BY <1>2 DEF CalRecords
<1> HIDE DEF r
<1>8. CalSlides(s) /\ CalRests(s)
  BY DEF CalGood
<1>9. CalSlides(r)
  BY <1>5, <1>7, <1>8 DEF CalSlides
<1>10. CalRests(r)
  BY <1>4, <1>5, <1>7, <1>8 DEF CalRests
<1>11. CalGood(r, b)
  BY <1>2, <1>4, <1>6, <1>7, <1>9, <1>10 DEF CalGood
<1> QED
  BY <1>1, <1>11

LEMMA DayTyped ==
    ASSUME NEW b \in Nat, NEW d, Within(b, d)
    PROVE  d \in Int
<1>1. Today - b \in Int /\ Today + b + 1 \in Int
  BY CalendarAssumption
<1>2. FirstOf[Today - b] \in Int /\ FirstOf[Today + b + 1] \in Int
  BY <1>1, MonthLengths
<1> QED
  BY <1>2 DEF Within

(* addValue keeps what holds when the day is near. *)
LEMMA AddValueGood ==
    ASSUME NEW b \in Nat, NEW s, CalGood(s, b), NEW d, Within(b, d)
    PROVE  CalGood(AddValue(s, d), b)
<1> DEFINE less == Among(s.value, ToSet(s.value) \ {d})
           v == IF ~s.multiple THEN <<d>>
                ELSE IF d \in ToSet(s.value) THEN less ELSE Append(s.value, d)
<1>1. AddValue(s, d) = SetValueOf(s, v)
  BY DEF AddValue
<1>2. s.value \in Seq(Int) /\ ValueWithin(s.value, b) /\ d \in Int
  BY GoodFields, DayTyped DEF GoodTypes
<1>3. <<d>> \in Seq(Int) /\ ValueWithin(<<d>>, b)
  BY <1>2 DEF ValueWithin
<1>4. less \in Seq(Int) /\ ValueWithin(less, b)
  <2> DEFINE S == ToSet(s.value) \ {d}
  <2>1. PICK g : Leaves(s.value, S, Len(s.value), less, g)
    BY <1>2, AmongLeaves
  <2>2. less \in Seq(Int)
    BY <1>2, AmongLeaves
  <2> HIDE DEF less, S
  <2>3. \A i \in 1 .. Len(less) : g[i] \in 1 .. Len(s.value) /\ less[i] = s.value[g[i]]
    BY <2>1 DEF Leaves
  <2>4. DOMAIN less = 1 .. Len(less) /\ DOMAIN s.value = 1 .. Len(s.value)
    BY <1>2, <2>2
  <2>5. ASSUME NEW i \in 1 .. Len(less) PROVE Within(b, less[i])
    <3>1. g[i] \in DOMAIN s.value /\ less[i] = s.value[g[i]]
      BY <2>3, <2>4
    <3> QED
      BY <1>2, <3>1 DEF ValueWithin
  <2> QED
    BY <2>2, <2>4, <2>5 DEF ValueWithin
<1>5. Append(s.value, d) \in Seq(Int) /\ ValueWithin(Append(s.value, d), b)
  <2> DEFINE a == Append(s.value, d)
             n == Len(s.value)
  <2>1. a \in Seq(Int) /\ Len(a) = n + 1 /\ a[n + 1] = d /\ n \in Nat
        /\ (\A i \in 1 .. n : a[i] = s.value[i]) /\ DOMAIN s.value = 1 .. n /\ DOMAIN a = 1 .. (n + 1)
    BY <1>2
  <2> HIDE DEF a, n
  <2>2. \A i \in 1 .. (n + 1) : i = n + 1 \/ i \in 1 .. n
    BY <2>1
  <2>3. ValueWithin(a, b)
    BY <1>2, <2>1, <2>2 DEF ValueWithin
  <2> QED
    BY <2>1, <2>3 DEF a
<1> HIDE DEF less
<1>6. v \in Seq(Int) /\ ValueWithin(v, b)
  BY <1>3, <1>4, <1>5
<1> HIDE DEF v
<1> QED
  BY <1>1, <1>6, SetValueOfGood

(* The months from today that the slides so far can have reached *)
Bound == Far + 12 * turns

(* The inductive invariant *)
CalendarInv ==
    /\ CalGood(cal, Bound)
    /\ turns \in 0 .. MaxTurns
    /\ dayTouch \in [isTouched : BOOLEAN, isMoved : BOOLEAN, allow : BOOLEAN, timer : BOOLEAN]

(* The days given as a value lie within Far. *)
LEMMA ValuesTyped ==
    ASSUME NEW v \in Values
    PROVE  v \in Seq(Int) /\ ValueWithin(v, Far)
<1>1. CASE v = <<>>
  BY <1>1 DEF ValueWithin
<1>2. CASE v \in {<<d>> : d \in Chosen}
  <2>1. PICK d \in Chosen : v = <<d>>
    BY <1>2
  <2>2. Within(Far, d) /\ Far \in Nat
    BY ChosenAssumption DEF Within
  <2>3. d \in Int
    BY <2>2, DayTyped
  <2> QED
    BY <2>1, <2>2, <2>3 DEF ValueWithin
<1> QED
  BY <1>1, <1>2 DEF Values

(* layout puts a month between its neighbours, and marks the days chosen. *)
LEMMA LayoutMonthsAre ==
    ASSUME NEW b \in Nat, NEW n \in Int, Near(b, n), NEW v \in Seq(Int)
    PROVE  /\ LayoutMonths(n, v) \in Seq(MonthRecords) /\ Len(LayoutMonths(n, v)) >= 1
           /\ MonthsTrue(LayoutMonths(n, v), v, b)
           /\ InOrder(LayoutMonths(n, v), n, 0) /\ OneCurrent(LayoutMonths(n, v), n)
<1> DEFINE ps == [i \in 1 .. 3 |-> MonthHTML(n + i - 2, v)]
           qs == SetMonthsTranslate(ps, 0)
<1>1. LayoutMonths(n, v) = qs
  BY DEF LayoutMonths
<1>2. ASSUME NEW i \in 1 .. 3
      PROVE  /\ ps[i] \in MonthRecords /\ ps[i].month = n + i - 2 /\ Near(b + 1, n + i - 2)
             /\ ps[i].marked = DaysShown[n + i - 2] \cap ToSet(v)
  <2>1. n + i - 2 \in Int
    OBVIOUS
  <2>2. Near(b + 1, n + i - 2)
    BY CalendarAssumption DEF Near
  <2>3. IsMonth(MonthHTML(n + i - 2, v), n + i - 2, v)
    <3> DEFINE m == n + i - 2
    <3> HIDE DEF m
    <3>1. IsMonth(MonthHTML(m, v), m, v)
      <4>1. m \in Int
        BY <2>1 DEF m
      <4>2. 0 \in Int
        OBVIOUS
      <4> QED
        BY <4>1, <4>2, NewMonth
    <3> QED
      BY <3>1 DEF m
  <2>4. ps[i] = MonthHTML(n + i - 2, v)
    OBVIOUS
  <2> HIDE DEF ps
  <2> QED
    BY <2>2, <2>3, <2>4 DEF IsMonth
<1>3. ps = [i \in 1 .. 3 |-> ps[i]] /\ DOMAIN ps = 1 .. 3
  OBVIOUS
<1> HIDE DEF ps
<1>4. ps \in Seq(MonthRecords) /\ Len(ps) = 3
  <2>1. \A m \in Nat : \A f \in [1 .. m -> MonthRecords] : f \in Seq(MonthRecords) /\ Len(f) = m
    OBVIOUS
  <2>2. ps \in [1 .. 3 -> MonthRecords]
    BY <1>2, <1>3
  <2>3. 3 \in Nat
    OBVIOUS
  <2> HIDE DEF MonthRecords
  <2> QED
    BY <2>1, <2>2, <2>3
<1>5. MonthsTrue(ps, v, b)
  BY <1>2, <1>3 DEF MonthsTrue
<1>6. ps[1].month = n - 1 /\ ps[2].month = n /\ ps[3].month = n + 1
  <2>1. 1 \in 1 .. 3 /\ 2 \in 1 .. 3 /\ 3 \in 1 .. 3
        /\ n + 1 - 2 = n - 1 /\ n + 2 - 2 = n /\ n + 3 - 2 = n + 1
    OBVIOUS
  <2> QED
    BY <1>2, <2>1
<1>7. Translated(ps, 0, qs)
  BY <1>4, TranslatedIs
<1> HIDE DEF qs
<1>8. InOrder(qs, n, 0) /\ OneCurrent(qs, n)
  <2>1. 0 \in Int
    OBVIOUS
  <2> QED
    BY <1>4, <1>6, <1>7, <2>1, TranslatedInOrder
<1>9. MonthsTrue(qs, v, b)
  <2>1. 0 \in Int
    OBVIOUS
  <2> QED
    BY <1>4, <1>5, <1>7, <2>1, TranslatedTrue
<1> QED
  BY <1>1, <1>4, <1>7, <1>8, <1>9 DEF Translated

(* open makes the calendar good, from whatever was left of the one before. *)
LEMMA LayoutGood ==
    ASSUME NEW b \in Nat, Far <= b, b <= Far + 12 * MaxTurns, NEW s, CalGood(s, b)
    PROVE  CalGood(Layout(s), b)
<1> DEFINE v == IF s.set THEN s.value ELSE s.given
           n == IF v = <<>> THEN Today ELSE MonthOf(v[1])
           set == s.set \/ v # <<>>
           end == [s.ending EXCEPT !.old = s.ending.due]
           torn == s.ending.due /\ ~s.ending.both
           qs == LayoutMonths(n, v)
           r == [s EXCEPT !.value = v, !.set = set, !.month = n, !.translate = 0, !.opened = TRUE,
                          !.ending = end, !.torn = torn, !.months = qs]
<1>f. GoodTypes(s, b)
  BY GoodFields
<1>0. s \in CalRecords /\ s.ending \in EndRecords
  BY <1>f DEF GoodTypes
<1>1. Layout(s) = r
  BY <1>0 DEF Layout, CalRecords, EndRecords
<1>2. v \in Seq(Int) /\ ValueWithin(v, b)
  <2>1. CASE s.set
    BY <1>f, <2>1 DEF GoodTypes
  <2>2. CASE ~s.set
    <3>1. s.given \in Seq(Int) /\ ValueWithin(s.given, Far) /\ Far \in Nat
      BY <1>f, ValuesTyped, ChosenAssumption DEF GoodTypes
    <3>2. ValueWithin(s.given, b)
      BY <3>1, ValueMore
    <3> QED
      BY <2>2, <3>1, <3>2
  <2> QED
    BY <2>1, <2>2
<1> HIDE DEF v
<1>3. n \in Int /\ Near(b, n)
  <2>1. CASE v = <<>>
    BY <2>1, CalendarAssumption DEF Near
  <2>2. CASE v # <<>>
    <3>1. 1 \in DOMAIN v
      BY <1>2, <2>2
    <3>2. Within(b, v[1])
      BY <1>2, <3>1 DEF ValueWithin
    <3>3. Near(b, MonthOf(v[1]))
      BY <3>2, MonthFound
    <3>4. n = MonthOf(v[1])
      BY <2>2
    <3> HIDE DEF n
    <3>5. b <= b
      OBVIOUS
    <3> QED
      BY <3>3, <3>4, <3>5, NearMore
  <2> QED
    BY <2>1, <2>2
<1> HIDE DEF n
<1>4. /\ qs \in Seq(MonthRecords) /\ Len(qs) >= 1 /\ MonthsTrue(qs, v, b)
      /\ InOrder(qs, n, 0) /\ OneCurrent(qs, n)
  BY <1>2, <1>3, LayoutMonthsAre
<1> HIDE DEF qs
<1>5. end \in EndRecords /\ end.due = s.ending.due /\ end.both = s.ending.both
      /\ end.dir = s.ending.dir /\ end.old = s.ending.due
  BY <1>0 DEF EndRecords
<1>6. set \in BOOLEAN /\ torn \in BOOLEAN /\ (~torn => ~s.ending.due \/ s.ending.both)
  BY <1>0 DEF EndRecords, CalRecords
<1> HIDE DEF end, set, torn
<1>7. r \in CalRecords
  <2>1. TRUE \in BOOLEAN /\ 0 \in Int
    OBVIOUS
  <2>2. v \in Seq(Int) /\ n \in Int /\ qs \in Seq(MonthRecords) /\ end \in EndRecords
        /\ set \in BOOLEAN /\ torn \in BOOLEAN /\ s \in CalRecords
    BY <1>0, <1>2, <1>3, <1>4, <1>5, <1>6
  <2> QED
    BY ONLY <2>1, <2>2 DEF CalRecords
<1>8. /\ r.months = qs /\ r.value = v /\ r.month = n /\ r.translate = 0
      /\ r.ending = end /\ r.torn = torn /\ r.animating = s.animating /\ r.opened = TRUE
  BY <1>0 DEF CalRecords
<1> HIDE DEF r
<1>9. s.ending.due => s.animating
  BY DEF CalGood, CalSlides
<1>10. CalSlides(r)
  BY <1>4, <1>5, <1>6, <1>8, <1>9 DEF CalSlides
<1>11. CalRests(r)
  BY <1>4, <1>8 DEF CalRests
<1>12. CalGood(r, b)
  BY <1>2, <1>3, <1>4, <1>7, <1>8, <1>10, <1>11 DEF CalGood
<1> QED
  BY <1>1, <1>12

(* What closing, fading and destroying leave *)
LessShown(s, r) ==
    /\ r \in CalRecords
    /\ r.months = s.months /\ r.value = s.value /\ r.month = s.month /\ r.translate = s.translate
    /\ r.torn = s.torn /\ r.animating = s.animating /\ (r.opened => s.opened)
    /\ r.ending = s.ending \/ r.ending = NoEnd

(* It keeps what holds. *)
LEMMA LessShownGood ==
    ASSUME NEW b, NEW s, CalGood(s, b), NEW r, LessShown(s, r)
    PROVE  CalGood(r, b)
<1>1. Near(b, r.month) /\ ValueWithin(r.value, b) /\ MonthsTrue(r.months, r.value, b)
      /\ CalSlides(s) /\ CalRests(s) /\ r \in CalRecords
  BY DEF CalGood, LessShown
<1>2. ~NoEnd.due /\ ~NoEnd.old
  BY DEF NoEnd
<1>3. CalSlides(r)
  BY <1>1, <1>2 DEF CalSlides, LessShown
<1>4. CalRests(r)
  BY <1>1 DEF CalRests, LessShown
<1> QED
  BY <1>1, <1>3, <1>4 DEF CalGood

LEMMA EndTyped == NoEnd \in EndRecords
  BY DEF NoEnd, EndRecords

(* close leaves no more than that. *)
LEMMA CloseOfShows ==
    ASSUME NEW s \in CalRecords
    PROVE  LessShown(s, CloseOf(s))
<1>1. CASE ~s.opened \/ s.kind = "inline"
  BY <1>1 DEF CloseOf, LessShown
<1>2. CASE ~(~s.opened \/ s.kind = "inline")
  <2> DEFINE fading == s.kind = "picker"
             end == IF s.kind = "popover" THEN NoEnd ELSE s.ending
             r == [s EXCEPT !.opened = FALSE, !.fading = fading, !.ending = end]
  <2>1. CloseOf(s) = r
    BY <1>2 DEF CloseOf, CalRecords
  <2>2. end \in EndRecords /\ fading \in BOOLEAN /\ (end = s.ending \/ end = NoEnd)
    BY EndTyped DEF CalRecords
  <2> HIDE DEF end, fading
  <2>3. r \in CalRecords
    BY <2>2 DEF CalRecords
  <2>4. /\ r.months = s.months /\ r.value = s.value /\ r.month = s.month /\ r.translate = s.translate
        /\ r.torn = s.torn /\ r.animating = s.animating /\ r.opened = FALSE /\ r.ending = end
    BY DEF CalRecords
  <2> HIDE DEF r
  <2> QED
    BY <2>1, <2>2, <2>3, <2>4 DEF LessShown
<1> QED
  BY <1>1, <1>2

(* The bound stays within what the model reaches, *)
LEMMA BoundTyped ==
    ASSUME turns \in 0 .. MaxTurns
    PROVE  Bound \in Nat /\ Far <= Bound /\ Bound <= Far + 12 * MaxTurns
BY CalendarAssumption, ChosenAssumption DEF Bound

(* and grows by a year with each turn. *)
LEMMA BoundTurns ==
    ASSUME turns \in 0 .. MaxTurns, turns < MaxTurns, turns' = turns + 1
    PROVE  /\ turns' \in 0 .. MaxTurns /\ Bound \in Nat /\ Bound + 12 \in Nat
           /\ Bound' = Bound + 12 /\ Bound + 12 <= Far + 12 * MaxTurns
BY CalendarAssumption, ChosenAssumption DEF Bound

(* A new calendar is good before anything is laid out. *)
LEMMA FirstCalendar ==
    ASSUME NEW multiple \in BOOLEAN, NEW sort \in {"inline", "picker", "popover"}, NEW given \in Values
    PROVE  CalGood([multiple |-> multiple, closeOnSelect |-> ~multiple, kind |-> sort,
                   given |-> given, set |-> FALSE, value |-> <<>>, month |-> Today,
                   translate |-> 0, animating |-> FALSE, opened |-> FALSE,
                   listening |-> TRUE, months |-> <<>>, ending |-> NoEnd,
                   torn |-> FALSE, fading |-> FALSE], Far)
<1> DEFINE p == [multiple |-> multiple, closeOnSelect |-> ~multiple, kind |-> sort,
                   given |-> given, set |-> FALSE, value |-> <<>>, month |-> Today,
                   translate |-> 0, animating |-> FALSE, opened |-> FALSE,
                   listening |-> TRUE, months |-> <<>>, ending |-> NoEnd,
                   torn |-> FALSE, fading |-> FALSE]
<1>1. Today \in Int /\ Near(Far, Today)
  BY CalendarAssumption, ChosenAssumption DEF Near
<1>2. p \in CalRecords
  BY <1>1, EndTyped DEF CalRecords
<1>3. ValueWithin(p.value, Far) /\ MonthsTrue(p.months, p.value, Far)
  BY DEF ValueWithin, MonthsTrue
<1>4. CalSlides(p) /\ CalRests(p)
  BY DEF CalSlides, CalRests, NoEnd
<1>5. Near(Far, p.month)
  BY <1>1
<1> HIDE DEF p
<1>6. CalGood(p, Far)
  BY <1>2, <1>3, <1>4, <1>5 DEF CalGood
<1> QED
  BY <1>6 DEF p

(* The invariant holds at the start. *)
LEMMA CalendarStarts == CalendarInit => CalendarInv
<1> SUFFICES ASSUME CalendarInit PROVE CalendarInv
  OBVIOUS
<1>1. dayTouch \in [isTouched : BOOLEAN, isMoved : BOOLEAN, allow : BOOLEAN, timer : BOOLEAN]
      /\ turns = 0
  BY DEF CalendarInit, FreshTouch
<1>2. turns \in 0 .. MaxTurns /\ Bound = Far /\ Bound \in Nat /\ Far <= Far + 12 * MaxTurns
  BY <1>1, CalendarAssumption, ChosenAssumption DEF Bound
<1>3. PICK p : CalGood(p, Far) /\ (cal = p \/ cal = Layout(p))
  <2>1. PICK multiple \in BOOLEAN, sort \in {"inline", "picker", "popover"}, given \in Values :
          LET p == [multiple |-> multiple, closeOnSelect |-> ~multiple, kind |-> sort,
                   given |-> given, set |-> FALSE, value |-> <<>>, month |-> Today,
                   translate |-> 0, animating |-> FALSE, opened |-> FALSE,
                   listening |-> TRUE, months |-> <<>>, ending |-> NoEnd,
                   torn |-> FALSE, fading |-> FALSE]
          IN  cal = IF sort = "inline" THEN Layout(p) ELSE p
    BY DEF CalendarInit
  <2> QED
    BY <2>1, FirstCalendar
<1>4. CalGood(Layout(p), Far)
  <2>1. Far \in Nat /\ Far <= Far
    BY ChosenAssumption
  <2> QED
    BY <1>2, <1>3, <2>1, LayoutGood
<1> QED
  BY <1>1, <1>2, <1>3, <1>4 DEF CalendarInv

(* A step that takes no turn keeps what holds with the same bound. *)
LEMMA SameTurn ==
    ASSUME CalendarInv, UNCHANGED turns, CalGood(cal', Bound),
           dayTouch' \in [isTouched : BOOLEAN, isMoved : BOOLEAN, allow : BOOLEAN, timer : BOOLEAN]
    PROVE  CalendarInv'
BY DEF CalendarInv, Bound

(* Each step keeps the invariant. *)
LEMMA OpenCalendarKeeps ==
    ASSUME CalendarInv, OpenCalendar
    PROVE  CalendarInv'
<1>1. CalGood(Layout(cal), Bound)
  BY BoundTyped, LayoutGood DEF CalendarInv
<1>2. dayTouch' \in [isTouched : BOOLEAN, isMoved : BOOLEAN, allow : BOOLEAN, timer : BOOLEAN]
  BY DEF OpenCalendar, FreshTouch
<1> QED
  BY <1>1, <1>2, SameTurn DEF OpenCalendar

LEMMA CloseCalendarKeeps ==
    ASSUME CalendarInv, CloseCalendar
    PROVE  CalendarInv'
<1>1. cal \in CalRecords
  BY DEF CalendarInv, CalGood
<1>2. CalGood(CloseOf(cal), Bound)
  BY <1>1, CloseOfShows, LessShownGood DEF CalendarInv
<1> QED
  BY <1>2, SameTurn DEF CloseCalendar, CalendarInv

LEMMA DestroyCalendarKeeps ==
    ASSUME CalendarInv, DestroyCalendar
    PROVE  CalendarInv'
<1>1. cal \in CalRecords
  BY DEF CalendarInv, CalGood
<1> DEFINE s == CloseOf(cal)
           r == [s EXCEPT !.listening = FALSE]
<1>2. CalGood(s, Bound) /\ s \in CalRecords
  BY <1>1, CloseOfShows, LessShownGood DEF CalendarInv, LessShown
<1> HIDE DEF s
<1>3. LessShown(s, r)
  <2>1. FALSE \in BOOLEAN
    OBVIOUS
  <2>2. r \in CalRecords
    BY <1>2, <2>1 DEF CalRecords
  <2> QED
    BY <1>2, <2>2 DEF LessShown, CalRecords
<1>4. cal' = r
  BY DEF DestroyCalendar, s
<1> HIDE DEF r
<1>5. CalGood(r, Bound)
  BY <1>2, <1>3, LessShownGood
<1> QED
  BY <1>4, <1>5, SameTurn DEF DestroyCalendar, CalendarInv

LEMMA CalendarFadedKeeps ==
    ASSUME CalendarInv, CalendarFaded
    PROVE  CalendarInv'
<1>1. cal \in CalRecords /\ CalGood(cal, Bound)
  BY DEF CalendarInv, CalGood
<1> DEFINE end == IF cal.ending.old \/ ~cal.opened THEN NoEnd ELSE cal.ending
           r == [cal EXCEPT !.fading = FALSE, !.ending = end]
<1>2. end \in EndRecords /\ (end = cal.ending \/ end = NoEnd) /\ FALSE \in BOOLEAN
  BY <1>1, EndTyped DEF CalRecords
<1>3. cal' = r
  BY <1>1 DEF CalendarFaded, CalRecords
<1> HIDE DEF end
<1>4. LessShown(cal, r)
  <2>1. r \in CalRecords
    BY <1>1, <1>2 DEF CalRecords
  <2>2. /\ r.months = cal.months /\ r.value = cal.value /\ r.month = cal.month
        /\ r.translate = cal.translate /\ r.torn = cal.torn /\ r.animating = cal.animating
        /\ r.opened = cal.opened /\ r.ending = end
    BY <1>1 DEF CalRecords
  <2> HIDE DEF r
  <2> QED
    BY <1>2, <2>1, <2>2 DEF LessShown
<1> HIDE DEF r
<1>5. CalGood(r, Bound)
  BY <1>1, <1>4, LessShownGood
<1> QED
  BY <1>3, <1>5, SameTurn DEF CalendarFaded, CalendarInv

LEMMA MonthSlideEndsKeeps ==
    ASSUME CalendarInv, MonthSlideEnds
    PROVE  CalendarInv'
<1>1. CalGood(MonthChangeEnd(cal), Bound)
  BY BoundTyped, MonthChangeEndGood DEF CalendarInv, MonthSlideEnds
<1> QED
  BY <1>1, SameTurn DEF MonthSlideEnds, CalendarInv

(* So do steps that take a turn, when they reach a year further at most. *)
LEMMA TurnKeeps ==
    ASSUME CalendarInv, turns < MaxTurns, turns' = turns + 1, CalGood(cal', Bound + 12),
           dayTouch' \in [isTouched : BOOLEAN, isMoved : BOOLEAN, allow : BOOLEAN, timer : BOOLEAN]
    PROVE  CalendarInv'
<1>1. turns' \in 0 .. MaxTurns /\ Bound' = Bound + 12
  BY BoundTurns DEF CalendarInv
<1> QED
  BY <1>1 DEF CalendarInv

TouchTyped ==
    dayTouch \in [isTouched : BOOLEAN, isMoved : BOOLEAN, allow : BOOLEAN, timer : BOOLEAN]

LEMMA TapNextMonthKeeps ==
    ASSUME CalendarInv, TapNextMonth
    PROVE  CalendarInv'
<1>1. CalGood(NextMonth(cal), Bound + 12)
  BY BoundTyped, NextMonthGood DEF CalendarInv, TapNextMonth, Turn
<1> QED
  BY <1>1, TurnKeeps DEF TapNextMonth, Turn, CalendarInv

LEMMA TapPrevMonthKeeps ==
    ASSUME CalendarInv, TapPrevMonth
    PROVE  CalendarInv'
<1>1. CalGood(PrevMonth(cal), Bound + 12)
  BY BoundTyped, PrevMonthGood DEF CalendarInv, TapPrevMonth, Turn
<1> QED
  BY <1>1, TurnKeeps DEF TapPrevMonth, Turn, CalendarInv

(* A year on or back is within the next bound. *)
LEMMA YearsNear ==
    ASSUME NEW b \in Nat, NEW n, Near(b, n)
    PROVE  n + 12 \in Int /\ Near(b + 12, n + 12) /\ n - 12 \in Int /\ Near(b + 12, n - 12)
BY CalendarAssumption DEF Near

LEMMA NextYearKeeps ==
    ASSUME CalendarInv, NextYear
    PROVE  CalendarInv'
<1>1. Bound \in Nat /\ Near(Bound, cal.month) /\ CalGood(cal, Bound)
  BY BoundTyped DEF CalendarInv, CalGood
<1>2. CalGood(SetYearMonth(cal, cal.month + 12), Bound + 12)
  BY <1>1, YearsNear, SetYearMonthGood DEF NextYear, Turn
<1> QED
  BY <1>2, TurnKeeps DEF NextYear, Turn, CalendarInv

LEMMA PrevYearKeeps ==
    ASSUME CalendarInv, PrevYear
    PROVE  CalendarInv'
<1>1. Bound \in Nat /\ Near(Bound, cal.month) /\ CalGood(cal, Bound)
  BY BoundTyped DEF CalendarInv, CalGood
<1>2. CalGood(SetYearMonth(cal, cal.month - 12), Bound + 12)
  BY <1>1, YearsNear, SetYearMonthGood DEF PrevYear, Turn
<1> QED
  BY <1>2, TurnKeeps DEF PrevYear, Turn, CalendarInv

LEMMA SetValueKeeps ==
    ASSUME CalendarInv, NEW v \in Values, SetValue(v)
    PROVE  CalendarInv'
<1>1. Bound \in Nat /\ Bound + 12 \in Nat /\ Bound <= Bound + 12 /\ Far \in Nat /\ Far <= Bound
  BY BoundTyped, ChosenAssumption DEF CalendarInv
<1>2. v \in Seq(Int) /\ ValueWithin(v, Bound)
  BY <1>1, ValuesTyped, ValueMore
<1>3. CalGood(SetValueOf(cal, v), Bound)
  BY <1>1, <1>2, SetValueOfGood DEF CalendarInv
<1>4. CalGood(SetValueOf(cal, v), Bound + 12)
  BY <1>1, <1>3, GoodMore
<1> QED
  BY <1>4, TurnKeeps DEF SetValue, CalendarInv

(* The day clicked is of a month in the wrapper or next to it, so a slide
   there and the choice stay within the bound. *)
LEMMA DayClickKeeps ==
    ASSUME CalendarInv, NEW i \in DOMAIN cal.months, NEW k \in Cells, DayClick(i, k)
    PROVE  CalendarInv'
<1> DEFINE shown == cal.months[i].month
           d == DayAt(shown, k)
           sort == Grid[shown][k].kind
           slid == IF sort = "next" THEN NextMonth(cal)
                   ELSE IF sort = "prev" THEN PrevMonth(cal) ELSE cal
           chosen == AddValue(slid, d)
<1>1. /\ cal.opened /\ turns < MaxTurns /\ turns' = turns + 1 /\ dayTouch' = dayTouch
      /\ cal' = IF cal.closeOnSelect THEN CloseOf(chosen) ELSE chosen
  BY DEF DayClick, Turn
<1>2. Bound \in Nat /\ Bound + 12 \in Nat /\ Bound <= Bound + 12
      /\ Bound + 12 <= Far + 12 * MaxTurns
  BY <1>1, BoundTurns DEF CalendarInv
<1>3. CalGood(cal, Bound)
  BY DEF CalendarInv
<1>4. Near(Bound + 1, shown)
  BY <1>3 DEF CalGood, MonthsTrue
<1> HIDE DEF shown
<1>5. shown \in Reach
  BY <1>2, <1>4, CalendarAssumption, ChosenAssumption DEF Near, Reach
<1>6. Within(Bound + 12, d)
  <2>1. k \in 1 .. 42 /\ Bound + 1 \in Nat /\ Bound + 2 \in Nat /\ Bound + 2 <= Bound + 12
        /\ Bound + 1 + 1 = Bound + 2
    BY <1>2, CalendarAssumption
  <2>2. Within(Bound + 1 + 1, d)
    BY <1>4, <1>5, <2>1, DayNear
  <2> HIDE DEF d
  <2> QED
    BY <1>2, <2>1, <2>2, WithinMore
<1> HIDE DEF d
<1>7. CalGood(slid, Bound + 12)
  <2>1. CalGood(NextMonth(cal), Bound + 12) /\ CalGood(PrevMonth(cal), Bound + 12)
    BY <1>1, <1>2, <1>3, NextMonthGood, PrevMonthGood
  <2>2. CalGood(cal, Bound + 12)
    BY <1>2, <1>3, GoodMore
  <2> HIDE DEF sort
  <2> QED
    BY <2>1, <2>2
<1> HIDE DEF slid
<1>8. CalGood(chosen, Bound + 12)
  BY <1>2, <1>6, <1>7, AddValueGood
<1> HIDE DEF chosen
<1>9. CalGood(CloseOf(chosen), Bound + 12)
  <2>1. chosen \in CalRecords
    BY <1>8 DEF CalGood
  <2> QED
    BY <1>8, <2>1, CloseOfShows, LessShownGood
<1>10. CalGood(cal', Bound + 12)
  BY <1>1, <1>8, <1>9
<1> QED
  BY <1>1, <1>10, TurnKeeps DEF CalendarInv

(* A swipe is a slide or nothing. *)
LEMMA DayTouchEndKeeps ==
    ASSUME CalendarInv, NEW to \in {"next", "prev", "back"}, DayTouchEnd(to)
    PROVE  CalendarInv'
<1>1. TouchTyped'
  BY DEF DayTouchEnd, CalendarInv, TouchTyped
<1>2. CASE dayTouch.isTouched /\ dayTouch.isMoved /\ to # "back"
  <2>1. Turn /\ (cal' = NextMonth(cal) \/ cal' = PrevMonth(cal))
    BY <1>2 DEF DayTouchEnd
  <2>2. CalGood(NextMonth(cal), Bound + 12) /\ CalGood(PrevMonth(cal), Bound + 12)
    BY <2>1, BoundTyped, NextMonthGood, PrevMonthGood DEF CalendarInv, Turn
  <2> QED
    BY <1>1, <2>1, <2>2, TurnKeeps DEF Turn, TouchTyped
<1>3. CASE ~(dayTouch.isTouched /\ dayTouch.isMoved /\ to # "back")
  <2>1. UNCHANGED <<cal, turns>>
    BY <1>3 DEF DayTouchEnd
  <2> QED
    BY <1>1, <2>1, SameTurn DEF CalendarInv, TouchTyped
<1> QED
  BY <1>2, <1>3

(* Touches change nothing else. *)
LEMMA TouchKeeps ==
    ASSUME CalendarInv,
           DayTouchStart \/ (\E along \in BOOLEAN : DayTouchMove(along)) \/ AllowDayClick
             \/ UNCHANGED calendarVars
    PROVE  CalendarInv'
<1>1. UNCHANGED <<cal, turns>>
  BY DEF DayTouchStart, DayTouchMove, AllowDayClick, calendarVars
<1>2. TouchTyped'
  <2>1. CASE UNCHANGED dayTouch
    BY <2>1 DEF CalendarInv, TouchTyped
  <2>2. CASE DayTouchStart
    BY <2>2 DEF CalendarInv, TouchTyped, DayTouchStart
  <2>3. CASE \E along \in BOOLEAN : DayTouchMove(along)
    BY <2>3 DEF CalendarInv, TouchTyped, DayTouchMove
  <2>4. CASE AllowDayClick
    BY <2>4 DEF CalendarInv, TouchTyped, AllowDayClick
  <2> QED
    BY <2>1, <2>2, <2>3, <2>4 DEF calendarVars
<1> QED
  BY <1>1, <1>2, SameTurn DEF CalendarInv, TouchTyped

LEMMA CalendarStep == CalendarInv /\ [CalendarNext]_calendarVars => CalendarInv'
<1> SUFFICES ASSUME CalendarInv, [CalendarNext]_calendarVars
             PROVE  CalendarInv'
  OBVIOUS
<1>1. CASE OpenCalendar
  BY <1>1, OpenCalendarKeeps
<1>2. CASE CloseCalendar
  BY <1>2, CloseCalendarKeeps
<1>3. CASE DestroyCalendar
  BY <1>3, DestroyCalendarKeeps
<1>4. CASE CalendarFaded
  BY <1>4, CalendarFadedKeeps
<1>5. CASE MonthSlideEnds
  BY <1>5, MonthSlideEndsKeeps
<1>6. CASE TapNextMonth
  BY <1>6, TapNextMonthKeeps
<1>7. CASE TapPrevMonth
  BY <1>7, TapPrevMonthKeeps
<1>8. CASE NextYear
  BY <1>8, NextYearKeeps
<1>9. CASE PrevYear
  BY <1>9, PrevYearKeeps
<1>10. CASE \E v \in Values : SetValue(v)
  BY <1>10, SetValueKeeps
<1>11. CASE \E i \in DOMAIN cal.months, k \in Cells : DayClick(i, k)
  BY <1>11, DayClickKeeps
<1>12. CASE \E to \in {"next", "prev", "back"} : DayTouchEnd(to)
  BY <1>12, DayTouchEndKeeps
<1>13. CASE DayTouchStart \/ (\E along \in BOOLEAN : DayTouchMove(along)) \/ AllowDayClick
             \/ UNCHANGED calendarVars
  BY <1>13, TouchKeeps
<1> QED
  BY <1>1, <1>2, <1>3, <1>4, <1>5, <1>6, <1>7, <1>8, <1>9, <1>10, <1>11, <1>12, <1>13 DEF CalendarNext

(* The invariant holds of every behaviour. *)
LEMMA CalendarInvHolds == CalendarSpec => []CalendarInv
BY CalendarStarts, CalendarStep, PTL DEF CalendarSpec

(* It says what the type invariant says, *)
LEMMA CalendarInvTypes == CalendarInv => CalendarTypeOK
<1> SUFFICES ASSUME CalendarInv PROVE CalendarTypeOK
  OBVIOUS
<1>1. GoodTypes(cal, Bound) /\ CalGood(cal, Bound)
  BY GoodFields DEF CalendarInv
<1>2. ASSUME NEW i \in DOMAIN cal.months
      PROVE  /\ cal.months[i].class \in {"none", "prev", "current", "next"}
             /\ cal.months[i].marked \subseteq DaysShown[cal.months[i].month]
  <2>1. cal.months[i] \in MonthRecords
    BY <1>1 DEF GoodTypes
  <2>2. cal.months[i].marked = DaysShown[cal.months[i].month] \cap ToSet(cal.value)
    BY <1>1 DEF GoodTypes, MonthsTrue
  <2> QED
    BY <2>1, <2>2 DEF MonthRecords
<1>3. cal.ending.old => cal.ending.due
  BY <1>1 DEF CalGood, CalSlides
<1> QED
  BY <1>1, <1>2, <1>3 DEF CalendarTypeOK, CalendarInv, GoodTypes

(* and that the calendar is true at rest. *)
LEMMA CalendarInvTrue == CalendarInv => CalendarIsTrue
<1> SUFFICES ASSUME CalendarInv PROVE CalendarIsTrue
  OBVIOUS
<1>1. GoodTypes(cal, Bound) /\ CalRests(cal)
  BY GoodFields DEF CalendarInv, CalGood
<1>2. ASSUME cal.opened, ~cal.animating, ~cal.torn
      PROVE  /\ [i \in DOMAIN cal.months |-> cal.months[i].month]
                  = <<cal.month - 1, cal.month, cal.month + 1>>
             /\ \A i \in 1 .. 3 : cal.months[i].at + cal.translate = i - 2
             /\ GridIsWhole[cal.month]
  <2>1. InOrder(cal.months, cal.month, cal.translate)
    BY <1>1, <1>2 DEF CalRests
  <2>2. DOMAIN cal.months = 1 .. 3
    BY <1>1, <2>1 DEF InOrder, GoodTypes
  <2>3. [i \in DOMAIN cal.months |-> cal.months[i].month]
          = <<cal.month - 1, cal.month, cal.month + 1>>
    BY <2>1, <2>2 DEF InOrder
  <2>4. cal.month \in Reach /\ cal.month \in Int
    BY <1>1, BoundTyped, CalendarAssumption, ChosenAssumption DEF CalendarInv, GoodTypes, Near, Reach
  <2>5. GridIsWhole[cal.month]
    BY <2>4, GridWhole
  <2> QED
    BY <2>1, <2>3, <2>5 DEF InOrder
<1>3. MonthIsShown
  BY <1>2 DEF MonthIsShown
<1>4. ChosenIsMarked
  BY <1>1 DEF ChosenIsMarked, GoodTypes, MonthsTrue
<1> QED
  BY <1>3, <1>4 DEF CalendarIsTrue

(***************************************************************************)
(* CalendarTypeCorrect: for any day of today, limits, days given and       *)
(* number of turns the state of the calendar has its type, and each month  *)
(* in the wrapper marks days of its own grid only.                         *)
(***************************************************************************)
THEOREM CalendarTypeCorrect == CalendarSpec => []CalendarTypeOK
BY CalendarInvHolds, CalendarInvTypes, PTL

(***************************************************************************)
(* CalendarShowsTruth: for any day of today, limits, days given and number *)
(* of turns, the calendar at rest shows the month that it names, whole and *)
(* between its neighbours, unless a slide was turned back (MonthIsShown),  *)
(* and an open calendar marks the days chosen and no others                *)
(* (ChosenIsMarked), however slides, choices, closing and opening overlap. *)
(***************************************************************************)
THEOREM CalendarShowsTruth == CalendarSpec => []CalendarIsTrue
BY CalendarInvHolds, CalendarInvTrue, PTL
================================================================================
