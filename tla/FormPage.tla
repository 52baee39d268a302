------------------------------- MODULE FormPage -------------------------------
(***************************************************************************)
(* A page with a form (framework7.js): a text field, a group of check      *)
(* boxes and a smart select, whose options are listed on a page of their   *)
(* own and whose choice is written beside it, or is read from there when   *)
(* the text beside it has class smart-select-value.  A form of class       *)
(* store-data keeps its values in localStorage, from where a page that is  *)
(* loaded again is filled; the scripts of the forms fill it from JSON.     *)
(***************************************************************************)
EXTENDS Naturals, FiniteSets

CONSTANTS
    Options,      \* the options of the select, and those a script may add:
                  \* each has a text of its own
    Boxes,        \* the values of the check boxes
    Texts         \* what the text field may hold, besides nothing

ASSUME FormAssumption == Options # {} /\ IsFiniteSet(Options)

Empty == ""
NoPage == [open |-> FALSE, listed |-> {}, checked |-> {}]
NothingStored == [is |-> FALSE]

VARIABLES
    html,         \* the document: its values, its options, its text beside them
    kind,         \* multiple select, store-data, smart-select-value or not
    form,         \* the values of the inputs now
    options,      \* the options of the select now
    beside,       \* the options named beside the select (item-after)
    page,         \* the page of the smart select and what is checked there
    stored,       \* localStorage: the JSON of the form
    filled        \* what a script's change, or a text of the document, left behind

formVars == <<html, kind, form, options, beside, page, stored, filled>>

MayChoose(S) == IF kind.multiple THEN SUBSET S ELSE {{o} : o \in S}
Data == [text : Texts \cup {Empty}, chosen : SUBSET Options, boxes : SUBSET Boxes]

(* What a document or a script gives the other inputs is all empty or all
   filled (bound); the user changes each by itself. *)
Given == {d \in Data : d.text = Empty <=> d.boxes = {}}

-----------------------------------------------------------------------------
(* Plausible slips in the code below, each caught by a property. *)

\* The text is written before the form is filled from its store.
FilledLast(text, values) == IF kind.valued THEN text ELSE html.data.chosen

\* An empty list counts as no value, as an empty string does.
SkipNone(data, now) ==
    [text   |-> IF data.text = Empty THEN now.text ELSE data.text,
     chosen |-> now.chosen,
     boxes  |-> IF data.boxes = {} THEN now.boxes ELSE data.boxes]

\* A select takes values it has no option for.
TakeAny(S, values) == values

-----------------------------------------------------------------------------
\* formToJSON: the values of all inputs.
FormToJSON(values) == [is |-> TRUE, data |-> values]

\* What a select with the options S makes of the values it is given: the
\* options among them; a single select with another value has none.
Select(S, values) == IF kind.multiple \/ values \subseteq S THEN values \cap S ELSE {}

\* The inputs other than the select that formFromJSON fills: a name without
\* a value is passed over, but an empty list is a value.
FillFields(data, now) ==
    [text   |-> IF data.text = Empty THEN now.text ELSE data.text,
     chosen |-> now.chosen,
     boxes  |-> data.boxes]

\* formFromJSON: a single select's value may be missing, a multiple one's is
\* a list.
FormFromJSON(data, S, now) ==
    [FillFields(data, now) EXCEPT
        !.chosen = IF data.chosen = {} /\ ~kind.multiple THEN @
                   ELSE Select(S, data.chosen)]

\* initSmartSelects: the text beside the select is written from its options,
TextBeside(text, values) == IF kind.valued THEN text ELSE values.chosen

\* or, with class smart-select-value, selects the one option it is the text
\* of.  One that is the text of no option leaves a multiple select without a
\* choice; a single select has none or one the browser selects instead.
NamesOne(text, S) == \E o \in S : text = {o}

ChosenBy(text, S) ==
    IF NamesOne(text, S) THEN {text}
    ELSE {{}} \cup IF kind.multiple THEN {} ELSE {{o} : o \in S}

SetUp(values, text, S) ==
    IF kind.valued THEN {[values EXCEPT !.chosen = c] : c \in ChosenBy(text, S)} ELSE {values}

\* The text beside a select that is set up may not be its choice.
Unnamed(text, S) == IF kind.valued /\ ~NamesOne(text, S) THEN {"beside"} ELSE {}

\* smartSelectOpen: the values of the select are collected for its page.
OpenedPage == [open |-> TRUE, listed |-> options', checked |-> form'.chosen]

\* storeForm, on every change event of the form.
StoreForm == stored' = IF kind.store THEN FormToJSON(form') ELSE stored

-----------------------------------------------------------------------------
\* initPage: initFormsStorage, then initSmartSelects.
Initialised(kept) ==
    IF kind.store /\ kept.is
    THEN FormFromJSON(kept.data, html.options, html.data) ELSE html.data

\* Which options the document has and which a script adds is all one.
FormInit ==
    /\ kind \in [multiple : BOOLEAN, store : BOOLEAN, valued : BOOLEAN]
    /\ \E S \in {Options, {CHOOSE o \in Options : TRUE}} :
          html \in [options : {S},
                    data : {d \in Given : d.chosen \in MayChoose(S)},
                    text : IF kind.valued THEN SUBSET Options ELSE {{}}]
    /\ form \in SetUp(html.data, html.text, html.options)
    /\ options = html.options
    /\ beside = TextBeside(html.text, form)
    /\ page = NoPage
    /\ stored = NothingStored
    /\ filled = Unnamed(html.text, html.options)

\* The form's page is loaded again, or the application was restarted.
InitPage ==
    /\ form' \in SetUp(Initialised(stored), html.text, html.options)
    /\ options' = html.options
    /\ beside' = TextBeside(html.text, form')
    /\ page' = NoPage
    /\ filled' = Unnamed(html.text, html.options) \cup
                 IF form'.chosen = Initialised(stored).chosen THEN {} ELSE {"choice"}
    /\ UNCHANGED <<html, kind, stored>>

\* The user changes the text or a check box.
ChangeText(v) ==
    /\ ~page.open /\ v # form.text
    /\ form' = [form EXCEPT !.text = v]
    /\ StoreForm
    /\ filled' = filled \ {"store", "choice"}
    /\ UNCHANGED <<html, kind, options, beside, page>>

ChangeBox(b) ==
    /\ ~page.open
    /\ form' = [form EXCEPT !.boxes = (@ \ {b}) \cup ({b} \ @)]
    /\ StoreForm
    /\ filled' = filled \ {"store", "choice"}
    /\ UNCHANGED <<html, kind, options, beside, page>>

\* smartSelectOpen, when no other page change is under way.
SmartSelectOpen ==
    /\ ~page.open
    /\ UNCHANGED <<html, kind, form, options, beside, stored>>
    /\ page' = OpenedPage
    /\ filled' = filled \ {"page"}

\* The page of the select is left.
LeaveOptions ==
    /\ page.open
    /\ page' = NoPage
    /\ UNCHANGED <<html, kind, form, options, beside, stored, filled>>

\* The change handler of a check box on that page: its option follows it,
\* and the text names all options that are selected then.
CheckOption(o) ==
    /\ page.open /\ kind.multiple /\ o \in page.listed
    /\ LET checked == (page.checked \ {o}) \cup ({o} \ page.checked) IN
       /\ page' = [page EXCEPT !.checked = checked]
       /\ form' = [form EXCEPT !.chosen = IF o \in checked THEN @ \cup {o} ELSE @ \ {o}]
    /\ beside' = form'.chosen
    /\ StoreForm
    /\ filled' = filled \ {"store", "choice", "beside"}
    /\ UNCHANGED <<html, kind, options>>

\* The change handler of a radio button; the page closes at once when
\* data-back-on-select says so and the router is not busy.
PickOption(o) ==
    /\ page.open /\ ~kind.multiple /\ o \in page.listed \ page.checked
    /\ form' = [form EXCEPT !.chosen = {o}]
    /\ page' \in {NoPage, [page EXCEPT !.checked = {o}]}
    /\ beside' = {o}
    /\ StoreForm
    /\ filled' = {}
    /\ UNCHANGED <<html, kind, options>>

\* smartSelectAddOption: the smart select is set up again, and its page, if
\* it is there, is opened again in its place.  The browser may select an
\* option of a single select that had none.
WithOption(o) ==
    {form} \cup IF form.chosen = {} /\ ~kind.multiple
                THEN {[form EXCEPT !.chosen = {p}] : p \in options \cup {o}} ELSE {}

SmartSelectAddOption(o, busy) ==
    /\ o \notin options
    /\ options' = options \cup {o}
    /\ \E values \in WithOption(o) : form' \in SetUp(values, beside, options')
    /\ beside' = TextBeside(beside, form')
    /\ page' = IF page.open /\ ~busy THEN OpenedPage ELSE page
    /\ filled' = (filled \ ({"beside"} \cup IF busy THEN {} ELSE {"page"}))
                  \cup Unnamed(beside, options')
                  \cup IF form'.chosen = form.chosen THEN {}
                       ELSE {"choice"} \cup IF busy THEN {"page"} ELSE {}
    /\ UNCHANGED <<html, kind, stored>>

\* A script of the form calls formFromJSON: no change event, no new text.
FillForm(data) ==
    /\ kind.multiple \/ Cardinality(data.chosen) <= 1
    /\ form' = FormFromJSON(data, options, form)
    /\ form' # form
    /\ filled' = {"store"} \cup IF form'.chosen = form.chosen THEN filled
                                ELSE {"beside", "page"}
    /\ UNCHANGED <<html, kind, options, beside, page, stored>>

\* initSmartSelects, called by a script after it has filled the form.
InitSmartSelects ==
    /\ form' \in SetUp(form, beside, options)
    /\ beside' = TextBeside(beside, form')
    /\ filled' = (filled \ {"beside"}) \cup Unnamed(beside, options)
                  \cup IF form'.chosen = form.chosen THEN {} ELSE {"choice", "page"}
    /\ UNCHANGED <<html, kind, options, page, stored>>

\* formDeleteData
FormDeleteData ==
    /\ stored' = NothingStored
    /\ UNCHANGED <<html, kind, form, options, beside, page, filled>>

FormNext ==
    \/ InitPage \/ SmartSelectOpen \/ LeaveOptions \/ InitSmartSelects \/ FormDeleteData
    \/ \E v \in Texts \cup {Empty} : ChangeText(v)
    \/ \E b \in Boxes : ChangeBox(b)
    \/ \E o \in Options : CheckOption(o) \/ PickOption(o)
    \/ \E o \in Options, busy \in BOOLEAN : SmartSelectAddOption(o, busy)
    \/ \E data \in Given : FillForm(data)

FormSpec == FormInit /\ [][FormNext]_formVars

-----------------------------------------------------------------------------
FormTypeOK ==
    /\ html.options \subseteq Options /\ html.data \in Data /\ html.text \subseteq Options
    /\ kind \in [multiple : BOOLEAN, store : BOOLEAN, valued : BOOLEAN]
    /\ form \in Data /\ options \subseteq Options /\ form.chosen \subseteq options
    /\ ~kind.multiple => Cardinality(form.chosen) <= 1
    /\ beside \subseteq Options
    /\ page.open \in BOOLEAN /\ page.listed \subseteq options /\ page.checked \subseteq page.listed
    /\ stored.is \in BOOLEAN /\ (stored.is => stored.data \in Data)
    /\ filled \subseteq {"store", "choice", "beside", "page"}

(***************************************************************************)
(* ChoiceShown: the text beside a smart select names the options that are  *)
(* selected, and its page, while it is open, has them checked, whatever    *)
(* was chosen, added or restored before, and whether or not the router     *)
(* could open the page again.  Exceptions: a script filled the form and    *)
(* the select was not set up again; the select was set up from a text of   *)
(* class smart-select-value that is not the text of one of its options     *)
(* (another text, or the texts of several), until the next choice; a page  *)
(* that was open while a script changed the choice.                        *)
(***************************************************************************)
ChoiceShown ==
    /\ "beside" \notin filled => beside = form.chosen
    /\ page.open /\ "page" \notin filled => page.checked = form.chosen

(***************************************************************************)
(* FormReturns: what the user left in a stored form is in it, after the    *)
(* page was loaded again as well: the check boxes, the text unless it was  *)
(* empty (the document's own text then comes back), and the choice unless  *)
(* an option of it was added by a script and is gone with the page, or the *)
(* select was set up again since and a text of class smart-select-value,   *)
(* which the store does not keep, chose otherwise.                         *)
(***************************************************************************)
FormReturns ==
    stored.is /\ "store" \notin filled =>
        /\ form.boxes = stored.data.boxes
        /\ stored.data.text # Empty => form.text = stored.data.text
        /\ /\ "choice" \notin filled /\ stored.data.chosen \subseteq html.options
           /\ kind.multiple \/ stored.data.chosen # {}
           => form.chosen = stored.data.chosen
=============================================================================
