------------------------------- MODULE Calendar -------------------------------
(***************************************************************************)
(* The calendar of a date field (framework7.js).  Three months lie side by *)
(* side in a wrapper that slides; when a slide is over, the months that    *)
(* slid away are taken out and the new neighbour is put in.  Slides may be *)
(* asked for while another is under way.  Months are counted through, so   *)
(* month n is month n % 12 of year n \div 12, and days likewise.  animate  *)
(* is on; how far a finger drags the wrapper is left out.                  *)
(***************************************************************************)
EXTENDS Integers, SequencesExt, Selection

CONSTANTS Today,        \* the month of today
          FirstDay,     \* params.firstDay
          MinDay, MaxDay,  \* params.minDate and maxDate, as days
          Chosen,       \* days given as a value or set by a script
          Far,          \* and how many months they are from today at most
          Cells,        \* the cells of a month that are clicked
          MaxTurns      \* bound on the slides and choices

(* From 2 on the grid of the code lacks the first days of some months. *)
ASSUME CalendarAssumption ==
    /\ Today \in Nat /\ FirstDay \in {0, 1}
    /\ Cells \subseteq 1 .. 42 /\ MaxTurns \in Nat
    /\ MinDay \in Int /\ MaxDay \in Int

VARIABLES cal,      \* p: params, value, month in view, months in the wrapper
          dayTouch,   \* the touch: isTouched, isMoved, allowItemClick and its timer
          turns     \* slides and choices so far, for the bound

calendarVars == <<cal, dayTouch, turns>>

(* The months that the slides of a run can reach *)
Reach == (Today - Far - 12 * MaxTurns - 2) .. (Today + Far + 12 * MaxTurns + 2)

(* Date: the first day of a month, counted from a Monday. *)
FirstOf[n \in Int] ==
    LET y == n \div 12
        leap == y % 4 = 0 /\ (y % 100 # 0 \/ y % 400 = 0)
        before == <<0, 31, 59, 90, 120, 151, 181, 212, 243, 273, 304, 334>>
    IN  365 * (y - 1) + (y - 1) \div 4 - (y - 1) \div 100 + (y - 1) \div 400
        + before[(n % 12) + 1] + IF leap /\ n % 12 > 1 THEN 1 ELSE 0

ASSUME ChosenAssumption ==
    /\ Far \in Nat
    /\ \A d \in Chosen : d \in FirstOf[Today - Far] .. (FirstOf[Today + Far + 1] - 1)

DaysInMonth(n) == FirstOf[n + 1] - FirstOf[n]
DayOf(n, number) == FirstOf[n] + number - 1

(* getDay, with Sunday as 7 *)
FirstDayOfMonthIndex(n) == (FirstOf[n] % 7) + 1

(* monthHTML: the cell k of month n *)
Cell(n, k) ==
    LET number == k + FirstDay - 1 - FirstDayOfMonthIndex(n) IN
    IF number < 0
    THEN [month |-> n - 1, number |-> DaysInMonth(n - 1) + number + 1, kind |-> "prev"]
    ELSE IF number + 1 > DaysInMonth(n)
    THEN [month |-> n + 1, number |-> number + 1 - DaysInMonth(n), kind |-> "next"]
    ELSE [month |-> n, number |-> number + 1, kind |-> "own"]

(* The grid of each month: six rows of seven days *)
Grid == [n \in Reach |-> [k \in 1 .. 42 |-> Cell(n, k)]]
DayAt(n, k) == DayOf(Grid[n][k].month, Grid[n][k].number)
DaysShown == [n \in Reach |-> {DayAt(n, k) : k \in 1 .. 42}]
Values == {<<>>} \cup {<<d>> : d \in Chosen}
Disabled(d) == d < MinDay \/ d > MaxDay

MonthHTML(n, value) ==
    [month |-> n, class |-> "none", at |-> 0, marked |-> DaysShown[n] \cap ToSet(value)]

-----------------------------------------------------------------------------
(* Plausible slips in the code below, each caught by a property. *)

(* Months that slid out of view stay in the wrapper. *)
AllOf(ps) == ps

(* The days chosen before keep their mark. *)
MarkAlso(ps, value) ==
    [i \in DOMAIN ps |->
        [ps[i] EXCEPT !.marked = @ \cup (DaysShown[ps[i].month] \cap ToSet(value))]]

-----------------------------------------------------------------------------
SetMonthsTranslate(ps, t) ==
    [i \in DOMAIN ps |->
        IF i > 3 THEN [ps[i] EXCEPT !.class = "none"]
        ELSE [ps[i] EXCEPT !.class = <<"prev", "current", "next">>[i], !.at = i - 2 - t]]

NoEnd == [due |-> FALSE, dir |-> "next", both |-> FALSE, old |-> FALSE]

(* onMonthChangeStart, updateCurrentMonthYear and the callback for the end:
   only a slide that starts from rest waits for its end. *)
ChangeStart(s, ps, dir, t, both) ==
    LET current == IF dir = "next" THEN Len(ps) ELSE 1
        left == IF dir = "next" THEN current - 1 ELSE current + 1
        turnedBack == s.ending.due /\ ~s.ending.both /\ (both \/ dir # s.ending.dir)
    IN  [s EXCEPT !.months = [i \in DOMAIN ps |->
                                 [ps[i] EXCEPT !.class =
                                     IF i = current THEN "current"
                                     ELSE IF i # left THEN "none" ELSE IF dir = "next" THEN "prev" ELSE "next"]],
                  !.month = ps[current].month, !.translate = t, !.animating = TRUE,
                  !.ending = IF s.animating THEN @
                             ELSE [due |-> TRUE, dir |-> dir, both |-> both, old |-> FALSE],
                  !.torn = @ \/ turnedBack]

(* nextMonth.  At the limit resetMonth only slides the wrapper back.  A month
   is put in when the last one is in view already. *)
NextMonth(s) ==
    LET last == Last(s.months).month
        t == s.translate - 1
        ps == IF last % 12 # s.month % 12 THEN s.months
              ELSE Append(s.months, [MonthHTML(last + 1, s.value) EXCEPT !.at = -t])
    IN  IF FirstOf[last] > MaxDay THEN s ELSE ChangeStart(s, ps, "next", t, FALSE)

PrevMonth(s) ==
    LET first == Head(s.months).month
        t == s.translate + 1
        ps == IF first % 12 # s.month % 12 THEN s.months
              ELSE <<[MonthHTML(first - 1, s.value) EXCEPT !.at = -t]>> \o s.months
    IN  IF FirstOf[first + 1] - 2 < MinDay THEN s ELSE ChangeStart(s, ps, "prev", t, FALSE)

(* setYearMonth takes the month out that the new one comes in for. *)
Stay(s, dir) ==
    IF s.animating THEN s.months
    ELSE IF dir = "next" THEN Front(s.months) ELSE Tail(s.months)

SetYearMonth(s, n) ==
    LET target == IF n \div 12 < s.month \div 12 THEN FirstOf[n + 1] - 2 ELSE FirstOf[n]
        dir == IF target > FirstOf[s.month] THEN "next" ELSE "prev"
        t == IF dir = "next" THEN s.translate - 1 ELSE s.translate + 1
        new == [MonthHTML(n, s.value) EXCEPT !.at = -t]
        ps == IF dir = "next" THEN Append(Stay(s, dir), new) ELSE <<new>> \o Stay(s, dir)
    IN  IF Disabled(target) THEN s ELSE ChangeStart(s, ps, dir, t, TRUE)

(* onMonthChangeEnd; months without a class slid out of view. *)
Remaining(ps) == Among(ps, {p \in ToSet(ps) : p.class # "none"})

MonthChangeEnd(s) ==
    LET kept == Remaining(s.months)
        own == Among(kept, {p \in ToSet(kept) : p.class = "current"})
        next == MonthHTML(s.month + 1, s.value)
        prev == MonthHTML(s.month - 1, s.value)
        all == IF s.ending.both THEN <<prev>> \o own \o <<next>>
               ELSE IF s.ending.dir = "next" THEN Append(kept, next) ELSE <<prev>> \o kept
    IN  [s EXCEPT !.months = SetMonthsTranslate(all, s.translate),
                  !.animating = FALSE, !.ending = NoEnd, !.torn = @ /\ ~s.ending.both]

(* layout: the month of the value and its neighbours *)
LayoutMonths(n, value) ==
    SetMonthsTranslate([i \in 1 .. 3 |-> MonthHTML(n + i - 2, value)], 0)

(* updateValue *)
Mark(ps, value) ==
    [i \in DOMAIN ps |->
        [ps[i] EXCEPT !.marked = DaysShown[ps[i].month] \cap ToSet(value)]]

SetValueOf(s, v) == [s EXCEPT !.value = v, !.set = TRUE, !.months = Mark(@, v)]

AddValue(s, d) ==
    SetValueOf(s, IF ~s.multiple THEN <<d>>
                  ELSE IF d \in ToSet(s.value) THEN Among(s.value, ToSet(s.value) \ {d})
                  ELSE Append(s.value, d))

-----------------------------------------------------------------------------
FreshTouch == [isTouched |-> FALSE, isMoved |-> FALSE, allow |-> TRUE, timer |-> FALSE]

MonthOf(d) == CHOOSE n \in Reach : FirstOf[n] <= d /\ d < FirstOf[n + 1]

(* open and layout.  A slide of a picker that still fades goes on and ends on
   this one; animating is not reset. *)
Layout(s) ==
    LET value == IF s.set THEN s.value ELSE s.given
        n == IF value = <<>> THEN Today ELSE MonthOf(value[1])
    IN  [s EXCEPT !.value = value, !.set = @ \/ value # <<>>, !.month = n,
                  !.translate = 0, !.opened = TRUE, !.ending.old = s.ending.due,
                  !.torn = s.ending.due /\ ~s.ending.both,
                  !.months = LayoutMonths(n, value)]

(* close: a popover goes at once, and its slide with it.  Of two pickers that
   fade at once none is asked. *)
CloseOf(s) ==
    IF ~s.opened \/ s.kind = "inline" THEN s
    ELSE [s EXCEPT !.opened = FALSE, !.fading = s.kind = "picker",
                   !.ending = IF s.kind = "popover" THEN NoEnd ELSE @]

CalendarInit ==
    \E multiple \in BOOLEAN, kind \in {"inline", "picker", "popover"}, given \in Values :
      /\ kind # "picker" => multiple = (kind = "inline") /\ given = <<>>
      /\ LET p == [multiple |-> multiple, closeOnSelect |-> ~multiple, kind |-> kind,
                   given |-> given, set |-> FALSE, value |-> <<>>, month |-> Today,
                   translate |-> 0, animating |-> FALSE, opened |-> FALSE,
                   listening |-> TRUE, months |-> <<>>, ending |-> NoEnd,
                   torn |-> FALSE, fading |-> FALSE]
        IN  /\ cal = IF kind = "inline" THEN Layout(p) ELSE p
            /\ dayTouch = FreshTouch
            /\ turns = 0

OpenCalendar ==
    /\ ~cal.opened /\ cal.listening
    /\ cal' = Layout(cal) /\ dayTouch' = FreshTouch
    /\ UNCHANGED turns

CloseCalendar ==
    /\ cal.opened /\ cal.kind # "inline" /\ ~cal.fading
    /\ cal' = CloseOf(cal)
    /\ UNCHANGED <<dayTouch, turns>>

DestroyCalendar ==
    /\ cal.listening /\ ~cal.fading
    /\ cal' = [CloseOf(cal) EXCEPT !.listening = FALSE]
    /\ UNCHANGED <<dayTouch, turns>>

(* The faded picker is removed; a slide of it never ends then. *)
CalendarFaded ==
    /\ cal.fading
    /\ cal' = [cal EXCEPT !.fading = FALSE,
                          !.ending = IF cal.ending.old \/ ~cal.opened THEN NoEnd ELSE @]
    /\ UNCHANGED <<dayTouch, turns>>

MonthSlideEnds ==
    /\ cal.ending.due
    /\ cal' = MonthChangeEnd(cal)
    /\ UNCHANGED <<dayTouch, turns>>

-----------------------------------------------------------------------------
Turn == cal.opened /\ turns < MaxTurns /\ turns' = turns + 1

(* The arrows of the toolbar, and setYearMonth by a script *)
TapNextMonth == Turn /\ cal' = NextMonth(cal) /\ UNCHANGED dayTouch
TapPrevMonth == Turn /\ cal' = PrevMonth(cal) /\ UNCHANGED dayTouch
NextYear == Turn /\ cal' = SetYearMonth(cal, cal.month + 12) /\ UNCHANGED dayTouch
PrevYear == Turn /\ cal' = SetYearMonth(cal, cal.month - 12) /\ UNCHANGED dayTouch

(* setValue.  Before the first open it throws, with the value set. *)
SetValue(v) ==
    /\ v # cal.value /\ turns < MaxTurns /\ turns' = turns + 1
    /\ cal' = SetValueOf(cal, v)
    /\ UNCHANGED dayTouch

(* handleDayClick: a day of a neighbour slides there before it is chosen. *)
DayClick(i, k) ==
    LET shown == cal.months[i].month
        d == DayAt(shown, k)
        kind == Grid[shown][k].kind
        slid == IF kind = "next" THEN NextMonth(cal)
                ELSE IF kind = "prev" THEN PrevMonth(cal) ELSE cal
        chosen == AddValue(slid, d)
    IN  /\ Turn /\ dayTouch.allow /\ ~cal.fading
        /\ cal.months[i].at + cal.translate \in (IF cal.animating THEN -1 .. 1 ELSE {0})
        /\ cal.multiple \/ d \notin cal.months[i].marked
        /\ ~Disabled(d)
        /\ cal' = IF cal.closeOnSelect THEN CloseOf(chosen) ELSE chosen
        /\ UNCHANGED dayTouch

DayTouchStart ==
    /\ cal.opened /\ ~dayTouch.isTouched /\ ~dayTouch.isMoved
    /\ dayTouch' = [dayTouch EXCEPT !.isTouched = TRUE, !.allow = TRUE]
    /\ UNCHANGED <<cal, turns>>

(* Along the page the dayTouch scrolls; while a slide is under way it is lost. *)
DayTouchMove(along) ==
    /\ cal.opened /\ dayTouch.isTouched
    /\ along => ~dayTouch.isMoved
    /\ dayTouch' = IF along \/ cal.animating THEN [dayTouch EXCEPT !.isTouched = FALSE]
                 ELSE [dayTouch EXCEPT !.isMoved = TRUE, !.allow = FALSE]
    /\ UNCHANGED <<cal, turns>>

(* A swipe far or fast enough slides; of the timers the last is kept. *)
DayTouchEnd(to) ==
    /\ cal.opened /\ (dayTouch.isTouched \/ dayTouch.isMoved)
    /\ dayTouch' = [dayTouch EXCEPT !.isTouched = FALSE, !.isMoved = FALSE,
                                !.timer = @ \/ (dayTouch.isTouched /\ dayTouch.isMoved)]
    /\ IF dayTouch.isTouched /\ dayTouch.isMoved /\ to # "back"
       THEN Turn /\ cal' = IF to = "next" THEN NextMonth(cal) ELSE PrevMonth(cal)
       ELSE UNCHANGED <<cal, turns>>

AllowDayClick ==
    /\ dayTouch.timer
    /\ dayTouch' = [dayTouch EXCEPT !.timer = FALSE, !.allow = TRUE]
    /\ UNCHANGED <<cal, turns>>

CalendarNext ==
    \/ OpenCalendar \/ CloseCalendar \/ DestroyCalendar \/ CalendarFaded \/ MonthSlideEnds
    \/ TapNextMonth \/ TapPrevMonth \/ NextYear \/ PrevYear
    \/ \E v \in Values : SetValue(v)
    \/ \E i \in DOMAIN cal.months, k \in Cells : DayClick(i, k)
    \/ DayTouchStart \/ (\E along \in BOOLEAN : DayTouchMove(along))
    \/ (\E to \in {"next", "prev", "back"} : DayTouchEnd(to)) \/ AllowDayClick

CalendarSpec == CalendarInit /\ [][CalendarNext]_calendarVars

-----------------------------------------------------------------------------
(* The calendar's state is well formed. *)
CalendarTypeOK ==
    /\ cal.month \in Int /\ cal.translate \in Int
    /\ \A i \in DOMAIN cal.months :
         /\ cal.months[i].class \in {"none", "prev", "current", "next"}
         /\ cal.months[i].marked \subseteq DaysShown[cal.months[i].month]
    /\ cal.ending.old => cal.ending.due
    /\ dayTouch \in [isTouched : BOOLEAN, isMoved : BOOLEAN, allow : BOOLEAN, timer : BOOLEAN]
    /\ turns \in 0 .. MaxTurns

(* The grid of a month has the days in order, and its own once each. *)
GridIsWhole ==
    [n \in Reach |->
        /\ \A k \in 1 .. 41 : DayAt(n, k + 1) = DayAt(n, k) + 1
        /\ {DayAt(n, k) : k \in {k \in 1 .. 42 : Grid[n][k].kind = "own"}}
             = FirstOf[n] .. (FirstOf[n + 1] - 1)]

(* When no slide is under way, the month named above the grid is the one in
   view, its neighbours lie left and right of it, and its grid shows each of
   its days once, in order, among days of the neighbours.  This holds after
   slides in one direction, however fast they follow each other.  A slide of
   one month that is turned back or overtaken by a change of the year before
   its end leaves wrong neighbours, which torn tells. *)
MonthIsShown ==
    cal.opened /\ ~cal.animating /\ ~cal.torn =>
        /\ [i \in DOMAIN cal.months |-> cal.months[i].month]
             = <<cal.month - 1, cal.month, cal.month + 1>>
        /\ \A i \in 1 .. 3 : cal.months[i].at + cal.translate = i - 2
        /\ GridIsWhole[cal.month]

(* The days marked in an open calendar are those chosen, in every month of
   the wrapper, whether it was put in before the choice or after. *)
ChosenIsMarked ==
    cal.opened =>
        \A i \in DOMAIN cal.months :
            cal.months[i].marked = DaysShown[cal.months[i].month] \cap ToSet(cal.value)

(***************************************************************************)
(* CalendarIsTrue: at rest the calendar shows the month that it names,     *)
(* whole and between its neighbours (MonthIsShown), and it marks what is   *)
(* chosen and nothing else (ChosenIsMarked), however slides, choices,      *)
(* closing and opening overlap.                                            *)
(***************************************************************************)
CalendarIsTrue == MonthIsShown /\ ChosenIsMarked
================================================================================
