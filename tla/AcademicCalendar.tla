--------------------------- MODULE AcademicCalendar ---------------------------
(***************************************************************************)
(* Dates, the weeks of a term and the blocks of a day.                     *)
(*                                                                         *)
(*   shared/academicCalendar.ts    weeks, counted from a Monday            *)
(*   shared/availability.ts        a range of dates as blackout windows    *)
(*   shared/timeGrid.ts            where the blocks of a day begin         *)
(*   server/utils/solverCalendar.ts  what of it a solver request carries   *)
(*                                                                         *)
(* A date is a number of days, day 0 being a Monday. A term and a period   *)
(* are records with a first and a last date, both inside. A window blocks  *)
(* the slots named on every axis, and an empty axis names every value.     *)
(***************************************************************************)
EXTENDS Integers, FiniteSets, Database

Dates(range) == range.first .. range.last

IsoWeekday(date) == (date % 7) + 1
MondayOf(date) == date - (IsoWeekday(date) - 1)

\* termWeek counts from 1, dayOfWeek is an ISO weekday.
SlotDate(first, termWeek, dayOfWeek) ==
    MondayOf(first) + (termWeek - 1) * 7 + (dayOfWeek - 1)

\* Weeks counted from the first day of the term, as the mutated form
\* Availability!DeclareDateFromStart has them.
WeekIndexFromStart(first, date) == (date - first) \div 7

WeekIndexOf(first, date) == (MondayOf(date) - MondayOf(first)) \div 7

WeekCountOf(term) == WeekIndexOf(term.first, term.last) + 1
Weeks(term) == 0 .. (WeekCountOf(term) - 1)
WeekDates(term, index) == LET monday == MondayOf(term.first) + 7 * index
                          IN  [first |-> monday, last |-> monday + 6]

Overlaps(a, b) == a.first <= b.last /\ b.first <= a.last
CoversAll(outer, inner) == outer.first <= inner.first /\ inner.last <= outer.last

-----------------------------------------------------------------------------
(***************************************************************************)
(* Calendar periods                                                        *)
(***************************************************************************)
\* An exam period claims every week it touches, a break or a holiday only the
\* weeks it swallows.
WeekKind(term, periods, index) ==
    LET week == WeekDates(term, index)
        Some(kind, Rel(_, _)) == \E p \in periods : p.kind = kind /\ Rel(p, week)
    IN  IF Some("EXAM", Overlaps) THEN "EXAM"
        ELSE IF Some("BREAK", CoversAll) THEN "BREAK"
        ELSE IF Some("HOLIDAY", CoversAll) THEN "HOLIDAY"
        ELSE "TEACHING"

\* Mutated form of HolidayDates: no date is listed where the week is no
\* teaching week.
HolidayDatesOfTeaching(term, periods) ==
    {date \in UNION {Dates(WeekDates(term, i)) :
                         i \in {j \in Weeks(term) : WeekKind(term, periods, j) = "TEACHING"}} :
        \E p \in periods : p.kind = "HOLIDAY" /\ date \in Dates(p)}

\* buildAcademicCalendar: the dates of holidays in weeks not of that kind.
HolidayDates(term, periods) ==
    {date \in UNION {Dates(WeekDates(term, i)) :
                         i \in {j \in Weeks(term) : WeekKind(term, periods, j) # "HOLIDAY"}} :
        \E p \in periods : p.kind = "HOLIDAY" /\ date \in Dates(p)}

\* Mutated form of BlackedOutWeeks: the week in which the window ends is lost.
BlackedOutFromLastWeek(term, window) ==
    {i \in Weeks(term) : \/ window.first # None /\ i < WeekIndexOf(term.first, window.first)
                         \/ window.last # None /\ i >= WeekIndexOf(term.first, window.last)}

\* The weeks a group is not available: a week it is there for a part of counts
\* as available. A side of the window that is None is open.
BlackedOutWeeks(term, window) ==
    {i \in Weeks(term) : \/ window.first # None /\ i < WeekIndexOf(term.first, window.first)
                         \/ window.last # None /\ i > WeekIndexOf(term.first, window.last)}

-----------------------------------------------------------------------------
(***************************************************************************)
(* Blackout windows                                                        *)
(***************************************************************************)
Blocks(window, week, day, block) ==
    /\ window.weeks  = {} \/ week  \in window.weeks
    /\ window.days   = {} \/ day   \in window.days
    /\ window.blocks = {} \/ block \in window.blocks

IsTotalBlackout(window) == window.days = {} /\ window.blocks = {} /\ window.weeks = {}

\* The weeks of a term that a range of dates touches.
TouchedWeeks(term, range) ==
    {i \in Weeks(term) : /\ WeekIndexOf(term.first, range.first) <= i
                         /\ i <= WeekIndexOf(term.first, range.last)}

\* The weekdays of a week that the range covers inside the term.
CoveredDays(term, range, index) ==
    {day \in 1 .. 7 :
        LET date == WeekDates(term, index).first + day - 1
        IN  date \in Dates(range) /\ date \in Dates(term)}

\* resolveHolidayWeeks: whole weeks share one window, and so do the weeks of
\* which the same days are covered; a week of which none is gets no window.
HolidayWindows(term, range) ==
    LET touched == TouchedWeeks(term, range)
        whole   == {i \in touched : CoversAll(range, WeekDates(term, i))}
        parts   == {CoveredDays(term, range, i) : i \in touched \ whole} \ {{}}
    IN  {[days |-> {}, blocks |-> {}, weeks |-> whole] : i \in whole}
        \cup {[days |-> part, blocks |-> {},
               weeks |-> {i \in touched \ whole : CoveredDays(term, range, i) = part}] :
                  part \in parts}

-----------------------------------------------------------------------------
(***************************************************************************)
(* The blocks of a day and the reference slot                              *)
(***************************************************************************)
\* grid.breaks maps the positions that have a break of their own to minutes: a
\* position is a block and a weekday, or None for every day.
GapAfter(grid, index, day) ==
    IF <<index, day>> \in DOMAIN grid.breaks THEN grid.breaks[<<index, day>>]
    ELSE IF <<index, None>> \in DOMAIN grid.breaks THEN grid.breaks[<<index, None>>]
    ELSE grid.gap

\* blockBoundaries: where each block begins, and where the last one ends.
Boundaries(grid, day) ==
    LET bound[i \in 0 .. grid.blocks] ==
            IF i = 0 THEN grid.start
            ELSE bound[i - 1] + grid.length
                 + (IF i = grid.blocks THEN 0 ELSE GapAfter(grid, i - 1, day))
    IN  bound

\* Mutated form of BlockAtMinute: a stride of equal gaps.
BlockByStride(grid, minute, day) ==
    IF minute < grid.start THEN 0 ELSE (minute - grid.start) \div (grid.length + grid.gap)

\* The first block whose successor has not begun: the boundaries only grow.
BlockAtMinute(grid, minute, day) ==
    Cardinality({i \in 1 .. grid.blocks : Boundaries(grid, day)[i] <= minute})

Least(S) == CHOOSE x \in S : \A y \in S : x <= y

\* Mutated form of ReferenceSlot: Sunday is day 0 of its week.
ReferenceSlotSundayFirst(term, grid, now) ==
    IF now.date < term.first THEN [week |-> 0, day |-> Least(grid.days), block |-> 0]
    ELSE [week  |-> WeekIndexOf(term.first, now.date),
          day   |-> IsoWeekday(now.date) % 7,
          block |-> BlockAtMinute(grid, now.minute, IsoWeekday(now.date))]

\* computeReferenceSlot, for a moment not after the term.
ReferenceSlot(term, grid, now) ==
    IF now.date < term.first THEN [week |-> 0, day |-> Least(grid.days), block |-> 0]
    ELSE [week  |-> WeekIndexOf(term.first, now.date),
          day   |-> IsoWeekday(now.date),
          block |-> BlockAtMinute(grid, now.minute, IsoWeekday(now.date))]

Earlier(slot, other) ==
    \/ slot.week < other.week
    \/ slot.week = other.week /\ slot.day < other.day
    \/ slot.week = other.week /\ slot.day = other.day /\ slot.block < other.block

=============================================================================
