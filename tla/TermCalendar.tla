----------------------------- MODULE TermCalendar -----------------------------
(***************************************************************************)
(* What a solver request says about time, while the calendar of a term is  *)
(* edited and the clock runs: which weeks and dates are no teaching time,  *)
(* when a group is there, and which slots are past and may not be touched. *)
(*                                                                         *)
(* The request is computed from the rows at the moment it is assembled     *)
(* (server/utils/solverInput.ts), so its parts are state functions here.   *)
(***************************************************************************)
EXTENDS AcademicCalendar

CONSTANTS
    CalendarTerms,      \* the terms the model starts from
    CalendarGrids,      \* and the time grids
    CalendarPeriods,    \* periods an administrator may enter
    MaxPeriods,         \* how many of them stand at once
    GroupWindows,       \* availability windows of the group
    Minutes             \* the minutes of a day the clock stops at

\* A date is a number and NULL is none. A group's window that has both sides
\* begins before it ends (a CHECK of group_term). A grid has blocks of some
\* length, breaks that never walk backwards and ISO weekdays (the CHECKs of
\* time_grid and time_grid_break, the schema of the resource time-grids).
ASSUME CalendarAssumption ==
    /\ None \notin Int
    /\ IsFiniteSet(CalendarTerms) /\ Minutes \subseteq Nat
    /\ \A t \in CalendarTerms \cup CalendarPeriods : t.first \in Int /\ t.last \in Int
    /\ \A w \in GroupWindows :
        /\ {w.first, w.last} \subseteq Int \cup {None}
        /\ None \notin {w.first, w.last} => w.first <= w.last
    /\ \A g \in CalendarGrids :
        /\ {g.start, g.length, g.gap} \subseteq Nat /\ g.blocks \in Nat \ {0}
        /\ \A position \in DOMAIN g.breaks : g.breaks[position] \in Nat
        /\ g.days \subseteq 1 .. 7

VARIABLES
    term,       \* the term that is solved
    grid,       \* its time grid
    periods,    \* calendar_period rows
    window,     \* the group_term row of a group, both sides None for no row
    now         \* date and minute, in the time zone of the tenant

calendarVars == <<term, grid, periods, window, now>>

NoWindow == [first |-> None, last |-> None]

CalendarInit ==
    /\ term \in CalendarTerms
    /\ grid \in CalendarGrids
    /\ periods = {}
    /\ window = NoWindow
    /\ now = [date |-> Least({t.first : t \in CalendarTerms}) - 1, minute |-> 0]

\* POST and DELETE of the generic resource calendar-periods.
EnterPeriod(p) ==
    /\ p \notin periods /\ Cardinality(periods) < MaxPeriods
    /\ periods' = periods \cup {p}
    /\ UNCHANGED <<term, grid, window, now>>

RemovePeriod(p) ==
    /\ p \in periods
    /\ periods' = periods \ {p}
    /\ UNCHANGED <<term, grid, window, now>>

\* The group's terms are replaced by a set; a row needs one bound at least.
SetGroupWindow(w) ==
    /\ w # window
    /\ window' = w
    /\ UNCHANGED <<term, grid, periods, now>>

\* The clock moves to a later minute or to the next day. Past the term a run is
\* refused (TermEndedError).
TimePasses ==
    /\ \/ \E m \in Minutes : m > now.minute /\ now' = [now EXCEPT !.minute = m]
       \/ now.date < term.last /\ now' = [date |-> now.date + 1, minute |-> 0]
    /\ UNCHANGED <<term, grid, periods, window>>

CalendarNext ==
    \/ \E p \in CalendarPeriods : EnterPeriod(p) \/ RemovePeriod(p)
    \/ \E w \in GroupWindows \cup {NoWindow} : SetGroupWindow(w)
    \/ TimePasses

CalendarSpec == CalendarInit /\ [][CalendarNext]_calendarVars

-----------------------------------------------------------------------------
Slots ==
    [week : Weeks(term), day : grid.days, block : 0 .. (grid.blocks - 1)]

StartsAt(slot) ==
    [date   |-> SlotDate(term.first, slot.week + 1, slot.day),
     minute |-> Boundaries(grid, slot.day)[slot.block]]

\* A block ends its length after its start, whatever gap follows.
HasEnded(slot) ==
    LET start == StartsAt(slot) IN
    \/ start.date < now.date
    \/ start.date = now.date /\ start.minute + grid.length <= now.minute

Frozen == LET reference == ReferenceSlot(term, grid, now)
          IN  {slot \in Slots : Earlier(slot, reference)}

\* Every date of a holiday is no teaching date to the solver, and no other date
\* is: either its whole week is a holiday week, or the date is listed. The list
\* leaves holiday weeks out, and the kind of a week hides the periods that rank
\* below it.
HolidaysAreNoTeaching ==
    LET listed == HolidayDates(term, periods) IN
    \A i \in Weeks(term) : \A date \in Dates(WeekDates(term, i)) :
        (date \in listed \/ WeekKind(term, periods, i) = "HOLIDAY")
        <=> \E p \in periods : p.kind = "HOLIDAY" /\ date \in Dates(p)

\* A group is blacked out in a week exactly when it is away on each of its days.
\* The rule is hard: a week too many refuses slots the group is there for, a
\* week too few places it while it is away.
GroupIsAwayWholeWeeks ==
    \A i \in Weeks(term) :
        i \in BlackedOutWeeks(term, window)
        <=> \A date \in Dates(WeekDates(term, i)) :
                \/ window.first # None /\ date < window.first
                \/ window.last # None /\ date > window.last

\* A slot the solver may no longer touch has been taught: the calendar of weeks
\* and the walk over blocks and breaks never call a slot past that lies ahead.
FrozenHasEnded == \A slot \in Frozen : HasEnded(slot)

\* The converse, which the code's comment claims: a block that has ended is
\* past, also while the break behind it runs.
EndedIsFrozen == \A slot \in Slots : HasEnded(slot) => slot \in Frozen

\* Time never gives the solver a slot back.
FreezingIsFinal == [][term' = term /\ grid' = grid => Frozen \subseteq Frozen']_calendarVars

\* What the solver is told of time is what the calendar and the clock say.
CalendarIsRight ==
    [](HolidaysAreNoTeaching /\ GroupIsAwayWholeWeeks /\ FrozenHasEnded) /\ FreezingIsFinal

=============================================================================
