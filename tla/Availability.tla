----------------------------- MODULE Availability -----------------------------
(***************************************************************************)
(* Absences: windows a person declares for themselves, which block nothing *)
(* until a reviewer approves them, and windows an administrator enters.    *)
(*                                                                         *)
(*   server/api/me/availability/*           declare, withdraw              *)
(*   server/api/availability/vetoes/*       enter, decide, delete          *)
(*   server/utils/availability.ts           dates resolved to a term, and  *)
(*                                          the rows a solve reads         *)
(*                                                                         *)
(* A window counts the weeks of one term. The dates of the term may be     *)
(* edited (the generic resource terms), before or after the window is      *)
(* stored.                                                                 *)
(***************************************************************************)
EXTENDS AcademicCalendar

CONSTANTS
    TermIds, Rows, Reviewers,
    TermDates,       \* TermDates[t]: the dates t may be given
    Ranges,          \* ranges of dates people are absent
    Patterns,        \* weekly patterns people declare
    GridBlocks       \* blocks of the widest time grid of the tenant

\* NULL is no reviewer; a day has blocks, and a date is a number.
ASSUME AvailabilityAssumption ==
    /\ None \notin Reviewers
    /\ GridBlocks \in Nat \ {0}
    /\ \A range \in Ranges \cup UNION {TermDates[t] : t \in TermIds} :
          DOMAIN range = {"first", "last"} /\ range.first \in Int /\ range.last \in Int

VARIABLES
    terms,      \* term rows
    rows,       \* person_unavailability rows of one person, None for no row
    read,       \* the row whose status a reviewer's transaction has read
    concurrent  \* whether two reviewers may work at once

availabilityVars == <<terms, rows, read, concurrent>>

\* Blocks, days and weeks of the wire; the dates of an absence; what the person
\* meant (a date, a range or None) and, for a date, the Monday it was counted
\* from. The last two are not stored.
Row(window, termId, range, status, by, meant, anchor) ==
    [window |-> window, term |-> termId, range |-> range, status |-> status,
     by |-> by, meant |-> meant, anchor |-> anchor]

AvailabilityInit ==
    /\ terms \in {f \in [TermIds -> UNION {TermDates[t] : t \in TermIds}] :
                     \A t \in TermIds : f[t] \in TermDates[t]}
    /\ rows = [r \in Rows |-> None]
    /\ read = [a \in Reviewers |-> None]
    /\ concurrent \in BOOLEAN

Free(r) == rows[r] = None

\* A new row has an id nobody has read.
Unused(r) == Free(r) /\ \A a \in Reviewers : read[a] # r

OnlyTermOf(range) == {t \in TermIds : Overlaps(terms[t], range)}

\* resolveHolidayRange: the one term that a range of dates falls in. A range in
\* no term or in two is refused.
ResolveHolidayRange(range, t) ==
    OnlyTermOf(range) = {t} /\ TouchedWeeks(terms[t], range) # {}

\* normaliseWindow, and the CHECK that weeks are counted in a term.
PatternIsLegal(window) ==
    /\ \A b \in window.blocks : 0 <= b /\ b < GridBlocks
    /\ ~IsTotalBlackout(window)
    /\ window.weeks = {}

StoreRow(r, row) ==
    /\ rows' = [rows EXCEPT ![r] = row]
    /\ UNCHANGED <<terms, read, concurrent>>

\* Mutated form of StatusFor: what an administrator enters waits for a decision.
WaitsForDecision(by) == "PENDING"

\* A person declares (by None, PENDING), an administrator enters (APPROVED).
StatusFor(by) == IF by = None THEN "PENDING" ELSE "APPROVED"

DeclarePattern(r, by, window) ==
    /\ Unused(r) /\ PatternIsLegal(window)
    /\ StoreRow(r, Row(window, None, None, StatusFor(by), by, None, None))

\* Mutated form of DeclareDate: the week is counted from the first day of the term.
DeclareDateFromStart(r, date) ==
    LET range == [first |-> date, last |-> date] IN
    /\ Unused(r)
    /\ \E t \in TermIds :
        /\ ResolveHolidayRange(range, t)
        /\ StoreRow(r, Row([days |-> {IsoWeekday(date)}, blocks |-> {},
                         weeks |-> {WeekIndexFromStart(terms[t].first, date)}],
                        t, None, "PENDING", None, range, MondayOf(terms[t].first)))

\* vetoes.post.ts with a date: only people themselves block a single date.
DeclareDate(r, date) ==
    LET range == [first |-> date, last |-> date] IN
    /\ Unused(r)
    /\ \E t \in TermIds :
        /\ ResolveHolidayRange(range, t)
        /\ StoreRow(r, Row([days |-> {IsoWeekday(date)}, blocks |-> {},
                         weeks |-> TouchedWeeks(terms[t], range)],
                        t, None, "PENDING", None, range, MondayOf(terms[t].first)))

\* holidays.post.ts, of a person and of an administrator.
DeclareHoliday(r, by, range) ==
    /\ Unused(r)
    /\ \E t \in TermIds :
        /\ ResolveHolidayRange(range, t)
        /\ StoreRow(r, Row([days |-> {}, blocks |-> {}, weeks |-> TouchedWeeks(terms[t], range)],
                        t, range, StatusFor(by), by, range, None))

\* Mutated form of ReadForDecision: a decided row may be decided again.
ReadWhateverStatus(a, r) ==
    /\ read[a] = None /\ ~Free(r)
    /\ concurrent \/ \A b \in Reviewers : read[b] = None
    /\ read' = [read EXCEPT ![a] = r]
    /\ UNCHANGED <<terms, rows, concurrent>>

\* decision.post.ts: the status is read ...
ReadForDecision(a, r) ==
    /\ read[a] = None /\ ~Free(r)
    /\ concurrent \/ \A b \in Reviewers : read[b] = None
    /\ rows[r].status = "PENDING"
    /\ read' = [read EXCEPT ![a] = r]
    /\ UNCHANGED <<terms, rows, concurrent>>

\* ... and the row updated by its id; a row withdrawn in between is not found.
Decide(a, decision) ==
    /\ read[a] # None
    /\ read' = [read EXCEPT ![a] = None]
    /\ rows' = IF Free(read[a]) THEN rows
               ELSE [rows EXCEPT ![read[a]].status = decision, ![read[a]].by = a]
    /\ UNCHANGED <<terms, concurrent>>

\* DELETE, by the person or by an administrator, at any status.
Withdraw(r) ==
    /\ ~Free(r)
    /\ rows' = [rows EXCEPT ![r] = None]
    /\ UNCHANGED <<terms, read, concurrent>>

\* PATCH of a term: nothing looks at the windows that count its weeks.
MoveTerm(t, dates) ==
    /\ dates # terms[t]
    /\ terms' = [terms EXCEPT ![t] = dates]
    /\ UNCHANGED <<rows, read, concurrent>>

AvailabilityNext ==
    \/ \E r \in Rows, by \in Reviewers \cup {None} :
        \/ \E window \in Patterns : DeclarePattern(r, by, window)
        \/ \E range \in Ranges : DeclareHoliday(r, by, range)
    \/ \E r \in Rows, range \in Ranges : DeclareDate(r, range.last)
    \/ \E r \in Rows : Withdraw(r)
    \/ \E a \in Reviewers, r \in Rows : ReadForDecision(a, r)
    \/ \E a \in Reviewers, decision \in {"APPROVED", "REJECTED"} : Decide(a, decision)
    \/ \E t \in TermIds : \E dates \in TermDates[t] : MoveTerm(t, dates)

AvailabilitySpec == AvailabilityInit /\ [][AvailabilityNext]_availabilityVars

-----------------------------------------------------------------------------
ApprovedFor(t) ==
    {r \in Rows : /\ ~Free(r) /\ rows[r].status = "APPROVED"
                  /\ rows[r].term \in {None, t}}

\* Mutated form of WindowsOf: the weeks as stored, although the dates are known.
WindowsAsStored(r, t) == {rows[r].window}

\* approvedBlackoutsFor: an absence with dates is resolved again, against the
\* term as it is now; every other row travels as stored.
WindowsOf(r, t) ==
    IF rows[r].range # None THEN HolidayWindows(terms[t], rows[r].range)
    ELSE {rows[r].window}

BlockedOn(r, t, date) ==
    \E window \in WindowsOf(r, t), block \in 0 .. (GridBlocks - 1) :
        Blocks(window, WeekIndexOf(terms[t].first, date), IsoWeekday(date), block)

AvailabilityTypeOK ==
    /\ \A r \in Rows : Free(r) \/
        /\ rows[r].status \in {"PENDING", "APPROVED", "REJECTED"}
        /\ (rows[r].status = "PENDING") <=> (rows[r].by = None)
        /\ rows[r].window.weeks # {} => rows[r].term \in TermIds
    /\ \A a \in Reviewers : read[a] \in Rows \cup {None}

\* An approved absence keeps the person out of exactly its dates in the term it
\* was booked in, wherever the term has been moved since.
AbsencesBlockTheirDates ==
    \A t \in TermIds : \A r \in {q \in ApprovedFor(t) : rows[q].range # None} :
        \A date \in Dates(terms[t]) : BlockedOn(r, t, date) <=> date \in Dates(rows[r].meant)

\* A blocked day is stored as a week and a weekday: it stays on its date for as
\* long as the term begins in the week it began in.
DatesStayWhileTheTermDoes ==
    \A t \in TermIds : \A r \in {q \in ApprovedFor(t) : rows[q].anchor # None} :
        MondayOf(terms[t].first) = rows[r].anchor =>
            \A date \in Dates(terms[t]) :
                BlockedOn(r, t, date) <=> date \in Dates(rows[r].meant)

\* An absence is about dates, however it is stored: as the dates, as weeks of a
\* term, or as a week and a weekday.
AbsencesKeepTheirDates == AbsencesBlockTheirDates /\ DatesStayWhileTheTermDoes

\* Without two reviewers at work at once, a decision is never made again:
\* neither reversed nor taken over.
DecisionIsFinal ==
    [][~concurrent =>
        \A r \in Rows :
            ~Free(r) /\ rows[r].status # "PENDING" /\ rows'[r] # None
                => rows'[r].status = rows[r].status /\ rows'[r].by = rows[r].by]_availabilityVars

=============================================================================
