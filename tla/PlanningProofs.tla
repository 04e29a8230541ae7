---------------------------- MODULE PlanningProofs ----------------------------
(***************************************************************************)
(* Theorems about what Calendry plans with and about the cache in front of *)
(* it: absences, the calendar of a term, exam requests, curriculum plans   *)
(* and ScheduleCache, for any dates, terms, rows, clerks and requests, and *)
(* any number of edits. Each component                                     *)
(* has an invariant of its own; MCPlanning's behaviours follow one of them *)
(* at a time, so that what holds of each holds of it (PartsFollow).        *)
(***************************************************************************)
EXTENDS MCPlanning, Inductions, FiniteSetTheorems, TLAPS

-----------------------------------------------------------------------------
(***************************************************************************)
(* Weeks and dates                                                         *)
(***************************************************************************)

\* A date is its Monday and a day of the week.
LEMMA DayOfWeek ==
    ASSUME NEW d \in Int
    PROVE  /\ IsoWeekday(d) \in 1 .. 7 /\ MondayOf(d) \in Int
           /\ MondayOf(d) = 7 * (d \div 7)
           /\ d = MondayOf(d) + IsoWeekday(d) - 1
           /\ MondayOf(d) <= d /\ d <= MondayOf(d) + 6
<1>1. d % 7 \in 0 .. 6 OBVIOUS
<1>2. d = 7 * (d \div 7) + (d % 7) OBVIOUS
<1> QED BY <1>1, <1>2 DEF IsoWeekday, MondayOf

\* The index of a week counts the Mondays since the term's first one.
LEMMA WeekIndex ==
    ASSUME NEW first \in Int, NEW d \in Int
    PROVE  /\ WeekIndexOf(first, d) = d \div 7 - first \div 7
           /\ WeekIndexOf(first, d) \in Int
           /\ MondayOf(first) + 7 * WeekIndexOf(first, d) = MondayOf(d)
<1> DEFINE k == d \div 7 - first \div 7
<1>1. k \in Int /\ d \div 7 \in Int /\ first \div 7 \in Int OBVIOUS
<1>2. MondayOf(d) - MondayOf(first) = 7 * k
  <2>1. MondayOf(d) = 7 * (d \div 7) /\ MondayOf(first) = 7 * (first \div 7) BY DayOfWeek
  <2>2. 7 * (d \div 7) - 7 * (first \div 7) = 7 * k BY <1>1
  <2> QED BY <2>1, <2>2
<1>3. (7 * k) \div 7 = k
  <2> HIDE DEF k
  <2> QED BY <1>1
<1>4. WeekIndexOf(first, d) = k BY <1>2, <1>3 DEF WeekIndexOf
<1> QED BY <1>1, <1>2, <1>4, DayOfWeek

\* Later dates are in no earlier week.
LEMMA WeekIndexGrows ==
    ASSUME NEW first \in Int, NEW c \in Int, NEW d \in Int, c <= d
    PROVE  WeekIndexOf(first, c) <= WeekIndexOf(first, d)
<1>1. c \div 7 <= d \div 7 OBVIOUS
<1>2. c \div 7 \in Int /\ d \div 7 \in Int /\ first \div 7 \in Int OBVIOUS
<1> QED BY <1>1, <1>2, WeekIndex

\* A term and a range of dates.
IsRange(x) == x.first \in Int /\ x.last \in Int

\* The slot of a date is the date.
LEMMA SlotIsDate ==
    ASSUME NEW first \in Int, NEW c \in Int, NEW d \in Int,
           WeekIndexOf(first, c) = WeekIndexOf(first, d), IsoWeekday(c) = IsoWeekday(d)
    PROVE  c = d
<1>1. MondayOf(c) = MondayOf(d) BY WeekIndex
<1>2. MondayOf(c) \in Int /\ IsoWeekday(c) \in Int
  <2>1. IsoWeekday(c) \in 1 .. 7 /\ MondayOf(c) \in Int BY DayOfWeek
  <2> QED BY <2>1
<1>3. c = MondayOf(c) + IsoWeekday(c) - 1 /\ d = MondayOf(d) + IsoWeekday(d) - 1 BY DayOfWeek
<1> QED BY <1>1, <1>2, <1>3

\* A date of a term lies in one of its weeks, the one it is counted in.
LEMMA DateInItsWeek ==
    ASSUME NEW span, IsRange(span), NEW d \in Dates(span)
    PROVE  /\ WeekIndexOf(span.first, d) \in Weeks(span)
           /\ WeekDates(span, WeekIndexOf(span.first, d)) =
                [first |-> MondayOf(d), last |-> MondayOf(d) + 6]
<1> DEFINE w == WeekIndexOf(span.first, d)
<1>1. d \in Int /\ span.first <= d /\ d <= span.last BY DEF Dates, IsRange
<1>2. w <= WeekIndexOf(span.first, span.last) /\ WeekIndexOf(span.first, span.first) <= w
  BY <1>1, WeekIndexGrows DEF IsRange
<1>3. WeekIndexOf(span.first, span.first) = 0
  <2>1. PICK n \in Int : n = span.first BY DEF IsRange
  <2>2. WeekIndexOf(n, n) = n \div 7 - n \div 7 /\ n \div 7 \in Int BY WeekIndex
  <2> QED BY <2>1, <2>2
<1>4. w \in Int /\ WeekIndexOf(span.first, span.last) \in Int BY <1>1, WeekIndex DEF IsRange
<1>5. w \in Weeks(span)
  <2> HIDE DEF w
  <2> QED BY <1>2, <1>3, <1>4 DEF Weeks, WeekCountOf
<1>6. MondayOf(span.first) + 7 * w = MondayOf(d) BY <1>1, WeekIndex DEF IsRange
<1> QED BY <1>5, <1>6 DEF WeekDates

\* A week of the term is touched by a range that has one of its dates.
LEMMA TouchedByItsDates ==
    ASSUME NEW span, IsRange(span), NEW range, IsRange(range),
           NEW d \in Dates(span), d \in Dates(range)
    PROVE  WeekIndexOf(span.first, d) \in TouchedWeeks(span, range)
<1>1. d \in Int /\ range.first <= d /\ d <= range.last BY DEF Dates, IsRange
<1> QED BY <1>1, DateInItsWeek, WeekIndexGrows DEF TouchedWeeks, IsRange

\* The windows of an absence block exactly its dates in the term.
LEMMA WindowsAreTheRange ==
    ASSUME NEW span, IsRange(span), NEW range, IsRange(range), NEW d \in Dates(span),
           NEW block
    PROVE  (\E shut \in HolidayWindows(span, range) :
               Blocks(shut, WeekIndexOf(span.first, d), IsoWeekday(d), block))
           <=> d \in Dates(range)
<1> DEFINE w == WeekIndexOf(span.first, d)
           touched == TouchedWeeks(span, range)
           whole == {i \in touched : CoversAll(range, WeekDates(span, i))}
           parts == {CoveredDays(span, range, i) : i \in touched \ whole} \ {{}}
           Part(part) == {i \in touched \ whole : CoveredDays(span, range, i) = part}
<1>0. d \in Int BY DEF Dates, IsRange
<1>1. /\ HolidayWindows(span, range) =
           {[days |-> {}, blocks |-> {}, weeks |-> whole] : i \in whole}
           \cup {[days |-> part, blocks |-> {}, weeks |-> Part(part)] : part \in parts}
  BY DEF HolidayWindows
<1>2. /\ WeekDates(span, w).first = MondayOf(d) /\ WeekDates(span, w).last = MondayOf(d) + 6
      /\ w \in Weeks(span)
  <2>1. /\ w \in Weeks(span)
        /\ WeekDates(span, w) = [first |-> MondayOf(d), last |-> MondayOf(d) + 6]
    BY DateInItsWeek
  <2> HIDE DEF w
  <2> QED BY <2>1
<1>3. /\ IsoWeekday(d) \in 1 .. 7 /\ MondayOf(d) \in Int
      /\ d = MondayOf(d) + IsoWeekday(d) - 1 /\ MondayOf(d) <= d /\ d <= MondayOf(d) + 6
  BY <1>0, DayOfWeek
<1>4. w \in whole => d \in Dates(range)
  <2> SUFFICES ASSUME w \in whole PROVE d \in Dates(range) OBVIOUS
  <2>1. range.first <= MondayOf(d) /\ MondayOf(d) + 6 <= range.last BY <1>2 DEF CoversAll
  <2> QED BY <1>0, <1>3, <2>1 DEF Dates, IsRange
<1>5. IsoWeekday(d) \in CoveredDays(span, range, w) <=> d \in Dates(range)
  <2>1. MondayOf(d) + IsoWeekday(d) - 1 = d BY <1>3
  <2> QED BY <1>2, <1>3, <2>1 DEF CoveredDays
<1> HIDE DEF w, touched, whole, parts, Part
<1>6. ASSUME NEW shut \in HolidayWindows(span, range), Blocks(shut, w, IsoWeekday(d), block)
      PROVE  d \in Dates(range)
  <2>1. CASE \E i \in whole : shut = [days |-> {}, blocks |-> {}, weeks |-> whole]
    BY <1>4, <1>6, <2>1 DEF Blocks
  <2>2. ASSUME NEW part \in parts, shut = [days |-> part, blocks |-> {}, weeks |-> Part(part)]
        PROVE  d \in Dates(range)
    <3>1. part # {} /\ Part(part) # {} BY DEF parts, Part
    <3>2. w \in Part(part) /\ IsoWeekday(d) \in part BY <1>6, <2>2, <3>1 DEF Blocks
    <3> QED BY <1>5, <3>2 DEF Part
  <2> QED BY <1>1, <2>1, <2>2
<1>7. ASSUME d \in Dates(range)
      PROVE  \E shut \in HolidayWindows(span, range) : Blocks(shut, w, IsoWeekday(d), block)
  <2>1. w \in touched BY <1>7, TouchedByItsDates DEF touched, w
  <2>2. CASE w \in whole
    <3> DEFINE shut == [days |-> {}, blocks |-> {}, weeks |-> whole]
    <3>1. shut \in HolidayWindows(span, range) BY <1>1, <2>2
    <3>2. Blocks(shut, w, IsoWeekday(d), block) BY <2>2 DEF Blocks
    <3> QED BY <3>1, <3>2
  <2>3. CASE w \notin whole
    <3> DEFINE part == CoveredDays(span, range, w)
               shut == [days |-> part, blocks |-> {}, weeks |-> Part(part)]
    <3>1. IsoWeekday(d) \in part BY <1>5, <1>7
    <3>2. part \in parts /\ w \in Part(part) BY <2>1, <2>3, <3>1 DEF parts, Part
    <3> HIDE DEF part
    <3>3. shut \in HolidayWindows(span, range) BY <1>1, <3>2
    <3>4. Blocks(shut, w, IsoWeekday(d), block) BY <3>1, <3>2 DEF Blocks
    <3> QED BY <3>3, <3>4
  <2> QED BY <2>2, <2>3
<1> QED BY <1>6, <1>7 DEF w

-----------------------------------------------------------------------------
(***************************************************************************)
(* Absences                                                                *)
(***************************************************************************)
\* What a row that is stored says of the dates it is about.
RowIsMeant(row) ==
    /\ row.range # None => row.range = row.meant /\ IsRange(row.meant)
    /\ row.anchor # None =>
        /\ row.range = None
        /\ row.meant.first \in Int /\ row.meant.last = row.meant.first
        /\ row.window.days = {IsoWeekday(row.meant.first)} /\ row.window.blocks = {}
        /\ \E k \in Int : row.window.weeks = {k} /\ row.anchor + 7 * k = MondayOf(row.meant.first)

\* The types of a row.
RowIsTyped(row) ==
    /\ row.status \in {"PENDING", "APPROVED", "REJECTED"}
    /\ (row.status = "PENDING") <=> (row.by = None)
    /\ row.window.weeks # {} => row.term \in TermIds

AbsenceRows ==
    /\ DOMAIN terms = TermIds /\ DOMAIN rows = Rows /\ DOMAIN read = Reviewers
    /\ \A t \in TermIds : IsRange(terms[t])
    /\ \A r \in Rows : Free(r) \/ (RowIsTyped(rows[r]) /\ RowIsMeant(rows[r]))
    /\ \A a \in Reviewers : read[a] \in Rows \cup {None}

\* One reviewer at a time decides on a row that waits, or is gone.
ReadIsPending == ~concurrent =>
    /\ \A a, b \in Reviewers : read[a] # None /\ read[b] # None => a = b
    /\ \A a \in Reviewers : read[a] # None =>
        Free(read[a]) \/ rows[read[a]].status = "PENDING"

AbsenceInv == AbsenceRows /\ ReadIsPending

\* A row with a new id, as the actions that store one write it.
LEMMA StoreKeeps ==
    ASSUME AbsenceInv, NEW r \in Rows, Unused(r), NEW row, StoreRow(r, row),
           RowIsTyped(row), RowIsMeant(row)
    PROVE  AbsenceInv'
<1>1. /\ DOMAIN rows' = Rows /\ rows'[r] = row /\ \A q \in Rows \ {r} : rows'[q] = rows[q]
      /\ UNCHANGED <<terms, read, concurrent>>
  BY DEF StoreRow, AbsenceInv, AbsenceRows
<1>2. AbsenceRows' BY <1>1 DEF AbsenceInv, AbsenceRows, Free
<1>3. \A a \in Reviewers : read[a] # None => read[a] \in Rows \ {r}
  BY DEF Unused, AbsenceInv, AbsenceRows
<1>4. ReadIsPending' BY <1>1, <1>3 DEF AbsenceInv, ReadIsPending, Free
<1> QED BY <1>2, <1>4 DEF AbsenceInv

\* A weekly pattern names no dates.
LEMMA PatternKeeps ==
    ASSUME AbsenceInv, NEW r \in Rows, NEW by \in Reviewers \cup {None}, NEW shut,
           DeclarePattern(r, by, shut)
    PROVE  AbsenceInv'
<1> DEFINE row == Row(shut, None, None, StatusFor(by), by, None, None)
<1>1. Unused(r) /\ shut.weeks = {} /\ StoreRow(r, row)
  BY DEF DeclarePattern, PatternIsLegal
<1>2. RowIsTyped(row) /\ RowIsMeant(row)
  BY <1>1, AvailabilityAssumption DEF Row, StatusFor, RowIsTyped, RowIsMeant
<1> HIDE DEF row
<1> QED BY <1>1, <1>2, StoreKeeps

\* A range of dates is stored beside the weeks it touches.
LEMMA HolidayKeeps ==
    ASSUME AbsenceInv, NEW r \in Rows, NEW by \in Reviewers \cup {None}, NEW range \in Ranges,
           DeclareHoliday(r, by, range)
    PROVE  AbsenceInv'
<1>1. PICK t \in TermIds :
        StoreRow(r, Row([days |-> {}, blocks |-> {}, weeks |-> TouchedWeeks(terms[t], range)],
                        t, range, StatusFor(by), by, range, None))
  BY DEF DeclareHoliday
<1> DEFINE row == Row([days |-> {}, blocks |-> {}, weeks |-> TouchedWeeks(terms[t], range)],
                      t, range, StatusFor(by), by, range, None)
<1>2. RowIsTyped(row)
  BY AvailabilityAssumption DEF Row, StatusFor, RowIsTyped
<1>3. RowIsMeant(row)
  BY AvailabilityAssumption DEF Row, RowIsMeant, IsRange
<1>4. Unused(r) BY DEF DeclareHoliday
<1> HIDE DEF row
<1> QED BY <1>1, <1>2, <1>3, <1>4, StoreKeeps DEF row

\* A single date touches one week.
LEMMA OneWeekTouched ==
    ASSUME NEW span, IsRange(span), NEW d \in Int,
           TouchedWeeks(span, [first |-> d, last |-> d]) # {}
    PROVE  TouchedWeeks(span, [first |-> d, last |-> d]) = {WeekIndexOf(span.first, d)}
<1> DEFINE range == [first |-> d, last |-> d]
           w == WeekIndexOf(span.first, d)
<1>1. TouchedWeeks(span, range) = {i \in Weeks(span) : w <= i /\ i <= w} BY DEF TouchedWeeks
<1>2. w \in Int /\ WeekIndexOf(span.first, span.last) \in Int BY WeekIndex DEF IsRange
<1>3. Weeks(span) \subseteq Int BY <1>2 DEF Weeks, WeekCountOf
<1> HIDE DEF w
<1>4. \A i \in Weeks(span) : w <= i /\ i <= w => i = w BY <1>2, <1>3
<1> QED BY <1>1, <1>4 DEF w

\* A single date is stored as a week and a weekday.
LEMMA DateKeeps ==
    ASSUME AbsenceInv, NEW r \in Rows, NEW d \in Int, DeclareDate(r, d)
    PROVE  AbsenceInv'
<1> DEFINE range == [first |-> d, last |-> d]
<1>1. PICK t \in TermIds :
        /\ ResolveHolidayRange(range, t)
        /\ StoreRow(r, Row([days |-> {IsoWeekday(d)}, blocks |-> {},
                         weeks |-> TouchedWeeks(terms[t], range)],
                        t, None, "PENDING", None, range, MondayOf(terms[t].first)))
  BY DEF DeclareDate
<1> DEFINE row == Row([days |-> {IsoWeekday(d)}, blocks |-> {},
                       weeks |-> TouchedWeeks(terms[t], range)],
                      t, None, "PENDING", None, range, MondayOf(terms[t].first))
           k == WeekIndexOf(terms[t].first, d)
<1>2. RowIsTyped(row) BY DEF Row, RowIsTyped
<1>3. RowIsMeant(row)
  <2>1. IsRange(terms[t]) BY DEF AbsenceInv, AbsenceRows
  <2>2. TouchedWeeks(terms[t], range) = {k} BY <1>1, <2>1, OneWeekTouched DEF ResolveHolidayRange
  <2>3. k \in Int /\ MondayOf(terms[t].first) + 7 * k = MondayOf(d)
    BY <2>1, WeekIndex DEF IsRange
  <2> HIDE DEF k
  <2>4. /\ row.range = None /\ row.meant.first = d /\ row.meant.last = d
        /\ row.window.days = {IsoWeekday(d)} /\ row.window.blocks = {}
        /\ row.window.weeks = {k} /\ row.anchor = MondayOf(terms[t].first)
    BY <2>2 DEF Row
  <2> HIDE DEF row
  <2> QED BY <2>3, <2>4 DEF RowIsMeant
<1>4. Unused(r) BY DEF DeclareDate
<1> HIDE DEF row
<1> QED BY <1>1, <1>2, <1>3, <1>4, StoreKeeps DEF row

\* A decision writes the status and the reviewer and nothing else.
LEMMA ReviewKeeps ==
    ASSUME AbsenceInv, NEW a \in Reviewers,
           \/ \E r \in Rows : ReadForDecision(a, r)
           \/ \E decision \in {"APPROVED", "REJECTED"} : Decide(a, decision)
    PROVE  AbsenceInv'
<1>1. ASSUME NEW r \in Rows, ReadForDecision(a, r) PROVE AbsenceInv'
  <2>1. /\ read' = [read EXCEPT ![a] = r] /\ UNCHANGED <<terms, rows, concurrent>>
        /\ rows[r].status = "PENDING"
        /\ concurrent \/ \A b \in Reviewers : read[b] = None
    BY <1>1 DEF ReadForDecision
  <2>2. DOMAIN read' = Reviewers /\ read'[a] = r /\ \A b \in Reviewers \ {a} : read'[b] = read[b]
    BY <2>1 DEF AbsenceInv, AbsenceRows
  <2>3. AbsenceRows' BY <2>1, <2>2 DEF AbsenceInv, AbsenceRows, Free
  <2>4. ReadIsPending' BY <2>1, <2>2 DEF AbsenceInv, ReadIsPending, Free
  <2> QED BY <2>3, <2>4 DEF AbsenceInv
<1>2. ASSUME NEW decision \in {"APPROVED", "REJECTED"}, Decide(a, decision) PROVE AbsenceInv'
  <2>0. PICK q : q = read[a] OBVIOUS
  <2>1. /\ q # None /\ q \in Rows
        /\ read' = [read EXCEPT ![a] = None] /\ UNCHANGED <<terms, concurrent>>
    BY <1>2, <2>0 DEF Decide, AbsenceInv, AbsenceRows
  <2>2. /\ DOMAIN read' = Reviewers /\ read'[a] = None
        /\ \A b \in Reviewers \ {a} : read'[b] = read[b]
    BY <2>1 DEF AbsenceInv, AbsenceRows
  <2>3. PICK row : /\ row = IF Free(q) THEN rows[q]
                            ELSE [rows[q] EXCEPT !.status = decision, !.by = a]
    OBVIOUS
  <2>4. DOMAIN rows' = Rows /\ rows'[q] = row /\ \A s \in Rows \ {q} : rows'[s] = rows[s]
    BY <1>2, <2>0, <2>1, <2>3 DEF Decide, AbsenceInv, AbsenceRows
  <2>5. row = None \/ (RowIsTyped(row) /\ RowIsMeant(row))
    BY <2>1, <2>3, AvailabilityAssumption
       DEF AbsenceInv, AbsenceRows, Free, RowIsTyped, RowIsMeant
  <2>6. AbsenceRows' BY <2>1, <2>2, <2>4, <2>5 DEF AbsenceInv, AbsenceRows, Free
  <2>7. ReadIsPending'
    <3> SUFFICES ASSUME ~concurrent PROVE ReadIsPending' BY <2>1 DEF ReadIsPending
    <3>1. \A b \in Reviewers : read'[b] = None
      BY <2>0, <2>1, <2>2 DEF AbsenceInv, ReadIsPending
    <3> QED BY <3>1 DEF ReadIsPending
  <2> QED BY <2>6, <2>7 DEF AbsenceInv
<1> QED BY <1>1, <1>2

\* A withdrawn row says nothing.
LEMMA WithdrawKeeps ==
    ASSUME AbsenceInv, NEW r \in Rows, Withdraw(r)
    PROVE  AbsenceInv'
<1>1. DOMAIN rows' = Rows /\ rows'[r] = None /\ (\A q \in Rows \ {r} : rows'[q] = rows[q])
      /\ UNCHANGED <<terms, read, concurrent>>
  BY DEF Withdraw, AbsenceInv, AbsenceRows
<1>2. AbsenceRows'
  <2>1. \A q \in Rows : rows'[q] = None \/ (RowIsTyped(rows'[q]) /\ RowIsMeant(rows'[q]))
    <3> SUFFICES ASSUME NEW q \in Rows, q # r
                 PROVE  rows'[q] = None \/ (RowIsTyped(rows'[q]) /\ RowIsMeant(rows'[q]))
      BY <1>1
    <3> QED BY <1>1 DEF AbsenceInv, AbsenceRows, Free
  <2>2. DOMAIN terms' = TermIds /\ DOMAIN rows' = Rows /\ DOMAIN read' = Reviewers
        /\ (\A t \in TermIds : IsRange(terms'[t]))
        /\ (\A a \in Reviewers : read'[a] \in Rows \cup {None})
    BY <1>1 DEF AbsenceInv, AbsenceRows
  <2> QED BY <2>1, <2>2 DEF AbsenceRows, Free
<1>3. ReadIsPending'
  <2>1. \A a \in Reviewers : read[a] # None => read[a] \in Rows
    BY DEF AbsenceInv, AbsenceRows
  <2> QED BY <1>1, <2>1 DEF AbsenceInv, ReadIsPending, Free
<1> QED BY <1>2, <1>3 DEF AbsenceInv

\* No row depends on the dates of the term.
LEMMA MoveTermKeeps ==
    ASSUME AbsenceInv, NEW t \in TermIds, NEW dates \in TermDates[t], MoveTerm(t, dates)
    PROVE  AbsenceInv'
<1>1. terms' = [terms EXCEPT ![t] = dates] /\ UNCHANGED <<rows, read, concurrent>>
  BY DEF MoveTerm
<1>2. IsRange(dates) BY AvailabilityAssumption DEF IsRange
<1>3. DOMAIN terms' = TermIds /\ \A u \in TermIds : terms'[u] \in {terms[u], dates}
  BY <1>1 DEF AbsenceInv, AbsenceRows
<1> QED BY <1>1, <1>2, <1>3 DEF AbsenceInv, AbsenceRows, ReadIsPending, Free

\* The invariant of absences, whatever the calendar and the requests are.
THEOREM AbsencesInvariance == AvailabilitySpec => []AbsenceInv
<1>1. AvailabilityInit => AbsenceInv
  <2> SUFFICES ASSUME AvailabilityInit PROVE AbsenceInv OBVIOUS
  <2>1. terms \in [TermIds -> UNION {TermDates[t] : t \in TermIds}]
        /\ (\A t \in TermIds : terms[t] \in TermDates[t])
    BY DEF AvailabilityInit
  <2>2. \A t \in TermIds : IsRange(terms[t]) BY <2>1, AvailabilityAssumption DEF IsRange
  <2>3. rows = [r \in Rows |-> None] /\ read = [a \in Reviewers |-> None]
    BY DEF AvailabilityInit
  <2>4. AbsenceRows
    <3>1. DOMAIN rows = Rows /\ (\A r \in Rows : rows[r] = None) BY <2>3
    <3>2. DOMAIN read = Reviewers /\ (\A a \in Reviewers : read[a] = None) BY <2>3
    <3> QED BY <2>1, <2>2, <3>1, <3>2 DEF AbsenceRows, Free
  <2>5. ReadIsPending BY <2>3 DEF ReadIsPending
  <2> QED BY <2>4, <2>5 DEF AbsenceInv
<1>2. AbsenceInv /\ [AvailabilityNext]_availabilityVars => AbsenceInv'
  <2> SUFFICES ASSUME AbsenceInv, [AvailabilityNext]_availabilityVars PROVE AbsenceInv' OBVIOUS
  <2>1. CASE UNCHANGED availabilityVars
    BY <2>1 DEF availabilityVars, AbsenceInv, AbsenceRows, ReadIsPending, Free
  <2>2. \A range \in Ranges : range.last \in Int BY AvailabilityAssumption
  <2>3. CASE AvailabilityNext
    BY <2>2, <2>3, PatternKeeps, HolidayKeeps, DateKeeps, ReviewKeeps, WithdrawKeeps,
       MoveTermKeeps DEF AvailabilityNext
  <2> QED BY <2>1, <2>3
<1> QED BY <1>1, <1>2, PTL DEF AvailabilitySpec

\* Rows of absences are ones the code can have written, in every state and for
\* any calendar, people and reviewers (vetoes.post.ts, holidays.post.ts,
\* decision.post.ts).
THEOREM AbsencesTyped == AvailabilitySpec => []AvailabilityTypeOK
<1>1. AbsenceInv => AvailabilityTypeOK
  BY DEF AbsenceInv, AbsenceRows, AvailabilityTypeOK, RowIsTyped
<1> QED BY <1>1, AbsencesInvariance, PTL

\* An approved absence blocks exactly its dates in every term it counts for,
\* wherever the term has been moved since, and a blocked day stays on its date
\* while the term begins in its week (availability.ts), for any dates at all.
THEOREM AbsencesStayOnTheirDates == AvailabilitySpec => []AbsencesKeepTheirDates
<1>1. AbsenceInv => AbsencesBlockTheirDates
  <2> SUFFICES ASSUME AbsenceInv, NEW t \in TermIds, NEW r \in ApprovedFor(t),
                      rows[r].range # None, NEW d \in Dates(terms[t])
               PROVE  BlockedOn(r, t, d) <=> d \in Dates(rows[r].meant)
    BY DEF AbsencesBlockTheirDates
  <2>1. r \in Rows /\ ~Free(r) BY DEF ApprovedFor
  <2>2. rows[r].range = rows[r].meant /\ IsRange(rows[r].meant) /\ IsRange(terms[t])
    BY <2>1 DEF AbsenceInv, AbsenceRows, RowIsMeant
  <2>3. WindowsOf(r, t) = HolidayWindows(terms[t], rows[r].meant) BY <2>2 DEF WindowsOf
  <2>4. 0 \in 0 .. (GridBlocks - 1) BY AvailabilityAssumption
  <2>5. \A block : (\E shut \in WindowsOf(r, t) :
               Blocks(shut, WeekIndexOf(terms[t].first, d), IsoWeekday(d), block))
           <=> d \in Dates(rows[r].meant)
    BY <2>2, <2>3, WindowsAreTheRange
  <2> QED BY <2>4, <2>5 DEF BlockedOn
<1>2. AbsenceInv => DatesStayWhileTheTermDoes
  <2> SUFFICES ASSUME AbsenceInv, NEW t \in TermIds, NEW r \in ApprovedFor(t),
                      rows[r].anchor # None, MondayOf(terms[t].first) = rows[r].anchor,
                      NEW d \in Dates(terms[t])
               PROVE  BlockedOn(r, t, d) <=> d \in Dates(rows[r].meant)
    BY DEF DatesStayWhileTheTermDoes
  <2>1. r \in Rows /\ ~Free(r) BY DEF ApprovedFor
  <2>2. IsRange(terms[t]) /\ RowIsMeant(rows[r]) BY <2>1 DEF AbsenceInv, AbsenceRows
  <2>3. d \in Int BY <2>2 DEF Dates, IsRange
  <2>4. PICK k \in Int : /\ rows[r].window.weeks = {k}
                         /\ rows[r].anchor + 7 * k = MondayOf(rows[r].meant.first)
    BY <2>2 DEF RowIsMeant
  <2>5. PICK m \in Int : m = rows[r].meant.first /\ m = rows[r].meant.last
    BY <2>2 DEF RowIsMeant
  <2>6. /\ rows[r].window.days = {IsoWeekday(m)} /\ rows[r].window.blocks = {}
        /\ WindowsOf(r, t) = {rows[r].window}
    BY <2>2, <2>5 DEF RowIsMeant, WindowsOf
  <2> DEFINE w == WeekIndexOf(terms[t].first, d)
  <2>7. BlockedOn(r, t, d) <=> w = k /\ IsoWeekday(d) = IsoWeekday(m)
    <3>1. 0 \in 0 .. (GridBlocks - 1) BY AvailabilityAssumption
    <3>2. \A block : Blocks(rows[r].window, w, IsoWeekday(d), block)
                        <=> w = k /\ IsoWeekday(d) = IsoWeekday(m)
      BY <2>4, <2>6 DEF Blocks
    <3> QED BY <2>6, <3>1, <3>2 DEF BlockedOn
  <2>8. /\ w \in Int /\ MondayOf(terms[t].first) + 7 * w = MondayOf(d)
        /\ MondayOf(terms[t].first) \in Int
    BY <2>2, <2>3, WeekIndex, DayOfWeek DEF IsRange
  <2> HIDE DEF w
  <2>9. w = k /\ IsoWeekday(d) = IsoWeekday(m) <=> d = m
    <3>1. MondayOf(d) = MondayOf(m) /\ IsoWeekday(d) = IsoWeekday(m) => d = m
      <4>1. /\ d = MondayOf(d) + IsoWeekday(d) - 1 /\ m = MondayOf(m) + IsoWeekday(m) - 1
        BY <2>3, DayOfWeek
      <4> QED BY <4>1
    <3>2. MondayOf(m) = MondayOf(terms[t].first) + 7 * k BY <2>4, <2>5
    <3>3. w = k <=> MondayOf(d) = MondayOf(m) BY <2>8, <3>2
    <3> QED BY <3>1, <3>3
  <2>10. d = m <=> d \in Dates(rows[r].meant) BY <2>3, <2>5 DEF Dates
  <2> QED BY <2>7, <2>9, <2>10
<1> QED BY <1>1, <1>2, AbsencesInvariance, PTL DEF AbsencesKeepTheirDates

\* While reviewers do not overlap, a decision on an absence is neither reversed
\* nor taken over (decision.post.ts).
THEOREM AbsencesAreFinal == AvailabilitySpec => DecisionIsFinal
<1>1. AbsenceInv /\ [AvailabilityNext]_availabilityVars =>
        (~concurrent =>
           \A r \in Rows :
             ~Free(r) /\ rows[r].status # "PENDING" /\ rows'[r] # None
                => rows'[r].status = rows[r].status /\ rows'[r].by = rows[r].by)
  <2> SUFFICES ASSUME AbsenceInv, [AvailabilityNext]_availabilityVars, ~concurrent,
                      NEW r \in Rows, ~Free(r), rows[r].status # "PENDING", rows'[r] # None
               PROVE  rows'[r] = rows[r]
    OBVIOUS
  <2>1. DOMAIN rows = Rows BY DEF AbsenceInv, AbsenceRows
  <2>2. ASSUME NEW q \in Rows, Unused(q), NEW row, StoreRow(q, row) PROVE rows'[r] = rows[r]
    BY <2>1, <2>2 DEF StoreRow, Unused
  <2>3. ASSUME NEW a \in Reviewers, NEW decision, Decide(a, decision) PROVE rows'[r] = rows[r]
    <3>1. read[a] # r BY <2>3 DEF Decide, AbsenceInv, ReadIsPending
    <3> QED BY <2>1, <2>3, <3>1 DEF Decide
  <2>4. ASSUME NEW q \in Rows, Withdraw(q) PROVE rows'[r] = rows[r]
    BY <2>1, <2>4 DEF Withdraw
  <2>5. CASE rows' = rows BY <2>5
  <2> QED BY <2>2, <2>3, <2>4, <2>5 DEF AvailabilityNext, availabilityVars, DeclarePattern,
        DeclareHoliday, DeclareDate, ReadForDecision, MoveTerm
<1> QED BY <1>1, AbsencesInvariance, PTL DEF AvailabilitySpec, DecisionIsFinal

-----------------------------------------------------------------------------
(***************************************************************************)
(* The blocks of a day                                                     *)
(***************************************************************************)
\* A finite set of dates has a least member: the induction is over its size.
LEMMA LeastDate ==
    ASSUME NEW S \in SUBSET Int, S # {}, IsFiniteSet(S)
    PROVE  Least(S) \in S /\ \A y \in S : Least(S) <= y
<1> DEFINE Endless == {T \in SUBSET S : T # {} /\ ~ \E x \in T : \A y \in T : x <= y}
           Sizes == {Cardinality(T) : T \in Endless}
<1>1. SUFFICES Endless = {}
  <2>1. S \notin Endless BY <1>1
  <2>2. \E x \in S : \A y \in S : x <= y BY <2>1
  <2> QED BY <2>2 DEF Least
<1>2. \A T \in SUBSET S : IsFiniteSet(T) /\ Cardinality(T) \in Nat
  BY FS_Subset, FS_CardinalityType
<1>3. SUFFICES ASSUME Endless # {} PROVE FALSE OBVIOUS
<1>4. Sizes \in SUBSET Nat /\ Sizes # {} BY <1>2, <1>3
<1>5. PICK T \in Endless : \A U \in Endless : Cardinality(T) <= Cardinality(U)
  <2>1. \E n \in Sizes : \A k \in Sizes : n <= k
    <3> HIDE DEF Sizes
    <3> QED BY <1>4, LeastIn
  <2> QED BY <2>1
<1>6. PICK x \in T : TRUE OBVIOUS
<1>7. Cardinality(T \ {x}) = Cardinality(T) - 1 BY <1>2, <1>6, FS_RemoveElement
<1>8. T \ {x} \notin Endless
  <2>1. T \in SUBSET S /\ Cardinality(T) \in Nat BY <1>2
  <2>2. ~(Cardinality(T) <= Cardinality(T \ {x})) BY <1>7, <2>1
  <2> HIDE DEF Endless
  <2> QED BY <1>5, <2>2
<1>9. CASE T \ {x} = {}
  <2>1. \A y \in T : x <= y BY <1>9
  <2> QED BY <2>1, <1>6
<1>10. CASE T \ {x} # {}
  <2>1. PICK m \in T \ {x} : \A y \in T \ {x} : m <= y BY <1>8, <1>10
  <2>2. m \in Int /\ x \in Int /\ T \subseteq Int BY <1>6, <2>1
  <2>3. CASE m <= x
    <3>1. \A y \in T : m <= y BY <2>1, <2>3
    <3> QED BY <3>1, <2>1
  <2>4. CASE x <= m
    <3>1. \A y \in T : x <= y BY <2>1, <2>2, <2>4
    <3> QED BY <3>1, <1>6
  <2> QED BY <2>2, <2>3, <2>4
<1> QED BY <1>9, <1>10

\* A grid the database takes: its breaks never walk backwards.
IsGrid(g) ==
    /\ g.start \in Nat /\ g.length \in Nat /\ g.gap \in Nat /\ g.blocks \in Nat \ {0}
    /\ \A position \in DOMAIN g.breaks : g.breaks[position] \in Nat
    /\ g.days \subseteq 1 .. 7

\* The break in front of a boundary; the last block has none behind it.
Pause(g, day, i) == IF i = g.blocks THEN 0 ELSE GapAfter(g, i - 1, day)

\* Boundaries as they are defined: each from the one before.
Walked(g, day, n, f) ==
    f = [i \in 0 .. n |-> IF i = 0 THEN g.start
                          ELSE f[i - 1] + g.length + Pause(g, day, i)]

\* A break takes no time or some.
LEMMA PauseIsTime ==
    ASSUME NEW g, IsGrid(g), NEW day, NEW i
    PROVE  Pause(g, day, i) \in Nat
BY DEF Pause, GapAfter, IsGrid

\* The walk over a day comes to each block: otherwise there is a first one it
\* does not come to, and it can be made one step longer.
LEMMA WalkExists ==
    ASSUME NEW g, IsGrid(g), NEW day, NEW n \in Nat
    PROVE  \E f : Walked(g, day, n, f)
<1> DEFINE Missed == {k \in Nat : ~ \E f : Walked(g, day, k, f)}
<1>1. SUFFICES ASSUME Missed # {} PROVE FALSE OBVIOUS
<1>2. PICK k \in Missed : \A j \in Missed : k <= j
  <2>1. Missed \in SUBSET Nat OBVIOUS
  <2> HIDE DEF Missed
  <2> QED BY <1>1, <2>1, LeastIn
<1>3. k # 0
  <2>1. SUFFICES ASSUME k = 0 PROVE FALSE OBVIOUS
  <2>2. PICK f : f = [i \in 0 .. 0 |-> g.start] OBVIOUS
  <2>3. Walked(g, day, 0, f) BY <2>2 DEF Walked
  <2> QED BY <2>1, <2>3
<1>4. k - 1 \in Nat /\ k - 1 \notin Missed
  <2>1. k \in Nat OBVIOUS
  <2>2. k - 1 \in Nat /\ ~(k <= k - 1) BY <1>3, <2>1
  <2> HIDE DEF Missed
  <2> QED BY <1>2, <2>2
<1>5. PICK f : Walked(g, day, k - 1, f) BY <1>4
<1>6. PICK h : h = [i \in 0 .. k |->
                      IF i = k THEN f[k - 1] + g.length + Pause(g, day, k) ELSE f[i]]
  OBVIOUS
<1>7. \A i \in 0 .. (k - 1) : h[i] = f[i] BY <1>4, <1>6
<1>8. h[k] = h[k - 1] + g.length + Pause(g, day, k) BY <1>4, <1>6, <1>7
<1>9. \A i \in 0 .. k :
        h[i] = (IF i = 0 THEN g.start ELSE h[i - 1] + g.length + Pause(g, day, i))
  <2> TAKE i \in 0 .. k
  <2>1. CASE i = k BY <2>1, <1>3, <1>8
  <2>2. CASE i # k
    <3>1. i \in 0 .. (k - 1) BY <2>2
    <3>2. f[i] = (IF i = 0 THEN g.start ELSE f[i - 1] + g.length + Pause(g, day, i))
      BY <1>5, <3>1 DEF Walked
    <3>3. i # 0 => i - 1 \in 0 .. (k - 1) BY <3>1
    <3> QED BY <3>1, <3>2, <3>3, <1>7
  <2> QED BY <2>1, <2>2
<1>10. DOMAIN h = 0 .. k BY <1>6
<1>11. Walked(g, day, k, h)
  <2>1. h = [i \in 0 .. k |-> h[i]] BY <1>6
  <2> QED BY <2>1, <1>9 DEF Walked
<1> QED BY <1>11

\* So a day begins where its grid says, and each boundary is a block and
\* a break behind the one before.
LEMMA BoundariesWalk ==
    ASSUME NEW g, IsGrid(g), NEW day
    PROVE  /\ Boundaries(g, day)[0] = g.start
           /\ \A i \in 1 .. g.blocks :
                Boundaries(g, day)[i] =
                    Boundaries(g, day)[i - 1] + g.length + Pause(g, day, i)
<1> DEFINE B == Boundaries(g, day)
<1>1. B = CHOOSE f : Walked(g, day, g.blocks, f)
  <2>1. B = CHOOSE f : f = [i \in 0 .. g.blocks |->
              IF i = 0 THEN g.start
              ELSE f[i - 1] + g.length
                   + (IF i = g.blocks THEN 0 ELSE GapAfter(g, i - 1, day))]
    BY DEF Boundaries
  <2> QED BY <2>1 DEF Walked, Pause
<1>2. Walked(g, day, g.blocks, B) BY <1>1, WalkExists DEF IsGrid
<1> QED BY <1>2 DEF Walked, IsGrid

\* The boundaries of a day only grow, and the next is no sooner than the end of
\* the block before it: otherwise there is a first boundary that is too soon.
LEMMA BoundariesGrow ==
    ASSUME NEW g, IsGrid(g), NEW day
    PROVE  /\ \A j \in 0 .. g.blocks : Boundaries(g, day)[j] \in Nat
           /\ \A j \in 0 .. g.blocks, i \in 0 .. g.blocks :
                i <= j => Boundaries(g, day)[i] <= Boundaries(g, day)[j]
           /\ \A j \in 1 .. g.blocks :
                Boundaries(g, day)[j - 1] + g.length <= Boundaries(g, day)[j]
<1> DEFINE Early(j) == ~ /\ Boundaries(g, day)[j] \in Nat
                         /\ \A i \in 0 .. j : Boundaries(g, day)[i] <= Boundaries(g, day)[j]
           TooSoon == {j \in 0 .. g.blocks : Early(j)}
<1>1. PICK B : B = Boundaries(g, day) OBVIOUS
<1>2. g.length \in Nat /\ g.start \in Nat /\ g.blocks \in Nat BY DEF IsGrid
<1>3. B[0] = g.start BY <1>1, BoundariesWalk
<1>4. \A j \in 1 .. g.blocks : \E pause \in Nat : B[j] = B[j - 1] + g.length + pause
  BY <1>1, BoundariesWalk, PauseIsTime
<1>5. \A j \in 0 .. g.blocks : Early(j) <=> ~(B[j] \in Nat /\ \A i \in 0 .. j : B[i] <= B[j])
  BY <1>1
<1>6. TooSoon = {}
  <2>1. SUFFICES ASSUME TooSoon # {} PROVE FALSE OBVIOUS
  <2>2. PICK j \in TooSoon : \A k \in TooSoon : j <= k
    <3>1. TooSoon \in SUBSET Nat BY <1>2
    <3> HIDE DEF TooSoon
    <3> QED BY <2>1, <3>1, LeastIn
  <2>3. j \in 0 .. g.blocks /\ Early(j) OBVIOUS
  <2>4. j # 0
    <3>1. SUFFICES ASSUME j = 0 PROVE FALSE OBVIOUS
    <3>2. B[0] \in Nat /\ \A i \in 0 .. 0 : B[i] <= B[0] BY <1>2, <1>3
    <3> HIDE DEF Early
    <3> QED BY <1>5, <2>3, <3>1, <3>2
  <2>5. j - 1 \in 0 .. g.blocks /\ j \in 1 .. g.blocks BY <1>2, <2>3, <2>4
  <2>6. j - 1 \notin TooSoon
    <3>1. ~(j <= j - 1) BY <2>5
    <3> HIDE DEF TooSoon
    <3> QED BY <2>2, <3>1
  <2>7. B[j - 1] \in Nat /\ \A i \in 0 .. (j - 1) : B[i] <= B[j - 1]
    BY <1>5, <2>5, <2>6
  <2>8. PICK pause \in Nat : B[j] = B[j - 1] + g.length + pause BY <1>4, <2>5
  <2>9. B[j] \in Nat /\ B[j - 1] <= B[j] BY <1>2, <2>7, <2>8
  <2>10. ASSUME NEW i \in 0 .. j PROVE B[i] <= B[j]
    <3>1. CASE i = j BY <2>9, <3>1
    <3>2. CASE i # j
      <4>1. i \in 0 .. (j - 1) BY <2>5, <3>2
      <4>2. B[i] <= B[j - 1] BY <2>7, <4>1
      <4>3. B[i] \in Nat
        <5>1. CASE i = 0 BY <1>2, <1>3, <5>1
        <5>2. CASE i # 0
          <6>1. i \in 0 .. g.blocks /\ ~(j <= i) BY <1>2, <2>5, <4>1
          <6>2. i \notin TooSoon
            <7> HIDE DEF TooSoon
            <7> QED BY <2>2, <6>1
          <6> QED BY <1>5, <6>1, <6>2
        <5> QED BY <5>1, <5>2
      <4> QED BY <2>7, <2>9, <4>2, <4>3
    <3> QED BY <3>1, <3>2
  <2> HIDE DEF Early
  <2> QED BY <1>5, <2>3, <2>9, <2>10
<1>7. \A j \in 0 .. g.blocks : B[j] \in Nat /\ \A i \in 0 .. j : B[i] <= B[j]
  <2> TAKE j \in 0 .. g.blocks
  <2>1. ~Early(j) BY <1>6
  <2> HIDE DEF Early
  <2> QED BY <1>5, <2>1
<1>8. \A j \in 0 .. g.blocks, i \in 0 .. g.blocks : i <= j => B[i] <= B[j]
  <2> TAKE j \in 0 .. g.blocks, i \in 0 .. g.blocks
  <2> HAVE i <= j
  <2>1. i \in 0 .. j BY <1>2
  <2> QED BY <1>7, <2>1
<1>9. \A j \in 1 .. g.blocks : B[j - 1] + g.length <= B[j]
  <2> TAKE j \in 1 .. g.blocks
  <2>1. j - 1 \in 0 .. g.blocks BY <1>2
  <2>2. B[j - 1] \in Nat BY <1>7, <2>1
  <2>3. PICK pause \in Nat : B[j] = B[j - 1] + g.length + pause BY <1>4
  <2> QED BY <1>2, <2>2, <2>3
<1> QED BY <1>1, <1>7, <1>8, <1>9

\* The blocks that count as past at some minute are those whose successor has
\* begun: they have ended.
LEMMA BlocksBefore ==
    ASSUME NEW g, IsGrid(g), NEW day, NEW minute \in Int, NEW block \in 0 .. (g.blocks - 1),
           block < BlockAtMinute(g, minute, day)
    PROVE  Boundaries(g, day)[block] + g.length <= minute
<1>1. PICK B : B = Boundaries(g, day) OBVIOUS
<1>2. g.length \in Nat /\ g.blocks \in Nat BY DEF IsGrid
<1>3. block + 1 \in 1 .. g.blocks /\ (block + 1) - 1 = block BY <1>2
<1>4. /\ \A j \in 0 .. g.blocks : B[j] \in Nat
      /\ \A j \in 0 .. g.blocks, i \in 0 .. g.blocks : i <= j => B[i] <= B[j]
      /\ B[block] + g.length <= B[block + 1]
  <2>1. B[(block + 1) - 1] + g.length <= B[block + 1] BY <1>1, <1>3, BoundariesGrow
  <2> QED BY <1>1, <1>3, <2>1, BoundariesGrow
<1>5. B[block + 1] <= minute
  <2>1. SUFFICES ASSUME B[block + 1] > minute PROVE FALSE
    <3>1. B[block + 1] \in Nat BY <1>2, <1>3, <1>4
    <3> QED BY <3>1
  <2>2. {i \in 1 .. g.blocks : B[i] <= minute} \subseteq 1 .. block
    <3> SUFFICES ASSUME NEW i \in 1 .. g.blocks, B[i] <= minute, i \notin 1 .. block
                 PROVE  FALSE
      OBVIOUS
    <3>1. block + 1 <= i /\ i \in 0 .. g.blocks /\ block + 1 \in 0 .. g.blocks BY <1>2, <1>3
    <3>2. B[block + 1] <= B[i] /\ B[i] \in Nat /\ B[block + 1] \in Nat BY <1>4, <3>1
    <3> QED BY <2>1, <3>2
  <2>3. IsFiniteSet(1 .. block) /\ Cardinality(1 .. block) = block
    <3>1. block \in Nat BY <1>2
    <3>2. IsFiniteSet(1 .. block)
          /\ Cardinality(1 .. block) = (IF 1 > block THEN 0 ELSE block - 1 + 1)
      BY <3>1, FS_Interval
    <3> QED BY <3>1, <3>2
  <2>4. BlockAtMinute(g, minute, day) = Cardinality({i \in 1 .. g.blocks : B[i] <= minute})
    BY <1>1 DEF BlockAtMinute
  <2>5. BlockAtMinute(g, minute, day) <= block BY <2>2, <2>3, <2>4, FS_Subset
  <2>6. BlockAtMinute(g, minute, day) \in Nat
    BY <2>2, <2>3, <2>4, FS_Subset, FS_CardinalityType
  <2> QED BY <1>2, <2>5, <2>6
<1>6. B[block] \in Nat /\ B[block + 1] \in Nat
  BY <1>2, <1>3, <1>4
<1> QED BY <1>1, <1>2, <1>4, <1>5, <1>6

\* Later on a day no fewer blocks are past.
LEMMA BlocksAccrue ==
    ASSUME NEW g, IsGrid(g), NEW day, NEW minute \in Int, NEW later \in Int, minute <= later
    PROVE  /\ BlockAtMinute(g, minute, day) \in Nat
           /\ BlockAtMinute(g, minute, day) <= BlockAtMinute(g, later, day)
<1> DEFINE Past(m) == {i \in 1 .. g.blocks : Boundaries(g, day)[i] <= m}
<1>1. g.blocks \in Nat BY DEF IsGrid
<1>2. \A i \in 1 .. g.blocks : Boundaries(g, day)[i] \in Nat
  <2>1. \A j \in 0 .. g.blocks : Boundaries(g, day)[j] \in Nat BY BoundariesGrow
  <2> QED BY <1>1, <2>1
<1>3. Past(minute) \subseteq Past(later) BY <1>2
<1>4. IsFiniteSet(1 .. g.blocks) BY <1>1, FS_Interval
<1>5. IsFiniteSet(Past(minute)) /\ IsFiniteSet(Past(later))
  <2>1. Past(minute) \subseteq 1 .. g.blocks /\ Past(later) \subseteq 1 .. g.blocks OBVIOUS
  <2> HIDE DEF Past
  <2> QED BY <1>4, <2>1, FS_Subset
<1>6. BlockAtMinute(g, minute, day) = Cardinality(Past(minute)) BY DEF BlockAtMinute
<1>7. BlockAtMinute(g, later, day) = Cardinality(Past(later)) BY DEF BlockAtMinute
<1> HIDE DEF Past
<1> QED BY <1>3, <1>5, <1>6, <1>7, FS_Subset, FS_CardinalityType

-----------------------------------------------------------------------------
(***************************************************************************)
(* The calendar of a term                                                  *)
(***************************************************************************)
\* What is entered are dates and grids, and the clock shows a moment.
CalendarRows ==
    /\ IsRange(term) /\ IsGrid(grid)
    /\ now \in [date : Int, minute : Int]
    /\ \A p \in periods : IsRange(p)
    /\ window \in GroupWindows \cup {NoWindow}

\* The calendar is dates, whatever is entered and however time passes.
LEMMA CalendarInvariance == CalendarSpec => []CalendarRows
<1>0. CalendarInit => now \in [date : Int, minute : Int]
  <2> DEFINE Firsts == {t.first : t \in CalendarTerms}
  <2> SUFFICES ASSUME CalendarInit PROVE now \in [date : Int, minute : Int] OBVIOUS
  <2>1. Firsts \in SUBSET Int /\ Firsts # {} BY CalendarAssumption DEF CalendarInit
  <2>2. IsFiniteSet(Firsts)
    <3>1. [t \in CalendarTerms |-> t.first] \in Surjection(CalendarTerms, Firsts)
      BY DEF Surjection
    <3> QED BY <3>1, CalendarAssumption, FS_Surjection
  <2>3. Least(Firsts) \in Int
    <3> HIDE DEF Firsts
    <3> QED BY <2>1, <2>2, LeastDate
  <2> QED BY <2>3 DEF CalendarInit
<1>1. CalendarInit => CalendarRows
  BY <1>0, CalendarAssumption DEF CalendarInit, CalendarRows, IsRange, IsGrid
<1>2. CalendarRows /\ [CalendarNext]_calendarVars => CalendarRows'
  <2> SUFFICES ASSUME CalendarRows, [CalendarNext]_calendarVars PROVE CalendarRows' OBVIOUS
  <2>1. ASSUME NEW p \in CalendarPeriods, EnterPeriod(p) PROVE CalendarRows'
    <3>1. IsRange(p) BY CalendarAssumption DEF IsRange
    <3> QED BY <2>1, <3>1 DEF EnterPeriod, CalendarRows, IsRange
  <2>2. ASSUME NEW p \in CalendarPeriods, RemovePeriod(p) PROVE CalendarRows'
    BY <2>2 DEF RemovePeriod, CalendarRows, IsRange
  <2>3. ASSUME NEW w \in GroupWindows \cup {NoWindow}, SetGroupWindow(w) PROVE CalendarRows'
    BY <2>3 DEF SetGroupWindow, CalendarRows, IsRange
  <2>4. CASE TimePasses
    <3>1. now' \in [date : Int, minute : Int]
      BY <2>4, CalendarAssumption DEF TimePasses, CalendarRows
    <3> QED BY <2>4, <3>1 DEF TimePasses, CalendarRows, IsRange
  <2>5. CASE UNCHANGED calendarVars BY <2>5 DEF calendarVars, CalendarRows, IsRange
  <2> QED BY <2>1, <2>2, <2>3, <2>4, <2>5 DEF CalendarNext
<1> QED BY <1>1, <1>2, PTL DEF CalendarSpec

\* The dates of a week are the seven from its Monday.
LEMMA DatesOfWeek ==
    ASSUME NEW t, IsRange(t), NEW i \in Weeks(t)
    PROVE  /\ i \in Int /\ WeekDates(t, i).first \in Int
           /\ WeekDates(t, i).first = MondayOf(t.first) + 7 * i
           /\ WeekDates(t, i).last = WeekDates(t, i).first + 6
<1>1. WeekIndexOf(t.first, t.last) \in Int /\ MondayOf(t.first) \in Int
  BY WeekIndex, DayOfWeek DEF IsRange
<1>2. i \in Int BY <1>1 DEF Weeks, WeekCountOf
<1> QED BY <1>1, <1>2 DEF WeekDates

\* The weeks before the one a date is counted in end before the date, and those
\* behind it begin behind it.
LEMMA WeeksAround ==
    ASSUME NEW t, IsRange(t), NEW i \in Weeks(t), NEW d \in Int
    PROVE  /\ i < WeekIndexOf(t.first, d) <=> WeekDates(t, i).last < d
           /\ i > WeekIndexOf(t.first, d) <=> WeekDates(t, i).first > d
<1> DEFINE w == WeekIndexOf(t.first, d)
           m == MondayOf(t.first)
<1>1. /\ i \in Int /\ WeekDates(t, i).first = m + 7 * i
      /\ WeekDates(t, i).last = WeekDates(t, i).first + 6
  BY DatesOfWeek
<1>2. w \in Int /\ m + 7 * w = MondayOf(d) BY WeekIndex DEF IsRange
<1>3. m \in Int /\ MondayOf(d) \in Int /\ MondayOf(d) <= d /\ d <= MondayOf(d) + 6
  BY DayOfWeek DEF IsRange
<1> HIDE DEF w, m
<1>4. i < w <=> m + 7 * i + 6 < d BY <1>1, <1>2, <1>3
<1>5. i > w <=> m + 7 * i > d BY <1>1, <1>2, <1>3
<1> QED BY <1>1, <1>4, <1>5 DEF w

\* For any term, periods and group window: the solver is told of exactly the dates
\* that holidays cover, and a group is away in exactly the weeks it is away on
\* every day of (academicCalendar.ts, solverCalendar.ts).
THEOREM CalendarIsTold ==
    CalendarSpec => [](HolidaysAreNoTeaching /\ GroupIsAwayWholeWeeks)
<1>1. CalendarRows => HolidaysAreNoTeaching
  <2> SUFFICES ASSUME CalendarRows, NEW i \in Weeks(term), NEW d \in Dates(WeekDates(term, i))
               PROVE  (d \in HolidayDates(term, periods)
                         \/ WeekKind(term, periods, i) = "HOLIDAY")
                      <=> \E p \in periods : p.kind = "HOLIDAY" /\ d \in Dates(p)
    BY DEF HolidaysAreNoTeaching
  <2>1. ASSUME WeekKind(term, periods, i) = "HOLIDAY"
        PROVE  \E p \in periods : p.kind = "HOLIDAY" /\ d \in Dates(p)
    <3>1. PICK p \in periods : p.kind = "HOLIDAY" /\ CoversAll(p, WeekDates(term, i))
      BY <2>1 DEF WeekKind
    <3>2. d \in Int /\ WeekDates(term, i).first <= d /\ d <= WeekDates(term, i).last
      BY DEF Dates
    <3>3. WeekDates(term, i).first \in Int /\ WeekDates(term, i).last \in Int
      BY DatesOfWeek DEF CalendarRows
    <3>4. IsRange(p) BY DEF CalendarRows
    <3>5. d \in Dates(p) BY <3>1, <3>2, <3>3, <3>4 DEF CoversAll, Dates, IsRange
    <3> QED BY <3>1, <3>5
  <2>2. d \in HolidayDates(term, periods) =>
          \E p \in periods : p.kind = "HOLIDAY" /\ d \in Dates(p)
    BY DEF HolidayDates
  <2>3. ASSUME WeekKind(term, periods, i) # "HOLIDAY",
               \E p \in periods : p.kind = "HOLIDAY" /\ d \in Dates(p)
        PROVE  d \in HolidayDates(term, periods)
    <3>1. d \in UNION {Dates(WeekDates(term, j)) :
                         j \in {k \in Weeks(term) : WeekKind(term, periods, k) # "HOLIDAY"}}
      BY <2>3
    <3> QED BY <2>3, <3>1 DEF HolidayDates
  <2> QED BY <2>1, <2>2, <2>3
<1>2. CalendarRows => GroupIsAwayWholeWeeks
  <2> DEFINE Away(d) == \/ window.first # None /\ d < window.first
                        \/ window.last # None /\ d > window.last
  <2> SUFFICES ASSUME CalendarRows, NEW i \in Weeks(term)
               PROVE  i \in BlackedOutWeeks(term, window)
                      <=> \A d \in Dates(WeekDates(term, i)) : Away(d)
    BY DEF GroupIsAwayWholeWeeks
  <2>a. /\ window.first \in Int \cup {None} /\ window.last \in Int \cup {None}
        /\ window.first # None /\ window.last # None => window.first <= window.last
    BY CalendarAssumption DEF CalendarRows, NoWindow
  <2>b. PICK m \in Int : m = WeekDates(term, i).first BY DatesOfWeek DEF CalendarRows
  <2>c. WeekDates(term, i).last = m + 6 BY <2>b, DatesOfWeek DEF CalendarRows
  <2>d. Dates(WeekDates(term, i)) = m .. (m + 6) BY <2>b, <2>c DEF Dates
  <2>e. i \in BlackedOutWeeks(term, window) <=>
          \/ window.first # None /\ m + 6 < window.first
          \/ window.last # None /\ m > window.last
    <3>1. window.first # None =>
            (i < WeekIndexOf(term.first, window.first) <=> m + 6 < window.first)
      BY <2>a, <2>c, WeeksAround DEF CalendarRows
    <3>2. window.last # None =>
            (i > WeekIndexOf(term.first, window.last) <=> m > window.last)
      BY <2>a, <2>b, WeeksAround DEF CalendarRows
    <3> QED BY <3>1, <3>2 DEF BlackedOutWeeks
  <2>1. ASSUME i \in BlackedOutWeeks(term, window), NEW d \in m .. (m + 6) PROVE Away(d)
    BY <2>1, <2>a, <2>e
  <2>2. ASSUME \A d \in m .. (m + 6) : Away(d) PROVE i \in BlackedOutWeeks(term, window)
    <3>1. Away(m) /\ Away(m + 6) BY <2>2
    <3> SUFFICES ASSUME i \notin BlackedOutWeeks(term, window) PROVE FALSE OBVIOUS
    <3>2. /\ window.first # None => window.first <= m + 6
          /\ window.last # None => m <= window.last
      BY <2>a, <2>e
    <3>3. window.first # None /\ m < window.first BY <2>a, <3>1, <3>2
    <3>4. window.first \in m .. (m + 6) BY <2>a, <3>2, <3>3
    <3>5. Away(window.first) BY <2>2, <3>4
    <3> QED BY <2>a, <3>3, <3>5
  <2> QED BY <2>d, <2>1, <2>2
<1> QED BY <1>1, <1>2, CalendarInvariance, PTL

\* A moment after another is in the same week and day or in a later one.
LEMMA DaysAreInOrder ==
    ASSUME NEW first \in Int, NEW c \in Int, NEW d \in Int, c <= d
    PROVE  \/ WeekIndexOf(first, c) < WeekIndexOf(first, d)
           \/ WeekIndexOf(first, c) = WeekIndexOf(first, d) /\ IsoWeekday(c) <= IsoWeekday(d)
<1>1. WeekIndexOf(first, c) <= WeekIndexOf(first, d) BY WeekIndexGrows
<1>2. WeekIndexOf(first, c) \in Int /\ WeekIndexOf(first, d) \in Int BY WeekIndex
<1>3. ASSUME WeekIndexOf(first, c) = WeekIndexOf(first, d)
      PROVE  IsoWeekday(c) <= IsoWeekday(d)
  <2>1. MondayOf(c) = MondayOf(d) BY <1>3, WeekIndex
  <2>2. MondayOf(c) \in Int /\ IsoWeekday(c) \in 1 .. 7 /\ IsoWeekday(d) \in 1 .. 7
    BY DayOfWeek
  <2>3. c = MondayOf(c) + IsoWeekday(c) - 1 /\ d = MondayOf(d) + IsoWeekday(d) - 1
    BY DayOfWeek
  <2>4. IsoWeekday(c) \in Int /\ IsoWeekday(d) \in Int BY <2>2
  <2> QED BY <2>1, <2>2, <2>3, <2>4
<1> QED BY <1>1, <1>2, <1>3

\* Before the term begins nothing is past.
LEMMA NothingPastBeforeTerm ==
    ASSUME CalendarRows, now.date < term.first
    PROVE  Frozen = {}
<1>1. ReferenceSlot(term, grid, now) = [week |-> 0, day |-> Least(grid.days), block |-> 0]
  BY DEF ReferenceSlot
<1> SUFFICES ASSUME NEW slot \in Slots, Earlier(slot, ReferenceSlot(term, grid, now))
             PROVE  FALSE
  BY DEF Frozen
<1>2. /\ slot.week \in Weeks(term) /\ slot.day \in grid.days
      /\ slot.block \in 0 .. (grid.blocks - 1)
  BY DEF Slots
<1>3. grid.days \subseteq 1 .. 7 /\ grid.blocks \in Nat
  BY DEF CalendarRows, IsGrid
<1>4. slot.week >= 0 /\ slot.week \in Int BY <1>2, DatesOfWeek DEF Weeks, CalendarRows
<1>5. slot.block >= 0 /\ slot.block \in Int BY <1>2, <1>3
<1>6. Least(grid.days) <= slot.day
  <2>1. \E x \in grid.days : \A y \in grid.days : x <= y
    <3>1. grid.days \in SUBSET Nat BY <1>3
    <3> QED BY <1>2, <3>1, LeastIn
  <2> QED BY <1>2, <2>1 DEF Least
<1>7. Least(grid.days) \in Int /\ slot.day \in Int
  <2>1. \E x \in grid.days : \A y \in grid.days : x <= y
    <3>1. grid.days \in SUBSET Nat BY <1>3
    <3> QED BY <1>2, <3>1, LeastIn
  <2>2. Least(grid.days) \in grid.days BY <2>1 DEF Least
  <2> QED BY <1>2, <1>3, <2>2
<1> QED BY <1>1, <1>4, <1>5, <1>6, <1>7 DEF Earlier

\* In the term the slots up to the day and the block of the clock are past.
LEMMA ReferenceIsTheClock ==
    ASSUME CalendarRows, ~(now.date < term.first)
    PROVE  /\ ReferenceSlot(term, grid, now).week = WeekIndexOf(term.first, now.date)
           /\ ReferenceSlot(term, grid, now).day = IsoWeekday(now.date)
           /\ ReferenceSlot(term, grid, now).block =
                BlockAtMinute(grid, now.minute, IsoWeekday(now.date))
BY DEF ReferenceSlot

\* What is past has ended: an earlier week or day is an earlier date, and on the
\* day of the clock the blocks before are over.
LEMMA PastHasEnded == CalendarRows => FrozenHasEnded
<1> SUFFICES ASSUME CalendarRows, NEW slot \in Frozen PROVE HasEnded(slot)
  BY DEF FrozenHasEnded
<1>1. ~(now.date < term.first) BY NothingPastBeforeTerm
<1>2. slot \in Slots /\ Earlier(slot, ReferenceSlot(term, grid, now)) BY DEF Frozen
<1>3. /\ slot.week \in Weeks(term) /\ slot.day \in grid.days
      /\ slot.block \in 0 .. (grid.blocks - 1)
  BY <1>2 DEF Slots
<1>4. IsGrid(grid) /\ term.first \in Int /\ now.date \in Int /\ now.minute \in Int
  BY DEF CalendarRows, IsRange
<1>5. slot.week \in Int BY <1>3, DatesOfWeek DEF CalendarRows
<1>6. slot.day \in 1 .. 7 BY <1>3, <1>4 DEF IsGrid
<1>7. PICK m \in Int : m = MondayOf(term.first) BY <1>4, DayOfWeek
<1>8. PICK w \in Int : w = WeekIndexOf(term.first, now.date) BY <1>4, WeekIndex
<1>9. PICK d \in 1 .. 7 : d = IsoWeekday(now.date) BY <1>4, DayOfWeek
<1>10. now.date = m + 7 * w + d - 1
  <2>1. m + 7 * w = MondayOf(now.date) BY <1>4, <1>7, <1>8, WeekIndex
  <2>2. now.date = MondayOf(now.date) + d - 1 BY <1>4, <1>9, DayOfWeek
  <2> QED BY <2>1, <2>2
<1>11. StartsAt(slot).date = m + slot.week * 7 + slot.day - 1
  <2>1. (slot.week + 1) - 1 = slot.week BY <1>5
  <2>2. StartsAt(slot).date = SlotDate(term.first, slot.week + 1, slot.day) BY DEF StartsAt
  <2>3. StartsAt(slot).date = m + ((slot.week + 1) - 1) * 7 + (slot.day - 1)
    BY <1>7, <2>2 DEF SlotDate
  <2>4. StartsAt(slot).date = m + slot.week * 7 + (slot.day - 1) BY <2>1, <2>3
  <2>5. slot.day \in Int BY <1>6
  <2> QED BY <1>5, <2>4, <2>5
<1>12. \/ slot.week < w
       \/ slot.week = w /\ slot.day < d
       \/ slot.week = w /\ slot.day = d /\ slot.block < BlockAtMinute(grid, now.minute, d)
  BY <1>1, <1>2, <1>8, <1>9, ReferenceIsTheClock DEF Earlier
<1>13. CASE slot.week < w
  <2>1. StartsAt(slot).date < now.date
    <3>1. PICK k \in Int : k = slot.week BY <1>5
    <3>2. PICK e \in 1 .. 7 : e = slot.day BY <1>6
    <3>3. k < w BY <1>13, <3>1
    <3>4. m + k * 7 + e - 1 < m + 7 * w + d - 1 BY <3>3
    <3> QED BY <1>10, <1>11, <3>1, <3>2, <3>4
  <2> QED BY <2>1 DEF HasEnded
<1>14. CASE slot.week = w /\ slot.day < d
  <2>1. StartsAt(slot).date < now.date BY <1>6, <1>10, <1>11, <1>14
  <2> QED BY <2>1 DEF HasEnded
<1>15. CASE slot.week = w /\ slot.day = d /\ slot.block < BlockAtMinute(grid, now.minute, d)
  <2>1. StartsAt(slot).date = now.date BY <1>10, <1>11, <1>15
  <2>2. StartsAt(slot).minute = Boundaries(grid, d)[slot.block] BY <1>15 DEF StartsAt
  <2>3. StartsAt(slot).minute + grid.length <= now.minute
    BY <1>3, <1>4, <1>15, <2>2, BlocksBefore
  <2> QED BY <2>1, <2>3 DEF HasEnded
<1> QED BY <1>12, <1>13, <1>14, <1>15

\* The clock never gives back a slot: it moves to a later minute of its day, with
\* no fewer blocks past, or to the day behind it.
LEMMA PastStaysPast ==
    ASSUME CalendarRows, CalendarRows', TimePasses
    PROVE  Frozen \subseteq Frozen'
<1>1. term' = term /\ grid' = grid BY DEF TimePasses
<1>2. IsGrid(grid) /\ term.first \in Int /\ now.date \in Int /\ now.minute \in Int
  BY DEF CalendarRows, IsRange
<1>3. now'.date \in Int /\ now'.minute \in Int BY DEF CalendarRows
<1>4. \/ now'.date = now.date /\ now'.minute > now.minute
      \/ now'.date = now.date + 1
  <2>1. CASE \E m \in Minutes : m > now.minute /\ now' = [now EXCEPT !.minute = m]
    <3>1. PICK m \in Minutes : m > now.minute /\ now' = [now EXCEPT !.minute = m] BY <2>1
    <3>2. now'.date = now.date /\ now'.minute = m BY <3>1 DEF CalendarRows
    <3> QED BY <3>1, <3>2
  <2>2. CASE now' = [date |-> now.date + 1, minute |-> 0] BY <2>2
  <2> QED BY <2>1, <2>2 DEF TimePasses
<1>5. now.date <= now'.date BY <1>2, <1>3, <1>4
<1> SUFFICES ASSUME NEW slot \in Frozen PROVE slot \in Frozen' OBVIOUS
<1>6. ~(now.date < term.first) BY NothingPastBeforeTerm
<1>7. ~(now'.date < term.first) BY <1>2, <1>3, <1>5, <1>6
<1>8. slot \in Slots /\ Earlier(slot, ReferenceSlot(term, grid, now)) BY DEF Frozen
<1>9. Slots' = Slots BY <1>1 DEF Slots
<1> DEFINE w == WeekIndexOf(term.first, now.date)
           v == WeekIndexOf(term.first, now'.date)
           d == IsoWeekday(now.date)
           e == IsoWeekday(now'.date)
           b == BlockAtMinute(grid, now.minute, d)
           c == BlockAtMinute(grid, now'.minute, e)
<1>10. w \in Int /\ v \in Int /\ d \in 1 .. 7 /\ e \in 1 .. 7
  BY <1>2, <1>3, WeekIndex, DayOfWeek
<1>11. b \in Nat /\ c \in Nat
  <2>1. now.minute <= now.minute /\ now'.minute <= now'.minute BY <1>2, <1>3
  <2> QED BY <1>2, <1>3, <2>1, BlocksAccrue
<1>12. v > w \/ (v = w /\ e > d) \/ (v = w /\ e = d /\ c >= b)
  <2>1. w < v \/ (w = v /\ d <= e) BY <1>2, <1>3, <1>5, DaysAreInOrder
  <2>2. ASSUME w = v, d = e PROVE c >= b
    <3>1. now'.date = now.date BY <1>2, <1>3, <2>2, SlotIsDate
    <3>2. now.minute <= now'.minute BY <1>2, <1>3, <1>4, <3>1
    <3>3. b <= BlockAtMinute(grid, now'.minute, d) BY <1>2, <1>3, <3>2, BlocksAccrue
    <3> QED BY <1>11, <2>2, <3>3
  <2> HIDE DEF w, v, d, e, b, c
  <2> QED BY <1>10, <2>1, <2>2
<1>13. \/ slot.week < w \/ (slot.week = w /\ slot.day < d)
       \/ slot.week = w /\ slot.day = d /\ slot.block < b
  BY <1>6, <1>8, ReferenceIsTheClock DEF Earlier
<1>14. slot.week \in Int /\ slot.day \in Int /\ slot.block \in Int
  <2>1. /\ slot.week \in Weeks(term) /\ slot.day \in grid.days
        /\ slot.block \in 0 .. (grid.blocks - 1)
    BY <1>8 DEF Slots
  <2>2. slot.week \in Int BY <2>1, DatesOfWeek DEF CalendarRows
  <2> QED BY <1>2, <2>1, <2>2 DEF IsGrid
<1>15. \/ slot.week < v \/ (slot.week = v /\ slot.day < e)
       \/ slot.week = v /\ slot.day = e /\ slot.block < c
  <2> HIDE DEF w, v, d, e, b, c
  <2> QED BY <1>10, <1>11, <1>12, <1>13, <1>14
<1>16. ReferenceSlot(term, grid, now)' = [week |-> v, day |-> e, block |-> c]
  BY <1>1, <1>7 DEF ReferenceSlot
<1>17. Earlier(slot, ReferenceSlot(term, grid, now)')
  <2> HIDE DEF w, v, d, e, b, c
  <2> QED BY <1>15, <1>16 DEF Earlier
<1> QED BY <1>8, <1>9, <1>17 DEF Frozen

\* The solver is told of time what the calendar and the clock say, for any term,
\* grid, periods and group window: the dates of holidays, the weeks a group is
\* away, only slots that have been taught as past, and those for good
\* (academicCalendar.ts, timeGrid.ts, solverCalendar.ts).
THEOREM CalendarStaysRight == CalendarSpec => CalendarIsRight
<1>1. CalendarRows /\ CalendarRows' /\ [CalendarNext]_calendarVars
        => [term' = term /\ grid' = grid => Frozen \subseteq Frozen']_calendarVars
  <2> SUFFICES ASSUME CalendarRows, CalendarRows', [CalendarNext]_calendarVars
               PROVE  Frozen \subseteq Frozen'
    OBVIOUS
  <2>1. CASE TimePasses BY <2>1, PastStaysPast
  <2>2. ASSUME term' = term, grid' = grid, now' = now PROVE Frozen \subseteq Frozen'
    <3>1. ReferenceSlot(term, grid, now)' = ReferenceSlot(term, grid, now) BY <2>2
    <3>2. Slots' = Slots BY <2>2 DEF Slots
    <3> QED BY <3>1, <3>2 DEF Frozen
  <2>3. ASSUME NEW p \in CalendarPeriods, EnterPeriod(p) \/ RemovePeriod(p)
        PROVE  Frozen \subseteq Frozen'
    BY <2>2, <2>3 DEF EnterPeriod, RemovePeriod
  <2>4. ASSUME NEW x \in GroupWindows \cup {NoWindow}, SetGroupWindow(x)
        PROVE  Frozen \subseteq Frozen'
    BY <2>2, <2>4 DEF SetGroupWindow
  <2>5. CASE UNCHANGED calendarVars BY <2>2, <2>5 DEF calendarVars
  <2> QED BY <2>1, <2>3, <2>4, <2>5 DEF CalendarNext
<1>2. CalendarSpec => FreezingIsFinal
  BY <1>1, CalendarInvariance, PTL DEF CalendarSpec, FreezingIsFinal
<1>3. CalendarSpec => []FrozenHasEnded BY CalendarInvariance, PastHasEnded, PTL
<1>4. CalendarSpec => [](HolidaysAreNoTeaching /\ GroupIsAwayWholeWeeks /\ FrozenHasEnded)
  BY <1>3, CalendarIsTold, PTL
<1> QED BY <1>2, <1>4 DEF CalendarIsRight

-----------------------------------------------------------------------------
(***************************************************************************)
(* Exam requests                                                           *)
(***************************************************************************)
\* What a transaction has read is a request as it was, a placement or a bound.
TxIsMeant(c) ==
    \/ tx[c] = Idle
    \/ /\ tx[c].does = "ask" /\ tx[c].on \in Requests /\ tx[c].saw \in Placements
    \/ /\ tx[c].does \in {"approve", "reject"} /\ tx[c].on \in Requests
       /\ tx[c].saw.at \in Placements /\ tx[c].saw.exam = None
    \/ /\ tx[c].does = "narrow" /\ tx[c].on = None /\ tx[c].saw \in 1 .. MaxBlocks

ExamRows ==
    /\ DOMAIN request = Requests /\ DOMAIN exam = Exams /\ DOMAIN tx = Clerks
    /\ \A c \in Clerks : TxIsMeant(c)

\* A request being asked for has no row, no exam and nobody else at work on it.
AskIsNew == \A c \in Clerks : tx[c].does = "ask" =>
    /\ ~Exists(request[tx[c].on])
    /\ \A e \in Exams : Exists(exam[e]) => exam[e].for # tx[c].on
    /\ \A d \in Clerks \ {c} : tx[d].on # tx[c].on

\* One at a time: what an open transaction has read is still so.
ReadStillHolds == ~together =>
    /\ \A c, d \in Clerks : tx[c] # Idle /\ tx[d] # Idle => c = d
    /\ \A c \in Clerks : tx[c].does = "approve" =>
        /\ FitsGrid(tx[c].saw.at, blocks)
        /\ Exists(request[tx[c].on]) => request[tx[c].on].exam = None
    /\ \A c \in Clerks : tx[c].does = "narrow" =>
        \A e \in Exams : Exists(exam[e]) => FitsGrid(exam[e].at, tx[c].saw)

ExamInv ==
    /\ ExamTypeOK
    /\ ExamRows
    /\ AskIsNew
    /\ ReadStillHolds
    /\ GrantedHasItsExam
    /\ OneExamPerRequest
    /\ ExamsFitTheGrid

\* The rows, one at a time.
LEMMA RowFacts ==
    ASSUME ExamInv
    PROVE  /\ \A r \in Requests : Exists(request[r]) =>
                /\ request[r] \in RequestRow /\ RowIsLegal(request[r])
                /\ request[r].at \in Placements /\ request[r].exam \in Exams \cup {None}
           /\ \A e \in Exams : Exists(exam[e]) =>
                /\ exam[e] \in ExamRow
                /\ exam[e].at \in Placements /\ exam[e].for \in Requests
BY DEF ExamInv, ExamTypeOK, RequestRow, ExamRow, Exists

\* A placement that fits a day fits a longer one.
LEMMA FitsMore ==
    ASSUME NEW p \in Placements, NEW n \in Int, NEW m \in Int, n <= m, FitsGrid(p, n)
    PROVE  FitsGrid(p, m)
<1>1. p.block \in Nat /\ p.length \in Nat BY ExamAssumption
<1>2. p.block + p.length <= n BY DEF FitsGrid
<1> QED BY <1>1, <1>2 DEF FitsGrid

\* Nothing but transactions change, and one of them begins.
LEMMA BeginKeeps ==
    ASSUME ExamInv, NEW c \in Clerks, NEW does, NEW on, NEW saw, Begin(c, does, on, saw),
           UNCHANGED <<blocks, request, exam, together>>, does # "nothing",
           \/ /\ does = "ask" /\ on \in Requests /\ saw \in Placements
              /\ NewRequest(on)
           \/ /\ does \in {"approve", "reject"} /\ on \in Requests /\ Exists(request[on])
              /\ saw = request[on] /\ saw.exam = None
              /\ does = "approve" => FitsGrid(saw.at, blocks)
           \/ /\ does = "narrow" /\ on = None /\ saw \in 1 .. MaxBlocks
              /\ \A e \in Exams : Exists(exam[e]) => FitsGrid(exam[e].at, saw)
    PROVE  ExamInv'
<1> DEFINE x == [does |-> does, on |-> on, saw |-> saw]
<1> USE DEF ExamInv
<1>1. /\ tx' = [tx EXCEPT ![c] = x] /\ tx[c] = Idle
      /\ together \/ \A d \in Clerks : tx[d] = Idle
  BY DEF Begin
<1>2. x.does = does /\ x.on = on /\ x.saw = saw OBVIOUS
<1>3. DOMAIN tx = Clerks BY DEF ExamRows
<1> HIDE DEF x
<1>4. tx'[c] = x /\ \A d \in Clerks \ {c} : tx'[d] = tx[d] BY <1>1, <1>3
<1>5. ExamTypeOK' /\ GrantedHasItsExam' /\ OneExamPerRequest' /\ ExamsFitTheGrid'
  BY DEF ExamTypeOK, GrantedHasItsExam, OneExamPerRequest, ExamsFitTheGrid
<1>6. ExamRows'
  <2>1. TxIsMeant(c)' BY <1>2, <1>4, RowFacts DEF TxIsMeant
  <2>2. \A d \in Clerks \ {c} : TxIsMeant(d)' BY <1>4 DEF ExamRows, TxIsMeant
  <2> QED BY <1>1, <2>1, <2>2 DEF ExamRows
<1>7. AskIsNew'
  <2>1. ASSUME NEW d \in Clerks \ {c}, tx[d].does = "ask" PROVE on # tx[d].on
    <3>1. tx[d].on \in Requests /\ ~Exists(request[tx[d].on])
      BY <2>1 DEF AskIsNew, ExamRows, TxIsMeant, Idle
    <3>2. CASE does = "ask" BY <3>2 DEF NewRequest
    <3>3. CASE does # "ask" BY <3>1, <3>3, ExamAssumption
    <3> QED BY <3>2, <3>3
  <2>2. does = "ask" => /\ ~Exists(request[on])
                        /\ \A e \in Exams : Exists(exam[e]) => exam[e].for # on
                        /\ \A d \in Clerks \ {c} : tx[d].on # on
    BY DEF NewRequest
  <2> QED BY <1>2, <1>4, <2>1, <2>2 DEF AskIsNew
<1>8. ReadStillHolds'
  <2> SUFFICES ASSUME ~together PROVE ReadStillHolds' BY DEF ReadStillHolds
  <2>1. \A d \in Clerks : tx[d] = Idle BY <1>1
  <2>2. \A d \in Clerks \ {c} : tx'[d] = Idle BY <1>4, <2>1
  <2> QED BY <1>2, <1>4, <2>2 DEF ReadStillHolds, Idle
<1> QED BY <1>5, <1>6, <1>7, <1>8

\* A transaction ends, and what the others have read is as it was.
LEMMA EndKeeps ==
    ASSUME ExamInv, NEW c \in Clerks, End(c)
    PROVE  /\ DOMAIN tx' = Clerks
           /\ tx'[c] = Idle /\ \A d \in Clerks \ {c} : tx'[d] = tx[d]
           /\ \A d \in Clerks : TxIsMeant(d)'
<1>1. DOMAIN tx = Clerks BY DEF ExamInv, ExamRows
<1>2. tx'[c] = Idle /\ \A d \in Clerks \ {c} : tx'[d] = tx[d] BY <1>1 DEF End
<1> QED BY <1>1, <1>2 DEF End, ExamInv, ExamRows, TxIsMeant

\* One at a time, the one that ends was the only one.
LEMMA EndIsLast ==
    ASSUME ExamInv, NEW c \in Clerks, End(c), ~together, tx[c] # Idle
    PROVE  \A d \in Clerks : tx'[d] = Idle
BY EndKeeps DEF ExamInv, ReadStillHolds

\* A transaction ends and changes neither requests nor exams, nor the day.
LEMMA AbortKeeps ==
    ASSUME ExamInv, NEW c \in Clerks, Abort(c)
    PROVE  ExamInv'
<1> USE DEF ExamInv
<1>1. End(c) /\ UNCHANGED <<blocks, request, exam, together>> /\ tx[c] # Idle BY DEF Abort
<1>2. ExamTypeOK' /\ GrantedHasItsExam' /\ OneExamPerRequest' /\ ExamsFitTheGrid'
  BY <1>1 DEF ExamTypeOK, GrantedHasItsExam, OneExamPerRequest, ExamsFitTheGrid
<1>3. ExamRows' BY <1>1, EndKeeps DEF ExamRows
<1>4. AskIsNew'
  <2>1. tx'[c].does # "ask" /\ tx'[c].on = None BY <1>1, EndKeeps DEF Idle
  <2>2. ASSUME NEW d \in Clerks, tx'[d].does = "ask"
        PROVE  tx[d].does = "ask" /\ tx'[d].on = tx[d].on /\ tx[d].on # None
    BY <1>1, <2>1, <2>2, EndKeeps, ExamAssumption DEF ExamRows, TxIsMeant, Idle
  <2> QED BY <1>1, <2>1, <2>2, EndKeeps DEF AskIsNew
<1>5. ReadStillHolds' BY <1>1, EndIsLast DEF ReadStillHolds, Idle
<1> QED BY <1>2, <1>3, <1>4, <1>5

\* A new request has no exam, and no exam names it.
LEMMA AskCommitsKeeps ==
    ASSUME ExamInv, NEW c \in Clerks, AskCommits(c)
    PROVE  ExamInv'
<1> USE DEF ExamInv
<1> DEFINE row == [status |-> "PENDING", by |-> None, exam |-> None, at |-> tx[c].saw]
<1>1. /\ tx[c].does = "ask" /\ End(c) /\ UNCHANGED <<blocks, exam, together>>
      /\ request' = [request EXCEPT ![tx[c].on] = row]
  BY DEF AskCommits
<1>2. tx[c] # Idle BY <1>1 DEF Idle
<1>3. PICK r \in Requests : r = tx[c].on BY <1>1 DEF ExamRows, TxIsMeant, Idle
<1>4. tx[c].saw \in Placements BY <1>1 DEF ExamRows, TxIsMeant, Idle
<1>5. row.status = "PENDING" /\ row.exam = None /\ RowIsLegal(row) /\ row \in RequestRow
  BY <1>4 DEF RowIsLegal, RequestRow
<1> HIDE DEF row
<1>6. DOMAIN request' = Requests /\ request'[r] = row
      /\ \A q \in Requests \ {r} : request'[q] = request[q]
  BY <1>1, <1>3 DEF ExamRows
<1>7. \A e \in Exams : Exists(exam[e]) => exam[e].for # r BY <1>1, <1>3 DEF AskIsNew
<1>8. \A d \in Clerks \ {c} : tx[d].on # r BY <1>1, <1>3 DEF AskIsNew
<1>9. ExamTypeOK' BY <1>1, <1>3, <1>5, <1>6 DEF ExamTypeOK
<1>10. GrantedHasItsExam' BY <1>1, <1>5, <1>6 DEF GrantedHasItsExam
<1>11. OneExamPerRequest'
  <2>1. \A e \in Exams : Exists(exam[e]) => exam[e].for \in Requests \ {r}
    BY <1>7, RowFacts
  <2> QED BY <1>1, <1>6, <2>1 DEF OneExamPerRequest
<1>12. ExamsFitTheGrid' BY <1>1 DEF ExamsFitTheGrid
<1>13. ExamRows' BY <1>1, <1>6, EndKeeps DEF ExamRows
<1>14. AskIsNew'
  <2>1. ASSUME NEW d \in Clerks, tx'[d].does = "ask"
        PROVE  /\ d # c /\ tx'[d] = tx[d] /\ tx[d].does = "ask" /\ tx[d].on \in Requests \ {r}
               /\ tx[d].on # None
    BY <1>1, <1>8, <2>1, EndKeeps, ExamAssumption DEF ExamRows, TxIsMeant, Idle
  <2>2. tx'[c].on = None BY <1>1, EndKeeps DEF Idle
  <2> QED BY <1>1, <1>6, <2>1, <2>2, EndKeeps DEF AskIsNew
<1>15. ReadStillHolds' BY <1>1, <1>2, EndIsLast DEF ReadStillHolds, Idle
<1> QED BY <1>9, <1>10, <1>11, <1>12, <1>13, <1>14, <1>15

\* The exam that is made and the request that is granted name each other; one at
\* a time the request was still pending, so that it has no other.
LEMMA ApproveCommitsKeeps ==
    ASSUME ExamInv, NEW c \in Clerks, NEW e \in Exams, ApproveCommits(c, e)
    PROVE  ExamInv'
<1> USE DEF ExamInv
<1>0. PICK r : r = tx[c].on OBVIOUS
<1> DEFINE row == [status |-> "APPROVED", by |-> c, exam |-> e, at |-> tx[c].saw.at]
           made == [at |-> tx[c].saw.at, for |-> r]
<1>1. /\ tx[c].does = "approve" /\ ~Exists(exam[e]) /\ End(c)
      /\ Exists(request[r]) /\ UNCHANGED <<blocks, together>>
      /\ request' = [request EXCEPT ![r] = row]
      /\ exam' = [exam EXCEPT ![e] = made]
  BY <1>0 DEF ApproveCommits
<1>2. tx[c] # Idle /\ r \in Requests /\ tx[c].saw.at \in Placements
  BY <1>0, <1>1 DEF ExamRows, TxIsMeant, Idle
<1>3. /\ row.status = "APPROVED" /\ row.exam = e /\ e # None
      /\ row.at = tx[c].saw.at /\ RowIsLegal(row) /\ row \in RequestRow
  BY <1>2, ExamAssumption DEF RowIsLegal, RequestRow
<1>4. made \in ExamRow /\ made.at = tx[c].saw.at /\ made.for = r
      /\ made = [at |-> row.at, for |-> r]
  BY <1>2 DEF ExamRow
<1>5. Exists(made) BY <1>4, ExamAssumption DEF Exists
<1> HIDE DEF row, made
<1>6. DOMAIN request' = Requests /\ request'[r] = row
      /\ \A q \in Requests \ {r} : request'[q] = request[q]
  BY <1>1, <1>2 DEF ExamRows
<1>7. DOMAIN exam' = Exams /\ exam'[e] = made /\ \A f \in Exams \ {e} : exam'[f] = exam[f]
  BY <1>1 DEF ExamRows
<1>8. ExamTypeOK'
  <2>1. request' \in [Requests -> RequestRow \cup {None}]
    BY <1>1, <1>2, <1>3 DEF ExamTypeOK
  <2>2. exam' \in [Exams -> ExamRow \cup {None}] BY <1>1, <1>4 DEF ExamTypeOK
  <2>3. \A q \in Requests : Exists(request'[q]) => RowIsLegal(request'[q])
    BY <1>3, <1>6 DEF ExamTypeOK
  <2> QED BY <1>1, <2>1, <2>2, <2>3 DEF ExamTypeOK, RowIsLegal
<1>9. GrantedHasItsExam'
  <2>1. ASSUME NEW q \in Requests \ {r}, Exists(request[q]), request[q].status = "APPROVED"
        PROVE  request[q].exam \in Exams \ {e}
    <3>1. Exists(exam[request[q].exam]) BY <2>1 DEF GrantedHasItsExam
    <3>2. request[q].exam \in Exams BY <2>1, RowFacts DEF RowIsLegal
    <3> QED BY <1>1, <3>1, <3>2
  <2>2. \A q \in Requests \ {r} :
           Exists(request'[q]) /\ request'[q].status = "APPROVED" =>
             /\ Exists(exam'[request'[q].exam])
             /\ exam'[request'[q].exam] = [at |-> request'[q].at, for |-> q]
    BY <1>6, <1>7, <2>1 DEF GrantedHasItsExam
  <2>3. Exists(exam'[request'[r].exam])
        /\ exam'[request'[r].exam] = [at |-> request'[r].at, for |-> r]
    BY <1>3, <1>4, <1>5, <1>6, <1>7
  <2> QED BY <2>2, <2>3 DEF GrantedHasItsExam
<1>10. OneExamPerRequest'
  <2> SUFFICES ASSUME ~together PROVE OneExamPerRequest' BY <1>1 DEF OneExamPerRequest
  <2>1. request[r].exam = None BY <1>0, <1>1 DEF ReadStillHolds
  <2>2. ASSUME NEW f \in Exams \ {e}, Exists(exam[f]) PROVE exam[f].for \in Requests \ {r}
    <3>1. exam[f].for \in Requests BY <2>2, RowFacts
    <3>2. exam[f].for # r BY <1>1, <2>1, <2>2, ExamAssumption DEF OneExamPerRequest
    <3> QED BY <3>1, <3>2
  <2>3. \A f \in Exams \ {e} : Exists(exam'[f]) /\ Exists(request'[exam'[f].for])
            => request'[exam'[f].for].exam = f
    BY <1>6, <1>7, <2>2 DEF OneExamPerRequest
  <2> QED BY <1>3, <1>4, <1>6, <1>7, <2>3 DEF OneExamPerRequest
<1>11. ExamsFitTheGrid'
  <2> SUFFICES ASSUME ~together PROVE ExamsFitTheGrid' BY <1>1 DEF ExamsFitTheGrid
  <2>1. FitsGrid(made.at, blocks) BY <1>1, <1>4 DEF ReadStillHolds
  <2> QED BY <1>1, <1>7, <2>1 DEF ExamsFitTheGrid
<1>12. ExamRows' BY <1>1, <1>6, <1>7, EndKeeps DEF ExamRows
<1>13. AskIsNew'
  <2>1. ASSUME NEW d \in Clerks, tx'[d].does = "ask"
        PROVE  /\ d # c /\ tx'[d] = tx[d] /\ tx[d].does = "ask" /\ tx[d].on \in Requests \ {r}
               /\ tx[d].on # None
    <3>1. d # c /\ tx'[d] = tx[d] BY <1>1, <2>1, EndKeeps DEF Idle
    <3>2. tx[d].on # tx[c].on BY <2>1, <3>1 DEF AskIsNew
    <3> QED BY <1>0, <2>1, <3>1, <3>2, ExamAssumption DEF ExamRows, TxIsMeant, Idle
  <2>2. tx'[c].on = None BY <1>1, EndKeeps DEF Idle
  <2> QED BY <1>4, <1>6, <1>7, <2>1, <2>2, EndKeeps, <1>1 DEF AskIsNew
<1>14. ReadStillHolds' BY <1>1, <1>2, EndIsLast DEF ReadStillHolds, Idle
<1> QED BY <1>8, <1>9, <1>10, <1>11, <1>12, <1>13, <1>14

\* A rejection that is legal meets a request without an exam.
LEMMA RejectCommitsKeeps ==
    ASSUME ExamInv, NEW c \in Clerks, RejectCommits(c)
    PROVE  ExamInv'
<1> USE DEF ExamInv
<1>0. PICK r : r = tx[c].on OBVIOUS
<1>1. /\ tx[c].does = "reject" /\ End(c) /\ UNCHANGED <<blocks, exam, together>>
      /\ Exists(request[r]) /\ RowIsLegal(Rejected(request[r], c))
      /\ request' = [request EXCEPT ![r] = Rejected(request[r], c)]
  BY <1>0 DEF RejectCommits
<1>2. tx[c] # Idle /\ r \in Requests BY <1>0, <1>1 DEF ExamRows, TxIsMeant, Idle
<1>3. PICK row : row = Rejected(request[r], c) OBVIOUS
<1>4. /\ row.status = "REJECTED" /\ row.exam = request[r].exam /\ row.exam = None
      /\ row \in RequestRow
  BY <1>1, <1>2, <1>3, RowFacts DEF Rejected, RowIsLegal, RequestRow
<1>6. DOMAIN request' = Requests /\ request'[r] = row
      /\ \A q \in Requests \ {r} : request'[q] = request[q]
  BY <1>1, <1>2, <1>3 DEF ExamRows
<1>7. ExamTypeOK' BY <1>1, <1>2, <1>3, <1>4, <1>6 DEF ExamTypeOK
<1>8. GrantedHasItsExam' BY <1>1, <1>4, <1>6 DEF GrantedHasItsExam
<1>9. OneExamPerRequest'
  <2>1. \A e \in Exams : Exists(exam[e]) => exam[e].for \in Requests BY RowFacts
  <2> QED BY <1>1, <1>4, <1>6, <2>1 DEF OneExamPerRequest
<1>10. ExamsFitTheGrid' BY <1>1 DEF ExamsFitTheGrid
<1>11. ExamRows' BY <1>1, <1>6, EndKeeps DEF ExamRows
<1>12. AskIsNew'
  <2>1. ASSUME NEW d \in Clerks, tx'[d].does = "ask"
        PROVE  /\ d # c /\ tx'[d] = tx[d] /\ tx[d].does = "ask" /\ tx[d].on \in Requests \ {r}
               /\ tx[d].on # None
    <3>1. d # c /\ tx'[d] = tx[d] BY <1>1, <2>1, EndKeeps DEF Idle
    <3>2. tx[d].on # tx[c].on BY <2>1, <3>1 DEF AskIsNew
    <3> QED BY <1>0, <2>1, <3>1, <3>2, ExamAssumption DEF ExamRows, TxIsMeant, Idle
  <2>2. tx'[c].on = None BY <1>1, EndKeeps DEF Idle
  <2> QED BY <1>1, <1>6, <2>1, <2>2, EndKeeps DEF AskIsNew
<1>13. ReadStillHolds' BY <1>1, <1>2, EndIsLast DEF ReadStillHolds, Idle
<1> QED BY <1>7, <1>8, <1>9, <1>10, <1>11, <1>12, <1>13

\* The day becomes what was read, and one at a time no exam came in between.
LEMMA NarrowCommitsKeeps ==
    ASSUME ExamInv, NEW c \in Clerks, NarrowCommits(c)
    PROVE  ExamInv'
<1> USE DEF ExamInv
<1>1. /\ tx[c].does = "narrow" /\ End(c) /\ blocks' = tx[c].saw
      /\ UNCHANGED <<request, exam, together>>
  BY DEF NarrowCommits
<1>2. tx[c] # Idle /\ tx[c].saw \in 1 .. MaxBlocks BY <1>1 DEF ExamRows, TxIsMeant, Idle
<1>3. ExamTypeOK' BY <1>1, <1>2 DEF ExamTypeOK
<1>4. GrantedHasItsExam' /\ OneExamPerRequest' BY <1>1 DEF GrantedHasItsExam, OneExamPerRequest
<1>5. ExamsFitTheGrid' BY <1>1 DEF ExamsFitTheGrid, ReadStillHolds
<1>6. ExamRows' BY <1>1, EndKeeps DEF ExamRows
<1>7. AskIsNew'
  <2>1. ASSUME NEW d \in Clerks, tx'[d].does = "ask"
        PROVE  /\ d # c /\ tx'[d] = tx[d] /\ tx[d].does = "ask" /\ tx[d].on # None
    <3>1. d # c /\ tx'[d] = tx[d] BY <1>1, <2>1, EndKeeps DEF Idle
    <3> QED BY <2>1, <3>1, ExamAssumption DEF ExamRows, TxIsMeant, Idle
  <2>2. tx'[c].on = None BY <1>1, EndKeeps DEF Idle
  <2> QED BY <1>1, <2>1, <2>2, EndKeeps DEF AskIsNew
<1>8. ReadStillHolds' BY <1>1, <1>2, EndIsLast DEF ReadStillHolds, Idle
<1> QED BY <1>3, <1>4, <1>5, <1>6, <1>7, <1>8

\* A row that vanishes is none that another row names.
LEMMA DeletionsKeep ==
    ASSUME ExamInv, (\E r \in Requests : OfferingIsDeleted(r)) \/ (\E e \in Exams : DeleteExam(e))
    PROVE  ExamInv'
<1> USE DEF ExamInv
<1>a. \A d \in Clerks : tx[d].does \in {"approve", "ask"} => tx[d].on \in Requests
  BY DEF ExamRows, TxIsMeant, Idle
<1>1. ASSUME NEW r \in Requests, OfferingIsDeleted(r) PROVE ExamInv'
  <2>1. request' = [request EXCEPT ![r] = None] /\ UNCHANGED <<blocks, exam, tx, together>>
    BY <1>1 DEF OfferingIsDeleted
  <2>2. DOMAIN request' = Requests /\ \A q \in Requests :
            request'[q] = request[q] \/ ~Exists(request'[q])
    BY <2>1 DEF ExamRows, Exists
  <2>3. ExamTypeOK' /\ GrantedHasItsExam' /\ ExamsFitTheGrid'
    BY <2>1, <2>2 DEF ExamTypeOK, GrantedHasItsExam, ExamsFitTheGrid
  <2>4. ExamRows' BY <2>1, <2>2 DEF ExamRows, TxIsMeant
  <2>5. OneExamPerRequest' BY <2>1, <2>2, RowFacts DEF OneExamPerRequest
  <2>6. AskIsNew' BY <1>a, <2>1, <2>2 DEF AskIsNew
  <2>7. ReadStillHolds' BY <1>a, <2>1, <2>2 DEF ReadStillHolds
  <2> QED BY <2>3, <2>4, <2>5, <2>6, <2>7
<1>2. ASSUME NEW e \in Exams, DeleteExam(e) PROVE ExamInv'
  <2>0. PICK detached : detached = [r \in Requests |->
                          IF Exists(request[r]) /\ request[r].exam = e
                          THEN Detached(request[r]) ELSE request[r]]
    OBVIOUS
  <2>1. /\ Exists(exam[e]) /\ request' = detached
        /\ \A r \in Requests : Exists(detached[r]) => RowIsLegal(detached[r])
        /\ exam' = [exam EXCEPT ![e] = None] /\ UNCHANGED <<blocks, tx, together>>
    BY <1>2, <2>0 DEF DeleteExam
  <2>2. ASSUME NEW r \in Requests, Exists(request[r]) PROVE request[r].exam # e
    <3> SUFFICES ASSUME request[r].exam = e PROVE FALSE OBVIOUS
    <3>1. request[r].status = "APPROVED" /\ request[r] \in RequestRow
      BY <2>2, RowFacts, ExamAssumption DEF RowIsLegal
    <3>2. detached[r] = Detached(request[r]) BY <2>0, <2>2
    <3>3. /\ Detached(request[r]).status = "APPROVED" /\ Detached(request[r]).exam = None
          /\ Detached(request[r]) \in RequestRow
      BY <3>1 DEF Detached, RequestRow
    <3>4. Exists(detached[r]) BY <3>2, <3>3, ExamAssumption DEF Exists
    <3> QED BY <2>1, <3>2, <3>3, <3>4 DEF RowIsLegal
  <2>3. request' = request
    <3>1. DOMAIN request = Requests /\ request = [r \in Requests |-> request[r]]
      BY DEF ExamTypeOK
    <3>2. \A r \in Requests : detached[r] = request[r] BY <2>0, <2>2
    <3>3. detached = [r \in Requests |-> detached[r]] BY <2>0
    <3> QED BY <2>1, <3>1, <3>2, <3>3
  <2>4. DOMAIN exam' = Exams /\ ~Exists(exam'[e])
        /\ \A f \in Exams \ {e} : exam'[f] = exam[f]
    BY <2>1 DEF ExamRows, Exists
  <2>5. ExamTypeOK' BY <2>1, <2>3 DEF ExamTypeOK
  <2>6. GrantedHasItsExam'
    <3>1. \A r \in Requests : Exists(request[r]) /\ request[r].status = "APPROVED"
            => request[r].exam \in Exams \ {e}
      BY <2>2, RowFacts DEF RowIsLegal
    <3> QED BY <2>3, <2>4, <3>1 DEF GrantedHasItsExam
  <2>7. OneExamPerRequest' /\ ExamsFitTheGrid'
    BY <2>1, <2>3, <2>4 DEF OneExamPerRequest, ExamsFitTheGrid
  <2>8. ExamRows' BY <2>1, <2>3, <2>4 DEF ExamRows, TxIsMeant
  <2>9. AskIsNew' BY <2>1, <2>3, <2>4 DEF AskIsNew
  <2>10. ReadStillHolds' BY <2>1, <2>3, <2>4 DEF ReadStillHolds
  <2> QED BY <2>5, <2>6, <2>7, <2>8, <2>9, <2>10
<1> QED BY <1>1, <1>2

\* What fits a day fits a longer one.
LEMMA WidenKeeps ==
    ASSUME ExamInv, NEW bound \in 1 .. MaxBlocks, Widen(bound)
    PROVE  ExamInv'
<1> USE DEF ExamInv
<1>1. blocks < bound /\ blocks' = bound /\ UNCHANGED <<request, exam, tx, together>>
  BY DEF Widen
<1>2. blocks \in Int /\ bound \in Int /\ blocks <= bound BY <1>1 DEF ExamTypeOK
<1>3. \A p \in Placements : FitsGrid(p, blocks) => FitsGrid(p, bound) BY <1>2, FitsMore
<1>4. ExamTypeOK' /\ GrantedHasItsExam' /\ OneExamPerRequest' /\ AskIsNew'
  BY <1>1 DEF ExamTypeOK, GrantedHasItsExam, OneExamPerRequest, AskIsNew
<1>5. ExamsFitTheGrid' BY <1>1, <1>3, RowFacts DEF ExamsFitTheGrid
<1>6. ExamRows' BY <1>1 DEF ExamRows, TxIsMeant
<1>7. ReadStillHolds'
  <2>1. \A c \in Clerks : tx[c].does = "approve" => tx[c].saw.at \in Placements
    BY DEF ExamRows, TxIsMeant, Idle
  <2> QED BY <1>1, <1>3, <2>1 DEF ReadStillHolds
<1> QED BY <1>4, <1>5, <1>6, <1>7

\* Every first half of a transaction reads what BeginKeeps asks for.
LEMMA ReadsKeep ==
    ASSUME ExamInv, NEW c \in Clerks,
           \/ \E r \in Requests :
                \/ \E placement \in Placements : AskReads(c, r, placement)
                \/ ApproveReads(c, r) \/ RejectReads(c, r)
           \/ \E bound \in 1 .. MaxBlocks : NarrowReads(c, bound)
    PROVE  ExamInv'
<1>1. ASSUME NEW r \in Requests, NEW p \in Placements, AskReads(c, r, p) PROVE ExamInv'
  BY <1>1, BeginKeeps DEF AskReads
<1>2. ASSUME NEW r \in Requests, ApproveReads(c, r) \/ RejectReads(c, r) PROVE ExamInv'
  <2>1. Exists(request[r]) /\ request[r].status = "PENDING"
    BY <1>2 DEF ApproveReads, RejectReads
  <2>2. request[r].exam = None BY <2>1, RowFacts DEF RowIsLegal
  <2>3. CASE ApproveReads(c, r) BY <2>1, <2>2, <2>3, BeginKeeps DEF ApproveReads
  <2>4. CASE RejectReads(c, r) BY <2>1, <2>2, <2>4, BeginKeeps DEF RejectReads
  <2> QED BY <1>2, <2>3, <2>4
<1>3. ASSUME NEW bound \in 1 .. MaxBlocks, NarrowReads(c, bound) PROVE ExamInv'
  BY <1>3, BeginKeeps DEF NarrowReads
<1> QED BY <1>1, <1>2, <1>3

\* The invariant of exam requests, whatever clerks and lecturers do.
THEOREM ExamsInvariance == ExamSpec => []ExamInv
<1>1. ExamInit => ExamInv
  <2> SUFFICES ASSUME ExamInit PROVE ExamInv OBVIOUS
  <2> USE DEF ExamInit
  <2>1. ExamTypeOK BY ExamAssumption DEF ExamTypeOK, Exists
  <2>2. ExamRows BY DEF ExamRows, TxIsMeant
  <2>3. AskIsNew /\ ReadStillHolds BY DEF AskIsNew, ReadStillHolds, Idle
  <2>4. GrantedHasItsExam /\ OneExamPerRequest /\ ExamsFitTheGrid
    BY DEF GrantedHasItsExam, OneExamPerRequest, ExamsFitTheGrid, Exists
  <2> QED BY <2>1, <2>2, <2>3, <2>4 DEF ExamInv
<1>2. ExamInv /\ [ExamNext]_examVars => ExamInv'
  <2> SUFFICES ASSUME ExamInv, [ExamNext]_examVars PROVE ExamInv' OBVIOUS
  <2>1. CASE UNCHANGED examVars
    BY <2>1 DEF examVars, ExamInv, ExamTypeOK, ExamRows, TxIsMeant, AskIsNew, ReadStillHolds,
       GrantedHasItsExam, OneExamPerRequest, ExamsFitTheGrid
  <2>2. CASE ExamNext
    BY <2>2, ReadsKeep, AskCommitsKeeps, ApproveCommitsKeeps, RejectCommitsKeeps,
       NarrowCommitsKeeps, AbortKeeps, DeletionsKeep, WidenKeeps DEF ExamNext
  <2> QED BY <2>1, <2>2
<1> QED BY <1>1, <1>2, PTL DEF ExamSpec

\* Rows of exam_request are legal in every state, and exams and the day are of
\* their types (the CHECKs of exam_request, approve.post.ts, reject.post.ts).
THEOREM ExamsTyped == ExamSpec => []ExamTypeOK
BY ExamsInvariance, PTL DEF ExamInv

\* A granted request names an exam that was made for it, overlapping or not; one
\* request at a time, no request has two exams and every exam fits the day
\* (approve.post.ts, resources.ts), for any number of requests and clerks.
THEOREM ExamsStayInOrder == ExamSpec => []ExamsAreInOrder
BY ExamsInvariance, PTL DEF ExamInv, ExamsAreInOrder

\* No late rejection takes a granted exam back, overlapping or not (reject.post.ts
\* and the CHECK that refuses its row).
THEOREM GrantsAreFinal == ExamSpec => GrantIsFinal
<1>1. ExamInv /\ [ExamNext]_examVars =>
        \A r \in Requests :
          Exists(request[r]) /\ request[r].status = "APPROVED" /\ Exists(request'[r])
            => request'[r].status = "APPROVED"
  <2> SUFFICES ASSUME ExamInv, [ExamNext]_examVars, NEW r \in Requests,
                      Exists(request[r]), request[r].status = "APPROVED", Exists(request'[r])
               PROVE  request'[r].status = "APPROVED"
    OBVIOUS
  <2>1. DOMAIN request = Requests BY DEF ExamInv, ExamRows
  <2>2. ASSUME NEW c \in Clerks, AskCommits(c) PROVE request'[r] = request[r]
    <3>1. r # tx[c].on BY <2>2 DEF AskCommits, ExamInv, AskIsNew
    <3> QED BY <2>1, <2>2, <3>1 DEF AskCommits
  <2>3. ASSUME NEW c \in Clerks, NEW e \in Exams, ApproveCommits(c, e)
        PROVE  request'[r].status = "APPROVED"
    BY <2>1, <2>3 DEF ApproveCommits
  <2>4. ASSUME NEW c \in Clerks, RejectCommits(c) PROVE request'[r] = request[r]
    <3>1. request[r].exam # None BY RowFacts DEF RowIsLegal
    <3>2. r # tx[c].on BY <2>4, <3>1 DEF RejectCommits, Rejected, RowIsLegal
    <3> QED BY <2>1, <2>4, <3>2 DEF RejectCommits
  <2>5. ASSUME NEW e \in Exams, DeleteExam(e) PROVE request'[r].status = "APPROVED"
    BY <2>5, <2>1 DEF DeleteExam, Detached
  <2>6. ASSUME NEW q \in Requests, OfferingIsDeleted(q) PROVE request'[r] = request[r]
    BY <2>1, <2>6 DEF OfferingIsDeleted, Exists
  <2>7. CASE request' = request BY <2>7
  <2>8. (\A c \in Clerks :
            /\ ~AskCommits(c) /\ ~RejectCommits(c)
            /\ \A e \in Exams : ~ApproveCommits(c, e))
        /\ (\A e \in Exams : ~DeleteExam(e)) /\ (\A q \in Requests : ~OfferingIsDeleted(q))
        => request' = request
    BY DEF ExamNext, examVars, AskReads, ApproveReads, RejectReads, NarrowReads, NarrowCommits,
       Abort, Widen
  <2> QED BY <2>2, <2>3, <2>4, <2>5, <2>6, <2>7, <2>8
<1> QED BY <1>1, ExamsInvariance, PTL DEF ExamSpec, GrantIsFinal

-----------------------------------------------------------------------------
(***************************************************************************)
(* The cache: types                                                        *)
(***************************************************************************)
\* The open edits that change a term.
OpenOn(t) == {f \in Editors : t \in edit[f].changes}

\* The bound counts the versions that open edits may still commit.
VersionsFit == \A t \in Terms : schedule[t] + Cardinality(OpenOn(t)) <= MaxVersion

FetchedIsAnswer == \A r \in Readers : reader[r].pc = "fetched" => reader[r].answer \in Answers

\* What is being unlinked was found by a drop that is still there.
UnlinkingHasDrop == \A e \in Editors : edit[e].pc = "unlinking" => edit[e].drops # <<>>

CacheTypes == TypeOK /\ VersionsFit /\ FetchedIsAnswer /\ UnlinkingHasDrop

\* What the database answers is an answer.
LEMMA CurrentIsAnswer ==
    ASSUME schedule \in [Terms -> 0..MaxVersion], NEW b \in Buckets
    PROVE  Current(b) \in Answers
<1>1. Covers(b) \subseteq Terms BY DEF Covers, Buckets
<1>2. Current(b) \in [Covers(b) -> 0..MaxVersion] BY <1>1 DEF Current
<1> QED BY <1>2 DEF Answers

\* Every kind of edit changes terms and drops buckets.
LEMMA DropsAreBuckets ==
    ASSUME NEW x \in Effects
    PROVE  Drops(x.scope) \in Seq(SUBSET Buckets) /\ x.changes \subseteq Terms
<1>1. x.scope \in Terms \/ x.scope = None BY DEF Effects
<1>2. x.changes \subseteq Terms BY DEF Effects
<1>3. CASE x.scope = None
  <2>1. <<Buckets>> \in Seq(SUBSET Buckets) OBVIOUS
  <2> QED BY <1>2, <1>3, <2>1 DEF Drops
<1>4. CASE x.scope \in Terms /\ x.scope # None
  <2>1. {x.scope} \in SUBSET Buckets /\ {All} \in SUBSET Buckets BY <1>4 DEF Buckets
  <2>2. <<{x.scope}, {All}>> \in Seq(SUBSET Buckets) BY <2>1
  <2> QED BY <1>2, <1>4, <2>2 DEF Drops
<1> QED BY <1>1, <1>3, <1>4

\* The steps of a request, whatever Redis does.
LEMMA ReaderTypes ==
    ASSUME CacheAssumption, CacheTypes, NEW r \in Readers,
           (\E b \in Buckets : Ask(r, b)) \/ Look(r) \/ Fetch(r) \/ Store(r) \/ ReadFails(r)
    PROVE  CacheTypes'
<1> DEFINE R == [pc: {"idle", "asked", "missed", "fetched", "answered"}, bucket: Buckets,
                 available: BOOLEAN, answer: Answers \cup {None}, since: Answers \cup {None}]
<1>1. schedule' = schedule /\ redis' = redis /\ edit' = edit
  BY DEF Ask, Look, Fetch, Store, ReadFails
<1>2. VersionsFit' BY <1>1 DEF CacheTypes, VersionsFit, OpenOn
<1>3. schedule \in [Terms -> 0..MaxVersion] /\ reader \in [Readers -> R] /\ redis \in BOOLEAN
      /\ cache \in [Buckets -> Entry \cup {None}]
  BY DEF CacheTypes, TypeOK
<1>4. reader[r] \in R /\ reader[r].bucket \in Buckets BY <1>3
<1>5. NoRead \in R BY DEF NoRead, Buckets
<1>6. PICK c \in Answers : c = Current(reader[r].bucket) BY <1>3, <1>4, CurrentIsAnswer
<1>7. /\ cache' \in [Buckets -> Entry \cup {None}]
      /\ \E x \in R : /\ reader' = [reader EXCEPT ![r] = x]
                      /\ x.pc = "fetched" => x.answer \in Answers
  <2>1. ASSUME NEW b \in Buckets, Ask(r, b) PROVE <1>7
    <3>1. PICK s \in Answers : s = Current(b) BY <1>3, CurrentIsAnswer
    <3> DEFINE x == [NoRead EXCEPT !.pc = "asked", !.bucket = b, !.since = s]
    <3>2. cache' = cache /\ reader' = [reader EXCEPT ![r] = x] BY <2>1, <3>1 DEF Ask
    <3>3. x \in R /\ x.pc = "asked" BY <1>5
    <3> HIDE DEF x
    <3> QED BY <1>3, <3>2, <3>3
  <2>2. CASE Look(r)
    <3> DEFINE b == reader[r].bucket
               x == IF redis /\ cache[b] # None
                    THEN [reader[r] EXCEPT !.pc = "answered", !.answer = cache[b].answer]
                    ELSE [reader[r] EXCEPT !.pc = "missed", !.available = redis]
    <3>1. cache' = cache /\ reader' = [reader EXCEPT ![r] = x] BY <2>2 DEF Look, Answer
    <3>2. cache[b] # None => cache[b].answer \in Answers BY <1>3, <1>4 DEF Entry
    <3>3. x \in R /\ x.pc # "fetched" BY <1>3, <1>4, <3>2
    <3> HIDE DEF x
    <3> QED BY <1>3, <3>1, <3>3
  <2>3. CASE Fetch(r)
    <3> DEFINE x == [reader[r] EXCEPT !.pc = "fetched", !.answer = c]
    <3>1. cache' = cache /\ reader' = [reader EXCEPT ![r] = x] BY <1>6, <2>3 DEF Fetch
    <3>2. x \in R /\ x.answer = c BY <1>4
    <3> HIDE DEF x
    <3> QED BY <1>3, <3>1, <3>2
  <2>4. CASE Store(r)
    <3> DEFINE x == [reader[r] EXCEPT !.pc = "answered", !.answer = reader[r].answer]
               y == [answer |-> reader[r].answer, expires |-> TRUE]
    <3>1. reader[r].answer \in Answers BY <2>4 DEF Store, CacheTypes, FetchedIsAnswer
    <3>2. y \in Entry BY <3>1 DEF Entry
    <3>3. cache' = cache \/ cache' = [cache EXCEPT ![reader[r].bucket] = y] BY <2>4 DEF Store
    <3>4. reader' = [reader EXCEPT ![r] = x] BY <2>4 DEF Store, Answer
    <3>5. x \in R /\ x.pc = "answered" BY <1>4
    <3> HIDE DEF x, y
    <3>6. cache' \in [Buckets -> Entry \cup {None}] BY <1>3, <1>4, <3>2, <3>3
    <3>7. x.pc = "fetched" => x.answer \in Answers BY <3>5
    <3> QED BY <3>4, <3>5, <3>6, <3>7
  <2>5. CASE ReadFails(r)
    <3>1. cache' = cache /\ reader' = [reader EXCEPT ![r] = NoRead] BY <2>5 DEF ReadFails
    <3>2. NoRead.pc = "idle" BY DEF NoRead
    <3> QED BY <1>3, <1>5, <3>1, <3>2
  <2> QED BY <2>1, <2>2, <2>3, <2>4, <2>5
<1>8. FetchedIsAnswer' BY <1>3, <1>7 DEF CacheTypes, FetchedIsAnswer
<1>9. TypeOK' BY <1>1, <1>3, <1>7 DEF CacheTypes, TypeOK
<1>10. UnlinkingHasDrop' BY <1>1 DEF CacheTypes, UnlinkingHasDrop
<1> QED BY <1>2, <1>8, <1>9, <1>10 DEF CacheTypes

\* An edit that closes makes room for one version, and no other is affected.
LEMMA ClosingMakesRoom ==
    ASSUME CacheAssumption, CacheTypes, NEW e \in Editors, edit' = [edit EXCEPT ![e] = NoEdit],
           NEW t \in Terms
    PROVE  Cardinality(OpenOn(t)') \in Nat
           /\ Cardinality(OpenOn(t)') + (IF t \in edit[e].changes THEN 1 ELSE 0)
                = Cardinality(OpenOn(t))
<1>1. DOMAIN edit = Editors BY DEF CacheTypes, TypeOK
<1>2. OpenOn(t)' = OpenOn(t) \ {e} BY <1>1 DEF OpenOn, NoEdit
<1>3. IsFiniteSet(OpenOn(t)) BY FS_Subset DEF OpenOn, CacheAssumption
<1>4. e \in OpenOn(t) <=> t \in edit[e].changes BY DEF OpenOn
<1>5. /\ IsFiniteSet(OpenOn(t) \ {e})
      /\ Cardinality(OpenOn(t) \ {e}) =
            IF e \in OpenOn(t) THEN Cardinality(OpenOn(t)) - 1 ELSE Cardinality(OpenOn(t))
  BY <1>3, FS_RemoveElement
<1>6. Cardinality(OpenOn(t)) \in Nat /\ Cardinality(OpenOn(t) \ {e}) \in Nat
  BY <1>3, <1>5, FS_CardinalityType
<1> QED BY <1>2, <1>4, <1>5, <1>6

\* The steps of a transaction, of every kind.
LEMMA EditorTypes ==
    ASSUME CacheAssumption, CacheTypes, NEW e \in Editors,
           Edit(e) \/ Scan(e) \/ Unlink(e) \/ Commit(e) \/ Rollback(e)
    PROVE  CacheTypes'
<1>0. reader' = reader /\ redis' = redis BY DEF Edit, Scan, Unlink, Commit, Rollback
<1>a. FetchedIsAnswer' BY <1>0 DEF CacheTypes, FetchedIsAnswer
<1>b. DOMAIN edit = Editors BY DEF CacheTypes, TypeOK
<1>c. schedule \in [Terms -> 0..MaxVersion] /\ cache \in [Buckets -> Entry \cup {None}]
      /\ MaxVersion \in Nat
  BY DEF CacheTypes, TypeOK, CacheAssumption
\* Only this edit changes, and it changes no more terms than before.
<1>d. ASSUME NEW x, edit' = [edit EXCEPT ![e] = x], x.changes = edit[e].changes,
             x.pc \in {"idle", "open", "unlinking"},
             x.drops \in Seq(SUBSET Buckets), x.found \subseteq Buckets,
             x.pc = "unlinking" => x.drops # <<>>,
             schedule' = schedule, cache' \in [Buckets -> Entry \cup {None}]
      PROVE  CacheTypes'
  <2>1. edit'[e] = x /\ \A f \in Editors \ {e} : edit'[f] = edit[f] BY <1>b, <1>d
  <2>2. \A t \in Terms : OpenOn(t)' = OpenOn(t) BY <1>d, <2>1 DEF OpenOn
  <2>3. VersionsFit' BY <1>d, <2>2 DEF CacheTypes, VersionsFit
  <2>4. TypeOK' BY <1>0, <1>b, <1>d, <2>1 DEF CacheTypes, TypeOK
  <2>5. UnlinkingHasDrop' BY <2>1, <1>d DEF CacheTypes, UnlinkingHasDrop
  <2> QED BY <1>a, <2>3, <2>4, <2>5 DEF CacheTypes
<1>e. /\ edit[e].pc \in {"idle", "open", "unlinking"} /\ edit[e].drops \in Seq(SUBSET Buckets)
      /\ edit[e].found \subseteq Buckets
  BY DEF CacheTypes, TypeOK
<1>1. CASE Edit(e)
  <2>1. PICK effect \in Effects :
        /\ \A t \in effect.changes :
             schedule[t] + Cardinality({f \in Editors : t \in edit[f].changes}) < MaxVersion
        /\ edit' = [edit EXCEPT ![e] =
             [pc |-> "open", changes |-> effect.changes, drops |-> Drops(effect.scope),
              found |-> {}]]
    BY <1>1 DEF Edit
  <2> DEFINE x == [pc |-> "open", changes |-> effect.changes, drops |-> Drops(effect.scope),
                   found |-> {}]
  <2>2. /\ x.changes = effect.changes /\ x.pc = "open" /\ x.found = {}
        /\ x.changes \subseteq Terms /\ x.drops \in Seq(SUBSET Buckets)
    BY DropsAreBuckets
  <2>3. edit' = [edit EXCEPT ![e] = x] /\ schedule' = schedule /\ cache' = cache
    BY <1>1, <2>1 DEF Edit
  <2> HIDE DEF x
  <2>4. edit'[e] = x /\ \A f \in Editors \ {e} : edit'[f] = edit[f] BY <1>b, <2>3
  <2>5. TypeOK' BY <1>0, <1>b, <2>2, <2>3, <2>4 DEF CacheTypes, TypeOK
  <2>6. ASSUME NEW t \in Terms PROVE schedule[t] + Cardinality(OpenOn(t)') <= MaxVersion
    <3>1. IsFiniteSet(OpenOn(t)) BY FS_Subset DEF OpenOn, CacheAssumption
    <3>2. Cardinality(OpenOn(t)) \in Nat /\ schedule[t] \in Nat
      BY <1>c, <3>1, FS_CardinalityType
    <3>3. CASE t \in x.changes
      <4>1. OpenOn(t)' = OpenOn(t) \cup {e} BY <2>4, <3>3 DEF OpenOn
      <4>2. Cardinality(OpenOn(t) \cup {e}) \in {Cardinality(OpenOn(t)), Cardinality(OpenOn(t)) + 1}
        BY <3>1, FS_AddElement
      <4>3. schedule[t] + Cardinality(OpenOn(t)) < MaxVersion
        BY <2>1, <2>2, <3>3 DEF OpenOn
      <4> QED BY <1>c, <3>2, <4>1, <4>2, <4>3
    <3>4. CASE t \notin x.changes
      <4>1. OpenOn(t)' \subseteq OpenOn(t) BY <2>4, <3>4 DEF OpenOn
      <4>2. Cardinality(OpenOn(t)') <= Cardinality(OpenOn(t)) /\ IsFiniteSet(OpenOn(t)')
        BY <3>1, <4>1, FS_Subset
      <4>3. Cardinality(OpenOn(t)') \in Nat BY <4>2, FS_CardinalityType
      <4>4. schedule[t] + Cardinality(OpenOn(t)) <= MaxVersion BY DEF CacheTypes, VersionsFit
      <4> QED BY <1>c, <3>2, <4>2, <4>3, <4>4
    <3> QED BY <3>3, <3>4
  <2>7. VersionsFit' BY <2>3, <2>6 DEF VersionsFit
  <2>8. UnlinkingHasDrop' BY <2>2, <2>4 DEF CacheTypes, UnlinkingHasDrop
  <2> QED BY <1>a, <2>5, <2>7, <2>8 DEF CacheTypes
<1>2. CASE Scan(e)
  <2>1. edit[e].drops # <<>> /\ schedule' = schedule /\ cache' = cache BY <1>2 DEF Scan
  <2>2. Head(edit[e].drops) \subseteq Buckets /\ Tail(edit[e].drops) \in Seq(SUBSET Buckets)
    BY <1>e, <2>1
  <2> DEFINE x == IF redis
                  THEN [edit[e] EXCEPT !.pc = "unlinking",
                          !.found = {b \in Head(edit[e].drops) : cache[b] # None}]
                  ELSE [edit[e] EXCEPT !.drops = Tail(edit[e].drops)]
  <2>3. edit' = [edit EXCEPT ![e] = x]
    <3>1. CASE redis BY <1>2, <3>1 DEF Scan
    <3>2. CASE ~redis BY <1>2, <3>2 DEF Scan
    <3> QED BY <3>1, <3>2
  <2>4. /\ x.changes = edit[e].changes /\ x.pc \in {"idle", "open", "unlinking"}
        /\ x.drops \in Seq(SUBSET Buckets) /\ x.found \subseteq Buckets
        /\ x.pc = "unlinking" => x.drops # <<>>
    BY <1>2, <1>e, <2>1, <2>2 DEF Scan
  <2> HIDE DEF x
  <2> QED BY <1>c, <1>d, <2>1, <2>3, <2>4
<1>3. CASE Unlink(e)
  <2> DEFINE x == [edit[e] EXCEPT !.pc = "open", !.drops = Tail(edit[e].drops), !.found = {}]
  <2>1. edit' = [edit EXCEPT ![e] = x] /\ schedule' = schedule BY <1>3 DEF Unlink
  <2>2. cache' \in [Buckets -> Entry \cup {None}] BY <1>3, <1>c DEF Unlink
  <2>3. x.changes = edit[e].changes /\ x.pc = "open" /\ x.found = {}
        /\ x.drops = Tail(edit[e].drops)
    OBVIOUS
  <2>4. Tail(edit[e].drops) \in Seq(SUBSET Buckets)
    <3>1. edit[e].drops # <<>> BY <1>3 DEF Unlink, CacheTypes, UnlinkingHasDrop
    <3> QED BY <1>e, <3>1
  <2> HIDE DEF x
  <2> QED BY <1>d, <2>1, <2>2, <2>3, <2>4
<1>4. CASE Commit(e) \/ Rollback(e)
  <2>1. /\ edit' = [edit EXCEPT ![e] = NoEdit] /\ cache' = cache
        /\ \/ schedule' = schedule
           \/ schedule' = [t \in Terms |-> IF t \in edit[e].changes THEN schedule[t] + 1
                                         ELSE schedule[t]]
    BY <1>4 DEF Commit, Rollback
  <2>2. ASSUME NEW t \in Terms
        PROVE  schedule'[t] \in 0..MaxVersion
               /\ schedule'[t] + Cardinality(OpenOn(t)') <= MaxVersion
    <3>1. /\ Cardinality(OpenOn(t)') \in Nat
          /\ Cardinality(OpenOn(t)') + (IF t \in edit[e].changes THEN 1 ELSE 0)
                = Cardinality(OpenOn(t))
      BY <2>1, ClosingMakesRoom
    <3>2. schedule[t] + Cardinality(OpenOn(t)) <= MaxVersion BY DEF CacheTypes, VersionsFit
    <3>3. schedule[t] \in 0..MaxVersion BY <1>c
    <3>4. schedule'[t] = schedule[t] \/
            (t \in edit[e].changes /\ schedule'[t] = schedule[t] + 1)
      BY <2>1
    <3> HIDE DEF OpenOn
    <3> QED BY <1>c, <3>1, <3>2, <3>3, <3>4
  <2>3. schedule' \in [Terms -> 0..MaxVersion]
    <3>1. DOMAIN schedule' = Terms /\ schedule' = [t \in Terms |-> schedule'[t]] BY <1>c, <2>1
    <3> QED BY <2>2, <3>1
  <2>4. VersionsFit' BY <2>2 DEF VersionsFit
  <2>5. /\ NoEdit.pc = "idle" /\ NoEdit.changes = {} /\ NoEdit.drops \in Seq(SUBSET Buckets)
        /\ NoEdit.found = {}
    BY DEF NoEdit
  <2> HIDE DEF NoEdit
  <2>6. edit'[e] = NoEdit /\ \A f \in Editors \ {e} : edit'[f] = edit[f] BY <1>b, <2>1
  <2>7. TypeOK' BY <1>0, <1>b, <2>1, <2>3, <2>5, <2>6 DEF CacheTypes, TypeOK
  <2>8. UnlinkingHasDrop' BY <2>5, <2>6 DEF CacheTypes, UnlinkingHasDrop
  <2> QED BY <1>a, <2>4, <2>7, <2>8 DEF CacheTypes
<1> QED BY <1>1, <1>2, <1>3, <1>4

\* Entries, readers and open edits are of their types for edits of every kind and
\* with Redis up or down (cache.ts, scheduleCache.ts).
THEOREM CacheTyped == Spec => []TypeOK
<1>1. Init => CacheTypes
  <2> SUFFICES ASSUME Init PROVE CacheTypes OBVIOUS
  <2>1. MaxVersion \in Nat BY CacheAssumption DEF CacheAssumption
  <2>2. NoRead \in [pc: {"idle", "asked", "missed", "fetched", "answered"}, bucket: Buckets,
          available: BOOLEAN, answer: Answers \cup {None}, since: Answers \cup {None}]
        /\ NoRead.pc = "idle"
    BY DEF NoRead, Buckets
  <2>3. /\ NoEdit.pc = "idle" /\ NoEdit.changes = {} /\ NoEdit.drops \in Seq(SUBSET Buckets)
        /\ NoEdit.found = {}
    BY DEF NoEdit
  <2> HIDE DEF NoRead, NoEdit
  <2>4. TypeOK BY <2>1, <2>2, <2>3 DEF Init, TypeOK
  <2>5. \A t \in Terms : OpenOn(t) = {} BY <2>3 DEF Init, OpenOn
  <2>6. VersionsFit BY <2>1, <2>5, FS_EmptySet DEF Init, VersionsFit
  <2>7. FetchedIsAnswer BY <2>2 DEF Init, FetchedIsAnswer
  <2>8. UnlinkingHasDrop BY <2>3 DEF Init, UnlinkingHasDrop
  <2> QED BY <2>4, <2>6, <2>7, <2>8 DEF CacheTypes
<1>2. CacheTypes /\ [Next]_vars => CacheTypes'
  <2> SUFFICES ASSUME CacheTypes, [Next]_vars PROVE CacheTypes' OBVIOUS
  <2>1. CASE \E r \in Readers :
               (\E b \in Buckets : Ask(r, b)) \/ Look(r) \/ Fetch(r) \/ Store(r) \/ ReadFails(r)
    BY <2>1, CacheAssumption, ReaderTypes
  <2>2. CASE \E e \in Editors : Edit(e) \/ Scan(e) \/ Unlink(e) \/ Commit(e) \/ Rollback(e)
    BY <2>2, CacheAssumption, EditorTypes
  <2>3. CASE (\E b \in Buckets : Expire(b)) \/ RedisFails \/ RedisReturns \/ UNCHANGED vars
    <3>1. /\ schedule' = schedule /\ reader' = reader /\ edit' = edit
          /\ redis' \in BOOLEAN
          /\ cache' \in [Buckets -> Entry \cup {None}]
      BY <2>3 DEF Expire, RedisFails, RedisReturns, vars, CacheTypes, TypeOK
    <3> QED BY <3>1 DEF CacheTypes, TypeOK, VersionsFit, OpenOn, FetchedIsAnswer,
          UnlinkingHasDrop
  <2> QED BY <2>1, <2>2, <2>3 DEF Next
<1>3. CacheTypes => TypeOK BY DEF CacheTypes
<1> QED BY <1>1, <1>2, <1>3, PTL DEF Spec

-----------------------------------------------------------------------------
(***************************************************************************)
(* The cache: nothing is stale                                             *)
(***************************************************************************)
\* The drops an edit of one term, or of every term, can have left.
DropsLeft == {<<>>, <<Buckets>>, <<{All}>>} \cup {<<{t}, {All}>> : t \in Terms}

\* Bucket b is in one of the drops.
Pending(drops, b) == \E i \in DOMAIN drops : b \in drops[i]

\* Edit x changes something that bucket b draws from.
Touches(x, b) == \E t \in Covers(b) : t \in x.changes

InFlight(rd) == rd.pc \notin {"idle", "answered"}

RowsAreThere ==
    /\ redis = TRUE
    /\ DOMAIN cache = Buckets
    /\ DOMAIN schedule = Terms
    /\ DOMAIN reader = Readers
    /\ DOMAIN edit = Editors
    /\ \A r \in Readers : reader[r].bucket \in Buckets
    /\ \A e \in Editors : edit[e].drops \in DropsLeft
    /\ \A e \in Editors : edit[e].pc \in {"idle", "open", "unlinking"}

\* No request reads what an open edit changes.
ReadsKeepOut == \A r \in Readers : \A e \in Editors :
    InFlight(reader[r]) => ~Touches(edit[e], reader[r].bucket)

\* What was fetched is still what the database would answer.
FetchedIsCurrent == \A r \in Readers :
    reader[r].pc = "fetched" => reader[r].answer = Current(reader[r].bucket)

\* A bucket that an open edit outdates is empty, or the edit still drops it.
OutdatedIsDropped == \A e \in Editors : \A b \in Buckets :
    Touches(edit[e], b) => cache[b] = None \/ Pending(edit[e].drops, b)

\* What is being unlinked holds every such bucket of the current drop.
ScanFoundAll == \A e \in Editors :
    edit[e].pc = "unlinking" =>
        /\ edit[e].drops # <<>>
        /\ \A b \in Head(edit[e].drops) :
            Touches(edit[e], b) => cache[b] = None \/ b \in edit[e].found

CacheInv ==
    /\ RowsAreThere
    /\ ReadsKeepOut
    /\ FetchedIsCurrent
    /\ OutdatedIsDropped
    /\ ScanFoundAll
    /\ NothingStale

\* A drop that is done leaves a rest of the same kind.
LEMMA DropsShrink ==
    ASSUME NEW s \in DropsLeft, s # <<>>
    PROVE  /\ Tail(s) \in DropsLeft
           /\ Head(s) \subseteq Buckets
           /\ \A b : Pending(s, b) => b \in Head(s) \/ Pending(Tail(s), b)
           /\ \A b : Pending(Tail(s), b) => Pending(s, b)
<1>1. CASE s = <<Buckets>> BY <1>1 DEF DropsLeft, Pending
<1>2. CASE s = <<{All}>> BY <1>2 DEF DropsLeft, Pending, Buckets
<1>3. ASSUME NEW t \in Terms, s = <<{t}, {All}>>
      PROVE  /\ Tail(s) \in DropsLeft
             /\ Head(s) \subseteq Buckets
             /\ \A b : Pending(s, b) => b \in Head(s) \/ Pending(Tail(s), b)
             /\ \A b : Pending(Tail(s), b) => Pending(s, b)
  <2>1. Tail(s) = <<{All}>> /\ Head(s) = {t} BY <1>3
  <2>2. DOMAIN s = {1, 2} /\ s[1] = {t} /\ s[2] = {All} BY <1>3
  <2>3. DOMAIN <<{All}>> = {1} /\ <<{All}>>[1] = {All} OBVIOUS
  <2>4. DOMAIN Tail(s) = {1} /\ Tail(s)[1] = {All} BY <2>1, <2>3
  <2> QED BY <2>1, <2>2, <2>4 DEF DropsLeft, Pending, Buckets
<1> QED BY <1>1, <1>2, <1>3 DEF DropsLeft

\* When no drop is left, no bucket is.
LEMMA NothingPending == \A b : ~Pending(<<>>, b)
BY DEF Pending

\* A bucket whose terms do not change is answered as before.
LEMMA CurrentStays ==
    ASSUME NEW b, \A t \in Covers(b) : schedule'[t] = schedule[t]
    PROVE  Current(b)' = Current(b)
BY DEF Current, Covers, Buckets

\* The effects of the kinds of edits the theorem is about.
LEMMA EffectsDropEnough ==
    ASSUME CacheAssumption, NEW x \in Effects, x.kind \in {"edit", "resource"}
    PROVE  /\ Drops(x.scope) \in DropsLeft
           /\ x.changes \subseteq Terms
           /\ \A b \in Buckets : (\E t \in Covers(b) : t \in x.changes)
                  => Pending(Drops(x.scope), b)
<1>1. CASE x.kind = "edit"
  <2>1. PICK t \in Terms : x = [kind |-> "edit", changes |-> {t}, scope |-> t]
    BY <1>1 DEF Effects
  <2>2. Drops(x.scope) = <<{t}, {All}>> BY <2>1 DEF Drops, CacheAssumption
  <2>3. Pending(Drops(x.scope), t) /\ Pending(Drops(x.scope), All) BY <2>2 DEF Pending
  <2> QED BY <2>1, <2>2, <2>3 DEF DropsLeft, Covers, Buckets
<1>2. CASE x.kind = "resource"
  <2>1. x = [kind |-> "resource", changes |-> Terms, scope |-> None]
    BY <1>2 DEF Effects
  <2>2. Drops(x.scope) = <<Buckets>> BY <2>1 DEF Drops
  <2> QED BY <2>1, <2>2 DEF DropsLeft, Pending
<1> QED BY <1>1, <1>2

\* A request stores what is still current: no open edit touches its bucket.
LEMMA ReaderSteps ==
    ASSUME CacheAssumption, CacheInv, ~ReadsOverlapEdits, NEW r \in Readers,
           (\E b \in Buckets : Ask(r, b)) \/ Look(r) \/ Fetch(r) \/ Store(r) \/ ReadFails(r)
    PROVE  CacheInv'
<1> USE DEF CacheInv, RowsAreThere
<1>0. schedule' = schedule /\ edit' = edit /\ redis' = redis
  BY DEF Ask, Look, Fetch, Store, ReadFails
<1>a. \A b : Current(b)' = Current(b) BY <1>0 DEF Current
<1>b. \A b, e : Touches(edit[e], b)' = Touches(edit[e], b) BY <1>0 DEF Touches
<1>c. \A e \in Editors : edit[e].pc = "unlinking" =>
        edit[e].drops # <<>> /\ Head(edit[e].drops) \subseteq Buckets
  BY DropsShrink DEF ScanFoundAll
<1> USE DEF ReadsKeepOut, FetchedIsCurrent, OutdatedIsDropped, ScanFoundAll, NothingStale,
        Stale, InFlight
\* Only the reader changes, and its bucket is as before.
<1>d. ASSUME NEW x, reader' = [reader EXCEPT ![r] = x], cache' = cache,
             x.bucket \in Buckets,
             InFlight(x) => \A e \in Editors : ~Touches(edit[e], x.bucket),
             x.pc = "fetched" => x.answer = Current(x.bucket)
      PROVE  CacheInv'
  <2>1. reader'[r] = x /\ \A q \in Readers \ {r} : reader'[q] = reader[q] BY <1>d
  <2>2. RowsAreThere' BY <1>0, <1>d, <2>1
  <2>3. ReadsKeepOut' BY <1>0, <1>d, <2>1
  <2>4. FetchedIsCurrent' BY <1>a, <1>d, <2>1
  <2>5. OutdatedIsDropped' /\ ScanFoundAll' BY <1>0, <1>d
  <2>6. NothingStale' BY <1>a, <1>d
  <2> QED BY <2>2, <2>3, <2>4, <2>5, <2>6
<1>1. ASSUME NEW b \in Buckets, Ask(r, b) PROVE CacheInv'
  <2> DEFINE x == [NoRead EXCEPT !.pc = "asked", !.bucket = b, !.since = Current(b)]
  <2>1. cache' = cache /\ reader' = [reader EXCEPT ![r] = x] BY <1>1 DEF Ask
  <2>2. x.pc = "asked" /\ x.bucket = b BY DEF NoRead
  <2>3. \A e \in Editors : ~Touches(edit[e], b) BY <1>1 DEF Ask, BeingEdited, Touches
  <2> HIDE DEF x
  <2> QED BY <1>d, <2>1, <2>2, <2>3
<1>2. ASSUME Look(r) PROVE CacheInv'
  <2> DEFINE b == reader[r].bucket
             x == IF redis /\ cache[b] # None
                  THEN [reader[r] EXCEPT !.pc = "answered", !.answer = cache[b].answer]
                  ELSE [reader[r] EXCEPT !.pc = "missed", !.available = redis]
  <2>1. cache' = cache /\ reader' = [reader EXCEPT ![r] = x] BY <1>2 DEF Look, Answer
  <2>2. x.pc \in {"answered", "missed"} /\ x.bucket = reader[r].bucket OBVIOUS
  <2>3. InFlight(reader[r]) BY <1>2 DEF Look
  <2> HIDE DEF x
  <2> QED BY <1>d, <2>1, <2>2, <2>3
<1>3. ASSUME Fetch(r) PROVE CacheInv'
  <2> DEFINE x == [reader[r] EXCEPT !.pc = "fetched", !.answer = Current(reader[r].bucket)]
  <2>1. cache' = cache /\ reader' = [reader EXCEPT ![r] = x] BY <1>3 DEF Fetch
  <2>2. x.answer = Current(reader[r].bucket) /\ x.bucket = reader[r].bucket OBVIOUS
  <2>3. InFlight(reader[r]) BY <1>3 DEF Fetch
  <2> HIDE DEF x
  <2> QED BY <1>d, <2>1, <2>2, <2>3, ZenonT(60)
<1>4. ASSUME Store(r) PROVE CacheInv'
  <2> DEFINE b == reader[r].bucket
             x == [reader[r] EXCEPT !.pc = "answered", !.answer = reader[r].answer]
  <2>1. reader' = [reader EXCEPT ![r] = x] BY <1>4 DEF Store, Answer
  <2>2. x.pc = "answered" /\ x.bucket = b OBVIOUS
  <2>3. InFlight(reader[r]) /\ reader[r].answer = Current(b) BY <1>4 DEF Store
  <2>4. PICK y : y.answer = Current(b) /\ cache' \in {cache, [cache EXCEPT ![b] = y]}
    <3> DEFINE y == [answer |-> reader[r].answer, expires |-> TRUE]
    <3>1. y.answer = Current(b) BY <2>3
    <3>2. cache' \in {cache, [cache EXCEPT ![b] = y]} BY <1>4 DEF Store
    <3> HIDE DEF y
    <3> QED BY <3>1, <3>2
  <2> HIDE DEF x
  <2>5. \A e \in Editors : ~Touches(edit[e], b) BY <2>3
  <2>6. /\ \A c \in Buckets \ {b} : cache'[c] = cache[c]
        /\ cache'[b] # cache[b] => cache'[b].answer = Current(b)
    BY <2>4
  <2>7. RowsAreThere'
    <3>1. \A q \in Readers : reader'[q].bucket \in Buckets BY <2>1, <2>2
    <3> QED BY <1>0, <2>1, <2>4, <3>1
  <2>8. ReadsKeepOut' /\ FetchedIsCurrent' BY <1>0, <1>a, <2>1, <2>2
  <2>9. OutdatedIsDropped' BY <1>0, <2>5, <2>6
  <2>10. ScanFoundAll' BY <1>0, <1>c, <2>5, <2>6
  <2>11. NothingStale' BY <1>a, <2>6
  <2> QED BY <2>7, <2>8, <2>9, <2>10, <2>11
<1>5. ASSUME ReadFails(r) PROVE CacheInv'
  <2>1. cache' = cache /\ reader' = [reader EXCEPT ![r] = NoRead] BY <1>5 DEF ReadFails
  <2>2. NoRead.pc = "idle" /\ NoRead.bucket \in Buckets BY DEF NoRead, Buckets
  <2> QED BY <1>d, <2>1, <2>2
<1> QED BY <1>1, <1>2, <1>3, <1>4, <1>5

\* A transaction empties what it outdates before its commit makes it outdated.
LEMMA EditorSteps ==
    ASSUME CacheAssumption, CacheInv, ~ReadsOverlapEdits, Kinds \subseteq {"edit", "resource"},
           NEW e \in Editors,
           Edit(e) \/ Scan(e) \/ Unlink(e) \/ Commit(e) \/ Rollback(e)
    PROVE  CacheInv'
<1> USE DEF CacheInv, RowsAreThere
<1>0. reader' = reader /\ redis' = redis
  BY DEF Edit, Scan, Unlink, Commit, Rollback
<1>c. \A f \in Editors : edit[f].pc = "unlinking" =>
        edit[f].drops # <<>> /\ Head(edit[f].drops) \subseteq Buckets
  BY DropsShrink DEF ScanFoundAll
<1> USE DEF ReadsKeepOut, FetchedIsCurrent, OutdatedIsDropped, ScanFoundAll, NothingStale, Stale
\* Only this edit changes.
<1>d. ASSUME NEW x, edit' = [edit EXCEPT ![e] = x], cache' = cache, schedule' = schedule,
             x.pc \in {"idle", "open", "unlinking"}, x.drops \in DropsLeft,
             \A r \in Readers : InFlight(reader[r]) => ~Touches(x, reader[r].bucket),
             \A b \in Buckets : Touches(x, b) => cache[b] = None \/ Pending(x.drops, b),
             x.pc = "unlinking" =>
                /\ x.drops # <<>>
                /\ \A b \in Head(x.drops) : Touches(x, b) => cache[b] = None \/ b \in x.found
      PROVE  CacheInv'
  <2>1. edit'[e] = x /\ \A f \in Editors \ {e} : edit'[f] = edit[f] BY <1>d
  <2>a. \A b : Current(b)' = Current(b) BY <1>d DEF Current
  <2>2. RowsAreThere' BY <1>0, <1>d, <2>1
  <2>3. ReadsKeepOut' BY <1>0, <1>d, <2>1
  <2>4. FetchedIsCurrent' /\ NothingStale' BY <1>0, <2>a, <1>d
  <2>5. OutdatedIsDropped' BY <1>d, <2>1
  <2>6. ScanFoundAll' BY <1>d, <2>1
  <2> QED BY <2>2, <2>3, <2>4, <2>5, <2>6
<1>1. ASSUME Edit(e) PROVE CacheInv'
  <2>1. PICK effect \in Effects :
        /\ effect.kind \in Kinds
        /\ \A t \in effect.changes : ~Reading(t)
        /\ edit' = [edit EXCEPT ![e] =
             [pc |-> "open", changes |-> effect.changes, drops |-> Drops(effect.scope),
              found |-> {}]]
    BY <1>1 DEF Edit
  <2> DEFINE x == [pc |-> "open", changes |-> effect.changes, drops |-> Drops(effect.scope),
                   found |-> {}]
  <2>2. /\ x.drops \in DropsLeft
        /\ \A b \in Buckets : Touches(x, b) => Pending(x.drops, b)
        /\ x.changes \subseteq Terms
    BY <2>1, EffectsDropEnough DEF Touches
  <2>3. ASSUME NEW r \in Readers, InFlight(reader[r]) PROVE ~Touches(x, reader[r].bucket)
    <3>1. SUFFICES ASSUME NEW t \in Covers(reader[r].bucket), t \in x.changes PROVE FALSE
      BY DEF Touches
    <3>2. t \in Terms /\ Covers(t) = {t} BY <2>2, <3>1 DEF Covers, CacheAssumption
    <3>3. Reading(t) BY <2>3, <3>2 DEF Reading, InFlight
    <3> QED BY <2>1, <3>1, <3>3
  <2>4. schedule' = schedule /\ cache' = cache /\ edit' = [edit EXCEPT ![e] = x] /\ x.pc = "open"
    BY <1>1, <2>1 DEF Edit
  <2> HIDE DEF x
  <2> QED BY <1>d, <2>2, <2>3, <2>4
<1>2. ASSUME Scan(e) PROVE CacheInv'
  <2> DEFINE x == [edit[e] EXCEPT !.pc = "unlinking",
                          !.found = {b \in Head(edit[e].drops) : cache[b] # None}]
  <2>1. /\ edit' = [edit EXCEPT ![e] = x] /\ schedule' = schedule /\ cache' = cache
        /\ edit[e].drops # <<>>
    BY <1>2 DEF Scan
  <2>2. x.pc = "unlinking" /\ x.drops = edit[e].drops /\ x.changes = edit[e].changes
        /\ x.found = {b \in Head(edit[e].drops) : cache[b] # None}
    OBVIOUS
  <2>3. \A b : Touches(x, b) <=> Touches(edit[e], b) BY <2>2 DEF Touches
  <2> HIDE DEF x
  <2> QED BY <1>d, <2>1, <2>2, <2>3
<1>3. ASSUME Unlink(e) PROVE CacheInv'
  <2> DEFINE x == edit'[e]
  <2>1. /\ schedule' = schedule /\ edit[e].pc = "unlinking"
        /\ DOMAIN cache' = Buckets
        /\ \A b \in Buckets : cache'[b] = IF b \in edit[e].found THEN None ELSE cache[b]
    <3>1. schedule' = schedule /\ edit[e].pc = "unlinking" BY <1>3 DEF Unlink
    <3>2. cache' = [b \in Buckets |-> IF redis /\ b \in edit[e].found THEN None ELSE cache[b]]
      BY <1>3 DEF Unlink
    <3>3. \A b \in Buckets : cache'[b] = IF b \in edit[e].found THEN None ELSE cache[b]
      BY <3>2
    <3> QED BY <3>1, <3>2, <3>3
  <2>2. x.pc = "open" /\ x.drops = Tail(edit[e].drops) /\ x.changes = edit[e].changes
        /\ DOMAIN edit' = Editors /\ \A f \in Editors \ {e} : edit'[f] = edit[f]
    <3>1. edit' = [edit EXCEPT ![e] = [@ EXCEPT !.pc = "open", !.drops = Tail(edit[e].drops),
                                                !.found = {}]]
      BY <1>3 DEF Unlink
    <3>2. DOMAIN edit' = Editors /\ \A f \in Editors \ {e} : edit'[f] = edit[f]
      BY <3>1
    <3>3. x.pc = "open" /\ x.changes = edit[e].changes BY <3>1
    <3>4. x.drops = Tail(edit[e].drops) BY <3>1
    <3> QED BY <3>2, <3>3, <3>4
  <2>3. \A b : Touches(x, b) <=> Touches(edit[e], b) BY <2>2 DEF Touches
  <2>4. /\ x.drops \in DropsLeft
        /\ \A b : Pending(edit[e].drops, b) => b \in Head(edit[e].drops) \/ Pending(x.drops, b)
    BY <2>1, <2>2, DropsShrink
  <2>5. \A b \in Buckets : cache'[b] = None \/ cache'[b] = cache[b] BY <2>1
  <2>6. \A b \in Head(edit[e].drops) : Touches(edit[e], b) => cache'[b] = None
    BY <1>c, <2>1
  <2> HIDE DEF x
  <2>7. edit'[e] = x /\ \A f \in Editors \ {e} : edit'[f] = edit[f] BY <2>2 DEF x
  <2>a. \A b : Current(b)' = Current(b) BY <2>1 DEF Current
  <2>8. RowsAreThere' BY <1>0, <2>1, <2>2, <2>4, <2>7
  <2>9. ReadsKeepOut' BY <1>0, <2>3, <2>7
  <2>10. FetchedIsCurrent' /\ NothingStale' BY <1>0, <2>a, <2>5
  <2>11. OutdatedIsDropped' BY <2>3, <2>4, <2>5, <2>6, <2>7
  <2>12. ScanFoundAll' BY <1>c, <2>2, <2>5, <2>7
  <2> QED BY <2>8, <2>9, <2>10, <2>11, <2>12
<1>4. ASSUME Commit(e) PROVE CacheInv'
  <2>1. /\ edit' = [edit EXCEPT ![e] = NoEdit] /\ cache' = cache /\ edit[e].drops = <<>>
        /\ schedule' = [t \in Terms |-> IF t \in edit[e].changes THEN schedule[t] + 1
                                       ELSE schedule[t]]
    BY <1>4 DEF Commit
  <2>2. NoEdit.pc = "idle" /\ NoEdit.drops \in DropsLeft /\ \A b : ~Touches(NoEdit, b)
    BY DEF NoEdit, DropsLeft, Touches
  <2>3. \A b \in Buckets : Touches(edit[e], b) => cache[b] = None BY <2>1, NothingPending
  <2>4. ASSUME NEW b \in Buckets, ~Touches(edit[e], b) PROVE Current(b)' = Current(b)
    <3>1. Covers(b) \subseteq Terms BY DEF Covers, Buckets
    <3>2. \A t \in Covers(b) : schedule'[t] = schedule[t] BY <2>1, <2>4, <3>1 DEF Touches
    <3> QED BY <3>2, CurrentStays
  <2> HIDE DEF NoEdit
  <2>5. edit'[e] = NoEdit /\ \A f \in Editors \ {e} : edit'[f] = edit[f] BY <2>1
  <2>6. RowsAreThere' BY <1>0, <2>1, <2>2, <2>5
  <2>7. ReadsKeepOut' BY <1>0, <2>2, <2>5
  <2>8. FetchedIsCurrent' BY <1>0, <2>4 DEF InFlight
  <2>9. NothingStale' BY <2>1, <2>3, <2>4
  <2>10. OutdatedIsDropped' BY <2>1, <2>2, <2>5
  <2>11. ScanFoundAll' BY <2>1, <2>2, <2>5
  <2> QED BY <2>6, <2>7, <2>8, <2>9, <2>10, <2>11
<1>5. ASSUME Rollback(e) PROVE CacheInv'
  <2>1. edit' = [edit EXCEPT ![e] = NoEdit] /\ schedule' = schedule /\ cache' = cache
    BY <1>5 DEF Rollback
  <2>2. NoEdit.pc = "idle" /\ NoEdit.drops \in DropsLeft /\ \A b : ~Touches(NoEdit, b)
    BY DEF NoEdit, DropsLeft, Touches
  <2> HIDE DEF NoEdit
  <2> QED BY <1>d, <2>1, <2>2
<1> QED BY <1>1, <1>2, <1>3, <1>4, <1>5

\* The invariant of the cache, for edits of the two kinds and reads apart from them.
LEMMA CacheInvHolds ==
    ASSUME CacheAssumption, ~RedisMayFail, ~ReadsOverlapEdits, Kinds \subseteq {"edit", "resource"}
    PROVE  Spec => []CacheInv
<1>1. Init => CacheInv
  <2> SUFFICES ASSUME Init PROVE CacheInv OBVIOUS
  <2> USE DEF Init
  <2>1. RowsAreThere BY DEF RowsAreThere, NoRead, NoEdit, DropsLeft, Buckets
  <2>2. ReadsKeepOut BY DEF ReadsKeepOut, NoRead, InFlight
  <2>3. FetchedIsCurrent BY DEF FetchedIsCurrent, NoRead
  <2>4. OutdatedIsDropped /\ NothingStale BY DEF OutdatedIsDropped, NothingStale, Stale
  <2>5. ScanFoundAll BY DEF ScanFoundAll, NoEdit
  <2> QED BY <2>1, <2>2, <2>3, <2>4, <2>5 DEF CacheInv
<1>2. CacheInv /\ [Next]_vars => CacheInv'
  <2> SUFFICES ASSUME CacheInv, [Next]_vars PROVE CacheInv' OBVIOUS
  <2>1. ASSUME NEW r \in Readers,
               (\E b \in Buckets : Ask(r, b)) \/ Look(r) \/ Fetch(r) \/ Store(r) \/ ReadFails(r)
        PROVE  CacheInv'
    BY <2>1, ReaderSteps
  <2>2. ASSUME NEW e \in Editors,
               Edit(e) \/ Scan(e) \/ Unlink(e) \/ Commit(e) \/ Rollback(e)
        PROVE  CacheInv'
    BY <2>2, EditorSteps
  <2>3. ASSUME NEW b \in Buckets, Expire(b) PROVE CacheInv'
    <3>1. /\ schedule' = schedule /\ reader' = reader /\ edit' = edit /\ redis' = redis
          /\ cache' = [cache EXCEPT ![b] = None]
      BY <2>3 DEF Expire
    <3>2. \A c : Current(c)' = Current(c) BY <3>1 DEF Current
    <3>3. \A c \in Buckets : cache'[c] = None \/ cache'[c] = cache[c]
      BY <3>1 DEF CacheInv, RowsAreThere
    <3>4. RowsAreThere' /\ ReadsKeepOut' BY <3>1 DEF CacheInv, RowsAreThere, ReadsKeepOut
    <3>5. FetchedIsCurrent' BY <3>1, <3>2 DEF CacheInv, FetchedIsCurrent
    <3>6. OutdatedIsDropped' BY <3>1, <3>3 DEF CacheInv, OutdatedIsDropped
    <3>7. \A f \in Editors : edit[f].pc = "unlinking" => Head(edit[f].drops) \subseteq Buckets
      BY DropsShrink DEF CacheInv, RowsAreThere, ScanFoundAll
    <3>8. ScanFoundAll' BY <3>1, <3>3, <3>7 DEF CacheInv, ScanFoundAll
    <3>9. NothingStale' BY <3>2, <3>3 DEF CacheInv, NothingStale, Stale
    <3> QED BY <3>4, <3>5, <3>6, <3>8, <3>9 DEF CacheInv
  <2>4. ~RedisFails /\ ~RedisReturns
    BY DEF RedisFails, RedisReturns, CacheInv, RowsAreThere
  <2>5. CASE UNCHANGED vars
    <3>1. UNCHANGED <<schedule, cache, redis, reader, edit>> BY <2>5 DEF vars
    <3>2. \A c : Current(c)' = Current(c) BY <3>1 DEF Current
    <3> QED BY <3>1, <3>2 DEF CacheInv, RowsAreThere, ReadsKeepOut, FetchedIsCurrent,
          OutdatedIsDropped, ScanFoundAll, NothingStale, Stale
  <2> QED BY <2>1, <2>2, <2>3, <2>4, <2>5 DEF Next
<1> QED BY <1>1, <1>2, PTL DEF Spec

\* With Redis reachable, reads apart from edits of their terms, and edits that
\* change the term they drop or all of them, no bucket is ever stale, however many
\* requests and transactions interleave (scheduleCache.ts).
THEOREM CacheIsCurrent ==
    ASSUME ~RedisMayFail, ~ReadsOverlapEdits, Kinds \subseteq {"edit", "resource"}
    PROVE  Spec => []NothingStale
<1>1. CacheInv => NothingStale BY DEF CacheInv
<1> QED BY <1>1, CacheAssumption, CacheInvHolds, PTL

-----------------------------------------------------------------------------
(***************************************************************************)
(* Curriculum plans                                                        *)
(***************************************************************************)
\* Tables of offerings, and the offering an item of a plan makes.
Tables == Seq(OfferingRow \cup {None})
ItemRows == Nat \X Templates
Made(row, during, group) ==
    [template |-> row[2], term |-> during, groups |-> {group}, byPlan |-> TRUE]

\* What is appended to a table for some items: one offering for each.
AppendedFor(s, from, to, during, group) ==
    /\ to \in Tables /\ Len(from) <= Len(to)
    /\ \A o \in 1 .. Len(from) : to[o] = from[o]
    /\ \A o \in 1 .. Len(to) : o > Len(from) =>
          \E row \in s : to[o] = Made(row, during, group)
    /\ \A row \in s : \E o \in 1 .. Len(to) : o > Len(from) /\ to[o] = Made(row, during, group)
    /\ (\A row, other \in s : row[2] = other[2] => row = other) =>
          \A o, q \in 1 .. Len(to) :
            o > Len(from) /\ q > Len(from) /\ to[o].template = to[q].template => o = q

\* The loop that makes the offerings, one item after another.
CreateAll(from, missing, during, group) ==
    LET Create(row, sofar) ==
            Append(sofar, [template |-> row[2], term |-> during, groups |-> {group},
                           byPlan |-> TRUE])
    IN  FoldSet(Create, from, missing)

\* One more item appends one more offering.
LEMMA OneIsAppended ==
    ASSUME NEW s, NEW x \in ItemRows, s \subseteq ItemRows, x \notin s,
           NEW from \in Tables, NEW to, NEW during \in TermNumbers, NEW group \in PlanGroups,
           AppendedFor(s, from, to, during, group)
    PROVE  AppendedFor(s \cup {x}, from, Append(to, Made(x, during, group)), during, group)
<1>1. PICK r : r = Made(x, during, group) OBVIOUS
<1>2. r \in OfferingRow BY <1>1 DEF Made, OfferingRow, ItemRows
<1>3. PICK n, m : n = Len(from) /\ m = Len(to) OBVIOUS
<1>4. to \in Tables /\ n <= m /\ n \in Nat /\ m \in Nat BY <1>3 DEF AppendedFor, Tables
<1>5. PICK new : new = Append(to, r) OBVIOUS
<1>6. /\ new \in Tables /\ Len(new) = m + 1 /\ new[m + 1] = r
      /\ \A o \in 1 .. m : new[o] = to[o]
  BY <1>2, <1>3, <1>4, <1>5 DEF Tables
<1>7. \A o \in 1 .. n : to[o] = from[o] BY <1>3 DEF AppendedFor
<1>8. \A o \in 1 .. m : o > n => \E row \in s : to[o] = Made(row, during, group)
  BY <1>3 DEF AppendedFor
<1>9. \A row \in s : \E o \in 1 .. m : o > n /\ to[o] = Made(row, during, group)
  BY <1>3 DEF AppendedFor
<1>10. \A o \in 1 .. n : new[o] = from[o] BY <1>4, <1>6, <1>7
<1>11. ASSUME NEW o \in 1 .. m + 1, o > n
       PROVE  \E row \in s \cup {x} : new[o] = Made(row, during, group)
  <2>1. CASE o = m + 1 BY <1>1, <1>6, <2>1
  <2>2. CASE o \in 1 .. m BY <1>6, <1>8, <1>11, <2>2
  <2> QED BY <1>4, <2>1, <2>2
<1>12. ASSUME NEW row \in s \cup {x}
       PROVE  \E o \in 1 .. m + 1 : o > n /\ new[o] = Made(row, during, group)
  <2>1. CASE row = x
    <3>1. m + 1 \in 1 .. m + 1 /\ m + 1 > n BY <1>4
    <3> QED BY <1>1, <1>6, <2>1, <3>1
  <2>2. CASE row \in s
    <3>1. PICK o \in 1 .. m : o > n /\ to[o] = Made(row, during, group) BY <1>9, <2>2
    <3>2. o \in 1 .. m + 1 BY <1>4
    <3> QED BY <1>6, <3>1, <3>2
  <2> QED BY <2>1, <2>2
<1>13. ASSUME \A row, other \in s \cup {x} : row[2] = other[2] => row = other,
              NEW o \in 1 .. m + 1, NEW q \in 1 .. m + 1, o > n, q > n,
              new[o].template = new[q].template
       PROVE  o = q
  <2>1. \A i, j \in 1 .. m : i > n /\ j > n /\ to[i].template = to[j].template => i = j
    BY <1>3, <1>13 DEF AppendedFor
  <2>2. \A i \in 1 .. m : i > n => to[i].template # r.template
    <3> SUFFICES ASSUME NEW i \in 1 .. m, i > n PROVE to[i].template # r.template OBVIOUS
    <3>1. PICK row \in s : to[i] = Made(row, during, group) BY <1>8
    <3>2. row[2] # x[2] BY <1>13
    <3> QED BY <1>1, <3>1, <3>2 DEF Made
  <2>3. CASE o \in 1 .. m /\ q \in 1 .. m BY <1>6, <1>13, <2>1, <2>3
  <2>4. CASE o = m + 1 /\ q \in 1 .. m BY <1>6, <1>13, <2>2, <2>4
  <2>5. CASE q = m + 1 /\ o \in 1 .. m BY <1>6, <1>13, <2>2, <2>5
  <2> QED BY <1>4, <2>3, <2>4, <2>5
<1>14. AppendedFor(s \cup {x}, from, new, during, group)
  BY <1>3, <1>4, <1>6, <1>10, <1>11, <1>12, <1>13 DEF AppendedFor
<1> QED BY <1>1, <1>5, <1>14

\* The loop over the items that are missing.
LEMMA AllAreAppended ==
    ASSUME NEW missing \in SUBSET ItemRows, IsFiniteSet(missing), NEW from \in Tables,
           NEW during \in TermNumbers, NEW group \in PlanGroups
    PROVE  AppendedFor(missing, from, CreateAll(from, missing, during, group), during, group)
<1> DEFINE Taken(s) == CHOOSE x \in s : TRUE
           Fold(f) == f = [s \in SUBSET missing |->
                             IF s = {} THEN from
                             ELSE Append(f[s \ {Taken(s)}],
                                    [template |-> Taken(s)[2], term |-> during, groups |-> {group},
                                     byPlan |-> TRUE])]
           table == CHOOSE f : Fold(f)
<1>1. \A s \in SUBSET missing : s # {} => Taken(s) \in s OBVIOUS
<1>2. \A row \in ItemRows : Made(row, during, group) \in OfferingRow
  BY DEF Made, OfferingRow, ItemRows
<1>3. PICK f : Fold(f)
  <2>1. PICK pick : pick = [s \in SUBSET missing |-> Taken(s)] OBVIOUS
  <2>2. PICK step : step = [z \in missing \X Tables |-> Append(z[2], Made(z[1], during, group))]
    OBVIOUS
  <2>3. \A row \in missing : \A t \in Tables :
          step[<<row, t>>] = Append(t, Made(row, during, group))
    BY <2>2
  <2>4. step \in [missing \X Tables -> Tables]
    <3>1. \A row \in missing : \A t \in Tables : Append(t, Made(row, during, group)) \in Tables
      BY <1>2 DEF Tables
    <3> QED BY <2>2, <3>1
  <2>5. \A s \in SUBSET missing : s # {} => pick[s] \in s BY <1>1, <2>1
  <2>6. PICK f \in [SUBSET missing -> Tables] : Folded(missing, pick, from, step, f)
    BY <2>4, <2>5, FoldExists
  <2>7. \A s \in SUBSET missing :
          f[s] = (IF s = {} THEN from ELSE step[<<pick[s], f[s \ {pick[s]}]>>])
    BY <2>6 DEF Folded
  <2>8. ASSUME NEW s \in SUBSET missing, s # {}
        PROVE  f[s] = Append(f[s \ {Taken(s)}],
                        [template |-> Taken(s)[2], term |-> during, groups |-> {group},
                         byPlan |-> TRUE])
    <3>1. pick[s] = Taken(s) /\ Taken(s) \in missing BY <1>1, <2>1, <2>8
    <3>2. f[s \ {Taken(s)}] \in Tables BY <2>6
    <3> HIDE DEF Taken
    <3>3. PICK t, row : t = f[s \ {Taken(s)}] /\ row = Taken(s) OBVIOUS
    <3>4. f[s] = step[<<row, t>>] BY <2>7, <2>8, <3>1, <3>3
    <3>5. f[s] = Append(t, Made(row, during, group)) BY <2>3, <3>1, <3>2, <3>3, <3>4
    <3> QED BY <3>3, <3>5 DEF Made
  <2>9. f = [s \in SUBSET missing |-> f[s]] BY <2>6
  <2>10. f[{}] = from BY <2>7
  <2>11. Fold(f)
    <3> HIDE DEF Taken
    <3> QED BY <2>8, <2>9, <2>10
  <2> QED BY <2>11
<1>4. Fold(table)
  <2> HIDE DEF Fold
  <2> QED BY <1>3
<1>5. CreateAll(from, missing, during, group) = table[missing]
  BY DEF CreateAll, FoldSet, MapThenFoldSet
<1>6. /\ table[{}] = from
      /\ \A s \in SUBSET missing : s # {} =>
           table[s] = Append(table[s \ {Taken(s)}], Made(Taken(s), during, group))
  <2> HIDE DEF table, Taken
  <2> QED BY <1>4 DEF Made
<1> HIDE DEF table
<1> DEFINE Cases == {s \in SUBSET missing : AppendedFor(s, from, table[s], during, group)}
<1>7. {} \in Cases BY <1>6 DEF AppendedFor, Tables
<1>8. ASSUME NEW s \in SUBSET missing, s # {}, s \ {Taken(s)} \in Cases PROVE s \in Cases
  <2>1. PICK x, t, u : x = Taken(s) /\ t = s \ {x} /\ u = table[t] OBVIOUS
  <2>2. x \in s BY <1>1, <1>8, <2>1
  <2>3. x \in ItemRows /\ t \subseteq ItemRows /\ x \notin t /\ s = t \cup {x} BY <2>1, <2>2
  <2> HIDE DEF Taken
  <2>4. AppendedFor(t, from, u, during, group) BY <1>8, <2>1
  <2>5. table[s] = Append(u, Made(x, during, group)) BY <1>6, <1>8, <2>1
  <2>6. AppendedFor(s, from, table[s], during, group) BY <2>3, <2>4, <2>5, OneIsAppended
  <2> QED BY <2>6
<1>9. \A s \in SUBSET missing : s # {} => \E x \in s : (s \ {x} \in Cases => s \in Cases)
  <2> HIDE DEF Cases
  <2> QED BY <1>1, <1>8
<1>10. \A s \in SUBSET missing : s \in Cases
  <2> HIDE DEF Cases
  <2> QED BY <1>7, <1>9, PartsInduction
<1> QED BY <1>5, <1>10

\* Growth of a table: rows stay, with their template and their term, and more
\* groups; what was deleted stays deleted.
Grows(from, to) ==
    /\ to \in Tables /\ Len(from) <= Len(to)
    /\ \A o \in 1 .. Len(from) :
         /\ from[o] = None <=> to[o] = None
         /\ from[o] # None =>
              /\ to[o].template = from[o].template /\ to[o].term = from[o].term
              /\ to[o].byPlan = from[o].byPlan /\ from[o].groups \subseteq to[o].groups

\* No template has two offerings by plans in a term.
OneMade(table) ==
    \A o, q \in Live(table) :
        /\ table[o].byPlan /\ table[q].byPlan
        /\ table[o].term = table[q].term
        /\ table[o].template = table[q].template
        => o = q

\* A list names no template twice.
OnceEach(listed) == \A row, other \in listed : row[2] = other[2] => row = other

\* The group is on an offering of every template that is listed.
OnAll(table, listed, during, group) ==
    \A row \in listed : \E o \in FromTemplate(table, during, row[2]) : group \in table[o].groups

\* What a transaction saw of the offerings is there, unless deleted.
SawRight(table, existing, during) ==
    /\ existing \in [Templates -> [id : Nat, attached : BOOLEAN] \cup {None}]
    /\ \A t \in Templates : existing[t] # None =>
         LET o == existing[t].id IN
         /\ o \in 1 .. Len(table)
         /\ table[o] = None \/ (table[o].term = during /\ table[o].template = t)

\* A row of a table is that of an offering, or NULL once it is deleted.
LEMMA LiveRows ==
    ASSUME NEW table \in Tables
    PROVE  /\ Live(table) = {o \in 1 .. Len(table) : table[o] # None}
           /\ \A o \in Live(table) : table[o] \in OfferingRow
BY DEF Live, Exists, Tables

\* Growth goes on, and begins with the table as it is.
LEMMA GrowsOn ==
    ASSUME NEW a \in Tables, NEW b, NEW c, Grows(a, b), Grows(b, c)
    PROVE  Grows(a, c)
<1>1. PICK n, m, k : n = Len(a) /\ m = Len(b) /\ k = Len(c) OBVIOUS
<1>2. b \in Tables /\ c \in Tables /\ n <= m /\ m <= k /\ n \in Nat /\ m \in Nat /\ k \in Nat
  BY <1>1 DEF Grows, Tables
<1>3. \A o \in 1 .. n : o \in 1 .. m BY <1>2
<1> QED BY <1>1, <1>2, <1>3 DEF Grows

\* A table that is left alone has grown by nothing.
LEMMA GrowsSelf ==
    ASSUME NEW a \in Tables
    PROVE  Grows(a, a)
BY DEF Grows, Tables

\* A growing table keeps what was created from a template and who is on it.
LEMMA GrowsKeeps ==
    ASSUME NEW from \in Tables, NEW to, Grows(from, to), NEW during, NEW t,
           NEW o \in FromTemplate(from, during, t)
    PROVE  o \in FromTemplate(to, during, t) /\ from[o].groups \subseteq to[o].groups
<1>1. o \in 1 .. Len(from) /\ from[o] # None /\ from[o].term = during /\ from[o].template = t
  BY LiveRows DEF FromTemplate
<1>2. to \in Tables /\ Len(from) <= Len(to) /\ Len(from) \in Nat /\ Len(to) \in Nat
  BY DEF Grows, Tables
<1>3. o \in 1 .. Len(to) BY <1>1, <1>2
<1> QED BY <1>1, <1>2, <1>3, LiveRows DEF Grows, FromTemplate

\* Joining adds the group to offerings that are there.
LEMMA JoinGrows ==
    ASSUME NEW table \in Tables, NEW ids \in SUBSET Live(table), NEW group \in PlanGroups
    PROVE  /\ Grows(table, Joined(table, ids, group))
           /\ Len(Joined(table, ids, group)) = Len(table)
           /\ \A o \in ids : group \in Joined(table, ids, group)[o].groups
           /\ OneMade(table) => OneMade(Joined(table, ids, group))
<1>1. PICK n \in Nat : n = Len(table) /\ DOMAIN table = 1 .. n BY DEF Tables
<1>2. PICK joined : joined = Joined(table, ids, group) OBVIOUS
<1>3. joined = [o \in 1 .. n |->
          IF o \in ids THEN [table[o] EXCEPT !.groups = @ \cup {group}] ELSE table[o]]
  BY <1>1, <1>2 DEF Joined
<1>4. ASSUME NEW o \in ids
      PROVE  /\ joined[o] \in OfferingRow /\ joined[o] # None
             /\ joined[o].groups = table[o].groups \cup {group}
             /\ joined[o].template = table[o].template /\ joined[o].term = table[o].term
             /\ joined[o].byPlan = table[o].byPlan
  <2>1. o \in 1 .. n /\ table[o] \in OfferingRow BY <1>1, LiveRows
  <2>2. PICK row : row = table[o] OBVIOUS
  <2>3. joined[o] = [row EXCEPT !.groups = @ \cup {group}] BY <1>3, <2>1, <2>2
  <2>4. [row EXCEPT !.groups = @ \cup {group}] \in OfferingRow BY <2>1, <2>2 DEF OfferingRow
  <2> QED BY <2>1, <2>2, <2>3, <2>4, PlansAssumption DEF OfferingRow
<1>5. \A o \in 1 .. n : o \notin ids => joined[o] = table[o] BY <1>3
<1>6. \A o \in 1 .. n : table[o] \in OfferingRow \cup {None} BY <1>1 DEF Tables
<1>7. joined \in Tables /\ Len(joined) = n
  <2>1. \A o \in 1 .. n : joined[o] \in OfferingRow \cup {None} BY <1>4, <1>5, <1>6
  <2>2. joined \in [1 .. n -> OfferingRow \cup {None}] BY <1>3, <2>1
  <2> QED BY <2>2 DEF Tables
<1>8. \A o \in ids : table[o] # None BY LiveRows
<1>9. Grows(table, joined)
  <2>1. \A o \in 1 .. n :
         /\ table[o] = None <=> joined[o] = None
         /\ table[o] # None =>
              /\ joined[o].template = table[o].template /\ joined[o].term = table[o].term
              /\ joined[o].byPlan = table[o].byPlan /\ table[o].groups \subseteq joined[o].groups
    <3> TAKE o \in 1 .. n
    <3>1. CASE o \in ids BY <1>4, <1>8, <3>1
    <3>2. CASE o \notin ids BY <1>5, <3>2
    <3> QED BY <3>1, <3>2
  <2> QED BY <1>1, <1>7, <2>1 DEF Grows
<1>10. OneMade(table) => OneMade(joined)
  <2> SUFFICES ASSUME OneMade(table), NEW o \in Live(joined), NEW q \in Live(joined),
                      joined[o].byPlan, joined[q].byPlan, joined[o].term = joined[q].term,
                      joined[o].template = joined[q].template
               PROVE  o = q
    BY DEF OneMade
  <2>1. \A i \in Live(joined) : i \in Live(table) BY <1>1, <1>7, <1>9, LiveRows DEF Grows
  <2>2. \A i \in Live(table) : /\ joined[i].template = table[i].template
                               /\ joined[i].term = table[i].term
                               /\ joined[i].byPlan = table[i].byPlan
    BY <1>9, LiveRows DEF Grows
  <2> QED BY <2>1, <2>2 DEF OneMade
<1> QED BY <1>1, <1>2, <1>4, <1>7, <1>9, <1>10

\* What a plan's items do to a table, if what was seen is there still.
LEMMA PlanIsApplied ==
    ASSUME NEW table \in Tables, NEW existing, NEW listed \in SUBSET ItemRows, IsFiniteSet(listed),
           NEW during \in TermNumbers, NEW group \in PlanGroups, SawRight(table, existing, during),
           \A row \in listed : existing[row[2]] # None => table[existing[row[2]].id] # None
    PROVE  LET new == Applied(table, existing, listed, during, group) IN
           /\ Grows(table, new)
           /\ OnAll(new, listed, during, group)
           /\ /\ OneMade(table) /\ OnceEach(listed)
              /\ \A row \in listed :
                   existing[row[2]] = None => FromTemplate(table, during, row[2]) = {}
              => OneMade(new)
<1>1. PICK missing : missing = {row \in listed : existing[row[2]] = None} OBVIOUS
<1>2. PICK found : found = {existing[row[2]].id : row \in listed \ missing} OBVIOUS
<1>3. PICK joined : joined = Joined(table, found, group) OBVIOUS
<1>4. PICK new : new = Applied(table, existing, listed, during, group) OBVIOUS
<1>5. new = CreateAll(joined, missing, during, group)
  BY <1>1, <1>2, <1>3, <1>4 DEF Applied, CreateAll
<1>6. ASSUME NEW row \in listed, row \notin missing
      PROVE  existing[row[2]].id \in FromTemplate(table, during, row[2])
  <2>1. row[2] \in Templates /\ existing[row[2]] # None BY <1>1, <1>6 DEF ItemRows
  <2>2. PICK o : o = existing[row[2]].id OBVIOUS
  <2>3. /\ o \in 1 .. Len(table) /\ table[o] # None
        /\ table[o].term = during /\ table[o].template = row[2]
    BY <2>1, <2>2 DEF SawRight
  <2> QED BY <2>2, <2>3, LiveRows DEF FromTemplate
<1>7. found \in SUBSET Live(table) BY <1>2, <1>6 DEF FromTemplate
<1>8. /\ Grows(table, joined) /\ Len(joined) = Len(table) /\ joined \in Tables
      /\ \A o \in found : group \in joined[o].groups
      /\ OneMade(table) => OneMade(joined)
  BY <1>3, <1>7, JoinGrows DEF Grows
<1>9. missing \in SUBSET ItemRows /\ IsFiniteSet(missing) /\ missing \subseteq listed
  BY <1>1, FS_Subset
<1>10. AppendedFor(missing, joined, new, during, group) BY <1>5, <1>8, <1>9, AllAreAppended
<1>11. PICK n, m : n = Len(joined) /\ m = Len(new) OBVIOUS
<1>12. n \in Nat /\ m \in Nat /\ n <= m /\ new \in Tables
  BY <1>8, <1>10, <1>11 DEF AppendedFor, Tables
<1>13. \A o \in 1 .. n : new[o] = joined[o] /\ o \in 1 .. m
  BY <1>10, <1>11, <1>12 DEF AppendedFor
<1>14. Grows(joined, new) BY <1>11, <1>12, <1>13 DEF Grows
<1>15. Grows(table, new) BY <1>8, <1>14, GrowsOn
<1>16. ASSUME NEW row \in listed
       PROVE  \E o \in FromTemplate(new, during, row[2]) : group \in new[o].groups
  <2>1. CASE row \in missing
    <3>1. PICK o \in 1 .. m : o > n /\ new[o] = Made(row, during, group)
      BY <1>10, <1>11, <2>1 DEF AppendedFor
    <3>2. row \in ItemRows BY <1>9, <2>1
    <3>3. new[o] \in OfferingRow BY <3>1, <3>2 DEF Made, OfferingRow, ItemRows
    <3>4. new[o] # None BY <3>3, PlansAssumption
    <3>5. o \in FromTemplate(new, during, row[2])
      BY <1>11, <1>12, <3>1, <3>4, LiveRows DEF FromTemplate, Made
    <3> QED BY <3>1, <3>5 DEF Made
  <2>2. CASE row \notin missing
    <3>1. PICK o : o = existing[row[2]].id OBVIOUS
    <3>2. o \in FromTemplate(table, during, row[2]) /\ o \in found BY <1>2, <1>6, <2>2, <3>1
    <3>3. o \in FromTemplate(joined, during, row[2]) BY <1>8, <3>2, GrowsKeeps
    <3>4. o \in FromTemplate(new, during, row[2]) /\ joined[o].groups \subseteq new[o].groups
      BY <1>8, <1>14, <3>3, GrowsKeeps
    <3> QED BY <1>8, <3>2, <3>4
  <2> QED BY <2>1, <2>2
<1>17. ASSUME OneMade(table), OnceEach(listed),
              \A row \in listed :
                existing[row[2]] = None => FromTemplate(table, during, row[2]) = {}
       PROVE  OneMade(new)
  <2> SUFFICES ASSUME NEW o \in Live(new), NEW q \in Live(new),
                      new[o].byPlan, new[q].byPlan, new[o].term = new[q].term,
                      new[o].template = new[q].template
               PROVE  o = q
    BY DEF OneMade
  <2>1. o \in 1 .. m /\ q \in 1 .. m /\ new[o] # None /\ new[q] # None BY <1>11, <1>12, LiveRows
  <2>2. ASSUME NEW i \in 1 .. m, NEW j \in 1 .. m, i > n, ~(j > n), new[j] # None,
               new[i].term = new[j].term, new[i].template = new[j].template
        PROVE  FALSE
    <3>1. PICK row \in missing : new[i] = Made(row, during, group)
      BY <1>10, <1>11, <2>2 DEF AppendedFor
    <3>2. FromTemplate(table, during, row[2]) = {} BY <1>1, <1>9, <1>17, <3>1
    <3>3. j \in 1 .. n /\ new[j] = joined[j] BY <1>12, <1>13, <2>2
    <3>4. joined[j].term = during /\ joined[j].template = row[2] /\ joined[j] # None
      BY <2>2, <3>1, <3>3 DEF Made
    <3>5. /\ table[j] # None
          /\ joined[j].template = table[j].template /\ joined[j].term = table[j].term
      BY <1>8, <1>11, <3>3, <3>4 DEF Grows
    <3>6. j \in FromTemplate(table, during, row[2])
      BY <1>8, <1>11, <3>3, <3>4, <3>5, LiveRows DEF FromTemplate
    <3> QED BY <3>2, <3>6
  <2>3. CASE o > n /\ q > n
    <3>1. \A row, other \in missing : row[2] = other[2] => row = other BY <1>9, <1>17 DEF OnceEach
    <3> QED BY <1>10, <1>11, <2>1, <2>3, <3>1 DEF AppendedFor
  <2>4. CASE ~(o > n) /\ ~(q > n)
    <3>1. o \in 1 .. n /\ q \in 1 .. n BY <1>12, <2>1, <2>4
    <3>2. new[o] = joined[o] /\ new[q] = joined[q] BY <1>13, <3>1
    <3>3. o \in Live(joined) /\ q \in Live(joined) BY <1>8, <1>11, <2>1, <3>1, <3>2, LiveRows
    <3> QED BY <1>8, <1>17, <3>2, <3>3 DEF OneMade
  <2> QED BY <2>1, <2>2, <2>3, <2>4
<1> QED BY <1>4, <1>15, <1>16, <1>17 DEF OnAll

\* What is read of a table is what is in it.
LEMMA ReadsAreRight ==
    ASSUME NEW table \in Tables, NEW during, NEW group
    PROVE  LET existing == ExistingByTemplate(table, during, group) IN
           /\ SawRight(table, existing, during)
           /\ \A t \in Templates :
                /\ existing[t] = None <=> FromTemplate(table, during, t) = {}
                /\ existing[t] # None => table[existing[t].id] # None
<1>1. PICK existing : existing = ExistingByTemplate(table, during, group) OBVIOUS
<1> DEFINE one(t) == CHOOSE o \in FromTemplate(table, during, t) : TRUE
<1>2. existing = [t \in Templates |->
          IF FromTemplate(table, during, t) = {} THEN None
          ELSE [id |-> one(t), attached |-> group \in table[one(t)].groups]]
  BY <1>1 DEF ExistingByTemplate
<1>3. \A t : FromTemplate(table, during, t) # {} => one(t) \in FromTemplate(table, during, t)
  OBVIOUS
<1> HIDE DEF one
<1>4. ASSUME NEW t \in Templates, FromTemplate(table, during, t) # {}
      PROVE  /\ existing[t] \in [id : Nat, attached : BOOLEAN] /\ existing[t] # None
             /\ existing[t].id \in 1 .. Len(table)
             /\ table[existing[t].id] # None
             /\ table[existing[t].id].term = during /\ table[existing[t].id].template = t
  <2>1. one(t) \in FromTemplate(table, during, t) BY <1>3, <1>4
  <2>2. /\ one(t) \in 1 .. Len(table) /\ table[one(t)] # None
        /\ table[one(t)].term = during /\ table[one(t)].template = t
    BY <2>1, LiveRows DEF FromTemplate
  <2>3. existing[t] = [id |-> one(t), attached |-> group \in table[one(t)].groups]
    BY <1>2, <1>4
  <2>4. existing[t] \in [id : Nat, attached : BOOLEAN] /\ existing[t].id = one(t)
    BY <2>2, <2>3
  <2> QED BY <2>2, <2>4, PlansAssumption
<1>5. \A t \in Templates : FromTemplate(table, during, t) = {} => existing[t] = None BY <1>2
<1>6. existing \in [Templates -> [id : Nat, attached : BOOLEAN] \cup {None}]
  <2>1. \A t \in Templates : existing[t] \in [id : Nat, attached : BOOLEAN] \cup {None}
    BY <1>4, <1>5
  <2>2. existing = [t \in Templates |-> existing[t]] BY <1>2
  <2> QED BY <2>1, <2>2
<1>7. SawRight(table, existing, during) BY <1>4, <1>5, <1>6 DEF SawRight
<1> QED BY <1>1, <1>4, <1>5, <1>7

\* Plans and their items are finite.
ItemsHold == \A p \in Plans : items[p] \in SUBSET ItemRows /\ IsFiniteSet(items[p])

\* One entry of a batch.
LEMMA OneAdvances ==
    ASSUME ItemsHold, NEW table \in Tables, NEW entry \in PlanGroups \X Plans \X TermNumbers
    PROVE  LET new == Advanced(table, entry)
               listed == items[entry[2]]
           IN  /\ Grows(table, new)
               /\ Applicable(listed, ExistingByTemplate(table, entry[3], entry[1]))
                    => OnAll(new, listed, entry[3], entry[1])
               /\ OneMade(table) /\ OnceEach(listed) => OneMade(new)
<1>1. PICK group \in PlanGroups, p \in Plans, during \in TermNumbers :
        group = entry[1] /\ p = entry[2] /\ during = entry[3]
  OBVIOUS
<1>2. PICK existing : existing = ExistingByTemplate(table, during, group) OBVIOUS
<1>3. PICK listed : listed = items[p] OBVIOUS
<1>4. listed \in SUBSET ItemRows /\ IsFiniteSet(listed) BY <1>3 DEF ItemsHold
<1>5. CASE Applicable(listed, existing)
  <2>1. Advanced(table, entry) = Applied(table, existing, listed, during, group)
    BY <1>1, <1>2, <1>3, <1>5 DEF Advanced
  <2>2. \A row \in listed : row[2] \in Templates BY <1>4 DEF ItemRows
  <2>3. SawRight(table, existing, during) BY <1>2, ReadsAreRight
  <2>4. \A row \in listed : /\ existing[row[2]] # None => table[existing[row[2]].id] # None
                            /\ existing[row[2]] = None => FromTemplate(table, during, row[2]) = {}
    BY <1>2, <2>2, ReadsAreRight
  <2>5. /\ Grows(table, Applied(table, existing, listed, during, group))
        /\ OnAll(Applied(table, existing, listed, during, group), listed, during, group)
        /\ OneMade(table) /\ OnceEach(listed) =>
             OneMade(Applied(table, existing, listed, during, group))
    BY <1>4, <2>3, <2>4, PlanIsApplied
  <2> QED BY <1>1, <1>3, <2>1, <2>5
<1>6. CASE ~Applicable(listed, existing)
  <2>1. Advanced(table, entry) = table BY <1>1, <1>2, <1>3, <1>6 DEF Advanced
  <2> QED BY <1>1, <1>2, <1>3, <1>6, <2>1, GrowsSelf
<1> QED BY <1>5, <1>6

\* What can be applied can still be applied to a table that has grown.
LEMMA StillApplicable ==
    ASSUME NEW from \in Tables, NEW to, Grows(from, to), NEW during, NEW group,
           NEW listed \in SUBSET ItemRows,
           Applicable(listed, ExistingByTemplate(from, during, group))
    PROVE  Applicable(listed, ExistingByTemplate(to, during, group))
<1>1. to \in Tables BY DEF Grows
<1>2. \A row \in listed : row[2] \in Templates BY DEF ItemRows
<1>3. PICK was, is : /\ was = ExistingByTemplate(from, during, group)
                     /\ is = ExistingByTemplate(to, during, group)
  OBVIOUS
<1>4. \A t \in Templates : /\ was[t] = None <=> FromTemplate(from, during, t) = {}
                           /\ is[t] = None <=> FromTemplate(to, during, t) = {}
  BY <1>1, <1>3, ReadsAreRight
<1>5. \A t \in Templates : was[t] # None => is[t] # None BY <1>4, GrowsKeeps
<1>6. listed # {} /\ \A row \in listed : row[2] \in Incomplete => was[row[2]] # None
  BY <1>3 DEF Applicable
<1>7. \A row \in listed : row[2] \in Incomplete => is[row[2]] # None BY <1>2, <1>5, <1>6
<1> QED BY <1>3, <1>6, <1>7 DEF Applicable

\* A group that is on all of a plan stays so while the table grows.
LEMMA OnAllStays ==
    ASSUME NEW from \in Tables, NEW to, Grows(from, to), NEW during, NEW group, NEW listed,
           OnAll(from, listed, during, group)
    PROVE  OnAll(to, listed, during, group)
<1> SUFFICES ASSUME NEW row \in listed
             PROVE  \E o \in FromTemplate(to, during, row[2]) : group \in to[o].groups
  BY DEF OnAll
<1>1. PICK o \in FromTemplate(from, during, row[2]) : group \in from[o].groups BY DEF OnAll
<1> QED BY <1>1, GrowsKeeps

\* advance-all, entry by entry.
AdvanceAll(table, order) == FoldLeft(Advanced, table, order)

\* The tables a batch goes through, one for each part of its entries.
Batch(table, order, sofar) ==
    /\ sofar \in [SUBSET (DOMAIN order) -> Tables]
    /\ AdvanceAll(table, order) = sofar[DOMAIN order]
    /\ sofar[{}] = table
    /\ \A s \in SUBSET (DOMAIN order) : s # {} =>
          \E i \in s : sofar[s] = Advanced(sofar[s \ {i}], order[i])

\* The batch is the fold over the order in which its entries come.
LEMMA BatchExists ==
    ASSUME ItemsHold, NEW table \in Tables, NEW n \in Nat,
           NEW order \in [1 .. n -> PlanGroups \X Plans \X TermNumbers]
    PROVE  \E sofar : Batch(table, order, sofar)
<1> DEFINE D == DOMAIN order
           Fold(f) == f = [s \in SUBSET D |->
                             IF s = {} THEN table ELSE Advanced(f[s \ {Max(s)}], order[Max(s)])]
           sofar == CHOOSE f : Fold(f)
<1>1. IsFiniteSet(D) /\ D \subseteq Nat BY FS_Interval
<1>2. \A s \in SUBSET D : s # {} => Max(s) \in s
  <2> TAKE s \in SUBSET D
  <2>1. IsFiniteSet(s) /\ s \in SUBSET Nat BY <1>1, FS_Subset
  <2> QED BY <2>1, GreatestOf
<1>3. \A i \in D : \A t \in Tables : Advanced(t, order[i]) \in Tables
  <2> TAKE i \in D
  <2> TAKE t \in Tables
  <2>1. order[i] \in PlanGroups \X Plans \X TermNumbers OBVIOUS
  <2> QED BY <2>1, OneAdvances DEF Grows
<1>4. PICK f \in [SUBSET D -> Tables] : Fold(f)
  <2>1. PICK pick : pick = [s \in SUBSET D |-> Max(s)] OBVIOUS
  <2>2. PICK step : step = [z \in D \X Tables |-> Advanced(z[2], order[z[1]])] OBVIOUS
  <2>3. \A i \in D : \A t \in Tables : step[<<i, t>>] = Advanced(t, order[i]) BY <2>2
  <2>4. step \in [D \X Tables -> Tables]
    <3> HIDE DEF D
    <3>1. \A z \in D \X Tables : z[1] \in D /\ z[2] \in Tables OBVIOUS
    <3>2. \A z \in D \X Tables : Advanced(z[2], order[z[1]]) \in Tables BY <1>3, <3>1
    <3> QED BY <2>2, <3>2
  <2>5. \A s \in SUBSET D : s # {} => pick[s] \in s BY <1>2, <2>1
  <2> HIDE DEF D
  <2>6. PICK f \in [SUBSET D -> Tables] : Folded(D, pick, table, step, f)
    BY <1>1, <2>4, <2>5, FoldExists
  <2>7. \A s \in SUBSET D : f[s] = (IF s = {} THEN table ELSE step[<<pick[s], f[s \ {pick[s]}]>>])
    BY <2>6 DEF Folded
  <2>8. ASSUME NEW s \in SUBSET D, s # {}
        PROVE  f[s] = Advanced(f[s \ {Max(s)}], order[Max(s)])
    <3>1. pick[s] = Max(s) /\ Max(s) \in D BY <1>2, <2>1, <2>8
    <3>2. PICK i, t : i = Max(s) /\ t = f[s \ {Max(s)}] OBVIOUS
    <3>3. i \in D /\ t \in Tables BY <2>6, <3>1, <3>2
    <3>4. f[s] = step[<<i, t>>] BY <2>7, <2>8, <3>1, <3>2
    <3> QED BY <2>3, <3>2, <3>3, <3>4
  <2>9. f = [s \in SUBSET D |-> f[s]] BY <2>6
  <2>10. f[{}] = table BY <2>7
  <2> QED BY <2>6, <2>8, <2>9, <2>10
<1>5. Fold(sofar)
  <2> HIDE DEF Fold
  <2> QED BY <1>4
<1>6. AdvanceAll(table, order) = sofar[D]
  BY DEF AdvanceAll, FoldLeft, MapThenFoldSet
<1>7. /\ sofar[{}] = table
      /\ \A s \in SUBSET D : s # {} => sofar[s] = Advanced(sofar[s \ {Max(s)}], order[Max(s)])
  <2> HIDE DEF sofar
  <2> QED BY <1>5
<1> HIDE DEF sofar
<1>8. sofar = [s \in SUBSET D |-> sofar[s]] BY <1>5
<1> HIDE DEF D
<1> DEFINE Cases == {s \in SUBSET D : sofar[s] \in Tables}
<1>9. {} \in Cases BY <1>7
<1>10. ASSUME NEW s \in SUBSET D, s # {}, s \ {Max(s)} \in Cases PROVE s \in Cases
  <2>1. PICK i, t : i = Max(s) /\ t = sofar[s \ {Max(s)}] OBVIOUS
  <2>2. i \in D /\ t \in Tables /\ sofar[s] = Advanced(t, order[i])
    BY <1>2, <1>7, <1>10, <2>1
  <2>3. sofar[s] \in Tables BY <1>3, <2>2
  <2> QED BY <2>3
<1>11. \A s \in SUBSET D : s # {} => \E x \in s : (s \ {x} \in Cases => s \in Cases)
  <2> HIDE DEF Cases
  <2> QED BY <1>2, <1>10
<1>12. \A s \in SUBSET D : s \in Cases
  <2> HIDE DEF Cases
  <2> QED BY <1>1, <1>9, <1>11, PartsInduction
<1>13. sofar \in [SUBSET D -> Tables] BY <1>8, <1>12
<1>14. ASSUME NEW s \in SUBSET D, s # {}
       PROVE  \E i \in s : sofar[s] = Advanced(sofar[s \ {i}], order[i])
  BY <1>2, <1>7, <1>14
<1>15. Batch(table, order, sofar) BY <1>6, <1>7, <1>13, <1>14 DEF Batch, D
<1> QED BY <1>15

\* A batch that has run: the table has grown, no template was made twice, and
\* every group that could be advanced is on the plan it was to be advanced to.
LEMMA AllAdvance ==
    ASSUME ItemsHold, NEW table \in Tables, NEW n \in Nat,
           NEW order \in [1 .. n -> PlanGroups \X Plans \X TermNumbers]
    PROVE  LET new == AdvanceAll(table, order) IN
           /\ Grows(table, new)
           /\ OneMade(table) /\ (\A p \in Plans : OnceEach(items[p])) => OneMade(new)
           /\ \A i \in 1 .. n : LET entry == order[i] IN
                Applicable(items[entry[2]], ExistingByTemplate(table, entry[3], entry[1]))
                  => OnAll(new, items[entry[2]], entry[3], entry[1])
<1>1. PICK D : D = 1 .. n OBVIOUS
<1>2. DOMAIN order = D /\ IsFiniteSet(D) BY <1>1, FS_Interval
<1>3. PICK sofar : Batch(table, order, sofar) BY BatchExists
<1>4. /\ sofar \in [SUBSET D -> Tables]
      /\ AdvanceAll(table, order) = sofar[D]
      /\ sofar[{}] = table
      /\ \A s \in SUBSET D : s # {} =>
            \E i \in s : sofar[s] = Advanced(sofar[s \ {i}], order[i])
  BY <1>2, <1>3 DEF Batch
<1> DEFINE Could(i) == Applicable(items[order[i][2]],
                                  ExistingByTemplate(table, order[i][3], order[i][1]))
           Does(t, i) == OnAll(t, items[order[i][2]], order[i][3], order[i][1])
           Right(s, t) ==
             /\ Grows(table, t)
             /\ OneMade(table) /\ (\A p \in Plans : OnceEach(items[p])) => OneMade(t)
             /\ \A i \in s : Could(i) => Does(t, i)
           Cases == {s \in SUBSET D : Right(s, sofar[s])}
<1>5. {} \in Cases BY <1>4, GrowsSelf
<1>6. ASSUME NEW s \in SUBSET D, s # {}
      PROVE  \E x \in s : (s \ {x} \in Cases => s \in Cases)
  <2>1. PICK i \in s : sofar[s] = Advanced(sofar[s \ {i}], order[i]) BY <1>4, <1>6
  <2>2. PICK t, u, v : t = s \ {i} /\ u = sofar[t] /\ v = sofar[s] OBVIOUS
  <2>3. u \in Tables /\ v = Advanced(u, order[i]) BY <1>4, <2>1, <2>2
  <2>4. order[i] \in PlanGroups \X Plans \X TermNumbers BY <1>1
  <2>5. order[i][2] \in Plans BY <2>4
  <2>6. /\ Grows(u, v)
        /\ Applicable(items[order[i][2]], ExistingByTemplate(u, order[i][3], order[i][1]))
             => Does(v, i)
        /\ OneMade(u) /\ OnceEach(items[order[i][2]]) => OneMade(v)
    BY <2>3, <2>4, OneAdvances
  <2>7. ASSUME Right(t, u) PROVE Right(s, v)
    <3>1. Grows(table, v) BY <2>6, <2>7, GrowsOn
    <3>2. ASSUME OneMade(table), \A p \in Plans : OnceEach(items[p]) PROVE OneMade(v)
      BY <2>5, <2>6, <2>7, <3>2
    <3>3. ASSUME NEW j \in s, Could(j) PROVE Does(v, j)
      <4>1. CASE j = i
        <5>1. items[order[i][2]] \in SUBSET ItemRows BY <2>5 DEF ItemsHold
        <5>2. Could(i) BY <3>3, <4>1
        <5>3. Grows(table, u) BY <2>7
        <5>4. Applicable(items[order[i][2]], ExistingByTemplate(u, order[i][3], order[i][1]))
          BY <5>1, <5>2, <5>3, StillApplicable
        <5> HIDE DEF Does
        <5> QED BY <2>6, <4>1, <5>4
      <4>2. CASE j # i
        <5>1. Does(u, j) BY <2>2, <2>7, <3>3, <4>2
        <5> QED BY <2>3, <2>6, <5>1, OnAllStays
      <4> QED BY <4>1, <4>2
    <3> HIDE DEF Could, Does
    <3> QED BY <3>1, <3>2, <3>3
  <2> HIDE DEF Right
  <2>8. t \in Cases => s \in Cases BY <2>2, <2>7
  <2> QED BY <2>2, <2>8
<1>7. \A s \in SUBSET D : s \in Cases
  <2> HIDE DEF Cases
  <2> QED BY <1>2, <1>5, <1>6, PartsInduction
<1>8. Right(D, sofar[D])
  <2> HIDE DEF Right
  <2> QED BY <1>7
<1> QED BY <1>1, <1>4, <1>8

\* A batch does each of its entries.
LEMMA OrdersAreWhole ==
    ASSUME NEW entries \in SUBSET (PlanGroups \X Plans \X TermNumbers),
           NEW order \in Orders(entries)
    PROVE  \E n \in Nat : /\ order \in [1 .. n -> PlanGroups \X Plans \X TermNumbers]
                          /\ \A entry \in entries : \E i \in 1 .. n : order[i] = entry
<1>1. IsFiniteSet(PlanGroups \X Plans \X TermNumbers)
  <2> DEFINE Two == (PlanGroups \X Plans) \X TermNumbers
             f == [z \in Two |-> <<z[1][1], z[1][2], z[2]>>]
  <2>1. IsFiniteSet(TermNumbers) BY PlansAssumption, FS_Interval DEF TermNumbers
  <2>2. IsFiniteSet(Two) BY <2>1, PlansAssumption, FS_Product
  <2>3. \A z \in Two : f[z] \in PlanGroups \X Plans \X TermNumbers OBVIOUS
  <2>4. ASSUME NEW x \in PlanGroups \X Plans \X TermNumbers PROVE \E z \in Two : f[z] = x
    <3>1. PICK g \in PlanGroups, p \in Plans, t \in TermNumbers : x = <<g, p, t>> OBVIOUS
    <3>2. <<<<g, p>>, t>> \in Two OBVIOUS
    <3>3. f[<<<<g, p>>, t>>] = x BY <3>1, <3>2
    <3> QED BY <3>2, <3>3
  <2>5. f \in Surjection(Two, PlanGroups \X Plans \X TermNumbers) BY <2>3, <2>4 DEF Surjection
  <2> QED BY <2>2, <2>5, FS_Surjection
<1>2. IsFiniteSet(entries) BY <1>1, FS_Subset
<1>3. PICK n \in Nat : n = Cardinality(entries) BY <1>2, FS_CardinalityType
<1>4. order \in [1 .. n -> entries] /\ IsInjective(order) BY <1>3 DEF Orders
<1>5. PICK S : S = {order[i] : i \in 1 .. n} OBVIOUS
<1>6. S \subseteq entries BY <1>4, <1>5
<1>7. IsFiniteSet(1 .. n) /\ Cardinality(1 .. n) = n BY FS_Interval
<1>8. order \in Bijection(1 .. n, S)
  <2>1. order \in [1 .. n -> S] BY <1>4, <1>5
  <2>2. \A x \in S : \E i \in 1 .. n : order[i] = x BY <1>5
  <2> QED BY <1>4, <2>1, <2>2 DEF Bijection, Injection, Surjection
<1>9. Cardinality(S) = n BY <1>7, <1>8, FS_Bijection DEF ExistsBijection
<1>10. S = entries BY <1>2, <1>3, <1>6, <1>9, FS_Subset
<1> QED BY <1>4, <1>5, <1>10

\* What a transaction carries.
IsPlanning(w) ==
    \/ w = Quiet
    \/ /\ w.does = "apply"
       /\ w.rows \in SUBSET ItemRows /\ IsFiniteSet(w.rows)
       /\ w.term \in TermNumbers /\ w.group \in PlanGroups
       /\ SawRight(offering, w.existing, w.term)
    \/ /\ w.does = "advance"
       /\ w.entries \in SUBSET (PlanGroups \X Plans \X TermNumbers)
    \/ /\ w.does = "put"
       /\ w.of \in Plans /\ w.new \in SUBSET ItemRows /\ IsFiniteSet(w.new)

\* What one that is alone has read is what there is.
IsCurrentStill(w) ==
    /\ w.does = "apply" =>
         /\ OnceEach(w.rows)
         /\ \A row \in w.rows : w.existing[row[2]] = None
                                  => FromTemplate(offering, w.term, row[2]) = {}
    /\ w.does = "put" => OnceEach(w.new) /\ w.old = items[w.of]

\* Rows are rows, and what is on the way means rows there are, or were.
PlansTyped ==
    /\ DOMAIN items = Plans /\ ItemsHold /\ edits \in Nat
    /\ offering \in Tables
    /\ DOMAIN plan = Planners /\ \A c \in Planners : IsPlanning(plan[c])

\* While requests do not overlap there is one at most, and it has read what is.
PlansAlone == ~racing =>
    /\ \A c, d \in Planners : plan[c] # Quiet /\ plan[d] # Quiet => c = d
    /\ \A c \in Planners : IsCurrentStill(plan[c])
    /\ \A p \in Plans : OnceEach(items[p])
    /\ OneMade(offering)

PlansInv == PlansTyped /\ PlansAlone

\* Tables keep, or lose, what a transaction saw.
Follows(from, to) ==
    /\ to \in Tables /\ Len(from) <= Len(to)
    /\ \A o \in 1 .. Len(from) :
         \/ to[o] = None
         \/ from[o] # None /\ to[o].template = from[o].template /\ to[o].term = from[o].term

\* What was seen is there, or deleted, whatever another transaction did.
LEMMA SawRightStill ==
    ASSUME NEW from \in Tables, NEW to, Follows(from, to), NEW existing, NEW during,
           SawRight(from, existing, during)
    PROVE  SawRight(to, existing, during)
<1>1. PICK n, m : n = Len(from) /\ m = Len(to) OBVIOUS
<1>2. n \in Nat /\ m \in Nat /\ n <= m BY <1>1 DEF Follows, Tables
<1>3. ASSUME NEW t \in Templates, existing[t] # None
      PROVE  LET o == existing[t].id IN
             o \in 1 .. m /\ (to[o] = None \/ (to[o].term = during /\ to[o].template = t))
  <2>1. PICK o : o = existing[t].id OBVIOUS
  <2>2. o \in 1 .. n /\ (from[o] = None \/ (from[o].term = during /\ from[o].template = t))
    BY <1>1, <1>3, <2>1 DEF SawRight
  <2>3. o \in 1 .. m BY <1>2, <2>2
  <2>4. to[o] = None \/ (from[o] # None /\ to[o].template = from[o].template
                         /\ to[o].term = from[o].term)
    BY <1>1, <2>2 DEF Follows
  <2> QED BY <2>1, <2>2, <2>3, <2>4
<1> QED BY <1>1, <1>3 DEF SawRight

\* A table that has grown has kept them.
LEMMA GrowsFollows ==
    ASSUME NEW from, NEW to, Grows(from, to)
    PROVE  Follows(from, to)
BY DEF Grows, Follows

\* Nothing is on the way at first.
LEMMA PlansBegin == PlanInit => PlansInv
<1> SUFFICES ASSUME PlanInit PROVE PlansInv OBVIOUS
<1>1. ASSUME NEW p \in Plans
      PROVE  items[p] \in SUBSET ItemRows /\ IsFiniteSet(items[p]) /\ OnceEach(items[p])
  <2>1. PICK list \in SUBSET Templates : items[p] = {0} \X list
    <3>1. items[p] \in {{0} \X list : list \in SUBSET Templates} BY DEF PlanInit
    <3> QED BY <3>1
  <2>2. IsFiniteSet(list) /\ IsFiniteSet({0}) BY PlansAssumption, FS_Subset, FS_Singleton
  <2>3. IsFiniteSet({0} \X list) BY <2>2, FS_Product
  <2>4. \A row, other \in {0} \X list : row[2] = other[2] => row = other OBVIOUS
  <2>5. {0} \X list \subseteq ItemRows BY DEF ItemRows
  <2> QED BY <2>1, <2>3, <2>4, <2>5 DEF OnceEach
<1>2. offering = <<>> /\ offering \in Tables BY DEF PlanInit, Tables
<1>3. OneMade(offering) BY <1>2, LiveRows DEF OneMade
<1>4. \A c \in Planners : plan[c] = Quiet BY DEF PlanInit
<1>5. \A c \in Planners : IsPlanning(plan[c]) /\ IsCurrentStill(plan[c])
  BY <1>4 DEF IsPlanning, IsCurrentStill, Quiet
<1>6. DOMAIN items = Plans /\ DOMAIN plan = Planners /\ edits \in Nat
  BY PlansAssumption DEF PlanInit
<1> QED BY <1>1, <1>2, <1>3, <1>4, <1>5, <1>6 DEF PlansInv, PlansTyped, PlansAlone, ItemsHold

\* A transaction begins, with what it has read.
LEMMA StartKeepsPlans ==
    ASSUME PlansInv, NEW c \in Planners, NEW what, Start(c, what), IsPlanning(what),
           ~racing => IsCurrentStill(what),
           UNCHANGED <<items, offering, racing>>, edits' \in Nat
    PROVE  PlansInv'
<1>1. /\ plan' = [plan EXCEPT ![c] = what]
      /\ racing \/ \A d \in Planners : plan[d] = Quiet
  BY DEF Start
<1>2. \A d \in Planners : plan'[d] = IF d = c THEN what ELSE plan[d]
  BY <1>1 DEF PlansInv, PlansTyped
<1>3. DOMAIN plan' = Planners BY <1>1 DEF PlansInv, PlansTyped
<1>4. \A w : /\ IsPlanning(w)' <=> IsPlanning(w)
             /\ IsCurrentStill(w)' <=> IsCurrentStill(w)
  BY DEF IsPlanning, IsCurrentStill, FromTemplate, Live
<1>5. ItemsHold' <=> ItemsHold BY DEF ItemsHold
<1>6. \A d \in Planners : IsPlanning(plan[d])' BY <1>2, <1>4 DEF PlansInv, PlansTyped
<1>7. PlansTyped' BY <1>3, <1>5, <1>6 DEF PlansInv, PlansTyped
<1>8. PlansAlone' BY <1>1, <1>2, <1>4 DEF PlansInv, PlansAlone
<1> QED BY <1>7, <1>8 DEF PlansInv

\* A transaction ends, and the tables are what it made of them.
LEMMA FinishKeepsPlans ==
    ASSUME PlansInv, NEW c \in Planners, plan[c] # Quiet, Finish(c), UNCHANGED <<racing, edits>>,
           DOMAIN items' = Plans, ItemsHold', Follows(offering, offering'),
           ~racing => OneMade(offering') /\ \A p \in Plans : OnceEach(items'[p])
    PROVE  PlansInv'
<1>1. \A d \in Planners : plan'[d] = IF d = c THEN Quiet ELSE plan[d]
  BY DEF Finish, PlansInv, PlansTyped
<1>2. DOMAIN plan' = Planners BY DEF Finish, PlansInv, PlansTyped
<1>3. offering' \in Tables BY DEF Follows
<1>4. ASSUME NEW w, IsPlanning(w) PROVE IsPlanning(w)'
  <2>1. ASSUME w.does = "apply", SawRight(offering, w.existing, w.term)
        PROVE  SawRight(offering', w.existing, w.term)
    BY <2>1, SawRightStill DEF PlansInv, PlansTyped
  <2> QED BY <1>4, <2>1 DEF IsPlanning
<1>5. IsPlanning(Quiet)' BY DEF IsPlanning
<1>6. \A d \in Planners : IsPlanning(plan[d])' BY <1>1, <1>4, <1>5 DEF PlansInv, PlansTyped
<1>7. PlansTyped' BY <1>2, <1>3, <1>6 DEF PlansInv, PlansTyped
<1>8. ~racing => \A d \in Planners : plan'[d] = Quiet BY <1>1 DEF PlansInv, PlansAlone
<1>9. IsCurrentStill(Quiet)' BY DEF IsCurrentStill, Quiet
<1>10. PlansAlone' BY <1>8, <1>9 DEF PlansAlone
<1> QED BY <1>7, <1>10 DEF PlansInv

\* A request of one statement on the offerings.
LEMMA StatementKeepsPlans ==
    ASSUME PlansInv, InOneStep, UNCHANGED <<items, plan, edits, racing>>,
           Follows(offering, offering'), ~racing => OneMade(offering')
    PROVE  PlansInv'
<1>1. offering' \in Tables BY DEF Follows
<1>2. ASSUME NEW w, IsPlanning(w) PROVE IsPlanning(w)'
  <2>1. ASSUME w.does = "apply", SawRight(offering, w.existing, w.term)
        PROVE  SawRight(offering', w.existing, w.term)
    BY <2>1, SawRightStill DEF PlansInv, PlansTyped
  <2> QED BY <1>2, <2>1 DEF IsPlanning
<1>3. ItemsHold' <=> ItemsHold BY DEF ItemsHold
<1>4. PlansTyped' BY <1>1, <1>2, <1>3 DEF PlansInv, PlansTyped
<1>5. ~racing => \A d \in Planners : plan[d] = Quiet BY DEF InOneStep
<1>6. IsCurrentStill(Quiet)' BY DEF IsCurrentStill, Quiet
<1>7. PlansAlone' BY <1>5, <1>6 DEF PlansAlone, PlansInv
<1> QED BY <1>4, <1>7 DEF PlansInv

\* The two ways offerings are changed in one statement.
LEMMA OneIsCreated ==
    ASSUME PlansInv, NEW row \in OfferingRow, ~row.byPlan, offering' = Append(offering, row)
    PROVE  Follows(offering, offering') /\ (OneMade(offering) => OneMade(offering'))
<1>1. PICK n \in Nat : n = Len(offering) BY DEF PlansInv, PlansTyped, Tables
<1>2. /\ offering' \in Tables /\ Len(offering') = n + 1 /\ offering'[n + 1] = row
      /\ \A o \in 1 .. n : offering'[o] = offering[o]
  BY <1>1 DEF PlansInv, PlansTyped, Tables
<1>3. Follows(offering, offering') BY <1>1, <1>2 DEF Follows
<1>4. ASSUME OneMade(offering), NEW o \in Live(offering'), NEW q \in Live(offering'),
             offering'[o].byPlan, offering'[q].byPlan, offering'[o].term = offering'[q].term,
             offering'[o].template = offering'[q].template
      PROVE  o = q
  <2>1. /\ o \in 1 .. n + 1 /\ q \in 1 .. n + 1
        /\ offering'[o] # None /\ offering'[q] # None
    BY <1>2, LiveRows
  <2>2. o # n + 1 /\ q # n + 1 BY <1>2, <1>4
  <2>3. o \in 1 .. n /\ q \in 1 .. n BY <2>1, <2>2
  <2>4. o \in Live(offering) /\ q \in Live(offering)
    BY <1>1, <1>2, <2>1, <2>3, LiveRows DEF PlansInv, PlansTyped
  <2> QED BY <1>2, <1>4, <2>3, <2>4 DEF OneMade
<1>5. OneMade(offering) => OneMade(offering') BY <1>4 DEF OneMade
<1> QED BY <1>3, <1>5

\* An offering is deleted; its number is not given again.
LEMMA OneIsDeleted ==
    ASSUME PlansInv, NEW o \in Live(offering), offering' = [offering EXCEPT ![o] = None]
    PROVE  Follows(offering, offering') /\ (OneMade(offering) => OneMade(offering'))
<1>1. PICK n \in Nat : n = Len(offering) BY DEF PlansInv, PlansTyped, Tables
<1>2. offering' \in Tables /\ Len(offering') = n
  <2>1. offering \in [1 .. n -> OfferingRow \cup {None}]
    BY <1>1 DEF PlansInv, PlansTyped, Tables
  <2>2. offering' \in [1 .. n -> OfferingRow \cup {None}] BY <2>1
  <2>3. PICK table : table = offering' OBVIOUS
  <2>4. table \in [1 .. n -> OfferingRow \cup {None}] BY <2>2, <2>3
  <2>5. table \in Tables /\ Len(table) = n BY <2>4 DEF Tables
  <2> QED BY <2>3, <2>5
<1>3. \A i \in 1 .. n : offering'[i] = None \/ offering'[i] = offering[i]
  BY <1>1 DEF PlansInv, PlansTyped, Tables
<1>4. Follows(offering, offering')
  <2>1. \A i \in 1 .. n :
          \/ offering'[i] = None
          \/ offering[i] # None /\ offering'[i].template = offering[i].template
             /\ offering'[i].term = offering[i].term
    BY <1>3
  <2>2. n <= n OBVIOUS
  <2> QED BY <1>1, <1>2, <2>1, <2>2 DEF Follows
<1>5. ASSUME NEW i \in Live(offering')
      PROVE  i \in Live(offering) /\ offering'[i] = offering[i]
  <2>1. i \in 1 .. n /\ offering'[i] # None BY <1>2, LiveRows
  <2>2. offering'[i] = offering[i] BY <1>3, <2>1
  <2>3. offering \in Tables BY DEF PlansInv, PlansTyped
  <2>4. i \in 1 .. Len(offering) /\ offering[i] # None BY <1>1, <2>1, <2>2
  <2> QED BY <2>2, <2>3, <2>4, LiveRows
<1>6. OneMade(offering) => OneMade(offering') BY <1>5 DEF OneMade
<1> QED BY <1>4, <1>6

\* An apply joins or makes what it has read is there or missing.
LEMMA ApplyDoes ==
    ASSUME PlansInv, NEW c \in Planners, ApplyCommits(c)
    PROVE  /\ Grows(offering, offering')
           /\ OnAll(offering', plan[c].rows, plan[c].term, plan[c].group)
           /\ ~racing => OneMade(offering')
<1>1. PICK w : w = plan[c] OBVIOUS
<1>2. /\ w.does = "apply" /\ StillFits(w)
      /\ offering' = Applied(offering, w.existing, w.rows, w.term, w.group)
  BY <1>1 DEF ApplyCommits
<1>3. IsPlanning(w) BY <1>1 DEF PlansInv, PlansTyped
<1>4. /\ w.rows \in SUBSET ItemRows /\ IsFiniteSet(w.rows)
      /\ w.term \in TermNumbers /\ w.group \in PlanGroups
      /\ SawRight(offering, w.existing, w.term)
  BY <1>2, <1>3 DEF IsPlanning, Quiet
<1>5. \A row \in w.rows : w.existing[row[2]] # None => offering[w.existing[row[2]].id] # None
  BY <1>2 DEF StillFits
<1>6. offering \in Tables BY DEF PlansInv, PlansTyped
<1>7. /\ Grows(offering, offering')
      /\ OnAll(offering', w.rows, w.term, w.group)
      /\ /\ OneMade(offering) /\ OnceEach(w.rows)
         /\ \A row \in w.rows : w.existing[row[2]] = None
                                  => FromTemplate(offering, w.term, row[2]) = {}
         => OneMade(offering')
  BY <1>2, <1>4, <1>5, <1>6, PlanIsApplied
<1>8. ~racing => OneMade(offering')
  <2> SUFFICES ASSUME ~racing PROVE OneMade(offering') OBVIOUS
  <2>1. IsCurrentStill(w) /\ OneMade(offering) BY <1>1 DEF PlansInv, PlansAlone
  <2> QED BY <1>2, <1>7, <2>1 DEF IsCurrentStill
<1> QED BY <1>1, <1>7, <1>8

\* Advancing does each entry of the batch.
LEMMA AdvanceDoes ==
    ASSUME PlansInv, NEW c \in Planners, AdvanceCommits(c)
    PROVE  /\ Grows(offering, offering')
           /\ ~racing => OneMade(offering')
           /\ \A entry \in plan[c].entries :
                Applicable(items[entry[2]], ExistingByTemplate(offering, entry[3], entry[1]))
                  => OnAll(offering', items[entry[2]], entry[3], entry[1])
<1>1. PICK w : w = plan[c] OBVIOUS
<1>2. PICK order \in Orders(w.entries) : offering' = AdvanceAll(offering, order)
  BY <1>1 DEF AdvanceCommits, AdvanceAll
<1>3. w.entries \in SUBSET (PlanGroups \X Plans \X TermNumbers)
  <2>1. w.does = "advance" /\ IsPlanning(w) BY <1>1 DEF AdvanceCommits, PlansInv, PlansTyped
  <2> QED BY <2>1 DEF IsPlanning, Quiet
<1>4. PICK n \in Nat : /\ order \in [1 .. n -> PlanGroups \X Plans \X TermNumbers]
                       /\ \A entry \in w.entries : \E i \in 1 .. n : order[i] = entry
  BY <1>2, <1>3, OrdersAreWhole
<1>5. offering \in Tables /\ ItemsHold BY DEF PlansInv, PlansTyped
<1>6. /\ Grows(offering, offering')
      /\ OneMade(offering) /\ (\A p \in Plans : OnceEach(items[p])) => OneMade(offering')
      /\ \A i \in 1 .. n :
           Applicable(items[order[i][2]], ExistingByTemplate(offering, order[i][3], order[i][1]))
             => OnAll(offering', items[order[i][2]], order[i][3], order[i][1])
  BY <1>2, <1>4, <1>5, AllAdvance
<1>7. ~racing => OneMade(offering') BY <1>6 DEF PlansInv, PlansAlone
<1> QED BY <1>1, <1>4, <1>6, <1>7

\* The list of a plan is replaced; what another request put there stays.
LEMMA PutKeepsPlans ==
    ASSUME PlansInv, NEW c \in Planners, PutItemsCommits(c)
    PROVE  PlansInv'
<1>1. PICK w : w = plan[c] OBVIOUS
<1>2. /\ w.does = "put" /\ Finish(c) /\ UNCHANGED <<offering, edits, racing>>
      /\ items' = [items EXCEPT ![w.of] = (@ \ w.old) \cup w.new]
  BY <1>1 DEF PutItemsCommits
<1>3. w.of \in Plans /\ w.new \in SUBSET ItemRows /\ IsFiniteSet(w.new)
  <2>1. IsPlanning(w) BY <1>1 DEF PlansInv, PlansTyped
  <2> QED BY <1>2, <2>1 DEF IsPlanning, Quiet
<1>4. DOMAIN items = Plans /\ ItemsHold BY DEF PlansInv, PlansTyped
<1>5. \A p \in Plans : items'[p] = IF p = w.of THEN (items[p] \ w.old) \cup w.new ELSE items[p]
  BY <1>2, <1>4
<1>6. ItemsHold'
  <2>1. \A p \in Plans : items'[p] \in SUBSET ItemRows /\ IsFiniteSet(items'[p])
    <3> TAKE p \in Plans
    <3>1. IsFiniteSet(items[p] \ w.old) BY <1>4, FS_Difference DEF ItemsHold
    <3>2. IsFiniteSet((items[p] \ w.old) \cup w.new) BY <1>3, <3>1, FS_Union
    <3> QED BY <1>3, <1>4, <1>5, <3>2 DEF ItemsHold
  <2> QED BY <2>1 DEF ItemsHold
<1>7. Follows(offering, offering')
  <2>1. Grows(offering, offering) BY GrowsSelf DEF PlansInv, PlansTyped
  <2> QED BY <1>2, <2>1, GrowsFollows
<1>8. ~racing => OneMade(offering') /\ \A p \in Plans : OnceEach(items'[p])
  <2> SUFFICES ASSUME ~racing PROVE OneMade(offering') /\ \A p \in Plans : OnceEach(items'[p])
    OBVIOUS
  <2>1. /\ OneMade(offering) /\ \A p \in Plans : OnceEach(items[p])
        /\ OnceEach(w.new) /\ w.old = items[w.of]
    BY <1>1, <1>2 DEF PlansInv, PlansAlone, IsCurrentStill
  <2>2. items'[w.of] = w.new BY <1>3, <1>5, <2>1
  <2> QED BY <1>2, <1>5, <2>1, <2>2
<1>9. plan[c] # Quiet BY <1>1, <1>2 DEF Quiet
<1>10. DOMAIN items' = Plans BY <1>2, <1>4
<1> QED BY <1>2, <1>6, <1>7, <1>8, <1>9, <1>10, FinishKeepsPlans

\* What transactions read when they begin.
LEMMA ReadsKeepPlans ==
    ASSUME PlansInv, NEW c \in Planners,
           \/ \E p \in Plans, t \in TermNumbers, g \in PlanGroups : ApplyReads(c, p, t, g)
           \/ \E p \in Plans, list \in SUBSET Templates : PutItemsReads(c, p, list)
           \/ AdvanceReads(c)
    PROVE  PlansInv'
<1>1. offering \in Tables /\ ItemsHold /\ edits \in Nat BY DEF PlansInv, PlansTyped
<1>2. ASSUME NEW p \in Plans, NEW t \in TermNumbers, NEW g \in PlanGroups, ApplyReads(c, p, t, g)
      PROVE  PlansInv'
  <2>1. PICK existing : existing = ExistingByTemplate(offering, t, g) OBVIOUS
  <2>2. PICK what : what = [does |-> "apply", rows |-> items[p], existing |-> existing,
                            term |-> t, group |-> g]
    OBVIOUS
  <2>3. Start(c, what) /\ UNCHANGED <<items, nextPlan, offering, edits, racing>>
    BY <1>2, <2>1, <2>2 DEF ApplyReads
  <2>4. /\ what.does = "apply" /\ what.rows = items[p] /\ what.existing = existing
        /\ what.term = t /\ what.group = g
    BY <2>2
  <2>5. /\ SawRight(offering, existing, t)
        /\ \A m \in Templates : existing[m] = None <=> FromTemplate(offering, t, m) = {}
    BY <1>1, <2>1, ReadsAreRight
  <2>6. IsPlanning(what) BY <1>1, <2>4, <2>5 DEF IsPlanning, ItemsHold
  <2>7. \A row \in items[p] : row[2] \in Templates BY <1>1 DEF ItemsHold, ItemRows
  <2>8. ~racing => IsCurrentStill(what)
    <3> SUFFICES ASSUME ~racing PROVE IsCurrentStill(what) OBVIOUS
    <3>1. OnceEach(items[p]) BY DEF PlansInv, PlansAlone
    <3> QED BY <2>4, <2>5, <2>7, <3>1 DEF IsCurrentStill
  <2> QED BY <1>1, <2>3, <2>6, <2>8, StartKeepsPlans
<1>3. ASSUME NEW p \in Plans, NEW list \in SUBSET Templates, PutItemsReads(c, p, list)
      PROVE  PlansInv'
  <2>1. edits' = edits + 1 /\ edits' \in Nat BY <1>1, <1>3 DEF PutItemsReads
  <2>2. PICK new : new = {edits'} \X list OBVIOUS
  <2>3. PICK what : what = [does |-> "put", of |-> p, old |-> items[p], new |-> new] OBVIOUS
  <2>4. Start(c, what) /\ UNCHANGED <<items, nextPlan, offering, racing>>
    BY <1>3, <2>2, <2>3 DEF PutItemsReads
  <2>5. what.does = "put" /\ what.of = p /\ what.old = items[p] /\ what.new = new BY <2>3
  <2>6. new \subseteq ItemRows /\ IsFiniteSet(new) /\ OnceEach(new)
    <3>1. IsFiniteSet(list) /\ IsFiniteSet({edits'}) BY PlansAssumption, FS_Subset, FS_Singleton
    <3>2. IsFiniteSet(new) BY <2>2, <3>1, FS_Product
    <3>3. \A row, other \in new : row[2] = other[2] => row = other BY <2>2
    <3> QED BY <2>1, <2>2, <3>2, <3>3 DEF ItemRows, OnceEach
  <2>7. IsPlanning(what) /\ IsCurrentStill(what)
    BY <2>5, <2>6 DEF IsPlanning, IsCurrentStill
  <2> QED BY <2>1, <2>4, <2>7, StartKeepsPlans
<1>4. ASSUME AdvanceReads(c) PROVE PlansInv'
  <2>1. PICK what : what = [does |-> "advance", entries |-> Advances(offering)] OBVIOUS
  <2>2. Start(c, what) /\ UNCHANGED <<items, nextPlan, offering, edits, racing>>
    BY <1>4, <2>1 DEF AdvanceReads
  <2>3. what.does = "advance" /\ what.entries = Advances(offering) BY <2>1
  <2>4. IsPlanning(what) /\ IsCurrentStill(what)
    BY <2>3 DEF IsPlanning, IsCurrentStill, Advances
  <2> QED BY <1>1, <2>2, <2>4, StartKeepsPlans
<1> QED BY <1>2, <1>3, <1>4

\* Each action keeps the invariant.
LEMMA PlansStep == PlansInv /\ [PlanNext]_planVars => PlansInv'
<1> SUFFICES ASSUME PlansInv, [PlanNext]_planVars PROVE PlansInv' OBVIOUS
<1>1. offering \in Tables /\ ItemsHold /\ DOMAIN items = Plans BY DEF PlansInv, PlansTyped
<1>2. Follows(offering, offering) BY <1>1, GrowsSelf, GrowsFollows
<1>3. ~racing => OneMade(offering) /\ \A p \in Plans : OnceEach(items[p])
  BY DEF PlansInv, PlansAlone
<1>4. ASSUME NEW c \in Planners, ApplyCommits(c) \/ AdvanceCommits(c) PROVE PlansInv'
  <2>1. Grows(offering, offering') /\ (~racing => OneMade(offering'))
    BY <1>4, ApplyDoes, AdvanceDoes
  <2>2. plan[c] # Quiet BY <1>4 DEF ApplyCommits, AdvanceCommits, Quiet
  <2>3. Finish(c) /\ UNCHANGED <<items, edits, racing>>
    BY <1>4 DEF ApplyCommits, AdvanceCommits
  <2>4. Follows(offering, offering') BY <2>1, GrowsFollows
  <2>5. ItemsHold' BY <1>1, <2>3 DEF ItemsHold
  <2> QED BY <1>1, <1>3, <2>1, <2>2, <2>3, <2>4, <2>5, FinishKeepsPlans
<1>5. ASSUME NEW c \in Planners, RollBack(c) PROVE PlansInv'
  <2>1. plan[c] # Quiet /\ Finish(c) /\ UNCHANGED <<items, offering, edits, racing>>
    BY <1>5 DEF RollBack
  <2>2. ItemsHold' BY <1>1, <2>1 DEF ItemsHold
  <2> QED BY <1>1, <1>2, <1>3, <2>1, <2>2, FinishKeepsPlans
<1>6. ASSUME NEW p \in Plans, NEW q \in Plans \cup {None}, SetNextPlan(p, q) PROVE PlansInv'
  <2>1. edits' \in Nat /\ UNCHANGED <<items, offering, plan, racing>>
    BY <1>6 DEF SetNextPlan, PlansInv, PlansTyped
  <2>2. \A w : /\ IsPlanning(w)' <=> IsPlanning(w)
               /\ IsCurrentStill(w)' <=> IsCurrentStill(w)
    BY <2>1 DEF IsPlanning, IsCurrentStill, FromTemplate, Live
  <2>3. ItemsHold' BY <1>1, <2>1 DEF ItemsHold
  <2>4. PlansTyped' BY <2>1, <2>2, <2>3 DEF PlansInv, PlansTyped
  <2>5. PlansAlone' BY <2>1, <2>2 DEF PlansInv, PlansAlone
  <2> QED BY <2>4, <2>5 DEF PlansInv
<1>7. ASSUME NEW t \in TermNumbers, NEW m \in Templates, NEW g \in PlanGroups, CreateByHand(t, m, g)
      PROVE  PlansInv'
  <2>1. PICK row : row = [template |-> m, term |-> t, groups |-> {g}, byPlan |-> FALSE] OBVIOUS
  <2>2. row \in OfferingRow /\ ~row.byPlan BY <2>1 DEF OfferingRow
  <2>3. /\ InOneStep /\ offering' = Append(offering, row)
        /\ UNCHANGED <<items, plan, edits, racing>>
    BY <1>7, <2>1 DEF CreateByHand
  <2> QED BY <1>3, <2>2, <2>3, OneIsCreated, StatementKeepsPlans
<1>8. ASSUME NEW o \in DOMAIN offering, DeleteOffering(o) PROVE PlansInv'
  <2>1. /\ InOneStep /\ o \in Live(offering) /\ offering' = [offering EXCEPT ![o] = None]
        /\ UNCHANGED <<items, plan, edits, racing>>
    BY <1>8 DEF DeleteOffering
  <2> QED BY <1>3, <2>1, OneIsDeleted, StatementKeepsPlans
<1>9. CASE UNCHANGED planVars
  <2>1. UNCHANGED <<items, offering, plan, edits, racing>> BY <1>9 DEF planVars
  <2>2. \A w : /\ IsPlanning(w)' <=> IsPlanning(w)
               /\ IsCurrentStill(w)' <=> IsCurrentStill(w)
    BY <2>1 DEF IsPlanning, IsCurrentStill, FromTemplate, Live
  <2>3. ItemsHold' BY <1>1, <2>1 DEF ItemsHold
  <2>4. PlansTyped' BY <2>1, <2>2, <2>3 DEF PlansInv, PlansTyped
  <2>5. PlansAlone' BY <2>1, <2>2 DEF PlansInv, PlansAlone
  <2> QED BY <2>4, <2>5 DEF PlansInv
<1> QED BY <1>4, <1>5, <1>6, <1>7, <1>8, <1>9, ReadsKeepPlans, PutKeepsPlans DEF PlanNext

\* The invariant holds of requests that overlap and of those that do not.
THEOREM PlansInvariance == PlanSpec => []PlansInv
BY PlansBegin, PlansStep, PTL DEF PlanSpec

\* Plans are followed, and once: an apply leaves the group on all of the plan,
\* advancing settles what it was asked for, and requests that do not overlap make
\* no template a second offering (offeringPlans.ts, offering-plan-apply, advance-all).
THEOREM PlansFollowed == PlanSpec => PlansAreFollowed
<1>1. PlansInv => PlansMakeOne BY DEF PlansInv, PlansAlone, PlansMakeOne, OneMade
<1>2. PlansInv /\ [PlanNext]_planVars =>
        [\A c \in Planners : ApplyCommits(c) =>
            \A row \in plan[c].rows :
                \E o \in FromTemplate(offering', plan[c].term, row[2]) :
                    plan[c].group \in offering'[o].groups]_planVars
  BY ApplyDoes DEF OnAll
<1>3. ASSUME PlansInv, NEW c \in Planners, AdvanceCommits(c),
             NEW entry \in plan[c].entries \cap Advances(offering')
      PROVE  ~Applicable(items[entry[2]], ExistingByTemplate(offering, entry[3], entry[1]))
  <2> SUFFICES ASSUME Applicable(items[entry[2]], ExistingByTemplate(offering, entry[3], entry[1]))
               PROVE  FALSE
    OBVIOUS
  <2>1. OnAll(offering', items[entry[2]], entry[3], entry[1]) BY <1>3, AdvanceDoes
  <2>2. PICK group, p, during : group = entry[1] /\ p = entry[2] /\ during = entry[3] OBVIOUS
  <2>3. /\ entry \in PlanGroups \X Plans \X TermNumbers
        /\ <<p, during>> \notin Applications(offering', group)
    BY <2>2 DEF Advances
  <2>4. p \in Plans /\ during \in TermNumbers BY <2>2, <2>3
  <2>5. PICK row \in items[p] : TRUE BY <2>2 DEF Applicable
  <2>6. PICK o \in FromTemplate(offering', during, row[2]) : group \in offering'[o].groups
    BY <2>1, <2>2, <2>5 DEF OnAll
  <2>7. /\ o \in Live(offering') /\ offering'[o].term = during
        /\ row[2] = offering'[o].template
    BY <2>6 DEF FromTemplate
  <2>8. <<p, during>> \in Applications(offering', group)
    BY <2>4, <2>5, <2>6, <2>7 DEF Applications
  <2> QED BY <2>3, <2>8
<1>4. PlansInv /\ [PlanNext]_planVars =>
        [\A c \in Planners : AdvanceCommits(c) /\ ~racing =>
            \A entry \in plan[c].entries \cap Advances(offering') :
                ~Applicable(items[entry[2]],
                            ExistingByTemplate(offering, entry[3], entry[1]))]_planVars
  BY <1>3
<1>5. PlanSpec => []PlansMakeOne BY <1>1, PlansInvariance, PTL
<1>6. PlanSpec => ApplyGivesThePlan
  BY <1>2, PlansInvariance, PTL DEF PlanSpec, ApplyGivesThePlan
<1>7. PlanSpec => AdvanceSettles
  BY <1>4, PlansInvariance, PTL DEF PlanSpec, AdvanceSettles
<1> QED BY <1>5, <1>6, <1>7 DEF PlansAreFollowed

-----------------------------------------------------------------------------
(***************************************************************************)
(* The planning side as it is checked                                      *)
(***************************************************************************)
\* A behaviour of the parts is one of each part.
LEMMA PartsFollow ==
    PlanningSpec => Spec /\ ExamSpec /\ AvailabilitySpec /\ CalendarSpec /\ PlanSpec
<1>1. PlanningInit => Init /\ ExamInit /\ AvailabilityInit /\ CalendarInit /\ PlanInit
  BY DEF PlanningInit
<1>2. [PlanningNext]_<<calendarVars, availabilityVars, examVars, planVars, vars, focus>>
        => [Next]_vars
  BY DEF PlanningNext
<1>3. [PlanningNext]_<<calendarVars, availabilityVars, examVars, planVars, vars, focus>>
        => [ExamNext]_examVars
  BY DEF PlanningNext
<1>4. [PlanningNext]_<<calendarVars, availabilityVars, examVars, planVars, vars, focus>>
        => [AvailabilityNext]_availabilityVars
  BY DEF PlanningNext
<1>5. PlanningSpec => Spec BY <1>1, <1>2, PTL DEF PlanningSpec, Spec
<1>6. PlanningSpec => ExamSpec BY <1>1, <1>3, PTL DEF PlanningSpec, ExamSpec
<1>7. PlanningSpec => AvailabilitySpec BY <1>1, <1>4, PTL DEF PlanningSpec, AvailabilitySpec
<1>8. [PlanningNext]_<<calendarVars, availabilityVars, examVars, planVars, vars, focus>>
        => [CalendarNext]_calendarVars
  BY DEF PlanningNext
<1>9. PlanningSpec => CalendarSpec BY <1>1, <1>8, PTL DEF PlanningSpec, CalendarSpec
<1>10. [PlanningNext]_<<calendarVars, availabilityVars, examVars, planVars, vars, focus>>
        => [PlanNext]_planVars
  BY DEF PlanningNext
<1>11. PlanningSpec => PlanSpec BY <1>1, <1>10, PTL DEF PlanningSpec, PlanSpec
<1> QED BY <1>5, <1>6, <1>7, <1>9, <1>11

\* Entries, windows, requests and exams are ones the code can have written, in
\* every behaviour the run follows and for all values of the constants.
THEOREM PlanningTyped == PlanningSpec => []PlanningTypeOK
<1>1. PlanningTypeOK <=> TypeOK /\ AvailabilityTypeOK /\ ExamTypeOK BY DEF PlanningTypeOK
<1> QED BY <1>1, PartsFollow, CacheTyped, AbsencesTyped, ExamsTyped, PTL

\* What a reviewer has decided stays decided: absences while reviewers do not
\* overlap, granted exams in any case (decision.post.ts, approve.post.ts,
\* reject.post.ts).
THEOREM DecisionsStayFinal == PlanningSpec => DecisionsAreFinal
BY PartsFollow, AbsencesAreFinal, GrantsAreFinal DEF DecisionsAreFinal

=============================================================================
