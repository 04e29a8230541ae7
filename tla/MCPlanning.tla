------------------------------ MODULE MCPlanning ------------------------------
(***************************************************************************)
(* The planning side of Calendry on small instances, and the cache in      *)
(* front of what it shows. The parts share no rows, so a behaviour follows *)
(* one of them, the focus, while the others stay where they begin: the     *)
(* instances add up instead of multiplying. Ids are shared between the     *)
(* parts: the cache's terms, readers and editors are g1, g2, a1, a2 and    *)
(* p1, p2.                                                                 *)
(***************************************************************************)
EXTENDS TermCalendar, Availability, ExamRequests, OfferingPlans, ScheduleCache, TLC

CONSTANTS m1, m2, p1, p2, g1, g2, a1, a2, r1, r2, q1, e1, e2, e3, t1, t2

VARIABLE focus

\* Day 0 is a Monday: a term from a Tuesday into its second week, and one that
\* begins on a Monday.
Span(first, last) == [first |-> first, last |-> last]
MCTerms == {Span(1, 9), Span(7, 12)}

\* Days of two blocks, with a break of their own on one weekday.
MCGrids == {[blocks |-> 2, start |-> 1, length |-> 2, gap |-> 0, days |-> {1, 4},
             breaks |-> [position \in {<<0, None>>} |-> 1]],
            [blocks |-> 2, start |-> 0, length |-> 1, gap |-> 1, days |-> {2, 5},
             breaks |-> [position \in {<<0, 2>>, <<0, None>>} |->
                            IF position = <<0, 2>> THEN 2 ELSE 3]]}

Period(kind, first, last) == [kind |-> kind, first |-> first, last |-> last]
MCPeriods == {Period("HOLIDAY", 0, 6), Period("HOLIDAY", 5, 8), Period("BREAK", 7, 13),
              Period("EXAM", 6, 7)}
MCWindows == {Span(3, None), Span(None, 6), Span(7, 10)}

MCTermDates == [t \in {t1, t2} |-> IF t = t1 THEN {Span(1, 9), Span(8, 16)}
                                    ELSE {Span(11, 20), Span(9, 20)}]
MCRanges == {Span(6, 7), Span(4, 8), Span(0, 6), Span(9, 12)}
MCPatterns == {[days |-> {1}, blocks |-> {0}, weeks |-> {}],
               [days |-> {}, blocks |-> {}, weeks |-> {}]}

MCPlacements == {[block |-> 0, length |-> 2], [block |-> 2, length |-> 1]}

\* Requests, planners, plans and groups are alike.
Alike == Permutations({a1, a2}) \cup Permutations({p1, p2}) \cup Permutations({g1, g2})

Parts == {"calendar", "availability", "exams", "plans", "cache"}

PlanningInit ==
    /\ focus \in Parts
    /\ CalendarInit /\ AvailabilityInit /\ ExamInit /\ PlanInit /\ Init
    /\ focus # "calendar" => term = CHOOSE t \in CalendarTerms : TRUE
    /\ focus # "calendar" => grid = CHOOSE d \in CalendarGrids : TRUE
    /\ focus # "availability" => terms = [t \in TermIds |-> CHOOSE d \in TermDates[t] : TRUE]
    /\ focus # "availability" => ~concurrent
    /\ focus # "exams" => ~together
    /\ focus # "plans" => \A p \in Plans : items[p] = {} /\ nextPlan[p] = None
    /\ edits = IF racing THEN MaxEdits ELSE 0
    /\ \A p \in Plans : nextPlan[p] # p    \* an edit may make it so
    /\ racing => focus = "plans" /\ \A p \in Plans : p = p1 \/ items[p] = {}

PlanningNext ==
    \/ focus = "calendar" /\ CalendarNext
       /\ UNCHANGED <<availabilityVars, examVars, planVars, vars, focus>>
    \/ focus = "availability" /\ AvailabilityNext
       /\ UNCHANGED <<calendarVars, examVars, planVars, vars, focus>>
    \/ focus = "exams" /\ ExamNext
       /\ UNCHANGED <<calendarVars, availabilityVars, planVars, vars, focus>>
    \/ focus = "plans" /\ PlanNext
       /\ UNCHANGED <<calendarVars, availabilityVars, examVars, vars, focus>>
    \/ focus = "cache" /\ Next
       /\ UNCHANGED <<calendarVars, availabilityVars, examVars, planVars, focus>>

PlanningSpec ==
    PlanningInit
    /\ [][PlanningNext]_<<calendarVars, availabilityVars, examVars, planVars, vars, focus>>


\* Entries, windows, requests and exams are ones the code can have written.
PlanningTypeOK == TypeOK /\ AvailabilityTypeOK /\ ExamTypeOK

\* What a reviewer has decided is not decided again: absences, while reviewers
\* do not overlap (decision.post.ts), and exam requests that were granted, in any
\* case (approve.post.ts, reject.post.ts).
DecisionsAreFinal == DecisionIsFinal /\ GrantIsFinal

=============================================================================
