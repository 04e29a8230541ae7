---------------------------- MODULE OfferingSeries ----------------------------
(***************************************************************************)
(* One offering between its groups, its sessions and the solver. Attached  *)
(* to two or more groups an offering is split: it goes over the wire as    *)
(* one series for each group, and its answer is taken together again.      *)
(*                                                                         *)
(*   server/utils/offeringSplit.ts           when an offering is split     *)
(*   server/utils/solverInput.ts             what is asked and sent        *)
(*   server/utils/solverDemand.ts            asked against answered        *)
(*   server/utils/generationMaterialize.ts   what an apply makes of it     *)
(*                                                                         *)
(* The solver is a service: its answer is any that keeps its contract. An  *)
(* answer is applied long after it was asked for, whatever was edited in   *)
(* between. The requests here are single steps; GenerationApply and        *)
(* SessionEdit take them apart.                                            *)
(***************************************************************************)
EXTENDS Integers, FiniteSets, FiniteSetsExt, Database

CONSTANTS
    Cohorts,        \* groups the offering may be attached to
    LessonIds,      \* ids of its sessions, those yet to be created included
    LessonSlots,
    Frequency,      \* sessions each series is to have
    MaxChanges      \* bound: edits by hand

\* A row of the offering's sessions; a banked session has no slot.
LessonRow == [slot : LessonSlots \cup {None}, groups : SUBSET Cohorts, locked : BOOLEAN]

\* Tables and grids are finite, and NULL is no slot, no key and no row.
ASSUME SeriesAssumption ==
    /\ IsFiniteSet(Cohorts) /\ IsFiniteSet(LessonIds) /\ IsFiniteSet(LessonSlots)
    /\ LessonIds \subseteq Nat /\ Frequency \in Nat /\ MaxChanges \in Nat
    /\ None \notin LessonSlots \cup LessonIds \cup Cohorts /\ None \notin LessonRow

VARIABLES
    cohorts,    \* group rows that exist
    attached,   \* offering_group rows
    lesson,     \* session rows of the offering
    answer,     \* a run that has answered and is not applied yet
    changes     \* edits by hand so far

seriesVars == <<cohorts, attached, lesson, answer, changes>>

Lesson(slot, groups, locked) == [slot |-> slot, groups |-> groups, locked |-> locked]

Lessons == {id \in LessonIds : Exists(lesson[id])}
Placed  == {id \in Lessons : lesson[id].slot # None}

SeriesInit ==
    /\ cohorts = Cohorts
    /\ attached \in SUBSET Cohorts
    /\ lesson = [id \in LessonIds |-> None]
    /\ answer = None
    /\ changes = 0

-----------------------------------------------------------------------------
(***************************************************************************)
(* Series                                                                  *)
(***************************************************************************)
SplitsIntoSeries(groups) == Cardinality(groups) >= 2

\* The series of an offering: its groups, or None for the whole offering.
SeriesOf(groups) == IF SplitsIntoSeries(groups) THEN groups ELSE {None}

\* The groups a series carries.
GroupsOfSeries(groups, series) == IF series = None THEN groups ELSE {series}

\* bankedCount: sessions in the bank that count for a series.
BankedIn(series) ==
    {id \in Lessons \ Placed : series = None \/ series \in lesson[id].groups}

\* Mutated form of SentIn: a session of several series goes with any of them.
SentInAny(series) ==
    {id \in Placed : series = None \/ series \in lesson[id].groups}

\* wireSessionRows: placed sessions are sent with the one series they carry; a
\* session of a split offering with none or several of its groups is left out.
SentIn(series) ==
    {id \in Placed : series = None \/ lesson[id].groups \cap attached = {series}}

\* requiredSessionCount of a series.
RequiredIn(series) ==
    LET banked == Cardinality(BankedIn(series))
    IN  IF banked >= Frequency THEN 0 ELSE Frequency - banked

\* A placement of the answer: which session, None for a new one, and where.
Placement(id, series, slot) == [id |-> id, series |-> series, slot |-> slot]

InSeries(placements, series) == {p \in placements : p.series = series}

\* The contract of the solver for one series: locked sessions come back where
\* they are, others anywhere or not at all, new ones as far as they are asked
\* for; a series has one session in a slot.
ReturnedFor(series) ==
    LET sent   == SentIn(series)
        locked == {id \in sent : lesson[id].locked}
        most   == IF Cardinality(locked) > RequiredIn(series)
                  THEN Cardinality(locked) ELSE RequiredIn(series)
        back   == {Placement(id, series, slot) : id \in sent, slot \in LessonSlots}
        new    == {Placement(None, series, slot) : slot \in LessonSlots}
    IN  {a \in UNION {kSubset(n, back \cup new) : n \in 0 .. most} :
           /\ \A id \in locked : Placement(id, series, lesson[id].slot) \in a
           /\ \A p, q \in a : p # q => (p.id # q.id \/ p.id = None)
           /\ \A p, q \in a : p # q /\ p.slot = q.slot => {p.id, q.id} \subseteq locked}

\* A run is assembled and answered. The ledger of what was asked stays with it.
SolveSeries ==
    /\ answer = None
    /\ LET series == SeriesOf(attached)
           choices == {f \in [series -> UNION {ReturnedFor(s) : s \in series}] :
                         \A s \in series : f[s] \in ReturnedFor(s)}
       IN  \E f \in choices :
            answer' = [groups     |-> [s \in series |-> GroupsOfSeries(attached, s)],
                       required   |-> [s \in series |-> RequiredIn(s)],
                       placements |-> UNION {f[s] : s \in series},
                       changes    |-> changes]
    /\ UNCHANGED <<cohorts, attached, lesson, changes>>

\* The answer was discarded.
DiscardAnswer ==
    /\ answer # None
    /\ answer' = None
    /\ UNCHANGED <<cohorts, attached, lesson, changes>>

-----------------------------------------------------------------------------
(***************************************************************************)
(* Applying the answer                                                     *)
(***************************************************************************)
\* Mutated form of IsShort: the last entry of an offering replaces the others.
IsShortByOneEntry ==
    Cardinality(answer.placements)
        < answer.required[CHOOSE s \in DOMAIN answer.required : TRUE]

\* reconcileDemand: what was asked of the offering against what was answered,
\* both taken over all of its series.
IsShort ==
    Cardinality(answer.placements)
        < MapThenSumSet(LAMBDA s : answer.required[s], DOMAIN answer.required)

\* Placements that are carried out: not those of sessions locked or banked since.
Effective ==
    {p \in answer.placements : p.id \in Lessons =>
        ~lesson[p.id].locked /\ lesson[p.id].slot # None}

\* Placements of sessions that are there, and those that become new ones.
Moves   == {p \in Effective : p.id \in Lessons}
Creates == Effective \ Moves

\* Mutated form of Unreturned: only sessions the run knew are deleted.
UnreturnedOfThoseSent ==
    {id \in Placed : ~lesson[id].locked
                     /\ Cardinality(lesson[id].groups \cap attached) <= 1
                     /\ id \notin {p.id : p \in Moves}}

\* Placed sessions the solver did not return.
Unreturned ==
    {id \in Placed : ~lesson[id].locked /\ id \notin {p.id : p \in Moves}}

Deletes == IF IsShort THEN {} ELSE Unreturned

\* A group of the answer that was deleted since fails the whole transaction.
GroupsAreThere == \A p \in Effective : answer.groups[p.series] \subseteq cohorts

Unused == {id \in LessonIds : ~Exists(lesson[id])} \ {p.id : p \in answer.placements}

\* executePlan: a placement says where a session is and which groups it has.
ApplyAnswer ==
    /\ answer # None
    /\ GroupsAreThere
    /\ Cardinality(Creates) <= Cardinality(Unused)
    /\ LET id == CHOOSE f \in [Creates -> Unused] :
                    \A p, q \in Creates : p # q => f[p] # f[q]
           of(l) == {p \in Moves : p.id = l} \cup {p \in Creates : id[p] = l}
       IN  lesson' = [l \in LessonIds |->
              IF of(l) # {}
              THEN LET p == CHOOSE q \in of(l) : TRUE
                   IN  Lesson(p.slot, answer.groups[p.series], FALSE)
              ELSE IF l \in Deletes THEN None ELSE lesson[l]]
    /\ answer' = None
    /\ UNCHANGED <<cohorts, attached, changes>>

-----------------------------------------------------------------------------
(***************************************************************************)
(* Edits by hand                                                           *)
(***************************************************************************)
Change == changes < MaxChanges /\ changes' = changes + 1

\* PUT /api/offerings/:id/groups
PutOfferingGroups ==
    /\ Change
    /\ \E groups \in SUBSET cohorts \ {attached} : attached' = groups
    /\ UNCHANGED <<cohorts, lesson, answer>>

\* Mutated form of CohortIsDeleted: sessions keep the rows that name it.
CohortIsDeletedAlone ==
    /\ Change
    /\ \E g \in cohorts : cohorts' = cohorts \ {g} /\ attached' = attached \ {g}
    /\ UNCHANGED <<lesson, answer>>

\* A group is deleted, and with it every row that names it.
CohortIsDeleted ==
    /\ Change
    /\ \E g \in cohorts :
        /\ cohorts' = cohorts \ {g}
        /\ attached' = attached \ {g}
        /\ lesson' = [id \in LessonIds |->
             IF id \in Lessons THEN [lesson[id] EXCEPT !.groups = @ \ {g}] ELSE None]
    /\ UNCHANGED answer

\* POST /api/sessions names its groups; it is locked unless the body says so.
CreateLesson ==
    /\ Change
    /\ \E id \in LessonIds, slot \in LessonSlots, groups \in SUBSET cohorts, locked \in BOOLEAN :
        /\ ~Exists(lesson[id])
        /\ answer # None => id \notin {p.id : p \in answer.placements}
        /\ \A smaller \in LessonIds : smaller < id => Exists(lesson[smaller])
        /\ lesson' = [lesson EXCEPT ![id] = Lesson(slot, groups, locked)]
    /\ UNCHANGED <<cohorts, attached, answer>>

\* Lock, unlock, move, bank and restore of one session, or its deletion. Only
\* an unlocked session is banked.
EditLesson ==
    /\ Change
    /\ \E id \in Lessons :
        \/ lesson' = [lesson EXCEPT ![id].locked = ~@] /\ id \in Placed
        \/ \E slot \in LessonSlots \ {lesson[id].slot} :
             lesson' = [lesson EXCEPT ![id].slot = slot]
        \/ /\ id \in Placed /\ ~lesson[id].locked
           /\ lesson' = [lesson EXCEPT ![id].slot = None]
        \/ lesson' = [lesson EXCEPT ![id] = None]
    /\ UNCHANGED <<cohorts, attached, answer>>

SeriesNext ==
    \/ SolveSeries \/ DiscardAnswer \/ ApplyAnswer
    \/ PutOfferingGroups \/ CohortIsDeleted \/ CreateLesson \/ EditLesson

SeriesSpec == SeriesInit /\ [][SeriesNext]_seriesVars
-----------------------------------------------------------------------------
(***************************************************************************)
(* What has to hold                                                        *)
(***************************************************************************)
SeriesTypeOK ==
    /\ attached \subseteq cohorts /\ cohorts \subseteq Cohorts
    /\ \A id \in Lessons :
        /\ lesson[id].slot \in LessonSlots \cup {None}
        /\ lesson[id].groups \subseteq cohorts
        /\ lesson[id].slot = None => ~lesson[id].locked

Answered(series) == Cardinality(InSeries(answer.placements, series))

\* Nothing was edited since the run, and every series got what it asked for.
FreshAndComplete ==
    /\ answer.changes = changes
    /\ \A s \in DOMAIN answer.required : Answered(s) >= answer.required[s]

\* Applying an up-to-date and complete answer gives every series its
\* frequency, banked sessions included, and more only when locked sessions are
\* more: no series is taught twice and none is left short (generationMaterialize
\* planMaterialization with solverInput's counting of banked sessions).
EverySeriesIsFilled == [][
    ApplyAnswer /\ FreshAndComplete =>
        \A s \in SeriesOf(attached) :
            LET held   == Cardinality(BankedIn(s))
                locked == Cardinality({id \in SentIn(s) : lesson[id].locked})
            IN  Cardinality(SentIn(s)' \cup BankedIn(s)')
                    = (IF held + locked > Frequency THEN held + locked ELSE Frequency)
    ]_seriesVars

\* After such an apply every session the solver may move belongs to one series
\* of the offering: sessions of an earlier division are gone.
EverySessionHasItsSeries == [][
    ApplyAnswer /\ FreshAndComplete =>
        \A id \in Placed' : ~lesson'[id].locked =>
            \E s \in SeriesOf(attached) : lesson'[id].groups = GroupsOfSeries(attached, s)
    ]_seriesVars

\* An up-to-date and complete answer is applied series by series: all of them
\* are filled, and nothing outside of them is kept.
AppliesFillTheSeries == EverySeriesIsFilled /\ EverySessionHasItsSeries

\* No session is deleted by an apply when a series was answered short, unless
\* locked sessions of another series were answered beyond what was asked
\* (solverDemand.ts reconcileDemand). Stale answers included.
ShortAnswersDeleteNothing == [][
    /\ ApplyAnswer
    /\ \E s \in DOMAIN answer.required : Answered(s) < answer.required[s]
    /\ \A s \in DOMAIN answer.required : Answered(s) <= answer.required[s]
    => \A id \in Lessons : Exists(lesson'[id])
    ]_seriesVars

\* The comment on DemandReconciliation.short: "An Offering whose answer is short
\* in any of its series therefore protects all of its Sessions".
ShortSeriesProtects == [][
    /\ ApplyAnswer
    /\ \E s \in DOMAIN answer.required : Answered(s) < answer.required[s]
    => \A id \in Lessons : Exists(lesson'[id])
    ]_seriesVars

\* The head of solverSessions.ts: locked sessions are "all occupancy the solver
\* must respect", so that nothing is placed "on top of a locked one".
LockedIsOccupied == [][
    ApplyAnswer /\ answer.changes = changes =>
        \A id \in Placed, other \in Placed' :
            /\ lesson[id].locked /\ lesson[id].groups \cap lesson'[other].groups # {}
            /\ other # id /\ ~lesson'[other].locked
            => lesson'[other].slot # lesson[id].slot
    ]_seriesVars
=============================================================================
