------------------------------ MODULE GroupTree ------------------------------
(***************************************************************************)
(* Nested groups, as the functions that read the tree see them: a Cohort   *)
(* over its Classes over their Seminars, every group naming its parent.    *)
(*                                                                         *)
(*   server/utils/solverGroups.ts   the groups a solver request carries    *)
(*   server/utils/groupClosure.ts   the same questions asked of the table  *)
(*   shared/groupCapacity.ts        how many people a set of groups stands *)
(*                                  for                                    *)
(*   server/utils/violations.ts     which sessions collide                 *)
(*                                                                         *)
(* The tree is a function from the existing groups to a group or None. The *)
(* loops of the code that follow parents or children with a set of visited *)
(* groups compute the least set that holds their start and is closed under *)
(* the step, cycles in the data or not.                                    *)
(***************************************************************************)
EXTENDS Integers, FiniteSets, Sequences, SequencesExt, Database

Existing(parent) == DOMAIN parent

Children(parent, g) == {c \in Existing(parent) : parent[c] = g}

\* The least part of S that holds start and, with a group, what step gives.
LeastClosed(S, start, Step(_)) ==
    LET closed == {T \in SUBSET S : start \subseteq T /\ \A t \in T : Step(t) \subseteq T}
    IN  {g \in S : \A T \in closed : g \in T}

AncestorsOrSelf(parent, g) ==
    LeastClosed(Existing(parent), {g}, LAMBDA h : {parent[h]} \ {None})

Subtree(parent, g) ==
    LeastClosed(Existing(parent), {g}, LAMBDA h : Children(parent, h))

Related(parent, g) == AncestorsOrSelf(parent, g) \cup Subtree(parent, g)

Above(parent, groups) == UNION {AncestorsOrSelf(parent, g) : g \in groups}
Below(parent, groups) == UNION {Subtree(parent, g) : g \in groups}

-----------------------------------------------------------------------------
(***************************************************************************)
(* solverGroups.ts: what a run sends                                       *)
(***************************************************************************)
\* Mutated form of Visit: the parent of a seed is sent, but not its parent.
VisitParentOnly(parent, marked, seed) ==
    IF seed \notin Existing(parent) THEN marked
    ELSE marked \cup Subtree(parent, seed) \cup ({parent[seed]} \ {None})

\* One seed of conflictClosure. The downward walk stops at a group that is
\* already marked, whatever it was marked for.
Visit(parent, marked, seed) ==
    IF seed \notin Existing(parent) THEN marked
    ELSE LET upward == marked \cup AncestorsOrSelf(parent, seed) IN
         upward \cup LeastClosed(Existing(parent), {seed},
                                 LAMBDA h : Children(parent, h) \ upward)

\* The seeds are visited in the order in which the rows named them.
ConflictClosure(parent, seeds) ==
    FoldLeft(LAMBDA marked, seed : Visit(parent, marked, seed), {}, seeds)

\* assertClosedUnderParent throws unless this holds.
ClosedUnderParent(parent, sent) == \A g \in sent : parent[g] \in sent \cup {None}

-----------------------------------------------------------------------------
(***************************************************************************)
(* groupCapacity.ts: a union of people, not a sum of sizes                 *)
(***************************************************************************)
\* A group's own expectedSize, or else the sum over its children.
Estimates(parent, size) ==
    LET estimate[g \in Existing(parent)] ==
            IF size[g] # None THEN size[g]
            ELSE SumFunctionOnSet(estimate, Children(parent, g))
    IN  estimate

\* Mutated form of Maximal: every attached group counts for itself.
EveryAttached(parent, attached) == attached

\* Attached groups with no other attached group above them.
Maximal(parent, attached) ==
    {g \in attached : (AncestorsOrSelf(parent, g) \ {g}) \cap attached = {}}

\* The manual estimate; None when nobody wrote a number.
EstimateOf(parent, size, attached) ==
    LET sum == SumFunctionOnSet(Estimates(parent, size), Maximal(parent, attached))
    IN  IF sum > 0 THEN sum ELSE None

Enrolled(parent, member, attached) ==
    UNION {member[g] : g \in Below(parent, attached)}

\* deriveCapacity: who is enrolled, or the estimate while nobody is; and
\* whether the roll is below nine tenths of the estimate.
DeriveCapacity(parent, size, member, groups) ==
    LET attached == groups \cap Existing(parent)
        enrolled == Cardinality(Enrolled(parent, member, attached))
        estimate == EstimateOf(parent, size, attached)
    IN  [capacity |-> IF enrolled > 0 THEN enrolled ELSE estimate,
         partial  |-> enrolled > 0 /\ estimate # None /\ 10 * enrolled < 9 * estimate]

-----------------------------------------------------------------------------
(***************************************************************************)
(* groupClosure.ts and describeCollision, on the pairs of the table        *)
(***************************************************************************)
\* Mutated form of ConflictGroupIds: collisions run downwards only.
DownwardConflictIds(closure, groups) ==
    groups \cup {pair[2] : pair \in {p \in closure : p[1] \in groups}}

ConflictGroupIds(closure, groups) ==
    LET rows == {p \in closure : p[1] \in groups \/ p[2] \in groups}
    IN  groups \cup {p[1] : p \in rows} \cup {p[2] : p \in rows}

DescendantGroupIds(closure, groups) ==
    groups \cup {p[2] : p \in {q \in closure : q[1] \in groups}}

AncestorGroupIds(closure, groups) ==
    groups \cup {p[1] : p \in {q \in closure : q[2] \in groups}}

\* no_double_booking_group, for the groups of two sessions that overlap: one
\* side is widened both ways, the other is taken as it is.
GroupsCollide(closure, a, b) == ConflictGroupIds(closure, a) \cap b # {}

\* attendeeSets: the members of everything beneath a session's groups.
Attendees(closure, member, groups) ==
    UNION {member[g] : g \in DescendantGroupIds(closure, groups)}

\* no_double_booking_person, between sessions nobody is assigned to directly.
PeopleCollide(closure, member, a, b) ==
    Attendees(closure, member, a) \cap Attendees(closure, member, b) # {}

=============================================================================
