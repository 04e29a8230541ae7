----------------------------- MODULE OfferingPlans -----------------------------
(***************************************************************************)
(* Curriculum plans: lists of offering templates that are applied to a     *)
(* group in a term, and advanced to the next term with the plan's          *)
(* successor.                                                              *)
(*                                                                         *)
(*   server/utils/offeringPlans.ts                  apply, derive          *)
(*   server/api/offering-plan-apply/[id].post.ts    apply to a group       *)
(*   server/api/offering-plan-items/[id].put.ts     replace the list       *)
(*   server/api/group-plan-applications/advance-all.post.ts                *)
(*                                                                         *)
(* No row says that a plan was applied: an offering remembers the template *)
(* it was created from, and everything else is derived from that. A        *)
(* transaction reads first and writes at its commit. Terms are numbered in *)
(* the order in which they begin. Offerings are numbered in the order in   *)
(* which they are created, and None once deleted.                          *)
(***************************************************************************)
EXTENDS Integers, Sequences, FiniteSets, FiniteSetsExt, SequencesExt, Database

CONSTANTS
    Plans, Templates,
    Incomplete,         \* templates that name no kind or no title
    PlanGroups,
    LastTerm,           \* terms are 1 .. LastTerm
    Planners,           \* requests in flight at once
    MaxOfferings,       \* offerings ever created
    MaxEdits            \* bound: edits of the plans themselves

VARIABLES
    items,      \* offering_plan_item rows of a plan: a key and a template
    nextPlan,   \* offering_plan.next_plan_id
    offering,   \* offering rows that were created from a template
    plan,       \* what each transaction has read
    edits,      \* edits of the plans so far, or before
    racing      \* whether transactions overlap

planVars == <<items, nextPlan, offering, plan, edits, racing>>

Quiet == [does |-> "nothing"]
TermNumbers == 1 .. LastTerm

\* An offering made from a template: who takes it, and whether a plan made it.
OfferingRow == [template : Templates, term : TermNumbers, groups : SUBSET PlanGroups,
                byPlan : BOOLEAN]

\* Tables are finite, and NULL is no row and nothing that was found.
ASSUME PlansAssumption ==
    /\ IsFiniteSet(Plans) /\ IsFiniteSet(Templates) /\ IsFiniteSet(PlanGroups)
    /\ LastTerm \in Nat /\ MaxOfferings \in Nat /\ MaxEdits \in Nat
    /\ None \notin OfferingRow \cup [id : Nat, attached : BOOLEAN]

PlanInit ==
    /\ items \in [Plans -> {{0} \X list : list \in SUBSET Templates}]
    /\ nextPlan \in [Plans -> Plans \cup {None}]
    /\ edits \in 0 .. MaxEdits
    /\ offering = <<>>
    /\ plan = [c \in Planners |-> Quiet]
    /\ racing \in BOOLEAN

Start(c, what) ==
    /\ plan[c] = Quiet
    /\ racing \/ \A d \in Planners : plan[d] = Quiet
    /\ plan' = [plan EXCEPT ![c] = what]

Finish(c) == plan' = [plan EXCEPT ![c] = Quiet]

\* A request of one statement, which overlaps no other unless requests do.
InOneStep == racing \/ \A c \in Planners : plan[c] = Quiet

Live(table) == {o \in DOMAIN table : Exists(table[o])}

-----------------------------------------------------------------------------
(***************************************************************************)
(* Applying a plan                                                         *)
(***************************************************************************)
FromTemplate(table, term, template) ==
    {o \in Live(table) : table[o].term = term /\ table[o].template = template}

\* Mutated form of ExistingByTemplate: only what the group is on already exists.
ExistingOfTheGroup(table, term, group) ==
    [t \in Templates |->
        LET found == {o \in FromTemplate(table, term, t) : group \in table[o].groups}
        IN  IF found = {} THEN None ELSE [id |-> CHOOSE o \in found : TRUE, attached |-> TRUE]]

\* existingOfferingsByTemplate: one offering per template, whichever if there
\* are several, and whether the group is on it.
ExistingByTemplate(table, term, group) ==
    [t \in Templates |->
        LET found == FromTemplate(table, term, t)
            one   == CHOOSE o \in found : TRUE
        IN  IF found = {} THEN None ELSE [id |-> one, attached |-> group \in table[one].groups]]

\* Mutated form of Joined: an offering that exists is taken as it is.
JoinedNothing(table, ids, group) == table

Joined(table, ids, group) ==
    [o \in DOMAIN table |->
        IF o \in ids THEN [table[o] EXCEPT !.groups = @ \cup {group}] ELSE table[o]]

\* applyOfferingPlanItems: join what exists, create the rest. What exists has
\* been read once, before the first item.
Applied(table, existing, rows, term, group) ==
    LET missing == {row \in rows : existing[row[2]] = None}
        found   == {existing[row[2]].id : row \in rows \ missing}
        Create(row, sofar) ==
            Append(sofar, [template |-> row[2], term |-> term, groups |-> {group},
                           byPlan |-> TRUE])
    IN  FoldSet(Create, Joined(table, found, group), missing)

\* A plan can be applied unless an item that has to be created is incomplete.
Applicable(rows, existing) ==
    rows # {} /\ \A row \in rows : row[2] \in Incomplete => existing[row[2]] # None

\* POST offering-plan-apply: the items and what exists are read ...
ApplyReads(c, p, term, group) ==
    LET existing == ExistingByTemplate(offering, term, group) IN
    /\ Applicable(items[p], existing)
    /\ Start(c, [does |-> "apply", rows |-> items[p], existing |-> existing,
                 term |-> term, group |-> group])
    /\ UNCHANGED <<items, nextPlan, offering, edits, racing>>

\* A row that is gone, or was attached by another request meanwhile, fails the
\* insert (a foreign key, a unique index), and everything rolls back.
StillFits(saw) ==
    \A row \in saw.rows : LET was == saw.existing[row[2]] IN
        was # None => /\ offering[was.id] # None
                      /\ (saw.group \in offering[was.id].groups) => was.attached

\* ... and offerings created and joined.
ApplyCommits(c) ==
    /\ plan[c].does = "apply"
    /\ StillFits(plan[c])
    /\ offering' = Applied(offering, plan[c].existing, plan[c].rows, plan[c].term, plan[c].group)
    /\ Len(offering') <= MaxOfferings
    /\ Finish(c)
    /\ UNCHANGED <<items, nextPlan, edits, racing>>

-----------------------------------------------------------------------------
(***************************************************************************)
(* Advancing every group                                                   *)
(***************************************************************************)
\* The plans a group is on, term by term: those that list a template one of the
\* group's offerings was created from.
Applications(table, group) ==
    {on \in Plans \X TermNumbers :
        \E o \in Live(table) : /\ group \in table[o].groups
                               /\ table[o].term = on[2]
                               /\ \E row \in items[on[1]] : row[2] = table[o].template}

\* Mutated form of Advances: what a group has already done is offered again.
AdvancesAgain(table) ==
    {to \in PlanGroups \X Plans \X TermNumbers :
        \E on \in Applications(table, to[1]) :
            nextPlan[on[1]] = to[2] /\ on[2] + 1 = to[3]}

\* deriveGroupPlanApplications: the successor of a plan in the term that follows,
\* unless the group is already there.
Advances(table) ==
    {to \in PlanGroups \X Plans \X TermNumbers :
        /\ \E on \in Applications(table, to[1]) :
            nextPlan[on[1]] = to[2] /\ on[2] + 1 = to[3]
        /\ <<to[2], to[3]>> \notin Applications(table, to[1])}

AdvanceReads(c) ==
    /\ Advances(offering) # {}
    /\ Start(c, [does |-> "advance", entries |-> Advances(offering)])
    /\ UNCHANGED <<items, nextPlan, offering, edits, racing>>

\* One entry of a batch: a plan that cannot be applied is reported and left out.
Advanced(table, entry) ==
    LET existing == ExistingByTemplate(table, entry[3], entry[1]) IN
    IF Applicable(items[entry[2]], existing)
    THEN Applied(table, existing, items[entry[2]], entry[3], entry[1])
    ELSE table

Orders(entries) ==
    {order \in [1 .. Cardinality(entries) -> entries] : IsInjective(order)}

\* advance-all reads what exists again before each batch and each group.
AdvanceCommits(c) ==
    /\ plan[c].does = "advance"
    /\ \E order \in Orders(plan[c].entries) :
           offering' = FoldLeft(Advanced, offering, order)
    /\ Len(offering') <= MaxOfferings
    /\ Finish(c)
    /\ UNCHANGED <<items, nextPlan, edits, racing>>

-----------------------------------------------------------------------------
(***************************************************************************)
(* Editing plans and offerings                                             *)
(***************************************************************************)
\* PUT offering-plan-items: the rows that are there are deleted ...
PutItemsReads(c, p, list) ==
    /\ edits < MaxEdits /\ edits' = edits + 1
    /\ Start(c, [does |-> "put", of |-> p, old |-> items[p], new |-> {edits'} \X list])
    /\ UNCHANGED <<items, nextPlan, offering, racing>>

\* ... and the list inserted, each template once. Rows that another request has
\* inserted meanwhile were not there to be deleted.
PutItemsCommits(c) ==
    /\ plan[c].does = "put"
    /\ items' = [items EXCEPT ![plan[c].of] = (@ \ plan[c].old) \cup plan[c].new]
    /\ Finish(c)
    /\ UNCHANGED <<nextPlan, offering, edits, racing>>

SetNextPlan(p, q) ==
    /\ InOneStep /\ nextPlan[p] # q
    /\ edits < MaxEdits /\ edits' = edits + 1
    /\ nextPlan' = [nextPlan EXCEPT ![p] = q]
    /\ UNCHANGED <<items, offering, plan, racing>>

\* POST of the generic resource offerings, started from a template.
CreateByHand(term, template, group) ==
    /\ InOneStep /\ Len(offering) < MaxOfferings
    /\ offering' = Append(offering, [template |-> template, term |-> term,
                                     groups |-> {group}, byPlan |-> FALSE])
    /\ UNCHANGED <<items, nextPlan, plan, edits, racing>>

DeleteOffering(o) ==
    /\ InOneStep /\ o \in Live(offering)
    /\ offering' = [offering EXCEPT ![o] = None]
    /\ UNCHANGED <<items, nextPlan, plan, edits, racing>>

RollBack(c) ==
    /\ plan[c] # Quiet
    /\ Finish(c)
    /\ UNCHANGED <<items, nextPlan, offering, edits, racing>>

PlanNext ==
    \/ \E c \in Planners :
        \/ \E p \in Plans, t \in TermNumbers, g \in PlanGroups : ApplyReads(c, p, t, g)
        \/ \E p \in Plans, list \in SUBSET Templates : PutItemsReads(c, p, list)
        \/ ApplyCommits(c) \/ AdvanceReads(c) \/ AdvanceCommits(c)
        \/ PutItemsCommits(c) \/ RollBack(c)
    \/ \E p \in Plans, q \in Plans \cup {None} : SetNextPlan(p, q)
    \/ \E t \in TermNumbers, m \in Templates, g \in PlanGroups : CreateByHand(t, m, g)
    \/ \E o \in DOMAIN offering : DeleteOffering(o)

PlanSpec == PlanInit /\ [][PlanNext]_planVars

-----------------------------------------------------------------------------
\* Without requests that overlap, plans never make a second offering of a
\* template in a term, whichever plans list it and whichever groups take it.
PlansMakeOne ==
    ~racing =>
        \A o, q \in Live(offering) :
            /\ offering[o].byPlan /\ offering[q].byPlan
            /\ offering[o].term = offering[q].term
            /\ offering[o].template = offering[q].template
            => o = q

\* An apply that commits leaves the group on an offering of every template of
\* the plan, whether it was made for it, by another plan or by hand.
ApplyGivesThePlan ==
    [][\A c \in Planners : ApplyCommits(c) =>
        \A row \in plan[c].rows :
            \E o \in FromTemplate(offering', plan[c].term, row[2]) :
                plan[c].group \in offering'[o].groups]_planVars

\* Advancing settles: what advance-all has done for a group it does not offer
\* again, so that the list of eligible groups shrinks.
AdvanceSettles ==
    [][\A c \in Planners : AdvanceCommits(c) /\ ~racing =>
        \A entry \in plan[c].entries \cap Advances(offering') :
            ~Applicable(items[entry[2]], ExistingByTemplate(offering, entry[3], entry[1]))]_planVars

\* A plan is followed, by applying it and by advancing a group along it, and
\* followed once.
PlansAreFollowed == []PlansMakeOne /\ ApplyGivesThePlan /\ AdvanceSettles

=============================================================================
