----------------------------- MODULE GroupClosure -----------------------------
(***************************************************************************)
(* The group tree in the database: group.parent_group_id, the table        *)
(* group_closure that triggers keep beside it, the members of groups, and  *)
(* the groups a combined group copies its members from.                    *)
(*                                                                         *)
(*   POST, PATCH, DELETE /api/groups        Create, Reparent..., Delete    *)
(*   memberships                            Join, Leave                    *)
(*   PUT /api/groups/:id/sources            SetSources                     *)
(*   POST /api/group-sources/:id/regenerate Regenerate...                  *)
(*                                                                         *)
(* An UPDATE and its triggers are one step, the COMMIT another; isolation  *)
(* is READ COMMITTED, so triggers of one transaction do not see what       *)
(* another has not committed. With Overlap FALSE no request falls into     *)
(* another's transaction.                                                  *)
(***************************************************************************)
EXTENDS GroupTree

CONSTANTS
    Groups,   \* the ids of the groups that may ever exist
    Members,  \* people who may be in a group
    Requests, \* transactions that may be open at a time
    Combined, \* the groups that draw from others, among them
    SizeOf,   \* expected_size, by group; None where nobody wrote one
    Overlap   \* whether requests may fall into each other's transactions

ASSUME GroupsAssumption ==
    /\ IsFiniteSet(Groups)
    /\ None \notin Groups
    /\ Combined \subseteq Groups
    /\ SizeOf \in [Groups -> Nat \cup {None}]
    /\ Overlap \in BOOLEAN

VARIABLES
    parent,   \* parent_group_id of the existing groups
    closure,  \* group_closure: pairs <<ancestor, descendant>>, depth left out
    member,   \* membership, by group
    source,   \* group_source: the groups a combined group draws from
    tx        \* the transactions that have written, or read, and not committed

groupVars == <<parent, closure, member, source, tx>>

Pairs == Groups \X Groups

Reparenting(g, p, lost, gained) ==
    [kind |-> "reparent", group |-> g, parent |-> p, lost |-> lost, gained |-> gained]

Regenerating(g, expected) == [kind |-> "regenerate", group |-> g, expected |-> expected]

NoTx == [kind |-> "none"]

Transactions ==
    {NoTx}
    \cup [kind: {"reparent"}, group: Groups, parent: Groups \cup {None},
          lost: SUBSET Pairs, gained: SUBSET Pairs]
    \cup [kind: {"regenerate"}, group: Groups, expected: SUBSET Members]

\* Rows name groups there are: what hangs on a removed group went with it.
GroupsTypeOK ==
    /\ parent \in UNION {[E -> Groups \cup {None}] : E \in SUBSET Groups}
    /\ closure \subseteq Pairs
    /\ member \in [Groups -> SUBSET Members]
    /\ source \in [Groups -> SUBSET Existing(parent)]
    /\ \A g \in Groups \ Existing(parent) : member[g] = {} /\ source[g] = {}
    /\ \A q \in Requests :
        \/ tx[q] = NoTx
        \/ /\ tx[q].kind = "reparent"
           /\ tx[q].lost \cup tx[q].gained \subseteq Pairs
        \/ tx[q].kind = "regenerate" /\ tx[q].expected \subseteq Members

GroupsInit ==
    /\ parent = [g \in {} |-> None]
    /\ closure = {}
    /\ member = [g \in Groups |-> {}]
    /\ source = [g \in Groups |-> {}]
    /\ tx = [q \in Requests |-> NoTx]

HasGroup(g) == g \in Existing(parent)

Open == {q \in Requests : tx[q] # NoTx}

Reparents == {q \in Requests : tx[q].kind = "reparent"}

\* Nothing else is going on, or it does not matter.
Free == Overlap \/ Open = {}

-----------------------------------------------------------------------------
(***************************************************************************)
(* The triggers                                                            *)
(***************************************************************************)
\* group_closure_after_insert: the pair with itself, and one with everything
\* above the parent.
PairsOfNew(g, p) == {<<g, g>>} \cup {<<c[1], g>> : c \in {x \in closure : x[2] = p}}

\* group_closure_before_reparent: the new parent is not beneath the group.
MakesCycle(g, p) == <<g, p>> \in closure

\* group_closure_after_reparent: the rows of the moved subtree that lead out of
\* it, and the rows that tie it to everything above its new parent.
Moved(g) == {c[2] : c \in {x \in closure : x[1] = g}}

\* Mutated form of Detached: only the moved group itself loses its ancestors.
DetachedRoot(g) == {c \in closure : c[2] = g /\ c[1] # g}

Detached(g) == {c \in closure : c[2] \in Moved(g) /\ c[1] \notin Moved(g)}

Attached(g, p) ==
    {<<a, d>> : a \in {c[1] : c \in {x \in closure : x[2] = p}}, d \in Moved(g)}

-----------------------------------------------------------------------------
(***************************************************************************)
(* Groups                                                                  *)
(***************************************************************************)
Create(g, p) ==
    /\ Free
    /\ ~HasGroup(g)
    /\ p = None \/ HasGroup(p)
    /\ parent' = [h \in Existing(parent) \cup {g} |-> IF h = g THEN p ELSE parent[h]]
    /\ closure' = closure \cup PairsOfNew(g, p)
    /\ UNCHANGED <<member, source, tx>>

\* The UPDATE of parent_group_id. It waits for the row, and for rows of the
\* closure that another transaction deletes or inserts as well.
Reparent(q, g, p) ==
    /\ Free
    /\ tx[q] = NoTx
    /\ HasGroup(g) /\ (p = None \/ HasGroup(p))
    /\ p \notin {g, parent[g]}
    /\ ~MakesCycle(g, p)
    /\ LET t == Reparenting(g, p, Detached(g), Attached(g, p)) IN
        /\ \A r \in Reparents :
            /\ tx[r].group # g
            /\ tx[r].lost \cap t.lost = {}
            /\ tx[r].gained \cap t.gained = {}
        /\ tx' = [tx EXCEPT ![q] = t]
    /\ UNCHANGED <<parent, closure, member, source>>

ReparentCommits(q) ==
    /\ tx[q].kind = "reparent"
    /\ parent' = [parent EXCEPT ![tx[q].group] = tx[q].parent]
    /\ closure' = (closure \ tx[q].lost) \cup tx[q].gained
    /\ tx' = [tx EXCEPT ![q] = NoTx]
    /\ UNCHANGED <<member, source>>

\* Mutated form of Delete: the group stays a source of others.
DeleteKeepsSource(g) ==
    /\ Free
    /\ HasGroup(g)
    /\ Children(parent, g) = {}
    /\ \A q \in Open : tx[q].group # g
    /\ \A r \in Reparents : tx[r].parent # g
    /\ parent' = [h \in Existing(parent) \ {g} |-> parent[h]]
    /\ closure' = {c \in closure : g \notin {c[1], c[2]}}
    /\ member' = [member EXCEPT ![g] = {}]
    /\ source' = [source EXCEPT ![g] = {}]
    /\ UNCHANGED tx

\* The foreign key of the children refuses (RESTRICT); the rows of the closure,
\* the memberships and the sources of a removed group go with it (CASCADE).
Delete(g) ==
    /\ Free
    /\ HasGroup(g)
    /\ Children(parent, g) = {}
    /\ \A q \in Open : tx[q].group # g
    /\ \A r \in Reparents : tx[r].parent # g
    /\ parent' = [h \in Existing(parent) \ {g} |-> parent[h]]
    /\ closure' = {c \in closure : g \notin {c[1], c[2]}}
    /\ member' = [member EXCEPT ![g] = {}]
    /\ source' = [h \in Groups |-> IF h = g THEN {} ELSE source[h] \ {g}]
    /\ UNCHANGED tx

-----------------------------------------------------------------------------
(***************************************************************************)
(* Members                                                                 *)
(***************************************************************************)
Join(x, g) ==
    /\ Free
    /\ HasGroup(g) /\ x \notin member[g]
    /\ member' = [member EXCEPT ![g] = @ \cup {x}]
    /\ UNCHANGED <<parent, closure, source, tx>>

Leave(x, g) ==
    /\ Free
    /\ x \in member[g]
    /\ member' = [member EXCEPT ![g] = @ \ {x}]
    /\ UNCHANGED <<parent, closure, source, tx>>

\* The set of sources is replaced as a whole; a group is not its own source.
SetSources(g, sources) ==
    /\ Free
    /\ HasGroup(g) /\ sources \subseteq Existing(parent) \ {g}
    /\ source' = [source EXCEPT ![g] = sources]
    /\ UNCHANGED <<parent, closure, member, tx>>

\* sourceDrift: the direct members of the sources, read in two queries that
\* are one step here. Without a source the request is refused.
RegenerateReads(q, g) ==
    /\ Free
    /\ tx[q] = NoTx
    /\ HasGroup(g) /\ source[g] # {}
    /\ tx' = [tx EXCEPT ![q] = Regenerating(g, UNION {member[s] : s \in source[g]})]
    /\ UNCHANGED <<parent, closure, member, source>>

\* Mutated form of RegenerateWrites: the copied members are added.
RegenerateMerges(q) ==
    /\ tx[q].kind = "regenerate"
    /\ member' = [member EXCEPT ![tx[q].group] = @ \cup tx[q].expected]
    /\ tx' = [tx EXCEPT ![q] = NoTx]
    /\ UNCHANGED <<parent, closure, source>>

\* The members are deleted and the expected ones inserted.
RegenerateWrites(q) ==
    /\ tx[q].kind = "regenerate"
    /\ member' = [member EXCEPT ![tx[q].group] = tx[q].expected]
    /\ tx' = [tx EXCEPT ![q] = NoTx]
    /\ UNCHANGED <<parent, closure, source>>

\* A rollback: an error, a timeout.
Abort(q) ==
    /\ tx[q] # NoTx
    /\ tx' = [tx EXCEPT ![q] = NoTx]
    /\ UNCHANGED <<parent, closure, member, source>>

-----------------------------------------------------------------------------
GroupsNext ==
    \/ \E g \in Groups : Delete(g)
    \/ \E g \in Groups, p \in Groups \cup {None} : Create(g, p)
    \/ \E q \in Requests, g \in Groups, p \in Groups \cup {None} : Reparent(q, g, p)
    \/ \E q \in Requests : ReparentCommits(q) \/ RegenerateWrites(q) \/ Abort(q)
    \/ \E g \in Groups, x \in Members : Join(x, g) \/ Leave(x, g)
    \/ \E g \in Combined, sources \in SUBSET Groups : SetSources(g, sources)
    \/ \E q \in Requests, g \in Combined : RegenerateReads(q, g)

GroupsSpec == GroupsInit /\ [][GroupsNext]_groupVars

-----------------------------------------------------------------------------
(***************************************************************************)
(* Safety                                                                  *)
(***************************************************************************)
\* The table holds exactly the pairs of a group and a group at or above it, so
\* whatever the order of inserts, moves and deletions the triggers agree with
\* the parents; and no group is above itself, on which estimateOf relies to end.
ClosureIsExact ==
    /\ closure = UNION {AncestorsOrSelf(parent, g) \X {g} : g \in Existing(parent)}
    /\ \A g \in Existing(parent) : parent[g] \notin Subtree(parent, g)

\* Two sessions collide over their groups exactly if some group attends both,
\* which also makes it not matter which side describeCollision widens: members
\* of one group are never booked twice unseen, and cousins do not collide
\* because they have an ancestor in common. (The side that is not widened is
\* matched group by group. Judged between transactions, as all that reads
\* committed tables only.)
CollisionMeansCommonGroup ==
    LET attending == [g \in Existing(parent) |-> Subtree(parent, g)]
        attended(a) == UNION {attending[g] : g \in a}
    IN  Open = {} => \A a \in SUBSET Existing(parent), g \in Existing(parent) :
            GroupsCollide(closure, a, {g}) <=> attended(a) \cap attending[g] # {}

\* Whatever groups the offerings and sessions of a term name, and in whatever
\* order, the groups sent to the solver contain those of them that exist, and
\* the parent of every group they contain: the assertion at the end of the
\* assembly never refuses a run.
SentGroupsAreWellFormed ==
    Open = {} => \A seeds \in [1..2 -> Groups] :
        LET sent == ConflictClosure(parent, seeds) IN
        /\ Range(seeds) \cap Existing(parent) \subseteq sent
        /\ ClosedUnderParent(parent, sent)

\* The doc comment of conflictClosure: the seeds, their ancestors and their
\* descendants are sent, so that a placement on a group of the term blocks
\* everything beneath it.
SentGroupsAreWhole ==
    \A seeds \in [1..2 -> Existing(parent)] :
        ConflictClosure(parent, seeds) = UNION {Related(parent, g) : g \in Range(seeds)}

\* Attaching a group that an attached group already contains changes neither
\* the capacity an offering asks for nor the estimate it is compared with.
NestedGroupsCountOnce ==
    Open = {} => \A a \in SUBSET Existing(parent) :
        LET demand == DeriveCapacity(parent, SizeOf, member, a)
        IN  \A g \in Below(parent, a) \ a :
                DeriveCapacity(parent, SizeOf, member, a \cup {g}) = demand

\* What is read off the tree and the table is right: who collides, which groups
\* a request carries, and how many people a set of groups stands for.
GroupsAreReadRight ==
    CollisionMeansCommonGroup /\ SentGroupsAreWellFormed /\ NestedGroupsCountOnce

\* A regenerated group holds exactly the direct members of its sources: who has
\* left the sources is gone, and the sources are not empty by oversight.
RegeneratedIsTheSources == [][\A q \in Requests : RegenerateWrites(q) =>
    /\ source[tx[q].group] # {}
    /\ member'[tx[q].group] = UNION {member[s] : s \in source[tx[q].group]}]_groupVars

=============================================================================
