------------------------------ MODULE RoleGrants ------------------------------
(***************************************************************************)
(* Access roles of one tenant and who holds them.                          *)
(*                                                                         *)
(*   server/utils/accessRoleGuards.ts        the last administrator        *)
(*   server/api/[resource]/[id]/[relation].put.ts   a set of grants        *)
(*   server/api/[resource]/[id].patch.ts, [id].delete.ts   roles, people   *)
(*   server/utils/defaultAccessRole.ts       the grant of a new person     *)
(*                                                                         *)
(* A request that ends in the guard takes two steps, its statements and    *)
(* its commit: until then others do not see what it wrote. Rows it wrote   *)
(* make others wait. Whether requests overlap is chosen in the beginning.  *)
(***************************************************************************)
EXTENDS Integers, FiniteSets, Database

CONSTANTS
    Staff,          \* people of the tenant
    Roles,          \* access roles, those yet to be created included
    SystemRole,     \* the role provisioning created
    Clerks          \* callers with a request each

\* The two permissions that grant permissions.
SelfAdministration == {"access_role.manage", "person_access_role.assign"}

\* NULL is no role, and no set of keys.
ASSUME RolesAssumption ==
    /\ SystemRole \in Roles
    /\ None \notin Roles /\ \A set \in SUBSET SelfAdministration : set # None

VARIABLES
    people,     \* person rows
    logins,     \* people an account acts as
    keys,       \* access_role_permission: the keys of a role, as far as the guard counts them
    grants,     \* person_access_role rows
    standard,   \* the default access role of the tenant
    change,     \* the request of each clerk
    overlap     \* whether requests overlap

roleVars == <<people, logins, keys, grants, standard, change, overlap>>

RoleRows  == {r \in Roles : Exists(keys[r])}
GrantsOf(p) == {r \in Roles : <<p, r>> \in grants}

\* assertTenantRetainsAdministrator, on what a transaction sees.
Administered(permissions, held) ==
    \A key \in SelfAdministration :
        \E g \in held : Exists(permissions[g[2]]) /\ key \in permissions[g[2]]

RolesInit ==
    /\ people \in SUBSET Staff \ {{}}
    /\ logins \in SUBSET people
    /\ keys = [r \in Roles |-> IF r = SystemRole THEN SelfAdministration ELSE None]
    /\ \E p \in people : grants = {<<p, SystemRole>>}
    /\ standard = None
    /\ change = [c \in Clerks |-> None]
    /\ overlap \in BOOLEAN

-----------------------------------------------------------------------------
(***************************************************************************)
(* Requests that end in the guard                                          *)
(***************************************************************************)
\* What a request has written and not committed, with the rows it found.
PutGrants(p, set) == [op |-> "grants", of |-> p, found |-> GrantsOf(p), set |-> set]
EditRole(r, set)  == [op |-> "edit", of |-> r, found |-> {}, set |-> set]
RemoveRole(r)     == [op |-> "remove", of |-> r, found |-> {}, set |-> {}]

\* Permissions and grants once a change is made: the rows that were found are
\* deleted, the set is inserted, and a role goes with its grants.
KeysAfter(w) ==
    CASE w.op = "edit"   -> [keys EXCEPT ![w.of] = w.set]
      [] w.op = "remove" -> [keys EXCEPT ![w.of] = None]
      [] OTHER           -> keys
GrantsAfter(w) ==
    CASE w.op = "grants" -> (grants \ ({w.of} \X w.found)) \cup ({w.of} \X w.set)
      [] w.op = "remove" -> {g \in grants : g[2] # w.of}
      [] OTHER           -> grants

\* Two uncommitted changes that touch the same rows: one of them waits.
Meet(v, w) ==
    \/ v.of = w.of /\ v.op = "grants" /\ w.op = "grants"
       /\ (v.found \cap w.found # {} \/ v.set \cap w.set # {})
    \/ v.of = w.of /\ v.op # "grants" /\ w.op # "grants"
    \/ v.op = "remove" /\ w.op = "grants" /\ v.of \in w.found \cup w.set
    \/ w.op = "remove" /\ v.op = "grants" /\ w.of \in v.found \cup v.set

Others(c) == {change[d] : d \in {d \in Clerks \ {c} : Exists(change[d])}}

\* What may be asked for: a role of the system or the default one is not deleted.
MayBeAsked ==
    {PutGrants(p, set) : p \in people, set \in SUBSET RoleRows}
        \cup {EditRole(r, set) : r \in RoleRows, set \in SUBSET SelfAdministration}
        \cup {RemoveRole(r) : r \in RoleRows \ {SystemRole, standard}}

\* The rows to delete are found by the statement that then waits for them.
Begin(c) ==
    /\ change[c] = None
    /\ overlap \/ Others(c) = {}
    /\ \E w \in MayBeAsked :
         change' = [change EXCEPT ![c] = [w |-> w, written |-> FALSE]]
    /\ UNCHANGED <<people, logins, keys, grants, standard, overlap>>

\* Whether the rows a change names are still there.
Stands(w) ==
    CASE w.op = "grants" -> w.of \in people /\ w.set \subseteq RoleRows
      [] w.op = "edit"   -> w.of \in RoleRows
      [] w.op = "remove" -> w.of \in RoleRows \ {standard}

\* Mutated form of Write: the guard is asked before the write.
WriteAfterGuard(c) ==
    /\ Exists(change[c]) /\ ~change[c].written
    /\ LET w == change[c].w
       IN  /\ \A o \in Others(c) : o.written => ~Meet(o.w, w)
           /\ change' = [change EXCEPT ![c] =
                 IF Stands(w) /\ Administered(keys, grants)
                 THEN [w |-> w, written |-> TRUE] ELSE None]
    /\ UNCHANGED <<people, logins, keys, grants, standard, overlap>>

\* The statements of a request run and the guard measures what they left, as
\* far as the transaction sees it. A breach rolls everything back.
Write(c) ==
    /\ Exists(change[c]) /\ ~change[c].written
    /\ LET w == change[c].w
       IN  /\ \A o \in Others(c) : o.written => ~Meet(o.w, w)
           /\ change' = [change EXCEPT ![c] =
                 IF Stands(w) /\ Administered(KeysAfter(w), GrantsAfter(w))
                 THEN [w |-> w, written |-> TRUE] ELSE None]
    /\ UNCHANGED <<people, logins, keys, grants, standard, overlap>>

CommitChange(c) ==
    /\ Exists(change[c]) /\ change[c].written
    /\ keys' = KeysAfter(change[c].w)
    /\ grants' = GrantsAfter(change[c].w)
    /\ change' = [change EXCEPT ![c] = None]
    /\ UNCHANGED <<people, logins, standard, overlap>>

-----------------------------------------------------------------------------
(***************************************************************************)
(* Requests in one step                                                    *)
(***************************************************************************)
\* Whether a request of one step may run now.
MayRun == overlap \/ \A c \in Clerks : change[c] = None

\* No uncommitted change names a row.
Untouched(is) == \A c \in Clerks : Exists(change[c]) =>
    is # change[c].w.of /\ is \notin change[c].w.set \cup change[c].w.found

\* POST /api/access-roles; the guard is asked after this too.
CreateRole ==
    /\ MayRun
    /\ \E r \in Roles \ RoleRows, set \in SUBSET SelfAdministration :
         /\ keys' = [keys EXCEPT ![r] = set]
         /\ Administered(keys', grants)
    /\ UNCHANGED <<people, logins, grants, standard, change, overlap>>

\* PUT /api/auth-settings; the foreign key keeps the role from being deleted.
PutDefaultRole ==
    /\ MayRun
    /\ \E r \in RoleRows \cup {None} :
         /\ \A c \in Clerks : Exists(change[c]) /\ change[c].w.op = "remove" => change[c].w.of # r
         /\ standard' = r
    /\ UNCHANGED <<people, logins, keys, grants, change, overlap>>

\* POST /api/persons: a new person gets the default role.
CreatePerson ==
    /\ MayRun
    /\ \E p \in Staff \ people :
         /\ people' = people \cup {p}
         /\ grants' = grants \cup (IF Exists(standard) THEN {<<p, standard>>} ELSE {})
    /\ UNCHANGED <<logins, keys, standard, change, overlap>>

\* Mutated form of DeletePerson: the grants stay behind.
DeletePersonOnly ==
    /\ MayRun
    /\ \E p \in people \ logins :
         Untouched(p) /\ people' = people \ {p}
    /\ UNCHANGED <<logins, keys, grants, standard, change, overlap>>

\* DELETE /api/persons/:id: refused for a person with a login; the grants go
\* with the person, and nobody counts what is left.
DeletePerson ==
    /\ MayRun
    /\ \E p \in people \ logins :
         /\ Untouched(p)
         /\ people' = people \ {p}
         /\ grants' = {g \in grants : g[1] # p}
    /\ UNCHANGED <<logins, keys, standard, change, overlap>>

\* A login is given to a person or taken away: Accounts has the details.
LoginChanges ==
    /\ MayRun
    /\ \E p \in people : logins' = IF p \in logins THEN logins \ {p} ELSE logins \cup {p}
    /\ UNCHANGED <<people, keys, grants, standard, change, overlap>>

RolesNext ==
    \/ \E c \in Clerks : Begin(c) \/ Write(c) \/ CommitChange(c)
    \/ CreateRole \/ PutDefaultRole \/ CreatePerson \/ DeletePerson \/ LoginChanges

RolesSpec == RolesInit /\ [][RolesNext]_roleVars
-----------------------------------------------------------------------------
(***************************************************************************)
(* What has to hold                                                        *)
(***************************************************************************)
RolesTypeOK ==
    /\ logins \subseteq people /\ people \subseteq Staff
    /\ grants \subseteq people \X RoleRows
    /\ standard \in RoleRows \cup {None}
    /\ SystemRole \in RoleRows

\* Requests one at a time: whatever roles are edited and removed and whatever
\* grants are put, somebody can compose roles and somebody can grant them; only
\* the deletion of a person takes that away (accessRoleGuards.ts).
AdministratorStays == [][
    ~overlap /\ Administered(keys, grants) /\ ~Administered(keys', grants') => DeletePerson
    ]_roleVars

\* accessRoleGuards.ts: "What must not happen is the LAST holder going away,
\* whichever route takes it: editing a role's grants, deleting the role, or
\* revoking the last assignment. All three end here."
LastHolderStays == Administered(keys, grants)

\* The same for requests that overlap, people staying.
LastHolderStaysTogether == [][
    Administered(keys, grants) /\ ~Administered(keys', grants') => DeletePerson
    ]_roleVars

\* The route's description: it "Replaces the ENTIRE membership set in one
\* idempotent write"; entityRelations.ts: "Each PUT replaces one whole set
\* atomically".
PutReplacesTheSet == [][
    \A c \in Clerks : CommitChange(c) /\ change[c].w.op = "grants" =>
        {r \in Roles : <<change[c].w.of, r>> \in grants'} = change[c].w.set
    ]_roleVars
=============================================================================
