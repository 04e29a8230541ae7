------------------------------- MODULE Accounts -------------------------------
(***************************************************************************)
(* Logins. An account acts as a person in each of one or more tenants;     *)
(* the tenants administer it each from their side, and none of them sees   *)
(* an account that acts as nobody.                                         *)
(*                                                                         *)
(*   server/utils/accountAdmin.ts      what a tenant may do to an account  *)
(*   server/api/accounts/              create, attach, relink, detach,     *)
(*                                     delete                              *)
(*   server/utils/resources.ts         deletion of a person                *)
(*   staff_erase_tenant (migration)    deletion of a tenant                *)
(*   server/api/auth/                  sessions and whom they act as       *)
(*                                                                         *)
(* A request reads the account and its identities, decides, and writes.    *)
(* Whether other requests come in between is chosen in the beginning.      *)
(* Passwords, email addresses and deactivation are left out.               *)
(***************************************************************************)
EXTENDS Integers, FiniteSets, Database

CONSTANTS
    Tenants, Persons, Logins, Cookies,
    Callers,        \* administrators, each with a request under way at most
    TenantOf        \* the tenant of each person

\* NULL is no row.
ASSUME AccountsAssumption ==
    /\ TenantOf \in [Persons -> Tenants]
    /\ None \notin Logins \cup Persons

VARIABLES
    tenants, persons, accounts,     \* rows that exist
    identity,   \* account_person rows
    session,    \* auth_session rows that are not revoked
    task,       \* the request of each caller
    crossed     \* whether requests come in between

accountVars == <<tenants, persons, accounts, identity, session, task, crossed>>

Identities(k)   == {p \in persons : <<k, p>> \in identity}
IdentitiesIn(t, k) == {p \in Identities(k) : TenantOf[p] = t}
LinkOf(p)       == {k \in accounts : <<k, p>> \in identity}

\* isSoleTenant
SoleTenant(t, k) == \A p \in Identities(k) : TenantOf[p] = t

Acts(k, p) == [account |-> k, person |-> p]
SignedIn       == {s \in Cookies : Exists(session[s])}

AccountsInit ==
    /\ tenants = Tenants /\ persons = Persons
    /\ accounts = {} /\ identity = {}
    /\ session = [s \in Cookies |-> None]
    /\ task = [c \in Callers |-> None]
    /\ crossed \in BOOLEAN

-----------------------------------------------------------------------------
(***************************************************************************)
(* What a request reads and decides                                        *)
(***************************************************************************)
Task(op, t, account, own, target) ==
    [op |-> op, tenant |-> t, account |-> account, own |-> own, target |-> target]

MayRead(c, t) ==
    /\ t \in tenants /\ task[c] = None
    /\ crossed \/ \A d \in Callers : task[d] = None

Decided(c, w) ==
    /\ task' = [task EXCEPT ![c] = w]
    /\ UNCHANGED <<tenants, persons, accounts, identity, session, crossed>>

\* resolveAttachablePerson: a person of the tenant that no other account has.
Attachable(t, p, k) == p \in persons /\ TenantOf[p] = t /\ LinkOf(p) \subseteq {k}

\* POST /api/accounts: a new login, or with attachExisting the one that has the
\* address already, of whatever tenant.
ReadCreate(c, t) ==
    /\ MayRead(c, t)
    /\ \E k \in Logins, p \in Persons :
        /\ Attachable(t, p, None)
        /\ Decided(c, Task(IF k \in accounts THEN "attach" ELSE "create", t, k, None, p))

\* PATCH /api/accounts/:id with another person of the tenant.
ReadRelink(c, t) ==
    /\ MayRead(c, t)
    /\ \E k \in accounts : \E own \in IdentitiesIn(t, k), p \in Persons :
        /\ p # own /\ Attachable(t, p, k)
        /\ Decided(c, Task("relink", t, k, own, p))

\* POST /api/accounts/:id/detach: assertDetachable
ReadDetach(c, t) ==
    /\ MayRead(c, t)
    /\ \E k \in accounts : \E own \in IdentitiesIn(t, k) :
        /\ ~SoleTenant(t, k)
        /\ Decided(c, Task("detach", t, k, own, None))

\* Mutated form of ReadDelete: a shared login is deleted like any other.
ReadDeleteOfShared(c, t) ==
    /\ MayRead(c, t)
    /\ \E k \in accounts : \E own \in IdentitiesIn(t, k) :
        Decided(c, Task("delete", t, k, own, None))

\* DELETE /api/accounts/:id: assertSoleTenant
ReadDelete(c, t) ==
    /\ MayRead(c, t)
    /\ \E k \in accounts : \E own \in IdentitiesIn(t, k) :
        /\ SoleTenant(t, k)
        /\ Decided(c, Task("delete", t, k, own, None))

\* Mutated form of ReadDeletePerson: the login is not looked for.
ReadDeleteAnyPerson(c, t) ==
    /\ MayRead(c, t)
    /\ \E p \in persons :
        /\ TenantOf[p] = t
        /\ Decided(c, Task("person", t, None, None, p))

\* DELETE /api/persons/:id: refused for a person with a login.
ReadDeletePerson(c, t) ==
    /\ MayRead(c, t)
    /\ \E p \in persons :
        /\ TenantOf[p] = t /\ LinkOf(p) = {}
        /\ Decided(c, Task("person", t, None, None, p))

-----------------------------------------------------------------------------
(***************************************************************************)
(* What it writes                                                          *)
(***************************************************************************)
Doing(c, ops) == Exists(task[c]) /\ task[c].op \in ops
Done(c) == task' = [task EXCEPT ![c] = None]

\* Sessions left when those of some accounts or people go.
Without(gone(_)) == [s \in Cookies |-> IF s \in SignedIn /\ gone(session[s]) THEN None ELSE session[s]]

\* Mutated form of WriteLink: a person may be linked twice.
WriteSecondLink(c) ==
    /\ Doing(c, {"create", "attach"}) /\ Done(c)
    /\ LET w == task[c]
       IN  IF w.target \in persons /\ (w.op = "create" <=> w.account \notin accounts)
           THEN /\ accounts' = accounts \cup {w.account}
                /\ identity' = identity \cup {<<w.account, w.target>>}
           ELSE UNCHANGED <<accounts, identity>>
    /\ UNCHANGED <<tenants, persons, session, crossed>>

\* linkAccountToPerson fails for a person linked since, account and person for
\* rows deleted since: nothing of the request is kept then.
WriteLink(c) ==
    /\ Doing(c, {"create", "attach"}) /\ Done(c)
    /\ LET w == task[c]
       IN  IF w.target \in persons /\ LinkOf(w.target) = {} /\ (w.op = "create" <=> w.account \notin accounts)
           THEN /\ accounts' = accounts \cup {w.account}
                /\ identity' = identity \cup {<<w.account, w.target>>}
           ELSE UNCHANGED <<accounts, identity>>
    /\ UNCHANGED <<tenants, persons, session, crossed>>

\* Mutated form of WriteRelink: sessions of the earlier person stay.
WriteRelinkOnly(c) ==
    /\ Doing(c, {"relink"}) /\ Done(c)
    /\ LET w == task[c]
       IN  IF <<w.account, w.own>> \in identity /\ w.target \in persons /\ LinkOf(w.target) = {}
           THEN identity' = (identity \ {<<w.account, w.own>>}) \cup {<<w.account, w.target>>}
           ELSE UNCHANGED identity
    /\ UNCHANGED <<tenants, persons, accounts, session, crossed>>

\* The link of this tenant is replaced and what acts as the earlier person ends.
WriteRelink(c) ==
    /\ Doing(c, {"relink"}) /\ Done(c)
    /\ LET w == task[c]
       IN  IF <<w.account, w.own>> \in identity /\ w.target \in persons /\ LinkOf(w.target) = {}
           THEN /\ identity' = (identity \ {<<w.account, w.own>>}) \cup {<<w.account, w.target>>}
                /\ session' = Without(LAMBDA s : s = Acts(w.account, w.own))
           ELSE UNCHANGED <<identity, session>>
    /\ UNCHANGED <<tenants, persons, accounts, crossed>>

WriteDetach(c) ==
    /\ Doing(c, {"detach"}) /\ Done(c)
    /\ LET w == task[c]
       IN  /\ identity' = identity \ {<<w.account, w.own>>}
           /\ session' = IF <<w.account, w.own>> \in identity
                         THEN Without(LAMBDA s : s = Acts(w.account, w.own)) ELSE session
    /\ UNCHANGED <<tenants, persons, accounts, crossed>>

\* Its identities and sessions go with an account.
WriteDelete(c) ==
    /\ Doing(c, {"delete"}) /\ Done(c)
    /\ LET k == task[c].account
       IN  /\ accounts' = accounts \ {k}
           /\ identity' = {i \in identity : i[1] # k}
           /\ session' = Without(LAMBDA s : s.account = k)
    /\ UNCHANGED <<tenants, persons, crossed>>

\* A link and sessions go with a person.
WriteDeletePerson(c) ==
    /\ Doing(c, {"person"}) /\ Done(c)
    /\ LET p == task[c].target
       IN  /\ persons' = persons \ {p}
           /\ identity' = {i \in identity : i[2] # p}
           /\ session' = Without(LAMBDA s : s.person = p)
    /\ UNCHANGED <<tenants, accounts, crossed>>

-----------------------------------------------------------------------------
(***************************************************************************)
(* Staff and sessions                                                      *)
(***************************************************************************)
Quiet == crossed \/ \A c \in Callers : task[c] = None

\* staff_erase_tenant: the tenant and all of its rows, then those of its
\* accounts that act as nobody any more.
EraseTenant(t) ==
    /\ Quiet /\ t \in tenants
    /\ LET held == {k \in accounts : IdentitiesIn(t, k) # {}}
           gone == {k \in held : SoleTenant(t, k)}
       IN  /\ accounts' = accounts \ gone
           /\ session' = Without(LAMBDA s : s.account \in gone
                                            \/ (Exists(s.person) /\ TenantOf[s.person] = t))
    /\ tenants' = tenants \ {t}
    /\ persons' = {p \in persons : TenantOf[p] # t}
    /\ identity' = {i \in identity : TenantOf[i[2]] # t}
    /\ task' = [c \in Callers |-> IF Exists(task[c]) /\ task[c].tenant = t THEN None ELSE task[c]]
    /\ UNCHANGED crossed

\* A sign-in picks the tenant by itself when there is only one identity.
SignIn(s) ==
    /\ Quiet /\ s \notin SignedIn
    /\ \E k \in {k \in accounts : Identities(k) # {}} :
         \E p \in Identities(k) \cup (IF Cardinality(Identities(k)) > 1 THEN {None} ELSE {}) :
            session' = [session EXCEPT ![s] = Acts(k, p)]
    /\ UNCHANGED <<tenants, persons, accounts, identity, task, crossed>>

\* POST /api/auth/select-tenant
SelectTenant(s) ==
    /\ Quiet /\ s \in SignedIn
    /\ \E p \in Identities(session[s].account) \ {session[s].person} :
         session' = [session EXCEPT ![s].person = p]
    /\ UNCHANGED <<tenants, persons, accounts, identity, task, crossed>>

SignOut(s) ==
    /\ Quiet /\ s \in SignedIn
    /\ session' = [session EXCEPT ![s] = None]
    /\ UNCHANGED <<tenants, persons, accounts, identity, task, crossed>>

AccountsNext ==
    \/ \E c \in Callers, t \in Tenants :
        \/ ReadCreate(c, t) \/ ReadRelink(c, t) \/ ReadDetach(c, t)
        \/ ReadDelete(c, t) \/ ReadDeletePerson(c, t)
    \/ \E c \in Callers :
        \/ WriteLink(c) \/ WriteRelink(c) \/ WriteDetach(c) \/ WriteDelete(c) \/ WriteDeletePerson(c)
    \/ \E t \in Tenants : EraseTenant(t)
    \/ \E s \in Cookies : SignIn(s) \/ SelectTenant(s) \/ SignOut(s)

AccountsSpec == AccountsInit /\ [][AccountsNext]_accountVars
-----------------------------------------------------------------------------
(***************************************************************************)
(* What has to hold                                                        *)
(***************************************************************************)
AccountsTypeOK ==
    /\ identity \subseteq accounts \X persons
    /\ \A p \in persons : TenantOf[p] \in tenants /\ Cardinality(LinkOf(p)) <= 1
    /\ \A s \in SignedIn : session[s].account \in accounts /\ session[s].person \in persons \cup {None}

\* Requests one at a time: there is no account that acts as nobody, which no
\* tenant could see or delete (assertDetachable, persons.beforeDelete,
\* staff_erase_tenant).
NoAccountIsOrphan == ~crossed => \A k \in accounts : Identities(k) # {}

\* Requests one at a time: a session acts as a person only while its account
\* does (the revocations of relink and detach).
SessionsActAsIdentities ==
    ~crossed => \A s \in SignedIn : Exists(session[s].person) =>
        <<session[s].account, session[s].person>> \in identity

\* Requests one at a time: no tenant takes a login from a person of another
\* (assertSoleTenant, and the composite key relink and detach delete by).
OthersKeepTheirLogin == [][
    ~crossed => \A i \in identity \ identity' :
        \/ TenantOf[i[2]] \notin tenants'
        \/ \E c \in Callers : Exists(task[c]) /\ task[c].tenant = TenantOf[i[2]]
    ]_accountVars

\* A login belongs to somebody, in every tenant it acts in: nobody signs in as
\* a person it was taken from, and only their own tenant takes it from them.
LoginsStayOwned == []NoAccountIsOrphan /\ []SessionsActAsIdentities /\ OthersKeepTheirLogin

\* The comment in assertDetachable: an account without an identity is a state
\* "to make unrepresentable". The rules above, for requests that overlap.
OrphanIsUnrepresentable == \A k \in accounts : Identities(k) # {}

\* The comment on AccountView: "within one tenant an Account has at most one
\* identity".
OneIdentityInATenant == \A k \in accounts, t \in tenants : Cardinality(IdentitiesIn(t, k)) <= 1
=============================================================================
