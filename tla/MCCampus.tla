------------------------------- MODULE MCCampus -------------------------------
(***************************************************************************)
(* What a schedule is made from, on small instances: groups, rooms, the    *)
(* series of an offering, roles and accounts. The parts share no rows, so  *)
(* a behaviour follows one of them, the focus, and the others stay where   *)
(* they begin.                                                             *)
(*                                                                         *)
(* Ids are shared between the parts, so that the interchangeable ones form *)
(* two small sets: a1, a2, a3 are groups and rooms, b1 and b2 are callers, *)
(* and the groups of an offering.                                          *)
(***************************************************************************)
EXTENDS GroupClosure, RoomEstate, OfferingSeries, RoleGrants, Accounts, TLC

CONSTANTS a1, a2, a3, b1, b2, g1, p1, p2, p3, r1, r2, k1, k2, s1, tA, tB

VARIABLE focus

\* The first group has no estimate of its own, and may be a combined one; the
\* others are alike, and their rolls are smaller than their estimates.
Sizes == [g \in Groups |-> IF g = g1 THEN None ELSE 2]

\* Two people of one tenant, one of another.
MCTenantOf == [p \in {p1, p2, p3} |-> IF p = p3 THEN tB ELSE tA]

Alike == Permutations({a1, a2, a3}) \cup Permutations({b1, b2})

Parts == {"groups", "walls", "pins", "series", "roles", "accounts"}

CampusInit ==
    /\ focus \in Parts
    /\ GroupsInit /\ RoomsInit /\ SeriesInit /\ RolesInit /\ AccountsInit
    /\ focus # "walls" => ~mingled
    /\ focus # "series" => attached = {}
    /\ focus # "roles" => people = {p1} /\ logins = {}
    /\ ~overlap
    /\ focus # "accounts" => ~crossed

\* Pairs of rooms and pins on rooms do not meet: one is followed with no pins,
\* the other with no pairs.
CampusNext ==
    \/ focus = "groups" /\ GroupsNext
       /\ UNCHANGED <<roomVars, seriesVars, roleVars, accountVars, focus>>
    \/ focus = "walls" /\ (WallsNext \/ EstateNext)
       /\ (\A r \in RoomIds : Exists(rooms'[r]) => rooms'[r].active)
       /\ UNCHANGED <<groupVars, seriesVars, roleVars, accountVars, focus>>
    \/ focus = "pins" /\ (EstateNext \/ RestrictionNext)
       /\ UNCHANGED <<groupVars, seriesVars, roleVars, accountVars, focus>>
    \/ focus = "series" /\ SeriesNext
       /\ UNCHANGED <<groupVars, roomVars, roleVars, accountVars, focus>>
    \/ focus = "roles" /\ RolesNext
       /\ UNCHANGED <<groupVars, roomVars, seriesVars, accountVars, focus>>
    \/ focus = "accounts" /\ AccountsNext
       /\ UNCHANGED <<groupVars, roomVars, seriesVars, roleVars, focus>>

CampusSpec ==
    CampusInit
    /\ [][CampusNext]_<<groupVars, roomVars, seriesVars, roleVars, accountVars, focus>>


\* Rows refer to rows there are, whatever is created, changed and deleted in
\* whatever order (the foreign keys and triggers of the schema).
CampusTypeOK ==
    GroupsTypeOK /\ RoomsTypeOK /\ SeriesTypeOK /\ RolesTypeOK /\ AccountsTypeOK

=============================================================================
