------------------------------ MODULE RoomEstate ------------------------------
(***************************************************************************)
(* The rooms of a tenant, the pairs of them that are one physical space,   *)
(* and what one offering asks of its room.                                 *)
(*                                                                         *)
(*   server/utils/offeringRooms.ts      the rooms an offering may use      *)
(*   server/utils/violations.ts         ... as a manual placement is told  *)
(*   server/utils/solverInput.ts        ... as the solver is told          *)
(*   prisma/migrations/20260903220000_room_footprint_pairs   mirrored rows *)
(*   server/utils/resources.ts, relations.ts   the guards of both tables   *)
(*                                                                         *)
(* A replacement of pairs and a change of a room's kind take two steps,    *)
(* their statements and their commit; until then others do not see what    *)
(* they wrote. Whether requests overlap is chosen in the beginning.        *)
(***************************************************************************)
EXTENDS Integers, FiniteSets, Database

CONSTANTS
    RoomIds,        \* rooms, those yet to be created included
    Porters         \* callers with a request each

OnlineModes == {"FORBIDDEN", "ALLOWED", "REQUIRED"}
Kinds       == [virtual : BOOLEAN, active : BOOLEAN]

\* NO_ELIGIBLE_ROOM_ID
NoEligibleRoom == "no_eligible_room"

\* NULL is no room and no list of rooms, and the id that stands for "none at all"
\* is not taken.
ASSUME RoomsAssumption ==
    /\ None \notin RoomIds /\ \A set \in SUBSET RoomIds : set # None
    /\ \A k \in Kinds : k # None
    /\ NoEligibleRoom \notin RoomIds

VARIABLES
    rooms,          \* room rows: their kind, None where there is none
    pairs,          \* room_footprint rows
    pins,           \* offering_room rows of the offering
    onlineMode,     \* offering.online_mode
    work,           \* the request of each porter
    mingled         \* whether requests overlap

roomVars == <<rooms, pairs, pins, onlineMode, work, mingled>>

RoomRows   == {r \in RoomIds : Exists(rooms[r])}
Virtual(r) == rooms[r].virtual

RoomsInit ==
    /\ rooms = [r \in RoomIds |-> None]
    /\ pairs = {} /\ pins = {}
    /\ onlineMode = "ALLOWED"
    /\ work = [c \in Porters |-> None]
    /\ mingled \in BOOLEAN

-----------------------------------------------------------------------------
(***************************************************************************)
(* The rooms an offering may use                                           *)
(***************************************************************************)
\* The snapshot both consumers take.
ActiveRooms == {r \in RoomRows : rooms[r].active}

\* What the online mode alone permits.
ModeAllows(r) ==
    CASE onlineMode = "REQUIRED"  -> Virtual(r)
      [] onlineMode = "FORBIDDEN" -> ~Virtual(r)
      [] onlineMode = "ALLOWED"   -> TRUE

\* Mutated form of Stated: only the pin is a restriction.
StatedByPin == pins # {}

Stated == pins # {} \/ onlineMode = "REQUIRED"

\* The rooms a stated restriction leaves.
Permitted ==
    {r \in (IF pins # {} THEN pins \cap ActiveRooms ELSE ActiveRooms) : ModeAllows(r)}

\* Permitted to a manual placement: None where nothing is restricted.
PermittedRooms ==
    IF Stated THEN Permitted
    ELSE IF onlineMode = "FORBIDDEN" THEN {r \in ActiveRooms : ~Virtual(r)} ELSE None

\* What goes on the wire: an empty list is any room.
Wire ==
    [allowed     |-> IF ~Stated THEN {}
                     ELSE IF Permitted # {} THEN Permitted ELSE {NoEligibleRoom},
     allowOnline |-> onlineMode # "FORBIDDEN"]

\* no_session_outside_allowed_room says nothing of a session in this room.
ManualMayUse(r) == ~Exists(PermittedRooms) \/ r \in PermittedRooms

\* What the solver makes of the wire.
SolverMayUse(r) ==
    /\ Wire.allowed = {} \/ r \in Wire.allowed
    /\ Virtual(r) => Wire.allowOnline

-----------------------------------------------------------------------------
(***************************************************************************)
(* Pairs, and the kind of a room                                           *)
(***************************************************************************)
Both(set) == set \cup {<<p[2], p[1]>> : p \in set}
PairsOf(r) == {p \in pairs : p[1] = r}

Replace(r, set) == [op |-> "pairs", of |-> r, found |-> PairsOf(r), set |-> {r} \X set]
MakeVirtual(r)  == [op |-> "virtual", of |-> r, found |-> {}, set |-> {}]

Pending(c) == {work[d].w : d \in {d \in Porters \ {c} : Exists(work[d]) /\ work[d].written}}
AtWork(c)  == {d \in Porters \ {c} : Exists(work[d])}

\* Uncommitted rows of one that the other writes too: it waits.
Clash(v, w) ==
    \/ v.op = "pairs" /\ w.op = "pairs"
        /\ Both(v.found \cup v.set) \cap Both(w.found \cup w.set) # {}
    \/ v.op = "virtual" /\ w.op = "virtual" /\ v.of = w.of

\* What a caller may ask for: some pairs for a room, or a virtual one.
MayBeWorked ==
    {Replace(r, set) : r \in RoomRows, set \in SUBSET RoomRows}
        \cup {MakeVirtual(r) : r \in RoomRows}

\* The rows to delete are found by the statement that then waits for them.
BeginWork(c) ==
    /\ work[c] = None
    /\ mingled \/ AtWork(c) = {}
    /\ \E w \in MayBeWorked :
         work' = [work EXCEPT ![c] = [w |-> w, written |-> FALSE]]
    /\ UNCHANGED <<rooms, pairs, pins, onlineMode, mingled>>

\* Mutated form of Fits: the room that is edited is looked at alone.
FitsItself(w) ==
    IF w.op = "pairs" THEN \A p \in w.set : p[1] # p[2] /\ ~Virtual(p[1])
    ELSE PairsOf(w.of) = {}

\* The guards, and the triggers behind them, on what the request sees: no pair
\* with itself or with a virtual room, no kind that a pair forbids.
Fits(w) ==
    IF w.op = "pairs" THEN \A p \in w.set : p[1] # p[2] /\ ~Virtual(p[1]) /\ ~Virtual(p[2])
    ELSE PairsOf(w.of) = {}

\* The statements run: rows the request names must be there still.
Statements(c) ==
    /\ Exists(work[c]) /\ ~work[c].written
    /\ LET w == work[c].w
       IN  /\ \A v \in Pending(c) : ~Clash(v, w)
           /\ work' = [work EXCEPT ![c] =
                 IF w.of \in RoomRows /\ {p[2] : p \in w.set} \subseteq RoomRows /\ Fits(w)
                 THEN [w |-> w, written |-> TRUE] ELSE None]
    /\ UNCHANGED <<rooms, pairs, pins, onlineMode, mingled>>

\* Mutated form of PairsAfter: what is deleted keeps its mirror.
PairsAfterInsertMirror(w) == (pairs \ w.found) \cup Both(w.set)

\* room_footprint_mirror: every row that is deleted or inserted takes its
\* mirror along.
PairsAfter(w) == (pairs \ Both(w.found)) \cup Both(w.set)

CommitWork(c) ==
    /\ Exists(work[c]) /\ work[c].written
    /\ LET w == work[c].w
       IN  /\ pairs' = IF w.op = "pairs" THEN PairsAfter(w) ELSE pairs
           /\ rooms' = IF w.op = "virtual" THEN [rooms EXCEPT ![w.of].virtual = TRUE] ELSE rooms
    /\ work' = [work EXCEPT ![c] = None]
    /\ UNCHANGED <<pins, onlineMode, mingled>>

-----------------------------------------------------------------------------
(***************************************************************************)
(* Requests of one step                                                    *)
(***************************************************************************)
\* A room whose kind is being written waits; one that rows being written name
\* cannot go.
Written(r) ==
    \E d \in Porters : Exists(work[d]) /\ work[d].written /\ work[d].w.op = "virtual"
                      /\ work[d].w.of = r
Held(r) ==
    \E d \in Porters : Exists(work[d]) /\ work[d].written
        /\ (r = work[d].w.of \/ \E p \in work[d].w.found \cup work[d].w.set : p[2] = r)

CreateRoom(r) ==
    /\ r \notin RoomRows
    /\ \E k \in Kinds : rooms' = [rooms EXCEPT ![r] = k]
    /\ UNCHANGED <<pairs, pins, onlineMode, work, mingled>>

\* Mutated form of ChangeRoom: a room out of use leaves the pins, as a deleted
\* one does.
ChangeRoomUnpins(r) ==
    /\ r \in RoomRows /\ ~Written(r)
    /\ \E k \in Kinds : (k.virtual => Virtual(r)) /\ rooms' = [rooms EXCEPT ![r] = k]
    /\ pins' = {q \in pins : q = r => rooms'[r].active}
    /\ UNCHANGED <<pairs, onlineMode, work, mingled>>

\* PATCH of what no guard looks at: active or not, or physical once more.
ChangeRoom(r) ==
    /\ r \in RoomRows /\ ~Written(r)
    /\ \E k \in Kinds : (k.virtual => Virtual(r)) /\ rooms' = [rooms EXCEPT ![r] = k]
    /\ UNCHANGED <<pairs, pins, onlineMode, work, mingled>>

\* Mutated form of DeleteRoom: the cascade reaches one of the two columns, and
\* the mirror does not fire inside it.
DeleteRoomOneColumn(r) ==
    /\ r \in RoomRows /\ ~Held(r)
    /\ rooms' = [rooms EXCEPT ![r] = None]
    /\ pairs' = pairs \ PairsOf(r)
    /\ pins' = pins \ {r}
    /\ UNCHANGED <<onlineMode, work, mingled>>

\* Its pairs and pins go with it.
DeleteRoom(r) ==
    /\ r \in RoomRows /\ ~Held(r)
    /\ rooms' = [rooms EXCEPT ![r] = None]
    /\ pairs' = {p \in pairs : r \notin {p[1], p[2]}}
    /\ pins' = pins \ {r}
    /\ UNCHANGED <<onlineMode, work, mingled>>

PinRooms ==
    /\ pins' \in SUBSET RoomRows
    /\ UNCHANGED <<rooms, pairs, onlineMode, work, mingled>>

SetOnlineMode ==
    /\ onlineMode' \in OnlineModes
    /\ UNCHANGED <<rooms, pairs, pins, work, mingled>>

WallsNext == \E c \in Porters : BeginWork(c) \/ Statements(c) \/ CommitWork(c)

EstateNext == \E r \in RoomIds : CreateRoom(r) \/ ChangeRoom(r) \/ DeleteRoom(r)

RestrictionNext == PinRooms \/ SetOnlineMode

RoomsNext == WallsNext \/ EstateNext \/ RestrictionNext

RoomsSpec == RoomsInit /\ [][RoomsNext]_roomVars

-----------------------------------------------------------------------------
(***************************************************************************)
(* Properties                                                              *)
(***************************************************************************)
\* A pair is read from either of its rooms, through replacements from both
\* sides, overlapping requests and deleted rooms.
PairsAreMutual == pairs = Both(pairs) /\ \A p \in pairs : p[1] # p[2]

\* Without overlapping requests a virtual room is one space with no other.
VirtualRoomsHaveNoWalls ==
    ~mingled => \A p \in pairs : ~Virtual(p[1]) /\ ~Virtual(p[2])

\* Pairs and pins name rooms there are, and the pairs are those of one physical
\* space, on whatever side and in whatever order they were written.
RoomsTypeOK ==
    /\ rooms \in [RoomIds -> Kinds \cup {None}]
    /\ pairs \subseteq RoomRows \X RoomRows
    /\ pins \subseteq RoomRows
    /\ onlineMode \in OnlineModes
    /\ PairsAreMutual /\ VirtualRoomsHaveNoWalls

\* What the offering asks of a room: the pin and the online mode intersect.
Asked(r) ==
    /\ pins # {} => r \in pins
    /\ onlineMode = "REQUIRED" => Virtual(r)
    /\ onlineMode = "FORBIDDEN" => ~Virtual(r)

\* The solver may place in a room, and a manual placement there is told nothing,
\* exactly where the room is what the offering asks for: also where nothing is
\* left, and where an empty list and a list of all rooms mean the same.
RestrictionIsHonoured ==
    \A r \in ActiveRooms : (SolverMayUse(r) <=> Asked(r)) /\ (ManualMayUse(r) <=> Asked(r))

MayUse == {r \in ActiveRooms : SolverMayUse(r)}

\* A room that is taken out of use gives an offering no room it did not have.
OutOfUseWidensNothing ==
    [][\A r \in RoomIds :
          (ChangeRoom(r) /\ rooms[r].active /\ rooms[r].virtual = rooms'[r].virtual
             /\ ~rooms'[r].active) => MayUse' \subseteq MayUse]_roomVars

\* Nothing that happens to rooms lets an offering use one it did not ask for.
RoomsStayRestricted == []RestrictionIsHonoured /\ OutOfUseWidensNothing

\* The triggers' promise. Overlapping requests break it: one pairs a room that
\* the other makes virtual, and neither sees the other's write.
VirtualRoomsNeverHaveWalls == \A p \in pairs : ~Virtual(p[1]) /\ ~Virtual(p[2])
=============================================================================
