----------------------------- MODULE CampusProofs -----------------------------
(***************************************************************************)
(* Theorems about what a schedule is made from, for any number of rooms,   *)
(* roles, people, accounts and callers, and whatever overlaps: each of     *)
(* RoomEstate, OfferingSeries, RoleGrants and Accounts gets an inductive   *)
(* invariant (RoomsInv, SeriesInv, RolesInv, AccountsInv), what the runs   *)
(* check of it follows, and the module that follows one of them at a time  *)
(* inherits it (CampusFollows).                                            *)
(*                                                                         *)
(* The invariants speak of requests half done: rows that a request has     *)
(* written and not committed hold on to the rows they name, and what a     *)
(* request read stays true as long as the database lets it.                *)
(***************************************************************************)
EXTENDS MCCampus, GroupClosureProofs, Inductions, FiniteSetTheorems, TLAPS

-----------------------------------------------------------------------------
(***************************************************************************)
(* Rooms                                                                   *)
(***************************************************************************)
\* What a request of a porter is about.
IsWork(w) ==
    /\ w.op \in {"pairs", "virtual"} /\ w.of \in RoomIds
    /\ w.set \subseteq RoomIds \X RoomIds /\ w.found \subseteq RoomIds \X RoomIds
    /\ \A p \in w.set : p[1] = w.of

\* The rooms a request has written about are there until it commits, and no pair
\* it wrote is one with itself.
WrittenHolds(w) ==
    /\ w.of \in RoomRows /\ \A p \in w.set : p[2] \in RoomRows
    /\ w.op = "pairs" => \A p \in w.set : p[1] # p[2]

\* Requests one at a time, what they fitted they still fit.
FitsStill(w) ==
    /\ w.op = "pairs" => \A p \in w.set : ~Virtual(p[1]) /\ ~Virtual(p[2])
    /\ w.op = "virtual" => PairsOf(w.of) = {}

WorkHolds ==
    /\ DOMAIN work = Porters
    /\ \A c \in Porters : work[c] # None =>
          IsWork(work[c].w) /\ (work[c].written => WrittenHolds(work[c].w))

WorkAlone == ~mingled =>
    /\ \A c, d \in Porters : work[c] # None /\ work[d] # None => c = d
    /\ \A c \in Porters : work[c] # None /\ work[c].written => FitsStill(work[c].w)

RoomsInv == RoomsTypeOK /\ WorkHolds /\ WorkAlone

LEMMA RoomsBegin == RoomsInit => RoomsInv
BY DEF RoomsInit, RoomsInv, RoomsTypeOK, WorkHolds, WorkAlone, RoomRows, PairsAreMutual,
   VirtualRoomsHaveNoWalls, Both, OnlineModes

LEMMA BeginWorkKeeps ==
    ASSUME RoomsInv, NEW c \in Porters, BeginWork(c)
    PROVE  RoomsInv'
<1>1. PICK w \in MayBeWorked : work' = [work EXCEPT ![c] = [w |-> w, written |-> FALSE]]
  BY DEF BeginWork
<1>2. /\ mingled \/ AtWork(c) = {}
      /\ UNCHANGED <<rooms, pairs, pins, onlineMode, mingled>>
  BY DEF BeginWork
<1>3. IsWork(w)
  <2>1. CASE \E r \in RoomRows, set \in SUBSET RoomRows : w = Replace(r, set)
    <3>1. PICK r \in RoomRows, set \in SUBSET RoomRows : w = Replace(r, set) BY <2>1
    <3>2. w.op = "pairs" /\ w.of = r /\ w.found = PairsOf(r) /\ w.set = {r} \X set
      BY <3>1 DEF Replace
    <3> QED BY <3>2 DEF IsWork, RoomRows, PairsOf, RoomsInv, RoomsTypeOK
  <2>2. CASE \E r \in RoomRows : w = MakeVirtual(r)
    <3>1. PICK r \in RoomRows : w = MakeVirtual(r) BY <2>2
    <3>2. w.op = "virtual" /\ w.of = r /\ w.found = {} /\ w.set = {} BY <3>1 DEF MakeVirtual
    <3> QED BY <3>2 DEF IsWork, RoomRows
  <2> QED BY <2>1, <2>2 DEF MayBeWorked
<1>4. /\ DOMAIN work' = Porters /\ work'[c].w = w /\ work'[c].written = FALSE
      /\ \A d \in Porters \ {c} : work'[d] = work[d]
  BY <1>1 DEF RoomsInv, WorkHolds
<1>5. RoomsTypeOK'
  BY <1>2
  DEF RoomsInv, RoomsTypeOK, RoomRows, PairsAreMutual, VirtualRoomsHaveNoWalls, Both, Virtual
<1>6. WorkHolds'
  BY <1>2, <1>3, <1>4 DEF RoomsInv, WorkHolds, IsWork, WrittenHolds, RoomRows
<1>7. WorkAlone'
  <2>1. ~mingled => \A d \in Porters \ {c} : work[d] = None BY <1>2 DEF AtWork, Exists
  <2> QED BY <1>2, <1>4, <2>1 DEF WorkAlone
<1> QED BY <1>5, <1>6, <1>7 DEF RoomsInv

LEMMA StatementsKeep ==
    ASSUME RoomsInv, NEW c \in Porters, Statements(c)
    PROVE  RoomsInv'
<1>1. PICK w : w = work[c].w OBVIOUS
<1>2. /\ work[c] # None /\ UNCHANGED <<rooms, pairs, pins, onlineMode, mingled>>
      /\ work' = [work EXCEPT ![c] =
            IF w.of \in RoomRows /\ {p[2] : p \in w.set} \subseteq RoomRows /\ Fits(w)
            THEN [w |-> w, written |-> TRUE] ELSE None]
  BY <1>1 DEF Statements, Exists
<1>3. /\ DOMAIN work' = Porters /\ \A d \in Porters \ {c} : work'[d] = work[d]
      /\ \/ work'[c] = None
         \/ /\ work'[c].w = w /\ work'[c].written = TRUE
            /\ w.of \in RoomRows /\ {p[2] : p \in w.set} \subseteq RoomRows /\ Fits(w)
  BY <1>2 DEF RoomsInv, WorkHolds
<1>4. IsWork(w) BY <1>1, <1>2 DEF RoomsInv, WorkHolds
<1>5. RoomsTypeOK'
  BY <1>2
  DEF RoomsInv, RoomsTypeOK, RoomRows, PairsAreMutual, VirtualRoomsHaveNoWalls, Both, Virtual
<1>6. work'[c] # None => WrittenHolds(w) /\ FitsStill(w)
  BY <1>3, <1>4 DEF Fits, WrittenHolds, FitsStill, IsWork
<1>7. WorkHolds'
  <2>1. \A v : WrittenHolds(v)' <=> WrittenHolds(v) BY <1>2 DEF WrittenHolds, RoomRows
  <2> QED BY <1>3, <1>4, <1>6, <2>1 DEF RoomsInv, WorkHolds, IsWork
<1>8. WorkAlone'
  <2>1. \A v : FitsStill(v)' <=> FitsStill(v) BY <1>2 DEF FitsStill, PairsOf, Virtual
  <2>2. ~mingled => \A d \in Porters \ {c} : work'[d] = None
    BY <1>2, <1>3 DEF RoomsInv, WorkAlone
  <2> QED BY <1>2, <1>3, <1>6, <2>1, <2>2 DEF WorkAlone
<1> QED BY <1>5, <1>7, <1>8 DEF RoomsInv

LEMMA CommitWorkKeeps ==
    ASSUME RoomsInv, NEW c \in Porters, CommitWork(c)
    PROVE  RoomsInv'
<1>1. PICK w : w = work[c].w OBVIOUS
<1>2. /\ work[c] # None /\ work[c].written
      /\ pairs' = IF w.op = "pairs" THEN PairsAfter(w) ELSE pairs
      /\ rooms' = IF w.op = "virtual" THEN [rooms EXCEPT ![w.of].virtual = TRUE] ELSE rooms
      /\ work' = [work EXCEPT ![c] = None]
      /\ UNCHANGED <<pins, onlineMode, mingled>>
  BY <1>1 DEF CommitWork, Exists
<1>3. /\ DOMAIN work' = Porters /\ work'[c] = None
      /\ \A d \in Porters \ {c} : work'[d] = work[d]
  BY <1>2 DEF RoomsInv, WorkHolds
<1>4. IsWork(w) /\ WrittenHolds(w) BY <1>1, <1>2 DEF RoomsInv, WorkHolds
<1>5. ~mingled => FitsStill(w) /\ \A d \in Porters : work'[d] = None
  BY <1>1, <1>2, <1>3 DEF RoomsInv, WorkAlone
<1>6. rooms \in [RoomIds -> Kinds \cup {None}] /\ pairs \subseteq RoomRows \X RoomRows
  BY DEF RoomsInv, RoomsTypeOK
<1>7. PairsAreMutual /\ VirtualRoomsHaveNoWalls BY DEF RoomsInv, RoomsTypeOK
<1>8. rooms' \in [RoomIds -> Kinds \cup {None}] /\ RoomRows' = RoomRows
  <2>1. CASE w.op # "virtual" BY <1>2, <1>6, <2>1 DEF RoomRows
  <2>2. CASE w.op = "virtual"
    <3>1. w.of \in RoomIds /\ rooms[w.of] \in Kinds
      BY <1>4, <1>6 DEF WrittenHolds, RoomRows, Exists
    <3>2. [rooms[w.of] EXCEPT !.virtual = TRUE] \in Kinds BY <3>1 DEF Kinds
    <3>3. rooms' = [rooms EXCEPT ![w.of] = [rooms[w.of] EXCEPT !.virtual = TRUE]]
      BY <1>2, <2>2
    <3> QED BY <1>6, <3>1, <3>2, <3>3, RoomsAssumption DEF RoomRows, Exists
  <2> QED BY <2>1, <2>2
<1>9. pairs' \subseteq RoomRows \X RoomRows /\ PairsAreMutual'
  <2>1. CASE w.op # "pairs" BY <1>2, <1>6, <1>7, <2>1 DEF PairsAreMutual, Both
  <2>2. CASE w.op = "pairs"
    <3>1. pairs' = (pairs \ Both(w.found)) \cup Both(w.set) BY <1>2, <2>2 DEF PairsAfter
    <3>2. \A p \in w.set : p = <<p[1], p[2]>> /\ p[1] \in RoomRows
                      /\ p[2] \in RoomRows /\ p[1] # p[2]
      BY <1>4, <2>2 DEF IsWork, WrittenHolds
    <3>3. \A p \in w.found : p = <<p[1], p[2]>> BY <1>4 DEF IsWork
    <3>4. \A x, y : <<x, y>> \in Both(w.set) <=> <<y, x>> \in Both(w.set) BY <3>2 DEF Both
    <3>5. \A x, y : <<x, y>> \in Both(w.found) <=> <<y, x>> \in Both(w.found) BY <3>3 DEF Both
    <3>6. \A x, y : <<x, y>> \in pairs => <<y, x>> \in pairs BY <1>7 DEF PairsAreMutual, Both
    <3>7. Both(w.set) \subseteq RoomRows \X RoomRows /\ \A p \in Both(w.set) : p[1] # p[2]
      BY <3>2 DEF Both
    <3>8. pairs' \subseteq RoomRows \X RoomRows /\ \A p \in pairs' : p[1] # p[2]
      BY <1>6, <1>7, <3>1, <3>7 DEF PairsAreMutual
    <3>9. \A x, y : <<x, y>> \in pairs' => <<y, x>> \in pairs' BY <3>1, <3>4, <3>5, <3>6
    <3>10. Both(pairs') = pairs' BY <3>8, <3>9 DEF Both
    <3>11. Both(pairs)' = pairs' BY <3>10 DEF Both
    <3> QED BY <3>8, <3>11 DEF PairsAreMutual
  <2> QED BY <2>1, <2>2
<1>10. VirtualRoomsHaveNoWalls'
  <2> SUFFICES ASSUME ~mingled, NEW p \in pairs'
               PROVE  ~rooms'[p[1]].virtual /\ ~rooms'[p[2]].virtual
    BY <1>2 DEF VirtualRoomsHaveNoWalls, Virtual
  <2>1. \A q \in pairs : ~rooms[q[1]].virtual /\ ~rooms[q[2]].virtual
    BY <1>7 DEF VirtualRoomsHaveNoWalls, Virtual
  <2>2. CASE w.op = "pairs"
    <3>1. pairs' \subseteq pairs \cup Both(w.set) /\ rooms' = rooms
      BY <1>2, <2>2 DEF PairsAfter
    <3>2. \A q \in w.set : ~rooms[q[1]].virtual /\ ~rooms[q[2]].virtual
      BY <1>5, <2>2 DEF FitsStill, Virtual
    <3>3. \A q \in Both(w.set) : ~rooms[q[1]].virtual /\ ~rooms[q[2]].virtual
      BY <3>2 DEF Both
    <3> QED BY <2>1, <3>1, <3>3
  <2>3. CASE w.op = "virtual"
    <3>1. pairs' = pairs /\ \A r \in RoomIds : r # w.of => rooms'[r] = rooms[r]
      BY <1>2, <1>6, <2>3
    <3>2. \A q \in pairs : q[1] # w.of BY <1>5, <2>3 DEF FitsStill, PairsOf
    <3>3. \A q \in pairs : <<q[2], q[1]>> \in pairs BY <1>7 DEF PairsAreMutual, Both
    <3>4. p[1] # w.of /\ p[2] # w.of BY <3>1, <3>2, <3>3
    <3>5. p[1] \in RoomIds /\ p[2] \in RoomIds BY <1>6, <3>1 DEF RoomRows
    <3> QED BY <2>1, <3>1, <3>4, <3>5
  <2> QED BY <1>4, <2>2, <2>3 DEF IsWork
<1>11. RoomsTypeOK' BY <1>2, <1>8, <1>9, <1>10 DEF RoomsInv, RoomsTypeOK
<1>12. WorkHolds' BY <1>3, <1>8 DEF RoomsInv, WorkHolds, IsWork, WrittenHolds
<1>13. WorkAlone' BY <1>2, <1>5 DEF WorkAlone
<1> QED BY <1>11, <1>12, <1>13 DEF RoomsInv

\* What one step leaves of a room that requests have written about.
LEMMA OneStepKeepsRooms ==
    ASSUME RoomsInv, UNCHANGED <<work, mingled>>, RoomsTypeOK',
           \A c \in Porters : work[c] # None /\ work[c].written =>
               /\ WrittenHolds(work[c].w)'
               /\ ~mingled /\ FitsStill(work[c].w) => FitsStill(work[c].w)'
    PROVE  RoomsInv'
<1>1. WorkHolds' BY DEF RoomsInv, WorkHolds, IsWork
<1>2. WorkAlone' BY DEF RoomsInv, WorkAlone
<1> QED BY <1>1, <1>2 DEF RoomsInv

LEMMA CreateRoomKeeps ==
    ASSUME RoomsInv, NEW r \in RoomIds, CreateRoom(r)
    PROVE  RoomsInv'
<1>1. PICK k \in Kinds : rooms' = [rooms EXCEPT ![r] = k] BY DEF CreateRoom
<1>2. r \notin RoomRows /\ UNCHANGED <<pairs, pins, onlineMode, work, mingled>> BY DEF CreateRoom
<1>3. /\ rooms \in [RoomIds -> Kinds \cup {None}] /\ pairs \subseteq RoomRows \X RoomRows
      /\ PairsAreMutual /\ VirtualRoomsHaveNoWalls
  BY DEF RoomsInv, RoomsTypeOK
<1>4. /\ rooms' \in [RoomIds -> Kinds \cup {None}] /\ RoomRows' = RoomRows \cup {r}
      /\ \A q \in RoomRows : rooms'[q] = rooms[q]
  BY <1>1, <1>2, <1>3, RoomsAssumption DEF RoomRows, Exists
<1>5. RoomsTypeOK'
  <2>1. PairsAreMutual' BY <1>2, <1>3 DEF PairsAreMutual, Both
  <2>2. VirtualRoomsHaveNoWalls' BY <1>2, <1>3, <1>4 DEF VirtualRoomsHaveNoWalls, Virtual
  <2> QED BY <1>2, <1>3, <1>4, <2>1, <2>2 DEF RoomsInv, RoomsTypeOK
<1>6. ASSUME NEW c \in Porters, work[c] # None, work[c].written
      PROVE  WrittenHolds(work[c].w)' /\ (FitsStill(work[c].w) => FitsStill(work[c].w)')
  <2>1. PICK w : w = work[c].w /\ w = work'[c].w BY <1>2
  <2>2. IsWork(w) /\ WrittenHolds(w) BY <1>6, <2>1 DEF RoomsInv, WorkHolds
  <2>3. WrittenHolds(w)' BY <1>4, <2>2 DEF WrittenHolds
  <2>4. FitsStill(w) => FitsStill(w)'
    <3>1. \A p \in w.set : p[1] \in RoomRows /\ p[2] \in RoomRows
      BY <2>2 DEF IsWork, WrittenHolds
    <3> QED BY <1>2, <1>4, <3>1 DEF FitsStill, PairsOf, Virtual
  <2>5. WrittenHolds(work[c].w)' BY <2>1, <2>3 DEF WrittenHolds
  <2> QED BY <2>1, <2>4, <2>5 DEF FitsStill
<1> QED BY <1>2, <1>5, <1>6, OneStepKeepsRooms

LEMMA ChangeRoomKeeps ==
    ASSUME RoomsInv, NEW r \in RoomIds, ChangeRoom(r)
    PROVE  RoomsInv'
<1>1. PICK k \in Kinds : (k.virtual => Virtual(r)) /\ rooms' = [rooms EXCEPT ![r] = k]
  BY DEF ChangeRoom
<1>2. r \in RoomRows /\ UNCHANGED <<pairs, pins, onlineMode, work, mingled>> BY DEF ChangeRoom
<1>3. /\ rooms \in [RoomIds -> Kinds \cup {None}] /\ pairs \subseteq RoomRows \X RoomRows
      /\ PairsAreMutual /\ VirtualRoomsHaveNoWalls
  BY DEF RoomsInv, RoomsTypeOK
<1>4. /\ rooms' \in [RoomIds -> Kinds \cup {None}] /\ RoomRows' = RoomRows
      /\ \A q \in RoomRows : ~rooms[q].virtual => ~rooms'[q].virtual
  <2>1. rooms'[r] = k /\ \A q \in RoomIds \ {r} : rooms'[q] = rooms[q] BY <1>1, <1>3
  <2>2. rooms' \in [RoomIds -> Kinds \cup {None}] BY <1>1, <1>3
  <2>3. RoomRows' = RoomRows BY <1>2, <2>1, RoomsAssumption DEF RoomRows, Exists
  <2> QED BY <1>1, <2>1, <2>2, <2>3 DEF RoomRows, Virtual
<1>5. RoomsTypeOK'
  <2>1. PairsAreMutual' BY <1>2, <1>3 DEF PairsAreMutual, Both
  <2>2. VirtualRoomsHaveNoWalls' BY <1>2, <1>3, <1>4 DEF VirtualRoomsHaveNoWalls, Virtual
  <2> QED BY <1>2, <1>3, <1>4, <2>1, <2>2 DEF RoomsInv, RoomsTypeOK
<1>6. ASSUME NEW c \in Porters, work[c] # None, work[c].written
      PROVE  WrittenHolds(work[c].w)' /\ (FitsStill(work[c].w) => FitsStill(work[c].w)')
  <2>1. PICK w : w = work[c].w /\ w = work'[c].w BY <1>2
  <2>2. IsWork(w) /\ WrittenHolds(w) BY <1>6, <2>1 DEF RoomsInv, WorkHolds
  <2>3. WrittenHolds(w)' BY <1>4, <2>2 DEF WrittenHolds
  <2>4. FitsStill(w) => FitsStill(w)'
    <3>1. \A p \in w.set : p[1] \in RoomRows /\ p[2] \in RoomRows
      BY <2>2 DEF IsWork, WrittenHolds
    <3> QED BY <1>2, <1>4, <3>1 DEF FitsStill, PairsOf, Virtual
  <2>5. WrittenHolds(work[c].w)' BY <2>1, <2>3 DEF WrittenHolds
  <2> QED BY <2>1, <2>4, <2>5 DEF FitsStill
<1> QED BY <1>2, <1>5, <1>6, OneStepKeepsRooms

LEMMA DeleteRoomKeeps ==
    ASSUME RoomsInv, NEW r \in RoomIds, DeleteRoom(r)
    PROVE  RoomsInv'
<1>1. /\ r \in RoomRows /\ ~Held(r) /\ rooms' = [rooms EXCEPT ![r] = None]
      /\ pairs' = {p \in pairs : r \notin {p[1], p[2]}} /\ pins' = pins \ {r}
      /\ UNCHANGED <<onlineMode, work, mingled>>
  BY DEF DeleteRoom
<1>2. /\ rooms \in [RoomIds -> Kinds \cup {None}] /\ pairs \subseteq RoomRows \X RoomRows
      /\ pins \subseteq RoomRows /\ PairsAreMutual /\ VirtualRoomsHaveNoWalls
  BY DEF RoomsInv, RoomsTypeOK
<1>3. /\ rooms' \in [RoomIds -> Kinds \cup {None}] /\ RoomRows' = RoomRows \ {r}
      /\ \A q \in RoomIds \ {r} : rooms'[q] = rooms[q]
  BY <1>1, <1>2 DEF RoomRows, Exists
<1>4. \A p \in pairs : p \in pairs' <=> p[1] # r /\ p[2] # r BY <1>1
<1>5. RoomsTypeOK'
  <2>1. pairs' \subseteq RoomRows' \X RoomRows' BY <1>1, <1>2, <1>3
  <2>2. PairsAreMutual'
    <3>1. \A p \in pairs : p[1] # p[2] /\ <<p[2], p[1]>> \in pairs
      BY <1>2 DEF PairsAreMutual, Both
    <3>2. \A p \in pairs' : p[1] # p[2] /\ <<p[2], p[1]>> \in pairs' BY <1>1, <3>1
    <3>3. Both(pairs') = pairs' BY <3>2 DEF Both
    <3>4. Both(pairs)' = pairs' BY <3>3 DEF Both
    <3> QED BY <3>2, <3>4 DEF PairsAreMutual
  <2>3. VirtualRoomsHaveNoWalls'
    BY <1>1, <1>2, <1>3, <1>4 DEF VirtualRoomsHaveNoWalls, Virtual, RoomRows
  <2> QED BY <1>1, <1>2, <1>3, <2>1, <2>2, <2>3 DEF RoomsInv, RoomsTypeOK
<1>6. ASSUME NEW c \in Porters, work[c] # None, work[c].written
      PROVE  WrittenHolds(work[c].w)' /\ (FitsStill(work[c].w) => FitsStill(work[c].w)')
  <2>1. PICK w : w = work[c].w /\ w = work'[c].w BY <1>1
  <2>2. IsWork(w) /\ WrittenHolds(w) BY <1>6, <2>1 DEF RoomsInv, WorkHolds
  <2>3. w.of # r /\ \A p \in w.set : p[2] # r BY <1>1, <1>6, <2>1 DEF Held, Exists
  <2>4. WrittenHolds(w)' BY <1>3, <2>2, <2>3 DEF WrittenHolds
  <2>5. FitsStill(w) => FitsStill(w)'
    <3>1. \A p \in w.set : p[1] \in RoomIds \ {r} /\ p[2] \in RoomIds \ {r}
      BY <2>2, <2>3 DEF IsWork, WrittenHolds, RoomRows
    <3>2. PairsOf(w.of)' \subseteq PairsOf(w.of) BY <1>1 DEF PairsOf
    <3> QED BY <1>3, <3>1, <3>2 DEF FitsStill, Virtual
  <2>6. WrittenHolds(work[c].w)' BY <2>1, <2>4 DEF WrittenHolds
  <2> QED BY <2>1, <2>5, <2>6 DEF FitsStill
<1> QED BY <1>1, <1>5, <1>6, OneStepKeepsRooms

\* What writes neither the rooms nor the pairs.
LEMMA RestrictionKeeps ==
    ASSUME RoomsInv, UNCHANGED <<rooms, pairs, work, mingled>>,
           pins' \subseteq RoomRows, onlineMode' \in OnlineModes
    PROVE  RoomsInv'
<1>1. RoomsTypeOK'
  BY DEF RoomsInv, RoomsTypeOK, RoomRows, PairsAreMutual, VirtualRoomsHaveNoWalls, Both, Virtual
<1>2. ASSUME NEW c \in Porters, work[c] # None, work[c].written
      PROVE  WrittenHolds(work[c].w)' /\ (FitsStill(work[c].w) => FitsStill(work[c].w)')
  <2>1. WrittenHolds(work[c].w) BY <1>2 DEF RoomsInv, WorkHolds
  <2> QED BY <2>1 DEF WrittenHolds, FitsStill, RoomRows, PairsOf, Virtual
<1> QED BY <1>1, <1>2, OneStepKeepsRooms

LEMMA RoomsStep == RoomsInv /\ [RoomsNext]_roomVars => RoomsInv'
<1> SUFFICES ASSUME RoomsInv, [RoomsNext]_roomVars PROVE RoomsInv' OBVIOUS
<1>1. CASE WallsNext
  BY <1>1, BeginWorkKeeps, StatementsKeep, CommitWorkKeeps DEF WallsNext
<1>2. CASE EstateNext
  BY <1>2, CreateRoomKeeps, ChangeRoomKeeps, DeleteRoomKeeps DEF EstateNext
<1>3. CASE PinRooms
  BY <1>3, RestrictionKeeps DEF PinRooms, RoomsInv, RoomsTypeOK
<1>4. CASE SetOnlineMode
  BY <1>4, RestrictionKeeps DEF SetOnlineMode, RoomsInv, RoomsTypeOK
<1>5. CASE UNCHANGED roomVars
  BY <1>5, RestrictionKeeps DEF roomVars, RoomsInv, RoomsTypeOK
<1> QED BY <1>1, <1>2, <1>3, <1>4, <1>5 DEF RoomsNext, RestrictionNext

\* The invariant holds however rooms, pairs and pins are created, changed and deleted, and however
\* requests overlap.
THEOREM RoomsInvariance == RoomsSpec => []RoomsInv
BY RoomsBegin, RoomsStep, PTL DEF RoomsSpec

\* Pairs and pins name rooms there are and a pair is read from both of its rooms
\* alike, and requests one at a time leave a virtual room without any.
THEOREM RoomsTyped == RoomsSpec => []RoomsTypeOK
<1>1. RoomsInv => RoomsTypeOK BY DEF RoomsInv
<1> QED BY <1>1, RoomsInvariance, PTL

\* The three ways of writing a restriction down are one restriction.
LEMMA RestrictionIsRead ==
    ASSUME RoomsTypeOK
    PROVE  RestrictionIsHonoured
<1> SUFFICES ASSUME NEW r \in ActiveRooms
             PROVE  (SolverMayUse(r) <=> Asked(r)) /\ (ManualMayUse(r) <=> Asked(r))
  BY DEF RestrictionIsHonoured
<1>1. r \in RoomIds /\ Virtual(r) \in BOOLEAN /\ ActiveRooms \subseteq RoomIds
  BY DEF RoomsTypeOK, ActiveRooms, RoomRows, Virtual, Exists, Kinds
<1>2. onlineMode \in OnlineModes BY DEF RoomsTypeOK
<1>3. Stated => (r \in Permitted <=> Asked(r))
  BY <1>1, <1>2 DEF Stated, Permitted, ModeAllows, Asked, OnlineModes
<1>4. Permitted \subseteq RoomIds BY <1>1 DEF Permitted
<1>5. SolverMayUse(r) <=> Asked(r)
  <2>1. CASE ~Stated
    <3>1. Wire.allowed = {} /\ Wire.allowOnline = (onlineMode # "FORBIDDEN")
      BY <2>1 DEF Wire
    <3> QED BY <1>1, <2>1, <3>1 DEF SolverMayUse, Stated, Asked
  <2>2. CASE Stated /\ Permitted # {}
    <3>1. Wire.allowed = Permitted /\ Wire.allowOnline = (onlineMode # "FORBIDDEN")
      BY <2>2 DEF Wire
    <3> QED BY <1>3, <2>2, <3>1 DEF SolverMayUse, Asked
  <2>3. CASE Stated /\ Permitted = {}
    <3>1. Wire.allowed = {NoEligibleRoom} BY <2>3 DEF Wire
    <3> QED BY <1>1, <1>3, <2>3, <3>1, RoomsAssumption DEF SolverMayUse
  <2> QED BY <2>1, <2>2, <2>3
<1>6. ManualMayUse(r) <=> Asked(r)
  <2>1. CASE Stated
    <3>1. PermittedRooms = Permitted BY <2>1 DEF PermittedRooms
    <3>2. PermittedRooms # None BY <1>4, <3>1, RoomsAssumption
    <3> QED BY <1>3, <2>1, <3>1, <3>2 DEF ManualMayUse, Exists
  <2>2. CASE ~Stated /\ onlineMode = "FORBIDDEN"
    <3>1. PermittedRooms = {q \in ActiveRooms : ~Virtual(q)} BY <2>2 DEF PermittedRooms
    <3>2. PermittedRooms # None BY <1>1, <3>1, RoomsAssumption
    <3> QED BY <2>2, <3>1, <3>2 DEF ManualMayUse, Exists, Stated, Asked
  <2>3. CASE ~Stated /\ onlineMode # "FORBIDDEN"
    BY <2>3 DEF ManualMayUse, Exists, PermittedRooms, Stated, Asked
  <2> QED BY <2>1, <2>2, <2>3
<1> QED BY <1>5, <1>6

\* The rooms the solver may use are those asked for, before the step and after
\* it; the step changes neither what is asked nor what the other rooms are.
LEMMA OutOfUseNarrows ==
    ASSUME RoomsTypeOK, RestrictionIsHonoured, RestrictionIsHonoured',
           NEW r \in RoomIds, ChangeRoom(r), rooms[r].active,
           rooms[r].virtual = rooms'[r].virtual, ~rooms'[r].active
    PROVE  MayUse' \subseteq MayUse
<1>3. MayUse = {q \in ActiveRooms : Asked(q)} BY DEF MayUse, RestrictionIsHonoured
<1>4. MayUse' = {q \in ActiveRooms' : Asked(q)'} BY DEF MayUse, RestrictionIsHonoured
<1>5. PICK k \in Kinds : rooms' = [rooms EXCEPT ![r] = k] BY DEF ChangeRoom
<1>6. r \in RoomRows /\ UNCHANGED <<pairs, pins, onlineMode, work, mingled>> BY DEF ChangeRoom
<1>7. \A q \in RoomIds \ {r} : rooms'[q] = rooms[q] BY <1>5 DEF RoomsTypeOK
<1>8. ASSUME NEW q \in ActiveRooms' PROVE q \in ActiveRooms /\ (Asked(q)' => Asked(q))
  <2>1. q \in RoomIds /\ q # r BY <1>8 DEF ActiveRooms, RoomRows
  <2>2. rooms'[q] = rooms[q] BY <1>7, <2>1
  <2>3. q \in ActiveRooms BY <1>8, <2>1, <2>2 DEF ActiveRooms, RoomRows
  <2> QED BY <1>6, <2>2, <2>3 DEF Asked, Virtual
<1> QED BY <1>3, <1>4, <1>8

\* What an offering asks of its room is asked of the solver and of a manual
\* placement alike, and taking a room out of use adds none
\* (solverInput.ts, violations.ts, offeringRooms.ts).
THEOREM RestrictionsStay == RoomsSpec => RoomsStayRestricted
<1>1. RoomsTypeOK => RestrictionIsHonoured BY RestrictionIsRead
<1>2. RoomsTypeOK /\ RestrictionIsHonoured /\ RestrictionIsHonoured' /\ [RoomsNext]_roomVars
      => [\A r \in RoomIds :
            (ChangeRoom(r) /\ rooms[r].active /\ rooms[r].virtual = rooms'[r].virtual
               /\ ~rooms'[r].active) => MayUse' \subseteq MayUse]_roomVars
  BY OutOfUseNarrows
<1> QED BY <1>1, <1>2, RoomsTyped, PTL DEF RoomsSpec, RoomsStayRestricted, OutOfUseWidensNothing

-----------------------------------------------------------------------------
(***************************************************************************)
(* The series of an offering                                               *)
(***************************************************************************)
LessonRows == [slot : LessonSlots \cup {None}, groups : SUBSET cohorts, locked : BOOLEAN]

\* A session row and an answer, whatever was edited since it was asked for.
SeriesInv ==
    /\ attached \subseteq cohorts /\ cohorts \subseteq Cohorts
    /\ DOMAIN lesson = LessonIds
    /\ \A id \in Lessons :
          lesson[id] \in LessonRows /\ (lesson[id].slot = None => ~lesson[id].locked)
    /\ answer # None => \A p \in answer.placements : p.slot \in LessonSlots

LEMMA SeriesBegin == SeriesInit => SeriesInv
BY DEF SeriesInit, SeriesInv, Lessons, Exists

\* What a session may be rewritten to, one at a time.
LEMMA OneLessonIsRewritten ==
    ASSUME SeriesInv, NEW id \in LessonIds, NEW row, lesson' = [lesson EXCEPT ![id] = row],
           row # None => row \in LessonRows /\ (row.slot = None => ~row.locked),
           UNCHANGED <<cohorts, attached, answer>>
    PROVE  SeriesInv'
<1>1. DOMAIN lesson' = LessonIds /\ lesson'[id] = row
      /\ \A l \in LessonIds \ {id} : lesson'[l] = lesson[l]
  BY DEF SeriesInv
<1>2. LessonRows' = LessonRows BY DEF LessonRows
<1> QED BY <1>1, <1>2 DEF SeriesInv, Lessons, Exists

LEMMA SolveKeeps ==
    ASSUME SeriesInv, SolveSeries
    PROVE  SeriesInv'
<1>1. PICK f : /\ \A s \in SeriesOf(attached) : f[s] \in ReturnedFor(s)
               /\ answer' = [groups     |-> [s \in SeriesOf(attached) |->
                                                GroupsOfSeries(attached, s)],
                             required   |-> [s \in SeriesOf(attached) |-> RequiredIn(s)],
                             placements |-> UNION {f[s] : s \in SeriesOf(attached)},
                             changes    |-> changes]
  BY DEF SolveSeries
<1>2. ASSUME NEW s, NEW a \in ReturnedFor(s), NEW p \in a PROVE p.slot \in LessonSlots
  <2> DEFINE locked == {id \in SentIn(s) : lesson[id].locked}
             most   == IF Cardinality(locked) > RequiredIn(s)
                       THEN Cardinality(locked) ELSE RequiredIn(s)
             back   == {Placement(id, s, slot) : id \in SentIn(s), slot \in LessonSlots}
             new    == {Placement(None, s, slot) : slot \in LessonSlots}
             any    == UNION {kSubset(n, back \cup new) : n \in 0 .. most}
             Kept(x) == /\ \A id \in locked : Placement(id, s, lesson[id].slot) \in x
                        /\ \A o, q \in x : o # q => (o.id # q.id \/ o.id = None)
                        /\ \A o, q \in x : o # q /\ o.slot = q.slot => {o.id, q.id} \subseteq locked
  <2>1. a \in any
    <3>1. ReturnedFor(s) = {x \in any : Kept(x)} BY DEF ReturnedFor
    <3> HIDE DEF any, Kept
    <3> QED BY <1>2, <3>1
  <2>2. PICK n : a \in kSubset(n, back \cup new)
    <3> HIDE DEF back, new, most
    <3> QED BY <2>1
  <2>3. p \in back \cup new BY <1>2, <2>2 DEF kSubset
  <2>4. CASE p \in back BY <2>4 DEF Placement
  <2>5. CASE p \in new BY <2>5 DEF Placement
  <2> QED BY <2>3, <2>4, <2>5
<1>3. \A p \in answer'.placements : p.slot \in LessonSlots
  <2>1. answer'.placements = UNION {f[s] : s \in SeriesOf(attached)} BY <1>1
  <2> QED BY <1>1, <1>2, <2>1
<1>4. UNCHANGED <<cohorts, attached, lesson>> BY DEF SolveSeries
<1> QED BY <1>3, <1>4 DEF SeriesInv, Lessons, LessonRows

LEMMA ApplyKeeps ==
    ASSUME SeriesInv, ApplyAnswer
    PROVE  SeriesInv'
<1> DEFINE id == CHOOSE f \in [Creates -> Unused] :
                    \A p, q \in Creates : p # q => f[p] # f[q]
           of(l) == {p \in Moves : p.id = l} \cup {p \in Creates : id[p] = l}
           made(l) == LET p == CHOOSE q \in of(l) : TRUE
                      IN  Lesson(p.slot, answer.groups[p.series], FALSE)
<1>1. /\ answer # None /\ GroupsAreThere /\ answer' = None /\ UNCHANGED <<cohorts, attached>>
      /\ lesson' = [l \in LessonIds |->
            IF of(l) # {} THEN made(l) ELSE IF l \in Deletes THEN None ELSE lesson[l]]
  BY DEF ApplyAnswer
<1>2. ASSUME NEW l, of(l) # {}
      PROVE  made(l) \in LessonRows /\ ~made(l).locked
  <2>1. PICK p : p \in of(l) /\ made(l) = Lesson(p.slot, answer.groups[p.series], FALSE)
    <3>1. (CHOOSE q \in of(l) : TRUE) \in of(l) BY <1>2
    <3> QED BY <3>1
  <2>2. p \in Effective BY <2>1 DEF Moves, Creates
  <2>3. p.slot \in LessonSlots BY <1>1, <2>2 DEF SeriesInv, Effective
  <2>4. answer.groups[p.series] \subseteq cohorts BY <1>1, <2>2 DEF GroupsAreThere
  <2> HIDE DEF made
  <2> QED BY <2>1, <2>3, <2>4 DEF Lesson, LessonRows
<1> HIDE DEF of, made
<1>3. DOMAIN lesson' = LessonIds BY <1>1
<1>4. ASSUME NEW l \in LessonIds
      PROVE  \/ lesson'[l] = None
             \/ lesson'[l] \in LessonRows /\ ~lesson'[l].locked
             \/ lesson'[l] = lesson[l]
  BY <1>1, <1>2
<1>5. LessonRows' = LessonRows BY <1>1 DEF LessonRows
<1> QED BY <1>1, <1>3, <1>4, <1>5 DEF SeriesInv, Lessons, Exists

LEMMA CohortGoes ==
    ASSUME SeriesInv, CohortIsDeleted
    PROVE  SeriesInv'
<1>1. PICK g \in cohorts :
        /\ cohorts' = cohorts \ {g} /\ attached' = attached \ {g}
        /\ lesson' = [id \in LessonIds |->
             IF id \in Lessons THEN [lesson[id] EXCEPT !.groups = @ \ {g}] ELSE None]
  BY DEF CohortIsDeleted
<1>2. answer' = answer BY DEF CohortIsDeleted
<1>3. ASSUME NEW id \in Lessons'
      PROVE  lesson'[id] \in LessonRows' /\ (lesson'[id].slot = None => ~lesson'[id].locked)
  <2>1. id \in Lessons BY <1>1, <1>3 DEF Lessons, Exists
  <2>2. PICK row : row = lesson[id] OBVIOUS
  <2>3. lesson'[id] = [row EXCEPT !.groups = @ \ {g}] BY <1>1, <2>1, <2>2 DEF Lessons
  <2>4. row \in LessonRows /\ (row.slot = None => ~row.locked) BY <2>1, <2>2 DEF SeriesInv
  <2>5. PICK new : new = [row EXCEPT !.groups = @ \ {g}] OBVIOUS
  <2>6. /\ new.slot = row.slot /\ new.locked = row.locked
        /\ new \in [slot : LessonSlots \cup {None}, groups : SUBSET (cohorts \ {g}),
                    locked : BOOLEAN]
    BY <2>4, <2>5 DEF LessonRows
  <2>7. LessonRows' = [slot : LessonSlots \cup {None}, groups : SUBSET (cohorts \ {g}),
                       locked : BOOLEAN]
    BY <1>1 DEF LessonRows
  <2>8. lesson'[id] = new BY <2>3, <2>5
  <2> QED BY <2>4, <2>6, <2>7, <2>8
<1>4. DOMAIN lesson' = LessonIds BY <1>1
<1> QED BY <1>1, <1>2, <1>3, <1>4 DEF SeriesInv

LEMMA EditKeeps ==
    ASSUME SeriesInv, EditLesson
    PROVE  SeriesInv'
<1>1. PICK id \in Lessons :
        \/ lesson' = [lesson EXCEPT ![id].locked = ~@] /\ id \in Placed
        \/ \E slot \in LessonSlots \ {lesson[id].slot} :
             lesson' = [lesson EXCEPT ![id].slot = slot]
        \/ /\ id \in Placed /\ ~lesson[id].locked
           /\ lesson' = [lesson EXCEPT ![id].slot = None]
        \/ lesson' = [lesson EXCEPT ![id] = None]
  BY DEF EditLesson
<1>2. UNCHANGED <<cohorts, attached, answer>> BY DEF EditLesson
<1>3. PICK row : row = lesson[id] OBVIOUS
<1>4. id \in LessonIds /\ row \in LessonRows /\ (row.slot = None => ~row.locked)
  BY <1>3 DEF SeriesInv, Lessons
<1>5. CASE lesson' = [lesson EXCEPT ![id].locked = ~@] /\ id \in Placed
  <2>1. lesson' = [lesson EXCEPT ![id] = [row EXCEPT !.locked = ~row.locked]] BY <1>3, <1>5
  <2>2. row.slot # None BY <1>3, <1>5 DEF Placed
  <2> DEFINE new == [row EXCEPT !.locked = ~row.locked]
  <2>3. new \in LessonRows /\ new.slot # None BY <1>4, <2>2 DEF LessonRows
  <2> HIDE DEF new
  <2>4. lesson' = [lesson EXCEPT ![id] = new] BY <2>1 DEF new
  <2> QED BY <1>2, <1>4, <2>3, <2>4, OneLessonIsRewritten
<1>6. CASE \E slot \in LessonSlots : lesson' = [lesson EXCEPT ![id].slot = slot]
  <2>1. PICK slot \in LessonSlots : lesson' = [lesson EXCEPT ![id].slot = slot] BY <1>6
  <2> DEFINE new == [row EXCEPT !.slot = slot]
  <2>2. new \in LessonRows /\ new.slot # None BY <1>4, SeriesAssumption DEF LessonRows
  <2>3. lesson' = [lesson EXCEPT ![id] = new] BY <1>3, <2>1
  <2> HIDE DEF new
  <2> QED BY <1>2, <1>4, <2>2, <2>3, OneLessonIsRewritten
<1>7. CASE ~lesson[id].locked /\ lesson' = [lesson EXCEPT ![id].slot = None]
  <2> DEFINE new == [row EXCEPT !.slot = None]
  <2>1. new \in LessonRows /\ ~new.locked BY <1>3, <1>4, <1>7 DEF LessonRows
  <2>2. lesson' = [lesson EXCEPT ![id] = new] BY <1>3, <1>7
  <2> HIDE DEF new
  <2> QED BY <1>2, <1>4, <2>1, <2>2, OneLessonIsRewritten
<1>8. CASE lesson' = [lesson EXCEPT ![id] = None]
  BY <1>2, <1>4, <1>8, OneLessonIsRewritten
<1> QED BY <1>1, <1>5, <1>6, <1>7, <1>8

LEMMA SeriesStep == SeriesInv /\ [SeriesNext]_seriesVars => SeriesInv'
<1> SUFFICES ASSUME SeriesInv, [SeriesNext]_seriesVars PROVE SeriesInv' OBVIOUS
<1>1. CASE DiscardAnswer
  BY <1>1 DEF DiscardAnswer, SeriesInv, Lessons, LessonRows
<1>2. CASE PutOfferingGroups
  BY <1>2 DEF PutOfferingGroups, SeriesInv, Lessons, LessonRows
<1>3. CASE CreateLesson
  <2>1. PICK id \in LessonIds, slot \in LessonSlots, groups \in SUBSET cohorts,
             locked \in BOOLEAN : lesson' = [lesson EXCEPT ![id] = Lesson(slot, groups, locked)]
    BY <1>3 DEF CreateLesson
  <2>2. PICK row : row = Lesson(slot, groups, locked) OBVIOUS
  <2>3. row \in LessonRows /\ row.slot # None BY <2>2, SeriesAssumption DEF Lesson, LessonRows
  <2>4. UNCHANGED <<cohorts, attached, answer>> BY <1>3 DEF CreateLesson
  <2> QED BY <2>1, <2>2, <2>3, <2>4, OneLessonIsRewritten
<1>4. CASE UNCHANGED seriesVars
  BY <1>4 DEF seriesVars, SeriesInv, Lessons, LessonRows
<1> QED BY <1>1, <1>2, <1>3, <1>4, SolveKeeps, ApplyKeeps, CohortGoes, EditKeeps DEF SeriesNext

\* The invariant holds whatever was edited while an answer waited.
THEOREM SeriesInvariance == SeriesSpec => []SeriesInv
BY SeriesBegin, SeriesStep, PTL DEF SeriesSpec

\* Sessions name groups there are, also those an answer makes after a group went,
\* and a banked one is not locked (generationMaterialize.ts).
THEOREM SeriesTyped == SeriesSpec => []SeriesTypeOK
<1>1. SeriesInv => SeriesTypeOK BY DEF SeriesInv, SeriesTypeOK, LessonRows
<1> QED BY <1>1, SeriesInvariance, PTL

\* What an answer names: the series that were asked for, and sessions and slots.
PlacementRow(groups) ==
    [id : LessonIds \cup {None}, series : SeriesOf(groups), slot : LessonSlots]

AnswerIsOf(groups) ==
    /\ DOMAIN answer.required = SeriesOf(groups)
    /\ \A s \in SeriesOf(groups) : answer.required[s] \in Nat
    /\ answer.placements \subseteq PlacementRow(groups)

\* What an answer says of the sessions while nothing has been edited.
AnswerIsCurrent ==
    /\ answer.groups = [s \in SeriesOf(attached) |-> GroupsOfSeries(attached, s)]
    /\ answer.required = [s \in SeriesOf(attached) |-> RequiredIn(s)]
    /\ answer.placements \subseteq PlacementRow(attached)
    /\ \A s \in SeriesOf(attached) : InSeries(answer.placements, s) \in ReturnedFor(s)

AnswerInv ==
    /\ changes \in Nat
    /\ answer # None =>
        /\ \E groups \in SUBSET Cohorts : AnswerIsOf(groups)
        /\ answer.changes \in Nat /\ answer.changes <= changes
        /\ answer.changes = changes => AnswerIsCurrent

\* Sets of sessions are finite, and so are the counts taken of them.
LEMMA LessonsAreCounted ==
    ASSUME SeriesInv, NEW S \in SUBSET LessonIds
    PROVE  IsFiniteSet(S) /\ Cardinality(S) \in Nat
BY SeriesAssumption, FS_Subset, FS_CardinalityType

\* A series asks for some number of sessions.
LEMMA RequiredIsCount ==
    ASSUME SeriesInv, NEW s
    PROVE  RequiredIn(s) \in Nat
<1>1. BankedIn(s) \in SUBSET LessonIds BY DEF BankedIn, Lessons
<1>2. Cardinality(BankedIn(s)) \in Nat BY <1>1, LessonsAreCounted
<1> QED BY <1>2, SeriesAssumption DEF RequiredIn

\* The locked sessions that were sent, and how many may come back.
LockedOf(s) == {id \in SentIn(s) : lesson[id].locked}
MostOf(s) == IF Cardinality(LockedOf(s)) > RequiredIn(s)
             THEN Cardinality(LockedOf(s)) ELSE RequiredIn(s)

\* A placement of a session that was sent, or of a new one.
IsBack(p, s) == \E id \in SentIn(s), slot \in LessonSlots : p = Placement(id, s, slot)
IsNew(p, s)  == \E slot \in LessonSlots : p = Placement(None, s, slot)

\* An answer to a series has placements of it alone, of sessions that were sent
\* or new ones, as many as it may have and the locked ones among them.
LEMMA ReturnedIs ==
    ASSUME NEW s, NEW a \in ReturnedFor(s)
    PROVE  /\ \A p \in a : IsBack(p, s) \/ IsNew(p, s)
           /\ Cardinality(a) \in 0 .. MostOf(s)
           /\ \A id \in LockedOf(s) : Placement(id, s, lesson[id].slot) \in a
           /\ \A p, q \in a : p # q => (p.id # q.id \/ p.id = None)
<1> DEFINE locked == {id \in SentIn(s) : lesson[id].locked}
           most   == IF Cardinality(locked) > RequiredIn(s)
                     THEN Cardinality(locked) ELSE RequiredIn(s)
           back   == {Placement(id, s, slot) : id \in SentIn(s), slot \in LessonSlots}
           new    == {Placement(None, s, slot) : slot \in LessonSlots}
           any    == UNION {kSubset(n, back \cup new) : n \in 0 .. most}
           Kept(x) == /\ \A id \in locked : Placement(id, s, lesson[id].slot) \in x
                      /\ \A o, q \in x : o # q => (o.id # q.id \/ o.id = None)
                      /\ \A o, q \in x : o # q /\ o.slot = q.slot => {o.id, q.id} \subseteq locked
<1>1. ReturnedFor(s) = {x \in any : Kept(x)} BY DEF ReturnedFor
<1>2. a \in any /\ Kept(a)
  <2> HIDE DEF any, Kept
  <2> QED BY <1>1
<1>3. PICK n \in 0 .. most : a \in kSubset(n, back \cup new)
  <2> HIDE DEF back, new, most
  <2> QED BY <1>2
<1>4. a \subseteq back \cup new /\ Cardinality(a) = n BY <1>3 DEF kSubset
<1>5. \A p \in a : IsBack(p, s) \/ IsNew(p, s) BY <1>4 DEF IsBack, IsNew
<1>6. most = MostOf(s) /\ locked = LockedOf(s) BY DEF MostOf, LockedOf
<1> HIDE DEF most, locked
<1>7. Cardinality(a) \in 0 .. MostOf(s) BY <1>3, <1>4, <1>6
<1> QED BY <1>2, <1>5, <1>6, <1>7

\* A run that is answered leaves an answer that is current.
LEMMA SolveAnswers ==
    ASSUME SeriesInv, AnswerInv, SolveSeries
    PROVE  AnswerInv'
<1> DEFINE series == SeriesOf(attached)
<1>1. PICK f : /\ \A s \in series : f[s] \in ReturnedFor(s)
               /\ answer' = [groups     |-> [s \in series |-> GroupsOfSeries(attached, s)],
                             required   |-> [s \in series |-> RequiredIn(s)],
                             placements |-> UNION {f[s] : s \in series},
                             changes    |-> changes]
  BY DEF SolveSeries
<1>2. UNCHANGED <<cohorts, attached, lesson, changes>> BY DEF SolveSeries
<1>3. ASSUME NEW s \in series, NEW p \in f[s]
      PROVE  p \in PlacementRow(attached) /\ p.series = s
  <2>1. f[s] \in ReturnedFor(s) BY <1>1
  <2>2. IsBack(p, s) \/ IsNew(p, s) BY <2>1, ReturnedIs
  <2>3. SentIn(s) \subseteq LessonIds BY DEF SentIn, Placed, Lessons
  <2> QED BY <2>2, <2>3 DEF IsBack, IsNew, Placement, PlacementRow
<1>4. answer'.placements = UNION {f[s] : s \in series} BY <1>1
<1>5. answer'.placements \subseteq PlacementRow(attached) BY <1>3, <1>4
<1>6. ASSUME NEW s \in series PROVE InSeries(answer'.placements, s) = f[s]
  BY <1>3, <1>4 DEF InSeries
<1>7. answer'.required = [s \in series |-> RequiredIn(s)]
      /\ answer'.groups = [s \in series |-> GroupsOfSeries(attached, s)]
      /\ answer'.changes = changes
  BY <1>1
<1>8. /\ SeriesOf(attached)' = series /\ PlacementRow(attached)' = PlacementRow(attached)
      /\ \A s : RequiredIn(s)' = RequiredIn(s)
      /\ \A s : ReturnedFor(s)' = ReturnedFor(s)
  <2>1. Lessons' = Lessons /\ Placed' = Placed BY <1>2 DEF Lessons, Placed
  <2>2. \A s : SentIn(s)' = SentIn(s) /\ BankedIn(s)' = BankedIn(s)
    BY <1>2, <2>1 DEF SentIn, BankedIn
  <2>3. \A s : RequiredIn(s)' = RequiredIn(s) BY <2>2 DEF RequiredIn
  <2>4. \A s : ReturnedFor(s)' = ReturnedFor(s)
    BY <1>2 DEF ReturnedFor, SentIn, RequiredIn, BankedIn, Lessons, Placed
  <2> QED BY <1>2, <2>3, <2>4 DEF SeriesOf, SplitsIntoSeries, PlacementRow
<1>9. AnswerIsCurrent'
  <2>1. \A s \in series : InSeries(answer'.placements, s) \in ReturnedFor(s)
    BY <1>1, <1>6
  <2>2. answer'.groups = [s \in SeriesOf(attached)' |-> GroupsOfSeries(attached, s)']
    BY <1>2, <1>7, <1>8
  <2>3. answer'.required = [s \in SeriesOf(attached)' |-> RequiredIn(s)']
    BY <1>7, <1>8
  <2>4. \A s \in SeriesOf(attached)' : InSeries(answer'.placements, s) \in ReturnedFor(s)'
    BY <1>8, <2>1
  <2>5. \A s : InSeries(answer.placements, s)' = InSeries(answer'.placements, s) BY DEF InSeries
  <2> QED BY <1>5, <1>8, <2>2, <2>3, <2>4, <2>5 DEF AnswerIsCurrent
<1>10. AnswerIsOf(attached)'
  <2>1. DOMAIN answer'.required = series /\ \A s \in series : answer'.required[s] \in Nat
    BY <1>7, RequiredIsCount
  <2> QED BY <1>5, <1>8, <2>1 DEF AnswerIsOf
<1>11. attached' \in SUBSET Cohorts BY <1>2 DEF SeriesInv
<1>12. \E groups \in SUBSET Cohorts : AnswerIsOf(groups)'
  <2>1. AnswerIsOf(attached') \in BOOLEAN BY DEF AnswerIsOf
  <2> QED BY <1>2, <1>10, <1>11 DEF AnswerIsOf, SeriesOf, SplitsIntoSeries, PlacementRow
<1> QED BY <1>2, <1>7, <1>9, <1>12 DEF AnswerInv

\* An edit by hand makes an answer one of before.
LEMMA ChangeOutdates ==
    ASSUME AnswerInv, Change, answer' = answer
    PROVE  AnswerInv'
<1>1. changes \in Nat /\ changes' = changes + 1 BY DEF AnswerInv, Change
<1>2. ASSUME answer # None
      PROVE  /\ \E groups \in SUBSET Cohorts : AnswerIsOf(groups)'
             /\ answer.changes \in Nat /\ answer.changes <= changes
  <2>1. PICK groups \in SUBSET Cohorts : AnswerIsOf(groups) BY <1>2 DEF AnswerInv
  <2>2. AnswerIsOf(groups)'
    BY <2>1 DEF AnswerIsOf, SeriesOf, SplitsIntoSeries, PlacementRow
  <2> QED BY <1>2, <2>2 DEF AnswerInv
<1>3. answer # None => answer.changes <= changes' /\ answer.changes # changes'
  BY <1>1, <1>2
<1> QED BY <1>1, <1>2, <1>3 DEF AnswerInv

LEMMA AnswerStep ==
    ASSUME SeriesInv, AnswerInv, [SeriesNext]_seriesVars
    PROVE  AnswerInv'
<1>1. CASE SolveSeries BY <1>1, SolveAnswers
<1>2. CASE DiscardAnswer \/ ApplyAnswer
  <2>1. answer' = None /\ changes' = changes BY <1>2 DEF DiscardAnswer, ApplyAnswer
  <2> QED BY <2>1 DEF AnswerInv
<1>3. CASE PutOfferingGroups \/ CohortIsDeleted \/ CreateLesson \/ EditLesson
  <2>1. Change /\ answer' = answer
    BY <1>3 DEF PutOfferingGroups, CohortIsDeleted, CreateLesson, EditLesson
  <2> QED BY <2>1, ChangeOutdates
<1>4. CASE UNCHANGED seriesVars
  <2>1. UNCHANGED <<cohorts, attached, lesson, answer, changes>> BY <1>4 DEF seriesVars
  <2>2. \A groups : AnswerIsOf(groups)' <=> AnswerIsOf(groups)
    BY <2>1 DEF AnswerIsOf, SeriesOf, SplitsIntoSeries, PlacementRow
  <2>3. AnswerIsCurrent' <=> AnswerIsCurrent
    BY <2>1 DEF AnswerIsCurrent, SeriesOf, SplitsIntoSeries, PlacementRow, GroupsOfSeries,
                RequiredIn, BankedIn, Lessons, Placed, InSeries, ReturnedFor, SentIn
  <2> QED BY <2>1, <2>2, <2>3 DEF AnswerInv
<1> QED BY <1>1, <1>2, <1>3, <1>4 DEF SeriesNext

\* An answer stays what the solver may have said, and is current until an edit.
LEMMA AnswersHold == SeriesSpec => []AnswerInv
<1>1. SeriesInit => AnswerInv BY DEF SeriesInit, AnswerInv
<1> QED BY <1>1, AnswerStep, SeriesInvariance, PTL DEF SeriesSpec

-----------------------------------------------------------------------------
(***************************************************************************)
(* What an apply makes of the answer                                       *)
(***************************************************************************)
\* The row a placement becomes, and the session it becomes the row of: its own,
\* or the one a new session is given.
RowOf(p) == Lesson(p.slot, answer.groups[p.series], FALSE)
At(new, p) == IF p \in Creates THEN new[p] ELSE p.id

\* Answers are finite.
LEMMA AnswersAreFinite ==
    ASSUME AnswerInv, answer # None
    PROVE  IsFiniteSet(answer.placements) /\ IsFiniteSet(DOMAIN answer.required)
<1>1. PICK groups \in SUBSET Cohorts : AnswerIsOf(groups) BY DEF AnswerInv
<1> DEFINE ids == LessonIds \cup {None}
           series == SeriesOf(groups)
<1>2. IsFiniteSet(groups) BY SeriesAssumption, FS_Subset
<1>3. IsFiniteSet(series) BY <1>2, FS_Singleton DEF SeriesOf
<1>4. IsFiniteSet(ids) BY SeriesAssumption, FS_AddElement
<1> HIDE DEF ids, series
<1>5. IsFiniteSet((ids \X series) \X LessonSlots) BY <1>3, <1>4, SeriesAssumption, FS_Product
<1>6. IsFiniteSet(PlacementRow(groups))
  <2> DEFINE f == [t \in (ids \X series) \X LessonSlots |->
                      [id |-> t[1][1], series |-> t[1][2], slot |-> t[2]]]
  <2>1. \A t \in (ids \X series) \X LessonSlots : f[t] \in PlacementRow(groups)
    BY DEF PlacementRow, ids, series
  <2>2. ASSUME NEW p \in PlacementRow(groups)
        PROVE  \E t \in (ids \X series) \X LessonSlots : f[t] = p
    <3>1. /\ p.id \in ids /\ p.series \in series /\ p.slot \in LessonSlots
          /\ p = [id |-> p.id, series |-> p.series, slot |-> p.slot]
      BY DEF PlacementRow, ids, series
    <3>2. <<<<p.id, p.series>>, p.slot>> \in (ids \X series) \X LessonSlots BY <3>1
    <3>3. f[<<<<p.id, p.series>>, p.slot>>] = p BY <3>1, <3>2
    <3> QED BY <3>2, <3>3
  <2>3. f \in Surjection((ids \X series) \X LessonSlots, PlacementRow(groups))
    BY <2>1, <2>2 DEF Surjection
  <2> QED BY <1>5, <2>3, FS_Surjection
<1>7. IsFiniteSet(answer.placements) BY <1>1, <1>6, FS_Subset DEF AnswerIsOf
<1> QED BY <1>1, <1>3, <1>7 DEF AnswerIsOf, series

\* An apply finds a session for each placement, and writes the rows: a session
\* that is carried gets the row of a placement of it, another is deleted or left.
LEMMA ApplyWrites ==
    ASSUME SeriesInv, AnswerInv, ApplyAnswer
    PROVE  \E new \in [Creates -> Unused] :
              /\ \A p, q \in Creates : p # q => new[p] # new[q]
              /\ \A l \in LessonIds :
                    IF \E p \in Effective : At(new, p) = l
                      THEN \E p \in Effective : At(new, p) = l /\ lesson'[l] = RowOf(p)
                      ELSE lesson'[l] = (IF l \in Deletes THEN None ELSE lesson[l])
<1> DEFINE new == CHOOSE f \in [Creates -> Unused] :
                    \A p, q \in Creates : p # q => f[p] # f[q]
           of(l) == {p \in Moves : p.id = l} \cup {p \in Creates : new[p] = l}
           one(l) == CHOOSE q \in of(l) : TRUE
<1>1. /\ answer # None /\ Cardinality(Creates) <= Cardinality(Unused)
      /\ lesson' = [l \in LessonIds |->
            IF of(l) # {} THEN RowOf(one(l)) ELSE IF l \in Deletes THEN None ELSE lesson[l]]
  BY DEF ApplyAnswer, RowOf
<1>2. IsFiniteSet(Creates)
  <2>1. Creates \in SUBSET answer.placements BY DEF Creates, Effective
  <2> QED BY <1>1, <2>1, AnswersAreFinite, FS_Subset
<1>3. IsFiniteSet(Unused)
  <2>1. Unused \in SUBSET LessonIds BY DEF Unused
  <2> QED BY <2>1, LessonsAreCounted
<1>4. new \in [Creates -> Unused] /\ \A p, q \in Creates : p # q => new[p] # new[q]
  <2>1. \E f \in [Creates -> Unused] : \A p, q \in Creates : p # q => f[p] # f[q]
    BY <1>1, <1>2, <1>3, RoomForEach
  <2> QED BY <2>1
<1>5. ASSUME NEW l PROVE \A p : p \in of(l) <=> p \in Effective /\ At(new, p) = l
  BY DEF Moves, Creates, At
<1>6. ASSUME NEW l \in LessonIds
      PROVE  IF \E p \in Effective : At(new, p) = l
               THEN \E p \in Effective : At(new, p) = l /\ lesson'[l] = RowOf(p)
               ELSE lesson'[l] = (IF l \in Deletes THEN None ELSE lesson[l])
  <2>1. CASE of(l) = {}
    <3>1. ~ \E p \in Effective : At(new, p) = l BY <1>5, <2>1
    <3>2. lesson'[l] = (IF l \in Deletes THEN None ELSE lesson[l]) BY <1>1, <2>1
    <3> QED BY <3>1, <3>2
  <2>2. CASE of(l) # {}
    <3>1. one(l) \in of(l) BY <2>2
    <3>2. lesson'[l] = RowOf(one(l)) BY <1>1, <2>2
    <3>3. one(l) \in Effective /\ At(new, one(l)) = l BY <1>5, <3>1
    <3> HIDE DEF one
    <3> QED BY <3>2, <3>3
  <2> QED BY <2>1, <2>2
<1> HIDE DEF new
<1> QED BY <1>4, <1>6

\* The row of a placement is a row, not NULL.
LEMMA RowsAreRows ==
    ASSUME SeriesInv, ApplyAnswer, NEW p \in Effective
    PROVE  /\ RowOf(p) # None /\ RowOf(p).slot = p.slot /\ RowOf(p).slot # None
           /\ RowOf(p).groups = answer.groups[p.series] /\ ~RowOf(p).locked
<1>1. p.slot \in LessonSlots /\ answer.groups[p.series] \subseteq cohorts
  BY DEF ApplyAnswer, GroupsAreThere, SeriesInv, Effective
<1>2. RowOf(p) \in LessonRow BY <1>1 DEF RowOf, Lesson, LessonRow, SeriesInv
<1> QED BY <1>1, <1>2, SeriesAssumption DEF RowOf, Lesson

\* What was asked and what was answered, series by series and as a whole.
LEMMA DemandIsReconciled ==
    ASSUME SeriesInv, AnswerInv, answer # None
    PROVE  /\ (\A s \in DOMAIN answer.required : Answered(s) >= answer.required[s]) => ~IsShort
           /\ (\A s \in DOMAIN answer.required : Answered(s) <= answer.required[s])
              /\ (\E s \in DOMAIN answer.required : Answered(s) < answer.required[s]) => IsShort
<1>1. PICK groups \in SUBSET Cohorts : AnswerIsOf(groups) BY DEF AnswerInv
<1>2. PICK D : D = DOMAIN answer.required OBVIOUS
<1>3. PICK f : f = answer.required OBVIOUS
<1>4. PICK S : S = answer.placements OBVIOUS
<1>5. PICK place : place = [p \in S |-> p.series] OBVIOUS
<1>6. IsFiniteSet(D) /\ IsFiniteSet(S) BY <1>2, <1>4, AnswersAreFinite
<1>7. /\ \A d \in D : f[d] \in Nat
      /\ \A p \in S : place[p] \in D
  BY <1>1, <1>2, <1>3, <1>4, <1>5 DEF AnswerIsOf, PlacementRow
<1>8. \A d : Answered(d) = Cardinality({p \in S : place[p] = d})
  <2> TAKE d
  <2>1. {p \in S : place[p] = d} = {p \in answer.placements : p.series = d} BY <1>4, <1>5
  <2> QED BY <2>1 DEF Answered, InSeries
<1>9. IsShort <=> Cardinality(S) < SumOf(f, D) BY <1>2, <1>3, <1>4 DEF IsShort, SumOf
<1>10. /\ SumOf(f, D) \in Nat /\ Cardinality(S) \in Nat
       /\ (\A d \in D : Cardinality({p \in S : place[p] = d}) >= f[d]) =>
            Cardinality(S) >= SumOf(f, D)
       /\ (\A d \in D : Cardinality({p \in S : place[p] = d}) <= f[d])
          /\ (\E d \in D : Cardinality({p \in S : place[p] = d}) < f[d]) =>
            Cardinality(S) < SumOf(f, D)
  BY <1>6, <1>7, SumCompares
<1> QED BY <1>2, <1>3, <1>8, <1>9, <1>10

\* A short answer deletes nothing, stale ones included, unless another series was
\* answered beyond what it asked for (solverDemand.ts reconcileDemand,
\* generationMaterialize.ts).
THEOREM ShortAnswersSpare == SeriesSpec => ShortAnswersDeleteNothing
<1>1. ASSUME SeriesInv, AnswerInv, ApplyAnswer,
             \E s \in DOMAIN answer.required : Answered(s) < answer.required[s],
             \A s \in DOMAIN answer.required : Answered(s) <= answer.required[s],
             NEW id \in Lessons
      PROVE  Exists(lesson'[id])
  <2>1. answer # None BY <1>1 DEF ApplyAnswer
  <2>2. IsShort BY <1>1, <2>1, DemandIsReconciled
  <2>3. Deletes = {} BY <2>2 DEF Deletes
  <2>4. id \in LessonIds /\ lesson[id] # None BY <1>1 DEF Lessons, Exists
  <2>5. lesson'[id] = lesson[id] \/ \E p \in Effective : lesson'[id] = RowOf(p)
    BY <1>1, <2>3, <2>4, ApplyWrites
  <2> QED BY <1>1, <2>4, <2>5, RowsAreRows DEF Exists
<1>2. SeriesInv /\ AnswerInv /\ [SeriesNext]_seriesVars =>
        [/\ ApplyAnswer
         /\ \E s \in DOMAIN answer.required : Answered(s) < answer.required[s]
         /\ \A s \in DOMAIN answer.required : Answered(s) <= answer.required[s]
         => \A id \in Lessons : Exists(lesson'[id])]_seriesVars
  BY <1>1
<1> QED BY <1>2, SeriesInvariance, AnswersHold, PTL DEF SeriesSpec, ShortAnswersDeleteNothing

-----------------------------------------------------------------------------
(***************************************************************************)
(* An up-to-date and complete answer                                       *)
(***************************************************************************)
\* A placement of a current answer is one of a session sent, or of a new one.
LEMMA CurrentPlacements ==
    ASSUME SeriesInv, AnswerInv, answer # None, answer.changes = changes,
           NEW p \in answer.placements
    PROVE  /\ p.series \in SeriesOf(attached) /\ p.slot \in LessonSlots
           /\ p \in InSeries(answer.placements, p.series)
           /\ answer.groups[p.series] = GroupsOfSeries(attached, p.series)
           /\ \/ p.id \in SentIn(p.series) /\ p.id \in Placed
              \/ p.id = None /\ p.id \notin LessonIds
           /\ p \in Effective <=> (p.id = None \/ ~lesson[p.id].locked)
           /\ p \in Creates <=> p.id = None
<1>1. AnswerIsCurrent BY DEF AnswerInv
<1>2. p.series \in SeriesOf(attached) /\ p.slot \in LessonSlots
  BY <1>1 DEF AnswerIsCurrent, PlacementRow
<1>3. p \in InSeries(answer.placements, p.series) BY DEF InSeries
<1>4. answer.groups[p.series] = GroupsOfSeries(attached, p.series)
  BY <1>1, <1>2 DEF AnswerIsCurrent
<1>5. InSeries(answer.placements, p.series) \in ReturnedFor(p.series)
  BY <1>1, <1>2 DEF AnswerIsCurrent
<1>6. IsBack(p, p.series) \/ IsNew(p, p.series) BY <1>3, <1>5, ReturnedIs
<1>7. \/ p.id \in SentIn(p.series) /\ p.id \in Placed
      \/ p.id = None /\ p.id \notin LessonIds
  BY <1>6, SeriesAssumption DEF IsBack, IsNew, Placement, SentIn
<1>8. p.id \in Placed => p.id \in LessonIds /\ p.id \in Lessons /\ lesson[p.id].slot # None
  BY DEF Placed, Lessons
<1>9. p.id \in Lessons => p.id \in LessonIds BY DEF Lessons
<1>10. None \notin LessonIds BY SeriesAssumption
<1>11. p \in Effective <=> (p.id = None \/ ~lesson[p.id].locked)
  <2>1. p \in Effective <=> (p.id \in Lessons => ~lesson[p.id].locked /\ lesson[p.id].slot # None)
    BY DEF Effective
  <2>2. CASE p.id = None BY <1>9, <1>10, <2>1, <2>2
  <2>3. CASE p.id # None BY <1>7, <1>8, <2>1, <2>3
  <2> QED BY <2>2, <2>3
<1>12. p \in Creates <=> p.id = None
  BY <1>7, <1>8, <1>9, <1>10, <1>11 DEF Creates, Moves
<1> QED BY <1>2, <1>3, <1>4, <1>7, <1>11, <1>12

\* Which series a session was sent in, and which it will be in, is one.
LEMMA OneSeries ==
    ASSUME SeriesInv, NEW s \in SeriesOf(attached), NEW t \in SeriesOf(attached)
    PROVE  /\ SentIn(s) \cap SentIn(t) # {} => s = t
           /\ s = None \/ GroupsOfSeries(attached, t) \cap attached = {s} <=> s = t
<1>1. CASE SplitsIntoSeries(attached)
  <2>1. s \in attached /\ t \in attached BY <1>1 DEF SeriesOf
  <2>2. s # None /\ t # None BY <2>1, SeriesAssumption DEF SeriesInv
  <2> QED BY <2>1, <2>2 DEF SentIn, GroupsOfSeries
<1>2. CASE ~SplitsIntoSeries(attached)
  BY <1>2 DEF SeriesOf
<1> QED BY <1>1, <1>2

\* What an apply of a current and complete answer does, session by session.
AppliedTo(new) ==
    /\ new \in [Creates -> Unused]
    /\ \A p, q \in Effective : At(new, p) = At(new, q) => p = q
    /\ \A p \in Effective : At(new, p) \in LessonIds /\ lesson'[At(new, p)] = RowOf(p)
    /\ \A l \in LessonIds : (\A p \in Effective : At(new, p) # l) =>
          lesson'[l] = (IF l \in Placed /\ ~lesson[l].locked THEN None ELSE lesson[l])

\* Each placement that is carried out has a session of its own.
LEMMA FreshApply ==
    ASSUME SeriesInv, AnswerInv, ApplyAnswer, FreshAndComplete
    PROVE  \E new : AppliedTo(new)
<1>1. answer # None /\ answer.changes = changes BY DEF ApplyAnswer, FreshAndComplete
<1>2. AnswerIsCurrent BY <1>1 DEF AnswerInv
<1>3. ~IsShort BY <1>1, DemandIsReconciled DEF FreshAndComplete
<1>4. PICK new \in [Creates -> Unused] :
        /\ \A p, q \in Creates : p # q => new[p] # new[q]
        /\ \A l \in LessonIds :
              IF \E p \in Effective : At(new, p) = l
                THEN \E p \in Effective : At(new, p) = l /\ lesson'[l] = RowOf(p)
                ELSE lesson'[l] = (IF l \in Deletes THEN None ELSE lesson[l])
  BY ApplyWrites
<1>5. Effective \subseteq answer.placements BY DEF Effective
<1>6. ASSUME NEW p \in Effective
      PROVE  \/ p \in Creates /\ At(new, p) = new[p] /\ new[p] \in LessonIds \ Lessons
             \/ p \notin Creates /\ At(new, p) = p.id /\ p.id \in SentIn(p.series)
                /\ p.id \in Placed /\ p.id \in Lessons /\ p.id \in LessonIds
  <2>1. CASE p \in Creates
    <3>1. new[p] \in Unused BY <1>4, <2>1
    <3> QED BY <2>1, <3>1 DEF At, Unused, Lessons
  <2>2. CASE p \notin Creates
    <3>1. p.id \in SentIn(p.series) /\ p.id \in Placed BY <1>1, <1>5, <2>2, CurrentPlacements
    <3> QED BY <2>2, <3>1 DEF At, Placed, Lessons
  <2> QED BY <2>1, <2>2
<1>7. ASSUME NEW p \in Effective, NEW q \in Effective, At(new, p) = At(new, q) PROVE p = q
  <2>1. CASE p \in Creates
    <3>1. q \in Creates BY <1>6, <1>7, <2>1
    <3> QED BY <1>4, <1>7, <2>1, <3>1 DEF At
  <2>2. CASE p \notin Creates
    <3>1. p.id = q.id /\ p.id \in SentIn(p.series) /\ p.id \in SentIn(q.series) /\ p.id \in LessonIds
      BY <1>6, <1>7, <2>2
    <3>2. p.series \in SeriesOf(attached) /\ q.series \in SeriesOf(attached)
      BY <1>1, <1>5, CurrentPlacements
    <3>3. p.series = q.series BY <3>1, <3>2, OneSeries
    <3>4. PICK a : a = InSeries(answer.placements, p.series) OBVIOUS
    <3>5. p \in a /\ q \in a BY <1>5, <3>3, <3>4 DEF InSeries
    <3>6. a \in ReturnedFor(p.series) BY <1>2, <3>2, <3>4 DEF AnswerIsCurrent
    <3>7. p # q => p.id = None BY <3>1, <3>5, <3>6, ReturnedIs
    <3> QED BY <3>1, <3>7, SeriesAssumption
  <2> QED BY <2>1, <2>2
<1>8. ASSUME NEW p \in Effective
      PROVE  At(new, p) \in LessonIds /\ lesson'[At(new, p)] = RowOf(p)
  <2>1. At(new, p) \in LessonIds BY <1>6
  <2>2. PICK q \in Effective : At(new, q) = At(new, p) /\ lesson'[At(new, p)] = RowOf(q)
    BY <1>4, <2>1
  <2> QED BY <1>7, <2>1, <2>2
<1>9. ASSUME NEW l \in LessonIds, \A p \in Effective : At(new, p) # l
      PROVE  lesson'[l] = (IF l \in Placed /\ ~lesson[l].locked THEN None ELSE lesson[l])
  <2>1. lesson'[l] = (IF l \in Deletes THEN None ELSE lesson[l]) BY <1>4, <1>9
  <2>2. l \notin {p.id : p \in Moves}
    <3> SUFFICES ASSUME NEW p \in Moves, p.id = l PROVE FALSE OBVIOUS
    <3>1. p \in Effective /\ p \notin Creates BY DEF Moves, Creates
    <3> QED BY <1>9, <3>1 DEF At
  <2>3. l \in Deletes <=> l \in Placed /\ ~lesson[l].locked
    BY <1>3, <2>2 DEF Deletes, Unreturned
  <2> QED BY <2>1, <2>3
<1> QED BY <1>4, <1>7, <1>8, <1>9 DEF AppliedTo

\* Placed afterwards are the sessions of placements and the locked ones; in the
\* bank are those that were there.
LEMMA PlacedAfter ==
    ASSUME SeriesInv, AnswerInv, ApplyAnswer, FreshAndComplete, NEW new, AppliedTo(new),
           NEW l \in LessonIds
    PROVE  /\ l \in Placed' <=>
                \/ \E p \in Effective : At(new, p) = l
                \/ l \in Placed /\ lesson[l].locked
           /\ l \in Placed /\ lesson[l].locked => lesson'[l] = lesson[l]
           /\ l \in Lessons' \ Placed' <=> l \in Lessons \ Placed
           /\ l \in Lessons \ Placed => lesson'[l] = lesson[l]
<1>1. answer # None /\ answer.changes = changes BY DEF ApplyAnswer, FreshAndComplete
<1>2. Effective \subseteq answer.placements BY DEF Effective
<1>3. ASSUME NEW p \in Effective, At(new, p) = l
      PROVE  l \in Placed' /\ ~(l \in Placed /\ lesson[l].locked) /\ l \notin Lessons \ Placed
  <2>1. lesson'[l] = RowOf(p) BY <1>3 DEF AppliedTo
  <2>2. l \in Placed' BY <2>1, RowsAreRows DEF Placed, Lessons, Exists
  <2>3. CASE p \in Creates
    <3>1. new[p] \in Unused BY <2>3 DEF AppliedTo
    <3>2. l \notin Lessons BY <1>3, <2>3, <3>1 DEF At, Unused, Lessons
    <3> QED BY <2>2, <3>2 DEF Placed
  <2>4. CASE p \notin Creates
    <3>1. l = p.id BY <1>3, <2>4 DEF At
    <3>2. p.id \in Placed /\ ~lesson[p.id].locked BY <1>1, <1>2, <2>4, CurrentPlacements
    <3> QED BY <2>2, <3>1, <3>2
  <2> QED BY <2>3, <2>4
<1>4. ASSUME \A p \in Effective : At(new, p) # l
      PROVE  lesson'[l] = (IF l \in Placed /\ ~lesson[l].locked THEN None ELSE lesson[l])
  BY <1>4 DEF AppliedTo
<1>5. CASE \E p \in Effective : At(new, p) = l BY <1>3, <1>5
<1>6. CASE \A p \in Effective : At(new, p) # l
  <2>1. l \in Placed <=> l \in Lessons /\ lesson[l].slot # None BY DEF Placed
  <2>2. l \in Placed' <=> l \in Lessons' /\ lesson'[l].slot # None BY DEF Placed
  <2>3. l \in Lessons <=> lesson[l] # None BY DEF Lessons, Exists
  <2>4. l \in Lessons' <=> lesson'[l] # None BY DEF Lessons, Exists
  <2> QED BY <1>4, <1>6, <2>1, <2>2, <2>3, <2>4
<1> QED BY <1>5, <1>6

\* The sessions of a series afterwards are those its placements are of.
LEMMA SeriesAfter ==
    ASSUME SeriesInv, AnswerInv, ApplyAnswer, FreshAndComplete, NEW s \in SeriesOf(attached)
    PROVE  /\ Cardinality(SentIn(s)') = Answered(s)
           /\ BankedIn(s)' = BankedIn(s)
<1>1. answer # None /\ answer.changes = changes BY DEF ApplyAnswer, FreshAndComplete
<1>2. AnswerIsCurrent /\ attached' = attached BY <1>1 DEF AnswerInv, ApplyAnswer
<1>3. PICK new : AppliedTo(new) BY FreshApply
<1>4. PICK a : a = InSeries(answer.placements, s) OBVIOUS
<1>5. a \in ReturnedFor(s) /\ a \subseteq answer.placements
  BY <1>2, <1>4 DEF AnswerIsCurrent, InSeries
<1> DEFINE Sent(l) == l \in Placed' /\ (s = None \/ lesson'[l].groups \cap attached = {s})
<1>6. SentIn(s)' = {l \in LessonIds : Sent(l)}
  BY <1>2 DEF SentIn, Placed, Lessons
<1>7. ASSUME NEW p \in a
      PROVE  p.series = s /\ (p \in Effective \/ (p.id \in Placed /\ lesson[p.id].locked))
  <2>1. p \in answer.placements /\ p.series = s BY <1>4 DEF InSeries
  <2>2. /\ p.id \in Placed \/ p.id = None
        /\ p \in Effective <=> (p.id = None \/ ~lesson[p.id].locked)
    BY <1>1, <2>1, CurrentPlacements
  <2> QED BY <2>1, <2>2
<1>8. ASSUME NEW p \in Effective PROVE Sent(At(new, p)) <=> p.series = s
  <2>1. At(new, p) \in LessonIds /\ lesson'[At(new, p)] = RowOf(p) BY <1>3 DEF AppliedTo
  <2>2. At(new, p) \in Placed'
    BY <2>1, RowsAreRows DEF Placed, Lessons, Exists
  <2>3. p \in answer.placements BY DEF Effective
  <2>4. p.series \in SeriesOf(attached)
        /\ RowOf(p).groups = GroupsOfSeries(attached, p.series)
    BY <1>1, <2>3, CurrentPlacements, RowsAreRows
  <2> QED BY <2>1, <2>2, <2>4, OneSeries
<1>9. ASSUME NEW l \in Placed, lesson[l].locked PROVE Sent(l) <=> l \in SentIn(s)
  <2>1. l \in LessonIds BY DEF Placed, Lessons
  <2>2. lesson'[l] = lesson[l] /\ l \in Placed' BY <1>3, <1>9, <2>1, PlacedAfter
  <2> QED BY <2>2 DEF SentIn
<1> DEFINE m == [p \in a |-> IF p \in Effective THEN At(new, p) ELSE p.id]
<1>10. ASSUME NEW p \in a PROVE m[p] \in SentIn(s)'
  <2>1. CASE p \in Effective
    <3>1. At(new, p) \in LessonIds BY <1>3, <2>1 DEF AppliedTo
    <3> QED BY <1>6, <1>7, <1>8, <2>1, <3>1
  <2>2. CASE p \notin Effective
    <3>1. p.id \in Placed /\ lesson[p.id].locked BY <1>7, <2>2
    <3>2. p.id # None BY <3>1, SeriesAssumption DEF Placed, Lessons
    <3>3. p.id \in SentIn(s) BY <1>1, <1>5, <1>7, <3>2, CurrentPlacements
    <3>4. Sent(p.id) /\ p.id \in LessonIds BY <1>9, <3>1, <3>3 DEF Placed, Lessons
    <3> QED BY <1>6, <2>2, <3>4
  <2> QED BY <2>1, <2>2
<1>11. ASSUME NEW p \in a, NEW q \in a, m[p] = m[q] PROVE p = q
  <2>1. \A o \in a : o \notin Effective => m[o] = o.id /\ o.id \in Placed /\ lesson[o.id].locked
    BY <1>7
  <2>2. \A o \in a : o \in Effective =>
          m[o] = At(new, o) /\ ~(At(new, o) \in Placed /\ lesson[At(new, o)].locked)
    <3> SUFFICES ASSUME NEW o \in a, o \in Effective
                 PROVE  ~(At(new, o) \in Placed /\ lesson[At(new, o)].locked)
      OBVIOUS
    <3>1. CASE o \in Creates
      <4>1. new[o] \in Unused BY <1>3, <3>1 DEF AppliedTo
      <4> QED BY <3>1, <4>1 DEF At, Unused, Placed, Lessons
    <3>2. CASE o \notin Creates
      <4>1. o.id # None /\ ~lesson[o.id].locked BY <1>1, <1>5, <3>2, CurrentPlacements
      <4> QED BY <3>2, <4>1 DEF At
    <3> QED BY <3>1, <3>2
  <2>3. CASE p \in Effective
    <3>1. q \in Effective BY <1>11, <2>1, <2>2, <2>3
    <3> QED BY <1>3, <1>11, <2>3, <3>1 DEF AppliedTo
  <2>4. CASE p \notin Effective
    <3>1. q \notin Effective BY <1>11, <2>1, <2>2, <2>4
    <3>2. p.id = q.id /\ p.id # None
      BY <1>11, <2>1, <2>4, <3>1, SeriesAssumption DEF Placed, Lessons
    <3> QED BY <1>5, <3>2, ReturnedIs
  <2> QED BY <2>3, <2>4
<1>12. ASSUME NEW l \in SentIn(s)' PROVE \E p \in a : m[p] = l
  <2>1. l \in LessonIds /\ Sent(l) BY <1>6
  <2>2. CASE \E p \in Effective : At(new, p) = l
    <3>1. PICK p \in Effective : At(new, p) = l BY <2>2
    <3>2. p.series = s BY <1>8, <2>1, <3>1
    <3>3. p \in a BY <1>4, <3>2 DEF InSeries, Effective
    <3> QED BY <3>1, <3>3
  <2>3. CASE ~ \E p \in Effective : At(new, p) = l
    <3>1. l \in Placed /\ lesson[l].locked BY <1>3, <2>1, <2>3, PlacedAfter
    <3>2. l \in LockedOf(s) BY <1>9, <2>1, <3>1 DEF LockedOf
    <3>3. PICK p : p = Placement(l, s, lesson[l].slot) OBVIOUS
    <3>4. p \in a /\ p.id = l BY <1>5, <3>2, <3>3, ReturnedIs DEF Placement
    <3>5. l # None BY <2>1, SeriesAssumption
    <3>6. p \notin Effective BY <1>1, <1>5, <3>1, <3>4, <3>5, CurrentPlacements
    <3> QED BY <3>4, <3>6
  <2> QED BY <2>2, <2>3
<1>13. Cardinality(SentIn(s)') = Cardinality(a)
  <2> HIDE DEF m
  <2>1. DOMAIN m = a BY DEF m
  <2>2. m = [p \in a |-> m[p]] BY DEF m
  <2>3. m \in Bijection(a, SentIn(s)')
    BY <1>10, <1>11, <1>12, <2>1, <2>2 DEF Bijection, Injection, Surjection, IsInjective
  <2>4. IsFiniteSet(a) BY <1>1, <1>5, AnswersAreFinite, FS_Subset
  <2> QED BY <2>3, <2>4, FS_Bijection DEF ExistsBijection
<1>14. BankedIn(s)' = BankedIn(s)
  <2>1. \A l \in LessonIds : /\ l \in Lessons' \ Placed' <=> l \in Lessons \ Placed
                             /\ l \in Lessons \ Placed => lesson'[l] = lesson[l]
    BY <1>3, PlacedAfter
  <2>2. Lessons \subseteq LessonIds /\ Lessons' \subseteq LessonIds BY DEF Lessons
  <2> QED BY <2>1, <2>2 DEF BankedIn
<1> QED BY <1>4, <1>13, <1>14 DEF Answered

\* An answer that is complete has as many placements of a series as it may have:
\* what was asked for, or the locked sessions when they are more.
LEMMA CompleteAnswers ==
    ASSUME SeriesInv, AnswerInv, ApplyAnswer, FreshAndComplete, NEW s \in SeriesOf(attached)
    PROVE  Answered(s) = MostOf(s) /\ Cardinality(LockedOf(s)) \in Nat
<1>1. answer # None /\ answer.changes = changes BY DEF ApplyAnswer, FreshAndComplete
<1>2. AnswerIsCurrent BY <1>1 DEF AnswerInv
<1>3. PICK a : a = InSeries(answer.placements, s) OBVIOUS
<1>4. a \in ReturnedFor(s) /\ a \subseteq answer.placements
  BY <1>2, <1>3 DEF AnswerIsCurrent, InSeries
<1>5. Cardinality(a) \in 0 .. MostOf(s) BY <1>4, ReturnedIs
<1>6. Cardinality(a) >= RequiredIn(s)
  <2>1. s \in DOMAIN answer.required /\ answer.required[s] = RequiredIn(s)
    BY <1>2 DEF AnswerIsCurrent
  <2>2. Answered(s) >= answer.required[s] BY <2>1 DEF FreshAndComplete
  <2> QED BY <1>3, <2>1, <2>2 DEF Answered
<1>7. IsFiniteSet(a) BY <1>1, <1>4, AnswersAreFinite, FS_Subset
<1>8. Cardinality(a) >= Cardinality(LockedOf(s))
  <2> DEFINE m == [id \in LockedOf(s) |-> Placement(id, s, lesson[id].slot)]
  <2>1. \A id \in LockedOf(s) : m[id] \in a /\ m[id].id = id
    BY <1>4, ReturnedIs DEF Placement
  <2>2. m \in Injection(LockedOf(s), a) BY <2>1 DEF Injection, IsInjective
  <2> QED BY <1>7, <2>2, FS_Injection
<1>9. Cardinality(LockedOf(s)) \in Nat /\ RequiredIn(s) \in Nat
  <2>1. LockedOf(s) \in SUBSET LessonIds BY DEF LockedOf, SentIn, Placed, Lessons
  <2> QED BY <2>1, LessonsAreCounted, RequiredIsCount
<1>10. Answered(s) = Cardinality(a) BY <1>3 DEF Answered
<1> QED BY <1>5, <1>6, <1>8, <1>9, <1>10 DEF MostOf

\* The sessions of a series, the banked ones with them, are then its frequency.
LEMMA SeriesIsFilled ==
    ASSUME SeriesInv, AnswerInv, ApplyAnswer, FreshAndComplete, NEW s \in SeriesOf(attached)
    PROVE  LET held   == Cardinality(BankedIn(s))
               locked == Cardinality({id \in SentIn(s) : lesson[id].locked})
           IN  Cardinality(SentIn(s)' \cup BankedIn(s)')
                   = (IF held + locked > Frequency THEN held + locked ELSE Frequency)
<1> DEFINE held == Cardinality(BankedIn(s))
           locked == Cardinality(LockedOf(s))
<1>1. Cardinality(SentIn(s)') = MostOf(s) /\ BankedIn(s)' = BankedIn(s) /\ locked \in Nat
  BY SeriesAfter, CompleteAnswers
<1>2. BankedIn(s) \in SUBSET LessonIds BY DEF BankedIn, Lessons
<1>3. IsFiniteSet(BankedIn(s)) /\ held \in Nat BY <1>2, LessonsAreCounted
<1>4. SentIn(s)' \subseteq LessonIds BY DEF SentIn, Placed, Lessons
<1>5. IsFiniteSet(SentIn(s)') BY <1>4, SeriesAssumption, FS_Subset
<1>6. SentIn(s)' \cap BankedIn(s)' = {} BY DEF SentIn, BankedIn
<1>7. PICK S, B : S = SentIn(s)' /\ B = BankedIn(s)' OBVIOUS
<1>8. Cardinality(S \cup B) = Cardinality(S) + Cardinality(B)
  <2>1. IsFiniteSet(S) /\ IsFiniteSet(B) /\ S \cap B = {} BY <1>1, <1>3, <1>5, <1>6, <1>7
  <2>2. Cardinality(S \cup B) = Cardinality(S) + Cardinality(B) - Cardinality(S \cap B)
    BY <2>1, FS_Union
  <2>3. Cardinality(S) \in Nat /\ Cardinality(B) \in Nat BY <2>1, FS_CardinalityType
  <2>4. Cardinality(S \cap B) = 0
    <3>1. Cardinality({}) = 0 BY FS_EmptySet
    <3> QED BY <2>1, <3>1
  <2> QED BY <2>2, <2>3, <2>4
<1>9. RequiredIn(s) = (IF held >= Frequency THEN 0 ELSE Frequency - held) BY DEF RequiredIn
<1>10. MostOf(s) = (IF locked > RequiredIn(s) THEN locked ELSE RequiredIn(s)) BY DEF MostOf
<1>11. Cardinality(S) = MostOf(s) /\ Cardinality(B) = held BY <1>1, <1>7
<1>12. Frequency \in Nat BY SeriesAssumption
<1> HIDE DEF held, locked
<1>13. Cardinality(S \cup B) = (IF held + locked > Frequency THEN held + locked ELSE Frequency)
  BY <1>1, <1>3, <1>8, <1>9, <1>10, <1>11, <1>12
<1> QED BY <1>7, <1>13 DEF held, locked, LockedOf

\* A session the solver may move is afterwards one of a placement.
LEMMA MovableHasItsSeries ==
    ASSUME SeriesInv, AnswerInv, ApplyAnswer, FreshAndComplete,
           NEW id \in Placed', ~lesson'[id].locked
    PROVE  \E s \in SeriesOf(attached) : lesson'[id].groups = GroupsOfSeries(attached, s)
<1>1. answer # None /\ answer.changes = changes BY DEF ApplyAnswer, FreshAndComplete
<1>2. PICK new : AppliedTo(new) BY FreshApply
<1>3. id \in LessonIds BY DEF Placed, Lessons
<1>4. PICK p \in Effective : At(new, p) = id BY <1>2, <1>3, PlacedAfter
<1>5. lesson'[id].groups = answer.groups[p.series] BY <1>2, <1>4, RowsAreRows DEF AppliedTo
<1>6. p \in answer.placements BY DEF Effective
<1> QED BY <1>1, <1>5, <1>6, CurrentPlacements

\* An answer nothing was edited under, and complete, gives every series its
\* frequency and leaves no movable session of an earlier division
\* (generationMaterialize.ts, solverInput.ts, offeringSplit.ts).
THEOREM AppliesFill == SeriesSpec => AppliesFillTheSeries
<1>1. SeriesInv /\ AnswerInv /\ [SeriesNext]_seriesVars =>
        [ApplyAnswer /\ FreshAndComplete =>
            \A s \in SeriesOf(attached) :
                LET held   == Cardinality(BankedIn(s))
                    locked == Cardinality({id \in SentIn(s) : lesson[id].locked})
                IN  Cardinality(SentIn(s)' \cup BankedIn(s)')
                        = (IF held + locked > Frequency THEN held + locked ELSE Frequency)
        ]_seriesVars
  BY SeriesIsFilled
<1>2. SeriesInv /\ AnswerInv /\ [SeriesNext]_seriesVars =>
        [ApplyAnswer /\ FreshAndComplete =>
            \A id \in Placed' : ~lesson'[id].locked =>
                \E s \in SeriesOf(attached) : lesson'[id].groups = GroupsOfSeries(attached, s)
        ]_seriesVars
  BY MovableHasItsSeries
<1>3. SeriesSpec => EverySeriesIsFilled
  BY <1>1, SeriesInvariance, AnswersHold, PTL DEF SeriesSpec, EverySeriesIsFilled
<1>4. SeriesSpec => EverySessionHasItsSeries
  BY <1>2, SeriesInvariance, AnswersHold, PTL DEF SeriesSpec, EverySessionHasItsSeries
<1> QED BY <1>3, <1>4 DEF AppliesFillTheSeries

-----------------------------------------------------------------------------
(***************************************************************************)
(* Access roles                                                            *)
(***************************************************************************)
\* What a request may have begun with: the rows it names are of their tables.
IsRoleChange(w) ==
    /\ w.op \in {"grants", "edit", "remove"}
    /\ w.op = "grants" => w.of \in people /\ w.set \subseteq Roles
    /\ w.op = "edit" => w.of \in Roles /\ w.set \subseteq SelfAdministration
    /\ w.op = "remove" => w.of \in Roles \ {SystemRole}

RoleRowsHold ==
    /\ people \subseteq Staff /\ logins \subseteq people
    /\ keys \in [Roles -> (SUBSET SelfAdministration) \cup {None}]
    /\ grants \subseteq people \X RoleRows
    /\ standard \in RoleRows \cup {None}
    /\ SystemRole \in RoleRows
    /\ DOMAIN change = Clerks

\* What a request has written, and the rows it wrote about, stay until it commits.
RoleWriteHolds(c) ==
    /\ IsRoleChange(change[c].w)
    /\ change[c].written \in BOOLEAN
    /\ change[c].written => Stands(change[c].w)
    /\ change[c].written => \A d \in Clerks \ {c} :
          change[d] # None /\ change[d].written => ~Meet(change[c].w, change[d].w)
RoleWritesHold == \A c \in Clerks : change[c] # None => RoleWriteHolds(c)

\* Requests one at a time: what the guard measured is what the commit leaves.
GuardHolds == ~overlap =>
    /\ \A c, d \in Clerks : change[c] # None /\ change[d] # None => c = d
    /\ \A c \in Clerks : change[c] # None /\ change[c].written =>
          Administered(KeysAfter(change[c].w), GrantsAfter(change[c].w))

RolesInv == RoleRowsHold /\ RoleWritesHold /\ GuardHolds

\* A row that is there is no NULL.
LEMMA RoleRowsAre == \A r \in RoleRows : r \in Roles /\ keys[r] # None
BY DEF RoleRows, Exists

LEMMA RolesBegin == RolesInit => RolesInv
<1> SUFFICES ASSUME RolesInit PROVE RolesInv OBVIOUS
<1>1. keys = [r \in Roles |-> IF r = SystemRole THEN SelfAdministration ELSE None]
  BY DEF RolesInit
<1>2. SystemRole \in RoleRows BY <1>1, RolesAssumption DEF RoleRows, Exists
<1>3. keys \in [Roles -> (SUBSET SelfAdministration) \cup {None}]
  <2>1. SelfAdministration \in SUBSET SelfAdministration OBVIOUS
  <2> QED BY <1>1, <2>1
<1>4. grants \subseteq people \X RoleRows BY <1>2 DEF RolesInit
<1>5. RoleRowsHold BY <1>2, <1>3, <1>4 DEF RolesInit, RoleRowsHold
<1> QED BY <1>5 DEF RolesInit, RolesInv, RoleWritesHold, RoleWriteHolds, GuardHolds

\* What may be asked for names rows there are.
LEMMA AskedIsRoleChange ==
    ASSUME RoleRowsHold, NEW w \in MayBeAsked
    PROVE  IsRoleChange(w)
<1>1. CASE \E p \in people, set \in SUBSET RoleRows : w = PutGrants(p, set)
  <2>1. PICK p \in people, set \in SUBSET RoleRows : w = PutGrants(p, set) BY <1>1
  <2>2. w.op = "grants" /\ w.of = p /\ w.set = set BY <2>1 DEF PutGrants
  <2> QED BY <2>2, RoleRowsAre DEF IsRoleChange
<1>2. CASE \E r \in RoleRows, set \in SUBSET SelfAdministration : w = EditRole(r, set)
  <2>1. PICK r \in RoleRows, set \in SUBSET SelfAdministration : w = EditRole(r, set) BY <1>2
  <2>2. w.op = "edit" /\ w.of = r /\ w.set = set BY <2>1 DEF EditRole
  <2> QED BY <2>2, RoleRowsAre DEF IsRoleChange
<1>3. CASE \E r \in RoleRows \ {SystemRole, standard} : w = RemoveRole(r)
  <2>1. PICK r \in RoleRows \ {SystemRole, standard} : w = RemoveRole(r) BY <1>3
  <2>2. w.op = "remove" /\ w.of = r BY <2>1 DEF RemoveRole
  <2> QED BY <2>2, RoleRowsAre DEF IsRoleChange
<1> QED BY <1>1, <1>2, <1>3 DEF MayBeAsked

\* A request that is not touched, while rows it has written about stay, and no
\* other is written anew that meets it, holds what it held.
LEMMA UntouchedHolds ==
    ASSUME NEW c \in Clerks, change'[c] = change[c], RoleWriteHolds(c),
           people' = people,
           change[c].written /\ Stands(change[c].w) => Stands(change[c].w)',
           \A d \in Clerks \ {c} : change'[d] # None /\ change'[d].written /\ change[c].written =>
               ~Meet(change[c].w, change'[d].w)
    PROVE  RoleWriteHolds(c)'
<1>1. IsRoleChange(change[c].w)' BY DEF RoleWriteHolds, IsRoleChange
<1>2. change'[c].written \in BOOLEAN BY DEF RoleWriteHolds
<1>3. change'[c].written => Stands(change[c].w)' BY DEF RoleWriteHolds
<1>4. \A d \in Clerks \ {c} : change'[c].written /\ change'[d] # None /\ change'[d].written =>
          ~Meet(change'[c].w, change'[d].w)
  OBVIOUS
<1> QED BY <1>1, <1>2, <1>3, <1>4 DEF RoleWriteHolds, Meet

LEMMA BeginKeepsRoles ==
    ASSUME RolesInv, NEW c \in Clerks, Begin(c)
    PROVE  RolesInv'
<1>1. PICK w \in MayBeAsked : change' = [change EXCEPT ![c] = [w |-> w, written |-> FALSE]]
  BY DEF Begin
<1>2. /\ change[c] = None /\ (overlap \/ Others(c) = {})
      /\ UNCHANGED <<people, logins, keys, grants, standard, overlap>>
  BY DEF Begin
<1>3. IsRoleChange(w) BY AskedIsRoleChange DEF RolesInv
<1>4. /\ DOMAIN change' = Clerks /\ change'[c].w = w /\ change'[c].written = FALSE
      /\ \A d \in Clerks \ {c} : change'[d] = change[d]
  BY <1>1 DEF RolesInv, RoleRowsHold
<1>5. RoleRowsHold' BY <1>2, <1>4 DEF RolesInv, RoleRowsHold, RoleRows
<1>6. RoleWritesHold'
  <2> SUFFICES ASSUME NEW d \in Clerks, change'[d] # None PROVE RoleWriteHolds(d)'
    BY DEF RoleWritesHold
  <2>1. CASE d = c
    <3>1. IsRoleChange(change[c].w)' BY <1>2, <1>3, <1>4 DEF IsRoleChange
    <3> QED BY <1>4, <2>1, <3>1 DEF RoleWriteHolds
  <2>2. CASE d # c
    <3>1. change'[d] = change[d] /\ RoleWriteHolds(d) BY <1>4, <2>2 DEF RolesInv, RoleWritesHold
    <3>2. Stands(change[d].w) => Stands(change[d].w)' BY <1>2, <3>1 DEF Stands, RoleRows
    <3>3. \A e \in Clerks \ {d} : change'[e] # None /\ change'[e].written /\ change[d].written =>
              ~Meet(change[d].w, change'[e].w)
      BY <1>4, <3>1, <2>2 DEF RoleWriteHolds
    <3> QED BY <1>2, <3>1, <3>2, <3>3, UntouchedHolds
  <2> QED BY <2>1, <2>2
<1>7. GuardHolds'
  <2>1. ~overlap => \A d \in Clerks \ {c} : change[d] = None BY <1>2 DEF Others, Exists
  <2> QED BY <1>2, <1>4, <2>1 DEF GuardHolds
<1> QED BY <1>5, <1>6, <1>7 DEF RolesInv

LEMMA WriteKeepsRoles ==
    ASSUME RolesInv, NEW c \in Clerks, Write(c)
    PROVE  RolesInv'
<1> DEFINE w == change[c].w
<1>1. /\ change[c] # None /\ ~change[c].written
      /\ \A o \in Others(c) : o.written => ~Meet(o.w, w)
      /\ UNCHANGED <<people, logins, keys, grants, standard, overlap>>
      /\ change' = [change EXCEPT ![c] =
            IF Stands(w) /\ Administered(KeysAfter(w), GrantsAfter(w))
            THEN [w |-> w, written |-> TRUE] ELSE None]
  BY DEF Write, Exists
<1>2. /\ DOMAIN change' = Clerks /\ \A d \in Clerks \ {c} : change'[d] = change[d]
      /\ \/ change'[c] = None
         \/ /\ change'[c].w = w /\ change'[c].written = TRUE
            /\ Stands(w) /\ Administered(KeysAfter(w), GrantsAfter(w))
  BY <1>1 DEF RolesInv, RoleRowsHold
<1>3. \A d \in Clerks \ {c} : change[d] # None /\ change[d].written => ~Meet(change[d].w, w)
  BY <1>1 DEF Others, Exists
<1>4. IsRoleChange(w) BY <1>1 DEF RolesInv, RoleWritesHold, RoleWriteHolds
<1> HIDE DEF w
<1>5. RoleRowsHold' BY <1>1, <1>2 DEF RolesInv, RoleRowsHold, RoleRows
<1>6. RoleWritesHold'
  <2> SUFFICES ASSUME NEW d \in Clerks, change'[d] # None PROVE RoleWriteHolds(d)'
    BY DEF RoleWritesHold
  <2>1. CASE d = c
    <3>1. IsRoleChange(change[c].w)' BY <1>1, <1>2, <1>4, <2>1 DEF IsRoleChange
    <3>2. Stands(change[c].w)' BY <1>1, <1>2, <2>1 DEF Stands, RoleRows
    <3>3. \A e \in Clerks \ {c} : change'[e] # None /\ change'[e].written =>
              ~Meet(change'[c].w, change'[e].w)
      BY <1>2, <1>3, <2>1 DEF Meet
    <3> QED BY <1>2, <2>1, <3>1, <3>2, <3>3 DEF RoleWriteHolds
  <2>2. CASE d # c
    <3>1. change'[d] = change[d] /\ RoleWriteHolds(d) BY <1>2, <2>2 DEF RolesInv, RoleWritesHold
    <3>2. Stands(change[d].w) => Stands(change[d].w)'
      <4>1. UNCHANGED <<people, keys, standard>> BY <1>1
      <4> QED BY <3>1, <4>1 DEF Stands, RoleRows
    <3>3. \A e \in Clerks \ {d} : change'[e] # None /\ change'[e].written /\ change[d].written =>
              ~Meet(change[d].w, change'[e].w)
      BY <1>2, <1>3, <3>1, <2>2 DEF RoleWriteHolds
    <3> QED BY <1>1, <3>1, <3>2, <3>3, UntouchedHolds
  <2> QED BY <2>1, <2>2
<1>7. GuardHolds'
  <2>1. \A v : KeysAfter(v)' = KeysAfter(v) /\ GrantsAfter(v)' = GrantsAfter(v)
    BY <1>1 DEF KeysAfter, GrantsAfter
  <2>2. \A e \in Clerks : change'[e] # None /\ change'[e].written => e = c \/ change'[e] = change[e]
    BY <1>2
  <2>3. \A v : Administered(KeysAfter(v), GrantsAfter(v))'
               <=> Administered(KeysAfter(v), GrantsAfter(v))
    BY <2>1 DEF Administered
  <2>4. ~overlap => \A d \in Clerks : change'[d] # None => d = c
    BY <1>1, <1>2 DEF RolesInv, GuardHolds
  <2>5. \A d \in Clerks : d = c /\ change'[d] # None =>
            Administered(KeysAfter(change[d].w), GrantsAfter(change[d].w))'
    BY <1>2, <2>3
  <2> QED BY <1>1, <2>4, <2>5 DEF GuardHolds
<1> QED BY <1>5, <1>6, <1>7 DEF RolesInv

LEMMA CommitKeepsRoles ==
    ASSUME RolesInv, NEW c \in Clerks, CommitChange(c)
    PROVE  RolesInv'
<1> DEFINE w == change[c].w
<1>1. /\ change[c] # None /\ change[c].written
      /\ keys' = KeysAfter(w) /\ grants' = GrantsAfter(w)
      /\ change' = [change EXCEPT ![c] = None]
      /\ UNCHANGED <<people, logins, standard, overlap>>
  BY DEF CommitChange, Exists
<1>2. /\ DOMAIN change' = Clerks /\ change'[c] = None
      /\ \A d \in Clerks \ {c} : change'[d] = change[d]
  BY <1>1 DEF RolesInv, RoleRowsHold
<1>3. IsRoleChange(w) /\ Stands(w) BY <1>1 DEF RolesInv, RoleWritesHold, RoleWriteHolds
<1>4. \A d \in Clerks \ {c} : change[d] # None /\ change[d].written => ~Meet(w, change[d].w)
  BY <1>1 DEF RolesInv, RoleWritesHold, RoleWriteHolds
<1> HIDE DEF w
<1>5. /\ keys' \in [Roles -> (SUBSET SelfAdministration) \cup {None}]
      /\ RoleRows' = IF w.op = "remove" THEN RoleRows \ {w.of} ELSE RoleRows
  <2>1. CASE w.op = "edit"
    <3>1. keys' = [keys EXCEPT ![w.of] = w.set] BY <1>1, <2>1 DEF KeysAfter
    <3>2. w.of \in RoleRows /\ w.set \subseteq SelfAdministration /\ w.set # None
      BY <1>3, <2>1, RolesAssumption DEF Stands, IsRoleChange
    <3> QED BY <2>1, <3>1, <3>2 DEF RolesInv, RoleRowsHold, RoleRows, Exists
  <2>2. CASE w.op = "remove"
    <3>1. keys' = [keys EXCEPT ![w.of] = None] BY <1>1, <2>2 DEF KeysAfter
    <3>2. w.of \in RoleRows BY <1>3, <2>2 DEF Stands
    <3> QED BY <2>2, <3>1, <3>2 DEF RolesInv, RoleRowsHold, RoleRows, Exists
  <2>3. CASE w.op = "grants"
    <3>1. keys' = keys BY <1>1, <2>3 DEF KeysAfter
    <3> QED BY <2>3, <3>1 DEF RolesInv, RoleRowsHold, RoleRows, Exists
  <2> QED BY <1>3, <2>1, <2>2, <2>3 DEF IsRoleChange
<1>6. grants' \subseteq people' \X RoleRows'
  <2>1. CASE w.op = "grants"
    <3>1. w.of \in people /\ w.set \subseteq RoleRows BY <1>3, <2>1 DEF Stands
    <3>2. grants' \subseteq grants \cup ({w.of} \X w.set) BY <1>1, <2>1 DEF GrantsAfter
    <3> QED BY <1>1, <1>5, <2>1, <3>1, <3>2 DEF RolesInv, RoleRowsHold
  <2>2. CASE w.op = "remove"
    <3>1. grants' = {g \in grants : g[2] # w.of} BY <1>1, <2>2 DEF GrantsAfter
    <3> QED BY <1>1, <1>5, <2>2, <3>1 DEF RolesInv, RoleRowsHold
  <2>3. CASE w.op = "edit"
    <3>1. grants' = grants BY <1>1, <2>3 DEF GrantsAfter
    <3> QED BY <1>1, <1>5, <2>3, <3>1 DEF RolesInv, RoleRowsHold
  <2> QED BY <1>3, <2>1, <2>2, <2>3 DEF IsRoleChange
<1>7. standard' \in RoleRows' \cup {None} /\ SystemRole \in RoleRows'
  BY <1>1, <1>3, <1>5 DEF RolesInv, RoleRowsHold, Stands, IsRoleChange
<1>8. RoleRowsHold' BY <1>1, <1>2, <1>5, <1>6, <1>7 DEF RolesInv, RoleRowsHold
<1>9. RoleWritesHold'
  <2> SUFFICES ASSUME NEW d \in Clerks, change'[d] # None PROVE RoleWriteHolds(d)'
    BY DEF RoleWritesHold
  <2>1. d # c /\ change'[d] = change[d] /\ RoleWriteHolds(d)
    BY <1>2 DEF RolesInv, RoleWritesHold
  <2>2. \A e \in Clerks \ {d} : change'[e] # None /\ change'[e].written /\ change[d].written =>
            ~Meet(change[d].w, change'[e].w)
    BY <1>2, <2>1 DEF RoleWriteHolds
  <2>3. change[d].written => Stands(change[d].w)'
    <3> SUFFICES ASSUME change[d].written PROVE Stands(change[d].w)' OBVIOUS
    <3>1. Stands(change[d].w) /\ ~Meet(w, change[d].w) /\ IsRoleChange(change[d].w)
      BY <1>4, <2>1 DEF RoleWriteHolds
    <3>2. PICK v : v = change[d].w OBVIOUS
    <3>3. people' = people /\ standard' = standard BY <1>1
    <3>4. ~Meet(w, v) /\ v.op \in {"grants", "edit", "remove"} BY <3>1, <3>2 DEF IsRoleChange
    <3>5. CASE v.op = "grants"
      <4>1. v.of \in people /\ v.set \subseteq RoleRows BY <3>1, <3>2, <3>5 DEF Stands
      <4>2. v.set \subseteq RoleRows' BY <1>5, <3>4, <3>5, <4>1 DEF Meet
      <4> QED BY <2>1, <3>2, <3>3, <3>5, <4>1, <4>2 DEF Stands
    <3>6. CASE v.op # "grants"
      <4>1. v.of \in RoleRows BY <3>1, <3>2, <3>4, <3>6 DEF Stands
      <4>2. v.of \in RoleRows' BY <1>5, <3>4, <3>6, <4>1 DEF Meet
      <4>3. v.op = "remove" => v.of # standard BY <3>1, <3>2 DEF Stands
      <4> QED BY <2>1, <3>2, <3>3, <3>4, <3>6, <4>2, <4>3 DEF Stands
    <3> QED BY <3>5, <3>6
  <2> QED BY <1>1, <2>1, <2>2, <2>3, UntouchedHolds
<1>10. GuardHolds' BY <1>1, <1>2 DEF RolesInv, GuardHolds
<1> QED BY <1>8, <1>9, <1>10 DEF RolesInv

\* The requests of one step. A change that names a row keeps others from taking
\* it away, and while one is under way the rest wait unless requests overlap.
LEMMA OneStepKeepsRoles ==
    ASSUME RolesInv, UNCHANGED <<change, overlap>>, RoleRowsHold',
           \A c \in Clerks : change[c] # None =>
               /\ IsRoleChange(change[c].w)'
               /\ change[c].written => Stands(change[c].w)',
           MayRun
    PROVE  RolesInv'
<1>1. RoleWritesHold'
  <2> SUFFICES ASSUME NEW c \in Clerks, change[c] # None PROVE RoleWriteHolds(c)'
    BY DEF RoleWritesHold
  <2>1. RoleWriteHolds(c) BY DEF RolesInv, RoleWritesHold
  <2>2. change' = change OBVIOUS
  <2>3. \A d \in Clerks \ {c} : change'[d] # None /\ change'[d].written /\ change[c].written =>
            ~Meet(change[c].w, change'[d].w)
    BY <2>1, <2>2 DEF RoleWriteHolds
  <2> QED BY <2>1, <2>2, <2>3 DEF RoleWriteHolds, Meet
<1>2. GuardHolds' BY DEF RolesInv, GuardHolds, MayRun
<1> QED BY <1>1, <1>2 DEF RolesInv

LEMMA CreateRoleKeepsRoles == ASSUME RolesInv, CreateRole PROVE RolesInv'
<1>1. PICK r \in Roles \ RoleRows, set \in SUBSET SelfAdministration :
          keys' = [keys EXCEPT ![r] = set]
  BY DEF CreateRole
<1>2. MayRun /\ UNCHANGED <<people, logins, grants, standard, change, overlap>> BY DEF CreateRole
<1>3. set # None BY RolesAssumption
<1>4. /\ keys' \in [Roles -> (SUBSET SelfAdministration) \cup {None}]
      /\ RoleRows' = RoleRows \cup {r}
  BY <1>1, <1>3 DEF RolesInv, RoleRowsHold, RoleRows, Exists
<1>5. RoleRowsHold' BY <1>2, <1>4 DEF RolesInv, RoleRowsHold
<1>6. ASSUME NEW c \in Clerks, change[c] # None
      PROVE  /\ IsRoleChange(change[c].w)'
             /\ change[c].written => Stands(change[c].w)'
  <2>1. RoleWriteHolds(c) BY <1>6 DEF RolesInv, RoleWritesHold
  <2>2. UNCHANGED <<change, people, standard>> BY <1>2
  <2> QED BY <1>4, <2>1, <2>2 DEF RoleWriteHolds, IsRoleChange, Stands
<1> QED BY <1>2, <1>5, <1>6, OneStepKeepsRoles

LEMMA PutDefaultRoleKeepsRoles == ASSUME RolesInv, PutDefaultRole PROVE RolesInv'
<1>1. PICK r \in RoleRows \cup {None} :
          /\ \A c \in Clerks : change[c] # None /\ change[c].w.op = "remove" => change[c].w.of # r
          /\ standard' = r
  BY DEF PutDefaultRole, Exists
<1>2. MayRun /\ UNCHANGED <<people, logins, keys, grants, change, overlap>> BY DEF PutDefaultRole
<1>3. RoleRows' = RoleRows BY <1>2 DEF RoleRows
<1>4. RoleRowsHold' BY <1>1, <1>2, <1>3 DEF RolesInv, RoleRowsHold
<1>5. ASSUME NEW c \in Clerks, change[c] # None
      PROVE  /\ IsRoleChange(change[c].w)'
             /\ change[c].written => Stands(change[c].w)'
  <2>1. RoleWriteHolds(c) BY <1>5 DEF RolesInv, RoleWritesHold
  <2>2. UNCHANGED <<change, people>> BY <1>2
  <2>3. change[c].w.op = "remove" => change[c].w.of # standard' BY <1>1, <1>5
  <2> QED BY <1>3, <2>1, <2>2, <2>3 DEF RoleWriteHolds, IsRoleChange, Stands
<1> QED BY <1>2, <1>4, <1>5, OneStepKeepsRoles

LEMMA CreatePersonKeepsRoles == ASSUME RolesInv, CreatePerson PROVE RolesInv'
<1>1. PICK p \in Staff \ people :
         /\ people' = people \cup {p}
         /\ grants' = grants \cup (IF Exists(standard) THEN {<<p, standard>>} ELSE {})
  BY DEF CreatePerson
<1>2. MayRun /\ UNCHANGED <<logins, keys, standard, change, overlap>> BY DEF CreatePerson
<1>3. RoleRows' = RoleRows BY <1>2 DEF RoleRows
<1>4. RoleRowsHold' BY <1>1, <1>2, <1>3 DEF RolesInv, RoleRowsHold, Exists
<1>5. ASSUME NEW c \in Clerks, change[c] # None
      PROVE  /\ IsRoleChange(change[c].w)'
             /\ change[c].written => Stands(change[c].w)'
  <2>1. RoleWriteHolds(c) BY <1>5 DEF RolesInv, RoleWritesHold
  <2>2. UNCHANGED <<change, standard>> BY <1>2
  <2> QED BY <1>1, <1>3, <2>1, <2>2 DEF RoleWriteHolds, IsRoleChange, Stands
<1> QED BY <1>2, <1>4, <1>5, OneStepKeepsRoles

LEMMA DeletePersonKeepsRoles == ASSUME RolesInv, DeletePerson PROVE RolesInv'
<1>1. PICK p \in people \ logins :
         /\ Untouched(p)
         /\ people' = people \ {p}
         /\ grants' = {g \in grants : g[1] # p}
  BY DEF DeletePerson
<1>2. MayRun /\ UNCHANGED <<logins, keys, standard, change, overlap>> BY DEF DeletePerson
<1>3. RoleRows' = RoleRows BY <1>2 DEF RoleRows
<1>4. RoleRowsHold' BY <1>1, <1>2, <1>3 DEF RolesInv, RoleRowsHold
<1>5. ASSUME NEW c \in Clerks, change[c] # None
      PROVE  /\ IsRoleChange(change[c].w)'
             /\ change[c].written => Stands(change[c].w)'
  <2>1. RoleWriteHolds(c) BY <1>5 DEF RolesInv, RoleWritesHold
  <2>2. UNCHANGED <<change, standard>> BY <1>2
  <2>3. p # change[c].w.of BY <1>1, <1>5 DEF Untouched, Exists
  <2> QED BY <1>1, <1>3, <2>1, <2>2, <2>3 DEF RoleWriteHolds, IsRoleChange, Stands
<1> QED BY <1>2, <1>4, <1>5, OneStepKeepsRoles

LEMMA LoginChangesKeepsRoles == ASSUME RolesInv, LoginChanges PROVE RolesInv'
<1>1. logins' \subseteq people BY DEF LoginChanges, RolesInv, RoleRowsHold
<1>2. MayRun /\ UNCHANGED <<people, keys, grants, standard, change, overlap>> BY DEF LoginChanges
<1>3. RoleRows' = RoleRows BY <1>2 DEF RoleRows
<1>4. RoleRowsHold' BY <1>1, <1>2, <1>3 DEF RolesInv, RoleRowsHold
<1>5. ASSUME NEW c \in Clerks, change[c] # None
      PROVE  /\ IsRoleChange(change[c].w)'
             /\ change[c].written => Stands(change[c].w)'
  <2>1. RoleWriteHolds(c) BY <1>5 DEF RolesInv, RoleWritesHold
  <2>2. UNCHANGED <<change, people, standard>> BY <1>2
  <2> QED BY <1>3, <2>1, <2>2 DEF RoleWriteHolds, IsRoleChange, Stands
<1> QED BY <1>2, <1>4, <1>5, OneStepKeepsRoles

\* Rows there are, and what a request measured, stay while it is under way.
THEOREM RolesInvariance == RolesSpec => []RolesInv
<1>1. RolesInv /\ [RolesNext]_roleVars => RolesInv'
  <2> SUFFICES ASSUME RolesInv, [RolesNext]_roleVars PROVE RolesInv' OBVIOUS
  <2>1. CASE UNCHANGED roleVars
    <3>1. UNCHANGED <<people, logins, keys, grants, standard, change, overlap>>
      BY <2>1 DEF roleVars
    <3>2. RoleRowsHold' BY <3>1 DEF RolesInv, RoleRowsHold, RoleRows
    <3>3. ASSUME NEW c \in Clerks, change'[c] # None PROVE RoleWriteHolds(c)'
      <4>1. RoleWriteHolds(c) BY <3>1, <3>3 DEF RolesInv, RoleWritesHold
      <4>2. Stands(change[c].w) => Stands(change[c].w)' BY <3>1 DEF Stands, RoleRows
      <4> QED BY <3>1, <4>1, <4>2, UntouchedHolds DEF RoleWriteHolds
    <3>4. \A v : KeysAfter(v)' = KeysAfter(v) /\ GrantsAfter(v)' = GrantsAfter(v)
      BY <3>1 DEF KeysAfter, GrantsAfter
    <3>5. GuardHolds' BY <3>1, <3>4 DEF RolesInv, GuardHolds, Administered
    <3> QED BY <3>2, <3>3, <3>5 DEF RolesInv, RoleWritesHold
  <2>2. CASE RolesNext
    BY <2>2, BeginKeepsRoles, WriteKeepsRoles, CommitKeepsRoles, CreateRoleKeepsRoles,
       PutDefaultRoleKeepsRoles, CreatePersonKeepsRoles, DeletePersonKeepsRoles,
       LoginChangesKeepsRoles DEF RolesNext
  <2> QED BY <2>1, <2>2
<1> QED BY <1>1, RolesBegin, PTL DEF RolesSpec

\* Grants name people and roles there are, and the default role is one, however
\* requests overlap.
THEOREM RolesTyped == RolesSpec => []RolesTypeOK
<1>1. RolesInv => RolesTypeOK BY DEF RolesInv, RoleRowsHold, RolesTypeOK
<1> QED BY <1>1, RolesInvariance, PTL

\* Requests one at a time, only the deletion of a person can leave a tenant with
\* nobody to administer it, for any people, roles and clerks (accessRoleGuards.ts).
THEOREM AdministratorsStay == RolesSpec => AdministratorStays
<1> DEFINE Rest == ~overlap /\ Administered(keys, grants) /\ ~Administered(keys', grants')
                   => DeletePerson
<1>1. ASSUME RolesInv, [RolesNext]_roleVars PROVE [Rest]_roleVars
  <2> SUFFICES ASSUME RolesNext, ~overlap, Administered(keys, grants), ~DeletePerson
               PROVE  Administered(keys', grants')
    BY <1>1
  <2>1. CASE keys' = keys /\ grants' = grants BY <2>1
  <2>2. CASE \E c \in Clerks : CommitChange(c)
    BY <2>2, <1>1 DEF CommitChange, RolesInv, GuardHolds, Exists
  <2>3. CASE CreateRole BY <2>3 DEF CreateRole, Administered
  <2>4. CASE CreatePerson
    <3>1. grants \subseteq grants' /\ keys' = keys BY <2>4 DEF CreatePerson
    <3> QED BY <3>1 DEF Administered
  <2>5. (\E c \in Clerks : Begin(c) \/ Write(c)) \/ PutDefaultRole \/ LoginChanges
            => keys' = keys /\ grants' = grants
    BY DEF Begin, Write, PutDefaultRole, LoginChanges
  <2> QED BY <2>1, <2>2, <2>3, <2>4, <2>5 DEF RolesNext
<1> QED BY <1>1, RolesInvariance, PTL DEF RolesSpec, AdministratorStays

-----------------------------------------------------------------------------
(***************************************************************************)
(* Logins                                                                  *)
(***************************************************************************)
\* A session acts for an account there is, as a person there is or as nobody yet.
IsSession(x) ==
    /\ x = [account |-> x.account, person |-> x.person]
    /\ x.account \in accounts /\ x.person \in persons \cup {None}

AccountRows ==
    /\ tenants \subseteq Tenants /\ persons \subseteq Persons /\ accounts \subseteq Logins
    /\ identity \subseteq accounts \X persons
    /\ \A p \in persons : TenantOf[p] \in tenants
    /\ \A i, j \in identity : i[2] = j[2] => i = j
    /\ DOMAIN session = Cookies /\ DOMAIN task = Callers
    /\ \A s \in Cookies : session[s] # None => IsSession(session[s])

\* What a request decided on.
IsTask(w) ==
    /\ w.op \in {"create", "attach", "relink", "detach", "delete", "person"}
    /\ w.op \in {"create", "attach", "relink", "detach", "delete"} => w.account \in Logins
    /\ w.op \in {"create", "attach", "relink", "person"} =>
          w.target \in Persons /\ TenantOf[w.target] = w.tenant
    /\ w.op \in {"relink", "detach"} => w.own \in Persons /\ TenantOf[w.own] = w.tenant

TasksMeant == \A c \in Callers : task[c] # None => IsTask(task[c])

\* Requests one at a time: what a request has read is so when it writes.
ReadingHolds(w) ==
    /\ w.op \in {"relink", "detach"} => <<w.account, w.own>> \in identity
    /\ w.op = "detach" => \E p \in persons : <<w.account, p>> \in identity
                                             /\ TenantOf[p] # w.tenant
    /\ w.op = "delete" => \A p \in persons : <<w.account, p>> \in identity =>
                                             TenantOf[p] = w.tenant
    /\ w.op = "person" => \A k \in accounts : <<k, w.target>> \notin identity

TasksAlone == ~crossed =>
    /\ \A c, d \in Callers : task[c] # None /\ task[d] # None => c = d
    /\ \A c \in Callers : task[c] # None => ReadingHolds(task[c])

AccountsInv == /\ AccountRows /\ TasksMeant /\ TasksAlone
               /\ NoAccountIsOrphan /\ SessionsActAsIdentities

\* A login is taken from a person with the tenant, or at its request.
TakenByTheirTenant == ~crossed => \A i \in identity \ identity' :
    \/ TenantOf[i[2]] \notin tenants'
    \/ \E c \in Callers : Exists(task[c]) /\ task[c].tenant = TenantOf[i[2]]

LEMMA AccountsBegin == AccountsInit => AccountsInv
BY AccountsAssumption DEF AccountsInit, AccountsInv, AccountRows, TasksMeant, TasksAlone,
   NoAccountIsOrphan, SessionsActAsIdentities, SignedIn, Exists

\* A request reads, and nothing else happens.
LEMMA DecidedKeeps ==
    ASSUME AccountsInv, NEW c \in Callers, NEW t \in Tenants, MayRead(c, t), NEW w,
           Decided(c, w), IsTask(w), ReadingHolds(w)
    PROVE  AccountsInv' /\ TakenByTheirTenant
<1>1. /\ task' = [task EXCEPT ![c] = w]
      /\ tenants' = tenants /\ persons' = persons /\ accounts' = accounts
      /\ identity' = identity /\ session' = session /\ crossed' = crossed
  BY DEF Decided
<1>2. /\ DOMAIN task' = Callers /\ task'[c] = w /\ \A d \in Callers \ {c} : task'[d] = task[d]
  BY <1>1 DEF AccountsInv, AccountRows
<1>3. AccountRows' BY <1>1, <1>2 DEF AccountsInv, AccountRows, IsSession
<1>4. TasksMeant' BY <1>2 DEF AccountsInv, TasksMeant, IsTask
<1>5. TasksAlone'
  <2>1. ~crossed => \A d \in Callers : task[d] = None BY DEF MayRead
  <2>2. ReadingHolds(task[c])' BY <1>1, <1>2 DEF ReadingHolds
  <2> QED BY <1>1, <1>2, <2>1, <2>2 DEF TasksAlone
<1>6. NoAccountIsOrphan' /\ SessionsActAsIdentities'
  BY <1>1 DEF AccountsInv, NoAccountIsOrphan, SessionsActAsIdentities, Identities, SignedIn
<1> QED BY <1>1, <1>3, <1>4, <1>5, <1>6 DEF AccountsInv, TakenByTheirTenant

LEMMA ReadsKeep ==
    ASSUME AccountsInv, NEW c \in Callers, NEW t \in Tenants,
           ReadCreate(c, t) \/ ReadRelink(c, t) \/ ReadDetach(c, t) \/ ReadDelete(c, t)
             \/ ReadDeletePerson(c, t)
    PROVE  AccountsInv' /\ TakenByTheirTenant
<1>1. MayRead(c, t) BY DEF ReadCreate, ReadRelink, ReadDetach, ReadDelete, ReadDeletePerson
<1>2. /\ accounts \subseteq Logins /\ persons \subseteq Persons
      /\ identity \subseteq accounts \X persons
  BY DEF AccountsInv, AccountRows
<1>3. CASE ReadCreate(c, t)
  <2>1. PICK k \in Logins, p \in Persons :
        /\ Attachable(t, p, None)
        /\ Decided(c, Task(IF k \in accounts THEN "attach" ELSE "create", t, k, None, p))
    BY <1>3 DEF ReadCreate
  <2> DEFINE w == Task(IF k \in accounts THEN "attach" ELSE "create", t, k, None, p)
  <2>2. /\ w.op \in {"attach", "create"} /\ w.account = k /\ w.target = p /\ w.tenant = t
    BY DEF Task
  <2>3. TenantOf[p] = t BY <2>1 DEF Attachable
  <2>4. Decided(c, w) BY <2>1
  <2> HIDE DEF w
  <2>5. IsTask(w) /\ ReadingHolds(w) BY <2>2, <2>3 DEF IsTask, ReadingHolds
  <2> QED BY <1>1, <2>4, <2>5, DecidedKeeps
<1>4. CASE ReadRelink(c, t)
  <2>1. PICK k \in accounts : \E own \in IdentitiesIn(t, k), p \in Persons :
        /\ p # own /\ Attachable(t, p, k)
        /\ Decided(c, Task("relink", t, k, own, p))
    BY <1>4 DEF ReadRelink
  <2>a. PICK own \in IdentitiesIn(t, k), p \in Persons :
        /\ p # own /\ Attachable(t, p, k)
        /\ Decided(c, Task("relink", t, k, own, p))
    BY <2>1
  <2> DEFINE w == Task("relink", t, k, own, p)
  <2>2. w.op = "relink" /\ w.account = k /\ w.target = p /\ w.tenant = t /\ w.own = own
    BY DEF Task
  <2>3. TenantOf[p] = t BY <2>a DEF Attachable
  <2>4. own \in persons /\ TenantOf[own] = t /\ <<k, own>> \in identity
    BY DEF IdentitiesIn, Identities
  <2>5. Decided(c, w) BY <2>a
  <2> HIDE DEF w
  <2>6. IsTask(w) /\ ReadingHolds(w) BY <1>2, <2>2, <2>3, <2>4 DEF IsTask, ReadingHolds
  <2> QED BY <1>1, <2>5, <2>6, DecidedKeeps
<1>5. CASE ReadDetach(c, t)
  <2>1. PICK k \in accounts : \E own \in IdentitiesIn(t, k) :
        ~SoleTenant(t, k) /\ Decided(c, Task("detach", t, k, own, None))
    BY <1>5 DEF ReadDetach
  <2>a. PICK own \in IdentitiesIn(t, k) :
        ~SoleTenant(t, k) /\ Decided(c, Task("detach", t, k, own, None))
    BY <2>1
  <2> DEFINE w == Task("detach", t, k, own, None)
  <2>2. w.op = "detach" /\ w.account = k /\ w.tenant = t /\ w.own = own BY DEF Task
  <2>3. \E p \in persons : <<k, p>> \in identity /\ TenantOf[p] # t
    BY <2>a DEF SoleTenant, Identities
  <2>4. own \in persons /\ TenantOf[own] = t /\ <<k, own>> \in identity
    BY DEF IdentitiesIn, Identities
  <2>5. Decided(c, w) BY <2>a
  <2> HIDE DEF w
  <2>6. IsTask(w) /\ ReadingHolds(w) BY <1>2, <2>2, <2>3, <2>4 DEF IsTask, ReadingHolds
  <2> QED BY <1>1, <2>5, <2>6, DecidedKeeps
<1>6. CASE ReadDelete(c, t)
  <2>1. PICK k \in accounts : \E own \in IdentitiesIn(t, k) :
        SoleTenant(t, k) /\ Decided(c, Task("delete", t, k, own, None))
    BY <1>6 DEF ReadDelete
  <2>a. PICK own \in IdentitiesIn(t, k) :
        SoleTenant(t, k) /\ Decided(c, Task("delete", t, k, own, None))
    BY <2>1
  <2> DEFINE w == Task("delete", t, k, own, None)
  <2>2. w.op = "delete" /\ w.account = k /\ w.tenant = t BY DEF Task
  <2>3. \A p \in persons : <<k, p>> \in identity => TenantOf[p] = t
    BY <2>a DEF SoleTenant, Identities
  <2>5. Decided(c, w) BY <2>a
  <2> HIDE DEF w
  <2>6. IsTask(w) /\ ReadingHolds(w) BY <1>2, <2>2, <2>3 DEF IsTask, ReadingHolds
  <2> QED BY <1>1, <2>5, <2>6, DecidedKeeps
<1>7. CASE ReadDeletePerson(c, t)
  <2>1. PICK p \in persons :
        TenantOf[p] = t /\ LinkOf(p) = {} /\ Decided(c, Task("person", t, None, None, p))
    BY <1>7 DEF ReadDeletePerson
  <2> DEFINE w == Task("person", t, None, None, p)
  <2>2. w.op = "person" /\ w.target = p /\ w.tenant = t BY DEF Task
  <2>3. \A k \in accounts : <<k, p>> \notin identity BY <2>1 DEF LinkOf
  <2>5. Decided(c, w) BY <2>1
  <2> HIDE DEF w
  <2>6. IsTask(w) /\ ReadingHolds(w) BY <1>2, <2>1, <2>2, <2>3 DEF IsTask, ReadingHolds
  <2> QED BY <1>1, <2>5, <2>6, DecidedKeeps
<1> QED BY <1>3, <1>4, <1>5, <1>6, <1>7

\* A request that has written is gone: its task was its own, one at a time.
LEMMA DoneKeepsTasks ==
    ASSUME AccountsInv, NEW c \in Callers, task[c] # None, Done(c), crossed' = crossed
    PROVE  DOMAIN task' = Callers /\ TasksMeant' /\ TasksAlone'
<1>1. /\ DOMAIN task' = Callers /\ task'[c] = None
      /\ \A d \in Callers \ {c} : task'[d] = task[d]
  BY DEF Done, AccountsInv, AccountRows
<1>2. TasksMeant' BY <1>1 DEF AccountsInv, TasksMeant, IsTask
<1>3. ~crossed => \A d \in Callers : task'[d] = None BY <1>1 DEF AccountsInv, TasksAlone
<1> QED BY <1>1, <1>2, <1>3 DEF TasksAlone

\* Sessions that were signed in and are none of those that go.
LEMMA LinkKeeps ==
    ASSUME AccountsInv, NEW c \in Callers, WriteLink(c)
    PROVE  AccountsInv' /\ TakenByTheirTenant
<1> DEFINE w == task[c]
<1>1. /\ w # None /\ w.op \in {"create", "attach"} /\ Done(c)
      /\ IF /\ w.target \in persons /\ LinkOf(w.target) = {}
            /\ w.op = "create" <=> w.account \notin accounts
         THEN /\ accounts' = accounts \cup {w.account}
              /\ identity' = identity \cup {<<w.account, w.target>>}
         ELSE UNCHANGED <<accounts, identity>>
      /\ UNCHANGED <<tenants, persons, session, crossed>>
  BY DEF WriteLink, Doing, Exists
<1>2. IsTask(w) BY <1>1 DEF AccountsInv, TasksMeant
<1>3. DOMAIN task' = Callers /\ TasksMeant' /\ TasksAlone' BY <1>1, DoneKeepsTasks
<1> HIDE DEF w
<1>4. w.account \in Logins BY <1>1, <1>2 DEF IsTask
<1>5. /\ accounts \subseteq accounts' /\ accounts' \subseteq Logins /\ identity \subseteq identity'
      /\ identity' \subseteq accounts' \X persons
      /\ \A i, j \in identity' : i[2] = j[2] => i = j
  <2>1. CASE UNCHANGED <<accounts, identity>> BY <2>1 DEF AccountsInv, AccountRows
  <2>2. CASE /\ w.target \in persons /\ LinkOf(w.target) = {}
             /\ accounts' = accounts \cup {w.account}
             /\ identity' = identity \cup {<<w.account, w.target>>}
    <3>1. \A i \in identity : i[2] # w.target
      BY <2>2 DEF LinkOf, AccountsInv, AccountRows
    <3> QED BY <1>4, <2>2, <3>1 DEF AccountsInv, AccountRows
  <2> QED BY <1>1, <2>1, <2>2
<1>6. AccountRows'
  BY <1>1, <1>3, <1>5 DEF AccountsInv, AccountRows, IsSession
<1>7. NoAccountIsOrphan'
  <2>1. CASE UNCHANGED <<accounts, identity>>
    BY <1>1, <2>1 DEF AccountsInv, NoAccountIsOrphan, Identities
  <2>2. CASE /\ w.target \in persons
             /\ accounts' = accounts \cup {w.account}
             /\ identity' = identity \cup {<<w.account, w.target>>}
    BY <1>1, <2>2 DEF AccountsInv, NoAccountIsOrphan, Identities
  <2> QED BY <1>1, <2>1, <2>2
<1>8. SessionsActAsIdentities'
  BY <1>1, <1>5 DEF AccountsInv, SessionsActAsIdentities, SignedIn
<1> QED BY <1>3, <1>5, <1>6, <1>7, <1>8 DEF AccountsInv, TakenByTheirTenant

\* The sessions of one account as one person end: for relink and detach.
EndedFor(k, p) == \A s \in Cookies : session'[s] = IF session[s] # None /\ session[s] = Acts(k, p)
                                                   THEN None ELSE session[s]

LEMMA EndedForIs ==
    ASSUME NEW k, NEW p, session' = Without(LAMBDA s : s = Acts(k, p))
    PROVE  DOMAIN session' = Cookies /\ EndedFor(k, p)
BY DEF Without, SignedIn, Exists, EndedFor

LEMMA RelinkKeeps ==
    ASSUME AccountsInv, NEW c \in Callers, WriteRelink(c)
    PROVE  AccountsInv' /\ TakenByTheirTenant
<1> DEFINE w == task[c]
<1>1. /\ w # None /\ w.op = "relink" /\ Done(c)
      /\ IF <<w.account, w.own>> \in identity /\ w.target \in persons /\ LinkOf(w.target) = {}
         THEN /\ identity' = (identity \ {<<w.account, w.own>>}) \cup {<<w.account, w.target>>}
              /\ session' = Without(LAMBDA s : s = Acts(w.account, w.own))
         ELSE UNCHANGED <<identity, session>>
      /\ UNCHANGED <<tenants, persons, accounts, crossed>>
  BY DEF WriteRelink, Doing, Exists
<1>2. IsTask(w) BY <1>1 DEF AccountsInv, TasksMeant
<1>3. DOMAIN task' = Callers /\ TasksMeant' /\ TasksAlone' BY <1>1, DoneKeepsTasks
<1>4. CASE UNCHANGED <<identity, session>>
  <2>1. AccountRows' BY <1>1, <1>3, <1>4 DEF AccountsInv, AccountRows, IsSession
  <2>2. NoAccountIsOrphan' /\ SessionsActAsIdentities'
    BY <1>1, <1>4 DEF AccountsInv, NoAccountIsOrphan, SessionsActAsIdentities, Identities, SignedIn
  <2> QED BY <1>3, <1>4, <2>1, <2>2 DEF AccountsInv, TakenByTheirTenant
<1>5. CASE /\ <<w.account, w.own>> \in identity /\ w.target \in persons /\ LinkOf(w.target) = {}
           /\ identity' = (identity \ {<<w.account, w.own>>}) \cup {<<w.account, w.target>>}
           /\ session' = Without(LAMBDA s : s = Acts(w.account, w.own))
  <2>1. DOMAIN session' = Cookies /\ EndedFor(w.account, w.own) BY <1>5, EndedForIs
  <2>2. \A i \in identity : i[2] # w.target
    BY <1>5 DEF LinkOf, AccountsInv, AccountRows
  <2>3. w.account \in accounts BY <1>5 DEF AccountsInv, AccountRows
  <2>4. TenantOf[w.own] = w.tenant /\ task[c] = w /\ task[c] # None BY <1>1, <1>2 DEF IsTask
  <2> HIDE DEF w
  <2>5. AccountRows'
    <3>1. \A i, j \in identity' : i[2] = j[2] => i = j
      BY <1>5, <2>2 DEF AccountsInv, AccountRows
    <3>2. identity' \subseteq accounts \X persons BY <1>5, <2>3 DEF AccountsInv, AccountRows
    <3>3. \A s \in Cookies : session'[s] # None => session'[s] = session[s]
      BY <2>1 DEF EndedFor
    <3> QED BY <1>1, <1>3, <2>1, <3>1, <3>2, <3>3 DEF AccountsInv, AccountRows, IsSession
  <2>6. NoAccountIsOrphan'
    <3>1. \A k \in accounts : k # w.account => Identities(k)' = Identities(k)
      BY <1>1, <1>5 DEF Identities
    <3>2. \A k : k = w.account => w.target \in Identities(k)' BY <1>1, <1>5 DEF Identities
    <3> SUFFICES ASSUME ~crossed, NEW k \in accounts PROVE Identities(k)' # {}
      BY <1>1 DEF NoAccountIsOrphan
    <3>3. Identities(k) # {} BY DEF AccountsInv, NoAccountIsOrphan
    <3> QED BY <3>1, <3>2, <3>3
  <2>7. SessionsActAsIdentities'
    <3> SUFFICES ASSUME ~crossed, NEW s \in Cookies, session'[s] # None, session'[s].person # None
                 PROVE  <<session'[s].account, session'[s].person>> \in identity'
      BY <1>1 DEF SessionsActAsIdentities, SignedIn, Exists
    <3>1. session'[s] = session[s] /\ session[s] # Acts(w.account, w.own) BY <2>1 DEF EndedFor
    <3>2. /\ <<session[s].account, session[s].person>> \in identity
          /\ session[s] = [account |-> session[s].account, person |-> session[s].person]
      BY <3>1 DEF AccountsInv, SessionsActAsIdentities, SignedIn, Exists, AccountRows, IsSession
    <3>3. <<session[s].account, session[s].person>> # <<w.account, w.own>> BY <3>1, <3>2 DEF Acts
    <3> QED BY <1>5, <3>1, <3>2, <3>3
  <2>8. TakenByTheirTenant
    <3>1. \A i \in identity \ identity' : i = <<w.account, w.own>> BY <1>5
    <3>2. Exists(task[c]) /\ task[c].tenant = w.tenant BY <1>1, <2>4 DEF Exists
    <3>3. \A i \in identity \ identity' : TenantOf[i[2]] = task[c].tenant BY <2>4, <3>1, <3>2
    <3> QED BY <3>2, <3>3 DEF TakenByTheirTenant
  <2> QED BY <1>3, <2>5, <2>6, <2>7, <2>8 DEF AccountsInv
<1> QED BY <1>1, <1>4, <1>5

LEMMA DetachKeeps ==
    ASSUME AccountsInv, NEW c \in Callers, WriteDetach(c)
    PROVE  AccountsInv' /\ TakenByTheirTenant
<1> DEFINE w == task[c]
<1>1. /\ w # None /\ w.op = "detach" /\ Done(c)
      /\ identity' = identity \ {<<w.account, w.own>>}
      /\ session' = IF <<w.account, w.own>> \in identity
                    THEN Without(LAMBDA s : s = Acts(w.account, w.own)) ELSE session
      /\ UNCHANGED <<tenants, persons, accounts, crossed>>
  BY DEF WriteDetach, Doing, Exists
<1>2. IsTask(w) BY <1>1 DEF AccountsInv, TasksMeant
<1>3. DOMAIN task' = Callers /\ TasksMeant' /\ TasksAlone' BY <1>1, DoneKeepsTasks
<1>4. /\ DOMAIN session' = Cookies
      /\ \A s \in Cookies : \/ session'[s] = None
                            \/ /\ session'[s] = session[s]
                               /\ <<w.account, w.own>> \in identity =>
                                     session[s] # Acts(w.account, w.own)
  <2>1. CASE <<w.account, w.own>> \in identity
    <3>1. DOMAIN session' = Cookies /\ EndedFor(w.account, w.own) BY <1>1, <2>1, EndedForIs
    <3> QED BY <3>1 DEF EndedFor
  <2>2. CASE <<w.account, w.own>> \notin identity
    BY <1>1, <2>2 DEF AccountsInv, AccountRows
  <2> QED BY <2>1, <2>2
<1>5. TenantOf[w.own] = w.tenant BY <1>1, <1>2 DEF IsTask
<1>6. ~crossed => ReadingHolds(w) BY <1>1 DEF AccountsInv, TasksAlone
<1>7. Exists(task[c]) /\ task[c].tenant = w.tenant BY <1>1 DEF Exists
<1> HIDE DEF w
<1>8. AccountRows' BY <1>1, <1>3, <1>4 DEF AccountsInv, AccountRows, IsSession
<1>9. NoAccountIsOrphan'
  <2> SUFFICES ASSUME ~crossed, NEW k \in accounts PROVE Identities(k)' # {}
    BY <1>1 DEF NoAccountIsOrphan
  <2>1. CASE k # w.account
    BY <1>1, <2>1 DEF AccountsInv, NoAccountIsOrphan, Identities
  <2>2. CASE k = w.account
    <3>1. PICK p \in persons : <<k, p>> \in identity /\ TenantOf[p] # w.tenant
      BY <1>1, <1>6, <2>2 DEF ReadingHolds
    <3>2. p # w.own BY <1>5, <3>1
    <3> QED BY <1>1, <3>1, <3>2 DEF Identities
  <2> QED BY <2>1, <2>2
<1>10. SessionsActAsIdentities'
  <2> SUFFICES ASSUME ~crossed, NEW s \in Cookies, session'[s] # None, session'[s].person # None
               PROVE  <<session'[s].account, session'[s].person>> \in identity'
    BY <1>1 DEF SessionsActAsIdentities, SignedIn, Exists
  <2>1. session'[s] = session[s] /\ session[s] # Acts(w.account, w.own)
    BY <1>1, <1>4, <1>6 DEF ReadingHolds
  <2>2. /\ <<session[s].account, session[s].person>> \in identity
        /\ session[s] = [account |-> session[s].account, person |-> session[s].person]
    BY <2>1 DEF AccountsInv, SessionsActAsIdentities, SignedIn, Exists, AccountRows, IsSession
  <2>3. <<session[s].account, session[s].person>> # <<w.account, w.own>> BY <2>1, <2>2 DEF Acts
  <2> QED BY <1>1, <2>1, <2>2, <2>3
<1>11. TakenByTheirTenant
  <2>1. \A i \in identity \ identity' : i = <<w.account, w.own>> BY <1>1
  <2> QED BY <1>5, <1>7, <2>1 DEF TakenByTheirTenant
<1> QED BY <1>3, <1>8, <1>9, <1>10, <1>11 DEF AccountsInv

LEMMA DeleteKeeps ==
    ASSUME AccountsInv, NEW c \in Callers, WriteDelete(c)
    PROVE  AccountsInv' /\ TakenByTheirTenant
<1>1. /\ task[c] # None /\ task[c].op = "delete" /\ Done(c)
      /\ UNCHANGED <<tenants, persons, crossed>>
  BY DEF WriteDelete, Doing, Exists
<1>2. PICK k : k = task[c].account OBVIOUS
<1>3. /\ accounts' = accounts \ {k}
      /\ identity' = {i \in identity : i[1] # k}
      /\ session' = Without(LAMBDA s : s.account = k)
  BY <1>2 DEF WriteDelete
<1>4. DOMAIN task' = Callers /\ TasksMeant' /\ TasksAlone' BY <1>1, DoneKeepsTasks
<1>5. /\ DOMAIN session' = Cookies
      /\ \A s \in Cookies : session'[s] # None =>
            session'[s] = session[s] /\ session[s].account # k
  BY <1>3 DEF Without, SignedIn, Exists
<1>6. AccountRows' BY <1>1, <1>3, <1>4, <1>5 DEF AccountsInv, AccountRows, IsSession
<1>7. NoAccountIsOrphan'
  <2>1. \A l \in accounts \ {k} : Identities(l)' = Identities(l) BY <1>1, <1>3 DEF Identities
  <2> QED BY <1>1, <1>3, <2>1 DEF AccountsInv, NoAccountIsOrphan
<1>8. SessionsActAsIdentities'
  <2> SUFFICES ASSUME ~crossed, NEW s \in Cookies, session'[s] # None, session'[s].person # None
               PROVE  <<session'[s].account, session'[s].person>> \in identity'
    BY <1>1 DEF SessionsActAsIdentities, SignedIn, Exists
  <2>1. session'[s] = session[s] /\ session[s].account # k BY <1>5
  <2>2. <<session[s].account, session[s].person>> \in identity
    BY <2>1 DEF AccountsInv, SessionsActAsIdentities, SignedIn, Exists
  <2> QED BY <1>3, <2>1, <2>2
<1>9. TakenByTheirTenant
  <2>1. ~crossed => ReadingHolds(task[c]) BY <1>1 DEF AccountsInv, TasksAlone
  <2>2. ~crossed => \A p \in persons : <<k, p>> \in identity => TenantOf[p] = task[c].tenant
    BY <1>1, <1>2, <2>1 DEF ReadingHolds
  <2>3. \A i \in identity \ identity' : i[2] \in persons /\ i = <<k, i[2]>>
    BY <1>3 DEF AccountsInv, AccountRows
  <2> QED BY <1>1, <2>2, <2>3 DEF TakenByTheirTenant, Exists
<1> QED BY <1>4, <1>6, <1>7, <1>8, <1>9 DEF AccountsInv

LEMMA DeletePersonOfTenantKeeps ==
    ASSUME AccountsInv, NEW c \in Callers, WriteDeletePerson(c)
    PROVE  AccountsInv' /\ TakenByTheirTenant
<1>1. /\ task[c] # None /\ task[c].op = "person" /\ Done(c)
      /\ UNCHANGED <<tenants, accounts, crossed>>
  BY DEF WriteDeletePerson, Doing, Exists
<1>2. PICK p : p = task[c].target OBVIOUS
<1>3. /\ persons' = persons \ {p}
      /\ identity' = {i \in identity : i[2] # p}
      /\ session' = Without(LAMBDA s : s.person = p)
  BY <1>2 DEF WriteDeletePerson
<1>4. DOMAIN task' = Callers /\ TasksMeant' /\ TasksAlone' BY <1>1, DoneKeepsTasks
<1>5. /\ DOMAIN session' = Cookies
      /\ \A s \in Cookies : session'[s] # None =>
            session'[s] = session[s] /\ session[s].person # p
  BY <1>3 DEF Without, SignedIn, Exists
<1>6. AccountRows' BY <1>1, <1>3, <1>4, <1>5 DEF AccountsInv, AccountRows, IsSession
<1>a. ~crossed => \A i \in identity : i[2] # p
  <2>1. ~crossed => ReadingHolds(task[c]) BY <1>1 DEF AccountsInv, TasksAlone
  <2>2. ~crossed => \A k \in accounts : <<k, p>> \notin identity
    BY <1>1, <1>2, <2>1 DEF ReadingHolds
  <2> QED BY <2>2 DEF AccountsInv, AccountRows
<1>7. NoAccountIsOrphan'
  <2>1. ~crossed => \A l \in accounts : Identities(l)' = Identities(l)
    BY <1>1, <1>3, <1>a DEF Identities
  <2> QED BY <1>1, <1>3, <2>1 DEF AccountsInv, NoAccountIsOrphan
<1>8. SessionsActAsIdentities'
  <2> SUFFICES ASSUME ~crossed, NEW s \in Cookies, session'[s] # None, session'[s].person # None
               PROVE  <<session'[s].account, session'[s].person>> \in identity'
    BY <1>1 DEF SessionsActAsIdentities, SignedIn, Exists
  <2>1. session'[s] = session[s] BY <1>5
  <2>2. <<session[s].account, session[s].person>> \in identity
    BY <2>1 DEF AccountsInv, SessionsActAsIdentities, SignedIn, Exists
  <2> QED BY <1>3, <1>a, <2>1, <2>2
<1>9. TakenByTheirTenant BY <1>3, <1>a DEF TakenByTheirTenant
<1> QED BY <1>4, <1>6, <1>7, <1>8, <1>9 DEF AccountsInv

\* A tenant goes with its people; accounts that act elsewhere stay, the others
\* go, and no request of the tenant goes on.
LEMMA EraseKeeps ==
    ASSUME AccountsInv, NEW t \in Tenants, EraseTenant(t)
    PROVE  AccountsInv' /\ TakenByTheirTenant
<1> DEFINE held == {k \in accounts : IdentitiesIn(t, k) # {}}
           gone == {k \in held : SoleTenant(t, k)}
<1>1. /\ Quiet /\ t \in tenants
      /\ accounts' = accounts \ gone
      /\ session' = Without(LAMBDA s : s.account \in gone
                                       \/ (Exists(s.person) /\ TenantOf[s.person] = t))
      /\ tenants' = tenants \ {t}
      /\ persons' = {p \in persons : TenantOf[p] # t}
      /\ identity' = {i \in identity : TenantOf[i[2]] # t}
      /\ task' = [c \in Callers |-> IF Exists(task[c]) /\ task[c].tenant = t THEN None ELSE task[c]]
      /\ crossed' = crossed
  BY DEF EraseTenant
<1>2. \A k \in gone, p \in persons : <<k, p>> \in identity => TenantOf[p] = t
  BY DEF SoleTenant, Identities
<1>3. \A k \in accounts \ gone :
          \/ \A p \in persons : <<k, p>> \in identity => TenantOf[p] # t
          \/ \E p \in persons : <<k, p>> \in identity /\ TenantOf[p] # t
  BY DEF SoleTenant, Identities, IdentitiesIn
<1> HIDE DEF held, gone
<1>4. /\ DOMAIN session' = Cookies
      /\ \A s \in Cookies : session'[s] # None =>
            /\ session'[s] = session[s] /\ session[s].account \notin gone
            /\ session[s].person # None => TenantOf[session[s].person] # t
  BY <1>1 DEF Without, SignedIn, Exists
<1>5. AccountRows'
  <2>1. identity' \subseteq accounts' \X persons' BY <1>1, <1>2 DEF AccountsInv, AccountRows
  <2>2. \A s \in Cookies : session'[s] # None => IsSession(session[s])'
    <3> SUFFICES ASSUME NEW s \in Cookies, session'[s] # None PROVE IsSession(session[s])'
      OBVIOUS
    <3>1. session'[s] = session[s] /\ IsSession(session[s])
      BY <1>4 DEF AccountsInv, AccountRows
    <3>2. session[s].account \in accounts' BY <1>1, <1>4, <3>1 DEF IsSession
    <3>3. session[s].person \in persons' \cup {None} BY <1>1, <1>4, <3>1 DEF IsSession
    <3> QED BY <3>1, <3>2, <3>3 DEF IsSession
  <2>3. \A p \in persons' : TenantOf[p] \in tenants' BY <1>1 DEF AccountsInv, AccountRows
  <2>4. \A i, j \in identity' : i[2] = j[2] => i = j BY <1>1 DEF AccountsInv, AccountRows
  <2> QED BY <1>1, <1>4, <2>1, <2>2, <2>3, <2>4 DEF AccountsInv, AccountRows
<1>6. TasksMeant' BY <1>1 DEF AccountsInv, TasksMeant, IsTask
<1>7. TasksAlone' BY <1>1 DEF TasksAlone, Quiet, Exists
<1>8. NoAccountIsOrphan'
  <2> SUFFICES ASSUME ~crossed, NEW k \in accounts \ gone PROVE Identities(k)' # {}
    BY <1>1 DEF NoAccountIsOrphan
  <2>1. PICK p \in persons : <<k, p>> \in identity /\ TenantOf[p] # t
    <3>1. PICK q \in persons : <<k, q>> \in identity
      BY DEF AccountsInv, NoAccountIsOrphan, Identities
    <3> QED BY <1>3, <3>1
  <2> QED BY <1>1, <2>1 DEF Identities
<1>9. SessionsActAsIdentities'
  <2> SUFFICES ASSUME ~crossed, NEW s \in Cookies, session'[s] # None, session'[s].person # None
               PROVE  <<session'[s].account, session'[s].person>> \in identity'
    BY <1>1 DEF SessionsActAsIdentities, SignedIn, Exists
  <2>1. session'[s] = session[s] /\ TenantOf[session[s].person] # t BY <1>4
  <2>2. <<session[s].account, session[s].person>> \in identity
    BY <2>1 DEF AccountsInv, SessionsActAsIdentities, SignedIn, Exists
  <2> QED BY <1>1, <2>1, <2>2
<1>10. TakenByTheirTenant BY <1>1 DEF TakenByTheirTenant
<1> QED BY <1>5, <1>6, <1>7, <1>8, <1>9, <1>10 DEF AccountsInv

\* Signing in and out and choosing whom to act as change sessions only.
LEMMA SessionsKeep ==
    ASSUME AccountsInv, NEW s \in Cookies, SignIn(s) \/ SelectTenant(s) \/ SignOut(s)
    PROVE  AccountsInv' /\ TakenByTheirTenant
<1>1. UNCHANGED <<tenants, persons, accounts, identity, task, crossed>>
  BY DEF SignIn, SelectTenant, SignOut
<1>2. /\ DOMAIN session' = Cookies /\ \A o \in Cookies \ {s} : session'[o] = session[o]
      /\ session'[s] # None =>
            /\ IsSession(session'[s])
            /\ session'[s].person # None =>
                  <<session'[s].account, session'[s].person>> \in identity
  <2>1. CASE SignIn(s)
    <3>1. PICK k \in accounts : \E p \in Identities(k) \cup {None} :
              session' = [session EXCEPT ![s] = Acts(k, p)]
      BY <2>1 DEF SignIn
    <3>2. PICK p \in Identities(k) \cup {None} : session' = [session EXCEPT ![s] = Acts(k, p)]
      BY <3>1
    <3> QED BY <3>2 DEF AccountsInv, AccountRows, IsSession, Acts, Identities
  <2>2. CASE SelectTenant(s)
    <3>1. PICK p \in Identities(session[s].account) : session' = [session EXCEPT ![s].person = p]
      BY <2>2 DEF SelectTenant
    <3>2. IsSession(session[s])
      BY <2>2 DEF SelectTenant, SignedIn, Exists, AccountsInv, AccountRows
    <3>3. session'[s] = [account |-> session[s].account, person |-> p]
      BY <3>1, <3>2 DEF IsSession, AccountsInv, AccountRows
    <3> QED BY <3>1, <3>2, <3>3 DEF AccountsInv, AccountRows, IsSession, Identities
  <2>3. CASE SignOut(s) BY <2>3 DEF SignOut, AccountsInv, AccountRows
  <2> QED BY <2>1, <2>2, <2>3
<1>3. AccountRows' BY <1>1, <1>2 DEF AccountsInv, AccountRows, IsSession
<1>4. TasksMeant' /\ TasksAlone'
  BY <1>1 DEF AccountsInv, TasksMeant, IsTask, TasksAlone, ReadingHolds
<1>5. NoAccountIsOrphan' BY <1>1 DEF AccountsInv, NoAccountIsOrphan, Identities
<1>6. SessionsActAsIdentities'
  BY <1>1, <1>2 DEF AccountsInv, SessionsActAsIdentities, SignedIn, Exists
<1> QED BY <1>1, <1>3, <1>4, <1>5, <1>6 DEF AccountsInv, TakenByTheirTenant

LEMMA AccountsStep ==
    ASSUME AccountsInv, [AccountsNext]_accountVars
    PROVE  AccountsInv' /\ [TakenByTheirTenant]_accountVars
<1>1. CASE UNCHANGED accountVars
  <2>1. UNCHANGED <<tenants, persons, accounts, identity, session, task, crossed>>
    BY <1>1 DEF accountVars
  <2>2. AccountRows' BY <2>1 DEF AccountsInv, AccountRows, IsSession
  <2>3. TasksMeant' /\ TasksAlone'
    BY <2>1 DEF AccountsInv, TasksMeant, IsTask, TasksAlone, ReadingHolds
  <2>4. NoAccountIsOrphan' /\ SessionsActAsIdentities'
    BY <2>1 DEF AccountsInv, NoAccountIsOrphan, SessionsActAsIdentities, Identities, SignedIn
  <2> QED BY <1>1, <2>2, <2>3, <2>4 DEF AccountsInv
<1>2. CASE AccountsNext
  BY <1>2, ReadsKeep, LinkKeeps, RelinkKeeps, DetachKeeps, DeleteKeeps,
     DeletePersonOfTenantKeeps, EraseKeeps, SessionsKeep DEF AccountsNext
<1> QED BY <1>1, <1>2

\* What requests know of an account is so, and no two people share a link.
THEOREM AccountsInvariance == AccountsSpec => []AccountsInv
BY AccountsBegin, AccountsStep, PTL DEF AccountsSpec

\* Links and sessions name accounts and people there are and a person has one
\* login at most, however requests overlap.
THEOREM AccountsTyped == AccountsSpec => []AccountsTypeOK
<1>1. AccountsInv => AccountsTypeOK
  <2> SUFFICES ASSUME AccountsInv PROVE AccountsTypeOK OBVIOUS
  <2>1. ASSUME NEW p \in persons PROVE Cardinality(LinkOf(p)) <= 1
    <3>1. CASE LinkOf(p) = {} BY <3>1, FS_EmptySet
    <3>2. CASE LinkOf(p) # {}
      <4>1. PICK k : k \in LinkOf(p) BY <3>2
      <4>2. LinkOf(p) = {k} BY <4>1 DEF LinkOf, AccountsInv, AccountRows
      <4>3. Cardinality({k}) = 1 BY FS_Singleton
      <4> QED BY <4>2, <4>3
    <3> QED BY <3>1, <3>2
  <2>2. \A s \in SignedIn :
          session[s].account \in accounts /\ session[s].person \in persons \cup {None}
    BY DEF AccountsInv, AccountRows, SignedIn, Exists, IsSession
  <2> QED BY <2>1, <2>2 DEF AccountsInv, AccountRows, AccountsTypeOK
<1> QED BY <1>1, AccountsInvariance, PTL

\* Requests one at a time: an account always acts as somebody, a session only as
\* whom its account acts as, and no tenant takes a login from a person of
\* another, for any tenants, people and accounts (accountAdmin.ts).
THEOREM LoginsOwned == AccountsSpec => LoginsStayOwned
<1>1. AccountsInv => NoAccountIsOrphan /\ SessionsActAsIdentities BY DEF AccountsInv
<1>2. TakenByTheirTenant =>
        (~crossed => \A i \in identity \ identity' :
            \/ TenantOf[i[2]] \notin tenants'
            \/ \E c \in Callers : Exists(task[c]) /\ task[c].tenant = TenantOf[i[2]])
  BY DEF TakenByTheirTenant
<1> QED BY <1>1, <1>2, AccountsInvariance, AccountsStep, PTL
      DEF AccountsSpec, LoginsStayOwned, OthersKeepTheirLogin

-----------------------------------------------------------------------------
(***************************************************************************)
(* All of them                                                             *)
(***************************************************************************)
\* Whichever part a behaviour of the run follows, it is a behaviour of each.
LEMMA CampusFollows ==
    CampusSpec => GroupsSpec /\ RoomsSpec /\ SeriesSpec /\ RolesSpec /\ AccountsSpec
<1>1. CampusInit => GroupsInit /\ RoomsInit /\ SeriesInit /\ RolesInit /\ AccountsInit
  BY DEF CampusInit
<1>2. [CampusNext]_<<groupVars, roomVars, seriesVars, roleVars, accountVars, focus>>
        => [GroupsNext]_groupVars
  BY DEF CampusNext
<1>3. [CampusNext]_<<groupVars, roomVars, seriesVars, roleVars, accountVars, focus>>
        => [RoomsNext]_roomVars
  BY DEF CampusNext, RoomsNext
<1>4. [CampusNext]_<<groupVars, roomVars, seriesVars, roleVars, accountVars, focus>>
        => [SeriesNext]_seriesVars
  BY DEF CampusNext
<1>5. [CampusNext]_<<groupVars, roomVars, seriesVars, roleVars, accountVars, focus>>
        => [RolesNext]_roleVars
  BY DEF CampusNext
<1>6. [CampusNext]_<<groupVars, roomVars, seriesVars, roleVars, accountVars, focus>>
        => [AccountsNext]_accountVars
  BY DEF CampusNext
<1>7. CampusSpec => GroupsSpec BY <1>1, <1>2, PTL DEF CampusSpec, GroupsSpec
<1>8. CampusSpec => RoomsSpec BY <1>1, <1>3, PTL DEF CampusSpec, RoomsSpec
<1>9. CampusSpec => SeriesSpec BY <1>1, <1>4, PTL DEF CampusSpec, SeriesSpec
<1>10. CampusSpec => RolesSpec BY <1>1, <1>5, PTL DEF CampusSpec, RolesSpec
<1>11. CampusSpec => AccountsSpec BY <1>1, <1>6, PTL DEF CampusSpec, AccountsSpec
<1> QED BY <1>7, <1>8, <1>9, <1>10, <1>11

\* Rows refer to rows there are, in every behaviour the run follows and for all
\* values of the constants: the foreign keys, cascades and triggers of the schema
\* (prisma/migrations) against requests that overlap.
THEOREM CampusTyped == CampusSpec => []CampusTypeOK
<1>1. CampusTypeOK <=> GroupsTypeOK /\ RoomsTypeOK /\ SeriesTypeOK /\ RolesTypeOK /\ AccountsTypeOK
  BY DEF CampusTypeOK
<1> QED BY <1>1, CampusFollows, GroupsTyped, RoomsTyped, SeriesTyped, RolesTyped, AccountsTyped, PTL

=============================================================================
