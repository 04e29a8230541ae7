-------------------------- MODULE SessionEditProofs --------------------------
(***************************************************************************)
(* Proofs about SessionEdit, for any number of sessions, rooms, people and *)
(* requests in flight.                                                     *)
(*                                                                         *)
(* EditInv says what each transaction has read, wants and has written;     *)
(* every step of the database is one of eight (StepIs) and keeps it.       *)
(* LogInv ties an open transaction to the event it has appended. OrderInv  *)
(* says what a transaction still knows of rows it read and how far two     *)
(* that write the same row keep apart; from it and LogInv follows that an  *)
(* uncommitted event is the last word on the columns it names (ReplayInv). *)
(* BankInv follows what a request finds out when there is no other.        *)
(***************************************************************************)
EXTENDS SessionEdit, FiniteSetTheorems, SequenceTheorems, TLAPS

-----------------------------------------------------------------------------
(***************************************************************************)
(* Transactions, each for itself                                           *)
(***************************************************************************)
Images == UNION {[D -> Row] : D \in SUBSET Sessions}

Tx == [pc: {"idle", "read", "write", "log", "detect", "record", "commit"},
       kind: EventTypes, ids: Seq(Sessions), read: Images, goal: Images,
       columns: SUBSET Columns, written: SUBSET Sessions, involved: SUBSET Sessions,
       found: SUBSET (Rules \X Sessions), cleared: SUBSET (Rules \X Sessions)]

\* No placement runs past the end of its day.
InGrid(row) == IsPlaced(row) => row.place[2] + row.length <= Blocks

\* What a handler of some kind has decided about a row it read as old.
Decision(kind, columns, old, new) ==
    /\ kind = "MOVE" =>
         /\ columns \in {{"place", "length"}, {"place", "length", "rooms"}}
         /\ IsPlaced(new)
         /\ "rooms" \notin columns => new.rooms = old.rooms
    /\ kind = "SWAP" => columns = {"place", "length"} /\ IsPlaced(new)
    /\ kind = "BANK" => columns = {"place"} /\ new.place = Bank /\ ~old.locked
    /\ kind = "LOCK" => columns = {"locked"} /\ IsPlaced(old)
    /\ kind = "UNLOCK" => columns = {"locked"} /\ ~new.locked
    /\ kind \in {"SET_LECTURERS", "UPDATE_DETAILS"} => columns = {"people"}
    /\ kind = "SUBSTITUTE" => columns = {"cover"}
    /\ kind = "CREATE" => columns = Columns /\ IsPlaced(new)
    /\ kind = "DELETE" => columns = Columns /\ new.place = Gone

\* One session, or the two of a swap.
NamesRows(t) ==
    \/ \E s \in Sessions : t.ids = <<s>> /\ DOMAIN t.goal = {s}
    \/ \E s, o \in Sessions : /\ s # o /\ t.kind = "SWAP"
                              /\ t.ids = <<s, o>> /\ DOMAIN t.goal = {s, o}

\* A swap that has read one of its sessions.
Reading(t) ==
    /\ t.pc = "read" /\ t.kind = "SWAP" /\ t.written = {} /\ t.goal = <<>> /\ t.columns = {}
    /\ t.found = {} /\ t.cleared = {}
    /\ \E s, o \in Sessions : /\ s # o /\ t.ids = <<s, o>>
                              /\ DOMAIN t.read = {s} /\ InGrid(t.read[s])

\* A transaction that knows what it wants: a deletion logs before it writes, all
\* others write before they log.
Editing(t) ==
    /\ t.pc \notin {"idle", "read"}
    /\ NamesRows(t)
    /\ DOMAIN t.read = DOMAIN t.goal
    /\ \A s \in DOMAIN t.goal : /\ InGrid(t.read[s]) /\ InGrid(t.goal[s])
                                /\ Decision(t.kind, t.columns, t.read[s], t.goal[s])
    /\ t.kind = "DELETE" => t.pc \in {"log", "write", "commit"}
    /\ t.pc = "write" => t.written = {} \/ (Len(t.ids) = 2 /\ t.written = {t.ids[1]})
    /\ t.pc = "log" /\ t.kind = "DELETE" => t.written = {}
    /\ t.pc = "log" /\ t.kind # "DELETE" => t.written = DOMAIN t.goal
    /\ t.pc \in {"detect", "record", "commit"} => t.written = DOMAIN t.goal

Shape(t) == t = NoTx \/ Reading(t) \/ Editing(t)

EditInv ==
    /\ session \in [Sessions -> Row]
    /\ \A s \in Sessions : InGrid(session[s])
    /\ recorded \subseteq Rules \X Sessions
    /\ tx \in [Editors -> Tx]
    /\ \A e \in Editors : Shape(tx[e])
    /\ alone \in BOOLEAN

\* The columns of a row, and what they hold.
LEMMA RowFields ==
    ASSUME NEW r \in Row
    PROVE  /\ DOMAIN r = Columns
           /\ r.place \in Slots \cup {Bank, Gone} /\ r.length \in Lengths
           /\ r.locked \in BOOLEAN /\ r.rooms \in SUBSET Rooms
           /\ r.people \in [People -> {"none", "attendee", "lecturer"}]
           /\ r.cover \in People \cup {None}
BY DEF Row, Columns

\* What makes a row.
LEMMA IsRow ==
    ASSUME NEW r, r = [c \in Columns |-> r[c]],
           r.place \in Slots \cup {Bank, Gone}, r.length \in Lengths,
           r.locked \in BOOLEAN, r.rooms \in SUBSET Rooms,
           r.people \in [People -> {"none", "attendee", "lecturer"}],
           r.cover \in People \cup {None}
    PROVE  r \in Row
BY DEF Row, Columns

\* The transaction that is not there is one, and has read and written nothing.
LEMMA NoTxFields ==
    /\ NoTx \in Tx
    /\ NoTx.pc = "idle" /\ NoTx.written = {}
    /\ DOMAIN NoTx.goal = {} /\ DOMAIN NoTx.read = {} 
<1>1. <<>> \in [{} -> Row] OBVIOUS
<1>2. <<>> \in Images BY <1>1 DEF Images
<1>3. <<>> \in Seq(Sessions) OBVIOUS
<1>4. "MOVE" \in EventTypes BY DEF EventTypes
<1>5. DOMAIN (<<>>) = {} OBVIOUS
<1>6. NoTx \in Tx
   BY <1>2, <1>3, <1>4 DEF NoTx, Tx
<1> QED BY <1>5, <1>6 DEF NoTx

\* A function on one session is an image.
LEMMA Image1 ==
    ASSUME NEW s \in Sessions, NEW r \in Row
    PROVE  Only(s, r) \in Images /\ DOMAIN Only(s, r) = {s} /\ Only(s, r)[s] = r
<1>1. Only(s, r) \in [{s} -> Row] BY DEF Only
<1>2. {s} \in SUBSET Sessions OBVIOUS
<1> QED BY <1>1, <1>2 DEF Images, Only

\* A function on two sessions.
LEMMA Image2 ==
    ASSUME NEW s \in Sessions, NEW o \in Sessions, s # o, NEW a \in Row, NEW b \in Row,
           NEW f, f = [x \in {s, o} |-> IF x = s THEN a ELSE b]
    PROVE  f \in Images /\ DOMAIN f = {s, o} /\ f[s] = a /\ f[o] = b
BY DEF Images

FirstStep(kind) == IF kind = "DELETE" THEN "log" ELSE "write"

\* What Request puts in place.
Requested(e, u, kind, ids, read, goal, columns) ==
    /\ u \in Tx
    /\ tx' = [tx EXCEPT ![e] = u]
    /\ u.pc = FirstStep(kind)
    /\ u.kind = kind /\ u.ids = ids /\ u.read = read /\ u.goal = goal
    /\ u.columns = columns /\ u.written = {} /\ u.involved = {}
    /\ u.found = {} /\ u.cleared = {}

\* Request puts a transaction in place that has written nothing yet.
LEMMA RequestIs ==
    ASSUME NEW e \in Editors, NEW kind \in EventTypes, NEW ids \in Seq(Sessions),
           NEW read \in Images, NEW goal \in Images, NEW columns \in SUBSET Columns,
           Request(e, kind, ids, read, goal, columns)
    PROVE  \E u : Requested(e, u, kind, ids, read, goal, columns)
<1>1. PICK n : n = NoTx OBVIOUS
<1>2. n \in Tx BY <1>1, NoTxFields
<1>3. PICK pc : pc = IF kind = "DELETE" THEN "log" ELSE "write" OBVIOUS
<1>4. pc \in {"log", "write"} BY <1>3
<1> DEFINE u == [n EXCEPT !.pc = pc, !.kind = kind, !.ids = ids, !.read = read,
                          !.goal = goal, !.columns = columns]
<1>5. tx' = [tx EXCEPT ![e] = u] BY <1>1, <1>3 DEF Request
<1>6. u \in Tx BY <1>2, <1>4 DEF Tx
<1>7. /\ u.pc = pc /\ u.kind = kind /\ u.ids = ids /\ u.read = read /\ u.goal = goal
      /\ u.columns = columns
  BY <1>2 DEF Tx
<1>8. /\ u.written = n.written /\ u.involved = n.involved
      /\ u.found = n.found /\ u.cleared = n.cleared
  BY <1>2 DEF Tx
<1>9. n.written = {} /\ n.involved = {} /\ n.found = {} /\ n.cleared = {} BY <1>1 DEF NoTx
<1> HIDE DEF u
<1> QED BY <1>3, <1>5, <1>6, <1>7, <1>8, <1>9 DEF Requested, FirstStep

-----------------------------------------------------------------------------
(***************************************************************************)
(* How a transaction begins                                                *)
(***************************************************************************)
\* Who is to cover a session has nothing else to do at the time.
IsFree(rows, s, row) == row.cover # None => IsPlaced(rows[s]) /\ ~Busy(rows, s, row.cover)

\* A request of e has been decided on the committed rows, and u is its transaction.
Opens(e, u) ==
    /\ u \in Tx
    /\ tx' = [tx EXCEPT ![e] = u]
    /\ UNCHANGED <<session, recorded, log>>
    /\ tx[e].pc = "idle"
    /\ Len(log) + Cardinality({f \in Editors : tx[f].pc # "idle"}) < MaxEvents
    /\ u.kind \in Kinds
    /\ u.written = {} /\ u.found = {} /\ u.cleared = {}
    /\ Reading(u) \/ (Editing(u) /\ u.pc = FirstStep(u.kind))
    /\ \A s \in DOMAIN u.read : u.read[s] = session[s]
    /\ \A s \in DOMAIN u.goal :
         /\ u.kind = "CREATE" <=> session[s].place = Gone
         /\ u.kind = "CREATE" => \A f \in Editors : s \notin DOMAIN tx[f].goal
         /\ u.kind = "SUBSTITUTE" => IsFree(session, s, u.goal[s])

\* Requests for one session.
LEMMA RequestOpens ==
    ASSUME EditInv, NEW e \in Editors, NEW s \in Sessions, NEW kind \in EventTypes,
           NEW goal \in Row, NEW columns \in SUBSET Columns,
           Request(e, kind, <<s>>, Only(s, session[s]), Only(s, goal), columns),
           InGrid(goal), Decision(kind, columns, session[s], goal),
           kind = "CREATE" <=> session[s].place = Gone,
           kind = "CREATE" => \A f \in Editors : s \notin DOMAIN tx[f].goal,
           kind = "SUBSTITUTE" => IsFree(session, s, goal)
    PROVE  \E u : Opens(e, u)
<1>1. session[s] \in Row /\ InGrid(session[s]) BY DEF EditInv
<1>2. PICK read : read = Only(s, session[s]) OBVIOUS
<1>3. PICK image : image = Only(s, goal) OBVIOUS
<1>4. /\ read \in Images /\ DOMAIN read = {s} /\ read[s] = session[s]
      /\ image \in Images /\ DOMAIN image = {s} /\ image[s] = goal
  BY <1>1, <1>2, <1>3, Image1
<1>5. Request(e, kind, <<s>>, read, image, columns) BY <1>2, <1>3
<1>6. PICK u \in Tx :
        /\ tx' = [tx EXCEPT ![e] = u]
        /\ u.pc = FirstStep(kind)
        /\ u.kind = kind /\ u.ids = <<s>> /\ u.read = read /\ u.goal = image
        /\ u.columns = columns /\ u.written = {} /\ u.involved = {}
        /\ u.found = {} /\ u.cleared = {}
  <2>1. PICK ids : ids = <<s>> OBVIOUS
  <2>2. ids \in Seq(Sessions) BY <2>1
  <2>3. Request(e, kind, ids, read, image, columns) BY <1>5, <2>1
  <2>4. \E u : Requested(e, u, kind, ids, read, image, columns)
    BY <1>4, <2>2, <2>3, RequestIs
  <2> QED BY <2>1, <2>4 DEF Requested
<1>7. Editing(u)
  <2>1. NamesRows(u) BY <1>4, <1>6 DEF NamesRows
  <2>2. \A o \in DOMAIN u.goal : o = s BY <1>4, <1>6
  <2>3. \A o \in DOMAIN u.goal : /\ InGrid(u.read[o]) /\ InGrid(u.goal[o])
                                /\ Decision(u.kind, u.columns, u.read[o], u.goal[o])
    BY <1>1, <1>4, <1>6, <2>2
  <2> QED BY <1>4, <1>6, <2>1, <2>3 DEF Editing, FirstStep
<1>8. /\ UNCHANGED <<session, recorded, log>> /\ tx[e].pc = "idle" /\ kind \in Kinds
      /\ Len(log) + Cardinality({f \in Editors : tx[f].pc # "idle"}) < MaxEvents
  BY DEF Request
<1> QED BY <1>4, <1>6, <1>7, <1>8 DEF Opens

\* Requests that edit one session that exists.
LEMMA EditOpens ==
    ASSUME EditInv, NEW e \in Editors, NEW s \in Sessions, NEW kind \in EventTypes \ {"CREATE"},
           NEW goal \in Row, NEW columns \in SUBSET Columns,
           Edit(e, kind, s, goal, columns),
           InGrid(goal), Decision(kind, columns, session[s], goal),
           kind = "SUBSTITUTE" => IsFree(session, s, goal)
    PROVE  \E u : Opens(e, u)
BY RequestOpens DEF Edit

\* An update of a row in some columns.
LEMMA RowUpdated ==
    ASSUME NEW r \in Row
    PROVE  /\ \A slot \in Slots, length \in Lengths :
                LET new == [r EXCEPT !.place = slot, !.length = length]
                IN  new \in Row /\ new.place = slot /\ new.length = length /\ new.rooms = r.rooms
           /\ \A slot \in Slots, length \in Lengths, rooms \in SUBSET Rooms :
                LET new == [[r EXCEPT !.place = slot, !.length = length] EXCEPT !.rooms = rooms]
                IN  new \in Row /\ new.place = slot /\ new.length = length
           /\ LET new == [r EXCEPT !.place = Bank] IN new \in Row /\ new.place = Bank
           /\ \A b \in BOOLEAN : LET new == [r EXCEPT !.locked = b]
                IN  new \in Row /\ new.locked = b /\ new.place = r.place /\ new.length = r.length
           /\ \A people \in [People -> {"none", "attendee", "lecturer"}] :
                LET new == [r EXCEPT !.people = people]
                IN  new \in Row /\ new.place = r.place /\ new.length = r.length
           /\ \A cover \in People \cup {None} : LET new == [r EXCEPT !.cover = cover]
                IN  /\ new \in Row /\ new.cover = cover
                    /\ new.place = r.place /\ new.length = r.length
BY DEF Row

\* A place on the grid is neither the bank nor nowhere.
LEMMA SlotsArePlaces ==
    ASSUME NEW row, row.place \in Slots PROVE IsPlaced(row)
BY PlacesAssumption DEF IsPlaced

\* A move stays within its day.
LEMMA MoveOpens ==
    ASSUME EditInv, NEW e \in Editors, NEW s \in Sessions, Move(e, s)
    PROVE  \E u : Opens(e, u)
<1>1. PICK slot \in Slots, length \in Lengths :
        /\ Fits(slot, length)
        /\ LET goal == [session[s] EXCEPT !.place = slot, !.length = length] IN
           \/ Edit(e, "MOVE", s, goal, {"place", "length"})
           \/ \E rooms \in SUBSET Rooms :
                Edit(e, "MOVE", s, [goal EXCEPT !.rooms = rooms], {"place", "length", "rooms"})
  BY DEF Move
<1>2. PICK goal, columns :
        /\ goal \in Row /\ goal.place = slot /\ goal.length = length
        /\ columns \in {{"place", "length"}, {"place", "length", "rooms"}}
        /\ "rooms" \notin columns => goal.rooms = session[s].rooms
        /\ Edit(e, "MOVE", s, goal, columns)
  <2>1. session[s] \in Row BY DEF EditInv
  <2>2. PICK goal : goal = [session[s] EXCEPT !.place = slot, !.length = length] OBVIOUS
  <2>3. goal \in Row /\ goal.place = slot /\ goal.length = length
        /\ goal.rooms = session[s].rooms
    BY <2>1, <2>2 DEF Row
  <2>4. CASE Edit(e, "MOVE", s, goal, {"place", "length"}) BY <2>3, <2>4
  <2>5. CASE \E rooms \in SUBSET Rooms :
               Edit(e, "MOVE", s, [goal EXCEPT !.rooms = rooms], {"place", "length", "rooms"})
    <3>1. PICK rooms \in SUBSET Rooms :
            Edit(e, "MOVE", s, [goal EXCEPT !.rooms = rooms], {"place", "length", "rooms"})
      BY <2>5
    <3>2. /\ [goal EXCEPT !.rooms = rooms] \in Row
          /\ [goal EXCEPT !.rooms = rooms].place = slot
          /\ [goal EXCEPT !.rooms = rooms].length = length
      BY <2>3 DEF Row
    <3> QED BY <3>1, <3>2
  <2> QED BY <1>1, <2>2, <2>4, <2>5
<1>3. columns \in SUBSET Columns /\ "MOVE" \in EventTypes \ {"CREATE"}
  BY <1>2 DEF Columns, EventTypes
<1>4. InGrid(goal) BY <1>1, <1>2 DEF InGrid, Fits
<1>5. Decision("MOVE", columns, session[s], goal)
  BY <1>2, SlotsArePlaces DEF Decision
<1> QED BY <1>2, <1>3, <1>4, <1>5, EditOpens

\* What goes to the bank is not locked.
LEMMA BankOpens ==
    ASSUME EditInv, NEW e \in Editors, NEW s \in Sessions, BankSession(e, s)
    PROVE  \E u : Opens(e, u)
<1>1. PICK goal : goal = [session[s] EXCEPT !.place = Bank] OBVIOUS
<1>2. session[s] \in Row BY DEF EditInv
<1>3. goal \in Row /\ goal.place = Bank BY <1>1, <1>2, RowUpdated
<1>4. Edit(e, "BANK", s, goal, {"place"}) /\ ~session[s].locked BY <1>1 DEF BankSession
<1>5. {"place"} \in SUBSET Columns /\ "BANK" \in EventTypes \ {"CREATE"}
  BY DEF Columns, EventTypes
<1>6. InGrid(goal) BY <1>3 DEF InGrid, IsPlaced
<1>7. Decision("BANK", {"place"}, session[s], goal) BY <1>3, <1>4 DEF Decision
<1> QED BY <1>3, <1>4, <1>5, <1>6, <1>7, EditOpens

\* What is locked is in the grid.
LEMMA LocksOpen ==
    ASSUME EditInv, NEW e \in Editors, NEW s \in Sessions, Lock(e, s) \/ Unlock(e, s)
    PROVE  \E u : Opens(e, u)
<1>1. PICK b, kind : /\ b \in BOOLEAN /\ kind \in {"LOCK", "UNLOCK"}
                     /\ Edit(e, kind, s, [session[s] EXCEPT !.locked = b], {"locked"})
                     /\ kind = "LOCK" => IsPlaced(session[s])
                     /\ kind = "UNLOCK" => ~b
  <2>1. CASE Lock(e, s)
    <3> WITNESS TRUE, "LOCK"
    <3> QED BY <2>1 DEF Lock
  <2>2. CASE Unlock(e, s)
    <3> WITNESS FALSE, "UNLOCK"
    <3> QED BY <2>2 DEF Unlock
  <2> QED BY <2>1, <2>2
<1>2. session[s] \in Row /\ InGrid(session[s]) BY DEF EditInv
<1>3. PICK goal : goal = [session[s] EXCEPT !.locked = b] OBVIOUS
<1>4. goal \in Row /\ goal.locked = b /\ InGrid(goal)
  BY <1>1, <1>2, <1>3, RowUpdated, ZenonT(60) DEF InGrid, IsPlaced
<1>5. {"locked"} \in SUBSET Columns /\ kind \in EventTypes \ {"CREATE"}
  BY <1>1 DEF Columns, EventTypes
<1>6. Decision(kind, {"locked"}, session[s], goal) BY <1>1, <1>4 DEF Decision
<1>7. kind # "SUBSTITUTE" BY <1>1
<1> QED BY <1>1, <1>3, <1>4, <1>5, <1>6, <1>7, EditOpens

\* Handlers that replace people touch nothing else.
LEMMA PeopleOpen ==
    ASSUME EditInv, NEW e \in Editors, NEW s \in Sessions,
           SetLecturers(e, s) \/ UpdateDetails(e, s)
    PROVE  \E u : Opens(e, u)
<1>2. session[s] \in Row /\ InGrid(session[s]) BY DEF EditInv
<1>a. session[s].people \in [People -> {"none", "attendee", "lecturer"}] BY <1>2, RowFields
<1>1. PICK people, kind :
        /\ people \in [People -> {"none", "attendee", "lecturer"}]
        /\ kind \in {"SET_LECTURERS", "UPDATE_DETAILS"}
        /\ Edit(e, kind, s, [session[s] EXCEPT !.people = people], {"people"})
  <2>1. CASE SetLecturers(e, s)
    <3>1. PICK after \in SUBSET People : Edit(e, "SET_LECTURERS", s,
            [session[s] EXCEPT !.people = [p \in People |->
               IF p \in after THEN "lecturer"
               ELSE IF session[s].people[p] = "lecturer" THEN "none" ELSE session[s].people[p]]],
            {"people"})
      BY <2>1 DEF SetLecturers
    <3>2. [p \in People |-> IF p \in after THEN "lecturer" ELSE
             IF session[s].people[p] = "lecturer" THEN "none" ELSE session[s].people[p]]
             \in [People -> {"none", "attendee", "lecturer"}]
      BY <1>a
    <3> QED BY <3>1, <3>2
  <2>2. CASE UpdateDetails(e, s)
    <3>1. PICK who \in SUBSET People : Edit(e, "UPDATE_DETAILS", s,
            [session[s] EXCEPT !.people =
               [p \in People |-> IF p \in who THEN "attendee" ELSE "none"]], {"people"})
      BY <2>2 DEF UpdateDetails
    <3>2. [p \in People |-> IF p \in who THEN "attendee" ELSE "none"]
             \in [People -> {"none", "attendee", "lecturer"}]
      OBVIOUS
    <3> QED BY <3>1, <3>2
  <2> QED BY <2>1, <2>2
<1>3. PICK goal : goal = [session[s] EXCEPT !.people = people] OBVIOUS
<1>4. goal \in Row /\ InGrid(goal)
  BY <1>1, <1>2, <1>3, RowUpdated DEF InGrid, IsPlaced
<1>5. {"people"} \in SUBSET Columns /\ kind \in EventTypes \ {"CREATE"}
  BY <1>1 DEF Columns, EventTypes
<1>6. Decision(kind, {"people"}, session[s], goal) BY <1>1 DEF Decision
<1>7. kind # "SUBSTITUTE" BY <1>1
<1> QED BY <1>1, <1>3, <1>4, <1>5, <1>6, <1>7, EditOpens

\* Who is to cover a session was free when the request was decided.
LEMMA SubstitutesOpen ==
    ASSUME EditInv, NEW e \in Editors, NEW s \in Sessions,
           Substitute(e, s) \/ WithdrawSubstitute(e, s)
    PROVE  \E u : Opens(e, u)
<1>1. PICK cover : /\ cover \in People \cup {None}
                   /\ Edit(e, "SUBSTITUTE", s, [session[s] EXCEPT !.cover = cover], {"cover"})
                   /\ cover # None => IsPlaced(session[s]) /\ ~Busy(session, s, cover)
  BY DEF Substitute, WithdrawSubstitute
<1>2. session[s] \in Row /\ InGrid(session[s]) BY DEF EditInv
<1>3. PICK goal : goal = [session[s] EXCEPT !.cover = cover] OBVIOUS
<1>4. goal \in Row /\ goal.cover = cover /\ InGrid(goal)
  BY <1>1, <1>2, <1>3, RowUpdated DEF InGrid, IsPlaced
<1>5. {"cover"} \in SUBSET Columns /\ "SUBSTITUTE" \in EventTypes \ {"CREATE"}
  BY DEF Columns, EventTypes
<1>6. Decision("SUBSTITUTE", {"cover"}, session[s], goal) BY DEF Decision
<1>7. IsFree(session, s, goal) BY <1>1, <1>4 DEF IsFree
<1> QED BY <1>1, <1>3, <1>4, <1>5, <1>6, <1>7, EditOpens

\* A deleted session is a row that is nowhere.
LEMMA NoSessionIs == ASSUME NEW r \in Row PROVE NoSession \in Row /\ NoSession.place = Gone
<1>1. r.length \in Lengths BY RowFields
<1>2. (CHOOSE n \in Lengths : TRUE) \in Lengths BY <1>1
<1>3. [p \in People |-> "none"] \in [People -> {"none", "attendee", "lecturer"}] OBVIOUS
<1> QED BY <1>2, <1>3 DEF NoSession, Row

\* What is created is in the grid, and nobody else creates it.
LEMMA CreateOpens ==
    ASSUME EditInv, NEW e \in Editors, NEW s \in Sessions, Create(e, s)
    PROVE  \E u : Opens(e, u)
<1>1. PICK slot \in Slots, length \in Lengths, rooms \in SUBSET Rooms, locked \in BOOLEAN,
           people \in [People -> {"none", "attendee"}] :
        /\ Fits(slot, length)
        /\ Request(e, "CREATE", <<s>>, Only(s, session[s]),
             Only(s, [NoSession EXCEPT !.place = slot, !.length = length, !.locked = locked,
                                       !.rooms = rooms, !.people = people]), Columns)
  BY DEF Create
<1>2. session[s] \in Row BY DEF EditInv
<1>3. PICK none \in Row : none = NoSession BY <1>2, NoSessionIs
<1>4. PICK goal : goal = [none EXCEPT !.place = slot, !.length = length, !.locked = locked,
                                      !.rooms = rooms, !.people = people]
  OBVIOUS
<1>5. people \in [People -> {"none", "attendee", "lecturer"}] OBVIOUS
<1>6. goal \in Row /\ goal.place = slot /\ goal.length = length
  BY <1>4, <1>5 DEF Row
<1>7. InGrid(goal) BY <1>1, <1>6 DEF InGrid, Fits
<1>8. Decision("CREATE", Columns, session[s], goal) BY <1>6, SlotsArePlaces DEF Decision
<1>9. "CREATE" \in EventTypes BY DEF EventTypes
<1>10. session[s].place = Gone /\ \A f \in Editors : s \notin DOMAIN tx[f].goal BY DEF Create
<1> QED BY <1>1, <1>3, <1>4, <1>6, <1>7, <1>8, <1>9, <1>10, RequestOpens

\* What is deleted is nowhere.
LEMMA DeleteOpens ==
    ASSUME EditInv, NEW e \in Editors, NEW s \in Sessions, Delete(e, s)
    PROVE  \E u : Opens(e, u)
<1>1. session[s] \in Row BY DEF EditInv
<1>2. PICK goal \in Row : goal = NoSession /\ goal.place = Gone BY <1>1, NoSessionIs
<1>3. Edit(e, "DELETE", s, goal, Columns) BY <1>2 DEF Delete
<1>4. InGrid(goal) BY <1>2 DEF InGrid, IsPlaced
<1>5. Decision("DELETE", Columns, session[s], goal) BY <1>2 DEF Decision
<1>6. "DELETE" \in EventTypes \ {"CREATE"} BY DEF EventTypes
<1> QED BY <1>2, <1>3, <1>4, <1>5, <1>6, EditOpens

\* A swap begins with one of its two sessions.
LEMMA SwapOpens ==
    ASSUME EditInv, NEW e \in Editors, NEW s \in Sessions, NEW o \in Sessions, Swap(e, s, o)
    PROVE  \E u : Opens(e, u)
<1>1. session[s] \in Row /\ InGrid(session[s]) BY DEF EditInv
<1>2. PICK n : n = NoTx OBVIOUS
<1>3. PICK ids : ids = <<s, o>> OBVIOUS
<1>4. ids \in Seq(Sessions) BY <1>3
<1>5. PICK read : read = Only(s, session[s]) OBVIOUS
<1>6. read \in Images /\ DOMAIN read = {s} /\ read[s] = session[s] BY <1>1, <1>5, Image1
<1> DEFINE u == [n EXCEPT !.pc = "read", !.kind = "SWAP", !.ids = ids, !.read = read]
<1>7. tx' = [tx EXCEPT ![e] = u] BY <1>2, <1>3, <1>5 DEF Swap
<1>8. n \in Tx BY <1>2, NoTxFields
<1>9. "SWAP" \in EventTypes BY DEF EventTypes
<1>10. u \in Tx BY <1>4, <1>6, <1>8, <1>9 DEF Tx
<1>11. /\ u.pc = "read" /\ u.kind = "SWAP" /\ u.ids = ids /\ u.read = read
       /\ u.goal = n.goal /\ u.columns = n.columns /\ u.written = n.written
       /\ u.found = n.found /\ u.cleared = n.cleared
  BY <1>8 DEF Tx
<1>12. /\ n.goal = <<>> /\ n.columns = {} /\ n.written = {}
       /\ n.found = {} /\ n.cleared = {}
  BY <1>2 DEF NoTx
<1> HIDE DEF u
<1>13. Reading(u) BY <1>1, <1>3, <1>6, <1>11, <1>12 DEF Reading, Swap
<1>14. /\ UNCHANGED <<session, recorded, log>> /\ tx[e].pc = "idle" /\ "SWAP" \in Kinds
       /\ Len(log) + Cardinality({f \in Editors : tx[f].pc # "idle"}) < MaxEvents
  BY DEF Swap
<1>15. DOMAIN u.goal = {} BY <1>2, <1>11, NoTxFields
<1> QED BY <1>6, <1>7, <1>10, <1>11, <1>12, <1>13, <1>14, <1>15 DEF Opens

\* Whatever the request, it opens a transaction.
LEMMA BeginOpens ==
    ASSUME EditInv, NEW e \in Editors, Begin(e)
    PROVE  /\ \E u : Opens(e, u)
           /\ alone => \A f \in Editors : tx[f].pc = "idle"
BY MoveOpens, BankOpens, LocksOpen, PeopleOpen, SubstitutesOpen, CreateOpens, DeleteOpens,
   SwapOpens DEF Begin

-----------------------------------------------------------------------------
(***************************************************************************)
(* How it goes on                                                          *)
(***************************************************************************)
\* Transaction e has become u; nothing is committed.
Becomes(e, u) ==
    /\ u \in Tx
    /\ tx' = [tx EXCEPT ![e] = u]
    /\ UNCHANGED <<session, recorded>>

\* What is left of a transaction through its statements.
SameEdit(t, u) == /\ u.kind = t.kind /\ u.ids = t.ids /\ u.goal = t.goal /\ u.columns = t.columns
                  /\ DOMAIN u.read = DOMAIN t.read

\* A swap has read its other session, and gives up or wants to write.
ReadsOther(e, u) ==
    /\ Becomes(e, u) /\ log' = log
    /\ Reading(tx[e])
    /\ \/ u = NoTx
       \/ /\ Editing(u) /\ u.pc = "write" /\ u.kind = "SWAP" /\ u.written = {}
          /\ u.found = {} /\ u.cleared = {}
          /\ \A s \in DOMAIN u.goal :
               /\ IsPlaced(u.read[s])
               /\ \/ s \in DOMAIN tx[e].read /\ u.read[s] = tx[e].read[s]
                  \/ u.read[s] = session[s]

\* A swap puts two sessions in the grid into each other's place, or gives up.
LEMMA SwapReads ==
    ASSUME EditInv, NEW e \in Editors, SwapReadsOther(e)
    PROVE  \E u : ReadsOther(e, u)
<1>1. PICK t \in Tx : t = tx[e] BY DEF EditInv
<1>2. /\ t.pc = "read" /\ UNCHANGED <<session, recorded, log>> BY <1>1 DEF SwapReadsOther
<1>3. Reading(t) BY <1>1, <1>2 DEF EditInv, Shape, Editing, NoTx
<1>4. PICK s \in Sessions, o \in Sessions :
        /\ s # o /\ t.ids = <<s, o>> /\ DOMAIN t.read = {s} /\ InGrid(t.read[s])
  BY <1>3 DEF Reading
<1>5. PICK a, b : a = t.read[s] /\ b = session[o] OBVIOUS
<1>6. a \in Row /\ b \in Row /\ InGrid(a) /\ InGrid(b)
  <2>1. t.read \in Images BY DEF Tx
  <2>2. a \in Row BY <1>4, <1>5, <2>1 DEF Images
  <2> QED BY <1>4, <1>5, <2>2 DEF EditInv
<1>7. CASE ~(IsPlaced(a) /\ IsPlaced(b))
  <2>1. t.ids[1] = s /\ t.ids[2] = o BY <1>4
  <2>3. tx' = [tx EXCEPT ![e] = NoTx]
    BY <1>1, <1>5, <1>7, <2>1 DEF SwapReadsOther
  <2>2. ReadsOther(e, NoTx) BY <1>1, <1>2, <1>3, <2>3, NoTxFields DEF ReadsOther, Becomes
  <2> QED BY <2>2
<1>8. CASE IsPlaced(a) /\ IsPlaced(b)
  <2>1. PICK p, q : /\ p = [a EXCEPT !.place = b.place, !.length = b.length]
                    /\ q = [b EXCEPT !.place = a.place, !.length = a.length]
    OBVIOUS
  <2>2. /\ p \in Row /\ p.place = b.place /\ p.length = b.length
        /\ q \in Row /\ q.place = a.place /\ q.length = a.length
    BY <1>6, <2>1 DEF Row
  <2>3. IsPlaced(p) /\ IsPlaced(q) /\ InGrid(p) /\ InGrid(q)
    BY <1>6, <1>8, <2>2 DEF IsPlaced, InGrid
  <2>4. PICK read, goal : /\ read = [x \in {s, o} |-> IF x = s THEN a ELSE b]
                          /\ goal = [x \in {s, o} |-> IF x = s THEN p ELSE q]
    OBVIOUS
  <2>5. /\ read \in Images /\ DOMAIN read = {s, o} /\ read[s] = a /\ read[o] = b
        /\ goal \in Images /\ DOMAIN goal = {s, o} /\ goal[s] = p /\ goal[o] = q
    BY <1>4, <1>6, <2>2, <2>4, Image2
  <2> DEFINE u == [t EXCEPT !.pc = "write", !.columns = {"place", "length"},
                            !.read = read, !.goal = goal]
  <2>6. tx' = [tx EXCEPT ![e] = u]
    BY <1>1, <1>4, <1>5, <1>8, <2>1, <2>4 DEF SwapReadsOther
  <2>7. {"place", "length"} \in SUBSET Columns BY DEF Columns
  <2>8. u \in Tx BY <2>5, <2>7 DEF Tx
  <2>9. /\ u.pc = "write" /\ u.columns = {"place", "length"} /\ u.read = read
        /\ u.goal = goal /\ u.kind = t.kind /\ u.ids = t.ids /\ u.written = t.written
        /\ u.found = t.found /\ u.cleared = t.cleared
    BY DEF Tx
  <2>10. t.kind = "SWAP" /\ t.written = {} BY <1>3 DEF Reading
  <2> HIDE DEF u
  <2>11. NamesRows(u) BY <1>4, <2>5, <2>9, <2>10 DEF NamesRows
  <2>12. \A x \in DOMAIN u.goal : /\ InGrid(u.read[x]) /\ InGrid(u.goal[x])
                                  /\ Decision(u.kind, u.columns, u.read[x], u.goal[x])
    BY <1>6, <2>3, <2>5, <2>9, <2>10 DEF Decision
  <2>13. Editing(u) BY <2>5, <2>9, <2>10, <2>11, <2>12 DEF Editing
  <2>14. u.found = {} /\ u.cleared = {} BY <1>3, <2>9 DEF Reading
  <2>15. \A x \in DOMAIN u.goal :
           /\ IsPlaced(u.read[x])
           /\ (x \in DOMAIN t.read /\ u.read[x] = t.read[x]) \/ u.read[x] = session[x]
    BY <1>4, <1>5, <1>8, <2>5, <2>9
  <2>16. ReadsOther(e, u)
    BY <1>1, <1>2, <1>3, <2>6, <2>8, <2>9, <2>10, <2>13, <2>14, <2>15
       DEF ReadsOther, Becomes
  <2> QED BY <2>16
<1> QED BY <1>7, <1>8

\* A row is written.
Writes(e, u, s) ==
    LET t == tx[e] IN
    /\ Becomes(e, u) /\ log' = log
    /\ Editing(t) /\ t.pc = "write" /\ Editing(u) /\ SameEdit(t, u)
    /\ s \in DOMAIN t.goal /\ u.written = t.written \cup {s}
    /\ Writable(e, s)
    /\ session[s].place # Gone \/ t.kind = "CREATE"
    /\ \A o \in DOMAIN t.goal :
         u.read[o] = t.read[o] \/ (t.kind = "UPDATE_DETAILS" /\ u.read[o] = session[o])
    /\ t.kind = "UPDATE_DETAILS" => u.read[s] = session[s]
    /\ u.found = t.found /\ u.cleared = t.cleared
    /\ u.pc \in {"write", IF t.kind = "DELETE" THEN "commit" ELSE "log"}

\* Rows are written in order, the last one of them ends the writing.
LEMMA WriteIs ==
    ASSUME EditInv, NEW e \in Editors, Write(e)
    PROVE  \E u, s : Writes(e, u, s)
<1>1. PICK t \in Tx : t = tx[e] BY DEF EditInv
<1>2. t.pc = "write" /\ UNCHANGED <<session, recorded, log>> BY <1>1 DEF Write
<1>3. Editing(t) BY <1>1, <1>2 DEF EditInv, Shape, Reading, NoTx
<1>4. PICK s, last : /\ s = t.ids[Cardinality(t.written) + 1]
                     /\ last = (Cardinality(t.written) + 1 = Len(t.ids))
  OBVIOUS
<1>5. /\ s \in DOMAIN t.goal /\ s \in Sessions
      /\ last => t.written \cup {s} = DOMAIN t.goal
      /\ ~last => Len(t.ids) = 2 /\ t.written \cup {s} = {t.ids[1]} /\ t.kind = "SWAP"
  <2>1. Cardinality({}) = 0 /\ \A x : Cardinality({x}) = 1
    BY FS_EmptySet, FS_Singleton
  <2>2. CASE \E x \in Sessions : t.ids = <<x>> /\ DOMAIN t.goal = {x}
    <3>1. PICK x \in Sessions : t.ids = <<x>> /\ DOMAIN t.goal = {x} BY <2>2
    <3>2. Len(t.ids) = 1 /\ t.ids[1] = x BY <3>1
    <3>3. t.written = {} BY <1>2, <1>3, <3>2 DEF Editing
    <3>4. Cardinality(t.written) + 1 = 1 BY <2>1, <3>3
    <3> QED BY <1>4, <3>1, <3>2, <3>3, <3>4
  <2>3. CASE \E x, y \in Sessions : /\ x # y /\ t.kind = "SWAP"
                                    /\ t.ids = <<x, y>> /\ DOMAIN t.goal = {x, y}
    <3>1. PICK x \in Sessions, y \in Sessions :
            x # y /\ t.kind = "SWAP" /\ t.ids = <<x, y>> /\ DOMAIN t.goal = {x, y}
      BY <2>3
    <3>2. Len(t.ids) = 2 /\ t.ids[1] = x /\ t.ids[2] = y BY <3>1
    <3>3. CASE t.written = {}
      <4>1. Cardinality(t.written) + 1 = 1 BY <2>1, <3>3
      <4> QED BY <1>4, <3>1, <3>2, <3>3, <4>1
    <3>4. CASE t.written = {x}
      <4>0. Cardinality({x}) = 1 BY <2>1
      <4>1. Cardinality(t.written) + 1 = 2 BY <3>4, <4>0
      <4> QED BY <1>4, <3>1, <3>2, <3>4, <4>1
    <3>5. t.written = {} \/ t.written = {x} BY <1>2, <1>3, <3>2 DEF Editing
    <3> QED BY <3>3, <3>4, <3>5
  <2> QED BY <1>3, <2>2, <2>3 DEF Editing, NamesRows
<1>6. /\ Writable(e, s)
      /\ session[s].place # Gone \/ t.kind = "CREATE"
      /\ tx' = [tx EXCEPT ![e] = [t EXCEPT
           !.written = @ \cup {s},
           !.read[s] = IF t.kind = "UPDATE_DETAILS" THEN session[s] ELSE @,
           !.pc = IF ~last THEN "write" ELSE IF t.kind = "DELETE" THEN "commit" ELSE "log"]]
  BY <1>1, <1>4 DEF Write
<1>7. PICK pc : pc = IF ~last THEN "write" ELSE IF t.kind = "DELETE" THEN "commit" ELSE "log"
  OBVIOUS
<1>8. PICK read : read = [t.read EXCEPT ![s] =
                            IF t.kind = "UPDATE_DETAILS" THEN session[s] ELSE t.read[s]]
  OBVIOUS
<1>9. /\ read \in Images /\ DOMAIN read = DOMAIN t.read
      /\ \A o \in DOMAIN t.goal : \/ read[o] = t.read[o]
                                  \/ t.kind = "UPDATE_DETAILS" /\ read[o] = session[o]
      /\ t.kind = "UPDATE_DETAILS" => read[s] = session[s]
  <2>1. DOMAIN t.read = DOMAIN t.goal BY <1>3 DEF Editing
  <2>2. PICK D \in SUBSET Sessions : t.read \in [D -> Row] BY DEF Tx, Images
  <2>3. session[s] \in Row BY <1>5 DEF EditInv
  <2>4. read \in [D -> Row] BY <1>8, <2>2, <2>3
  <2> QED BY <1>5, <1>8, <2>1, <2>2, <2>4 DEF Images
<1> DEFINE u == [t EXCEPT !.written = t.written \cup {s}, !.read = read, !.pc = pc]
<1>10. tx' = [tx EXCEPT ![e] = u] BY <1>6, <1>7, <1>8
<1>11. u \in Tx
  <2>1. pc \in {"write", "commit", "log"} BY <1>7
  <2>2. t.written \cup {s} \in SUBSET Sessions BY <1>5 DEF Tx
  <2> QED BY <1>9, <2>1, <2>2 DEF Tx
<1>12. /\ u.pc = pc /\ u.written = t.written \cup {s} /\ u.read = read
       /\ u.kind = t.kind /\ u.ids = t.ids /\ u.goal = t.goal /\ u.columns = t.columns
       /\ u.found = t.found /\ u.cleared = t.cleared
  BY DEF Tx
<1> HIDE DEF u
<1>13. SameEdit(t, u) BY <1>9, <1>12 DEF SameEdit
<1>14. Editing(u)
  <2>1. NamesRows(u) BY <1>3, <1>12 DEF Editing, NamesRows
  <2>2. ASSUME NEW o \in DOMAIN u.goal
        PROVE  /\ InGrid(u.read[o]) /\ InGrid(u.goal[o])
               /\ Decision(u.kind, u.columns, u.read[o], u.goal[o])
    <3>1. o \in DOMAIN t.goal BY <1>12
    <3>2. /\ InGrid(t.read[o]) /\ InGrid(t.goal[o])
          /\ Decision(t.kind, t.columns, t.read[o], t.goal[o])
      BY <1>3, <3>1 DEF Editing
    <3>3. o \in Sessions BY <3>1 DEF Tx, Images
    <3>4. InGrid(session[o]) BY <3>3 DEF EditInv
    <3>5. u.read[o] = t.read[o] \/ (t.kind = "UPDATE_DETAILS" /\ u.read[o] = session[o])
      BY <1>9, <1>12, <3>1
    <3>6. InGrid(u.read[o]) /\ InGrid(u.goal[o]) BY <1>12, <3>2, <3>4, <3>5
    <3>7. t.kind = "UPDATE_DETAILS" => Decision(u.kind, u.columns, u.read[o], u.goal[o])
      BY <1>12, <3>2 DEF Decision
    <3> QED BY <1>12, <3>2, <3>5, <3>6, <3>7
  <2>3. DOMAIN u.read = DOMAIN u.goal BY <1>3, <1>9, <1>12 DEF Editing
  <2>4. t.kind = "DELETE" => pc = "commit" BY <1>5, <1>7
  <2>5. t.kind # "DELETE" => pc \in {"write", "log"} BY <1>7
  <2>6. pc = "write" => Len(u.ids) = 2 /\ u.written = {u.ids[1]} BY <1>5, <1>7, <1>12
  <2>7. pc # "write" => u.written = DOMAIN u.goal BY <1>5, <1>7, <1>12
  <2> QED BY <1>7, <1>12, <2>1, <2>2, <2>3, <2>4, <2>5, <2>6, <2>7 DEF Editing
<1>15. u.pc \in {"write", IF t.kind = "DELETE" THEN "commit" ELSE "log"} BY <1>7, <1>12
<1> QED BY <1>1, <1>2, <1>3, <1>5, <1>6, <1>9, <1>10, <1>11, <1>12, <1>13, <1>14, <1>15
        DEF Writes, Becomes

\* Nothing but what e will record changes.
Keeps(t, u) == /\ Editing(t) /\ Editing(u) /\ SameEdit(t, u)
               /\ u.read = t.read /\ u.written = t.written

\* An event is appended.
Logs(e, u) ==
    LET t == tx[e] IN
    /\ Becomes(e, u) /\ Keeps(t, u)
    /\ t.pc = "log" /\ u.pc = AfterLog(t.kind)
    /\ log' = Append(log, [by |-> e, to |-> Payload(t)])
    /\ u.involved = IF t.kind = "BANK" THEN DOMAIN t.goal ELSE {}
    /\ u.found = IF t.kind = "BANK" THEN {"unplaced"} \X DOMAIN t.goal ELSE {}
    /\ u.cleared = t.cleared

\* An event is appended and nothing else changes.
LEMMA LogIs ==
    ASSUME EditInv, NEW e \in Editors, Log(e)
    PROVE  \E u : Logs(e, u)
<1>1. PICK t \in Tx : t = tx[e] BY DEF EditInv
<1>2. t.pc = "log" /\ UNCHANGED <<session, recorded>> BY <1>1 DEF Log
<1>3. Editing(t) BY <1>1, <1>2 DEF EditInv, Shape, Reading, NoTx
<1>4. DOMAIN t.goal \in SUBSET Sessions BY DEF Tx, Images
<1>5. PICK pc, involved, found :
        /\ pc = AfterLog(t.kind)
        /\ involved = IF t.kind = "BANK" THEN DOMAIN t.goal ELSE {}
        /\ found = IF t.kind = "BANK" THEN {"unplaced"} \X DOMAIN t.goal ELSE {}
  OBVIOUS
<1> DEFINE u == [t EXCEPT !.pc = pc, !.involved = involved, !.found = found]
<1>6. /\ tx' = [tx EXCEPT ![e] = u]
      /\ log' = Append(log, [by |-> e, to |-> Payload(t)])
  BY <1>1, <1>5 DEF Log
<1>7. pc \in {"write", "detect", "record", "commit"} BY <1>5 DEF AfterLog
<1>8. involved \in SUBSET Sessions /\ found \in SUBSET (Rules \X Sessions)
  BY <1>4, <1>5 DEF Rules
<1>9. u \in Tx BY <1>7, <1>8 DEF Tx
<1>10. /\ u.pc = pc /\ u.involved = involved /\ u.found = found
       /\ u.kind = t.kind /\ u.ids = t.ids /\ u.goal = t.goal /\ u.columns = t.columns
       /\ u.read = t.read /\ u.written = t.written /\ u.cleared = t.cleared
  BY DEF Tx
<1> HIDE DEF u
<1>11. t.kind = "DELETE" <=> pc = "write" BY <1>5 DEF AfterLog
<1>12. Editing(u)
  BY <1>2, <1>3, <1>7, <1>10, <1>11 DEF Editing, NamesRows
<1>13. Logs(e, u)
  BY <1>1, <1>2, <1>3, <1>5, <1>6, <1>9, <1>10, <1>12 DEF Logs, Becomes, Keeps, SameEdit
<1> QED BY <1>13

\* The violations of the edited sessions are looked for.
Detects(e, u) ==
    LET t == tx[e]  rows == Sees(e) IN
    /\ Becomes(e, u) /\ log' = log /\ Keeps(t, u)
    /\ t.pc = "detect" /\ u.pc = "record"
    /\ DOMAIN t.goal \subseteq u.involved
    /\ \A o \in u.involved : o \in DOMAIN t.goal \/ IsPlaced(rows[o])
    /\ u.found = {v \in Rules \X DOMAIN t.goal : Breaks(rows, v[1], v[2])}
    /\ u.cleared = t.cleared

\* What is detected is of the edited sessions and of those of the same day.
LEMMA DetectIs ==
    ASSUME EditInv, NEW e \in Editors, Detect(e)
    PROVE  \E u : Detects(e, u)
<1>1. PICK t \in Tx : t = tx[e] BY DEF EditInv
<1>2. t.pc = "detect" /\ UNCHANGED <<session, recorded, log>> BY <1>1 DEF Detect
<1>3. Editing(t) BY <1>1, <1>2 DEF EditInv, Shape, Reading, NoTx
<1>4. DOMAIN t.goal \in SUBSET Sessions BY DEF Tx, Images
<1>5. PICK involved, found :
        /\ involved = DOMAIN t.goal \cup
             {o \in Sessions : \E s \in DOMAIN t.goal : SameDay(Sees(e)[s], Sees(e)[o])}
        /\ found = {v \in Rules \X DOMAIN t.goal : Breaks(Sees(e), v[1], v[2])}
  OBVIOUS
<1> DEFINE u == [t EXCEPT !.pc = "record", !.involved = involved, !.found = found]
<1>6. tx' = [tx EXCEPT ![e] = u] BY <1>1, <1>5 DEF Detect
<1>7. involved \in SUBSET Sessions /\ found \in SUBSET (Rules \X Sessions) BY <1>4, <1>5
<1>8. u \in Tx BY <1>7 DEF Tx
<1>9. /\ u.pc = "record" /\ u.involved = involved /\ u.found = found
      /\ u.kind = t.kind /\ u.ids = t.ids /\ u.goal = t.goal /\ u.columns = t.columns
      /\ u.read = t.read /\ u.written = t.written /\ u.cleared = t.cleared
  BY DEF Tx
<1> HIDE DEF u
<1>10. Editing(u) BY <1>2, <1>3, <1>9 DEF Editing, NamesRows
<1>11. \A o \in involved : o \in DOMAIN t.goal \/ IsPlaced(Sees(e)[o])
  BY <1>5 DEF SameDay
<1>12. Detects(e, u)
  BY <1>1, <1>2, <1>3, <1>5, <1>6, <1>8, <1>9, <1>10, <1>11
     DEF Detects, Becomes, Keeps, SameEdit
<1> QED BY <1>12

\* They are to replace what was recorded of all involved.
Records(e, u) ==
    LET t == tx[e] IN
    /\ Becomes(e, u) /\ log' = log /\ Keeps(t, u)
    /\ t.pc = "record" /\ u.pc = "commit"
    /\ u.involved = t.involved /\ u.found = t.found
    /\ u.cleared = {v \in recorded : v[2] \in t.involved}

\* What is recorded replaces what was.
LEMMA RecordIs ==
    ASSUME EditInv, NEW e \in Editors, Record(e)
    PROVE  \E u : Records(e, u)
<1>1. PICK t \in Tx : t = tx[e] BY DEF EditInv
<1>2. t.pc = "record" /\ UNCHANGED <<session, recorded, log>> BY <1>1 DEF Record
<1>3. Editing(t) BY <1>1, <1>2 DEF EditInv, Shape, Reading, NoTx
<1>4. PICK rows : rows = {v \in recorded : v[2] \in t.involved} OBVIOUS
<1> DEFINE u == [t EXCEPT !.pc = "commit", !.cleared = rows]
<1>5. tx' = [tx EXCEPT ![e] = u] BY <1>1, <1>4 DEF Record
<1>6. rows \in SUBSET (Rules \X Sessions) BY <1>4 DEF EditInv
<1>7. u \in Tx BY <1>6 DEF Tx
<1>8. /\ u.pc = "commit" /\ u.involved = t.involved /\ u.found = t.found
      /\ u.kind = t.kind /\ u.ids = t.ids /\ u.goal = t.goal /\ u.columns = t.columns
      /\ u.read = t.read /\ u.written = t.written /\ u.cleared = rows
  BY DEF Tx
<1> HIDE DEF u
<1>9. Editing(u) BY <1>2, <1>3, <1>8 DEF Editing, NamesRows
<1>10. Records(e, u)
  BY <1>1, <1>2, <1>3, <1>4, <1>5, <1>7, <1>8, <1>9 DEF Records, Becomes, Keeps, SameEdit
<1> QED BY <1>10

-----------------------------------------------------------------------------
(***************************************************************************)
(* What a transaction leaves behind                                        *)
(***************************************************************************)
\* Columns other than people are replaced as a whole.
LEMMA ColumnApplied ==
    ASSUME NEW t, NEW s, NEW c \in Columns \ {"people"}
    PROVE  Applied(t, s)[c] = IF c \in t.columns THEN t.goal[s][c] ELSE session[s][c]
BY DEF Applied

\* A row after the statements of a transaction, column by column.
LEMMA AppliedIs ==
    ASSUME NEW t, NEW s
    PROVE  /\ Applied(t, s) = [c \in Columns |-> Applied(t, s)[c]]
           /\ \A c \in Columns \ {"people"} :
                Applied(t, s)[c] = IF c \in t.columns THEN t.goal[s][c] ELSE session[s][c]
           /\ Applied(t, s).people = [p \in People |->
                IF p \in PeopleWritten(t, s) THEN t.goal[s].people[p] ELSE session[s].people[p]]
           /\ "people" \notin t.columns => PeopleWritten(t, s) = {}
<1>1. Applied(t, s) = [c \in Columns |->
        IF c = "people" THEN [p \in People |-> IF p \in PeopleWritten(t, s)
                                                THEN t.goal[s].people[p]
                                                ELSE session[s].people[p]]
        ELSE IF c \in t.columns THEN t.goal[s][c] ELSE session[s][c]]
  BY DEF Applied
<1>2. "people" \in Columns BY DEF Columns
<1> QED BY <1>1, <1>2 DEF PeopleWritten

\* The same for the columns by their names.
LEMMA ColumnsApplied ==
    ASSUME NEW t, NEW s, NEW a, a = Applied(t, s)
    PROVE  /\ a.place = IF "place" \in t.columns THEN t.goal[s].place ELSE session[s].place
           /\ a.length = IF "length" \in t.columns THEN t.goal[s].length ELSE session[s].length
           /\ a.locked = IF "locked" \in t.columns THEN t.goal[s].locked ELSE session[s].locked
           /\ a.rooms = IF "rooms" \in t.columns THEN t.goal[s].rooms ELSE session[s].rooms
           /\ a.cover = IF "cover" \in t.columns THEN t.goal[s].cover ELSE session[s].cover
<1>1. \A c \in Columns \ {"people"} :
        Applied(t, s)[c] = IF c \in t.columns THEN t.goal[s][c] ELSE session[s][c]
  BY ColumnApplied
<1>2. \A c \in Columns \ {"people"} :
        a[c] = IF c \in t.columns THEN t.goal[s][c] ELSE session[s][c]
  BY <1>1
<1> QED BY <1>2 DEF Columns

\* A row after an edit is one the schema admits, and in the grid.
LEMMA AppliedFits ==
    ASSUME EditInv, NEW t \in Tx, Editing(t), NEW s \in DOMAIN t.goal
    PROVE  Applied(t, s) \in Row /\ InGrid(Applied(t, s))
<1>0. s \in Sessions /\ t.goal[s] \in Row BY DEF Tx, Images
<1>1. PICK a : a = Applied(t, s) OBVIOUS
<1>2. PICK g, o : g = t.goal[s] /\ o = session[s] OBVIOUS
<1>3. g \in Row /\ o \in Row /\ InGrid(g) /\ InGrid(o)
  BY <1>0, <1>2 DEF EditInv, Editing
<1>4. /\ a = [c \in Columns |-> a[c]]
      /\ \A c \in Columns \ {"people"} : a[c] = IF c \in t.columns THEN g[c] ELSE o[c]
      /\ a.people = [p \in People |-> IF p \in PeopleWritten(t, s) THEN g.people[p]
                                                                   ELSE o.people[p]]
  BY <1>1, <1>2, AppliedIs
<1>5. /\ a.place = IF "place" \in t.columns THEN g.place ELSE o.place
      /\ a.length = IF "length" \in t.columns THEN g.length ELSE o.length
      /\ a.locked = IF "locked" \in t.columns THEN g.locked ELSE o.locked
      /\ a.rooms = IF "rooms" \in t.columns THEN g.rooms ELSE o.rooms
      /\ a.cover = IF "cover" \in t.columns THEN g.cover ELSE o.cover
  BY <1>1, <1>2, ColumnsApplied
<1>6. a.people \in [People -> {"none", "attendee", "lecturer"}]
  <2>1. /\ g.people \in [People -> {"none", "attendee", "lecturer"}]
        /\ o.people \in [People -> {"none", "attendee", "lecturer"}]
    BY <1>3, RowFields
  <2> QED BY <1>4, <2>1
<1>7. a \in Row
  <2>1. /\ a.place \in Slots \cup {Bank, Gone} /\ a.length \in Lengths
        /\ a.locked \in BOOLEAN /\ a.rooms \in SUBSET Rooms /\ a.cover \in People \cup {None}
    BY <1>3, <1>5, RowFields
  <2> QED BY <1>4, <1>6, <2>1, IsRow
<1>8. InGrid(a)
  <2>1. Decision(t.kind, t.columns, t.read[s], g) /\ t.kind \in EventTypes
    BY <1>2 DEF Editing, Tx
  <2>2. \/ "place" \in t.columns /\ "length" \in t.columns
        \/ "place" \notin t.columns /\ "length" \notin t.columns
        \/ "place" \in t.columns /\ g.place = Bank
    BY <2>1 DEF Decision, EventTypes, Columns
  <2> QED BY <1>3, <1>5, <2>2 DEF InGrid, IsPlaced
<1> QED BY <1>1, <1>7, <1>8

\* Only rows that are to be edited are written.
LEMMA WrittenIsWanted ==
    ASSUME NEW t \in Tx, Editing(t)
    PROVE  t.written \subseteq DOMAIN t.goal
<1>1. t.ids[1] \in DOMAIN t.goal
  <2>1. CASE \E s \in Sessions : t.ids = <<s>> /\ DOMAIN t.goal = {s}
    <3>1. PICK s \in Sessions : t.ids = <<s>> /\ DOMAIN t.goal = {s} BY <2>1
    <3> QED BY <3>1
  <2>2. CASE \E s, o \in Sessions : /\ s # o /\ t.kind = "SWAP"
                                    /\ t.ids = <<s, o>> /\ DOMAIN t.goal = {s, o}
    <3>1. PICK s \in Sessions, o \in Sessions : t.ids = <<s, o>> /\ DOMAIN t.goal = {s, o}
      BY <2>2
    <3> QED BY <3>1
  <2> QED BY <2>1, <2>2 DEF Editing, NamesRows
<1>2. t.pc \in {"write", "log", "detect", "record", "commit"} BY DEF Editing, Tx
<1> QED BY <1>1, <1>2 DEF Editing

\* What a transaction sees are rows the schema admits, in the grid.
LEMMA SeesFits ==
    ASSUME EditInv, NEW e \in Editors
    PROVE  Sees(e) \in [Sessions -> Row] /\ \A s \in Sessions : InGrid(Sees(e)[s])
<1>1. tx[e] \in Tx /\ Shape(tx[e]) BY DEF EditInv
<1>2. ASSUME NEW s \in Sessions PROVE Sees(e)[s] \in Row /\ InGrid(Sees(e)[s])
  <2>1. CASE s \in tx[e].written
    <3>1. Editing(tx[e]) BY <1>1, <2>1, NoTxFields DEF Shape, Reading
    <3>2. s \in DOMAIN tx[e].goal BY <1>1, <2>1, <3>1, WrittenIsWanted
    <3> QED BY <1>1, <2>1, <3>1, <3>2, AppliedFits DEF Sees
  <2>2. CASE s \notin tx[e].written BY <2>2 DEF Sees, EditInv
  <2> QED BY <2>1, <2>2
<1>3. DOMAIN Sees(e) = Sessions /\ Sees(e) = [s \in Sessions |-> Sees(e)[s]] BY DEF Sees
<1> QED BY <1>2, <1>3

-----------------------------------------------------------------------------
(***************************************************************************)
(* Every row is one the schema admits                                      *)
(***************************************************************************)
\* The ways in which the database takes a step.
LEMMA StepIs ==
    ASSUME EditInv, NEW e \in Editors, Step(e)
    PROVE  \/ \E u : Opens(e, u) /\ (alone => \A f \in Editors : tx[f].pc = "idle")
           \/ \E u : ReadsOther(e, u)
           \/ \E u, s : Writes(e, u, s)
           \/ \E u : Logs(e, u)
           \/ \E u : Detects(e, u)
           \/ \E u : Records(e, u)
           \/ Commit(e) \/ Abort(e)
BY BeginOpens, SwapReads, WriteIs, LogIs, DetectIs, RecordIs DEF Step

\* Steps that change one transaction and commit nothing.
LEMMA BecomesFits ==
    ASSUME EditInv, alone' = alone, NEW e \in Editors, NEW u, Becomes(e, u), Shape(u)
    PROVE  EditInv'
<1>1. tx' \in [Editors -> Tx] /\ \A f \in Editors : Shape(tx'[f])
  BY DEF EditInv, Becomes
<1> QED BY <1>1 DEF EditInv, Becomes

\* Every step leaves rows and transactions as they should be.
LEMMA StepFits == EditInv /\ [Next]_vars => EditInv'
<1> SUFFICES ASSUME EditInv, [Next]_vars PROVE EditInv' OBVIOUS
<1>1. CASE UNCHANGED vars BY <1>1 DEF EditInv, vars
<1>2. CASE Next
  <2>1. PICK e \in Editors : Step(e) BY <1>2 DEF Next
  <2>2. alone' = alone BY <1>2 DEF Next
  <2>3. CASE \E u : Opens(e, u)
    BY <2>2, <2>3, BecomesFits DEF Opens, Becomes, Shape
  <2>4. CASE \E u : ReadsOther(e, u) BY <2>2, <2>4, BecomesFits DEF ReadsOther, Shape
  <2>5. CASE \E u, s : Writes(e, u, s) BY <2>2, <2>5, BecomesFits DEF Writes, Shape
  <2>6. CASE \E u : Logs(e, u) \/ Detects(e, u) \/ Records(e, u)
    BY <2>2, <2>6, BecomesFits DEF Logs, Detects, Records, Keeps, Shape
  <2>7. CASE Commit(e)
    <3>1. session' = Sees(e) /\ tx' = [tx EXCEPT ![e] = NoTx] BY <2>7 DEF Commit
    <3>2. session' \in [Sessions -> Row] /\ \A s \in Sessions : InGrid(session'[s])
      BY <3>1, SeesFits
    <3>3. recorded' \subseteq (recorded \ tx[e].cleared) \cup tx[e].found
      BY <2>7 DEF Commit
    <3>4. tx[e].found \subseteq Rules \X Sessions /\ recorded \subseteq Rules \X Sessions
      BY DEF EditInv, Tx
    <3>5. tx' \in [Editors -> Tx] /\ \A f \in Editors : Shape(tx'[f])
      BY <3>1, NoTxFields DEF EditInv, Shape
    <3> QED BY <2>2, <3>2, <3>3, <3>4, <3>5 DEF EditInv
  <2>8. CASE Abort(e)
    BY <2>2, <2>8, BecomesFits, NoTxFields DEF Abort, Becomes, Shape
  <2> QED BY <2>1, <2>3, <2>4, <2>5, <2>6, <2>7, <2>8, StepIs
<1> QED BY <1>1, <1>2

\* So they are at the beginning.
LEMMA InitFits == Init => EditInv
BY NoTxFields, EditAssumption, StartAssumption, PlacesAssumption
   DEF Init, EditInv, Shape, InGrid, IsPlaced

-----------------------------------------------------------------------------
(***************************************************************************)
(* Sequences                                                               *)
(***************************************************************************)
IsLog(l) == \E S : l \in Seq(S)

\* A log is numbered from one.
LEMMA LogLength ==
    ASSUME NEW l, IsLog(l)
    PROVE  Len(l) \in Nat /\ DOMAIN l = 1..Len(l)
BY DEF IsLog

\* n is l and x after it.
Extends(n, l, x) == /\ IsLog(n) /\ Len(n) = Len(l) + 1
                    /\ \A i \in DOMAIN l : n[i] = l[i]
                    /\ n[Len(l) + 1] = x

\* Append extends it.
LEMMA LogAppended == ASSUME NEW l, IsLog(l), NEW x PROVE Extends(Append(l, x), l, x)
<1>1. PICK S : l \in Seq(S) BY DEF IsLog
<1>2. l \in Seq(S \cup {x}) BY <1>1
<1> QED BY <1>2, AppendProperties DEF IsLog, Extends

\* Its entries replaced one by one.
LEMMA LogRewritten ==
    ASSUME NEW l, IsLog(l), NEW n, DOMAIN n = DOMAIN l, n = [i \in DOMAIN l |-> n[i]]
    PROVE  IsLog(n) /\ Len(n) = Len(l)
<1>1. Len(l) \in Nat /\ DOMAIN l = 1..Len(l) BY LogLength
<1>2. PICK S : S = {n[i] : i \in DOMAIN l} OBVIOUS
<1>3. n \in [1..Len(l) -> S] BY <1>1, <1>2
<1>4. n \in Seq(S) BY <1>1, <1>3
<1>5. Len(n) = Len(l) BY <1>1, <1>3, <1>4
<1> QED BY <1>4, <1>5 DEF IsLog

\* One entry taken out.
LEMMA LogRemoved ==
    ASSUME NEW l, IsLog(l), NEW k \in DOMAIN l, NEW n, n = RemoveAt(l, k)
    PROVE  /\ IsLog(n) /\ Len(n) = Len(l) - 1
           /\ \A i \in 1..Len(l) - 1 : n[i] = IF i < k THEN l[i] ELSE l[i + 1]
<1>1. PICK S : l \in Seq(S) BY DEF IsLog
<1>2. Len(l) \in Nat /\ DOMAIN l = 1..Len(l) /\ k \in 1..Len(l) BY LogLength
<1>3. \A i \in 1..Len(l) : l[i] \in S BY <1>1
<1>4. PICK a, b : a = SubSeq(l, 1, k - 1) /\ b = SubSeq(l, k + 1, Len(l)) OBVIOUS
<1>5. /\ a \in Seq(S) /\ Len(a) = k - 1 /\ \A i \in 1..k - 1 : a[i] = l[i]
  <2>1. \A i \in 1..k - 1 : l[i] \in S BY <1>2, <1>3
  <2>2. k - 1 \in Int /\ 1 \in Int BY <1>2
  <2>3. /\ SubSeq(l, 1, k - 1) \in Seq(S)
        /\ Len(SubSeq(l, 1, k - 1)) = IF 1 <= k - 1 THEN (k - 1) - 1 + 1 ELSE 0
        /\ \A i \in 1..(k - 1) - 1 + 1 : SubSeq(l, 1, k - 1)[i] = l[1 + i - 1]
    BY <2>1, <2>2, SubSeqProperties
  <2> QED BY <1>2, <1>4, <2>3
<1>6. /\ b \in Seq(S) /\ Len(b) = Len(l) - k
      /\ \A i \in 1..Len(l) - k : b[i] = l[k + i]
  <2>1. \A i \in k + 1..Len(l) : l[i] \in S BY <1>2, <1>3
  <2>2. k + 1 \in Int /\ Len(l) \in Int BY <1>2
  <2>3. /\ SubSeq(l, k + 1, Len(l)) \in Seq(S)
        /\ Len(SubSeq(l, k + 1, Len(l))) =
             IF k + 1 <= Len(l) THEN Len(l) - (k + 1) + 1 ELSE 0
        /\ \A i \in 1..Len(l) - (k + 1) + 1 :
             SubSeq(l, k + 1, Len(l))[i] = l[k + 1 + i - 1]
    BY <2>1, <2>2, SubSeqProperties, SMTT(30)
  <2> QED BY <1>2, <1>4, <2>3, SMTT(30)
<1>7. n = a \o b BY <1>4 DEF RemoveAt
<1>8. /\ n \in Seq(S) /\ Len(n) = Len(a) + Len(b)
      /\ \A i \in 1..Len(a) + Len(b) : n[i] = IF i <= Len(a) THEN a[i] ELSE b[i - Len(a)]
  BY <1>5, <1>6, <1>7, ConcatProperties
<1>9. Len(n) = Len(l) - 1 BY <1>2, <1>5, <1>6, <1>8
<1>10. ASSUME NEW i \in 1..Len(l) - 1 PROVE n[i] = IF i < k THEN l[i] ELSE l[i + 1]
  <2>1. CASE i < k BY <1>2, <1>5, <1>6, <1>8, <2>1
  <2>2. CASE ~(i < k)
    <3>1. i - Len(a) \in 1..Len(l) - k /\ ~(i <= Len(a)) /\ i \in 1..Len(a) + Len(b)
      BY <1>2, <1>5, <1>6, <2>2, SMTT(30)
    <3>2. n[i] = b[i - Len(a)] BY <1>8, <3>1
    <3>3. b[i - Len(a)] = l[k + (i - Len(a))] BY <1>6, <3>1
    <3>4. k + (i - Len(a)) = i + 1 BY <1>2, <1>5
    <3> QED BY <2>2, <3>2, <3>3, <3>4
  <2> QED BY <2>1, <2>2
<1> QED BY <1>8, <1>9, <1>10 DEF IsLog

-----------------------------------------------------------------------------
(***************************************************************************)
(* The log has room                                                        *)
(***************************************************************************)
\* Transactions that have appended their event.
Logged(t) == t.pc \in {"detect", "record", "commit"} \/ (t.kind = "DELETE" /\ t.pc = "write")

\* Transactions that are yet to append it.
Pending == {f \in Editors : tx[f].pc # "idle" /\ ~Logged(tx[f])}

\* A transaction and the event it has appended; committed events have no owner.
LogInv ==
    /\ IsLog(log)
    /\ \A i \in DOMAIN log : log[i] = [by |-> log[i].by, to |-> log[i].to]
    /\ \A i \in DOMAIN log : log[i].by # None =>
         /\ log[i].by \in Editors /\ Logged(tx[log[i].by])
         /\ log[i].to = Payload(tx[log[i].by])
    /\ \A i, j \in DOMAIN log : log[i].by # None /\ log[i].by = log[j].by => i = j
    /\ \A e \in Editors : Logged(tx[e]) => \E i \in DOMAIN log : log[i].by = e
    /\ Len(log) + Cardinality(Pending) <= MaxEvents

\* The event of a transaction depends on what it wants only.
LEMMA PayloadSame ==
    ASSUME NEW t, NEW u, SameEdit(t, u) PROVE Payload(u) = Payload(t)
BY DEF SameEdit, Payload

\* Steps that leave the log alone, and do not add to those that are to write.
LEMMA LogUntouched ==
    ASSUME EditInv, LogInv, NEW e \in Editors, NEW u, Becomes(e, u), log' = log,
           Logged(u) <=> Logged(tx[e]), Logged(u) => SameEdit(tx[e], u),
           tx[e].pc = "idle" => u.pc = "idle"
    PROVE  LogInv'
<1>1. \A f \in Editors : tx'[f] = IF f = e THEN u ELSE tx[f] BY DEF Becomes, EditInv
<1>2. \A f \in Editors : Logged(tx'[f]) <=> Logged(tx[f]) BY <1>1
<1>3. \A f \in Editors : Logged(tx[f]) => Payload(tx'[f]) = Payload(tx[f])
  BY <1>1, PayloadSame
<1>4. Len(log) + Cardinality(Pending') <= MaxEvents
  <2>1. Pending' \in SUBSET Pending BY <1>1, <1>2 DEF Pending
  <2>2. IsFiniteSet(Pending)
    <3>1. Pending \in SUBSET Editors BY DEF Pending
    <3> QED BY <3>1, EditAssumption, FS_Subset
  <2>3. /\ Cardinality(Pending') <= Cardinality(Pending)
        /\ Cardinality(Pending') \in Nat /\ Cardinality(Pending) \in Nat
    BY <2>1, <2>2, FS_Subset, FS_CardinalityType
  <2>4. Len(log) \in Nat /\ MaxEvents \in Nat BY LogLength, EditAssumption DEF LogInv
  <2>5. \A l, p, q, m \in Nat : l + q <= m /\ p <= q => l + p <= m OBVIOUS
  <2> QED BY <2>3, <2>4, <2>5 DEF LogInv
<1>5. /\ IsLog(log) /\ \A i \in DOMAIN log : log[i] = [by |-> log[i].by, to |-> log[i].to]
      /\ \A i, j \in DOMAIN log : log[i].by # None /\ log[i].by = log[j].by => i = j
  BY DEF LogInv
<1>6. \A i \in DOMAIN log : log[i].by # None =>
        /\ log[i].by \in Editors /\ Logged(tx'[log[i].by])
        /\ log[i].to = Payload(tx'[log[i].by])
  BY <1>2, <1>3 DEF LogInv
<1>7. \A f \in Editors : Logged(tx'[f]) => \E i \in DOMAIN log : log[i].by = f
  BY <1>2 DEF LogInv
<1>8. log' = log OBVIOUS
<1> QED BY <1>4, <1>5, <1>6, <1>7, <1>8 DEF LogInv, Logged

\* A request is let in only if there will be room for its event.
LEMMA OpenedLog ==
    ASSUME EditInv, LogInv, NEW e \in Editors, NEW u, Opens(e, u)
    PROVE  LogInv'
<1>1. /\ \A f \in Editors : tx'[f] = IF f = e THEN u ELSE tx[f]
      /\ log' = log /\ tx[e].pc = "idle"
  BY DEF Opens, EditInv
<1>2. ~Logged(u) BY DEF Opens, Reading, FirstStep, Logged
<1>3. ~Logged(tx[e]) BY <1>1, NoTxFields DEF EditInv, Shape, Reading, Editing, Logged, NoTx
<1>4. \A f \in Editors : /\ Logged(tx'[f]) <=> Logged(tx[f])
                         /\ Logged(tx[f]) => tx'[f] = tx[f]
  BY <1>1, <1>2, <1>3
<1>5. Len(log) + Cardinality(Pending') <= MaxEvents
  <2>1. PICK B : B = {f \in Editors : tx[f].pc # "idle"} OBVIOUS
  <2>2. B \in SUBSET Editors /\ Pending' \in SUBSET (B \cup {e}) /\ e \notin B
    BY <1>1, <1>4, <2>1 DEF Pending
  <2>3. IsFiniteSet(B) BY <2>2, EditAssumption, FS_Subset
  <2>4. IsFiniteSet(B \cup {e}) /\ Cardinality(B \cup {e}) = Cardinality(B) + 1
    BY <2>2, <2>3, FS_AddElement
  <2>5. /\ Cardinality(Pending') <= Cardinality(B \cup {e})
        /\ Cardinality(Pending') \in Nat /\ Cardinality(B) \in Nat
    BY <2>2, <2>3, <2>4, FS_Subset, FS_CardinalityType
  <2>6. Len(log) \in Nat /\ MaxEvents \in Nat BY LogLength, EditAssumption DEF LogInv
  <2>7. Len(log) + Cardinality(B) < MaxEvents BY <2>1 DEF Opens
  <2>8. \A l, p, b, m \in Nat : l + b < m /\ p <= b + 1 => l + p <= m OBVIOUS
  <2> QED BY <2>4, <2>5, <2>6, <2>7, <2>8
<1>6. \A i \in DOMAIN log : log[i].by # None =>
        /\ log[i].by \in Editors /\ Logged(tx'[log[i].by])
        /\ log[i].to = Payload(tx'[log[i].by])
  BY <1>4 DEF LogInv
<1>7. \A f \in Editors : Logged(tx'[f]) => \E i \in DOMAIN log : log[i].by = f
  BY <1>4 DEF LogInv
<1>8. /\ IsLog(log) /\ \A i \in DOMAIN log : log[i] = [by |-> log[i].by, to |-> log[i].to]
      /\ \A i, j \in DOMAIN log : log[i].by # None /\ log[i].by = log[j].by => i = j
  BY DEF LogInv
<1> QED BY <1>1, <1>5, <1>6, <1>7, <1>8 DEF LogInv, Logged

\* The event of a transaction that had none is the last one.
LEMMA AppendedLog ==
    ASSUME EditInv, LogInv, NEW e \in Editors, NEW u, Logs(e, u)
    PROVE  LogInv'
<1>0. PICK t : t = tx[e] OBVIOUS
<1>1. /\ \A f \in Editors : tx'[f] = IF f = e THEN u ELSE tx[f]
      /\ t.pc = "log" /\ SameEdit(t, u)
  BY <1>0 DEF Logs, Becomes, Keeps, EditInv
<1>2. ~Logged(t) /\ Logged(u) BY <1>0, <1>1 DEF Logs, Logged, AfterLog, SameEdit
<1>a. e # None BY PlacesAssumption
<1>3. PICK x : x = [by |-> e, to |-> Payload(t)] OBVIOUS
<1>4. x = [by |-> x.by, to |-> x.to] /\ x.by = e /\ x.to = Payload(u)
  BY <1>1, <1>3, PayloadSame
<1>5. PICK n : n = log' OBVIOUS
<1>6. /\ IsLog(n) /\ Len(n) = Len(log) + 1
      /\ \A i \in DOMAIN log : n[i] = log[i]
      /\ n[Len(log) + 1] = x
  <2>1. n = Append(log, x) BY <1>0, <1>3, <1>5 DEF Logs
  <2>2. IsLog(log) BY DEF LogInv
  <2>3. Extends(Append(log, x), log, x) BY <2>2, LogAppended
  <2> QED BY <2>1, <2>3 DEF Extends
<1>7. /\ Len(log) \in Nat /\ DOMAIN log = 1..Len(log)
      /\ DOMAIN n = 1..(Len(log) + 1)
  BY <1>6, LogLength DEF LogInv
<1>8. \A i \in DOMAIN n : (i \in DOMAIN log /\ n[i] = log[i]) \/ (i = Len(log) + 1 /\ n[i] = x)
  BY <1>6, <1>7
<1>9. \A i \in DOMAIN log : log[i].by # e BY <1>0, <1>2, <1>a DEF LogInv
<1>10. Len(n) + Cardinality(Pending') <= MaxEvents
  <2>1. Pending' = Pending \ {e} /\ e \in Pending
    BY <1>0, <1>1, <1>2 DEF Pending
  <2>2. IsFiniteSet(Pending)
    <3>1. Pending \in SUBSET Editors BY DEF Pending
    <3> QED BY <3>1, EditAssumption, FS_Subset
  <2>3. /\ Cardinality(Pending') = Cardinality(Pending) - 1
        /\ Cardinality(Pending) \in Nat
    BY <2>1, <2>2, FS_RemoveElement, FS_CardinalityType
  <2> QED BY <1>6, <1>7, <2>3, EditAssumption DEF LogInv
<1>11. \A i \in DOMAIN n : n[i] = [by |-> n[i].by, to |-> n[i].to]
  BY <1>4, <1>8 DEF LogInv
<1>12. ASSUME NEW i \in DOMAIN n, n[i].by # None
       PROVE  /\ n[i].by \in Editors /\ Logged(tx'[n[i].by])
              /\ n[i].to = Payload(tx'[n[i].by])
  <2>1. CASE i \in DOMAIN log /\ n[i] = log[i]
    BY <1>1, <1>9, <1>12, <2>1 DEF LogInv
  <2>2. CASE n[i] = x BY <1>1, <1>2, <1>4, <2>2
  <2> QED BY <1>8, <2>1, <2>2
<1>13. ASSUME NEW i \in DOMAIN n, NEW j \in DOMAIN n, n[i].by # None, n[i].by = n[j].by
       PROVE  i = j
  BY <1>4, <1>8, <1>9, <1>13 DEF LogInv
<1>14. ASSUME NEW f \in Editors, Logged(tx'[f]) PROVE \E i \in DOMAIN n : n[i].by = f
  <2>1. CASE f = e
    <3>1. Len(log) + 1 \in DOMAIN n BY <1>7
    <3> QED BY <1>4, <1>6, <2>1, <3>1
  <2>2. CASE f # e
    <3>1. PICK i \in DOMAIN log : log[i].by = f BY <1>1, <1>14, <2>2 DEF LogInv
    <3> QED BY <1>6, <1>7, <3>1
  <2> QED BY <2>1, <2>2
<1> QED BY <1>5, <1>6, <1>10, <1>11, <1>12, <1>13, <1>14 DEF LogInv, Logged

\* Of a transaction that ends the others take no notice.
LEMMA OthersStay ==
    ASSUME EditInv, NEW e \in Editors, tx' = [tx EXCEPT ![e] = NoTx]
    PROVE  /\ \A f \in Editors \ {e} : tx'[f] = tx[f]
           /\ tx'[e] = NoTx /\ ~Logged(tx'[e])
           /\ Pending' = Pending \ {e}
<1>1. \A f \in Editors : tx'[f] = IF f = e THEN NoTx ELSE tx[f] BY DEF EditInv
<1>2. ~Logged(NoTx) BY DEF Logged, NoTx
<1>3. Pending' = Pending \ {e} BY <1>1, NoTxFields DEF Pending
<1> QED BY <1>1, <1>2, <1>3

\* How many events are outstanding.
LEMMA PendingFinite ==
    /\ IsFiniteSet(Pending) /\ Cardinality(Pending) \in Nat
    /\ \A e : /\ Cardinality(Pending \ {e}) \in Nat
              /\ Cardinality(Pending \ {e}) <= Cardinality(Pending)
              /\ e \in Pending => Cardinality(Pending \ {e}) = Cardinality(Pending) - 1
<1>1. Pending \in SUBSET Editors BY DEF Pending
<1>2. IsFiniteSet(Pending) /\ Cardinality(Pending) \in Nat
  BY <1>1, EditAssumption, FS_Subset, FS_CardinalityType
<1>3. ASSUME NEW e
      PROVE  /\ IsFiniteSet(Pending \ {e})
             /\ Cardinality(Pending \ {e}) =
                  IF e \in Pending THEN Cardinality(Pending) - 1 ELSE Cardinality(Pending)
  BY <1>2, FS_RemoveElement
<1>4. ASSUME NEW e PROVE Cardinality(Pending \ {e}) \in Nat BY <1>3, FS_CardinalityType
<1> QED BY <1>2, <1>3, <1>4

\* What a commit does to the log.
LEMMA CommittedEntries ==
    ASSUME EditInv, LogInv, NEW e \in Editors, NEW n, n = log', Commit(e)
    PROVE  /\ IsLog(n) /\ DOMAIN n = DOMAIN log /\ Len(n) = Len(log)
           /\ \A i \in DOMAIN log : /\ n[i] = [by |-> n[i].by, to |-> n[i].to]
                                    /\ n[i].to = log[i].to
                                    /\ n[i].by = IF log[i].by = e THEN None ELSE log[i].by
<1>1. n = [i \in DOMAIN log |-> IF log[i].by = e THEN [log[i] EXCEPT !.by = None] ELSE log[i]]
  BY DEF Commit
<1>2. IsLog(log) BY DEF LogInv
<1>3. IsLog(n) /\ Len(n) = Len(log)
  <2>1. DOMAIN n = DOMAIN log /\ n = [i \in DOMAIN log |-> n[i]] BY <1>1
  <2> QED BY <1>2, <2>1, LogRewritten
<1>4. ASSUME NEW i \in DOMAIN log
      PROVE  /\ n[i] = [by |-> n[i].by, to |-> n[i].to]
             /\ n[i].to = log[i].to
             /\ n[i].by = IF log[i].by = e THEN None ELSE log[i].by
  <2>1. log[i] = [by |-> log[i].by, to |-> log[i].to] BY DEF LogInv
  <2>2. PICK b, v : log[i] = [by |-> b, to |-> v] BY <2>1
  <2>3. [log[i] EXCEPT !.by = None] = [by |-> None, to |-> v] BY <2>2
  <2> QED BY <1>1, <2>2, <2>3
<1> QED BY <1>1, <1>3, <1>4

\* A commit leaves the log in order.
LEMMA CommittedLog ==
    ASSUME EditInv, LogInv, NEW e \in Editors, Commit(e)
    PROVE  LogInv'
<1>1. PICK n : n = log' OBVIOUS
<1>2. /\ IsLog(n) /\ DOMAIN n = DOMAIN log /\ Len(n) = Len(log)
      /\ \A i \in DOMAIN log : /\ n[i] = [by |-> n[i].by, to |-> n[i].to]
                               /\ n[i].to = log[i].to
                               /\ n[i].by = IF log[i].by = e THEN None ELSE log[i].by
  BY <1>1, CommittedEntries
<1>3. tx' = [tx EXCEPT ![e] = NoTx] BY DEF Commit
<1>4. /\ \A f \in Editors \ {e} : tx'[f] = tx[f]
      /\ ~Logged(tx'[e]) /\ Pending' = Pending \ {e}
  BY <1>3, OthersStay
<1>5. Len(n) + Cardinality(Pending') <= MaxEvents
  <2>1. Len(log) \in Nat BY LogLength DEF LogInv
  <2>2. /\ Cardinality(Pending') \in Nat /\ Cardinality(Pending) \in Nat
        /\ Cardinality(Pending') <= Cardinality(Pending)
    BY <1>4, PendingFinite
  <2>3. Len(log) + Cardinality(Pending) <= MaxEvents BY DEF LogInv
  <2> QED BY <1>2, <2>1, <2>2, <2>3, EditAssumption
<1>6. ASSUME NEW i \in DOMAIN n, n[i].by # None
      PROVE  /\ n[i].by \in Editors /\ Logged(tx'[n[i].by])
             /\ n[i].to = Payload(tx'[n[i].by])
  BY <1>2, <1>4, <1>6 DEF LogInv
<1>7. ASSUME NEW i \in DOMAIN n, NEW j \in DOMAIN n, n[i].by # None, n[i].by = n[j].by
      PROVE  i = j
  BY <1>2, <1>7 DEF LogInv
<1>8. ASSUME NEW f \in Editors, Logged(tx'[f]) PROVE \E i \in DOMAIN n : n[i].by = f
  BY <1>2, <1>4, <1>8 DEF LogInv
<1> QED BY <1>1, <1>2, <1>5, <1>6, <1>7, <1>8 DEF LogInv, Logged

\* What a rollback does to the log: nothing, or the event of e is not there.
Dropped(e, n, k) ==
    /\ k \in DOMAIN log /\ log[k].by = e
    /\ IsLog(n) /\ Len(n) = Len(log) - 1
    /\ \A i \in DOMAIN n : n[i] = IF i < k THEN log[i] ELSE log[i + 1]

\* A rollback removes the event of its transaction, if it has one.
LEMMA AbortedEntries ==
    ASSUME LogInv, NEW e \in Editors, Abort(e), NEW n, n = log'
    PROVE  \/ n = log /\ \A i \in DOMAIN log : log[i].by # e
           \/ \E k : Dropped(e, n, k)
<1>1. PICK is : is = {i \in DOMAIN log : log[i].by = e} OBVIOUS
<1>2. n = IF is = {} THEN log ELSE RemoveAt(log, CHOOSE i \in is : TRUE)
  BY <1>1 DEF Abort, Without
<1>3. CASE is = {} BY <1>1, <1>2, <1>3
<1>4. CASE is # {}
  <2>1. PICK k : k = CHOOSE i \in is : TRUE OBVIOUS
  <2>2. k \in is BY <1>4, <2>1
  <2>3. k \in DOMAIN log /\ log[k].by = e BY <1>1, <2>2
  <2>4. n = RemoveAt(log, k) BY <1>2, <1>4, <2>1
  <2>5. IsLog(log) BY DEF LogInv
  <2>6. /\ IsLog(n) /\ Len(n) = Len(log) - 1
        /\ \A i \in 1..Len(log) - 1 : n[i] = IF i < k THEN log[i] ELSE log[i + 1]
    BY <2>3, <2>4, <2>5, LogRemoved
  <2>7. DOMAIN n = 1..Len(log) - 1 BY <2>6, LogLength
  <2>8. Dropped(e, n, k) BY <2>3, <2>6, <2>7 DEF Dropped
  <2> QED BY <2>8
<1> QED BY <1>3, <1>4

\* Where the entries have gone.
LEMMA DroppedAt ==
    ASSUME IsLog(log), NEW e, NEW n, NEW k, Dropped(e, n, k)
    PROVE  /\ \A i \in DOMAIN n : LET o == IF i < k THEN i ELSE i + 1
                                  IN  o \in DOMAIN log \ {k} /\ n[i] = log[o]
           /\ \A o \in DOMAIN log \ {k} : LET i == IF o < k THEN o ELSE o - 1
                                          IN  i \in DOMAIN n /\ n[i] = log[o]
<1>1. /\ Len(log) \in Nat /\ DOMAIN log = 1..Len(log) /\ k \in 1..Len(log)
      /\ DOMAIN n = 1..Len(log) - 1
  BY LogLength DEF Dropped
<1>2. ASSUME NEW i \in DOMAIN n
      PROVE  LET o == IF i < k THEN i ELSE i + 1
             IN  o \in DOMAIN log \ {k} /\ n[i] = log[o]
  <2>1. i \in 1..Len(log) - 1 /\ n[i] = IF i < k THEN log[i] ELSE log[i + 1]
    BY <1>1 DEF Dropped
  <2> QED BY <1>1, <2>1
<1>3. ASSUME NEW o \in DOMAIN log \ {k}
      PROVE  LET i == IF o < k THEN o ELSE o - 1
             IN  i \in DOMAIN n /\ n[i] = log[o]
  <2>1. CASE o < k
    <3>1. o \in DOMAIN n BY <1>1, <2>1
    <3>2. n[o] = log[o] BY <2>1, <3>1 DEF Dropped
    <3> QED BY <2>1, <3>1, <3>2
  <2>2. CASE ~(o < k)
    <3>1. o - 1 \in DOMAIN n /\ ~(o - 1 < k) /\ (o - 1) + 1 = o BY <1>1, <2>2
    <3>2. n[o - 1] = log[(o - 1) + 1] BY <3>1 DEF Dropped
    <3> QED BY <2>2, <3>1, <3>2
  <2> QED BY <2>1, <2>2
<1> QED BY <1>2, <1>3

\* A rollback leaves the log in order.
LEMMA AbortedLog ==
    ASSUME EditInv, LogInv, NEW e \in Editors, Abort(e)
    PROVE  LogInv'
<1>1. PICK n : n = log' OBVIOUS
<1>2. tx' = [tx EXCEPT ![e] = NoTx] BY DEF Abort
<1>3. /\ \A f \in Editors \ {e} : tx'[f] = tx[f]
      /\ ~Logged(tx'[e]) /\ Pending' = Pending \ {e}
  BY <1>2, OthersStay
<1>4. Len(log) \in Nat /\ MaxEvents \in Nat BY LogLength, EditAssumption DEF LogInv
<1>a. e # None BY PlacesAssumption
<1>5. CASE n = log /\ \A i \in DOMAIN log : log[i].by # e
  <2>1. Len(n) + Cardinality(Pending') <= MaxEvents
    <3>1. Len(n) = Len(log) BY <1>5
    <3>2. /\ Cardinality(Pending') \in Nat /\ Cardinality(Pending) \in Nat
          /\ Cardinality(Pending') <= Cardinality(Pending)
      BY <1>3, PendingFinite
    <3>3. Len(log) + Cardinality(Pending) <= MaxEvents BY DEF LogInv
    <3> QED BY <1>4, <3>1, <3>2, <3>3
  <2>2. \A i \in DOMAIN n : n[i].by # None =>
          /\ n[i].by \in Editors /\ Logged(tx'[n[i].by])
          /\ n[i].to = Payload(tx'[n[i].by])
    BY <1>3, <1>5 DEF LogInv
  <2>3. \A f \in Editors : Logged(tx'[f]) => \E i \in DOMAIN n : n[i].by = f
    BY <1>3, <1>5 DEF LogInv
  <2>4. /\ IsLog(n) /\ \A i \in DOMAIN n : n[i] = [by |-> n[i].by, to |-> n[i].to]
        /\ \A i, j \in DOMAIN n : n[i].by # None /\ n[i].by = n[j].by => i = j
    BY <1>5 DEF LogInv
  <2> QED BY <1>1, <2>1, <2>2, <2>3, <2>4 DEF LogInv, Logged
<1>6. CASE \E k : Dropped(e, n, k)
  <2>1. PICK k : Dropped(e, n, k) BY <1>6
  <2>a. IsLog(log) BY DEF LogInv
  <2>2. \A i \in DOMAIN n : \E o \in DOMAIN log \ {k} :
          n[i] = log[o] /\ o = IF i < k THEN i ELSE i + 1
    BY <2>1, <2>a, DroppedAt
  <2>3. \A o \in DOMAIN log \ {k} : \E i \in DOMAIN n : n[i] = log[o]
    BY <2>1, <2>a, DroppedAt
  <2>4. /\ \A o \in DOMAIN log \ {k} : log[o].by # e
        /\ k \in DOMAIN log /\ log[k].by = e
    BY <1>a, <2>1 DEF Dropped, LogInv
  <2>5. Len(n) + Cardinality(Pending') <= MaxEvents
    <3>1. Len(n) = Len(log) - 1 BY <2>1 DEF Dropped
    <3>2. /\ Cardinality(Pending') \in Nat /\ Cardinality(Pending) \in Nat
          /\ Cardinality(Pending') <= Cardinality(Pending)
      BY <1>3, PendingFinite
    <3>3. Len(log) + Cardinality(Pending) <= MaxEvents BY DEF LogInv
    <3> QED BY <1>4, <3>1, <3>2, <3>3
  <2>6. ASSUME NEW i \in DOMAIN n, n[i].by # None
        PROVE  /\ n[i].by \in Editors /\ Logged(tx'[n[i].by])
               /\ n[i].to = Payload(tx'[n[i].by])
    BY <1>3, <2>2, <2>4, <2>6 DEF LogInv
  <2>7. ASSUME NEW i \in DOMAIN n, NEW j \in DOMAIN n, n[i].by # None, n[i].by = n[j].by
        PROVE  i = j
    <3>1. PICK a \in DOMAIN log, b \in DOMAIN log :
            /\ n[i] = log[a] /\ a = IF i < k THEN i ELSE i + 1
            /\ n[j] = log[b] /\ b = IF j < k THEN j ELSE j + 1
      BY <2>2
    <3>2. a = b BY <2>7, <3>1 DEF LogInv
    <3>3. i \in Int /\ j \in Int /\ k \in Int
      <4>1. /\ DOMAIN n = 1..Len(n) /\ Len(n) \in Nat
            /\ DOMAIN log = 1..Len(log) /\ Len(log) \in Nat /\ k \in DOMAIN log
        BY <2>1, <2>a, LogLength DEF Dropped
      <4> QED BY <4>1
    <3> QED BY <3>1, <3>2, <3>3
  <2>8. ASSUME NEW f \in Editors, Logged(tx'[f]) PROVE \E i \in DOMAIN n : n[i].by = f
    <3>1. f # e /\ Logged(tx[f]) BY <1>3, <2>8
    <3>2. PICK o \in DOMAIN log : log[o].by = f BY <3>1 DEF LogInv
    <3>3. o # k BY <2>4, <3>1, <3>2
    <3> QED BY <2>3, <3>2, <3>3
  <2>9. IsLog(n) /\ \A i \in DOMAIN n : n[i] = [by |-> n[i].by, to |-> n[i].to]
    BY <2>1, <2>2 DEF Dropped, LogInv
  <2> QED BY <1>1, <2>5, <2>6, <2>7, <2>8, <2>9 DEF LogInv, Logged
<1> QED BY <1>1, <1>5, <1>6, AbortedEntries

\* Every step leaves the log in order and within its bound.
LEMMA StepLog == EditInv /\ LogInv /\ [Next]_vars => LogInv'
<1> SUFFICES ASSUME EditInv, LogInv, [Next]_vars PROVE LogInv' OBVIOUS
<1>1. CASE UNCHANGED vars
  <2>1. log' = log /\ tx' = tx BY <1>1 DEF vars
  <2>2. Pending' = Pending BY <2>1 DEF Pending, Logged
  <2> QED BY <2>1, <2>2 DEF LogInv, Logged
<1>2. CASE Next
  <2>1. PICK e \in Editors : Step(e) BY <1>2 DEF Next
  <2>2. CASE \E u : ReadsOther(e, u)
    <3>1. PICK u : ReadsOther(e, u) BY <2>2
    <3>2. /\ Becomes(e, u) /\ log' = log /\ tx[e].pc = "read" /\ tx[e].kind = "SWAP"
          /\ \/ u.pc = "idle" /\ u.kind = "MOVE"
             \/ u.pc = "write" /\ u.kind = "SWAP"
      BY <3>1 DEF ReadsOther, Reading, NoTx
    <3>3. ~Logged(u) /\ ~Logged(tx[e]) BY <3>2 DEF Logged
    <3> QED BY <3>2, <3>3, LogUntouched
  <2>3. CASE \E u, s : Writes(e, u, s)
    <3>1. PICK u, s : Writes(e, u, s) BY <2>3
    <3>2. /\ Becomes(e, u) /\ log' = log /\ SameEdit(tx[e], u) /\ tx[e].pc = "write"
          /\ u.pc \in {"write", IF tx[e].kind = "DELETE" THEN "commit" ELSE "log"}
          /\ u.kind = tx[e].kind
      BY <3>1 DEF Writes, SameEdit
    <3>3. Logged(u) <=> Logged(tx[e]) BY <3>2 DEF Logged
    <3>4. tx[e].pc # "idle" BY <3>2
    <3> QED BY <3>2, <3>3, <3>4, LogUntouched
  <2>4. CASE \E u : Detects(e, u) \/ Records(e, u)
    <3>1. PICK u : Detects(e, u) \/ Records(e, u) BY <2>4
    <3>2. /\ Becomes(e, u) /\ log' = log /\ SameEdit(tx[e], u)
          /\ tx[e].pc \in {"detect", "record"} /\ u.pc \in {"record", "commit"}
      BY <3>1 DEF Detects, Records, Keeps
    <3>3. Logged(u) /\ Logged(tx[e]) BY <3>2 DEF Logged
    <3>4. tx[e].pc # "idle" BY <3>2
    <3> QED BY <3>2, <3>3, <3>4, LogUntouched
  <2> QED BY <2>1, <2>2, <2>3, <2>4, StepIs, OpenedLog, AppendedLog, CommittedLog, AbortedLog
<1> QED BY <1>1, <1>2

\* The log begins empty.
LEMMA InitLog == Init => LogInv
<1> SUFFICES ASSUME Init PROVE LogInv OBVIOUS
<1>1. /\ log = <<>> /\ \A e \in Editors : tx[e] = NoTx BY DEF Init
<1>2. <<>> \in Seq({}) OBVIOUS
<1>3. IsLog(log) /\ DOMAIN log = {} /\ Len(log) = 0 BY <1>1, <1>2 DEF IsLog
<1>4. Pending = {} BY <1>1, NoTxFields DEF Pending
<1>5. Cardinality({}) = 0 BY FS_EmptySet
<1>6. \A e \in Editors : ~Logged(tx[e]) BY <1>1 DEF Logged, NoTx
<1> QED BY <1>3, <1>4, <1>5, <1>6, EditAssumption DEF LogInv

\* Every row is one the schema admits, no placement runs past the last block of
\* its day, whatever edits overlap.
THEOREM EditsTyped == Spec => []TypeOK
<1>1. EditInv /\ LogInv => TypeOK
  <2> SUFFICES ASSUME EditInv, LogInv PROVE TypeOK OBVIOUS
  <2>1. ASSUME NEW e \in Editors
        PROVE  LET t == tx[e] IN
          /\ t.pc \in {"idle", "read", "write", "log", "detect", "record", "commit"}
          /\ t.kind \in EventTypes /\ t.columns \subseteq Columns
          /\ DOMAIN t.read \subseteq Sessions /\ DOMAIN t.goal \subseteq Sessions
          /\ \A s \in DOMAIN t.goal : t.read[s] \in Row /\ t.goal[s] \in Row
          /\ t.written \cup t.involved \subseteq Sessions
          /\ t.found \cup t.cleared \subseteq Rules \X Sessions
    <3>1. PICK t \in Tx : t = tx[e] BY DEF EditInv
    <3>2. DOMAIN t.goal \subseteq DOMAIN t.read
      BY <3>1, NoTxFields DEF EditInv, Shape, Reading, Editing
    <3>3. t.goal \in Images /\ t.read \in Images BY DEF Tx
    <3>4. /\ DOMAIN t.read \subseteq Sessions /\ DOMAIN t.goal \subseteq Sessions
          /\ \A s \in DOMAIN t.goal : t.read[s] \in Row /\ t.goal[s] \in Row
      BY <3>2, <3>3 DEF Images
    <3> QED BY <3>1, <3>4 DEF Tx
  <2>2. Len(log) <= MaxEvents
    <3>1. Len(log) \in Nat BY LogLength DEF LogInv
    <3> QED BY <3>1, PendingFinite, EditAssumption DEF LogInv
  <2> QED BY <2>1, <2>2 DEF TypeOK, EditInv, InGrid
<1>2. Init => EditInv /\ LogInv BY InitFits, InitLog
<1>3. EditInv /\ LogInv /\ [Next]_vars => (EditInv /\ LogInv)' BY StepFits, StepLog
<1> QED BY <1>1, <1>2, <1>3, PTL DEF Spec

-----------------------------------------------------------------------------
(***************************************************************************)
(* Edits that keep out of each other's way                                 *)
(***************************************************************************)
\* One request at a time; or any number, none of which deletes a session, sets
\* its lecturers or has rooms to place.
Orderly == alone \/ (Rooms = {} /\ Kinds \cap {"DELETE", "SET_LECTURERS"} = {})

\* What a transaction knows of the committed rows, and who else may change them.
Knows(t) ==
    /\ alone => \A s \in DOMAIN t.read : t.read[s] = session[s]
    /\ t.kind = "CREATE" => \A s \in DOMAIN t.goal :
         session[s].place = Gone /\ t.read[s] = session[s]
    /\ t.kind # "CREATE" => \A s \in DOMAIN t.goal : session[s].place # Gone
    /\ t.pc = "read" => \A s \in DOMAIN t.read :
         t.read[s].place # Gone => session[s].place # Gone
    /\ t.kind = "UPDATE_DETAILS" => \A s \in t.written :
         t.read[s].people = session[s].people

\* Rows written by two transactions that are both open.
Compatible(t, u) ==
    t.written \cap u.written # {} =>
        /\ ~(LocksRow(t.kind) /\ LocksRow(u.kind))
        /\ ~("cover" \in t.columns /\ "cover" \in u.columns)

OrderInv ==
    /\ \A e, f \in Editors : alone /\ e # f => tx[e].pc = "idle" \/ tx[f].pc = "idle"
    /\ \A e \in Editors : tx[e].pc # "idle" => tx[e].kind \in Kinds
    /\ \A e, f \in Editors : e # f => Compatible(tx[e], tx[f])
    /\ Orderly => \A e \in Editors : Knows(tx[e])
    /\ Orderly => \A e, f \in Editors :
         e # f /\ tx[e].kind = "CREATE" /\ tx[f].kind = "CREATE" =>
             DOMAIN tx[e].goal \cap DOMAIN tx[f].goal = {}

\* The transaction that is not there knows nothing and is in nobody's way.
LEMMA NoTxKnows == Knows(NoTx) /\ \A t : Compatible(NoTx, t) /\ Compatible(t, NoTx)
BY NoTxFields DEF Knows, Compatible, NoTx

\* What is committed of a transaction.
LEMMA CommitChanges ==
    ASSUME EditInv, NEW e \in Editors, Commit(e)
    PROVE  /\ Editing(tx[e]) /\ tx[e].pc = "commit" /\ tx[e].written = DOMAIN tx[e].goal
           /\ Logged(tx[e])
           /\ tx' = [tx EXCEPT ![e] = NoTx]
           /\ \A s \in Sessions : session'[s] = IF s \in DOMAIN tx[e].goal
                                                  THEN Applied(tx[e], s) ELSE session[s]
<1>1. tx[e].pc = "commit" /\ session' = Sees(e) /\ tx' = [tx EXCEPT ![e] = NoTx]
  BY DEF Commit
<1>2. Editing(tx[e]) BY <1>1 DEF EditInv, Shape, Reading, NoTx
<1>3. tx[e].written = DOMAIN tx[e].goal BY <1>1, <1>2 DEF Editing
<1> QED BY <1>1, <1>2, <1>3 DEF Sees, Logged

\* Of requests that overlap none removes a session.
LEMMA NothingGoes ==
    ASSUME EditInv, OrderInv, Orderly, ~alone, NEW e \in Editors, Commit(e), NEW s \in Sessions,
           session[s].place # Gone
    PROVE  session'[s].place # Gone
<1>1. CASE s \notin DOMAIN tx[e].goal BY <1>1, CommitChanges
<1>2. CASE s \in DOMAIN tx[e].goal
  <2>1. /\ session'[s] = Applied(tx[e], s) /\ Editing(tx[e]) /\ tx[e].pc = "commit"
    BY <1>2, CommitChanges
  <2>2. tx[e].kind # "DELETE" BY <2>1 DEF OrderInv, Orderly
  <2>3. Decision(tx[e].kind, tx[e].columns, tx[e].read[s], tx[e].goal[s])
    BY <1>2, <2>1 DEF Editing
  <2>4. tx[e].kind \in EventTypes BY DEF EditInv, Tx
  <2>5. "place" \in tx[e].columns => tx[e].goal[s].place # Gone
    BY <2>2, <2>3, <2>4, PlacesAssumption DEF Decision, EventTypes, IsPlaced, Columns
  <2>6. Applied(tx[e], s).place =
          IF "place" \in tx[e].columns THEN tx[e].goal[s].place ELSE session[s].place
    <3>1. PICK t : t = tx[e] OBVIOUS
    <3>2. Applied(t, s).place = IF "place" \in t.columns THEN t.goal[s].place ELSE session[s].place
      BY ColumnsApplied
    <3> QED BY <3>1, <3>2
  <2> QED BY <2>1, <2>5, <2>6
<1> QED BY <1>1, <1>2

\* Two transactions want the same session, and neither creates it.
LEMMA CreatorsAlone ==
    ASSUME OrderInv, Orderly, NEW e \in Editors, NEW f \in Editors, e # f,
           NEW s \in DOMAIN tx[e].goal, s \in DOMAIN tx[f].goal
    PROVE  tx[e].kind # "CREATE" /\ tx[f].kind # "CREATE"
<1>1. Knows(tx[e]) /\ Knows(tx[f]) BY DEF OrderInv
<1> QED BY <1>1 DEF Knows, OrderInv

\* What others know still holds once a transaction is committed.
LEMMA OthersKnow ==
    ASSUME EditInv, OrderInv, Orderly, NEW e \in Editors, Commit(e), alone' = alone,
           NEW f \in Editors \ {e}
    PROVE  Knows(tx[f])'
<1>0. PICK t \in Tx : t = tx[f] /\ tx'[f] = t BY CommitChanges DEF EditInv
<1>1. Shape(t) /\ Knows(t) BY <1>0 DEF EditInv, OrderInv
<1>2. CASE t.pc = "idle"
  <2>1. t = NoTx BY <1>1, <1>2 DEF Shape, Reading, Editing
  <2> QED BY <1>0, <2>1, NoTxFields DEF Knows, NoTx
<1>3. CASE t.pc # "idle"
  <2>1. ~alone BY <1>0, <1>3, CommitChanges DEF OrderInv
  <2>2. DOMAIN t.read \subseteq Sessions /\ DOMAIN t.goal \subseteq Sessions
    BY DEF Tx, Images
  <2>3. \A s \in Sessions : session[s].place # Gone => session'[s].place # Gone
    BY <2>1, NothingGoes
  <2>4. ASSUME t.kind = "CREATE", NEW s \in DOMAIN t.goal PROVE session'[s] = session[s]
    <3>1. s \notin DOMAIN tx[e].goal BY <1>0, <2>4, CreatorsAlone
    <3> QED BY <2>2, <3>1, CommitChanges
  <2>5. ASSUME t.kind = "UPDATE_DETAILS", NEW s \in t.written
        PROVE  session'[s].people = session[s].people
    <3>1. t.written \subseteq Sessions BY DEF Tx
    <3>2. CASE s \notin DOMAIN tx[e].goal BY <3>1, <3>2, CommitChanges
    <3>3. CASE s \in DOMAIN tx[e].goal
      <4>1. /\ session'[s] = Applied(tx[e], s) /\ Editing(tx[e])
            /\ tx[e].written = DOMAIN tx[e].goal
        BY <3>1, <3>3, CommitChanges
      <4>2. ~LocksRow(tx[e].kind)
        <5>1. Compatible(t, tx[e]) BY <1>0 DEF OrderInv
        <5>2. LocksRow(t.kind) BY <2>5 DEF LocksRow
        <5> QED BY <2>5, <3>3, <4>1, <5>1, <5>2 DEF Compatible
      <4>3. s \in DOMAIN t.goal
        <5>1. Editing(t) BY <1>1, <2>5, <1>3 DEF Shape, Reading, NoTx
        <5> QED BY <2>5, <5>1, WrittenIsWanted
      <4>4. tx[e].kind \notin {"CREATE", "SET_LECTURERS"}
        <5>1. tx[e].kind # "CREATE" BY <1>0, <3>3, <4>3, CreatorsAlone
        <5>2. tx[e].kind \in Kinds BY CommitChanges DEF OrderInv
        <5> QED BY <2>1, <5>1, <5>2 DEF Orderly
      <4>5. tx[e].kind = "SUBSTITUTE" BY <4>2, <4>4 DEF LocksRow
      <4>6. "people" \notin tx[e].columns
        BY <3>3, <4>1, <4>5 DEF Editing, Decision
      <4>7. Applied(tx[e], s).people = [p \in People |-> session[s].people[p]]
        <5>1. PICK u : u = tx[e] OBVIOUS
        <5>2. Applied(u, s).people = [p \in People |-> IF p \in PeopleWritten(u, s)
                THEN u.goal[s].people[p] ELSE session[s].people[p]]
          BY AppliedIs
        <5>3. PeopleWritten(u, s) = {} BY <4>6, <5>1, AppliedIs
        <5> QED BY <5>1, <5>2, <5>3
      <4>8. session[s].people \in [People -> {"none", "attendee", "lecturer"}]
        BY <3>1, RowFields DEF EditInv
      <4> QED BY <4>1, <4>7, <4>8
    <3> QED BY <3>2, <3>3
  <2> QED BY <1>0, <1>1, <2>1, <2>2, <2>3, <2>4, <2>5 DEF Knows
<1> QED BY <1>2, <1>3

\* Steps that change one transaction and commit nothing.
LEMMA BecomesOrder ==
    ASSUME EditInv, OrderInv, alone' = alone, NEW e \in Editors, NEW u, Becomes(e, u),
           u.pc # "idle" => u.kind \in Kinds,
           alone /\ u.pc # "idle" => \A f \in Editors \ {e} : tx[f].pc = "idle",
           \A f \in Editors \ {e} : Compatible(u, tx[f]),
           Orderly => Knows(u),
           Orderly /\ u.kind = "CREATE" => \A f \in Editors \ {e} :
               tx[f].kind = "CREATE" => DOMAIN u.goal \cap DOMAIN tx[f].goal = {}
    PROVE  OrderInv'
<1>1. \A f \in Editors : tx'[f] = IF f = e THEN u ELSE tx[f] BY DEF Becomes, EditInv
<1>2. session' = session BY DEF Becomes
<1>3. \A f \in Editors : alone /\ f # e => u.pc = "idle" \/ tx[f].pc = "idle" OBVIOUS
<1>4. \A f, g \in Editors : alone /\ f # g => tx'[f].pc = "idle" \/ tx'[g].pc = "idle"
  BY <1>1, <1>3 DEF OrderInv
<1>5. \A f \in Editors : tx'[f].pc # "idle" => tx'[f].kind \in Kinds BY <1>1 DEF OrderInv
<1>6. \A t, v : Compatible(t, v) => Compatible(v, t) BY DEF Compatible
<1>7. \A f, g \in Editors : f # g => Compatible(tx'[f], tx'[g])
  BY <1>1, <1>6 DEF OrderInv
<1>8. Orderly => \A f \in Editors : Knows(tx'[f]) BY <1>1 DEF OrderInv
<1>9. Orderly => \A f, g \in Editors :
        f # g /\ tx'[f].kind = "CREATE" /\ tx'[g].kind = "CREATE" =>
            DOMAIN tx'[f].goal \cap DOMAIN tx'[g].goal = {}
  <2> SUFFICES ASSUME Orderly, NEW f \in Editors, NEW g \in Editors, f # g,
                      tx'[f].kind = "CREATE", tx'[g].kind = "CREATE"
               PROVE  DOMAIN tx'[f].goal \cap DOMAIN tx'[g].goal = {}
    OBVIOUS
  <2>1. CASE f # e /\ g # e BY <1>1, <2>1 DEF OrderInv
  <2>2. CASE f = e BY <1>1, <2>2
  <2>3. CASE g = e BY <1>1, <2>3
  <2> QED BY <2>1, <2>2, <2>3
<1>10. Orderly' <=> Orderly BY DEF Orderly
<1>11. (\A f \in Editors : Knows(tx'[f])) => \A f \in Editors : Knows(tx[f])'
  BY <1>2 DEF Knows
<1>12. (\A f, g \in Editors : f # g => Compatible(tx'[f], tx'[g]))
         => \A f, g \in Editors : f # g => Compatible(tx[f], tx[g])'
  BY DEF Compatible
<1> QED BY <1>4, <1>5, <1>7, <1>8, <1>9, <1>10, <1>11, <1>12 DEF OrderInv

\* An open transaction knows what it is about.
LEMMA OpenKnows ==
    ASSUME EditInv, NEW e \in Editors, NEW u, Opens(e, u)
    PROVE  Knows(u)
<1>1. u.written = {} /\ DOMAIN u.goal \subseteq DOMAIN u.read
  BY NoTxFields DEF Opens, Reading, Editing, NoTx
<1>2. /\ \A s \in DOMAIN u.read : u.read[s] = session[s]
      /\ \A s \in DOMAIN u.goal : u.kind = "CREATE" <=> session[s].place = Gone
  BY DEF Opens
<1> QED BY <1>1, <1>2 DEF Knows

\* Every step leaves transactions that know their rows and keep apart.
LEMMA StepOrder ==
    ASSUME EditInv, OrderInv, [Next]_vars
    PROVE  OrderInv'
<1>1. CASE UNCHANGED vars
  <2>1. UNCHANGED <<session, tx, alone>> BY <1>1 DEF vars
  <2> QED BY <2>1 DEF OrderInv, Knows, Compatible, Orderly
<1>2. CASE Next
  <2>1. PICK e \in Editors : Step(e) BY <1>2 DEF Next
  <2>2. alone' = alone BY <1>2 DEF Next
  <2>a. \A f \in Editors \ {e} : alone /\ tx[e].pc # "idle" => tx[f].pc = "idle"
    BY DEF OrderInv
  <2>b. ASSUME NEW u, Becomes(e, u), SameEdit(tx[e], u), tx[e].pc \notin {"idle", "read"},
               u.pc # "read", u.written = tx[e].written, u.read = tx[e].read
        PROVE  OrderInv'
    <3>1. u.kind \in Kinds BY <2>b DEF OrderInv, SameEdit
    <3>2. \A f \in Editors \ {e} : Compatible(u, tx[f])
      BY <2>b DEF OrderInv, SameEdit, Compatible
    <3>3. Knows(tx[e]) => Knows(u) BY <2>b DEF Knows, SameEdit
    <3>4. Orderly => Knows(u) BY <3>3 DEF OrderInv
    <3>5. Orderly /\ u.kind = "CREATE" => \A f \in Editors \ {e} :
            tx[f].kind = "CREATE" => DOMAIN u.goal \cap DOMAIN tx[f].goal = {}
      BY <2>b DEF OrderInv, SameEdit
    <3> QED BY <2>2, <2>a, <2>b, <3>1, <3>2, <3>4, <3>5, BecomesOrder
  <2>3. CASE \E u : Opens(e, u) /\ (alone => \A f \in Editors : tx[f].pc = "idle")
    <3>1. PICK u : Opens(e, u) /\ (alone => \A f \in Editors : tx[f].pc = "idle") BY <2>3
    <3>2. /\ Becomes(e, u) /\ u.kind \in Kinds /\ u.written = {}
      BY <3>1 DEF Opens, Becomes
    <3>3. \A f \in Editors \ {e} : Compatible(u, tx[f]) BY <3>2 DEF Compatible
    <3>4. Knows(u) BY <3>1, OpenKnows
    <3>5. u.kind = "CREATE" => \A f \in Editors \ {e} : DOMAIN u.goal \cap DOMAIN tx[f].goal = {}
      BY <3>1 DEF Opens
    <3> QED BY <2>2, <3>1, <3>2, <3>3, <3>4, <3>5, BecomesOrder
  <2>4. CASE \E u : ReadsOther(e, u)
    <3>1. PICK u : ReadsOther(e, u) BY <2>4
    <3>2. Becomes(e, u) /\ Reading(tx[e]) BY <3>1 DEF ReadsOther
    <3>3. CASE u = NoTx
      BY <2>2, <3>2, <3>3, NoTxKnows, NoTxFields, BecomesOrder DEF NoTx
    <3>4. CASE u # NoTx
      <4>1. /\ Editing(u) /\ u.pc = "write" /\ u.kind = "SWAP" /\ u.written = {}
            /\ \A s \in DOMAIN u.goal :
                 /\ IsPlaced(u.read[s])
                 /\ \/ s \in DOMAIN tx[e].read /\ u.read[s] = tx[e].read[s]
                    \/ u.read[s] = session[s]
        BY <3>1, <3>4 DEF ReadsOther
      <4>2. tx[e].pc = "read" /\ tx[e].kind = "SWAP" BY <3>2 DEF Reading
      <4>3. u.kind \in Kinds BY <4>1, <4>2 DEF OrderInv
      <4>4. \A f \in Editors \ {e} : Compatible(u, tx[f]) BY <4>1 DEF Compatible
      <4>5. ASSUME Orderly PROVE Knows(u)
        <5>1. Knows(tx[e]) BY <4>5 DEF OrderInv
        <5>2. DOMAIN u.read = DOMAIN u.goal BY <4>1 DEF Editing
        <5>3. \A s \in DOMAIN u.goal : session[s].place # Gone
          BY <4>1, <4>2, <5>1 DEF Knows, IsPlaced
        <5>4. alone => \A s \in DOMAIN u.read : u.read[s] = session[s]
          BY <4>1, <5>1, <5>2 DEF Knows
        <5> QED BY <4>1, <5>3, <5>4 DEF Knows
      <4> QED BY <2>2, <2>a, <3>2, <4>1, <4>2, <4>3, <4>4, <4>5, BecomesOrder
    <3> QED BY <3>3, <3>4
  <2>5. CASE \E u, s : Writes(e, u, s)
    <3>1. PICK u, s : Writes(e, u, s) BY <2>5
    <3>0. PICK t : t = tx[e] OBVIOUS
    <3>2. /\ Becomes(e, u) /\ SameEdit(t, u) /\ t.pc = "write"
          /\ s \in DOMAIN t.goal /\ u.written = t.written \cup {s} /\ Writable(e, s)
          /\ DOMAIN t.read = DOMAIN t.goal
          /\ \A o \in DOMAIN t.goal :
               u.read[o] = t.read[o] \/ (t.kind = "UPDATE_DETAILS" /\ u.read[o] = session[o])
          /\ t.kind = "UPDATE_DETAILS" => u.read[s] = session[s]
          /\ u.pc # "read" /\ t.written \subseteq DOMAIN t.goal
      <4>1. t \in Tx BY <3>0 DEF EditInv
      <4> QED BY <3>0, <3>1, <4>1, WrittenIsWanted DEF Writes, Editing
    <3>3. u.kind \in Kinds BY <3>0, <3>2 DEF OrderInv, SameEdit
    <3>4. ASSUME NEW f \in Editors \ {e} PROVE Compatible(u, tx[f])
      <4>1. Compatible(t, tx[f]) BY <3>0 DEF OrderInv
      <4>2. s \in tx[f].written => /\ ~(LocksRow(t.kind) /\ LocksRow(tx[f].kind))
                                   /\ ~("cover" \in t.columns /\ "cover" \in tx[f].columns)
        BY <3>0, <3>2 DEF Writable
      <4> QED BY <3>2, <4>1, <4>2 DEF Compatible, SameEdit
    <3>5. ASSUME Orderly PROVE Knows(u)
      <4>1. Knows(t) BY <3>0, <3>5 DEF OrderInv
      <4>2. /\ u.kind = t.kind /\ u.goal = t.goal /\ DOMAIN u.read = DOMAIN t.read
        BY <3>2 DEF SameEdit
      <4>3. u.kind = "UPDATE_DETAILS" => \A o \in u.written : u.read[o].people = session[o].people
        BY <3>2, <4>1, <4>2 DEF Knows
      <4>4. alone => \A o \in DOMAIN u.read : u.read[o] = session[o]
        BY <3>2, <4>1, <4>2 DEF Knows
      <4>5. u.kind = "CREATE" => \A o \in DOMAIN u.goal :
              session[o].place = Gone /\ u.read[o] = session[o]
        BY <3>2, <4>1, <4>2 DEF Knows
      <4>6. u.kind # "CREATE" => \A o \in DOMAIN u.goal : session[o].place # Gone
        BY <4>1, <4>2 DEF Knows
      <4> QED BY <3>2, <4>3, <4>4, <4>5, <4>6 DEF Knows
    <3>a. u.kind = tx[e].kind /\ u.goal = tx[e].goal BY <3>0, <3>2 DEF SameEdit
    <3>b. Orderly => \A f, g \in Editors :
            f # g /\ tx[f].kind = "CREATE" /\ tx[g].kind = "CREATE" =>
              DOMAIN tx[f].goal \cap DOMAIN tx[g].goal = {}
      BY DEF OrderInv
    <3>6. Orderly /\ u.kind = "CREATE" => \A f \in Editors \ {e} :
            tx[f].kind = "CREATE" => DOMAIN u.goal \cap DOMAIN tx[f].goal = {}
      BY <3>a, <3>b
    <3>7. tx[e].pc # "idle" BY <3>0, <3>2
    <3> QED BY <2>2, <2>a, <3>2, <3>3, <3>4, <3>5, <3>6, <3>7, BecomesOrder
  <2>6. CASE \E u : Logs(e, u) \/ Detects(e, u) \/ Records(e, u)
    <3>1. PICK u : Logs(e, u) \/ Detects(e, u) \/ Records(e, u) BY <2>6
    <3>2. /\ Becomes(e, u) /\ SameEdit(tx[e], u) /\ Editing(tx[e]) /\ Editing(u)
          /\ u.written = tx[e].written /\ u.read = tx[e].read
      BY <3>1 DEF Logs, Detects, Records, Keeps
    <3> QED BY <2>b, <3>2 DEF Editing
  <2>7. CASE Commit(e)
    <3>1. tx' = [tx EXCEPT ![e] = NoTx] BY <2>7, CommitChanges
    <3>2. \A f \in Editors : tx'[f] = IF f = e THEN NoTx ELSE tx[f] BY <3>1 DEF EditInv
    <3>3. Orderly' <=> Orderly BY <2>2 DEF Orderly
    <3>4. ASSUME Orderly, NEW f \in Editors PROVE Knows(tx[f])'
      <4>1. CASE f = e
        <5>1. tx'[f] = NoTx BY <3>2, <4>1
        <5> QED BY <5>1, NoTxFields DEF Knows, NoTx
      <4>2. CASE f # e BY <2>2, <2>7, <3>4, <4>2, OthersKnow
      <4> QED BY <4>1, <4>2
    <3>5. \A f, g \in Editors : f # g => Compatible(tx'[f], tx'[g])
      BY <3>2, NoTxKnows DEF OrderInv
    <3>6. \A f, g \in Editors : f # g => Compatible(tx[f], tx[g])'
      BY <3>5 DEF Compatible
    <3>7. NoTx.pc = "idle" /\ NoTx.kind # "CREATE" BY DEF NoTx
    <3>8. /\ \A f, g \in Editors : alone /\ f # g => tx'[f].pc = "idle" \/ tx'[g].pc = "idle"
          /\ \A f \in Editors : tx'[f].pc # "idle" => tx'[f].kind \in Kinds
          /\ Orderly => \A f, g \in Editors :
               f # g /\ tx'[f].kind = "CREATE" /\ tx'[g].kind = "CREATE" =>
                 DOMAIN tx'[f].goal \cap DOMAIN tx'[g].goal = {}
      BY <3>2, <3>7 DEF OrderInv
    <3> QED BY <2>2, <3>3, <3>4, <3>6, <3>8 DEF OrderInv
  <2>8. CASE Abort(e)
    <3>1. Becomes(e, NoTx) BY <2>8, NoTxFields DEF Abort, Becomes
    <3> QED BY <2>2, <3>1, NoTxKnows, NoTxFields, BecomesOrder DEF NoTx
  <2> QED BY <2>1, <2>3, <2>4, <2>5, <2>6, <2>7, <2>8, StepIs
<1> QED BY <1>1, <1>2

\* So they begin.
LEMMA InitOrder == Init => OrderInv
<1> SUFFICES ASSUME Init PROVE OrderInv OBVIOUS
<1>1. \A e \in Editors : tx[e] = NoTx BY DEF Init
<1>2. NoTx.kind = "MOVE" BY DEF NoTx
<1> QED BY <1>1, <1>2, NoTxKnows, NoTxFields DEF OrderInv

-----------------------------------------------------------------------------
(***************************************************************************)
(* The log replays                                                         *)
(***************************************************************************)
\* An entry of the log says something of a column of a session.
Says(x, s, c) == s \in DOMAIN x.to /\ c \in DOMAIN x.to[s]

\* The last committed entry that does.
Latest(i, s, c) == i \in Entries(s, c) /\ \A j \in Entries(s, c) : j <= i

\* Nothing is said after an open transaction of what it speaks of.
LastWord == \A i, j \in DOMAIN log : log[i].by # None /\ i < j =>
    \A s, c : ~(Says(log[i], s, c) /\ Says(log[j], s, c))

\* The replay of one column of one session.
Replayed(s, c) ==
    \/ Entries(s, c) = {} /\ session[s][c] = Start[s][c]
    \/ \E i : Latest(i, s, c) /\ session[s][c] = log[i].to[s][c]

ReplayInv == Orderly => LastWord /\ \A s \in Sessions, c \in Columns : Replayed(s, c)

\* The columns a payload speaks of.
Spoken(t) == IF t.kind = "MOVE" THEN t.columns \cup {"rooms"} ELSE t.columns

\* What a payload says of a row.
LEMMA PayloadRow ==
    ASSUME NEW t, NEW s \in DOMAIN t.goal
    PROVE  Payload(t)[s] = [c \in Spoken(t) |-> t.goal[s][c]]
BY DEF Payload, Spoken

\* The event of an edit carries what its transaction leaves in the rows.
LEMMA AppliedIsPayload ==
    ASSUME EditInv, OrderInv, Orderly, NEW e \in Editors, NEW t, t = tx[e],
           Editing(t), t.written = DOMAIN t.goal,
           NEW s \in DOMAIN t.goal, NEW c \in DOMAIN Payload(t)[s]
    PROVE  Applied(t, s)[c] = Payload(t)[s][c]
<1>1. /\ t \in Tx /\ t.kind \in EventTypes /\ t.columns \subseteq Columns
      /\ s \in Sessions /\ t.goal[s] \in Row
  BY DEF EditInv, Tx, Images
<1>2. Knows(t) /\ t.kind \in Kinds BY DEF OrderInv, Editing
<1>3. Decision(t.kind, t.columns, t.read[s], t.goal[s]) /\ s \in DOMAIN t.read
  BY DEF Editing
<1>4. /\ c \in t.columns \/ (t.kind = "MOVE" /\ c = "rooms")
      /\ Payload(t)[s][c] = t.goal[s][c]
  <2>1. Payload(t)[s] = [k \in Spoken(t) |-> t.goal[s][k]] BY PayloadRow
  <2>2. c \in Spoken(t) BY <2>1
  <2> QED BY <2>1, <2>2 DEF Spoken
<1>5. session[s] \in Row BY <1>1 DEF EditInv
<1>6. CASE c \in t.columns /\ c # "people"
  <2>1. c \in Columns \ {"people"} BY <1>1, <1>6
  <2> QED BY <1>4, <1>6, <2>1, ColumnApplied
<1>7. CASE c \in t.columns /\ c = "people"
  <2>1. t.kind \in {"SET_LECTURERS", "UPDATE_DETAILS", "CREATE", "DELETE"}
    BY <1>1, <1>3, <1>7 DEF Decision, EventTypes
  <2>2. t.read[s].people = session[s].people
    <3>1. CASE alone BY <1>2, <1>3, <3>1 DEF Knows
    <3>2. CASE ~alone
      <4>1. t.kind \in {"UPDATE_DETAILS", "CREATE"} BY <1>2, <2>1, <3>2 DEF Orderly
      <4> QED BY <1>2, <4>1 DEF Knows
    <3> QED BY <3>1, <3>2
  <2>3. /\ session[s].people \in [People -> {"none", "attendee", "lecturer"}]
        /\ t.goal[s].people \in [People -> {"none", "attendee", "lecturer"}]
    BY <1>1, <1>5, RowFields
  <2>4. Applied(t, s).people = [p \in People |->
          IF p \in PeopleWritten(t, s) THEN t.goal[s].people[p] ELSE session[s].people[p]]
    BY AppliedIs
  <2>5. \A p \in People : p \notin PeopleWritten(t, s) =>
          session[s].people[p] = t.goal[s].people[p]
    BY <1>7, <2>2 DEF PeopleWritten
  <2>6. Applied(t, s).people = [p \in People |-> t.goal[s].people[p]] BY <2>4, <2>5
  <2> QED BY <1>4, <1>7, <2>3, <2>6
<1>8. CASE c \notin t.columns
  <2>1. t.kind = "MOVE" /\ c = "rooms" BY <1>4, <1>8
  <2>2. t.goal[s].rooms = t.read[s].rooms BY <1>3, <1>8, <2>1 DEF Decision
  <2>3. Applied(t, s)["rooms"] = session[s].rooms
    BY <1>8, <2>1, ColumnApplied DEF Columns
  <2>4. session[s].rooms = t.goal[s].rooms
    <3>1. CASE alone BY <1>2, <1>3, <2>2, <3>1 DEF Knows
    <3>2. CASE Rooms = {}
      <4>1. session[s].rooms \in SUBSET Rooms /\ t.goal[s].rooms \in SUBSET Rooms
        BY <1>1, <1>5, RowFields
      <4> QED BY <3>2, <4>1
    <3> QED BY <3>1, <3>2 DEF Orderly
  <2> QED BY <1>4, <2>1, <2>3, <2>4
<1> QED BY <1>6, <1>7, <1>8

\* A column no event speaks of stays as it is.
LEMMA UnsaidStays ==
    ASSUME EditInv, NEW t \in Tx, NEW s \in DOMAIN t.goal, NEW c \in Columns,
           c \notin DOMAIN Payload(t)[s]
    PROVE  Applied(t, s)[c] = session[s][c]
<1>1. c \notin t.columns /\ s \in Sessions
  <2>1. Payload(t)[s] = [k \in Spoken(t) |-> t.goal[s][k]] BY PayloadRow
  <2>2. c \notin Spoken(t) BY <2>1
  <2> QED BY <2>2 DEF Spoken, Tx, Images
<1>2. CASE c # "people" BY <1>1, <1>2, ColumnApplied
<1>3. CASE c = "people"
  <2>1. Applied(t, s).people = [p \in People |->
          IF p \in PeopleWritten(t, s) THEN t.goal[s].people[p] ELSE session[s].people[p]]
    BY AppliedIs
  <2>2. PeopleWritten(t, s) = {} BY <1>1, <1>3, AppliedIs
  <2>3. session[s].people \in [People -> {"none", "attendee", "lecturer"}]
    BY <1>1, RowFields DEF EditInv
  <2>4. Applied(t, s).people = [p \in People |-> session[s].people[p]] BY <2>1, <2>2
  <2> QED BY <1>3, <2>3, <2>4
<1> QED BY <1>2, <1>3

\* Two open transactions that both have written a row speak of other columns of it.
LEMMA ApartColumns ==
    ASSUME EditInv, OrderInv, Orderly, NEW e \in Editors, NEW f \in Editors, e # f,
           NEW t, t = tx[e], NEW u, u = tx[f],
           t.pc # "idle", Editing(u), Editing(t),
           NEW s \in t.written, s \in u.written,
           NEW c \in Spoken(t), c \in Spoken(u)
    PROVE  FALSE
<1>1. t \in Tx /\ u \in Tx BY DEF EditInv
<1>2. s \in DOMAIN t.goal /\ s \in DOMAIN u.goal BY <1>1, WrittenIsWanted
<1>3. t.kind # "CREATE" /\ u.kind # "CREATE" BY <1>2, CreatorsAlone
<1>4. ~alone BY DEF OrderInv, Editing
<1>5. t.kind \in Kinds /\ u.kind \in Kinds BY DEF OrderInv, Editing
<1>6. t.kind # "SET_LECTURERS" /\ u.kind # "SET_LECTURERS" BY <1>4, <1>5 DEF Orderly
<1>7. /\ ~(LocksRow(t.kind) /\ LocksRow(u.kind))
      /\ ~("cover" \in t.columns /\ "cover" \in u.columns)
  BY DEF OrderInv, Compatible
<1>8. t.kind = "SUBSTITUTE" => t.columns = {"cover"} /\ Spoken(t) = {"cover"}
  BY <1>2 DEF Editing, Decision, Spoken
<1>9. u.kind = "SUBSTITUTE" => u.columns = {"cover"} /\ Spoken(u) = {"cover"}
  BY <1>2 DEF Editing, Decision, Spoken
<1>10. t.kind = "SUBSTITUTE" \/ u.kind = "SUBSTITUTE" BY <1>3, <1>6, <1>7 DEF LocksRow
<1>11. c = "cover" BY <1>8, <1>9, <1>10
<1>12. "cover" \in t.columns /\ "cover" \in u.columns BY <1>11 DEF Spoken
<1> QED BY <1>7, <1>12

\* Steps that neither commit anything nor write to the log.
LEMMA ReplaySteady ==
    ASSUME ReplayInv, session' = session, log' = log, alone' = alone
    PROVE  ReplayInv'
<1>1. Orderly' <=> Orderly BY DEF Orderly
<1>2. LastWord' <=> LastWord BY DEF LastWord, Says
<1>3. \A s, c : Entries(s, c)' = Entries(s, c) BY DEF Entries
<1>4. \A s, c : Replayed(s, c)' <=> Replayed(s, c) BY <1>3 DEF Replayed, Latest
<1> QED BY <1>1, <1>2, <1>4 DEF ReplayInv

\* What a transaction that has appended its event has written.
LEMMA LoggedWritten ==
    ASSUME EditInv, OrderInv, Orderly, ~alone, NEW f \in Editors, Logged(tx[f])
    PROVE  Editing(tx[f]) /\ tx[f].written = DOMAIN tx[f].goal
<1>1. tx[f].pc \in {"detect", "record", "commit", "write"} BY DEF Logged
<1>2. Editing(tx[f]) BY <1>1 DEF EditInv, Shape, Reading, NoTx
<1>3. tx[f].kind # "DELETE" BY <1>1 DEF OrderInv, Orderly
<1> QED BY <1>2, <1>3 DEF Editing, Logged

\* An event is appended by a transaction of whose columns no open one speaks.
LEMMA ReplayAppended ==
    ASSUME EditInv, OrderInv, LogInv, ReplayInv, alone' = alone,
           NEW e \in Editors, NEW u, Logs(e, u)
    PROVE  ReplayInv'
<1> SUFFICES ASSUME Orderly PROVE LastWord' /\ \A s \in Sessions, c \in Columns : Replayed(s, c)'
  BY DEF ReplayInv, Orderly
<1>0. PICK t : t = tx[e] OBVIOUS
<1>1. t.pc = "log" /\ Editing(t) /\ ~Logged(t) /\ session' = session
  <2>1. t.pc = "log" /\ Editing(t) /\ session' = session BY <1>0 DEF Logs, Keeps, Becomes
  <2> QED BY <2>1 DEF Logged
<1>a. e # None BY PlacesAssumption
<1>3. PICK x : x = [by |-> e, to |-> Payload(t)] OBVIOUS
<1>4. x.by = e /\ x.to = Payload(t) BY <1>3
<1>5. PICK n : n = log' OBVIOUS
<1>6. /\ IsLog(n) /\ Len(n) = Len(log) + 1
      /\ \A i \in DOMAIN log : n[i] = log[i]
      /\ n[Len(log) + 1] = x
  <2>1. n = Append(log, x) BY <1>0, <1>3, <1>5 DEF Logs
  <2>2. IsLog(log) BY DEF LogInv
  <2>3. Extends(Append(log, x), log, x) BY <2>2, LogAppended
  <2> QED BY <2>1, <2>3 DEF Extends
<1>7. /\ Len(log) \in Nat /\ DOMAIN log = 1..Len(log)
      /\ DOMAIN n = 1..(Len(log) + 1)
  BY <1>6, LogLength DEF LogInv
<1>8. \A i \in DOMAIN n : (i \in DOMAIN log /\ n[i] = log[i]) \/ (i = Len(log) + 1 /\ n[i] = x)
  BY <1>6, <1>7
<1>9. LastWord /\ \A s \in Sessions, c \in Columns : Replayed(s, c) BY DEF ReplayInv
<1>10. ASSUME NEW i \in DOMAIN log, log[i].by # None, NEW s, NEW c,
              Says(log[i], s, c), Says(x, s, c)
       PROVE  FALSE
  <2>1. PICK f \in Editors : f = log[i].by /\ Logged(tx[f]) /\ log[i].to = Payload(tx[f])
    BY <1>10 DEF LogInv
  <2>2. f # e BY <1>0, <1>1, <2>1
  <2>3. tx[f].pc # "idle" /\ t.pc # "idle"
    BY <1>1, <2>1, NoTxFields DEF Logged, EditInv, Shape, Reading, Editing, NoTx
  <2>4. ~alone BY <1>0, <2>2, <2>3 DEF OrderInv
  <2>5. Editing(tx[f]) /\ tx[f].written = DOMAIN tx[f].goal BY <2>1, <2>4, LoggedWritten
  <2>6. t.kind # "DELETE" BY <1>0, <2>3, <2>4 DEF OrderInv, Orderly
  <2>7. t.written = DOMAIN t.goal BY <1>1, <2>6 DEF Editing
  <2>8. s \in DOMAIN t.goal /\ s \in DOMAIN tx[f].goal
    BY <1>4, <1>10, <2>1 DEF Says, Payload
  <2>9. c \in Spoken(t) /\ c \in Spoken(tx[f])
    <3>1. Payload(t)[s] = [k \in Spoken(t) |-> t.goal[s][k]] BY <2>8, PayloadRow
    <3>2. Payload(tx[f])[s] = [k \in Spoken(tx[f]) |-> tx[f].goal[s][k]]
      BY <2>8, PayloadRow
    <3> QED BY <1>4, <1>10, <2>1, <3>1, <3>2 DEF Says
  <2> QED BY <1>0, <1>1, <2>2, <2>3, <2>5, <2>7, <2>8, <2>9, ApartColumns
<1>11. ASSUME NEW i \in DOMAIN n, NEW j \in DOMAIN n, n[i].by # None, i < j,
              NEW s, NEW c, Says(n[i], s, c), Says(n[j], s, c)
       PROVE  FALSE
  <2>1. i \in DOMAIN log /\ n[i] = log[i] BY <1>6, <1>7, <1>11
  <2>2. CASE j \in DOMAIN log /\ n[j] = log[j] BY <1>9, <1>11, <2>1, <2>2 DEF LastWord
  <2>3. CASE n[j] = x BY <1>10, <1>11, <2>1, <2>3
  <2> QED BY <1>8, <2>2, <2>3
<1>12. LastWord' BY <1>5, <1>11 DEF LastWord, Says
<1>13. ASSUME NEW s \in Sessions, NEW c \in Columns PROVE Replayed(s, c)'
  <2>1. Entries(s, c)' = {i \in DOMAIN n :
          n[i].by = None /\ s \in DOMAIN n[i].to /\ c \in DOMAIN n[i].to[s]}
    BY <1>5 DEF Entries
  <2>2. Entries(s, c)' = Entries(s, c)
    BY <1>a, <1>4, <1>6, <1>7, <1>8, <2>1 DEF Entries
  <2>3. \A i \in Entries(s, c) : n[i] = log[i] BY <1>6 DEF Entries
  <2> QED BY <1>1, <1>5, <1>9, <2>2, <2>3 DEF Replayed, Latest
<1> QED BY <1>12, <1>13

\* A transaction is committed: its event was the last word on what it wrote.
LEMMA ReplayCommitted ==
    ASSUME EditInv, OrderInv, LogInv, ReplayInv, alone' = alone, NEW e \in Editors, Commit(e)
    PROVE  ReplayInv'
<1> SUFFICES ASSUME Orderly PROVE LastWord' /\ \A s \in Sessions, c \in Columns : Replayed(s, c)'
  BY DEF ReplayInv, Orderly
<1>0. PICK t : t = tx[e] OBVIOUS
<1>a. t \in Tx /\ e # None BY <1>0, PlacesAssumption DEF EditInv
<1>1. /\ Editing(t) /\ t.written = DOMAIN t.goal /\ Logged(t)
      /\ \A s \in Sessions : session'[s] = IF s \in DOMAIN t.goal
                                             THEN Applied(t, s) ELSE session[s]
  BY <1>0, CommitChanges
<1>2. PICK n : n = log' OBVIOUS
<1>3. /\ IsLog(n) /\ DOMAIN n = DOMAIN log /\ Len(n) = Len(log)
      /\ \A i \in DOMAIN log : /\ n[i] = [by |-> n[i].by, to |-> n[i].to]
                               /\ n[i].to = log[i].to
                               /\ n[i].by = IF log[i].by = e THEN None ELSE log[i].by
  BY <1>2, CommittedEntries
<1>4. LastWord /\ \A s \in Sessions, c \in Columns : Replayed(s, c) BY DEF ReplayInv
<1>5. PICK k \in DOMAIN log : log[k].by = e /\ log[k].to = Payload(t)
  BY <1>0, <1>1, <1>a DEF LogInv
<1>6. \A i \in DOMAIN log : log[i].by = e => i = k BY <1>5, <1>a DEF LogInv
<1>7. LastWord' BY <1>2, <1>3, <1>4 DEF LastWord, Says
<1>d. Len(log) \in Nat /\ DOMAIN log = 1..Len(log) BY LogLength DEF LogInv
<1>8. ASSUME NEW s \in Sessions, NEW c \in Columns PROVE Replayed(s, c)'
  <2>1. Entries(s, c)' = {i \in DOMAIN n :
          n[i].by = None /\ s \in DOMAIN n[i].to /\ c \in DOMAIN n[i].to[s]}
    BY <1>2 DEF Entries
  <2>2. CASE Says(log[k], s, c)
    <3>1. s \in DOMAIN t.goal /\ c \in DOMAIN Payload(t)[s]
      BY <1>5, <2>2 DEF Says, Payload
    <3>2. Applied(t, s)[c] = Payload(t)[s][c] BY <1>0, <1>1, <3>1, AppliedIsPayload
    <3>3. session'[s][c] = n[k].to[s][c] BY <1>1, <1>3, <1>5, <3>1, <3>2
    <3>4. k \in Entries(s, c)' BY <1>3, <1>5, <2>1, <2>2 DEF Says
    <3>5. ASSUME NEW j \in Entries(s, c)' PROVE j <= k
      <4>1. j \in DOMAIN log /\ Says(log[j], s, c) BY <1>3, <2>1 DEF Says
      <4>2. ~(k < j) BY <1>4, <1>5, <1>a, <2>2, <4>1 DEF LastWord
      <4> QED BY <1>d, <4>1, <4>2
    <3>6. Latest(k, s, c)' BY <3>4, <3>5 DEF Latest
    <3> QED BY <1>2, <3>3, <3>6 DEF Replayed
  <2>3. CASE ~Says(log[k], s, c)
    <3>1. Entries(s, c)' = Entries(s, c)
      BY <1>3, <1>5, <1>6, <1>a, <2>1, <2>3 DEF Entries, Says
    <3>2. session'[s][c] = session[s][c]
      <4>1. CASE s \notin DOMAIN t.goal BY <1>1, <4>1
      <4>2. CASE s \in DOMAIN t.goal
        <5>1. DOMAIN Payload(t) = DOMAIN t.goal BY DEF Payload
        <5>2. c \notin DOMAIN Payload(t)[s] BY <1>5, <2>3, <4>2, <5>1 DEF Says
        <5>3. Applied(t, s)[c] = session[s][c] BY <1>a, <4>2, <5>2, UnsaidStays
        <5> QED BY <1>1, <4>2, <5>3
      <4> QED BY <4>1, <4>2
    <3>3. \A i \in Entries(s, c) : n[i].to = log[i].to BY <1>3 DEF Entries
    <3>4. Replayed(s, c) BY <1>4
    <3> QED BY <1>2, <3>1, <3>2, <3>3, <3>4 DEF Replayed, Latest
  <2> QED BY <2>2, <2>3
<1> QED BY <1>7, <1>8

\* A transaction is rolled back, and with it an event that was not committed.
LEMMA ReplayAborted ==
    ASSUME LogInv, ReplayInv, alone' = alone, NEW e \in Editors, Abort(e)
    PROVE  ReplayInv'
<1>1. PICK n : n = log' OBVIOUS
<1>2. session' = session BY DEF Abort
<1>3. n = log \/ \E k : Dropped(e, n, k) BY <1>1, AbortedEntries
<1>4. CASE n = log BY <1>1, <1>2, <1>4, ReplaySteady
<1>5. CASE \E k : Dropped(e, n, k)
  <2> SUFFICES ASSUME Orderly PROVE LastWord' /\ \A s \in Sessions, c \in Columns : Replayed(s, c)'
    BY DEF ReplayInv, Orderly
  <2>1. PICK k : Dropped(e, n, k) BY <1>5
  <2>2. IsLog(log) /\ e # None BY PlacesAssumption DEF LogInv
  <2>3. /\ Len(log) \in Nat /\ DOMAIN log = 1..Len(log) /\ k \in DOMAIN log
        /\ Len(n) \in Nat /\ DOMAIN n = 1..Len(n)
    BY <2>1, <2>2, LogLength DEF Dropped
  <2>4. \A i \in DOMAIN n : \E o \in DOMAIN log \ {k} :
          n[i] = log[o] /\ o = IF i < k THEN i ELSE i + 1
    BY <2>1, <2>2, DroppedAt
  <2>5. \A o \in DOMAIN log \ {k} : \E i \in DOMAIN n :
          n[i] = log[o] /\ i = IF o < k THEN o ELSE o - 1
    BY <2>1, <2>2, DroppedAt
  <2>6. LastWord /\ \A s \in Sessions, c \in Columns : Replayed(s, c) BY DEF ReplayInv
  <2>7. ASSUME NEW i \in DOMAIN n, NEW j \in DOMAIN n, n[i].by # None, i < j,
               NEW s, NEW c, Says(n[i], s, c), Says(n[j], s, c)
        PROVE  FALSE
    <3>1. PICK a \in DOMAIN log : n[i] = log[a] /\ a = IF i < k THEN i ELSE i + 1 BY <2>4
    <3>2. PICK b \in DOMAIN log : n[j] = log[b] /\ b = IF j < k THEN j ELSE j + 1 BY <2>4
    <3>3. a < b BY <2>3, <2>7, <3>1, <3>2
    <3> QED BY <2>6, <2>7, <3>1, <3>2, <3>3 DEF LastWord
  <2>8. LastWord' BY <1>1, <2>7 DEF LastWord, Says
  <2>9. ASSUME NEW s \in Sessions, NEW c \in Columns PROVE Replayed(s, c)'
    <3>1. Entries(s, c)' = {i \in DOMAIN n :
            n[i].by = None /\ s \in DOMAIN n[i].to /\ c \in DOMAIN n[i].to[s]}
      BY <1>1 DEF Entries
    <3>2. k \notin Entries(s, c) BY <2>1, <2>2 DEF Entries, Dropped
    <3>3. ASSUME NEW i \in Entries(s, c)'
          PROVE  \E o \in Entries(s, c) : n[i] = log[o] /\ o = IF i < k THEN i ELSE i + 1
      <4>1. i \in DOMAIN n BY <3>1
      <4>2. PICK o \in DOMAIN log : n[i] = log[o] /\ o = IF i < k THEN i ELSE i + 1
        BY <2>4, <4>1
      <4>3. o \in Entries(s, c) BY <3>1, <4>2 DEF Entries
      <4> QED BY <4>2, <4>3
    <3>4. CASE Entries(s, c) = {} /\ session[s][c] = Start[s][c]
      <4>1. Entries(s, c)' = {} BY <3>3, <3>4
      <4> QED BY <1>2, <3>4, <4>1 DEF Replayed
    <3>5. CASE \E o : Latest(o, s, c) /\ session[s][c] = log[o].to[s][c]
      <4>1. PICK o : Latest(o, s, c) /\ session[s][c] = log[o].to[s][c] BY <3>5
      <4>2. o \in Entries(s, c) /\ o \in DOMAIN log \ {k} BY <3>2, <4>1 DEF Latest, Entries
      <4>3. PICK i \in DOMAIN n : n[i] = log[o] /\ i = IF o < k THEN o ELSE o - 1
        BY <2>5, <4>2
      <4>4. i \in Entries(s, c)' BY <3>1, <4>2, <4>3 DEF Entries
      <4>5. ASSUME NEW j \in Entries(s, c)' PROVE j <= i
        <5>1. PICK p \in Entries(s, c) : p = IF j < k THEN j ELSE j + 1 BY <3>3
        <5>2. p <= o BY <4>1, <5>1 DEF Latest
        <5>3. j \in DOMAIN n BY <3>1
        <5> QED BY <2>3, <4>2, <4>3, <5>1, <5>2, <5>3
      <4>6. Latest(i, s, c)' BY <4>4, <4>5 DEF Latest
      <4>7. session'[s][c] = log'[i].to[s][c] BY <1>1, <1>2, <4>1, <4>3
      <4> QED BY <4>6, <4>7 DEF Replayed
    <3> QED BY <2>6, <3>4, <3>5 DEF Replayed
  <2> QED BY <2>8, <2>9
<1> QED BY <1>3, <1>4, <1>5

\* Every step leaves a log that replays.
LEMMA StepReplay ==
    ASSUME EditInv, OrderInv, LogInv, ReplayInv, [Next]_vars
    PROVE  ReplayInv'
<1>1. CASE UNCHANGED vars
  <2>1. session' = session /\ log' = log /\ alone' = alone BY <1>1 DEF vars
  <2> QED BY <2>1, ReplaySteady
<1>2. CASE Next
  <2>1. PICK e \in Editors : Step(e) BY <1>2 DEF Next
  <2>2. alone' = alone BY <1>2 DEF Next
  <2>3. CASE \E u : Opens(e, u)
    BY <2>2, <2>3, ReplaySteady DEF Opens
  <2>4. CASE \E u : ReadsOther(e, u) BY <2>2, <2>4, ReplaySteady DEF ReadsOther, Becomes
  <2>5. CASE \E u, s : Writes(e, u, s) BY <2>2, <2>5, ReplaySteady DEF Writes, Becomes
  <2>6. CASE \E u : Logs(e, u) BY <2>2, <2>6, ReplayAppended
  <2>7. CASE \E u : Detects(e, u) \/ Records(e, u)
    BY <2>2, <2>7, ReplaySteady DEF Detects, Records, Becomes
  <2>8. CASE Commit(e) BY <2>2, <2>8, ReplayCommitted
  <2>9. CASE Abort(e) BY <2>2, <2>9, ReplayAborted
  <2> QED BY <2>1, <2>3, <2>4, <2>5, <2>6, <2>7, <2>8, <2>9, StepIs
<1> QED BY <1>1, <1>2

\* The empty log replays to the applied schedule.
LEMMA InitReplay == Init => ReplayInv
<1> SUFFICES ASSUME Init PROVE ReplayInv OBVIOUS
<1>1. log = <<>> /\ session = Start BY DEF Init
<1>2. DOMAIN log = {} BY <1>1
<1> QED BY <1>1, <1>2 DEF ReplayInv, LastWord, Replayed, Entries

\* The schedule is the applied generation with the log replayed on top, in the
\* order of seq and not of the commits (appendEvent), as long as edits that
\* overlap delete no session, set no lecturers and have no rooms to place.
THEOREM LogIsReplayed == Spec => [](Orderly => LogReplays)
<1>1. LogInv /\ ReplayInv => (Orderly => LogReplays)
  <2> SUFFICES ASSUME LogInv, ReplayInv, Orderly, NEW s \in Sessions, NEW c \in Columns
               PROVE  session[s][c] = IF Entries(s, c) = {} THEN Start[s][c]
                        ELSE log[CHOOSE i \in Entries(s, c) :
                                   \A j \in Entries(s, c) : j <= i].to[s][c]
    BY DEF LogReplays
  <2>1. Replayed(s, c) BY DEF ReplayInv
  <2>2. ASSUME NEW i, Latest(i, s, c), session[s][c] = log[i].to[s][c]
        PROVE  i = CHOOSE o \in Entries(s, c) : \A j \in Entries(s, c) : j <= o
    <3>1. Len(log) \in Nat /\ DOMAIN log = 1..Len(log) BY LogLength DEF LogInv
    <3>2. \A o \in Entries(s, c) : o \in Int BY <3>1 DEF Entries
    <3>3. i \in Entries(s, c) /\ \A j \in Entries(s, c) : j <= i BY <2>2 DEF Latest
    <3>4. PICK last : last = CHOOSE o \in Entries(s, c) : \A j \in Entries(s, c) : j <= o
      OBVIOUS
    <3>5. last \in Entries(s, c) /\ \A j \in Entries(s, c) : j <= last BY <3>3, <3>4
    <3>6. i <= last /\ last <= i /\ i \in Int /\ last \in Int BY <3>2, <3>3, <3>5
    <3>7. i = last BY <3>6
    <3> QED BY <3>4, <3>7
  <2>3. Entries(s, c) # {} => \E i : Latest(i, s, c) /\ session[s][c] = log[i].to[s][c]
    BY <2>1 DEF Replayed
  <2>4. CASE Entries(s, c) = {} BY <2>1, <2>4 DEF Replayed, Latest
  <2>5. CASE Entries(s, c) # {}
    <3>1. PICK i : Latest(i, s, c) /\ session[s][c] = log[i].to[s][c] BY <2>3, <2>5
    <3> QED BY <2>2, <2>5, <3>1
  <2> QED BY <2>4, <2>5
<1>2. Init => EditInv /\ LogInv /\ OrderInv /\ ReplayInv
  BY InitFits, InitLog, InitOrder, InitReplay
<1>3. EditInv /\ LogInv /\ OrderInv /\ ReplayInv /\ [Next]_vars
        => (EditInv /\ LogInv /\ OrderInv /\ ReplayInv)'
  BY StepFits, StepLog, StepOrder, StepReplay
<1> QED BY <1>1, <1>2, <1>3, PTL DEF Spec

-----------------------------------------------------------------------------
(***************************************************************************)
(* One request at a time                                                   *)
(***************************************************************************)
\* Handlers that write violations.
Recording(kind) == kind = "BANK" \/ Refreshes(kind)

\* What a transaction has found out about the rows and violations committed
\* before it, and about the rows as it sees them.
Findings(t, rows, rec, seen) ==
    /\ t.pc \in {"idle", "read", "write", "log", "detect"} => t.found = {} /\ t.cleared = {}
    /\ t.pc = "detect" => Refreshes(t.kind)
    /\ t.pc = "record" => Recording(t.kind)
    /\ t.pc \in {"record", "commit"} /\ t.kind = "BANK" =>
         t.involved = DOMAIN t.goal /\ t.found = {"unplaced"} \X DOMAIN t.goal
    /\ t.pc \in {"record", "commit"} /\ Refreshes(t.kind) =>
         /\ DOMAIN t.goal \subseteq t.involved
         /\ \A o \in t.involved : o \in DOMAIN t.goal \/ IsPlaced(rows[o])
         /\ t.found = {v \in Rules \X DOMAIN t.goal : Breaks(seen, v[1], v[2])}
    /\ t.pc = "commit" /\ Recording(t.kind) => t.cleared = {v \in rec : v[2] \in t.involved}
    /\ t.pc = "commit" /\ ~Recording(t.kind) => t.found = {} /\ t.cleared = {}
    /\ t.kind = "SUBSTITUTE" => \A s \in DOMAIN t.goal : IsFree(rows, s, t.goal[s])

BankInv ==
    /\ UnplacedIsRecorded /\ BankedIsNotLocked
    /\ alone => \A e \in Editors : Findings(tx[e], session, recorded, Sees(e))

\* A transaction that is not there has found nothing.
LEMMA NothingFound == ASSUME NEW rows, NEW rec, NEW seen PROVE Findings(NoTx, rows, rec, seen)
BY DEF NoTx, Findings

\* A step of the only request there is, before it commits.
LEMMA BecomesFinds ==
    ASSUME EditInv, OrderInv, BankInv, alone' = alone, NEW e \in Editors, NEW u, Becomes(e, u),
           alone => Findings(u, session, recorded, Sees(e)'),
           alone => \A f \in Editors \ {e} : tx[f] = NoTx
    PROVE  BankInv'
<1>1. \A f \in Editors : tx'[f] = IF f = e THEN u ELSE tx[f] BY DEF Becomes, EditInv
<1>2. session' = session /\ recorded' = recorded BY DEF Becomes
<1>3. ASSUME alone, NEW f \in Editors PROVE Findings(tx'[f], session', recorded', Sees(f)')
  <2>1. CASE f = e BY <1>1, <1>2, <1>3, <2>1
  <2>2. CASE f # e
    <3>1. tx'[f] = NoTx BY <1>1, <1>3, <2>2
    <3> QED BY <3>1, NothingFound
  <2> QED BY <2>1, <2>2
<1>4. UnplacedIsRecorded' /\ BankedIsNotLocked'
  BY <1>2 DEF BankInv, UnplacedIsRecorded, BankedIsNotLocked
<1> QED BY <1>3, <1>4 DEF BankInv

\* While a request is under way there is no other.
LEMMA OthersIdle ==
    ASSUME EditInv, OrderInv, alone, NEW e \in Editors, tx[e].pc # "idle", NEW f \in Editors \ {e}
    PROVE  tx[f] = NoTx
<1>1. tx[f].pc = "idle" BY DEF OrderInv
<1> QED BY <1>1 DEF EditInv, Shape, Reading, Editing

\* What a transaction sees does not depend on what it has found.
LEMMA KeepsSight ==
    ASSUME EditInv, NEW e \in Editors, NEW u, Becomes(e, u), Keeps(tx[e], u)
    PROVE  Sees(e)' = Sees(e)
<1>0. PICK t : t = tx[e] OBVIOUS
<1>1. tx'[e] = u /\ session' = session BY DEF Becomes, EditInv
<1>2. u.written = t.written /\ u.columns = t.columns /\ u.goal = t.goal /\ u.read = t.read
  BY <1>0 DEF Keeps, SameEdit
<1>3. \A s : PeopleWritten(u, s) = PeopleWritten(t, s) BY <1>2 DEF PeopleWritten
<1>4. ASSUME NEW s PROVE Applied(u, s)' = Applied(t, s)
  <2>1. PeopleWritten(u, s)' = PeopleWritten(u, s) BY DEF PeopleWritten
  <2> QED BY <1>1, <1>2, <1>3, <2>1 DEF Applied
<1> QED BY <1>0, <1>1, <1>2, <1>4 DEF Sees

\* The kinds of edits that record violations are those that go on to detect them.
LEMMA KindsRecord ==
    \A kind \in EventTypes :
        /\ Recording(kind) <=> kind \notin {"LOCK", "UNLOCK", "SUBSTITUTE", "DELETE"}
        /\ kind = "BANK" => ~Refreshes(kind)
BY DEF Recording, Refreshes, EventTypes

\* What is committed, when nothing else is under way.
LEMMA CommitAlone ==
    ASSUME EditInv, OrderInv, BankInv, alone, NEW e \in Editors, Commit(e), NEW t, t = tx[e],
           NEW s \in Sessions
    PROVE  /\ Editing(t) /\ t \in Tx /\ Knows(t) /\ t.pc = "commit"
           /\ s \notin DOMAIN t.goal => session'[s] = session[s]
           /\ s \in DOMAIN t.goal => /\ session'[s] = Applied(t, s)
                                     /\ t.read[s] = session[s] /\ t.goal[s] \in Row
                                     /\ Decision(t.kind, t.columns, session[s], t.goal[s])
           /\ Findings(t, session, recorded, session')
           /\ \A rule \in Rules : <<rule, s>> \in recorded' <=>
                /\ session'[s].place # Gone
                /\ \/ <<rule, s>> \in recorded /\ <<rule, s>> \notin t.cleared
                   \/ <<rule, s>> \in t.found
<1>1. /\ Editing(t) /\ t.pc = "commit" /\ t.written = DOMAIN t.goal
      /\ session'[s] = IF s \in DOMAIN t.goal THEN Applied(t, s) ELSE session[s]
  BY CommitChanges
<1>2. t \in Tx /\ Knows(t) BY DEF EditInv, OrderInv, Orderly
<1>3. ASSUME s \in DOMAIN t.goal
      PROVE  /\ t.read[s] = session[s] /\ t.goal[s] \in Row
             /\ Decision(t.kind, t.columns, session[s], t.goal[s])
  <2>1. s \in DOMAIN t.read /\ Decision(t.kind, t.columns, t.read[s], t.goal[s])
    BY <1>1, <1>3 DEF Editing
  <2>2. t.read[s] = session[s] BY <1>2, <2>1 DEF Knows
  <2>3. t.goal[s] \in Row BY <1>2, <1>3 DEF Tx, Images
  <2> QED BY <2>1, <2>2, <2>3
<1>4. session' = Sees(e) BY DEF Commit
<1>5. Findings(t, session, recorded, session') BY <1>4 DEF BankInv
<1>6. recorded' = {v \in (recorded \ t.cleared) \cup t.found : session'[v[2]].place # Gone}
  BY <1>4 DEF Commit
<1>7. ASSUME NEW rule \in Rules
      PROVE  <<rule, s>> \in recorded' <=>
                /\ session'[s].place # Gone
                /\ \/ <<rule, s>> \in recorded /\ <<rule, s>> \notin t.cleared
                   \/ <<rule, s>> \in t.found
  <2>1. <<rule, s>>[2] = s OBVIOUS
  <2> QED BY <1>6, <2>1
<1> QED BY <1>1, <1>2, <1>3, <1>5, <1>7

\* A session of the bank that is committed by an edit, or left there.
LEMMA BankedByEdit ==
    ASSUME EditInv, NEW t \in Tx, Editing(t), NEW s \in DOMAIN t.goal,
           Decision(t.kind, t.columns, session[s], t.goal[s]), NEW a, a = Applied(t, s)
    PROVE  /\ t.kind = "BANK" =>
                a.place = Bank /\ a.locked = session[s].locked /\ ~session[s].locked
           /\ t.kind \in {"MOVE", "SWAP", "CREATE"} => IsPlaced(a)
           /\ t.kind = "DELETE" => a.place = Gone
           /\ t.kind \notin {"BANK", "MOVE", "SWAP", "CREATE", "DELETE"} =>
                a.place = session[s].place
           /\ t.kind = "LOCK" => IsPlaced(session[s])
           /\ t.kind \notin {"LOCK", "CREATE", "DELETE"} =>
                a.locked = session[s].locked \/ ~a.locked
<1>1. t.kind \in EventTypes BY DEF Tx
<1>2. /\ a.place = IF "place" \in t.columns THEN t.goal[s].place ELSE session[s].place
      /\ a.locked = IF "locked" \in t.columns THEN t.goal[s].locked ELSE session[s].locked
  BY ColumnsApplied
<1>3. CASE t.kind = "BANK" BY <1>2, <1>3 DEF Decision
<1>4. CASE t.kind \in {"MOVE", "SWAP"} BY <1>2, <1>4 DEF Decision, IsPlaced
<1>5. CASE t.kind \in {"CREATE", "DELETE"} BY <1>2, <1>5 DEF Decision, IsPlaced, Columns
<1>6. CASE t.kind \in {"LOCK", "UNLOCK"} BY <1>2, <1>6 DEF Decision
<1>7. CASE t.kind \in {"SET_LECTURERS", "UPDATE_DETAILS", "SUBSTITUTE"}
  BY <1>2, <1>7 DEF Decision
<1> QED BY <1>1, <1>3, <1>4, <1>5, <1>6, <1>7 DEF EventTypes

\* The bank is in order after a commit.
LEMMA CommitBanks ==
    ASSUME EditInv, OrderInv, BankInv, alone, NEW e \in Editors, Commit(e),
           NEW s \in Sessions
    PROVE  /\ session'[s].place = Bank <=> <<"unplaced", s>> \in recorded'
           /\ session'[s].place = Bank => ~session'[s].locked
<1>0. PICK t : t = tx[e] OBVIOUS
<1>1. /\ Editing(t) /\ t \in Tx /\ t.pc = "commit"
      /\ s \notin DOMAIN t.goal => session'[s] = session[s]
      /\ s \in DOMAIN t.goal => /\ session'[s] = Applied(t, s)
                                /\ Decision(t.kind, t.columns, session[s], t.goal[s])
      /\ Findings(t, session, recorded, session')
  BY <1>0, CommitAlone
<1>2. <<"unplaced", s>> \in recorded' <=>
         /\ session'[s].place # Gone
         /\ \/ <<"unplaced", s>> \in recorded /\ <<"unplaced", s>> \notin t.cleared
            \/ <<"unplaced", s>> \in t.found
  BY <1>0, CommitAlone DEF Rules
<1>3. /\ session[s].place = Bank <=> <<"unplaced", s>> \in recorded
      /\ session[s].place = Bank => ~session[s].locked
  BY DEF BankInv, UnplacedIsRecorded, BankedIsNotLocked
<1>a. Bank # Gone BY PlacesAssumption
<1>b. t.kind \in EventTypes BY <1>1 DEF Tx
<1>4. t.kind = "BANK" => /\ t.involved = DOMAIN t.goal
                         /\ t.found = {"unplaced"} \X DOMAIN t.goal
  BY <1>1 DEF Findings
<1>5. Refreshes(t.kind) => /\ DOMAIN t.goal \subseteq t.involved
                           /\ \A o \in t.involved : o \in DOMAIN t.goal \/ IsPlaced(session[o])
                           /\ t.found = {v \in Rules \X DOMAIN t.goal :
                                           Breaks(session', v[1], v[2])}
  BY <1>1 DEF Findings
<1>6. Recording(t.kind) => (<<"unplaced", s>> \in t.cleared <=>
                              <<"unplaced", s>> \in recorded /\ s \in t.involved)
  <2>1. Recording(t.kind) => t.cleared = {v \in recorded : v[2] \in t.involved}
    BY <1>1 DEF Findings
  <2>2. <<"unplaced", s>>[2] = s OBVIOUS
  <2> QED BY <2>1, <2>2
<1>7. ~Recording(t.kind) => t.found = {} /\ t.cleared = {} BY <1>1 DEF Findings
<1>8. Refreshes(t.kind) => (<<"unplaced", s>> \in t.found <=>
                              s \in DOMAIN t.goal /\ session'[s].place = Bank)
  <2>1. <<"unplaced", s>>[1] = "unplaced" /\ <<"unplaced", s>>[2] = s OBVIOUS
  <2>2. Breaks(session', "unplaced", s) <=> session'[s].place = Bank BY DEF Breaks
  <2> QED BY <1>5, <2>1, <2>2 DEF Rules
<1>9. CASE s \notin DOMAIN t.goal
  <2>1. session'[s] = session[s] BY <1>1, <1>9
  <2>2. <<"unplaced", s>> \notin t.found BY <1>4, <1>7, <1>8, <1>9 DEF Recording
  <2>3. <<"unplaced", s>> \in recorded => <<"unplaced", s>> \notin t.cleared
    BY <1>3, <1>4, <1>5, <1>6, <1>7, <1>9 DEF Recording, IsPlaced
  <2> QED BY <1>2, <1>3, <1>a, <2>1, <2>2, <2>3
<1>10. CASE s \in DOMAIN t.goal
  <2>0. PICK a : a = Applied(t, s) OBVIOUS
  <2>1. session'[s] = a BY <1>1, <1>10, <2>0
  <2>2. Decision(t.kind, t.columns, session[s], t.goal[s]) BY <1>1, <1>10
  <2>3. /\ t.kind = "BANK" => a.place = Bank /\ a.locked = session[s].locked /\ ~session[s].locked
        /\ t.kind \in {"MOVE", "SWAP", "CREATE"} => IsPlaced(a)
        /\ t.kind = "DELETE" => a.place = Gone
        /\ t.kind \notin {"BANK", "MOVE", "SWAP", "CREATE", "DELETE"} => a.place = session[s].place
        /\ t.kind = "LOCK" => IsPlaced(session[s])
        /\ t.kind \notin {"LOCK", "CREATE", "DELETE"} => a.locked = session[s].locked \/ ~a.locked
    BY <1>1, <1>10, <2>0, <2>2, BankedByEdit
  <2>4. a.place = Bank => ~a.locked BY <1>3, <1>a, <1>b, <2>3 DEF EventTypes, IsPlaced
  <2>5. CASE t.kind = "BANK"
    <3>1. <<"unplaced", s>> \in t.found BY <1>4, <1>10, <2>5
    <3> QED BY <1>2, <1>a, <2>1, <2>3, <2>4, <2>5, <3>1
  <2>6. CASE Refreshes(t.kind)
    <3>1. <<"unplaced", s>> \in recorded => <<"unplaced", s>> \in t.cleared
      BY <1>5, <1>6, <1>10, <2>6 DEF Recording
    <3> QED BY <1>2, <1>8, <1>10, <1>a, <2>1, <2>4, <2>6, <3>1
  <2>7. CASE ~Recording(t.kind)
    <3>1. t.kind \in {"LOCK", "UNLOCK", "SUBSTITUTE", "DELETE"} BY <1>b, <2>7, KindsRecord
    <3> QED BY <1>2, <1>3, <1>7, <1>a, <2>1, <2>3, <2>4, <2>7, <3>1
  <2> QED BY <2>5, <2>6, <2>7 DEF Recording
<1> QED BY <1>9, <1>10

\* Every step leaves the bank in order.
LEMMA StepBank ==
    ASSUME EditInv, OrderInv, BankInv, [Next]_vars
    PROVE  BankInv'
<1>1. CASE UNCHANGED vars
  <2>1. session' = session /\ recorded' = recorded /\ tx' = tx /\ alone' = alone
    BY <1>1 DEF vars
  <2>2. \A e : Sees(e)' = Sees(e) BY <2>1 DEF Sees, Applied, PeopleWritten
  <2> QED BY <2>1, <2>2 DEF BankInv, UnplacedIsRecorded, BankedIsNotLocked
<1>2. CASE Next
  <2>1. PICK e \in Editors : Step(e) BY <1>2 DEF Next
  <2>2. alone' = alone BY <1>2 DEF Next
  <2>0. PICK t \in Tx : t = tx[e] BY DEF EditInv
  <2>a. alone /\ t.pc # "idle" => \A f \in Editors \ {e} : tx[f] = NoTx
    BY <2>0, OthersIdle
  <2>b. alone => Findings(t, session, recorded, Sees(e)) BY <2>0 DEF BankInv
  <2>3. CASE \E u : Opens(e, u) /\ (alone => \A f \in Editors : tx[f].pc = "idle")
    <3>1. PICK u : Opens(e, u) /\ (alone => \A f \in Editors : tx[f].pc = "idle") BY <2>3
    <3>2. /\ Becomes(e, u) /\ u.found = {} /\ u.cleared = {}
          /\ u.pc \in {"read", "write", "log"}
          /\ u.kind = "SUBSTITUTE" => \A s \in DOMAIN u.goal : IsFree(session, s, u.goal[s])
      BY <3>1 DEF Opens, Becomes, Reading, FirstStep
    <3>3. PICK seen : seen = Sees(e)' OBVIOUS
    <3>4. Findings(u, session, recorded, seen) BY <3>2 DEF Findings
    <3>5. alone => \A f \in Editors \ {e} : tx[f] = NoTx
      BY <3>1 DEF EditInv, Shape, Reading, Editing
    <3> QED BY <2>2, <3>2, <3>3, <3>4, <3>5, BecomesFinds
  <2>4. CASE \E u : ReadsOther(e, u)
    <3>1. PICK u : ReadsOther(e, u) BY <2>4
    <3>2. /\ Becomes(e, u) /\ Reading(t)
          /\ u = NoTx \/ (u.pc = "write" /\ u.kind = "SWAP" /\ u.found = {} /\ u.cleared = {})
      BY <2>0, <3>1 DEF ReadsOther
    <3>3. PICK seen : seen = Sees(e)' OBVIOUS
    <3>4. Findings(u, session, recorded, seen)
      <4>1. CASE u = NoTx BY <4>1, NothingFound
      <4>2. CASE u.pc = "write" /\ u.kind = "SWAP" /\ u.found = {} /\ u.cleared = {}
        BY <4>2 DEF Findings
      <4> QED BY <3>2, <4>1, <4>2
    <3>5. t.pc # "idle" BY <3>2 DEF Reading
    <3> QED BY <2>2, <2>a, <3>2, <3>3, <3>4, <3>5, BecomesFinds
  <2>5. CASE \E u, s : Writes(e, u, s)
    <3>1. PICK u, s : Writes(e, u, s) BY <2>5
    <3>2. /\ Becomes(e, u) /\ SameEdit(t, u) /\ t.pc = "write"
          /\ u.found = t.found /\ u.cleared = t.cleared
          /\ u.pc \in {"write", IF t.kind = "DELETE" THEN "commit" ELSE "log"}
      BY <2>0, <3>1 DEF Writes
    <3>3. PICK seen : seen = Sees(e)' OBVIOUS
    <3>4. ASSUME alone PROVE Findings(u, session, recorded, seen)
      <4>1. /\ t.found = {} /\ t.cleared = {}
            /\ t.kind = "SUBSTITUTE" => \A o \in DOMAIN t.goal : IsFree(session, o, t.goal[o])
        BY <2>b, <3>2, <3>4 DEF Findings
      <4>2. u.kind = t.kind /\ u.goal = t.goal BY <3>2 DEF SameEdit
      <4>3. u.pc = "commit" => u.kind = "DELETE" BY <3>2, <4>2
      <4>4. ~Recording("DELETE") /\ ~Refreshes("DELETE") BY DEF Recording, Refreshes
      <4> QED BY <3>2, <4>1, <4>2, <4>3, <4>4 DEF Findings
    <3> QED BY <2>2, <2>a, <3>2, <3>3, <3>4, BecomesFinds
  <2>6. CASE \E u : Logs(e, u)
    <3>1. PICK u : Logs(e, u) BY <2>6
    <3>2. /\ Becomes(e, u) /\ Keeps(t, u) /\ t.pc = "log" /\ u.pc = AfterLog(t.kind)
          /\ u.involved = IF t.kind = "BANK" THEN DOMAIN t.goal ELSE {}
          /\ u.found = IF t.kind = "BANK" THEN {"unplaced"} \X DOMAIN t.goal ELSE {}
          /\ u.cleared = t.cleared
      BY <2>0, <3>1 DEF Logs
    <3>3. PICK seen : seen = Sees(e)' OBVIOUS
    <3>4. ASSUME alone PROVE Findings(u, session, recorded, seen)
      <4>1. /\ t.cleared = {}
            /\ t.kind = "SUBSTITUTE" => \A o \in DOMAIN t.goal : IsFree(session, o, t.goal[o])
        BY <2>b, <3>2, <3>4 DEF Findings
      <4>2. u.kind = t.kind /\ u.goal = t.goal BY <3>2 DEF Keeps, SameEdit
      <4>3. CASE u.kind = "BANK"
        <5>1. ~Refreshes(u.kind) /\ Recording(u.kind) BY <4>3 DEF Refreshes, Recording
        <5>2. u.pc = "record" /\ u.involved = DOMAIN u.goal
              /\ u.found = {"unplaced"} \X DOMAIN u.goal
          BY <3>2, <4>2, <4>3, <5>1 DEF AfterLog
        <5> QED BY <4>3, <5>1, <5>2 DEF Findings
      <4>4. CASE Refreshes(u.kind)
        <5>1. u.kind # "BANK" /\ u.kind # "SUBSTITUTE" /\ u.kind # "DELETE"
          BY <4>4 DEF Refreshes
        <5>2. u.pc = "detect" /\ u.found = {} /\ u.cleared = {}
          BY <3>2, <4>1, <4>2, <4>4, <5>1 DEF AfterLog
        <5> QED BY <4>4, <5>1, <5>2 DEF Findings
      <4>5. CASE ~Recording(u.kind)
        <5>1. u.pc \in {"write", "commit"} /\ u.found = {} /\ u.cleared = {}
          BY <3>2, <4>1, <4>2, <4>5 DEF AfterLog, Recording
        <5> QED BY <4>1, <4>2, <4>5, <5>1 DEF Findings, Recording
      <4> QED BY <4>3, <4>4, <4>5 DEF Recording
    <3> QED BY <2>2, <2>a, <3>2, <3>3, <3>4, BecomesFinds
  <2>7. CASE \E u : Detects(e, u)
    <3>1. PICK u : Detects(e, u) BY <2>7
    <3>3. PICK seen : seen = Sees(e) OBVIOUS
    <3>2. /\ Becomes(e, u) /\ Keeps(t, u) /\ t.pc = "detect" /\ u.pc = "record"
          /\ DOMAIN t.goal \subseteq u.involved
          /\ \A o \in u.involved : o \in DOMAIN t.goal \/ IsPlaced(seen[o])
          /\ u.found = {v \in Rules \X DOMAIN t.goal : Breaks(seen, v[1], v[2])}
      BY <2>0, <3>1, <3>3 DEF Detects
    <3>4. ASSUME alone PROVE Findings(u, session, recorded, seen)
      <4>1. Refreshes(t.kind) BY <2>b, <3>2, <3>4 DEF Findings
      <4>2. u.kind = t.kind /\ u.goal = t.goal BY <3>2 DEF Keeps, SameEdit
      <4>3. u.kind # "BANK" /\ u.kind # "SUBSTITUTE" /\ Recording(u.kind)
        BY <4>1, <4>2 DEF Refreshes, Recording
      <4>4. \A o \in u.involved : o \in DOMAIN t.goal \/ IsPlaced(session[o])
        <5>1. t.written = DOMAIN t.goal BY <3>2 DEF Keeps, Editing
        <5>2. u.involved \subseteq Sessions BY <3>2 DEF Becomes, Tx
        <5>3. \A o \in Sessions : o \notin DOMAIN t.goal => seen[o] = session[o]
          BY <2>0, <3>3, <5>1 DEF Sees
        <5> QED BY <3>2, <5>2, <5>3
      <4> QED BY <3>2, <4>1, <4>2, <4>3, <4>4 DEF Findings
    <3>5. Sees(e)' = seen BY <2>0, <3>2, <3>3, KeepsSight
    <3> QED BY <2>2, <2>a, <3>2, <3>4, <3>5, BecomesFinds
  <2>8. CASE \E u : Records(e, u)
    <3>1. PICK u : Records(e, u) BY <2>8
    <3>3. PICK seen : seen = Sees(e) OBVIOUS
    <3>2. /\ Becomes(e, u) /\ Keeps(t, u) /\ t.pc = "record" /\ u.pc = "commit"
          /\ u.involved = t.involved /\ u.found = t.found
          /\ u.cleared = {v \in recorded : v[2] \in t.involved}
      BY <2>0, <3>1 DEF Records
    <3>4. ASSUME alone PROVE Findings(u, session, recorded, seen)
      <4>1. Findings(t, session, recorded, seen) BY <2>b, <3>3, <3>4
      <4>2. u.kind = t.kind /\ u.goal = t.goal BY <3>2 DEF Keeps, SameEdit
      <4> QED BY <3>2, <4>1, <4>2 DEF Findings
    <3>5. Sees(e)' = seen BY <2>0, <3>2, <3>3, KeepsSight
    <3> QED BY <2>2, <2>a, <3>2, <3>4, <3>5, BecomesFinds
  <2>9. CASE Commit(e)
    <3>1. tx' = [tx EXCEPT ![e] = NoTx] /\ t.pc # "idle" BY <2>0, <2>9 DEF Commit
    <3>2. ASSUME alone, NEW f \in Editors
          PROVE  Findings(tx'[f], session', recorded', Sees(f)')
      <4>1. tx'[f] = NoTx BY <2>a, <3>1, <3>2 DEF EditInv
      <4> QED BY <4>1, NothingFound
    <3>3. alone => \A s \in Sessions :
            /\ session'[s].place = Bank <=> <<"unplaced", s>> \in recorded'
            /\ session'[s].place = Bank => ~session'[s].locked
      BY <2>9, CommitBanks
    <3> QED BY <2>2, <3>2, <3>3 DEF BankInv, UnplacedIsRecorded, BankedIsNotLocked
  <2>10. CASE Abort(e)
    <3>1. Becomes(e, NoTx) /\ t.pc # "idle" BY <2>0, <2>10, NoTxFields DEF Abort, Becomes
    <3>2. PICK seen : seen = Sees(e)' OBVIOUS
    <3>3. Findings(NoTx, session, recorded, seen) BY NothingFound
    <3> QED BY <2>2, <2>a, <3>1, <3>2, <3>3, BecomesFinds
  <2> QED BY <2>1, <2>3, <2>4, <2>5, <2>6, <2>7, <2>8, <2>9, <2>10, StepIs
<1> QED BY <1>1, <1>2

\* The bank begins empty.
LEMMA InitBank == Init => BankInv
<1> SUFFICES ASSUME Init PROVE BankInv OBVIOUS
<1>1. session = Start /\ recorded = {} /\ \A e \in Editors : tx[e] = NoTx BY DEF Init
<1>2. UnplacedIsRecorded /\ BankedIsNotLocked
  BY <1>1, StartAssumption DEF UnplacedIsRecorded, BankedIsNotLocked
<1>3. ASSUME NEW e \in Editors PROVE Findings(tx[e], session, recorded, Sees(e))
  BY <1>1, NothingFound
<1> QED BY <1>2, <1>3 DEF BankInv

\* The spare bank holds what is reported as unplaced and nothing locked, through
\* any sequence of edits that do not overlap (bank.post.ts, lock.post.ts,
\* refreshViolations).
THEOREM BankStaysInOrder == Spec => []BankIsInOrder
<1>1. EditInv /\ OrderInv /\ BankInv => BankIsInOrder BY DEF BankInv, BankIsInOrder
<1>2. Init => EditInv /\ OrderInv /\ BankInv BY InitFits, InitOrder, InitBank
<1>3. EditInv /\ OrderInv /\ BankInv /\ [Next]_vars => (EditInv /\ OrderInv /\ BankInv)'
  BY StepFits, StepOrder, StepBank
<1> QED BY <1>1, <1>2, <1>3, PTL DEF Spec

\* Ranges of blocks overlap, as blocksOverlap compares their ends, when they have
\* a block in common.
LEMMA OverlapIsShared ==
    ASSUME NEW a \in Row, NEW b \in Row
    PROVE  Overlap(a, b) <=> Occupies(a) \cap Occupies(b) # {}
<1>1. /\ a.length \in Nat /\ a.length > 0 /\ b.length \in Nat /\ b.length > 0
  <2>1. a.length \in Lengths /\ b.length \in Lengths BY RowFields
  <2>2. \A n \in Lengths : n \in Nat /\ n > 0 BY EditAssumption
  <2> QED BY <2>1, <2>2
<1>2. \A row \in Row : IsPlaced(row) => row.place[2] \in Nat
  <2> SUFFICES ASSUME NEW row \in Row, IsPlaced(row) PROVE row.place[2] \in Nat OBVIOUS
  <2>1. row.place \in Slots BY RowFields DEF IsPlaced
  <2> QED BY <2>1, EditAssumption DEF Slots
<1>3. CASE ~(IsPlaced(a) /\ IsPlaced(b)) BY <1>3 DEF Overlap, SameDay, Occupies
<1>4. CASE IsPlaced(a) /\ IsPlaced(b)
  <2>1. PICK d, m, l : d = a.place[1] /\ m = a.place[2] /\ l = a.length OBVIOUS
  <2>2. PICK g, n, k : g = b.place[1] /\ n = b.place[2] /\ k = b.length OBVIOUS
  <2>3. m \in Nat /\ n \in Nat /\ l \in Nat /\ k \in Nat /\ l > 0 /\ k > 0
    BY <1>1, <1>2, <1>4, <2>1, <2>2
  <2>4. Overlap(a, b) <=> d = g /\ m < n + k /\ n < m + l
    BY <1>4, <2>1, <2>2 DEF Overlap, SameDay
  <2>5. /\ Occupies(a) = {<<d, x>> : x \in m..(m + l - 1)}
        /\ Occupies(b) = {<<g, x>> : x \in n..(n + k - 1)}
    BY <1>4, <2>1, <2>2 DEF Occupies
  <2>6. ASSUME d = g, m < n + k, n < m + l PROVE Occupies(a) \cap Occupies(b) # {}
    <3>1. PICK x : x = IF m < n THEN n ELSE m OBVIOUS
    <3>2. x \in m..(m + l - 1) /\ x \in n..(n + k - 1) BY <2>3, <2>6, <3>1
    <3>3. <<d, x>> \in Occupies(a) /\ <<d, x>> \in Occupies(b) BY <2>5, <2>6, <3>2
    <3> QED BY <3>3
  <2>7. ASSUME Occupies(a) \cap Occupies(b) # {} PROVE d = g /\ m < n + k /\ n < m + l
    <3>1. PICK y : y \in Occupies(a) /\ y \in Occupies(b) BY <2>7
    <3>2. PICK x \in m..(m + l - 1) : y = <<d, x>> BY <2>5, <3>1
    <3>3. PICK z \in n..(n + k - 1) : y = <<g, z>> BY <2>5, <3>1
    <3>4. d = g /\ x = z BY <3>2, <3>3
    <3> QED BY <2>3, <3>2, <3>3, <3>4
  <2> QED BY <2>4, <2>6, <2>7
<1> QED BY <1>3, <1>4

\* After an edit that overlaps no other, the collisions recorded of the edited
\* sessions are those of the committed schedule (refreshViolations).
THEOREM CollisionsOfTheEdited == Spec => EditedIsRecorded
<1>1. ASSUME EditInv, EditInv', OrderInv, BankInv, NEW e \in Editors, alone, Commit(e),
             Refreshes(tx[e].kind), NEW s \in DOMAIN tx[e].goal
      PROVE  <<"double_booking", s>> \in recorded' <=>
               \E o \in Sessions \ {s} : Collide(session'[s], session'[o])
  <2>0. PICK t \in Tx : t = tx[e] BY <1>1 DEF EditInv
  <2>1. s \in Sessions /\ s \in DOMAIN t.goal BY <1>1, <2>0 DEF Tx, Images
  <2>2. /\ t.pc = "commit" /\ Findings(t, session, recorded, session')
    BY <1>1, <2>0, <2>1, CommitAlone
  <2>3. <<"double_booking", s>> \in recorded' <=>
          /\ session'[s].place # Gone
          /\ \/ <<"double_booking", s>> \in recorded /\ <<"double_booking", s>> \notin t.cleared
             \/ <<"double_booking", s>> \in t.found
    BY <1>1, <2>0, <2>1, CommitAlone DEF Rules
  <2>4. Recording(t.kind) BY <1>1, <2>0 DEF Recording
  <2>5. <<"double_booking", s>>[1] = "double_booking" /\ <<"double_booking", s>>[2] = s OBVIOUS
  <2>6. <<"double_booking", s>> \in recorded => <<"double_booking", s>> \in t.cleared
    BY <1>1, <2>0, <2>1, <2>2, <2>4, <2>5 DEF Findings
  <2>7. t.found = {v \in Rules \X DOMAIN t.goal : Breaks(session', v[1], v[2])}
    BY <1>1, <2>0, <2>2 DEF Findings
  <2>8. <<"double_booking", s>> \in t.found <=> Breaks(session', "double_booking", s)
    BY <2>1, <2>5, <2>7 DEF Rules
  <2>9. Breaks(session', "double_booking", s) <=>
          \E o \in Sessions \ {s} :
             Overlap(session'[s], session'[o]) /\ Shares(session'[s], session'[o])
    BY DEF Breaks
  <2>10. \A o \in Sessions : Overlap(session'[s], session'[o]) <=>
           Occupies(session'[s]) \cap Occupies(session'[o]) # {}
    <3>1. \A o \in Sessions : session'[o] \in Row BY <1>1 DEF EditInv
    <3> QED BY <2>1, <3>1, OverlapIsShared
  <2>11. \A o \in Sessions : Overlap(session'[s], session'[o]) => session'[s].place # Gone
    BY DEF Overlap, SameDay, IsPlaced
  <2> QED BY <2>3, <2>6, <2>8, <2>9, <2>10, <2>11 DEF Collide
<1>2. EditInv /\ EditInv' /\ OrderInv /\ BankInv =>
        \A e \in Editors : alone /\ Commit(e) /\ Refreshes(tx[e].kind) =>
          \A s \in DOMAIN tx[e].goal : <<"double_booking", s>> \in recorded' <=>
            \E o \in Sessions \ {s} : Collide(session'[s], session'[o])
  BY <1>1
<1>3. Init => EditInv /\ OrderInv /\ BankInv BY InitFits, InitOrder, InitBank
<1>4. EditInv /\ OrderInv /\ BankInv /\ [Next]_vars => (EditInv /\ OrderInv /\ BankInv)'
  BY StepFits, StepOrder, StepBank
<1> QED BY <1>2, <1>3, <1>4, PTL DEF Spec, EditedIsRecorded

\* Who is made to cover a session has nothing else to do at the time, where the
\* request overlaps no other edit (assertFreeForSubstitution).
THEOREM SubstitutesAreFree == Spec => SubstituteIsFree
<1>1. ASSUME EditInv, OrderInv, BankInv, NEW e \in Editors, alone, Commit(e),
             tx[e].kind = "SUBSTITUTE", NEW s \in DOMAIN tx[e].goal,
             session'[s].cover # None, NEW o \in Sessions \ {s},
             Occupies(session'[s]) \cap Occupies(session'[o]) # {}
      PROVE  session'[s].cover # session'[o].cover /\ session'[s].cover \notin Attached(session'[o])
  <2>0. PICK t \in Tx : t = tx[e] BY <1>1 DEF EditInv
  <2>1. s \in Sessions /\ s \in DOMAIN t.goal BY <1>1, <2>0 DEF Tx, Images
  <2>2. /\ Findings(t, session, recorded, session') /\ Editing(t)
        /\ session'[s] = Applied(t, s)
        /\ Decision(t.kind, t.columns, session[s], t.goal[s])
    BY <1>1, <2>0, <2>1, CommitAlone
  <2>3. DOMAIN t.goal = {s} BY <1>1, <2>0, <2>1, <2>2 DEF Editing, NamesRows
  <2>4. session'[o] = session[o] BY <1>1, <2>0, <2>3, CommitAlone
  <2>5. t.columns = {"cover"} BY <1>1, <2>0, <2>2 DEF Decision
  <2>6. PICK a : a = session'[s] OBVIOUS
  <2>7. /\ a.place = session[s].place /\ a.length = session[s].length
        /\ a.cover = t.goal[s].cover
    BY <2>2, <2>5, <2>6, ColumnsApplied
  <2>8. IsFree(session, s, t.goal[s]) BY <1>1, <2>0, <2>1, <2>2 DEF Findings
  <2>9. Occupies(session[s]) = Occupies(a) BY <2>7 DEF Occupies, IsPlaced
  <2>10. Overlap(session[s], session[o])
    <3>1. session[s] \in Row /\ session[o] \in Row BY <1>1, <2>1 DEF EditInv
    <3> QED BY <1>1, <2>4, <2>6, <2>9, <3>1, OverlapIsShared
  <2> QED BY <1>1, <2>4, <2>6, <2>7, <2>8, <2>10 DEF IsFree, Busy
<1>2. EditInv /\ OrderInv /\ BankInv =>
        \A e \in Editors : alone /\ Commit(e) /\ tx[e].kind = "SUBSTITUTE" =>
          \A s \in DOMAIN tx[e].goal : LET p == session'[s].cover IN p # None =>
            \A o \in Sessions \ {s} : Occupies(session'[s]) \cap Occupies(session'[o]) # {} =>
              p # session'[o].cover /\ p \notin Attached(session'[o])
  BY <1>1
<1>3. Init => EditInv /\ OrderInv /\ BankInv BY InitFits, InitOrder, InitBank
<1>4. EditInv /\ OrderInv /\ BankInv /\ [Next]_vars => (EditInv /\ OrderInv /\ BankInv)'
  BY StepFits, StepOrder, StepBank
<1> QED BY <1>2, <1>3, <1>4, PTL DEF Spec, SubstituteIsFree

=============================================================================
