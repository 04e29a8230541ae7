----------------------------- MODULE SessionEdit -----------------------------
(***************************************************************************)
(* Manual edits of the schedule: the handlers under /api/sessions, the     *)
(* append-only log they write (server/utils/sessionEvents.ts) and the      *)
(* constraint violations they record (server/utils/violations.ts).         *)
(*                                                                         *)
(* One handler is one READ COMMITTED transaction: it reads the session and *)
(* decides (an action per handler), updates it under its row lock, appends *)
(* an event, detects and records violations, commits. Its writes stay in   *)
(* tx until then. A refused request changes nothing and is no step.        *)
(*                                                                         *)
(* Left out: terms and weeks (a day stands for a day of a week of a term), *)
(* groups (their overlap is decided like that of rooms and people, through *)
(* the closure), kinds and titles, federation-shared sessions, the breaks  *)
(* of a time grid, terms without one. One rule stands for each shape:      *)
(* "double_booking" for the pairwise ones, "unplaced" for those about one  *)
(* session.                                                                *)
(***************************************************************************)
EXTENDS Integers, FiniteSets, Sequences, SequencesExt

CONSTANTS
    Sessions, Rooms, People,
    Events,     \* the sessions without an Offering behind them
    Days,       \* active days of the time grid
    Blocks,     \* blocksPerDay
    Lengths,    \* durations an edit may ask for
    Start,      \* the applied schedule the edits begin with
    Editors,    \* requests that may be in flight at a time
    Kinds,      \* the kinds of edits that happen
    MaxEvents,  \* bound: length of the event log
    Bank,       \* the place of a session in the spare bank
    Gone,       \* the place of a session that does not exist
    None

Columns == {"place", "length", "locked", "rooms", "people", "cover"}

\* Day and first block of a placement.
Slots == Days \X (0..Blocks - 1)

Row == [place: Slots \cup {Bank, Gone}, length: Lengths, locked: BOOLEAN,
        rooms: SUBSET Rooms, people: [People -> {"none", "attendee", "lecturer"}],
        cover: People \cup {None}]

EventTypes == {"CREATE", "MOVE", "SWAP", "DELETE", "UPDATE_DETAILS", "SET_LECTURERS",
               "LOCK", "UNLOCK", "SUBSTITUTE", "BANK"}

ASSUME EditAssumption ==
    /\ Start \in [Sessions -> Row]
    /\ Events \subseteq Sessions
    /\ Blocks \in Nat /\ Lengths \subseteq Nat \ {0}
    /\ Kinds \subseteq EventTypes
    /\ MaxEvents \in Nat
    /\ IsFiniteSet(Editors)

\* NULL, the bank and nowhere are not ids or slots.
ASSUME PlacesAssumption ==
    /\ Bank # Gone /\ Bank \notin Slots /\ Gone \notin Slots
    /\ None \notin Editors \cup People

\* The edits begin with sessions an apply has placed in the grid, none of them in
\* the bank, and with nothing recorded.
ASSUME StartAssumption == \A s \in Sessions :
    /\ Start[s].place # Bank
    /\ Start[s].place # Gone => Start[s].place[2] + Start[s].length <= Blocks

VARIABLES
    session,  \* committed rows of session, session_room, session_person, ...
    recorded, \* committed rows of constraint_violation
    log,      \* session_event in the order of seq, open transactions included
    tx,       \* what a request's transaction has read, wants and has written
    alone     \* whether there is one request at a time

vars == <<session, recorded, log, tx, alone>>

-----------------------------------------------------------------------------
Rules == {"double_booking", "unplaced"}

NoTx == [pc |-> "idle", kind |-> "MOVE", ids |-> <<>>, read |-> <<>>, goal |-> <<>>,
         columns |-> {}, written |-> {}, involved |-> {}, found |-> {}, cleared |-> {}]

IsPlaced(row) == row.place \notin {Bank, Gone}

\* Every row is one the schema admits, and no placement runs past the last block
\* of its day (gridBounds.ts: one that does "resolves to no slot at all").
TypeOK ==
    /\ session \in [Sessions -> Row]
    /\ \A s \in Sessions : IsPlaced(session[s]) => session[s].place[2] + session[s].length <= Blocks
    /\ recorded \subseteq Rules \X Sessions
    /\ Len(log) <= MaxEvents
    /\ DOMAIN tx = Editors
    /\ \A e \in Editors :
        LET t == tx[e] IN
        /\ t.pc \in {"idle", "read", "write", "log", "detect", "record", "commit"}
        /\ t.kind \in EventTypes /\ t.columns \subseteq Columns
        /\ DOMAIN t.read \subseteq Sessions /\ DOMAIN t.goal \subseteq Sessions
        /\ \A s \in DOMAIN t.goal : t.read[s] \in Row /\ t.goal[s] \in Row
        /\ t.written \cup t.involved \subseteq Sessions
        /\ t.found \cup t.cleared \subseteq Rules \X Sessions

Init ==
    /\ session = Start
    /\ recorded = {}
    /\ log = <<>>
    /\ tx = [e \in Editors |-> NoTx]
    /\ alone \in BOOLEAN

Attached(row) == {p \in People : row.people[p] # "none"}

\* Mutated form of Fits: only the first block is looked at.
FitsStart(slot, length) == slot[2] < Blocks

\* fitsGrid
Fits(slot, length) == slot[2] + length <= Blocks

-----------------------------------------------------------------------------
(***************************************************************************)
(* Transactions                                                            *)
(***************************************************************************)
\* The people a transaction deletes or upserts rows of.
PeopleWritten(t, s) ==
    IF "people" \in t.columns
      THEN {p \in People : t.read[s].people[p] # t.goal[s].people[p]} ELSE {}

\* Mutated form of Applied: an UPDATE writes back the whole row it read.
AppliedWholeRow(t, s) == t.goal[s]

\* Row s after the statements of t: only the columns it names are replaced,
\* and people row by row.
Applied(t, s) == [c \in Columns |->
    CASE c = "people" -> [p \in People |-> IF p \in PeopleWritten(t, s)
                                             THEN t.goal[s].people[p]
                                             ELSE session[s].people[p]]
      [] c \in t.columns \ {"people"} -> t.goal[s][c]
      [] OTHER -> session[s][c]]

\* What the transaction of e reads: committed rows and its own writes.
Sees(e) == [s \in Sessions |-> IF s \in tx[e].written THEN Applied(tx[e], s) ELSE session[s]]

\* Handlers that UPDATE or DELETE the row of session itself.
LocksRow(kind) == kind \notin {"SET_LECTURERS", "SUBSTITUTE", "CREATE"}

\* What e waits for before it writes s: the row lock of another transaction,
\* its uncommitted rows of the same people or of the same substitution, and, to
\* delete the session, every transaction that holds a reference to it.
Writable(e, s) == \A f \in Editors \ {e} :
    LET t == tx[e]  u == tx[f] IN
    /\ s \in u.written =>
        /\ ~(LocksRow(t.kind) /\ LocksRow(u.kind))
        /\ u.kind # "DELETE"
        /\ PeopleWritten(t, s) \cap PeopleWritten(u, s) = {}
        /\ ~("cover" \in t.columns /\ "cover" \in u.columns)
    /\ t.kind = "DELETE" /\ u.pc # "idle" =>
        s \notin u.written /\ \A i \in DOMAIN log : log[i].by = f => s \notin DOMAIN log[i].to

Request(e, kind, ids, read, goal, columns) ==
    /\ tx[e].pc = "idle"
    /\ kind \in Kinds
    /\ Len(log) + Cardinality({f \in Editors : tx[f].pc # "idle"}) < MaxEvents
    /\ tx' = [tx EXCEPT ![e] = [NoTx EXCEPT
         !.pc = IF kind = "DELETE" THEN "log" ELSE "write", !.kind = kind,
         !.ids = ids, !.read = read, !.goal = goal, !.columns = columns]]
    /\ UNCHANGED <<session, recorded, log>>

Only(s, row) == [o \in {s} |-> row]

\* A handler that edits the one session it names.
Edit(e, kind, s, goal, columns) ==
    /\ session[s].place # Gone
    /\ Request(e, kind, <<s>>, Only(s, session[s]), Only(s, goal), columns)

-----------------------------------------------------------------------------
(***************************************************************************)
(* The handlers, up to their first write                                   *)
(***************************************************************************)
\* To any slot of the grid, from the bank too. Rooms are replaced on request.
Move(e, s) == \E slot \in Slots, length \in Lengths :
    /\ Fits(slot, length)
    /\ LET goal == [session[s] EXCEPT !.place = slot, !.length = length] IN
       \/ Edit(e, "MOVE", s, goal, {"place", "length"})
       \/ \E rooms \in SUBSET Rooms :
            Edit(e, "MOVE", s, [goal EXCEPT !.rooms = rooms], {"place", "length", "rooms"})

\* Reads one session here and the other in SwapReadsOther.
Swap(e, s, other) ==
    /\ s # other /\ "SWAP" \in Kinds
    /\ tx[e].pc = "idle"
    /\ Len(log) + Cardinality({f \in Editors : tx[f].pc # "idle"}) < MaxEvents
    /\ tx' = [tx EXCEPT ![e] = [NoTx EXCEPT
         !.pc = "read", !.kind = "SWAP", !.ids = <<s, other>>, !.read = Only(s, session[s])]]
    /\ UNCHANGED <<session, recorded, log>>

SwapReadsOther(e) ==
    LET t == tx[e]  s == t.ids[1]  other == t.ids[2]
        a == t.read[s]  b == session[other] IN
    /\ t.pc = "read"
    /\ tx' = [tx EXCEPT ![e] =
         IF IsPlaced(a) /\ IsPlaced(b)
           THEN [t EXCEPT !.pc = "write", !.columns = {"place", "length"},
                          !.read = [o \in {s, other} |-> IF o = s THEN a ELSE b],
                          !.goal = [o \in {s, other} |->
                            IF o = s THEN [a EXCEPT !.place = b.place, !.length = b.length]
                                     ELSE [b EXCEPT !.place = a.place, !.length = a.length]]]
           ELSE NoTx]
    /\ UNCHANGED <<session, recorded, log>>

\* Mutated form of BankSession: the lock is not looked at.
BankAnyway(e, s) ==
    /\ s \notin Events /\ IsPlaced(session[s])
    /\ Edit(e, "BANK", s, [session[s] EXCEPT !.place = Bank], {"place"})

BankSession(e, s) ==
    /\ s \notin Events /\ IsPlaced(session[s]) /\ ~session[s].locked
    /\ Edit(e, "BANK", s, [session[s] EXCEPT !.place = Bank], {"place"})

Lock(e, s) ==
    /\ ~session[s].locked /\ IsPlaced(session[s])
    /\ Edit(e, "LOCK", s, [session[s] EXCEPT !.locked = TRUE], {"locked"})

Unlock(e, s) ==
    /\ session[s].locked
    /\ Edit(e, "UNLOCK", s, [session[s] EXCEPT !.locked = FALSE], {"locked"})

\* A lecturer left out is detached, one named is attached or promoted. The
\* session's own row is not locked.
SetLecturers(e, s) == \E after \in SUBSET People :
    /\ s \in Events \/ session[s].locked
    /\ Edit(e, "SET_LECTURERS", s,
         [session[s] EXCEPT !.people = [p \in People |->
            IF p \in after THEN "lecturer" ELSE IF @[p] = "lecturer" THEN "none" ELSE @[p]]],
         {"people"})

\* Replaces everyone by plain attendees.
UpdateDetails(e, s) == \E who \in SUBSET People :
    /\ s \in Events
    /\ Edit(e, "UPDATE_DETAILS", s,
         [session[s] EXCEPT !.people = [p \in People |-> IF p \in who THEN "attendee" ELSE "none"]],
         {"people"})

SameDay(a, b) == IsPlaced(a) /\ IsPlaced(b) /\ a.place[1] = b.place[1]

\* Mutated form of Overlap: blocks that only touch overlap too.
OverlapTouching(a, b) ==
    /\ SameDay(a, b)
    /\ a.place[2] <= b.place[2] + b.length
    /\ b.place[2] <= a.place[2] + a.length

\* blocksOverlap: half-open ranges of blocks.
Overlap(a, b) ==
    /\ SameDay(a, b)
    /\ a.place[2] < b.place[2] + b.length
    /\ b.place[2] < a.place[2] + a.length

\* Mutated form of Busy: who only covers elsewhere counts as free.
BusyTeaching(rows, s, p) ==
    \/ p \in Attached(rows[s])
    \/ \E o \in Sessions \ {s} : Overlap(rows[s], rows[o]) /\ p \in Attached(rows[o])

\* busyPersonIds: attached here, or attached to or covering what overlaps.
Busy(rows, s, p) ==
    \/ p \in Attached(rows[s])
    \/ \E o \in Sessions \ {s} :
         Overlap(rows[s], rows[o]) /\ (p \in Attached(rows[o]) \/ p = rows[o].cover)

Substitute(e, s) == \E p \in People :
    /\ IsPlaced(session[s]) /\ ~Busy(session, s, p)
    /\ Edit(e, "SUBSTITUTE", s, [session[s] EXCEPT !.cover = p], {"cover"})

WithdrawSubstitute(e, s) ==
    /\ session[s].cover # None
    /\ Edit(e, "SUBSTITUTE", s, [session[s] EXCEPT !.cover = None], {"cover"})

NoSession == [place |-> Gone, length |-> CHOOSE n \in Lengths : TRUE, locked |-> FALSE,
              rooms |-> {}, people |-> [p \in People |-> "none"], cover |-> None]

\* The id is fresh: no other request is creating it, none has used it before.
Create(e, s) ==
    /\ session[s].place = Gone
    /\ \A i \in DOMAIN log : s \notin DOMAIN log[i].to
    /\ \A f \in Editors : s \notin DOMAIN tx[f].goal
    /\ \E slot \in Slots, length \in Lengths, rooms \in SUBSET Rooms, locked \in BOOLEAN,
          people \in [People -> {"none", "attendee"}] :
        /\ Fits(slot, length)
        /\ Request(e, "CREATE", <<s>>, Only(s, session[s]),
             Only(s, [NoSession EXCEPT !.place = slot, !.length = length, !.locked = locked,
                                       !.rooms = rooms, !.people = people]), Columns)

Delete(e, s) ==
    /\ s \in Events
    /\ Edit(e, "DELETE", s, NoSession, Columns)

-----------------------------------------------------------------------------
(***************************************************************************)
(* The rest of a handler                                                   *)
(***************************************************************************)
Refreshes(kind) == kind \in {"MOVE", "SWAP", "SET_LECTURERS", "UPDATE_DETAILS", "CREATE"}

\* The next row of a transaction is written, in the order of the handler. A
\* session or substitution deleted meanwhile is an error: see Abort.
Write(e) ==
    LET t == tx[e]
        s == t.ids[Cardinality(t.written) + 1]
        last == Cardinality(t.written) + 1 = Len(t.ids) IN
    /\ t.pc = "write"
    /\ Writable(e, s)
    /\ session[s].place # Gone \/ t.kind = "CREATE"
    /\ t.kind = "SUBSTITUTE" /\ t.goal[s].cover = None => session[s].cover # None
    /\ tx' = [tx EXCEPT ![e] = [t EXCEPT
         !.written = @ \cup {s},
         !.read[s] = IF t.kind = "UPDATE_DETAILS" THEN session[s] ELSE @,
         !.pc = IF ~last THEN "write" ELSE IF t.kind = "DELETE" THEN "commit" ELSE "log"]]
    /\ UNCHANGED <<session, recorded, log>>

\* The after-state an event carries: what was written, except that the rooms of
\* a move that leaves them alone are those read before the update.
Payload(t) == [s \in DOMAIN t.goal |->
    [c \in IF t.kind = "MOVE" THEN t.columns \cup {"rooms"} ELSE t.columns |-> t.goal[s][c]]]

AfterLog(kind) ==
    IF kind = "DELETE" THEN "write" ELSE IF Refreshes(kind) THEN "detect"
    ELSE IF kind = "BANK" THEN "record" ELSE "commit"

\* appendEvent: seq is drawn here, and orders the log. The foreign key makes the
\* insert fail for a session that is gone.
Log(e) ==
    LET t == tx[e] IN
    /\ t.pc = "log"
    /\ \A s \in DOMAIN t.goal : \A f \in Editors \ {e} :
         ~(s \in tx[f].written /\ tx[f].kind = "DELETE")
    /\ \A s \in DOMAIN t.goal : Sees(e)[s].place # Gone
    /\ log' = Append(log, [by |-> e, to |-> Payload(t)])
    /\ tx' = [tx EXCEPT ![e] = [t EXCEPT !.pc = AfterLog(t.kind),
         !.involved = IF t.kind = "BANK" THEN DOMAIN t.goal ELSE {},
         !.found = IF t.kind = "BANK" THEN {"unplaced"} \X DOMAIN t.goal ELSE {}]]
    /\ UNCHANGED <<session, recorded>>

Shares(a, b) == a.rooms \cap b.rooms # {} \/ Attached(a) \cap Attached(b) # {}

\* What rule says of session s.
Breaks(rows, rule, s) ==
    IF rule = "unplaced" THEN rows[s].place = Bank
    ELSE \E o \in Sessions \ {s} : Overlap(rows[s], rows[o]) /\ Shares(rows[s], rows[o])

\* refreshViolations, its queries: violations of the edited sessions; involved
\* are these and every session on the same day.
Detect(e) ==
    LET t == tx[e]  rows == Sees(e)  seeds == DOMAIN t.goal IN
    /\ t.pc = "detect"
    /\ tx' = [tx EXCEPT ![e] = [t EXCEPT !.pc = "record",
         !.involved = seeds \cup {o \in Sessions : \E s \in seeds : SameDay(rows[s], rows[o])},
         !.found = {v \in Rules \X seeds : Breaks(rows, v[1], v[2])}]]
    /\ UNCHANGED <<session, recorded, log>>

\* Mutated form of Record: only what two sessions share is cleared.
RecordAfterCollisions(e) ==
    LET t == tx[e]
        rows == {v \in recorded : v[2] \in t.involved /\ v[1] # "unplaced"} IN
    /\ t.pc = "record"
    /\ \A f \in Editors \ {e} : tx[f].pc = "commit" =>
         (rows \cup t.found) \cap (tx[f].cleared \cup tx[f].found) = {}
    /\ tx' = [tx EXCEPT ![e] = [t EXCEPT !.pc = "commit", !.cleared = rows]]
    /\ UNCHANGED <<session, recorded, log>>

\* Its writes: the rows of all involved sessions are cleared, what was found is
\* inserted. Rows another transaction has deleted or inserted are waited for.
Record(e) ==
    LET t == tx[e]
        rows == {v \in recorded : v[2] \in t.involved} IN
    /\ t.pc = "record"
    /\ \A f \in Editors \ {e} : tx[f].pc = "commit" =>
         (rows \cup t.found) \cap (tx[f].cleared \cup tx[f].found) = {}
    /\ tx' = [tx EXCEPT ![e] = [t EXCEPT !.pc = "commit", !.cleared = rows]]
    /\ UNCHANGED <<session, recorded, log>>

\* Rows of a deleted session go with it.
Commit(e) ==
    LET t == tx[e] IN
    /\ t.pc = "commit"
    /\ session' = Sees(e)
    /\ recorded' = {v \in (recorded \ t.cleared) \cup t.found : Sees(e)[v[2]].place # Gone}
    /\ log' = [i \in DOMAIN log |-> IF log[i].by = e THEN [log[i] EXCEPT !.by = None] ELSE log[i]]
    /\ tx' = [tx EXCEPT ![e] = NoTx]

\* The log without the event of a transaction, which appends one at most.
Without(e) ==
    LET is == {i \in DOMAIN log : log[i].by = e}
    IN  IF is = {} THEN log ELSE RemoveAt(log, CHOOSE i \in is : TRUE)

\* A statement fails, Postgres breaks a deadlock, the transaction times out.
Abort(e) ==
    /\ tx[e].pc # "idle"
    /\ log' = Without(e)
    /\ tx' = [tx EXCEPT ![e] = NoTx]
    /\ UNCHANGED <<session, recorded>>

-----------------------------------------------------------------------------
Begin(e) ==
    /\ alone => \A f \in Editors : tx[f].pc = "idle"
    /\ \/ \E s \in Sessions :
           \/ Move(e, s) \/ BankSession(e, s) \/ Lock(e, s) \/ Unlock(e, s)
           \/ SetLecturers(e, s) \/ UpdateDetails(e, s)
           \/ Substitute(e, s) \/ WithdrawSubstitute(e, s)
           \/ Create(e, s) \/ Delete(e, s)
       \/ \E s, other \in Sessions : Swap(e, s, other)

Step(e) ==
    \/ Begin(e) \/ SwapReadsOther(e)
    \/ Write(e) \/ Log(e) \/ Detect(e) \/ Record(e) \/ Commit(e) \/ Abort(e)

Next == (\E e \in Editors : Step(e)) /\ UNCHANGED alone

Spec == Init /\ [][Next]_vars

-----------------------------------------------------------------------------
(***************************************************************************)
(* Properties                                                              *)
(***************************************************************************)
\* Committed entries of the log that say something of column c of session s.
Entries(s, c) == {i \in DOMAIN log :
    log[i].by = None /\ s \in DOMAIN log[i].to /\ c \in DOMAIN log[i].to[s]}

\* The schedule is the applied generation with the log replayed on top, in the
\* order of seq and whatever the interleaving of the edits (TAXONOMY.md section
\* 3, appendEvent: "replay never depends on rows that may have changed since").
LogReplays == \A s \in Sessions, c \in Columns :
    LET is == Entries(s, c)
        last == CHOOSE i \in is : \A j \in is : j <= i IN
    session[s][c] = IF is = {} THEN Start[s][c] ELSE log[last].to[s][c]

\* The blocks a session takes up.
Occupies(row) == IF IsPlaced(row)
    THEN {<<row.place[1], b>> : b \in row.place[2]..(row.place[2] + row.length - 1)} ELSE {}

Collide(a, b) == Occupies(a) \cap Occupies(b) # {} /\ Shares(a, b)

\* After an edit that overlaps no other the collisions recorded of the edited
\* sessions are what the committed schedule says of them: nothing kept from
\* before, nothing reported that does not collide block by block
\* (refreshViolations).
EditedIsRecorded == [][\A e \in Editors :
    alone /\ Commit(e) /\ Refreshes(tx[e].kind) => \A s \in DOMAIN tx[e].goal :
        <<"double_booking", s>> \in recorded' <=>
            \E o \in Sessions \ {s} : Collide(session'[s], session'[o])]_vars

\* Exactly the sessions in the spare bank are reported as unplaced, through any
\* sequence of edits of them and of others (bank.post.ts writes the row, a move
\* back clears it, a refresh of a neighbour leaves it) that do not overlap.
UnplacedIsRecorded == alone => \A s \in Sessions :
    session[s].place = Bank <=> <<"unplaced", s>> \in recorded

\* A lock protects a placement: no session is locked and in the spare bank
\* (lock.post.ts refuses a banked one, bank.post.ts a locked one; two of them
\* that overlap are not told of each other).
BankedIsNotLocked == alone => \A s \in Sessions : session[s].place = Bank => ~session[s].locked

\* The spare bank holds what is reported as unplaced, and nothing locked.
BankIsInOrder == UnplacedIsRecorded /\ BankedIsNotLocked

\* Nobody is made to cover a session while taking part in, or covering, another
\* one at the same time (assertFreeForSubstitution).
SubstituteIsFree == [][\A e \in Editors :
    alone /\ Commit(e) /\ tx[e].kind = "SUBSTITUTE" => \A s \in DOMAIN tx[e].goal :
        LET p == session'[s].cover IN p # None =>
            \A o \in Sessions \ {s} : Occupies(session'[s]) \cap Occupies(session'[o]) # {} =>
                p # session'[o].cover /\ p \notin Attached(session'[o])]_vars

\* A collision is on record with one of the two sessions at least, as long as no
\* edit is under way (refreshViolations: "never stale").
CollisionsAreRecorded == (\A e \in Editors : tx[e].pc = "idle") =>
    \A s, o \in Sessions : s # o /\ Collide(session[s], session[o]) =>
        \E x \in {s, o} : <<"double_booking", x>> \in recorded

=============================================================================
