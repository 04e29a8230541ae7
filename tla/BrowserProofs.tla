---------------------------- MODULE BrowserProofs ----------------------------
(***************************************************************************)
(* Theorems about RunWatch and SchedulePage, and about the two in one      *)
(* browser, for any terms, runs, requests, sessions, rooms and bounds.     *)
(*                                                                         *)
(* The control: RequestsHold says of every request under way what its      *)
(* answer will mean when it comes, however late, and with that that an     *)
(* active run goes on being polled and a start is under way (WatchInv).    *)
(*                                                                         *)
(* The page: filters are changes written over a query (Partial, Over), so  *)
(* writing one loses no other (FiltersHold). A fetch is for what the       *)
(* filters are now, and its answer, corrected until no correction is left, *)
(* fits them (DataHolds). And what an answer says of the sessions goes on  *)
(* being so until somebody else changes them, or an edit is carried out    *)
(* whose answer is still to come (FreshHolds).                             *)
(***************************************************************************)
EXTENDS MCBrowser, Inductions, FiniteSetTheorems, TLAPS

-----------------------------------------------------------------------------
(***************************************************************************)
(* The solver control                                                      *)
(***************************************************************************)
\* Rows stay where they are, and those that are over stay over.
Grown(h, k) ==
    \A id \in Runs : h[id] # None =>
        /\ k[id] # None /\ k[id].term = h[id].term
        /\ h[id].status = "ENDED" => k[id].status = "ENDED"

\* A row the browser was told of is there, of the term it names.
RowHolds(h, row) == h[row.id] # None /\ h[row.id].term = row.term

\* A request names a run there is or a term; the one a start is followed by when
\* its run was rejected names a run that is over.
NamesHold(h, q) ==
    /\ q.kind \in {"poll", "failed", "cancel"} => q.of \in Runs /\ h[q.of] # None
    /\ q.kind \in {"adopt", "join", "start"} => q.of \in ScreenTerms
    /\ q.kind = "failed" => h[q.of].status = "ENDED"

\* An answer tells of rows there are. The run of a rejected start is over.
ReplyHolds(h, q, a) ==
    /\ a.is = "row" =>
        /\ a.row \in RunRow \cup {None}
        /\ a.row # None => RowHolds(h, a.row)
        /\ q.kind \in {"poll", "start", "failed"} => a.row # None
        /\ q.kind = "failed" => a.row.status = "ENDED"
    /\ a.is = "rejected" => a.id \in Runs /\ h[a.id] # None /\ h[a.id].status = "ENDED"

RequestHolds(h, q) == NamesHold(h, q) /\ (q.answer # None => ReplyHolds(h, q, q.answer))

RequestsHold == \A n \in Tickets : request[n] # None => RequestHolds(held, request[n])

WatchInv == ControlIsSound /\ RequestsHold

\* A ticket is free while one is left.
LEMMA FreeIs ==
    ASSUME Tickets \ UnderWay # {}
    PROVE  Free \in Tickets /\ request[Free] = None
BY LeastOf, WatchAssumption DEF Free, UnderWay, Exists

\* A run that is created was not there before.
LEMMA NewIdIs ==
    ASSUME Room PROVE NewId \in Runs /\ held[NewId] = None
<1>1. {id \in Runs : ~Exists(held[id])} \in SUBSET Nat BY WatchAssumption
<1>2. {id \in Runs : ~Exists(held[id])} # {} BY DEF Room
<1>3. NewId \in {id \in Runs : ~Exists(held[id])} BY <1>1, <1>2, LeastOf DEF NewId
<1> QED BY <1>3 DEF Exists

\* What a request and a reply are made of.
LEMMA AskedFields ==
    ASSUME NEW kind \in RequestKinds, NEW of \in Runs \cup ScreenTerms, NEW a \in Reply \cup {None}
    PROVE  [kind |-> kind, of |-> of, answer |-> a] \in Asked
BY DEF Asked

\* An answer changes nothing of the request but its answer.
LEMMA AnsweredFields ==
    ASSUME NEW q \in Asked, NEW a \in Reply
    PROVE  /\ [q EXCEPT !.answer = a] \in Asked /\ [q EXCEPT !.answer = a] # None
           /\ [q EXCEPT !.answer = a].kind = q.kind /\ [q EXCEPT !.answer = a].of = q.of
           /\ [q EXCEPT !.answer = a].answer = a
<1>1. /\ q = [kind |-> q.kind, of |-> q.of, answer |-> q.answer]
      /\ q.kind \in RequestKinds /\ q.of \in Runs \cup ScreenTerms
  BY DEF Asked
<1>2. PICK k \in RequestKinds, o \in Runs \cup ScreenTerms :
        q = [kind |-> k, of |-> o, answer |-> q.answer]
  BY <1>1
<1>3. [q EXCEPT !.answer = a] = [kind |-> k, of |-> o, answer |-> a] BY <1>2
<1>4. [q EXCEPT !.answer = a] \in Asked BY <1>3, AskedFields
<1> QED BY <1>2, <1>3, <1>4, WatchAssumption

\* A request that holds goes on doing so while rows stay.
LEMMA HoldsOn ==
    ASSUME NEW h, NEW k, Grown(h, k), NEW q \in Asked, RequestHolds(h, q)
    PROVE  RequestHolds(k, q)
<1>1. NamesHold(k, q) BY DEF RequestHolds, NamesHold, Grown
<1>2. ASSUME q.answer # None PROVE ReplyHolds(k, q, q.answer)
  <2>1. PICK a : a = q.answer OBVIOUS
  <2>2. ReplyHolds(h, q, a) BY <1>2, <2>1 DEF RequestHolds
  <2>3. ASSUME a.is = "row", a.row # None PROVE RowHolds(k, a.row)
    <3>1. a.row \in RunRow /\ RowHolds(h, a.row) BY <2>2, <2>3 DEF ReplyHolds
    <3>2. a.row.id \in Runs BY <3>1 DEF RunRow
    <3> QED BY <3>1, <3>2 DEF RowHolds, Grown
  <2> QED BY <2>1, <2>2, <2>3 DEF ReplyHolds, Grown
<1> QED BY <1>1, <1>2 DEF RequestHolds

\* One request is put in place of another: what there is under way.
LEMMA RequestPut ==
    ASSUME WatchTypeOK, RequestsHold, NEW n \in Tickets, NEW q \in Asked \cup {None},
           request' = [request EXCEPT ![n] = q],
           Grown(held, held'), q # None => RequestHolds(held', q)
    PROVE  /\ request' \in [Tickets -> Asked \cup {None}] /\ RequestsHold'
           /\ \A m \in Tickets \ {n} : request'[m] = request[m]
           /\ request'[n] = q
<1>1. /\ request' \in [Tickets -> Asked \cup {None}]
      /\ \A m \in Tickets \ {n} : request'[m] = request[m]
      /\ request'[n] = q
  BY DEF WatchTypeOK
<1>2. ASSUME NEW m \in Tickets, request'[m] # None PROVE RequestHolds(held', request'[m])
  <2>1. CASE m = n BY <1>1, <1>2, <2>1
  <2>2. CASE m # n
    <3>1. PICK r : r = request[m] OBVIOUS
    <3>2. r \in Asked /\ RequestHolds(held, r)
      BY <1>1, <1>2, <2>2, <3>1 DEF WatchTypeOK, RequestsHold
    <3>3. RequestHolds(held', r) BY <3>2, HoldsOn
    <3> QED BY <1>1, <2>2, <3>1, <3>3
  <2> QED BY <2>1, <2>2
<1> QED BY <1>1, <1>2 DEF RequestsHold

\* Rows appear and end, and the requests under way are as they were.
LEMMA RequestsStay ==
    ASSUME WatchTypeOK, RequestsHold, request' = request, Grown(held, held')
    PROVE  /\ request' \in [Tickets -> Asked \cup {None}] /\ RequestsHold'
           /\ UnderWay' = UnderWay
<1>1. ASSUME NEW m \in Tickets, request[m] # None PROVE RequestHolds(held', request[m])
  <2>1. request[m] \in Asked /\ RequestHolds(held, request[m])
    BY <1>1 DEF WatchTypeOK, RequestsHold
  <2> QED BY <2>1, HoldsOn
<1> QED BY <1>1 DEF RequestsHold, WatchTypeOK, UnderWay

\* A request of some kind is under way still, unless it is the one replaced.
LEMMA KindStays ==
    ASSUME NEW K, \E m \in UnderWay : request[m].kind \in K, NEW n \in Tickets, NEW q,
           \A m \in Tickets \ {n} : request'[m] = request[m], request'[n] = q,
           request[n] = None \/ request[n].kind \notin K \/ (q # None /\ q.kind \in K)
    PROVE  \E m \in UnderWay' : request'[m].kind \in K
<1>1. PICK m \in Tickets : request[m] # None /\ request[m].kind \in K BY DEF UnderWay, Exists
<1>2. CASE m = n BY <1>1, <1>2 DEF UnderWay, Exists
<1>3. CASE m # n BY <1>1, <1>3 DEF UnderWay, Exists
<1> QED BY <1>2, <1>3

\* A request of some kind is sent: one of that kind is under way.
LEMMA KindComes ==
    ASSUME NEW K, NEW n \in Tickets, request'[n] # None, request'[n].kind \in K
    PROVE  \E m \in UnderWay' : request'[m].kind \in K
BY DEF UnderWay, Exists

\* The polls under way, and the requests of a start.
PollKinds  == {"poll"}
StartKinds == {"start", "join", "failed"}

\* What the control waits for, in these words.
LEMMA WaitsMean ==
    /\ PollingGoesOn <=> (Shown # {} => timer \/ \E m \in UnderWay : request[m].kind \in PollKinds)
    /\ StartingIsUnderWay <=> (starting => \E m \in UnderWay : request[m].kind \in StartKinds)
BY DEF PollingGoesOn, StartingIsUnderWay, PollKinds, StartKinds

\* A row the control goes on showing while rows stay.
LEMMA RunStays ==
    ASSUME WatchTypeOK, Grown(held, held')
    PROVE  /\ run \in RunRow \cup {None}
           /\ run # None => run.id \in Runs /\ RowHolds(held, run) /\ RowHolds(held', run)
BY DEF WatchTypeOK, Grown, RowHolds, RunRow, Exists

Flags == starting \in BOOLEAN /\ cancelling \in BOOLEAN /\ adopted \in BOOLEAN /\ timer \in BOOLEAN

\* What a step has to leave for the invariant to hold after it.
LEMMA WatchMade ==
    ASSUME term' \in ScreenTerms, held' \in [Runs -> HeldRow \cup {None}],
           run' \in RunRow \cup {None}, run' # None => RowHolds(held', run'), Flags',
           request' \in [Tickets -> Asked \cup {None}], RequestsHold',
           Shown' # {} => timer' \/ \E m \in UnderWay' : request'[m].kind \in PollKinds,
           starting' => \E m \in UnderWay' : request'[m].kind \in StartKinds
    PROVE  WatchInv'
BY DEF WatchInv, ControlIsSound, WatchTypeOK, Flags, RowHolds, PollingGoesOn, StartingIsUnderWay,
   PollKinds, StartKinds, Exists

\* A control that was just shown, or none, satisfies the invariant.
LEMMA WatchBegins == (WatchInit \/ NoControl) => WatchInv
<1> SUFFICES ASSUME WatchInit \/ NoControl PROVE WatchInv OBVIOUS
<1>1. /\ held = [id \in Runs |-> None] /\ term = CHOOSE t \in ScreenTerms : TRUE
      /\ run = None /\ starting = FALSE /\ cancelling = FALSE /\ adopted = FALSE /\ timer = FALSE
  BY DEF WatchInit, NoControl
<1>2. term \in ScreenTerms BY <1>1, WatchAssumption
<1>3. PICK q : q = Request("adopt", term) OBVIOUS
<1>4. q \in Asked /\ q.kind = "adopt" /\ q.of = term /\ q.answer = None
  BY <1>2, <1>3 DEF Request, Asked, RequestKinds
<1>5. /\ request \in [Tickets -> Asked \cup {None}]
      /\ \A n \in Tickets : request[n] \in {None, q}
  BY <1>3, <1>4 DEF WatchInit, NoControl
<1>6. RequestsHold
  <2>1. RequestHolds(held, q) BY <1>2, <1>4 DEF RequestHolds, NamesHold
  <2> QED BY <1>5, <2>1 DEF RequestsHold
<1> QED BY <1>1, <1>2, <1>5, <1>6 DEF WatchInv, ControlIsSound, WatchTypeOK, PollingGoesOn,
      StartingIsUnderWay, Shown, Exists

\* The timer goes off: the poll it sends takes its place.
LEMMA TimerFiresKeeps == WatchInv /\ TimerFires => WatchInv'
<1> SUFFICES ASSUME WatchInv, TimerFires PROVE WatchInv' OBVIOUS
<1> USE DEF WatchInv, ControlIsSound
<1>1. /\ timer' = FALSE
      /\ UNCHANGED <<held, term, run, starting, cancelling, adopted, clicks, losses>>
      /\ Free \in Tickets /\ request[Free] = None
  BY FreeIs DEF TimerFires
<1>2. Grown(held, held') BY <1>1 DEF Grown
<1>3. Flags' BY <1>1 DEF Flags, WatchTypeOK
<1>4. Shown' = Shown BY <1>1 DEF Shown
<1>5. CASE Shown # {}
  <2>1. PICK q : q = Request("poll", run.id) OBVIOUS
  <2>2. request' = [request EXCEPT ![Free] = q] BY <1>5, <2>1 DEF TimerFires, Send
  <2>3. run # None BY <1>5 DEF Shown, Exists
  <2>4. run.id \in Runs /\ RowHolds(held, run) BY <1>2, <2>3, RunStays
  <2>5. q \in Asked /\ q.kind = "poll" /\ q.of = run.id /\ q.answer = None
    BY <2>1, <2>4 DEF Request, Asked, RequestKinds
  <2>6. RequestHolds(held', q) BY <1>1, <2>4, <2>5 DEF RequestHolds, NamesHold, RowHolds
  <2>7. /\ request' \in [Tickets -> Asked \cup {None}] /\ RequestsHold'
        /\ \A m \in Tickets \ {Free} : request'[m] = request[m]
        /\ request'[Free] = q
    BY <1>1, <1>2, <2>2, <2>5, <2>6, RequestPut
  <2>8. \E m \in UnderWay' : request'[m].kind \in PollKinds
    BY <1>1, <2>5, <2>7, KindComes, WatchAssumption DEF PollKinds
  <2>9. starting' => \E m \in UnderWay' : request'[m].kind \in StartKinds
    BY <1>1, <2>7, KindStays, WaitsMean
  <2> QED BY <1>1, <1>2, <1>3, <2>7, <2>8, <2>9, RunStays, WatchMade DEF WatchTypeOK
<1>6. CASE Shown = {}
  <2>1. request' = request BY <1>6 DEF TimerFires
  <2>2. /\ request' \in [Tickets -> Asked \cup {None}] /\ RequestsHold' /\ UnderWay' = UnderWay
    BY <1>2, <2>1, RequestsStay
  <2> QED BY <1>1, <1>2, <1>3, <1>4, <1>6, <2>1, <2>2, RunStays, WaitsMean, WatchMade DEF WatchTypeOK
<1> QED BY <1>5, <1>6

\* What the server does to its rows, with no request answered.
LEMMA HeldChanges ==
    ASSUME WatchInv, UNCHANGED <<term, client, request>>,
           held' \in [Runs -> HeldRow \cup {None}], Grown(held, held')
    PROVE  WatchInv'
<1> USE DEF WatchInv, ControlIsSound
<1>1. UNCHANGED <<term, run, starting, cancelling, adopted, timer, request>> BY DEF client
<1>2. Flags' BY <1>1 DEF Flags, WatchTypeOK
<1>3. Shown' = Shown BY <1>1 DEF Shown
<1>4. /\ request' \in [Tickets -> Asked \cup {None}] /\ RequestsHold' /\ UnderWay' = UnderWay
  BY <1>1, RequestsStay
<1> QED BY <1>1, <1>2, <1>3, <1>4, RunStays, WaitsMean, WatchMade DEF WatchTypeOK

\* And with one answered: it stays under way.
LEMMA ReplyComes ==
    ASSUME WatchInv, UNCHANGED <<term, client>>,
           held' \in [Runs -> HeldRow \cup {None}], Grown(held, held'),
           NEW n \in Tickets, request[n] # None, NEW a \in Reply, Answered(n, a),
           ReplyHolds(held', request[n], a)
    PROVE  WatchInv'
<1> USE DEF WatchInv, ControlIsSound
<1>1. UNCHANGED <<term, run, starting, cancelling, adopted, timer>> BY DEF client
<1>2. Flags' BY <1>1 DEF Flags, WatchTypeOK
<1>3. Shown' = Shown BY <1>1 DEF Shown
<1>4. PICK r : r = request[n] OBVIOUS
<1>5. r \in Asked /\ RequestHolds(held, r) BY <1>4 DEF WatchTypeOK, RequestsHold
<1>6. PICK q : q = [r EXCEPT !.answer = a] OBVIOUS
<1>7. q \in Asked /\ q # None /\ q.kind = r.kind /\ q.of = r.of /\ q.answer = a
  BY <1>5, <1>6, AnsweredFields
<1>8. RequestHolds(held', q)
  <2>1. NamesHold(held', r) BY <1>5, HoldsOn DEF RequestHolds
  <2>2. NamesHold(held', q) BY <1>7, <2>1 DEF NamesHold
  <2>3. ReplyHolds(held', q, a) BY <1>4, <1>7 DEF ReplyHolds
  <2> QED BY <1>7, <2>2, <2>3 DEF RequestHolds
<1>9. request' = [request EXCEPT ![n] = q] BY <1>4, <1>6 DEF Answered, WatchTypeOK
<1>10. /\ request' \in [Tickets -> Asked \cup {None}] /\ RequestsHold'
       /\ \A m \in Tickets \ {n} : request'[m] = request[m]
       /\ request'[n] = q
  BY <1>7, <1>8, <1>9, RequestPut
<1>11. ASSUME NEW K, \E m \in UnderWay : request[m].kind \in K
       PROVE  \E m \in UnderWay' : request'[m].kind \in K
  BY <1>4, <1>7, <1>10, <1>11, KindStays
<1> QED BY <1>1, <1>2, <1>3, <1>10, <1>11, RunStays, WaitsMean, WatchMade DEF WatchTypeOK

\* A run that ends leaves the other rows as they are.
LEMMA EndedGrows ==
    ASSUME held \in [Runs -> HeldRow \cup {None}], NEW id \in Runs, held[id] # None
    PROVE  /\ Ended(id) \in [Runs -> HeldRow \cup {None}] /\ Grown(held, Ended(id))
<1>1. PICK t \in ScreenTerms, s \in {"ACTIVE", "ENDED"} : held[id] = [term |-> t, status |-> s]
  BY DEF HeldRow
<1>2. PICK row : row = [term |-> t, status |-> "ENDED"] OBVIOUS
<1>3. Ended(id) = [held EXCEPT ![id] = row]
  <2>1. [held[id] EXCEPT !.status = "ENDED"] = row BY <1>1, <1>2
  <2> QED BY <2>1 DEF Ended
<1>4. row \in HeldRow /\ row # None BY <1>2, WatchAssumption DEF HeldRow
<1> QED BY <1>1, <1>2, <1>3, <1>4 DEF Grown

\* A run that is created leaves the other rows as they are.
LEMMA BornGrows ==
    ASSUME held \in [Runs -> HeldRow \cup {None}], Room,
           NEW t \in ScreenTerms, NEW s \in {"ACTIVE", "ENDED"}
    PROVE  /\ Born(NewId, t, s) \in [Runs -> HeldRow \cup {None}] /\ Grown(held, Born(NewId, t, s))
           /\ NewId \in Runs /\ Born(NewId, t, s)[NewId] = [term |-> t, status |-> s]
           /\ Born(NewId, t, s)[NewId] # None
<1>1. NewId \in Runs /\ held[NewId] = None BY NewIdIs
<1>2. PICK row : row = [term |-> t, status |-> s] OBVIOUS
<1>3. row \in HeldRow /\ row # None BY <1>2, WatchAssumption DEF HeldRow
<1>4. Born(NewId, t, s) = [held EXCEPT ![NewId] = row] BY <1>2 DEF Born
<1> QED BY <1>1, <1>2, <1>3, <1>4 DEF Grown

\* A run ends at the server, whatever is under way.
LEMMA RunEndsKeeps == ASSUME WatchInv, NEW id \in Runs, RunEnds(id) PROVE WatchInv'
<1>1. UNCHANGED <<term, client, request>> /\ held' = Ended(id) /\ held[id] # None
  BY DEF RunEnds, Exists
<1>2. held \in [Runs -> HeldRow \cup {None}] BY DEF WatchInv, ControlIsSound, WatchTypeOK
<1> QED BY <1>1, <1>2, EndedGrows, HeldChanges

\* Somebody else starts a run.
LEMMA OthersStartKeeps == WatchInv /\ OthersStart => WatchInv'
<1> SUFFICES ASSUME WatchInv, OthersStart PROVE WatchInv' OBVIOUS
<1>1. UNCHANGED <<term, client, request>> /\ Room BY DEF OthersStart
<1>2. PICK t \in ScreenTerms : held' = Born(NewId, t, "ACTIVE") BY DEF OthersStart
<1>3. held \in [Runs -> HeldRow \cup {None}] BY DEF WatchInv, ControlIsSound, WatchTypeOK
<1> QED BY <1>1, <1>2, <1>3, BornGrows, HeldChanges

\* What may be answered.
LEMMA Replies ==
    /\ \A row \in RunRow \cup {None} : [is |-> "row", row |-> row] \in Reply
    /\ \A id \in Runs : [is |-> "rejected", id |-> id] \in Reply
    /\ \A s \in {"conflict", "done", "error"} : [is |-> s] \in Reply
BY DEF Reply

\* A row at the server, as it is answered.
LEMMA RowIs ==
    ASSUME held \in [Runs -> HeldRow \cup {None}], NEW id \in Runs, held[id] # None
    PROVE  /\ Row(id) \in RunRow /\ Row(id) # None
           /\ Row(id).id = id /\ Row(id).term = held[id].term /\ Row(id).status = held[id].status
           /\ RowHolds(held, Row(id))
<1>1. held[id].term \in ScreenTerms /\ held[id].status \in {"ACTIVE", "ENDED"} BY DEF HeldRow
<1>2. PICK row : row = [id |-> id, term |-> held[id].term, status |-> held[id].status] OBVIOUS
<1>3. row \in RunRow /\ row # None BY <1>1, <1>2, WatchAssumption DEF RunRow
<1> QED BY <1>2, <1>3 DEF Row, RowHolds

\* Each kind of request, as it is served.
LEMMA ServeKeeps == ASSUME WatchInv, NEW n \in Tickets, Serve(n) PROVE WatchInv'
<1> DEFINE of == request[n].of
           kind == request[n].kind
<1>1. /\ held \in [Runs -> HeldRow \cup {None}] /\ request[n] # None /\ request[n] \in Asked
      /\ UNCHANGED <<term, client>> /\ RequestHolds(held, request[n])
  BY DEF WatchInv, ControlIsSound, WatchTypeOK, RequestsHold, Serve, Exists
<1>2. NamesHold(held, request[n]) BY <1>1 DEF RequestHolds
<1>3. Grown(held, held) BY DEF Grown
<1>4. CASE /\ kind \in {"poll", "failed"} /\ held' = held
           /\ Answered(n, [is |-> "row", row |-> Row(of)])
  <2>1. /\ of \in Runs /\ held[of] # None
        /\ kind = "failed" => held[of].status = "ENDED"
    BY <1>2, <1>4 DEF NamesHold
  <2>2. PICK row : row = Row(of) OBVIOUS
  <2>3. /\ row \in RunRow /\ row # None /\ row.status = held[of].status /\ RowHolds(held, row)
    BY <1>1, <2>1, <2>2, RowIs
  <2>4. PICK a : a = [is |-> "row", row |-> row] OBVIOUS
  <2>5. a \in Reply /\ a.is = "row" /\ a.row = row BY <2>3, <2>4, Replies
  <2>6. ReplyHolds(held', request[n], a) BY <1>4, <2>1, <2>3, <2>5 DEF ReplyHolds
  <2>7. Answered(n, a) BY <1>4, <2>2, <2>4
  <2> QED BY <1>1, <1>3, <1>4, <2>5, <2>6, <2>7, ReplyComes
<1>5. CASE /\ kind \in {"adopt", "join"} /\ held' = held
           /\ \/ Answered(n, [is |-> "row", row |-> None])
              \/ \E id \in ActiveIn(of) : Answered(n, [is |-> "row", row |-> Row(id)])
  <2>1. PICK row \in RunRow \cup {None} :
          Answered(n, [is |-> "row", row |-> row]) /\ (row # None => RowHolds(held, row))
    <3>1. \A id \in ActiveIn(of) : id \in Runs /\ held[id] # None BY DEF ActiveIn, Exists
    <3> QED BY <1>1, <1>5, <3>1, RowIs
  <2>2. PICK a : a = [is |-> "row", row |-> row] OBVIOUS
  <2>3. a \in Reply /\ a.is = "row" /\ a.row = row BY <2>2, Replies
  <2>4. ReplyHolds(held', request[n], a) BY <1>5, <2>1, <2>3 DEF ReplyHolds
  <2> QED BY <1>1, <1>3, <1>5, <2>1, <2>2, <2>3, <2>4, ReplyComes
<1>6. ASSUME NEW w \in {"conflict", "error", "done"}, Answered(n, [is |-> w]),
             held' \in [Runs -> HeldRow \cup {None}], Grown(held, held')
      PROVE  WatchInv'
  <2>1. PICK a : a = [is |-> w] OBVIOUS
  <2>2. a \in Reply /\ a.is = w BY <2>1, Replies
  <2>3. ReplyHolds(held', request[n], a) BY <2>2 DEF ReplyHolds
  <2> QED BY <1>1, <1>6, <2>1, <2>2, <2>3, ReplyComes
<1>7. CASE /\ kind = "start" /\ Room /\ held' = Born(NewId, of, "ACTIVE")
           /\ Answered(n, [is |-> "row", row |-> [id |-> NewId, term |-> of, status |-> "ACTIVE"]])
  <2>1. of \in ScreenTerms BY <1>2, <1>7 DEF NamesHold
  <2>2. /\ held' \in [Runs -> HeldRow \cup {None}] /\ Grown(held, held') /\ NewId \in Runs
        /\ held'[NewId] = [term |-> of, status |-> "ACTIVE"] /\ held'[NewId] # None
    BY <1>1, <1>7, <2>1, BornGrows
  <2>3. PICK row : row = [id |-> NewId, term |-> of, status |-> "ACTIVE"] OBVIOUS
  <2>4. row \in RunRow /\ row # None /\ RowHolds(held', row)
    BY <2>1, <2>2, <2>3, WatchAssumption DEF RunRow, RowHolds
  <2>5. PICK a : a = [is |-> "row", row |-> row] OBVIOUS
  <2>6. a \in Reply /\ a.is = "row" /\ a.row = row BY <2>4, <2>5, Replies
  <2>7. ReplyHolds(held', request[n], a) BY <1>7, <2>4, <2>6 DEF ReplyHolds
  <2>8. Answered(n, a) BY <1>7, <2>3, <2>5
  <2> QED BY <1>1, <2>2, <2>6, <2>7, <2>8, ReplyComes
<1>8. CASE /\ kind = "start" /\ Room /\ held' = Born(NewId, of, "ENDED")
           /\ Answered(n, [is |-> "rejected", id |-> NewId])
  <2>1. of \in ScreenTerms BY <1>2, <1>8 DEF NamesHold
  <2>2. /\ held' \in [Runs -> HeldRow \cup {None}] /\ Grown(held, held') /\ NewId \in Runs
        /\ held'[NewId] = [term |-> of, status |-> "ENDED"] /\ held'[NewId] # None
    BY <1>1, <1>8, <2>1, BornGrows
  <2>3. PICK a : a = [is |-> "rejected", id |-> NewId] OBVIOUS
  <2>4. a \in Reply /\ a.is = "rejected" /\ a.id = NewId BY <2>2, <2>3, Replies
  <2>5. ReplyHolds(held', request[n], a) BY <2>2, <2>4 DEF ReplyHolds
  <2> QED BY <1>1, <1>8, <2>2, <2>3, <2>4, <2>5, ReplyComes
<1>9. CASE kind = "cancel" /\ Answered(n, [is |-> "done"]) /\ held' \in {held, Ended(of)}
  <2>1. of \in Runs /\ held[of] # None BY <1>2, <1>9 DEF NamesHold
  <2>2. held' \in [Runs -> HeldRow \cup {None}] /\ Grown(held, held')
    BY <1>1, <1>3, <1>9, <2>1, EndedGrows
  <2> QED BY <1>6, <1>9, <2>2
<1>10. CASE held' = held /\ \E w \in {"conflict", "error"} : Answered(n, [is |-> w])
  BY <1>1, <1>3, <1>6, <1>10
<1> QED BY <1>4, <1>5, <1>7, <1>8, <1>9, <1>10 DEF Serve

\* An answer is lost: its request is answered by an error.
LEMMA AnswerIsLostKeeps == ASSUME WatchInv, NEW n \in Tickets, AnswerIsLost(n) PROVE WatchInv'
<1>1. /\ held \in [Runs -> HeldRow \cup {None}] /\ request[n] # None
      /\ UNCHANGED <<term, client>> /\ held' = held /\ Answered(n, [is |-> "error"])
  BY DEF WatchInv, ControlIsSound, WatchTypeOK, AnswerIsLost, Exists
<1>2. Grown(held, held') BY <1>1 DEF Grown
<1>3. PICK a : a = [is |-> "error"] OBVIOUS
<1>4. a \in Reply /\ a.is = "error" BY <1>3, Replies
<1>5. ReplyHolds(held', request[n], a) BY <1>4 DEF ReplyHolds
<1> QED BY <1>1, <1>2, <1>3, <1>4, <1>5, ReplyComes

\* What an answer that has come is, and that it tells of rows there are.
LEMMA HasReply ==
    ASSUME WatchInv, NEW n \in Tickets, NEW kind, Has(n, kind)
    PROVE  /\ request[n] # None /\ request[n].kind = kind /\ request[n] \in Asked
           /\ NamesHold(held, request[n])
           /\ ReplyHolds(held, request[n], request[n].answer)
BY DEF Has, WatchInv, ControlIsSound, WatchTypeOK, RequestsHold, RequestHolds, Exists

\* A request is answered: nothing takes its place, and rows are as they were.
LEMMA RequestTaken ==
    ASSUME WatchInv, NEW n \in Tickets, Taken(n), held' = held
    PROVE  /\ request' \in [Tickets -> Asked \cup {None}] /\ RequestsHold'
           /\ \A m \in Tickets \ {n} : request'[m] = request[m]
           /\ request'[n] = None
<1>1. Grown(held, held') BY DEF Grown
<1>2. request' = [request EXCEPT ![n] = None] BY DEF Taken
<1> QED BY <1>1, <1>2, RequestPut DEF WatchInv, ControlIsSound

\* A poll is answered: the next one is due if the run is active still.
LEMMA PollAnsweredKeeps == ASSUME WatchInv, NEW n \in Tickets, PollAnswered(n) PROVE WatchInv'
<1> USE DEF WatchInv, ControlIsSound
<1>1. /\ Has(n, "poll") /\ Taken(n)
      /\ UNCHANGED <<held, term, starting, adopted>>
  BY DEF PollAnswered
<1>2. PICK a : a = request[n].answer OBVIOUS
<1>3. request[n].kind = "poll" /\ ReplyHolds(held, request[n], a) BY <1>1, <1>2, HasReply
<1>4. /\ request' \in [Tickets -> Asked \cup {None}] /\ RequestsHold'
      /\ \A m \in Tickets \ {n} : request'[m] = request[m]
      /\ request'[n] = None
  BY <1>1, RequestTaken
<1>5. starting' => \E m \in UnderWay' : request'[m].kind \in StartKinds
  BY <1>1, <1>3, <1>4, KindStays, WaitsMean DEF StartKinds
<1>6. CASE /\ a.is = "row" /\ Show(a.row)
           /\ cancelling' = (cancelling /\ a.row.status = "ACTIVE")
  <2>1. a.row \in RunRow /\ a.row # None /\ RowHolds(held, a.row)
    BY <1>3, <1>6 DEF ReplyHolds
  <2>2. run' = a.row /\ timer' = (timer \/ a.row.status = "ACTIVE") BY <1>6 DEF Show
  <2>3. Flags' BY <1>1, <1>6, <2>2 DEF Flags, WatchTypeOK
  <2>4. Shown' # {} => timer' BY <2>1, <2>2 DEF Shown
  <2> QED BY <1>1, <1>4, <1>5, <2>1, <2>2, <2>3, <2>4, WatchMade DEF WatchTypeOK
<1>7. CASE timer' = TRUE /\ UNCHANGED <<run, cancelling>>
  <2>1. Flags' BY <1>1, <1>7 DEF Flags, WatchTypeOK
  <2>2. run' \in RunRow \cup {None} /\ (run' # None => RowHolds(held', run'))
    BY <1>1, <1>7 DEF WatchTypeOK, RowHolds, Exists
  <2> QED BY <1>1, <1>4, <1>5, <1>7, <2>1, <2>2, WatchMade DEF WatchTypeOK
<1> QED BY <1>2, <1>6, <1>7 DEF PollAnswered

\* The run of a term is adopted, and polled if it is active.
LEMMA AdoptAnsweredKeeps == ASSUME WatchInv, NEW n \in Tickets, AdoptAnswered(n) PROVE WatchInv'
<1> USE DEF WatchInv, ControlIsSound
<1>1. PICK kind \in {"adopt", "join"} : Has(n, kind) BY DEF AdoptAnswered
<1>2. PICK a : a = request[n].answer OBVIOUS
<1>3. PICK found : found = (a.is = "row" /\ Exists(a.row)) OBVIOUS
<1>4. request[n].kind = kind /\ ReplyHolds(held, request[n], a) BY <1>1, <1>2, HasReply
<1>5. /\ Taken(n) /\ UNCHANGED <<held, term, cancelling>>
      /\ IF found THEN run' = a.row /\ timer' = TRUE ELSE UNCHANGED <<run, timer>>
      /\ adopted' = (adopted \/ found \/ kind = "join")
      /\ starting' = (starting /\ kind # "join")
  BY <1>2, <1>3, <1>4, Zenon DEF AdoptAnswered
<1>6. /\ request' \in [Tickets -> Asked \cup {None}] /\ RequestsHold'
      /\ \A m \in Tickets \ {n} : request'[m] = request[m]
      /\ request'[n] = None
  BY <1>5, RequestTaken
<1>7. starting' => \E m \in UnderWay' : request'[m].kind \in StartKinds
  <2>1. starting' => starting /\ kind = "adopt" BY <1>1, <1>5
  <2> QED BY <1>4, <1>6, <2>1, KindStays, WaitsMean DEF StartKinds
<1>8. run' \in RunRow \cup {None} /\ (run' # None => RowHolds(held', run'))
  BY <1>3, <1>4, <1>5 DEF ReplyHolds, WatchTypeOK, RowHolds, Exists
<1>9. Flags' BY <1>3, <1>5 DEF Flags, WatchTypeOK
<1>10. Shown' # {} => timer' \/ \E m \in UnderWay' : request'[m].kind \in PollKinds
  <2>1. CASE found BY <1>5, <2>1
  <2>2. CASE ~found
    <3>1. Shown' = Shown /\ timer' = timer BY <1>5, <2>2 DEF Shown
    <3> QED BY <1>1, <1>4, <1>6, <3>1, KindStays, WaitsMean DEF PollKinds
  <2> QED BY <2>1, <2>2
<1> QED BY <1>5, <1>6, <1>7, <1>8, <1>9, <1>10, WatchMade DEF WatchTypeOK

\* A start is answered: by its run, by the run it ran into, or by one that failed.
LEMMA StartAnsweredKeeps == ASSUME WatchInv, NEW n \in Tickets, StartAnswered(n) PROVE WatchInv'
<1> USE DEF WatchInv, ControlIsSound
<1>1. Has(n, "start") /\ UNCHANGED <<held, term, cancelling>> BY DEF StartAnswered
<1>2. PICK a : a = request[n].answer OBVIOUS
<1>3. /\ request[n].kind = "start" /\ request[n].of \in ScreenTerms
      /\ ReplyHolds(held, request[n], a)
  BY <1>1, <1>2, HasReply DEF NamesHold
<1>4. Grown(held, held') BY <1>1 DEF Grown
<1>5. run \in RunRow \cup {None} /\ (run # None => RowHolds(held', run))
  BY <1>4, RunStays
<1>6. CASE a.is = "row" /\ Taken(n) /\ Show(a.row) /\ starting' = FALSE /\ UNCHANGED adopted
  <2>1. a.row \in RunRow /\ a.row # None /\ RowHolds(held, a.row)
    BY <1>3, <1>6 DEF ReplyHolds
  <2>2. run' = a.row /\ timer' = (timer \/ a.row.status = "ACTIVE") BY <1>6 DEF Show
  <2>3. Flags' BY <1>1, <1>6, <2>2 DEF Flags, WatchTypeOK
  <2>4. Shown' # {} => timer' BY <2>1, <2>2 DEF Shown
  <2>5. request' \in [Tickets -> Asked \cup {None}] /\ RequestsHold' BY <1>1, <1>6, RequestTaken
  <2> QED BY <1>1, <1>6, <2>1, <2>2, <2>3, <2>4, <2>5, WatchMade DEF WatchTypeOK
<1>7. CASE /\ Followed(n, "join", term)
           /\ run' = None /\ timer' = FALSE /\ adopted' = FALSE /\ UNCHANGED starting
  <2>1. PICK q : q = Request("join", term) OBVIOUS
  <2>2. q \in Asked /\ q.kind = "join" /\ q.of = term /\ q.answer = None
    BY <2>1 DEF Request, Asked, RequestKinds, WatchTypeOK
  <2>3. RequestHolds(held', q) BY <2>2 DEF RequestHolds, NamesHold, WatchTypeOK
  <2>4. request' = [request EXCEPT ![n] = q] BY <1>7, <2>1 DEF Followed
  <2>5. /\ request' \in [Tickets -> Asked \cup {None}] /\ RequestsHold' /\ request'[n] = q
    BY <1>4, <2>2, <2>3, <2>4, RequestPut
  <2>6. \E m \in UnderWay' : request'[m].kind \in StartKinds
    BY <2>2, <2>5, KindComes, WatchAssumption DEF StartKinds
  <2>7. Flags' /\ Shown' = {} BY <1>1, <1>7 DEF Flags, WatchTypeOK, Shown, Exists
  <2> QED BY <1>1, <1>7, <2>5, <2>6, <2>7, WatchMade DEF WatchTypeOK
<1>8. CASE /\ a.is = "rejected" /\ Followed(n, "failed", a.id)
           /\ UNCHANGED <<run, timer, adopted, starting>>
  <2>1. PICK q : q = Request("failed", a.id) OBVIOUS
  <2>2. a.id \in Runs /\ held[a.id] # None /\ held[a.id].status = "ENDED"
    BY <1>3, <1>8 DEF ReplyHolds
  <2>3. q \in Asked /\ q.kind = "failed" /\ q.of = a.id /\ q.answer = None
    BY <2>1, <2>2 DEF Request, Asked, RequestKinds
  <2>4. RequestHolds(held', q) BY <1>1, <2>2, <2>3 DEF RequestHolds, NamesHold
  <2>5. request' = [request EXCEPT ![n] = q] BY <1>8, <2>1 DEF Followed
  <2>6. /\ request' \in [Tickets -> Asked \cup {None}] /\ RequestsHold' /\ request'[n] = q
        /\ \A m \in Tickets \ {n} : request'[m] = request[m]
    BY <1>4, <2>3, <2>4, <2>5, RequestPut
  <2>7. \E m \in UnderWay' : request'[m].kind \in StartKinds
    BY <2>3, <2>6, KindComes, WatchAssumption DEF StartKinds
  <2>8. Flags' /\ Shown' = Shown BY <1>1, <1>8 DEF Flags, WatchTypeOK, Shown
  <2>9. Shown' # {} => timer' \/ \E m \in UnderWay' : request'[m].kind \in PollKinds
    BY <1>3, <1>8, <2>6, <2>8, KindStays, WaitsMean DEF PollKinds
  <2> QED BY <1>1, <1>5, <1>8, <2>6, <2>7, <2>8, <2>9, WatchMade DEF WatchTypeOK
<1>9. CASE Taken(n) /\ starting' = FALSE /\ UNCHANGED <<run, timer, adopted>>
  <2>1. /\ request' \in [Tickets -> Asked \cup {None}] /\ RequestsHold'
        /\ \A m \in Tickets \ {n} : request'[m] = request[m]
        /\ request'[n] = None
    BY <1>1, <1>9, RequestTaken
  <2>2. Flags' /\ Shown' = Shown BY <1>1, <1>9 DEF Flags, WatchTypeOK, Shown
  <2>3. Shown' # {} => timer' \/ \E m \in UnderWay' : request'[m].kind \in PollKinds
    BY <1>3, <1>9, <2>1, <2>2, KindStays, WaitsMean DEF PollKinds
  <2> QED BY <1>1, <1>5, <1>9, <2>1, <2>2, <2>3, WatchMade DEF WatchTypeOK
<1> QED BY <1>2, <1>6, <1>7, <1>8, <1>9 DEF StartAnswered

\* The run of a rejected start is read.
LEMMA FailedRunAnsweredKeeps ==
    ASSUME WatchInv, NEW n \in Tickets, FailedRunAnswered(n) PROVE WatchInv'
<1> USE DEF WatchInv, ControlIsSound
<1>1. /\ Has(n, "failed") /\ Taken(n) /\ starting' = FALSE
      /\ UNCHANGED <<held, term, timer, cancelling, adopted>>
  BY DEF FailedRunAnswered
<1>2. PICK a : a = request[n].answer OBVIOUS
<1>3. request[n].kind = "failed" /\ ReplyHolds(held, request[n], a) BY <1>1, <1>2, HasReply
<1>4. /\ request' \in [Tickets -> Asked \cup {None}] /\ RequestsHold'
      /\ \A m \in Tickets \ {n} : request'[m] = request[m]
      /\ request'[n] = None
  BY <1>1, RequestTaken
<1>5. Flags' BY <1>1 DEF Flags, WatchTypeOK
<1>6. CASE a.is = "row" /\ run' = a.row
  <2>1. a.row \in RunRow \cup {None} /\ RowHolds(held, a.row) /\ a.row.status = "ENDED"
    BY <1>3, <1>6 DEF ReplyHolds
  <2>2. Shown' = {} BY <1>6, <2>1 DEF Shown
  <2> QED BY <1>1, <1>4, <1>5, <1>6, <2>1, <2>2, WatchMade DEF WatchTypeOK
<1>7. CASE run' = run
  <2>1. Shown' = Shown BY <1>7 DEF Shown
  <2>2. Shown' # {} => timer' \/ \E m \in UnderWay' : request'[m].kind \in PollKinds
    BY <1>1, <1>3, <1>4, <2>1, KindStays, WaitsMean DEF PollKinds
  <2>3. run' \in RunRow \cup {None} /\ (run' # None => RowHolds(held', run'))
    BY <1>1, <1>7 DEF WatchTypeOK, RowHolds, Exists
  <2> QED BY <1>1, <1>4, <1>5, <2>2, <2>3, WatchMade DEF WatchTypeOK
<1> QED BY <1>2, <1>6, <1>7 DEF FailedRunAnswered

\* What is shown is as it was, and nothing that was under way is missing.
LEMMA ShowsTheSame ==
    ASSUME WatchInv, term' \in ScreenTerms, UNCHANGED <<held, run>>, Flags',
           request' \in [Tickets -> Asked \cup {None}], RequestsHold',
           timer => timer' \/ \E m \in UnderWay' : request'[m].kind \in PollKinds,
           \A K \in {PollKinds, StartKinds} : (\E m \in UnderWay : request[m].kind \in K)
               => \E m \in UnderWay' : request'[m].kind \in K,
           starting' => starting \/ \E m \in UnderWay' : request'[m].kind \in StartKinds
    PROVE  WatchInv'
<1> USE DEF WatchInv, ControlIsSound
<1>1. Shown' = Shown BY DEF Shown
<1>2. run' \in RunRow \cup {None} /\ (run' # None => RowHolds(held', run'))
  BY DEF WatchTypeOK, RowHolds, Exists
<1>3. held' \in [Runs -> HeldRow \cup {None}] BY DEF WatchTypeOK
<1> QED BY <1>1, <1>2, <1>3, WaitsMean, WatchMade

\* A cancellation is answered.
LEMMA CancelAnsweredKeeps == ASSUME WatchInv, NEW n \in Tickets, CancelAnswered(n) PROVE WatchInv'
<1>1. /\ Has(n, "cancel") /\ Taken(n) /\ UNCHANGED <<held, term, run, starting, adopted>>
      /\ timer' \in {TRUE, timer} /\ cancelling' \in {FALSE, cancelling}
  BY DEF CancelAnswered
<1>2. request[n].kind = "cancel" BY <1>1, HasReply
<1>3. /\ request' \in [Tickets -> Asked \cup {None}] /\ RequestsHold'
      /\ \A m \in Tickets \ {n} : request'[m] = request[m]
      /\ request'[n] = None
  BY <1>1, RequestTaken
<1>4. Flags' /\ term' \in ScreenTerms
  BY <1>1 DEF Flags, WatchInv, ControlIsSound, WatchTypeOK
<1>5. ASSUME NEW K \in {PollKinds, StartKinds}, \E m \in UnderWay : request[m].kind \in K
      PROVE  \E m \in UnderWay' : request'[m].kind \in K
  <2>1. "cancel" \notin K BY DEF PollKinds, StartKinds
  <2> QED BY <1>2, <1>3, <1>5, <2>1, KindStays
<1>6. timer => timer' BY <1>1
<1> QED BY <1>1, <1>3, <1>4, <1>5, <1>6, ShowsTheSame

\* A click sends a request that holds: nothing under way is lost.
LEMMA RequestSent ==
    ASSUME WatchInv, Tickets \ UnderWay # {}, held' = held, NEW kind \in RequestKinds,
           NEW of \in Runs \cup ScreenTerms, Send(kind, of), NamesHold(held, Request(kind, of))
    PROVE  /\ request' \in [Tickets -> Asked \cup {None}] /\ RequestsHold'
           /\ \E m \in UnderWay' : request'[m].kind = kind
           /\ \A K : (\E m \in UnderWay : request[m].kind \in K)
                 => \E m \in UnderWay' : request'[m].kind \in K
<1>1. Free \in Tickets /\ request[Free] = None BY FreeIs
<1>2. PICK q : q = Request(kind, of) OBVIOUS
<1>3. q \in Asked /\ q # None /\ q.kind = kind /\ q.of = of /\ q.answer = None
  BY <1>2, WatchAssumption DEF Request, Asked
<1>4. request' = [request EXCEPT ![Free] = q] BY <1>2 DEF Send
<1>5. RequestHolds(held', q) BY <1>2, <1>3 DEF RequestHolds
<1>6. Grown(held, held') BY DEF Grown
<1>7. /\ request' \in [Tickets -> Asked \cup {None}] /\ RequestsHold' /\ request'[Free] = q
      /\ \A m \in Tickets \ {Free} : request'[m] = request[m]
  BY <1>1, <1>3, <1>4, <1>5, <1>6, RequestPut DEF WatchInv, ControlIsSound
<1>8. \E m \in UnderWay' : request'[m].kind \in {kind}
  BY <1>1, <1>3, <1>7, KindComes
<1>9. ASSUME NEW K, \E m \in UnderWay : request[m].kind \in K
      PROVE  \E m \in UnderWay' : request'[m].kind \in K
  BY <1>1, <1>7, <1>9, KindStays
<1> QED BY <1>7, <1>8, <1>9

\* Another term is chosen, whatever is under way for the old one.
LEMMA SwitchTermKeeps == WatchInv /\ SwitchTerm => WatchInv'
<1> SUFFICES ASSUME WatchInv, SwitchTerm PROVE WatchInv' OBVIOUS
<1> USE DEF WatchInv, ControlIsSound
<1>1. /\ Tickets \ UnderWay # {} /\ run' = None /\ timer' = FALSE /\ adopted' = FALSE
      /\ UNCHANGED <<held, starting, cancelling>>
  BY DEF SwitchTerm, Click
<1>2. PICK t \in ScreenTerms : term' = t /\ Send("adopt", t) BY DEF SwitchTerm
<1>3. NamesHold(held, Request("adopt", t)) BY DEF NamesHold, Request
<1>4. "adopt" \in RequestKinds BY DEF RequestKinds
<1>5. /\ request' \in [Tickets -> Asked \cup {None}] /\ RequestsHold'
      /\ \A K : (\E m \in UnderWay : request[m].kind \in K)
            => \E m \in UnderWay' : request'[m].kind \in K
  BY <1>1, <1>2, <1>3, <1>4, RequestSent
<1>6. Flags' /\ Shown' = {} BY <1>1 DEF Flags, WatchTypeOK, Shown, Exists
<1>7. starting' => \E m \in UnderWay' : request'[m].kind \in StartKinds
  BY <1>1, <1>5, WaitsMean
<1> QED BY <1>1, <1>2, <1>5, <1>6, <1>7, WatchMade DEF WatchTypeOK

\* A run is asked for.
LEMMA StartKeeps == WatchInv /\ Start => WatchInv'
<1> SUFFICES ASSUME WatchInv, Start PROVE WatchInv' OBVIOUS
<1>1. /\ Tickets \ UnderWay # {} /\ starting' = TRUE /\ adopted' = FALSE /\ Send("start", term)
      /\ UNCHANGED <<held, term, run, timer, cancelling>>
  BY DEF Start, Click
<1>2. term \in ScreenTerms BY DEF WatchInv, ControlIsSound, WatchTypeOK
<1>3. NamesHold(held, Request("start", term)) BY <1>2 DEF NamesHold, Request
<1>4. "start" \in RequestKinds BY DEF RequestKinds
<1>5. /\ request' \in [Tickets -> Asked \cup {None}] /\ RequestsHold'
      /\ \E m \in UnderWay' : request'[m].kind = "start"
      /\ \A K : (\E m \in UnderWay : request[m].kind \in K)
            => \E m \in UnderWay' : request'[m].kind \in K
  BY <1>1, <1>2, <1>3, <1>4, RequestSent
<1>6. \E m \in UnderWay' : request'[m].kind \in StartKinds BY <1>5 DEF StartKinds
<1>7. Flags' BY <1>1 DEF Flags, WatchInv, ControlIsSound, WatchTypeOK
<1> QED BY <1>1, <1>2, <1>5, <1>6, <1>7, ShowsTheSame

\* A cancellation is asked for.
LEMMA CancelKeeps == WatchInv /\ Cancel => WatchInv'
<1> SUFFICES ASSUME WatchInv, Cancel PROVE WatchInv' OBVIOUS
<1>1. /\ Tickets \ UnderWay # {} /\ cancelling' = TRUE /\ Send("cancel", run.id)
      /\ UNCHANGED <<held, term, run, timer, starting, adopted>> /\ State = "running"
  BY DEF Cancel, Click
<1>2. run # None BY <1>1 DEF State, Exists, Shown
<1>3. run.id \in Runs /\ RowHolds(held, run) /\ term \in ScreenTerms
  BY <1>2 DEF WatchInv, ControlIsSound, WatchTypeOK, RowHolds, RunRow, Exists
<1>4. NamesHold(held, Request("cancel", run.id)) BY <1>3 DEF NamesHold, Request, RowHolds
<1>5. "cancel" \in RequestKinds BY DEF RequestKinds
<1>6. /\ request' \in [Tickets -> Asked \cup {None}] /\ RequestsHold'
      /\ \A K : (\E m \in UnderWay : request[m].kind \in K)
            => \E m \in UnderWay' : request'[m].kind \in K
  BY <1>1, <1>3, <1>4, <1>5, RequestSent
<1>7. Flags' BY <1>1 DEF Flags, WatchInv, ControlIsSound, WatchTypeOK
<1> QED BY <1>1, <1>3, <1>6, <1>7, ShowsTheSame

\* A run that is over is put away.
LEMMA DismissKeeps == WatchInv /\ Dismiss => WatchInv'
<1> SUFFICES ASSUME WatchInv, Dismiss PROVE WatchInv' OBVIOUS
<1> USE DEF WatchInv, ControlIsSound
<1>1. /\ run' = None /\ adopted' = FALSE
      /\ UNCHANGED <<held, term, timer, starting, cancelling, request>>
  BY DEF Dismiss
<1>2. Grown(held, held') BY <1>1 DEF Grown
<1>3. /\ request' \in [Tickets -> Asked \cup {None}] /\ RequestsHold' /\ UnderWay' = UnderWay
  BY <1>1, <1>2, RequestsStay
<1>4. Flags' /\ Shown' = {} BY <1>1 DEF Flags, WatchTypeOK, Shown, Exists
<1> QED BY <1>1, <1>3, <1>4, WaitsMean, WatchMade DEF WatchTypeOK

\* Every step of the control, and of the server behind it, keeps the invariant.
LEMMA WatchKeeps == WatchInv /\ [WatchNext]_watchVars => WatchInv'
<1> SUFFICES ASSUME WatchInv, [WatchNext]_watchVars PROVE WatchInv' OBVIOUS
<1>1. CASE UNCHANGED watchVars
  BY <1>1 DEF watchVars, client, WatchInv, ControlIsSound, WatchTypeOK, PollingGoesOn,
     StartingIsUnderWay, RequestsHold, Shown, UnderWay
<1>2. CASE TimerFires BY <1>2, TimerFiresKeeps
<1>3. CASE \E id \in Runs : RunEnds(id) BY <1>3, RunEndsKeeps
<1>4. CASE OthersStart BY <1>4, OthersStartKeeps
<1>5. CASE \E n \in Tickets : Serve(n) \/ AnswerIsLost(n)
  BY <1>5, ServeKeeps, AnswerIsLostKeeps
<1>6. CASE \E n \in Tickets : Receive(n)
  BY <1>6, PollAnsweredKeeps, AdoptAnsweredKeeps, StartAnsweredKeeps, FailedRunAnsweredKeeps,
     CancelAnsweredKeeps DEF Receive
<1>7. CASE SwitchTerm BY <1>7, SwitchTermKeeps
<1>8. CASE Start BY <1>8, StartKeeps
<1>9. CASE Cancel BY <1>9, CancelKeeps
<1>10. CASE Dismiss BY <1>10, DismissKeeps
<1> QED BY <1>1, <1>2, <1>3, <1>4, <1>5, <1>6, <1>7, <1>8, <1>9, <1>10 DEF WatchNext

\* The control, by itself: whatever crosses, it goes on polling an active run,
\* and a start it waits for is under way.
THEOREM ControlSound == WatchSpec => []ControlIsSound
<1>1. WatchInit => WatchInv BY WatchBegins
<1>2. WatchInv => ControlIsSound BY DEF WatchInv
<1> QED BY <1>1, <1>2, WatchKeeps, PTL DEF WatchSpec

-----------------------------------------------------------------------------
(***************************************************************************)
(* Filters, and changes to them                                            *)
(***************************************************************************)
Params == {"term", "week", "rooms"}

\* Some of the filters, with values they may have.
Partial(o) ==
    /\ o = [p \in DOMAIN o |-> o[p]] /\ DOMAIN o \subseteq Params
    /\ "term" \in DOMAIN o => o["term"] \in PageTerms \cup {None}
    /\ "week" \in DOMAIN o => o["week"] \in Weeks
    /\ "rooms" \in DOMAIN o => o["rooms"] \in SUBSET PageRooms

\* A query has all the filters.
LEMMA QueryIs ==
    ASSUME NEW q \in Queries PROVE Partial(q) /\ DOMAIN q = Params /\ q = [p \in Params |-> q[p]]
BY DEF Queries, Partial, Params

\* Filters that are all there are a query.
LEMMA IsQuery == ASSUME NEW q, Partial(q), DOMAIN q = Params PROVE q \in Queries
BY DEF Queries, Partial, Params

\* Changes over changes are changes.
LEMMA OverPartial ==
    ASSUME NEW a, NEW b, Partial(a), Partial(b)
    PROVE  Partial(Over(a, b)) /\ DOMAIN Over(a, b) = DOMAIN a \cup DOMAIN b
BY DEF Partial, Over, Params

\* Changes over a query leave a query.
LEMMA OverQuery == ASSUME NEW a, NEW q \in Queries, Partial(a) PROVE Over(a, q) \in Queries
<1>1. Partial(q) /\ DOMAIN q = Params BY QueryIs
<1>2. DOMAIN a \subseteq Params BY DEF Partial
<1> QED BY <1>1, <1>2, OverPartial, IsQuery

\* Changes to changes are changes.
LEMMA OverOver == ASSUME NEW a, NEW b, NEW c PROVE Over(Over(a, b), c) = Over(a, Over(b, c))
BY DEF Over

\* No changes leave a query as it is.
LEMMA NoChange == ASSUME NEW q \in Queries PROVE Over(<<>>, q) = q /\ Partial(<<>>)
<1>1. Over(<<>>, q) = q BY QueryIs DEF Over, Params
<1> QED BY <1>1 DEF Partial, Params

\* One filter with a value it may have is a change.
LEMMA OneChange ==
    /\ \A t \in PageTerms \cup {None} : Partial([term |-> t])
    /\ \A w \in Weeks : Partial([week |-> w])
    /\ \A rs \in SUBSET PageRooms : Partial([rooms |-> rs])
BY DEF Partial, Params

\* The weeks a term has are weeks to choose from.
LEMMA WeeksFit == 1 \in Weeks /\ \A t \in PageTerms : 1..WeeksOf[t] \subseteq Weeks
<1>1. PICK all : all = {WeeksOf[t] : t \in PageTerms} OBVIOUS
<1>2. \A t \in PageTerms : WeeksOf[t] \in Nat \ {0} BY PageAssumption
<1>3. PICK u : u \in PageTerms BY PageAssumption
<1>4. all \in SUBSET Nat BY <1>1, <1>2
<1>5. all # {} BY <1>1, <1>3
<1>6. IsFiniteSet(all)
  <2>1. WeeksOf \in [PageTerms -> all] BY <1>1, PageAssumption
  <2>2. \A n \in all : \E t \in PageTerms : WeeksOf[t] = n BY <1>1
  <2>3. WeeksOf \in Surjection(PageTerms, all) BY <2>1, <2>2 DEF Surjection
  <2> QED BY <2>3, PageAssumption, FS_Surjection
<1>7. Max(all) \in Nat /\ \A n \in all : n <= Max(all) BY <1>4, <1>5, <1>6, GreatestOf
<1>8. Weeks = 1..Max(all) BY <1>1 DEF Weeks
<1>9. ASSUME NEW t \in PageTerms PROVE 1..WeeksOf[t] \subseteq Weeks /\ 1 \in Weeks
  <2>1. WeeksOf[t] <= Max(all) BY <1>1, <1>7, <1>9
  <2>2. WeeksOf[t] \in Nat \ {0} BY <1>2
  <2> QED BY <1>7, <1>8, <2>1, <2>2
<1> QED BY <1>3, <1>9

\* Weeks are numbered.
LEMMA WeeksAreNat == Weeks \subseteq Nat
BY DEF Weeks

\* A link to a term is a query.
LEMMA BareIs == ASSUME NEW t \in PageTerms \cup {None} PROVE Bare(t) \in Queries
BY WeeksFit DEF Bare, Queries

-----------------------------------------------------------------------------
(***************************************************************************)
(* The invariant of the page                                               *)
(***************************************************************************)
FiltersHold ==
    /\ url \in Queries /\ Partial(overlay) /\ Effective \in Queries /\ NoFilterIsLost
    /\ remembered \in PageTerms \cup {None}
    /\ navigation # None =>
        navigation.to \in Queries /\ (~navigation.link => navigation.to = wanted)

\* An answer names the term it was asked for, or one there is.
Means(a) ==
    /\ a.terms # {} => a.term \in a.terms
    /\ a.of.term \in a.terms => a.term = a.of.term

DataHolds ==
    /\ fetch \in Fetches \cup {None} /\ shown \in PageAnswers \cup {None}
    /\ fetch # None =>
        /\ fetch.of = Effective
        /\ fetch.answer # None => Means(fetch.answer) /\ fetch.answer.of = fetch.of
    /\ shown # None => Means(shown)
    /\ ShownIsAsked

StockHolds ==
    /\ stock \in [terms : SUBSET PageTerms, rooms : SUBSET PageRooms,
                  at : [PageSessions -> Places \cup {None}]]
    /\ \A s \in PageSessions : stock.at[s] # None => stock.at[s].term \in stock.terms

ModeHolds ==
    /\ selected \in PageSessions \cup {None} /\ mutation \in Edits \cup {None}
    /\ mutation # None /\ mutation.kind = "swap" => mutation.with \in PageSessions
    /\ mode \in {"place", "swap"} => selected # None /\ selected = armed

\* What an answer says of the sessions is so.
Fresh(a) == a.placed = Placed(a.term, a.of) /\ a.banked = Banked(a.term)

\* It is until the schedule changes unknown to the page, or an edit was carried
\* out that has not been answered: then the page fetches again.
Changed == unheard \/ (mutation # None /\ mutation.stage = "done")

FreshHolds == ~Changed =>
    /\ fetch # None /\ fetch.answer # None => Fresh(fetch.answer)
    /\ fetch = None /\ shown # None => Fresh(shown)

PageInv == FiltersHold /\ DataHolds /\ StockHolds /\ ModeHolds /\ FreshHolds

\* The invariant implies what the page promises.
LEMMA PageMeans == PageInv => PageIsSound
BY DEF PageInv, FiltersHold, DataHolds, StockHolds, ModeHolds, FreshHolds, PageIsSound, PageTypeOK,
   PlacingIsForTheArmed, OwnEditsAreSeen, Changed, Fresh, Busy, Exists

\* PageAnswers go on being fresh while sessions stay.
LEMMA FreshStays == ASSUME stock' = stock, NEW a, Fresh(a) PROVE Fresh(a)'
BY DEF Fresh, Placed, Banked, In

\* The filters go on holding while they stay,
LEMMA FiltersSame == FiltersHold /\ UNCHANGED filters => FiltersHold'
BY DEF FiltersHold, filters, Effective, NoFilterIsLost

\* what was fetched while it and the filters do,
LEMMA DataSame == DataHolds /\ UNCHANGED <<filters, data>> => DataHolds'
BY DEF DataHolds, filters, data, Effective, ShownIsAsked, Means, TotalWeeks, Exists

\* the schedule while it does,
LEMMA StockSame == StockHolds /\ stock' = stock => StockHolds'
BY DEF StockHolds

\* and the selection and the mode while they do.
LEMMA ModeSame == ModeHolds /\ UNCHANGED <<selected, mode, mutation, armed>> => ModeHolds'
BY DEF ModeHolds

\* What is on screen goes on being fresh while it and the schedule stay.
LEMMA FreshSame ==
    ASSUME FreshHolds, UNCHANGED <<stock, fetch, shown>>, Changed => Changed'
    PROVE  FreshHolds'
<1>1. PICK f, s : f = fetch /\ s = shown OBVIOUS
<1>2. ASSUME ~Changed' PROVE /\ f # None /\ f.answer # None => Fresh(f.answer)'
                             /\ f = None /\ s # None => Fresh(s)'
  BY <1>1, <1>2, FreshStays DEF FreshHolds
<1> QED BY <1>1, <1>2 DEF FreshHolds, Fresh, Placed, Banked, In

\* A fetch that is asked for anew has no answer to be wrong.
LEMMA AskedAnew ==
    ASSUME Effective' \in Queries, FetchFor(Effective'), shown' \in PageAnswers \cup {None},
           shown' # None => Means(shown')
    PROVE  DataHolds' /\ FreshHolds'
<1>1. PICK q \in Queries : q = Effective' OBVIOUS
<1>2. PICK f : f = [of |-> q, answer |-> None] OBVIOUS
<1>3. fetch' = f BY <1>1, <1>2 DEF FetchFor
<1>4. f \in Fetches /\ f # None /\ f.of = q /\ f.answer = None BY <1>2, PageAssumption DEF Fetches
<1> QED BY <1>1, <1>3, <1>4 DEF DataHolds, FreshHolds, ShownIsAsked, Exists, Means

-----------------------------------------------------------------------------
(***************************************************************************)
(* What happens by itself                                                  *)
(***************************************************************************)
\* Changes are written: the filters take them, and are fetched for.
LEMMA Patched ==
    ASSUME FiltersHold, NEW ch, Partial(ch), Patch(ch)
    PROVE  FiltersHold' /\ FetchFor(Effective')
<1> USE DEF FiltersHold
<1>1. /\ overlay' = Over(ch, overlay) /\ url' = url /\ wanted' = Over(ch, wanted)
      /\ navigation' = [to |-> Over(ch, Effective), link |-> FALSE]
      /\ Remember /\ FetchFor(Effective')
  BY DEF Patch
<1>2. Effective' = Over(ch, Effective) BY <1>1, OverOver DEF Effective
<1>3. Effective' = wanted' /\ navigation'.to = wanted' BY <1>1, <1>2 DEF NoFilterIsLost
<1>4. Partial(overlay)' BY <1>1, OverPartial
<1>5. Effective' \in Queries BY <1>2, OverQuery
<1>6. remembered' \in PageTerms \cup {None} BY <1>1, <1>5 DEF Remember, Queries
<1> QED BY <1>1, <1>3, <1>4, <1>5, <1>6 DEF NoFilterIsLost

\* The router commits what it was asked for last, which has all the filters.
LEMMA RouteCommitsKeeps == PageInv /\ RouteCommits => PageInv'
<1> SUFFICES ASSUME PageInv, RouteCommits PROVE PageInv' OBVIOUS
<1> USE DEF PageInv
<1>1. /\ navigation # None /\ navigation' = None /\ url' = navigation.to
      /\ UNCHANGED <<stock, shown, failed, editing>>
  BY DEF RouteCommits, Exists
<1>2. navigation.to \in Queries /\ (~navigation.link => navigation.to = wanted)
  BY <1>1 DEF FiltersHold
<1>3. StockHolds' /\ ModeHolds' BY <1>1, StockSame, ModeSame DEF editing
<1>4. CASE navigation.to = url
  <2>1. UNCHANGED <<url, overlay, remembered, wanted, fetch>> BY <1>1, <1>4 DEF RouteCommits
  <2>2. FiltersHold' BY <1>1, <2>1 DEF FiltersHold, Effective, NoFilterIsLost
  <2>3. DataHolds'
    BY <1>1, <2>1 DEF DataHolds, Effective, ShownIsAsked, Means, TotalWeeks, Exists
  <2>4. FreshHolds' BY <1>1, <2>1, FreshSame DEF Changed, editing
  <2> QED BY <1>3, <2>2, <2>3, <2>4
<1>5. CASE navigation.to # url
  <2>1. /\ overlay' = <<>> /\ wanted' = IF navigation.link THEN navigation.to ELSE wanted
        /\ Remember /\ FetchFor(Effective')
    BY <1>5 DEF RouteCommits
  <2>2. Effective' = navigation.to /\ Partial(overlay)' BY <1>1, <1>2, <2>1, NoChange DEF Effective
  <2>3. wanted' = navigation.to BY <1>2, <2>1
  <2>4. remembered' \in PageTerms \cup {None} BY <1>2, <2>1, <2>2 DEF Remember, Queries, FiltersHold
  <2>5. FiltersHold' BY <1>1, <1>2, <2>2, <2>3, <2>4 DEF FiltersHold, NoFilterIsLost
  <2>6. shown' \in PageAnswers \cup {None} /\ (shown' # None => Means(shown'))
    BY <1>1 DEF DataHolds, Means
  <2>7. DataHolds' /\ FreshHolds' BY <1>2, <2>1, <2>2, <2>6, AskedAnew
  <2> QED BY <1>3, <2>5, <2>7
<1> QED BY <1>4, <1>5

\* What the server answers is an answer, and it means what it says.
LEMMA AnswerIs ==
    ASSUME StockHolds, NEW q \in Queries, NEW b \in BOOLEAN, NEW a, a = PageAnswer(q, b)
    PROVE  a \in PageAnswers /\ Means(a) /\ a.of = q /\ Fresh(a)
<1>1. PICK t : t = Resolved(q.term) OBVIOUS
<1>2. stock.terms \subseteq PageTerms /\ stock.rooms \subseteq PageRooms
  BY DEF StockHolds
<1>3. /\ t \in PageTerms \cup {None}
      /\ stock.terms # {} => t \in stock.terms
      /\ q.term \in stock.terms => t = q.term
  <2>1. CASE q.term \in stock.terms BY <1>1, <1>2, <2>1 DEF Resolved
  <2>2. CASE q.term \notin stock.terms /\ stock.terms = {} BY <1>1, <2>2 DEF Resolved
  <2>3. CASE q.term \notin stock.terms /\ stock.terms # {}
    <3>1. stock.terms \in SUBSET Nat /\ IsFiniteSet(stock.terms) BY <1>2, PageAssumption, FS_Subset
    <3>2. Max(stock.terms) \in stock.terms BY <2>3, <3>1, GreatestOf
    <3> QED BY <1>1, <1>2, <2>3, <3>2 DEF Resolved
  <2> QED BY <2>1, <2>2, <2>3
<1>4. PICK rooms : rooms = ({stock.at[s].room : s \in In(t)} \ {None})
                              \cup (IF b THEN stock.rooms ELSE {})
  OBVIOUS
<1>5. rooms \subseteq PageRooms
  <2>1. \A s \in In(t) : stock.at[s].room \in PageRooms \cup {None}
    BY DEF In, StockHolds, Places, Exists
  <2> QED BY <1>2, <1>4, <2>1
<1>6. PICK placed, banked : placed = Placed(t, q) /\ banked = Banked(t) OBVIOUS
<1>7. placed \subseteq PageSessions /\ banked \subseteq PageSessions
  BY <1>6 DEF Placed, Banked, In
<1>8. a = [of |-> q, term |-> t, terms |-> stock.terms, rooms |-> rooms,
           placed |-> placed, banked |-> banked]
  BY <1>1, <1>4, <1>6 DEF PageAnswer
<1>9. a \in PageAnswers BY <1>2, <1>3, <1>5, <1>7, <1>8 DEF PageAnswers
<1> QED BY <1>3, <1>6, <1>8, <1>9 DEF Means, Fresh

\* A fetch is answered as the schedule is.
LEMMA FetchServedKeeps == PageInv /\ FetchServed => PageInv'
<1> SUFFICES ASSUME PageInv, FetchServed PROVE PageInv' OBVIOUS
<1> USE DEF PageInv
<1>1. /\ fetch # None
      /\ UNCHANGED <<stock, filters, shown, failed, selected, mode, mutation, armed>>
  BY DEF FetchServed, Exists
<1>2. FiltersHold' /\ StockHolds' /\ ModeHolds' BY <1>1, FiltersSame, StockSame, ModeSame
<1>3. PICK b \in BOOLEAN : fetch' = [fetch EXCEPT !.answer = PageAnswer(fetch.of, b)]
  BY DEF FetchServed
<1>4. PICK q \in Queries : q = fetch.of /\ q = Effective BY <1>1 DEF DataHolds, FiltersHold
<1>5. PICK a : a = PageAnswer(q, b) OBVIOUS
<1>6. a \in PageAnswers /\ Means(a) /\ a.of = q /\ Fresh(a) BY <1>4, <1>5, AnswerIs
<1>7. PICK f : f = [of |-> q, answer |-> a] OBVIOUS
<1>8. fetch' = f
  <2>1. PICK c : fetch = [of |-> q, answer |-> c] BY <1>1, <1>4 DEF DataHolds, Fetches
  <2> QED BY <1>3, <1>4, <1>5, <1>7, <2>1
<1>9. f \in Fetches /\ f # None /\ f.of = q /\ f.answer = a
  BY <1>6, <1>7, PageAssumption DEF Fetches
<1>10. Effective' = q /\ shown' = shown BY <1>1, <1>4 DEF Effective, filters
<1>11. DataHolds'
  BY <1>6, <1>8, <1>9, <1>10 DEF DataHolds, ShownIsAsked, Means
<1>12. FreshHolds'
  <2>1. Fresh(a)' BY <1>1, <1>6, FreshStays
  <2>2. fetch'.answer = a /\ fetch' # None BY <1>8, <1>9
  <2> QED BY <2>1, <2>2 DEF FreshHolds, Fresh, Placed, Banked, In
<1> QED BY <1>2, <1>11, <1>12

\* Corrections are changes to filters; when there are none, the filters fit the
\* answer.
LEMMA CorrectionsAre ==
    ASSUME NEW q \in Queries, NEW a \in PageAnswers, Means(a), a.of = q,
           NEW ch, ch = Corrections(q, a)
    PROVE  /\ Partial(ch)
           /\ ch = <<>> =>
                /\ a.terms # {} => q.term = a.term
                /\ q.week <= TotalWeeks(a.term, a)
                /\ a.rooms # {} => q.rooms \subseteq a.rooms
<1> DEFINE total == TotalWeeks(TermOf(q, a), a)
           known == a.term \in a.terms
           unset == q.term = None /\ known
           gone  == Exists(q.term) /\ q.term \notin a.terms /\ a.terms # {}
           kept  == q.rooms \cap a.rooms
           A == IF unset \/ gone THEN [term |-> IF known THEN a.term ELSE None] ELSE <<>>
           B == IF ~unset /\ q.week > total THEN [week |-> total] ELSE <<>>
           C == IF ~unset /\ ~gone /\ a.rooms # {} /\ kept # q.rooms
                THEN [rooms |-> kept] ELSE <<>>
<1>1. ch = Over(A, Over(B, C)) BY DEF Corrections
<1>2. /\ q.term \in PageTerms \cup {None} /\ q.week \in Weeks /\ q.rooms \subseteq PageRooms
      /\ a.term \in PageTerms \cup {None} /\ a.terms \subseteq PageTerms
  BY DEF Queries, PageAnswers
<1>3. total \in Weeks
  <2>1. ASSUME NEW t \in PageTerms PROVE WeeksOf[t] \in Weeks
    <3>1. WeeksOf[t] \in 1..WeeksOf[t] BY PageAssumption
    <3> QED BY <3>1, WeeksFit
  <2> QED BY <1>2, <2>1, WeeksFit DEF TotalWeeks
<1>4. Partial(<<>>) BY <1>2, NoChange
<1>5. Partial(A)
  <2>1. PICK t \in PageTerms \cup {None} : t = IF known THEN a.term ELSE None BY <1>2
  <2>2. Partial([term |-> t]) BY OneChange
  <2> QED BY <1>4, <2>1, <2>2
<1>6. Partial(B)
  <2>1. Partial([week |-> total]) BY <1>3, OneChange
  <2> HIDE DEF total
  <2> QED BY <1>4, <2>1
<1>7. Partial(C)
  <2>1. kept \in SUBSET PageRooms BY <1>2
  <2>2. Partial([rooms |-> kept]) BY <2>1, OneChange
  <2> HIDE DEF kept
  <2> QED BY <1>4, <2>2
<1>8. Partial(ch) /\ DOMAIN ch = DOMAIN A \cup (DOMAIN B \cup DOMAIN C)
  <2> HIDE DEF A, B, C
  <2>1. PICK bc : bc = Over(B, C) OBVIOUS
  <2>2. Partial(bc) /\ DOMAIN bc = DOMAIN B \cup DOMAIN C BY <1>6, <1>7, <2>1, OverPartial
  <2>3. ch = Over(A, bc) BY <1>1, <2>1
  <2> QED BY <1>5, <2>2, <2>3, OverPartial
<1>9. ASSUME ch = <<>>
      PROVE  /\ a.terms # {} => q.term = a.term
             /\ q.week <= TotalWeeks(a.term, a)
             /\ a.rooms # {} => q.rooms \subseteq a.rooms
  <2>1. DOMAIN A = {} /\ DOMAIN B = {} /\ DOMAIN C = {}
    <3>1. DOMAIN ch = {} BY <1>9
    <3> HIDE DEF A, B, C
    <3> QED BY <1>8, <3>1
  <2>2. ~unset /\ ~gone
    <3> HIDE DEF unset, gone, known
    <3> QED BY <2>1 DEF A
  <2>3. ~(~unset /\ q.week > total)
    <3> HIDE DEF unset, total
    <3> QED BY <2>1 DEF B
  <2>4. ~(a.rooms # {} /\ kept # q.rooms)
    <3> HIDE DEF unset, gone, kept
    <3> QED BY <2>1, <2>2 DEF C
  <2>5. ASSUME a.terms # {} PROVE q.term = a.term
    <3>1. known BY <2>5 DEF Means
    <3>2. q.term # None /\ q.term \in a.terms BY <2>2, <2>5, <3>1 DEF Exists
    <3> QED BY <3>2 DEF Means
  <2>6. q.week <= TotalWeeks(a.term, a)
    <3>1. q.week \in Nat /\ total \in Nat /\ q.week <= total
      <4>1. PICK w \in Nat, n \in Nat : w = q.week /\ n = total BY <1>2, <1>3, WeeksAreNat
      <4>2. ~(w > n) BY <2>2, <2>3, <4>1
      <4> QED BY <4>1, <4>2
    <3>2. CASE a.terms # {} BY <2>5, <3>1, <3>2, PageAssumption DEF TermOf
    <3>3. CASE a.terms = {} BY <3>1, <3>3 DEF TotalWeeks
    <3> QED BY <3>2, <3>3
  <2> QED BY <2>4, <2>5, <2>6
<1> HIDE DEF A, B, C
<1> QED BY <1>8, <1>9

\* An answer is shown; it fits the filters, or they are corrected and fetched for.
LEMMA FetchAnsweredKeeps == PageInv /\ FetchAnswered => PageInv'
<1> SUFFICES ASSUME PageInv, FetchAnswered PROVE PageInv' OBVIOUS
<1> USE DEF PageInv
<1>1. /\ fetch # None /\ fetch.answer # None /\ shown' = fetch.answer
      /\ UNCHANGED <<stock, editing>>
  BY DEF FetchAnswered, Exists
<1>2. StockHolds' /\ ModeHolds' BY <1>1, StockSame, ModeSame DEF editing
<1>3. PICK q, a : q = Effective /\ a = fetch.answer OBVIOUS
<1>4. /\ q \in Queries /\ a \in PageAnswers /\ a # None /\ Means(a) /\ a.of = q
  BY <1>1, <1>3 DEF FiltersHold, DataHolds, Fetches
<1>5. PICK ch : ch = Corrections(q, a) OBVIOUS
<1>6. /\ Partial(ch)
      /\ ch = <<>> =>
           /\ a.terms # {} => q.term = a.term
           /\ q.week <= TotalWeeks(a.term, a)
           /\ a.rooms # {} => q.rooms \subseteq a.rooms
  BY <1>4, <1>5, CorrectionsAre
<1>7. CASE ch = <<>>
  <2>1. fetch' = None /\ UNCHANGED filters BY <1>3, <1>5, <1>7 DEF FetchAnswered
  <2>2. Effective' = q BY <1>3, <2>1 DEF Effective, filters
  <2>3. FiltersHold' BY <2>1, FiltersSame
  <2>4. DataHolds'
    BY <1>1, <1>3, <1>4, <1>6, <1>7, <2>1, <2>2 DEF DataHolds, ShownIsAsked, Means, TotalWeeks
  <2>5. FreshHolds'
    <3>1. Changed' = Changed BY <1>1 DEF Changed, editing
    <3>2. ~Changed => Fresh(a) BY <1>1, <1>3 DEF FreshHolds
    <3>3. ~Changed => Fresh(a)' BY <1>1, <3>2, FreshStays
    <3> QED BY <1>1, <1>3, <2>1, <3>1, <3>3 DEF FreshHolds, Fresh, Placed, Banked, In
  <2> QED BY <1>2, <2>3, <2>4, <2>5
<1>8. CASE ch # <<>>
  <2>1. Patch(ch) BY <1>3, <1>5, <1>8 DEF FetchAnswered
  <2>2. FiltersHold' /\ FetchFor(Effective') BY <1>6, <2>1, Patched
  <2>3. Effective' \in Queries BY <2>2 DEF FiltersHold
  <2>4. shown' \in PageAnswers \cup {None} /\ (shown' # None => Means(shown'))
    BY <1>1, <1>3, <1>4 DEF Means
  <2>5. DataHolds' /\ FreshHolds' BY <2>2, <2>3, <2>4, AskedAnew
  <2> QED BY <1>2, <2>2, <2>5
<1> QED BY <1>7, <1>8

\* A fetch fails.
LEMMA FetchFailsKeeps == PageInv /\ FetchFails => PageInv'
<1> SUFFICES ASSUME PageInv, FetchFails PROVE PageInv' OBVIOUS
<1>1. fetch' = None /\ shown' = None /\ UNCHANGED <<stock, filters, editing>> BY DEF FetchFails
<1>2. FiltersHold' /\ StockHolds' /\ ModeHolds'
  BY <1>1, FiltersSame, StockSame, ModeSame DEF PageInv, editing
<1>3. DataHolds' /\ FreshHolds' BY <1>1 DEF DataHolds, FreshHolds, ShownIsAsked, Exists
<1> QED BY <1>2, <1>3 DEF PageInv

\* Others delete a term or a room.
LEMMA OthersDeleteKeeps == PageInv /\ OthersDelete => PageInv'
<1> SUFFICES ASSUME PageInv, OthersDelete PROVE PageInv' OBVIOUS
<1> USE DEF PageInv
<1>1. unheard' = TRUE /\ UNCHANGED <<filters, data, selected, mode, mutation, armed>>
  BY DEF OthersDelete
<1>2. FiltersHold' /\ DataHolds' /\ ModeHolds' BY <1>1, FiltersSame, DataSame, ModeSame
<1>3. FreshHolds' BY <1>1 DEF FreshHolds, Changed
<1>4. PICK T \in SUBSET PageTerms, R \in SUBSET PageRooms,
           at \in [PageSessions -> Places \cup {None}] :
        stock = [terms |-> T, rooms |-> R, at |-> at]
  BY DEF StockHolds
<1>5. \A s \in PageSessions : at[s] # None => at[s].term \in T BY <1>4 DEF StockHolds
<1>6. CASE \E t \in stock.terms :
             stock' = [stock EXCEPT !.terms = stock.terms \ {t}, !.at = WithoutTerm(t)]
  <2>1. PICK t \in T : stock' = [stock EXCEPT !.terms = stock.terms \ {t}, !.at = WithoutTerm(t)]
    BY <1>4, <1>6
  <2>2. PICK new : new = WithoutTerm(t) OBVIOUS
  <2>3. new = [s \in PageSessions |-> IF at[s] # None /\ at[s].term = t THEN None ELSE at[s]]
    BY <1>4, <2>2 DEF WithoutTerm, In, Exists
  <2>4. new \in [PageSessions -> Places \cup {None}] BY <2>3
  <2>5. \A s \in PageSessions : new[s] # None => new[s].term \in T \ {t} BY <1>5, <2>3
  <2>6. stock' = [terms |-> T \ {t}, rooms |-> R, at |-> new] BY <1>4, <2>1, <2>2
  <2> QED BY <1>2, <1>3, <2>4, <2>5, <2>6 DEF StockHolds
<1>7. CASE \E r \in stock.rooms :
             stock' = [stock EXCEPT !.rooms = stock.rooms \ {r}, !.at = WithoutRoom(r)]
  <2>1. PICK r \in R : stock' = [stock EXCEPT !.rooms = stock.rooms \ {r}, !.at = WithoutRoom(r)]
    BY <1>4, <1>7
  <2>2. PICK new : new = WithoutRoom(r) OBVIOUS
  <2>3. new = [s \in PageSessions |->
                 IF at[s] # None /\ at[s].room = r THEN [at[s] EXCEPT !.room = None] ELSE at[s]]
    BY <1>4, <2>2 DEF WithoutRoom, Exists
  <2>4. ASSUME NEW s \in PageSessions
        PROVE  new[s] \in Places \cup {None} /\ (new[s] # None => new[s].term \in T)
    <3>1. CASE at[s] # None /\ at[s].room = r
      <4>1. PICK p \in PageTerms, w \in Weeks \cup {None}, m \in PageRooms \cup {None} :
              at[s] = [term |-> p, week |-> w, room |-> m]
        BY <3>1 DEF Places
      <4>2. new[s] = [term |-> p, week |-> w, room |-> None] BY <2>3, <3>1, <4>1
      <4>3. at[s].term \in T BY <1>5, <3>1
      <4> QED BY <4>1, <4>2, <4>3 DEF Places
    <3>2. CASE ~(at[s] # None /\ at[s].room = r)
      <4>1. new[s] = at[s] BY <2>3, <3>2
      <4> QED BY <1>5, <4>1
    <3> QED BY <3>1, <3>2
  <2>5. new \in [PageSessions -> Places \cup {None}] BY <2>3, <2>4
  <2>6. stock' = [terms |-> T, rooms |-> R \ {r}, at |-> new] BY <1>4, <2>1, <2>2
  <2> QED BY <1>2, <1>3, <2>4, <2>5, <2>6 DEF StockHolds
<1> QED BY <1>6, <1>7 DEF OthersDelete

-----------------------------------------------------------------------------
(***************************************************************************)
(* What the reader does                                                    *)
(***************************************************************************)
LEMMA SetFilterKeeps == PageInv /\ SetFilter => PageInv'
<1> SUFFICES ASSUME PageInv, SetFilter PROVE PageInv' OBVIOUS
<1> USE DEF PageInv
<1>1. shown # None /\ UNCHANGED <<stock, shown, failed, editing>> BY DEF SetFilter, Exists
<1>2. shown \in PageAnswers /\ Means(shown) BY <1>1 DEF DataHolds
<1>3. PICK ch : Partial(ch) /\ Patch(ch)
  <2>1. CASE \E w \in 1..TotalWeeks(TermOf(Effective, shown), shown) : Patch([week |-> w])
    <3>1. PICK n : n = TotalWeeks(TermOf(Effective, shown), shown) OBVIOUS
    <3>2. 1..n \subseteq Weeks
      <4>1. shown.terms \subseteq PageTerms BY <1>2 DEF PageAnswers
      <4>2. n = 1 \/ \E t \in PageTerms : n = WeeksOf[t] BY <3>1, <4>1 DEF TotalWeeks
      <4> QED BY <4>2, WeeksFit
    <3>3. PICK w \in Weeks : Patch([week |-> w]) BY <2>1, <3>1, <3>2
    <3> QED BY <3>3, OneChange
  <2>2. CASE \E t \in shown.terms : Patch([term |-> t])
    <3>1. PICK t \in PageTerms : Patch([term |-> t]) BY <1>2, <2>2 DEF PageAnswers
    <3> QED BY <3>1, OneChange
  <2>3. CASE \E rs \in SUBSET shown.rooms : Patch([rooms |-> rs])
    <3>1. PICK rs \in SUBSET PageRooms : Patch([rooms |-> rs]) BY <1>2, <2>3 DEF PageAnswers
    <3> QED BY <3>1, OneChange
  <2> QED BY <2>1, <2>2, <2>3 DEF SetFilter
<1>4. FiltersHold' /\ FetchFor(Effective') BY <1>3, Patched
<1>5. Effective' \in Queries BY <1>4 DEF FiltersHold
<1>6. shown' \in PageAnswers \cup {None} /\ (shown' # None => Means(shown'))
  BY <1>1, <1>2 DEF Means
<1>7. DataHolds' /\ FreshHolds' BY <1>4, <1>5, <1>6, AskedAnew
<1>8. StockHolds' /\ ModeHolds' BY <1>1, StockSame, ModeSame DEF editing
<1> QED BY <1>4, <1>7, <1>8

\* A link is followed: the router is asked for its query.
LEMMA FollowLinkKeeps == PageInv /\ FollowLink => PageInv'
<1> SUFFICES ASSUME PageInv, FollowLink PROVE PageInv' OBVIOUS
<1> USE DEF PageInv
<1>1. UNCHANGED <<stock, url, overlay, remembered, wanted, data, editing>> BY DEF FollowLink
<1>2. PICK t \in PageTerms \cup {None} : navigation' = [to |-> Bare(t), link |-> TRUE]
  BY DEF FollowLink
<1>3. Bare(t) \in Queries BY BareIs
<1>4. FiltersHold' BY <1>1, <1>2, <1>3 DEF FiltersHold, Effective, NoFilterIsLost
<1>5. DataHolds'
  BY <1>1 DEF DataHolds, data, Effective, ShownIsAsked, Means, TotalWeeks, Exists
<1>6. FreshHolds' BY <1>1, FreshSame DEF Changed, data, editing
<1>7. StockHolds' /\ ModeHolds' BY <1>1, StockSame, ModeSame DEF editing
<1> QED BY <1>4, <1>5, <1>6, <1>7

\* A page that is opened asks for what is in the URL and what stands in for it.
LEMMA OpenedHolds ==
    ASSUME NEW q \in Queries, NEW t \in PageTerms \cup {None}, NEW page, page = Opened(q, t)
    PROVE  /\ Partial(page.overlay) /\ Over(page.overlay, q) \in Queries
           /\ page.wanted = Over(page.overlay, q)
           /\ page.navigation # None => page.navigation.to = page.wanted
           /\ page.fetch = [of |-> Over(page.overlay, q), answer |-> None]
<1>1. PICK first : first = IF q.term = None /\ t # None THEN [term |-> t] ELSE <<>> OBVIOUS
<1>2. Partial(first) BY <1>1, NoChange, OneChange
<1>3. Over(first, q) \in Queries BY <1>2, OverQuery
<1>4. page = [overlay |-> first,
              navigation |-> IF first = <<>> THEN None ELSE [to |-> Over(first, q), link |-> FALSE],
              wanted |-> Over(first, q),
              fetch |-> [of |-> Over(first, q), answer |-> None]]
  BY <1>1 DEF Opened
<1> QED BY <1>2, <1>3, <1>4

\* The page is loaded again.
LEMMA ReloadKeeps == PageInv /\ Reload => PageInv'
<1> SUFFICES ASSUME PageInv, Reload PROVE PageInv' OBVIOUS
<1> USE DEF PageInv
<1>1. /\ shown' = None /\ selected' = None /\ mode' = "idle" /\ mutation' = None
      /\ UNCHANGED <<stock, url, remembered>>
  BY DEF Reload
<1>2. PICK page : page = Opened(url, remembered) OBVIOUS
<1>3. /\ overlay' = page.overlay /\ navigation' = page.navigation
      /\ wanted' = page.wanted /\ fetch' = page.fetch
  BY <1>2 DEF Reload
<1>4. /\ Partial(page.overlay) /\ Over(page.overlay, url) \in Queries
      /\ page.wanted = Over(page.overlay, url)
      /\ page.navigation # None => page.navigation.to = page.wanted
      /\ page.fetch = [of |-> Over(page.overlay, url), answer |-> None]
  BY <1>2, OpenedHolds DEF FiltersHold
<1>5. Effective' = Over(page.overlay, url) BY <1>1, <1>3 DEF Effective
<1>6. FiltersHold' BY <1>1, <1>3, <1>4, <1>5 DEF FiltersHold, NoFilterIsLost
<1>7. FetchFor(Effective') BY <1>3, <1>4, <1>5 DEF FetchFor
<1>8. DataHolds' /\ FreshHolds' BY <1>1, <1>4, <1>5, <1>7, AskedAnew
<1>9. StockHolds' /\ ModeHolds' BY <1>1, StockSame DEF ModeHolds
<1> QED BY <1>6, <1>8, <1>9

\* What could not be read is fetched for again.
LEMMA RetryKeeps == PageInv /\ Retry => PageInv'
<1> SUFFICES ASSUME PageInv, Retry PROVE PageInv' OBVIOUS
<1> USE DEF PageInv
<1>1. FetchFor(Effective) /\ UNCHANGED <<stock, filters, shown, editing>> BY DEF Retry
<1>2. FiltersHold' /\ StockHolds' /\ ModeHolds'
  BY <1>1, FiltersSame, StockSame, ModeSame DEF editing
<1>3. Effective' = Effective /\ Effective' \in Queries
  BY <1>1 DEF Effective, filters, FiltersHold
<1>4. FetchFor(Effective') BY <1>1, <1>3 DEF FetchFor
<1>5. shown' \in PageAnswers \cup {None} /\ (shown' # None => Means(shown'))
  BY <1>1 DEF DataHolds, Means
<1>6. DataHolds' /\ FreshHolds' BY <1>3, <1>4, <1>5, AskedAnew
<1> QED BY <1>2, <1>6

\* The subject of an edit is what is selected.
LEMMA SubjectIs ==
    ModeHolds /\ Exists(Subject) => Subject = selected /\ selected # None /\ Subject \in PageSessions
BY DEF ModeHolds, Subject, Exists

\* An edit that is sent is one, and was not carried out yet.
LEMMA Sent ==
    ASSUME FiltersHold, ModeHolds, Exists(Subject), NEW kind \in {"move", "swap", "bank"},
           NEW with \in PageSessions \cup {None}, kind = "swap" => with \in PageSessions,
           SendEdit(kind, with)
    PROVE  /\ mutation' \in Edits
           /\ mutation' # None /\ mutation'.kind = "swap" => mutation'.with \in PageSessions
<1>1. PICK of \in PageSessions, w \in Weeks : of = Subject /\ w = Effective.week
  BY SubjectIs DEF FiltersHold, Queries
<1>2. PICK e : e = [kind |-> kind, of |-> of, with |-> with, week |-> w, stage |-> "sent"]
  OBVIOUS
<1>3. mutation' = e BY <1>1, <1>2 DEF SendEdit
<1>4. e \in Edits BY <1>2 DEF Edits
<1> QED BY <1>2, <1>3, <1>4

\* A session is clicked: a swap is sent, or the mode ends.
LEMMA ClickSessionKeeps == PageInv /\ ClickSession => PageInv'
<1> SUFFICES ASSUME PageInv, ClickSession PROVE PageInv' OBVIOUS
<1> USE DEF PageInv
<1>1. shown # None /\ UNCHANGED <<stock, filters, data, unheard>> BY DEF ClickSession, Exists
<1>2. FiltersHold' /\ DataHolds' /\ StockHolds' BY <1>1, FiltersSame, DataSame, StockSame
<1>3. PICK s \in PageSessions : Select(s)
  <2>1. shown.placed \subseteq PageSessions /\ shown.banked \subseteq PageSessions
    BY <1>1 DEF DataHolds, PageAnswers
  <2> QED BY <2>1 DEF ClickSession, In
<1>4. CASE mode = "swap" /\ s # selected /\ Exists(Subject) /\ ~Busy
  <2>1. SendEdit("swap", s) /\ UNCHANGED <<selected, mode, armed>> BY <1>3, <1>4 DEF Select
  <2>2. ModeHolds' BY <1>4, <2>1, Sent DEF ModeHolds
  <2>3. Changed => Changed' BY <1>1, <1>4 DEF Changed, Busy, Exists
  <2>4. FreshHolds' BY <1>1, <2>3, FreshSame DEF data
  <2> QED BY <1>2, <2>2, <2>4
<1>5. CASE ~(mode = "swap" /\ s # selected /\ Exists(Subject) /\ ~Busy)
  <2>1. /\ mutation' = mutation
        /\ \/ UNCHANGED <<selected, mode, armed>>
           \/ selected' = s /\ mode' = "idle"
    BY <1>3, <1>5 DEF Select
  <2>2. ModeHolds' BY <2>1 DEF ModeHolds
  <2>3. FreshHolds' BY <1>1, <2>1, FreshSame DEF data, Changed
  <2> QED BY <1>2, <2>2, <2>3
<1> QED BY <1>4, <1>5

\* A mode is entered, for what is selected, or left.
LEMMA ToggleModeKeeps ==
    ASSUME PageInv, NEW m \in {"place", "swap", "create"}, ToggleMode(m) PROVE PageInv'
<1> USE DEF PageInv
<1>1. UNCHANGED <<stock, filters, data, mutation, unheard>> /\ armed' = selected'
  BY DEF ToggleMode
<1>2. FiltersHold' /\ DataHolds' /\ StockHolds' BY <1>1, FiltersSame, DataSame, StockSame
<1>3. FreshHolds' BY <1>1, FreshSame DEF data, Changed
<1>4. \/ /\ Exists(Subject) /\ selected' = selected
      \/ /\ mode' \in {"idle", "create"} /\ selected' \in {selected, None}
  BY DEF ToggleMode
<1>5. ModeHolds' BY <1>1, <1>4, SubjectIs DEF ModeHolds
<1> QED BY <1>2, <1>3, <1>5

\* A mode or the selection is left.
LEMMA LeaveKeeps == PageInv /\ Leave => PageInv'
<1> SUFFICES ASSUME PageInv, Leave PROVE PageInv' OBVIOUS
<1> USE DEF PageInv
<1>1. UNCHANGED <<stock, filters, data, mutation, armed, unheard>> /\ mode' = "idle"
  BY DEF Leave
<1>2. FiltersHold' /\ DataHolds' /\ StockHolds' BY <1>1, FiltersSame, DataSame, StockSame
<1>3. FreshHolds' BY <1>1, FreshSame DEF data, Changed
<1>4. selected' \in {selected, None} BY DEF Leave
<1>5. ModeHolds' BY <1>1, <1>4 DEF ModeHolds
<1> QED BY <1>2, <1>3, <1>5

\* A move is sent, or a session sent to the spare bank.
LEMMA PlaceKeeps == PageInv /\ (Place \/ Bank) => PageInv'
<1> SUFFICES ASSUME PageInv, Place \/ Bank PROVE PageInv' OBVIOUS
<1> USE DEF PageInv
<1>1. /\ Exists(Subject) /\ ~Busy
      /\ UNCHANGED <<stock, filters, data, selected, mode, armed, unheard>>
  BY DEF Place, Bank
<1>2. FiltersHold' /\ DataHolds' /\ StockHolds' BY <1>1, FiltersSame, DataSame, StockSame
<1>3. PICK kind \in {"move", "bank"} : SendEdit(kind, None) BY DEF Place, Bank
<1>4. ModeHolds'
  <2>1. kind \in {"move", "swap", "bank"} /\ kind # "swap" BY <1>3
  <2>2. mutation' \in Edits
        /\ (mutation' # None /\ mutation'.kind = "swap" => mutation'.with \in PageSessions)
    BY <1>1, <1>3, <2>1, Sent
  <2> QED BY <1>1, <2>2 DEF ModeHolds
<1>5. Changed => Changed' BY <1>1 DEF Changed, Busy, Exists
<1>6. FreshHolds' BY <1>1, <1>5, FreshSame DEF data
<1> QED BY <1>2, <1>4, <1>6

-----------------------------------------------------------------------------
(***************************************************************************)
(* An edit, carried out and answered                                       *)
(***************************************************************************)
\* An edit that goes on is still one.
LEMMA EditGoesOn ==
    ASSUME ModeHolds, mutation # None, NEW g \in {"done", "refused", "refresh"},
           mutation' = [mutation EXCEPT !.stage = g]
    PROVE  /\ mutation' \in Edits /\ mutation' # None /\ mutation'.stage = g
           /\ mutation'.kind = "swap" => mutation'.with \in PageSessions
<1>1. PICK k \in {"move", "swap", "bank"}, of \in PageSessions, with \in PageSessions \cup {None},
           w \in Weeks, s \in {"sent", "done", "refused", "refresh"} :
        mutation = [kind |-> k, of |-> of, with |-> with, week |-> w, stage |-> s]
  BY DEF ModeHolds, Edits
<1>2. PICK e : e = [kind |-> k, of |-> of, with |-> with, week |-> w, stage |-> g] OBVIOUS
<1>3. mutation' = e BY <1>1, <1>2
<1>4. k = "swap" => with \in PageSessions BY <1>1 DEF ModeHolds
<1>5. e \in Edits /\ e # None BY <1>2, PageAssumption DEF Edits
<1>6. e.kind = k /\ e.with = with /\ e.stage = g BY <1>2
<1> QED BY <1>3, <1>4, <1>5, <1>6

\* An edit that is carried out leaves every session in a term there is.
LEMMA EditedHolds ==
    ASSUME StockHolds, ModeHolds, mutation # None, Accepted(mutation),
           stock' = [stock EXCEPT !.at = Edited(mutation)]
    PROVE  StockHolds'
<1>1. PICK T \in SUBSET PageTerms, R \in SUBSET PageRooms,
           at \in [PageSessions -> Places \cup {None}] :
        stock = [terms |-> T, rooms |-> R, at |-> at]
  BY DEF StockHolds
<1>2. \A s \in PageSessions : at[s] # None => at[s].term \in T BY <1>1 DEF StockHolds
<1>3. PICK k \in {"move", "swap", "bank"}, of \in PageSessions, with \in PageSessions \cup {None},
           w \in Weeks, s \in {"sent", "done", "refused", "refresh"} :
        mutation = [kind |-> k, of |-> of, with |-> with, week |-> w, stage |-> s]
  BY DEF ModeHolds, Edits
<1>4. PICK new : new = Edited(mutation) OBVIOUS
<1>5. stock' = [terms |-> T, rooms |-> R, at |-> new] BY <1>1, <1>4
<1>6. at[of] # None BY <1>1, <1>3 DEF Accepted, Exists
<1>7. PICK t \in T, v \in Weeks \cup {None}, r \in PageRooms \cup {None} :
        at[of] = [term |-> t, week |-> v, room |-> r]
  BY <1>2, <1>6 DEF Places
<1>8. t \in PageTerms BY <1>1
<1>9. CASE k = "move"
  <2>1. new = [at EXCEPT ![of].week = w] BY <1>1, <1>3, <1>4, <1>9 DEF Edited
  <2>2. [at[of] EXCEPT !.week = w] = [term |-> t, week |-> w, room |-> r] BY <1>7
  <2>3. new = [at EXCEPT ![of] = [term |-> t, week |-> w, room |-> r]] BY <2>1, <2>2
  <2>4. [term |-> t, week |-> w, room |-> r] \in Places BY <1>8 DEF Places
  <2>5. new \in [PageSessions -> Places \cup {None}] BY <2>3, <2>4
  <2>6. \A x \in PageSessions : new[x] # None => new[x].term \in T BY <1>2, <2>3
  <2> QED BY <1>5, <2>5, <2>6 DEF StockHolds
<1>10. CASE k = "bank"
  <2>1. new = [at EXCEPT ![of].week = None] BY <1>1, <1>3, <1>4, <1>10 DEF Edited
  <2>2. [at[of] EXCEPT !.week = None] = [term |-> t, week |-> None, room |-> r] BY <1>7
  <2>3. new = [at EXCEPT ![of] = [term |-> t, week |-> None, room |-> r]] BY <2>1, <2>2
  <2>4. [term |-> t, week |-> None, room |-> r] \in Places BY <1>8 DEF Places
  <2>5. new \in [PageSessions -> Places \cup {None}] BY <2>3, <2>4
  <2>6. \A x \in PageSessions : new[x] # None => new[x].term \in T BY <1>2, <2>3
  <2> QED BY <1>5, <2>5, <2>6 DEF StockHolds
<1>11. CASE k = "swap"
  <2>1. with \in PageSessions BY <1>3, <1>11 DEF ModeHolds
  <2>2. at[with] # None BY <1>1, <1>3, <1>11, <2>1 DEF Accepted, Week, Exists
  <2>3. PICK u \in T, x \in Weeks \cup {None}, m \in PageRooms \cup {None} :
          at[with] = [term |-> u, week |-> x, room |-> m]
    BY <1>2, <2>1, <2>2 DEF Places
  <2>4. u \in PageTerms BY <1>1
  <2>5. PICK a, b : a = [term |-> u, week |-> x, room |-> r]
                    /\ b = [term |-> t, week |-> v, room |-> m]
    OBVIOUS
  <2>6. a \in Places /\ b \in Places /\ a.term \in T /\ b.term \in T
    BY <1>8, <2>4, <2>5 DEF Places
  <2>7. InPlaceOf(at[of], at[with]) = a /\ InPlaceOf(at[with], at[of]) = b
    <3>1. PICK p, o : p = [term |-> t, week |-> v, room |-> r]
                      /\ o = [term |-> u, week |-> x, room |-> m]
      OBVIOUS
    <3>2. [o EXCEPT !.room = r] = a /\ [p EXCEPT !.room = m] = b BY <2>5, <3>1
    <3>3. p.room = r /\ o.room = m BY <3>1
    <3>4. InPlaceOf(p, o) = a /\ InPlaceOf(o, p) = b BY <3>2, <3>3 DEF InPlaceOf
    <3> QED BY <1>7, <2>3, <3>1, <3>4
  <2>8. new = [at EXCEPT ![of] = a, ![with] = b]
    <3>1. /\ stock.at = at /\ mutation.kind = "swap" /\ mutation.of = of /\ mutation.with = with
      BY <1>1, <1>3, <1>11
    <3>2. Edited(mutation) =
            [stock.at EXCEPT
                ![mutation.of] = InPlaceOf(stock.at[mutation.of], stock.at[mutation.with]),
                ![mutation.with] = InPlaceOf(stock.at[mutation.with], stock.at[mutation.of])]
      BY <3>1 DEF Edited
    <3> QED BY <1>4, <2>7, <3>1, <3>2
  <2>9. new \in [PageSessions -> Places \cup {None}] BY <2>6, <2>8
  <2>10. ASSUME NEW y \in PageSessions, new[y] # None PROVE new[y].term \in T
    BY <1>2, <2>6, <2>8, <2>10
  <2> QED BY <1>5, <2>9, <2>10 DEF StockHolds
<1> QED BY <1>9, <1>10, <1>11

\* The server carries an edit out, and until it is answered the page may be stale.
LEMMA EditServedKeeps == PageInv /\ EditServed => PageInv'
<1> SUFFICES ASSUME PageInv, EditServed PROVE PageInv' OBVIOUS
<1> USE DEF PageInv
<1>1. /\ mutation # None /\ mutation.stage = "sent"
      /\ UNCHANGED <<filters, data, selected, mode, armed, unheard>>
  BY DEF EditServed, Busy, Exists
<1>2. FiltersHold' /\ DataHolds' BY <1>1, FiltersSame, DataSame
<1>3. CASE Accepted(mutation)
  <2>1. /\ stock' = [stock EXCEPT !.at = Edited(mutation)]
        /\ mutation' = [mutation EXCEPT !.stage = "done"]
    BY <1>3 DEF EditServed
  <2>2. StockHolds' BY <1>1, <1>3, <2>1, EditedHolds
  <2>3. /\ mutation' \in Edits /\ mutation' # None /\ mutation'.stage = "done"
        /\ mutation'.kind = "swap" => mutation'.with \in PageSessions
    BY <1>1, <2>1, EditGoesOn
  <2>4. ModeHolds' BY <1>1, <2>3 DEF ModeHolds
  <2>5. FreshHolds' BY <2>3 DEF FreshHolds, Changed
  <2> QED BY <1>2, <2>2, <2>4, <2>5
<1>4. CASE ~Accepted(mutation)
  <2>1. stock' = stock /\ mutation' = [mutation EXCEPT !.stage = "refused"]
    BY <1>4 DEF EditServed
  <2>2. /\ mutation' \in Edits /\ mutation' # None /\ mutation'.stage = "refused"
        /\ mutation'.kind = "swap" => mutation'.with \in PageSessions
    BY <1>1, <2>1, EditGoesOn
  <2>3. ModeHolds' BY <1>1, <2>2 DEF ModeHolds
  <2>4. Changed => Changed' BY <1>1 DEF Changed
  <2>5. FreshHolds' BY <1>1, <2>1, <2>4, FreshSame DEF data
  <2> QED BY <1>2, <2>1, <2>3, <2>5, StockSame
<1> QED BY <1>3, <1>4

\* The answer of an edit: the page fetches again.
LEMMA EditAnsweredKeeps == PageInv /\ EditAnswered => PageInv'
<1> SUFFICES ASSUME PageInv, EditAnswered PROVE PageInv' OBVIOUS
<1> USE DEF PageInv
<1>1. /\ mutation # None /\ mode' = "idle" /\ FetchFor(Effective)
      /\ mutation' = [mutation EXCEPT !.stage = "refresh"]
      /\ UNCHANGED <<stock, filters, shown, selected, armed>>
  BY DEF EditAnswered, Busy, Exists
<1>2. FiltersHold' /\ StockHolds' BY <1>1, FiltersSame, StockSame
<1>3. Effective' = Effective /\ Effective' \in Queries
  BY <1>1 DEF Effective, filters, FiltersHold
<1>4. FetchFor(Effective') BY <1>1, <1>3 DEF FetchFor
<1>5. shown' \in PageAnswers \cup {None} /\ (shown' # None => Means(shown'))
  BY <1>1 DEF DataHolds, Means
<1>6. DataHolds' /\ FreshHolds' BY <1>3, <1>4, <1>5, AskedAnew
<1>7. mutation' \in Edits /\ (mutation'.kind = "swap" => mutation'.with \in PageSessions)
  BY <1>1, EditGoesOn
<1>8. ModeHolds' BY <1>1, <1>7 DEF ModeHolds
<1> QED BY <1>2, <1>6, <1>8

\* An edit is over, or its answer is lost, carried out or not.
LEMMA EditEndsKeeps == PageInv /\ (EditEnds \/ EditFails) => PageInv'
<1> SUFFICES ASSUME PageInv, EditEnds \/ EditFails PROVE PageInv' OBVIOUS
<1> USE DEF PageInv
<1>1. mutation' = None /\ UNCHANGED <<stock, filters, data, selected, mode, armed>>
  BY DEF EditEnds, EditFails
<1>2. FiltersHold' /\ DataHolds' /\ StockHolds' BY <1>1, FiltersSame, DataSame, StockSame
<1>3. ModeHolds' BY <1>1 DEF ModeHolds
<1>4. Changed => Changed' BY DEF Changed, EditEnds, EditFails
<1>5. FreshHolds' BY <1>1, <1>4, FreshSame DEF data
<1> QED BY <1>2, <1>3, <1>5

-----------------------------------------------------------------------------
(***************************************************************************)
(* The page, and the screen                                                *)
(***************************************************************************)
\* The page that is opened asks for what its query says.
LEMMA OpensAsking ==
    ASSUME PageInit, url = Bare(None), remembered \in PageTerms \cup {None},
           NEW page, page = Opened(url, remembered),
           overlay = page.overlay, navigation = page.navigation,
           wanted = page.wanted, fetch = page.fetch,
           shown = None, selected = None, mode = "idle"
    PROVE  FiltersHold /\ DataHolds /\ ModeHolds /\ FreshHolds
<1>1. url \in Queries BY BareIs
<1>2. /\ Partial(page.overlay) /\ Over(page.overlay, url) \in Queries
      /\ page.wanted = Over(page.overlay, url)
      /\ page.navigation # None => page.navigation.to = page.wanted
      /\ page.fetch = [of |-> Over(page.overlay, url), answer |-> None]
  BY <1>1, OpenedHolds
<1>3. FiltersHold BY <1>1, <1>2 DEF FiltersHold, Effective, NoFilterIsLost
<1>4. PICK f : f = [of |-> Effective, answer |-> None] OBVIOUS
<1>5. fetch = f /\ f.of = Effective /\ f.answer = None BY <1>2, <1>4 DEF Effective
<1>6. f \in Fetches /\ f # None BY <1>3, <1>4, PageAssumption DEF Fetches, FiltersHold
<1>7. DataHolds /\ FreshHolds BY <1>5, <1>6 DEF DataHolds, FreshHolds, ShownIsAsked, Exists
<1>8. ModeHolds BY DEF ModeHolds, PageInit
<1> QED BY <1>3, <1>7, <1>8

\* The page that is at rest shows what its query asks for.
LEMMA RestsShowing ==
    ASSUME PageInit, StockHolds, url = Bare(Min(PageTerms)), remembered = url.term,
           overlay = <<>>, navigation = None, wanted = url, fetch = None,
           shown = PageAnswer(url, TRUE), selected \in shown.placed
    PROVE  FiltersHold /\ DataHolds /\ ModeHolds /\ FreshHolds
<1>1. PICK t \in PageTerms : t = Min(PageTerms) BY LeastOf, PageAssumption
<1>2. url = [term |-> t, week |-> 1, rooms |-> {}] BY <1>1 DEF Bare
<1>3. url \in Queries BY <1>1, BareIs
<1>4. Effective = url /\ Partial(overlay) BY <1>3, NoChange DEF Effective
<1>5. FiltersHold BY <1>1, <1>2, <1>3, <1>4 DEF FiltersHold, NoFilterIsLost
<1>6. shown \in PageAnswers /\ Means(shown) /\ shown.of = url /\ Fresh(shown) BY <1>3, AnswerIs
<1>7. shown.terms = PageTerms
  <2>1. stock.terms = PageTerms BY DEF PageInit
  <2>2. shown.terms = stock.terms BY DEF PageAnswer
  <2> QED BY <2>1, <2>2
<1>8. shown.term = t
  <2>1. url.term = t BY <1>2
  <2>2. shown.of.term = t BY <1>6, <2>1
  <2> QED BY <1>1, <1>6, <1>7, <2>2 DEF Means
<1>9. 1 <= TotalWeeks(t, shown)
  <2>1. TotalWeeks(t, shown) = WeeksOf[t] BY <1>1, <1>7 DEF TotalWeeks
  <2>2. PICK n \in Nat \ {0} : n = WeeksOf[t] BY <1>1, PageAssumption
  <2>3. 1 <= n BY <2>2
  <2> QED BY <2>1, <2>2, <2>3
<1>10. DataHolds
  <2>1. url.term = t /\ url.week = 1 /\ url.rooms = {} BY <1>2
  <2>2. ShownIsAsked BY <1>4, <1>6, <1>8, <1>9, <2>1 DEF ShownIsAsked
  <2> QED BY <1>6, <2>2 DEF DataHolds
<1>11. FreshHolds BY <1>6 DEF FreshHolds
<1>12. selected \in PageSessions BY <1>6 DEF PageAnswers
<1>13. ModeHolds BY <1>12, PageAssumption DEF ModeHolds, PageInit
<1> QED BY <1>5, <1>10, <1>11, <1>13

\* A page that was opened, one at rest, and none, satisfy the invariant.
LEMMA PageBegins == (PageInit \/ NoPage) => PageInv
<1>1. CASE PageInit
  <2>1. stock = [terms |-> PageTerms, rooms |-> PageRooms,
                 at |-> [s \in PageSessions |->
                            [term |-> HomeOf[s].term, week |-> 1, room |-> HomeOf[s].room]]]
    BY <1>1 DEF PageInit
  <2>2. StockHolds
    <3>1. PICK at : at = [s \in PageSessions |->
                            [term |-> HomeOf[s].term, week |-> 1, room |-> HomeOf[s].room]]
      OBVIOUS
    <3>2. ASSUME NEW s \in PageSessions PROVE at[s] \in Places /\ at[s].term \in PageTerms
      <4>1. PICK t \in PageTerms, r \in PageRooms : HomeOf[s].term = t /\ HomeOf[s].room = r
        BY PageAssumption
      <4>2. at[s] = [term |-> t, week |-> 1, room |-> r] BY <3>1, <4>1
      <4> QED BY <4>2, WeeksFit DEF Places
    <3>3. at \in [PageSessions -> Places \cup {None}] BY <3>1, <3>2
    <3> QED BY <2>1, <3>1, <3>2, <3>3 DEF StockHolds
  <2>3. FiltersHold /\ DataHolds /\ ModeHolds /\ FreshHolds
    BY <1>1, <2>2, OpensAsking, RestsShowing DEF PageInit
  <2> QED BY <2>2, <2>3 DEF PageInv
<1>2. CASE NoPage
  <2>1. url \in Queries BY <1>2, BareIs DEF NoPage
  <2>2. Effective = url /\ Partial(overlay) BY <1>2, <2>1, NoChange DEF Effective, NoPage
  <2>3. FiltersHold BY <1>2, <2>1, <2>2 DEF FiltersHold, NoFilterIsLost, NoPage
  <2>4. DataHolds /\ FreshHolds /\ ModeHolds
    BY <1>2 DEF DataHolds, FreshHolds, ModeHolds, ShownIsAsked, NoPage, Exists
  <2>5. StockHolds BY <1>2 DEF StockHolds, NoPage
  <2> QED BY <2>3, <2>4, <2>5 DEF PageInv
<1> QED BY <1>1, <1>2

\* Every step of the page keeps the invariant.
LEMMA PageKeeps == PageInv /\ [PageNext]_pageVars => PageInv'
<1> SUFFICES ASSUME PageInv, [PageNext]_pageVars PROVE PageInv' OBVIOUS
<1>1. CASE UNCHANGED pageVars
  <2>1. UNCHANGED <<stock, filters, data, editing>> BY <1>1 DEF pageVars
  <2>2. Changed' = Changed BY <2>1 DEF Changed, editing
  <2> QED BY <2>1, <2>2, FiltersSame, DataSame, StockSame, ModeSame, FreshSame
      DEF PageInv, data, editing
<1>2. CASE RouteCommits BY <1>2, RouteCommitsKeeps
<1>3. CASE FetchServed BY <1>3, FetchServedKeeps
<1>4. CASE FetchAnswered BY <1>4, FetchAnsweredKeeps
<1>5. CASE FetchFails BY <1>5, FetchFailsKeeps
<1>6. CASE OthersDelete BY <1>6, OthersDeleteKeeps
<1>7. CASE SetFilter BY <1>7, SetFilterKeeps
<1>8. CASE FollowLink BY <1>8, FollowLinkKeeps
<1>9. CASE Reload BY <1>9, ReloadKeeps
<1>10. CASE Retry BY <1>10, RetryKeeps
<1>11. CASE ClickSession BY <1>11, ClickSessionKeeps
<1>12. CASE Leave BY <1>12, LeaveKeeps
<1>13. CASE Place \/ Bank BY <1>13, PlaceKeeps
<1>14. CASE \E m \in {"place", "swap", "create"} : ToggleMode(m) BY <1>14, ToggleModeKeeps
<1>15. CASE EditServed BY <1>15, EditServedKeeps
<1>16. CASE EditAnswered BY <1>16, EditAnsweredKeeps
<1>17. CASE EditEnds \/ EditFails BY <1>17, EditEndsKeeps
<1> QED
  BY <1>1, <1>2, <1>3, <1>4, <1>5, <1>6, <1>7, <1>8, <1>9, <1>10, <1>11, <1>12, <1>13, <1>14,
     <1>15, <1>16, <1>17 DEF PageNext

\* The page, by itself: whatever is answered, clicked, edited or deleted in
\* between, no filter is lost, a page at rest shows the answer to its filters
\* and its own edits, and a slot is a destination for the session that was meant.
THEOREM PageSound == PageSpec => []PageIsSound
<1>1. PageInit => PageInv BY PageBegins
<1> QED BY <1>1, PageKeeps, PageMeans, PTL DEF PageSpec

\* The screen: what it shows was asked for, and what it waits for is under way,
\* in the solver control and in the schedule page.
THEOREM ScreenSound == BrowserSpec => []ScreenIsSound
<1>1. BrowserInit => WatchInv /\ PageInv
  BY WatchBegins, PageBegins DEF BrowserInit
<1>2. WatchInv /\ PageInv /\ [BrowserNext]_<<vars, watchVars, pageVars, focus>>
        => WatchInv' /\ PageInv'
  BY WatchKeeps, PageKeeps DEF BrowserNext
<1>3. WatchInv /\ PageInv => ScreenIsSound BY PageMeans DEF WatchInv, ScreenIsSound
<1> QED BY <1>1, <1>2, <1>3, PTL DEF BrowserSpec
=============================================================================
