----------------------------- MODULE SchedulePage -----------------------------
(***************************************************************************)
(* The schedule page of one browser: its filters, which live in the URL    *)
(* (scheduleFilters.ts), what it fetched for them (scheduleData.ts), what  *)
(* is selected and what a click on the grid means (scheduleEditing.ts),    *)
(* and how the page puts them together (pages/schedule/index.vue).         *)
(*                                                                         *)
(* The router commits a query some time after it was asked to, a fetch is  *)
(* served and answered in steps of their own, and a newer fetch replaces   *)
(* an older one. Clicks, edits and deletions by others fall in between.    *)
(*                                                                         *)
(* Days and blocks are left out, and so are the forms that create a        *)
(* session or change its rooms, people and lock. Of the list filters the   *)
(* rooms are followed; the others are like it.                             *)
(***************************************************************************)
EXTENDS Integers, FiniteSets, FiniteSetsExt, Database

CONSTANTS
    PageTerms,      \* terms, by their start
    WeeksOf,        \* how many weeks each has
    PageSessions,
    PageRooms,
    HomeOf,         \* the term and the room of each session, at first in week 1
    MaxActs,        \* bound: what the reader does
    MaxTroubles     \* bound: answers that are lost, terms and rooms that others delete

Weeks == 1..Max({WeeksOf[t] : t \in PageTerms})

\* The filters; where a session is; an answer; a fetch; an edit.
Queries == [term : PageTerms \cup {None}, week : Weeks, rooms : SUBSET PageRooms]
Places  == [term : PageTerms, week : Weeks \cup {None}, room : PageRooms \cup {None}]
PageAnswers ==
    [of : Queries, term : PageTerms \cup {None}, terms : SUBSET PageTerms,
     rooms : SUBSET PageRooms, placed : SUBSET PageSessions, banked : SUBSET PageSessions]
Fetches == [of : Queries, answer : PageAnswers \cup {None}]
Edits   == [kind : {"move", "swap", "bank"}, of : PageSessions, with : PageSessions \cup {None},
            week : Weeks, stage : {"sent", "done", "refused", "refresh"}]

ASSUME PageAssumption ==
    /\ PageTerms \subseteq Nat /\ PageTerms # {} /\ IsFiniteSet(PageTerms)
    /\ WeeksOf \in [PageTerms -> Nat \ {0}]
    /\ HomeOf \in [PageSessions -> [term : PageTerms, room : PageRooms]]
    /\ MaxActs \in Nat /\ MaxTroubles \in Nat
    /\ None \notin PageTerms \cup Weeks /\ None \notin PageSessions /\ None \notin PageRooms
    /\ None \notin Places /\ None \notin Fetches /\ None \notin Edits

VARIABLES
    stock,      \* at the server: terms, rooms, and where each session is
    url,        \* the query of the route
    overlay,    \* pendingQuery: written, and not in the URL yet
    navigation, \* the query the router was asked for last
    remembered, \* the term of the cookie
    fetch,      \* the newest fetch under way
    shown,      \* the answer on screen
    failed,     \* the last fetch failed
    selected,   \* selectedId
    snapshot,   \* the row it had when it was selected
    mode,       \* what a click on the grid means
    mutation,   \* the edit under way, busy
    acts, troubles,
    wanted,     \* what the filters were last set to, by the reader or the page
    armed,      \* the session for which the mode was entered
    unheard     \* the schedule changed unknown to the page, and it fetched nothing since

filters  == <<url, overlay, navigation, remembered, wanted>>
data     == <<fetch, shown, failed>>
editing  == <<selected, snapshot, mode, mutation, armed, unheard>>
bounds   == <<acts, troubles>>
pageVars == <<stock, filters, data, editing, bounds>>


\* What the changes leave of a query, or of other changes.
Over(changes, query) ==
    [p \in DOMAIN changes \cup DOMAIN query |->
        IF p \in DOMAIN changes THEN changes[p] ELSE query[p]]

Bare(t) == [term |-> t, week |-> 1, rooms |-> {}]

-----------------------------------------------------------------------------
(***************************************************************************)
(* What the server answers                                                 *)
(***************************************************************************)
\* The term that is answered for: the one asked for if there is one, and else
\* the latest.
Resolved(t) ==
    IF t \in stock.terms THEN t ELSE IF stock.terms = {} THEN None ELSE Max(stock.terms)

In(t) == {s \in PageSessions : Exists(stock.at[s]) /\ stock.at[s].term = t}

\* The sessions of the week that the filters leave.
Placed(t, query) ==
    {s \in In(t) : /\ stock.at[s].week = query.week
                   /\ query.rooms # {} => stock.at[s].room \in query.rooms}

Banked(t) == {s \in In(t) : stock.at[s].week = None}

\* Everything one fetch asks for. The rooms are those of the term's sessions,
\* and all there are for a reader who may list them.
PageAnswer(query, directory) ==
    LET t == Resolved(query.term)
    IN  [of     |-> query,
         term   |-> t,
         terms  |-> stock.terms,
         rooms  |-> ({stock.at[s].room : s \in In(t)} \ {None})
                       \cup (IF directory THEN stock.rooms ELSE {}),
         placed |-> Placed(t, query),
         banked |-> Banked(t)]

-----------------------------------------------------------------------------
(***************************************************************************)
(* Filters                                                                 *)
(***************************************************************************)
\* What the controls show: the URL and what is not in it yet.
Effective == Over(overlay, url)

\* The filters are fetched for, whatever was under way.
FetchFor(query) == fetch' = [of |-> query, answer |-> None]

Remember == remembered' = LET t == Effective'.term IN IF t = None THEN remembered ELSE t

\* Mutated form of Patch: the router is asked for the URL with this change only.
PatchOfUrl(changes) ==
    /\ overlay' = Over(changes, overlay)
    /\ navigation' = [to |-> Over(changes, url), link |-> FALSE]
    /\ wanted' = Over(changes, wanted)
    /\ UNCHANGED url
    /\ Remember
    /\ FetchFor(Effective')

\* Filters are written: the router is asked for all that is not in the URL.
Patch(changes) ==
    /\ overlay' = Over(changes, overlay)
    /\ navigation' = [to |-> Over(changes, Effective), link |-> FALSE]
    /\ wanted' = Over(changes, wanted)
    /\ UNCHANGED url
    /\ Remember
    /\ FetchFor(Effective')

\* The term the page is drawn with, and how many weeks it lets one choose from.
TermOf(query, answer) == IF query.term = None THEN answer.term ELSE query.term
TotalWeeks(t, answer) == IF t \in answer.terms THEN WeeksOf[t] ELSE 1

\* Mutated form of Corrections: the last week is set to the last week, again.
CorrectionsOfLastWeek(query, answer) ==
    LET total == TotalWeeks(TermOf(query, answer), answer)
        known == answer.term \in answer.terms
        unset == query.term = None /\ known
        gone  == Exists(query.term) /\ query.term \notin answer.terms /\ answer.terms # {}
        kept  == query.rooms \cap answer.rooms
    IN  Over(IF unset \/ gone THEN [term |-> IF known THEN answer.term ELSE None] ELSE <<>>,
        Over(IF ~unset /\ query.week >= total THEN [week |-> total] ELSE <<>>,
             IF ~unset /\ ~gone /\ answer.rooms # {} /\ kept # query.rooms
             THEN [rooms |-> kept] ELSE <<>>))

\* watchEffect and reconcileFilters: how the page corrects its filters by an
\* answer. A term that is gone is cleared, and the one answered for put in, if
\* the answer lists it.
Corrections(query, answer) ==
    LET total == TotalWeeks(TermOf(query, answer), answer)
        known == answer.term \in answer.terms
        unset == query.term = None /\ known
        gone  == Exists(query.term) /\ query.term \notin answer.terms /\ answer.terms # {}
        kept  == query.rooms \cap answer.rooms
    IN  Over(IF unset \/ gone THEN [term |-> IF known THEN answer.term ELSE None] ELSE <<>>,
        Over(IF ~unset /\ query.week > total THEN [week |-> total] ELSE <<>>,
             IF ~unset /\ ~gone /\ answer.rooms # {} /\ kept # query.rooms
             THEN [rooms |-> kept] ELSE <<>>))

\* The page, opened with a query: the cookie stands in for a missing term.
Opened(query, cookie) ==
    LET first == IF query.term = None /\ cookie # None THEN [term |-> cookie] ELSE <<>>
    IN  [overlay |-> first,
         navigation |-> IF first = <<>> THEN None ELSE [to |-> Over(first, query), link |-> FALSE],
         wanted |-> Over(first, query),
         fetch |-> [of |-> Over(first, query), answer |-> None]]

\* The page is opened, or it is at rest, a session selected and the mode chosen.
PageInit ==
    /\ stock = [terms |-> PageTerms, rooms |-> PageRooms,
                at |-> [s \in PageSessions |->
                           [term |-> HomeOf[s].term, week |-> 1, room |-> HomeOf[s].room]]]
    /\ \/ /\ url = Bare(None) /\ remembered \in PageTerms \cup {None}
          /\ LET page == Opened(url, remembered)
             IN  /\ overlay = page.overlay /\ navigation = page.navigation
                 /\ wanted = page.wanted /\ fetch = page.fetch
          /\ shown = None /\ selected = None /\ mode = "idle"
       \/ /\ url = Bare(Min(PageTerms)) /\ remembered = url.term
          /\ overlay = <<>> /\ navigation = None /\ wanted = url /\ fetch = None
          /\ shown = PageAnswer(url, TRUE)
          /\ selected \in shown.placed /\ mode \in {"place", "swap"}
    /\ snapshot = selected /\ armed = selected
    /\ mutation = None /\ failed = FALSE /\ unheard = FALSE
    /\ acts = 0 /\ troubles = 0

-----------------------------------------------------------------------------
(***************************************************************************)
(* What happens by itself                                                  *)
(***************************************************************************)
\* The router is done. A query that is new clears what was not in the URL.
RouteCommits ==
    /\ Exists(navigation)
    /\ navigation' = None
    /\ url' = navigation.to
    /\ IF navigation.to = url
       THEN UNCHANGED <<overlay, remembered, wanted, fetch>>
       ELSE /\ overlay' = <<>>
            /\ wanted' = IF navigation.link THEN navigation.to ELSE wanted
            /\ Remember
            /\ FetchFor(Effective')
    /\ UNCHANGED <<stock, shown, failed, editing, bounds>>

\* The server answers, for a reader who may list rooms or may not.
FetchServed ==
    /\ Exists(fetch) /\ fetch.answer = None
    /\ \E directory \in BOOLEAN : fetch' = [fetch EXCEPT !.answer = PageAnswer(fetch.of, directory)]
    /\ unheard' = FALSE
    /\ UNCHANGED <<stock, filters, shown, failed, selected, snapshot, mode, mutation, armed, bounds>>

\* The answer is shown, and the filters are corrected by it.
FetchAnswered ==
    /\ Exists(fetch) /\ fetch.answer # None
    /\ shown' = fetch.answer
    /\ failed' = FALSE
    /\ LET changes == Corrections(Effective, fetch.answer)
       IN  IF changes = <<>>
           THEN fetch' = None /\ UNCHANGED filters
           ELSE Patch(changes)
    /\ UNCHANGED <<stock, editing, bounds>>

Trouble == troubles < MaxTroubles /\ troubles' = troubles + 1

\* A fetch fails, and nothing is left on screen.
FetchFails ==
    /\ Trouble
    /\ Exists(fetch)
    /\ fetch' = None /\ shown' = None /\ failed' = TRUE
    /\ UNCHANGED <<stock, filters, editing, acts>>

\* Where the sessions are without a term, and without a room.
WithoutTerm(t) == [s \in PageSessions |-> IF s \in In(t) THEN None ELSE stock.at[s]]
WithoutRoom(r) ==
    [s \in PageSessions |->
        IF Exists(stock.at[s]) /\ stock.at[s].room = r
        THEN [stock.at[s] EXCEPT !.room = None] ELSE stock.at[s]]

\* Somebody deletes a term with its sessions, or a room.
OthersDelete ==
    /\ Trouble
    /\ \/ \E t \in stock.terms :
              stock' = [stock EXCEPT !.terms = stock.terms \ {t}, !.at = WithoutTerm(t)]
       \/ \E r \in stock.rooms :
              stock' = [stock EXCEPT !.rooms = stock.rooms \ {r}, !.at = WithoutRoom(r)]
    /\ unheard' = TRUE
    /\ UNCHANGED <<filters, data, selected, snapshot, mode, mutation, armed, acts>>

-----------------------------------------------------------------------------
(***************************************************************************)
(* What the reader does                                                    *)
(***************************************************************************)
\* The page is drawn: it waits for its first answer before it is.
Drawn == Exists(shown) \/ failed

\* An edit is under way.
Busy == Exists(mutation)

Acts == acts < MaxActs /\ acts' = acts + 1

\* A filter is set. The stepper and the lists offer what was answered.
SetFilter ==
    /\ Acts /\ Exists(shown)
    /\ \/ \E w \in 1..TotalWeeks(TermOf(Effective, shown), shown) :
              w # Effective.week /\ Patch([week |-> w])
       \/ \E t \in shown.terms : t # Effective.term /\ Patch([term |-> t])
       \/ \E rs \in SUBSET shown.rooms : rs # Effective.rooms /\ Patch([rooms |-> rs])
    /\ UNCHANGED <<stock, shown, failed, editing, troubles>>

\* A link to the page is followed, with a term or with none.
FollowLink ==
    /\ Acts /\ Drawn
    /\ \E t \in PageTerms \cup {None} : navigation' = [to |-> Bare(t), link |-> TRUE]
    /\ UNCHANGED <<stock, url, overlay, remembered, wanted, data, editing, troubles>>

\* The page is loaded again, and forgets all but the URL and the cookie. An edit
\* that was sent reaches the server all the same, here before the page is loaded.
Reload ==
    /\ Acts /\ (Busy => mutation.stage # "sent")
    /\ LET page == Opened(url, remembered)
       IN  /\ overlay' = page.overlay /\ navigation' = page.navigation
           /\ wanted' = page.wanted /\ fetch' = page.fetch
    /\ shown' = None /\ failed' = FALSE
    /\ selected' = None /\ snapshot' = None /\ mode' = "idle" /\ armed' = None
    /\ mutation' = None
    /\ UNCHANGED <<stock, url, remembered, unheard, troubles>>

\* The button of a page that could not be read.
Retry ==
    /\ Acts /\ failed /\ fetch = None
    /\ FetchFor(Effective)
    /\ UNCHANGED <<stock, filters, shown, failed, editing, troubles>>

\* What is selected: its row on screen, or else the row it had.
Listed  == IF Exists(shown) THEN shown.placed \cup shown.banked ELSE {}
Subject == IF selected \in Listed \cup {snapshot} THEN selected ELSE None

\* An edit is sent for the subject. In a move, the week on screen goes along.
SendEdit(kind, with) ==
    mutation' = [kind |-> kind, of |-> Subject, with |-> with,
                 week |-> Effective.week, stage |-> "sent"]

\* Mutated form of Select: the mode stays on, for the session clicked now.
SelectInMode(s) ==
    IF mode = "swap" /\ s # selected
    THEN /\ IF Exists(Subject) /\ ~Busy THEN SendEdit("swap", s) ELSE UNCHANGED mutation
         /\ UNCHANGED <<selected, snapshot, mode, armed>>
    ELSE /\ selected' = s
         /\ snapshot' = IF s \in Listed THEN s ELSE None
         /\ UNCHANGED <<mode, mutation, armed>>

\* A session is clicked: it is selected, or swapped with.
Select(s) ==
    IF mode = "swap" /\ s # selected
    THEN /\ IF Exists(Subject) /\ ~Busy THEN SendEdit("swap", s) ELSE UNCHANGED mutation
         /\ UNCHANGED <<selected, snapshot, mode, armed>>
    ELSE /\ selected' = s
         /\ snapshot' = IF s \in Listed THEN s ELSE None
         /\ mode' = "idle"
         /\ UNCHANGED <<mutation, armed>>

\* onSelect, from the grid and from the violations of the term; and from the
\* spare bank, which does not wait for a fetch.
ClickSession ==
    /\ Acts /\ Exists(shown)
    /\ \/ fetch = None /\ \E s \in shown.placed \cup In(shown.term) : Select(s)
       \/ \E s \in shown.banked : Select(s)
    /\ UNCHANGED <<stock, filters, data, unheard, troubles>>

\* setMode and toggleCreating, from the inspector and the toolbar; the first is
\* disabled while an edit is under way.
ToggleMode(m) ==
    /\ Acts /\ Drawn
    /\ \/ /\ m \in {"place", "swap"} /\ Exists(shown) /\ Exists(Subject) /\ ~Busy
          /\ mode' = IF mode = m THEN "idle" ELSE m
          /\ UNCHANGED selected
       \/ /\ m = "create"
          /\ mode' = IF mode = m THEN "idle" ELSE m
          /\ selected' = IF mode = m THEN selected ELSE None
    /\ armed' = selected'
    /\ UNCHANGED <<stock, filters, data, snapshot, mutation, unheard, troubles>>

\* Escape, and the inspector's close button: a mode is left before the selection.
Leave ==
    /\ Acts /\ Drawn
    /\ mode' = "idle"
    /\ \E close \in BOOLEAN :
           IF close \/ mode = "idle"
           THEN selected' = None /\ snapshot' = None
           ELSE UNCHANGED <<selected, snapshot>>
    /\ UNCHANGED <<stock, filters, data, mutation, armed, unheard, troubles>>

\* A slot is clicked: placeAt.
Place ==
    /\ Acts /\ Exists(shown) /\ fetch = None
    /\ mode = "place" /\ Exists(Subject) /\ ~Busy
    /\ SendEdit("move", None)
    /\ UNCHANGED <<stock, filters, data, selected, snapshot, mode, armed, unheard, troubles>>

\* The subject is sent to the spare bank, from the inspector.
Bank ==
    /\ Acts /\ Exists(shown)
    /\ Exists(Subject) /\ Subject \notin shown.banked /\ ~Busy
    /\ SendEdit("bank", None)
    /\ UNCHANGED <<stock, filters, data, selected, snapshot, mode, armed, unheard, troubles>>

-----------------------------------------------------------------------------
(***************************************************************************)
(* An edit, carried out and answered                                       *)
(***************************************************************************)
Week(s) == IF Exists(stock.at[s]) THEN stock.at[s].week ELSE None

\* What the server does, or refuses: a session that is gone, or one without a
\* placement to exchange or to give up.
Accepted(edit) ==
    /\ Exists(stock.at[edit.of])
    /\ edit.kind = "swap" => Exists(Week(edit.of)) /\ Exists(Week(edit.with))
    /\ edit.kind = "bank" => Exists(Week(edit.of))

\* Where a session is that takes the place of another, and keeps its room.
InPlaceOf(a, b) == [b EXCEPT !.room = a.room]

Edited(edit) ==
    LET of   == stock.at[edit.of]
        with == stock.at[edit.with]
    IN  CASE edit.kind = "move" -> [stock.at EXCEPT ![edit.of].week = edit.week]
          [] edit.kind = "bank" -> [stock.at EXCEPT ![edit.of].week = None]
          [] edit.kind = "swap" -> [stock.at EXCEPT ![edit.of] = InPlaceOf(of, with),
                                                    ![edit.with] = InPlaceOf(with, of)]

EditServed ==
    /\ Busy /\ mutation.stage = "sent"
    /\ IF Accepted(mutation)
       THEN stock' = [stock EXCEPT !.at = Edited(mutation)] /\ mutation' = [mutation EXCEPT !.stage = "done"]
       ELSE UNCHANGED stock /\ mutation' = [mutation EXCEPT !.stage = "refused"]
    /\ UNCHANGED <<filters, data, selected, snapshot, mode, armed, unheard, bounds>>

\* Mutated form of EditAnswered: the page is not fetched again.
EditAnsweredQuietly ==
    /\ Busy /\ mutation.stage = "done"
    /\ mode' = "idle"
    /\ mutation' = [mutation EXCEPT !.stage = "refresh"]
    /\ UNCHANGED <<stock, filters, data, selected, snapshot, armed, unheard, bounds>>

\* The edit was carried out: the mode ends, and the page is fetched again.
EditAnswered ==
    /\ Busy /\ mutation.stage = "done"
    /\ mode' = "idle"
    /\ FetchFor(Effective)
    /\ mutation' = [mutation EXCEPT !.stage = "refresh"]
    /\ UNCHANGED <<stock, filters, shown, failed, selected, snapshot, armed, unheard, bounds>>

\* busy lasts until the page was fetched, or the edit is seen to have failed.
EditEnds ==
    /\ Busy
    /\ \/ mutation.stage = "refused"
       \/ mutation.stage = "refresh" /\ fetch = None
    /\ mutation' = None
    /\ UNCHANGED <<stock, filters, data, selected, snapshot, mode, armed, unheard, bounds>>

\* The answer of an edit is lost, whether it was carried out or not.
EditFails ==
    /\ Trouble
    /\ Busy /\ mutation.stage \in {"sent", "done"}
    /\ mutation' = None
    /\ unheard' = (unheard \/ mutation.stage = "done")
    /\ UNCHANGED <<stock, filters, data, selected, snapshot, mode, armed, acts>>

-----------------------------------------------------------------------------
PageNext ==
    \/ RouteCommits \/ FetchServed \/ FetchAnswered \/ FetchFails \/ OthersDelete
    \/ SetFilter \/ FollowLink \/ Reload \/ Retry
    \/ ClickSession \/ Leave \/ Place \/ Bank
    \/ \E m \in {"place", "swap", "create"} : ToggleMode(m)
    \/ EditServed \/ EditAnswered \/ EditEnds \/ EditFails

PageSpec == PageInit /\ [][PageNext]_pageVars

\* The router commits, and requests are served and answered.
PageFairness ==
    /\ WF_pageVars(RouteCommits)
    /\ WF_pageVars(FetchServed) /\ WF_pageVars(FetchAnswered)
    /\ WF_pageVars(EditServed) /\ WF_pageVars(EditAnswered) /\ WF_pageVars(EditEnds)

FairPageSpec == PageSpec /\ PageFairness
-----------------------------------------------------------------------------
(***************************************************************************)
(* What has to hold                                                        *)
(***************************************************************************)
PageTypeOK ==
    /\ stock \in [terms : SUBSET PageTerms, rooms : SUBSET PageRooms,
                  at : [PageSessions -> Places \cup {None}]]
    /\ \A s \in PageSessions : Exists(stock.at[s]) => stock.at[s].term \in stock.terms
    /\ url \in Queries /\ Effective \in Queries
    /\ Exists(navigation) => navigation.to \in Queries
    /\ fetch \in Fetches \cup {None} /\ shown \in PageAnswers \cup {None}
    /\ selected \in PageSessions \cup {None} /\ mutation \in Edits \cup {None}
    /\ mode \in {"place", "swap"} => Exists(selected)

\* No filter is lost that was set while another was on its way into the URL,
\* and none comes back (patch and pendingQuery).
NoFilterIsLost == Effective = wanted

\* A page that is not fetching shows the answer to its filters: the term that
\* is selected, in a week it has, and no room that it does not list.
ShownIsAsked ==
    fetch = None /\ Exists(shown) =>
        /\ shown.of = Effective
        /\ shown.terms # {} => Effective.term = shown.term
        /\ Effective.week <= TotalWeeks(shown.term, shown)
        /\ shown.rooms # {} => Effective.rooms \subseteq shown.rooms

\* A slot is a destination for the session the mode was entered for, however
\* the selection changed in between (select, toggleCreating).
PlacingIsForTheArmed == mode \in {"place", "swap"} => selected = armed

\* A page that is not busy shows its own edits: where a session was moved,
\* swapped or banked, whatever else it was fetching (onMutated).
OwnEditsAreSeen ==
    fetch = None /\ Exists(shown) /\ ~Busy /\ ~unheard =>
        /\ shown.placed = Placed(shown.term, shown.of)
        /\ shown.banked = Banked(shown.term)

\* What the page shows is what it was asked for.
PageIsSound ==
    PageTypeOK /\ NoFilterIsLost /\ ShownIsAsked /\ PlacingIsForTheArmed /\ OwnEditsAreSeen

\* The page comes to rest: it does not correct its filters for ever.
PageSettles == <>[](navigation = None /\ fetch = None /\ ~Busy)

\* The comment in move: "the displayed week IS the destination". The week goes
\* along and the term does not.
MovesAreOnScreen ==
    Busy /\ mutation.kind = "move" /\ mutation.stage = "sent" /\ Exists(stock.at[mutation.of])
        => mutation.week <= WeeksOf[stock.at[mutation.of].term]

\* The comment on reconcileFilters: a valid filter is not cleared because the
\* reader may not list rooms.
ValidFiltersStay ==
    [][(\E r \in Effective.rooms : r \in stock.rooms /\ r \notin Effective'.rooms)
        => acts' # acts \/ (Exists(navigation) /\ navigation.link)]_pageVars

\* The head of useScheduleFilters: the filters are held in the URL.
UrlCatchesUp == navigation = None => url = Effective
=============================================================================
