------------------------------- MODULE RunWatch -------------------------------
(***************************************************************************)
(* The solver control of one browser (app/composables/solverRun.ts): it    *)
(* shows the run of the term on screen, whoever started it, polls it, and  *)
(* starts and cancels runs. Every request is sent, served and answered in  *)
(* steps of their own, with clicks, other requests and a change of term in *)
(* between; an answer may be lost on its way back.                         *)
(*                                                                         *)
(* What the server does of itself is what SolverRun shows in detail: at    *)
(* most one active run in a term, and an active run ends. Samples, notices *)
(* and error texts are left out, and so is the preflight check.            *)
(***************************************************************************)
EXTENDS Integers, FiniteSets, FiniteSetsExt, Database

CONSTANTS
    ScreenTerms,          \* terms the page can show
    Runs,           \* ids of runs, given in their order
    Tickets,        \* requests that can be under way at once
    MaxClicks,      \* bound: start, cancel, dismiss and change of term
    MaxLosses       \* bound: answers that are errors of the network

RequestKinds == {"poll", "adopt", "start", "join", "failed", "cancel"}

\* A row at the server, and as the browser hears of it; an answer; a request.
HeldRow == [term : ScreenTerms, status : {"ACTIVE", "ENDED"}]
RunRow  == [id : Runs, term : ScreenTerms, status : {"ACTIVE", "ENDED"}]
Reply   == [is : {"row"}, row : RunRow \cup {None}] \cup [is : {"rejected"}, id : Runs]
              \cup [is : {"conflict", "done", "error"}]
Asked   == [kind : RequestKinds, of : Runs \cup ScreenTerms, answer : Reply \cup {None}]

ASSUME WatchAssumption ==
    /\ MaxClicks \in Nat /\ MaxLosses \in Nat /\ Tickets \cup Runs \subseteq Nat
    /\ ScreenTerms # {}
    /\ None \notin HeldRow /\ None \notin RunRow /\ None \notin Asked

VARIABLES
    held,       \* solver_run rows at the server
    term,       \* the term on screen
    run,        \* the run shown, as it was last heard of
    starting,   \* a start is under way
    cancelling, \* a cancellation was asked for and not seen to end
    adopted,    \* the run was found, not started here
    timer,      \* a poll is due
    request,    \* the requests under way, by ticket
    clicks, losses

client == <<run, starting, cancelling, adopted, timer>>
watchVars == <<held, term, client, request, clicks, losses>>

Row(id) == [id |-> id, term |-> held[id].term, status |-> held[id].status]

\* The runs of a term that the one-active-run index counts.
ActiveIn(t) == {id \in Runs : Exists(held[id]) /\ held[id].term = t /\ held[id].status = "ACTIVE"}

UnderWay == {n \in Tickets : Exists(request[n])}
Free     == Min(Tickets \ UnderWay)

\* A request, with the run or the term it names, and its answer.
Request(kind, of) == [kind |-> kind, of |-> of, answer |-> None]

Send(kind, of) == request' = [request EXCEPT ![Free] = Request(kind, of)]

Shown == IF Exists(run) /\ run.status = "ACTIVE" THEN {run.id} ELSE {}

\* deriveState: what the control shows, and so which buttons it has.
State ==
    CASE starting                 -> "starting"
      [] ~starting /\ cancelling  -> "cancelling"
      [] ~starting /\ ~cancelling /\ ~Exists(run) -> "idle"
      [] ~starting /\ ~cancelling /\ Exists(run)  ->
            IF Shown # {} THEN "running" ELSE "over"

WatchInit ==
    /\ held = [id \in Runs |-> None]
    /\ term = CHOOSE t \in ScreenTerms : TRUE     \* terms are alike
    /\ run = None /\ starting = FALSE /\ cancelling = FALSE /\ adopted = FALSE /\ timer = FALSE
    /\ request = [n \in Tickets |-> IF n = Min(Tickets) THEN Request("adopt", term) ELSE None]
    /\ clicks = 0 /\ losses = 0

-----------------------------------------------------------------------------
(***************************************************************************)
(* What happens by itself: timers and the server                           *)
(***************************************************************************)
\* poll is due. Nothing is asked for unless the run shown is active.
TimerFires ==
    /\ timer /\ Tickets \ UnderWay # {}
    /\ timer' = FALSE
    /\ IF Shown # {} THEN Send("poll", run.id) ELSE UNCHANGED request
    /\ UNCHANGED <<held, term, run, starting, cancelling, adopted, clicks, losses>>

Ended(id) == [held EXCEPT ![id].status = "ENDED"]

\* A run ends, whether or not anyone watches.
RunEnds(id) ==
    /\ Exists(held[id]) /\ held[id].status = "ACTIVE"
    /\ held' = Ended(id)
    /\ UNCHANGED <<term, client, request, clicks, losses>>

\* Whether a row can be added, and its id.
Room == \E id \in Runs : ~Exists(held[id])
NewId == Min({id \in Runs : ~Exists(held[id])})

Born(id, t, status) == [held EXCEPT ![id] = [term |-> t, status |-> status]]

\* Somebody else starts a run.
OthersStart ==
    /\ Room
    /\ \E t \in ScreenTerms : ActiveIn(t) = {} /\ held' = Born(NewId, t, "ACTIVE")
    /\ UNCHANGED <<term, client, request, clicks, losses>>

Answered(n, answer) == request' = [request EXCEPT ![n].answer = answer]

\* The server handles a request.
\*   poll, failed    the run as it is now
\*   adopt, join     an active run of the term, if there is one
\*   start           a new run, active or rejected at once, or 409
\*   cancel          the run ends now or later; one that is over stays so
Serve(n) ==
    /\ Exists(request[n]) /\ request[n].answer = None
    /\ LET kind == request[n].kind
           of   == request[n].of
       IN  \/ /\ kind \in {"poll", "failed"}
              /\ Answered(n, [is |-> "row", row |-> Row(of)])
              /\ UNCHANGED held
           \/ /\ kind \in {"adopt", "join"}
              /\ \/ /\ ActiveIn(of) = {}
                    /\ Answered(n, [is |-> "row", row |-> None])
                 \/ \E id \in ActiveIn(of) : Answered(n, [is |-> "row", row |-> Row(id)])
              /\ UNCHANGED held
           \/ /\ kind = "start" /\ ActiveIn(of) # {}
              /\ Answered(n, [is |-> "conflict"])
              /\ UNCHANGED held
           \/ /\ kind = "start" /\ ActiveIn(of) = {} /\ Room
              /\ \/ /\ held' = Born(NewId, of, "ACTIVE")
                    /\ Answered(n, [is |-> "row", row |-> [id |-> NewId, term |-> of, status |-> "ACTIVE"]])
                 \/ /\ held' = Born(NewId, of, "ENDED")
                    /\ Answered(n, [is |-> "rejected", id |-> NewId])
           \/ /\ kind = "start" /\ ActiveIn(of) = {}
              /\ Answered(n, [is |-> "error"])
              /\ UNCHANGED held
           \/ /\ kind = "cancel" /\ Answered(n, [is |-> "done"])
              /\ held' \in {held, Ended(of)}
    /\ UNCHANGED <<term, client, clicks, losses>>

\* The answer does not get through, and the browser sees an error instead.
AnswerIsLost(n) ==
    /\ losses < MaxLosses
    /\ Exists(request[n]) /\ request[n].answer # None /\ request[n].answer # [is |-> "error"]
    /\ losses' = losses + 1
    /\ Answered(n, [is |-> "error"])
    /\ UNCHANGED <<held, term, client, clicks>>

-----------------------------------------------------------------------------
(***************************************************************************)
(* Answers                                                                 *)
(***************************************************************************)
\* A request that is answered, and no longer under way.
Has(n, kind)  == Exists(request[n]) /\ request[n].kind = kind /\ request[n].answer # None
Taken(n)      == request' = [request EXCEPT ![n] = None]
Followed(n, kind, of) == request' = [request EXCEPT ![n] = Request(kind, of)]

\* What an active run shown from now on needs: its next poll.
Show(row) == run' = row /\ timer' = (timer \/ row.status = "ACTIVE")

\* Mutated form of PollAnswered: a failed poll is not tried again.
PollAnsweredOnce(n) ==
    /\ Has(n, "poll") /\ Taken(n)
    /\ LET answer == request[n].answer
       IN  \/ /\ answer.is = "row"
              /\ Show(answer.row)
              /\ cancelling' = (cancelling /\ answer.row.status = "ACTIVE")
           \/ /\ answer.is = "error"
              /\ UNCHANGED <<run, timer, cancelling>>
    /\ UNCHANGED <<held, term, starting, adopted, clicks, losses>>

\* Mutated form of PollAnswered: an answer that the run is over is not shown.
PollAnsweredIfActive(n) ==
    /\ Has(n, "poll") /\ Taken(n)
    /\ LET answer == request[n].answer
       IN  \/ /\ answer.is = "row" /\ answer.row.status = "ACTIVE"
              /\ Show(answer.row)
              /\ UNCHANGED cancelling
           \/ /\ answer.is = "row" => answer.row.status = "ENDED"
              /\ timer' = TRUE
              /\ UNCHANGED <<run, cancelling>>
    /\ UNCHANGED <<held, term, starting, adopted, clicks, losses>>

\* poll: the row is shown whatever happened since it was asked for, and the
\* next poll is due. A failed poll is not a failed run.
PollAnswered(n) ==
    /\ Has(n, "poll") /\ Taken(n)
    /\ LET answer == request[n].answer
       IN  \/ /\ answer.is = "row"
              /\ Show(answer.row)
              /\ cancelling' = (cancelling /\ answer.row.status = "ACTIVE")
           \/ /\ answer.is = "error"
              /\ timer' = TRUE
              /\ UNCHANGED <<run, cancelling>>
    /\ UNCHANGED <<held, term, starting, adopted, clicks, losses>>

\* Mutated form of AdoptAnswered: what is found is taken to be of the term that
\* is on screen by now.
AdoptAnsweredForScreen(n) ==
    /\ \E kind \in {"adopt", "join"} : Has(n, kind)
    /\ Taken(n)
    /\ LET answer == request[n].answer
           joins  == request[n].kind = "join"
           found  == answer.is = "row" /\ Exists(answer.row)
       IN  /\ IF found THEN run' = [answer.row EXCEPT !.term = term] /\ timer' = TRUE
                       ELSE UNCHANGED <<run, timer>>
           /\ adopted' = (adopted \/ found \/ joins)
           /\ starting' = (starting /\ ~joins)
    /\ UNCHANGED <<held, term, cancelling, clicks, losses>>

\* adopt, once the list is there. "join" is the adopt that start waits for
\* after a 409; its notice is set whether or not a run was found.
AdoptAnswered(n) ==
    /\ \E kind \in {"adopt", "join"} : Has(n, kind)
    /\ Taken(n)
    /\ LET answer == request[n].answer
           joins  == request[n].kind = "join"
           found  == answer.is = "row" /\ Exists(answer.row)
       IN  /\ IF found THEN run' = answer.row /\ timer' = TRUE ELSE UNCHANGED <<run, timer>>
           /\ adopted' = (adopted \/ found \/ joins)
           /\ starting' = (starting /\ ~joins)
    /\ UNCHANGED <<held, term, cancelling, clicks, losses>>

\* Mutated form of StartAnswered: the flag is not cleared after a 409.
StartAnsweredWithoutFinally(n) ==
    /\ Has(n, "start")
    /\ UNCHANGED <<held, term, cancelling, clicks, losses>>
    /\ LET answer == request[n].answer
       IN  \/ /\ answer.is = "row" /\ Taken(n)
              /\ Show(answer.row) /\ starting' = FALSE /\ UNCHANGED adopted
           \/ /\ answer.is = "conflict" /\ Followed(n, "adopt", term)
              /\ run' = None /\ timer' = FALSE /\ adopted' = FALSE /\ UNCHANGED starting
           \/ /\ answer.is = "rejected" /\ Followed(n, "failed", answer.id)
              /\ UNCHANGED <<run, timer, adopted, starting>>
           \/ /\ answer.is = "error" /\ Taken(n)
              /\ starting' = FALSE /\ UNCHANGED <<run, timer, adopted>>

\* start, once the server has answered: 409 joins the run that is there, a run
\* that was rejected is fetched to be shown as failed.
StartAnswered(n) ==
    /\ Has(n, "start")
    /\ UNCHANGED <<held, term, cancelling, clicks, losses>>
    /\ LET answer == request[n].answer
       IN  \/ /\ answer.is = "row" /\ Taken(n)
              /\ Show(answer.row) /\ starting' = FALSE /\ UNCHANGED adopted
           \/ /\ answer.is = "conflict" /\ Followed(n, "join", term)
              /\ run' = None /\ timer' = FALSE /\ adopted' = FALSE /\ UNCHANGED starting
           \/ /\ answer.is = "rejected" /\ Followed(n, "failed", answer.id)
              /\ UNCHANGED <<run, timer, adopted, starting>>
           \/ /\ answer.is = "error" /\ Taken(n)
              /\ starting' = FALSE /\ UNCHANGED <<run, timer, adopted>>

\* The rejected run of a start.
FailedRunAnswered(n) ==
    /\ Has(n, "failed") /\ Taken(n)
    /\ IF request[n].answer.is = "row" THEN run' = request[n].answer.row ELSE UNCHANGED run
    /\ starting' = FALSE
    /\ UNCHANGED <<held, term, timer, cancelling, adopted, clicks, losses>>

\* cancel: that the run has ended is for a poll to see.
CancelAnswered(n) ==
    /\ Has(n, "cancel") /\ Taken(n)
    /\ \/ request[n].answer.is = "done" /\ timer' = TRUE /\ UNCHANGED cancelling
       \/ request[n].answer.is = "error" /\ cancelling' = FALSE /\ UNCHANGED timer
    /\ UNCHANGED <<held, term, run, starting, adopted, clicks, losses>>

Receive(n) ==
    \/ PollAnswered(n) \/ AdoptAnswered(n) \/ StartAnswered(n)
    \/ FailedRunAnswered(n) \/ CancelAnswered(n)

-----------------------------------------------------------------------------
(***************************************************************************)
(* Clicks                                                                  *)
(***************************************************************************)
Click == clicks < MaxClicks /\ clicks' = clicks + 1 /\ Tickets \ UnderWay # {}

\* Another term on screen: its run is looked for.
SwitchTerm ==
    /\ Click
    /\ \E t \in ScreenTerms \ {term} : term' = t /\ Send("adopt", t)
    /\ run' = None /\ timer' = FALSE /\ adopted' = FALSE
    /\ UNCHANGED <<held, starting, cancelling, losses>>

\* The button of the idle control, or the repair button of the violations
\* panel, which is there whatever the control shows.
Start ==
    /\ Click
    /\ starting' = TRUE /\ adopted' = FALSE
    /\ Send("start", term)
    /\ UNCHANGED <<held, term, run, timer, cancelling, losses>>

Cancel ==
    /\ Click
    /\ State = "running"
    /\ cancelling' = TRUE
    /\ Send("cancel", run.id)
    /\ UNCHANGED <<held, term, run, timer, starting, adopted, losses>>

Dismiss ==
    /\ Click
    /\ State = "over"
    /\ run' = None /\ adopted' = FALSE
    /\ UNCHANGED <<held, term, timer, starting, cancelling, request, losses>>

WatchNext ==
    \/ TimerFires
    \/ \E id \in Runs : RunEnds(id)
    \/ OthersStart
    \/ \E n \in Tickets : Serve(n) \/ AnswerIsLost(n) \/ Receive(n)
    \/ SwitchTerm \/ Start \/ Cancel \/ Dismiss

WatchSpec == WatchInit /\ [][WatchNext]_watchVars

\* Timers fire, requests are served and answered, and runs end.
WatchFairness ==
    /\ WF_watchVars(TimerFires)
    /\ \A id \in Runs : WF_watchVars(RunEnds(id))
    /\ \A n \in Tickets : WF_watchVars(Serve(n)) /\ WF_watchVars(Receive(n))

FairWatchSpec == WatchSpec /\ WatchFairness
-----------------------------------------------------------------------------
(***************************************************************************)
(* What has to hold                                                        *)
(***************************************************************************)
WatchTypeOK ==
    /\ term \in ScreenTerms /\ held \in [Runs -> HeldRow \cup {None}]
    /\ run \in RunRow \cup {None} /\ request \in [Tickets -> Asked \cup {None}]
    /\ \A b \in {starting, cancelling, adopted, timer} : b \in BOOLEAN
    /\ Exists(run) => Exists(held[run.id]) /\ held[run.id].term = run.term

\* A control that shows an active run never stops asking: a poll is due or
\* under way, however clicks, terms and answers crossed (schedule in poll,
\* adopt, start and cancel).
PollingGoesOn ==
    Shown # {} => timer \/ \E n \in UnderWay : request[n].kind = "poll"

\* A start the control waits for has its request under way, so that the
\* control does not stay at "starting" (the finally of start).
StartingIsUnderWay ==
    starting => \E n \in UnderWay : request[n].kind \in {"start", "join", "failed"}

\* What the control shows is a run there is, and what it waits for comes.
ControlIsSound == WatchTypeOK /\ PollingGoesOn /\ StartingIsUnderWay

\* The control does not show a run as active for ever that is over: it is seen
\* to end, or another run or none is shown.
EndIsSeen ==
    \A id \in Runs :
        (id \in Shown /\ held[id].status = "ENDED") ~> (id \notin Shown)

\* The head of solverRun.ts: "The solver run in flight, for one Term."
ControlIsOfTheTerm == Exists(run) => run.term = term

\* The comment in proposals.vue on the timeout of useSolverRun: "it cannot
\* overlap its own request".
PollsDoNotOverlap == Cardinality({n \in UnderWay : request[n].kind = "poll"}) <= 1

\* The comment in cancel: the flag is there because the run "is still RUNNING".
CancellingEnds == cancelling ~> ~cancelling

\* The run whose start lost the race "is already happening" and is joined.
JoinedRunIsShown == adopted => Exists(run)
=============================================================================
