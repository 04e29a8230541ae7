------------------------------- MODULE MCBrowser -------------------------------
(***************************************************************************)
(* What a page waits for, on small instances: that its reads are answered  *)
(* and what they show catches up with the schedule, that the solver        *)
(* control sees its run end, and that the schedule page comes to rest with *)
(* what its filters ask for. The parts share nothing, so a behaviour       *)
(* follows one of them, the focus. The others owe no step: no read has     *)
(* been asked for, no request sent, no page opened, and so the fairness of *)
(* one part asks nothing of another.                                       *)
(***************************************************************************)
EXTENDS ScheduleCache, RunWatch, SchedulePage

CONSTANTS t1, t2, g1, e1

VARIABLE focus

\* A page without the control.
NoControl ==
    /\ held = [id \in Runs |-> None]
    /\ term = CHOOSE t \in ScreenTerms : TRUE
    /\ run = None /\ starting = FALSE /\ cancelling = FALSE /\ adopted = FALSE /\ timer = FALSE
    /\ request = [n \in Tickets |-> None]
    /\ clicks = 0 /\ losses = 0

\* A page that was not opened.
NoPage ==
    /\ stock = [terms |-> {}, rooms |-> {}, at |-> [s \in PageSessions |-> None]]
    /\ url = Bare(None) /\ wanted = url /\ overlay = <<>>
    /\ navigation = None /\ remembered = None
    /\ fetch = None /\ shown = None /\ failed = FALSE
    /\ selected = None /\ snapshot = None /\ mode = "idle" /\ mutation = None
    /\ armed = None /\ unheard = FALSE
    /\ acts = 0 /\ troubles = 0

\* A short term and a longer one; all sessions are in the short one.
MCWeeksOf == [t \in PageTerms |-> t]
MCHomeOf  == [s \in PageSessions |->
                 [term |-> CHOOSE t \in PageTerms : MCWeeksOf[t] = 1,
                  room |-> CHOOSE r \in PageRooms : TRUE]]

BrowserInit ==
    /\ Init
    /\ \/ focus = "reads" /\ NoControl /\ NoPage
       \/ focus = "control" /\ WatchInit /\ NoPage
       \/ focus = "page" /\ NoControl /\ PageInit

BrowserNext ==
    \/ focus = "reads" /\ Next /\ UNCHANGED <<watchVars, pageVars, focus>>
    \/ focus = "control" /\ WatchNext /\ UNCHANGED <<vars, pageVars, focus>>
    \/ focus = "page" /\ PageNext /\ UNCHANGED <<vars, watchVars, focus>>

BrowserSpec ==
    /\ BrowserInit /\ [][BrowserNext]_<<vars, watchVars, pageVars, focus>>
    /\ Fairness /\ WatchFairness /\ PageFairness

\* What the screen shows was asked for, and what it waits for is under way,
\* in the solver control and in the schedule page.
ScreenIsSound == ControlIsSound /\ PageIsSound

\* What the screen waits for comes: the end of a run, and rest.
ScreenSettles == EndIsSeen /\ PageSettles
=============================================================================
