----------------------------- MODULE ExamRequests -----------------------------
(***************************************************************************)
(* Lecturers ask for exams, reviewers grant them, and the time grid they   *)
(* are placed on is edited meanwhile.                                      *)
(*                                                                         *)
(*   server/api/me/exam-requests/index.post.ts       ask                   *)
(*   server/api/exam-requests/[id]/approve.post.ts   grant: the exam is    *)
(*                                                   created, as an event  *)
(*   server/api/exam-requests/[id]/reject.post.ts    refuse                *)
(*   server/utils/examRequests.ts                    placement, exam       *)
(*   server/utils/resources.ts (time-grids)          the grid is narrowed  *)
(*                                                                         *)
(* A transaction reads what it decides on, and writes at its commit: under *)
(* READ COMMITTED other transactions commit in between, and an update by   *)
(* id overwrites whatever they left. A placement is a block and a length   *)
(* on the one day of the grid.                                             *)
(***************************************************************************)
EXTENDS Integers, FiniteSets, Database

CONSTANTS
    Requests,       \* ids of exam_request rows
    Exams,          \* ids of the sessions that exams become
    Clerks,         \* requests to the server in flight at once
    MaxBlocks,      \* the longest day
    Placements      \* placements lecturers ask for: block and length

\* A row of exam_request, and a session with the request it was made for, which
\* the table does not keep.
RequestRow == [status : {"PENDING", "APPROVED", "REJECTED"}, by : Clerks \cup {None},
               exam : Exams \cup {None}, at : Placements]
ExamRow == [at : Placements, for : Requests]

\* NULL is no id and no row, and what is asked for has a length.
ASSUME ExamAssumption ==
    /\ MaxBlocks \in Nat \ {0}
    /\ None \notin Requests \cup Exams \cup Clerks
    /\ None \notin RequestRow /\ None \notin ExamRow
    /\ Placements \subseteq [block : Nat, length : Nat \ {0}]

VARIABLES
    blocks,         \* time_grid.blocksPerDay
    request,        \* exam_request rows, None for no row
    exam,           \* sessions made of requests, None for no row
    tx,             \* what each transaction has read
    together        \* whether transactions overlap

examVars == <<blocks, request, exam, tx, together>>

Idle == [does |-> "nothing", on |-> None, saw |-> None]

ExamInit ==
    /\ blocks = MaxBlocks
    /\ request = [r \in Requests |-> None]
    /\ exam = [e \in Exams |-> None]
    /\ tx = [c \in Clerks |-> Idle]
    /\ together \in BOOLEAN

FitsGrid(placement, bound) == placement.block + placement.length <= bound

Begin(c, does, on, saw) ==
    /\ tx[c] = Idle
    /\ together \/ \A d \in Clerks : tx[d] = Idle
    /\ tx' = [tx EXCEPT ![c] = [does |-> does, on |-> on, saw |-> saw]]

End(c) == tx' = [tx EXCEPT ![c] = Idle]

\* The id of a new request: no transaction and no exam still holds it.
NewRequest(r) ==
    /\ ~Exists(request[r])
    /\ \A c \in Clerks : tx[c].on # r
    /\ \A e \in Exams : Exists(exam[e]) => exam[e].for # r

\* The CHECKs of exam_request: decided rows have a date, which stands for the
\* decider here, and a row has an exam exactly when it is approved.
RowIsLegal(row) ==
    /\ (row.status = "PENDING") <=> (row.by = None)
    /\ (row.status = "APPROVED") <=> (row.exam # None)

-----------------------------------------------------------------------------
\* me/exam-requests: the grid is read and the placement refused or ...
AskReads(c, r, placement) ==
    /\ NewRequest(r)
    /\ FitsGrid(placement, blocks)
    /\ Begin(c, "ask", r, placement)
    /\ UNCHANGED <<blocks, request, exam, together>>

\* ... the request stored.
AskCommits(c) ==
    /\ tx[c].does = "ask"
    /\ request' = [request EXCEPT ![tx[c].on] =
                      [status |-> "PENDING", by |-> None, exam |-> None, at |-> tx[c].saw]]
    /\ End(c)
    /\ UNCHANGED <<blocks, exam, together>>

\* Mutated form of ApproveReads: the placement is trusted from the request.
ApproveReadsStatusOnly(c, r) ==
    /\ Exists(request[r])
    /\ request[r].status = "PENDING"
    /\ Begin(c, "approve", r, request[r])
    /\ UNCHANGED <<blocks, request, exam, together>>

\* Mutated form of ApproveReads: only a rejected request is turned away.
ApproveReadsAgain(c, r) ==
    /\ Exists(request[r])
    /\ request[r].status # "REJECTED"
    /\ FitsGrid(request[r].at, blocks)
    /\ Begin(c, "approve", r, request[r])
    /\ UNCHANGED <<blocks, request, exam, together>>

\* approve: the status, and the placement again, against the grid as it is now.
ApproveReads(c, r) ==
    /\ Exists(request[r])
    /\ request[r].status = "PENDING"
    /\ FitsGrid(request[r].at, blocks)
    /\ Begin(c, "approve", r, request[r])
    /\ UNCHANGED <<blocks, request, exam, together>>

\* materializeExam, and the update of the request by its id. A request that
\* went with its offering is not found, and the transaction rolls back.
ApproveCommits(c, e) ==
    /\ tx[c].does = "approve" /\ ~Exists(exam[e])
    /\ LET r == tx[c].on
           decided == [status |-> "APPROVED", by |-> c, exam |-> e, at |-> tx[c].saw.at]
       IN  /\ Exists(request[r])
           /\ request' = [request EXCEPT ![r] = decided]
           /\ exam' = [exam EXCEPT ![e] = [at |-> tx[c].saw.at, for |-> r]]
    /\ End(c)
    /\ UNCHANGED <<blocks, together>>

RejectReads(c, r) ==
    /\ Exists(request[r])
    /\ request[r].status = "PENDING"
    /\ Begin(c, "reject", r, request[r])
    /\ UNCHANGED <<blocks, request, exam, together>>

\* Mutated form of Rejected: the exam of the row is let go with the status.
RejectedAndCleared(row, by) == [row EXCEPT !.status = "REJECTED", !.by = by, !.exam = None]

\* What reject writes: it leaves session_id as it finds it.
Rejected(row, by) == [row EXCEPT !.status = "REJECTED", !.by = by]

RejectCommits(c) ==
    /\ tx[c].does = "reject"
    /\ LET r == tx[c].on IN
       /\ Exists(request[r])
       /\ RowIsLegal(Rejected(request[r], c))
       /\ request' = [request EXCEPT ![r] = Rejected(request[r], c)]
    /\ End(c)
    /\ UNCHANGED <<blocks, exam, together>>

\* A transaction that cannot commit, or whose connection is lost, rolls back.
Abort(c) ==
    /\ tx[c] # Idle
    /\ End(c)
    /\ UNCHANGED <<blocks, request, exam, together>>

\* The offering goes, and its requests with it (ON DELETE CASCADE); their exams
\* are events of their own and stay.
OfferingIsDeleted(r) ==
    /\ Exists(request[r])
    /\ request' = [request EXCEPT ![r] = None]
    /\ UNCHANGED <<blocks, exam, tx, together>>

\* ON DELETE SET NULL of exam_request.session_id.
Detached(row) == [row EXCEPT !.exam = None]

\* Mutated form of DeleteExam: the requests keep the id of a session that is gone.
DeleteExamOnly(e) ==
    /\ Exists(exam[e])
    /\ exam' = [exam EXCEPT ![e] = None]
    /\ UNCHANGED <<blocks, request, tx, together>>

\* Mutated form of DeleteExam: no CHECK looks at the rows that are detached.
DeleteExamRegardless(e) ==
    /\ Exists(exam[e])
    /\ request' = [r \in Requests |->
                      IF Exists(request[r]) /\ request[r].exam = e
                      THEN Detached(request[r]) ELSE request[r]]
    /\ exam' = [exam EXCEPT ![e] = None]
    /\ UNCHANGED <<blocks, tx, together>>

\* DELETE of a session without an offering, in one piece: the requests that name
\* it are detached, and the deletion fails when a CHECK refuses one of them.
DeleteExam(e) ==
    LET detached == [r \in Requests |->
                        IF Exists(request[r]) /\ request[r].exam = e
                        THEN Detached(request[r]) ELSE request[r]]
    IN  /\ Exists(exam[e])
        /\ \A r \in Requests : Exists(detached[r]) => RowIsLegal(detached[r])
        /\ request' = detached
        /\ exam' = [exam EXCEPT ![e] = None]
        /\ UNCHANGED <<blocks, tx, together>>

\* time-grids beforeUpdate: sessions outside the new bounds refuse the edit.
NarrowReads(c, bound) ==
    /\ bound < blocks
    /\ \A e \in Exams : Exists(exam[e]) => FitsGrid(exam[e].at, bound)
    /\ Begin(c, "narrow", None, bound)
    /\ UNCHANGED <<blocks, request, exam, together>>

NarrowCommits(c) ==
    /\ tx[c].does = "narrow"
    /\ blocks' = tx[c].saw
    /\ End(c)
    /\ UNCHANGED <<request, exam, together>>

\* A longer day looks at no session.
Widen(bound) ==
    /\ blocks < bound
    /\ blocks' = bound
    /\ UNCHANGED <<request, exam, tx, together>>

ExamNext ==
    \/ \E c \in Clerks :
        \/ \E r \in Requests :
            \/ \E placement \in Placements : AskReads(c, r, placement)
            \/ ApproveReads(c, r)
            \/ RejectReads(c, r)
        \/ AskCommits(c)
        \/ \E e \in Exams : ApproveCommits(c, e)
        \/ RejectCommits(c)
        \/ \E bound \in 1 .. MaxBlocks : NarrowReads(c, bound)
        \/ NarrowCommits(c)
        \/ Abort(c)
    \/ \E r \in Requests : OfferingIsDeleted(r)
    \/ \E e \in Exams : DeleteExam(e)
    \/ \E bound \in 1 .. MaxBlocks : Widen(bound)

ExamSpec == ExamInit /\ [][ExamNext]_examVars

-----------------------------------------------------------------------------
ExamTypeOK ==
    /\ blocks \in 1 .. MaxBlocks
    /\ request \in [Requests -> RequestRow \cup {None}]
    /\ exam \in [Exams -> ExamRow \cup {None}]
    /\ \A r \in Requests : Exists(request[r]) => RowIsLegal(request[r])

\* A granted request names an exam that exists and was made for it, at the
\* placement that was asked for, however often and by whomever it was decided.
GrantedHasItsExam ==
    \A r \in Requests :
        Exists(request[r]) /\ request[r].status = "APPROVED" =>
            LET e == request[r].exam IN
            /\ Exists(exam[e])
            /\ exam[e] = [at |-> request[r].at, for |-> r]

\* What was granted stays granted: no late rejection, overlapping or not, takes
\* an exam back. It fails on the CHECK, because it does not clear the exam.
GrantIsFinal ==
    [][\A r \in Requests :
        Exists(request[r]) /\ request[r].status = "APPROVED" /\ Exists(request'[r])
            => request'[r].status = "APPROVED"]_examVars

\* One transaction at a time: no request has two exams, and every exam of a
\* request that still stands is the one it names.
OneExamPerRequest ==
    ~together =>
        \A e \in Exams : Exists(exam[e]) /\ Exists(request[exam[e].for]) =>
            request[exam[e].for].exam = e

\* One transaction at a time: every exam resolves to blocks of the day, though
\* requests wait while the day is shortened and lengthened.
ExamsFitTheGrid ==
    ~together => \A e \in Exams : Exists(exam[e]) => FitsGrid(exam[e].at, blocks)

\* Exams and the requests they were granted for belong together one to one, on
\* blocks the day has.
ExamsAreInOrder == GrantedHasItsExam /\ OneExamPerRequest /\ ExamsFitTheGrid

\* What the migration says of session_id, "which is what stops a second approval
\* creating a second exam": overlapping approvals do create it.
NeverTwoExams ==
    \A e, f \in Exams :
        Exists(exam[e]) /\ Exists(exam[f]) /\ exam[e].for = exam[f].for => e = f

\* What the migration says of ON DELETE SET NULL, "deleting the exam must not
\* destroy the record that it was asked for and granted". No
\* deletion of a granted exam succeeds: the row it leaves is not legal.
ExamCanBeDeleted ==
    \A e \in Exams : Exists(exam[e]) =>
        \A r \in Requests : Exists(request[r]) /\ request[r].exam = e =>
            RowIsLegal(Detached(request[r]))

=============================================================================
