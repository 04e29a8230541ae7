--------------------------- MODULE SolverRunProofs ---------------------------
(***************************************************************************)
(* What SolverRun promises for any number of runs, terms, pollers and      *)
(* watchers: one active run of a term; a result proposed once, under the   *)
(* next version of its term, never after the solver cancelled it; recovery *)
(* that gives up only by saying so. And that it implements TermProposals.  *)
(*                                                                         *)
(* The invariants the runs check are not inductive: a poll commits what it *)
(* decided several steps earlier. Inv says what an open transaction relies *)
(* on in the meantime: that it holds the locks its program counter says it *)
(* holds (LocksHeld), and that the row it locked is the only one of its    *)
(* term that is active or is about to be (TermsExclusive). Outcome adds    *)
(* what a poll knows: that an answer it carries is still true of the       *)
(* solver when it is used (AnswersHold), that a success which was seen is  *)
(* never taken back (SuccessesStand), and that a version in hand is still  *)
(* the next one (VersionsHeld).                                            *)
(***************************************************************************)
EXTENDS SolverRun, TLAPS

\* A poll that has its answer has one that its UPDATE knows what to do with.
AnswerOK(j) ==
    IF j.mode = "poll"
      THEN j.ans \in {"QUEUED", "RUNNING", "NOT_FOUND"} \cup TerminalStatus
      ELSE j.ans \in {"SUCCEEDED", "RETRY", "GIVE_UP"}

JobOK(j) ==
    /\ j.pc # "idle" => j.run \in Runs
    /\ j.pc = "fetching" => j.ans \in TerminalStatus /\ j.mode = "poll"
    /\ j.pc \in {"updating", "updated", "allocated"} => AnswerOK(j)
    /\ j.mode = "recover" => j.tries < MaxRecovery

JobsOK == \A w \in Workers : JobOK(job[w])

BatchesOK == \A p \in Pollers : \A s \in batch[p] :
    s.mode = "recover" => s.tries < MaxRecovery

\* A row is locked by the transaction that has updated it, and by no other.
LocksHeld ==
    /\ \A w \in Workers : job[w].pc \in {"updated", "allocated"} => rowLock[job[w].run] = w
    /\ \A r \in Runs : rowLock[r] # None =>
        /\ job[rowLock[r]].pc \in {"updated", "allocated"}
        /\ job[rowLock[r]].run = r

\* r occupies its term: it is active, or an open transaction will make it so.
Occupies(r) == Active(r) \/ (rowLock[r] # None /\ BecomesActive(job[rowLock[r]]))

TermsExclusive == \A r, s \in Runs :
    Occupies(r) /\ Occupies(s) /\ TermOf[r] = TermOf[s] => r = s

Inv == TypeOK /\ JobsOK /\ BatchesOK /\ LocksHeld /\ TermsExclusive

-----------------------------------------------------------------------------
\* What an UPDATE leaves behind is a row again, with the status it was given.
LEMMA WrittenTyped ==
    ASSUME NEW j \in Job, NEW row \in Row, AnswerOK(j),
           j.mode = "recover" => j.tries < MaxRecovery
    PROVE  /\ Written(j, row) \in Row
           /\ Written(j, row).generation = row.generation
           /\ Written(j, row).ext = row.ext
<1> DEFINE new == Written(j, row)
<1>1. new.status \in Status
  BY DEF Written, AnswerOK, Job, Row, Status, ActiveStatus, TerminalStatus
<1>2. new.ext = row.ext /\ new.generation = row.generation
  BY DEF Written
<1>3. new.due \in BOOLEAN /\ new.result \in BOOLEAN /\ new.lost \in BOOLEAN
  BY DEF Written, Job, Row
<1>4. new.attempts \in 0..MaxRecovery
  <2>1. row.attempts \in 0..MaxRecovery /\ j.tries \in 0..MaxRecovery
    BY DEF Row, Job
  <2> QED BY <2>1, ConstantsAssumption DEF Written
<1>5. new.ext \in Epochs \cup {None} /\ new.generation \in Versions
  BY <1>2 DEF Row
<1>6. new = [status |-> new.status, ext |-> new.ext, due |-> new.due,
             result |-> new.result, attempts |-> new.attempts,
             lost |-> new.lost, generation |-> new.generation]
  BY DEF Written
<1>7. new \in Row
  BY <1>1, <1>3, <1>4, <1>5, <1>6 DEF Row
<1> QED BY <1>2, <1>7

\* Single columns of a row may be replaced by values of their types.
LEMMA RowUpdates ==
    ASSUME NEW row \in Row
    PROVE  /\ \A x \in Status : [row EXCEPT !.status = x] \in Row
           /\ \A x \in Epochs \cup {None} :
                  [row EXCEPT !.status = "QUEUED", !.ext = x, !.due = FALSE] \in Row
           /\ \A x \in Versions : [row EXCEPT !.generation = x] \in Row
  BY DEF Row, Status, ActiveStatus

\* Likewise for the columns of a job.
LEMMA JobUpdates ==
    ASSUME NEW j \in Job
    PROVE  /\ \A x \in {"fetching", "updating"}, a \in Answers :
                 [j EXCEPT !.pc = x, !.ans = a] \in Job
           /\ \A got \in BOOLEAN : [j EXCEPT !.pc = "updating", !.got = got] \in Job
           /\ \A a \in Answers : [j EXCEPT !.pc = "updating", !.ans = a, !.got = TRUE] \in Job
           /\ \A v \in Versions : [j EXCEPT !.pc = "allocated", !.version = v] \in Job
  BY DEF Job

\* A new value for one row, one job, or one entry of a program counter leaves
\* the table typed.
LEMMA TypeStep ==
    ASSUME TypeOK, JobsOK, BatchesOK, Next PROVE TypeOK'
<1> USE DEF rowVars, lockVars, startVars, solverVars
<1>a. NoRow \in Row /\ \A r \in Runs : run[r] \in Row
  BY ConstantsAssumption DEF NoRow, Row, Status, Versions, TypeOK
<1>1. ASSUME NEW r \in Runs, SolverRuns(r) PROVE TypeOK'
  BY <1>1 DEF SolverRuns, TypeOK, SolverStatus, TerminalStatus, Known
<1>2. ASSUME NEW r \in Runs, SolverFinishes(r) PROVE TypeOK'
  BY <1>2 DEF SolverFinishes, TypeOK, SolverStatus, TerminalStatus, Known
<1>3. ASSUME NEW r \in Runs, StartRunAccepted(r) PROVE TypeOK'
  BY <1>3 DEF StartRunAccepted, TypeOK, SolverStatus, TerminalStatus, Known
<1>4. ASSUME NEW r \in Runs, StartRunFails(r) PROVE TypeOK'
  BY <1>4 DEF StartRunFails, TypeOK, SolverStatus, TerminalStatus, Known
<1>5. ASSUME NEW r \in Runs, StartRejectedByIndex(r) PROVE TypeOK'
  BY <1>5 DEF StartRejectedByIndex, TypeOK, SolverStatus, TerminalStatus, Known
<1>6. ASSUME NEW r \in Runs, StarterCrashes(r) PROVE TypeOK'
  BY <1>6 DEF StarterCrashes, TypeOK, SolverStatus, TerminalStatus, Known
<1>7. ASSUME NEW r \in Runs, CancelRead(r) PROVE TypeOK'
  BY <1>7 DEF CancelRead, TypeOK, SolverStatus, TerminalStatus, Known
<1>8. ASSUME NEW r \in Runs, CancelRemotely(r) PROVE TypeOK'
  BY <1>8 DEF CancelRemotely, TypeOK, SolverStatus, TerminalStatus, Known
<1>9. ASSUME NEW r \in Runs, CancelAbandoned(r) PROVE TypeOK'
  BY <1>9 DEF CancelAbandoned, TypeOK, SolverStatus, TerminalStatus, Known
<1>10. ASSUME NEW r \in Runs, ClaimTerm(r) PROVE TypeOK'
  <2>1. run' \in [Runs -> Row]
    BY <1>10, <1>a DEF ClaimTerm, TypeOK, Row, Status, ActiveStatus, TerminalStatus
  <2> QED BY <1>10, <2>1 DEF ClaimTerm, TypeOK
<1>11. ASSUME NEW r \in Runs, StartAcknowledged(r) PROVE TypeOK'
  <2>1. [run[r] EXCEPT !.status = "QUEUED", !.ext = ack[r], !.due = FALSE] \in Row
    BY <1>11, <1>a, RowUpdates DEF StartAcknowledged, TypeOK, Status, TerminalStatus
  <2>2. run' \in [Runs -> Row]
    BY <1>11, <2>1 DEF StartAcknowledged, UpdateRow, TypeOK
  <2> QED BY <1>11, <2>2 DEF StartAcknowledged, TypeOK
<1>12. ASSUME NEW r \in Runs, StartResolvesFailure(r) PROVE TypeOK'
  <2>1. [run[r] EXCEPT !.status = "FAILED"] \in Row
    BY <1>12, <1>a, RowUpdates DEF StartResolvesFailure, TypeOK, Status, TerminalStatus
  <2>2. run' \in [Runs -> Row]
    BY <1>12, <2>1 DEF StartResolvesFailure, UpdateRow, TypeOK
  <2> QED BY <1>12, <2>2 DEF StartResolvesFailure, TypeOK
<1>13. ASSUME NEW r \in Runs, CancelLocally(r) PROVE TypeOK'
  <2>1. [run[r] EXCEPT !.status = "CANCELLED"] \in Row
    BY <1>13, <1>a, RowUpdates DEF CancelLocally, TypeOK, Status, TerminalStatus
  <2>2. run' \in [Runs -> Row]
    BY <1>13, <2>1 DEF CancelLocally, UpdateRow, TypeOK
  <2> QED BY <1>13, <2>2 DEF CancelLocally, TypeOK
<1>14. ASSUME NEW r \in Runs, CancelRecorded(r) PROVE TypeOK'
  <2>1. [run[r] EXCEPT !.status = canceller[r]] \in Row
    BY <1>14, <1>a, RowUpdates DEF CancelRecorded, TypeOK, Status, TerminalStatus
  <2>2. run' \in [Runs -> Row]
    BY <1>14, <2>1 DEF CancelRecorded, UpdateRow, TypeOK
  <2> QED BY <1>14, <2>2 DEF CancelRecorded, TypeOK
<1>15. ASSUME NEW r \in Runs, TimePasses(r) PROVE TypeOK'
  <2>1. run' \in [Runs -> Row]
    BY <1>15, <1>a, ZenonT(60) DEF TimePasses, TypeOK, Row, Status, ActiveStatus, TerminalStatus
  <2> QED BY <1>15, <2>1 DEF TimePasses, TypeOK
<1>16. ASSUME SolverRestarts PROVE TypeOK'
  BY <1>16, ConstantsAssumption DEF SolverRestarts, TypeOK, SolverStatus, Epochs
<1>17. ASSUME NEW p \in Pollers, ClaimDueRuns(p) PROVE TypeOK'
  <2>1. run' \in [Runs -> Row]
    BY <1>17, <1>a DEF ClaimDueRuns, TypeOK, Row
  <2>2. \A r \in Runs : Claimable(r) => SnapshotOf(r) \in Snapshot
    BY <1>a DEF SnapshotOf, Snapshot, Row
  <2>3. batch' \in [Pollers -> SUBSET Snapshot]
    BY <1>17, <2>2 DEF ClaimDueRuns, TypeOK
  <2> QED BY <1>17, <2>1, <2>3 DEF ClaimDueRuns, TypeOK
<1>b. Idle \in Job /\ Workers = Pollers \cup Watchers
  BY ConstantsAssumption DEF Idle, Job, Answers, Versions, Workers
<1>c. ASSUME NEW w \in Workers, NEW s \in Snapshot, Begin(w, s)
      PROVE  job' \in [Workers -> Job]
  <2>1. [Idle EXCEPT !.pc = "asking", !.run = s.run, !.mode = s.mode,
                     !.ext = s.ext, !.tries = s.tries] \in Job
    BY <1>b DEF Job, Snapshot
  <2> QED BY <1>c, <2>1 DEF Begin, TypeOK
<1>18. ASSUME NEW p \in Pollers, NEW r \in Runs, PollNext(p, r) PROVE TypeOK'
  <2>1. PICK s \in batch[p] :
          /\ batch' = [batch EXCEPT ![p] = @ \ {s}]
          /\ IF s.ext = None THEN UNCHANGED job ELSE Begin(p, s)
    BY <1>18 DEF PollNext
  <2>2. s \in Snapshot /\ p \in Workers
    BY <1>b DEF TypeOK
  <2>3. job' \in [Workers -> Job]
    BY <2>1, <2>2, <1>c DEF TypeOK
  <2> QED BY <1>18, <2>1, <2>3 DEF PollNext, TypeOK
<1>19. ASSUME NEW w \in Watchers, NEW r \in Runs, Watch(w, r) PROVE TypeOK'
  <2>1. SnapshotOf(r) \in Snapshot
    BY <1>a DEF SnapshotOf, Snapshot, Row
  <2>2. job' \in [Workers -> Job]
    BY <1>19, <2>1, <1>b, <1>c DEF Watch
  <2> QED BY <1>19, <2>2 DEF Watch, TypeOK
<1>g. ASSUME NEW w \in Workers
      PROVE  /\ \A x \in {"fetching", "updating"}, a \in Answers :
                   [job EXCEPT ![w] = [@ EXCEPT !.pc = x, !.ans = a]] \in [Workers -> Job]
             /\ \A got \in BOOLEAN :
                   [job EXCEPT ![w] = [@ EXCEPT !.pc = "updating", !.got = got]] \in [Workers -> Job]
             /\ \A v \in Versions :
                   [job EXCEPT ![w] = [@ EXCEPT !.pc = "allocated", !.version = v]] \in [Workers -> Job]
  BY JobUpdates DEF TypeOK
<1>20. ASSUME NEW w \in Workers, AskStatus(w) PROVE TypeOK'
  <2>1. job[w].run \in Runs /\ registry[job[w].run] \in Answers /\ "NOT_FOUND" \in Answers
    BY <1>20 DEF AskStatus, TypeOK, JobsOK, JobOK, Answers
  <2>2. PICK x \in {"fetching", "updating"}, a \in Answers :
          job' = [job EXCEPT ![w] = [@ EXCEPT !.pc = x, !.ans = a]]
    BY <1>20, <2>1 DEF AskStatus, Decide
  <2>3. job' \in [Workers -> Job]
    BY <1>g, <2>2
  <2> QED BY <1>20, <2>3 DEF AskStatus, JobUnchanged, TypeOK
<1>21. ASSUME NEW w \in Workers, FetchResult(w) PROVE TypeOK'
  <2>1. PICK got \in BOOLEAN : job' = [job EXCEPT ![w] = [@ EXCEPT !.pc = "updating", !.got = got]]
    BY <1>21 DEF FetchResult
  <2>2. job' \in [Workers -> Job]
    BY <1>g, <2>1
  <2> QED BY <1>21, <2>2 DEF FetchResult, JobUnchanged, TypeOK
<1>22. ASSUME NEW w \in Workers, AskResult(w) PROVE TypeOK'
  <2>1. CASE job' = [job EXCEPT ![w] = [@ EXCEPT !.pc = "updating", !.ans = "SUCCEEDED", !.got = TRUE]]
    <3>1. "SUCCEEDED" \in Answers /\ job[w] \in Job
      BY DEF Answers, SolverStatus, TerminalStatus, TypeOK
    <3>2. [job[w] EXCEPT !.pc = "updating", !.ans = "SUCCEEDED", !.got = TRUE] \in Job
      BY <3>1, JobUpdates
    <3>3. job' \in [Workers -> Job]
      BY <2>1, <3>2 DEF TypeOK
    <3> QED BY <1>22, <3>3 DEF AskResult, JobUnchanged, TypeOK
  <2>2. CASE Decide(w, "GIVE_UP")
    <3>1. job' \in [Workers -> Job]
      BY <2>2, <1>g DEF Decide, Answers
    <3> QED BY <1>22, <3>1 DEF AskResult, JobUnchanged, TypeOK
  <2> QED BY <1>22, <2>1, <2>2 DEF AskResult
<1>23. ASSUME NEW w \in Workers, SolverUnreachable(w) PROVE TypeOK'
  <2>1. CASE job' = [job EXCEPT ![w] = Idle]
    BY <1>23, <1>b, <2>1 DEF SolverUnreachable, JobUnchanged, TypeOK
  <2>2. CASE \E a \in {"GIVE_UP", "RETRY"} : Decide(w, a)
    <3>1. PICK a \in {"GIVE_UP", "RETRY"} : Decide(w, a)
      BY <2>2
    <3>2. a \in Answers
      BY DEF Answers
    <3>3. job' \in [Workers -> Job]
      BY <3>1, <3>2, <1>g DEF Decide
    <3> QED BY <1>23, <3>3 DEF SolverUnreachable, JobUnchanged, TypeOK
  <2> DEFINE a == IF job[w].tries + 1 >= MaxRecovery THEN "GIVE_UP" ELSE "RETRY"
  <2>3. a \in {"GIVE_UP", "RETRY"}
    OBVIOUS
  <2>4. job' = [job EXCEPT ![w] = Idle] \/ Decide(w, a)
    BY <1>23 DEF SolverUnreachable
  <2> HIDE DEF a
  <2> QED BY <2>1, <2>2, <2>3, <2>4
<1>24. ASSUME NEW w \in Workers, UpdateStatement(w) PROVE TypeOK'
  <2>1. job' \in [Workers -> Job]
    BY <1>24 DEF UpdateStatement, Goto, TypeOK, Job
  <2>2. rowLock' \in [Runs -> Workers \cup {None}]
    BY <1>24 DEF UpdateStatement, TypeOK
  <2> QED BY <1>24, <2>1, <2>2 DEF UpdateStatement, TypeOK
<1>25. ASSUME NEW w \in Workers, AllocateVersion(w) PROVE TypeOK'
  <2>1. job[w].run \in Runs /\ latest[TermOf[job[w].run]] + 1 \in Versions
    BY <1>25, ConstantsAssumption DEF AllocateVersion, TypeOK, JobsOK, JobOK, Versions
  <2>2. job' \in [Workers -> Job]
    BY <1>25, <1>g, <2>1 DEF AllocateVersion
  <2>3. versionLock' \in [Terms -> Workers \cup {None}]
    BY <1>25 DEF AllocateVersion, TypeOK
  <2> QED BY <1>25, <2>2, <2>3 DEF AllocateVersion, TypeOK
<1>d. ASSUME NEW w \in Workers, Release(w)
      PROVE  /\ rowLock' \in [Runs -> Workers \cup {None}]
             /\ versionLock' \in [Terms -> Workers \cup {None}]
  BY <1>d DEF Release, TypeOK
<1>e. ASSUME NEW w \in Workers, job' = [job EXCEPT ![w] = Idle]
      PROVE  job' \in [Workers -> Job]
  BY <1>e, <1>b DEF TypeOK
<1>f. ASSUME NEW w \in Workers, job[w].pc \in {"updating", "updated", "allocated"}
      PROVE  /\ job[w].run \in Runs
             /\ Written(job[w], run[job[w].run]) \in Row
  BY <1>f, <1>a, WrittenTyped DEF TypeOK, JobsOK, JobOK
<1>26. ASSUME NEW w \in Workers, CommitUpdate(w) PROVE TypeOK'
  <2>1. run' \in [Runs -> Row]
    BY <1>26, <1>f DEF CommitUpdate, TypeOK
  <2> QED BY <1>26, <1>d, <1>e, <2>1 DEF CommitUpdate, TypeOK
<1>27. ASSUME NEW w \in Workers, CommitWithGeneration(w) PROVE TypeOK'
  <2>1. job[w].version \in Versions
    BY DEF TypeOK, Job
  <2>2. [Written(job[w], run[job[w].run]) EXCEPT !.generation = job[w].version] \in Row
    BY <1>27, <1>f, <2>1, RowUpdates DEF CommitWithGeneration
  <2>3. run' \in [Runs -> Row]
    BY <1>27, <1>f, <2>2 DEF CommitWithGeneration, TypeOK
  <2>4. generations' \in [Runs -> SUBSET Versions] /\ latest' \in [Terms -> Versions]
    BY <1>27, <2>1 DEF CommitWithGeneration, TypeOK
  <2> QED BY <1>27, <1>d, <1>e, <2>3, <2>4 DEF CommitWithGeneration, TypeOK
<1>28. ASSUME NEW w \in Workers, Abort(w) PROVE TypeOK'
  BY <1>28, <1>d, <1>e DEF Abort, TypeOK
<1>29. ASSUME NEW p \in Pollers, PollerCrashes(p) PROVE TypeOK'
  <2>1. batch' \in [Pollers -> SUBSET Snapshot]
    BY <1>29 DEF PollerCrashes, TypeOK
  <2> QED BY <1>29, <1>b, <1>d, <1>e, <2>1 DEF PollerCrashes, TypeOK
<1> QED
  BY <1>1, <1>2, <1>3, <1>4, <1>5, <1>6, <1>7, <1>8, <1>9, <1>10, <1>11, <1>12, <1>13,
     <1>14, <1>15, <1>16, <1>17, <1>18, <1>19, <1>20, <1>21, <1>22, <1>23, <1>24, <1>25,
     <1>26, <1>27, <1>28, <1>29 DEF Next, Starting, Cancelling, Solving, Polling

\* Every step of a poll leaves its job in order.
LEMMA JobStep ==
    ASSUME TypeOK, JobsOK, BatchesOK, Next PROVE JobsOK'
<1> USE DEF rowVars, lockVars, startVars, solverVars
<1>a. Workers = Pollers \cup Watchers
  BY DEF Workers
<1>b. ASSUME NEW w \in Workers, NEW j, JobOK(j), job' = [job EXCEPT ![w] = j]
      PROVE  JobsOK'
  BY <1>b DEF JobsOK, TypeOK
<1>c. JobOK(Idle)
  BY ConstantsAssumption DEF JobOK, Idle
<1>d. ASSUME UNCHANGED job PROVE JobsOK'
  BY <1>d DEF JobsOK
<1>e. ASSUME NEW w \in Workers, NEW s, s.run \in Runs,
             s.mode = "recover" => s.tries < MaxRecovery, Begin(w, s)
      PROVE  JobsOK'
  <2> DEFINE j == [Idle EXCEPT !.pc = "asking", !.run = s.run, !.mode = s.mode,
                               !.ext = s.ext, !.tries = s.tries]
  <2>1. JobOK(j)
    BY <1>e DEF JobOK, Idle
  <2> QED BY <2>1, <1>b, <1>e DEF Begin
<1>1. ASSUME NEW r \in Runs, Starting(r) \/ Cancelling(r) \/ Solving(r) \/ TimePasses(r)
      PROVE  JobsOK'
  <2>1. UNCHANGED job
    BY <1>1 DEF Starting, Cancelling, Solving, TimePasses, ClaimTerm, StartRunAccepted,
       StartRunFails, StartAcknowledged, StartRejectedByIndex, StartResolvesFailure,
       StarterCrashes, CancelRead, CancelLocally, CancelRemotely, CancelAbandoned,
       CancelRecorded, SolverRuns, SolverFinishes
  <2> QED BY <2>1, <1>d
<1>2. ASSUME SolverRestarts PROVE JobsOK'
  BY <1>2, <1>d DEF SolverRestarts
<1>3. ASSUME NEW p \in Pollers, ClaimDueRuns(p) PROVE JobsOK'
  BY <1>3, <1>d DEF ClaimDueRuns
<1>4. ASSUME NEW p \in Pollers, PollerCrashes(p) PROVE JobsOK'
  BY <1>4, <1>a, <1>b, <1>c DEF PollerCrashes
<1>5. ASSUME NEW p \in Pollers, NEW r \in Runs, PollNext(p, r) PROVE JobsOK'
  <2>1. PICK s \in batch[p] : IF s.ext = None THEN UNCHANGED job ELSE Begin(p, s)
    BY <1>5 DEF PollNext
  <2>2. s.run \in Runs /\ (s.mode = "recover" => s.tries < MaxRecovery)
    BY DEF TypeOK, Snapshot, BatchesOK
  <2> QED BY <2>1, <2>2, <1>a, <1>d, <1>e
<1>6. ASSUME NEW w \in Watchers, NEW r \in Runs, Watch(w, r) PROVE JobsOK'
  BY <1>6, <1>a, <1>e DEF Watch, SnapshotOf
<1>7. ASSUME NEW w \in Workers, AskStatus(w) PROVE JobsOK'
  <2>1. PICK x \in {"fetching", "updating"}, a \in Answers :
          /\ job' = [job EXCEPT ![w] = [@ EXCEPT !.pc = x, !.ans = a]]
          /\ x = "fetching" => a \in TerminalStatus
          /\ x = "updating" => a \in {"QUEUED", "RUNNING", "NOT_FOUND"}
    BY <1>7 DEF AskStatus, Decide, Known, TypeOK, JobsOK, JobOK, Answers, SolverStatus
  <2>2. JobOK([job[w] EXCEPT !.pc = x, !.ans = a])
    BY <1>7, <2>1 DEF AskStatus, TypeOK, Job, JobsOK, JobOK, AnswerOK
  <2> QED BY <2>1, <2>2, <1>b
<1>8. ASSUME NEW w \in Workers, FetchResult(w) PROVE JobsOK'
  <2>1. PICK got \in BOOLEAN :
          job' = [job EXCEPT ![w] = [@ EXCEPT !.pc = "updating", !.got = got]]
    BY <1>8 DEF FetchResult
  <2>2. JobOK([job[w] EXCEPT !.pc = "updating", !.got = got])
    BY <1>8 DEF FetchResult, TypeOK, Job, JobsOK, JobOK, AnswerOK
  <2> QED BY <2>1, <2>2, <1>b
<1>9. ASSUME NEW w \in Workers, NEW a \in {"GIVE_UP", "RETRY"}, Decide(w, a),
             job[w].pc = "asking", job[w].mode = "recover"
      PROVE  JobsOK'
  <2>1. JobOK([job[w] EXCEPT !.pc = "updating", !.ans = a])
    BY <1>9 DEF TypeOK, Job, JobsOK, JobOK, AnswerOK
  <2> QED BY <1>9, <2>1, <1>b DEF Decide
<1>10. ASSUME NEW w \in Workers, AskResult(w) PROVE JobsOK'
  <2>1. JobOK([job[w] EXCEPT !.pc = "updating", !.ans = "SUCCEEDED", !.got = TRUE])
    BY <1>10 DEF AskResult, TypeOK, Job, JobsOK, JobOK, AnswerOK
  <2> QED BY <1>10, <2>1, <1>9, <1>b DEF AskResult
<1>11. ASSUME NEW w \in Workers, SolverUnreachable(w) PROVE JobsOK'
  <2> DEFINE a == IF job[w].tries + 1 >= MaxRecovery THEN "GIVE_UP" ELSE "RETRY"
  <2>1. a \in {"GIVE_UP", "RETRY"} /\ job[w].mode \in {"poll", "recover"}
    BY DEF TypeOK, Job
  <2>2. job' = [job EXCEPT ![w] = Idle] \/ (job[w].mode # "poll" /\ Decide(w, a))
    BY <1>11 DEF SolverUnreachable
  <2>3. job[w].pc = "asking"
    BY <1>11 DEF SolverUnreachable
  <2> HIDE DEF a
  <2> QED BY <2>1, <2>2, <2>3, <1>9, <1>b, <1>c
<1>12. ASSUME NEW w \in Workers, UpdateStatement(w) PROVE JobsOK'
  <2>1. JobOK([job[w] EXCEPT !.pc = "updated"])
    BY <1>12 DEF UpdateStatement, TypeOK, Job, JobsOK, JobOK, AnswerOK
  <2> QED BY <1>12, <2>1, <1>b DEF UpdateStatement, Goto
<1>13. ASSUME NEW w \in Workers, AllocateVersion(w) PROVE JobsOK'
  <2>1. \A v : JobOK([job[w] EXCEPT !.pc = "allocated", !.version = v])
    BY <1>13 DEF AllocateVersion, TypeOK, Job, JobsOK, JobOK, AnswerOK
  <2> QED BY <1>13, <2>1, <1>b DEF AllocateVersion
<1>14. ASSUME NEW w \in Workers, CommitUpdate(w) \/ CommitWithGeneration(w) \/ Abort(w)
       PROVE  JobsOK'
  BY <1>14, <1>b, <1>c DEF CommitUpdate, CommitWithGeneration, Abort
<1> QED
  BY <1>1, <1>2, <1>3, <1>4, <1>5, <1>6, <1>7, <1>8, <1>10, <1>11, <1>12, <1>13, <1>14
  DEF Next, Polling

\* What a sweep remembers of a row to recover leaves it an attempt to spend.
LEMMA BatchStep ==
    ASSUME TypeOK, BatchesOK, Next PROVE BatchesOK'
<1> USE DEF rowVars, lockVars, startVars, solverVars
<1>a. ASSUME UNCHANGED batch PROVE BatchesOK'
  BY <1>a DEF BatchesOK
<1>1. ASSUME NEW r \in Runs, Starting(r) \/ Cancelling(r) \/ Solving(r) \/ TimePasses(r)
      PROVE  BatchesOK'
  <2>1. UNCHANGED batch
    BY <1>1 DEF Starting, Cancelling, Solving, TimePasses, ClaimTerm, StartRunAccepted,
       StartRunFails, StartAcknowledged, StartRejectedByIndex, StartResolvesFailure,
       StarterCrashes, CancelRead, CancelLocally, CancelRemotely, CancelAbandoned,
       CancelRecorded, SolverRuns, SolverFinishes
  <2> QED BY <2>1, <1>a
<1>2. ASSUME SolverRestarts PROVE BatchesOK'
  BY <1>2, <1>a DEF SolverRestarts
<1>3. ASSUME NEW p \in Pollers, ClaimDueRuns(p) PROVE BatchesOK'
  <2>1. \A r \in Runs : Claimable(r) /\ SnapshotOf(r).mode = "recover" =>
                          SnapshotOf(r).tries < MaxRecovery
    BY ConstantsAssumption DEF Claimable, SnapshotOf, NeedsRecovery
  <2> QED BY <1>3, <2>1 DEF ClaimDueRuns, BatchesOK, TypeOK
<1>4. ASSUME NEW p \in Pollers, PollerCrashes(p) PROVE BatchesOK'
  BY <1>4 DEF PollerCrashes, BatchesOK, TypeOK
<1>5. ASSUME NEW p \in Pollers, NEW r \in Runs, PollNext(p, r) PROVE BatchesOK'
  BY <1>5 DEF PollNext, BatchesOK, TypeOK
<1>6. ASSUME NEW w \in Watchers, NEW r \in Runs, Watch(w, r) PROVE BatchesOK'
  BY <1>6, <1>a DEF Watch
<1>7. ASSUME NEW w \in Workers, Polling(w) PROVE BatchesOK'
  <2>1. UNCHANGED batch
    BY <1>7 DEF Polling, AskStatus, FetchResult, AskResult, SolverUnreachable, JobUnchanged,
       UpdateStatement, AllocateVersion, CommitUpdate, CommitWithGeneration, Abort
  <2> QED BY <2>1, <1>a
<1> QED BY <1>1, <1>2, <1>3, <1>4, <1>5, <1>6, <1>7 DEF Next

-----------------------------------------------------------------------------
\* A step of a job that holds no lock, by a worker that takes none.
Lockless(w) ==
    /\ UNCHANGED rowLock
    /\ job[w].pc \notin {"updated", "allocated"}
    /\ \E j : j.pc \notin {"updated", "allocated"} /\ job' = [job EXCEPT ![w] = j]

\* The steps of Next, as far as locks and rows go: those that write one row
\* without holding it, those that move time stamps, those of workers without
\* a lock, and the steps of the polling transaction itself.
LEMMA Footprints ==
    ASSUME TypeOK, JobsOK, Next
    PROVE  \/ UNCHANGED <<run, job, rowLock>>
           \/ \E r \in Runs : ClaimTerm(r) \/ StartAcknowledged(r)
           \/ \E r \in Runs : StartResolvesFailure(r) \/ CancelLocally(r) \/ CancelRecorded(r)
           \/ /\ UNCHANGED <<job, rowLock>>
              /\ \E S \in SUBSET Runs, b \in BOOLEAN :
                   run' = [r \in Runs |-> IF r \in S THEN [run[r] EXCEPT !.due = b] ELSE run[r]]
           \/ \E w \in Workers : Lockless(w) /\ UNCHANGED run
           \/ \E w \in Workers : \/ UpdateStatement(w) \/ AllocateVersion(w)
                                 \/ CommitUpdate(w) \/ CommitWithGeneration(w)
           \/ \E w \in Workers : job' = [job EXCEPT ![w] = Idle] /\ Release(w) /\ UNCHANGED run
<1> USE DEF rowVars, lockVars, startVars, solverVars
<1>a. Workers = Pollers \cup Watchers /\ Idle.pc = "idle"
  BY DEF Workers, Idle
<1>1. ASSUME NEW r \in Runs, \/ StartRunAccepted(r) \/ StartRunFails(r)
             \/ StartRejectedByIndex(r) \/ StarterCrashes(r) \/ CancelRead(r)
             \/ CancelRemotely(r) \/ CancelAbandoned(r) \/ Solving(r)
      PROVE  UNCHANGED <<run, job, rowLock>>
  BY <1>1 DEF StartRunAccepted, StartRunFails, StartRejectedByIndex, StarterCrashes, CancelRead,
     CancelRemotely, CancelAbandoned, Solving, SolverRuns, SolverFinishes
<1>2. ASSUME NEW r \in Runs, TimePasses(r)
      PROVE  /\ UNCHANGED <<job, rowLock>>
             /\ \E S \in SUBSET Runs, b \in BOOLEAN :
                  run' = [q \in Runs |-> IF q \in S THEN [run[q] EXCEPT !.due = b] ELSE run[q]]
  <2>1. run' = [q \in Runs |-> IF q \in {r} THEN [run[q] EXCEPT !.due = TRUE] ELSE run[q]]
    BY <1>2 DEF TimePasses, TypeOK
  <2> QED BY <1>2, <2>1 DEF TimePasses
<1>3. ASSUME SolverRestarts PROVE UNCHANGED <<run, job, rowLock>>
  BY <1>3 DEF SolverRestarts
<1>4. ASSUME NEW p \in Pollers, ClaimDueRuns(p)
      PROVE  /\ UNCHANGED <<job, rowLock>>
             /\ \E S \in SUBSET Runs, b \in BOOLEAN :
                  run' = [q \in Runs |-> IF q \in S THEN [run[q] EXCEPT !.due = b] ELSE run[q]]
  <2> DEFINE S == {r \in Runs : Claimable(r)}
  <2>1. run' = [q \in Runs |-> IF q \in S THEN [run[q] EXCEPT !.due = FALSE] ELSE run[q]]
    BY <1>4 DEF ClaimDueRuns
  <2>2. S \in SUBSET Runs
    OBVIOUS
  <2> HIDE DEF S
  <2> QED BY <1>4, <2>1, <2>2 DEF ClaimDueRuns
<1>5. ASSUME NEW p \in Pollers, PollerCrashes(p)
      PROVE  job' = [job EXCEPT ![p] = Idle] /\ Release(p) /\ UNCHANGED run
  BY <1>5 DEF PollerCrashes
<1>6. ASSUME NEW w \in Workers, NEW s, job[w].pc = "idle", Begin(w, s),
             UNCHANGED <<run, rowLock>>
      PROVE  Lockless(w)
  BY <1>6 DEF Begin, Lockless, Idle
<1>7. ASSUME NEW p \in Pollers, NEW r \in Runs, PollNext(p, r)
      PROVE  UNCHANGED <<run, job, rowLock>> \/ (Lockless(p) /\ UNCHANGED run)
  <2>1. PICK s \in batch[p] : IF s.ext = None THEN UNCHANGED job ELSE Begin(p, s)
    BY <1>7 DEF PollNext
  <2>2. job[p].pc = "idle" /\ UNCHANGED <<run, rowLock>>
    BY <1>7 DEF PollNext
  <2> QED BY <2>1, <2>2, <1>6, <1>a
<1>8. ASSUME NEW w \in Watchers, NEW r \in Runs, Watch(w, r)
      PROVE  Lockless(w) /\ UNCHANGED run
  <2>1. job[w].pc = "idle" /\ UNCHANGED <<run, rowLock>> /\ Begin(w, SnapshotOf(r))
    BY <1>8 DEF Watch
  <2> QED BY <2>1, <1>6, <1>a
<1>9. ASSUME NEW w \in Workers, AskStatus(w) \/ FetchResult(w) \/ AskResult(w) \/ SolverUnreachable(w)
      PROVE  Lockless(w) /\ UNCHANGED run
  <2>1. UNCHANGED <<run, rowLock>> /\ job[w].pc \notin {"updated", "allocated"}
    BY <1>9 DEF AskStatus, FetchResult, AskResult, SolverUnreachable, JobUnchanged
  <2>2. \E j : j.pc \notin {"updated", "allocated"} /\ job' = [job EXCEPT ![w] = j]
    <3>1. ASSUME NEW a, Decide(w, a)
          PROVE  \E j : j.pc \notin {"updated", "allocated"} /\ job' = [job EXCEPT ![w] = j]
      <4> WITNESS [job[w] EXCEPT !.pc = "updating", !.ans = a]
      <4> QED BY <3>1 DEF Decide, TypeOK, Job
    <3>2. ASSUME NEW j, j.pc \in {"fetching", "updating", "idle"}, job' = [job EXCEPT ![w] = j]
          PROVE  \E k : k.pc \notin {"updated", "allocated"} /\ job' = [job EXCEPT ![w] = k]
      BY <3>2
    <3>3. job[w] \in Job
      BY DEF TypeOK
    <3>4. \A a, g : \A x \in {"fetching", "updating"} :
            /\ [job[w] EXCEPT !.pc = x, !.ans = a].pc = x
            /\ [job[w] EXCEPT !.pc = x, !.got = g].pc = x
            /\ [job[w] EXCEPT !.pc = x, !.ans = a, !.got = g].pc = x
      BY <3>3 DEF Job
    <3>5. CASE AskStatus(w)
      <4>1. CASE \E a : Decide(w, a)
        BY <4>1, <3>1
      <4>2. CASE \E a : job' = [job EXCEPT ![w] = [@ EXCEPT !.pc = "fetching", !.ans = a]]
        <5>1. PICK a : job' = [job EXCEPT ![w] = [@ EXCEPT !.pc = "fetching", !.ans = a]]
          BY <4>2
        <5>2. [job[w] EXCEPT !.pc = "fetching", !.ans = a].pc = "fetching"
          BY <3>4
        <5> QED BY <5>1, <5>2
      <4> QED BY <3>5, <4>1, <4>2 DEF AskStatus
    <3>6. CASE FetchResult(w)
      <4>1. PICK g : job' = [job EXCEPT ![w] = [@ EXCEPT !.pc = "updating", !.got = g]]
        BY <3>6 DEF FetchResult
      <4>2. [job[w] EXCEPT !.pc = "updating", !.got = g].pc = "updating"
        BY <3>4
      <4> QED BY <4>1, <4>2
    <3>7. CASE AskResult(w)
      <4>1. CASE job' = [job EXCEPT ![w] = [@ EXCEPT !.pc = "updating", !.ans = "SUCCEEDED", !.got = TRUE]]
        <5>1. [job[w] EXCEPT !.pc = "updating", !.ans = "SUCCEEDED", !.got = TRUE].pc = "updating"
          BY <3>4
        <5> QED BY <4>1, <5>1
      <4> QED BY <3>7, <3>1, <4>1 DEF AskResult
    <3>8. CASE SolverUnreachable(w)
      <4> QED BY <3>8, <3>1, <3>2, <1>a DEF SolverUnreachable
    <3> QED BY <1>9, <3>5, <3>6, <3>7, <3>8
  <2> QED BY <2>1, <2>2 DEF Lockless
<1>10. ASSUME NEW w \in Workers, Abort(w)
       PROVE  job' = [job EXCEPT ![w] = Idle] /\ Release(w) /\ UNCHANGED run
  BY <1>10 DEF Abort
<1> QED
  BY <1>a, <1>1, <1>2, <1>3, <1>4, <1>5, <1>7, <1>8, <1>9, <1>10
  DEF Next, Starting, Cancelling, Polling

\* Ending a transaction gives back its locks; nobody else's are touched.
LEMMA LocksReleased ==
    ASSUME TypeOK, JobsOK, LocksHeld, NEW w \in Workers,
           job' = [job EXCEPT ![w] = Idle], Release(w)
    PROVE  /\ LocksHeld'
           /\ \A r \in Runs : rowLock[r] # w => rowLock'[r] = rowLock[r]
           /\ \A r \in Runs : rowLock[r] = w => rowLock'[r] = None
<1>1. None \notin Workers /\ Idle.pc = "idle"
  BY ConstantsAssumption DEF Workers, Idle
<1>2. \A r \in Runs : rowLock'[r] = IF rowLock[r] = w THEN None ELSE rowLock[r]
  BY DEF Release
<1>3. job'[w] = Idle /\ \A v \in Workers \ {w} : job'[v] = job[v]
  BY DEF TypeOK
<1>4. \A v \in Workers : job[v].pc \in {"updated", "allocated"} => job[v].run \in Runs
  BY DEF JobsOK, JobOK
<1>5. ASSUME NEW v \in Workers, job'[v].pc \in {"updated", "allocated"}
      PROVE  rowLock'[job'[v].run] = v
  BY <1>1, <1>2, <1>3, <1>4, <1>5 DEF LocksHeld
<1>6. ASSUME NEW r \in Runs, rowLock'[r] # None
      PROVE  job'[rowLock'[r]].pc \in {"updated", "allocated"} /\ job'[rowLock'[r]].run = r
  <2>1. rowLock'[r] = rowLock[r] /\ rowLock[r] \in Workers \ {w}
    BY <1>2, <1>6 DEF TypeOK
  <2>2. job[rowLock[r]].pc \in {"updated", "allocated"} /\ job[rowLock[r]].run = r
    BY <1>6, <2>1 DEF LocksHeld
  <2> QED BY <1>3, <2>1, <2>2
<1> QED BY <1>1, <1>2, <1>5, <1>6 DEF LocksHeld

\* A worker without a lock changes nothing for the transactions that are open.
LEMMA LocklessKeepsLocks ==
    ASSUME TypeOK, LocksHeld, NEW w \in Workers, Lockless(w)
    PROVE  /\ LocksHeld'
           /\ \A r \in Runs : rowLock[r] # None => job'[rowLock[r]] = job[rowLock[r]]
  BY DEF Lockless, LocksHeld, TypeOK

\* Locks stay in step with the transactions that took them, whoever moves.
LEMMA LocksStep ==
    ASSUME TypeOK, JobsOK, LocksHeld, Next PROVE LocksHeld'
<1> USE DEF rowVars, lockVars, startVars, solverVars
<1>1. CASE UNCHANGED <<job, rowLock>>
  BY <1>1 DEF LocksHeld
<1>2. ASSUME NEW r \in Runs, \/ ClaimTerm(r) \/ StartAcknowledged(r)
             \/ StartResolvesFailure(r) \/ CancelLocally(r) \/ CancelRecorded(r)
      PROVE  LocksHeld'
  <2>1. UNCHANGED <<job, rowLock>>
    BY <1>2 DEF ClaimTerm, StartAcknowledged, StartResolvesFailure, CancelLocally, CancelRecorded
  <2> QED BY <2>1, <1>1
<1>3. ASSUME NEW w \in Workers, UpdateStatement(w) PROVE LocksHeld'
  <2>1. job[w].run \in Runs /\ rowLock[job[w].run] = None
    BY <1>3 DEF UpdateStatement, JobsOK, JobOK
  <2>2. job' = [job EXCEPT ![w].pc = "updated"] /\ rowLock' = [rowLock EXCEPT ![job[w].run] = w]
    BY <1>3 DEF UpdateStatement, Goto
  <2>3. /\ job'[w].pc = "updated" /\ job'[w].run = job[w].run
        /\ \A v \in Workers \ {w} : job'[v] = job[v]
    BY <2>2 DEF TypeOK, Job
  <2>4. \A r \in Runs : rowLock[r] # w
    BY <1>3, ConstantsAssumption DEF UpdateStatement, LocksHeld, Workers
  <2>5. \A v \in Workers : job[v].pc \in {"updated", "allocated"} =>
                             job[v].run \in Runs /\ job[v].run # job[w].run
    BY <2>1, ConstantsAssumption DEF JobsOK, JobOK, LocksHeld, Workers
  <2>6. /\ rowLock'[job[w].run] = w
        /\ \A r \in Runs : r # job[w].run => rowLock'[r] = rowLock[r]
    BY <2>1, <2>2 DEF TypeOK
  <2>7. ASSUME NEW v \in Workers, job'[v].pc \in {"updated", "allocated"}
        PROVE  rowLock'[job'[v].run] = v
    BY <2>3, <2>5, <2>6, <2>7 DEF LocksHeld
  <2>8. ASSUME NEW r \in Runs, rowLock'[r] # None
        PROVE  job'[rowLock'[r]].pc \in {"updated", "allocated"} /\ job'[rowLock'[r]].run = r
    <3>1. CASE r = job[w].run
      BY <2>3, <2>6, <3>1
    <3>2. CASE r # job[w].run
      <4>1. rowLock'[r] = rowLock[r] /\ rowLock[r] \in Workers \ {w}
        BY <2>4, <2>6, <2>8, <3>2 DEF TypeOK
      <4> QED BY <2>3, <2>8, <4>1 DEF LocksHeld
    <3> QED BY <3>1, <3>2
  <2> QED BY <2>7, <2>8 DEF LocksHeld
<1>4. ASSUME NEW w \in Workers, AllocateVersion(w) PROVE LocksHeld'
  <2>1. job[w].pc = "updated" /\ UNCHANGED rowLock
    BY <1>4 DEF AllocateVersion
  <2>2. /\ job'[w].pc = "allocated" /\ job'[w].run = job[w].run
        /\ \A v \in Workers \ {w} : job'[v] = job[v]
    BY <1>4 DEF AllocateVersion, TypeOK, Job
  <2> QED BY <2>1, <2>2 DEF LocksHeld, TypeOK
<1>5. ASSUME NEW w \in Workers, CommitUpdate(w) \/ CommitWithGeneration(w) PROVE LocksHeld'
  BY <1>5, LocksReleased DEF CommitUpdate, CommitWithGeneration
<1> QED BY <1>1, <1>2, <1>3, <1>4, <1>5, Footprints, LocksReleased, LocklessKeepsLocks

-----------------------------------------------------------------------------
\* No step puts a second run into an occupied term: inserts and statements
\* that make a row active wait for every open transaction that could disagree.
LEMMA TermsStep ==
    ASSUME TypeOK, JobsOK, LocksHeld, TermsExclusive, Next PROVE TermsExclusive'
<1> USE DEF rowVars, lockVars, startVars, solverVars
<1>a. ASSUME \A r \in Runs : Occupies(r)' => Occupies(r)
      PROVE  TermsExclusive'
  BY <1>a DEF TermsExclusive
<1>b. ASSUME NEW q \in Runs, \A s \in Siblings(q) : ~Occupies(s),
             \A r \in Runs : Occupies(r)' => Occupies(r) \/ r = q
      PROVE  TermsExclusive'
  BY <1>b DEF TermsExclusive, Siblings
<1>c. ASSUME NEW q \in Runs, IndexReady(q), ~IndexRejects(q)
      PROVE  \A s \in Siblings(q) : ~Occupies(s)
  BY <1>c DEF IndexReady, IndexRejects, Occupies
<1>1. CASE UNCHANGED <<run, job, rowLock>>
  BY <1>1, <1>a DEF Occupies, Active, BecomesActive
<1>2. ASSUME NEW q \in Runs, UNCHANGED <<job, rowLock>>, rowLock[q] = None,
             \A r \in Runs \ {q} : run'[r] = run[r]
      PROVE  \A r \in Runs : Occupies(r)' => Occupies(r) \/ (r = q /\ Active(q)')
  <2>1. ASSUME NEW r \in Runs, Occupies(r)', r # q PROVE Occupies(r)
    <3>1. rowLock[r] # None => job[rowLock[r]].run = r
      BY DEF LocksHeld
    <3> QED BY <1>2, <2>1, <3>1 DEF Occupies, Active, BecomesActive
  <2> QED BY <1>2, <2>1 DEF Occupies, Active
<1>3. ASSUME NEW q \in Runs, ClaimTerm(q) \/ StartAcknowledged(q) PROVE TermsExclusive'
  <2>1. UNCHANGED <<job, rowLock>> /\ \A r \in Runs \ {q} : run'[r] = run[r]
    BY <1>3 DEF ClaimTerm, StartAcknowledged, UpdateRow, TypeOK
  <2>2. Active(q) \/ (IndexReady(q) /\ ~IndexRejects(q))
    BY <1>3 DEF ClaimTerm, StartAcknowledged
  <2>3. \A r \in Runs : Occupies(r)' => Occupies(r) \/ r = q
    <3>1. ASSUME NEW r \in Runs, Occupies(r)', r # q PROVE Occupies(r)
      <4>1. rowLock[r] # None => job[rowLock[r]].run = r
        BY DEF LocksHeld
      <4> QED BY <2>1, <3>1, <4>1 DEF Occupies, Active, BecomesActive
    <3> QED BY <3>1
  <2>4. CASE Active(q)
    BY <2>3, <2>4, <1>a DEF Occupies
  <2> QED BY <2>2, <2>3, <2>4, <1>b, <1>c
<1>4. ASSUME NEW q \in Runs, StartResolvesFailure(q) \/ CancelLocally(q) \/ CancelRecorded(q)
      PROVE  TermsExclusive'
  <2>1. UNCHANGED <<job, rowLock>> /\ rowLock[q] = None /\ \A r \in Runs \ {q} : run'[r] = run[r]
    BY <1>4 DEF StartResolvesFailure, CancelLocally, CancelRecorded, UpdateRow, TypeOK
  <2>2. run'[q].status \in TerminalStatus
    BY <1>4 DEF StartResolvesFailure, CancelLocally, CancelRecorded, UpdateRow, TypeOK, Row,
       TerminalStatus
  <2>3. ~Active(q)'
    BY <2>2 DEF Active, TerminalStatus, ActiveStatus
  <2> QED BY <2>1, <2>3, <1>2, <1>a
<1>5. ASSUME UNCHANGED <<job, rowLock>>, NEW S \in SUBSET Runs, NEW b \in BOOLEAN,
             run' = [r \in Runs |-> IF r \in S THEN [run[r] EXCEPT !.due = b] ELSE run[r]]
      PROVE  TermsExclusive'
  <2>1. \A r \in Runs : run'[r].status = run[r].status
    BY <1>5 DEF TypeOK, Row
  <2>2. \A j : j.run \in Runs => (BecomesActive(j)' <=> BecomesActive(j))
    BY <2>1 DEF BecomesActive, Written
  <2> QED BY <1>5, <1>a, <2>1, <2>2 DEF Occupies, Active, LocksHeld
<1>6. ASSUME NEW w \in Workers, Lockless(w), UNCHANGED run PROVE TermsExclusive'
  BY <1>6, <1>a, LocklessKeepsLocks DEF Occupies, Active, BecomesActive, Lockless
<1>7. ASSUME NEW w \in Workers, UpdateStatement(w) PROVE TermsExclusive'
  <2>0. PICK q \in Runs : q = job[w].run
    BY <1>7 DEF UpdateStatement, JobsOK, JobOK
  <2>1. q \in Runs /\ rowLock[q] = None /\ UNCHANGED run
    BY <1>7, <2>0 DEF UpdateStatement
  <2>2. rowLock' = [rowLock EXCEPT ![q] = w] /\ job' = [job EXCEPT ![w].pc = "updated"]
    BY <1>7, <2>0 DEF UpdateStatement, Goto
  <2>3. /\ rowLock'[q] = w
        /\ \A r \in Runs \ {q} : rowLock'[r] = rowLock[r] /\ rowLock[r] # w
    BY <1>7, <2>1, <2>2, ConstantsAssumption DEF UpdateStatement, LocksHeld, Workers, TypeOK
  <2>4. /\ \A v \in Workers \ {w} : job'[v] = job[v]
        /\ job'[w].run = q /\ job'[w].mode = job[w].mode /\ job'[w].ans = job[w].ans
    BY <2>0, <2>2 DEF TypeOK, Job
  <2>5. BecomesActive(job[w])' => BecomesActive(job[w])
    BY <2>0, <2>1, <2>4 DEF BecomesActive, Written
  <2>6. \A r \in Runs : Occupies(r)' => Occupies(r) \/ r = q
    BY <2>1, <2>3, <2>4 DEF Occupies, Active, BecomesActive, Written, TypeOK
  <2>7. CASE Active(q)
    BY <2>6, <2>7, <1>a DEF Occupies
  <2>8. CASE ~Active(q) /\ BecomesActive(job[w])
    <3>1. IndexReady(q) /\ ~IndexRejects(q)
      BY <1>7, <2>0, <2>8 DEF UpdateStatement
    <3> QED BY <2>1, <2>6, <3>1, <1>b, <1>c
  <2>9. CASE ~Active(q) /\ ~BecomesActive(job[w])
    <3>1. ~Occupies(q)'
      BY <2>0, <2>1, <2>3, <2>4, <2>9 DEF Occupies, Active, BecomesActive, Written
    <3> QED BY <2>6, <3>1, <1>a
  <2> QED BY <2>7, <2>8, <2>9
<1>8. ASSUME NEW w \in Workers, AllocateVersion(w) PROVE TermsExclusive'
  <2>1. UNCHANGED <<run, rowLock>>
    BY <1>8 DEF AllocateVersion
  <2>2. /\ \A v \in Workers \ {w} : job'[v] = job[v]
        /\ job'[w].run = job[w].run /\ job'[w].mode = job[w].mode /\ job'[w].ans = job[w].ans
    BY <1>8 DEF AllocateVersion, TypeOK, Job
  <2>3. \A r \in Runs : Occupies(r)' => Occupies(r)
    BY <2>1, <2>2 DEF Occupies, Active, BecomesActive, Written, TypeOK
  <2> QED BY <2>3, <1>a
<1>9. ASSUME NEW w \in Workers, CommitUpdate(w) \/ CommitWithGeneration(w) PROVE TermsExclusive'
  <2>0. PICK q \in Runs : q = job[w].run
    BY <1>9 DEF CommitUpdate, CommitWithGeneration, JobsOK, JobOK
  <2>1. q \in Runs /\ rowLock[q] = w /\ Release(w) /\ job' = [job EXCEPT ![w] = Idle]
    BY <1>9, <2>0 DEF CommitUpdate, CommitWithGeneration, LocksHeld
  <2>2. /\ run'[q].status = Written(job[w], run[q]).status
        /\ \A r \in Runs \ {q} : run'[r] = run[r]
    BY <1>9, <2>0 DEF CommitUpdate, CommitWithGeneration, Written, TypeOK
  <2>3. rowLock'[q] = None /\ \A r \in Runs : rowLock[r] # w => rowLock'[r] = rowLock[r]
    BY <2>1, LocksReleased
  <2>4. \A r \in Runs \ {q} : rowLock[r] # w
    BY <2>1, ConstantsAssumption DEF LocksHeld, Workers
  <2>5. w # None /\ \A v \in Workers \ {w} : job'[v] = job[v]
    BY <2>1, ConstantsAssumption DEF TypeOK, Workers
  <2>6. Occupies(q)' => Occupies(q)
    BY <2>0, <2>1, <2>2, <2>3, <2>5 DEF Occupies, Active, BecomesActive
  <2>7. ASSUME NEW r \in Runs, r # q, Occupies(r)' PROVE Occupies(r)
    <3>1. rowLock[r] # None => rowLock[r] \in Workers \ {w} /\ job[rowLock[r]].run = r
      BY <2>4, <2>7 DEF LocksHeld, TypeOK
    <3>2. rowLock'[r] = rowLock[r] /\ run'[r] = run[r]
      BY <2>2, <2>3, <2>4, <2>7
    <3> QED BY <2>5, <2>7, <3>1, <3>2 DEF Occupies, Active, BecomesActive
  <2> QED BY <2>6, <2>7, <1>a
<1>10. ASSUME NEW w \in Workers, job' = [job EXCEPT ![w] = Idle], Release(w), UNCHANGED run
       PROVE  TermsExclusive'
  <2>1. \A v \in Workers \ {w} : job'[v] = job[v]
    BY <1>10 DEF TypeOK
  <2>2. ASSUME NEW r \in Runs, Occupies(r)' PROVE Occupies(r)
    <3>1. rowLock'[r] # None => rowLock'[r] = rowLock[r] /\ rowLock[r] \in Workers \ {w}
      BY <1>10, LocksReleased DEF TypeOK
    <3> QED BY <1>10, <2>1, <2>2, <3>1 DEF Occupies, Active, BecomesActive
  <2> QED BY <2>2, <1>a
<1> QED BY <1>1, <1>3, <1>4, <1>5, <1>6, <1>7, <1>8, <1>9, <1>10, Footprints

-----------------------------------------------------------------------------
\* Nothing is running, locked or claimed at first.
LEMMA InvInit == ASSUME Init PROVE Inv
<1> USE ConstantsAssumption
<1>1. NoRow \in Row /\ Idle \in Job
  BY DEF NoRow, Row, Status, Versions, Idle, Job, Answers, Epochs
<1>2. TypeOK
  BY <1>1 DEF Init, TypeOK, Versions, SolverStatus, Epochs
<1>3. JobsOK /\ BatchesOK
  BY DEF Init, JobsOK, JobOK, BatchesOK, Idle
<1>4. LocksHeld
  BY DEF Init, LocksHeld, Idle
<1>5. TermsExclusive
  BY DEF Init, TermsExclusive, Occupies, Active, NoRow, ActiveStatus
<1> QED BY <1>2, <1>3, <1>4, <1>5 DEF Inv

\* The invariant is inductive.
LEMMA InvStep == ASSUME Inv, [Next]_vars PROVE Inv'
<1>1. CASE Next
  BY <1>1, TypeStep, JobStep, BatchStep, LocksStep, TermsStep DEF Inv
<1>2. CASE UNCHANGED vars
  BY <1>2 DEF Inv, vars, TypeOK, JobsOK, BatchesOK, LocksHeld, TermsExclusive, Occupies, Active,
     BecomesActive
<1> QED BY <1>1, <1>2

\* It holds in every reachable state, for all values of the constants.
THEOREM Invariance == Spec => []Inv
<1>1. Init => Inv
  BY InvInit
<1>2. Inv /\ [Next]_vars => Inv'
  BY InvStep
<1> QED BY <1>1, <1>2, PTL DEF Spec

\* Every variable keeps its type: whatever order handlers, pollers and the
\* solver run in, only known statuses and bounded attempts are ever stored.
THEOREM TypeCorrect == Spec => []TypeOK
<1>1. Inv => TypeOK
  BY DEF Inv
<1> QED BY <1>1, Invariance, PTL

\* For any number of runs, pollers and watchers, no term ever has two runs
\* that are pending, queued or running.
THEOREM ActiveRunIsUnique == Spec => []OneActiveRunPerTerm
<1>1. Inv => OneActiveRunPerTerm
  BY DEF Inv, TermsExclusive, Occupies, OneActiveRunPerTerm
<1> QED BY <1>1, Invariance, PTL

-----------------------------------------------------------------------------
(***************************************************************************)
(* What becomes of a run                                                   *)
(***************************************************************************)
\* The solver knows a run only after its StartRun call was answered, and so
\* registers it once.
RegisteredOnce == \A r \in Runs :
    registry[r] # "absent" => starter[r] \notin {"ready", "calling"}

\* An external id was given out by this solver process or an earlier one.
Issued == 0..epoch \cup {None}

IdsIssued ==
    /\ \A r \in Runs : run[r].ext \in Issued /\ ack[r] \in Issued
    /\ \A p \in Pollers : \A s \in batch[p] : s.ext \in Issued
    /\ \A w \in Workers : job[w].ext \in Issued

\* The solver has finished r with a result, now or before it was restarted.
Succeeded(r) ==
    /\ registry[r] \in {"SUCCEEDED", "absent"}
    /\ starter[r] \notin {"ready", "calling"}

\* What the answer of a job means: a terminal status is still the solver's
\* while it remembers the run, a result came with SUCCEEDED, and a recovery
\* that may not try again has an end to record.
AnswerHolds(j) ==
    /\ j.pc = "fetching" => ~j.got /\ (j.ext = epoch => registry[j.run] = j.ans)
    /\ j.pc = "asking" => ~j.got
    /\ j.got => j.pc \in {"updating", "updated", "allocated"} /\ j.ans = "SUCCEEDED"
                /\ Succeeded(j.run)
    /\ j.pc \in {"updating", "updated", "allocated"} /\ j.mode = "recover" =>
         /\ j.ans = "RETRY" => j.tries + 1 < MaxRecovery
         /\ j.ans = "SUCCEEDED" => j.got

AnswersHold == \A w \in Workers : AnswerHolds(job[w])

SuccessesStand == \A r \in Runs : generations[r] # {} => Succeeded(r)

\* A version was allocated for a run that has none, under the lock of its
\* term's versions, and is still the next one.
VersionsHeld == \A w \in Workers : job[w].pc = "allocated" =>
    /\ versionLock[TermOf[job[w].run]] = w
    /\ job[w].version = latest[TermOf[job[w].run]] + 1
    /\ job[w].got /\ run[job[w].run].generation = 0

\* Only a run that was created is cancelled, claimed or polled.
Named ==
    /\ \A r \in Runs : starter[r] = "ready" <=> run[r].status = "NONE"
    /\ \A r \in Runs : canceller[r] # "none" => run[r].status # "NONE"
    /\ \A p \in Pollers : \A s \in batch[p] : run[s.run].status # "NONE"
    /\ \A w \in Workers : job[w].pc # "idle" => run[job[w].run].status # "NONE"

Outcome == /\ RegisteredOnce /\ IdsIssued /\ AnswersHold /\ SuccessesStand
           /\ VersionsHeld /\ Named /\ ResultIsProposedOnce /\ VersionSeries
           /\ ExhaustedIsDecided

-----------------------------------------------------------------------------
(***************************************************************************)
(* What a step may do to one row, one job, the versions and the solver     *)
(***************************************************************************)
\* A step leaves a row as it is but for its lease.
Kept(r) ==
    /\ run'[r].status = run[r].status /\ run'[r].ext = run[r].ext
    /\ run'[r].result = run[r].result /\ run'[r].attempts = run[r].attempts
    /\ run'[r].lost = run[r].lost /\ run'[r].generation = run[r].generation

\* Who writes the row of a run: a handler of that run, or a poll of that run that
\* commits. Claims and releases of leases touch the lease alone.
LEMMA RowSteps ==
    ASSUME TypeOK, JobsOK, Next, NEW r \in Runs
    PROVE  \/ Kept(r)
           \/ ClaimTerm(r)
           \/ StartAcknowledged(r)
           \/ StartResolvesFailure(r) \/ CancelLocally(r) \/ CancelRecorded(r)
           \/ \E w \in Workers : /\ job[w].run = r
                                 /\ CommitUpdate(w) \/ CommitWithGeneration(w)
<1>1. ASSUME run'[r] = run[r] PROVE Kept(r)
  BY <1>1 DEF Kept
<1>2. CASE UNCHANGED run
  BY <1>1, <1>2
<1>3. ASSUME NEW q \in Runs, q # r, \/ ClaimTerm(q) \/ StartAcknowledged(q)
             \/ StartResolvesFailure(q) \/ CancelLocally(q) \/ CancelRecorded(q)
      PROVE  run'[r] = run[r]
  BY <1>3 DEF ClaimTerm, StartAcknowledged, StartResolvesFailure, CancelLocally, CancelRecorded,
     UpdateRow, TypeOK
<1>4. ASSUME NEW S \in SUBSET Runs, NEW b \in BOOLEAN,
             run' = [q \in Runs |-> IF q \in S THEN [run[q] EXCEPT !.due = b] ELSE run[q]]
      PROVE  Kept(r)
  BY <1>4 DEF TypeOK, Row, Kept
<1>5. ASSUME NEW w \in Workers, UpdateStatement(w) \/ AllocateVersion(w) PROVE UNCHANGED run
  BY <1>5 DEF UpdateStatement, AllocateVersion, rowVars
<1>6. ASSUME NEW w \in Workers, job[w].run # r, CommitUpdate(w) \/ CommitWithGeneration(w)
      PROVE  run'[r] = run[r]
  BY <1>6 DEF CommitUpdate, CommitWithGeneration, TypeOK
<1> QED BY <1>1, <1>2, <1>3, <1>4, <1>5, <1>6, Footprints

\* The handlers write statuses and external ids only, and only to rows that
\* exist.
LEMMA HandlerWrites ==
    ASSUME TypeOK, NEW r \in Runs,
           \/ StartAcknowledged(r) \/ StartResolvesFailure(r)
           \/ CancelLocally(r) \/ CancelRecorded(r)
    PROVE  /\ run'[r].result = run[r].result /\ run'[r].attempts = run[r].attempts
           /\ run'[r].lost = run[r].lost /\ run'[r].generation = run[r].generation
           /\ run'[r].status \in Status \ {"NONE"}
           /\ ~StartAcknowledged(r) => run'[r].status \in TerminalStatus
<1>a. run[r] \in Row /\ run \in [Runs -> Row]
  BY DEF TypeOK
<1>1. CASE StartAcknowledged(r)
  <2>1. run'[r] = [run[r] EXCEPT !.status = "QUEUED", !.ext = ack[r], !.due = FALSE]
    BY <1>a, <1>1 DEF StartAcknowledged, UpdateRow
  <2> QED BY <1>a, <1>1, <2>1 DEF Row, Status, ActiveStatus
<1>2. ASSUME NEW x \in TerminalStatus, run' = [run EXCEPT ![r] = [run[r] EXCEPT !.status = x]]
      PROVE  /\ run'[r].result = run[r].result /\ run'[r].attempts = run[r].attempts
             /\ run'[r].lost = run[r].lost /\ run'[r].generation = run[r].generation
             /\ run'[r].status = x /\ x \in Status \ {"NONE"}
  BY <1>a, <1>2 DEF Row, Status, TerminalStatus
<1>3. CASE StartResolvesFailure(r) \/ CancelLocally(r) \/ CancelRecorded(r)
  <2>1. \E x \in TerminalStatus : run' = [run EXCEPT ![r] = [run[r] EXCEPT !.status = x]]
    <3>1. "FAILED" \in TerminalStatus /\ "CANCELLED" \in TerminalStatus
      BY DEF TerminalStatus
    <3> QED BY <1>3, <3>1 DEF StartResolvesFailure, CancelLocally, CancelRecorded, UpdateRow
  <2> QED BY <1>2, <2>1
<1> QED BY <1>1, <1>3

\* What a polling transaction leaves in its row when it ends.
LEMMA CommitWrites ==
    ASSUME TypeOK, JobsOK, NEW w \in Workers, NEW r, r = job[w].run,
           CommitUpdate(w) \/ CommitWithGeneration(w)
    PROVE  /\ r \in Runs /\ AnswerOK(job[w]) /\ job[w] \in Job /\ run[r] \in Row
           /\ run'[r].status = Written(job[w], run[r]).status
           /\ run'[r].ext = run[r].ext
           /\ run'[r].result = Written(job[w], run[r]).result
           /\ run'[r].attempts = Written(job[w], run[r]).attempts
           /\ run'[r].lost = Written(job[w], run[r]).lost
           /\ CommitUpdate(w) => run'[r].generation = run[r].generation
           /\ CommitWithGeneration(w) => run'[r].generation = job[w].version
<1>1. job[w] \in Job /\ r \in Runs /\ AnswerOK(job[w]) /\ run[r] \in Row
  BY DEF CommitUpdate, CommitWithGeneration, TypeOK, JobsOK, JobOK
<1>2. CASE CommitUpdate(w)
  <2>1. run'[r] = Written(job[w], run[r]) /\ job[w].pc = "updated"
    BY <1>1, <1>2 DEF CommitUpdate, TypeOK
  <2>2. ~CommitWithGeneration(w)
    BY <2>1 DEF CommitWithGeneration
  <2> QED BY <1>1, <1>2, <2>1, <2>2 DEF Written
<1>3. CASE CommitWithGeneration(w)
  <2>1. run'[r] = [Written(job[w], run[r]) EXCEPT !.generation = job[w].version] /\ job[w].pc = "allocated"
    BY <1>1, <1>3 DEF CommitWithGeneration, TypeOK
  <2>2. ~CommitUpdate(w)
    BY <2>1 DEF CommitUpdate
  <2> QED BY <1>1, <1>3, <2>1, <2>2 DEF Written
<1> QED BY <1>2, <1>3

\* A job is taken up from a snapshot of a row that somebody has created.
Begins(w) ==
    /\ job[w].pc = "idle"
    /\ \E s :
        /\ \/ w \in Pollers /\ s \in batch[w]
           \/ \E r \in Runs : Active(r) /\ s = SnapshotOf(r)
        /\ job'[w] = [Idle EXCEPT !.pc = "asking", !.run = s.run, !.mode = s.mode,
                                  !.ext = s.ext, !.tries = s.tries]

\* The job of a worker is taken up, dropped, or moved on by the worker's own
\* steps; nobody else touches it.
LEMMA JobSteps ==
    ASSUME TypeOK, Next, NEW w \in Workers
    PROVE  \/ job'[w] = job[w] \/ job'[w] = Idle \/ Begins(w)
           \/ AskStatus(w) \/ FetchResult(w) \/ AskResult(w) \/ SolverUnreachable(w)
           \/ UpdateStatement(w) \/ AllocateVersion(w)
<1> USE DEF rowVars, lockVars, startVars, solverVars
<1>a. Workers = Pollers \cup Watchers
  BY DEF Workers
<1>1. ASSUME NEW r \in Runs, Starting(r) \/ Cancelling(r) \/ Solving(r) \/ TimePasses(r)
      PROVE  UNCHANGED job
  BY <1>1 DEF Starting, Cancelling, Solving, TimePasses, ClaimTerm, StartRunAccepted,
     StartRunFails, StartAcknowledged, StartRejectedByIndex, StartResolvesFailure,
     StarterCrashes, CancelRead, CancelLocally, CancelRemotely, CancelAbandoned,
     CancelRecorded, SolverRuns, SolverFinishes
<1>2. ASSUME SolverRestarts \/ \E p \in Pollers : ClaimDueRuns(p) PROVE UNCHANGED job
  BY <1>2 DEF SolverRestarts, ClaimDueRuns
<1>3. ASSUME NEW p \in Pollers, PollerCrashes(p) PROVE job'[w] = job[w] \/ job'[w] = Idle
  BY <1>3, <1>a DEF PollerCrashes, TypeOK
<1>4. ASSUME NEW p \in Pollers, NEW r \in Runs, PollNext(p, r) PROVE job'[w] = job[w] \/ Begins(w)
  <2>1. PICK s \in batch[p] : IF s.ext = None THEN UNCHANGED job ELSE Begin(p, s)
    BY <1>4 DEF PollNext
  <2>2. job[p].pc = "idle"
    BY <1>4 DEF PollNext
  <2>3. CASE p = w
    BY <2>1, <2>2, <2>3 DEF Begin, Begins, TypeOK
  <2>4. CASE p # w
    BY <2>1, <2>4, <1>a DEF Begin, TypeOK
  <2> QED BY <2>3, <2>4
<1>5. ASSUME NEW v \in Watchers, NEW r \in Runs, Watch(v, r) PROVE job'[w] = job[w] \/ Begins(w)
  <2>1. CASE v = w
    BY <1>5, <2>1 DEF Watch, Begin, Begins, TypeOK
  <2>2. CASE v # w
    BY <1>5, <2>2, <1>a DEF Watch, Begin, TypeOK
  <2> QED BY <2>1, <2>2
<1>6. ASSUME NEW v \in Workers, Polling(v), v # w PROVE job'[w] = job[w]
  BY <1>6 DEF Polling, AskStatus, FetchResult, AskResult, SolverUnreachable, Decide, Goto,
     UpdateStatement, AllocateVersion, CommitUpdate, CommitWithGeneration, Abort, TypeOK
<1>7. ASSUME CommitUpdate(w) \/ CommitWithGeneration(w) \/ Abort(w) PROVE job'[w] = Idle
  BY <1>7 DEF CommitUpdate, CommitWithGeneration, Abort, TypeOK
<1> QED BY <1>1, <1>2, <1>3, <1>4, <1>5, <1>6, <1>7 DEF Next, Polling

\* A job keeps to the run it was taken up for until it is dropped.
SameErrand(w) ==
    /\ job'[w].run = job[w].run /\ job'[w].mode = job[w].mode
    /\ job'[w].ext = job[w].ext /\ job'[w].tries = job[w].tries

\* What each step of a worker makes of its job.
LEMMA JobWrites ==
    ASSUME TypeOK, NEW w \in Workers
    PROVE  /\ \A a : Decide(w, a) =>
                /\ SameErrand(w) /\ job'[w].pc = "updating"
                /\ job'[w].ans = a /\ job'[w].got = job[w].got
           /\ AskStatus(w) => SameErrand(w) /\ job'[w].got = job[w].got
           /\ FetchResult(w) =>
                SameErrand(w) /\ job'[w].pc = "updating" /\ job'[w].ans = job[w].ans
           /\ AskResult(w) => SameErrand(w) /\ job'[w].pc = "updating"
           /\ SolverUnreachable(w) => job'[w] = Idle \/ SameErrand(w)
           /\ UpdateStatement(w) =>
                /\ SameErrand(w) /\ job'[w].pc = "updated"
                /\ job'[w].ans = job[w].ans /\ job'[w].got = job[w].got
           /\ AllocateVersion(w) =>
                /\ SameErrand(w) /\ job'[w].pc = "allocated"
                /\ job'[w].ans = job[w].ans /\ job'[w].got = job[w].got
                /\ job'[w].version = latest[TermOf[job[w].run]] + 1
<1>a. job[w] \in Job /\ job \in [Workers -> Job]
  BY DEF TypeOK
<1>1. ASSUME NEW a, Decide(w, a)
      PROVE  /\ SameErrand(w) /\ job'[w].pc = "updating"
             /\ job'[w].ans = a /\ job'[w].got = job[w].got
  BY <1>a, <1>1 DEF Decide, SameErrand, Job
<1>2. ASSUME AskStatus(w) PROVE SameErrand(w) /\ job'[w].got = job[w].got
  <2>1. ASSUME NEW a, job' = [job EXCEPT ![w] = [@ EXCEPT !.pc = "fetching", !.ans = a]]
        PROVE  SameErrand(w) /\ job'[w].got = job[w].got
    BY <1>a, <2>1 DEF SameErrand, Job
  <2> QED BY <1>1, <1>2, <2>1 DEF AskStatus
<1>3. ASSUME FetchResult(w)
      PROVE  SameErrand(w) /\ job'[w].pc = "updating" /\ job'[w].ans = job[w].ans
  BY <1>a, <1>3 DEF FetchResult, SameErrand, Job
<1>4. ASSUME AskResult(w) PROVE SameErrand(w) /\ job'[w].pc = "updating"
  <2>1. ASSUME job' = [job EXCEPT ![w] = [@ EXCEPT !.pc = "updating", !.ans = "SUCCEEDED", !.got = TRUE]]
        PROVE  SameErrand(w) /\ job'[w].pc = "updating"
    BY <1>a, <2>1 DEF SameErrand, Job
  <2> QED BY <1>1, <1>4, <2>1 DEF AskResult
<1>5. ASSUME SolverUnreachable(w) PROVE job'[w] = Idle \/ SameErrand(w)
  <2>1. job' = [job EXCEPT ![w] = Idle] \/ \E a : Decide(w, a)
    BY <1>5 DEF SolverUnreachable
  <2> QED BY <1>a, <1>1, <2>1
<1>6. ASSUME UpdateStatement(w)
      PROVE  /\ SameErrand(w) /\ job'[w].pc = "updated"
             /\ job'[w].ans = job[w].ans /\ job'[w].got = job[w].got
  <2>1. job' = [job EXCEPT ![w].pc = "updated"]
    BY <1>6 DEF UpdateStatement, Goto
  <2> QED BY <1>a, <2>1 DEF SameErrand, Job
<1>7. ASSUME AllocateVersion(w)
      PROVE  /\ SameErrand(w) /\ job'[w].pc = "allocated"
             /\ job'[w].ans = job[w].ans /\ job'[w].got = job[w].got
             /\ job'[w].version = latest[TermOf[job[w].run]] + 1
  BY <1>a, <1>7 DEF AllocateVersion, SameErrand, Job
<1> QED BY <1>1, <1>2, <1>3, <1>4, <1>5, <1>6, <1>7

\* A sweep holds snapshots it took of claimable rows.
LEMMA BatchSteps ==
    ASSUME TypeOK, Next, NEW p \in Pollers, NEW s \in batch'[p]
    PROVE  s \in batch[p] \/ \E r \in Runs : Claimable(r) /\ s = SnapshotOf(r)
<1> USE DEF rowVars, lockVars, startVars, solverVars
<1>1. ASSUME NEW q \in Pollers, ClaimDueRuns(q)
      PROVE  s \in batch[p] \/ \E r \in Runs : Claimable(r) /\ s = SnapshotOf(r)
  BY <1>1 DEF ClaimDueRuns, TypeOK
<1>2. ASSUME NEW q \in Pollers, PollerCrashes(q) \/ \E r \in Runs : PollNext(q, r)
      PROVE  s \in batch[p]
  BY <1>2 DEF PollerCrashes, PollNext, TypeOK
<1>3. \/ UNCHANGED batch
      \/ \E q \in Pollers : ClaimDueRuns(q) \/ PollerCrashes(q) \/ \E r \in Runs : PollNext(q, r)
  BY DEF Next, Starting, Cancelling, Solving, TimePasses, ClaimTerm, StartRunAccepted,
     StartRunFails, StartAcknowledged, StartRejectedByIndex, StartResolvesFailure,
     StarterCrashes, CancelRead, CancelLocally, CancelRemotely, CancelAbandoned,
     CancelRecorded, SolverRuns, SolverFinishes, Watch, Polling, AskStatus, FetchResult,
     AskResult, SolverUnreachable, UpdateStatement, AllocateVersion, CommitUpdate,
     CommitWithGeneration, Abort, JobUnchanged, SolverRestarts
<1> QED BY <1>1, <1>2, <1>3

\* Versions are numbered, and locked, by polling transactions only.
LEMMA VersionSteps ==
    ASSUME TypeOK, Next
    PROVE  /\ \/ UNCHANGED <<generations, latest>>
              \/ \E w \in Workers : CommitWithGeneration(w)
           /\ \/ UNCHANGED versionLock
              \/ \E w \in Workers : AllocateVersion(w)
              \/ \E w \in Workers : Release(w) /\ job' = [job EXCEPT ![w] = Idle]
<1> USE DEF rowVars, lockVars, startVars, solverVars
<1>a. Workers = Pollers \cup Watchers
  BY DEF Workers
<1>1. ASSUME NEW r \in Runs, Starting(r) \/ Cancelling(r) \/ Solving(r) \/ TimePasses(r)
      PROVE  UNCHANGED <<generations, latest, versionLock>>
  BY <1>1 DEF Starting, Cancelling, Solving, TimePasses, ClaimTerm, StartRunAccepted,
     StartRunFails, StartAcknowledged, StartRejectedByIndex, StartResolvesFailure,
     StarterCrashes, CancelRead, CancelLocally, CancelRemotely, CancelAbandoned,
     CancelRecorded, SolverRuns, SolverFinishes
<1>2. ASSUME \/ SolverRestarts \/ \E p \in Pollers : ClaimDueRuns(p)
             \/ \E p \in Pollers, r \in Runs : PollNext(p, r)
             \/ \E p \in Watchers, r \in Runs : Watch(p, r)
      PROVE  UNCHANGED <<generations, latest, versionLock>>
  BY <1>2 DEF SolverRestarts, ClaimDueRuns, PollNext, Watch
<1>3. ASSUME NEW w \in Workers, \/ AskStatus(w) \/ FetchResult(w) \/ AskResult(w)
             \/ SolverUnreachable(w) \/ UpdateStatement(w)
      PROVE  UNCHANGED <<generations, latest, versionLock>>
  BY <1>3 DEF AskStatus, FetchResult, AskResult, SolverUnreachable, UpdateStatement, JobUnchanged
<1>4. ASSUME NEW w \in Workers, CommitUpdate(w) \/ Abort(w) \/ (w \in Pollers /\ PollerCrashes(w))
      PROVE  UNCHANGED <<generations, latest>> /\ Release(w) /\ job' = [job EXCEPT ![w] = Idle]
  BY <1>4 DEF CommitUpdate, Abort, PollerCrashes
<1>5. ASSUME NEW w \in Workers, AllocateVersion(w)
      PROVE  UNCHANGED <<generations, latest>>
  BY <1>5 DEF AllocateVersion
<1>6. ASSUME NEW w \in Workers, CommitWithGeneration(w)
      PROVE  Release(w) /\ job' = [job EXCEPT ![w] = Idle]
  BY <1>6 DEF CommitWithGeneration
<1> QED BY <1>a, <1>1, <1>2, <1>3, <1>4, <1>5, <1>6 DEF Next, Polling

\* The starters and the solver move on their own; a terminal status lasts as
\* long as the solver process.
LEMMA SolverSteps ==
    ASSUME TypeOK, RegisteredOnce, Next
    PROVE  /\ RegisteredOnce'
           /\ epoch' \in {epoch, epoch + 1}
           /\ \A r \in Runs :
               /\ Succeeded(r) => Succeeded(r)'
               /\ registry[r] \in TerminalStatus /\ epoch' = epoch => registry'[r] = registry[r]
<1> USE DEF rowVars, lockVars, startVars, solverVars
<1>a. epoch \in Nat /\ epoch # epoch + 1
  BY ConstantsAssumption DEF TypeOK, Epochs
<1>1. ASSUME UNCHANGED <<registry, epoch, starter>>
      PROVE  /\ RegisteredOnce'
             /\ epoch' \in {epoch, epoch + 1}
             /\ \A r \in Runs :
                 /\ Succeeded(r) => Succeeded(r)'
                 /\ registry[r] \in TerminalStatus /\ epoch' = epoch => registry'[r] = registry[r]
  BY <1>1 DEF RegisteredOnce, Succeeded
<1>2. ASSUME NEW r \in Runs, TimePasses(r) \/ CancelRead(r) \/ CancelLocally(r)
             \/ CancelAbandoned(r) \/ CancelRecorded(r)
      PROVE  UNCHANGED <<registry, epoch, starter>>
  BY <1>2 DEF TimePasses, CancelRead, CancelLocally, CancelAbandoned, CancelRecorded
<1>3. ASSUME \/ \E p \in Pollers : ClaimDueRuns(p) \/ PollerCrashes(p)
             \/ \E p \in Pollers, r \in Runs : PollNext(p, r)
             \/ \E p \in Watchers, r \in Runs : Watch(p, r)
             \/ \E w \in Workers : Polling(w)
      PROVE  UNCHANGED <<registry, epoch, starter>>
  BY <1>3 DEF ClaimDueRuns, PollerCrashes, PollNext, Watch, Polling, AskStatus, FetchResult,
     AskResult, SolverUnreachable, UpdateStatement, AllocateVersion, CommitUpdate,
     CommitWithGeneration, Abort, JobUnchanged
<1>4. ASSUME SolverRestarts
      PROVE  /\ RegisteredOnce' /\ epoch' = epoch + 1
             /\ \A r \in Runs : Succeeded(r) => Succeeded(r)'
  BY <1>4 DEF SolverRestarts, RegisteredOnce, Succeeded
<1>5. ASSUME NEW q \in Runs, Starting(q) \/ CancelRemotely(q) \/ Solving(q)
      PROVE  /\ RegisteredOnce' /\ epoch' = epoch
             /\ \A r \in Runs :
                 /\ Succeeded(r) => Succeeded(r)'
                 /\ registry[r] \in TerminalStatus => registry'[r] = registry[r]
  <2> SUFFICES ASSUME NEW r \in Runs
               PROVE  /\ registry'[r] # "absent" => starter'[r] \notin {"ready", "calling"}
                      /\ Succeeded(r) => Succeeded(r)'
                      /\ registry[r] \in TerminalStatus => registry'[r] = registry[r]
                      /\ epoch' = epoch
    BY DEF RegisteredOnce
  <2>1. CASE Starting(q)
    BY <2>1 DEF Starting, ClaimTerm, StartRunAccepted, StartRunFails, StartAcknowledged,
       StartRejectedByIndex, StartResolvesFailure, StarterCrashes, RegisteredOnce, Succeeded,
       TypeOK, TerminalStatus
  <2>2. CASE CancelRemotely(q)
    BY <2>2 DEF CancelRemotely, Known, RegisteredOnce, Succeeded, TypeOK, TerminalStatus
  <2>3. CASE Solving(q)
    BY <2>3 DEF Solving, SolverRuns, SolverFinishes, RegisteredOnce, Succeeded, TypeOK, TerminalStatus
  <2> QED BY <1>5, <2>1, <2>2, <2>3
<1> QED BY <1>a, <1>1, <1>2, <1>3, <1>4, <1>5 DEF Next, Cancelling

-----------------------------------------------------------------------------
(***************************************************************************)
(* Outcome is inductive                                                    *)
(***************************************************************************)
\* An external id reaches a row, a snapshot or a job only by being copied.
LEMMA IdsStep ==
    ASSUME TypeOK, JobsOK, RegisteredOnce, IdsIssued, Next
    PROVE  IdsIssued'
<1> USE DEF rowVars, lockVars, startVars, solverVars
<1>a. Issued \subseteq Issued' /\ None \in Issued /\ epoch \in Issued
  BY SolverSteps, ConstantsAssumption DEF Issued, TypeOK, Epochs
<1>1. ASSUME NEW r \in Runs PROVE run'[r].ext \in Issued
  <2>1. CASE Kept(r)
    BY <2>1 DEF Kept, IdsIssued
  <2>2. CASE ClaimTerm(r)
    BY <2>2, <1>a DEF ClaimTerm, NoRow, TypeOK
  <2>3. CASE StartAcknowledged(r)
    BY <2>3 DEF StartAcknowledged, UpdateRow, TypeOK, Row, IdsIssued
  <2>4. CASE StartResolvesFailure(r) \/ CancelLocally(r) \/ CancelRecorded(r)
    BY <2>4, SMTT(30) DEF StartResolvesFailure, CancelLocally, CancelRecorded, UpdateRow, TypeOK, Row, IdsIssued
  <2>5. CASE \E w \in Workers : job[w].run = r /\ (CommitUpdate(w) \/ CommitWithGeneration(w))
    BY <2>5, CommitWrites DEF IdsIssued
  <2> QED BY <2>1, <2>2, <2>3, <2>4, <2>5, RowSteps
<1>2. ASSUME NEW r \in Runs PROVE ack'[r] \in Issued
  <2>1. UNCHANGED ack \/ \E q \in Runs : StartRunAccepted(q)
    BY DEF Next, Starting, Cancelling, Solving, TimePasses, ClaimTerm,
       StartRunFails, StartAcknowledged, StartRejectedByIndex, StartResolvesFailure,
       StarterCrashes, CancelRead, CancelLocally, CancelRemotely, CancelAbandoned,
       CancelRecorded, SolverRuns, SolverFinishes, ClaimDueRuns, PollerCrashes, PollNext, Watch,
       Polling, AskStatus, FetchResult, AskResult, SolverUnreachable, UpdateStatement,
       AllocateVersion, CommitUpdate, CommitWithGeneration, Abort, JobUnchanged, SolverRestarts
  <2> QED BY <2>1, <1>a DEF StartRunAccepted, TypeOK, IdsIssued
<1>3. ASSUME NEW p \in Pollers, NEW s \in batch'[p] PROVE s.ext \in Issued
  <2>1. s \in batch[p] \/ \E r \in Runs : Claimable(r) /\ s = SnapshotOf(r)
    BY <1>3, BatchSteps
  <2> QED BY <2>1 DEF SnapshotOf, IdsIssued
<1>4. ASSUME NEW w \in Workers PROVE job'[w].ext \in Issued
  <2>1. CASE job'[w] = job[w] \/ job'[w] = Idle
    BY <2>1, <1>a DEF IdsIssued, Idle
  <2>2. CASE Begins(w)
    BY <2>2 DEF Begins, SnapshotOf, Idle, IdsIssued
  <2>3. CASE \/ AskStatus(w) \/ FetchResult(w) \/ AskResult(w) \/ SolverUnreachable(w)
             \/ UpdateStatement(w) \/ AllocateVersion(w)
    <3>1. SameErrand(w) \/ job'[w] = Idle
      BY <2>3, JobWrites
    <3> QED BY <2>1, <3>1 DEF SameErrand, IdsIssued
  <2> QED BY <2>1, <2>2, <2>3, JobSteps
<1> QED BY <1>a, <1>1, <1>2, <1>3, <1>4 DEF IdsIssued

\* What a poll was told stays true until it is written down: the solver does
\* not take back a terminal status while it runs, and a restart is noticed by
\* the epoch of the external id.
LEMMA AnswersStep ==
    ASSUME TypeOK, JobsOK, BatchesOK, RegisteredOnce, IdsIssued, AnswersHold, Next
    PROVE  AnswersHold'
<1> USE DEF rowVars, lockVars, startVars, solverVars
<1> SUFFICES ASSUME NEW w \in Workers PROVE AnswerHolds(job[w])'
  BY DEF AnswersHold
<1>a. AnswerHolds(job[w]) /\ JobOK(job[w]) /\ job[w] \in Job /\ epoch \in Nat
  BY ConstantsAssumption DEF AnswersHold, JobsOK, TypeOK, Epochs
<1>1. CASE job'[w] = job[w]
  <2>1. job[w].ext = epoch' => epoch' = epoch
    <3>1. job[w].ext \in 0..epoch \/ job[w].ext = None
      BY DEF IdsIssued, Issued
    <3>2. None # epoch' /\ epoch' \in Nat
      BY TypeStep, ConstantsAssumption DEF IdsIssued, Issued, TypeOK, Epochs
    <3> QED BY <1>a, <3>1, <3>2, SolverSteps
  <2>2. ASSUME job[w].got PROVE Succeeded(job[w].run) /\ Succeeded(job[w].run)'
    <3>1. job[w].run \in Runs /\ Succeeded(job[w].run)
      BY <1>a, <2>2 DEF AnswerHolds, JobOK
    <3>2. Succeeded(job[w].run)'
      <4>1. PICK r \in Runs : r = job[w].run
        BY <3>1
      <4>2. Succeeded(r)'
        BY <3>1, <4>1, SolverSteps DEF Succeeded
      <4> QED BY <4>1, <4>2, <1>1 DEF Succeeded
    <3> QED BY <3>1, <3>2
  <2>3. ASSUME job[w].pc = "fetching", job[w].ext = epoch'
        PROVE  registry'[job[w].run] = job[w].ans
    <3>1. job[w].run \in Runs /\ job[w].ans \in TerminalStatus
      BY <1>a, <2>3 DEF JobOK
    <3>2. epoch' = epoch /\ registry[job[w].run] = job[w].ans
      BY <1>a, <2>1, <2>3 DEF AnswerHolds
    <3>3. PICK r \in Runs : r = job[w].run
      BY <3>1
    <3>4. registry'[r] = registry[r]
      BY <3>1, <3>2, <3>3, SolverSteps
    <3> QED BY <3>2, <3>3, <3>4
  <2> QED BY <1>1, <1>a, <2>2, <2>3 DEF AnswerHolds, Succeeded
<1>2. CASE job'[w] = Idle \/ Begins(w)
  <2>1. CASE job'[w] = Idle
    BY <2>1 DEF Idle, AnswerHolds
  <2>2. CASE Begins(w)
    <3>1. PICK s : job'[w] = [Idle EXCEPT !.pc = "asking", !.run = s.run, !.mode = s.mode,
                                          !.ext = s.ext, !.tries = s.tries]
      BY <2>2 DEF Begins
    <3>2. job'[w].pc = "asking" /\ job'[w].got = FALSE
      BY <3>1 DEF Idle
    <3> QED BY <3>2 DEF AnswerHolds
  <2> QED BY <1>2, <2>1, <2>2
<1>3. CASE AskStatus(w)
  <2>1. UNCHANGED <<registry, epoch, starter>>
    BY <1>3 DEF AskStatus, JobUnchanged
  <2>2. PICK x \in {"fetching", "updating"}, a \in Answers :
          /\ job'[w] = [job[w] EXCEPT !.pc = x, !.ans = a]
          /\ x = "fetching" => a = registry[job[w].run]
    BY <1>3, <1>a DEF AskStatus, Decide, TypeOK, JobOK, Answers
  <2>3. /\ job[w].pc = "asking" /\ job[w].mode = "poll"
        /\ job'[w].pc = x /\ job'[w].ans = a /\ job'[w].got = job[w].got
        /\ job'[w].mode = job[w].mode /\ job'[w].run = job[w].run /\ job'[w].ext = job[w].ext
    BY <1>3, <1>a, <2>2 DEF AskStatus, Job
  <2> QED BY <1>a, <2>1, <2>2, <2>3 DEF AnswerHolds
<1>4. CASE FetchResult(w)
  <2>1. UNCHANGED <<registry, epoch, starter>> /\ job[w].pc = "fetching"
    BY <1>4 DEF FetchResult, JobUnchanged
  <2>2. PICK got \in BOOLEAN :
          /\ got => Known(job[w].run, job[w].ext) /\ registry[job[w].run] = "SUCCEEDED"
          /\ job'[w] = [job[w] EXCEPT !.pc = "updating", !.got = got]
    BY <1>4 DEF FetchResult, TypeOK
  <2>3. /\ job'[w].pc = "updating" /\ job'[w].ans = job[w].ans /\ job'[w].got = got
        /\ job'[w].mode = job[w].mode /\ job'[w].run = job[w].run
    BY <1>a, <2>2 DEF Job
  <2>4. got => job[w].ans = "SUCCEEDED" /\ Succeeded(job[w].run)
    BY <1>a, <2>1, <2>2 DEF AnswerHolds, Known, Succeeded, RegisteredOnce, JobOK
  <2> QED BY <1>a, <2>1, <2>3, <2>4 DEF AnswerHolds, JobOK, Succeeded
<1>5. CASE AskResult(w)
  <2>1. UNCHANGED <<registry, epoch, starter>> /\ job[w].pc = "asking" /\ job[w].mode = "recover"
    BY <1>5 DEF AskResult, JobUnchanged
  <2>2. CASE registry[job[w].run] = "SUCCEEDED" /\
             job'[w] = [job[w] EXCEPT !.pc = "updating", !.ans = "SUCCEEDED", !.got = TRUE]
    <3>1. /\ job'[w].pc = "updating" /\ job'[w].ans = "SUCCEEDED" /\ job'[w].got
          /\ job'[w].run = job[w].run
      BY <1>a, <2>2 DEF Job
    <3> QED BY <1>a, <2>1, <2>2, <3>1 DEF AnswerHolds, Succeeded, RegisteredOnce, JobOK
  <2>3. CASE job'[w] = [job[w] EXCEPT !.pc = "updating", !.ans = "GIVE_UP"]
    <3>1. job'[w].pc = "updating" /\ job'[w].ans = "GIVE_UP" /\ job'[w].got = job[w].got
      BY <1>a, <2>3 DEF Job
    <3> QED BY <1>a, <2>1, <3>1 DEF AnswerHolds
  <2> QED BY <1>5, <2>2, <2>3 DEF AskResult, Decide, TypeOK
<1>6. CASE SolverUnreachable(w)
  <2>1. job[w].pc = "asking" /\ ~job[w].got
    BY <1>6, <1>a DEF SolverUnreachable, AnswerHolds
  <2>2. CASE job'[w] = Idle
    BY <2>2, <1>2
  <2> DEFINE a == IF job[w].tries + 1 >= MaxRecovery THEN "GIVE_UP" ELSE "RETRY"
  <2>3. CASE job'[w] = [job[w] EXCEPT !.pc = "updating", !.ans = a]
    <3>1. /\ job'[w].pc = "updating" /\ job'[w].ans = a /\ job'[w].got = job[w].got
          /\ job'[w].tries = job[w].tries
      BY <1>a, <2>3 DEF Job
    <3>2. a # "SUCCEEDED" /\ (a = "RETRY" => job[w].tries + 1 < MaxRecovery)
      BY <1>a, ConstantsAssumption DEF Job
    <3> QED BY <2>1, <3>1, <3>2 DEF AnswerHolds
  <2> QED BY <1>6, <2>2, <2>3 DEF SolverUnreachable, Decide, TypeOK
<1>7. CASE UpdateStatement(w) \/ AllocateVersion(w)
  <2>1. UNCHANGED <<registry, epoch, starter>> /\ job[w].pc \in {"updating", "updated"}
    BY <1>7 DEF UpdateStatement, AllocateVersion
  <2>2. /\ job'[w].pc \in {"updated", "allocated"} /\ job'[w].ans = job[w].ans
        /\ job'[w].got = job[w].got /\ job'[w].run = job[w].run
        /\ job'[w].mode = job[w].mode /\ job'[w].tries = job[w].tries
    BY <1>7, JobWrites DEF SameErrand
  <2> QED BY <1>a, <2>1, <2>2 DEF AnswerHolds, Succeeded
<1> QED BY <1>1, <1>2, <1>3, <1>4, <1>5, <1>6, <1>7, JobSteps

\* Commits are made by transactions whose answer holds, and a generation is
\* committed with the result of a run that succeeded.
LEMMA CommitAnswers ==
    ASSUME TypeOK, JobsOK, AnswersHold, VersionsHeld, NEW w \in Workers, CommitWithGeneration(w)
    PROVE  /\ job[w].run \in Runs /\ Succeeded(job[w].run) /\ job[w].got
           /\ run[job[w].run].generation = 0
           /\ TermOf[job[w].run] \in Terms
           /\ versionLock[TermOf[job[w].run]] = w
           /\ job[w].version = latest[TermOf[job[w].run]] + 1
           /\ latest[TermOf[job[w].run]] \in Nat /\ job[w].version \in Nat \ {0}
<1>1. job[w].pc = "allocated" /\ job[w].run \in Runs
  BY DEF CommitWithGeneration, JobsOK, JobOK
<1>2. /\ job[w].got /\ run[job[w].run].generation = 0
      /\ versionLock[TermOf[job[w].run]] = w
      /\ job[w].version = latest[TermOf[job[w].run]] + 1
  BY <1>1 DEF VersionsHeld
<1>3. Succeeded(job[w].run)
  BY <1>2 DEF AnswersHold, AnswerHolds
<1>4. TermOf[job[w].run] \in Terms /\ latest[TermOf[job[w].run]] \in Nat
  BY <1>1, ConstantsAssumption DEF TypeOK, Versions
<1> QED BY <1>1, <1>2, <1>3, <1>4

\* A success that led to a generation is never taken back.
LEMMA SuccessesStep ==
    ASSUME TypeOK, JobsOK, RegisteredOnce, AnswersHold, VersionsHeld, SuccessesStand, Next
    PROVE  SuccessesStand'
<1> SUFFICES ASSUME NEW r \in Runs, generations'[r] # {} PROVE Succeeded(r)'
  BY DEF SuccessesStand
<1>1. Succeeded(r)
  <2>1. CASE UNCHANGED generations
    BY <2>1 DEF SuccessesStand
  <2>2. ASSUME NEW w \in Workers, CommitWithGeneration(w) PROVE Succeeded(r)
    <3>1. generations' = [generations EXCEPT ![job[w].run] = @ \cup {job[w].version}]
      BY <2>2 DEF CommitWithGeneration
    <3>2. r = job[w].run \/ generations'[r] = generations[r]
      BY <3>1 DEF TypeOK
    <3> QED BY <2>2, <3>2, CommitAnswers DEF SuccessesStand
  <2> QED BY <2>1, <2>2, VersionSteps
<1> QED BY <1>1, SolverSteps

\* A version in hand is still the next one of its term when it is committed,
\* and its run still has no generation: the locks say so.
LEMMA VersionsStep ==
    ASSUME TypeOK, JobsOK, LocksHeld, RegisteredOnce, Named, AnswersHold, VersionsHeld,
           ResultIsProposedOnce, Next
    PROVE  VersionsHeld'
<1> USE DEF rowVars, lockVars, startVars, solverVars
<1>a. None \notin Workers
  BY ConstantsAssumption DEF Workers
<1> SUFFICES ASSUME NEW w \in Workers, job'[w].pc = "allocated"
             PROVE  /\ versionLock'[TermOf[job'[w].run]] = w
                    /\ job'[w].version = latest'[TermOf[job'[w].run]] + 1
                    /\ job'[w].got /\ run'[job'[w].run].generation = 0
  BY DEF VersionsHeld
<1>1. CASE AllocateVersion(w)
  <2>1. /\ job[w].run \in Runs /\ SameErrand(w) /\ job'[w].got = job[w].got
        /\ job'[w].version = latest[TermOf[job[w].run]] + 1
        /\ UNCHANGED <<run, latest>>
    BY <1>1, JobWrites DEF AllocateVersion, JobsOK, JobOK
  <2>2. versionLock'[TermOf[job[w].run]] = w
    BY <1>1, <2>1, ConstantsAssumption DEF AllocateVersion, TypeOK
  <2>3. run[job[w].run].generation = 0 /\ (job[w].got \/ run[job[w].run].result)
    BY <1>1 DEF AllocateVersion, ShouldCreateGeneration, Written
  <2>4. job[w].got
    BY <2>1, <2>3 DEF ResultIsProposedOnce
  <2> QED BY <2>1, <2>2, <2>3, <2>4 DEF SameErrand
<1>2. CASE job'[w] = job[w] /\ job[w].pc = "allocated"
  <2> DEFINE r == job[w].run
             t == TermOf[r]
  <2>1. /\ r \in Runs /\ t \in Terms /\ rowLock[r] = w /\ versionLock[t] = w
        /\ job[w].version = latest[t] + 1 /\ job[w].got /\ run[r].generation = 0
    BY <1>2, ConstantsAssumption DEF JobsOK, JobOK, LocksHeld, VersionsHeld
  <2> HIDE DEF r, t
  <2>2. versionLock'[t] = w
    <3>1. ASSUME NEW v \in Workers, AllocateVersion(v) PROVE versionLock'[t] = w
      <4>1. versionLock[TermOf[job[v].run]] = None /\
            versionLock' = [versionLock EXCEPT ![TermOf[job[v].run]] = v]
        BY <3>1 DEF AllocateVersion
      <4> QED BY <1>a, <2>1, <4>1 DEF TypeOK
    <3>2. ASSUME NEW v \in Workers, Release(v), job' = [job EXCEPT ![v] = Idle]
          PROVE  versionLock'[t] = w
      <4>1. v # w
        BY <1>2, <3>2 DEF TypeOK, Idle
      <4> QED BY <2>1, <3>2, <4>1 DEF Release
    <3>3. CASE UNCHANGED versionLock
      BY <2>1, <3>3
    <3> QED BY <3>1, <3>2, <3>3, VersionSteps
  <2>3. ASSUME NEW v \in Workers, CommitUpdate(v) \/ CommitWithGeneration(v) PROVE v # w
    BY <1>2, <2>3 DEF CommitUpdate, CommitWithGeneration, TypeOK, Idle
  <2>4. latest'[t] = latest[t]
    <3>1. ASSUME NEW v \in Workers, CommitWithGeneration(v) PROVE latest'[t] = latest[t]
      <4>1. versionLock[TermOf[job[v].run]] = v /\ v # w
        BY <2>3, <3>1, CommitAnswers
      <4>2. latest' = [latest EXCEPT ![TermOf[job[v].run]] = job[v].version]
        BY <3>1 DEF CommitWithGeneration
      <4> QED BY <2>1, <4>1, <4>2 DEF TypeOK
    <3> QED BY <3>1, VersionSteps
  <2>5. run'[r].generation = 0
    <3>1. CASE Kept(r)
      BY <2>1, <3>1 DEF Kept
    <3>2. CASE ClaimTerm(r)
      BY <2>1, <3>2 DEF ClaimTerm, NoRow, TypeOK
    <3>3. CASE StartAcknowledged(r) \/ StartResolvesFailure(r) \/ CancelLocally(r) \/ CancelRecorded(r)
      BY <2>1, <3>3, HandlerWrites
    <3>4. ASSUME NEW v \in Workers, job[v].run = r, CommitUpdate(v) \/ CommitWithGeneration(v)
          PROVE  run'[r].generation = 0
      <4>1. rowLock[r] = v
        BY <3>4 DEF CommitUpdate, CommitWithGeneration, LocksHeld
      <4> QED BY <2>1, <2>3, <3>4, <4>1
    <3> QED BY <2>1, <3>1, <3>2, <3>3, <3>4, RowSteps
  <2> QED BY <1>2, <2>1, <2>2, <2>4, <2>5 DEF r, t
<1>3. CASE job'[w] = Idle \/ Begins(w)
  <2>1. job'[w].pc # "allocated"
    <3>1. CASE Begins(w)
      <4>1. PICK s : job'[w] = [Idle EXCEPT !.pc = "asking", !.run = s.run, !.mode = s.mode,
                                            !.ext = s.ext, !.tries = s.tries]
        BY <3>1 DEF Begins
      <4> QED BY <4>1 DEF Idle
    <3> QED BY <1>3, <3>1 DEF Idle
  <2> QED BY <2>1
<1>4. CASE \/ AskStatus(w) \/ FetchResult(w) \/ AskResult(w) \/ SolverUnreachable(w) \/ UpdateStatement(w)
  <2>1. job'[w].pc # "allocated"
    <3>1. CASE AskStatus(w)
      <4>1. ASSUME NEW a, job' = [job EXCEPT ![w] = [@ EXCEPT !.pc = "fetching", !.ans = a]]
            PROVE  job'[w].pc = "fetching"
        BY <4>1 DEF TypeOK, Job
      <4> QED BY <3>1, <4>1, JobWrites DEF AskStatus
    <3>2. CASE SolverUnreachable(w)
      <4>1. job'[w] = Idle \/ \E a : Decide(w, a)
        BY <3>2 DEF SolverUnreachable, TypeOK
      <4> QED BY <4>1, JobWrites DEF Idle
    <3> QED BY <1>4, <3>1, <3>2, JobWrites
  <2> QED BY <2>1
<1> QED BY <1>1, <1>2, <1>3, <1>4, JobSteps

\* Nobody writes to, claims or polls a run before its row was inserted.
LEMMA NamedStep ==
    ASSUME TypeOK, JobsOK, Named, Next
    PROVE  Named'
<1> USE DEF rowVars, lockVars, startVars, solverVars
<1>a. \A r \in Runs : run[r].status # "NONE" => run'[r].status # "NONE"
  <2> SUFFICES ASSUME NEW r \in Runs, run[r].status # "NONE" PROVE run'[r].status # "NONE"
    OBVIOUS
  <2>1. CASE Kept(r)
    BY <2>1 DEF Kept
  <2>2. CASE ClaimTerm(r)
    BY <2>2 DEF ClaimTerm, Named
  <2>3. CASE StartAcknowledged(r) \/ StartResolvesFailure(r) \/ CancelLocally(r) \/ CancelRecorded(r)
    BY <2>3, HandlerWrites
  <2>4. ASSUME NEW w \in Workers, job[w].run = r, CommitUpdate(w) \/ CommitWithGeneration(w)
        PROVE  run'[r].status # "NONE"
    <3>1. run'[r].status = Written(job[w], run[r]).status /\ AnswerOK(job[w]) /\ job[w] \in Job
      BY <2>4, CommitWrites
    <3> QED BY <3>1 DEF Written, AnswerOK, Job, TerminalStatus
  <2> QED BY <2>1, <2>2, <2>3, <2>4, RowSteps
<1>1. ASSUME NEW r \in Runs PROVE starter'[r] = "ready" <=> run'[r].status = "NONE"
  <2>1. starter'[r] = starter[r] \/ Starting(r)
    <3>1. ASSUME NEW q \in Runs, q # r, Starting(q) PROVE starter'[r] = starter[r]
      BY <3>1 DEF Starting, ClaimTerm, StartRunAccepted, StartRunFails, StartAcknowledged,
         StartRejectedByIndex, StartResolvesFailure, StarterCrashes, TypeOK
    <3>2. UNCHANGED starter \/ \E q \in Runs : Starting(q)
      BY DEF Next, Cancelling, Solving, TimePasses, CancelRead, CancelLocally,
         CancelRemotely, CancelAbandoned, CancelRecorded, SolverRuns, SolverFinishes,
         ClaimDueRuns, PollerCrashes, PollNext, Watch, Polling, AskStatus, FetchResult,
         AskResult, SolverUnreachable, UpdateStatement, AllocateVersion, CommitUpdate,
         CommitWithGeneration, Abort, JobUnchanged, SolverRestarts
    <3> QED BY <3>1, <3>2
  <2>2. starter'[r] = "ready" => starter[r] = "ready" /\ starter'[r] = starter[r]
    BY <2>1 DEF Starting, ClaimTerm, StartRunAccepted, StartRunFails, StartAcknowledged,
       StartRejectedByIndex, StartResolvesFailure, StarterCrashes, TypeOK
  <2>3. ASSUME starter'[r] = "ready" PROVE run'[r].status = "NONE"
    <3>1. starter[r] = "ready" /\ starter'[r] = starter[r] /\ run[r].status = "NONE"
      BY <2>2, <2>3 DEF Named
    <3>2. CASE Kept(r)
      BY <3>1, <3>2 DEF Kept
    <3>3. ~ClaimTerm(r)
      BY <2>3 DEF ClaimTerm, TypeOK
    <3>4. ~StartAcknowledged(r) /\ ~StartResolvesFailure(r) /\ ~CancelLocally(r) /\ ~CancelRecorded(r)
      BY <3>1 DEF StartAcknowledged, StartResolvesFailure, CancelLocally, CancelRecorded, Named,
         TerminalStatus
    <3>5. \A w \in Workers : job[w].run = r => ~CommitUpdate(w) /\ ~CommitWithGeneration(w)
      BY <3>1 DEF CommitUpdate, CommitWithGeneration, Named
    <3> QED BY <3>2, <3>3, <3>4, <3>5, RowSteps
  <2>4. ASSUME starter'[r] # "ready" PROVE run'[r].status # "NONE"
    <3>1. CASE starter[r] # "ready"
      BY <1>a, <3>1 DEF Named
    <3>2. CASE starter[r] = "ready"
      <4>1. ClaimTerm(r)
        BY <2>1, <2>4, <3>2 DEF Starting, StartRunAccepted, StartRunFails, StartAcknowledged,
           StartRejectedByIndex, StartResolvesFailure, StarterCrashes
      <4> QED BY <4>1 DEF ClaimTerm, NoRow, TypeOK
    <3> QED BY <3>1, <3>2
  <2> QED BY <2>3, <2>4
<1>2. ASSUME NEW r \in Runs, canceller'[r] # "none" PROVE run'[r].status # "NONE"
  <2>1. canceller[r] # "none" \/ Active(r)
    <3>1. ASSUME NEW q \in Runs, Cancelling(q) PROVE canceller[r] # "none" \/ Active(r)
      BY <1>2, <3>1 DEF Cancelling, CancelRead, CancelLocally, CancelRemotely, CancelAbandoned,
         CancelRecorded, TypeOK
    <3>2. UNCHANGED canceller \/ \E q \in Runs : Cancelling(q)
      BY DEF Next, Starting, Solving, TimePasses, ClaimTerm, StartRunAccepted, StartRunFails,
         StartAcknowledged, StartRejectedByIndex, StartResolvesFailure, StarterCrashes,
         SolverRuns, SolverFinishes, ClaimDueRuns, PollerCrashes, PollNext, Watch, Polling,
         AskStatus, FetchResult, AskResult, SolverUnreachable, UpdateStatement, AllocateVersion,
         CommitUpdate, CommitWithGeneration, Abort, JobUnchanged, SolverRestarts
    <3> QED BY <1>2, <3>1, <3>2
  <2> QED BY <1>a, <2>1 DEF Named, Active, ActiveStatus
<1>3. ASSUME NEW p \in Pollers, NEW s \in batch'[p] PROVE run'[s.run].status # "NONE"
  <2>1. s \in batch[p] \/ \E r \in Runs : Claimable(r) /\ s = SnapshotOf(r)
    BY <1>3, BatchSteps
  <2>2. s \in batch[p] => s.run \in Runs
    BY DEF TypeOK, Snapshot
  <2>3. \A r \in Runs : Claimable(r) => SnapshotOf(r).run = r /\ run[r].status # "NONE"
    BY DEF Claimable, SnapshotOf, Active, ActiveStatus, NeedsRecovery
  <2> QED BY <1>a, <2>1, <2>2, <2>3 DEF Named
<1>4. ASSUME NEW w \in Workers, job'[w].pc # "idle" PROVE run'[job'[w].run].status # "NONE"
  <2>1. job'[w].run \in Runs /\ run[job'[w].run].status # "NONE"
    <3>1. CASE job'[w] = job[w]
      BY <1>4, <3>1 DEF JobsOK, JobOK, Named
    <3>2. CASE job'[w] = Idle
      BY <1>4, <3>2 DEF Idle
    <3>3. CASE Begins(w)
      <4>1. PICK s : /\ \/ w \in Pollers /\ s \in batch[w]
                        \/ \E r \in Runs : Active(r) /\ s = SnapshotOf(r)
                     /\ job'[w] = [Idle EXCEPT !.pc = "asking", !.run = s.run, !.mode = s.mode,
                                               !.ext = s.ext, !.tries = s.tries]
        BY <3>3 DEF Begins
      <4>2. job'[w].run = s.run
        BY <4>1 DEF Idle
      <4>3. s.run \in Runs /\ run[s.run].status # "NONE"
        BY <4>1 DEF SnapshotOf, Active, ActiveStatus, Named, TypeOK, Snapshot
      <4> QED BY <4>2, <4>3
    <3>4. CASE \/ AskStatus(w) \/ FetchResult(w) \/ AskResult(w) \/ SolverUnreachable(w)
               \/ UpdateStatement(w) \/ AllocateVersion(w)
      <4>1. job[w].pc # "idle"
        BY <3>4 DEF AskStatus, FetchResult, AskResult, SolverUnreachable, UpdateStatement,
           AllocateVersion
      <4>2. job'[w].run = job[w].run
        BY <1>4, <3>2, <3>4, JobWrites DEF SameErrand, Idle
      <4> QED BY <4>1, <4>2 DEF JobsOK, JobOK, Named
    <3> QED BY <3>1, <3>2, <3>3, <3>4, JobSteps
  <2> QED BY <1>a, <2>1
<1> QED BY <1>1, <1>2, <1>3, <1>4 DEF Named

\* The result of a run and its generation are written by one commit.
LEMMA ResultStep ==
    ASSUME TypeOK, JobsOK, AnswersHold, VersionsHeld, Named, SuccessesStand,
           ResultIsProposedOnce, Next
    PROVE  ResultIsProposedOnce'
<1> SUFFICES ASSUME NEW r \in Runs
             PROVE  /\ run'[r].result <=> run'[r].generation # 0
                    /\ generations'[r] = {run'[r].generation} \ {0}
  BY DEF ResultIsProposedOnce
<1>a. /\ run[r].result <=> run[r].generation # 0
      /\ generations[r] = {run[r].generation} \ {0}
  BY DEF ResultIsProposedOnce
<1>b. \/ generations'[r] = generations[r]
      \/ \E w \in Workers : job[w].run = r /\ CommitWithGeneration(w)
  <2>1. ASSUME NEW w \in Workers, CommitWithGeneration(w), job[w].run # r
        PROVE  generations'[r] = generations[r]
    BY <2>1 DEF CommitWithGeneration, TypeOK
  <2> QED BY <2>1, VersionSteps
<1>1. ASSUME NEW w \in Workers, job[w].run = r, CommitWithGeneration(w)
      PROVE  /\ run'[r].result <=> run'[r].generation # 0
             /\ generations'[r] = {run'[r].generation} \ {0}
  <2>1. /\ job[w].got /\ run[r].generation = 0
        /\ job[w].version \in Nat \ {0}
    BY <1>1, CommitAnswers
  <2>2. /\ run'[r].result = Written(job[w], run[r]).result
        /\ run'[r].generation = job[w].version
    BY <1>1, CommitWrites
  <2>3. generations'[r] = generations[r] \cup {job[w].version}
    BY <1>1 DEF CommitWithGeneration, TypeOK
  <2>4. run'[r].result = TRUE
    BY <2>1, <2>2 DEF Written
  <2> QED BY <1>a, <2>1, <2>2, <2>3, <2>4
<1>2. ASSUME NEW w \in Workers, job[w].run = r, CommitUpdate(w)
      PROVE  /\ run'[r].result <=> run'[r].generation # 0
             /\ generations'[r] = {run'[r].generation} \ {0}
  <2>1. /\ run'[r].result = Written(job[w], run[r]).result
        /\ run'[r].generation = run[r].generation
    BY <1>2, CommitWrites
  <2>2. UNCHANGED generations
    BY <1>2 DEF CommitUpdate
  <2>3. job[w].got => job[w].ans = "SUCCEEDED"
    BY DEF AnswersHold, AnswerHolds
  <2>4. Written(job[w], run[r]).result <=> run[r].result
    <3>1. CASE job[w].got
      <4>1. Written(job[w], run[r]).result = TRUE
        BY <3>1 DEF Written
      <4>2. run[r].generation # 0
        BY <1>2, <2>3, <3>1, <4>1 DEF CommitUpdate, ShouldCreateGeneration
      <4> QED BY <1>a, <4>1, <4>2
    <3>2. CASE ~job[w].got
      BY <3>2 DEF Written
    <3> QED BY <3>1, <3>2
  <2> QED BY <1>a, <2>1, <2>2, <2>4
<1>3. ASSUME generations'[r] = generations[r], run'[r].result = run[r].result,
             run'[r].generation = run[r].generation
      PROVE  /\ run'[r].result <=> run'[r].generation # 0
             /\ generations'[r] = {run'[r].generation} \ {0}
  BY <1>a, <1>3
<1>4. CASE ClaimTerm(r)
  <2>1. starter[r] = "ready" /\ UNCHANGED generations
    BY <1>4 DEF ClaimTerm
  <2>2. generations[r] = {}
    BY <2>1 DEF SuccessesStand, Succeeded
  <2>3. run'[r].result = FALSE /\ run'[r].generation = 0
    BY <1>4 DEF ClaimTerm, NoRow, TypeOK
  <2> QED BY <2>1, <2>2, <2>3
<1>5. CASE Kept(r)
  BY <1>1, <1>3, <1>5, <1>b DEF Kept
<1>6. CASE StartAcknowledged(r) \/ StartResolvesFailure(r) \/ CancelLocally(r) \/ CancelRecorded(r)
  BY <1>1, <1>3, <1>6, <1>b, HandlerWrites
<1> QED BY <1>1, <1>2, <1>4, <1>5, <1>6, RowSteps

\* A commit appends the next version to its term's series.
LEMMA SeriesStep ==
    ASSUME TypeOK, JobsOK, AnswersHold, VersionsHeld, ResultIsProposedOnce, VersionSeries, Next
    PROVE  VersionSeries'
<1> DEFINE OfTerm(t) == {r \in Runs : TermOf[r] = t}
<1>1. CASE UNCHANGED <<generations, latest>>
  BY <1>1 DEF VersionSeries
<1>2. ASSUME NEW w \in Workers, CommitWithGeneration(w) PROVE VersionSeries'
  <2> DEFINE q == job[w].run
             v == job[w].version
  <2>1. /\ q \in Runs /\ TermOf[q] \in Terms /\ v = latest[TermOf[q]] + 1
        /\ latest[TermOf[q]] \in Nat
    BY <1>2, CommitAnswers
  <2>2. /\ generations' = [generations EXCEPT ![q] = @ \cup {v}]
        /\ latest' = [latest EXCEPT ![TermOf[q]] = v]
    BY <1>2 DEF CommitWithGeneration
  <2> HIDE DEF q, v
  <2> SUFFICES ASSUME NEW t \in Terms
               PROVE  /\ UNION {generations'[r] : r \in OfTerm(t)} = 1..latest'[t]
                      /\ \A r, s \in OfTerm(t) : r # s => generations'[r] \cap generations'[s] = {}
    BY DEF VersionSeries
  <2>3. /\ UNION {generations[r] : r \in OfTerm(t)} = 1..latest[t]
        /\ \A r, s \in OfTerm(t) : r # s => generations[r] \cap generations[s] = {}
    BY DEF VersionSeries
  <2>4. CASE t # TermOf[q]
    <3>1. \A r \in OfTerm(t) : generations'[r] = generations[r]
      BY <2>2, <2>4 DEF TypeOK
    <3>2. latest'[t] = latest[t]
      BY <2>2, <2>4 DEF TypeOK
    <3>3. UNION {generations'[r] : r \in OfTerm(t)} = UNION {generations[r] : r \in OfTerm(t)}
      BY <3>1
    <3> QED BY <2>3, <3>1, <3>2, <3>3
  <2>5. CASE t = TermOf[q]
    <3>1. latest'[t] = latest[t] + 1 /\ v = latest[t] + 1 /\ latest[t] \in Nat
      BY <2>1, <2>2, <2>5 DEF TypeOK
    <3>2. generations'[q] = generations[q] \cup {v}
      BY <2>1, <2>2 DEF TypeOK
    <3>3. \A r \in Runs \ {q} : generations'[r] = generations[r]
      BY <2>2 DEF TypeOK
    <3>4. q \in OfTerm(t)
      BY <2>1, <2>5
    <3>5. UNION {generations'[r] : r \in OfTerm(t)} = (UNION {generations[r] : r \in OfTerm(t)}) \cup {v}
      <4>1. ASSUME NEW x, \E r \in OfTerm(t) : x \in generations'[r]
            PROVE  x = v \/ \E r \in OfTerm(t) : x \in generations[r]
        BY <3>2, <3>3, <4>1
      <4>2. ASSUME NEW x, \E r \in OfTerm(t) : x \in generations[r]
            PROVE  \E r \in OfTerm(t) : x \in generations'[r]
        BY <3>2, <3>3, <4>2
      <4>3. \E r \in OfTerm(t) : v \in generations'[r]
        BY <3>2, <3>4
      <4>4. \A x : x \in UNION {generations'[r] : r \in OfTerm(t)} <=>
                   \E r \in OfTerm(t) : x \in generations'[r]
        OBVIOUS
      <4>5. \A x : x \in UNION {generations[r] : r \in OfTerm(t)} <=>
                   \E r \in OfTerm(t) : x \in generations[r]
        OBVIOUS
      <4> DEFINE Old == UNION {generations[r] : r \in OfTerm(t)}
                 New == UNION {generations'[r] : r \in OfTerm(t)}
      <4>6. \A x : x \in New <=> x \in Old \/ x = v
        <5> HIDE DEF OfTerm
        <5> QED BY <4>1, <4>2, <4>3, <4>4, <4>5
      <4> HIDE DEF Old, New
      <4>7. New = Old \cup {v}
        BY <4>6
      <4> QED BY <4>7 DEF Old, New
    <3>6. 1..(latest[t] + 1) = 1..latest[t] \cup {latest[t] + 1}
      BY <3>1
    <3>7. \A r \in OfTerm(t) : v \notin generations[r]
      <4>1. v \notin UNION {generations[r] : r \in OfTerm(t)}
        BY <2>3, <3>1
      <4> QED BY <4>1
    <3>8. ASSUME NEW r \in OfTerm(t), NEW s \in OfTerm(t), r # s
          PROVE  generations'[r] \cap generations'[s] = {}
      <4>1. generations[r] \cap generations[s] = {} /\ v \notin generations[r] /\ v \notin generations[s]
        BY <2>3, <3>7, <3>8
      <4>2. /\ generations'[r] = generations[r] \/ (r = q /\ generations'[r] = generations[r] \cup {v})
            /\ generations'[s] = generations[s] \/ (s = q /\ generations'[s] = generations[s] \cup {v})
        BY <3>2, <3>3
      <4> SUFFICES ASSUME NEW x \in generations'[r] \cap generations'[s] PROVE FALSE
        OBVIOUS
      <4>3. x = v \/ x \in generations[r] \cap generations[s]
        BY <3>8, <4>2
      <4> QED BY <3>8, <4>1, <4>2, <4>3
    <3> QED BY <2>3, <3>1, <3>5, <3>6, <3>8
  <2> QED BY <2>4, <2>5
<1> QED BY <1>1, <1>2, VersionSteps

\* The attempt that uses up the limit is the one that gives up or succeeds.
LEMMA ExhaustedStep ==
    ASSUME TypeOK, JobsOK, AnswersHold, ExhaustedIsDecided, Next
    PROVE  ExhaustedIsDecided'
<1> SUFFICES ASSUME NEW r \in Runs, run'[r].attempts = MaxRecovery
             PROVE  run'[r].lost \/ run'[r].result
  BY DEF ExhaustedIsDecided
<1>1. CASE Kept(r)
  BY <1>1 DEF Kept, ExhaustedIsDecided
<1>2. CASE ClaimTerm(r)
  <2>1. run'[r].attempts = 0
    BY <1>2 DEF ClaimTerm, NoRow, TypeOK
  <2> QED BY <2>1, ConstantsAssumption
<1>3. CASE StartAcknowledged(r) \/ StartResolvesFailure(r) \/ CancelLocally(r) \/ CancelRecorded(r)
  BY <1>3, HandlerWrites DEF ExhaustedIsDecided
<1>4. ASSUME NEW w \in Workers, job[w].run = r, CommitUpdate(w) \/ CommitWithGeneration(w)
      PROVE  run'[r].lost \/ run'[r].result
  <2>1. /\ job[w].pc \in {"updated", "allocated"} /\ AnswerOK(job[w]) /\ AnswerHolds(job[w])
        /\ job[w] \in Job
    BY <1>4, CommitWrites DEF CommitUpdate, CommitWithGeneration, AnswersHold
  <2>2. /\ run'[r].attempts = IF job[w].mode = "recover" THEN job[w].tries + 1 ELSE run[r].attempts
        /\ run'[r].lost = IF job[w].ans = "GIVE_UP" THEN TRUE ELSE run[r].lost
        /\ run'[r].result = IF job[w].got THEN TRUE ELSE run[r].result
    <3>1. /\ run'[r].result = Written(job[w], run[r]).result
          /\ run'[r].attempts = Written(job[w], run[r]).attempts
          /\ run'[r].lost = Written(job[w], run[r]).lost
      BY <1>4, CommitWrites
    <3> QED BY <3>1 DEF Written
  <2>3. CASE job[w].mode = "recover"
    <3>1. job[w].tries + 1 = MaxRecovery
      BY <2>2, <2>3
    <3>2. job[w].ans # "RETRY"
      BY <2>1, <2>3, <3>1, ConstantsAssumption DEF AnswerHolds
    <3>3. job[w].ans = "GIVE_UP" \/ job[w].got
      BY <2>1, <2>3, <3>2 DEF AnswerOK, AnswerHolds
    <3> QED BY <2>2, <3>3
  <2>4. CASE job[w].mode # "recover"
    BY <2>2, <2>4 DEF ExhaustedIsDecided
  <2> QED BY <2>3, <2>4
<1> QED BY <1>1, <1>2, <1>3, <1>4, RowSteps

-----------------------------------------------------------------------------
\* Nothing is registered, answered or proposed at first.
LEMMA OutcomeInit == ASSUME Init PROVE Outcome
<1>1. RegisteredOnce /\ SuccessesStand /\ Named
  BY DEF Init, RegisteredOnce, SuccessesStand, Named, NoRow, Idle
<1>2. IdsIssued
  BY DEF Init, IdsIssued, Issued, NoRow, Idle
<1>3. AnswersHold /\ VersionsHeld
  BY DEF Init, AnswersHold, AnswerHolds, VersionsHeld, Idle
<1>4. ResultIsProposedOnce
  BY DEF Init, ResultIsProposedOnce, NoRow
<1>5. VersionSeries
  <2> SUFFICES ASSUME NEW t \in Terms
               PROVE  /\ UNION {generations[r] : r \in {r \in Runs : TermOf[r] = t}} = 1..latest[t]
                      /\ \A r, s \in Runs : generations[r] \cap generations[s] = {}
    BY DEF VersionSeries
  <2>1. latest[t] = 0 /\ \A r \in Runs : generations[r] = {}
    BY DEF Init
  <2> QED BY <2>1
<1>6. ExhaustedIsDecided
  BY ConstantsAssumption DEF Init, ExhaustedIsDecided, NoRow
<1> QED BY <1>1, <1>2, <1>3, <1>4, <1>5, <1>6 DEF Outcome

\* Every step preserves Outcome, one lemma for each conjunct.
LEMMA OutcomeStep == ASSUME Inv, Outcome, [Next]_vars PROVE Outcome'
<1>1. CASE Next
  <2> USE <1>1 DEF Inv, Outcome
  <2>1. RegisteredOnce' /\ IdsIssued' /\ AnswersHold'
    BY SolverSteps, IdsStep, AnswersStep
  <2>2. SuccessesStand' /\ VersionsHeld' /\ Named'
    BY SuccessesStep, VersionsStep, NamedStep
  <2>3. ResultIsProposedOnce' /\ VersionSeries' /\ ExhaustedIsDecided'
    BY ResultStep, SeriesStep, ExhaustedStep
  <2> QED BY <2>1, <2>2, <2>3
<1>2. CASE UNCHANGED vars
  BY <1>2 DEF Outcome, vars, RegisteredOnce, IdsIssued, Issued, AnswersHold, AnswerHolds,
     SuccessesStand, Succeeded, VersionsHeld, Named, ResultIsProposedOnce, VersionSeries,
     ExhaustedIsDecided
<1> QED BY <1>1, <1>2

\* What a poll knows of a run stays true until the poll commits it, for any
\* number of runs, terms, pollers and watchers: the inductive invariant of the
\* four theorems below, which each name what an administrator sees of it.
THEOREM OutcomeInvariance == Spec => [](Inv /\ Outcome)
<1>1. Init => Inv /\ Outcome
  BY InvInit, OutcomeInit
<1>2. Inv /\ Outcome /\ [Next]_vars => (Inv /\ Outcome)'
  BY InvStep, OutcomeStep
<1> QED BY <1>1, <1>2, PTL DEF Spec

\* However many pollers and watchers see a run finish, and wherever they are
\* cut off, its result is stored with one generation or with none.
THEOREM ResultProposedOnce == Spec => []ResultIsProposedOnce
<1>1. Outcome => ResultIsProposedOnce
  BY DEF Outcome
<1> QED BY <1>1, OutcomeInvariance, PTL

\* The generations of a term are numbered without gap or clash, although the
\* next version is read before the generation is written.
THEOREM VersionsInSeries == Spec => []VersionSeries
<1>1. Outcome => VersionSeries
  BY DEF Outcome
<1> QED BY <1>1, OutcomeInvariance, PTL

\* A run the solver was told to cancel, and did, is never proposed.
THEOREM CancelledNotProposed == Spec => []CancelledIsNeverProposed
<1>1. Outcome => CancelledIsNeverProposed
  BY DEF Outcome, SuccessesStand, Succeeded, CancelledIsNeverProposed
<1> QED BY <1>1, OutcomeInvariance, PTL

\* A run whose last recovery attempt is spent has its result or is marked lost.
THEOREM ExhaustedDecided == Spec => []ExhaustedIsDecided
<1>1. Outcome => ExhaustedIsDecided
  BY DEF Outcome
<1> QED BY <1>1, OutcomeInvariance, PTL

-----------------------------------------------------------------------------
(***************************************************************************)
(* SolverRun implements TermProposals                                      *)
(***************************************************************************)
\* The promise sees no step that keeps every row's status and generation.
LEMMA Unseen ==
    ASSUME \A r \in Runs : Kept(r), UNCHANGED latest
    PROVE  UNCHANGED Promise!vars
  BY DEF Promise!vars, Kept, Active

\* In the promise's eyes a step that writes one row q moves q and nothing else.
LEMMA OneRow ==
    ASSUME TypeOK, NEW q \in Runs, \A r \in Runs \ {q} : run'[r] = run[r]
    PROVE  /\ run[q].status # "NONE" /\ run'[q].status # "NONE" =>
                UNCHANGED {r \in Runs : run[r].status # "NONE"}
           /\ ~Active(q)' => {r \in Runs : Active(r)}' = {r \in Runs : Active(r)} \ {q}
           /\ Active(q)' => {r \in Runs : Active(r)}' = {r \in Runs : Active(r)} \cup {q}
           /\ run'[q].generation = run[q].generation =>
                UNCHANGED [r \in Runs |-> run[r].generation]
  BY DEF Active

\* A run that exists ends, stays as it is, or comes back to a free term.
LEMMA StatusWritten ==
    ASSUME TypeOK, NEW q \in Runs, \A r \in Runs \ {q} : run'[r] = run[r],
           run[q].status # "NONE", run'[q].status # "NONE",
           run'[q].generation = run[q].generation, UNCHANGED latest,
           Active(q)' => Active(q) \/ \A s \in Siblings(q) : ~Active(s)
    PROVE  [Promise!Next]_(Promise!vars)
<1> DEFINE claimed   == {r \in Runs : run[r].status # "NONE"}
           occupying == {r \in Runs : Active(r)}
           proposal  == [r \in Runs |-> run[r].generation]
<1>1. UNCHANGED <<claimed, proposal, latest>>
  BY OneRow
<1>2. q \in claimed
  OBVIOUS
<1>3. CASE Active(q)' /\ Active(q)
  <2>1. UNCHANGED occupying
    BY <1>3, OneRow
  <2> QED BY <1>1, <2>1 DEF Promise!vars
<1>4. CASE Active(q)' /\ ~Active(q)
  <2>1. occupying' = occupying \cup {q}
    BY <1>4, OneRow
  <2>2. Promise!Free(TermOf[q])
    BY <1>4 DEF Promise!Free, Siblings
  <2> QED BY <1>1, <1>2, <2>1, <2>2 DEF Promise!Next, Promise!Retake
<1>5. CASE ~Active(q)'
  <2>1. occupying' = occupying \ {q}
    BY <1>5, OneRow
  <2>2. CASE Active(q)
    BY <1>1, <2>1, <2>2 DEF Promise!Next, Promise!Release
  <2>3. CASE ~Active(q)
    BY <1>1, <2>1, <2>3 DEF Promise!vars
  <2> QED BY <2>2, <2>3
<1> QED BY <1>3, <1>4, <1>5

\* No run is proposed, cancelled or under way to begin with, in either
\* specification.
LEMMA PromiseInit == ASSUME Init PROVE Promise!Init
  BY DEF Init, Promise!Init, NoRow, Active, ActiveStatus

\* Every step of SolverRun is a step of TermProposals on the mapped state, or
\* leaves the mapped state as it is.
LEMMA PromiseStep ==
    ASSUME Inv, Outcome, [Next]_vars
    PROVE  [Promise!Next]_(Promise!vars)
<1> USE DEF Inv, rowVars, lockVars, startVars, solverVars
<1>a. Workers = Pollers \cup Watchers
  BY DEF Workers
<1>1. ASSUME UNCHANGED <<run, latest>> PROVE UNCHANGED Promise!vars
  BY <1>1 DEF Promise!vars, Active
<1>2. ASSUME NEW q \in Runs, ClaimTerm(q) PROVE [Promise!Next]_(Promise!vars)
  <2>1. /\ run' = [run EXCEPT ![q] = [NoRow EXCEPT !.status = "PENDING", !.due = TRUE]]
        /\ UNCHANGED latest /\ starter[q] = "ready"
    BY <1>2 DEF ClaimTerm
  <2>2. run'[q].status = "PENDING" /\ run'[q].generation = 0 /\ \A r \in Runs \ {q} : run'[r] = run[r]
    BY <2>1 DEF TypeOK, NoRow
  <2>3. run[q].status = "NONE" /\ run[q].generation = 0
    <3>1. generations[q] = {} /\ run[q].status = "NONE"
      BY <2>1 DEF Outcome, Named, SuccessesStand, Succeeded
    <3>2. generations[q] = {run[q].generation} \ {0}
      BY DEF Outcome, ResultIsProposedOnce
    <3> QED BY <3>1, <3>2
  <2>4. {r \in Runs : Active(r)}' = {r \in Runs : Active(r)} \cup {q}
    BY <2>2 DEF Active, ActiveStatus
  <2>5. {r \in Runs : run[r].status # "NONE"}' = {r \in Runs : run[r].status # "NONE"} \cup {q}
    BY <2>2
  <2>6. UNCHANGED [r \in Runs |-> run[r].generation]
    BY <2>2, <2>3
  <2>7. Promise!Free(TermOf[q])
    BY <1>2, <2>3 DEF ClaimTerm, IndexRejects, Siblings, Promise!Free, Active, ActiveStatus
  <2> QED BY <2>1, <2>3, <2>4, <2>5, <2>6, <2>7 DEF Promise!Next, Promise!Claim
<1>3. ASSUME NEW q \in Runs, \/ StartAcknowledged(q) \/ StartResolvesFailure(q)
             \/ CancelLocally(q) \/ CancelRecorded(q)
      PROVE  [Promise!Next]_(Promise!vars)
  <2>1. UNCHANGED latest /\ \A r \in Runs \ {q} : run'[r] = run[r]
    BY <1>3 DEF StartAcknowledged, StartResolvesFailure, CancelLocally, CancelRecorded,
       UpdateRow, TypeOK
  <2>2. /\ run'[q].generation = run[q].generation /\ run'[q].status # "NONE"
        /\ ~StartAcknowledged(q) => run'[q].status \in TerminalStatus
    BY <1>3, HandlerWrites
  <2>3. run[q].status # "NONE"
    <3>1. starter[q] # "ready" \/ canceller[q] # "none"
      BY <1>3 DEF StartAcknowledged, StartResolvesFailure, CancelLocally, CancelRecorded,
         TerminalStatus
    <3> QED BY <3>1 DEF Outcome, Named
  <2>4. Active(q)' => Active(q) \/ \A s \in Siblings(q) : ~Active(s)
    <3>1. CASE StartAcknowledged(q)
      BY <3>1 DEF StartAcknowledged, IndexRejects
    <3>2. CASE ~StartAcknowledged(q)
      BY <2>2, <3>2 DEF Active, ActiveStatus, TerminalStatus
    <3> QED BY <3>1, <3>2
  <2> QED BY <2>1, <2>2, <2>3, <2>4, StatusWritten
<1>4. ASSUME NEW S \in SUBSET Runs, NEW b \in BOOLEAN, UNCHANGED latest,
             run' = [r \in Runs |-> IF r \in S THEN [run[r] EXCEPT !.due = b] ELSE run[r]]
      PROVE  UNCHANGED Promise!vars
  <2>1. \A r \in Runs : Kept(r)
    BY <1>4 DEF Kept, TypeOK, Row
  <2> QED BY <1>4, <2>1, Unseen
<1>5. ASSUME NEW w \in Workers, CommitUpdate(w) PROVE [Promise!Next]_(Promise!vars)
  <2>0. PICK q \in Runs : q = job[w].run
    BY <1>5 DEF CommitUpdate, JobsOK, JobOK
  <2>1. /\ rowLock[q] = w /\ w # None
        /\ UNCHANGED latest /\ \A r \in Runs \ {q} : run'[r] = run[r]
    BY <1>5, <2>0, ConstantsAssumption DEF CommitUpdate, TypeOK, LocksHeld, Workers
  <2>2. /\ run'[q].generation = run[q].generation
        /\ run'[q].status = Written(job[w], run[q]).status
    BY <1>5, <2>0, CommitWrites
  <2>3. run[q].status # "NONE" /\ run'[q].status # "NONE"
    <3>1. run[q].status # "NONE"
      BY <1>5, <2>0 DEF CommitUpdate, Outcome, Named
    <3>2. AnswerOK(job[w]) /\ job[w] \in Job
      BY <1>5, <2>0, CommitWrites
    <3> QED BY <2>2, <3>1, <3>2 DEF Written, AnswerOK, Job, TerminalStatus
  <2>4. Active(q)' => \A s \in Siblings(q) : ~Active(s)
    <3>1. Active(q)' => Occupies(q)
      BY <2>0, <2>1, <2>2 DEF Active, Occupies, BecomesActive
    <3> QED BY <2>1, <3>1 DEF TermsExclusive, Siblings, Occupies
  <2> QED BY <2>1, <2>2, <2>3, <2>4, StatusWritten
<1>6. ASSUME NEW w \in Workers, CommitWithGeneration(w) PROVE Promise!Next
  <2>0. PICK q \in Runs : q = job[w].run
    BY <1>6, CommitAnswers DEF Outcome
  <2>1. /\ TermOf[q] \in Terms /\ run[q].generation = 0
        /\ job[w].version = latest[TermOf[q]] + 1
    BY <1>6, <2>0, CommitAnswers DEF Outcome
  <2> DEFINE v == latest[TermOf[q]] + 1
  <2>2. latest' = [latest EXCEPT ![TermOf[q]] = v] /\ \A r \in Runs \ {q} : run'[r] = run[r]
    BY <1>6, <2>0, <2>1 DEF CommitWithGeneration, TypeOK
  <2>3. run'[q].generation = v /\ run'[q].status = Written(job[w], run[q]).status
    BY <1>6, <2>0, <2>1, CommitWrites
  <2>4. run[q].status # "NONE"
    BY <1>6, <2>0 DEF CommitWithGeneration, Outcome, Named
  <2>5. job[w].ans = "SUCCEEDED"
    BY <1>6, CommitAnswers DEF Outcome, AnswersHold, AnswerHolds
  <2>6. run'[q].status \in {"SUCCEEDED", run[q].status}
    BY <2>3, <2>5 DEF Written
  <2> HIDE DEF v
  <2>7. UNCHANGED {r \in Runs : run[r].status # "NONE"}
    BY <2>2, <2>4, <2>6
  <2>8. {r \in Runs : Active(r)}' \in {{r \in Runs : Active(r)}, {r \in Runs : Active(r)} \ {q}}
    <3>1. CASE run'[q].status = run[q].status
      BY <2>2, <3>1 DEF Active
    <3>2. CASE run'[q].status = "SUCCEEDED"
      BY <2>2, <3>2 DEF Active, ActiveStatus
    <3> QED BY <2>6, <3>1, <3>2
  <2>9. [r \in Runs |-> run[r].generation]'
          = [[r \in Runs |-> run[r].generation] EXCEPT ![q] = v]
    BY <2>2, <2>3
  <2>10. latest' = [latest EXCEPT ![TermOf[q]] = @ + 1]
    BY <2>1, <2>2 DEF v, TypeOK
  <2>11. Promise!Propose(q)
    BY <2>1, <2>4, <2>7, <2>8, <2>9, <2>10 DEF Promise!Propose, v
  <2> QED BY <2>11 DEF Promise!Next
<1>7. CASE UNCHANGED vars
  BY <1>1, <1>7 DEF vars
<1>8. CASE Next
  <2>1. latest' = latest \/ \E w \in Workers : CommitWithGeneration(w)
    BY <1>8, VersionSteps
  <2>2. CASE latest' = latest /\ ~\E w \in Workers : CommitWithGeneration(w)
    <3>1. ASSUME NEW w \in Workers, UpdateStatement(w) \/ AllocateVersion(w) PROVE UNCHANGED run
      BY <3>1 DEF UpdateStatement, AllocateVersion
    <3> QED BY <1>8, <1>1, <1>2, <1>3, <1>4, <1>5, <2>2, <3>1, Footprints
  <2> QED BY <1>6, <2>1, <2>2
<1> QED BY <1>7, <1>8

\* Whatever the pollers, handlers and the solver do, in whatever order and
\* wherever they are cut off, a term is given to one run at a time, free in
\* between, and its proposals are numbered as they are made, one to a run.
THEOREM Implements == Spec => KeepsPromise
<1>1. Init => Promise!Init
  BY PromiseInit
<1>2. Inv /\ Outcome /\ [Next]_vars => [Promise!Next]_(Promise!vars)
  BY PromiseStep
<1> QED BY <1>1, <1>2, OutcomeInvariance, PTL DEF Spec, KeepsPromise, Promise!Spec

=============================================================================
