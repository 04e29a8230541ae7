------------------------------ MODULE SolverRun ------------------------------
(***************************************************************************)
(* The life of a solver run: the row the app keeps in solver_run, the      *)
(* handlers and background pollers that write it, and the solver behind    *)
(* gRPC, which keeps its own runs in memory only.                          *)
(*                                                                         *)
(*   POST   /api/solver/runs             Claim..., StartRun..., Start...   *)
(*   POST   /api/solver/runs/:id/cancel  Cancel...                         *)
(*   GET    /api/solver/runs/:id         Watch, then the poll steps        *)
(*   server/plugins/solverPoller.ts      ClaimDueRuns, then the poll steps *)
(*                                                                         *)
(* Concurrency is Postgres READ COMMITTED (withTenant names no isolation   *)
(* level). A handler that reads, awaits and writes is several actions; a   *)
(* transaction that holds a row lock or an advisory lock across further    *)
(* statements holds it in rowLock or versionLock until Commit or Abort.    *)
(* One tenant is modelled: row-level security keeps tenants apart, and the *)
(* locks and indexes below are keyed by tenant as well as by term.         *)
(*                                                                         *)
(* Time is abstract. The column next_poll_at is the flag "due": NULL or in *)
(* the past is TRUE, a lease or a cadence in the future is FALSE, and      *)
(* TimePasses may elapse it at any moment.                                 *)
(***************************************************************************)
EXTENDS Integers, FiniteSets

CONSTANTS
    Runs,         \* the ids of solver_run rows that may ever be created
    Terms,
    TermOf,       \* the term a run is requested for
    Pollers,      \* app instances, each with one background poller
    Watchers,     \* GET /api/solver/runs/:id requests in flight
    None,         \* SQL NULL, and "no holder" of a lock
    MaxRestarts,  \* bound: how often the solver process restarts
    MaxRecovery,  \* MAX_RECOVERY_ATTEMPTS
    StarterMayCrash,   \* whether an instance may die inside POST /solver/runs
    LeaseOutlastsSweep \* whether a lease never runs out under a working poller

ASSUME ConstantsAssumption ==
    /\ TermOf \in [Runs -> Terms]
    /\ MaxRestarts \in Nat
    /\ MaxRecovery \in Nat \ {0}
    /\ StarterMayCrash \in BOOLEAN
    /\ LeaseOutlastsSweep \in BOOLEAN
    /\ None \notin Runs \cup Pollers \cup Watchers \cup (0..MaxRestarts)
    /\ Pollers \cap Watchers = {}

Workers == Pollers \cup Watchers

ActiveStatus   == {"PENDING", "QUEUED", "RUNNING"}
TerminalStatus == {"SUCCEEDED", "CANCELLED", "FAILED"}
Status         == {"NONE"} \cup ActiveStatus \cup TerminalStatus

VARIABLES
    run,         \* solver_run, by id; status "NONE" while there is no such row
    generations, \* versions of the generations whose solver_meta names this run
    latest,      \* highest generation version of a term, 0 when it has none
    rowLock,     \* transaction holding the row lock of a solver_run row
    versionLock, \* transaction holding the advisory lock of a term's versions
    starter,     \* program counter of the POST /solver/runs request of a run
    ack,         \* the external run id StartRun answered that request with
    canceller,   \* what a cancel request knows: see CancelRead
    batch,       \* rows a poller claimed and has not come to yet
    job,         \* the poll a worker is in the middle of
    registry,    \* the solver's in-memory run registry
    epoch        \* how often the solver has restarted

rowVars    == <<run, generations, latest>>
lockVars   == <<rowLock, versionLock>>
startVars  == <<starter, ack>>
solverVars == <<registry, epoch>>
vars == <<run, generations, latest, rowLock, versionLock, starter, ack,
          canceller, batch, job, registry, epoch>>

-----------------------------------------------------------------------------
(***************************************************************************)
(* Types                                                                   *)
(***************************************************************************)
Versions == Nat
Epochs   == 0..MaxRestarts

Row == [status: Status,
        ext: Epochs \cup {None},   \* external_run_id: valid in one epoch only
        due: BOOLEAN,              \* next_poll_at is NULL or past
        result: BOOLEAN,           \* result IS NOT NULL
        attempts: 0..MaxRecovery,  \* result_recovery_attempts
        lost: BOOLEAN,             \* result_lost_at IS NOT NULL
        generation: Versions]      \* generation_id, by version; 0 is NULL

\* What a worker remembers of a row it read: pollSolverRun and
\* recoverRunResult act on this copy, not on the row.
Snapshot == [run: Runs, mode: {"poll", "recover"},
             ext: Epochs \cup {None}, tries: 0..MaxRecovery]

SolverStatus == {"absent", "QUEUED", "RUNNING"} \cup TerminalStatus

Answers == SolverStatus \cup {"NOT_FOUND", "RETRY", "GIVE_UP", "none"}

Job == [pc: {"idle", "asking", "fetching", "updating", "updated", "allocated"},
        run: Runs \cup {None}, mode: {"poll", "recover"},
        ext: Epochs \cup {None}, tries: 0..MaxRecovery,
        ans: Answers, got: BOOLEAN, version: Versions]

Idle == [pc |-> "idle", run |-> None, mode |-> "poll", ext |-> None,
         tries |-> 0, ans |-> "none", got |-> FALSE, version |-> 0]

NoRow == [status |-> "NONE", ext |-> None, due |-> FALSE, result |-> FALSE,
          attempts |-> 0, lost |-> FALSE, generation |-> 0]

TypeOK ==
    /\ run \in [Runs -> Row]
    /\ generations \in [Runs -> SUBSET Versions]
    /\ latest \in [Terms -> Versions]
    /\ rowLock \in [Runs -> Workers \cup {None}]
    /\ versionLock \in [Terms -> Workers \cup {None}]
    /\ starter \in [Runs -> {"ready", "calling", "accepted", "failed", "done", "dead"}]
    /\ ack \in [Runs -> Epochs \cup {None}]
    /\ canceller \in [Runs -> {"none", "local", "remote"} \cup TerminalStatus]
    /\ batch \in [Pollers -> SUBSET Snapshot]
    /\ job \in [Workers -> Job]
    /\ registry \in [Runs -> SolverStatus]
    /\ epoch \in Epochs

Init ==
    /\ run = [r \in Runs |-> NoRow]
    /\ generations = [r \in Runs |-> {}]
    /\ latest = [t \in Terms |-> 0]
    /\ rowLock = [r \in Runs |-> None]
    /\ versionLock = [t \in Terms |-> None]
    /\ starter = [r \in Runs |-> "ready"]
    /\ ack = [r \in Runs |-> None]
    /\ canceller = [r \in Runs |-> "none"]
    /\ batch = [p \in Pollers |-> {}]
    /\ job = [w \in Workers |-> Idle]
    /\ registry = [r \in Runs |-> "absent"]
    /\ epoch = 0

-----------------------------------------------------------------------------
(***************************************************************************)
(* The database                                                            *)
(***************************************************************************)
Active(r) == run[r].status \in ActiveStatus

Siblings(r) == {s \in Runs \ {r} : TermOf[s] = TermOf[r]}

\* Mutated form of IndexRejects: an index that leaves RUNNING out.
IndexForgetsRunning(r) == \E s \in Siblings(r) : run[s].status \in {"PENDING", "QUEUED"}

\* solver_run_one_active_per_term would reject row r becoming active.
IndexRejects(r) == \E s \in Siblings(r) : Active(s)

\* What the UPDATE of job j makes of a row. A poll writes the status and, at
\* the end, the result; a recovery leaves the status alone and writes what
\* became of the capture. next_poll_at is NULL after anything final.
Written(j, row) ==
    [status     |-> IF j.mode = "recover" THEN row.status
                    ELSE IF j.ans = "NOT_FOUND" THEN "FAILED" ELSE j.ans,
     ext        |-> row.ext,
     due        |-> IF j.ans \in {"QUEUED", "RUNNING", "RETRY"} THEN FALSE ELSE TRUE,
     result     |-> IF j.got THEN TRUE ELSE row.result,
     attempts   |-> IF j.mode = "recover" THEN j.tries + 1 ELSE row.attempts,
     lost       |-> IF j.ans = "GIVE_UP" THEN TRUE ELSE row.lost,
     generation |-> row.generation]

BecomesActive(j) == Written(j, run[j.run]).status \in ActiveStatus

\* A statement that makes r active waits for an open transaction in which a
\* row of the same term starts or stops being active, or stays it: the index
\* cannot decide before that transaction ends.
IndexReady(r) == \A s \in Siblings(r) :
    rowLock[s] # None => ~Active(s) /\ ~BecomesActive(job[rowLock[s]])

\* An UPDATE of one row, in a transaction of its own.
UpdateRow(r, new) ==
    /\ rowLock[r] = None
    /\ run' = [run EXCEPT ![r] = new]

-----------------------------------------------------------------------------
(***************************************************************************)
(* The solver, seen through gRPC                                           *)
(***************************************************************************)
\* The registry forgets everything on a restart: an id of an earlier epoch
\* is NOT_FOUND.
Known(r, ext) == ext = epoch /\ registry[r] # "absent"

SolverRuns(r) ==
    /\ registry[r] = "QUEUED"
    /\ registry' = [registry EXCEPT ![r] = "RUNNING"]
    /\ UNCHANGED <<rowVars, lockVars, startVars, canceller, batch, job, epoch>>

SolverFinishes(r) ==
    /\ registry[r] = "RUNNING"
    /\ \E s \in {"SUCCEEDED", "FAILED"} : registry' = [registry EXCEPT ![r] = s]
    /\ UNCHANGED <<rowVars, lockVars, startVars, canceller, batch, job, epoch>>

SolverRestarts ==
    /\ epoch < MaxRestarts
    /\ epoch' = epoch + 1
    /\ registry' = [r \in Runs |-> "absent"]
    /\ UNCHANGED <<rowVars, lockVars, startVars, canceller, batch, job>>

-----------------------------------------------------------------------------
(***************************************************************************)
(* POST /api/solver/runs                                                   *)
(***************************************************************************)
\* The claiming transaction: pre-flight, snapshot and the PENDING row. A
\* rejected insert answers 409 and leaves no row.
ClaimTerm(r) ==
    /\ starter[r] = "ready"
    /\ IndexReady(r)
    /\ ~IndexRejects(r)
    /\ run' = [run EXCEPT ![r] = [NoRow EXCEPT !.status = "PENDING", !.due = TRUE]]
    /\ starter' = [starter EXCEPT ![r] = "calling"]
    /\ UNCHANGED <<ack, generations, latest, lockVars, canceller, batch, job, solverVars>>

\* The call reaches the solver, which registers the run and answers.
StartRunAccepted(r) ==
    /\ starter[r] = "calling"
    /\ registry' = [registry EXCEPT ![r] = "QUEUED"]
    /\ ack' = [ack EXCEPT ![r] = epoch]
    /\ starter' = [starter EXCEPT ![r] = "accepted"]
    /\ UNCHANGED <<rowVars, lockVars, canceller, batch, job, epoch>>

\* The solver refuses, or the transport fails: before the solver saw the call,
\* or after it registered the run and before its answer came back.
StartRunFails(r) ==
    /\ starter[r] \in {"calling", "accepted"}
    /\ starter' = [starter EXCEPT ![r] = "failed"]
    /\ UNCHANGED <<ack, rowVars, lockVars, canceller, batch, job, solverVars>>

\* The acknowledgement is written without looking at the row again.
StartAcknowledged(r) ==
    /\ starter[r] = "accepted"
    /\ Active(r) \/ (IndexReady(r) /\ ~IndexRejects(r))
    /\ UpdateRow(r, [run[r] EXCEPT !.status = "QUEUED", !.ext = ack[r], !.due = FALSE])
    /\ starter' = [starter EXCEPT ![r] = "done"]
    /\ UNCHANGED <<ack, generations, latest, lockVars, canceller, batch, job, solverVars>>

\* Writing QUEUED over a row cancelled meanwhile collides with a newer run of
\* the term; the handler's catch then takes the failure path.
StartRejectedByIndex(r) ==
    /\ starter[r] = "accepted"
    /\ ~Active(r) /\ IndexReady(r) /\ IndexRejects(r)
    /\ starter' = [starter EXCEPT ![r] = "failed"]
    /\ UNCHANGED <<ack, rowVars, lockVars, canceller, batch, job, solverVars>>

StartResolvesFailure(r) ==
    /\ starter[r] = "failed"
    /\ UpdateRow(r, [run[r] EXCEPT !.status = "FAILED"])
    /\ starter' = [starter EXCEPT ![r] = "done"]
    /\ UNCHANGED <<ack, generations, latest, lockVars, canceller, batch, job, solverVars>>

StarterCrashes(r) ==
    /\ StarterMayCrash
    /\ starter[r] \in {"calling", "accepted", "failed"}
    /\ starter' = [starter EXCEPT ![r] = "dead"]
    /\ UNCHANGED <<ack, rowVars, lockVars, canceller, batch, job, solverVars>>

-----------------------------------------------------------------------------
(***************************************************************************)
(* POST /api/solver/runs/:id/cancel                                        *)
(***************************************************************************)
\* The row is read in one transaction and written in another. A terminal row
\* is answered at once, so only an active one leaves the handler waiting:
\* "local" without an external id, "remote" with one.
CancelRead(r) ==
    /\ canceller[r] = "none"
    /\ Active(r)
    /\ canceller' = [canceller EXCEPT ![r] = IF run[r].ext = None THEN "local" ELSE "remote"]
    /\ UNCHANGED <<rowVars, lockVars, startVars, batch, job, solverVars>>

CancelLocally(r) ==
    /\ canceller[r] = "local"
    /\ UpdateRow(r, [run[r] EXCEPT !.status = "CANCELLED"])
    /\ canceller' = [canceller EXCEPT ![r] = "none"]
    /\ UNCHANGED <<generations, latest, lockVars, startVars, batch, job, solverVars>>

\* Mutated form of CancelRemotely: a finished run is taken for cancelled too.
CancelsFinishedRun(r) ==
    /\ canceller[r] = "remote"
    /\ Known(r, run[r].ext)
    /\ registry' = [registry EXCEPT ![r] = "CANCELLED"]
    /\ canceller' = [canceller EXCEPT ![r] = "CANCELLED"]
    /\ UNCHANGED <<rowVars, lockVars, startVars, batch, job, epoch>>

\* CancelRun stops a run that is still going and reports the status that
\* results; a finished run is reported as it ended.
CancelRemotely(r) ==
    /\ canceller[r] = "remote"
    /\ Known(r, run[r].ext)
    /\ LET result == IF registry[r] \in {"QUEUED", "RUNNING"} THEN "CANCELLED" ELSE registry[r]
       IN  /\ registry' = [registry EXCEPT ![r] = result]
           /\ canceller' = [canceller EXCEPT ![r] = result]
    /\ UNCHANGED <<rowVars, lockVars, startVars, batch, job, epoch>>

\* NOT_FOUND, or the solver cannot be reached: 422 or 502, nothing written.
\* Or the instance dies between the call and the write.
CancelAbandoned(r) ==
    /\ canceller[r] # "none"
    /\ canceller' = [canceller EXCEPT ![r] = "none"]
    /\ UNCHANGED <<rowVars, lockVars, startVars, batch, job, solverVars>>

CancelRecorded(r) ==
    /\ canceller[r] \in TerminalStatus
    /\ UpdateRow(r, [run[r] EXCEPT !.status = canceller[r]])
    /\ canceller' = [canceller EXCEPT ![r] = "none"]
    /\ UNCHANGED <<generations, latest, lockVars, startVars, batch, job, solverVars>>

-----------------------------------------------------------------------------
(***************************************************************************)
(* Taking a run to poll                                                    *)
(***************************************************************************)
\* Mutated form of NeedsRecovery: only runs in flight are ever claimed.
NeverNeedsRecovery(row) == FALSE

NeedsRecovery(row) ==
    /\ row.status = "SUCCEEDED"
    /\ ~row.result
    /\ ~row.lost
    /\ row.ext # None
    /\ row.attempts < MaxRecovery

Claimable(r) ==
    /\ run[r].due
    /\ Active(r) \/ NeedsRecovery(run[r])
    /\ rowLock[r] = None    \* FOR UPDATE SKIP LOCKED

SnapshotOf(r) ==
    [run |-> r, mode |-> IF Active(r) THEN "poll" ELSE "recover",
     ext |-> run[r].ext, tries |-> run[r].attempts]

\* One sweep's claim. The lease is the only mark it leaves on the rows.
ClaimDueRuns(p) ==
    LET due == {r \in Runs : Claimable(r)} IN
    /\ job[p].pc = "idle" /\ batch[p] = {}
    /\ due # {}
    /\ run' = [r \in Runs |-> IF r \in due THEN [run[r] EXCEPT !.due = FALSE] ELSE run[r]]
    /\ batch' = [batch EXCEPT ![p] = {SnapshotOf(r) : r \in due}]
    /\ UNCHANGED <<generations, latest, lockVars, startVars, canceller, job, solverVars>>

Begin(w, s) == job' = [job EXCEPT ![w] =
    [Idle EXCEPT !.pc = "asking", !.run = s.run, !.mode = s.mode,
                 !.ext = s.ext, !.tries = s.tries]]

\* The sweep's loop comes to a claimed row. pollSolverRun returns at once for
\* a row that had no external id when it was claimed.
PollNext(p, r) ==
    /\ job[p].pc = "idle"
    /\ \E s \in {c \in batch[p] : c.run = r} :
        /\ batch' = [batch EXCEPT ![p] = @ \ {s}]
        /\ IF s.ext = None THEN UNCHANGED job ELSE Begin(p, s)
    /\ UNCHANGED <<rowVars, lockVars, startVars, canceller, solverVars>>

\* A GET reads the row and polls it, unless it is terminal or has no id yet.
Watch(w, r) ==
    /\ job[w].pc = "idle"
    /\ Active(r) /\ run[r].ext # None
    /\ Begin(w, SnapshotOf(r))
    /\ UNCHANGED <<rowVars, lockVars, startVars, canceller, batch, solverVars>>

\* A poller still owes a claimed row its poll.
Handling(p, r) == job[p].run = r \/ \E s \in batch[p] : s.run = r

\* A cadence or a lease runs out. The lease is 30 s for a batch of up to 20
\* rows, polled in turn with a 5 s timeout each, so it may run out first.
TimePasses(r) ==
    /\ run[r].status # "NONE" /\ ~run[r].due
    /\ LeaseOutlastsSweep => \A p \in Pollers : ~Handling(p, r)
    /\ run' = [run EXCEPT ![r].due = TRUE]
    /\ UNCHANGED <<generations, latest, lockVars, startVars, canceller, batch, job, solverVars>>

-----------------------------------------------------------------------------
(***************************************************************************)
(* pollSolverRun and recoverRunResult, one transaction per job             *)
(***************************************************************************)
Goto(w, pc) == job' = [job EXCEPT ![w].pc = pc]

\* The answer is in hand; the UPDATE is the next statement.
Decide(w, ans) == job' = [job EXCEPT ![w] = [@ EXCEPT !.pc = "updating", !.ans = ans]]

JobUnchanged == UNCHANGED <<rowVars, lockVars, startVars, canceller, batch, solverVars>>

\* Mutated form of AskStatus: NOT_FOUND is not told from any other status.
AskStatusOfForgotten(w) ==
    LET j == job[w] IN
    /\ j.pc = "asking" /\ j.mode = "poll"
    /\ IF registry[j.run] \in TerminalStatus
         THEN job' = [job EXCEPT ![w] = [@ EXCEPT !.pc = "fetching", !.ans = registry[j.run]]]
         ELSE Decide(w, registry[j.run])
    /\ JobUnchanged

\* Mutated form of AskStatus: NOT_FOUND is taken for an unreachable solver.
AskStatusOrWait(w) ==
    LET j == job[w] IN
    /\ j.pc = "asking" /\ j.mode = "poll"
    /\ IF ~Known(j.run, j.ext)
         THEN job' = [job EXCEPT ![w] = Idle]
         ELSE IF registry[j.run] \in TerminalStatus
           THEN job' = [job EXCEPT ![w] = [@ EXCEPT !.pc = "fetching", !.ans = registry[j.run]]]
           ELSE Decide(w, registry[j.run])
    /\ JobUnchanged

\* GetStatus without the result. Only a terminal status is worth a second call.
AskStatus(w) ==
    LET j == job[w] IN
    /\ j.pc = "asking" /\ j.mode = "poll"
    /\ IF ~Known(j.run, j.ext)
         THEN Decide(w, "NOT_FOUND")
         ELSE IF registry[j.run] \in TerminalStatus
           THEN job' = [job EXCEPT ![w] = [@ EXCEPT !.pc = "fetching", !.ans = registry[j.run]]]
           ELSE Decide(w, registry[j.run])
    /\ JobUnchanged

\* GetStatus with the result, in the step that saw the run end. Only a
\* SUCCEEDED run has one, and only while the solver remembers it; the call
\* may fail, which is swallowed.
FetchResult(w) ==
    LET j == job[w] IN
    /\ j.pc = "fetching"
    /\ \E got \in BOOLEAN :
        /\ got => Known(j.run, j.ext) /\ registry[j.run] = "SUCCEEDED"
        /\ job' = [job EXCEPT ![w] = [@ EXCEPT !.pc = "updating", !.got = got]]
    /\ JobUnchanged

\* Recovery asks for status and result at once. A solver that no longer knows
\* the run, or no longer calls it succeeded, ends the matter.
AskResult(w) ==
    LET j == job[w] IN
    /\ j.pc = "asking" /\ j.mode = "recover"
    /\ IF Known(j.run, j.ext) /\ registry[j.run] = "SUCCEEDED"
         THEN job' = [job EXCEPT ![w] = [@ EXCEPT !.pc = "updating", !.ans = "SUCCEEDED", !.got = TRUE]]
         ELSE Decide(w, "GIVE_UP")
    /\ JobUnchanged

\* Mutated form of SolverUnreachable: gives up one attempt too late.
UnreachableOffByOne(w) ==
    LET j == job[w] IN
    /\ j.pc = "asking"
    /\ IF j.mode = "poll" THEN job' = [job EXCEPT ![w] = Idle]
       ELSE Decide(w, IF j.tries >= MaxRecovery THEN "GIVE_UP" ELSE "RETRY")
    /\ JobUnchanged

\* UNAVAILABLE, DEADLINE_EXCEEDED or a broken channel. A poll leaves the row
\* exactly as it was; a recovery spends an attempt.
SolverUnreachable(w) ==
    LET j == job[w] IN
    /\ j.pc = "asking"
    /\ IF j.mode = "poll" THEN job' = [job EXCEPT ![w] = Idle]
       ELSE Decide(w, IF j.tries + 1 >= MaxRecovery THEN "GIVE_UP" ELSE "RETRY")
    /\ JobUnchanged

\* The UPDATE takes the row lock and keeps it to the end of the transaction.
\* It is not conditional on the status the row has by now.
UpdateStatement(w) ==
    LET j == job[w] IN
    /\ j.pc = "updating"
    /\ rowLock[j.run] = None
    /\ BecomesActive(j) /\ ~Active(j.run) => IndexReady(j.run) /\ ~IndexRejects(j.run)
    /\ rowLock' = [rowLock EXCEPT ![j.run] = w]
    /\ Goto(w, "updated")
    /\ UNCHANGED <<rowVars, versionLock, startVars, canceller, batch, solverVars>>

\* Mutated form of ShouldCreateGeneration: the row is not read again.
CreatesEveryTime(j) == j.ans = "SUCCEEDED" /\ Written(j, run[j.run]).result

\* Generations come out of a SUCCEEDED answer whose result is stored, unless
\* the row, read again under its lock, has one already.
ShouldCreateGeneration(j) ==
    /\ j.ans = "SUCCEEDED"
    /\ Written(j, run[j.run]).result
    /\ run[j.run].generation = 0

\* Mutated form of AllocateVersion: no advisory lock around max + 1 (and no
\* unique index on the version, which could only turn the clash into an error).
AllocateUnlocked(w) ==
    LET j == job[w]  t == TermOf[j.run] IN
    /\ j.pc = "updated" /\ ShouldCreateGeneration(j)
    /\ job' = [job EXCEPT ![w] = [@ EXCEPT !.pc = "allocated", !.version = latest[t] + 1]]
    /\ UNCHANGED <<rowVars, lockVars, startVars, canceller, batch, solverVars>>

\* pg_advisory_xact_lock on the term's versions, then version = max + 1.
AllocateVersion(w) ==
    LET j == job[w]  t == TermOf[j.run] IN
    /\ j.pc = "updated" /\ ShouldCreateGeneration(j)
    /\ versionLock[t] = None
    /\ versionLock' = [versionLock EXCEPT ![t] = w]
    /\ job' = [job EXCEPT ![w] = [@ EXCEPT !.pc = "allocated", !.version = latest[t] + 1]]
    /\ UNCHANGED <<rowVars, rowLock, startVars, canceller, batch, solverVars>>

Release(w) ==
    /\ rowLock' = [r \in Runs |-> IF rowLock[r] = w THEN None ELSE rowLock[r]]
    /\ versionLock' = [t \in Terms |-> IF versionLock[t] = w THEN None ELSE versionLock[t]]

CommitUpdate(w) ==
    LET j == job[w] IN
    /\ j.pc = "updated" /\ ~ShouldCreateGeneration(j)
    /\ run' = [run EXCEPT ![j.run] = Written(j, @)]
    /\ job' = [job EXCEPT ![w] = Idle]
    /\ Release(w)
    /\ UNCHANGED <<generations, latest, startVars, canceller, batch, solverVars>>

\* Mutated form of CommitWithGeneration: the row is not told its generation.
CommitUnlinked(w) ==
    LET j == job[w] IN
    /\ j.pc = "allocated"
    /\ run' = [run EXCEPT ![j.run] = Written(j, @)]
    /\ generations' = [generations EXCEPT ![j.run] = @ \cup {j.version}]
    /\ latest' = [latest EXCEPT ![TermOf[j.run]] = j.version]
    /\ job' = [job EXCEPT ![w] = Idle]
    /\ Release(w)
    /\ UNCHANGED <<startVars, canceller, batch, solverVars>>

CommitWithGeneration(w) ==
    LET j == job[w] IN
    /\ j.pc = "allocated"
    /\ run' = [run EXCEPT ![j.run] = [Written(j, @) EXCEPT !.generation = j.version]]
    /\ generations' = [generations EXCEPT ![j.run] = @ \cup {j.version}]
    /\ latest' = [latest EXCEPT ![TermOf[j.run]] = j.version]
    /\ job' = [job EXCEPT ![w] = Idle]
    /\ Release(w)
    /\ UNCHANGED <<startVars, canceller, batch, solverVars>>

\* The transaction ends without a trace: Prisma's 5 s timeout, an error in any
\* statement (a status the index rejects is one), a lost connection.
Abort(w) ==
    /\ job[w].pc # "idle"
    /\ job' = [job EXCEPT ![w] = Idle]
    /\ Release(w)
    /\ UNCHANGED <<rowVars, startVars, canceller, batch, solverVars>>

\* An app instance dies: its claimed rows wait for their lease to run out.
PollerCrashes(p) ==
    /\ job[p].pc # "idle" \/ batch[p] # {}
    /\ batch' = [batch EXCEPT ![p] = {}]
    /\ job' = [job EXCEPT ![p] = Idle]
    /\ Release(p)
    /\ UNCHANGED <<rowVars, startVars, canceller, solverVars>>

-----------------------------------------------------------------------------
Starting(r) ==
    \/ ClaimTerm(r) \/ StartRunAccepted(r) \/ StartRunFails(r)
    \/ StartAcknowledged(r) \/ StartRejectedByIndex(r)
    \/ StartResolvesFailure(r) \/ StarterCrashes(r)

Cancelling(r) ==
    \/ CancelRead(r) \/ CancelLocally(r) \/ CancelRemotely(r)
    \/ CancelAbandoned(r) \/ CancelRecorded(r)

Solving(r) == SolverRuns(r) \/ SolverFinishes(r)

Polling(w) ==
    \/ AskStatus(w) \/ FetchResult(w) \/ AskResult(w) \/ SolverUnreachable(w)
    \/ UpdateStatement(w) \/ AllocateVersion(w)
    \/ CommitUpdate(w) \/ CommitWithGeneration(w) \/ Abort(w)

Next ==
    \/ \E r \in Runs : Starting(r) \/ Cancelling(r) \/ Solving(r) \/ TimePasses(r)
    \/ \E p \in Pollers : ClaimDueRuns(p) \/ PollerCrashes(p)
    \/ \E p \in Pollers, r \in Runs : PollNext(p, r)
    \/ \E w \in Watchers, r \in Runs : Watch(w, r)
    \/ \E w \in Workers : Polling(w)
    \/ SolverRestarts

Spec == Init /\ [][Next]_vars

(***************************************************************************)
(* Fairness. Handlers and the solver run on (the solver within its wall    *)
(* clock budget), clocks advance, and a poller ticks for ever: weak        *)
(* fairness. Crashes, unreachable solvers and aborted transactions may     *)
(* happen again and again but not every single time: strong fairness of a  *)
(* poller's steps. A watcher or a canceller may vanish at any moment, but  *)
(* no transaction stays open: Prisma ends it after 5 s (Polling(w)).       *)
(***************************************************************************)
Fairness ==
    /\ \A r \in Runs :
        /\ WF_vars(StartRunAccepted(r) \/ StartRunFails(r))
        /\ WF_vars(StartAcknowledged(r) \/ StartRejectedByIndex(r))
        /\ WF_vars(StartResolvesFailure(r))
        /\ WF_vars(SolverRuns(r))
        /\ WF_vars(SolverFinishes(r))
        /\ WF_vars(TimePasses(r))
    /\ \A w \in Workers : WF_vars(Polling(w))
    /\ \A p \in Pollers :
        /\ SF_vars(ClaimDueRuns(p))
        /\ \A r \in Runs : SF_vars(PollNext(p, r))
        /\ SF_vars(AskStatus(p))
        /\ SF_vars(FetchResult(p))
        /\ SF_vars(AskResult(p))
        /\ SF_vars(UpdateStatement(p))
        /\ SF_vars(AllocateVersion(p))
        /\ SF_vars(CommitUpdate(p) \/ CommitWithGeneration(p))

FairSpec == Spec /\ Fairness

-----------------------------------------------------------------------------
(***************************************************************************)
(* Safety                                                                  *)
(***************************************************************************)
\* At most one run of a term is pending, queued or running, whatever the
\* start, cancel and poll handlers write in whatever order.
OneActiveRunPerTerm ==
    \A r, s \in Runs : Active(r) /\ Active(s) /\ TermOf[r] = TermOf[s] => r = s

\* Whichever path stores the result creates the proposal with it, once: a run
\* has a result exactly when it has a generation, and then exactly the one its
\* generation_id names, however many pollers and watchers saw it finish.
ResultIsProposedOnce == \A r \in Runs :
    /\ run[r].result <=> run[r].generation # 0
    /\ generations[r] = {run[r].generation} \ {0}

\* The generations of a term are numbered 1, 2, ... without a gap, and no two
\* of them carry the same version.
VersionSeries == \A t \in Terms :
    LET ofTerm == {r \in Runs : TermOf[r] = t} IN
    /\ UNION {generations[r] : r \in ofTerm} = 1..latest[t]
    /\ \A r, s \in ofTerm : r # s => generations[r] \cap generations[s] = {}

\* A run the solver itself cancelled is never proposed: CancelRun and a
\* successful finish exclude each other, however late either answer arrives.
CancelledIsNeverProposed == \A r \in Runs :
    registry[r] = "CANCELLED" => generations[r] = {}

\* A run whose recovery attempts are used up has been declared lost, or was
\* captured after all: the claim's limit and the recovery's agree, so no run is
\* left that nothing looks at any more.
ExhaustedIsDecided == \A r \in Runs :
    run[r].attempts = MaxRecovery => run[r].lost \/ run[r].result

\* A run cancelled before the solver acknowledged it stays out of the way: it
\* does not become active again.
CancelledStaysInactive == [][\A r \in Runs :
    run[r].status = "CANCELLED" /\ run[r].ext = None => ~Active(r)']_run

(***************************************************************************)
(* Liveness                                                                *)
(***************************************************************************)
\* No run occupies its term for ever: the pollers bring it to an end even if
\* nobody watches it and whatever the solver forgets.
EveryRunEnds == \A r \in Runs : Active(r) ~> ~Active(r)

\* The result of a run that succeeded is captured and proposed, or declared
\* lost: it is not just left.
SuccessIsSettled == \A r \in Runs :
    run[r].status = "SUCCEEDED" ~>
        run[r].generation # 0 \/ run[r].lost \/ run[r].status # "SUCCEEDED"

(***************************************************************************)
(* The promise, and how this module's state is read as one of its states   *)
(***************************************************************************)
Promise == INSTANCE TermProposals WITH
    claimed   <- {r \in Runs : run[r].status # "NONE"},
    occupying <- {r \in Runs : Active(r)},
    proposal  <- [r \in Runs |-> run[r].generation]

\* Every step of the handlers, pollers and the solver is a step the promise
\* allows, or one it does not see: a term is never handed from one run to the
\* next without being free in between, a run that has made a proposal keeps it
\* and makes no other, and proposals are numbered as they are made.
KeepsPromise == Promise!Spec

=============================================================================
