--------------------------- MODULE GenerationApply ---------------------------
(***************************************************************************)
(* From a proposed generation to the live schedule: POST                   *)
(* /api/generations/:id/apply and .../discard, the plan and its execution  *)
(* in server/utils/generationMaterialize.ts and the reconciliation with    *)
(* what the run had asked for in server/utils/solverDemand.ts.             *)
(*                                                                         *)
(* An apply is one READ COMMITTED transaction of up to two minutes. It     *)
(* reads its generation, looks up the previous one, writes both, plans,    *)
(* executes and commits; its writes show at the commit. Execution and      *)
(* commit are one action: rows written in between are locked, so another   *)
(* request sees them from before the first write or after the commit.      *)
(* Manual edits are single actions here; SessionEdit takes them apart.     *)
(*                                                                         *)
(* Left out: rooms, groups and people of a placement, split offerings,     *)
(* federation-shared sessions, the constraint violations an apply records, *)
(* a move to another term, which the route accepts and no page sends.      *)
(* A slot stands for week, day, block and length.                          *)
(***************************************************************************)
EXTENDS Integers, FiniteSets, Sequences

CONSTANTS
    Generations, Terms, Offerings,
    Sessions,    \* ids, those of sessions yet to be created included
    Slots,
    Requests,    \* apply and discard requests that are made
    TermOf,      \* the term of a generation, None for a tenant-wide one
    ScopeOf,     \* offerings the run behind a generation may place
    OfferedIn,   \* the term of an offering
    Frequency,   \* sessions an offering is to have
    StartGenerations, StartSessions,
    Edits,       \* kinds of manual edits that happen
    Racing,      \* kinds of requests that fall between the steps of an apply
    MaxEdits,    \* bound: number of manual edits
    MaxNew,      \* bound: sessions an answer invents for an offering
    Bank,        \* the place of a session in the spare bank
    Gone,        \* the place of a session that does not exist
    None

ASSUME ApplyAssumption ==
    /\ TermOf \in [Generations -> Terms \cup {None}]
    /\ OfferedIn \in [Offerings -> Terms]
    /\ ScopeOf \in [Generations -> SUBSET Offerings]
    /\ None \notin Generations
    /\ DOMAIN StartGenerations = Generations
    /\ \A g \in Generations : \A o \in ScopeOf[g] : OfferedIn[o] = TermOf[g]
    /\ Frequency \in [Offerings -> Nat]
    /\ Edits \subseteq {"lock", "unlock", "move", "bank", "restore"}
    /\ Racing \subseteq Edits \cup {"discard"}
    /\ MaxEdits \in Nat /\ MaxNew \in Nat

\* What previous applies left, see OneCurrent and CurrentIsApplied.
ASSUME StartAssumption == \A g \in Generations : StartGenerations[g].current =>
    /\ StartGenerations[g].status = "APPLIED"
    /\ \A h \in Generations :
         StartGenerations[h].current /\ TermOf[h] = TermOf[g] => h = g

VARIABLES
    generation, \* committed rows of generation, each with its run
    session,    \* committed rows of session
    tx,         \* what a request's transaction has read and planned
    edits       \* manual edits so far

vars == <<generation, session, tx, edits>>

-----------------------------------------------------------------------------
\* "NONE": the run is not finished, there is no row yet.
Status == {"NONE", "READY", "APPLIED", "FAILED", "SUPERSEDED", "INFEASIBLE"}

Row == [place: Slots \cup {Bank, Gone}, offering: Offerings \cup {None},
        term: Terms, locked: BOOLEAN, generation: Generations \cup {None}]

NoSession == [place |-> Gone, offering |-> None, term |-> CHOOSE t \in Terms : TRUE,
              locked |-> FALSE, generation |-> None]

\* What a transaction for g knows: the previous generation and the plan, or None.
Tx(pc, g, p, plan) == [pc |-> pc, generation |-> g, previous |-> p, plan |-> plan]

Done == Tx("done", None, None, None)

Generated(status, current, run) == [status |-> status, current |-> current, run |-> run]

Exists(s) == session[s].place # Gone

IsPlaced(row) == row.place \notin {Bank, Gone}

\* Rows are those of a schedule the code can have made: a session counts for an
\* offering of its own term (sessions/index.post.ts:204-209), and no answer is
\* left from before to be applied again. An id is no position in an answer.
ASSUME ScheduleAssumption ==
    /\ None \notin Terms \cup Offerings
    /\ Bank # Gone /\ {Bank, Gone} \cap Slots = {}
    /\ IsFiniteSet(Sessions) /\ Sessions \cap Nat = {}
    /\ StartSessions \in [Sessions -> Row]
    /\ \A s \in Sessions : LET row == StartSessions[s] IN
        /\ row.place # Gone /\ row.offering # None => OfferedIn[row.offering] = row.term
        /\ row.generation # None =>
             TermOf[row.generation] \in {row.term, None} /\ row.offering # None
    /\ \A g \in Generations :
        StartGenerations[g].status \in Status /\ StartGenerations[g].run = None

TypeOK ==
    /\ DOMAIN generation = Generations
    /\ \A g \in Generations :
        /\ generation[g].status \in Status
        /\ StartGenerations[g].status \in {"FAILED", "INFEASIBLE"} =>
             generation[g] = StartGenerations[g]
    /\ session \in [Sessions -> Row]
    /\ DOMAIN tx = Requests
    /\ \A e \in Requests :
        /\ tx[e].pc \in {"idle", "read", "found", "flagged", "planned", "discarding", "done"}
        /\ tx[e].generation \in Generations \cup {None}
        /\ tx[e].previous \in Generations \cup {None}
    /\ edits \in 0..MaxEdits

Init ==
    /\ generation = StartGenerations
    /\ session = StartSessions
    /\ tx = [e \in Requests |-> Tx("idle", None, None, None)]
    /\ edits = 0

-----------------------------------------------------------------------------
(***************************************************************************)
(* A run and its answer                                                    *)
(***************************************************************************)
Least(a, b) == IF a < b THEN a ELSE b

Of(o) == {s \in Sessions : Exists(s) /\ session[s].offering = o}

BankedOf(o) == {s \in Of(o) : session[s].place = Bank}

\* The demand ledger: what the run asks for. Banked sessions count as there.
Required == [o \in Offerings |->
    Frequency[o] - Least(Frequency[o], Cardinality(BankedOf(o)))]

\* How many sessions of o an answer has.
Returned(run, o) ==
    Len(run.new[o]) + Cardinality({s \in DOMAIN run.old : run.old[s].offering = o})

\* A run reads the schedule and is answered: placed sessions of the term come
\* back at some slot (locked ones where they are), new ones are invented for
\* offerings in scope, and any of them may be missing. Sessions out of scope
\* are moved at most. Its generation is READY; see SolverRun.
Propose(g) ==
    /\ generation[g].status = "NONE"
    /\ \E back \in SUBSET {s \in Sessions : IsPlaced(session[s])
                             /\ session[s].offering # None /\ session[s].term = TermOf[g]} :
       \E slot \in [back -> Slots] :
       \E new \in [Offerings -> UNION {[1..n -> Slots] : n \in 0..MaxNew}] :
        LET run == [old |-> [s \in back |-> [offering |-> session[s].offering, place |-> slot[s]]],
                    new |-> new, required |-> Required,
                    banked |-> UNION {BankedOf(o) : o \in ScopeOf[g]}] IN
        /\ \A s \in back : session[s].locked => slot[s] = session[s].place
        /\ \A o \in Offerings :
            IF o \in ScopeOf[g] THEN Returned(run, o) <= Required[o] ELSE new[o] = <<>>
        /\ generation' = [generation EXCEPT ![g] = Generated("READY", FALSE, run)]
    /\ UNCHANGED <<session, tx, edits>>

-----------------------------------------------------------------------------
(***************************************************************************)
(* POST /api/generations/:id/apply                                         *)
(***************************************************************************)
Overlaps(kind) == kind \in Racing \/ \A e \in Requests : tx[e].pc \in {"idle", "done"}

\* Mutated form of Applicable: failed generations are not refused.
ApplicableAny(g) == generation[g].status # "NONE" /\ ~generation[g].current

Applicable(g) ==
    /\ generation[g].status \notin {"NONE", "INFEASIBLE", "FAILED"}
    /\ ~generation[g].current

ApplyReads(e, g) ==
    /\ tx[e].pc = "idle"
    /\ Applicable(g)
    /\ "discard" \in Racing \/ \A f \in Requests : tx[f].pc # "discarding"
    /\ tx' = [tx EXCEPT ![e] = Tx("read", g, None, None)]
    /\ UNCHANGED <<generation, session, edits>>

\* Mutated form of Previous: current in the tenant, whatever the term.
PreviousInTenant(g) == {h \in Generations : generation[h].current}

\* The current generations of the term of g: none or one.
Previous(g) == {h \in Generations : generation[h].current /\ TermOf[h] = TermOf[g]}

ApplyFindsPrevious(e) ==
    LET previous == Previous(tx[e].generation) IN
    /\ tx[e].pc = "read"
    /\ \E p \in IF previous = {} THEN {None} ELSE previous :
        tx' = [tx EXCEPT ![e] = Tx("found", @.generation, p, None)]
    /\ UNCHANGED <<generation, session, edits>>

\* Rows of generation that e has updated and not committed.
Flagged(e) ==
    IF tx[e].pc \in {"flagged", "planned"} THEN {tx[e].generation, tx[e].previous} \ {None} ELSE {}

\* Clears the previous flag, sets the new one. Waits for the rows, and for any
\* request that has flagged a generation of the same term, which decides what
\* the unique index on current generations says. If it says no: see Abort.
ApplyFlags(e) ==
    LET g == tx[e].generation  p == tx[e].previous IN
    /\ tx[e].pc = "found"
    /\ \A f \in Requests \ {e} :
        /\ Flagged(f) \cap {g, p} = {}
        /\ Flagged(f) # {} => TermOf[tx[f].generation] # TermOf[g]
    /\ \A h \in Generations \ {g, p} : generation[h].current => TermOf[h] # TermOf[g]
    /\ tx' = [tx EXCEPT ![e] = Tx("flagged", g, p, None)]
    /\ UNCHANGED <<generation, session, edits>>

\* Mutated form of Short: an answer is never checked.
ShortNever(run, o) == FALSE

\* reconcileDemand: the answer for o has fewer sessions than it was asked for.
Short(run, o) == Returned(run, o) < run.required[o]

\* Mutated form of Locked: no session is skipped.
LockedNone(t) == {}

\* skippedLocked, the sessions of term t a plan leaves alone.
Locked(t) == {s \in Sessions : Exists(s) /\ session[s].term = t /\ session[s].locked}

\* Mutated form of Deletable: banked sessions are not left out.
DeletableBanked(run, g, s) ==
    /\ Exists(s) /\ session[s].term = TermOf[g] /\ session[s].offering \in ScopeOf[g]
    /\ ~Short(run, session[s].offering)

\* A session an answer without it deletes.
Deletable(run, g, s) ==
    /\ IsPlaced(session[s]) /\ session[s].term = TermOf[g] /\ session[s].offering \in ScopeOf[g]
    /\ ~Short(run, session[s].offering)

\* Mutated form of Lost: moves of sessions that are gone are dropped.
LostForgotten(run) == {}

\* Sessions an answer moves that are gone by now: created anew.
Lost(run) == {s \in DOMAIN run.old : ~Exists(s)}

\* planMaterialization. A session that came back is moved; it is created again
\* if its row is gone, and skipped if it is in the bank by now. A placed session
\* in scope that did not come back is deleted, unless the answer is short.
Plan(g) ==
    LET run == generation[g].run
        skipped == Locked(TermOf[g])
        moves == {s \in DOMAIN run.old \ skipped : IsPlaced(session[s])}
        lost == Lost(run)
        invented == UNION {{<<o, i>> : i \in DOMAIN run.new[o]} : o \in Offerings}
    IN  [moves   |-> [s \in moves |-> run.old[s].place],
         creates |-> [c \in invented \cup {<<run.old[s].offering, s>> : s \in lost} |->
                        IF c \in invented THEN run.new[c[1]][c[2]] ELSE run.old[c[2]].place],
         deletes |-> {s \in Sessions \ (moves \cup skipped) : Deletable(run, g, s)},
         skipped |-> skipped]

\* A generation without a run has nothing to materialize.
NoPlan == [moves |-> <<>>, creates |-> <<>>, deletes |-> {}, skipped |-> {}]

ApplyPlans(e) ==
    LET g == tx[e].generation IN
    /\ tx[e].pc = "flagged"
    /\ tx' = [tx EXCEPT ![e] = Tx("planned", g, @.previous,
                 IF generation[g].run = None THEN NoPlan ELSE Plan(g))]
    /\ UNCHANGED <<generation, session, edits>>

\* Mutated form of InTerm: sessions of every term are rebased.
InTermAny(g, row) == TRUE

InTerm(g, row) == TermOf[g] = None \/ row.term = TermOf[g]

\* The generation an unlocked session of an offering hangs off from now on.
Rebased(g, row) ==
    IF row.place # Gone /\ ~row.locked /\ row.offering # None /\ InTerm(g, row)
      THEN [row EXCEPT !.generation = g] ELSE row

\* Ids no session has or had as far as any answer is concerned.
Fresh == {s \in Sessions : ~Exists(s) /\ \A g \in Generations :
    generation[g].run = None \/ s \notin DOMAIN generation[g].run.old}

\* executePlan: one row after the other, whatever became of it since the plan.
Executed(g, plan, id) == [s \in Sessions |->
    IF s \in DOMAIN plan.moves
      THEN [session[s] EXCEPT !.place = plan.moves[s], !.generation = g]
    ELSE IF s \in plan.deletes THEN NoSession
    ELSE IF \E c \in DOMAIN id : id[c] = s
      THEN LET c == CHOOSE d \in DOMAIN id : id[d] = s
           IN  [NoSession EXCEPT !.place = plan.creates[c], !.offering = c[1],
                                 !.term = TermOf[g], !.generation = g]
    ELSE session[s]]

\* Execution, rebase, the APPLY_GENERATION event, and the commit of it all.
ApplyCommits(e) ==
    LET g == tx[e].generation  p == tx[e].previous  plan == tx[e].plan
        ids == {f \in [DOMAIN plan.creates -> Fresh] :
                  \A c, d \in DOMAIN f : f[c] = f[d] => c = d}
    IN
    /\ tx[e].pc = "planned"
    /\ tx' = [tx EXCEPT ![e] = Done]
    /\ generation' = [h \in Generations |->
         IF h = g THEN Generated("APPLIED", TRUE, generation[g].run)
         ELSE IF h = p THEN Generated("SUPERSEDED", FALSE, generation[p].run)
         ELSE generation[h]]
    /\ ids # {}     \* bound: Sessions has as many ids as an apply creates
    /\ LET written == Executed(g, plan, CHOOSE f \in ids : TRUE)
       IN  session' = [s \in Sessions |-> Rebased(g, written[s])]
    /\ UNCHANGED edits

-----------------------------------------------------------------------------
(***************************************************************************)
(* POST /api/generations/:id/discard                                       *)
(***************************************************************************)
\* Mutated form of Discardable: the current generation is not refused.
DiscardableAny(g) == generation[g].status \in {"READY", "APPLIED"}

Discardable(g) == ~generation[g].current /\ generation[g].status = "READY"

DiscardReads(e, g) ==
    /\ tx[e].pc = "idle"
    /\ Discardable(g)
    /\ Overlaps("discard")
    /\ tx' = [tx EXCEPT ![e] = Tx("discarding", g, None, None)]
    /\ UNCHANGED <<generation, session, edits>>

\* The status is written without looking at the row again.
DiscardWrites(e) ==
    LET g == tx[e].generation IN
    /\ tx[e].pc = "discarding"
    /\ \A f \in Requests \ {e} : g \notin Flagged(f)
    /\ generation' = [generation EXCEPT ![g] = Generated("SUPERSEDED", @.current, @.run)]
    /\ tx' = [tx EXCEPT ![e] = Done]
    /\ UNCHANGED <<session, edits>>

\* Rejected by the index, timed out, failed in any other way.
Abort(e) ==
    /\ tx[e].pc \notin {"idle", "done"}
    /\ tx' = [tx EXCEPT ![e] = Done]
    /\ UNCHANGED <<generation, session, edits>>

-----------------------------------------------------------------------------
(***************************************************************************)
(* Manual edits                                                            *)
(***************************************************************************)
Edit(kind, s, row) ==
    /\ kind \in Edits /\ edits < MaxEdits
    /\ Overlaps(kind)
    /\ session' = [session EXCEPT ![s] = row]
    /\ edits' = edits + 1
    /\ UNCHANGED <<generation, tx>>

Lock(s) ==
    /\ IsPlaced(session[s]) /\ ~session[s].locked
    /\ Edit("lock", s, [session[s] EXCEPT !.locked = TRUE])

Unlock(s) ==
    /\ session[s].locked
    /\ Edit("unlock", s, [session[s] EXCEPT !.locked = FALSE])

\* A move out of the bank restores the session.
Move(s, slot) ==
    /\ Exists(s) /\ session[s].place # slot
    /\ Edit(IF IsPlaced(session[s]) THEN "move" ELSE "restore", s,
            [session[s] EXCEPT !.place = slot])

BankSession(s) ==
    /\ IsPlaced(session[s]) /\ ~session[s].locked /\ session[s].offering # None
    /\ Edit("bank", s, [session[s] EXCEPT !.place = Bank])

-----------------------------------------------------------------------------
Next ==
    \/ \E g \in Generations : Propose(g)
    \/ \E e \in Requests, g \in Generations : ApplyReads(e, g) \/ DiscardReads(e, g)
    \/ \E e \in Requests :
        \/ ApplyFindsPrevious(e) \/ ApplyFlags(e) \/ ApplyPlans(e) \/ ApplyCommits(e)
        \/ DiscardWrites(e) \/ Abort(e)
    \/ \E s \in Sessions : Lock(s) \/ Unlock(s) \/ BankSession(s)
    \/ \E s \in Sessions, slot \in Slots : Move(s, slot)

Spec == Init /\ [][Next]_vars

-----------------------------------------------------------------------------
(***************************************************************************)
(* Properties                                                              *)
(***************************************************************************)
\* A term, and the tenant as a whole, never has two current generations, and
\* never loses its current one without getting another, however applies race.
\* Of the lookup of the previous one and the two updates (apply.post.ts:80-119).
OneCurrent ==
    /\ \A g, h \in Generations :
         generation[g].current /\ generation[h].current /\ TermOf[g] = TermOf[h] => g = h
    /\ \A g \in Generations : StartGenerations[g].current =>
         \E h \in Generations : generation[h].current /\ TermOf[h] = TermOf[g]

\* The schedule is never that of a generation whose status says it was
\* superseded or discarded (discard.post.ts:45-52). Fails if a discard may fall
\* between the steps of an apply.
CurrentIsApplied == \A g \in Generations :
    generation[g].current => generation[g].status = "APPLIED"

\* A session belongs to a generation of its own term or of the whole tenant,
\* and an Event to none: what the rebase of apply.post.ts:183-193 is narrowed
\* for. Nothing else tells: the schedule looks the same either way.
Provenance == \A s \in Sessions : session[s].generation # None =>
    /\ TermOf[session[s].generation] \in {session[s].term, None}
    /\ session[s].offering # None

\* An apply leaves a locked session where it is, although it executes a plan
\* made from an earlier reading (generationMaterialize.ts:206). Fails if a lock
\* may fall between plan and execution.
LockedStays == [][\A e \in Requests : ApplyCommits(e) =>
    \A s \in Sessions : Exists(s) /\ session[s].locked => session'[s].place = session[s].place]_vars

\* An apply never takes sessions from an offering that has no more than its
\* frequency, be the answer short, late, or applied again after others: those
\* it deletes are replaced by those it brings (generationMaterialize.ts:193-204).
DemandIsKept == [][\A e \in Requests : ApplyCommits(e) =>
    \A o \in Offerings : Cardinality(Of(o)') >= Least(Cardinality(Of(o)), Frequency[o])]_vars

\* The sessions a run was never asked about, because they were in the spare
\* bank, survive its apply (generationMaterialize.ts:404-417). Fails if a
\* session is moved out of the bank between run and apply.
BankedIsKept == [][\A e \in Requests : ApplyCommits(e) =>
    LET run == generation[tx[e].generation].run IN
    run # None => \A s \in run.banked : session'[s].place # Gone]_vars

\* An apply spares what was not its to move: locked sessions, and those of the
\* spare bank.
ApplySpares == LockedStays /\ BankedIsKept

\* A complete answer replaces the schedule of an offering, also when sessions
\* it moves are gone by then: each placed and unskipped session is one of the
\* answer, at the answered slot, and none of the answer is missing or there
\* twice (generationMaterialize.ts:188-193).
WholeAnswer == [][\A e \in Requests : ApplyCommits(e) =>
    LET g == tx[e].generation  run == generation[g].run IN
    run # None => \A o \in {p \in ScopeOf[g] : ~Short(run, p)} :
        LET after == {s \in Of(o)' : IsPlaced(session'[s])} \ tx[e].plan.skipped
            moved == {s \in DOMAIN run.old : run.old[s].offering = o /\ IsPlaced(session[s])}
                       \ tx[e].plan.skipped
            lost  == {s \in DOMAIN run.old : run.old[s].offering = o /\ ~Exists(s)}
        IN  /\ moved \subseteq after
            /\ \A s \in moved : session'[s].place = run.old[s].place
            /\ Cardinality(after \ moved) = Len(run.new[o]) + Cardinality(lost)]_vars

=============================================================================
