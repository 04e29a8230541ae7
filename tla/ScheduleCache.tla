---------------------------- MODULE ScheduleCache ----------------------------
(***************************************************************************)
(* The read-through cache in front of the calendar reads (server/utils/    *)
(* cache.ts, scheduleCache.ts), the requests that read through it, and the *)
(* transactions that edit the schedule and drop what they outdate.         *)
(*                                                                         *)
(* An answer is abstracted to the versions of the terms it draws from, and *)
(* the keys of a bucket to one key: invalidation never tells them apart.   *)
(* A transaction's writes count as one version of each term it changes,    *)
(* visible from its commit. Redis may be unreachable; the cache then fails *)
(* open. Expiry is an action that may happen at any moment, so that the    *)
(* TTL of 180 s has no length here.                                        *)
(***************************************************************************)
EXTENDS Integers, FiniteSets, Sequences, Database

CONSTANTS
    Terms,
    All,           \* the bucket of answers that are not pinned to one term
    Readers,       \* GETs of /sessions, /schedule/context, /screens, /ics
    Editors,       \* transactions that may be open at a time
    Kinds,         \* the kinds of edits that happen: see Edit
    MaxVersion,    \* bound: versions of a term
    RedisMayFail,  \* whether Redis may become unreachable
    ReadsOverlapEdits \* whether a read may overlap an edit of its terms

ASSUME CacheAssumption ==
    /\ All \notin Terms /\ None \notin Terms \cup {All}
    /\ Kinds \subseteq {"edit", "move", "create", "resource"}
    /\ MaxVersion \in Nat
    /\ RedisMayFail \in BOOLEAN
    /\ ReadsOverlapEdits \in BOOLEAN
    /\ IsFiniteSet(Editors)

VARIABLES
    schedule, \* committed version of each term's schedule
    cache,    \* the entry of each bucket
    redis,    \* whether Redis can be reached
    reader,   \* a request: where in getCached it is and what it knows
    edit      \* an open transaction: what it changed and has left to drop

vars == <<schedule, cache, redis, reader, edit>>

-----------------------------------------------------------------------------
Buckets == Terms \cup {All}

Covers(b) == IF b = All THEN Terms ELSE {b}

Answers == UNION {[Covers(b) -> 0..MaxVersion] : b \in Buckets}

\* What the database would answer for bucket b.
Current(b) == [t \in Covers(b) |-> schedule[t]]

Entry == [answer: Answers, expires: BOOLEAN]

NoRead == [pc |-> "idle", bucket |-> All, available |-> FALSE,
           answer |-> None, since |-> None]

NoEdit == [pc |-> "idle", changes |-> {}, drops |-> <<>>, found |-> {}]

TypeOK ==
    /\ schedule \in [Terms -> 0..MaxVersion]
    /\ cache \in [Buckets -> Entry \cup {None}]
    /\ redis \in BOOLEAN
    /\ reader \in [Readers ->
         [pc: {"idle", "asked", "missed", "fetched", "answered"}, bucket: Buckets,
          available: BOOLEAN, answer: Answers \cup {None}, since: Answers \cup {None}]]
    /\ DOMAIN edit = Editors
    /\ \A e \in Editors :
        /\ edit[e].pc \in {"idle", "open", "unlinking"}
        /\ edit[e].changes \subseteq Terms
        /\ edit[e].drops \in Seq(SUBSET Buckets)
        /\ edit[e].found \subseteq Buckets

Init ==
    /\ schedule = [t \in Terms |-> 0]
    /\ cache = [b \in Buckets |-> None]
    /\ redis = TRUE
    /\ reader = [r \in Readers |-> NoRead]
    /\ edit = [e \in Editors |-> NoEdit]

Reading(b) == \E r \in Readers :
    reader[r].pc \notin {"idle", "answered"} /\ Covers(reader[r].bucket) \cap Covers(b) # {}

BeingEdited(t) == \E e \in Editors : t \in edit[e].changes

-----------------------------------------------------------------------------
(***************************************************************************)
(* getCached                                                               *)
(***************************************************************************)
\* A request arrives and picks its bucket.
Ask(r, b) ==
    /\ reader[r].pc \in {"idle", "answered"}
    /\ ReadsOverlapEdits \/ \A t \in Covers(b) : ~BeingEdited(t)
    /\ reader' = [reader EXCEPT ![r] =
         [NoRead EXCEPT !.pc = "asked", !.bucket = b, !.since = Current(b)]]
    /\ UNCHANGED <<schedule, cache, redis, edit>>

Answer(r, answer) ==
    reader' = [reader EXCEPT ![r] = [@ EXCEPT !.pc = "answered", !.answer = answer]]

\* Mutated form of Look: a request waits for Redis to come back.
LookWhenUp(r) ==
    LET b == reader[r].bucket IN
    /\ reader[r].pc = "asked" /\ redis
    /\ IF cache[b] # None
         THEN Answer(r, cache[b].answer)
         ELSE reader' = [reader EXCEPT ![r] = [@ EXCEPT !.pc = "missed", !.available = TRUE]]
    /\ UNCHANGED <<schedule, cache, redis, edit>>

\* GET. A hit is answered; a miss, and a Redis that cannot be reached, fall
\* through to the database. Only what was available here is stored to later.
Look(r) ==
    LET b == reader[r].bucket IN
    /\ reader[r].pc = "asked"
    /\ IF redis /\ cache[b] # None
         THEN Answer(r, cache[b].answer)
         ELSE reader' = [reader EXCEPT ![r] = [@ EXCEPT !.pc = "missed", !.available = redis]]
    /\ UNCHANGED <<schedule, cache, redis, edit>>

\* The fetcher: one query over committed rows.
Fetch(r) ==
    /\ reader[r].pc = "missed"
    /\ reader' = [reader EXCEPT ![r] =
         [@ EXCEPT !.pc = "fetched", !.answer = Current(reader[r].bucket)]]
    /\ UNCHANGED <<schedule, cache, redis, edit>>

\* Mutated form of Store: SET without EX.
StoreForGood(r) ==
    /\ reader[r].pc = "fetched"
    /\ cache' = IF reader[r].available /\ redis
                  THEN [cache EXCEPT ![reader[r].bucket] =
                          [answer |-> reader[r].answer, expires |-> FALSE]]
                  ELSE cache
    /\ Answer(r, reader[r].answer)
    /\ UNCHANGED <<schedule, redis, edit>>

\* SET with EX, whatever has happened to the key since the miss; a Redis that
\* has gone away in between is ignored.
Store(r) ==
    /\ reader[r].pc = "fetched"
    /\ cache' = IF reader[r].available /\ redis
                  THEN [cache EXCEPT ![reader[r].bucket] =
                          [answer |-> reader[r].answer, expires |-> TRUE]]
                  ELSE cache
    /\ Answer(r, reader[r].answer)
    /\ UNCHANGED <<schedule, redis, edit>>

\* The request's own transaction fails or times out.
ReadFails(r) ==
    /\ reader[r].pc \in {"asked", "missed", "fetched"}
    /\ reader' = [reader EXCEPT ![r] = NoRead]
    /\ UNCHANGED <<schedule, cache, redis, edit>>

-----------------------------------------------------------------------------
(***************************************************************************)
(* Transactions that change the schedule                                   *)
(***************************************************************************)
\* Mutated form of Drops: an edit of no one term is taken for a term of its own.
DropsOneTerm(scope) == <<{scope}, {All}>>

\* Mutated form of Drops: the bucket of all terms is forgotten.
DropsTermOnly(scope) == IF scope = None THEN <<Buckets>> ELSE <<{scope}>>

\* invalidateScheduleCache: the buckets it drops, one invalidate call each.
Drops(scope) == IF scope = None THEN <<Buckets>> ELSE <<{scope}, {All}>>

\* The terms an edit of a kind changes, with the term of the generation its
\* event is appended to. A session's generation is of the session's term; a
\* move, and a swap across terms, changes a second one. A created or deleted
\* session is recorded against any current generation of the tenant. A write
\* to a room, a group, an offering ... drops every bucket.
Effects ==
    {[kind |-> "edit", changes |-> {t}, scope |-> t] : t \in Terms}
    \cup {[kind |-> "move", changes |-> {t, u}, scope |-> t] : t, u \in Terms}
    \cup {[kind |-> "create", changes |-> {t}, scope |-> u] : t, u \in Terms}
    \cup {[kind |-> "resource", changes |-> Terms, scope |-> None]}

\* The rows are written and the event is appended.
Edit(e) == \E effect \in Effects :
    /\ edit[e].pc = "idle"
    /\ effect.kind \in Kinds
    /\ ReadsOverlapEdits \/ \A t \in effect.changes : ~Reading(t)
    /\ \A t \in effect.changes :
         schedule[t] + Cardinality({f \in Editors : t \in edit[f].changes}) < MaxVersion
    /\ edit' = [edit EXCEPT ![e] =
         [pc |-> "open", changes |-> effect.changes, drops |-> Drops(effect.scope), found |-> {}]]
    /\ UNCHANGED <<schedule, cache, redis, reader>>

\* invalidate: SCAN for the keys under a prefix ...
Scan(e) ==
    /\ edit[e].pc = "open" /\ edit[e].drops # <<>>
    /\ edit' = [edit EXCEPT ![e] =
         IF redis
           THEN [@ EXCEPT !.pc = "unlinking",
                          !.found = {b \in Head(edit[e].drops) : cache[b] # None}]
           ELSE [@ EXCEPT !.drops = Tail(edit[e].drops)]]
    /\ UNCHANGED <<schedule, cache, redis, reader>>

\* ... then UNLINK what was found. A failure is logged, never raised.
Unlink(e) ==
    /\ edit[e].pc = "unlinking"
    /\ cache' = [b \in Buckets |-> IF redis /\ b \in edit[e].found THEN None ELSE cache[b]]
    /\ edit' = [edit EXCEPT ![e] =
         [@ EXCEPT !.pc = "open", !.drops = Tail(edit[e].drops), !.found = {}]]
    /\ UNCHANGED <<schedule, redis, reader>>

\* The transaction commits only when the handler has returned.
Commit(e) ==
    /\ edit[e].pc = "open" /\ edit[e].drops = <<>>
    /\ schedule' = [t \in Terms |-> IF t \in edit[e].changes THEN schedule[t] + 1 ELSE schedule[t]]
    /\ edit' = [edit EXCEPT ![e] = NoEdit]
    /\ UNCHANGED <<cache, redis, reader>>

Rollback(e) ==
    /\ edit[e].pc # "idle"
    /\ edit' = [edit EXCEPT ![e] = NoEdit]
    /\ UNCHANGED <<schedule, cache, redis, reader>>

-----------------------------------------------------------------------------
(***************************************************************************)
(* Redis                                                                   *)
(***************************************************************************)
Expire(b) ==
    /\ cache[b] # None /\ cache[b].expires
    /\ cache' = [cache EXCEPT ![b] = None]
    /\ UNCHANGED <<schedule, redis, reader, edit>>

RedisFails ==
    /\ RedisMayFail /\ redis
    /\ redis' = FALSE
    /\ UNCHANGED <<schedule, cache, reader, edit>>

\* It comes back with what it held, or empty.
RedisReturns ==
    /\ ~redis
    /\ redis' = TRUE
    /\ \/ UNCHANGED cache
       \/ cache' = [b \in Buckets |-> None]
    /\ UNCHANGED <<schedule, reader, edit>>

-----------------------------------------------------------------------------
Next ==
    \/ \E r \in Readers :
        \/ \E b \in Buckets : Ask(r, b)
        \/ Look(r) \/ Fetch(r) \/ Store(r) \/ ReadFails(r)
    \/ \E e \in Editors : Edit(e) \/ Scan(e) \/ Unlink(e) \/ Commit(e) \/ Rollback(e)
    \/ \E b \in Buckets : Expire(b)
    \/ RedisFails \/ RedisReturns

Spec == Init /\ [][Next]_vars

\* A request runs on whatever Redis does, and time passes. Nothing is assumed
\* of Redis, of editors, or of requests arriving.
Fairness ==
    /\ \A r \in Readers : WF_vars(Look(r) \/ Fetch(r) \/ Store(r))
    /\ \A b \in Buckets : WF_vars(Expire(b))

FairSpec == Spec /\ Fairness

-----------------------------------------------------------------------------
(***************************************************************************)
(* Properties                                                              *)
(***************************************************************************)
Stale(b) == cache[b] # None /\ cache[b].answer # Current(b)

\* With Redis reachable and no read overlapping an edit of the same terms, what
\* is cached is what the database would answer: every edit drops every bucket
\* it outdates, however edits of other terms and reads interleave.
NothingStale == \A b \in Buckets : ~Stale(b)

\* Whatever was cached too early or was not dropped, once editing has come to
\* rest the cache heals for good: the TTL is a backstop that works, and no
\* request puts an outdated answer back after the last one has expired.
CacheHeals == <>[]NothingStale

\* A request is answered, or its own transaction fails, with Redis up or down.
ReadsAreAnswered == \A r \in Readers :
    reader[r].pc = "asked" ~> reader[r].pc \in {"answered", "idle"}

\* The cache never stands in the way: what it answers is right in the end, and
\* it answers.
CacheServes == CacheHeals /\ ReadsAreAnswered

\* An edit is visible to every read that starts after it ("immediately visible
\* after a manual edit").
EditsAreVisible == \A r \in Readers : reader[r].pc = "answered" =>
    \A t \in DOMAIN reader[r].since : reader[r].answer[t] >= reader[r].since[t]

=============================================================================
