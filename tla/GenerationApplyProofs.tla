------------------------ MODULE GenerationApplyProofs ------------------------
(***************************************************************************)
(* Theorems about GenerationApply, for any generations, terms, sessions    *)
(* and any number of requests.                                             *)
(*                                                                         *)
(* First, the current generation. A request that has flagged its           *)
(* generation has written rows nobody sees yet. OneCurrent survives its    *)
(* commit because of what it found in the way of other current             *)
(* generations when it flagged (FlagsHold), and because no other request   *)
(* flags one of the same term meanwhile (FlagsExclusive).                  *)
(*                                                                         *)
(* Then, what applies make of the schedule. An apply executes a plan made  *)
(* from an earlier reading. What it does to a row is right because of what *)
(* still holds of that row when the plan is executed: PlansHold, for any   *)
(* edits in between, and PlansStand, while no session enters or leaves the *)
(* spare bank between the two. Both rest on FlagsExclusive: only another   *)
(* request of the same term could delete or move what the plan names. And  *)
(* a plan is only as good as the answer it was made from: AnswersHold and  *)
(* AsksHold relate an answer to rows that change long after it came.       *)
(***************************************************************************)
EXTENDS GenerationApply, FiniteSetTheorems, TLAPS


HasFlagged(e) == tx[e].pc \in {"flagged", "planned"}

RowsOK ==
    /\ DOMAIN generation = Generations
    /\ tx = [e \in Requests |-> tx[e]]

\* A transaction has a generation, and a previous one of the same term if any.
TxOK == \A e \in Requests :
    /\ tx[e].pc \in {"read", "found", "flagged", "planned", "discarding"} =>
         tx[e].generation \in Generations
    /\ tx[e].pc \in {"found", "flagged", "planned"} /\ tx[e].previous # None =>
         tx[e].previous \in Generations /\ TermOf[tx[e].previous] = TermOf[tx[e].generation]

\* Once its rows are flagged, no third generation of the term is current.
FlagsHold == \A e \in Requests : HasFlagged(e) =>
    \A h \in Generations \ {tx[e].generation, tx[e].previous} :
        generation[h].current => TermOf[h] # TermOf[tx[e].generation]

FlagsExclusive == \A e, f \in Requests : HasFlagged(e) /\ HasFlagged(f) /\ e # f =>
    TermOf[tx[e].generation] # TermOf[tx[f].generation]

\* A generation that is yet to be proposed is not current.
NoneIsCurrent == \A g \in Generations :
    generation[g].current => generation[g].status # "NONE"

CurrentInv == RowsOK /\ TxOK /\ FlagsHold /\ FlagsExclusive /\ OneCurrent

-----------------------------------------------------------------------------
\* The rows of transactions and generations have the fields they are made of.
LEMMA TxFields ==
    ASSUME NEW pc, NEW g, NEW p, NEW plan
    PROVE  /\ Tx(pc, g, p, plan).pc = pc
           /\ Tx(pc, g, p, plan).generation = g
           /\ Tx(pc, g, p, plan).previous = p
BY DEF Tx

LEMMA GeneratedFields ==
    ASSUME NEW status, NEW current, NEW run
    PROVE  /\ Generated(status, current, run).status = status
           /\ Generated(status, current, run).current = current
BY DEF Generated

\* The current flags stay as they are.
FlagsKept ==
    /\ DOMAIN generation' = Generations
    /\ \A h \in Generations : (generation'[h].current <=> generation[h].current)

\* An action that keeps the flags and takes the transaction of one request to a
\* point where it has flagged nothing that it had not flagged before.
LEMMA Harmless ==
    ASSUME CurrentInv, FlagsKept,
           NEW e \in Requests, NEW pc, NEW g, NEW p, NEW plan,
           tx' = [tx EXCEPT ![e] = Tx(pc, g, p, plan)],
           \/ pc \in {"read", "found", "discarding", "done"}
           \/ pc = "planned" /\ HasFlagged(e) /\ g = tx[e].generation /\ p = tx[e].previous,
           pc # "done" => g \in Generations,
           p # None => p \in Generations /\ TermOf[p] = TermOf[g]
    PROVE  CurrentInv'
<1>1. /\ tx'[e].pc = pc /\ tx'[e].generation = g /\ tx'[e].previous = p
      /\ \A f \in Requests \ {e} : tx'[f] = tx[f]
      /\ tx' = [f \in Requests |-> tx'[f]]
  BY TxFields DEF CurrentInv, RowsOK
<1>2. \A f \in Requests : HasFlagged(f)' =>
        /\ HasFlagged(f)
        /\ tx'[f].generation = tx[f].generation
        /\ tx'[f].previous = tx[f].previous
  BY <1>1 DEF HasFlagged
<1>3. RowsOK' BY <1>1 DEF RowsOK, FlagsKept
<1>4. TxOK' BY <1>1 DEF CurrentInv, TxOK
<1>5. FlagsHold' BY <1>2 DEF CurrentInv, FlagsHold, FlagsKept
<1>6. FlagsExclusive' BY <1>2 DEF CurrentInv, FlagsExclusive
<1>7. OneCurrent' BY DEF CurrentInv, OneCurrent, FlagsKept
<1> QED BY <1>3, <1>4, <1>5, <1>6, <1>7 DEF CurrentInv

LEMMA Elsewhere ==
    ASSUME CurrentInv, FlagsKept, tx' = tx
    PROVE  CurrentInv'
<1>1. RowsOK' BY DEF CurrentInv, RowsOK, FlagsKept
<1>2. TxOK' BY DEF CurrentInv, TxOK
<1>3. FlagsHold' BY DEF CurrentInv, FlagsHold, FlagsKept, HasFlagged
<1>4. FlagsExclusive' BY DEF CurrentInv, FlagsExclusive, HasFlagged
<1>5. OneCurrent' BY DEF CurrentInv, OneCurrent, FlagsKept
<1> QED BY <1>1, <1>2, <1>3, <1>4, <1>5 DEF CurrentInv

LEMMA InitCurrent == Init => CurrentInv
<1> SUFFICES ASSUME Init PROVE CurrentInv OBVIOUS
<1>1. \A e \in Requests : tx[e].pc = "idle" BY TxFields DEF Init
<1>2. RowsOK BY ApplyAssumption DEF Init, RowsOK
<1>3. TxOK BY <1>1 DEF TxOK
<1>4. FlagsHold /\ FlagsExclusive BY <1>1 DEF FlagsHold, FlagsExclusive, HasFlagged
<1>5. OneCurrent BY StartAssumption DEF Init, OneCurrent
<1> QED BY <1>2, <1>3, <1>4, <1>5 DEF CurrentInv

\* A commit: the row it sets is the only current one of its term, before
\* (but for the one it clears) and after.
LEMMA CommitCurrent ==
    ASSUME CurrentInv, NEW e \in Requests, ApplyCommits(e)
    PROVE  CurrentInv'
<1> DEFINE g == tx[e].generation
<1> DEFINE p == tx[e].previous
<1>1. /\ HasFlagged(e) /\ g \in Generations
      /\ p # None => p \in Generations /\ TermOf[p] = TermOf[g]
  BY DEF ApplyCommits, HasFlagged, CurrentInv, TxOK
<1>2. /\ DOMAIN generation' = Generations
      /\ generation'[g].current
      /\ \A h \in Generations \ {g} : generation'[h].current =>
           h # p /\ generation[h].current
      /\ \A h \in Generations \ {g, p} : generation'[h] = generation[h]
  BY <1>1, GeneratedFields, ZenonT(60) DEF ApplyCommits
<1>3. /\ tx'[e] = Done /\ Done.pc = "done"
      /\ \A f \in Requests \ {e} : tx'[f] = tx[f]
      /\ tx' = [f \in Requests |-> tx'[f]]
  BY TxFields DEF ApplyCommits, CurrentInv, RowsOK, Done
<1>4. \A h \in Generations \ {g} : generation'[h].current => TermOf[h] # TermOf[g]
  BY <1>1, <1>2 DEF CurrentInv, FlagsHold
<1>5. RowsOK' BY <1>2, <1>3 DEF RowsOK
<1>6. TxOK' BY <1>3 DEF CurrentInv, TxOK
<1>7. FlagsExclusive' BY <1>3 DEF CurrentInv, FlagsExclusive, HasFlagged
<1>8. FlagsHold'
  <2> SUFFICES ASSUME NEW f \in Requests, HasFlagged(f)',
                      NEW h \in Generations \ {tx'[f].generation, tx'[f].previous},
                      generation'[h].current
               PROVE  TermOf[h] # TermOf[tx'[f].generation]
    BY DEF FlagsHold
  <2>1. f # e /\ HasFlagged(f) /\ tx'[f] = tx[f] BY <1>3 DEF HasFlagged
  <2>2. CASE h = g BY <1>1, <2>1, <2>2 DEF CurrentInv, FlagsExclusive
  <2>3. CASE h # g
    <3>1. generation[h].current BY <1>2, <2>3
    <3> QED BY <2>1, <3>1 DEF CurrentInv, FlagsHold
  <2> QED BY <2>2, <2>3
<1>9. OneCurrent'
  <2>1. ASSUME NEW h \in Generations, NEW k \in Generations,
               generation'[h].current, generation'[k].current, TermOf[h] = TermOf[k]
        PROVE  h = k
    <3>1. CASE h = g \/ k = g BY <1>4, <2>1, <3>1
    <3>2. CASE h # g /\ k # g BY <1>2, <2>1, <3>2 DEF CurrentInv, OneCurrent
    <3> QED BY <3>1, <3>2
  <2>2. ASSUME NEW k \in Generations, StartGenerations[k].current
        PROVE  \E h \in Generations : generation'[h].current /\ TermOf[h] = TermOf[k]
    <3>1. CASE TermOf[k] = TermOf[g] BY <1>1, <1>2, <3>1
    <3>2. CASE TermOf[k] # TermOf[g]
      <4>1. PICK h \in Generations : generation[h].current /\ TermOf[h] = TermOf[k]
        BY <2>2 DEF CurrentInv, OneCurrent
      <4>2. h # g /\ (h # p \/ p = None)
        BY <1>1, <3>2, <4>1
      <4>3. h # p BY <4>2, ApplyAssumption
      <4> QED BY <1>2, <4>1, <4>2, <4>3
    <3> QED BY <3>1, <3>2
  <2> QED BY <2>1, <2>2 DEF OneCurrent
<1> QED BY <1>5, <1>6, <1>7, <1>8, <1>9 DEF CurrentInv

\* Flagging: waits for whoever has flagged the same term, and is refused by the
\* unique index when a third generation of the term is current.
LEMMA FlagCurrent ==
    ASSUME CurrentInv, NEW e \in Requests, ApplyFlags(e)
    PROVE  CurrentInv'
<1> DEFINE g == tx[e].generation
<1> DEFINE p == tx[e].previous
<1>1. /\ g \in Generations
      /\ p # None => p \in Generations /\ TermOf[p] = TermOf[g]
  BY DEF ApplyFlags, CurrentInv, TxOK
<1>2. /\ tx'[e].pc = "flagged" /\ tx'[e].generation = g /\ tx'[e].previous = p
      /\ \A f \in Requests \ {e} : tx'[f] = tx[f]
      /\ tx' = [f \in Requests |-> tx'[f]]
      /\ generation' = generation
  BY TxFields DEF ApplyFlags, CurrentInv, RowsOK
<1>3. ASSUME NEW f \in Requests \ {e}, HasFlagged(f)
      PROVE  TermOf[tx[f].generation] # TermOf[g]
  <2>1. tx[f].generation \in Generations /\ tx[f].generation # None
    BY <1>3, ApplyAssumption DEF CurrentInv, TxOK, HasFlagged
  <2>2. Flagged(f) # {} BY <1>3, <2>1 DEF Flagged, HasFlagged
  <2> QED BY <2>2 DEF ApplyFlags
<1>4. RowsOK' BY <1>2 DEF CurrentInv, RowsOK
<1>5. TxOK' BY <1>1, <1>2 DEF CurrentInv, TxOK
<1>6. FlagsHold'
  <2>1. \A h \in Generations \ {g, p} : generation[h].current => TermOf[h] # TermOf[g]
    BY DEF ApplyFlags
  <2> QED BY <1>2, <2>1 DEF CurrentInv, FlagsHold, HasFlagged
<1>7. FlagsExclusive' BY <1>2, <1>3 DEF CurrentInv, FlagsExclusive, HasFlagged
<1>8. OneCurrent' BY <1>2 DEF CurrentInv, OneCurrent
<1> QED BY <1>4, <1>5, <1>6, <1>7, <1>8 DEF CurrentInv

LEMMA StepCurrent ==
    ASSUME CurrentInv, NoneIsCurrent, [Next]_vars
    PROVE  CurrentInv'
<1>0. /\ DOMAIN generation = Generations
      /\ generation' = generation => FlagsKept
  BY DEF CurrentInv, RowsOK, FlagsKept
<1>1. ASSUME NEW g \in Generations, Propose(g) PROVE CurrentInv'
  <2>1. PICK run : generation' = [generation EXCEPT ![g] = Generated("READY", FALSE, run)]
    BY <1>1 DEF Propose
  <2>2. FlagsKept
    BY <1>0, <1>1, <2>1, GeneratedFields, ZenonT(60) DEF FlagsKept, NoneIsCurrent, Propose
  <2> QED BY <1>1, <2>2, Elsewhere DEF Propose
<1>2. ASSUME NEW e \in Requests, NEW g \in Generations, ApplyReads(e, g) PROVE CurrentInv'
  <2>1. tx' = [tx EXCEPT ![e] = Tx("read", g, None, None)] /\ FlagsKept
    BY <1>0, <1>2 DEF ApplyReads
  <2> QED BY <2>1, Harmless
<1>3. ASSUME NEW e \in Requests, NEW g \in Generations, DiscardReads(e, g) PROVE CurrentInv'
  <2>1. tx' = [tx EXCEPT ![e] = Tx("discarding", g, None, None)] /\ FlagsKept
    BY <1>0, <1>3 DEF DiscardReads
  <2> QED BY <2>1, Harmless
<1>4. ASSUME NEW e \in Requests, ApplyFindsPrevious(e) PROVE CurrentInv'
  <2>1. tx[e].generation \in Generations
    BY <1>4 DEF ApplyFindsPrevious, CurrentInv, TxOK
  <2>2. PICK p : /\ p # None => p \in Previous(tx[e].generation)
                 /\ tx' = [tx EXCEPT ![e] = Tx("found", @.generation, p, None)]
    BY <1>4 DEF ApplyFindsPrevious
  <2>3. tx' = [tx EXCEPT ![e] = Tx("found", tx[e].generation, p, None)]
    BY <2>2 DEF CurrentInv, RowsOK
  <2>4. p # None => p \in Generations /\ TermOf[p] = TermOf[tx[e].generation]
    BY <2>2 DEF Previous
  <2>5. FlagsKept BY <1>0, <1>4 DEF ApplyFindsPrevious
  <2> QED BY <2>1, <2>3, <2>4, <2>5, Harmless
<1>5. ASSUME NEW e \in Requests, ApplyFlags(e) PROVE CurrentInv'
  BY <1>5, FlagCurrent
<1>6. ASSUME NEW e \in Requests, ApplyPlans(e) PROVE CurrentInv'
  <2> DEFINE plan == IF generation[tx[e].generation].run = None
                       THEN NoPlan ELSE Plan(tx[e].generation)
  <2>1. /\ HasFlagged(e)
        /\ tx[e].generation \in Generations
        /\ tx[e].previous # None => /\ tx[e].previous \in Generations
                                    /\ TermOf[tx[e].previous] = TermOf[tx[e].generation]
    BY <1>6 DEF ApplyPlans, HasFlagged, CurrentInv, TxOK
  <2>2. tx' = [tx EXCEPT ![e] = Tx("planned", tx[e].generation, tx[e].previous, plan)]
    BY <1>6 DEF ApplyPlans, CurrentInv, RowsOK
  <2>3. FlagsKept BY <1>0, <1>6 DEF ApplyPlans
  <2> HIDE DEF plan
  <2> QED BY <2>1, <2>2, <2>3, Harmless
<1>7. ASSUME NEW e \in Requests, ApplyCommits(e) PROVE CurrentInv'
  BY <1>7, CommitCurrent
<1>8. ASSUME NEW e \in Requests, DiscardWrites(e) PROVE CurrentInv'
  <2>1. tx[e].generation \in Generations
    BY <1>8 DEF DiscardWrites, CurrentInv, TxOK
  <2>2. FlagsKept
    BY <1>0, <1>8, <2>1, GeneratedFields DEF DiscardWrites, FlagsKept
  <2>3. tx' = [tx EXCEPT ![e] = Tx("done", None, None, None)]
    BY <1>8 DEF DiscardWrites, Done
  <2> QED BY <2>2, <2>3, Harmless
<1>9. ASSUME NEW e \in Requests, Abort(e) PROVE CurrentInv'
  <2>1. tx' = [tx EXCEPT ![e] = Tx("done", None, None, None)] /\ FlagsKept
    BY <1>0, <1>9 DEF Abort, Done
  <2> QED BY <2>1, Harmless
<1>10. ASSUME NEW s \in Sessions, Lock(s) \/ Unlock(s) \/ BankSession(s) PROVE CurrentInv'
  BY <1>0, <1>10, Elsewhere DEF Lock, Unlock, BankSession, Edit
<1>11. ASSUME NEW s \in Sessions, NEW slot \in Slots, Move(s, slot) PROVE CurrentInv'
  BY <1>0, <1>11, Elsewhere DEF Move, Edit
<1>12. CASE UNCHANGED vars BY <1>0, <1>12, Elsewhere DEF vars
<1> QED BY <1>1, <1>2, <1>3, <1>4, <1>5, <1>6, <1>7, <1>8, <1>9, <1>10, <1>11, <1>12 DEF Next

\* No status written along with a flag is that of a run yet to be proposed.
LEMMA StepNone ==
    ASSUME CurrentInv, NoneIsCurrent, [Next]_vars
    PROVE  NoneIsCurrent'
<1>0. DOMAIN generation = Generations BY DEF CurrentInv, RowsOK
<1>1. CASE generation' = generation BY <1>1 DEF NoneIsCurrent
<1>2. ASSUME NEW g \in Generations, Propose(g) PROVE NoneIsCurrent'
  <2>1. PICK run : generation' = [generation EXCEPT ![g] = Generated("READY", FALSE, run)]
    BY <1>2 DEF Propose
  <2> QED BY <1>0, <2>1, GeneratedFields DEF NoneIsCurrent
<1>3. ASSUME NEW e \in Requests, ApplyCommits(e) PROVE NoneIsCurrent'
  <2> DEFINE g == tx[e].generation
  <2> DEFINE p == tx[e].previous
  <2>1. \A h \in Generations : generation'[h] =
          IF h = g THEN Generated("APPLIED", TRUE, generation[g].run)
          ELSE IF h = p THEN Generated("SUPERSEDED", FALSE, generation[p].run)
          ELSE generation[h]
    BY <1>3 DEF ApplyCommits
  <2>2. \A h \in Generations :
          \/ generation'[h] = generation[h]
          \/ generation'[h].status \in {"APPLIED", "SUPERSEDED"}
    BY <2>1 DEF Generated
  <2> QED BY <2>2 DEF NoneIsCurrent
<1>4. ASSUME NEW e \in Requests, DiscardWrites(e) PROVE NoneIsCurrent'
  BY <1>0, <1>4, GeneratedFields DEF DiscardWrites, NoneIsCurrent
<1>5. ASSUME NEW e \in Requests, NEW g \in Generations, ApplyReads(e, g) \/ DiscardReads(e, g)
      PROVE  NoneIsCurrent'
  BY <1>1, <1>5 DEF ApplyReads, DiscardReads
<1>6. ASSUME NEW e \in Requests,
             ApplyFindsPrevious(e) \/ ApplyFlags(e) \/ ApplyPlans(e) \/ Abort(e)
      PROVE  NoneIsCurrent'
  BY <1>1, <1>6 DEF ApplyFindsPrevious, ApplyFlags, ApplyPlans, Abort
<1>7. ASSUME NEW s \in Sessions, Lock(s) \/ Unlock(s) \/ BankSession(s)
      PROVE  NoneIsCurrent'
  BY <1>1, <1>7 DEF Lock, Unlock, BankSession, Edit
<1>8. ASSUME NEW s \in Sessions, NEW slot \in Slots, Move(s, slot) PROVE NoneIsCurrent'
  BY <1>1, <1>8 DEF Move, Edit
<1>9. CASE UNCHANGED vars BY <1>1, <1>9 DEF vars
<1> QED BY <1>2, <1>3, <1>4, <1>5, <1>6, <1>7, <1>8, <1>9 DEF Next

\* For any generations and any number of applies and discards in flight, a term
\* has at most one current generation, and one for as long as it started with one.
THEOREM CurrentIsUnique == Spec => []OneCurrent
<1>1. Init => CurrentInv /\ NoneIsCurrent
  BY InitCurrent, StartAssumption DEF Init, NoneIsCurrent
<1>2. CurrentInv /\ NoneIsCurrent /\ [Next]_vars => (CurrentInv /\ NoneIsCurrent)'
  BY StepCurrent, StepNone
<1>3. CurrentInv => OneCurrent BY DEF CurrentInv
<1> QED BY <1>1, <1>2, <1>3, PTL DEF Spec

-----------------------------------------------------------------------------
\* A request that is about to discard is the only one at work, and has looked
\* at a generation that is still not current.
DiscardAlone == \A e \in Requests : tx[e].pc = "discarding" =>
    /\ ~generation[tx[e].generation].current
    /\ \A f \in Requests \ {e} : tx[f].pc \in {"idle", "done"}

AppliedInv == CurrentInv /\ NoneIsCurrent /\ DiscardAlone /\ CurrentIsApplied

\* A request that comes by while nobody discards, and does not either.
LEMMA NotDiscarding ==
    ASSUME AppliedInv, NEW e \in Requests, NEW pc, NEW g, NEW p, NEW plan,
           tx' = [tx EXCEPT ![e] = Tx(pc, g, p, plan)], pc # "discarding",
           \A f \in Requests \ {e} : tx[f].pc # "discarding"
    PROVE  DiscardAlone'
<1>1. \A f \in Requests : tx'[f].pc # "discarding"
  BY TxFields DEF AppliedInv, CurrentInv, RowsOK
<1> QED BY <1>1 DEF DiscardAlone

\* The status of the current generation changes in no step but a commit.
LEMMA StepApplied ==
    ASSUME AppliedInv, "discard" \notin Racing, [Next]_vars
    PROVE  DiscardAlone' /\ CurrentIsApplied'
<1>0. /\ DOMAIN generation = Generations
      /\ \A e \in Requests : tx[e].pc \notin {"idle", "done", "discarding"} =>
           \A f \in Requests \ {e} : tx[f].pc # "discarding"
  BY DEF AppliedInv, CurrentInv, RowsOK, DiscardAlone
<1>1. CASE generation' = generation /\ tx' = tx
  BY <1>1 DEF AppliedInv, DiscardAlone, CurrentIsApplied
<1>2. generation' = generation => CurrentIsApplied'
  BY DEF AppliedInv, CurrentIsApplied
<1>3. ASSUME NEW g \in Generations, Propose(g) PROVE DiscardAlone' /\ CurrentIsApplied'
  <2>1. PICK run : generation' = [generation EXCEPT ![g] = Generated("READY", FALSE, run)]
    BY <1>3 DEF Propose
  <2>2. \A h \in Generations : generation'[h].current =>
          generation[h].current /\ generation'[h] = generation[h]
    BY <1>0, <2>1, GeneratedFields
  <2>3. CurrentIsApplied' BY <2>2 DEF AppliedInv, CurrentIsApplied
  <2>4. DiscardAlone'
    BY <1>3, <2>2 DEF AppliedInv, CurrentInv, TxOK, DiscardAlone, Propose
  <2> QED BY <2>3, <2>4
<1>4. ASSUME NEW e \in Requests, NEW g \in Generations, ApplyReads(e, g)
      PROVE  DiscardAlone' /\ CurrentIsApplied'
  <2>1. /\ tx' = [tx EXCEPT ![e] = Tx("read", g, None, None)]
        /\ \A f \in Requests \ {e} : tx[f].pc # "discarding"
        /\ generation' = generation
    BY <1>4 DEF ApplyReads
  <2> QED BY <1>2, <2>1, NotDiscarding
<1>5. ASSUME NEW e \in Requests, NEW g \in Generations, DiscardReads(e, g)
      PROVE  DiscardAlone' /\ CurrentIsApplied'
  <2>1. /\ tx'[e].generation = g /\ ~generation[g].current
        /\ \A f \in Requests \ {e} : tx'[f].pc \in {"idle", "done"}
        /\ generation' = generation
    BY <1>5, TxFields
    DEF DiscardReads, Discardable, Overlaps, AppliedInv, CurrentInv, RowsOK
  <2>2. DiscardAlone' BY <2>1 DEF DiscardAlone
  <2> QED BY <1>2, <2>1, <2>2
<1>6. ASSUME NEW e \in Requests, ApplyFindsPrevious(e) PROVE DiscardAlone' /\ CurrentIsApplied'
  <2>1. PICK p : /\ tx[e].pc = "read" /\ generation' = generation
                 /\ tx' = [tx EXCEPT ![e] = Tx("found", tx[e].generation, p, None)]
    BY <1>6 DEF ApplyFindsPrevious, AppliedInv, CurrentInv, RowsOK
  <2> QED BY <1>0, <1>2, <2>1, NotDiscarding
<1>7. ASSUME NEW e \in Requests, ApplyFlags(e) PROVE DiscardAlone' /\ CurrentIsApplied'
  <2>1. /\ tx[e].pc = "found" /\ generation' = generation
        /\ tx' = [tx EXCEPT ![e] = Tx("flagged", tx[e].generation, tx[e].previous, None)]
    BY <1>7 DEF ApplyFlags
  <2> QED BY <1>0, <1>2, <2>1, NotDiscarding
<1>8. ASSUME NEW e \in Requests, ApplyPlans(e) PROVE DiscardAlone' /\ CurrentIsApplied'
  <2>1. PICK plan :
           /\ tx[e].pc = "flagged" /\ generation' = generation
           /\ tx' = [tx EXCEPT ![e] = Tx("planned", tx[e].generation, tx[e].previous, plan)]
    BY <1>8 DEF ApplyPlans, AppliedInv, CurrentInv, RowsOK
  <2> QED BY <1>0, <1>2, <2>1, NotDiscarding
<1>9. ASSUME NEW e \in Requests, ApplyCommits(e) PROVE DiscardAlone' /\ CurrentIsApplied'
  <2> DEFINE g == tx[e].generation
  <2> DEFINE p == tx[e].previous
  <2>1. \A h \in Generations : generation'[h] =
          IF h = g THEN Generated("APPLIED", TRUE, generation[g].run)
          ELSE IF h = p THEN Generated("SUPERSEDED", FALSE, generation[p].run)
          ELSE generation[h]
    BY <1>9 DEF ApplyCommits
  <2>2. \A h \in Generations :
          \/ generation'[h] = generation[h]
          \/ generation'[h].status = "APPLIED"
          \/ ~generation'[h].current
    BY <2>1 DEF Generated
  <2>3. CurrentIsApplied' BY <2>2 DEF AppliedInv, CurrentIsApplied
  <2>4. tx[e].pc = "planned" /\ tx' = [tx EXCEPT ![e] = Tx("done", None, None, None)]
    BY <1>9 DEF ApplyCommits, Done
  <2> QED BY <1>0, <2>3, <2>4, NotDiscarding
<1>10. ASSUME NEW e \in Requests, DiscardWrites(e) PROVE DiscardAlone' /\ CurrentIsApplied'
  <2> DEFINE g == tx[e].generation
  <2>1. /\ tx[e].pc = "discarding" /\ g \in Generations /\ ~generation[g].current
        /\ \A f \in Requests \ {e} : tx[f].pc # "discarding"
        /\ tx' = [tx EXCEPT ![e] = Tx("done", None, None, None)]
    BY <1>10 DEF DiscardWrites, Done, AppliedInv, CurrentInv, TxOK, DiscardAlone
  <2>2. \A h \in Generations :
          generation'[h] = generation[h] \/ ~generation'[h].current
    BY <1>0, <1>10, <2>1, GeneratedFields DEF DiscardWrites
  <2>3. CurrentIsApplied' BY <2>2 DEF AppliedInv, CurrentIsApplied
  <2> QED BY <2>1, <2>3, NotDiscarding
<1>11. ASSUME NEW e \in Requests, Abort(e) PROVE DiscardAlone' /\ CurrentIsApplied'
  <2>1. /\ tx[e].pc \notin {"idle", "done"} /\ generation' = generation
        /\ tx' = [tx EXCEPT ![e] = Tx("done", None, None, None)]
    BY <1>11 DEF Abort, Done
  <2>2. \A f \in Requests \ {e} : tx[f].pc # "discarding"
    BY <2>1 DEF AppliedInv, DiscardAlone
  <2> QED BY <1>2, <2>1, <2>2, NotDiscarding
<1>12. ASSUME NEW s \in Sessions, Lock(s) \/ Unlock(s) \/ BankSession(s)
       PROVE  DiscardAlone' /\ CurrentIsApplied'
  BY <1>1, <1>12 DEF Lock, Unlock, BankSession, Edit
<1>13. ASSUME NEW s \in Sessions, NEW slot \in Slots, Move(s, slot)
       PROVE  DiscardAlone' /\ CurrentIsApplied'
  BY <1>1, <1>13 DEF Move, Edit
<1>14. CASE UNCHANGED vars BY <1>1, <1>14 DEF vars
<1> QED
  BY <1>3, <1>4, <1>5, <1>6, <1>7, <1>8, <1>9, <1>10, <1>11, <1>12, <1>13, <1>14 DEF Next

\* The current generation of a term is never one that was superseded or
\* discarded, provided that no discard falls between the steps of an apply.
THEOREM CurrentStaysApplied ==
    ASSUME "discard" \notin Racing
    PROVE  Spec => []CurrentIsApplied
<1>1. Init => AppliedInv
  <2> SUFFICES ASSUME Init PROVE AppliedInv OBVIOUS
  <2>1. \A e \in Requests : tx[e].pc = "idle" BY TxFields DEF Init
  <2>2. NoneIsCurrent /\ CurrentIsApplied
    BY StartAssumption DEF Init, NoneIsCurrent, CurrentIsApplied
  <2> QED BY <2>1, <2>2, InitCurrent DEF AppliedInv, DiscardAlone
<1>2. AppliedInv /\ [Next]_vars => AppliedInv'
  BY StepCurrent, StepNone, StepApplied DEF AppliedInv
<1>3. AppliedInv => CurrentIsApplied BY DEF AppliedInv
<1> QED BY <1>1, <1>2, <1>3, PTL DEF Spec

-----------------------------------------------------------------------------
(***************************************************************************)
(* The inductive invariants                                                *)
(***************************************************************************)
\* The statuses of a generation that was proposed and has not failed.
Live == {"READY", "APPLIED", "SUPERSEDED"}

StatusHolds == \A g \in Generations :
    /\ generation[g].status \in Status
    /\ generation[g].current => generation[g].status \in Live
    /\ StartGenerations[g].status \in {"FAILED", "INFEASIBLE"} =>
         generation[g] = StartGenerations[g]

\* A request works on generations that were proposed and have not failed.
RequestsHold == \A e \in Requests :
    /\ tx[e].pc \in {"idle", "read", "found", "flagged", "planned", "discarding", "done"}
    /\ tx[e].generation \in Generations \cup {None}
    /\ tx[e].previous \in Generations \cup {None}
    /\ tx[e].pc \notin {"idle", "done"} => generation[tx[e].generation].status \in Live
    /\ tx[e].pc \in {"found", "flagged", "planned"} /\ tx[e].previous # None =>
         generation[tx[e].previous].status \in Live

\* Rows, and the term of a session that counts for an offering.
SessionsHold ==
    /\ session \in [Sessions -> Row]
    /\ \A s \in Sessions : Exists(s) /\ session[s].offering # None =>
         OfferedIn[session[s].offering] = session[s].term

\* The sessions an answer moves are of its term; one that is still there is
\* of the offering it was of when the run asked. New ones are in scope.
AnswerHolds(g) ==
    LET run == generation[g].run IN
    /\ DOMAIN run.old \subseteq Sessions
    /\ \A s \in DOMAIN run.old :
        /\ run.old[s].offering \in Offerings /\ run.old[s].place \in Slots
        /\ OfferedIn[run.old[s].offering] = TermOf[g]
        /\ Exists(s) => session[s].offering = run.old[s].offering
    /\ run.new \in [Offerings -> Seq(Slots)]
    /\ \A o \in Offerings \ ScopeOf[g] : run.new[o] = <<>>

AnswersHold == \A g \in Generations : generation[g].run # None => AnswerHolds(g)

\* What a plan moves, deletes and skips is there, of the term it is for.
PlanHolds(e) ==
    LET plan == tx[e].plan  g == tx[e].generation IN
    /\ DOMAIN plan.moves \cup plan.deletes \cup plan.skipped \subseteq
         {s \in Sessions : Exists(s) /\ session[s].term = TermOf[g]}
    /\ \A s \in DOMAIN plan.moves : session[s].offering # None /\ plan.moves[s] \in Slots
    /\ DOMAIN plan.moves \cap plan.deletes = {}
    /\ (DOMAIN plan.moves \cup plan.deletes) \cap plan.skipped = {}
    /\ \A c \in DOMAIN plan.creates :
        c[1] \in Offerings /\ OfferedIn[c[1]] = TermOf[g] /\ plan.creates[c] \in Slots

PlansHold == \A e \in Requests : tx[e].pc = "planned" => PlanHolds(e)

ScheduleInv == /\ CurrentInv /\ NoneIsCurrent
               /\ StatusHolds /\ RequestsHold /\ edits \in 0..MaxEdits
               /\ SessionsHold /\ Provenance /\ AnswersHold /\ PlansHold

\* While no lock falls between plan and execution.
LocksHold == \A e \in Requests : tx[e].pc = "planned" =>
    \A s \in DOMAIN tx[e].plan.moves \cup tx[e].plan.deletes : ~session[s].locked

\* A plan is the one that would be made now, but for what it skips.
PlanNow(g, run, plan) ==
    LET invented == UNION {{<<o, i>> : i \in DOMAIN run.new[o]} : o \in Offerings} IN
    /\ DOMAIN plan.moves = {s \in DOMAIN run.old \ plan.skipped : IsPlaced(session[s])}
    /\ \A s \in DOMAIN plan.moves : plan.moves[s] = run.old[s].place
    /\ DOMAIN plan.creates = invented \cup {<<run.old[s].offering, s>> : s \in Lost(run)}
    /\ plan.deletes = {s \in Sessions \ (DOMAIN plan.moves \cup plan.skipped) :
                         Deletable(run, g, s)}

PlanStands(e) ==
    LET run == generation[tx[e].generation].run IN
    IF run = None THEN tx[e].plan = NoPlan ELSE PlanNow(tx[e].generation, run, tx[e].plan)

\* While no session enters or leaves the bank between plan and execution.
PlansStand == \A e \in Requests : tx[e].pc = "planned" => PlanStands(e)

\* The sessions a run was not asked about stay in the bank and count for their
\* offering; with them and what it was asked for, the offering has enough.
AskHolds(g) ==
    LET run == generation[g].run IN
    /\ run.banked \subseteq Sessions \ DOMAIN run.old
    /\ \A s \in run.banked : session[s].place = Bank
    /\ run.required \in [Offerings -> Nat]
    /\ \A o \in ScopeOf[g] :
         Frequency[o] <= run.required[o]
                           + Cardinality({s \in run.banked : session[s].offering = o})

\* While no session is restored from the bank.
AsksHold == \A g \in Generations : generation[g].run # None => AskHolds(g)

-----------------------------------------------------------------------------
(***************************************************************************)
(* What the actions write                                                  *)
(***************************************************************************)
\* The plan of a transaction's row, see also TxFields.
LEMMA TxPlan ==
    ASSUME NEW pc, NEW g, NEW p, NEW plan
    PROVE  Tx(pc, g, p, plan).plan = plan
BY DEF Tx

\* The answer in a row of generation, see also GeneratedFields.
LEMMA GeneratedRun ==
    ASSUME NEW status, NEW current, NEW run
    PROVE  Generated(status, current, run).run = run
BY DEF Generated

\* A row that does not exist is a row, if there are terms at all.
LEMMA NoSessionFields ==
    ASSUME NEW t \in Terms
    PROVE  /\ NoSession \in Row
           /\ NoSession.place = Gone /\ NoSession.offering = None
           /\ NoSession.generation = None /\ ~NoSession.locked
<1>1. (CHOOSE u \in Terms : TRUE) \in Terms OBVIOUS
<1> QED BY <1>1 DEF NoSession, Row

\* Every session keeps its offering, its term and the generation it hangs off,
\* and whether it exists.
SameSessions == \A s \in Sessions :
    /\ session'[s].offering = session[s].offering
    /\ session'[s].term = session[s].term
    /\ session'[s].generation = session[s].generation
    /\ (Exists(s)' <=> Exists(s))

EditsRow(s) == Lock(s) \/ Unlock(s) \/ BankSession(s) \/ \E slot \in Slots : Move(s, slot)

\* An edit writes one row: its place or its lock.
LEMMA EditWrites ==
    ASSUME SessionsHold, edits \in 0..MaxEdits, NEW s \in Sessions, EditsRow(s)
    PROVE  /\ generation' = generation /\ tx' = tx /\ edits' \in 0..MaxEdits
           /\ session' \in [Sessions -> Row]
           /\ SameSessions
<1> DEFINE row == session[s]
<1>1. /\ session \in [Sessions -> Row] /\ row \in Row
      /\ Bank # Gone /\ Gone \notin Slots /\ MaxEdits \in Nat
  BY ScheduleAssumption, ApplyAssumption DEF SessionsHold
<1>2. PICK new : /\ generation' = generation /\ tx' = tx
                 /\ edits < MaxEdits /\ edits' = edits + 1
                 /\ session' = [session EXCEPT ![s] = new]
                 /\ \/ new = [row EXCEPT !.locked = TRUE]
                    \/ new = [row EXCEPT !.locked = FALSE]
                    \/ Exists(s) /\ new = [row EXCEPT !.place = Bank]
                    \/ Exists(s) /\ \E slot \in Slots : new = [row EXCEPT !.place = slot]
  <2>1. CASE Lock(s) BY <2>1 DEF Lock, Edit
  <2>2. CASE Unlock(s) BY <2>2 DEF Unlock, Edit
  <2>3. CASE BankSession(s) BY <2>3 DEF BankSession, Edit, IsPlaced, Exists
  <2>4. ASSUME NEW slot \in Slots, Move(s, slot)
        PROVE  \E slott \in Slots :
                 /\ generation' = generation /\ tx' = tx
                 /\ edits < MaxEdits /\ edits' = edits + 1
                 /\ session' = [session EXCEPT ![s] = [row EXCEPT !.place = slott]]
                 /\ Exists(s)
    BY <2>4 DEF Move, Edit
  <2> QED BY <2>1, <2>2, <2>3, <2>4 DEF EditsRow
<1>3. /\ new \in Row
      /\ new.offering = row.offering /\ new.term = row.term
      /\ new.generation = row.generation
      /\ (new.place # Gone <=> row.place # Gone)
  BY <1>1, <1>2 DEF Row, Exists
<1>4. edits' \in 0..MaxEdits BY <1>1, <1>2
<1>5. session' \in [Sessions -> Row] BY <1>1, <1>2, <1>3
<1>6. SameSessions BY <1>1, <1>2, <1>3 DEF SameSessions, Exists
<1> QED BY <1>2, <1>4, <1>5, <1>6

\* A rebase moves a row to another generation, or leaves it as it is.
LEMMA RebaseWrites ==
    ASSUME NEW g \in Generations, NEW row \in Row
    PROVE  /\ Rebased(g, row) \in Row
           /\ Rebased(g, row).place = row.place
           /\ Rebased(g, row).offering = row.offering
           /\ Rebased(g, row).term = row.term
           /\ Rebased(g, row).locked = row.locked
           /\ \/ Rebased(g, row).generation = row.generation
              \/ /\ Rebased(g, row).generation = g /\ row.offering # None
                 /\ TermOf[g] \in {row.term, None}
           /\ row.generation = g => Rebased(g, row).generation = g
BY DEF Rebased, InTerm, Row

\* What a commit of e makes of the sessions its plan moves, of those it deletes,
\* of the ids it gives to those it creates, and of the others.
Materializes(e, id) ==
    LET plan == tx[e].plan  g == tx[e].generation IN
    /\ id \in [DOMAIN plan.creates -> Fresh]
    /\ \A c, d \in DOMAIN plan.creates : id[c] = id[d] => c = d
    /\ \A s \in DOMAIN plan.moves :
        /\ session'[s].place = plan.moves[s] /\ session'[s].generation = g
        /\ session'[s].offering = session[s].offering
        /\ session'[s].term = session[s].term /\ session'[s].locked = session[s].locked
    /\ \A s \in plan.deletes : session'[s] = NoSession
    /\ \A c \in DOMAIN plan.creates :
        /\ session'[id[c]].place = plan.creates[c] /\ session'[id[c]].generation = g
        /\ session'[id[c]].offering = c[1] /\ session'[id[c]].term = TermOf[g]
    /\ \A s \in Sessions \ (DOMAIN plan.moves \cup plan.deletes) :
        s \notin {id[c] : c \in DOMAIN plan.creates} => session'[s] = Rebased(g, session[s])

\* A commit executes a plan row by row, and rebases what it finds then.
LEMMA CommitWrites ==
    ASSUME ScheduleInv, NEW e \in Requests, ApplyCommits(e)
    PROVE  /\ session' \in [Sessions -> Row]
           /\ \E id : Materializes(e, id)
<1> DEFINE g == tx[e].generation
           plan == tx[e].plan
<1>1. /\ g \in Generations
      /\ session \in [Sessions -> Row]
      /\ DOMAIN plan.moves \cup plan.deletes \subseteq {s \in Sessions : Exists(s)}
      /\ \A s \in DOMAIN plan.moves : plan.moves[s] \in Slots
      /\ DOMAIN plan.moves \cap plan.deletes = {}
      /\ \A c \in DOMAIN plan.creates : /\ c[1] \in Offerings
                                        /\ TermOf[g] \in Terms
                                        /\ plan.creates[c] \in Slots
  BY ApplyAssumption
  DEF ApplyCommits, ScheduleInv, CurrentInv, TxOK, SessionsHold, PlansHold, PlanHolds
<1>2. PICK id \in [DOMAIN plan.creates -> Fresh] :
        /\ \A c, d \in DOMAIN id : id[c] = id[d] => c = d
        /\ session' = [s \in Sessions |-> Rebased(g, Executed(g, plan, id)[s])]
  <2> DEFINE ids == {f \in [DOMAIN plan.creates -> Fresh] :
                       \A c, d \in DOMAIN f : f[c] = f[d] => c = d}
  <2> DEFINE id == CHOOSE f \in ids : TRUE
  <2>1. ids # {} /\ session' = [s \in Sessions |-> Rebased(g, Executed(g, plan, id)[s])]
    BY DEF ApplyCommits
  <2>2. id \in ids BY <2>1
  <2> QED BY <2>1, <2>2
<1> HIDE DEF g, plan
<1>3. \A s \in Sessions : session'[s] = Rebased(g, Executed(g, plan, id)[s])
  BY <1>2
<1>4. \A c \in DOMAIN plan.creates :
        id[c] \in Sessions /\ ~Exists(id[c]) /\ id[c] \notin DOMAIN plan.moves \cup plan.deletes
  BY <1>1, <1>2 DEF Fresh
<1>5. ASSUME NEW s \in DOMAIN plan.moves
      PROVE  /\ Executed(g, plan, id)[s] \in Row
             /\ session'[s].place = plan.moves[s] /\ session'[s].generation = g
             /\ session'[s].offering = session[s].offering
             /\ session'[s].term = session[s].term /\ session'[s].locked = session[s].locked
  <2>1. s \in Sessions /\ session[s] \in Row /\ plan.moves[s] \in Slots BY <1>1
  <2>2. Executed(g, plan, id)[s]
          = [session[s] EXCEPT !.place = plan.moves[s], !.generation = g]
    BY <2>1 DEF Executed
  <2>3. /\ Executed(g, plan, id)[s] \in Row
        /\ Executed(g, plan, id)[s].place = plan.moves[s]
        /\ Executed(g, plan, id)[s].generation = g
        /\ Executed(g, plan, id)[s].offering = session[s].offering
        /\ Executed(g, plan, id)[s].term = session[s].term
        /\ Executed(g, plan, id)[s].locked = session[s].locked
    BY <1>1, <2>1, <2>2 DEF Row
  <2> DEFINE row == Executed(g, plan, id)[s]
  <2>4. session'[s] = Rebased(g, row) BY <1>3, <2>1
  <2>5. row \in Row /\ row.generation = g BY <2>3
  <2> HIDE DEF row
  <2>6. /\ session'[s].place = row.place /\ session'[s].generation = g
        /\ session'[s].offering = row.offering
        /\ session'[s].term = row.term /\ session'[s].locked = row.locked
    BY <1>1, <2>4, <2>5, RebaseWrites
  <2> QED BY <2>3, <2>6 DEF row
<1>6. ASSUME NEW s \in plan.deletes
      PROVE  Executed(g, plan, id)[s] = NoSession /\ NoSession \in Row /\ session'[s] = NoSession
  <2>1. s \in Sessions /\ s \notin DOMAIN plan.moves /\ session[s] \in Row BY <1>1
  <2>2. session[s].term \in Terms BY <2>1 DEF Row
  <2>3. Executed(g, plan, id)[s] = NoSession BY <2>1 DEF Executed
  <2>4. NoSession \in Row /\ NoSession.place = Gone BY <2>2, NoSessionFields
  <2>5. Rebased(g, NoSession) = NoSession BY <2>4 DEF Rebased
  <2> QED BY <1>3, <2>1, <2>3, <2>4, <2>5
<1>7. ASSUME NEW c \in DOMAIN plan.creates
      PROVE  /\ Executed(g, plan, id)[id[c]] \in Row
             /\ session'[id[c]].place = plan.creates[c] /\ session'[id[c]].generation = g
             /\ session'[id[c]].offering = c[1] /\ session'[id[c]].term = TermOf[g]
  <2>1. (CHOOSE d \in DOMAIN id : id[d] = id[c]) = c BY <1>2
  <2>2. Executed(g, plan, id)[id[c]] =
          [NoSession EXCEPT !.place = plan.creates[c], !.offering = c[1],
                            !.term = TermOf[g], !.generation = g]
    BY <1>2, <1>4, <2>1 DEF Executed
  <2>3. /\ Executed(g, plan, id)[id[c]] \in Row
        /\ Executed(g, plan, id)[id[c]].place = plan.creates[c]
        /\ Executed(g, plan, id)[id[c]].generation = g
        /\ Executed(g, plan, id)[id[c]].offering = c[1]
        /\ Executed(g, plan, id)[id[c]].term = TermOf[g]
    BY <1>1, <2>2, NoSessionFields DEF NoSession, Row
  <2> DEFINE row == Executed(g, plan, id)[id[c]]
  <2>4. session'[id[c]] = Rebased(g, row) BY <1>3, <1>4
  <2>5. row \in Row /\ row.generation = g BY <2>3
  <2> HIDE DEF row
  <2>6. /\ session'[id[c]].place = row.place /\ session'[id[c]].generation = g
        /\ session'[id[c]].offering = row.offering /\ session'[id[c]].term = row.term
    BY <1>1, <2>4, <2>5, RebaseWrites
  <2> QED BY <2>3, <2>6 DEF row
<1>8. ASSUME NEW s \in Sessions \ (DOMAIN plan.moves \cup plan.deletes),
             s \notin {id[c] : c \in DOMAIN plan.creates}
      PROVE  Executed(g, plan, id)[s] = session[s] /\ session'[s] = Rebased(g, session[s])
  <2>1. Executed(g, plan, id)[s] = session[s] BY <1>2, <1>8 DEF Executed
  <2> QED BY <1>3, <2>1
<1>9. session' \in [Sessions -> Row]
  <2>1. ASSUME NEW s \in Sessions PROVE Executed(g, plan, id)[s] \in Row
    <3>1. CASE s \in DOMAIN plan.moves BY <1>5, <3>1
    <3>2. CASE s \in plan.deletes BY <1>6, <3>2
    <3>3. CASE s \in {id[c] : c \in DOMAIN plan.creates} BY <1>7, <3>3
    <3>4. CASE /\ s \notin DOMAIN plan.moves \cup plan.deletes
               /\ s \notin {id[c] : c \in DOMAIN plan.creates}
      BY <1>1, <1>8, <3>4
    <3> QED BY <3>1, <3>2, <3>3, <3>4
  <2> QED BY <1>1, <1>2, <2>1, RebaseWrites
<1>10. \A c, d \in DOMAIN plan.creates : id[c] = id[d] => c = d BY <1>2
<1>11. Materializes(e, id)
  BY <1>2, <1>5, <1>6, <1>7, <1>8, <1>10 DEF Materializes, g, plan
<1> QED BY <1>9, <1>11

-----------------------------------------------------------------------------
(***************************************************************************)
(* What every step leaves alone                                            *)
(***************************************************************************)
\* A session that is there was there, of the same offering and term, or has an
\* id no answer knows.
RowsKept == \A s \in Sessions : Exists(s)' =>
    \/ s \in Fresh
    \/ /\ Exists(s)
       /\ session'[s].offering = session[s].offering
       /\ session'[s].term = session[s].term

\* No session of term t is deleted, or counts for something else.
KeepsTerm(t) == \A s \in Sessions : Exists(s) /\ session[s].term = t =>
    /\ Exists(s)'
    /\ session'[s].offering = session[s].offering
    /\ session'[s].term = session[s].term

\* A commit: one existing row moved, deleted or rebased at a time.
LEMMA CommitRows ==
    ASSUME ScheduleInv, NEW e \in Requests, NEW id, Materializes(e, id),
           ApplyCommits(e), NEW s \in Sessions
    PROVE  LET plan == tx[e].plan  g == tx[e].generation IN
           /\ Exists(s) /\ s \notin plan.deletes =>
                /\ Exists(s)'
                /\ session'[s].offering = session[s].offering
                /\ session'[s].term = session[s].term
                /\ session'[s].locked = session[s].locked
                /\ s \notin DOMAIN plan.moves => session'[s].place = session[s].place
           /\ s \in plan.deletes => session'[s] = NoSession /\ ~Exists(s)'
           /\ ~Exists(s) =>
                \/ \E c \in DOMAIN plan.creates :
                     /\ s = id[c] /\ s \in Fresh
                     /\ session'[s].offering = c[1]
                     /\ session'[s].term = TermOf[g]
                     /\ OfferedIn[c[1]] = TermOf[g] /\ c[1] \in Offerings
                     /\ session'[s].generation = g
                \/ session'[s] = session[s]
           /\ Exists(s) =>
                \/ session'[s].generation \in {session[s].generation, None}
                \/ /\ session'[s].generation = g /\ session[s].offering # None
                   /\ TermOf[g] \in {session[s].term, None}
<1> DEFINE g == tx[e].generation
           plan == tx[e].plan
<1>1. /\ g \in Generations
      /\ session[s] \in Row
      /\ DOMAIN plan.moves \cup plan.deletes \subseteq
           {r \in Sessions : Exists(r) /\ session[r].term = TermOf[g]}
      /\ \A r \in DOMAIN plan.moves : session[r].offering # None /\ plan.moves[r] \in Slots
      /\ DOMAIN plan.moves \cap plan.deletes = {}
      /\ \A c \in DOMAIN plan.creates : c[1] \in Offerings /\ OfferedIn[c[1]] = TermOf[g]
  BY DEF ApplyCommits, ScheduleInv, CurrentInv, TxOK, SessionsHold, PlansHold, PlanHolds
<1>2. /\ NoSession.place = Gone /\ NoSession.generation = None
  <2>1. session[s].term \in Terms BY <1>1 DEF Row
  <2> QED BY <2>1, NoSessionFields
<1> HIDE DEF g, plan
<1>3. CASE s \in DOMAIN plan.moves
  <2>1. /\ session'[s].place = plan.moves[s] /\ session'[s].generation = g
        /\ session'[s].offering = session[s].offering
        /\ session'[s].term = session[s].term /\ session'[s].locked = session[s].locked
    BY <1>3 DEF Materializes, g, plan
  <2>2. Exists(s) /\ s \notin plan.deletes /\ session[s].term = TermOf[g]
        /\ session[s].offering # None
    BY <1>1, <1>3
  <2>3. Exists(s)' BY <1>1, <1>3, <2>1, ScheduleAssumption DEF Exists
  <2> QED BY <1>3, <2>1, <2>2, <2>3 DEF g, plan
<1>4. CASE s \in plan.deletes
  <2>1. session'[s] = NoSession BY <1>4 DEF Materializes, plan
  <2>2. Exists(s) BY <1>1, <1>4
  <2>3. ~Exists(s)' BY <1>2, <2>1 DEF Exists
  <2> QED BY <1>2, <1>4, <2>1, <2>2, <2>3 DEF g, plan
<1>5. CASE s \in {id[c] : c \in DOMAIN plan.creates}
  <2>1. PICK c \in DOMAIN plan.creates : s = id[c] BY <1>5
  <2>2. s \in Fresh BY <2>1 DEF Materializes, plan
  <2>3. ~Exists(s) /\ s \notin plan.deletes BY <1>1, <2>2 DEF Fresh
  <2>4. /\ session'[s].offering = c[1] /\ session'[s].term = TermOf[g]
        /\ session'[s].generation = g
    BY <2>1 DEF Materializes, g, plan
  <2> QED BY <1>1, <2>1, <2>2, <2>3, <2>4 DEF g, plan
<1>6. CASE /\ s \notin DOMAIN plan.moves \cup plan.deletes
           /\ s \notin {id[c] : c \in DOMAIN plan.creates}
  <2>1. session'[s] = Rebased(g, session[s]) BY <1>6 DEF Materializes, g, plan
  <2>2. /\ session'[s].place = session[s].place
        /\ session'[s].offering = session[s].offering
        /\ session'[s].term = session[s].term /\ session'[s].locked = session[s].locked
        /\ \/ session'[s].generation = session[s].generation
           \/ /\ session'[s].generation = g /\ session[s].offering # None
              /\ TermOf[g] \in {session[s].term, None}
    BY <1>1, <2>1, RebaseWrites
  <2>3. Exists(s)' <=> Exists(s) BY <2>2 DEF Exists
  <2>4. ~Exists(s) => session'[s] = session[s] BY <2>1 DEF Rebased, Exists
  <2> QED BY <1>6, <2>2, <2>3, <2>4 DEF g, plan
<1> QED BY <1>3, <1>4, <1>5, <1>6

\* A commit keeps the schedule in order, and the sessions of every term but its
\* own: only one request of a term has flagged its generation, and plans.
LEMMA CommitKeeps ==
    ASSUME ScheduleInv, NEW e \in Requests, ApplyCommits(e)
    PROVE  /\ RowsKept
           /\ SessionsHold' /\ Provenance'
           /\ \A f \in Requests \ {e} : HasFlagged(f) => KeepsTerm(TermOf[tx[f].generation])
<1> DEFINE g == tx[e].generation
           plan == tx[e].plan
<1>1. PICK id : Materializes(e, id) BY CommitWrites
<1>2. /\ g \in Generations /\ HasFlagged(e)
      /\ session' \in [Sessions -> Row]
      /\ \A s \in plan.deletes : session[s].term = TermOf[g]
      /\ \A s \in Sessions : session[s].term \in Terms
  BY CommitWrites
  DEF ApplyCommits, HasFlagged, ScheduleInv, CurrentInv, TxOK, SessionsHold, PlansHold, PlanHolds, Row
<1>3. RowsKept
  <2> SUFFICES ASSUME NEW s \in Sessions, Exists(s)'
               PROVE  \/ s \in Fresh
                      \/ /\ Exists(s)
                         /\ session'[s].offering = session[s].offering
                         /\ session'[s].term = session[s].term
    BY DEF RowsKept
  <2>1. CASE Exists(s) BY <1>1, <2>1, CommitRows
  <2>2. CASE ~Exists(s) BY <1>1, <2>2, CommitRows DEF Exists
  <2> QED BY <2>1, <2>2
<1>4. SessionsHold'
  <2>1. ASSUME NEW s \in Sessions, Exists(s)', session'[s].offering # None
        PROVE  OfferedIn[session'[s].offering] = session'[s].term
    <3>1. CASE Exists(s) BY <1>1, <2>1, <3>1, CommitRows DEF ScheduleInv, SessionsHold
    <3>2. CASE ~Exists(s)
      <4>1. session'[s] # session[s] BY <2>1, <3>2 DEF Exists
      <4> QED BY <1>1, <3>2, <4>1, CommitRows
    <3> QED BY <3>1, <3>2
  <2> QED BY <1>2, <2>1 DEF SessionsHold
<1>5. Provenance'
  <2> SUFFICES ASSUME NEW s \in Sessions, session'[s].generation # None
               PROVE  /\ TermOf[session'[s].generation] \in {session'[s].term, None}
                      /\ session'[s].offering # None
    BY DEF Provenance
  <2>1. s \notin plan.deletes
    <3>1. session[s].term \in Terms BY <1>2
    <3> QED BY <1>1, <3>1, CommitRows, NoSessionFields
  <2>2. session[s].generation # None =>
          /\ TermOf[session[s].generation] \in {session[s].term, None}
          /\ session[s].offering # None
    BY DEF ScheduleInv, Provenance
  <2>3. CASE Exists(s) BY <1>1, <2>1, <2>2, <2>3, CommitRows
  <2>4. CASE ~Exists(s) BY <1>1, <2>2, <2>4, CommitRows, ScheduleAssumption
  <2> QED BY <2>3, <2>4
<1>6. ASSUME NEW f \in Requests \ {e}, HasFlagged(f)
      PROVE  KeepsTerm(TermOf[tx[f].generation])
  <2>1. TermOf[tx[f].generation] # TermOf[g]
    BY <1>2, <1>6 DEF ScheduleInv, CurrentInv, FlagsExclusive
  <2>2. ASSUME NEW s \in Sessions, Exists(s), session[s].term = TermOf[tx[f].generation]
        PROVE  /\ Exists(s)'
               /\ session'[s].offering = session[s].offering
               /\ session'[s].term = session[s].term
    <3>1. s \notin plan.deletes BY <1>2, <2>1, <2>2
    <3> QED BY <1>1, <2>2, <3>1, CommitRows
  <2> QED BY <2>2 DEF KeepsTerm
<1> QED BY <1>3, <1>4, <1>5, <1>6

\* An edit changes nothing of what a plan or an answer relies on.
LEMMA SameKeeps ==
    ASSUME ScheduleInv, session' \in [Sessions -> Row], SameSessions
    PROVE  /\ RowsKept
           /\ SessionsHold' /\ Provenance'
           /\ \A t : KeepsTerm(t)
<1>1. RowsKept /\ \A t : KeepsTerm(t) BY DEF SameSessions, RowsKept, KeepsTerm
<1>2. SessionsHold' BY DEF SameSessions, ScheduleInv, SessionsHold
<1>3. Provenance' BY DEF SameSessions, ScheduleInv, Provenance
<1> QED BY <1>1, <1>2, <1>3

\* An answer that is not rewritten stays true of the sessions that are left.
LEMMA AnswersKept ==
    ASSUME AnswersHold, RowsKept,
           \A g \in Generations : generation'[g].run = generation[g].run
    PROVE  AnswersHold'
<1> SUFFICES ASSUME NEW g \in Generations, generation'[g].run # None
             PROVE  AnswerHolds(g)'
  BY DEF AnswersHold
<1>1. generation'[g].run = generation[g].run /\ generation[g].run # None /\ AnswerHolds(g)
  BY DEF AnswersHold
<1>2. \A s \in DOMAIN generation[g].run.old : s \notin Fresh BY <1>1 DEF Fresh
<1>3. ASSUME NEW s \in DOMAIN generation[g].run.old, Exists(s)'
      PROVE  session'[s].offering = generation[g].run.old[s].offering
  <2>1. s \in Sessions BY <1>1 DEF AnswerHolds
  <2>2. Exists(s) /\ session'[s].offering = session[s].offering
    BY <1>2, <1>3, <2>1 DEF RowsKept
  <2> QED BY <1>1, <2>2 DEF AnswerHolds
<1> QED BY <1>1, <1>3 DEF AnswerHolds

\* A plan that is not rewritten holds on while the sessions of its term do.
LEMMA PlansKept ==
    ASSUME PlansHold,
           \A e \in Requests : tx'[e].pc = "planned" =>
             tx'[e] = tx[e] /\ KeepsTerm(TermOf[tx[e].generation])
    PROVE  PlansHold'
<1> SUFFICES ASSUME NEW e \in Requests, tx'[e].pc = "planned"
             PROVE  PlanHolds(e)'
  BY DEF PlansHold
<1>1. tx'[e] = tx[e] /\ KeepsTerm(TermOf[tx[e].generation]) /\ PlanHolds(e) BY DEF PlansHold
<1>2. \A s \in DOMAIN tx[e].plan.moves \cup tx[e].plan.deletes \cup tx[e].plan.skipped :
        /\ s \in Sessions /\ Exists(s)' /\ session'[s].term = TermOf[tx[e].generation]
        /\ session'[s].offering = session[s].offering
  BY <1>1 DEF PlanHolds, KeepsTerm
<1> QED BY <1>1, <1>2 DEF PlanHolds

-----------------------------------------------------------------------------
(***************************************************************************)
(* Answers and plans when they are made                                    *)
(***************************************************************************)
\* The answer of a run that was just proposed, in terms of the sessions back
\* from it and of the slots they are at.
Proposes(g, run) ==
    /\ generation' = [generation EXCEPT ![g] = Generated("READY", FALSE, run)]
    /\ DOMAIN run.old \subseteq {s \in Sessions : IsPlaced(session[s])
          /\ session[s].offering # None /\ session[s].term = TermOf[g]}
    /\ \A s \in DOMAIN run.old :
         run.old[s].offering = session[s].offering /\ run.old[s].place \in Slots
    /\ run.new \in [Offerings -> Seq(Slots)]
    /\ \A o \in Offerings \ ScopeOf[g] : run.new[o] = <<>>
    /\ run.required = Required
    /\ run.banked = UNION {BankedOf(o) : o \in ScopeOf[g]}

\* A generation that was not there gets the row of a finished run.
LEMMA ProposeWrites ==
    ASSUME NEW g \in Generations, Propose(g)
    PROVE  \E run : Proposes(g, run)
<1>1. PICK back \in SUBSET {s \in Sessions : IsPlaced(session[s])
                /\ session[s].offering # None /\ session[s].term = TermOf[g]} :
        \E slot \in [back -> Slots] :
        \E new \in [Offerings -> UNION {[1..n -> Slots] : n \in 0..MaxNew}] :
          LET run == [old |-> [s \in back |-> [offering |-> session[s].offering, place |-> slot[s]]],
                      new |-> new, required |-> Required,
                      banked |-> UNION {BankedOf(o) : o \in ScopeOf[g]}] IN
          /\ \A s \in back : session[s].locked => slot[s] = session[s].place
          /\ \A o \in Offerings :
              IF o \in ScopeOf[g] THEN Returned(run, o) <= Required[o] ELSE new[o] = <<>>
          /\ generation' = [generation EXCEPT ![g] = Generated("READY", FALSE, run)]
  BY Zenon DEF Propose
<1> DEFINE Answered(slot, new) ==
             [old |-> [s \in back |-> [offering |-> session[s].offering, place |-> slot[s]]],
              new |-> new, required |-> Required,
              banked |-> UNION {BankedOf(o) : o \in ScopeOf[g]}]
<1>2. PICK slot \in [back -> Slots] :
        \E new \in [Offerings -> UNION {[1..n -> Slots] : n \in 0..MaxNew}] :
          /\ \A o \in Offerings : IF o \in ScopeOf[g]
               THEN Returned(Answered(slot, new), o) <= Required[o] ELSE new[o] = <<>>
          /\ generation' = [generation EXCEPT ![g] = Generated("READY", FALSE, Answered(slot, new))]
  BY <1>1, Zenon
<1>3. PICK new \in [Offerings -> UNION {[1..n -> Slots] : n \in 0..MaxNew}] :
        /\ \A o \in Offerings : o \in ScopeOf[g] \/ new[o] = <<>>
        /\ generation' = [generation EXCEPT ![g] = Generated("READY", FALSE, Answered(slot, new))]
  <2> HIDE DEF Answered
  <2> QED BY <1>2, Zenon
<1> DEFINE run == Answered(slot, new)
<1>4. /\ DOMAIN run.old = back
      /\ \A s \in back : run.old[s].offering = session[s].offering /\ run.old[s].place = slot[s]
      /\ run.new = new /\ run.required = Required
      /\ run.banked = UNION {BankedOf(o) : o \in ScopeOf[g]}
  OBVIOUS
<1>5. /\ \A o \in Offerings \ ScopeOf[g] : new[o] = <<>>
      /\ generation' = [generation EXCEPT ![g] = Generated("READY", FALSE, run)]
  BY <1>3
<1> HIDE DEF run
<1>6. ASSUME NEW o \in Offerings PROVE new[o] \in Seq(Slots)
  <2>1. PICK n \in 0..MaxNew : new[o] \in [1..n -> Slots] OBVIOUS
  <2> QED BY <2>1, ApplyAssumption
<1>7. new \in [Offerings -> Seq(Slots)] BY <1>6
<1> QED BY <1>4, <1>5, <1>7, ZenonT(60) DEF Proposes

\* Such an answer is true of the schedule it was computed from.
LEMMA ProposeAnswers ==
    ASSUME ScheduleInv, NEW g \in Generations, Propose(g)
    PROVE  AnswersHold'
<1>0. session' = session /\ DOMAIN generation = Generations
  BY DEF Propose, ScheduleInv, CurrentInv, RowsOK
<1>1. PICK run : Proposes(g, run) BY ProposeWrites
<1>2. generation'[g].run = run /\ \A h \in Generations \ {g} : generation'[h] = generation[h]
  BY <1>0, <1>1 DEF Proposes, Generated
<1>3. \A s \in DOMAIN run.old :
        /\ s \in Sessions /\ run.old[s].offering \in Offerings
        /\ OfferedIn[run.old[s].offering] = TermOf[g]
  BY <1>1 DEF Proposes, ScheduleInv, SessionsHold, Row, Exists, IsPlaced
<1>4. AnswerHolds(g)' BY <1>0, <1>1, <1>2, <1>3, ZenonT(60) DEF Proposes, AnswerHolds, Exists
<1>5. ASSUME NEW h \in Generations \ {g}, generation'[h].run # None PROVE AnswerHolds(h)'
  <2>1. generation'[h] = generation[h] /\ AnswerHolds(h)
    BY <1>2, <1>5 DEF ScheduleInv, AnswersHold
  <2> QED BY <1>0, <2>1 DEF AnswerHolds, Exists
<1> QED BY <1>4, <1>5 DEF AnswersHold

\* A plan when it is made.
LEMMA PlanMade ==
    ASSUME SessionsHold, NEW g \in Generations, AnswerHolds(g)
    PROVE  LET plan == Plan(g) IN
           /\ DOMAIN plan.moves \cup plan.deletes \cup plan.skipped \subseteq
                {s \in Sessions : Exists(s) /\ session[s].term = TermOf[g]}
           /\ \A s \in DOMAIN plan.moves : session[s].offering # None /\ plan.moves[s] \in Slots
           /\ DOMAIN plan.moves \cap plan.deletes = {}
           /\ (DOMAIN plan.moves \cup plan.deletes) \cap plan.skipped = {}
           /\ \A c \in DOMAIN plan.creates :
               c[1] \in Offerings /\ OfferedIn[c[1]] = TermOf[g] /\ plan.creates[c] \in Slots
           /\ \A s \in DOMAIN plan.moves \cup plan.deletes : ~session[s].locked
<1> DEFINE run == generation[g].run
           plan == Plan(g)
           skipped == Locked(TermOf[g])
           moves == {s \in DOMAIN run.old \ skipped : IsPlaced(session[s])}
           lost == Lost(run)
           invented == UNION {{<<o, i>> : i \in DOMAIN run.new[o]} : o \in Offerings}
<1>1. /\ plan.moves = [s \in moves |-> run.old[s].place]
      /\ plan.creates = [c \in invented \cup {<<run.old[s].offering, s>> : s \in lost} |->
           IF c \in invented THEN run.new[c[1]][c[2]] ELSE run.old[c[2]].place]
      /\ plan.deletes = {s \in Sessions \ (moves \cup skipped) : Deletable(run, g, s)}
      /\ plan.skipped = skipped
  BY DEF Plan
<1>2. /\ skipped \subseteq {s \in Sessions : Exists(s) /\ session[s].term = TermOf[g]}
      /\ \A s \in Sessions \ skipped :
           Exists(s) /\ session[s].term = TermOf[g] => ~session[s].locked
  BY DEF Locked
<1>3. \A s \in DOMAIN run.old :
        /\ s \in Sessions
        /\ run.old[s].offering \in Offerings /\ run.old[s].place \in Slots
        /\ OfferedIn[run.old[s].offering] = TermOf[g]
        /\ Exists(s) => session[s].offering = run.old[s].offering
  BY DEF AnswerHolds
<1>4. \A s \in moves : /\ s \in Sessions \ skipped /\ Exists(s) /\ session[s].term = TermOf[g]
                       /\ session[s].offering # None /\ run.old[s].place \in Slots
  BY <1>3, ScheduleAssumption DEF IsPlaced, Exists, SessionsHold
<1>5. \A s \in plan.deletes : /\ s \in Sessions \ (moves \cup skipped)
                              /\ Exists(s) /\ session[s].term = TermOf[g]
  BY <1>1 DEF Deletable, IsPlaced, Exists
<1>6. ASSUME NEW c \in invented
      PROVE  c[1] \in Offerings /\ OfferedIn[c[1]] = TermOf[g] /\ plan.creates[c] \in Slots
  <2>1. PICK o \in Offerings : \E i \in DOMAIN run.new[o] : c = <<o, i>> OBVIOUS
  <2>2. PICK i \in DOMAIN run.new[o] : c = <<o, i>> BY <2>1
  <2>3. run.new[o] \in Seq(Slots) BY DEF AnswerHolds
  <2>4. run.new[o][i] \in Slots BY <2>2, <2>3
  <2>5. o \in ScopeOf[g]
    <3>1. run.new[o] # <<>> BY <2>2
    <3> QED BY <3>1 DEF AnswerHolds
  <2>6. OfferedIn[o] = TermOf[g] BY <2>5, ApplyAssumption
  <2>7. plan.creates[c] = run.new[o][i] BY <1>1, <2>2
  <2> QED BY <2>2, <2>4, <2>6, <2>7
<1>7. ASSUME NEW c \in {<<run.old[s].offering, s>> : s \in lost}, c \notin invented
      PROVE  c[1] \in Offerings /\ OfferedIn[c[1]] = TermOf[g] /\ plan.creates[c] \in Slots
  <2>1. PICK s \in lost : c = <<run.old[s].offering, s>> OBVIOUS
  <2>2. s \in DOMAIN run.old BY DEF Lost
  <2>3. plan.creates[c] = run.old[s].place BY <1>1, <1>7, <2>1
  <2> QED BY <1>3, <2>1, <2>2, <2>3
<1>8. DOMAIN plan.creates = invented \cup {<<run.old[s].offering, s>> : s \in lost} BY <1>1
<1>9. DOMAIN plan.moves = moves /\ \A s \in moves : plan.moves[s] = run.old[s].place BY <1>1
<1> HIDE DEF run, plan, skipped, moves, lost, invented
<1>10. \A s \in DOMAIN plan.moves \cup plan.deletes :
         /\ s \in Sessions \ skipped /\ Exists(s) /\ session[s].term = TermOf[g]
         /\ ~session[s].locked
  BY <1>2, <1>4, <1>5, <1>9
<1>11. \A s \in plan.skipped : s \in Sessions /\ Exists(s) /\ session[s].term = TermOf[g]
  BY <1>1, <1>2
<1>12. \A c \in DOMAIN plan.creates :
         c[1] \in Offerings /\ OfferedIn[c[1]] = TermOf[g] /\ plan.creates[c] \in Slots
  BY <1>6, <1>7, <1>8
<1>13. \A s \in DOMAIN plan.moves : session[s].offering # None /\ plan.moves[s] \in Slots
  BY <1>4, <1>9
<1>14. plan.skipped = skipped /\ DOMAIN plan.moves \cap plan.deletes = {}
  BY <1>1, <1>5, <1>9
<1> QED BY <1>10, <1>11, <1>12, <1>13, <1>14 DEF plan

-----------------------------------------------------------------------------
(***************************************************************************)
(* Types and provenance                                                    *)
(***************************************************************************)
\* Generations that live do so after the step, with the answers they had.
LivesOn ==
    /\ DOMAIN generation' = Generations
    /\ \A h \in Generations : generation[h].status \in Live =>
         generation'[h].status \in Live /\ generation'[h].run = generation[h].run

\* One request goes on to another point, with a generation that lives.
LEMMA RequestMoves ==
    ASSUME ScheduleInv, LivesOn,
           NEW e \in Requests, NEW pc, NEW g, NEW p, NEW plan,
           tx' = [tx EXCEPT ![e] = Tx(pc, g, p, plan)],
           pc \in {"read", "found", "flagged", "planned", "discarding", "done"},
           g \in Generations \cup {None}, p \in Generations \cup {None},
           pc # "done" => g # None /\ generation[g].status \in Live,
           p # None => generation[p].status \in Live
    PROVE  RequestsHold'
<1>1. /\ tx'[e].pc = pc /\ tx'[e].generation = g /\ tx'[e].previous = p
      /\ \A f \in Requests \ {e} : tx'[f] = tx[f]
  BY TxFields DEF ScheduleInv, CurrentInv, RowsOK
<1> SUFFICES ASSUME NEW f \in Requests
             PROVE  /\ tx'[f].pc \in {"idle", "read", "found", "flagged", "planned",
                                      "discarding", "done"}
                    /\ tx'[f].generation \in Generations \cup {None}
                    /\ tx'[f].previous \in Generations \cup {None}
                    /\ tx'[f].pc \notin {"idle", "done"} =>
                         generation'[tx'[f].generation].status \in Live
                    /\ tx'[f].pc \in {"found", "flagged", "planned"} /\ tx'[f].previous # None =>
                         generation'[tx'[f].previous].status \in Live
  BY DEF RequestsHold
<1>2. CASE f = e BY <1>1, <1>2 DEF LivesOn
<1>3. CASE f # e
  <2>1. tx'[f] = tx[f] BY <1>1, <1>3
  <2>2. /\ tx[f].pc \notin {"idle", "done"} => tx[f].generation \in Generations
        /\ tx[f].pc \in {"found", "flagged", "planned"} /\ tx[f].previous # None =>
             tx[f].previous \in Generations
    BY DEF ScheduleInv, CurrentInv, TxOK, RequestsHold
  <2> QED BY <2>1, <2>2 DEF ScheduleInv, RequestsHold, LivesOn
<1> QED BY <1>2, <1>3

\* A step of one request that leaves generations and sessions alone.
LEMMA RequestSteps ==
    ASSUME ScheduleInv, UNCHANGED <<generation, session, edits>>,
           NEW e \in Requests, NEW pc, NEW g, NEW p, NEW plan,
           tx' = [tx EXCEPT ![e] = Tx(pc, g, p, plan)],
           pc \in {"read", "found", "flagged", "discarding", "done"},
           g \in Generations \cup {None}, p \in Generations \cup {None},
           pc # "done" => g # None /\ generation[g].status \in Live,
           p # None => generation[p].status \in Live
    PROVE  /\ StatusHolds' /\ RequestsHold' /\ edits' \in 0..MaxEdits
           /\ SessionsHold' /\ Provenance' /\ AnswersHold' /\ PlansHold'
<1>1. LivesOn BY DEF LivesOn, ScheduleInv, CurrentInv, RowsOK
<1>2. RequestsHold' BY <1>1, RequestMoves
<1>3. /\ tx'[e].pc = pc
      /\ \A f \in Requests \ {e} : tx'[f] = tx[f]
  BY TxFields DEF ScheduleInv, CurrentInv, RowsOK
<1>4. StatusHolds' /\ edits' \in 0..MaxEdits BY DEF ScheduleInv, StatusHolds
<1>5. /\ session' \in [Sessions -> Row] /\ SameSessions
  BY DEF ScheduleInv, SessionsHold, SameSessions, Exists
<1>6. /\ RowsKept /\ SessionsHold' /\ Provenance' /\ \A t : KeepsTerm(t)
  BY <1>5, SameKeeps
<1>7. AnswersHold' BY <1>6, AnswersKept DEF ScheduleInv
<1>8. \A f \in Requests : tx'[f].pc = "planned" =>
        tx'[f] = tx[f] /\ KeepsTerm(TermOf[tx[f].generation])
  BY <1>3, <1>6
<1>9. PlansHold' BY <1>8, PlansKept DEF ScheduleInv
<1> QED BY <1>2, <1>4, <1>6, <1>7, <1>9

\* The plan of a request is made from what is there, or is empty.
LEMMA PlanSteps ==
    ASSUME ScheduleInv, NEW e \in Requests, ApplyPlans(e)
    PROVE  /\ StatusHolds' /\ RequestsHold' /\ edits' \in 0..MaxEdits
           /\ SessionsHold' /\ Provenance' /\ AnswersHold' /\ PlansHold'
<1> DEFINE g == tx[e].generation
           p == tx[e].previous
           plan == IF generation[g].run = None THEN NoPlan ELSE Plan(g)
<1>1. /\ g \in Generations /\ generation[g].status \in Live
      /\ p \in Generations \cup {None} /\ (p # None => generation[p].status \in Live)
      /\ g # None
  BY ApplyAssumption DEF ApplyPlans, ScheduleInv, CurrentInv, TxOK, RequestsHold
<1>2. tx' = [tx EXCEPT ![e] = Tx("planned", g, p, plan)]
  BY DEF ApplyPlans, ScheduleInv, CurrentInv, RowsOK
<1>3. UNCHANGED <<generation, session, edits>> BY DEF ApplyPlans
<1>4. LivesOn BY <1>3 DEF LivesOn, ScheduleInv, CurrentInv, RowsOK
<1> HIDE DEF plan, p
<1>5. RequestsHold'
  <2>1. "planned" \in {"read", "found", "flagged", "planned", "discarding", "done"} OBVIOUS
  <2> QED BY <1>1, <1>2, <1>4, <2>1, RequestMoves
<1>6. StatusHolds' /\ edits' \in 0..MaxEdits BY <1>3 DEF ScheduleInv, StatusHolds
<1>7. session' \in [Sessions -> Row] /\ SameSessions
  BY <1>3 DEF ScheduleInv, SessionsHold, SameSessions, Exists
<1>8. RowsKept /\ SessionsHold' /\ Provenance' BY <1>7, SameKeeps
<1>9. AnswersHold' BY <1>3, <1>8, AnswersKept DEF ScheduleInv
<1>10. PlansHold'
  <2> SUFFICES ASSUME NEW f \in Requests, tx'[f].pc = "planned"
               PROVE  PlanHolds(f)'
    BY DEF PlansHold
  <2>1. CASE f # e
    <3>1. tx'[f] = tx[f] /\ PlanHolds(f)
      BY <1>2, <2>1 DEF ScheduleInv, CurrentInv, RowsOK, PlansHold
    <3> QED BY <1>3, <3>1 DEF PlanHolds, Exists
  <2>2. CASE f = e
    <3>1. tx'[e].generation = g /\ tx'[e].plan = plan
      BY <1>2, TxFields, TxPlan DEF ScheduleInv, CurrentInv, RowsOK
    <3>2. /\ DOMAIN plan.moves \cup plan.deletes \cup plan.skipped \subseteq
               {s \in Sessions : Exists(s) /\ session[s].term = TermOf[g]}
          /\ \A s \in DOMAIN plan.moves : session[s].offering # None /\ plan.moves[s] \in Slots
          /\ DOMAIN plan.moves \cap plan.deletes = {}
          /\ (DOMAIN plan.moves \cup plan.deletes) \cap plan.skipped = {}
          /\ \A c \in DOMAIN plan.creates :
              c[1] \in Offerings /\ OfferedIn[c[1]] = TermOf[g] /\ plan.creates[c] \in Slots
      <4>1. CASE generation[g].run = None
        <5>1. /\ DOMAIN plan.moves = {} /\ DOMAIN plan.creates = {}
              /\ plan.deletes = {} /\ plan.skipped = {}
          BY <4>1 DEF plan, NoPlan
        <5> QED BY <5>1
      <4>2. CASE generation[g].run # None
        <5>1. SessionsHold /\ AnswerHolds(g) BY <1>1, <4>2 DEF ScheduleInv, AnswersHold
        <5>2. plan = Plan(g) BY <4>2 DEF plan
        <5> QED BY <1>1, <5>1, <5>2, PlanMade
      <4> QED BY <4>1, <4>2
    <3> QED BY <1>3, <2>2, <3>1, <3>2 DEF PlanHolds, Exists
  <2> QED BY <2>1, <2>2
<1> QED BY <1>5, <1>6, <1>8, <1>9, <1>10

\* A generation of no run gets its answer; every other one stays as it is.
LEMMA ProposeSteps ==
    ASSUME ScheduleInv, NEW g \in Generations, Propose(g)
    PROVE  /\ StatusHolds' /\ RequestsHold' /\ edits' \in 0..MaxEdits
           /\ SessionsHold' /\ Provenance' /\ AnswersHold' /\ PlansHold'
<1>1. /\ UNCHANGED <<session, tx, edits>> /\ generation[g].status = "NONE"
      /\ DOMAIN generation = Generations
  BY DEF Propose, ScheduleInv, CurrentInv, RowsOK
<1>2. PICK run : generation' = [generation EXCEPT ![g] = Generated("READY", FALSE, run)]
  BY DEF Propose
<1>3. /\ generation'[g].status = "READY" /\ ~generation'[g].current
      /\ \A h \in Generations \ {g} : generation'[h] = generation[h]
      /\ DOMAIN generation' = Generations
  BY <1>1, <1>2 DEF Generated
<1>4. LivesOn BY <1>1, <1>3 DEF LivesOn, Live
<1>5. StatusHolds'
  <2>1. StartGenerations[g].status \notin {"FAILED", "INFEASIBLE"}
    BY <1>1 DEF ScheduleInv, StatusHolds
  <2> QED BY <1>3, <2>1 DEF ScheduleInv, StatusHolds, Live, Status
<1>6. RequestsHold'
  <2>1. \A e \in Requests :
          /\ tx[e].pc \notin {"idle", "done"} => tx[e].generation \in Generations
          /\ tx[e].pc \in {"found", "flagged", "planned"} /\ tx[e].previous # None =>
               tx[e].previous \in Generations
    BY DEF ScheduleInv, CurrentInv, TxOK, RequestsHold
  <2> QED BY <1>1, <1>4, <2>1 DEF ScheduleInv, RequestsHold, LivesOn
<1>7. session' \in [Sessions -> Row] /\ SameSessions
  BY <1>1 DEF ScheduleInv, SessionsHold, SameSessions, Exists
<1>8. SessionsHold' /\ Provenance' /\ \A t : KeepsTerm(t) BY <1>7, SameKeeps
<1>9. AnswersHold' BY ProposeAnswers
<1>10. PlansHold' BY <1>1, <1>8, PlansKept DEF ScheduleInv
<1> QED BY <1>1, <1>5, <1>6, <1>8, <1>9, <1>10 DEF ScheduleInv

\* A commit ends its request, and rewrites two rows of generation.
LEMMA CommitSteps ==
    ASSUME ScheduleInv, NEW e \in Requests, ApplyCommits(e)
    PROVE  /\ StatusHolds' /\ RequestsHold' /\ edits' \in 0..MaxEdits
           /\ SessionsHold' /\ Provenance' /\ AnswersHold' /\ PlansHold'
<1> DEFINE g == tx[e].generation
           p == tx[e].previous
<1>1. /\ g \in Generations /\ generation[g].status \in Live /\ tx[e].pc = "planned"
      /\ p \in Generations \cup {None} /\ (p # None => generation[p].status \in Live)
      /\ tx' = [tx EXCEPT ![e] = Tx("done", None, None, None)] /\ edits' = edits
      /\ tx = [f \in Requests |-> tx[f]]
  BY DEF ApplyCommits, Done, ScheduleInv, CurrentInv, RowsOK, TxOK, RequestsHold
<1>2. /\ DOMAIN generation' = Generations
      /\ \A h \in Generations : generation'[h] =
           IF h = g THEN Generated("APPLIED", TRUE, generation[g].run)
           ELSE IF h = p THEN Generated("SUPERSEDED", FALSE, generation[p].run)
           ELSE generation[h]
  BY DEF ApplyCommits
<1>3. /\ generation'[g].status = "APPLIED" /\ generation'[g].run = generation[g].run
      /\ \A h \in Generations \ {g} :
           \/ generation'[h] = generation[h]
           \/ /\ h = p
              /\ generation'[h].status = "SUPERSEDED" /\ ~generation'[h].current
              /\ generation'[h].run = generation[h].run
  BY <1>1, <1>2 DEF Generated
<1>4. \A h \in Generations : generation'[h].run = generation[h].run BY <1>3
<1>5. LivesOn BY <1>2, <1>3 DEF LivesOn, Live
<1>6. StatusHolds'
  <2>1. \A h \in Generations : generation[h].status \in Live =>
          StartGenerations[h].status \notin {"FAILED", "INFEASIBLE"}
    BY DEF ScheduleInv, StatusHolds, Live
  <2> SUFFICES ASSUME NEW h \in Generations
               PROVE  /\ generation'[h].status \in Status
                      /\ generation'[h].current => generation'[h].status \in Live
                      /\ StartGenerations[h].status \in {"FAILED", "INFEASIBLE"} =>
                           generation'[h] = StartGenerations[h]
    BY DEF StatusHolds
  <2>2. CASE generation'[h] = generation[h] BY <2>2 DEF ScheduleInv, StatusHolds
  <2>3. CASE h = g BY <1>1, <1>3, <2>1, <2>3 DEF Live, Status
  <2>4. CASE /\ h = p
             /\ generation'[h].status = "SUPERSEDED" /\ ~generation'[h].current
    BY <1>1, <2>1, <2>4, ApplyAssumption DEF Live, Status
  <2> QED BY <1>3, <2>2, <2>3, <2>4
<1>7. RequestsHold'
  <2>1. "done" \in {"read", "found", "flagged", "planned", "discarding", "done"}
        /\ None \in Generations \cup {None}
    OBVIOUS
  <2> QED BY <1>1, <1>5, <2>1, RequestMoves
<1>8. /\ RowsKept /\ SessionsHold' /\ Provenance'
      /\ \A f \in Requests \ {e} : HasFlagged(f) => KeepsTerm(TermOf[tx[f].generation])
  BY CommitKeeps
<1>9. AnswersHold' BY <1>4, <1>8, AnswersKept DEF ScheduleInv
<1>10. PlansHold'
  <2>1. /\ tx'[e].pc = "done" /\ \A f \in Requests \ {e} : tx'[f] = tx[f]
    BY <1>1, TxFields
  <2>2. \A f \in Requests : tx'[f].pc = "planned" =>
          tx'[f] = tx[f] /\ KeepsTerm(TermOf[tx[f].generation])
    BY <1>8, <2>1 DEF HasFlagged
  <2> QED BY <2>2, PlansKept DEF ScheduleInv
<1> QED BY <1>1, <1>6, <1>7, <1>8, <1>9, <1>10 DEF ScheduleInv

\* A discard ends its request, and rewrites one row of generation.
LEMMA DiscardSteps ==
    ASSUME ScheduleInv, NEW e \in Requests, DiscardWrites(e)
    PROVE  /\ StatusHolds' /\ RequestsHold' /\ edits' \in 0..MaxEdits
           /\ SessionsHold' /\ Provenance' /\ AnswersHold' /\ PlansHold'
<1> DEFINE g == tx[e].generation
<1>1. /\ g \in Generations /\ generation[g].status \in Live
      /\ tx' = [tx EXCEPT ![e] = Tx("done", None, None, None)]
      /\ UNCHANGED <<session, edits>>
      /\ DOMAIN generation = Generations /\ tx = [f \in Requests |-> tx[f]]
      /\ generation' = [generation EXCEPT ![g] =
           Generated("SUPERSEDED", generation[g].current, generation[g].run)]
  BY DEF DiscardWrites, Done, ScheduleInv, CurrentInv, RowsOK, TxOK, RequestsHold
<1>2. /\ DOMAIN generation' = Generations
      /\ generation'[g].status = "SUPERSEDED"
      /\ generation'[g].run = generation[g].run
      /\ \A h \in Generations \ {g} : generation'[h] = generation[h]
  BY <1>1, GeneratedFields, GeneratedRun
<1>3. LivesOn BY <1>2 DEF LivesOn, Live
<1>4. StatusHolds'
  <2>1. StartGenerations[g].status \notin {"FAILED", "INFEASIBLE"}
    BY <1>1 DEF ScheduleInv, StatusHolds, Live
  <2> QED BY <1>1, <1>2, <2>1 DEF ScheduleInv, StatusHolds, Live, Status
<1>5. RequestsHold'
  <2>1. "done" \in {"read", "found", "flagged", "planned", "discarding", "done"}
        /\ None \in Generations \cup {None}
    OBVIOUS
  <2> QED BY <1>1, <1>3, <2>1, RequestMoves
<1>6. session' \in [Sessions -> Row] /\ SameSessions
  BY <1>1 DEF ScheduleInv, SessionsHold, SameSessions, Exists
<1>7. /\ RowsKept /\ SessionsHold' /\ Provenance' /\ \A t : KeepsTerm(t)
  BY <1>6, SameKeeps
<1>8. \A h \in Generations : generation'[h].run = generation[h].run BY <1>2
<1>9. AnswersHold' BY <1>7, <1>8, AnswersKept DEF ScheduleInv
<1>10. PlansHold'
  <2>1. tx'[e].pc = "done" /\ \A f \in Requests \ {e} : tx'[f] = tx[f] BY <1>1, TxFields
  <2> QED BY <1>7, <2>1, PlansKept DEF ScheduleInv
<1> QED BY <1>1, <1>4, <1>5, <1>7, <1>9, <1>10 DEF ScheduleInv

\* Manual edits, and steps that change nothing.
LEMMA EditSteps ==
    ASSUME ScheduleInv, generation' = generation, tx' = tx, edits' \in 0..MaxEdits,
           session' \in [Sessions -> Row], SameSessions
    PROVE  /\ StatusHolds' /\ RequestsHold' /\ edits' \in 0..MaxEdits
           /\ SessionsHold' /\ Provenance' /\ AnswersHold' /\ PlansHold'
<1>1. StatusHolds' /\ RequestsHold' BY DEF ScheduleInv, StatusHolds, RequestsHold
<1>2. /\ RowsKept /\ SessionsHold' /\ Provenance' /\ \A t : KeepsTerm(t) BY SameKeeps
<1>3. AnswersHold' BY <1>2, AnswersKept DEF ScheduleInv
<1>4. PlansHold' BY <1>2, PlansKept DEF ScheduleInv
<1> QED BY <1>1, <1>2, <1>3, <1>4

\* Nothing was proposed, planned or flagged to begin with.
LEMMA InitSchedule == Init => ScheduleInv
<1> SUFFICES ASSUME Init PROVE ScheduleInv OBVIOUS
<1>1. /\ generation = StartGenerations /\ session = StartSessions
      /\ \A e \in Requests : tx[e] = Tx("idle", None, None, None)
      /\ edits = 0
  BY DEF Init
<1>2. \A e \in Requests :
        tx[e].pc = "idle" /\ tx[e].generation = None /\ tx[e].previous = None
  BY <1>1, TxFields
<1>3. CurrentInv BY InitCurrent
<1>4. NoneIsCurrent BY <1>1, StartAssumption DEF NoneIsCurrent
<1>5. StatusHolds BY <1>1, StartAssumption, ScheduleAssumption DEF StatusHolds, Live
<1>6. RequestsHold BY <1>2 DEF RequestsHold
<1>7. edits \in 0..MaxEdits BY <1>1, ApplyAssumption
<1>8. SessionsHold BY <1>1, ScheduleAssumption DEF SessionsHold, Exists
<1>9. Provenance BY <1>1, ScheduleAssumption DEF Provenance
<1>10. AnswersHold BY <1>1, ScheduleAssumption DEF AnswersHold
<1>11. PlansHold BY <1>2 DEF PlansHold
<1> QED BY <1>3, <1>4, <1>5, <1>6, <1>7, <1>8, <1>9, <1>10, <1>11 DEF ScheduleInv

\* Every step keeps the invariant, whatever falls between the steps of an apply.
LEMMA StepSchedule ==
    ASSUME ScheduleInv, [Next]_vars
    PROVE  ScheduleInv'
<1>0. /\ CurrentInv' /\ NoneIsCurrent'
  BY StepCurrent, StepNone DEF ScheduleInv
<1> DEFINE Rest == /\ StatusHolds' /\ RequestsHold' /\ edits' \in 0..MaxEdits
                   /\ SessionsHold' /\ Provenance' /\ AnswersHold' /\ PlansHold'
<1> SUFFICES Rest BY <1>0 DEF ScheduleInv
<1> HIDE DEF Rest
<1>a. \A e \in Requests : tx[e].pc \notin {"idle", "done"} =>
        /\ tx[e].generation \in Generations
        /\ generation[tx[e].generation].status \in Live
        /\ tx[e].pc \in {"found", "flagged", "planned"} =>
             /\ tx[e].previous \in Generations \cup {None}
             /\ tx[e].previous # None => generation[tx[e].previous].status \in Live
  BY DEF ScheduleInv, CurrentInv, TxOK, RequestsHold
<1>b. None \notin Generations /\ None \in Generations \cup {None} BY ApplyAssumption
<1>1. ASSUME NEW g \in Generations, Propose(g) PROVE Rest BY <1>1, ProposeSteps DEF Rest
<1>2. ASSUME NEW e \in Requests, NEW g \in Generations, ApplyReads(e, g) PROVE Rest
  <2>1. /\ tx' = [tx EXCEPT ![e] = Tx("read", g, None, None)]
        /\ UNCHANGED <<generation, session, edits>> /\ g # None
        /\ generation[g].status \in Live
    BY <1>2, <1>b DEF ApplyReads, Applicable, ScheduleInv, StatusHolds, Status, Live
  <2> QED BY <1>b, <2>1, RequestSteps DEF Rest
<1>3. ASSUME NEW e \in Requests, NEW g \in Generations, DiscardReads(e, g) PROVE Rest
  <2>1. /\ tx' = [tx EXCEPT ![e] = Tx("discarding", g, None, None)]
        /\ UNCHANGED <<generation, session, edits>> /\ g # None
        /\ generation[g].status \in Live
    BY <1>3, <1>b DEF DiscardReads, Discardable, Live
  <2> QED BY <1>b, <2>1, RequestSteps DEF Rest
<1>4. ASSUME NEW e \in Requests, ApplyFindsPrevious(e) PROVE Rest
  <2> DEFINE g == tx[e].generation
  <2>1. PICK p : /\ p # None => p \in Previous(g)
                 /\ tx' = [tx EXCEPT ![e] = Tx("found", g, p, None)]
    BY <1>4 DEF ApplyFindsPrevious, ScheduleInv, CurrentInv, RowsOK
  <2>2. /\ UNCHANGED <<generation, session, edits>> /\ g \in Generations
        /\ g # None /\ generation[g].status \in Live
    BY <1>4, <1>a, <1>b DEF ApplyFindsPrevious
  <2>3. /\ p \in Generations \cup {None} /\ (p # None => generation[p].status \in Live)
    BY <2>1 DEF Previous, ScheduleInv, StatusHolds
  <2> HIDE DEF g
  <2> QED BY <2>1, <2>2, <2>3, RequestSteps DEF Rest
<1>5. ASSUME NEW e \in Requests, ApplyFlags(e) PROVE Rest
  <2> DEFINE g == tx[e].generation
             p == tx[e].previous
  <2>1. /\ tx' = [tx EXCEPT ![e] = Tx("flagged", g, p, None)]
        /\ UNCHANGED <<generation, session, edits>> /\ g \in Generations
        /\ g # None /\ generation[g].status \in Live
        /\ p \in Generations \cup {None} /\ (p # None => generation[p].status \in Live)
    BY <1>5, <1>a, <1>b DEF ApplyFlags
  <2> HIDE DEF g, p
  <2> QED BY <2>1, RequestSteps DEF Rest
<1>6. ASSUME NEW e \in Requests, ApplyPlans(e) PROVE Rest BY <1>6, PlanSteps DEF Rest
<1>7. ASSUME NEW e \in Requests, ApplyCommits(e) PROVE Rest BY <1>7, CommitSteps DEF Rest
<1>8. ASSUME NEW e \in Requests, DiscardWrites(e) PROVE Rest BY <1>8, DiscardSteps DEF Rest
<1>9. ASSUME NEW e \in Requests, Abort(e) PROVE Rest
  <2>1. /\ tx' = [tx EXCEPT ![e] = Tx("done", None, None, None)]
        /\ UNCHANGED <<generation, session, edits>>
    BY <1>9 DEF Abort, Done
  <2> QED BY <1>b, <2>1, RequestSteps DEF Rest
<1>10. ASSUME NEW s \in Sessions, EditsRow(s) PROVE Rest
  BY <1>10, EditWrites, EditSteps DEF ScheduleInv, Rest
<1>11. CASE UNCHANGED vars
  <2>1. session' \in [Sessions -> Row] /\ SameSessions
    BY <1>11 DEF vars, ScheduleInv, SessionsHold, SameSessions, Exists
  <2> QED BY <1>11, <2>1, EditSteps DEF vars, ScheduleInv, Rest
<1>12. CASE Next
  <2>1. \/ \E g \in Generations : Propose(g)
        \/ \E e \in Requests, g \in Generations : ApplyReads(e, g) \/ DiscardReads(e, g)
        \/ \E e \in Requests :
            \/ ApplyFindsPrevious(e) \/ ApplyFlags(e) \/ ApplyPlans(e) \/ ApplyCommits(e)
            \/ DiscardWrites(e) \/ Abort(e)
        \/ \E s \in Sessions : EditsRow(s)
    BY <1>12 DEF Next, EditsRow
  <2> QED BY <1>1, <1>2, <1>3, <1>4, <1>5, <1>6, <1>7, <1>8, <1>9, <1>10, <2>1
<1> QED BY <1>11, <1>12

\* What is known of answers, plans and rows holds in every reachable state.
THEOREM ScheduleInvariance == Spec => []ScheduleInv
<1> QED BY InitSchedule, StepSchedule, PTL DEF Spec

\* Every reachable state is well typed: no row of the schedule is half written
\* by the moves, deletions and creations of any applies in any order, and a
\* generation that failed stays as it is.
THEOREM TypesHold == Spec => []TypeOK
<1>1. ScheduleInv => TypeOK
  BY DEF ScheduleInv, CurrentInv, RowsOK, StatusHolds, RequestsHold, SessionsHold, TypeOK
<1> QED BY <1>1, ScheduleInvariance, PTL

\* No session hangs off a generation of another term, and no Event off any,
\* for any number of applies at once and edits between their steps.
THEOREM ProvenanceHolds == Spec => []Provenance
<1>1. ScheduleInv => Provenance BY DEF ScheduleInv
<1> QED BY <1>1, ScheduleInvariance, PTL

-----------------------------------------------------------------------------
(***************************************************************************)
(* What an apply spares                                                    *)
(***************************************************************************)
\* Nothing falls between the steps of an apply that is not racing: while a
\* request has planned, no edit of such a kind is made.
LEMMA NotRacing ==
    ASSUME NEW kind, kind \notin Racing, NEW e \in Requests, tx[e].pc = "planned",
           NEW s, NEW row, Edit(kind, s, row)
    PROVE  FALSE
BY DEF Edit, Overlaps

\* Steps that neither plan, commit nor edit leave the schedule and the plans of
\* requests that have planned alone, and the answers of generations that live.
Bystands ==
    /\ session' = session
    /\ \A e \in Requests : tx'[e].pc = "planned" => tx'[e] = tx[e]
    /\ \A g \in Generations : generation[g].status \in Live =>
         generation'[g].run = generation[g].run

\* Every step but a plan, a commit and an edit is one of those.
LEMMA Bystanders ==
    ASSUME ScheduleInv, [Next]_vars
    PROVE  \/ Bystands
           \/ \E e \in Requests : ApplyPlans(e) \/ ApplyCommits(e)
           \/ \E s \in Sessions : EditsRow(s)
<1>0. /\ DOMAIN generation = Generations /\ tx = [f \in Requests |-> tx[f]]
  BY DEF ScheduleInv, CurrentInv, RowsOK
<1>a. ASSUME NEW e \in Requests, NEW pc, NEW g, NEW p, pc # "planned",
             tx' = [tx EXCEPT ![e] = Tx(pc, g, p, None)]
      PROVE  \A f \in Requests : tx'[f].pc = "planned" => tx'[f] = tx[f]
  BY <1>0, <1>a, TxFields
<1>1. ASSUME NEW g \in Generations, Propose(g) PROVE Bystands
  <2>1. generation[g].status \notin Live BY <1>1 DEF Propose, Live
  <2>2. \A h \in Generations \ {g} : generation'[h] = generation[h]
    BY <1>0, <1>1 DEF Propose
  <2>3. session' = session /\ tx' = tx BY <1>1 DEF Propose
  <2> QED BY <2>1, <2>2, <2>3 DEF Bystands
<1>2. ASSUME NEW e \in Requests, NEW g \in Generations, ApplyReads(e, g) \/ DiscardReads(e, g)
      PROVE  Bystands
  <2>1. PICK pc : pc # "planned" /\ tx' = [tx EXCEPT ![e] = Tx(pc, g, None, None)]
    BY <1>2 DEF ApplyReads, DiscardReads
  <2>2. UNCHANGED <<session, generation>> BY <1>2 DEF ApplyReads, DiscardReads
  <2> QED BY <1>a, <2>1, <2>2 DEF Bystands
<1>3. ASSUME NEW e \in Requests, ApplyFindsPrevious(e) PROVE Bystands
  <2>1. PICK p : tx' = [tx EXCEPT ![e] = Tx("found", tx[e].generation, p, None)]
    BY <1>0, <1>3 DEF ApplyFindsPrevious
  <2>2. UNCHANGED <<session, generation>> BY <1>3 DEF ApplyFindsPrevious
  <2> QED BY <1>a, <2>1, <2>2 DEF Bystands
<1>4. ASSUME NEW e \in Requests, ApplyFlags(e) PROVE Bystands
  <2>1. /\ tx' = [tx EXCEPT ![e] = Tx("flagged", tx[e].generation, tx[e].previous, None)]
        /\ UNCHANGED <<session, generation>>
    BY <1>4 DEF ApplyFlags
  <2> QED BY <1>a, <2>1 DEF Bystands
<1>5. ASSUME NEW e \in Requests, DiscardWrites(e) PROVE Bystands
  <2>1. /\ tx' = [tx EXCEPT ![e] = Tx("done", None, None, None)] /\ session' = session
        /\ tx[e].generation \in Generations
        /\ generation' = [generation EXCEPT ![tx[e].generation] = Generated("SUPERSEDED",
             generation[tx[e].generation].current, generation[tx[e].generation].run)]
    BY <1>0, <1>5 DEF DiscardWrites, Done, ScheduleInv, CurrentInv, TxOK
  <2>2. \A h \in Generations : generation'[h].run = generation[h].run
    BY <1>0, <2>1, GeneratedRun
  <2> QED BY <1>a, <2>1, <2>2 DEF Bystands
<1>6. ASSUME NEW e \in Requests, Abort(e) PROVE Bystands
  <2>1. /\ tx' = [tx EXCEPT ![e] = Tx("done", None, None, None)]
        /\ UNCHANGED <<session, generation>>
    BY <1>6 DEF Abort, Done
  <2> QED BY <1>a, <2>1 DEF Bystands
<1>7. CASE UNCHANGED vars BY <1>7 DEF vars, Bystands
<1>8. CASE Next
  <2>1. \/ \E g \in Generations : Propose(g)
        \/ \E e \in Requests, g \in Generations : ApplyReads(e, g) \/ DiscardReads(e, g)
        \/ \E e \in Requests :
            \/ ApplyFindsPrevious(e) \/ ApplyFlags(e) \/ ApplyPlans(e) \/ ApplyCommits(e)
            \/ DiscardWrites(e) \/ Abort(e)
        \/ \E s \in Sessions : EditsRow(s)
    BY <1>8 DEF Next, EditsRow
  <2> QED BY <1>1, <1>2, <1>3, <1>4, <1>5, <1>6, <2>1
<1> QED BY <1>7, <1>8

\* The plan of e after ApplyPlans, and those of others.
LEMMA PlanWrites ==
    ASSUME ScheduleInv, NEW e \in Requests, ApplyPlans(e)
    PROVE  LET g == tx[e].generation IN
           /\ g \in Generations /\ UNCHANGED <<generation, session>>
           /\ tx'[e].generation = g
           /\ tx'[e].plan = IF generation[g].run = None THEN NoPlan ELSE Plan(g)
           /\ generation[g].run # None => AnswerHolds(g)
           /\ \A f \in Requests \ {e} : tx'[f] = tx[f]
BY TxFields, TxPlan
DEF ApplyPlans, ScheduleInv, CurrentInv, RowsOK, TxOK, AnswersHold

\* A commit of e leaves the plans of the others, and all answers.
LEMMA CommitLeaves ==
    ASSUME ScheduleInv, NEW e \in Requests, ApplyCommits(e)
    PROVE  /\ tx'[e].pc = "done" /\ \A f \in Requests \ {e} : tx'[f] = tx[f]
           /\ \A g \in Generations : generation'[g].run = generation[g].run
           /\ \A f \in Requests \ {e} : tx[f].pc = "planned" =>
                TermOf[tx[f].generation] # TermOf[tx[e].generation]
<1>1. /\ tx' = [tx EXCEPT ![e] = Tx("done", None, None, None)]
      /\ tx = [f \in Requests |-> tx[f]]
  BY DEF ApplyCommits, Done, ScheduleInv, CurrentInv, RowsOK
<1>2. \A h \in Generations : generation'[h] =
        IF h = tx[e].generation THEN Generated("APPLIED", TRUE, generation[tx[e].generation].run)
        ELSE IF h = tx[e].previous
          THEN Generated("SUPERSEDED", FALSE, generation[tx[e].previous].run)
        ELSE generation[h]
  BY DEF ApplyCommits
<1>3. \A h \in Generations : generation'[h].run = generation[h].run BY <1>2 DEF Generated
<1>4. \A f \in Requests \ {e} : tx[f].pc = "planned" =>
        TermOf[tx[f].generation] # TermOf[tx[e].generation]
  BY DEF ApplyCommits, HasFlagged, ScheduleInv, CurrentInv, FlagsExclusive
<1> QED BY <1>1, <1>3, <1>4, TxFields

\* What a plan moves or deletes was not locked, and no lock fell in between.
LEMMA StepLocks ==
    ASSUME "lock" \notin Racing, ScheduleInv, LocksHold, [Next]_vars
    PROVE  LocksHold'
<1>1. CASE Bystands BY <1>1 DEF Bystands, LocksHold
<1>2. ASSUME NEW e \in Requests, ApplyPlans(e) PROVE LocksHold'
  <2> SUFFICES ASSUME NEW f \in Requests, tx'[f].pc = "planned",
                      NEW s \in DOMAIN tx'[f].plan.moves \cup tx'[f].plan.deletes
               PROVE  ~session'[s].locked
    BY DEF LocksHold
  <2> DEFINE g == tx[e].generation
  <2>1. CASE f # e BY <1>2, <2>1, PlanWrites DEF LocksHold
  <2>2. CASE f = e /\ generation[g].run = None
    <3>1. DOMAIN tx'[e].plan.moves = {} /\ tx'[e].plan.deletes = {}
      BY <1>2, <2>2, PlanWrites DEF NoPlan
    <3> QED BY <2>2, <3>1
  <2>3. CASE f = e /\ generation[g].run # None
    <3>1. /\ tx'[e].plan = Plan(g) /\ AnswerHolds(g) /\ g \in Generations /\ session' = session
      BY <1>2, <2>3, PlanWrites
    <3>2. \A r \in DOMAIN Plan(g).moves \cup Plan(g).deletes : ~session[r].locked
      BY <3>1, PlanMade DEF ScheduleInv
    <3> QED BY <2>3, <3>1, <3>2
  <2> QED BY <2>1, <2>2, <2>3
<1>3. ASSUME NEW e \in Requests, ApplyCommits(e) PROVE LocksHold'
  <2> SUFFICES ASSUME NEW f \in Requests, tx'[f].pc = "planned",
                      NEW s \in DOMAIN tx'[f].plan.moves \cup tx'[f].plan.deletes
               PROVE  ~session'[s].locked
    BY DEF LocksHold
  <2>1. f # e /\ tx'[f] = tx[f] /\ TermOf[tx[f].generation] # TermOf[tx[e].generation]
    BY <1>3, CommitLeaves
  <2>2. /\ s \in Sessions /\ Exists(s) /\ session[s].term = TermOf[tx[f].generation]
        /\ ~session[s].locked
    BY <2>1 DEF ScheduleInv, PlansHold, PlanHolds, LocksHold
  <2>3. s \notin tx[e].plan.deletes
    BY <1>3, <2>1, <2>2 DEF ApplyCommits, ScheduleInv, PlansHold, PlanHolds
  <2>4. PICK id : Materializes(e, id) BY <1>3, CommitWrites
  <2> QED BY <1>3, <2>2, <2>3, <2>4, CommitRows
<1>4. ASSUME NEW s \in Sessions, EditsRow(s) PROVE LocksHold'
  <2>1. tx' = tx BY <1>4, EditWrites DEF ScheduleInv
  <2>2. CASE \E e \in Requests : tx[e].pc = "planned"
    <3>1. ~Lock(s) BY <2>2, NotRacing DEF Lock
    <3>2. \A r \in Sessions : session'[r].locked => session[r].locked
      <4>1. session \in [Sessions -> Row] BY DEF ScheduleInv, SessionsHold
      <4> QED BY <1>4, <3>1, <4>1 DEF EditsRow, Unlock, BankSession, Move, Edit, Row
    <3>3. \A e \in Requests : tx[e].pc = "planned" =>
            DOMAIN tx[e].plan.moves \cup tx[e].plan.deletes \subseteq Sessions
      BY DEF ScheduleInv, PlansHold, PlanHolds
    <3> QED BY <2>1, <3>2, <3>3 DEF LocksHold
  <2>3. CASE \A e \in Requests : tx[e].pc # "planned" BY <2>1, <2>3 DEF LocksHold
  <2> QED BY <2>2, <2>3
<1> QED BY <1>1, <1>2, <1>3, <1>4, Bystanders

\* Provided that no lock falls between the steps of an apply, an apply leaves
\* every locked session at its place.
THEOREM LockedSessionsStay ==
    ASSUME "lock" \notin Racing
    PROVE  Spec => LockedStays
<1>1. Init => LocksHold
  <2>1. Init => \A e \in Requests : tx[e].pc = "idle" BY TxFields DEF Init
  <2> QED BY <2>1 DEF LocksHold
<1>2. ScheduleInv /\ LocksHold /\ [Next]_vars => LocksHold' BY StepLocks
<1>3. ScheduleInv /\ LocksHold => \A e \in Requests : ApplyCommits(e) =>
        \A s \in Sessions : Exists(s) /\ session[s].locked => session'[s].place = session[s].place
  <2> SUFFICES ASSUME ScheduleInv, LocksHold, NEW e \in Requests, ApplyCommits(e),
                      NEW s \in Sessions, Exists(s), session[s].locked
               PROVE  session'[s].place = session[s].place
    OBVIOUS
  <2>1. s \notin DOMAIN tx[e].plan.moves \cup tx[e].plan.deletes
    BY DEF ApplyCommits, LocksHold
  <2>2. PICK id : Materializes(e, id) BY CommitWrites
  <2> QED BY <2>1, <2>2, CommitRows
<1> QED BY <1>1, <1>2, <1>3, ScheduleInvariance, PTL DEF Spec, LockedStays

-----------------------------------------------------------------------------
(***************************************************************************)
(* What is still to be executed, and what was never asked about            *)
(***************************************************************************)
\* As far as a plan for g is concerned, the schedule is what it was.
StandsFor(g, run) ==
    /\ \A s \in DOMAIN run.old : /\ (IsPlaced(session'[s]) <=> IsPlaced(session[s]))
                                 /\ (Exists(s)' <=> Exists(s))
    /\ \A s \in Sessions : IsPlaced(session'[s]) /\ session'[s].term = TermOf[g] <=>
                             IsPlaced(session[s]) /\ session[s].term = TermOf[g]
    /\ \A s \in Sessions : IsPlaced(session[s]) /\ session[s].term = TermOf[g] =>
                             session'[s].offering = session[s].offering

\* A plan stays the one that would be made now as long as nothing changes that
\* it depends on.
LEMMA PlanStandsOn ==
    ASSUME NEW g, NEW run, NEW plan, PlanNow(g, run, plan), StandsFor(g, run)
    PROVE  PlanNow(g, run, plan)'
<1>1. {s \in DOMAIN run.old \ plan.skipped : IsPlaced(session'[s])} =
        {s \in DOMAIN run.old \ plan.skipped : IsPlaced(session[s])}
  BY DEF StandsFor
<1>2. Lost(run)' = Lost(run) BY DEF StandsFor, Lost
<1>3. ASSUME NEW s \in Sessions PROVE Deletable(run, g, s)' <=> Deletable(run, g, s)
  BY DEF StandsFor, Deletable
<1>4. {s \in Sessions \ (DOMAIN plan.moves \cup plan.skipped) : Deletable(run, g, s)'} =
        {s \in Sessions \ (DOMAIN plan.moves \cup plan.skipped) : Deletable(run, g, s)}
  BY <1>3
<1> DEFINE invented == UNION {{<<o, i>> : i \in DOMAIN run.new[o]} : o \in Offerings}
<1>5. /\ DOMAIN plan.moves = {s \in DOMAIN run.old \ plan.skipped : IsPlaced(session[s])}
      /\ \A s \in DOMAIN plan.moves : plan.moves[s] = run.old[s].place
      /\ DOMAIN plan.creates = invented \cup {<<run.old[s].offering, s>> : s \in Lost(run)}
      /\ plan.deletes = {s \in Sessions \ (DOMAIN plan.moves \cup plan.skipped) :
                           Deletable(run, g, s)}
  BY DEF PlanNow
<1>6. DOMAIN plan.creates = invented \cup {<<run.old[s].offering, s>> : s \in Lost(run)'}
  BY <1>2, <1>5
<1>7. /\ DOMAIN plan.moves = {s \in DOMAIN run.old \ plan.skipped : IsPlaced(session'[s])}
      /\ plan.deletes = {s \in Sessions \ (DOMAIN plan.moves \cup plan.skipped) :
                           Deletable(run, g, s)'}
  BY <1>1, <1>4, <1>5
<1> QED BY <1>5, <1>6, <1>7 DEF PlanNow

\* A request that has planned and is not touched in this step.
LEMMA PlanKept ==
    ASSUME PlansStand, NEW e \in Requests, tx[e].pc = "planned", tx'[e] = tx[e],
           generation'[tx[e].generation].run = generation[tx[e].generation].run,
           \A run : run = generation[tx[e].generation].run /\ run # None =>
             StandsFor(tx[e].generation, run)
    PROVE  PlanStands(e)'
<1>1. PICK g, plan, run : /\ g = tx[e].generation /\ plan = tx[e].plan
                          /\ run = generation[g].run
  OBVIOUS
<1>2. CASE run = None BY <1>1, <1>2 DEF PlansStand, PlanStands
<1>3. CASE run # None
  <2>1. PlanNow(g, run, plan) /\ StandsFor(g, run)
    BY <1>1, <1>3 DEF PlansStand, PlanStands
  <2>2. PlanNow(g, run, plan)' BY <2>1, PlanStandsOn
  <2>3. tx'[e].generation = g /\ tx'[e].plan = plan /\ generation'[g].run = run BY <1>1
  <2> QED BY <1>3, <2>2, <2>3 DEF PlanStands
<1> QED BY <1>2, <1>3

\* For sessions that stay placed or not, of the same offering and term.
LEMMA StandsWhenPlacedStay ==
    ASSUME NEW g, NEW run, DOMAIN run.old \subseteq Sessions,
           \A s \in Sessions : /\ (IsPlaced(session'[s]) <=> IsPlaced(session[s]))
                               /\ (Exists(s)' <=> Exists(s))
                               /\ session'[s].offering = session[s].offering
                               /\ session'[s].term = session[s].term
    PROVE  StandsFor(g, run)
BY DEF StandsFor

\* A commit for another term neither deletes nor moves what the plan is about,
\* and brings nothing of the plan's term.
LEMMA CommitStands ==
    ASSUME ScheduleInv, NEW e \in Requests, ApplyCommits(e),
           NEW g \in Generations, TermOf[g] # TermOf[tx[e].generation],
           NEW run, run = generation[g].run, run # None
    PROVE  StandsFor(g, run)
<1>1. PICK id : Materializes(e, id) BY CommitWrites
<1>2. AnswerHolds(g) BY DEF ScheduleInv, AnswersHold
<1>3. \A s \in DOMAIN tx[e].plan.moves \cup tx[e].plan.deletes :
        session[s].term = TermOf[tx[e].generation]
  BY DEF ApplyCommits, ScheduleInv, PlansHold, PlanHolds
<1>4. ASSUME NEW s \in Sessions, Exists(s), session[s].term = TermOf[g]
      PROVE  /\ (IsPlaced(session'[s]) <=> IsPlaced(session[s])) /\ Exists(s)'
             /\ session'[s].offering = session[s].offering
             /\ session'[s].term = session[s].term
  <2>1. s \notin DOMAIN tx[e].plan.moves \cup tx[e].plan.deletes BY <1>3, <1>4
  <2> QED BY <1>1, <1>4, <2>1, CommitRows DEF IsPlaced
<1>5. ASSUME NEW s \in DOMAIN run.old
      PROVE  /\ (IsPlaced(session'[s]) <=> IsPlaced(session[s]))
             /\ (Exists(s)' <=> Exists(s))
  <2>1. s \in Sessions /\ s \notin Fresh BY <1>2 DEF AnswerHolds, Fresh
  <2>2. CASE Exists(s)
    <3>1. session[s].offering = run.old[s].offering /\ session[s].offering # None
          /\ OfferedIn[session[s].offering] = TermOf[g]
      BY <1>2, <2>2, ScheduleAssumption DEF AnswerHolds
    <3>2. session[s].term = TermOf[g]
      BY <2>1, <2>2, <3>1 DEF ScheduleInv, SessionsHold
    <3> QED BY <1>4, <2>1, <2>2, <3>2
  <2>3. CASE ~Exists(s)
    <3>1. session'[s] = session[s] BY <1>1, <2>1, <2>3, CommitRows
    <3> QED BY <3>1 DEF Exists
  <2> QED BY <2>2, <2>3
<1>6. ASSUME NEW s \in Sessions
      PROVE  IsPlaced(session'[s]) /\ session'[s].term = TermOf[g] <=>
               IsPlaced(session[s]) /\ session[s].term = TermOf[g]
  <2>1. CASE Exists(s) /\ session[s].term = TermOf[g] BY <1>4, <2>1
  <2>2. CASE Exists(s) /\ session[s].term # TermOf[g]
    <3>1. Exists(s)' => session'[s].term = session[s].term
      BY <1>1, <2>2, CommitRows
    <3> QED BY <2>2, <3>1 DEF IsPlaced, Exists
  <2>3. CASE ~Exists(s)
    <3>1. session'[s] = session[s] \/ session'[s].term = TermOf[tx[e].generation]
      BY <1>1, <2>3, CommitRows
    <3> QED BY <2>3, <3>1 DEF IsPlaced, Exists
  <2> QED BY <2>1, <2>2, <2>3
<1>7. \A s \in Sessions : IsPlaced(session[s]) /\ session[s].term = TermOf[g] =>
        session'[s].offering = session[s].offering
  BY <1>4 DEF IsPlaced, Exists
<1> QED BY <1>5, <1>6, <1>7 DEF StandsFor

\* While a request has planned, an edit does not bank or restore a session.
LEMMA EditPlaced ==
    ASSUME ScheduleInv, {"bank", "restore"} \cap Racing = {},
           NEW e \in Requests, tx[e].pc = "planned", NEW s \in Sessions, EditsRow(s)
    PROVE  \A r \in Sessions : /\ (IsPlaced(session'[r]) <=> IsPlaced(session[r]))
                               /\ (Exists(r)' <=> Exists(r))
                               /\ session'[r].offering = session[r].offering
                               /\ session'[r].term = session[r].term
<1>1. SameSessions /\ session \in [Sessions -> Row]
  BY EditWrites DEF ScheduleInv, SessionsHold
<1>2. ~BankSession(s)
  BY NotRacing DEF BankSession
<1>3. ASSUME NEW slot \in Slots, Move(s, slot) PROVE IsPlaced(session[s])
  <2>1. CASE ~IsPlaced(session[s])
    <3>1. Edit("restore", s, [session[s] EXCEPT !.place = slot]) BY <1>3, <2>1 DEF Move
    <3> QED BY <3>1, NotRacing
  <2> QED BY <2>1
<1>4. \A r \in Sessions : IsPlaced(session'[r]) <=> IsPlaced(session[r])
  <2>1. CASE Lock(s) \/ Unlock(s)
    BY <1>1, <2>1 DEF Lock, Unlock, Edit, IsPlaced, Row
  <2>2. ASSUME NEW slot \in Slots, Move(s, slot)
        PROVE  \A r \in Sessions : IsPlaced(session'[r]) <=> IsPlaced(session[r])
    <3>1. IsPlaced(session[s]) /\ slot \notin {Bank, Gone}
      BY <1>3, <2>2, ScheduleAssumption
    <3>2. session' = [session EXCEPT ![s] = [session[s] EXCEPT !.place = slot]]
      BY <2>2 DEF Move, Edit
    <3>3. /\ session'[s].place = slot
          /\ \A r \in Sessions \ {s} : session'[r] = session[r]
      BY <1>1, <3>2 DEF Row
    <3> QED BY <3>1, <3>3 DEF IsPlaced
  <2> QED BY <1>2, <2>1, <2>2 DEF EditsRow
<1> QED BY <1>1, <1>4 DEF SameSessions

\* A plan when it is made is the one that would be made now.
LEMMA PlanIsNow ==
    ASSUME NEW g
    PROVE  PlanNow(g, generation[g].run, Plan(g))
<1> DEFINE run == generation[g].run
           plan == Plan(g)
           skipped == Locked(TermOf[g])
           moves == {s \in DOMAIN run.old \ skipped : IsPlaced(session[s])}
           lost == Lost(run)
           invented == UNION {{<<o, i>> : i \in DOMAIN run.new[o]} : o \in Offerings}
<1>1. /\ plan.moves = [s \in moves |-> run.old[s].place]
      /\ plan.creates = [c \in invented \cup {<<run.old[s].offering, s>> : s \in lost} |->
           IF c \in invented THEN run.new[c[1]][c[2]] ELSE run.old[c[2]].place]
      /\ plan.deletes = {s \in Sessions \ (moves \cup skipped) : Deletable(run, g, s)}
      /\ plan.skipped = skipped
  BY DEF Plan
<1> HIDE DEF plan
<1>2. /\ DOMAIN plan.moves = moves /\ \A s \in moves : plan.moves[s] = run.old[s].place
      /\ DOMAIN plan.creates = invented \cup {<<run.old[s].offering, s>> : s \in lost}
  BY <1>1
<1>3. PlanNow(g, run, plan) BY <1>1, <1>2 DEF PlanNow
<1> QED BY <1>3 DEF plan

\* Every step preserves PlansStand: edits move sessions about within the
\* schedule, commits of other requests are of other terms.
LEMMA StepStands ==
    ASSUME {"bank", "restore"} \cap Racing = {}, ScheduleInv, PlansStand, [Next]_vars
    PROVE  PlansStand'
<1>a. \A e \in Requests : tx[e].pc = "planned" =>
        /\ tx[e].generation \in Generations
        /\ generation[tx[e].generation].status \in Live
        /\ generation[tx[e].generation].run # None =>
             DOMAIN generation[tx[e].generation].run.old \subseteq Sessions
  BY DEF ScheduleInv, CurrentInv, TxOK, RequestsHold, AnswersHold, AnswerHolds
<1> SUFFICES ASSUME NEW e \in Requests, tx'[e].pc = "planned" PROVE PlanStands(e)'
  BY DEF PlansStand
<1>1. CASE Bystands
  <2>1. /\ tx'[e] = tx[e] /\ tx[e].pc = "planned" /\ session' = session
        /\ generation'[tx[e].generation].run = generation[tx[e].generation].run
    BY <1>1, <1>a DEF Bystands
  <2>2. \A run : run = generation[tx[e].generation].run /\ run # None =>
          StandsFor(tx[e].generation, run)
    BY <2>1 DEF StandsFor, Exists
  <2> QED BY <2>1, <2>2, PlanKept
<1>2. ASSUME NEW f \in Requests, ApplyPlans(f) PROVE PlanStands(e)'
  <2>1. CASE f # e
    <3>1. /\ tx'[e] = tx[e] /\ tx[e].pc = "planned" /\ UNCHANGED <<generation, session>>
      BY <1>2, <2>1, PlanWrites
    <3>2. \A run : run = generation[tx[e].generation].run /\ run # None =>
            StandsFor(tx[e].generation, run)
      BY <3>1 DEF StandsFor, Exists
    <3> QED BY <3>1, <3>2, PlanKept
  <2>2. CASE f = e
    <3>1. PICK g, run : /\ g = tx[e].generation /\ run = generation[g].run OBVIOUS
    <3>2. /\ UNCHANGED <<generation, session>> /\ tx'[e].generation = g
          /\ tx'[e].plan = IF run = None THEN NoPlan ELSE Plan(g)
      BY <1>2, <2>2, <3>1, PlanWrites
    <3>3. generation'[g].run = run BY <3>1, <3>2
    <3>4. CASE run = None BY <3>2, <3>3, <3>4 DEF PlanStands
    <3>5. CASE run # None
      <4>1. PICK plan : plan = Plan(g) OBVIOUS
      <4>2. PlanNow(g, run, plan) BY <3>1, <4>1, PlanIsNow
      <4>3. PlanNow(g, run, plan)' BY <3>2, <4>2 DEF PlanNow, Lost, Deletable, Exists
      <4>4. tx'[e].plan = plan BY <3>2, <3>5, <4>1
      <4> QED BY <3>2, <3>3, <3>5, <4>3, <4>4 DEF PlanStands
    <3> QED BY <3>4, <3>5
  <2> QED BY <2>1, <2>2
<1>3. ASSUME NEW f \in Requests, ApplyCommits(f) PROVE PlanStands(e)'
  <2>1. /\ f # e /\ tx'[e] = tx[e] /\ tx[e].pc = "planned"
        /\ TermOf[tx[e].generation] # TermOf[tx[f].generation]
        /\ \A g \in Generations : generation'[g].run = generation[g].run
    BY <1>3, CommitLeaves
  <2>2. \A run : run = generation[tx[e].generation].run /\ run # None =>
          StandsFor(tx[e].generation, run)
    BY <1>3, <1>a, <2>1, CommitStands
  <2> QED BY <1>a, <2>1, <2>2, PlanKept
<1>4. ASSUME NEW s \in Sessions, EditsRow(s) PROVE PlanStands(e)'
  <2>1. tx' = tx /\ generation' = generation BY <1>4, EditWrites DEF ScheduleInv
  <2>2. \A run : run = generation[tx[e].generation].run /\ run # None =>
          StandsFor(tx[e].generation, run)
    BY <1>4, <1>a, <2>1, EditPlaced, StandsWhenPlacedStay
  <2> QED BY <2>1, <2>2, PlanKept
<1> QED BY <1>1, <1>2, <1>3, <1>4, Bystanders

\* What is in the spare bank stays there.
BankedStays == \A s \in Sessions : session[s].place = Bank =>
    session'[s].place = Bank /\ session'[s].offering = session[s].offering

\* What is in the bank stays there, and stays what it is: no plan that stands
\* moves or deletes it.
LEMMA StepBanked ==
    ASSUME "restore" \notin Edits, {"bank", "restore"} \cap Racing = {},
           ScheduleInv, PlansStand, [Next]_vars
    PROVE  BankedStays
<1>1. CASE Bystands BY <1>1 DEF Bystands, BankedStays
<1>2. ASSUME NEW e \in Requests, ApplyPlans(e) PROVE BankedStays
  BY <1>2 DEF ApplyPlans, BankedStays
<1>3. ASSUME NEW e \in Requests, ApplyCommits(e) PROVE BankedStays
  <2>1. PICK id : Materializes(e, id) BY <1>3, CommitWrites
  <2>2. PICK g, run, plan : /\ g = tx[e].generation /\ run = generation[g].run
                            /\ plan = tx[e].plan /\ tx[e].pc = "planned"
    BY <1>3 DEF ApplyCommits
  <2>3. \A s \in DOMAIN plan.moves \cup plan.deletes : IsPlaced(session[s])
    <3>1. CASE run = None
      <4>1. plan = NoPlan BY <2>2, <3>1 DEF PlansStand, PlanStands
      <4>2. DOMAIN NoPlan.moves = {} /\ NoPlan.deletes = {} BY DEF NoPlan
      <4> QED BY <4>1, <4>2
    <3>2. CASE run # None
      <4>1. PlanNow(g, run, plan) BY <2>2, <3>2 DEF PlansStand, PlanStands
      <4> QED BY <4>1 DEF PlanNow, Deletable
    <3> QED BY <3>1, <3>2
  <2>4. ASSUME NEW s \in Sessions, session[s].place = Bank
        PROVE  session'[s].place = Bank /\ session'[s].offering = session[s].offering
    <3>1. Exists(s) /\ s \notin DOMAIN plan.moves \cup plan.deletes
      BY <2>3, <2>4, ScheduleAssumption DEF Exists, IsPlaced
    <3> QED BY <1>3, <2>1, <2>2, <2>4, <3>1, CommitRows
  <2> QED BY <2>4 DEF BankedStays
<1>4. ASSUME NEW s \in Sessions, EditsRow(s) PROVE BankedStays
  <2>1. SameSessions /\ session \in [Sessions -> Row]
    BY <1>4, EditWrites DEF ScheduleInv, SessionsHold
  <2>2. \A r \in Sessions : session[r].place = Bank => session'[r].place = Bank
    <3>1. CASE Lock(s) \/ Unlock(s) BY <2>1, <3>1 DEF Lock, Unlock, Edit, Row
    <3>2. CASE BankSession(s) BY <2>1, <3>2 DEF BankSession, Edit, Row
    <3>3. ASSUME NEW slot \in Slots, Move(s, slot)
          PROVE  \A r \in Sessions : session[r].place = Bank => session'[r].place = Bank
      <4>1. session[s].place # Bank BY <3>3 DEF Move, Edit, IsPlaced
      <4> QED BY <2>1, <3>3, <4>1 DEF Move, Edit
    <3> QED BY <1>4, <3>1, <3>2, <3>3 DEF EditsRow
  <2> QED BY <2>1, <2>2 DEF SameSessions, BankedStays
<1> QED BY <1>1, <1>2, <1>3, <1>4, Bystanders

\* Only Propose gives a generation an answer; it is never replaced.
LEMMA RunsKept ==
    ASSUME ScheduleInv, [Next]_vars, \A g \in Generations : ~Propose(g)
    PROVE  \A g \in Generations : generation'[g].run = generation[g].run
<1>1. CASE generation' = generation BY <1>1
<1>2. ASSUME NEW e \in Requests, ApplyCommits(e)
      PROVE  \A g \in Generations : generation'[g].run = generation[g].run
  BY <1>2, CommitLeaves
<1>3. ASSUME NEW e \in Requests, DiscardWrites(e)
      PROVE  \A g \in Generations : generation'[g].run = generation[g].run
  BY <1>3, GeneratedRun DEF DiscardWrites, ScheduleInv, CurrentInv, RowsOK
<1>4. CASE UNCHANGED vars BY <1>1, <1>4 DEF vars
<1>5. CASE /\ Next
           /\ ~\E e \in Requests : ApplyCommits(e) \/ DiscardWrites(e)
  <2>1. generation' = generation
    BY <1>5
    DEF Next, ApplyReads, DiscardReads, ApplyFindsPrevious, ApplyFlags, ApplyPlans, Abort,
        Lock, Unlock, BankSession, Move, Edit
  <2> QED BY <1>1, <2>1
<1> QED BY <1>2, <1>3, <1>4, <1>5

\* How many sessions an offering has, or has in the bank, is a number.
LEMMA FiniteOf ==
    ASSUME NEW S \in SUBSET Sessions
    PROVE  IsFiniteSet(S) /\ Cardinality(S) \in Nat
BY ScheduleAssumption, FS_Subset, FS_CardinalityType

\* What a run asks for and what is in the bank then add up to the frequency.
LEMMA ProposeAsks ==
    ASSUME ScheduleInv, NEW g \in Generations, Propose(g)
    PROVE  AskHolds(g)'
<1>0. session' = session /\ DOMAIN generation = Generations
  BY DEF Propose, ScheduleInv, CurrentInv, RowsOK
<1>1. PICK run : Proposes(g, run) BY ProposeWrites
<1>2. generation'[g].run = run BY <1>0, <1>1 DEF Proposes, Generated
<1>3. /\ run.banked = UNION {BankedOf(o) : o \in ScopeOf[g]} /\ run.required = Required
      /\ \A s \in DOMAIN run.old : IsPlaced(session[s])
      /\ ScopeOf[g] \subseteq Offerings
  BY <1>1, ApplyAssumption DEF Proposes
<1>4. \A s \in run.banked : s \in Sessions /\ session[s].place = Bank /\ s \notin DOMAIN run.old
  BY <1>3 DEF BankedOf, Of, IsPlaced
<1>5. ASSUME NEW o \in Offerings
      PROVE  /\ Frequency[o] \in Nat /\ Cardinality(BankedOf(o)) \in Nat
             /\ Required[o] \in Nat
             /\ Frequency[o] <= Required[o] + Cardinality(BankedOf(o))
  <2>1. Frequency[o] \in Nat BY ApplyAssumption
  <2>2. Cardinality(BankedOf(o)) \in Nat
    <3>1. BankedOf(o) \in SUBSET Sessions BY DEF BankedOf, Of
    <3> QED BY <3>1, FiniteOf
  <2>3. Required[o] = Frequency[o] - Least(Frequency[o], Cardinality(BankedOf(o)))
    BY DEF Required
  <2> QED BY <2>1, <2>2, <2>3 DEF Least
<1>6. run.required \in [Offerings -> Nat]
  BY <1>3, <1>5 DEF Required
<1>7. ASSUME NEW o \in ScopeOf[g]
      PROVE  Frequency[o] <= run.required[o]
                              + Cardinality({s \in run.banked : session[s].offering = o})
  <2>1. {s \in run.banked : session[s].offering = o} = BankedOf(o)
    BY <1>3 DEF BankedOf, Of
  <2> QED BY <1>3, <1>5, <2>1
<1> QED BY <1>0, <1>2, <1>4, <1>6, <1>7 DEF AskHolds

\* Every step preserves AsksHold: answers are not replaced, banked sessions stay.
LEMMA StepAsks ==
    ASSUME "restore" \notin Edits, {"bank", "restore"} \cap Racing = {},
           ScheduleInv, PlansStand, AsksHold, [Next]_vars
    PROVE  AsksHold'
<1> SUFFICES ASSUME NEW g \in Generations, generation'[g].run # None PROVE AskHolds(g)'
  BY DEF AsksHold
<1>1. CASE Propose(g) BY <1>1, ProposeAsks
<1>2. CASE ~Propose(g)
  <2>1. generation'[g].run = generation[g].run
    <3>1. ASSUME NEW h \in Generations, Propose(h) PROVE generation'[g].run = generation[g].run
      <4>1. h # g BY <1>2, <3>1
      <4> QED BY <3>1, <4>1 DEF Propose, ScheduleInv, CurrentInv, RowsOK
    <3> QED BY <3>1, RunsKept
  <2>2. PICK run : run = generation[g].run /\ run # None BY <2>1
  <2>3. AskHolds(g) /\ BankedStays BY <2>1, <2>2, StepBanked DEF AsksHold
  <2>4. /\ run.banked \subseteq Sessions \ DOMAIN run.old
        /\ \A s \in run.banked : session[s].place = Bank
        /\ run.required \in [Offerings -> Nat]
        /\ \A o \in ScopeOf[g] :
             Frequency[o] <= run.required[o]
                               + Cardinality({s \in run.banked : session[s].offering = o})
    BY <2>2, <2>3 DEF AskHolds
  <2>5. \A s \in run.banked : session'[s].place = Bank /\ session'[s].offering = session[s].offering
    BY <2>3, <2>4 DEF BankedStays
  <2>6. \A o : {s \in run.banked : session'[s].offering = o} =
                 {s \in run.banked : session[s].offering = o}
    BY <2>5
  <2>7. generation'[g].run = run BY <2>1, <2>2
  <2> QED BY <2>4, <2>5, <2>6, <2>7 DEF AskHolds
<1> QED BY <1>1, <1>2

\* The demands of a run on the schedule that hold while sessions only leave the
\* bank when no apply is under way.
BankInv == ScheduleInv /\ PlansStand /\ AsksHold

\* BankInv is inductive.
LEMMA BankInvariance ==
    ASSUME "restore" \notin Edits, "bank" \notin Racing
    PROVE  Spec => []BankInv
<1>0. {"bank", "restore"} \cap Racing = {} BY ApplyAssumption
<1>1. Init => BankInv
  <2> SUFFICES ASSUME Init PROVE BankInv OBVIOUS
  <2>1. \A e \in Requests : tx[e].pc = "idle" BY TxFields DEF Init
  <2>2. \A g \in Generations : generation[g].run = None BY ScheduleAssumption DEF Init
  <2> QED BY <2>1, <2>2, InitSchedule DEF BankInv, PlansStand, AsksHold
<1>2. BankInv /\ [Next]_vars => BankInv'
  BY <1>0, StepSchedule, StepStands, StepAsks DEF BankInv
<1> QED BY <1>1, <1>2, PTL DEF Spec

\* Provided that no session is restored from the spare bank, nor put there
\* between the steps of an apply, an apply keeps the banked sessions its run was
\* not asked about.
THEOREM BankedSessionsStay ==
    ASSUME "restore" \notin Edits, "bank" \notin Racing
    PROVE  Spec => BankedIsKept
<1>0. {"bank", "restore"} \cap Racing = {} BY ApplyAssumption
<1>1. BankInv /\ [Next]_vars => \A e \in Requests : ApplyCommits(e) =>
        LET run == generation[tx[e].generation].run IN
        run # None => \A s \in run.banked : session'[s].place # Gone
  <2> SUFFICES ASSUME BankInv, [Next]_vars, NEW e \in Requests, ApplyCommits(e),
                      generation[tx[e].generation].run # None,
                      NEW s \in generation[tx[e].generation].run.banked
               PROVE  session'[s].place # Gone
    OBVIOUS
  <2>1. tx[e].generation \in Generations
    BY DEF ApplyCommits, BankInv, ScheduleInv, CurrentInv, TxOK
  <2>2. s \in Sessions /\ session[s].place = Bank
    BY <2>1 DEF BankInv, AsksHold, AskHolds
  <2>3. session'[s].place = Bank BY <1>0, <2>2, StepBanked DEF BankInv, BankedStays
  <2> QED BY <2>3, ScheduleAssumption
<1> QED BY <1>1, BankInvariance, PTL DEF Spec, BankedIsKept

\* An apply spares what was not its to move: locked sessions and those of the
\* spare bank, under the conditions of the two theorems it joins.
THEOREM AppliesSpare ==
    ASSUME "lock" \notin Racing, "restore" \notin Edits, "bank" \notin Racing
    PROVE  Spec => ApplySpares
BY LockedSessionsStay, BankedSessionsStay, PTL DEF ApplySpares

-----------------------------------------------------------------------------
(***************************************************************************)
(* Counting sessions                                                       *)
(***************************************************************************)
\* As many ids are given as there are things to give them to.
LEMMA ImageCount ==
    ASSUME NEW S, IsFiniteSet(S), NEW f, \A a, b \in S : f[a] = f[b] => a = b
    PROVE  /\ IsFiniteSet({f[a] : a \in S})
           /\ Cardinality({f[a] : a \in S}) = Cardinality(S)
<1> DEFINE T == {f[a] : a \in S}
           m == [a \in S |-> f[a]]
<1>1. m \in Bijection(S, T) BY DEF Bijection, Injection, Surjection, IsInjective
<1>2. ExistsBijection(S, T) BY <1>1 DEF ExistsBijection
<1> QED BY <1>2, FS_Bijection

\* Two disjoint finite sets have as many elements as they have together.
LEMMA UnionCount ==
    ASSUME NEW S, NEW T, IsFiniteSet(S), IsFiniteSet(T), S \cap T = {}
    PROVE  /\ IsFiniteSet(S \cup T)
           /\ Cardinality(S \cup T) = Cardinality(S) + Cardinality(T)
<1>1. Cardinality(S) \in Nat /\ Cardinality(T) \in Nat BY FS_CardinalityType
<1>2. Cardinality(S \cap T) = 0 BY FS_EmptySet
<1>3. /\ IsFiniteSet(S \cup T)
      /\ Cardinality(S \cup T) = Cardinality(S) + Cardinality(T) - Cardinality(S \cap T)
  BY FS_Union, Zenon
<1> QED BY <1>1, <1>2, <1>3

\* The ids a commit of e gives to the sessions it creates for o.
CreatedFor(e, id, o) == {id[c] : c \in {d \in DOMAIN tx[e].plan.creates : d[1] = o}}

\* The sessions of o an answer moves that are gone by now.
LostOf(run, o) == {s \in Lost(run) : run.old[s].offering = o}

\* A commit creates a session for each one an answer invents and each one that
\* is gone; it creates no two at one id, and none at one that is taken.
LEMMA CreatedCount ==
    ASSUME ScheduleInv, PlansStand, NEW e \in Requests, tx[e].pc = "planned",
           NEW id, Materializes(e, id),
           NEW g, g = tx[e].generation, NEW run, run = generation[g].run, run # None,
           NEW o \in Offerings
    PROVE  /\ CreatedFor(e, id, o) \subseteq {s \in Sessions : ~Exists(s)}
           /\ IsFiniteSet(LostOf(run, o))
           /\ IsFiniteSet(CreatedFor(e, id, o))
           /\ Len(run.new[o]) \in Nat
           /\ Cardinality(CreatedFor(e, id, o)) = Len(run.new[o]) + Cardinality(LostOf(run, o))
<1> DEFINE plan == tx[e].plan
           n == Len(run.new[o])
           invented == UNION {{<<p, i>> : i \in DOMAIN run.new[p]} : p \in Offerings}
           I == {<<o, i>> : i \in 1..n}
           L == {<<o, s>> : s \in LostOf(run, o)}
           D == {d \in DOMAIN plan.creates : d[1] = o}
<1>1. /\ g \in Generations /\ AnswerHolds(g) /\ PlanNow(g, run, plan)
  BY DEF ScheduleInv, CurrentInv, TxOK, AnswersHold, PlansStand, PlanStands
<1>2. /\ DOMAIN run.old \subseteq Sessions /\ run.new[o] \in Seq(Slots)
      /\ n \in Nat /\ DOMAIN run.new[o] = 1..n
  <2> HIDE DEF plan
  <2>1. DOMAIN run.old \subseteq Sessions BY <1>1 DEF AnswerHolds
  <2>2. run.new \in [Offerings -> Seq(Slots)] BY <1>1 DEF AnswerHolds
  <2>3. run.new[o] \in Seq(Slots) BY <2>2
  <2>4. n \in Nat /\ DOMAIN run.new[o] = 1..n
    <3>1. PICK q \in Seq(Slots) : q = run.new[o] BY <2>3
    <3>2. Len(q) \in Nat /\ DOMAIN q = 1..Len(q) OBVIOUS
    <3> QED BY <3>1, <3>2
  <2> QED BY <2>1, <2>3, <2>4
<1>3. DOMAIN plan.creates = invented \cup {<<run.old[s].offering, s>> : s \in Lost(run)}
  BY <1>1 DEF PlanNow
<1>4. D = I \cup L
  <2> HIDE DEF plan, n
  <2>1. ASSUME NEW d \in D PROVE d \in I \cup L
    <3>1. CASE d \in invented BY <1>2, <2>1, <3>1
    <3>2. CASE d \in {<<run.old[s].offering, s>> : s \in Lost(run)} BY <2>1, <3>2 DEF LostOf
    <3> QED BY <1>3, <3>1, <3>2
  <2>2. ASSUME NEW d \in I PROVE d \in D
    <3>1. d \in invented BY <1>2
    <3>2. d[1] = o OBVIOUS
    <3>3. d \in DOMAIN plan.creates BY <1>3, <3>1
    <3> QED BY <3>2, <3>3
  <2>3. ASSUME NEW d \in L PROVE d \in D
    <3>1. PICK s \in LostOf(run, o) : d = <<o, s>> OBVIOUS
    <3>2. s \in Lost(run) /\ run.old[s].offering = o BY <3>1 DEF LostOf
    <3>3. d \in DOMAIN plan.creates BY <1>3, <3>1, <3>2
    <3> QED BY <3>1, <3>3
  <2> QED BY <2>1, <2>2, <2>3
<1>5. IsFiniteSet(1..n) /\ Cardinality(1..n) = n BY <1>2, FS_Interval
<1>6. IsFiniteSet(LostOf(run, o))
  <2>1. LostOf(run, o) \in SUBSET Sessions BY <1>2 DEF LostOf, Lost
  <2> QED BY <2>1, FiniteOf
<1>7. IsFiniteSet(I) /\ Cardinality(I) = n
  <2> DEFINE S == 1..n
             f == [i \in S |-> <<o, i>>]
  <2>1. \A a, b \in S : f[a] = f[b] => a = b OBVIOUS
  <2>2. {f[a] : a \in S} = I OBVIOUS
  <2>3. IsFiniteSet(S) /\ Cardinality(S) = n BY <1>5
  <2> HIDE DEF f, I, n, S
  <2> QED BY <2>1, <2>2, <2>3, ImageCount
<1>8. IsFiniteSet(L) /\ Cardinality(L) = Cardinality(LostOf(run, o))
  <2> DEFINE f == [s \in LostOf(run, o) |-> <<o, s>>]
  <2>1. \A a, b \in LostOf(run, o) : f[a] = f[b] => a = b OBVIOUS
  <2>2. {f[a] : a \in LostOf(run, o)} = L OBVIOUS
  <2> HIDE DEF f, L
  <2> QED BY <1>6, <2>1, <2>2, ImageCount
<1>9. I \cap L = {}
  <2>1. ASSUME NEW i \in 1..n, NEW s \in LostOf(run, o), <<o, i>> = <<o, s>> PROVE FALSE
    <3>1. i = s /\ s \in Sessions /\ i \in Nat BY <1>2, <2>1 DEF LostOf, Lost
    <3> QED BY <3>1, ScheduleAssumption
  <2> QED BY <2>1
<1>10. IsFiniteSet(D) /\ Cardinality(D) = n + Cardinality(LostOf(run, o))
  <2> HIDE DEF I, L, D, n
  <2> QED BY <1>4, <1>7, <1>8, <1>9, UnionCount
<1>11. /\ \A a, b \in D : id[a] = id[b] => a = b
       /\ \A d \in D : id[d] \in Fresh
  BY DEF Materializes
<1>12. CreatedFor(e, id, o) \subseteq {s \in Sessions : ~Exists(s)}
  BY <1>11 DEF CreatedFor, Fresh
<1>13. CreatedFor(e, id, o) = {id[a] : a \in D} BY DEF CreatedFor
<1> HIDE DEF D, n
<1>14. /\ IsFiniteSet(CreatedFor(e, id, o))
       /\ Cardinality(CreatedFor(e, id, o)) = Cardinality(D)
  BY <1>10, <1>11, <1>13, ImageCount
<1> QED BY <1>2, <1>6, <1>10, <1>12, <1>14 DEF n

\* The sessions of o after a commit: those it creates for it, and those of
\* before it does not delete. None of them enters or leaves the bank.
LEMMA AfterCommit ==
    ASSUME ScheduleInv, PlansStand, NEW e \in Requests, ApplyCommits(e),
           NEW id, Materializes(e, id), NEW o \in Offerings, NEW s \in Sessions
    PROVE  /\ s \in CreatedFor(e, id, o) =>
                s \in Of(o)' /\ IsPlaced(session'[s]) /\ ~Exists(s)
           /\ s \in Of(o)' => \/ s \in CreatedFor(e, id, o)
                              \/ s \in Of(o) /\ s \notin tx[e].plan.deletes
           /\ s \in Of(o) /\ s \notin tx[e].plan.deletes =>
                s \in Of(o)' /\ (IsPlaced(session'[s]) <=> IsPlaced(session[s]))
<1> DEFINE plan == tx[e].plan
<1>1. /\ \A c \in DOMAIN plan.creates : plan.creates[c] \in Slots
      /\ \A r \in DOMAIN plan.moves : plan.moves[r] \in Slots
  BY DEF ApplyCommits, ScheduleInv, PlansHold, PlanHolds
<1>2. \A r \in DOMAIN plan.moves : IsPlaced(session[r])
  <2>1. CASE generation[tx[e].generation].run = None
    <3>1. plan = NoPlan BY <2>1 DEF ApplyCommits, PlansStand, PlanStands
    <3>2. DOMAIN NoPlan.moves = {} BY DEF NoPlan
    <3> QED BY <3>1, <3>2
  <2>2. CASE generation[tx[e].generation].run # None
    BY <2>2 DEF ApplyCommits, PlansStand, PlanStands, PlanNow
  <2> QED BY <2>1, <2>2
<1>3. ASSUME s \in CreatedFor(e, id, o)
      PROVE  s \in Of(o)' /\ IsPlaced(session'[s]) /\ ~Exists(s)
  <2>1. PICK c \in DOMAIN plan.creates : c[1] = o /\ s = id[c] BY <1>3 DEF CreatedFor
  <2>2. /\ session'[s].place = plan.creates[c] /\ session'[s].offering = o
        /\ ~Exists(s)
    BY <2>1 DEF Materializes, Fresh
  <2> QED BY <1>1, <2>2, ScheduleAssumption DEF Of, Exists, IsPlaced
<1>4. ASSUME s \in Of(o)'
      PROVE  \/ s \in CreatedFor(e, id, o)
             \/ s \in Of(o) /\ s \notin tx[e].plan.deletes
  <2>1. Exists(s)' /\ session'[s].offering = o BY <1>4 DEF Of
  <2>2. s \notin tx[e].plan.deletes BY <2>1, CommitRows
  <2>3. CASE Exists(s) BY <2>1, <2>2, <2>3, CommitRows DEF Of
  <2>4. CASE ~Exists(s)
    <3>1. session'[s] # session[s] BY <2>1, <2>4 DEF Exists
    <3>2. PICK c \in DOMAIN plan.creates : s = id[c] /\ session'[s].offering = c[1]
      BY <2>4, <3>1, CommitRows
    <3> QED BY <2>1, <3>2 DEF CreatedFor
  <2> QED BY <2>3, <2>4
<1>5. ASSUME s \in Of(o), s \notin tx[e].plan.deletes
      PROVE  s \in Of(o)' /\ (IsPlaced(session'[s]) <=> IsPlaced(session[s]))
  <2>1. Exists(s) /\ session[s].offering = o BY <1>5 DEF Of
  <2>2. Exists(s)' /\ session'[s].offering = o BY <1>5, <2>1, CommitRows
  <2>3. CASE s \in DOMAIN plan.moves
    BY <1>1, <1>2, <2>2, <2>3, ScheduleAssumption DEF Materializes, IsPlaced, Of
  <2>4. CASE s \notin DOMAIN plan.moves
    <3>1. session'[s].place = session[s].place BY <1>5, <2>1, <2>4, CommitRows
    <3> QED BY <2>2, <3>1 DEF IsPlaced, Of
  <2> QED BY <2>3, <2>4
<1> QED BY <1>3, <1>4, <1>5

\* For an offering in scope whose answer is not short, a commit leaves exactly
\* the sessions of the answer, beside skipped and banked ones.
Whole(e, o) ==
    LET run == generation[tx[e].generation].run
        after == {s \in Of(o)' : IsPlaced(session'[s])} \ tx[e].plan.skipped
        moved == {s \in DOMAIN run.old : run.old[s].offering = o /\ IsPlaced(session[s])}
                   \ tx[e].plan.skipped
        lost  == {s \in DOMAIN run.old : run.old[s].offering = o /\ ~Exists(s)}
    IN  /\ moved \subseteq after
        /\ \A s \in moved : session'[s].place = run.old[s].place
        /\ Cardinality(after \ moved) = Len(run.new[o]) + Cardinality(lost)

\* A commit of a plan that stands makes the schedule of an answered offering
\* that of the answer.
LEMMA CommitWhole ==
    ASSUME ScheduleInv, PlansStand, NEW e \in Requests, ApplyCommits(e),
           generation[tx[e].generation].run # None,
           NEW o \in ScopeOf[tx[e].generation], ~Short(generation[tx[e].generation].run, o)
    PROVE  Whole(e, o)
<1> DEFINE g == tx[e].generation
           run == generation[g].run
           after == {s \in Of(o)' : IsPlaced(session'[s])} \ tx[e].plan.skipped
           moved == {s \in DOMAIN run.old : run.old[s].offering = o /\ IsPlaced(session[s])}
                      \ tx[e].plan.skipped
<1> DEFINE plan == tx[e].plan
<1>1. /\ g \in Generations /\ tx[e].pc = "planned" /\ AnswerHolds(g) /\ PlanNow(g, run, plan)
      /\ o \in Offerings /\ OfferedIn[o] = TermOf[g]
  BY ApplyAssumption
  DEF ApplyCommits, ScheduleInv, CurrentInv, TxOK, AnswersHold, PlansStand, PlanStands
<1>2. PICK id : Materializes(e, id) BY CommitWrites
<1>3. /\ plan.skipped \subseteq {s \in Sessions : Exists(s)}
      /\ DOMAIN plan.moves \cap plan.deletes = {}
  BY <1>1 DEF ScheduleInv, PlansHold, PlanHolds
<1>4. /\ DOMAIN run.old \subseteq Sessions
      /\ \A s \in DOMAIN run.old : Exists(s) => session[s].offering = run.old[s].offering
      /\ DOMAIN plan.moves = {s \in DOMAIN run.old \ plan.skipped : IsPlaced(session[s])}
      /\ \A s \in DOMAIN plan.moves : plan.moves[s] = run.old[s].place
      /\ plan.deletes = {s \in Sessions \ (DOMAIN plan.moves \cup plan.skipped) :
                           Deletable(run, g, s)}
  BY <1>1 DEF AnswerHolds, PlanNow
<1> HIDE DEF plan
<1>5. moved = {s \in DOMAIN plan.moves : run.old[s].offering = o} BY <1>4 DEF plan
<1>6. ASSUME NEW s \in moved
      PROVE  s \in after /\ session'[s].place = run.old[s].place
  <2>1. /\ s \in Sessions /\ s \in DOMAIN plan.moves /\ s \notin plan.deletes
        /\ s \notin plan.skipped /\ IsPlaced(session[s]) /\ run.old[s].offering = o
    BY <1>3, <1>4, <1>5
  <2>2. s \in Of(o) BY <1>4, <2>1 DEF IsPlaced, Exists, Of
  <2>3. s \in Of(o)' /\ IsPlaced(session'[s])
    BY <1>1, <1>2, <2>1, <2>2, AfterCommit DEF plan
  <2>4. session'[s].place = plan.moves[s] BY <1>2, <2>1 DEF Materializes, plan
  <2> QED BY <1>4, <2>1, <2>3, <2>4 DEF plan
<1>7. after \ moved = CreatedFor(e, id, o)
  <2>1. ASSUME NEW s \in CreatedFor(e, id, o) PROVE s \in after \ moved
    <3>1. s \in Sessions BY <1>2, <2>1 DEF CreatedFor, Materializes, Fresh
    <3>2. s \in Of(o)' /\ IsPlaced(session'[s]) /\ ~Exists(s)
      BY <1>1, <1>2, <2>1, <3>1, AfterCommit
    <3>3. s \notin plan.skipped /\ s \notin moved BY <1>3, <1>4, <1>5, <3>2 DEF IsPlaced, Exists
    <3> QED BY <3>2, <3>3 DEF plan
  <2>2. ASSUME NEW s \in after \ moved PROVE s \in CreatedFor(e, id, o)
    <3>1. s \in Sessions /\ s \in Of(o)' /\ IsPlaced(session'[s]) /\ s \notin plan.skipped
      BY DEF Of, plan
    <3> SUFFICES ASSUME s \notin CreatedFor(e, id, o) PROVE FALSE OBVIOUS
    <3>2. s \in Of(o) /\ s \notin plan.deletes
      BY <1>1, <1>2, <3>1, AfterCommit DEF plan
    <3>3. IsPlaced(session[s]) BY <1>1, <1>2, <3>1, <3>2, AfterCommit DEF plan
    <3>4. Exists(s) /\ session[s].offering = o /\ o # None
      BY <1>1, <3>2, ScheduleAssumption DEF Of
    <3>5. session[s].term = TermOf[g]
      BY <1>1, <3>1, <3>4 DEF ScheduleInv, SessionsHold
    <3>6. s \notin DOMAIN plan.moves BY <1>4, <1>5, <2>2, <3>4
    <3>7. Deletable(run, g, s) BY <3>3, <3>4, <3>5 DEF Deletable
    <3> QED BY <1>4, <3>1, <3>2, <3>6, <3>7
  <2> QED BY <2>1, <2>2
<1>8. Cardinality(CreatedFor(e, id, o)) = Len(run.new[o]) + Cardinality(LostOf(run, o))
  BY <1>1, <1>2, CreatedCount
<1>9. {s \in DOMAIN run.old : run.old[s].offering = o /\ ~Exists(s)} = LostOf(run, o)
  BY DEF LostOf, Lost
<1> HIDE DEF after, moved
<1>10. /\ moved \subseteq after
       /\ \A s \in moved : session'[s].place = run.old[s].place
       /\ Cardinality(after \ moved) = Len(run.new[o])
            + Cardinality({s \in DOMAIN run.old : run.old[s].offering = o /\ ~Exists(s)})
  BY <1>6, <1>7, <1>8, <1>9
<1> QED BY <1>10 DEF Whole, after, moved

\* Provided that no session enters or leaves the spare bank between the steps
\* of an apply, a complete answer replaces the schedule of an offering: its
\* sessions are there, each at its slot, none twice, and no other.
THEOREM AnswersAreWhole ==
    ASSUME {"bank", "restore"} \cap Racing = {}
    PROVE  Spec => WholeAnswer
<1>1. Init => PlansStand
  <2>1. Init => \A e \in Requests : tx[e].pc = "idle" BY TxFields DEF Init
  <2> QED BY <2>1 DEF PlansStand
<1>2. ScheduleInv /\ PlansStand /\ [Next]_vars => PlansStand' BY StepStands
<1>3. ScheduleInv /\ PlansStand => \A e \in Requests : ApplyCommits(e) =>
        (generation[tx[e].generation].run # None =>
           \A o \in {p \in ScopeOf[tx[e].generation] :
                       ~Short(generation[tx[e].generation].run, p)} : Whole(e, o))
  BY CommitWhole
<1> QED BY <1>1, <1>2, <1>3, ScheduleInvariance, PTL DEF Spec, WholeAnswer, Whole

\* A commit that deletes nothing of an offering leaves it as many sessions.
LEMMA CommitSpares ==
    ASSUME ScheduleInv, PlansStand, NEW e \in Requests, ApplyCommits(e),
           NEW o \in Offerings, Of(o) \cap tx[e].plan.deletes = {}
    PROVE  Cardinality(Of(o)') >= Cardinality(Of(o))
<1>1. PICK id : Materializes(e, id) BY CommitWrites
<1>2. Of(o) \subseteq Sessions /\ Of(o)' \subseteq Sessions BY DEF Of
<1>3. Of(o) \subseteq Of(o)' BY <1>1, <1>2, AfterCommit
<1>4. IsFiniteSet(Of(o)') BY <1>2, FiniteOf
<1> QED BY <1>2, <1>3, <1>4, FiniteOf, FS_Subset

\* An answer that is not short brings an offering as many sessions as its run
\* was asked for; with the banked ones they are the frequency, and as many are
\* there after the commit: those of the answer that are still there, those
\* created for it, and those in the bank.
LEMMA CommitSupplies ==
    ASSUME ScheduleInv, PlansStand, AsksHold, NEW e \in Requests, ApplyCommits(e),
           NEW g, g = tx[e].generation, NEW run, run = generation[g].run, run # None,
           NEW o \in ScopeOf[g], ~Short(run, o)
    PROVE  Cardinality(Of(o)') >= Frequency[o]
<1> DEFINE plan == tx[e].plan
           R == {s \in DOMAIN run.old : run.old[s].offering = o}
           K == {s \in R : Exists(s)}
           B == {s \in run.banked : session[s].offering = o}
           L == LostOf(run, o)
<1>1. /\ g \in Generations /\ tx[e].pc = "planned"
      /\ AnswerHolds(g) /\ PlanNow(g, run, plan) /\ AskHolds(g) /\ o \in Offerings
  BY ApplyAssumption
  DEF ApplyCommits, ScheduleInv, CurrentInv, TxOK, AnswersHold, PlansStand, PlanStands, AsksHold
<1>2. PICK id : Materializes(e, id) BY CommitWrites
<1>3. /\ DOMAIN run.old \subseteq Sessions
      /\ \A s \in DOMAIN run.old : Exists(s) => session[s].offering = run.old[s].offering
      /\ run.new[o] \in Seq(Slots)
      /\ DOMAIN plan.moves = {s \in DOMAIN run.old \ plan.skipped : IsPlaced(session[s])}
      /\ plan.deletes = {s \in Sessions \ (DOMAIN plan.moves \cup plan.skipped) :
                           Deletable(run, g, s)}
  BY <1>1 DEF AnswerHolds, PlanNow
<1>4. /\ run.banked \subseteq Sessions \ DOMAIN run.old
      /\ \A s \in run.banked : session[s].place = Bank
      /\ run.required[o] \in Nat /\ Frequency[o] <= run.required[o] + Cardinality(B)
  BY <1>1 DEF AskHolds
<1> DEFINE C == CreatedFor(e, id, o)
<1>5. /\ C \subseteq {s \in Sessions : ~Exists(s)} /\ IsFiniteSet(C) /\ IsFiniteSet(L)
      /\ Cardinality(C) = Len(run.new[o]) + Cardinality(L)
  BY <1>1, <1>2, CreatedCount
<1>6. K \subseteq Of(o) \ plan.deletes
  <2> HIDE DEF plan
  <2> SUFFICES ASSUME NEW s \in K PROVE s \in Of(o) /\ s \notin plan.deletes OBVIOUS
  <2>1. s \in Sessions /\ s \in DOMAIN run.old /\ Exists(s) /\ session[s].offering = o
    BY <1>3
  <2>2. s \notin plan.deletes BY <1>3, <2>1 DEF Deletable
  <2> QED BY <2>1, <2>2 DEF Of
<1>7. B \subseteq Of(o) \ plan.deletes
  <2> HIDE DEF plan
  <2> SUFFICES ASSUME NEW s \in B PROVE s \in Of(o) /\ s \notin plan.deletes OBVIOUS
  <2>1. s \in Sessions /\ session[s].place = Bank /\ session[s].offering = o BY <1>4
  <2> QED BY <1>3, <2>1, ScheduleAssumption DEF Of, Exists, Deletable, IsPlaced
<1>8. (K \cup B) \cup C \subseteq Of(o)'
  <2> SUFFICES ASSUME NEW s \in (K \cup B) \cup C PROVE s \in Of(o)' OBVIOUS
  <2>1. s \in Sessions BY <1>3, <1>4, <1>5
  <2> HIDE DEF K, B
  <2> QED BY <1>1, <1>2, <1>6, <1>7, <2>1, AfterCommit
<1>9. /\ K \cap B = {} /\ (K \cup B) \cap C = {}
      /\ K \cap L = {} /\ K \cup L = R
  <2>1. K \cap B = {} BY <1>4
  <2>2. \A s \in K \cup B : Exists(s) BY <1>4, ScheduleAssumption DEF Exists
  <2>3. K \cap L = {} /\ K \cup L = R BY DEF LostOf, Lost
  <2> HIDE DEF K, B
  <2> QED BY <1>5, <2>1, <2>2, <2>3
<1>10. /\ IsFiniteSet(K) /\ IsFiniteSet(B) /\ IsFiniteSet(R) /\ IsFiniteSet(Of(o)')
       /\ K \subseteq Sessions /\ B \subseteq Sessions
  <2>1. /\ K \in SUBSET Sessions /\ B \in SUBSET Sessions /\ R \in SUBSET Sessions
        /\ Of(o)' \in SUBSET Sessions
    BY <1>3, <1>4 DEF Of
  <2> HIDE DEF K, B, R
  <2> QED BY <2>1, FiniteOf
<1>11. Returned(run, o) = Len(run.new[o]) + Cardinality(R) BY DEF Returned
<1> HIDE DEF K, B, R, C, L
<1>12. Cardinality(R) = Cardinality(K) + Cardinality(L) BY <1>5, <1>9, <1>10, UnionCount
<1>13. /\ IsFiniteSet(K \cup B)
       /\ Cardinality(K \cup B) = Cardinality(K) + Cardinality(B)
  BY <1>9, <1>10, UnionCount
<1>14. Cardinality((K \cup B) \cup C) = Cardinality(K) + Cardinality(B) + Cardinality(C)
  BY <1>5, <1>9, <1>13, UnionCount, ZenonT(60)
<1>15. Cardinality(Of(o)') >= Cardinality((K \cup B) \cup C)
  BY <1>8, <1>10, FS_Subset
<1>16. /\ Cardinality(K) \in Nat /\ Cardinality(B) \in Nat /\ Cardinality(L) \in Nat
       /\ Cardinality(Of(o)') \in Nat
  BY <1>5, <1>10, FS_CardinalityType
<1>17. run.required[o] \in Nat /\ Frequency[o] <= run.required[o] + Cardinality(B) BY <1>4
<1>18. Len(run.new[o]) \in Nat BY <1>1, <1>2, CreatedCount
<1>19. Frequency[o] \in Nat BY <1>1, ApplyAssumption
<1>20. ~(Len(run.new[o]) + Cardinality(R) < run.required[o]) BY <1>11 DEF Short
<1>21. Cardinality(C) = Len(run.new[o]) + Cardinality(L) BY <1>5
<1>22. Cardinality(Of(o)') >= Cardinality(K) + Cardinality(B) + Cardinality(C) BY <1>14, <1>15
<1>23. \A f, r, k, b, l, n, c, all, m \in Nat :
         f <= r + b /\ all = k + l /\ ~(n + all < r) /\ c = n + l /\ m >= k + b + c => m >= f
  OBVIOUS
<1>24. Cardinality(R) \in Nat /\ Cardinality(C) \in Nat BY <1>5, <1>10, FS_CardinalityType
<1> QED BY <1>12, <1>16, <1>17, <1>18, <1>19, <1>20, <1>21, <1>22, <1>23, <1>24

\* An offering is never left with fewer sessions than it had and should have.
LEMMA CommitDemand ==
    ASSUME BankInv, NEW e \in Requests, ApplyCommits(e), NEW o \in Offerings
    PROVE  Cardinality(Of(o)') >= Least(Cardinality(Of(o)), Frequency[o])
<1> DEFINE g == tx[e].generation
           run == generation[g].run
<1>1. ScheduleInv /\ PlansStand /\ AsksHold /\ tx[e].pc = "planned"
  BY DEF BankInv, ApplyCommits
<1>2. /\ Cardinality(Of(o)) \in Nat /\ Cardinality(Of(o)') \in Nat /\ Frequency[o] \in Nat
  <2>1. Of(o) \in SUBSET Sessions /\ Of(o)' \in SUBSET Sessions BY DEF Of
  <2> QED BY <2>1, FiniteOf, ApplyAssumption
<1>3. CASE Of(o) \cap tx[e].plan.deletes = {}
  <2>1. Cardinality(Of(o)') >= Cardinality(Of(o)) BY <1>1, <1>3, CommitSpares
  <2> QED BY <1>2, <2>1 DEF Least
<1>4. ASSUME NEW s \in Of(o) \cap tx[e].plan.deletes
      PROVE  Cardinality(Of(o)') >= Least(Cardinality(Of(o)), Frequency[o])
  <2>1. run # None
    <3> SUFFICES ASSUME run = None PROVE FALSE OBVIOUS
    <3>1. tx[e].plan = NoPlan BY <1>1 DEF PlansStand, PlanStands
    <3> QED BY <1>4, <3>1 DEF NoPlan
  <2>2. Deletable(run, g, s) BY <1>1, <1>4, <2>1 DEF PlansStand, PlanStands, PlanNow
  <2>3. o \in ScopeOf[g] /\ ~Short(run, o) BY <1>4, <2>2 DEF Deletable, Of
  <2>4. Cardinality(Of(o)') >= Frequency[o] BY <1>1, <2>1, <2>3, CommitSupplies
  <2> QED BY <1>2, <2>4 DEF Least
<1> QED BY <1>3, <1>4

\* Provided that no session is restored from the spare bank, nor put there
\* between the steps of an apply, an apply never takes sessions from an
\* offering that has no more than its frequency: what it deletes, it replaces.
THEOREM DemandKept ==
    ASSUME "restore" \notin Edits, "bank" \notin Racing
    PROVE  Spec => DemandIsKept
<1>1. BankInv => \A e \in Requests : ApplyCommits(e) =>
        \A o \in Offerings : Cardinality(Of(o)') >= Least(Cardinality(Of(o)), Frequency[o])
  BY CommitDemand
<1> QED BY <1>1, BankInvariance, PTL DEF Spec, DemandIsKept

=============================================================================
