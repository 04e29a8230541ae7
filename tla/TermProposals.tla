---------------------------- MODULE TermProposals ----------------------------
(***************************************************************************)
(* What the solver run subsystem promises, without its pollers, locks,     *)
(* leases and answers: a term is a slot that one run occupies at a time,   *)
(* and its proposals are numbered in the order they are made, a run making *)
(* at most one, ever. SolverRun implements this; see KeepsPromise there.   *)
(***************************************************************************)
EXTENDS Naturals

CONSTANTS Runs, Terms, TermOf

VARIABLES
    claimed,   \* the runs that were ever given their term
    occupying, \* the runs that have their term now
    proposal,  \* the number of a run's proposal, 0 while it has made none
    latest     \* the number of a term's newest proposal

vars == <<claimed, occupying, proposal, latest>>

Init ==
    /\ claimed = {}
    /\ occupying = {}
    /\ proposal = [r \in Runs |-> 0]
    /\ latest = [t \in Terms |-> 0]

Free(t) == \A r \in occupying : TermOf[r] # t

\* A run is started: its term must be free.
Claim(r) ==
    /\ r \notin claimed
    /\ Free(TermOf[r])
    /\ claimed' = claimed \cup {r}
    /\ occupying' = occupying \cup {r}
    /\ UNCHANGED <<proposal, latest>>

\* A run ends, whatever the reason.
Release(r) ==
    /\ r \in occupying
    /\ occupying' = occupying \ {r}
    /\ UNCHANGED <<claimed, proposal, latest>>

\* A late answer brings a run back that had ended: only while its term is free.
Retake(r) ==
    /\ r \in claimed
    /\ Free(TermOf[r])
    /\ occupying' = occupying \cup {r}
    /\ UNCHANGED <<claimed, proposal, latest>>

\* The result of a run is proposed, as the newest of its term. The same step
\* ends the run, unless it captures what an earlier one left behind.
Propose(r) ==
    /\ r \in claimed
    /\ proposal[r] = 0
    /\ latest' = [latest EXCEPT ![TermOf[r]] = @ + 1]
    /\ proposal' = [proposal EXCEPT ![r] = latest[TermOf[r]] + 1]
    /\ occupying' \in {occupying, occupying \ {r}}
    /\ UNCHANGED claimed

Next == \E r \in Runs : Claim(r) \/ Release(r) \/ Retake(r) \/ Propose(r)

Spec == Init /\ [][Next]_vars

=============================================================================
