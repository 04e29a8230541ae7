-------------------------- MODULE MCGenerationApply --------------------------
EXTENDS GenerationApply, TLC

CONSTANTS t1, t2, o1, o2, s1, s2, ev, n1, n2, n3, a0, a1, a2, w, x

TermsOfGenerations ==
    a0 :> t1 @@ a1 :> t1 @@ a2 :> t1 @@ x :> t1 @@ w :> None

Scopes == [g \in Generations |-> IF g \in {a1, a2} THEN {o1} ELSE {}]

Offered == o1 :> t1 @@ o2 :> t2

TwoAndOne == o1 :> 2 @@ o2 :> 1

\* a1 and a2 are yet to be proposed; a0 and the tenant-wide w are current.
Proposals ==
    LET Generation0(status) == [status |-> status, current |-> status = "APPLIED", run |-> None]
    IN  a0 :> Generation0("APPLIED") @@ w :> Generation0("APPLIED")
          @@ a1 :> Generation0("NONE") @@ a2 :> Generation0("NONE") @@ x :> Generation0("INFEASIBLE")

Row0(slot, offering, term, g) ==
    [place |-> slot, offering |-> offering, term |-> term, locked |-> FALSE, generation |-> g]

\* s1 is locked, o1 still lacks one session; s2 is banked, ev an Event.
Timetable(slot) ==
    s1 :> [Row0(slot, o1, t1, a0) EXCEPT !.locked = TRUE]
      @@ s2 :> Row0(Bank, o2, t2, w) @@ ev :> Row0(slot, None, t1, None)
      @@ [s \in Sessions |-> NoSession]

Start == Timetable(CHOOSE s \in Slots : TRUE)

Symmetric == Permutations(Requests)

=============================================================================
