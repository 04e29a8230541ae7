---------------------------- MODULE MCSessionEdit ----------------------------
(***************************************************************************)
(* SessionEdit on small instances: one day of two or three blocks, one     *)
(* person or room that sessions compete for.                               *)
(***************************************************************************)
EXTENDS SessionEdit, TLC

CONSTANTS s1, s2, s3, p1, p2, r1, r2, e1, e2

Taught(place, who) ==
    [place |-> place, length |-> 1, locked |-> FALSE, rooms |-> {},
     people |-> [p \in People |-> IF p \in who THEN "attendee" ELSE "none"], cover |-> None]

\* Everyone at the first session, the second one an hour later, a third one yet
\* to be created.
StartTwo == (s1 :> Taught(<<1, 0>>, People)) @@ (s2 :> Taught(<<1, 1>>, {}))
            @@ (s3 :> Taught(Gone, {}))

\* Three sessions of the same people, one after the other.
StartThree == (s1 :> Taught(<<1, 0>>, People)) @@ (s2 :> Taught(<<1, 1>>, People))
              @@ (s3 :> Taught(<<1, 2>>, People))

\* One request at a time does every kind of edit; requests that overlap delete
\* nothing and set no lecturers, and are of sessions of one length and no room.
KindsTogether == {"CREATE", "MOVE", "SWAP", "UPDATE_DETAILS", "LOCK", "UNLOCK", "SUBSTITUTE",
                  "BANK"}

Plain(rows) == \A s \in DOMAIN rows : rows[s].rooms = {} /\ rows[s].length = 1

EditsNext ==
    /\ Next
    /\ IF alone THEN tx'[e2] = NoTx
       ELSE \A e \in Editors : tx'[e].kind \in KindsTogether /\ Plain(tx'[e].goal)

EditsSpec == Init /\ [][EditsNext]_vars
=============================================================================
