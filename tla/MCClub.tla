-------------------------------- MODULE MCClub --------------------------------
(* Small instances for TLC of ClubMembers. A behaviour is of one of three  *)
(* kinds, as its first state chooses: "serial" serves one request at a     *)
(* time to three users with all roles; "races" and "sections" serve two at *)
(* a time to two users, who join and leave, and are assigned to a section. *)
EXTENDS ClubMembers, TLC

CONSTANTS
    SerialOp,       \* the operations of "serial"
    RacingOp,       \* the operations of "races"
    SectionOp,      \* the operations of "sections"
    RacingUser,     \* the users of "races" and "sections"
    RacingToken     \* their invitations

VARIABLE machine    \* "serial", "races" or "sections"

ASSUME Constants == ClubConstants

MCInit == machine \in {"serial", "races", "sections"} /\ Init

\* The requests under way are of the operations op and of the users U with the
\* invitations T.
Among(op, U, T) ==
    \A r \in Req : ~ At(r, "idle") =>
        /\ req[r].op \in op /\ req[r].by \in U /\ req[r].who \in U
        /\ req[r].token \in T \union {NoToken}

MCNext ==
    /\ Next
    /\ UNCHANGED machine
    /\ \/ machine = "serial" /\ ~ overlapped' /\ Among(SerialOp, User, Token)'
       \/ machine = "races" /\ Among(RacingOp, RacingUser, RacingToken)'
       \/ machine = "sections" /\ Among(SectionOp, RacingUser, RacingToken)'

MCSpec == MCInit /\ [][MCNext]_<<vars, machine>>

\* Slots are interchangeable, and in "serial" users registered alike and
\* invitations; in the other two no state is the image of another under a
\* permutation of those, as one of each is never named.
Symmetric == Permutations(Registered) \union Permutations(Token) \union Permutations(Req)
===============================================================================
