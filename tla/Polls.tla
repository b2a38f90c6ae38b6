-------------------------------- MODULE Polls --------------------------------
(***************************************************************************)
(* A poll of a club, from its creation to its deletion, and the ballots    *)
(* cast in it: api_go/service/clubPollService.go over the tables of        *)
(* migrations/00033_club_poll.sql.                                         *)
(*                                                                         *)
(* A vote is replaced by a DELETE and one INSERT for each option, every    *)
(* statement a transaction of its own; requests interleave and may fail    *)
(* between statements.  Who is a member and who a manager does not change. *)
(***************************************************************************)
EXTENDS Naturals, FiniteSets

CONSTANTS
    Voter,          \* the members of the club that vote
    Option,         \* the labels of the poll
    Req,            \* slots for concurrent requests
    NoVoter,
    MayFail         \* may statements fail?

ASSUME PollsAssumption ==
    /\ NoVoter \notin Voter
    /\ IsFiniteSet(Option)
    /\ MayFail \in BOOLEAN

VARIABLES
    poll,           \* club_poll: "none", "open", "closed" or "gone"
    multiple,       \* club_poll.multiple_choice
    options,        \* club_poll_option
    vote,           \* vote[u]: the options of u in club_poll_vote
    req,            \* req[r]: the request in slot r
    last,           \* history: the ballot of u that was accepted last
    spoilt,         \* history: the voters whose replacement failed half way
    crossed         \* history: the voters who sent a vote while another of theirs ran

vars == <<poll, multiple, options, vote, req, last, spoilt, crossed>>

Idle == [pc |-> "idle", by |-> NoVoter, ballot |-> {}]

TypeOK ==
    /\ poll \in {"none", "open", "closed", "gone"}
    /\ multiple \in BOOLEAN
    /\ options \subseteq Option
    /\ vote \in [Voter -> SUBSET options]
    /\ req \in [Req -> [pc : {"idle", "create", "read", "check", "delete", "insert",
                              "close", "drop"},
                        by : Voter \union {NoVoter}, ballot : SUBSET Option]]
    /\ last \in [Voter -> SUBSET Option]
    /\ spoilt \subseteq Voter /\ crossed \subseteq Voter

Init ==
    /\ poll = "none"
    /\ multiple \in BOOLEAN
    /\ options = {}
    /\ vote = [u \in Voter |-> {}]
    /\ req = [r \in Req |-> Idle]
    /\ last = [u \in Voter |-> {}]
    /\ spoilt = {} /\ crossed = {}

At(r, pc) == req[r].pc = pc
Goto(r, pc) == req' = [req EXCEPT ![r].pc = pc]
End(r) == req' = [req EXCEPT ![r] = Idle]
Exists == poll \in {"open", "closed"}
Voting(u) == \E r \in Req : req[r].by = u

-----------------------------------------------------------------------------
(* A manager creates, closes and deletes the poll.                         *)

\* A poll has two options or more; they are inserted one after the other.
CreatePoll(r) ==
    /\ At(r, "idle") /\ poll = "none"
    /\ Cardinality(Option) >= 2
    /\ poll' = "open"
    /\ Goto(r, "create")
    /\ UNCHANGED <<multiple, options, vote, last, spoilt, crossed>>

CreateOption(r) ==
    /\ At(r, "create")
    /\ IF Exists /\ options # Option
       THEN /\ \E o \in Option \ options : options' = options \union {o}
            /\ UNCHANGED req
       ELSE UNCHANGED options /\ End(r)
    /\ UNCHANGED <<poll, multiple, vote, last, spoilt, crossed>>

AskManager(r) ==
    /\ At(r, "idle") /\ poll # "none"
    /\ Goto(r, "close") \/ Goto(r, "drop")
    /\ UNCHANGED <<poll, multiple, options, vote, last, spoilt, crossed>>

ClosePoll(r) ==
    /\ At(r, "close")
    /\ poll' = IF poll = "open" THEN "closed" ELSE poll
    /\ End(r)
    /\ UNCHANGED <<multiple, options, vote, last, spoilt, crossed>>

\* Mutant: the votes have no foreign key to the poll.
DeletePollOnly(r) ==
    /\ At(r, "drop")
    /\ poll' = "gone"
    /\ options' = {}
    /\ End(r)
    /\ UNCHANGED <<multiple, vote, last, spoilt, crossed>>

\* The foreign keys take the options and the votes along.
DeletePoll(r) ==
    /\ At(r, "drop")
    /\ poll' = "gone"
    /\ options' = {}
    /\ vote' = [u \in Voter |-> {}]
    /\ End(r)
    /\ UNCHANGED <<multiple, last, spoilt, crossed>>

-----------------------------------------------------------------------------
(* Vote.                                                                   *)

Ask(r, u, B) ==
    /\ At(r, "idle") /\ B # {}
    /\ req' = [req EXCEPT ![r] = [pc |-> "read", by |-> u, ballot |-> B]]
    /\ crossed' = IF Voting(u) THEN crossed \union {u} ELSE crossed
    /\ UNCHANGED <<poll, multiple, options, vote, last, spoilt>>

\* Mutant: the number of choices is not checked.
AnyBallot(B) == B # {}

Accepted(B) == multiple \/ Cardinality(B) = 1

GetPoll(r) ==
    /\ At(r, "read")
    /\ IF poll = "open" /\ Accepted(req[r].ballot) THEN Goto(r, "check") ELSE End(r)
    /\ UNCHANGED <<poll, multiple, options, vote, last, spoilt, crossed>>

\* FindClubPollOption of every option; an option once there stays until the
\* poll is deleted, so the lookups are one step.
FindOptions(r) ==
    /\ At(r, "check")
    /\ IF req[r].ballot \subseteq options THEN Goto(r, "delete") ELSE End(r)
    /\ UNCHANGED <<poll, multiple, options, vote, last, spoilt, crossed>>

\* Mutant: the votes from before are not deleted.
KeepVotes(r) ==
    LET u == req[r].by IN
    /\ At(r, "delete")
    /\ last' = [last EXCEPT ![u] = req[r].ballot]
    /\ spoilt' = spoilt \ {u}
    /\ Goto(r, "insert")
    /\ UNCHANGED <<poll, multiple, options, vote, crossed>>

DeleteVotes(r) ==
    LET u == req[r].by IN
    /\ At(r, "delete")
    /\ vote' = [vote EXCEPT ![u] = {}]
    /\ last' = [last EXCEPT ![u] = req[r].ballot]
    /\ spoilt' = spoilt \ {u}
    /\ Goto(r, "insert")
    /\ UNCHANGED <<poll, multiple, options, crossed>>

\* INSERT IGNORE: an option that has gone is passed over.
InsertVote(r, o) ==
    LET u    == req[r].by
        rest == req[r].ballot \ {o} IN
    /\ At(r, "insert") /\ o \in req[r].ballot
    /\ vote' = [vote EXCEPT ![u] = @ \union ({o} \intersect options)]
    /\ req' = [req EXCEPT ![r] = IF rest = {} THEN Idle
                                 ELSE [pc |-> "insert", by |-> u, ballot |-> rest]]
    /\ UNCHANGED <<poll, multiple, options, last, spoilt, crossed>>

Fail(r) ==
    /\ MayFail /\ ~ At(r, "idle")
    /\ spoilt' = IF At(r, "insert") THEN spoilt \union {req[r].by} ELSE spoilt
    /\ End(r)
    /\ UNCHANGED <<poll, multiple, options, vote, last, crossed>>

Next ==
    \E r \in Req :
      \/ CreatePoll(r) \/ CreateOption(r)
      \/ AskManager(r) \/ ClosePoll(r) \/ DeletePoll(r)
      \/ \E u \in Voter, B \in SUBSET Option : Ask(r, u, B)
      \/ GetPoll(r) \/ FindOptions(r) \/ DeleteVotes(r)
      \/ \E o \in Option : InsertVote(r, o)
      \/ Fail(r)

Spec == Init /\ [][Next]_vars

-----------------------------------------------------------------------------
(* Properties.                                                             *)

\* A vote replaces the one before: what the poll has of a voter is the ballot
\* accepted last, whatever other voters and the managers do meanwhile, as long
\* as no INSERT of the voter's failed and no two votes of the voter's overlapped
\* (clubPollService.go:150-158).
LastBallotStored ==
    \A u \in Voter \ (spoilt \union crossed) : Exists /\ ~ Voting(u) => vote[u] = last[u]

\* A single-choice poll keeps at most one vote of each voter whose votes did not
\* overlap.
SingleChoice == ~ multiple => \A u \in Voter \ crossed : Cardinality(vote[u]) <= 1

\* What docs/superpowers/specs/2026-07-23-club-polls-design.md:31 says: single-choice
\* always keeps at most one row.
AlwaysSingleChoice == ~ multiple => \A u \in Voter : Cardinality(vote[u]) <= 1
=============================================================================
