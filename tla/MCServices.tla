------------------------------ MODULE MCServices ------------------------------
(* Small instances for TLC of three parts that replace what they have      *)
(* stored piece by piece: polls, the programs of concerts and the setlists *)
(* kept on a device. They share no row, so a behaviour moves one of them   *)
(* while the others stand still: their states add up instead of            *)
(* multiplying. What is checked are their own properties, which hold of    *)
(* what stands still as well.                                              *)
EXTENDS Polls, ConcertProgram, SheetMusic, TLC

VARIABLE machine        \* the one that moves

services == <<machine, vars, concertVars, sheetVars>>

ASSUME Constants == ConcertConstants /\ Nulls

ServicesInit ==
    /\ machine \in {"polls", "concerts", "setlists"}
    /\ Init /\ ConcertInit /\ SheetInit
    \* One initial state of those that stand still is enough.
    /\ machine # "polls" => ~ multiple
    /\ machine # "setlists" => needed = [s \in Setlist |-> Pdf]

Moves(m) == machine = m /\ UNCHANGED machine

ServicesNext ==
    \/ Moves("polls") /\ Next /\ UNCHANGED <<concertVars, sheetVars>>
    \/ Moves("concerts") /\ ConcertNext /\ UNCHANGED <<vars, sheetVars>>
    \/ Moves("setlists") /\ SheetNext /\ UNCHANGED <<vars, concertVars>>

ServicesSpec == ServicesInit /\ [][ServicesNext]_services

\* Once two operations on the setlists have overlapped, or the votes of every voter,
\* SavedIsPlayable, LastBallotStored and SingleChoice say nothing any more, and these
\* histories only grow: such a behaviour is followed no further.
Followed ==
    /\ machine = "setlists" => ~ overlapped
    /\ machine = "polls" => crossed # Voter

\* Some sets share their model values, which keeps the group small.
Symmetric == Permutations(Req) \union Permutations(Voter) \union Permutations(Note)
===============================================================================
