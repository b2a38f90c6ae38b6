---------------------------- MODULE ServicesProofs ----------------------------
(***************************************************************************)
(* What holds of three parts that replace what they have stored piece by   *)
(* piece: of Polls, for every number of voters, options and requests, of   *)
(* SheetMusic, for any number of setlists, PDFs and job slots, and of      *)
(* ConcertProgram, for any number of notes, concerts and requests.         *)
(***************************************************************************)
EXTENDS Polls, ConcertProgram, SheetMusic, SequenceTheorems, FiniteSetTheorems, TLAPS

-----------------------------------------------------------------------------
(* Polls.                                                                  *)

\* What the invariants need to be inductive.

Ballots == {"read", "check", "delete", "insert"}

Inserting(u) == \E r \in Req : At(r, "insert") /\ req[r].by = u

\* A request has a voter exactly while it handles a vote, and a voter whose votes
\* have not overlapped is behind one request only.
Callers ==
    /\ \A r \in Req : req[r].pc \in Ballots <=> req[r].by \in Voter
    /\ \A r, q \in Req : req[r].by \in Voter \ crossed /\ req[r].by = req[q].by => r = q

\* Before there is a poll nobody gets further than looking for it.
Unborn ==
    poll = "none" => /\ \A r \in Req : req[r].pc \in {"idle", "read"}
                     /\ vote = [u \in Voter |-> {}]
                     /\ last = [u \in Voter |-> {}]

\* How far the check of a ballot has come.
Checked ==
    \A r \in Req :
      /\ At(r, "check") \/ At(r, "delete") => Accepted(req[r].ballot)
      /\ At(r, "delete") /\ Exists => req[r].ballot \subseteq options

\* The votes that are stored, and those that are still to be stored, belong
\* to the ballot accepted last.
Insertions ==
    \A r \in Req : At(r, "insert") /\ req[r].by \notin crossed =>
      LET u == req[r].by IN
      /\ req[r].ballot \subseteq last[u]
      /\ Exists => vote[u] \union req[r].ballot = last[u]

StoredFor(u) ==
    /\ vote[u] \subseteq last[u]
    /\ last[u] = {} \/ Accepted(last[u])
    /\ Exists => last[u] \subseteq options
    /\ Exists /\ u \notin spoilt /\ ~ Inserting(u) => vote[u] = last[u]

Stored == \A u \in Voter \ crossed : StoredFor(u)

BallotInv == Callers /\ Unborn /\ Checked /\ Insertions /\ Stored

PollInv == TypeOK /\ BallotInv
-----------------------------------------------------------------------------
LEMMA TypeInit == Init => TypeOK
BY PollsAssumption DEF Init, TypeOK, Idle

LEMMA TypeStep == TypeOK /\ Callers /\ [Next]_vars => TypeOK'
<1> SUFFICES ASSUME TypeOK, Callers, [Next]_vars
             PROVE  TypeOK'
  OBVIOUS
<1> USE DEF TypeOK, At, Goto, End, Idle, Exists
<1>1. ASSUME NEW r \in Req, CreatePoll(r)
      PROVE  TypeOK'
  BY <1>1 DEF CreatePoll
<1>2. ASSUME NEW r \in Req, CreateOption(r)
      PROVE  TypeOK'
  BY <1>2 DEF CreateOption
<1>3. ASSUME NEW r \in Req, AskManager(r)
      PROVE  TypeOK'
  BY <1>3 DEF AskManager
<1>4. ASSUME NEW r \in Req, ClosePoll(r)
      PROVE  TypeOK'
  BY <1>4 DEF ClosePoll
<1>5. ASSUME NEW r \in Req, DeletePoll(r)
      PROVE  TypeOK'
  BY <1>5 DEF DeletePoll
<1>6. ASSUME NEW r \in Req, NEW u \in Voter, NEW B \in SUBSET Option, Ask(r, u, B)
      PROVE  TypeOK'
  BY <1>6 DEF Ask
<1>7. ASSUME NEW r \in Req, GetPoll(r)
      PROVE  TypeOK'
  BY <1>7 DEF GetPoll
<1>8. ASSUME NEW r \in Req, FindOptions(r)
      PROVE  TypeOK'
  BY <1>8 DEF FindOptions
<1>9. ASSUME NEW r \in Req, DeleteVotes(r)
      PROVE  TypeOK'
  BY <1>9 DEF DeleteVotes
<1>10. ASSUME NEW r \in Req, NEW o \in Option, InsertVote(r, o)
      PROVE  TypeOK'
  BY <1>10 DEF InsertVote
<1>11. ASSUME NEW r \in Req, Fail(r)
      PROVE  TypeOK'
  BY <1>11 DEF Fail, Callers, Ballots
<1>12. CASE UNCHANGED vars
  BY <1>12 DEF vars
<1> QED
  BY <1>1, <1>2, <1>3, <1>4, <1>5, <1>6, <1>7, <1>8, <1>9, <1>10, <1>11, <1>12 DEF Next

\* A request just ended.
LEMMA EndIdle ==
    ASSUME TypeOK, NEW r \in Req, End(r)
    PROVE  /\ req'[r] = Idle
           /\ \A q \in Req : q # r => req'[q] = req[q]
BY DEF End, TypeOK

\* A request at its next statement.
LEMMA GotoOn ==
    ASSUME TypeOK, NEW r \in Req, NEW pc, Goto(r, pc)
    PROVE  /\ req'[r].pc = pc /\ req'[r].by = req[r].by /\ req'[r].ballot = req[r].ballot
           /\ \A q \in Req : q # r => req'[q] = req[q]
BY DEF Goto, TypeOK

\* What the requests do, whatever happens to the rows: at most one of them
\* moves, and only an idle one gets a voter.
RequestStep(r) ==
    /\ crossed \subseteq crossed'
    /\ \A q \in Req : q # r => req'[q] = req[q]
    /\ \/ req'[r] = Idle
       \/ /\ req'[r].by = req[r].by
          /\ req'[r].pc \in Ballots <=> req[r].pc \in Ballots
       \/ /\ req[r].pc = "idle" /\ req'[r].pc = "read" /\ req'[r].by \in Voter
          /\ req'[r].by \in crossed' \/ ~ Voting(req'[r].by)
       \/ req'[r] = req[r]

LEMMA CallersStep ==
    ASSUME TypeOK, Callers, [Next]_vars
    PROVE  Callers'
<1> USE DEF At
<1>1. ASSUME NEW r \in Req, RequestStep(r)
      PROVE  Callers'
  BY <1>1, PollsAssumption DEF RequestStep, Callers, Idle, Ballots, TypeOK, Voting
<1>2. ASSUME NEW r \in Req, CreatePoll(r) \/ AskManager(r) \/ DeleteVotes(r)
      PROVE  Callers'
  BY <1>1, <1>2, GotoOn DEF CreatePoll, AskManager, DeleteVotes, RequestStep, Ballots
<1>3. ASSUME NEW r \in Req, CreateOption(r) \/ ClosePoll(r) \/ DeletePoll(r) \/ Fail(r)
      PROVE  Callers'
  BY <1>1, <1>3, EndIdle DEF CreateOption, ClosePoll, DeletePoll, Fail, RequestStep
<1>4. ASSUME NEW r \in Req, GetPoll(r) \/ FindOptions(r)
      PROVE  Callers'
  BY <1>1, <1>4, EndIdle, GotoOn DEF GetPoll, FindOptions, RequestStep, Ballots
<1>5. ASSUME NEW r \in Req, NEW u \in Voter, NEW B \in SUBSET Option, Ask(r, u, B)
      PROVE  Callers'
  <2>1. req'[r] = [pc |-> "read", by |-> u, ballot |-> B]
    BY <1>5 DEF Ask, TypeOK
  <2>2. \A q \in Req : q # r => req'[q] = req[q]
    BY <1>5 DEF Ask, TypeOK
  <2> QED
    BY <1>1, <1>5, <2>1, <2>2 DEF Ask, RequestStep
<1>6. ASSUME NEW r \in Req, NEW o \in Option, InsertVote(r, o)
      PROVE  Callers'
  <2>1. \A q \in Req : q # r => req'[q] = req[q]
    BY <1>6 DEF InsertVote, TypeOK
  <2>2. req'[r] = Idle \/ (req'[r].by = req[r].by /\ req'[r].pc = req[r].pc)
    BY <1>6 DEF InsertVote, TypeOK
  <2>3. UNCHANGED crossed
    BY <1>6 DEF InsertVote
  <2> QED
    BY <1>1, <2>1, <2>2, <2>3 DEF RequestStep
<1>7. CASE UNCHANGED vars
  BY <1>7 DEF vars, Callers
<1> QED
  BY <1>2, <1>3, <1>4, <1>5, <1>6, <1>7 DEF Next

\* Every value a poll and its requests take has its type.
THEOREM Typed == Spec => []TypeOK
<1>1. Init => TypeOK /\ Callers
  BY TypeInit, PollsAssumption DEF Init, Callers, Idle, Ballots
<1>2. TypeOK /\ Callers /\ [Next]_vars => (TypeOK /\ Callers)'
  BY TypeStep, CallersStep
<1> QED
  BY <1>1, <1>2, PTL DEF Spec
-----------------------------------------------------------------------------
(***************************************************************************)
(* The ballots of the voters whose votes have not overlapped.              *)
(***************************************************************************)

LEMMA UnbornStep ==
    ASSUME TypeOK, Unborn, [Next]_vars
    PROVE  Unborn'
<1> SUFFICES ASSUME poll' = "none"
             PROVE  Unborn'
  BY DEF Unborn
<1> USE DEF Unborn, At
<1>1. ASSUME NEW r \in Req, NEW u \in Voter, NEW B \in SUBSET Option, Ask(r, u, B)
      PROVE  Unborn'
  BY <1>1 DEF Ask, TypeOK
<1>2. ASSUME NEW r \in Req, GetPoll(r) \/ Fail(r)
      PROVE  Unborn'
  BY <1>2, EndIdle DEF GetPoll, Fail, Idle
<1>3. ASSUME NEW r \in Req
      PROVE  ~ (CreatePoll(r) \/ CreateOption(r) \/ AskManager(r) \/ ClosePoll(r)
                \/ DeletePoll(r) \/ FindOptions(r) \/ DeleteVotes(r)
                \/ \E o \in Option : InsertVote(r, o))
  BY DEF CreatePoll, CreateOption, AskManager, ClosePoll, DeletePoll, FindOptions,
         DeleteVotes, InsertVote
<1>4. CASE UNCHANGED vars
  BY <1>4 DEF vars
<1> QED
  BY <1>1, <1>2, <1>3, <1>4 DEF Next

LEMMA CheckedStep ==
    ASSUME TypeOK, Unborn, Checked, [Next]_vars
    PROVE  Checked'
<1> USE DEF Checked, Exists, Accepted, At
<1>1. ASSUME NEW r \in Req, CreatePoll(r)
      PROVE  Checked'
  BY <1>1, GotoOn DEF CreatePoll, Unborn
<1>2. ASSUME NEW r \in Req, CreateOption(r)
      PROVE  Checked'
  BY <1>2, EndIdle DEF CreateOption, Idle
<1>3. ASSUME NEW r \in Req, AskManager(r) \/ DeleteVotes(r)
      PROVE  Checked'
  BY <1>3, GotoOn DEF AskManager, DeleteVotes
<1>4. ASSUME NEW r \in Req, ClosePoll(r) \/ DeletePoll(r) \/ Fail(r)
      PROVE  Checked'
  BY <1>4, EndIdle DEF ClosePoll, DeletePoll, Fail, Idle
<1>5. ASSUME NEW r \in Req, NEW u \in Voter, NEW B \in SUBSET Option, Ask(r, u, B)
      PROVE  Checked'
  BY <1>5 DEF Ask, TypeOK
<1>6. ASSUME NEW r \in Req, GetPoll(r) \/ FindOptions(r)
      PROVE  Checked'
  BY <1>6, EndIdle, GotoOn DEF GetPoll, FindOptions, Idle
<1>7. ASSUME NEW r \in Req, NEW o \in Option, InsertVote(r, o)
      PROVE  Checked'
  BY <1>7 DEF InsertVote, Idle, TypeOK
<1>8. CASE UNCHANGED vars
  BY <1>8 DEF vars
<1> QED
  BY <1>1, <1>2, <1>3, <1>4, <1>5, <1>6, <1>7, <1>8 DEF Next

\* Requests that neither start nor end storing a ballot.
SameInsertions ==
    \A q \in Req : /\ At(q, "insert")' <=> At(q, "insert")
                   /\ At(q, "insert") => req'[q] = req[q]

\* Statements of a request that does not store a ballot, and leaves the rows
\* of the ballots alone.
LEMMA NotStoring ==
    ASSUME TypeOK, NEW r \in Req,
           \/ CreateOption(r) \/ AskManager(r) \/ ClosePoll(r) \/ GetPoll(r) \/ FindOptions(r)
           \/ Fail(r) /\ ~ At(r, "insert")
           \/ \E u \in Voter, B \in SUBSET Option : Ask(r, u, B)
    PROVE  /\ SameInsertions
           /\ UNCHANGED <<multiple, vote, last, spoilt>> /\ crossed \subseteq crossed'
           /\ Exists' <=> Exists
           /\ options \subseteq options'
<1> USE DEF SameInsertions, At, Exists
<1>1. CASE CreateOption(r)
  BY <1>1, EndIdle DEF CreateOption, Idle
<1>2. CASE AskManager(r) \/ GetPoll(r) \/ FindOptions(r)
  BY <1>2, EndIdle, GotoOn DEF AskManager, GetPoll, FindOptions, Idle
<1>3. CASE ClosePoll(r) \/ (Fail(r) /\ ~ At(r, "insert"))
  BY <1>3, EndIdle DEF ClosePoll, Fail, Idle
<1>4. CASE \E u \in Voter, B \in SUBSET Option : Ask(r, u, B)
  BY <1>4 DEF Ask, TypeOK
<1> QED
  BY <1>1, <1>2, <1>3, <1>4

LEMMA InsertionsStep ==
    ASSUME TypeOK, BallotInv, [Next]_vars
    PROVE  Insertions'
<1> USE DEF BallotInv, Insertions, At, Exists
<1>1. ASSUME NEW r \in Req,
             \/ CreateOption(r) \/ AskManager(r) \/ ClosePoll(r) \/ GetPoll(r) \/ FindOptions(r)
             \/ Fail(r) /\ ~ At(r, "insert")
             \/ \E u \in Voter, B \in SUBSET Option : Ask(r, u, B)
      PROVE  Insertions'
  BY <1>1, NotStoring DEF SameInsertions
<1>2. ASSUME NEW r \in Req, CreatePoll(r)
      PROVE  Insertions'
  BY <1>2, GotoOn DEF CreatePoll, Unborn
<1>3. ASSUME NEW r \in Req, DeletePoll(r)
      PROVE  Insertions'
  BY <1>3, EndIdle DEF DeletePoll, Idle
<1>4. ASSUME NEW r \in Req, DeleteVotes(r)
      PROVE  Insertions'
  <2>1. req[r].by \in Voter
    BY <1>4 DEF DeleteVotes, Callers, Ballots
  <2>2. \A q \in Req : q # r /\ req[q].pc = "insert" /\ req[q].by \notin crossed =>
                        req[q].by # req[r].by
    BY <2>1 DEF Callers
  <2>3. /\ vote'[req[r].by] = {} /\ last'[req[r].by] = req[r].ballot
        /\ \A u \in Voter : u # req[r].by => vote'[u] = vote[u] /\ last'[u] = last[u]
    BY <1>4, <2>1 DEF DeleteVotes, TypeOK
  <2>4. \A q \in Req : req[q].pc = "insert" => req[q].by \in Voter
    BY DEF Callers, Ballots
  <2> QED
    BY <1>4, <2>1, <2>2, <2>3, <2>4, GotoOn DEF DeleteVotes
<1>5. ASSUME NEW r \in Req, NEW o \in Option, InsertVote(r, o)
      PROVE  Insertions'
  <2>1. req[r].by \in Voter
    BY <1>5 DEF InsertVote, Callers, Ballots
  <2>2. \A q \in Req : q # r /\ req[q].pc = "insert" /\ req[q].by \notin crossed =>
                        req[q].by \in Voter /\ req[q].by # req[r].by
    BY <2>1 DEF Callers, Ballots
  <2>3. /\ vote'[req[r].by] = vote[req[r].by] \union ({o} \intersect options)
        /\ \A u \in Voter : u # req[r].by => vote'[u] = vote[u]
    BY <1>5, <2>1 DEF InsertVote, TypeOK
  <2>4. /\ \A q \in Req : q # r => req'[q] = req[q]
        /\ req'[r].pc = "insert" => /\ req'[r].by = req[r].by
                                   /\ req'[r].ballot = req[r].ballot \ {o}
    BY <1>5 DEF InsertVote, Idle, TypeOK
  <2>5. Exists /\ req[r].by \notin crossed => o \in options
    BY <1>5, <2>1 DEF InsertVote, Stored, StoredFor
  <2>6. At(r, "insert") /\ UNCHANGED <<poll, last, crossed>>
    BY <1>5 DEF InsertVote
  <2>7. ASSUME NEW q \in Req, q # r, At(q, "insert")', req'[q].by \notin crossed
        PROVE  LET u == req'[q].by IN
               /\ req'[q].ballot \subseteq last'[u]
               /\ Exists' => vote'[u] \union req'[q].ballot = last'[u]
    BY <2>2, <2>3, <2>4, <2>6, <2>7
  <2>8. ASSUME At(r, "insert")', req'[r].by \notin crossed
        PROVE  LET u == req'[r].by IN
               /\ req'[r].ballot \subseteq last'[u]
               /\ Exists' => vote'[u] \union req'[r].ballot = last'[u]
    BY <1>5, <2>1, <2>3, <2>4, <2>5, <2>6, <2>8 DEF InsertVote
  <2> QED
    BY <2>6, <2>7, <2>8
<1>6. ASSUME NEW r \in Req, Fail(r), At(r, "insert")
      PROVE  Insertions'
  BY <1>6, EndIdle DEF Fail, Idle
<1>7. CASE UNCHANGED vars
  BY <1>7 DEF vars
<1> QED
  BY <1>1, <1>2, <1>3, <1>4, <1>5, <1>6, <1>7 DEF Next

LEMMA StoredStep ==
    ASSUME TypeOK, BallotInv, [Next]_vars
    PROVE  Stored'
<1> USE DEF BallotInv, Stored, StoredFor, Accepted, Inserting, At, Exists
<1>1. ASSUME NEW r \in Req,
             \/ CreateOption(r) \/ AskManager(r) \/ ClosePoll(r) \/ GetPoll(r) \/ FindOptions(r)
             \/ Fail(r) /\ ~ At(r, "insert")
             \/ \E u \in Voter, B \in SUBSET Option : Ask(r, u, B)
      PROVE  Stored'
  BY <1>1, NotStoring DEF SameInsertions
<1>2. ASSUME NEW r \in Req, CreatePoll(r)
      PROVE  Stored'
  BY <1>2, GotoOn DEF CreatePoll, Unborn
<1>3. ASSUME NEW r \in Req, DeletePoll(r)
      PROVE  Stored'
  BY <1>3, EndIdle DEF DeletePoll, Idle
<1>4. ASSUME NEW r \in Req, DeleteVotes(r)
      PROVE  Stored'
  <2>1. PICK b \in Voter : b = req[r].by
    BY <1>4 DEF DeleteVotes, Callers, Ballots
  <2>2. /\ vote'[b] = {} /\ last'[b] = req[r].ballot
        /\ \A u \in Voter : u # b => vote'[u] = vote[u] /\ last'[u] = last[u]
    BY <1>4, <2>1 DEF DeleteVotes, TypeOK
  <2>3. Accepted(req[r].ballot) /\ (Exists => req[r].ballot \subseteq options)
    BY <1>4 DEF DeleteVotes, Checked
  <2>4. Inserting(b)' /\ \A u \in Voter : u # b => (Inserting(u)' <=> Inserting(u))
    BY <1>4, <2>1, GotoOn DEF DeleteVotes
  <2>5. UNCHANGED <<poll, multiple, options>> /\ spoilt' = spoilt \ {b} /\ crossed' = crossed
    BY <1>4, <2>1 DEF DeleteVotes
  <2>6. ASSUME NEW u \in Voter \ crossed, u # b
        PROVE  StoredFor(u)'
    BY <2>2, <2>4, <2>5, <2>6
  <2>7. b \notin crossed => StoredFor(b)'
    BY <2>1, <2>2, <2>3, <2>4, <2>5
  <2> QED
    BY <2>5, <2>6, <2>7
<1>5. ASSUME NEW r \in Req, NEW o \in Option, InsertVote(r, o)
      PROVE  Stored'
  <2>1. PICK b \in Voter : b = req[r].by
    BY <1>5 DEF InsertVote, Callers, Ballots
  <2>2. /\ vote'[b] = vote[b] \union ({o} \intersect options)
        /\ \A u \in Voter : u # b => vote'[u] = vote[u]
    BY <1>5, <2>1 DEF InsertVote, TypeOK
  <2>3. b \notin crossed => o \in last[b]
    BY <1>5, <2>1 DEF InsertVote, Insertions
  <2>4. \A u \in Voter : u # b => (Inserting(u)' <=> Inserting(u))
    BY <1>5, <2>1 DEF InsertVote, Idle, TypeOK
  <2>5. Inserting(b)' \/ req[r].ballot = {o}
    BY <1>5, <2>1 DEF InsertVote, Idle, TypeOK
  <2>6. Exists /\ b \notin crossed /\ req[r].ballot = {o} => vote'[b] = last[b]
    BY <1>5, <2>1, <2>2, <2>3 DEF InsertVote, Insertions
  <2>7. UNCHANGED <<poll, multiple, options, last, spoilt, crossed>>
    BY <1>5 DEF InsertVote
  <2>8. ASSUME NEW u \in Voter \ crossed, u # b
        PROVE  StoredFor(u)'
    BY <2>2, <2>4, <2>7, <2>8
  <2>9. b \notin crossed => StoredFor(b)'
    BY <2>1, <2>2, <2>3, <2>5, <2>6, <2>7
  <2> QED
    BY <2>7, <2>8, <2>9
<1>6. ASSUME NEW r \in Req, Fail(r), At(r, "insert")
      PROVE  Stored'
  BY <1>6, EndIdle DEF Fail, Idle, TypeOK
<1>7. CASE UNCHANGED vars
  BY <1>7 DEF vars
<1> QED
  BY <1>1, <1>2, <1>3, <1>4, <1>5, <1>6, <1>7 DEF Next

LEMMA PollInvInit == Init => PollInv
BY TypeInit, PollsAssumption
   DEF Init, PollInv, BallotInv, Callers, Unborn, Checked, Insertions, Stored, StoredFor,
       Inserting, Exists, At, Idle, Ballots

LEMMA PollInvStep == PollInv /\ [Next]_vars => PollInv'
BY TypeStep, CallersStep, UnbornStep, CheckedStep, InsertionsStep, StoredStep
   DEF PollInv, BallotInv

\* The ballots are kept of a voter until a second vote of the voter's overlaps the
\* first: then the poll has one vote of each.
THEOREM PollInvariant == Spec => []PollInv
<1>1. PollInv /\ [Next]_vars => PollInv'
  BY PollInvStep
<1> QED
  BY <1>1, PollInvInit, PTL DEF Spec

\* The poll has the ballot that was accepted last of every voter who has no
\* vote under way, none that failed half way and no two that overlapped.
THEOREM LastBallotStoredHolds == Spec => []LastBallotStored
<1>1. PollInv => LastBallotStored
  BY DEF PollInv, BallotInv, Stored, StoredFor, LastBallotStored, Voting, Inserting
<1> QED
  BY <1>1, PollInvariant, PTL

\* A single-choice poll has one vote at most of each voter whose votes never overlapped.
THEOREM SingleChoiceHolds == Spec => []SingleChoice
<1>1. PollInv => SingleChoice
  <2> SUFFICES ASSUME PollInv, ~ multiple, NEW u \in Voter \ crossed
               PROVE  Cardinality(vote[u]) <= 1
    BY DEF SingleChoice
  <2>1. vote[u] \subseteq last[u] /\ (last[u] = {} \/ Cardinality(last[u]) = 1)
    BY DEF PollInv, BallotInv, Stored, StoredFor, Accepted
  <2>2. IsFiniteSet(last[u])
    BY FS_Subset, PollsAssumption DEF PollInv, TypeOK
  <2>3. Cardinality(last[u]) \in {0, 1}
    BY <2>1, FS_EmptySet
  <2>4. Cardinality(vote[u]) \in Nat /\ Cardinality(vote[u]) <= Cardinality(last[u])
    BY <2>1, <2>2, FS_Subset, FS_CardinalityType
  <2> QED
    BY <2>3, <2>4
<1> QED
  BY <1>1, PollInvariant, PTL

-----------------------------------------------------------------------------
(* Sheet music: a setlist that is saved can be played without a            *)
(* connection, as long as the user has started one operation at a time.    *)

\* What the property needs to be inductive.

Saves(pc) == [pc : {pc}, key : Setlist, ids : SUBSET Pdf, todo : SUBSET Pdf]

Jobs ==
    {NoJob} \union Saves("download") \union Saves("annotations")
    \union [pc : {"remove"}, key : Setlist, orphans : SUBSET Pdf]
    \union [pc : {"refresh"}, pdf : Pdf]

\* What the operations in flight and the records hold; a playlist is on screen, or a
\* part being chosen, only in a player that is open.
JobsTyped ==
    /\ SheetTypeOK
    /\ saved \in [Setlist -> (SUBSET Pdf) \union {NoList}]
    /\ job \in [Job -> Jobs]
    /\ response # NoList => player # NoSetlist
    /\ choice # "idle" => player # NoSetlist /\ response # NoList

\* One operation at a time, a switch of parts and the save it asks for included.
Serial ==
    /\ \A j, k \in Job : job[j].pc # "idle" /\ job[k].pc # "idle" => j = k
    /\ choice = "put" \/ resave => Free = Job
    /\ choice = "put" => ~ resave

\* A save has what it has taken off its list.
Downloaded(j) ==
    job[j].pc = "download" =>
      /\ job[j].todo \subseteq job[j].ids
      /\ job[j].ids \ job[j].todo \subseteq pdfs \union dropped

\* No other setlist needs what a removal is about to delete.
Orphaned(j) ==
    job[j].pc = "remove" =>
      \A t \in Setlist : t # job[j].key /\ saved[t] # NoList =>
        saved[t] \intersect job[j].orphans = {}

Underway == \A j \in Job : Downloaded(j) /\ Orphaned(j)

Playable == \A s \in Setlist : saved[s] # NoList => saved[s] \subseteq pdfs \union dropped

\* What holds until the user has started an operation while another ran.
Orderly == Serial /\ Underway /\ Playable

IInv == JobsTyped /\ (~ overlapped => Orderly)

-----------------------------------------------------------------------------
(* How the actions change the operations in flight.                        *)

LEMMA Started ==
    ASSUME JobsTyped, NEW j \in Job, NEW record \in Jobs, Starts(j, record)
    PROVE  /\ job[j].pc = "idle" /\ job' \in [Job -> Jobs] /\ job'[j] = record
           /\ \A k \in Job : k # j => job'[k] = job[k]
BY DEF Starts, Free, JobsTyped

LEMMA Ended ==
    ASSUME JobsTyped, NEW j \in Job, Ends(j)
    PROVE  /\ job' \in [Job -> Jobs] /\ job'[j].pc = "idle"
           /\ \A k \in Job : k # j => job'[k] = job[k]
<1>1. NoJob \in Jobs /\ NoJob.pc = "idle"
  BY DEF Jobs, NoJob
<1> QED BY <1>1 DEF Ends, JobsTyped

\* What an operation at its step holds.
LEMMA Fields ==
    ASSUME JobsTyped, NEW j \in Job
    PROVE  /\ job[j].pc \in {"download", "annotations"} =>
                /\ job[j].key \in Setlist
                /\ job[j].ids \in SUBSET Pdf /\ job[j].todo \in SUBSET Pdf
                /\ job[j] \in Saves(job[j].pc)
           /\ job[j].pc = "remove" =>
                job[j].key \in Setlist /\ job[j].orphans \in SUBSET Pdf
           /\ job[j].pc = "refresh" => job[j].pdf \in Pdf
<1>1. job[j] \in Jobs
  BY DEF JobsTyped
<1> QED BY <1>1 DEF Jobs, Saves, NoJob

LEMMA Records ==
    ASSUME NEW rec \in Jobs
    PROVE  rec.pc \in {"idle", "download", "record", "annotations", "remove", "refresh"}
BY DEF Jobs, Saves, NoJob

\* A save takes one PDF off its list.
LEMMA Advanced ==
    ASSUME JobsTyped, NEW j \in Job, job[j].pc = "download", NEW todo \in SUBSET Pdf,
           job' = [job EXCEPT ![j] = [job[j] EXCEPT !.todo = todo]]
    PROVE  /\ job' \in [Job -> Jobs]
           /\ job'[j].pc = "download" /\ job'[j].key = job[j].key
           /\ job'[j].ids = job[j].ids /\ job'[j].todo = todo
           /\ \A k \in Job : k # j => job'[k] = job[k]
<1> DEFINE record == [job[j] EXCEPT !.todo = todo]
<1>1. job[j] \in Saves("download")
  BY Fields
<1>2. /\ record \in Saves("download") /\ record.pc = "download" /\ record.key = job[j].key
      /\ record.ids = job[j].ids /\ record.todo = todo
  BY <1>1 DEF Saves
<1>3. record \in Jobs
  BY <1>2 DEF Jobs
<1> HIDE DEF record
<1>4. job'[j] = record /\ job' \in [Job -> Jobs] /\ \A k \in Job : k # j => job'[k] = job[k]
  BY <1>3 DEF JobsTyped, record
<1> QED BY <1>2, <1>4

-----------------------------------------------------------------------------
(* The steps.                                                              *)

LEMMA Initially ==
    ASSUME Nulls, SheetInit
    PROVE  IInv
<1>1. SheetTypeOK
  BY DEF SheetInit, SheetTypeOK, NoJob
<1>4. JobsTyped
  <2>1. NoJob \in Jobs
    BY DEF Jobs
  <2>2. job \in [Job -> Jobs] /\ saved \in [Setlist -> (SUBSET Pdf) \union {NoList}]
    BY <2>1 DEF SheetInit
  <2> QED BY <1>1, <2>2 DEF SheetInit, JobsTyped
<1>2. Serial
  BY DEF SheetInit, Serial, NoJob
<1>3. Underway /\ Playable
  BY DEF SheetInit, Underway, Downloaded, Orphaned, Playable, NoJob
<1> QED BY <1>2, <1>3, <1>4 DEF IInv, Orderly

\* A step of the screens leaves the store and the operations in flight alone.
LEMMA ScreenStep ==
    ASSUME Nulls, IInv,
           \/ \E s \in Setlist : OpenPlayer(s)
           \/ usePlaylist \/ getOfflineSetlist \/ ClosePlayer \/ ShowCard
           \/ selectPart \/ ChoiceStored \/ Refetched
    PROVE  IInv'
<1>1. UNCHANGED <<store, job, dropped>>
  BY DEF OpenPlayer, usePlaylist, getOfflineSetlist, ClosePlayer, ShowCard, selectPart,
     ChoiceStored, Refetched, store, sheetHistory
<1>2. JobsTyped'
  <2>1. CASE \E s \in Setlist : OpenPlayer(s)
    BY <2>1 DEF OpenPlayer, IInv, JobsTyped, SheetTypeOK, store, sheetHistory
  <2>2. CASE usePlaylist
    BY <2>2 DEF usePlaylist, IInv, JobsTyped, SheetTypeOK, store, sheetHistory
  <2>3. CASE getOfflineSetlist
    BY <2>3 DEF getOfflineSetlist, IInv, JobsTyped, SheetTypeOK, store, sheetHistory
  <2>4. CASE ClosePlayer
    BY <2>4 DEF ClosePlayer, IInv, JobsTyped, SheetTypeOK, store, sheetHistory
  <2>5. CASE ShowCard
    BY <2>5 DEF ShowCard, IInv, JobsTyped, SheetTypeOK, store, screen, sheetHistory
  <2>6. CASE selectPart
    BY <2>6 DEF selectPart, ByTheUser, IInv, JobsTyped, SheetTypeOK, store
  <2>7. CASE ChoiceStored
    BY <2>7 DEF ChoiceStored, IInv, JobsTyped, SheetTypeOK, store, sheetHistory
  <2>8. CASE Refetched
    <3>1. player \in Setlist /\ needed[player] \in SUBSET Pdf
      BY <2>8 DEF Refetched, IInv, JobsTyped, SheetTypeOK
    <3> QED BY <2>8, <3>1 DEF Refetched, IInv, JobsTyped, SheetTypeOK, store, sheetHistory
  <2> QED BY <2>1, <2>2, <2>3, <2>4, <2>5, <2>6, <2>7, <2>8
<1>3. ASSUME ~ overlapped'
      PROVE  Orderly'
  <2>1. /\ Orderly
        /\ selectPart => Calm
    BY <1>3 DEF IInv, OpenPlayer, usePlaylist, getOfflineSetlist, ClosePlayer, ShowCard,
       selectPart, ChoiceStored, Refetched, ByTheUser, sheetHistory
  <2>2. \/ UNCHANGED <<choice, resave>>
        \/ choice' = "idle" /\ resave' \in {FALSE, resave}
        \/ choice' = "put" /\ resave' = FALSE /\ Free = Job
        \/ choice' = "refetch" /\ choice = "put"
    BY <2>1 DEF OpenPlayer, usePlaylist, getOfflineSetlist, ClosePlayer, ShowCard, selectPart,
       ChoiceStored, Refetched, screen, Calm, IInv, JobsTyped, SheetTypeOK
  <2>3. Free' = Free
    BY <1>1 DEF Free
  <2>4. \A k, l \in Job : job'[k].pc # "idle" /\ job'[l].pc # "idle" => k = l
    BY <1>1, <2>1 DEF Orderly, Serial
  <2>5. choice' = "put" \/ resave' => Free' = Job
    BY <2>1, <2>2, <2>3 DEF Orderly, Serial
  <2>6. choice' = "put" => ~ resave'
    BY <2>1, <2>2 DEF Orderly, Serial
  <2>7. Underway' /\ Playable'
    BY <1>1, <2>1 DEF store, Orderly, Underway, Downloaded, Orphaned, Playable
  <2> QED BY <2>4, <2>5, <2>6, <2>7 DEF Orderly, Serial
<1> QED BY <1>2, <1>3 DEF IInv

\* An operation starts: none is in flight, and none waits to be started.
LEMMA StartStep ==
    ASSUME JobsTyped, Orderly, NEW j \in Job, NEW record \in Jobs, Starts(j, record),
           Free = Job, UNCHANGED <<store, dropped>>,
           choice' = choice, resave' = FALSE, choice # "put",
           Downloaded(j)', Orphaned(j)'
    PROVE  Orderly'
<1>1. /\ job'[j] = record
      /\ \A k \in Job : k # j => job'[k] = job[k] /\ job'[k].pc = "idle"
  BY Started DEF Free
<1>2. Serial'
  BY <1>1 DEF Serial
<1>3. Underway'
  BY <1>1 DEF Underway, Downloaded, Orphaned
<1>4. Playable'
  BY DEF Orderly, Playable, store
<1> QED BY <1>2, <1>3, <1>4 DEF Orderly

\* A save starts with its whole list to download.
LEMMA SaveStep ==
    ASSUME Nulls, IInv, save \/ Rerender
    PROVE  IInv'
<1>1. /\ player \in Setlist /\ response \in SUBSET Pdf
      /\ UNCHANGED <<needed, store, player, response, choice, card, dropped>>
      /\ resave' \in {FALSE, resave} /\ overlapped' \in BOOLEAN
      /\ status' = "saving"
      /\ SaveStarts
  <2>1. player # NoSetlist /\ response # NoList
    BY DEF save, Rerender, IInv, JobsTyped
  <2>2. player \in Setlist /\ response \in SUBSET Pdf
    BY <2>1 DEF IInv, JobsTyped, SheetTypeOK
  <2>3. CASE save
    BY <2>2, <2>3 DEF save, ByTheUser
  <2>4. CASE Rerender
    BY <2>2, <2>4 DEF Rerender, IInv, JobsTyped, SheetTypeOK, sheetHistory
  <2> QED BY <2>3, <2>4
<1>2. ASSUME ~ overlapped'
      PROVE  Orderly /\ Free = Job /\ choice # "put" /\ resave' = FALSE
  <2>1. resave \in BOOLEAN
    BY DEF IInv, JobsTyped, SheetTypeOK
  <2>2. CASE save
    BY <1>2, <2>1, <2>2 DEF save, ByTheUser, Calm, IInv
  <2>3. CASE Rerender
    BY <1>2, <2>3 DEF Rerender, IInv, Orderly, Serial, sheetHistory
  <2> QED BY <2>2, <2>3
<1> DEFINE record == [pc |-> "download", key |-> player, ids |-> response, todo |-> response]
<1>3. PICK j \in Job : Starts(j, record)
  BY <1>1 DEF SaveStarts
<1>4. record \in Jobs
  BY <1>1 DEF Jobs, Saves
<1>5. /\ job' \in [Job -> Jobs] /\ job'[j] = record
  BY <1>3, <1>4, Started DEF IInv
<1>6. JobsTyped'
  <2>1. \A k \in Job : job'[k].pc \in
          {"idle", "download", "record", "annotations", "remove", "refresh"}
    BY <1>5, Records
  <2> QED BY <1>1, <1>5, <2>1 DEF IInv, JobsTyped, SheetTypeOK, store
<1>7. Downloaded(j)' /\ Orphaned(j)'
  BY <1>5 DEF Downloaded, Orphaned
<1>8. UNCHANGED <<store, dropped>> /\ choice' = choice
  BY <1>1
<1>9. ~ overlapped' => Orderly'
  BY <1>2, <1>3, <1>4, <1>7, <1>8, StartStep DEF IInv
<1> QED BY <1>6, <1>9 DEF IInv

\* A removal starts with the PDFs that no other setlist needs.
LEMMA RemoveStep ==
    ASSUME Nulls, IInv, NEW s \in Setlist, remove(s)
    PROVE  IInv'
<1>1. /\ UNCHANGED <<needed, store, player, response, choice, resave, dropped>>
      /\ overlapped' \in BOOLEAN
      /\ card' \subseteq Setlist
      /\ status' \in {"none", status}
  BY DEF remove, ByTheUser, IInv, JobsTyped, SheetTypeOK
<1>0. ASSUME ~ overlapped'
      PROVE  Orderly /\ Free = Job /\ choice # "put" /\ resave' = FALSE
  <2>1. ~ overlapped /\ Calm
    BY <1>0 DEF remove, ByTheUser
  <2> QED BY <1>1, <2>1 DEF Calm, IInv, JobsTyped, SheetTypeOK
<1>2. CASE saved[s] # NoList
  <2> DEFINE record == [pc |-> "remove", key |-> s, orphans |-> orphanedNoteIds(s)]
  <2>1. PICK j \in Job : Starts(j, record)
    BY <1>2 DEF remove
  <2>2. saved[s] \in SUBSET Pdf
    BY <1>2 DEF IInv, JobsTyped
  <2>3. record \in Jobs
    BY <2>2 DEF Jobs, orphanedNoteIds
  <2>4. /\ job' \in [Job -> Jobs] /\ job'[j] = record
    BY <2>1, <2>3, Started DEF IInv
  <2>5. JobsTyped'
    <3>1. \A k \in Job : job'[k].pc \in
            {"idle", "download", "record", "annotations", "remove", "refresh"}
      BY <2>4, Records
    <3> QED BY <1>1, <2>4, <3>1 DEF IInv, JobsTyped, SheetTypeOK, store
  <2>6. Downloaded(j)' /\ Orphaned(j)'
    <3>1. ASSUME NEW t \in Setlist, t # s, saved'[t] # NoList
          PROVE  saved'[t] \intersect orphanedNoteIds(s) = {}
      <4>1. saved' = saved
        BY <1>1 DEF store
      <4>2. t \in {u \in Setlist \ {s} : saved[u] # NoList}
        BY <3>1, <4>1
      <4> QED BY <4>1, <4>2 DEF orphanedNoteIds
    <3>2. record.pc = "remove" /\ record.key = s /\ record.orphans = orphanedNoteIds(s)
      OBVIOUS
    <3> HIDE DEF record
    <3> QED BY <2>4, <3>1, <3>2 DEF Downloaded, Orphaned
  <2>7. UNCHANGED <<store, dropped>> /\ choice' = choice
    BY <1>1
  <2>8. ~ overlapped' => Orderly'
    BY <1>0, <2>1, <2>3, <2>6, <2>7, StartStep DEF IInv
  <2> QED BY <2>5, <2>8 DEF IInv
<1>3. CASE saved[s] = NoList
  <2>1. UNCHANGED <<store, job, dropped, choice, resave>>
    BY <1>1, <1>3 DEF remove, store
  <2>2. JobsTyped'
    BY <1>1, <2>1 DEF IInv, JobsTyped, SheetTypeOK, store
  <2>3. ~ overlapped' => Orderly'
    BY <1>0, <2>1 DEF Orderly, store, Serial, Free, Underway, Downloaded, Orphaned, Playable
  <2> QED BY <2>2, <2>3 DEF IInv
<1> QED BY <1>2, <1>3

LEMMA RefreshStep ==
    ASSUME Nulls, IInv, NEW p \in Pdf, refreshOfflinePdfIfSaved(p)
    PROVE  IInv'
<1>1. UNCHANGED <<needed, store, screen, card, dropped>> /\ overlapped' \in BOOLEAN
  BY DEF refreshOfflinePdfIfSaved, ByTheUser
<1>0. ASSUME ~ overlapped'
      PROVE  Orderly /\ Free = Job /\ choice # "put" /\ resave' = FALSE
  <2>1. ~ overlapped /\ Calm
    BY <1>0 DEF refreshOfflinePdfIfSaved, ByTheUser
  <2> QED BY <1>1, <2>1 DEF Calm, IInv, JobsTyped, SheetTypeOK, screen
<1> DEFINE record == [pc |-> "refresh", pdf |-> p]
<1>2. PICK j \in Job : Starts(j, record)
  BY DEF refreshOfflinePdfIfSaved
<1>3. record \in Jobs
  BY DEF Jobs
<1>4. /\ job' \in [Job -> Jobs] /\ job'[j] = record
  BY <1>2, <1>3, Started DEF IInv
<1>5. JobsTyped'
  <2>1. \A k \in Job : job'[k].pc \in
          {"idle", "download", "record", "annotations", "remove", "refresh"}
    BY <1>4, Records
  <2> QED BY <1>1, <1>4, <2>1 DEF IInv, JobsTyped, SheetTypeOK, store, screen
<1>6. Downloaded(j)' /\ Orphaned(j)'
  BY <1>4 DEF Downloaded, Orphaned
<1>7. UNCHANGED <<store, dropped>> /\ choice' = choice
  BY <1>1 DEF screen
<1>8. ~ overlapped' => Orderly'
  BY <1>0, <1>2, <1>3, <1>6, <1>7, StartStep DEF IInv
<1> QED BY <1>5, <1>8 DEF IInv

-----------------------------------------------------------------------------

\* An operation goes on or ends: no other is in flight.
LEMMA Alone ==
    ASSUME Orderly, NEW j \in Job, job[j].pc # "idle",
           \A k \in Job : k # j => job'[k] = job[k],
           UNCHANGED <<choice, resave>>,
           Downloaded(j)', Orphaned(j)', Playable'
    PROVE  Orderly'
<1>1. \A k \in Job : k # j => job[k].pc = "idle" /\ job'[k].pc = "idle"
  BY DEF Orderly, Serial
<1>2. choice # "put" /\ ~ resave
  BY DEF Orderly, Serial, Free
<1>3. Serial'
  BY <1>1, <1>2 DEF Serial
<1>4. Underway'
  BY <1>1 DEF Underway, Downloaded, Orphaned
<1> QED BY <1>3, <1>4 DEF Orderly

LEMMA Reported ==
    ASSUME SheetTypeOK, NEW j, NEW s \in {"saving", "saved", "error"}, Report(j, s)
    PROVE  status' \in {"unknown", "none", "saving", "saved", "error"}
BY DEF Report, SheetTypeOK

\* One PDF is stored.
LEMMA DownloadStep ==
    ASSUME Nulls, IInv, NEW j \in Job, downloadPdfBlob(j)
    PROVE  IInv'
<1>1. PICK p \in job[j].todo :
        /\ pdfs' = pdfs \union {p} /\ dropped' = dropped \ {p}
        /\ job' = [job EXCEPT ![j].todo = @ \ {p}]
  BY DEF downloadPdfBlob
<1>2. /\ job[j].pc = "download" /\ Report(j, "saving")
      /\ UNCHANGED <<needed, saved, player, response, choice, resave, card, overlapped>>
  BY DEF downloadPdfBlob
<1>3. /\ job[j].key \in Setlist /\ job[j].ids \in SUBSET Pdf /\ job[j].todo \in SUBSET Pdf
      /\ job[j] \in Saves("download")
  BY <1>2, Fields DEF IInv
<1>4. job' = [job EXCEPT ![j] = [job[j] EXCEPT !.todo = job[j].todo \ {p}]]
  BY <1>1
<1>5. job[j].todo \ {p} \in SUBSET Pdf
  BY <1>3
<1>6. /\ job' \in [Job -> Jobs]
      /\ job'[j].pc = "download" /\ job'[j].key = job[j].key /\ job'[j].ids = job[j].ids
      /\ job'[j].todo = job[j].todo \ {p}
      /\ \A k \in Job : k # j => job'[k] = job[k]
  BY <1>2, <1>4, <1>5, Advanced DEF IInv
<1>7. JobsTyped'
  <2>1. \A k \in Job : job'[k].pc \in
          {"idle", "download", "record", "annotations", "remove", "refresh"}
    BY <1>6, Records
  <2>2. p \in Pdf /\ status' \in {"unknown", "none", "saving", "saved", "error"}
    BY <1>2, <1>3, Reported DEF IInv, JobsTyped
  <2> QED BY <1>1, <1>2, <1>6, <2>1, <2>2 DEF IInv, JobsTyped, SheetTypeOK
<1>8. ASSUME Orderly
      PROVE  Orderly'
  <2>1. Downloaded(j)' /\ Orphaned(j)'
    BY <1>1, <1>2, <1>6, <1>8 DEF Orderly, Underway, Downloaded, Orphaned
  <2>2. Playable'
    BY <1>1, <1>2, <1>8 DEF Orderly, Playable
  <2> QED BY <1>2, <1>6, <1>8, <2>1, <2>2, Alone
<1> QED BY <1>2, <1>7, <1>8 DEF IInv

\* A save fails, or has ended.
LEMMA EndStep ==
    ASSUME Nulls, IInv, NEW j \in Job, DownloadFails(j) \/ SaveEnds(j)
    PROVE  IInv'
<1>1. /\ job[j].pc # "idle" /\ Ends(j)
      /\ Report(j, "error") \/ Report(j, "saved")
      /\ UNCHANGED <<needed, store, player, response, choice, resave, card, dropped, overlapped>>
  BY DEF DownloadFails, SaveEnds, sheetHistory
<1>2. /\ job' \in [Job -> Jobs] /\ job'[j].pc = "idle"
      /\ \A k \in Job : k # j => job'[k] = job[k]
  BY <1>1, Ended DEF IInv
<1>3. JobsTyped'
  <2>1. \A k \in Job : job'[k].pc \in
          {"idle", "download", "record", "annotations", "remove", "refresh"}
    BY <1>2, Records
  <2>2. status' \in {"unknown", "none", "saving", "saved", "error"}
    BY <1>1, Reported DEF IInv, JobsTyped
  <2> QED BY <1>1, <1>2, <2>1, <2>2 DEF IInv, JobsTyped, SheetTypeOK, store
<1>4. ASSUME Orderly
      PROVE  Orderly'
  <2>1. Downloaded(j)' /\ Orphaned(j)' /\ Playable'
    BY <1>1, <1>2, <1>4 DEF Downloaded, Orphaned, Orderly, Playable, store
  <2> QED BY <1>1, <1>2, <1>4, <2>1, Alone
<1> QED BY <1>1, <1>3, <1>4 DEF IInv

\* The record is written last: everything it names has been stored.
LEMMA PutStep ==
    ASSUME Nulls, IInv, NEW j \in Job, PutSetlist(j)
    PROVE  IInv'
<1>1. /\ job[j].pc = "download" /\ job[j].todo = {}
      /\ saved' = [saved EXCEPT ![job[j].key] = job[j].ids]
      /\ job' = [job EXCEPT ![j].pc = "annotations"]
      /\ UNCHANGED <<needed, pdfs, screen, card, dropped, overlapped>>
  BY DEF PutSetlist, sheetHistory
<1>2. /\ job[j].key \in Setlist /\ job[j].ids \in SUBSET Pdf /\ job[j].todo \in SUBSET Pdf
      /\ job[j] \in Saves("download")
  BY <1>1, Fields DEF IInv
<1> DEFINE record == [job[j] EXCEPT !.pc = "annotations"]
<1>3. job' = [job EXCEPT ![j] = record] /\ record \in Jobs /\ record.pc = "annotations"
  BY <1>1, <1>2 DEF Jobs, Saves
<1> HIDE DEF record
<1>4. /\ job' \in [Job -> Jobs] /\ job'[j].pc = "annotations"
      /\ \A k \in Job : k # j => job'[k] = job[k]
  BY <1>3 DEF IInv, JobsTyped
<1>5. /\ saved' \in [Setlist -> (SUBSET Pdf) \union {NoList}]
      /\ \A s \in Setlist : saved'[s] = saved[s] \/ saved'[s] = job[j].ids
  BY <1>1, <1>2 DEF IInv, JobsTyped
<1>6. JobsTyped'
  <2>1. \A k \in Job : job'[k].pc \in
          {"idle", "download", "record", "annotations", "remove", "refresh"}
    BY <1>4, Records
  <2> QED BY <1>1, <1>4, <1>5, <2>1 DEF IInv, JobsTyped, SheetTypeOK, screen
<1>7. ASSUME Orderly
      PROVE  Orderly'
  <2>1. job[j].ids \subseteq pdfs \union dropped
    BY <1>1, <1>2, <1>7 DEF Orderly, Underway, Downloaded
  <2>2. Playable'
    BY <1>1, <1>5, <1>7, <2>1 DEF Orderly, Playable
  <2>3. Downloaded(j)' /\ Orphaned(j)' /\ UNCHANGED <<choice, resave>> /\ job[j].pc # "idle"
    BY <1>1, <1>4 DEF Downloaded, Orphaned, screen
  <2> QED BY <1>4, <1>7, <2>2, <2>3, Alone
<1> QED BY <1>1, <1>6, <1>7 DEF IInv

\* A removal deletes the record and the PDFs that only it needed.
LEMMA RemovedStep ==
    ASSUME Nulls, IInv, NEW j \in Job, RemoveCommits(j)
    PROVE  IInv'
<1>1. /\ job[j].pc = "remove" /\ Ends(j)
      /\ saved' = [saved EXCEPT ![job[j].key] = NoList]
      /\ pdfs' = pdfs \ job[j].orphans
      /\ UNCHANGED <<needed, screen, card, dropped, overlapped>>
  BY DEF RemoveCommits, sheetHistory
<1>2. /\ job' \in [Job -> Jobs] /\ job'[j].pc = "idle"
      /\ \A k \in Job : k # j => job'[k] = job[k]
  BY <1>1, Ended DEF IInv
<1>3. job[j].key \in Setlist /\ job[j].orphans \in SUBSET Pdf
  BY <1>1, Fields DEF IInv
<1>4. /\ saved' \in [Setlist -> (SUBSET Pdf) \union {NoList}]
      /\ saved'[job[j].key] = NoList
      /\ \A s \in Setlist : s # job[j].key => saved'[s] = saved[s]
  BY <1>1, <1>3 DEF IInv, JobsTyped
<1>5. JobsTyped'
  <2>1. \A k \in Job : job'[k].pc \in
          {"idle", "download", "record", "annotations", "remove", "refresh"}
    BY <1>2, Records
  <2> QED BY <1>1, <1>2, <1>4, <2>1 DEF IInv, JobsTyped, SheetTypeOK, screen
<1>6. ASSUME Orderly
      PROVE  Playable'
  <2> SUFFICES ASSUME NEW s \in Setlist, saved'[s] # NoList
               PROVE  saved'[s] \subseteq pdfs' \union dropped'
    BY DEF Playable
  <2>1. s # job[j].key /\ saved'[s] = saved[s]
    BY <1>4
  <2>2. saved[s] \intersect job[j].orphans = {}
    BY <1>1, <1>6, <2>1 DEF Orderly, Underway, Orphaned
  <2>3. saved[s] \subseteq pdfs \union dropped
    BY <1>6, <2>1 DEF Orderly, Playable
  <2> QED BY <1>1, <2>1, <2>2, <2>3
<1>7. Downloaded(j)' /\ Orphaned(j)' /\ UNCHANGED <<choice, resave>> /\ job[j].pc # "idle"
  BY <1>1, <1>2 DEF Downloaded, Orphaned, screen
<1>8. Orderly => Orderly'
  BY <1>2, <1>6, <1>7, Alone
<1> QED BY <1>1, <1>5, <1>8 DEF IInv

\* A refreshed PDF is there, or given up.
LEMMA RefreshedStep ==
    ASSUME Nulls, IInv, NEW j \in Job, RefreshEnds(j)
    PROVE  IInv'
<1>1. /\ job[j].pc = "refresh" /\ Ends(j)
      /\ \/ pdfs' = pdfs \union {job[j].pdf} /\ dropped' = dropped
         \/ pdfs' = pdfs \ {job[j].pdf} /\ dropped' = dropped \union {job[j].pdf}
      /\ UNCHANGED <<needed, saved, screen, card, overlapped>>
  BY DEF RefreshEnds
<1>2. /\ job' \in [Job -> Jobs] /\ job'[j].pc = "idle"
      /\ \A k \in Job : k # j => job'[k] = job[k]
  BY <1>1, Ended DEF IInv
<1>3. job[j].pdf \in Pdf
  BY <1>1, Fields DEF IInv
<1>4. JobsTyped'
  <2>1. \A k \in Job : job'[k].pc \in
          {"idle", "download", "record", "annotations", "remove", "refresh"}
    BY <1>2, Records
  <2>2. pdfs' \subseteq Pdf /\ dropped' \subseteq Pdf
    BY <1>1, <1>3 DEF IInv, JobsTyped, SheetTypeOK
  <2> QED BY <1>1, <1>2, <2>1, <2>2 DEF IInv, JobsTyped, SheetTypeOK, screen
<1>5. pdfs \union dropped \subseteq pdfs' \union dropped'
  BY <1>1
<1>6. Orderly => Playable'
  BY <1>1, <1>5 DEF Orderly, Playable
<1>7. Downloaded(j)' /\ Orphaned(j)' /\ UNCHANGED <<choice, resave>> /\ job[j].pc # "idle"
  BY <1>1, <1>2 DEF Downloaded, Orphaned, screen
<1>8. Orderly => Orderly'
  BY <1>2, <1>6, <1>7, Alone
<1> QED BY <1>1, <1>4, <1>8 DEF IInv

LEMMA ReloadStep ==
    ASSUME Nulls, IInv, Reload
    PROVE  IInv'
<1>1. /\ player' = NoSetlist /\ response' = NoList /\ status' = "unknown"
      /\ choice' = "idle" /\ resave' = FALSE /\ card' = {}
      /\ job' = [j \in Job |-> NoJob]
      /\ UNCHANGED <<needed, pdfs, saved, dropped, overlapped>>
  BY DEF Reload, store, sheetHistory
<1>2. NoJob \in Jobs /\ NoJob.pc = "idle"
  BY DEF Jobs, NoJob
<1>3. JobsTyped'
  <2>1. job' \in [Job -> Jobs] /\ \A j \in Job : job'[j].pc = "idle"
    BY <1>1, <1>2
  <2> QED BY <1>1, <2>1 DEF IInv, JobsTyped, SheetTypeOK
<1>4. Orderly => Playable'
  BY <1>1 DEF Orderly, Playable
<1>5. Serial' /\ Underway'
  BY <1>1, <1>2 DEF Serial, Free, Underway, Downloaded, Orphaned
<1> QED BY <1>1, <1>3, <1>4, <1>5 DEF IInv, Orderly

LEMMA Inductive ==
    ASSUME Nulls, IInv, [SheetNext]_sheetVars
    PROVE  IInv'
<1>1. CASE UNCHANGED sheetVars
  BY <1>1 DEF sheetVars, store, screen, sheetHistory, IInv, Orderly, JobsTyped, SheetTypeOK, Serial,
     Free, Underway, Downloaded, Orphaned, Playable
<1>2. CASE SheetNext
  BY <1>2, ScreenStep, SaveStep, RemoveStep, RefreshStep, DownloadStep, EndStep, PutStep,
     RemovedStep, RefreshedStep, ReloadStep DEF SheetNext
<1> QED BY <1>1, <1>2

\* offlineSheetMusic.ts:37-40 and 90-122: as long as the member has started one
\* operation at a time, a setlist that claims to be available offline misses no PDF but
\* those a failed refresh gave up, however saves, removals of setlists that share PDFs,
\* switches of parts, failed downloads and reloads follow each other.
THEOREM SheetMusicSavedIsPlayable ==
    ASSUME Nulls
    PROVE  SheetSpec => [](SheetTypeOK /\ SavedIsPlayable)
<1>1. SheetInit => IInv
  BY Initially
<1>2. IInv /\ [SheetNext]_sheetVars => IInv'
  BY Inductive
<1>3. IInv => SheetTypeOK /\ SavedIsPlayable
  BY DEF IInv, Orderly, Playable, JobsTyped, SavedIsPlayable
<1> QED BY <1>1, <1>2, <1>3, PTL DEF SheetSpec

-----------------------------------------------------------------------------
(* Concert programs: every row stands where some request put it, however   *)
(* requests interleave, and a save that nothing disturbs is stored as it   *)
(* was sent. The inductive invariant of EveryRowWasSent.                   *)

\* rest is what p has from place on.
Rest(p, place, rest) ==
    /\ Len(p) = place - 1 + Len(rest)
    /\ \A i \in 1 .. Len(rest) : rest[i] = p[place - 1 + i]

\* A save has still to write the rest of a program that was sent.
Sending ==
    \A r \in Edit : edit[r].pc \in Saving =>
      /\ edit[r].concert \in used
      /\ \E p \in sent[edit[r].concert] : Rest(p, edit[r].place, edit[r].todo)

SentInv == ConcertTypeOK /\ Sending /\ EveryRowWasSent

-----------------------------------------------------------------------------
(* The inductive invariant of LastSentStored.                              *)

Active(r) == edit[r].pc # "idle"

\* The deletions know whom they delete.
Directed ==
    \A r \in Edit :
      /\ edit[r].pc \in Deleting => edit[r].concert \in used
      /\ edit[r].pc \in {"unlink", "dropNote"} => edit[r].note \in Note

\* Two requests at a time make every concert raced.
Overlapped ==
    \A r, s \in Edit : Active(r) /\ Active(s) /\ r # s => used \subseteq raced

\* The foreign keys of note_in_concert.
Referring == \A row \in rows : row[1] \in concerts /\ row[3] \in notes

\* A program has no note twice.
Distinct(p) == \A i, j \in DOMAIN p : p[i] = p[j] => i = j
Injective == \A c \in Concert : Distinct(latest[c])

Clean == used \ (torn \union raced)

\* n stands at place i of the program last sent for c.
Sent(c, i, n) == i \in DOMAIN latest[c] /\ latest[c][i] = n

\* What r leaves of the rows of another's program: DeleteNote's first statement has
\* taken its note out.
Leaves(r, n) == edit[r].pc = "dropNote" => n # edit[r].note

\* r is about to change the rows of c, or has begun to.
Works(r, c) == edit[r].concert = c /\ edit[r].pc \in Saving \union {"dropConcert"}

\* The rows of a clean concert that no request works on.
AtRest ==
    \A c \in Clean \intersect concerts : (\A r \in Edit : ~ Works(r, c)) =>
      \A i \in 1 .. MaxProgram, n \in Note :
        <<c, i, n>> \in rows <=>
          Sent(c, i, n) /\ n \in notes /\ \A r \in Edit : Leaves(r, n)

\* A save of a clean concert has the program last sent before it.
SaveOf(r) ==
    edit[r].pc \in Saving /\ edit[r].concert \in Clean =>
      /\ ToSet(latest[edit[r].concert]) \subseteq notes
      /\ Rest(latest[edit[r].concert], edit[r].place, edit[r].todo)
      /\ edit[r].pc # "insert" => edit[r].concert \in concerts
      /\ edit[r].pc # "fill" => edit[r].place = 1

\* It has written the places before the one it is at.
FillOf(r) ==
    edit[r].pc = "fill" /\ edit[r].concert \in Clean =>
      \A i \in 1 .. MaxProgram, n \in Note :
        <<edit[r].concert, i, n>> \in rows <=>
          Sent(edit[r].concert, i, n) /\ i < edit[r].place

\* The deletions find nothing that refers to what they delete.
DropOf(r) ==
    /\ edit[r].pc = "dropConcert" /\ edit[r].concert \in Clean =>
         RowsOf(edit[r].concert) = {}
    /\ edit[r].pc = "dropNote" =>
         used \subseteq raced \/ \A row \in rows : row[3] # edit[r].note

EditsUnderway == \A r \in Edit : SaveOf(r) /\ FillOf(r) /\ DropOf(r)

StoredInv ==
    /\ Directed /\ Overlapped /\ Referring /\ Injective
    /\ AtRest /\ EditsUnderway

-----------------------------------------------------------------------------
(* The operators.                                                          *)

\* A program is a sequence of at most MaxProgram notes.
LEMMA ListsAreShort ==
    ASSUME ConcertConstants, NEW p
    PROVE  p \in Lists <=> p \in Seq(Note) /\ Len(p) <= MaxProgram
<1>1. ASSUME p \in Lists PROVE p \in Seq(Note) /\ Len(p) <= MaxProgram
  <2>1. PICK k \in 0 .. MaxProgram : p \in [1 .. k -> Note]
    BY <1>1 DEF Lists
  <2>2. k \in Nat /\ k <= MaxProgram
    BY <2>1 DEF ConcertConstants
  <2>3. p \in Seq(Note) /\ Len(p) = k
    BY <2>1, <2>2
  <2> QED BY <2>2, <2>3
<1>2. ASSUME p \in Seq(Note), Len(p) <= MaxProgram PROVE p \in Lists
  <2>1. Len(p) \in 0 .. MaxProgram /\ p \in [1 .. Len(p) -> Note]
    BY <1>2 DEF ConcertConstants
  <2> QED BY <2>1 DEF Lists
<1> QED BY <1>1, <1>2

\* What is left of a list is a list.
LEMMA TailOfList ==
    ASSUME ConcertConstants, NEW p \in Lists, p # <<>>
    PROVE  /\ Head(p) \in Note /\ Tail(p) \in Lists
           /\ Len(Tail(p)) = Len(p) - 1 /\ Len(p) \in 1 .. MaxProgram
<1>1. p \in Seq(Note) /\ Len(p) <= MaxProgram
  BY ListsAreShort
<1>2. Head(p) \in Note /\ Tail(p) \in Seq(Note) /\ Len(Tail(p)) = Len(p) - 1
  BY <1>1
<1>3. Len(p) \in Nat /\ Len(p) # 0 /\ Len(p) \in 1 .. MaxProgram
  BY <1>1 DEF ConcertConstants
<1>4. Len(Tail(p)) <= MaxProgram
  BY <1>1, <1>2, <1>3 DEF ConcertConstants
<1>5. Tail(p) \in Lists
  BY <1>2, <1>4, ListsAreShort
<1> QED BY <1>2, <1>3, <1>5

\* One insert takes one note off the rest.
LEMMA RestAdvances ==
    ASSUME ConcertConstants, NEW p \in Lists, NEW place \in 1 .. MaxProgram + 1,
           NEW rest \in Lists, rest # <<>>, Rest(p, place, rest)
    PROVE  /\ place \in DOMAIN p /\ place \in 1 .. MaxProgram
           /\ p[place] = Head(rest)
           /\ Rest(p, place + 1, Tail(rest))
<1>1. p \in Seq(Note) /\ rest \in Seq(Note) /\ Len(p) <= MaxProgram
  BY ListsAreShort
<1>2. /\ Len(rest) \in Nat \ {0} /\ Len(p) \in Nat /\ place \in Nat \ {0}
      /\ MaxProgram \in Nat
  BY <1>1 DEF ConcertConstants
<1>3. Len(p) = place - 1 + Len(rest)
  BY DEF Rest
<1>4. place \in 1 .. Len(p) /\ place \in 1 .. MaxProgram
  BY <1>1, <1>2, <1>3
<1>5. p[place] = Head(rest)
  BY <1>1, <1>2 DEF Rest
<1>6. Len(Tail(rest)) = Len(rest) - 1
  BY <1>1, <1>2
<1>7. ASSUME NEW i \in 1 .. Len(Tail(rest)) PROVE Tail(rest)[i] = p[place + 1 - 1 + i]
  <2>1. Tail(rest)[i] = rest[i + 1] /\ i + 1 \in 1 .. Len(rest)
    BY <1>1, <1>2, <1>6
  <2>2. rest[i + 1] = p[place - 1 + (i + 1)]
    BY <2>1 DEF Rest
  <2>3. place - 1 + (i + 1) = place + 1 - 1 + i
    BY <1>2, <1>6
  <2> QED BY <2>1, <2>2, <2>3
<1>8. Rest(p, place + 1, Tail(rest))
  BY <1>2, <1>3, <1>6, <1>7 DEF Rest
<1>9. DOMAIN p = 1 .. Len(p)
  BY <1>1
<1> QED BY <1>4, <1>5, <1>8, <1>9

\* A save begins with the whole program.
LEMMA RestBegins ==
    ASSUME ConcertConstants, NEW p \in Lists
    PROVE  Rest(p, 1, p)
BY ListsAreShort DEF Rest

-----------------------------------------------------------------------------
(* How the actions change a request.                                       *)

LEMMA LocalTyped ==
    ASSUME ConcertConstants, NEW c \in Concert \union {NoConcert},
           NEW n \in Note \union {NoNote}, NEW todo \in Lists,
           NEW pc \in {"idle", "unlink", "dropNote"} \union Saving \union Deleting
    PROVE  /\ Local(pc, c, n, todo) \in Request
           /\ Local(pc, c, n, todo).pc = pc /\ Local(pc, c, n, todo).concert = c
           /\ Local(pc, c, n, todo).note = n /\ Local(pc, c, n, todo).todo = todo
           /\ Local(pc, c, n, todo).place = 1
BY DEF Local, Request, ConcertConstants

LEMMA EmptyList ==
    ASSUME ConcertConstants
    PROVE  <<>> \in Lists
<1>1. <<>> \in Seq(Note) /\ Len(<<>>) = 0
  BY EmptySeq
<1>2. Len(<<>>) <= MaxProgram
  BY <1>1 DEF ConcertConstants
<1> QED BY <1>1, <1>2, ListsAreShort

\* A request that has ended leaves nothing in its slot.
LEMMA EditEnded ==
    ASSUME ConcertConstants, ConcertTypeOK, NEW r \in Edit, EndEdit(r)
    PROVE  /\ edit' \in [Edit -> Request]
           /\ edit'[r].pc = "idle" /\ edit'[r].concert = NoConcert
           /\ edit'[r].note = NoNote
           /\ \A s \in Edit : s # r => edit'[s] = edit[s]
<1>1. /\ Blank \in Request
      /\ Blank.pc = "idle" /\ Blank.concert = NoConcert /\ Blank.note = NoNote
  <2>1. <<>> \in Lists
    BY EmptyList
  <2>2. 1 \in 1 .. MaxProgram + 1
    BY DEF ConcertConstants
  <2> QED BY <2>1, <2>2 DEF Blank, Local, Request
<1> QED BY <1>1 DEF EndEdit, ConcertTypeOK

\* A request goes on: only its place in the code changes.
LEMMA Gone ==
    ASSUME ConcertConstants, ConcertTypeOK, NEW r \in Edit,
           NEW pc \in {"idle", "unlink", "dropNote"} \union Saving \union Deleting,
           GoOn(r, pc)
    PROVE  /\ edit' \in [Edit -> Request]
           /\ edit'[r].pc = pc
           /\ edit'[r].concert = edit[r].concert /\ edit'[r].note = edit[r].note
           /\ edit'[r].todo = edit[r].todo /\ edit'[r].place = edit[r].place
           /\ \A s \in Edit : s # r => edit'[s] = edit[s]
<1>1. edit[r] \in Request
  BY DEF ConcertTypeOK
<1> DEFINE new == [edit[r] EXCEPT !.pc = pc]
<1>2. /\ new \in Request /\ new.pc = pc /\ new.concert = edit[r].concert
      /\ new.note = edit[r].note /\ new.todo = edit[r].todo /\ new.place = edit[r].place
  BY <1>1 DEF Request
<1>3. edit' = [edit EXCEPT ![r] = new]
  BY DEF GoOn
<1> HIDE DEF new
<1> QED BY <1>2, <1>3 DEF ConcertTypeOK

\* A request arrives in an idle slot.
LEMMA Came ==
    ASSUME ConcertConstants, ConcertTypeOK, NEW r \in Edit,
           NEW pc \in {"unlink"} \union Saving \union Deleting,
           NEW c \in Concert \union {NoConcert}, NEW n \in Note \union {NoNote},
           NEW todo \in Lists, edit' = [edit EXCEPT ![r] = Local(pc, c, n, todo)]
    PROVE  /\ edit' \in [Edit -> Request]
           /\ edit'[r].pc = pc /\ edit'[r].concert = c /\ edit'[r].note = n
           /\ edit'[r].todo = todo /\ edit'[r].place = 1
           /\ \A s \in Edit : s # r => edit'[s] = edit[s]
<1>1. pc \in {"idle", "unlink", "dropNote"} \union Saving \union Deleting
  OBVIOUS
<1>2. /\ Local(pc, c, n, todo) \in Request
      /\ Local(pc, c, n, todo).pc = pc /\ Local(pc, c, n, todo).concert = c
      /\ Local(pc, c, n, todo).note = n /\ Local(pc, c, n, todo).todo = todo
      /\ Local(pc, c, n, todo).place = 1
  BY <1>1, LocalTyped
<1> QED BY <1>2 DEF ConcertTypeOK

\* What a save finds in its slot.
LEMMA SaveTyped ==
    ASSUME ConcertTypeOK, NEW r \in Edit
    PROVE  /\ edit[r].todo \in Lists /\ edit[r].place \in 1 .. MaxProgram + 1
           /\ edit[r].concert \in Concert \union {NoConcert}
           /\ edit[r].note \in Note \union {NoNote}
           /\ edit[r] \in Request
BY DEF ConcertTypeOK, Request

\* An accepted program is a list that is stored in the histories.
LEMMA SaveAccepted ==
    ASSUME ConcertConstants, ConcertTypeOK, NEW r \in Edit, NEW c \in Concert,
           NEW pc \in {"insert", "update"}, NEW p, Accept(r, c, pc, p)
    PROVE  \E program \in Lists :
             /\ FirstOccurrences(p, program)
             /\ edit[r].pc = "idle"
             /\ ToSet(p) \subseteq notes
             /\ latest' \in [Concert -> Lists] /\ sent' \in [Concert -> SUBSET Lists]
             /\ latest'[c] = program /\ program \in sent'[c]
             /\ \A d \in Concert : d # c => latest'[d] = latest[d]
             /\ \A d \in Concert : sent[d] \subseteq sent'[d]
             /\ edit' \in [Edit -> Request]
             /\ edit'[r].pc = pc /\ edit'[r].concert = c /\ edit'[r].note = NoNote
             /\ edit'[r].todo = program /\ edit'[r].place = 1
             /\ \A s \in Edit : s # r => edit'[s] = edit[s]
<1>1. PICK program \in Lists :
        /\ FirstOccurrences(p, program)
        /\ edit' = [edit EXCEPT ![r] = Local(pc, c, NoNote, program)]
        /\ latest' = [latest EXCEPT ![c] = program]
        /\ sent' = [sent EXCEPT ![c] = @ \union {program}]
  BY DEF Accept
<1>2. pc \in {"unlink"} \union Saving \union Deleting
  BY DEF Saving
<1>3. /\ edit' \in [Edit -> Request]
      /\ edit'[r].pc = pc /\ edit'[r].concert = c /\ edit'[r].note = NoNote
      /\ edit'[r].todo = program /\ edit'[r].place = 1
      /\ \A s \in Edit : s # r => edit'[s] = edit[s]
  BY <1>1, <1>2, Came
<1>4. latest \in [Concert -> Lists] /\ sent \in [Concert -> SUBSET Lists]
  BY DEF ConcertTypeOK
<1>5. latest' \in [Concert -> Lists] /\ latest'[c] = program
      /\ \A d \in Concert : d # c => latest'[d] = latest[d]
  BY <1>1, <1>4
<1>6. sent' \in [Concert -> SUBSET Lists] /\ program \in sent'[c]
      /\ \A d \in Concert : sent[d] \subseteq sent'[d]
  BY <1>1, <1>4
<1>7. edit[r].pc = "idle" /\ ToSet(p) \subseteq notes
  BY DEF Accept
<1> QED BY <1>1, <1>3, <1>5, <1>6, <1>7

\* One insert of a program, or the error that ends it.
LEMMA FillGoesOn ==
    ASSUME ConcertConstants, ConcertTypeOK, NEW r \in Edit, FillNext(r)
    PROVE  \/ /\ Insertable(<<edit[r].concert, edit[r].place, Head(edit[r].todo)>>)
              /\ rows' = rows \union {<<edit[r].concert, edit[r].place, Head(edit[r].todo)>>}
              /\ edit'[r].pc = "fill" /\ edit'[r].concert = edit[r].concert
              /\ edit'[r].note = edit[r].note
              /\ edit'[r].todo = Tail(edit[r].todo) /\ edit'[r].place = edit[r].place + 1
              /\ edit' = [edit EXCEPT ![r] = [[edit[r] EXCEPT !.todo = Tail(@)]
                                            EXCEPT !.place = @ + 1]]
              /\ \A s \in Edit : s # r => edit'[s] = edit[s]
           \/ /\ ~ Insertable(<<edit[r].concert, edit[r].place, Head(edit[r].todo)>>)
              /\ EndEdit(r) /\ UNCHANGED rows
<1>1. CASE Insertable(<<edit[r].concert, edit[r].place, Head(edit[r].todo)>>)
  <2>1. /\ rows' = rows \union {<<edit[r].concert, edit[r].place, Head(edit[r].todo)>>}
        /\ edit' = [edit EXCEPT ![r].todo = Tail(@), ![r].place = @ + 1]
        /\ edit[r].pc = "fill"
    BY <1>1 DEF FillNext
  <2> DEFINE new == [[edit[r] EXCEPT !.todo = Tail(@)] EXCEPT !.place = @ + 1]
  <2>2. edit' = [edit EXCEPT ![r] = new]
    BY <2>1 DEF ConcertTypeOK
  <2>3. /\ new.pc = edit[r].pc /\ new.concert = edit[r].concert /\ new.note = edit[r].note
        /\ new.todo = Tail(edit[r].todo) /\ new.place = edit[r].place + 1
    BY SaveTyped DEF Request
  <2>4. edit'[r] = new /\ \A s \in Edit : s # r => edit'[s] = edit[s]
    BY <2>2 DEF ConcertTypeOK
  <2>5. /\ edit'[r].pc = "fill" /\ edit'[r].concert = edit[r].concert
        /\ edit'[r].note = edit[r].note
        /\ edit'[r].todo = Tail(edit[r].todo) /\ edit'[r].place = edit[r].place + 1
    BY <2>1, <2>3, <2>4
  <2> QED BY <1>1, <2>1, <2>2, <2>4, <2>5
<1>2. CASE ~ Insertable(<<edit[r].concert, edit[r].place, Head(edit[r].todo)>>)
  BY <1>2 DEF FillNext
<1> QED BY <1>1, <1>2

-----------------------------------------------------------------------------
(* Every row stands where some request put it.                             *)

\* What was sent for a concert stays sent: no step but an insert can disturb the rows.
LEMMA RowsKept ==
    ASSUME ConcertTypeOK, EveryRowWasSent, rows' \subseteq rows,
           \A c \in Concert : sent[c] \subseteq sent'[c]
    PROVE  EveryRowWasSent'
<1> SUFFICES ASSUME NEW row \in rows'
             PROVE  \E p \in sent'[row[1]] : row[2] \in DOMAIN p /\ p[row[2]] = row[3]
  BY DEF EveryRowWasSent
<1>1. row \in rows /\ row[1] \in Concert
  BY DEF ConcertTypeOK
<1>2. PICK p \in sent[row[1]] : row[2] \in DOMAIN p /\ p[row[2]] = row[3]
  BY <1>1 DEF EveryRowWasSent
<1> QED BY <1>1, <1>2

\* Neither can one that leaves the rest of a save as it is disturb what is to be sent.
LEMMA SendingKept ==
    ASSUME ConcertConstants, ConcertTypeOK, Sending, NEW r \in Edit, used \subseteq used',
           \A c \in Concert : sent[c] \subseteq sent'[c],
           \A s \in Edit : s # r => edit'[s] = edit[s],
           edit'[r].pc \in Saving =>
             /\ edit[r].pc \in Saving /\ edit'[r].concert = edit[r].concert
             /\ edit'[r].todo = edit[r].todo /\ edit'[r].place = edit[r].place
    PROVE  Sending'
<1> SUFFICES ASSUME NEW s \in Edit, edit'[s].pc \in Saving
             PROVE  /\ edit'[s].concert \in used'
                    /\ \E p \in sent'[edit'[s].concert] :
                         Rest(p, edit'[s].place, edit'[s].todo)
  BY DEF Sending, Rest
<1>1. /\ edit[s].pc \in Saving /\ edit'[s].concert = edit[s].concert
      /\ edit'[s].todo = edit[s].todo /\ edit'[s].place = edit[s].place
  BY DEF Saving
<1>2. edit[s].concert \in used
  BY <1>1 DEF Sending
<1>3. PICK p \in sent[edit[s].concert] : Rest(p, edit[s].place, edit[s].todo)
  BY <1>1 DEF Sending
<1>4. edit[s].concert \in Concert
  BY <1>2 DEF ConcertTypeOK
<1> QED BY <1>1, <1>2, <1>3, <1>4

LEMMA SentInit ==
    ASSUME ConcertConstants, ConcertInit
    PROVE  SentInv
<1>1. \A r \in Edit : edit[r] = Blank
  BY DEF ConcertInit
<1>2. Blank \in Request /\ Blank.pc = "idle"
  <2>1. <<>> \in Lists
    BY EmptyList
  <2>2. 1 \in 1 .. MaxProgram + 1
    BY DEF ConcertConstants
  <2> QED BY <2>1, <2>2 DEF Blank, Local, Request
<1>3. edit \in [Edit -> Request]
  BY <1>2 DEF ConcertInit
<1>4. latest \in [Concert -> Lists] /\ sent \in [Concert -> SUBSET Lists]
  BY EmptyList DEF ConcertInit
<1>5. ConcertTypeOK
  BY <1>3, <1>4 DEF ConcertInit, ConcertTypeOK
<1>6. Sending
  BY <1>1, <1>2 DEF Sending, Saving
<1>7. EveryRowWasSent
  BY DEF ConcertInit, EveryRowWasSent
<1> QED BY <1>5, <1>6, <1>7 DEF SentInv

\* The arrival of a save.
LEMMA SentAccept ==
    ASSUME ConcertConstants, SentInv, NEW r \in Edit, NEW c \in Concert,
           NEW pc \in {"insert", "update"}, NEW p, Accept(r, c, pc, p),
           used' \subseteq Concert, used \subseteq used', c \in used'
    PROVE  SentInv'
<1>1. PICK program \in Lists :
             /\ latest' \in [Concert -> Lists] /\ sent' \in [Concert -> SUBSET Lists]
             /\ latest'[c] = program /\ program \in sent'[c]
             /\ \A d \in Concert : sent[d] \subseteq sent'[d]
             /\ edit' \in [Edit -> Request]
             /\ edit'[r].pc = pc /\ edit'[r].concert = c
             /\ edit'[r].todo = program /\ edit'[r].place = 1
             /\ \A s \in Edit : s # r => edit'[s] = edit[s]
  BY SaveAccepted DEF SentInv
<1>2. UNCHANGED <<notes, concerts, rows>> /\ torn' \subseteq torn
      /\ raced' \subseteq raced \union used'
  BY DEF Accept
<1>3. ConcertTypeOK'
  BY <1>1, <1>2 DEF SentInv, ConcertTypeOK
<1>4. EveryRowWasSent'
  BY <1>1, <1>2, RowsKept DEF SentInv
<1>5. Sending'
  <2> SUFFICES ASSUME NEW s \in Edit, edit'[s].pc \in Saving
               PROVE  /\ edit'[s].concert \in used'
                      /\ \E q \in sent'[edit'[s].concert] :
                           Rest(q, edit'[s].place, edit'[s].todo)
    BY DEF Sending, Rest
  <2>1. CASE s = r
    BY <1>1, <2>1, RestBegins
  <2>2. CASE s # r
    <3>1. edit'[s] = edit[s]
      BY <1>1, <2>2
    <3>2. edit[s].concert \in used
      BY <3>1 DEF SentInv, Sending
    <3>3. PICK q \in sent[edit[s].concert] : Rest(q, edit[s].place, edit[s].todo)
      BY <3>1 DEF SentInv, Sending
    <3>4. edit[s].concert \in Concert
      BY <3>2 DEF SentInv, ConcertTypeOK
    <3> QED BY <1>1, <3>1, <3>2, <3>3, <3>4
  <2> QED BY <2>1, <2>2
<1> QED BY <1>3, <1>4, <1>5 DEF SentInv

\* A step that only goes on, takes rows away, or ends.
LEMMA SentGoesOn ==
    ASSUME ConcertConstants, SentInv, NEW r \in Edit,
           UNCHANGED <<used, latest, sent, raced>>,
           notes' \subseteq notes, rows' \subseteq rows, concerts' \subseteq used,
           torn' \subseteq Concert,
           \/ EndEdit(r)
           \/ \E pc \in {"unlink", "dropNote"} \union Deleting : GoOn(r, pc)
           \/ edit[r].pc \in Saving /\ \E pc \in Saving : GoOn(r, pc)
    PROVE  SentInv'
<1>1. /\ edit' \in [Edit -> Request]
      /\ \A s \in Edit : s # r => edit'[s] = edit[s]
      /\ edit'[r].pc \in Saving =>
             /\ edit[r].pc \in Saving /\ edit'[r].concert = edit[r].concert
             /\ edit'[r].todo = edit[r].todo /\ edit'[r].place = edit[r].place
  <2>1. CASE EndEdit(r)
    BY <2>1, EditEnded DEF SentInv, Saving
  <2>2. CASE \E pc \in {"unlink", "dropNote"} \union Deleting : GoOn(r, pc)
    <3>1. PICK pc \in {"unlink", "dropNote"} \union Deleting : GoOn(r, pc)
      BY <2>2
    <3>2. pc \in {"idle", "unlink", "dropNote"} \union Saving \union Deleting
      BY DEF Deleting
    <3>3. pc \notin Saving
      BY DEF Deleting, Saving
    <3> QED BY <3>1, <3>2, <3>3, Gone DEF SentInv
  <2>3. CASE edit[r].pc \in Saving /\ \E pc \in Saving : GoOn(r, pc)
    <3>1. PICK pc \in Saving : GoOn(r, pc)
      BY <2>3
    <3>2. pc \in {"idle", "unlink", "dropNote"} \union Saving \union Deleting
      BY DEF Deleting
    <3> QED BY <2>3, <3>1, <3>2, Gone DEF SentInv
  <2> QED BY <2>1, <2>2, <2>3
<1>2. ConcertTypeOK'
  BY <1>1 DEF SentInv, ConcertTypeOK
<1>3. Sending'
  BY <1>1, SendingKept DEF SentInv
<1>4. EveryRowWasSent'
  BY RowsKept DEF SentInv
<1> QED BY <1>2, <1>3, <1>4 DEF SentInv

\* The arrival of a deletion.
LEMMA SentDelete ==
    ASSUME ConcertConstants, SentInv, NEW r \in Edit,
           NEW pc \in {"clearRows", "unlink"},
           NEW c \in Concert \union {NoConcert}, NEW n \in Note \union {NoNote},
           edit' = [edit EXCEPT ![r] = Local(pc, c, n, <<>>)],
           raced' = IF Quiet THEN raced ELSE used,
           UNCHANGED <<notes, concerts, used, rows, latest, sent, torn>>
    PROVE  SentInv'
<1>1. pc \in {"unlink"} \union Saving \union Deleting /\ pc \notin Saving
  BY DEF Saving, Deleting
<1>2. <<>> \in Lists
  BY EmptyList
<1>3. /\ edit' \in [Edit -> Request] /\ edit'[r].pc = pc
      /\ \A s \in Edit : s # r => edit'[s] = edit[s]
  BY <1>1, <1>2, Came DEF SentInv
<1>4. ConcertTypeOK'
  BY <1>3 DEF SentInv, ConcertTypeOK
<1>5. Sending'
  BY <1>1, <1>3, SendingKept DEF SentInv
<1>6. EveryRowWasSent'
  BY RowsKept DEF SentInv
<1> QED BY <1>4, <1>5, <1>6 DEF SentInv

\* One insert: the row it adds is the next of a program that was sent.
LEMMA SentFill ==
    ASSUME ConcertConstants, SentInv, NEW r \in Edit, FillNext(r)
    PROVE  SentInv'
<1> DEFINE row == <<edit[r].concert, edit[r].place, Head(edit[r].todo)>>
<1>1. /\ edit[r].pc = "fill" /\ edit[r].todo # <<>>
      /\ UNCHANGED <<notes, concerts, used, latest, sent, torn, raced>>
  BY DEF FillNext, history
<1>2. CASE EndEdit(r) /\ UNCHANGED rows
  <2>1. concerts' \subseteq used /\ torn' \subseteq Concert
    BY <1>1 DEF SentInv, ConcertTypeOK
  <2> QED BY <1>1, <1>2, <2>1, SentGoesOn
<1>3. CASE /\ rows' = rows \union {row}
           /\ edit'[r].pc = "fill" /\ edit'[r].concert = edit[r].concert
           /\ edit'[r].note = edit[r].note
           /\ edit'[r].todo = Tail(edit[r].todo) /\ edit'[r].place = edit[r].place + 1
           /\ edit' = [edit EXCEPT ![r] = [[edit[r] EXCEPT !.todo = Tail(@)]
                                         EXCEPT !.place = @ + 1]]
           /\ \A s \in Edit : s # r => edit'[s] = edit[s]
  <2>1. /\ edit[r].todo \in Lists /\ edit[r].place \in 1 .. MaxProgram + 1
        /\ edit[r] \in Request
    BY SaveTyped DEF SentInv
  <2>2. PICK p \in sent[edit[r].concert] : Rest(p, edit[r].place, edit[r].todo)
    BY <1>1 DEF SentInv, Sending, Saving
  <2>3. edit[r].concert \in used /\ edit[r].concert \in Concert
    BY <1>1 DEF SentInv, Sending, ConcertTypeOK, Saving
  <2>4. p \in Lists
    BY <2>2, <2>3 DEF SentInv, ConcertTypeOK
  <2>5. /\ edit[r].place \in DOMAIN p /\ edit[r].place \in 1 .. MaxProgram
        /\ p[edit[r].place] = Head(edit[r].todo)
        /\ Rest(p, edit[r].place + 1, Tail(edit[r].todo))
    BY <1>1, <2>1, <2>2, <2>4, RestAdvances
  <2>6. Head(edit[r].todo) \in Note /\ Tail(edit[r].todo) \in Lists
    BY <1>1, <2>1, TailOfList
  <2>7. ConcertTypeOK'
    <3>1. rows' \subseteq Concert \X (1 .. MaxProgram) \X Note
      BY <1>3, <2>3, <2>5, <2>6 DEF SentInv, ConcertTypeOK
    <3>2. edit[r].place + 1 \in 1 .. MaxProgram + 1
      BY <2>5 DEF ConcertConstants
    <3>3. [[edit[r] EXCEPT !.todo = Tail(@)] EXCEPT !.place = @ + 1] \in Request
      BY <2>1, <2>6, <3>2 DEF Request
    <3>4. edit' \in [Edit -> Request]
      BY <1>3, <3>3 DEF SentInv, ConcertTypeOK
    <3> QED BY <1>1, <3>1, <3>4 DEF SentInv, ConcertTypeOK
  <2>8. Sending'
    <3> SUFFICES ASSUME NEW s \in Edit, edit'[s].pc \in Saving
                 PROVE  /\ edit'[s].concert \in used
                        /\ \E q \in sent[edit'[s].concert] :
                             Rest(q, edit'[s].place, edit'[s].todo)
      BY <1>1 DEF Sending, Rest
    <3>1. CASE s = r
      BY <1>3, <2>2, <2>3, <2>5, <3>1
    <3>2. CASE s # r
      BY <1>3, <3>2 DEF SentInv, Sending
    <3> QED BY <3>1, <3>2
  <2>9. EveryRowWasSent'
    <3>1. row[1] = edit[r].concert /\ row[2] = edit[r].place /\ row[3] = Head(edit[r].todo)
      OBVIOUS
    <3>2. \A other \in rows' : other \in rows \/ other = row
      BY <1>3
    <3> QED BY <1>1, <2>2, <2>5, <3>1, <3>2 DEF SentInv, EveryRowWasSent
  <2> QED BY <2>7, <2>8, <2>9 DEF SentInv
<1> QED BY <1>2, <1>3, FillGoesOn DEF SentInv

LEMMA SentStep ==
    ASSUME ConcertConstants, SentInv, [ConcertNext]_concertVars
    PROVE  SentInv'
<1>1. ConcertTypeOK
  BY DEF SentInv
<1>2. CASE UNCHANGED concertVars
  BY <1>2 DEF concertVars, SentInv, ConcertTypeOK, Sending, EveryRowWasSent, Rest
<1>3. ASSUME NEW r \in Edit, NEW c \in Concert, NEW p \in Lists, CreateConcert(r, c, p)
      PROVE  SentInv'
  BY <1>1, <1>3, SentAccept DEF CreateConcert, ConcertTypeOK
<1>4. ASSUME NEW r \in Edit, NEW c \in Concert, NEW p \in Lists, UpdateConcert(r, c, p)
      PROVE  SentInv'
  BY <1>1, <1>4, SentAccept DEF UpdateConcert, ConcertTypeOK
<1>5. ASSUME NEW r \in Edit, NEW c \in Concert, DeleteConcert(r, c)
      PROVE  SentInv'
  BY <1>5, SentDelete DEF DeleteConcert
<1>6. ASSUME NEW r \in Edit, NEW n \in Note, DeleteNote(r, n)
      PROVE  SentInv'
  BY <1>6, SentDelete DEF DeleteNote
<1>7. ASSUME NEW r \in Edit, InsertConcert(r)
      PROVE  SentInv'
  <2>1. edit[r].concert \in used
    BY <1>7 DEF InsertConcert, SentInv, Sending, Saving
  <2>2. concerts' \subseteq used /\ torn' \subseteq Concert
    BY <1>1, <1>7, <2>1 DEF InsertConcert, ConcertTypeOK, history
  <2>3. edit[r].pc \in Saving /\ \E pc \in Saving : GoOn(r, pc)
    BY <1>7 DEF InsertConcert, Saving
  <2> QED BY <1>7, <2>2, <2>3, SentGoesOn DEF InsertConcert, history
<1>8. ASSUME NEW r \in Edit, UpdateFields(r) \/ ClearProgram(r)
      PROVE  SentInv'
  <2>1. concerts' \subseteq used /\ torn' \subseteq Concert
    BY <1>1, <1>8 DEF UpdateFields, ClearProgram, ConcertTypeOK, history
  <2>2. edit[r].pc \in Saving /\ \E pc \in Saving : GoOn(r, pc)
    BY <1>8 DEF UpdateFields, ClearProgram, Saving
  <2> QED BY <1>8, <2>1, <2>2, SentGoesOn DEF UpdateFields, ClearProgram, history
<1>9. ASSUME NEW r \in Edit, FillNext(r)
      PROVE  SentInv'
  BY <1>9, SentFill
<1>10. ASSUME NEW r \in Edit, Filled(r) \/ DropConcert(r) \/ DropNote(r) \/ EditFails(r)
       PROVE  SentInv'
  <2>1. concerts' \subseteq used /\ notes' \subseteq notes /\ torn' \subseteq Concert
    BY <1>1, <1>10 DEF Filled, DropConcert, DropNote, EditFails, ConcertTypeOK, history
  <2> QED BY <1>10, <2>1, SentGoesOn DEF Filled, DropConcert, DropNote, EditFails, history
<1>11. ASSUME NEW r \in Edit, ClearRows(r) \/ UnlinkNote(r)
       PROVE  SentInv'
  <2>1. concerts' \subseteq used /\ torn' \subseteq Concert /\ rows' \subseteq rows
    BY <1>1, <1>11 DEF ClearRows, UnlinkNote, ConcertTypeOK, history
  <2>2. \E pc \in {"unlink", "dropNote"} \union Deleting : GoOn(r, pc)
    BY <1>11 DEF ClearRows, UnlinkNote, Deleting
  <2> QED BY <1>11, <2>1, <2>2, SentGoesOn DEF ClearRows, UnlinkNote, history
<1> QED BY <1>2, <1>3, <1>4, <1>5, <1>6, <1>7, <1>8, <1>9, <1>10, <1>11
        DEF ConcertNext, Arrive, Step

\* concertService.go:152-174, noteService.go:279-300, statement by statement and with
\* failures at any of them: however requests interleave, every row of a program stands
\* at the place where a request that was accepted for that concert put its note.
THEOREM ConcertRowsWereSent ==
    ASSUME ConcertConstants
    PROVE  ConcertSpec => [](ConcertTypeOK /\ EveryRowWasSent)
<1>1. ConcertInit => SentInv
  BY SentInit
<1>2. SentInv /\ [ConcertNext]_concertVars => SentInv'
  BY SentStep
<1>3. SentInv => ConcertTypeOK /\ EveryRowWasSent
  BY DEF SentInv
<1> QED BY <1>1, <1>2, <1>3, PTL DEF ConcertSpec

-----------------------------------------------------------------------------
(* A save that nothing disturbs is stored as it was sent.                  *)

\* AtRest of the only request there is.
RestOf(r) ==
    \A c \in Clean \intersect concerts : ~ Works(r, c) =>
      \A i \in 1 .. MaxProgram, n \in Note :
        <<c, i, n>> \in rows <=> Sent(c, i, n) /\ n \in notes /\ Leaves(r, n)

\* A concert that was not raced is in the hands of one request at most.
LEMMA Sole ==
    ASSUME ConcertTypeOK, StoredInv, NEW r \in Edit, Active(r), ~ used \subseteq raced
    PROVE  /\ \A s \in Edit : s # r => edit[s].pc = "idle"
           /\ RestOf(r) /\ SaveOf(r) /\ FillOf(r) /\ DropOf(r)
<1>1. \A s \in Edit : s # r => edit[s].pc = "idle"
  BY DEF StoredInv, Overlapped, Active
<1>2. ASSUME NEW s \in Edit, s # r
      PROVE  (\A c \in Concert : ~ Works(s, c)) /\ \A n \in Note : Leaves(s, n)
  BY <1>1, <1>2 DEF Works, Leaves, Saving
<1>3. RestOf(r)
  BY <1>2 DEF StoredInv, AtRest, RestOf, ConcertTypeOK
<1> QED BY <1>1, <1>3 DEF StoredInv, EditsUnderway

\* Nothing is claimed of raced concerts.
LEMMA StoredRaced ==
    ASSUME used' \subseteq raced', Directed', Referring', Injective'
    PROVE  StoredInv'
<1>1. Clean' = {} /\ Overlapped'
  BY DEF Clean, Overlapped
<1>2. AtRest'
  BY <1>1 DEF AtRest
<1>3. EditsUnderway'
  BY <1>1 DEF EditsUnderway, SaveOf, FillOf, DropOf
<1> QED BY <1>1, <1>2, <1>3 DEF StoredInv

\* The only request there is decides.
LEMMA StoredSole ==
    ASSUME NEW r \in Edit, \A s \in Edit : s # r => edit'[s].pc = "idle",
           Directed', Referring', Injective',
           RestOf(r)', SaveOf(r)', FillOf(r)', DropOf(r)'
    PROVE  StoredInv'
<1>1. ASSUME NEW s \in Edit, s # r
      PROVE  /\ \A c : ~ Works(s, c)' /\ \A n : Leaves(s, n)'
             /\ SaveOf(s)' /\ FillOf(s)' /\ DropOf(s)'
  BY <1>1 DEF Works, Leaves, SaveOf, FillOf, DropOf, Saving
<1>2. Overlapped'
  BY DEF Overlapped, Active
<1>3. AtRest'
  <2> SUFFICES ASSUME NEW c \in (Clean \intersect concerts)',
                      \A s \in Edit : ~ Works(s, c)',
                      NEW i \in 1 .. MaxProgram, NEW n \in Note
               PROVE  <<c, i, n>> \in rows' <=>
                        /\ Sent(c, i, n)' /\ n \in notes'
                        /\ \A s \in Edit : Leaves(s, n)'
    BY DEF AtRest
  <2>1. (\A s \in Edit : Leaves(s, n)') <=> Leaves(r, n)'
    BY <1>1
  <2>2. ~ Works(r, c)'
    OBVIOUS
  <2> QED BY <2>1, <2>2 DEF RestOf
<1>4. EditsUnderway'
  BY <1>1 DEF EditsUnderway
<1> QED BY <1>2, <1>3, <1>4 DEF StoredInv

LEMMA StoredInit ==
    ASSUME ConcertConstants, ConcertInit
    PROVE  StoredInv
<1>1. \A r \in Edit : edit[r].pc = "idle"
  BY DEF ConcertInit, Blank, Local
<1>2. Clean = {}
  BY DEF ConcertInit, Clean
<1>3. Directed /\ Overlapped /\ AtRest /\ EditsUnderway
  BY <1>1, <1>2 DEF Directed, Overlapped, Active, AtRest, EditsUnderway, SaveOf, FillOf,
     DropOf, Saving, Deleting
<1>4. Referring /\ Injective
  BY DEF ConcertInit, Referring, Injective, Distinct
<1> QED BY <1>3, <1>4 DEF StoredInv

\* An accepted program has no note twice.
LEMMA OnceEach ==
    ASSUME ConcertConstants, NEW p, NEW program \in Lists, FirstOccurrences(p, program)
    PROVE  Distinct(program)
<1>1. program \in Seq(Note)
  BY ListsAreShort
<1>2. DOMAIN program = 1 .. Len(program) /\ Len(program) \in Nat
  BY <1>1
<1> SUFFICES ASSUME NEW i \in DOMAIN program, NEW j \in DOMAIN program,
                    program[i] = program[j], i # j
             PROVE  FALSE
  BY DEF Distinct
<1>3. i < j \/ j < i
  BY <1>2
<1> QED BY <1>3 DEF FirstOccurrences

\* The arrival of a save.
LEMMA StoredAccept ==
    ASSUME ConcertConstants, ConcertTypeOK, StoredInv,
           NEW r \in Edit, NEW c \in Concert, NEW pc \in {"insert", "update"}, NEW p,
           Accept(r, c, pc, p), used' = used \union {c},
           pc = "update" => c \in concerts
    PROVE  StoredInv'
<1>1. PICK program \in Lists :
             /\ FirstOccurrences(p, program)
             /\ edit[r].pc = "idle"
             /\ ToSet(p) \subseteq notes
             /\ latest' \in [Concert -> Lists]
             /\ latest'[c] = program
             /\ \A d \in Concert : d # c => latest'[d] = latest[d]
             /\ edit' \in [Edit -> Request]
             /\ edit'[r].pc = pc /\ edit'[r].concert = c /\ edit'[r].note = NoNote
             /\ edit'[r].todo = program /\ edit'[r].place = 1
             /\ \A s \in Edit : s # r => edit'[s] = edit[s]
  BY SaveAccepted
<1>2. /\ UNCHANGED <<notes, concerts, rows>> /\ torn' = torn \ {c}
      /\ raced' = IF Quiet THEN raced \ {c} ELSE used'
  BY DEF Accept
<1>3. Directed'
  BY <1>1 DEF StoredInv, Directed, Deleting
<1>4. Referring'
  BY <1>2 DEF StoredInv, Referring
<1>5. Injective'
  <2>1. Distinct(program)
    BY <1>1, OnceEach
  <2> QED BY <1>1, <2>1 DEF StoredInv, Injective, Distinct
<1>6. CASE ~ Quiet
  BY <1>2, <1>3, <1>4, <1>5, <1>6, StoredRaced
<1>7. CASE Quiet
  <2>1. \A s \in Edit : s # r => edit'[s].pc = "idle"
    BY <1>1, <1>7 DEF Quiet
  <2>2. RestOf(r)'
    <3> SUFFICES ASSUME NEW d \in (Clean \intersect concerts)', ~ Works(r, d)',
                        NEW i \in 1 .. MaxProgram, NEW n \in Note
                 PROVE  <<d, i, n>> \in rows' <=>
                          Sent(d, i, n)' /\ n \in notes' /\ Leaves(r, n)'
      BY DEF RestOf
    <3>1. d # c
      BY <1>1 DEF Works, Saving
    <3>2. d \in Clean \intersect concerts /\ d \in Concert
      BY <1>2, <1>7, <3>1 DEF Clean, ConcertTypeOK
    <3>3. \A s \in Edit : ~ Works(s, d) /\ Leaves(s, n)
      BY <1>7 DEF Quiet, Works, Leaves, Saving
    <3>4. <<d, i, n>> \in rows <=> Sent(d, i, n) /\ n \in notes
      BY <3>2, <3>3 DEF StoredInv, AtRest
    <3>5. latest'[d] = latest[d]
      BY <1>1, <3>1, <3>2
    <3> QED BY <1>1, <1>2, <3>4, <3>5 DEF Sent, Leaves
  <2>3. SaveOf(r)'
    <3>1. ToSet(program) = ToSet(p)
      BY <1>1 DEF FirstOccurrences
    <3>2. Rest(program, 1, program)
      BY RestBegins
    <3> QED BY <1>1, <1>2, <3>1, <3>2 DEF SaveOf, Rest
  <2>4. FillOf(r)' /\ DropOf(r)'
    BY <1>1 DEF FillOf, DropOf
  <2> QED BY <1>3, <1>4, <1>5, <2>1, <2>2, <2>3, <2>4, StoredSole
<1> QED BY <1>6, <1>7

\* The arrival of a deletion.
LEMMA StoredDelete ==
    ASSUME ConcertConstants, ConcertTypeOK, StoredInv, NEW r \in Edit,
           NEW pc \in {"clearRows", "unlink"},
           NEW c \in Concert \union {NoConcert}, NEW n \in Note \union {NoNote},
           pc = "clearRows" => c \in concerts,
           pc = "unlink" => n \in Note,
           edit' = [edit EXCEPT ![r] = Local(pc, c, n, <<>>)],
           raced' = IF Quiet THEN raced ELSE used,
           UNCHANGED <<notes, concerts, used, rows, latest, sent, torn>>
    PROVE  StoredInv'
<1>1. pc \notin Saving
  BY DEF Saving
<1>2. /\ Local(pc, c, n, <<>>).pc = pc /\ Local(pc, c, n, <<>>).concert = c
      /\ Local(pc, c, n, <<>>).note = n
  BY DEF Local
<1>3. /\ edit'[r].pc = pc /\ edit'[r].concert = c /\ edit'[r].note = n
      /\ \A s \in Edit : s # r => edit'[s] = edit[s]
  BY <1>2 DEF ConcertTypeOK
<1>4. Directed'
  BY <1>3 DEF StoredInv, Directed, Deleting, ConcertTypeOK
<1>5. Referring' /\ Injective'
  BY DEF StoredInv, Referring, Injective
<1>6. CASE ~ Quiet
  BY <1>4, <1>5, <1>6, StoredRaced
<1>7. CASE Quiet
  <2>1. \A s \in Edit : s # r => edit'[s].pc = "idle"
    BY <1>3, <1>7 DEF Quiet
  <2>2. \A s \in Edit, d \in Concert, m \in Note : ~ Works(s, d) /\ Leaves(s, m)
    BY <1>7 DEF Quiet, Works, Leaves, Saving
  <2>3. RestOf(r)'
    <3>1. Clean' = Clean /\ Clean \subseteq Concert
      BY <1>7 DEF Clean, ConcertTypeOK
    <3>2. \A d \in Clean \intersect concerts, i \in 1 .. MaxProgram, m \in Note :
            <<d, i, m>> \in rows <=> Sent(d, i, m) /\ m \in notes
      BY <2>2, <3>1 DEF StoredInv, AtRest
    <3> QED BY <1>3, <3>1, <3>2 DEF RestOf, Sent, Leaves
  <2>4. SaveOf(r)' /\ FillOf(r)' /\ DropOf(r)'
    BY <1>3 DEF SaveOf, FillOf, DropOf, Saving
  <2> QED BY <1>4, <1>5, <2>1, <2>3, <2>4, StoredSole
<1> QED BY <1>6, <1>7

\* A request goes on: what is claimed of it, and of the concerts it does not work on,
\* has to be shown only when it is alone.
LEMMA StoredOn ==
    ASSUME ConcertTypeOK, StoredInv, NEW r \in Edit, Active(r), UNCHANGED <<used, latest, raced>>,
           \A s \in Edit : s # r => edit'[s] = edit[s],
           Directed', Referring',
           RestOf(r) /\ SaveOf(r) /\ FillOf(r) /\ DropOf(r) /\ ~ used \subseteq raced =>
             RestOf(r)' /\ SaveOf(r)' /\ FillOf(r)' /\ DropOf(r)'
    PROVE  StoredInv'
<1>1. Injective'
  BY DEF StoredInv, Injective
<1>2. CASE used \subseteq raced
  BY <1>1, <1>2, StoredRaced
<1>3. CASE ~ used \subseteq raced
  <2>1. /\ \A s \in Edit : s # r => edit[s].pc = "idle"
        /\ RestOf(r) /\ SaveOf(r) /\ FillOf(r) /\ DropOf(r)
    BY <1>3, Sole
  <2>2. \A s \in Edit : s # r => edit'[s].pc = "idle"
    BY <2>1
  <2> QED BY <1>1, <1>3, <2>1, <2>2, StoredSole
<1> QED BY <1>2, <1>3

\* Only the deletions have to know whom they delete.
LEMMA DirectedKept ==
    ASSUME StoredInv, NEW r \in Edit, UNCHANGED used,
           \A s \in Edit : s # r => edit'[s] = edit[s],
           \/ edit'[r].pc \in {"idle"} \union Saving
           \/ /\ edit'[r].concert = edit[r].concert /\ edit'[r].note = edit[r].note
              /\ \/ edit[r].pc = "clearRows" /\ edit'[r].pc = "dropConcert"
                 \/ edit[r].pc = "unlink" /\ edit'[r].pc = "dropNote"
    PROVE  Directed'
<1>1. Directed
  BY DEF StoredInv
<1> QED BY <1>1 DEF Directed, Deleting, Saving

\* A request that ends after it has worked on a clean concert leaves it in order.
LEMMA StoredEnd ==
    ASSUME ConcertConstants, ConcertTypeOK, StoredInv, NEW r \in Edit, Active(r), EndEdit(r),
           UNCHANGED <<notes, used, rows, latest, raced>>, concerts' \subseteq concerts,
           torn \subseteq torn', Referring',
           SaveOf(r) /\ FillOf(r) /\ DropOf(r) /\ ~ used \subseteq raced =>
             \A c \in (Clean \intersect concerts)' :
               /\ Works(r, c) =>
                    \A i \in 1 .. MaxProgram, n \in Note :
                      <<c, i, n>> \in rows <=> Sent(c, i, n) /\ n \in notes
               /\ \A i \in 1 .. MaxProgram, n \in Note : Sent(c, i, n) => Leaves(r, n)
    PROVE  StoredInv'
<1>1. edit'[r].pc = "idle" /\ \A s \in Edit : s # r => edit'[s] = edit[s]
  BY EditEnded
<1>2. Directed'
  BY <1>1, DirectedKept
<1>3. ASSUME RestOf(r), SaveOf(r), FillOf(r), DropOf(r), ~ used \subseteq raced
      PROVE  RestOf(r)' /\ SaveOf(r)' /\ FillOf(r)' /\ DropOf(r)'
  <2>1. RestOf(r)'
    <3> SUFFICES ASSUME NEW c \in (Clean \intersect concerts)',
                        NEW i \in 1 .. MaxProgram, NEW n \in Note
                 PROVE  <<c, i, n>> \in rows' <=>
                          Sent(c, i, n)' /\ n \in notes' /\ Leaves(r, n)'
      BY DEF RestOf
    <3>1. c \in Clean \intersect concerts
      BY DEF Clean
    <3>2. /\ Works(r, c) => (<<c, i, n>> \in rows <=> Sent(c, i, n) /\ n \in notes)
          /\ Sent(c, i, n) => Leaves(r, n)
      BY <1>3
    <3>3. ~ Works(r, c) =>
            (<<c, i, n>> \in rows <=> Sent(c, i, n) /\ n \in notes /\ Leaves(r, n))
      BY <1>3, <3>1 DEF RestOf
    <3>4. (Sent(c, i, n)' <=> Sent(c, i, n)) /\ Leaves(r, n)'
      BY <1>1 DEF Sent, Leaves
    <3> QED BY <3>2, <3>3, <3>4
  <2>2. SaveOf(r)' /\ FillOf(r)' /\ DropOf(r)'
    BY <1>1 DEF SaveOf, FillOf, DropOf, Saving
  <2> QED BY <2>1, <2>2
<1> QED BY <1>1, <1>2, <1>3, StoredOn

LEMMA StoredFail ==
    ASSUME ConcertConstants, ConcertTypeOK, StoredInv, NEW r \in Edit, EditFails(r)
    PROVE  StoredInv'
<1>1. /\ Active(r) /\ EndEdit(r) /\ UNCHANGED <<notes, concerts, used, rows, latest, sent, raced>>
      /\ torn' = torn \union {c \in Concert :
                               \/ c = edit[r].concert
                               \/ edit[r].note \in ToSet(latest[c])}
  BY DEF EditFails, Active
<1>2. Referring'
  BY <1>1 DEF StoredInv, Referring
<1>3. ASSUME NEW c \in (Clean \intersect concerts)'
      PROVE  /\ ~ Works(r, c)
             /\ \A i \in 1 .. MaxProgram, n \in Note : Sent(c, i, n) => Leaves(r, n)
  <2>1. c \in Concert /\ c # edit[r].concert /\ edit[r].note \notin ToSet(latest[c])
    BY <1>1 DEF Clean, ConcertTypeOK
  <2>2. ASSUME NEW i \in 1 .. MaxProgram, NEW n \in Note, Sent(c, i, n)
        PROVE  n # edit[r].note
    BY <2>1, <2>2 DEF Sent, ToSet
  <2> QED BY <2>1, <2>2 DEF Works, Leaves
<1> QED BY <1>1, <1>2, <1>3, StoredEnd

LEMMA StoredFilled ==
    ASSUME ConcertConstants, ConcertTypeOK, StoredInv, NEW r \in Edit, Filled(r)
    PROVE  StoredInv'
<1>1. /\ edit[r].pc = "fill" /\ edit[r].todo = <<>> /\ Active(r) /\ EndEdit(r)
      /\ UNCHANGED <<notes, concerts, used, rows, latest, sent, torn, raced>>
  BY DEF Filled, Active, history
<1>2. Referring'
  BY <1>1 DEF StoredInv, Referring
<1>3. ASSUME SaveOf(r), FillOf(r), NEW c \in (Clean \intersect concerts)', Works(r, c),
             NEW i \in 1 .. MaxProgram, NEW n \in Note
      PROVE  <<c, i, n>> \in rows <=> Sent(c, i, n) /\ n \in notes
  <2>1. c = edit[r].concert /\ c \in Clean /\ c \in Concert
    BY <1>1, <1>3 DEF Works, Clean, ConcertTypeOK
  <2>2. ToSet(latest[c]) \subseteq notes /\ Rest(latest[c], edit[r].place, <<>>)
    BY <1>1, <1>3, <2>1 DEF SaveOf, Saving
  <2>3. <<c, i, n>> \in rows <=> Sent(c, i, n) /\ i < edit[r].place
    BY <1>1, <1>3, <2>1 DEF FillOf
  <2>4. latest[c] \in Seq(Note)
    BY <2>1, ListsAreShort DEF ConcertTypeOK
  <2>5. Len(latest[c]) = edit[r].place - 1 /\ DOMAIN latest[c] = 1 .. Len(latest[c])
    BY <2>2, <2>4, SaveTyped DEF Rest
  <2>6. ASSUME Sent(c, i, n) PROVE i < edit[r].place /\ n \in notes
    <3>1. i \in 1 .. edit[r].place - 1 /\ n \in ToSet(latest[c])
      BY <2>5, <2>6 DEF Sent, ToSet
    <3> QED BY <2>2, <3>1, SaveTyped
  <2> QED BY <2>3, <2>6
<1>4. \A n \in Note : Leaves(r, n)
  BY <1>1 DEF Leaves
<1> QED BY <1>1, <1>2, <1>3, <1>4, StoredEnd

LEMMA StoredDropConcert ==
    ASSUME ConcertConstants, ConcertTypeOK, StoredInv, NEW r \in Edit, DropConcert(r)
    PROVE  StoredInv'
<1>1. /\ edit[r].pc = "dropConcert" /\ Active(r) /\ EndEdit(r)
      /\ UNCHANGED <<notes, used, rows, latest, sent, torn, raced>>
      /\ concerts' = IF RowsOf(edit[r].concert) = {}
                     THEN concerts \ {edit[r].concert} ELSE concerts
  BY DEF DropConcert, Active, history
<1>2. Referring'
  BY <1>1 DEF StoredInv, Referring, RowsOf
<1>3. ASSUME DropOf(r), NEW c \in (Clean \intersect concerts)'
      PROVE  ~ Works(r, c)
  BY <1>1, <1>3 DEF DropOf, Works, Clean
<1>4. \A n \in Note : Leaves(r, n)
  BY <1>1 DEF Leaves
<1>5. concerts' \subseteq concerts
  BY <1>1
<1> QED BY <1>1, <1>2, <1>3, <1>4, <1>5, StoredEnd

LEMMA StoredDropNote ==
    ASSUME ConcertConstants, ConcertTypeOK, StoredInv, NEW r \in Edit, DropNote(r)
    PROVE  StoredInv'
<1>1. /\ edit[r].pc = "dropNote" /\ Active(r) /\ EndEdit(r)
      /\ UNCHANGED <<concerts, used, rows, latest, sent, torn, raced>>
      /\ notes' = IF \E row \in rows : row[3] = edit[r].note
                  THEN notes ELSE notes \ {edit[r].note}
  BY DEF DropNote, Active, history
<1>2. edit'[r].pc = "idle" /\ \A s \in Edit : s # r => edit'[s] = edit[s]
  BY <1>1, EditEnded
<1>3. Directed'
  BY <1>1, <1>2, DirectedKept
<1>4. Referring'
  BY <1>1 DEF StoredInv, Referring
<1>5. ASSUME RestOf(r), DropOf(r), ~ used \subseteq raced
      PROVE  RestOf(r)' /\ SaveOf(r)' /\ FillOf(r)' /\ DropOf(r)'
  <2>1. notes' = notes \ {edit[r].note}
    BY <1>1, <1>5 DEF DropOf
  <2>2. RestOf(r)'
    <3> SUFFICES ASSUME NEW c \in (Clean \intersect concerts)',
                        NEW i \in 1 .. MaxProgram, NEW n \in Note
                 PROVE  <<c, i, n>> \in rows' <=>
                          Sent(c, i, n)' /\ n \in notes' /\ Leaves(r, n)'
      BY DEF RestOf
    <3>1. c \in Clean \intersect concerts /\ ~ Works(r, c)
      BY <1>1 DEF Clean, Works, Saving
    <3>2. <<c, i, n>> \in rows <=> Sent(c, i, n) /\ n \in notes /\ n # edit[r].note
      BY <1>1, <1>5, <3>1 DEF RestOf, Leaves
    <3>3. (Sent(c, i, n)' <=> Sent(c, i, n)) /\ Leaves(r, n)'
      BY <1>1, <1>2 DEF Sent, Leaves
    <3> QED BY <1>1, <2>1, <3>2, <3>3
  <2>3. SaveOf(r)' /\ FillOf(r)' /\ DropOf(r)'
    BY <1>2 DEF SaveOf, FillOf, DropOf, Saving
  <2> QED BY <2>2, <2>3
<1> QED BY <1>1, <1>2, <1>3, <1>4, <1>5, StoredOn

LEMMA StoredInsertConcert ==
    ASSUME ConcertConstants, ConcertTypeOK, StoredInv, NEW r \in Edit,
           InsertConcert(r) \/ UpdateFields(r)
    PROVE  StoredInv'
<1>1. /\ edit[r].pc \in {"insert", "update"} /\ Active(r) /\ GoOn(r, "clear")
      /\ UNCHANGED <<notes, used, rows, latest, sent, torn, raced>>
      /\ \/ concerts' = concerts \union {edit[r].concert}
         \/ concerts' = concerts /\ edit[r].pc = "update"
  BY DEF InsertConcert, UpdateFields, Active, history
<1>2. /\ edit'[r].pc = "clear" /\ edit'[r].concert = edit[r].concert
      /\ edit'[r].todo = edit[r].todo /\ edit'[r].place = edit[r].place
      /\ \A s \in Edit : s # r => edit'[s] = edit[s]
  BY <1>1, Gone DEF Saving
<1>3. Directed'
  BY <1>1, <1>2, DirectedKept DEF Saving
<1>4. Referring'
  BY <1>1 DEF StoredInv, Referring
<1>5. ASSUME RestOf(r), SaveOf(r)
      PROVE  RestOf(r)' /\ SaveOf(r)' /\ FillOf(r)' /\ DropOf(r)'
  <2>1. RestOf(r)'
    <3> SUFFICES ASSUME NEW c \in (Clean \intersect concerts)', ~ Works(r, c)',
                        NEW i \in 1 .. MaxProgram, NEW n \in Note
                 PROVE  <<c, i, n>> \in rows' <=>
                          Sent(c, i, n)' /\ n \in notes' /\ Leaves(r, n)'
      BY DEF RestOf
    <3>1. c \in Clean \intersect concerts /\ ~ Works(r, c)
      BY <1>1, <1>2 DEF Clean, Works, Saving
    <3>2. <<c, i, n>> \in rows <=> Sent(c, i, n) /\ n \in notes /\ Leaves(r, n)
      BY <1>5, <3>1 DEF RestOf
    <3> QED BY <1>1, <1>2, <3>2 DEF Sent, Leaves
  <2>2. SaveOf(r)'
    <3> SUFFICES ASSUME edit[r].concert \in Clean
                 PROVE  /\ ToSet(latest[edit[r].concert]) \subseteq notes
                        /\ Rest(latest[edit[r].concert], edit[r].place, edit[r].todo)
                        /\ edit[r].concert \in concerts'
                        /\ edit[r].place = 1
      BY <1>1, <1>2 DEF SaveOf, Rest, Clean, ToSet
    <3> QED BY <1>1, <1>5 DEF SaveOf, Saving
  <2>3. FillOf(r)' /\ DropOf(r)'
    BY <1>2 DEF FillOf, DropOf
  <2> QED BY <2>1, <2>2, <2>3
<1> QED BY <1>1, <1>2, <1>3, <1>4, <1>5, StoredOn

LEMMA StoredClear ==
    ASSUME ConcertConstants, ConcertTypeOK, StoredInv, NEW r \in Edit,
           ClearProgram(r) \/ ClearRows(r)
    PROVE  StoredInv'
<1>1. /\ Active(r) /\ rows' = rows \ RowsOf(edit[r].concert)
      /\ UNCHANGED <<notes, concerts, used, latest, sent, torn, raced>>
      /\ \/ edit[r].pc = "clear" /\ GoOn(r, "fill")
         \/ edit[r].pc = "clearRows" /\ GoOn(r, "dropConcert")
  BY DEF ClearProgram, ClearRows, Active, history
<1>2. /\ \/ edit[r].pc = "clear" /\ edit'[r].pc = "fill"
         \/ edit[r].pc = "clearRows" /\ edit'[r].pc = "dropConcert"
      /\ edit'[r].concert = edit[r].concert /\ edit'[r].note = edit[r].note
      /\ edit'[r].todo = edit[r].todo /\ edit'[r].place = edit[r].place
      /\ \A s \in Edit : s # r => edit'[s] = edit[s]
  <2>1. /\ "fill" \in {"idle", "unlink", "dropNote"} \union Saving \union Deleting
        /\ "dropConcert" \in {"idle", "unlink", "dropNote"} \union Saving \union Deleting
    BY DEF Saving, Deleting
  <2>2. CASE edit[r].pc = "clear" /\ GoOn(r, "fill")
    BY <2>1, <2>2, Gone
  <2>3. CASE edit[r].pc = "clearRows" /\ GoOn(r, "dropConcert")
    BY <2>1, <2>3, Gone
  <2> QED BY <1>1, <2>2, <2>3
<1>3. Directed'
  BY <1>1, <1>2, DirectedKept DEF Saving
<1>4. Referring'
  BY <1>1 DEF StoredInv, Referring
<1>5. ASSUME RestOf(r), SaveOf(r)
      PROVE  RestOf(r)' /\ SaveOf(r)' /\ FillOf(r)' /\ DropOf(r)'
  <2>1. RestOf(r)'
    <3> SUFFICES ASSUME NEW c \in (Clean \intersect concerts)', ~ Works(r, c)',
                        NEW i \in 1 .. MaxProgram, NEW n \in Note
                 PROVE  <<c, i, n>> \in rows' <=>
                          Sent(c, i, n)' /\ n \in notes' /\ Leaves(r, n)'
      BY DEF RestOf
    <3>1. c \in Clean \intersect concerts /\ ~ Works(r, c) /\ c # edit[r].concert
      BY <1>1, <1>2 DEF Clean, Works, Saving
    <3>2. <<c, i, n>> \in rows <=> Sent(c, i, n) /\ n \in notes /\ Leaves(r, n)
      BY <1>5, <3>1 DEF RestOf
    <3>3. <<c, i, n>> \in rows' <=> <<c, i, n>> \in rows
      BY <1>1, <3>1 DEF RowsOf
    <3>4. Leaves(r, n) /\ Leaves(r, n)'
      BY <1>2 DEF Leaves
    <3> QED BY <1>1, <3>2, <3>3, <3>4 DEF Sent
  <2>2. SaveOf(r)'
    <3> SUFFICES ASSUME edit[r].pc = "clear", edit[r].concert \in Clean
                 PROVE  /\ ToSet(latest[edit[r].concert]) \subseteq notes
                        /\ Rest(latest[edit[r].concert], edit[r].place, edit[r].todo)
                        /\ edit[r].concert \in concerts
      BY <1>1, <1>2 DEF SaveOf, Rest, Clean, ToSet, Saving
    <3> QED BY <1>5 DEF SaveOf, Saving
  <2>3. FillOf(r)'
    <3> SUFFICES ASSUME edit[r].pc = "clear", edit[r].concert \in Clean,
                        NEW i \in 1 .. MaxProgram, NEW n \in Note
                 PROVE  <<edit[r].concert, i, n>> \in rows' <=>
                          Sent(edit[r].concert, i, n) /\ i < edit[r].place
      BY <1>1, <1>2 DEF FillOf, Clean, Sent
    <3>1. edit[r].place = 1
      BY <1>5 DEF SaveOf, Saving
    <3>2. <<edit[r].concert, i, n>> \notin rows'
      BY <1>1 DEF RowsOf
    <3> QED BY <3>1, <3>2
  <2>4. DropOf(r)'
    <3>1. RowsOf(edit[r].concert)' = {}
      BY <1>1, <1>2 DEF RowsOf
    <3> QED BY <1>2, <3>1 DEF DropOf, RowsOf
  <2> QED BY <2>1, <2>2, <2>3, <2>4
<1> QED BY <1>1, <1>2, <1>3, <1>4, <1>5, StoredOn

LEMMA StoredUnlink ==
    ASSUME ConcertConstants, ConcertTypeOK, StoredInv, NEW r \in Edit, UnlinkNote(r)
    PROVE  StoredInv'
<1>1. /\ edit[r].pc = "unlink" /\ Active(r) /\ GoOn(r, "dropNote")
      /\ rows' = {row \in rows : row[3] # edit[r].note}
      /\ UNCHANGED <<notes, concerts, used, latest, sent, torn, raced>>
  BY DEF UnlinkNote, Active, history
<1>2. /\ edit'[r].pc = "dropNote"
      /\ edit'[r].concert = edit[r].concert /\ edit'[r].note = edit[r].note
      /\ \A s \in Edit : s # r => edit'[s] = edit[s]
  BY <1>1, Gone
<1>3. Directed'
  BY <1>1, <1>2, DirectedKept
<1>4. Referring'
  BY <1>1 DEF StoredInv, Referring
<1>5. ASSUME RestOf(r)
      PROVE  RestOf(r)' /\ SaveOf(r)' /\ FillOf(r)' /\ DropOf(r)'
  <2>1. RestOf(r)'
    <3> SUFFICES ASSUME NEW c \in (Clean \intersect concerts)',
                        NEW i \in 1 .. MaxProgram, NEW n \in Note
                 PROVE  <<c, i, n>> \in rows' <=>
                          Sent(c, i, n)' /\ n \in notes' /\ Leaves(r, n)'
      BY DEF RestOf
    <3>1. c \in Clean \intersect concerts /\ ~ Works(r, c)
      BY <1>1 DEF Clean, Works, Saving
    <3>2. <<c, i, n>> \in rows <=> Sent(c, i, n) /\ n \in notes
      BY <1>1, <1>5, <3>1 DEF RestOf, Leaves
    <3>3. <<c, i, n>> \in rows' <=> <<c, i, n>> \in rows /\ n # edit[r].note
      BY <1>1
    <3> QED BY <1>1, <1>2, <3>2, <3>3 DEF Sent, Leaves
  <2>2. SaveOf(r)' /\ FillOf(r)'
    BY <1>2 DEF SaveOf, FillOf, Saving
  <2>3. DropOf(r)'
    BY <1>1, <1>2 DEF DropOf
  <2> QED BY <2>1, <2>2, <2>3
<1> QED BY <1>1, <1>2, <1>3, <1>4, <1>5, StoredOn

\* One insert into a clean concert succeeds, and adds the next note of its program.
LEMMA StoredFill ==
    ASSUME ConcertConstants, ConcertTypeOK, StoredInv, NEW r \in Edit, FillNext(r)
    PROVE  StoredInv'
<1> DEFINE row == <<edit[r].concert, edit[r].place, Head(edit[r].todo)>>
<1>1. /\ edit[r].pc = "fill" /\ edit[r].todo # <<>> /\ Active(r)
      /\ UNCHANGED <<notes, concerts, used, latest, sent, torn, raced>>
      /\ ~ Insertable(row) => EndEdit(r) /\ UNCHANGED rows
  BY DEF FillNext, Active, history
<1>2. /\ edit[r].todo \in Lists /\ edit[r].place \in 1 .. MaxProgram + 1
  BY SaveTyped
<1>3. Head(edit[r].todo) \in Note /\ Tail(edit[r].todo) \in Lists
  BY <1>1, <1>2, TailOfList
<1>4. ASSUME SaveOf(r), FillOf(r), edit[r].concert \in Clean
      PROVE  /\ edit[r].place \in DOMAIN latest[edit[r].concert]
             /\ edit[r].place \in 1 .. MaxProgram
             /\ latest[edit[r].concert][edit[r].place] = Head(edit[r].todo)
             /\ Rest(latest[edit[r].concert], edit[r].place + 1, Tail(edit[r].todo))
             /\ Insertable(row)
  <2>1. edit[r].concert \in Concert /\ latest[edit[r].concert] \in Lists
    BY <1>4 DEF ConcertTypeOK, Clean
  <2>2. /\ ToSet(latest[edit[r].concert]) \subseteq notes
        /\ Rest(latest[edit[r].concert], edit[r].place, edit[r].todo)
        /\ edit[r].concert \in concerts
    BY <1>1, <1>4 DEF SaveOf, Saving
  <2>3. /\ edit[r].place \in DOMAIN latest[edit[r].concert]
        /\ edit[r].place \in 1 .. MaxProgram
        /\ latest[edit[r].concert][edit[r].place] = Head(edit[r].todo)
        /\ Rest(latest[edit[r].concert], edit[r].place + 1, Tail(edit[r].todo))
    BY <1>1, <1>2, <2>1, <2>2, RestAdvances
  <2>4. Head(edit[r].todo) \in notes
    BY <2>2, <2>3 DEF ToSet
  <2>5. ASSUME NEW other \in RowsOf(edit[r].concert)
        PROVE  edit[r].place # other[2] /\ Head(edit[r].todo) # other[3]
    <3>1. /\ other \in rows /\ other[2] \in 1 .. MaxProgram /\ other[3] \in Note
          /\ other = <<edit[r].concert, other[2], other[3]>>
      BY DEF RowsOf, ConcertTypeOK
    <3>2. <<edit[r].concert, other[2], other[3]>> \in rows
      BY <3>1
    <3>3. Sent(edit[r].concert, other[2], other[3]) /\ other[2] < edit[r].place
      BY <1>1, <1>4, <3>1, <3>2 DEF FillOf
    <3>4. Distinct(latest[edit[r].concert])
      BY <2>1 DEF StoredInv, Injective
    <3>5. other[2] # edit[r].place
      BY <1>2, <3>1, <3>3
    <3> QED BY <2>3, <3>3, <3>4, <3>5 DEF Sent, Distinct
  <2>6. Insertable(row)
    BY <2>2, <2>4, <2>5 DEF Insertable
  <2> QED BY <2>3, <2>6
<1>5. CASE EndEdit(r) /\ UNCHANGED rows /\ ~ Insertable(row)
  <2>1. Referring'
    BY <1>1, <1>5 DEF StoredInv, Referring
  <2>2. ASSUME SaveOf(r), FillOf(r), NEW c \in (Clean \intersect concerts)'
        PROVE  ~ Works(r, c) /\ \A n \in Note : Leaves(r, n)
    BY <1>1, <1>4, <1>5, <2>2 DEF Works, Clean, Leaves
  <2> QED BY <1>1, <1>5, <2>1, <2>2, StoredEnd
<1>6. CASE /\ Insertable(row)
           /\ rows' = rows \union {row}
           /\ edit'[r].pc = "fill" /\ edit'[r].concert = edit[r].concert
           /\ edit'[r].note = edit[r].note
           /\ edit'[r].todo = Tail(edit[r].todo) /\ edit'[r].place = edit[r].place + 1
           /\ \A s \in Edit : s # r => edit'[s] = edit[s]
  <2>1. Directed'
    BY <1>1, <1>6, DirectedKept DEF Saving
  <2>2. Referring'
    BY <1>1, <1>6 DEF StoredInv, Referring, Insertable
  <2>3. ASSUME RestOf(r), SaveOf(r), FillOf(r)
        PROVE  RestOf(r)' /\ SaveOf(r)' /\ FillOf(r)' /\ DropOf(r)'
    <3>1. RestOf(r)'
      <4> SUFFICES ASSUME NEW c \in (Clean \intersect concerts)', ~ Works(r, c)',
                          NEW i \in 1 .. MaxProgram, NEW n \in Note
                   PROVE  <<c, i, n>> \in rows' <=>
                            Sent(c, i, n)' /\ n \in notes' /\ Leaves(r, n)'
        BY DEF RestOf
      <4>1. c \in Clean \intersect concerts /\ ~ Works(r, c) /\ c # edit[r].concert
        BY <1>1, <1>6 DEF Clean, Works, Saving
      <4>2. <<c, i, n>> \in rows <=> Sent(c, i, n) /\ n \in notes /\ Leaves(r, n)
        BY <2>3, <4>1 DEF RestOf
      <4>3. <<c, i, n>> \in rows' <=> <<c, i, n>> \in rows
        BY <1>6, <4>1
      <4>4. Leaves(r, n) /\ Leaves(r, n)'
        BY <1>1, <1>6 DEF Leaves
      <4> QED BY <1>1, <4>2, <4>3, <4>4 DEF Sent
    <3>2. SaveOf(r)'
      <4> SUFFICES ASSUME edit[r].concert \in Clean
                   PROVE  /\ ToSet(latest[edit[r].concert]) \subseteq notes
                          /\ Rest(latest[edit[r].concert], edit[r].place + 1,
                                  Tail(edit[r].todo))
                          /\ edit[r].concert \in concerts
        BY <1>1, <1>6 DEF SaveOf, Rest, Clean, ToSet, Saving
      <4> QED BY <1>1, <1>4, <2>3 DEF SaveOf, Saving
    <3>3. FillOf(r)'
      <4> SUFFICES ASSUME edit[r].concert \in Clean,
                          NEW i \in 1 .. MaxProgram, NEW n \in Note
                   PROVE  <<edit[r].concert, i, n>> \in rows' <=>
                            Sent(edit[r].concert, i, n) /\ i < edit[r].place + 1
        BY <1>1, <1>6 DEF FillOf, Clean, Sent
      <4>1. <<edit[r].concert, i, n>> \in rows <=>
              Sent(edit[r].concert, i, n) /\ i < edit[r].place
        BY <1>1, <2>3 DEF FillOf
      <4>2. <<edit[r].concert, i, n>> = row <=> i = edit[r].place /\ n = Head(edit[r].todo)
        OBVIOUS
      <4>3. /\ edit[r].place \in DOMAIN latest[edit[r].concert]
            /\ latest[edit[r].concert][edit[r].place] = Head(edit[r].todo)
        BY <1>4, <2>3
      <4>4. i = edit[r].place =>
              (Sent(edit[r].concert, i, n) <=> n = Head(edit[r].todo))
        BY <4>3 DEF Sent
      <4>5. i < edit[r].place + 1 <=> i < edit[r].place \/ i = edit[r].place
        BY <1>2
      <4>6. <<edit[r].concert, i, n>> \in rows' <=>
              \/ <<edit[r].concert, i, n>> \in rows
              \/ <<edit[r].concert, i, n>> = row
        BY <1>6
      <4> HIDE DEF row
      <4>7. CASE i = edit[r].place
        BY <4>1, <4>2, <4>4, <4>5, <4>6, <4>7
      <4>8. CASE i # edit[r].place
        BY <4>1, <4>2, <4>5, <4>6, <4>8
      <4> QED BY <4>7, <4>8
    <3>4. DropOf(r)'
      BY <1>6 DEF DropOf
    <3> QED BY <3>1, <3>2, <3>3, <3>4
  <2> QED BY <1>1, <1>6, <2>1, <2>2, <2>3, StoredOn
<1> QED BY <1>5, <1>6, FillGoesOn

LEMMA ProgramsStep ==
    ASSUME ConcertConstants, ConcertTypeOK, StoredInv, [ConcertNext]_concertVars
    PROVE  StoredInv'
<1>1. CASE UNCHANGED concertVars
  <2>1. UNCHANGED <<notes, concerts, used, rows, edit, latest, torn, raced>>
    BY <1>1 DEF concertVars
  <2>2. Directed' /\ Overlapped' /\ Referring' /\ Injective'
    BY <2>1 DEF StoredInv, Directed, Overlapped, Active, Referring, Injective, Distinct
  <2>3. AtRest'
    BY <2>1 DEF StoredInv, AtRest, Clean, Sent, Leaves, Works
  <2>4. EditsUnderway'
    BY <2>1 DEF StoredInv, EditsUnderway, SaveOf, FillOf, DropOf, Clean, Sent, Rest, RowsOf, ToSet
  <2> QED BY <2>2, <2>3, <2>4 DEF StoredInv
<1>2. ASSUME NEW r \in Edit, NEW c \in Concert, NEW p \in Lists, CreateConcert(r, c, p)
      PROVE  StoredInv'
  BY <1>2, StoredAccept DEF CreateConcert
<1>3. ASSUME NEW r \in Edit, NEW c \in Concert, NEW p \in Lists, UpdateConcert(r, c, p)
      PROVE  StoredInv'
  <2>1. used' = used \union {c} /\ c \in concerts
    BY <1>3 DEF UpdateConcert, ConcertTypeOK
  <2> QED BY <1>3, <2>1, StoredAccept DEF UpdateConcert
<1>4. ASSUME NEW r \in Edit, NEW c \in Concert, DeleteConcert(r, c)
      PROVE  StoredInv'
  BY <1>4, StoredDelete DEF DeleteConcert
<1>5. ASSUME NEW r \in Edit, NEW n \in Note, DeleteNote(r, n)
      PROVE  StoredInv'
  BY <1>5, StoredDelete DEF DeleteNote
<1>6. ASSUME NEW r \in Edit, Step(r) \/ EditFails(r)
      PROVE  StoredInv'
  BY <1>6, StoredInsertConcert, StoredClear, StoredFill, StoredFilled,
     StoredDropConcert, StoredUnlink, StoredDropNote, StoredFail DEF Step
<1> QED BY <1>1, <1>2, <1>3, <1>4, <1>5, <1>6 DEF ConcertNext, Arrive

\* concertService.go:137-174 and noteService.go:279-300: whatever the requests before it
\* have left, a save that no other request overlaps and no failure touches is stored as
\* it was sent, and stays so, less the notes deleted since, until a request overlaps
\* another or a failure touches the concert.
THEOREM ConcertLastSentStored ==
    ASSUME ConcertConstants
    PROVE  ConcertSpec => []LastSentStored
<1>1. ConcertInit => SentInv /\ StoredInv
  BY SentInit, StoredInit
<1>2. SentInv /\ StoredInv /\ [ConcertNext]_concertVars => (SentInv /\ StoredInv)'
  BY SentStep, ProgramsStep DEF SentInv
<1>3. SentInv /\ StoredInv => LastSentStored
  <2> SUFFICES ASSUME ConcertTypeOK, StoredInv, Quiet,
                      NEW c \in concerts \ (torn \union raced)
               PROVE  RowsOf(c) = AsRows(c, latest[c])
    BY DEF LastSentStored, SentInv
  <2>1. c \in Clean \intersect concerts /\ c \in Concert /\ latest[c] \in Lists
    BY DEF Clean, ConcertTypeOK
  <2>2. \A i \in 1 .. MaxProgram, n \in Note :
          <<c, i, n>> \in rows <=> Sent(c, i, n) /\ n \in notes
    BY <2>1 DEF Quiet, StoredInv, AtRest, Works, Leaves, Saving
  <2>3. ASSUME NEW row \in RowsOf(c) PROVE row \in AsRows(c, latest[c])
    <3>1. /\ row \in rows /\ row[2] \in 1 .. MaxProgram /\ row[3] \in Note
          /\ row = <<c, row[2], row[3]>>
      BY DEF RowsOf, ConcertTypeOK
    <3>2. Sent(c, row[2], row[3]) /\ row[3] \in notes
      BY <2>2, <3>1
    <3> QED BY <3>1, <3>2 DEF Sent, AsRows
  <2>4. ASSUME NEW row \in AsRows(c, latest[c]) PROVE row \in RowsOf(c)
    <3>1. PICK i \in DOMAIN latest[c] : latest[c][i] \in notes /\ row = <<c, i, latest[c][i]>>
      BY DEF AsRows
    <3>2. i \in 1 .. MaxProgram /\ latest[c][i] \in Note
      <4>1. latest[c] \in Seq(Note) /\ Len(latest[c]) <= MaxProgram
        BY <2>1, ListsAreShort
      <4> QED BY <3>1, <4>1 DEF ConcertConstants, ConcertTypeOK
    <3>3. row \in rows
      BY <2>2, <3>1, <3>2 DEF Sent
    <3> QED BY <3>1, <3>3 DEF RowsOf
  <2> QED BY <2>3, <2>4
<1> QED BY <1>1, <1>2, <1>3, PTL DEF ConcertSpec
=============================================================================
