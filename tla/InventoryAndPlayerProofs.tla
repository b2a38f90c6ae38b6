----------------------- MODULE InventoryAndPlayerProofs -----------------------
(***************************************************************************)
(* What holds of the inventory, on the server for every number of notes,   *)
(* folders, sweeps and concurrent requests and on its page for any number  *)
(* of handlers and sweeps, and of the player and the pen marks, for any    *)
(* number of pieces, pages and strokes.                                    *)
(***************************************************************************)
EXTENDS Inventory, InventoryScreen, PlayMode, Annotations, FiniteSetTheorems,
        SequenceTheorems, TLAPS

-----------------------------------------------------------------------------
(* The inventory on the server.                                            *)

(***************************************************************************)
(* What the invariants need to be inductive.                               *)
(***************************************************************************)

\* A number about to be written follows one that has been assigned.
NextNumber ==
    \A r \in Req : req[r].pc = "set" =>
                     req[r].no # 0 /\ (req[r].no = 1 \/ req[r].no - 1 \in Assigned)

\* The foreign keys: notes lie in folders, live sweeps sweep one.
ForeignKeys ==
    /\ \A n \in notes : parent[n] \in folders
    /\ \A s \in Sweep : Exists(s) => home[s] \in folders
    /\ \A p \in sighted : p[2] \in notes

\* What a sweep had sighted when it was completed stays sighted while its
\* rows exist.
FrozenKept ==
    \A s \in Sweep :
      /\ phase[s] \in {"unused", "open"} => frozen[s] = {}
      /\ phase[s] = "done" => frozen[s] \intersect notes \subseteq SightedIn(s)
      /\ phase[s] = "gone" => frozen[s] = {} \/ home[s] \notin folders

\* How far a report has come.
Completing == {"complete", "list", "folderNotes", "lastSeen", "report"}

ReportAt(r) ==
      LET s == req[r].sweep IN
      /\ req[r].pc \in Completing => s \in Sweep /\ phase[s] # "unused"
      /\ req[r].pc \in {"list", "folderNotes", "lastSeen", "report"}
           => phase[s] \in {"done", "gone"}
      /\ req[r].pc = "folderNotes"
           => \/ frozen[s] \intersect notes \subseteq req[r].seen
              \/ home[s] \notin folders
      /\ req[r].pc \in {"lastSeen", "report"}
           => req[r].missing \intersect frozen[s] = {}

Reporting == \A r \in Req : ReportAt(r)
-----------------------------------------------------------------------------
\* A request just called, or ended, is well formed.
LEMMA LocalTyped ==
    ASSUME NEW pc \in Pcs, NEW n \in Note \union {NoNote},
           NEW s \in Sweep \union {NoSweep}, NEW no \in Nat,
           NEW N \in SUBSET Note,
           pc \in AboutNote => n \in Note,
           pc \in AboutSweep => s \in Sweep
    PROVE  Local(pc, n, s, no, N) \in Request
<1>1. NoHint \in [Note -> Sweep \union {NoSweep}]
  BY DEF NoHint
<1> QED
  BY <1>1 DEF Local, Request, Locals

LEMMA BlankTyped == Blank \in Request
BY LocalTyped DEF Blank, Pcs, AboutNote, AboutSweep, Numbering

LEMMA RequestFields ==
    ASSUME NEW q, q \in Request
    PROVE  /\ q \in Locals
           /\ q.pc \in AboutNote => q.note \in Note
           /\ q.pc \in AboutSweep => q.sweep \in Sweep
BY DEF Request

\* A request that goes on at another program counter stays well formed.
LEMMA GotoTyped ==
    ASSUME NEW q \in Request, NEW pc \in Pcs,
           pc \in AboutNote => q.note \in Note,
           pc \in AboutSweep => q.sweep \in Sweep
    PROVE  [q EXCEPT !.pc = pc] \in Request
BY DEF Request, Locals

\* Every statement leaves the rows in their types.
LEMMA RowsTyped == TypeOK /\ [Next]_vars => RowsOK'
<1> SUFFICES ASSUME TypeOK, [Next]_vars
             PROVE  RowsOK'
  OBVIOUS
<1> USE InventoryAssumption DEF TypeOK, RowsOK, elements, sweeps
<1>1. ASSUME NEW r \in Req, Arrive(r)
      PROVE  RowsOK'
  BY <1>1 DEF Arrive, NumberNote, AddSighting, CompleteSweep, CancelSweep, ApplyMoves
<1>2. ASSUME NEW r \in Req, Step(r)
      PROVE  RowsOK'
  <2>1. CASE FindNote(r) \/ ReadMax(r) \/ SetFails(r) \/ SetMisses(r) \/ ReadBack(r)
    BY <2>1 DEF FindNote, ReadMax, SetFails, SetMisses, ReadBack
  <2>2. CASE GiveUp(r)
    BY <2>2 DEF GiveUp, Abort, Unnumbered
  <2>3. CASE SetNumber(r)
    BY <2>3 DEF SetNumber, Request, Locals
  <2>4. CASE InsertSighting(r)
    BY <2>4 DEF InsertSighting, Request, AboutSweep
  <2>5. CASE MarkCompleted(r)
    <3>1. SightedIn(req[r].sweep) \in SUBSET Note
      BY DEF SightedIn
    <3>2. CASE Exists(req[r].sweep)
      BY <2>5, <3>1, <3>2 DEF MarkCompleted
    <3>3. CASE ~ Exists(req[r].sweep)
      BY <2>5, <3>3 DEF MarkCompleted
    <3> QED
      BY <3>2, <3>3
  <2>6. CASE ListSightings(r) \/ ReportMissing(r) \/ HintLastSeen(r)
    BY <2>6 DEF ListSightings, ReportMissing, HintLastSeen
  <2>7. CASE DeleteIncomplete(r)
    BY <2>7 DEF DeleteIncomplete
  <2>8. CASE MoveNext(r)
    BY <2>8 DEF MoveNext
  <2> QED
    BY <1>2, <2>1, <2>2, <2>3, <2>4, <2>5, <2>6, <2>7, <2>8 DEF Step
<1>3. ASSUME NEW r \in Req, Fail(r)
      PROVE  RowsOK'
  BY <1>3 DEF Fail, Abort, Unnumbered
<1>4. CASE Library
  BY <1>4 DEF Library, CreateSweep, MoveToFolder, DeleteNote, DeleteFolder
<1>5. CASE Tick
  BY <1>5 DEF Tick
<1>6. CASE UNCHANGED vars
  BY <1>6 DEF vars
<1> QED
  BY <1>1, <1>2, <1>3, <1>4, <1>5, <1>6 DEF Next

\* Every step leaves the requests well formed.
LEMMA RequestsTyped == TypeOK /\ [Next]_vars => (req \in [Req -> Request])'
<1> SUFFICES ASSUME TypeOK, [Next]_vars
             PROVE  req' \in [Req -> Request]
  OBVIOUS
<1> USE DEF TypeOK
<1> DEFINE Writes(r, rec) == rec \in Request /\ req' = [req EXCEPT ![r] = rec]
<1>1. ASSUME NEW r \in Req, NEW rec, Writes(r, rec)
      PROVE  req' \in [Req -> Request]
  BY <1>1
<1>2. ASSUME NEW r \in Req, NEW pc \in Pcs, Goto(r, pc),
             pc \in AboutNote => req[r].note \in Note,
             pc \in AboutSweep => req[r].sweep \in Sweep
      PROVE  req' \in [Req -> Request]
  <2>1. Writes(r, [req[r] EXCEPT !.pc = pc])
    BY <1>2, GotoTyped DEF Goto
  <2> QED
    BY <2>1, <1>1
<1>3. ASSUME NEW r \in Req, End(r)
      PROVE  req' \in [Req -> Request]
  BY <1>3, BlankTyped DEF End
<1>4. ASSUME NEW r \in Req, NEW no \in Nat, Answer(r, no), req[r].note \in Note
      PROVE  req' \in [Req -> Request]
  <2>1. Local("ok", req[r].note, NoSweep, no, {}) \in Request
    BY <1>4, LocalTyped DEF Pcs, AboutNote, AboutSweep, Numbering
  <2> QED
    BY <1>4, <2>1 DEF Answer
<1>5. ASSUME NEW r \in Req, Arrive(r)
      PROVE  req' \in [Req -> Request]
  <2> USE DEF Pcs, AboutNote, AboutSweep, Numbering
  <2>1. CASE \E n \in Note : NumberNote(r, n)
    BY <2>1, LocalTyped DEF NumberNote
  <2>2. CASE \E s \in Sweep, n \in Note : AddSighting(r, s, n)
    BY <2>2, LocalTyped DEF AddSighting
  <2>3. CASE \E s \in Sweep : CompleteSweep(r, s)
    BY <2>3, LocalTyped DEF CompleteSweep
  <2>4. CASE \E s \in Sweep : CancelSweep(r, s)
    BY <2>4, LocalTyped DEF CancelSweep
  <2>5. CASE \E s \in Sweep, N \in SUBSET Note : ApplyMoves(r, s, N)
    <3>1. PICK s \in Sweep, N \in SUBSET Note : ApplyMoves(r, s, N)
      BY <2>5
    <3>2. Local("move", NoNote, s, 0, N) \in Request
      BY LocalTyped
    <3> QED
      BY <3>1, <3>2 DEF ApplyMoves
  <2> QED
    BY <1>5, <2>1, <2>2, <2>3, <2>4, <2>5 DEF Arrive
<1>6. ASSUME NEW r \in Req, Step(r)
      PROVE  req' \in [Req -> Request]
  <2> DEFINE q == req[r]
  <2>0. /\ q \in Locals
        /\ q.pc \in AboutNote => q.note \in Note
        /\ q.pc \in AboutSweep => q.sweep \in Sweep
    <3>1. req[r] \in Request
      OBVIOUS
    <3> QED
      BY <3>1, RequestFields
  <2> USE DEF Pcs, AboutNote, AboutSweep, Numbering
  <2>1. CASE FindNote(r)
    BY <2>0, <2>1, <1>2, <1>3, <1>4 DEF FindNote, RowsOK
  <2>2. CASE ReadMax(r)
    <3>1. PICK m \in {0} \union {inv[n] : n \in notes} :
            req' = [req EXCEPT ![r].pc = "set", ![r].no = m + 1]
      BY <2>2 DEF ReadMax
    <3>2. m + 1 \in Nat
      BY DEF RowsOK
    <3> QED
      BY <2>0, <2>2, <3>1, <3>2 DEF ReadMax, Request, Locals
  <2>3. CASE GiveUp(r)
    BY <2>3, <1>3 DEF GiveUp, Abort
  <2>4. CASE SetNumber(r)
    BY <2>0, <2>4, <1>4 DEF SetNumber, Locals
  <2>5. CASE SetFails(r)
    BY <2>0, <2>5 DEF SetFails, Request, Locals
  <2>6. CASE SetMisses(r)
    BY <2>0, <2>6, <1>2 DEF SetMisses
  <2>7. CASE ReadBack(r)
    <3>1. CASE req[r].note \in notes /\ inv[req[r].note] # 0
      BY <2>0, <2>7, <3>1, <1>4 DEF ReadBack, RowsOK
    <3>2. CASE ~ (req[r].note \in notes /\ inv[req[r].note] # 0)
      BY <2>0, <2>7, <3>2 DEF ReadBack, Request, Locals
    <3> QED
      BY <3>1, <3>2
  <2>8. CASE InsertSighting(r)
    BY <2>0, <2>8, <1>2 DEF InsertSighting
  <2>9. CASE MarkCompleted(r)
    BY <2>0, <2>9, <1>2 DEF MarkCompleted
  <2>10. CASE ListSightings(r)
    <3>1. SightedIn(req[r].sweep) \in SUBSET Note
      BY DEF SightedIn, RowsOK
    <3> QED
      BY <2>0, <2>10, <3>1 DEF ListSightings, Request, Locals
  <2>11. CASE ReportMissing(r)
    <3> DEFINE M == {n \in notes \ req[r].seen : parent[n] = home[req[r].sweep]}
    <3>1. M \in SUBSET Note
      BY DEF RowsOK
    <3> HIDE DEF M
    <3>2. req' = [req EXCEPT ![r].missing = M, ![r].pc = "lastSeen"]
      BY <2>11 DEF ReportMissing, M
    <3> QED
      BY <2>0, <3>1, <3>2, <2>11 DEF ReportMissing, Request, Locals
  <2>12. CASE HintLastSeen(r)
    <3>1. PICK h \in [Note -> Sweep \union {NoSweep}] :
            req' = [req EXCEPT ![r].pc = "report", ![r].hint = h, ![r].seen = {}]
      BY <2>12 DEF HintLastSeen
    <3> QED
      BY <2>0, <2>12, <3>1 DEF HintLastSeen, Request, Locals
  <2>13. CASE DeleteIncomplete(r)
    BY <2>13, <1>3 DEF DeleteIncomplete
  <2>14. CASE MoveNext(r)
    <3>1. ASSUME NEW n \in req[r].missing
          PROVE  Local("move", NoNote, req[r].sweep, 0, req[r].missing \ {n}) \in Request
      BY <2>0, <2>14, LocalTyped DEF MoveNext, Locals
    <3> QED
      BY <2>14, <3>1, <1>3, BlankTyped DEF MoveNext
  <2> QED
    BY <1>6, <2>1, <2>2, <2>3, <2>4, <2>5, <2>6, <2>7, <2>8, <2>9, <2>10,
       <2>11, <2>12, <2>13, <2>14 DEF Step
<1>7. ASSUME NEW r \in Req, Fail(r)
      PROVE  req' \in [Req -> Request]
  BY <1>7, <1>3 DEF Fail, Abort
<1>8. CASE Library \/ Tick
  BY <1>8 DEF Library, Tick, CreateSweep, MoveToFolder, DeleteNote, DeleteFolder
<1>9. CASE UNCHANGED vars
  BY <1>9 DEF vars
<1> QED
  BY <1>5, <1>6, <1>7, <1>8, <1>9 DEF Next

\* Type correctness of the whole state.
THEOREM InventoryTyped == Spec => []TypeOK
<1>1. Init => TypeOK
  BY BlankTyped, InventoryAssumption DEF Init, TypeOK, RowsOK
<1>2. TypeOK /\ [Next]_vars => TypeOK'
  BY RowsTyped, RequestsTyped DEF TypeOK
<1> QED
  BY <1>1, <1>2, PTL DEF Spec

-----------------------------------------------------------------------------
(***************************************************************************)
(* Inventory numbers.                                                      *)
(***************************************************************************)

\* Only SetNumber writes a number, and no step brings a note back.
LEMMA NumbersWritten ==
    TypeOK /\ [Next]_vars =>
      /\ notes' \subseteq notes
      /\ (inv' = inv \/ \E r \in Req : SetNumber(r))
<1> SUFFICES ASSUME TypeOK, [Next]_vars
             PROVE  /\ notes' \subseteq notes
                    /\ (inv' = inv \/ \E r \in Req : SetNumber(r))
  OBVIOUS
<1> USE DEF elements, sweeps
<1>1. ASSUME NEW r \in Req, Arrive(r)
      PROVE  notes' = notes /\ inv' = inv
  BY <1>1 DEF Arrive, NumberNote, AddSighting, CompleteSweep, CancelSweep, ApplyMoves
<1>2. ASSUME NEW r \in Req, Step(r), ~ SetNumber(r)
      PROVE  notes' = notes /\ inv' = inv
  BY <1>2 DEF Step, FindNote, ReadMax, GiveUp, SetFails, SetMisses, ReadBack,
       InsertSighting, MarkCompleted, ListSightings, ReportMissing,
       HintLastSeen, DeleteIncomplete, MoveNext
<1>3. ASSUME NEW r \in Req, SetNumber(r)
      PROVE  notes' = notes
  BY <1>3 DEF SetNumber
<1>4. ASSUME NEW r \in Req, Fail(r)
      PROVE  notes' = notes /\ inv' = inv
  BY <1>4 DEF Fail
<1>5. CASE Library
  BY <1>5 DEF Library, CreateSweep, MoveToFolder, DeleteNote, DeleteFolder
<1>6. CASE Tick \/ UNCHANGED vars
  BY <1>6 DEF Tick, vars
<1> QED
  BY <1>1, <1>2, <1>3, <1>4, <1>5, <1>6 DEF Next

\* How a request comes to hold a number to write, or to have answered one.
LEMMA NumbersHeld ==
    ASSUME TypeOK, [Next]_vars, NEW q \in Req
    PROVE  \/ req'[q] = req[q]
           \/ req'[q].pc \notin {"set", "ok"}
           \/ ReadMax(q)
           \/ SetNumber(q)
           \/ FindNote(q) \/ ReadBack(q)
<1> DEFINE Held(r) == \/ req'[r] = req[r]
                      \/ req'[r].pc \notin {"set", "ok"}
                      \/ ReadMax(r)
                      \/ SetNumber(r)
                      \/ FindNote(r) \/ ReadBack(r)
<1> USE DEF TypeOK, elements, sweeps
<1>1. ASSUME NEW r \in Req, NEW rec, req' = [req EXCEPT ![r] = rec],
             rec.pc \notin {"set", "ok"} \/ Held(r)
      PROVE  Held(q)
  <2>1. CASE q = r
    BY <1>1, <2>1
  <2>2. CASE q # r
    <3>1. req'[q] = req[q]
      BY <1>1, <2>2
    <3> QED
      BY <3>1
  <2> QED
    BY <2>1, <2>2
<1> HIDE DEF Held
<1>2. ASSUME NEW r \in Req, Arrive(r)
      PROVE  Held(q)
  BY <1>1, <1>2 DEF Arrive, NumberNote, AddSighting, CompleteSweep, CancelSweep,
       ApplyMoves, Local
<1>3. ASSUME NEW r \in Req, Step(r)
      PROVE  Held(q)
  <2>1. CASE ReadMax(r) \/ SetNumber(r) \/ FindNote(r) \/ ReadBack(r)
    <3>1. Held(r)
      BY <2>1 DEF Held
    <3>2. \E rec : req' = [req EXCEPT ![r] = rec]
      <4>1. CASE ReadMax(r)
        BY <4>1 DEF ReadMax
      <4>2. CASE SetNumber(r)
        BY <4>2 DEF SetNumber, Answer
      <4>3. CASE FindNote(r)
        BY <4>3 DEF FindNote, End, Answer, Goto
      <4>4. CASE ReadBack(r)
        BY <4>4 DEF ReadBack, Answer
      <4> QED
        BY <2>1, <4>1, <4>2, <4>3, <4>4
    <3> QED
      BY <3>1, <3>2, <1>1
  <2>2. CASE GiveUp(r)
    BY <2>2, <1>1 DEF GiveUp, Abort, End, Blank, Local
  <2>3. CASE SetFails(r) \/ SetMisses(r)
    BY <2>3, <1>1 DEF SetFails, SetMisses, Goto, Request, Locals
  <2>4. CASE InsertSighting(r) \/ MarkCompleted(r) \/ ListSightings(r)
    BY <2>4, <1>1 DEF InsertSighting, MarkCompleted, ListSightings, Goto, Request, Locals
  <2>5. CASE ReportMissing(r) \/ HintLastSeen(r)
    <3>1. PICK rec : /\ req' = [req EXCEPT ![r] = rec]
                     /\ rec.pc \in {"lastSeen", "report"}
      <4>0. req[r] \in Locals
        BY RequestFields
      <4>1. ASSUME NEW m, req' = [req EXCEPT ![r].missing = m, ![r].pc = "lastSeen"]
            PROVE  \E rec : /\ req' = [req EXCEPT ![r] = rec]
                            /\ rec.pc \in {"lastSeen", "report"}
        <5> WITNESS [req[r] EXCEPT !.missing = m, !.pc = "lastSeen"]
        <5> QED
          BY <4>0, <4>1 DEF Locals
      <4>2. ASSUME NEW h, req' = [req EXCEPT ![r].pc = "report", ![r].hint = h,
                                             ![r].seen = {}]
            PROVE  \E rec : /\ req' = [req EXCEPT ![r] = rec]
                            /\ rec.pc \in {"lastSeen", "report"}
        <5> WITNESS [req[r] EXCEPT !.pc = "report", !.hint = h, !.seen = {}]
        <5> QED
          BY <4>0, <4>2 DEF Locals
      <4> QED
        BY <2>5, <4>1, <4>2 DEF ReportMissing, HintLastSeen
    <3> QED
      BY <3>1, <1>1
  <2>6. CASE DeleteIncomplete(r)
    BY <2>6, <1>1 DEF DeleteIncomplete, End, Blank, Local
  <2>7. CASE MoveNext(r)
    BY <2>7, <1>1 DEF MoveNext, End, Blank, Local
  <2> QED
    BY <1>3, <2>1, <2>2, <2>3, <2>4, <2>5, <2>6, <2>7 DEF Step
<1>4. ASSUME NEW r \in Req, Fail(r)
      PROVE  Held(q)
  BY <1>4, <1>1 DEF Fail, Abort, End, Blank, Local
<1>5. CASE Library \/ Tick \/ UNCHANGED vars
  BY <1>5 DEF Library, Tick, vars, CreateSweep, MoveToFolder, DeleteNote, DeleteFolder, Held
<1> QED
  BY <1>2, <1>3, <1>4, <1>5 DEF Next, Held

NumbersOK ==
    /\ UniqueNumbers
    /\ Gapless
    /\ NextNumber
    /\ AnswerIsTheNumber

LEMMA NumbersStep == TypeOK /\ NumbersOK /\ [Next]_vars => NumbersOK'
<1> SUFFICES ASSUME TypeOK, NumbersOK, [Next]_vars
             PROVE  NumbersOK'
  OBVIOUS
<1> USE DEF TypeOK, RowsOK, NumbersOK
<1>1. /\ notes' \subseteq notes
      /\ inv' = inv \/ \E r \in Req : SetNumber(r)
  BY NumbersWritten
<1>2. /\ UniqueNumbers' /\ Gapless'
      /\ Assigned \subseteq Assigned'
      /\ \A n \in Note : inv[n] # 0 => inv'[n] = inv[n]
  <2>1. CASE inv' = inv
    BY <1>1, <2>1 DEF UniqueNumbers, Gapless, Assigned
  <2>2. ASSUME NEW r \in Req, SetNumber(r)
        PROVE  /\ UniqueNumbers' /\ Gapless'
               /\ Assigned \subseteq Assigned'
               /\ \A n \in Note : inv[n] # 0 => inv'[n] = inv[n]
    <3> DEFINE n == req[r].note
               no == req[r].no
    <3>1. /\ n \in notes /\ inv[n] = 0
          /\ \A m \in notes : inv[m] # no
          /\ inv' = [inv EXCEPT ![n] = no]
          /\ notes' = notes
          /\ no \in Nat \ {0}
          /\ no = 1 \/ no - 1 \in Assigned
      BY <2>2 DEF SetNumber, Unnumbered, NumberTaken, NextNumber, elements, Request, Locals
    <3> HIDE DEF n, no
    <3>2. Assigned' = Assigned \union {no}
      BY <3>1 DEF Assigned
    <3>3. UniqueNumbers'
      BY <3>1 DEF UniqueNumbers
    <3>4. Gapless'
      <4> SUFFICES ASSUME NEW a \in Assigned', NEW k \in 1 .. a
                   PROVE  k \in Assigned'
        BY DEF Gapless
      <4>1. CASE a \in Assigned
        BY <3>2, <4>1 DEF Gapless
      <4>2. CASE a = no /\ k # no
        <5>1. no - 1 \in Assigned /\ k \in 1 .. (no - 1)
          BY <3>1, <4>2
        <5> QED
          BY <3>2, <5>1 DEF Gapless
      <4> QED
        BY <3>2, <4>1, <4>2
    <3> QED
      BY <3>1, <3>2, <3>3, <3>4
  <2> QED
    BY <1>1, <2>1, <2>2
<1>3. NextNumber'
  <2> SUFFICES ASSUME NEW q \in Req, req'[q].pc = "set"
               PROVE  /\ req'[q].no # 0
                      /\ req'[q].no = 1 \/ req'[q].no - 1 \in Assigned'
    BY DEF NextNumber
  <2>1. CASE req'[q] = req[q]
    BY <1>2, <2>1 DEF NextNumber
  <2>2. CASE ReadMax(q)
    <3>1. PICK m \in {0} \union {inv[n] : n \in notes} : req'[q].no = m + 1
      BY <2>2 DEF ReadMax, Request, Locals
    <3>2. m \in Nat /\ (m = 0 \/ m \in Assigned)
      BY DEF Assigned
    <3> QED
      BY <1>2, <3>1, <3>2
  <2>3. CASE SetNumber(q) \/ FindNote(q) \/ ReadBack(q)
    BY <2>3 DEF SetNumber, FindNote, ReadBack, Answer, End, Goto, Blank, Local,
         Request, Locals
  <2> QED
    BY <2>1, <2>2, <2>3, NumbersHeld
<1>4. AnswerIsTheNumber'
  <2> SUFFICES ASSUME NEW q \in Req, req'[q].pc = "ok", req'[q].note \in notes'
               PROVE  req'[q].no # 0 /\ inv'[req'[q].note] = req'[q].no
    BY DEF AnswerIsTheNumber
  <2>1. CASE req'[q] = req[q]
    BY <1>1, <1>2, <2>1 DEF AnswerIsTheNumber
  <2>2. CASE ReadMax(q)
    BY <2>2 DEF ReadMax, Request, Locals
  <2>3. CASE SetNumber(q)
    BY <2>3 DEF SetNumber, Unnumbered, Answer, Local, NextNumber
  <2>4. CASE FindNote(q)
    BY <2>4 DEF FindNote, Answer, End, Goto, Blank, Local, Request, Locals
  <2>5. CASE ReadBack(q)
    BY <2>5 DEF ReadBack, Answer, Local, Request, Locals
  <2> QED
    BY <2>1, <2>2, <2>3, <2>4, <2>5, NumbersHeld
<1> QED
  BY <1>2, <1>3, <1>4

LEMMA NumbersInit == Init => NumbersOK
BY DEF Init, NumbersOK, UniqueNumbers, Gapless, Assigned, NextNumber, AnswerIsTheNumber,
       Blank, Local

\* However many requests race on MAX + 1, numbers stay unique and without
\* gaps, and every number answered is the one the note carries.
THEOREM InventoryNumbers == Spec => [](UniqueNumbers /\ Gapless /\ AnswerIsTheNumber)
<1>1. NumbersOK => UniqueNumbers /\ Gapless /\ AnswerIsTheNumber
  BY DEF NumbersOK
<1> QED
  BY <1>1, NumbersInit, NumbersStep, InventoryTyped, PTL DEF Spec

\* The numbers have no gaps.
THEOREM InventoryGapless == Spec => []Gapless
BY InventoryNumbers, PTL

\* The number a request answers is the number of its note.
THEOREM InventoryAnswers == Spec => []AnswerIsTheNumber
BY InventoryNumbers, PTL

\* A number once given is never replaced, by whatever request.
THEOREM InventoryNumberStable == Spec => NumberStable
<1>1. TypeOK /\ [Next]_vars => [\A n \in Note : inv[n] # 0 => inv'[n] = inv[n]]_vars
  BY NumbersWritten DEF SetNumber, Unnumbered, TypeOK, RowsOK
<1> QED
  BY <1>1, InventoryTyped, PTL DEF Spec, NumberStable

-----------------------------------------------------------------------------
(***************************************************************************)
(* Sweeps and sightings.                                                   *)
(***************************************************************************)

\* The steps that write a folder, a sweep or a sighting.
LEMMA RowsWritten ==
    [Next]_vars =>
      \/ UNCHANGED <<notes, folders, parent, phase, home, frozen, sighted>>
      \/ \E r \in Req : \/ InsertSighting(r) \/ MarkCompleted(r)
                       \/ DeleteIncomplete(r) \/ MoveNext(r)
      \/ \E s \in Sweep, f \in Folder : CreateSweep(s, f)
      \/ \E n \in Note, f \in Folder : MoveToFolder(n, f)
      \/ \E n \in Note : DeleteNote(n)
      \/ \E f \in Folder : DeleteFolder(f)
<1> SUFFICES ASSUME [Next]_vars
             PROVE  \/ UNCHANGED <<notes, folders, parent, phase, home, frozen, sighted>>
                    \/ \E r \in Req : \/ InsertSighting(r) \/ MarkCompleted(r)
                                     \/ DeleteIncomplete(r) \/ MoveNext(r)
                    \/ Library
  BY DEF Library
<1> USE DEF elements, sweeps
<1>1. ASSUME NEW r \in Req, Arrive(r)
      PROVE  UNCHANGED <<notes, folders, parent, phase, home, frozen, sighted>>
  BY <1>1 DEF Arrive, NumberNote, AddSighting, CompleteSweep, CancelSweep, ApplyMoves
<1>2. ASSUME NEW r \in Req, Step(r), ~ InsertSighting(r), ~ MarkCompleted(r),
             ~ DeleteIncomplete(r), ~ MoveNext(r)
      PROVE  UNCHANGED <<notes, folders, parent, phase, home, frozen, sighted>>
  BY <1>2 DEF Step, FindNote, ReadMax, GiveUp, SetNumber, SetFails, SetMisses,
       ReadBack, ListSightings, ReportMissing, HintLastSeen
<1>3. ASSUME NEW r \in Req, Fail(r)
      PROVE  UNCHANGED <<notes, folders, parent, phase, home, frozen, sighted>>
  BY <1>3 DEF Fail
<1>4. CASE Tick \/ UNCHANGED vars
  BY <1>4 DEF Tick, vars
<1> QED
  BY <1>1, <1>2, <1>3, <1>4 DEF Next

\* The foreign keys hold: a folder that is deleted takes everything that
\* refers to it along, and nothing refers to a folder that is gone.
LEMMA ForeignKeysStep == TypeOK /\ ForeignKeys /\ [Next]_vars => ForeignKeys'
<1> SUFFICES ASSUME TypeOK, ForeignKeys, [Next]_vars
             PROVE  ForeignKeys'
  OBVIOUS
<1> USE DEF TypeOK, RowsOK, ForeignKeys, Exists, elements, sweeps
<1>1. CASE UNCHANGED <<notes, folders, parent, phase, home, frozen, sighted>>
  BY <1>1
<1>2. ASSUME NEW r \in Req, InsertSighting(r)
      PROVE  ForeignKeys'
  BY <1>2 DEF InsertSighting
<1>3. ASSUME NEW r \in Req, MarkCompleted(r)
      PROVE  ForeignKeys'
  BY <1>3 DEF MarkCompleted
<1>4. ASSUME NEW r \in Req, DeleteIncomplete(r)
      PROVE  ForeignKeys'
  BY <1>4 DEF DeleteIncomplete
<1>5. ASSUME NEW r \in Req, MoveNext(r)
      PROVE  ForeignKeys'
  BY <1>5 DEF MoveNext
<1>6. ASSUME NEW s \in Sweep, NEW f \in Folder, CreateSweep(s, f)
      PROVE  ForeignKeys'
  BY <1>6 DEF CreateSweep
<1>7. ASSUME NEW n \in Note, NEW f \in Folder, MoveToFolder(n, f)
      PROVE  ForeignKeys'
  BY <1>7 DEF MoveToFolder
<1>8. ASSUME NEW n \in Note, DeleteNote(n)
      PROVE  ForeignKeys'
  BY <1>8 DEF DeleteNote
<1>9. ASSUME NEW f \in Folder, DeleteFolder(f)
      PROVE  ForeignKeys'
  BY <1>9 DEF DeleteFolder
<1> QED
  BY <1>1, <1>2, <1>3, <1>4, <1>5, <1>6, <1>7, <1>8, <1>9, RowsWritten

THEOREM InventoryForeignKeys == Spec => []ForeignKeys
<1>1. Init => ForeignKeys
  BY DEF Init, ForeignKeys, Exists
<1> QED
  BY <1>1, ForeignKeysStep, InventoryTyped, PTL DEF Spec

-----------------------------------------------------------------------------
(* Every sighted note gets its number.                                     *)

\* Some request is numbering n.
Numbered(n) == \E r \in Req : req[r].pc \in Numbering /\ req[r].note = n

\* n is still being numbered after r's step, unless r was doing it and is not
\* any more.
LEMMA NumberedKept ==
    ASSUME TypeOK, NEW r \in Req, NEW rec, req' = [req EXCEPT ![r] = rec],
           NEW n, Numbered(n),
           req[r].pc \in Numbering /\ req[r].note = n
             => rec.pc \in Numbering /\ rec.note = n
    PROVE  Numbered(n)'
<1>1. PICK q \in Req : req[q].pc \in Numbering /\ req[q].note = n
  BY DEF Numbered
<1>2. req'[q].pc \in Numbering /\ req'[q].note = n
  BY <1>1 DEF TypeOK
<1> QED
  BY <1>2 DEF Numbered

LEMMA SightedStep ==
    ASSUME TypeOK, ForeignKeys, NextNumber, SightedIsNumbered, [Next]_vars
    PROVE  SightedIsNumbered'
<1> DEFINE Kept(p) == inv'[p[2]] # 0 \/ p[2] \in aborted' \/ Numbered(p[2])'
<1> SUFFICES ASSUME NEW p \in sighted'
             PROVE  Kept(p)
  BY DEF SightedIsNumbered, Numbered
<1> DEFINE n == p[2]
<1> USE DEF elements, sweeps
<1>0. p \in sighted => /\ n \in notes /\ n \in Note
                       /\ inv[n] # 0 \/ n \in aborted \/ Numbered(n)
  BY DEF ForeignKeys, SightedIsNumbered, Numbered, TypeOK, RowsOK
<1>1. ASSUME p \in sighted, inv'[n] = inv[n], aborted' = aborted, req' = req
      PROVE  Kept(p)
  BY <1>0, <1>1 DEF Numbered
<1>2. ASSUME p \in sighted, inv'[n] = inv[n], aborted' = aborted,
             NEW r \in Req, NEW rec, req' = [req EXCEPT ![r] = rec],
             req[r].pc \in Numbering => rec.pc \in Numbering /\ rec.note = req[r].note
      PROVE  Kept(p)
  BY <1>0, <1>2, NumberedKept
<1>3. ASSUME NEW r \in Req, Arrive(r)
      PROVE  Kept(p)
  <2>1. sighted' = sighted /\ inv' = inv /\ aborted' = aborted /\ req[r].pc \notin Numbering
    BY <1>3 DEF Arrive, NumberNote, AddSighting, CompleteSweep, CancelSweep, ApplyMoves, Free,
                Numbering
  <2>2. \E rec : req' = [req EXCEPT ![r] = rec]
    BY <1>3 DEF Arrive, NumberNote, AddSighting, CompleteSweep, CancelSweep, ApplyMoves
  <2> QED
    BY <1>2, <2>1, <2>2
<1>4. ASSUME NEW r \in Req, Step(r)
      PROVE  Kept(p)
  <2>0. req[r] \in Locals
    BY RequestFields DEF TypeOK
  <2>1. CASE FindNote(r)
    <3>1. sighted' = sighted /\ inv' = inv /\ aborted' = aborted
      BY <2>1 DEF FindNote
    <3>2. CASE Goto(r, "max")
      <4> DEFINE rec == [req[r] EXCEPT !.pc = "max"]
      <4>1. req' = [req EXCEPT ![r] = rec] /\ rec.pc = "max" /\ rec.note = req[r].note
        BY <2>0, <3>2 DEF Goto, Locals
      <4> QED
        BY <1>2, <2>1, <3>1, <4>1 DEF Numbering, FindNote
    <3>3. CASE n # req[r].note /\ \E rec : req' = [req EXCEPT ![r] = rec]
      BY <1>0, <3>1, <3>3, NumberedKept
    <3>4. CASE n = req[r].note /\ inv[n] # 0
      BY <3>1, <3>4
    <3> QED
      BY <1>0, <2>1, <3>1, <3>2, <3>3, <3>4 DEF FindNote, End, Answer
  <2>2. CASE ReadMax(r)
    <3>1. PICK m \in {0} \union {inv[k] : k \in notes} :
            req' = [req EXCEPT ![r].pc = "set", ![r].no = m + 1]
      BY <2>2 DEF ReadMax
    <3>2. m + 1 \in Nat
      BY DEF TypeOK, RowsOK
    <3> DEFINE rec == [req[r] EXCEPT !.pc = "set", !.no = m + 1]
    <3>3. req' = [req EXCEPT ![r] = rec] /\ rec.pc = "set" /\ rec.note = req[r].note
      BY <2>0, <3>1 DEF Locals
    <3>4. sighted' = sighted /\ inv' = inv /\ aborted' = aborted
      BY <2>2 DEF ReadMax
    <3> QED
      BY <1>2, <3>3, <3>4 DEF Numbering
  <2>3. CASE SetFails(r) \/ SetMisses(r)
    <3>1. sighted' = sighted /\ inv' = inv /\ aborted' = aborted
      BY <2>3 DEF SetFails, SetMisses
    <3> DEFINE again == [req[r] EXCEPT !.pc = "max", !.tries = @ + 1]
               back == [req[r] EXCEPT !.pc = "readBack"]
    <3>2. /\ again.pc = "max" /\ again.note = req[r].note
          /\ back.pc = "readBack" /\ back.note = req[r].note
      BY <2>0 DEF Locals
    <3>3. req' = [req EXCEPT ![r] = again] \/ req' = [req EXCEPT ![r] = back]
      BY <2>3 DEF SetFails, SetMisses, Goto
    <3> HIDE DEF again, back
    <3> QED
      BY <1>2, <3>1, <3>2, <3>3 DEF Numbering
  <2>4. CASE ReadBack(r)
    <3>1. sighted' = sighted /\ inv' = inv /\ aborted' = aborted
      BY <2>4 DEF ReadBack
    <3>2. CASE req[r].note \in notes /\ inv[req[r].note] # 0
      <4>1. \E rec : req' = [req EXCEPT ![r] = rec]
        BY <2>4, <3>2 DEF ReadBack, Answer
      <4> QED
        BY <1>0, <3>1, <3>2, <4>1, NumberedKept
    <3>3. CASE ~ (req[r].note \in notes /\ inv[req[r].note] # 0)
      <4> DEFINE again == [req[r] EXCEPT !.pc = "max", !.tries = @ + 1]
      <4>1. again.pc = "max" /\ again.note = req[r].note
        BY <2>0 DEF Locals
      <4>2. req' = [req EXCEPT ![r] = again]
        BY <2>4, <3>3 DEF ReadBack
      <4> HIDE DEF again
      <4> QED
        BY <1>2, <3>1, <4>1, <4>2 DEF Numbering
    <3> QED
      BY <3>2, <3>3
  <2>5. CASE GiveUp(r)
    <3>1. p \in sighted /\ inv' = inv /\ Abort(r)
      BY <2>5 DEF GiveUp
    <3>2. CASE req[r].pc \in Numbering /\ req[r].note = n
      BY <1>0, <3>1, <3>2 DEF Abort, Unnumbered
    <3>3. CASE ~ (req[r].pc \in Numbering /\ req[r].note = n)
      BY <1>0, <3>1, <3>3, NumberedKept DEF Abort, End
    <3> QED
      BY <3>2, <3>3
  <2>6. CASE SetNumber(r)
    <3>1. p \in sighted /\ aborted' = aborted \ {req[r].note}
      BY <2>6 DEF SetNumber
    <3>2. inv' = [inv EXCEPT ![req[r].note] = req[r].no] /\ req[r].no # 0
      BY <2>6 DEF SetNumber, NextNumber
    <3>3. CASE n = req[r].note
      BY <1>0, <3>1, <3>2, <3>3 DEF TypeOK, RowsOK
    <3>4. CASE n # req[r].note
      <4>1. inv'[n] = inv[n]
        BY <1>0, <3>1, <3>2, <3>4 DEF TypeOK, RowsOK
      <4> QED
        BY <1>0, <2>6, <3>1, <3>4, <4>1, NumberedKept DEF SetNumber, Answer
    <3> QED
      BY <3>3, <3>4
  <2>7. CASE InsertSighting(r)
    <3> DEFINE rec == [req[r] EXCEPT !.pc = "find"]
    <3>1. req' = [req EXCEPT ![r] = rec] /\ rec.pc = "find" /\ rec.note = req[r].note
      BY <2>0, <2>7 DEF InsertSighting, Goto, Locals
    <3>2. inv' = inv /\ aborted' = aborted /\ req[r].pc = "insert"
      BY <2>7 DEF InsertSighting
    <3>3. CASE p \in sighted
      BY <1>2, <3>1, <3>2, <3>3 DEF Numbering
    <3>4. CASE p \notin sighted
      <4>1. n = req[r].note
        BY <2>7, <3>4 DEF InsertSighting
      <4>2. req'[r].pc \in Numbering /\ req'[r].note = n
        BY <3>1, <4>1 DEF TypeOK, Numbering
      <4> QED
        BY <4>2 DEF Numbered
    <3> QED
      BY <3>3, <3>4
  <2>8. CASE \/ MarkCompleted(r) \/ ListSightings(r) \/ ReportMissing(r) \/ HintLastSeen(r)
             \/ DeleteIncomplete(r) \/ MoveNext(r)
    <3>1. p \in sighted /\ inv' = inv /\ aborted' = aborted /\ req[r].pc \notin Numbering
      BY <2>8 DEF MarkCompleted, ListSightings, ReportMissing, HintLastSeen, DeleteIncomplete,
                  MoveNext, Numbering
    <3>2. \E rec : req' = [req EXCEPT ![r] = rec]
      <4>1. CASE ReportMissing(r)
        BY <4>1 DEF ReportMissing
      <4>2. CASE HintLastSeen(r)
        BY <4>2 DEF HintLastSeen
      <4>3. CASE MoveNext(r)
        BY <4>3 DEF MoveNext, End
      <4> QED
        BY <2>8, <4>1, <4>2, <4>3
           DEF MarkCompleted, ListSightings, DeleteIncomplete, Goto, End
    <3> QED
      BY <1>2, <3>1, <3>2
  <2> QED
    BY <1>4, <2>1, <2>2, <2>3, <2>4, <2>5, <2>6, <2>7, <2>8 DEF Step
<1>5. ASSUME NEW r \in Req, Fail(r)
      PROVE  Kept(p)
  <2>1. p \in sighted /\ inv' = inv /\ Abort(r)
    BY <1>5 DEF Fail
  <2>2. CASE req[r].pc \in Numbering /\ req[r].note = n
    BY <1>0, <2>1, <2>2 DEF Abort, Unnumbered
  <2>3. CASE ~ (req[r].pc \in Numbering /\ req[r].note = n)
    BY <1>0, <2>1, <2>3, NumberedKept DEF Abort, End
  <2> QED
    BY <2>2, <2>3
<1>6. CASE Library \/ Tick \/ UNCHANGED vars
  <2>1. p \in sighted /\ inv' = inv /\ aborted' = aborted /\ req' = req
    BY <1>6 DEF Library, CreateSweep, MoveToFolder, DeleteNote, DeleteFolder, Tick, vars
  <2> QED
    BY <1>1, <2>1
<1> QED
  BY <1>3, <1>4, <1>5, <1>6 DEF Next

\* A sighting is recorded and its note has a number, is being given one, or
\* belongs to a request that ended before it could.
THEOREM InventorySightedIsNumbered == Spec => []SightedIsNumbered
<1>1. Init => SightedIsNumbered
  BY DEF Init, SightedIsNumbered
<1>2. NumbersOK => NextNumber
  BY DEF NumbersOK
<1> QED
  BY <1>1, <1>2, SightedStep, NumbersStep, NumbersInit, InventoryTyped, InventoryForeignKeys, PTL DEF Spec

\* A completed sweep goes only with its folder, although CancelSweep checks
\* and deletes in two statements and CompleteSweep checks and updates in two.
THEOREM InventoryCompletedSweepKept == Spec => CompletedSweepKept
<1> DEFINE Kept == \A s \in Sweep :
                     phase[s] = "done" =>
                       phase'[s] = "done" \/ home[s] \in folders \ folders'
<1>1. TypeOK /\ ForeignKeys /\ [Next]_vars => Kept
  <2> SUFFICES ASSUME TypeOK, ForeignKeys, [Next]_vars
               PROVE  Kept
    OBVIOUS
  <2> USE DEF TypeOK, RowsOK, Exists, elements, sweeps
  <2>1. CASE UNCHANGED <<notes, folders, parent, phase, home, frozen, sighted>>
    BY <2>1
  <2>2. ASSUME NEW r \in Req, InsertSighting(r) \/ MoveNext(r)
        PROVE  Kept
    BY <2>2 DEF InsertSighting, MoveNext
  <2>3. ASSUME NEW r \in Req, MarkCompleted(r)
        PROVE  Kept
    BY <2>3 DEF MarkCompleted
  <2>4. ASSUME NEW r \in Req, DeleteIncomplete(r)
        PROVE  Kept
    BY <2>4 DEF DeleteIncomplete, Cancellable
  <2>5. ASSUME NEW s \in Sweep, NEW f \in Folder, CreateSweep(s, f)
        PROVE  Kept
    BY <2>5 DEF CreateSweep
  <2>6. ASSUME NEW n \in Note, NEW f \in Folder, MoveToFolder(n, f)
        PROVE  Kept
    BY <2>6 DEF MoveToFolder
  <2>7. ASSUME NEW n \in Note, DeleteNote(n)
        PROVE  Kept
    BY <2>7 DEF DeleteNote
  <2>8. ASSUME NEW f \in Folder, DeleteFolder(f)
        PROVE  Kept
    BY <2>8 DEF DeleteFolder
  <2> QED
    BY <2>1, <2>2, <2>3, <2>4, <2>5, <2>6, <2>7, <2>8, RowsWritten
<1>2. TypeOK /\ ForeignKeys /\ [Next]_vars => [Kept]_vars
  BY <1>1
<1> QED
  BY <1>2, InventoryTyped, InventoryForeignKeys, PTL DEF Spec, CompletedSweepKept

\* What a sweep had sighted when it was completed stays in its rows.
LEMMA FrozenKeptStep ==
    TypeOK /\ ForeignKeys /\ FrozenKept /\ [Next]_vars => FrozenKept'
<1> SUFFICES ASSUME TypeOK, ForeignKeys, FrozenKept, [Next]_vars, NEW s \in Sweep
             PROVE  /\ phase'[s] \in {"unused", "open"} => frozen'[s] = {}
                    /\ phase'[s] = "done" =>
                         \A n \in notes' : n \in frozen'[s] => <<s, n>> \in sighted'
                    /\ phase'[s] = "gone" => frozen'[s] = {} \/ home'[s] \notin folders'
  BY DEF FrozenKept, SightedIn
<1> USE DEF TypeOK, RowsOK, ForeignKeys, Exists, elements, sweeps
<1>0. /\ phase[s] \in {"unused", "open"} => frozen[s] = {}
      /\ phase[s] = "done" =>
           \A n \in notes : n \in frozen[s] => <<s, n>> \in sighted
      /\ phase[s] = "gone" => frozen[s] = {} \/ home[s] \notin folders
  BY DEF FrozenKept, SightedIn
<1>1. CASE UNCHANGED <<notes, folders, parent, phase, home, frozen, sighted>>
  BY <1>0, <1>1
<1>2. ASSUME NEW r \in Req, InsertSighting(r) \/ MoveNext(r)
      PROVE  /\ phase' = phase /\ frozen' = frozen /\ home' = home
             /\ folders' = folders /\ notes' = notes /\ sighted \subseteq sighted'
  BY <1>2 DEF InsertSighting, MoveNext
<1>3. ASSUME NEW r \in Req, MarkCompleted(r)
      PROVE  /\ phase'[s] \in {"unused", "open"} => frozen'[s] = {}
             /\ phase'[s] = "done" =>
                  \A n \in notes' : n \in frozen'[s] => <<s, n>> \in sighted'
             /\ phase'[s] = "gone" => frozen'[s] = {} \/ home'[s] \notin folders'
  <2>1. /\ notes' = notes /\ folders' = folders /\ home' = home
        /\ sighted' = sighted
    BY <1>3 DEF MarkCompleted
  <2>2. CASE s # req[r].sweep \/ ~ Exists(s)
    <3>1. phase'[s] = phase[s] /\ frozen'[s] = frozen[s]
      BY <1>3, <2>2 DEF MarkCompleted
    <3> QED
      BY <1>0, <2>1, <3>1
  <2>3. CASE s = req[r].sweep /\ phase[s] = "open"
    <3>1. phase'[s] = "done" /\ frozen'[s] = {n \in notes : <<s, n>> \in sighted}
      BY <1>3, <2>3 DEF MarkCompleted, SightedIn
    <3> QED
      BY <1>0, <2>1, <3>1
  <2>4. CASE s = req[r].sweep /\ phase[s] = "done"
    <3>1. phase'[s] = "done" /\ frozen'[s] = frozen[s]
      BY <1>3, <2>4 DEF MarkCompleted
    <3> QED
      BY <1>0, <2>1, <2>4, <3>1
  <2> QED
    BY <2>2, <2>3, <2>4
<1>4. ASSUME NEW r \in Req, DeleteIncomplete(r)
      PROVE  /\ phase'[s] \in {"unused", "open"} => frozen'[s] = {}
             /\ phase'[s] = "done" =>
                  \A n \in notes' : n \in frozen'[s] => <<s, n>> \in sighted'
             /\ phase'[s] = "gone" => frozen'[s] = {} \/ home'[s] \notin folders'
  BY <1>0, <1>4 DEF DeleteIncomplete, Cancellable
<1>5. ASSUME NEW t \in Sweep, NEW f \in Folder, CreateSweep(t, f)
      PROVE  /\ phase'[s] \in {"unused", "open"} => frozen'[s] = {}
             /\ phase'[s] = "done" =>
                  \A n \in notes' : n \in frozen'[s] => <<s, n>> \in sighted'
             /\ phase'[s] = "gone" => frozen'[s] = {} \/ home'[s] \notin folders'
  BY <1>0, <1>5 DEF CreateSweep
<1>6. ASSUME NEW n \in Note, NEW f \in Folder, MoveToFolder(n, f)
      PROVE  UNCHANGED <<notes, folders, phase, home, frozen, sighted>>
  BY <1>6 DEF MoveToFolder
<1>7. ASSUME NEW n \in Note, DeleteNote(n)
      PROVE  /\ UNCHANGED <<folders, phase, home, frozen>>
             /\ notes' \subseteq notes
             /\ \A p \in sighted : p[2] \in notes' => p \in sighted'
  BY <1>7 DEF DeleteNote
<1>8. ASSUME NEW f \in Folder, DeleteFolder(f)
      PROVE  /\ phase'[s] \in {"unused", "open"} => frozen'[s] = {}
             /\ phase'[s] = "done" =>
                  \A n \in notes' : n \in frozen'[s] => <<s, n>> \in sighted'
             /\ phase'[s] = "gone" => frozen'[s] = {} \/ home'[s] \notin folders'
  BY <1>0, <1>8 DEF DeleteFolder
<1> QED
  BY <1>0, <1>1, <1>2, <1>3, <1>4, <1>5, <1>6, <1>7, <1>8, RowsWritten

\* The steps by which a report comes about.
LEMMA ReportsHeld ==
    ASSUME TypeOK, [Next]_vars, NEW q \in Req
    PROVE  \/ req'[q] = req[q]
           \/ req'[q].pc \notin Completing
           \/ \E s \in Sweep : CompleteSweep(q, s)
           \/ MarkCompleted(q) \/ ListSightings(q)
           \/ ReportMissing(q) \/ HintLastSeen(q)
<1> DEFINE Written(r) == \E rec : /\ rec.pc \notin Completing
                                  /\ req' = [req EXCEPT ![r] = rec]
           Others(r) == \A x \in Req \ {r} : req'[x] = req[x]
<1> USE DEF TypeOK
<1>1. ASSUME NEW r \in Req, Written(r)
      PROVE  req'[q] = req[q] \/ req'[q].pc \notin Completing
  BY <1>1
<1> HIDE DEF Written
<1>2. ASSUME NEW r \in Req, Arrive(r), \A s \in Sweep : ~ CompleteSweep(r, s)
      PROVE  Written(r)
  BY <1>2 DEF Arrive, NumberNote, AddSighting, CancelSweep, ApplyMoves, Local,
       Completing, Written
<1>3. ASSUME NEW r \in Req, Step(r), ~ MarkCompleted(r), ~ ListSightings(r),
             ~ ReportMissing(r), ~ HintLastSeen(r)
      PROVE  Written(r)
  <2>0. req[r] \in Locals
    BY RequestFields
  <2>1. ASSUME NEW pc \in Pcs \ Completing, Goto(r, pc)
        PROVE  Written(r)
    <3>1. [req[r] EXCEPT !.pc = pc].pc \notin Completing
      BY <2>0 DEF Locals
    <3> QED
      BY <2>1, <3>1 DEF Goto, Written
  <2>2. CASE End(r)
    BY <2>2 DEF End, Blank, Local, Completing, Written
  <2>3. ASSUME NEW no, Answer(r, no)
        PROVE  Written(r)
    BY <2>3 DEF Answer, Local, Completing, Written
  <2>4. CASE FindNote(r) \/ SetMisses(r) \/ InsertSighting(r)
    BY <2>1, <2>2, <2>3, <2>4 DEF FindNote, SetMisses, InsertSighting, Pcs,
         AboutNote, Numbering, Completing
  <2>5. CASE GiveUp(r) \/ DeleteIncomplete(r)
    BY <2>2, <2>5 DEF GiveUp, Abort, DeleteIncomplete
  <2>6. CASE SetNumber(r)
    BY <2>3, <2>6 DEF SetNumber
  <2>7. ASSUME NEW k, req' = [req EXCEPT ![r].pc = "max", ![r].tries = k]
        PROVE  Written(r)
    <3>1. [req[r] EXCEPT !.pc = "max", !.tries = k].pc \notin Completing
      BY <2>0 DEF Locals, Completing
    <3> QED
      BY <2>7, <3>1 DEF Written
  <2>8. ASSUME NEW k, req' = [req EXCEPT ![r].pc = "set", ![r].no = k]
        PROVE  Written(r)
    <3>1. [req[r] EXCEPT !.pc = "set", !.no = k].pc \notin Completing
      BY <2>0 DEF Locals, Completing
    <3> QED
      BY <2>8, <3>1 DEF Written
  <2>9. CASE ReadMax(r)
    BY <2>8, <2>9 DEF ReadMax
  <2>10. CASE SetFails(r)
    BY <2>7, <2>10 DEF SetFails
  <2>11. CASE ReadBack(r)
    BY <2>3, <2>7, <2>11 DEF ReadBack
  <2>12. CASE MoveNext(r)
    BY <2>12 DEF MoveNext, End, Blank, Local, Completing, Written
  <2> QED
    BY <1>3, <2>4, <2>5, <2>6, <2>9, <2>10, <2>11, <2>12 DEF Step
<1>4. ASSUME NEW r \in Req, Fail(r)
      PROVE  Written(r)
  BY <1>4 DEF Fail, Abort, End, Blank, Local, Completing, Written
<1>5. CASE Library \/ Tick \/ UNCHANGED vars
  BY <1>5 DEF Library, Tick, vars, CreateSweep, MoveToFolder, DeleteNote, DeleteFolder
<1>6. ASSUME NEW r \in Req, q # r,
             \/ \E s \in Sweep : CompleteSweep(r, s)
             \/ MarkCompleted(r) \/ ListSightings(r)
             \/ ReportMissing(r) \/ HintLastSeen(r)
      PROVE  req'[q] = req[q]
  BY <1>6 DEF CompleteSweep, MarkCompleted, ListSightings, ReportMissing,
       HintLastSeen, Goto
<1> QED
  BY <1>1, <1>2, <1>3, <1>4, <1>5, <1>6 DEF Next

\* A sweep once created keeps its folder, and once completed what it froze.
LEMMA SweepsPersist ==
    ASSUME TypeOK, [Next]_vars, NEW s \in Sweep, phase[s] # "unused"
    PROVE  /\ phase'[s] # "unused" /\ home'[s] = home[s]
           /\ phase[s] \in {"done", "gone"} =>
                phase'[s] \in {"done", "gone"} /\ frozen'[s] = frozen[s]
           /\ notes' \subseteq notes /\ folders' \subseteq folders
<1> USE DEF TypeOK, RowsOK, Exists, elements, sweeps
<1>1. ASSUME NEW r \in Req, InsertSighting(r) \/ MoveNext(r)
      PROVE  UNCHANGED <<notes, folders, phase, home, frozen>>
  BY <1>1 DEF InsertSighting, MoveNext
<1>2. ASSUME NEW r \in Req, MarkCompleted(r) \/ DeleteIncomplete(r)
      PROVE  /\ phase'[s] # "unused"
             /\ phase[s] \in {"done", "gone"} =>
                  phase'[s] \in {"done", "gone"} /\ frozen'[s] = frozen[s]
             /\ UNCHANGED <<notes, folders, home>>
  BY <1>2 DEF MarkCompleted, DeleteIncomplete, Cancellable
<1>3. ASSUME NEW t \in Sweep, NEW f \in Folder, CreateSweep(t, f)
      PROVE  /\ phase'[s] = phase[s] /\ home'[s] = home[s]
             /\ UNCHANGED <<notes, folders, frozen>>
  BY <1>3 DEF CreateSweep
<1>4. ASSUME NEW n \in Note, NEW f \in Folder, MoveToFolder(n, f)
      PROVE  UNCHANGED <<notes, folders, phase, home, frozen>>
  BY <1>4 DEF MoveToFolder
<1>5. ASSUME NEW n \in Note, DeleteNote(n)
      PROVE  notes' \subseteq notes /\ UNCHANGED <<folders, phase, home, frozen>>
  BY <1>5 DEF DeleteNote
<1>6. ASSUME NEW f \in Folder, DeleteFolder(f)
      PROVE  /\ notes' \subseteq notes /\ folders' \subseteq folders
             /\ phase'[s] \in {phase[s], "gone"} /\ UNCHANGED <<home, frozen>>
  BY <1>6 DEF DeleteFolder
<1> QED
  BY <1>1, <1>2, <1>3, <1>4, <1>5, <1>6, RowsWritten

LEMMA ReportingStep ==
    TypeOK /\ ForeignKeys /\ FrozenKept /\ Reporting /\ [Next]_vars => Reporting'
<1> SUFFICES ASSUME TypeOK, ForeignKeys, FrozenKept, Reporting, [Next]_vars,
                    NEW q \in Req
             PROVE  ReportAt(q)'
  BY DEF Reporting
<1> DEFINE s == req[q].sweep
<1>0. /\ ReportAt(q)
      /\ req[q] \in Locals
      /\ req[q].pc \in AboutSweep => s \in Sweep
  BY RequestFields DEF Reporting, TypeOK
<1>1. CASE req'[q] = req[q]
  BY <1>0, <1>1, SweepsPersist DEF ReportAt, Completing
<1>2. CASE req'[q].pc \notin Completing
  BY <1>2 DEF ReportAt, Completing
<1>3. ASSUME NEW t \in Sweep, CompleteSweep(q, t)
      PROVE  ReportAt(q)'
  BY <1>3 DEF CompleteSweep, ReportAt, Completing, Local, sweeps, TypeOK
<1>4. CASE MarkCompleted(q)
  BY <1>0, <1>4 DEF MarkCompleted, ReportAt, Completing, Goto, TypeOK, RowsOK, Exists
<1>5. CASE ListSightings(q)
  <2>1. /\ req'[q].pc = "folderNotes" /\ req'[q].sweep = s
        /\ req'[q].seen = SightedIn(s)
    BY <1>0, <1>5 DEF ListSightings, Locals, TypeOK
  <2>2. UNCHANGED <<notes, folders, phase, home, frozen>>
    BY <1>5 DEF ListSightings, elements, sweeps
  <2>3. s \in Sweep /\ phase[s] \in {"done", "gone"}
    BY <1>0, <1>5 DEF ListSightings, ReportAt, Completing
  <2>4. frozen[s] \intersect notes \subseteq SightedIn(s) \/ home[s] \notin folders
    BY <2>3 DEF FrozenKept
  <2> QED
    BY <2>1, <2>2, <2>3, <2>4 DEF ReportAt, Completing
<1>6. CASE ReportMissing(q)
  <2>1. /\ req'[q].pc = "lastSeen" /\ req'[q].sweep = s
        /\ req'[q].missing = {n \in notes \ req[q].seen : parent[n] = home[s]}
    BY <1>0, <1>6 DEF ReportMissing, Locals, TypeOK
  <2>2. UNCHANGED <<phase, frozen>>
    BY <1>6 DEF ReportMissing, sweeps
  <2>3. /\ s \in Sweep /\ phase[s] \in {"done", "gone"}
        /\ frozen[s] \intersect notes \subseteq req[q].seen \/ home[s] \notin folders
    BY <1>0, <1>6 DEF ReportMissing, ReportAt, Completing
  <2>4. req'[q].missing \intersect frozen[s] = {}
    BY <2>1, <2>3 DEF ForeignKeys
  <2> QED
    BY <2>1, <2>2, <2>3, <2>4 DEF ReportAt, Completing
<1>7. CASE HintLastSeen(q)
  <2>1. /\ req'[q].pc = "report" /\ req'[q].sweep = s
        /\ req'[q].missing = req[q].missing
    BY <1>0, <1>7 DEF HintLastSeen, Locals, TypeOK
  <2>2. UNCHANGED <<phase, frozen>>
    BY <1>7 DEF HintLastSeen, sweeps
  <2>3. /\ s \in Sweep /\ phase[s] \in {"done", "gone"}
        /\ req[q].missing \intersect frozen[s] = {}
    BY <1>0, <1>7 DEF HintLastSeen, ReportAt, Completing
  <2> QED
    BY <2>1, <2>2, <2>3 DEF ReportAt, Completing
<1> QED
  BY <1>1, <1>2, <1>3, <1>4, <1>5, <1>6, <1>7, ReportsHeld

\* However sightings, moves and deletions race with CompleteSweep, its report
\* calls no note missing that the sweep had sighted when it was completed.
THEOREM InventoryNoSightedNoteMissing == Spec => []NoSightedNoteMissing
<1>1. Init => FrozenKept /\ Reporting
  BY DEF Init, FrozenKept, Reporting, ReportAt, Completing, Blank, Local
<1>2. Reporting => NoSightedNoteMissing
  BY DEF Reporting, ReportAt, NoSightedNoteMissing
<1> QED
  BY <1>1, <1>2, FrozenKeptStep, ReportingStep, InventoryTyped, InventoryForeignKeys,
     PTL DEF Spec

-----------------------------------------------------------------------------
(* The inventory screen.                                                   *)

\* What a handler that waits for its answer remembers.
Handlers ==
    {Idle} \union [pc : {"start"}, offline : BOOLEAN]
    \union [pc : {"record"}, sweep : ScreenSweep, note : ScreenNote]
    \union [pc : {"complete", "cancel"}, sweep : ScreenSweep]
    \union [pc : {"moves"}, sweep : ScreenSweep \union {NoScreenSweep}, report : Reports]

ScreenTyped ==
    /\ ScreenTypeOK
    /\ call \in [Call -> Handlers]
    /\ IsFiniteSet(Busy)

\* Nothing is recorded for a sweep before it exists, and what was recorded without an
\* answer was recorded.
RecordedInSweeps ==
    \A s \in ScreenSweep : /\ lost[s] \subseteq recorded[s]
                           /\ stage[s] = "unused" => recorded[s] = {}

\* A sweep that was started alone hears of no other: the handlers under way were called
\* for it, as its list, its dialogs and its buttons are all there is to call them.
OwnHandlers ==
    screenPhase = "sweeping" /\ ~ stale =>
        \A c \in Call : call[c].pc # "idle" =>
            /\ call[c].pc \in {"record", "complete", "cancel"}
            /\ call[c].sweep = sweep

ScreenInv == ScreenTyped /\ RecordedInSweeps /\ OwnHandlers /\ ListIsRecorded

\* What a call leaves of the others, and of the handlers that are busy.
LEMMA ScreenCalls ==
    ASSUME ScreenTyped, NEW c \in Call, NEW h \in Handlers, Calls(c, h)
    PROVE  /\ call' \in [Call -> Handlers] /\ IsFiniteSet(Busy')
           /\ call'[c] = h
           /\ \A d \in Call : d # c => call'[d] = call[d]
<1>1. Busy' \subseteq Busy \union {c}
  BY DEF Calls, Busy, ScreenTyped
<1>2. IsFiniteSet(Busy \union {c})
  BY FS_AddElement DEF ScreenTyped
<1> QED BY <1>1, <1>2, FS_Subset DEF Calls, ScreenTyped

LEMMA ScreenEnds ==
    ASSUME ScreenTyped, NEW c \in Call, Ends(c)
    PROVE  /\ call' \in [Call -> Handlers] /\ IsFiniteSet(Busy')
           /\ call'[c].pc = "idle"
           /\ \A d \in Call : d # c => call'[d] = call[d]
<1>1. Busy' \subseteq Busy
  BY DEF Ends, Busy, Idle, ScreenTyped
<1> QED BY <1>1, FS_Subset DEF Ends, ScreenTyped, Handlers, Idle

LEMMA ScreenStarts == ScreenInit => ScreenInv
<1> SUFFICES ASSUME ScreenInit PROVE ScreenInv
  OBVIOUS
<1>1. Busy = {}
  BY DEF ScreenInit, Busy, Idle
<1> QED BY <1>1, FS_EmptySet DEF ScreenInit, ScreenInv, ScreenTyped, ScreenTypeOK, Handlers,
        RecordedInSweeps, OwnHandlers, ListIsRecorded, Reports, NoReport,
        Section, NoPhoto, Idle

\* A step that records nothing, calls nothing and starts no sweep: photos, dialogs,
\* reports, pushes and the connection.
ScreenAside ==
    \/ handlePhoto \/ PhotoRead \/ PickCandidate \/ CloseDialog
    \/ \E section \in Section, n \in ScreenNote : dismiss(section, n)
    \/ Done \/ dismissSyncedReports \/ Connectivity
    \/ \E s \in ScreenSweep : Pushed(s) \/ OpenSynced(s)

LEMMA ScreenAsideStep ==
    ASSUME ScreenInv, ScreenAside
    PROVE  ScreenInv'
<1>1. /\ UNCHANGED <<recorded, lost, listed, call, stale>>
      /\ screenPhase' = "sweeping" => screenPhase = "sweeping" /\ sweep' = sweep
      /\ \A s \in ScreenSweep : stage'[s] = "unused" => stage[s] = "unused"
  BY DEF ScreenAside, ScreenInv, ScreenTyped, ScreenTypeOK, kept, screen,
     dialogs, screenHistory, handlePhoto, PhotoRead, PickCandidate,
     CloseDialog, dismiss, Done, dismissSyncedReports,
     Connectivity, Pushed, OpenSynced
<1>2. ScreenTypeOK'
  <2> USE DEF ScreenInv, ScreenTyped, ScreenTypeOK
  <2>1. CASE handlePhoto \/ PhotoRead \/ PickCandidate \/ CloseDialog
             \/ dismissSyncedReports \/ Connectivity
    BY <2>1 DEF kept, screen, dialogs, screenHistory, handlePhoto,
       PhotoRead, PickCandidate, CloseDialog, dismissSyncedReports,
       Connectivity, NoPhoto
  <2>2. CASE \E section \in Section, n \in ScreenNote : dismiss(section, n)
    BY <2>2 DEF kept, dialogs, screenHistory, dismiss, Reports
  <2>3. CASE Done
    BY <2>3 DEF kept, dialogs, screenHistory, Done, NoReport,
       Reports
  <2>4. CASE \E s \in ScreenSweep : Pushed(s) \/ OpenSynced(s)
    BY <2>4 DEF kept, dialogs, screenHistory, Pushed, OpenSynced,
       NoReport, Reports
  <2> QED BY <2>1, <2>2, <2>3, <2>4 DEF ScreenAside
<1> QED BY <1>1, <1>2 DEF ScreenInv, ScreenTyped, Busy, RecordedInSweeps, OwnHandlers,
        ListIsRecorded, ScreenTypeOK

\* A handler is called. Only the buttons of a sweep are there while one is on screen.
ScreenCalling(c) ==
    \/ startSweep(c) \/ recordSighting(c) \/ completeSweep(c)
    \/ cancelSweep(c) \/ applyMoves(c)

LEMMA ScreenCallingStep ==
    ASSUME ScreenInv, NEW c \in Call, ScreenCalling(c)
    PROVE  ScreenInv'
<1>1. UNCHANGED <<online, kept, screen, screenHistory>>
  BY DEF ScreenCalling, startSweep, recordSighting, completeSweep,
     cancelSweep, applyMoves
<1>2. PICK h \in Handlers :
        /\ Calls(c, h)
        /\ screenPhase = "sweeping" =>
             h.pc \in {"record", "complete", "cancel"} /\ h.sweep = sweep
  <2> USE DEF Handlers, ScreenInv, ScreenTyped, ScreenTypeOK
  <2>1. CASE startSweep(c)
    BY <2>1 DEF startSweep
  <2>2. CASE recordSighting(c)
    BY <2>2 DEF recordSighting
  <2>3. CASE completeSweep(c)
    BY <2>3 DEF completeSweep
  <2>4. CASE cancelSweep(c)
    BY <2>4 DEF cancelSweep
  <2>5. CASE applyMoves(c)
    BY <2>5 DEF applyMoves
  <2> QED BY <2>1, <2>2, <2>3, <2>4, <2>5 DEF ScreenCalling
<1>3. /\ call' \in [Call -> Handlers] /\ IsFiniteSet(Busy')
      /\ call'[c] = h /\ \A d \in Call : d # c => call'[d] = call[d]
  BY <1>2, ScreenCalls DEF ScreenInv
<1> QED BY <1>1, <1>2, <1>3 DEF ScreenInv, ScreenTyped, ScreenTypeOK, kept,
        screen, dialogs, screenHistory, RecordedInSweeps, OwnHandlers,
        ListIsRecorded

\* A handler ends without an effect on the sweep on screen but that it may leave it.
ScreenEnding(c) ==
    \/ StartFails(c) \/ SweepCompleted(c) \/ SweepCancelled(c)
    \/ EndFails(c) \/ MovesApplied(c) \/ MovesFail(c)

LEMMA ScreenEndingStep ==
    ASSUME ScreenInv, NEW c \in Call, ScreenEnding(c)
    PROVE  ScreenInv'
<1>1. Ends(c)
  BY DEF ScreenEnding, StartFails, SweepCompleted, SweepCancelled,
     EndFails, MovesApplied, MovesFail
<1>2. /\ call' \in [Call -> Handlers] /\ IsFiniteSet(Busy')
      /\ call'[c].pc = "idle" /\ \A d \in Call : d # c => call'[d] = call[d]
  BY <1>1, ScreenEnds DEF ScreenInv
<1>3. /\ UNCHANGED <<recorded, lost, stale>>
      /\ screenPhase' = "sweeping" => screenPhase = "sweeping" /\ sweep' = sweep /\ listed' = listed
      /\ \A s \in ScreenSweep : stage'[s] = "unused" => stage[s] = "unused"
  BY DEF ScreenEnding, ScreenInv, ScreenTyped, ScreenTypeOK, kept, screen,
     screenHistory, StartFails, SweepCompleted, SweepCancelled,
     EndFails, MovesApplied, MovesFail
<1>4. ScreenTypeOK'
  <2>1. call[c] \in Handlers
    BY DEF ScreenInv, ScreenTyped
  <2> USE <2>1 DEF Handlers, ScreenInv, ScreenTyped, ScreenTypeOK, kept, screen,
         dialogs, screenHistory, Idle
  <2>2. CASE StartFails(c)
    BY <2>2 DEF StartFails
  <2>3. CASE SweepCompleted(c)
    BY <2>3 DEF SweepCompleted, Reports, Section
  <2>4. CASE SweepCancelled(c)
    BY <2>4 DEF SweepCancelled
  <2>5. CASE EndFails(c)
    BY <2>5 DEF EndFails
  <2>6. CASE MovesApplied(c)
    BY <2>6 DEF MovesApplied, Reports, Section
  <2>7. CASE MovesFail(c)
    BY <2>7 DEF MovesFail
  <2> QED BY <2>2, <2>3, <2>4, <2>5, <2>6, <2>7 DEF ScreenEnding
<1> QED BY <1>2, <1>3, <1>4 DEF ScreenInv, ScreenTyped, RecordedInSweeps, OwnHandlers,
        ListIsRecorded, ScreenTypeOK

\* The answer of a start: the new sweep is empty, and if nothing else was under way,
\* nothing is.
LEMMA ScreenCreatedStep ==
    ASSUME ScreenInv, NEW c \in Call, NEW s \in ScreenSweep, SweepCreated(c, s)
    PROVE  ScreenInv'
<1> USE DEF SweepCreated, ShowSweep
<1>1. /\ call' \in [Call -> Handlers] /\ IsFiniteSet(Busy')
      /\ call'[c].pc = "idle" /\ \A d \in Call : d # c => call'[d] = call[d]
  BY ScreenEnds DEF ScreenInv
<1>2. ScreenTypeOK'
  <2>1. stage' \in [ScreenSweep -> {"unused", "open", "completed", "gone"}]
    BY DEF ScreenInv, ScreenTyped, ScreenTypeOK
  <2>2. local' \subseteq ScreenSweep
    BY DEF ScreenInv, ScreenTyped, ScreenTypeOK
  <2>3. stale' \in BOOLEAN
    OBVIOUS
  <2>4. /\ screenPhase' = "sweeping" /\ sweep' = s /\ listed' = {}
        /\ UNCHANGED <<online, recorded, report, dialogs, scanning, synced, lost>>
    OBVIOUS
  <2> HIDE DEF SweepCreated, ShowSweep
  <2> QED BY <2>1, <2>2, <2>3, <2>4 DEF ScreenInv, ScreenTyped, ScreenTypeOK, dialogs
<1>3. RecordedInSweeps'
  <2>1. \A x \in ScreenSweep : stage'[x] = "unused" => stage[x] = "unused"
    OBVIOUS
  <2>2. UNCHANGED <<recorded, lost>>
    OBVIOUS
  <2> QED BY <2>1, <2>2 DEF ScreenInv, RecordedInSweeps
<1>4. ~ stale' => \A d \in Call : call'[d].pc = "idle"
  <2> SUFFICES ASSUME ~ (Cardinality(Busy) > 1), NEW d \in Call, call[d].pc # "idle", d # c
               PROVE  FALSE
    BY <1>1
  <2>1. {c, d} \subseteq Busy
    BY DEF Busy
  <2>2. Cardinality({c, d}) <= Cardinality(Busy)
    BY <2>1, FS_Subset DEF ScreenInv, ScreenTyped
  <2>3. Cardinality({c, d}) = 2
    <3> DEFINE one == {d}
    <3>1. IsFiniteSet(one) /\ Cardinality(one) = 1
      BY FS_Singleton
    <3>2. c \notin one /\ one \union {c} = {c, d}
      OBVIOUS
    <3> HIDE DEF one
    <3>3. Cardinality(one \union {c}) = Cardinality(one) + 1
      BY <3>1, <3>2, FS_AddElement, Zenon
    <3> QED BY <3>1, <3>2, <3>3
  <2>4. Cardinality(Busy) \in Nat
    BY FS_CardinalityType DEF ScreenInv, ScreenTyped
  <2> QED BY <2>2, <2>3, <2>4
<1>5. OwnHandlers'
  BY <1>4 DEF OwnHandlers
<1>6. ListIsRecorded'
  BY DEF ScreenInv, RecordedInSweeps, ListIsRecorded
<1> QED BY <1>1, <1>2, <1>3, <1>5, <1>6 DEF ScreenInv, ScreenTyped

\* The answer of a sighting, or none: the list and the records grow alike.
LEMMA ScreenSightingStep ==
    ASSUME ScreenInv, NEW c \in Call, SightingAnswered(c) \/ SightingFails(c)
    PROVE  ScreenInv'
<1>1. Ends(c)
  BY DEF SightingAnswered, SightingFails
<1>2. /\ call' \in [Call -> Handlers] /\ IsFiniteSet(Busy')
      /\ call'[c].pc = "idle" /\ \A d \in Call : d # c => call'[d] = call[d]
  BY <1>1, ScreenEnds DEF ScreenInv
<1>3. call[c].pc = "record" /\ call[c].sweep \in ScreenSweep /\ call[c].note \in ScreenNote
  <2>1. call[c] \in Handlers
    BY DEF ScreenInv, ScreenTyped
  <2>2. call[c].pc = "record"
    BY DEF SightingAnswered, SightingFails
  <2> QED BY <2>1, <2>2 DEF Handlers, Idle
<1> DEFINE s == call[c].sweep
           n == call[c].note
<1>4. UNCHANGED <<online, stage, local, screenPhase, sweep, report, scanning, synced, stale>>
  BY DEF SightingAnswered, SightingFails, screen, screenHistory
<1>5. CASE SightingAnswered(c)
  <2>1. ScreenTypeOK'
    BY <1>3, <1>4, <1>5 DEF SightingAnswered, ScreenInv, ScreenTyped, ScreenTypeOK, screenHistory
  <2>2. RecordedInSweeps'
    BY <1>3, <1>4, <1>5 DEF SightingAnswered, ScreenInv, ScreenTyped, ScreenTypeOK,
       screenHistory, RecordedInSweeps
  <2>3. ListIsRecorded'
    BY <1>3, <1>4, <1>5 DEF SightingAnswered, ScreenInv, ScreenTyped, ScreenTypeOK,
       screenHistory, RecordedInSweeps, OwnHandlers, ListIsRecorded
  <2> QED BY <1>2, <1>4, <2>1, <2>2, <2>3 DEF ScreenInv, ScreenTyped, OwnHandlers
<1>6. CASE SightingFails(c)
  <2>1. ScreenTypeOK'
    BY <1>3, <1>4, <1>6 DEF SightingFails, ScreenInv, ScreenTyped, ScreenTypeOK, screen, dialogs
  <2>2. RecordedInSweeps'
    BY <1>3, <1>4, <1>6 DEF SightingFails, ScreenInv, ScreenTyped, ScreenTypeOK,
       RecordedInSweeps
  <2>3. ListIsRecorded'
    BY <1>3, <1>4, <1>6 DEF SightingFails, screen, ScreenInv, ScreenTyped, ScreenTypeOK,
       RecordedInSweeps, OwnHandlers, ListIsRecorded
  <2> QED BY <1>2, <1>4, <2>1, <2>2, <2>3 DEF ScreenInv, ScreenTyped, OwnHandlers
<1> QED BY <1>5, <1>6

LEMMA ScreenStep ==
    ASSUME ScreenInv, [ScreenNext]_screenVars
    PROVE  ScreenInv'
<1>1. CASE UNCHANGED screenVars
  BY <1>1 DEF screenVars, kept, screen, dialogs, screenHistory, ScreenInv, ScreenTyped,
     ScreenTypeOK, Busy, RecordedInSweeps, OwnHandlers, ListIsRecorded
<1>2. CASE ScreenNext
  BY <1>2, ScreenAsideStep, ScreenCallingStep, ScreenEndingStep, ScreenCreatedStep,
     ScreenSightingStep DEF ScreenNext, ScreenAside, ScreenCalling, ScreenEnding
<1> QED BY <1>1, <1>2

\* InventoryView.tsx:147-203: while a sweep is on screen that was started with nothing else
\* under way, its list is what was recorded for it but for lost answers, for any number of
\* handlers, notes and sweeps and in whatever order their answers come.
THEOREM ScreenListIsRecorded == ScreenSpec => [](ScreenTypeOK /\ ListIsRecorded)
<1>1. ScreenInv => ScreenTypeOK /\ ListIsRecorded
  BY DEF ScreenInv, ScreenTyped
<1> QED BY <1>1, ScreenStarts, ScreenStep, PTL DEF ScreenSpec

-----------------------------------------------------------------------------
(* Turning pages. First playerNav.ts alone, for any page counts.           *)

\* The first page of a spread: not after the page, not before page 1, and one a
\* spread may start with.
LEMMA SpreadStarts ==
    ASSUME NEW spread \in {1, 2}, NEW page \in Nat \ {0}
    PROVE  /\ spreadStart(page, spread) \in 1..page
           /\ page < spreadStart(page, spread) + spread
           /\ spreadStart(spreadStart(page, spread), spread) = spreadStart(page, spread)
           /\ spreadStart(spreadStart(page, spread) + spread, spread)
                = spreadStart(page, spread) + spread
           /\ spreadStart(page, spread) > 1 => spreadStart(page, spread) - spread >= 1
           /\ spreadStart(1, spread) = 1
<1>1. CASE spread = 1
  BY <1>1 DEF spreadStart, Greatest
<1>2. CASE spread = 2
  BY <1>2 DEF spreadStart, Greatest
<1> QED BY <1>1, <1>2

LEMMA EffectivePages ==
    ASSUME NEW n \in Nat
    PROVE  effectivePages(n) \in Nat \ {0} /\ (n # 0 => effectivePages(n) = n)
BY DEF effectivePages, Greatest

\* A clamped position: in a piece that is there, at the start of a spread of it.
InPlace(pos, counts, spread) ==
    /\ pos \in Position
    /\ pos.piece < Len(counts)
    /\ pos.page <= effectivePages(counts[pos.piece + 1])
    /\ spreadStart(pos.page, spread) = pos.page
    /\ pos.page > 1 => pos.page - spread >= 1

LEMMA Clamps ==
    ASSUME NEW spread \in {1, 2}, NEW counts \in Seq(Nat), counts # <<>>,
           NEW pos \in Position
    PROVE  /\ InPlace(clampPosition(pos, counts, spread), counts, spread)
           /\ pos.piece < Len(counts) => clampPosition(pos, counts, spread).piece = pos.piece
<1> DEFINE piece == Least(Greatest(0, pos.piece), Len(counts) - 1)
           pages == effectivePages(counts[piece + 1])
           page  == Least(Greatest(1, pos.page), pages)
<1>1. Len(counts) \in Nat \ {0}
  BY EmptySeq
<1>2. piece \in 0..(Len(counts) - 1) /\ (pos.piece < Len(counts) => piece = pos.piece)
  BY <1>1 DEF Least, Greatest, Position
<1>3. counts[piece + 1] \in Nat
  BY <1>1, <1>2
<1>4. pages \in Nat \ {0}
  BY <1>3, EffectivePages
<1>5. page \in 1..pages
  BY <1>4 DEF Least, Greatest, Position
<1>6. clampPosition(pos, counts, spread) = [piece |-> piece, page |-> spreadStart(page, spread)]
  BY DEF clampPosition
<1> HIDE DEF piece, pages, page
<1>7. page \in Nat \ {0}
  BY <1>4, <1>5
<1>8. /\ spreadStart(page, spread) \in 1..page
      /\ spreadStart(spreadStart(page, spread), spread) = spreadStart(page, spread)
      /\ spreadStart(page, spread) > 1 => spreadStart(page, spread) - spread >= 1
  BY <1>7, SpreadStarts
<1>9. pages = effectivePages(counts[piece + 1])
  BY DEF pages
<1> QED BY <1>1, <1>2, <1>4, <1>5, <1>6, <1>7, <1>8, <1>9 DEF InPlace, Position

\* Clamping leaves a position in place where it is.
LEMMA StaysInPlace ==
    ASSUME NEW spread \in {1, 2}, NEW counts \in Seq(Nat),
           NEW pos, InPlace(pos, counts, spread)
    PROVE  clampPosition(pos, counts, spread) = pos
<1>1. /\ pos \in Position /\ pos.piece \in Nat /\ pos.page \in Nat \ {0}
      /\ pos = [piece |-> pos.piece, page |-> pos.page]
  BY DEF InPlace, Position
<1>2. Len(counts) \in Nat /\ pos.piece < Len(counts) /\ counts # <<>>
  BY <1>1, EmptySeq DEF InPlace
<1>3. Least(Greatest(0, pos.piece), Len(counts) - 1) = pos.piece
  BY <1>1, <1>2 DEF Least, Greatest
<1>4. effectivePages(counts[pos.piece + 1]) \in Nat \ {0}
  BY <1>1, <1>2, EffectivePages
<1>5. Least(Greatest(1, pos.page), effectivePages(counts[pos.piece + 1])) = pos.page
  BY <1>1, <1>4 DEF Least, Greatest, InPlace
<1>6. clampPosition(pos, counts, spread)
        = [piece |-> pos.piece, page |-> spreadStart(pos.page, spread)]
  BY <1>2, <1>3, <1>5 DEF clampPosition
<1> QED BY <1>1, <1>6 DEF InPlace

\* The spread that holds page n starts with the page at or before it that may.
LEMMA SpreadHolds ==
    ASSUME NEW spread \in {1, 2}, NEW page \in Nat \ {0}, NEW n \in Nat \ {0},
           spreadStart(page, spread) = page, page <= n, n < page + spread
    PROVE  spreadStart(n, spread) = page
<1>1. CASE spread = 1
  BY <1>1 DEF spreadStart, Greatest
<1>2. CASE spread = 2
  BY <1>2 DEF spreadStart, Greatest
<1> QED BY <1>1, <1>2

\* Where a turn leads to, and back.
LEMMA TurnsOn ==
    ASSUME NEW spread \in {1, 2}, NEW counts \in Seq(Nat),
           NEW pos, InPlace(pos, counts, spread), NEW to \in nextPosition(pos, counts, spread)
    PROVE  InPlace(to, counts, spread) /\ prevPosition(to, counts, spread) = {pos}
<1> DEFINE pages == effectivePages(counts[pos.piece + 1])
<1>1. /\ pos.piece \in Nat /\ pos.page \in Nat \ {0}
      /\ pos = [piece |-> pos.piece, page |-> pos.page]
  BY DEF InPlace, Position
<1>2. Len(counts) \in Nat /\ pos.piece < Len(counts)
  BY DEF InPlace
<1>3. pages \in Nat \ {0} /\ pos.page <= pages
  BY <1>1, <1>2, EffectivePages DEF InPlace
<1>4. clampPosition(pos, counts, spread) = pos
  BY StaysInPlace
<1>5. spreadStart(pos.page, spread) = pos.page
  BY DEF InPlace
<1>6. CASE /\ pos.page + spread <= pages
           /\ to = [piece |-> pos.piece, page |-> pos.page + spread]
  <2>1. spreadStart(pos.page + spread, spread) = pos.page + spread
    BY <1>1, <1>5, SpreadStarts
  <2>2. InPlace(to, counts, spread)
    BY <1>1, <1>2, <1>6, <2>1 DEF InPlace, Position
  <2>3. clampPosition(to, counts, spread) = to
    BY <2>2, StaysInPlace
  <2>4. to.page > 1 /\ Greatest(1, to.page - spread) = pos.page /\ to.piece = pos.piece
    BY <1>1, <1>6 DEF Greatest
  <2>5. prevPosition(to, counts, spread) = {[piece |-> pos.piece, page |-> pos.page]}
    BY <2>3, <2>4 DEF prevPosition
  <2> QED BY <1>1, <2>2, <2>5
<1>7. CASE /\ pos.page + spread > pages /\ pos.piece + 1 < Len(counts)
           /\ to = [piece |-> pos.piece + 1, page |-> 1]
  <2>1. counts[pos.piece + 2] \in Nat /\ effectivePages(counts[pos.piece + 2]) >= 1
    BY <1>1, <1>2, <1>7, EffectivePages
  <2>2. spreadStart(1, spread) = 1
    BY DEF spreadStart, Greatest
  <2>3. InPlace(to, counts, spread)
    BY <1>1, <1>2, <1>7, <2>1, <2>2 DEF InPlace, Position
  <2>4. clampPosition(to, counts, spread) = to
    BY <2>3, StaysInPlace
  <2>5. ~ (to.page > 1) /\ to.piece > 0 /\ to.piece - 1 = pos.piece
    BY <1>1, <1>7
  <2>6. lastSpreadStart(counts[to.piece], spread) = pos.page
    BY <1>1, <1>3, <1>5, <1>7, SpreadHolds DEF lastSpreadStart
  <2>7. prevPosition(to, counts, spread) = {[piece |-> pos.piece, page |-> pos.page]}
    BY <2>4, <2>5, <2>6 DEF prevPosition
  <2> QED BY <1>1, <2>3, <2>7
<1>8. \/ /\ pos.page + spread <= pages
         /\ to = [piece |-> pos.piece, page |-> pos.page + spread]
      \/ /\ pos.page + spread > pages /\ pos.piece + 1 < Len(counts)
         /\ to = [piece |-> pos.piece + 1, page |-> 1]
  <2>1. to \in IF counts = <<>> THEN {}
               ELSE IF pos.page + spread <= pages
                    THEN {[piece |-> pos.piece, page |-> pos.page + spread]}
                    ELSE IF pos.piece + 1 < Len(counts)
                         THEN {[piece |-> pos.piece + 1, page |-> 1]} ELSE {}
    BY <1>4 DEF nextPosition
  <2>2. pos.page + spread <= pages \/ pos.page + spread > pages
    BY <1>1, <1>3
  <2> QED BY <2>1, <2>2
<1> QED BY <1>6, <1>7, <1>8

-----------------------------------------------------------------------------
(* The player.                                                             *)

\* Documents are there of PDFs only.
PlayerInv == PlayerTypeOK /\ \A p \in Piece : docs[p] # "none" => hasPdf(p)

LEMMA SpreadTyped ==
    ASSUME NEW mode \in {"auto", "single", "double"}, NEW wide \in BOOLEAN
    PROVE  spreadOf(mode, wide) \in {1, 2}
BY DEF spreadOf, autoSpread

\* The counts a render uses.
LEMMA CountsTyped ==
    ASSUME PlayerBounds, numPages \in [Piece -> 0..MaxPages],
           NEW d \in [Piece -> {"none", "loading", "ready", "error"}],
           NEW pl \in {"loading", "ready", "error"}
    PROVE  /\ CountsOf(pl, d) \in Seq(Nat)
           /\ pl # "ready" => CountsOf(pl, d) = <<>>
           /\ pl = "ready" =>
                /\ CountsOf(pl, d) # <<>> /\ Len(CountsOf(pl, d)) = Length
                /\ \A p \in Piece : CountsOf(pl, d)[p + 1] =
                                      IF d[p] = "ready" THEN numPages[p] ELSE 1
<1>1. CASE pl # "ready"
  BY <1>1 DEF CountsOf
<1>2. CASE pl = "ready"
  <2> DEFINE counts == [i \in 1..Length |-> IF d[i - 1] = "ready" THEN numPages[i - 1] ELSE 1]
  <2>1. Length \in Nat \ {0} /\ MaxPages \in Nat
    BY DEF PlayerBounds
  <2>2. \A i \in 1..Length : i - 1 \in Piece /\ counts[i] \in Nat
    BY <2>1 DEF Piece
  <2>3. counts \in Seq(Nat) /\ Len(counts) = Length
    BY <2>1, <2>2
  <2>4. \A p \in Piece : p + 1 \in 1..Length /\ (p + 1) - 1 = p
    BY <2>1 DEF Piece
  <2>5. counts # <<>>
    BY <2>1, <2>3
  <2>6. CountsOf(pl, d) = counts
    BY <1>2 DEF CountsOf
  <2> QED BY <1>2, <2>3, <2>4, <2>5, <2>6
<1> QED BY <1>1, <1>2

LEMMA ClampTyped ==
    ASSUME NEW spread \in {1, 2}, NEW counts \in Seq(Nat), NEW pos \in Position
    PROVE  clampPosition(pos, counts, spread) \in Position
<1>1. CASE counts = <<>>
  BY <1>1 DEF clampPosition, Position
<1>2. CASE counts # <<>>
  BY <1>2, Clamps DEF InPlace
<1> QED BY <1>1, <1>2

\* Where turns lead to are positions.
LEMMA TurnsTyped ==
    ASSUME NEW spread \in {1, 2}, NEW counts \in Seq(Nat), NEW pos \in Position
    PROVE  /\ nextPosition(pos, counts, spread) \subseteq Position
           /\ prevPosition(pos, counts, spread) \subseteq Position
<1> DEFINE cur == clampPosition(pos, counts, spread)
<1>1. cur \in Position
  BY ClampTyped
<1>2. cur.piece \in Nat /\ cur.page \in Nat \ {0}
  BY <1>1 DEF Position
<1> HIDE DEF cur
<1>3. \A to \in nextPosition(pos, counts, spread) :
         to \in {[piece |-> cur.piece, page |-> cur.page + spread],
                 [piece |-> cur.piece + 1, page |-> 1]}
  BY DEF nextPosition, cur
<1>4. nextPosition(pos, counts, spread) \subseteq Position
  BY <1>2, <1>3 DEF Position
<1>5. CASE cur.page > 1
  <2>1. prevPosition(pos, counts, spread)
          = {[piece |-> cur.piece, page |-> Greatest(1, cur.page - spread)]}
    BY <1>5 DEF prevPosition, cur
  <2>2. Greatest(1, cur.page - spread) \in Nat \ {0}
    BY <1>2 DEF Greatest
  <2> QED BY <1>2, <1>4, <2>1, <2>2 DEF Position
<1>6. CASE ~ (cur.page > 1) /\ cur.piece > 0
  <2>1. prevPosition(pos, counts, spread)
          = {[piece |-> cur.piece - 1, page |-> lastSpreadStart(counts[cur.piece], spread)]}
    BY <1>6 DEF prevPosition, cur
  <2>2. counts # <<>>
    BY <1>6 DEF cur, clampPosition
  <2>3. cur.piece < Len(counts) /\ Len(counts) \in Nat
    BY <2>2, Clamps DEF InPlace, cur
  <2>4. counts[cur.piece] \in Nat
    BY <1>2, <1>6, <2>3
  <2>5. effectivePages(counts[cur.piece]) \in Nat \ {0}
    BY <2>4, EffectivePages
  <2>6. spreadStart(effectivePages(counts[cur.piece]), spread)
          \in 1..effectivePages(counts[cur.piece])
    BY ONLY spread \in {1, 2}, <2>5, SpreadStarts
  <2>7. lastSpreadStart(counts[cur.piece], spread) \in Nat \ {0}
    BY <2>5, <2>6 DEF lastSpreadStart
  <2> QED BY <1>2, <1>4, <1>6, <2>1, <2>7 DEF Position
<1>7. CASE ~ (cur.page > 1) /\ ~ (cur.piece > 0)
  <2>1. prevPosition(pos, counts, spread) = {}
    BY <1>7 DEF prevPosition, cur
  <2> QED BY <1>4, <2>1
<1> QED BY <1>5, <1>6, <1>7

Mode == {"auto", "single", "double"}
Loading == {"loading", "ready", "error"}
PagesOpen == {"none", "loading", "ready", "error"}

\* Documents d of the pieces are typed and there are none without a PDF.
DocsTyped(d) == d \in [Piece -> PagesOpen] /\ \A p \in Piece : d[p] # "none" => hasPdf(p)

\* What a render leaves behind.
LEMMA Renders ==
    ASSUME PlayerBounds, numPages \in [Piece -> 0..MaxPages], UNCHANGED numPages,
           NEW pl \in Loading, NEW d, DocsTyped(d), NEW pos \in Position,
           NEW mode \in Mode, NEW wide \in BOOLEAN,
           Rendered(pl, d, pos, mode, wide)
    PROVE  /\ playlist' \in Loading /\ raw' \in Position /\ stored' \in Position
           /\ spreadMode' \in Mode /\ landscape' \in BOOLEAN
           /\ docs' \in [Piece -> PagesOpen]
           /\ \A p \in Piece : docs'[p] # "none" => hasPdf(p)'
<1>1. spreadOf(mode, wide) \in {1, 2}
  BY SpreadTyped DEF Mode
<1>2. CountsOf(pl, d) \in Seq(Nat)
  BY CountsTyped DEF Loading, DocsTyped, PagesOpen
<1>3. clampPosition(pos, CountsOf(pl, d), spreadOf(mode, wide)) \in Position
  BY <1>1, <1>2, ClampTyped
<1> DEFINE piece == clampPosition(pos, CountsOf(pl, d), spreadOf(mode, wide)).piece
<1>4. docs' = ensureDoc(pl, d, piece)
  BY DEF Rendered
<1> HIDE DEF piece
<1>5. /\ docs' \in [Piece -> PagesOpen]
      /\ \A p \in Piece : docs'[p] # "none" => hasPdf(p)
  BY <1>4 DEF ensureDoc, DocsTyped, PagesOpen
<1>6. \A p \in Piece : hasPdf(p)' = hasPdf(p)
  BY DEF hasPdf
<1> QED BY <1>3, <1>5, <1>6 DEF Rendered

\* The panels, which no render touches.
PanelsTyped == {menuOpen, setlistOpen, atEnd, annotating, mounted} \subseteq BOOLEAN

\* A step that renders keeps the invariant.
LEMMA RenderKeeps ==
    ASSUME PlayerBounds, PlayerInv, UNCHANGED numPages, PanelsTyped',
           NEW pl \in Loading, NEW d, DocsTyped(d), NEW pos \in Position,
           NEW mode \in Mode, NEW wide \in BOOLEAN,
           Rendered(pl, d, pos, mode, wide)
    PROVE  PlayerInv'
<1>1. /\ playlist' \in Loading /\ raw' \in Position /\ stored' \in Position
      /\ spreadMode' \in Mode /\ landscape' \in BOOLEAN
      /\ docs' \in [Piece -> PagesOpen]
      /\ \A p \in Piece : docs'[p] # "none" => hasPdf(p)'
  BY Renders DEF PlayerInv, PlayerTypeOK
<1> QED BY <1>1 DEF PlayerInv, PlayerTypeOK, PanelsTyped, Loading, Mode, PagesOpen

\* So does one that renders nothing and leaves pages and documents alone.
LEMMA PanelsKeep ==
    ASSUME PlayerInv, PanelsTyped',
           UNCHANGED <<numPages, playlist, raw, stored, docs, spreadMode, landscape>>
    PROVE  PlayerInv'
BY DEF PlayerInv, PlayerTypeOK, PanelsTyped, hasPdf

\* What is on screen.
LEMMA OnScreen ==
    ASSUME PlayerBounds, PlayerInv
    PROVE  /\ Spread \in {1, 2} /\ Counts \in Seq(Nat) /\ raw \in Position
           /\ playlist \in Loading /\ spreadMode \in Mode /\ landscape \in BOOLEAN
           /\ DocsTyped(docs) /\ PanelsTyped
           /\ position \in Position
           /\ playlist # "ready" => Counts = <<>>
           /\ playlist = "ready" =>
                /\ Counts # <<>> /\ Len(Counts) = Length
                /\ \A p \in Piece : Counts[p + 1] =
                                      IF docs[p] = "ready" THEN numPages[p] ELSE 1
                /\ InPlace(position, Counts, Spread)
<1>1. /\ raw \in Position /\ playlist \in Loading /\ spreadMode \in Mode
      /\ landscape \in BOOLEAN /\ DocsTyped(docs) /\ PanelsTyped
  BY DEF PlayerInv, PlayerTypeOK, Loading, Mode, DocsTyped, PagesOpen, PanelsTyped
<1>2. Spread \in {1, 2}
  BY <1>1, SpreadTyped DEF Spread, Mode
<1>3. /\ Counts \in Seq(Nat)
      /\ playlist # "ready" => Counts = <<>>
      /\ playlist = "ready" =>
           /\ Counts # <<>> /\ Len(Counts) = Length
           /\ \A p \in Piece : Counts[p + 1] =
                                 IF docs[p] = "ready" THEN numPages[p] ELSE 1
  BY CountsTyped DEF Counts, PlayerInv, PlayerTypeOK
<1>4. position \in Position
  BY <1>1, <1>2, <1>3, ClampTyped DEF position
<1>5. playlist = "ready" => InPlace(position, Counts, Spread)
  BY <1>1, <1>2, <1>3, Clamps DEF position
<1> QED BY <1>1, <1>2, <1>3, <1>4, <1>5

LEMMA TurnKeeps ==
    ASSUME PlayerBounds, PlayerInv, NEW action \in {"next", "prev"}, go(action)
    PROVE  PlayerInv'
<1> DEFINE target == IF action = "next" THEN nextPosition(position, Counts, Spread)
                     ELSE prevPosition(position, Counts, Spread)
<1>1. target \subseteq Position
  BY OnScreen, TurnsTyped
<1>2. PanelsTyped'
  <2>1. atEnd' \in BOOLEAN
    BY DEF go, PlayerInv, PlayerTypeOK
  <2> QED BY <2>1 DEF go, panels, PlayerInv, PlayerTypeOK, PanelsTyped
<1>3. CASE target # {}
  <2>1. PICK pos \in target : Rendered(playlist, docs, pos, spreadMode, landscape)
    BY <1>3 DEF go
  <2>2. pos \in Position
    BY <1>1
  <2>3. UNCHANGED numPages
    BY DEF go
  <2> HIDE DEF target
  <2> QED BY <1>2, <2>1, <2>2, <2>3, RenderKeeps, OnScreen
<1>4. CASE target = {}
  <2>1. UNCHANGED <<numPages, playlist, raw, stored, docs, spreadMode, landscape>>
    BY <1>4 DEF go
  <2> QED BY <1>2, <2>1, PanelsKeep
<1> QED BY <1>3, <1>4

LEMMA PlayerStep ==
    ASSUME PlayerBounds, PlayerInv, [PlayerNext]_playerVars
    PROVE  PlayerInv'
<1>0. /\ raw \in Position /\ playlist \in Loading /\ spreadMode \in Mode
      /\ landscape \in BOOLEAN /\ DocsTyped(docs) /\ PanelsTyped /\ stored \in Position
  BY OnScreen DEF PlayerInv, PlayerTypeOK
<1>1. CASE Open
  <2>1. PICK start \in {stored} \union {[piece |-> p, page |-> 1] : p \in Piece} :
            Rendered("loading", NoDocs, start, spreadMode, landscape)
    BY <1>1 DEF Open
  <2>2. start \in Position
    BY <1>0, <2>1 DEF Position, Piece, PlayerBounds
  <2>3. DocsTyped(NoDocs)
    BY DEF DocsTyped, NoDocs, PagesOpen
  <2>4. PanelsTyped' /\ UNCHANGED numPages
    BY <1>1 DEF Open, PanelsTyped
  <2>5. "loading" \in Loading
    BY DEF Loading
  <2> QED BY <1>0, <2>1, <2>2, <2>3, <2>4, <2>5, RenderKeeps
<1>2. ASSUME NEW answer \in {"ready", "error"}, usePlaylist(answer) PROVE PlayerInv'
  <2>1. answer \in Loading
    BY DEF Loading
  <2>2. PanelsTyped' /\ UNCHANGED numPages
    BY <1>0, <1>2 DEF usePlaylist, PanelsTyped, panels
  <2> QED BY <1>0, <1>2, <2>1, <2>2, RenderKeeps DEF usePlaylist
<1>3. ASSUME NEW p \in Piece, NEW outcome \in {"ready", "error"}, openPdf(p, outcome)
      PROVE  PlayerInv'
  <2> DEFINE d == [docs EXCEPT ![p] = outcome]
  <2>1. DocsTyped(d)
    BY <1>0, <1>3 DEF DocsTyped, PagesOpen, openPdf
  <2>2. PanelsTyped' /\ UNCHANGED numPages
    BY <1>0, <1>3 DEF openPdf, PanelsTyped, panels
  <2>3. Rendered(playlist, d, raw, spreadMode, landscape)
    BY <1>3 DEF openPdf
  <2> HIDE DEF d
  <2> QED BY <1>0, <2>1, <2>2, <2>3, RenderKeeps
<1>4. CASE onKey
  <2>1. PICK action \in Range(keyAction) : go(action)
    BY <1>4 DEF onKey
  <2>2. action \in {"next", "prev"}
    BY DEF Range, keyAction
  <2> QED BY <2>1, <2>2, TurnKeeps
<1>5. CASE onEscape
  BY <1>0, <1>5, PanelsKeep DEF onEscape, PanelsTyped, position_
<1>6. CASE onPointerUp
  <2>1. ASSUME NEW action \in (Range(swipeAction) \union Range(tapZone)) \ {"menu"},
               go(action)
        PROVE  PlayerInv'
    <3>1. action \in {"next", "prev"}
      BY DEF Range, swipeAction, tapZone
    <3> QED BY <2>1, <3>1, TurnKeeps
  <2>2. ASSUME menuOpen' = ~menuOpen,
               UNCHANGED <<numPages, playlist, docs, position_, spreadMode, landscape,
                           setlistOpen, annotating, mounted>>
        PROVE  PlayerInv'
    BY <1>0, <2>2, PanelsKeep DEF PanelsTyped, position_
  <2> QED BY <1>6, <2>1, <2>2 DEF onPointerUp
<1>7. CASE HideMenu
  BY <1>0, <1>7, PanelsKeep DEF HideMenu, PanelsTyped, position_
<1>8. CASE TurnByButton
  BY <1>8, TurnKeeps DEF TurnByButton
<1>9. CASE cycleSpread
  <2>1. PICK mode \in Mode : Rendered(playlist, docs, raw, mode, landscape)
    BY <1>9 DEF cycleSpread, Mode
  <2>2. PanelsTyped' /\ UNCHANGED numPages
    BY <1>0, <1>9 DEF cycleSpread, PanelsTyped, panels
  <2> QED BY <1>0, <2>1, <2>2, RenderKeeps
<1>10. CASE Rotate
  <2>1. PICK wide \in BOOLEAN : Rendered(playlist, docs, raw, spreadMode, wide)
    BY <1>10 DEF Rotate
  <2>2. PanelsTyped' /\ UNCHANGED numPages
    BY <1>0, <1>10 DEF Rotate, PanelsTyped, panels
  <2> QED BY <1>0, <2>1, <2>2, RenderKeeps
<1>11. CASE ToggleAnnotating
  BY <1>0, <1>11, PanelsKeep DEF ToggleAnnotating, PanelsTyped, position_
<1>12. CASE StopAnnotating
  BY <1>0, <1>12, PanelsKeep DEF StopAnnotating, PanelsTyped, position_
<1>13. CASE ToggleSetlist
  BY <1>0, <1>13, PanelsKeep DEF ToggleSetlist, PanelsTyped, position_
<1>14. ASSUME NEW piece \in Piece, jumpTo(piece) PROVE PlayerInv'
  <2> DEFINE start == [piece |-> piece, page |-> 1]
  <2>1. start \in Position
    BY DEF Position, Piece, PlayerBounds
  <2>2. PanelsTyped' /\ UNCHANGED numPages
    BY <1>0, <1>14 DEF jumpTo, PanelsTyped
  <2>3. Rendered(playlist, docs, start, spreadMode, landscape)
    BY <1>14 DEF jumpTo
  <2> HIDE DEF start
  <2> QED BY <1>0, <2>1, <2>2, <2>3, RenderKeeps
<1>15. CASE close
  <2>1. docs' \in [Piece -> PagesOpen] /\ \A p \in Piece : docs'[p] = "none"
    BY <1>15 DEF close, NoDocs, PagesOpen
  <2>2. raw' \in Position
    BY <1>15 DEF close, Position
  <2>3. PanelsTyped'
    BY <1>15 DEF close, PanelsTyped
  <2>4. /\ UNCHANGED <<numPages, stored, spreadMode, landscape>>
        /\ playlist' \in Loading
    BY <1>15 DEF close, Loading
  <2> QED BY <2>1, <2>2, <2>3, <2>4
      DEF PlayerInv, PlayerTypeOK, PanelsTyped, PagesOpen, Loading
<1>16. CASE UNCHANGED playerVars
  BY <1>0, <1>16, PanelsKeep DEF playerVars, PanelsTyped, position_, panels
<1> QED BY <1>1, <1>2, <1>3, <1>4, <1>5, <1>6, <1>7, <1>8, <1>9, <1>10, <1>11, <1>12,
           <1>13, <1>14, <1>15, <1>16 DEF PlayerNext

LEMMA PlayerStart == ASSUME PlayerBounds, PlayerInit PROVE PlayerInv
<1>1. docs \in [Piece -> PagesOpen] /\ \A p \in Piece : docs[p] = "none"
  BY DEF PlayerInit, NoDocs, PagesOpen
<1>2. raw \in Position /\ stored \in Position
  BY DEF PlayerInit, Position
<1> QED BY <1>1, <1>2 DEF PlayerInit, PlayerInv, PlayerTypeOK, PagesOpen

\* Turning back undoes turning on, for any number of pieces and pages, in either
\* spread and whatever has been loaded (playerNav.ts:41-67).
THEOREM PlayerBackUndoesNext ==
    ASSUME PlayerBounds PROVE PlayerSpec => [](PlayerTypeOK /\ BackUndoesNext)
<1>1. ASSUME PlayerInv PROVE PlayerTypeOK /\ BackUndoesNext
  <2>1. ASSUME NEW to \in nextPosition(position, Counts, Spread)
        PROVE  prevPosition(to, Counts, Spread) = {position}
    <3>1. Counts # <<>>
      BY <2>1 DEF nextPosition
    <3>2. Spread \in {1, 2} /\ Counts \in Seq(Nat) /\ InPlace(position, Counts, Spread)
      BY <1>1, <3>1, OnScreen
    <3> QED BY <2>1, <3>2, TurnsOn
  <2> QED BY <1>1, <2>1 DEF PlayerInv, BackUndoesNext
<1> QED BY <1>1, PlayerStart, PlayerStep, PTL DEF PlayerSpec

\* The page a spread ends with.
LEMMA LastSeen ==
    ASSUME NEW spread \in {1, 2}, NEW n \in Nat \ {0}, NEW pos \in Position, pos.page <= n
    PROVE  (CHOOSE p \in visiblePages(pos, n, spread) :
                \A q \in visiblePages(pos, n, spread) : q <= p)
             = Least(pos.page + spread - 1, n)
<1> DEFINE final == Least(pos.page + spread - 1, n)
<1>1. pos.page \in Nat \ {0} /\ effectivePages(n) = n
  BY EffectivePages DEF Position
<1>2. final \in Nat /\ pos.page <= final /\ final <= pos.page + spread - 1 /\ final <= n
  BY <1>1 DEF Least
<1>3. \A p : p \in visiblePages(pos, n, spread)
               <=> p \in Int /\ pos.page <= p /\ p <= pos.page + spread - 1 /\ p <= n
  BY <1>1 DEF visiblePages
<1>4. \A p \in Int : p <= pos.page + spread - 1 /\ p <= n => p <= final
  BY <1>1 DEF Least
<1> HIDE DEF final
<1>5. final \in visiblePages(pos, n, spread)
  BY <1>2, <1>3
<1>6. \A q \in visiblePages(pos, n, spread) : q <= final
  BY <1>3, <1>4
<1>7. \A p \in visiblePages(pos, n, spread) :
         (\A q \in visiblePages(pos, n, spread) : q <= p) => p = final
  <2> SUFFICES ASSUME NEW p \in visiblePages(pos, n, spread),
                      \A q \in visiblePages(pos, n, spread) : q <= p
               PROVE  p = final
    OBVIOUS
  <2>1. final <= p /\ p <= final /\ p \in Int
    BY <1>3, <1>5, <1>6
  <2> QED BY <1>2, <2>1
<1>8. (CHOOSE p \in visiblePages(pos, n, spread) :
          \A q \in visiblePages(pos, n, spread) : q <= p) = final
  BY <1>5, <1>6, <1>7
<1> QED BY <1>8 DEF final

\* A page turn opens no document and closes none.
LEMMA TurnCounts ==
    ASSUME PlayerBounds, PlayerInv, UNCHANGED numPages,
           NEW pos, Rendered(playlist, docs, pos, spreadMode, landscape)
    PROVE  position' = clampPosition(pos, Counts, Spread)
<1> DEFINE piece == clampPosition(pos, CountsOf(playlist, docs),
                                  spreadOf(spreadMode, landscape)).piece
<1>1. docs' = ensureDoc(playlist, docs, piece)
  BY DEF Rendered
<1> HIDE DEF piece
<1>2. \A p \in Piece : docs'[p] = "ready" <=> docs[p] = "ready"
  BY <1>1 DEF ensureDoc
<1>3. playlist' = playlist /\ raw' = pos /\ spreadMode' = spreadMode /\ landscape' = landscape
  BY DEF Rendered
<1>4. \A i \in 1..Length : i - 1 \in Piece
  BY DEF Piece, PlayerBounds
<1>5. [i \in 1..Length |-> IF docs'[i - 1] = "ready" THEN numPages'[i - 1] ELSE 1]
        = [i \in 1..Length |-> IF docs[i - 1] = "ready" THEN numPages[i - 1] ELSE 1]
  BY <1>2, <1>4
<1>6. Counts' = Counts
  BY <1>3, <1>5 DEF Counts, CountsOf
<1>7. Spread' = Spread
  BY <1>3 DEF Spread
<1> QED BY <1>3, <1>6, <1>7 DEF position

\* No page of a piece that is open is skipped or shown twice, for any number of
\* pieces and pages and in either spread (PlayerView.tsx:265-276 over
\* playerNav.ts:41-52).
THEOREM PlayerNoPageSkipped ==
    ASSUME PlayerBounds PROVE PlayerSpec => NoPageSkipped
<1>1. ASSUME PlayerInv, mounted, CurrentReady, go("next")
      PROVE  LET seen == visiblePages(position, numPages[Current], Spread)
                 lastSeen == CHOOSE p \in seen : \A q \in seen : q <= p
             IN  IF lastSeen < numPages[Current]
                 THEN position' = [piece |-> Current, page |-> lastSeen + 1]
                 ELSE IF Current < Length - 1
                      THEN position' = [piece |-> Current + 1, page |-> 1]
                      ELSE position' = position /\ atEnd'
  <2> DEFINE n == numPages[Current]
             lastSeen == CHOOSE p \in visiblePages(position, n, Spread) :
                             \A q \in visiblePages(position, n, Spread) : q <= p
             target == nextPosition(position, Counts, Spread)
  <2>1. /\ Spread \in {1, 2} /\ Counts \in Seq(Nat) /\ position \in Position
        /\ Counts # <<>> /\ Len(Counts) = Length
        /\ \A p \in Piece : Counts[p + 1] = IF docs[p] = "ready" THEN numPages[p] ELSE 1
        /\ InPlace(position, Counts, Spread)
    BY <1>1, OnScreen DEF CurrentReady
  <2>2. Current \in Nat /\ Current < Length /\ position.page \in Nat \ {0}
    BY <2>1 DEF InPlace, Position, Current
  <2>3. Current \in Piece
    BY <2>2 DEF Piece, PlayerBounds
  <2>4. Counts[Current + 1] = n /\ n \in Nat \ {0}
    BY <1>1, <2>1, <2>3 DEF CurrentReady, PlayerInv, PlayerTypeOK, hasPdf
  <2>5. effectivePages(Counts[Current + 1]) = n
    BY <2>4, EffectivePages
  <2>6. position.page <= n
    BY <2>1, <2>5 DEF InPlace, Current
  <2>7. lastSeen = Least(position.page + Spread - 1, n)
    BY <2>1, <2>4, <2>6, LastSeen
  <2>8. clampPosition(position, Counts, Spread) = position
    BY <2>1, StaysInPlace
  <2>9. target = IF position.page + Spread <= n
                 THEN {[piece |-> Current, page |-> position.page + Spread]}
                 ELSE IF Current + 1 < Length
                      THEN {[piece |-> Current + 1, page |-> 1]} ELSE {}
    BY <2>1, <2>5, <2>8 DEF nextPosition, Current
  <2>10. /\ target # {} =>
              \E pos \in target : Rendered(playlist, docs, pos, spreadMode, landscape)
         /\ target = {} => /\ UNCHANGED <<playlist, raw, stored, docs, spreadMode, landscape>>
                           /\ atEnd'
         /\ UNCHANGED numPages
    BY <1>1 DEF go
  <2>11. ASSUME NEW pos \in target,
                Rendered(playlist, docs, pos, spreadMode, landscape)
         PROVE  position' = pos
    <3>1. InPlace(pos, Counts, Spread)
      BY <2>1, <2>11, TurnsOn
    <3>2. clampPosition(pos, Counts, Spread) = pos
      BY <2>1, <3>1, StaysInPlace
    <3> QED BY <1>1, <2>10, <2>11, <3>2, TurnCounts
  <2> HIDE DEF target, lastSeen, n
  <2>12. CASE position.page + Spread <= n
    <3>1. lastSeen = position.page + Spread - 1 /\ lastSeen < n
      BY <2>1, <2>2, <2>4, <2>7, <2>12 DEF Least
    <3>2. target = {[piece |-> Current, page |-> lastSeen + 1]}
      BY <2>1, <2>2, <2>9, <2>12, <3>1
    <3>3. position' = [piece |-> Current, page |-> lastSeen + 1]
      BY <2>10, <2>11, <3>2
    <3> QED BY <3>1, <3>3 DEF n, lastSeen
  <2>13. CASE ~ (position.page + Spread <= n)
    <3>1. lastSeen = n /\ ~ (lastSeen < n)
      BY <2>1, <2>2, <2>4, <2>6, <2>7, <2>13 DEF Least
    <3>2. CASE Current + 1 < Length
      <4>1. target = {[piece |-> Current + 1, page |-> 1]}
        BY <2>9, <2>13, <3>2
      <4>2. position' = [piece |-> Current + 1, page |-> 1]
        BY <2>10, <2>11, <4>1
      <4>3. Current < Length - 1
        BY <2>2, <3>2 DEF PlayerBounds
      <4> QED BY <3>1, <4>2, <4>3 DEF n, lastSeen
    <3>3. CASE ~ (Current + 1 < Length)
      <4>1. target = {}
        BY <2>9, <2>13, <3>3
      <4>2. UNCHANGED <<numPages, playlist, raw, docs, spreadMode, landscape>> /\ atEnd'
        BY <2>10, <4>1
      <4>3. position' = position
        BY <4>2 DEF position, Counts, CountsOf, Spread, spreadOf, autoSpread
      <4>4. ~ (Current < Length - 1)
        BY <2>2, <3>3 DEF PlayerBounds
      <4> QED BY <3>1, <4>2, <4>3, <4>4 DEF n, lastSeen
    <3> QED BY <3>2, <3>3
  <2> QED BY <2>12, <2>13
<1>2. ASSUME PlayerInv PROVE SkipsNone
  BY <1>1, <1>2 DEF SkipsNone
<1>3. PlayerInv /\ [PlayerNext]_playerVars => [SkipsNone]_playerVars
  BY <1>2
<1> QED BY <1>3, PlayerStart, PlayerStep, PTL DEF PlayerSpec, NoPageSkipped

-----------------------------------------------------------------------------
(* The pen marks.                                                          *)

Edit == [data : Doc, at : 1..MaxQueued]
Queue == [Page -> {NoEdit} \union Edit]

Loads ==
    {NoTask} \union [pc : {"fetch"}, waiting : Queue, cancelled : BOOLEAN]
    \union [pc : {"merge"}, waiting : Queue, cancelled : BOOLEAN, remote : Pages]
Saves ==
    {NoTask} \union [pc : {"read", "put", "confirm"}, page : Page, data : Doc]
    \union [pc : {"write"}, page : Page, data : Doc, pages : Pages]
Flushes ==
    {NoTask} \union {f \in [pc : {"put", "confirm", "drop"}, rest : Seq(Page), batch : Queue] :
                        f.rest # <<>> /\ \A i \in DOMAIN f.rest : f.batch[f.rest[i]] # NoEdit}

MarksTyped ==
    /\ server \in Pages /\ cache \in Pages /\ shown \in Pages
    /\ pending \in Queue /\ \A p \in Page : pending[p] # NoEdit => pending[p].at <= clock
    /\ clock \in 0..MaxQueued
    /\ isOpen \in BOOLEAN
    /\ undoStack \in Seq([page : Page, prev : Doc]) /\ Len(undoStack) <= MaxUndo
    /\ load \in Loads /\ save \in [Save -> Saves] /\ flush \in Flushes
    /\ drawn \subseteq Stroke
    /\ last \in [Page -> {NoEdit} \union Doc]
    /\ disturbed \subseteq Page

\* While the save of an edit that nothing overlaps is under way, nothing else is.
SavedAlone(p) ==
    \A s \in Save : save[s].pc # "idle" /\ save[s].page = p =>
        /\ load.pc = "idle" /\ flush.pc = "idle"
        /\ \A t \in Save \ {s} : save[t].pc = "idle"
        /\ save[s].data = last[p]
        /\ save[s].pc \in {"put", "confirm"} => cache[p] = last[p]
        /\ save[s].pc = "confirm" => server[p] = last[p]

\* Afterwards the edit is in the cache, and on the server or in the queue.
Settled(p) ==
    p \notin Saving =>
        /\ cache[p] = last[p]
        /\ pending[p] = NoEdit => server[p] = last[p]
        /\ pending[p] # NoEdit => pending[p].data = last[p]

\* What loads, other saves and flushes have read of the page is the edit, too.
LoadAgrees(p) ==
    /\ load.pc # "idle" /\ load.waiting[p] # NoEdit => load.waiting[p].data = last[p]
    /\ load.pc = "fetch" /\ load.waiting[p] = NoEdit => server[p] = last[p]
    /\ load.pc = "merge" /\ load.waiting[p] = NoEdit => load.remote[p] = last[p]
SavesAgree(p) ==
    \A s \in Save : save[s].pc = "write" /\ save[s].page # p => save[s].pages[p] = last[p]
FlushAgrees(p) ==
    /\ flush.pc # "idle" /\ flush.batch[p] # NoEdit => flush.batch[p].data = last[p]
    /\ flush.pc \in {"confirm", "drop"} /\ Sending = p => server[p] = last[p]

Kept(p) == SavedAlone(p) /\ Settled(p) /\ LoadAgrees(p) /\ SavesAgree(p) /\ FlushAgrees(p)

MarksInv ==
    MarksTyped /\ \A p \in Page : last[p] # NoEdit /\ p \notin disturbed => Kept(p)

\* What is known of a save, a load and a flush under way.
LEMMA SaveShape ==
    ASSUME save \in [Save -> Saves], NEW s \in Save
    PROVE  /\ save[s].pc \in {"idle", "read", "write", "put", "confirm"}
           /\ save[s].pc = "idle" => save[s] = NoTask
           /\ save[s].pc # "idle" => save[s].page \in Page /\ save[s].data \in Doc
           /\ save[s].pc = "write" => save[s].pages \in Pages
BY DEF Saves, NoTask

LEMMA LoadShape ==
    ASSUME load \in Loads
    PROVE  /\ load.pc \in {"idle", "fetch", "merge"}
           /\ load.pc # "idle" => load.waiting \in Queue /\ load.cancelled \in BOOLEAN
           /\ load.pc = "merge" => load.remote \in Pages
BY DEF Loads, NoTask

LEMMA FlushShape ==
    ASSUME flush \in Flushes
    PROVE  /\ flush.pc \in {"idle", "put", "confirm", "drop"}
           /\ flush.pc # "idle" =>
                /\ flush.rest \in Seq(Page) /\ flush.rest # <<>> /\ flush.batch \in Queue
                /\ \A i \in DOMAIN flush.rest : flush.batch[flush.rest[i]] # NoEdit
                /\ flush = [pc |-> flush.pc, rest |-> flush.rest, batch |-> flush.batch]
BY DEF Flushes, NoTask

\* The page a flush sends is one with a queued edit.
LEMMA SendingShape ==
    ASSUME flush \in Flushes, flush.pc # "idle"
    PROVE  Sending \in Page /\ flush.batch[Sending] \in Edit /\ flush.batch[Sending] # NoEdit
<1>1. /\ flush.rest \in Seq(Page) /\ flush.rest # <<>> /\ flush.batch \in Queue
      /\ \A i \in DOMAIN flush.rest : flush.batch[flush.rest[i]] # NoEdit
  BY FlushShape
<1>2. 1 \in DOMAIN flush.rest /\ Sending = flush.rest[1] /\ Sending \in Page
  BY <1>1, EmptySeq DEF Sending
<1> QED BY <1>1, <1>2 DEF Queue

LEMMA SavesOn ==
    ASSUME save \in [Save -> Saves], NEW s \in Save, save[s].pc # "idle",
           NEW pc \in {"read", "put", "confirm"}, SaveIn(s, pc)
    PROVE  /\ save' \in [Save -> Saves]
           /\ save'[s] = [pc |-> pc, page |-> save[s].page, data |-> save[s].data]
           /\ \A t \in Save \ {s} : save'[t] = save[t]
<1>1. save[s].page \in Page /\ save[s].data \in Doc
  BY SaveShape
<1>2. [pc |-> pc, page |-> save[s].page, data |-> save[s].data] \in Saves
  BY <1>1 DEF Saves
<1> QED BY <1>2 DEF SaveIn

LEMMA SavesEnd ==
    ASSUME save \in [Save -> Saves], NEW s \in Save, SaveEnds(s)
    PROVE  /\ save' \in [Save -> Saves] /\ save'[s] = NoTask
           /\ \A t \in Save \ {s} : save'[t] = save[t]
BY DEF SaveEnds, Saves

LEMMA FlushGoesOn ==
    ASSUME flush \in Flushes, flush.pc # "idle", NextInQueue
    PROVE  /\ flush' \in Flushes /\ flush'.pc \in {"idle", "put"}
           /\ flush'.pc # "idle" => flush'.batch = flush.batch
<1>1. /\ flush.rest \in Seq(Page) /\ flush.rest # <<>> /\ flush.batch \in Queue
      /\ \A i \in DOMAIN flush.rest : flush.batch[flush.rest[i]] # NoEdit
      /\ flush = [pc |-> flush.pc, rest |-> flush.rest, batch |-> flush.batch]
  BY FlushShape
<1>2. CASE Len(flush.rest) = 1
  BY <1>2 DEF NextInQueue, Flushes, NoTask
<1>3. CASE Len(flush.rest) # 1
  <2> DEFINE tail == Tail(flush.rest)
  <2>1. flush' = [pc |-> "put", rest |-> tail, batch |-> flush.batch]
    BY <1>1, <1>3 DEF NextInQueue
  <2>2. /\ tail \in Seq(Page) /\ Len(tail) = Len(flush.rest) - 1 /\ Len(flush.rest) \in Nat
        /\ \A i \in 1..Len(tail) : tail[i] = flush.rest[i + 1]
    BY <1>1
  <2>3. Len(flush.rest) # 0
    BY <1>1, EmptySeq
  <2> HIDE DEF tail
  <2>4. Len(tail) # 0
    BY <1>3, <2>2
  <2>5. \A i \in DOMAIN tail : flush.batch[tail[i]] # NoEdit
    <3> SUFFICES ASSUME NEW i \in DOMAIN tail PROVE flush.batch[tail[i]] # NoEdit
      OBVIOUS
    <3>1. i \in 1..Len(tail) /\ i + 1 \in 1..Len(flush.rest)
      BY <2>2, <2>3
    <3>2. i + 1 \in DOMAIN flush.rest
      BY <1>1, <3>1
    <3> QED BY <1>1, <2>2, <3>1, <3>2
  <2>6. tail # <<>>
    BY <2>4
  <2>7. flush'.pc = "put" /\ flush'.rest = tail /\ flush'.batch = flush.batch
    BY <2>1
  <2>8. flush' \in [pc : {"put", "confirm", "drop"}, rest : Seq(Page), batch : Queue]
    BY <1>1, <2>1, <2>2
  <2> QED BY <2>5, <2>6, <2>7, <2>8 DEF Flushes
<1> QED BY <1>2, <1>3

\* The pages of a queue in their order are a sequence of pages that wait.
LEMMA InOrder ==
    ASSUME IsFiniteSet(Page), NEW waiting \in Queue,
           NEW rest \in OldestFirst(waiting) \ {<<>>}
    PROVE  [pc |-> "put", rest |-> rest, batch |-> waiting] \in Flushes
<1> DEFINE queued == {p \in Page : waiting[p] # NoEdit}
<1>1. rest \in SetToSeqs(queued)
  BY DEF OldestFirst
<1>2. rest \in [1..Cardinality(queued) -> queued]
  BY <1>1 DEF SetToSeqs
<1>3. IsFiniteSet(queued)
  BY FS_Subset
<1>4. Cardinality(queued) \in Nat
  BY <1>3, FS_CardinalityType
<1>5. \A p \in queued : p \in Page /\ waiting[p] # NoEdit
  OBVIOUS
<1> DEFINE n == Cardinality(queued)
<1> HIDE DEF n, queued
<1>6. rest \in [1..n -> Page] /\ \A i \in 1..n : waiting[rest[i]] # NoEdit
  BY <1>2, <1>5 DEF n
<1>7. rest \in Seq(Page) /\ DOMAIN rest = 1..n
  BY <1>4, <1>6 DEF n
<1> QED BY <1>6, <1>7 DEF Flushes

\* An edit takes an idle slot.
LEMMA EditShape ==
    ASSUME MarksTyped, NEW p \in Page, NEW doc \in Doc, setPage(p, doc)
    PROVE  /\ shown' \in Pages /\ save' \in [Save -> Saves]
           /\ last' \in [Page -> {NoEdit} \union Doc] /\ disturbed' \subseteq Page
           /\ last' = [last EXCEPT ![p] = doc]
           /\ \E s \in Save :
                 /\ save[s].pc = "idle"
                 /\ save'[s] = [pc |-> "read", page |-> p, data |-> doc]
                 /\ \A t \in Save \ {s} : save'[t] = save[t]
<1>1. PICK s \in Save \ BusySaves :
          save' = [save EXCEPT ![s] = [pc |-> "read", page |-> p, data |-> doc]]
  BY DEF setPage
<1>2. s \in Save /\ save[s].pc = "idle"
  BY DEF BusySaves
<1>3. [pc |-> "read", page |-> p, data |-> doc] \in Saves
  BY DEF Saves
<1>4. save' \in [Save -> Saves]
  BY <1>1, <1>3 DEF MarksTyped
<1>5. /\ save'[s] = [pc |-> "read", page |-> p, data |-> doc]
      /\ \A t \in Save \ {s} : save'[t] = save[t]
  BY <1>1, <1>2 DEF MarksTyped
<1>6. Saving \subseteq Page
  BY SaveShape DEF Saving, BusySaves, MarksTyped
<1>7. disturbed' \subseteq Page
  BY <1>6 DEF setPage, MarksTyped
<1>8. shown' \in Pages /\ last' \in [Page -> {NoEdit} \union Doc]
  BY DEF setPage, MarksTyped, Pages
<1> QED BY <1>2, <1>4, <1>5, <1>7, <1>8 DEF setPage

\* The undo stack of the pages that were changed.
LEMMA UndoShape ==
    ASSUME MarksNulls, MarksTyped, NEW p \in Page, NEW doc \in Doc, changePage(p, doc)
    PROVE  undoStack' \in Seq([page : Page, prev : Doc]) /\ Len(undoStack') <= MaxUndo
<1> DEFINE Entry == [page : Page, prev : Doc]
           rest == IF Len(undoStack) = MaxUndo THEN Tail(undoStack) ELSE undoStack
           entry == [page |-> p, prev |-> shown[p]]
<1>1. entry \in Entry
  BY DEF MarksTyped, Pages
<1>2. undoStack \in Seq(Entry) /\ Len(undoStack) <= MaxUndo /\ MaxUndo \in Nat \ {0}
  BY DEF MarksTyped, MarksNulls
<1>3. undoStack' = Append(rest, entry)
  BY DEF changePage
<1> HIDE DEF Entry, entry
<1>4. rest \in Seq(Entry) /\ Len(rest) < MaxUndo
  <2>1. CASE Len(undoStack) = MaxUndo
    BY <1>2, <2>1, EmptySeq
  <2>2. CASE Len(undoStack) # MaxUndo
    BY <1>2, <2>2
  <2> QED BY <2>1, <2>2
<1> HIDE DEF rest
<1>5. undoStack' \in Seq(Entry) /\ Len(undoStack') <= MaxUndo
  BY <1>1, <1>2, <1>3, <1>4
<1> QED BY <1>5 DEF Entry

LEMMA ShowsPages ==
    ASSUME shown \in Pages, NEW pages \in Pages, ShowPages(pages)
    PROVE  shown' \in Pages
BY DEF ShowPages, Pages, parsePage, Doc

LEMMA Overlaid ==
    ASSUME NEW pages \in Pages, NEW waiting \in Queue
    PROVE  overlay(pages, waiting) \in Pages
BY DEF overlay, Pages, Queue, Edit

\* Steps on the screen: pieces come and go, and loads answer.
LEMMA ScreenMarksTyped ==
    ASSUME MarksNulls, MarksTyped,
           \/ OpenPdf \/ fetchAnnotationsRemote \/ LoadMerge \/ LoadFromCache \/ ClosePdf
           \/ Reload
    PROVE  MarksTyped'
<1>1. {} \in Doc /\ [p \in Page |-> {}] \in Pages
  BY DEF Doc, Pages
<1>2. Saving \subseteq Page
  BY SaveShape DEF Saving, BusySaves, MarksTyped
<1>3. <<>> \in Seq([page : Page, prev : Doc]) /\ Len(<<>>) <= MaxUndo
  BY DEF MarksNulls
<1>4. CASE OpenPdf
  <2>1. load' \in Loads
    BY <1>4 DEF OpenPdf, Loads, MarksTyped
  <2> QED BY <1>1, <1>2, <1>3, <1>4, <2>1 DEF OpenPdf, MarksTyped, store
<1>5. CASE fetchAnnotationsRemote
  <2>1. load.waiting \in Queue /\ load.cancelled \in BOOLEAN
    BY <1>5, LoadShape DEF fetchAnnotationsRemote, MarksTyped
  <2>2. load' \in Loads
    BY <1>5, <2>1 DEF fetchAnnotationsRemote, Loads, MarksTyped
  <2> QED BY <1>5, <2>2
          DEF fetchAnnotationsRemote, MarksTyped, store, marksScreen, marksHistory
<1>6. CASE LoadMerge
  <2>1. cache' \in Pages
    BY <1>6, LoadShape, Overlaid DEF LoadMerge, MarksTyped
  <2>2. shown' \in Pages
    BY <1>6, <2>1, ShowsPages DEF LoadMerge, MarksTyped
  <2>3. load' \in Loads
    BY <1>6 DEF LoadMerge, Loads
  <2> QED BY <1>6, <2>1, <2>2, <2>3 DEF LoadMerge, MarksTyped, marksHistory
<1>7. CASE LoadFromCache
  <2>1. overlay(cache, load.waiting) \in Pages
    BY <1>7, LoadShape, Overlaid DEF LoadFromCache, MarksTyped
  <2>2. shown' \in Pages
    BY <1>7, <2>1, ShowsPages DEF LoadFromCache, MarksTyped
  <2>3. load' \in Loads
    BY <1>7 DEF LoadFromCache, Loads
  <2> QED BY <1>7, <2>2, <2>3 DEF LoadFromCache, MarksTyped, store, marksHistory
<1>8. CASE ClosePdf
  <2>1. load' \in Loads
    <3>1. CASE load.pc = "idle"
      BY <1>8, <3>1 DEF ClosePdf, Loads
    <3>2. CASE load \in [pc : {"fetch"}, waiting : Queue, cancelled : BOOLEAN]
      <4>1. load' = [load EXCEPT !.cancelled = TRUE]
        BY <1>8, <3>2 DEF ClosePdf
      <4>2. load' \in [pc : {"fetch"}, waiting : Queue, cancelled : BOOLEAN]
        BY <3>2, <4>1
      <4> QED BY <4>2 DEF Loads
    <3>3. CASE load \in [pc : {"merge"}, waiting : Queue, cancelled : BOOLEAN, remote : Pages]
      <4>1. load' = [load EXCEPT !.cancelled = TRUE]
        BY <1>8, <3>3 DEF ClosePdf
      <4>2. load' \in [pc : {"merge"}, waiting : Queue, cancelled : BOOLEAN, remote : Pages]
        BY <3>3, <4>1
      <4> QED BY <4>2 DEF Loads
    <3> QED BY <3>1, <3>2, <3>3 DEF MarksTyped, Loads, NoTask
  <2> QED BY <1>1, <1>3, <1>8, <2>1 DEF ClosePdf, MarksTyped, store, marksHistory
<1>9. CASE Reload
  <2>1. load' \in Loads /\ save' \in [Save -> Saves] /\ flush' \in Flushes
    BY <1>9 DEF Reload, Loads, Saves, Flushes
  <2> QED BY <1>1, <1>2, <1>3, <1>9, <2>1 DEF Reload, MarksTyped, store
<1> QED BY <1>4, <1>5, <1>6, <1>7, <1>8, <1>9

\* Edits.
MarksEdited ==
    \/ \E p \in Page : penUp(p) \/ erase(p)
    \/ undo

LEMMA EditsTyped ==
    ASSUME MarksNulls, MarksTyped, MarksEdited
    PROVE  MarksTyped'
<1>1. ASSUME NEW p \in Page, penUp(p) PROVE MarksTyped'
  <2>1. PICK s \in Stroke : changePage(p, shown[p] \union {s}) /\ drawn' = drawn \union {s}
    BY <1>1 DEF penUp
  <2> DEFINE doc == shown[p] \union {s}
  <2>2. doc \in Doc
    BY DEF MarksTyped, Pages, Doc
  <2>3. changePage(p, doc)
    BY <2>1
  <2> HIDE DEF doc
  <2>4. setPage(p, doc)
    BY <2>3 DEF changePage
  <2>5. UNCHANGED <<store, isOpen, load, flush>> /\ drawn' \subseteq Stroke
    BY <1>1, <2>1 DEF penUp, MarksTyped
  <2> QED BY <2>2, <2>3, <2>4, <2>5, EditShape, UndoShape DEF MarksTyped, store
<1>2. ASSUME NEW p \in Page, erase(p) PROVE MarksTyped'
  <2>1. PICK s \in shown[p] : changePage(p, shown[p] \ {s})
    BY <1>2 DEF erase
  <2> DEFINE doc == shown[p] \ {s}
  <2>2. doc \in Doc
    BY DEF MarksTyped, Pages, Doc
  <2>3. changePage(p, doc)
    BY <2>1
  <2> HIDE DEF doc
  <2>4. setPage(p, doc)
    BY <2>3 DEF changePage
  <2>5. UNCHANGED <<store, isOpen, load, flush, drawn>>
    BY <1>2 DEF erase
  <2> QED BY <2>2, <2>3, <2>4, <2>5, EditShape, UndoShape DEF MarksTyped, store
<1>3. CASE undo
  <2> DEFINE top == undoStack[Len(undoStack)]
             Entry == [page : Page, prev : Doc]
  <2>1. undoStack \in Seq(Entry) /\ undoStack # <<>> /\ Len(undoStack) <= MaxUndo
    BY <1>3 DEF undo, MarksTyped
  <2> HIDE DEF Entry
  <2>2. Len(undoStack) \in Nat \ {0} /\ \A i \in 1..Len(undoStack) : undoStack[i] \in Entry
    BY <2>1, EmptySeq, ElementOfSeq
  <2>3. top \in Entry
    BY <2>2
  <2>4. top.page \in Page /\ top.prev \in Doc
    BY <2>3 DEF Entry
  <2>5. setPage(top.page, top.prev) /\ undoStack' = SubSeq(undoStack, 1, Len(undoStack) - 1)
    BY <1>3 DEF undo, Last, Front
  <2> HIDE DEF top
  <2>6. undoStack' \in Seq(Entry) /\ Len(undoStack') <= MaxUndo
    <3> DEFINE n == Len(undoStack) - 1
    <3>1. n \in Nat /\ \A i \in 1..n : undoStack[i] \in Entry
      BY <2>2
    <3> HIDE DEF n
    <3>2. /\ SubSeq(undoStack, 1, n) \in Seq(Entry)
          /\ Len(SubSeq(undoStack, 1, n)) = IF 1 <= n THEN n - 1 + 1 ELSE 0
      BY <3>1, SubSeqProperties
    <3> QED BY <2>1, <2>5, <2>2, <3>1, <3>2 DEF MarksNulls, n
  <2>7. UNCHANGED <<store, isOpen, load, flush, drawn>>
    BY <1>3 DEF undo
  <2> QED BY <2>4, <2>5, <2>6, <2>7, EditShape DEF MarksTyped, store, Entry
<1> QED BY <1>1, <1>2, <1>3 DEF MarksEdited

\* Saves.
MarksSaving(s) ==
    \/ SaveReads(s) \/ SaveWrites(s) \/ putAnnotationRemote(s)
    \/ SaveConfirmed(s) \/ SaveQueued(s)

\* What is queued stays ordered when an edit joins or leaves.
LEMMA QueueLeft ==
    ASSUME MarksTyped, NEW p \in Page, pending' = [pending EXCEPT ![p] = NoEdit],
           clock' = clock
    PROVE  pending' \in Queue /\ \A q \in Page : pending'[q] # NoEdit => pending'[q].at <= clock'
BY DEF MarksTyped, Queue

LEMMA QueueJoined ==
    ASSUME MarksNulls, MarksTyped, clock < MaxQueued, clock' = clock + 1,
           NEW p \in Page, NEW doc \in Doc,
           pending' = [pending EXCEPT ![p] = [data |-> doc, at |-> clock']]
    PROVE  /\ pending' \in Queue /\ clock' \in 0..MaxQueued
           /\ \A q \in Page : pending'[q] # NoEdit => pending'[q].at <= clock'
           /\ pending'[p] # NoEdit /\ pending'[p].data = doc
           /\ \A q \in Page \ {p} : pending'[q] = pending[q]
<1> DEFINE edit == [data |-> doc, at |-> clock']
<1>1. clock \in Nat /\ clock' \in 1..MaxQueued
  BY DEF MarksTyped, MarksNulls
<1>2. edit \in Edit /\ edit.at = clock' /\ edit.data = doc
  BY <1>1 DEF Edit
<1>3. edit # NoEdit
  BY <1>1 DEF MarksNulls, Doc
<1> HIDE DEF edit
<1>4. /\ pending' \in Queue /\ pending'[p] = edit
      /\ \A q \in Page \ {p} : pending'[q] = pending[q]
  BY <1>2 DEF Queue, MarksTyped, edit
<1>5. \A q \in Page : pending'[q] # NoEdit => pending'[q].at <= clock'
  <2> SUFFICES ASSUME NEW q \in Page, pending'[q] # NoEdit PROVE pending'[q].at <= clock'
    OBVIOUS
  <2>1. CASE q = p
    BY <1>1, <1>2, <1>4, <2>1
  <2>2. CASE q # p
    <3>1. pending[q].at <= clock /\ pending[q].at \in 1..MaxQueued
      BY <1>4, <2>2 DEF MarksTyped, Queue, Edit
    <3> QED BY <1>1, <1>4, <2>2, <3>1
  <2> QED BY <2>1, <2>2
<1> QED BY <1>1, <1>2, <1>3, <1>4, <1>5

LEMMA SavesTyped ==
    ASSUME MarksNulls, MarksTyped, NEW s \in Save, MarksSaving(s)
    PROVE  MarksTyped'
<1>1. /\ save \in [Save -> Saves] /\ save[s].pc # "idle"
      /\ save[s].page \in Page /\ save[s].data \in Doc
      /\ save[s].pc = "write" => save[s].pages \in Pages
  <2>1. save \in [Save -> Saves] /\ save[s].pc # "idle"
    BY DEF MarksTyped, MarksSaving, SaveReads, SaveWrites, putAnnotationRemote, SaveConfirmed,
           SaveQueued
  <2> QED BY <2>1, SaveShape
<1>2. CASE SaveReads(s)
  <2>1. save' \in [Save -> Saves]
    <3>1. [pc |-> "write", page |-> save[s].page, data |-> save[s].data, pages |-> cache]
             \in Saves
      BY <1>1 DEF Saves, MarksTyped
    <3> QED BY <1>1, <1>2, <3>1 DEF SaveReads
  <2> QED BY <1>2, <2>1 DEF SaveReads, MarksTyped, store, marksScreen, marksHistory
<1>3. CASE SaveWrites(s)
  <2>1. save' \in [Save -> Saves]
    BY <1>1, <1>3, SavesOn DEF SaveWrites
  <2>2. cache' \in Pages
    BY <1>1, <1>3 DEF SaveWrites, Pages
  <2> QED BY <1>3, <2>1, <2>2 DEF SaveWrites, MarksTyped, marksScreen, marksHistory
<1>4. CASE putAnnotationRemote(s)
  <2>1. save' \in [Save -> Saves]
    BY <1>1, <1>4, SavesOn DEF putAnnotationRemote
  <2>2. server' \in Pages
    BY <1>1, <1>4 DEF putAnnotationRemote, Pages, MarksTyped
  <2> QED BY <1>4, <2>1, <2>2 DEF putAnnotationRemote, MarksTyped, marksScreen, marksHistory
<1>5. CASE SaveConfirmed(s)
  <2>1. save' \in [Save -> Saves]
    BY <1>1, <1>5, SavesEnd DEF SaveConfirmed
  <2>2. pending' \in Queue /\ \A q \in Page : pending'[q] # NoEdit => pending'[q].at <= clock'
    BY <1>1, <1>5, QueueLeft DEF SaveConfirmed
  <2> QED BY <1>5, <2>1, <2>2 DEF SaveConfirmed, MarksTyped, marksScreen, marksHistory
<1>6. CASE SaveQueued(s)
  <2>1. save' \in [Save -> Saves]
    BY <1>1, <1>6, SavesEnd DEF SaveQueued
  <2>2. /\ pending' \in Queue /\ clock' \in 0..MaxQueued
        /\ \A q \in Page : pending'[q] # NoEdit => pending'[q].at <= clock'
    BY <1>1, <1>6, QueueJoined DEF SaveQueued
  <2> QED BY <1>6, <2>1, <2>2 DEF SaveQueued, MarksTyped, marksScreen, marksHistory
<1> QED BY <1>2, <1>3, <1>4, <1>5, <1>6 DEF MarksSaving

\* Flushes.
MarksFlushing ==
    useFlushOnReconnect \/ FlushPut \/ FlushConfirmed \/ FlushDrops \/ FlushBreaks

\* Putting a page makes its answer come next.
LEMMA FlushWaits ==
    ASSUME flush \in Flushes, flush.pc # "idle", NEW pc \in {"confirm", "drop"},
           flush' = [flush EXCEPT !.pc = pc]
    PROVE  /\ flush' \in Flushes /\ flush'.pc = pc
           /\ flush'.rest = flush.rest /\ flush'.batch = flush.batch
<1>1. /\ flush.rest \in Seq(Page) /\ flush.rest # <<>> /\ flush.batch \in Queue
      /\ \A i \in DOMAIN flush.rest : flush.batch[flush.rest[i]] # NoEdit
      /\ flush = [pc |-> flush.pc, rest |-> flush.rest, batch |-> flush.batch]
  BY FlushShape
<1>2. flush' = [pc |-> pc, rest |-> flush.rest, batch |-> flush.batch]
  BY <1>1
<1> QED BY <1>1, <1>2 DEF Flushes

LEMMA FlushTyped ==
    ASSUME MarksNulls, MarksTyped, MarksFlushing
    PROVE  MarksTyped'
<1>1. CASE useFlushOnReconnect
  <2>1. PICK rest \in OldestFirst(pending) \ {<<>>} :
            flush' = [pc |-> "put", rest |-> rest, batch |-> pending]
    BY <1>1 DEF useFlushOnReconnect
  <2>2. flush' \in Flushes
    BY <2>1, InOrder DEF MarksNulls, MarksTyped
  <2>3. Saving \subseteq Page
    BY SaveShape DEF Saving, BusySaves, MarksTyped
  <2> QED BY <1>1, <2>2, <2>3 DEF useFlushOnReconnect, MarksTyped, store, marksScreen
<1>2. CASE FlushPut
  <2>1. Sending \in Page /\ flush.batch[Sending] \in Edit /\ flush.pc # "idle"
    BY <1>2, SendingShape DEF FlushPut, MarksTyped
  <2>2. server' \in Pages
    BY <1>2, <2>1 DEF FlushPut, MarksTyped, Pages, Edit
  <2>3. flush' \in Flushes
    BY <1>2, FlushWaits DEF FlushPut, MarksTyped
  <2> QED BY <1>2, <2>2, <2>3 DEF FlushPut, MarksTyped, marksScreen, marksHistory
<1>3. CASE FlushConfirmed
  <2>1. flush' \in Flushes
    BY <1>3, FlushWaits, FlushGoesOn DEF FlushConfirmed, MarksTyped
  <2> QED BY <1>3, <2>1 DEF FlushConfirmed, MarksTyped, store, marksScreen, marksHistory
<1>4. CASE FlushDrops
  <2>1. flush' \in Flushes
    BY <1>4, FlushGoesOn DEF FlushDrops, MarksTyped
  <2>2. Sending \in Page
    BY <1>4, SendingShape DEF FlushDrops, MarksTyped
  <2>3. pending' \in Queue /\ \A q \in Page : pending'[q] # NoEdit => pending'[q].at <= clock'
    BY <1>4, <2>2, QueueLeft DEF FlushDrops
  <2> QED BY <1>4, <2>1, <2>3 DEF FlushDrops, MarksTyped, marksScreen, marksHistory
<1>5. CASE FlushBreaks
  <2>1. flush' \in Flushes
    BY <1>5 DEF FlushBreaks, Flushes
  <2> QED BY <1>5, <2>1 DEF FlushBreaks, MarksTyped, store, marksScreen, marksHistory
<1> QED BY <1>1, <1>2, <1>3, <1>4, <1>5 DEF MarksFlushing

LEMMA NotSaving ==
    ASSUME NEW p
    PROVE  p \notin Saving <=> \A s \in Save : save[s].pc # "idle" => save[s].page # p
BY DEF Saving, BusySaves

\* While anything else is under way, the page's own save is not.
LEMMA SavesAlone ==
    ASSUME NEW p \in Page, SavedAlone(p), load.pc # "idle" \/ flush.pc # "idle"
    PROVE  p \notin Saving
BY NotSaving DEF SavedAlone

\* Loads come and go.
LEMMA LoadsKeep ==
    ASSUME MarksTyped, NEW p \in Page, Kept(p), p \notin disturbed',
           \/ OpenPdf \/ fetchAnnotationsRemote \/ LoadMerge \/ LoadFromCache \/ ClosePdf
           \/ Reload
    PROVE  Kept(p)'
<1>1. CASE OpenPdf
  <2>1. p \notin Saving
    BY <1>1 DEF OpenPdf
  <2>2. load' = [pc |-> "fetch", waiting |-> pending, cancelled |-> FALSE]
    BY <1>1 DEF OpenPdf
  <2>3. \A s \in Save : save'[s].pc # "idle" => save'[s].page # p
    BY <1>1, <2>1, NotSaving DEF OpenPdf
  <2>4. LoadAgrees(p)'
    BY <1>1, <2>1, <2>2 DEF Kept, Settled, LoadAgrees, OpenPdf, store
  <2> QED BY <1>1, <2>1, <2>3, <2>4, NotSaving
          DEF Kept, SavedAlone, Settled, SavesAgree, FlushAgrees, OpenPdf, store, Sending
<1>2. CASE fetchAnnotationsRemote
  <2>1. p \notin Saving
    BY <1>2, SavesAlone DEF fetchAnnotationsRemote, Kept
  <2>2. /\ load'.pc = "merge" /\ load'.waiting = load.waiting /\ load'.remote = server
        /\ load.pc = "fetch"
    BY <1>2 DEF fetchAnnotationsRemote
  <2>3. \A s \in Save : save'[s].pc # "idle" => save'[s].page # p
    BY <1>2, <2>1, NotSaving DEF fetchAnnotationsRemote
  <2>4. LoadAgrees(p)'
    BY <1>2, <2>2 DEF Kept, LoadAgrees, fetchAnnotationsRemote, marksHistory
  <2> QED BY <1>2, <2>1, <2>3, <2>4, NotSaving
          DEF Kept, SavedAlone, Settled, SavesAgree, FlushAgrees, fetchAnnotationsRemote, store,
              marksHistory, Sending
<1>3. CASE LoadMerge
  <2>1. p \notin Saving
    BY <1>3, SavesAlone DEF LoadMerge, Kept
  <2>2. cache'[p] = last[p]
    BY <1>3 DEF LoadMerge, Kept, LoadAgrees, overlay
  <2>3. load'.pc = "idle"
    BY <1>3 DEF LoadMerge, NoTask
  <2>4. \A s \in Save : save'[s].pc # "idle" => save'[s].page # p
    BY <1>3, <2>1, NotSaving DEF LoadMerge
  <2> QED BY <1>3, <2>1, <2>2, <2>3, <2>4, NotSaving
          DEF Kept, SavedAlone, Settled, LoadAgrees, SavesAgree, FlushAgrees, LoadMerge,
              marksHistory, Sending
<1>4. CASE LoadFromCache
  <2>1. load'.pc = "idle" /\ UNCHANGED <<store, save, flush, marksHistory>>
    BY <1>4 DEF LoadFromCache, NoTask
  <2> QED BY <2>1 DEF Kept, SavedAlone, Settled, LoadAgrees, SavesAgree, FlushAgrees, store,
                      marksHistory, Sending, Saving, BusySaves
<1>5. CASE ClosePdf
  <2>1. /\ load'.pc = load.pc
        /\ load.pc # "idle" => load'.waiting = load.waiting
        /\ load.pc = "merge" => load'.remote = load.remote
    <3>1. CASE load.pc = "idle"
      BY <1>5, <3>1 DEF ClosePdf, NoTask
    <3>2. CASE load \in [pc : {"fetch"}, waiting : Queue, cancelled : BOOLEAN]
      BY <1>5, <3>2 DEF ClosePdf
    <3>3. CASE load \in [pc : {"merge"}, waiting : Queue, cancelled : BOOLEAN, remote : Pages]
      BY <1>5, <3>3 DEF ClosePdf
    <3> QED BY <3>1, <3>2, <3>3 DEF MarksTyped, Loads, NoTask
  <2>2. UNCHANGED <<store, save, flush, marksHistory>>
    BY <1>5 DEF ClosePdf
  <2>3. LoadAgrees(p)'
    BY <2>1, <2>2 DEF Kept, LoadAgrees, store, marksHistory
  <2> QED BY <2>1, <2>2, <2>3
          DEF Kept, SavedAlone, Settled, SavesAgree, FlushAgrees, store, marksHistory, Sending,
              Saving, BusySaves
<1>6. CASE Reload
  <2>1. p \notin Saving
    BY <1>6 DEF Reload
  <2>2. /\ load'.pc = "idle" /\ flush'.pc = "idle" /\ \A s \in Save : save'[s].pc = "idle"
        /\ UNCHANGED <<store, last>>
    BY <1>6 DEF Reload, NoTask
  <2> QED BY <2>1, <2>2 DEF Kept, SavedAlone, Settled, LoadAgrees, SavesAgree, FlushAgrees, store
<1> QED BY <1>1, <1>2, <1>3, <1>4, <1>5, <1>6

\* An edit of a page.
LEMMA EditKeeps ==
    ASSUME MarksTyped, NEW q \in Page, NEW doc \in Doc, setPage(q, doc),
           UNCHANGED <<store, load, flush>>,
           NEW p \in Page, last'[p] # NoEdit, p \notin disturbed',
           last[p] # NoEdit /\ p \notin disturbed => Kept(p)
    PROVE  Kept(p)'
<1>1. PICK s \in Save : /\ save[s].pc = "idle"
                        /\ save'[s] = [pc |-> "read", page |-> q, data |-> doc]
                        /\ \A t \in Save \ {s} : save'[t] = save[t]
  BY EditShape
<1>2. last' = [last EXCEPT ![q] = doc] /\ last \in [Page -> {NoEdit} \union Doc]
  BY DEF setPage, MarksTyped
<1>3. CASE p = q
  <2>1. Quiet
    BY <1>3 DEF setPage
  <2>2. /\ load.pc = "idle" /\ flush.pc = "idle"
        /\ \A t \in Save : save[t].pc = "idle"
    BY <2>1 DEF Quiet, BusySaves
  <2>3. last'[p] = doc
    BY <1>2, <1>3
  <2>4. /\ save'[s].pc = "read" /\ save'[s].page = p /\ save'[s].data = doc
        /\ \A t \in Save \ {s} : save'[t].pc = "idle"
    BY <1>1, <1>3, <2>2
  <2>5. p \in Saving'
    BY <2>4 DEF Saving, BusySaves
  <2> QED BY <2>2, <2>3, <2>4, <2>5
          DEF Kept, SavedAlone, Settled, LoadAgrees, SavesAgree, FlushAgrees
<1>4. CASE p # q
  <2>1. p \notin disturbed /\ p \notin Saving /\ last'[p] = last[p]
    BY <1>2, <1>4 DEF setPage
  <2>2. Kept(p)
    BY <2>1
  <2>3. \A t \in Save : save'[t].pc # "idle" => save'[t].page # p
    BY <1>1, <1>4, <2>1, NotSaving
  <2>4. SavesAgree(p)'
    BY <1>1, <2>1, <2>2 DEF Kept, SavesAgree
  <2> QED BY <2>1, <2>2, <2>3, <2>4
          DEF Kept, SavedAlone, Settled, LoadAgrees, FlushAgrees, store, Sending
<1> QED BY <1>3, <1>4

\* A step of a save: of the page itself, which nothing else overlaps, or of another page.
LEMMA SavesKeep ==
    ASSUME MarksNulls, MarksTyped, NEW s \in Save, MarksSaving(s),
           NEW p \in Page, Kept(p)
    PROVE  Kept(p)'
<1> DEFINE q == save[s].page
           pc == save[s].pc
<1>1. save \in [Save -> Saves] /\ pc # "idle" /\ q \in Page /\ save[s].data \in Doc
  <2>1. save \in [Save -> Saves] /\ pc # "idle"
    BY DEF MarksTyped, MarksSaving, SaveReads, SaveWrites, putAnnotationRemote, SaveConfirmed,
           SaveQueued
  <2> QED BY <2>1, SaveShape
<1>2. /\ UNCHANGED <<load, flush, last>>
      /\ \A t \in Save \ {s} : save'[t] = save[t]
      /\ save'[s].pc # "idle" => save'[s].page = q /\ save'[s].data = save[s].data
      /\ SaveReads(s) => save'[s].pc = "write" /\ save'[s].pages = cache
      /\ SaveWrites(s) => save'[s].pc = "put"
      /\ putAnnotationRemote(s) => save'[s].pc = "confirm"
      /\ SaveConfirmed(s) \/ SaveQueued(s) => save'[s].pc = "idle"
  <2>1. CASE SaveReads(s)
    BY <1>1, <2>1 DEF SaveReads, marksHistory, SaveWrites, putAnnotationRemote, SaveConfirmed,
                      SaveQueued
  <2>2. CASE SaveWrites(s)
    <3>1. pc = "write" /\ SaveIn(s, "put") /\ UNCHANGED <<load, flush, last>>
      BY <2>2 DEF SaveWrites, marksHistory
    <3>2. /\ save'[s] = [pc |-> "put", page |-> q, data |-> save[s].data]
          /\ \A t \in Save \ {s} : save'[t] = save[t]
      BY <1>1, <3>1, SavesOn
    <3> QED BY <3>1, <3>2 DEF SaveReads, putAnnotationRemote, SaveConfirmed, SaveQueued
  <2>3. CASE putAnnotationRemote(s)
    <3>1. pc = "put" /\ SaveIn(s, "confirm") /\ UNCHANGED <<load, flush, last>>
      BY <2>3 DEF putAnnotationRemote, marksHistory
    <3>2. /\ save'[s] = [pc |-> "confirm", page |-> q, data |-> save[s].data]
          /\ \A t \in Save \ {s} : save'[t] = save[t]
      BY <1>1, <3>1, SavesOn
    <3>3. ~ SaveReads(s) /\ ~ SaveWrites(s)
      BY <3>1 DEF SaveReads, SaveWrites
    <3>4. ~ SaveConfirmed(s) /\ ~ SaveQueued(s)
      BY <1>1, <3>2 DEF SaveConfirmed, SaveQueued, SaveEnds, NoTask
    <3> QED BY <3>1, <3>2, <3>3, <3>4
  <2>4. CASE SaveConfirmed(s) \/ SaveQueued(s)
    <3>1. pc \in {"put", "confirm"} /\ SaveEnds(s) /\ UNCHANGED <<load, flush, last>>
      BY <2>4 DEF SaveConfirmed, SaveQueued, marksHistory
    <3>2. save'[s] = NoTask /\ \A t \in Save \ {s} : save'[t] = save[t]
      BY <1>1, <3>1, SavesEnd
    <3>3. ~ SaveReads(s) /\ ~ SaveWrites(s)
      BY <3>1 DEF SaveReads, SaveWrites
    <3>4. ~ putAnnotationRemote(s)
      BY <1>1, <3>2 DEF putAnnotationRemote, SaveIn, NoTask
    <3> QED BY <3>1, <3>2, <3>3, <3>4 DEF NoTask
  <2> QED BY <2>1, <2>2, <2>3, <2>4 DEF MarksSaving
<1>3. CASE p = q
  <2>1. /\ load.pc = "idle" /\ flush.pc = "idle"
        /\ \A t \in Save \ {s} : save[t].pc = "idle"
        /\ save[s].data = last[p]
        /\ pc \in {"put", "confirm"} => cache[p] = last[p]
        /\ pc = "confirm" => server[p] = last[p]
    BY <1>1, <1>3 DEF Kept, SavedAlone
  <2>2. \A t \in Save \ {s} : save'[t].pc = "idle"
    BY <1>2, <2>1
  <2>3. /\ load'.pc = "idle" /\ flush'.pc = "idle" /\ last' = last
    BY <1>2, <2>1
  <2>4. LoadAgrees(p)' /\ SavesAgree(p)' /\ FlushAgrees(p)'
    BY <1>2, <1>3, <2>2, <2>3 DEF LoadAgrees, SavesAgree, FlushAgrees
  <2>5. SavedAlone(p)' /\ Settled(p)'
    <3>1. CASE SaveReads(s)
      <4>1. save'[s].pc = "write" /\ save'[s].page = p /\ save'[s].data = last[p]
        BY <1>2, <1>3, <2>1, <3>1
      <4> QED BY <2>2, <2>3, <4>1 DEF SavedAlone, Settled, Saving, BusySaves
    <3>2. CASE SaveWrites(s)
      <4>1. save'[s].pc = "put" /\ save'[s].page = p /\ save'[s].data = last[p]
        BY <1>2, <1>3, <2>1, <3>2
      <4>2. cache'[p] = last[p]
        <5>1. save[s].pages \in Pages
          BY <1>1, <3>2, SaveShape DEF SaveWrites
        <5> QED BY <1>3, <2>1, <3>2, <5>1 DEF SaveWrites, Pages
      <4> QED BY <2>2, <2>3, <4>1, <4>2 DEF SavedAlone, Settled, Saving, BusySaves
    <3>3. CASE putAnnotationRemote(s)
      <4>1. save'[s].pc = "confirm" /\ save'[s].page = p /\ save'[s].data = last[p]
        BY <1>2, <1>3, <2>1, <3>3
      <4>2. cache'[p] = last[p] /\ server'[p] = last[p]
        BY <1>3, <2>1, <3>3 DEF putAnnotationRemote, MarksTyped, Pages
      <4> QED BY <2>2, <2>3, <4>1, <4>2 DEF SavedAlone, Settled, Saving, BusySaves
    <3>4. CASE SaveConfirmed(s)
      <4>1. /\ cache'[p] = last[p] /\ server'[p] = last[p] /\ pending'[p] = NoEdit
            /\ save'[s].pc = "idle"
        BY <1>2, <1>3, <2>1, <3>4 DEF SaveConfirmed, MarksTyped, Queue
      <4> QED BY <2>2, <2>3, <4>1 DEF SavedAlone, Settled
    <3>5. CASE SaveQueued(s)
      <4>1. /\ clock < MaxQueued /\ clock' = clock + 1
            /\ pending' = [pending EXCEPT ![q] = [data |-> save[s].data, at |-> clock']]
        BY <3>5 DEF SaveQueued
      <4>2. pending'[q] # NoEdit /\ pending'[q].data = save[s].data
        BY <1>1, <4>1, QueueJoined
      <4>3. cache'[p] = last[p] /\ save'[s].pc = "idle"
        BY <1>2, <2>1, <3>5 DEF SaveQueued
      <4> QED BY <1>3, <2>1, <2>2, <2>3, <4>2, <4>3 DEF SavedAlone, Settled
    <3> QED BY <3>1, <3>2, <3>3, <3>4, <3>5 DEF MarksSaving
  <2> QED BY <2>4, <2>5 DEF Kept
<1>4. CASE p # q
  <2>1. p \notin Saving
    BY <1>1, <1>4, NotSaving DEF Kept, SavedAlone
  <2>2. /\ cache[p] = last[p]
        /\ pending[p] = NoEdit => server[p] = last[p]
        /\ pending[p] # NoEdit => pending[p].data = last[p]
    BY <2>1 DEF Kept, Settled
  <2>3. \A t \in Save : save'[t].pc # "idle" => save'[t].page # p
    BY <1>2, <1>4, <2>1, NotSaving
  <2>4. server'[p] = server[p] /\ pending'[p] = pending[p]
    <3>1. CASE SaveReads(s) \/ SaveWrites(s)
      BY <3>1 DEF SaveReads, SaveWrites, store
    <3>2. CASE putAnnotationRemote(s)
      BY <1>4, <3>2 DEF putAnnotationRemote, MarksTyped, Pages
    <3>3. CASE SaveConfirmed(s)
      BY <1>4, <3>3 DEF SaveConfirmed, MarksTyped, Queue
    <3>4. CASE SaveQueued(s)
      BY <1>4, <3>4 DEF SaveQueued, MarksTyped, Queue
    <3> QED BY <3>1, <3>2, <3>3, <3>4 DEF MarksSaving
  <2>5. cache'[p] = last[p]
    <3>1. CASE SaveWrites(s)
      <4>1. save[s].pages \in Pages /\ save[s].pages[p] = last[p]
        BY <1>1, <1>4, <3>1, SaveShape DEF SaveWrites, Kept, SavesAgree
      <4> QED BY <1>4, <3>1, <4>1 DEF SaveWrites, Pages
    <3>2. CASE ~ SaveWrites(s)
      <4>1. cache' = cache
        BY <3>2 DEF MarksSaving, SaveReads, putAnnotationRemote, SaveConfirmed, SaveQueued, store
      <4> QED BY <2>2, <4>1
    <3> QED BY <3>1, <3>2
  <2>6. SavesAgree(p)'
    <3>1. CASE SaveReads(s)
      BY <1>2, <2>2, <3>1 DEF Kept, SavesAgree
    <3>2. CASE ~ SaveReads(s)
      <4>1. save'[s].pc # "write"
        BY <1>2, <3>2 DEF MarksSaving
      <4> QED BY <1>2, <4>1 DEF Kept, SavesAgree
    <3> QED BY <3>1, <3>2
  <2>7. SavedAlone(p)'
    BY <2>3 DEF SavedAlone
  <2>8. Settled(p)'
    BY <1>2, <2>2, <2>4, <2>5 DEF Settled
  <2>9. LoadAgrees(p)' /\ FlushAgrees(p)'
    BY <1>2, <2>4 DEF Kept, LoadAgrees, FlushAgrees, Sending
  <2> QED BY <2>6, <2>7, <2>8, <2>9 DEF Kept
<1> QED BY <1>3, <1>4

\* A flush sends, and drops, the page's own edit.
LEMMA FlushKeeps ==
    ASSUME MarksNulls, MarksTyped, NEW p \in Page, Kept(p), p \notin disturbed', MarksFlushing
    PROVE  Kept(p)'
<1>1. p \notin Saving
  BY SavesAlone DEF Kept, MarksFlushing, useFlushOnReconnect, FlushPut, FlushConfirmed,
                    FlushDrops, FlushBreaks
<1>2. /\ cache[p] = last[p]
      /\ pending[p] = NoEdit => server[p] = last[p]
      /\ pending[p] # NoEdit => pending[p].data = last[p]
  BY <1>1 DEF Kept, Settled
<1>3. UNCHANGED <<cache, load, save, last>>
  BY DEF MarksFlushing, useFlushOnReconnect, FlushPut, FlushConfirmed, FlushDrops, FlushBreaks,
         store, marksHistory
<1>4. SavedAlone(p)' /\ SavesAgree(p)'
  BY <1>1, <1>3, NotSaving DEF Kept, SavedAlone, SavesAgree
<1>5. /\ server'[p] = server[p] \/ server'[p] = last[p]
      /\ \/ pending'[p] = pending[p]
         \/ pending'[p] = NoEdit /\ server'[p] = last[p]
      /\ FlushAgrees(p)'
  <2>1. CASE useFlushOnReconnect
    <3>1. flush'.pc = "put" /\ flush'.batch = pending /\ UNCHANGED <<server, pending>>
      BY <2>1 DEF useFlushOnReconnect, store
    <3> QED BY <1>2, <1>3, <3>1 DEF FlushAgrees
  <2>2. CASE FlushPut
    <3>1. /\ flush.pc = "put" /\ pending' = pending
          /\ server' = [server EXCEPT ![Sending] = flush.batch[Sending].data]
      BY <2>2 DEF FlushPut
    <3>2. Sending \in Page /\ flush.batch[Sending] # NoEdit
      BY <3>1, SendingShape DEF MarksTyped
    <3>3. /\ flush'.pc = "confirm" /\ flush'.batch = flush.batch
          /\ flush'.rest = flush.rest
      BY <2>2, <3>1, FlushWaits DEF FlushPut, MarksTyped
    <3>4. Sending' = Sending
      BY <3>3 DEF Sending
    <3>5. flush.batch[p] # NoEdit => flush.batch[p].data = last[p]
      BY <3>1 DEF Kept, FlushAgrees
    <3>6. /\ p = Sending => server'[p] = last[p]
          /\ p # Sending => server'[p] = server[p]
      BY <3>1, <3>2, <3>5 DEF MarksTyped, Pages
    <3> QED BY <1>3, <3>1, <3>3, <3>4, <3>5, <3>6 DEF FlushAgrees
  <2>3. CASE FlushConfirmed
    <3>1. flush.pc = "confirm" /\ UNCHANGED <<server, pending>>
      BY <2>3 DEF FlushConfirmed, store
    <3>2. /\ flush'.pc = "drop" /\ flush'.batch = flush.batch /\ flush'.rest = flush.rest
          \/ /\ flush'.pc \in {"idle", "put"}
             /\ flush'.pc # "idle" => flush'.batch = flush.batch
      BY <2>3, <3>1, FlushWaits, FlushGoesOn DEF FlushConfirmed, MarksTyped
    <3> QED BY <1>3, <3>1, <3>2 DEF Kept, FlushAgrees, Sending
  <2>4. CASE FlushDrops
    <3>1. /\ flush.pc = "drop" /\ server' = server
          /\ pending' = [pending EXCEPT ![Sending] = NoEdit]
      BY <2>4 DEF FlushDrops
    <3>2. /\ flush'.pc \in {"idle", "put"}
          /\ flush'.pc # "idle" => flush'.batch = flush.batch
      BY <2>4, <3>1, FlushGoesOn DEF FlushDrops, MarksTyped
    <3>3. Sending = p => server[p] = last[p]
      BY <3>1 DEF Kept, FlushAgrees
    <3>4. /\ Sending = p => pending'[p] = NoEdit
          /\ Sending # p => pending'[p] = pending[p]
      BY <3>1 DEF MarksTyped, Queue
    <3> QED BY <1>3, <3>1, <3>2, <3>3, <3>4 DEF Kept, FlushAgrees
  <2>5. CASE FlushBreaks
    <3>1. flush'.pc = "idle" /\ UNCHANGED <<server, pending>>
      BY <2>5 DEF FlushBreaks, NoTask, store
    <3> QED BY <3>1 DEF FlushAgrees
  <2> QED BY <2>1, <2>2, <2>3, <2>4, <2>5 DEF MarksFlushing
<1>6. Settled(p)'
  BY <1>2, <1>3, <1>5 DEF Settled
<1>7. LoadAgrees(p)'
  BY <1>3, <1>5 DEF Kept, LoadAgrees
<1> QED BY <1>4, <1>5, <1>6, <1>7 DEF Kept

LEMMA MarksStart == ASSUME MarksNulls, MarksInit PROVE MarksInv
<1>1. {} \in Doc /\ Old \union Broken \in Doc
  BY DEF Doc
<1>2. server \in Pages /\ cache \in Pages /\ shown \in Pages
  BY <1>1 DEF MarksInit, Pages
<1>3. pending \in Queue /\ \A p \in Page : pending[p] = NoEdit /\ last[p] = NoEdit
  BY DEF MarksInit, Queue
<1>4. load \in Loads /\ save \in [Save -> Saves] /\ flush \in Flushes
  BY DEF MarksInit, Loads, Saves, Flushes
<1>5. undoStack \in Seq([page : Page, prev : Doc]) /\ Len(undoStack) <= MaxUndo
  BY DEF MarksInit, MarksNulls
<1>6. last \in [Page -> {NoEdit} \union Doc] /\ disturbed \subseteq Page /\ drawn \subseteq Stroke
  BY DEF MarksInit
<1>7. clock \in 0..MaxQueued
  BY DEF MarksInit, MarksNulls
<1>8. isOpen \in BOOLEAN
  BY DEF MarksInit
<1>9. MarksTyped
  BY <1>2, <1>3, <1>4, <1>5, <1>6, <1>7, <1>8 DEF MarksTyped
<1> QED BY <1>3, <1>9 DEF MarksInv

LEMMA MarksStep == ASSUME MarksNulls, MarksInv, [MarksNext]_marksVars PROVE MarksInv'
<1>0. MarksTyped
  BY DEF MarksInv
<1>1. CASE \/ OpenPdf \/ fetchAnnotationsRemote \/ LoadMerge \/ LoadFromCache \/ ClosePdf
           \/ Reload
  <2>1. MarksTyped'
    BY <1>0, <1>1, ScreenMarksTyped
  <2>2. last' = last /\ disturbed \subseteq disturbed'
    BY <1>1 DEF OpenPdf, fetchAnnotationsRemote, LoadMerge, LoadFromCache, ClosePdf, Reload,
                marksHistory
  <2>3. ASSUME NEW p \in Page, last'[p] # NoEdit, p \notin disturbed' PROVE Kept(p)'
    <3>1. Kept(p)
      BY <2>2, <2>3 DEF MarksInv
    <3> QED BY <1>0, <1>1, <2>3, <3>1, LoadsKeep
  <2> QED BY <2>1, <2>3 DEF MarksInv
<1>2. CASE MarksEdited
  <2>1. MarksTyped'
    BY <1>0, <1>2, EditsTyped
  <2>2. /\ UNCHANGED <<store, load, flush>>
        /\ \E q \in Page, doc \in Doc : setPage(q, doc)
    <3>1. UNCHANGED <<store, load, flush>>
      BY <1>2 DEF MarksEdited, penUp, erase, undo
    <3>2. ASSUME NEW q \in Page, penUp(q) PROVE \E doc \in Doc : setPage(q, doc)
      <4>1. PICK s \in Stroke : setPage(q, shown[q] \union {s})
        BY <3>2 DEF penUp, changePage
      <4>2. shown[q] \union {s} \in Doc
        BY <1>0 DEF MarksTyped, Pages, Doc
      <4> QED BY <4>1, <4>2
    <3>3. ASSUME NEW q \in Page, erase(q) PROVE \E doc \in Doc : setPage(q, doc)
      <4>1. PICK s \in shown[q] : setPage(q, shown[q] \ {s})
        BY <3>3 DEF erase, changePage
      <4>2. shown[q] \ {s} \in Doc
        BY <1>0 DEF MarksTyped, Pages, Doc
      <4> QED BY <4>1, <4>2
    <3>4. CASE undo
      <4> DEFINE Entry == [page : Page, prev : Doc]
                 top == undoStack[Len(undoStack)]
      <4>1. undoStack \in Seq(Entry) /\ undoStack # <<>> /\ setPage(top.page, top.prev)
        BY <1>0, <3>4 DEF undo, MarksTyped, Last
      <4> HIDE DEF Entry
      <4>2. top \in Entry
        BY <4>1, EmptySeq, ElementOfSeq
      <4>3. top.page \in Page /\ top.prev \in Doc
        BY <4>2 DEF Entry
      <4> HIDE DEF top
      <4> QED BY <3>1, <4>1, <4>3
    <3> QED BY <1>2, <3>1, <3>2, <3>3, <3>4 DEF MarksEdited
  <2>3. ASSUME NEW p \in Page, last'[p] # NoEdit, p \notin disturbed' PROVE Kept(p)'
    <3>1. PICK q \in Page, doc \in Doc : setPage(q, doc)
      BY <2>2
    <3>2. last[p] # NoEdit /\ p \notin disturbed => Kept(p)
      BY DEF MarksInv
    <3> QED BY <1>0, <2>2, <2>3, <3>1, <3>2, EditKeeps
  <2> QED BY <2>1, <2>3 DEF MarksInv
<1>3. ASSUME NEW s \in Save, MarksSaving(s) PROVE MarksInv'
  <2>1. MarksTyped'
    BY <1>0, <1>3, SavesTyped
  <2>2. last' = last /\ disturbed' = disturbed
    BY <1>3 DEF MarksSaving, SaveReads, SaveWrites, putAnnotationRemote, SaveConfirmed,
                SaveQueued, marksHistory
  <2>3. ASSUME NEW p \in Page, last'[p] # NoEdit, p \notin disturbed' PROVE Kept(p)'
    <3>1. Kept(p)
      BY <2>2, <2>3 DEF MarksInv
    <3> QED BY <1>0, <1>3, <3>1, SavesKeep
  <2> QED BY <2>1, <2>3 DEF MarksInv
<1>4. CASE MarksFlushing
  <2>1. MarksTyped'
    BY <1>0, <1>4, FlushTyped
  <2>2. last' = last /\ disturbed \subseteq disturbed'
    BY <1>4 DEF MarksFlushing, useFlushOnReconnect, FlushPut, FlushConfirmed, FlushDrops,
                FlushBreaks, marksHistory
  <2>3. ASSUME NEW p \in Page, last'[p] # NoEdit, p \notin disturbed' PROVE Kept(p)'
    <3>1. Kept(p)
      BY <2>2, <2>3 DEF MarksInv
    <3> QED BY <1>0, <1>4, <2>3, <3>1, FlushKeeps
  <2> QED BY <2>1, <2>3 DEF MarksInv
<1>5. CASE UNCHANGED marksVars
  BY <1>5 DEF MarksInv, MarksTyped, Kept, SavedAlone, Settled, LoadAgrees, SavesAgree,
              FlushAgrees, Saving, BusySaves, Sending, marksVars, store, marksScreen,
              marksHistory
<1> QED BY <1>1, <1>2, <1>3, <1>4, <1>5 DEF MarksNext, MarksEdited, MarksSaving, MarksFlushing

\* An edit that nothing overlapped is not lost, however many pages and saves there are,
\* whichever requests fail and whenever the tab is reloaded (annotationStore.ts:42-95).
THEOREM MarksQuietEditKept ==
    ASSUME MarksNulls PROVE MarksSpec => [](MarksTyped /\ QuietEditKept)
<1>1. ASSUME MarksInv PROVE MarksTyped /\ QuietEditKept
  <2>1. ASSUME Quiet, NEW p \in Page, last[p] # NoEdit, p \notin disturbed
        PROVE  overlay(server, pending)[p] = last[p] /\ overlay(cache, pending)[p] = last[p]
    <3>1. p \notin Saving
      BY <2>1 DEF Quiet, Saving
    <3>2. Settled(p)
      BY <1>1, <2>1 DEF MarksInv, Kept
    <3> QED BY <3>1, <3>2 DEF Settled, overlay
  <2> QED BY <1>1, <2>1 DEF MarksInv, QuietEditKept
<1> QED BY <1>1, MarksStart, MarksStep, PTL DEF MarksSpec
===============================================================================
