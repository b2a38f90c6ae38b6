---------------------------- MODULE ConcertProgram ----------------------------
(***************************************************************************)
(* The ordered note program of a concert                                   *)
(* (api_go/service/concertService.go) and the deletion of a note           *)
(* (noteService.go), which takes it out of every program.                  *)
(*                                                                         *)
(* A program is replaced by deleting its rows and inserting the new ones   *)
(* one by one, without a transaction.  An action is one statement; the     *)
(* checks that precede the first write of a request are part of its        *)
(* arrival, and a request they refuse is left out.                         *)
(***************************************************************************)
EXTENDS Integers, Sequences, SequencesExt

CONSTANTS
    Note,
    Concert,        \* concert ids; a fresh uuid is never reused
    Edit,           \* slots for requests that change programs
    NoConcert,
    NoNote,
    MaxProgram,     \* bound on the length of a program
    MaxSent         \* bound on the different programs sent for a concert

\* What the constants have to satisfy.
ConcertConstants ==
    /\ MaxProgram \in Nat
    /\ MaxSent \in Nat
    /\ NoConcert \notin Concert
    /\ NoNote \notin Note

VARIABLES
    notes,      \* the notes whose row exists
    concerts,   \* the concerts whose row exists
    used,       \* the concert ids given out
    rows,       \* note_in_concert: <<concert, place, note>>
    edit,       \* the request in each slot
    latest,     \* history: latest[c] is the program last accepted for c
    sent,       \* history: sent[c] are all programs ever accepted for c
    torn,       \* history: the concerts a failure has touched since they were last saved
    raced       \* history: the concerts saved last while requests overlapped

concertVars == <<notes, concerts, used, rows, edit, latest, sent, torn, raced>>
history == <<latest, sent, torn, raced>>

Lists == UNION {[1 .. k -> Note] : k \in 0 .. MaxProgram}

\* Mutant: duplicate ids are not dropped.
AsSent(p, program) == program = p

\* replaceNotesInConcert drops duplicate ids, keeping the first occurrence:
\* program has every note of p once, in the order they first occur in.
FirstOccurrences(p, program) ==
    /\ ToSet(program) = ToSet(p)
    /\ \A i, j \in DOMAIN program : i < j =>
          /\ program[i] # program[j]
          /\ \E k \in DOMAIN p : /\ p[k] = program[i]
                               /\ \A l \in 1 .. k : p[l] # program[j]

Saving   == {"insert", "update", "clear", "fill"}
Deleting == {"clearRows", "dropConcert"}
Request  == [pc      : {"idle", "unlink", "dropNote"} \union Saving \union Deleting,
             concert : Concert \union {NoConcert},
             note    : Note \union {NoNote},
             todo    : Lists,
             place   : 1 .. MaxProgram + 1]

Local(pc, c, n, todo) ==
    [pc |-> pc, concert |-> c, note |-> n, todo |-> todo, place |-> 1]

Blank == Local("idle", NoConcert, NoNote, <<>>)

ConcertTypeOK ==
    /\ notes \subseteq Note
    /\ concerts \subseteq used /\ used \subseteq Concert
    /\ rows \subseteq Concert \X (1 .. MaxProgram) \X Note
    /\ edit \in [Edit -> Request]
    /\ latest \in [Concert -> Lists]
    /\ sent \in [Concert -> SUBSET Lists]
    /\ torn \subseteq Concert
    /\ raced \subseteq Concert

ConcertInit ==
    /\ notes = Note
    /\ concerts = {} /\ used = {} /\ rows = {}
    /\ edit = [r \in Edit |-> Blank]
    /\ latest = [c \in Concert |-> <<>>]
    /\ sent = [c \in Concert |-> {}]
    /\ torn = {} /\ raced = {}

Quiet == \A r \in Edit : edit[r].pc = "idle"
RowsOf(c) == {row \in rows : row[1] = c}
GoOn(r, pc) == edit' = [edit EXCEPT ![r].pc = pc]
EndEdit(r) == edit' = [edit EXCEPT ![r] = Blank]

-----------------------------------------------------------------------------
(* Create and update.                                                      *)

\* validateNotesOwned has found every note.
Accept(r, c, pc, p) ==
    /\ edit[r].pc = "idle"
    /\ ToSet(p) \subseteq notes
    /\ \E program \in Lists :
       /\ FirstOccurrences(p, program)
       /\ program \in sent[c] \/ Cardinality(sent[c]) < MaxSent
       /\ edit' = [edit EXCEPT ![r] = Local(pc, c, NoNote, program)]
       /\ latest' = [latest EXCEPT ![c] = program]
       /\ sent' = [sent EXCEPT ![c] = @ \union {program}]
    /\ torn' = torn \ {c}
    /\ raced' = IF Quiet THEN raced \ {c} ELSE used'
    /\ UNCHANGED <<notes, concerts, rows>>

CreateConcert(r, c, p) ==
    /\ c \notin used
    /\ used' = used \union {c}
    /\ Accept(r, c, "insert", p)

UpdateConcert(r, c, p) ==
    /\ c \in concerts
    /\ UNCHANGED used
    /\ Accept(r, c, "update", p)

InsertConcert(r) ==
    /\ edit[r].pc = "insert"
    /\ concerts' = concerts \union {edit[r].concert}
    /\ GoOn(r, "clear")
    /\ UNCHANGED <<notes, used, rows, history>>

\* The UPDATE of the concert's own fields is no error when the row is gone.
UpdateFields(r) ==
    /\ edit[r].pc = "update"
    /\ GoOn(r, "clear")
    /\ UNCHANGED <<notes, concerts, used, rows, history>>

ClearProgram(r) ==
    /\ edit[r].pc = "clear"
    /\ rows' = rows \ RowsOf(edit[r].concert)
    /\ GoOn(r, "fill")
    /\ UNCHANGED <<notes, concerts, used, history>>

\* The foreign keys and the two UNIQUE keys of note_in_concert.
Insertable(row) ==
    /\ row[1] \in concerts
    /\ row[3] \in notes
    /\ \A other \in RowsOf(row[1]) : row[2] # other[2] /\ row[3] # other[3]

\* Mutant: the place is taken from the rows that are there.
FillFromCount(r) ==
    LET q   == edit[r]
        row == <<q.concert, Cardinality(RowsOf(q.concert)) + 1, Head(q.todo)>> IN
    /\ q.pc = "fill" /\ q.todo # <<>>
    /\ IF Insertable(row)
       THEN /\ rows' = rows \union {row}
            /\ edit' = [edit EXCEPT ![r].todo = Tail(@), ![r].place = @ + 1]
       ELSE EndEdit(r) /\ UNCHANGED rows
    /\ UNCHANGED <<notes, concerts, used, history>>

\* One INSERT; a key that does not hold is an error that ends the request.
FillNext(r) ==
    LET q   == edit[r]
        row == <<q.concert, q.place, Head(q.todo)>> IN
    /\ q.pc = "fill" /\ q.todo # <<>>
    /\ IF Insertable(row)
       THEN /\ rows' = rows \union {row}
            /\ edit' = [edit EXCEPT ![r].todo = Tail(@), ![r].place = @ + 1]
       ELSE EndEdit(r) /\ UNCHANGED rows
    /\ UNCHANGED <<notes, concerts, used, history>>

Filled(r) ==
    /\ edit[r].pc = "fill" /\ edit[r].todo = <<>>
    /\ EndEdit(r)
    /\ UNCHANGED <<notes, concerts, used, rows, history>>

-----------------------------------------------------------------------------
(* Deletions.                                                              *)

DeleteConcert(r, c) ==
    /\ edit[r].pc = "idle"
    /\ c \in concerts
    /\ edit' = [edit EXCEPT ![r] = Local("clearRows", c, NoNote, <<>>)]
    /\ raced' = IF Quiet THEN raced ELSE used
    /\ UNCHANGED <<notes, concerts, used, rows, latest, sent, torn>>

ClearRows(r) ==
    /\ edit[r].pc = "clearRows"
    /\ rows' = rows \ RowsOf(edit[r].concert)
    /\ GoOn(r, "dropConcert")
    /\ UNCHANGED <<notes, concerts, used, history>>

\* Refused by the foreign key while a row refers to the concert.
DropConcert(r) ==
    /\ edit[r].pc = "dropConcert"
    /\ concerts' = IF RowsOf(edit[r].concert) = {}
                   THEN concerts \ {edit[r].concert} ELSE concerts
    /\ EndEdit(r)
    /\ UNCHANGED <<notes, used, rows, history>>

DeleteNote(r, n) ==
    /\ edit[r].pc = "idle"
    /\ n \in notes
    /\ edit' = [edit EXCEPT ![r] = Local("unlink", NoConcert, n, <<>>)]
    /\ raced' = IF Quiet THEN raced ELSE used
    /\ UNCHANGED <<notes, concerts, used, rows, latest, sent, torn>>

UnlinkNote(r) ==
    /\ edit[r].pc = "unlink"
    /\ rows' = {row \in rows : row[3] # edit[r].note}
    /\ GoOn(r, "dropNote")
    /\ UNCHANGED <<notes, concerts, used, history>>

DropNote(r) ==
    /\ edit[r].pc = "dropNote"
    /\ notes' = IF \E row \in rows : row[3] = edit[r].note
                THEN notes ELSE notes \ {edit[r].note}
    /\ EndEdit(r)
    /\ UNCHANGED <<concerts, used, rows, history>>

\* A statement fails for want of the database, or the server dies.
EditFails(r) ==
    /\ edit[r].pc # "idle"
    /\ torn' = torn \union {c \in Concert :
                               \/ c = edit[r].concert
                               \/ edit[r].note \in ToSet(latest[c])}
    /\ EndEdit(r)
    /\ UNCHANGED <<notes, concerts, used, rows, latest, sent, raced>>

Arrive(r) ==
    \/ \E c \in Concert, p \in Lists : CreateConcert(r, c, p) \/ UpdateConcert(r, c, p)
    \/ \E c \in Concert : DeleteConcert(r, c)
    \/ \E n \in Note : DeleteNote(r, n)

Step(r) ==
    \/ InsertConcert(r) \/ UpdateFields(r) \/ ClearProgram(r)
    \/ FillNext(r) \/ Filled(r)
    \/ ClearRows(r) \/ DropConcert(r)
    \/ UnlinkNote(r) \/ DropNote(r)

ConcertNext == \E r \in Edit : Arrive(r) \/ Step(r) \/ EditFails(r)

ConcertSpec == ConcertInit /\ [][ConcertNext]_concertVars

-----------------------------------------------------------------------------
(* Properties.                                                             *)

\* p as rows of c, without the notes deleted since.
AsRows(c, p) == {<<c, i, p[i]>> : i \in {j \in DOMAIN p : p[j] \in notes}}

\* Between requests a concert holds the program it was last given, each note
\* at its place, less the notes deleted since, unless a failure or another
\* request came in between; whatever they left, the next save repairs.
LastSentStored ==
    Quiet => \A c \in concerts \ (torn \union raced) : RowsOf(c) = AsRows(c, latest[c])

\* However requests interleave, every row stands where some request put it:
\* no program mixes a note into a place nobody asked for.
EveryRowWasSent ==
    \A row \in rows : \E p \in sent[row[1]] :
      row[2] \in DOMAIN p /\ p[row[2]] = row[3]

\* replaceNotesInConcert's comment: a partial write only happens on
\* infrastructure failure; so a quiet, unspoilt concert holds a program that
\* some request sent.
NoPartialWrite ==
    Quiet => \A c \in concerts \ torn :
               \E p \in sent[c] : RowsOf(c) = AsRows(c, p)
=============================================================================
