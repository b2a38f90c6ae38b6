------------------------------ MODULE Inventory ------------------------------
(***************************************************************************)
(* The server side of the inventory sweep: inventory numbers, sweep        *)
(* sessions, sightings, the completion report and the moves a report       *)
(* proposes (api_go/service/inventoryService.go), for the elements of one  *)
(* user.                                                                   *)
(*                                                                         *)
(* The service holds no transaction: a handler is a sequence of separately *)
(* committed SQL statements, and any number of handlers run at once.  A    *)
(* request is therefore a process, and an action is one SQL statement with *)
(* the local computation around it.  Reads that precede a request's first  *)
(* write and whose answer no later statement of it depends on are merged   *)
(* with the arrival of the request; a request refused there changes        *)
(* nothing and is left out.                                                *)
(***************************************************************************)
EXTENDS Integers

CONSTANTS
    Note,           \* the sheets (elements of type 'note')
    Folder,         \* the Mappen (elements of type 'folder')
    Sweep,          \* sweep ids; a fresh uuid is never reused
    Req,            \* request slots: how many handlers run at once
    NoFolder,
    NoSweep,
    NoNote,
    MaxAttempts,    \* retries of AssignInventoryNo, 5 in the code
    MaxTime         \* bound on the clock of the model

ASSUME InventoryAssumption ==
    /\ MaxAttempts \in Nat
    /\ MaxTime \in Nat
    /\ NoFolder \notin Folder
    /\ NoSweep \notin Sweep
    /\ NoNote \notin Note

VARIABLES
    notes,      \* the notes whose row exists
    folders,    \* the folders whose row exists
    parent,     \* parent[n]: the folder n lies in
    inv,        \* inv[n]: inventory_no, 0 for NULL; kept when the row is gone
    phase,      \* phase[s]: is sweep s unused, open, done or gone?
    home,       \* home[s]: the folder that s sweeps
    doneAt,     \* doneAt[s]: completed_at, 0 for NULL
    sighted,    \* the rows <<s, n>> of inventory_sighting
    now,        \* the clock behind CURRENT_TIMESTAMP, in seconds
    req,        \* the request in each slot: its program counter and locals
    frozen,     \* history: the sightings of s at the moment s became done
    aborted     \* history: notes a request left without trying to the end

vars == <<notes, folders, parent, inv, phase, home, doneAt, sighted, now,
          req, frozen, aborted>>

elements == <<notes, folders, parent>>
sweeps   == <<phase, home, doneAt, frozen>>

(***************************************************************************)
(* The locals of a request.  "no" is the number it tries and, once pc is   *)
(* "ok", the number it answers; "seen" are the sightings it has read,      *)
(* "missing" the notes it reports missing or still has to move, "hint" the *)
(* sweep its report names as the last to have seen a missing note.         *)
(***************************************************************************)
\* Inside AssignInventoryNo; about a note; about a sweep.
Numbering  == {"find", "max", "set", "readBack"}
AboutNote  == Numbering \union {"insert", "ok"}
AboutSweep == {"insert", "complete", "list", "folderNotes", "lastSeen",
               "report", "cancel", "move"}
Pcs == {"idle"} \union AboutNote \union AboutSweep

Locals == [pc      : Pcs,
           note    : Note \union {NoNote},
           sweep   : Sweep \union {NoSweep},
           no      : Nat,
           tries   : Nat,
           seen    : SUBSET Note,
           missing : SUBSET Note,
           hint    : [Note -> Sweep \union {NoSweep}]]

Request == {x \in Locals : /\ x.pc \in AboutNote => x.note \in Note
                           /\ x.pc \in AboutSweep => x.sweep \in Sweep}

NoHint == [n \in Note |-> NoSweep]

\* A request at pc about note n and sweep s, with the number no and the set N.
Local(pc, n, s, no, N) ==
    [pc |-> pc, note |-> n, sweep |-> s, no |-> no, tries |-> 0,
     seen |-> {}, missing |-> N, hint |-> NoHint]

Blank == Local("idle", NoNote, NoSweep, 0, {})

RowsOK ==
    /\ notes \subseteq Note
    /\ folders \subseteq Folder
    /\ parent \in [Note -> Folder]
    /\ inv \in [Note -> Nat]
    /\ phase \in [Sweep -> {"unused", "open", "done", "gone"}]
    /\ home \in [Sweep -> Folder \union {NoFolder}]
    /\ doneAt \in [Sweep -> Nat]
    /\ sighted \subseteq Sweep \X Note
    /\ now \in Nat
    /\ frozen \in [Sweep -> SUBSET Note]
    /\ aborted \subseteq Note

TypeOK == RowsOK /\ req \in [Req -> Request]

Init ==
    /\ notes = Note
    /\ folders = Folder
    /\ parent \in [Note -> Folder]
    /\ inv = [n \in Note |-> 0]
    /\ phase = [s \in Sweep |-> "unused"]
    /\ home = [s \in Sweep |-> NoFolder]
    /\ doneAt = [s \in Sweep |-> 0]
    /\ sighted = {}
    /\ now = 1
    /\ req = [r \in Req |-> Blank]
    /\ frozen = [s \in Sweep |-> {}]
    /\ aborted = {}

SightedIn(s) == {n \in notes : <<s, n>> \in sighted}
Exists(s) == phase[s] \in {"open", "done"}
Free(r) == req[r].pc \in {"idle", "ok", "report"}

\* Mutant: the answer forgets whom it is about.
AnswerNobody(r, no) ==
    req' = [req EXCEPT ![r] = Local("ok", NoNote, NoSweep, no, {})]

\* The request in slot r goes on at pc with nothing else of it changed; it
\* ends without an answer to remember; it ends answering a number.
Goto(r, pc) == req' = [req EXCEPT ![r].pc = pc]
End(r)      == req' = [req EXCEPT ![r] = Blank]
Answer(r, no) ==
    req' = [req EXCEPT ![r] = Local("ok", req[r].note, NoSweep, no, {})]

-----------------------------------------------------------------------------
(* AssignInventoryNo, on its own (PostInventoryNumber) or called last by   *)
(* AddSighting.                                                            *)

NumberNote(r, n) ==
    /\ Free(r)
    /\ n \in notes
    /\ req' = [req EXCEPT ![r] = Local("find", n, NoSweep, 0, {})]
    /\ UNCHANGED <<elements, inv, sweeps, sighted, now, aborted>>

\* Mutants: no UNIQUE key; no IS NULL.
NeverTaken(no)   == FALSE
NumberedOrNot(n) == n \in notes

\* The UNIQUE key (user_id_fk, inventory_no), and the clause IS NULL of the
\* UPDATE.
NumberTaken(no) == \E m \in notes : inv[m] = no
Unnumbered(n)   == n \in notes /\ inv[n] = 0

\* The note is read: an answer if it has a number, an error if it is gone.
FindNote(r) ==
    LET n == req[r].note IN
    /\ req[r].pc = "find"
    /\ \/ n \notin notes /\ End(r)
       \/ n \in notes /\ inv[n] # 0 /\ Answer(r, inv[n])
       \/ Unnumbered(n) /\ Goto(r, "max")
    /\ UNCHANGED <<elements, inv, sweeps, sighted, now, aborted>>

\* SELECT MAX(inventory_no), at the head of each attempt.
ReadMax(r) ==
    /\ req[r].pc = "max"
    /\ req[r].tries < MaxAttempts
    /\ \E m \in {0} \union {inv[n] : n \in notes} :
         /\ \A n \in notes : inv[n] <= m
         /\ req' = [req EXCEPT ![r].pc = "set", ![r].no = m + 1]
    /\ UNCHANGED <<elements, inv, sweeps, sighted, now, aborted>>

\* The request ends with its work undone.
Abort(r) ==
    /\ End(r)
    /\ aborted' = IF req[r].pc \in Numbering /\ Unnumbered(req[r].note)
                  THEN aborted \union {req[r].note} ELSE aborted

GiveUp(r) ==
    /\ req[r].pc = "max"
    /\ req[r].tries >= MaxAttempts
    /\ Abort(r)
    /\ UNCHANGED <<elements, inv, sweeps, sighted, now>>

SetNumber(r) ==
    /\ req[r].pc = "set"
    /\ Unnumbered(req[r].note)
    /\ ~ NumberTaken(req[r].no)
    /\ inv' = [inv EXCEPT ![req[r].note] = req[r].no]
    /\ aborted' = aborted \ {req[r].note}
    /\ Answer(r, req[r].no)
    /\ UNCHANGED <<elements, sweeps, sighted, now>>

\* Mutants: retry with the next number instead of a new maximum; do not count.
SetFailsBumps(r) ==
    /\ req[r].pc = "set"
    /\ req[r].tries < MaxAttempts
    /\ req' = [req EXCEPT ![r].no = @ + 1, ![r].tries = @ + 1]
    /\ UNCHANGED <<elements, inv, sweeps, sighted, now, aborted>>

SetFailsForever(r) ==
    /\ req[r].pc = "set"
    /\ Goto(r, "max")
    /\ UNCHANGED <<elements, inv, sweeps, sighted, now, aborted>>

\* The UPDATE failed, on the UNIQUE key or otherwise: the next attempt.
SetFails(r) ==
    /\ req[r].pc = "set"
    /\ req' = [req EXCEPT ![r].pc = "max", ![r].tries = @ + 1]
    /\ UNCHANGED <<elements, inv, sweeps, sighted, now, aborted>>

\* No row was updated: the note is gone or another request numbered it.
SetMisses(r) ==
    /\ req[r].pc = "set"
    /\ ~ Unnumbered(req[r].note)
    /\ Goto(r, "readBack")
    /\ UNCHANGED <<elements, inv, sweeps, sighted, now, aborted>>

\* Mutant: answer the number tried, not the one read back.
ReadBackTrusts(r) ==
    /\ req[r].pc = "readBack"
    /\ Answer(r, req[r].no)
    /\ UNCHANGED <<elements, inv, sweeps, sighted, now, aborted>>

ReadBack(r) ==
    LET n == req[r].note IN
    /\ req[r].pc = "readBack"
    /\ IF n \in notes /\ inv[n] # 0
       THEN Answer(r, inv[n])
       ELSE req' = [req EXCEPT ![r].pc = "max", ![r].tries = @ + 1]
    /\ UNCHANGED <<elements, inv, sweeps, sighted, now, aborted>>

-----------------------------------------------------------------------------
(* Sweep sessions.                                                         *)

CreateSweep(s, f) ==
    /\ phase[s] = "unused"
    /\ f \in folders
    /\ phase' = [phase EXCEPT ![s] = "open"]
    /\ home' = [home EXCEPT ![s] = f]
    /\ UNCHANGED <<elements, inv, doneAt, frozen, sighted, now, req, aborted>>

AddSighting(r, s, n) ==
    /\ Free(r)
    /\ phase[s] = "open"
    /\ n \in notes
    /\ req' = [req EXCEPT ![r] = Local("insert", n, s, 0, {})]
    /\ UNCHANGED <<elements, inv, sweeps, sighted, now, aborted>>

\* Mutant: a sighting is recorded without numbering the sheet.
InsertSightingOnly(r) ==
    /\ req[r].pc = "insert"
    /\ sighted' = sighted \union
                    {p \in {<<req[r].sweep, req[r].note>>} :
                       p[2] \in notes /\ Exists(p[1])}
    /\ End(r)
    /\ UNCHANGED <<elements, inv, sweeps, now, aborted>>

\* INSERT IGNORE: a second sighting, and a foreign key that no longer holds,
\* insert nothing and are no error.
InsertSighting(r) ==
    LET n == req[r].note
        s == req[r].sweep IN
    /\ req[r].pc = "insert"
    /\ sighted' = IF n \in notes /\ Exists(s)
                  THEN sighted \union {<<s, n>>} ELSE sighted
    /\ Goto(r, "find")
    /\ UNCHANGED <<elements, inv, sweeps, now, aborted>>

CompleteSweep(r, s) ==
    /\ Free(r)
    /\ phase[s] = "open"
    /\ req' = [req EXCEPT ![r] = Local("complete", NoNote, s, 0, {})]
    /\ UNCHANGED <<elements, inv, sweeps, sighted, now, aborted>>

\* UPDATE ... SET completed_at WHERE id = ?: whatever became of the sweep
\* since it was read.
MarkCompleted(r) ==
    LET s == req[r].sweep IN
    /\ req[r].pc = "complete"
    /\ IF Exists(s)
       THEN /\ phase' = [phase EXCEPT ![s] = "done"]
            /\ doneAt' = [doneAt EXCEPT ![s] = now]
            /\ frozen' = IF phase[s] = "open"
                         THEN [frozen EXCEPT ![s] = SightedIn(s)] ELSE frozen
       ELSE UNCHANGED <<phase, doneAt, frozen>>
    /\ Goto(r, "list")
    /\ UNCHANGED <<elements, inv, home, sighted, now, aborted>>

\* Mutant: only the sightings of sheets that lie in the swept folder now.
ListHomeSightings(r) ==
    LET s == req[r].sweep IN
    /\ req[r].pc = "list"
    /\ req' = [req EXCEPT ![r].pc = "folderNotes",
                          ![r].seen = {n \in SightedIn(s) : parent[n] = home[s]}]
    /\ UNCHANGED <<elements, inv, sweeps, sighted, now, aborted>>

\* ListSightingsForSweep.
ListSightings(r) ==
    /\ req[r].pc = "list"
    /\ req' = [req EXCEPT ![r].pc = "folderNotes",
                          ![r].seen = SightedIn(req[r].sweep)]
    /\ UNCHANGED <<elements, inv, sweeps, sighted, now, aborted>>

\* FindNotesInFolderForInventory and the loop that drops the sighted ones.
ReportMissing(r) ==
    /\ req[r].pc = "folderNotes"
    /\ req' = [req EXCEPT
                 ![r].missing = {n \in notes \ req[r].seen :
                                   parent[n] = home[req[r].sweep]},
                 ![r].pc = "lastSeen"]
    /\ UNCHANGED <<elements, inv, sweeps, sighted, now, aborted>>

\* FindLastSightingsForNotes: for each missing note the first of its
\* completed sweeps, newest first.
LastSightings(n) ==
    LET of == {s \in Sweep : phase[s] = "done" /\ <<s, n>> \in sighted}
    IN  {s \in of : \A t \in of : doneAt[t] <= doneAt[s]}

HintLastSeen(r) ==
    /\ req[r].pc = "lastSeen"
    /\ \E h \in [Note -> Sweep \union {NoSweep}] :
         /\ \A n \in Note :
              IF n \in req[r].missing /\ LastSightings(n) # {}
              THEN h[n] \in LastSightings(n) ELSE h[n] = NoSweep
         /\ req' = [req EXCEPT ![r].pc = "report", ![r].hint = h, ![r].seen = {}]
    /\ UNCHANGED <<elements, inv, sweeps, sighted, now, aborted>>

CancelSweep(r, s) ==
    /\ Free(r)
    /\ phase[s] = "open"
    /\ req' = [req EXCEPT ![r] = Local("cancel", NoNote, s, 0, {})]
    /\ UNCHANGED <<elements, inv, sweeps, sighted, now, aborted>>

\* Mutant: no completed_at IS NULL.
CancelAny(s)   == Exists(s)
\* DELETE ... WHERE completed_at IS NULL, the sightings by cascade; no row
\* deleted is answered with ErrSweepCompleted.
Cancellable(s) == phase[s] = "open"

DeleteIncomplete(r) ==
    LET s == req[r].sweep IN
    /\ req[r].pc = "cancel"
    /\ IF Cancellable(s)
       THEN /\ phase' = [phase EXCEPT ![s] = "gone"]
            /\ sighted' = {p \in sighted : p[1] # s}
       ELSE UNCHANGED <<phase, sighted>>
    /\ End(r)
    /\ UNCHANGED <<elements, inv, home, doneAt, frozen, now, aborted>>

\* ApplyMoves checks every note against the sightings before the first move.
ApplyMoves(r, s, N) ==
    /\ Free(r)
    /\ Exists(s)
    /\ N # {} /\ N \subseteq SightedIn(s)
    /\ req' = [req EXCEPT ![r] = Local("move", NoNote, s, 0, N)]
    /\ UNCHANGED <<elements, inv, sweeps, sighted, now, aborted>>

\* One UPDATE of parent per note; a swept folder that is gone is a foreign
\* key error and ends the request.
MoveNext(r) ==
    LET f == home[req[r].sweep] IN
    /\ req[r].pc = "move"
    /\ IF f \in folders
       THEN \E n \in req[r].missing :
              /\ parent' = IF n \in notes
                           THEN [parent EXCEPT ![n] = f] ELSE parent
              /\ req' = [req EXCEPT
                           ![r] = LET N == req[r].missing \ {n} IN
                                  IF N = {} THEN Blank
                                  ELSE Local("move", NoNote, req[r].sweep, 0, N)]
       ELSE End(r) /\ UNCHANGED parent
    /\ UNCHANGED <<notes, folders, inv, sweeps, sighted, now, aborted>>

-----------------------------------------------------------------------------
(* The rest of the program on the same rows, failures and time.            *)

MoveToFolder(n, f) ==
    /\ n \in notes /\ f \in folders
    /\ parent' = [parent EXCEPT ![n] = f]
    /\ UNCHANGED <<notes, folders, inv, sweeps, sighted, now, req, aborted>>

DeleteNote(n) ==
    /\ n \in notes
    /\ notes' = notes \ {n}
    /\ sighted' = {p \in sighted : p[2] # n}
    /\ UNCHANGED <<folders, parent, inv, sweeps, now, req, aborted>>

\* ON DELETE CASCADE takes the notes, the sweeps and the sightings along.
DeleteFolder(f) ==
    /\ f \in folders
    /\ folders' = folders \ {f}
    /\ notes' = {n \in notes : parent[n] # f}
    /\ phase' = [s \in Sweep |-> IF home[s] = f THEN "gone" ELSE phase[s]]
    /\ sighted' = {p \in sighted : parent[p[2]] # f /\ home[p[1]] # f}
    /\ UNCHANGED <<parent, inv, home, doneAt, frozen, now, req, aborted>>

\* A statement fails or the server dies: the request ends where it stands
\* and what it committed stays.
Fail(r) ==
    /\ ~ Free(r)
    /\ Abort(r)
    /\ UNCHANGED <<elements, inv, sweeps, sighted, now>>

Tick ==
    /\ now < MaxTime
    /\ now' = now + 1
    /\ UNCHANGED <<elements, inv, sweeps, sighted, req, aborted>>

Arrive(r) ==
    \/ \E n \in Note : NumberNote(r, n)
    \/ \E s \in Sweep, n \in Note : AddSighting(r, s, n)
    \/ \E s \in Sweep : CompleteSweep(r, s)
    \/ \E s \in Sweep : CancelSweep(r, s)
    \/ \E s \in Sweep, N \in SUBSET Note : ApplyMoves(r, s, N)

\* The handler in slot r executes its next statement.
Step(r) ==
    \/ FindNote(r)
    \/ ReadMax(r)
    \/ GiveUp(r)
    \/ SetNumber(r)
    \/ SetFails(r)
    \/ SetMisses(r)
    \/ ReadBack(r)
    \/ InsertSighting(r)
    \/ MarkCompleted(r)
    \/ ListSightings(r)
    \/ ReportMissing(r)
    \/ HintLastSeen(r)
    \/ DeleteIncomplete(r)
    \/ MoveNext(r)

Library ==
    \/ \E s \in Sweep, f \in Folder : CreateSweep(s, f)
    \/ \E n \in Note, f \in Folder : MoveToFolder(n, f)
    \/ \E n \in Note : DeleteNote(n)
    \/ \E f \in Folder : DeleteFolder(f)

Next ==
    \/ \E r \in Req : Arrive(r) \/ Step(r) \/ Fail(r)
    \/ Library
    \/ Tick

Spec == Init /\ [][Next]_vars

\* A goroutine that has started a request keeps running.
FairSpec == Spec /\ \A r \in Req : WF_vars(Step(r))

-----------------------------------------------------------------------------
(* Properties.                                                             *)

\* Two notes never carry the same inventory number, although every request
\* computes MAX + 1 from a maximum that may be stale when it writes.
UniqueNumbers ==
    \A m, n \in notes : inv[m] = inv[n] /\ inv[m] # 0 => m = n

\* Every number up to the highest one ever assigned has been assigned: a
\* retry on a stale maximum skips none.
Assigned == {inv[n] : n \in Note} \ {0}

Gapless == \A no \in Assigned : \A k \in 1 .. no : k \in Assigned

\* The number stamped on the paper is for good: once a note has one, no
\* request replaces or clears it.
NumberStable ==
    [][\A n \in Note : inv[n] # 0 => inv'[n] = inv[n]]_vars

\* A request that answered a number answered the number its note carries,
\* also when another request numbered the note in between.
AnswerIsTheNumber ==
    \A r \in Req : req[r].pc = "ok" /\ req[r].note \in notes
                     => req[r].no # 0 /\ inv[req[r].note] = req[r].no

\* The sweep is the stamping opportunity: a sighted note has its number, or
\* a request is about to give it one, or one was cut short while it did.
SightedIsNumbered ==
    \A p \in sighted :
      \/ inv[p[2]] # 0
      \/ p[2] \in aborted
      \/ \E r \in Req : req[r].pc \in Numbering /\ req[r].note = p[2]

\* Completed sweeps are history and do not vanish: whatever requests race,
\* a completed sweep goes only with its folder, and it never reopens.
CompletedSweepKept ==
    [][\A s \in Sweep :
         phase[s] = "done" =>
           phase'[s] = "done" \/ home[s] \in folders \ folders']_vars

\* The report never calls a note missing that the sweep had sighted by the
\* time it was completed.
NoSightedNoteMissing ==
    \A r \in Req : req[r].pc = "report" =>
                     req[r].missing \intersect frozen[req[r].sweep] = {}

\* Every request ends: the retry loop of AssignInventoryNo cannot spin.
Terminates == \A r \in Req : ~ Free(r) ~> Free(r)
=============================================================================
