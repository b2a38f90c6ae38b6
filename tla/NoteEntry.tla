------------------------------ MODULE NoteEntry ------------------------------
(***************************************************************************)
(* Entering sheet music: the dialog CreateFolderOrNote with its helpers    *)
(* (ui/src/components: CreateFolderOrNote.tsx, InlineAuthorCreateDialog,   *)
(* AuthorConflictDialog, AuthorDisambiguationDialog, searchBars/; the      *)
(* calls of ui/src/api/autocomplete.ts), over the server's resolution of   *)
(* authors (external: authorResolution.go, worksFromWikidata.go).          *)
(*                                                                         *)
(* Fields can be filled by typing, by picking a suggestion of the user's   *)
(* own collection or of Wikidata, by OCR and by the AI scan; an author     *)
(* that is typed is looked up when the form is submitted. Every request is *)
(* a step; the dialog can be used, and closed, while one is under way.     *)
(***************************************************************************)
EXTENDS Integers, FiniteSets

CONSTANTS
    Title, Name,    \* titles of works, names of people
    Work,           \* works on Wikidata: [title, composer]
    Call,           \* slots for handlers under way
    NoTitle, NoName, NoAuthor, NoWork, NoValues, NoNote,    \* null values
    MaxTwins        \* bound on the authors of one name

Constants ==
    /\ NoTitle \notin Title /\ NoName \notin Name /\ NoWork \notin Work
    /\ \A w \in Work : w.title \in Title /\ w.composer \in Name
    /\ MaxTwins \in Nat \ {0}

VARIABLES
    authors,    \* server: how many authors have this name
    qid,        \* server: the authors linked to the person of Wikidata of their name
    stored,     \* the last note stored: [title, shown], or NoNote
    isOpen,     \* open
    form,       \* react-hook-form's values
    pendingWork,\* pendingWikidata
    conflict,   \* conflict: the candidates of a 409, or NoValues
    disambig,   \* authorDisambig: [values], or NoValues
    scan,       \* "none" | "ocr" | "ai": isScanning, isAIScanning
    call,
    overlap     \* history: two handlers were under way at the same time

server == <<authors, qid, stored>>
dialog == <<isOpen, form, pendingWork, conflict, disambig, scan>>
vars == <<server, dialog, call, overlap>>

Author == Name \X (1..MaxTwins)
AuthorsNamed(n) == {n} \X (1..authors[n])
Existing == UNION {AuthorsNamed(n) : n \in Name}
Newest(n) == <<n, authors[n] + 1>>

Form == [type: {"folder", "note"}, name: Title \union {NoTitle},
         authorName: Name \union {NoName}, authorId: Author \union {NoAuthor},
         arrangerName: Name \union {NoName}, arrangerPicked: BOOLEAN]

FOLDER_DEFAULTS == [type |-> "folder", name |-> NoTitle, authorName |-> NoName,
                    authorId |-> NoAuthor, arrangerName |-> NoName, arrangerPicked |-> FALSE]

Idle == [pc |-> "idle"]
Busy == {c \in Call : call[c].pc # "idle"}
Calls(c, record) ==
    /\ c \notin Busy /\ call' = [call EXCEPT ![c] = record]
    /\ overlap' = (overlap \/ Busy # {})
Goes(c, record) == call' = [call EXCEPT ![c] = record] /\ UNCHANGED overlap
Ends(c) == Goes(c, Idle)

\* Mutations disable the save button; the look-ups before them do not.
isPending == \E c \in Busy : call[c].pc \in {"note", "folder"}

TypeOK ==
    /\ authors \in [Name -> 0..MaxTwins] /\ qid \subseteq Existing
    /\ stored # NoNote => stored.title \in Title /\ stored.shown \in Title \union {NoTitle}
    /\ isOpen \in BOOLEAN
    /\ form \in Form
    /\ form.authorId # NoAuthor => form.authorId \in Existing
    /\ pendingWork \in Work \union {NoWork}
    /\ conflict = NoValues \/ conflict \subseteq Existing
    /\ disambig # NoValues => disambig \in Form
    /\ scan \in {"none", "ocr", "ai"}
    /\ \A c \in Call : call[c].pc \in
          {"idle", "folder", "lookup", "find", "post", "twin", "note", "wikidata", "link", "inline"}
    /\ overlap \in BOOLEAN

Init ==
    /\ authors \in [Name -> 0..MaxTwins] /\ qid = {} /\ stored = NoNote
    /\ isOpen = FALSE /\ form = FOLDER_DEFAULTS /\ pendingWork = NoWork
    /\ conflict = NoValues /\ disambig = NoValues
    /\ scan = "none"
    /\ call = [c \in Call |-> Idle]
    /\ overlap = FALSE

-----------------------------------------------------------------------------
(* Filling the form.                                                       *)

Fill(values) ==
    /\ form' = values
    /\ UNCHANGED <<server, isOpen, conflict, disambig, scan, call, overlap>>

\* The button of the dialog; a conflict or a choice of authors lies over it.
Editable == isOpen /\ conflict = NoValues /\ disambig = NoValues

OpenDialog ==
    /\ ~isOpen /\ isOpen' = TRUE
    /\ UNCHANGED <<server, form, pendingWork, conflict, disambig, scan, call, overlap>>

\* Cancel, Escape, a click outside, or after saving. What the Wikidata flow
\* and the scans hold, and what is under way, stays as it is.
closeAndResetForm == isOpen' = FALSE /\ form' = FOLDER_DEFAULTS

CloseDialog ==
    /\ Editable /\ closeAndResetForm
    /\ UNCHANGED <<server, pendingWork, conflict, disambig, scan, call, overlap>>

SetType ==
    /\ Editable
    /\ \E type \in {"folder", "note"} \ {form.type} : Fill([form EXCEPT !.type = type])
    /\ UNCHANGED pendingWork

\* Editing the name of a work picked from Wikidata drops the pick; a folder's
\* name is a plain field.
TypeName(t) ==
    /\ Editable
    /\ Fill([form EXCEPT !.name = t])
    /\ pendingWork' = IF form.type = "note" /\ pendingWork # NoWork /\ t # pendingWork.title
                      THEN NoWork ELSE pendingWork

\* A work of the own collection: its title, and its composer if it has one.
onPickLocal(t) ==
    /\ Editable /\ form.type = "note"
    /\ \/ \E a \in Existing : Fill([form EXCEPT !.name = t, !.authorId = a, !.authorName = a[1]])
       \/ Fill([form EXCEPT !.name = t])
    /\ UNCHANGED pendingWork

\* Picking a Wikidata entry only pre-fills the form.
handleWikidataPick(w) ==
    /\ Editable /\ form.type = "note"
    /\ Fill([form EXCEPT !.name = w.title, !.authorName = w.composer])
    /\ pendingWork' = w

\* NoteAuthorCreateSearchBar, for the composer and for the arranger: typing
\* forgets who was picked.
TypeAuthor(n) ==
    /\ Editable /\ form.type = "note"
    /\ \/ Fill([form EXCEPT !.authorName = n, !.authorId = NoAuthor])
       \/ Fill([form EXCEPT !.arrangerName = n, !.arrangerPicked = FALSE])
    /\ UNCHANGED pendingWork

PickAuthor(a) ==
    /\ Editable /\ form.type = "note"
    /\ \/ Fill([form EXCEPT !.authorName = a[1], !.authorId = a])
       \/ Fill([form EXCEPT !.arrangerName = a[1], !.arrangerPicked = TRUE])
    /\ UNCHANGED pendingWork

-----------------------------------------------------------------------------
(* Scanning. Each scan disables the buttons of both.                       *)

Scans(kind) == Editable /\ form.type = "note" /\ scan = "none" /\ scan' = kind

triggerCameraScan ==
    /\ Scans("ocr")
    /\ UNCHANGED <<server, isOpen, form, pendingWork, conflict, disambig, call, overlap>>

\* The fields of the piece are cleared for what the AI will find.
triggerAIScan ==
    /\ Scans("ai")
    /\ form' = [FOLDER_DEFAULTS EXCEPT !.type = "note"]
    /\ pendingWork' = NoWork
    /\ UNCHANGED <<server, isOpen, conflict, disambig, call, overlap>>

\* What was found fills what is empty by now, in whatever form is there by
\* now: a new name for the author forgets who was picked.
Found(t, n, arr) ==
    [form EXCEPT !.name = IF @ = NoTitle THEN t ELSE @,
                 !.authorName = IF @ = NoName THEN n ELSE @,
                 !.authorId = IF form.authorName = NoName /\ n # NoName THEN NoAuthor ELSE @,
                 !.arrangerName = IF @ = NoName THEN arr ELSE @,
                 !.arrangerPicked = IF form.arrangerName = NoName /\ arr # NoName THEN FALSE ELSE @]

handleCameraFileChange ==
    /\ scan = "ocr" /\ scan' = "none"
    /\ \E t \in Title \union {NoTitle}, n \in Name \union {NoName} : form' = Found(t, n, NoName)
    /\ UNCHANGED <<server, isOpen, pendingWork, conflict, disambig, call, overlap>>

handleAIScanFileChange ==
    /\ scan = "ai" /\ scan' = "none"
    /\ \E t \in Title \union {NoTitle}, n, arr \in Name \union {NoName} : form' = Found(t, n, arr)
    /\ UNCHANGED <<server, isOpen, pendingWork, conflict, disambig, call, overlap>>

-----------------------------------------------------------------------------
(* Saving.                                                                 *)

\* A handler on its way to a note of these values.
Resolving(pc, author, values) == [pc |-> pc, author |-> author, values |-> values]

\* A work picked from Wikidata goes its own way. A typed author is looked up
\* by name, unless one was picked.
onSubmit(c) ==
    /\ Editable /\ ~isPending
    /\ form.name # NoTitle
    /\ form.type = "note" => form.authorName # NoName
    /\ Calls(c, IF form.type = "folder" THEN [pc |-> "folder"]
                ELSE IF pendingWork # NoWork
                THEN [pc |-> "wikidata", work |-> pendingWork, force |-> FALSE, shown |-> form.name]
                ELSE IF form.authorId # NoAuthor THEN Resolving("find", form.authorId, form)
                ELSE [pc |-> "lookup", values |-> form])
    /\ UNCHANGED <<server, dialog>>

\* Per-piece state is discarded; with "create another" the form stays as it is.
handlePostSubmit ==
    /\ pendingWork' = NoWork
    /\ closeAndResetForm \/ UNCHANGED <<isOpen, form>>

FolderCreated(c) ==
    /\ call[c].pc = "folder"
    /\ handlePostSubmit
    /\ Ends(c)
    /\ UNCHANGED <<server, conflict, disambig, scan>>

\* findAllAuthorsByExactName: none, one, or a question.
findAllAuthorsByExactName(c) ==
    LET values == call[c].values
        matches == AuthorsNamed(values.authorName) IN
    /\ call[c].pc = "lookup"
    /\ IF Cardinality(matches) > 1 THEN disambig' = values /\ Ends(c)
       ELSE /\ UNCHANGED disambig
            /\ Goes(c, Resolving("find", IF matches = {} THEN NoAuthor ELSE <<values.authorName, 1>>,
                                 values))
    /\ UNCHANGED <<server, isOpen, form, pendingWork, conflict, scan>>

\* findOrCreateAuthorId, of the composer if none was found and then of the
\* arranger if one was typed and not picked: the name is looked up (again).
Sought(c) == IF call[c].author = NoAuthor THEN call[c].values.authorName
             ELSE call[c].values.arrangerName
Goto(c, pc) == Resolving(pc, call[c].author, call[c].values)
Known(c, a) ==
    IF call[c].author = NoAuthor THEN Resolving("find", a, call[c].values) ELSE Goto(c, "note")
NeedsArranger(c) == ~call[c].values.arrangerPicked /\ call[c].values.arrangerName # NoName

\* Mutant: whoever was not found is created without another look.
CreateAtOnce(c) ==
    /\ call[c].pc = "find"
    /\ Goes(c, IF call[c].author # NoAuthor /\ ~NeedsArranger(c) THEN Goto(c, "note")
               ELSE Goto(c, "post"))
    /\ UNCHANGED <<server, dialog>>

findAuthorByName(c) ==
    /\ call[c].pc = "find"
    /\ Goes(c, IF call[c].author # NoAuthor /\ ~NeedsArranger(c) THEN Goto(c, "note")
               ELSE IF AuthorsNamed(Sought(c)) # {} THEN Known(c, <<Sought(c), 1>>)
               ELSE Goto(c, "post"))
    /\ UNCHANGED <<server, dialog>>

NewAuthor(n) == authors[n] < MaxTwins /\ authors' = [authors EXCEPT ![n] = @ + 1]

\* POST /v1/authors for a name nobody had when it was looked up.
findOrCreateAuthorId(c) ==
    /\ call[c].pc = "post"
    /\ NewAuthor(Sought(c))
    /\ Goes(c, Known(c, Newest(Sought(c))))
    /\ UNCHANGED <<qid, stored, dialog>>

NoteCreated(c) ==
    /\ call[c].pc = "note"
    /\ stored' = [title |-> call[c].values.name, shown |-> call[c].values.name]
    /\ handlePostSubmit
    /\ Ends(c)
    /\ UNCHANGED <<authors, qid, conflict, disambig, scan>>

\* A call fails: a message at the field or under the title, nothing else.
CallFails(c) == call[c].pc # "idle" /\ Ends(c) /\ UNCHANGED <<server, dialog>>

handleDisambigPickExisting(c) ==
    /\ disambig # NoValues /\ disambig' = NoValues
    /\ \E a \in AuthorsNamed(disambig.authorName) :
          Calls(c, Resolving("find", a, disambig))
    /\ UNCHANGED <<server, isOpen, form, pendingWork, conflict, scan>>

\* The user wants one more author of that name.
handleDisambigCreateNew(c) ==
    /\ disambig # NoValues /\ disambig' = NoValues
    /\ Calls(c, [pc |-> "twin", values |-> disambig])
    /\ UNCHANGED <<server, isOpen, form, pendingWork, conflict, scan>>

TwinCreated(c) ==
    LET n == call[c].values.authorName IN
    /\ call[c].pc = "twin" /\ NewAuthor(n)
    /\ Goes(c, Resolving("find", Newest(n), call[c].values))
    /\ UNCHANGED <<qid, stored, dialog>>

handleDisambigCancel ==
    /\ disambig # NoValues /\ disambig' = NoValues
    /\ UNCHANGED <<server, isOpen, form, pendingWork, conflict, scan, call, overlap>>

-----------------------------------------------------------------------------
(* POST /works/from-wikidata and its conflicts.                            *)

Linked(n) == {a \in AuthorsNamed(n) : a \in qid}
Colliding(n) == IF Linked(n) = {} THEN AuthorsNamed(n) ELSE {}

\* The server stores the work, with the composer of that QID or a new one, if
\* nobody without a QID has that name or a new one is wanted.
WorkCreated(c) ==
    LET w == call[c].work
        n == w.composer IN
    /\ call[c].pc = "wikidata"
    /\ Colliding(n) = {} \/ call[c].force
    /\ \E a \in (IF Linked(n) # {} THEN Linked(n) ELSE {Newest(n)}) :
          /\ IF a \in qid THEN UNCHANGED authors ELSE NewAuthor(n)
          /\ qid' = qid \union {a}
          /\ stored' = [title |-> w.title, shown |-> call[c].shown]
    /\ conflict' = NoValues
    /\ handlePostSubmit
    /\ Ends(c)
    /\ UNCHANGED <<disambig, scan>>

WorkConflicts(c) ==
    /\ call[c].pc = "wikidata" /\ ~call[c].force
    /\ Colliding(call[c].work.composer) # {}
    /\ conflict' = Colliding(call[c].work.composer)
    /\ Ends(c)
    /\ UNCHANGED <<server, isOpen, form, pendingWork, disambig, scan>>

\* The decision is about the work that is pending when it is made; without one
\* nothing happens.
handleConflictLinkExisting(c, a) ==
    /\ conflict # NoValues /\ a \in conflict /\ pendingWork # NoWork
    /\ Calls(c, [pc |-> "link", author |-> a, work |-> pendingWork, shown |-> form.name])
    /\ UNCHANGED <<server, dialog>>

\* PATCH /v1/authors/:id links the author, and the work is sent again.
AuthorLinked(c) ==
    /\ call[c].pc = "link"
    /\ qid' = qid \union {call[c].author}
    /\ conflict' = NoValues
    /\ Goes(c, [pc |-> "wikidata", work |-> call[c].work, force |-> FALSE, shown |-> call[c].shown])
    /\ UNCHANGED <<authors, stored, isOpen, form, pendingWork, disambig, scan>>

handleConflictCreateNew(c) ==
    /\ conflict # NoValues /\ pendingWork # NoWork
    /\ conflict' = NoValues
    /\ Calls(c, [pc |-> "wikidata", work |-> pendingWork, force |-> TRUE, shown |-> form.name])
    /\ UNCHANGED <<server, isOpen, form, pendingWork, disambig, scan>>

handleConflictCancel ==
    /\ conflict # NoValues /\ conflict' = NoValues /\ pendingWork' = NoWork
    /\ UNCHANGED <<server, isOpen, form, disambig, scan, call, overlap>>

-----------------------------------------------------------------------------
(* InlineAuthorCreateDialog: an author without leaving the dialog.         *)

handleSubmit(c, n) ==
    /\ Editable /\ form.type = "note"
    /\ Calls(c, [pc |-> "inline", name |-> n])
    /\ UNCHANGED <<server, dialog>>

\* The new author is taken over into whatever form is there by now.
onCreated(c) ==
    LET n == call[c].name IN
    /\ call[c].pc = "inline" /\ NewAuthor(n)
    /\ form' = [form EXCEPT !.authorId = Newest(n), !.authorName = n]
    /\ Ends(c)
    /\ UNCHANGED <<qid, stored, isOpen, pendingWork, conflict, disambig, scan>>

-----------------------------------------------------------------------------

Edit ==
    \/ OpenDialog \/ CloseDialog \/ SetType
    \/ \E t \in Title : TypeName(t) \/ onPickLocal(t)
    \/ \E w \in Work : handleWikidataPick(w)
    \/ \E n \in Name \union {NoName} : TypeAuthor(n)
    \/ \E a \in Existing : PickAuthor(a)
    \/ triggerCameraScan \/ triggerAIScan \/ handleCameraFileChange \/ handleAIScanFileChange
    \/ handleDisambigCancel \/ handleConflictCancel

Handle(c) ==
    \/ onSubmit(c) \/ FolderCreated(c) \/ findAllAuthorsByExactName(c) \/ findAuthorByName(c)
    \/ findOrCreateAuthorId(c) \/ NoteCreated(c) \/ CallFails(c)
    \/ handleDisambigPickExisting(c) \/ handleDisambigCreateNew(c) \/ TwinCreated(c)
    \/ WorkCreated(c) \/ WorkConflicts(c) \/ AuthorLinked(c) \/ handleConflictCreateNew(c)
    \/ \E a \in Existing : handleConflictLinkExisting(c, a)
    \/ \E n \in Name : handleSubmit(c, n)
    \/ onCreated(c)

Next == Edit \/ \E c \in Call : Handle(c)

Spec == Init /\ [][Next]_vars

-----------------------------------------------------------------------------
(* Properties.                                                             *)

\* "0 -> create new, 1 -> reuse silently, 2+ -> ask the user which one is
\* meant" (CreateFolderOrNote.tsx:160-162): saving a note never makes a second
\* author of a name unless the user said so, with one thing done at a time,
\* also if composer and arranger are the same new person.
AsksBeforeTwin ==
    \A c \in Call : call[c].pc = "post" /\ authors' # authors /\ call'[c].pc # "post"
        => overlap \/ authors[Sought(c)] = 0

\* Why: a handler that resolves authors has names to look for, and nobody had the one it is
\* about to post; until two handlers overlap there is one.
Named(values) == values \in Form /\ values.authorName # NoName

Informed(handler) ==
    /\ handler.pc \in {"lookup", "find", "post", "twin", "note"} => Named(handler.values)
    /\ handler.pc = "inline" => handler.name \in Name

Entered ==
    /\ authors \in [Name -> 0..MaxTwins] /\ form \in Form
    /\ disambig # NoValues => Named(disambig)
    /\ call = [c \in Call |-> call[c]]
    /\ \A c \in Call : Informed(call[c])

LookedUp ==
    /\ overlap \in BOOLEAN
    /\ ~overlap =>
          /\ \A c, d \in Busy : c = d
          /\ \A c \in Call : call[c].pc = "post" => Sought(c) # NoName /\ authors[Sought(c)] = 0

EntryInv == Entered /\ LookedUp

\* What all the types rest on: what a handler took along was in the form or picked.
Carries(handler) ==
    /\ handler.pc \in {"find", "post", "note", "lookup", "twin"} => handler.values.name \in Title
    /\ handler.pc \in {"wikidata", "link"} => handler.work \in Work /\ handler.shown \in Title \union {NoTitle}
    /\ handler.pc = "link" => handler.author \in Existing

EntryTypesInv ==
    /\ EntryInv /\ TypeOK
    /\ disambig # NoValues => disambig.name \in Title
    /\ \A c \in Call : Carries(call[c])

\* "User edited the name after picking a Wikidata entry - drop the pick so
\* submit takes the normal create path" (CreateFolderOrNote.tsx:884-886): a
\* note is stored under the title the form showed when it was submitted. TLC
\* refutes it: only typing drops the pick, not picking a local title, closing the
\* form or a result of the scanner.
StoredAsShown == stored # NoNote => stored.title = stored.shown
=============================================================================
