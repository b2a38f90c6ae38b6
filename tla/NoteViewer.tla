------------------------------ MODULE NoteViewer ------------------------------
(***************************************************************************)
(* The page of one note (ui/src/pages/NoteDetailView.tsx): the viewer and  *)
(* the download of its PDF, and giving it an inventory number. Going to    *)
(* the previous or next note keeps the page and changes its id; what is    *)
(* under way goes on. A mutation that was pressed without network waits    *)
(* for it, and then runs the function of the latest render (TanStack       *)
(* Query, external).                                                       *)
(***************************************************************************)
EXTENDS FiniteSets

CONSTANTS
    Note,
    Saved,      \* notes whose PDF is kept on the device
    NoNote

Nulls == NoNote \notin Note /\ Saved \subseteq Note

VARIABLES
    online,
    id,             \* the note of the page
    pdfUrl,         \* the note whose PDF the object URL is, or NoNote
    showPdf,
    load,           \* loadPdf under way: [note, then]; pdfLoading
    hasOfflineCopy, \* NoNote, or the note it was found out for
    assign,         \* assignNumber: "none", "paused", or the number is on its way
    asked,          \* history: notes the number was asked for
    numbered,       \* server: notes with a number
    download,       \* the last file: [name, content]
    crossed         \* history: the page changed while a PDF was loading or a number waiting

viewer == <<pdfUrl, showPdf, load, download>>
vars == <<online, id, viewer, hasOfflineCopy, assign, asked, numbered, crossed>>

NoLoad == [note |-> NoNote, then |-> "none"]
NoFile == [name |-> NoNote, content |-> NoNote]
pdfLoading == load # NoLoad
isPending == assign # [pc |-> "none", note |-> NoNote]

TypeOK ==
    /\ online \in BOOLEAN /\ id \in Note
    /\ pdfUrl \in Note \union {NoNote} /\ showPdf \in BOOLEAN
    /\ showPdf => pdfUrl # NoNote
    /\ load \in [note: Note, then: {"show", "download"}] \union {NoLoad}
    /\ hasOfflineCopy \in Saved \union {NoNote}
    /\ assign \in [pc: {"paused", "sent"}, note: Note] \union {[pc |-> "none", note |-> NoNote]}
    /\ asked \subseteq Note /\ numbered \subseteq Note
    /\ crossed \in BOOLEAN

Init ==
    /\ online \in BOOLEAN /\ id \in Note
    /\ pdfUrl = NoNote /\ showPdf = FALSE /\ load = NoLoad
    /\ hasOfflineCopy = NoNote
    /\ assign = [pc |-> "none", note |-> NoNote] /\ asked = {} /\ numbered = {}
    /\ download = NoFile /\ crossed = FALSE

\* Mutants: the viewer keeps the PDF, or stays open without one.
KeepsPdf(n) ==
    /\ n # id /\ id' = n
    /\ hasOfflineCopy' = NoNote
    /\ crossed' = (crossed \/ pdfLoading \/ isPending)
    /\ UNCHANGED <<online, viewer, assign, asked, numbered>>

StaysOpen(n) ==
    /\ n # id /\ id' = n
    /\ pdfUrl' = NoNote /\ hasOfflineCopy' = NoNote
    /\ crossed' = (crossed \/ pdfLoading \/ isPending)
    /\ UNCHANGED <<online, showPdf, load, download, assign, asked, numbered>>

\* Previous, next: the viewer is reset. What is being loaded is not.
navigate(n) ==
    /\ n # id /\ id' = n
    /\ pdfUrl' = NoNote /\ showPdf' = FALSE
    /\ hasOfflineCopy' = NoNote
    /\ crossed' = (crossed \/ pdfLoading \/ isPending)
    /\ UNCHANGED <<online, load, download, assign, asked, numbered>>

\* getOfflinePdf, whose answer is dropped if the page has changed since.
CopyFound ==
    /\ id \in Saved /\ hasOfflineCopy' = id
    /\ UNCHANGED <<online, id, viewer, assign, asked, numbered, crossed>>

\* The buttons are there online or with a copy on the device.
Available == (online \/ hasOfflineCopy # NoNote) /\ ~pdfLoading

Named(content) == [name |-> id, content |-> content]

\* The URL is used again, or the PDF is fetched.
onTogglePdf ==
    /\ Available
    /\ \/ showPdf /\ showPdf' = FALSE /\ UNCHANGED load
       \/ ~showPdf /\ pdfUrl # NoNote /\ showPdf' = TRUE /\ UNCHANGED load
       \/ ~showPdf /\ pdfUrl = NoNote /\ load' = [note |-> id, then |-> "show"] /\ UNCHANGED showPdf
    /\ UNCHANGED <<online, id, pdfUrl, download, hasOfflineCopy, assign, asked, numbered, crossed>>

onDownloadPdf ==
    /\ Available
    /\ IF pdfUrl # NoNote THEN download' = Named(pdfUrl) /\ UNCHANGED load
       ELSE load' = [note |-> id, then |-> "download"] /\ UNCHANGED download
    /\ UNCHANGED <<online, id, pdfUrl, showPdf, hasOfflineCopy, assign, asked, numbered, crossed>>

\* The URL becomes the viewer's, whatever page it is on by now. The file is
\* named as the page was when it was asked for.
loadPdf ==
    /\ pdfLoading /\ load' = NoLoad
    /\ \/ online \/ load.note \in Saved
    /\ pdfUrl' = load.note
    /\ showPdf' = (showPdf \/ load.then = "show")
    /\ download' = IF load.then = "download" THEN [name |-> load.note, content |-> load.note]
                   ELSE download
    /\ UNCHANGED <<online, id, hasOfflineCopy, assign, asked, numbered, crossed>>

LoadFails ==
    /\ pdfLoading /\ load' = NoLoad
    /\ UNCHANGED <<online, id, pdfUrl, showPdf, download, hasOfflineCopy, assign, asked, numbered,
                   crossed>>

-----------------------------------------------------------------------------

assignNumber ==
    /\ ~isPending /\ id \notin numbered
    /\ assign' = [pc |-> IF online THEN "sent" ELSE "paused", note |-> id]
    /\ asked' = asked \union {id}
    /\ UNCHANGED <<online, id, viewer, hasOfflineCopy, numbered, crossed>>

\* Back online a mutation that waited runs the function of the latest render.
Resume ==
    /\ online /\ assign.pc = "paused"
    /\ assign' = [pc |-> "sent", note |-> id]
    /\ UNCHANGED <<online, id, viewer, hasOfflineCopy, asked, numbered, crossed>>

NumberAssigned ==
    /\ assign.pc = "sent" /\ assign' = [pc |-> "none", note |-> NoNote]
    /\ \/ numbered' = numbered \union {assign.note}
       \/ UNCHANGED numbered
    /\ UNCHANGED <<online, id, viewer, hasOfflineCopy, asked, crossed>>

Connectivity ==
    /\ online' = ~online
    /\ UNCHANGED <<id, viewer, hasOfflineCopy, assign, asked, numbered, crossed>>

Next ==
    \/ \E n \in Note : navigate(n)
    \/ CopyFound \/ onTogglePdf \/ onDownloadPdf \/ loadPdf \/ LoadFails
    \/ assignNumber \/ Resume \/ NumberAssigned \/ Connectivity

Spec == Init /\ [][Next]_vars

-----------------------------------------------------------------------------
(* Properties.                                                             *)

\* The viewer shows the page's own PDF, a file holds the PDF of the note it is
\* named after, and only a note whose button was pressed gets a number, unless
\* the page changed while a PDF was loading or a number waiting for the network
\* (NoteDetailView.tsx:38-41, 76-119).
OwnNoteOnly ==
    ~crossed => /\ pdfUrl \in {id, NoNote}
                /\ download.name = download.content
                /\ numbered \subseteq asked

\* Why: what is under way is about the note of the page, and a number under way was
\* asked for.
OfThisNote ==
    ~crossed => /\ pdfLoading => load.note = id
                /\ isPending => assign.note = id /\ id \in asked

ViewerInv == TypeOK /\ OwnNoteOnly /\ OfThisNote

\* "Reset the viewer when navigating to another note" (NoteDetailView.tsx:76):
\* the PDF of another note is never shown. TLC refutes it: one that was loading
\* is shown under the next note.
ResetWhenNavigating == showPdf => pdfUrl = id
===============================================================================
