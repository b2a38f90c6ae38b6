---------------------------- MODULE Annotations ----------------------------
(***************************************************************************)
(* Pen marks on the pages of one PDF, of one player on one device          *)
(* (ui/src/offline/annotationStore.ts, ui/src/player/useAnnotations.ts,    *)
(* annotations.ts, AnnotationLayer.tsx, and the editing of PlayerView.tsx  *)
(* over the endpoints of annotationService.go).                            *)
(*                                                                         *)
(* A page's document is the set of its strokes and text notes. Every read, *)
(* write and delete of IndexedDB and every request is a step of its own;   *)
(* saves, a load and a flush interleave, a request may fail before it      *)
(* reached the server or lose only its answer, and the tab may be reloaded *)
(* at any moment. IndexedDB itself does not fail.                          *)
(***************************************************************************)
EXTENDS Integers, Sequences, FiniteSets, SequencesExt

CONSTANTS
    Page,           \* pages of the PDF
    Stroke,         \* strokes and texts made here, each once
    Old,            \* strokes that were on the server before
    Broken,         \* stored entries parsePage does not understand
    Save,           \* slots for saves in flight
    NoEdit,         \* null value
    MaxUndo,        \* length of the undo stack (50 in the code)
    MaxQueued       \* bound on the number of edits ever queued

MarksNulls ==
    /\ \A doc \in SUBSET (Stroke \union Old \union Broken) :
          NoEdit # doc /\ \A n \in 1..MaxQueued : NoEdit # [data |-> doc, at |-> n]
    /\ IsFiniteSet(Page)
    /\ MaxUndo \in Nat \ {0} /\ MaxQueued \in Nat

VARIABLES
    server,     \* the table sheet_annotation: page -> document
    cache,      \* object store "annotations": page -> document
    pending,    \* object store "pendingAnnotations": page -> [data, at] or NoEdit
    clock,      \* Date.now() of the last edit that was queued
    isOpen,     \* the player shows this PDF
    shown,      \* pages of useAnnotations: page -> document
    undoStack,  \* <<[page, prev], ...>>
    load,       \* loadAnnotations in flight
    save,       \* saveAnnotationPage in flight, by slot
    flush,      \* flushPendingAnnotations in flight
    drawn,      \* history: the strokes made so far
    last,       \* history: page -> the document of its last edit, or NoEdit
    disturbed   \* history: pages whose last edit overlapped something else

store == <<server, cache, pending, clock>>
marksScreen == <<isOpen, shown, undoStack>>
marksHistory == <<drawn, last, disturbed>>
marksVars == <<store, marksScreen, load, save, flush, marksHistory>>

Doc == SUBSET (Stroke \union Old \union Broken)
Pages == [Page -> Doc]
NoTask == [pc |-> "idle"]

\* What is left of stored JSON: entries that are not a stroke or a text are
\* dropped, and a page without JSON is an empty page.
parsePage(doc) == doc \ Broken

\* Pending local edits win over what the server or the cache says.
overlay(pages, waiting) ==
    [p \in Page |-> IF waiting[p] = NoEdit THEN pages[p] ELSE waiting[p].data]

BusySaves == {s \in Save : save[s].pc # "idle"}
Saving == {save[s].page : s \in BusySaves}
Quiet == BusySaves = {} /\ load.pc = "idle" /\ flush.pc = "idle"

\* The pages with a queued edit, oldest first: the one order there is, as no
\* two edits are queued at once.
OldestFirst(waiting) ==
    {rest \in SetToSeqs({p \in Page : waiting[p] # NoEdit}) :
        \A i, j \in DOMAIN rest : i < j => waiting[rest[i]].at < waiting[rest[j]].at}

MarksTypeOK ==
    /\ server \in Pages /\ cache \in Pages /\ shown \in Pages
    /\ \A p \in Page : pending[p] # NoEdit =>
          pending[p].data \in Doc /\ pending[p].at \in 1..clock
    /\ clock \in 0..MaxQueued
    /\ isOpen \in BOOLEAN
    /\ Len(undoStack) <= MaxUndo
    /\ load.pc \in {"idle", "fetch", "merge"}
    /\ \A s \in Save : save[s].pc \in {"idle", "read", "write", "put", "confirm"}
    /\ flush.pc \in {"idle", "put", "confirm", "drop"}
    /\ drawn \subseteq Stroke
    /\ \A p \in Page : last[p] # NoEdit => last[p] \in Doc
    /\ disturbed \subseteq Page

MarksInit ==
    /\ server = [p \in Page |-> Old \union Broken]
    /\ cache = [p \in Page |-> {}]
    /\ pending = [p \in Page |-> NoEdit]
    /\ clock = 0
    /\ isOpen = FALSE
    /\ shown = [p \in Page |-> {}]
    /\ undoStack = <<>>
    /\ load = NoTask
    /\ save = [s \in Save |-> NoTask]
    /\ flush = NoTask
    /\ drawn = {}
    /\ last = [p \in Page |-> NoEdit]
    /\ disturbed = {}

-----------------------------------------------------------------------------
(* Loading: useAnnotations' effect on the key of the piece.                *)

\* The piece comes on screen: no pages yet, the queued edits are read, and
\* the request goes out. The undo history belongs to one piece.
OpenPdf ==
    /\ ~isOpen
    /\ load.pc = "idle"     \* an abandoned load has run out first
    /\ isOpen' = TRUE
    /\ shown' = [p \in Page |-> {}]
    /\ undoStack' = <<>>
    /\ load' = [pc |-> "fetch", waiting |-> pending, cancelled |-> FALSE]
    /\ disturbed' = disturbed \union Saving
    /\ UNCHANGED <<store, save, flush, drawn, last>>

\* The server answers the list of pages.
fetchAnnotationsRemote ==
    /\ load.pc = "fetch"
    /\ load' = [pc |-> "merge", waiting |-> load.waiting, cancelled |-> load.cancelled,
                remote |-> server]
    /\ UNCHANGED <<store, marksScreen, save, flush, marksHistory>>

ShowPages(pages) ==
    shown' = IF load.cancelled THEN shown ELSE [p \in Page |-> parsePage(pages[p])]

\* The merged pages replace the cached ones and, if the piece is still on
\* screen, the ones that are shown.
LoadMerge ==
    /\ load.pc = "merge"
    /\ cache' = overlay(load.remote, load.waiting)
    /\ ShowPages(cache')
    /\ load' = NoTask
    /\ UNCHANGED <<server, pending, clock, isOpen, undoStack, save, flush, marksHistory>>

\* The request failed: the cache, with the queued edits on top.
LoadFromCache ==
    /\ load.pc = "fetch"
    /\ ShowPages(overlay(cache, load.waiting))
    /\ load' = NoTask
    /\ UNCHANGED <<store, isOpen, undoStack, save, flush, marksHistory>>

\* Another piece, or the player is closed; a save or a load goes on.
ClosePdf ==
    /\ isOpen
    /\ isOpen' = FALSE
    /\ shown' = [p \in Page |-> {}]
    /\ undoStack' = <<>>
    /\ load' = IF load.pc = "idle" THEN NoTask ELSE [load EXCEPT !.cancelled = TRUE]
    /\ UNCHANGED <<store, save, flush, marksHistory>>

-----------------------------------------------------------------------------
(* Editing: AnnotationLayer calls onChange, PlayerView's changePage pushes *)
(* the page on the undo stack and setPage shows and saves it.              *)

\* setPage: optimistic, and a save starts. If the slots are all taken the
\* edit has to wait (a bound of the model).
setPage(p, doc) ==
    /\ shown' = [shown EXCEPT ![p] = doc]
    /\ \E s \in Save \ BusySaves :
          save' = [save EXCEPT ![s] = [pc |-> "read", page |-> p, data |-> doc]]
    /\ last' = [last EXCEPT ![p] = doc]
    /\ disturbed' = ((disturbed \union Saving) \ {p}) \union (IF Quiet THEN {} ELSE {p})

changePage(p, doc) ==
    /\ undoStack' = Append(IF Len(undoStack) = MaxUndo THEN Tail(undoStack) ELSE undoStack,
                           [page |-> p, prev |-> shown[p]])
    /\ setPage(p, doc)

\* The pen is lifted: the stroke is added to the page as it is shown now. The
\* unfinished stroke is the pointer's own and left out. commitText does the same
\* with a text note, on Enter or when its field loses the focus.
penUp(p) ==
    /\ isOpen
    /\ \E s \in Stroke \ drawn :
          /\ changePage(p, shown[p] \union {s})
          /\ drawn' = drawn \union {s}
    /\ UNCHANGED <<store, isOpen, load, flush>>

\* The eraser meets a mark, when it is set down or while it moves.
erase(p) ==
    /\ isOpen
    /\ \E s \in shown[p] : changePage(p, shown[p] \ {s})
    /\ UNCHANGED <<store, isOpen, load, flush, drawn>>

undo ==
    /\ isOpen /\ undoStack # <<>>
    /\ LET top == Last(undoStack) IN
          /\ undoStack' = Front(undoStack)
          /\ setPage(top.page, top.prev)
    /\ UNCHANGED <<store, isOpen, load, flush, drawn>>

-----------------------------------------------------------------------------
(* saveAnnotationPage.                                                     *)

SaveIn(s, pc) == save' = [save EXCEPT ![s] = [pc |-> pc, page |-> @.page, data |-> @.data]]
SaveEnds(s) == save' = [save EXCEPT ![s] = NoTask]

SaveReads(s) ==
    /\ save[s].pc = "read"
    /\ save' = [save EXCEPT ![s] = [pc |-> "write", page |-> @.page, data |-> @.data,
                                    pages |-> cache]]
    /\ UNCHANGED <<store, marksScreen, load, flush, marksHistory>>

SaveWrites(s) ==
    /\ save[s].pc = "write"
    /\ cache' = [save[s].pages EXCEPT ![save[s].page] = save[s].data]
    /\ SaveIn(s, "put")
    /\ UNCHANGED <<server, pending, clock, marksScreen, load, flush, marksHistory>>

putAnnotationRemote(s) ==
    /\ save[s].pc = "put"
    /\ server' = [server EXCEPT ![save[s].page] = save[s].data]
    /\ SaveIn(s, "confirm")
    /\ UNCHANGED <<cache, pending, clock, marksScreen, load, flush, marksHistory>>

SaveConfirmed(s) ==
    /\ save[s].pc = "confirm"
    /\ pending' = [pending EXCEPT ![save[s].page] = NoEdit]
    /\ SaveEnds(s)
    /\ UNCHANGED <<server, cache, clock, marksScreen, load, flush, marksHistory>>

\* Mutant: an edit the server did not take is not queued.
SaveForgotten(s) ==
    /\ save[s].pc \in {"put", "confirm"}
    /\ SaveEnds(s)
    /\ UNCHANGED <<store, marksScreen, load, flush, marksHistory>>

\* Not sent, refused, or sent without an answer: the edit is queued.
SaveQueued(s) ==
    /\ save[s].pc \in {"put", "confirm"}
    /\ clock < MaxQueued
    /\ clock' = clock + 1
    /\ pending' = [pending EXCEPT ![save[s].page] = [data |-> save[s].data, at |-> clock']]
    /\ SaveEnds(s)
    /\ UNCHANGED <<server, cache, marksScreen, load, flush, marksHistory>>

-----------------------------------------------------------------------------
(* flushPendingAnnotations, when the player opens and on "online".         *)

useFlushOnReconnect ==
    /\ flush.pc = "idle"
    /\ \E rest \in OldestFirst(pending) \ {<<>>} :
          flush' = [pc |-> "put", rest |-> rest, batch |-> pending]
    /\ disturbed' = disturbed \union Saving
    /\ UNCHANGED <<store, marksScreen, load, save, drawn, last>>

Sending == Head(flush.rest)

NextInQueue ==
    flush' = IF Len(flush.rest) = 1 THEN NoTask
             ELSE [flush EXCEPT !.pc = "put", !.rest = Tail(flush.rest)]

FlushPut ==
    /\ flush.pc = "put"
    /\ server' = [server EXCEPT ![Sending] = flush.batch[Sending].data]
    /\ flush' = [flush EXCEPT !.pc = "confirm"]
    /\ UNCHANGED <<cache, pending, clock, marksScreen, load, save, marksHistory>>

\* Only dropped if no newer edit replaced it meanwhile; the look and the
\* deletion are two transactions.
FlushConfirmed ==
    /\ flush.pc = "confirm"
    /\ IF pending[Sending] # NoEdit /\ pending[Sending].at = flush.batch[Sending].at
       THEN flush' = [flush EXCEPT !.pc = "drop"]
       ELSE NextInQueue
    /\ UNCHANGED <<store, marksScreen, load, save, marksHistory>>

FlushDrops ==
    /\ flush.pc = "drop"
    /\ pending' = [pending EXCEPT ![Sending] = NoEdit]
    /\ NextInQueue
    /\ UNCHANGED <<server, cache, clock, marksScreen, load, save, marksHistory>>

FlushBreaks ==
    /\ flush.pc \in {"put", "confirm"}
    /\ flush' = NoTask
    /\ UNCHANGED <<store, marksScreen, load, save, marksHistory>>

-----------------------------------------------------------------------------

\* The tab is reloaded or killed: what was in flight is gone.
Reload ==
    /\ isOpen' = FALSE
    /\ shown' = [p \in Page |-> {}]
    /\ undoStack' = <<>>
    /\ load' = NoTask /\ save' = [s \in Save |-> NoTask] /\ flush' = NoTask
    /\ disturbed' = disturbed \union Saving
    /\ UNCHANGED <<store, drawn, last>>

MarksNext ==
    \/ OpenPdf \/ fetchAnnotationsRemote \/ LoadMerge \/ LoadFromCache \/ ClosePdf
    \/ \E p \in Page : penUp(p) \/ erase(p)
    \/ undo
    \/ \E s \in Save : \/ SaveReads(s) \/ SaveWrites(s) \/ putAnnotationRemote(s)
                       \/ SaveConfirmed(s) \/ SaveQueued(s)
    \/ useFlushOnReconnect \/ FlushPut \/ FlushConfirmed \/ FlushDrops \/ FlushBreaks
    \/ Reload

MarksSpec == MarksInit /\ [][MarksNext]_marksVars

-----------------------------------------------------------------------------
(* Properties.                                                             *)

\* An edit that nothing overlapped is either on the server or waiting to be
\* sent, and is what the device shows without a connection
\* (annotationStore.ts:42-95). Requests may have failed at either end, and
\* flushes and loads may have run since.
QuietEditKept ==
    Quiet => \A p \in Page :
        last[p] # NoEdit /\ p \notin disturbed =>
            /\ overlay(server, pending)[p] = last[p]
            /\ overlay(cache, pending)[p] = last[p]

\* "... and edits made offline are not lost" (annotationStore.ts:3-4): an edit
\* leaves the queue only when the page's last edit is on the server or in a
\* save under way. TLC refutes it: an earlier save that is confirmed deletes
\* whatever edit of the page is waiting.
OfflineEditsKept ==
    [][\A p \in Page : pending[p] # NoEdit /\ pending'[p] = NoEdit =>
          \/ server[p] = last[p]
          \/ \E s \in Save : save'[s].pc # "idle" /\ save'[s].page = p /\ save'[s].data = last[p]
      ]_marksVars
=============================================================================
