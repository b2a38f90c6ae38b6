----------------------------- MODULE SheetMusic -----------------------------
(***************************************************************************)
(* Sheet music saved for playing without a connection                      *)
(* (ui/src/offline/offlineSheetMusic.ts, ui/src/player/useOfflineSetlist.ts*)
(* and notePdf.ts, the switching of parts in ui/src/pages/PlayerView.tsx,  *)
(* ui/src/components/player/OfflineSetlistsCard.tsx, and the upload of     *)
(* ui/src/components/modals/FileUploadModal.tsx).                          *)
(*                                                                         *)
(* A setlist is the set of PDFs its pieces need; PDFs are shared between   *)
(* setlists. A save, a removal and a refresh are sequences of IndexedDB    *)
(* transactions and downloads that outlive the screen that started them    *)
(* and may be cut off by a reload.                                         *)
(***************************************************************************)
EXTENDS FiniteSets

CONSTANTS
    Setlist,    \* sourceKeys
    Pdf,        \* keys of PDFs
    Job,        \* slots for operations in flight
    NoSetlist, NoList   \* null values

Nulls ==
    /\ NoSetlist \notin Setlist
    /\ \A ids \in SUBSET Pdf : NoList # ids

VARIABLES
    needed,     \* server: setlist -> the PDFs its playlist names
    pdfs,       \* object store offlinePdfs
    saved,      \* object store offlineSetlists: setlist -> noteIds, or NoList
    player,     \* the setlist on screen, or NoSetlist
    response,   \* its playlist as loaded, or NoList
    status,     \* useOfflineSetlist's state.status
    choice,     \* choosePart: "idle" | "put" | "refetch"
    resave,     \* resaveOffline.current
    card,       \* the setlists OfflineSetlistsCard lists
    job,        \* operations in flight, by slot
    dropped,    \* history: PDFs given up because a refresh failed
    overlapped  \* history: has the user started an operation while another ran?

store == <<pdfs, saved>>
screen == <<player, response, status, choice, resave>>
sheetHistory == <<dropped, overlapped>>
sheetVars == <<needed, store, screen, card, job, sheetHistory>>

NoJob == [pc |-> "idle"]
Free == {j \in Job : job[j].pc = "idle"}
Calm == Free = Job /\ choice = "idle" /\ ~ resave
Starts(j, record) == j \in Free /\ job' = [job EXCEPT ![j] = record]
Ends(j) == job' = [job EXCEPT ![j] = NoJob]

\* What the user starts may overlap what runs.
ByTheUser == overlapped' = (overlapped \/ ~ Calm)

SheetTypeOK ==
    /\ needed \in [Setlist -> SUBSET Pdf]
    /\ pdfs \subseteq Pdf
    /\ \A s \in Setlist : saved[s] = NoList \/ saved[s] \in SUBSET Pdf
    /\ player \in Setlist \union {NoSetlist}
    /\ response = NoList \/ response \in SUBSET Pdf
    /\ status \in {"unknown", "none", "saving", "saved", "error"}
    /\ choice \in {"idle", "put", "refetch"} /\ resave \in BOOLEAN
    /\ card \subseteq Setlist
    /\ \A j \in Job : job[j].pc \in
          {"idle", "download", "record", "annotations", "remove", "refresh"}
    /\ dropped \subseteq Pdf /\ overlapped \in BOOLEAN

SheetInit ==
    /\ needed \in [Setlist -> (SUBSET Pdf) \ {{}}]
    /\ pdfs = {} /\ saved = [s \in Setlist |-> NoList]
    /\ player = NoSetlist /\ response = NoList /\ status = "unknown"
    /\ choice = "idle" /\ resave = FALSE
    /\ card = {}
    /\ job = [j \in Job |-> NoJob]
    /\ dropped = {} /\ overlapped = FALSE

-----------------------------------------------------------------------------
(* The screens.                                                            *)

OpenPlayer(s) ==
    /\ player = NoSetlist
    /\ player' = s /\ response' = NoList /\ status' = "unknown"
    /\ UNCHANGED <<needed, store, choice, resave, card, job, sheetHistory>>

\* The playlist, from the server or, without a connection, from the record
\* that was stored with the setlist.
usePlaylist ==
    /\ player # NoSetlist /\ response = NoList
    /\ response' \in {needed[player]} \union ({saved[player]} \ {NoList})
    /\ UNCHANGED <<needed, store, player, status, choice, resave, card, job, sheetHistory>>

getOfflineSetlist ==
    /\ player # NoSetlist /\ status = "unknown"
    /\ status' = IF saved[player] = NoList THEN "none" ELSE "saved"
    /\ UNCHANGED <<needed, store, player, response, choice, resave, card, job, sheetHistory>>

ClosePlayer ==
    /\ player # NoSetlist
    /\ player' = NoSetlist /\ response' = NoList /\ status' = "unknown"
    /\ choice' = "idle" /\ resave' = FALSE
    /\ UNCHANGED <<needed, store, card, job, sheetHistory>>

\* The card on the dashboard reads the store once.
ShowCard ==
    /\ card' = {s \in Setlist : saved[s] # NoList}
    /\ UNCHANGED <<needed, store, screen, job, sheetHistory>>

-----------------------------------------------------------------------------
(* saveSetlistOffline, from the toolbar, the panel or after a switch.      *)

SaveStarts ==
    \E j \in Job : Starts(j, [pc |-> "download", key |-> player, ids |-> response,
                              todo |-> response])

\* The button is there while nothing is saved, the panel while something is.
save ==
    /\ ByTheUser
    /\ player # NoSetlist /\ response # NoList /\ response # {}
    /\ status \in {"none", "error", "saved"}
    /\ SaveStarts
    /\ status' = "saving"
    /\ UNCHANGED <<needed, store, player, response, choice, resave, card, dropped>>

\* What a job does to the state of the player that shows its setlist.
Report(j, s) == status' = IF player = job[j].key THEN s ELSE status

downloadPdfBlob(j) ==
    /\ job[j].pc = "download" /\ job[j].todo # {}
    /\ \E p \in job[j].todo :
          /\ pdfs' = pdfs \union {p}
          /\ dropped' = dropped \ {p}
          /\ job' = [job EXCEPT ![j].todo = @ \ {p}]
    /\ Report(j, "saving")
    /\ UNCHANGED <<needed, saved, player, response, choice, resave, card, overlapped>>

DownloadFails(j) ==
    /\ job[j].pc = "download" /\ job[j].todo # {}
    /\ Ends(j)
    /\ Report(j, "error")
    /\ UNCHANGED <<needed, store, player, response, choice, resave, card, sheetHistory>>

\* The record is written last.
PutSetlist(j) ==
    /\ job[j].pc = "download" /\ job[j].todo = {}
    /\ saved' = [saved EXCEPT ![job[j].key] = job[j].ids]
    /\ job' = [job EXCEPT ![j].pc = "annotations"]
    /\ UNCHANGED <<needed, pdfs, screen, card, sheetHistory>>

\* The annotations have been loaded, or not: either way it is saved.
SaveEnds(j) ==
    /\ job[j].pc = "annotations"
    /\ Ends(j)
    /\ Report(j, "saved")
    /\ UNCHANGED <<needed, store, player, response, choice, resave, card, sheetHistory>>

-----------------------------------------------------------------------------
(* removeSetlistOffline: the list is read, then one transaction deletes.   *)

\* Mutant: the removal deletes the setlist's PDFs, shared or not.
allNoteIds(s) == saved[s]

orphanedNoteIds(s) ==
    saved[s] \ UNION {saved[t] : t \in {u \in Setlist \ {s} : saved[u] # NoList}}

\* From the panel of the player that shows it or from the card.
remove(s) ==
    /\ ByTheUser
    /\ (player = s /\ status = "saved") \/ s \in card
    /\ IF saved[s] # NoList
       THEN \E j \in Job : Starts(j, [pc |-> "remove", key |-> s, orphans |-> orphanedNoteIds(s)])
       ELSE UNCHANGED job
    /\ card' = card \ {s}
    /\ status' = IF player = s /\ status = "saved" THEN "none" ELSE status
    /\ UNCHANGED <<needed, store, player, response, choice, resave, dropped>>

RemoveCommits(j) ==
    /\ job[j].pc = "remove"
    /\ saved' = [saved EXCEPT ![job[j].key] = NoList]
    /\ pdfs' = pdfs \ job[j].orphans
    /\ Ends(j)
    /\ UNCHANGED <<needed, screen, card, sheetHistory>>

-----------------------------------------------------------------------------
(* refreshOfflinePdfIfSaved, after a new PDF was uploaded for a note.      *)

refreshOfflinePdfIfSaved(p) ==
    /\ ByTheUser
    /\ p \in pdfs
    /\ \E j \in Job : Starts(j, [pc |-> "refresh", pdf |-> p])
    /\ UNCHANGED <<needed, store, screen, card, dropped>>

\* The new version replaces the copy, or the copy is dropped.
RefreshEnds(j) ==
    /\ job[j].pc = "refresh"
    /\ \/ pdfs' = pdfs \union {job[j].pdf} /\ dropped' = dropped
       \/ pdfs' = pdfs \ {job[j].pdf} /\ dropped' = dropped \union {job[j].pdf}
    /\ Ends(j)
    /\ UNCHANGED <<needed, saved, screen, card, overlapped>>

-----------------------------------------------------------------------------
(* Switching parts.                                                        *)

\* The member chooses another part of a score: the playlist names its PDF.
selectPart ==
    /\ ByTheUser
    /\ player # NoSetlist /\ response # NoList /\ choice = "idle"
    /\ \E ids \in (SUBSET Pdf) \ {{}, needed[player]} : needed' = [needed EXCEPT ![player] = ids]
    /\ choice' = "put"
    /\ UNCHANGED <<store, player, response, status, resave, card, job, dropped>>

\* onSuccess: whether to save again is remembered, and the playlist refetched.
ChoiceStored ==
    /\ choice = "put"
    /\ resave' = (status = "saved")
    /\ choice' = "refetch"
    /\ UNCHANGED <<needed, store, player, response, status, card, job, sheetHistory>>

Refetched ==
    /\ choice = "refetch"
    /\ response' = needed[player]
    /\ choice' = "idle"
    /\ UNCHANGED <<needed, store, player, status, resave, card, job, sheetHistory>>

\* The effect on [playlist.response, offline]: "offline" is a new object on
\* every render, so any render at all runs it.
Rerender ==
    /\ resave /\ response # NoList
    /\ resave' = FALSE
    /\ SaveStarts
    /\ status' = "saving"
    /\ UNCHANGED <<needed, store, player, response, choice, card, sheetHistory>>

-----------------------------------------------------------------------------

\* The tab is reloaded or killed; a transaction is done or not.
Reload ==
    /\ player' = NoSetlist /\ response' = NoList /\ status' = "unknown"
    /\ choice' = "idle" /\ resave' = FALSE /\ card' = {}
    /\ job' = [j \in Job |-> NoJob]
    /\ UNCHANGED <<needed, store, sheetHistory>>

SheetNext ==
    \/ \E s \in Setlist : OpenPlayer(s) \/ remove(s)
    \/ usePlaylist \/ getOfflineSetlist \/ ClosePlayer \/ ShowCard \/ save
    \/ \E j \in Job : \/ downloadPdfBlob(j) \/ DownloadFails(j) \/ PutSetlist(j) \/ SaveEnds(j)
                      \/ RemoveCommits(j) \/ RefreshEnds(j)
    \/ \E p \in Pdf : refreshOfflinePdfIfSaved(p)
    \/ selectPart \/ ChoiceStored \/ Refetched \/ Rerender
    \/ Reload

SheetSpec == SheetInit /\ [][SheetNext]_sheetVars

-----------------------------------------------------------------------------
(* Properties.                                                             *)

\* A setlist that claims to be available without a connection has all its
\* PDFs on the device, but for those a failed refresh gave up, however saves,
\* removals of setlists that share PDFs, downloads that fail and reloads
\* follow each other (offlineSheetMusic.ts:56-122); here as long as the user has
\* started one operation at a time, which the page does not enforce.
SavedIsPlayable ==
    ~ overlapped => \A s \in Setlist : saved[s] # NoList => saved[s] \subseteq pdfs \union dropped

=============================================================================
