--------------------------- MODULE InventoryScreen ---------------------------
(***************************************************************************)
(* The inventory screen of one tab (ui/src/pages/InventoryView.tsx): a     *)
(* sweep from the choice of the folder to its report, online against the   *)
(* server or offline against the queue of OfflineSweeps.                   *)
(*                                                                         *)
(* The handlers are async functions: what they do up to the first await    *)
(* and what they do with the answer are two steps, the answers come in any *)
(* order, and a handler goes on with the state it saw when it was called.  *)
(* The screen waits for none of them: its buttons stay where they are.     *)
(***************************************************************************)
EXTENDS Integers, FiniteSets

CONSTANTS
    ScreenSweep,    \* ids of sweeps, on the server or on the device
    ScreenNote,
    Call,       \* slots for handlers that wait for an answer
    NoScreenSweep, NoScreenNote

ScreenNulls == NoScreenSweep \notin ScreenSweep /\ NoScreenNote \notin ScreenNote

VARIABLES
    online,
    stage,      \* sweep -> "unused" | "open" | "completed" | "gone", where it is kept
    local,      \* the sweeps kept on the device
    recorded,   \* sweep -> the notes sighted
    screenPhase, \* state.phase
    sweep,      \* state.sweepId
    report,     \* state.report, by section
    listed,     \* the list under the scan button
    candidates, \* notes of the dialog "which one is it?"
    pageCheck,  \* note of the dialog "all pages there?", or NoScreenNote
    scanning,   \* the photo that is being read, or NoPhoto
    synced,     \* syncedReports: what the push of offline sweeps brought back
    call,       \* handlers under way
    lost,       \* history: sweep -> notes recorded without an answer
    stale       \* history: the sweep was started while something was under way

kept == <<stage, local, recorded>>
dialogs == <<candidates, pageCheck>>
screen == <<screenPhase, sweep, report, listed, dialogs, scanning, synced>>
screenHistory == <<lost, stale>>
screenVars == <<online, kept, screen, call, screenHistory>>

Section == {"present", "newHere", "missing"}
NoReport == [s \in Section |-> {}]
Reports == [Section -> SUBSET ScreenNote]
NoPhoto == "none"
Idle == [pc |-> "idle"]

Busy == {c \in Call : call[c].pc # "idle"}
Calls(c, record) == c \notin Busy /\ call' = [call EXCEPT ![c] = record]
Ends(c) == call' = [call EXCEPT ![c] = Idle]

ScreenTypeOK ==
    /\ online \in BOOLEAN
    /\ stage \in [ScreenSweep -> {"unused", "open", "completed", "gone"}]
    /\ local \subseteq ScreenSweep
    /\ recorded \in [ScreenSweep -> SUBSET ScreenNote]
    /\ screenPhase \in {"idle", "sweeping", "report", "localReport"}
    /\ sweep \in ScreenSweep \union {NoScreenSweep}
    /\ report \in Reports
    /\ listed \subseteq ScreenNote /\ candidates \subseteq ScreenNote
    /\ pageCheck \in ScreenNote \union {NoScreenNote}
    /\ scanning \in {NoPhoto, "photo"}
    /\ synced \subseteq ScreenSweep
    /\ lost \in [ScreenSweep -> SUBSET ScreenNote]
    /\ stale \in BOOLEAN
    /\ screenPhase = "sweeping" => sweep \in ScreenSweep

ScreenInit ==
    /\ online \in BOOLEAN
    /\ stage = [s \in ScreenSweep |-> "unused"] /\ local = {}
    /\ recorded = [s \in ScreenSweep |-> {}]
    /\ screenPhase = "idle" /\ sweep = NoScreenSweep /\ report = NoReport
    /\ listed = {} /\ candidates = {} /\ pageCheck = NoScreenNote
    /\ scanning = NoPhoto /\ synced = {}
    /\ call = [c \in Call |-> Idle]
    /\ lost = [s \in ScreenSweep |-> {}] /\ stale = FALSE

-----------------------------------------------------------------------------
(* Starting: from the list of root folders, the search, or a link.         *)

\* Every folder of the idle screen has its button, which stays there until
\* the sweep is on screen. A link that names a tag or a folder does the same
\* when the page is opened. The folder does not matter here.
startSweep(c) ==
    /\ screenPhase = "idle"
    /\ Calls(c, [pc |-> "start", offline |-> ~online])
    /\ UNCHANGED <<online, kept, screen, screenHistory>>

\* Mutant: the list of the last sweep is not cleared.
KeepList(s) ==
    /\ screenPhase' = "sweeping" /\ sweep' = s
    /\ listed' = listed
    /\ stale' = (Cardinality(Busy) > 1 \/ scanning # NoPhoto)
    /\ UNCHANGED <<report, dialogs, scanning, synced>>

\* useState's setters of startSweep: a new sweep, an empty list.
ShowSweep(s) ==
    /\ screenPhase' = "sweeping" /\ sweep' = s
    /\ listed' = {}
    /\ stale' = (Cardinality(Busy) > 1 \/ scanning # NoPhoto)
    /\ UNCHANGED <<report, dialogs, scanning, synced>>

\* POST /sweeps answers, or the entry is in the queue; an unfinished sweep of
\* the same folder that was kept offline is dropped first.
SweepCreated(c, s) ==
    /\ call[c].pc = "start" /\ stage[s] = "unused"
    /\ \E dropped \in SUBSET {x \in local : stage[x] = "open"} :
          /\ ~call[c].offline => dropped = {}
          /\ stage' = [x \in ScreenSweep |-> IF x = s THEN "open"
                                       ELSE IF x \in dropped THEN "gone" ELSE stage[x]]
    /\ local' = IF call[c].offline THEN local \union {s} ELSE local
    /\ ShowSweep(s)
    /\ Ends(c)
    /\ UNCHANGED <<online, recorded, lost>>

\* The call failed, or its answer was lost: nothing is shown.
StartFails(c) ==
    /\ call[c].pc = "start" /\ ~call[c].offline
    /\ \/ UNCHANGED stage
       \/ \E s \in ScreenSweep : stage[s] = "unused" /\ stage' = [stage EXCEPT ![s] = "open"]
    /\ Ends(c)
    /\ UNCHANGED <<online, local, recorded, screen, screenHistory>>

-----------------------------------------------------------------------------
(* Scanning: OCR on the device, then the server's or the device's ranking. *)

handlePhoto ==
    /\ screenPhase = "sweeping" /\ scanning = NoPhoto
    /\ scanning' = "photo"
    /\ UNCHANGED <<online, kept, screenPhase, sweep, report, listed, dialogs, synced, call,
                   screenHistory>>

\* No match or an error; a match at least AUTO_ACCEPT_CONFIDENCE sure; or a
\* choice. Whatever the screen shows by now.
PhotoRead ==
    /\ scanning = "photo"
    /\ scanning' = NoPhoto
    /\ \/ UNCHANGED dialogs
       \/ pageCheck' \in ScreenNote /\ UNCHANGED candidates
       \/ candidates' = ScreenNote /\ UNCHANGED pageCheck
    /\ UNCHANGED <<online, kept, screenPhase, sweep, report, listed, synced, call,
                   screenHistory>>

PickCandidate ==
    /\ pageCheck = NoScreenNote
    /\ pageCheck' \in candidates
    /\ UNCHANGED <<online, kept, screenPhase, sweep, report, listed, candidates, scanning,
                   synced,
                   call, screenHistory>>

CloseDialog ==
    /\ \/ pageCheck # NoScreenNote /\ pageCheck' = NoScreenNote /\ UNCHANGED candidates
       \/ pageCheck = NoScreenNote /\ candidates # {} /\ candidates' = {} /\ UNCHANGED pageCheck
    /\ UNCHANGED <<online, kept, screenPhase, sweep, report, listed, scanning, synced, call,
                   screenHistory>>

\* "All pages" or "pages missing": the same but for a flag. The dialog stays
\* open until the answer is there.
recordSighting(c) ==
    /\ pageCheck # NoScreenNote /\ screenPhase = "sweeping"
    /\ Calls(c, [pc |-> "record", sweep |-> sweep, note |-> pageCheck])
    /\ UNCHANGED <<online, kept, screen, screenHistory>>

\* The sighting is stored (a second one is none), and the answer says whether
\* it was new.
SightingAnswered(c) ==
    LET s == call[c].sweep
        n == call[c].note IN
    /\ call[c].pc = "record" /\ stage[s] \in {"open", "completed"}
    /\ s \in local \/ stage[s] = "open"
    /\ recorded' = [recorded EXCEPT ![s] = @ \union {n}]
    /\ listed' = IF n \in recorded[s] THEN listed ELSE listed \union {n}
    /\ candidates' = {} /\ pageCheck' = NoScreenNote
    /\ Ends(c)
    /\ UNCHANGED <<online, stage, local, screenPhase, sweep, report, scanning, synced,
                   screenHistory>>

\* Refused, not sent, or the answer lost: an unhandled rejection, and the
\* dialog is still there.
SightingFails(c) ==
    LET s == call[c].sweep IN
    /\ call[c].pc = "record"
    /\ \/ UNCHANGED <<recorded, lost>>
       \/ /\ s \notin local /\ stage[s] = "open" /\ call[c].note \notin recorded[s]
          /\ recorded' = [recorded EXCEPT ![s] = @ \union {call[c].note}]
          /\ lost' = [lost EXCEPT ![s] = @ \union {call[c].note}]
    /\ Ends(c)
    /\ UNCHANGED <<online, stage, local, screen, stale>>

-----------------------------------------------------------------------------
(* Finishing and cancelling.                                               *)

completeSweep(c) ==
    /\ screenPhase = "sweeping"
    /\ Calls(c, [pc |-> "complete", sweep |-> sweep])
    /\ UNCHANGED <<online, kept, screen, screenHistory>>

\* An offline sweep has no report but the list; the queue takes a sweep that
\* is gone without complaint. Online the server compares: what was recorded is
\* in its folder or new there, what was not may be missing.
SweepCompleted(c) ==
    LET s == call[c].sweep IN
    /\ call[c].pc = "complete"
    /\ s \in local \/ stage[s] = "open"
    /\ stage' = IF stage[s] = "open" THEN [stage EXCEPT ![s] = "completed"] ELSE stage
    /\ IF s \in local
       THEN screenPhase' = "localReport" /\ UNCHANGED report
       ELSE /\ screenPhase' = "report"
            /\ \E new \in SUBSET recorded[s] :
                  report' = [present |-> recorded[s] \ new, newHere |-> new,
                             missing |-> ScreenNote \ recorded[s]]
    /\ sweep' = s
    /\ Ends(c)
    /\ UNCHANGED <<online, local, recorded, listed, dialogs, scanning, synced, screenHistory>>

\* Cancelling asks first if anything is in the list.
cancelSweep(c) ==
    /\ screenPhase = "sweeping"
    /\ Calls(c, [pc |-> "cancel", sweep |-> sweep])
    /\ UNCHANGED <<online, kept, screen, screenHistory>>

SweepCancelled(c) ==
    LET s == call[c].sweep IN
    /\ call[c].pc = "cancel"
    /\ s \in local \/ stage[s] = "open"
    /\ stage' = IF stage[s] = "open" THEN [stage EXCEPT ![s] = "gone"] ELSE stage
    /\ listed' = {} /\ screenPhase' = "idle" /\ sweep' = NoScreenSweep
    /\ Ends(c)
    /\ UNCHANGED <<online, local, recorded, report, dialogs, scanning, synced, screenHistory>>

\* Either call refused or lost: the sweep stays on screen.
EndFails(c) ==
    /\ call[c].pc \in {"complete", "cancel"} /\ call[c].sweep \notin local
    /\ \/ UNCHANGED stage
       \/ /\ stage[call[c].sweep] = "open"
          /\ stage' = [stage EXCEPT ![call[c].sweep] =
                          IF call[c].pc = "cancel" THEN "gone" ELSE "completed"]
    /\ Ends(c)
    /\ UNCHANGED <<online, local, recorded, screen, screenHistory>>

-----------------------------------------------------------------------------
(* Reports.                                                                *)

\* Purely local: a note that is still missing reappears in the next sweep.
dismiss(section, n) ==
    /\ screenPhase = "report" /\ n \in report[section]
    /\ report' = [report EXCEPT ![section] = @ \ {n}]
    /\ UNCHANGED <<online, kept, screenPhase, sweep, listed, dialogs, scanning, synced,
                   call, screenHistory>>

applyMoves(c) ==
    /\ screenPhase = "report" /\ report["newHere"] # {}
    /\ Calls(c, [pc |-> "moves", sweep |-> sweep, report |-> report])
    /\ UNCHANGED <<online, kept, screen, screenHistory>>

\* The report as it was when the button was pressed, with the new notes among
\* those present, is shown, whatever is on screen.
MovesApplied(c) ==
    /\ call[c].pc = "moves"
    /\ screenPhase' = "report" /\ sweep' = call[c].sweep
    /\ report' = [call[c].report EXCEPT !["present"] = @ \union call[c].report["newHere"],
                                        !["newHere"] = {}]
    /\ Ends(c)
    /\ UNCHANGED <<online, kept, listed, dialogs, scanning, synced, screenHistory>>

MovesFail(c) == call[c].pc = "moves" /\ Ends(c) /\ UNCHANGED <<online, kept, screen,
                                                               screenHistory>>

Done ==
    /\ screenPhase \in {"report", "localReport"}
    /\ screenPhase' = "idle" /\ sweep' = NoScreenSweep /\ report' = NoReport
    /\ UNCHANGED <<online, kept, listed, dialogs, scanning, synced, call, screenHistory>>

\* A push has delivered a sweep recorded offline, and its report is offered on
\* the idle screen until it is dismissed.
Pushed(s) ==
    /\ online /\ s \in local /\ stage[s] = "completed"
    /\ stage' = [stage EXCEPT ![s] = "gone"]
    /\ synced' = synced \union {s}
    /\ UNCHANGED <<online, local, recorded, screenPhase, sweep, report, listed, dialogs,
                   scanning,
                   call, screenHistory>>

OpenSynced(s) ==
    /\ screenPhase = "idle" /\ s \in synced
    /\ screenPhase' = "report" /\ sweep' = s
    /\ report' = [NoReport EXCEPT !["present"] = recorded[s]]
    /\ UNCHANGED <<online, kept, listed, dialogs, scanning, synced, call, screenHistory>>

dismissSyncedReports ==
    /\ screenPhase = "idle" /\ synced # {} /\ synced' = {}
    /\ UNCHANGED <<online, kept, screenPhase, sweep, report, listed, dialogs, scanning,
                   call, screenHistory>>

Connectivity == online' = ~online /\ UNCHANGED <<kept, screen, call, screenHistory>>

ScreenNext ==
    \/ \E c \in Call :
          \/ startSweep(c) \/ (\E s \in ScreenSweep : SweepCreated(c, s)) \/ StartFails(c)
          \/ recordSighting(c) \/ SightingAnswered(c) \/ SightingFails(c)
          \/ completeSweep(c) \/ SweepCompleted(c) \/ cancelSweep(c) \/ SweepCancelled(c)
          \/ EndFails(c)
          \/ applyMoves(c) \/ MovesApplied(c) \/ MovesFail(c)
    \/ handlePhoto \/ PhotoRead \/ PickCandidate \/ CloseDialog
    \/ \E section \in Section, n \in ScreenNote : dismiss(section, n)
    \/ Done \/ dismissSyncedReports \/ Connectivity
    \/ \E s \in ScreenSweep : Pushed(s) \/ OpenSynced(s)

ScreenSpec == ScreenInit /\ [][ScreenNext]_screenVars

-----------------------------------------------------------------------------
(* Properties.                                                             *)

\* While a sweep is on screen that was started with nothing else under way,
\* the list is what was recorded for it, but for sightings whose answer was
\* lost (InventoryView.tsx:147-203): two taps on one note, retries and answers
\* that cross do not make them differ. The list decides whether cancelling
\* asks first, and is the report of an offline sweep.
ListIsRecorded ==
    screenPhase = "sweeping" /\ ~stale => listed = recorded[sweep] \ lost[sweep]
=============================================================================
