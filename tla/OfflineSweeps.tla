---------------------------- MODULE OfflineSweeps ----------------------------
(***************************************************************************)
(* Inventory sweeps recorded while offline: the queue in IndexedDB         *)
(* (ui/src/offline/pendingSweeps.ts), the screen that fills it             *)
(* (ui/src/pages/InventoryView.tsx) and the push that replays it against   *)
(* the server (ui/src/offline/pendingSweepSync.ts), in several browser     *)
(* tabs over one database.                                                 *)
(*                                                                         *)
(* JavaScript runs between awaits without interruption, and an IndexedDB   *)
(* transaction is atomic: an action is what runs from one await to the     *)
(* next.  A call of the server succeeds, is refused, or is carried out and *)
(* its answer lost.  Sweeps recorded online go to the server directly and  *)
(* are no part of this module, nor is the number of waiting sweeps that    *)
(* the screen shows.                                                       *)
(***************************************************************************)
CONSTANTS
    Sweep,          \* local sweep ids
    Note,
    Folder,
    Tab,            \* browser tabs
    Session,        \* server sweep ids; bounds how often a replay may start
    NoSweep,
    NoFolder,
    NoSession

ASSUME OfflineAssumption ==
    NoSweep \notin Sweep /\ NoFolder \notin Folder /\ NoSession \notin Session

VARIABLES
    entry,      \* IndexedDB: entry[s], a pending sweep is open or completed
    folder,     \* IndexedDB: folder[s], the swept folder
    seen,       \* IndexedDB: seen[s], the notes sighted
    session,    \* server: is session x unused, open or done?
    of,         \* server: of[x], the local sweep that x replays
    got,        \* server: got[x], the sightings x has
    online,     \* navigator.onLine
    screen,     \* screen[t]: what the inventory screen of tab t does
    push,       \* push[t]: the push that runs in tab t
    closedWith, \* history: the sightings of s when it was completed
    finished    \* history: the sweeps a screen has reported as finished

queue  == <<entry, folder, seen, closedWith>>
server == <<session, of, got>>
vars   == <<queue, server, online, screen, push, finished>>

Screen == [at     : {"idle", "starting", "sweeping", "finishing", "cancelling"},
           sweep  : Sweep \union {NoSweep},
           folder : Folder \union {NoFolder}]

Push == [pc      : {"idle", "next", "sight", "delete"},
         todo    : SUBSET Sweep,
         copy    : [Sweep -> SUBSET Note],
         sweep   : Sweep \union {NoSweep},
         session : Session \union {NoSession},
         left    : SUBSET Note]

Idle == [at |-> "idle", sweep |-> NoSweep, folder |-> NoFolder]
NoPush == [pc |-> "idle", todo |-> {}, copy |-> [s \in Sweep |-> {}],
           sweep |-> NoSweep, session |-> NoSession, left |-> {}]

TypeOK ==
    /\ entry \in [Sweep -> {"unused", "open", "completed", "gone"}]
    /\ folder \in [Sweep -> Folder \union {NoFolder}]
    /\ seen \in [Sweep -> SUBSET Note]
    /\ session \in [Session -> {"unused", "open", "done"}]
    /\ of \in [Session -> Sweep \union {NoSweep}]
    /\ got \in [Session -> SUBSET Note]
    /\ online \in BOOLEAN
    /\ screen \in [Tab -> Screen]
    /\ \A t \in Tab : screen[t].at \notin {"idle", "starting"} => screen[t].sweep \in Sweep
    /\ push \in [Tab -> Push]
    /\ closedWith \in [Sweep -> SUBSET Note]
    /\ finished \subseteq Sweep

Init ==
    /\ entry = [s \in Sweep |-> "unused"]
    /\ folder = [s \in Sweep |-> NoFolder]
    /\ seen = [s \in Sweep |-> {}]
    /\ session = [x \in Session |-> "unused"]
    /\ of = [x \in Session |-> NoSweep]
    /\ got = [x \in Session |-> {}]
    /\ online = FALSE
    /\ screen = [t \in Tab |-> Idle]
    /\ push = [t \in Tab |-> NoPush]
    /\ closedWith = [s \in Sweep |-> {}]
    /\ finished = {}

Completed == {s \in Sweep : entry[s] = "completed"}
Go(t, at) == screen' = [screen EXCEPT ![t].at = at]

-----------------------------------------------------------------------------
(* The inventory screen.                                                   *)

\* Mutant: cancelling drops completed sweeps of the folder, too.
DropAll(f) ==
    entry' = [s \in Sweep |-> IF entry[s] \in {"open", "completed"} /\ folder[s] = f
                              THEN "gone" ELSE entry[s]]

\* deleteIncompletePendingSweepsForFolder, whichever tab they belong to.
DropIncomplete(f) ==
    entry' = [s \in Sweep |-> IF entry[s] = "open" /\ folder[s] = f
                              THEN "gone" ELSE entry[s]]

StartSweep(t, f) ==
    /\ screen[t].at = "idle" /\ ~ online
    /\ DropIncomplete(f)
    /\ screen' = [screen EXCEPT ![t] = [Idle EXCEPT !.at = "starting", !.folder = f]]
    /\ UNCHANGED <<folder, seen, closedWith, server, online, push, finished>>

CreateEntry(t, s) ==
    /\ screen[t].at = "starting"
    /\ entry[s] = "unused"
    /\ entry' = [entry EXCEPT ![s] = "open"]
    /\ folder' = [folder EXCEPT ![s] = screen[t].folder]
    /\ screen' = [screen EXCEPT ![t].at = "sweeping", ![t].sweep = s]
    /\ UNCHANGED <<seen, closedWith, server, online, push, finished>>

\* The screen accepts sightings until it shows the report; a sweep that is
\* no longer in the store is an error.
RecordSighting(t, n) ==
    LET s == screen[t].sweep IN
    /\ screen[t].at \in {"sweeping", "finishing"}
    /\ entry[s] \in {"open", "completed"}
    /\ seen' = [seen EXCEPT ![s] = @ \union {n}]
    /\ UNCHANGED <<entry, folder, closedWith, server, online, screen, push, finished>>

\* completePendingSweep: no error when the sweep is not there.
FinishSweep(t) ==
    LET s == screen[t].sweep IN
    /\ screen[t].at = "sweeping"
    /\ IF entry[s] = "open"
       THEN /\ entry' = [entry EXCEPT ![s] = "completed"]
            /\ closedWith' = [closedWith EXCEPT ![s] = seen[s]]
       ELSE UNCHANGED <<entry, closedWith>>
    /\ Go(t, "finishing")
    /\ UNCHANGED <<folder, seen, server, online, push, finished>>

\* Mutant: the sweep can be cancelled before its entry is there.
CancelAtOnce(t) ==
    /\ screen[t].at \in {"starting", "sweeping"}
    /\ DropIncomplete(screen[t].folder)
    /\ Go(t, "cancelling")
    /\ UNCHANGED <<folder, seen, closedWith, server, online, push, finished>>

CancelSweep(t) ==
    /\ screen[t].at = "sweeping"
    /\ DropIncomplete(screen[t].folder)
    /\ Go(t, "cancelling")
    /\ UNCHANGED <<folder, seen, closedWith, server, online, push, finished>>

\* When refreshPendingCount has read the store, which takes a while.
ShowResult(t) ==
    /\ screen[t].at \in {"finishing", "cancelling"}
    /\ finished' = IF screen[t].at = "finishing"
                   THEN finished \union {screen[t].sweep} ELSE finished
    /\ screen' = [screen EXCEPT ![t] = Idle]
    /\ UNCHANGED <<queue, server, online, push>>

-----------------------------------------------------------------------------
(* The push.                                                               *)

\* On the event "online", after a data sync, or on a tap; never twice in a tab.
StartPush(t) ==
    /\ push[t].pc = "idle" /\ online
    /\ push' = [push EXCEPT ![t] = [NoPush EXCEPT !.pc = "next",
                                                  !.todo = Completed,
                                                  !.copy = seen]]
    /\ UNCHANGED <<queue, server, online, screen, finished>>

\* Mutant: a sweep that failed is tried again at once.
TryAgain(t, s) ==
    push' = [push EXCEPT ![t].pc = "next", ![t].sweep = NoSweep,
                         ![t].session = NoSession, ![t].left = {}]

\* The catch of the loop: on to the next sweep, s stays queued.
SkipSweep(t, s) ==
    push' = [push EXCEPT ![t].pc = "next", ![t].todo = @ \ {s}, ![t].sweep = NoSweep,
                         ![t].session = NoSession, ![t].left = {}]

Replay(t, s, x) ==
    push' = [push EXCEPT ![t].pc = "sight", ![t].sweep = s, ![t].session = x,
                         ![t].left = push[t].copy[s]]

CreateSession(t, s, x) ==
    /\ push[t].pc = "next" /\ s \in push[t].todo
    /\ session[x] = "unused" /\ online
    /\ session' = [session EXCEPT ![x] = "open"]
    /\ of' = [of EXCEPT ![x] = s]
    /\ Replay(t, s, x) \/ SkipSweep(t, s)
    /\ UNCHANGED <<queue, got, online, screen, finished>>

CreateRefused(t, s) ==
    /\ push[t].pc = "next" /\ s \in push[t].todo
    /\ SkipSweep(t, s)
    /\ UNCHANGED <<queue, server, online, screen, finished>>

PostSighting(t, n) ==
    /\ push[t].pc = "sight" /\ n \in push[t].left /\ online
    /\ got' = [got EXCEPT ![push[t].session] = @ \union {n}]
    /\ \/ push' = [push EXCEPT ![t].left = @ \ {n}]
       \/ SkipSweep(t, push[t].sweep)
    /\ UNCHANGED <<queue, session, of, online, screen, finished>>

PostComplete(t) ==
    /\ push[t].pc = "sight" /\ push[t].left = {} /\ online
    /\ session' = [session EXCEPT ![push[t].session] = "done"]
    /\ \/ push' = [push EXCEPT ![t].pc = "delete"]
       \/ SkipSweep(t, push[t].sweep)
    /\ UNCHANGED <<queue, of, got, online, screen, finished>>

\* Mutant: a refused sighting is passed over.
PassOverSightings(t) ==
    /\ push[t].pc = "sight"
    /\ push' = [push EXCEPT ![t].left = {}]
    /\ UNCHANGED <<queue, server, online, screen, finished>>

PostRefused(t) ==
    /\ push[t].pc = "sight"
    /\ SkipSweep(t, push[t].sweep)
    /\ UNCHANGED <<queue, server, online, screen, finished>>

DeleteEntry(t) ==
    /\ push[t].pc = "delete"
    /\ entry' = [entry EXCEPT ![push[t].sweep] = "gone"]
    /\ SkipSweep(t, push[t].sweep)
    /\ UNCHANGED <<folder, seen, closedWith, server, online, screen, finished>>

\* The loop is done, and the flag "pushing" is taken back.
Publish(t) ==
    /\ push[t].pc = "next" /\ push[t].todo = {}
    /\ push' = [push EXCEPT ![t] = NoPush]
    /\ UNCHANGED <<queue, server, online, screen, finished>>

-----------------------------------------------------------------------------
\* A tab is closed or reloaded: what it kept in memory is gone.
Reload(t) ==
    /\ screen' = [screen EXCEPT ![t] = Idle]
    /\ push' = [push EXCEPT ![t] = NoPush]
    /\ UNCHANGED <<queue, server, online, finished>>

Connectivity ==
    /\ online' = ~ online
    /\ UNCHANGED <<queue, server, screen, push, finished>>

ScreenStep(t) ==
    \/ \E f \in Folder : StartSweep(t, f)
    \/ \E s \in Sweep : CreateEntry(t, s)
    \/ \E n \in Note : RecordSighting(t, n)
    \/ FinishSweep(t) \/ CancelSweep(t)
    \/ ShowResult(t)

\* What the push does without the user, once started.
PushStep(t) ==
    \/ \E s \in Sweep, x \in Session : CreateSession(t, s, x)
    \/ \E s \in Sweep : CreateRefused(t, s)
    \/ \E n \in Note : PostSighting(t, n)
    \/ PostComplete(t) \/ PostRefused(t)
    \/ DeleteEntry(t)
    \/ Publish(t)

Next ==
    \/ \E t \in Tab : ScreenStep(t) \/ StartPush(t) \/ PushStep(t) \/ Reload(t)
    \/ Connectivity

Spec == Init /\ [][Next]_vars

\* Every call of the server settles, and a settled promise is continued.
FairSpec == Spec /\ \A t \in Tab : WF_vars(PushStep(t))

-----------------------------------------------------------------------------
(* Properties.                                                             *)

\* The promise of the queue, with a sweep delivered once a completed session
\* of the server has all that had been recorded when the user finished it.
Delivery == INSTANCE SweepDelivery WITH
    status    <- [s \in Sweep |-> IF entry[s] = "completed" THEN "queued" ELSE entry[s]],
    content   <- closedWith,
    delivered <- {s \in Sweep :
                    /\ entry[s] \in {"completed", "gone"}
                    /\ \E x \in Session : /\ of[x] = s /\ session[x] = "done"
                                          /\ closedWith[s] \subseteq got[x]}

\* A finished sweep leaves the device only after the server has it in full,
\* whatever calls fail, answers get lost or tabs reload.
DeliversFinished == Delivery!Spec

\* A push ends, whatever the server answers; the flag "pushing" is not stuck.
PushEnds == \A t \in Tab : push[t].pc # "idle" ~> push[t].pc = "idle"

\* completePendingSweep: a finished sweep becomes eligible for the push; when
\* the screen has reported it finished it is in the queue or was delivered.
FinishedIsQueued ==
    \A s \in finished :
      \/ entry[s] = "completed"
      \/ \E x \in Session : of[x] = s /\ session[x] = "done"
=============================================================================
