---------------------------- MODULE OfflineLibrary ----------------------------
(***************************************************************************)
(* The library on the device: how a tab starts with and without the server *)
(* (ui/src/index.tsx), the sync that replaces the local copy of authors,   *)
(* folders and notes (ui/src/offline: offlineSync, syncStore, offlineDb),  *)
(* and the reads that fall back to it (ui/src/api/client.ts,               *)
(* offlineFallback).                                                       *)
(*                                                                         *)
(* The data of the server is known by its version, which grows. The tabs   *)
(* of a browser share its databases, not their memory. The push of sweeps  *)
(* after a sync is SweepDelivery's.                                        *)
(***************************************************************************)
EXTENDS Integers, FiniteSets

CONSTANTS
    Tab,
    MaxVersion  \* bound on the versions of the server's data

Bounds == MaxVersion \in Nat \ {0}

VARIABLES
    online,     \* the server can be reached; navigator.onLine follows it
    version,    \* of the server's data
    config,     \* localStorage: Keycloak's configuration is there and legible
    library,    \* IndexedDB: the version of authors, folders and notes; 0: empty
    dated,      \* IndexedDB: lastSyncedAt is there
    app,        \* tab -> how far it has started
    sync,       \* tab -> its syncs: [pc, payload]; `syncing' when there is one
    notice,     \* tab -> what its toasts say: lastError, updateAvailable
    read,       \* tab -> its read: [pc, version], and what it shows
    newest,     \* history: the newest version that was written
    crossed     \* history: two tabs were in a sync at once

device == <<config, library, dated>>
vars == <<online, version, device, app, sync, notice, read, newest, crossed>>

Notices == {"lastError", "updateAvailable"}
Reading == {"none", "asked", "shown", "refused"}

\* Rendered with or without a session: offlineBoot. A tab that could do neither
\* shows a notice until it is loaded again.
Rendered(t) == app[t] \in {"session", "offlineBoot"}

\* useOnlineStatus.
isOnline(t) == online /\ app[t] = "session"

TypeOK ==
    /\ online \in BOOLEAN /\ config \in BOOLEAN /\ dated \in BOOLEAN
    /\ version \in 1..MaxVersion /\ library \in 0..version /\ newest \in 0..version
    /\ app \in [Tab -> {"closed", "config", "login", "session", "offlineBoot", "notice"}]
    /\ sync \in [Tab -> SUBSET [pc: {"sent", "replace", "date"}, payload: 0..MaxVersion]]
    /\ \A t \in Tab : sync[t] # {} => app[t] = "session"
    /\ notice \in [Tab -> SUBSET Notices]
    /\ read \in [Tab -> [pc: Reading, version: 0..MaxVersion]]
    /\ crossed \in BOOLEAN

NoRead == [pc |-> "none", version |-> 0]

Init ==
    /\ online \in BOOLEAN /\ version = 1
    /\ config = FALSE /\ library = 0 /\ dated = FALSE
    /\ app = [t \in Tab |-> "closed"]
    /\ sync = [t \in Tab |-> {}]
    /\ notice = [t \in Tab |-> {}]
    /\ read = [t \in Tab |-> NoRead]
    /\ newest = 0 /\ crossed = FALSE

-----------------------------------------------------------------------------
(* Starting a tab: bootstrapApp.                                           *)

App(t, how) == app' = [app EXCEPT ![t] = how]

Open(t) ==
    /\ app[t] = "closed" /\ App(t, "config")
    /\ UNCHANGED <<online, version, device, sync, notice, read, newest, crossed>>

\* GET /public: the configuration is kept, and Keycloak asks for a login.
ConfigArrives(t) ==
    /\ app[t] = "config" /\ online
    /\ config' = TRUE
    /\ App(t, "login")
    /\ UNCHANGED <<online, version, library, dated, sync, notice, read, newest, crossed>>

\* Mutant: the configuration is enough.
Configured == config

MayStartOffline == config /\ dated

\* The server was not reached: with a configuration and the date of a sync the
\* tab starts without a session.
OfflineBoot(t) ==
    /\ app[t] = "config" /\ ~online
    /\ App(t, IF MayStartOffline THEN "offlineBoot" ELSE "notice")
    /\ UNCHANGED <<online, version, device, sync, notice, read, newest, crossed>>

\* Closed, reloaded ("a new version is available") or crashed: the memory of
\* the tab is gone, and a transaction of IndexedDB that has not committed.
CloseTab(t) ==
    /\ app[t] # "closed" /\ App(t, "closed")
    /\ sync' = [sync EXCEPT ![t] = {}]
    /\ notice' = [notice EXCEPT ![t] = {}]
    /\ read' = [read EXCEPT ![t] = NoRead]
    /\ UNCHANGED <<online, version, device, newest, crossed>>

-----------------------------------------------------------------------------
(* A sync: runSync and syncNow.                                            *)

\* Mutant: a sync does not wait for the one before.
SyncsAtWill(t) == TRUE

MaySync(t) == sync[t] = {}

Syncs(t, syncs) ==
    /\ sync' = [sync EXCEPT ![t] = syncs]
    /\ crossed' = (crossed \/ (syncs # {} /\ \E u \in Tab \ {t} : sync[u] # {}))

StartSync(t) ==
    /\ Syncs(t, sync[t] \union {[pc |-> "sent", payload |-> 0]})
    /\ notice' = [notice EXCEPT ![t] = @ \ {"lastError"}]

\* Logged in, or not (renderApp either way): the app is there, and syncs.
initKeycloak(t) ==
    /\ app[t] = "login" /\ App(t, "session")
    /\ StartSync(t)
    /\ UNCHANGED <<online, version, device, read, newest>>

\* "Sync now".
runSync(t) ==
    /\ isOnline(t) /\ MaySync(t)
    /\ StartSync(t)
    /\ UNCHANGED <<online, version, device, app, read, newest>>

\* GET /v1/users/offline reads everything at one moment.
SyncAnswered(t, s) ==
    /\ s \in sync[t] /\ s.pc = "sent" /\ online
    /\ Syncs(t, (sync[t] \ {s}) \union {[pc |-> "replace", payload |-> version]})
    /\ UNCHANGED <<online, version, device, app, notice, read, newest>>

\* One transaction over the three stores.
replaceAllStores(t, s) ==
    /\ s \in sync[t] /\ s.pc = "replace"
    /\ library' = s.payload
    /\ newest' = IF s.payload > newest THEN s.payload ELSE newest
    /\ Syncs(t, (sync[t] \ {s}) \union {[s EXCEPT !.pc = "date"]})
    /\ UNCHANGED <<online, version, config, dated, app, notice, read>>

setLastSyncedAt(t, s) ==
    /\ s \in sync[t] /\ s.pc = "date"
    /\ dated' = TRUE
    /\ Syncs(t, sync[t] \ {s})
    /\ UNCHANGED <<online, version, config, library, app, notice, read, newest>>

\* The request, its answer's shape, or a transaction: nothing of that step is
\* there, and the toast says so.
SyncFails(t, s) ==
    /\ s \in sync[t]
    /\ Syncs(t, sync[t] \ {s})
    /\ notice' = [notice EXCEPT ![t] = @ \union {"lastError"}]
    /\ UNCHANGED <<online, version, device, app, read, newest>>

-----------------------------------------------------------------------------
(* Reading a list, a folder's children or a note: request and onError.     *)

AskFor(t) ==
    /\ Rendered(t) /\ read[t].pc # "asked"
    /\ read' = [read EXCEPT ![t] = [NoRead EXCEPT !.pc = "asked"]]
    /\ UNCHANGED <<online, version, device, app, sync, notice, newest, crossed>>

\* The server answers. A tab that started without a session has no token and
\* is refused, which is not an error of the network.
ReadAnswered(t) ==
    /\ read[t].pc = "asked" /\ online
    /\ read' = [read EXCEPT ![t] = IF app[t] = "session" THEN [pc |-> "shown", version |-> version]
                                   ELSE [pc |-> "refused", version |-> 0]]
    /\ UNCHANGED <<online, version, device, app, sync, notice, newest, crossed>>

\* navigator.onLine is false, or fetch rejects.
buildOfflineResponse(t) ==
    /\ read[t].pc = "asked" /\ ~online
    /\ read' = [read EXCEPT ![t] = [pc |-> "shown", version |-> library]]
    /\ UNCHANGED <<online, version, device, app, sync, notice, newest, crossed>>

-----------------------------------------------------------------------------

\* Eight seconds, or a click.
dismissSyncError(t) ==
    /\ "lastError" \in notice[t]
    /\ notice' = [notice EXCEPT ![t] = @ \ {"lastError"}]
    /\ UNCHANGED <<online, version, device, app, sync, read, newest, crossed>>

\* The service worker has installed a new version.
notifyAppUpdate(t) ==
    /\ Rendered(t) /\ online
    /\ notice' = [notice EXCEPT ![t] = @ \union {"updateAvailable"}]
    /\ UNCHANGED <<online, version, device, app, sync, read, newest, crossed>>

\* The user's data changes on the server.
ServerChanges ==
    /\ version < MaxVersion /\ version' = version + 1
    /\ UNCHANGED <<online, device, app, sync, notice, read, newest, crossed>>

Connectivity ==
    /\ online' = ~online
    /\ UNCHANGED <<version, device, app, sync, notice, read, newest, crossed>>

Next ==
    \/ \E t \in Tab :
          \/ Open(t) \/ ConfigArrives(t) \/ OfflineBoot(t) \/ initKeycloak(t) \/ CloseTab(t)
          \/ runSync(t)
          \/ \E s \in sync[t] : \/ SyncAnswered(t, s) \/ replaceAllStores(t, s)
                                \/ setLastSyncedAt(t, s) \/ SyncFails(t, s)
          \/ AskFor(t) \/ ReadAnswered(t) \/ buildOfflineResponse(t)
          \/ dismissSyncError(t) \/ notifyAppUpdate(t)
    \/ ServerChanges \/ Connectivity

Spec == Init /\ [][Next]_vars

-----------------------------------------------------------------------------
(* Properties.                                                             *)

\* A tab that starts without the server has a library, wherever a tab was
\* closed in the middle of a sync (index.tsx:187-189: the date of a sync stands
\* for its data); and the library is the newest that was ever written, unless
\* two tabs were in a sync at once (syncStore.ts:55 keeps one tab from it).
LibraryKept ==
    /\ \A t \in Tab : app[t] = "offlineBoot" => library # 0
    /\ ~crossed => library = newest

\* Why: a tab has one sync; what it is about to write is a version of the server's,
\* and a date is only written, and believed, when there is a library.
OneSync == \A t \in Tab : \A r, s \in sync[t] : r = s

DatedHasLibrary ==
    /\ dated => library # 0
    /\ \A t \in Tab : \A s \in sync[t] :
          /\ s.pc = "replace" => s.payload \in 1..version
          /\ s.pc = "date" => library # 0

\* As long as one tab syncs at a time it brings what is at least as new as
\* anything written.
OneTab ==
    ~crossed =>
      /\ \A t, u \in Tab : sync[t] # {} /\ sync[u] # {} => t = u
      /\ \A t \in Tab : \A s \in sync[t] : s.pc = "replace" => s.payload >= newest

DeviceInv == TypeOK /\ LibraryKept /\ OneSync /\ DatedHasLibrary /\ OneTab
===============================================================================
