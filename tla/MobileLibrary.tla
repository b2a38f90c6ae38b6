---------------------------- MODULE MobileLibrary ----------------------------
(***************************************************************************)
(* The library the app for phones keeps on the device                      *)
(* (smartorganizr-mobile/api/ApiClient.ts): the notes and folders it       *)
(* stores from the answers to its pages (app/redirect/index.tsx, tree.tsx, *)
(* note/[id].tsx), and the loop that fetches all of them page by page.     *)
(*                                                                         *)
(* Notes and folders are numbers, in the order of their names, which is    *)
(* the order of the server's lists. A step reaches from one await to the   *)
(* next: an answer leaves the server, the stored list is read, the merged  *)
(* one is written. Requests of other pages and changes come in between.    *)
(***************************************************************************)
EXTENDS Integers, FiniteSets

CONSTANTS
    Call,           \* requests that may be under way at once
    MaxNotes, MaxFolders,   \* bounds: notes and folders there may be
    Missing,        \* notes that are not there at first
    PageSize,       \* constants.CurrentPageSize of the server
    MaxChanges      \* bound: changes of the library on the server

LibraryBounds ==
    /\ MaxNotes \in Nat /\ MaxFolders \in Nat /\ MaxChanges \in Nat
    /\ PageSize \in Nat \ {0}

Note == 1..MaxNotes
FolderNo == 1..MaxFolders
Lists == {"notes", "folders"}
Items == Note \union FolderNo

\* What a text of the search finds by name; with the composer's name and the
\* folder's, as the device searches, it finds as much or more.
Named == {n \in Note : n % 2 = 1}

VARIABLES
    online, loggedIn,
    library,        \* library[l]: what the server has
    stored,         \* stored[l]: NOTES_CACHE_KEY and FOLDERS_CACHE_KEY
    call,           \* call[c]: a request of a page, or the loop of a sync
    changes,        \* how many changes there were
    current         \* history: the lists stored whole since the library last changed

vars == <<online, loggedIn, library, stored, call, changes, current>>

\* pc "fetch": asked for page `page`; "store": answered with `got`; "write":
\* merged into what was stored then. The rest is history: has the library
\* changed meanwhile, has the list been written meanwhile, what has been in
\* the list all the time, was anything removed.
NoCall == [pc |-> "idle", kind |-> "sync", list |-> "notes", page |-> 0, got |-> {},
           changed |-> FALSE, crossed |-> FALSE, there |-> {}, removed |-> FALSE]

TypeOK ==
    /\ {online, loggedIn} \subseteq BOOLEAN
    /\ library \in [Lists -> SUBSET Items] /\ library["notes"] \subseteq Note
    /\ stored \in [Lists -> SUBSET Items]
    /\ call \in [Call ->
          [pc : {"idle", "fetch", "store", "write"}, kind : {"sync", "all", "search", "detail"},
           list : Lists, page : Nat, got : SUBSET Items, changed : BOOLEAN,
           crossed : BOOLEAN, there : SUBSET Items, removed : BOOLEAN]]
    /\ changes \in 0..MaxChanges
    /\ current \subseteq Lists

Init ==
    /\ online = TRUE /\ loggedIn = TRUE
    /\ library = [l \in Lists |-> IF l = "notes" THEN Note \ Missing ELSE FolderNo]
    /\ stored = [l \in Lists |-> {}]
    /\ call = [c \in Call |-> NoCall]
    /\ changes = 0
    /\ current = {}

-----------------------------------------------------------------------------
(* The server's lists.                                                     *)

before(l, i) == Cardinality({j \in library[l] : j < i})

\* GetNotes and SearchFolders: a page, in the order of the names.
pageOf(l, p) == {i \in library[l] : before(l, i) \in p * PageSize..(p + 1) * PageSize - 1}

hasNextPage(l, p) == (p + 1) * PageSize < Cardinality(library[l])

mergeById(existing, incoming) == existing \union incoming

-----------------------------------------------------------------------------
(* What the pages ask. Without a network they read what is stored and ask  *)
(* nothing.                                                                *)

Asking(kind, l) == [NoCall EXCEPT !.pc = "fetch", !.kind = kind, !.list = l,
                                  !.there = IF kind = "sync" THEN library[l] ELSE {}]

Ask(c, kind, l) ==
    /\ online /\ loggedIn
    /\ call[c].pc = "idle"
    /\ call' = [call EXCEPT ![c] = Asking(kind, l)]
    /\ UNCHANGED <<online, loggedIn, library, stored, changes, current>>

\* "Jetzt synchronisieren", or pulling the list down; not while it runs.
syncNotesOfflineCache(c) ==
    /\ \A d \in Call : call[d].pc # "idle" => call[d].kind # "sync"
    /\ Ask(c, "sync", "notes")

\* getAllFolders of the tree begins with the loop over the folders.
getAllFolders(c) ==
    /\ \A d \in Call : call[d].pc # "idle" => call[d].kind # "all"
    /\ Ask(c, "all", "folders")

\* The list of the notes page and of the tree, by a text or without.
getAllNotes(c) == \E kind \in {"all", "search"} : Ask(c, kind, "notes")

getNoteDetail(c) == Ask(c, "detail", "notes")

-----------------------------------------------------------------------------
(* The answers.                                                            *)

\* The loop: page by page until the last or an empty one.
SyncPage(c) ==
    /\ call[c].pc = "fetch"
    /\ call[c].kind = "sync" \/ call[c].list = "folders"
    /\ LET l == call[c].list
           p == call[c].page
           batch == pageOf(l, p)
           more == hasNextPage(l, p) /\ batch # {}
       IN  call' = [call EXCEPT ![c].got = mergeById(@, batch),
                                ![c].page = IF more THEN p + 1 ELSE p,
                                ![c].pc = IF more THEN "fetch" ELSE "write",
                                ![c].crossed = FALSE]
    /\ UNCHANGED <<online, loggedIn, library, stored, changes, current>>

\* A list without a page is the whole list, a search what has the text in its
\* name, a detail one note.
Answer(c) ==
    /\ call[c].pc = "fetch" /\ call[c].kind # "sync" /\ call[c].list = "notes"
    /\ \E got \in SUBSET library["notes"] :
          /\ call[c].kind = "all" => got = library["notes"]
          /\ call[c].kind = "search" => got = library["notes"] \intersect Named
          /\ call[c].kind = "detail" => Cardinality(got) = 1
          /\ call' = [call EXCEPT ![c].got = got, ![c].pc = "store"]
    /\ UNCHANGED <<online, loggedIn, library, stored, changes, current>>

\* readCachedNotes: the whole list replaces it, anything else is merged in.
Merge(c) ==
    /\ call[c].pc = "store"
    /\ call' = [call EXCEPT
          ![c].got = IF call[c].kind = "all" THEN @ ELSE mergeById(stored["notes"], @),
          ![c].pc = "write", ![c].crossed = FALSE]
    /\ UNCHANGED <<online, loggedIn, library, stored, changes, current>>

\* Has c something in hand that it merged into the stored list l?
Merged(c, l) ==
    call[c].pc = "write" /\ call[c].list = l /\ call[c].kind \in {"search", "detail"}

\* A whole list is current if the library has not changed since it was
\* fetched; a merged one if what it was merged into was, and still is there.
NowCurrent(c) ==
    /\ ~ call[c].changed
    /\ call[c].kind \in {"search", "detail"} => ~ call[c].crossed /\ call[c].list \in current

\* writeCachedNotes and writeCachedFolders. A sync goes on with the folders;
\* without a network it ends.
Write(c) ==
    /\ call[c].pc = "write"
    /\ stored' = [stored EXCEPT ![call[c].list] = call[c].got]
    /\ current' = IF NowCurrent(c) THEN current \union {call[c].list}
                  ELSE current \ {call[c].list}
    /\ call' = [d \in Call |->
          IF d # c
          THEN [call[d] EXCEPT !.crossed = @ \/ Merged(d, call[c].list)]
          ELSE IF call[c].kind = "sync" /\ call[c].list = "notes" /\ online
          THEN Asking("sync", "folders")
          ELSE NoCall]
    /\ UNCHANGED <<online, loggedIn, library, changes>>

\* A request fails: the page shows what is stored, the loop stores nothing.
Fail(c) ==
    /\ call[c].pc = "fetch"
    /\ call' = [call EXCEPT ![c] = NoCall]
    /\ UNCHANGED <<online, loggedIn, library, stored, changes, current>>

-----------------------------------------------------------------------------
(* Around it.                                                              *)

\* A note or a folder comes or goes, on the web or on another device.
Change ==
    /\ changes < MaxChanges
    /\ changes' = changes + 1
    /\ \E l \in Lists, i \in Items :
          /\ l = "notes" => i \in Note
          /\ l = "folders" => i \in FolderNo
          /\ library' = [library EXCEPT ![l] = IF i \in @ THEN @ \ {i} ELSE @ \union {i}]
          /\ current' = current \ {l}
          /\ call' = [c \in Call |->
                IF call[c].list # l \/ call[c].pc = "idle" THEN call[c]
                ELSE [call[c] EXCEPT !.changed = TRUE, !.there = @ \ {i},
                                     !.removed = @ \/ i \in library[l]]]
    /\ UNCHANGED <<online, loggedIn, stored>>

Network ==
    /\ online' = ~ online
    /\ UNCHANGED <<loggedIn, library, stored, call, changes, current>>

\* handleLogout: what is stored goes, requests under way stay.
Logout ==
    /\ loggedIn
    /\ loggedIn' = FALSE
    /\ stored' = [l \in Lists |-> {}]
    /\ current' = {}
    /\ call' = [c \in Call |-> [call[c] EXCEPT !.crossed = @ \/ Merged(c, "notes")]]
    /\ UNCHANGED <<online, library, changes>>

SignIn ==
    /\ ~ loggedIn
    /\ loggedIn' = TRUE
    /\ UNCHANGED <<online, library, stored, call, changes, current>>

Next ==
    \/ \E c \in Call :
          \/ syncNotesOfflineCache(c) \/ getAllFolders(c) \/ getAllNotes(c)
          \/ getNoteDetail(c)
          \/ SyncPage(c) \/ Answer(c) \/ Merge(c) \/ Write(c) \/ Fail(c)
    \/ Change \/ Network \/ Logout \/ SignIn

Spec == Init /\ [][Next]_vars

-----------------------------------------------------------------------------
(* A list stored whole since the library last changed is what the server   *)
(* has, whatever searches, details and failures follow (getAllNotes,       *)
(* getNoteDetail, syncNotesOfflineCache).                                  *)
StoredIsLibrary == \A l \in current : stored[l] = library[l]

(* Reading page by page skips nothing that was in the list all the time,   *)
(* also when something comes in between two pages; when something goes, it *)
(* may (syncNotesOfflineCache and syncFoldersOfflineCache).                *)
SyncSkipsNone ==
    \A c \in Call :
       call[c].pc = "write" /\ call[c].kind = "sync" /\ ~ call[c].removed
          => call[c].there \subseteq call[c].got

(* Why: a loop that still fetches has what comes before its page, unless   *)
(* something was removed, and nothing else, unless something changed; one  *)
(* that writes has all of it.                                              *)
Loops(c) == call[c].kind = "sync" \/ call[c].list = "folders"

Seen(c, i) == before(call[c].list, i) < call[c].page * PageSize => i \in call[c].got

PagesBefore ==
    \A c \in Call : call[c].pc = "fetch" /\ Loops(c) =>
      /\ ~ call[c].removed => /\ call[c].there \subseteq library[call[c].list]
                              /\ \A i \in call[c].there : Seen(c, i)
      /\ ~ call[c].changed => /\ call[c].got \subseteq library[call[c].list]
                              /\ \A i \in library[call[c].list] : Seen(c, i)

(* An answer is the list, or some of it; what is about to be written is    *)
(* the list, or was merged into one that is.                               *)
Answers ==
    \A c \in Call :
      /\ call[c].pc = "store" =>
           /\ ~ Loops(c)
           /\ ~ call[c].changed => /\ call[c].got \subseteq library["notes"]
                                   /\ call[c].kind = "all" => call[c].got = library["notes"]
      /\ call[c].pc = "write" =>
           /\ Loops(c) /\ ~ call[c].removed => call[c].there \subseteq call[c].got
           /\ NowCurrent(c) => call[c].got = library[call[c].list]

LibraryInv == TypeOK /\ StoredIsLibrary /\ PagesBefore /\ Answers

(* After a logout nothing of the library is on the device: refuted, for a  *)
(* request that is under way still writes its answer (settings.tsx).       *)
ForgottenAtLogout == ~ loggedIn => \A l \in Lists : stored[l] = {}
=============================================================================
