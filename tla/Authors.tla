------------------------------- MODULE Authors -------------------------------
(***************************************************************************)
(* The page of the authors (ui/src/pages/AuthorView.tsx) with its dialogs  *)
(* (CreateAuthorDialog.tsx, UpdateAuthorDialog.tsx): a list read page by   *)
(* page while one scrolls, searched by name, whose ticked authors are      *)
(* deleted.                                                                *)
(*                                                                         *)
(* Authors are numbers in the order of the server's list. react-query      *)
(* keeps one list per text; it fetches it again when one comes back to it  *)
(* or to the window, page by page.                                         *)
(***************************************************************************)
EXTENDS Integers, FiniteSets, Sequences

CONSTANTS
    MaxAuthors, Missing,    \* bound: the authors, and those not there at first
    PageSize,       \* constants.CurrentPageSize of the server
    NoList,
    MaxChanges      \* bound: deletions, and other changes of the authors

Author == 1..MaxAuthors
Text == {"", "name"}

\* A page as the server sent it: its authors and whether it has a next one.
OnePage == [list : SUBSET Author, next : BOOLEAN]

AuthorBounds ==
    /\ MaxAuthors \in Nat /\ PageSize \in Nat \ {0} /\ MaxChanges \in Nat
    /\ NoList \notin Seq(OnePage)

VARIABLES
    server,         \* the authors there are
    called,         \* the authors whose name has the text "name"
    name,           \* the text of the search, a parameter of the address
    data,           \* data[t]: the pages of the list under t, or NoList
    fetch,          \* fetch[t]: the request for it
    error,          \* the texts whose list could not be fetched at all
    timer,          \* will the debounce fetch again?
    selected,       \* the boxes of the last list, and which are ticked
    deleting,       \* deletions under way
    changes,        \* how many changes there were
    unchanged       \* history: the texts whose list was fetched since the last change

vars == <<server, called, name, data, fetch, error, timer, selected, deleting,
          changes, unchanged>>
authors == <<server, called, changes, unchanged>>

NoPages == <<>>
NoFetch == [pc |-> "idle", got |-> NoPages, clean |-> FALSE]

TypeOK ==
    /\ server \subseteq Author /\ called \subseteq Author /\ name \in Text
    /\ data \in [Text -> {NoList} \union (Seq(OnePage) \ {NoPages})]
    /\ fetch \in [Text -> [pc : {"idle", "all", "next"}, got : Seq(OnePage), clean : BOOLEAN]]
    /\ error \subseteq Text /\ timer \in BOOLEAN
    /\ deleting \subseteq Author
    /\ \E rows \in SUBSET Author : selected \in [rows -> BOOLEAN]
    /\ changes \in 0..MaxChanges /\ unchanged \subseteq Text

\* The last field is history: nothing has changed since.
Asked == [pc |-> "all", got |-> NoPages, clean |-> TRUE]

Boxes(as) == [a \in as |-> FALSE]

Init ==
    /\ server = Author \ Missing
    /\ called = {a \in Author : a % 2 = 1}
    /\ name = ""
    /\ data = [t \in Text |-> NoList]
    /\ fetch = [t \in Text |-> IF t = "" THEN Asked ELSE NoFetch]
    /\ error = {} /\ timer = FALSE
    /\ selected = Boxes({}) /\ deleting = {}
    /\ changes = 0 /\ unchanged = {}

Listed(pages) == UNION {pages[i].list : i \in DOMAIN pages}

Matches(t) == IF t = "" THEN server ELSE server \intersect called

\* What the table shows.
shown == IF data[name] = NoList THEN {} ELSE Listed(data[name])

isLoading == data[name] = NoList /\ fetch[name].pc # "idle"

hasNextPage == data[name] # NoList /\ data[name][Len(data[name])].next

-----------------------------------------------------------------------------
(* The list.                                                               *)

before(a) == Cardinality({b \in server : b < a})

\* GetAuthors: a page of all, or for a text all that have it, whichever page.
\* The page counts itself among as many as there are.
serve(t, p) ==
    LET found == Matches(t)
    IN  [list |-> IF t # "" THEN found
                  ELSE {a \in found : before(a) \in p * PageSize..(p + 1) * PageSize - 1},
         next |-> (p + 1) * PageSize < Cardinality(found)]

\* The effect on data: nothing of a new list is ticked.
\* What was fetched again and is the same is no new list.
Unticked(t, got) == IF t = name /\ got # data[t] THEN Boxes(Listed(got)) ELSE selected

\* The list under a text is fetched: the first page, or every page there was
\* as long as there is a next one, or one more.
FetchAnswered(t) ==
    /\ fetch[t].pc # "idle"
    /\ LET got == Append(fetch[t].got, serve(t, Len(fetch[t].got)))
           had == IF data[t] = NoList THEN 1 ELSE Len(data[t])
           more == /\ fetch[t].pc = "all"
                   /\ Len(got) < had /\ got[Len(got)].next
       IN  /\ fetch' = [fetch EXCEPT ![t] = IF more THEN [@ EXCEPT !.got = got] ELSE NoFetch]
           /\ data' = IF more THEN data ELSE [data EXCEPT ![t] = got]
           /\ selected' = IF more THEN selected ELSE Unticked(t, got)
           /\ unchanged' = IF more THEN unchanged
                           ELSE IF fetch[t].clean THEN unchanged \union {t} ELSE unchanged \ {t}
    /\ error' = error \ {t}
    /\ UNCHANGED <<server, called, name, timer, deleting, changes>>

\* After its retries a fetch gives up, and what was there stays.
FetchFails(t) ==
    /\ fetch[t].pc # "idle"
    /\ fetch' = [fetch EXCEPT ![t] = NoFetch]
    /\ error' = IF data[t] = NoList THEN error \union {t} ELSE error
    /\ UNCHANGED <<authors, name, data, timer, selected, deleting>>

\* The last row comes into sight; not while something is fetched.
lastElementRef ==
    /\ ~ isLoading /\ hasNextPage /\ fetch[name].pc = "idle"
    /\ fetch' = [fetch EXCEPT ![name] = [pc |-> "next", got |-> data[name],
                                             clean |-> name \in unchanged]]
    /\ UNCHANGED <<authors, name, data, error, timer, selected, deleting>>

\* A letter is typed: the list under the new text is fetched, and again after
\* a second. A list kept from before is shown at once, with nothing ticked.
setSearchParams ==
    /\ name' \in Text \ {name}
    /\ fetch' = IF fetch[name'].pc = "idle" THEN [fetch EXCEPT ![name'] = Asked] ELSE fetch
    /\ selected' = IF data[name'] # NoList THEN Boxes(Listed(data[name'])) ELSE selected
    /\ timer' = TRUE
    /\ UNCHANGED <<authors, data, error, deleting>>

\* refetch takes the place of a fetch under way.
Debounced ==
    /\ timer
    /\ timer' = FALSE
    /\ fetch' = [fetch EXCEPT ![name] = Asked]
    /\ UNCHANGED <<authors, name, data, error, selected, deleting>>

\* One comes back to the window.
Focused ==
    /\ fetch[name].pc = "idle"
    /\ fetch' = [fetch EXCEPT ![name] = Asked]
    /\ UNCHANGED <<authors, name, data, error, timer, selected, deleting>>

-----------------------------------------------------------------------------
(* Ticking and deleting.                                                   *)

ticked == {a \in DOMAIN selected : selected[a]}

Tick(a) ==
    /\ ~ isLoading /\ a \in shown
    /\ selected' = [selected EXCEPT ![a] = ~ @]
    /\ UNCHANGED <<authors, name, data, fetch, error, timer, deleting>>

\* The box of the head: all of them, or none when all are.
TickAll ==
    /\ ~ isLoading
    /\ selected' = [a \in DOMAIN selected |-> ticked # DOMAIN selected]
    /\ UNCHANGED <<authors, name, data, fetch, error, timer, deleting>>

\* onMutate: it leaves the list under the text before the server has it.
Without(pages, S) == [i \in DOMAIN pages |-> [pages[i] EXCEPT !.list = @ \ S]]

\* "Continue" deletes each that is ticked; the list is a new one, and so
\* nothing in it is ticked.
removeAuthorQuery ==
    /\ ~ isLoading /\ ticked # {}
    /\ deleting' = deleting \union ticked
    /\ IF data[name] = NoList THEN UNCHANGED <<data, selected>>
       ELSE /\ data' = [data EXCEPT ![name] = Without(@, ticked)]
            /\ selected' = Boxes(Listed(data'[name]))
    /\ UNCHANGED <<authors, name, fetch, error, timer>>

OutOfDate ==
    /\ unchanged' = {}
    /\ fetch' = [t \in Text |-> [fetch[t] EXCEPT !.clean = FALSE]]

Changed ==
    /\ changes < MaxChanges
    /\ changes' = changes + 1
    /\ OutOfDate

\* The server deletes the author with all notes, or refuses; nobody puts it
\* back into the list, and nobody fetches it.
DeleteAnswered(a) ==
    /\ a \in deleting
    /\ deleting' = deleting \ {a}
    /\ \/ Changed /\ server' = server \ {a} /\ UNCHANGED called
       \/ OutOfDate /\ UNCHANGED <<server, called, changes>>
    /\ UNCHANGED <<name, data, error, timer, selected>>

-----------------------------------------------------------------------------
(* The dialogs.                                                            *)

\* A new author is on the server. What its dialog then does with the answer
\* concerns another list (CommonSlice.authorPage).
createAuthor(a) ==
    /\ a \notin server
    /\ Changed /\ server' = server \union {a} /\ UNCHANGED called
    /\ UNCHANGED <<name, data, error, timer, selected, deleting>>

\* A row is clicked, not on its box: a dialog opens, its form is filled with
\* the author, and the name typed there is sent. The answer is put into
\* another list (this one is not kept under ['authors']).
updateAuthorQuery(a) ==
    /\ ~ isLoading /\ a \in shown \intersect server
    /\ Changed
    /\ called' \in {called \union {a}, called \ {a}}
    /\ UNCHANGED <<server, name, data, error, timer, selected, deleting>>

Next ==
    \/ \E t \in Text : FetchAnswered(t) \/ FetchFails(t)
    \/ lastElementRef \/ setSearchParams \/ Debounced \/ Focused
    \/ \E a \in Author : Tick(a) \/ DeleteAnswered(a) \/ createAuthor(a)
    \/ \E a \in Author : updateAuthorQuery(a)
    \/ TickAll \/ removeAuthorQuery

Spec == Init /\ [][Next]_vars

-----------------------------------------------------------------------------
(* What would be deleted is on the screen. A list that could not be        *)
(* fetched leaves the ticks of the last one behind, and the table empty    *)
(* (AuthorView.tsx:116-129 and 147-168).                                   *)
DeletesWhatIsShown == isLoading \/ name \in error \/ ticked \subseteq shown

(* A list read to its end, of authors that have not changed since, has     *)
(* them all, however it was searched, fetched again and read on            *)
(* (AuthorView.tsx:36-50 and 97-112), but for those one is deleting.       *)
ReadToTheEnd ==
    name \in unchanged /\ ~ isLoading /\ data[name] # NoList /\ ~ hasNextPage
       => Matches(name) \ deleting \subseteq shown

\* Why: unless something changed since, each page of a list, and of one that is being
\* fetched, has what the server still has on it, but for those one is deleting.
Whole(t, pages) ==
    \A i \in DOMAIN pages : /\ serve(t, i - 1).list \ deleting \subseteq pages[i].list
                            /\ pages[i].next = serve(t, i - 1).next

ListsWhole ==
    /\ \A t \in unchanged : data[t] # NoList /\ Whole(t, data[t])
    /\ \A t \in Text : fetch[t].clean => Whole(t, fetch[t].got)

\* And the boxes are those of the list, if there is one; if there is none, it is being
\* fetched or could not be.
BoxesOfList ==
    IF data[name] # NoList THEN DOMAIN selected \subseteq Listed(data[name])
    ELSE fetch[name].pc # "idle" \/ name \in error

AuthorInv == TypeOK /\ ListsWhole /\ BoxesOfList

(* Nobody is listed twice: refuted for a search that finds more than a     *)
(* page, as the second page is the first again (author.go:38-49).          *)
ListedOnce ==
    data[name] = NoList \/
       \A i, j \in DOMAIN data[name] :
          i # j => data[name][i].list \intersect data[name][j].list = {}
===============================================================================
