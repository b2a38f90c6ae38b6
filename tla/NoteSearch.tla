------------------------------ MODULE NoteSearch ------------------------------
(***************************************************************************)
(* Searching sheet music: ElementSearchBar and the paged list of           *)
(* SearchElementView (ui/src). The other search fields of the client work  *)
(* like the first (AuthorSearchBar, ParentFolderSearchBar,                 *)
(* NoteAuthorCreateSearchBar, the folder search and the number lookup of   *)
(* InventoryView): a text that has rested is looked up, and every answer   *)
(* is shown when it comes. Rolling to the end of the list asks for the     *)
(* next page, which is appended to the list as it was then.                *)
(***************************************************************************)
EXTENDS Integers, Sequences, FiniteSets

CONSTANTS
    Text,           \* search texts; the empty one is the first
    NoText,
    LastPage,       \* of every search
    MaxSent         \* bound on look-ups under way

Bounds == NoText \notin Text /\ LastPage \in Nat /\ MaxSent \in Nat \ {0}

VARIABLES
    noteSearchText,
    resting,    \* the text changed and has not rested yet
    sent,       \* sequence of texts looked up and not answered
    elementsSearched,   \* the pages in the list: sequence of [text, page]
    loadingRef,
    append,     \* loadNotes of the view: [text, page, base], or NoAppend
    crossed     \* history: answers crossed, or the end of a list was reached under
                \* a text that was not yet looked up, or while a search was answered

vars == <<noteSearchText, resting, sent, elementsSearched, loadingRef, append, crossed>>

NoAppend == [text |-> NoText, page |-> 0, base |-> <<>>]
Listed == [text: Text, page: 0..LastPage]

TypeOK ==
    /\ noteSearchText \in Text /\ resting \in BOOLEAN
    /\ sent \in Seq(Text) /\ Len(sent) <= MaxSent
    /\ elementsSearched \in Seq(Listed)
    /\ append \in {NoAppend} \union [text: Text, page: 0..LastPage, base: Seq(Listed)]
    /\ loadingRef = (append # NoAppend)
    /\ crossed \in BOOLEAN

\* The first page is asked for when the page is opened, whatever the text.
Init ==
    /\ noteSearchText \in Text /\ resting = FALSE
    /\ \E all \in Text : sent = <<all>> /\ crossed = (all # noteSearchText)
    /\ elementsSearched = <<>>
    /\ loadingRef = FALSE /\ append = NoAppend

setNotesSearchText(t) ==
    /\ t # noteSearchText
    /\ noteSearchText' = t /\ resting' = TRUE
    /\ UNCHANGED <<sent, elementsSearched, loadingRef, append, crossed>>

useDebounce ==
    /\ resting /\ Len(sent) < MaxSent
    /\ resting' = FALSE
    /\ sent' = Append(sent, noteSearchText)
    /\ crossed' = (crossed /\ sent # <<>>)
    /\ UNCHANGED <<noteSearchText, elementsSearched, loadingRef, append>>

\* No answer is compared with what is searched for by now.
SearchAnswered(i) ==
    /\ i \in DOMAIN sent
    /\ sent' = SubSeq(sent, 1, i - 1) \o SubSeq(sent, i + 1, Len(sent))
    /\ elementsSearched' = <<[text |-> sent[i], page |-> 0]>>
    /\ crossed' = (crossed \/ i > 1 \/ append # NoAppend)
    /\ UNCHANGED <<noteSearchText, resting, loadingRef, append>>

\* An error goes to the console.
SearchFails(i) ==
    /\ i \in DOMAIN sent
    /\ sent' = SubSeq(sent, 1, i - 1) \o SubSeq(sent, i + 1, Len(sent))
    /\ crossed' = TRUE
    /\ UNCHANGED <<noteSearchText, resting, elementsSearched, loadingRef, append>>

hasNextPage == elementsSearched # <<>> /\ elementsSearched[Len(elementsSearched)].page < LastPage

\* The Waypoint at the end of the list. loadingRef guards against a second
\* load; the page after the last one is asked for with the text there is now.
loadNotes ==
    /\ hasNextPage /\ ~loadingRef
    /\ loadingRef' = TRUE
    /\ append' = [text |-> noteSearchText, base |-> elementsSearched,
                  page |-> elementsSearched[Len(elementsSearched)].page + 1]
    /\ crossed' = (crossed \/ resting \/ sent # <<>>)
    /\ UNCHANGED <<noteSearchText, resting, sent, elementsSearched>>

\* Mutant: the page is appended to the list as it is by now.
AppendsToList ==
    /\ append # NoAppend
    /\ elementsSearched' = Append(elementsSearched, [text |-> append.text, page |-> append.page])
    /\ append' = NoAppend /\ loadingRef' = FALSE
    /\ UNCHANGED <<noteSearchText, resting, sent, crossed>>

PageAnswered ==
    /\ append # NoAppend
    /\ elementsSearched' = Append(append.base, [text |-> append.text, page |-> append.page])
    /\ append' = NoAppend /\ loadingRef' = FALSE
    /\ UNCHANGED <<noteSearchText, resting, sent, crossed>>

PageFails ==
    /\ append # NoAppend /\ append' = NoAppend /\ loadingRef' = FALSE
    /\ UNCHANGED <<noteSearchText, resting, sent, elementsSearched, crossed>>

Next ==
    \/ \E t \in Text : setNotesSearchText(t)
    \/ useDebounce
    \/ \E i \in 1..MaxSent : SearchAnswered(i) \/ SearchFails(i)
    \/ loadNotes \/ PageAnswered \/ PageFails

Spec == Init /\ [][Next]_vars

-----------------------------------------------------------------------------
(* Properties.                                                             *)

\* The list is always the first pages in order, none twice and none missing,
\* whatever is typed, answered and asked for in between.
PagesInOrder ==
    \A i \in DOMAIN elementsSearched : elementsSearched[i].page = i - 1

\* Once the text has rested and everything is answered the list is one search's,
\* the one for the text, unless answers crossed, one failed, or the end of the
\* list was reached between two searches (SearchElementView.tsx:30-58).
OneSearch ==
    ~crossed /\ ~resting /\ sent = <<>>
        => \A i \in DOMAIN elementsSearched : elementsSearched[i].text = noteSearchText

\* Why: a page that is under way follows the list it will be appended to. Unless
\* something crossed, and once the text has rested, what is under way was asked for with
\* that text, the look-up last sent among it.
NextPage ==
    append # NoAppend =>
        /\ append.page = Len(append.base)
        /\ \A i \in DOMAIN append.base : append.base[i].page = i - 1

Uncrossed ==
    ~ crossed /\ ~ resting =>
        IF sent = <<>>
        THEN append # NoAppend =>
                /\ append.text = noteSearchText
                /\ \A i \in DOMAIN append.base : append.base[i].text = noteSearchText
        ELSE sent[Len(sent)] = noteSearchText

SearchInv == TypeOK /\ PagesInOrder /\ OneSearch /\ NextPage /\ Uncrossed
===============================================================================
