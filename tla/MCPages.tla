-------------------------------- MODULE MCPages --------------------------------
(* Small instances for TLC of the machines behind the client's pages. They *)
(* share no state, so a behaviour moves one of them while the others stand *)
(* still: their states add up instead of multiplying. The pages of a club  *)
(* are extended, the other machines share slots: each lays its variables   *)
(* into the first of them.                                                 *)
EXTENDS ClubDesk

CONSTANTS
    Sheet, OneCall, NoNote,
    Title, Name, NoTitle, NoName, NoAuthor, NoWork, NoValues, MaxTwins,
    Folder, Root, New, Gone,
    Typed, Short, NoText, MaxEdits, LastPage, MaxSent,
    Viewed, Saved,
    Kinds, Buffer, MaxPending,
    Chat, NoChat, PageSize, MaxPosted,
    Tab, MaxVersion,
    Session, NoSession, MaxMessages, MaxBusy,
    NoList, MaxAuthors,
    TwoCalls, NoToken, MaxLogins, MaxIssued,
    MaxNotes, MaxFolders,
    ThreeFolders, NoParent,
    NoTag, MaxTags,
    NoClub, NoRequest

\* One kind of event at a time, and the works of the titles.
Alone == {{kind} : kind \in Kinds}
OneWork == [title: Title, composer: Name]
OneRequest == 1
\* In the middle of a conversation.
TwoMessages == {<<"other", "me">>}
\* One author more or less.
NobodyMissing == {}
\* A note that comes in between two others.
MissingNotes == {2}

VARIABLES
    machine,        \* the one that moves
    v1, v2, v3, v4, v5, v6, v7, v8, v9, v10, v11, v12, v13, v14

slots == <<v1, v2, v3, v4, v5, v6, v7, v8, v9, v10, v11, v12, v13, v14>>
vars == <<machine, slots, deskVars>>

Entry == INSTANCE NoteEntry WITH
    authors <- v1, qid <- v2, stored <- v3, isOpen <- v4, form <- v5, pendingWork <- v6,
    conflict <- v7, disambig <- v8, scan <- v9, call <- v10, overlap <- v11,
    Call <- OneCall, Work <- OneWork
Tree == INSTANCE Library WITH
    home <- v1, shown <- v2, parent <- v3, loaded <- v4, fetch <- v5, call <- v6,
    adrift <- v7, Note <- Sheet, Call <- OneCall
Suggest == INSTANCE Autocomplete WITH
    query <- v1, timer <- v2, request <- v3, sent <- v4, data <- v5, loading <- v6,
    error <- v7, isOpen <- v8, Text <- Typed
Search == INSTANCE NoteSearch WITH
    noteSearchText <- v1, resting <- v2, sent <- v3, elementsSearched <- v4,
    loadingRef <- v5, append <- v6, crossed <- v7, Text <- Typed
Viewer == INSTANCE NoteViewer WITH
    online <- v1, id <- v2, pdfUrl <- v3, showPdf <- v4, load <- v5, hasOfflineCopy <- v6,
    assign <- v7, asked <- v8, numbered <- v9, download <- v10, crossed <- v11,
    Note <- Viewed
Stream == INSTANCE Notifications WITH
    kinds <- v1, page <- v2, stream <- v3, channel <- v4, pending <- v5, behind <- v6,
    fetch <- v7, reminder <- v8, missed <- v9, Kinds <- Alone
Chats == INSTANCE Messages WITH
    stored <- v1, lastRead <- v2, frames <- v3, activeChatId <- v4, unread <- v5,
    latest <- v6, fetch <- v7, olderMessages <- v8, older <- v9, marking <- v10,
    post <- v11, crossed <- v12, missed <- v13, MaxMessages <- MaxPosted,
    MaxBusy <- OneRequest, Before <- TwoMessages
Device == INSTANCE OfflineLibrary WITH
    online <- v1, version <- v2, config <- v3, library <- v4, dated <- v5, app <- v6,
    sync <- v7, notice <- v8, read <- v9, newest <- v10, crossed <- v11
Panel == INSTANCE AIChat WITH
    kept <- v1, isOpen <- v2, sessions <- v3, active <- v4, messages <- v5, streaming <- v6,
    toolStatus <- v7, opening <- v8, deleting <- v9, listing <- v10, sending <- v11,
    abortRef <- v12, crossed <- v13

AuthorPage == INSTANCE Authors WITH
    server <- v1, called <- v2, name <- v3, data <- v4, fetch <- v5, error <- v6,
    timer <- v7, selected <- v8, deleting <- v9, changes <- v10, unchanged <- v11,
    Missing <- NobodyMissing, MaxChanges <- OneRequest
Login == INSTANCE MobileSession WITH
    online <- v1, access <- v2, fresh <- v3, refresh <- v4, config <- v5, loginUrl <- v6,
    cached <- v7, screen <- v8, prompt <- v9, call <- v10, logins <- v11, issued <- v12,
    alone <- v13, dropped <- v14, Call <- TwoCalls
Phone == INSTANCE MobileLibrary WITH
    online <- v1, loggedIn <- v2, library <- v3, stored <- v4, call <- v5, changes <- v6,
    current <- v7, Call <- TwoCalls, Missing <- MissingNotes, MaxChanges <- OneRequest
Unfold == INSTANCE MobileTree WITH
    folders <- v1, notes <- v2, expandedIds <- v3,
    Folder <- ThreeFolders, Note <- Sheet

TagRows == INSTANCE MappeTags WITH
    folders <- v1, tags <- v2, made <- v3, row <- v4, bind <- v5, printed <- v6, link <- v7,
    unsure <- v8, Call <- TwoCalls
Founding == INSTANCE ClubFounding WITH
    currentStep <- v1, filled <- v2, post <- v3, latest <- v4, club <- v5, createdClub <- v6,
    clubs <- v7, fetch <- v8, inviteInput <- v9, inviting <- v10, again <- v11, missed <- v12,
    Club <- TwoCalls, Post <- TwoCalls, NoPost <- NoRequest
Letter == INSTANCE InvitationPage WITH
    invitation <- v1, account <- v2, joined <- v3, page <- v4, Page <- TwoCalls

ASSUME Constants ==
    /\ Entry!Constants /\ Tree!Nulls /\ Suggest!Nulls /\ Search!Bounds
    /\ Viewer!Nulls /\ Stream!Bounds /\ Chats!Bounds /\ Device!Bounds /\ Panel!Bounds
    /\ AuthorPage!AuthorBounds /\ Login!SessionBounds /\ Phone!LibraryBounds
    /\ Unfold!TreeNulls /\ TagRows!TagBounds /\ Founding!FoundingNulls

\* A slot the machine leaves free is 0.
SlotsInit ==
    \/ machine = "entry" /\ Entry!Init
       /\ v12 = 0 /\ v13 = 0 /\ v14 = 0
    \/ machine = "tree" /\ Tree!Init
       /\ v8 = 0 /\ v9 = 0 /\ v10 = 0 /\ v11 = 0 /\ v12 = 0 /\ v13 = 0 /\ v14 = 0
    \/ machine = "suggest" /\ Suggest!Init
       /\ v9 = 0 /\ v10 = 0 /\ v11 = 0 /\ v12 = 0 /\ v13 = 0 /\ v14 = 0
    \/ machine = "search" /\ Search!Init
       /\ v8 = 0 /\ v9 = 0 /\ v10 = 0 /\ v11 = 0 /\ v12 = 0 /\ v13 = 0 /\ v14 = 0
    \/ machine = "viewer" /\ Viewer!Init
       /\ v12 = 0 /\ v13 = 0 /\ v14 = 0
    \/ machine = "stream" /\ Stream!Init
       /\ v10 = 0 /\ v11 = 0 /\ v12 = 0 /\ v13 = 0 /\ v14 = 0
    \/ machine = "chats" /\ Chats!Init
       /\ v14 = 0
    \/ machine = "device" /\ Device!Init
       /\ v12 = 0 /\ v13 = 0 /\ v14 = 0
    \/ machine = "panel" /\ Panel!Init
       /\ v14 = 0
    \/ machine = "desk"
       /\ v1 = 0 /\ v2 = 0 /\ v3 = 0 /\ v4 = 0 /\ v5 = 0 /\ v6 = 0 /\ v7 = 0 /\ v8 = 0
       /\ v9 = 0 /\ v10 = 0 /\ v11 = 0 /\ v12 = 0 /\ v13 = 0 /\ v14 = 0
    \/ machine = "authors" /\ AuthorPage!Init
       /\ v12 = 0 /\ v13 = 0 /\ v14 = 0
    \/ machine = "session" /\ Login!Init
    \/ machine = "phone" /\ Phone!Init
       /\ v8 = 0 /\ v9 = 0 /\ v10 = 0 /\ v11 = 0 /\ v12 = 0 /\ v13 = 0 /\ v14 = 0
    \/ machine = "unfold" /\ Unfold!Init
       /\ v4 = 0 /\ v5 = 0 /\ v6 = 0 /\ v7 = 0 /\ v8 = 0 /\ v9 = 0 /\ v10 = 0 /\ v11 = 0 /\ v12 = 0 /\ v13 = 0 /\ v14 = 0
    \/ machine = "tags" /\ TagRows!Init
       /\ v9 = 0 /\ v10 = 0 /\ v11 = 0 /\ v12 = 0 /\ v13 = 0 /\ v14 = 0
    \/ machine = "founding" /\ Founding!Init
       /\ v13 = 0 /\ v14 = 0
    \/ machine = "invitation" /\ Letter!Init
       /\ v5 = 0 /\ v6 = 0 /\ v7 = 0 /\ v8 = 0 /\ v9 = 0 /\ v10 = 0 /\ v11 = 0 /\ v12 = 0 /\ v13 = 0 /\ v14 = 0

\* One initial state of the pages of a club that stand still is enough.
Init ==
    /\ SlotsInit
    /\ DeskInit
    /\ machine # "desk" => rights = Rights["MITGLIED"] /\ tab = CHOOSE t \in Visited : TRUE

Moves(m, free) == machine = m /\ UNCHANGED <<machine, free, deskVars>>

Next ==
    \/ machine = "desk" /\ DeskNext /\ UNCHANGED <<machine, slots>>
    \/ Moves("entry", <<v12, v13, v14>>) /\ Entry!Next
    \/ Moves("tree", <<v8, v9, v10, v11, v12, v13, v14>>) /\ Tree!Next
    \/ Moves("suggest", <<v9, v10, v11, v12, v13, v14>>) /\ Suggest!Next
    \/ Moves("search", <<v8, v9, v10, v11, v12, v13, v14>>) /\ Search!Next
    \/ Moves("viewer", <<v12, v13, v14>>) /\ Viewer!Next
    \/ Moves("stream", <<v10, v11, v12, v13, v14>>) /\ Stream!Next
    \/ Moves("chats", <<v14>>) /\ Chats!Next
    \/ Moves("device", <<v12, v13, v14>>) /\ Device!Next
    \/ Moves("panel", <<v14>>) /\ Panel!Next
    \/ Moves("authors", <<v12, v13, v14>>) /\ AuthorPage!Next
    \/ Moves("session", <<>>) /\ Login!Next
    \/ Moves("phone", <<v8, v9, v10, v11, v12, v13, v14>>) /\ Phone!Next
    \/ Moves("unfold", <<v4, v5, v6, v7, v8, v9, v10, v11, v12, v13, v14>>) /\ Unfold!Next
    \/ Moves("tags", <<v9, v10, v11, v12, v13, v14>>) /\ TagRows!Next
    \/ Moves("founding", <<v13, v14>>) /\ Founding!Next
    \/ Moves("invitation", <<v5, v6, v7, v8, v9, v10, v11, v12, v13, v14>>) /\ Letter!Next

\* A behaviour is followed while a property still says something of it: a form two
\* handlers of which overlapped, a tree of which no element is certain, a panel that
\* went elsewhere while it streamed and a chat that is both crossed and behind stay so.
Followed ==
    /\ machine = "entry" => ~ v11
    /\ machine = "tree" => ~ (Tree!Element \subseteq v7)
    /\ machine = "panel" => ~ v13
    /\ machine = "chats" => ~ v12 \/ v13 = {}

Spec == Init /\ [][Next]_vars

Symmetric == Permutations(Folder)

\* The types of the pages of a club and of the machine in the slots.
TypeOK ==
    /\ DeskTypeOK
    /\ machine = "entry" => Entry!TypeOK
    /\ machine = "tree" => Tree!TypeOK
    /\ machine = "suggest" => Suggest!TypeOK
    /\ machine = "search" => Search!TypeOK
    /\ machine = "viewer" => Viewer!TypeOK
    /\ machine = "stream" => Stream!TypeOK
    /\ machine = "chats" => Chats!TypeOK
    /\ machine = "device" => Device!TypeOK
    /\ machine = "panel" => Panel!TypeOK
    /\ machine = "authors" => AuthorPage!TypeOK
    /\ machine = "session" => Login!TypeOK
    /\ machine = "phone" => Phone!TypeOK
    /\ machine = "unfold" => Unfold!TypeOK
    /\ machine = "tags" => TagRows!TypeOK
    /\ machine = "founding" => Founding!TypeOK
    /\ machine = "invitation" => Letter!TypeOK

\* Entering sheet music makes no second author of a name without asking.
NoSilentTwin == [][machine = "entry" => Entry!AsksBeforeTwin]_vars

\* A tree shows an element where the server, or its answer, has it; the row of
\* a folder shows the tag the server has for it.
ShownWhereItIs ==
    /\ machine = "tags" => TagRows!RowIsBound
    /\ machine = "tree" => Tree!ShownWhereItIs
    /\ machine = "unfold" => Unfold!RowsArePaths

\* With nothing under way a page shows what the server has: after one's own
\* changes (ClubDesk, ClubFounding), and after those the stream tells of
\* (Notifications, Messages); and an invitation reads as accepted when it was.
ShowsServer ==
    /\ machine = "founding" => Founding!ListHasClub
    /\ machine = "invitation" => Letter!AcceptedIsMember
    /\ ShowsOwnChanges
    /\ machine = "stream" => Stream!ListsFollow
    /\ machine = "chats" => Chats!CountsFollow

\* What a search shows is what its text asks for, however the answers cross.
FitsTheText ==
    /\ machine = "suggest" => Suggest!SuggestionsFit
    /\ machine = "search" => Search!PagesInOrder /\ Search!OneSearch
    /\ machine = "authors" => AuthorPage!ReadToTheEnd

\* A page that goes from one note, chat, session, list, club or folder to
\* another shows the one it is on, and acts on it, although answers for the
\* last one still come.
ShowsWhatIsOpen ==
    /\ machine = "viewer" => Viewer!OwnNoteOnly
    /\ machine = "chats" => Chats!OnePiece
    /\ machine = "panel" => Panel!OneSession
    /\ machine = "authors" => AuthorPage!DeletesWhatIsShown
    /\ machine = "founding" => Founding!InvitesToShownClub /\ Founding!OneClub
    /\ machine = "tags" => TagRows!OpensItsFolder

\* What a device keeps is whole: the library, there and the newest; on the
\* phone a list that was read to its end, and the tokens of one login, with
\* which, or without, it opens where there is no network.
LibraryKept ==
    /\ machine = "device" => Device!LibraryKept
    /\ machine = "phone" => Phone!StoredIsLibrary /\ Phone!SyncSkipsNone
    /\ machine = "session" => Login!OnePair /\ Login!OfflineStartOpens
===============================================================================
