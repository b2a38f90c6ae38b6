------------------------------- MODULE Messages -------------------------------
(***************************************************************************)
(* The messages page (ui/src/pages/MyMessagesView.tsx) of one user in one  *)
(* club, with the badge of the side bar (ui/src/notifications/             *)
(* useUnreadSummary.ts), over the rows of api_go/service/messageService.go *)
(* and the frames of the stream (Notifications).                           *)
(*                                                                         *)
(* Messages are numbered as they are stored, so a page is known by the     *)
(* numbers of its messages; a chat is read up to a number. A request is    *)
(* answered from the rows at one moment and its answer arrives later; a    *)
(* query that is fetched again drops the answer under way.                 *)
(***************************************************************************)
EXTENDS Integers, Sequences, FiniteSets

CONSTANTS
    Chat, NoChat,
    PageSize,       \* MESSAGE_PAGE_SIZE
    Before,         \* what a chat may hold when the page is opened
    MaxMessages,    \* bound on the messages of all chats together
    MaxBusy         \* bound on the requests under way when the user does something

Bounds ==
    /\ NoChat \notin Chat /\ "chats" \notin Chat /\ Before \subseteq Seq({"me", "other"})
    /\ IsFiniteSet(Chat) /\ \A s \in Before : Len(s) <= MaxMessages
    /\ PageSize \in Nat \ {0} /\ MaxMessages \in Nat /\ MaxBusy \in Nat \ {0}

VARIABLES
    stored,         \* server: chat -> its messages, "me" or "other", oldest first
    lastRead,       \* server: chat -> read up to here, by last_read_at
    frames,         \* a frame of the stream is on its way
    activeChatId,
    unread,         \* cached counts: chat -> unread_count
    latest,         \* cached newest page: chat -> the number of its last message
    fetch,          \* query -> its fetch: [pc, value]
    olderMessages,  \* the messages prepended: numbers with their chat
    older,          \* loadOlder under way: [chat, before], or NoPage; loadingOlder
    marking,        \* chats whose PATCH .../read is under way: [chat, pc]
    post,           \* the message of one's own under way: [pc, chat, opens]
    crossed,        \* history: a chat was left while an older page was loading, or its
                    \* newest page moved on after older ones had been asked for
    missed          \* history: chats left before they were loaded, or a fetch, an answer or
                    \* a frame of which was lost

server == <<stored, lastRead>>
cached == <<unread, latest, fetch>>
pages == <<olderMessages, older>>
history == <<crossed, missed>>
vars == <<server, frames, activeChatId, cached, pages, marking, post, history>>

NoPage == [chat |-> NoChat, before |-> 0]
NoPost == [pc |-> "none", chat |-> NoChat, opens |-> FALSE]
NoFetch == [pc |-> "none", value |-> 0]
Sent == [pc |-> "sent", value |-> 0]

\* The queries: the chats, and one for the messages of each chat. The badge of
\* the side bar (useUnreadSummary) is the sum of the counts and fetched with
\* them; only a message of one's own, which counts for neither, fetches the
\* chats alone.
Query == {"chats"} \union Chat
Quiet == /\ \A q \in Query : fetch[q] = NoFetch
         /\ ~frames /\ marking = {} /\ older = NoPage /\ post = NoPost

Busy == Cardinality({q \in Query : fetch[q] # NoFetch}) + Cardinality(marking)
          + (IF post = NoPost THEN 0 ELSE 1)

Posted == Cardinality(UNION {{c} \X DOMAIN stored[c] : c \in Chat})
Unread(c) == Cardinality({i \in DOMAIN stored[c] : i > lastRead[c] /\ stored[c][i] = "other"})
UnreadByChat == [c \in Chat |-> Unread(c)]
\* The newest page as the client has it.
First(last) == IF last > PageSize THEN last - PageSize + 1 ELSE 1
latestMessages ==
    [i \in 1..(latest[activeChatId] - First(latest[activeChatId]) + 1) |->
        <<activeChatId, First(latest[activeChatId]) + i - 1>>]
messages == IF activeChatId = NoChat THEN <<>> ELSE olderMessages \o latestMessages

TypeOK ==
    /\ \A c \in Chat : /\ stored[c] \in Seq({"me", "other"}) /\ Len(stored[c]) <= MaxMessages
                       /\ lastRead[c] \in 0..Len(stored[c]) /\ latest[c] \in 0..Len(stored[c])
    /\ frames \in BOOLEAN /\ activeChatId \in Chat \union {NoChat}
    /\ unread \in [Chat -> 0..MaxMessages]
    /\ \A i \in DOMAIN olderMessages : olderMessages[i] \in Chat \X (1..MaxMessages)
    /\ older # NoPage => older.chat \in Chat /\ older.before \in 1..MaxMessages
    /\ marking \subseteq [chat: Chat, pc: {"sent", "done"}]
    /\ post.pc \in {"none", "sent", "stored", "opening"} /\ post.opens \in BOOLEAN
    /\ crossed \in BOOLEAN /\ missed \subseteq Chat

\* Opened with what the server has, in no chat yet.
Init ==
    /\ stored \in [Chat -> Before] /\ lastRead = [c \in Chat |-> 0]
    /\ frames = FALSE /\ activeChatId = NoChat
    /\ unread = [c \in Chat |-> Unread(c)]
    /\ latest = [c \in Chat |-> 0]
    /\ fetch = [q \in Query |-> NoFetch]
    /\ olderMessages = <<>> /\ older = NoPage /\ marking = {} /\ post = NoPost
    /\ crossed = FALSE /\ missed = {}

Fetches(queries) == fetch' = [q \in Query |-> IF q \in queries THEN Sent ELSE fetch[q]]

-----------------------------------------------------------------------------
(* The server.                                                             *)

\* The other participant posts, and a frame is on its way.
OtherPosts(c) ==
    /\ Posted < MaxMessages
    /\ stored' = [stored EXCEPT ![c] = Append(@, "other")]
    /\ frames' = TRUE
    /\ UNCHANGED <<lastRead, activeChatId, cached, pages, marking, post, history>>

Serve(q) ==
    /\ fetch[q].pc = "sent"
    /\ fetch' = [fetch EXCEPT ![q] =
          [pc |-> "answered",
           value |-> CASE q = "chats" -> UnreadByChat
                       [] OTHER -> Len(stored[q])]]
    /\ UNCHANGED <<server, frames, activeChatId, unread, latest, pages, marking, post, history>>

\* MarkRead: last_read_at becomes now, which covers all that is stored.
MarkRead(c) ==
    /\ [chat |-> c, pc |-> "sent"] \in marking
    /\ lastRead' = [lastRead EXCEPT ![c] = Len(stored[c])]
    /\ marking' = (marking \ {[chat |-> c, pc |-> "sent"]}) \union {[chat |-> c, pc |-> "done"]}
    /\ UNCHANGED <<stored, frames, activeChatId, cached, pages, post, history>>

\* PostMessage, and CreateChat for a participant one has a chat with already,
\* where the message may be empty.
PostMessage ==
    /\ post.pc = "sent"
    /\ \/ /\ Posted < MaxMessages
          /\ stored' = [stored EXCEPT ![post.chat] = Append(@, "me")]
       \/ post.opens /\ UNCHANGED stored
    /\ post' = [post EXCEPT !.pc = "stored"]
    /\ UNCHANGED <<lastRead, frames, activeChatId, cached, pages, marking, history>>

-----------------------------------------------------------------------------
(* The page.                                                               *)

\* A frame of the stream: refreshChats and the summary. The messages of a chat
\* that is not open are fetched when it is opened.
refresh ==
    /\ frames /\ frames' = FALSE
    /\ Fetches({"chats"} \union ({activeChatId} \intersect Chat))
    /\ UNCHANGED <<server, activeChatId, unread, latest, pages, marking, post, history>>

\* The stream was down.
FrameLost ==
    /\ frames /\ frames' = FALSE
    /\ missed' = Chat
    /\ UNCHANGED <<server, activeChatId, cached, pages, marking, post, crossed>>

\* Mutant: another chat keeps the older messages of the one before.
ResetNothing == UNCHANGED olderMessages

\* "A different chat starts from its newest page again."
Reset == olderMessages' = <<>>

\* Another chat is open: its newest page is fetched, unless it is already, and
\* it is marked as read. `again' is fetched in any case.
setActiveChatId(c, again) ==
    /\ c # activeChatId /\ activeChatId' = c
    /\ Reset
    /\ Fetches(again \union {q \in {c} : fetch[q] = NoFetch})
    /\ marking' = marking \union {[chat |-> c, pc |-> "sent"]}
    /\ crossed' = (crossed \/ older # NoPage)
    /\ missed' = missed \union again
                    \union {d \in {activeChatId, c} \intersect Chat : fetch[d] # NoFetch}

\* A chat is picked from the list.
PickChat(c) ==
    /\ Busy < MaxBusy
    /\ setActiveChatId(c, {})
    /\ UNCHANGED <<server, frames, unread, latest, older, post>>

\* PATCH .../read has been answered: the badge and the chats are fetched again.
ReadMarked(c) ==
    /\ [chat |-> c, pc |-> "done"] \in marking
    /\ marking' = marking \ {[chat |-> c, pc |-> "done"]}
    /\ Fetches({"chats"})
    /\ UNCHANGED <<server, frames, activeChatId, unread, latest, pages, post, history>>

\* It failed, or its answer was lost: nothing is fetched again.
MarkFails(m) ==
    /\ m \in marking /\ marking' = marking \ {m}
    /\ missed' = Chat
    /\ UNCHANGED <<server, frames, activeChatId, cached, pages, post, crossed>>

ChatsArrive ==
    /\ fetch["chats"].pc = "answered"
    /\ unread' = fetch["chats"].value
    /\ fetch' = [fetch EXCEPT !["chats"] = NoFetch]
    /\ UNCHANGED <<server, frames, activeChatId, latest, pages, marking, post, history>>

\* The newest page moves on, the older ones stay as they are.
MessagesArrive(c) ==
    /\ fetch[c].pc = "answered"
    /\ latest' = [latest EXCEPT ![c] = fetch[c].value]
    /\ fetch' = [fetch EXCEPT ![c] = NoFetch]
    /\ IF c = activeChatId
       THEN crossed' = (crossed \/ (fetch[c].value # latest[c]
                                     /\ (olderMessages # <<>> \/ older # NoPage)))
       ELSE UNCHANGED crossed
    /\ UNCHANGED <<server, frames, activeChatId, unread, pages, marking, post, missed>>

\* Mutant: every older page is the one before the newest.
BeforeLatest == First(latest[activeChatId])

\* messages[0]: the oldest message on screen.
Oldest == messages[1][2]

\* "Load older": the page before the oldest message on screen.
loadOlder ==
    /\ Busy < MaxBusy
    /\ messages # <<>> /\ older = NoPage
    /\ older' = [chat |-> activeChatId, before |-> Oldest]
    /\ UNCHANGED <<server, frames, activeChatId, cached, olderMessages, marking, post, history>>

\* The page arrives and is put before what is there.
OlderArrive ==
    LET last == older.before - 1 IN
    /\ older # NoPage /\ older' = NoPage
    /\ olderMessages' = [i \in 1..(IF last = 0 THEN 0 ELSE last - First(last) + 1) |->
                            <<older.chat, First(last) + i - 1>>] \o olderMessages
    /\ UNCHANGED <<server, frames, activeChatId, cached, marking, post, history>>

OlderFails ==
    /\ older # NoPage /\ older' = NoPage
    /\ UNCHANGED <<server, frames, activeChatId, cached, olderMessages, marking, post, history>>

\* Enter, or the button.
onSendMessage ==
    /\ Busy < MaxBusy
    /\ activeChatId # NoChat /\ post = NoPost
    /\ Posted < MaxMessages
    /\ post' = [pc |-> "sent", chat |-> activeChatId, opens |-> FALSE]
    /\ UNCHANGED <<server, frames, activeChatId, cached, pages, marking, history>>

\* "Start chat" with a recipient one has this chat with.
onCreateChat(c) ==
    /\ Busy < MaxBusy /\ post = NoPost
    /\ post' = [pc |-> "sent", chat |-> c, opens |-> TRUE]
    /\ UNCHANGED <<server, frames, activeChatId, cached, pages, marking, history>>

\* Stored: the chat that is open now and the chats are fetched again.
MessagePosted ==
    /\ post.pc = "stored" /\ ~post.opens /\ post' = NoPost
    /\ Fetches({"chats", activeChatId})
    /\ missed' = IF post.chat = activeChatId THEN missed ELSE missed \union {post.chat}
    /\ UNCHANGED <<server, frames, activeChatId, unread, latest, pages, marking, crossed>>

\* createChatMutation: the chats are fetched first, ...
ChatCreated ==
    /\ post.pc = "stored" /\ post.opens /\ post' = [post EXCEPT !.pc = "opening"]
    /\ Fetches({"chats"})
    /\ UNCHANGED <<server, frames, activeChatId, unread, latest, pages, marking, history>>

\* ... then the chat is opened, and the messages of the one that was open until
\* then are fetched again.
ChatOpened ==
    /\ post.pc = "opening" /\ post' = NoPost
    /\ \/ setActiveChatId(post.chat, {activeChatId} \intersect Chat) /\ UNCHANGED older
       \/ /\ post.chat = activeChatId /\ Fetches({activeChatId})
          /\ UNCHANGED <<activeChatId, pages, marking, history>>
    /\ UNCHANGED <<server, frames, unread, latest>>

PostFails ==
    /\ post.pc = "sent" /\ post' = NoPost
    /\ UNCHANGED <<server, frames, activeChatId, cached, pages, marking, history>>

Next ==
    \/ \E c \in Chat : \/ OtherPosts(c) \/ MarkRead(c) \/ ReadMarked(c)
                       \/ PickChat(c) \/ MessagesArrive(c) \/ onCreateChat(c)
    \/ \E m \in marking : MarkFails(m)
    \/ \E q \in Query : Serve(q)
    \/ PostMessage \/ refresh \/ FrameLost \/ ChatsArrive
    \/ loadOlder \/ OlderArrive \/ OlderFails
    \/ onSendMessage \/ MessagePosted \/ ChatCreated \/ ChatOpened \/ PostFails

Spec == Init /\ [][Next]_vars

-----------------------------------------------------------------------------
(* Properties.                                                             *)

\* The history is one piece of the open chat, oldest first, without a gap and
\* without a message twice, unless the chat was left while an older page was
\* loading, which is then shown in the other chat, or the newest page moved on
\* past messages that no older page holds (MyMessagesView.tsx:91-141).
OnePiece ==
    LET onScreen == messages IN
    ~crossed => \A i \in DOMAIN onScreen :
        /\ onScreen[i][1] = activeChatId
        /\ i > 1 => onScreen[i][2] = onScreen[i - 1][2] + 1

\* Why: the older messages are those before the newest page, and the page under way is
\* the one before them. There are none where no chat is open.
OldestShown(c) == First(latest[c]) - Len(olderMessages)

OlderFollow ==
    /\ activeChatId = NoChat => olderMessages = <<>> /\ older = NoPage
    /\ ~crossed /\ activeChatId # NoChat =>
        /\ OldestShown(activeChatId) > 0
        /\ \A i \in DOMAIN olderMessages :
              olderMessages[i] = <<activeChatId, OldestShown(activeChatId) + i - 1>>
        /\ older # NoPage => older = [chat |-> activeChatId, before |-> OldestShown(activeChatId)]

\* The types that rests on.
Number == Nat \ {0}

ChatTypes ==
    /\ stored \in [Chat -> Seq({"me", "other"})] /\ latest \in [Chat -> Nat]
    /\ activeChatId \in Chat \union {NoChat} /\ crossed \in BOOLEAN
    /\ olderMessages \in Seq(Chat \X Number)
    /\ older \in [chat: Chat, before: Number] \union {NoPage}
    /\ fetch = [q \in Query |-> fetch[q]]
    /\ \A c \in Chat : fetch[c].pc = "answered" => fetch[c].value \in Nat
    /\ post \in [pc: {"none", "sent", "stored", "opening"}, chat: Chat \union {NoChat},
                 opens: BOOLEAN]
    /\ post.pc # "none" => post.chat \in Chat

ChatInv == ChatTypes /\ OlderFollow

\* What all the types rest on: an answer on its way was right when it was given.
ChatTypesInv ==
    /\ ChatInv /\ TypeOK
    /\ lastRead \in [Chat -> Nat]
    /\ fetch["chats"].pc = "answered" => fetch["chats"].value \in [Chat -> 0..MaxMessages]
    /\ \A c \in Chat : fetch[c].pc = "answered" => fetch[c].value \in 0..Len(stored[c])

\* With nothing under way the counts are the server's and the open
\* chat shows its last message, unless a frame or an answer was lost.
CountsFollow ==
    Quiet /\ missed = {} =>
        /\ unread = UnreadByChat
        /\ activeChatId # NoChat => latest[activeChatId] = Len(stored[activeChatId])

\* Why: counts that are not the server's are being asked for, or answered by now, or a frame
\* or a chat marked as read will have them asked for; and so it is with the last message of
\* the chat that is open, after which a message of one's own asks as well.
CountsComing ==
    \/ frames \/ \E m \in marking : m.pc = "done"
    \/ fetch["chats"] = Sent
    \/ fetch["chats"].pc = "answered" /\ fetch["chats"].value = UnreadByChat
    \/ fetch["chats"] = NoFetch /\ unread = UnreadByChat

LastComing ==
    \/ frames
    \/ post.pc \in {"stored", "opening"} /\ post.chat = activeChatId
    \/ fetch[activeChatId] = Sent
    \/ /\ fetch[activeChatId].pc = "answered"
       /\ fetch[activeChatId].value = Len(stored[activeChatId])
    \/ fetch[activeChatId] = NoFetch /\ latest[activeChatId] = Len(stored[activeChatId])

AnswersComing ==
    /\ frames \/ marking # {} => Chat # {}
    /\ missed = {} => CountsComing /\ (activeChatId # NoChat => LastComing)
===============================================================================
