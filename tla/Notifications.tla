----------------------------- MODULE Notifications -----------------------------
(***************************************************************************)
(* Live updates of one user's browser: the hub of the server               *)
(* (api_go/service/notificationHub.go, controllers/notifications.go), the  *)
(* stream the client keeps open (ui/src/notifications) and the lists of    *)
(* the dashboard, the messages and the club page that a frame of it makes  *)
(* the client fetch again.                                                 *)
(*                                                                         *)
(* A change is committed, then published to the channels that are open;    *)
(* a channel holds so many events and drops the rest. Lists are queries    *)
(* of react-query: a list that is shown is fetched again at once, one that *)
(* is not when it is shown next, and an answer is as old as its reading.   *)
(***************************************************************************)
EXTENDS Integers, Sequences, SequencesExt

CONSTANTS
    Kinds,          \* sets of kinds of events that happen together
    Buffer,         \* what a channel of the hub holds
    MaxPending      \* bound on changes committed and not yet published

Bounds == Buffer \in Nat \ {0} /\ MaxPending \in Nat \ {0}

VARIABLES
    kinds,      \* the kinds that happen
    page,       \* the page that is open
    stream,     \* "connecting", "open" or "waiting" for the reconnect
    channel,    \* the events in the channel of this stream, oldest first
    pending,    \* kinds of changes committed and not yet published
    behind,     \* the lists whose cached answer lacks a change
    fetch,      \* list -> its fetch: "none", "sent", "current" or "early"
    reminder,   \* a reminder to answer an event is shown
    missed      \* history: lists a change of which reached no stream, or that
                \* were shown again while an earlier fetch was under way

vars == <<kinds, page, stream, channel, pending, behind, fetch, reminder, missed>>

-----------------------------------------------------------------------------
(* The lists, where they are shown, and the events.                        *)

\* The badge of the side bar is always there.
SideBar == {"unread"}
DashboardView == SideBar \union {"events", "recent"}
MyMessagesView == SideBar \union {"chats", "messages"}
ClubDetailView == SideBar \union {"clubEvents", "attendance", "pinboard", "files"}

Shows == [dashboard |-> DashboardView, messages |-> MyMessagesView, club |-> ClubDetailView]

refreshChats == {"chats", "messages"}
refreshClubEvents == {"events", "clubEvents", "attendance"}
refreshFiles == {"files"}
refreshPinboard == {"pinboard", "recent"}

\* The lists a frame of this kind has fetched again. A kind the client does not
\* know refreshes everything.
Refreshes(kind) ==
    {"unread"} \union
    CASE kind = "message" -> refreshChats
      [] kind \in {"club_event_created", "club_event_cancelled", "club_event_response",
                   "club_event_reminder"} -> refreshClubEvents
      [] kind = "pinboard_post" -> refreshPinboard
      [] kind = "club_file" -> refreshFiles
      [] OTHER -> refreshChats \union refreshClubEvents \union refreshPinboard \union refreshFiles

\* The lists whose answer the change behind an event alters on the server.
Alters(kind) ==
    CASE kind = "message" -> {"unread", "chats", "messages"}
      [] kind \in {"club_event_created", "club_event_cancelled"} -> {"events", "clubEvents"}
      [] kind = "club_event_response" -> {"clubEvents", "attendance"}
      [] kind = "pinboard_post" -> {"pinboard", "recent"}
      [] kind = "club_file" -> {"files"}
      [] OTHER -> {}

\* A list none of the events alters stands still.
List == UNION {Alters(kind) : kind \in kinds}
Shown == Shows[page] \intersect List

-----------------------------------------------------------------------------

TypeOK ==
    /\ kinds \in Kinds
    /\ page \in DOMAIN Shows
    /\ stream \in {"connecting", "open", "waiting"}
    /\ channel \in Seq(kinds) /\ Len(channel) <= Buffer
    /\ stream # "open" => channel = <<>>
    /\ pending \in Seq(kinds)
    /\ behind \subseteq List /\ missed \subseteq List
    /\ fetch \in [List -> {"none", "sent", "current", "early"}]
    /\ reminder \in BOOLEAN

Init ==
    /\ kinds \in Kinds
    /\ page = "dashboard"
    /\ stream = "connecting" /\ channel = <<>> /\ pending = <<>>
    /\ behind = {} /\ fetch = [l \in List |-> "none"]
    /\ reminder = FALSE /\ missed = {}

\* Mutant: a fetch under way is not restarted.
RefetchOnce(lists) ==
    fetch' = [l \in List |-> IF l \in lists /\ fetch[l] = "none" THEN "sent" ELSE fetch[l]]

\* Lists are fetched, again even if a fetch is under way.
Refetch(lists) ==
    fetch' = [l \in List |-> IF l \in lists THEN "sent" ELSE fetch[l]]

-----------------------------------------------------------------------------
(* The server.                                                             *)

\* A message, an event, an answer, a post or a file of somebody else is stored.
Commit(kind) ==
    /\ Len(pending) < MaxPending
    /\ pending' = Append(pending, kind)
    /\ behind' = behind \union Alters(kind)
    /\ fetch' = [l \in List |-> IF l \in Alters(kind) /\ fetch[l] = "current"
                                THEN "early" ELSE fetch[l]]
    /\ UNCHANGED <<kinds, page, stream, channel, reminder, missed>>

\* Publish: without a channel, or to a full one, the event is lost.
Publish ==
    LET kind == Head(pending) IN
    /\ pending # <<>> /\ pending' = Tail(pending)
    /\ IF stream = "open" /\ Len(channel) < Buffer
       THEN channel' = Append(channel, kind) /\ UNCHANGED missed
       ELSE missed' = missed \union Alters(kind) /\ UNCHANGED channel
    /\ UNCHANGED <<kinds, page, stream, behind, fetch, reminder>>

\* A request for a list is answered from the rows as they are.
Serve(l) ==
    /\ fetch[l] = "sent"
    /\ fetch' = [fetch EXCEPT ![l] = "current"]
    /\ UNCHANGED <<kinds, page, stream, channel, pending, behind, reminder, missed>>

-----------------------------------------------------------------------------
(* The stream.                                                             *)

\* connect: subscribed, and nothing is fetched again.
Connected ==
    /\ stream = "connecting" /\ stream' = "open"
    /\ UNCHANGED <<kinds, page, channel, pending, behind, fetch, reminder, missed>>

\* The request fails, is refused, or the stream ends; what is in the channel is
\* lost.
scheduleReconnect ==
    /\ stream # "waiting" /\ stream' = "waiting"
    /\ missed' = missed \union UNION {Alters(channel[i]) : i \in DOMAIN channel}
    /\ channel' = <<>>
    /\ UNCHANGED <<kinds, page, pending, behind, fetch, reminder>>

Reconnect ==
    /\ stream = "waiting" /\ stream' = "connecting"
    /\ UNCHANGED <<kinds, page, channel, pending, behind, fetch, reminder, missed>>

\* refresh: a frame with a data line. What is shown is fetched again, and catches
\* up with all that was missed; what is not is fetched when it is shown.
refresh ==
    LET lists == Refreshes(Head(channel)) \intersect Shown IN
    /\ channel # <<>> /\ channel' = Tail(channel)
    /\ Refetch(lists)
    /\ missed' = missed \ lists
    /\ reminder' = (reminder \/ Head(channel) = "club_event_reminder")
    /\ UNCHANGED <<kinds, page, stream, pending, behind>>

-----------------------------------------------------------------------------
(* The pages.                                                              *)

FetchArrives(l) ==
    /\ fetch[l] \in {"current", "early"}
    /\ behind' = IF fetch[l] = "current" THEN behind \ {l} ELSE behind \union {l}
    /\ fetch' = [fetch EXCEPT ![l] = "none"]
    /\ UNCHANGED <<kinds, page, stream, channel, pending, reminder, missed>>

\* A request for a list fails, its retries included.
FetchFails(l) ==
    /\ fetch[l] = "sent"
    /\ fetch' = [fetch EXCEPT ![l] = "none"]
    /\ missed' = missed \union {l}
    /\ UNCHANGED <<kinds, page, stream, channel, pending, behind, reminder>>

\* Another page is opened: its lists are fetched, or wait for a fetch that has
\* been under way since they were shown before.
Navigate(p) ==
    LET opened == (Shows[p] \intersect List) \ Shown IN
    /\ p # page /\ page' = p
    /\ fetch' = [l \in List |-> IF l \in opened /\ fetch[l] = "none" THEN "sent" ELSE fetch[l]]
    /\ missed' = {l \in missed : l \notin opened \/ fetch[l] # "none"}
                   \union {l \in opened : fetch[l] # "none"}
    /\ UNCHANGED <<kinds, stream, channel, pending, behind, reminder>>

\* "Answer", "x", or twenty seconds.
dismissEventReminder ==
    /\ reminder /\ reminder' = FALSE
    /\ UNCHANGED <<kinds, page, stream, channel, pending, behind, fetch, missed>>

Next ==
    \/ \E kind \in kinds : Commit(kind)
    \/ Publish
    \/ \E l \in List : Serve(l) \/ FetchArrives(l) \/ FetchFails(l)
    \/ Connected \/ scheduleReconnect \/ Reconnect \/ refresh
    \/ \E p \in DOMAIN Shows : Navigate(p)
    \/ dismissEventReminder

Spec == Init /\ [][Next]_vars

-----------------------------------------------------------------------------
(* Properties.                                                             *)

\* With the stream open and nothing under way, what is on screen shows every
\* change, but for those that reached no stream: the reconnect fetches nothing
\* (NotificationProvider.tsx:87-120), although Publish drops events because
\* "the client re-syncs via REST on reconnect" (notificationHub.go:66-68).
ListsFollow ==
    stream = "open" /\ channel = <<>> /\ pending = <<>> /\ (\A l \in Shown : fetch[l] = "none")
        => behind \intersect Shown \subseteq missed

\* Why: a list on screen that lacks a change is being fetched, or a frame that has it
\* fetched is still to come; and what comes too early for a change has its frame to come.
Announced == (UNION {Alters(pending[i]) : i \in DOMAIN pending})
               \union (UNION {Alters(channel[i]) : i \in DOMAIN channel})

OnItsWay ==
    \A l \in Shown \ (missed \union Announced) :
        /\ fetch[l] # "early"
        /\ l \in behind => fetch[l] \in {"sent", "current"}

StreamInv == TypeOK /\ OnItsWay

\* What Publish relies on.
ResyncsOnReconnect ==
    stream = "open" /\ channel = <<>> /\ pending = <<>> /\ (\A l \in Shown : fetch[l] = "none")
        => behind \intersect Shown = {}
===============================================================================
