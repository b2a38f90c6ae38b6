-------------------------------- MODULE AIChat --------------------------------
(***************************************************************************)
(* The panel of the assistant (ui/src/components/aichat: AIChatLauncher,   *)
(* AIChatPanel, streamChat; ui/src/store/aiChatStore.ts): sessions, and an *)
(* answer that is streamed into the last message of the panel.             *)
(*                                                                         *)
(* The store outlives the panel; the handlers are async functions that go  *)
(* on with the session they were called with. A message is known by its    *)
(* session, its role and whether it ends in an error.                      *)
(***************************************************************************)
EXTENDS Integers, Sequences, SequencesExt, FiniteSets

CONSTANTS
    Session, NoSession,
    MaxMessages,    \* bound on the messages on screen
    MaxBusy         \* bound on the handlers under way

Bounds == NoSession \notin Session /\ MaxMessages \in Nat \ {0, 1} /\ MaxBusy \in Nat \ {0}

VARIABLES
    kept,       \* server: the sessions, each with the number of its messages; -1: none
    isOpen,     \* of the panel
    sessions,   \* the list of the panel
    active,     \* activeSessionId
    messages,
    streaming, toolStatus,
    opening,    \* sessions whose messages are on their way: openSession
    deleting,   \* deleteSession under way: [session, was]: it was the active one
    listing,    \* refreshSessions is under way
    sending,    \* sendMessage under way: [pc, session, own]: own if called by the
                \* panel that is open now
    abortRef,   \* of the panel: the session whose stream it can stop
    crossed     \* history: the panel went to another session while an answer was
                \* streamed or its session created, or an earlier one came back

store == <<isOpen, sessions, active, messages, streaming, toolStatus>>
requests == <<opening, deleting>>
vars == <<kept, store, requests, listing, sending,
                   abortRef, crossed>>

Roles == {"user", "assistant"}
Message(s, role) == [session |-> s, role |-> role, error |-> FALSE]
Streams == {s \in sending : s.pc = "stream"}
Stoppable(m) == m.pc = "stream" /\ m.own /\ m.session = abortRef
Busy == Cardinality(sending) + Cardinality(opening) + Cardinality(deleting)

TypeOK ==
    /\ kept \in [Session -> -1..MaxMessages]
    /\ isOpen \in BOOLEAN /\ streaming \in BOOLEAN /\ toolStatus \in BOOLEAN
    /\ sessions \subseteq Session /\ active \in Session \union {NoSession}
    /\ messages \in Seq([session: Session, role: Roles, error: BOOLEAN])
    /\ opening \subseteq Session /\ deleting \subseteq [session: Session, was: BOOLEAN]
    /\ listing \in BOOLEAN
    /\ sending \subseteq [pc: {"create", "stream", "abort"},
                         session: Session \union {NoSession}, own: BOOLEAN]
    /\ \A m \in sending : m.pc # "create" => m.session \in Session
    /\ abortRef \in Session \union {NoSession}
    /\ crossed \in BOOLEAN

Init ==
    /\ \E old \in SUBSET Session :
          kept = [s \in Session |-> IF s \in old THEN 2 ELSE -1]
    /\ isOpen = FALSE /\ sessions = {} /\ active = NoSession /\ messages = <<>>
    /\ streaming = FALSE /\ toolStatus = FALSE
    /\ opening = {} /\ deleting = {} /\ listing = FALSE /\ sending = {} /\ abortRef = NoSession
    /\ crossed = FALSE

-----------------------------------------------------------------------------
(* The panel.                                                              *)

\* The button opens it and the list is fetched; closing it aborts the stream.
setOpen(open) ==
    /\ isOpen' = open /\ isOpen # open
    /\ listing' = (listing \/ open)
    /\ sending' = IF open THEN sending
                  ELSE {[pc |-> IF Stoppable(m) THEN "abort" ELSE m.pc, session |-> m.session,
                         own |-> FALSE] : m \in sending}
    /\ abortRef' = NoSession
    /\ UNCHANGED <<kept, sessions, active, messages, streaming, toolStatus, requests, crossed>>

SessionsListed ==
    /\ listing /\ listing' = FALSE
    /\ sessions' \in {sessions, {s \in Session : kept[s] >= 0}}
    /\ UNCHANGED <<kept, isOpen, active, messages, streaming, toolStatus, requests, sending,
                   abortRef, crossed>>

\* Mutant: the messages of the last session stay.
KeepsMessages(s, shown) == active' = s /\ messages' = messages \o shown /\ toolStatus' = FALSE

setActiveSession(s, shown) == active' = s /\ messages' = shown /\ toolStatus' = FALSE

\* "New chat".
NewChat ==
    /\ isOpen /\ setActiveSession(NoSession, <<>>)
    /\ crossed' = (crossed \/ sending # {})
    /\ UNCHANGED <<kept, isOpen, sessions, streaming, requests, listing, sending, abortRef>>

openSession(s) ==
    /\ isOpen /\ s \in sessions /\ Busy < MaxBusy
    /\ opening' = opening \union {s}
    /\ UNCHANGED <<kept, store, deleting, listing, sending, abortRef, crossed>>

\* The messages that are stored, each question with its answer; or nothing.
SessionOpened(s) ==
    /\ s \in opening /\ opening' = opening \ {s}
    /\ \/ /\ kept[s] >= 0
          /\ setActiveSession(s, [i \in 1..kept[s] |->
                                    Message(s, IF i % 2 = 1 THEN "user" ELSE "assistant")])
          /\ crossed' = (crossed \/ sending # {})
       \/ UNCHANGED <<active, messages, toolStatus, crossed>>
    /\ UNCHANGED <<kept, isOpen, sessions, streaming, deleting, listing, sending, abortRef>>

\* Confirmed in its dialog.
deleteSession(s) ==
    /\ isOpen /\ s \in sessions /\ Busy < MaxBusy
    /\ deleting' = deleting \union {[session |-> s, was |-> s = active]}
    /\ UNCHANGED <<kept, store, opening, listing, sending, abortRef, crossed>>

\* Answered, refused or not: the panel is emptied if the session was the active
\* one when the button was pressed. Without an answer nothing follows.
SessionDeleted(d) ==
    /\ d \in deleting /\ deleting' = deleting \ {d}
    /\ kept' \in {kept, [kept EXCEPT ![d.session] = -1]}
    /\ \/ /\ listing' = TRUE
          /\ IF d.was
             THEN setActiveSession(NoSession, <<>>) /\ crossed' = (crossed \/ sending # {})
             ELSE UNCHANGED <<active, messages, toolStatus, crossed>>
       \/ UNCHANGED <<listing, active, messages, toolStatus, crossed>>
    /\ UNCHANGED <<isOpen, sessions, streaming, opening, sending, abortRef>>

-----------------------------------------------------------------------------
(* Sending: sendMessage.                                                   *)

\* Question and empty answer are added, and the stream begins.
Ask(s, shown, rest, own) ==
    /\ messages' = shown \o <<Message(s, "user"), Message(s, "assistant")>>
    /\ streaming' = TRUE
    /\ sending' = rest \union {[pc |-> "stream", session |-> s, own |-> own]}
    /\ abortRef' = IF own THEN s ELSE abortRef

\* What follows the stream, however it ended.
Ends(m) ==
    /\ m \in sending /\ sending' = sending \ {m}
    /\ abortRef' = IF m.own THEN NoSession ELSE abortRef
    /\ streaming' = FALSE

\* Nothing is sent while an answer is streamed; without a session one is
\* created first.
sendMessage ==
    /\ isOpen /\ ~streaming /\ Busy < MaxBusy /\ Len(messages) + 2 <= MaxMessages
    /\ IF active = NoSession
       THEN /\ sending' = sending \union {[pc |-> "create", session |-> NoSession, own |-> TRUE]}
            /\ UNCHANGED <<messages, streaming, abortRef>>
       ELSE Ask(active, messages, sending, TRUE)
    /\ crossed' = (crossed \/ sending # {} \/ opening # {})
    /\ UNCHANGED <<kept, isOpen, sessions, active, toolStatus, requests, listing>>

\* POST /sessions has created one, and the panel goes there.
SessionCreated(s) ==
    \E m \in sending :
        /\ m.pc = "create" /\ kept[s] = -1
        /\ s \notin sessions \union opening \union {d.session : d \in deleting}
        /\ kept' = [kept EXCEPT ![s] = 0]
        /\ active' = s /\ toolStatus' = FALSE
        /\ Ask(s, <<>>, sending \ {m}, m.own)
        /\ crossed' = (crossed \/ Cardinality(sending) > 1)
        /\ UNCHANGED <<isOpen, sessions, requests, listing>>

SessionRefused ==
    \E m \in sending :
        /\ m.pc = "create" /\ sending' = sending \ {m}
        /\ UNCHANGED <<kept, store, requests, listing, abortRef, crossed>>

\* appendToLastAssistant and markLastAssistantError: whatever is the last
\* message of the panel by now.
appendToLastAssistant(s, failed) ==
    messages' = IF messages # <<>> /\ Last(messages).role = "assistant"
                THEN Append(Front(messages), [Last(messages) EXCEPT !.session = s,
                                                                    !.error = @ \/ failed])
                ELSE messages

\* A token, or the status of a tool.
Event(m) ==
    /\ m \in Streams
    /\ \/ appendToLastAssistant(m.session, FALSE) /\ UNCHANGED toolStatus
       \/ toolStatus' = TRUE /\ UNCHANGED messages
    /\ UNCHANGED <<kept, isOpen, sessions, active, streaming, requests, listing, sending,
                   abortRef, crossed>>

\* "done": question and answer are stored.
StreamDone(m) ==
    /\ m \in Streams /\ Ends(m)
    /\ kept' = IF kept[m.session] \in 0..(MaxMessages - 2)
               THEN [kept EXCEPT ![m.session] = @ + 2] ELSE kept
    /\ toolStatus' = FALSE /\ listing' = TRUE
    /\ UNCHANGED <<isOpen, sessions, active, messages, requests, crossed>>

\* "error", or a stream that ends without either.
StreamFails(m) ==
    /\ m \in Streams /\ Ends(m)
    /\ appendToLastAssistant(m.session, TRUE)
    /\ toolStatus' = FALSE
    /\ UNCHANGED <<kept, isOpen, sessions, active, requests, listing, crossed>>

\* The stop button.
abort(m) ==
    /\ isOpen /\ m \in Streams /\ Stoppable(m)
    /\ sending' = (sending \ {m}) \union {[m EXCEPT !.pc = "abort"]}
    /\ UNCHANGED <<kept, store, requests, listing, abortRef, crossed>>

Aborted(m) ==
    /\ m \in sending /\ m.pc = "abort" /\ Ends(m)
    /\ UNCHANGED <<kept, isOpen, sessions, active, messages, toolStatus, requests, listing,
                   crossed>>

Next ==
    \/ \E open \in BOOLEAN : setOpen(open)
    \/ SessionsListed \/ NewChat \/ sendMessage \/ SessionRefused
    \/ \E s \in Session : \/ openSession(s) \/ SessionOpened(s)
                          \/ deleteSession(s) \/ SessionCreated(s)
    \/ \E d \in deleting : SessionDeleted(d)
    \/ \E m \in sending : \/ Event(m) \/ StreamDone(m) \/ StreamFails(m) \/ abort(m) \/ Aborted(m)

Spec == Init /\ [][Next]_vars

-----------------------------------------------------------------------------
(* Properties.                                                             *)

\* Every message of the panel, and every token in it, is of the session that is
\* open, unless the panel went elsewhere, or sent again, while an answer was
\* streamed or a session created: the tokens go to the last message whatever
\* its session (AIChatPanel.tsx:92-113). And the send button comes back with
\* the end of the stream.
OneSession ==
    ~crossed =>
        /\ \A i \in DOMAIN messages : messages[i].session = active
        /\ streaming => \E m \in sending : m.pc \in {"stream", "abort"}

\* Why: the panel has one message under way, and is in the session whose answer streams.
OneStream ==
    ~crossed =>
        /\ \A m, n \in sending : m = n
        /\ \A m \in sending : m.pc # "create" => m.session = active

PanelInv == TypeOK /\ OneSession /\ OneStream
===============================================================================
