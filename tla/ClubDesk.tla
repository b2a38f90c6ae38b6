------------------------------- MODULE ClubDesk -------------------------------
(***************************************************************************)
(* The pages of a club: ClubDetailView and the sections it shows in its    *)
(* tabs (ui/src/pages/ClubDetailView.tsx, ui/src/components/club/*,        *)
(* ClubPinboardSection, ClubFilesSection). Every list is a query of        *)
(* TanStack Query, every button a mutation that names, when it succeeded,  *)
(* the queries to fetch again. The cache is external: modelled from how    *)
(* the pages use it (default options: a query is fetched when it mounts,   *)
(* unless a fetch is under way; an invalidation or refetch() restarts the  *)
(* fetch of a query on screen).                                            *)
(*                                                                         *)
(* Of the data only this is kept: which answers lack which of the user's   *)
(* own operations.                                                         *)
(***************************************************************************)
EXTENDS Integers, Sequences, FiniteSets, TLC

CONSTANTS
    Visited,        \* the tabs the user opens
    Slot,           \* mutations under way at once
    MaxOperations   \* bound on the number of operations

VARIABLES
    rights,     \* what the permissions of this member allow (chosen at the start)
    tab,        \* activeSection, or "gone" after leaving for the dashboard
    fetching,   \* the queries a fetch of which is under way
    carries,    \* query -> the operations that fetch is too early for
    behind,     \* query -> the operations the cached answer lacks
    slot,       \* mutations under way
    count,      \* the operations started
    missed      \* history: <<query, operation>>: the query mounted while the operation
                \* was under way, or took over a fetch from before it

deskVars == <<rights, tab, fetching, carries, behind, slot, count, missed>>

-----------------------------------------------------------------------------
(* The queries: what they show. "me" is what one is in the club oneself,   *)
(* "membership" who is a member and in which section, "names" the names of *)
(* sections as they are shown elsewhere.                                   *)

Reads == [
    clubs           |-> {"club"},
    permissions     |-> {"me"},
    members         |-> {"roles", "membership", "names"},
    sections        |-> {"sections", "membership"},
    invitations     |-> {"invitations"},
    events          |-> {"events", "names"},
    availability    |-> {"dates", "absences", "membership"},
    absences        |-> {"absences"},
    overview        |-> {"absences", "membership"},
    polls           |-> {"polls"},
    scores          |-> {"scores", "parts"},
    score           |-> {"parts", "names"},
    scoreSections   |-> {"sections", "membership"},
    program         |-> {"program"},
    stats           |-> {"dates", "membership", "names"},
    posts           |-> {"posts"},
    files           |-> {"files"},
    reminders       |-> {"reminders"}]
Query == DOMAIN Reads

\* The five queries of the page itself are always there.
ClubDetailView == {"clubs", "permissions", "members", "sections", "invitations"}

\* The queries of each section (what nobody on these pages changes, such as the
\* notes to choose from, is left out).
ClubPinboardSection == {"posts"}
ClubEventsManager == {"events", "availability"}
ClubProgramSection == {"events", "program", "scores"}
ClubScoresSection == {"scores", "score", "scoreSections"}
ClubAbsenceSection == {"absences", "overview"}
ClubPollsSection == {"polls"}
ClubStatsSection == {"stats"}
ClubFilesSection == {"files"}
ClubReminderSettings == {"reminders"}

CLUB_SECTIONS == [
    pinnwand        |-> ClubPinboardSection,
    termine         |-> ClubEventsManager,
    programm        |-> ClubProgramSection,
    notenarchiv     |-> ClubScoresSection,
    abwesenheiten   |-> ClubAbsenceSection,
    umfragen        |-> ClubPollsSection,
    statistik       |-> ClubStatsSection,
    nachrichten     |-> {},
    dateien         |-> ClubFilesSection,
    mitglieder      |-> {},
    rollen          |-> {},
    bearbeiten      |-> ClubReminderSettings]
ClubTab == DOMAIN CLUB_SECTIONS

ASSUME DeskBounds == Visited \subseteq ClubTab /\ MaxOperations \in Nat

Shown(t) == IF t = "gone" THEN {} ELSE ClubDetailView \union CLUB_SECTIONS[t]
Mounted == Shown(tab)

-----------------------------------------------------------------------------
(* The mutations: the right that shows their button, what they change on   *)
(* the server, which queries are fetched again one set after the other,    *)
(* and whether the button is disabled meanwhile.                           *)

Mutation(needs, changes, refetches, once) ==
    [needs |-> needs, changes |-> changes, refetches |-> refetches, once |-> once]

\* ClubDetailView, tab "mitglieder" and, for roles, "rollen". The variant on
\* oneself changes what one may do.
roleMutation == Mutation("roles", {"roles"}, <<{"members"}>>, FALSE)
ownRole == Mutation("roles", {"roles", "me"}, <<{"members"}>>, FALSE)
authorizedMutation == Mutation("roles", {"roles"}, <<{"members"}>>, TRUE)
sectionAssignMutation == Mutation("roles", {"membership"}, <<{"members"}, {"sections"}>>, TRUE)
removeMemberMutation == Mutation("roles", {"membership"}, <<{"members"}>>, FALSE)
createSectionMutation == Mutation("roles", {"sections"}, <<{"sections"}>>, FALSE)
renameSectionMutation ==
    Mutation("roles", {"sections", "names"}, <<{"sections"}, {"members"}>>, FALSE)
deleteSectionMutation ==
    Mutation("roles", {"sections", "names", "membership"}, <<{"sections"}, {"members"}>>, FALSE)
inviteMutation == Mutation("invite", {"membership", "invitations"}, <<{"members"}>>, TRUE)
importMutation == Mutation("invite", {"membership", "invitations"}, <<{"members"}>>, TRUE)
revokeInvitationMutation == Mutation("invite", {"invitations"}, <<{"invitations"}>>, FALSE)

\* ClubEventsManager: reinstating is like cancelling, a series goes like one event.
createEvent == Mutation("events", {"events"}, <<{"events"}>>, TRUE)
updateEvent == Mutation("events", {"events", "dates"}, <<{"events"}>>, TRUE)
cancelEvent == Mutation("events", {"events"}, <<{"events"}>>, TRUE)
removeEvent == Mutation("events", {"events"}, <<{"events"}>>, FALSE)

\* ClubProgramSection.
saveProgram == Mutation("events", {"program"}, <<{"program"}>>, TRUE)

\* ClubScoresSection: a part is deleted like it is changed.
createScore == Mutation("scores", {"scores"}, <<{"scores"}>>, TRUE)
updatePart == Mutation("scores", {"parts"}, <<{"score", "scores"}>>, FALSE)
startUpload == Mutation("scores", {"parts"}, <<{"score", "scores"}>>, TRUE)
deleteScore == Mutation("scores", {"scores"}, <<{"scores"}>>, FALSE)

\* ClubAbsenceSection.
changeAbsence == Mutation("member", {"absences"}, <<{"absences"}, {"overview"}>>, TRUE)

\* ClubPollsSection: a poll is deleted like it is closed.
createPoll == Mutation("events", {"polls"}, <<{"polls"}>>, TRUE)
votePoll == Mutation("member", {"polls"}, <<{"polls"}>>, TRUE)
closePoll == Mutation("events", {"polls"}, <<{"polls"}>>, FALSE)

\* ClubPinboardSection, ClubFilesSection.
savePost == Mutation("posts", {"posts"}, <<{"posts"}>>, TRUE)
deletePost == Mutation("posts", {"posts"}, <<{"posts"}>>, FALSE)
uploadFile == Mutation("files", {"files"}, <<{"files"}>>, TRUE)
deleteFile == Mutation("files", {"files"}, <<{"files"}>>, FALSE)

\* ClubSettingsForm, ClubReminderSettings, ClubDangerZone: one leaves the club or deletes it.
saveSettings == Mutation("roles", {"club"}, <<{"clubs"}>>, TRUE)
saveReminders == Mutation("roles", {"reminders"}, <<{"reminders"}>>, TRUE)
leaveClub == Mutation("member", {"club"}, <<{"clubs"}>>, TRUE)

\* The cards and the buttons on them. Whether the form is filled in is left out.
MembersCard == [role |-> roleMutation, ownRole |-> ownRole, authorize |-> authorizedMutation,
                assign |-> sectionAssignMutation, remove |-> removeMemberMutation]
SectionsCard == [addSection |-> createSectionMutation, renameSection |-> renameSectionMutation,
                 deleteSection |-> deleteSectionMutation]
InvitationsCard == [revoke |-> revokeInvitationMutation]
InviteCards == [invite |-> inviteMutation, import |-> importMutation]
RolesCard == [role |-> roleMutation, ownRole |-> ownRole]
EventForm == [create |-> createEvent, update |-> updateEvent]
EventCards == [cancel |-> cancelEvent, removeEvent |-> removeEvent]
ProgramEditor == [program |-> saveProgram]
ScoreList == [score |-> createScore]
ScoreDetail == [part |-> updatePart, upload |-> startUpload, deleteScore |-> deleteScore]
AbsenceCards == [absence |-> changeAbsence]
PollForm == [poll |-> createPoll]
PollCards == [vote |-> votePoll, close |-> closePoll]
PinboardCards == [post |-> savePost, deletePost |-> deletePost]
FileCards == [file |-> uploadFile, deleteFile |-> deleteFile]
ClubSettingsForm == [settings |-> saveSettings]
ReminderCard == [reminders |-> saveReminders]
ClubDangerZone == [leave |-> leaveClub]

\* One card below the other.
Above(f, g) == [x \in DOMAIN f \union DOMAIN g |-> IF x \in DOMAIN f THEN f[x] ELSE g[x]]

Operations == [
    mitglieder |-> Above(Above(MembersCard, SectionsCard), Above(InvitationsCard, InviteCards)),
    rollen |-> RolesCard,
    termine |-> Above(EventForm, EventCards),
    programm |-> ProgramEditor,
    notenarchiv |-> Above(ScoreList, ScoreDetail),
    abwesenheiten |-> AbsenceCards,
    umfragen |-> Above(PollForm, PollCards),
    pinnwand |-> PinboardCards,
    dateien |-> FileCards,
    bearbeiten |-> Above(ClubSettingsForm, Above(ReminderCard, ClubDangerZone)),
    statistik |-> <<>>, nachrichten |-> <<>>]
Operation == UNION {DOMAIN Operations[t] : t \in ClubTab}

\* What each role may do (controllers/clubs.go: buildPermissionsDto).
Rights == [
    LEITER      |-> {"member", "roles", "invite", "events", "scores", "posts", "files"},
    SCHRIFTFUEHRER |-> {"member", "invite", "posts"},
    MITGLIED    |-> {"member"}]

-----------------------------------------------------------------------------

Idle == [pc |-> "idle"]

DeskTypeOK ==
    LET query == Query
        operation == Operation
        Lacking == [query -> SUBSET operation] IN
    /\ rights \in {Rights[role] : role \in DOMAIN Rights}
    /\ tab \in ClubTab \union {"gone"}
    /\ fetching \subseteq query
    /\ carries \in Lacking /\ behind \in Lacking
    /\ \A s \in Slot : slot[s].pc \in {"idle", "sent", "answered", "refetching"}
    /\ count \in 0..MaxOperations
    /\ missed \subseteq query \X operation

None == [q \in Query |-> {}]

\* The page is open and everything on it is loaded.
DeskInit ==
    /\ \E role \in DOMAIN Rights : rights = Rights[role]
    /\ tab \in Visited
    /\ fetching = {} /\ carries = None /\ behind = None
    /\ slot = [s \in Slot |-> Idle]
    /\ count = 0 /\ missed = {}

-----------------------------------------------------------------------------
(* Fetching.                                                               *)

\* Mutant: a refetch does not restart a fetch under way.
Dedupe(queries) ==
    /\ fetching' = fetching \union (queries \intersect Mounted)
    /\ UNCHANGED carries

\* invalidateQueries and refetch(): what is on screen is fetched anew, a fetch
\* under way is dropped.
Refetch(queries) ==
    LET fetched == queries \intersect Mounted IN
    /\ fetching' = fetching \union fetched
    /\ carries' = [q \in DOMAIN carries |-> IF q \in fetched THEN {} ELSE carries[q]]

FetchArrives(q) ==
    /\ q \in fetching /\ fetching' = fetching \ {q}
    /\ behind' = [behind EXCEPT ![q] = carries[q]] /\ carries' = [carries EXCEPT ![q] = {}]
    /\ UNCHANGED <<rights, tab, slot, count, missed>>

UnderWay == {slot[s].op : s \in {x \in Slot : slot[x].pc # "idle"}}

\* Clicking a section; what mounts is fetched, unless that is under way.
setSearchParams(t) ==
    LET mounting == Shown(t) \ Mounted IN
    /\ tab \in ClubTab \ {t}
    /\ tab' = t
    /\ fetching' = fetching \union mounting
    /\ missed' = missed \union UNION {{q} \X (carries[q] \union UnderWay) : q \in mounting}
    /\ UNCHANGED <<rights, carries, behind, slot, count>>

-----------------------------------------------------------------------------
(* Operations.                                                             *)

isPending(op) == \E s \in Slot : slot[s].pc # "idle" /\ slot[s].op = op

mutate(s) ==
    LET offered == Operations[tab] IN
    /\ slot[s].pc = "idle" /\ count < MaxOperations /\ tab # "gone"
    /\ \E op \in DOMAIN offered :
          /\ offered[op].needs \in rights
          /\ offered[op].once => ~isPending(op)
          /\ slot' = [slot EXCEPT ![s] = [pc |-> "sent", op |-> op, m |-> offered[op]]]
    /\ count' = count + 1
    /\ UNCHANGED <<rights, tab, fetching, carries, behind, missed>>

\* The server changes the data: answers from before lack the change. A fetch
\* under way was answered before it, or will be after it.
Commit(s) ==
    LET op == slot[s].op
        reads == Reads
        lacking == {q \in DOMAIN reads : reads[q] \intersect slot[s].m.changes # {}}
        answered == {q \in DOMAIN carries : carries[q] # {}} IN
    /\ slot[s].pc = "sent"
    /\ slot' = [slot EXCEPT ![s].pc = "answered"]
    /\ behind' = [q \in DOMAIN behind |-> behind[q] \union {o \in {op} : q \in lacking}]
    /\ \E early \in SUBSET (lacking \intersect fetching) :
          /\ lacking \intersect answered \subseteq early
          /\ carries' = [q \in DOMAIN carries |-> carries[q] \union {o \in {op} : q \in early}]
    /\ UNCHANGED <<rights, tab, fetching, count, missed>>

\* No section but the uploads says anything about an error.
MutationFails(s) ==
    /\ slot[s].pc = "sent"
    /\ slot' = [slot EXCEPT ![s] = Idle]
    /\ UNCHANGED <<rights, tab, fetching, carries, behind, count, missed>>

onSuccess(s) ==
    /\ slot[s].pc = "answered"
    /\ Refetch(Head(slot[s].m.refetches))
    /\ slot' = [slot EXCEPT ![s].pc = "refetching"]
    /\ UNCHANGED <<rights, tab, behind, count, missed>>

\* Each set is awaited before the next; then the mutation is no longer pending.
\* Leaving or deleting the club ends at the dashboard.
Settled(s) ==
    LET rest == Tail(slot[s].m.refetches) IN
    /\ slot[s].pc = "refetching"
    /\ Head(slot[s].m.refetches) \intersect fetching = {}
    /\ IF rest # <<>>
       THEN /\ Refetch(Head(rest))
            /\ slot' = [slot EXCEPT ![s].m.refetches = rest]
            /\ UNCHANGED tab
       ELSE /\ slot' = [slot EXCEPT ![s] = Idle]
            /\ tab' = IF slot[s].op = "leave" THEN "gone" ELSE tab
            /\ UNCHANGED <<fetching, carries>>
    /\ UNCHANGED <<rights, behind, count, missed>>

\* The dashboard is not part of this module.
Left == tab = "gone" /\ fetching = {} /\ UNCHANGED deskVars

-----------------------------------------------------------------------------

DeskNext ==
    \/ \E q \in fetching : FetchArrives(q)
    \/ \E t \in Visited : setSearchParams(t)
    \/ \E s \in Slot : \/ mutate(s) \/ Commit(s) \/ MutationFails(s) \/ onSuccess(s) \/ Settled(s)
    \/ Left

DeskSpec == DeskInit /\ [][DeskNext]_deskVars

-----------------------------------------------------------------------------
(* Properties.                                                             *)

\* What is not fetched again: the pending invitations after inviting, the own
\* permissions after changing the own role, the number of members of a section
\* after a removal, and who is expected at an event after it was moved.
Unrefreshed == {
    <<"invitations", "invite">>, <<"invitations", "import">>,
    <<"permissions", "ownRole">>,
    <<"sections", "remove">>, <<"sections", "invite">>, <<"sections", "import">>,
    <<"availability", "update">>}

\* With nothing under way every list on screen shows all the user has changed,
\* whatever was clicked and fetched meanwhile, but for what no section
\* fetches again.
ShowsOwnChanges ==
    fetching \intersect Mounted = {} /\ (\A s \in Slot : slot[s].pc = "idle")
        => \A q \in Mounted : \A op \in behind[q] : <<q, op>> \in Unrefreshed \union missed

\* Why: what an answer lacks, or will lack, a mutation under way will still have fetched
\* again, unless it is excused or a fetch under way brings it; so it will be with what a
\* mutation that was sent changes.
Excused == Unrefreshed \union missed

Refetched(s, q) ==
    \E i \in DOMAIN slot[s].m.refetches :
        /\ q \in slot[s].m.refetches[i]
        /\ slot[s].pc = "answered" \/ (slot[s].pc = "refetching" /\ i > 1)

Awaited(q, op) ==
    \/ <<q, op>> \in Excused
    \/ \E s \in Slot : slot[s].pc # "idle" /\ slot[s].op = op /\ Refetched(s, q)

Awaits ==
    \A q \in Mounted :
        /\ \A op \in carries[q] : Awaited(q, op)
        /\ \A op \in behind[q] : Awaited(q, op) \/ (q \in fetching /\ op \notin carries[q])
        /\ \A s \in Slot : slot[s].pc = "sent" /\ Reads[q] \intersect slot[s].m.changes # {} =>
              \/ <<q, slot[s].op>> \in Excused
              \/ \E i \in DOMAIN slot[s].m.refetches : q \in slot[s].m.refetches[i]

\* A slot has nothing or one of the mutations, which fetches something again.
Mutations == [needs : Rights.LEITER, changes : SUBSET UNION {Reads[q] : q \in Query},
              refetches : Seq(SUBSET Query) \ {<<>>}, once : BOOLEAN]

SlotsTyped ==
    slot \in [Slot -> {Idle} \union
                 [pc : {"sent", "answered", "refetching"}, op : Operation, m : Mutations]]

DeskInv == DeskTypeOK /\ SlotsTyped /\ Awaits
=============================================================================
