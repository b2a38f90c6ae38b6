# SmartOrganizr: a verification development

SmartOrganizr keeps the sheet music of musicians and music clubs in order: a
Go backend (`src/api_go`: Fiber handlers, services over sqlc queries, MariaDB,
Keycloak), a React client that also works offline (`src/ui`), an Expo app
(`src/smartorganizr-mobile`) and import scripts (`src/converting`). This
directory holds TLA+ models of its stateful parts, the TLC runs that check
them and the TLAPS proofs about them.

## 1. Inventory of the system

Two decisions make it hard. *The server* runs a handler as a sequence of
separately committed SQL statements: a service holds a `*db.Queries` and no
transaction, any number of handlers run at once (one goroutine per request),
and only keys, foreign keys and the `WHERE` clauses of single statements
arbitrate between them. *The clients* never wait: a handler is an async
function that goes on, after every await, with the page as it was when it
started, while the page has gone somewhere else; answers come in any order, or
never; and what is kept in IndexedDB or on the phone is shared by all tabs and
outlives them.

| Part | State | Operations | What makes it correct | Module |
|---|---|---|---|---|
| Inventory, `inventoryService.go` | `elements.inventory_no`, sweeps, sightings | number, sweep, sight, complete, cancel, apply moves | numbers unique, gapless, final; completed sweeps are history; nothing sighted is called missing | `Inventory` |
| Mappe tags, `inventoryService.go`, `InventoryView.tsx`, `QrCode.ts` | `mappe_tag`, the folder's row | bind, show, print, scan | a code opens its folder's sweep or none; a row shows the tag that is bound | `MappeTags` |
| Concert programs, `concertService.go` | `concert`, `note_in_concert` | create, replace, delete | the stored program is one somebody sent | `ConcertProgram` |
| Membership, sections, invitations, `club*Service.go` | `club_participant`, `club_section`, `club_invitation` | every change of a member, invite, accept, complete | the club has a LEITER; an invitation lets in once | `ClubMembers` |
| Polls, `clubPollService.go` | poll, options, votes | create, vote, close, delete | the ballot cast last is stored; one choice where only one is allowed | `Polls` |
| Reminders, `reminderService.go` | reminder log | job, manager | one automatic reminder each, the cooldown, only the open ones | `Reminders` |
| Offline sweeps, `pendingSweeps.ts`, `pendingSweepSync.ts` | IndexedDB queue | record, finish, cancel, push | a finished sweep is delivered before it leaves the device; a push ends | `OfflineSweeps`, `SweepDelivery` |
| Inventory page, `InventoryView.tsx` | phase, sighted list | start, scan, confirm, finish, cancel, report | the list is what was recorded | `InventoryScreen` |
| Offline library, `offlineSync.ts`, `syncStore.ts`, `client.ts` | IndexedDB copy and its date | start, sync, fallback reads | there when it is needed, and the newest | `OfflineLibrary` |
| Offline sheet music, `offlineSheetMusic.ts` | setlists, shared PDFs | save, save again, refresh, remove | a saved setlist can be played | `SheetMusic` |
| Annotations, `annotationStore.ts`, `useAnnotations.ts` | cache, queue, server's page | draw, undo, load, save, flush | what is drawn is stored or waits | `Annotations` |
| Player, `PlayerView.tsx`, `playerNav.ts` | position, spread, PDFs | turn, jump, leave, come back | no page skipped; back undoes next | `PlayMode` |
| Folder tree, `FolderView.tsx`, `Tree.tsx` | cached tree | open, drag, rename, delete, upload | an element is shown where the server has it | `Library` |
| Entering sheet music, `CreateFolderOrNote.tsx` | form, picks, dialogs | type, pick, OCR, AI, save | no second author unasked | `NoteEntry` |
| Suggestions and searches, `useDebouncedAutocomplete.ts`, `SearchElementView.tsx` | text, timer, answers | type, answer, scroll | what is shown fits the text | `Autocomplete`, `NoteSearch` |
| Authors, `AuthorView.tsx` | pages of a list, ticks | search, scroll, tick, delete, create, change | what is deleted is on the screen; a list read to its end is whole | `Authors` |
| Page of a note, `NoteDetailView.tsx` | PDF, copy, number | navigate, load, save, number | own PDF, own number | `NoteViewer` |
| Notifications, `notificationHub.go`, `NotificationProvider.tsx` | channel, stream, lists | publish, stream, reconnect, refetch | lists follow | `Notifications` |
| Messages, `messageService.go`, `MyMessagesView.tsx` | chats, pages, read marks | open, older, post, read | one piece of one chat; counts follow | `Messages` |
| Club pages, `ClubDetailView.tsx`, `components/club` | queries per tab | every mutation of every tab | lists show one's own changes | `ClubDesk` |
| Founding a club, `ClubView.tsx`, `SideBar.tsx` | form, created club, list | fill, submit, invite | the list has the club; one club per form | `ClubFounding` |
| Invitation page, `InviteAcceptView.tsx` | the invitation as fetched | accept, complete, sign in | accepted means member | `InvitationPage` |
| Assistant, `AIChatPanel.tsx`, `aiChatStore.ts` | sessions, messages, stream | open, send, stop, delete | messages of the open session only | `AIChat` |
| Mobile session, `auth.ts`, `app/index.tsx` | two tokens, config, screen | start, log in, refresh, request, log out | one login's tokens; an offline start opens | `MobileSession` |
| Mobile library, `ApiClient.ts`, `tree.tsx` | stored lists | list, detail, sync, tree | stored lists are whole; rows are what is unfolded | `MobileLibrary`, `MobileTree` |
| Others: events, absences, event programs, scores, pinboard, files, statistics, calendar, Wikidata, AI service, mail, Keycloak, PDF | rows | mostly one statement each | — | not modelled, section 9 |

How the parts interact. Handlers of different services meet only in the
database: deleting a note (`noteService.go:279`) reaches concert programs,
sightings and numbers; deleting a folder cascades to its notes, sweeps and
tags; deleting a section clears the section of members. Services call each
other's *checks* (`clubMemberService.GetRoleInClub` before nearly every club
operation), never inside a transaction. Side effects that leave the database
are mail, Keycloak and the in-process notification hub, and each may fail after
the row was written. A page talks to the server by requests and to other pages
by the query cache, IndexedDB and the frames of the stream.

What is hard is the same everywhere: (1) a decision made on what an earlier
statement, or an earlier render, has read; (2) a handler that stops between two
of its steps; (3) a client that cannot know whether a call whose answer was
lost was carried out; (4) several tabs over one IndexedDB; (5) answers that
cross, or come to a page that shows something else by now; (6) a periodic job
beside the people who do the same by hand. `PROJECT.json` lists forty places
with their lines, section 8 some more.

## 2. Modelling conventions

* An action is one SQL statement, one IndexedDB transaction, or what a client's
  handler does between two awaits. Everything in between may be interleaved.
* A request is a slot with a program counter and its locals (`req[r]`,
  `call[c]`, `slot[s]`). Two slots give every pairwise race, and a handler that
  ends frees its slot. On the server's side of a client module a request is
  served in one step, where the modules of the server do not say more.
* Reads before a request's first write that no later statement depends on are
  merged with its arrival, and a request refused there is left out.
* A statement may fail, or the server die, between any two; a client's call is
  answered, refused, or carried out without its answer arriving; a tab may be
  reloaded, an app closed.
* Ids drawn as uuids come from a finite set and are never used twice. Names,
  texts and pictures are model values, or left out.
* Keys and foreign keys of the migrations are part of the statement they
  constrain: UNIQUE makes it fail, `INSERT IGNORE` makes it do nothing, ON
  DELETE CASCADE and SET NULL are part of the deletion.
* TanStack Query, IndexedDB, the browser and the phone's network are external,
  modelled from how the code uses them with the options it sets.
* History variables (marked so where they are declared) record what the
  properties need to speak about the past; no action reads one. Many properties
  name an exception by such a variable (`crossed`, `overlapped`, `halved`,
  `spoilt`, `disturbed`, `missed`, `again`, `unsure`): it is the race the code does not prevent, and the property says
  that it is the only one.
* An operator marked "Mutant" is a plausible slip in the code, used to show
  that the property it belongs to can fail.

## 3. Modules

### Server

**Inventory.** `AssignInventoryNo` is `FindNote`, then up to `MaxAttempts`
rounds of `ReadMax`, then `SetNumber` (stored), `SetFails` (any error of the
UPDATE, the duplicate key among them) or `SetMisses` (no row matched), the last
followed by `ReadBack`. `AddSighting` is the insert and then the same. A
completion is four statements (`MarkCompleted`, `ListSightings`,
`ReportMissing`, `HintLastSeen`), a cancellation a check and a conditional
DELETE, `ApplyMoves` one UPDATE per note. The clock has seconds: `completed_at`
of two sweeps may be equal, and then the hint may name either.

**ConcertProgram.** A save is `UpdateFields`, `ClearProgram` and one `FillNext`
per note; a note deleted meanwhile is a foreign key error and a place another
save has filled a duplicate key, either of which ends the loop.

**ClubMembers.** One action type per statement, shared by the requests that
execute it: `RequireNotLastLeiter` is the count that demotions, removals and
leaving have in common. Invitations are followed from the mail to
`MarkAccepted`, on both ways in: a known user accepts, an unknown one gets an
account, a row and the membership, each of which may fail.

**Polls, Reminders.** One poll, one event. `Open` and `Recipient` in `Reminders`
are `ListOpenResponseMembers` and `SelectReminderRecipients`; the clock counts
hours and waits for runs to end, a run taking seconds.

### Client

**OfflineSweeps** has a screen and at most one push in each tab over one store.
A push copies the completed entries, and for each opens a session, posts its
sightings and the completion and then deletes the entry. **SweepDelivery** is
what the queue promises, and `Delivery` in `OfflineSweeps` the refinement.
**InventoryScreen** is the page above it, online and offline.

**OfflineLibrary**, **SheetMusic**, **Annotations** keep data on the device;
their actions are single IndexedDB transactions and requests. **PlayMode** has
the functions of `playerNav.ts` as operators over the number of pages of every
piece, 0 to `MaxPages`, and PDFs that come late or not at all.

**Library** is the folder tree as the cached answer of one query, patched by
five handlers; **NoteEntry** the largest form, with every look-up, dialog and
conflict a step; **Authors**, **NoteSearch**, **Autocomplete**, **NoteViewer**,
**AIChat**, **Messages**, **Notifications**, **ClubDesk** are the pages whose
answers may cross. `ClubDesk` keeps one thing of the data: which of one's own
operations an answer lacks; its tables name, for every tab and every mutation,
the queries shown and fetched again.

**ClubFounding** is the form that creates a club and the card that invites,
**InvitationPage** the page behind the link in the mail, **MappeTags** the tag
on a folder from the two statements of `BindTag` to the code on its cover.

### Phone

**MobileSession** has the tokens and every await around them, **MobileLibrary**
the stored lists and the loop that fills them, **MobileTree** the tree drawn
from them (`flattenTree` against what lies in a root, all folders above it unfolded).

### Compositions

A run costs start-up, symmetry and bounds, so small instances that share no
state are checked together as a *sum*: a variable `machine` says which one
moves, the others stand still in an initial state, and the numbers of states
add up instead of multiplying.

| Module | Sum of |
|---|---|
| `MCSweeps` | `Inventory` (with the symmetry of `MCInventory`), `InventoryScreen`, `PlayMode` and `Annotations`, all extended |
| `MCServices` | `Polls`, `ConcertProgram` and `SheetMusic`, all extended |
| `MCClub` | `ClubMembers`, extended, three times: `machine` says which operations, users and invitations a behaviour has, and whether requests overlap |
| `MCPages` | `ClubDesk`, extended, and sixteen machines of the client's other pages and of the phone |

What a composition extends has, in its run, the very definitions the theorems
of section 6 are about. The sixteen machines of `MCPages` beside `ClubDesk` share slots `v1`
to `v14`: each lays its own variables into the first ones (`INSTANCE ...
WITH`), and a slot it does not use is 0. An instance is as close to its module
as a configuration file of its own would be; only the error traces want the
table at the top of the module. The invariants of `MCPages` join those of its
machines under the question they ask.

A `CONSTRAINT` named `Followed` ends behaviours of which the properties say
nothing any more, because a history variable that only grows makes them true
from there on (two operations on the setlists overlapped, the votes of every
voter did, two handlers of a form did, the last sweep of the screen is over). It cannot hide a violation:
the state that is cut off is itself checked, and no later one could differ.

`MCInventory`, `MCOfflineSweeps`, `MCReminders` add symmetry to their module.
Actions carry the names of the functions and queries they stand for, and `map`
in `PROJECT.json` gives the lines.

### Proofs

`ClubMembersProofs`, `RemindersProofs` and `OfflineSweepsProofs` extend the
module they are named after; `ServicesProofs` extends `Polls`, `SheetMusic` and
`ConcertProgram`, `InventoryAndPlayerProofs` `Inventory`, `InventoryScreen`,
`PlayMode` and `Annotations`, modules that share no name.
`PagesProofs` extends `MCPages` and proves of the machines it composes, whose
inductive invariants are in their own modules; `AgreementProofs` goes on with
those of its machines that store something, on the server or on the device, and
with the stream of events; `PlacesProofs` with those that show where something
is, and with the types of them all.

## 4. Runs

| Run | Instance | Question |
|---|---|---|
| `inventory_requests` | server: 2 notes, 2 folders, 1 sweep, 2 requests, 2 attempts; screen: 2 sweeps, 1 note, 2 handlers; player: 2 pieces of up to 3 pages; marks: 1 page, 1 save, 2 queued edits | Are numbers unique, gapless and final, answers right, sighted notes numbered, reports right about what was sighted, completed sweeps permanent? Is the list on the screen what was recorded? Does turning pages skip none and undo itself, and is an edit that nothing overlapped kept? |
| `inventory_live` | 1 note, 1 folder, 1 sweep, 2 requests | Does every request end? |
| `services` | polls: 2 voters, 3 options, 2 requests; concerts: 1 concert, 3 notes, 2 requests, programs up to 2; setlists: 2 setlists, 2 PDFs, 1 job slot | Is the ballot cast last stored, and one choice only where one is allowed? Was every row of a program sent for its place, and a save that nothing disturbed stored as sent? Can a saved setlist be played? |
| `concert_partial` (violated) | 2 notes, 2 requests | "A partial write only happens on infrastructure failure" (`concertService.go:149`)? |
| `offline_tabs` | 1 sweep, 1 note, 2 tabs, 2 sessions | Is a finished sweep delivered in full before it leaves the device, and does every push end? |
| `offline_queued` (violated) | 2 sweeps, 2 tabs | Does a finished sweep become eligible for the push (`pendingSweeps.ts:86`)? |
| `club` | "serial": 3 users, one of them new, 2 invitations, one request at a time; "races" and "sections": 2 users, one of them new, 1 invitation, 1 section, 2 requests | Is there a LEITER, does only a LEITER make one, is an accepted invitation spent, does it mean membership, does joining leave roles alone, is everybody's section alive? |
| `club_leiter` (violated) | 2 users, 2 requests, no failures | "Every club keeps at least one LEITER" (`clubMemberService.go:11`)? |
| `polls_twice` (violated) | 1 voter, 2 requests, no failures | "Single-choice always keeps at most one row" (club-polls design)? |
| `reminder_runs` | 2 members, the job and 1 manager, cooldown 2, event at 3 | Is everybody reminded automatically once, manually not within the cooldown, and never after answering? |
| `pages` | seventeen machines, 1 to 3 of everything | Does a page show what it is on, what fits its text and what the server has; is what a device keeps whole; is no author doubled unasked? |
| `stream_reconnect` (violated) | 1 kind of event, a buffer of 2 | "The client re-syncs via REST on reconnect" (`notificationHub.go:66`)? |

Bounds. Every race in this code is between two handlers (each waits for nobody,
and what it reads was written by one other), so two request slots, tabs or
calls are used wherever interleaving is the question, and one where it is not
("serial" of `club`: with two requests KeepsLeiter says nothing more, which is
`club_leiter`; one job slot of `SheetMusic`, since SavedIsPlayable speaks of
operations that do not overlap). Two notes are the least with which numbers can
collide, three options the least with which a ballot has two and an old vote
another, two setlists the least that share a PDF. One sweep is enough for the
properties about a sweep, since requests never look at a second one except for
the hint. `MaxAttempts` is 2 for the code's 5: with two notes a request can
lose the race for a number at most once to the other note, and the second
attempt also reaches `GiveUp`. The clock of `Inventory` stands still in
`inventory_requests` (no property compares times) and moves in
`inventory_live`. The cooldown of 2 ticks and the start at 3 leave room for a
reminder exactly at the cooldown, before it and after it. `MaxProgram` and
`MaxSent` bound programs to two places and two versions, so that a save can be
shorter than, longer than and in conflict with the one before. The pen marks
have one page, one save beside the flush and two queued edits: a save
and a flush are the two that can cross. The player has two pieces of 0 to 3
pages, so that a spread of two can end on either side. A buffer of 2 in place
of the hub's 16 is full after two events.

Where the theorems of section 6 cover a property, these bounds no longer
matter: it holds for every value of them.

Symmetry is used only where no temporal property but `[][A]_v` is checked, and
over sets whose members no constant distinguishes. Some sets of one module
share their model values, which keeps the group of symmetries small; they are
never compared with each other.

Deadlock is checked except where the system may stop: in `Inventory`,
`ConcertProgram` and `Polls` all that requests could be about may have been
deleted.

## 5. Fairness

Only two runs assume any. `inventory_live`: `WF_vars(Step(r))` for every
request, since a goroutine that serves a request is scheduled until it returns;
nothing makes a request *arrive*, and nothing forces an UPDATE to succeed, so
termination rests on the bounded loop alone. `offline_tabs`:
`WF_vars(PushStep(t))` for every tab, since a fetch settles (with an error if
need be) and a settled promise is continued; `PushStep` has the refusals as
well as the successes, so nothing makes the server answer kindly, and the user,
the reload and the connection are not assumed to do anything.

## 6. What is proved

`tlapm` checks all of it, for every value of the constants. What is assumed of
them are null values outside their sets, bounds that are numbers and, where a
cardinality is taken, finiteness; TLC evaluates these assumptions in the runs.
No theorem assumes anything of how requests are scheduled: where the code
relies on people not doing two things at once, a history variable says whether
they have, and the theorem speaks of what holds until then.

**Inventory** (`InventoryAndPlayerProofs`), for any number of notes, folders, sweeps and
requests, any `MaxAttempts` and any length of time.

* `InventoryTyped`, `InventoryForeignKeys`: types; rows refer to rows.
* `InventoryNumbers`, `InventoryGapless`, `InventoryAnswers`: `UniqueNumbers`,
  `Gapless` and `AnswerIsTheNumber`. The first rests on the UNIQUE key alone.
  `Gapless` is not inductive: a number is computed in one statement and written
  in another, and the note with the maximum may be deleted in between.
  `NextNumber` adds that a number about to be written follows one that *has
  been* assigned; since assigned numbers are never taken back, that stays true
  however stale the maximum becomes.
* `InventoryNumberStable`: `NumberStable`, from the clause IS NULL.
* `InventoryCompletedSweepKept`: `CompletedSweepKept`, although CancelSweep's
  check and its DELETE are two statements.
* `InventoryNoSightedNoteMissing`: the report. `FrozenKept` says that what was
  sighted at completion stays sighted as long as notes and folder live,
  `Reporting` how far a report has come and what it has read; the folder's
  deletion empties the report instead of falsifying it, for which `ForeignKeys`
  is needed.
* `InventorySightedIsNumbered`: a sighted note has a number, is being given
  one, or its request ended in an error. The lemma
  `NumberedKept` follows the request that is numbering a note through the steps
  of all others.

**Concert programs** (`ServicesProofs`), for any number of notes,
concerts and requests, with failing statements.

* `ConcertRowsWereSent`: every row stands at a place where an accepted request
  put its note. `Sending` adds that what a save has still to insert is the rest
  of a program that was sent, from the place it has reached.
* `ConcertLastSentStored`: a save that no other request overlaps and no failure
  touches is stored as sent and stays so, less the notes deleted since. The
  invariant (`StoredInv`) says, per concert, what its rows are at rest
  (`AtRest`) and at each statement of a save, a filling and a removal under way
  (`EditsUnderway`); `Overlapped` says that two requests under way are recorded as
  such, `Injective` that a place has one row.

**Clubs** (`ClubMembersProofs`), for any number of users, sections, invitations
and requests, with failing statements.

* `ClubTyped`: types, and that every request keeps to the course of its
  operation (`Course`): which of its fields are set at which statement. Its
  inductive form needs `Registering`: no two requests complete the registration
  of one user, which Keycloak's refusal of a second account ensures; else the
  email of a row could outlive the row.
* `ClubRoleKept`, `ClubAssignedToLiveSection`, `ClubAcceptedHasJoined`, whatever
  interleaves. The last rests on `InvitationInv`: what is outstanding has an
  addressee (`Outstanding`, `Addressed`), and a request past the INSERT of the
  membership has let its user in (`LetIn`).
* `ClubKeepsLeiter`, `ClubLeiterByLeiter`, `ClubSpentStaysSpent`, until two
  requests overlap (history `overlapped`), and for the first until a deletion of
  the club stops half way (`halved`). `SerialInv` says that requests come one
  at a time until then, what the sole request has found (`Counted`,
  `Empowered`, `StillOpen`), and that a club whose deletion has begun is empty
  of what it has deleted (`Emptied`); `Led` is the LEITER at every statement.

**Polls** (`ServicesProofs`), for any number of voters and requests and any finite
set of options, with failing statements: `Typed`, `LastBallotStoredHolds`,
`SingleChoiceHolds`. The invariant is that a request under way is the only one
of its voter (`Callers`), that its ballot was checked (`Checked`), and that
what is stored plus what is still to be inserted is the ballot accepted last
(`Insertions`, `Stored`), for every voter whose votes have not overlapped
(`crossed`), whatever others do. Of the others it is false: `polls_twice`.

**Reminders** (`RemindersProofs`), for any number of members and managers and
any cooldown: `RemindersTyped`, `RemindersAutoOnce`, `RemindersOnlyOpen`, and,
until two runs overlap, `RemindersCooldownKept`. The invariant rests on the job
being one goroutine that marks before it selects again (`AutoAt`), on what a
run may still mail to (`RunAt`, `AnsweredAt`), and on a run being alone
(`Alone`, `CooldownAt`).

**Offline sweeps** (`OfflineSweepsProofs`), for any number of sweeps, notes,
folders, tabs and sessions: `OfflineSweepsTyped`, and `QueueImplementsDelivery`,
the refinement of `SweepDelivery`: each of the steps of a screen, a push, a
reload or the connection is one of the promise's or leaves its variables alone.
The invariant says what is kept of a finished sweep (`Kept`), what a session has
(`Sessions`), and that a push whose copy is about to be deleted has replayed
all of it (`PushAt`).

**Offline sheet music** (`ServicesProofs`), for any number of setlists, PDFs
and job slots: `SheetMusicSavedIsPlayable`. Until the user starts an operation
while another runs, there is one at a time (`Serial`), a save has stored what it
has taken off its list, a removal deletes nothing another setlist needs
(`Underway`), and so a recorded setlist is complete (`Playable`).

**Pages** (`InventoryAndPlayerProofs`).

* `ScreenListIsRecorded`, for any number of handlers, notes and sweeps: the list
  of the sweep on screen is what was recorded but for lost answers, in whatever
  order they come. The invariant has the handlers that wait (`OwnHandlers`) and
  the sweep each was started for.
* `PlayerBackUndoesNext`, `PlayerNoPageSkipped`, for any number of pieces and
  pages, in either spread and whatever has been loaded: from
  lemmas about `nextPosition` and `prevPosition`, of which `TurnsOn` says where
  a turn leads to, inside a piece or across pieces, and back.
* `MarksQuietEditKept`, for any number of pages, strokes and saves, whichever
  requests fail and whenever the tab is reloaded: an edit of a page that nothing
  overlapped is on the server, in the cache or waiting. The invariant is a
  conjunction over pages: what a page is at rest (`Settled`), and what a load, a
  save and a flush under way have read and may still write (`LoadAgrees`,
  `SavesAgree`, `FlushAgrees`, `SavedAlone`).

**Searches, lists and what is open** (`PagesProofs`): `PagesFitTheText` and
`PagesShowWhatIsOpen`, for any texts, pages, authors, notes, chats, sessions,
clubs, folders and requests under way. One machine moves at a time
(`OneMoves`), so the invariant `PagesInv` is that of the machine that runs:

* `SuggestInv` of `Autocomplete`: the timer's text is the field's and its
  number no look-up's yet; once it has fired, the look-up of the newest number
  is for that text (`OneLookUp`).
* `SearchInv` of `NoteSearch`: a page under way is the one after the list it
  will be appended to (`NextPage`), and until two requests cross, what was sent
  last is for the text at rest (`Uncrossed`).
* `AuthorInv` of `Authors`: unless the server has changed since, a list and one
  that is being fetched have, page by page, what the server has but for what is
  being deleted (`ListsWhole`); so a list with no next page is whole. And the
  boxes are those of the list (`BoxesOfList`), whence nothing is deleted that
  is not on screen.
* `ViewerInv` of `NoteViewer`: until one leaves a note while its file or its
  number is under way, what is under way is about the note of the page, and a
  number on its way was asked for (`OfThisNote`).
* `ChatInv` of `Messages`: the older messages are, one by one, those just
  before the newest page, and the page under way ends where they begin
  (`OlderFollow`), until two answers cross. And `AnswersComing`: a number of
  unread messages, or a newest message on screen, that is not the server's is
  being fetched, or something under way will have it fetched, unless an event
  was missed. A message of one's own changes the second and not the first,
  which is why its sender fetches only that.
* `PanelInv` of `AIChat`: until the panel goes elsewhere while it streams, one
  message is under way, and it is of the session on screen (`OneStream`).
* `FoundingInv` of `ClubFounding`: a list that has been read has the club on the
  card (`ListFollows`), invitations wait for a card (`InvitesOnCard`), and until
  the form is sent again there is one request or one club (`SentOnce`).
* `TagInv` of `MappeTags`: wherever the code of a tag is by now, in the table,
  on a row, on its way or on a cover, it is one folder's, and a tag still to be
  made has none (`OneFolder`); what was scanned sticks somewhere (`OnACover`).
* `DeskInv` of `ClubDesk`, whose variables are its own: whatever a list on
  screen lacks, a mutation under way still has to have fetched again, or a fetch
  under way has it, or it is one of the exceptions (`Awaits`). It rests on a
  fact about the tables, `OfferedSettles`: every mutation a tab offers fetches
  every list of that tab that reads what it changes, but for `Unrefreshed`. The
  lemmas of the tabs (`MitgliederSettles`, ...) check that button by button.

**What is made, what is kept, and what follows the server** (`AgreementProofs`):
`PagesNoSilentTwin` and `PagesLibraryKept`, for any titles, names, tabs, calls,
versions, items and page sizes, and any number of logins; and
`PagesShowServer`, for any number of operations, events and messages, which
takes its parts from both invariants. `AgreementInv` is again that of the
machine that runs:

* `EntryInv` of `NoteEntry`: who resolves authors has names to look for, and
  until two handlers overlap nobody had the name about to be posted
  (`LookedUp`). The second of two equal new names is looked up after the first
  was stored, which is why it is found.
* `SessionInv` of `MobileSession`: a call that refreshes has a login to refresh
  (`Refreshes`), the start page has one call that sends nothing (`StartsOnce`),
  and as long as there is no network and no login nothing is asked
  (`NothingAsked`), so nothing takes away what the start would find.
* `DeviceInv` of `OfflineLibrary`: a tab has one sync (`OneSync`), what it is
  about to write is a version of the server's, and a date is written and
  believed only when there is a library (`DatedHasLibrary`).
* `LibraryInv` of `MobileLibrary`: a loop that reads page by page has every item
  that comes before its page (`PagesBefore`). How many items come before one is
  its *rank* in the list; the lemmas on `Rank` say that the ranks of n items are
  the numbers below n, that an item that comes in raises ranks and lowers none,
  so that no item slips back over the border of a page already read, and that
  the last page therefore ends the list.
* `LetterInv` of `InvitationPage`: an invitation read as accepted is a
  member's, although the page itself marks it (`MarkedLast`).
* `StreamInv` of `Notifications`: of a list on screen, what is neither in an
  event committed or on its way (`Announced`) nor lost with a stream is on
  screen or being fetched, and no fetch under way read too early (`OnItsWay`).

The attempt to prove `SyncSkipsNone` found an error in the model: `removed`
recorded only the removal of what had been in the list since the loop began.
With two changes, something that came in and went again shifts the pages as
well, and TLC refuted the property; `Change` now records every removal.

**Where things are, and the types** (`PlacesProofs`): `PagesShownWhereItIs`, for
any folders, notes, tags, calls and tree, cycles of folders included, and
`PagesTyped`. `PlacesInv` adds to the two invariants above:

* `LibraryInv` of `Library`: what is shown, or on its way to be in an answer or
  in a row that is being dragged, is where the server has it, is adrift, or was
  moved or deleted by a request not answered yet (`InPlace`). That a deletion's
  answer takes away all that is shown of what was deleted needs `Together`: such
  things lie in each other wherever they are shown, up to the folder deleted, so
  that nothing else leads to them from the root.
* `RowsArePaths` of `MobileTree`, for any answer of the server and whatever is
  unfolded. `flattenTree` is compared with the folders above, which are defined
  as the least set that leaves no parent out. A row at a depth has as many
  folders above it, by induction on the depth; what lies in a root is reached,
  since its folders above are finitely many and each has one fewer than what is
  in it. The induction is that of the library's theorem on minimal elements,
  which takes a set and not an operator (lemma `Least`).
* `RowsInv` of `MappeTags`: what one request for a tag, alone with its folder
  since it was sent, has done up to now (`DoneSoFar`), and that a tag in the table
  which no row shows yet is about to be answered (`RowsFollow`).
* `EntryTypesInv` of `NoteEntry`: what a handler took along was in the form or
  was picked (`Carries`). `ChatTypesInv` of `Messages`: an answer on its way was
  right when it was given. That no chat has more messages than are posted in all
  rests on cardinalities: a chat's messages are a set of places (`RoomInChat`).

The attempt found `adrift`, the history of `Library`, wrong for two calls at
once: a row dragged while the answer of a move or of a deletion is awaited takes
along what is still shown where it was, and puts it back there.
`moveToFolder` now records that (`Awaited`); what used to be recorded at the
start of a refetch proved unnecessary and is gone, so the property says more of
a refetch than before.

## 7. What is only model-checked

`Terminates` and `PushEnds`: liveness under fairness is out of the prover's
reach. All other properties of the passing runs are theorems of section 6.

## 8. What the runs found, and what they only pass by

Five statements of the repository are contradicted by a run (`findings`): a
partial program without a failure, a finished sweep that another tab's start
has dropped, two LEITER that leave at once, two votes in a single-choice poll,
a client that reconnects and fetches nothing.

Met while modelling, with no statement in the repository they contradict or
none worth a run of its own.

*Server.* A number is reused after the note with the highest one is deleted
(`MAX + 1`; the stamp on the old paper then names another piece). The hint "last
seen in" can name the very sweep that reports the note missing. A deletion of a
club that fails half way leaves a club without a LEITER; `clubService.go:165`
calls it re-runnable, but after the participants are gone nobody may run it.
`section_leader` survives the deletion of the section. An invitation accepted
before PUT /users has stored the user is spent and makes nobody a member
(`rowless`). Two overlapping reminder runs may both remind somebody; a reminder
that could not be marked is sent again. A program in which a note was deleted
keeps the gap in its places. A poll's `closes_at` closes nothing, and a vote may
be stored after the poll closed (`clubPollService.go:126`). A series of events
that fails half way keeps the first ones (`clubEventService.go:243`).

*Offline.* A replay whose answer was lost leaves a second session on the server;
a sighting taken after the user finished a sweep may be dropped with the entry;
the number of pending sweeps shown may be stale. Removing a setlist while
another save runs deletes shared PDFs (`offlineSheetMusic.ts:118`); a failed PDF
is never retried. Drawing before the load has finished replaces the server's
page; overlapping saves and flushes of a page may lose an edit
(`annotationStore.ts:65-85`). Two tabs that sync at once may store the older
library last.

*Pages.* Answers that come late are applied to what is open by then in
`FolderSearch`, `OrphanFinder`, `NoteEntry` (an OCR answer fills a reset form,
`pendingWikidata` survives a local pick) and `AIChatPanel` (tokens of another
session). `InventoryView`: a photo taken in one sweep is confirmed in the next;
a double start leaves an open sweep. `ClubView`: Enter in the first step submits
again although a request is pending, which founds two clubs.
`InviteAcceptView` offers an account after it was made. `ProgramEditor`'s effect
overwrites local edits. A folder dragged into its own subfolder makes a cycle
(`folderService.go:326`). Messages drops messages of equal timestamps at a page
boundary, and marks as read what was never on the screen
(`messageService.go:258`).

*Phone.* A late refresh stores tokens after a logout or over another login's;
a refusal (any 5xx) of the refresh logs out; the cache of queries is not cleared
at logout; folders whose cycle has no root vanish.

Eleven promises a reader might expect are kept as definitions that no run
checks, since TLC refutes them:
`NoteEntry.StoredAsShown`, `Autocomplete.ShortClears`,
`NoteViewer.ResetWhenNavigating`, `Annotations.OfflineEditsKept`,
`Authors.ListedOnce`, `MobileSession.SessionKept`,
`MobileLibrary.ForgottenAtLogout`, `MappeTags.PrintsBound`,
`ClubFounding.OneClubPerForm`, `ClubFounding.SentWhenGone`,
`InvitationPage.OffersWhatIsTaken`.

## 9. What is not modelled

* *Single statements* on rows, whose concurrency is the database's: notes beyond
  their deletion and moves, absences, scores and parts, pinboard, files,
  statistics, most of club events. Event programs repeat the delete-all and
  re-insert of `ConcertProgram`.
* *I/O with services whose behaviour is data*: Wikidata, the recognition and chat
  models, calendars, mail, PDF, addresses, users and Keycloak. Where a failure
  of one matters it is a choice in the module that calls it.
* *Pure functions of strings*: the matching of scanned titles, OCR heuristics.
* *Rendering*, the remaining forms of one query and one mutation each, generated
  code (sqlc, openapi-typescript, shadcn), one-off import scripts.
* The folder tree is modelled in part: which folders are open is layout, and the
  listings and searches of `folderService.go` are reads.

`PROJECT.json` lists every component with the reason.
