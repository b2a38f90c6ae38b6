------------------------------ MODULE Reminders ------------------------------
(***************************************************************************)
(* Reminders to the members who have not answered an event                 *)
(* (api_go/service/reminderService.go, reminderSelection.go): the job that *)
(* reminds automatically and the managers who press "remind now", for one  *)
(* event of one club.                                                      *)
(*                                                                         *)
(* The clock counts hours and stands still while a run is under way.       *)
(* Every statement and every mail is a step of its own and may fail.       *)
(***************************************************************************)
EXTENDS Integers, FiniteSets

CONSTANTS
    User,           \* the members the event concerns
    Manual,         \* slots for managers' requests
    Job,            \* the one goroutine of the job
    NoUser,
    Cooldown,       \* ManualReminderCooldown, in ticks of the clock
    Hours,          \* the settings hours_before that are tried
    Start,          \* when the event starts
    MayFail         \* may MarkEventReminderSent fail?

ASSUME RemindersAssumption ==
    /\ NoUser \notin User /\ Job \notin Manual
    /\ Cooldown \in Nat /\ Start \in Nat /\ Hours \subseteq Nat
    /\ MayFail \in BOOLEAN

Never == -1
Off == -1
CountedAutos == 2
Runner == Manual \union {Job}

VARIABLES
    now,
    event,          \* club_events: "planned", "cancelled" or "gone"
    hours,          \* club_reminder_settings.hours_before or Off
    answered,       \* answered[u]: when u responded or registered an absence, or Never
    sentAt,         \* club_event_reminder.sent_at or Never
    run,            \* run[r]: the run of r
    auto,           \* history: how many automatic reminders u got, at most two counted
    tooSoon,        \* history: who got a manual reminder within the cooldown
    remindedAt,     \* history: the last reminder u got, or Never
    unmarked,       \* history: who got a reminder that could not be marked
    overlapped      \* history: have two runs been under way at once?

vars == <<now, event, hours, answered, sentAt, run, auto, tooSoon, remindedAt,
          unmarked, overlapped>>
history == <<auto, tooSoon, remindedAt, unmarked, overlapped>>

Idle == [pc |-> "idle", todo |-> {}, user |-> NoUser]

TypeOK ==
    /\ now \in 0..Start
    /\ event \in {"planned", "cancelled", "gone"}
    /\ hours \in Hours \union {Off}
    /\ answered \in [User -> 0..now \union {Never}]
    /\ sentAt \in [User -> 0..now \union {Never}]
    /\ run \in [Runner -> [pc : {"idle", "list", "send", "mark"}, todo : SUBSET User,
                           user : User \union {NoUser}]]
    /\ auto \in [User -> 0..CountedAutos]
    /\ remindedAt \in [User -> 0..now \union {Never}]
    /\ tooSoon \subseteq User /\ unmarked \subseteq User /\ overlapped \in BOOLEAN

Init ==
    /\ now = 0
    /\ event = "planned"
    /\ hours = Off
    /\ answered = [u \in User |-> Never]
    /\ sentAt = [u \in User |-> Never]
    /\ run = [r \in Runner |-> Idle]
    /\ auto = [u \in User |-> 0]
    /\ remindedAt = [u \in User |-> Never]
    /\ tooSoon = {} /\ unmarked = {} /\ overlapped = FALSE

At(r, pc) == run[r].pc = pc
End(r) == run' = [run EXCEPT ![r] = Idle]
Quiet == \A r \in Runner : At(r, "idle")

\* A run begins, its first statement is yet to come.
Begin(r) ==
    /\ At(r, "idle")
    /\ run' = [run EXCEPT ![r].pc = "list"]
    /\ overlapped' = (overlapped \/ ~ Quiet)
    /\ UNCHANGED <<auto, tooSoon, remindedAt, unmarked>>

-----------------------------------------------------------------------------
(* The event, its answers and the setting.                                 *)

Tick ==
    /\ Quiet /\ now < Start
    /\ now' = now + 1
    /\ UNCHANGED <<event, hours, answered, sentAt, run, history>>

UpdateSettings ==
    /\ hours' \in Hours \union {Off}
    /\ UNCHANGED <<now, event, answered, sentAt, run, history>>

\* A response or an absence; withdrawing it leaves the member open again.
Answer(u) ==
    /\ event # "gone"
    /\ answered' = [answered EXCEPT ![u] = IF @ = Never THEN now ELSE Never]
    /\ UNCHANGED <<now, event, hours, sentAt, run, history>>

\* CancelEvent, ReinstateEvent and DeleteEvent; the reminders go with the event.
ChangeEvent ==
    /\ event # "gone"
    /\ event' \in {"planned", "cancelled", "gone"}
    /\ sentAt' = IF event' = "gone" THEN [u \in User |-> Never] ELSE sentAt
    /\ UNCHANGED <<now, hours, answered, run, history>>

-----------------------------------------------------------------------------
(* The runs.                                                               *)

\* ListEventsDueForReminder.
RunDue ==
    /\ event = "planned" /\ hours # Off
    /\ now < Start /\ Start <= now + hours
    /\ Begin(Job)
    /\ UNCHANGED <<now, event, hours, answered, sentAt>>

RemindNow(r) ==
    /\ r \in Manual
    /\ event = "planned"
    /\ Begin(r)
    /\ UNCHANGED <<now, event, hours, answered, sentAt>>

\* Mutant: answers are not looked at.
EveryMember == IF event = "gone" THEN {} ELSE User

\* ListOpenResponseMembers.
Open == IF event = "gone" THEN {} ELSE {u \in User : answered[u] = Never}

\* Mutant: the cooldown lets the automatic job repeat itself, too.
RecipientAgain(r, u) ==
    \/ sentAt[u] = Never
    \/ now - sentAt[u] >= Cooldown

\* Mutant: the cooldown is one hour short.
RecipientTooSoon(r, u) ==
    \/ sentAt[u] = Never
    \/ r # Job /\ now - sentAt[u] >= Cooldown - 1

\* SelectReminderRecipients.
Recipient(r, u) ==
    \/ sentAt[u] = Never
    \/ r # Job /\ now - sentAt[u] >= Cooldown

ListOpen(r) ==
    /\ At(r, "list")
    /\ run' = [run EXCEPT ![r] = [pc |-> "send", user |-> NoUser,
                                  todo |-> {u \in Open : Recipient(r, u)}]]
    /\ UNCHANGED <<now, event, hours, answered, sentAt, history>>

Send(r, u) ==
    /\ At(r, "send") /\ u \in run[r].todo
    /\ run' = [run EXCEPT ![r].pc = "mark", ![r].user = u]
    /\ auto' = IF r = Job THEN [auto EXCEPT ![u] = IF @ < CountedAutos THEN @ + 1 ELSE @]
                          ELSE auto
    /\ tooSoon' = IF /\ r # Job
                     /\ remindedAt[u] # Never /\ now - remindedAt[u] < Cooldown
                  THEN tooSoon \union {u} ELSE tooSoon
    /\ remindedAt' = [remindedAt EXCEPT ![u] = now]
    /\ UNCHANGED <<now, event, hours, answered, sentAt, unmarked, overlapped>>

\* The mail fails: on to the next member, this one stays unmarked.
SendFails(r, u) ==
    /\ At(r, "send") /\ u \in run[r].todo
    /\ run' = [run EXCEPT ![r].todo = @ \ {u}]
    /\ UNCHANGED <<now, event, hours, answered, sentAt, history>>

\* Mutant: the hour the event starts is stored.
MarkStart(r) ==
    LET u == run[r].user IN
    /\ At(r, "mark")
    /\ sentAt' = [sentAt EXCEPT ![u] = Start]
    /\ run' = [run EXCEPT ![r] = [pc |-> "send", user |-> NoUser, todo |-> @.todo \ {u}]]
    /\ UNCHANGED <<now, event, hours, answered, history>>

\* The foreign key refuses the row of an event that has gone.
Mark(r) ==
    LET u == run[r].user IN
    /\ At(r, "mark")
    /\ IF event = "gone" THEN UNCHANGED sentAt /\ End(r)
       ELSE /\ sentAt' = [sentAt EXCEPT ![u] = now]
            /\ run' = [run EXCEPT ![r] = [pc |-> "send", user |-> NoUser, todo |-> @.todo \ {u}]]
    /\ UNCHANGED <<now, event, hours, answered, history>>

MarkFails(r) ==
    /\ MayFail /\ At(r, "mark")
    /\ End(r)
    /\ unmarked' = unmarked \union {run[r].user}
    /\ UNCHANGED <<now, event, hours, answered, sentAt, auto, tooSoon, remindedAt, overlapped>>

Finish(r) ==
    /\ At(r, "send") /\ run[r].todo = {}
    /\ End(r)
    /\ UNCHANGED <<now, event, hours, answered, sentAt, history>>

Next ==
    \/ Tick \/ UpdateSettings \/ ChangeEvent
    \/ \E u \in User : Answer(u)
    \/ RunDue
    \/ \E r \in Manual : RemindNow(r)
    \/ \E r \in Runner :
         \/ ListOpen(r) \/ Mark(r) \/ MarkFails(r) \/ Finish(r)
         \/ \E u \in User : Send(r, u) \/ SendFails(r, u)

Spec == Init /\ [][Next]_vars

-----------------------------------------------------------------------------
(* Properties.                                                             *)

\* reminderSelection.go: the job reminds each member at most once per event,
\* whatever managers send meanwhile and however often a mail fails.  The one
\* exception is a member whose reminder went out and could not be marked.
AutoOnce == \A u \in User \ unmarked : auto[u] <= 1

\* reminderSelection.go: a manual reminder may repeat, but not within the
\* cooldown, counted from the last reminder of either kind, as long as the
\* reminders have been marked and no two runs have been under way at once.
CooldownKept == ~ overlapped => tooSoon \subseteq unmarked

\* Whoever answered in an earlier hour and left it at that is not reminded.
OnlyOpenReminded ==
    \A u \in User : answered[u] # Never => remindedAt[u] <= answered[u]
=============================================================================
