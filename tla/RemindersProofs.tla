--------------------------- MODULE RemindersProofs ---------------------------
(***************************************************************************)
(* What holds of Reminders for every number of members and of managers'    *)
(* requests, every cooldown, setting and start.                            *)
(***************************************************************************)
EXTENDS Reminders, TLAPS

-----------------------------------------------------------------------------
(* The invariant.  The clock stands still while a run is under way, so     *)
(* what a run found when it listed its recipients is as old as the clock.  *)

\* A run has its own record; it mails to somebody it has listed.
RunAt(r) ==
    /\ run[r].pc \in {"idle", "list"} => run[r].todo = {}
    /\ run[r].pc = "mark" => run[r].user \in run[r].todo

\* Marking(r, u): r has mailed u and not marked it yet.
Marking(r, u) == At(r, "mark") /\ run[r].user = u
Listed(r, u) == u \in run[r].todo /\ ~ Marking(r, u)

\* The job has mailed nobody it has still to mail, and everybody it has mailed
\* is marked, about to be, or known to be unmarked.
AutoAt(u) ==
    u \notin unmarked =>
      /\ auto[u] <= 1
      /\ Listed(Job, u) => auto[u] = 0
      /\ auto[u] # 0 => sentAt[u] # Never \/ event = "gone" \/ Marking(Job, u)

\* Without overlap, one run is under way, the last reminder of everybody is
\* marked or about to be, and nobody listed had one within the cooldown.
Alone == \A r, q \in Runner : r # q => At(r, "idle") \/ At(q, "idle")
Old(u) == remindedAt[u] = Never \/ now - remindedAt[u] >= Cooldown
CooldownAt(u) ==
    u \notin unmarked =>
      /\ u \notin tooSoon
      /\ \A r \in Runner : Listed(r, u) => Old(u)
      /\ \A r \in Runner : Marking(r, u) => remindedAt[u] = now
      /\ \/ sentAt[u] = remindedAt[u] \/ event = "gone"
         \/ \E r \in Runner : Marking(r, u)

\* Who has answered since a run listed it did so within the hour.
AnsweredAt(r) == \A u \in run[r].todo : answered[u] \in {Never, now}

IInv ==
    /\ TypeOK
    /\ \A r \in Runner : RunAt(r) /\ AnsweredAt(r)
    /\ \A u \in User : AutoAt(u)
    /\ ~ overlapped => Alone /\ \A u \in User : CooldownAt(u)
    /\ OnlyOpenReminded

-----------------------------------------------------------------------------
(* Types.                                                                  *)

Runs == [pc : {"idle", "list", "send", "mark"}, todo : SUBSET User,
         user : User \union {NoUser}]

LEMMA RunsTyped == TypeOK => run \in [Runner -> Runs]
BY DEF TypeOK, Runs

LEMMA IdleTyped == Idle \in Runs /\ Idle.pc = "idle" /\ Idle.todo = {} /\ Idle.user = NoUser
BY DEF Idle, Runs

\* The record a run has after each kind of step, and that nobody else's changes.
LEMMA Moves ==
    ASSUME run \in [Runner -> Runs], NEW r \in Runner, NEW pc \in {"list"},
           run' = [run EXCEPT ![r].pc = pc]
    PROVE  /\ run' \in [Runner -> Runs]
           /\ run'[r].pc = pc /\ run'[r].todo = run[r].todo
           /\ \A q \in Runner : q # r => run'[q] = run[q]
<1> DEFINE p == [run[r] EXCEPT !.pc = pc]
<1>1. run' = [run EXCEPT ![r] = p]
  OBVIOUS
<1>2. p \in Runs /\ p.pc = pc /\ p.todo = run[r].todo
  BY DEF Runs
<1> QED
  BY <1>1, <1>2

LEMMA Lists ==
    ASSUME TypeOK, NEW r \in Runner, ListOpen(r)
    PROVE  /\ run' \in [Runner -> Runs]
           /\ run'[r].pc = "send" /\ run'[r].todo = {u \in Open : Recipient(r, u)}
           /\ \A q \in Runner : q # r => run'[q] = run[q]
<1> DEFINE p == [pc |-> "send", user |-> NoUser, todo |-> {u \in Open : Recipient(r, u)}]
<1>1. run' = [run EXCEPT ![r] = p]
  BY DEF ListOpen
<1>2. {u \in Open : Recipient(r, u)} \subseteq User
  BY DEF Open
<1>3. p \in Runs
  BY <1>2 DEF Runs
<1> QED
  BY <1>1, <1>3, RunsTyped

LEMMA Sends ==
    ASSUME TypeOK, NEW r \in Runner, NEW u \in User, Send(r, u)
    PROVE  /\ run' \in [Runner -> Runs]
           /\ run'[r].pc = "mark" /\ run'[r].todo = run[r].todo /\ run'[r].user = u
           /\ \A q \in Runner : q # r => run'[q] = run[q]
<1> DEFINE p == [run[r] EXCEPT !.pc = "mark", !.user = u]
<1>1. run \in [Runner -> Runs]
  BY RunsTyped
<1>2. run' = [run EXCEPT ![r] = p]
  BY DEF Send
<1>3. p \in Runs /\ p.pc = "mark" /\ p.todo = run[r].todo /\ p.user = u
  BY <1>1 DEF Runs
<1> QED
  BY <1>1, <1>2, <1>3

LEMMA PassesOver ==
    ASSUME TypeOK, NEW r \in Runner, NEW u \in User, SendFails(r, u)
    PROVE  /\ run' \in [Runner -> Runs]
           /\ run'[r].pc = "send" /\ run'[r].todo = run[r].todo \ {u}
           /\ \A q \in Runner : q # r => run'[q] = run[q]
<1> DEFINE p == [run[r] EXCEPT !.todo = @ \ {u}]
<1>1. run \in [Runner -> Runs] /\ run[r].pc = "send"
  BY RunsTyped DEF SendFails, At
<1>2. run' = [run EXCEPT ![r] = p]
  BY DEF SendFails
<1>3. p \in Runs /\ p.pc = "send" /\ p.todo = run[r].todo \ {u}
  BY <1>1 DEF Runs
<1> QED
  BY <1>1, <1>2, <1>3

LEMMA Marks ==
    ASSUME TypeOK, NEW r \in Runner, Mark(r), event # "gone"
    PROVE  /\ run' \in [Runner -> Runs]
           /\ run'[r].pc = "send" /\ run'[r].todo = run[r].todo \ {run[r].user}
           /\ \A q \in Runner : q # r => run'[q] = run[q]
<1> DEFINE p == [pc |-> "send", user |-> NoUser, todo |-> run[r].todo \ {run[r].user}]
<1>1. run \in [Runner -> Runs]
  BY RunsTyped
<1>2. run' = [run EXCEPT ![r] = p]
  BY DEF Mark
<1>3. p \in Runs
  BY <1>1 DEF Runs
<1> QED
  BY <1>1, <1>2, <1>3

LEMMA Ends ==
    ASSUME TypeOK, NEW r \in Runner, End(r)
    PROVE  /\ run' \in [Runner -> Runs]
           /\ run'[r].pc = "idle" /\ run'[r].todo = {}
           /\ \A q \in Runner : q # r => run'[q] = run[q]
BY RunsTyped, IdleTyped DEF End

LEMMA TypeInit == Init => TypeOK
<1> SUFFICES ASSUME Init PROVE TypeOK
  OBVIOUS
<1>1. run \in [Runner -> Runs]
  BY IdleTyped DEF Init
<1>2. now \in 0 .. Start
  BY RemindersAssumption DEF Init
<1>3. auto \in [User -> 0 .. CountedAutos]
  BY DEF Init, CountedAutos
<1>4. overlapped \in BOOLEAN
  BY DEF Init
<1> QED
  BY <1>1, <1>2, <1>3, <1>4 DEF Init, TypeOK, Runs

LEMMA TypeStep ==
    TypeOK /\ (\A r \in Runner : RunAt(r)) /\ [Next]_vars => TypeOK'
<1> SUFFICES ASSUME TypeOK, \A r \in Runner : RunAt(r), [Next]_vars
             PROVE  TypeOK'
  OBVIOUS
<1> USE DEF history
<1>0. now \in Nat /\ Start \in Nat /\ now \in 0 .. now
  BY RemindersAssumption DEF TypeOK
<1>1. CASE Tick
  <2>1. now' = now + 1 /\ now' \in 0 .. Start /\ 0 .. now \subseteq 0 .. now'
    BY <1>0, <1>1 DEF Tick, TypeOK
  <2> QED
    BY <1>1, <2>1 DEF Tick, TypeOK
<1>2. CASE UpdateSettings
  BY <1>2 DEF UpdateSettings, TypeOK
<1>3. CASE ChangeEvent
  BY <1>3 DEF ChangeEvent, TypeOK
<1>4. ASSUME NEW u \in User, Answer(u)
      PROVE  TypeOK'
  BY <1>0, <1>4 DEF Answer, TypeOK
<1>5. ASSUME NEW r \in Runner, Begin(r), UNCHANGED <<now, event, hours, answered, sentAt>>
      PROVE  TypeOK'
  <2>1. run' \in [Runner -> Runs]
    BY <1>5, RunsTyped, Moves DEF Begin
  <2> QED
    BY <1>5, <2>1 DEF Begin, TypeOK, Runs, Quiet
<1>6. ASSUME NEW r \in Runner, ListOpen(r)
      PROVE  TypeOK'
  BY <1>6, Lists DEF ListOpen, TypeOK, Runs
<1>7. ASSUME NEW r \in Runner, NEW u \in User, Send(r, u)
      PROVE  TypeOK'
  <2>1. run' \in [Runner -> Runs]
    BY <1>7, Sends
  <2>2. auto' \in [User -> 0 .. CountedAutos]
    BY <1>7 DEF Send, TypeOK, CountedAutos
  <2>3. remindedAt' \in [User -> 0 .. now \union {Never}] /\ tooSoon' \subseteq User
    BY <1>0, <1>7 DEF Send, TypeOK
  <2> QED
    BY <1>7, <2>1, <2>2, <2>3 DEF Send, TypeOK, Runs
<1>8. ASSUME NEW r \in Runner, NEW u \in User, SendFails(r, u)
      PROVE  TypeOK'
  BY <1>8, PassesOver DEF SendFails, TypeOK, Runs
<1>9. ASSUME NEW r \in Runner, Mark(r)
      PROVE  TypeOK'
  <2>1. run' \in [Runner -> Runs]
    BY <1>9, Marks, Ends DEF Mark
  <2>2. sentAt' \in [User -> 0 .. now \union {Never}]
    BY <1>0, <1>9 DEF Mark, TypeOK
  <2> QED
    BY <1>9, <2>1, <2>2 DEF Mark, TypeOK, Runs
<1>10. ASSUME NEW r \in Runner, MarkFails(r)
       PROVE  TypeOK'
  <2>1. run[r].user \in User
    BY <1>10, RunsTyped DEF MarkFails, RunAt, At, Runs
  <2> QED
    BY <1>10, <2>1, Ends DEF MarkFails, TypeOK, Runs
<1>11. ASSUME NEW r \in Runner, Finish(r)
       PROVE  TypeOK'
  BY <1>11, Ends DEF Finish, TypeOK, Runs
<1>12. CASE UNCHANGED vars
  BY <1>12 DEF vars, TypeOK
<1> QED
  BY <1>1, <1>2, <1>3, <1>4, <1>5, <1>6, <1>7, <1>8, <1>9, <1>10, <1>11, <1>12
     DEF Next, RunDue, RemindNow, Runner

-----------------------------------------------------------------------------
(* The runs.                                                               *)

LEMMA RunsStep ==
    ASSUME TypeOK, \A r \in Runner : RunAt(r) /\ AnsweredAt(r), [Next]_vars
    PROVE  \A r \in Runner : RunAt(r)' /\ AnsweredAt(r)'
<1> USE DEF history, RunAt, AnsweredAt
<1>1. CASE Tick
  <2>1. \A r \in Runner : run[r].todo = {} /\ run[r].pc = "idle"
    BY <1>1 DEF Tick, Quiet, At
  <2> QED
    BY <1>1, <2>1 DEF Tick
<1>2. CASE UpdateSettings \/ ChangeEvent \/ UNCHANGED vars
  BY <1>2 DEF UpdateSettings, ChangeEvent, vars
<1>3. ASSUME NEW u \in User, Answer(u)
      PROVE  \A r \in Runner : RunAt(r)' /\ AnsweredAt(r)'
  <2>1. \A v \in User : answered[v] \in {Never, now} => answered'[v] \in {Never, now}
    BY <1>3 DEF Answer, TypeOK
  <2>2. \A r \in Runner : run[r].todo \subseteq User
    BY RunsTyped DEF Runs
  <2> QED
    BY <1>3, <2>1, <2>2 DEF Answer
<1>4. ASSUME NEW r \in Runner, Begin(r), UNCHANGED <<now, answered>>
      PROVE  \A q \in Runner : RunAt(q)' /\ AnsweredAt(q)'
  <2>1. run'[r].pc = "list" /\ run'[r].todo = run[r].todo /\ run[r].pc = "idle"
    BY <1>4, RunsTyped, Moves DEF Begin, At
  <2>2. \A q \in Runner : q # r => run'[q] = run[q]
    BY <1>4, RunsTyped, Moves DEF Begin
  <2> QED
    BY <1>4, <2>1, <2>2
<1>5. ASSUME NEW r \in Runner, ListOpen(r)
      PROVE  \A q \in Runner : RunAt(q)' /\ AnsweredAt(q)'
  <2>1. \A u \in {v \in Open : Recipient(r, v)} : answered[u] = Never
    BY DEF Open
  <2> QED
    BY <1>5, <2>1, Lists DEF ListOpen
<1>6. ASSUME NEW r \in Runner, NEW u \in User, Send(r, u)
      PROVE  \A q \in Runner : RunAt(q)' /\ AnsweredAt(q)'
  <2>1. /\ run'[r].pc = "mark" /\ run'[r].todo = run[r].todo /\ run'[r].user = u
        /\ \A q \in Runner : q # r => run'[q] = run[q]
    BY <1>6, Sends
  <2>2. u \in run[r].todo /\ now' = now /\ answered' = answered
    BY <1>6 DEF Send
  <2> QED
    BY <2>1, <2>2
<1>7. ASSUME NEW r \in Runner, NEW u \in User, SendFails(r, u)
      PROVE  \A q \in Runner : RunAt(q)' /\ AnsweredAt(q)'
  <2>1. /\ run'[r].pc = "send" /\ run'[r].todo = run[r].todo \ {u}
        /\ \A q \in Runner : q # r => run'[q] = run[q]
    BY <1>7, PassesOver
  <2>2. now' = now /\ answered' = answered
    BY <1>7 DEF SendFails
  <2> QED
    BY <2>1, <2>2
<1>8. ASSUME NEW r \in Runner, Mark(r)
      PROVE  \A q \in Runner : RunAt(q)' /\ AnsweredAt(q)'
  BY <1>8, Marks, Ends DEF Mark
<1>9. ASSUME NEW r \in Runner, MarkFails(r) \/ Finish(r)
      PROVE  \A q \in Runner : RunAt(q)' /\ AnsweredAt(q)'
  BY <1>9, Ends DEF MarkFails, Finish
<1> QED
  BY <1>1, <1>2, <1>3, <1>4, <1>5, <1>6, <1>7, <1>8, <1>9
     DEF Next, RunDue, RemindNow, Runner

-----------------------------------------------------------------------------
(* Whom the job has reminded.                                              *)

LEMMA AutoStep ==
    ASSUME TypeOK, \A r \in Runner : RunAt(r), \A u \in User : AutoAt(u), [Next]_vars
    PROVE  \A u \in User : AutoAt(u)'
<1> SUFFICES ASSUME NEW v \in User, v \notin unmarked'
             PROVE  /\ auto'[v] <= 1
                    /\ Listed(Job, v)' => auto'[v] = 0
                    /\ auto'[v] # 0 => sentAt'[v] # Never \/ event' = "gone" \/ Marking(Job, v)'
  BY DEF AutoAt
<1> DEFINE Kept == /\ auto'[v] <= 1
                   /\ Listed(Job, v)' => auto'[v] = 0
                   /\ auto'[v] # 0 => sentAt'[v] # Never \/ event' = "gone" \/ Marking(Job, v)'
<1> USE DEF history, Listed, Marking, At
<1>0. Job \in Runner /\ auto[v] \in 0 .. 2 /\ run \in [Runner -> Runs]
  BY RunsTyped DEF Runner, TypeOK, CountedAutos
<1>1. v \notin unmarked
  BY DEF Next, Tick, UpdateSettings, ChangeEvent, Answer, RunDue, RemindNow, Begin, ListOpen,
         Send, SendFails, Mark, MarkFails, Finish, vars
<1>2. /\ auto[v] <= 1
      /\ Listed(Job, v) => auto[v] = 0
      /\ auto[v] # 0 => sentAt[v] # Never \/ event = "gone" \/ Marking(Job, v)
  BY <1>1 DEF AutoAt
<1>3. CASE Tick \/ UpdateSettings \/ (\E u \in User : Answer(u)) \/ UNCHANGED vars
  BY <1>2, <1>3 DEF Tick, UpdateSettings, Answer, vars
<1>4. CASE ChangeEvent
  BY <1>2, <1>4 DEF ChangeEvent
<1>5. ASSUME NEW r \in Runner, Begin(r), UNCHANGED <<now, event, hours, answered, sentAt>>
      PROVE  Kept
  BY <1>0, <1>2, <1>5, Moves DEF Begin
<1>6. ASSUME NEW r \in Runner, ListOpen(r)
      PROVE  Kept
  <2>1. CASE r = Job
    BY <1>2, <1>6, <2>1, Lists DEF ListOpen, Open, Recipient
  <2>2. CASE r # Job
    BY <1>0, <1>2, <1>6, <2>2, Lists DEF ListOpen
  <2> QED
    BY <2>1, <2>2
<1>7. ASSUME NEW r \in Runner, NEW u \in User, Send(r, u)
      PROVE  Kept
  <2>1. CASE r = Job /\ u = v
    <3>1. auto[v] = 0 /\ auto'[v] = 1
      BY <1>2, <1>7, <2>1 DEF Send, TypeOK, CountedAutos
    <3> QED
      BY <1>7, <2>1, <3>1, Sends
  <2>2. CASE r = Job /\ u # v
    <3>1. auto'[v] = auto[v] /\ sentAt' = sentAt /\ event' = event /\ run[Job].pc = "send"
      BY <1>7, <2>2 DEF Send, TypeOK
    <3> QED
      BY <1>2, <1>7, <2>2, <3>1, Sends
  <2>3. CASE r # Job
    BY <1>0, <1>2, <1>7, <2>3, Sends DEF Send
  <2> QED
    BY <2>1, <2>2, <2>3
<1>8. ASSUME NEW r \in Runner, NEW u \in User, SendFails(r, u)
      PROVE  Kept
  BY <1>0, <1>2, <1>8, PassesOver DEF SendFails
<1>9. ASSUME NEW r \in Runner, Mark(r)
      PROVE  Kept
  <2>1. CASE event = "gone"
    BY <1>0, <1>2, <1>9, <2>1, Ends DEF Mark
  <2>2. CASE event # "gone"
    <3>1. now # Never
      BY RemindersAssumption DEF TypeOK, Never
    <3>2. sentAt'[v] = sentAt[v] \/ sentAt'[v] # Never
      BY <1>9, <2>2, <3>1 DEF Mark, TypeOK
    <3>3. Marking(r, v) => sentAt'[v] # Never
      BY <1>9, <2>2, <3>1 DEF Mark, TypeOK
    <3>4. auto' = auto /\ event' = event
      BY <1>9 DEF Mark
    <3> QED
      BY <1>0, <1>2, <1>9, <2>2, <3>2, <3>3, <3>4, Marks DEF Mark
  <2> QED
    BY <2>1, <2>2
<1>10. ASSUME NEW r \in Runner, MarkFails(r)
       PROVE  Kept
  BY <1>0, <1>2, <1>10, Ends DEF MarkFails
<1>11. ASSUME NEW r \in Runner, Finish(r)
       PROVE  Kept
  BY <1>0, <1>2, <1>11, Ends DEF Finish
<1> QED
  BY <1>3, <1>4, <1>5, <1>6, <1>7, <1>8, <1>9, <1>10, <1>11 DEF Next, RunDue, RemindNow, Runner

-----------------------------------------------------------------------------
(* The cooldown.                                                           *)

\* Who is not in a run that is alone has listed nobody and mails nobody.
LEMMA OthersIdle ==
    ASSUME Alone, \A r \in Runner : RunAt(r), NEW r \in Runner, ~ At(r, "idle"),
           NEW q \in Runner, q # r
    PROVE  run[q].pc = "idle" /\ run[q].todo = {}
BY DEF Alone, RunAt, At

LEMMA OverlapStays == [Next]_vars /\ ~ overlapped' => ~ overlapped
<1> SUFFICES ASSUME [Next]_vars, overlapped PROVE overlapped'
  OBVIOUS
<1> USE DEF history
<1>1. ASSUME NEW r \in Runner, Begin(r)
      PROVE  overlapped'
  BY <1>1 DEF Begin
<1>2. CASE UNCHANGED overlapped
  BY <1>2
<1> QED
  BY <1>1, <1>2 DEF Next, Tick, UpdateSettings, ChangeEvent, Answer, RunDue, RemindNow, ListOpen,
         Send, SendFails, Mark, MarkFails, Finish, vars, Runner

LEMMA CooldownStep ==
    ASSUME IInv, [Next]_vars, ~ overlapped'
    PROVE  Alone' /\ \A v \in User : CooldownAt(v)'
<1> USE DEF history, Listed, Marking, At
<1> DEFINE Kept == Alone' /\ \A v \in User : CooldownAt(v)'
<1>0. /\ TypeOK /\ run \in [Runner -> Runs] /\ Alone
      /\ \A r \in Runner : RunAt(r)
      /\ \A v \in User : CooldownAt(v)
  BY OverlapStays, RunsTyped DEF IInv
<1>1. CASE Tick
  <2>1. \A r \in Runner : run[r].pc = "idle" /\ run[r].todo = {}
    BY <1>0, <1>1 DEF Tick, Quiet, RunAt
  <2>2. /\ run' = run /\ event' = event /\ sentAt' = sentAt /\ remindedAt' = remindedAt
        /\ unmarked' = unmarked /\ tooSoon' = tooSoon
    BY <1>1 DEF Tick
  <2> QED
    BY <1>0, <2>1, <2>2 DEF Alone, CooldownAt
<1>2. CASE UpdateSettings \/ (\E u \in User : Answer(u)) \/ UNCHANGED vars
  <2>1. /\ run' = run /\ event' = event /\ sentAt' = sentAt /\ remindedAt' = remindedAt
        /\ unmarked' = unmarked /\ tooSoon' = tooSoon /\ now' = now
    BY <1>2 DEF UpdateSettings, Answer, vars
  <2> QED
    BY <1>0, <2>1 DEF Alone, CooldownAt, Old
<1>3. CASE ChangeEvent
  <2>1. /\ run' = run /\ remindedAt' = remindedAt /\ event # "gone"
        /\ unmarked' = unmarked /\ tooSoon' = tooSoon /\ now' = now
        /\ event' = "gone" \/ sentAt' = sentAt
    BY <1>3 DEF ChangeEvent
  <2> QED
    BY <1>0, <2>1 DEF Alone, CooldownAt, Old
<1>4. ASSUME NEW r \in Runner, Begin(r), UNCHANGED <<now, event, hours, answered, sentAt>>
      PROVE  Kept
  <2>1. \A q \in Runner : run[q].pc = "idle" /\ run[q].todo = {}
    BY <1>0, <1>4 DEF Begin, Quiet, RunAt
  <2>2. /\ run'[r].pc = "list" /\ run'[r].todo = {}
        /\ \A q \in Runner : q # r => run'[q] = run[q]
    BY <1>0, <1>4, <2>1, Moves DEF Begin
  <2>3. /\ event' = event /\ sentAt' = sentAt /\ remindedAt' = remindedAt
        /\ unmarked' = unmarked /\ tooSoon' = tooSoon /\ now' = now
    BY <1>4 DEF Begin
  <2> QED
    BY <1>0, <2>1, <2>2, <2>3 DEF Alone, CooldownAt
<1>5. ASSUME NEW r \in Runner, ListOpen(r)
      PROVE  Kept
  <2>1. /\ run[r].pc = "list" /\ run'[r].pc = "send"
        /\ run'[r].todo = {u \in Open : Recipient(r, u)}
        /\ \A q \in Runner : q # r => run'[q] = run[q]
    BY <1>0, <1>5, Lists DEF ListOpen
  <2>2. \A q \in Runner : q # r => run[q].pc = "idle" /\ run[q].todo = {}
    BY <1>0, <2>1, OthersIdle
  <2>3. /\ event' = event /\ sentAt' = sentAt /\ remindedAt' = remindedAt
        /\ unmarked' = unmarked /\ tooSoon' = tooSoon /\ now' = now
    BY <1>5 DEF ListOpen
  <2>4. ASSUME NEW v \in User, v \notin unmarked, v \in Open, Recipient(r, v)
        PROVE  Old(v)
    BY <1>0, <2>1, <2>2, <2>4 DEF CooldownAt, Open, Recipient, Old
  <2>5. \A v \in User : Old(v) => Old(v)'
    BY <2>3 DEF Old
  <2> QED
    BY <1>0, <2>1, <2>2, <2>3, <2>4, <2>5 DEF Alone, CooldownAt
<1>6. ASSUME NEW r \in Runner, NEW u \in User, Send(r, u)
      PROVE  Kept
  <2>1. /\ run'[r].pc = "mark" /\ run'[r].todo = run[r].todo /\ run'[r].user = u
        /\ \A q \in Runner : q # r => run'[q] = run[q]
    BY <1>0, <1>6, Sends
  <2>2. /\ run[r].pc = "send" /\ u \in run[r].todo
        /\ event' = event /\ sentAt' = sentAt /\ now' = now /\ unmarked' = unmarked
        /\ remindedAt' = [remindedAt EXCEPT ![u] = now]
    BY <1>6 DEF Send
  <2>3. \A q \in Runner : q # r => run[q].pc = "idle" /\ run[q].todo = {}
    BY <1>0, <2>2, OthersIdle
  <2>4. u \notin unmarked => Old(u)
    BY <1>0, <2>2 DEF CooldownAt
  <2>5. \A v \in User : v \notin unmarked => v \notin tooSoon'
    <3>1. CASE tooSoon' = tooSoon
      BY <1>0, <2>2, <3>1 DEF CooldownAt
    <3>2. CASE tooSoon' # tooSoon
      <4>1. tooSoon' = tooSoon \union {u} /\ remindedAt[u] # Never /\ now - remindedAt[u] < Cooldown
        BY <1>6, <3>2 DEF Send
      <4>2. remindedAt[u] \in Int /\ now \in Int /\ Cooldown \in Int
        BY <1>0, RemindersAssumption DEF TypeOK, Never
      <4>3. u \in unmarked
        BY <2>4, <4>1, <4>2 DEF Old
      <4> QED
        BY <1>0, <4>1, <4>3 DEF CooldownAt
    <3> QED
      BY <3>1, <3>2
  <2>6. remindedAt'[u] = now /\ \A v \in User : v # u => remindedAt'[v] = remindedAt[v]
    BY <1>0, <2>2 DEF TypeOK
  <2>7. Alone'
    BY <1>0, <2>1, <2>2, <2>3 DEF Alone
  <2>8. CooldownAt(u)'
    BY <2>1, <2>2, <2>3, <2>5, <2>6 DEF CooldownAt
  <2>9. ASSUME NEW v \in User, v # u
        PROVE  CooldownAt(v)'
    BY <1>0, <2>1, <2>2, <2>3, <2>5, <2>6, <2>9 DEF CooldownAt, Old
  <2> QED
    BY <2>7, <2>8, <2>9
<1>7. ASSUME NEW r \in Runner, NEW u \in User, SendFails(r, u)
      PROVE  Kept
  <2>1. /\ run'[r].pc = "send" /\ run'[r].todo = run[r].todo \ {u}
        /\ \A q \in Runner : q # r => run'[q] = run[q]
    BY <1>0, <1>7, PassesOver
  <2>2. /\ run[r].pc = "send" /\ event' = event /\ sentAt' = sentAt /\ now' = now
        /\ remindedAt' = remindedAt /\ unmarked' = unmarked /\ tooSoon' = tooSoon
    BY <1>7 DEF SendFails
  <2> QED
    BY <1>0, <2>1, <2>2 DEF Alone, CooldownAt, Old
<1>8. ASSUME NEW r \in Runner, Mark(r)
      PROVE  Kept
  <2>1. /\ run[r].pc = "mark" /\ event' = event /\ now' = now
        /\ remindedAt' = remindedAt /\ unmarked' = unmarked /\ tooSoon' = tooSoon
    BY <1>8 DEF Mark
  <2>2. \A q \in Runner : q # r => run[q].pc = "idle" /\ run[q].todo = {}
    BY <1>0, <2>1, OthersIdle
  <2>3. CASE event = "gone"
    <3>1. /\ run'[r].pc = "idle" /\ run'[r].todo = {}
          /\ \A q \in Runner : q # r => run'[q] = run[q]
      BY <1>0, <1>8, <2>3, Ends DEF Mark
    <3> QED
      BY <1>0, <2>1, <2>2, <2>3, <3>1 DEF Alone, CooldownAt
  <2>4. CASE event # "gone"
    <3>1. /\ run'[r].pc = "send" /\ run'[r].todo = run[r].todo \ {run[r].user}
          /\ \A q \in Runner : q # r => run'[q] = run[q]
      BY <1>0, <1>8, <2>4, Marks
    <3>2. \A v \in User : sentAt'[v] = IF v = run[r].user THEN now ELSE sentAt[v]
      BY <1>0, <1>8, <2>4 DEF Mark, TypeOK
    <3>3. Alone'
      BY <1>0, <2>1, <2>2, <3>1 DEF Alone
    <3>4. ASSUME NEW v \in User, v \notin unmarked
          PROVE  sentAt'[v] = remindedAt[v]
      <4>1. CASE v = run[r].user
        BY <1>0, <2>1, <2>2, <2>4, <3>2, <3>4, <4>1 DEF CooldownAt
      <4>2. CASE v # run[r].user
        BY <1>0, <2>1, <2>2, <2>4, <3>2, <3>4, <4>2 DEF CooldownAt
      <4> QED
        BY <4>1, <4>2
    <3>5. ASSUME NEW v \in User
          PROVE  CooldownAt(v)'
      BY <1>0, <2>1, <2>2, <3>1, <3>4 DEF CooldownAt, Old
    <3> QED
      BY <3>3, <3>5
  <2> QED
    BY <2>3, <2>4
<1>9. ASSUME NEW r \in Runner, MarkFails(r)
      PROVE  Kept
  <2>1. /\ run[r].pc = "mark" /\ event' = event /\ now' = now /\ sentAt' = sentAt
        /\ remindedAt' = remindedAt /\ unmarked' = unmarked \union {run[r].user}
        /\ tooSoon' = tooSoon
    BY <1>9 DEF MarkFails
  <2>2. \A q \in Runner : q # r => run[q].pc = "idle" /\ run[q].todo = {}
    BY <1>0, <2>1, OthersIdle
  <2>3. /\ run'[r].pc = "idle" /\ run'[r].todo = {}
        /\ \A q \in Runner : q # r => run'[q] = run[q]
    BY <1>0, <1>9, Ends DEF MarkFails
  <2> QED
    BY <1>0, <2>1, <2>2, <2>3 DEF Alone, CooldownAt, Old
<1>10. ASSUME NEW r \in Runner, Finish(r)
       PROVE  Kept
  <2>1. /\ run[r].pc = "send" /\ event' = event /\ now' = now /\ sentAt' = sentAt
        /\ remindedAt' = remindedAt /\ unmarked' = unmarked /\ tooSoon' = tooSoon
    BY <1>10 DEF Finish
  <2>2. /\ run'[r].pc = "idle" /\ run'[r].todo = {}
        /\ \A q \in Runner : q # r => run'[q] = run[q]
    BY <1>0, <1>10, Ends DEF Finish
  <2> QED
    BY <1>0, <2>1, <2>2 DEF Alone, CooldownAt, Old
<1> QED
  BY <1>1, <1>2, <1>3, <1>4, <1>5, <1>6, <1>7, <1>8, <1>9, <1>10 DEF Next, RunDue, RemindNow, Runner

-----------------------------------------------------------------------------
(* Who has answered.                                                       *)

LEMMA OnlyOpenStep ==
    ASSUME IInv, [Next]_vars
    PROVE  OnlyOpenReminded'
<1> USE DEF history, OnlyOpenReminded
<1>0. TypeOK /\ OnlyOpenReminded
  BY DEF IInv
<1>1. CASE UNCHANGED <<answered, remindedAt>>
  BY <1>0, <1>1
<1>2. ASSUME NEW u \in User, Answer(u)
      PROVE  OnlyOpenReminded'
  <2>1. remindedAt[u] <= now
    BY <1>0, RemindersAssumption DEF TypeOK, Never
  <2>2. \A v \in User : v # u => answered'[v] = answered[v]
    BY <1>0, <1>2 DEF Answer, TypeOK
  <2>3. answered'[u] \in {now, Never} /\ remindedAt' = remindedAt
    BY <1>0, <1>2 DEF Answer, TypeOK
  <2> QED
    BY <1>0, <2>1, <2>2, <2>3
<1>3. ASSUME NEW r \in Runner, NEW u \in User, Send(r, u)
      PROVE  OnlyOpenReminded'
  <2>1. answered[u] \in {Never, now}
    BY <1>3 DEF Send, IInv, AnsweredAt
  <2>2. answered' = answered /\ remindedAt' = [remindedAt EXCEPT ![u] = now]
    BY <1>3 DEF Send
  <2>3. now \in Int
    BY <1>0, RemindersAssumption DEF TypeOK
  <2> QED
    BY <1>0, <2>1, <2>2, <2>3 DEF TypeOK
<1> QED
  BY <1>1, <1>2, <1>3 DEF Next, Tick, UpdateSettings, ChangeEvent, RunDue, RemindNow, Begin,
         ListOpen, SendFails, Mark, MarkFails, Finish, vars

-----------------------------------------------------------------------------
(* The theorems.                                                           *)

LEMMA InvInit == Init => IInv
<1> SUFFICES ASSUME Init PROVE IInv
  OBVIOUS
<1>1. \A r \in Runner : run[r].pc = "idle" /\ run[r].todo = {}
  BY IdleTyped DEF Init
<1>2. Job \in Runner
  BY DEF Runner
<1>3. /\ \A u \in User : /\ sentAt[u] = Never /\ remindedAt[u] = Never /\ answered[u] = Never
                          /\ auto[u] = 0
      /\ tooSoon = {}
  BY DEF Init
<1>4. \A u \in User : AutoAt(u) /\ CooldownAt(u)
  BY <1>1, <1>2, <1>3 DEF AutoAt, CooldownAt, Listed, Marking, At
<1> QED
  BY <1>1, <1>3, <1>4, TypeInit DEF IInv, RunAt, AnsweredAt, Alone, At, OnlyOpenReminded

LEMMA InvStep == IInv /\ [Next]_vars => IInv'
<1> SUFFICES ASSUME IInv, [Next]_vars
             PROVE  IInv'
  OBVIOUS
<1> QED
  BY TypeStep, RunsStep, AutoStep, CooldownStep, OnlyOpenStep DEF IInv

LEMMA Invariant == Spec => []IInv
BY InvInit, InvStep, PTL DEF Spec

\* Clocks, answers, reminders and runs have their types.
THEOREM RemindersTyped == Spec => []TypeOK
<1>1. IInv => TypeOK
  BY DEF IInv
<1> QED
  BY <1>1, Invariant, PTL

\* The job reminds nobody twice whose reminder it could mark.
THEOREM RemindersAutoOnce == Spec => []AutoOnce
<1>1. IInv => AutoOnce
  BY DEF IInv, AutoAt, AutoOnce
<1> QED
  BY <1>1, Invariant, PTL

\* As long as no two runs are under way at once, nobody is reminded by hand
\* within the cooldown whose last reminder could be marked.
THEOREM RemindersCooldownKept == Spec => []CooldownKept
<1>1. IInv => CooldownKept
  BY DEF IInv, TypeOK, CooldownAt, CooldownKept
<1> QED
  BY <1>1, Invariant, PTL

\* Nobody is reminded after an answer of an earlier hour.
THEOREM RemindersOnlyOpen == Spec => []OnlyOpenReminded
<1>1. IInv => OnlyOpenReminded
  BY DEF IInv
<1> QED
  BY <1>1, Invariant, PTL
================================================================================
