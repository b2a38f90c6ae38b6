-------------------------- MODULE OfflineSweepsProofs --------------------------
(***************************************************************************)
(* The queue of offline sweeps implements SweepDelivery, for any number of *)
(* sweeps, notes, folders, tabs and sessions: every step of a screen, of a *)
(* push, of a reload or of the connection is a step of the promise, or     *)
(* leaves the variables of the promise alone.                              *)
(***************************************************************************)
EXTENDS OfflineSweeps, TLAPS

\* The server holds s in full.
Full(s) == \E x \in Session : /\ of[x] = s /\ session[x] = "done"
                              /\ closedWith[s] \subseteq got[x]

-----------------------------------------------------------------------------
(* The invariant.                                                          *)

\* What was recorded when a sweep was finished is still in its entry.
Kept == \A s \in Sweep : entry[s] = "completed" => closedWith[s] \subseteq seen[s]

\* Of what is replayed, nothing is lost: it is queued, or on the server.
Handed(s) == entry[s] = "completed" \/ (entry[s] = "gone" /\ Full(s))

Sessions ==
    \A x \in Session :
       /\ session[x] = "unused" => of[x] = NoSweep
       /\ session[x] # "unused" => of[x] \in Sweep
       /\ \A s \in Sweep : of[x] = s => Handed(s)

\* A push has a copy of each sweep that holds at least what was recorded when
\* it was finished.
CopiesAt(t) ==
    \A s \in push[t].todo : Handed(s) /\ closedWith[s] \subseteq push[t].copy[s]

\* It replays one of them in a session of that sweep, and has posted what it
\* has not left.
Replays(p) ==
    /\ p.sweep \in p.todo /\ p.session \in Session
    /\ session[p.session] # "unused" /\ of[p.session] = p.sweep
    /\ closedWith[p.sweep] \subseteq got[p.session] \union p.left
    /\ p.pc = "delete" => session[p.session] = "done" /\ p.left = {}

PushAt(t) == CopiesAt(t) /\ (push[t].pc \in {"sight", "delete"} => Replays(push[t]))

IInv == TypeOK /\ Kept /\ Sessions /\ \A t \in Tab : PushAt(t)
-----------------------------------------------------------------------------
(* Types.  Each update of a screen or of a push is stated once, as an      *)
(* update of the record of tab t.                                          *)

LEMMA IdleTyped ==
    /\ Idle \in Screen /\ Idle.at = "idle"
    /\ NoPush \in Push /\ NoPush.todo = {} /\ NoPush.pc = "idle"
BY DEF Idle, NoPush, Screen, Push

\* A screen moves on with the sweep it has.
LEMMA Goes ==
    ASSUME TypeOK, NEW t \in Tab, NEW a \in {"finishing", "cancelling"},
           screen[t].at = "sweeping", Go(t, a)
    PROVE  /\ screen' \in [Tab -> Screen]
           /\ \A u \in Tab : screen'[u].at \notin {"idle", "starting"} => screen'[u].sweep \in Sweep
<1> DEFINE c == [screen[t] EXCEPT !.at = a]
<1>1. screen' = [screen EXCEPT ![t] = c]
  BY DEF Go
<1>2. screen[t] \in Screen /\ screen[t].sweep \in Sweep
  BY DEF TypeOK
<1>3. c \in Screen /\ c.sweep = screen[t].sweep
  BY <1>2 DEF Screen
<1> QED
  BY <1>1, <1>2, <1>3 DEF TypeOK

LEMMA Skips ==
    ASSUME push \in [Tab -> Push], NEW t \in Tab, NEW s, SkipSweep(t, s)
    PROVE  /\ push' \in [Tab -> Push]
           /\ push'[t].pc = "next"
           /\ push'[t].todo = push[t].todo \ {s} /\ push'[t].copy = push[t].copy
           /\ \A u \in Tab : u # t => push'[u] = push[u]
<1> DEFINE p == [push[t] EXCEPT !.pc = "next", !.todo = @ \ {s}, !.sweep = NoSweep,
                               !.session = NoSession, !.left = {}]
<1>1. push' = [push EXCEPT ![t] = p]
  BY DEF SkipSweep
<1>2. p \in Push /\ p.pc = "next" /\ p.todo = push[t].todo \ {s} /\ p.copy = push[t].copy
  BY DEF Push
<1> QED
  BY <1>1, <1>2

LEMMA Begins ==
    ASSUME push \in [Tab -> Push], NEW t \in Tab, NEW s \in Sweep, NEW x \in Session,
           Replay(t, s, x)
    PROVE  /\ push' \in [Tab -> Push]
           /\ push'[t].pc = "sight" /\ push'[t].sweep = s /\ push'[t].session = x
           /\ push'[t].left = push[t].copy[s]
           /\ push'[t].todo = push[t].todo /\ push'[t].copy = push[t].copy
           /\ \A u \in Tab : u # t => push'[u] = push[u]
<1> DEFINE p == [push[t] EXCEPT !.pc = "sight", !.sweep = s, !.session = x,
                               !.left = push[t].copy[s]]
<1>1. push' = [push EXCEPT ![t] = p]
  BY DEF Replay
<1>2. push[t] \in Push /\ push[t].copy[s] \in SUBSET Note
  BY DEF Push
<1>3. /\ p.pc = "sight" /\ p.sweep = s /\ p.session = x
      /\ p.left = push[t].copy[s] /\ p.todo = push[t].todo /\ p.copy = push[t].copy
  BY <1>2 DEF Push
<1>4. p \in Push
  BY <1>2 DEF Push
<1> QED
  BY <1>1, <1>3, <1>4

LEMMA Posts ==
    ASSUME push \in [Tab -> Push], NEW t \in Tab, NEW n \in Note,
           push' = [push EXCEPT ![t].left = @ \ {n}]
    PROVE  /\ push' \in [Tab -> Push]
           /\ push'[t].pc = push[t].pc /\ push'[t].sweep = push[t].sweep
           /\ push'[t].session = push[t].session /\ push'[t].left = push[t].left \ {n}
           /\ push'[t].todo = push[t].todo /\ push'[t].copy = push[t].copy
           /\ \A u \in Tab : u # t => push'[u] = push[u]
<1> DEFINE p == [push[t] EXCEPT !.left = @ \ {n}]
<1>1. push' = [push EXCEPT ![t] = p]
  OBVIOUS
<1>2. /\ p \in Push /\ p.pc = push[t].pc /\ p.sweep = push[t].sweep
      /\ p.session = push[t].session /\ p.left = push[t].left \ {n}
      /\ p.todo = push[t].todo /\ p.copy = push[t].copy
  BY DEF Push
<1> QED
  BY <1>1, <1>2

LEMMA Completes ==
    ASSUME push \in [Tab -> Push], NEW t \in Tab,
           push' = [push EXCEPT ![t].pc = "delete"]
    PROVE  /\ push' \in [Tab -> Push]
           /\ push'[t].pc = "delete" /\ push'[t].sweep = push[t].sweep
           /\ push'[t].session = push[t].session /\ push'[t].left = push[t].left
           /\ push'[t].todo = push[t].todo /\ push'[t].copy = push[t].copy
           /\ \A u \in Tab : u # t => push'[u] = push[u]
<1> DEFINE p == [push[t] EXCEPT !.pc = "delete"]
<1>1. push' = [push EXCEPT ![t] = p]
  OBVIOUS
<1>2. /\ p \in Push /\ p.pc = "delete" /\ p.sweep = push[t].sweep
      /\ p.session = push[t].session /\ p.left = push[t].left
      /\ p.todo = push[t].todo /\ p.copy = push[t].copy
  BY DEF Push
<1> QED
  BY <1>1, <1>2

LEMMA Starts ==
    ASSUME TypeOK, NEW t \in Tab, StartPush(t)
    PROVE  /\ push' \in [Tab -> Push]
           /\ push'[t].pc = "next"
           /\ push'[t].todo = Completed /\ push'[t].copy = seen
           /\ \A u \in Tab : u # t => push'[u] = push[u]
<1> DEFINE p == [NoPush EXCEPT !.pc = "next", !.todo = Completed, !.copy = seen]
<1>1. push' = [push EXCEPT ![t] = p]
  BY DEF StartPush
<1>2. p \in Push /\ p.pc = "next" /\ p.todo = Completed /\ p.copy = seen
  BY DEF NoPush, Push, TypeOK, Completed
<1> QED
  BY <1>1, <1>2 DEF TypeOK

LEMMA TypeInit == Init => TypeOK
<1> SUFFICES ASSUME Init PROVE TypeOK
  OBVIOUS
<1>1. screen \in [Tab -> Screen] /\ push \in [Tab -> Push]
  BY IdleTyped DEF Init
<1>2. \A t \in Tab : screen[t].at = "idle"
  BY IdleTyped DEF Init
<1> QED
  BY <1>1, <1>2 DEF Init, TypeOK

LEMMA TypeScreen ==
    ASSUME TypeOK, NEW t \in Tab, ScreenStep(t)
    PROVE  TypeOK'
<1> USE DEF queue, server
<1>1. ASSUME NEW f \in Folder, StartSweep(t, f)
      PROVE  TypeOK'
  <2> DEFINE c == [Idle EXCEPT !.at = "starting", !.folder = f]
  <2>1. c \in Screen /\ c.at = "starting"
    BY DEF Idle, Screen
  <2>2. screen' = [screen EXCEPT ![t] = c]
    BY <1>1 DEF StartSweep
  <2>3. entry' \in [Sweep -> {"unused", "open", "completed", "gone"}]
    BY <1>1 DEF StartSweep, DropIncomplete, TypeOK
  <2>4. /\ screen' \in [Tab -> Screen]
        /\ \A u \in Tab : screen'[u].at \notin {"idle", "starting"} => screen'[u].sweep \in Sweep
    BY <2>1, <2>2 DEF TypeOK
  <2> QED
    BY <1>1, <2>3, <2>4 DEF StartSweep, TypeOK
<1>2. ASSUME NEW s \in Sweep, CreateEntry(t, s)
      PROVE  TypeOK'
  <2> DEFINE c == [screen[t] EXCEPT !.at = "sweeping", !.sweep = s]
  <2>1. screen[t] \in Screen
    BY DEF TypeOK
  <2>2. c \in Screen /\ c.sweep = s /\ screen[t].folder \in Folder \union {NoFolder}
    BY <2>1 DEF Screen
  <2>3. screen' = [screen EXCEPT ![t] = c]
    BY <1>2 DEF CreateEntry
  <2>4. /\ screen' \in [Tab -> Screen]
        /\ \A u \in Tab : screen'[u].at \notin {"idle", "starting"} => screen'[u].sweep \in Sweep
    BY <2>2, <2>3 DEF TypeOK
  <2> QED
    BY <1>2, <2>2, <2>4 DEF CreateEntry, TypeOK
<1>3. ASSUME NEW n \in Note, RecordSighting(t, n)
      PROVE  TypeOK'
  BY <1>3 DEF RecordSighting, TypeOK
<1>4. CASE FinishSweep(t)
  <2>1. screen[t].at = "sweeping" /\ Go(t, "finishing")
    BY <1>4 DEF FinishSweep
  <2>2. /\ entry' \in [Sweep -> {"unused", "open", "completed", "gone"}]
        /\ closedWith' \in [Sweep -> SUBSET Note]
    BY <1>4 DEF FinishSweep, TypeOK
  <2>3. /\ screen' \in [Tab -> Screen]
        /\ \A u \in Tab : screen'[u].at \notin {"idle", "starting"} => screen'[u].sweep \in Sweep
    BY <2>1, Goes
  <2> QED
    BY <1>4, <2>2, <2>3 DEF FinishSweep, TypeOK
<1>5. CASE CancelSweep(t)
  <2>1. screen[t].at = "sweeping" /\ Go(t, "cancelling")
    BY <1>5 DEF CancelSweep
  <2>2. entry' \in [Sweep -> {"unused", "open", "completed", "gone"}]
    BY <1>5 DEF CancelSweep, DropIncomplete, TypeOK
  <2>3. /\ screen' \in [Tab -> Screen]
        /\ \A u \in Tab : screen'[u].at \notin {"idle", "starting"} => screen'[u].sweep \in Sweep
    BY <2>1, Goes
  <2> QED
    BY <1>5, <2>2, <2>3 DEF CancelSweep, TypeOK
<1>6. CASE ShowResult(t)
  <2>1. screen[t].sweep \in Sweep
    BY <1>6 DEF ShowResult, TypeOK
  <2>2. /\ screen' \in [Tab -> Screen]
        /\ \A u \in Tab : screen'[u].at \notin {"idle", "starting"} => screen'[u].sweep \in Sweep
    BY <1>6, IdleTyped DEF ShowResult, TypeOK
  <2> QED
    BY <1>6, <2>1, <2>2 DEF ShowResult, TypeOK
<1> QED
  BY <1>1, <1>2, <1>3, <1>4, <1>5, <1>6 DEF ScreenStep

LEMMA TypePush ==
    ASSUME TypeOK, NEW t \in Tab, PushStep(t)
    PROVE  TypeOK'
<1> USE DEF queue, server
<1>0. push \in [Tab -> Push]
  BY DEF TypeOK
<1>1. ASSUME NEW s \in Sweep, NEW x \in Session, CreateSession(t, s, x)
      PROVE  TypeOK'
  <2>1. push' \in [Tab -> Push]
    BY <1>0, <1>1, Begins, Skips DEF CreateSession
  <2> QED
    BY <1>1, <2>1 DEF CreateSession, TypeOK
<1>2. ASSUME NEW s \in Sweep, CreateRefused(t, s)
      PROVE  TypeOK'
  <2>1. push' \in [Tab -> Push]
    BY <1>0, <1>2, Skips DEF CreateRefused
  <2> QED
    BY <1>2, <2>1 DEF CreateRefused, TypeOK
<1>3. ASSUME NEW n \in Note, PostSighting(t, n)
      PROVE  TypeOK'
  <2>1. push' \in [Tab -> Push]
    BY <1>0, <1>3, Posts, Skips DEF PostSighting
  <2> QED
    BY <1>3, <2>1 DEF PostSighting, TypeOK
<1>4. CASE PostComplete(t)
  <2>1. push' \in [Tab -> Push]
    BY <1>0, <1>4, Completes, Skips DEF PostComplete
  <2> QED
    BY <1>4, <2>1 DEF PostComplete, TypeOK
<1>5. CASE PostRefused(t)
  <2>1. push' \in [Tab -> Push]
    BY <1>0, <1>5, Skips DEF PostRefused
  <2> QED
    BY <1>5, <2>1 DEF PostRefused, TypeOK
<1>6. CASE DeleteEntry(t)
  <2>1. push' \in [Tab -> Push]
    BY <1>0, <1>6, Skips DEF DeleteEntry
  <2> QED
    BY <1>6, <2>1 DEF DeleteEntry, TypeOK
<1>7. CASE Publish(t)
  <2>1. push' \in [Tab -> Push]
    BY <1>0, <1>7, IdleTyped DEF Publish
  <2> QED
    BY <1>7, <2>1 DEF Publish, TypeOK
<1> QED
  BY <1>1, <1>2, <1>3, <1>4, <1>5, <1>6, <1>7 DEF PushStep

LEMMA TypeStep == TypeOK /\ [Next]_vars => TypeOK'
<1> SUFFICES ASSUME TypeOK, [Next]_vars
             PROVE  TypeOK'
  OBVIOUS
<1> USE DEF queue, server
<1>1. ASSUME NEW t \in Tab, StartPush(t)
      PROVE  TypeOK'
  <2>1. push' \in [Tab -> Push]
    BY <1>1, Starts
  <2> QED
    BY <1>1, <2>1 DEF StartPush, TypeOK
<1>2. ASSUME NEW t \in Tab, Reload(t)
      PROVE  TypeOK'
  <2>1. /\ push' \in [Tab -> Push] /\ screen' \in [Tab -> Screen]
        /\ \A u \in Tab : screen'[u].at \notin {"idle", "starting"} => screen'[u].sweep \in Sweep
    BY <1>2, IdleTyped DEF Reload, TypeOK
  <2> QED
    BY <1>2, <2>1 DEF Reload, TypeOK
<1>3. CASE Connectivity
  BY <1>3 DEF Connectivity, TypeOK
<1>4. CASE UNCHANGED vars
  BY <1>4 DEF vars, TypeOK
<1> QED
  BY <1>1, <1>2, <1>3, <1>4, TypeScreen, TypePush DEF Next

\* Entries, sessions, screens and pushes have their types, and a screen past
\* the start of a sweep has one.
THEOREM OfflineSweepsTyped == Spec => []TypeOK
BY TypeInit, TypeStep, PTL DEF Spec
-----------------------------------------------------------------------------
(* What a step leaves behind: a session in use stays what it is, and a     *)
(* sweep that is handed over stays so, with what it held.                  *)

Onwards ==
    \A x \in Session : session[x] # "unused" =>
       /\ session'[x] # "unused" /\ of'[x] = of[x] /\ got[x] \subseteq got'[x]
       /\ session[x] = "done" => session'[x] = "done"

LEMMA ServerGoesOn ==
    ASSUME TypeOK, [Next]_vars
    PROVE  Onwards
<1> USE DEF Onwards, queue, server
<1>1. ASSUME NEW t \in Tab, NEW s \in Sweep, NEW x \in Session, CreateSession(t, s, x)
      PROVE  Onwards
  BY <1>1 DEF CreateSession, TypeOK
<1>2. ASSUME NEW t \in Tab, NEW n \in Note, PostSighting(t, n)
      PROVE  Onwards
  BY <1>2 DEF PostSighting, TypeOK
<1>3. ASSUME NEW t \in Tab, PostComplete(t)
      PROVE  Onwards
  BY <1>3 DEF PostComplete, TypeOK
<1>4. CASE UNCHANGED server
  BY <1>4
<1>5. ASSUME NEW t \in Tab, ScreenStep(t)
      PROVE  UNCHANGED server
  BY <1>5 DEF ScreenStep, StartSweep, CreateEntry, RecordSighting, FinishSweep, CancelSweep,
              ShowResult
<1>6. ASSUME NEW t \in Tab, PushStep(t)
      PROVE  Onwards
  BY <1>1, <1>2, <1>3, <1>4, <1>6
     DEF PushStep, CreateRefused, PostRefused, DeleteEntry, Publish
<1>7. ASSUME NEW t \in Tab, StartPush(t) \/ Reload(t)
      PROVE  UNCHANGED server
  BY <1>7 DEF StartPush, Reload
<1> QED
  BY <1>4, <1>5, <1>6, <1>7 DEF Next, Connectivity, vars

LEMMA FullKept ==
    ASSUME Onwards, NEW s \in Sweep, closedWith'[s] = closedWith[s], Full(s)
    PROVE  Full(s)'
BY DEF Onwards, Full

\* The screen touches no sweep that was handed over.
LEMMA ScreenLeaves ==
    ASSUME TypeOK, NEW t \in Tab, ScreenStep(t),
           NEW s \in Sweep, entry[s] \in {"completed", "gone"}
    PROVE  entry'[s] = entry[s] /\ closedWith'[s] = closedWith[s]
<1> USE DEF queue, server, TypeOK
<1>1. ASSUME NEW f \in Folder, StartSweep(t, f)
      PROVE  entry'[s] = entry[s] /\ closedWith'[s] = closedWith[s]
  BY <1>1 DEF StartSweep, DropIncomplete
<1>2. ASSUME NEW r \in Sweep, CreateEntry(t, r)
      PROVE  entry'[s] = entry[s] /\ closedWith'[s] = closedWith[s]
  BY <1>2 DEF CreateEntry
<1>3. ASSUME NEW n \in Note, RecordSighting(t, n)
      PROVE  entry'[s] = entry[s] /\ closedWith'[s] = closedWith[s]
  BY <1>3 DEF RecordSighting
<1>4. CASE FinishSweep(t)
  BY <1>4 DEF FinishSweep
<1>5. CASE CancelSweep(t)
  BY <1>5 DEF CancelSweep, DropIncomplete
<1>6. CASE ShowResult(t)
  BY <1>6 DEF ShowResult
<1> QED
  BY <1>1, <1>2, <1>3, <1>4, <1>5, <1>6 DEF ScreenStep

\* Of the steps of a push, only the deletion touches the queue.
LEMMA PushLeaves ==
    ASSUME NEW t \in Tab, PushStep(t)
    PROVE  DeleteEntry(t) \/ UNCHANGED queue
BY DEF PushStep, CreateSession, CreateRefused, PostSighting, PostComplete, PostRefused, Publish

\* What a push deletes is on the server in full.
LEMMA DeletesDelivered ==
    ASSUME IInv, NEW t \in Tab, DeleteEntry(t)
    PROVE  push[t].sweep \in Sweep /\ Full(push[t].sweep)
<1>1. push[t].pc = "delete" /\ push[t] \in Push
  BY DEF DeleteEntry, IInv, TypeOK
<1>2. Replays(push[t])
  BY <1>1 DEF IInv, PushAt
<1>3. push[t].sweep \in Sweep
  BY <1>1, <1>2 DEF Replays, Push
<1>4. closedWith[push[t].sweep] \subseteq got[push[t].session]
  BY <1>1, <1>2 DEF Replays
<1> QED
  BY <1>1, <1>2, <1>3, <1>4 DEF Replays, Full

LEMMA HandedKept ==
    ASSUME IInv, [Next]_vars, NEW s \in Sweep, Handed(s)
    PROVE  Handed(s)' /\ closedWith'[s] = closedWith[s]
<1> USE DEF queue
<1>1. Onwards /\ entry[s] \in {"completed", "gone"}
  BY ServerGoesOn DEF IInv, Handed
<1>2. CASE entry'[s] = entry[s] /\ closedWith'[s] = closedWith[s]
  BY <1>1, <1>2, FullKept DEF Handed
<1>3. ASSUME NEW t \in Tab, ScreenStep(t)
      PROVE  entry'[s] = entry[s] /\ closedWith'[s] = closedWith[s]
  BY <1>1, <1>3, ScreenLeaves DEF IInv
<1>4. ASSUME NEW t \in Tab, DeleteEntry(t), push[t].sweep = s
      PROVE  Handed(s)' /\ closedWith'[s] = closedWith[s]
  <2>1. entry'[s] = "gone" /\ closedWith'[s] = closedWith[s]
    BY <1>4 DEF DeleteEntry, IInv, TypeOK
  <2>2. Full(s)'
    BY <1>1, <1>4, <2>1, DeletesDelivered, FullKept
  <2> QED
    BY <2>1, <2>2 DEF Handed
<1>5. ASSUME NEW t \in Tab, DeleteEntry(t), push[t].sweep # s
      PROVE  entry'[s] = entry[s] /\ closedWith'[s] = closedWith[s]
  BY <1>5 DEF DeleteEntry, IInv, TypeOK
<1>6. ASSUME NEW t \in Tab, PushStep(t)
      PROVE  Handed(s)' /\ closedWith'[s] = closedWith[s]
  BY <1>2, <1>4, <1>5, <1>6, PushLeaves
<1> QED
  BY <1>2, <1>3, <1>6 DEF Next, StartPush, Reload, Connectivity, vars

-----------------------------------------------------------------------------
(* The invariant is inductive.                                             *)

LEMMA InvInit == Init => IInv
<1> SUFFICES ASSUME Init PROVE IInv
  OBVIOUS
<1>1. TypeOK
  BY TypeInit
<1>2. Kept /\ Sessions
  BY OfflineAssumption DEF Init, Kept, Sessions
<1>3. \A t \in Tab : PushAt(t)
  BY IdleTyped DEF Init, PushAt, CopiesAt
<1> QED
  BY <1>1, <1>2, <1>3 DEF IInv

LEMMA KeptStep ==
    ASSUME IInv, [Next]_vars
    PROVE  Kept'
<1> USE DEF queue, server, IInv, TypeOK, Kept
<1>1. CASE UNCHANGED <<entry, closedWith, seen>>
  BY <1>1
<1>2. ASSUME NEW t \in Tab, ScreenStep(t)
      PROVE  Kept'
  <2>1. ASSUME NEW f \in Folder, StartSweep(t, f)
        PROVE  Kept'
    BY <2>1 DEF StartSweep, DropIncomplete
  <2>2. ASSUME NEW s \in Sweep, CreateEntry(t, s)
        PROVE  Kept'
    BY <2>2 DEF CreateEntry
  <2>3. ASSUME NEW n \in Note, RecordSighting(t, n)
        PROVE  Kept'
    BY <2>3 DEF RecordSighting
  <2>4. CASE FinishSweep(t)
    BY <2>4 DEF FinishSweep
  <2>5. CASE CancelSweep(t)
    BY <2>5 DEF CancelSweep, DropIncomplete
  <2>6. CASE ShowResult(t)
    BY <2>6 DEF ShowResult
  <2> QED
    BY <1>2, <2>1, <2>2, <2>3, <2>4, <2>5, <2>6 DEF ScreenStep
<1>3. ASSUME NEW t \in Tab, DeleteEntry(t)
      PROVE  Kept'
  BY <1>3 DEF DeleteEntry
<1>4. ASSUME NEW t \in Tab, PushStep(t)
      PROVE  Kept'
  BY <1>1, <1>3, <1>4, PushLeaves
<1> QED
  BY <1>1, <1>2, <1>4 DEF Next, StartPush, Reload, Connectivity, vars

LEMMA SessionsStep ==
    ASSUME IInv, [Next]_vars
    PROVE  Sessions'
<1> USE DEF queue, server
<1>0. TypeOK /\ Sessions
  BY DEF IInv
<1>1. CASE UNCHANGED <<session, of>>
  BY <1>0, <1>1, HandedKept DEF Sessions
<1>2. ASSUME NEW t \in Tab, NEW s \in Sweep, NEW x \in Session, CreateSession(t, s, x)
      PROVE  Sessions'
  <2>1. session' = [session EXCEPT ![x] = "open"] /\ of' = [of EXCEPT ![x] = s]
    BY <1>2 DEF CreateSession
  <2>2. Handed(s)'
    BY <1>2, HandedKept DEF CreateSession, IInv, PushAt, CopiesAt
  <2>3. ASSUME NEW y \in Session
        PROVE  /\ session'[y] = "unused" => of'[y] = NoSweep
               /\ session'[y] # "unused" => of'[y] \in Sweep
               /\ \A r \in Sweep : of'[y] = r => Handed(r)'
    <3>1. CASE y = x
      BY <1>0, <2>1, <2>2, <3>1 DEF TypeOK
    <3>2. CASE y # x
      BY <1>0, <2>1, <3>2, HandedKept DEF TypeOK, Sessions
    <3> QED
      BY <3>1, <3>2
  <2> QED
    BY <2>3 DEF Sessions
<1>3. ASSUME NEW t \in Tab, PostComplete(t)
      PROVE  Sessions'
  <2> DEFINE y == push[t].session
  <2>1. /\ session' = [session EXCEPT ![y] = "done"] /\ of' = of
        /\ push[t].pc = "sight"
    BY <1>3 DEF PostComplete
  <2>2. y \in Session /\ session[y] # "unused"
    BY <2>1 DEF IInv, PushAt, Replays
  <2>3. \A x \in Session : of'[x] = of[x] /\ (session'[x] = "unused" <=> session[x] = "unused")
    BY <1>0, <2>1, <2>2 DEF TypeOK
  <2> QED
    BY <1>0, <2>3, HandedKept DEF Sessions
<1>4. ASSUME NEW t \in Tab, ScreenStep(t)
      PROVE  UNCHANGED <<session, of>>
  BY <1>4 DEF ScreenStep, StartSweep, CreateEntry, RecordSighting, FinishSweep, CancelSweep,
              ShowResult
<1>5. ASSUME NEW t \in Tab, PushStep(t)
      PROVE  Sessions'
  BY <1>1, <1>2, <1>3, <1>5
     DEF PushStep, CreateRefused, PostSighting, PostRefused, DeleteEntry, Publish
<1> QED
  BY <1>1, <1>4, <1>5 DEF Next, StartPush, Reload, Connectivity, vars

\* The copies of a push that skips or posts are those it had.
LEMMA CopiesKept ==
    ASSUME IInv, [Next]_vars, NEW t \in Tab,
           push'[t].todo \subseteq push[t].todo, push'[t].copy = push[t].copy
    PROVE  CopiesAt(t)'
<1>1. push[t].todo \subseteq Sweep
  BY DEF IInv, TypeOK, Push
<1>2. CopiesAt(t)
  BY DEF IInv, PushAt
<1> QED
  BY <1>1, <1>2, HandedKept DEF CopiesAt

LEMMA SkippingKeeps ==
    ASSUME IInv, [Next]_vars, NEW t \in Tab, NEW s, SkipSweep(t, s)
    PROVE  PushAt(t)'
<1>1. push \in [Tab -> Push]
  BY DEF IInv, TypeOK
<1>2. push'[t].pc = "next" /\ CopiesAt(t)'
  BY <1>1, Skips, CopiesKept
<1> QED
  BY <1>2 DEF PushAt

\* What a push knows of its session stays true when the server goes on.
LEMMA ReplayKept ==
    ASSUME IInv, [Next]_vars, NEW t \in Tab, push[t].pc \in {"sight", "delete"}
    PROVE  LET p == push[t] IN
           /\ p.sweep \in Sweep /\ p.sweep \in p.todo /\ p.session \in Session
           /\ session'[p.session] # "unused" /\ of'[p.session] = p.sweep
           /\ closedWith'[p.sweep] \subseteq got'[p.session] \union p.left
           /\ p.pc = "delete" => session'[p.session] = "done" /\ p.left = {}
<1> DEFINE p == push[t]
<1>1. Replays(p) /\ CopiesAt(t) /\ p \in Push
  BY DEF IInv, PushAt, TypeOK
<1>2. p.sweep \in Sweep /\ Handed(p.sweep)
  BY <1>1 DEF Replays, CopiesAt, Push
<1>3. closedWith'[p.sweep] = closedWith[p.sweep]
  BY <1>2, HandedKept
<1>4. Onwards
  BY ServerGoesOn DEF IInv
<1> QED
  BY <1>1, <1>2, <1>3, <1>4 DEF Replays, Onwards

LEMMA OthersKept ==
    ASSUME IInv, [Next]_vars, NEW t \in Tab, push'[t] = push[t]
    PROVE  PushAt(t)'
<1>1. CopiesAt(t)'
  BY CopiesKept
<1>2. push[t].pc \in {"sight", "delete"} => Replays(push[t])'
  BY ReplayKept DEF Replays
<1> QED
  BY <1>1, <1>2 DEF PushAt

LEMMA PushesStep ==
    ASSUME IInv, [Next]_vars, NEW u \in Tab
    PROVE  PushAt(u)'
<1> USE DEF queue, server
<1>0. push \in [Tab -> Push]
  BY DEF IInv, TypeOK
<1>1. CASE push'[u] = push[u]
  BY <1>1, OthersKept
<1>2. CASE push'[u] = NoPush
  BY <1>2, IdleTyped DEF PushAt, CopiesAt
<1>3. ASSUME NEW t \in Tab, ScreenStep(t)
      PROVE  push' = push
  BY <1>3 DEF ScreenStep, StartSweep, CreateEntry, RecordSighting, FinishSweep, CancelSweep,
              ShowResult
<1>4. CASE StartPush(u)
  <2>1. push'[u].pc = "next" /\ push'[u].todo = Completed /\ push'[u].copy = seen
    BY <1>4, Starts DEF IInv
  <2>2. \A s \in Completed : Handed(s)' /\ closedWith'[s] \subseteq seen[s]
    BY HandedKept DEF Completed, Handed, IInv, Kept
  <2> QED
    BY <2>1, <2>2 DEF PushAt, CopiesAt
<1>5. ASSUME NEW s \in Sweep, NEW x \in Session, CreateSession(u, s, x)
      PROVE  PushAt(u)'
  <2>1. CASE SkipSweep(u, s)
    BY <2>1, SkippingKeeps
  <2>2. CASE Replay(u, s, x)
    <3>1. /\ push'[u].pc = "sight" /\ push'[u].sweep = s /\ push'[u].session = x
          /\ push'[u].left = push[u].copy[s]
          /\ push'[u].todo = push[u].todo /\ push'[u].copy = push[u].copy
      BY <1>0, <2>2, Begins
    <3>2. CopiesAt(u)'
      BY <3>1, CopiesKept
    <3>3. s \in push[u].todo /\ session'[x] = "open" /\ of'[x] = s
      BY <1>5 DEF CreateSession, IInv, TypeOK
    <3>4. Replays(push[u])'
      BY <3>1, <3>2, <3>3 DEF Replays, CopiesAt
    <3> QED
      BY <3>2, <3>4 DEF PushAt
  <2> QED
    BY <1>5, <2>1, <2>2 DEF CreateSession
<1>6. ASSUME NEW n \in Note, PostSighting(u, n)
      PROVE  PushAt(u)'
  <2>1. CASE SkipSweep(u, push[u].sweep)
    BY <2>1, SkippingKeeps
  <2>2. CASE push' = [push EXCEPT ![u].left = @ \ {n}]
    <3>1. /\ push'[u].pc = push[u].pc /\ push'[u].sweep = push[u].sweep
          /\ push'[u].session = push[u].session /\ push'[u].left = push[u].left \ {n}
          /\ push'[u].todo = push[u].todo /\ push'[u].copy = push[u].copy
      BY <1>0, <2>2, Posts
    <3>2. CopiesAt(u)'
      BY <3>1, CopiesKept
    <3>3. push[u].pc = "sight" /\ push[u].session \in Session
      BY <1>6, ReplayKept DEF PostSighting
    <3>4. n \in got'[push[u].session]
      BY <1>6, <3>3 DEF PostSighting, IInv, TypeOK
    <3>5. Replays(push[u])'
      BY <3>1, <3>3, <3>4, ReplayKept DEF Replays
    <3> QED
      BY <3>2, <3>5 DEF PushAt
  <2> QED
    BY <1>6, <2>1, <2>2 DEF PostSighting
<1>7. CASE PostComplete(u)
  <2>1. CASE SkipSweep(u, push[u].sweep)
    BY <2>1, SkippingKeeps
  <2>2. CASE push' = [push EXCEPT ![u].pc = "delete"]
    <3>1. /\ push'[u].pc = "delete" /\ push'[u].sweep = push[u].sweep
          /\ push'[u].session = push[u].session /\ push'[u].left = push[u].left
          /\ push'[u].todo = push[u].todo /\ push'[u].copy = push[u].copy
      BY <1>0, <2>2, Completes
    <3>2. CopiesAt(u)'
      BY <3>1, CopiesKept
    <3>3. push[u].pc = "sight" /\ push[u].left = {} /\ push[u].session \in Session
      BY <1>7, ReplayKept DEF PostComplete
    <3>4. session'[push[u].session] = "done"
      BY <1>7, <3>3 DEF PostComplete, IInv, TypeOK
    <3>5. Replays(push[u])'
      BY <3>1, <3>3, <3>4, ReplayKept DEF Replays
    <3> QED
      BY <3>2, <3>5 DEF PushAt
  <2> QED
    BY <1>7, <2>1, <2>2 DEF PostComplete
<1>8. CASE PushStep(u)
  <2>1. ASSUME NEW s, SkipSweep(u, s)
        PROVE  PushAt(u)'
    BY <2>1, SkippingKeeps
  <2>2. CASE Publish(u)
    BY <1>0, <1>2, <2>2 DEF Publish
  <2> QED
    BY <1>5, <1>6, <1>7, <1>8, <2>1, <2>2 DEF PushStep, CreateRefused, PostRefused, DeleteEntry
<1>9. ASSUME NEW t \in Tab, t # u, StartPush(t) \/ PushStep(t) \/ Reload(t)
      PROVE  push'[u] = push[u]
  <2>1. CASE StartPush(t)
    BY <1>9, <2>1, Starts DEF IInv
  <2>2. CASE Reload(t)
    BY <1>0, <1>9, <2>2 DEF Reload
  <2>3. ASSUME NEW s, SkipSweep(t, s)
        PROVE  push'[u] = push[u]
    BY <1>0, <1>9, <2>3, Skips
  <2>4. ASSUME NEW s \in Sweep, NEW x \in Session, CreateSession(t, s, x)
        PROVE  push'[u] = push[u]
    BY <1>0, <1>9, <2>3, <2>4, Begins DEF CreateSession
  <2>5. ASSUME NEW n \in Note, PostSighting(t, n)
        PROVE  push'[u] = push[u]
    BY <1>0, <1>9, <2>3, <2>5, Posts DEF PostSighting
  <2>6. CASE PostComplete(t)
    BY <1>0, <1>9, <2>3, <2>6, Completes DEF PostComplete
  <2>7. CASE Publish(t)
    BY <1>0, <1>9, <2>7 DEF Publish
  <2>8. CASE PushStep(t)
    BY <2>3, <2>4, <2>5, <2>6, <2>7, <2>8 DEF PushStep, CreateRefused, PostRefused, DeleteEntry
  <2> QED
    BY <1>9, <2>1, <2>2, <2>8
<1>10. CASE Reload(u)
  BY <1>0, <1>2, <1>10 DEF Reload
<1>11. CASE Connectivity \/ UNCHANGED vars
  BY <1>1, <1>11 DEF Connectivity, vars
<1> QED
  BY <1>1, <1>3, <1>4, <1>8, <1>9, <1>10, <1>11 DEF Next

LEMMA InvStep == IInv /\ [Next]_vars => IInv'
<1> SUFFICES ASSUME IInv, [Next]_vars
             PROVE  IInv'
  OBVIOUS
<1>1. TypeOK'
  BY TypeStep DEF IInv
<1> QED
  BY <1>1, KeptStep, SessionsStep, PushesStep DEF IInv
-----------------------------------------------------------------------------
(* The refinement.                                                         *)

Status == [s \in Sweep |-> IF entry[s] = "completed" THEN "queued" ELSE entry[s]]
InFull == {s \in Sweep : entry[s] \in {"completed", "gone"} /\ Full(s)}
promise == <<Status, closedWith, InFull>>

\* Open, Drop, Queue, Deliver and Forget of SweepDelivery over them.
PromiseStep == Delivery!Next \/ UNCHANGED promise

LEMMA Reading ==
    /\ Delivery!vars = promise
    /\ Delivery!vars' = promise'
BY DEF Delivery!vars, promise, Status, InFull, Full

LEMMA Drops ==
    ASSUME NEW S \in SUBSET Sweep, Delivery!Drop(S)
    PROVE  PromiseStep
BY DEF PromiseStep, Delivery!Next

LEMMA Queues ==
    ASSUME NEW s \in Sweep, NEW N \in SUBSET Note, Delivery!Queue(s, N)
    PROVE  PromiseStep
BY DEF PromiseStep, Delivery!Next

LEMMA Forgets ==
    ASSUME NEW s \in Sweep, Delivery!Forget(s)
    PROVE  PromiseStep
BY DEF PromiseStep, Delivery!Next

\* Nothing is delivered while the server stands still and the sweeps that
\* were handed over stay so.
LEMMA InFullKept ==
    ASSUME IInv, [Next]_vars, UNCHANGED server,
           \A s \in Sweep : Handed(s) => entry'[s] \in {"completed", "gone"}
    PROVE  InFull' = InFull
<1> USE DEF server
<1>1. ASSUME NEW s \in Sweep, entry[s] \in {"completed", "gone"}, Full(s)
      PROVE  entry'[s] \in {"completed", "gone"} /\ Full(s)'
  <2>1. Handed(s)
    BY <1>1 DEF Handed
  <2> QED
    BY <1>1, <2>1, HandedKept DEF Full
<1>2. ASSUME NEW s \in Sweep, Full(s)'
      PROVE  entry[s] \in {"completed", "gone"} /\ Full(s)
  <2>1. Handed(s)
    BY <1>2 DEF Full, IInv, Sessions
  <2> QED
    BY <1>2, <2>1, HandedKept DEF Full, Handed
<1> QED
  BY <1>1, <1>2 DEF InFull

LEMMA DropImplements ==
    ASSUME IInv, [Next]_vars, NEW f, DropIncomplete(f), UNCHANGED <<closedWith, server>>
    PROVE  PromiseStep
<1>1. PICK S \in SUBSET Sweep : S = {s \in Sweep : entry[s] = "open" /\ folder[s] = f}
  OBVIOUS
<1>2. InFull' = InFull
  BY InFullKept DEF DropIncomplete, Handed
<1>3. \A s \in S : Status[s] = "open"
  BY <1>1 DEF Status
<1>4. Status' = [s \in Sweep |-> IF s \in S THEN "gone" ELSE Status[s]]
  BY <1>1 DEF Status, DropIncomplete
<1>5. Delivery!Drop(S)
  BY <1>2, <1>3, <1>4 DEF Delivery!Drop, Status, InFull, Full
<1> QED
  BY <1>5, Drops

LEMMA ScreenImplements ==
    ASSUME IInv, [Next]_vars, NEW t \in Tab, ScreenStep(t)
    PROVE  PromiseStep
<1> USE DEF queue, server
<1>0. TypeOK
  BY DEF IInv
<1>1. ASSUME NEW f \in Folder, StartSweep(t, f)
      PROVE  PromiseStep
  BY <1>1, DropImplements DEF StartSweep
<1>2. ASSUME NEW s \in Sweep, CreateEntry(t, s)
      PROVE  PromiseStep
  <2>1. /\ entry[s] = "unused" /\ entry' = [entry EXCEPT ![s] = "open"]
        /\ UNCHANGED <<closedWith, session, of, got>>
    BY <1>2 DEF CreateEntry
  <2>2. InFull' = InFull
    BY <1>0, <2>1, InFullKept DEF Handed, TypeOK
  <2>3. Status[s] = "unused" /\ Status' = [Status EXCEPT ![s] = "open"]
    BY <1>0, <2>1 DEF Status, TypeOK
  <2>4. Delivery!Open(s)
    BY <2>1, <2>2, <2>3 DEF Delivery!Open, Status, InFull, Full
  <2> QED
    BY <2>4 DEF PromiseStep, Delivery!Next
<1>3. ASSUME NEW n \in Note, RecordSighting(t, n)
      PROVE  PromiseStep
  BY <1>3 DEF RecordSighting, PromiseStep, promise, Status, InFull, Full
<1>4. CASE FinishSweep(t)
  <2>1. PICK s \in Sweep : s = screen[t].sweep
    BY <1>0, <1>4 DEF FinishSweep, TypeOK
  <2>2. PICK N \in SUBSET Note : N = seen[s]
    BY <1>0 DEF TypeOK
  <2>3. CASE entry[s] # "open"
    BY <1>4, <2>1, <2>3 DEF FinishSweep, PromiseStep, promise, Status, InFull, Full
  <2>4. CASE entry[s] = "open"
    <3>1. /\ entry' = [entry EXCEPT ![s] = "completed"]
          /\ closedWith' = [closedWith EXCEPT ![s] = N]
          /\ UNCHANGED <<session, of, got>>
      BY <1>4, <2>1, <2>2, <2>4 DEF FinishSweep
    <3>2. InFull' = InFull
      BY <1>0, <2>4, <3>1, InFullKept DEF Handed, TypeOK
    <3>3. Status[s] = "open" /\ Status' = [Status EXCEPT ![s] = "queued"]
      BY <1>0, <2>4, <3>1 DEF Status, TypeOK
    <3>4. Delivery!Queue(s, N)
      BY <3>1, <3>2, <3>3 DEF Delivery!Queue, Status, InFull, Full
    <3> QED
      BY <3>4, Queues
  <2> QED
    BY <2>3, <2>4
<1>5. CASE CancelSweep(t)
  BY <1>5, DropImplements DEF CancelSweep
<1>6. CASE ShowResult(t)
  BY <1>6 DEF ShowResult, PromiseStep, promise, Status, InFull, Full
<1> QED
  BY <1>1, <1>2, <1>3, <1>4, <1>5, <1>6 DEF ScreenStep

\* A call that reaches the session of a sweep delivers that sweep or none.
LEMMA CallImplements ==
    ASSUME IInv, [Next]_vars, NEW y \in Session, NEW s \in Sweep,
           of[y] = s, session[y] # "unused",
           UNCHANGED <<entry, closedWith, of>>,
           \A x \in Session : x # y => session'[x] = session[x] /\ got'[x] = got[x]
    PROVE  PromiseStep
<1>1. Onwards
  BY ServerGoesOn DEF IInv
<1>2. \A r \in Sweep : r # s => (Full(r)' <=> Full(r))
  BY DEF Full
<1>3. Full(s) => Full(s)'
  BY <1>1, FullKept
<1>4. CASE Full(s)' <=> Full(s)
  <2>1. InFull' = InFull
    BY <1>2, <1>4 DEF InFull
  <2> QED
    BY <2>1 DEF PromiseStep, promise, Status
<1>5. CASE Full(s)' /\ ~ Full(s)
  <2>1. entry[s] = "completed"
    BY <1>5 DEF IInv, Sessions, Handed
  <2>2. Status[s] = "queued" /\ InFull' = InFull \union {s}
    BY <1>2, <1>5, <2>1 DEF Status, InFull
  <2>3. Delivery!Deliver(s)
    BY <2>2 DEF Delivery!Deliver, Status, InFull, Full
  <2> QED
    BY <2>3 DEF PromiseStep, Delivery!Next
<1> QED
  BY <1>3, <1>4, <1>5

LEMMA PushImplements ==
    ASSUME IInv, [Next]_vars, NEW t \in Tab, PushStep(t)
    PROVE  PromiseStep
<1> USE DEF queue, server
<1>0. TypeOK
  BY DEF IInv
<1>1. ASSUME NEW s \in Sweep, NEW x \in Session, CreateSession(t, s, x)
      PROVE  PromiseStep
  <2>1. /\ session[x] = "unused" /\ session' = [session EXCEPT ![x] = "open"]
        /\ of' = [of EXCEPT ![x] = s] /\ UNCHANGED <<entry, closedWith, got>>
    BY <1>1 DEF CreateSession
  <2>2. \A r \in Sweep : Full(r)' <=> Full(r)
    BY <1>0, <2>1 DEF Full, TypeOK
  <2>3. InFull' = InFull
    BY <2>1, <2>2 DEF InFull
  <2> QED
    BY <2>1, <2>3 DEF PromiseStep, promise, Status
<1>2. ASSUME NEW n \in Note, PostSighting(t, n)
      PROVE  PromiseStep
  <2> DEFINE y == push[t].session
  <2>1. /\ push[t].pc = "sight" /\ got' = [got EXCEPT ![y] = @ \union {n}]
        /\ UNCHANGED <<entry, closedWith, of, session>>
    BY <1>2 DEF PostSighting
  <2>2. y \in Session /\ push[t].sweep \in Sweep /\ of[y] = push[t].sweep
    BY <2>1, ReplayKept
  <2>3. session[y] # "unused"
    BY <2>1, ReplayKept
  <2> QED
    BY <1>0, <2>1, <2>2, <2>3, CallImplements DEF TypeOK
<1>3. CASE PostComplete(t)
  <2> DEFINE y == push[t].session
  <2>1. /\ push[t].pc = "sight" /\ session' = [session EXCEPT ![y] = "done"]
        /\ UNCHANGED <<entry, closedWith, of, got>>
    BY <1>3 DEF PostComplete
  <2>2. y \in Session /\ push[t].sweep \in Sweep /\ of[y] = push[t].sweep
    BY <2>1, ReplayKept
  <2>3. session[y] # "unused"
    BY <2>1 DEF IInv, PushAt, Replays
  <2> QED
    BY <1>0, <2>1, <2>2, <2>3, CallImplements DEF TypeOK
<1>4. CASE DeleteEntry(t)
  <2>1. PICK s \in Sweep : s = push[t].sweep
    BY <1>4, DeletesDelivered
  <2>2. /\ entry' = [entry EXCEPT ![s] = "gone"]
        /\ UNCHANGED <<closedWith, session, of, got>>
    BY <1>4, <2>1 DEF DeleteEntry
  <2>3. InFull' = InFull
    BY <1>0, <2>2, InFullKept DEF Handed, TypeOK
  <2>4. entry[s] \in {"completed", "gone"} /\ s \in InFull
    BY <1>4, <2>1, DeletesDelivered DEF Full, IInv, Sessions, Handed, InFull
  <2>5. CASE entry[s] = "gone"
    <3>1. Status' = Status
      BY <1>0, <2>2, <2>5 DEF Status, TypeOK
    <3> QED
      BY <2>2, <2>3, <3>1 DEF PromiseStep, promise
  <2>6. CASE entry[s] = "completed"
    <3>1. Status[s] = "queued" /\ Status' = [Status EXCEPT ![s] = "gone"]
      BY <1>0, <2>2, <2>6 DEF Status, TypeOK
    <3>2. Delivery!Forget(s)
      BY <2>2, <2>3, <2>4, <3>1 DEF Delivery!Forget, Status, InFull, Full
    <3> QED
      BY <3>2, Forgets
  <2> QED
    BY <2>4, <2>5, <2>6
<1>5. CASE UNCHANGED <<queue, server>>
  BY <1>5 DEF PromiseStep, promise, Status, InFull, Full
<1> QED
  BY <1>1, <1>2, <1>3, <1>4, <1>5 DEF PushStep, CreateRefused, PostRefused, Publish

LEMMA StepImplements == IInv /\ [Next]_vars => [Delivery!Next]_Delivery!vars
<1> SUFFICES ASSUME IInv, [Next]_vars
             PROVE  Delivery!Next \/ UNCHANGED Delivery!vars
  OBVIOUS
<1>1. PromiseStep
  <2>1. CASE UNCHANGED <<queue, server>>
    BY <2>1 DEF PromiseStep, promise, Status, InFull, Full, queue, server
  <2> QED
    BY <2>1, ScreenImplements, PushImplements
       DEF Next, StartPush, Reload, Connectivity, vars
<1> QED
  BY <1>1, Reading DEF PromiseStep

LEMMA InitImplements == Init => Delivery!Init
BY DEF Init, Delivery!Init

\* The queue keeps its promise: a finished sweep leaves the device only after
\* a completed session of the server has all that it held when it was finished.
THEOREM QueueImplementsDelivery == Spec => DeliversFinished
<1>1. Spec => []IInv
  BY InvInit, InvStep, PTL DEF Spec
<1> QED
  BY <1>1, InitImplements, StepImplements, PTL DEF Spec, DeliversFinished, Delivery!Spec
================================================================================
