----------------------------- MODULE AgreementProofs -----------------------------
(***************************************************************************)
(* What the machines behind the client's pages keep in agreement with the  *)
(* server (MCPages), for every value of their constants: the authors a     *)
(* form makes, the libraries a browser and a phone store, the tokens of a  *)
(* login. A machine's variables are the slots v1, v2, ... here, in the     *)
(* order MCPages lays them in.                                             *)
(***************************************************************************)
EXTENDS PagesProofs

-----------------------------------------------------------------------------
(* Entering sheet music (NoteEntry): v1 says how many authors have a name,  *)
(* v5 is the form, v8 the question which author is meant, v10 the handlers  *)
(* under way, v11 says that two of them overlapped.                         *)

\* A form filled in further is a form.
LEMMA FormFilled ==
    ASSUME NEW f \in Entry!Form
    PROVE  /\ \A type \in {"folder", "note"} : [f EXCEPT !.type = type] \in Entry!Form
           /\ \A t \in Title \union {NoTitle} : [f EXCEPT !.name = t] \in Entry!Form
           /\ \A t \in Title, n \in Name, a \in Entry!Author :
                 [f EXCEPT !.name = t, !.authorId = a, !.authorName = n] \in Entry!Form
           /\ \A t \in Title, n \in Name : [f EXCEPT !.name = t, !.authorName = n] \in Entry!Form
           /\ \A n \in Name \union {NoName}, a \in Entry!Author \union {NoAuthor} :
                 /\ [f EXCEPT !.authorName = n, !.authorId = a] \in Entry!Form
                 /\ [f EXCEPT !.authorId = a, !.authorName = n] \in Entry!Form
           /\ \A n \in Name \union {NoName} :
                 /\ [f EXCEPT !.arrangerName = n, !.arrangerPicked = FALSE] \in Entry!Form
                 /\ [f EXCEPT !.arrangerName = n, !.arrangerPicked = TRUE] \in Entry!Form
BY DEF Entry!Form

\* What a scan found fills the form.
LEMMA FormScanned ==
    ASSUME v5 \in Entry!Form, NEW t \in Title \union {NoTitle}, NEW n \in Name \union {NoName},
           NEW arr \in Name \union {NoName}
    PROVE  Entry!Found(t, n, arr) \in Entry!Form
BY DEF Entry!Form, Entry!Found

\* Before anything is typed in.
LEMMA EntryInitially ==
    ASSUME Entry!Constants, Entry!Init
    PROVE  Entry!EntryInv
<1>1. v5 \in Entry!Form
  BY DEF Entry!Init, Entry!Form, Entry!FOLDER_DEFAULTS
<1>2. Entry!Entered
  BY <1>1 DEF Entry!Init, Entry!Entered, Entry!Informed, Entry!Idle
<1>3. Entry!LookedUp
  BY DEF Entry!Init, Entry!LookedUp, Entry!Idle, Entry!Busy
<1> QED BY <1>2, <1>3 DEF Entry!EntryInv

\* Editing leaves the handlers alone.
LEMMA EntryEdited ==
    ASSUME Entry!EntryInv, UNCHANGED <<v1, v10, v11>>, v5' \in Entry!Form, v8' = v8 \/ v8' = NoValues
    PROVE  Entry!EntryInv'
<1>1. Entry!Entered /\ Entry!LookedUp
  BY DEF Entry!EntryInv
<1>2. Entry!Entered'
  BY <1>1 DEF Entry!Entered, Entry!Named, Entry!Informed
<1>3. Entry!LookedUp'
  BY <1>1 DEF Entry!LookedUp, Entry!Busy, Entry!Sought
<1> QED BY <1>2, <1>3 DEF Entry!EntryInv

\* A handler starts.
LEMMA EntryCalls ==
    ASSUME Entry!EntryInv, NEW c \in OneCall, NEW r, Entry!Calls(c, r),
           r.pc # "post", Entry!Informed(r),
           UNCHANGED <<v1, v5>>, v8' = v8 \/ v8' = NoValues
    PROVE  Entry!EntryInv'
<1>1. Entry!Entered /\ Entry!LookedUp
  BY DEF Entry!EntryInv
<1>2. /\ v10[c].pc = "idle" /\ v10' = [v10 EXCEPT ![c] = r]
      /\ v11' = (v11 \/ Entry!Busy # {})
  BY DEF Entry!Calls, Entry!Busy
<1>3. /\ v10' = [d \in OneCall |-> v10'[d]]
      /\ \A d \in OneCall : v10'[d] = IF d = c THEN r ELSE v10[d]
  BY <1>1, <1>2 DEF Entry!Entered
<1>4. Entry!Entered'
  BY <1>1, <1>2, <1>3 DEF Entry!Entered, Entry!Named, Entry!Informed
<1>5. v11' \in BOOLEAN /\ (~ v11' => ~ v11 /\ Entry!Busy = {})
  BY <1>1, <1>2, Zenon DEF Entry!LookedUp
<1>6. ~ v11' => \A d \in OneCall : d # c => v10'[d].pc = "idle"
  BY <1>3, <1>5 DEF Entry!Busy
<1>7. Entry!LookedUp'
  BY <1>3, <1>5, <1>6 DEF Entry!LookedUp, Entry!Busy, Entry!Sought
<1> QED BY <1>4, <1>7 DEF Entry!EntryInv

\* The name a handler looks for.
NameOf(r) == IF r.author = NoAuthor THEN r.values.authorName ELSE r.values.arrangerName

\* A handler goes on.
LEMMA EntryGoes ==
    ASSUME Entry!EntryInv, NEW c \in OneCall, v10[c].pc # "idle", NEW r, Entry!Goes(c, r),
           Entry!Informed(r),
           r.pc = "post" => NameOf(r) # NoName /\ v1'[NameOf(r)] = 0,
           v1' \in [Name -> 0..MaxTwins], v5' \in Entry!Form,
           v8' # NoValues => Entry!Named(v8')
    PROVE  Entry!EntryInv'
<1>1. Entry!Entered /\ Entry!LookedUp
  BY DEF Entry!EntryInv
<1>2. v10' = [v10 EXCEPT ![c] = r] /\ v11' = v11
  BY DEF Entry!Goes
<1>3. /\ v10' = [d \in OneCall |-> v10'[d]]
      /\ \A d \in OneCall : v10'[d] = IF d = c THEN r ELSE v10[d]
  BY <1>1, <1>2 DEF Entry!Entered
<1>4. Entry!Entered'
  BY <1>1, <1>2, <1>3 DEF Entry!Entered, Entry!Named, Entry!Informed
<1>5. v11' \in BOOLEAN
  BY <1>1, <1>2 DEF Entry!LookedUp
<1>6. ~ v11' => \A d \in OneCall : d # c => v10'[d].pc = "idle"
  BY <1>1, <1>2, <1>3 DEF Entry!LookedUp, Entry!Busy
<1>7. Entry!LookedUp'
  BY <1>3, <1>5, <1>6 DEF Entry!LookedUp, Entry!Busy, Entry!Sought, NameOf
<1> QED BY <1>4, <1>7 DEF Entry!EntryInv

\* Whoever there is is an author; one more of a name, if there may be one.
LEMMA EntryAuthors ==
    ASSUME Entry!Constants, Entry!EntryInv
    PROVE  /\ \A a \in Entry!Existing : a \in Entry!Author /\ a[1] \in Name
           /\ \A n \in Name : Entry!AuthorsNamed(n) = {} => v1[n] = 0
           /\ \A n \in Name : v1[n] < MaxTwins => Entry!Newest(n) \in Entry!Author
           /\ \A n : Entry!NewAuthor(n) => v1' \in [Name -> 0..MaxTwins]
<1>1. v1 \in [Name -> 0..MaxTwins] /\ MaxTwins \in Nat
  BY DEF Entry!EntryInv, Entry!Entered, Entry!Constants
<1>2. \A a \in Entry!Existing : a \in Entry!Author /\ a[1] \in Name
  <2> SUFFICES ASSUME NEW n \in Name, NEW a \in Entry!AuthorsNamed(n)
               PROVE  a \in Entry!Author /\ a[1] \in Name
    BY DEF Entry!Existing
  <2>1. PICK i \in 1..v1[n] : a = <<n, i>>
    BY DEF Entry!AuthorsNamed
  <2>2. i \in 1..MaxTwins
    BY <1>1, <2>1
  <2> QED BY <2>1, <2>2 DEF Entry!Author
<1>3. ASSUME NEW n \in Name, Entry!AuthorsNamed(n) = {} PROVE v1[n] = 0
  <2>1. <<n, 1>> \notin {n} \X (1..v1[n])
    BY <1>3 DEF Entry!AuthorsNamed
  <2>2. v1[n] \in Nat
    BY <1>1
  <2> QED BY ONLY <2>1, <2>2
<1>4. ASSUME NEW n \in Name, v1[n] < MaxTwins PROVE Entry!Newest(n) \in Entry!Author
  <2>1. v1[n] + 1 \in 1..MaxTwins
    BY <1>1, <1>4
  <2> QED BY <2>1 DEF Entry!Newest, Entry!Author
<1>5. ASSUME NEW n, Entry!NewAuthor(n) PROVE v1' \in [Name -> 0..MaxTwins]
  <2>1. v1' = [v1 EXCEPT ![n] = v1[n] + 1] /\ v1[n] < MaxTwins
    BY <1>5 DEF Entry!NewAuthor
  <2>2. \A m \in Name : v1[m] \in 0..MaxTwins /\ (m = n => v1[m] + 1 \in 0..MaxTwins)
    BY ONLY <1>1, <2>1
  <2> QED BY ONLY <1>1, <2>1, <2>2
<1> QED BY <1>2, <1>3, <1>4, <1>5

\* Every edit of the form,
LEMMA EntryEdits ==
    ASSUME Entry!Constants, Entry!EntryInv, Entry!Edit
    PROVE  Entry!EntryInv'
<1> USE DEF Entry!Fill, Entry!server
<1>0. v5 \in Entry!Form
  BY DEF Entry!EntryInv, Entry!Entered
<1>d. Entry!FOLDER_DEFAULTS \in Entry!Form /\ [Entry!FOLDER_DEFAULTS EXCEPT !.type = "note"] \in Entry!Form
  BY DEF Entry!FOLDER_DEFAULTS, Entry!Form
<1>1. CASE Entry!OpenDialog \/ Entry!triggerCameraScan \/ Entry!handleDisambigCancel
           \/ Entry!handleConflictCancel
  BY <1>0, <1>1, EntryEdited DEF Entry!OpenDialog, Entry!triggerCameraScan, Entry!handleDisambigCancel,
     Entry!handleConflictCancel
<1>2. CASE Entry!CloseDialog \/ Entry!triggerAIScan
  BY <1>2, <1>d, EntryEdited DEF Entry!CloseDialog, Entry!closeAndResetForm, Entry!triggerAIScan
<1>3. CASE Entry!SetType
  BY <1>0, <1>3, FormFilled, EntryEdited DEF Entry!SetType
<1>4. ASSUME NEW t \in Title, Entry!TypeName(t) PROVE Entry!EntryInv'
  BY <1>0, <1>4, FormFilled, EntryEdited DEF Entry!TypeName
<1>5. ASSUME NEW t \in Title, Entry!onPickLocal(t) PROVE Entry!EntryInv'
  <2>1. \/ \E a \in Entry!Existing : v5' = [v5 EXCEPT !.name = t, !.authorId = a, !.authorName = a[1]]
        \/ v5' = [v5 EXCEPT !.name = t]
    BY <1>5 DEF Entry!onPickLocal
  <2>2. v5' \in Entry!Form
    <3>1. ASSUME NEW a \in Entry!Existing, v5' = [v5 EXCEPT !.name = t, !.authorId = a, !.authorName = a[1]]
          PROVE  v5' \in Entry!Form
      <4>1. a \in Entry!Author /\ a[1] \in Name
        BY EntryAuthors
      <4> QED BY ONLY <1>0, <3>1, <4>1, t \in Title DEF Entry!Form
    <3>2. ASSUME v5' = [v5 EXCEPT !.name = t]
          PROVE  v5' \in Entry!Form
      BY ONLY <1>0, <3>2, t \in Title DEF Entry!Form
    <3> QED BY <2>1, <3>1, <3>2
  <2> QED BY <1>5, <2>2, EntryEdited DEF Entry!onPickLocal
<1>6. ASSUME NEW w \in OneWork, Entry!handleWikidataPick(w) PROVE Entry!EntryInv'
  <2>1. w.title \in Title /\ w.composer \in Name
    BY DEF Entry!Constants
  <2> QED BY <1>0, <1>6, <2>1, FormFilled, EntryEdited DEF Entry!handleWikidataPick
<1>7. ASSUME NEW n \in Name \union {NoName}, Entry!TypeAuthor(n) PROVE Entry!EntryInv'
  <2>1. v5' \in Entry!Form
    <3>1. \/ v5' = [v5 EXCEPT !.authorName = n, !.authorId = NoAuthor]
          \/ v5' = [v5 EXCEPT !.arrangerName = n, !.arrangerPicked = FALSE]
      BY <1>7 DEF Entry!TypeAuthor
    <3>2. CASE v5' = [v5 EXCEPT !.authorName = n, !.authorId = NoAuthor]
      BY ONLY <1>0, <3>2, n \in Name \union {NoName} DEF Entry!Form
    <3>3. CASE v5' = [v5 EXCEPT !.arrangerName = n, !.arrangerPicked = FALSE]
      BY ONLY <1>0, <3>3, n \in Name \union {NoName} DEF Entry!Form
    <3> QED BY <3>1, <3>2, <3>3
  <2> QED BY <1>7, <2>1, EntryEdited DEF Entry!TypeAuthor
<1>8. ASSUME NEW a \in Entry!Existing, Entry!PickAuthor(a) PROVE Entry!EntryInv'
  <2>1. a \in Entry!Author \union {NoAuthor} /\ a[1] \in Name \union {NoName}
    BY EntryAuthors
  <2>2. v5' \in Entry!Form
    <3>1. \/ v5' = [v5 EXCEPT !.authorName = a[1], !.authorId = a]
          \/ v5' = [v5 EXCEPT !.arrangerName = a[1], !.arrangerPicked = TRUE]
      BY <1>8 DEF Entry!PickAuthor
    <3>2. CASE v5' = [v5 EXCEPT !.authorName = a[1], !.authorId = a]
      BY ONLY <1>0, <3>2, <2>1 DEF Entry!Form
    <3>3. CASE v5' = [v5 EXCEPT !.arrangerName = a[1], !.arrangerPicked = TRUE]
      BY ONLY <1>0, <3>3, <2>1 DEF Entry!Form
    <3> QED BY <3>1, <3>2, <3>3
  <2> QED BY <1>8, <2>2, EntryEdited DEF Entry!PickAuthor
<1>9. CASE Entry!handleCameraFileChange \/ Entry!handleAIScanFileChange
  BY <1>0, <1>9, FormScanned, EntryEdited DEF Entry!handleCameraFileChange, Entry!handleAIScanFileChange
<1> QED BY <1>1, <1>2, <1>3, <1>4, <1>5, <1>6, <1>7, <1>8, <1>9 DEF Entry!Edit

\* and of the handlers, keeps the invariant.
LEMMA EntryHandles ==
    ASSUME Entry!Constants, Entry!EntryInv, NEW c \in OneCall, Entry!Handle(c)
    PROVE  Entry!EntryInv'
<1> USE DEF Entry!server, Entry!dialog
<1>0. /\ v1 \in [Name -> 0..MaxTwins] /\ v5 \in Entry!Form
      /\ v8 # NoValues => Entry!Named(v8)
      /\ Entry!Informed(v10[c])
  BY DEF Entry!EntryInv, Entry!Entered
<1>f. Entry!FOLDER_DEFAULTS \in Entry!Form
  BY DEF Entry!FOLDER_DEFAULTS, Entry!Form
<1>i. Entry!Idle.pc = "idle" /\ Entry!Informed(Entry!Idle)
  BY DEF Entry!Idle, Entry!Informed
<1>r. ASSUME NEW pc \in {"find", "note"}, NEW a, NEW values, Entry!Named(values)
      PROVE  LET r == Entry!Resolving(pc, a, values) IN r.pc = pc /\ Entry!Informed(r)
  BY <1>r DEF Entry!Resolving, Entry!Informed
<1>1. CASE Entry!onSubmit(c)
  <2>1. PICK r : /\ Entry!Calls(c, r)
                 /\ \/ r = [pc |-> "folder"]
                    \/ r = [pc |-> "wikidata", work |-> v6, force |-> FALSE, shown |-> v5.name]
                    \/ v5.authorName # NoName /\ r = Entry!Resolving("find", v5.authorId, v5)
                    \/ v5.authorName # NoName /\ r = [pc |-> "lookup", values |-> v5]
    BY <1>0, <1>1 DEF Entry!onSubmit, Entry!Form
  <2>2. r.pc # "post" /\ Entry!Informed(r)
    BY <1>0, <2>1 DEF Entry!Informed, Entry!Named, Entry!Resolving
  <2> QED BY <1>1, <2>1, <2>2, EntryCalls DEF Entry!onSubmit
<1>2. CASE Entry!FolderCreated(c) \/ Entry!NoteCreated(c)
  <2>1. v10[c].pc # "idle" /\ Entry!Goes(c, Entry!Idle) /\ UNCHANGED <<v1, v8>>
    BY <1>2 DEF Entry!FolderCreated, Entry!NoteCreated, Entry!Ends
  <2>2. v5' \in Entry!Form
    BY <1>0, <1>f, <1>2 DEF Entry!FolderCreated, Entry!NoteCreated, Entry!handlePostSubmit, Entry!closeAndResetForm
  <2> QED BY <1>0, <1>i, <2>1, <2>2, EntryGoes
<1>3. CASE Entry!findAllAuthorsByExactName(c)
  <2>1. v10[c].pc = "lookup" /\ Entry!Named(v10[c].values) /\ UNCHANGED <<v1, v5>>
    BY <1>0, <1>3 DEF Entry!findAllAuthorsByExactName, Entry!Informed
  <2>2. CASE v8' = v10[c].values /\ Entry!Goes(c, Entry!Idle)
    BY <1>0, <1>i, <2>1, <2>2, EntryGoes
  <2>3. CASE v8' = v8 /\ \E a : Entry!Goes(c, Entry!Resolving("find", a, v10[c].values))
    <3>1. PICK a : Entry!Goes(c, Entry!Resolving("find", a, v10[c].values))
      BY <2>3
    <3> QED BY <1>0, <1>r, <2>1, <2>3, <3>1, EntryGoes
  <2> QED BY <1>3, <2>2, <2>3 DEF Entry!findAllAuthorsByExactName, Entry!Ends
<1>4. CASE Entry!findAuthorByName(c)
  <2>1. v10[c].pc = "find" /\ Entry!Named(v10[c].values) /\ UNCHANGED <<v1, v5, v8>>
    BY <1>0, <1>4 DEF Entry!findAuthorByName, Entry!Informed
  <2>2. CASE \E pc \in {"find", "note"} : \E a : Entry!Goes(c, Entry!Resolving(pc, a, v10[c].values))
    <3>1. PICK pc \in {"find", "note"} : \E a : Entry!Goes(c, Entry!Resolving(pc, a, v10[c].values))
      BY <2>2
    <3> QED BY <1>0, <1>r, <2>1, <3>1, EntryGoes
  <2>3. CASE /\ v10[c].author = NoAuthor \/ Entry!NeedsArranger(c)
             /\ Entry!AuthorsNamed(Entry!Sought(c)) = {}
             /\ Entry!Goes(c, Entry!Goto(c, "post"))
    <3> DEFINE r == Entry!Goto(c, "post")
    <3>1. NameOf(r) = Entry!Sought(c) /\ Entry!Informed(r)
      BY <2>1 DEF Entry!Goto, Entry!Resolving, NameOf, Entry!Sought, Entry!Informed
    <3>2. Entry!Sought(c) # NoName /\ Entry!Sought(c) \in Name \union {NoName}
      BY <2>1, <2>3 DEF Entry!Sought, Entry!NeedsArranger, Entry!Named, Entry!Form
    <3>3. v1'[NameOf(r)] = 0
      BY <2>1, <2>3, <3>1, <3>2, EntryAuthors
    <3> QED BY <1>0, <2>1, <2>3, <3>1, <3>2, <3>3, EntryGoes
  <2> QED BY <1>4, <2>2, <2>3 DEF Entry!findAuthorByName, Entry!Known, Entry!Goto
<1>5. CASE Entry!findOrCreateAuthorId(c)
  <2>1. v10[c].pc = "post" /\ Entry!Named(v10[c].values) /\ UNCHANGED <<v5, v8>>
    BY <1>0, <1>5 DEF Entry!findOrCreateAuthorId, Entry!Informed
  <2>2. v1' \in [Name -> 0..MaxTwins]
    BY <1>5, EntryAuthors DEF Entry!findOrCreateAuthorId
  <2>3. PICK pc \in {"find", "note"} : \E a : Entry!Goes(c, Entry!Resolving(pc, a, v10[c].values))
    BY <1>5 DEF Entry!findOrCreateAuthorId, Entry!Known, Entry!Goto
  <2> QED BY <1>0, <1>r, <2>1, <2>2, <2>3, EntryGoes
<1>6. CASE Entry!CallFails(c)
  BY <1>0, <1>i, <1>6, EntryGoes DEF Entry!CallFails, Entry!Ends
<1>7. CASE Entry!handleDisambigPickExisting(c) \/ Entry!handleDisambigCreateNew(c)
  <2>1. PICK r : /\ Entry!Calls(c, r)
                 /\ \/ \E a : r = Entry!Resolving("find", a, v8)
                    \/ r = [pc |-> "twin", values |-> v8]
    BY <1>7 DEF Entry!handleDisambigPickExisting, Entry!handleDisambigCreateNew
  <2>2. Entry!Named(v8) /\ UNCHANGED <<v1, v5>> /\ v8' = NoValues
    BY <1>0, <1>7 DEF Entry!handleDisambigPickExisting, Entry!handleDisambigCreateNew
  <2>3. r.pc # "post" /\ Entry!Informed(r)
    BY <2>1, <2>2 DEF Entry!Informed, Entry!Resolving
  <2> QED BY <2>1, <2>2, <2>3, EntryCalls
<1>8. CASE Entry!TwinCreated(c)
  <2>1. v10[c].pc = "twin" /\ Entry!Named(v10[c].values) /\ UNCHANGED <<v5, v8>>
    BY <1>0, <1>8 DEF Entry!TwinCreated, Entry!Informed
  <2>2. v1' \in [Name -> 0..MaxTwins]
    BY <1>8, EntryAuthors DEF Entry!TwinCreated
  <2>3. PICK a : Entry!Goes(c, Entry!Resolving("find", a, v10[c].values))
    BY <1>8 DEF Entry!TwinCreated
  <2> QED BY <1>0, <1>r, <2>1, <2>2, <2>3, EntryGoes
<1>9. CASE Entry!WorkCreated(c)
  <2>1. v10[c].pc = "wikidata" /\ Entry!Goes(c, Entry!Idle) /\ v8' = v8
    BY <1>9 DEF Entry!WorkCreated, Entry!Ends
  <2>2. v1' \in [Name -> 0..MaxTwins]
    BY <1>0, <1>9, EntryAuthors DEF Entry!WorkCreated
  <2>3. v5' \in Entry!Form
    BY <1>0, <1>f, <1>9 DEF Entry!WorkCreated, Entry!handlePostSubmit, Entry!closeAndResetForm
  <2> QED BY <1>0, <1>i, <2>1, <2>2, <2>3, EntryGoes
<1>10. CASE Entry!WorkConflicts(c)
  BY <1>0, <1>i, <1>10, EntryGoes DEF Entry!WorkConflicts, Entry!Ends
<1>11. CASE Entry!AuthorLinked(c)
  <2>1. PICK r : /\ Entry!Goes(c, r)
                 /\ r = [pc |-> "wikidata", work |-> v10[c].work, force |-> FALSE, shown |-> v10[c].shown]
    BY <1>11 DEF Entry!AuthorLinked
  <2>2. v10[c].pc # "idle" /\ UNCHANGED <<v1, v5, v8>> /\ r.pc # "post" /\ Entry!Informed(r)
    BY <1>11, <2>1 DEF Entry!AuthorLinked, Entry!Informed
  <2> QED BY <1>0, <2>1, <2>2, EntryGoes
<1>12. CASE \/ \E a \in Entry!Existing : Entry!handleConflictLinkExisting(c, a)
            \/ Entry!handleConflictCreateNew(c)
            \/ \E n \in Name : Entry!handleSubmit(c, n)
  <2>1. /\ UNCHANGED <<v1, v5, v8>>
        /\ \E r : /\ Entry!Calls(c, r)
                  /\ \/ \E a : r = [pc |-> "link", author |-> a, work |-> v6, shown |-> v5.name]
                     \/ r = [pc |-> "wikidata", work |-> v6, force |-> TRUE, shown |-> v5.name]
                     \/ \E n \in Name : r = [pc |-> "inline", name |-> n]
    BY <1>12 DEF Entry!handleConflictLinkExisting, Entry!handleConflictCreateNew, Entry!handleSubmit
  <2>2. PICK r : /\ Entry!Calls(c, r)
                 /\ \/ \E a : r = [pc |-> "link", author |-> a, work |-> v6, shown |-> v5.name]
                    \/ r = [pc |-> "wikidata", work |-> v6, force |-> TRUE, shown |-> v5.name]
                    \/ \E n \in Name : r = [pc |-> "inline", name |-> n]
    BY <2>1
  <2>3. r.pc # "post" /\ Entry!Informed(r)
    BY <2>2 DEF Entry!Informed
  <2> QED BY <2>1, <2>2, <2>3, EntryCalls
<1>13. CASE Entry!onCreated(c)
  <2> DEFINE n == v10[c].name
  <2>1. n \in Name /\ v10[c].pc = "inline" /\ Entry!NewAuthor(n) /\ Entry!Goes(c, Entry!Idle) /\ v8' = v8
    BY <1>0, <1>13 DEF Entry!onCreated, Entry!Informed, Entry!Ends
  <2>2. v1' \in [Name -> 0..MaxTwins]
    BY <2>1, EntryAuthors
  <2>3. Entry!Newest(n) \in Entry!Author
    BY <2>1, EntryAuthors DEF Entry!NewAuthor
  <2>4. v5' = [v5 EXCEPT !.authorId = Entry!Newest(n), !.authorName = n]
    BY <1>13 DEF Entry!onCreated
  <2>5. v5' \in Entry!Form
    BY <1>0, <2>1, <2>3, <2>4, FormFilled
  <2> QED BY <1>0, <1>i, <2>1, <2>2, <2>5, EntryGoes
<1> QED BY <1>1, <1>2, <1>3, <1>4, <1>5, <1>6, <1>7, <1>8, <1>9, <1>10, <1>11, <1>12, <1>13
        DEF Entry!Handle

\* What one handler posts, or another changes, is nobody's second name.
LEMMA EntryAsks ==
    ASSUME Entry!EntryInv
    PROVE  Entry!AsksBeforeTwin
BY DEF Entry!EntryInv, Entry!LookedUp, Entry!AsksBeforeTwin

\* Every step of the form, its handlers and its look-ups keeps the invariant.
LEMMA EntryKept ==
    ASSUME Entry!Constants, Entry!EntryInv, Entry!Next
    PROVE  Entry!EntryInv'
BY EntryEdits, EntryHandles DEF Entry!Next

-----------------------------------------------------------------------------
(* The session of the app (MobileSession): v2 to v4 are the tokens, v7      *)
(* says that notes are stored, v8 is the screen, v10 the requests and the   *)
(* start of the app under way, v11 and v12 count the logins and the tokens, *)
(* v13 says that it started where there is no network, v14 that a session   *)
(* was given up that had not ended.                                         *)

\* Who may be under way in the session: the requests and the start of the app.
Asker == TwoCalls \union {Login!Boot}
LoginOrNone == Login!Login \union {Login!NoLogin}
TokenOrNone == Login!Token \union {NoToken}
Round == 0..2
Asking == [pc : {"idle", "check", "config", "refresh", "got", "sent"}, tries : Round,
           refresh : LoginOrNone, token : TokenOrNone, first : TokenOrNone]

\* c goes on, the others wait.
Alters(c) == v10' \in [Asker -> Asking] /\ \A d \in Asker : d # c => v10'[d] = v10[d]

\* The types, by those names.
LEMMA SessionTypes ==
    Login!TypeOK <=>
      /\ v1 \in BOOLEAN /\ v3 \in BOOLEAN /\ v5 \in BOOLEAN /\ v6 \in BOOLEAN /\ v7 \in BOOLEAN
      /\ v9 \in BOOLEAN /\ v13 \in BOOLEAN /\ v14 \in BOOLEAN
      /\ v2 \in TokenOrNone /\ v4 \in LoginOrNone /\ v8 \in {"start", "login", "inside"}
      /\ v10 \in [Asker -> Asking]
      /\ v11 \in 0..MaxLogins /\ v12 \in 0..MaxIssued
BY DEF Login!TypeOK, TokenOrNone, LoginOrNone, Asker, Asking, Round

\* A call that has not started is one.
LEMMA NoCallTyped == Login!NoCall \in Asking /\ [Login!NoCall EXCEPT !.pc = "check"] \in Asking
BY DEF Login!NoCall, Asking, LoginOrNone, TokenOrNone, Round

\* Before the app is opened.
LEMMA SessionInitially ==
    ASSUME Login!SessionBounds, Login!Init
    PROVE  Login!SessionInv
<1>1. v10 \in [Asker -> Asking]
  BY NoCallTyped DEF Login!Init, Asker
<1>2. /\ v1 \in BOOLEAN /\ v3 \in BOOLEAN /\ v5 \in BOOLEAN /\ v6 \in BOOLEAN /\ v7 \in BOOLEAN
      /\ v9 \in BOOLEAN /\ v13 \in BOOLEAN /\ v14 \in BOOLEAN
  BY Zenon DEF Login!Init
<1>3. Login!TypeOK
  BY <1>1, <1>2, SessionTypes DEF Login!Init, TokenOrNone, LoginOrNone, Login!Token, Login!Login, Login!NoLogin,
     Login!SessionBounds
<1>4. \A c \in Asker : /\ v10[c].pc \in {"idle", "check"}
                       /\ c # Login!Boot \/ ~ v6 => v10[c].pc = "idle"
  BY DEF Login!Init, Login!NoCall, Asker
<1>5. Login!OnePair /\ Login!OfflineStartOpens
  BY DEF Login!Init, Login!OnePair, Login!OfflineStartOpens, Login!hasOfflineSessionData
<1>6. Login!StartsOnce
  BY <1>4 DEF Login!Init, Login!StartsOnce, Asker
<1>7. Login!Refreshes /\ Login!NothingAsked
  BY <1>4 DEF Login!Init, Login!Refreshes, Login!NothingAsked, Asker, Login!SessionBounds
<1> QED BY <1>3, <1>5, <1>6, <1>7 DEF Login!SessionInv

\* The parts of the invariant.
LEMMA SessionParts ==
    Login!SessionInv <=>
      /\ Login!TypeOK /\ Login!OnePair /\ Login!OfflineStartOpens /\ Login!StartsOnce
      /\ Login!Refreshes /\ Login!NothingAsked
BY DEF Login!SessionInv

\* A call goes on and leaves the tokens and the page.
LEMMA CallGoesOn ==
    ASSUME Login!SessionInv, NEW c \in Asker, Alters(c),
           UNCHANGED <<v1, v2, v3, v4, v6, v8, v9, v11, v12, v13>>,
           v5' \in BOOLEAN, v7' \in BOOLEAN, v14' \in BOOLEAN,
           v13 /\ v6 /\ v8 # "inside" => v7' = v7,
           v10'[c].pc \in {"config", "refresh"} => v10'[c].refresh # Login!NoLogin /\ ~ v13,
           c = Login!Boot => v10[c].pc # "idle" /\ v10'[c].pc # "sent",
           v10[c].pc = "idle" => v8 = "inside"
    PROVE  Login!SessionInv'
<1>0. /\ Login!TypeOK /\ Login!OnePair /\ Login!OfflineStartOpens /\ Login!StartsOnce
      /\ Login!Refreshes /\ Login!NothingAsked
  BY DEF Login!SessionInv
<1>1. Login!TypeOK'
  BY <1>0, SessionTypes DEF Alters, Login!TypeOK, TokenOrNone, LoginOrNone, Asker, Asking, Round
<1>2. Login!OnePair'
  BY <1>0 DEF Login!OnePair
<1>3. Login!OfflineStartOpens'
  BY <1>0 DEF Login!OfflineStartOpens, Login!hasOfflineSessionData
<1>4. Login!StartsOnce'
  BY <1>0 DEF Login!StartsOnce, Alters, Asker
<1>5. Login!Refreshes'
  BY <1>0 DEF Login!Refreshes, Alters, Asker
<1>6. Login!NothingAsked'
  BY <1>0 DEF Login!NothingAsked, Alters, Asker
<1> QED BY <1>1, <1>2, <1>3, <1>4, <1>5, <1>6 DEF Login!SessionInv

\* What a call in flight is.
LEMMA CallsAre ==
    ASSUME Login!SessionInv, NEW c \in Asker
    PROVE  /\ v10 \in [Asker -> Asking] /\ v10[c] \in Asking
           /\ v1 \in BOOLEAN /\ v5 \in BOOLEAN /\ v7 \in BOOLEAN /\ v14 \in BOOLEAN
           /\ v2 \in TokenOrNone /\ v4 \in LoginOrNone
           /\ v13 => ~ v1
           /\ v10[c].pc \in {"config", "refresh"} => v10[c].refresh # Login!NoLogin /\ ~ v13
           /\ c = Login!Boot /\ v10[c].pc # "idle" => v8 = "start"
           /\ c = Login!Boot => v10[c].pc # "sent"
           /\ c # Login!Boot /\ v10[c].pc # "idle" /\ v13 /\ v6 => v8 = "inside"
BY SessionTypes DEF Login!SessionInv, Login!StartsOnce, Login!Refreshes, Login!NothingAsked, Asker

\* What a call finds when it looks at the tokens it has.
LEMMA SessionChecks ==
    ASSUME Login!SessionBounds, Login!SessionInv, NEW c \in Asker, Login!Check(c)
    PROVE  Login!SessionInv'
<1>1. UNCHANGED <<v1, v2, v3, v4, v5, v6, v7, v8, v9, v11, v12, v13, v14>>
  BY DEF Login!Check, Login!tokens, Login!page, Login!rest
<1>2. v10[c].pc = "check"
  BY DEF Login!Check
<1>3. /\ Alters(c)
      /\ v10'[c].pc \in {"got", "config"}
      /\ v10'[c].pc = "config" => ~ v3 /\ v4 # Login!NoLogin /\ v1
      /\ v10'[c].refresh = v4
  BY CallsAre DEF Login!Check, Alters, Asking, TokenOrNone
<1> QED BY ONLY <1>1, <1>2, <1>3, CallsAre, CallGoesOn, Login!SessionInv, c \in Asker

\* The configuration comes, or does not.
LEMMA SessionConfigured ==
    ASSUME Login!SessionBounds, Login!SessionInv, NEW c \in Asker, Login!GetConfig(c)
    PROVE  Login!SessionInv'
<1>1. UNCHANGED <<v1, v2, v3, v4, v6, v7, v8, v9, v11, v12, v13, v14>>
  BY DEF Login!GetConfig, Login!tokens, Login!page
<1>2. v10[c].pc = "config" /\ v5' \in BOOLEAN
  BY CallsAre DEF Login!GetConfig
<1>3. /\ Alters(c)
      /\ v10'[c].pc \in {"got", "refresh"}
      /\ v10'[c].refresh = v10[c].refresh
  BY CallsAre DEF Login!GetConfig, Alters, Asking
<1> QED BY ONLY <1>1, <1>2, <1>3, CallsAre, CallGoesOn, Login!SessionInv, c \in Asker

\* A request that goes round again is a request.
LEMMA CallTwice ==
    \A r \in Asking : [r EXCEPT !.pc = "check", !.tries = 2, !.first = r.token] \in Asking
<1> SUFFICES ASSUME NEW r \in Asking
             PROVE  [r EXCEPT !.pc = "check", !.tries = 2, !.first = r.token] \in Asking
  OBVIOUS
<1>1. \A two \in Round : [r EXCEPT !.pc = "check", !.tries = two, !.first = r.token] \in Asking
  BY DEF Asking
<1> QED BY <1>1 DEF Round

\* A request goes out with the token that is there.
LEMMA SessionRequests ==
    ASSUME Login!SessionBounds, Login!SessionInv, NEW c \in TwoCalls,
           Login!Request(c) \/ Login!Send(c) \/ Login!Response(c)
    PROVE  Login!SessionInv'
<1>0. c \in Asker /\ c # Login!Boot
  BY DEF Asker, Login!SessionBounds
<1>1. /\ UNCHANGED <<v1, v2, v3, v4, v5, v6, v8, v9, v11, v12, v13, v14>>
      /\ v7' \in {v7, TRUE}
  BY DEF Login!Request, Login!Send, Login!Response, Login!tokens, Login!page, Login!rest
<1>2. CASE Login!Request(c)
  <2>1. v10[c].pc = "idle" /\ v8 = "inside" /\ v7' = v7
    BY <1>2 DEF Login!Request, Login!rest
  <2>2. Alters(c) /\ v10'[c].pc = "check"
    BY <1>0, <1>2, CallsAre DEF Login!Request, Alters, Asking, Round
  <2> QED BY ONLY <1>0, <1>1, <2>1, <2>2, CallsAre, CallGoesOn, Login!SessionInv
<1>3. CASE Login!Send(c)
  <2>1. v10[c].pc = "got" /\ v7' = v7
    BY <1>3 DEF Login!Send, Login!rest
  <2>2. Alters(c) /\ v10'[c].pc \in {"sent", "idle"}
    BY <1>0, <1>3, CallsAre, NoCallTyped DEF Login!Send, Alters, Asking, Login!NoCall
  <2> QED BY ONLY <1>0, <1>1, <2>1, <2>2, CallsAre, CallGoesOn, Login!SessionInv
<1>4. CASE Login!Response(c)
  <2>1. v10[c].pc = "sent"
    BY <1>4 DEF Login!Response
  <2>2. /\ v10 \in [Asker -> Asking] /\ v10[c].token \in TokenOrNone /\ Login!NoCall \in Asking
        /\ Login!NoCall.pc = "idle"
    BY <1>0, CallsAre, NoCallTyped DEF Asking, Login!NoCall
  <2>3. CASE v10' = [v10 EXCEPT ![c].pc = "check", ![c].tries = 2, ![c].first = v10[c].token]
    <3>1. Alters(c)
      BY ONLY <1>0, <2>2, <2>3, CallTwice DEF Alters
    <3>2. v10'[c].pc = "check"
      BY ONLY <1>0, <2>2, <2>3 DEF Asking
    <3> QED BY ONLY <1>0, <1>1, <2>1, <3>1, <3>2, CallsAre, CallGoesOn, Login!SessionInv
  <2>4. CASE v10' = [v10 EXCEPT ![c] = Login!NoCall]
    <3>1. Alters(c) /\ v10'[c].pc \in {"check", "idle"}
      BY ONLY <1>0, <2>2, <2>4 DEF Alters, Asking
    <3> QED BY ONLY <1>0, <1>1, <2>1, <3>1, CallsAre, CallGoesOn, Login!SessionInv
  <2> QED BY <1>4, <2>3, <2>4 DEF Login!Response
<1> QED BY <1>2, <1>3, <1>4

\* The answer to a refresh is a pair of one login.
LEMMA SessionRefreshes ==
    ASSUME Login!SessionBounds, Login!SessionInv, NEW c \in Asker, Login!RefreshAnswered(c)
    PROVE  Login!SessionInv'
<1>0. /\ Login!TypeOK /\ Login!OnePair /\ Login!OfflineStartOpens /\ Login!StartsOnce
      /\ Login!Refreshes /\ Login!NothingAsked
  BY SessionParts
<1>1. /\ UNCHANGED <<v1, v5, v6, v7, v8, v9, v11, v13, v14>>
      /\ v10[c].pc = "refresh" /\ ~ v13
      /\ v12 < MaxIssued /\ v12' = v12 + 1
      /\ v2' = [login |-> v10[c].refresh, nr |-> v12 + 1] /\ v4' = v10[c].refresh /\ v3' = TRUE
      /\ v10' = [v10 EXCEPT ![c].pc = "got", ![c].token = v2']
  BY CallsAre DEF Login!RefreshAnswered, Login!storeTokenResponse, Login!page, Login!rest
<1>2. v10[c].refresh \in Login!Login /\ v12 \in 0..MaxIssued /\ MaxIssued \in Nat
  BY <1>0, <1>1, CallsAre, SessionTypes DEF Asking, LoginOrNone, Login!SessionBounds, Login!NoLogin
<1>3. v2' \in Login!Token /\ v2'.login = v4' /\ v4' \in Login!Login
  BY ONLY <1>1, <1>2 DEF Login!Token
<1>4. /\ Alters(c) /\ v10'[c].pc = "got"
  <2>1. v10 \in [Asker -> Asking] /\ v2' \in TokenOrNone
    BY <1>3, CallsAre DEF TokenOrNone
  <2> QED BY ONLY <1>1, <2>1, c \in Asker DEF Alters, Asking
<1>5. v12' \in 0..MaxIssued
  BY ONLY <1>1, <1>2
<1>6. Login!TypeOK'
  BY <1>0, <1>1, <1>3, <1>4, <1>5, SessionTypes DEF Alters, Login!TypeOK, TokenOrNone, LoginOrNone, Asker, Asking, Round
<1>7. Login!OnePair' /\ Login!OfflineStartOpens'
  BY <1>1, <1>3 DEF Login!OnePair, Login!OfflineStartOpens
<1>8. Login!StartsOnce'
  BY <1>0, <1>1, <1>4 DEF Login!StartsOnce, Alters, Asker
<1>9. Login!Refreshes' /\ Login!NothingAsked'
  BY <1>0, <1>1, <1>4 DEF Login!Refreshes, Login!NothingAsked, Alters, Asker
<1> QED BY <1>6, <1>7, <1>8, <1>9, SessionParts DEF Login!SessionInv

\* The server refuses a refresh, and the login ends where it is still that one.
LEMMA SessionRefused ==
    ASSUME Login!SessionBounds, Login!SessionInv, NEW c \in Asker, Login!RefreshRefused(c)
    PROVE  Login!SessionInv'
<1>0. /\ Login!TypeOK /\ Login!OnePair /\ Login!OfflineStartOpens /\ Login!StartsOnce
      /\ Login!Refreshes /\ Login!NothingAsked
  BY SessionParts
<1>1. /\ UNCHANGED <<v1, v5, v6, v7, v8, v9, v11, v12, v13>>
      /\ v10[c].pc = "refresh" /\ ~ v13
      /\ v2' = NoToken /\ v4' = Login!NoLogin /\ v3' = FALSE
      /\ v10' = [v10 EXCEPT ![c].pc = "got"]
  BY CallsAre DEF Login!RefreshRefused, Login!clearTokens, Login!page, Login!rest
<1>2. v14' \in BOOLEAN
  BY CallsAre DEF Login!RefreshRefused
<1>4. /\ Alters(c) /\ v10'[c].pc = "got"
  BY <1>1, CallsAre DEF Alters, Asking
<1>6. Login!TypeOK'
  BY <1>0, <1>1, <1>2, <1>4, SessionTypes DEF Alters, Login!TypeOK, TokenOrNone, LoginOrNone, Asker, Asking, Round
<1>7. Login!OnePair' /\ Login!OfflineStartOpens'
  BY <1>1 DEF Login!OnePair, Login!OfflineStartOpens
<1>8. Login!StartsOnce'
  BY <1>0, <1>1, <1>4 DEF Login!StartsOnce, Alters, Asker
<1>9. Login!Refreshes' /\ Login!NothingAsked'
  BY <1>0, <1>1, <1>4 DEF Login!Refreshes, Login!NothingAsked, Alters, Asker
<1> QED BY <1>6, <1>7, <1>8, <1>9, SessionParts DEF Login!SessionInv

\* A fetch throws, or the start page decides.
LEMMA SessionEndsCall ==
    ASSUME Login!SessionBounds, Login!SessionInv, NEW c \in Asker,
           Login!Throws(c) \/ (c = Login!Boot /\ Login!Bootstrapped)
    PROVE  Login!SessionInv'
<1>0. /\ Login!TypeOK /\ Login!OnePair /\ Login!OfflineStartOpens /\ Login!StartsOnce
      /\ Login!Refreshes /\ Login!NothingAsked
  BY SessionParts
<1>1. /\ UNCHANGED <<v1, v2, v3, v4, v5, v6, v7, v9, v11, v12, v13, v14>>
      /\ v10' = [v10 EXCEPT ![c] = Login!NoCall]
      /\ v10[c].pc \in {"config", "refresh", "sent", "got"}
      /\ c # Login!Boot => v8' = v8
      /\ v8' \in {v8, "inside", "login"}
  BY DEF Login!Throws, Login!Bootstrapped, Login!tokens, Login!rest
<1>2. v8' = "login" => v8 = "login" \/ ~ v13 \/ ~ Login!hasOfflineSessionData
  BY <1>1, CallsAre DEF Login!Throws, Login!Bootstrapped, Asker
<1>3. Alters(c) /\ v10'[c].pc = "idle"
  BY <1>1, CallsAre, NoCallTyped DEF Alters, Login!NoCall
<1>4. Login!TypeOK'
  BY <1>0, <1>1, <1>3, SessionTypes DEF Alters, Login!TypeOK, TokenOrNone, LoginOrNone, Asker, Asking, Round
<1>5. Login!OnePair' /\ Login!OfflineStartOpens'
  BY <1>0, <1>1, <1>2 DEF Login!OnePair, Login!OfflineStartOpens, Login!hasOfflineSessionData
<1>6. Login!StartsOnce'
  BY <1>0, <1>1, <1>3, CallsAre DEF Login!StartsOnce, Alters, Asker
<1>7. Login!Refreshes' /\ Login!NothingAsked'
  BY <1>0, <1>1, <1>3, CallsAre DEF Login!Refreshes, Login!NothingAsked, Alters, Asker
<1> QED BY <1>4, <1>5, <1>6, <1>7, SessionParts DEF Login!SessionInv

\* The member logs in, and out.
LEMMA SessionLogs ==
    ASSUME Login!SessionBounds, Login!SessionInv,
           Login!Submit \/ Login!SignIn \/ Login!SignInFails \/ Login!Logout \/ Login!Expire
    PROVE  Login!SessionInv'
<1>0. /\ Login!TypeOK /\ Login!OnePair /\ Login!OfflineStartOpens /\ Login!StartsOnce
      /\ Login!Refreshes /\ Login!NothingAsked
  BY SessionParts
<1>1. UNCHANGED <<v1, v10>>
  BY DEF Login!Submit, Login!SignIn, Login!SignInFails, Login!Logout, Login!Expire
<1>2. Login!Refreshes'
  BY <1>0, <1>1 DEF Login!Refreshes
<1>3. CASE Login!Submit
  <2>1. /\ UNCHANGED <<v2, v3, v4, v7, v8, v11, v12, v14>>
        /\ v8 = "login" /\ v5' = TRUE /\ v6' = TRUE /\ v9' = TRUE /\ v13' = FALSE
    BY <1>3 DEF Login!Submit, Login!tokens
  <2>2. Login!TypeOK'
    BY <1>0, <1>1, <2>1, SessionTypes DEF Login!TypeOK, TokenOrNone, LoginOrNone, Asker, Asking, Round
  <2>3. Login!OnePair' /\ Login!OfflineStartOpens' /\ Login!StartsOnce' /\ Login!NothingAsked'
    BY <1>0, <1>1, <2>1 DEF Login!OnePair, Login!OfflineStartOpens, Login!StartsOnce, Login!NothingAsked
  <2> QED BY <1>2, <2>2, <2>3, SessionParts DEF Login!SessionInv
<1>4. CASE Login!SignIn
  <2>1. /\ UNCHANGED <<v5, v6, v7, v13, v14>>
        /\ v9 /\ v11 < MaxLogins /\ v11' = v11 + 1 /\ v12 < MaxIssued /\ v12' = v12 + 1
        /\ v2' = [login |-> v11 + 1, nr |-> v12 + 1] /\ v3' = TRUE /\ v4' = v11 + 1
        /\ v8' = "inside" /\ v9' = FALSE
    BY <1>4 DEF Login!SignIn, Login!storeTokenResponse, Login!rest
  <2>2. v11 \in 0..MaxLogins /\ v12 \in 0..MaxIssued /\ MaxLogins \in Nat /\ MaxIssued \in Nat
    BY <1>0, SessionTypes DEF Login!SessionBounds
  <2>3. /\ v11' \in 0..MaxLogins /\ v12' \in 0..MaxIssued /\ v4' \in Login!Login
        /\ v2' \in Login!Token /\ v2'.login = v4'
    BY ONLY <2>1, <2>2 DEF Login!Login, Login!Token
  <2>4. Login!TypeOK'
    BY <1>0, <1>1, <2>1, <2>3, SessionTypes DEF Login!TypeOK, TokenOrNone, LoginOrNone, Asker, Asking, Round
  <2>5. Login!OnePair' /\ Login!OfflineStartOpens' /\ Login!StartsOnce' /\ Login!NothingAsked'
    BY <1>0, <1>1, <2>1, <2>3 DEF Login!OnePair, Login!OfflineStartOpens, Login!StartsOnce, Login!NothingAsked
  <2> QED BY <1>2, <2>4, <2>5, SessionParts DEF Login!SessionInv
<1>5. CASE Login!SignInFails
  <2>1. UNCHANGED <<v2, v3, v4, v5, v6, v7, v8, v11, v12, v13, v14>> /\ v9' = FALSE
    BY <1>5 DEF Login!SignInFails, Login!tokens, Login!rest
  <2>2. Login!TypeOK'
    BY <1>0, <1>1, <2>1, SessionTypes DEF Login!TypeOK, TokenOrNone, LoginOrNone, Asker, Asking, Round
  <2>3. Login!OnePair' /\ Login!OfflineStartOpens' /\ Login!StartsOnce' /\ Login!NothingAsked'
    BY <1>0, <1>1, <2>1 DEF Login!OnePair, Login!OfflineStartOpens, Login!StartsOnce, Login!NothingAsked,
       Login!hasOfflineSessionData
  <2> QED BY <1>2, <2>2, <2>3, SessionParts DEF Login!SessionInv
<1>6. CASE Login!Logout
  <2>1. /\ UNCHANGED <<v9, v11, v12, v13, v14>>
        /\ v8 = "inside" /\ v8' = "login" /\ v2' = NoToken /\ v3' = FALSE /\ v4' = Login!NoLogin
        /\ v5' = FALSE /\ v6' = FALSE /\ v7' = FALSE
    BY <1>6 DEF Login!Logout, Login!clearTokens
  <2>2. Login!TypeOK'
    BY <1>0, <1>1, <2>1, SessionTypes DEF Login!TypeOK, TokenOrNone, LoginOrNone, Asker, Asking, Round
  <2>3. Login!OnePair' /\ Login!OfflineStartOpens' /\ Login!StartsOnce' /\ Login!NothingAsked'
    BY <1>0, <1>1, <2>1 DEF Login!OnePair, Login!OfflineStartOpens, Login!StartsOnce, Login!NothingAsked
  <2> QED BY <1>2, <2>2, <2>3, SessionParts DEF Login!SessionInv
<1>7. CASE Login!Expire
  <2>1. UNCHANGED <<v2, v4, v5, v6, v7, v8, v9, v11, v12, v13, v14>> /\ v3' = FALSE
    BY <1>7 DEF Login!Expire, Login!page, Login!rest
  <2>2. Login!TypeOK'
    BY <1>0, <1>1, <2>1, SessionTypes DEF Login!TypeOK, TokenOrNone, LoginOrNone, Asker, Asking, Round
  <2>3. Login!OnePair' /\ Login!OfflineStartOpens' /\ Login!StartsOnce' /\ Login!NothingAsked'
    BY <1>0, <1>1, <2>1 DEF Login!OnePair, Login!OfflineStartOpens, Login!StartsOnce, Login!NothingAsked,
       Login!hasOfflineSessionData
  <2> QED BY <1>2, <2>2, <2>3, SessionParts DEF Login!SessionInv
<1> QED BY <1>3, <1>4, <1>5, <1>6, <1>7

\* The app is opened again; the network comes and goes.
LEMMA SessionDevice ==
    ASSUME Login!SessionBounds, Login!SessionInv, Login!Restart \/ Login!Network
    PROVE  Login!SessionInv'
<1>0. /\ Login!TypeOK /\ Login!OnePair /\ Login!OfflineStartOpens /\ Login!StartsOnce
      /\ Login!Refreshes /\ Login!NothingAsked
  BY SessionParts
<1>1. CASE Login!Restart
  <2>1. /\ UNCHANGED <<v1, v2, v3, v4, v5, v6, v7, v11, v12, v14>>
        /\ v9' = FALSE /\ v13' = ~ v1
        /\ v8' = IF v6 THEN "start" ELSE "login"
    BY <1>1 DEF Login!Restart, Login!tokens, Login!rest
  <2>2. v13' \in BOOLEAN
    BY ONLY <2>1
  <2>3. v10' \in [Asker -> Asking]
    BY <1>1, NoCallTyped DEF Login!Restart, Asker
  <2>4. \A c \in Asker : /\ v10'[c].pc \in {"idle", "check"}
                         /\ c # Login!Boot \/ ~ v6 => v10'[c].pc = "idle"
    BY <1>1 DEF Login!Restart, Login!NoCall, Asker
  <2>5. Login!TypeOK'
    BY <1>0, <2>1, <2>2, <2>3, SessionTypes DEF Login!TypeOK, TokenOrNone, LoginOrNone, Asker, Asking, Round
  <2>6. Login!OnePair' /\ Login!OfflineStartOpens'
    BY <1>0, <2>1 DEF Login!OnePair, Login!OfflineStartOpens
  <2>7. Login!StartsOnce'
    BY <2>1, <2>4 DEF Login!StartsOnce, Asker
  <2>8. Login!Refreshes' /\ Login!NothingAsked'
    BY <2>1, <2>4 DEF Login!Refreshes, Login!NothingAsked, Asker, Login!SessionBounds
  <2> QED BY <2>5, <2>6, <2>7, <2>8, SessionParts DEF Login!SessionInv
<1>2. CASE Login!Network
  <2>1. /\ UNCHANGED <<v2, v3, v4, v5, v6, v7, v8, v9, v10, v11, v12, v14>>
        /\ v1' \in BOOLEAN /\ v13' = FALSE
    BY <1>2 DEF Login!Network, Login!tokens, Login!rest
  <2>2. Login!TypeOK'
    BY <1>0, <2>1, SessionTypes DEF Login!TypeOK, TokenOrNone, LoginOrNone, Asker, Asking, Round
  <2>3. /\ Login!OnePair' /\ Login!OfflineStartOpens' /\ Login!StartsOnce' /\ Login!Refreshes'
        /\ Login!NothingAsked'
    BY <1>0, <2>1 DEF Login!OnePair, Login!OfflineStartOpens, Login!StartsOnce, Login!Refreshes,
       Login!NothingAsked
  <2> QED BY <2>2, <2>3, SessionParts DEF Login!SessionInv
<1> QED BY <1>1, <1>2

\* Nothing moves.
LEMMA SessionStays ==
    ASSUME Login!SessionInv,
           UNCHANGED <<v1, v2, v3, v4, v5, v6, v7, v8, v9, v10, v11, v12, v13, v14>>
    PROVE  Login!SessionInv'
<1>1. Login!TypeOK'
  BY SessionTypes, SessionParts DEF Login!TypeOK, TokenOrNone, LoginOrNone, Asker, Asking, Round
<1>2. /\ Login!OnePair' /\ Login!OfflineStartOpens' /\ Login!StartsOnce' /\ Login!Refreshes'
      /\ Login!NothingAsked'
  BY SessionParts DEF Login!OnePair, Login!OfflineStartOpens, Login!StartsOnce, Login!Refreshes,
     Login!NothingAsked, Login!hasOfflineSessionData
<1> QED BY <1>1, <1>2 DEF Login!SessionInv

\* Every step of the session, its requests and the start of the app keeps it.
LEMMA SessionKept ==
    ASSUME Login!SessionBounds, Login!SessionInv, Login!Next
    PROVE  Login!SessionInv'
<1>1. Login!Boot \in Asker /\ TwoCalls \subseteq Asker
  BY DEF Asker
<1>2. ASSUME NEW c \in Asker,
             \/ Login!Check(c) \/ Login!GetConfig(c) \/ Login!RefreshAnswered(c)
             \/ Login!RefreshRefused(c) \/ Login!Throws(c)
      PROVE  Login!SessionInv'
  <2>1. CASE Login!Check(c)
    BY <2>1, SessionChecks
  <2>2. CASE Login!GetConfig(c)
    BY <2>2, SessionConfigured
  <2>3. CASE Login!RefreshAnswered(c)
    BY <2>3, SessionRefreshes
  <2>4. CASE Login!RefreshRefused(c)
    BY <2>4, SessionRefused
  <2>5. CASE Login!Throws(c)
    BY <2>5, SessionEndsCall
  <2> QED BY <1>2, <2>1, <2>2, <2>3, <2>4, <2>5
<1>3. ASSUME NEW c \in TwoCalls, Login!Request(c) \/ Login!Send(c) \/ Login!Response(c)
      PROVE  Login!SessionInv'
  BY <1>3, SessionRequests
<1>4. CASE Login!Bootstrapped
  BY <1>1, <1>4, SessionEndsCall
<1>5. CASE \/ Login!Submit \/ Login!SignIn \/ Login!SignInFails \/ Login!Logout \/ Login!Restart
           \/ Login!Network \/ Login!Expire
  BY <1>5, SessionLogs, SessionDevice
<1>6. CASE \E c \in Asker :
              \/ Login!Check(c) \/ Login!GetConfig(c) \/ Login!RefreshAnswered(c)
              \/ Login!RefreshRefused(c) \/ Login!Throws(c)
  BY <1>2, <1>6
<1>7. CASE \E c \in TwoCalls : Login!Request(c) \/ Login!Send(c) \/ Login!Response(c)
  BY <1>3, <1>7
<1> QED BY <1>4, <1>5, <1>6, <1>7, Zenon DEF Login!Next, Asker

-----------------------------------------------------------------------------
(* The library of a browser (OfflineLibrary): v2 is the version at the      *)
(* server, v4 the one stored, v5 says that it has a date, v6 are the tabs,  *)
(* v7 the synchronisations and v9 the requests under way, v10 is the newest *)
(* version that was synchronised, v11 says that two of them crossed.        *)

\* A copy of the library on its way, a request on its way, and where a tab may be.
Syncing == [pc : {"sent", "replace", "date"}, payload : 0..MaxVersion]
ReadAt == [pc : Device!Reading, version : 0..MaxVersion]
AppAt == {"closed", "config", "login", "session", "offlineBoot", "notice"}

\* The types, by those names.
LEMMA DeviceTypes ==
    Device!TypeOK <=>
      /\ v1 \in BOOLEAN /\ v3 \in BOOLEAN /\ v5 \in BOOLEAN /\ v11 \in BOOLEAN
      /\ v2 \in 1..MaxVersion /\ v4 \in 0..v2 /\ v10 \in 0..v2
      /\ v6 \in [Tab -> AppAt]
      /\ v7 \in [Tab -> SUBSET Syncing]
      /\ \A t \in Tab : v7[t] # {} => v6[t] = "session"
      /\ v8 \in [Tab -> SUBSET Device!Notices]
      /\ v9 \in [Tab -> ReadAt]
BY DEF Device!TypeOK, Syncing, ReadAt, AppAt

\* The invariant, part by part.
LEMMA DeviceParts ==
    Device!DeviceInv <=>
      /\ Device!TypeOK /\ Device!LibraryKept /\ Device!OneSync /\ Device!DatedHasLibrary
      /\ Device!OneTab
BY DEF Device!DeviceInv

\* What the types look like after a step.
DeviceNext ==
    /\ v1' \in BOOLEAN /\ v3' \in BOOLEAN /\ v5' \in BOOLEAN /\ v11' \in BOOLEAN
    /\ v2' \in 1..MaxVersion /\ v4' \in 0..v2' /\ v10' \in 0..v2'
    /\ v6' \in [Tab -> AppAt]
    /\ v7' \in [Tab -> SUBSET Syncing]
    /\ \A t \in Tab : v7'[t] # {} => v6'[t] = "session"
    /\ v8' \in [Tab -> SUBSET Device!Notices]
    /\ v9' \in [Tab -> ReadAt]

\* Its next state, part by part.
LEMMA DeviceNextTypes == DeviceNext => Device!TypeOK'
BY DEF DeviceNext, Device!TypeOK, Syncing, ReadAt, AppAt

\* Before a tab is opened.
LEMMA DeviceInitially ==
    ASSUME Device!Bounds, Device!Init
    PROVE  Device!DeviceInv
<1>1. Device!NoRead \in ReadAt
  BY DEF Device!NoRead, ReadAt, Device!Reading, Device!Bounds
<1>2. v1 \in BOOLEAN /\ v3 \in BOOLEAN /\ v5 \in BOOLEAN /\ v11 \in BOOLEAN
  BY Zenon DEF Device!Init
<1>5. v2 \in 1..MaxVersion /\ v4 \in 0..v2 /\ v10 \in 0..v2
  BY DEF Device!Init, Device!Bounds
<1>3. /\ v6 \in [Tab -> AppAt] /\ v7 \in [Tab -> SUBSET Syncing] /\ \A t \in Tab : v7[t] = {}
      /\ v8 \in [Tab -> SUBSET Device!Notices] /\ v9 \in [Tab -> ReadAt]
  BY <1>1 DEF Device!Init, AppAt
<1>4. Device!TypeOK
  BY <1>2, <1>3, <1>5, DeviceTypes
<1> QED BY <1>4, <1>3 DEF Device!Init, Device!DeviceInv, Device!LibraryKept, Device!OneSync,
        Device!DatedHasLibrary, Device!OneTab

\* The syncs wait.
LEMMA DeviceGoesOn ==
    ASSUME Device!DeviceInv, DeviceNext, UNCHANGED <<v4, v5, v7, v10, v11>>, v2' \in {v2, v2 + 1},
           \A t \in Tab : v6'[t] = "offlineBoot" => v6[t] = "offlineBoot" \/ v4 # 0
    PROVE  Device!DeviceInv'
<1>0. /\ Device!TypeOK /\ Device!LibraryKept /\ Device!OneSync /\ Device!DatedHasLibrary
      /\ Device!OneTab
  BY DeviceParts
<1>1. Device!TypeOK'
  BY DeviceNextTypes
<1>2. Device!LibraryKept' /\ Device!OneSync' /\ Device!OneTab'
  BY <1>0 DEF Device!LibraryKept, Device!OneSync, Device!OneTab
<1>3. Device!DatedHasLibrary'
  <2>1. v2 \in Int /\ v2' >= v2
    BY <1>0, DeviceTypes
  <2> QED BY <1>0, <2>1 DEF Device!DatedHasLibrary
<1> QED BY <1>1, <1>2, <1>3 DEF Device!DeviceInv

\* A tab has another sync, or none, and the library stands.
LEMMA DeviceSyncs ==
    ASSUME Device!DeviceInv, DeviceNext, NEW t \in Tab,
           \A u \in Tab : u # t => v7'[u] = v7[u],
           v7'[t] # {} => v11' = (v11 \/ \E u \in Tab \ {t} : v7[u] # {}),
           v7'[t] = {} => v11' = v11,
           \A r, s \in v7'[t] : r = s,
           \A s \in v7'[t] : s = [pc |-> "sent", payload |-> 0] \/ s = [pc |-> "replace", payload |-> v2],
           UNCHANGED <<v2, v4, v10>>, v5' => v4 # 0,
           \A u \in Tab : v6'[u] = "offlineBoot" => v6[u] = "offlineBoot"
    PROVE  Device!DeviceInv'
<1>0. /\ Device!TypeOK /\ Device!LibraryKept /\ Device!OneSync /\ Device!DatedHasLibrary
      /\ Device!OneTab
  BY DeviceParts
<1>1. Device!TypeOK'
  BY DeviceNextTypes
<1>2. v11 \in BOOLEAN /\ v2 \in Nat /\ v2 >= 1 /\ v10 \in Nat /\ v10 <= v2
  BY <1>0, DeviceTypes
<1>3. v11 => v11'
  BY <1>2
<1>4. Device!LibraryKept' /\ Device!OneSync'
  BY <1>0, <1>3 DEF Device!LibraryKept, Device!OneSync
<1>5. Device!DatedHasLibrary'
  BY <1>0, <1>2 DEF Device!DatedHasLibrary
<1>6. ASSUME ~ v11'
      PROVE  /\ \A u, w \in Tab : v7'[u] # {} /\ v7'[w] # {} => u = w
             /\ \A u \in Tab : \A s \in v7'[u] : s.pc = "replace" => s.payload >= v10
  <2>1. /\ \A u, w \in Tab : v7[u] # {} /\ v7[w] # {} => u = w
        /\ \A u \in Tab : \A s \in v7[u] : s.pc = "replace" => s.payload >= v10
    BY <1>0, <1>3, <1>6 DEF Device!OneTab
  <2>2. v7'[t] # {} => \A u \in Tab : u # t => v7[u] = {}
    BY <1>6
  <2>3. \A s \in v7'[t] : s.pc = "replace" => s.payload >= v10
    BY <1>2
  <2> QED BY <2>1, <2>2, <2>3
<1>7. Device!OneTab'
  BY <1>6 DEF Device!OneTab
<1> QED BY <1>1, <1>4, <1>5, <1>7 DEF Device!DeviceInv

\* A tab starts, reads, shows or dismisses something; the server and the network change.
LEMMA DeviceReads ==
    ASSUME Device!Bounds, Device!DeviceInv, NEW t \in Tab,
           \/ Device!Open(t) \/ Device!ConfigArrives(t) \/ Device!OfflineBoot(t) \/ Device!AskFor(t)
           \/ Device!ReadAnswered(t) \/ Device!buildOfflineResponse(t)
           \/ Device!dismissSyncError(t) \/ Device!notifyAppUpdate(t)
    PROVE  Device!DeviceInv'
<1>0. Device!TypeOK /\ Device!DatedHasLibrary
  BY DeviceParts
<1>1. UNCHANGED <<v1, v2, v4, v5, v7, v10, v11>>
  BY DEF Device!Open, Device!ConfigArrives, Device!OfflineBoot, Device!AskFor, Device!ReadAnswered,
     Device!buildOfflineResponse, Device!dismissSyncError, Device!notifyAppUpdate, Device!device
<1>2. v3' \in BOOLEAN
  BY <1>0, DeviceTypes DEF Device!Open, Device!ConfigArrives, Device!OfflineBoot, Device!AskFor,
     Device!ReadAnswered, Device!buildOfflineResponse, Device!dismissSyncError, Device!notifyAppUpdate,
     Device!device
<1>3. /\ v6' \in [Tab -> AppAt]
      /\ \A u \in Tab : v6[u] = "session" => v6'[u] = "session"
      /\ \A u \in Tab : v6'[u] = "offlineBoot" => v6[u] = "offlineBoot" \/ v4 # 0
  <2>1. v6 \in [Tab -> AppAt]
    BY <1>0, DeviceTypes
  <2>2. CASE v6' = v6
    BY <2>1, <2>2
  <2>3. CASE Device!Open(t)
    BY <2>1, <2>3 DEF Device!Open, Device!App, AppAt
  <2>4. CASE Device!ConfigArrives(t)
    BY <2>1, <2>4 DEF Device!ConfigArrives, Device!App, AppAt
  <2>5. CASE Device!OfflineBoot(t)
    BY <1>0, <2>1, <2>5 DEF Device!OfflineBoot, Device!App, AppAt, Device!MayStartOffline,
       Device!DatedHasLibrary
  <2> QED BY <2>2, <2>3, <2>4, <2>5 DEF Device!AskFor, Device!ReadAnswered, Device!buildOfflineResponse,
          Device!dismissSyncError, Device!notifyAppUpdate
<1>4. v8' \in [Tab -> SUBSET Device!Notices]
  <2>1. v8 \in [Tab -> SUBSET Device!Notices]
    BY <1>0, DeviceTypes
  <2>2. CASE v8' = v8
    BY <2>1, <2>2
  <2>3. CASE Device!dismissSyncError(t) \/ Device!notifyAppUpdate(t)
    BY <2>1, <2>3 DEF Device!dismissSyncError, Device!notifyAppUpdate, Device!Notices
  <2> QED BY <2>2, <2>3 DEF Device!Open, Device!ConfigArrives, Device!OfflineBoot, Device!AskFor,
          Device!ReadAnswered, Device!buildOfflineResponse
<1>5. v9' \in [Tab -> ReadAt]
  <2>1. /\ v9 \in [Tab -> ReadAt] /\ v2 \in 0..MaxVersion /\ v4 \in 0..MaxVersion /\ 0 \in 0..MaxVersion
    BY <1>0, DeviceTypes DEF Device!Bounds
  <2>2. CASE v9' = v9
    BY <2>1, <2>2
  <2>3. CASE Device!AskFor(t)
    BY <2>1, <2>3 DEF Device!AskFor, Device!NoRead, ReadAt, Device!Reading
  <2>4. CASE Device!ReadAnswered(t)
    BY <2>1, <2>4 DEF Device!ReadAnswered, ReadAt, Device!Reading
  <2>5. CASE Device!buildOfflineResponse(t)
    BY <2>1, <2>5 DEF Device!buildOfflineResponse, ReadAt, Device!Reading
  <2> QED BY <2>2, <2>3, <2>4, <2>5 DEF Device!Open, Device!ConfigArrives, Device!OfflineBoot,
          Device!dismissSyncError, Device!notifyAppUpdate
<1>6. DeviceNext
  BY <1>0, <1>1, <1>2, <1>3, <1>4, <1>5, DeviceTypes DEF DeviceNext
<1> QED BY <1>1, <1>3, <1>6, DeviceGoesOn

\* The network, the data and the tabs change.
LEMMA DeviceWorld ==
    ASSUME Device!Bounds, Device!DeviceInv, Device!ServerChanges \/ Device!Connectivity
    PROVE  Device!DeviceInv'
<1>0. Device!TypeOK /\ MaxVersion \in Nat
  BY DeviceParts DEF Device!Bounds
<1>1. UNCHANGED <<v3, v4, v5, v6, v7, v8, v9, v10, v11>>
  BY DEF Device!ServerChanges, Device!Connectivity, Device!device
<1>2. v1' \in BOOLEAN
  BY <1>0, DeviceTypes DEF Device!ServerChanges, Device!Connectivity
<1>3. v2' = v2 \/ (v2 < MaxVersion /\ v2' = v2 + 1)
  BY DEF Device!ServerChanges, Device!Connectivity
<1>4. v2' \in 1..MaxVersion /\ v2' \in {v2, v2 + 1} /\ v4 \in 0..v2' /\ v10 \in 0..v2'
  BY <1>0, <1>3, DeviceTypes
<1>5. DeviceNext
  BY <1>0, <1>1, <1>2, <1>4, DeviceTypes DEF DeviceNext
<1> QED BY <1>1, <1>4, <1>5, DeviceGoesOn

\* A sync starts or is answered or fails, or its tab is closed.
LEMMA DeviceAsks ==
    ASSUME Device!Bounds, Device!DeviceInv, NEW t \in Tab,
           Device!initKeycloak(t) \/ Device!runSync(t) \/ Device!CloseTab(t)
    PROVE  Device!DeviceInv'
<1>0. Device!TypeOK /\ Device!OneSync /\ Device!DatedHasLibrary /\ MaxVersion \in Nat
  BY DeviceParts DEF Device!Bounds
<1>1. v6 \in [Tab -> AppAt] /\ v7 \in [Tab -> SUBSET Syncing] /\ v8 \in [Tab -> SUBSET Device!Notices]
  BY <1>0, DeviceTypes
<1>2. UNCHANGED <<v1, v2, v3, v4, v5, v10>>
  BY DEF Device!initKeycloak, Device!runSync, Device!CloseTab, Device!device
<1>3. CASE Device!initKeycloak(t) \/ Device!runSync(t)
  <2>1. /\ v7[t] = {} /\ Device!StartSync(t) /\ v9' = v9
        /\ (v6' = v6 /\ v6[t] = "session") \/ v6' = [v6 EXCEPT ![t] = "session"]
    BY <1>0, <1>1, <1>3, DeviceTypes DEF Device!initKeycloak, Device!runSync, Device!App, Device!isOnline,
       Device!MaySync
  <2>2. /\ v7' = [v7 EXCEPT ![t] = {[pc |-> "sent", payload |-> 0]}]
        /\ v11' = (v11 \/ \E u \in Tab \ {t} : v7[u] # {})
        /\ v8' = [v8 EXCEPT ![t] = @ \ {"lastError"}]
    BY <2>1 DEF Device!StartSync, Device!Syncs
  <2>3. /\ v6' \in [Tab -> AppAt] /\ v6'[t] = "session"
        /\ \A u \in Tab : u # t => v6'[u] = v6[u]
    BY <1>1, <2>1 DEF AppAt
  <2>4. [pc |-> "sent", payload |-> 0] \in Syncing
    BY <1>0 DEF Syncing
  <2>5. /\ v7' \in [Tab -> SUBSET Syncing] /\ v7'[t] = {[pc |-> "sent", payload |-> 0]}
        /\ \A u \in Tab : u # t => v7'[u] = v7[u]
    BY ONLY <1>1, <2>2, <2>4, t \in Tab
  <2>6. v8' \in [Tab -> SUBSET Device!Notices] /\ v11' \in BOOLEAN
    BY <1>1, <2>2
  <2>7. DeviceNext
    BY <1>0, <1>2, <2>1, <2>3, <2>5, <2>6, DeviceTypes DEF DeviceNext
  <2>8. v5' => v4 # 0
    BY <1>0, <1>2 DEF Device!DatedHasLibrary
  <2> QED BY <1>2, <2>2, <2>3, <2>5, <2>7, <2>8, DeviceSyncs
<1>4. CASE Device!CloseTab(t)
  <2>1. /\ v6' = [v6 EXCEPT ![t] = "closed"] /\ v7' = [v7 EXCEPT ![t] = {}] /\ v8' = [v8 EXCEPT ![t] = {}]
        /\ v9' = [v9 EXCEPT ![t] = Device!NoRead] /\ v11' = v11
    BY <1>4 DEF Device!CloseTab, Device!App
  <2>2. v9' \in [Tab -> ReadAt]
    BY <1>0, <2>1, DeviceTypes DEF Device!NoRead, ReadAt, Device!Reading
  <2>3. v6' \in [Tab -> AppAt] /\ v6'[t] = "closed" /\ \A u \in Tab : u # t => v6'[u] = v6[u]
    BY <1>1, <2>1 DEF AppAt
  <2>4. v7' \in [Tab -> SUBSET Syncing] /\ v7'[t] = {} /\ \A u \in Tab : u # t => v7'[u] = v7[u]
    BY <1>1, <2>1
  <2>5. v8' \in [Tab -> SUBSET Device!Notices]
    BY <1>1, <2>1
  <2>6. DeviceNext
    BY <1>0, <1>2, <2>1, <2>2, <2>3, <2>4, <2>5, DeviceTypes DEF DeviceNext
  <2>8. v5' => v4 # 0
    BY <1>0, <1>2 DEF Device!DatedHasLibrary
  <2> QED BY <1>2, <2>1, <2>3, <2>4, <2>6, <2>8, DeviceSyncs
<1> QED BY <1>3, <1>4

\* A request is answered, by the server or out of the library.
LEMMA DeviceAnswers ==
    ASSUME Device!Bounds, Device!DeviceInv, NEW t \in Tab, NEW s \in v7[t],
           Device!SyncAnswered(t, s) \/ Device!setLastSyncedAt(t, s) \/ Device!SyncFails(t, s)
    PROVE  Device!DeviceInv'
<1>0. Device!TypeOK /\ Device!OneSync /\ Device!DatedHasLibrary /\ MaxVersion \in Nat
  BY DeviceParts DEF Device!Bounds
<1>1. /\ v6 \in [Tab -> AppAt] /\ v7 \in [Tab -> SUBSET Syncing] /\ v8 \in [Tab -> SUBSET Device!Notices]
      /\ v6[t] = "session" /\ v5 \in BOOLEAN
  BY <1>0, DeviceTypes
<1>2. UNCHANGED <<v1, v2, v3, v4, v6, v9, v10>>
  BY DEF Device!SyncAnswered, Device!setLastSyncedAt, Device!SyncFails, Device!device
<1>3. v7[t] \ {s} = {}
  BY <1>0 DEF Device!OneSync
<1>4. v8' \in [Tab -> SUBSET Device!Notices]
  BY <1>1 DEF Device!SyncAnswered, Device!setLastSyncedAt, Device!SyncFails, Device!Notices
<1>5. v5' \in BOOLEAN /\ (v5' => v4 # 0)
  <2>1. CASE v5' = v5
    BY <1>0, <1>1, <2>1 DEF Device!DatedHasLibrary
  <2>2. CASE Device!setLastSyncedAt(t, s)
    BY <1>0, <2>2 DEF Device!setLastSyncedAt, Device!DatedHasLibrary
  <2> QED BY <2>1, <2>2 DEF Device!SyncAnswered, Device!SyncFails, Device!device
<1>6. CASE Device!SyncAnswered(t, s)
  <2>1. /\ v7' = [v7 EXCEPT ![t] = {[pc |-> "replace", payload |-> v2]}]
        /\ v11' = (v11 \/ \E u \in Tab \ {t} : v7[u] # {})
    BY <1>3, <1>6 DEF Device!SyncAnswered, Device!Syncs
  <2>2. [pc |-> "replace", payload |-> v2] \in Syncing
    BY <1>0, DeviceTypes DEF Syncing
  <2>3. /\ v7' \in [Tab -> SUBSET Syncing] /\ v7'[t] = {[pc |-> "replace", payload |-> v2]}
        /\ \A u \in Tab : u # t => v7'[u] = v7[u]
    BY ONLY <1>1, <2>1, <2>2, t \in Tab
  <2>4. v11' \in BOOLEAN
    BY <2>1
  <2>5. DeviceNext
    BY <1>0, <1>1, <1>2, <1>4, <1>5, <2>3, <2>4, DeviceTypes DEF DeviceNext
  <2> QED BY <1>2, <1>5, <2>1, <2>3, <2>5, DeviceSyncs
<1>7. CASE Device!setLastSyncedAt(t, s) \/ Device!SyncFails(t, s)
  <2>1. v7' = [v7 EXCEPT ![t] = {}] /\ v11' = v11
    <3>1. v7' = [v7 EXCEPT ![t] = {}] /\ v11' = (v11 \/ FALSE)
      BY <1>3, <1>7 DEF Device!setLastSyncedAt, Device!SyncFails, Device!Syncs
    <3>2. v11 \in BOOLEAN
      BY <1>0, DeviceTypes
    <3> QED BY <3>1, <3>2
  <2>3. v7' \in [Tab -> SUBSET Syncing] /\ v7'[t] = {} /\ \A u \in Tab : u # t => v7'[u] = v7[u]
    BY <1>1, <2>1
  <2>5. DeviceNext
    BY <1>0, <1>1, <1>2, <1>4, <1>5, <2>1, <2>3, DeviceTypes DEF DeviceNext
  <2> QED BY <1>2, <1>5, <2>1, <2>3, <2>5, DeviceSyncs
<1> QED BY <1>6, <1>7

\* The new library is the newest, when one tab syncs.
LEMMA DeviceReplaces ==
    ASSUME Device!Bounds, Device!DeviceInv, NEW t \in Tab, NEW s \in v7[t], Device!replaceAllStores(t, s)
    PROVE  Device!DeviceInv'
<1>0. /\ Device!TypeOK /\ Device!OneSync /\ Device!DatedHasLibrary /\ Device!OneTab /\ MaxVersion \in Nat
      /\ Device!LibraryKept
  BY DeviceParts DEF Device!Bounds
<1>1. /\ v6 \in [Tab -> AppAt] /\ v7 \in [Tab -> SUBSET Syncing]
      /\ v6[t] = "session" /\ v11 \in BOOLEAN /\ s \in Syncing
      /\ v2 \in 1..MaxVersion /\ v10 \in 0..v2
  BY <1>0, DeviceTypes
<1>2. /\ UNCHANGED <<v1, v2, v3, v5, v6, v8, v9>>
      /\ s.pc = "replace"
      /\ v4' = s.payload /\ v10' = IF s.payload > v10 THEN s.payload ELSE v10
  BY DEF Device!replaceAllStores
<1>3. v7[t] \ {s} = {} /\ s.payload \in 1..v2
  BY <1>0, <1>2 DEF Device!OneSync, Device!DatedHasLibrary
<1>4. PICK r \in Syncing : r.pc = "date" /\ v7' = [v7 EXCEPT ![t] = {r}]
  <2>1. [s EXCEPT !.pc = "date"] \in Syncing /\ [s EXCEPT !.pc = "date"].pc = "date"
    BY <1>1 DEF Syncing
  <2>2. v7' = [v7 EXCEPT ![t] = {[s EXCEPT !.pc = "date"]}]
    BY <1>3 DEF Device!replaceAllStores, Device!Syncs
  <2> QED BY <2>1, <2>2
<1>5. v11' = (v11 \/ \E u \in Tab \ {t} : v7[u] # {})
  BY <1>3 DEF Device!replaceAllStores, Device!Syncs
<1>6. v11' \in BOOLEAN /\ (v11 => v11')
  BY <1>5
<1>7. /\ v7' \in [Tab -> SUBSET Syncing] /\ v7'[t] = {r}
      /\ \A u \in Tab : u # t => v7'[u] = v7[u]
  BY ONLY <1>1, <1>4, t \in Tab
<1>8. v4' \in 1..v2 /\ v10' \in 0..v2
  BY <1>1, <1>2, <1>3
<1>9. DeviceNext
  BY <1>0, <1>1, <1>2, <1>6, <1>7, <1>8, DeviceTypes DEF DeviceNext
<1>10. Device!OneSync' /\ Device!DatedHasLibrary'
  BY <1>0, <1>2, <1>4, <1>7, <1>8 DEF Device!OneSync, Device!DatedHasLibrary
<1>11. ASSUME ~ v11'
       PROVE  v4' = v10' /\ Device!OneTab'
  <2>1. s.payload >= v10 /\ \A u \in Tab : u # t => v7[u] = {}
    BY <1>0, <1>2, <1>5, <1>6, <1>11 DEF Device!OneTab
  <2>2. v4' = v10'
    BY <1>1, <1>2, <1>3, <2>1
  <2>3. Device!OneTab'
    BY <1>4, <1>7, <2>1 DEF Device!OneTab
  <2> QED BY <2>2, <2>3
<1>12. Device!LibraryKept'
  BY <1>8, <1>11 DEF Device!LibraryKept
<1>13. Device!OneTab'
  BY <1>11 DEF Device!OneTab
<1> QED BY <1>9, <1>10, <1>12, <1>13, DeviceNextTypes DEF Device!DeviceInv

\* What stands still keeps it.
LEMMA DeviceStays ==
    ASSUME Device!DeviceInv, UNCHANGED <<v1, v2, v3, v4, v5, v6, v7, v8, v9, v10, v11>>
    PROVE  Device!DeviceInv'
<1>1. Device!TypeOK
  BY DeviceParts
<1>2. DeviceNext
  BY <1>1, DeviceTypes DEF DeviceNext
<1> QED BY <1>2, DeviceGoesOn

\* Every step of the device, its tabs and its synchronisation keeps it.
LEMMA DeviceKept ==
    ASSUME Device!Bounds, Device!DeviceInv, Device!Next
    PROVE  Device!DeviceInv'
<1>1. ASSUME NEW t \in Tab,
             \/ Device!Open(t) \/ Device!ConfigArrives(t) \/ Device!OfflineBoot(t) \/ Device!AskFor(t)
             \/ Device!ReadAnswered(t) \/ Device!buildOfflineResponse(t)
             \/ Device!dismissSyncError(t) \/ Device!notifyAppUpdate(t)
      PROVE  Device!DeviceInv'
  BY <1>1, DeviceReads
<1>2. ASSUME NEW t \in Tab, Device!initKeycloak(t) \/ Device!runSync(t) \/ Device!CloseTab(t)
      PROVE  Device!DeviceInv'
  BY <1>2, DeviceAsks
<1>3. ASSUME NEW t \in Tab, NEW s \in v7[t],
             \/ Device!SyncAnswered(t, s) \/ Device!replaceAllStores(t, s)
             \/ Device!setLastSyncedAt(t, s) \/ Device!SyncFails(t, s)
      PROVE  Device!DeviceInv'
  BY <1>3, DeviceAnswers, DeviceReplaces
<1>4. CASE Device!ServerChanges \/ Device!Connectivity
  BY <1>4, DeviceWorld
<1> QED BY <1>1, <1>2, <1>3, <1>4 DEF Device!Next

-----------------------------------------------------------------------------
(* The library of the phone (MobileLibrary): v3 are the items at the        *)
(* server, v4 those stored, v5 the calls under way, v6 counts the changes   *)
(* at the server, v7 are the lists stored since. A list is read in pages    *)
(* while items come and go: the rank of an item, how many come before *)
(* it, says on which page it is.                                            *)

\* The module's size of a set is the library's.
LEMMA PhoneSize == \A S : Phone!Cardinality(S) = Cardinality(S)
BY DEF Phone!Cardinality, Cardinality, Phone!IsFiniteSet, IsFiniteSet

\* How many numbers of S come before i.
Rank(S, i) == Cardinality({j \in S : j < i})

\* There are finitely many of them, and more in all than before one.
LEMMA RankBelow ==
    ASSUME NEW S, IsFiniteSet(S), S \subseteq Int, NEW i
    PROVE  Rank(S, i) \in Nat /\ Cardinality(S) \in Nat /\ (i \in S => Rank(S, i) < Cardinality(S))
<1> DEFINE B == {j \in S : j < i}
<1>1. IsFiniteSet(B) /\ Cardinality(B) \in Nat /\ Cardinality(S) \in Nat /\ Cardinality(B) <= Cardinality(S)
      /\ (Cardinality(S) = Cardinality(B) => S = B)
  BY FS_Subset, FS_CardinalityType
<1>2. i \in S => i \notin B
  OBVIOUS
<1> QED BY <1>1, <1>2 DEF Rank

\* Who comes later has a higher rank.
LEMMA RankRises ==
    ASSUME NEW S, IsFiniteSet(S), S \subseteq Int, NEW i \in S, NEW j \in S, i < j
    PROVE  Rank(S, i) < Rank(S, j)
<1> DEFINE A == {k \in S : k < i}
           B == {k \in S : k < j}
<1>1. IsFiniteSet(A) /\ IsFiniteSet(B) /\ Cardinality(A) \in Nat /\ Cardinality(B) \in Nat
  BY FS_Subset, FS_CardinalityType
<1>2. A \subseteq B /\ i \in B /\ i \notin A
  <2>1. \A k \in S : k \in Int
    OBVIOUS
  <2>2. i \in Int /\ j \in Int
    BY <2>1
  <2>3. \A k \in S : k < i => k < j
    BY <2>1, <2>2
  <2>4. ~ (i < i)
    BY <2>2
  <2> QED BY <2>3, <2>4
<1>3. Cardinality(A) <= Cardinality(B) /\ (Cardinality(B) = Cardinality(A) => B = A)
  BY <1>1, <1>2, FS_Subset
<1> QED BY <1>1, <1>2, <1>3 DEF Rank

\* Every rank is somebody's.
LEMMA RankTaken ==
    ASSUME NEW S, IsFiniteSet(S), S \subseteq Int, NEW r \in Nat, r < Cardinality(S)
    PROVE  \E i \in S : Rank(S, i) = r
<1> SUFFICES ASSUME \A i \in S : Rank(S, i) # r PROVE FALSE
  OBVIOUS
<1> DEFINE n == Cardinality(S)
           T == (0..(n - 1)) \ {r}
           f == [i \in S |-> Rank(S, i)]
<1>0. \A i \in S : i \in Int
  OBVIOUS
<1>1. n \in Nat
  BY FS_CardinalityType
<1>2. IsFiniteSet(0..(n - 1)) /\ Cardinality(0..(n - 1)) = n
  <2>1. 0 \in Int /\ n - 1 \in Int
    BY <1>1
  <2>2. /\ IsFiniteSet(0..(n - 1))
        /\ Cardinality(0..(n - 1)) = IF 0 > n - 1 THEN 0 ELSE (n - 1) - 0 + 1
    BY ONLY <2>1, FS_Interval
  <2>3. (IF 0 > n - 1 THEN 0 ELSE (n - 1) - 0 + 1) = n
    BY ONLY <1>1
  <2> QED BY ONLY <2>2, <2>3
<1>3. r \in 0..(n - 1)
  BY <1>1
<1>4. IsFiniteSet(T) /\ Cardinality(T) = n - 1
  <2> DEFINE U == 0..(n - 1)
  <2>1. IsFiniteSet(U) /\ Cardinality(U) = n /\ r \in U
    BY <1>2, <1>3
  <2> HIDE DEF U, n
  <2>2. IsFiniteSet(U \ {r}) /\ Cardinality(U \ {r}) = n - 1
    BY ONLY <2>1, FS_RemoveElement
  <2> QED BY ONLY <2>2 DEF U
<1>5. f \in [S -> T]
  <2>1. ASSUME NEW i \in S PROVE Rank(S, i) \in T
    <3>1. Rank(S, i) \in Nat /\ Rank(S, i) < n /\ Rank(S, i) # r
      BY RankBelow
    <3> QED BY <1>1, <3>1
  <2> QED BY <2>1
<1>6. Cardinality(T) < Cardinality(S)
  BY <1>1, <1>4
<1> HIDE DEF T, f
<1>7. PICK x, y \in S : x # y /\ f[x] = f[y]
  BY <1>4, <1>5, <1>6, FS_PigeonHole
<1>8. Rank(S, x) = Rank(S, y)
  BY <1>7 DEF f
<1>9. x \in Int /\ y \in Int /\ (x < y \/ y < x)
  BY <1>0, <1>7
<1>10. /\ Rank(S, x) \in Int /\ Rank(S, y) \in Int
       /\ x < y => Rank(S, x) < Rank(S, y)
       /\ y < x => Rank(S, y) < Rank(S, x)
  <2>1. x \in S /\ y \in S
    BY <1>7
  <2>2. Rank(S, x) \in Nat /\ Rank(S, y) \in Nat
    BY <2>1, RankBelow
  <2>3. (x < y => Rank(S, x) < Rank(S, y)) /\ (y < x => Rank(S, y) < Rank(S, x))
    BY <2>1, RankRises
  <2> QED BY ONLY <2>2, <2>3
<1> QED BY ONLY <1>8, <1>9, <1>10

\* Where more is, more comes before.
LEMMA RankGrows ==
    ASSUME NEW S, NEW T, IsFiniteSet(T), S \subseteq T, T \subseteq Int, NEW i
    PROVE  Rank(S, i) <= Rank(T, i)
<1> DEFINE A == {k \in S : k < i}
           B == {k \in T : k < i}
<1>1. B \subseteq T /\ A \subseteq B
  OBVIOUS
<1>2. IsFiniteSet(B)
  BY <1>1, FS_Subset
<1> QED BY <1>1, <1>2, FS_Subset DEF Rank

\* A request of the phone.
Asks == [pc : {"idle", "fetch", "store", "write"}, kind : {"sync", "all", "search", "detail"},
         list : Phone!Lists, page : Nat, got : SUBSET Phone!Items, changed : BOOLEAN,
         crossed : BOOLEAN, there : SUBSET Phone!Items, removed : BOOLEAN]

\* The types, by those names.
LEMMA PhoneTypes ==
    Phone!TypeOK <=>
      /\ v1 \in BOOLEAN /\ v2 \in BOOLEAN
      /\ v3 \in [Phone!Lists -> SUBSET Phone!Items] /\ v3["notes"] \subseteq Phone!Note
      /\ v4 \in [Phone!Lists -> SUBSET Phone!Items]
      /\ v5 \in [TwoCalls -> Asks]
      /\ v6 \in 0..OneRequest /\ v7 \subseteq Phone!Lists
BY DEF Phone!TypeOK, Asks

\* A list is read that will be stored as the whole of it.
Fetching(r) == r.pc = "fetch" /\ (r.kind = "sync" \/ r.list = "folders")

\* What the items before the page come to: they were read.
SeenOf(r, items, i) == Rank(items, i) < r.page * PageSize => i \in r.got

\* The invariant of a request r, when the server has items in its list and whole
\* are the lists stored whole.
PagesOf(r, items) ==
    Fetching(r) =>
      /\ ~ r.removed => r.there \subseteq items /\ \A i \in r.there : SeenOf(r, items, i)
      /\ ~ r.changed => r.got \subseteq items /\ \A i \in items : SeenOf(r, items, i)

\* A list read to its end is whole.
WholeOf(r, whole) ==
    ~ r.changed /\ (r.kind \in {"search", "detail"} => ~ r.crossed /\ r.list \in whole)

\* A list answered as whole has every item.
AnswerOf(r, items, whole) ==
    /\ r.pc = "store" =>
         /\ r.kind # "sync" /\ r.list = "notes"
         /\ ~ r.changed => r.got \subseteq items /\ (r.kind = "all" => r.got = items)
    /\ r.pc = "write" =>
         /\ (r.kind = "sync" \/ r.list = "folders") /\ ~ r.removed => r.there \subseteq r.got
         /\ WholeOf(r, whole) => r.got = items

\* The invariant, part by part.
LEMMA PhoneParts ==
    Phone!LibraryInv <=>
      /\ Phone!TypeOK /\ Phone!StoredIsLibrary
      /\ \A c \in TwoCalls : PagesOf(v5[c], v3[v5[c].list]) /\ AnswerOf(v5[c], v3[v5[c].list], v7)
<1>1. Phone!TypeOK => \A c \in TwoCalls : v5[c].list \in {"notes", "folders"}
  BY PhoneTypes DEF Asks, Phone!Lists
<1>2. Phone!PagesBefore <=> \A c \in TwoCalls : PagesOf(v5[c], v3[v5[c].list])
  BY PhoneSize DEF Phone!PagesBefore, Phone!Loops, Phone!Seen, Phone!before, PagesOf, SeenOf, Rank, Fetching
<1>3. Phone!TypeOK =>
        (Phone!Answers <=> \A c \in TwoCalls : AnswerOf(v5[c], v3[v5[c].list], v7))
  BY <1>1 DEF Phone!Answers, Phone!Loops, Phone!NowCurrent, AnswerOf, WholeOf
<1> QED BY <1>2, <1>3 DEF Phone!LibraryInv

\* What holds after a step.
PhoneNext ==
    /\ v1' \in BOOLEAN /\ v2' \in BOOLEAN
    /\ v3' \in [Phone!Lists -> SUBSET Phone!Items] /\ v3'["notes"] \subseteq Phone!Note
    /\ v4' \in [Phone!Lists -> SUBSET Phone!Items]
    /\ v5' \in [TwoCalls -> Asks]
    /\ v6' \in 0..OneRequest /\ v7' \subseteq Phone!Lists
    /\ \A l \in v7' : v4'[l] = v3'[l]
    /\ \A c \in TwoCalls : /\ PagesOf(v5'[c], v3'[v5'[c].list])
                           /\ AnswerOf(v5'[c], v3'[v5'[c].list], v7')

\* Its next state, part by part.
LEMMA PhoneNextParts == PhoneNext => Phone!LibraryInv'
<1> SUFFICES ASSUME PhoneNext PROVE Phone!LibraryInv'
  OBVIOUS
<1>0. \A c \in TwoCalls : v5'[c].list \in {"notes", "folders"}
  BY DEF PhoneNext, Asks, Phone!Lists
<1>1. Phone!TypeOK' /\ Phone!StoredIsLibrary'
  BY DEF PhoneNext, Phone!TypeOK, Phone!StoredIsLibrary, Asks
<1>2. Phone!PagesBefore'
  BY PhoneSize DEF PhoneNext, Phone!PagesBefore, Phone!Loops, Phone!Seen, Phone!before, PagesOf, SeenOf,
     Rank, Fetching
<1>3. Phone!Answers'
  BY <1>0 DEF PhoneNext, Phone!Answers, Phone!Loops, Phone!NowCurrent, AnswerOf, WholeOf
<1> QED BY <1>1, <1>2, <1>3 DEF Phone!LibraryInv

\* The server's lists are finite sets of numbers.
LEMMA PhoneLists ==
    ASSUME Phone!LibraryBounds, NEW S \in SUBSET Phone!Items
    PROVE  IsFiniteSet(S) /\ S \subseteq Int
<1>1. MaxNotes \in Int /\ MaxFolders \in Int
  BY DEF Phone!LibraryBounds
<1>2. IsFiniteSet(1..MaxNotes) /\ IsFiniteSet(1..MaxFolders)
  BY <1>1, FS_Interval
<1>3. IsFiniteSet(Phone!Items)
  BY <1>2, FS_Union DEF Phone!Items, Phone!Note, Phone!FolderNo
<1>4. Phone!Items \subseteq Int
  BY <1>1 DEF Phone!Items, Phone!Note, Phone!FolderNo
<1> HIDE DEF Phone!Items
<1>5. IsFiniteSet(S)
  BY ONLY <1>3, FS_Subset, S \in SUBSET Phone!Items
<1> QED BY <1>4, <1>5

\* One request goes on.
LEMMA PhoneMoves ==
    ASSUME Phone!LibraryInv, NEW c \in TwoCalls, UNCHANGED <<v1, v2, v3, v4, v6, v7>>,
           v5' \in [TwoCalls -> Asks], \A d \in TwoCalls : d # c => v5'[d] = v5[d],
           PagesOf(v5'[c], v3[v5'[c].list]), AnswerOf(v5'[c], v3[v5'[c].list], v7)
    PROVE  Phone!LibraryInv'
<1>1. Phone!TypeOK /\ Phone!StoredIsLibrary
  BY PhoneParts
<1>2. \A d \in TwoCalls : /\ PagesOf(v5'[d], v3[v5'[d].list])
                          /\ AnswerOf(v5'[d], v3[v5'[d].list], v7)
  BY PhoneParts
<1>3. PhoneNext
  BY <1>1, <1>2, PhoneTypes DEF PhoneNext, Phone!StoredIsLibrary
<1> QED BY <1>3, PhoneNextParts

\* A call that has not started is one.
LEMMA NoCallAsks ==
    /\ Phone!NoCall \in Asks /\ Phone!NoCall.pc = "idle" /\ Phone!NoCall.list \in Phone!Lists
    /\ \A items, whole : PagesOf(Phone!NoCall, items) /\ AnswerOf(Phone!NoCall, items, whole)
<1>1. Phone!NoCall.pc = "idle"
  BY DEF Phone!NoCall
<1>2. Phone!NoCall \in Asks
  BY DEF Phone!NoCall, Asks, Phone!Lists
<1> QED BY <1>1, <1>2 DEF PagesOf, AnswerOf, Fetching, Asks

\* A loop begins with nothing before its page.
LEMMA AskingStarts ==
    ASSUME Phone!LibraryBounds, Phone!LibraryInv, NEW kind \in {"sync", "all", "search", "detail"},
           NEW l \in Phone!Lists
    PROVE  LET r == Phone!Asking(kind, l)
           IN  /\ r \in Asks /\ r.list = l
               /\ PagesOf(r, v3[l]) /\ \A whole : AnswerOf(r, v3[l], whole)
<1> DEFINE r == Phone!Asking(kind, l)
<1>1. v3[l] \in SUBSET Phone!Items
  BY PhoneParts, PhoneTypes
<1>2. /\ r.pc = "fetch" /\ r.kind = kind /\ r.list = l /\ r.page = 0 /\ r.got = {}
      /\ r.there \in {v3[l], {}} /\ r.removed = FALSE
  BY DEF Phone!Asking, Phone!NoCall
<1>3. r \in Asks
  BY <1>1 DEF Phone!Asking, Phone!NoCall, Asks
<1> HIDE DEF r
<1>4. 0 * PageSize = 0
  BY DEF Phone!LibraryBounds
<1>5. \A i \in v3[l] : SeenOf(r, v3[l], i)
  BY <1>1, <1>2, <1>4, PhoneLists, RankBelow DEF SeenOf
<1>6. PagesOf(r, v3[l])
  BY <1>2, <1>5 DEF PagesOf
<1>7. \A whole : AnswerOf(r, v3[l], whole)
  BY <1>2 DEF AnswerOf
<1> QED BY <1>2, <1>3, <1>6, <1>7 DEF r

\* A list is asked for.
LEMMA PhoneAsks ==
    ASSUME Phone!LibraryBounds, Phone!LibraryInv, NEW c \in TwoCalls,
           \/ Phone!syncNotesOfflineCache(c) \/ Phone!getAllFolders(c)
           \/ Phone!getAllNotes(c) \/ Phone!getNoteDetail(c)
    PROVE  Phone!LibraryInv'
<1>1. PICK kind \in {"sync", "all", "search", "detail"}, l \in Phone!Lists : Phone!Ask(c, kind, l)
  BY DEF Phone!syncNotesOfflineCache, Phone!getAllFolders, Phone!getAllNotes, Phone!getNoteDetail, Phone!Lists
<1> DEFINE r == Phone!Asking(kind, l)
<1>2. r \in Asks /\ r.list = l /\ PagesOf(r, v3[l]) /\ AnswerOf(r, v3[l], v7)
  BY AskingStarts
<1>3. v5' = [v5 EXCEPT ![c] = r] /\ UNCHANGED <<v1, v2, v3, v4, v6, v7>>
  BY <1>1 DEF Phone!Ask
<1> HIDE DEF r
<1>4. v5 \in [TwoCalls -> Asks]
  BY PhoneParts, PhoneTypes
<1>5. v5' \in [TwoCalls -> Asks] /\ v5'[c] = r /\ \A d \in TwoCalls : d # c => v5'[d] = v5[d]
  BY ONLY <1>2, <1>3, <1>4, c \in TwoCalls
<1> QED BY <1>2, <1>3, <1>5, PhoneMoves

\* A page does not come.
LEMMA PhoneFails ==
    ASSUME Phone!LibraryInv, NEW c \in TwoCalls, Phone!Fail(c)
    PROVE  Phone!LibraryInv'
<1>1. v5' = [v5 EXCEPT ![c] = Phone!NoCall] /\ UNCHANGED <<v1, v2, v3, v4, v6, v7>>
  BY DEF Phone!Fail
<1>2. v5 \in [TwoCalls -> Asks]
  BY PhoneParts, PhoneTypes
<1>3. v5' \in [TwoCalls -> Asks] /\ v5'[c] = Phone!NoCall /\ \A d \in TwoCalls : d # c => v5'[d] = v5[d]
  BY <1>1, <1>2, NoCallAsks
<1> QED BY <1>1, <1>3, NoCallAsks, PhoneMoves

\* The answer to a request without a page, and what it is merged into.
LEMMA PhoneAnswers ==
    ASSUME Phone!LibraryInv, NEW c \in TwoCalls, Phone!Answer(c) \/ Phone!Merge(c)
    PROVE  Phone!LibraryInv'
<1>1. UNCHANGED <<v1, v2, v3, v4, v6, v7>>
  BY DEF Phone!Answer, Phone!Merge
<1>2. /\ v5 \in [TwoCalls -> Asks] /\ v5[c] \in Asks
      /\ v3 \in [Phone!Lists -> SUBSET Phone!Items] /\ v4 \in [Phone!Lists -> SUBSET Phone!Items]
      /\ "notes" \in Phone!Lists
      /\ "notes" \in v7 => v4["notes"] = v3["notes"]
  BY PhoneParts, PhoneTypes DEF Phone!Lists, Phone!StoredIsLibrary
<1>3. CASE Phone!Answer(c)
  <2>1. PICK got \in SUBSET v3["notes"] :
          /\ v5[c].kind = "all" => got = v3["notes"]
          /\ v5' = [v5 EXCEPT ![c].got = got, ![c].pc = "store"]
    BY <1>3 DEF Phone!Answer
  <2>2. got \in SUBSET Phone!Items
    BY <1>2, <2>1
  <2>3. v5[c].kind # "sync" /\ v5[c].list = "notes"
    BY <1>3 DEF Phone!Answer
  <2>4. v5' \in [TwoCalls -> Asks] /\ \A d \in TwoCalls : d # c => v5'[d] = v5[d]
    BY ONLY <1>2, <2>1, <2>2, c \in TwoCalls DEF Asks
  <2>5. /\ v5'[c].got = got /\ v5'[c].pc = "store" /\ v5'[c].kind = v5[c].kind
        /\ v5'[c].list = v5[c].list
    BY ONLY <1>2, <2>1, c \in TwoCalls DEF Asks
  <2>6. PagesOf(v5'[c], v3[v5'[c].list]) /\ AnswerOf(v5'[c], v3[v5'[c].list], v7)
    BY <2>1, <2>3, <2>5 DEF PagesOf, AnswerOf, Fetching
  <2> QED BY <1>1, <2>4, <2>6, PhoneMoves
<1>4. CASE Phone!Merge(c)
  <2>0. v5[c].pc = "store" /\ v5[c].kind # "sync" /\ v5[c].list = "notes"
        /\ (~ v5[c].changed => v5[c].got \subseteq v3["notes"] /\ (v5[c].kind = "all" => v5[c].got = v3["notes"]))
    BY <1>4, PhoneParts DEF Phone!Merge, AnswerOf
  <2>1. PICK got \in SUBSET Phone!Items :
          /\ got = IF v5[c].kind = "all" THEN v5[c].got ELSE v4["notes"] \union v5[c].got
          /\ v5' = [v5 EXCEPT ![c].got = got, ![c].pc = "write", ![c].crossed = FALSE]
    <3> DEFINE merged == IF v5[c].kind = "all" THEN v5[c].got ELSE v4["notes"] \union v5[c].got
    <3>1. v5[c].got \in SUBSET Phone!Items /\ v4["notes"] \in SUBSET Phone!Items
      BY ONLY <1>2 DEF Asks
    <3>2. merged \in SUBSET Phone!Items
      BY <3>1
    <3>3. v5' = [v5 EXCEPT ![c].got = merged, ![c].pc = "write", ![c].crossed = FALSE]
      BY <1>4 DEF Phone!Merge, Phone!mergeById
    <3> QED BY <3>2, <3>3
  <2>4. v5' \in [TwoCalls -> Asks] /\ \A d \in TwoCalls : d # c => v5'[d] = v5[d]
    BY ONLY <1>2, <2>1, c \in TwoCalls DEF Asks
  <2>5. /\ v5'[c].got = got /\ v5'[c].pc = "write" /\ v5'[c].kind = v5[c].kind
        /\ v5'[c].list = v5[c].list /\ v5'[c].changed = v5[c].changed
    BY ONLY <1>2, <2>1, c \in TwoCalls DEF Asks
  <2>6. PagesOf(v5'[c], v3[v5'[c].list])
    BY <2>5 DEF PagesOf, Fetching
  <2>7. AnswerOf(v5'[c], v3[v5'[c].list], v7)
    <3>1. ASSUME WholeOf(v5'[c], v7) PROVE got = v3["notes"]
      <4>1. v5[c].got \subseteq v3["notes"] /\ (v5[c].kind = "all" => v5[c].got = v3["notes"])
        BY <2>0, <2>5, <3>1 DEF WholeOf
      <4>2. v5[c].kind # "all" => v4["notes"] = v3["notes"]
        BY <1>2, <2>0, <2>5, <3>1 DEF WholeOf, Asks
      <4> QED BY <2>1, <4>1, <4>2
    <3> QED BY <2>0, <2>5, <3>1 DEF AnswerOf
  <2> QED BY <1>1, <2>4, <2>6, <2>7, PhoneMoves
<1> QED BY <1>3, <1>4

\* A page follows what comes before it; what comes after the last is nothing.
LEMMA PageFollows ==
    ASSUME Phone!LibraryBounds, NEW l \in Phone!Lists, v3[l] \in SUBSET Phone!Items, NEW p \in Nat
    PROVE  LET batch == Phone!pageOf(l, p)
               more == Phone!hasNextPage(l, p) /\ batch # {}
           IN  /\ batch \subseteq v3[l]
               /\ \A i \in v3[l] : Rank(v3[l], i) < (p + 1) * PageSize
                                     => Rank(v3[l], i) < p * PageSize \/ i \in batch
               /\ ~ more => \A i \in v3[l] : Rank(v3[l], i) < p * PageSize \/ i \in batch
<1> DEFINE items == v3[l]
           batch == Phone!pageOf(l, p)
<1>1. IsFiniteSet(items) /\ items \subseteq Int
  BY PhoneLists
<1>2. batch = {i \in items : Rank(items, i) \in p * PageSize .. (p + 1) * PageSize - 1}
  BY PhoneSize DEF Phone!pageOf, Phone!before, Rank
<1>3. Phone!hasNextPage(l, p) <=> (p + 1) * PageSize < Cardinality(items)
  BY PhoneSize DEF Phone!hasNextPage
<1> HIDE DEF items, batch
<1>4. PICK a \in Nat, b \in Nat : a = p * PageSize /\ b = (p + 1) * PageSize /\ a < b
  <2>1. p \in Nat /\ PageSize \in Nat /\ PageSize > 0
    BY DEF Phone!LibraryBounds
  <2>2. p * PageSize \in Nat /\ (p + 1) * PageSize = p * PageSize + PageSize
    BY ONLY <2>1, Z3
  <2> QED BY <2>1, <2>2
<1>5. \A i \in items : Rank(items, i) \in Nat /\ Rank(items, i) < Cardinality(items)
  BY ONLY <1>1, RankBelow
<1>6. Cardinality(items) \in Nat
  BY <1>1, FS_CardinalityType
<1>7. \A i \in items : i \in batch <=> Rank(items, i) \in a .. b - 1
  BY ONLY <1>2, <1>4
<1>8. \A i \in items : Rank(items, i) < b => Rank(items, i) < a \/ i \in batch
  BY ONLY <1>4, <1>5, <1>7
<1>9. ASSUME ~ (Phone!hasNextPage(l, p) /\ batch # {})
      PROVE  \A i \in items : Rank(items, i) < a \/ i \in batch
  <2>1. CASE Cardinality(items) <= b
    BY ONLY <2>1, <1>4, <1>5, <1>6, <1>8
  <2>2. CASE b < Cardinality(items)
    <3>1. batch = {}
      BY <1>3, <1>4, <1>9, <2>2
    <3>2. a < Cardinality(items)
      BY ONLY <1>4, <1>6, <2>2
    <3>3. PICK i \in items : Rank(items, i) = a
      BY ONLY <1>1, <1>4, <3>2, RankTaken
    <3>4. i \in batch
      BY ONLY <1>4, <1>7, <3>3
    <3> QED BY <3>1, <3>4
  <2> QED BY ONLY <1>4, <1>6, <2>1, <2>2
<1> QED BY <1>2, <1>4, <1>8, <1>9 DEF items, batch

\* A page of a synchronisation comes.
LEMMA PhoneSyncs ==
    ASSUME Phone!LibraryBounds, Phone!LibraryInv, NEW c \in TwoCalls, Phone!SyncPage(c)
    PROVE  Phone!LibraryInv'
<1> DEFINE l == v5[c].list
           p == v5[c].page
           items == v3[v5[c].list]
           batch == Phone!pageOf(v5[c].list, v5[c].page)
           more == Phone!hasNextPage(l, p) /\ batch # {}
           got == v5[c].got \union batch
           page == IF more THEN p + 1 ELSE p
           pc == IF more THEN "fetch" ELSE "write"
<1>1. UNCHANGED <<v1, v2, v3, v4, v6, v7>>
  BY DEF Phone!SyncPage
<1>2. /\ v5 \in [TwoCalls -> Asks] /\ v5[c] \in Asks
      /\ l \in Phone!Lists /\ p \in Nat /\ items \in SUBSET Phone!Items /\ v5[c].got \in SUBSET Phone!Items
  BY PhoneParts, PhoneTypes DEF Asks
<1>3. Fetching(v5[c])
  BY DEF Phone!SyncPage, Fetching
<1>4. v5' = [v5 EXCEPT ![c].got = got, ![c].page = page, ![c].pc = pc, ![c].crossed = FALSE]
  BY DEF Phone!SyncPage, Phone!mergeById
<1>5. /\ batch \subseteq items
      /\ \A i \in items : Rank(items, i) < (p + 1) * PageSize => Rank(items, i) < p * PageSize \/ i \in batch
      /\ ~ more => \A i \in items : Rank(items, i) < p * PageSize \/ i \in batch
  BY <1>2, PageFollows
<1>6. /\ ~ v5[c].removed => v5[c].there \subseteq items /\ \A i \in v5[c].there : SeenOf(v5[c], items, i)
      /\ ~ v5[c].changed => v5[c].got \subseteq items /\ \A i \in items : SeenOf(v5[c], items, i)
  BY <1>3, PhoneParts DEF PagesOf
<1>7. got \in SUBSET Phone!Items /\ page \in Nat /\ pc \in {"fetch", "write"}
  BY <1>2, <1>5
<1> HIDE DEF items, batch, more, got, page, pc
<1>8. v5' \in [TwoCalls -> Asks] /\ \A d \in TwoCalls : d # c => v5'[d] = v5[d]
  BY ONLY <1>2, <1>4, <1>7, c \in TwoCalls DEF Asks
<1>9. /\ v5'[c].got = got /\ v5'[c].page = page /\ v5'[c].pc = pc /\ v5'[c].kind = v5[c].kind
      /\ v5'[c].list = v5[c].list /\ v5'[c].there = v5[c].there
      /\ v5'[c].removed = v5[c].removed /\ v5'[c].changed = v5[c].changed
  BY ONLY <1>2, <1>4, c \in TwoCalls DEF Asks
<1>10. v3[v5'[c].list] = items
  BY <1>9 DEF items
<1>11. v5[c].got \subseteq got /\ batch \subseteq got
  BY DEF got
<1>12. CASE more
  <2>1. pc = "fetch" /\ page = p + 1
    BY <1>12 DEF pc, page
  <2>2. \A i \in items : SeenOf(v5[c], items, i) => SeenOf(v5'[c], items, i)
    BY <1>5, <1>9, <1>11, <2>1 DEF SeenOf
  <2>3. PagesOf(v5'[c], items)
    BY <1>5, <1>6, <1>9, <2>2 DEF PagesOf, got
  <2>4. AnswerOf(v5'[c], items, v7)
    BY <1>9, <2>1 DEF AnswerOf
  <2> QED BY <1>1, <1>8, <1>10, <2>3, <2>4, PhoneMoves
<1>13. CASE ~ more
  <2>1. pc = "write"
    BY <1>13 DEF pc
  <2>2. \A i \in items : SeenOf(v5[c], items, i) => i \in got
    BY <1>5, <1>11, <1>13 DEF SeenOf
  <2>3. PagesOf(v5'[c], items)
    BY <1>9, <2>1 DEF PagesOf, Fetching
  <2>4. ~ v5[c].removed => v5[c].there \subseteq got
    BY <1>6, <2>2
  <2>5. ~ v5[c].changed => got = items
    <3>1. ~ v5[c].changed => got \subseteq items
      BY <1>5, <1>6 DEF got
    <3>2. ~ v5[c].changed => items \subseteq got
      BY <1>6, <2>2
    <3> QED BY <3>1, <3>2
  <2>6. AnswerOf(v5'[c], items, v7)
    BY <1>9, <2>1, <2>4, <2>5 DEF AnswerOf, WholeOf
  <2> QED BY <1>1, <1>8, <1>10, <2>3, <2>6, PhoneMoves
<1> QED BY <1>12, <1>13

\* What is written is current when it was whole; what others have merged no longer is.
LEMMA PhoneWrites ==
    ASSUME Phone!LibraryBounds, Phone!LibraryInv, NEW c \in TwoCalls, Phone!Write(c)
    PROVE  Phone!LibraryInv'
<1> DEFINE l == v5[c].list
<1>0. Phone!TypeOK /\ Phone!StoredIsLibrary
  BY PhoneParts
<1>1. UNCHANGED <<v1, v2, v3, v6>> /\ v5[c].pc = "write"
  BY DEF Phone!Write
<1>2. /\ v5 \in [TwoCalls -> Asks] /\ v5[c] \in Asks /\ l \in Phone!Lists /\ v7 \subseteq Phone!Lists
      /\ v4 \in [Phone!Lists -> SUBSET Phone!Items] /\ v5[c].got \in SUBSET Phone!Items
  BY <1>0, PhoneTypes DEF Asks
<1>3. WholeOf(v5[c], v7) => v5[c].got = v3[l]
  BY <1>1, PhoneParts DEF AnswerOf
<1>4. v4' = [v4 EXCEPT ![l] = v5[c].got]
  BY DEF Phone!Write
<1>5. v7' = IF WholeOf(v5[c], v7) THEN v7 \union {l} ELSE v7 \ {l}
  BY DEF Phone!Write, Phone!NowCurrent, WholeOf
<1>6. /\ v4' \in [Phone!Lists -> SUBSET Phone!Items] /\ v7' \subseteq Phone!Lists
      /\ \A k \in v7' : v4'[k] = v3[k]
  BY <1>0, <1>2, <1>3, <1>4, <1>5 DEF Phone!StoredIsLibrary
<1>7. PICK r \in Asks : /\ v5' = [d \in TwoCalls |-> IF d # c
                                    THEN [v5[d] EXCEPT !.crossed = @ \/ Phone!Merged(d, l)] ELSE r]
                        /\ r.list \in Phone!Lists
                        /\ PagesOf(r, v3[r.list]) /\ \A whole : AnswerOf(r, v3[r.list], whole)
  <2> DEFINE r == IF v5[c].kind = "sync" /\ v5[c].list = "notes" /\ v1
                  THEN Phone!Asking("sync", "folders") ELSE Phone!NoCall
  <2>1. v5' = [d \in TwoCalls |-> IF d # c
                  THEN [v5[d] EXCEPT !.crossed = @ \/ Phone!Merged(d, l)] ELSE r]
    BY DEF Phone!Write
  <2>2. "folders" \in Phone!Lists
    BY DEF Phone!Lists
  <2>3. /\ r \in Asks /\ r.list \in Phone!Lists
        /\ PagesOf(r, v3[r.list]) /\ \A whole : AnswerOf(r, v3[r.list], whole)
    BY <2>2, AskingStarts, NoCallAsks
  <2> QED BY ONLY <2>1, <2>3
<1>8. ASSUME NEW d \in TwoCalls, d # c
      PROVE  /\ v5'[d] \in Asks
             /\ PagesOf(v5'[d], v3[v5'[d].list]) /\ AnswerOf(v5'[d], v3[v5'[d].list], v7')
  <2>1. v5'[d] = [v5[d] EXCEPT !.crossed = @ \/ Phone!Merged(d, l)]
    BY <1>7, <1>8
  <2>2. v5[d] \in Asks
    BY <1>2
  <2>3. PICK x \in BOOLEAN : x = (v5[d].crossed \/ Phone!Merged(d, l))
    OBVIOUS
  <2>4. v5'[d] = [v5[d] EXCEPT !.crossed = x]
    BY <2>1, <2>3
  <2>5. /\ v5'[d] \in Asks /\ v5'[d].pc = v5[d].pc /\ v5'[d].kind = v5[d].kind
        /\ v5'[d].list = v5[d].list /\ v5'[d].page = v5[d].page /\ v5'[d].got = v5[d].got
        /\ v5'[d].there = v5[d].there /\ v5'[d].removed = v5[d].removed
        /\ v5'[d].changed = v5[d].changed
    BY ONLY <2>2, <2>4 DEF Asks
  <2>6. v5'[d].crossed <=> v5[d].crossed \/ Phone!Merged(d, l)
    BY ONLY <2>2, <2>3, <2>4 DEF Asks
  <2>7. PagesOf(v5[d], v3[v5[d].list]) /\ AnswerOf(v5[d], v3[v5[d].list], v7)
    BY PhoneParts
  <2>8. PagesOf(v5'[d], v3[v5'[d].list])
    BY <2>5, <2>7 DEF PagesOf, Fetching, SeenOf
  <2>9. v5[d].pc = "write" /\ WholeOf(v5'[d], v7') => WholeOf(v5[d], v7)
    BY <1>5, <2>5, <2>6 DEF WholeOf, Phone!Merged
  <2>10. AnswerOf(v5'[d], v3[v5'[d].list], v7')
    BY <2>5, <2>7, <2>9 DEF AnswerOf
  <2> QED BY <2>5, <2>8, <2>10
<1>9. v5'[c] = r
  BY <1>7
<1>10. v5' \in [TwoCalls -> Asks]
  <2>1. \A d \in TwoCalls : v5'[d] \in Asks
    BY <1>8, <1>9
  <2>2. v5' = [d \in TwoCalls |-> v5'[d]]
    BY <1>7
  <2> QED BY ONLY <2>1, <2>2
<1>11. \A d \in TwoCalls : /\ PagesOf(v5'[d], v3[v5'[d].list])
                           /\ AnswerOf(v5'[d], v3[v5'[d].list], v7')
  BY <1>7, <1>8, <1>9
<1>12. PhoneNext
  BY <1>0, <1>1, <1>6, <1>10, <1>11, PhoneTypes DEF PhoneNext
<1> QED BY <1>12, PhoneNextParts

\* A change adds to what comes before, or was a removal.
LEMMA PhoneChanges ==
    ASSUME Phone!LibraryBounds, Phone!LibraryInv, Phone!Change
    PROVE  Phone!LibraryInv'
<1>0. Phone!TypeOK /\ Phone!StoredIsLibrary
  BY PhoneParts
<1>1. PICK l \in Phone!Lists, i \in Phone!Items :
        /\ l = "notes" => i \in Phone!Note
        /\ v3' = [v3 EXCEPT ![l] = IF i \in @ THEN @ \ {i} ELSE @ \union {i}]
        /\ v7' = v7 \ {l}
        /\ v5' = [c \in TwoCalls |->
              IF v5[c].list # l \/ v5[c].pc = "idle" THEN v5[c]
              ELSE [v5[c] EXCEPT !.changed = TRUE, !.there = @ \ {i}, !.removed = @ \/ i \in v3[l]]]
  BY DEF Phone!Change
<1>2. UNCHANGED <<v1, v2, v4>> /\ v6' \in 0..OneRequest
  <2>1. v6 \in 0..OneRequest /\ v6 < OneRequest /\ v6' = v6 + 1 /\ UNCHANGED <<v1, v2, v4>>
    BY <1>0, PhoneTypes DEF Phone!Change
  <2> QED BY ONLY <2>1 DEF OneRequest
<1>3. /\ v3 \in [Phone!Lists -> SUBSET Phone!Items] /\ v3["notes"] \subseteq Phone!Note
      /\ v5 \in [TwoCalls -> Asks] /\ v7 \subseteq Phone!Lists /\ \A c \in TwoCalls : v5[c].list \in Phone!Lists
  BY <1>0, PhoneTypes DEF Asks
<1>4. /\ v3' \in [Phone!Lists -> SUBSET Phone!Items] /\ \A k \in Phone!Lists : k # l => v3'[k] = v3[k]
      /\ i \in v3[l] => v3'[l] = v3[l] \ {i}
      /\ i \notin v3[l] => v3'[l] = v3[l] \union {i}
  BY ONLY <1>1, <1>3
<1>5. v3'["notes"] \subseteq Phone!Note
  BY <1>1, <1>3, <1>4 DEF Phone!Lists
<1>6. v7' \subseteq Phone!Lists /\ \A k \in v7' : v4[k] = v3'[k]
  BY <1>0, <1>1, <1>3, <1>4 DEF Phone!StoredIsLibrary
<1>7. ASSUME NEW c \in TwoCalls
      PROVE  /\ v5'[c] \in Asks
             /\ PagesOf(v5'[c], v3'[v5'[c].list]) /\ AnswerOf(v5'[c], v3'[v5'[c].list], v7')
  <2>1. v5[c] \in Asks /\ PagesOf(v5[c], v3[v5[c].list]) /\ AnswerOf(v5[c], v3[v5[c].list], v7)
    BY <1>3, PhoneParts
  <2>2. CASE v5[c].list # l \/ v5[c].pc = "idle"
    <3>1. v5'[c] = v5[c]
      BY <1>1, <2>2
    <3>2. CASE v5[c].list # l
      <4>1. v3'[v5[c].list] = v3[v5[c].list] /\ (v5[c].list \in v7' <=> v5[c].list \in v7)
        BY <1>1, <1>3, <1>4, <3>2
      <4> QED BY <2>1, <3>1, <4>1 DEF AnswerOf, WholeOf
    <3>3. CASE v5[c].pc = "idle"
      BY <2>1, <3>1, <3>3 DEF PagesOf, AnswerOf, Fetching
    <3> QED BY <2>2, <3>2, <3>3
  <2>3. CASE ~ (v5[c].list # l \/ v5[c].pc = "idle")
    <3>1. v5'[c] = [v5[c] EXCEPT !.changed = TRUE, !.there = @ \ {i}, !.removed = @ \/ i \in v3[l]]
      BY <1>1, <2>3
    <3>2. PICK x \in BOOLEAN, there \in SUBSET Phone!Items :
             /\ x = (v5[c].removed \/ i \in v3[l]) /\ there = v5[c].there \ {i}
      BY <2>1 DEF Asks
    <3>3. v5'[c] = [v5[c] EXCEPT !.changed = TRUE, !.there = there, !.removed = x]
      BY <3>1, <3>2
    <3>4. /\ v5'[c] \in Asks /\ v5'[c].pc = v5[c].pc /\ v5'[c].kind = v5[c].kind
          /\ v5'[c].list = l /\ v5'[c].page = v5[c].page /\ v5'[c].got = v5[c].got
          /\ v5'[c].there = there /\ v5'[c].changed /\ (v5'[c].removed <=> x)
      BY ONLY <2>1, <2>3, <3>2, <3>3 DEF Asks
    <3>5. ASSUME Fetching(v5[c]), ~ x
          PROVE  there \subseteq v3'[l] /\ \A k \in there : SeenOf(v5'[c], v3'[l], k)
      <4>1. /\ v5[c].there \subseteq v3[l] /\ \A k \in v5[c].there : SeenOf(v5[c], v3[l], k)
            /\ i \notin v3[l]
        BY <2>1, <2>3, <3>2, <3>5 DEF PagesOf
      <4>2. v3'[l] = v3[l] \union {i} /\ v3'[l] \in SUBSET Phone!Items /\ v3[l] \in SUBSET Phone!Items
        BY <1>3, <1>4, <4>1
      <4>3. IsFiniteSet(v3'[l]) /\ v3'[l] \subseteq Int /\ IsFiniteSet(v3[l]) /\ v3[l] \subseteq Int
        BY <4>2, PhoneLists
      <4>4. ASSUME NEW k \in there PROVE SeenOf(v5'[c], v3'[l], k)
        <5>1. SeenOf(v5[c], v3[l], k)
          BY <3>2, <4>1, <4>4
        <5>2. Rank(v3[l], k) <= Rank(v3'[l], k)
          <6> HIDE DEF Rank
          <6> QED BY <4>2, <4>3, RankGrows
        <5>3. Rank(v3[l], k) \in Int /\ Rank(v3'[l], k) \in Int
          BY <4>3, RankBelow
        <5>4. PICK a \in Int : a = v5[c].page * PageSize
          BY <2>1 DEF Asks, Phone!LibraryBounds
        <5> QED BY <3>4, <5>1, <5>2, <5>3, <5>4 DEF SeenOf
      <4> QED BY <3>2, <4>1, <4>2, <4>4
    <3>6. PagesOf(v5'[c], v3'[l])
      <4>1. Fetching(v5'[c]) => Fetching(v5[c])
        BY ONLY <2>3, <3>4 DEF Fetching
      <4>2. Fetching(v5'[c]) /\ ~ v5'[c].removed
              => there \subseteq v3'[l] /\ \A k \in there : SeenOf(v5'[c], v3'[l], k)
        BY <3>4, <3>5, <4>1
      <4>3. v5'[c].there = there /\ v5'[c].changed
        BY <3>4
      <4> QED BY ONLY <4>2, <4>3 DEF PagesOf
    <3>7. AnswerOf(v5'[c], v3'[l], v7')
      <4>1. ~ x => ~ v5[c].removed
        BY <2>1, <3>2
      <4>2. v5[c].pc = "store" => v5[c].kind # "sync" /\ v5[c].list = "notes"
        BY <2>1 DEF AnswerOf
      <4>3. v5[c].pc = "write" /\ (v5[c].kind = "sync" \/ v5[c].list = "folders") /\ ~ x
              => there \subseteq v5[c].got
        BY <2>1, <3>2, <4>1 DEF AnswerOf
      <4> QED BY <2>3, <3>4, <4>2, <4>3 DEF AnswerOf, WholeOf
    <3> QED BY <3>4, <3>6, <3>7
  <2> QED BY <2>2, <2>3
<1>8. v5' \in [TwoCalls -> Asks]
  <2>1. v5' = [c \in TwoCalls |-> v5'[c]]
    BY <1>1
  <2> QED BY ONLY <1>7, <2>1
<1>9. PhoneNext
  BY <1>0, <1>2, <1>4, <1>5, <1>6, <1>7, <1>8, PhoneTypes DEF PhoneNext
<1> QED BY <1>9, PhoneNextParts

\* A page comes of a list that is only shown, or a sheet.
LEMMA PhoneElse ==
    ASSUME Phone!LibraryInv, Phone!Network \/ Phone!Logout \/ Phone!SignIn
    PROVE  Phone!LibraryInv'
<1>0. Phone!TypeOK /\ Phone!StoredIsLibrary
  BY PhoneParts
<1>1. CASE Phone!Network \/ Phone!SignIn
  <2>1. UNCHANGED <<v3, v4, v5, v6, v7>> /\ v1' \in BOOLEAN /\ v2' \in BOOLEAN
    BY <1>0, <1>1, PhoneTypes DEF Phone!Network, Phone!SignIn
  <2>2. PhoneNext
    BY <1>0, <2>1, PhoneParts, PhoneTypes DEF PhoneNext, Phone!StoredIsLibrary
  <2> QED BY <2>2, PhoneNextParts
<1>2. CASE Phone!Logout
  <2>1. /\ UNCHANGED <<v1, v3, v6>> /\ v2' \in BOOLEAN
        /\ v4' = [l \in Phone!Lists |-> {}] /\ v7' = {}
        /\ v5' = [c \in TwoCalls |-> [v5[c] EXCEPT !.crossed = @ \/ Phone!Merged(c, "notes")]]
    BY <1>2 DEF Phone!Logout
  <2>2. ASSUME NEW c \in TwoCalls
        PROVE  /\ v5'[c] \in Asks
               /\ PagesOf(v5'[c], v3[v5'[c].list]) /\ AnswerOf(v5'[c], v3[v5'[c].list], {})
    <3>1. v5[c] \in Asks /\ PagesOf(v5[c], v3[v5[c].list]) /\ AnswerOf(v5[c], v3[v5[c].list], v7)
      BY <1>0, PhoneParts, PhoneTypes
    <3>2. PICK x \in BOOLEAN : x = (v5[c].crossed \/ Phone!Merged(c, "notes"))
      OBVIOUS
    <3>3. v5'[c] = [v5[c] EXCEPT !.crossed = x]
      BY <2>1, <3>2
    <3>4. /\ v5'[c] \in Asks /\ v5'[c].pc = v5[c].pc /\ v5'[c].kind = v5[c].kind
          /\ v5'[c].list = v5[c].list /\ v5'[c].page = v5[c].page /\ v5'[c].got = v5[c].got
          /\ v5'[c].there = v5[c].there /\ v5'[c].removed = v5[c].removed
          /\ v5'[c].changed = v5[c].changed
      BY ONLY <3>1, <3>3 DEF Asks
    <3>5. PagesOf(v5'[c], v3[v5'[c].list])
      BY <3>1, <3>4 DEF PagesOf, Fetching, SeenOf
    <3>6. AnswerOf(v5'[c], v3[v5'[c].list], {})
      BY <3>1, <3>4 DEF AnswerOf, WholeOf
    <3> QED BY <3>4, <3>5, <3>6
  <2>3. v5' \in [TwoCalls -> Asks]
    <3>1. v5' = [c \in TwoCalls |-> v5'[c]]
      BY <2>1
    <3> QED BY ONLY <2>2, <3>1
  <2>4. PhoneNext
    BY <1>0, <2>1, <2>2, <2>3, PhoneTypes DEF PhoneNext
  <2> QED BY <2>4, PhoneNextParts
<1> QED BY <1>1, <1>2

\* Before anything is read.
LEMMA PhoneInitially ==
    ASSUME Phone!LibraryBounds, Phone!Init
    PROVE  Phone!LibraryInv
<1>1. v5 = [c \in TwoCalls |-> Phone!NoCall] /\ v7 = {} /\ v4 = [l \in Phone!Lists |-> {}]
  BY DEF Phone!Init
<1>2. /\ v3 = [l \in Phone!Lists |-> IF l = "notes" THEN Phone!Note \ MissingNotes ELSE Phone!FolderNo]
      /\ v1 = TRUE /\ v2 = TRUE /\ v6 = 0
  BY DEF Phone!Init
<1>3. v3 \in [Phone!Lists -> SUBSET Phone!Items] /\ v3["notes"] \subseteq Phone!Note
  BY <1>2 DEF Phone!Lists, Phone!Items
<1>4. v6 \in 0..OneRequest
  BY <1>2 DEF OneRequest
<1>5. Phone!TypeOK
  BY <1>1, <1>2, <1>3, <1>4, NoCallAsks, PhoneTypes
<1> QED BY <1>1, <1>5, NoCallAsks, PhoneParts DEF Phone!StoredIsLibrary

\* What stands still keeps it.
LEMMA PhoneStays ==
    ASSUME Phone!LibraryInv, UNCHANGED <<v1, v2, v3, v4, v5, v6, v7>>
    PROVE  Phone!LibraryInv'
<1>1. PhoneNext
  BY PhoneParts, PhoneTypes DEF PhoneNext, Phone!StoredIsLibrary
<1> QED BY <1>1, PhoneNextParts

\* Every step of the phone and of the server keeps it.
LEMMA PhoneKept ==
    ASSUME Phone!LibraryBounds, Phone!LibraryInv, Phone!Next
    PROVE  Phone!LibraryInv'
<1>1. ASSUME NEW c \in TwoCalls,
             \/ Phone!syncNotesOfflineCache(c) \/ Phone!getAllFolders(c)
             \/ Phone!getAllNotes(c) \/ Phone!getNoteDetail(c)
      PROVE  Phone!LibraryInv'
  BY <1>1, PhoneAsks
<1>2. ASSUME NEW c \in TwoCalls, Phone!SyncPage(c) PROVE Phone!LibraryInv'
  BY <1>2, PhoneSyncs
<1>3. ASSUME NEW c \in TwoCalls, Phone!Answer(c) \/ Phone!Merge(c) PROVE Phone!LibraryInv'
  BY <1>3, PhoneAnswers
<1>4. ASSUME NEW c \in TwoCalls, Phone!Write(c) PROVE Phone!LibraryInv'
  BY <1>4, PhoneWrites
<1>5. ASSUME NEW c \in TwoCalls, Phone!Fail(c) PROVE Phone!LibraryInv'
  BY <1>5, PhoneFails
<1>6. CASE Phone!Change \/ Phone!Network \/ Phone!Logout \/ Phone!SignIn
  BY <1>6, PhoneChanges, PhoneElse
<1> QED BY <1>1, <1>2, <1>3, <1>4, <1>5, <1>6 DEF Phone!Next

\* A list of a sync that is about to be written has all that was there.
LEMMA PhoneSkipsNone == Phone!LibraryInv => Phone!StoredIsLibrary /\ Phone!SyncSkipsNone
BY DEF Phone!LibraryInv, Phone!Answers, Phone!Loops, Phone!SyncSkipsNone

-----------------------------------------------------------------------------
(* The page of an invitation (InvitationPage): v1 is the invitation, v2     *)
(* says that there is an account for it, v3 that it ever was a member's, v4 *)
(* are the browsers.                                                        *)

\* What a browser may be at.
LetterPage == [who : {"nobody", "invited", "other"}, view : Letter!View,
               query : BOOLEAN, pc : {"idle", "sent", "refetch"}]

\* The invariant, part by part.
LEMMA LetterParts ==
    Letter!LetterInv <=>
      /\ v1 \in {"open", "accepted", "expired", "gone"} /\ v2 \in BOOLEAN /\ v3 \in BOOLEAN
      /\ v4 \in [TwoCalls -> LetterPage]
      /\ \A p \in TwoCalls : v4[p].view = "accepted" => v3 /\ v2
      /\ v1 = "accepted" => v3 /\ v2
BY DEF Letter!LetterInv, Letter!TypeOK, Letter!AcceptedIsMember, Letter!MarkedLast, LetterPage

\* Before the link is opened.
LEMMA LetterInitially ==
    ASSUME Letter!Init
    PROVE  Letter!LetterInv
<1>1. Letter!Opened("nobody") \in LetterPage /\ Letter!Opened("nobody").view = "none"
  BY DEF Letter!Opened, LetterPage, Letter!View
<1>2. v4 \in [TwoCalls -> LetterPage] /\ \A p \in TwoCalls : v4[p].view = "none"
  BY <1>1 DEF Letter!Init
<1>3. v1 = "open" /\ v2 \in BOOLEAN /\ v3 = FALSE
  BY DEF Letter!Init
<1>4. v3 \in BOOLEAN
  BY <1>3
<1> QED BY <1>2, <1>3, <1>4, LetterParts

\* A browser shows what it has shown, nothing, or the invitation as it is.
LEMMA LetterShows ==
    ASSUME Letter!LetterInv, NEW p \in TwoCalls, NEW r \in LetterPage, v4' = [v4 EXCEPT ![p] = r],
           r.view \in {v4[p].view, "none", v1},
           v1' \in {"open", "accepted", "expired", "gone"}, v2' \in BOOLEAN, v3' \in BOOLEAN,
           v2 => v2', v3 => v3', v1' = "accepted" => v2' /\ v3'
    PROVE  Letter!LetterInv'
<1>1. /\ v4' \in [TwoCalls -> LetterPage]
      /\ \A q \in TwoCalls : v4'[q].view = "accepted" => v3' /\ v2'
  <2>1. v4 \in [TwoCalls -> LetterPage] /\ v4' \in [TwoCalls -> LetterPage]
    BY LetterParts
  <2>2. v4'[p] = r /\ \A q \in TwoCalls : q # p => v4'[q] = v4[q]
    BY <2>1
  <2>3. r.view = "accepted" => v3 /\ v2
    BY LetterParts
  <2>4. \A q \in TwoCalls : v4[q].view = "accepted" => v3 /\ v2
    BY LetterParts
  <2> QED BY <2>1, <2>2, <2>3, <2>4
<1> QED BY <1>1 DEF Letter!LetterInv, Letter!TypeOK, Letter!AcceptedIsMember, Letter!MarkedLast, LetterPage

\* A step of a browser.
LEMMA LetterMoves ==
    ASSUME Letter!LetterInv, NEW p \in TwoCalls,
           \/ Letter!InvitationLoaded(p) \/ Letter!LoadFails(p) \/ Letter!Refocus(p) \/ Letter!SignIn(p)
           \/ Letter!acceptMutation(p) \/ Letter!completeMutation(p)
    PROVE  Letter!LetterInv'
<1>0. /\ v1 \in {"open", "accepted", "expired", "gone"} /\ v2 \in BOOLEAN /\ v3 \in BOOLEAN
      /\ v1 = "accepted" => v2 /\ v3
      /\ v4 \in [TwoCalls -> LetterPage] /\ v4[p] \in LetterPage
  BY LetterParts
<1>1. UNCHANGED <<v1, v2, v3>>
  BY DEF Letter!InvitationLoaded, Letter!LoadFails, Letter!Refocus, Letter!SignIn, Letter!acceptMutation,
     Letter!completeMutation, Letter!server
<1>2. PICK r \in LetterPage : v4' = [v4 EXCEPT ![p] = r] /\ r.view \in {v4[p].view, "none", v1}
  <2>1. CASE Letter!InvitationLoaded(p)
    <3> DEFINE pc == IF v4[p].pc = "refetch" THEN "idle" ELSE v4[p].pc
               view == IF v1 = "gone" THEN v4[p].view ELSE v1
               r == [v4[p] EXCEPT !.query = FALSE, !.pc = pc, !.view = view]
    <3>1. pc \in {"idle", "sent", "refetch"} /\ view \in Letter!View
      BY <1>0 DEF LetterPage, Letter!View
    <3>2. v4' = [v4 EXCEPT ![p] = r]
      BY <2>1 DEF Letter!InvitationLoaded
    <3>3. view \in {v4[p].view, "none", v1}
      OBVIOUS
    <3> HIDE DEF pc, view
    <3>4. r \in LetterPage /\ r.view = view
      BY ONLY <1>0, <3>1 DEF LetterPage
    <3> QED BY <3>2, <3>3, <3>4
  <2>2. CASE Letter!LoadFails(p)
    <3> DEFINE pc == IF v4[p].pc = "refetch" THEN "idle" ELSE v4[p].pc
               r == [v4[p] EXCEPT !.query = FALSE, !.pc = pc]
    <3>1. pc \in {"idle", "sent", "refetch"}
      BY <1>0 DEF LetterPage
    <3>2. v4' = [v4 EXCEPT ![p] = r]
      BY <2>2 DEF Letter!LoadFails
    <3> HIDE DEF pc
    <3>4. r \in LetterPage /\ r.view = v4[p].view
      BY ONLY <1>0, <3>1 DEF LetterPage
    <3> QED BY <3>2, <3>4
  <2>3. CASE Letter!Refocus(p)
    <3>1. [v4[p] EXCEPT !.query = TRUE] \in LetterPage /\ [v4[p] EXCEPT !.query = TRUE].view = v4[p].view
      BY ONLY <1>0 DEF LetterPage
    <3> QED BY <2>3, <3>1 DEF Letter!Refocus
  <2>4. CASE Letter!SignIn(p)
    <3>1. \A who \in {"invited", "other"} : Letter!Opened(who) \in LetterPage /\ Letter!Opened(who).view = "none"
      BY DEF Letter!Opened, LetterPage, Letter!View
    <3> QED BY <2>4, <3>1 DEF Letter!SignIn
  <2>5. CASE Letter!acceptMutation(p) \/ Letter!completeMutation(p)
    <3>1. [v4[p] EXCEPT !.pc = "sent"] \in LetterPage /\ [v4[p] EXCEPT !.pc = "sent"].view = v4[p].view
      BY ONLY <1>0 DEF LetterPage
    <3> QED BY <2>5, <3>1 DEF Letter!acceptMutation, Letter!completeMutation
  <2> QED BY <2>1, <2>2, <2>3, <2>4, <2>5
<1>3. v2' \in BOOLEAN /\ v3' \in BOOLEAN
  BY <1>0, <1>1
<1> QED BY <1>0, <1>1, <1>2, <1>3, LetterShows

\* The server marks what it has accepted last.
LEMMA LetterTakes ==
    ASSUME Letter!LetterInv, NEW p \in TwoCalls, Letter!Accepted(p) \/ Letter!AcceptFails(p)
    PROVE  Letter!LetterInv'
<1>0. /\ v1 \in {"open", "accepted", "expired", "gone"} /\ v2 \in BOOLEAN /\ v3 \in BOOLEAN
      /\ v1 = "accepted" => v2 /\ v3
      /\ v4 \in [TwoCalls -> LetterPage] /\ v4[p] \in LetterPage
  BY LetterParts
<1>1. /\ v1' \in {"open", "accepted", "expired", "gone"} /\ v2' \in BOOLEAN /\ v3' \in BOOLEAN
      /\ v2 => v2'
      /\ v3 => v3'
      /\ v1' = "accepted" => v2' /\ v3'
  BY <1>0 DEF Letter!Accepted, Letter!AcceptFails, Letter!Takes, Letter!server
<1>2. PICK r \in LetterPage : v4' = [v4 EXCEPT ![p] = r] /\ r.view = v4[p].view
  <2>1. [v4[p] EXCEPT !.pc = "refetch", !.query = TRUE] \in LetterPage
        /\ [v4[p] EXCEPT !.pc = "refetch", !.query = TRUE].view = v4[p].view
    BY ONLY <1>0 DEF LetterPage
  <2>2. [v4[p] EXCEPT !.pc = "idle"] \in LetterPage /\ [v4[p] EXCEPT !.pc = "idle"].view = v4[p].view
    BY ONLY <1>0 DEF LetterPage
  <2> QED BY <2>1, <2>2 DEF Letter!Accepted, Letter!AcceptFails
<1> QED BY <1>1, <1>2, LetterShows

\* Every step of the browsers and of the server keeps it.
LEMMA LetterKept ==
    ASSUME Letter!LetterInv, Letter!Next
    PROVE  Letter!LetterInv'
<1>1. CASE Letter!ExpireOrRevoke
  BY <1>1 DEF Letter!ExpireOrRevoke, Letter!LetterInv, Letter!TypeOK, Letter!AcceptedIsMember,
     Letter!MarkedLast
<1> QED BY <1>1, LetterMoves, LetterTakes DEF Letter!Next

\* What stands still keeps it.
LEMMA LetterStays ==
    ASSUME Letter!LetterInv, UNCHANGED <<v1, v2, v3, v4>>
    PROVE  Letter!LetterInv'
BY DEF Letter!LetterInv, Letter!TypeOK, Letter!AcceptedIsMember, Letter!MarkedLast

-----------------------------------------------------------------------------
(* The stream of events (Notifications): v1 are the kinds of events, v2 is   *)
(* the page, v3 the stream, v4 what it has under way, v5 what was committed *)
(* and not published, v6 the lists that lack something, v7 the fetches, v9  *)
(* the lists of which an event reached no stream.                           *)

FetchAt == {"none", "sent", "current", "early"}

\* The lists the events of s alter.
Told(s) == UNION {Stream!Alters(s[i]) : i \in DOMAIN s}

\* A list on screen that nothing announces lacks nothing, or is being fetched.
Follows(l, lacking, at) == at # "early" /\ (l \in lacking => at \in {"sent", "current"})

\* An event has the lists fetched again that it alters.
LEMMA RefreshesAltered == \A kind : Stream!Alters(kind) \subseteq Stream!Refreshes(kind)
BY DEF Stream!Alters, Stream!Refreshes, Stream!refreshChats, Stream!refreshClubEvents,
   Stream!refreshFiles, Stream!refreshPinboard

\* One more event tells of its lists as well.
LEMMA ToldMore ==
    ASSUME NEW K, NEW s \in Seq(K), NEW k \in K
    PROVE  /\ Append(s, k) \in Seq(K) /\ Len(Append(s, k)) = Len(s) + 1
           /\ Stream!Alters(k) \subseteq Told(Append(s, k))
           /\ Told(s) \subseteq Told(Append(s, k))
<1>1. Append(s, k) \in Seq(K) /\ Len(Append(s, k)) = Len(s) + 1 /\ DOMAIN s = 1..Len(s)
  OBVIOUS
<1>2. /\ DOMAIN Append(s, k) = 1..(Len(s) + 1) /\ Append(s, k)[Len(s) + 1] = k
      /\ \A i \in 1..Len(s) : Append(s, k)[i] = s[i]
  OBVIOUS
<1>3. Len(s) \in Nat
  OBVIOUS
<1> QED BY <1>1, <1>2, <1>3 DEF Told

\* Without the first event only its lists are told of no longer.
LEMMA ToldRest ==
    ASSUME NEW K, NEW s \in Seq(K), s # <<>>
    PROVE  /\ Head(s) \in K /\ Tail(s) \in Seq(K) /\ Len(Tail(s)) < Len(s)
           /\ Told(s) \subseteq Stream!Alters(Head(s)) \union Told(Tail(s))
<1>1. Head(s) \in K /\ Tail(s) \in Seq(K) /\ Len(Tail(s)) = Len(s) - 1 /\ Len(s) \in Nat \ {0}
  OBVIOUS
<1>2. /\ DOMAIN s = 1..Len(s) /\ DOMAIN Tail(s) = 1..(Len(s) - 1) /\ Head(s) = s[1]
      /\ \A i \in 1..(Len(s) - 1) : Tail(s)[i] = s[i + 1]
  OBVIOUS
<1>3. ASSUME NEW i \in DOMAIN s, i # 1
      PROVE  i - 1 \in DOMAIN Tail(s) /\ Tail(s)[i - 1] = s[i]
  BY <1>3, TailFollows
<1>4. ASSUME NEW l \in Told(s)
      PROVE  l \in Stream!Alters(Head(s)) \union Told(Tail(s))
  <2>1. PICK i \in DOMAIN s : l \in Stream!Alters(s[i])
    BY DEF Told
  <2>2. CASE i = 1
    BY <1>2, <2>1, <2>2
  <2>3. CASE i # 1
    <3>1. i - 1 \in DOMAIN Tail(s) /\ Tail(s)[i - 1] = s[i]
      BY <1>3, <2>3
    <3> QED BY ONLY <2>1, <3>1 DEF Told
  <2> QED BY <2>2, <2>3
<1> QED BY <1>1, <1>4

\* The invariant, part by part.
LEMMA StreamParts ==
    Stream!StreamInv <=>
      /\ v1 \in Alone /\ v2 \in DOMAIN Stream!Shows
      /\ v3 \in {"connecting", "open", "waiting"}
      /\ v4 \in Seq(v1) /\ Len(v4) <= Buffer /\ (v3 # "open" => v4 = <<>>)
      /\ v5 \in Seq(v1)
      /\ v6 \subseteq Stream!List /\ v9 \subseteq Stream!List
      /\ v7 \in [Stream!List -> FetchAt]
      /\ v8 \in BOOLEAN
      /\ \A l \in Stream!List :
            l \in Stream!Shows[v2] /\ l \notin v9 /\ l \notin Told(v5) /\ l \notin Told(v4)
               => Follows(l, v6, v7[l])
BY DEF Stream!StreamInv, Stream!TypeOK, Stream!OnItsWay, Stream!Announced, Stream!Shown, Told,
   Follows, FetchAt

\* Its next state, the kinds of events that happen being the same.
StreamNext ==
    /\ v1' = v1
    /\ v2' \in DOMAIN Stream!Shows /\ v3' \in {"connecting", "open", "waiting"}
    /\ v4' \in Seq(v1) /\ Len(v4') <= Buffer /\ (v3' # "open" => v4' = <<>>)
    /\ v5' \in Seq(v1)
    /\ v6' \subseteq Stream!List /\ v9' \subseteq Stream!List
    /\ v7' \in [Stream!List -> FetchAt]
    /\ v8' \in BOOLEAN
    /\ \A l \in Stream!List :
          l \in Stream!Shows[v2'] /\ l \notin v9' /\ l \notin Told(v5') /\ l \notin Told(v4')
             => Follows(l, v6', v7'[l])

\* They make the invariant of the next state.
LEMMA StreamGoesOn ==
    ASSUME Stream!StreamInv, StreamNext
    PROVE  Stream!StreamInv'
<1>1. v1 \in Alone
  BY StreamParts
<1>2. Stream!List' = Stream!List
  BY DEF StreamNext, Stream!List
<1>3. Stream!TypeOK'
  BY <1>1, <1>2 DEF StreamNext, Stream!TypeOK, FetchAt
<1>4. Stream!OnItsWay'
  BY <1>2 DEF StreamNext, Stream!OnItsWay, Stream!Announced, Stream!Shown, Told, Follows
<1> QED BY <1>3, <1>4 DEF Stream!StreamInv

\* Before the stream is open, with every list loaded.
LEMMA StreamInitially ==
    ASSUME Stream!Bounds, Stream!Init
    PROVE  Stream!StreamInv
<1>1. v4 = <<>> /\ v5 = <<>> /\ <<>> \in Seq(v1) /\ Len(<<>>) = 0
  BY DEF Stream!Init
<1>2. v7 \in [Stream!List -> FetchAt] /\ \A l \in Stream!List : v7[l] = "none"
  BY DEF Stream!Init, FetchAt
<1>3. v2 \in DOMAIN Stream!Shows
  BY DEF Stream!Init, Stream!Shows
<1>4. v8 \in BOOLEAN
  BY Zenon DEF Stream!Init
<1> QED BY <1>1, <1>2, <1>3, <1>4, StreamParts DEF Stream!Init, Stream!Bounds, Follows

\* A list alters its lists only.
LEMMA AltersLists == \A kind \in v1 : Stream!Alters(kind) \subseteq Stream!List
BY DEF Stream!List

\* The server stores, publishes and answers.
LEMMA StreamServer ==
    ASSUME Stream!Bounds, Stream!StreamInv,
           \/ \E kind \in v1 : Stream!Commit(kind)
           \/ Stream!Publish
           \/ \E l \in Stream!List : Stream!Serve(l)
    PROVE  StreamNext
<1>0. /\ v2 \in DOMAIN Stream!Shows /\ v3 \in {"connecting", "open", "waiting"}
      /\ v4 \in Seq(v1) /\ Len(v4) <= Buffer /\ (v3 # "open" => v4 = <<>>) /\ v5 \in Seq(v1)
      /\ v6 \subseteq Stream!List /\ v9 \subseteq Stream!List /\ v7 \in [Stream!List -> FetchAt]
      /\ v8 \in BOOLEAN
      /\ \A l \in Stream!List :
            l \in Stream!Shows[v2] /\ l \notin v9 /\ l \notin Told(v5) /\ l \notin Told(v4)
               => Follows(l, v6, v7[l])
  BY StreamParts
<1>1. ASSUME NEW kind \in v1, Stream!Commit(kind)
      PROVE  StreamNext
  <2>1. /\ UNCHANGED <<v1, v2, v3, v4, v8, v9>> /\ v5' = Append(v5, kind)
        /\ v6' = v6 \union Stream!Alters(kind)
        /\ v7' = [l \in Stream!List |-> IF l \in Stream!Alters(kind) /\ v7[l] = "current"
                                        THEN "early" ELSE v7[l]]
    BY <1>1 DEF Stream!Commit
  <2>2. /\ Append(v5, kind) \in Seq(v1) /\ Stream!Alters(kind) \subseteq Told(Append(v5, kind))
        /\ Told(v5) \subseteq Told(Append(v5, kind))
    BY <1>0, <1>1, ToldMore
  <2>3. v7' \in [Stream!List -> FetchAt] /\ v6' \subseteq Stream!List
    BY <1>0, <1>1, <2>1, AltersLists DEF FetchAt
  <2>4. ASSUME NEW l \in Stream!List, l \notin Told(v5')
        PROVE  l \notin Told(v5) /\ v7'[l] = v7[l] /\ (l \in v6' <=> l \in v6)
    BY <2>1, <2>2, <2>4
  <2>5. \A l \in Stream!List :
           l \in Stream!Shows[v2'] /\ l \notin v9' /\ l \notin Told(v5') /\ l \notin Told(v4')
              => Follows(l, v6', v7'[l])
    BY <1>0, <2>1, <2>4 DEF Follows
  <2>6. v5' \in Seq(v1)
    BY <2>1, <2>2
  <2> QED BY <1>0, <2>1, <2>3, <2>5, <2>6 DEF StreamNext
<1>2. ASSUME Stream!Publish
      PROVE  StreamNext
  <2> DEFINE kind == Head(v5)
  <2>1. /\ UNCHANGED <<v1, v2, v3, v6, v7, v8>> /\ v5 # <<>> /\ v5' = Tail(v5)
        /\ \/ v3 = "open" /\ Len(v4) < Buffer /\ v4' = Append(v4, kind) /\ v9' = v9
           \/ v9' = v9 \union Stream!Alters(kind) /\ v4' = v4
    BY <1>2 DEF Stream!Publish
  <2>2. /\ kind \in v1 /\ Tail(v5) \in Seq(v1)
        /\ Told(v5) \subseteq Stream!Alters(kind) \union Told(Tail(v5))
    BY <1>0, <2>1, ToldRest
  <2>3. /\ Append(v4, kind) \in Seq(v1) /\ Len(Append(v4, kind)) = Len(v4) + 1
        /\ Stream!Alters(kind) \subseteq Told(Append(v4, kind))
        /\ Told(v4) \subseteq Told(Append(v4, kind))
    BY <1>0, <2>2, ToldMore
  <2>4. Stream!Alters(kind) \subseteq Stream!List
    BY <2>2, AltersLists
  <2> HIDE DEF kind
  <2>5. v4' \in Seq(v1) /\ Len(v4') <= Buffer /\ (v3' # "open" => v4' = <<>>)
    <3>1. Len(v4) \in Nat /\ Buffer \in Nat
      BY <1>0 DEF Stream!Bounds
    <3>2. CASE v3 = "open" /\ Len(v4) < Buffer /\ v4' = Append(v4, kind)
      <4>1. Len(v4') = Len(v4) + 1 /\ v4' \in Seq(v1) /\ v3' = "open"
        BY <2>1, <2>3, <3>2
      <4> QED BY <3>1, <3>2, <4>1
    <3>3. CASE v4' = v4
      BY <1>0, <2>1, <3>3
    <3> QED BY <2>1, <3>2, <3>3
  <2>6. v9' \subseteq Stream!List /\ v5' \in Seq(v1)
    BY <1>0, <2>1, <2>2, <2>4
  <2>7. ASSUME NEW l, l \notin v9', l \notin Told(v5'), l \notin Told(v4')
        PROVE  l \notin v9 /\ l \notin Told(v5) /\ l \notin Told(v4)
    BY <2>1, <2>2, <2>3, <2>7
  <2> QED BY <1>0, <2>1, <2>5, <2>6, <2>7 DEF StreamNext
<1>3. ASSUME NEW l \in Stream!List, Stream!Serve(l)
      PROVE  StreamNext
  <2>1. /\ UNCHANGED <<v1, v2, v3, v4, v5, v6, v8, v9>> /\ v7[l] = "sent"
        /\ v7' = [v7 EXCEPT ![l] = "current"]
    BY <1>3 DEF Stream!Serve
  <2>2. /\ v7' \in [Stream!List -> FetchAt] /\ v7'[l] = "current"
        /\ \A k \in Stream!List : k # l => v7'[k] = v7[k]
    BY <1>0, <1>3, <2>1 DEF FetchAt
  <2> QED BY <1>0, <2>1, <2>2 DEF StreamNext, Follows
<1> QED BY <1>1, <1>2, <1>3

\* The stream opens, ends, and brings frames.
LEMMA StreamStream ==
    ASSUME Stream!Bounds, Stream!StreamInv,
           Stream!Connected \/ Stream!scheduleReconnect \/ Stream!Reconnect \/ Stream!refresh
    PROVE  StreamNext
<1>0. /\ v2 \in DOMAIN Stream!Shows /\ v3 \in {"connecting", "open", "waiting"}
      /\ v4 \in Seq(v1) /\ Len(v4) <= Buffer /\ (v3 # "open" => v4 = <<>>) /\ v5 \in Seq(v1)
      /\ v6 \subseteq Stream!List /\ v9 \subseteq Stream!List /\ v7 \in [Stream!List -> FetchAt]
      /\ v8 \in BOOLEAN
      /\ \A l \in Stream!List :
            l \in Stream!Shows[v2] /\ l \notin v9 /\ l \notin Told(v5) /\ l \notin Told(v4)
               => Follows(l, v6, v7[l])
  BY StreamParts
<1>1. CASE Stream!Connected \/ Stream!Reconnect
  <2>1. /\ UNCHANGED <<v1, v2, v4, v5, v6, v7, v8, v9>> /\ v3 # "open"
        /\ v3' \in {"connecting", "open", "waiting"}
    BY <1>1 DEF Stream!Connected, Stream!Reconnect
  <2> QED BY <1>0, <2>1 DEF StreamNext
<1>2. CASE Stream!scheduleReconnect
  <2>1. /\ UNCHANGED <<v1, v2, v5, v6, v7, v8>> /\ v3' = "waiting" /\ v4' = <<>>
        /\ v9' = v9 \union Told(v4)
    BY <1>2 DEF Stream!scheduleReconnect, Told
  <2>2. \A i \in DOMAIN v4 : v4[i] \in v1
    BY <1>0
  <2>3. Told(v4) \subseteq Stream!List
    BY <2>2, AltersLists DEF Told
  <2>4. <<>> \in Seq(v1) /\ Len(<<>>) = 0 /\ Len(v4) \in Nat
    BY <1>0
  <2>5. v4' \in Seq(v1) /\ Len(v4') <= Buffer
    <3>1. CASE v4 = <<>>
      BY <1>0, <2>1, <3>1
    <3>2. CASE v4 # <<>>
      BY <1>0, <2>1, <2>4, <3>2 DEF Stream!Bounds
    <3> QED BY <3>1, <3>2
  <2> QED BY <1>0, <2>1, <2>3, <2>5 DEF StreamNext
<1>3. CASE Stream!refresh
  <2> DEFINE kind == Head(v4)
             lists == Stream!Refreshes(kind) \intersect Stream!Shown
  <2>1. /\ UNCHANGED <<v1, v2, v3, v5, v6>> /\ v4 # <<>> /\ v4' = Tail(v4)
        /\ v7' = [l \in Stream!List |-> IF l \in lists THEN "sent" ELSE v7[l]]
        /\ v9' = v9 \ lists
    BY <1>3 DEF Stream!refresh, Stream!Refetch
  <2>2. v8' \in BOOLEAN
    BY <1>0, <1>3, Zenon DEF Stream!refresh
  <2>3. /\ kind \in v1 /\ Tail(v4) \in Seq(v1) /\ Len(Tail(v4)) < Len(v4) /\ Len(Tail(v4)) \in Nat
        /\ Told(v4) \subseteq Stream!Alters(kind) \union Told(Tail(v4))
    BY <1>0, <2>1, ToldRest
  <2>4. Stream!Alters(kind) \intersect Stream!Shown \subseteq lists
    BY RefreshesAltered
  <2>5. Stream!Shown = Stream!Shows[v2] \intersect Stream!List
    BY DEF Stream!Shown
  <2> HIDE DEF kind, lists
  <2>6. v7' \in [Stream!List -> FetchAt]
    BY <1>0, <2>1 DEF FetchAt
  <2>7. ASSUME NEW l \in Stream!List, l \in Stream!Shows[v2'], l \notin v9', l \notin Told(v5'),
               l \notin Told(v4')
        PROVE  Follows(l, v6', v7'[l])
    <3>1. CASE l \in lists
      <4>1. v7'[l] = "sent"
        BY <2>1, <2>7, <3>1
      <4> QED BY <4>1 DEF Follows
    <3>2. CASE l \notin lists
      <4>1. v7'[l] = v7[l] /\ l \notin v9
        BY <2>1, <2>7, <3>2
      <4>2. l \notin Told(v4)
        BY <2>1, <2>3, <2>4, <2>5, <2>7, <3>2
      <4> QED BY <1>0, <2>1, <2>7, <4>1, <4>2
    <3> QED BY <3>1, <3>2
  <2>8. v4' \in Seq(v1) /\ Len(v4') <= Buffer /\ (v3' # "open" => v4' = <<>>)
    <3>1. Len(v4) \in Nat
      BY <1>0
    <3> QED BY <1>0, <2>1, <2>3, <3>1 DEF Stream!Bounds
  <2>9. v9' \subseteq Stream!List
    BY <1>0, <2>1
  <2> QED BY <1>0, <2>1, <2>2, <2>6, <2>7, <2>8, <2>9 DEF StreamNext
<1> QED BY <1>1, <1>2, <1>3

\* Answers arrive or fail, and another page is opened.
LEMMA StreamPages ==
    ASSUME Stream!StreamInv,
           \/ \E l \in Stream!List : Stream!FetchArrives(l) \/ Stream!FetchFails(l)
           \/ \E p \in DOMAIN Stream!Shows : Stream!Navigate(p)
           \/ Stream!dismissEventReminder
    PROVE  StreamNext
<1>0. /\ v2 \in DOMAIN Stream!Shows /\ v3 \in {"connecting", "open", "waiting"}
      /\ v4 \in Seq(v1) /\ Len(v4) <= Buffer /\ (v3 # "open" => v4 = <<>>) /\ v5 \in Seq(v1)
      /\ v6 \subseteq Stream!List /\ v9 \subseteq Stream!List /\ v7 \in [Stream!List -> FetchAt]
      /\ v8 \in BOOLEAN
      /\ \A l \in Stream!List :
            l \in Stream!Shows[v2] /\ l \notin v9 /\ l \notin Told(v5) /\ l \notin Told(v4)
               => Follows(l, v6, v7[l])
  BY StreamParts
<1>1. ASSUME NEW l \in Stream!List, Stream!FetchArrives(l)
      PROVE  StreamNext
  <2>1. /\ UNCHANGED <<v1, v2, v3, v4, v5, v8, v9>> /\ v7' = [v7 EXCEPT ![l] = "none"]
        /\ \/ v7[l] = "current" /\ v6' = v6 \ {l}
           \/ v7[l] = "early" /\ v6' = v6 \union {l}
    BY <1>1 DEF Stream!FetchArrives
  <2>2. /\ v7' \in [Stream!List -> FetchAt] /\ v7'[l] = "none"
        /\ \A k \in Stream!List : k # l => v7'[k] = v7[k]
    BY <1>0, <1>1, <2>1 DEF FetchAt
  <2> QED BY <1>0, <1>1, <2>1, <2>2 DEF StreamNext, Follows
<1>2. ASSUME NEW l \in Stream!List, Stream!FetchFails(l)
      PROVE  StreamNext
  <2>1. /\ UNCHANGED <<v1, v2, v3, v4, v5, v6, v8>> /\ v7' = [v7 EXCEPT ![l] = "none"]
        /\ v9' = v9 \union {l}
    BY <1>2 DEF Stream!FetchFails
  <2>2. /\ v7' \in [Stream!List -> FetchAt]
        /\ \A k \in Stream!List : k # l => v7'[k] = v7[k]
    BY <1>0, <1>2, <2>1 DEF FetchAt
  <2> QED BY <1>0, <1>2, <2>1, <2>2 DEF StreamNext
<1>3. ASSUME NEW p \in DOMAIN Stream!Shows, Stream!Navigate(p)
      PROVE  StreamNext
  <2> DEFINE opened == (Stream!Shows[p] \intersect Stream!List) \ Stream!Shown
  <2>1. /\ UNCHANGED <<v1, v3, v4, v5, v6, v8>> /\ v2' = p
        /\ v7' = [l \in Stream!List |-> IF l \in opened /\ v7[l] = "none" THEN "sent" ELSE v7[l]]
        /\ v9' = {l \in v9 : l \notin opened \/ v7[l] # "none"} \union {l \in opened : v7[l] # "none"}
    BY <1>3 DEF Stream!Navigate
  <2>2. \A l \in Stream!List : l \in Stream!Shows[p] => l \in opened \/ l \in Stream!Shows[v2]
    BY DEF Stream!Shown
  <2>3. opened \subseteq Stream!List
    OBVIOUS
  <2> HIDE DEF opened
  <2>4. v7' \in [Stream!List -> FetchAt]
    BY <1>0, <2>1 DEF FetchAt
  <2>5. v9' \subseteq Stream!List
    BY <1>0, <2>1, <2>3
  <2>6. ASSUME NEW l \in Stream!List, l \in Stream!Shows[v2'], l \notin v9', l \notin Told(v5'),
               l \notin Told(v4')
        PROVE  Follows(l, v6', v7'[l])
    <3>1. CASE l \in opened
      <4>1. v7'[l] = "sent"
        BY <2>1, <2>6, <3>1
      <4> QED BY <4>1 DEF Follows
    <3>2. CASE l \notin opened
      <4>1. l \notin v9 /\ v7'[l] = v7[l] /\ l \in Stream!Shows[v2]
        BY <2>1, <2>2, <2>6, <3>2
      <4> QED BY <1>0, <2>1, <2>6, <4>1
    <3> QED BY <3>1, <3>2
  <2> QED BY <1>0, <1>3, <2>1, <2>4, <2>5, <2>6 DEF StreamNext
<1>4. CASE Stream!dismissEventReminder
  <2>1. UNCHANGED <<v1, v2, v3, v4, v5, v6, v7, v9>> /\ v8' = FALSE
    BY <1>4 DEF Stream!dismissEventReminder
  <2> QED BY <1>0, <2>1 DEF StreamNext
<1> QED BY <1>1, <1>2, <1>3, <1>4

\* Every step of the server, the stream and the pages keeps the invariant.
LEMMA StreamKept ==
    ASSUME Stream!Bounds, Stream!StreamInv, Stream!Next
    PROVE  Stream!StreamInv'
BY StreamServer, StreamStream, StreamPages, StreamGoesOn DEF Stream!Next

\* What stands still keeps it.
LEMMA StreamStays ==
    ASSUME Stream!StreamInv, UNCHANGED <<v1, v2, v3, v4, v5, v6, v7, v8, v9>>
    PROVE  Stream!StreamInv'
BY StreamParts, StreamGoesOn DEF StreamNext

\* With nothing under way what is on screen lacks what reached no stream, at most.
LEMMA StreamFollows == Stream!StreamInv => Stream!ListsFollow
<1> SUFFICES ASSUME Stream!StreamInv, v4 = <<>>, v5 = <<>>,
                    \A l \in Stream!Shown : v7[l] = "none"
             PROVE  v6 \intersect Stream!Shown \subseteq v9
  BY DEF Stream!ListsFollow
<1>1. Told(v4) = {} /\ Told(v5) = {}
  BY DEF Told
<1> QED BY <1>1, StreamParts DEF Stream!Shown, Follows

-----------------------------------------------------------------------------
(* The machines together.                                                  *)

\* The machine that moves is always the same; the invariant of each is about it alone.
AgreementInv ==
    /\ machine = "entry" => Entry!EntryInv
    /\ machine = "session" => Login!SessionInv
    /\ machine = "device" => Device!DeviceInv
    /\ machine = "phone" => Phone!LibraryInv
    /\ machine = "invitation" => Letter!LetterInv
    /\ machine = "stream" => Stream!StreamInv

\* The invariant of the machine that runs holds at first,
LEMMA AgreementInit == Init => AgreementInv
BY Constants, EntryInitially, SessionInitially, DeviceInitially, PhoneInitially, LetterInitially,
   StreamInitially DEF Constants, Init, SlotsInit, AgreementInv

\* One of these machines moves, or none.
LEMMA AgreementMoves ==
    ASSUME [Next]_vars
    PROVE  /\ machine' = machine
           /\ machine = "entry" => Entry!Next \/ UNCHANGED slots
           /\ machine = "session" => Login!Next \/ UNCHANGED slots
           /\ machine = "device" => Device!Next \/ UNCHANGED slots
           /\ machine = "phone" => Phone!Next \/ UNCHANGED slots
           /\ machine = "invitation" => Letter!Next \/ UNCHANGED slots
           /\ machine = "stream" => Stream!Next \/ UNCHANGED slots
BY DEF Next, Moves, vars

\* What stands still keeps its invariant,
LEMMA AgreementRests ==
    ASSUME AgreementInv, UNCHANGED <<machine, slots>>
    PROVE  AgreementInv'
<1>0. machine' = machine /\ UNCHANGED <<v1, v2, v3, v4, v5, v6, v7, v8, v9, v10, v11, v12, v13, v14>>
  BY DEF slots
<1>1. ASSUME machine = "entry" PROVE Entry!EntryInv'
  <2>1. Entry!EntryInv /\ v5 \in Entry!Form
    BY <1>1 DEF AgreementInv, Entry!EntryInv, Entry!Entered
  <2> QED BY <1>0, <2>1, EntryEdited
<1>2. ASSUME machine = "session" PROVE Login!SessionInv'
  BY <1>0, <1>2, SessionStays DEF AgreementInv
<1>3. ASSUME machine = "device" PROVE Device!DeviceInv'
  BY <1>0, <1>3, DeviceStays DEF AgreementInv
<1>4. ASSUME machine = "phone" PROVE Phone!LibraryInv'
  BY <1>0, <1>4, PhoneStays DEF AgreementInv
<1>5. ASSUME machine = "invitation" PROVE Letter!LetterInv'
  BY <1>0, <1>5, LetterStays DEF AgreementInv
<1>6. ASSUME machine = "stream" PROVE Stream!StreamInv'
  BY <1>0, <1>6, StreamStays DEF AgreementInv
<1> QED BY <1>0, <1>1, <1>2, <1>3, <1>4, <1>5, <1>6 DEF AgreementInv

\* and whatever that machine does, or none.
LEMMA AgreementStep == AgreementInv /\ [Next]_vars => AgreementInv'
<1> SUFFICES ASSUME AgreementInv, [Next]_vars PROVE AgreementInv'
  OBVIOUS
<1>1. CASE UNCHANGED slots
  BY <1>1, AgreementMoves, AgreementRests
<1>2. ASSUME ~ UNCHANGED slots
      PROVE  /\ machine = "entry" => Entry!EntryInv'
             /\ machine = "session" => Login!SessionInv'
             /\ machine = "device" => Device!DeviceInv'
             /\ machine = "phone" => Phone!LibraryInv'
             /\ machine = "invitation" => Letter!LetterInv'
             /\ machine = "stream" => Stream!StreamInv'
  BY <1>2, AgreementMoves, Constants, EntryKept, SessionKept, DeviceKept, PhoneKept, LetterKept,
     StreamKept DEF Constants, AgreementInv
<1> QED BY <1>1, <1>2, AgreementMoves DEF AgreementInv

\* Entering sheet music makes no second author of a name without asking: unless two
\* handlers of the form overlapped, an author whose name the person was not asked about is
\* posted only where nobody has that name, also if composer and arranger are the same new
\* person, who is looked up again for the second of them (CreateFolderOrNote.tsx,
\* resolveAuthorId). For any titles, names and number of authors.
THEOREM PagesNoSilentTwin == Spec => NoSilentTwin
<1>1. AgreementInv => (machine = "entry" => Entry!AsksBeforeTwin)
  BY EntryAsks DEF AgreementInv
<1> QED BY AgreementInit, AgreementStep, <1>1, PTL DEF Spec, NoSilentTwin

\* What a device keeps is whole. A tab that starts without the server has a library, which
\* is the newest that was ever written unless two tabs were in a sync at once (index.tsx,
\* syncStore.ts). A list the phone stored whole is what the server has until that changes,
\* and reading it page by page skips nothing that was there all the time where nothing was
\* removed (ApiClient.ts); the two tokens are of one login, and who starts the app
\* without a network and has anything of a session is let in (auth.ts, app/index.tsx).
\* For any number of tabs, calls, versions, items and items on a page.
THEOREM PagesLibraryKept == Spec => []LibraryKept
<1>1. AgreementInv => LibraryKept
  <2> SUFFICES ASSUME AgreementInv PROVE LibraryKept
    OBVIOUS
  <2>1. machine = "device" => Device!LibraryKept
    BY DEF AgreementInv, Device!DeviceInv
  <2>2. machine = "phone" => Phone!StoredIsLibrary /\ Phone!SyncSkipsNone
    BY PhoneSkipsNone DEF AgreementInv
  <2>3. machine = "session" => Login!OnePair /\ Login!OfflineStartOpens
    BY DEF AgreementInv, Login!SessionInv
  <2> QED BY <2>1, <2>2, <2>3 DEF LibraryKept
<1> QED BY AgreementInit, AgreementStep, <1>1, PTL DEF Spec

\* With nothing under way a page shows what the server has: a club just founded is in the
\* list (ClubView.tsx), an invitation reads as accepted when the person is a member
\* (InviteAcceptView.tsx), every list of a club has what was changed on its pages but for
\* what they do not fetch again (ClubDetailView.tsx and its sections), and the lists an
\* event of the stream is about, and the number of unread messages, are up to date unless
\* it never reached the stream (notificationStream.ts, MyMessagesView.tsx). For any number
\* of mutations, events, messages, chats and fetches, in any order.
THEOREM PagesShowServer == Spec => []ShowsServer
<1>1. PagesInv /\ AgreementInv => ShowsServer
  <2> SUFFICES ASSUME PagesInv, AgreementInv PROVE ShowsServer
    OBVIOUS
  <2>1. machine = "founding" => Founding!ListHasClub
    BY DEF PagesInv, Founding!FoundingInv
  <2>2. machine = "invitation" => Letter!AcceptedIsMember
    BY DEF AgreementInv, Letter!LetterInv
  <2>3. ShowsOwnChanges
    BY DeskShowsChanges DEF PagesInv
  <2>4. machine = "stream" => Stream!ListsFollow
    BY StreamFollows DEF AgreementInv
  <2>5. machine = "chats" => Chats!CountsFollow
    BY Constants, ChatsFollow DEF Constants, PagesInv
  <2> QED BY <2>1, <2>2, <2>3, <2>4, <2>5 DEF ShowsServer
<1> QED BY PagesInit, PagesStep, AgreementInit, AgreementStep, <1>1, PTL DEF Spec
===============================================================================
