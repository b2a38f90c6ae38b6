------------------------------ MODULE PagesProofs ------------------------------
(***************************************************************************)
(* What holds of the machines behind the client's pages (MCPages), for     *)
(* every value of their constants. A machine's variables are the slots v1, *)
(* v2, ... here, in the order MCPages lays them in; their names are in the *)
(* machine's own module, where its inductive invariant is defined.         *)
(***************************************************************************)
EXTENDS MCPages, FiniteSetTheorems, SequenceTheorems, TLAPS

-----------------------------------------------------------------------------
(* Suggestions while one types (Autocomplete): v1 is the text of the       *)
(* field, v2 the timer's, v3 the newest look-up's number, v4 the look-ups  *)
(* under way, v5 the text the suggestions are for.                         *)

\* Before one types.
LEMMA SuggestInitially ==
    ASSUME Suggest!Nulls, Suggest!Init
    PROVE  Suggest!SuggestInv
<1>1. /\ v1 = Short /\ v2 = NoText /\ v3 = 0 /\ v4 = {} /\ v5 = NoText
      /\ v6 \in BOOLEAN /\ v7 \in BOOLEAN /\ v8 \in BOOLEAN
  BY Zenon DEF Suggest!Init
<1>2. MaxEdits \in Nat /\ Short \notin Typed
  BY DEF Suggest!Nulls
<1>3. v3 \in 0..MaxEdits
  BY ONLY <1>1, <1>2
<1>4. Suggest!TypeOK
  BY <1>1, <1>3, Zenon DEF Suggest!TypeOK
<1> QED BY <1>1, <1>2, <1>4 DEF Suggest!SuggestInv, Suggest!OneLookUp, Suggest!SuggestionsFit

\* A new text: what an effect leaves, whoever caused it.
LEMMA SuggestNewText ==
    ASSUME Suggest!Nulls, Suggest!SuggestInv, NEW t \in Typed \union {Short},
           t # v1, v1' = t, v3 < MaxEdits, Suggest!Effect(t), v4' = v4, v8' \in BOOLEAN
    PROVE  Suggest!SuggestInv'
<1> USE DEF Suggest!Nulls, Suggest!SuggestInv, Suggest!TypeOK, Suggest!Effect
<1>1. Suggest!TypeOK'
  <2>1. \A r \in v4 : r \in [id : 1..v3', text : Typed]
    <3> TAKE r \in v4
    <3>1. v3' \in Nat /\ v3' >= v3 /\ v3 \in Nat
      OBVIOUS
    <3>2. r \in [id : 1..v3, text : Typed]
      OBVIOUS
    <3>3. r.id \in 1..v3' /\ r.text \in Typed /\ r = [id |-> r.id, text |-> r.text]
      BY ONLY <3>1, <3>2
    <3> QED BY ONLY <3>3
  <2>2. v1' \in Typed \union {Short} /\ v2' \in Typed \union {NoText} /\ v5' \in Typed \union {NoText}
    OBVIOUS
  <2>3. v3' \in 0..MaxEdits
    OBVIOUS
  <2>4. v6' \in BOOLEAN /\ v7' \in BOOLEAN
    BY Zenon
  <2> QED BY <2>1, <2>2, <2>3, <2>4
<1>2. Suggest!OneLookUp' /\ Suggest!SuggestionsFit'
  <2>1. \A r \in v4 : r.id \in 1..v3
    OBVIOUS
  <2> QED BY <2>1 DEF Suggest!OneLookUp, Suggest!SuggestionsFit
<1> QED BY <1>1, <1>2

\* Every step of the field, its timer and its look-ups keeps the invariant.
LEMMA SuggestKept ==
    ASSUME Suggest!Nulls, Suggest!SuggestInv, Suggest!Next
    PROVE  Suggest!SuggestInv'
<1>1. ASSUME NEW t \in Typed \union {Short}, Suggest!onChange(t)
      PROVE  Suggest!SuggestInv'
  BY <1>1, SuggestNewText DEF Suggest!onChange
<1>2. ASSUME NEW t \in Typed, Suggest!onPick(t)
      PROVE  Suggest!SuggestInv'
  <2>1. CASE t = v1
    BY <1>2, <2>1 DEF Suggest!SuggestInv, Suggest!TypeOK, Suggest!OneLookUp, Suggest!SuggestionsFit,
       Suggest!onPick
  <2>2. CASE t # v1
    BY <1>2, <2>2, SuggestNewText DEF Suggest!onPick
  <2> QED BY <2>1, <2>2
<1>3. ASSUME Suggest!FocusOrBlur
      PROVE  Suggest!SuggestInv'
  BY <1>3 DEF Suggest!Nulls, Suggest!SuggestInv, Suggest!TypeOK, Suggest!OneLookUp, Suggest!SuggestionsFit,
       Suggest!FocusOrBlur
<1>4. ASSUME Suggest!TimerFires
      PROVE  Suggest!SuggestInv'
  <2> USE DEF Suggest!Nulls, Suggest!SuggestInv, Suggest!TypeOK, Suggest!OneLookUp
  <2>1. [id |-> v3, text |-> v2] \in [id : 1..v3, text : Typed]
    BY <1>4 DEF Suggest!TimerFires
  <2>2. Suggest!TypeOK'
    BY <1>4, <2>1 DEF Suggest!TimerFires
  <2>3. Suggest!OneLookUp' /\ Suggest!SuggestionsFit'
    BY <1>4 DEF Suggest!TimerFires, Suggest!SuggestionsFit
  <2> QED BY <2>2, <2>3
<1>5. ASSUME NEW r \in v4, Suggest!Answered(r)
      PROVE  Suggest!SuggestInv'
  BY <1>5 DEF Suggest!Nulls, Suggest!SuggestInv, Suggest!TypeOK, Suggest!OneLookUp, Suggest!SuggestionsFit,
       Suggest!Answered, Suggest!Newest
<1> QED BY <1>1, <1>2, <1>3, <1>4, <1>5 DEF Suggest!Next

-----------------------------------------------------------------------------
(* Searching sheet music (NoteSearch).                                      *)

\* What is left when an answer is taken out.
LEMMA TakenOut ==
    ASSUME NEW S, NEW s \in Seq(S), NEW i \in DOMAIN s,
           NEW r, r = SubSeq(s, 1, i - 1) \o SubSeq(s, i + 1, Len(s))
    PROVE  /\ r \in Seq(S) /\ Len(r) = Len(s) - 1
           /\ \A j \in 1..Len(r) : r[j] = IF j < i THEN s[j] ELSE s[j + 1]
<1>1. /\ Len(s) \in Nat /\ i \in 1..Len(s)
      /\ \A j \in 1..Len(s) : s[j] \in S
  BY LenProperties, ElementOfSeq
<1> DEFINE a == SubSeq(s, 1, i - 1)
           b == SubSeq(s, i + 1, Len(s))
<1>2. /\ a \in Seq(S) /\ Len(a) = i - 1
      /\ \A j \in 1..(i - 1) : a[j] = s[j]
  <2>1. \A j \in 1..(i - 1) : s[j] \in S
    BY <1>1
  <2> QED BY <1>1, <2>1, SubSeqProperties
<1>3. /\ b \in Seq(S) /\ Len(b) = Len(s) - i
      /\ \A j \in 1..(Len(s) - i) : b[j] = s[j + i]
  <2>1. \A j \in (i + 1)..Len(s) : s[j] \in S
    BY <1>1
  <2>2. i + 1 \in Int /\ Len(s) \in Int /\ i + 1 <= Len(s) + 1
    BY ONLY <1>1
  <2>3. /\ b \in Seq(S)
        /\ Len(b) = IF i + 1 <= Len(s) THEN Len(s) - (i + 1) + 1 ELSE 0
        /\ \A j \in 1..(Len(s) - (i + 1) + 1) : b[j] = s[(i + 1) + j - 1]
    BY <1>1, <2>1, <2>2, SubSeqProperties
  <2> HIDE DEF b
  <2> QED BY ONLY <1>1, <2>3
<1> HIDE DEF a, b
<1>4. /\ a \o b \in Seq(S) /\ Len(a \o b) = Len(a) + Len(b)
      /\ \A j \in 1..Len(a) + Len(b) : (a \o b)[j] = IF j <= Len(a) THEN a[j] ELSE b[j - Len(a)]
  BY <1>2, <1>3, ConcatProperties
<1>5. r = a \o b
  BY DEF a, b
<1>6. r \in Seq(S) /\ Len(r) = Len(s) - 1
  BY ONLY <1>1, <1>2, <1>3, <1>4, <1>5
<1>7. ASSUME NEW j \in 1..Len(r)
      PROVE  r[j] = IF j < i THEN s[j] ELSE s[j + 1]
  <2>1. /\ j \in 1..Len(s) - 1
        /\ r[j] = IF j <= Len(a) THEN a[j] ELSE b[j - Len(a)]
    BY <1>1, <1>2, <1>3, <1>4, <1>5, <1>6
  <2>2. CASE j < i
    BY <2>1, <2>2, <1>1, <1>2
  <2>3. CASE ~ (j < i)
    <3>1. /\ j - (i - 1) \in 1..(Len(s) - i) /\ (j - (i - 1)) + i = j + 1
          /\ ~ (j <= Len(a)) /\ j - Len(a) = j - (i - 1)
      BY ONLY <2>1, <2>3, <1>1, <1>2
    <3>2. r[j] = b[j - (i - 1)]
      BY <2>1, <3>1
    <3>3. b[j - (i - 1)] = s[(j - (i - 1)) + i]
      BY <3>1, <1>3
    <3> QED BY <3>1, <3>2, <3>3, <2>3
  <2> QED BY <2>2, <2>3
<1> QED BY <1>6, <1>7

\* Before a search.
LEMMA SearchInitially ==
    ASSUME Search!Bounds, Search!Init
    PROVE  Search!SearchInv
<1>1. PICK all \in Typed : v3 = <<all>> /\ v7 = (all # v1)
  BY DEF Search!Init
<1>2. /\ v1 \in Typed /\ v2 = FALSE /\ v4 = <<>> /\ v5 = FALSE /\ v6 = Search!NoAppend
  BY DEF Search!Init
<1>3. MaxSent \in Nat \ {0}
  BY DEF Search!Bounds
<1>4. v3 \in Seq(Typed) /\ v3 # <<>> /\ Len(v3) = 1 /\ v3[1] = all
  BY <1>1
<1>5. v7 \in BOOLEAN /\ (~ v7 => all = v1)
  BY <1>1, Zenon
<1>6. Search!TypeOK
  <2>1. Len(v3) <= MaxSent
    BY ONLY <1>3, <1>4
  <2>2. v4 \in Seq(Search!Listed)
    BY <1>2
  <2> QED BY <1>2, <1>4, <1>5, <2>1, <2>2, Zenon DEF Search!TypeOK
<1> QED BY <1>2, <1>4, <1>5, <1>6 DEF Search!SearchInv, Search!PagesInOrder, Search!OneSearch,
           Search!NextPage, Search!Uncrossed

\* Every step of a search, its pages and its requests keeps the invariant.
LEMMA SearchKept ==
    ASSUME Search!Bounds, Search!SearchInv, Search!Next
    PROVE  Search!SearchInv'
<1> Search!TypeOK /\ Search!PagesInOrder /\ Search!OneSearch /\ Search!NextPage /\ Search!Uncrossed
  BY DEF Search!SearchInv
<1>0. SUFFICES /\ Search!TypeOK' /\ Search!PagesInOrder' /\ Search!OneSearch'
               /\ Search!NextPage' /\ Search!Uncrossed'
  BY DEF Search!SearchInv
<1> MaxSent \in Nat /\ LastPage \in Nat /\ NoText \notin Typed
  BY DEF Search!Bounds
<1> DEFINE Goal == /\ Search!TypeOK' /\ Search!PagesInOrder' /\ Search!OneSearch'
                   /\ Search!NextPage' /\ Search!Uncrossed'
<1>1. ASSUME NEW t \in Typed, Search!setNotesSearchText(t)
      PROVE  Goal
  BY <1>1 DEF Search!setNotesSearchText, Search!TypeOK, Search!PagesInOrder, Search!OneSearch,
       Search!NextPage, Search!Uncrossed
<1>2. ASSUME Search!useDebounce
      PROVE  Goal
  <2>1. /\ v3 \in Seq(Typed) /\ v1 \in Typed /\ Len(v3) < MaxSent
        /\ v3' = Append(v3, v1) /\ UNCHANGED <<v1, v4, v5, v6>> /\ v2' = FALSE /\ v7' \in BOOLEAN
        /\ v7' => v7 /\ v3 # <<>>
    BY <1>2 DEF Search!useDebounce, Search!TypeOK
  <2>2. /\ v3' \in Seq(Typed) /\ v3' # <<>> /\ Len(v3') <= MaxSent
        /\ v3'[Len(v3')] = v1
    BY <2>1, AppendProperties, LenProperties
  <2>3. Search!TypeOK'
    BY <2>1, <2>2 DEF Search!TypeOK
  <2>4. Search!PagesInOrder' /\ Search!NextPage'
    BY <2>1 DEF Search!PagesInOrder, Search!NextPage
  <2>5. Search!OneSearch' /\ Search!Uncrossed'
    BY <2>1, <2>2 DEF Search!OneSearch, Search!Uncrossed
  <2> QED BY <2>3, <2>4, <2>5
<1>3. ASSUME NEW i \in 1..MaxSent, Search!SearchAnswered(i)
      PROVE  Goal
  <2>1. /\ v3 \in Seq(Typed) /\ i \in DOMAIN v3 /\ v4' = <<[text |-> v3[i], page |-> 0]>>
        /\ v3' = SubSeq(v3, 1, i - 1) \o SubSeq(v3, i + 1, Len(v3))
        /\ UNCHANGED <<v1, v2, v5, v6>> /\ Len(v3) <= MaxSent
    BY <1>3 DEF Search!SearchAnswered, Search!TypeOK
  <2>2. v7' \in BOOLEAN /\ (~ v7' => ~ v7 /\ ~ (i > 1) /\ v6 = Search!NoAppend)
    BY <1>3, Zenon DEF Search!SearchAnswered, Search!TypeOK
  <2>3. /\ v3' \in Seq(Typed) /\ Len(v3') = Len(v3) - 1
        /\ \A j \in 1..Len(v3') : v3'[j] = IF j < i THEN v3[j] ELSE v3[j + 1]
    <3>1. v3 \in Seq(Typed) /\ i \in DOMAIN v3
      BY <2>1
    <3>2. v3' = SubSeq(v3, 1, i - 1) \o SubSeq(v3, i + 1, Len(v3))
      BY <2>1
    <3> QED BY ONLY <3>1, <3>2, TakenOut
  <2>4. Len(v3) \in Nat /\ i \in 1..Len(v3)
    BY ONLY <2>1, LenProperties
  <2>5. v3[i] \in Typed /\ v3 # <<>>
    BY ONLY <2>1, <2>4, ElementOfSeq, EmptySeq
  <2>6. /\ v4' \in Seq(Search!Listed) /\ DOMAIN v4' = {1}
        /\ v4'[1].page = 0 /\ v4'[1].text = v3[i]
    BY <2>1, <2>5 DEF Search!Listed
  <2>7. Len(v3') <= MaxSent
    <3>1. Len(v3) <= MaxSent
      BY <2>1
    <3> QED BY ONLY <3>1, <2>3, <2>4, MaxSent \in Nat
  <2>8. Search!TypeOK'
    BY <2>1, <2>2, <2>3, <2>6, <2>7, Zenon DEF Search!TypeOK
  <2>9. Search!PagesInOrder' /\ Search!NextPage'
    BY <2>1, <2>6 DEF Search!PagesInOrder, Search!NextPage
  <2>10. ASSUME ~ v7', ~ v2'
         PROVE  /\ v6' = Search!NoAppend
                /\ v3' = <<>> => v4'[1].text = v1'
                /\ v3' # <<>> => v3'[Len(v3')] = v1'
    <3>1. i = 1 /\ v6 = Search!NoAppend
      BY ONLY <2>10, <2>2, <2>4
    <3>2. v3[Len(v3)] = v1
      BY <2>10, <2>1, <2>2, <2>5, Zenon DEF Search!Uncrossed
    <3>3. CASE v3' = <<>>
      <4>1. Len(v3) = 1
        BY ONLY <3>3, <2>3, <2>4, EmptySeq
      <4> QED BY <4>1, <3>1, <3>2, <3>3, <2>1, <2>6
    <3>4. CASE v3' # <<>>
      <4>1. Len(v3') \in 1..Len(v3')
        BY ONLY <3>4, <2>3, EmptySeq
      <4>2. v3'[Len(v3')] = v3[Len(v3)]
        BY ONLY <4>1, <3>1, <2>3, <2>4
      <4> QED BY <4>2, <3>1, <3>2, <3>4, <2>1
    <3> QED BY <3>3, <3>4
  <2>11. Search!OneSearch'
    BY <2>6, <2>10 DEF Search!OneSearch
  <2>12. Search!Uncrossed'
    BY <2>1, <2>2, <2>10 DEF Search!Uncrossed
  <2> QED BY <2>8, <2>9, <2>11, <2>12
<1>4. ASSUME NEW i \in 1..MaxSent, Search!SearchFails(i)
      PROVE  Goal
  <2>1. /\ v3 \in Seq(Typed) /\ i \in DOMAIN v3
        /\ v3' = SubSeq(v3, 1, i - 1) \o SubSeq(v3, i + 1, Len(v3))
    BY <1>4 DEF Search!SearchFails, Search!TypeOK
  <2>2. /\ v3' \in Seq(Typed) /\ Len(v3') = Len(v3) - 1 /\ Len(v3) \in Nat
    BY ONLY <2>1, TakenOut, LenProperties
  <2>3. Len(v3) <= MaxSent /\ v7' = TRUE /\ UNCHANGED <<v1, v2, v4, v5, v6>>
    BY <1>4 DEF Search!SearchFails, Search!TypeOK
  <2>4. Len(v3') <= MaxSent
    BY ONLY <2>2, <2>3, MaxSent \in Nat
  <2> QED BY <2>2, <2>3, <2>4 DEF Search!TypeOK, Search!PagesInOrder, Search!OneSearch,
             Search!NextPage, Search!Uncrossed
<1>5. ASSUME Search!loadNotes
      PROVE  Goal
  <2>1. /\ v4 \in Seq(Search!Listed) /\ v4 # <<>>
        /\ v6' = [text |-> v1, base |-> v4, page |-> v4[Len(v4)].page + 1]
        /\ v4[Len(v4)].page < LastPage
        /\ v5' = TRUE /\ UNCHANGED <<v1, v2, v3, v4>>
        /\ v1 \in Typed
    BY <1>5 DEF Search!loadNotes, Search!hasNextPage, Search!TypeOK
  <2> v7' \in BOOLEAN /\ (~ v7' => ~ v7 /\ ~ v2 /\ v3 = <<>>)
    BY <1>5, Zenon DEF Search!loadNotes, Search!TypeOK
  <2>2. /\ Len(v4) \in Nat \ {0} /\ DOMAIN v4 = 1..Len(v4) /\ v4[Len(v4)] \in Search!Listed
    BY ONLY <2>1, LenProperties, EmptySeq, ElementOfSeq
  <2>3. v4[Len(v4)].page = Len(v4) - 1
    BY <2>2 DEF Search!PagesInOrder
  <2>4. v6' \in [text: Typed, page: 0..LastPage, base: Seq(Search!Listed)] /\ v6' # Search!NoAppend
    BY <2>1, <2>2, <2>3 DEF Search!NoAppend
  <2>5. Search!TypeOK'
    BY <2>1, <2>4 DEF Search!TypeOK
  <2>6. Search!PagesInOrder' /\ Search!NextPage'
    BY <2>1, <2>2, <2>3 DEF Search!PagesInOrder, Search!NextPage
  <2>7. Search!OneSearch' /\ Search!Uncrossed'
    BY <2>1 DEF Search!OneSearch, Search!Uncrossed
  <2> QED BY <2>5, <2>6, <2>7
<1>6. ASSUME Search!PageAnswered
      PROVE  Goal
  <2>1. /\ v6 # Search!NoAppend /\ v6 \in [text: Typed, page: 0..LastPage, base: Seq(Search!Listed)]
        /\ v4' = Append(v6.base, [text |-> v6.text, page |-> v6.page])
        /\ v6' = Search!NoAppend /\ v5' = FALSE /\ UNCHANGED <<v1, v2, v3, v7>>
    BY <1>6 DEF Search!PageAnswered, Search!TypeOK
  <2> DEFINE base == v6.base
             last == [text |-> v6.text, page |-> v6.page]
  <2>2. /\ base \in Seq(Search!Listed) /\ last \in Search!Listed
        /\ last.page = Len(base) /\ last.text = v6.text
        /\ \A j \in DOMAIN base : base[j].page = j - 1
    BY <2>1 DEF Search!NextPage, Search!Listed
  <2>3. ~ v7 /\ ~ v2 /\ v3 = <<>> => /\ last.text = v1
                                      /\ \A j \in DOMAIN base : base[j].text = v1
    BY <2>1 DEF Search!Uncrossed
  <2>4. v4' = Append(base, last)
    BY <2>1
  <2> HIDE DEF base, last
  <2>5. /\ v4' \in Seq(Search!Listed) /\ DOMAIN v4' = 1..(Len(base) + 1) /\ Len(base) \in Nat
        /\ \A j \in 1..Len(base) : v4'[j] = base[j]
        /\ v4'[Len(base) + 1] = last /\ DOMAIN base = 1..Len(base)
    BY <2>2, <2>4, AppendProperties, LenProperties
  <2>6. Search!PagesInOrder' /\ Search!OneSearch'
    BY <2>1, <2>2, <2>3, <2>5 DEF Search!PagesInOrder, Search!OneSearch
  <2>7. Search!TypeOK' /\ Search!NextPage' /\ Search!Uncrossed'
    BY <2>1, <2>5 DEF Search!TypeOK, Search!NextPage, Search!Uncrossed
  <2> QED BY <2>6, <2>7
<1>7. ASSUME Search!PageFails
      PROVE  Goal
  BY <1>7 DEF Search!PageFails, Search!NoAppend, Search!TypeOK, Search!PagesInOrder, Search!OneSearch,
       Search!NextPage, Search!Uncrossed
<1> QED BY <1>1, <1>2, <1>3, <1>4, <1>5, <1>6, <1>7 DEF Search!Next

-----------------------------------------------------------------------------
(* The page of the authors (Authors).                                       *)

\* What a page of the server's list is.
LEMMA ServedPage ==
    ASSUME NEW t \in AuthorPage!Text, NEW p
    PROVE  AuthorPage!TypeOK => AuthorPage!serve(t, p) \in AuthorPage!OnePage
<1> SUFFICES ASSUME AuthorPage!TypeOK PROVE AuthorPage!serve(t, p) \in AuthorPage!OnePage
  OBVIOUS
<1> DEFINE L == AuthorPage!serve(t, p).list
           N == AuthorPage!serve(t, p).next
<1>1. AuthorPage!serve(t, p) = [list |-> L, next |-> N]
  BY DEF AuthorPage!serve
<1>2. L \subseteq AuthorPage!Author
  <2>1. v1 \subseteq AuthorPage!Author
    BY DEF AuthorPage!TypeOK
  <2> QED BY <2>1 DEF AuthorPage!serve, AuthorPage!Matches
<1>3. N \in BOOLEAN
  BY DEF AuthorPage!serve
<1> QED BY ONLY <1>1, <1>2, <1>3 DEF AuthorPage!OnePage

\* The instance's own Cardinality is that of FiniteSets.
LEMMA SameCardinality == \A S : AuthorPage!Cardinality(S) = Cardinality(S)
BY DEF AuthorPage!Cardinality, Cardinality, AuthorPage!IsFiniteSet, IsFiniteSet

\* One more page of what the server has.
LEMMA WholeWithNext ==
    ASSUME AuthorPage!TypeOK, NEW t \in AuthorPage!Text, NEW pages \in Seq(AuthorPage!OnePage),
           AuthorPage!Whole(t, pages)
    PROVE  LET got == Append(pages, AuthorPage!serve(t, Len(pages)))
           IN  got \in Seq(AuthorPage!OnePage) \ {<<>>} /\ AuthorPage!Whole(t, got)
<1> DEFINE page == AuthorPage!serve(t, Len(pages))
           got == Append(pages, page)
<1>1. page \in AuthorPage!OnePage
  BY ServedPage
<1>2. \A i \in DOMAIN pages : /\ AuthorPage!serve(t, i - 1).list \ v9 \subseteq pages[i].list
                              /\ pages[i].next = AuthorPage!serve(t, i - 1).next
  BY DEF AuthorPage!Whole
<1>3. AuthorPage!serve(t, Len(pages)).list \ v9 \subseteq page.list
      /\ page.next = AuthorPage!serve(t, Len(pages)).next
  OBVIOUS
<1> HIDE DEF page
<1>4. /\ got \in Seq(AuthorPage!OnePage) /\ got # <<>>
      /\ Len(got) = Len(pages) + 1 /\ Len(pages) \in Nat
      /\ \A i \in 1..Len(pages) : got[i] = pages[i]
      /\ got[Len(pages) + 1] = page
      /\ DOMAIN got = 1..Len(got) /\ DOMAIN pages = 1..Len(pages)
  BY <1>1, AppendProperties, LenProperties
<1> HIDE DEF got
<1>5. ASSUME NEW i \in DOMAIN got
      PROVE  /\ AuthorPage!serve(t, i - 1).list \ v9 \subseteq got[i].list
             /\ got[i].next = AuthorPage!serve(t, i - 1).next
  <2>1. CASE i \in 1..Len(pages)
    BY <2>1, <1>2, <1>4
  <2>2. CASE i = Len(pages) + 1
    <3>1. i - 1 = Len(pages)
      BY <2>2, <1>4
    <3> QED BY <3>1, <2>2, <1>3, <1>4
  <2> QED BY <2>1, <2>2, <1>4
<1>6. AuthorPage!Whole(t, got)
  BY <1>5 DEF AuthorPage!Whole
<1> QED BY <1>4, <1>6 DEF got, page

\* Whether pages will be whole.
WholeNext(t, pages) ==
    \A i \in DOMAIN pages : /\ AuthorPage!serve(t, i - 1)'.list \ v9' \subseteq pages[i].list
                            /\ pages[i].next = AuthorPage!serve(t, i - 1)'.next

\* The same of the next state, with its variables in place.
LEMMA ListsWholeNext ==
    ASSUME \A t \in v11' : v4'[t] # NoList /\ WholeNext(t, v4'[t]),
           \A t \in AuthorPage!Text : v5'[t].clean => WholeNext(t, v5'[t].got)
    PROVE  AuthorPage!ListsWhole'
BY DEF AuthorPage!ListsWhole, AuthorPage!Whole, WholeNext, AuthorPage!Text

\* What is whole stays so while the server does not change and nothing is taken off
\* the deletions under way.
LEMMA WholeStays ==
    ASSUME NEW t, NEW pages, AuthorPage!Whole(t, pages),
           UNCHANGED <<v1, v2>>, v9 \subseteq v9'
    PROVE  WholeNext(t, pages)
<1>1. ASSUME NEW i PROVE AuthorPage!serve(t, i)' = AuthorPage!serve(t, i)
  BY DEF AuthorPage!serve, AuthorPage!Matches, AuthorPage!before
<1> QED BY <1>1 DEF AuthorPage!Whole, WholeNext

\* A place in the server's list is on one of its pages.
LEMMA PageOfPlace ==
    ASSUME NEW n \in Nat, NEW k \in Nat \ {0}, NEW m \in Nat, n < m * k
    PROVE  \E p \in 0..m - 1 : n \in p * k..(p + 1) * k - 1
<1> DEFINE p == n \div k
<1>1. p \in Nat /\ p * k <= n /\ n < (p + 1) * k
  BY Z3
<1>2. p < m
  <2>1. SUFFICES ASSUME p >= m PROVE FALSE
    BY <1>1
  <2>2. m * k <= p * k
    BY <2>1, <1>1, Z3
  <2> QED BY <2>2, <1>1, Z3
<1> QED BY <1>1, <1>2, Z3

\* A list with no next page has everybody.
LEMMA LastPageEnds ==
    ASSUME AuthorPage!AuthorBounds, AuthorPage!TypeOK, NEW t \in AuthorPage!Text,
           NEW pages \in Seq(AuthorPage!OnePage), pages # <<>>,
           AuthorPage!Whole(t, pages), ~ pages[Len(pages)].next
    PROVE  AuthorPage!Matches(t) \ v9 \subseteq AuthorPage!Listed(pages)
<1> DEFINE n == Len(pages)
<1>1. n \in Nat \ {0} /\ DOMAIN pages = 1..n
  BY LenProperties, EmptySeq
<1>2. \A i \in 1..n : AuthorPage!serve(t, i - 1).list \ v9 \subseteq AuthorPage!Listed(pages)
  BY <1>1 DEF AuthorPage!Whole, AuthorPage!Listed
<1>3. ~ AuthorPage!serve(t, n - 1).next
  BY <1>1 DEF AuthorPage!Whole
<1>4. CASE t # ""
  <2>1. AuthorPage!serve(t, 0).list = AuthorPage!Matches(t)
    BY <1>4 DEF AuthorPage!serve
  <2>2. 1 \in 1..n /\ 1 - 1 = 0
    BY <1>1
  <2> QED BY <2>1, <2>2, <1>2
<1>5. CASE t = ""
  <2>1. AuthorPage!Matches(t) = v1
    BY <1>5 DEF AuthorPage!Matches
  <2>2. ~ (n * PageSize < Cardinality(v1))
    <3>1. (n - 1) + 1 = n
      BY <1>1
    <3> QED BY <1>3, <2>1, <3>1, SameCardinality DEF AuthorPage!serve
  <2>3. SUFFICES ASSUME NEW a \in v1 \ v9
                 PROVE  a \in AuthorPage!Listed(pages)
    BY <2>1
  <2>4. v1 \subseteq 1..MaxAuthors /\ MaxAuthors \in Nat /\ PageSize \in Nat \ {0}
    BY DEF AuthorPage!TypeOK, AuthorPage!AuthorBounds, AuthorPage!Author
  <2> DEFINE B == {b \in v1 : b < a}
  <2>5. IsFiniteSet(v1)
    <3>1. IsFiniteSet(1..MaxAuthors)
      BY <2>4, FS_Interval
    <3> QED BY <2>4, <3>1, FS_Subset
  <2>6. B \subseteq v1 /\ a \in v1 /\ a \notin B
    BY <2>4
  <2> HIDE DEF B
  <2>7. Cardinality(B) \in Nat /\ Cardinality(v1) \in Nat /\ Cardinality(B) < Cardinality(v1)
    BY <2>5, <2>6, FS_Subset, FS_CardinalityType
  <2>8. AuthorPage!before(a) = Cardinality(B)
    BY SameCardinality DEF AuthorPage!before, B
  <2>9. Cardinality(B) < n * PageSize
    <3>1. n * PageSize \in Nat
      BY ONLY <1>1, <2>4
    <3> QED BY ONLY <2>2, <2>7, <3>1
  <2>10. PICK p \in 0..n - 1 : Cardinality(B) \in p * PageSize..(p + 1) * PageSize - 1
    BY ONLY <1>1, <2>4, <2>7, <2>9, PageOfPlace
  <2>11. p + 1 \in 1..n /\ (p + 1) - 1 = p
    BY <1>1, <2>10
  <2>12. a \in AuthorPage!serve(t, p).list
    BY <1>5, <2>1, <2>8, <2>10 DEF AuthorPage!serve
  <2> QED BY <2>11, <2>12, <1>2
<1> QED BY <1>4, <1>5

\* A step that leaves the lists, the requests and the server alone.
LEMMA ListsStay ==
    ASSUME AuthorPage!ListsWhole, AuthorPage!TypeOK,
           UNCHANGED <<v1, v2, v4, v5, v11>>, v9 \subseteq v9'
    PROVE  AuthorPage!ListsWhole'
<1>1. \A u \in v11 : v4[u] # NoList /\ WholeNext(u, v4[u])
  BY WholeStays DEF AuthorPage!ListsWhole
<1>2. \A u \in AuthorPage!Text : v5[u].clean => WholeNext(u, v5[u].got)
  BY WholeStays DEF AuthorPage!ListsWhole
<1> QED BY <1>1, <1>2, ListsWholeNext

\* A change of the server: nothing is known to be whole any more.
LEMMA OutOfDateWhole ==
    ASSUME AuthorPage!TypeOK, AuthorPage!OutOfDate
    PROVE  /\ AuthorPage!ListsWhole'
           /\ v5' \in [AuthorPage!Text -> [pc : {"idle", "all", "next"},
                           got : Seq(AuthorPage!OnePage), clean : BOOLEAN]]
           /\ \A u \in AuthorPage!Text : v5'[u].pc = v5[u].pc
           /\ v11' = {}
<1> DEFINE F == [pc : {"idle", "all", "next"}, got : Seq(AuthorPage!OnePage), clean : BOOLEAN]
<1>1. v5 \in [AuthorPage!Text -> F]
  BY DEF AuthorPage!TypeOK
<1>2. ASSUME NEW u \in AuthorPage!Text
      PROVE  v5'[u] \in F /\ v5'[u].pc = v5[u].pc /\ v5'[u].clean = FALSE
  BY <1>1 DEF AuthorPage!OutOfDate
<1>3. v11' = {} /\ v5' \in [AuthorPage!Text -> F]
  BY <1>1, <1>2 DEF AuthorPage!OutOfDate
<1>4. \A u \in AuthorPage!Text : ~ v5'[u].clean
  BY <1>2
<1> QED BY <1>2, <1>3, <1>4, ListsWholeNext

\* A request that starts anew has nothing yet.
LEMMA AskedIsWhole ==
    ASSUME AuthorPage!TypeOK, AuthorPage!ListsWhole, NEW u \in AuthorPage!Text,
           v5' = [v5 EXCEPT ![u] = AuthorPage!Asked], UNCHANGED <<v1, v2, v4, v9, v11>>
    PROVE  /\ AuthorPage!ListsWhole'
           /\ v5' \in [AuthorPage!Text -> [pc : {"idle", "all", "next"},
                           got : Seq(AuthorPage!OnePage), clean : BOOLEAN]]
           /\ v5'[u].pc # "idle"
           /\ \A t \in AuthorPage!Text : v5[t].pc # "idle" => v5'[t].pc # "idle"
<1> DEFINE F == [pc : {"idle", "all", "next"}, got : Seq(AuthorPage!OnePage), clean : BOOLEAN]
<1>1. v5 \in [AuthorPage!Text -> F]
  BY DEF AuthorPage!TypeOK
<1>2. AuthorPage!Asked \in F /\ AuthorPage!Asked.pc # "idle" /\ AuthorPage!Asked.got = <<>>
  BY EmptySeq DEF AuthorPage!Asked, AuthorPage!NoPages
<1>3. v5' \in [AuthorPage!Text -> F] /\ v5'[u] = AuthorPage!Asked
      /\ \A t \in AuthorPage!Text : t # u => v5'[t] = v5[t]
  BY <1>1, <1>2
<1>4. \A t \in v11 : v4[t] # NoList /\ WholeNext(t, v4[t])
  BY WholeStays DEF AuthorPage!ListsWhole
<1>5. ASSUME NEW t \in AuthorPage!Text, v5'[t].clean
      PROVE  WholeNext(t, v5'[t].got)
  <2>1. CASE t = u
    BY <2>1, <1>2, <1>3 DEF WholeNext
  <2>2. CASE t # u
    <3>1. AuthorPage!Whole(t, v5[t].got) /\ v5'[t] = v5[t]
      BY <2>2, <1>3, <1>5 DEF AuthorPage!ListsWhole
    <3> QED BY <3>1, WholeStays
  <2> QED BY <2>1, <2>2
<1>6. AuthorPage!ListsWhole'
  BY <1>4, <1>5, ListsWholeNext
<1> QED BY <1>2, <1>3, <1>6

\* Who is listed is an author.
LEMMA ListedAuthors ==
    ASSUME NEW pages \in Seq(AuthorPage!OnePage)
    PROVE  AuthorPage!Listed(pages) \subseteq AuthorPage!Author
<1>1. \A i \in DOMAIN pages : pages[i] \in AuthorPage!OnePage
  BY ElementOfSeq, LenProperties
<1>2. \A i \in DOMAIN pages : pages[i].list \subseteq AuthorPage!Author
  BY <1>1 DEF AuthorPage!OnePage
<1> QED BY <1>2 DEF AuthorPage!Listed

\* What a request has.
Request == [pc : {"idle", "all", "next"}, got : Seq(AuthorPage!OnePage), clean : BOOLEAN]

\* A page is answered.
LEMMA AuthorsAnswered ==
    ASSUME AuthorPage!AuthorBounds, AuthorPage!AuthorInv,
           NEW t \in AuthorPage!Text, AuthorPage!FetchAnswered(t)
    PROVE  AuthorPage!AuthorInv'
<1> USE DEF Request
<1>0. AuthorPage!TypeOK /\ AuthorPage!ListsWhole /\ AuthorPage!BoxesOfList
  BY DEF AuthorPage!AuthorInv
<1> DEFINE got == Append(v5[t].got, AuthorPage!serve(t, Len(v5[t].got)))
           had == IF v4[t] = NoList THEN 1 ELSE Len(v4[t])
           more == v5[t].pc = "all" /\ Len(got) < had /\ got[Len(got)].next
<1>1. /\ v5 \in [AuthorPage!Text -> Request]
      /\ v4 \in [AuthorPage!Text -> {NoList} \union (Seq(AuthorPage!OnePage) \ {<<>>})]
      /\ v6 \subseteq AuthorPage!Text /\ v11 \subseteq AuthorPage!Text /\ v3 \in AuthorPage!Text
      /\ NoList \notin Seq(AuthorPage!OnePage)
  BY <1>0 DEF AuthorPage!TypeOK, AuthorPage!AuthorBounds, AuthorPage!NoPages
<1>2. /\ v5[t].pc # "idle"
      /\ v5' = [v5 EXCEPT ![t] = IF more THEN [@ EXCEPT !.got = got] ELSE AuthorPage!NoFetch]
      /\ v4' = IF more THEN v4 ELSE [v4 EXCEPT ![t] = got]
      /\ v8' = IF more THEN v8 ELSE AuthorPage!Unticked(t, got)
      /\ v11' = IF more THEN v11 ELSE IF v5[t].clean THEN v11 \union {t} ELSE v11 \ {t}
      /\ v6' = v6 \ {t} /\ UNCHANGED <<v1, v2, v3, v7, v9, v10>>
  BY DEF AuthorPage!FetchAnswered
<1>3. got \in Seq(AuthorPage!OnePage) \ {<<>>} /\ Len(got) \in Nat \ {0}
  <2>1. v5[t].got \in Seq(AuthorPage!OnePage) /\ AuthorPage!serve(t, Len(v5[t].got)) \in AuthorPage!OnePage
    BY <1>0, <1>1, ServedPage
  <2> QED BY <2>1, AppendProperties, LenProperties
<1>4. v5[t].clean => AuthorPage!Whole(t, got)
  BY <1>0, <1>1, WholeWithNext DEF AuthorPage!ListsWhole
<1> HIDE DEF got
<1>5. more => v4[t] # NoList
  BY <1>3
<1> HIDE DEF more
<1>6. /\ v5' \in [AuthorPage!Text -> Request]
      /\ v5'[t].clean => v5[t].clean /\ v5'[t].got = got /\ v5'[t].pc = v5[t].pc
      /\ \A u \in AuthorPage!Text : u # t => v5'[u] = v5[u]
      /\ more => v5'[t].pc = v5[t].pc
  <2>1. AuthorPage!NoFetch \in Request /\ ~ AuthorPage!NoFetch.clean
    BY EmptySeq DEF AuthorPage!NoFetch, AuthorPage!NoPages
  <2>2. [v5[t] EXCEPT !.got = got] \in Request
    BY <1>1, <1>3
  <2> QED BY <1>1, <1>2, <2>1, <2>2
<1>7. /\ v4' \in [AuthorPage!Text -> {NoList} \union (Seq(AuthorPage!OnePage) \ {<<>>})]
      /\ ~ more => v4'[t] = got
      /\ \A u \in AuthorPage!Text : u # t \/ more => v4'[u] = v4[u]
  BY <1>1, <1>2, <1>3
<1>8. v11' \subseteq AuthorPage!Text /\ v6' \subseteq AuthorPage!Text
  BY <1>1, <1>2
<1>9. AuthorPage!ListsWhole'
  <2>1. ASSUME NEW u \in v11'
        PROVE  v4'[u] # NoList /\ WholeNext(u, v4'[u])
    <3>1. CASE u # t \/ more
      <4>1. u \in v11 /\ v4'[u] = v4[u]
        BY <1>1, <1>2, <1>7, <3>1
      <4>2. v4[u] # NoList /\ AuthorPage!Whole(u, v4[u])
        BY <1>0, <4>1 DEF AuthorPage!ListsWhole
      <4> QED BY <1>2, <4>1, <4>2, WholeStays
    <3>2. CASE u = t /\ ~ more
      <4>1. v5[t].clean /\ v4'[u] = got
        BY <1>2, <1>7, <3>2
      <4> QED BY <1>1, <1>2, <1>3, <1>4, <3>2, <4>1, WholeStays
    <3> QED BY <3>1, <3>2
  <2>2. ASSUME NEW u \in AuthorPage!Text, v5'[u].clean
        PROVE  WholeNext(u, v5'[u].got)
    <3>1. CASE u = t
      BY <1>2, <1>4, <1>6, <2>2, <3>1, WholeStays
    <3>2. CASE u # t
      <4>1. AuthorPage!Whole(u, v5[u].got) /\ v5'[u] = v5[u]
        BY <1>0, <1>6, <2>2, <3>2 DEF AuthorPage!ListsWhole
      <4> QED BY <1>2, <4>1, WholeStays
    <3> QED BY <3>1, <3>2
  <2> QED BY <2>1, <2>2, ListsWholeNext
<1>10. /\ \E rows \in SUBSET AuthorPage!Author : v8' \in [rows -> BOOLEAN]
       /\ AuthorPage!BoxesOfList'
  <2>0. \E rows \in SUBSET AuthorPage!Author : v8 \in [rows -> BOOLEAN]
    BY <1>0 DEF AuthorPage!TypeOK
  <2>1. CASE more \/ t # v3 \/ got = v4[t]
    <3>1. v8' = v8
      BY <1>2, <2>1 DEF AuthorPage!Unticked
    <3>2. v4'[v3] = v4[v3]
      BY <1>1, <1>7, <2>1
    <3>3. CASE v4[v3] # NoList
      BY <1>0, <1>2, <2>0, <3>1, <3>2, <3>3 DEF AuthorPage!BoxesOfList, AuthorPage!Listed
    <3>4. CASE v4[v3] = NoList
      <4>1. t # v3
        BY <1>1, <1>3, <1>5, <2>1, <3>4
      <4>2. v5'[v3] = v5[v3] /\ (v3 \in v6' <=> v3 \in v6)
        BY <1>1, <1>2, <1>6, <4>1
      <4>3. v5[v3].pc # "idle" \/ v3 \in v6
        BY <1>0, <3>4 DEF AuthorPage!BoxesOfList
      <4> QED BY <1>2, <2>0, <3>1, <3>2, <3>4, <4>2, <4>3 DEF AuthorPage!BoxesOfList
    <3> QED BY <3>3, <3>4
  <2>2. CASE ~ more /\ t = v3 /\ got # v4[t]
    <3>1. v8' = AuthorPage!Boxes(AuthorPage!Listed(got))
      BY <1>2, <2>2 DEF AuthorPage!Unticked
    <3>2. AuthorPage!Listed(got) \in SUBSET AuthorPage!Author
      BY <1>3, ListedAuthors
    <3>3. v4'[v3'] = got /\ v4'[v3'] # NoList
      BY <1>1, <1>2, <1>3, <1>7, <2>2
    <3>4. v8' \in [AuthorPage!Listed(got) -> BOOLEAN] /\ DOMAIN v8' = AuthorPage!Listed(got)
      BY <3>1 DEF AuthorPage!Boxes
    <3>5. AuthorPage!BoxesOfList'
      BY <3>3, <3>4 DEF AuthorPage!BoxesOfList, AuthorPage!Listed
    <3> QED BY <3>2, <3>4, <3>5
  <2> QED BY <2>1, <2>2
<1>11. AuthorPage!TypeOK'
  <2>1. /\ v1' \subseteq AuthorPage!Author /\ v2' \subseteq AuthorPage!Author /\ v3' \in AuthorPage!Text
        /\ v7' \in BOOLEAN /\ v9' \subseteq AuthorPage!Author /\ v10' \in 0..OneRequest
    BY <1>0, <1>2 DEF AuthorPage!TypeOK
  <2> QED BY <2>1, <1>6, <1>7, <1>8, <1>10 DEF AuthorPage!TypeOK, AuthorPage!NoPages
<1> QED BY <1>9, <1>10, <1>11 DEF AuthorPage!AuthorInv

\* A request fails.
LEMMA AuthorsFail ==
    ASSUME AuthorPage!AuthorInv, NEW t \in AuthorPage!Text, AuthorPage!FetchFails(t)
    PROVE  AuthorPage!AuthorInv'
<1> USE DEF Request
<1>0. AuthorPage!TypeOK /\ AuthorPage!ListsWhole /\ AuthorPage!BoxesOfList
  BY DEF AuthorPage!AuthorInv
<1>1. /\ v5' = [v5 EXCEPT ![t] = AuthorPage!NoFetch] /\ v5 \in [AuthorPage!Text -> Request]
      /\ v6' = IF v4[t] = NoList THEN v6 \union {t} ELSE v6
      /\ UNCHANGED <<v1, v2, v3, v4, v7, v8, v9, v10, v11>>
      /\ v6 \subseteq AuthorPage!Text /\ v3 \in AuthorPage!Text
  BY <1>0 DEF AuthorPage!FetchFails, AuthorPage!authors, AuthorPage!TypeOK
<1>2. AuthorPage!NoFetch \in Request /\ ~ AuthorPage!NoFetch.clean
  BY EmptySeq DEF AuthorPage!NoFetch, AuthorPage!NoPages
<1>3. /\ v5' \in [AuthorPage!Text -> Request]
      /\ v5'[t] = AuthorPage!NoFetch
      /\ \A u \in AuthorPage!Text : u # t => v5'[u] = v5[u]
  BY <1>1, <1>2
<1>4. AuthorPage!ListsWhole'
  <2>1. \A u \in v11 : v4[u] # NoList /\ WholeNext(u, v4[u])
    BY <1>0, <1>1, WholeStays DEF AuthorPage!ListsWhole
  <2>2. \A u \in AuthorPage!Text : v5'[u].clean => WholeNext(u, v5'[u].got)
    BY <1>0, <1>1, <1>2, <1>3, WholeStays DEF AuthorPage!ListsWhole
  <2> QED BY <1>1, <2>1, <2>2, ListsWholeNext
<1>5. AuthorPage!BoxesOfList'
  <2>1. CASE v4[v3] # NoList
    BY <1>0, <1>1, <2>1 DEF AuthorPage!BoxesOfList, AuthorPage!Listed
  <2>2. CASE v4[v3] = NoList
    <3>1. v3 \in v6' \/ v5'[v3].pc # "idle"
      BY <1>0, <1>1, <1>3, <2>2 DEF AuthorPage!BoxesOfList
    <3> QED BY <1>1, <2>2, <3>1 DEF AuthorPage!BoxesOfList
  <2> QED BY <2>1, <2>2
<1>6. AuthorPage!TypeOK'
  <2>1. v6' \subseteq AuthorPage!Text
    BY <1>1
  <2> QED BY <1>0, <1>1, <1>3, <2>1 DEF AuthorPage!TypeOK
<1> QED BY <1>4, <1>5, <1>6 DEF AuthorPage!AuthorInv

\* A request that starts, or starts again.
LEMMA AuthorsAsk ==
    ASSUME AuthorPage!AuthorInv, v5' = [v5 EXCEPT ![v3] = AuthorPage!Asked],
           UNCHANGED <<v1, v2, v3, v4, v6, v8, v9, v10, v11>>, v7' \in BOOLEAN
    PROVE  AuthorPage!AuthorInv'
<1>0. AuthorPage!TypeOK /\ AuthorPage!ListsWhole /\ AuthorPage!BoxesOfList
  BY DEF AuthorPage!AuthorInv
<1>1. v3 \in AuthorPage!Text
  BY <1>0 DEF AuthorPage!TypeOK
<1>2. /\ AuthorPage!ListsWhole'
      /\ v5' \in [AuthorPage!Text -> Request] /\ v5'[v3].pc # "idle"
  BY <1>0, <1>1, AskedIsWhole DEF Request
<1>3. AuthorPage!TypeOK'
  BY <1>0, <1>2 DEF AuthorPage!TypeOK, Request
<1>4. AuthorPage!BoxesOfList'
  <2>1. CASE v4[v3] # NoList
    BY <1>0, <2>1 DEF AuthorPage!BoxesOfList, AuthorPage!Listed
  <2>2. CASE v4[v3] = NoList
    BY <1>2, <2>2 DEF AuthorPage!BoxesOfList
  <2> QED BY <2>1, <2>2
<1> QED BY <1>2, <1>3, <1>4 DEF AuthorPage!AuthorInv

\* The next page of the list on screen.
LEMMA AuthorsReadOn ==
    ASSUME AuthorPage!AuthorInv, AuthorPage!lastElementRef
    PROVE  AuthorPage!AuthorInv'
<1> USE DEF Request
<1>0. AuthorPage!TypeOK /\ AuthorPage!ListsWhole /\ AuthorPage!BoxesOfList
  BY DEF AuthorPage!AuthorInv
<1> DEFINE asked == [pc |-> "next", got |-> v4[v3], clean |-> v3 \in v11]
<1>1. /\ v4[v3] # NoList /\ v5' = [v5 EXCEPT ![v3] = asked]
      /\ v5 \in [AuthorPage!Text -> Request] /\ v3 \in AuthorPage!Text
      /\ UNCHANGED <<v1, v2, v3, v4, v6, v7, v8, v9, v10, v11>>
  BY <1>0 DEF AuthorPage!lastElementRef, AuthorPage!hasNextPage, AuthorPage!authors, AuthorPage!TypeOK
<1>2. v4[v3] \in Seq(AuthorPage!OnePage)
  BY <1>0, <1>1 DEF AuthorPage!TypeOK
<1>3. asked \in Request
  <2>1. (v3 \in v11) \in BOOLEAN
    OBVIOUS
  <2> QED BY <1>2, <2>1
<1>4. asked.got = v4[v3] /\ (asked.clean => v3 \in v11)
  OBVIOUS
<1> HIDE DEF asked
<1>5. /\ v5' \in [AuthorPage!Text -> Request] /\ v5'[v3] = asked
      /\ \A u \in AuthorPage!Text : u # v3 => v5'[u] = v5[u]
  BY <1>1, <1>3
<1>6. AuthorPage!ListsWhole'
  <2>1. \A u \in v11 : v4[u] # NoList /\ WholeNext(u, v4[u])
    BY <1>0, <1>1, WholeStays DEF AuthorPage!ListsWhole
  <2>2. \A u \in AuthorPage!Text : v5'[u].clean => WholeNext(u, v5'[u].got)
    BY <1>0, <1>1, <1>4, <1>5, <2>1, WholeStays DEF AuthorPage!ListsWhole
  <2> QED BY <1>1, <2>1, <2>2, ListsWholeNext
<1>7. AuthorPage!BoxesOfList'
  BY <1>0, <1>1 DEF AuthorPage!BoxesOfList, AuthorPage!Listed
<1>8. AuthorPage!TypeOK'
  BY <1>0, <1>1, <1>5 DEF AuthorPage!TypeOK
<1> QED BY <1>6, <1>7, <1>8 DEF AuthorPage!AuthorInv

\* One goes from text to text.
LEMMA AuthorsSearch ==
    ASSUME AuthorPage!AuthorInv, AuthorPage!setSearchParams
    PROVE  AuthorPage!AuthorInv'
<1>0. AuthorPage!TypeOK /\ AuthorPage!ListsWhole /\ AuthorPage!BoxesOfList
  BY DEF AuthorPage!AuthorInv
<1>1. /\ v3' \in AuthorPage!Text
      /\ v5' = IF v5[v3'].pc = "idle" THEN [v5 EXCEPT ![v3'] = AuthorPage!Asked] ELSE v5
      /\ v8' = IF v4[v3'] # NoList THEN AuthorPage!Boxes(AuthorPage!Listed(v4[v3'])) ELSE v8
      /\ v7' = TRUE /\ UNCHANGED <<v1, v2, v4, v6, v9, v10, v11>>
      /\ v5 \in [AuthorPage!Text -> Request]
  BY <1>0 DEF AuthorPage!setSearchParams, AuthorPage!authors, AuthorPage!TypeOK, Request
<1>2. /\ AuthorPage!ListsWhole' /\ v5' \in [AuthorPage!Text -> Request]
      /\ v5'[v3'].pc # "idle"
  <2>1. CASE v5[v3'].pc = "idle"
    BY <1>0, <1>1, <2>1, AskedIsWhole DEF Request
  <2>2. CASE v5[v3'].pc # "idle"
    BY <1>0, <1>1, <2>2, ListsStay
  <2> QED BY <2>1, <2>2
<1>3. /\ \E rows \in SUBSET AuthorPage!Author : v8' \in [rows -> BOOLEAN]
      /\ v4[v3'] # NoList => DOMAIN v8' \subseteq AuthorPage!Listed(v4[v3'])
  <2>1. CASE v4[v3'] # NoList
    <3>1. v4[v3'] \in Seq(AuthorPage!OnePage)
      BY <1>0, <1>1, <2>1 DEF AuthorPage!TypeOK
    <3>2. AuthorPage!Listed(v4[v3']) \in SUBSET AuthorPage!Author
      BY <3>1, ListedAuthors
    <3>3. v8' \in [AuthorPage!Listed(v4[v3']) -> BOOLEAN]
      BY <1>1, <2>1 DEF AuthorPage!Boxes
    <3> QED BY <3>2, <3>3
  <2>2. CASE v4[v3'] = NoList
    BY <1>0, <1>1, <2>2 DEF AuthorPage!TypeOK
  <2> QED BY <2>1, <2>2
<1>4. AuthorPage!BoxesOfList'
  BY <1>1, <1>2, <1>3 DEF AuthorPage!BoxesOfList, AuthorPage!Listed
<1>5. AuthorPage!TypeOK'
  BY <1>0, <1>1, <1>2, <1>3 DEF AuthorPage!TypeOK, Request
<1> QED BY <1>2, <1>4, <1>5 DEF AuthorPage!AuthorInv

\* Boxes are ticked.
LEMMA AuthorsTick ==
    ASSUME AuthorPage!AuthorInv, UNCHANGED <<v1, v2, v3, v4, v5, v6, v7, v9, v10, v11>>,
           NEW rows \in SUBSET AuthorPage!Author, v8 \in [rows -> BOOLEAN], v8' \in [rows -> BOOLEAN]
    PROVE  AuthorPage!AuthorInv'
<1>0. AuthorPage!TypeOK /\ AuthorPage!ListsWhole /\ AuthorPage!BoxesOfList
  BY DEF AuthorPage!AuthorInv
<1>1. AuthorPage!ListsWhole'
  BY <1>0, ListsStay
<1>2. DOMAIN v8 = rows /\ DOMAIN v8' = rows
  OBVIOUS
<1>3. AuthorPage!BoxesOfList'
  BY <1>0, <1>2 DEF AuthorPage!BoxesOfList, AuthorPage!Listed
<1>4. AuthorPage!TypeOK'
  BY <1>0 DEF AuthorPage!TypeOK
<1> QED BY <1>1, <1>3, <1>4 DEF AuthorPage!AuthorInv

\* What is ticked leaves the list, and is being deleted.
LEMMA AuthorsRemove ==
    ASSUME AuthorPage!AuthorBounds, AuthorPage!AuthorInv, AuthorPage!removeAuthorQuery
    PROVE  AuthorPage!AuthorInv'
<1>0. AuthorPage!TypeOK /\ AuthorPage!ListsWhole /\ AuthorPage!BoxesOfList
  BY DEF AuthorPage!AuthorInv
<1> DEFINE T == AuthorPage!ticked
           kept == AuthorPage!Without(v4[v3], T)
<1>1. PICK rows \in SUBSET AuthorPage!Author : v8 \in [rows -> BOOLEAN]
  BY <1>0 DEF AuthorPage!TypeOK
<1>2. T \subseteq AuthorPage!Author
  BY <1>1 DEF AuthorPage!ticked
<1>3. /\ v9' = v9 \union T /\ v3 \in AuthorPage!Text
      /\ UNCHANGED <<v1, v2, v3, v5, v6, v7, v10, v11>>
      /\ v4 \in [AuthorPage!Text -> {NoList} \union (Seq(AuthorPage!OnePage) \ {<<>>})]
      /\ NoList \notin Seq(AuthorPage!OnePage)
  BY <1>0 DEF AuthorPage!removeAuthorQuery, AuthorPage!authors, AuthorPage!TypeOK, AuthorPage!NoPages,
        AuthorPage!AuthorBounds
<1>4. IF v4[v3] = NoList THEN UNCHANGED <<v4, v8>>
      ELSE /\ v4' = [v4 EXCEPT ![v3] = kept]
           /\ v8' = AuthorPage!Boxes(AuthorPage!Listed(v4'[v3]))
  BY DEF AuthorPage!removeAuthorQuery
<1>5. v9 \subseteq v9' /\ v9' \subseteq AuthorPage!Author
  BY <1>0, <1>2, <1>3 DEF AuthorPage!TypeOK
<1>6. CASE v4[v3] = NoList
  <2>1. AuthorPage!ListsWhole'
    BY <1>0, <1>3, <1>4, <1>5, <1>6, ListsStay
  <2>2. AuthorPage!BoxesOfList' /\ AuthorPage!TypeOK'
    BY <1>0, <1>3, <1>4, <1>5, <1>6 DEF AuthorPage!BoxesOfList, AuthorPage!Listed, AuthorPage!TypeOK
  <2> QED BY <2>1, <2>2 DEF AuthorPage!AuthorInv
<1>7. CASE v4[v3] # NoList
  <2>1. v4[v3] \in Seq(AuthorPage!OnePage) /\ v4[v3] # <<>>
    BY <1>3, <1>7
  <2> HIDE DEF T
  <2>2. /\ kept \in Seq(AuthorPage!OnePage) \ {<<>>} /\ DOMAIN kept = DOMAIN v4[v3]
        /\ \A i \in DOMAIN v4[v3] : /\ kept[i].list = v4[v3][i].list \ T
                                    /\ kept[i].next = v4[v3][i].next
    <3> DEFINE n == Len(v4[v3])
    <3>1. n \in Nat \ {0} /\ DOMAIN v4[v3] = 1..n
      BY <2>1, LenProperties, EmptySeq
    <3>2. ASSUME NEW i \in 1..n
          PROVE  /\ kept[i] \in AuthorPage!OnePage
                 /\ kept[i].list = v4[v3][i].list \ T
                 /\ kept[i].next = v4[v3][i].next
      <4>1. v4[v3][i] \in AuthorPage!OnePage
        BY <2>1, ElementOfSeq
      <4> QED BY <4>1, <3>1 DEF AuthorPage!Without, AuthorPage!OnePage
    <3>3. kept \in [1..n -> AuthorPage!OnePage]
      BY <3>1, <3>2 DEF AuthorPage!Without
    <3>4. kept \in Seq(AuthorPage!OnePage) /\ kept # <<>>
      BY <3>1, <3>3
    <3> QED BY <3>1, <3>2, <3>3, <3>4
  <2> HIDE DEF kept
  <2>3. /\ v4'[v3] = kept
        /\ v4' \in [AuthorPage!Text -> {NoList} \union (Seq(AuthorPage!OnePage) \ {<<>>})]
        /\ \A u \in AuthorPage!Text : u # v3 => v4'[u] = v4[u]
    BY <1>3, <1>4, <1>7, <2>2
  <2>4. AuthorPage!ListsWhole'
    <3>1. ASSUME NEW u \in v11
          PROVE  v4'[u] # NoList /\ WholeNext(u, v4'[u])
      <4>1. v4[u] # NoList /\ WholeNext(u, v4[u]) /\ u \in AuthorPage!Text
        BY <1>0, <1>3, <1>5, WholeStays DEF AuthorPage!ListsWhole, AuthorPage!TypeOK
      <4>2. CASE u = v3
        BY <1>3, <2>2, <2>3, <4>1, <4>2 DEF WholeNext
      <4>3. CASE u # v3
        BY <2>3, <4>1, <4>3
      <4> QED BY <4>2, <4>3
    <3>2. \A u \in AuthorPage!Text : v5[u].clean => WholeNext(u, v5[u].got)
      BY <1>0, <1>3, <1>5, WholeStays DEF AuthorPage!ListsWhole
    <3> QED BY <1>3, <3>1, <3>2, ListsWholeNext
  <2>5. v8' = AuthorPage!Boxes(AuthorPage!Listed(kept)) /\ AuthorPage!Listed(kept) \in SUBSET AuthorPage!Author
    BY <1>4, <1>7, <2>2, <2>3, ListedAuthors
  <2>6. v8' \in [AuthorPage!Listed(kept) -> BOOLEAN] /\ DOMAIN v8' = AuthorPage!Listed(kept)
    BY <2>5 DEF AuthorPage!Boxes
  <2>7. AuthorPage!BoxesOfList'
    BY <1>3, <2>2, <2>3, <2>6 DEF AuthorPage!BoxesOfList, AuthorPage!Listed
  <2>8. AuthorPage!TypeOK'
    BY <1>0, <1>3, <1>5, <2>3, <2>5, <2>6 DEF AuthorPage!TypeOK, AuthorPage!NoPages
  <2> QED BY <2>4, <2>7, <2>8 DEF AuthorPage!AuthorInv
<1> QED BY <1>6, <1>7

\* The server changes, or may have.
LEMMA AuthorsChange ==
    ASSUME AuthorPage!AuthorInv, AuthorPage!OutOfDate,
           UNCHANGED <<v3, v4, v6, v7, v8>>, v9' \subseteq AuthorPage!Author,
           v1' \subseteq AuthorPage!Author, v2' \subseteq AuthorPage!Author, v10' \in 0..OneRequest
    PROVE  AuthorPage!AuthorInv'
<1>0. AuthorPage!TypeOK /\ AuthorPage!ListsWhole /\ AuthorPage!BoxesOfList
  BY DEF AuthorPage!AuthorInv
<1>1. /\ AuthorPage!ListsWhole' /\ v5' \in [AuthorPage!Text -> Request] /\ v11' = {}
      /\ \A u \in AuthorPage!Text : v5'[u].pc = v5[u].pc
  BY <1>0, OutOfDateWhole DEF Request
<1>2. AuthorPage!TypeOK'
  BY <1>0, <1>1 DEF AuthorPage!TypeOK, Request
<1>3. v3 \in AuthorPage!Text
  BY <1>0 DEF AuthorPage!TypeOK
<1>4. AuthorPage!BoxesOfList'
  BY <1>0, <1>1, <1>3 DEF AuthorPage!BoxesOfList, AuthorPage!Listed
<1> QED BY <1>1, <1>2, <1>4 DEF AuthorPage!AuthorInv

\* Every step of the page of authors keeps the invariant.
LEMMA AuthorsKept ==
    ASSUME AuthorPage!AuthorBounds, AuthorPage!AuthorInv, AuthorPage!Next
    PROVE  AuthorPage!AuthorInv'
<1>0. /\ v1 \subseteq AuthorPage!Author /\ v2 \subseteq AuthorPage!Author /\ v3 \in AuthorPage!Text
      /\ v9 \subseteq AuthorPage!Author /\ v10 \in 0..OneRequest /\ OneRequest \in Nat /\ v7 \in BOOLEAN
  BY DEF AuthorPage!AuthorInv, AuthorPage!TypeOK, AuthorPage!AuthorBounds
<1>1. ASSUME NEW t \in AuthorPage!Text, AuthorPage!FetchAnswered(t) \/ AuthorPage!FetchFails(t)
      PROVE  AuthorPage!AuthorInv'
  BY <1>1, AuthorsAnswered, AuthorsFail
<1>2. CASE AuthorPage!lastElementRef \/ AuthorPage!setSearchParams
  BY <1>2, AuthorsReadOn, AuthorsSearch
<1>3. CASE AuthorPage!Debounced
  BY <1>3, AuthorsAsk DEF AuthorPage!Debounced, AuthorPage!authors
<1>4. CASE AuthorPage!Focused
  BY <1>0, <1>4, AuthorsAsk DEF AuthorPage!Focused, AuthorPage!authors
<1>5. ASSUME NEW a \in AuthorPage!Author, AuthorPage!Tick(a)
      PROVE  AuthorPage!AuthorInv'
  <2>1. PICK rows \in SUBSET AuthorPage!Author : v8 \in [rows -> BOOLEAN]
    BY DEF AuthorPage!AuthorInv, AuthorPage!TypeOK
  <2>2. v8' \in [rows -> BOOLEAN]
    BY <1>5, <2>1 DEF AuthorPage!Tick
  <2> QED BY <1>5, <2>1, <2>2, AuthorsTick DEF AuthorPage!Tick, AuthorPage!authors
<1>6. CASE AuthorPage!TickAll
  <2>1. PICK rows \in SUBSET AuthorPage!Author : v8 \in [rows -> BOOLEAN]
    BY DEF AuthorPage!AuthorInv, AuthorPage!TypeOK
  <2>2. v8' \in [rows -> BOOLEAN]
    BY <1>6, <2>1 DEF AuthorPage!TickAll
  <2> QED BY <1>6, <2>1, <2>2, AuthorsTick DEF AuthorPage!TickAll, AuthorPage!authors
<1>7. CASE AuthorPage!removeAuthorQuery
  BY <1>7, AuthorsRemove
<1>8. ASSUME NEW a \in AuthorPage!Author, AuthorPage!DeleteAnswered(a)
      PROVE  AuthorPage!AuthorInv'
  BY <1>0, <1>8, AuthorsChange DEF AuthorPage!DeleteAnswered, AuthorPage!Changed
<1>9. ASSUME NEW a \in AuthorPage!Author, AuthorPage!createAuthor(a)
      PROVE  AuthorPage!AuthorInv'
  BY <1>0, <1>9, AuthorsChange DEF AuthorPage!createAuthor, AuthorPage!Changed
<1>10. ASSUME NEW a \in AuthorPage!Author, AuthorPage!updateAuthorQuery(a)
       PROVE  AuthorPage!AuthorInv'
  BY <1>0, <1>10, AuthorsChange DEF AuthorPage!updateAuthorQuery, AuthorPage!Changed
<1> QED BY <1>1, <1>2, <1>3, <1>4, <1>5, <1>6, <1>7, <1>8, <1>9, <1>10 DEF AuthorPage!Next

\* What the properties say.
LEMMA AuthorsRead ==
    ASSUME AuthorPage!AuthorBounds, AuthorPage!AuthorInv
    PROVE  AuthorPage!ReadToTheEnd /\ AuthorPage!DeletesWhatIsShown
<1>0. AuthorPage!TypeOK /\ AuthorPage!ListsWhole /\ AuthorPage!BoxesOfList
  BY DEF AuthorPage!AuthorInv
<1>1. AuthorPage!ReadToTheEnd
  <2> SUFFICES ASSUME v3 \in v11, v4[v3] # NoList, ~ AuthorPage!hasNextPage
               PROVE  AuthorPage!Matches(v3) \ v9 \subseteq AuthorPage!shown
    BY DEF AuthorPage!ReadToTheEnd
  <2>1. /\ v4[v3] \in Seq(AuthorPage!OnePage) /\ v4[v3] # <<>> /\ v3 \in AuthorPage!Text
        /\ AuthorPage!Whole(v3, v4[v3]) /\ ~ v4[v3][Len(v4[v3])].next
    BY <1>0 DEF AuthorPage!TypeOK, AuthorPage!NoPages, AuthorPage!ListsWhole, AuthorPage!hasNextPage
  <2> QED BY <1>0, <2>1, LastPageEnds DEF AuthorPage!shown
<1>2. AuthorPage!DeletesWhatIsShown
  <2>1. AuthorPage!ticked \subseteq DOMAIN v8
    BY DEF AuthorPage!ticked
  <2> QED BY <1>0, <2>1 DEF AuthorPage!DeletesWhatIsShown, AuthorPage!BoxesOfList, AuthorPage!isLoading,
             AuthorPage!shown
<1> QED BY <1>1, <1>2

\* Before the page has asked.
LEMMA AuthorsInitially ==
    ASSUME AuthorPage!AuthorBounds, AuthorPage!Init
    PROVE  AuthorPage!AuthorInv
<1>1. /\ v4 = [t \in AuthorPage!Text |-> NoList]
      /\ v5 = [t \in AuthorPage!Text |-> IF t = "" THEN AuthorPage!Asked ELSE AuthorPage!NoFetch]
      /\ v1 \subseteq AuthorPage!Author /\ v2 \subseteq AuthorPage!Author /\ v3 = ""
      /\ v6 = {} /\ v7 = FALSE /\ v8 = AuthorPage!Boxes({}) /\ v9 = {} /\ v10 = 0 /\ v11 = {}
  BY DEF AuthorPage!Init
<1>2. OneRequest \in Nat
  BY DEF AuthorPage!AuthorBounds
<1>3. AuthorPage!Asked = [pc |-> "all", got |-> <<>>, clean |-> TRUE]
      /\ AuthorPage!NoFetch = [pc |-> "idle", got |-> <<>>, clean |-> FALSE]
  BY DEF AuthorPage!Asked, AuthorPage!NoFetch, AuthorPage!NoPages
<1>4. "" \in AuthorPage!Text
  BY DEF AuthorPage!Text
<1>5. v4 \in [AuthorPage!Text -> {NoList} \union (Seq(AuthorPage!OnePage) \ {AuthorPage!NoPages})]
  BY ONLY <1>1
<1>6. v5 \in [AuthorPage!Text -> [pc : {"idle", "all", "next"}, got : Seq(AuthorPage!OnePage),
                                  clean : BOOLEAN]]
  <2>1. <<>> \in Seq(AuthorPage!OnePage)
    OBVIOUS
  <2> QED BY ONLY <1>1, <1>3, <2>1
<1>7. \E rows \in SUBSET AuthorPage!Author : v8 \in [rows -> BOOLEAN]
  <2>1. {} \in SUBSET AuthorPage!Author /\ v8 \in [{} -> BOOLEAN]
    BY <1>1 DEF AuthorPage!Boxes
  <2> QED BY ONLY <2>1
<1>8. v10 \in 0..OneRequest
  <2>1. v10 = 0
    BY <1>1
  <2> QED BY ONLY <1>2, <2>1
<1>9. AuthorPage!TypeOK
  BY <1>1, <1>4, <1>5, <1>6, <1>7, <1>8, Zenon DEF AuthorPage!TypeOK
<1>10. AuthorPage!ListsWhole
  <2>1. \A t \in AuthorPage!Text : v5[t].got = <<>>
    BY ONLY <1>1, <1>3
  <2>2. \A t \in AuthorPage!Text : AuthorPage!Whole(t, <<>>)
    BY DEF AuthorPage!Whole
  <2> QED BY <1>1, <2>1, <2>2 DEF AuthorPage!ListsWhole
<1>11. AuthorPage!BoxesOfList
  BY <1>1, <1>3, <1>4 DEF AuthorPage!BoxesOfList
<1> QED BY <1>9, <1>10, <1>11 DEF AuthorPage!AuthorInv

-----------------------------------------------------------------------------
(* The page of a note (NoteViewer): v2 is the note, v3 its file, v5 and v7  *)
(* the file and the number under way, v8 the notes a number was asked for,  *)
(* v9 those that have one, v11 says that two of them crossed.               *)

\* Before a note is chosen.
LEMMA ViewerInitially ==
    ASSUME Viewer!Nulls, Viewer!Init
    PROVE  Viewer!ViewerInv
BY DEF Viewer!Nulls, Viewer!Init, Viewer!ViewerInv, Viewer!TypeOK, Viewer!OwnNoteOnly, Viewer!OfThisNote,
   Viewer!NoLoad, Viewer!NoFile, Viewer!pdfLoading, Viewer!isPending

\* Every step of the page, and every answer it still gets, keeps the invariant.
LEMMA ViewerKept ==
    ASSUME Viewer!Nulls, Viewer!ViewerInv, Viewer!Next
    PROVE  Viewer!ViewerInv'
<1>0. /\ Viewer!TypeOK /\ Viewer!OwnNoteOnly /\ Viewer!OfThisNote
      /\ Saved \subseteq Viewed /\ NoNote \notin Viewed
  BY DEF Viewer!Nulls, Viewer!ViewerInv
<1> USE DEF Viewer!TypeOK, Viewer!OwnNoteOnly, Viewer!OfThisNote, Viewer!pdfLoading, Viewer!isPending
<1> SUFFICES Viewer!TypeOK' /\ Viewer!OwnNoteOnly' /\ Viewer!OfThisNote'
  BY DEF Viewer!ViewerInv
<1>1. ASSUME NEW n \in Viewed, Viewer!navigate(n)
      PROVE  Viewer!TypeOK' /\ Viewer!OwnNoteOnly' /\ Viewer!OfThisNote'
  <2>1. /\ v2' = n /\ v3' = NoNote /\ v4' = FALSE /\ v6' = NoNote
        /\ UNCHANGED <<v1, v5, v10, v7, v8, v9>>
    BY <1>1 DEF Viewer!navigate
  <2>2. v11' \in BOOLEAN /\ (~ v11' => ~ v11 /\ ~ Viewer!pdfLoading /\ ~ Viewer!isPending)
    BY <1>0, <1>1, Zenon DEF Viewer!navigate
  <2>3. Viewer!TypeOK'
    BY <1>0, <2>1, <2>2
  <2> QED BY <1>0, <2>1, <2>2, <2>3
<1>2. CASE Viewer!CopyFound \/ Viewer!Connectivity
  <2>1. /\ UNCHANGED <<v2, v3, v4, v5, v7, v8, v9, v10, v11>>
        /\ v6' \in Saved \union {NoNote}
    BY <1>0, <1>2, Zenon DEF Viewer!CopyFound, Viewer!Connectivity, Viewer!viewer
  <2>2. v1' \in BOOLEAN
    BY <1>0, <1>2, Zenon DEF Viewer!CopyFound, Viewer!Connectivity
  <2>3. Viewer!TypeOK'
    BY <1>0, <2>1, <2>2
  <2>4. Viewer!OwnNoteOnly'
    BY <1>0, <2>1
  <2>5. Viewer!OfThisNote'
    BY <1>0, <2>1
  <2> QED BY <2>3, <2>4, <2>5
<1>3. CASE Viewer!onTogglePdf
  <2>1. /\ UNCHANGED <<v1, v2, v3, v10, v6, v7, v8, v9, v11>>
        /\ \/ v4' = FALSE /\ v5' = v5
           \/ v3 # NoNote /\ v4' = TRUE /\ v5' = v5
           \/ v4' = v4 /\ v5' = [note |-> v2, then |-> "show"]
    BY <1>3 DEF Viewer!onTogglePdf
  <2>2. Viewer!TypeOK'
    <3>1. v4' \in BOOLEAN /\ (v4' => v3' # NoNote)
      <4>1. v3' = v3
        BY <2>1
      <4>2. v4 \in BOOLEAN /\ (v4 => v3 # NoNote)
        BY <1>0, Zenon
      <4>3. v4' = FALSE \/ (v4' = TRUE /\ v3 # NoNote) \/ v4' = v4
        BY <2>1, Zenon
      <4>4. CASE v4' = FALSE
        BY ONLY <4>4
      <4>5. CASE v4' = TRUE /\ v3 # NoNote
        BY ONLY <4>5, <4>1
      <4>6. CASE v4' = v4
        BY ONLY <4>6, <4>1, <4>2, Zenon
      <4> QED BY ONLY <4>3, <4>4, <4>5, <4>6
    <3>2. v5' \in [note: Viewed, then: {"show", "download"}] \union {Viewer!NoLoad}
      BY <1>0, <2>1
    <3> QED BY <1>0, <2>1, <3>1, <3>2, Zenon
  <2>3. Viewer!OwnNoteOnly'
    BY <1>0, <2>1, Zenon
  <2>4. v5' = v5 \/ v5'.note = v2
    BY ONLY <2>1
  <2>5. Viewer!OfThisNote'
    BY <1>0, <2>1, <2>4
  <2> QED BY <2>2, <2>3, <2>5
<1>4. CASE Viewer!onDownloadPdf
  BY <1>0, <1>4 DEF Viewer!onDownloadPdf, Viewer!Available, Viewer!NoLoad, Viewer!Named
<1>5. CASE Viewer!loadPdf
  BY <1>0, <1>5 DEF Viewer!loadPdf, Viewer!NoLoad
<1>6. CASE Viewer!LoadFails
  BY <1>0, <1>6 DEF Viewer!LoadFails
<1>7. CASE Viewer!assignNumber
  BY <1>0, <1>7 DEF Viewer!assignNumber, Viewer!viewer
<1>8. CASE Viewer!Resume
  BY <1>0, <1>8 DEF Viewer!Resume, Viewer!viewer
<1>9. CASE Viewer!NumberAssigned
  <2>1. /\ UNCHANGED <<v1, v2, v3, v4, v5, v6, v8, v10, v11>>
        /\ v7.pc = "sent" /\ v7' = [pc |-> "none", note |-> NoNote]
        /\ v9' \in {v9, v9 \union {v7.note}}
    BY <1>9 DEF Viewer!NumberAssigned, Viewer!viewer
  <2>2. ~ v11 => v7.note \in v8
    BY <1>0, <2>1
  <2>3. v7.note \in Viewed
    <3>1. v7 # [pc |-> "none", note |-> NoNote]
      BY <2>1
    <3>2. v7 \in [pc: {"paused", "sent"}, note: Viewed] \union {[pc |-> "none", note |-> NoNote]}
      BY <1>0
    <3> QED BY ONLY <3>1, <3>2
  <2> QED BY <1>0, <2>1, <2>2, <2>3
<1> QED BY <1>1, <1>2, <1>3, <1>4, <1>5, <1>6, <1>7, <1>8, <1>9 DEF Viewer!Next

-----------------------------------------------------------------------------
(* Founding a club (ClubFounding): v3 are the requests, v5 the clubs at the *)
(* server, v6 the club on the card, v7 the list, v8 the one under way, v10  *)
(* the invitations under way, v11 says that the form was sent again.        *)

\* Before the form is filled in.
LEMMA FoundingInitially ==
    ASSUME Founding!FoundingNulls, Founding!Init
    PROVE  Founding!FoundingInv
<1> USE DEF Founding!Init, Founding!FoundingNulls
<1>1. Founding!TypeOK
  <2>1. v11 = FALSE /\ v12 = FALSE
    OBVIOUS
  <2>2. {v11, v12} \subseteq BOOLEAN
    BY ONLY <2>1
  <2>3. v10 \in [club : TwoCalls \union {NoClub}, emails : SUBSET Founding!Address]
    BY DEF Founding!NoInvite
  <2>4. v8 \in [pc : {"idle", "asked", "read"}, got : SUBSET TwoCalls]
    BY DEF Founding!NoFetch
  <2> QED BY <2>2, <2>3, <2>4 DEF Founding!TypeOK, Founding!Step
<1>2. Founding!ListHasClub /\ Founding!ListFollows /\ Founding!InvitesToShownClub /\ Founding!InvitesOnCard
  BY DEF Founding!ListHasClub, Founding!ListFollows, Founding!InvitesToShownClub, Founding!InvitesOnCard,
     Founding!NoFetch
<1>3. Founding!SentOnce
  BY DEF Founding!SentOnce
<1> QED BY <1>1, <1>2, <1>3 DEF Founding!FoundingInv

\* Every step of the form, its requests, the list and the invitations keeps it.
LEMMA FoundingKept ==
    ASSUME Founding!FoundingNulls, Founding!FoundingInv, Founding!Next
    PROVE  Founding!FoundingInv'
<1>0. /\ Founding!TypeOK /\ Founding!ListHasClub /\ Founding!ListFollows
      /\ Founding!SentOnce /\ Founding!InvitesToShownClub /\ Founding!InvitesOnCard
      /\ NoClub \notin TwoCalls /\ NoRequest \notin TwoCalls
  BY DEF Founding!FoundingNulls, Founding!FoundingInv
<1> DEFINE Goal == Founding!FoundingInv'
<1>1. CASE Founding!Fill \/ Founding!onNext \/ Founding!GoTo
  <2>1. UNCHANGED <<v3, v4, v5, v6, v7, v8, v9, v10>> /\ v11' = v11 /\ v12' = v12
    BY <1>1 DEF Founding!Fill, Founding!onNext, Founding!GoTo, Founding!posts, Founding!list, Founding!invites
  <2>2. v1' \in Founding!Step /\ v2' \subseteq Founding!Step
    <3>1. v1 \in 0..2 /\ v2 \subseteq 0..2
      BY <1>0 DEF Founding!TypeOK, Founding!Step
    <3>2. /\ v1' = v1 \/ (v1 < 2 /\ v1' = v1 + 1) \/ v1' \in 0..2
          /\ v2' \subseteq v2 \union {v1}
      BY <1>1 DEF Founding!Fill, Founding!onNext, Founding!GoTo, Founding!Step
    <3>3. v1' \in 0..2
      BY ONLY <3>1, <3>2
    <3>4. v2' \subseteq 0..2
      BY ONLY <3>1, <3>2
    <3> QED BY ONLY <3>3, <3>4 DEF Founding!Step
  <2>3. Founding!TypeOK'
    BY <1>0, <2>1, <2>2 DEF Founding!TypeOK
  <2>4. Founding!ListHasClub' /\ Founding!ListFollows' /\ Founding!InvitesOnCard'
    BY <1>0, <2>1 DEF Founding!ListHasClub, Founding!ListFollows, Founding!InvitesOnCard
  <2>5. Founding!SentOnce' /\ Founding!InvitesToShownClub'
    BY <1>0, <2>1 DEF Founding!SentOnce, Founding!InvitesToShownClub
  <2> QED BY <2>3, <2>4, <2>5 DEF Founding!FoundingInv
<1>2. ASSUME NEW p \in TwoCalls, Founding!onSubmit(p)
      PROVE  Goal
  <2>1. /\ UNCHANGED <<v1, v2, v5, v6, v7, v8, v9, v10>> /\ v12' = v12
        /\ v3' = [v3 EXCEPT ![p] = "sent"] /\ v4' = p /\ v6 = NoClub
    BY <1>2 DEF Founding!onSubmit, Founding!form, Founding!list, Founding!invites
  <2>2. /\ v11' \in BOOLEAN
        /\ ~ v11' => /\ ~ v11 /\ ~ ("sent" \in {v3[q] : q \in TwoCalls})
                     /\ {"bare", "led"} \intersect {v5[k] : k \in TwoCalls} = {}
    BY <1>0, <1>2, Zenon DEF Founding!onSubmit
  <2>3. Founding!TypeOK'
    BY <1>0, <2>1, <2>2 DEF Founding!TypeOK
  <2>4. Founding!ListHasClub' /\ Founding!ListFollows' /\ Founding!InvitesOnCard'
    BY <1>0, <2>1 DEF Founding!ListHasClub, Founding!ListFollows, Founding!InvitesOnCard
  <2>5. ASSUME ~ v11' PROVE /\ \A q \in TwoCalls : v3[q] # "sent" /\ v5[q] = "none"
    BY <1>0, <2>2, <2>5 DEF Founding!TypeOK
  <2>6. Founding!SentOnce'
    BY <1>0, <2>1, <2>5 DEF Founding!SentOnce, Founding!TypeOK
  <2>7. Founding!InvitesToShownClub'
    BY <1>0, <2>1 DEF Founding!InvitesToShownClub, Founding!InvitesOnCard
  <2> QED BY <2>3, <2>4, <2>6, <2>7 DEF Founding!FoundingInv
<1>3. ASSUME NEW p \in TwoCalls, Founding!ClubCreated(p)
      PROVE  Goal
  <2>1. /\ UNCHANGED <<v1, v2, v4, v7, v9, v10>> /\ v11' = v11 /\ v12' = v12
        /\ v3[p] = "sent" /\ v3' = [v3 EXCEPT ![p] = "idle"]
        /\ v8' = [pc |-> "asked", got |-> {}]
    BY <1>3 DEF Founding!ClubCreated, Founding!form, Founding!invites, Founding!Invalidated, Founding!Asked
  <2>2. PICK k \in TwoCalls : v5[k] = "none" /\ v5' = [v5 EXCEPT ![k] = "led"] /\ v6' = k
    BY <1>3 DEF Founding!ClubCreated
  <2>3. Founding!TypeOK'
    BY <1>0, <2>1, <2>2 DEF Founding!TypeOK
  <2>4. Founding!ListHasClub' /\ Founding!ListFollows' /\ Founding!InvitesOnCard'
    BY <1>0, <2>1, <2>2 DEF Founding!ListHasClub, Founding!ListFollows, Founding!InvitesOnCard, Founding!TypeOK
  <2>5. Founding!SentOnce'
    BY <1>0, <2>1, <2>2 DEF Founding!SentOnce, Founding!TypeOK
  <2>6. Founding!InvitesToShownClub'
    <3>1. v11 \/ v6 = NoClub
      BY <1>0, <2>1 DEF Founding!SentOnce, Founding!ListFollows, Founding!TypeOK
    <3> QED BY <1>0, <2>1, <3>1 DEF Founding!InvitesToShownClub, Founding!InvitesOnCard, Founding!NoInvite
  <2> QED BY <2>3, <2>4, <2>5, <2>6 DEF Founding!FoundingInv
<1>4. ASSUME NEW p \in TwoCalls, Founding!PostFails(p)
      PROVE  Goal
  <2>1. /\ UNCHANGED <<v1, v2, v4, v6, v7, v8, v9, v10>> /\ v11' = v11 /\ v12' = v12
        /\ v3[p] = "sent" /\ v3' = [v3 EXCEPT ![p] = "idle"]
    BY <1>4 DEF Founding!PostFails, Founding!form, Founding!invites, Founding!list
  <2>2. \/ v5' = v5
        \/ \E k \in TwoCalls : v5[k] = "none" /\ \E new \in {"bare", "led"} : v5' = [v5 EXCEPT ![k] = new]
    BY <1>4 DEF Founding!PostFails
  <2>3. Founding!TypeOK'
    BY <1>0, <2>1, <2>2 DEF Founding!TypeOK
  <2>4. Founding!ListHasClub' /\ Founding!ListFollows' /\ Founding!InvitesOnCard'
    <3>1. \A k \in TwoCalls : v5[k] = "led" => v5'[k] = "led"
      BY <1>0, <2>2 DEF Founding!TypeOK
    <3> QED BY <1>0, <2>1, <3>1 DEF Founding!ListHasClub, Founding!ListFollows, Founding!InvitesOnCard,
               Founding!TypeOK
  <2>5. Founding!SentOnce'
    BY <1>0, <2>1, <2>2 DEF Founding!SentOnce, Founding!TypeOK
  <2>6. Founding!InvitesToShownClub'
    BY <1>0, <2>1 DEF Founding!InvitesToShownClub
  <2> QED BY <2>3, <2>4, <2>5, <2>6 DEF Founding!FoundingInv
<1>5. CASE Founding!ListRead \/ Founding!ListAnswered \/ Founding!ListFails \/ Founding!Focused
  <2>1. UNCHANGED <<v1, v2, v3, v4, v5, v6, v9, v10>> /\ v11' = v11
    BY <1>5 DEF Founding!ListRead, Founding!ListAnswered, Founding!ListFails, Founding!Focused, Founding!form,
       Founding!posts, Founding!invites
  <2>2. Founding!SentOnce' /\ Founding!InvitesToShownClub' /\ Founding!InvitesOnCard'
    BY <1>0, <2>1 DEF Founding!SentOnce, Founding!InvitesToShownClub, Founding!InvitesOnCard
  <2>3. \/ v8' = [pc |-> "read", got |-> {k \in TwoCalls : v5[k] = "led"}] /\ v7' = v7 /\ v12' = v12
        \/ v8.pc = "read" /\ v7' = v8.got /\ v8' = Founding!NoFetch /\ v12' = FALSE
        \/ v8' = Founding!NoFetch /\ v12' = TRUE /\ v7' = v7
        \/ v8' = Founding!Asked /\ v7' = v7 /\ v12' = v12
    BY <1>5 DEF Founding!ListRead, Founding!ListAnswered, Founding!ListFails, Founding!Focused
  <2>4. Founding!TypeOK' /\ Founding!ListHasClub' /\ Founding!ListFollows'
    <3> USE DEF Founding!TypeOK, Founding!ListHasClub, Founding!ListFollows, Founding!NoFetch, Founding!Asked
    <3>1. CASE v8' = [pc |-> "read", got |-> {k \in TwoCalls : v5[k] = "led"}] /\ v7' = v7 /\ v12' = v12
      BY <1>0, <2>1, <3>1
    <3>2. CASE v8.pc = "read" /\ v7' = v8.got /\ v8' = Founding!NoFetch /\ v12' = FALSE
      BY <1>0, <2>1, <3>2
    <3>3. CASE v8' = Founding!NoFetch /\ v12' = TRUE /\ v7' = v7
      BY <1>0, <2>1, <3>3
    <3>4. CASE v8' = Founding!Asked /\ v7' = v7 /\ v12' = v12
      BY <1>0, <2>1, <3>4
    <3> QED BY <2>3, <3>1, <3>2, <3>3, <3>4
  <2> QED BY <2>2, <2>4 DEF Founding!FoundingInv
<1>6. CASE Founding!Type \/ Founding!onInvite \/ Founding!InviteAnswered \/ Founding!InviteFails
  <2>1. UNCHANGED <<v1, v2, v3, v4, v5, v6, v7, v8>> /\ v11' = v11 /\ v12' = v12
    BY <1>6 DEF Founding!Type, Founding!onInvite, Founding!InviteAnswered, Founding!InviteFails, Founding!form,
       Founding!posts, Founding!list
  <2>2. /\ v9' \subseteq Founding!Address
        /\ \/ v10' = v10 \/ v10' = Founding!NoInvite
           \/ v6 # NoClub /\ v10' = [club |-> v6, emails |-> v9]
    BY <1>0, <1>6 DEF Founding!Type, Founding!onInvite, Founding!InviteAnswered, Founding!InviteFails,
       Founding!TypeOK
  <2>3. Founding!TypeOK'
    BY <1>0, <2>1, <2>2 DEF Founding!TypeOK, Founding!NoInvite
  <2>4. Founding!ListHasClub' /\ Founding!ListFollows' /\ Founding!SentOnce'
    BY <1>0, <2>1 DEF Founding!ListHasClub, Founding!ListFollows, Founding!SentOnce
  <2>5. Founding!InvitesToShownClub' /\ Founding!InvitesOnCard'
    BY <1>0, <2>1, <2>2 DEF Founding!InvitesToShownClub, Founding!InvitesOnCard
  <2> QED BY <2>3, <2>4, <2>5 DEF Founding!FoundingInv
<1> QED BY <1>1, <1>2, <1>3, <1>4, <1>5, <1>6 DEF Founding!Next

\* The module's size of a set is the library's.
LEMMA FoundingSize == \A S : Founding!Cardinality(S) = Cardinality(S)
BY DEF Founding!Cardinality, Cardinality, Founding!IsFiniteSet, IsFiniteSet

\* Unless the form was sent again there is one club at most.
LEMMA FoundingOneClub ==
    ASSUME Founding!FoundingInv
    PROVE  Founding!OneClub
<1> DEFINE There == {k \in TwoCalls : v5[k] # "none"}
<1> SUFFICES ASSUME ~ v11 PROVE Cardinality(There) <= 1
  BY FoundingSize DEF Founding!OneClub
<1>1. CASE There = {}
  BY <1>1, FS_EmptySet
<1>2. ASSUME NEW k \in There PROVE Cardinality(There) <= 1
  <2>1. There = {k}
    BY <1>2 DEF Founding!FoundingInv, Founding!SentOnce
  <2>2. Cardinality({k}) = 1
    BY FS_Singleton
  <2> QED BY ONLY <2>1, <2>2
<1> QED BY <1>1, <1>2

-----------------------------------------------------------------------------
(* The codes on the covers (MappeTags): v2 is the table of the tags, v3 how *)
(* many there are, v4 the rows, v5 the requests under way, v6 the covers    *)
(* that were printed, v7 what was scanned.                                  *)

\* Before a tag is made.
LEMMA TagsInitially ==
    ASSUME TagRows!TagBounds, TagRows!Init
    PROVE  TagRows!TagInv
<1> USE DEF TagRows!Init, TagRows!TagBounds
<1>1. TagRows!TypeOK
  BY DEF TagRows!TypeOK, TagRows!Empty, TagRows!NoBind, TagRows!NoLink
<1>2. TagRows!OneFolder
  <2>1. ASSUME NEW t \in TagRows!Tag, NEW f \in Folder PROVE ~ TagRows!CodeOf(t, f)
    BY DEF TagRows!CodeOf, TagRows!Empty, TagRows!NoBind
  <2> QED BY <2>1 DEF TagRows!OneFolder
<1>3. TagRows!OnACover
  BY DEF TagRows!OnACover, TagRows!NoLink
<1> QED BY <1>1, <1>2, <1>3 DEF TagRows!TagInv

\* CodeOf after the step.
CodeNext(t, f) ==
    \/ <<t, f>> \in v2' \union v6'
    \/ f \in Folder /\ v4'[f].qr = t
    \/ \E c \in TwoCalls : v5'[c].tag = t /\ v5'[c].folder = f

\* A tag is one folder's after the step when its codes are,
LEMMA OneFolderNext ==
    ASSUME \A t \in TagRows!Tag, f, g \in Folder : CodeNext(t, f) /\ CodeNext(t, g) => f = g,
           \A t \in TagRows!Tag, f \in Folder : t > v3' => ~ CodeNext(t, f)
    PROVE  TagRows!OneFolder'
BY DEF TagRows!OneFolder, TagRows!CodeOf, CodeNext, TagRows!Tag

\* as they are when the step moves codes and makes no tag.
LEMMA OneFolderStays ==
    ASSUME TagRows!OneFolder, v3' = v3,
           \A t \in TagRows!Tag, f \in Folder : CodeNext(t, f) => TagRows!CodeOf(t, f)
    PROVE  TagRows!OneFolder'
<1>1. ASSUME NEW t \in TagRows!Tag, NEW f \in Folder, NEW g \in Folder, CodeNext(t, f), CodeNext(t, g)
      PROVE  f = g
  <2>1. TagRows!CodeOf(t, f) /\ TagRows!CodeOf(t, g)
    BY <1>1
  <2> QED BY <2>1 DEF TagRows!OneFolder
<1>2. ASSUME NEW t \in TagRows!Tag, NEW f \in Folder, t > v3', CodeNext(t, f)
      PROVE  FALSE
  <2>1. TagRows!CodeOf(t, f)
    BY <1>2
  <2>2. t > v3
    BY <1>2
  <2> QED BY <2>1, <2>2 DEF TagRows!OneFolder
<1> QED BY <1>1, <1>2, OneFolderNext

TagBind == [pc : {"idle", "delete", "insert", "answer", "render"}, folder : Folder \union {NoTag},
            tag : TagRows!Tag \union {NoTag}, shown : BOOLEAN]

\* A request goes on.
LEMMA BindSet ==
    ASSUME TagRows!TypeOK, NEW c \in TwoCalls, NEW b \in TagBind, b.pc # "idle" => b.folder \in Folder,
           v5' = [v5 EXCEPT ![c] = b]
    PROVE  /\ v5' \in [TwoCalls -> TagBind]
           /\ \A d \in TwoCalls : v5'[d].pc # "idle" => v5'[d].folder \in Folder
           /\ \A d \in TwoCalls : v5'[d] = IF d = c THEN b ELSE v5[d]
<1>1. v5 \in [TwoCalls -> TagBind] /\ \A d \in TwoCalls : v5[d].pc # "idle" => v5[d].folder \in Folder
  BY DEF TagRows!TypeOK, TagBind
<1>2. v5' \in [TwoCalls -> TagBind] /\ \A d \in TwoCalls : v5'[d] = IF d = c THEN b ELSE v5[d]
  BY ONLY <1>1, v5' = [v5 EXCEPT ![c] = b], b \in TagBind, c \in TwoCalls
<1> QED BY ONLY <1>1, <1>2, b.pc # "idle" => b.folder \in Folder

\* A request goes on to its next statement,
LEMMA BindStep ==
    ASSUME TagRows!TypeOK, NEW c \in TwoCalls, NEW pc
    PROVE  [v5 EXCEPT ![c].pc = pc]
              = [v5 EXCEPT ![c] = [pc |-> pc, folder |-> v5[c].folder, tag |-> v5[c].tag,
                                   shown |-> v5[c].shown]]
<1>1. v5 \in [TwoCalls -> TagBind]
  BY DEF TagRows!TypeOK, TagBind
<1>2. v5[c] \in [pc : {"idle", "delete", "insert", "answer", "render"}, folder : Folder \union {NoTag},
                 tag : TagRows!Tag \union {NoTag}, shown : BOOLEAN]
  BY <1>1 DEF TagBind
<1>3. [v5[c] EXCEPT !.pc = pc] = [pc |-> pc, folder |-> v5[c].folder, tag |-> v5[c].tag,
                                  shown |-> v5[c].shown]
  BY ONLY <1>2
<1> QED BY ONLY <1>1, <1>3

\* or there with the tag that was made.
LEMMA BindMade ==
    ASSUME TagRows!TypeOK, NEW c \in TwoCalls, NEW pc, NEW t
    PROVE  [v5 EXCEPT ![c].pc = pc, ![c].tag = t]
              = [v5 EXCEPT ![c] = [pc |-> pc, folder |-> v5[c].folder, tag |-> t,
                                   shown |-> v5[c].shown]]
<1>1. v5 \in [TwoCalls -> TagBind]
  BY DEF TagRows!TypeOK, TagBind
<1>2. v5[c] \in [pc : {"idle", "delete", "insert", "answer", "render"}, folder : Folder \union {NoTag},
                 tag : TagRows!Tag \union {NoTag}, shown : BOOLEAN]
  BY <1>1 DEF TagBind
<1>3. [v5 EXCEPT ![c].pc = pc]
         = [v5 EXCEPT ![c] = [pc |-> pc, folder |-> v5[c].folder, tag |-> v5[c].tag,
                              shown |-> v5[c].shown]]
  BY BindStep
<1> DEFINE w == [v5 EXCEPT ![c].pc = pc]
<1>4. w[c] = [pc |-> pc, folder |-> v5[c].folder, tag |-> v5[c].tag, shown |-> v5[c].shown]
  BY ONLY <1>1, <1>3
<1>5. [v5 EXCEPT ![c].pc = pc, ![c].tag = t] = [w EXCEPT ![c] = [w[c] EXCEPT !.tag = t]]
  OBVIOUS
<1>6. [w[c] EXCEPT !.tag = t] = [pc |-> pc, folder |-> v5[c].folder, tag |-> t, shown |-> v5[c].shown]
  BY ONLY <1>4
<1> HIDE DEF w
<1>7. w = [v5 EXCEPT ![c] = [pc |-> pc, folder |-> v5[c].folder, tag |-> v5[c].tag,
                              shown |-> v5[c].shown]]
  BY <1>3 DEF w
<1> QED BY ONLY <1>1, <1>5, <1>6, <1>7

\* The codes on the rows: what an answer leaves of them.
TagRow == [url : TagRows!Tag \union {NoTag}, qr : TagRows!Tag \union {NoTag}]

\* An answer leaves the image of the code on a row alone.
LEMMA RowSet ==
    ASSUME v4 \in [Folder -> TagRow], NEW f \in Folder, NEW t \in TagRows!Tag \union {NoTag},
           v4' = v4 \/ v4' = [v4 EXCEPT ![f].url = t]
    PROVE  v4' \in [Folder -> TagRow] /\ \A g \in Folder : v4'[g].qr = v4[g].qr
<1>1. CASE v4' = v4
  BY <1>1
<1>2. CASE v4' = [v4 EXCEPT ![f].url = t]
  <2>1. v4[f] \in TagRow
    OBVIOUS
  <2>2. [v4[f] EXCEPT !.url = t] \in TagRow /\ [v4[f] EXCEPT !.url = t].qr = v4[f].qr
    BY <2>1 DEF TagRow
  <2> QED BY <1>2, <2>2
<1> QED BY <1>1, <1>2

\* A row that is gone.
LEMMA BindGone ==
    ASSUME NEW b \in TagBind, NEW gone
    PROVE  [b EXCEPT !.shown = gone]
              = [pc |-> b.pc, folder |-> b.folder, tag |-> b.tag, shown |-> gone]
BY DEF TagBind

\* Every step of the dialog, its requests and the scan keeps the invariant.
LEMMA TagsKept ==
    ASSUME TagRows!TagBounds, TagRows!TagInv, TagRows!Next
    PROVE  TagRows!TagInv'
<1>0. /\ TagRows!TypeOK /\ TagRows!OneFolder /\ TagRows!OnACover
      /\ MaxTags \in Nat /\ NoTag \notin TagRows!Tag
  BY DEF TagRows!TagInv, TagRows!TagBounds
<1> DEFINE Goal == TagRows!TypeOK' /\ TagRows!OneFolder' /\ TagRows!OnACover'
<1> SUFFICES Goal
  BY DEF TagRows!TagInv
<1>a. \A c \in TwoCalls : v5[c] \in TagBind /\ (v5[c].pc # "idle" => v5[c].folder \in Folder)
  BY <1>0 DEF TagRows!TypeOK, TagBind
<1>1. ASSUME NEW c \in TwoCalls, NEW f \in Folder, TagRows!bindTag(c, f)
      PROVE  Goal
  <2> DEFINE b == [pc |-> "delete", folder |-> f, tag |-> NoTag, shown |-> TRUE]
  <2>1. UNCHANGED <<v1, v2, v3, v4, v6, v7>> /\ v5' = [v5 EXCEPT ![c] = b]
    BY <1>1 DEF TagRows!bindTag
  <2>2. b \in TagBind /\ (b.pc # "idle" => b.folder \in Folder)
    BY <1>0, <1>a, <2>1 DEF TagBind
  <2> HIDE DEF b
  <2>3. /\ v5' \in [TwoCalls -> TagBind]
        /\ \A d \in TwoCalls : v5'[d].pc # "idle" => v5'[d].folder \in Folder
        /\ \A d \in TwoCalls : v5'[d] = IF d = c THEN b ELSE v5[d]
    BY <1>0, <2>1, <2>2, BindSet
  <2>a. v8' = v8 \ {f} \/ v8' = v8 \union {f}
    BY <1>1 DEF TagRows!bindTag
  <2>4. TagRows!TypeOK'
    BY <1>0, <2>1, <2>3, <2>a DEF TagRows!TypeOK, TagBind
  <2>5. ASSUME NEW t \in TagRows!Tag, NEW g \in Folder, CodeNext(t, g) PROVE TagRows!CodeOf(t, g)
    BY <1>0, <2>1, <2>3, <2>5 DEF TagRows!CodeOf, CodeNext, b
  <2> QED BY <1>0, <2>1, <2>4, <2>5, OneFolderStays DEF TagRows!OnACover
<1>2. ASSUME NEW c \in TwoCalls, TagRows!DeleteMappeTagForFolder(c)
      PROVE  Goal
  <2> DEFINE b == [pc |-> "insert", folder |-> v5[c].folder, tag |-> v5[c].tag, shown |-> v5[c].shown]
  <2>1. /\ UNCHANGED <<v1, v3, v4, v6, v7, v8>> /\ v5[c].pc = "delete"
        /\ v2' = {t \in v2 : t[2] # v5[c].folder} /\ v5' = [v5 EXCEPT ![c] = b]
    BY <1>0, <1>2, BindStep DEF TagRows!DeleteMappeTagForFolder
  <2>2. b \in TagBind /\ (b.pc # "idle" => b.folder \in Folder)
    BY <1>0, <1>a, <2>1 DEF TagBind
  <2> HIDE DEF b
  <2>3. /\ v5' \in [TwoCalls -> TagBind]
        /\ \A d \in TwoCalls : v5'[d].pc # "idle" => v5'[d].folder \in Folder
        /\ \A d \in TwoCalls : v5'[d] = IF d = c THEN b ELSE v5[d]
    BY <1>0, <2>1, <2>2, BindSet
  <2>4. TagRows!TypeOK'
    BY <1>0, <1>a, <2>1, <2>3 DEF TagRows!TypeOK, TagBind
  <2>5. ASSUME NEW t \in TagRows!Tag, NEW g \in Folder, CodeNext(t, g) PROVE TagRows!CodeOf(t, g)
    BY <1>0, <2>1, <2>3, <2>5 DEF TagRows!CodeOf, CodeNext, b
  <2> QED BY <1>0, <2>1, <2>4, <2>5, OneFolderStays DEF TagRows!OnACover
<1>3. ASSUME NEW c \in TwoCalls, TagRows!CreateMappeTag(c)
      PROVE  Goal
  <2> DEFINE f == v5[c].folder
             t0 == v3 + 1
             b == [pc |-> "answer", folder |-> v5[c].folder, tag |-> t0, shown |-> v5[c].shown]
  <2>1. /\ UNCHANGED <<v1, v4, v6, v7, v8>>
        /\ v3 < MaxTags /\ v3' = t0 /\ v2' = v2 \union {<<t0, f>>} /\ f \in v1
        /\ v5' = [v5 EXCEPT ![c].pc = "answer", ![c].tag = t0]
    BY <1>3 DEF TagRows!CreateMappeTag
  <2>a. v5' = [v5 EXCEPT ![c] = b]
    BY <1>0, <2>1, BindMade
  <2>2. t0 \in TagRows!Tag /\ t0 > v3 /\ v3 \in Nat /\ f \in Folder
    BY <1>0, <2>1 DEF TagRows!Tag, TagRows!TypeOK
  <2>b. b \in TagBind /\ (b.pc # "idle" => b.folder \in Folder) /\ b.folder = f /\ b.tag = t0
    BY <1>a, <2>2 DEF TagBind
  <2> HIDE DEF b, t0, f
  <2>3. /\ v5' \in [TwoCalls -> TagBind]
        /\ \A d \in TwoCalls : v5'[d].pc # "idle" => v5'[d].folder \in Folder
        /\ \A d \in TwoCalls : v5'[d] = IF d = c THEN b ELSE v5[d]
    BY <1>0, <2>a, <2>b, BindSet
  <2>c. TagRows!TypeOK'
    <3>1. v2' \subseteq TagRows!Tag \X v1'
      BY <1>0, <2>1, <2>2 DEF TagRows!TypeOK
    <3>2. v3' \in 0..MaxTags
      BY <2>1, <2>2 DEF TagRows!Tag
    <3> QED BY <1>0, <2>1, <2>3, <3>1, <3>2 DEF TagRows!TypeOK, TagBind
  <2>4. ASSUME NEW t \in TagRows!Tag, NEW g \in Folder, CodeNext(t, g)
        PROVE  TagRows!CodeOf(t, g) \/ (t = t0 /\ g = f)
    <3>1. CASE <<t, g>> \in v2' \union v6'
      BY <2>1, <3>1 DEF TagRows!CodeOf
    <3>2. CASE g \in Folder /\ v4'[g].qr = t
      BY <2>1, <3>2 DEF TagRows!CodeOf
    <3>3. CASE \E d \in TwoCalls : v5'[d].tag = t /\ v5'[d].folder = g
      BY <2>3, <2>b, <3>3 DEF TagRows!CodeOf
    <3> QED BY <2>4, <3>1, <3>2, <3>3 DEF CodeNext
  <2>5. TagRows!OneFolder'
    <3>1. \A t \in TagRows!Tag, g \in Folder : t > v3 => ~ TagRows!CodeOf(t, g)
      BY <1>0 DEF TagRows!OneFolder
    <3>2. t0 = v3 + 1
      BY DEF t0
    <3>3. ASSUME NEW t \in TagRows!Tag, NEW g \in Folder, NEW h \in Folder,
                 CodeNext(t, g), CodeNext(t, h)
          PROVE  g = h
      <4>1. CASE t = t0
        BY <2>2, <2>4, <3>1, <3>3, <4>1
      <4>2. CASE t # t0
        <5>1. TagRows!CodeOf(t, g) /\ TagRows!CodeOf(t, h)
          BY <2>4, <3>3, <4>2
        <5> QED BY <1>0, <5>1 DEF TagRows!OneFolder
      <4> QED BY <4>1, <4>2
    <3>4. ASSUME NEW t \in TagRows!Tag, t > v3', NEW g \in Folder
          PROVE  ~ CodeNext(t, g)
      <4>1. t > v3 /\ t # t0
        BY <2>1, <2>2, <3>2, <3>4 DEF TagRows!Tag
      <4> QED BY <2>4, <3>1, <4>1
    <3> QED BY <3>3, <3>4, OneFolderNext
  <2> QED BY <1>0, <2>1, <2>c, <2>5 DEF TagRows!OnACover
<1>4. ASSUME NEW c \in TwoCalls, TagRows!BindFails(c)
      PROVE  Goal
  <2> DEFINE b == [pc |-> "idle", folder |-> NoTag, tag |-> NoTag, shown |-> FALSE]
  <2>1. /\ UNCHANGED <<v1, v2, v3, v4, v6, v7>> /\ v5[c].pc # "idle"
        /\ v8' = v8 \union {v5[c].folder} /\ v5' = [v5 EXCEPT ![c] = b]
    BY <1>0, <1>4, BindStep DEF TagRows!BindFails, TagRows!NoBind
  <2>2. b \in TagBind /\ (b.pc # "idle" => b.folder \in Folder)
    BY <1>0, <1>a, <2>1 DEF TagBind
  <2> HIDE DEF b
  <2>3. /\ v5' \in [TwoCalls -> TagBind]
        /\ \A d \in TwoCalls : v5'[d].pc # "idle" => v5'[d].folder \in Folder
        /\ \A d \in TwoCalls : v5'[d] = IF d = c THEN b ELSE v5[d]
    BY <1>0, <2>1, <2>2, BindSet
  <2>4. TagRows!TypeOK'
    BY <1>0, <1>a, <2>1, <2>3 DEF TagRows!TypeOK, TagBind
  <2>5. ASSUME NEW t \in TagRows!Tag, NEW g \in Folder, CodeNext(t, g) PROVE TagRows!CodeOf(t, g)
    BY <1>0, <2>1, <2>3, <2>5 DEF TagRows!CodeOf, CodeNext, b
  <2> QED BY <1>0, <2>1, <2>4, <2>5, OneFolderStays DEF TagRows!OnACover
<1>5. ASSUME NEW c \in TwoCalls, TagRows!BindAnswered(c)
      PROVE  Goal
  <2> DEFINE b == [pc |-> "render", folder |-> v5[c].folder, tag |-> v5[c].tag, shown |-> v5[c].shown]
  <2>1. /\ UNCHANGED <<v1, v2, v3, v6, v7, v8>> /\ v5[c].pc = "answer"
        /\ v4' = v4 \/ v4' = [v4 EXCEPT ![v5[c].folder].url = v5[c].tag]
        /\ v5' = [v5 EXCEPT ![c] = b]
    BY <1>0, <1>5, BindStep DEF TagRows!BindAnswered
  <2>2. b \in TagBind /\ (b.pc # "idle" => b.folder \in Folder)
    BY <1>0, <1>a, <2>1 DEF TagBind
  <2> HIDE DEF b
  <2>3. /\ v5' \in [TwoCalls -> TagBind]
        /\ \A d \in TwoCalls : v5'[d].pc # "idle" => v5'[d].folder \in Folder
        /\ \A d \in TwoCalls : v5'[d] = IF d = c THEN b ELSE v5[d]
    BY <1>0, <2>1, <2>2, BindSet
  <2>a. /\ v4' \in [Folder -> [url : TagRows!Tag \union {NoTag}, qr : TagRows!Tag \union {NoTag}]]
        /\ \A g \in Folder : v4'[g].qr = v4[g].qr
    <3>1. v5[c].folder \in Folder /\ v5[c].tag \in TagRows!Tag \union {NoTag}
      BY <1>a, <2>1 DEF TagBind
    <3>2. v4 \in [Folder -> TagRow]
      BY <1>0 DEF TagRows!TypeOK, TagRow
    <3> QED BY <2>1, <3>1, <3>2, RowSet DEF TagRow
  <2>4. TagRows!TypeOK'
    BY <1>0, <2>1, <2>3, <2>a DEF TagRows!TypeOK, TagBind
  <2>5. ASSUME NEW t \in TagRows!Tag, NEW g \in Folder, CodeNext(t, g) PROVE TagRows!CodeOf(t, g)
    BY <1>0, <2>1, <2>3, <2>a, <2>5 DEF TagRows!CodeOf, CodeNext, b
  <2> QED BY <1>0, <2>1, <2>4, <2>5, OneFolderStays DEF TagRows!OnACover
<1>6. ASSUME NEW c \in TwoCalls, TagRows!renderQrDataUrl(c)
      PROVE  Goal
  <2> DEFINE b == [pc |-> "idle", folder |-> NoTag, tag |-> NoTag, shown |-> FALSE]
  <2>1. /\ UNCHANGED <<v1, v2, v3, v6, v7, v8>> /\ v5[c].pc = "render"
        /\ v4' = v4 \/ v4' = [v4 EXCEPT ![v5[c].folder].qr = v5[c].tag]
        /\ v5' = [v5 EXCEPT ![c] = b]
    BY <1>0, <1>6, BindStep DEF TagRows!renderQrDataUrl, TagRows!NoBind
  <2>2. b \in TagBind /\ (b.pc # "idle" => b.folder \in Folder)
    BY <1>0, <1>a, <2>1 DEF TagBind
  <2> HIDE DEF b
  <2>3. /\ v5' \in [TwoCalls -> TagBind]
        /\ \A d \in TwoCalls : v5'[d].pc # "idle" => v5'[d].folder \in Folder
        /\ \A d \in TwoCalls : v5'[d] = IF d = c THEN b ELSE v5[d]
    BY <1>0, <2>1, <2>2, BindSet
  <2>a. /\ v4' \in [Folder -> [url : TagRows!Tag \union {NoTag}, qr : TagRows!Tag \union {NoTag}]]
        /\ \A g \in Folder : v4'[g].qr = v4[g].qr \/ (g = v5[c].folder /\ v4'[g].qr = v5[c].tag)
    BY <1>0, <1>a, <2>1 DEF TagRows!TypeOK, TagBind
  <2>4. TagRows!TypeOK'
    BY <1>0, <2>1, <2>3, <2>a DEF TagRows!TypeOK, TagBind
  <2>5. ASSUME NEW t \in TagRows!Tag, NEW g \in Folder, CodeNext(t, g) PROVE TagRows!CodeOf(t, g)
    BY <1>0, <2>1, <2>3, <2>a, <2>5 DEF TagRows!CodeOf, CodeNext, b
  <2> QED BY <1>0, <2>1, <2>4, <2>5, OneFolderStays DEF TagRows!OnACover
<1>7. CASE TagRows!Leave
  <2>1. /\ UNCHANGED <<v1, v2, v3, v6, v7, v8>>
        /\ v4' = [f \in Folder |-> [url |-> NoTag, qr |-> NoTag]]
        /\ v5' = [c \in TwoCalls |-> [v5[c] EXCEPT !.shown = FALSE]]
    BY <1>7 DEF TagRows!Leave, TagRows!Empty
  <2>a. /\ v5' \in [TwoCalls -> TagBind]
        /\ \A d \in TwoCalls : /\ v5'[d].pc = v5[d].pc /\ v5'[d].folder = v5[d].folder
                                /\ v5'[d].tag = v5[d].tag
    <3>1. ASSUME NEW d \in TwoCalls
          PROVE  [v5[d] EXCEPT !.shown = FALSE]
                    = [pc |-> v5[d].pc, folder |-> v5[d].folder, tag |-> v5[d].tag, shown |-> FALSE]
      <4>1. v5[d] \in TagBind
        BY <1>a
      <4> QED BY ONLY <4>1, BindGone, Zenon
    <3>2. v5' = [d \in TwoCalls |-> [pc |-> v5[d].pc, folder |-> v5[d].folder, tag |-> v5[d].tag,
                                     shown |-> FALSE]]
      BY <2>1, <3>1
    <3>3. \A d \in TwoCalls : v5[d] \in TagBind
      BY <1>a
    <3> QED BY ONLY <3>2, <3>3 DEF TagBind
  <2>b. /\ v4' \in [Folder -> [url : TagRows!Tag \union {NoTag}, qr : TagRows!Tag \union {NoTag}]]
        /\ \A g \in Folder : v4'[g].qr = NoTag
    BY <2>1
  <2>2. TagRows!TypeOK'
    BY <1>0, <1>a, <2>1, <2>a, <2>b DEF TagRows!TypeOK, TagBind
  <2>3. ASSUME NEW t \in TagRows!Tag, NEW g \in Folder, CodeNext(t, g) PROVE TagRows!CodeOf(t, g)
    BY <1>0, <2>1, <2>a, <2>b, <2>3 DEF TagRows!CodeOf, CodeNext
  <2> QED BY <1>0, <2>1, <2>2, <2>3, OneFolderStays DEF TagRows!OnACover
<1>8. ASSUME NEW f \in Folder, TagRows!printQrCode(f)
      PROVE  Goal
  <2>1. /\ UNCHANGED <<v1, v2, v3, v4, v5, v7, v8>>
        /\ v4[f].qr # NoTag /\ v6' = v6 \union {<<v4[f].qr, f>>}
    BY <1>8 DEF TagRows!printQrCode
  <2>2. TagRows!TypeOK'
    BY <1>0, <2>1 DEF TagRows!TypeOK
  <2>3. ASSUME NEW t \in TagRows!Tag, NEW g \in Folder, CodeNext(t, g) PROVE TagRows!CodeOf(t, g)
    BY <1>0, <2>1, <2>3 DEF TagRows!CodeOf, CodeNext, TagRows!TypeOK
  <2> QED BY <1>0, <2>1, <2>2, <2>3, OneFolderStays DEF TagRows!OnACover
<1>9. ASSUME NEW f \in Folder, TagRows!DeleteFolder(f)
      PROVE  Goal
  <2>1. /\ UNCHANGED <<v3, v4, v5, v6, v7, v8>>
        /\ v1' = v1 \ {f} /\ v2' = {t \in v2 : t[2] # f}
    BY <1>9 DEF TagRows!DeleteFolder
  <2>2. TagRows!TypeOK'
    BY <1>0, <2>1 DEF TagRows!TypeOK
  <2>3. ASSUME NEW t \in TagRows!Tag, NEW g \in Folder, CodeNext(t, g) PROVE TagRows!CodeOf(t, g)
    BY <1>0, <2>1, <2>3 DEF TagRows!CodeOf, CodeNext, TagRows!TypeOK
  <2> QED BY <1>0, <2>1, <2>2, <2>3, OneFolderStays DEF TagRows!OnACover
<1>10. CASE TagRows!Scan \/ TagRows!ResolveTag \/ TagRows!startSweep
  <2>1. UNCHANGED <<v1, v2, v3, v4, v5, v6, v8>>
    BY <1>10 DEF TagRows!Scan, TagRows!ResolveTag, TagRows!startSweep
  <2>2. TagRows!OneFolder'
    <3>1. ASSUME NEW t \in TagRows!Tag, NEW g \in Folder, CodeNext(t, g) PROVE TagRows!CodeOf(t, g)
      BY <1>0, <2>1, <3>1 DEF TagRows!CodeOf, CodeNext
    <3> QED BY <1>0, <2>1, <3>1, OneFolderStays
  <2>3. v7' \in [pc : {"none", "resolve", "start", "opened"}, tag : TagRows!Tag \union {NoTag},
                 folder : Folder \union {NoTag}] /\ TagRows!OnACover'
    <3>1. CASE TagRows!Scan
      <4>1. PICK code \in v6 : v7' = [pc |-> "resolve", tag |-> code[1], folder |-> NoTag]
        BY <3>1 DEF TagRows!Scan, TagRows!NoLink
      <4>2. code[1] \in TagRows!Tag /\ code[2] \in Folder /\ code = <<code[1], code[2]>>
        BY <1>0 DEF TagRows!TypeOK
      <4> QED BY <2>1, <4>1, <4>2 DEF TagRows!OnACover
    <3>2. CASE TagRows!ResolveTag
      <4>1. CASE \E f \in Folder : <<v7.tag, f>> \in v2
        <5> DEFINE f0 == CHOOSE f \in Folder : <<v7.tag, f>> \in v2
        <5>1. f0 \in Folder /\ <<v7.tag, f0>> \in v2
          BY <4>1
        <5> HIDE DEF f0
        <5>2. v7' = [v7 EXCEPT !.pc = "start", !.folder = f0] /\ v7.pc = "resolve"
          BY <3>2, <4>1 DEF TagRows!ResolveTag, f0
        <5>3. PICK g \in Folder : <<v7.tag, g>> \in v6
          BY <1>0, <5>2 DEF TagRows!OnACover
        <5>4. g = f0
          <6>1. v7.tag \in TagRows!Tag
            BY <1>0, <5>3 DEF TagRows!TypeOK
          <6>2. TagRows!CodeOf(v7.tag, g) /\ TagRows!CodeOf(v7.tag, f0)
            BY <5>1, <5>3 DEF TagRows!CodeOf
          <6> QED BY <1>0, <5>1, <6>1, <6>2 DEF TagRows!OneFolder
        <5>5. v7' = [pc |-> "start", tag |-> v7.tag, folder |-> f0]
          BY <1>0, <5>2 DEF TagRows!TypeOK
        <5>6. v7.tag \in TagRows!Tag
          BY <1>0, <5>3 DEF TagRows!TypeOK
        <5> QED BY <2>1, <5>1, <5>3, <5>4, <5>5, <5>6 DEF TagRows!OnACover
      <4>2. CASE ~ (\E f \in Folder : <<v7.tag, f>> \in v2)
        BY <1>0, <2>1, <3>2, <4>2 DEF TagRows!ResolveTag, TagRows!OnACover, TagRows!NoLink
      <4> QED BY <4>1, <4>2
    <3>3. CASE TagRows!startSweep
      BY <1>0, <2>1, <3>3 DEF TagRows!TypeOK, TagRows!startSweep, TagRows!OnACover, TagRows!NoLink
    <3> QED BY <1>10, <3>1, <3>2, <3>3
  <2>4. TagRows!TypeOK'
    BY <1>0, <2>1, <2>3 DEF TagRows!TypeOK
  <2> QED BY <2>2, <2>3, <2>4
<1> QED BY <1>1, <1>2, <1>3, <1>4, <1>5, <1>6, <1>7, <1>8, <1>9, <1>10 DEF TagRows!Next

\* The code on a cover opens the folder it was printed for.
LEMMA CodeOpensItsFolder ==
    ASSUME TagRows!TagInv
    PROVE  TagRows!OpensItsFolder
<1> SUFFICES ASSUME v7.pc = "opened", NEW f \in Folder, <<v7.tag, f>> \in v6 PROVE f = v7.folder
  BY DEF TagRows!OpensItsFolder
<1>1. <<v7.tag, v7.folder>> \in v6
  BY DEF TagRows!TagInv, TagRows!OnACover
<1>2. v6 \subseteq TagRows!Tag \X Folder
  BY DEF TagRows!TagInv, TagRows!TypeOK
<1> QED BY <1>1, <1>2 DEF TagRows!TagInv, TagRows!OneFolder, TagRows!CodeOf

-----------------------------------------------------------------------------
(* The assistant's panel (AIChat): v1 is what is stored of the sessions, v4 *)
(* the session on screen, v5 its messages, v6 says that an answer streams,  *)
(* v11 are the handlers under way, v13 says that the panel went elsewhere   *)
(* meanwhile.                                                               *)

\* A message of the panel, and a handler under way.
PanelMessage == [session : Session, role : {"user", "assistant"}, error : BOOLEAN]
PanelSending == [pc : {"create", "stream", "abort"}, session : Session \union {NoSession}, own : BOOLEAN]

\* The types, one by one.
PanelTypes ==
    /\ v1 \in [Session -> -1..MaxMessages]
    /\ v2 \in BOOLEAN /\ v6 \in BOOLEAN /\ v7 \in BOOLEAN
    /\ v3 \subseteq Session /\ v4 \in Session \union {NoSession}
    /\ v5 \in Seq(PanelMessage)
    /\ v8 \subseteq Session /\ v9 \subseteq [session : Session, was : BOOLEAN]
    /\ v10 \in BOOLEAN
    /\ v11 \subseteq PanelSending /\ \A m \in v11 : m.pc # "create" => m.session \in Session
    /\ v12 \in Session \union {NoSession}
    /\ v13 \in BOOLEAN

\* They are the types of the panel.
LEMMA PanelTyped == Panel!TypeOK <=> PanelTypes
BY DEF Panel!TypeOK, PanelTypes, PanelMessage, PanelSending, Panel!Roles

\* Two messages more.
LEMMA TwoMore ==
    ASSUME NEW S, NEW q \in Seq(S), NEW a \in S, NEW b \in S
    PROVE  /\ q \o <<a, b>> \in Seq(S)
           /\ \A i \in DOMAIN (q \o <<a, b>>) :
                 \/ (q \o <<a, b>>)[i] \in {a, b}
                 \/ i \in DOMAIN q /\ (q \o <<a, b>>)[i] = q[i]
<1>1. <<a, b>> \in Seq(S) /\ Len(<<a, b>>) = 2 /\ <<a, b>>[1] = a /\ <<a, b>>[2] = b
  OBVIOUS
<1> DEFINE p == <<a, b>>
<1> HIDE DEF p
<1>2. p \in Seq(S) /\ Len(p) = 2 /\ p[1] = a /\ p[2] = b
  BY <1>1 DEF p
<1>3. q \o p \in Seq(S) /\ Len(q \o p) = Len(q) + 2
  <2>1. q \o p \in Seq(S) /\ Len(q \o p) = Len(q) + Len(p)
    BY ONLY <1>2, q \in Seq(S), ConcatProperties, Zenon
  <2> QED BY <1>2, <2>1
<1>4. \A i \in 1..Len(q) : i \in DOMAIN q /\ (q \o p)[i] = q[i]
  BY <1>2, ConcatProperties, LenProperties
<1>5. ASSUME NEW i \in DOMAIN (q \o p), i \notin 1..Len(q) PROVE (q \o p)[i] \in {a, b}
  <2>1. Len(q) \in Nat /\ i \in 1..Len(q) + 2
    BY <1>3, <1>5, LenProperties
  <2>2. i = Len(q) + 1 \/ i = Len(q) + 2
    BY <1>5, <2>1
  <2>3. (q \o p)[i] = p[i - Len(q)]
    BY <1>2, <2>1, <2>2, ConcatProperties
  <2> QED BY <1>2, <2>1, <2>2, <2>3
<1> QED BY <1>3, <1>4, <1>5 DEF p

\* A token, or an error, goes to the last answer.
LEMMA TokenAppended ==
    ASSUME v5 \in Seq(PanelMessage), NEW s \in Session, NEW failed \in BOOLEAN,
           Panel!appendToLastAssistant(s, failed)
    PROVE  /\ v5' \in Seq(PanelMessage)
           /\ (\A i \in DOMAIN v5 : v5[i].session = s) => \A i \in DOMAIN v5' : v5'[i].session = s
<1>1. CASE ~ (v5 # <<>> /\ Panel!Last(v5).role = "assistant")
  BY <1>1 DEF Panel!appendToLastAssistant
<1>2. CASE v5 # <<>> /\ Panel!Last(v5).role = "assistant"
  <2> DEFINE l == v5[Len(v5)]
             e == [l EXCEPT !.session = s, !.error = @ \/ failed]
             f == SubSeq(v5, 1, Len(v5) - 1)
  <2>1. v5' = Append(f, e)
    BY <1>2 DEF Panel!appendToLastAssistant, Panel!Last, Panel!Front
  <2>2. l \in PanelMessage
    BY <1>2, ElementOfSeq, EmptySeq, LenProperties
  <2>3. e \in PanelMessage /\ e.session = s
    <3> HIDE DEF l
    <3>1. l.error \/ failed \in BOOLEAN
      OBVIOUS
    <3> QED BY <2>2, <3>1 DEF PanelMessage
  <2>4. f \in Seq(PanelMessage) /\ \A i \in DOMAIN f : i \in DOMAIN v5 /\ f[i] = v5[i]
    BY SubSeqProperties, LenProperties
  <2> HIDE DEF e, f
  <2>5. v5' \in Seq(PanelMessage)
    BY <2>1, <2>3, <2>4, AppendProperties
  <2>6. \A i \in DOMAIN v5' : v5'[i] = e \/ (i \in DOMAIN f /\ v5'[i] = f[i])
    BY <2>1, <2>3, <2>4, AppendProperties, LenProperties
  <2> QED BY <2>3, <2>4, <2>5, <2>6
<1> QED BY <1>1, <1>2

\* Unless it crossed: the messages are the active session's, an answer that streams is
\* one that is under way, the only one, and the active session's.
PanelSound ==
    /\ \A i \in DOMAIN v5 : v5[i].session = v4
    /\ v6 => \E m \in v11 : m.pc \in {"stream", "abort"}
    /\ \A m, n \in v11 : m = n
    /\ \A m \in v11 : m.pc # "create" => m.session = v4

\* The invariant, part by part.
LEMMA PanelParts == Panel!PanelInv <=> PanelTypes /\ (~ v13 => PanelSound)
BY PanelTyped DEF Panel!PanelInv, Panel!OneSession, Panel!OneStream, PanelSound

\* Before the panel is opened.
LEMMA PanelInitially ==
    ASSUME Panel!Bounds, Panel!Init
    PROVE  Panel!PanelInv
<1>1. v1 \in [Session -> -1..MaxMessages]
  <2>1. PICK old \in SUBSET Session : v1 = [s \in Session |-> IF s \in old THEN 2 ELSE -1]
    BY DEF Panel!Init
  <2>2. 2 \in -1..MaxMessages /\ -1 \in -1..MaxMessages
    BY DEF Panel!Bounds
  <2> QED BY ONLY <2>1, <2>2
<1>2. PanelTypes
  BY <1>1, EmptySeq DEF PanelTypes, Panel!Init
<1>3. PanelSound
  BY DEF PanelSound, Panel!Init
<1> QED BY <1>2, <1>3, PanelParts

\* The parts make the invariant of the next state.
LEMMA PanelGoesOn ==
    ASSUME PanelTypes', ~ v13' => PanelSound'
    PROVE  Panel!PanelInv'
<1>1. Panel!TypeOK'
  BY DEF Panel!TypeOK, PanelTypes, PanelMessage, PanelSending, Panel!Roles
<1>2. Panel!OneSession' /\ Panel!OneStream'
  BY DEF Panel!OneSession, Panel!OneStream, PanelSound
<1> QED BY <1>1, <1>2 DEF Panel!PanelInv

\* A handler that goes on to another statement.
LEMMA SendingGoesOn ==
    ASSUME NEW m \in PanelSending, NEW pc
    PROVE  [m EXCEPT !.pc = pc] = [pc |-> pc, session |-> m.session, own |-> m.own]
BY DEF PanelSending

\* A question, and the answer to come.
LEMMA Asked ==
    ASSUME NEW s \in Session, NEW shown \in Seq(PanelMessage)
    PROVE  LET more == shown \o <<Panel!Message(s, "user"), Panel!Message(s, "assistant")>>
           IN  /\ more \in Seq(PanelMessage)
               /\ (\A i \in DOMAIN shown : shown[i].session = s)
                     => \A i \in DOMAIN more : more[i].session = s
<1> DEFINE a == Panel!Message(s, "user")
           b == Panel!Message(s, "assistant")
<1>1. a \in PanelMessage /\ b \in PanelMessage /\ a.session = s /\ b.session = s
  BY DEF Panel!Message, PanelMessage
<1> HIDE DEF a, b
<1> DEFINE more == shown \o <<a, b>>
<1>2. /\ more \in Seq(PanelMessage)
      /\ \A i \in DOMAIN more : more[i] \in {a, b} \/ (i \in DOMAIN shown /\ more[i] = shown[i])
  BY <1>1, TwoMore
<1> HIDE DEF more
<1>3. (\A i \in DOMAIN shown : shown[i].session = s) => \A i \in DOMAIN more : more[i].session = s
  BY <1>1, <1>2
<1> QED BY <1>2, <1>3 DEF more, a, b

\* What is stored of a session, on screen.
LEMMA StoredShown ==
    ASSUME v1 \in [Session -> -1..MaxMessages], NEW s \in Session, v1[s] >= 0, MaxMessages \in Nat
    PROVE  LET shown == [i \in 1..v1[s] |-> Panel!Message(s, IF i % 2 = 1 THEN "user" ELSE "assistant")]
           IN  shown \in Seq(PanelMessage) /\ \A i \in DOMAIN shown : shown[i].session = s
<1> DEFINE shown == [i \in 1..v1[s] |-> Panel!Message(s, IF i % 2 = 1 THEN "user" ELSE "assistant")]
<1>1. v1[s] \in Nat
  OBVIOUS
<1>2. \A i \in 1..v1[s] : shown[i] \in PanelMessage /\ shown[i].session = s
  BY DEF Panel!Message, PanelMessage
<1>3. shown \in [1..v1[s] -> PanelMessage]
  BY <1>2
<1> HIDE DEF shown
<1>4. shown \in Seq(PanelMessage)
  BY ONLY <1>1, <1>3, SeqDef
<1> QED BY <1>2, <1>3, <1>4 DEF shown

\* The panel goes to another session while nothing is under way, or has crossed.
LEMMA PanelGoes ==
    ASSUME PanelTypes, PanelTypes', ~ v13 => PanelSound, ~ v13' => ~ v13 /\ v11 = {},
           \A i \in DOMAIN v5' : v5'[i].session = v4', v6' = v6, v11' = v11
    PROVE  Panel!PanelInv'
<1>1. ASSUME ~ v13' PROVE PanelSound'
  BY <1>1 DEF PanelSound
<1> QED BY <1>1, PanelGoesOn

\* The panel and its handlers stay as they are.
LEMMA PanelStays ==
    ASSUME PanelTypes', ~ v13 => PanelSound, v13' = v13, UNCHANGED <<v4, v5, v6, v11>>
    PROVE  Panel!PanelInv'
<1>1. ~ v13' => PanelSound'
  BY DEF PanelSound
<1> QED BY <1>1, PanelGoesOn

\* A handler is through.
LEMMA PanelEnds ==
    ASSUME PanelTypes', ~ v13 => PanelSound, v13' = v13, v4' = v4, v6' = FALSE,
           NEW m \in v11, v11' = v11 \ {m},
           (\A i \in DOMAIN v5 : v5[i].session = v4)
              /\ (\A n \in v11 : n.pc # "create" => n.session = v4)
              => \A i \in DOMAIN v5' : v5'[i].session = v4
    PROVE  Panel!PanelInv'
<1>1. ASSUME ~ v13' PROVE PanelSound'
  <2>1. PanelSound
    BY <1>1
  <2>2. \A i \in DOMAIN v5' : v5'[i].session = v4'
    BY <2>1 DEF PanelSound
  <2>3. v11' = {}
    BY <2>1 DEF PanelSound
  <2> QED BY <2>2, <2>3 DEF PanelSound
<1> QED BY <1>1, PanelGoesOn

\* Every step of the panel, its handlers and its stream keeps the invariant.
LEMMA PanelKept ==
    ASSUME Panel!Bounds, Panel!PanelInv, Panel!Next
    PROVE  Panel!PanelInv'
<1> USE DEF Panel!requests
<1>0. PanelTypes /\ (~ v13 => PanelSound)
  BY PanelParts
<1>b. MaxMessages \in Nat /\ NoSession \notin Session
  BY DEF Panel!Bounds
<1>1. ASSUME NEW open \in BOOLEAN, Panel!setOpen(open)
      PROVE  Panel!PanelInv'
  <2> DEFINE closed(m) == [pc |-> IF Panel!Stoppable(m) THEN "abort" ELSE m.pc,
                           session |-> m.session, own |-> FALSE]
  <2>1. /\ UNCHANGED <<v1, v3, v4, v5, v6, v7, v8, v9>> /\ v13' = v13 /\ v2' = open
        /\ v10' = (v10 \/ open) /\ v12' = NoSession
        /\ v11' = IF open THEN v11 ELSE {closed(m) : m \in v11}
    BY <1>1, Zenon DEF Panel!setOpen
  <2>2. ASSUME NEW m \in v11
        PROVE  /\ closed(m) \in PanelSending /\ closed(m).session = m.session
               /\ closed(m).pc = "create" <=> m.pc = "create"
    BY <1>0 DEF PanelTypes, PanelSending, Panel!Stoppable
  <2> HIDE DEF closed
  <2>3. PanelTypes'
    <3>1. v11' \subseteq PanelSending /\ \A m \in v11' : m.pc # "create" => m.session \in Session
      BY <1>0, <2>1, <2>2 DEF PanelTypes
    <3>2. v2' \in BOOLEAN /\ v10' \in BOOLEAN
      BY <1>0, <2>1, Zenon DEF PanelTypes
    <3>3. v12' \in Session \union {NoSession}
      BY <2>1
    <3> QED BY <1>0, <2>1, <3>1, <3>2, <3>3, Zenon DEF PanelTypes
  <2>4. ASSUME ~ v13' PROVE PanelSound'
    <3>1. PanelSound /\ v5' = v5 /\ v4' = v4 /\ v6' = v6
      BY <1>0, <2>1, <2>4
    <3>2. CASE open
      BY <2>1, <3>1, <3>2 DEF PanelSound
    <3>3. CASE ~ open
      <4>1. v11' = {closed(m) : m \in v11}
        BY <2>1, <3>3
      <4>2. \A m \in v11 : closed(m).pc \in {"create", "stream", "abort"}
        BY <2>2 DEF PanelSending
      <4>3. v6' => \E m \in v11' : m.pc \in {"stream", "abort"}
        BY <2>2, <3>1, <4>1, <4>2 DEF PanelSound
      <4>4. \A m, n \in v11' : m = n
        BY ONLY <3>1, <4>1 DEF PanelSound
      <4>5. \A m \in v11' : m.pc # "create" => m.session = v4'
        BY <2>2, <3>1, <4>1 DEF PanelSound
      <4> QED BY <3>1, <4>3, <4>4, <4>5 DEF PanelSound
    <3> QED BY <3>2, <3>3
  <2> QED BY <2>3, <2>4, PanelGoesOn
<1>2. ASSUME Panel!SessionsListed
      PROVE  Panel!PanelInv'
  <2>1. UNCHANGED <<v1, v2, v4, v5, v6, v7, v8, v9, v11, v12, v13>> /\ v10' = FALSE
    BY <1>2 DEF Panel!SessionsListed
  <2>2. v3' \subseteq Session
    BY <1>0, <1>2 DEF Panel!SessionsListed, PanelTypes
  <2>3. PanelTypes'
    BY <1>0, <2>1, <2>2, Zenon DEF PanelTypes
  <2> QED BY <1>0, <2>1, <2>3, PanelStays
<1>3. ASSUME Panel!NewChat
      PROVE  Panel!PanelInv'
  <2>1. /\ UNCHANGED <<v1, v2, v3, v6, v8, v9, v10, v11, v12>> /\ v4' = NoSession /\ v5' = <<>>
        /\ v7' = FALSE
    BY <1>3 DEF Panel!NewChat, Panel!setActiveSession
  <2>2. v13' \in BOOLEAN /\ (~ v13' => ~ v13 /\ v11 = {})
    BY <1>0, <1>3, Zenon DEF Panel!NewChat, PanelTypes
  <2>3. v5' \in Seq(PanelMessage) /\ v4' \in Session \union {NoSession}
    BY <2>1, EmptySeq
  <2>4. PanelTypes'
    BY <1>0, <2>1, <2>2, <2>3, Zenon DEF PanelTypes
  <2>5. \A i \in DOMAIN v5' : v5'[i].session = v4'
    BY <2>1
  <2> QED BY <1>0, <2>1, <2>2, <2>4, <2>5, PanelGoes
<1>4. ASSUME NEW s \in Session, Panel!openSession(s)
      PROVE  Panel!PanelInv'
  <2>1. UNCHANGED <<v1, v2, v3, v4, v5, v6, v7, v9, v10, v11, v12, v13>> /\ v8' = v8 \union {s}
    BY <1>4 DEF Panel!openSession, Panel!store
  <2>2. v8' \subseteq Session
    BY <1>0, <2>1 DEF PanelTypes
  <2>3. PanelTypes'
    BY <1>0, <2>1, <2>2, Zenon DEF PanelTypes
  <2> QED BY <1>0, <2>1, <2>3, PanelStays
<1>5. ASSUME NEW s \in Session, Panel!SessionOpened(s)
      PROVE  Panel!PanelInv'
  <2>1. UNCHANGED <<v1, v2, v3, v6, v9, v10, v11, v12>> /\ v8' = v8 \ {s}
    BY <1>5 DEF Panel!SessionOpened
  <2>2. v8' \subseteq Session
    BY <1>0, <2>1 DEF PanelTypes
  <2>3. CASE UNCHANGED <<v4, v5, v7, v13>>
    <3>1. PanelTypes'
      BY <1>0, <2>1, <2>2, <2>3, Zenon DEF PanelTypes
    <3> QED BY <1>0, <2>1, <2>3, <3>1, PanelStays
  <2>4. CASE ~ UNCHANGED <<v4, v5, v7, v13>>
    <3> DEFINE shown == [i \in 1..v1[s] |-> Panel!Message(s, IF i % 2 = 1 THEN "user" ELSE "assistant")]
    <3>1. v1[s] >= 0 /\ v4' = s /\ v5' = shown /\ v7' = FALSE
      BY <1>5, <2>4 DEF Panel!SessionOpened, Panel!setActiveSession
    <3>2. v13' \in BOOLEAN /\ (~ v13' => ~ v13 /\ v11 = {})
      BY <1>0, <1>5, <2>4, Zenon DEF Panel!SessionOpened, PanelTypes
    <3>3. shown \in Seq(PanelMessage) /\ \A i \in DOMAIN shown : shown[i].session = s
      BY <1>0, <1>b, <3>1, StoredShown DEF PanelTypes
    <3> HIDE DEF shown
    <3>4. v5' \in Seq(PanelMessage) /\ v4' \in Session \union {NoSession}
      BY <3>1, <3>3
    <3>5. PanelTypes'
      BY <1>0, <2>1, <2>2, <3>1, <3>2, <3>4, Zenon DEF PanelTypes
    <3>6. \A i \in DOMAIN v5' : v5'[i].session = v4'
      BY <3>1, <3>3
    <3> QED BY <1>0, <2>1, <3>2, <3>5, <3>6, PanelGoes
  <2> QED BY <2>3, <2>4
<1>6. ASSUME NEW s \in Session, Panel!deleteSession(s)
      PROVE  Panel!PanelInv'
  <2>1. /\ UNCHANGED <<v1, v2, v3, v4, v5, v6, v7, v8, v10, v11, v12, v13>>
        /\ v9' = v9 \union {[session |-> s, was |-> s = v4]}
    BY <1>6 DEF Panel!deleteSession, Panel!store
  <2>2. v9' \subseteq [session : Session, was : BOOLEAN]
    <3>1. ASSUME NEW was \in BOOLEAN PROVE [session |-> s, was |-> was] \in [session : Session, was : BOOLEAN]
      OBVIOUS
    <3>2. (s = v4) \in BOOLEAN
      OBVIOUS
    <3>3. [session |-> s, was |-> s = v4] \in [session : Session, was : BOOLEAN]
      BY <3>1, <3>2, Zenon
    <3>4. v9 \subseteq [session : Session, was : BOOLEAN]
      BY <1>0 DEF PanelTypes
    <3> QED BY ONLY <2>1, <3>3, <3>4, Zenon
  <2>3. PanelTypes'
    BY <1>0, <2>1, <2>2, Zenon DEF PanelTypes
  <2> QED BY <1>0, <2>1, <2>3, PanelStays
<1>7. ASSUME NEW d \in v9, Panel!SessionDeleted(d)
      PROVE  Panel!PanelInv'
  <2>1. UNCHANGED <<v2, v3, v6, v8, v11, v12>> /\ v9' = v9 \ {d}
    BY <1>7 DEF Panel!SessionDeleted
  <2>2. v9' \subseteq [session : Session, was : BOOLEAN]
    BY <1>0, <2>1 DEF PanelTypes
  <2>3. v1' \in [Session -> -1..MaxMessages]
    <3>1. v1' = v1 \/ v1' = [v1 EXCEPT ![d.session] = -1]
      BY <1>7 DEF Panel!SessionDeleted
    <3>2. -1 \in -1..MaxMessages
      BY <1>b
    <3> QED BY <1>0, <3>1, <3>2 DEF PanelTypes
  <2>4. v10' \in BOOLEAN
    BY <1>0, <1>7, Zenon DEF Panel!SessionDeleted, PanelTypes
  <2>5. CASE UNCHANGED <<v4, v5, v7, v13>>
    <3>1. PanelTypes'
      BY <1>0, <2>1, <2>2, <2>3, <2>4, <2>5, Zenon DEF PanelTypes
    <3> QED BY <1>0, <2>1, <2>5, <3>1, PanelStays
  <2>6. CASE ~ UNCHANGED <<v4, v5, v7, v13>>
    <3>1. v4' = NoSession /\ v5' = <<>> /\ v7' = FALSE
      BY <1>7, <2>6 DEF Panel!SessionDeleted, Panel!setActiveSession
    <3>2. v13' \in BOOLEAN /\ (~ v13' => ~ v13 /\ v11 = {})
      BY <1>0, <1>7, <2>6, Zenon DEF Panel!SessionDeleted, PanelTypes
    <3>3. v5' \in Seq(PanelMessage) /\ v4' \in Session \union {NoSession}
      BY <3>1, EmptySeq
    <3>4. PanelTypes'
      BY <1>0, <2>1, <2>2, <2>3, <2>4, <3>1, <3>2, <3>3, Zenon DEF PanelTypes
    <3>5. \A i \in DOMAIN v5' : v5'[i].session = v4'
      BY <3>1
    <3> QED BY <1>0, <2>1, <3>2, <3>4, <3>5, PanelGoes
  <2> QED BY <2>5, <2>6
<1>8. ASSUME Panel!sendMessage
      PROVE  Panel!PanelInv'
  <2>1. /\ UNCHANGED <<v1, v2, v3, v4, v7, v8, v9, v10>> /\ v6 = FALSE
    BY <1>0, <1>8, Zenon DEF Panel!sendMessage, PanelTypes
  <2>2. v13' \in BOOLEAN /\ (~ v13' => ~ v13 /\ v11 = {})
    BY <1>0, <1>8, Zenon DEF Panel!sendMessage, PanelTypes
  <2>3. CASE v4 = NoSession
    <3> DEFINE m == [pc |-> "create", session |-> NoSession, own |-> TRUE]
    <3>1. v11' = v11 \union {m} /\ UNCHANGED <<v5, v6, v12>>
      BY <1>8, <2>3 DEF Panel!sendMessage
    <3>2. m \in PanelSending /\ m.pc = "create"
      BY DEF PanelSending
    <3> HIDE DEF m
    <3>3. v11' \subseteq PanelSending /\ \A n \in v11' : n.pc # "create" => n.session \in Session
      BY <1>0, <3>1, <3>2 DEF PanelTypes
    <3>4. PanelTypes'
      BY <1>0, <2>1, <2>2, <3>1, <3>3, Zenon DEF PanelTypes
    <3>5. ASSUME ~ v13' PROVE PanelSound'
      BY <1>0, <2>1, <2>2, <3>1, <3>2, <3>5 DEF PanelSound
    <3> QED BY <3>4, <3>5, PanelGoesOn
  <2>4. CASE v4 # NoSession
    <3> DEFINE m == [pc |-> "stream", session |-> v4, own |-> TRUE]
    <3>1. v4 \in Session /\ Panel!Ask(v4, v5, v11, TRUE)
      BY <1>0, <1>8, <2>4 DEF Panel!sendMessage, PanelTypes
    <3>2. /\ v5' \in Seq(PanelMessage) /\ v6' = TRUE /\ v12' \in Session \union {NoSession}
          /\ v11' = v11 \union {m} /\ v11' \subseteq PanelSending
          /\ \A n \in v11' : n.pc # "create" => n.session \in Session
          /\ (\A i \in DOMAIN v5 : v5[i].session = v4) => \A i \in DOMAIN v5' : v5'[i].session = v4
      <4>1. /\ v5' = v5 \o <<Panel!Message(v4, "user"), Panel!Message(v4, "assistant")>>
            /\ v6' = TRUE /\ v11' = v11 \union {m} /\ v12' = v4
        BY <3>1 DEF Panel!Ask
      <4>2. /\ v5 \in Seq(PanelMessage) /\ v11 \subseteq PanelSending
            /\ \A n \in v11 : n.pc # "create" => n.session \in Session
        BY <1>0 DEF PanelTypes
      <4>3. m \in PanelSending /\ m.session \in Session
        BY <3>1 DEF PanelSending
      <4> HIDE DEF m
      <4>4. /\ v5' \in Seq(PanelMessage)
            /\ (\A i \in DOMAIN v5 : v5[i].session = v4) => \A i \in DOMAIN v5' : v5'[i].session = v4
        BY ONLY <3>1, <4>1, <4>2, Asked
      <4> QED BY <3>1, <4>1, <4>2, <4>3, <4>4
    <3>3. PanelTypes'
      BY <1>0, <2>1, <2>2, <3>2, Zenon DEF PanelTypes
    <3>4. m.pc = "stream" /\ m.session = v4
      OBVIOUS
    <3> HIDE DEF m
    <3>5. ASSUME ~ v13' PROVE PanelSound'
      BY <1>0, <2>1, <2>2, <3>1, <3>2, <3>4, <3>5 DEF PanelSound
    <3> QED BY <3>3, <3>5, PanelGoesOn
  <2> QED BY <2>3, <2>4
<1>9. ASSUME NEW s \in Session, Panel!SessionCreated(s)
      PROVE  Panel!PanelInv'
  <2>1. PICK m \in v11 :
           /\ v1' = [v1 EXCEPT ![s] = 0] /\ v4' = s /\ v7' = FALSE
           /\ Panel!Ask(s, <<>>, v11 \ {m}, m.own)
           /\ v13' = (v13 \/ Panel!Cardinality(v11) > 1)
           /\ UNCHANGED <<v2, v3, v8, v9, v10>>
    BY <1>9 DEF Panel!SessionCreated
  <2> DEFINE n == [pc |-> "stream", session |-> s, own |-> m.own]
  <2>2. /\ v5' \in Seq(PanelMessage) /\ v6' = TRUE /\ v12' \in Session \union {NoSession}
        /\ v11' = (v11 \ {m}) \union {n} /\ v11' \subseteq PanelSending
        /\ \A k \in v11' : k.pc # "create" => k.session \in Session
        /\ \A i \in DOMAIN v5' : v5'[i].session = s
    <3>1. /\ v5' = <<>> \o <<Panel!Message(s, "user"), Panel!Message(s, "assistant")>>
          /\ v6' = TRUE /\ v11' = (v11 \ {m}) \union {n} /\ v12' \in {s, v12}
      BY <2>1, Zenon DEF Panel!Ask
    <3>2. /\ m.own \in BOOLEAN /\ v11 \subseteq PanelSending
          /\ \A k \in v11 : k.pc # "create" => k.session \in Session
      BY <1>0 DEF PanelTypes, PanelSending
    <3>3. v12 \in Session \union {NoSession}
      BY <1>0 DEF PanelTypes
    <3>4. n \in PanelSending /\ n.session \in Session
      BY <3>2 DEF PanelSending
    <3> HIDE DEF n
    <3>5. v5' \in Seq(PanelMessage) /\ \A i \in DOMAIN v5' : v5'[i].session = s
      <4> DEFINE none == <<>>
      <4>1. none \in Seq(PanelMessage) /\ \A i \in DOMAIN none : none[i].session = s
        BY EmptySeq
      <4>2. v5' = none \o <<Panel!Message(s, "user"), Panel!Message(s, "assistant")>>
        BY <3>1
      <4> HIDE DEF none
      <4> QED BY ONLY <4>1, <4>2, s \in Session, Asked
    <3> QED BY <3>1, <3>2, <3>3, <3>4, <3>5
  <2>3. v1' \in [Session -> -1..MaxMessages]
    <3>1. 0 \in -1..MaxMessages
      BY <1>b
    <3> QED BY <1>0, <2>1, <3>1 DEF PanelTypes
  <2>4. v13' \in BOOLEAN /\ (~ v13' => ~ v13)
    BY <1>0, <2>1, Zenon DEF PanelTypes
  <2>5. PanelTypes'
    BY <1>0, <2>1, <2>2, <2>3, <2>4, Zenon DEF PanelTypes
  <2>6. n.pc = "stream" /\ n.session = s
    OBVIOUS
  <2> HIDE DEF n
  <2>7. ASSUME ~ v13' PROVE PanelSound'
    <3>1. PanelSound
      BY <1>0, <2>4, <2>7
    <3>2. v11' = {n}
      BY <2>2, <3>1 DEF PanelSound
    <3>3. v4' = s
      BY <2>1
    <3> QED BY <2>2, <2>6, <3>2, <3>3 DEF PanelSound
  <2> QED BY <2>5, <2>7, PanelGoesOn
<1>10. ASSUME Panel!SessionRefused
       PROVE  Panel!PanelInv'
  <2>1. PICK m \in v11 : /\ m.pc = "create" /\ v11' = v11 \ {m}
                         /\ UNCHANGED <<v1, v2, v3, v4, v5, v6, v7, v8, v9, v10, v12, v13>>
    BY <1>10 DEF Panel!SessionRefused, Panel!store, Panel!requests
  <2>2. v11' \subseteq PanelSending /\ \A n \in v11' : n.pc # "create" => n.session \in Session
    BY <1>0, <2>1 DEF PanelTypes
  <2>3. PanelTypes'
    BY <1>0, <2>1, <2>2, Zenon DEF PanelTypes
  <2>4. ASSUME ~ v13' PROVE PanelSound'
    <3>1. PanelSound
      BY <1>0, <2>1, <2>4
    <3>2. v11' = {} /\ ~ v6
      BY <2>1, <3>1 DEF PanelSound
    <3> QED BY <2>1, <3>1, <3>2 DEF PanelSound
  <2> QED BY <2>3, <2>4, PanelGoesOn
<1>11. ASSUME NEW m \in v11, Panel!Event(m)
       PROVE  Panel!PanelInv'
  <2>1. UNCHANGED <<v1, v2, v3, v4, v6, v8, v9, v10, v11, v12, v13>> /\ m.pc = "stream"
    BY <1>11 DEF Panel!Event, Panel!Streams
  <2>2. CASE Panel!appendToLastAssistant(m.session, FALSE) /\ UNCHANGED v7
    <3>a. m.session \in Session
      BY <1>0, <2>1 DEF PanelTypes
    <3>1. /\ v5' \in Seq(PanelMessage)
          /\ (\A i \in DOMAIN v5 : v5[i].session = m.session)
                => \A i \in DOMAIN v5' : v5'[i].session = m.session
      <4>1. v5 \in Seq(PanelMessage)
        BY <1>0 DEF PanelTypes
      <4> QED BY ONLY <2>2, <3>a, <4>1, TokenAppended
    <3>2. PanelTypes'
      BY <1>0, <2>1, <2>2, <3>1, Zenon DEF PanelTypes
    <3>3. ASSUME ~ v13' PROVE PanelSound'
      BY <1>0, <2>1, <3>1, <3>3 DEF PanelSound
    <3> QED BY <3>2, <3>3, PanelGoesOn
  <2>3. CASE v7' = TRUE /\ UNCHANGED v5
    <3>1. PanelTypes'
      BY <1>0, <2>1, <2>3, Zenon DEF PanelTypes
    <3> QED BY <1>0, <2>1, <2>3, <3>1, PanelStays
  <2> QED BY <1>11, <2>2, <2>3 DEF Panel!Event
<1>12. ASSUME NEW m \in v11, Panel!StreamDone(m)
       PROVE  Panel!PanelInv'
  <2>1. /\ UNCHANGED <<v2, v3, v4, v5, v8, v9, v13>> /\ v6' = FALSE /\ v7' = FALSE /\ v10' = TRUE
        /\ v11' = v11 \ {m} /\ v12' = IF m.own THEN NoSession ELSE v12
    BY <1>12 DEF Panel!StreamDone, Panel!Ends
  <2>2. v1' \in [Session -> -1..MaxMessages]
    <3>1. v1' = v1 \/ (v1[m.session] \in 0..(MaxMessages - 2) /\ v1' = [v1 EXCEPT ![m.session] = v1[m.session] + 2])
      BY <1>12 DEF Panel!StreamDone
    <3> QED BY <1>0, <1>b, <3>1 DEF PanelTypes
  <2>3. v11' \subseteq PanelSending /\ \A n \in v11' : n.pc # "create" => n.session \in Session
    BY <1>0, <2>1 DEF PanelTypes
  <2>4. v12' \in Session \union {NoSession}
    BY <1>0, <2>1 DEF PanelTypes
  <2>5. PanelTypes'
    BY <1>0, <2>1, <2>2, <2>3, <2>4, Zenon DEF PanelTypes
  <2> QED BY <1>0, <2>1, <2>5, PanelEnds
<1>13. ASSUME NEW m \in v11, Panel!StreamFails(m)
       PROVE  Panel!PanelInv'
  <2>1. /\ UNCHANGED <<v1, v2, v3, v4, v8, v9, v10, v13>> /\ v6' = FALSE /\ v7' = FALSE
        /\ v11' = v11 \ {m} /\ v12' = IF m.own THEN NoSession ELSE v12
        /\ m.pc = "stream" /\ Panel!appendToLastAssistant(m.session, TRUE)
    BY <1>13 DEF Panel!StreamFails, Panel!Ends, Panel!Streams
  <2>2. m.session \in Session
    BY <1>0, <2>1 DEF PanelTypes
  <2>3. /\ v5' \in Seq(PanelMessage)
        /\ (\A i \in DOMAIN v5 : v5[i].session = m.session)
              => \A i \in DOMAIN v5' : v5'[i].session = m.session
    <3>1. v5 \in Seq(PanelMessage)
      BY <1>0 DEF PanelTypes
    <3> QED BY ONLY <2>1, <2>2, <3>1, TokenAppended
  <2>4. v11' \subseteq PanelSending /\ \A n \in v11' : n.pc # "create" => n.session \in Session
    BY <1>0, <2>1 DEF PanelTypes
  <2>5. v12' \in Session \union {NoSession}
    BY <1>0, <2>1 DEF PanelTypes
  <2>6. PanelTypes'
    BY <1>0, <2>1, <2>3, <2>4, <2>5, Zenon DEF PanelTypes
  <2>7. (\A i \in DOMAIN v5 : v5[i].session = v4) /\ (\A n \in v11 : n.pc # "create" => n.session = v4)
           => \A i \in DOMAIN v5' : v5'[i].session = v4
    BY <2>1, <2>3
  <2> QED BY <1>0, <2>1, <2>6, <2>7, PanelEnds
<1>14. ASSUME NEW m \in v11, Panel!abort(m)
       PROVE  Panel!PanelInv'
  <2> DEFINE a == [pc |-> "abort", session |-> m.session, own |-> m.own]
  <2>1. /\ UNCHANGED <<v1, v2, v3, v4, v5, v6, v7, v8, v9, v10, v12, v13>> /\ m.pc = "stream"
        /\ v11' = (v11 \ {m}) \union {[m EXCEPT !.pc = "abort"]}
    BY <1>14 DEF Panel!abort, Panel!Streams, Panel!store
  <2>2. m \in PanelSending /\ m.session \in Session
    BY <1>0, <2>1 DEF PanelTypes
  <2>3. v11' = (v11 \ {m}) \union {a}
    BY ONLY <2>1, <2>2, SendingGoesOn
  <2>4. a \in PanelSending /\ a.session = m.session /\ a.pc = "abort"
    BY <2>2 DEF PanelSending
  <2> HIDE DEF a
  <2>5. v11' \subseteq PanelSending /\ \A n \in v11' : n.pc # "create" => n.session \in Session
    BY <1>0, <2>2, <2>3, <2>4 DEF PanelTypes
  <2>6. PanelTypes'
    BY <1>0, <2>1, <2>5, Zenon DEF PanelTypes
  <2>7. ASSUME ~ v13' PROVE PanelSound'
    BY <1>0, <2>1, <2>3, <2>4, <2>7 DEF PanelSound
  <2> QED BY <2>6, <2>7, PanelGoesOn
<1>15. ASSUME NEW m \in v11, Panel!Aborted(m)
       PROVE  Panel!PanelInv'
  <2>1. /\ UNCHANGED <<v1, v2, v3, v4, v5, v7, v8, v9, v10, v13>> /\ v6' = FALSE
        /\ v11' = v11 \ {m} /\ v12' = IF m.own THEN NoSession ELSE v12
    BY <1>15 DEF Panel!Aborted, Panel!Ends
  <2>2. v11' \subseteq PanelSending /\ \A n \in v11' : n.pc # "create" => n.session \in Session
    BY <1>0, <2>1 DEF PanelTypes
  <2>3. v12' \in Session \union {NoSession}
    BY <1>0, <2>1 DEF PanelTypes
  <2>4. PanelTypes'
    BY <1>0, <2>1, <2>2, <2>3, Zenon DEF PanelTypes
  <2> QED BY <1>0, <2>1, <2>4, PanelEnds
<1> QED BY <1>1, <1>2, <1>3, <1>4, <1>5, <1>6, <1>7, <1>8, <1>9, <1>10, <1>11, <1>12, <1>13, <1>14,
           <1>15 DEF Panel!Next

-----------------------------------------------------------------------------
(* The chats of a club (Messages): v1 are the chats at the server, v4 the   *)
(* one that is open, v6 how far its newest page goes, v7 the queries under  *)
(* way, v8 the older messages on screen, v9 the page of them under way, v11 *)
(* what is being posted, v12 says that answers crossed.                     *)

\* What is asked for again has no answer yet.
FetchTyped(f) ==
    /\ f = [q \in Chats!Query |-> f[q]]
    /\ \A c \in Chat : f[c].pc = "answered" => f[c].value \in Nat

PostTyped(p) ==
    /\ p \in [pc : {"none", "sent", "stored", "opening"}, chat : Chat \union {NoChat}, opens : BOOLEAN]
    /\ p.pc # "none" => p.chat \in Chat

Conversations == [Chat -> Seq({"me", "other"})]

\* They are the types of the page.
LEMMA ChatTyped ==
    Chats!ChatTypes <=>
        /\ v1 \in Conversations /\ v6 \in [Chat -> Nat]
        /\ v4 \in Chat \union {NoChat} /\ v12 \in BOOLEAN
        /\ v8 \in Seq(Chat \X Chats!Number) /\ v9 \in [chat : Chat, before : Chats!Number] \union {Chats!NoPage}
        /\ FetchTyped(v7) /\ PostTyped(v11)
BY DEF Chats!ChatTypes, FetchTyped, PostTyped, Conversations

\* Before a chat is opened.
LEMMA ChatsInitially ==
    ASSUME Chats!Bounds, Chats!Init
    PROVE  Chats!ChatInv
<1>1. v1 \in Conversations
  <2>1. v1 \in [Chat -> TwoMessages] /\ TwoMessages \subseteq Seq({"me", "other"})
    BY DEF Chats!Init, Chats!Bounds
  <2> QED BY ONLY <2>1 DEF Conversations
<1>2. /\ v4 = NoChat /\ v6 = [c \in Chat |-> 0] /\ v8 = <<>> /\ v9 = Chats!NoPage
      /\ v12 = FALSE
  BY DEF Chats!Init
<1>3. FetchTyped(v7)
  BY DEF Chats!Init, FetchTyped, Chats!NoFetch, Chats!Query
<1>4. PostTyped(v11)
  <2>1. v11 = Chats!NoPost
    BY DEF Chats!Init
  <2>2. Chats!NoPost.pc = "none"
    BY DEF Chats!NoPost
  <2>3. Chats!NoPost \in [pc : {"none", "sent", "stored", "opening"}, chat : Chat \union {NoChat},
                          opens : BOOLEAN]
    BY DEF Chats!NoPost
  <2> QED BY <2>1, <2>2, <2>3 DEF PostTyped
<1>5. v8 \in Seq(Chat \X Chats!Number)
  BY <1>2, EmptySeq
<1>6. v4 \in Chat \union {NoChat} /\ v6 \in [Chat -> Nat] /\ v9 \in [chat : Chat, before : Chats!Number] \union {Chats!NoPage}
  BY <1>2
<1>7. v12 \in BOOLEAN
  BY <1>2
<1>8. Chats!ChatTypes
  BY <1>1, <1>3, <1>4, <1>5, <1>6, <1>7, ChatTyped, Zenon
<1>9. Chats!OlderFollow
  BY <1>2 DEF Chats!OlderFollow
<1> QED BY <1>8, <1>9 DEF Chats!ChatInv

\* Queries are fetched again.
LEMMA FetchedAgain ==
    ASSUME FetchTyped(v7), NEW Q, Chats!Fetches(Q)
    PROVE  FetchTyped(v7')
<1>1. v7' = [q \in Chats!Query |-> IF q \in Q THEN Chats!Sent ELSE v7[q]]
  BY DEF Chats!Fetches
<1>2. Chats!Sent.pc = "sent"
  BY DEF Chats!Sent
<1>3. \A c \in Chat : c \in Chats!Query
  BY DEF Chats!Query
<1>4. v7' = [q \in Chats!Query |-> v7'[q]]
  BY ONLY <1>1
<1>5. ASSUME NEW c \in Chat, v7'[c].pc = "answered" PROVE v7'[c].value \in Nat
  BY <1>1, <1>2, <1>3, <1>5 DEF FetchTyped
<1> QED BY <1>4, <1>5 DEF FetchTyped

\* A step that leaves the chat on screen alone.
LEMMA ChatStays ==
    ASSUME Chats!ChatInv, UNCHANGED <<v4, v6, v8, v9, v12>>,
           v1' \in Conversations, FetchTyped(v7'), PostTyped(v11')
    PROVE  Chats!ChatInv'
<1>0. Chats!ChatTypes /\ Chats!OlderFollow
  BY DEF Chats!ChatInv
<1>1. Chats!ChatTypes'
  <2>1. /\ v6' \in [Chat -> Nat] /\ v4' \in Chat \union {NoChat}
        /\ v8' \in Seq(Chat \X Chats!Number) /\ v9' \in [chat : Chat, before : Chats!Number] \union {Chats!NoPage}
    BY <1>0 DEF Chats!ChatTypes
  <2>2. v12' \in BOOLEAN
    BY <1>0 DEF Chats!ChatTypes
  <2> QED BY <2>1, <2>2, Zenon DEF Chats!ChatTypes, FetchTyped, PostTyped, Conversations
<1>2. Chats!OlderFollow'
  BY <1>0 DEF Chats!OlderFollow, Chats!OldestShown, Chats!First
<1> QED BY <1>1, <1>2 DEF Chats!ChatInv

\* The first of a page.
LEMMA FirstOfPage ==
    ASSUME Chats!Bounds, NEW n \in Nat
    PROVE  /\ Chats!First(n) \in Nat \ {0} /\ Chats!First(n) <= n + 1
           /\ n > 0 => Chats!First(n) <= n
BY DEF Chats!First, Chats!Bounds

\* What is on screen, message by message.
LEMMA ShownMessages ==
    ASSUME Chats!Bounds, Chats!ChatTypes, v4 \in Chat
    PROVE  LET f == Chats!First(v6[v4])
               n == v6[v4] - f + 1
           IN  /\ f \in Nat \ {0} /\ n \in Nat /\ Len(v8) \in Nat
               /\ Chats!messages \in Seq(Chat \X Chats!Number)
               /\ Len(Chats!messages) = Len(v8) + n
               /\ \A i \in 1..Len(v8) : Chats!messages[i] = v8[i]
               /\ \A i \in Len(v8) + 1..Len(v8) + n :
                     Chats!messages[i] = <<v4, f - Len(v8) + i - 1>>
<1> DEFINE f == Chats!First(v6[v4])
           n == v6[v4] - f + 1
           l == [i \in 1..n |-> <<v4, f + i - 1>>]
<1>1. v6[v4] \in Nat
  BY DEF Chats!ChatTypes
<1>2. f \in Nat \ {0} /\ n \in Nat
  BY <1>1, FirstOfPage
<1>3. Chats!messages = v8 \o l
  BY DEF Chats!messages, Chats!latestMessages, Chats!Bounds
<1> HIDE DEF f, n
<1>4. l \in [1..n -> Chat \X Chats!Number] /\ \A i \in 1..n : l[i] = <<v4, f + i - 1>>
  BY <1>2 DEF Chats!Number
<1> HIDE DEF l
<1>5. l \in Seq(Chat \X Chats!Number) /\ Len(l) = n
  <2>1. l \in Seq(Chat \X Chats!Number)
    BY ONLY <1>2, <1>4, SeqDef
  <2> QED BY ONLY <1>2, <1>4, <2>1, LenProperties
<1>6. v8 \in Seq(Chat \X Chats!Number) /\ Len(v8) \in Nat
  BY LenProperties DEF Chats!ChatTypes
<1>7. /\ v8 \o l \in Seq(Chat \X Chats!Number) /\ Len(v8 \o l) = Len(v8) + n
      /\ \A i \in 1..Len(v8) : (v8 \o l)[i] = v8[i]
      /\ \A i \in Len(v8) + 1..Len(v8) + n : (v8 \o l)[i] = l[i - Len(v8)]
  <2> DEFINE S == Chat \X Chats!Number
  <2>1. v8 \in Seq(S) /\ l \in Seq(S) /\ Len(v8) \in Nat /\ Len(l) = n /\ n \in Nat
    BY <1>2, <1>5, <1>6
  <2> HIDE DEF S
  <2>2. v8 \o l \in Seq(S) /\ Len(v8 \o l) = Len(v8) + n
    BY ONLY <2>1, ConcatProperties
  <2>3. ASSUME NEW i \in 1..Len(v8) + n
        PROVE  (v8 \o l)[i] = IF i <= Len(v8) THEN v8[i] ELSE l[i - Len(v8)]
    BY ONLY <2>1, <2>3, ConcatProperties
  <2>4. \A i \in 1..Len(v8) : (v8 \o l)[i] = v8[i]
    BY ONLY <2>1, <2>3
  <2>5. \A i \in Len(v8) + 1..Len(v8) + n : (v8 \o l)[i] = l[i - Len(v8)]
    BY ONLY <2>1, <2>3
  <2> QED BY <2>2, <2>4, <2>5 DEF S
<1>8. ASSUME NEW i \in Len(v8) + 1..Len(v8) + n
      PROVE  Chats!messages[i] = <<v4, f - Len(v8) + i - 1>>
  <2>1. i - Len(v8) \in 1..n
    BY ONLY <1>2, <1>6, <1>8
  <2>2. l[i - Len(v8)] = <<v4, f + (i - Len(v8)) - 1>>
    BY <1>4, <2>1
  <2>3. f + (i - Len(v8)) - 1 = f - Len(v8) + i - 1
    BY ONLY <1>2, <1>6, <1>8
  <2> QED BY <1>3, <1>7, <2>2, <2>3
<1> QED BY <1>2, <1>3, <1>6, <1>7, <1>8 DEF f, n

\* What is on screen is one piece of the chat that is open.
LEMMA ChatOnePiece ==
    ASSUME Chats!Bounds, Chats!ChatInv
    PROVE  Chats!OnePiece
<1>0. Chats!ChatTypes /\ Chats!OlderFollow
  BY DEF Chats!ChatInv
<1> SUFFICES ASSUME ~ v12, NEW i \in DOMAIN Chats!messages
             PROVE  /\ Chats!messages[i][1] = v4
                    /\ i > 1 => Chats!messages[i][2] = Chats!messages[i - 1][2] + 1
  BY DEF Chats!OnePiece
<1>1. CASE v4 \in Chat
  <2> DEFINE f == Chats!First(v6[v4])
             n == v6[v4] - f + 1
             o == f - Len(v8)
  <2>1. /\ f \in Nat \ {0} /\ n \in Nat /\ Len(v8) \in Nat
        /\ Chats!messages \in Seq(Chat \X Chats!Number)
        /\ Len(Chats!messages) = Len(v8) + n
        /\ \A j \in 1..Len(v8) : Chats!messages[j] = v8[j]
        /\ \A j \in Len(v8) + 1..Len(v8) + n : Chats!messages[j] = <<v4, f - Len(v8) + j - 1>>
    BY <1>0, <1>1, ShownMessages
  <2>2. \A j \in 1..Len(v8) : v8[j] = <<v4, o + j - 1>>
    <3>1. v4 # NoChat
      BY <1>1 DEF Chats!Bounds
    <3>2. DOMAIN v8 = 1..Len(v8)
      BY <1>0, LenProperties DEF Chats!ChatTypes
    <3> QED BY <1>0, <3>1, <3>2 DEF Chats!OlderFollow, Chats!OldestShown
  <2> HIDE DEF f, n, o
  <2>3. o = f - Len(v8)
    BY DEF o
  <2>4. ASSUME NEW j \in 1..Len(v8) + n PROVE Chats!messages[j] = <<v4, o + j - 1>>
    <3>1. CASE j \in 1..Len(v8)
      BY <2>1, <2>2, <3>1
    <3>2. CASE j \in Len(v8) + 1..Len(v8) + n
      BY <2>1, <2>3, <3>2
    <3> QED BY <2>1, <3>1, <3>2
  <2>5. i \in 1..Len(v8) + n
    BY <2>1, LenProperties
  <2>6. o \in Int
    BY <2>1, <2>3
  <2>7. Chats!messages[i] = <<v4, o + i - 1>>
    BY <2>4, <2>5
  <2>8. ASSUME i > 1 PROVE Chats!messages[i - 1] = <<v4, o + (i - 1) - 1>>
    <3>1. i - 1 \in 1..Len(v8) + n
      BY <2>1, <2>5, <2>8
    <3> QED BY <2>4, <3>1
  <2>9. i \in Int /\ o + i - 1 = (o + (i - 1) - 1) + 1
    BY <2>1, <2>5, <2>6
  <2> QED BY <2>7, <2>8, <2>9
<1>2. CASE v4 = NoChat
  BY <1>2 DEF Chats!messages
<1> QED BY <1>0, <1>1, <1>2 DEF Chats!ChatTypes

\* The older messages.
LEMMA OlderKept ==
    ASSUME Chats!Bounds, Chats!ChatInv, Chats!loadOlder \/ Chats!OlderArrive \/ Chats!OlderFails
    PROVE  Chats!ChatInv'
<1> USE DEF Chats!server, Chats!cached, Chats!pages, Chats!history
<1>0. /\ Chats!ChatTypes /\ Chats!OlderFollow
      /\ v1 \in Conversations /\ FetchTyped(v7) /\ PostTyped(v11)
  BY DEF Chats!ChatInv, Chats!ChatTypes, Conversations, FetchTyped, PostTyped
<1>a. UNCHANGED <<v1, v4, v6, v7, v11, v12>>
  BY DEF Chats!loadOlder, Chats!OlderArrive, Chats!OlderFails
<1>b. ASSUME v8' \in Seq(Chat \X Chats!Number), v9' \in [chat : Chat, before : Chats!Number] \union {Chats!NoPage},
             Chats!OlderFollow'
      PROVE  Chats!ChatInv'
  <2>1. v1' \in Conversations /\ FetchTyped(v7') /\ PostTyped(v11')
    BY <1>0, <1>a
  <2>2. v4' \in Chat \union {NoChat} /\ v6' \in [Chat -> Nat]
    BY <1>0, <1>a DEF Chats!ChatTypes
  <2>3. v12' \in BOOLEAN
    BY <1>0, <1>a, Zenon DEF Chats!ChatTypes
  <2>4. Chats!ChatTypes'
    BY <1>b, <2>1, <2>2, <2>3, Zenon DEF Chats!ChatTypes, FetchTyped, PostTyped, Conversations
  <2> QED BY <1>b, <2>4 DEF Chats!ChatInv
<1>c. v8 \in Seq(Chat \X Chats!Number) /\ v9 \in [chat : Chat, before : Chats!Number] \union {Chats!NoPage}
  BY <1>0 DEF Chats!ChatTypes
<1>1. CASE Chats!loadOlder
  <2>1. v8' = v8 /\ Chats!messages # <<>> /\ v9' = [chat |-> v4, before |-> Chats!messages[1][2]]
    BY <1>1 DEF Chats!loadOlder, Chats!Oldest
  <2>2. v4 \in Chat /\ v4 # NoChat
    BY <1>0, <2>1 DEF Chats!messages, Chats!ChatTypes
  <2> DEFINE f == Chats!First(v6[v4])
             n == v6[v4] - f + 1
  <2>3. /\ f \in Nat \ {0} /\ n \in Nat /\ Len(v8) \in Nat
        /\ Chats!messages \in Seq(Chat \X Chats!Number)
        /\ Len(Chats!messages) = Len(v8) + n
        /\ \A j \in 1..Len(v8) : Chats!messages[j] = v8[j]
        /\ \A j \in Len(v8) + 1..Len(v8) + n : Chats!messages[j] = <<v4, f - Len(v8) + j - 1>>
    BY <1>0, <2>2, ShownMessages
  <2>4. Chats!OldestShown(v4) = f - Len(v8)
    BY DEF Chats!OldestShown
  <2> HIDE DEF f, n
  <2>5. 1 \in 1..Len(v8) + n
    BY <2>1, <2>3, EmptySeq
  <2>6. Chats!messages[1] \in Chat \X Chats!Number
    BY <2>3, <2>5, ElementOfSeq
  <2>7. v9' \in [chat : Chat, before : Chats!Number]
    BY <2>1, <2>2, <2>6
  <2>8. ~ v12 => Chats!messages[1][2] = Chats!OldestShown(v4)
    <3> SUFFICES ASSUME ~ v12 PROVE Chats!messages[1][2] = Chats!OldestShown(v4)
      OBVIOUS
    <3>1. CASE Len(v8) = 0
      BY <2>3, <2>4, <2>5, <3>1
    <3>2. CASE Len(v8) # 0
      <4>1. 1 \in DOMAIN v8 /\ 1 \in 1..Len(v8)
        BY <1>c, <2>3, <3>2, LenProperties
      <4>2. v8[1] = <<v4, Chats!OldestShown(v4) + 1 - 1>>
        BY <1>0, <2>2, <4>1 DEF Chats!OlderFollow
      <4>3. Chats!OldestShown(v4) \in Int
        BY <2>3, <2>4
      <4> QED BY <2>3, <4>1, <4>2, <4>3
    <3> QED BY <3>1, <3>2
  <2>9. Chats!OlderFollow'
    <3>1. v4' = v4 /\ v12' = v12
      BY <1>a
    <3>2. ~ v12 => /\ Chats!OldestShown(v4) > 0
                   /\ \A i \in DOMAIN v8 : v8[i] = <<v4, Chats!OldestShown(v4) + i - 1>>
      BY <1>0, <2>2 DEF Chats!OlderFollow
    <3>3. Chats!OldestShown(v4)' = Chats!OldestShown(v4)
      BY <1>a, <2>1 DEF Chats!OldestShown, Chats!First
    <3> QED BY <2>1, <2>2, <2>8, <3>1, <3>2, <3>3 DEF Chats!OlderFollow
  <2> QED BY <1>b, <1>c, <2>1, <2>7, <2>9
<1>2. CASE Chats!OlderFails
  <2>1. v8' = v8 /\ v9' = Chats!NoPage
    BY <1>2 DEF Chats!OlderFails
  <2>2. Chats!OldestShown(v4)' = Chats!OldestShown(v4)
    BY <1>a, <2>1 DEF Chats!OldestShown, Chats!First
  <2>3. Chats!OlderFollow'
    BY <1>0, <1>a, <2>1, <2>2 DEF Chats!OlderFollow
  <2> QED BY <1>b, <1>c, <2>1, <2>3
<1>3. CASE Chats!OlderArrive
  <2> DEFINE last == v9.before - 1
             k == IF last = 0 THEN 0 ELSE last - Chats!First(last) + 1
             page == [i \in 1..k |-> <<v9.chat, Chats!First(last) + i - 1>>]
  <2>1. v9 # Chats!NoPage /\ v9' = Chats!NoPage /\ v8' = page \o v8
    BY <1>3 DEF Chats!OlderArrive
  <2>2. v9.chat \in Chat /\ v9.before \in Chats!Number /\ v9 \in [chat : Chat, before : Chats!Number]
    BY <1>c, <2>1
  <2>3. v4 \in Chat /\ v4 # NoChat
    BY <1>0, <2>1 DEF Chats!ChatTypes, Chats!OlderFollow
  <2>4. last \in Nat /\ v9.before = last + 1
    BY <2>2 DEF Chats!Number
  <2>5. /\ k \in Nat /\ Chats!First(last) \in Nat \ {0}
        /\ (last # 0 => k = last - Chats!First(last) + 1)
        /\ (last = 0 => k = 0)
    BY <2>4, FirstOfPage
  <2> DEFINE g == Chats!First(last)
  <2>6. \A i \in 1..k : page[i] = <<v9.chat, g + i - 1>> /\ page[i] \in Chat \X Chats!Number
    BY <2>2, <2>5 DEF Chats!Number
  <2>7. page \in Seq(Chat \X Chats!Number) /\ Len(page) = k
    <3>1. page \in [1..k -> Chat \X Chats!Number]
      BY <2>6
    <3> HIDE DEF page, k
    <3>2. page \in Seq(Chat \X Chats!Number)
      BY ONLY <2>5, <3>1, SeqDef
    <3> QED BY ONLY <2>5, <3>1, <3>2, LenProperties
  <2>8. k = 0 => last = 0
    BY <2>4, FirstOfPage
  <2> HIDE DEF last, k, page, g
  <2>9. /\ v8' \in Seq(Chat \X Chats!Number) /\ Len(v8) \in Nat /\ Len(v8') = k + Len(v8)
        /\ \A i \in 1..k : v8'[i] = page[i]
        /\ \A i \in k + 1..k + Len(v8) : v8'[i] = v8[i - k]
    <3> DEFINE S == Chat \X Chats!Number
    <3>1. page \in Seq(S) /\ v8 \in Seq(S) /\ Len(v8) \in Nat /\ Len(page) = k /\ k \in Nat
      BY <1>c, <2>5, <2>7, LenProperties
    <3> HIDE DEF S
    <3>2. page \o v8 \in Seq(S) /\ Len(page \o v8) = k + Len(v8)
      BY ONLY <3>1, ConcatProperties
    <3>3. ASSUME NEW i \in 1..k + Len(v8)
          PROVE  (page \o v8)[i] = IF i <= k THEN page[i] ELSE v8[i - k]
      BY ONLY <3>1, <3>3, ConcatProperties
    <3>4. \A i \in 1..k : (page \o v8)[i] = page[i]
      BY ONLY <3>1, <3>3
    <3>5. \A i \in k + 1..k + Len(v8) : (page \o v8)[i] = v8[i - k]
      BY ONLY <3>1, <3>3
    <3> QED BY <2>1, <3>1, <3>2, <3>4, <3>5 DEF S
  <2>10. ASSUME ~ v12
         PROVE  /\ Chats!OldestShown(v4)' > 0
                /\ \A i \in DOMAIN v8' : v8'[i] = <<v4, Chats!OldestShown(v4)' + i - 1>>
    <3> DEFINE f == Chats!First(v6[v4])
    <3>1. f \in Nat
      BY <1>0, <2>3, FirstOfPage DEF Chats!ChatTypes
    <3>2. Chats!OldestShown(v4) = f - Len(v8) /\ Chats!OldestShown(v4)' = f - Len(v8')
      BY <1>a DEF Chats!OldestShown, Chats!First
    <3> HIDE DEF f
    <3> DEFINE o == f - Len(v8)
    <3>3. /\ o > 0 /\ v9.chat = v4 /\ v9.before = o
          /\ \A i \in DOMAIN v8 : v8[i] = <<v4, o + i - 1>>
      BY <1>0, <2>1, <2>3, <2>10, <3>2 DEF Chats!OlderFollow
    <3>4. o \in Int /\ o = last + 1 /\ f - Len(v8') = o - k
      <4>1. f \in Nat /\ Len(v8) \in Nat /\ k \in Nat /\ Len(v8') = k + Len(v8) /\ o = last + 1
        BY <2>4, <2>5, <2>9, <3>1, <3>3
      <4> QED BY ONLY <4>1
    <3>5. o - k > 0 /\ (k # 0 => g = o - k)
      BY <2>4, <2>5, <2>8, <3>4 DEF g
    <3> HIDE DEF o
    <3>6. ASSUME NEW i \in DOMAIN v8' PROVE v8'[i] = <<v4, (o - k) + i - 1>>
      <4>1. i \in 1..k + Len(v8)
        BY <2>9, <3>6, LenProperties
      <4>2. CASE i \in 1..k
        <5>1. v8'[i] = <<v4, g + i - 1>>
          BY <2>6, <2>9, <3>3, <4>2
        <5>2. g = o - k
          BY <2>5, <3>5, <4>2
        <5> QED BY <5>1, <5>2
      <4>3. CASE i \in k + 1..k + Len(v8)
        <5>1. i - k \in DOMAIN v8
          BY <1>c, <2>5, <2>9, <4>3, LenProperties
        <5>2. v8'[i] = <<v4, o + (i - k) - 1>>
          BY <2>9, <3>3, <4>3, <5>1
        <5>3. o + (i - k) - 1 = (o - k) + i - 1
          BY <2>5, <2>9, <3>4, <4>3
        <5> QED BY <5>2, <5>3
      <4> QED BY <2>5, <2>9, <4>1, <4>2, <4>3
    <3> QED BY <3>2, <3>4, <3>5, <3>6
  <2>11. Chats!OlderFollow'
    BY <1>a, <2>1, <2>3, <2>10 DEF Chats!OlderFollow
  <2> QED BY <1>b, <2>1, <2>9, <2>11
<1> QED BY <1>1, <1>2, <1>3

\* A message more.
LEMMA MessagePut ==
    ASSUME v1 \in Conversations, NEW c \in Chat, NEW by \in {"me", "other"},
           v1' = [v1 EXCEPT ![c] = Append(@, by)]
    PROVE  v1' \in Conversations
<1>1. v1[c] \in Seq({"me", "other"})
  BY DEF Conversations
<1>2. Append(v1[c], by) \in Seq({"me", "other"})
  BY <1>1, AppendProperties
<1> DEFINE s == Append(v1[c], by)
<1>3. v1' = [v1 EXCEPT ![c] = s] /\ s \in Seq({"me", "other"})
  BY <1>2
<1> HIDE DEF s
<1> QED BY ONLY <1>3, v1 \in Conversations DEF Conversations

\* A query comes to rest.
LEMMA FetchRests ==
    ASSUME FetchTyped(v7), NEW p, v7' = [v7 EXCEPT ![p] = Chats!NoFetch]
    PROVE  FetchTyped(v7')
<1>1. Chats!NoFetch.pc = "none"
  BY DEF Chats!NoFetch
<1>2. v7' = [q \in Chats!Query |-> v7'[q]]
  BY DEF FetchTyped
<1>3. \A c \in Chat : c \in Chats!Query
  BY DEF Chats!Query
<1>4. ASSUME NEW c \in Chat, v7'[c].pc = "answered" PROVE v7'[c].value \in Nat
  <2>1. v7'[c] = IF c = p THEN Chats!NoFetch ELSE v7[c]
    BY <1>3 DEF FetchTyped
  <2> QED BY <1>1, <1>4, <2>1 DEF FetchTyped
<1> QED BY <1>2, <1>4 DEF FetchTyped

\* A chat is left, or opened.
LEMMA ChatEntered ==
    ASSUME Chats!Bounds, Chats!ChatInv, NEW c \in Chat, NEW again, Chats!setActiveChatId(c, again),
           UNCHANGED <<v1, v6, v9>>, PostTyped(v11')
    PROVE  Chats!ChatInv'
<1>0. Chats!ChatTypes /\ Chats!OlderFollow /\ FetchTyped(v7)
  BY DEF Chats!ChatInv, Chats!ChatTypes, FetchTyped
<1>1. v4' = c /\ v8' = <<>>
  BY DEF Chats!setActiveChatId, Chats!Reset
<1>2. v12' \in BOOLEAN /\ (~ v12' => ~ v12 /\ v9 = Chats!NoPage)
  BY <1>0, Zenon DEF Chats!setActiveChatId, Chats!ChatTypes
<1>3. FetchTyped(v7')
  <2>1. Chats!Fetches(again \union {q \in {c} : v7[q] = Chats!NoFetch})
    BY DEF Chats!setActiveChatId
  <2> QED BY <1>0, <2>1, FetchedAgain
<1>4. Chats!ChatTypes'
  <2>1. /\ v1' \in Conversations /\ v6' \in [Chat -> Nat] /\ v4' \in Chat \union {NoChat}
        /\ v8' \in Seq(Chat \X Chats!Number) /\ v9' \in [chat : Chat, before : Chats!Number] \union {Chats!NoPage}
    BY <1>0, <1>1, EmptySeq DEF Chats!ChatTypes, Conversations
  <2> QED BY <1>2, <1>3, <2>1, Zenon DEF Chats!ChatTypes, FetchTyped, PostTyped, Conversations
<1>5. Chats!OlderFollow'
  <2>1. c # NoChat /\ DOMAIN v8' = {} /\ Len(v8') = 0
    BY <1>1 DEF Chats!Bounds
  <2>2. Chats!First(v6[c]) \in Nat \ {0}
    BY <1>0, FirstOfPage DEF Chats!ChatTypes
  <2>3. Chats!First(v6'[c]) = Chats!First(v6[c])
    BY DEF Chats!First
  <2>4. Chats!OldestShown(c)' > 0
    BY <2>1, <2>2, <2>3 DEF Chats!OldestShown, Chats!First
  <2> QED BY <1>1, <1>2, <2>1, <2>4 DEF Chats!OlderFollow, Chats!OldestShown, Chats!First
<1> QED BY <1>4, <1>5 DEF Chats!ChatInv

\* Every step of the page, its requests and the stream keeps the invariant.
LEMMA ChatsKept ==
    ASSUME Chats!Bounds, Chats!ChatInv, Chats!Next
    PROVE  Chats!ChatInv'
<1> USE DEF Chats!server, Chats!cached, Chats!pages, Chats!history
<1>0. /\ Chats!ChatTypes /\ Chats!OlderFollow
      /\ v1 \in Conversations /\ FetchTyped(v7) /\ PostTyped(v11)
  BY DEF Chats!ChatInv, Chats!ChatTypes, Conversations, FetchTyped, PostTyped
<1>1. ASSUME NEW c \in Chat, Chats!OtherPosts(c)
      PROVE  Chats!ChatInv'
  <2>1. UNCHANGED <<v4, v6, v7, v8, v9, v11, v12>> /\ v1' = [v1 EXCEPT ![c] = Append(@, "other")]
    BY <1>1 DEF Chats!OtherPosts
  <2>2. v1' \in Conversations
    BY <1>0, <2>1, MessagePut
  <2>3. FetchTyped(v7') /\ PostTyped(v11')
    BY <1>0, <2>1
  <2> QED BY <2>1, <2>2, <2>3, ChatStays
<1>2. ASSUME NEW c \in Chat, Chats!MarkRead(c)
      PROVE  Chats!ChatInv'
  <2>1. UNCHANGED <<v1, v4, v6, v7, v8, v9, v11, v12>>
    BY <1>2 DEF Chats!MarkRead
  <2> QED BY <1>0, <2>1, ChatStays
<1>3. ASSUME NEW c \in Chat, Chats!ReadMarked(c)
      PROVE  Chats!ChatInv'
  <2>1. UNCHANGED <<v1, v4, v6, v8, v9, v11, v12>> /\ Chats!Fetches({"chats"})
    BY <1>3 DEF Chats!ReadMarked
  <2> QED BY <1>0, <2>1, FetchedAgain, ChatStays
<1>4. ASSUME NEW c \in Chat, Chats!PickChat(c)
      PROVE  Chats!ChatInv'
  <2>1. UNCHANGED <<v1, v6, v9, v11>> /\ Chats!setActiveChatId(c, {})
    BY <1>4 DEF Chats!PickChat
  <2> QED BY <1>0, <2>1, ChatEntered
<1>5. ASSUME NEW c \in Chat, Chats!MessagesArrive(c)
      PROVE  Chats!ChatInv'
  <2> DEFINE n == v7[c].value
  <2>1. /\ UNCHANGED <<v1, v4, v8, v9, v11>> /\ v6' = [v6 EXCEPT ![c] = n]
        /\ v7' = [v7 EXCEPT ![c] = Chats!NoFetch] /\ v7[c].pc = "answered"
    BY <1>5 DEF Chats!MessagesArrive
  <2>2. v12' \in BOOLEAN /\ (~ v12' => ~ v12)
    <3>1. CASE c = v4
      BY <1>0, <1>5, <3>1, Zenon DEF Chats!MessagesArrive, Chats!ChatTypes
    <3>2. CASE c # v4
      BY <1>0, <1>5, <3>2, Zenon DEF Chats!MessagesArrive, Chats!ChatTypes
    <3> QED BY <3>1, <3>2
  <2>3. c = v4 /\ ~ v12' => n = v6[c] \/ (v8 = <<>> /\ v9 = Chats!NoPage)
    BY <1>5, Zenon DEF Chats!MessagesArrive
  <2>4. n \in Nat
    BY <1>0, <2>1 DEF FetchTyped
  <2> HIDE DEF n
  <2>5. FetchTyped(v7')
    BY <1>0, <2>1, FetchRests
  <2>6. v6 \in [Chat -> Nat] /\ v6' \in [Chat -> Nat] /\ \A d \in Chat : v6'[d] = IF d = c THEN n ELSE v6[d]
    BY <1>0, <2>1, <2>4 DEF Chats!ChatTypes
  <2>7. Chats!ChatTypes'
    <3>1. /\ v4' \in Chat \union {NoChat} /\ v1' \in Conversations
          /\ v8' \in Seq(Chat \X Chats!Number) /\ v9' \in [chat : Chat, before : Chats!Number] \union {Chats!NoPage}
      BY <1>0, <2>1 DEF Chats!ChatTypes
    <3>2. PostTyped(v11')
      BY <1>0, <2>1
    <3> QED BY <2>2, <2>5, <2>6, <3>1, <3>2, Zenon DEF Chats!ChatTypes, FetchTyped, PostTyped, Conversations
  <2>8. Chats!OlderFollow'
    <3>1. CASE v4 = NoChat
      BY <1>0, <2>1, <3>1 DEF Chats!OlderFollow
    <3>2. CASE v4 \in Chat /\ v6'[v4] = v6[v4]
      <4>1. Chats!OldestShown(v4)' = Chats!OldestShown(v4)
        BY <2>1, <3>2 DEF Chats!OldestShown, Chats!First
      <4> QED BY <1>0, <2>1, <2>2, <4>1, <3>2 DEF Chats!OlderFollow
    <3>3. CASE v4 \in Chat /\ v6'[v4] # v6[v4]
      <4>1. c = v4 /\ n # v6[c]
        BY <2>6, <3>3
      <4>2. ~ v12' => v8 = <<>> /\ v9 = Chats!NoPage
        BY <2>3, <4>1
      <4>3. Chats!First(v6'[v4]) \in Nat \ {0}
        BY <2>6, <3>3, FirstOfPage
      <4>4. ~ v12' => Chats!OldestShown(v4)' > 0
        BY <2>1, <4>2, <4>3 DEF Chats!OldestShown, Chats!First
      <4> QED BY <2>1, <4>2, <4>4, <3>3 DEF Chats!OlderFollow, Chats!Bounds
    <3> QED BY <1>0, <3>1, <3>2, <3>3 DEF Chats!ChatTypes
  <2> QED BY <2>7, <2>8 DEF Chats!ChatInv
<1>6. ASSUME NEW c \in Chat, Chats!onCreateChat(c)
      PROVE  Chats!ChatInv'
  <2>1. /\ UNCHANGED <<v1, v4, v6, v7, v8, v9, v12>>
        /\ v11' = [pc |-> "sent", chat |-> c, opens |-> TRUE]
    BY <1>6 DEF Chats!onCreateChat
  <2>2. PostTyped(v11')
    BY <2>1 DEF PostTyped
  <2> QED BY <1>0, <2>1, <2>2, ChatStays
<1>7. ASSUME NEW m \in v10, Chats!MarkFails(m)
      PROVE  Chats!ChatInv'
  <2>1. UNCHANGED <<v1, v4, v6, v7, v8, v9, v11, v12>>
    BY <1>7 DEF Chats!MarkFails
  <2> QED BY <1>0, <2>1, ChatStays
<1>8. ASSUME NEW q \in Chats!Query, Chats!Serve(q)
      PROVE  Chats!ChatInv'
  <2> DEFINE a == [pc |-> "answered", value |-> CASE q = "chats" -> Chats!UnreadByChat
                                                  [] OTHER -> Len(v1[q])]
  <2>1. UNCHANGED <<v1, v4, v6, v8, v9, v11, v12>> /\ v7' = [v7 EXCEPT ![q] = a]
    BY <1>8 DEF Chats!Serve
  <2>2. q \in Chat => a.value \in Nat
    <3> SUFFICES ASSUME q \in Chat PROVE a.value \in Nat
      OBVIOUS
    <3>1. q # "chats"
      BY DEF Chats!Bounds
    <3>2. a.value = Len(v1[q])
      BY <3>1
    <3>3. v1[q] \in Seq({"me", "other"})
      BY <1>0 DEF Conversations
    <3> QED BY ONLY <3>2, <3>3, LenProperties
  <2> HIDE DEF a
  <2>3. FetchTyped(v7')
    <3>1. v7' = [p \in Chats!Query |-> v7'[p]]
      BY <1>0, <2>1 DEF FetchTyped
    <3>2. ASSUME NEW c \in Chat, v7'[c].pc = "answered" PROVE v7'[c].value \in Nat
      <4>1. c \in Chats!Query
        BY DEF Chats!Query
      <4>2. v7'[c] = IF c = q THEN a ELSE v7[c]
        BY <1>0, <2>1, <4>1 DEF FetchTyped
      <4> QED BY <1>0, <2>2, <3>2, <4>2 DEF FetchTyped
    <3> QED BY <3>1, <3>2 DEF FetchTyped
  <2> QED BY <1>0, <2>1, <2>3, ChatStays
<1>9. ASSUME Chats!PostMessage
      PROVE  Chats!ChatInv'
  <2>1. /\ UNCHANGED <<v4, v6, v7, v8, v9, v12>> /\ v11.pc = "sent"
        /\ v11' = [v11 EXCEPT !.pc = "stored"]
        /\ v1' = v1 \/ v1' = [v1 EXCEPT ![v11.chat] = Append(@, "me")]
    BY <1>9 DEF Chats!PostMessage
  <2>2. v11.chat \in Chat
    BY <1>0, <2>1 DEF PostTyped
  <2>3. v1' \in Conversations
    BY <1>0, <2>1, <2>2, MessagePut
  <2>4. PostTyped(v11')
    BY <1>0, <2>1, <2>2 DEF PostTyped
  <2> QED BY <1>0, <2>1, <2>3, <2>4, ChatStays
<1>10. ASSUME Chats!refresh
       PROVE  Chats!ChatInv'
  <2>1. /\ UNCHANGED <<v1, v4, v6, v8, v9, v11, v12>>
        /\ Chats!Fetches({"chats"} \union ({v4} \intersect Chat))
    BY <1>10 DEF Chats!refresh
  <2> QED BY <1>0, <2>1, FetchedAgain, ChatStays
<1>11. ASSUME Chats!FrameLost
       PROVE  Chats!ChatInv'
  <2>1. UNCHANGED <<v1, v4, v6, v7, v8, v9, v11, v12>>
    BY <1>11 DEF Chats!FrameLost
  <2> QED BY <1>0, <2>1, ChatStays
<1>12. ASSUME Chats!ChatsArrive
       PROVE  Chats!ChatInv'
  <2>1. UNCHANGED <<v1, v4, v6, v8, v9, v11, v12>> /\ v7' = [v7 EXCEPT !["chats"] = Chats!NoFetch]
    BY <1>12 DEF Chats!ChatsArrive
  <2> QED BY <1>0, <2>1, FetchRests, ChatStays
<1>13. ASSUME Chats!onSendMessage
       PROVE  Chats!ChatInv'
  <2>1. /\ UNCHANGED <<v1, v4, v6, v7, v8, v9, v12>> /\ v4 # NoChat
        /\ v11' = [pc |-> "sent", chat |-> v4, opens |-> FALSE]
    BY <1>13 DEF Chats!onSendMessage
  <2>2. PostTyped(v11')
    BY <1>0, <2>1 DEF PostTyped, Chats!ChatTypes
  <2> QED BY <1>0, <2>1, <2>2, ChatStays
<1>14. ASSUME Chats!MessagePosted
       PROVE  Chats!ChatInv'
  <2>1. /\ UNCHANGED <<v1, v4, v6, v8, v9, v12>> /\ v11' = Chats!NoPost
        /\ Chats!Fetches({"chats", v4})
    BY <1>14 DEF Chats!MessagePosted
  <2>2. PostTyped(v11')
    BY <2>1 DEF PostTyped, Chats!NoPost
  <2> QED BY <1>0, <2>1, <2>2, FetchedAgain, ChatStays
<1>15. ASSUME Chats!ChatCreated
       PROVE  Chats!ChatInv'
  <2>1. /\ UNCHANGED <<v1, v4, v6, v8, v9, v12>> /\ v11.pc = "stored"
        /\ v11' = [v11 EXCEPT !.pc = "opening"] /\ Chats!Fetches({"chats"})
    BY <1>15 DEF Chats!ChatCreated
  <2>2. PostTyped(v11')
    BY <1>0, <2>1 DEF PostTyped
  <2> QED BY <1>0, <2>1, <2>2, FetchedAgain, ChatStays
<1>16. ASSUME Chats!ChatOpened
       PROVE  Chats!ChatInv'
  <2>1. UNCHANGED <<v1, v6, v9>> /\ v11' = Chats!NoPost /\ v11.pc = "opening"
    BY <1>16 DEF Chats!ChatOpened
  <2>2. PostTyped(v11')
    BY <2>1 DEF PostTyped, Chats!NoPost
  <2>3. v11.chat \in Chat
    BY <1>0, <2>1 DEF PostTyped
  <2>4. CASE Chats!setActiveChatId(v11.chat, {v4} \intersect Chat)
    BY <2>1, <2>2, <2>3, <2>4, ChatEntered
  <2>5. CASE Chats!Fetches({v4}) /\ UNCHANGED <<v4, v8, v9, v12>>
    BY <1>0, <2>1, <2>2, <2>5, FetchedAgain, ChatStays
  <2> QED BY <1>16, <2>4, <2>5 DEF Chats!ChatOpened
<1>17. ASSUME Chats!PostFails
       PROVE  Chats!ChatInv'
  <2>1. UNCHANGED <<v1, v4, v6, v7, v8, v9, v12>> /\ v11' = Chats!NoPost
    BY <1>17 DEF Chats!PostFails
  <2>2. PostTyped(v11')
    BY <2>1 DEF PostTyped, Chats!NoPost
  <2> QED BY <1>0, <2>1, <2>2, ChatStays
<1>18. CASE Chats!loadOlder \/ Chats!OlderArrive \/ Chats!OlderFails
  BY <1>18, OlderKept
<1> QED BY <1>1, <1>2, <1>3, <1>4, <1>5, <1>6, <1>7, <1>8, <1>9, <1>10, <1>11, <1>12, <1>13, <1>14,
           <1>15, <1>16, <1>17, <1>18 DEF Chats!Next

-----------------------------------------------------------------------------
(* The chats of a club, whether their counts follow: v2 and v5 are what is  *)
(* read and unread, v3 says that events are on their way, v10 are the chats *)
(* being marked as read, v13 the queries an event was missed for.           *)

\* What is typed of the page.
LEMMA MessageTypes ==
    ASSUME Chats!Bounds, Chats!ChatInv
    PROVE  /\ v1 \in Conversations /\ v4 \in Chat \union {NoChat} /\ v6 \in [Chat -> Nat]
           /\ v7 = [q \in Chats!Query |-> v7[q]] /\ Chats!Query = {"chats"} \union Chat
           /\ "chats" \notin Chat /\ NoChat \notin Chat
           /\ v11 \in [pc : {"none", "sent", "stored", "opening"}, chat : Chat \union {NoChat},
                       opens : BOOLEAN]
           /\ v11.pc # "none" => v11.chat \in Chat
BY DEF Chats!Bounds, Chats!ChatInv, Chats!ChatTypes, Chats!Query, Conversations

\* The counts are those of the rows.
LEMMA CountsStay ==
    ASSUME UNCHANGED <<v1, v2>>
    PROVE  Chats!UnreadByChat' = Chats!UnreadByChat
BY DEF Chats!UnreadByChat, Chats!Unread

\* A message of one's own does not count.
LEMMA OwnNotCounted ==
    ASSUME v1 \in Conversations, UNCHANGED v2, NEW c \in Chat,
           v1' = [v1 EXCEPT ![c] = Append(@, "me")]
    PROVE  Chats!UnreadByChat' = Chats!UnreadByChat
<1>1. \A d \in Chat : d # c => v1'[d] = v1[d]
  BY DEF Conversations
<1> DEFINE Who == {"me", "other"}
<1>2. v1[c] \in Seq(Who) /\ v1'[c] = Append(v1[c], "me") /\ "me" \in Who
  BY DEF Conversations
<1> HIDE DEF Who
<1>3. /\ DOMAIN v1[c] = 1..Len(v1[c]) /\ DOMAIN v1'[c] = 1..(Len(v1[c]) + 1) /\ Len(v1[c]) \in Nat
      /\ \A i \in 1..Len(v1[c]) : v1'[c][i] = v1[c][i]
      /\ v1'[c][Len(v1[c]) + 1] = "me"
  BY <1>2
<1>4. {i \in DOMAIN v1'[c] : i > v2[c] /\ v1'[c][i] = "other"}
        = {i \in DOMAIN v1[c] : i > v2[c] /\ v1[c][i] = "other"}
  BY <1>3
<1>5. \A d \in Chat : {i \in DOMAIN v1'[d] : i > v2[d] /\ v1'[d][i] = "other"}
                        = {i \in DOMAIN v1[d] : i > v2[d] /\ v1[d][i] = "other"}
  BY <1>1, <1>4
<1>6. \A d \in Chat : {i \in DOMAIN v1'[d] : i > v2'[d] /\ v1'[d][i] = "other"}
                        = {i \in DOMAIN v1[d] : i > v2[d] /\ v1[d][i] = "other"}
  BY <1>5
<1>7. Chats!UnreadByChat' = [d \in Chat |-> Chats!Cardinality({i \in DOMAIN v1'[d] : i > v2'[d] /\ v1'[d][i] = "other"})]
  BY DEF Chats!UnreadByChat, Chats!Unread
<1>8. Chats!UnreadByChat = [d \in Chat |-> Chats!Cardinality({i \in DOMAIN v1[d] : i > v2[d] /\ v1[d][i] = "other"})]
  BY DEF Chats!UnreadByChat, Chats!Unread
<1> QED BY ONLY <1>6, <1>7, <1>8

\* What is fetched was sent.
LEMMA FetchesSend ==
    ASSUME NEW Q, Chats!Fetches(Q)
    PROVE  \A q \in Chats!Query : v7'[q] = IF q \in Q THEN Chats!Sent ELSE v7[q]
BY DEF Chats!Fetches

\* Before a chat is opened.
LEMMA AnswersInitially ==
    ASSUME Chats!Init
    PROVE  Chats!AnswersComing
<1>1. v3 = FALSE /\ v10 = {} /\ v4 = NoChat
  BY DEF Chats!Init
<1>2. v7["chats"] = Chats!NoFetch
  BY DEF Chats!Init, Chats!Query
<1>3. v5 = Chats!UnreadByChat
  BY DEF Chats!Init, Chats!UnreadByChat
<1> QED BY <1>1, <1>2, <1>3 DEF Chats!AnswersComing, Chats!CountsComing

\* What asks for nothing and changes no rows leaves them to come,
LEMMA ComingRests ==
    ASSUME Chats!AnswersComing, UNCHANGED <<v1, v2, v3, v4, v5, v6, v7, v10, v13>>,
           v11.pc \in {"stored", "opening"} =>
              v11'.pc \in {"stored", "opening"} /\ v11'.chat = v11.chat
    PROVE  Chats!AnswersComing'
BY CountsStay DEF Chats!AnswersComing, Chats!CountsComing, Chats!LastComing

\* and so does what asks for the chats,
LEMMA ChatsAsked ==
    ASSUME Chats!Bounds, Chats!ChatInv, Chats!AnswersComing, NEW Q, Chats!Fetches(Q), "chats" \in Q,
           UNCHANGED <<v1, v4, v6>>, v10' \subseteq v10,
           v3' = v3 \/ (v3' = FALSE /\ v4 \in Q \union {NoChat}), v13 \subseteq v13',
           v4 \in Q \union {NoChat} \/ v13' # {}
           \/ (v11.pc \in {"stored", "opening"} =>
                 v11'.pc \in {"stored", "opening"} /\ v11'.chat = v11.chat)
    PROVE  Chats!AnswersComing'
<1>0. v4 \in Chat \union {NoChat} /\ Chats!Query = {"chats"} \union Chat
  BY MessageTypes
<1>1. v7'["chats"] = Chats!Sent /\ (v4 \in Chat => v7'[v4] = IF v4 \in Q THEN Chats!Sent ELSE v7[v4])
  BY <1>0, FetchesSend
<1>2. v3' \/ v10' # {} => Chat # {}
  BY DEF Chats!AnswersComing
<1>3. Chats!CountsComing'
  BY <1>1 DEF Chats!CountsComing
<1>4. ASSUME v13' = {}, v4' # NoChat
      PROVE  Chats!LastComing'
  <2>1. v4 \in Chat /\ Chats!LastComing
    BY <1>0, <1>4 DEF Chats!AnswersComing
  <2>2. CASE v4 \in Q
    BY <1>1, <2>1, <2>2 DEF Chats!LastComing
  <2>3. CASE v4 \notin Q
    <3>1. v3' = v3 /\ v7'[v4] = v7[v4]
      BY <1>1, <1>4, <2>1, <2>3
    <3>2. v11.pc \in {"stored", "opening"} =>
                 v11'.pc \in {"stored", "opening"} /\ v11'.chat = v11.chat
      BY <1>4, <2>1, <2>3
    <3> QED BY <2>1, <3>1, <3>2 DEF Chats!LastComing
  <2> QED BY <2>2, <2>3
<1> QED BY <1>2, <1>3, <1>4 DEF Chats!AnswersComing

\* and another chat that is opened.
LEMMA ComingOpens ==
    ASSUME Chats!Bounds, Chats!ChatInv, Chats!AnswersComing, NEW c \in Chat, NEW again,
           Chats!setActiveChatId(c, again),
           UNCHANGED <<v1, v2, v3, v5, v6>>
    PROVE  Chats!AnswersComing'
<1> DEFINE Q == again \union {q \in {c} : v7[q] = Chats!NoFetch}
<1>0. Chats!Query = {"chats"} \union Chat /\ "chats" \notin Chat /\ NoChat \notin Chat
  BY MessageTypes
<1>1. /\ v4' = c /\ Chats!Fetches(Q) /\ v10 \subseteq v10'
      /\ v13 \union again \subseteq v13' /\ (v7[c] # Chats!NoFetch => c \in v13')
  BY DEF Chats!setActiveChatId
<1>2. \A q \in Chats!Query : v7'[q] = IF q \in Q THEN Chats!Sent ELSE v7[q]
  BY <1>1, FetchesSend
<1>3. ASSUME v13' = {}
      PROVE  Chats!CountsComing' /\ Chats!LastComing'
  <2>1. again = {} /\ v7[c] = Chats!NoFetch /\ v13 = {}
    BY <1>1, <1>3
  <2>2. v7'[c] = Chats!Sent /\ v7'["chats"] = v7["chats"]
    BY <1>0, <1>2, <2>1
  <2>3. Chats!CountsComing
    BY <2>1 DEF Chats!AnswersComing
  <2>4. Chats!CountsComing'
    BY <1>1, <2>2, <2>3, CountsStay DEF Chats!CountsComing
  <2> QED BY <1>1, <2>2, <2>4 DEF Chats!LastComing
<1> QED BY <1>3 DEF Chats!AnswersComing

\* Every step of the page, its requests and the stream has what is not there still to come.
LEMMA AnswersKept ==
    ASSUME Chats!Bounds, Chats!ChatInv, Chats!AnswersComing, Chats!Next
    PROVE  Chats!AnswersComing'
<1> USE DEF Chats!server, Chats!cached, Chats!pages, Chats!history
<1>0. /\ v1 \in Conversations /\ v4 \in Chat \union {NoChat} /\ v6 \in [Chat -> Nat]
      /\ v7 = [q \in Chats!Query |-> v7[q]] /\ Chats!Query = {"chats"} \union Chat
      /\ "chats" \notin Chat /\ NoChat \notin Chat
      /\ v11 \in [pc : {"none", "sent", "stored", "opening"}, chat : Chat \union {NoChat},
                  opens : BOOLEAN]
      /\ v11.pc # "none" => v11.chat \in Chat
  BY MessageTypes
<1>1. ASSUME NEW c \in Chat, Chats!OtherPosts(c)
      PROVE  Chats!AnswersComing'
  <2>1. v3'
    BY <1>1 DEF Chats!OtherPosts
  <2> QED BY <1>1, <2>1 DEF Chats!AnswersComing, Chats!CountsComing, Chats!LastComing
<1>2. ASSUME NEW q \in Chats!Query, Chats!Serve(q)
      PROVE  Chats!AnswersComing'
  <2>1. /\ UNCHANGED <<v1, v2, v3, v4, v5, v6, v10, v11, v13>>
        /\ v7' = [v7 EXCEPT ![q] = [pc |-> "answered",
                     value |-> CASE q = "chats" -> Chats!UnreadByChat [] OTHER -> Len(v1[q])]]
    BY <1>2 DEF Chats!Serve
  <2>2. /\ v7'[q].pc = "answered"
        /\ v7'[q].value = (CASE q = "chats" -> Chats!UnreadByChat [] OTHER -> Len(v1[q]))
        /\ \A p \in Chats!Query : p # q => v7'[p] = v7[p]
    BY <1>0, <2>1
  <2>3. q = "chats" => v7'[q].value = Chats!UnreadByChat
    BY <2>2
  <2>4. q # "chats" => v7'[q].value = Len(v1[q])
    BY <2>2
  <2>5. Chats!UnreadByChat' = Chats!UnreadByChat
    BY <2>1, CountsStay
  <2>6. Chats!CountsComing => Chats!CountsComing'
    <3>1. CASE q = "chats"
      BY <2>2, <2>3, <2>5, <3>1 DEF Chats!CountsComing
    <3>2. CASE q # "chats"
      <4>1. v7'["chats"] = v7["chats"]
        BY <1>0, <2>2, <3>2
      <4> QED BY <2>1, <2>5, <4>1 DEF Chats!CountsComing
    <3> QED BY <3>1, <3>2
  <2>7. v4 \in Chat /\ Chats!LastComing => Chats!LastComing'
    <3> SUFFICES ASSUME v4 \in Chat, Chats!LastComing PROVE Chats!LastComing'
      OBVIOUS
    <3>1. CASE q = v4
      BY <1>0, <2>1, <2>2, <2>4, <3>1 DEF Chats!LastComing
    <3>2. CASE q # v4
      <4>1. v7'[v4] = v7[v4]
        BY <1>0, <2>2, <3>2
      <4> QED BY <2>1, <4>1 DEF Chats!LastComing
    <3> QED BY <3>1, <3>2
  <2> QED BY <1>0, <2>1, <2>6, <2>7 DEF Chats!AnswersComing
<1>3. ASSUME NEW c \in Chat, Chats!MarkRead(c)
      PROVE  Chats!AnswersComing'
  <2>1. /\ UNCHANGED <<v1, v3, v4, v6, v7, v11, v13>>
        /\ [chat |-> c, pc |-> "done"] \in v10'
    BY <1>3 DEF Chats!MarkRead
  <2>2. Chats!CountsComing'
    <3>1. [chat |-> c, pc |-> "done"].pc = "done"
      OBVIOUS
    <3> QED BY <2>1, <3>1 DEF Chats!CountsComing
  <2> QED BY <1>3, <2>1, <2>2 DEF Chats!AnswersComing, Chats!LastComing
<1>4. ASSUME Chats!PostMessage
      PROVE  Chats!AnswersComing'
  <2>1. /\ UNCHANGED <<v2, v3, v4, v5, v6, v7, v10, v13>> /\ v11.pc = "sent"
        /\ v11' = [v11 EXCEPT !.pc = "stored"]
        /\ v1' = [v1 EXCEPT ![v11.chat] = Append(@, "me")] \/ v1' = v1
    BY <1>4 DEF Chats!PostMessage
  <2>2. v11.chat \in Chat /\ v11'.pc = "stored" /\ v11'.chat = v11.chat
    BY <1>0, <2>1
  <2>3. Chats!UnreadByChat' = Chats!UnreadByChat
    BY <1>0, <2>1, <2>2, CountsStay, OwnNotCounted
  <2>4. Chats!CountsComing => Chats!CountsComing'
    BY <2>1, <2>3 DEF Chats!CountsComing
  <2>5. v4 \in Chat /\ Chats!LastComing => Chats!LastComing'
    <3> SUFFICES ASSUME v4 \in Chat, Chats!LastComing PROVE Chats!LastComing'
      OBVIOUS
    <3>1. CASE v4 = v11.chat
      BY <2>1, <2>2, <3>1 DEF Chats!LastComing
    <3>2. CASE v4 # v11.chat
      <4>1. v1'[v4] = v1[v4]
        BY <1>0, <2>1, <3>2 DEF Conversations
      <4> QED BY <2>1, <4>1 DEF Chats!LastComing
    <3> QED BY <3>1, <3>2
  <2> QED BY <1>0, <2>1, <2>4, <2>5 DEF Chats!AnswersComing
<1>5. ASSUME Chats!refresh
      PROVE  Chats!AnswersComing'
  <2>1. /\ Chats!Fetches({"chats"} \union ({v4} \intersect Chat)) /\ v3' = FALSE
        /\ UNCHANGED <<v1, v4, v6, v10, v11, v13>>
    BY <1>5 DEF Chats!refresh
  <2> QED BY <1>0, <2>1, ChatsAsked
<1>6. ASSUME Chats!FrameLost
      PROVE  Chats!AnswersComing'
  <2>1. v3 /\ v13' = Chat /\ v10' = v10
    BY <1>6 DEF Chats!FrameLost
  <2> QED BY <2>1 DEF Chats!AnswersComing
<1>7. ASSUME NEW c \in Chat, Chats!PickChat(c)
      PROVE  Chats!AnswersComing'
  BY <1>7, ComingOpens DEF Chats!PickChat
<1>8. ASSUME NEW c \in Chat, Chats!ReadMarked(c)
      PROVE  Chats!AnswersComing'
  <2>1. /\ Chats!Fetches({"chats"}) /\ v10' \subseteq v10 /\ UNCHANGED <<v1, v3, v4, v6, v11, v13>>
    BY <1>8 DEF Chats!ReadMarked
  <2> QED BY <1>0, <2>1, ChatsAsked
<1>9. ASSUME NEW m \in v10, Chats!MarkFails(m)
      PROVE  Chats!AnswersComing'
  <2>1. v13' = Chat /\ v10' = v10 \ {m} /\ v3' = v3
    BY <1>9 DEF Chats!MarkFails
  <2> QED BY <1>9, <2>1 DEF Chats!AnswersComing
<1>10. ASSUME Chats!ChatsArrive
       PROVE  Chats!AnswersComing'
  <2>1. /\ UNCHANGED <<v1, v2, v3, v4, v6, v10, v11, v13>> /\ v7["chats"].pc = "answered"
        /\ v5' = v7["chats"].value /\ v7' = [v7 EXCEPT !["chats"] = Chats!NoFetch]
    BY <1>10 DEF Chats!ChatsArrive
  <2>2. v7'["chats"] = Chats!NoFetch /\ \A c \in Chat : v7'[c] = v7[c]
    BY <1>0, <2>1
  <2>3. Chats!Sent.pc = "sent" /\ Chats!NoFetch.pc = "none"
    BY DEF Chats!Sent, Chats!NoFetch
  <2>4. Chats!CountsComing => Chats!CountsComing'
    BY <2>1, <2>2, <2>3, CountsStay DEF Chats!CountsComing
  <2>5. v4 \in Chat /\ Chats!LastComing => Chats!LastComing'
    BY <2>1, <2>2 DEF Chats!LastComing
  <2> QED BY <1>0, <2>1, <2>4, <2>5 DEF Chats!AnswersComing
<1>11. ASSUME NEW c \in Chat, Chats!MessagesArrive(c)
       PROVE  Chats!AnswersComing'
  <2>1. /\ UNCHANGED <<v1, v2, v3, v4, v5, v10, v11, v13>> /\ v7[c].pc = "answered"
        /\ v6' = [v6 EXCEPT ![c] = v7[c].value] /\ v7' = [v7 EXCEPT ![c] = Chats!NoFetch]
    BY <1>11 DEF Chats!MessagesArrive
  <2>2. /\ v7'[c] = Chats!NoFetch /\ \A q \in Chats!Query : q # c => v7'[q] = v7[q]
        /\ v6'[c] = v7[c].value /\ \A d \in Chat : d # c => v6'[d] = v6[d]
    BY <1>0, <1>11, <2>1
  <2>3. Chats!Sent.pc = "sent" /\ Chats!NoFetch.pc = "none"
    BY DEF Chats!Sent, Chats!NoFetch
  <2>4. Chats!CountsComing => Chats!CountsComing'
    <3>1. v7'["chats"] = v7["chats"]
      BY <1>0, <1>11, <2>2
    <3> QED BY <2>1, <3>1, CountsStay DEF Chats!CountsComing
  <2>5. v4 \in Chat /\ Chats!LastComing => Chats!LastComing'
    <3> SUFFICES ASSUME v4 \in Chat, Chats!LastComing PROVE Chats!LastComing'
      OBVIOUS
    <3>1. CASE v4 = c
      BY <2>1, <2>2, <2>3, <3>1 DEF Chats!LastComing
    <3>2. CASE v4 # c
      <4>1. v7'[v4] = v7[v4] /\ v6'[v4] = v6[v4]
        BY <1>0, <2>2, <3>2
      <4> QED BY <2>1, <4>1 DEF Chats!LastComing
    <3> QED BY <3>1, <3>2
  <2> QED BY <1>0, <2>1, <2>4, <2>5 DEF Chats!AnswersComing
<1>12. ASSUME \/ Chats!loadOlder \/ Chats!OlderArrive \/ Chats!OlderFails \/ Chats!onSendMessage
              \/ \E c \in Chat : Chats!onCreateChat(c)
              \/ Chats!PostFails
       PROVE  Chats!AnswersComing'
  <2>1. /\ UNCHANGED <<v1, v2, v3, v4, v5, v6, v7, v10, v13>>
        /\ v11' = v11 \/ v11 = Chats!NoPost \/ v11.pc = "sent"
    BY <1>12 DEF Chats!loadOlder, Chats!OlderArrive, Chats!OlderFails, Chats!onSendMessage,
       Chats!onCreateChat, Chats!PostFails
  <2>2. Chats!NoPost.pc = "none"
    BY DEF Chats!NoPost
  <2> QED BY <2>1, <2>2, ComingRests
<1>13. ASSUME Chats!MessagePosted
       PROVE  Chats!AnswersComing'
  <2>1. /\ Chats!Fetches({"chats", v4}) /\ v13 \subseteq v13' /\ UNCHANGED <<v1, v3, v4, v6, v10>>
    BY <1>13 DEF Chats!MessagePosted
  <2> QED BY <1>0, <2>1, ChatsAsked
<1>14. ASSUME Chats!ChatCreated
       PROVE  Chats!AnswersComing'
  <2>1. /\ Chats!Fetches({"chats"}) /\ UNCHANGED <<v1, v3, v4, v6, v10, v13>>
        /\ v11' = [v11 EXCEPT !.pc = "opening"]
    BY <1>14 DEF Chats!ChatCreated
  <2>2. v11'.pc = "opening" /\ v11'.chat = v11.chat
    BY <1>0, <2>1
  <2> QED BY <2>1, <2>2, ChatsAsked
<1>15. ASSUME Chats!ChatOpened
       PROVE  Chats!AnswersComing'
  <2>1. UNCHANGED <<v1, v2, v3, v5, v6>> /\ v11.chat \in Chat /\ v11' = Chats!NoPost
    BY <1>0, <1>15 DEF Chats!ChatOpened
  <2>2. CASE Chats!setActiveChatId(v11.chat, {v4} \intersect Chat)
    BY <2>1, <2>2, ComingOpens
  <2>3. CASE v11.chat = v4 /\ Chats!Fetches({v4}) /\ UNCHANGED <<v4, v10, v13>>
    <3>1. v7'[v4] = Chats!Sent /\ v7'["chats"] = v7["chats"]
      BY <1>0, <2>1, <2>3, FetchesSend
    <3>2. Chats!CountsComing => Chats!CountsComing'
      BY <2>1, <2>3, <3>1, CountsStay DEF Chats!CountsComing
    <3>3. Chats!LastComing'
      BY <2>3, <3>1 DEF Chats!LastComing
    <3> QED BY <2>1, <2>3, <3>2, <3>3 DEF Chats!AnswersComing
  <2> QED BY <1>15, <2>2, <2>3 DEF Chats!ChatOpened
<1> QED BY <1>1, <1>2, <1>3, <1>4, <1>5, <1>6, <1>7, <1>8, <1>9, <1>10, <1>11, <1>12, <1>13, <1>14,
           <1>15 DEF Chats!Next

\* What stands still keeps it.
LEMMA AnswersStay ==
    ASSUME Chats!AnswersComing, UNCHANGED <<v1, v2, v3, v4, v5, v6, v7, v10, v11, v13>>
    PROVE  Chats!AnswersComing'
BY ComingRests

\* With nothing under way what was to come has come.
LEMMA ChatsFollow ==
    ASSUME Chats!Bounds, Chats!ChatInv, Chats!AnswersComing
    PROVE  Chats!CountsFollow
<1> SUFFICES ASSUME Chats!Quiet, v13 = {}
             PROVE  /\ v5 = Chats!UnreadByChat
                    /\ v4 # NoChat => v6[v4] = Len(v1[v4])
  BY DEF Chats!CountsFollow
<1>0. v4 \in Chat \union {NoChat} /\ Chats!Query = {"chats"} \union Chat
  BY MessageTypes
<1>1. /\ ~ v3 /\ v10 = {} /\ v11 = Chats!NoPost
      /\ \A q \in Chats!Query : v7[q] = Chats!NoFetch
  BY DEF Chats!Quiet
<1>2. Chats!NoPost.pc = "none" /\ Chats!NoFetch.pc = "none" /\ Chats!NoFetch # Chats!Sent
  BY DEF Chats!NoPost, Chats!NoFetch, Chats!Sent
<1>3. v7["chats"] = Chats!NoFetch /\ (v4 # NoChat => v7[v4] = Chats!NoFetch)
  BY <1>0, <1>1
<1> QED BY <1>1, <1>2, <1>3 DEF Chats!AnswersComing, Chats!CountsComing, Chats!LastComing

-----------------------------------------------------------------------------
(* The pages of a club (ClubDesk), which have variables of their own. What  *)
(* a mutation changes is fetched again by every list on screen that reads   *)
(* it, but for what Unrefreshed names: first the tables, then the steps.    *)
\* What is read of the data.
LEMMA Readers ==
    \A q \in Query :
        /\ "club" \in Reads[q] => q = "clubs"
        /\ "me" \in Reads[q] => q = "permissions"
        /\ "roles" \in Reads[q] => q = "members"
        /\ "membership" \in Reads[q] =>
              q \in {"members", "sections", "availability", "overview", "scoreSections", "stats"}
        /\ "names" \in Reads[q] => q \in {"members", "events", "score", "stats"}
        /\ "sections" \in Reads[q] => q \in {"sections", "scoreSections"}
        /\ "invitations" \in Reads[q] => q = "invitations"
        /\ "events" \in Reads[q] => q = "events"
        /\ "dates" \in Reads[q] => q \in {"availability", "stats"}
        /\ "absences" \in Reads[q] => q \in {"availability", "absences", "overview"}
        /\ "polls" \in Reads[q] => q = "polls"
        /\ "scores" \in Reads[q] => q = "scores"
        /\ "parts" \in Reads[q] => q \in {"scores", "score"}
        /\ "program" \in Reads[q] => q = "program"
        /\ "posts" \in Reads[q] => q = "posts"
        /\ "files" \in Reads[q] => q = "files"
        /\ "reminders" \in Reads[q] => q = "reminders"
BY DEF Reads, Query

\* The tabs with the lists they show.
LEMMA TabsShow ==
    /\ \A t \in ClubTab : Shown(t) \subseteq Query
    /\ Shown("gone") = {}
    /\ Shown("mitglieder") = ClubDetailView /\ Shown("rollen") = ClubDetailView
    /\ Shown("termine") = ClubDetailView \union {"events", "availability"}
    /\ Shown("programm") = ClubDetailView \union {"events", "program", "scores"}
    /\ Shown("notenarchiv") = ClubDetailView \union {"scores", "score", "scoreSections"}
    /\ Shown("abwesenheiten") = ClubDetailView \union {"absences", "overview"}
    /\ Shown("umfragen") = ClubDetailView \union {"polls"}
    /\ Shown("pinnwand") = ClubDetailView \union {"posts"}
    /\ Shown("dateien") = ClubDetailView \union {"files"}
    /\ Shown("bearbeiten") = ClubDetailView \union {"reminders"}
    /\ "gone" \notin ClubTab
BY DEF Shown, ClubTab, CLUB_SECTIONS, Query, Reads, ClubDetailView, ClubPinboardSection, ClubEventsManager,
   ClubProgramSection, ClubScoresSection, ClubAbsenceSection, ClubPollsSection, ClubStatsSection,
   ClubFilesSection, ClubReminderSettings

\* What is read is read by a list.
Datum == UNION {Reads[q] : q \in Query}

\* What the lists of a club are read from.
LEMMA Data ==
    {"club", "me", "roles", "membership", "names", "sections", "invitations", "events", "dates",
     "absences", "polls", "scores", "parts", "program", "posts", "files", "reminders"} \subseteq Datum
<1>1. /\ {"clubs", "permissions", "members", "sections", "invitations", "events", "availability",
          "absences", "polls", "scores", "program", "posts", "files", "reminders"} \subseteq Query
      /\ Reads["clubs"] = {"club"} /\ Reads["permissions"] = {"me"}
      /\ Reads["members"] = {"roles", "membership", "names"}
      /\ Reads["sections"] = {"sections", "membership"} /\ Reads["invitations"] = {"invitations"}
      /\ Reads["events"] = {"events", "names"}
      /\ Reads["availability"] = {"dates", "absences", "membership"}
      /\ Reads["absences"] = {"absences"} /\ Reads["polls"] = {"polls"}
      /\ Reads["scores"] = {"scores", "parts"} /\ Reads["program"] = {"program"}
      /\ Reads["posts"] = {"posts"} /\ Reads["files"] = {"files"} /\ Reads["reminders"] = {"reminders"}
  BY DEF Reads, Query
<1> QED BY <1>1 DEF Datum

\* A mutation of the tab t has every list fetched again that it shows and that reads what
\* is changed, but for what is known not to be.
Settles(t, op, m) ==
    /\ m \in Mutations
    /\ \A q \in Shown(t) : Reads[q] \intersect m.changes # {} =>
          <<q, op>> \in Unrefreshed \/ \E i \in DOMAIN m.refetches : q \in m.refetches[i]

\* It fetches one set,
LEMMA SettlesOnce ==
    ASSUME NEW t, NEW op, NEW n \in Rights.LEITER, NEW C \in SUBSET Datum, NEW R \in SUBSET Query,
           NEW o \in BOOLEAN,
           \A q \in Shown(t) : Reads[q] \intersect C # {} => q \in R \/ <<q, op>> \in Unrefreshed
    PROVE  Settles(t, op, Mutation(n, C, <<R>>, o))
<1> DEFINE m == Mutation(n, C, <<R>>, o)
<1>1. m.changes = C /\ m.refetches = <<R>>
  BY DEF Mutation
<1>2. <<R>> \in Seq(SUBSET Query) \ {<<>>} /\ 1 \in DOMAIN <<R>> /\ <<R>>[1] = R
  OBVIOUS
<1>3. m \in Mutations
  BY <1>2 DEF Mutation, Mutations, Datum
<1> HIDE DEF m
<1>4. \A q \in R : \E i \in DOMAIN m.refetches : q \in m.refetches[i]
  BY <1>1, <1>2
<1> QED BY <1>1, <1>3, <1>4 DEF Settles, m

\* or two.
LEMMA SettlesTwice ==
    ASSUME NEW t, NEW op, NEW n \in Rights.LEITER, NEW C \in SUBSET Datum, NEW R \in SUBSET Query,
           NEW T \in SUBSET Query, NEW o \in BOOLEAN,
           \A q \in Shown(t) : Reads[q] \intersect C # {} =>
               q \in R \union T \/ <<q, op>> \in Unrefreshed
    PROVE  Settles(t, op, Mutation(n, C, <<R, T>>, o))
<1> DEFINE m == Mutation(n, C, <<R, T>>, o)
<1>1. m.changes = C /\ m.refetches = <<R, T>>
  BY DEF Mutation
<1>2. /\ <<R, T>> \in Seq(SUBSET Query) \ {<<>>} /\ 1 \in DOMAIN <<R, T>> /\ 2 \in DOMAIN <<R, T>>
      /\ <<R, T>>[1] = R /\ <<R, T>>[2] = T
  OBVIOUS
<1>3. m \in Mutations
  BY <1>2 DEF Mutation, Mutations, Datum
<1> HIDE DEF m
<1>4. \A q \in R \union T : \E i \in DOMAIN m.refetches : q \in m.refetches[i]
  BY <1>1, <1>2
<1> QED BY <1>1, <1>3, <1>4 DEF Settles, m

\* One card above another has the buttons of both.
LEMMA BothCards ==
    ASSUME NEW t, NEW f, NEW g, \A op \in DOMAIN f : Settles(t, op, f[op]),
           \A op \in DOMAIN g : Settles(t, op, g[op])
    PROVE  \A op \in DOMAIN Above(f, g) : Settles(t, op, Above(f, g)[op])
BY DEF Above

\* The mutations of the members, the sections and the invitations.
LEMMA MitgliederSettles ==
    \A op \in DOMAIN Operations["mitglieder"] : Settles("mitglieder", op, Operations["mitglieder"][op])
<1>0. /\ Shown("mitglieder") =
           {"clubs", "permissions", "members", "sections", "invitations"}
      /\ Shown("mitglieder") \subseteq Query
      /\ {"invitations", "me", "membership", "names", "roles", "sections"} \subseteq Datum /\ {"invite", "roles"} \subseteq Rights.LEITER
  BY TabsShow, Data DEF ClubDetailView, ClubTab, CLUB_SECTIONS, Rights
<1>1. Settles("mitglieder", "role", roleMutation)
  <2>1. \A q \in Shown("mitglieder") : Reads[q] \intersect {"roles"} # {}
           => q \in {"members"} \/ <<q, "role">> \in Unrefreshed
    BY <1>0, Readers
  <2> QED BY <1>0, <2>1, SettlesOnce DEF roleMutation
<1>2. Settles("mitglieder", "ownRole", ownRole)
  <2>1. \A q \in Shown("mitglieder") : Reads[q] \intersect {"roles", "me"} # {}
           => q \in {"members"} \/ <<q, "ownRole">> \in Unrefreshed
    BY <1>0, Readers DEF Unrefreshed
  <2> QED BY <1>0, <2>1, SettlesOnce DEF ownRole
<1>3. Settles("mitglieder", "authorize", authorizedMutation)
  <2>1. \A q \in Shown("mitglieder") : Reads[q] \intersect {"roles"} # {}
           => q \in {"members"} \/ <<q, "authorize">> \in Unrefreshed
    BY <1>0, Readers
  <2> QED BY <1>0, <2>1, SettlesOnce DEF authorizedMutation
<1>4. Settles("mitglieder", "assign", sectionAssignMutation)
  <2>1. \A q \in Shown("mitglieder") : Reads[q] \intersect {"membership"} # {}
           => q \in {"members"} \union {"sections"} \/ <<q, "assign">> \in Unrefreshed
    BY <1>0, Readers
  <2> QED BY <1>0, <2>1, SettlesTwice DEF sectionAssignMutation
<1>5. Settles("mitglieder", "remove", removeMemberMutation)
  <2>1. \A q \in Shown("mitglieder") : Reads[q] \intersect {"membership"} # {}
           => q \in {"members"} \/ <<q, "remove">> \in Unrefreshed
    BY <1>0, Readers DEF Unrefreshed
  <2> QED BY <1>0, <2>1, SettlesOnce DEF removeMemberMutation
<1>6. Settles("mitglieder", "addSection", createSectionMutation)
  <2>1. \A q \in Shown("mitglieder") : Reads[q] \intersect {"sections"} # {}
           => q \in {"sections"} \/ <<q, "addSection">> \in Unrefreshed
    BY <1>0, Readers
  <2> QED BY <1>0, <2>1, SettlesOnce DEF createSectionMutation
<1>7. Settles("mitglieder", "renameSection", renameSectionMutation)
  <2>1. \A q \in Shown("mitglieder") : Reads[q] \intersect {"sections", "names"} # {}
           => q \in {"sections"} \union {"members"} \/ <<q, "renameSection">> \in Unrefreshed
    BY <1>0, Readers
  <2> QED BY <1>0, <2>1, SettlesTwice DEF renameSectionMutation
<1>8. Settles("mitglieder", "deleteSection", deleteSectionMutation)
  <2>1. \A q \in Shown("mitglieder") : Reads[q] \intersect {"sections", "names", "membership"} # {}
           => q \in {"sections"} \union {"members"} \/ <<q, "deleteSection">> \in Unrefreshed
    BY <1>0, Readers
  <2> QED BY <1>0, <2>1, SettlesTwice DEF deleteSectionMutation
<1>9. Settles("mitglieder", "revoke", revokeInvitationMutation)
  <2>1. \A q \in Shown("mitglieder") : Reads[q] \intersect {"invitations"} # {}
           => q \in {"invitations"} \/ <<q, "revoke">> \in Unrefreshed
    BY <1>0, Readers
  <2> QED BY <1>0, <2>1, SettlesOnce DEF revokeInvitationMutation
<1>10. Settles("mitglieder", "invite", inviteMutation)
  <2>1. \A q \in Shown("mitglieder") : Reads[q] \intersect {"membership", "invitations"} # {}
           => q \in {"members"} \/ <<q, "invite">> \in Unrefreshed
    BY <1>0, Readers DEF Unrefreshed
  <2> QED BY <1>0, <2>1, SettlesOnce DEF inviteMutation
<1>11. Settles("mitglieder", "import", importMutation)
  <2>1. \A q \in Shown("mitglieder") : Reads[q] \intersect {"membership", "invitations"} # {}
           => q \in {"members"} \/ <<q, "import">> \in Unrefreshed
    BY <1>0, Readers DEF Unrefreshed
  <2> QED BY <1>0, <2>1, SettlesOnce DEF importMutation
<1>12. \A op \in DOMAIN MembersCard : Settles("mitglieder", op, MembersCard[op])
  BY <1>1, <1>2, <1>3, <1>4, <1>5 DEF MembersCard
<1>13. \A op \in DOMAIN SectionsCard : Settles("mitglieder", op, SectionsCard[op])
  BY <1>6, <1>7, <1>8 DEF SectionsCard
<1>14. \A op \in DOMAIN InvitationsCard : Settles("mitglieder", op, InvitationsCard[op])
  BY <1>9 DEF InvitationsCard
<1>15. \A op \in DOMAIN InviteCards : Settles("mitglieder", op, InviteCards[op])
  BY <1>10, <1>11 DEF InviteCards
<1> QED
  BY <1>12, <1>13, <1>14, <1>15, BothCards DEF Operations

\* The mutations of the roles.
LEMMA RollenSettles ==
    \A op \in DOMAIN Operations["rollen"] : Settles("rollen", op, Operations["rollen"][op])
<1>0. /\ Shown("rollen") =
           {"clubs", "permissions", "members", "sections", "invitations"}
      /\ Shown("rollen") \subseteq Query
      /\ {"me", "roles"} \subseteq Datum /\ {"roles"} \subseteq Rights.LEITER
  BY TabsShow, Data DEF ClubDetailView, ClubTab, CLUB_SECTIONS, Rights
<1>1. Settles("rollen", "role", roleMutation)
  <2>1. \A q \in Shown("rollen") : Reads[q] \intersect {"roles"} # {}
           => q \in {"members"} \/ <<q, "role">> \in Unrefreshed
    BY <1>0, Readers
  <2> QED BY <1>0, <2>1, SettlesOnce DEF roleMutation
<1>2. Settles("rollen", "ownRole", ownRole)
  <2>1. \A q \in Shown("rollen") : Reads[q] \intersect {"roles", "me"} # {}
           => q \in {"members"} \/ <<q, "ownRole">> \in Unrefreshed
    BY <1>0, Readers DEF Unrefreshed
  <2> QED BY <1>0, <2>1, SettlesOnce DEF ownRole
<1> QED BY <1>1, <1>2 DEF Operations, RolesCard

\* The mutations of the events.
LEMMA TermineSettles ==
    \A op \in DOMAIN Operations["termine"] : Settles("termine", op, Operations["termine"][op])
<1>0. /\ Shown("termine") =
           {"clubs", "permissions", "members", "sections", "invitations", "events", "availability"}
      /\ Shown("termine") \subseteq Query
      /\ {"dates", "events"} \subseteq Datum /\ {"events"} \subseteq Rights.LEITER
  BY TabsShow, Data DEF ClubDetailView, ClubTab, CLUB_SECTIONS, Rights
<1>1. Settles("termine", "create", createEvent)
  <2>1. \A q \in Shown("termine") : Reads[q] \intersect {"events"} # {}
           => q \in {"events"} \/ <<q, "create">> \in Unrefreshed
    BY <1>0, Readers
  <2> QED BY <1>0, <2>1, SettlesOnce DEF createEvent
<1>2. Settles("termine", "update", updateEvent)
  <2>1. \A q \in Shown("termine") : Reads[q] \intersect {"events", "dates"} # {}
           => q \in {"events"} \/ <<q, "update">> \in Unrefreshed
    BY <1>0, Readers DEF Unrefreshed
  <2> QED BY <1>0, <2>1, SettlesOnce DEF updateEvent
<1>3. Settles("termine", "cancel", cancelEvent)
  <2>1. \A q \in Shown("termine") : Reads[q] \intersect {"events"} # {}
           => q \in {"events"} \/ <<q, "cancel">> \in Unrefreshed
    BY <1>0, Readers
  <2> QED BY <1>0, <2>1, SettlesOnce DEF cancelEvent
<1>4. Settles("termine", "removeEvent", removeEvent)
  <2>1. \A q \in Shown("termine") : Reads[q] \intersect {"events"} # {}
           => q \in {"events"} \/ <<q, "removeEvent">> \in Unrefreshed
    BY <1>0, Readers
  <2> QED BY <1>0, <2>1, SettlesOnce DEF removeEvent
<1>5. \A op \in DOMAIN EventForm : Settles("termine", op, EventForm[op])
  BY <1>1, <1>2 DEF EventForm
<1>6. \A op \in DOMAIN EventCards : Settles("termine", op, EventCards[op])
  BY <1>3, <1>4 DEF EventCards
<1> QED
  BY <1>5, <1>6, BothCards DEF Operations

\* The mutations of the program.
LEMMA ProgrammSettles ==
    \A op \in DOMAIN Operations["programm"] : Settles("programm", op, Operations["programm"][op])
<1>0. /\ Shown("programm") =
           {"clubs", "permissions", "members", "sections", "invitations", "events", "program", "scores"}
      /\ Shown("programm") \subseteq Query
      /\ {"program"} \subseteq Datum /\ {"events"} \subseteq Rights.LEITER
  BY TabsShow, Data DEF ClubDetailView, ClubTab, CLUB_SECTIONS, Rights
<1>1. Settles("programm", "program", saveProgram)
  <2>1. \A q \in Shown("programm") : Reads[q] \intersect {"program"} # {}
           => q \in {"program"} \/ <<q, "program">> \in Unrefreshed
    BY <1>0, Readers
  <2> QED BY <1>0, <2>1, SettlesOnce DEF saveProgram
<1> QED BY <1>1 DEF Operations, ProgramEditor

\* The mutations of the scores.
LEMMA NotenarchivSettles ==
    \A op \in DOMAIN Operations["notenarchiv"] : Settles("notenarchiv", op, Operations["notenarchiv"][op])
<1>0. /\ Shown("notenarchiv") =
           {"clubs", "permissions", "members", "sections", "invitations", "scores", "score", "scoreSections"}
      /\ Shown("notenarchiv") \subseteq Query
      /\ {"parts", "scores"} \subseteq Datum /\ {"scores"} \subseteq Rights.LEITER
  BY TabsShow, Data DEF ClubDetailView, ClubTab, CLUB_SECTIONS, Rights
<1>1. Settles("notenarchiv", "score", createScore)
  <2>1. \A q \in Shown("notenarchiv") : Reads[q] \intersect {"scores"} # {}
           => q \in {"scores"} \/ <<q, "score">> \in Unrefreshed
    BY <1>0, Readers
  <2> QED BY <1>0, <2>1, SettlesOnce DEF createScore
<1>2. Settles("notenarchiv", "part", updatePart)
  <2>1. \A q \in Shown("notenarchiv") : Reads[q] \intersect {"parts"} # {}
           => q \in {"score", "scores"} \/ <<q, "part">> \in Unrefreshed
    BY <1>0, Readers
  <2> QED BY <1>0, <2>1, SettlesOnce DEF updatePart
<1>3. Settles("notenarchiv", "upload", startUpload)
  <2>1. \A q \in Shown("notenarchiv") : Reads[q] \intersect {"parts"} # {}
           => q \in {"score", "scores"} \/ <<q, "upload">> \in Unrefreshed
    BY <1>0, Readers
  <2> QED BY <1>0, <2>1, SettlesOnce DEF startUpload
<1>4. Settles("notenarchiv", "deleteScore", deleteScore)
  <2>1. \A q \in Shown("notenarchiv") : Reads[q] \intersect {"scores"} # {}
           => q \in {"scores"} \/ <<q, "deleteScore">> \in Unrefreshed
    BY <1>0, Readers
  <2> QED BY <1>0, <2>1, SettlesOnce DEF deleteScore
<1>5. \A op \in DOMAIN ScoreList : Settles("notenarchiv", op, ScoreList[op])
  BY <1>1 DEF ScoreList
<1>6. \A op \in DOMAIN ScoreDetail : Settles("notenarchiv", op, ScoreDetail[op])
  BY <1>2, <1>3, <1>4 DEF ScoreDetail
<1> QED
  BY <1>5, <1>6, BothCards DEF Operations

\* The mutations of the absences.
LEMMA AbwesenheitenSettles ==
    \A op \in DOMAIN Operations["abwesenheiten"] : Settles("abwesenheiten", op, Operations["abwesenheiten"][op])
<1>0. /\ Shown("abwesenheiten") =
           {"clubs", "permissions", "members", "sections", "invitations", "absences", "overview"}
      /\ Shown("abwesenheiten") \subseteq Query
      /\ {"absences"} \subseteq Datum /\ {"member"} \subseteq Rights.LEITER
  BY TabsShow, Data DEF ClubDetailView, ClubTab, CLUB_SECTIONS, Rights
<1>1. Settles("abwesenheiten", "absence", changeAbsence)
  <2>1. \A q \in Shown("abwesenheiten") : Reads[q] \intersect {"absences"} # {}
           => q \in {"absences"} \union {"overview"} \/ <<q, "absence">> \in Unrefreshed
    BY <1>0, Readers
  <2> QED BY <1>0, <2>1, SettlesTwice DEF changeAbsence
<1> QED BY <1>1 DEF Operations, AbsenceCards

\* The mutations of the polls.
LEMMA UmfragenSettles ==
    \A op \in DOMAIN Operations["umfragen"] : Settles("umfragen", op, Operations["umfragen"][op])
<1>0. /\ Shown("umfragen") =
           {"clubs", "permissions", "members", "sections", "invitations", "polls"}
      /\ Shown("umfragen") \subseteq Query
      /\ {"polls"} \subseteq Datum /\ {"events", "member"} \subseteq Rights.LEITER
  BY TabsShow, Data DEF ClubDetailView, ClubTab, CLUB_SECTIONS, Rights
<1>1. Settles("umfragen", "poll", createPoll)
  <2>1. \A q \in Shown("umfragen") : Reads[q] \intersect {"polls"} # {}
           => q \in {"polls"} \/ <<q, "poll">> \in Unrefreshed
    BY <1>0, Readers
  <2> QED BY <1>0, <2>1, SettlesOnce DEF createPoll
<1>2. Settles("umfragen", "vote", votePoll)
  <2>1. \A q \in Shown("umfragen") : Reads[q] \intersect {"polls"} # {}
           => q \in {"polls"} \/ <<q, "vote">> \in Unrefreshed
    BY <1>0, Readers
  <2> QED BY <1>0, <2>1, SettlesOnce DEF votePoll
<1>3. Settles("umfragen", "close", closePoll)
  <2>1. \A q \in Shown("umfragen") : Reads[q] \intersect {"polls"} # {}
           => q \in {"polls"} \/ <<q, "close">> \in Unrefreshed
    BY <1>0, Readers
  <2> QED BY <1>0, <2>1, SettlesOnce DEF closePoll
<1>4. \A op \in DOMAIN PollForm : Settles("umfragen", op, PollForm[op])
  BY <1>1 DEF PollForm
<1>5. \A op \in DOMAIN PollCards : Settles("umfragen", op, PollCards[op])
  BY <1>2, <1>3 DEF PollCards
<1> QED
  BY <1>4, <1>5, BothCards DEF Operations

\* The mutations of the pinboard.
LEMMA PinnwandSettles ==
    \A op \in DOMAIN Operations["pinnwand"] : Settles("pinnwand", op, Operations["pinnwand"][op])
<1>0. /\ Shown("pinnwand") =
           {"clubs", "permissions", "members", "sections", "invitations", "posts"}
      /\ Shown("pinnwand") \subseteq Query
      /\ {"posts"} \subseteq Datum /\ {"posts"} \subseteq Rights.LEITER
  BY TabsShow, Data DEF ClubDetailView, ClubTab, CLUB_SECTIONS, Rights
<1>1. Settles("pinnwand", "post", savePost)
  <2>1. \A q \in Shown("pinnwand") : Reads[q] \intersect {"posts"} # {}
           => q \in {"posts"} \/ <<q, "post">> \in Unrefreshed
    BY <1>0, Readers
  <2> QED BY <1>0, <2>1, SettlesOnce DEF savePost
<1>2. Settles("pinnwand", "deletePost", deletePost)
  <2>1. \A q \in Shown("pinnwand") : Reads[q] \intersect {"posts"} # {}
           => q \in {"posts"} \/ <<q, "deletePost">> \in Unrefreshed
    BY <1>0, Readers
  <2> QED BY <1>0, <2>1, SettlesOnce DEF deletePost
<1> QED BY <1>1, <1>2 DEF Operations, PinboardCards

\* The mutations of the files.
LEMMA DateienSettles ==
    \A op \in DOMAIN Operations["dateien"] : Settles("dateien", op, Operations["dateien"][op])
<1>0. /\ Shown("dateien") =
           {"clubs", "permissions", "members", "sections", "invitations", "files"}
      /\ Shown("dateien") \subseteq Query
      /\ {"files"} \subseteq Datum /\ {"files"} \subseteq Rights.LEITER
  BY TabsShow, Data DEF ClubDetailView, ClubTab, CLUB_SECTIONS, Rights
<1>1. Settles("dateien", "file", uploadFile)
  <2>1. \A q \in Shown("dateien") : Reads[q] \intersect {"files"} # {}
           => q \in {"files"} \/ <<q, "file">> \in Unrefreshed
    BY <1>0, Readers
  <2> QED BY <1>0, <2>1, SettlesOnce DEF uploadFile
<1>2. Settles("dateien", "deleteFile", deleteFile)
  <2>1. \A q \in Shown("dateien") : Reads[q] \intersect {"files"} # {}
           => q \in {"files"} \/ <<q, "deleteFile">> \in Unrefreshed
    BY <1>0, Readers
  <2> QED BY <1>0, <2>1, SettlesOnce DEF deleteFile
<1> QED BY <1>1, <1>2 DEF Operations, FileCards

\* The mutations of the settings.
LEMMA BearbeitenSettles ==
    \A op \in DOMAIN Operations["bearbeiten"] : Settles("bearbeiten", op, Operations["bearbeiten"][op])
<1>0. /\ Shown("bearbeiten") =
           {"clubs", "permissions", "members", "sections", "invitations", "reminders"}
      /\ Shown("bearbeiten") \subseteq Query
      /\ {"club", "reminders"} \subseteq Datum /\ {"member", "roles"} \subseteq Rights.LEITER
  BY TabsShow, Data DEF ClubDetailView, ClubTab, CLUB_SECTIONS, Rights
<1>1. Settles("bearbeiten", "settings", saveSettings)
  <2>1. \A q \in Shown("bearbeiten") : Reads[q] \intersect {"club"} # {}
           => q \in {"clubs"} \/ <<q, "settings">> \in Unrefreshed
    BY <1>0, Readers
  <2> QED BY <1>0, <2>1, SettlesOnce DEF saveSettings
<1>2. Settles("bearbeiten", "reminders", saveReminders)
  <2>1. \A q \in Shown("bearbeiten") : Reads[q] \intersect {"reminders"} # {}
           => q \in {"reminders"} \/ <<q, "reminders">> \in Unrefreshed
    BY <1>0, Readers
  <2> QED BY <1>0, <2>1, SettlesOnce DEF saveReminders
<1>3. Settles("bearbeiten", "leave", leaveClub)
  <2>1. \A q \in Shown("bearbeiten") : Reads[q] \intersect {"club"} # {}
           => q \in {"clubs"} \/ <<q, "leave">> \in Unrefreshed
    BY <1>0, Readers
  <2> QED BY <1>0, <2>1, SettlesOnce DEF leaveClub
<1>4. \A op \in DOMAIN ClubSettingsForm : Settles("bearbeiten", op, ClubSettingsForm[op])
  BY <1>1 DEF ClubSettingsForm
<1>5. \A op \in DOMAIN ReminderCard : Settles("bearbeiten", op, ReminderCard[op])
  BY <1>2 DEF ReminderCard
<1>6. \A op \in DOMAIN ClubDangerZone : Settles("bearbeiten", op, ClubDangerZone[op])
  BY <1>3 DEF ClubDangerZone
<1> QED
  BY <1>4, <1>5, <1>6, BothCards DEF Operations

\* Whatever is offered settles.
LEMMA OfferedSettles ==
    ASSUME NEW t \in ClubTab, NEW op \in DOMAIN Operations[t]
    PROVE  Settles(t, op, Operations[t][op])
<1>1. t \in {"mitglieder", "rollen", "termine", "programm", "notenarchiv", "abwesenheiten", "umfragen",
             "pinnwand", "dateien", "bearbeiten", "statistik", "nachrichten"}
  BY DEF ClubTab, CLUB_SECTIONS
<1>2. t \notin {"statistik", "nachrichten"}
  BY DEF Operations
<1> QED
  BY <1>1, <1>2, MitgliederSettles, RollenSettles, TermineSettles, ProgrammSettles, NotenarchivSettles,
     AbwesenheitenSettles, UmfragenSettles, PinnwandSettles, DateienSettles, BearbeitenSettles

Underway == [pc : {"sent", "answered", "refetching"}, op : Operation, m : Mutations]

\* Whether a query waits for a mutation in the slots to fetch it again because of op.
Waits(slots_, q, op) ==
    \E s \in Slot : /\ slots_[s].pc # "idle" /\ slots_[s].op = op
                    /\ \E i \in DOMAIN slots_[s].m.refetches :
                          /\ q \in slots_[s].m.refetches[i]
                          /\ slots_[s].pc = "answered" \/ (slots_[s].pc = "refetching" /\ i > 1)

\* The invariant, part by part.
LEMMA DeskTypes ==
    DeskTypeOK <=>
      /\ rights \in {Rights[role] : role \in DOMAIN Rights} /\ tab \in ClubTab \union {"gone"}
      /\ fetching \subseteq Query
      /\ carries \in [Query -> SUBSET Operation] /\ behind \in [Query -> SUBSET Operation]
      /\ \A s \in Slot : slot[s].pc \in {"idle", "sent", "answered", "refetching"}
      /\ count \in 0..MaxOperations /\ missed \subseteq Query \X Operation
BY DEF DeskTypeOK

DeskNow ==
    /\ rights \in {Rights[role] : role \in DOMAIN Rights} /\ tab \in ClubTab \union {"gone"}
    /\ fetching \subseteq Query
    /\ carries \in [Query -> SUBSET Operation] /\ behind \in [Query -> SUBSET Operation]
    /\ slot \in [Slot -> {Idle} \union Underway]
    /\ count \in 0..MaxOperations /\ missed \subseteq Query \X Operation
    /\ \A q \in Shown(tab) :
          /\ \A op \in carries[q] : <<q, op>> \in Unrefreshed \union missed \/ Waits(slot, q, op)
          /\ \A op \in behind[q] : \/ <<q, op>> \in Unrefreshed \union missed \/ Waits(slot, q, op)
                                   \/ q \in fetching /\ op \notin carries[q]
          /\ \A s \in Slot : slot[s].pc = "sent" /\ Reads[q] \intersect slot[s].m.changes # {} =>
                \/ <<q, slot[s].op>> \in Unrefreshed \union missed
                \/ \E i \in DOMAIN slot[s].m.refetches : q \in slot[s].m.refetches[i]

\* The invariant, part by part.
LEMMA DeskParts == DeskInv => DeskNow
BY DeskTypes DEF DeskInv, DeskNow, SlotsTyped, Underway, Awaits, Awaited, Excused, Refetched, Mounted, Waits

\* The next state of the parts.
DeskThen ==
    /\ rights' \in {Rights[role] : role \in DOMAIN Rights} /\ tab' \in ClubTab \union {"gone"}
    /\ fetching' \subseteq Query
    /\ carries' \in [Query -> SUBSET Operation] /\ behind' \in [Query -> SUBSET Operation]
    /\ slot' \in [Slot -> {Idle} \union Underway]
    /\ count' \in 0..MaxOperations /\ missed' \subseteq Query \X Operation
    /\ \A q \in Shown(tab') :
          /\ \A op \in carries'[q] : <<q, op>> \in Unrefreshed \union missed' \/ Waits(slot', q, op)
          /\ \A op \in behind'[q] : \/ <<q, op>> \in Unrefreshed \union missed' \/ Waits(slot', q, op)
                                    \/ q \in fetching' /\ op \notin carries'[q]
          /\ \A s \in Slot : slot'[s].pc = "sent" /\ Reads[q] \intersect slot'[s].m.changes # {} =>
                \/ <<q, slot'[s].op>> \in Unrefreshed \union missed'
                \/ \E i \in DOMAIN slot'[s].m.refetches : q \in slot'[s].m.refetches[i]

\* They make the invariant of the next state.
LEMMA DeskThenParts == DeskThen => DeskInv'
<1> SUFFICES ASSUME DeskThen PROVE DeskInv'
  OBVIOUS
<1>1. \A s \in Slot : slot'[s].pc \in {"idle", "sent", "answered", "refetching"}
  BY DEF DeskThen, Idle, Underway
<1>2. DeskTypeOK'
  BY <1>1 DEF DeskThen, DeskTypeOK
<1>3. SlotsTyped'
  BY DEF DeskThen, SlotsTyped, Underway
<1>4. Awaits'
  BY DEF DeskThen, Awaits, Awaited, Excused, Refetched, Mounted, Waits
<1> QED BY <1>2, <1>3, <1>4 DEF DeskInv

\* Everything is loaded at first.
LEMMA DeskInitially == DeskInit => DeskInv
<1> SUFFICES ASSUME DeskInit PROVE DeskInv
  OBVIOUS
<1>1. /\ fetching = {} /\ count = 0 /\ missed = {} /\ MaxOperations \in Nat /\ tab \in ClubTab
      /\ slot = [s \in Slot |-> Idle] /\ rights \in {Rights[role] : role \in DOMAIN Rights}
  BY DeskBounds DEF DeskInit
<1>2. carries = [q \in Query |-> {}] /\ behind = [q \in Query |-> {}]
  BY DEF DeskInit, None
<1>3. Idle.pc = "idle"
  BY DEF Idle
<1>4. DeskTypeOK
  BY <1>1, <1>2, <1>3, DeskTypes
<1>5. SlotsTyped
  BY <1>1 DEF SlotsTyped
<1>6. Mounted \subseteq Query
  BY <1>1, TabsShow DEF Mounted
<1>7. Awaits
  BY <1>1, <1>2, <1>3, <1>6 DEF Awaits
<1> QED BY <1>4, <1>5, <1>7 DEF DeskInv

\* A slot goes on with its mutation.
LEMMA SlotGoesOn ==
    ASSUME slot \in [Slot -> {Idle} \union Underway], NEW s \in Slot, NEW r \in {Idle} \union Underway,
           slot' = [slot EXCEPT ![s] = r]
    PROVE  /\ slot' \in [Slot -> {Idle} \union Underway] /\ slot'[s] = r
           /\ \A x \in Slot : x # s => slot'[x] = slot[x]
OBVIOUS

\* What is shown is fetched again.
LEMMA DeskRefetches ==
    ASSUME DeskNow, NEW R, Refetch(R), tab \in ClubTab \union {"gone"}
    PROVE  /\ fetching' \subseteq Query /\ carries' \in [Query -> SUBSET Operation]
           /\ \A q \in Shown(tab) :
                 /\ q \in Query
                 /\ q \in R => q \in fetching' /\ carries'[q] = {}
                 /\ q \notin R => (q \in fetching' <=> q \in fetching) /\ carries'[q] = carries[q]
<1>1. Shown(tab) \subseteq Query
  BY TabsShow
<1>2. /\ fetching' = fetching \union (R \intersect Shown(tab))
      /\ carries' = [q \in DOMAIN carries |-> IF q \in R \intersect Shown(tab) THEN {} ELSE carries[q]]
  BY DEF Refetch, Mounted
<1> QED BY <1>1, <1>2 DEF DeskNow

\* What a query is fetched again for is not lacking; what is not keeps being awaited.
LEMMA DeskAwaits ==
    ASSUME DeskNow, missed' = missed, behind' = behind, rights' = rights, count' = count,
           tab' \in ClubTab \union {"gone"}, fetching' \subseteq Query,
           carries' \in [Query -> SUBSET Operation], slot' \in [Slot -> {Idle} \union Underway],
           \A x \in Slot : slot'[x].pc = "sent" => slot'[x] = slot[x],
           \A q \in Shown(tab') :
              /\ q \in Shown(tab)
              /\ \/ q \in fetching' /\ carries'[q] = {}
                 \/ /\ (q \in fetching' <=> q \in fetching) /\ carries'[q] = carries[q]
                    /\ \A o : Waits(slot, q, o) => Waits(slot', q, o)
    PROVE  DeskThen
<1>1. ASSUME NEW q \in Shown(tab')
      PROVE  /\ \A op \in carries'[q] : <<q, op>> \in Unrefreshed \union missed' \/ Waits(slot', q, op)
             /\ \A op \in behind'[q] : \/ <<q, op>> \in Unrefreshed \union missed' \/ Waits(slot', q, op)
                                       \/ q \in fetching' /\ op \notin carries'[q]
  <2>1. CASE q \in fetching' /\ carries'[q] = {}
    BY <2>1
  <2>2. CASE /\ (q \in fetching' <=> q \in fetching) /\ carries'[q] = carries[q]
             /\ \A o : Waits(slot, q, o) => Waits(slot', q, o)
    BY <1>1, <2>2 DEF DeskNow
  <2> QED BY <1>1, <2>1, <2>2
<1>2. ASSUME NEW q \in Shown(tab'), NEW x \in Slot, slot'[x].pc = "sent",
             Reads[q] \intersect slot'[x].m.changes # {}
      PROVE  \/ <<q, slot'[x].op>> \in Unrefreshed \union missed'
             \/ \E i \in DOMAIN slot'[x].m.refetches : q \in slot'[x].m.refetches[i]
  <2>1. slot'[x] = slot[x] /\ q \in Shown(tab)
    BY <1>2
  <2> QED BY <1>2, <2>1 DEF DeskNow
<1>3. /\ rights' \in {Rights[role] : role \in DOMAIN Rights} /\ behind' \in [Query -> SUBSET Operation]
      /\ count' \in 0..MaxOperations /\ missed' \subseteq Query \X Operation
  BY DEF DeskNow
<1> QED BY <1>1, <1>2, <1>3 DEF DeskThen

\* Answers arrive and tabs are opened.
LEMMA DeskReads ==
    ASSUME DeskNow, (\E q \in fetching : FetchArrives(q)) \/ (\E t \in Visited : setSearchParams(t))
    PROVE  DeskThen
<1>0. tab \in ClubTab \union {"gone"} /\ Shown(tab) \subseteq Query
  BY TabsShow DEF DeskNow
<1>1. ASSUME NEW q \in fetching, FetchArrives(q)
      PROVE  DeskThen
  <2>1. /\ fetching' = fetching \ {q} /\ behind' = [behind EXCEPT ![q] = carries[q]]
        /\ carries' = [carries EXCEPT ![q] = {}] /\ UNCHANGED <<rights, tab, slot, count, missed>>
    BY <1>1 DEF FetchArrives
  <2>2. /\ behind' \in [Query -> SUBSET Operation] /\ carries' \in [Query -> SUBSET Operation]
        /\ behind'[q] = carries[q] /\ carries'[q] = {}
        /\ \A p \in Query : p # q => behind'[p] = behind[p] /\ carries'[p] = carries[p]
    BY <1>1, <2>1 DEF DeskNow
  <2> QED BY <1>0, <2>1, <2>2 DEF DeskNow, DeskThen
<1>2. ASSUME NEW t \in Visited, setSearchParams(t)
      PROVE  DeskThen
  <2> DEFINE mounting == Shown(t) \ Mounted
  <2>1. /\ tab' = t /\ fetching' = fetching \union mounting /\ t \in ClubTab
        /\ missed' = missed \union UNION {{q} \X (carries[q] \union UnderWay) : q \in mounting}
        /\ UNCHANGED <<rights, carries, behind, slot, count>>
    BY <1>2, DeskBounds DEF setSearchParams
  <2>2. mounting \subseteq Query /\ Shown(t) \subseteq Query
    BY <2>1, TabsShow
  <2>3. \A q \in Shown(t) : q \in mounting \/ q \in Shown(tab)
    BY DEF Mounted
  <2>4. /\ \A s \in Slot : slot[s].pc = "sent" => slot[s].op \in UnderWay
        /\ UnderWay \subseteq Operation
    BY DEF UnderWay, DeskNow, Idle, Underway
  <2> HIDE DEF mounting
  <2>5. /\ missed \subseteq missed' /\ missed' \subseteq Query \X Operation
        /\ \A q \in mounting : \A op \in carries[q] \union UnderWay : <<q, op>> \in missed'
    BY <2>1, <2>2, <2>4 DEF DeskNow
  <2>6. ASSUME NEW q \in Shown(tab')
        PROVE  /\ \A op \in carries'[q] : <<q, op>> \in Unrefreshed \union missed' \/ Waits(slot', q, op)
               /\ \A op \in behind'[q] : \/ <<q, op>> \in Unrefreshed \union missed' \/ Waits(slot', q, op)
                                         \/ q \in fetching' /\ op \notin carries'[q]
               /\ \A s \in Slot : slot'[s].pc = "sent" /\ Reads[q] \intersect slot'[s].m.changes # {} =>
                      \/ <<q, slot'[s].op>> \in Unrefreshed \union missed'
                      \/ \E i \in DOMAIN slot'[s].m.refetches : q \in slot'[s].m.refetches[i]
    <3>1. CASE q \in mounting
      BY <2>1, <2>4, <2>5, <3>1
    <3>2. CASE q \in Shown(tab)
      BY <2>1, <2>5, <3>2 DEF DeskNow
    <3> QED BY <2>1, <2>3, <2>6, <3>1, <3>2
  <2> QED BY <1>0, <2>1, <2>2, <2>5, <2>6 DEF DeskNow, DeskThen
<1> QED BY <1>1, <1>2

\* A button is pressed.
LEMMA DeskMutates ==
    ASSUME DeskNow, NEW s \in Slot, mutate(s)
    PROVE  DeskThen
<1>0. tab \in ClubTab \union {"gone"} /\ Shown(tab) \subseteq Query
  BY TabsShow DEF DeskNow
<1>1. PICK op \in DOMAIN Operations[tab] :
         slot' = [slot EXCEPT ![s] = [pc |-> "sent", op |-> op, m |-> Operations[tab][op]]]
  BY DEF mutate
<1>2. /\ slot[s].pc = "idle" /\ count < MaxOperations /\ tab \in ClubTab /\ count' = count + 1
      /\ UNCHANGED <<rights, tab, fetching, carries, behind, missed>>
  BY <1>0 DEF mutate
<1> DEFINE r == [pc |-> "sent", op |-> op, m |-> Operations[tab][op]]
<1>3. Settles(tab, op, Operations[tab][op]) /\ op \in Operation
  BY <1>2, OfferedSettles DEF Operation
<1>4. r \in Underway /\ r.pc = "sent" /\ r.op = op /\ r.m = Operations[tab][op]
  BY <1>3 DEF Underway, Settles
<1>5. slot' = [slot EXCEPT ![s] = r]
  BY <1>1
<1> HIDE DEF r
<1>6. /\ slot' \in [Slot -> {Idle} \union Underway] /\ slot'[s] = r
      /\ \A x \in Slot : x # s => slot'[x] = slot[x]
  BY <1>4, <1>5, SlotGoesOn DEF DeskNow
<1>7. \A q, o : Waits(slot, q, o) => Waits(slot', q, o)
  BY <1>2, <1>6 DEF Waits
<1>8. ASSUME NEW q \in Shown(tab), NEW x \in Slot, slot'[x].pc = "sent",
             Reads[q] \intersect slot'[x].m.changes # {}
      PROVE  \/ <<q, slot'[x].op>> \in Unrefreshed \union missed'
             \/ \E i \in DOMAIN slot'[x].m.refetches : q \in slot'[x].m.refetches[i]
  <2>1. CASE x = s
    BY <1>3, <1>4, <1>6, <1>8, <2>1 DEF Settles
  <2>2. CASE x # s
    BY <1>2, <1>6, <1>8, <2>2 DEF DeskNow
  <2> QED BY <2>1, <2>2
<1>9. count' \in 0..MaxOperations
  BY <1>2, DeskBounds DEF DeskNow
<1> QED BY <1>0, <1>2, <1>6, <1>7, <1>8, <1>9 DEF DeskNow, DeskThen

\* The server changes the data, or refuses to.
LEMMA DeskCommits ==
    ASSUME DeskNow, NEW s \in Slot, Commit(s) \/ MutationFails(s)
    PROVE  DeskThen
<1>0. tab \in ClubTab \union {"gone"} /\ Shown(tab) \subseteq Query
  BY TabsShow DEF DeskNow
<1>1. slot[s] \in Underway /\ slot[s].pc = "sent" /\ UNCHANGED <<rights, tab, fetching, count, missed>>
  BY DEF Commit, MutationFails, DeskNow, Idle
<1>2. CASE Commit(s)
  <2> DEFINE op == slot[s].op
             lacking == {q \in Query : Reads[q] \intersect slot[s].m.changes # {}}
             r == [slot[s] EXCEPT !.pc = "answered"]
  <2>1. /\ slot' = [slot EXCEPT ![s] = r]
        /\ behind' = [q \in DOMAIN behind |-> behind[q] \union {o \in {op} : q \in lacking}]
    BY <1>2 DEF Commit, Query
  <2>2. PICK early \in SUBSET lacking :
           carries' = [q \in DOMAIN carries |-> carries[q] \union {o \in {op} : q \in early}]
    BY <1>2 DEF Commit, Query
  <2>3. r \in Underway /\ r.pc = "answered" /\ r.op = op /\ r.m = slot[s].m /\ op \in Operation
    BY <1>1 DEF Underway
  <2>4. /\ slot' \in [Slot -> {Idle} \union Underway] /\ slot'[s] = r
        /\ \A x \in Slot : x # s => slot'[x] = slot[x]
    BY <2>1, <2>3, SlotGoesOn DEF DeskNow
  <2>5. ASSUME NEW q \in Shown(tab), q \in lacking
        PROVE  <<q, op>> \in Unrefreshed \union missed' \/ Waits(slot', q, op)
    <3>1. \/ <<q, op>> \in Unrefreshed \union missed
          \/ \E i \in DOMAIN slot[s].m.refetches : q \in slot[s].m.refetches[i]
      BY <1>1, <2>5 DEF DeskNow
    <3> HIDE DEF r, op
    <3> QED BY <1>1, <2>3, <2>4, <3>1 DEF Waits
  <2>6. \A q, o : Waits(slot, q, o) => Waits(slot', q, o)
    <3> HIDE DEF r
    <3> QED BY <1>1, <2>4 DEF Waits
  <2> HIDE DEF op, r, lacking
  <2>7. /\ behind' \in [Query -> SUBSET Operation] /\ carries' \in [Query -> SUBSET Operation]
        /\ \A q \in Query : \A o \in behind'[q] : o \in behind[q] \/ (o = op /\ q \in lacking)
        /\ \A q \in Query : \A o \in carries'[q] : o \in carries[q] \/ (o = op /\ q \in lacking)
    <3>1. /\ behind \in [Query -> SUBSET Operation] /\ carries \in [Query -> SUBSET Operation]
          /\ DOMAIN behind = Query /\ DOMAIN carries = Query
      BY DEF DeskNow
    <3>2. \A q \in Query : behind'[q] = behind[q] \union {o \in {op} : q \in lacking}
      BY <2>1, <3>1
    <3>3. \A q \in Query : carries'[q] = carries[q] \union {o \in {op} : q \in early}
      BY <2>2, <3>1
    <3>4. DOMAIN behind' = Query /\ DOMAIN carries' = Query
      BY <2>1, <2>2, <3>1
    <3>5. /\ behind' \in [Query -> SUBSET Operation]
          /\ \A q \in Query : \A o \in behind'[q] : o \in behind[q] \/ (o = op /\ q \in lacking)
      <4>1. behind' = [q \in Query |-> behind'[q]]
        BY <2>1, <3>1, <3>2
      <4>2. ASSUME NEW q \in Query
            PROVE  /\ behind'[q] \in SUBSET Operation
                   /\ \A o \in behind'[q] : o \in behind[q] \/ (o = op /\ q \in lacking)
        BY <2>3, <3>1, <3>2
      <4> QED BY <4>1, <4>2
    <3>6. /\ carries' \in [Query -> SUBSET Operation]
          /\ \A q \in Query : \A o \in carries'[q] : o \in carries[q] \/ (o = op /\ q \in lacking)
      <4>1. carries' = [q \in Query |-> carries'[q]]
        BY <2>2, <3>1, <3>3
      <4>2. ASSUME NEW q \in Query
            PROVE  /\ carries'[q] \in SUBSET Operation
                   /\ \A o \in carries'[q] : o \in carries[q] \/ (o = op /\ q \in lacking)
        BY <2>2, <2>3, <3>1, <3>3
      <4> QED BY <4>1, <4>2
    <3> QED BY <3>5, <3>6
  <2>8. \A x \in Slot : slot'[x].pc = "sent" => slot'[x] = slot[x]
    BY <2>3, <2>4
  <2> QED BY <1>0, <1>1, <2>4, <2>5, <2>6, <2>7, <2>8 DEF DeskNow, DeskThen
<1>3. CASE MutationFails(s)
  <2>1. slot' = [slot EXCEPT ![s] = Idle] /\ UNCHANGED <<carries, behind>> /\ Idle.pc = "idle"
    BY <1>3 DEF MutationFails, Idle
  <2>2. /\ slot' \in [Slot -> {Idle} \union Underway] /\ slot'[s] = Idle
        /\ \A x \in Slot : x # s => slot'[x] = slot[x]
    BY <2>1, SlotGoesOn DEF DeskNow
  <2>3. \A q, o : Waits(slot, q, o) => Waits(slot', q, o)
    BY <1>1, <2>2 DEF Waits
  <2>4. \A x \in Slot : slot'[x].pc = "sent" => slot'[x] = slot[x]
    BY <2>1, <2>2
  <2>5. behind' = behind /\ carries' \in [Query -> SUBSET Operation] /\ fetching' \subseteq Query
    BY <1>1, <2>1 DEF DeskNow
  <2> QED BY <1>0, <1>1, <1>3, <2>1, <2>2, <2>3, <2>4, <2>5, DeskAwaits DEF MutationFails
<1> QED BY <1>2, <1>3

\* The first lists are fetched again.
LEMMA DeskSucceeds ==
    ASSUME DeskNow, NEW s \in Slot, onSuccess(s)
    PROVE  DeskThen
<1>0. tab \in ClubTab \union {"gone"} /\ Shown(tab) \subseteq Query
  BY TabsShow DEF DeskNow
<1> DEFINE r == [slot[s] EXCEPT !.pc = "refetching"]
           R == slot[s].m.refetches
<1>1. /\ slot[s] \in Underway /\ slot[s].pc = "answered" /\ Refetch(Head(R))
      /\ slot' = [slot EXCEPT ![s] = r] /\ UNCHANGED <<rights, tab, behind, count, missed>>
  BY DEF onSuccess, DeskNow, Idle
<1>2. /\ r \in Underway /\ r.pc = "refetching" /\ r.op = slot[s].op /\ r.m = slot[s].m
      /\ R \in Seq(SUBSET Query) /\ R # <<>>
  BY <1>1 DEF Underway, Mutations
<1>3. /\ slot' \in [Slot -> {Idle} \union Underway] /\ slot'[s] = r
      /\ \A x \in Slot : x # s => slot'[x] = slot[x]
  BY <1>1, <1>2, SlotGoesOn DEF DeskNow
<1>4. Head(R) = R[1] /\ DOMAIN R \subseteq Nat \ {0}
  BY <1>2
<1>5. ASSUME NEW q, q \notin Head(R), NEW o, Waits(slot, q, o)
      PROVE  Waits(slot', q, o)
  <2>1. PICK x \in Slot : /\ slot[x].pc # "idle" /\ slot[x].op = o
                          /\ \E i \in DOMAIN slot[x].m.refetches :
                                /\ q \in slot[x].m.refetches[i]
                                /\ slot[x].pc = "answered" \/ (slot[x].pc = "refetching" /\ i > 1)
    BY <1>5 DEF Waits
  <2>2. CASE x # s
    BY <1>3, <2>1, <2>2 DEF Waits
  <2>3. CASE x = s
    <3>1. PICK i \in DOMAIN R : q \in R[i]
      BY <2>1, <2>3
    <3>2. i > 1
      BY <1>4, <1>5, <3>1
    <3> HIDE DEF r
    <3> QED BY <1>2, <1>3, <2>1, <2>3, <3>1, <3>2 DEF Waits
  <2> QED BY <2>2, <2>3
<1>6. \A x \in Slot : slot'[x].pc = "sent" => slot'[x] = slot[x]
  BY <1>2, <1>3
<1> HIDE DEF r, R
<1>7. /\ fetching' \subseteq Query /\ carries' \in [Query -> SUBSET Operation]
      /\ \A q \in Shown(tab) :
            /\ q \in Head(R) => q \in fetching' /\ carries'[q] = {}
            /\ q \notin Head(R) => (q \in fetching' <=> q \in fetching) /\ carries'[q] = carries[q]
  BY <1>0, <1>1, DeskRefetches
<1>8. ASSUME NEW q \in Shown(tab')
      PROVE  /\ q \in Shown(tab)
             /\ \/ q \in fetching' /\ carries'[q] = {}
                \/ /\ (q \in fetching' <=> q \in fetching) /\ carries'[q] = carries[q]
                   /\ \A o : Waits(slot, q, o) => Waits(slot', q, o)
  BY <1>1, <1>5, <1>7, <1>8
<1> QED BY ONLY DeskNow, <1>0, <1>1, <1>3, <1>6, <1>7, <1>8, DeskAwaits

\* A sequence without its first member.
LEMMA TailFollows ==
    ASSUME NEW K, NEW R \in Seq(K), R # <<>>, NEW i \in DOMAIN R, i # 1
    PROVE  /\ i - 1 \in DOMAIN Tail(R) /\ Tail(R)[i - 1] = R[i]
           /\ i # 2 => i - 1 > 1
<1>1. /\ Len(R) \in Nat \ {0} /\ DOMAIN R = 1..Len(R)
      /\ Tail(R) \in Seq(K) /\ Len(Tail(R)) = Len(R) - 1
  OBVIOUS
<1>2. i \in 1..Len(R) /\ i - 1 \in 1..(Len(R) - 1) /\ (i # 2 => i - 1 > 1)
  BY <1>1
<1>3. i - 1 \in DOMAIN Tail(R)
  BY ONLY <1>1, <1>2
<1>4. \A j \in 1..(Len(R) - 1) : Tail(R)[j] = R[j + 1]
  BY <1>1
<1>5. Tail(R)[i - 1] = R[(i - 1) + 1]
  BY ONLY <1>2, <1>4
<1>6. (i - 1) + 1 = i
  BY ONLY <1>2
<1> QED BY ONLY <1>2, <1>3, <1>5, <1>6

\* The next ones are, or the mutation is over.
LEMMA DeskSettles ==
    ASSUME DeskNow, NEW s \in Slot, Settled(s)
    PROVE  DeskThen
<1>0. tab \in ClubTab \union {"gone"} /\ Shown(tab) \subseteq Query
  BY TabsShow DEF DeskNow
<1> DEFINE R == slot[s].m.refetches
<1>1. /\ slot[s] \in Underway /\ slot[s].pc = "refetching"
      /\ UNCHANGED <<rights, behind, count, missed>>
  BY DEF Settled, DeskNow, Idle
<1>2. slot[s].m \in Mutations /\ R \in Seq(SUBSET Query) /\ R # <<>>
  BY <1>1 DEF Underway, Mutations
<1>3. CASE Tail(R) # <<>>
  <2> DEFINE m == [slot[s].m EXCEPT !.refetches = Tail(R)]
             r == [slot[s] EXCEPT !.m = m]
  <2>1. Refetch(Head(Tail(R))) /\ slot' = [slot EXCEPT ![s].m.refetches = Tail(R)] /\ tab' = tab
    BY <1>3 DEF Settled
  <2>2. slot' = [slot EXCEPT ![s] = r]
    BY <2>1
  <2>3. Tail(R) \in Seq(SUBSET Query) \ {<<>>}
    BY <1>2, <1>3
  <2>4. m \in Mutations /\ m.refetches = Tail(R) /\ m.changes = slot[s].m.changes
    BY <1>2, <2>3 DEF Mutations
  <2> HIDE DEF m
  <2>5. r \in Underway /\ r.pc = "refetching" /\ r.op = slot[s].op /\ r.m = m
    BY <1>1, <2>4 DEF Underway
  <2> HIDE DEF r
  <2>6. /\ slot' \in [Slot -> {Idle} \union Underway] /\ slot'[s] = r
        /\ \A x \in Slot : x # s => slot'[x] = slot[x]
    BY <2>2, <2>5, SlotGoesOn DEF DeskNow
  <2>7. /\ DOMAIN R = 1..Len(R) /\ DOMAIN Tail(R) = 1..(Len(R) - 1) /\ Len(R) \in Nat
        /\ \A i \in 1..(Len(R) - 1) : Tail(R)[i] = R[i + 1]
        /\ Head(Tail(R)) = R[2]
    BY <1>2, <1>3
  <2>8. ASSUME NEW q, q \notin Head(Tail(R)), NEW o, Waits(slot, q, o)
        PROVE  Waits(slot', q, o)
    <3>1. PICK x \in Slot : /\ slot[x].pc # "idle" /\ slot[x].op = o
                            /\ \E i \in DOMAIN slot[x].m.refetches :
                                  /\ q \in slot[x].m.refetches[i]
                                  /\ slot[x].pc = "answered" \/ (slot[x].pc = "refetching" /\ i > 1)
      BY <2>8 DEF Waits
    <3>2. CASE x # s
      BY <2>6, <3>1, <3>2 DEF Waits
    <3>3. CASE x = s
      <4>1. PICK i \in DOMAIN R : q \in R[i] /\ i > 1
        BY <1>1, <3>1, <3>3
      <4>2. i # 2
        BY <2>7, <2>8, <4>1
      <4>3. i - 1 \in DOMAIN Tail(R) /\ Tail(R)[i - 1] = R[i] /\ i - 1 > 1
        BY <1>2, <4>1, <4>2, TailFollows
      <4>4. slot'[s].m.refetches = Tail(R) /\ slot'[s].pc = "refetching" /\ slot'[s].op = o
        BY <2>4, <2>5, <2>6, <3>1, <3>3
      <4>5. q \in Tail(R)[i - 1]
        BY <4>1, <4>3
      <4> HIDE DEF R, r, m
      <4> QED BY <4>3, <4>4, <4>5 DEF Waits
    <3> QED BY <3>2, <3>3
  <2>9. \A x \in Slot : slot'[x].pc = "sent" => slot'[x] = slot[x]
    BY <2>5, <2>6
  <2> HIDE DEF R
  <2>10. /\ fetching' \subseteq Query /\ carries' \in [Query -> SUBSET Operation]
         /\ \A q \in Shown(tab) :
              /\ q \in Head(Tail(R)) => q \in fetching' /\ carries'[q] = {}
              /\ q \notin Head(Tail(R)) => (q \in fetching' <=> q \in fetching) /\ carries'[q] = carries[q]
    BY <1>0, <2>1, DeskRefetches
  <2>11. ASSUME NEW q \in Shown(tab')
         PROVE  /\ q \in Shown(tab)
                /\ \/ q \in fetching' /\ carries'[q] = {}
                   \/ /\ (q \in fetching' <=> q \in fetching) /\ carries'[q] = carries[q]
                      /\ \A o : Waits(slot, q, o) => Waits(slot', q, o)
    BY <2>1, <2>8, <2>10, <2>11
  <2> QED BY ONLY DeskNow, <1>0, <1>1, <2>1, <2>6, <2>9, <2>10, <2>11, DeskAwaits
<1>4. CASE Tail(R) = <<>>
  <2>1. /\ slot' = [slot EXCEPT ![s] = Idle] /\ UNCHANGED <<fetching, carries>> /\ Idle.pc = "idle"
        /\ tab' = tab \/ tab' = "gone"
    BY <1>4 DEF Settled, Idle
  <2>2. /\ slot' \in [Slot -> {Idle} \union Underway] /\ slot'[s] = Idle
        /\ \A x \in Slot : x # s => slot'[x] = slot[x]
    BY <2>1, SlotGoesOn DEF DeskNow
  <2>3. DOMAIN R = {1}
    BY <1>2, <1>4
  <2>4. \A q, o : Waits(slot, q, o) => Waits(slot', q, o)
    BY <1>1, <2>2, <2>3 DEF Waits
  <2>5. \A x \in Slot : slot'[x].pc = "sent" => slot'[x] = slot[x]
    BY <2>1, <2>2
  <2>6. \A q \in Shown(tab') : q \in Shown(tab)
    BY <2>1, TabsShow
  <2>7. /\ carries' \in [Query -> SUBSET Operation] /\ fetching' \subseteq Query
        /\ tab' \in ClubTab \union {"gone"}
    BY <1>0, <2>1 DEF DeskNow
  <2>8. ASSUME NEW q \in Shown(tab')
        PROVE  /\ q \in Shown(tab) /\ (q \in fetching' <=> q \in fetching) /\ carries'[q] = carries[q]
               /\ \A o : Waits(slot, q, o) => Waits(slot', q, o)
    BY <2>1, <2>4, <2>6, <2>8
  <2> HIDE DEF R
  <2> QED BY ONLY DeskNow, <1>1, <2>2, <2>5, <2>7, <2>8, DeskAwaits
<1> QED BY <1>3, <1>4

\* What stands still keeps it.
LEMMA DeskStays == DeskInv /\ UNCHANGED deskVars => DeskInv'
BY DeskParts, DeskThenParts DEF DeskNow, DeskThen, deskVars

\* Every step of the pages keeps it.
LEMMA DeskKept == DeskInv /\ DeskNext => DeskInv'
<1> SUFFICES ASSUME DeskInv, DeskNext PROVE DeskInv'
  OBVIOUS
<1>1. DeskNow
  BY DeskParts
<1>2. CASE (\E q \in fetching : FetchArrives(q)) \/ (\E t \in Visited : setSearchParams(t))
  BY <1>1, <1>2, DeskReads, DeskThenParts
<1>3. ASSUME NEW s \in Slot, mutate(s) \/ Commit(s) \/ MutationFails(s) \/ onSuccess(s) \/ Settled(s)
      PROVE  DeskInv'
  BY <1>1, <1>3, DeskMutates, DeskCommits, DeskSucceeds, DeskSettles, DeskThenParts
<1>4. CASE Left
  BY <1>4, DeskStays DEF Left
<1> QED BY <1>2, <1>3, <1>4 DEF DeskNext

\* With nothing under way nothing is awaited.
LEMMA DeskShowsChanges == DeskInv => ShowsOwnChanges
<1> SUFFICES ASSUME DeskInv, fetching \intersect Mounted = {}, \A s \in Slot : slot[s].pc = "idle",
                    NEW q \in Mounted, NEW op \in behind[q]
             PROVE  <<q, op>> \in Unrefreshed \union missed
  BY DEF ShowsOwnChanges
<1>1. Awaited(q, op)
  BY DEF DeskInv, Awaits
<1> QED BY <1>1 DEF Awaited, Excused

-----------------------------------------------------------------------------
(* The machines together.                                                  *)

\* The machine that moves is always the same; the invariant of each is about it alone,
\* and the pages of a club are there whichever it is.
PagesInv ==
    /\ machine = "suggest" => Suggest!SuggestInv
    /\ machine = "search" => Search!SearchInv
    /\ machine = "authors" => AuthorPage!AuthorInv
    /\ machine = "viewer" => Viewer!ViewerInv
    /\ machine = "founding" => Founding!FoundingInv
    /\ machine = "tags" => TagRows!TagInv
    /\ machine = "panel" => Panel!PanelInv
    /\ machine = "chats" => Chats!ChatInv /\ Chats!AnswersComing
    /\ DeskInv

\* The invariant of the machine that runs holds at first,
LEMMA PagesInit == Init => PagesInv
BY Constants, SuggestInitially, SearchInitially, AuthorsInitially, ViewerInitially, FoundingInitially,
   TagsInitially, PanelInitially, ChatsInitially, AnswersInitially, DeskInitially DEF Constants, Init, SlotsInit, PagesInv

\* One machine moves, or none.
LEMMA OneMoves ==
    ASSUME [Next]_vars
    PROVE  /\ machine' = machine
           /\ machine = "suggest" => Suggest!Next \/ UNCHANGED slots
           /\ machine = "search" => Search!Next \/ UNCHANGED slots
           /\ machine = "authors" => AuthorPage!Next \/ UNCHANGED slots
           /\ machine = "viewer" => Viewer!Next \/ UNCHANGED slots
           /\ machine = "founding" => Founding!Next \/ UNCHANGED slots
           /\ machine = "tags" => TagRows!Next \/ UNCHANGED slots
           /\ machine = "panel" => Panel!Next \/ UNCHANGED slots
           /\ machine = "chats" => Chats!Next \/ UNCHANGED slots
           /\ DeskNext \/ UNCHANGED deskVars
BY DEF Next, Moves, vars

\* What stands still keeps its invariant.
LEMMA PagesRest ==
    ASSUME PagesInv, DeskInv', UNCHANGED <<machine, slots>>
    PROVE  PagesInv'
<1>0. machine' = machine /\ UNCHANGED <<v1, v2, v3, v4, v5, v6, v7, v8, v9, v10, v11, v12, v13, v14>>
  BY DEF slots
<1>1. ASSUME machine = "suggest" PROVE Suggest!SuggestInv'
  BY <1>0, <1>1 DEF PagesInv, Suggest!SuggestInv, Suggest!TypeOK, Suggest!OneLookUp,
     Suggest!SuggestionsFit
<1>2. ASSUME machine = "search" PROVE Search!SearchInv'
  BY <1>0, <1>2 DEF PagesInv, Search!SearchInv, Search!TypeOK, Search!PagesInOrder,
     Search!OneSearch, Search!NextPage, Search!Uncrossed
<1>3. ASSUME machine = "authors" PROVE AuthorPage!AuthorInv'
  <2>1. AuthorPage!AuthorInv
    BY <1>3 DEF PagesInv
  <2>2. PICK rows \in SUBSET AuthorPage!Author : v8 \in [rows -> BOOLEAN]
    BY <2>1 DEF AuthorPage!AuthorInv, AuthorPage!TypeOK
  <2> QED BY ONLY <1>0, <2>1, <2>2, AuthorsTick
<1>4. ASSUME machine = "viewer" PROVE Viewer!ViewerInv'
  <2>1. Viewer!ViewerInv
    BY <1>4 DEF PagesInv
  <2> QED BY ONLY <1>0, <2>1 DEF Viewer!ViewerInv, Viewer!TypeOK, Viewer!OwnNoteOnly, Viewer!OfThisNote,
          Viewer!pdfLoading, Viewer!isPending
<1>5. ASSUME machine = "founding" PROVE Founding!FoundingInv'
  <2>1. Founding!FoundingInv
    BY <1>5 DEF PagesInv
  <2> QED BY ONLY <1>0, <2>1 DEF Founding!FoundingInv, Founding!TypeOK, Founding!ListHasClub,
          Founding!ListFollows, Founding!SentOnce, Founding!InvitesToShownClub, Founding!InvitesOnCard
<1>6. ASSUME machine = "tags" PROVE TagRows!TagInv'
  <2>1. TagRows!TagInv
    BY <1>6 DEF PagesInv
  <2> QED BY ONLY <1>0, <2>1 DEF TagRows!TagInv, TagRows!TypeOK, TagRows!OneFolder, TagRows!OnACover,
          TagRows!CodeOf
<1>7. ASSUME machine = "panel" PROVE Panel!PanelInv'
  <2>1. PanelTypes /\ (~ v13 => PanelSound)
    BY <1>7, PanelParts DEF PagesInv
  <2>2. PanelTypes'
    BY ONLY <1>0, <2>1 DEF PanelTypes
  <2> QED BY <1>0, <2>1, <2>2, PanelStays
<1>8. ASSUME machine = "chats" PROVE Chats!ChatInv' /\ Chats!AnswersComing'
  <2>1. Chats!ChatInv /\ Chats!AnswersComing
    BY <1>8 DEF PagesInv
  <2>2. v1 \in Conversations /\ FetchTyped(v7) /\ PostTyped(v11)
    BY <2>1 DEF Chats!ChatInv, Chats!ChatTypes, Conversations, FetchTyped, PostTyped
  <2>3. v1' \in Conversations /\ FetchTyped(v7') /\ PostTyped(v11')
    BY ONLY <1>0, <2>2
  <2> QED BY <1>0, <2>1, <2>3, ChatStays, AnswersStay
<1> QED BY <1>0, <1>1, <1>2, <1>3, <1>4, <1>5, <1>6, <1>7, <1>8 DEF PagesInv

\* and whatever that machine does, or none.
LEMMA PagesStep == PagesInv /\ [Next]_vars => PagesInv'
<1> SUFFICES ASSUME PagesInv, [Next]_vars PROVE PagesInv'
  OBVIOUS
<1>0. DeskInv'
  BY OneMoves, DeskKept, DeskStays DEF PagesInv
<1>1. CASE UNCHANGED slots
  BY <1>0, <1>1, OneMoves, PagesRest
<1>2. ASSUME ~ UNCHANGED slots
      PROVE  /\ machine = "suggest" => Suggest!SuggestInv'
             /\ machine = "search" => Search!SearchInv'
             /\ machine = "authors" => AuthorPage!AuthorInv'
             /\ machine = "viewer" => Viewer!ViewerInv'
  BY <1>2, OneMoves, Constants, SuggestKept, SearchKept, AuthorsKept, ViewerKept DEF Constants, PagesInv
<1>3. ASSUME ~ UNCHANGED slots
      PROVE  /\ machine = "founding" => Founding!FoundingInv'
             /\ machine = "tags" => TagRows!TagInv'
             /\ machine = "panel" => Panel!PanelInv'
             /\ machine = "chats" => Chats!ChatInv' /\ Chats!AnswersComing'
  BY <1>3, OneMoves, Constants, FoundingKept, TagsKept, PanelKept, ChatsKept, AnswersKept
     DEF Constants, PagesInv
<1> QED BY <1>0, <1>1, <1>2, <1>3, OneMoves DEF PagesInv

\* A search shows what its text asks for: the suggestions under a field are those for its
\* text once it has come to rest (useDebouncedAutocomplete.ts), the pages of a search follow
\* each other and are one search's unless answers crossed (SearchElementView.tsx), and a
\* list of authors read to its end has all the server has under its text
\* (AuthorView.tsx). For any texts, pages, authors and requests under way.
THEOREM PagesFitTheText == Spec => []FitsTheText
<1>1. PagesInv => FitsTheText
  BY Constants, AuthorsRead DEF Constants, PagesInv, FitsTheText, Suggest!SuggestInv, Search!SearchInv
<1> QED BY PagesInit, PagesStep, <1>1, PTL DEF Spec

\* A page that goes from one thing to another shows the one it is on and acts on it, though
\* answers for the last one still come: the page of a note shows and saves its own file
\* (NoteDetailView.tsx), a chat is one piece of the chat that is open (MyMessagesView.tsx),
\* the panel has the messages of one session (AIChatPanel.tsx), authors are deleted off the
\* list on screen (AuthorView.tsx), invitations go to the club just founded (ClubView.tsx)
\* and the code on a cover opens the folder it was printed for (InventoryView.tsx).
\* For any notes, chats, sessions, clubs, folders and requests under way.
THEOREM PagesShowWhatIsOpen == Spec => []ShowsWhatIsOpen
<1>1. PagesInv => ShowsWhatIsOpen
  <2> SUFFICES ASSUME PagesInv PROVE ShowsWhatIsOpen
    OBVIOUS
  <2>1. machine = "viewer" => Viewer!OwnNoteOnly
    BY DEF PagesInv, Viewer!ViewerInv
  <2>2. machine = "chats" => Chats!OnePiece
    BY Constants, ChatOnePiece DEF PagesInv, Constants
  <2>3. machine = "panel" => Panel!OneSession
    BY DEF PagesInv, Panel!PanelInv
  <2>4. machine = "authors" => AuthorPage!DeletesWhatIsShown
    BY Constants, AuthorsRead DEF PagesInv, Constants
  <2>5. machine = "founding" => Founding!InvitesToShownClub /\ Founding!OneClub
    BY FoundingOneClub DEF PagesInv, Founding!FoundingInv
  <2>6. machine = "tags" => TagRows!OpensItsFolder
    BY CodeOpensItsFolder DEF PagesInv
  <2> QED BY <2>1, <2>2, <2>3, <2>4, <2>5, <2>6 DEF ShowsWhatIsOpen
<1> QED BY PagesInit, PagesStep, <1>1, PTL DEF Spec
===============================================================================
