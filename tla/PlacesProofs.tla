------------------------------ MODULE PlacesProofs ------------------------------
(***************************************************************************)
(* Where the trees and rows of the client's pages show an element, and     *)
(* what the types of the machines rest on where no other invariant has     *)
(* them (MCPages), for every value of their constants. A machine's         *)
(* variables are the slots v1, v2, ... here, in the order MCPages lays     *)
(* them in.                                                                *)
(***************************************************************************)
EXTENDS AgreementProofs, WellFoundedInduction

-----------------------------------------------------------------------------
(* The folder tree (Library): v1 is where the server has an element, v2 the *)
(* edges of the tree on screen, v5 the fetch of the roots, v6 the calls,    *)
(* v7 the elements of which nothing is certain.                             *)

Placed == Folder \union {Root}
Things == Folder \union Sheet

\* What a call has on its way to the tree, all that is shown or on its way, and who waits.
Way(r) ==
    r.below \union ({r.element} \X r.children)
        \union (IF r.pc \in {"moved", "created"} THEN {<<r.to, r.element>>} ELSE {})
Lies(s, k, f) == s \union (UNION {Way(k[c]) : c \in OneCall}) \union ({Root} \X f.roots)
Fits(h, a, e) == h[e[2]] = e[1] \/ e[2] \in a
Await(k, x) == \E c \in OneCall : k[c].pc \in {"moved", "deleted"} /\ x \in k[c].touched
Whole(h, s, k, f, a, c) ==
    /\ k[c].element \in k[c].touched /\ \A y \in k[c].touched : h[y] = Gone
    /\ \/ k[c].touched \subseteq a
       \/ \A e \in Lies(s, k, f) : e[2] \in k[c].touched \ {k[c].element} => e[1] \in k[c].touched

\* A call is about something that is there, or is its to create.
About(h, r) ==
    /\ r.element \in Things /\ (r.pc = "create" <=> h[r.element] = New)
    /\ r.pc \in {"children", "loaded", "delete", "deleted"} => r.element \in Folder
    /\ r.pc = "moved" => r.touched = {r.element}
Brings(r) ==
    (r.children # {} => r.pc = "loaded") /\ (r.below # {} => r.pc \in {"move", "moved"})
Circles(a, r) ==
    r.pc \in {"move", "moved"} => \A e \in r.below : e[2] = r.element => e[2] \in a

HomeTypes(h, s, k, f, a) ==
    /\ h \in [Things -> Placed \union {New, Gone}]
    /\ s \subseteq Placed \X Things /\ a \subseteq Things
    /\ k \in [OneCall -> Tree!Asked]
    /\ f \in [pc: {"none", "sent", "answered"}, roots: SUBSET Folder]
    /\ f.pc # "answered" => f.roots = {}

CallsApart(h, k) ==
    /\ \A c \in OneCall : Brings(k[c]) /\ (k[c].pc # "idle" => About(h, k[c]))
    /\ \A c, d \in OneCall : k[c].pc = "create" /\ k[d].pc # "idle" /\ k[c].element = k[d].element => c = d

EdgesFit(h, s, k, f, a) ==
    /\ \A e \in Lies(s, k, f) : h[e[2]] # New
    /\ \A c \in OneCall : \A e \in Way(k[c]) : Fits(h, a, e)
    /\ \A x \in f.roots : h[x] = Root \/ x \in a
    /\ \A e \in s : Fits(h, a, e) \/ Await(k, e[2])

TreeState(h, s, k, f, a) ==
    /\ HomeTypes(h, s, k, f, a) /\ CallsApart(h, k) /\ EdgesFit(h, s, k, f, a)
    /\ \A c \in OneCall : k[c].pc = "deleted" => Whole(h, s, k, f, a, c)
    /\ \A c \in OneCall : Circles(a, k[c])

\* What is on its way is an element,
LEMMA WayIs ==
    ASSUME NEW r \in Tree!Asked, r.pc # "idle" => r.element \in Things
    PROVE  \A e \in Way(r) : e[2] \in Things
<1> SUFFICES ASSUME NEW e \in Way(r) PROVE e[2] \in Things
  OBVIOUS
<1>1. CASE e \in r.below
  BY <1>1 DEF Tree!Asked, Tree!Element, Things
<1>2. CASE e \in {r.element} \X r.children
  BY <1>2 DEF Tree!Asked, Tree!Element, Things
<1>3. CASE r.pc \in {"moved", "created"} /\ e = <<r.to, r.element>>
  BY <1>3
<1> QED BY <1>1, <1>2, <1>3 DEF Way

\* and a call that is over has nothing.
LEMMA IdleWay ==
    /\ Way(Tree!Idle) = {} /\ Tree!Idle \in Tree!Asked /\ Tree!Idle.pc = "idle" /\ Brings(Tree!Idle)
    /\ \A r : r.pc = "idle" /\ Brings(r) => Way(r) = {}
BY DEF Way, Tree!Idle, Tree!Asked, Tree!Place, Tree!Element, Brings

\* The invariant says this of the slots,
LEMMA TreeParts ==
    ASSUME Tree!LibraryInv
    PROVE  TreeState(v1, v2, v6, v5, v7) /\ v3 \in [Things -> Placed] /\ v4 \subseteq Folder
<1> USE DEF Tree!LibraryInv, Tree!LibraryTypes
<1>1. Tree!OnTheWay = (UNION {Way(v6[c]) : c \in OneCall}) \union ({Root} \X v5.roots)
  BY DEF Tree!OnTheWay, Tree!Pending, Way
<1>2. v2 \union Tree!OnTheWay = Lies(v2, v6, v5)
  BY <1>1 DEF Lies
<1>3. HomeTypes(v1, v2, v6, v5, v7) /\ v3 \in [Things -> Placed] /\ v4 \subseteq Folder
  BY DEF Tree!TypeOK, HomeTypes, Tree!Place, Tree!Element, Placed, Things, Tree!There
<1>4. CallsApart(v1, v6)
  <2>1. \A c \in OneCall : Brings(v6[c])
    BY DEF Brings
  <2>2. \A c \in OneCall : v6[c].pc # "idle" => About(v1, v6[c])
    BY DEF Tree!Busy, Tree!There, About, Tree!Element, Things, Tree!Followable
  <2>3. \A c, d \in OneCall :
            v6[c].pc = "create" /\ v6[d].pc # "idle" /\ v6[c].element = v6[d].element => c = d
    BY DEF Tree!Busy
  <2> QED BY <2>1, <2>2, <2>3 DEF CallsApart
<1>5. \A x : Await(v6, x) <=> x \in Tree!Awaited
  BY DEF Await, Tree!Awaited
<1>6. EdgesFit(v1, v2, v6, v5, v7)
  <2>1. \A e \in Lies(v2, v6, v5) : v1[e[2]] # New
    BY <1>2 DEF Tree!There
  <2>2. \A c \in OneCall : \A e \in Way(v6[c]) : Fits(v1, v7, e)
    BY <1>1 DEF Tree!InPlace, Tree!Right, Fits
  <2>3. \A x \in v5.roots : v1[x] = Root \/ x \in v7
    <3> SUFFICES ASSUME NEW x \in v5.roots PROVE v1[x] = Root \/ x \in v7
      OBVIOUS
    <3>1. <<Root, x>> \in Tree!OnTheWay
      BY <1>1
    <3> QED BY <3>1 DEF Tree!InPlace, Tree!Right
  <2>4. \A e \in v2 : Fits(v1, v7, e) \/ Await(v6, e[2])
    BY <1>5 DEF Tree!InPlace, Tree!Right, Fits
  <2> QED BY <2>1, <2>2, <2>3, <2>4 DEF EdgesFit
<1>7. \A c \in OneCall : v6[c].pc = "deleted" => Whole(v1, v2, v6, v5, v7, c)
  BY <1>2 DEF Tree!Followable, Tree!Together, Whole
<1>8. \A c \in OneCall : Circles(v7, v6[c])
  BY DEF Tree!Followable, Circles
<1> QED BY <1>3, <1>4, <1>6, <1>7, <1>8 DEF TreeState

TreeNext ==
    TreeState(v1', v2', v6', v5', v7') /\ v3' \in [Things -> Placed] /\ v4' \subseteq Folder

\* and is this in the next state.
LEMMA TreeNextParts == TreeNext => Tree!LibraryInv'
<1> SUFFICES ASSUME TreeNext PROVE Tree!LibraryInv'
  OBVIOUS
<1> USE DEF TreeNext, TreeState
<1>1. Tree!OnTheWay' = (UNION {Way(v6'[c]) : c \in OneCall}) \union ({Root} \X v5'.roots)
  BY DEF Tree!OnTheWay, Tree!Pending, Way
<1>2. v2' \union Tree!OnTheWay' = Lies(v2', v6', v5')
  BY <1>1 DEF Lies
<1>3. Tree!TypeOK'
  BY DEF Tree!TypeOK, HomeTypes, Tree!Place, Tree!Element, Placed, Things
<1>4. \A x : Await(v6', x) <=> x \in Tree!Awaited'
  BY DEF Await, Tree!Awaited
<1>5. Tree!InPlace'
  <2>1. ASSUME NEW e \in Tree!OnTheWay' PROVE (v1'[e[2]] = e[1]) \/ e[2] \in v7'
    <3>1. CASE \E c \in OneCall : e \in Way(v6'[c])
      BY <3>1 DEF EdgesFit, Fits
    <3>2. CASE e \in {Root} \X v5'.roots
      BY <3>2 DEF EdgesFit
    <3> QED BY <1>1, <2>1, <3>1, <3>2
  <2> QED BY <1>4, <2>1 DEF Tree!InPlace, Tree!Right, EdgesFit, Fits
<1>6. Tree!Followable'
  <2>1. \A c \in OneCall : v6'[c].pc = "deleted" => Tree!Together(c)'
    BY <1>2 DEF Whole, Tree!Together
  <2> QED BY <2>1 DEF Tree!Followable, Circles, CallsApart, About
<1>7. Tree!LibraryTypes'
  <2>1. \A e \in v2' \union Tree!OnTheWay' : e[2] \in Tree!There'
    <3> SUFFICES ASSUME NEW e \in Lies(v2', v6', v5') PROVE e[2] \in Things
      BY <1>2 DEF EdgesFit, Tree!There, Tree!Element, Things
    <3>1. CASE e \in v2' \union ({Root} \X v5'.roots)
      BY <3>1 DEF HomeTypes, Things
    <3>2. ASSUME NEW c \in OneCall, e \in Way(v6'[c]) PROVE e[2] \in Things
      <4>1. v6'[c] \in Tree!Asked /\ (v6'[c].pc # "idle" => v6'[c].element \in Things)
        BY DEF HomeTypes, CallsApart, About
      <4> QED BY <3>2, <4>1, WayIs
    <3> QED BY <3>1, <3>2 DEF Lies
  <2>2. v5' \in [pc: {"none", "sent", "answered"}, roots: SUBSET Tree!There']
    <3>1. \A x \in v5'.roots : x \in Tree!There'
      <4> SUFFICES ASSUME NEW x \in v5'.roots PROVE x \in Tree!There'
        OBVIOUS
      <4>1. <<Root, x>> \in v2' \union Tree!OnTheWay'
        BY <1>1
      <4> QED BY <2>1, <4>1
    <3> QED BY <3>1 DEF HomeTypes
  <2>3. \A c \in Tree!Busy' : v6'[c].pc = "create" <=> v6'[c].element \notin Tree!There'
    BY DEF CallsApart, About, Tree!Busy, Tree!There, Tree!Element, Things
  <2>4. \A c, d \in Tree!Busy' :
            v6'[c].pc = "create" /\ v6'[c].element = v6'[d].element => c = d
    BY DEF CallsApart, Tree!Busy
  <2>5. \A c \in Tree!Busy' :
            /\ v6'[c].element \in Tree!Element
            /\ v6'[c].pc \in {"children", "loaded", "delete", "deleted"} => v6'[c].element \in Folder
    BY DEF CallsApart, About, Tree!Busy, Tree!Element, Things
  <2> QED BY <1>3, <2>1, <2>2, <2>3, <2>4, <2>5 DEF Tree!LibraryTypes, HomeTypes, CallsApart, Brings
<1> QED BY <1>5, <1>6, <1>7 DEF Tree!LibraryInv

\* What lies below something: the least that leaves nothing out, and so nothing
\* that does not lie in some other part of it.
LEMMA FromLeast ==
    ASSUME NEW x, NEW E, NEW S \in SUBSET (Things \union {Root}), Tree!Keeps(S, x, E)
    PROVE  Tree!From(x, E) \subseteq S
BY DEF Tree!From, Tree!Element, Things

\* What lies below x and is not x has an edge above it that lies there, too.
LEMMA FromAbove ==
    ASSUME NEW x \in Things \union {Root}, NEW E, \A e \in E : e[2] \in Things,
           NEW y \in Tree!From(x, E), y # x
    PROVE  \E e \in E : e[2] = y /\ e[1] \in Tree!From(x, E)
<1> SUFFICES ASSUME \A e \in E : e[2] = y => e[1] \notin Tree!From(x, E) PROVE FALSE
  OBVIOUS
<1> DEFINE S == Tree!From(x, E) \ {y}
<1>1. S \in SUBSET (Things \union {Root})
  BY DEF Tree!From, Tree!Element, Things
<1>2. x \in S
  BY DEF Tree!From, Tree!Keeps, Tree!Element, Things
<1>3. ASSUME NEW e \in E, e[1] \in S PROVE e[2] \in S
  <2>1. e[2] \in Tree!From(x, E)
    BY <1>3 DEF Tree!From, Tree!Keeps, Tree!Element, Things
  <2> QED BY <1>3, <2>1
<1>4. Tree!Keeps(S, x, E)
  BY <1>2, <1>3 DEF Tree!Keeps
<1>5. Tree!From(x, E) \subseteq S
  <2> HIDE DEF S
  <2> QED BY <1>1, <1>4, FromLeast
<1> QED BY <1>5

\* A call starts: what it has on its way is shown.
LEMMA TreeStarts ==
    ASSUME NEW h, NEW s, NEW k, NEW f, NEW a, TreeState(h, s, k, f, a),
           NEW c \in OneCall, k[c].pc = "idle",
           NEW r \in Tree!Asked, NEW b \in SUBSET Things, a \subseteq b,
           r.pc \in {"children", "move", "patch", "delete", "create", "upload"},
           About(h, r), Brings(r), r.children = {}, r.below \subseteq s,
           r.pc = "create" => \A d \in OneCall : k[d].pc # "idle" => k[d].element # r.element,
           \A e \in r.below : Fits(h, b, e), Circles(b, r)
    PROVE  TreeState(h, s, [k EXCEPT ![c] = r], f, b)
<1> DEFINE k2 == [k EXCEPT ![c] = r]
<1>1. HomeTypes(h, s, k, f, a) /\ CallsApart(h, k) /\ EdgesFit(h, s, k, f, a)
  BY DEF TreeState
<1>2. /\ k2 \in [OneCall -> Tree!Asked] /\ k2[c] = r
      /\ \A d \in OneCall : d # c => k2[d] = k[d]
  BY <1>1 DEF HomeTypes
<1> HIDE DEF k2
<1>3. HomeTypes(h, s, k2, f, b)
  BY <1>1, <1>2 DEF HomeTypes
<1>4. CallsApart(h, k2)
  <2>1. \A d \in OneCall : Brings(k2[d]) /\ (k2[d].pc # "idle" => About(h, k2[d]))
    BY <1>1, <1>2 DEF CallsApart, Brings
  <2>2. ASSUME NEW d \in OneCall, NEW g \in OneCall, k2[d].pc = "create", k2[g].pc # "idle",
               k2[d].element = k2[g].element
        PROVE  d = g
    <3>1. CASE d # c /\ g # c
      BY <1>1, <1>2, <2>2, <3>1 DEF CallsApart
    <3>2. CASE d = c /\ g # c
      BY <1>2, <2>2, <3>2
    <3>3. CASE d # c /\ g = c
      <4>1. k[d].pc = "create" /\ h[r.element] = New
        BY <1>1, <1>2, <2>2, <3>3 DEF CallsApart, About
      <4>2. r.pc = "create"
        BY <4>1 DEF About
      <4> QED BY <1>2, <2>2, <3>3, <4>1, <4>2
    <3> QED BY <3>1, <3>2, <3>3
  <2> QED BY <2>1, <2>2 DEF CallsApart
<1>5. Way(r) = r.below
  BY DEF Way
<1>6. Lies(s, k2, f) \subseteq Lies(s, k, f)
  BY <1>2, <1>5 DEF Lies
<1>7. \A x : Await(k, x) => Await(k2, x)
  BY <1>2 DEF Await
<1>8. EdgesFit(h, s, k2, f, b)
  <2>1. \A d \in OneCall : \A e \in Way(k2[d]) : Fits(h, b, e)
    BY <1>1, <1>2, <1>5 DEF EdgesFit, Fits
  <2> QED BY <1>1, <1>6, <1>7, <2>1 DEF EdgesFit, Fits
<1>9. \A d \in OneCall : k2[d].pc = "deleted" => Whole(h, s, k2, f, b, d)
  BY <1>2, <1>6 DEF TreeState, Whole
<1>10. \A d \in OneCall : Circles(b, k2[d])
  BY <1>2 DEF TreeState, Circles
<1> QED BY <1>3, <1>4, <1>8, <1>9, <1>10 DEF TreeState, k2

\* What was on its way is shown, or nothing, and a call ends, or none.
LEMMA TreeShows ==
    ASSUME NEW h, NEW s, NEW k, NEW f, NEW a, TreeState(h, s, k, f, a),
           NEW t, NEW l, NEW g, NEW b \in SUBSET Things, a \subseteq b,
           t \subseteq Lies(s, k, f), t \subseteq Placed \X Things,
           l \in [OneCall -> Tree!Asked],
           \A c \in OneCall : l[c] = k[c] \/ l[c] = Tree!Idle,
           g \in {f, Tree!NoFetch, Tree!Sent},
           \A e \in t : Fits(h, b, e) \/ Await(l, e[2])
    PROVE  TreeState(h, t, l, g, b)
<1>1. HomeTypes(h, s, k, f, a) /\ CallsApart(h, k) /\ EdgesFit(h, s, k, f, a)
  BY DEF TreeState
<1>2. g.roots \subseteq f.roots
  BY DEF Tree!NoFetch, Tree!Sent
<1>3. HomeTypes(h, t, l, g, b)
  BY <1>1 DEF HomeTypes, Tree!NoFetch, Tree!Sent
<1>4. \A c \in OneCall : l[c].pc = "idle" \/ l[c] = k[c]
  BY IdleWay
<1>5. CallsApart(h, l)
  BY <1>1, <1>4, IdleWay DEF CallsApart
<1>6. \A c \in OneCall : Way(l[c]) \subseteq Way(k[c])
  BY IdleWay
<1>7. Lies(t, l, g) \subseteq Lies(s, k, f)
  BY <1>2, <1>6 DEF Lies
<1>8. EdgesFit(h, t, l, g, b)
  BY <1>1, <1>2, <1>6, <1>7 DEF EdgesFit, Fits
<1>9. \A c \in OneCall : l[c].pc = "deleted" => Whole(h, t, l, g, b, c)
  BY <1>4, <1>7 DEF TreeState, Whole
<1>10. \A c \in OneCall : Circles(b, l[c])
  BY <1>4 DEF TreeState, Circles
<1> QED BY <1>3, <1>5, <1>8, <1>9, <1>10 DEF TreeState

\* What was not deleted is on its way.
Lives(h, r, q) == \A e \in Way(r) : e \in Way(q) \/ h[e[2]] # Gone

\* Nothing but T is altered, nothing comes back, and only what is created was new.
Altered(h, i, T, q) ==
    \A x \in Things :
       /\ x \notin T => i[x] = h[x]
       /\ h[x] = Gone => i[x] = Gone
       /\ x # q.element \/ q.pc # "create" => (i[x] = New <=> h[x] = New)

\* The server serves a request: what it alters, T, is adrift where anybody else has it.
LEMMA TreeServes ==
    ASSUME NEW h, NEW s, NEW k, NEW f, NEW a, TreeState(h, s, k, f, a), New # Gone,
           NEW c \in OneCall, k[c].pc \notin {"idle", "moved", "deleted"},
           NEW r \in Tree!Asked, Brings(r), r.element = k[c].element, r.pc \notin {"idle", "create"},
           NEW T \in SUBSET Things, NEW b \in SUBSET Things, a \subseteq b,
           NEW i \in [Things -> Placed \union {New, Gone}],
           Altered(h, i, T, k[c]),
           i[r.element] # New,
           r.pc \in {"loaded", "deleted"} => r.element \in Folder,
           r.pc \notin {"children", "delete"},
           r.pc = "moved" => r.touched = {r.element},
           \A e \in Way(r) : e[2] \in Things /\ Fits(i, b, e) /\ i[e[2]] # New,
           Lives(h, r, k[c]),
           \A d \in OneCall : d # c => \A e \in Way(k[d]) : e[2] \in T => e[2] \in b,
           f.roots \intersect T \subseteq b,
           \A e \in s : e[2] \in T /\ ~ Await(k, e[2]) =>
              Fits(i, b, e) \/ (r.pc \in {"moved", "deleted"} /\ e[2] \in r.touched),
           Circles(b, r),
           r.pc = "deleted" => Whole(i, s, [k EXCEPT ![c] = r], f, b, c)
    PROVE  TreeState(i, s, [k EXCEPT ![c] = r], f, b)
<1> USE DEF Altered
<1> DEFINE k2 == [k EXCEPT ![c] = r]
<1>1. HomeTypes(h, s, k, f, a) /\ CallsApart(h, k) /\ EdgesFit(h, s, k, f, a)
  BY DEF TreeState
<1>2. /\ k2 \in [OneCall -> Tree!Asked] /\ k2[c] = r
      /\ \A d \in OneCall : d # c => k2[d] = k[d]
  BY <1>1 DEF HomeTypes
<1> HIDE DEF k2
<1>3. HomeTypes(i, s, k2, f, b)
  BY <1>1, <1>2 DEF HomeTypes
<1>4. CallsApart(i, k2)
  <2>1. About(i, r)
    <3>1. k[c].element \in Things
      BY <1>1 DEF CallsApart, About
    <3> QED BY <3>1 DEF About
  <2>2. ASSUME NEW d \in OneCall, d # c, k[d].pc # "idle" PROVE About(i, k[d])
    <3>1. About(h, k[d])
      BY <1>1, <2>2 DEF CallsApart
    <3>2. k[c].pc = "create" => k[d].element # k[c].element
      BY <1>1, <2>2 DEF CallsApart
    <3> QED BY <3>1, <3>2 DEF About
  <2>3. \A d \in OneCall : Brings(k2[d]) /\ (k2[d].pc # "idle" => About(i, k2[d]))
    BY <1>1, <1>2, <2>1, <2>2 DEF CallsApart
  <2>4. ASSUME NEW d \in OneCall, NEW g \in OneCall, k2[d].pc = "create", k2[g].pc # "idle",
               k2[d].element = k2[g].element
        PROVE  d = g
    BY <1>1, <1>2, <2>4 DEF CallsApart
  <2> QED BY <2>3, <2>4 DEF CallsApart
<1>5. \A e \in Lies(s, k2, f) : e \in Lies(s, k, f) \/ e \in Way(r)
  BY <1>2 DEF Lies
<1>6. \A e \in Lies(s, k, f) : e[2] \in Things
  <2>1. \A e \in s \union ({Root} \X f.roots) : e[2] \in Things
    BY <1>1 DEF HomeTypes, Things
  <2>2. ASSUME NEW d \in OneCall PROVE \A e \in Way(k[d]) : e[2] \in Things
    <3>1. k[d] \in Tree!Asked /\ (k[d].pc # "idle" => k[d].element \in Things)
      BY <1>1 DEF HomeTypes, CallsApart, About
    <3> QED BY <3>1, WayIs
  <2> QED BY <2>1, <2>2 DEF Lies
<1>7. \A x : Await(k, x) => Await(k2, x)
  BY <1>2 DEF Await
<1>8. EdgesFit(i, s, k2, f, b)
  <2>1. \A e \in Lies(s, k2, f) : i[e[2]] # New
    <3> SUFFICES ASSUME NEW e \in Lies(s, k, f) PROVE i[e[2]] # New
      BY <1>5
    <3>1. e[2] \in Things /\ h[e[2]] # New
      BY <1>1, <1>6 DEF EdgesFit
    <3> QED BY <3>1
  <2>2. \A d \in OneCall : \A e \in Way(k2[d]) : Fits(i, b, e)
    <3> SUFFICES ASSUME NEW d \in OneCall, d # c, NEW e \in Way(k[d]) PROVE Fits(i, b, e)
      BY <1>2
    <3>1. e[2] \in Things /\ Fits(h, a, e)
      BY <1>1, <1>6 DEF EdgesFit, Lies
    <3> QED BY <3>1 DEF Fits
  <2>3. \A x \in f.roots : i[x] = Root \/ x \in b
    BY <1>1 DEF EdgesFit, HomeTypes, Things
  <2>4. ASSUME NEW e \in s PROVE Fits(i, b, e) \/ Await(k2, e[2])
    <3>1. e[2] \in Things /\ (Fits(h, a, e) \/ Await(k, e[2]))
      BY <1>1, <1>6 DEF EdgesFit, Lies
    <3>2. CASE Await(k, e[2])
      BY <1>7, <3>2
    <3>3. CASE ~ Await(k, e[2]) /\ e[2] \in T
      BY <1>2, <3>3 DEF Await
    <3>4. CASE ~ Await(k, e[2]) /\ e[2] \notin T
      BY <3>1, <3>4 DEF Fits
    <3> QED BY <3>2, <3>3, <3>4
  <2> QED BY <2>1, <2>2, <2>3, <2>4 DEF EdgesFit
<1>9. ASSUME NEW d \in OneCall, d # c, k[d].pc = "deleted" PROVE Whole(i, s, k2, f, b, d)
  <2>1. Whole(h, s, k, f, a, d) /\ k[d] \in Tree!Asked
    BY <1>1, <1>9 DEF TreeState, HomeTypes
  <2>2. k[d].touched \subseteq Things /\ k2[d] = k[d]
    BY <1>2, <1>9, <2>1 DEF Tree!Asked, Tree!Element, Things
  <2>3. \A y \in k[d].touched : i[y] = Gone /\ h[y] = Gone
    BY <2>1, <2>2 DEF Whole
  <2>4. CASE k[d].touched \subseteq a
    BY <2>1, <2>2, <2>3, <2>4 DEF Whole
  <2>5. CASE \A e \in Lies(s, k, f) : e[2] \in k[d].touched \ {k[d].element} => e[1] \in k[d].touched
    <3>1. \A e \in Lies(s, k2, f) : e[2] \in k[d].touched => e \in Lies(s, k, f)
      <4> SUFFICES ASSUME NEW e \in Way(r), e[2] \in k[d].touched PROVE e \in Lies(s, k, f)
        BY <1>5
      <4>1. e \in Way(k[c])
        BY <2>3 DEF Lives
      <4> QED BY <4>1 DEF Lies
    <3> QED BY <2>1, <2>2, <2>3, <2>5, <3>1 DEF Whole
  <2> QED BY <2>1, <2>4, <2>5 DEF Whole
<1>10. \A d \in OneCall : k2[d].pc = "deleted" => Whole(i, s, k2, f, b, d)
  BY <1>2, <1>9 DEF k2
<1>11. \A d \in OneCall : Circles(b, k2[d])
  BY <1>2 DEF TreeState, Circles
<1> QED BY <1>3, <1>4, <1>8, <1>10, <1>11 DEF TreeState, k2

\* What is below something on the screen is shown.
LEMMA SubtreeShown == \A x : Tree!Subtree(x) \subseteq v2
BY DEF Tree!Subtree

\* A person asks for something.
LEMMA TreeAsks ==
    ASSUME Tree!Nulls, Tree!LibraryInv, NEW c \in OneCall,
           \/ \E f \in Folder : Tree!onToggleFolder(c, f) \/ Tree!deleteMutation(c, f)
           \/ \E x \in Tree!Element, f \in Folder : Tree!moveToFolder(c, x, f)
           \/ \E x \in Tree!Element : Tree!onSubmit(c, x)
           \/ \E x \in Tree!Element, place \in Tree!Place : Tree!createFolderOrNote(c, x, place)
           \/ \E n \in Sheet : Tree!sendFiles(c, n)
    PROVE  TreeNext
<1>1. TreeState(v1, v2, v6, v5, v7) /\ v3 \in [Things -> Placed] /\ v4 \subseteq Folder
  BY TreeParts
<1>2. HomeTypes(v1, v2, v6, v5, v7) /\ CallsApart(v1, v6) /\ EdgesFit(v1, v2, v6, v5, v7)
  BY <1>1 DEF TreeState
<1>t. /\ Tree!Element = Things /\ Tree!Place = Placed /\ v7 \subseteq Things /\ v2 \subseteq Placed \X Things
      /\ Tree!Displayed \subseteq Things /\ \A x \in Tree!Displayed : v1[x] # New
  <2>1. Tree!Element = Things /\ Tree!Place = Placed /\ v7 \subseteq Things /\ v2 \subseteq Placed \X Things
    BY <1>2 DEF Tree!Element, Things, Tree!Place, Placed, HomeTypes
  <2>2. \A e \in v2 : e[2] \in Things /\ v1[e[2]] # New
    BY <1>2, <2>1 DEF EdgesFit, Lies
  <2> QED BY <2>1, <2>2 DEF Tree!Displayed
<1>3. ASSUME NEW r \in Tree!Asked, Tree!Calls(c, r), r.children = {}, r.below = {},
             r.pc \in {"children", "patch", "delete", "create", "upload"}, About(v1, r),
             r.pc = "create" => \A d \in OneCall : v6[d].pc # "idle" => v6[d].element # r.element,
             v1' = v1, v2' = v2, v3' = v3, v4' \subseteq Folder, v5' = v5, v7' = v7
      PROVE  TreeNext
  <2>1. v6[c].pc = "idle" /\ v6' = [v6 EXCEPT ![c] = r]
    BY <1>3 DEF Tree!Calls, Tree!Busy
  <2>2. Circles(v7, r) /\ Brings(r)
    BY <1>3 DEF Circles, Brings
  <2>3. TreeState(v1, v2, [v6 EXCEPT ![c] = r], v5, v7)
    BY <1>1, <1>3, <1>t, <2>1, <2>2, TreeStarts
  <2> QED BY <1>1, <1>3, <2>1, <2>3 DEF TreeNext
<1>4. ASSUME NEW f \in Folder, Tree!onToggleFolder(c, f) PROVE TreeNext
  <2> DEFINE r == [Tree!Idle EXCEPT !.pc = "children", !.element = f, !.its = v3[f]]
  <2>1. v3[f] \in Placed /\ f \in Things /\ v1[f] # New
    BY <1>1, <1>4, <1>t DEF Tree!onToggleFolder, Things
  <2>2. /\ r \in Tree!Asked /\ r.pc = "children" /\ r.element = f /\ r.children = {} /\ r.below = {}
        /\ About(v1, r)
    BY <1>t, <2>1 DEF Tree!Idle, Tree!Asked, About, Placed
  <2>3. /\ Tree!Calls(c, r) /\ v1' = v1 /\ v2' = v2 /\ v3' = v3 /\ v5' = v5 /\ v7' = v7
        /\ v4' \subseteq Folder
    BY <1>1, <1>4 DEF Tree!onToggleFolder
  <2> HIDE DEF r
  <2> QED BY <1>3, <2>2, <2>3
<1>5. ASSUME NEW f \in Folder, Tree!deleteMutation(c, f) PROVE TreeNext
  <2> DEFINE r == [Tree!Idle EXCEPT !.pc = "delete", !.element = f]
  <2>1. f \in Things /\ v1[f] # New
    BY <1>5, <1>t DEF Tree!deleteMutation, Things
  <2>2. /\ r \in Tree!Asked /\ r.pc = "delete" /\ r.element = f /\ r.children = {} /\ r.below = {}
        /\ About(v1, r)
    BY <1>t, <2>1 DEF Tree!Idle, Tree!Asked, About, Placed
  <2>3. Tree!Calls(c, r) /\ v1' = v1 /\ v2' = v2 /\ v3' = v3 /\ v4' = v4 /\ v5' = v5 /\ v7' = v7
    BY <1>5 DEF Tree!deleteMutation, Tree!tree
  <2> HIDE DEF r
  <2> QED BY <1>1, <1>3, <2>2, <2>3
<1>6. ASSUME NEW x \in Things, Tree!onSubmit(c, x) PROVE TreeNext
  <2> DEFINE r == [Tree!Idle EXCEPT !.pc = "patch", !.element = x, !.to = v3[x]]
  <2>1. v3[x] \in Placed /\ v1[x] # New
    BY <1>1, <1>6, <1>t DEF Tree!onSubmit
  <2>2. /\ r \in Tree!Asked /\ r.pc = "patch" /\ r.element = x /\ r.children = {} /\ r.below = {}
        /\ About(v1, r)
    BY <1>t, <2>1 DEF Tree!Idle, Tree!Asked, About, Placed
  <2>3. Tree!Calls(c, r) /\ v1' = v1 /\ v2' = v2 /\ v3' = v3 /\ v4' = v4 /\ v5' = v5 /\ v7' = v7
    BY <1>6 DEF Tree!onSubmit, Tree!tree
  <2> HIDE DEF r
  <2> QED BY <1>1, <1>3, <2>2, <2>3
<1>7. ASSUME NEW x \in Things, NEW place \in Placed, Tree!createFolderOrNote(c, x, place) PROVE TreeNext
  <2> DEFINE r == [Tree!Idle EXCEPT !.pc = "create", !.element = x, !.to = place]
  <2>1. v1[x] = New /\ \A d \in OneCall : v6[d].pc # "idle" => v6[d].element # x
    BY <1>7 DEF Tree!createFolderOrNote, Tree!Busy
  <2>2. /\ r \in Tree!Asked /\ r.pc = "create" /\ r.element = x /\ r.children = {} /\ r.below = {}
        /\ About(v1, r)
    BY <1>t, <2>1 DEF Tree!Idle, Tree!Asked, About, Placed
  <2>3. Tree!Calls(c, r) /\ v1' = v1 /\ v2' = v2 /\ v3' = v3 /\ v4' = v4 /\ v5' = v5 /\ v7' = v7
    BY <1>7 DEF Tree!createFolderOrNote, Tree!tree
  <2> HIDE DEF r
  <2> QED BY <1>1, <1>3, <2>1, <2>2, <2>3
<1>8. ASSUME NEW n \in Sheet, Tree!sendFiles(c, n) PROVE TreeNext
  <2> DEFINE r == [Tree!Idle EXCEPT !.pc = "upload", !.element = n]
  <2>1. n \in Things /\ v1[n] # New
    BY <1>8, <1>t DEF Tree!sendFiles, Things
  <2>2. /\ r \in Tree!Asked /\ r.pc = "upload" /\ r.element = n /\ r.children = {} /\ r.below = {}
        /\ About(v1, r)
    BY <1>t, <2>1 DEF Tree!Idle, Tree!Asked, About, Placed
  <2>3. Tree!Calls(c, r) /\ v1' = v1 /\ v2' = v2 /\ v3' = v3 /\ v4' = v4 /\ v5' = v5 /\ v7' = v7
    BY <1>8 DEF Tree!sendFiles, Tree!tree
  <2> HIDE DEF r
  <2> QED BY <1>1, <1>3, <2>2, <2>3
<1>9. ASSUME NEW x \in Things, NEW f \in Folder, Tree!moveToFolder(c, x, f) PROVE TreeNext
  <2> DEFINE r == [Tree!Idle EXCEPT !.pc = "move", !.element = x, !.to = f, !.its = v3[x],
                                   !.below = Tree!Subtree(x)]
  <2>1. v3[x] \in Placed /\ v1[x] # New /\ f \in Placed
    BY <1>1, <1>9, <1>t DEF Tree!moveToFolder, Placed
  <2>s. Tree!Subtree(x) \subseteq v2 /\ Tree!Subtree(x) \in SUBSET (Placed \X Things)
    BY <1>t, SubtreeShown
  <2>2. /\ r \in Tree!Asked /\ r.pc = "move" /\ r.element = x /\ r.children = {}
        /\ r.below = Tree!Subtree(x) /\ About(v1, r)
    <3> DEFINE under == Tree!Subtree(x)
    <3> HIDE DEF under
    <3>1. under \in SUBSET (Placed \X Things)
      BY <2>s DEF under
    <3>2. LET q == [Tree!Idle EXCEPT !.pc = "move", !.element = x, !.to = f, !.its = v3[x],
                                     !.below = under]
          IN  /\ q \in Tree!Asked /\ q.pc = "move" /\ q.element = x /\ q.children = {}
              /\ q.below = under /\ About(v1, q)
      BY <1>t, <2>1, <3>1 DEF Tree!Idle, Tree!Asked, About
    <3> QED BY <3>2 DEF under
  <2>3. /\ Tree!Calls(c, r) /\ v1' = v1 /\ v2' = v2 /\ v3' = v3 /\ v4' = v4 /\ v5' = v5
        /\ v7' = v7 \union Tree!Awaited \union {y \in {x} : \E e \in Tree!Subtree(x) : e[2] = y}
    BY <1>9 DEF Tree!moveToFolder, Tree!tree
  <2>4. v6[c].pc = "idle" /\ v6' = [v6 EXCEPT ![c] = r]
    BY <2>3 DEF Tree!Calls, Tree!Busy
  <2>5. Tree!Awaited \in SUBSET Things /\ \A y : Await(v6, y) => y \in Tree!Awaited
    BY <1>2, <1>t DEF Tree!Awaited, HomeTypes, Tree!Asked, Await
  <2>6. v7' \in SUBSET Things /\ v7 \subseteq v7'
    BY <1>t, <2>3, <2>5
  <2> HIDE DEF r
  <2>7. \A e \in r.below : Fits(v1, v7', e)
    BY <1>2, <2>2, <2>s, <2>3, <2>5 DEF EdgesFit, Fits
  <2>8. Circles(v7', r) /\ Brings(r)
    BY <2>2, <2>3 DEF Circles, Brings
  <2>9. TreeState(v1, v2, [v6 EXCEPT ![c] = r], v5, v7')
    BY <1>1, <2>2, <2>s, <2>4, <2>6, <2>7, <2>8, TreeStarts
  <2> QED BY <1>1, <2>3, <2>4, <2>9 DEF TreeNext
<1> QED BY <1>4, <1>5, <1>6, <1>7, <1>8, <1>9, <1>t

\* What the server changes is adrift wherever another call or the fetch has it.
LEMMA TreeChanges ==
    ASSUME NEW c \in OneCall, NEW T \in SUBSET Things, Tree!Changes(c, T),
           TreeState(v1, v2, v6, v5, v7)
    PROVE  /\ v7' \in SUBSET Things /\ v7 \subseteq v7'
           /\ \/ T \subseteq v7'
              \/ /\ v7' = v7 /\ T \intersect v7 = {} /\ v5.roots = {}
                 /\ \A d \in OneCall : d # c => v6[d].pc = "idle" /\ Way(v6[d]) = {}
<1>1. v7 \subseteq Things
  BY DEF TreeState, HomeTypes
<1>2. CASE Tree!Busy = {c} /\ v5 = Tree!NoFetch /\ T \intersect v7 = {}
  <2>1. \A d \in OneCall : d # c => v6[d].pc = "idle" /\ Brings(v6[d])
    BY <1>2 DEF Tree!Busy, TreeState, CallsApart
  <2>2. \A d \in OneCall : d # c => v6[d].pc = "idle" /\ Way(v6[d]) = {}
    BY <2>1, IdleWay
  <2>3. v7' = v7 /\ v5.roots = {}
    BY <1>2 DEF Tree!Changes, Tree!NoFetch
  <2> QED BY <1>1, <1>2, <2>2, <2>3
<1>3. CASE ~ (Tree!Busy = {c} /\ v5 = Tree!NoFetch /\ T \intersect v7 = {})
  BY <1>1, <1>3 DEF Tree!Changes
<1> QED BY <1>2, <1>3

\* MoveToFolder: the server has it elsewhere, and it was not to be shown but by the call.
LEMMA TreeMoves ==
    ASSUME Tree!Nulls, Tree!LibraryInv, NEW c \in OneCall, Tree!MoveToFolder(c)
    PROVE  TreeNext
<1>1. TreeState(v1, v2, v6, v5, v7) /\ v3 \in [Things -> Placed] /\ v4 \subseteq Folder
  BY TreeParts
<1>2. HomeTypes(v1, v2, v6, v5, v7) /\ CallsApart(v1, v6) /\ EdgesFit(v1, v2, v6, v5, v7)
  BY <1>1 DEF TreeState
<1> DEFINE q == v6[c]
           x == v6[c].element
           r == [v6[c] EXCEPT !.pc = "moved", !.touched = {x}]
<1>3. q \in Tree!Asked /\ q.pc = "move" /\ x \in Things /\ v1[x] # New /\ v1[x] # Gone /\ Brings(q)
  BY <1>2 DEF Tree!MoveToFolder, HomeTypes, CallsApart, About
<1>4. q.to \in Placed /\ New \notin Placed /\ Gone \notin Placed /\ New # Gone
  BY <1>3 DEF Tree!Asked, Tree!Place, Placed, Tree!Nulls
<1>5. /\ r \in Tree!Asked /\ r.element = x /\ r.pc = "moved" /\ r.touched = {x}
      /\ r.below = q.below /\ r.children = q.children /\ r.to = q.to
  BY <1>3 DEF Tree!Asked, Tree!Element, Things
<1>6. /\ v1' = [v1 EXCEPT ![x] = q.to] /\ v6' = [v6 EXCEPT ![c] = r] /\ Tree!Changes(c, {x})
      /\ v2' = v2 /\ v3' = v3 /\ v4' = v4 /\ v5' = v5
  BY DEF Tree!MoveToFolder, Tree!Answered, Tree!tree
<1> HIDE DEF q, x, r
<1>7. /\ v1' \in [Things -> Placed \union {New, Gone}] /\ v1'[x] = q.to
      /\ \A y \in Things : y # x => v1'[y] = v1[y]
  BY <1>2, <1>3, <1>4, <1>6 DEF HomeTypes
<1>8. /\ v7' \in SUBSET Things /\ v7 \subseteq v7'
      /\ \/ {x} \subseteq v7'
         \/ /\ v7' = v7 /\ {x} \intersect v7 = {} /\ v5.roots = {}
            /\ \A d \in OneCall : d # c => v6[d].pc = "idle" /\ Way(v6[d]) = {}
  BY <1>1, <1>3, <1>6, TreeChanges
<1>9. /\ q.children = {} /\ r.children = {} /\ Brings(r)
      /\ Way(q) = q.below /\ Way(r) = q.below \union {<<q.to, x>>}
  <2>1. q.children = {} /\ Brings(r)
    BY <1>3, <1>5 DEF Brings
  <2> QED BY <1>3, <1>5, <2>1 DEF Way
<1>10. Circles(v7', r)
  <2>1. Circles(v7, q)
    BY <1>1 DEF TreeState, q
  <2> QED BY <1>3, <1>5, <1>8, <2>1 DEF Circles, q, x
<1>11. \A e \in Way(r) : e[2] \in Things /\ Fits(v1', v7', e) /\ v1'[e[2]] # New
  <2>1. ASSUME NEW e \in q.below
        PROVE  e[2] \in Things /\ Fits(v1', v7', e) /\ v1'[e[2]] # New
    <3>1. e[2] \in Things
      BY <1>3, <2>1 DEF Tree!Asked, Tree!Element, Things
    <3>2. e \in Way(v6[c])
      BY <1>9, <2>1 DEF q
    <3>3. v1[e[2]] # New /\ Fits(v1, v7, e)
      BY <1>2, <3>2 DEF EdgesFit, Lies
    <3>4. e[2] = x => e[2] \in v7'
      BY <1>5, <1>10, <2>1 DEF Circles
    <3> QED BY <1>4, <1>7, <1>8, <3>1, <3>3, <3>4 DEF Fits
  <2> QED BY <1>3, <1>4, <1>7, <1>9, <2>1 DEF Fits
<1>12. Lives(v1, r, q)
  BY <1>3, <1>9 DEF Lives
<1>13. TreeState(v1', v2, [v6 EXCEPT ![c] = r], v5, v7')
  <2> DEFINE h == v1'
             b == v7'
             T == {x}
  <2>1. \A d \in OneCall : d # c => \A e \in Way(v6[d]) : e[2] \in T => e[2] \in b
    BY <1>8
  <2>2. v5.roots \intersect T \subseteq b
    BY <1>8
  <2>3. \A y \in Things : /\ y \notin T => h[y] = v1[y]
                          /\ v1[y] = Gone => h[y] = Gone
                          /\ y # q.element \/ q.pc # "create" => (h[y] = New <=> v1[y] = New)
    BY <1>3, <1>4, <1>7
  <2>4. h[r.element] # New
    BY <1>4, <1>5, <1>7
  <2>5. \A e \in v2 : e[2] \in T => e[2] \in r.touched
    BY <1>5
  <2>6. h \in [Things -> Placed \union {New, Gone}] /\ b \in SUBSET Things /\ v7 \subseteq b
        /\ T \in SUBSET Things /\ Fits(h, b, <<q.to, x>>)
    BY <1>3, <1>7, <1>8 DEF Fits
  <2>7. \A e \in Way(r) : e[2] \in Things /\ Fits(h, b, e) /\ h[e[2]] # New
    BY <1>11
  <2>8. Circles(b, r)
    BY <1>10
  <2>9. r.element = v6[c].element /\ v6[c].pc = "move" /\ Lives(v1, r, v6[c])
    BY <1>3, <1>5, <1>12 DEF q, x
  <2>10. \A y \in Things : y # v6[c].element \/ v6[c].pc # "create" => (h[y] = New <=> v1[y] = New)
    BY <2>3 DEF q
  <2> HIDE DEF h, b, T
  <2>11. TreeState(h, v2, [v6 EXCEPT ![c] = r], v5, b)
    <3>1. v6[c].pc \notin {"idle", "moved", "deleted"} /\ r.pc \notin {"idle", "create", "children", "delete"}
          /\ r.pc # "loaded" /\ r.pc # "deleted" /\ r.element = v6[c].element
      BY <1>5, <2>9
    <3>2. \A e \in v2 : e[2] \in T /\ ~ Await(v6, e[2]) =>
              Fits(h, b, e) \/ (r.pc \in {"moved", "deleted"} /\ e[2] \in r.touched)
      BY <1>5, <2>5
    <3>3. Altered(v1, h, T, v6[c])
      BY <2>3, <2>10 DEF Altered
    <3>4. r \in Tree!Asked /\ Brings(r) /\ (r.pc = "moved" => r.touched = {r.element})
      BY <1>5, <1>9
    <3> QED BY ONLY <1>1, <1>4, <2>1, <2>2, <2>4, <2>6, <2>7, <2>8, <2>9, <3>1, <3>2, <3>3, <3>4,
                    c \in OneCall, TreeServes
  <2> QED BY <2>11 DEF h, b
<1> QED BY <1>1, <1>6, <1>13 DEF TreeNext

\* UpdateFolder: what is saved may be put elsewhere, and is adrift then.
LEMMA TreeUpdates ==
    ASSUME Tree!Nulls, Tree!LibraryInv, NEW c \in OneCall, Tree!UpdateFolder(c)
    PROVE  TreeNext
<1>1. TreeState(v1, v2, v6, v5, v7) /\ v3 \in [Things -> Placed] /\ v4 \subseteq Folder
  BY TreeParts
<1>2. HomeTypes(v1, v2, v6, v5, v7) /\ CallsApart(v1, v6) /\ EdgesFit(v1, v2, v6, v5, v7)
  BY <1>1 DEF TreeState
<1> DEFINE x == v6[c].element
           to == IF x \in Folder THEN v6[c].to ELSE v1[x]
           up == IF x \in Folder THEN Root ELSE to
           r == [v6[c] EXCEPT !.pc = "patched", !.its = up]
           T == {y \in {x} : v1[y] # to}
<1>3. /\ v6[c] \in Tree!Asked /\ v6[c].pc = "patch" /\ x \in Things /\ v1[x] # New /\ v1[x] # Gone
      /\ Brings(v6[c])
  BY <1>2 DEF Tree!UpdateFolder, HomeTypes, CallsApart, About
<1>4. to \in Placed /\ up \in Placed /\ New \notin Placed /\ Gone \notin Placed /\ New # Gone
  <2>1. v6[c].to \in Placed /\ New \notin Placed /\ Gone \notin Placed /\ New # Gone
    BY <1>3 DEF Tree!Asked, Tree!Place, Placed, Tree!Nulls
  <2>2. v1[x] \in Placed
    BY <1>2, <1>3 DEF HomeTypes
  <2> QED BY <2>1, <2>2 DEF Placed
<1> HIDE DEF to, up
<1>5. /\ r \in Tree!Asked /\ r.element = x /\ r.pc = "patched" /\ r.below = {} /\ r.children = {}
      /\ Brings(r) /\ Way(r) = {} /\ Circles(v7', r)
  <2>1. v6[c].below = {} /\ v6[c].children = {}
    BY <1>3 DEF Brings
  <2>2. r \in Tree!Asked /\ r.element = x /\ r.pc = "patched" /\ r.below = {} /\ r.children = {}
    BY <1>3, <1>4, <2>1 DEF Tree!Asked, Tree!Place, Placed
  <2> HIDE DEF r
  <2> QED BY <2>2 DEF Brings, Way, Circles
<1>6. /\ v1' = [v1 EXCEPT ![x] = to] /\ v6' = [v6 EXCEPT ![c] = r]
      /\ v7' = IF v1[x] # to THEN v7 \union {x} ELSE v7
      /\ v2' = v2 /\ v3' = v3 /\ v4' = v4 /\ v5' = v5
  BY DEF Tree!UpdateFolder, Tree!Answered, Tree!tree, to, up
<1> HIDE DEF x, r
<1>7. /\ v1' \in [Things -> Placed \union {New, Gone}] /\ v1'[x] = to
      /\ \A y \in Things : y # x => v1'[y] = v1[y]
  BY <1>2, <1>3, <1>4, <1>6 DEF HomeTypes
<1>8. v7' \in SUBSET Things /\ v7 \subseteq v7' /\ T \subseteq v7' /\ T \in SUBSET Things
  BY <1>2, <1>3, <1>6 DEF HomeTypes
<1>9. Altered(v1, v1', T, v6[c]) /\ v1'[x] # New
  BY <1>3, <1>4, <1>7 DEF Altered
<1>10. TreeState(v1', v2, [v6 EXCEPT ![c] = r], v5, v7')
  <2>1. r.element = v6[c].element /\ Lives(v1, r, v6[c])
    BY <1>5 DEF x, Lives
  <2>2. v6[c].pc \notin {"idle", "moved", "deleted"} /\ v1'[r.element] # New
    BY <1>3, <1>5, <1>9
  <2>3. \A e \in v2 : e[2] \in T => Fits(v1', v7', e)
    BY <1>8 DEF Fits
  <2>4. \A d \in OneCall : d # c => \A e \in Way(v6[d]) : e[2] \in T => e[2] \in v7'
    BY <1>8
  <2>5. v5.roots \intersect T \subseteq v7'
    BY <1>8
  <2> HIDE DEF T
  <2> QED BY ONLY <1>1, <1>4, <1>5, <1>7, <1>8, <1>9, <2>1, <2>2, <2>3, <2>4, <2>5, c \in OneCall,
                  TreeServes
<1> QED BY <1>1, <1>6, <1>10 DEF TreeNext

\* CreateElement: nothing shows what was not there.
LEMMA TreeCreates ==
    ASSUME Tree!Nulls, Tree!LibraryInv, NEW c \in OneCall, Tree!CreateElement(c)
    PROVE  TreeNext
<1>1. TreeState(v1, v2, v6, v5, v7) /\ v3 \in [Things -> Placed] /\ v4 \subseteq Folder
  BY TreeParts
<1>2. HomeTypes(v1, v2, v6, v5, v7) /\ CallsApart(v1, v6) /\ EdgesFit(v1, v2, v6, v5, v7)
  BY <1>1 DEF TreeState
<1> DEFINE x == v6[c].element
           r == [v6[c] EXCEPT !.pc = "created", !.touched = {x}]
           T == {x}
<1>3. v6[c] \in Tree!Asked /\ v6[c].pc = "create" /\ x \in Things /\ v1[x] = New /\ Brings(v6[c])
  BY <1>2 DEF Tree!CreateElement, HomeTypes, CallsApart, About
<1>4. v6[c].to \in Placed /\ New \notin Placed /\ Gone \notin Placed /\ New # Gone
  BY <1>3 DEF Tree!Asked, Tree!Place, Placed, Tree!Nulls
<1>5. /\ r \in Tree!Asked /\ r.element = x /\ r.pc = "created" /\ Brings(r)
      /\ Way(r) = {<<v6[c].to, x>>} /\ Circles(v7', r)
  <2>1. v6[c].below = {} /\ v6[c].children = {}
    BY <1>3 DEF Brings
  <2>2. /\ r \in Tree!Asked /\ r.element = x /\ r.pc = "created" /\ r.below = {} /\ r.children = {}
        /\ r.to = v6[c].to
    BY <1>3, <2>1 DEF Tree!Asked, Tree!Element, Things
  <2> HIDE DEF r
  <2> QED BY <2>2 DEF Brings, Way, Circles
<1>6. /\ v1' = [v1 EXCEPT ![x] = v6[c].to] /\ v6' = [v6 EXCEPT ![c] = r] /\ Tree!Changes(c, {x})
      /\ v2' = v2 /\ v3' = v3 /\ v4' = v4 /\ v5' = v5
  BY DEF Tree!CreateElement, Tree!Answered, Tree!tree
<1> HIDE DEF x, r
<1>7. /\ v1' \in [Things -> Placed \union {New, Gone}] /\ v1'[x] = v6[c].to
      /\ \A y \in Things : y # x => v1'[y] = v1[y]
  BY <1>2, <1>3, <1>4, <1>6 DEF HomeTypes
<1>8. v7' \in SUBSET Things /\ v7 \subseteq v7' /\ T \in SUBSET Things
  BY <1>1, <1>3, <1>6, TreeChanges
<1>9. \A e \in Lies(v2, v6, v5) : e[2] # x
  BY <1>2, <1>3 DEF EdgesFit
<1>10. TreeState(v1', v2, [v6 EXCEPT ![c] = r], v5, v7')
  <2>1. r.element = v6[c].element /\ Lives(v1, r, v6[c])
    BY <1>3, <1>4, <1>5 DEF x, Lives
  <2>2. v6[c].pc \notin {"idle", "moved", "deleted"} /\ v1'[r.element] # New /\ v1'[x] # New
    BY <1>3, <1>4, <1>5, <1>7
  <2>3. \A e \in v2 : e[2] \in T => Fits(v1', v7', e)
    BY <1>9 DEF Lies
  <2>4. \A d \in OneCall : d # c => \A e \in Way(v6[d]) : e[2] \in T => e[2] \in v7'
    BY <1>9 DEF Lies
  <2>5. v5.roots \intersect T \subseteq v7'
    <3>1. ASSUME x \in v5.roots PROVE FALSE
      <4>1. <<Root, x>> \in Lies(v2, v6, v5)
        BY <3>1 DEF Lies
      <4> QED BY <1>9, <4>1
    <3> QED BY <3>1
  <2>6. Altered(v1, v1', T, v6[c])
    BY <1>3, <1>4, <1>7 DEF Altered, x
  <2>7. \A e \in Way(r) : e[2] \in Things /\ Fits(v1', v7', e) /\ v1'[e[2]] # New
    BY <1>3, <1>4, <1>5, <1>7 DEF Fits
  <2> HIDE DEF T
  <2> QED BY ONLY <1>1, <1>4, <1>5, <1>7, <1>8, <2>1, <2>2, <2>3, <2>4, <2>5, <2>6, <2>7,
                  c \in OneCall, TreeServes
<1> QED BY <1>1, <1>6, <1>10 DEF TreeNext

\* FindNextChildren: the answer is what the server has.
LEMMA TreeFinds ==
    ASSUME Tree!Nulls, Tree!LibraryInv, NEW c \in OneCall, Tree!FindNextChildren(c)
    PROVE  TreeNext
<1>1. TreeState(v1, v2, v6, v5, v7) /\ v3 \in [Things -> Placed] /\ v4 \subseteq Folder
  BY TreeParts
<1>2. HomeTypes(v1, v2, v6, v5, v7) /\ CallsApart(v1, v6) /\ EdgesFit(v1, v2, v6, v5, v7)
  BY <1>1 DEF TreeState
<1> DEFINE f == v6[c].element
           in == {y \in Tree!Element : v1[y] = f}
           r == [v6[c] EXCEPT !.pc = "loaded", !.children = in]
<1>3. v6[c] \in Tree!Asked /\ v6[c].pc = "children" /\ f \in Folder /\ v1[f] # New /\ Brings(v6[c])
  BY <1>2 DEF Tree!FindNextChildren, HomeTypes, CallsApart, About
<1>4. /\ f \in Placed /\ New \notin Placed /\ Gone \notin Placed /\ New # Gone
      /\ in \in SUBSET Tree!Element /\ \A y \in in : y \in Things /\ v1[y] = f
  BY <1>3 DEF Tree!Place, Placed, Tree!Nulls, Tree!Element, Things
<1> HIDE DEF in
<1>5. /\ r \in Tree!Asked /\ r.element = f /\ r.pc = "loaded" /\ Brings(r)
      /\ Way(r) = {f} \X in /\ Circles(v7, r)
  <2>1. v6[c].below = {}
    BY <1>3 DEF Brings
  <2>2. r \in Tree!Asked /\ r.element = f /\ r.pc = "loaded" /\ r.below = {} /\ r.children = in
    BY <1>3, <1>4, <2>1 DEF Tree!Asked
  <2> HIDE DEF r
  <2> QED BY <2>2 DEF Brings, Way, Circles
<1>6. /\ v1' = v1 /\ v6' = [v6 EXCEPT ![c] = r] /\ v7' = v7
      /\ v2' = v2 /\ v3' = v3 /\ v4' = v4 /\ v5' = v5
  BY DEF Tree!FindNextChildren, Tree!Answered, Tree!tree, in
<1> HIDE DEF f, r
<1>7. TreeState(v1, v2, [v6 EXCEPT ![c] = r], v5, v7)
  <2> DEFINE T == {}
  <2>1. r.element = v6[c].element /\ Lives(v1, r, v6[c])
    BY <1>4, <1>5 DEF f, Lives
  <2>2. v6[c].pc \notin {"idle", "moved", "deleted"} /\ v1[r.element] # New
    BY <1>3, <1>5
  <2>3. /\ T \in SUBSET Things /\ Altered(v1, v1, T, v6[c])
        /\ \A e \in v2 : e[2] \in T => Fits(v1, v7, e)
        /\ \A d \in OneCall : d # c => \A e \in Way(v6[d]) : e[2] \in T => e[2] \in v7
        /\ v5.roots \intersect T \subseteq v7
    BY DEF Altered
  <2>4. /\ v1 \in [Things -> Placed \union {New, Gone}] /\ v7 \in SUBSET Things
        /\ r.pc \in {"loaded", "deleted"} => r.element \in Folder
    BY <1>2, <1>3, <1>5 DEF HomeTypes
  <2>5. \A e \in Way(r) : e[2] \in Things /\ Fits(v1, v7, e) /\ v1[e[2]] # New
    BY <1>4, <1>5 DEF Fits
  <2> HIDE DEF T
  <2> QED BY ONLY <1>1, <1>4, <1>5, <2>1, <2>2, <2>3, <2>4, <2>5, c \in OneCall, TreeServes
<1> QED BY <1>1, <1>6, <1>7 DEF TreeNext

\* Where everything is kept, and what is kept in a folder.
Keepings == {<<v1[y], y>> : y \in Things}

\* What is deleted with a folder hangs together on the server.
LEMMA KeptInside ==
    ASSUME Tree!Nulls, HomeTypes(v1, v2, v6, v5, v7), NEW f \in Folder, v1[f] # New
    PROVE  /\ Tree!KeptBelow(f) \in SUBSET Things /\ f \in Tree!KeptBelow(f)
           /\ \A y \in Tree!KeptBelow(f) : y # f => v1[y] \in Tree!KeptBelow(f)
           /\ \A y \in Tree!KeptBelow(f) : v1[y] # New
<1>1. Tree!KeptBelow(f) = Tree!From(f, Keepings)
  BY DEF Tree!KeptBelow, Keepings, Tree!Element, Things
<1>2. f \in Things /\ \A e \in Keepings : e[2] \in Things
  BY DEF Keepings, Things
<1>3. Tree!Keeps(Things, f, Keepings)
  BY <1>2 DEF Tree!Keeps
<1>4. Tree!KeptBelow(f) \in SUBSET Things
  BY <1>1, <1>3, FromLeast
<1>5. f \in Tree!KeptBelow(f)
  BY <1>1, <1>2 DEF Tree!From, Tree!Keeps, Tree!Element, Things
<1>6. ASSUME NEW y \in Tree!KeptBelow(f), y # f PROVE v1[y] \in Tree!KeptBelow(f)
  <2>1. PICK e \in Keepings : e[2] = y /\ e[1] \in Tree!From(f, Keepings)
    BY <1>1, <1>2, <1>6, FromAbove
  <2>2. e[1] = v1[y]
    BY <2>1 DEF Keepings
  <2> QED BY <1>1, <2>1, <2>2
<1>7. New \notin Things
  BY DEF Tree!Nulls, Tree!Element, Things
<1> QED BY <1>4, <1>5, <1>6, <1>7

\* DeleteFolder: all of that is gone, and awaits the answer.
LEMMA TreeDeletes ==
    ASSUME Tree!Nulls, Tree!LibraryInv, NEW c \in OneCall, Tree!DeleteFolder(c)
    PROVE  TreeNext
<1>1. TreeState(v1, v2, v6, v5, v7) /\ v3 \in [Things -> Placed] /\ v4 \subseteq Folder
  BY TreeParts
<1>2. HomeTypes(v1, v2, v6, v5, v7) /\ CallsApart(v1, v6) /\ EdgesFit(v1, v2, v6, v5, v7)
  BY <1>1 DEF TreeState
<1> DEFINE f == v6[c].element
           T == Tree!KeptBelow(f)
           r == [v6[c] EXCEPT !.pc = "deleted", !.touched = T]
<1>3. v6[c] \in Tree!Asked /\ v6[c].pc = "delete" /\ f \in Folder /\ v1[f] # New /\ Brings(v6[c])
  BY <1>2 DEF Tree!DeleteFolder, HomeTypes, CallsApart, About
<1>4. New # Gone /\ T \in SUBSET Things /\ f \in T
      /\ (\A y \in T : y # f => v1[y] \in T) /\ (\A y \in T : v1[y] # New)
  BY <1>2, <1>3, KeptInside DEF Tree!Nulls
<1>6. /\ v1' = [y \in Things |-> IF y \in T THEN Gone ELSE v1[y]]
      /\ v6' = [v6 EXCEPT ![c] = r] /\ Tree!Changes(c, T)
      /\ v2' = v2 /\ v3' = v3 /\ v4' = v4 /\ v5' = v5
  BY DEF Tree!DeleteFolder, Tree!Answered, Tree!tree, Tree!Element, Things
<1> HIDE DEF T
<1>5. /\ r \in Tree!Asked /\ r.element = f /\ r.pc = "deleted" /\ Brings(r) /\ r.touched = T
      /\ Way(r) = {} /\ Circles(v7', r)
  <2>1. v6[c].below = {} /\ v6[c].children = {}
    BY <1>3 DEF Brings
  <2>2. /\ r \in Tree!Asked /\ r.element = f /\ r.pc = "deleted" /\ r.below = {} /\ r.children = {}
        /\ r.touched = T
    BY <1>3, <1>4, <2>1 DEF Tree!Asked, Tree!Element, Things
  <2> HIDE DEF r
  <2> QED BY <2>2 DEF Brings, Way, Circles
<1> HIDE DEF f, r
<1>7. /\ v1' \in [Things -> Placed \union {New, Gone}]
      /\ \A y \in Things : v1'[y] = IF y \in T THEN Gone ELSE v1[y]
  BY <1>2, <1>6 DEF HomeTypes
<1>8. /\ v7' \in SUBSET Things /\ v7 \subseteq v7'
      /\ \/ T \subseteq v7'
         \/ /\ v7' = v7 /\ T \intersect v7 = {} /\ v5.roots = {}
            /\ \A d \in OneCall : d # c => v6[d].pc = "idle" /\ Way(v6[d]) = {}
  BY <1>1, <1>4, <1>6, TreeChanges
<1> DEFINE l == [v6 EXCEPT ![c] = r]
<1>9. l[c] = r /\ \A d \in OneCall : d # c => l[d] = v6[d]
  BY <1>2 DEF HomeTypes
<1> HIDE DEF l
<1>10. Whole(v1', v2, l, v5, v7', c)
  <2>1. l[c].element \in l[c].touched /\ \A y \in l[c].touched : v1'[y] = Gone
    BY <1>4, <1>5, <1>7, <1>9
  <2>2. CASE T \subseteq v7'
    BY <1>5, <1>9, <2>1, <2>2 DEF Whole
  <2>3. CASE /\ v7' = v7 /\ T \intersect v7 = {} /\ v5.roots = {}
             /\ \A d \in OneCall : d # c => v6[d].pc = "idle" /\ Way(v6[d]) = {}
    <3>1. Lies(v2, l, v5) = v2
      BY <1>5, <1>9, <2>3 DEF Lies
    <3>2. \A y : ~ Await(v6, y)
      BY <1>3, <2>3 DEF Await
    <3>3. \A e \in v2 : e[2] \in T \ {f} => e[1] \in T
      BY <1>2, <1>4, <2>3, <3>2 DEF EdgesFit, Fits
    <3> QED BY <1>5, <1>9, <2>1, <3>1, <3>3 DEF Whole
  <2> QED BY <1>8, <2>2, <2>3
<1>11. TreeState(v1', v2, [v6 EXCEPT ![c] = r], v5, v7')
  <2>1. r.element = v6[c].element /\ Lives(v1, r, v6[c])
    BY <1>5 DEF f, Lives
  <2>2. v6[c].pc \notin {"idle", "moved", "deleted"} /\ v1'[r.element] # New
    BY <1>3, <1>4, <1>5, <1>7
  <2>3. \A e \in v2 : e[2] \in T => e[2] \in r.touched
    BY <1>5
  <2>4. \A d \in OneCall : d # c => \A e \in Way(v6[d]) : e[2] \in T => e[2] \in v7'
    BY <1>8
  <2>5. v5.roots \intersect T \subseteq v7'
    BY <1>8
  <2>6. Altered(v1, v1', T, v6[c]) /\ Whole(v1', v2, [v6 EXCEPT ![c] = r], v5, v7', c)
    BY <1>4, <1>7, <1>10 DEF Altered, l
  <2>7. (r.pc \in {"loaded", "deleted"} => r.element \in Folder) /\ (\A e \in Way(r) : FALSE)
    BY <1>3, <1>5
  <2> QED BY ONLY <1>1, <1>4, <1>5, <1>7, <1>8, <2>1, <2>2, <2>3, <2>4, <2>5, <2>6, <2>7,
                  c \in OneCall, TreeServes
<1> QED BY <1>1, <1>6, <1>11 DEF TreeNext

\* FindAllParentFolders: the answer is what the server has.
LEMMA TreeRoots ==
    ASSUME Tree!Nulls, Tree!LibraryInv, Tree!FindAllParentFolders
    PROVE  TreeNext
<1>1. TreeState(v1, v2, v6, v5, v7) /\ v3 \in [Things -> Placed] /\ v4 \subseteq Folder
  BY TreeParts
<1>2. HomeTypes(v1, v2, v6, v5, v7) /\ CallsApart(v1, v6) /\ EdgesFit(v1, v2, v6, v5, v7)
  BY <1>1 DEF TreeState
<1>3. /\ v5' = [pc |-> "answered", roots |-> Tree!Roots] /\ v5'.roots = Tree!Roots
      /\ Tree!Roots \subseteq Folder /\ v5' \in [pc: {"none", "sent", "answered"}, roots: SUBSET Folder]
      /\ v1' = v1 /\ v2' = v2 /\ v3' = v3 /\ v4' = v4 /\ v6' = v6 /\ v7' = v7 /\ v5'.pc = "answered"
  BY DEF Tree!FindAllParentFolders, Tree!tree, Tree!Roots
<1>4. /\ \A x \in Tree!Roots : v1[x] = Root
      /\ Root # New /\ Root # Gone
  BY DEF Tree!Roots, Tree!Nulls, Tree!Place
<1>5. \A e \in Lies(v2, v6, v5') : e \in Lies(v2, v6, v5) \/ v1[e[2]] = Root
  BY <1>3, <1>4 DEF Lies
<1>6. HomeTypes(v1, v2, v6, v5', v7)
  BY <1>2, <1>3 DEF HomeTypes
<1>7. EdgesFit(v1, v2, v6, v5', v7)
  BY <1>2, <1>3, <1>4, <1>5 DEF EdgesFit
<1>8. ASSUME NEW c \in OneCall, v6[c].pc = "deleted" PROVE Whole(v1, v2, v6, v5', v7, c)
  <2>1. Whole(v1, v2, v6, v5, v7, c)
    BY <1>1, <1>8 DEF TreeState
  <2> QED BY <1>4, <1>5, <2>1 DEF Whole
<1>9. TreeState(v1, v2, v6, v5', v7)
  BY <1>1, <1>2, <1>6, <1>7, <1>8 DEF TreeState
<1> QED BY <1>1, <1>3, <1>9 DEF TreeNext

\* A call ends; whoever is awaited by another call still is.
LEMMA TreeEnds ==
    ASSUME Tree!LibraryInv, NEW c \in OneCall
    PROVE  /\ [v6 EXCEPT ![c] = Tree!Idle] \in [OneCall -> Tree!Asked]
           /\ \A d \in OneCall : \/ [v6 EXCEPT ![c] = Tree!Idle][d] = v6[d]
                                 \/ [v6 EXCEPT ![c] = Tree!Idle][d] = Tree!Idle
           /\ \A x : Await(v6, x) => \/ Await([v6 EXCEPT ![c] = Tree!Idle], x)
                                     \/ v6[c].pc \in {"moved", "deleted"} /\ x \in v6[c].touched
<1>1. v6 \in [OneCall -> Tree!Asked]
  BY DEF Tree!LibraryInv, Tree!LibraryTypes
<1> DEFINE l == [v6 EXCEPT ![c] = Tree!Idle]
<1>2. l \in [OneCall -> Tree!Asked] /\ l[c] = Tree!Idle /\ \A d \in OneCall : d # c => l[d] = v6[d]
  BY <1>1, IdleWay
<1> HIDE DEF l
<1>3. \A x : Await(v6, x) => Await(l, x) \/ (v6[c].pc \in {"moved", "deleted"} /\ x \in v6[c].touched)
  BY <1>2 DEF Await
<1> QED BY <1>2, <1>3 DEF l

\* What is shown, and what some call has on its way: all of it fits.
LEMMA WayFits ==
    ASSUME Tree!LibraryInv, NEW c \in OneCall
    PROVE  /\ v2 \subseteq Lies(v2, v6, v5) /\ v2 \subseteq Placed \X Things
           /\ Way(v6[c]) \subseteq Lies(v2, v6, v5)
           /\ \A e \in Way(v6[c]) : Fits(v1, v7, e)
           /\ \A e \in v2 : Fits(v1, v7, e) \/ Await(v6, e[2])
           /\ v6[c] \in Tree!Asked /\ v7 \in SUBSET Things
           /\ v6[c].pc # "idle" => About(v1, v6[c])
           /\ Brings(v6[c]) /\ Circles(v7, v6[c])
BY TreeParts DEF TreeState, HomeTypes, EdgesFit, CallsApart, Lies

\* What is shown now: edges that were shown or on their way, for an element that is awaited
\* no more only where they fit.
LEMMA TreeShown ==
    ASSUME Tree!LibraryInv, NEW c \in OneCall, v6' = [v6 EXCEPT ![c] = Tree!Idle],
           v1' = v1, v7' \in SUBSET Things, v7 \subseteq v7', v2' \in SUBSET (Placed \X Things),
           \A e \in v2' : e \in v2 \/ e \in Way(v6[c]),
           v6[c].pc \in {"moved", "deleted"} =>
              \A e \in v2' : e[2] \in v6[c].touched => e \in Way(v6[c]) \/ e[2] \in v7',
           v5' = v5 \/ v5' = Tree!Sent, v3' \in [Things -> Placed], v4' = v4
    PROVE  TreeNext
<1>b. PICK b \in SUBSET Things : b = v7'
  OBVIOUS
<1>t. PICK t \in SUBSET (Placed \X Things) : t = v2'
  OBVIOUS
<1>0. /\ \A e \in t : e \in v2 \/ e \in Way(v6[c])
      /\ v6[c].pc \in {"moved", "deleted"} =>
            \A e \in t : e[2] \in v6[c].touched => e \in Way(v6[c]) \/ e[2] \in b
      /\ v7 \subseteq b
  BY <1>b, <1>t
<1>1. TreeState(v1, v2, v6, v5, v7) /\ v4 \subseteq Folder
  BY TreeParts
<1> DEFINE l == [v6 EXCEPT ![c] = Tree!Idle]
<1>2. /\ l \in [OneCall -> Tree!Asked]
      /\ \A d \in OneCall : l[d] = v6[d] \/ l[d] = Tree!Idle
      /\ \A x : Await(v6, x) => Await(l, x) \/ (v6[c].pc \in {"moved", "deleted"} /\ x \in v6[c].touched)
  BY TreeEnds
<1>3. v6' = l /\ v5' \in {v5, Tree!NoFetch, Tree!Sent}
  OBVIOUS
<1> HIDE DEF l
<1>4. t \subseteq Lies(v2, v6, v5)
  BY <1>0, WayFits
<1>5. ASSUME NEW e \in t PROVE Fits(v1, b, e) \/ Await(l, e[2])
  <2>1. CASE e \in Way(v6[c]) \/ e[2] \in b
    BY <1>0, <2>1, WayFits DEF Fits
  <2>2. CASE e \in v2 /\ Fits(v1, v7, e)
    BY <1>0, <2>2 DEF Fits
  <2>3. CASE e \in v2 /\ Await(v6, e[2]) /\ e \notin Way(v6[c]) /\ e[2] \notin b
    BY <1>0, <1>2, <2>3
  <2>4. e \in v2 => Fits(v1, v7, e) \/ Await(v6, e[2])
    BY WayFits
  <2> QED BY <1>0, <2>1, <2>2, <2>3, <2>4
<1>6. TreeState(v1, t, l, v5', b)
  BY ONLY <1>1, <1>2, <1>3, <1>4, <1>5, t \in SUBSET (Placed \X Things), b \in SUBSET Things,
          <1>0, TreeShows
<1> QED BY <1>1, <1>3, <1>6, <1>b, <1>t DEF TreeNext

\* A request that fails, or the answer to which is lost.
LEMMA TreeFails ==
    ASSUME Tree!Nulls, Tree!LibraryInv, NEW c \in OneCall,
           Tree!RequestFails(c) \/ Tree!AnswerLost(c) \/ Tree!Uploaded(c)
    PROVE  TreeNext
<1>1. v3 \in [Things -> Placed] /\ v2 \in SUBSET (Placed \X Things) /\ v7 \in SUBSET Things
  BY TreeParts, WayFits
<1>2. v6[c].touched \in SUBSET Things
  BY WayFits DEF Tree!Asked, Tree!Element, Things
<1>3. /\ v6' = [v6 EXCEPT ![c] = Tree!Idle] /\ v1' = v1 /\ v2' = v2 /\ v3' = v3 /\ v4' = v4
      /\ v5' = v5 \/ v5' = Tree!Sent
  BY DEF Tree!RequestFails, Tree!AnswerLost, Tree!Uploaded, Tree!Ends, Tree!tree
<1>4. CASE v7' = v7 /\ v6[c].pc \notin {"moved", "deleted"}
  BY <1>1, <1>3, <1>4, TreeShown
<1>5. CASE v7' = v7 \union v6[c].touched
  <2>1. v7' \in SUBSET Things /\ v7 \subseteq v7' /\ \A e \in v2 : e[2] \in v6[c].touched => e[2] \in v7'
    BY <1>1, <1>2, <1>5
  <2> QED BY ONLY <1>1, <1>3, <2>1, Tree!LibraryInv, c \in OneCall, TreeShown
<1> QED BY <1>4, <1>5 DEF Tree!RequestFails, Tree!AnswerLost, Tree!Uploaded

\* A folder's children, or none, are put into the tree.
LEMMA TreeTraverses ==
    ASSUME Tree!Nulls, Tree!LibraryInv, NEW c \in OneCall,
           Tree!handleNewElements(c) \/ Tree!Patched(c)
    PROVE  TreeNext
<1> DEFINE r == v6[c]
<1>1. v3 \in [Things -> Placed] /\ v2 \in SUBSET (Placed \X Things) /\ v7 \in SUBSET Things
  BY TreeParts, WayFits
<1>2. /\ r \in Tree!Asked /\ r.pc \in {"loaded", "patched"} /\ r.element \in Things
      /\ r.pc = "loaded" => r.element \in Placed
  BY WayFits DEF Tree!handleNewElements, Tree!Patched, About, Placed
<1>3. PICK in \in {{}, r.children} : /\ in # {} => r.pc = "loaded" /\ in = r.children
                                     /\ Tree!traverseTree(r.element, in, r.its)
  BY DEF Tree!handleNewElements, Tree!Patched
<1>4. /\ v6' = [v6 EXCEPT ![c] = Tree!Idle] /\ v1' = v1 /\ v4' = v4 /\ v5' = v5 /\ v7' = v7
  BY DEF Tree!handleNewElements, Tree!Patched, Tree!Ends
<1>5. \A e \in v2' : e \in v2 \/ (e \in {r.element} \X in)
  BY <1>3 DEF Tree!traverseTree, Tree!Visible
<1>6. {r.element} \X in \subseteq Way(r) /\ {r.element} \X in \subseteq Placed \X Things
  BY <1>2, <1>3 DEF Way, Tree!Asked, Tree!Element, Things
<1>7. v3' \in [Things -> Placed]
  <2>1. CASE v3' = v3
    BY <1>1, <2>1
  <2>2. CASE v3' = [y \in Things |-> IF y \in in THEN r.element ELSE IF y = r.element THEN r.its ELSE v3[y]]
    <3>1. r.its \in Placed /\ (in # {} => r.element \in Placed)
      BY <1>2, <1>3 DEF Tree!Asked, Tree!Place, Placed
    <3> HIDE DEF r
    <3> QED BY <1>1, <2>2, <3>1
  <2> QED BY <1>3, <2>1, <2>2 DEF Tree!traverseTree, Tree!Element, Things
<1> QED BY <1>1, <1>2, <1>4, <1>5, <1>6, <1>7, TreeShown

\* The answer to a move puts the element, and all below it, where the server has it.
LEMMA TreeMoved ==
    ASSUME Tree!Nulls, Tree!LibraryInv, NEW c \in OneCall, Tree!Moved(c)
    PROVE  TreeNext
<1> DEFINE r == v6[c]
<1>1. v3 \in [Things -> Placed] /\ v2 \in SUBSET (Placed \X Things) /\ v7 \in SUBSET Things
  BY TreeParts, WayFits
<1>2. /\ r \in Tree!Asked /\ r.pc = "moved" /\ r.element \in Things /\ r.touched = {r.element}
      /\ r.to \in Placed /\ r.its \in Placed /\ r.below \in SUBSET (Placed \X Things)
  BY WayFits DEF Tree!Moved, About, Tree!Asked, Tree!Place, Placed, Tree!Element, Things
<1>3. /\ v6' = [v6 EXCEPT ![c] = Tree!Idle] /\ v1' = v1 /\ v4' = v4 /\ v5' = v5 /\ v7' = v7
      /\ v3' = [v3 EXCEPT ![r.element] = r.its]
      /\ v2' = Tree!addChild(r.element, r.below, Tree!deleteChild(r.element, v2), r.to)
  BY DEF Tree!Moved, Tree!Ends
<1>4. Way(r) = r.below \union ({r.element} \X r.children) \union {<<r.to, r.element>>}
  BY <1>2 DEF Way
<1>5. \A e \in Tree!deleteChild(r.element, v2) : e \in v2 /\ e[2] # r.element
  BY DEF Tree!deleteChild, Tree!Visible
<1>6. \A e \in v2' : e \in Tree!deleteChild(r.element, v2) \/ e \in r.below \/ e = <<r.to, r.element>>
  BY <1>3 DEF Tree!addChild
<1>7. v3' \in [Things -> Placed]
  BY <1>1, <1>2, <1>3
<1>8. \A e \in v2' : (e \in v2 /\ e[2] # r.element) \/ e \in Way(r)
  BY <1>4, <1>5, <1>6
<1>9. v2' \in SUBSET (Placed \X Things)
  <2>1. <<r.to, r.element>> \in Placed \X Things
    BY <1>2
  <2> QED BY <1>1, <1>2, <1>5, <1>6, <2>1
<1>10. \A e \in v2' : e[2] \in r.touched => e \in Way(r)
  BY <1>2, <1>8
<1> QED BY ONLY <1>1, <1>3, <1>7, <1>8, <1>9, <1>10, Tree!LibraryInv, c \in OneCall, TreeShown

\* The answer to a deletion takes all of it off the tree.
LEMMA TreeRemoves ==
    ASSUME Tree!Nulls, Tree!LibraryInv, NEW c \in OneCall, Tree!onDelete(c)
    PROVE  TreeNext
<1> DEFINE r == v6[c]
           f == r.element
           T == r.touched
           E == {e \in v2 : e[2] # f}
<1>1. /\ v3 \in [Things -> Placed] /\ v2 \in SUBSET (Placed \X Things) /\ v7 \in SUBSET Things
      /\ Whole(v1, v2, v6, v5, v7, c)
  BY TreeParts, WayFits DEF Tree!onDelete, TreeState
<1>2. r \in Tree!Asked /\ r.pc = "deleted" /\ T \in SUBSET Things /\ f \in T
  BY <1>1, WayFits DEF Tree!onDelete, Tree!Asked, Tree!Element, Things, Whole
<1>3. /\ v6' = [v6 EXCEPT ![c] = Tree!Idle] /\ v1' = v1 /\ v4' = v4 /\ v5' = v5 /\ v7' = v7
      /\ v3' = v3 /\ v2' = Tree!Visible(E)
  BY DEF Tree!onDelete, Tree!Ends, Tree!deleteChild
<1>4. v2' \subseteq E
  BY <1>3 DEF Tree!Visible
<1>5. \A e \in v2' : e[2] \in T => e[2] \in v7
  <2>1. CASE T \subseteq v7
    BY <2>1
  <2>2. CASE \A e \in Lies(v2, v6, v5) : e[2] \in T \ {f} => e[1] \in T
    <3> DEFINE S == (Things \union {Root}) \ T
    <3>1. Root \in S
      BY <1>2 DEF Tree!Nulls, Tree!Element, Things
    <3>2. ASSUME NEW e \in E, e[1] \in S PROVE e[2] \in S
      <4>1. e \in Lies(v2, v6, v5) /\ e[2] \in Things /\ e[2] # f
        BY <1>1 DEF Lies
      <4> QED BY <2>2, <3>2, <4>1
    <3>3. Tree!Keeps(S, Root, E)
      BY <3>1, <3>2 DEF Tree!Keeps
    <3>4. S \in SUBSET (Things \union {Root})
      OBVIOUS
    <3> HIDE DEF S
    <3>5. Tree!From(Root, E) \subseteq S
      BY <3>3, <3>4, FromLeast
    <3>6. \A e \in v2' : e \in E /\ e[1] \in S
      BY <1>3, <3>5 DEF Tree!Visible
    <3> QED BY <3>2, <3>6 DEF S
  <2> QED BY <1>1, <2>1, <2>2 DEF Whole
<1>6. v2' \in SUBSET (Placed \X Things) /\ \A e \in v2' : e \in v2
  BY <1>1, <1>4
<1> QED BY ONLY <1>1, <1>3, <1>5, <1>6, Tree!LibraryInv, c \in OneCall, TreeShown

\* The answer to a creation adds the element.
LEMMA TreeUpdatesCache ==
    ASSUME Tree!Nulls, Tree!LibraryInv, NEW c \in OneCall, Tree!updateCache(c)
    PROVE  TreeNext
<1> DEFINE r == v6[c]
           edge == <<r.to, r.element>>
<1>1. v3 \in [Things -> Placed] /\ v2 \in SUBSET (Placed \X Things) /\ v7 \in SUBSET Things
  BY TreeParts, WayFits
<1>2. r \in Tree!Asked /\ r.pc = "created" /\ r.element \in Things /\ r.to \in Placed
  BY WayFits DEF Tree!updateCache, About, Tree!Asked, Tree!Place, Placed
<1>3. /\ v6' = [v6 EXCEPT ![c] = Tree!Idle] /\ v1' = v1 /\ v4' = v4 /\ v5' = Tree!Sent /\ v7' = v7
      /\ v3' = [v3 EXCEPT ![r.element] = r.to]
      /\ v2' = Tree!addChild(r.element, {}, v2, r.to)
  BY DEF Tree!updateCache, Tree!Ends
<1>4. \A e \in v2' : e \in v2 \/ e = edge
  BY <1>3 DEF Tree!addChild
<1>5. edge \in Way(r) /\ edge \in Placed \X Things
  BY <1>2 DEF Way
<1>6. v2' \in SUBSET (Placed \X Things) /\ (\A e \in v2' : e \in v2 \/ e \in Way(r))
  BY <1>1, <1>4, <1>5
<1>7. v3' \in [Things -> Placed] /\ r.pc \notin {"moved", "deleted"}
  BY <1>1, <1>2, <1>3
<1> QED BY ONLY <1>1, <1>3, <1>6, <1>7, Tree!LibraryInv, c \in OneCall, TreeShown

\* The roots are asked for again, and become the tree.
LEMMA TreeFetches ==
    ASSUME Tree!Nulls, Tree!LibraryInv, Tree!RefetchOnFocus \/ Tree!RootsArrive
    PROVE  TreeNext
<1>1. TreeState(v1, v2, v6, v5, v7) /\ v3 \in [Things -> Placed] /\ v4 \subseteq Folder
  BY TreeParts
<1>2. HomeTypes(v1, v2, v6, v5, v7) /\ EdgesFit(v1, v2, v6, v5, v7)
  BY <1>1 DEF TreeState
<1>3. v1' = v1 /\ v4' = v4 /\ v6' = v6 /\ v7' = v7 /\ v5' \in {v5, Tree!NoFetch, Tree!Sent}
  BY DEF Tree!RefetchOnFocus, Tree!RootsArrive, Tree!tree
<1>4. \/ v2' = v2 /\ v3' = v3
      \/ v2' = {Root} \X v5.roots /\ v3' = [x \in Things |-> IF x \in v5.roots THEN Root ELSE v3[x]]
  BY DEF Tree!RefetchOnFocus, Tree!RootsArrive, Tree!tree, Tree!Element, Things
<1>5. v3' \in [Things -> Placed]
  BY <1>1, <1>4 DEF Placed
<1>6. v2' \subseteq Lies(v2, v6, v5) /\ v2' \subseteq Placed \X Things
  <2>1. v2 \subseteq Placed \X Things /\ v5.roots \subseteq Folder
    BY <1>2 DEF HomeTypes
  <2> QED BY <1>4, <2>1 DEF Lies, Placed, Things
<1>7. \A e \in v2' : Fits(v1, v7, e) \/ Await(v6, e[2])
  <2>1. \A e \in {Root} \X v5.roots : Fits(v1, v7, e)
    BY <1>2 DEF EdgesFit, Fits
  <2> QED BY <1>2, <1>4, <2>1 DEF EdgesFit
<1>8. v7 \in SUBSET Things /\ v6 \in [OneCall -> Tree!Asked]
  BY <1>2 DEF HomeTypes
<1>9. TreeState(v1, v2', v6, v5', v7)
  BY ONLY <1>1, <1>3, <1>6, <1>7, <1>8, TreeShows
<1> QED BY <1>1, <1>3, <1>5, <1>9 DEF TreeNext

\* The tree opened with the roots is right.
LEMMA TreeInitially ==
    ASSUME Tree!Nulls, Tree!Init
    PROVE  Tree!LibraryInv
<1>1. /\ v1 \in [Things -> Placed \union {New}] /\ v2 = {<<Root, f>> : f \in Tree!Roots}
      /\ v3 = [x \in Things |-> Root] /\ v4 = {} /\ v5 = Tree!NoFetch
      /\ v6 = [c \in OneCall |-> Tree!Idle] /\ v7 = {}
  BY DEF Tree!Init, Tree!Element, Things, Tree!Place, Placed
<1>2. \A c \in OneCall : v6[c] = Tree!Idle
  BY <1>1
<1>3. /\ Tree!Roots \subseteq Folder /\ \A f \in Tree!Roots : v1[f] = Root
      /\ Root # New /\ New # Gone
  BY DEF Tree!Roots, Tree!Nulls, Tree!Place
<1>4. Lies(v2, v6, v5) = v2 /\ v5.roots = {} /\ v5.pc = "none"
  BY <1>1, <1>2, IdleWay DEF Lies, Tree!NoFetch
<1>5. Tree!OnTheWay = {}
  BY <1>2, <1>4 DEF Tree!OnTheWay, Tree!Pending, Tree!Idle
<1>6. \A e \in v2 : e[1] = Root /\ e[2] \in Folder /\ v1[e[2]] = Root /\ e \in Placed \X Things
  BY <1>1, <1>3 DEF Placed, Things
<1>7. Tree!TypeOK
  BY <1>1, <1>6 DEF Tree!TypeOK, Tree!NoFetch, Tree!Element, Things, Tree!Place, Placed
<1>8. v6 \in [OneCall -> Tree!Asked] /\ Tree!Busy = {}
  BY <1>1, <1>2, IdleWay DEF Tree!Busy
<1>9. Tree!LibraryTypes
  <2>1. v5 \in [pc: {"none", "sent", "answered"}, roots: SUBSET Tree!There]
    BY <1>1 DEF Tree!NoFetch
  <2>2. \A c \in OneCall : v6[c].children = {} /\ v6[c].below = {}
    BY <1>2 DEF Tree!Idle
  <2>3. \A e \in v2 \union Tree!OnTheWay : e[2] \in Tree!There
    BY <1>3, <1>5, <1>6 DEF Tree!There, Tree!Element
  <2> QED BY <1>4, <1>7, <1>8, <2>1, <2>2, <2>3 DEF Tree!LibraryTypes
<1>10. Tree!InPlace
  BY <1>5, <1>6 DEF Tree!InPlace, Tree!Right
<1>11. Tree!Followable
  BY <1>2, IdleWay DEF Tree!Followable
<1> QED BY <1>9, <1>10, <1>11 DEF Tree!LibraryInv

\* Every step of the pages and the server keeps it right.
LEMMA TreeKept ==
    ASSUME Tree!Nulls, Tree!LibraryInv, Tree!Next
    PROVE  Tree!LibraryInv'
<1>1. ASSUME NEW c \in OneCall, Tree!Handle(c) PROVE TreeNext
  <2>1. CASE \/ \E f \in Folder : Tree!onToggleFolder(c, f) \/ Tree!deleteMutation(c, f)
             \/ \E x \in Tree!Element, f \in Folder : Tree!moveToFolder(c, x, f)
             \/ \E x \in Tree!Element : Tree!onSubmit(c, x)
             \/ \E x \in Tree!Element, place \in Tree!Place : Tree!createFolderOrNote(c, x, place)
             \/ \E n \in Sheet : Tree!sendFiles(c, n)
    BY <2>1, TreeAsks
  <2>2. CASE Tree!RequestFails(c) \/ Tree!AnswerLost(c) \/ Tree!Uploaded(c)
    BY <2>2, TreeFails
  <2>3. CASE Tree!MoveToFolder(c) \/ Tree!UpdateFolder(c) \/ Tree!CreateElement(c)
             \/ Tree!FindNextChildren(c) \/ Tree!DeleteFolder(c)
    BY <2>3, TreeMoves, TreeUpdates, TreeCreates, TreeFinds, TreeDeletes
  <2>4. CASE Tree!handleNewElements(c) \/ Tree!Patched(c) \/ Tree!Moved(c) \/ Tree!onDelete(c)
             \/ Tree!updateCache(c)
    BY <2>4, TreeTraverses, TreeMoved, TreeRemoves, TreeUpdatesCache
  <2> QED BY <1>1, <2>1, <2>2, <2>3, <2>4 DEF Tree!Handle
<1>2. ASSUME Tree!RefetchOnFocus \/ Tree!FindAllParentFolders \/ Tree!RootsArrive PROVE TreeNext
  BY <1>2, TreeFetches, TreeRoots
<1> QED BY <1>1, <1>2, TreeNextParts DEF Tree!Next

\* What stands still keeps it.
LEMMA TreeStays ==
    ASSUME Tree!LibraryInv, UNCHANGED <<v1, v2, v3, v4, v5, v6, v7>>
    PROVE  Tree!LibraryInv'
<1>1. TreeState(v1, v2, v6, v5, v7) /\ v3 \in [Things -> Placed] /\ v4 \subseteq Folder
  BY TreeParts
<1>2. TreeNext
  BY <1>1 DEF TreeNext
<1> QED BY <1>2, TreeNextParts

\* With nothing under way nothing awaits an answer.
LEMMA TreeShownWhereItIs == Tree!LibraryInv => Tree!ShownWhereItIs
<1> SUFFICES ASSUME Tree!LibraryInv, Tree!Quiet PROVE \A e \in v2 : Fits(v1, v7, e)
  BY DEF Tree!ShownWhereItIs, Fits
<1>1. \A x : ~ Await(v6, x)
  BY DEF Await, Tree!Quiet, Tree!Busy
<1> QED BY <1>1, TreeParts DEF TreeState, EdgesFit

-----------------------------------------------------------------------------
(* The rows of the tree on the phone (MobileTree): v1 is the folders of the *)
(* last answer with their parents, v2 the notes, v3 what is unfolded.       *)

\* What there is a number of, there is a least one of: the induction the proofs use.
LEMMA Least ==
    ASSUME NEW T \in SUBSET Nat, T # {}
    PROVE  \E m \in T : \A n \in T : m <= n
<1>1. PICK k \in T : TRUE
  OBVIOUS
<1> DEFINE S == 0..k
           D == {0..j : j \in T \intersect S}
<1>2. IsFiniteSet(S) /\ k \in Nat
  BY FS_Interval, k \in Nat
<1>3. IsWellFoundedOn(StrictSubsetOrdering(S), SUBSET S)
  <2> HIDE DEF S
  <2> QED BY <1>2, FS_StrictSubsetOrderingWellFounded, FS_FiniteSubsetsOfFinite
<1>4. D \subseteq SUBSET S
  BY <1>2
<1>5. k \in T \intersect S
  BY <1>2
<1>6. D # {}
  BY <1>5
<1>7. PICK d \in D : \A e \in D : ~ (<<e, d>> \in StrictSubsetOrdering(S))
  <2> HIDE DEF S, D
  <2> QED BY <1>3, <1>4, <1>6, WFMin
<1>8. PICK m \in T \intersect S : d = 0..m
  OBVIOUS
<1>9. ASSUME NEW n \in T, n < m
      PROVE  FALSE
  <2>1. n \in S /\ n \in Nat /\ m \in Nat
    BY <1>2, <1>9
  <2>2. 0..n \in D /\ 0..n \subseteq 0..m /\ 0..n # 0..m
    BY <2>1, <1>9
  <2>3. 0..n \in SUBSET S /\ 0..m \in SUBSET S
    BY <1>4, <1>8, <2>2
  <2> QED BY <1>7, <1>8, <2>2, <2>3 DEF StrictSubsetOrdering
<1> QED BY <1>8, <1>9

Nodes == DOMAIN v1
Listed == Nodes \union DOMAIN v2

\* The module has its own copies of the library's operators.
LEMMA UnfoldSize ==
    /\ \A S : Unfold!IsFiniteSet(S) <=> IsFiniteSet(S)
    /\ \A S : Unfold!Cardinality(S) = Cardinality(S)
BY DEF Unfold!Cardinality, Cardinality, Unfold!IsFiniteSet, IsFiniteSet

\* What the lemmas below take from the types and the constants.
LEMMA UnfoldTypes ==
    ASSUME Unfold!TreeNulls, Unfold!TypeOK
    PROVE  /\ Nodes \subseteq ThreeFolders /\ DOMAIN v2 \subseteq Sheet /\ v3 \subseteq ThreeFolders
           /\ \A f \in ThreeFolders : f \notin Sheet
           /\ IsFiniteSet(Nodes) /\ Cardinality(Nodes) \in Nat
<1>1. v1 \in Unfold!Placed(ThreeFolders) /\ v2 \in Unfold!Placed(Sheet) /\ v3 \subseteq ThreeFolders
  BY DEF Unfold!TypeOK
<1>2. Nodes \subseteq ThreeFolders /\ DOMAIN v2 \subseteq Sheet
  BY <1>1 DEF Unfold!Placed, Nodes
<1>3. IsFiniteSet(ThreeFolders) /\ ThreeFolders \intersect Sheet = {}
  BY UnfoldSize DEF Unfold!TreeNulls
<1>4. IsFiniteSet(Nodes)
  BY ONLY <1>2, <1>3, FS_Subset
<1> QED BY <1>1, <1>2, <1>3, <1>4, FS_CardinalityType

\* The folders above: no parent is left out of them,
LEMMA AboveCloses ==
    ASSUME NEW x
    PROVE  Unfold!Above(x) \subseteq Nodes /\ Unfold!LeavesNoneOut(Unfold!Above(x), x)
BY DEF Unfold!Above, Unfold!LeavesNoneOut, Unfold!nodesById, Nodes

\* and they are the fewest such.
LEMMA AboveLeast ==
    ASSUME NEW x, NEW S \in SUBSET Nodes, Unfold!LeavesNoneOut(S, x)
    PROVE  Unfold!Above(x) \subseteq S
BY DEF Unfold!Above, Unfold!nodesById, Nodes

\* So they are the parent, when it is there, and the folders above it.
LEMMA AboveStep ==
    ASSUME NEW x
    PROVE  /\ Unfold!parentOf(x) \notin Nodes => Unfold!Above(x) = {}
           /\ Unfold!parentOf(x) \in Nodes =>
                 Unfold!Above(x) = {Unfold!parentOf(x)} \union Unfold!Above(Unfold!parentOf(x))
<1> DEFINE p == Unfold!parentOf(x)
<1>1. ASSUME p \notin Nodes PROVE Unfold!Above(x) = {}
  <2>1. Unfold!LeavesNoneOut({}, x)
    BY <1>1 DEF Unfold!LeavesNoneOut, Unfold!nodesById, Nodes
  <2> QED BY ONLY <2>1, AboveLeast
<1>2. ASSUME p \in Nodes PROVE Unfold!Above(x) = {p} \union Unfold!Above(p)
  <2>1. /\ Unfold!Above(x) \subseteq Nodes /\ Unfold!LeavesNoneOut(Unfold!Above(x), x)
        /\ Unfold!Above(p) \subseteq Nodes /\ Unfold!LeavesNoneOut(Unfold!Above(p), p)
    BY AboveCloses
  <2>2. p \in Unfold!Above(x)
    BY <1>2, <2>1 DEF Unfold!LeavesNoneOut, Unfold!nodesById, Nodes
  <2>3. Unfold!LeavesNoneOut(Unfold!Above(x), p)
    BY <2>1, <2>2 DEF Unfold!LeavesNoneOut
  <2>4. Unfold!Above(p) \subseteq Unfold!Above(x)
    BY ONLY <2>1, <2>3, AboveLeast
  <2>5. Unfold!LeavesNoneOut({p} \union Unfold!Above(p), x)
    BY <2>1 DEF Unfold!LeavesNoneOut
  <2>6. Unfold!Above(x) \subseteq {p} \union Unfold!Above(p)
    BY ONLY <1>2, <2>1, <2>5, AboveLeast
  <2> QED BY ONLY <2>2, <2>4, <2>6
<1> QED BY ONLY <1>1, <1>2

\* A folder that lies in a root does not lie in itself.
LEMMA NotAboveItself ==
    ASSUME Unfold!TreeNulls, Unfold!TypeOK,
           NEW f \in Nodes, Unfold!rootIds \intersect (Unfold!Above(f) \union {f}) # {}
    PROVE  f \notin Unfold!Above(f)
<1> SUFFICES ASSUME f \in Unfold!Above(f) PROVE FALSE
  OBVIOUS
<1> DEFINE S == {y \in Unfold!Above(f) : f \in Unfold!Above(y)}
<1>1. Unfold!Above(f) \subseteq Nodes /\ Unfold!LeavesNoneOut(Unfold!Above(f), f)
  BY AboveCloses
<1>2. ASSUME NEW y \in S \union {f}, Unfold!parentOf(y) \in Nodes
      PROVE  Unfold!parentOf(y) \in S
  <2>1. Unfold!parentOf(y) \in Unfold!Above(f)
    BY <1>1, <1>2 DEF Unfold!LeavesNoneOut, Unfold!nodesById, Nodes
  <2>2. Unfold!Above(y) = {Unfold!parentOf(y)} \union Unfold!Above(Unfold!parentOf(y))
    BY ONLY <1>2, AboveStep
  <2>3. f \in Unfold!Above(y)
    BY <1>2
  <2>4. f \in Unfold!Above(Unfold!parentOf(y))
    BY ONLY <2>2, <2>3, f \in Unfold!Above(f)
  <2> QED BY ONLY <2>1, <2>4
<1>3. Unfold!LeavesNoneOut(S, f)
  <2> HIDE DEF S
  <2> QED BY <1>2 DEF Unfold!LeavesNoneOut, Unfold!nodesById, Nodes
<1>4. \A y \in Unfold!Above(f) : f \in Unfold!Above(y)
  BY ONLY <1>1, <1>3, AboveLeast
<1>5. ASSUME NEW y \in Unfold!Above(f) \union {f} PROVE Unfold!parentOf(y) \in Nodes
  BY ONLY <1>4, AboveStep, f \in Unfold!Above(f)
<1>6. ASSUME NEW y \in Unfold!rootIds PROVE Unfold!parentOf(y) \notin Nodes
  <2>1. y \in Nodes /\ v1[y] \notin Nodes
    BY DEF Unfold!rootIds, Unfold!nodesById, Nodes
  <2> QED BY <2>1, UnfoldTypes DEF Unfold!parentOf
<1> QED BY ONLY <1>5, <1>6, Unfold!rootIds \intersect (Unfold!Above(f) \union {f}) # {}

-----------------------------------------------------------------------------
\* What one level of the tree unfolds into, and a run of levels.
Below(S) == UNION {Unfold!attachChildren(f) : f \in S \intersect v3}
Levels(g, n) == \A d \in 0..n : g[d] = IF d = 0 THEN Unfold!rootIds ELSE Below(g[d - 1])

\* There is such a run, of any length,
LEMMA LevelsThere ==
    ASSUME NEW N \in Nat
    PROVE  \E g : g = [d \in 0..N |-> IF d = 0 THEN Unfold!rootIds ELSE Below(g[d - 1])]
<1> DEFINE Runs(n) == \E g : Levels(g, n)
           Bad == {n \in Nat : ~ Runs(n)}
<1>1. Bad = {}
  <2> SUFFICES ASSUME Bad # {} PROVE FALSE
    OBVIOUS
  <2>1. PICK m \in Bad : \A n \in Bad : m <= n
    <3>1. Bad \in SUBSET Nat
      OBVIOUS
    <3> HIDE DEF Bad
    <3> QED BY <3>1, Least
  <2>2. m \in Nat /\ ~ Runs(m)
    BY <2>1
  <2>3. CASE m = 0
    <3>1. Levels([d \in 0..0 |-> Unfold!rootIds], 0)
      BY DEF Levels
    <3> QED BY ONLY <2>2, <2>3, <3>1
  <2>4. CASE m # 0
    <3>1. m - 1 \in Nat /\ ~ (m <= m - 1)
      BY ONLY <2>2, <2>4
    <3>2. m - 1 \notin Bad
      BY ONLY <2>1, <3>1
    <3>3. PICK g : Levels(g, m - 1)
      BY ONLY <3>1, <3>2
    <3> DEFINE h == [d \in 0..m |-> IF d = m THEN Below(g[m - 1]) ELSE g[d]]
    <3>4. ASSUME NEW d \in 0..m
          PROVE  h[d] = IF d = 0 THEN Unfold!rootIds ELSE Below(h[d - 1])
      <4>1. CASE d = m
        <5>1. m - 1 \in 0..m /\ m - 1 # m
          BY ONLY <2>2, <3>1
        <5>2. h[m - 1] = g[m - 1] /\ h[d] = Below(g[m - 1])
          BY ONLY <4>1, <5>1
        <5> QED BY ONLY <2>4, <4>1, <5>2
      <4>2. CASE d # m
        <5>1. d \in 0..(m - 1) /\ (d # 0 => d - 1 \in 0..m /\ d - 1 # m)
          BY ONLY <2>2, <3>1, <4>2, d \in 0..m
        <5>2. h[d] = g[d] /\ (d # 0 => h[d - 1] = g[d - 1])
          BY ONLY <4>2, <5>1, d \in 0..m
        <5>3. g[d] = IF d = 0 THEN Unfold!rootIds ELSE Below(g[d - 1])
          BY ONLY <3>3, <5>1 DEF Levels
        <5> QED BY ONLY <5>2, <5>3
      <4> QED BY ONLY <4>1, <4>2
    <3> HIDE DEF h
    <3>5. Levels(h, m)
      BY ONLY <3>4 DEF Levels
    <3> QED BY ONLY <2>2, <3>5
  <2> QED BY ONLY <2>3, <2>4
<1>2. PICK g : Levels(g, N)
  BY ONLY <1>1, N \in Nat
<1> DEFINE h == [d \in 0..N |-> g[d]]
<1>3. ASSUME NEW d \in 0..N
      PROVE  h[d] = IF d = 0 THEN Unfold!rootIds ELSE Below(h[d - 1])
  <2>1. d # 0 => d - 1 \in 0..N
    BY ONLY N \in Nat, d \in 0..N
  <2>2. h[d] = g[d] /\ (d # 0 => h[d - 1] = g[d - 1])
    BY ONLY <2>1, d \in 0..N
  <2> QED BY ONLY <1>2, <2>2, d \in 0..N DEF Levels
<1>4. h = [d \in 0..N |-> IF d = 0 THEN Unfold!rootIds ELSE Below(h[d - 1])]
  <2>1. h = [d \in 0..N |-> h[d]]
    OBVIOUS
  <2> HIDE DEF h
  <2> QED BY ONLY <1>3, <2>1, Zenon
<1> QED BY ONLY <1>4

\* so flattenTree is what it says, level by level.
LEMMA Flattened ==
    ASSUME Unfold!TreeNulls, Unfold!TypeOK
    PROVE  \A d \in 0..Cardinality(Nodes) :
              Unfold!flattenTree[d] = IF d = 0 THEN Unfold!rootIds ELSE Below(Unfold!flattenTree[d - 1])
<1> DEFINE N == Cardinality(Nodes)
<1>1. Unfold!Depths = 0..N /\ N \in Nat
  BY UnfoldSize, UnfoldTypes DEF Unfold!Depths, Unfold!nodesById, Nodes
<1>2. Unfold!flattenTree
        = CHOOSE g : g = [d \in 0..N |-> IF d = 0 THEN Unfold!rootIds ELSE Below(g[d - 1])]
  BY <1>1 DEF Unfold!flattenTree, Below
<1> HIDE DEF N
<1>3. Unfold!flattenTree
        = [d \in 0..N |-> IF d = 0 THEN Unfold!rootIds ELSE Below(Unfold!flattenTree[d - 1])]
  BY ONLY <1>1, <1>2, LevelsThere
<1>4. \A d \in 0..N :
         Unfold!flattenTree[d] = IF d = 0 THEN Unfold!rootIds ELSE Below(Unfold!flattenTree[d - 1])
  BY ONLY <1>3
<1> QED BY ONLY <1>4 DEF N

\* Where a shown folder or note lies: in a root, or in a shown folder that is unfolded.
LEMMA ShownStep ==
    ASSUME Unfold!TreeNulls, Unfold!TypeOK, NEW x \in Listed
    PROVE  Unfold!Shown(x) <=> \/ x \in Unfold!rootIds
                               \/ /\ Unfold!parentOf(x) \in Nodes \intersect v3
                                  /\ Unfold!Shown(Unfold!parentOf(x))
<1> DEFINE p == Unfold!parentOf(x)
<1>1. x \in Unfold!rootIds <=> x \in Nodes /\ p \notin Nodes
  BY UnfoldTypes DEF Unfold!rootIds, Unfold!nodesById, Nodes, Unfold!parentOf
<1>2. Unfold!rootIds \subseteq Nodes
  BY DEF Unfold!rootIds, Unfold!nodesById, Nodes
<1>3. (p \notin Nodes => Unfold!Above(x) = {}) /\ (p \in Nodes => Unfold!Above(x) = {p} \union Unfold!Above(p))
  BY AboveStep
<1> HIDE DEF p
<1>4. CASE p \notin Nodes
  BY ONLY <1>1, <1>2, <1>3, <1>4 DEF Unfold!Shown, p
<1>5. CASE p \in Nodes
  <2>1. x \notin Unfold!rootIds
    BY ONLY <1>1, <1>5
  <2>2. Unfold!Above(x) = {p} \union Unfold!Above(p)
    BY ONLY <1>3, <1>5
  <2>3. Unfold!Shown(x) <=> Unfold!Above(x) \subseteq v3 /\ Unfold!rootIds \intersect Unfold!Above(x) # {}
    BY ONLY <2>1 DEF Unfold!Shown
  <2>4. Unfold!Shown(p) <=> Unfold!Above(p) \subseteq v3 /\ Unfold!rootIds \intersect (Unfold!Above(p) \union {p}) # {}
    BY DEF Unfold!Shown
  <2>5. Unfold!Shown(x) <=> p \in v3 /\ Unfold!Shown(p)
    BY ONLY <2>2, <2>3, <2>4
  <2> QED BY ONLY <1>5, <2>1, <2>5 DEF p
<1> QED BY ONLY <1>4, <1>5

\* How deep it lies.
LEMMA AboveSize ==
    ASSUME Unfold!TreeNulls, Unfold!TypeOK, NEW x \in Listed, Unfold!Shown(x)
    PROVE  /\ x \in Unfold!rootIds => Cardinality(Unfold!Above(x)) = 0
           /\ x \notin Unfold!rootIds =>
                 Cardinality(Unfold!Above(x)) = Cardinality(Unfold!Above(Unfold!parentOf(x))) + 1
           /\ Cardinality(Unfold!Above(x)) \in 0..Cardinality(Nodes)
<1> DEFINE p == Unfold!parentOf(x)
<1>1. /\ \A y : Unfold!Above(y) \subseteq Nodes
      /\ IsFiniteSet(Nodes) /\ Cardinality(Nodes) \in Nat
  BY AboveCloses, UnfoldTypes
<1>2. \A y : IsFiniteSet(Unfold!Above(y)) /\ Cardinality(Unfold!Above(y)) \in Nat
                /\ Cardinality(Unfold!Above(y)) <= Cardinality(Nodes)
  BY ONLY <1>1, FS_Subset, FS_CardinalityType
<1>3. ASSUME x \in Unfold!rootIds PROVE Cardinality(Unfold!Above(x)) = 0
  <2>1. p \notin Nodes
    BY <1>3, UnfoldTypes DEF Unfold!rootIds, Unfold!nodesById, Nodes, Unfold!parentOf
  <2>2. Unfold!Above(x) = {}
    BY ONLY <2>1, AboveStep
  <2> QED BY ONLY <2>2, FS_EmptySet
<1>4. ASSUME x \notin Unfold!rootIds
      PROVE  Cardinality(Unfold!Above(x)) = Cardinality(Unfold!Above(p)) + 1
  <2>1. p \in Nodes /\ Unfold!Shown(p)
    BY <1>4, ShownStep
  <2>2. p \notin Unfold!Above(p)
    <3>1. Unfold!rootIds \intersect (Unfold!Above(p) \union {p}) # {}
      BY <2>1 DEF Unfold!Shown
    <3> HIDE DEF p
    <3> QED BY <2>1, <3>1, NotAboveItself
  <2>3. Unfold!Above(x) = Unfold!Above(p) \union {p}
    BY ONLY <2>1, AboveStep
  <2> HIDE DEF p
  <2> QED BY ONLY <1>2, <2>2, <2>3, FS_AddElement
<1> QED BY ONLY <1>1, <1>2, <1>3, <1>4

\* Every row at a depth is one of what is shown there,
LEMMA RowsAreShown ==
    ASSUME Unfold!TreeNulls, Unfold!TypeOK
    PROVE  \A d \in 0..Cardinality(Nodes) : \A x \in Unfold!flattenTree[d] :
              x \in Listed /\ Unfold!Shown(x) /\ Cardinality(Unfold!Above(x)) = d
<1> DEFINE N == Cardinality(Nodes)
           Fine(x, d) == x \in Listed /\ Unfold!Shown(x) /\ Cardinality(Unfold!Above(x)) = d
           Bad == {d \in 0..N : \E x \in Unfold!flattenTree[d] : ~ Fine(x, d)}
<1>1. N \in Nat
  BY UnfoldTypes
<1>2. Bad \in SUBSET Nat
  BY <1>1
<1> SUFFICES ASSUME Bad # {} PROVE FALSE
  OBVIOUS
<1>3. PICK m \in Bad : \A n \in Bad : m <= n
  <2> HIDE DEF Bad
  <2> QED BY <1>2, Least
<1>4. m \in 0..N /\ \E x \in Unfold!flattenTree[m] : ~ Fine(x, m)
  BY ONLY <1>3
<1>5. PICK x \in Unfold!flattenTree[m] : ~ Fine(x, m)
  BY ONLY <1>4
<1> HIDE DEF N
<1>6. CASE m = 0
  <2>1. x \in Unfold!rootIds
    BY <1>4, <1>6, Flattened DEF N
  <2>2. x \in Listed
    BY <2>1 DEF Unfold!rootIds, Unfold!nodesById, Listed, Nodes
  <2>3. Unfold!Shown(x)
    BY <2>1, <2>2, ShownStep
  <2> QED BY <1>5, <1>6, <2>1, <2>2, <2>3, AboveSize
<1>7. CASE m # 0
  <2>1. m - 1 \in 0..N /\ ~ (m <= m - 1)
    BY ONLY <1>1, <1>4, <1>7
  <2>2. m - 1 \notin Bad
    BY ONLY <1>3, <2>1
  <2>3. \A y \in Unfold!flattenTree[m - 1] : Fine(y, m - 1)
    BY ONLY <2>1, <2>2
  <2>4. x \in Below(Unfold!flattenTree[m - 1])
    BY <1>4, <1>7, Flattened DEF N
  <2>5. PICK f \in Unfold!flattenTree[m - 1] : f \in v3 /\ x \in Unfold!attachChildren(f)
    BY ONLY <2>4 DEF Below
  <2>6. f \in Listed /\ Unfold!Shown(f) /\ Cardinality(Unfold!Above(f)) = m - 1
    BY ONLY <2>3, <2>5
  <2>7. f \in Nodes
    BY <2>5, <2>6, UnfoldTypes DEF Listed
  <2>8. x \in Listed /\ Unfold!parentOf(x) = f
    <3>1. (x \in Nodes /\ v1[x] = f) \/ (x \in DOMAIN v2 /\ v2[x] = f)
      BY <2>5 DEF Unfold!attachChildren, Unfold!childrenByParent, Unfold!notesOf, Unfold!nodesById, Nodes
    <3> QED BY <3>1, UnfoldTypes DEF Unfold!parentOf, Listed
  <2>9. Unfold!Shown(x) /\ x \notin Unfold!rootIds
    <3>1. Unfold!Shown(x)
      BY <2>5, <2>6, <2>7, <2>8, ShownStep
    <3>2. ASSUME x \in Unfold!rootIds PROVE FALSE
      <4>1. x \in Nodes /\ v1[x] \notin Nodes
        BY <3>2 DEF Unfold!rootIds, Unfold!nodesById, Nodes
      <4>2. Unfold!parentOf(x) = v1[x]
        BY <4>1, UnfoldTypes DEF Unfold!parentOf
      <4> QED BY ONLY <2>7, <2>8, <4>1, <4>2
    <3> QED BY <3>1, <3>2
  <2>10. Cardinality(Unfold!Above(x)) = Cardinality(Unfold!Above(f)) + 1
    BY <2>8, <2>9, AboveSize
  <2>11. Cardinality(Unfold!Above(x)) = m
    BY ONLY <1>1, <1>4, <2>6, <2>10
  <2> QED BY <1>5, <2>8, <2>9, <2>11
<1> QED BY <1>6, <1>7

\* and all of what is shown is a row.
LEMMA ShownAreRows ==
    ASSUME Unfold!TreeNulls, Unfold!TypeOK
    PROVE  \A x \in Listed : Unfold!Shown(x) => x \in Unfold!flattenTree[Cardinality(Unfold!Above(x))]
<1> DEFINE Lost(x) == Unfold!Shown(x) /\ x \notin Unfold!flattenTree[Cardinality(Unfold!Above(x))]
           Bad == {Cardinality(Unfold!Above(x)) : x \in {y \in Listed : Lost(y)}}
<1>1. \A x \in Listed : Unfold!Shown(x) => Cardinality(Unfold!Above(x)) \in 0..Cardinality(Nodes)
  BY AboveSize
<1>0. Cardinality(Nodes) \in Nat
  BY UnfoldTypes
<1>2. Bad \in SUBSET Nat
  BY ONLY <1>0, <1>1
<1> SUFFICES ASSUME Bad # {} PROVE FALSE
  OBVIOUS
<1>3. PICK m \in Bad : \A n \in Bad : m <= n
  <2> HIDE DEF Bad
  <2> QED BY <1>2, Least
<1>4. PICK x \in Listed : Lost(x) /\ m = Cardinality(Unfold!Above(x))
  BY ONLY <1>3
<1>5. CASE x \in Unfold!rootIds
  <2>1. Cardinality(Unfold!Above(x)) = 0
    BY <1>4, <1>5, AboveSize
  <2>2. x \in Unfold!flattenTree[0]
    BY <1>0, <1>5, Flattened
  <2> QED BY ONLY <1>4, <2>1, <2>2
<1>6. CASE x \notin Unfold!rootIds
  <2> DEFINE p == Unfold!parentOf(x)
  <2>1. p \in Nodes /\ p \in v3 /\ Unfold!Shown(p)
    BY <1>4, <1>6, ShownStep
  <2>2. m = Cardinality(Unfold!Above(p)) + 1 /\ m \in 0..Cardinality(Nodes)
    BY <1>4, <1>6, AboveSize
  <2>3. p \in Listed
    BY ONLY <2>1 DEF Listed
  <2> HIDE DEF p
  <2>4. Cardinality(Unfold!Above(p)) \in 0..Cardinality(Nodes)
    BY ONLY <1>1, <2>1, <2>3
  <2>5. ~ (m <= Cardinality(Unfold!Above(p)))
    BY ONLY <1>0, <2>2, <2>4
  <2>6. Cardinality(Unfold!Above(p)) \notin Bad
    BY ONLY <1>3, <2>5
  <2>7. p \in Unfold!flattenTree[Cardinality(Unfold!Above(p))]
    BY ONLY <2>1, <2>3, <2>6
  <2>8. Unfold!flattenTree[m] = Below(Unfold!flattenTree[Cardinality(Unfold!Above(p))])
    <3>1. m # 0 /\ m - 1 = Cardinality(Unfold!Above(p))
      BY ONLY <1>0, <2>2, <2>4
    <3> QED BY <2>2, <3>1, Flattened
  <2>9. x \in Unfold!attachChildren(p)
    <3>1. (x \in Nodes /\ v1[x] = p) \/ (x \in DOMAIN v2 /\ v2[x] = p)
      BY UnfoldTypes DEF p, Unfold!parentOf, Listed
    <3> QED BY <3>1 DEF Unfold!attachChildren, Unfold!childrenByParent, Unfold!notesOf, Unfold!nodesById, Nodes
  <2>10. x \in Below(Unfold!flattenTree[Cardinality(Unfold!Above(p))])
    BY ONLY <2>1, <2>7, <2>9 DEF Below
  <2> QED BY ONLY <1>4, <2>8, <2>10
<1> QED BY ONLY <1>5, <1>6

\* The rows are the paths from a root through what is unfolded.
LEMMA UnfoldShowsPaths ==
    ASSUME Unfold!TreeNulls, Unfold!TypeOK
    PROVE  Unfold!RowsArePaths
<1>1. Unfold!Depths = 0..Cardinality(Nodes)
  BY UnfoldSize DEF Unfold!Depths, Unfold!nodesById, Nodes
<1>2. \A x \in Listed : Unfold!Shown(x) =>
         Cardinality(Unfold!Above(x)) \in Unfold!Depths /\ x \in Unfold!flattenTree[Cardinality(Unfold!Above(x))]
  BY <1>1, AboveSize, ShownAreRows
<1>3. \A d \in Unfold!Depths : \A x \in Unfold!flattenTree[d] :
         x \in Listed /\ Unfold!Shown(x) /\ Cardinality(Unfold!Above(x)) = d
  BY <1>1, RowsAreShown
<1> DEFINE paths == {[id |-> x, depth |-> Cardinality(Unfold!Above(x))] : x \in {y \in Listed : Unfold!Shown(y)}}
<1>4. ASSUME NEW r \in Unfold!rows PROVE r \in paths
  <2>1. PICK d \in Unfold!Depths : r \in {[id |-> x, depth |-> d] : x \in Unfold!flattenTree[d]}
    BY ONLY r \in Unfold!rows DEF Unfold!rows
  <2>2. PICK x \in Unfold!flattenTree[d] : r = [id |-> x, depth |-> d]
    BY ONLY <2>1
  <2> QED BY ONLY <1>3, <2>2
<1>5. ASSUME NEW r \in paths PROVE r \in Unfold!rows
  <2>1. PICK x \in {y \in Listed : Unfold!Shown(y)} : r = [id |-> x, depth |-> Cardinality(Unfold!Above(x))]
    BY ONLY r \in paths
  <2>2. Cardinality(Unfold!Above(x)) \in Unfold!Depths /\ x \in Unfold!flattenTree[Cardinality(Unfold!Above(x))]
    BY ONLY <1>2, <2>1
  <2> QED BY ONLY <2>1, <2>2 DEF Unfold!rows
<1>6. Unfold!rows = paths
  BY ONLY <1>4, <1>5
<1> QED BY ONLY <1>6, UnfoldSize DEF Unfold!RowsArePaths, Listed, Nodes

\* The tree on the phone before an answer, and after whatever happens.
LEMMA UnfoldInitially ==
    ASSUME Unfold!Init
    PROVE  Unfold!TypeOK
<1>1. Unfold!Nothing \in [{} -> Unfold!Parents]
  BY DEF Unfold!Nothing
<1>2. \A S : Unfold!Nothing \in Unfold!Placed(S)
  BY <1>1 DEF Unfold!Placed
<1> QED BY <1>2 DEF Unfold!Init, Unfold!TypeOK

\* An answer and an unfolded row keep them.
LEMMA UnfoldKept ==
    ASSUME Unfold!TreeNulls, Unfold!TypeOK, Unfold!Next
    PROVE  Unfold!TypeOK'
<1>1. CASE Unfold!Answered
  BY <1>1 DEF Unfold!Answered, Unfold!TypeOK, Unfold!Placed, Unfold!Parents
<1>2. CASE Unfold!toggleFolder
  <2>1. PICK row \in Unfold!rows : /\ row.id \in Nodes /\ UNCHANGED <<v1, v2>>
                                   /\ v3' = IF row.id \in v3 THEN v3 \ {row.id} ELSE v3 \union {row.id}
    BY <1>2 DEF Unfold!toggleFolder, Unfold!nodesById, Nodes
  <2>2. v3' \subseteq ThreeFolders
    BY <2>1, UnfoldTypes
  <2> QED BY <2>1, <2>2 DEF Unfold!TypeOK, Unfold!Placed, Unfold!Parents
<1> QED BY <1>1, <1>2 DEF Unfold!Next

\* What stands still keeps it.
LEMMA UnfoldStays ==
    ASSUME Unfold!TypeOK, UNCHANGED <<v1, v2, v3>>
    PROVE  Unfold!TypeOK'
BY DEF Unfold!TypeOK, Unfold!Placed, Unfold!Parents

-----------------------------------------------------------------------------
(* The row of a folder (MappeTags): RowsFollow says what a request, alone   *)
(* with its folder since it was sent, has done so far.                      *)

\* A request for a folder, the tags of the folder, and what RowsFollow says of the folder.
At(k, c, f) == k[c].pc # "idle" /\ k[c].folder = f
Of(t, f) == {e \in t : e[2] = f}
FarAs(t, r, b, f) ==
    /\ ~ b.shown => r[f].url = NoTag
    /\ b.pc \in {"answer", "render"} => b.tag \in TagRows!Tag /\ Of(t, f) = {<<b.tag, f>>}
    /\ b.pc = "render" /\ b.shown => r[f].url = b.tag
AtRest(t, r, f) == r[f].qr = r[f].url /\ Of(t, f) = {<<r[f].url, f>>}
RowFits(t, r, k, f) ==
    /\ \A c, d \in TwoCalls : At(k, c, f) /\ At(k, d, f) => c = d
    /\ \A c \in TwoCalls : At(k, c, f) => FarAs(t, r, k[c], f)
    /\ (\A c \in TwoCalls : ~ At(k, c, f)) /\ r[f].url # NoTag => AtRest(t, r, f)

\* It is what the invariant says,
LEMMA RowsNow ==
    TagRows!RowsFollow <=> \A f \in v1 \ v8 : RowFits(v2, v4, v5, f)
<1>1. ASSUME NEW f \in v1 \ v8
      PROVE  /\ \A c, d \in TagRows!UnderWay(f) : c = d
             /\ \A c \in TagRows!UnderWay(f) : TagRows!DoneSoFar(c)
             /\ TagRows!UnderWay(f) = {} /\ v4[f].url # NoTag => TagRows!Settled(f)
             <=> RowFits(v2, v4, v5, f)
  <2>1. TagRows!UnderWay(f) = {c \in TwoCalls : At(v5, c, f)}
    BY DEF TagRows!UnderWay, At
  <2>2. \A c \in TwoCalls : At(v5, c, f) => (TagRows!DoneSoFar(c) <=> FarAs(v2, v4, v5[c], f))
    BY DEF TagRows!DoneSoFar, FarAs, At, Of
  <2>3. TagRows!Settled(f) <=> AtRest(v2, v4, f)
    BY DEF TagRows!Settled, AtRest, Of
  <2> QED BY ONLY <2>1, <2>2, <2>3, Zenon DEF RowFits
<1> QED BY ONLY <1>1, Zenon DEF TagRows!RowsFollow

\* and what it says after a step.
LEMMA RowsNext ==
    ASSUME \A f \in v1' \ v8' : RowFits(v2', v4', v5', f)
    PROVE  TagRows!RowsFollow'
<1>1. ASSUME NEW f \in v1' \ v8'
      PROVE  /\ \A c, d \in {c \in TwoCalls : v5'[c].pc # "idle" /\ v5'[c].folder = f} : c = d
             /\ \A c \in {c \in TwoCalls : v5'[c].pc # "idle" /\ v5'[c].folder = f} :
                   FarAs(v2', v4', v5'[c], v5'[c].folder)
             /\ {c \in TwoCalls : v5'[c].pc # "idle" /\ v5'[c].folder = f} = {} /\ v4'[f].url # NoTag
                   => v4'[f].qr = v4'[f].url /\ {t \in v2' : t[2] = f} = {<<v4'[f].url, f>>}
  BY <1>1 DEF RowFits, At, AtRest, Of
<1> QED BY <1>1 DEF TagRows!RowsFollow, TagRows!UnderWay, TagRows!DoneSoFar, TagRows!Settled, FarAs, Of

\* A step that leaves a folder's tags, row and requests alone.
LEMMA RowElsewhere ==
    ASSUME NEW t, NEW t1, NEW r, NEW r1, NEW k, NEW k1, NEW f, RowFits(t, r, k, f),
           Of(t1, f) = Of(t, f), r1[f] = r[f],
           \A c \in TwoCalls : (At(k1, c, f) <=> At(k, c, f)) /\ (At(k, c, f) => k1[c] = k[c])
    PROVE  RowFits(t1, r1, k1, f)
<1>1. \A c, d \in TwoCalls : At(k1, c, f) /\ At(k1, d, f) => c = d
  BY DEF RowFits
<1>2. ASSUME NEW c \in TwoCalls, At(k1, c, f) PROVE FarAs(t1, r1, k1[c], f)
  <2>1. FarAs(t, r, k[c], f) /\ k1[c] = k[c]
    BY <1>2 DEF RowFits
  <2> QED BY <2>1 DEF FarAs
<1>3. (\A c \in TwoCalls : ~ At(k1, c, f)) /\ r1[f].url # NoTag => AtRest(t1, r1, f)
  BY DEF RowFits, AtRest
<1> QED BY ONLY <1>1, <1>2, <1>3 DEF RowFits

\* A request of a folder goes on: it is the only one, and what it has done is what counts.
LEMMA RowGoesOn ==
    ASSUME NEW t, NEW t1, NEW r, NEW r1, NEW k, NEW k1, NEW f, NEW c \in TwoCalls,
           \A d \in TwoCalls : At(k1, d, f) => d = c,
           At(k1, c, f), FarAs(t1, r1, k1[c], f)
    PROVE  RowFits(t1, r1, k1, f)
BY DEF RowFits

\* Before there is a tag.
LEMMA RowsInitially ==
    ASSUME TagRows!TagBounds, TagRows!Init
    PROVE  TagRows!RowsInv
<1>1. TagRows!TagInv
  BY TagsInitially
<1>2. ASSUME NEW f \in v1 \ v8 PROVE RowFits(v2, v4, v5, f)
  <2>1. f \in Folder /\ v4[f].url = NoTag /\ \A c \in TwoCalls : v5[c].pc = "idle"
    BY <1>2 DEF TagRows!Init, TagRows!Empty, TagRows!NoBind
  <2> QED BY <2>1 DEF RowFits, At
<1> QED BY <1>1, <1>2, RowsNow DEF TagRows!RowsInv

\* Every step of the rows, the server and a scan keeps it.
LEMMA RowsKept ==
    ASSUME TagRows!TagBounds, TagRows!RowsInv, TagRows!Next
    PROVE  TagRows!RowsInv'
<1>0. /\ TagRows!TypeOK /\ MaxTags \in Nat /\ NoTag \notin TagRows!Tag /\ TagRows!TagInv
  BY DEF TagRows!RowsInv, TagRows!TagInv, TagRows!TagBounds
<1>1. TagRows!TagInv'
  BY <1>0, TagsKept
<1>a. \A c \in TwoCalls : v5[c] \in TagBind /\ (v5[c].pc # "idle" => v5[c].folder \in Folder)
  BY <1>0 DEF TagRows!TypeOK, TagBind
<1>b. v4 \in [Folder -> TagRow] /\ v1 \subseteq Folder /\ v2 \subseteq TagRows!Tag \X v1
  BY <1>0 DEF TagRows!TypeOK, TagRow
<1>c. \A f \in v1 \ v8 : RowFits(v2, v4, v5, f)
  BY RowsNow DEF TagRows!RowsInv
<1> SUFFICES ASSUME NEW f \in v1' \ v8' PROVE RowFits(v2', v4', v5', f)
  BY <1>1, RowsNext DEF TagRows!RowsInv
<1> DEFINE Goal == RowFits(v2', v4', v5', f)
<1> HIDE DEF Goal
<1>2. ASSUME NEW c \in TwoCalls, NEW g \in Folder, TagRows!bindTag(c, g)
      PROVE  Goal
  <2> DEFINE b == [pc |-> "delete", folder |-> g, tag |-> NoTag, shown |-> TRUE]
  <2>1. /\ UNCHANGED <<v1, v2, v4>> /\ v5' = [v5 EXCEPT ![c] = b] /\ v5[c].pc = "idle"
        /\ v8' = IF TagRows!UnderWay(g) = {} THEN v8 \ {g} ELSE v8 \union {g}
    BY <1>2 DEF TagRows!bindTag
  <2>2. b \in TagBind /\ (b.pc # "idle" => b.folder \in Folder)
    BY DEF TagBind
  <2>3. b.pc = "delete" /\ b.folder = g /\ b.shown = TRUE
    OBVIOUS
  <2> HIDE DEF b
  <2>4. \A d \in TwoCalls : v5'[d] = IF d = c THEN b ELSE v5[d]
    BY <1>0, <2>1, <2>2, BindSet
  <2>5. CASE f = g
    <3>1. \A d \in TwoCalls : ~ At(v5, d, f)
      BY <2>1, <2>5 DEF TagRows!UnderWay, At
    <3>2. \A d \in TwoCalls : At(v5', d, f) => d = c
      BY ONLY <2>4, <3>1 DEF At
    <3>3. At(v5', c, f) /\ v5'[c] = b
      BY ONLY <2>3, <2>4, <2>5, c \in TwoCalls DEF At
    <3>4. FarAs(v2', v4', v5'[c], f)
      BY ONLY <2>3, <3>3 DEF FarAs
    <3> QED BY ONLY <3>2, <3>3, <3>4, c \in TwoCalls, RowGoesOn DEF Goal
  <2>6. CASE f # g
    <3>1. f \in v1 \ v8
      BY <2>1, <2>6
    <3>2. \A d \in TwoCalls : (At(v5', d, f) <=> At(v5, d, f)) /\ (At(v5, d, f) => v5'[d] = v5[d])
      BY ONLY <2>1, <2>3, <2>4, <2>6 DEF At
    <3>3. RowFits(v2, v4, v5, f) /\ Of(v2', f) = Of(v2, f) /\ v4'[f] = v4[f]
      BY <1>c, <2>1, <3>1
    <3> QED BY ONLY <3>2, <3>3, RowElsewhere DEF Goal
  <2> QED BY ONLY <2>5, <2>6
<1>3. ASSUME NEW c \in TwoCalls, TagRows!DeleteMappeTagForFolder(c)
      PROVE  Goal
  <2> DEFINE b == [pc |-> "insert", folder |-> v5[c].folder, tag |-> v5[c].tag, shown |-> v5[c].shown]
  <2>1. /\ UNCHANGED <<v1, v4, v8>> /\ v5[c].pc = "delete"
        /\ v2' = {t \in v2 : t[2] # v5[c].folder} /\ v5' = [v5 EXCEPT ![c] = b]
    BY <1>0, <1>3, BindStep DEF TagRows!DeleteMappeTagForFolder
  <2>2. b \in TagBind /\ (b.pc # "idle" => b.folder \in Folder)
    BY <1>a, <2>1 DEF TagBind
  <2>3. b.pc = "insert" /\ b.folder = v5[c].folder /\ b.shown = v5[c].shown
    OBVIOUS
  <2> HIDE DEF b
  <2>4. \A d \in TwoCalls : v5'[d] = IF d = c THEN b ELSE v5[d]
    BY <1>0, <2>1, <2>2, BindSet
  <2>5. RowFits(v2, v4, v5, f)
    BY <1>c, <2>1
  <2>6. CASE f = v5[c].folder
    <3>1. At(v5, c, f) /\ FarAs(v2, v4, v5[c], f) /\ \A d \in TwoCalls : At(v5, d, f) => d = c
      BY <2>1, <2>5, <2>6 DEF RowFits, At
    <3>2. At(v5', c, f) /\ v5'[c] = b /\ \A d \in TwoCalls : At(v5', d, f) => d = c
      BY ONLY <2>3, <2>4, <2>6, <3>1, c \in TwoCalls DEF At
    <3>3. FarAs(v2', v4', v5'[c], f)
      BY ONLY <2>1, <2>3, <3>1, <3>2 DEF FarAs
    <3> QED BY ONLY <3>2, <3>3, c \in TwoCalls, RowGoesOn DEF Goal
  <2>7. CASE f # v5[c].folder
    <3>1. \A d \in TwoCalls : (At(v5', d, f) <=> At(v5, d, f)) /\ (At(v5, d, f) => v5'[d] = v5[d])
      BY ONLY <2>3, <2>4, <2>7 DEF At
    <3>2. Of(v2', f) = Of(v2, f) /\ v4'[f] = v4[f]
      BY <2>1, <2>7 DEF Of
    <3> QED BY ONLY <2>5, <3>1, <3>2, RowElsewhere DEF Goal
  <2> QED BY ONLY <2>6, <2>7
<1>4. ASSUME NEW c \in TwoCalls, TagRows!CreateMappeTag(c)
      PROVE  Goal
  <2> DEFINE t0 == v3 + 1
             b == [pc |-> "answer", folder |-> v5[c].folder, tag |-> t0, shown |-> v5[c].shown]
  <2>1. /\ UNCHANGED <<v1, v4, v8>> /\ v5[c].pc = "insert" /\ v3 < MaxTags /\ v3' = t0
        /\ v2' = v2 \union {<<t0, v5[c].folder>>} /\ \A t \in v2 : t[2] # v5[c].folder
        /\ v5' = [v5 EXCEPT ![c].pc = "answer", ![c].tag = t0]
    BY <1>4 DEF TagRows!CreateMappeTag, TagRows!Unique
  <2>2. t0 \in TagRows!Tag
    BY <1>0, <2>1 DEF TagRows!Tag, TagRows!TypeOK
  <2>3. v5' = [v5 EXCEPT ![c] = b]
    BY <1>0, <2>1, BindMade
  <2>4. b \in TagBind /\ (b.pc # "idle" => b.folder \in Folder)
    BY <1>a, <2>1, <2>2 DEF TagBind
  <2>5. b.pc = "answer" /\ b.folder = v5[c].folder /\ b.shown = v5[c].shown /\ b.tag = t0
    OBVIOUS
  <2> HIDE DEF b, t0
  <2>6. \A d \in TwoCalls : v5'[d] = IF d = c THEN b ELSE v5[d]
    BY <1>0, <2>3, <2>4, BindSet
  <2>7. RowFits(v2, v4, v5, f)
    BY <1>c, <2>1
  <2>8. CASE f = v5[c].folder
    <3>1. At(v5, c, f) /\ FarAs(v2, v4, v5[c], f) /\ \A d \in TwoCalls : At(v5, d, f) => d = c
      BY <2>1, <2>7, <2>8 DEF RowFits, At
    <3>2. At(v5', c, f) /\ v5'[c] = b /\ \A d \in TwoCalls : At(v5', d, f) => d = c
      BY ONLY <2>5, <2>6, <2>8, <3>1, c \in TwoCalls DEF At
    <3>3. Of(v2', f) = {<<t0, f>>}
      BY <2>1, <2>8 DEF Of
    <3>4. FarAs(v2', v4', v5'[c], f)
      BY ONLY <2>1, <2>2, <2>5, <3>1, <3>2, <3>3 DEF FarAs
    <3> QED BY ONLY <3>2, <3>4, c \in TwoCalls, RowGoesOn DEF Goal
  <2>9. CASE f # v5[c].folder
    <3>1. \A d \in TwoCalls : (At(v5', d, f) <=> At(v5, d, f)) /\ (At(v5, d, f) => v5'[d] = v5[d])
      BY ONLY <2>5, <2>6, <2>9 DEF At
    <3>2. Of(v2', f) = Of(v2, f) /\ v4'[f] = v4[f]
      BY <2>1, <2>9 DEF Of
    <3> QED BY ONLY <2>7, <3>1, <3>2, RowElsewhere DEF Goal
  <2> QED BY ONLY <2>8, <2>9
<1>5. ASSUME NEW c \in TwoCalls, TagRows!BindFails(c)
      PROVE  Goal
  <2> DEFINE b == [pc |-> "idle", folder |-> NoTag, tag |-> NoTag, shown |-> FALSE]
  <2>1. /\ UNCHANGED <<v1, v2, v4>> /\ v8' = v8 \union {v5[c].folder} /\ v5' = [v5 EXCEPT ![c] = b]
    BY <1>5 DEF TagRows!BindFails, TagRows!NoBind
  <2>2. b \in TagBind /\ b.pc = "idle"
    BY DEF TagBind
  <2> HIDE DEF b
  <2>3. \A d \in TwoCalls : v5'[d] = IF d = c THEN b ELSE v5[d]
    BY <1>0, <2>1, <2>2, BindSet
  <2>4. f \in v1 \ v8 /\ f # v5[c].folder
    BY <2>1
  <2>5. \A d \in TwoCalls : (At(v5', d, f) <=> At(v5, d, f)) /\ (At(v5, d, f) => v5'[d] = v5[d])
    BY ONLY <2>2, <2>3, <2>4 DEF At
  <2>6. RowFits(v2, v4, v5, f) /\ Of(v2', f) = Of(v2, f) /\ v4'[f] = v4[f]
    BY <1>c, <2>1, <2>4
  <2> QED BY ONLY <2>5, <2>6, RowElsewhere DEF Goal
<1>6. ASSUME NEW c \in TwoCalls, TagRows!BindAnswered(c)
      PROVE  Goal
  <2> DEFINE b == [pc |-> "render", folder |-> v5[c].folder, tag |-> v5[c].tag, shown |-> v5[c].shown]
  <2>1. /\ UNCHANGED <<v1, v2, v8>> /\ v5[c].pc = "answer"
        /\ v4' = IF v5[c].shown THEN [v4 EXCEPT ![v5[c].folder].url = v5[c].tag] ELSE v4
        /\ v5' = [v5 EXCEPT ![c] = b]
    BY <1>0, <1>6, BindStep DEF TagRows!BindAnswered
  <2>2. b \in TagBind /\ (b.pc # "idle" => b.folder \in Folder)
    BY <1>a, <2>1 DEF TagBind
  <2>3. b.pc = "render" /\ b.folder = v5[c].folder /\ b.shown = v5[c].shown /\ b.tag = v5[c].tag
    OBVIOUS
  <2> HIDE DEF b
  <2>4. \A d \in TwoCalls : v5'[d] = IF d = c THEN b ELSE v5[d]
    BY <1>0, <2>1, <2>2, BindSet
  <2>5. RowFits(v2, v4, v5, f) /\ f \in Folder
    BY <1>b, <1>c, <2>1
  <2>6. CASE f = v5[c].folder
    <3>1. At(v5, c, f) /\ FarAs(v2, v4, v5[c], f) /\ \A d \in TwoCalls : At(v5, d, f) => d = c
      BY <2>1, <2>5, <2>6 DEF RowFits, At
    <3>2. At(v5', c, f) /\ v5'[c] = b /\ \A d \in TwoCalls : At(v5', d, f) => d = c
      BY ONLY <2>3, <2>4, <2>6, <3>1, c \in TwoCalls DEF At
    <3>3. v4[f] \in TagRow
      BY <1>b, <2>5
    <3>4. v4'[f].url = IF v5[c].shown THEN v5[c].tag ELSE v4[f].url
      <4>1. [v4[f] EXCEPT !.url = v5[c].tag].url = v5[c].tag
        BY <3>3 DEF TagRow
      <4> QED BY <1>b, <2>1, <2>5, <2>6, <4>1
    <3>5. FarAs(v2', v4', v5'[c], f)
      BY ONLY <2>1, <2>3, <3>1, <3>2, <3>4 DEF FarAs
    <3> QED BY ONLY <3>2, <3>5, c \in TwoCalls, RowGoesOn DEF Goal
  <2>7. CASE f # v5[c].folder
    <3>1. \A d \in TwoCalls : (At(v5', d, f) <=> At(v5, d, f)) /\ (At(v5, d, f) => v5'[d] = v5[d])
      BY ONLY <2>3, <2>4, <2>7 DEF At
    <3>2. Of(v2', f) = Of(v2, f) /\ v4'[f] = v4[f]
      BY <1>b, <2>1, <2>5, <2>7
    <3> QED BY ONLY <2>5, <3>1, <3>2, RowElsewhere DEF Goal
  <2> QED BY ONLY <2>6, <2>7
<1>7. ASSUME NEW c \in TwoCalls, TagRows!renderQrDataUrl(c)
      PROVE  Goal
  <2> DEFINE b == [pc |-> "idle", folder |-> NoTag, tag |-> NoTag, shown |-> FALSE]
  <2>1. /\ UNCHANGED <<v1, v2, v8>> /\ v5[c].pc = "render"
        /\ v4' = IF v5[c].shown THEN [v4 EXCEPT ![v5[c].folder].qr = v5[c].tag] ELSE v4
        /\ v5' = [v5 EXCEPT ![c] = b]
    BY <1>7 DEF TagRows!renderQrDataUrl, TagRows!NoBind
  <2>2. b \in TagBind /\ b.pc = "idle"
    BY DEF TagBind
  <2> HIDE DEF b
  <2>3. \A d \in TwoCalls : v5'[d] = IF d = c THEN b ELSE v5[d]
    BY <1>0, <2>1, <2>2, BindSet
  <2>4. RowFits(v2, v4, v5, f) /\ f \in Folder
    BY <1>b, <1>c, <2>1
  <2>5. CASE f = v5[c].folder
    <3>1. At(v5, c, f) /\ FarAs(v2, v4, v5[c], f) /\ \A d \in TwoCalls : At(v5, d, f) => d = c
      BY <2>1, <2>4, <2>5 DEF RowFits, At
    <3>2. \A d \in TwoCalls : ~ At(v5', d, f)
      BY ONLY <2>2, <2>3, <2>5, <3>1 DEF At
    <3>3. v4[f] \in TagRow /\ Of(v2, f) = {<<v5[c].tag, f>>}
      BY <1>b, <2>1, <2>4, <3>1 DEF FarAs
    <3>4. v4'[f].url = v4[f].url /\ (v5[c].shown => v4'[f].qr = v5[c].tag)
      <4>1. [v4[f] EXCEPT !.qr = v5[c].tag].qr = v5[c].tag /\ [v4[f] EXCEPT !.qr = v5[c].tag].url = v4[f].url
        BY <3>3 DEF TagRow
      <4> QED BY <1>b, <2>1, <2>4, <2>5, <4>1
    <3>5. v4'[f].url # NoTag => AtRest(v2', v4', f)
      BY ONLY <2>1, <3>1, <3>3, <3>4 DEF FarAs, AtRest, Of
    <3> QED BY ONLY <3>2, <3>5 DEF RowFits, Goal
  <2>6. CASE f # v5[c].folder
    <3>1. \A d \in TwoCalls : (At(v5', d, f) <=> At(v5, d, f)) /\ (At(v5, d, f) => v5'[d] = v5[d])
      BY ONLY <2>2, <2>3, <2>6 DEF At
    <3>2. Of(v2', f) = Of(v2, f) /\ v4'[f] = v4[f]
      BY <1>b, <2>1, <2>4, <2>6
    <3> QED BY ONLY <2>4, <3>1, <3>2, RowElsewhere DEF Goal
  <2> QED BY ONLY <2>5, <2>6
<1>8. ASSUME TagRows!Leave
      PROVE  Goal
  <2>1. /\ UNCHANGED <<v1, v2, v8>> /\ v4' = [g \in Folder |-> [url |-> NoTag, qr |-> NoTag]]
        /\ v5' = [c \in TwoCalls |-> [v5[c] EXCEPT !.shown = FALSE]]
    BY <1>8 DEF TagRows!Leave, TagRows!Empty
  <2>2. \A d \in TwoCalls : /\ v5'[d].pc = v5[d].pc /\ v5'[d].folder = v5[d].folder
                            /\ v5'[d].tag = v5[d].tag /\ v5'[d].shown = FALSE
    <3>1. ASSUME NEW d \in TwoCalls
          PROVE  v5'[d] = [pc |-> v5[d].pc, folder |-> v5[d].folder, tag |-> v5[d].tag, shown |-> FALSE]
      <4>1. v5[d] \in TagBind
        BY <1>a
      <4>2. [v5[d] EXCEPT !.shown = FALSE]
               = [pc |-> v5[d].pc, folder |-> v5[d].folder, tag |-> v5[d].tag, shown |-> FALSE]
        BY ONLY <4>1, BindGone, Zenon
      <4> QED BY <2>1, <4>2
    <3>2. ASSUME NEW d \in TwoCalls
          PROVE  /\ v5'[d].pc = v5[d].pc /\ v5'[d].folder = v5[d].folder
                 /\ v5'[d].tag = v5[d].tag /\ v5'[d].shown = FALSE
      <4>1. v5'[d] = [pc |-> v5[d].pc, folder |-> v5[d].folder, tag |-> v5[d].tag, shown |-> FALSE]
        BY <3>1
      <4> QED BY ONLY <4>1
    <3> QED BY ONLY <3>2, Zenon
  <2>3. RowFits(v2, v4, v5, f) /\ f \in Folder /\ v4'[f].url = NoTag
    BY <1>b, <1>c, <2>1
  <2>4. \A d \in TwoCalls : At(v5', d, f) <=> At(v5, d, f)
    BY ONLY <2>2 DEF At
  <2>5. ASSUME NEW d \in TwoCalls, At(v5', d, f) PROVE FarAs(v2', v4', v5'[d], f)
    <3>1. FarAs(v2, v4, v5[d], f)
      BY <2>3, <2>4, <2>5 DEF RowFits
    <3>2. v5'[d].pc = v5[d].pc /\ v5'[d].tag = v5[d].tag /\ v5'[d].shown = FALSE
      BY <2>2
    <3> QED BY ONLY <2>1, <2>3, <3>1, <3>2 DEF FarAs
  <2> QED BY ONLY <2>3, <2>4, <2>5 DEF RowFits, Goal
<1>9. ASSUME NEW g \in Folder, TagRows!DeleteFolder(g)
      PROVE  Goal
  <2>1. /\ v1' = v1 \ {g} /\ v2' = {t \in v2 : t[2] # g} /\ UNCHANGED <<v4, v5, v8>>
    BY <1>9 DEF TagRows!DeleteFolder
  <2>2. RowFits(v2, v4, v5, f) /\ Of(v2', f) = Of(v2, f)
    BY <1>c, <2>1 DEF Of
  <2> QED BY <2>1, <2>2, RowElsewhere DEF Goal
<1>10. ASSUME \/ \E g \in Folder : TagRows!printQrCode(g)
              \/ TagRows!Scan \/ TagRows!ResolveTag \/ TagRows!startSweep
       PROVE  Goal
  <2>1. UNCHANGED <<v1, v2, v4, v5, v8>>
    BY <1>10 DEF TagRows!printQrCode, TagRows!Scan, TagRows!ResolveTag, TagRows!startSweep
  <2> QED BY <1>c, <2>1 DEF Goal
<1> QED
  BY <1>2, <1>3, <1>4, <1>5, <1>6, <1>7, <1>8, <1>9, <1>10 DEF TagRows!Next, Goal

\* It speaks of the rows alone.
LEMMA RowsStay ==
    ASSUME TagRows!RowsInv, UNCHANGED <<v1, v2, v3, v4, v5, v6, v7, v8>>
    PROVE  TagRows!RowsInv'
<1>1. TagRows!TagInv'
  <2>1. TagRows!TypeOK'
    BY DEF TagRows!RowsInv, TagRows!TagInv, TagRows!TypeOK
  <2>2. TagRows!OneFolder' /\ TagRows!OnACover'
    BY DEF TagRows!RowsInv, TagRows!TagInv, TagRows!OneFolder, TagRows!OnACover, TagRows!CodeOf
  <2> QED BY <2>1, <2>2 DEF TagRows!TagInv
<1>2. \A f \in v1' \ v8' : RowFits(v2', v4', v5', f)
  <2>1. \A f \in v1 \ v8 : RowFits(v2, v4, v5, f)
    BY RowsNow DEF TagRows!RowsInv
  <2> QED BY <2>1
<1> QED BY <1>1, <1>2, RowsNext DEF TagRows!RowsInv

\* A row at rest shows the one tag bound to its folder.
LEMMA RowsShowTheBound ==
    ASSUME TagRows!RowsInv
    PROVE  TagRows!RowIsBound
BY DEF TagRows!RowsInv, TagRows!RowsFollow, TagRows!RowIsBound

-----------------------------------------------------------------------------
(* The types of entering sheet music: v2 is the authors linked to Wikidata, *)
(* v3 the last note stored, v4 says that the dialog is open, v6 is the work *)
(* picked from Wikidata, v7 the candidates of a conflict, v9 the scan.      *)

\* Whoever there is where so many authors have each name.
Persons(a) == UNION {{n} \X (1..a[n]) : n \in Name}
OrNoTitle == Title \union {NoTitle}
OrNoWork == OneWork \union {NoWork}
Titled(s) == s # NoNote => s.title \in Title /\ s.shown \in OrNoTitle
FormFits(a, f) == f.authorId # NoAuthor => f.authorId \in Persons(a)
Candidates(a, q) == q = NoValues \/ q \subseteq Persons(a)
Choice(d) == d # NoValues => d \in Entry!Form /\ d.name \in Title
Steps == {"idle", "folder", "lookup", "find", "post", "twin", "note", "wikidata", "link", "inline"}
Takes(a, h) ==
    /\ h.pc \in Steps
    /\ h.pc \in {"find", "post", "note", "lookup", "twin"} => h.values.name \in Title
    /\ h.pc \in {"wikidata", "link"} => h.work \in OneWork /\ h.shown \in OrNoTitle
    /\ h.pc = "link" => h.author \in Persons(a)
EntryFits(a, q, s, o, f, w, k, d, x, h) ==
    /\ q \subseteq Persons(a) /\ Titled(s) /\ o \in BOOLEAN /\ FormFits(a, f) /\ w \in OrNoWork
    /\ Candidates(a, k) /\ Choice(d) /\ x \in {"none", "ocr", "ai"}
    /\ \A c \in OneCall : Takes(a, h[c])

\* That is what the types say,
LEMMA EntryTypesNow ==
    Entry!EntryTypesInv <=> Entry!EntryInv /\ EntryFits(v1, v2, v3, v4, v5, v6, v7, v8, v9, v10)
<1>1. Entry!Existing = Persons(v1)
  BY DEF Entry!Existing, Entry!AuthorsNamed, Persons
<1>2. \A c \in OneCall : Takes(v1, v10[c]) <=> Entry!Carries(v10[c]) /\ v10[c].pc \in Steps
  BY <1>1 DEF Entry!Carries, Takes, OrNoTitle
<1>3. Entry!EntryInv => v1 \in [Name -> 0..MaxTwins] /\ v5 \in Entry!Form /\ v11 \in BOOLEAN
  BY DEF Entry!EntryInv, Entry!Entered, Entry!LookedUp
<1>4. ASSUME Entry!EntryTypesInv
      PROVE  Entry!EntryInv /\ EntryFits(v1, v2, v3, v4, v5, v6, v7, v8, v9, v10)
  BY <1>1, <1>2, <1>4 DEF Entry!EntryTypesInv, Entry!TypeOK, EntryFits, Titled, FormFits, Candidates, Choice,
     OrNoTitle, OrNoWork, Steps
<1>5. ASSUME Entry!EntryInv, EntryFits(v1, v2, v3, v4, v5, v6, v7, v8, v9, v10)
      PROVE  Entry!EntryTypesInv
  BY <1>1, <1>2, <1>3, <1>5 DEF Entry!EntryTypesInv, Entry!TypeOK, EntryFits, Titled, FormFits, Candidates, Choice,
     OrNoTitle, OrNoWork, Steps
<1> QED BY <1>4, <1>5

\* also after a step.
LEMMA EntryTypesNext ==
    ASSUME Entry!EntryInv', EntryFits(v1', v2', v3', v4', v5', v6', v7', v8', v9', v10')
    PROVE  Entry!EntryTypesInv'
<1>1. v1' \in [Name -> 0..MaxTwins] /\ v5' \in Entry!Form /\ v11' \in BOOLEAN
  BY DEF Entry!EntryInv, Entry!Entered, Entry!LookedUp
<1>2. UNION {{n} \X (1..v1'[n]) : n \in Name} = Persons(v1')
  BY DEF Persons
<1>3. Entry!TypeOK'
  BY <1>1, <1>2 DEF Entry!TypeOK, EntryFits, Titled, FormFits, Candidates, Choice, OrNoTitle, OrNoWork, Steps,
     Entry!Existing, Entry!AuthorsNamed, Takes
<1>4. \A c \in OneCall :
        /\ v10'[c].pc \in {"find", "post", "note", "lookup", "twin"} => v10'[c].values.name \in Title
        /\ v10'[c].pc \in {"wikidata", "link"} => v10'[c].work \in OneWork /\ v10'[c].shown \in Title \union {NoTitle}
        /\ v10'[c].pc = "link" => v10'[c].author \in Persons(v1')
  BY DEF EntryFits, Takes, OrNoTitle
<1>5. v8' # NoValues => v8'.name \in Title
  BY DEF EntryFits, Choice
<1> QED BY <1>2, <1>3, <1>4, <1>5 DEF Entry!EntryTypesInv, Entry!Carries, Entry!Existing, Entry!AuthorsNamed

\* One more of a name.
LEMMA OneMorePerson ==
    ASSUME v1 \in [Name -> 0..MaxTwins], MaxTwins \in Nat, NEW n \in Name, Entry!NewAuthor(n)
    PROVE  Persons(v1) \subseteq Persons(v1') /\ Entry!Newest(n) \in Persons(v1')
<1>1. v1' = [v1 EXCEPT ![n] = v1[n] + 1] /\ v1[n] \in Nat
  BY DEF Entry!NewAuthor
<1>2. \A m \in Name : v1'[m] = IF m = n THEN v1[n] + 1 ELSE v1[m]
  BY <1>1
<1>3. \A m \in Name : 1..v1[m] \subseteq 1..v1'[m] /\ (m = n => v1[n] + 1 \in 1..v1'[m])
  BY <1>1, <1>2
<1> QED BY <1>3 DEF Persons, Entry!Newest

\* A handler starts, goes on or ends.
LEMMA EntryTakesStep ==
    ASSUME Entry!EntryInv, EntryFits(v1, v2, v3, v4, v5, v6, v7, v8, v9, v10),
           NEW c \in OneCall, NEW r, v10' = [v10 EXCEPT ![c] = r], Takes(v1', r),
           Persons(v1) \subseteq Persons(v1')
    PROVE  \A d \in OneCall : Takes(v1', v10'[d])
<1>1. v10 = [d \in OneCall |-> v10[d]]
  BY DEF Entry!EntryInv, Entry!Entered
<1>2. \A d \in OneCall : v10'[d] = IF d = c THEN r ELSE v10[d]
  BY <1>1
<1>3. \A d \in OneCall : Takes(v1, v10[d])
  BY DEF EntryFits
<1> QED BY <1>2, <1>3 DEF Takes

\* Every edit of the form,
LEMMA EntryTypesEdited ==
    ASSUME Entry!Constants, Entry!EntryTypesInv, Entry!Edit
    PROVE  Entry!EntryTypesInv'
<1> USE DEF Entry!Fill, Entry!server
<1> DEFINE Goal == EntryFits(v1', v2', v3', v4', v5', v6', v7', v8', v9', v10')
<1>0. Entry!EntryInv /\ EntryFits(v1, v2, v3, v4, v5, v6, v7, v8, v9, v10)
  BY EntryTypesNow
<1>a. Entry!EntryInv'
  BY <1>0, EntryEdits
<1> SUFFICES Goal
  BY <1>a, EntryTypesNext
<1>f. v5 \in Entry!Form
  BY <1>0 DEF Entry!EntryInv, Entry!Entered
<1>x. Entry!Existing = Persons(v1)
  BY DEF Entry!Existing, Entry!AuthorsNamed, Persons
<1>b. ASSUME UNCHANGED <<v1, v2, v3, v10>>, v4' \in BOOLEAN, FormFits(v1, v5'), v6' \in OrNoWork,
             v7' = v7 \/ v7' = NoValues, v8' = v8 \/ v8' = NoValues, v9' \in {"none", "ocr", "ai"}
      PROVE  Goal
  BY <1>0, <1>b DEF EntryFits, Candidates, Choice
<1>c. v4 \in BOOLEAN /\ FormFits(v1, v5) /\ v6 \in OrNoWork /\ v9 \in {"none", "ocr", "ai"}
  BY <1>0 DEF EntryFits
<1>d. Entry!FOLDER_DEFAULTS.authorId = NoAuthor /\ [Entry!FOLDER_DEFAULTS EXCEPT !.type = "note"].authorId = NoAuthor
  BY DEF Entry!FOLDER_DEFAULTS
<1>n. NoWork \in OrNoWork
  BY DEF OrNoWork
<1>1. CASE Entry!OpenDialog \/ Entry!triggerCameraScan \/ Entry!handleDisambigCancel \/ Entry!handleConflictCancel
  BY <1>1, <1>b, <1>c, <1>n DEF Entry!OpenDialog, Entry!triggerCameraScan, Entry!handleDisambigCancel,
     Entry!handleConflictCancel, Entry!Scans
<1>2. CASE Entry!CloseDialog \/ Entry!triggerAIScan
  <2>1. FormFits(v1, v5')
    BY <1>2, <1>d DEF Entry!CloseDialog, Entry!closeAndResetForm, Entry!triggerAIScan, FormFits
  <2> QED BY <1>2, <1>b, <1>c, <1>n, <2>1 DEF Entry!CloseDialog, Entry!closeAndResetForm, Entry!triggerAIScan, Entry!Scans
<1>3. CASE Entry!SetType
  <2>1. \E type \in {"folder", "note"} : v5' = [v5 EXCEPT !.type = type]
    BY <1>3 DEF Entry!SetType
  <2>2. v5'.authorId = v5.authorId
    BY ONLY <1>f, <2>1 DEF Entry!Form
  <2> QED BY <1>3, <1>b, <1>c, <2>2 DEF Entry!SetType, FormFits
<1>4. ASSUME NEW t \in Title, Entry!TypeName(t) PROVE Goal
  <2>1. v5' = [v5 EXCEPT !.name = t]
    BY <1>4 DEF Entry!TypeName
  <2>2. v5'.authorId = v5.authorId
    BY ONLY <1>f, <2>1 DEF Entry!Form
  <2> QED BY <1>4, <1>b, <1>c, <1>n, <2>2 DEF Entry!TypeName, FormFits
<1>5. ASSUME NEW t \in Title, Entry!onPickLocal(t) PROVE Goal
  <2>1. \/ \E a \in Persons(v1) : v5' = [v5 EXCEPT !.name = t, !.authorId = a, !.authorName = a[1]]
        \/ v5' = [v5 EXCEPT !.name = t]
    BY <1>5, <1>x DEF Entry!onPickLocal
  <2>2. v5'.authorId = v5.authorId \/ v5'.authorId \in Persons(v1)
    BY ONLY <1>f, <2>1 DEF Entry!Form
  <2> QED BY <1>5, <1>b, <1>c, <2>2 DEF Entry!onPickLocal, FormFits
<1>6. ASSUME NEW w \in OneWork, Entry!handleWikidataPick(w) PROVE Goal
  <2>1. v5' = [v5 EXCEPT !.name = w.title, !.authorName = w.composer]
    BY <1>6 DEF Entry!handleWikidataPick
  <2>2. v5'.authorId = v5.authorId
    BY ONLY <1>f, <2>1 DEF Entry!Form
  <2>3. w \in OrNoWork
    BY DEF OrNoWork
  <2> QED BY <1>6, <1>b, <1>c, <2>2, <2>3 DEF Entry!handleWikidataPick, FormFits
<1>7. ASSUME NEW n \in Name \union {NoName}, Entry!TypeAuthor(n) PROVE Goal
  <2>1. \/ v5' = [v5 EXCEPT !.authorName = n, !.authorId = NoAuthor]
        \/ v5' = [v5 EXCEPT !.arrangerName = n, !.arrangerPicked = FALSE]
    BY <1>7 DEF Entry!TypeAuthor
  <2>2. v5'.authorId = v5.authorId \/ v5'.authorId = NoAuthor
    BY ONLY <1>f, <2>1 DEF Entry!Form
  <2> QED BY <1>7, <1>b, <1>c, <2>2 DEF Entry!TypeAuthor, FormFits
<1>8. ASSUME NEW a \in Entry!Existing, Entry!PickAuthor(a) PROVE Goal
  <2>1. \/ v5' = [v5 EXCEPT !.authorName = a[1], !.authorId = a]
        \/ v5' = [v5 EXCEPT !.arrangerName = a[1], !.arrangerPicked = TRUE]
    BY <1>8 DEF Entry!PickAuthor
  <2>2. v5'.authorId = v5.authorId \/ v5'.authorId = a
    BY ONLY <1>f, <2>1 DEF Entry!Form
  <2> QED BY <1>8, <1>x, <1>b, <1>c, <2>2 DEF Entry!PickAuthor, FormFits
<1>9. CASE Entry!handleCameraFileChange \/ Entry!handleAIScanFileChange
  <2>1. \E t, n, arr : v5' = Entry!Found(t, n, arr)
    BY <1>9 DEF Entry!handleCameraFileChange, Entry!handleAIScanFileChange
  <2>2. v5'.authorId = v5.authorId \/ v5'.authorId = NoAuthor
    BY ONLY <1>f, <2>1 DEF Entry!Form, Entry!Found
  <2> QED BY <1>9, <1>b, <1>c, <2>2 DEF Entry!handleCameraFileChange, Entry!handleAIScanFileChange, FormFits
<1> QED BY <1>1, <1>2, <1>3, <1>4, <1>5, <1>6, <1>7, <1>8, <1>9 DEF Entry!Edit

\* What holds still holds where there are more.
LEMMA EntryFitsOn ==
    ASSUME EntryFits(v1, v2, v3, v4, v5, v6, v7, v8, v9, v10), Persons(v1) \subseteq Persons(v1')
    PROVE  /\ v2 \subseteq Persons(v1') /\ Titled(v3) /\ v4 \in BOOLEAN /\ FormFits(v1', v5)
           /\ v6 \in OrNoWork /\ Candidates(v1', v7) /\ Choice(v8) /\ v9 \in {"none", "ocr", "ai"}
           /\ Candidates(v1', NoValues) /\ Choice(NoValues)
           /\ FormFits(v1', Entry!FOLDER_DEFAULTS) /\ NoWork \in OrNoWork
           /\ \A c \in OneCall : Takes(v1', v10[c])
BY DEF EntryFits, FormFits, Candidates, Choice, Takes, OrNoWork, Entry!FOLDER_DEFAULTS

\* A handler starts, goes on or ends, with what it leaves behind.
LEMMA EntryTypesTake ==
    ASSUME Entry!EntryTypesInv, Entry!EntryInv', NEW c \in OneCall, NEW r, v10' = [v10 EXCEPT ![c] = r],
           Takes(v1', r), Persons(v1) \subseteq Persons(v1'),
           v2' \subseteq Persons(v1'), Titled(v3'), v4' \in BOOLEAN, FormFits(v1', v5'),
           v6' \in OrNoWork, Candidates(v1', v7'), Choice(v8'), v9' = v9
    PROVE  Entry!EntryTypesInv'
<1>1. Entry!EntryInv /\ EntryFits(v1, v2, v3, v4, v5, v6, v7, v8, v9, v10)
  BY EntryTypesNow
<1>2. \A d \in OneCall : Takes(v1', v10'[d])
  BY <1>1, EntryTakesStep
<1>3. v9' \in {"none", "ocr", "ai"}
  BY <1>1, EntryFitsOn
<1>4. EntryFits(v1', v2', v3', v4', v5', v6', v7', v8', v9', v10')
  BY ONLY <1>2, <1>3, v2' \subseteq Persons(v1'), Titled(v3'), v4' \in BOOLEAN, FormFits(v1', v5'),
          v6' \in OrNoWork, Candidates(v1', v7'), Choice(v8') DEF EntryFits
<1> QED BY <1>4, EntryTypesNext

\* Every step of a handler keeps the types.
LEMMA EntryTypesHandled ==
    ASSUME Entry!Constants, Entry!EntryTypesInv, NEW c \in OneCall, Entry!Handle(c)
    PROVE  Entry!EntryTypesInv'
<1> USE DEF Entry!server, Entry!dialog
<1>0. Entry!EntryInv /\ EntryFits(v1, v2, v3, v4, v5, v6, v7, v8, v9, v10)
  BY EntryTypesNow
<1>a. Entry!EntryInv'
  BY <1>0, EntryHandles
<1>v. /\ v1 \in [Name -> 0..MaxTwins] /\ MaxTwins \in Nat /\ v5 \in Entry!Form
      /\ v8 # NoValues => Entry!Named(v8)
      /\ Entry!Informed(v10[c])
  BY <1>0 DEF Entry!EntryInv, Entry!Entered, Entry!Constants
<1>c. Takes(v1, v10[c])
  BY <1>0 DEF EntryFits
<1>x. Entry!Existing = Persons(v1) /\ \A n \in Name : Entry!AuthorsNamed(n) \subseteq Persons(v1)
  BY DEF Entry!Existing, Entry!AuthorsNamed, Persons
<1>g. ASSUME Persons(v1) \subseteq Persons(v1')
      PROVE  /\ v2 \subseteq Persons(v1') /\ Titled(v3) /\ v4 \in BOOLEAN /\ FormFits(v1', v5)
             /\ v6 \in OrNoWork /\ Candidates(v1', v7) /\ Choice(v8)
             /\ Candidates(v1', NoValues) /\ Choice(NoValues)
             /\ FormFits(v1', Entry!FOLDER_DEFAULTS) /\ NoWork \in OrNoWork /\ Takes(v1', v10[c])
  BY <1>0, <1>g, EntryFitsOn
<1>s. ASSUME v1' = v1
      PROVE  Persons(v1) \subseteq Persons(v1') /\ Persons(v1') = Persons(v1)
  BY <1>s
<1>i. \A a : Takes(a, Entry!Idle)
  BY DEF Takes, Entry!Idle, Steps
<1>r. ASSUME NEW pc \in {"find", "post", "note"}, NEW a, NEW values, values.name \in Title
      PROVE  \A p : Takes(p, Entry!Resolving(pc, a, values))
  BY <1>r DEF Entry!Resolving, Takes, Steps
<1>1. CASE Entry!onSubmit(c)
  <2>1. /\ v5.name # NoTitle /\ UNCHANGED <<v1, v2, v3, v4, v5, v6, v7, v8, v9>>
        /\ \E r : /\ v10' = [v10 EXCEPT ![c] = r]
                  /\ \/ r = [pc |-> "folder"]
                     \/ v6 # NoWork /\ r = [pc |-> "wikidata", work |-> v6, force |-> FALSE, shown |-> v5.name]
                     \/ r = Entry!Resolving("find", v5.authorId, v5)
                     \/ r = [pc |-> "lookup", values |-> v5]
    BY <1>1 DEF Entry!onSubmit, Entry!Calls
  <2>2. v5.name \in Title
    BY ONLY <1>v, <2>1 DEF Entry!Form
  <2>3. PICK r : /\ v10' = [v10 EXCEPT ![c] = r]
                 /\ \/ r = [pc |-> "folder"]
                    \/ v6 # NoWork /\ r = [pc |-> "wikidata", work |-> v6, force |-> FALSE, shown |-> v5.name]
                    \/ r = Entry!Resolving("find", v5.authorId, v5)
                    \/ r = [pc |-> "lookup", values |-> v5]
    BY ONLY <2>1
  <2>4. Takes(v1', r)
    BY <1>0, <2>2, <2>3 DEF EntryFits, OrNoWork, OrNoTitle, Takes, Steps, Entry!Resolving
  <2> QED BY <1>a, <1>g, <1>s, <2>1, <2>3, <2>4, EntryTypesTake
<1>2. CASE Entry!FolderCreated(c) \/ Entry!NoteCreated(c)
  <2>1. /\ UNCHANGED <<v1, v2, v7, v8, v9>> /\ v10' = [v10 EXCEPT ![c] = Entry!Idle]
        /\ v4' \in BOOLEAN /\ v6' = NoWork /\ (v5' = v5 \/ v5' = Entry!FOLDER_DEFAULTS)
    BY <1>2, <1>g, <1>s DEF Entry!FolderCreated, Entry!NoteCreated, Entry!Ends, Entry!Goes,
       Entry!handlePostSubmit, Entry!closeAndResetForm
  <2>2. Titled(v3')
    <3>1. CASE v3' = v3
      BY <1>g, <1>s, <2>1, <3>1
    <3>2. CASE Entry!NoteCreated(c)
      <4>1. v10[c].values.name \in Title
        BY <1>c, <3>2 DEF Takes, Entry!NoteCreated
      <4>2. v3' = [title |-> v10[c].values.name, shown |-> v10[c].values.name]
        BY <3>2 DEF Entry!NoteCreated
      <4> QED BY <4>1, <4>2 DEF Titled, OrNoTitle
    <3> QED BY <1>2, <3>1, <3>2 DEF Entry!FolderCreated
  <2> QED BY <1>a, <1>g, <1>s, <1>i, <2>1, <2>2, EntryTypesTake
<1>3. CASE Entry!findAllAuthorsByExactName(c)
  <2>1. /\ UNCHANGED <<v1, v2, v3, v4, v5, v6, v7, v9>> /\ v10[c].values.name \in Title
        /\ Entry!Named(v10[c].values)
    BY <1>3, <1>c, <1>v DEF Entry!findAllAuthorsByExactName, Takes, Entry!Informed
  <2>2. CASE v8' = v10[c].values /\ v10' = [v10 EXCEPT ![c] = Entry!Idle]
    <3>1. Choice(v8')
      BY <2>1, <2>2 DEF Choice, Entry!Named
    <3> QED BY <1>a, <1>g, <1>s, <1>i, <2>1, <2>2, <3>1, EntryTypesTake
  <2>3. CASE v8' = v8 /\ \E a : v10' = [v10 EXCEPT ![c] = Entry!Resolving("find", a, v10[c].values)]
    <3>1. PICK a : v10' = [v10 EXCEPT ![c] = Entry!Resolving("find", a, v10[c].values)]
      BY <2>3
    <3> QED BY <1>a, <1>g, <1>s, <1>r, <2>1, <2>3, <3>1, EntryTypesTake
  <2> QED BY <1>3, <2>2, <2>3 DEF Entry!findAllAuthorsByExactName, Entry!Ends, Entry!Goes
<1>4. CASE Entry!findAuthorByName(c) \/ Entry!findOrCreateAuthorId(c)
  <2>1. v10[c].values.name \in Title /\ UNCHANGED <<v2, v3, v4, v5, v6, v7, v8, v9>>
    BY <1>4, <1>c DEF Entry!findAuthorByName, Entry!findOrCreateAuthorId, Takes
  <2>2. PICK pc \in {"find", "post", "note"} :
           \E a : v10' = [v10 EXCEPT ![c] = Entry!Resolving(pc, a, v10[c].values)]
    BY <1>4 DEF Entry!findAuthorByName, Entry!findOrCreateAuthorId, Entry!Goes, Entry!Known, Entry!Goto
  <2>3. PICK a : v10' = [v10 EXCEPT ![c] = Entry!Resolving(pc, a, v10[c].values)]
    BY <2>2
  <2>4. Persons(v1) \subseteq Persons(v1')
    <3>1. CASE Entry!findAuthorByName(c)
      BY <3>1 DEF Entry!findAuthorByName
    <3>2. CASE Entry!findOrCreateAuthorId(c)
      <4>1. Entry!NewAuthor(Entry!Sought(c)) /\ Entry!Sought(c) \in Name \union {NoName}
        BY <1>v, <3>2 DEF Entry!findOrCreateAuthorId, Entry!Sought, Entry!Informed, Entry!Named, Entry!Form
      <4>2. v10[c].pc = "post"
        BY <3>2 DEF Entry!findOrCreateAuthorId
      <4>3. ASSUME Entry!Sought(c) \notin Name PROVE v1' = v1
        <5>1. v1' = [v1 EXCEPT ![Entry!Sought(c)] = v1[Entry!Sought(c)] + 1]
          BY <4>1 DEF Entry!NewAuthor
        <5> QED BY ONLY <1>v, <4>3, <5>1
      <4> QED BY <1>v, <4>1, <4>3, OneMorePerson
    <3> QED BY <1>4, <3>1, <3>2
  <2> QED BY <1>a, <1>g, <1>r, <2>1, <2>3, <2>4, EntryTypesTake
<1>5. CASE Entry!CallFails(c)
  <2>1. UNCHANGED <<v1, v2, v3, v4, v5, v6, v7, v8, v9>> /\ v10' = [v10 EXCEPT ![c] = Entry!Idle]
    BY <1>5 DEF Entry!CallFails, Entry!Ends, Entry!Goes
  <2> QED BY <1>a, <1>g, <1>s, <1>i, <2>1, EntryTypesTake
<1>6. CASE Entry!handleDisambigPickExisting(c) \/ Entry!handleDisambigCreateNew(c)
  <2>1. UNCHANGED <<v1, v2, v3, v4, v5, v6, v7, v9>> /\ v8 # NoValues /\ v8' = NoValues
    BY <1>6 DEF Entry!handleDisambigPickExisting, Entry!handleDisambigCreateNew
  <2>2. PICK r : /\ v10' = [v10 EXCEPT ![c] = r]
                 /\ (\E a : r = Entry!Resolving("find", a, v8)) \/ r = [pc |-> "twin", values |-> v8]
    BY <1>6 DEF Entry!handleDisambigPickExisting, Entry!handleDisambigCreateNew, Entry!Calls
  <2>3. v8.name \in Title
    BY <1>0, <2>1 DEF EntryFits, Choice
  <2>4. Takes(v1', r)
    BY <1>r, <2>2, <2>3 DEF Takes, Steps
  <2> QED BY <1>a, <1>g, <1>s, <2>1, <2>2, <2>4, EntryTypesTake
<1>7. CASE Entry!TwinCreated(c)
  <2>1. /\ v10[c].pc = "twin" /\ v10[c].values.name \in Title /\ UNCHANGED <<v2, v3, v4, v5, v6, v7, v8, v9>>
        /\ Entry!NewAuthor(v10[c].values.authorName) /\ v10[c].values.authorName \in Name
    BY <1>7, <1>c, <1>v DEF Entry!TwinCreated, Takes, Entry!Informed, Entry!Named, Entry!Form
  <2>2. PICK a : v10' = [v10 EXCEPT ![c] = Entry!Resolving("find", a, v10[c].values)]
    BY <1>7 DEF Entry!TwinCreated, Entry!Goes
  <2>3. Persons(v1) \subseteq Persons(v1')
    BY <1>v, <2>1, OneMorePerson
  <2> QED BY <1>a, <1>g, <1>r, <2>1, <2>2, <2>3, EntryTypesTake
<1>8. CASE Entry!WorkCreated(c)
  <2> DEFINE w == v10[c].work
             n == w.composer
  <2>1. w \in OneWork /\ v10[c].shown \in OrNoTitle
    BY <1>8, <1>c DEF Entry!WorkCreated, Takes
  <2>2. w.title \in Title /\ n \in Name
    BY <2>1 DEF Entry!Constants
  <2>3. PICK a \in (IF Entry!Linked(n) # {} THEN Entry!Linked(n) ELSE {Entry!Newest(n)}) :
           /\ IF a \in v2 THEN UNCHANGED v1 ELSE Entry!NewAuthor(n)
           /\ v2' = v2 \union {a}
           /\ v3' = [title |-> w.title, shown |-> v10[c].shown]
    BY <1>8 DEF Entry!WorkCreated
  <2>4. /\ v7' = NoValues /\ UNCHANGED <<v8, v9>> /\ v10' = [v10 EXCEPT ![c] = Entry!Idle]
        /\ v4' \in BOOLEAN /\ v6' = NoWork /\ (v5' = v5 \/ v5' = Entry!FOLDER_DEFAULTS)
    BY <1>8, <1>0 DEF Entry!WorkCreated, Entry!Ends, Entry!Goes, Entry!handlePostSubmit,
       Entry!closeAndResetForm, EntryFits
  <2>5. Titled(v3')
    BY <2>1, <2>2, <2>3 DEF Titled
  <2> HIDE DEF w, n
  <2>6. Persons(v1) \subseteq Persons(v1') /\ a \in Persons(v1')
    <3>1. CASE a \in v2
      BY <1>0, <2>3, <3>1 DEF EntryFits
    <3>2. CASE a \notin v2
      <4>1. Entry!NewAuthor(n) /\ a = Entry!Newest(n)
        BY <2>3, <3>2 DEF Entry!Linked
      <4> QED BY <1>v, <2>2, <4>1, OneMorePerson
    <3> QED BY <3>1, <3>2
  <2>7. v2' \subseteq Persons(v1')
    BY <1>g, <2>3, <2>6
  <2> QED BY <1>a, <1>g, <1>i, <2>4, <2>5, <2>6, <2>7, EntryTypesTake
<1>9. CASE Entry!WorkConflicts(c)
  <2>1. /\ UNCHANGED <<v1, v2, v3, v4, v5, v6, v8, v9>> /\ v10' = [v10 EXCEPT ![c] = Entry!Idle]
        /\ v7' = Entry!Colliding(v10[c].work.composer) /\ v10[c].work \in OneWork
    BY <1>9, <1>c DEF Entry!WorkConflicts, Entry!Ends, Entry!Goes, Takes
  <2>2. v10[c].work.composer \in Name
    BY <2>1 DEF Entry!Constants
  <2>3. v7' \subseteq Persons(v1')
    BY <1>x, <2>1, <2>2 DEF Entry!Colliding
  <2>4. Candidates(v1', v7')
    BY <2>3 DEF Candidates
  <2> QED BY <1>a, <1>g, <1>s, <1>i, <2>1, <2>4, EntryTypesTake
<1>10. CASE Entry!AuthorLinked(c)
  <2>1. /\ UNCHANGED <<v1, v3, v4, v5, v6, v8, v9>> /\ v7' = NoValues /\ v2' = v2 \union {v10[c].author}
        /\ v10' = [v10 EXCEPT ![c] = [pc |-> "wikidata", work |-> v10[c].work, force |-> FALSE,
                                      shown |-> v10[c].shown]]
        /\ v10[c].author \in Persons(v1) /\ v10[c].work \in OneWork /\ v10[c].shown \in OrNoTitle
    BY <1>10, <1>c DEF Entry!AuthorLinked, Entry!Goes, Takes
  <2>2. Takes(v1', [pc |-> "wikidata", work |-> v10[c].work, force |-> FALSE, shown |-> v10[c].shown])
    BY <2>1 DEF Takes, Steps
  <2>3. v2' \subseteq Persons(v1')
    BY <1>g, <1>s, <2>1
  <2> QED BY <1>a, <1>g, <1>s, <2>1, <2>2, <2>3, EntryTypesTake
<1>11. CASE \/ \E a \in Entry!Existing : Entry!handleConflictLinkExisting(c, a)
            \/ Entry!handleConflictCreateNew(c)
            \/ \E n \in Name : Entry!handleSubmit(c, n)
  <2>1. /\ UNCHANGED <<v1, v2, v3, v4, v5, v6, v8, v9>> /\ (v7' = v7 \/ v7' = NoValues)
        /\ \E r : /\ v10' = [v10 EXCEPT ![c] = r]
                  /\ \/ v6 # NoWork /\ \E a \in Persons(v1) :
                           r = [pc |-> "link", author |-> a, work |-> v6, shown |-> v5.name]
                     \/ v6 # NoWork /\ r = [pc |-> "wikidata", work |-> v6, force |-> TRUE, shown |-> v5.name]
                     \/ \E n \in Name : r = [pc |-> "inline", name |-> n]
    BY <1>11, <1>x DEF Entry!handleConflictLinkExisting, Entry!handleConflictCreateNew, Entry!handleSubmit,
       Entry!Calls
  <2>2. PICK r : /\ v10' = [v10 EXCEPT ![c] = r]
                 /\ \/ v6 # NoWork /\ \E a \in Persons(v1) :
                          r = [pc |-> "link", author |-> a, work |-> v6, shown |-> v5.name]
                    \/ v6 # NoWork /\ r = [pc |-> "wikidata", work |-> v6, force |-> TRUE, shown |-> v5.name]
                    \/ \E n \in Name : r = [pc |-> "inline", name |-> n]
    BY ONLY <2>1
  <2>3. (v6 # NoWork => v6 \in OneWork) /\ v5.name \in OrNoTitle /\ Persons(v1') = Persons(v1)
    BY <1>0, <1>v, <2>1 DEF EntryFits, OrNoWork, OrNoTitle, Entry!Form
  <2>4. Takes(v1', r)
    BY ONLY <2>2, <2>3 DEF Takes, Steps
  <2> QED BY <1>a, <1>g, <1>s, <2>1, <2>2, <2>4, EntryTypesTake
<1>12. CASE Entry!onCreated(c)
  <2> DEFINE n == v10[c].name
  <2>1. /\ n \in Name /\ Entry!NewAuthor(n) /\ v10' = [v10 EXCEPT ![c] = Entry!Idle]
        /\ UNCHANGED <<v2, v3, v4, v6, v7, v8, v9>>
        /\ v5' = [v5 EXCEPT !.authorId = Entry!Newest(n), !.authorName = n]
    BY <1>12, <1>v DEF Entry!onCreated, Entry!Informed, Entry!Ends, Entry!Goes
  <2> HIDE DEF n
  <2>2. Persons(v1) \subseteq Persons(v1') /\ Entry!Newest(n) \in Persons(v1')
    BY <1>v, <2>1, OneMorePerson
  <2>3. v5'.authorId = Entry!Newest(n)
    BY ONLY <1>v, <2>1 DEF Entry!Form
  <2>4. FormFits(v1', v5')
    BY <2>2, <2>3 DEF FormFits
  <2> QED BY <1>a, <1>g, <1>i, <2>1, <2>2, <2>4, EntryTypesTake
<1> QED BY <1>1, <1>2, <1>3, <1>4, <1>5, <1>6, <1>7, <1>8, <1>9, <1>10, <1>11, <1>12 DEF Entry!Handle

\* Before anything is entered it is typed.
LEMMA EntryTypesInitially ==
    ASSUME Entry!Constants, Entry!Init
    PROVE  Entry!EntryTypesInv
<1>1. Entry!EntryInv
  BY EntryInitially
<1>2. EntryFits(v1, v2, v3, v4, v5, v6, v7, v8, v9, v10)
  BY DEF Entry!Init, EntryFits, Titled, FormFits, Candidates, Choice, Takes, OrNoWork, Entry!Idle, Steps,
     Entry!FOLDER_DEFAULTS
<1> QED BY <1>1, <1>2, EntryTypesNow

\* Every step of the form and its handlers keeps the types.
LEMMA EntryTypesKept ==
    ASSUME Entry!Constants, Entry!EntryTypesInv, Entry!Next
    PROVE  Entry!EntryTypesInv'
BY EntryTypesEdited, EntryTypesHandled DEF Entry!Next

\* What stands still keeps them.
LEMMA EntryTypesStay ==
    ASSUME Entry!EntryTypesInv, UNCHANGED <<v1, v2, v3, v4, v5, v6, v7, v8, v9, v10, v11>>
    PROVE  Entry!EntryTypesInv'
<1>1. Entry!EntryInv /\ EntryFits(v1, v2, v3, v4, v5, v6, v7, v8, v9, v10)
  BY EntryTypesNow
<1>2. Entry!EntryInv'
  <2>1. v5 \in Entry!Form
    BY <1>1 DEF Entry!EntryInv, Entry!Entered
  <2> QED BY <1>1, <2>1, EntryEdited
<1>3. EntryFits(v1', v2', v3', v4', v5', v6', v7', v8', v9', v10')
  BY <1>1
<1> QED BY <1>2, <1>3, EntryTypesNext

-----------------------------------------------------------------------------
(* The types of the chats (Messages): v2 is read up to where, v3 says that  *)
(* a frame is on its way, v5 are the counts, v10 the chats being marked as  *)
(* read, v13 the chats something was missed of.                             *)

UpTo == 0..MaxPosted
RowsFit(s, l, p) ==
    \A c \in Chat : Len(s[c]) <= MaxPosted /\ l[c] \in 0..Len(s[c]) /\ p[c] \in 0..Len(s[c])
AnswersFit(s, f) ==
    /\ f["chats"].pc = "answered" => f["chats"].value \in [Chat -> UpTo]
    /\ \A c \in Chat : f[c].pc = "answered" => f[c].value \in 0..Len(s[c])
PagesFit(o, p) ==
    /\ \A i \in DOMAIN o : o[i] \in Chat \X (1..MaxPosted)
    /\ p # Chats!NoPage => p.before \in 1..MaxPosted
RestFits(l, r, u, m, x) ==
    /\ l \in [Chat -> Nat] /\ r \in BOOLEAN /\ u \in [Chat -> UpTo]
    /\ m \subseteq [chat : Chat, pc : {"sent", "done"}] /\ x \subseteq Chat

\* They are what the types say,
LEMMA ChatTypesNow ==
    Chats!ChatTypesInv <=>
        /\ Chats!ChatInv /\ RowsFit(v1, v2, v6) /\ AnswersFit(v1, v7) /\ PagesFit(v8, v9)
        /\ RestFits(v2, v3, v5, v10, v13)
<1>1. Chats!ChatInv => /\ v4 \in Chat \union {NoChat} /\ v1 \in Conversations /\ v12 \in BOOLEAN
                       /\ v11 \in [pc : {"none", "sent", "stored", "opening"}, chat : Chat \union {NoChat},
                                   opens : BOOLEAN]
                       /\ v9 \in [chat : Chat, before : Chats!Number] \union {Chats!NoPage}
  BY DEF Chats!ChatInv, Chats!ChatTypes, Conversations
<1>2. ASSUME Chats!ChatTypesInv
      PROVE  /\ Chats!ChatInv /\ RowsFit(v1, v2, v6) /\ AnswersFit(v1, v7) /\ PagesFit(v8, v9)
             /\ RestFits(v2, v3, v5, v10, v13)
  <2>1. Chats!ChatInv /\ Chats!TypeOK
    BY <1>2 DEF Chats!ChatTypesInv
  <2>2. RowsFit(v1, v2, v6)
    BY <2>1 DEF Chats!TypeOK, RowsFit
  <2>3. AnswersFit(v1, v7)
    BY <1>2 DEF Chats!ChatTypesInv, AnswersFit, UpTo
  <2>4. PagesFit(v8, v9)
    BY <2>1 DEF Chats!TypeOK, PagesFit
  <2>5. RestFits(v2, v3, v5, v10, v13)
    BY <1>2, <2>1 DEF Chats!ChatTypesInv, Chats!TypeOK, RestFits, UpTo
  <2> QED BY <2>1, <2>2, <2>3, <2>4, <2>5
<1>3. ASSUME Chats!ChatInv, RowsFit(v1, v2, v6), AnswersFit(v1, v7), PagesFit(v8, v9),
             RestFits(v2, v3, v5, v10, v13)
      PROVE  Chats!ChatTypesInv
  <2>1. Chats!TypeOK
    <3>1. \A c \in Chat : /\ v1[c] \in Seq({"me", "other"}) /\ Len(v1[c]) <= MaxPosted
                          /\ v2[c] \in 0..Len(v1[c]) /\ v6[c] \in 0..Len(v1[c])
      BY <1>1, <1>3 DEF RowsFit, Conversations
    <3>2. /\ \A i \in DOMAIN v8 : v8[i] \in Chat \X (1..MaxPosted)
          /\ v9 # Chats!NoPage => v9.chat \in Chat /\ v9.before \in 1..MaxPosted
      BY <1>1, <1>3 DEF PagesFit
    <3>3. v3 \in BOOLEAN /\ v12 \in BOOLEAN
      BY <1>1, <1>3, Zenon DEF RestFits
    <3>4. /\ v4 \in Chat \union {NoChat} /\ v5 \in [Chat -> UpTo] /\ v13 \subseteq Chat
          /\ v10 \subseteq [chat : Chat, pc : {"sent", "done"}]
      BY <1>1, <1>3 DEF RestFits
    <3>5. v11.pc \in {"none", "sent", "stored", "opening"} /\ v11.opens \in BOOLEAN
      BY <1>1, <1>3
    <3> QED BY <3>1, <3>2, <3>3, <3>4, <3>5, Zenon DEF Chats!TypeOK, UpTo
  <2>2. v2 \in [Chat -> Nat]
    BY <1>3 DEF RestFits
  <2>3. /\ v7["chats"].pc = "answered" => v7["chats"].value \in [Chat -> 0..MaxPosted]
        /\ \A c \in Chat : v7[c].pc = "answered" => v7[c].value \in 0..Len(v1[c])
    BY <1>3 DEF AnswersFit, UpTo
  <2> QED BY <1>3, <2>1, <2>2, <2>3 DEF Chats!ChatTypesInv
<1> QED BY <1>2, <1>3

\* also after a step.
LEMMA ChatTypesNext ==
    ASSUME Chats!ChatInv', RowsFit(v1', v2', v6'), AnswersFit(v1', v7'), PagesFit(v8', v9'),
           RestFits(v2', v3', v5', v10', v13')
    PROVE  Chats!ChatTypesInv'
<1>1. /\ v4' \in Chat \union {NoChat} /\ v1' \in Conversations /\ v12' \in BOOLEAN
      /\ v11' \in [pc : {"none", "sent", "stored", "opening"}, chat : Chat \union {NoChat}, opens : BOOLEAN]
      /\ v9' \in [chat : Chat, before : Chats!Number] \union {Chats!NoPage}
  BY DEF Chats!ChatInv, Chats!ChatTypes, Conversations
<1>2. Chats!TypeOK'
  <2>1. \A c \in Chat : /\ v1'[c] \in Seq({"me", "other"}) /\ Len(v1'[c]) <= MaxPosted
                        /\ v2'[c] \in 0..Len(v1'[c]) /\ v6'[c] \in 0..Len(v1'[c])
    BY <1>1 DEF RowsFit, Conversations
  <2>2. /\ \A i \in DOMAIN v8' : v8'[i] \in Chat \X (1..MaxPosted)
        /\ v9' # Chats!NoPage => v9'.chat \in Chat /\ v9'.before \in 1..MaxPosted
    BY <1>1 DEF PagesFit
  <2>3. v3' \in BOOLEAN /\ v12' \in BOOLEAN
    BY <1>1, Zenon DEF RestFits
  <2>4. /\ v4' \in Chat \union {NoChat} /\ v5' \in [Chat -> UpTo] /\ v13' \subseteq Chat
        /\ v10' \subseteq [chat : Chat, pc : {"sent", "done"}]
    BY <1>1 DEF RestFits
  <2>5. v11'.pc \in {"none", "sent", "stored", "opening"} /\ v11'.opens \in BOOLEAN
    BY <1>1
  <2> QED BY <2>1, <2>2, <2>3, <2>4, <2>5, Zenon DEF Chats!TypeOK, UpTo
<1>3. v2' \in [Chat -> Nat]
  BY DEF RestFits
<1>4. /\ v7'["chats"].pc = "answered" => v7'["chats"].value \in [Chat -> 0..MaxPosted]
      /\ \A c \in Chat : v7'[c].pc = "answered" => v7'[c].value \in 0..Len(v1'[c])
  BY DEF AnswersFit, UpTo
<1> QED BY <1>2, <1>3, <1>4 DEF Chats!ChatTypesInv

\* The module has its own copies of the library's operators.
LEMMA ChatSize ==
    /\ \A S : Chats!IsFiniteSet(S) <=> IsFiniteSet(S)
    /\ \A S : Chats!Cardinality(S) = Cardinality(S)
BY DEF Chats!Cardinality, Cardinality, Chats!IsFiniteSet, IsFiniteSet

\* The places of its messages are as many as they are.
LEMMA PlacesInChat ==
    ASSUME v1 \in Conversations, NEW d \in Chat
    PROVE  IsFiniteSet({d} \X DOMAIN v1[d]) /\ Cardinality({d} \X DOMAIN v1[d]) = Len(v1[d])
<1> DEFINE n == Len(v1[d])
<1>1. n \in Nat /\ DOMAIN v1[d] = 1..n
  BY LenProperties DEF Conversations
<1> HIDE DEF n
<1>2. IsFiniteSet(1..n) /\ Cardinality(1..n) = n
  <2>1. Cardinality(1..n) = IF 1 > n THEN 0 ELSE n - 1 + 1
    BY <1>1, FS_Interval
  <2>2. IsFiniteSet(1..n)
    BY <1>1, FS_Interval
  <2> QED BY ONLY <1>1, <2>1, <2>2
<1>3. IsFiniteSet({d}) /\ Cardinality({d}) = 1
  BY FS_Singleton
<1>4. IsFiniteSet({d} \X (1..n)) /\ Cardinality({d} \X (1..n)) = 1 * n
  <2> DEFINE A == {d}
             B == 1..n
  <2>1. IsFiniteSet(A) /\ Cardinality(A) = 1 /\ IsFiniteSet(B) /\ Cardinality(B) = n
    BY <1>2, <1>3
  <2> HIDE DEF A, B
  <2>2. IsFiniteSet(A \X B) /\ Cardinality(A \X B) = Cardinality(A) * Cardinality(B)
    BY ONLY <2>1, FS_Product
  <2> QED BY ONLY <2>1, <2>2 DEF A, B
<1>5. 1 * n = n
  BY <1>1
<1> QED BY ONLY <1>1, <1>4, <1>5 DEF n

\* While there is room for a message there is room in every chat.
LEMMA RoomInChat ==
    ASSUME Chats!Bounds, v1 \in Conversations, NEW c \in Chat, Chats!Posted < MaxPosted
    PROVE  Len(v1[c]) + 1 <= MaxPosted
<1> DEFINE p == [d \in Chat |-> {d} \X DOMAIN v1[d]]
           P == {p[d] : d \in Chat}
<1>1. IsFiniteSet(Chat) /\ MaxPosted \in Nat
  BY ChatSize DEF Chats!Bounds
<1>2. \A d \in Chat : Len(v1[d]) \in Nat /\ DOMAIN v1[d] = 1..Len(v1[d])
  BY LenProperties DEF Conversations
<1>3. \A d \in Chat : IsFiniteSet({d} \X DOMAIN v1[d]) /\ Cardinality({d} \X DOMAIN v1[d]) = Len(v1[d])
  BY ONLY v1 \in Conversations, PlacesInChat
<1>4. IsFiniteSet(P)
  <2>a. p \in [Chat -> P] /\ \A Q \in P : \E d \in Chat : p[d] = Q
    <3>1. p = [d \in Chat |-> p[d]]
      OBVIOUS
    <3> HIDE DEF p
    <3> QED BY ONLY <3>1
  <2> HIDE DEF p, P
  <2>1. p \in Surjection(Chat, P)
    BY ONLY <2>a DEF Surjection
  <2> QED BY <1>1, <2>1, FS_Surjection
<1>5. IsFiniteSet(UNION P)
  <2>1. \A Q \in P : IsFiniteSet(Q)
    <3>1. \A d \in Chat : p[d] = {d} \X DOMAIN v1[d]
      OBVIOUS
    <3>2. ASSUME NEW Q \in P PROVE IsFiniteSet(Q)
      <4>1. PICK d \in Chat : Q = p[d]
        OBVIOUS
      <4> HIDE DEF p, P
      <4> QED BY ONLY <1>3, <3>1, <4>1
    <3> HIDE DEF P
    <3> QED BY ONLY <3>2
  <2> HIDE DEF P
  <2> QED BY <1>4, <2>1, FS_UNION
<1>6. Chats!Posted = Cardinality(UNION P)
  <2>1. P = {{d} \X DOMAIN v1[d] : d \in Chat}
    OBVIOUS
  <2> QED BY <2>1, ChatSize DEF Chats!Posted
<1>7. {c} \X DOMAIN v1[c] \subseteq UNION P
  OBVIOUS
<1>8. Len(v1[c]) <= Cardinality(UNION P) /\ Cardinality(UNION P) \in Nat
  <2> HIDE DEF P
  <2>1. Cardinality({c} \X DOMAIN v1[c]) <= Cardinality(UNION P)
    BY <1>5, <1>7, FS_Subset
  <2> QED BY <1>3, <1>5, <2>1, FS_CardinalityType
<1> QED BY <1>1, <1>2, <1>6, <1>8

\* No more is unread than there is.
LEMMA UnreadFits ==
    ASSUME Chats!Bounds, v1 \in Conversations, RowsFit(v1, v2, v6)
    PROVE  Chats!UnreadByChat \in [Chat -> UpTo]
<1>1. ASSUME NEW c \in Chat PROVE Chats!Unread(c) \in UpTo
  <2> DEFINE S == {i \in DOMAIN v1[c] : i > v2[c] /\ v1[c][i] = "other"}
  <2>1. Len(v1[c]) \in Nat /\ DOMAIN v1[c] = 1..Len(v1[c]) /\ Len(v1[c]) <= MaxPosted
    BY LenProperties DEF Conversations, RowsFit
  <2>2. IsFiniteSet(1..Len(v1[c])) /\ Cardinality(1..Len(v1[c])) = Len(v1[c])
    BY <2>1, FS_Interval
  <2>3. S \subseteq 1..Len(v1[c])
    BY <2>1
  <2>4. Chats!Unread(c) = Cardinality(S)
    BY ChatSize DEF Chats!Unread
  <2> HIDE DEF S
  <2>5. Cardinality(S) \in Nat /\ Cardinality(S) <= Len(v1[c])
    BY ONLY <2>2, <2>3, FS_Subset, FS_CardinalityType
  <2>6. MaxPosted \in Nat
    BY DEF Chats!Bounds
  <2> QED BY ONLY <2>1, <2>4, <2>5, <2>6 DEF UpTo
<1> QED BY <1>1 DEF Chats!UnreadByChat

\* A message is put behind the others.
LEMMA RowsGrow ==
    ASSUME Chats!Bounds, v1 \in Conversations, RowsFit(v1, v2, v6), AnswersFit(v1, v7),
           NEW c \in Chat, NEW by \in {"me", "other"}, v1' = [v1 EXCEPT ![c] = Append(@, by)],
           Chats!Posted < MaxPosted
    PROVE  RowsFit(v1', v2, v6) /\ AnswersFit(v1', v7)
<1>1. \A d \in Chat : Len(v1[d]) \in Nat /\ (d # c => v1'[d] = v1[d])
  BY LenProperties DEF Conversations
<1>2. Len(v1'[c]) = Len(v1[c]) + 1
  <2>1. v1[c] \in Seq({"me", "other"})
    BY DEF Conversations
  <2>2. v1'[c] = Append(v1[c], by)
    BY DEF Conversations
  <2> QED BY <2>1, <2>2, AppendProperties
<1>3. Len(v1[c]) + 1 <= MaxPosted
  BY RoomInChat
<1>4. \A d \in Chat : Len(v1'[d]) \in Nat /\ Len(v1[d]) <= Len(v1'[d]) /\ (Len(v1[d]) <= MaxPosted => Len(v1'[d]) <= MaxPosted)
  BY ONLY <1>1, <1>2, <1>3
<1>5. \A d \in Chat : 0..Len(v1[d]) \subseteq 0..Len(v1'[d])
  BY ONLY <1>1, <1>4
<1> QED BY ONLY <1>4, <1>5, RowsFit(v1, v2, v6), AnswersFit(v1, v7) DEF RowsFit, AnswersFit

\* What is asked for again has no answer to fit.
LEMMA FetchesFit ==
    ASSUME AnswersFit(v1, v7), NEW Q, Chats!Fetches(Q)
    PROVE  AnswersFit(v1, v7')
<1>1. \A q \in Chats!Query : v7'[q] = IF q \in Q THEN Chats!Sent ELSE v7[q]
  BY FetchesSend
<1>2. Chats!Sent.pc = "sent" /\ "chats" \in Chats!Query /\ Chat \subseteq Chats!Query
  BY DEF Chats!Sent, Chats!Query
<1> QED BY <1>1, <1>2 DEF AnswersFit

\* The older pages reach no further than the chats.
LEMMA PagesFitOlder ==
    ASSUME Chats!Bounds, Chats!ChatInv, RowsFit(v1, v2, v6), PagesFit(v8, v9),
           Chats!loadOlder \/ Chats!OlderArrive \/ Chats!OlderFails
    PROVE  PagesFit(v8', v9')
<1>0. Chats!ChatTypes /\ MaxPosted \in Nat
  BY DEF Chats!ChatInv, Chats!Bounds
<1>c. v8 \in Seq(Chat \X Chats!Number) /\ v9 \in [chat : Chat, before : Chats!Number] \union {Chats!NoPage}
  BY <1>0 DEF Chats!ChatTypes
<1>1. CASE Chats!OlderFails
  BY <1>1 DEF Chats!OlderFails, PagesFit
<1>2. CASE Chats!loadOlder
  <2>1. v8' = v8 /\ Chats!messages # <<>> /\ v9' = [chat |-> v4, before |-> Chats!messages[1][2]]
    BY <1>2 DEF Chats!loadOlder, Chats!Oldest
  <2>2. v4 \in Chat /\ v4 # NoChat
    BY <1>0, <2>1 DEF Chats!messages, Chats!ChatTypes
  <2> DEFINE f == Chats!First(v6[v4])
             n == v6[v4] - f + 1
  <2>3. /\ f \in Nat \ {0} /\ n \in Nat /\ Len(v8) \in Nat
        /\ Len(Chats!messages) = Len(v8) + n
        /\ \A j \in 1..Len(v8) : Chats!messages[j] = v8[j]
        /\ \A j \in Len(v8) + 1..Len(v8) + n : Chats!messages[j] = <<v4, f - Len(v8) + j - 1>>
        /\ Chats!messages \in Seq(Chat \X Chats!Number)
    BY <1>0, <2>2, ShownMessages
  <2>4. v6[v4] \in 0..MaxPosted
    <3>1. Len(v1[v4]) <= MaxPosted /\ v6[v4] \in 0..Len(v1[v4]) /\ Len(v1[v4]) \in Nat
      BY <1>0, <2>2, LenProperties DEF RowsFit, Chats!ChatTypes
    <3> QED BY ONLY <1>0, <3>1
  <2>a. n = v6[v4] - f + 1
    OBVIOUS
  <2> HIDE DEF f, n
  <2>5. 1 \in 1..Len(v8) + n
    BY <2>1, <2>3, EmptySeq
  <2>6. Chats!messages[1][2] \in 1..MaxPosted
    <3>1. CASE Len(v8) = 0
      <4>1. Chats!messages[1] = <<v4, f>>
        <5>1. Chats!messages[1] = <<v4, f - Len(v8) + 1 - 1>>
          BY ONLY <2>3, <2>5, <3>1
        <5>2. f - Len(v8) + 1 - 1 = f
          BY ONLY <2>3, <3>1
        <5> QED BY ONLY <5>1, <5>2
      <4>2. n >= 1
        BY ONLY <2>3, <2>5, <3>1
      <4>3. f \in 1..MaxPosted
        BY ONLY <1>0, <2>3, <2>4, <2>a, <4>2
      <4> QED BY ONLY <4>1, <4>3
    <3>2. CASE Len(v8) # 0
      <4>1. 1 \in DOMAIN v8 /\ 1 \in 1..Len(v8)
        BY <1>c, <2>3, <3>2, LenProperties
      <4>2. v8[1] \in Chat \X (1..MaxPosted)
        BY <4>1 DEF PagesFit
      <4> QED BY <2>3, <4>1, <4>2
    <3> QED BY <3>1, <3>2
  <2> QED BY <2>1, <2>6 DEF PagesFit
<1>3. CASE Chats!OlderArrive
  <2> DEFINE last == v9.before - 1
             k == IF last = 0 THEN 0 ELSE last - Chats!First(last) + 1
             page == [i \in 1..k |-> <<v9.chat, Chats!First(last) + i - 1>>]
  <2>1. v9 # Chats!NoPage /\ v9' = Chats!NoPage /\ v8' = page \o v8
    BY <1>3 DEF Chats!OlderArrive
  <2>2. v9.chat \in Chat /\ v9.before \in Chats!Number /\ v9.before \in 1..MaxPosted
    BY <1>c, <2>1 DEF PagesFit
  <2>4. last \in Nat /\ last <= MaxPosted
    BY <1>0, <2>2 DEF Chats!Number
  <2> DEFINE g == Chats!First(last)
  <2>5. /\ k \in Nat /\ g \in Nat \ {0}
        /\ (last # 0 => k = last - g + 1)
        /\ (last = 0 => k = 0)
    BY <2>4, FirstOfPage
  <2>6. \A i \in 1..k : page[i] = <<v9.chat, g + i - 1>> /\ g + i - 1 \in 1..MaxPosted
    <3>1. \A i \in 1..k : page[i] = <<v9.chat, g + i - 1>>
      OBVIOUS
    <3> HIDE DEF k, g, last, page
    <3>2. \A i \in 1..k : g + i - 1 \in 1..MaxPosted
      BY ONLY <1>0, <2>4, <2>5
    <3> QED BY ONLY <3>1, <3>2
  <2>7. page \in Seq(Chat \X (1..MaxPosted)) /\ Len(page) = k
    <3>1. page \in [1..k -> Chat \X (1..MaxPosted)]
      <4>1. page = [i \in 1..k |-> page[i]]
        <5> DEFINE w(i) == <<v9.chat, Chats!First(last) + i - 1>>
        <5>1. page = [i \in 1..k |-> w(i)]
          OBVIOUS
        <5> HIDE DEF w, k, page
        <5> QED BY ONLY <5>1
      <4>2. \A i \in 1..k : page[i] \in Chat \X (1..MaxPosted)
        <5> HIDE DEF page, k, g, last
        <5> QED BY ONLY <2>2, <2>6
      <4> HIDE DEF page, k, g, last
      <4> QED BY ONLY <4>1, <4>2
    <3> HIDE DEF page, k
    <3>2. page \in Seq(Chat \X (1..MaxPosted))
      BY ONLY <2>5, <3>1, SeqDef
    <3> QED BY ONLY <2>5, <3>1, <3>2, LenProperties
  <2>8. v8 \in Seq(Chat \X (1..MaxPosted))
    <3>1. v8 \in [1..Len(v8) -> Chat \X Chats!Number] /\ Len(v8) \in Nat
      BY <1>c, LenProperties
    <3>2. \A i \in 1..Len(v8) : v8[i] \in Chat \X (1..MaxPosted)
      BY <3>1 DEF PagesFit
    <3>3. v8 \in [1..Len(v8) -> Chat \X (1..MaxPosted)]
      BY ONLY <3>1, <3>2
    <3> QED BY ONLY <3>1, <3>3, SeqDef
  <2> DEFINE S == Chat \X (1..MaxPosted)
  <2>9. v8' \in Seq(S)
    <3>1. page \in Seq(S) /\ v8 \in Seq(S) /\ v8' = page \o v8
      BY <2>1, <2>7, <2>8
    <3> HIDE DEF S, page
    <3> QED BY ONLY <3>1, ConcatProperties
  <2>10. \A i \in DOMAIN v8' : v8'[i] \in S
    <3> HIDE DEF S
    <3> QED BY ONLY <2>9, LenProperties, ElementOfSeq
  <2> QED BY <2>1, <2>10 DEF PagesFit
<1> QED BY <1>1, <1>2, <1>3

\* A page opened with what the server has is typed.
LEMMA ChatTypesInitially ==
    ASSUME Chats!Bounds, Chats!Init
    PROVE  Chats!ChatTypesInv
<1>1. Chats!ChatInv
  BY ChatsInitially
<1>2. /\ v1 \in [Chat -> TwoMessages] /\ v2 = [c \in Chat |-> 0] /\ v3 = FALSE
      /\ v5 = [c \in Chat |-> Chats!Unread(c)] /\ v6 = [c \in Chat |-> 0]
      /\ v7 = [q \in Chats!Query |-> Chats!NoFetch]
      /\ v8 = <<>> /\ v9 = Chats!NoPage /\ v10 = {} /\ v13 = {}
  BY DEF Chats!Init
<1>3. v1 \in Conversations /\ MaxPosted \in Nat /\ \A s \in TwoMessages : Len(s) <= MaxPosted
  BY <1>1 DEF Chats!ChatInv, Chats!ChatTypes, Conversations, Chats!Bounds
<1>4. RowsFit(v1, v2, v6)
  <2>1. \A c \in Chat : Len(v1[c]) \in Nat /\ Len(v1[c]) <= MaxPosted /\ v2[c] = 0 /\ v6[c] = 0
    BY <1>2, <1>3, LenProperties DEF Conversations
  <2> QED BY ONLY <2>1 DEF RowsFit
<1>5. AnswersFit(v1, v7)
  <2>1. Chats!NoFetch.pc # "answered" /\ "chats" \in Chats!Query /\ Chat \subseteq Chats!Query
    BY DEF Chats!NoFetch, Chats!Query
  <2> QED BY ONLY <1>2, <2>1 DEF AnswersFit
<1>6. PagesFit(v8, v9)
  BY <1>2 DEF PagesFit
<1>7. v5 \in [Chat -> UpTo]
  <2>1. v5 = Chats!UnreadByChat
    BY <1>2 DEF Chats!UnreadByChat
  <2> QED BY <1>3, <1>4, <2>1, UnreadFits
<1>8. RestFits(v2, v3, v5, v10, v13)
  BY <1>2, <1>7 DEF RestFits
<1> QED BY <1>1, <1>4, <1>5, <1>6, <1>8, ChatTypesNow

\* Another chat is opened.
LEMMA EnteringFits ==
    ASSUME AnswersFit(v1, v7), v4 \in Chat \union {NoChat}, v13 \subseteq Chat,
           v10 \subseteq [chat : Chat, pc : {"sent", "done"}],
           NEW c \in Chat, NEW again \in SUBSET Chat, Chats!setActiveChatId(c, again)
    PROVE  /\ AnswersFit(v1, v7') /\ v8' = <<>>
           /\ v10' \subseteq [chat : Chat, pc : {"sent", "done"}] /\ v13' \subseteq Chat
<1>1. PICK Q : Chats!Fetches(Q)
  BY DEF Chats!setActiveChatId
<1>2. AnswersFit(v1, v7')
  BY <1>1, FetchesFit
<1>3. /\ v8' = <<>> /\ v10' = v10 \union {[chat |-> c, pc |-> "sent"]}
      /\ v13' = (v13 \union again) \union {d \in {v4, c} \intersect Chat : v7[d] # Chats!NoFetch}
  BY DEF Chats!setActiveChatId, Chats!Reset
<1> QED BY <1>2, <1>3

\* Every step of the chats leaves what is typed.
LEMMA ChatFitsOn ==
    ASSUME Chats!Bounds, Chats!ChatTypesInv, Chats!Next
    PROVE  /\ RowsFit(v1', v2', v6') /\ AnswersFit(v1', v7') /\ PagesFit(v8', v9')
           /\ RestFits(v2', v3', v5', v10', v13')
<1> DEFINE Goal == /\ RowsFit(v1', v2', v6') /\ AnswersFit(v1', v7') /\ PagesFit(v8', v9')
                   /\ RestFits(v2', v3', v5', v10', v13')
<1> USE DEF Chats!server, Chats!cached, Chats!pages, Chats!history
<1>a. /\ Chats!ChatInv /\ RowsFit(v1, v2, v6) /\ AnswersFit(v1, v7) /\ PagesFit(v8, v9)
      /\ RestFits(v2, v3, v5, v10, v13)
  BY ChatTypesNow
<1>0. /\ v1 \in Conversations /\ v4 \in Chat \union {NoChat} /\ v6 \in [Chat -> Nat]
      /\ v7 = [q \in Chats!Query |-> v7[q]] /\ Chats!Query = {"chats"} \union Chat
      /\ "chats" \notin Chat /\ NoChat \notin Chat
      /\ v11 \in [pc : {"none", "sent", "stored", "opening"}, chat : Chat \union {NoChat},
                  opens : BOOLEAN]
      /\ v11.pc # "none" => v11.chat \in Chat
  BY <1>a, MessageTypes
<1>b. /\ v2 \in [Chat -> Nat] /\ v3 \in BOOLEAN /\ v5 \in [Chat -> UpTo]
      /\ v10 \subseteq [chat : Chat, pc : {"sent", "done"}] /\ v13 \subseteq Chat
  <2>1. v3 \in BOOLEAN
    BY <1>a, Zenon DEF RestFits
  <2> QED BY <1>a, <2>1 DEF RestFits
<1>1. ASSUME NEW c \in Chat, Chats!OtherPosts(c)
      PROVE  Goal
  <2>1. /\ UNCHANGED <<v2, v5, v6, v7, v8, v9, v10, v13>> /\ v3' = TRUE
        /\ v1' = [v1 EXCEPT ![c] = Append(@, "other")] /\ Chats!Posted < MaxPosted
    BY <1>1 DEF Chats!OtherPosts
  <2>2. RowsFit(v1', v2, v6) /\ AnswersFit(v1', v7)
    BY <1>0, <1>a, <2>1, RowsGrow
  <2>3. RestFits(v2', v3', v5', v10', v13')
    BY <1>b, <2>1 DEF RestFits
  <2> QED BY <1>a, <2>1, <2>2, <2>3
<1>2. ASSUME NEW q \in Chats!Query, Chats!Serve(q)
      PROVE  Goal
  <2>1. /\ UNCHANGED <<v1, v2, v3, v5, v6, v8, v9, v10, v13>>
        /\ v7' = [v7 EXCEPT ![q] = [pc |-> "answered",
                     value |-> CASE q = "chats" -> Chats!UnreadByChat [] OTHER -> Len(v1[q])]]
    BY <1>2 DEF Chats!Serve
  <2>2. /\ v7'[q].value = (CASE q = "chats" -> Chats!UnreadByChat [] OTHER -> Len(v1[q]))
        /\ \A p \in Chats!Query : p # q => v7'[p] = v7[p]
    BY <1>0, <2>1
  <2>3. q = "chats" => v7'[q].value = Chats!UnreadByChat
    BY <2>2
  <2>4. q # "chats" => v7'[q].value = Len(v1[q])
    BY <2>2
  <2>5. Chats!UnreadByChat \in [Chat -> UpTo]
    BY <1>0, <1>a, UnreadFits
  <2>6. \A c \in Chat : Len(v1[c]) \in 0..Len(v1[c])
    BY <1>0, LenProperties DEF Conversations
  <2>7. AnswersFit(v1, v7')
    <3>1. v7'["chats"].pc = "answered" => v7'["chats"].value \in [Chat -> UpTo]
      <4>1. CASE q = "chats"
        BY ONLY <2>3, <2>5, <4>1
      <4>2. CASE q # "chats"
        <5>1. v7'["chats"] = v7["chats"]
          BY ONLY <1>0, <2>2, <4>2
        <5> QED BY ONLY <1>a, <5>1 DEF AnswersFit
      <4> QED BY ONLY <4>1, <4>2
    <3>2. ASSUME NEW c \in Chat, v7'[c].pc = "answered"
          PROVE  v7'[c].value \in 0..Len(v1[c])
      <4>1. CASE q = c
        BY ONLY <1>0, <2>4, <2>6, <4>1, c \in Chat
      <4>2. CASE q # c
        <5>1. v7'[c] = v7[c]
          BY ONLY <1>0, <2>2, <4>2, c \in Chat
        <5> QED BY ONLY <1>a, <3>2, <5>1 DEF AnswersFit
      <4> QED BY ONLY <4>1, <4>2
    <3> QED BY ONLY <3>1, <3>2 DEF AnswersFit
  <2> QED BY <1>a, <2>1, <2>7
<1>3. ASSUME NEW c \in Chat, Chats!MarkRead(c)
      PROVE  Goal
  <2>1. /\ UNCHANGED <<v1, v3, v5, v6, v7, v8, v9, v13>>
        /\ v2' = [v2 EXCEPT ![c] = Len(v1[c])]
        /\ v10' = (v10 \ {[chat |-> c, pc |-> "sent"]}) \union {[chat |-> c, pc |-> "done"]}
    BY <1>3 DEF Chats!MarkRead
  <2>2. \A d \in Chat : Len(v1[d]) \in Nat
    BY <1>0, LenProperties DEF Conversations
  <2>3. /\ v2' \in [Chat -> Nat] /\ v2'[c] = Len(v1[c])
        /\ \A d \in Chat : d # c => v2'[d] = v2[d]
    BY <1>b, <2>1, <2>2
  <2>4. RowsFit(v1, v2', v6)
    BY ONLY <1>a, <2>2, <2>3, c \in Chat DEF RowsFit
  <2>5. v10' \subseteq [chat : Chat, pc : {"sent", "done"}]
    BY <1>b, <2>1
  <2>6. RestFits(v2', v3', v5', v10', v13')
    BY <1>b, <2>1, <2>3, <2>5 DEF RestFits
  <2> QED BY <1>a, <2>1, <2>4, <2>6
<1>4. ASSUME Chats!PostMessage
      PROVE  Goal
  <2>1. /\ UNCHANGED <<v2, v3, v5, v6, v7, v8, v9, v10, v13>> /\ v11.pc = "sent"
        /\ \/ v1' = [v1 EXCEPT ![v11.chat] = Append(@, "me")] /\ Chats!Posted < MaxPosted
           \/ v1' = v1
    BY <1>4 DEF Chats!PostMessage
  <2>2. v11.chat \in Chat
    BY <1>0, <2>1
  <2>3. RowsFit(v1', v2, v6) /\ AnswersFit(v1', v7)
    BY <1>0, <1>a, <2>1, <2>2, RowsGrow
  <2> QED BY <1>a, <2>1, <2>3
<1>5. ASSUME NEW Q, Chats!Fetches(Q), v3' \in BOOLEAN, v10' \subseteq v10, v13' \subseteq Chat,
             UNCHANGED <<v1, v2, v5, v6, v8, v9>>
      PROVE  Goal
  <2>1. AnswersFit(v1, v7')
    BY <1>5, <1>a, FetchesFit
  <2>2. v10' \subseteq [chat : Chat, pc : {"sent", "done"}]
    BY <1>b, <1>5
  <2>3. RestFits(v2', v3', v5', v10', v13')
    BY <1>b, <1>5, <2>2 DEF RestFits
  <2> QED BY <1>a, <1>5, <2>1, <2>3
<1>6. ASSUME Chats!refresh
      PROVE  Goal
  <2>1. /\ Chats!Fetches({"chats"} \union ({v4} \intersect Chat)) /\ v3' = FALSE
        /\ UNCHANGED <<v1, v2, v5, v6, v8, v9, v10, v13>>
    BY <1>6 DEF Chats!refresh
  <2>2. v3' \in BOOLEAN /\ v10' \subseteq v10 /\ v13' \subseteq Chat
    BY <1>b, <2>1
  <2> HIDE DEF Goal
  <2> QED BY <1>5, <2>1, <2>2
<1>7. ASSUME NEW c \in Chat, Chats!ReadMarked(c)
      PROVE  Goal
  <2>1. Chats!Fetches({"chats"}) /\ v10' \subseteq v10 /\ UNCHANGED <<v1, v2, v3, v5, v6, v8, v9, v13>>
    BY <1>7 DEF Chats!ReadMarked
  <2>2. v3' \in BOOLEAN /\ v13' \subseteq Chat
    BY <1>b, <2>1
  <2> HIDE DEF Goal
  <2> QED BY <1>5, <2>1, <2>2
<1>8. ASSUME Chats!MessagePosted
      PROVE  Goal
  <2>1. /\ Chats!Fetches({"chats", v4}) /\ UNCHANGED <<v1, v2, v3, v5, v6, v8, v9, v10>>
        /\ v11.pc = "stored" /\ v13' = IF v11.chat = v4 THEN v13 ELSE v13 \union {v11.chat}
    BY <1>8 DEF Chats!MessagePosted
  <2>2. v3' \in BOOLEAN /\ v10' \subseteq v10 /\ v13' \subseteq Chat
    BY <1>0, <1>b, <2>1
  <2> HIDE DEF Goal
  <2> QED BY <1>5, <2>1, <2>2
<1>9. ASSUME Chats!ChatCreated
      PROVE  Goal
  <2>1. Chats!Fetches({"chats"}) /\ UNCHANGED <<v1, v2, v3, v5, v6, v8, v9, v10, v13>>
    BY <1>9 DEF Chats!ChatCreated
  <2>2. v3' \in BOOLEAN /\ v10' \subseteq v10 /\ v13' \subseteq Chat
    BY <1>b, <2>1
  <2> HIDE DEF Goal
  <2> QED BY <1>5, <2>1, <2>2
<1>10. ASSUME NEW c \in Chat, NEW again \in SUBSET Chat, Chats!setActiveChatId(c, again),
              UNCHANGED <<v1, v2, v3, v5, v6, v9>>
       PROVE  Goal
  <2>1. /\ AnswersFit(v1, v7') /\ v8' = <<>>
        /\ v10' \subseteq [chat : Chat, pc : {"sent", "done"}] /\ v13' \subseteq Chat
    BY <1>0, <1>a, <1>b, <1>10, EnteringFits
  <2>2. PagesFit(v8', v9')
    BY <1>a, <1>10, <2>1 DEF PagesFit
  <2>3. RestFits(v2', v3', v5', v10', v13')
    BY <1>b, <1>10, <2>1 DEF RestFits
  <2> QED BY <1>a, <1>10, <2>1, <2>2, <2>3
<1>11. ASSUME NEW c \in Chat, Chats!PickChat(c)
       PROVE  Goal
  <2>1. Chats!setActiveChatId(c, {}) /\ UNCHANGED <<v1, v2, v3, v5, v6, v9>>
    BY <1>11 DEF Chats!PickChat
  <2> HIDE DEF Goal
  <2> QED BY <1>10, <2>1
<1>12. ASSUME Chats!ChatOpened
       PROVE  Goal
  <2>1. UNCHANGED <<v1, v2, v3, v5, v6, v9>> /\ v11.chat \in Chat
    BY <1>0, <1>12 DEF Chats!ChatOpened
  <2>2. ASSUME Chats!setActiveChatId(v11.chat, {v4} \intersect Chat)
        PROVE  Goal
    <3>1. {v4} \intersect Chat \in SUBSET Chat
      OBVIOUS
    <3> HIDE DEF Goal
    <3> QED BY <1>10, <2>1, <2>2, <3>1
  <2>3. ASSUME Chats!Fetches({v4}), UNCHANGED <<v8, v10, v13>>
        PROVE  Goal
    <3>1. v3' \in BOOLEAN /\ v10' \subseteq v10 /\ v13' \subseteq Chat
      BY <1>b, <2>1, <2>3
    <3> HIDE DEF Goal
    <3> QED BY <1>5, <2>1, <2>3, <3>1
  <2> HIDE DEF Goal
  <2> QED BY <1>12, <2>2, <2>3 DEF Chats!ChatOpened
<1>13. ASSUME UNCHANGED <<v1, v2, v5, v6, v7, v8, v9>>, v3' \in BOOLEAN, v10' \subseteq v10,
              v13' \subseteq Chat
       PROVE  Goal
  <2>1. v10' \subseteq [chat : Chat, pc : {"sent", "done"}]
    BY <1>b, <1>13
  <2>2. RestFits(v2', v3', v5', v10', v13')
    BY <1>b, <1>13, <2>1 DEF RestFits
  <2> QED BY <1>a, <1>13, <2>2
<1>14. ASSUME \/ Chats!FrameLost \/ Chats!onSendMessage \/ Chats!PostFails
       PROVE  Goal
  <2>1. /\ UNCHANGED <<v1, v2, v5, v6, v7, v8, v9, v10>>
        /\ v3' = FALSE \/ v3' = v3
        /\ v13' = Chat \/ v13' = v13
    BY <1>14 DEF Chats!FrameLost, Chats!onSendMessage, Chats!PostFails
  <2>2. v3' \in BOOLEAN /\ v10' \subseteq v10 /\ v13' \subseteq Chat
    BY <1>b, <2>1
  <2> HIDE DEF Goal
  <2> QED BY <1>13, <2>1, <2>2
<1>18. ASSUME NEW m \in v10, Chats!MarkFails(m)
       PROVE  Goal
  <2>1. UNCHANGED <<v1, v2, v3, v5, v6, v7, v8, v9>> /\ v10' \subseteq v10 /\ v13' = Chat
    BY <1>18 DEF Chats!MarkFails
  <2>2. v3' \in BOOLEAN /\ v13' \subseteq Chat
    BY <1>b, <2>1
  <2> HIDE DEF Goal
  <2> QED BY <1>13, <2>1, <2>2
<1>19. ASSUME NEW c \in Chat, Chats!onCreateChat(c)
       PROVE  Goal
  <2>1. UNCHANGED <<v1, v2, v3, v5, v6, v7, v8, v9, v10, v13>>
    BY <1>19 DEF Chats!onCreateChat
  <2>2. v3' \in BOOLEAN /\ v10' \subseteq v10 /\ v13' \subseteq Chat
    BY <1>b, <2>1
  <2> HIDE DEF Goal
  <2> QED BY <1>13, <2>1, <2>2
<1>15. ASSUME Chats!ChatsArrive
       PROVE  Goal
  <2>1. /\ UNCHANGED <<v1, v2, v3, v6, v8, v9, v10, v13>> /\ v7["chats"].pc = "answered"
        /\ v5' = v7["chats"].value /\ v7' = [v7 EXCEPT !["chats"] = Chats!NoFetch]
    BY <1>15 DEF Chats!ChatsArrive
  <2>2. v7'["chats"] = Chats!NoFetch /\ \A c \in Chat : v7'[c] = v7[c]
    BY <1>0, <2>1
  <2>3. Chats!NoFetch.pc = "none"
    BY DEF Chats!NoFetch
  <2>4. v5' \in [Chat -> UpTo]
    BY <1>a, <2>1 DEF AnswersFit
  <2>5. AnswersFit(v1, v7')
    BY <1>a, <2>2, <2>3 DEF AnswersFit
  <2>6. RestFits(v2', v3', v5', v10', v13')
    BY <1>b, <2>1, <2>4 DEF RestFits
  <2> QED BY <1>a, <2>1, <2>5, <2>6
<1>16. ASSUME NEW c \in Chat, Chats!MessagesArrive(c)
       PROVE  Goal
  <2>1. /\ UNCHANGED <<v1, v2, v3, v5, v8, v9, v10, v13>> /\ v7[c].pc = "answered"
        /\ v6' = [v6 EXCEPT ![c] = v7[c].value] /\ v7' = [v7 EXCEPT ![c] = Chats!NoFetch]
    BY <1>16 DEF Chats!MessagesArrive
  <2>2. /\ v7'[c] = Chats!NoFetch /\ \A q \in Chats!Query : q # c => v7'[q] = v7[q]
        /\ v6'[c] = v7[c].value /\ \A d \in Chat : d # c => v6'[d] = v6[d]
    BY <1>0, <1>16, <2>1
  <2>3. Chats!NoFetch.pc = "none"
    BY DEF Chats!NoFetch
  <2>4. v6'[c] \in 0..Len(v1[c])
    BY <1>a, <2>1, <2>2, c \in Chat DEF AnswersFit
  <2>5. RowsFit(v1, v2, v6')
    BY ONLY <1>a, <2>2, <2>4, c \in Chat DEF RowsFit
  <2>6. AnswersFit(v1, v7')
    <3>1. v7'["chats"] = v7["chats"]
      BY <1>0, <1>16, <2>2
    <3>2. \A d \in Chat : d # c => v7'[d] = v7[d]
      BY <1>0, <2>2
    <3> QED BY ONLY <1>a, <2>2, <2>3, <3>1, <3>2 DEF AnswersFit
  <2> QED BY <1>a, <2>1, <2>5, <2>6
<1>17. ASSUME Chats!loadOlder \/ Chats!OlderArrive \/ Chats!OlderFails
       PROVE  Goal
  <2>1. UNCHANGED <<v1, v2, v3, v5, v6, v7, v10, v13>>
    BY <1>17 DEF Chats!loadOlder, Chats!OlderArrive, Chats!OlderFails
  <2>2. PagesFit(v8', v9')
    BY <1>a, <1>17, PagesFitOlder
  <2> QED BY <1>a, <2>1, <2>2
<1> HIDE DEF Goal
<1>20. Goal
  <2>1. CASE \E c \in Chat : \/ Chats!OtherPosts(c) \/ Chats!MarkRead(c) \/ Chats!ReadMarked(c)
                             \/ Chats!PickChat(c) \/ Chats!MessagesArrive(c) \/ Chats!onCreateChat(c)
    <3>1. PICK c \in Chat : \/ Chats!OtherPosts(c) \/ Chats!MarkRead(c) \/ Chats!ReadMarked(c)
                            \/ Chats!PickChat(c) \/ Chats!MessagesArrive(c) \/ Chats!onCreateChat(c)
      BY <2>1
    <3> QED BY ONLY <1>1, <1>3, <1>7, <1>11, <1>16, <1>19, <3>1, c \in Chat
  <2>2. CASE \E m \in v10 : Chats!MarkFails(m)
    BY ONLY <1>18, <2>2
  <2>3. CASE \E q \in Chats!Query : Chats!Serve(q)
    BY ONLY <1>2, <2>3
  <2>4. CASE Chats!FrameLost \/ Chats!onSendMessage \/ Chats!PostFails
    BY ONLY <1>14, <2>4
  <2>5. CASE \/ Chats!PostMessage \/ Chats!refresh \/ Chats!ChatsArrive \/ Chats!MessagePosted
             \/ Chats!ChatCreated \/ Chats!ChatOpened
    BY ONLY <1>4, <1>6, <1>8, <1>9, <1>12, <1>15, <2>5
  <2>6. CASE Chats!loadOlder \/ Chats!OlderArrive \/ Chats!OlderFails
    BY ONLY <1>17, <2>6
  <2> QED BY <2>1, <2>2, <2>3, <2>4, <2>5, <2>6, Zenon DEF Chats!Next
<1> QED BY <1>20 DEF Goal

\* Every step of the chats keeps their types.
LEMMA ChatTypesKept ==
    ASSUME Chats!Bounds, Chats!ChatTypesInv, Chats!Next
    PROVE  Chats!ChatTypesInv'
<1>1. Chats!ChatInv'
  BY ChatsKept DEF Chats!ChatTypesInv
<1> QED BY <1>1, ChatFitsOn, ChatTypesNext

\* What stands still keeps them.
LEMMA ChatTypesStay ==
    ASSUME Chats!ChatTypesInv, UNCHANGED slots
    PROVE  Chats!ChatTypesInv'
<1> USE DEF slots
<1>1. Chats!ChatInv /\ RowsFit(v1, v2, v6) /\ AnswersFit(v1, v7) /\ PagesFit(v8, v9)
      /\ RestFits(v2, v3, v5, v10, v13)
  BY ChatTypesNow
<1>2. Chats!ChatInv'
  <2>1. v1 \in Conversations /\ FetchTyped(v7) /\ PostTyped(v11)
    BY <1>1 DEF Chats!ChatInv, Chats!ChatTypes, Conversations, FetchTyped, PostTyped
  <2> QED BY <1>1, <2>1, ChatStays
<1> QED BY <1>1, <1>2, ChatTypesNext

-----------------------------------------------------------------------------
(* The machines together.                                                  *)

\* The machine that moves is always the same; the invariant of each is about it alone.
PlacesInv ==
    /\ machine = "tree" => Tree!LibraryInv
    /\ machine = "unfold" => Unfold!TypeOK
    /\ machine = "tags" => TagRows!RowsInv
    /\ machine = "entry" => Entry!EntryTypesInv
    /\ machine = "chats" => Chats!ChatTypesInv

\* The invariant of the machine that runs holds at first,
LEMMA PlacesInit == Init => PlacesInv
BY Constants, TreeInitially, UnfoldInitially, RowsInitially, EntryTypesInitially, ChatTypesInitially
   DEF Constants, Init, SlotsInit, PlacesInv

\* One of these machines moves, or none.
LEMMA PlacesMove ==
    ASSUME [Next]_vars
    PROVE  /\ machine' = machine
           /\ machine = "tree" => Tree!Next \/ UNCHANGED slots
           /\ machine = "unfold" => Unfold!Next \/ UNCHANGED slots
           /\ machine = "tags" => TagRows!Next \/ UNCHANGED slots
           /\ machine = "entry" => Entry!Next \/ UNCHANGED slots
           /\ machine = "chats" => Chats!Next \/ UNCHANGED slots
BY DEF Next, Moves, vars

\* What stands still keeps its invariant,
LEMMA PlacesRest ==
    ASSUME PlacesInv, UNCHANGED <<machine, slots>>
    PROVE  PlacesInv'
<1>0. machine' = machine /\ UNCHANGED <<v1, v2, v3, v4, v5, v6, v7, v8, v9, v10, v11, v12, v13, v14>>
  BY DEF slots
<1>1. ASSUME machine = "tree" PROVE Tree!LibraryInv'
  BY <1>0, <1>1, TreeStays DEF PlacesInv
<1>2. ASSUME machine = "unfold" PROVE Unfold!TypeOK'
  BY <1>0, <1>2, UnfoldStays DEF PlacesInv
<1>3. ASSUME machine = "tags" PROVE TagRows!RowsInv'
  BY <1>0, <1>3, RowsStay DEF PlacesInv
<1>4. ASSUME machine = "entry" PROVE Entry!EntryTypesInv'
  BY <1>0, <1>4, EntryTypesStay DEF PlacesInv
<1>5. ASSUME machine = "chats" PROVE Chats!ChatTypesInv'
  BY <1>5, ChatTypesStay DEF PlacesInv
<1> QED BY <1>0, <1>1, <1>2, <1>3, <1>4, <1>5 DEF PlacesInv

\* and whatever that machine does, or none.
LEMMA PlacesStep == PlacesInv /\ [Next]_vars => PlacesInv'
<1> SUFFICES ASSUME PlacesInv, [Next]_vars PROVE PlacesInv'
  OBVIOUS
<1>1. CASE UNCHANGED slots
  BY <1>1, PlacesMove, PlacesRest
<1>2. ASSUME ~ UNCHANGED slots
      PROVE  /\ machine = "tree" => Tree!LibraryInv'
             /\ machine = "unfold" => Unfold!TypeOK'
             /\ machine = "tags" => TagRows!RowsInv'
             /\ machine = "entry" => Entry!EntryTypesInv'
             /\ machine = "chats" => Chats!ChatTypesInv'
  BY <1>2, PlacesMove, Constants, TreeKept, UnfoldKept, RowsKept, EntryTypesKept, ChatTypesKept
     DEF Constants, PlacesInv
<1> QED BY <1>1, <1>2, PlacesMove DEF PlacesInv

\* A tree shows an element where the server has it: the folders in the browser, with
\* nothing under way, unless the element was moved by saving its name or touched while
\* something else was under way (FolderView.tsx, ElementUtils.ts); on the phone a row is
\* shown for exactly what lies in a root, all folders above it unfolded, and is as deep as
\* there are such folders (tree.tsx); and the row of a folder shows the address and the
\* code of the one tag bound to it (InventoryView.tsx). For any folders, notes, tags and
\* requests under way.
THEOREM PagesShownWhereItIs == Spec => []ShownWhereItIs
<1>1. PlacesInv => ShownWhereItIs
  <2> SUFFICES ASSUME PlacesInv PROVE ShownWhereItIs
    OBVIOUS
  <2>1. machine = "tags" => TagRows!RowIsBound
    BY RowsShowTheBound DEF PlacesInv
  <2>2. machine = "tree" => Tree!ShownWhereItIs
    BY TreeShownWhereItIs DEF PlacesInv
  <2>3. machine = "unfold" => Unfold!RowsArePaths
    BY Constants, UnfoldShowsPaths DEF Constants, PlacesInv
  <2> QED BY <2>1, <2>2, <2>3 DEF ShownWhereItIs
<1> QED BY PlacesInit, PlacesStep, <1>1, PTL DEF Spec

\* The variables of every machine have their types: what arrives later is what the server
\* had when it was asked, a handler of the form has the title it was called for, and an author
\* it names exists (CreateFolderOrNote.tsx), no chat is read, counted or shown further than
\* it goes (MyMessagesView.tsx).
THEOREM PagesTyped == Spec => []TypeOK
<1>1. PagesInv /\ AgreementInv /\ PlacesInv => TypeOK
  <2> SUFFICES ASSUME PagesInv, AgreementInv, PlacesInv PROVE TypeOK
    OBVIOUS
  <2>1. /\ DeskTypeOK
        /\ machine = "suggest" => Suggest!TypeOK
        /\ machine = "search" => Search!TypeOK
        /\ machine = "viewer" => Viewer!TypeOK
        /\ machine = "panel" => Panel!TypeOK
        /\ machine = "authors" => AuthorPage!TypeOK
        /\ machine = "founding" => Founding!TypeOK
    BY DEF PagesInv, DeskInv, Suggest!SuggestInv, Search!SearchInv, Viewer!ViewerInv,
       Panel!PanelInv, AuthorPage!AuthorInv, Founding!FoundingInv
  <2>2. /\ machine = "stream" => Stream!TypeOK
        /\ machine = "device" => Device!TypeOK
        /\ machine = "session" => Login!TypeOK
        /\ machine = "phone" => Phone!TypeOK
        /\ machine = "invitation" => Letter!TypeOK
    BY DEF AgreementInv, Stream!StreamInv, Device!DeviceInv, Login!SessionInv, Phone!LibraryInv,
       Letter!LetterInv
  <2>3. /\ machine = "tree" => Tree!TypeOK
        /\ machine = "unfold" => Unfold!TypeOK
        /\ machine = "tags" => TagRows!TypeOK
        /\ machine = "entry" => Entry!TypeOK
        /\ machine = "chats" => Chats!TypeOK
    BY DEF PlacesInv, Tree!LibraryInv, Tree!LibraryTypes, TagRows!RowsInv, TagRows!TagInv,
       Entry!EntryTypesInv, Chats!ChatTypesInv
  <2> QED BY <2>1, <2>2, <2>3 DEF TypeOK
<1> QED BY PagesInit, PagesStep, AgreementInit, AgreementStep, PlacesInit, PlacesStep, <1>1, PTL
        DEF Spec
===============================================================================
