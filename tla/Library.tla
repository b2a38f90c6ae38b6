-------------------------------- MODULE Library --------------------------------
(***************************************************************************)
(* The folder tree of a user's sheet music (ui/src/pages/FolderView.tsx,   *)
(* ui/src/components/Tree.tsx, UpdateFolderOrNote.tsx, the cache update of *)
(* CreateFolderOrNote.tsx and FileUploadModal.tsx, ui/src/utils/           *)
(* ElementUtils.ts), over the elements the server keeps (external:         *)
(* folderService.go). The tree is the cached answer of "parentDecks", the  *)
(* root folders, into which children are written as folders are opened.    *)
(*                                                                         *)
(* Kept of an element: where it is shown and the parent its cached copy    *)
(* names. Copies of one folder at two places share their children.         *)
(***************************************************************************)
EXTENDS Integers, FiniteSets

CONSTANTS
    Folder, Note,
    Root,           \* the parent of root folders
    New, Gone,      \* not created yet; deleted
    Call            \* slots for requests under way

Element == Folder \union Note
Place == Folder \union {Root}
Nulls == /\ Folder \intersect Note = {} /\ Root \notin Element
         /\ New # Gone /\ {New, Gone} \intersect (Place \union Element) = {}

VARIABLES
    home,       \* server: element -> its parent
    shown,      \* the cached tree: <<place, element>> edges
    parent,     \* element -> parent of the cached copy
    loaded,     \* loadedFolders: never fetched again
    fetch,      \* the refetch of the root folders: [pc, roots]
    call,
    adrift      \* history: moved by saving its name, or changed while something
                \* else was under way, or by a request whose answer was lost, or still
                \* shown where it was when something else was dragged

tree == <<shown, parent, loaded>>
vars == <<home, tree, fetch, call, adrift>>

Idle == [pc |-> "idle", element |-> Root, to |-> Root, its |-> Root, children |-> {},
         below |-> {}, touched |-> {}]
NoFetch == [pc |-> "none", roots |-> {}]
Sent == [pc |-> "sent", roots |-> {}]
Busy == {c \in Call : call[c].pc # "idle"}
Quiet == Busy = {} /\ fetch = NoFetch

\* Everything below x along these edges, and x: what every set has that leaves nothing out.
Keeps(S, x, edges) == x \in S /\ \A e \in edges : e[1] \in S => e[2] \in S
From(x, edges) ==
    {y \in Element \union {Root} :
        \A S \in SUBSET (Element \union {Root}) : Keeps(S, x, edges) => y \in S}

Visible(edges) == LET there == From(Root, edges) IN {e \in edges : e[1] \in there}
\* Where something can be kept.
Places == {Root} \union {f \in Folder : home[f] \notin {New, Gone}}
Displayed == {e[2] : e \in shown}
Subtree(x) == LET there == From(x, shown) IN {e \in shown : e[1] \in there}
KeptBelow(x) == From(x, {<<home[y], y>> : y \in Element})

TypeOK ==
    /\ home \in [Element -> Place \union {New, Gone}]
    /\ shown \subseteq Place \X Element
    /\ parent \in [Element -> Place]
    /\ loaded \subseteq Folder
    /\ fetch.pc \in {"none", "sent", "answered"} /\ fetch.roots \subseteq Folder
    /\ adrift \subseteq Element

Roots == {f \in Folder : home[f] = Root}

\* The page is opened with the root folders loaded.
Init ==
    /\ home \in {h \in [Element -> Place \union {New}] :
                    /\ \A n \in Note : h[n] # Root
                    /\ \A x \in Element : h[x] \in Folder => h[h[x]] = Root}
    /\ shown = {<<Root, f>> : f \in Roots}
    /\ parent = [x \in Element |-> Root]
    /\ loaded = {}
    /\ fetch = NoFetch
    /\ call = [c \in Call |-> Idle]
    /\ adrift = {}

-----------------------------------------------------------------------------
(* ElementUtils: rewriting the cached tree.                                *)

\* The element with this id is replaced, wherever it is, by a copy with these
\* elements in it and this parent.
traverseTree(x, elements, its) ==
    IF x \in Displayed
    THEN /\ shown' = Visible({e \in shown : e[1] # x} \union ({x} \X elements))
         /\ parent' = [y \in Element |-> IF y \in elements THEN x
                                        ELSE IF y = x THEN its ELSE parent[y]]
    ELSE UNCHANGED <<shown, parent>>

\* Mutant: the element stays where it was.
KeepsChild(x, edges) == edges

deleteChild(x, edges) == Visible({e \in edges : e[2] # x})

\* Added to what is in that folder, if the tree has the folder.
addChild(x, below, edges, place) ==
    IF place = Root \/ \E e \in edges : e[2] = place
    THEN edges \union {<<place, x>>} \union below ELSE edges

-----------------------------------------------------------------------------
(* Requests: what a request does on the server and its answer are steps of *)
(* their own.                                                              *)

Calls(c, record) == c \notin Busy /\ call' = [call EXCEPT ![c] = record]
Ends(c) == call' = [call EXCEPT ![c] = Idle]
Answered(c, record) == call' = [call EXCEPT ![c] = record]

\* What is changed while something else is under way may be shown wrongly, and
\* what is deleted with what was.
Changes(c, elements) ==
    adrift' = IF Busy = {c} /\ fetch = NoFetch /\ elements \intersect adrift = {}
              THEN adrift ELSE adrift \union elements

\* What has been moved or deleted and is shown where it was until the answer comes.
Awaited == UNION {call[c].touched : c \in {d \in Call : call[d].pc \in {"moved", "deleted"}}}

\* Only the console hears of an error; a folder that could not be loaded counts
\* as loaded. What was asked for may have been done.
RequestFails(c) ==
    /\ call[c].pc \in {"children", "move", "patch", "delete", "create", "upload"}
    /\ Ends(c)
    /\ UNCHANGED <<home, tree, fetch, adrift>>

AnswerLost(c) ==
    /\ call[c].pc \in {"moved", "patched", "deleted", "created"}
    /\ Ends(c)
    /\ adrift' = adrift \union call[c].touched
    /\ UNCHANGED <<home, tree, fetch>>

-----------------------------------------------------------------------------
(* Opening folders.                                                        *)

\* A folder counts as loaded when its children are asked for. Which folders are
\* open is layout; "expand all" opens folders and loads none.
onToggleFolder(c, f) ==
    /\ f \in Displayed \ loaded
    /\ loaded' = loaded \union {f}
    /\ Calls(c, [Idle EXCEPT !.pc = "children", !.element = f, !.its = parent[f]])
    /\ UNCHANGED <<home, shown, parent, fetch, adrift>>

\* GET /v1/elements/:id/children.
FindNextChildren(c) ==
    /\ call[c].pc = "children"
    /\ Answered(c, [call[c] EXCEPT !.pc = "loaded",
                                  !.children = {x \in Element : home[x] = call[c].element}])
    /\ UNCHANGED <<home, tree, fetch, adrift>>

\* The folder as it was when it was clicked gets the new children, none of
\* which has any itself.
handleNewElements(c) ==
    /\ call[c].pc = "loaded"
    /\ traverseTree(call[c].element, call[c].children, call[c].its)
    /\ Ends(c)
    /\ UNCHANGED <<home, loaded, fetch, adrift>>

-----------------------------------------------------------------------------
(* Moving: dragging a row onto a folder's row, its own subfolders included. *)

moveToFolder(c, x, f) ==
    /\ {x, f} \subseteq Displayed /\ x # f
    /\ Calls(c, [Idle EXCEPT !.pc = "move", !.element = x, !.to = f, !.its = parent[x],
                             !.below = Subtree(x)])
    /\ adrift' = adrift \union Awaited \union {y \in {x} : \E e \in Subtree(x) : e[2] = y}
    /\ UNCHANGED <<home, tree, fetch>>

\* PATCH /v1/elements/:id/:folder asks no questions.
MoveToFolder(c) ==
    LET x == call[c].element IN
    /\ call[c].pc = "move" /\ home[x] # Gone /\ call[c].to \in Places
    /\ home' = [home EXCEPT ![x] = call[c].to]
    /\ Changes(c, {x})
    /\ Answered(c, [call[c] EXCEPT !.pc = "moved", !.touched = {x}])
    /\ UNCHANGED <<tree, fetch>>

\* The row as it was when it was dragged, with what was below it.
Moved(c) ==
    LET x == call[c].element IN
    /\ call[c].pc = "moved"
    /\ shown' = addChild(x, call[c].below, deleteChild(x, shown), call[c].to)
    /\ parent' = [parent EXCEPT ![x] = call[c].its]
    /\ Ends(c)
    /\ UNCHANGED <<home, loaded, fetch, adrift>>

-----------------------------------------------------------------------------
(* UpdateFolderOrNote: name and description, and deleting a folder.        *)

\* A folder is sent with the parent the cached copy names.
onSubmit(c, x) ==
    /\ x \in Displayed
    /\ Calls(c, [Idle EXCEPT !.pc = "patch", !.element = x, !.to = parent[x]])
    /\ UNCHANGED <<home, tree, fetch, adrift>>

\* PATCH /v1/elements/folders/:id puts the folder there; the one for notes
\* leaves the note where it is.
UpdateFolder(c) ==
    LET x == call[c].element
        to == IF x \in Folder THEN call[c].to ELSE home[x] IN
    /\ call[c].pc = "patch" /\ home[x] # Gone
    /\ x \in Folder => to \in Places
    /\ home' = [home EXCEPT ![x] = to]
    /\ adrift' = IF home[x] # to THEN adrift \union {x} ELSE adrift
    /\ Answered(c, [call[c] EXCEPT !.pc = "patched", !.its = IF x \in Folder THEN Root ELSE to])
    /\ UNCHANGED <<tree, fetch>>

\* replaceFolder and replaceNote: the answer for a folder names neither what is
\* in it nor its parent.
Patched(c) ==
    /\ call[c].pc = "patched"
    /\ traverseTree(call[c].element, {}, call[c].its)
    /\ Ends(c)
    /\ UNCHANGED <<home, loaded, fetch, adrift>>

deleteMutation(c, f) ==
    /\ f \in Displayed
    /\ Calls(c, [Idle EXCEPT !.pc = "delete", !.element = f])
    /\ UNCHANGED <<home, tree, fetch, adrift>>

\* With everything in it.
DeleteFolder(c) ==
    LET all == KeptBelow(call[c].element) IN
    /\ call[c].pc = "delete" /\ home[call[c].element] # Gone
    /\ home' = [x \in Element |-> IF x \in all THEN Gone ELSE home[x]]
    /\ Changes(c, all)
    /\ Answered(c, [call[c] EXCEPT !.pc = "deleted", !.touched = all])
    /\ UNCHANGED <<tree, fetch>>

onDelete(c) ==
    /\ call[c].pc = "deleted"
    /\ shown' = deleteChild(call[c].element, shown)
    /\ Ends(c)
    /\ UNCHANGED <<home, parent, loaded, fetch, adrift>>

-----------------------------------------------------------------------------
(* Saving a new element, and uploading a PDF.                              *)

\* Any folder can be found as the parent; a note needs one.
createFolderOrNote(c, x, place) ==
    /\ home[x] = New /\ x \notin {call[d].element : d \in Busy}
    /\ place \in Places /\ (x \in Note => place # Root)
    /\ Calls(c, [Idle EXCEPT !.pc = "create", !.element = x, !.to = place])
    /\ UNCHANGED <<home, tree, fetch, adrift>>

CreateElement(c) ==
    LET x == call[c].element IN
    /\ call[c].pc = "create"
    /\ call[c].to \in Places
    /\ home' = [home EXCEPT ![x] = call[c].to]
    /\ Changes(c, {x})
    /\ Answered(c, [call[c] EXCEPT !.pc = "created", !.touched = {x}])
    /\ UNCHANGED <<tree, fetch>>

\* The new element is added, "belt", and the roots are fetched, "suspenders".
updateCache(c) ==
    LET x == call[c].element IN
    /\ call[c].pc = "created"
    /\ shown' = addChild(x, {}, shown, call[c].to)
    /\ parent' = [parent EXCEPT ![x] = call[c].to]
    /\ fetch' = Sent
    /\ Ends(c)
    /\ UNCHANGED <<home, loaded, adrift>>

sendFiles(c, n) ==
    /\ n \in Displayed \intersect Note
    /\ Calls(c, [Idle EXCEPT !.pc = "upload", !.element = n])
    /\ UNCHANGED <<home, tree, fetch, adrift>>

Uploaded(c) ==
    /\ call[c].pc = "upload" /\ home[call[c].element] # Gone
    /\ fetch' = Sent
    /\ Ends(c)
    /\ UNCHANGED <<home, tree, adrift>>

-----------------------------------------------------------------------------
(* Fetching the roots: after that, or when the window gets the focus after *)
(* ten minutes.                                                            *)

RefetchOnFocus ==
    /\ fetch = NoFetch /\ fetch' = Sent
    /\ UNCHANGED <<home, tree, call, adrift>>

FindAllParentFolders ==
    /\ fetch = Sent /\ fetch' = [pc |-> "answered", roots |-> Roots]
    /\ UNCHANGED <<home, tree, call, adrift>>

\* The tree becomes the roots, whatever was open.
RootsArrive ==
    /\ fetch.pc = "answered" /\ fetch' = NoFetch
    /\ shown' = {Root} \X fetch.roots
    /\ parent' = [x \in Element |-> IF x \in fetch.roots THEN Root ELSE parent[x]]
    /\ UNCHANGED <<home, loaded, call, adrift>>

-----------------------------------------------------------------------------

Handle(c) ==
    \/ RequestFails(c) \/ AnswerLost(c)
    \/ \E f \in Folder : onToggleFolder(c, f) \/ deleteMutation(c, f)
    \/ FindNextChildren(c) \/ handleNewElements(c)
    \/ \E x \in Element, f \in Folder : moveToFolder(c, x, f)
    \/ MoveToFolder(c) \/ Moved(c)
    \/ \E x \in Element : onSubmit(c, x)
    \/ UpdateFolder(c) \/ Patched(c) \/ DeleteFolder(c) \/ onDelete(c)
    \/ \E x \in Element, place \in Place : createFolderOrNote(c, x, place)
    \/ CreateElement(c) \/ updateCache(c)
    \/ \E n \in Note : sendFiles(c, n)
    \/ Uploaded(c)

Next ==
    \/ \E c \in Call : Handle(c)
    \/ RefetchOnFocus \/ FindAllParentFolders \/ RootsArrive

Spec == Init /\ [][Next]_vars

-----------------------------------------------------------------------------
(* Properties.                                                             *)

\* With nothing under way an element is shown where the server has it and
\* nowhere else, after any number of moves, loads, saves, deletions and
\* refetches (Tree.tsx:55-79, 135-152, UpdateFolderOrNote.tsx:168-225), unless
\* saving its name moved it (the copy names an old parent, or after the second
\* save none), it was changed while something else was under way, or the answer
\* was lost.
ShownWhereItIs ==
    Quiet => \A e \in shown : home[e[2]] = e[1] \/ e[2] \in adrift

\* Why: whatever is shown, or on its way to be, is where the server has it, or adrift,
\* or was moved or deleted by a request that has not been answered.
Pending(c) ==
    call[c].below \union ({call[c].element} \X call[c].children)
        \union (IF call[c].pc \in {"moved", "created"} THEN {<<call[c].to, call[c].element>>} ELSE {})
OnTheWay == (UNION {Pending(c) : c \in Call}) \union ({Root} \X fetch.roots)
Right(e) == home[e[2]] = e[1] \/ e[2] \in adrift

InPlace ==
    /\ \A e \in OnTheWay : Right(e)
    /\ \A e \in shown : Right(e) \/ e[2] \in Awaited

\* What is deleted hangs together, wherever it is shown.
Together(c) ==
    LET all == call[c].touched IN
    /\ call[c].element \in all /\ \A y \in all : home[y] = Gone
    /\ \/ all \subseteq adrift
       \/ \A e \in shown \union OnTheWay : e[2] \in all \ {call[c].element} => e[1] \in all

Followable ==
    /\ \A c \in Call : call[c].pc = "deleted" => Together(c)
    /\ \A c \in Call : call[c].pc = "moved" => call[c].touched = {call[c].element}
    /\ \A c \in Call : call[c].pc \in {"move", "moved"} =>
          \A e \in call[c].below : e[2] = call[c].element => e[2] \in adrift

\* The types that rests on: what was never created is neither shown nor on its way.
There == {x \in Element : home[x] # New}
Asked == [pc: {"idle", "children", "loaded", "move", "moved", "patch", "patched", "delete",
               "deleted", "create", "created", "upload"},
          element: Element \union {Root}, to: Place, its: Place, children: SUBSET Element,
          below: SUBSET (Place \X Element), touched: SUBSET Element]

LibraryTypes ==
    /\ TypeOK /\ fetch \in [pc: {"none", "sent", "answered"}, roots: SUBSET There]
    /\ fetch.pc # "answered" => fetch.roots = {}
    /\ call \in [Call -> Asked]
    /\ \A c \in Call : /\ call[c].children # {} => call[c].pc = "loaded"
                       /\ call[c].below # {} => call[c].pc \in {"move", "moved"}
    /\ \A e \in shown \union OnTheWay : e[2] \in There
    /\ \A c \in Busy : call[c].pc = "create" <=> call[c].element \notin There
    /\ \A c, d \in Busy : call[c].pc = "create" /\ call[c].element = call[d].element => c = d
    /\ \A c \in Busy : call[c].element \in Element
    /\ \A c \in Busy : call[c].pc \in {"children", "loaded", "delete", "deleted"} => call[c].element \in Folder

LibraryInv == LibraryTypes /\ InPlace /\ Followable
===============================================================================
