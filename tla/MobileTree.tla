------------------------------ MODULE MobileTree ------------------------------
(***************************************************************************)
(* The tree of the app for phones (smartorganizr-mobile/app/redirect/      *)
(* tree.tsx): the folders and notes of one answer made into nodes, and the *)
(* rows of those that are unfolded.  The folders and the notes are fetched *)
(* by two requests, from the network or from what is stored, so a parent   *)
(* may be missing, and on the server a folder may lie in a folder of its   *)
(* own (folderService.go:326-336).  A node is known by its id; the order   *)
(* of the rows is left out.                                                *)
(***************************************************************************)
EXTENDS Naturals, FiniteSets

CONSTANTS Folder, Note, NoParent

TreeNulls == NoParent \notin Folder /\ Folder \intersect Note = {} /\ IsFiniteSet(Folder)

VARIABLES
    folders, notes,     \* the last answer: what is in it and where it lies
    expandedIds

vars == <<folders, notes, expandedIds>>

Parents == Folder \union {NoParent}

\* Some of the elements, each with a parent.
Placed(S) == UNION {[part -> Parents] : part \in SUBSET S}

TypeOK ==
    /\ folders \in Placed(Folder) /\ notes \in Placed(Note)
    /\ expandedIds \subseteq Folder

Nothing == [x \in {} |-> NoParent]

Init ==
    /\ folders = Nothing /\ notes = Nothing /\ expandedIds = {}

-----------------------------------------------------------------------------
(* buildTree.                                                              *)

nodesById == DOMAIN folders

\* A folder whose parent the answer has not is a root.
rootIds == {f \in nodesById : folders[f] \notin nodesById}

childrenByParent(f) == {g \in nodesById : folders[g] = f}

\* A note is put into its folder's node, or nowhere.
notesOf(f) == {n \in DOMAIN notes : notes[n] = f}

attachChildren(f) == childrenByParent(f) \union notesOf(f)

\* The nodes flattenTree reaches at a depth: no folder lies deeper than there are folders.
Depths == 0..Cardinality(nodesById)
flattenTree[depth \in Depths] ==
    IF depth = 0 THEN rootIds
    ELSE UNION {attachChildren(f) : f \in flattenTree[depth - 1] \intersect expandedIds}

rows == UNION {{[id |-> x, depth |-> d] : x \in flattenTree[d]} : d \in Depths}

-----------------------------------------------------------------------------
\* The query ["tree-data"] is answered again; what is unfolded stays so.
Answered ==
    /\ folders' \in Placed(Folder)
    /\ notes' \in Placed(Note)
    /\ UNCHANGED expandedIds

\* A row of a folder is pressed; a note's opens its page.
toggleFolder ==
    /\ \E row \in rows :
          /\ row.id \in nodesById
          /\ expandedIds' = IF row.id \in expandedIds THEN expandedIds \ {row.id}
                            ELSE expandedIds \union {row.id}
    /\ UNCHANGED <<folders, notes>>

Next == Answered \/ toggleFolder

Spec == Init /\ [][Next]_vars

-----------------------------------------------------------------------------
(* The folders above: what every set of folders has that leaves no parent  *)
(* out.                                                                    *)
parentOf(x) == IF x \in Note THEN notes[x] ELSE folders[x]

LeavesNoneOut(S, x) == \A y \in S \union {x} : parentOf(y) \in nodesById => parentOf(y) \in S

Above(x) == {f \in nodesById : \A S \in SUBSET nodesById : LeavesNoneOut(S, x) => f \in S}

Shown(x) == Above(x) \subseteq expandedIds /\ rootIds \intersect (Above(x) \union {x}) # {}

(* A row is shown for exactly the folders and notes that lie, at whatever  *)
(* depth, in a root, all of the folders above them unfolded, and it is as  *)
(* deep as there are such folders: none twice, none lost while its folders *)
(* are there, none of what lies in itself (buildTree, flattenTree).        *)
RowsArePaths ==
    rows = {[id |-> x, depth |-> Cardinality(Above(x))] :
               x \in {y \in DOMAIN folders \union DOMAIN notes : Shown(y)}}
=============================================================================
