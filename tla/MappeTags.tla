------------------------------ MODULE MappeTags ------------------------------
(***************************************************************************)
(* The tag on the cover of a folder: the server binds a new one to a       *)
(* folder (BindTag, inventoryService.go), a row of the inventory screen    *)
(* shows its address and its QR code and prints it (FolderRow,             *)
(* InventoryView.tsx; QrCode.ts), and a scanned one opens a sweep of the   *)
(* folder (the link of InventoryView, ResolveTag).                         *)
(*                                                                         *)
(* The server deletes the old tag and inserts the new one in two           *)
(* statements without a transaction; the row shows the address when it is  *)
(* answered, and the code when it has been rendered.                       *)
(***************************************************************************)
EXTENDS Integers, FiniteSets

CONSTANTS
    Folder,
    Call,           \* requests for a tag that may be under way at once
    NoTag,
    MaxTags         \* bound: tags that are ever made

Tag == 1..MaxTags

TagBounds == MaxTags \in Nat /\ NoTag \notin Tag

VARIABLES
    folders,        \* the folders there are
    tags,           \* the table mappe_tag
    made,           \* how many tags were made: ids are never used again
    row,            \* row[f]: tag and qrDataUrl of the folder's row
    bind,           \* bind[c]: a bindTag under way
    printed,        \* codes on covers
    link,           \* a scanned code: where its page is
    unsure          \* history: the folders whose last request for a tag met
                    \* another one or came to no end

vars == <<folders, tags, made, row, bind, printed, link, unsure>>

NoBind == [pc |-> "idle", folder |-> NoTag, tag |-> NoTag, shown |-> FALSE]
NoLink == [pc |-> "none", tag |-> NoTag, folder |-> NoTag]
Empty == [url |-> NoTag, qr |-> NoTag]

TypeOK ==
    /\ folders \subseteq Folder
    /\ tags \subseteq Tag \X folders
    /\ made \in 0..MaxTags
    /\ row \in [Folder -> [url : Tag \union {NoTag}, qr : Tag \union {NoTag}]]
    /\ bind \in [Call -> [pc : {"idle", "delete", "insert", "answer", "render"},
                          folder : Folder \union {NoTag}, tag : Tag \union {NoTag},
                          shown : BOOLEAN]]
    /\ \A c \in Call : bind[c].pc # "idle" => bind[c].folder \in Folder
    /\ printed \subseteq Tag \X Folder
    /\ link \in [pc : {"none", "resolve", "start", "opened"}, tag : Tag \union {NoTag},
                 folder : Folder \union {NoTag}]
    /\ unsure \subseteq Folder

Init ==
    /\ folders = Folder /\ tags = {} /\ made = 0
    /\ row = [f \in Folder |-> Empty]
    /\ bind = [c \in Call |-> NoBind]
    /\ printed = {} /\ link = NoLink /\ unsure = {}

UnderWay(f) == {c \in Call : bind[c].pc # "idle" /\ bind[c].folder = f}

-----------------------------------------------------------------------------
(* The row of a folder, and the request it sends.                          *)

\* The button is never disabled.
bindTag(c, f) ==
    /\ bind[c].pc = "idle"
    /\ bind' = [bind EXCEPT ![c] = [pc |-> "delete", folder |-> f, tag |-> NoTag, shown |-> TRUE]]
    /\ unsure' = IF UnderWay(f) = {} THEN unsure \ {f} ELSE unsure \union {f}
    /\ UNCHANGED <<folders, tags, made, row, printed, link>>

\* FindFolderById and DeleteMappeTagForFolder.
DeleteMappeTagForFolder(c) ==
    LET f == bind[c].folder IN
    /\ bind[c].pc = "delete" /\ f \in folders
    /\ tags' = {t \in tags : t[2] # f}
    /\ bind' = [bind EXCEPT ![c].pc = "insert"]
    /\ UNCHANGED <<folders, made, row, printed, link, unsure>>

\* The key uniq_mappe_tag_folder.
Unique(f) == \A t \in tags : t[2] # f

CreateMappeTag(c) ==
    LET f == bind[c].folder IN
    /\ bind[c].pc = "insert" /\ made < MaxTags
    /\ f \in folders /\ Unique(f)
    /\ made' = made + 1
    /\ tags' = tags \union {<<made', f>>}
    /\ bind' = [bind EXCEPT ![c].pc = "answer", ![c].tag = made']
    /\ UNCHANGED <<folders, row, printed, link, unsure>>

\* A statement fails, the folder is gone, the key is taken, the answer is
\* lost, or the code is not rendered: the row stays as it is.
BindFails(c) ==
    /\ bind[c].pc # "idle"
    /\ bind' = [bind EXCEPT ![c] = NoBind]
    /\ unsure' = unsure \union {bind[c].folder}
    /\ UNCHANGED <<folders, tags, made, row, printed, link>>

\* setTag: the address is shown beside the code of the last one.
BindAnswered(c) ==
    /\ bind[c].pc = "answer"
    /\ row' = IF bind[c].shown THEN [row EXCEPT ![bind[c].folder].url = bind[c].tag] ELSE row
    /\ bind' = [bind EXCEPT ![c].pc = "render"]
    /\ UNCHANGED <<folders, tags, made, printed, link, unsure>>

\* setQrDataUrl.
renderQrDataUrl(c) ==
    /\ bind[c].pc = "render"
    /\ row' = IF bind[c].shown THEN [row EXCEPT ![bind[c].folder].qr = bind[c].tag] ELSE row
    /\ bind' = [bind EXCEPT ![c] = NoBind]
    /\ UNCHANGED <<folders, tags, made, printed, link, unsure>>

\* A sweep starts or the page is left: the rows are gone, and come back empty.
Leave ==
    /\ row' = [f \in Folder |-> Empty]
    /\ bind' = [c \in Call |-> [bind[c] EXCEPT !.shown = FALSE]]
    /\ UNCHANGED <<folders, tags, made, printed, link, unsure>>

printQrCode(f) ==
    /\ row[f].url # NoTag /\ row[f].qr # NoTag
    /\ printed' = printed \union {<<row[f].qr, f>>}
    /\ UNCHANGED <<folders, tags, made, row, bind, link, unsure>>

-----------------------------------------------------------------------------
(* Scanning, on any device.                                                *)

Scan ==
    /\ link.pc \in {"none", "opened"}
    /\ \E code \in printed : link' = [NoLink EXCEPT !.pc = "resolve", !.tag = code[1]]
    /\ UNCHANGED <<folders, tags, made, row, bind, printed, unsure>>

ResolveTag ==
    /\ link.pc = "resolve"
    /\ link' = IF \E f \in Folder : <<link.tag, f>> \in tags
               THEN [link EXCEPT !.pc = "start",
                                 !.folder = CHOOSE f \in Folder : <<link.tag, f>> \in tags]
               ELSE NoLink
    /\ UNCHANGED <<folders, tags, made, row, bind, printed, unsure>>

\* CreateSweep looks for the folder again.
startSweep ==
    /\ link.pc = "start"
    /\ link' = IF link.folder \in folders THEN [link EXCEPT !.pc = "opened"] ELSE NoLink
    /\ UNCHANGED <<folders, tags, made, row, bind, printed, unsure>>

-----------------------------------------------------------------------------
\* A folder is deleted, and its tag with it.
DeleteFolder(f) ==
    /\ f \in folders
    /\ folders' = folders \ {f}
    /\ tags' = {t \in tags : t[2] # f}
    /\ UNCHANGED <<made, row, bind, printed, link, unsure>>

Next ==
    \/ \E c \in Call :
          \/ \E f \in Folder : bindTag(c, f)
          \/ DeleteMappeTagForFolder(c) \/ CreateMappeTag(c) \/ BindFails(c)
          \/ BindAnswered(c) \/ renderQrDataUrl(c)
    \/ \E f \in Folder : printQrCode(f) \/ DeleteFolder(f)
    \/ Leave \/ Scan \/ ResolveTag \/ startSweep

Spec == Init /\ [][Next]_vars

-----------------------------------------------------------------------------
(* A code opens a sweep of the folder it sticks on, or none: also when the *)
(* folder got another tag, or was deleted, since it was printed, and       *)
(* however requests for tags crossed (BindTag, ResolveTag, FolderRow).     *)
OpensItsFolder == link.pc = "opened" => \A f \in Folder :
    <<link.tag, f>> \in printed => f = link.folder

(* Why: a tag that was made for a folder is never another one's, wherever  *)
(* its code is by now: in the table, on a row, on its way or on a cover.   *)
(* What was scanned sticks somewhere.                                      *)
CodeOf(t, f) ==
    \/ <<t, f>> \in tags \union printed
    \/ f \in Folder /\ row[f].qr = t
    \/ \E c \in Call : bind[c].tag = t /\ bind[c].folder = f

OneFolder ==
    \A t \in Tag : /\ \A f, g \in Folder : CodeOf(t, f) /\ CodeOf(t, g) => f = g
                   /\ t > made => \A f \in Folder : ~ CodeOf(t, f)

OnACover ==
    /\ link.pc \in {"resolve", "start", "opened"} =>
          \E f \in Folder : <<link.tag, f>> \in printed
    /\ link.pc \in {"start", "opened"} => <<link.tag, link.folder>> \in printed

TagInv == TypeOK /\ OneFolder /\ OnACover

(* The row of a folder shows the address and the code of its one tag.      *)
Settled(f) == row[f].qr = row[f].url /\ {t \in tags : t[2] = f} = {<<row[f].url, f>>}

(* A row at rest shows the address and the code of the one tag that is     *)
(* bound to its folder, unless a second request met the last one or the    *)
(* last one failed (inventoryService.go:311-326, InventoryView.tsx:        *)
(* 625-629).                                                               *)
RowIsBound ==
    \A f \in folders \ unsure :
       row[f].url # NoTag /\ UnderWay(f) = {}
          => Settled(f)

(* Why a row at rest shows what is bound: what one request, alone with its *)
(* folder since it was sent, has done up to now.                           *)
DoneSoFar(c) ==
    LET f == bind[c].folder IN
    /\ ~ bind[c].shown => row[f].url = NoTag
    /\ bind[c].pc \in {"answer", "render"} =>
          bind[c].tag \in Tag /\ {t \in tags : t[2] = f} = {<<bind[c].tag, f>>}
    /\ bind[c].pc = "render" /\ bind[c].shown => row[f].url = bind[c].tag

RowsFollow ==
    \A f \in folders \ unsure :
       /\ \A c, d \in UnderWay(f) : c = d
       /\ \A c \in UnderWay(f) : DoneSoFar(c)
       /\ UnderWay(f) = {} /\ row[f].url # NoTag => Settled(f)

RowsInv == TagInv /\ RowsFollow

(* What is printed is bound: refuted, for the old code stays beside the    *)
(* new address until the new one is rendered (InventoryView.tsx:625-629).  *)
PrintsBound == [][\A code \in printed' \ printed : code[2] \in folders => code \in tags]_vars
=============================================================================
