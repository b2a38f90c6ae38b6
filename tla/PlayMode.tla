------------------------------ MODULE PlayMode ------------------------------
(***************************************************************************)
(* Turning pages on stage: the player of ui/src/pages/PlayerView.tsx over  *)
(* ui/src/player/playerNav.ts, usePlaylist.ts, pdfjs.ts and notePdf.ts.    *)
(*                                                                         *)
(* One setlist is played. Its pieces have a PDF or none; a PDF is opened   *)
(* when its piece or the one before it comes up and may take any time or   *)
(* fail. Until then a piece counts as one page. The player may be closed   *)
(* and opened again, with the position it has written to localStorage.     *)
(***************************************************************************)
EXTENDS Integers, Sequences, FiniteSets, Functions

CONSTANTS
    Length,     \* number of pieces
    MaxPages    \* bound on the pages of a piece

PlayerBounds == Length \in Nat \ {0} /\ MaxPages \in Nat \ {0}

VARIABLES
    numPages,   \* piece -> pages of its PDF, 0 without one (chosen at the start)
    playlist,   \* "loading" | "ready" | "error"
    docs,       \* piece -> "none" | "loading" | "ready" | "error"
    raw,        \* rawPosition
    stored,     \* the position in localStorage
    spreadMode, \* prefs.spreadMode: "auto" | "single" | "double"
    landscape,  \* the stage is clearly wider than high
    menuOpen, setlistOpen, atEnd, annotating,
    mounted     \* the player is on screen

position_ == <<raw, stored, atEnd>>
panels == <<menuOpen, setlistOpen, annotating>>
playerVars == <<numPages, playlist, docs, position_, spreadMode, landscape, panels, mounted>>

Piece == 0..Length - 1
Position == [piece: Nat, page: Nat \ {0}]
Least(a, b) == IF a < b THEN a ELSE b
Greatest(a, b) == IF a > b THEN a ELSE b

-----------------------------------------------------------------------------
(* playerNav.ts. counts is the sequence of page counts, one per item.      *)

effectivePages(n) == Greatest(1, n)

spreadStart(page, spread) == 1 + ((Greatest(1, page) - 1) \div spread) * spread

\* Mutant: back into a piece goes to its last page, not to the start of the
\* spread that holds it.
lastPage(n, spread) == effectivePages(n)

lastSpreadStart(n, spread) == spreadStart(effectivePages(n), spread)

clampPosition(pos, counts, spread) ==
    IF counts = <<>> THEN [piece |-> 0, page |-> 1]
    ELSE LET piece == Least(Greatest(0, pos.piece), Len(counts) - 1)
             pages == effectivePages(counts[piece + 1])
         IN  [piece |-> piece,
              page |-> spreadStart(Least(Greatest(1, pos.page), pages), spread)]

\* Mutant: one page on, also where two are shown.
nextPage(pos, counts, spread) ==
    LET cur == clampPosition(pos, counts, spread)
    IN  IF counts = <<>> THEN {}
        ELSE IF cur.page < effectivePages(counts[cur.piece + 1])
             THEN {[piece |-> cur.piece, page |-> cur.page + 1]}
             ELSE IF cur.piece + 1 < Len(counts)
                  THEN {[piece |-> cur.piece + 1, page |-> 1]} ELSE {}

\* The positions a turn leads to: none at the very end and the very start.
nextPosition(pos, counts, spread) ==
    LET cur == clampPosition(pos, counts, spread)
        onPage == cur.page + spread
    IN  IF counts = <<>> THEN {}
        ELSE IF onPage <= effectivePages(counts[cur.piece + 1])
             THEN {[piece |-> cur.piece, page |-> onPage]}
             ELSE IF cur.piece + 1 < Len(counts)
                  THEN {[piece |-> cur.piece + 1, page |-> 1]} ELSE {}

prevPosition(pos, counts, spread) ==
    LET cur == clampPosition(pos, counts, spread)
    IN  IF cur.page > 1 THEN {[piece |-> cur.piece, page |-> Greatest(1, cur.page - spread)]}
        ELSE IF cur.piece > 0
             THEN {[piece |-> cur.piece - 1,
                    page |-> lastSpreadStart(counts[cur.piece], spread)]}
             ELSE {}

visiblePages(pos, n, spread) ==
    {p \in pos.page..(pos.page + spread - 1) : p <= effectivePages(n)}

\* Keys: pedals send arrows or PageUp and PageDown.
keyAction == [ArrowRight |-> "next", PageDown |-> "next", ArrowLeft |-> "prev",
              PageUp |-> "prev"]

\* The left 30 % of the stage, its right 45 %, and what is between.
tapZone == [left |-> "prev", right |-> "next", middle |-> "menu"]

\* A swipe to the left turns on.
swipeAction == [left |-> "next", right |-> "prev"]

autoSpread(wide) == IF wide THEN 2 ELSE 1

-----------------------------------------------------------------------------

hasPdf(p) == numPages[p] > 0
spreadOf(mode, wide) ==
    CASE mode = "auto" -> autoSpread(wide) [] mode = "single" -> 1 [] mode = "double" -> 2
Spread == spreadOf(spreadMode, landscape)

\* usePlaylist: no items until the response is there.
ItemsOf(pl) == IF pl = "ready" THEN Piece ELSE {}
CountsOf(pl, d) ==
    IF pl # "ready" THEN <<>>
    ELSE [i \in 1..Length |-> IF d[i - 1] = "ready" THEN numPages[i - 1] ELSE 1]
Counts == CountsOf(playlist, docs)
position == clampPosition(raw, Counts, Spread)
Current == position.piece
CurrentReady == mounted /\ playlist = "ready" /\ docs[Current] = "ready"

\* ensureDoc for the piece on screen and the next: a PDF asked for once is
\* not asked for again, not even after an error.
ensureDoc(pl, d, piece) ==
    [p \in Piece |->
        IF p \in ItemsOf(pl) /\ p \in {piece, piece + 1} /\ hasPdf(p) /\ d[p] = "none"
        THEN "loading" ELSE d[p]]

\* What React does after a change of state: the position is clamped anew, the
\* effect that depends on it writes it to localStorage, and the one on the
\* piece asks for PDFs.
Rendered(pl, d, pos, mode, wide) ==
    LET now == clampPosition(pos, CountsOf(pl, d), spreadOf(mode, wide))
    IN  /\ playlist' = pl /\ raw' = pos /\ spreadMode' = mode /\ landscape' = wide
        /\ stored' = now
        /\ docs' = ensureDoc(pl, d, now.piece)

NoDocs == [p \in Piece |-> "none"]

PlayerTypeOK ==
    /\ numPages \in [Piece -> 0..MaxPages]
    /\ playlist \in {"loading", "ready", "error"}
    /\ docs \in [Piece -> {"none", "loading", "ready", "error"}]
    /\ raw \in Position /\ stored \in Position
    /\ spreadMode \in {"auto", "single", "double"}
    /\ {landscape, menuOpen, setlistOpen, atEnd, annotating, mounted} \subseteq BOOLEAN

PlayerInit ==
    /\ numPages \in [Piece -> 0..MaxPages]
    /\ playlist = "loading"
    /\ docs = NoDocs
    /\ raw = [piece |-> 0, page |-> 1] /\ stored = [piece |-> 0, page |-> 1]
    /\ spreadMode = "auto" /\ landscape \in BOOLEAN
    /\ menuOpen = FALSE /\ setlistOpen = FALSE /\ atEnd = FALSE /\ annotating = FALSE
    /\ mounted = FALSE

\* The player is opened, at a piece the link names or where it was left. Its
\* first render writes the clamped position back, before there are any items.
Open ==
    /\ ~mounted /\ mounted' = TRUE
    /\ \E start \in {stored} \union {[piece |-> p, page |-> 1] : p \in Piece} :
          Rendered("loading", NoDocs, start, spreadMode, landscape)
    /\ menuOpen' = TRUE /\ setlistOpen' = FALSE /\ atEnd' = FALSE /\ annotating' = FALSE
    /\ UNCHANGED numPages

\* The response of the playlist, from the server or from the offline copy.
usePlaylist(answer) ==
    /\ mounted /\ playlist = "loading"
    /\ Rendered(answer, docs, raw, spreadMode, landscape)
    /\ UNCHANGED <<numPages, atEnd, panels, mounted>>

\* A PDF has been fetched, from the device or the server, and opened, or not.
openPdf(p, outcome) ==
    /\ mounted /\ docs[p] = "loading"
    /\ Rendered(playlist, [docs EXCEPT ![p] = outcome], raw, spreadMode, landscape)
    /\ UNCHANGED <<numPages, atEnd, panels, mounted>>

go(action) ==
    LET target == IF action = "next" THEN nextPosition(position, Counts, Spread)
                  ELSE prevPosition(position, Counts, Spread)
    IN  /\ IF target # {}
           THEN \E pos \in target : Rendered(playlist, docs, pos, spreadMode, landscape)
           ELSE UNCHANGED <<playlist, raw, stored, docs, spreadMode, landscape>>
        /\ atEnd' = IF target # {} THEN FALSE ELSE (action = "next" \/ atEnd)
        /\ UNCHANGED <<numPages, panels, mounted>>

onKey == mounted /\ \E action \in Range(keyAction) : go(action)

\* Escape closes the setlist or else toggles the toolbar.
onEscape ==
    /\ mounted
    /\ setlistOpen' = FALSE
    /\ menuOpen' = IF setlistOpen THEN menuOpen ELSE ~menuOpen
    /\ UNCHANGED <<numPages, playlist, docs, position_, spreadMode, landscape, annotating, mounted>>

\* Taps and swipes turn pages, unless they draw. The toolbar and the panels
\* keep theirs to themselves.
onPointerUp ==
    /\ mounted /\ ~annotating
    /\ \/ \E action \in (Range(swipeAction) \union Range(tapZone)) \ {"menu"} : go(action)
       \/ /\ menuOpen' = ~menuOpen
          /\ UNCHANGED <<numPages, playlist, docs, position_, spreadMode, landscape,
                         setlistOpen, annotating, mounted>>

\* The timer of the first 2.5 seconds; later the user's own toggling.
HideMenu ==
    /\ mounted /\ menuOpen
    /\ menuOpen' = FALSE
    /\ UNCHANGED <<numPages, playlist, docs, position_, spreadMode, landscape, setlistOpen,
                   annotating, mounted>>

\* Without a piece on screen the toolbar cannot be hidden.
ToolbarShown == mounted /\ (menuOpen \/ playlist # "ready")

TurnByButton == ToolbarShown /\ (go("next") \/ go("prev"))

cycleSpread ==
    /\ ToolbarShown
    /\ Rendered(playlist, docs, raw,
                CASE spreadMode = "auto" -> "single" [] spreadMode = "single" -> "double"
                  [] OTHER -> "auto",
                landscape)
    /\ UNCHANGED <<numPages, atEnd, panels, mounted>>

Rotate ==
    /\ mounted
    /\ Rendered(playlist, docs, raw, spreadMode, ~landscape)
    /\ UNCHANGED <<numPages, atEnd, panels, mounted>>

ToggleAnnotating ==
    /\ ToolbarShown /\ CurrentReady
    /\ annotating' = ~annotating
    /\ menuOpen' = FALSE
    /\ UNCHANGED <<numPages, playlist, docs, position_, spreadMode, landscape, setlistOpen,
                   mounted>>

\* "Done" in the palette, which is only there while the PDF is.
StopAnnotating ==
    /\ annotating /\ CurrentReady
    /\ annotating' = FALSE
    /\ UNCHANGED <<numPages, playlist, docs, position_, spreadMode, landscape, menuOpen,
                   setlistOpen, mounted>>

ToggleSetlist ==
    /\ ToolbarShown /\ Cardinality(ItemsOf(playlist)) > 1
    /\ setlistOpen' = ~setlistOpen
    /\ UNCHANGED <<numPages, playlist, docs, position_, spreadMode, landscape, menuOpen,
                   annotating, mounted>>

jumpTo(piece) ==
    /\ mounted /\ setlistOpen /\ piece \in ItemsOf(playlist)
    /\ Rendered(playlist, docs, [piece |-> piece, page |-> 1], spreadMode, landscape)
    /\ atEnd' = FALSE /\ setlistOpen' = FALSE
    /\ UNCHANGED <<numPages, menuOpen, annotating, mounted>>

\* The player is left, by its button or any other way: the documents that are
\* open are freed.
close ==
    /\ mounted /\ mounted' = FALSE
    /\ docs' = NoDocs /\ playlist' = "loading" /\ raw' = [piece |-> 0, page |-> 1]
    /\ menuOpen' = FALSE /\ setlistOpen' = FALSE /\ atEnd' = FALSE /\ annotating' = FALSE
    /\ UNCHANGED <<numPages, stored, spreadMode, landscape>>

PlayerNext ==
    \/ Open
    \/ \E answer \in {"ready", "error"} : usePlaylist(answer)
    \/ \E p \in Piece, outcome \in {"ready", "error"} : openPdf(p, outcome)
    \/ onKey \/ onEscape \/ onPointerUp \/ HideMenu \/ TurnByButton
    \/ cycleSpread \/ Rotate \/ ToggleAnnotating \/ StopAnnotating \/ ToggleSetlist
    \/ \E piece \in Piece : jumpTo(piece)
    \/ close

PlayerSpec == PlayerInit /\ [][PlayerNext]_playerVars

-----------------------------------------------------------------------------
(* Properties.                                                             *)

\* Turning on from a piece whose PDF is open shows the page after the last
\* one that was visible, or the start of the next piece, or says that this was
\* the end (PlayerView.tsx:265-276 over playerNav.ts:41-52): no page of the
\* music is skipped or shown twice, in either spread.
SkipsNone ==
    mounted /\ CurrentReady /\ go("next") =>
        LET seen == visiblePages(position, numPages[Current], Spread)
            lastSeen == CHOOSE p \in seen : \A q \in seen : q <= p
        IN  IF lastSeen < numPages[Current]
            THEN position' = [piece |-> Current, page |-> lastSeen + 1]
            ELSE IF Current < Length - 1
                 THEN position' = [piece |-> Current + 1, page |-> 1]
                 ELSE position' = position /\ atEnd'
NoPageSkipped == [][SkipsNone]_playerVars

\* Turning back undoes turning on, whatever has been loaded by then and
\* whatever the spread (playerNav.ts:41-67).
BackUndoesNext ==
    \A pos \in nextPosition(position, Counts, Spread) :
        prevPosition(pos, Counts, Spread) = {position}
=============================================================================
