------------------------------- MODULE MCSweeps -------------------------------
(* Small instances for TLC of the inventory sweep on the server and of     *)
(* three pages of the client: the screen of a sweep, the player and the    *)
(* pen marks. The screen takes any answer a server might give, so they     *)
(* share no state here, and a behaviour moves one of them while the others *)
(* stand still. What is checked are their own properties, which hold of    *)
(* what stands still as well.                                              *)
EXTENDS MCInventory, InventoryScreen, PlayMode, Annotations

VARIABLE machine        \* the one that moves

all == <<machine, vars, screenVars, playerVars, marksVars>>

ASSUME Constants == ScreenNulls /\ PlayerBounds /\ MarksNulls

SweepsInit ==
    /\ machine \in {"server", "screen", "player", "marks"}
    /\ Init /\ ScreenInit /\ PlayerInit /\ MarksInit
    \* One initial state of those that stand still is enough.
    /\ machine # "server" => parent = [n \in Note |-> CHOOSE f \in Folder : TRUE]
    /\ machine # "screen" => online
    /\ machine # "player" => numPages = [p \in Piece |-> 0] /\ ~ landscape

Moves(m) == machine = m /\ UNCHANGED machine

SweepsNext ==
    \/ Moves("server") /\ Next /\ UNCHANGED <<screenVars, playerVars, marksVars>>
    \/ Moves("screen") /\ ScreenNext /\ UNCHANGED <<vars, playerVars, marksVars>>
    \/ Moves("player") /\ PlayerNext /\ UNCHANGED <<vars, screenVars, marksVars>>
    \/ Moves("marks") /\ MarksNext /\ UNCHANGED <<vars, screenVars, playerVars>>

\* A library with a note, and a screen until its last sweep is over or was
\* started while something was under way: then ListIsRecorded says no more.
Followed ==
    /\ machine = "server" => notes # {}
    /\ machine = "screen" =>
          \/ screenPhase = "sweeping" /\ ~ stale
          \/ \E s \in ScreenSweep : stage[s] = "unused"

SweepsSpec == SweepsInit /\ [][SweepsNext]_all
===============================================================================
