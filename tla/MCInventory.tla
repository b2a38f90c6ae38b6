----------------------------- MODULE MCInventory -----------------------------
(* Small instances of Inventory for TLC.                                   *)
EXTENDS Inventory, TLC

\* Requests are interchangeable, and so are notes and folders: no constant
\* and no property names one.
Symmetric == Permutations(Req) \union Permutations(Note) \union Permutations(Folder)
=============================================================================
