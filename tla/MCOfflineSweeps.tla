--------------------------- MODULE MCOfflineSweeps ---------------------------
(* Small instances of OfflineSweeps for TLC.                               *)
EXTENDS OfflineSweeps, TLC

\* No constant and no invariant names a sweep, a note, a tab or a session.
Symmetric == Permutations(Sweep) \union Permutations(Note) \union Permutations(Tab)
               \union Permutations(Session)
=============================================================================
