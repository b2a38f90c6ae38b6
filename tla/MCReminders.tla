----------------------------- MODULE MCReminders -----------------------------
(* Small instances of Reminders for TLC.                                   *)
EXTENDS Reminders, TLC

Symmetric == Permutations(User) \union Permutations(Manual)
=============================================================================
