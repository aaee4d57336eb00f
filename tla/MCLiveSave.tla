----------------------------- MODULE MCLiveSave -----------------------------
(* LiveSave with two monitor threads. *)
EXTENDS LiveSave

CONSTANTS m1, m2
=============================================================================
