-------------------------- MODULE MCAirPlayService --------------------------
(* AirPlayService on small sets of tasks, for TLC.                         *)
EXTENDS AirPlayService, TLC

(* Starts are interchangeable until they get their generation, and so are  *)
(* renames.                                                                *)
TaskSymmetry == Permutations(Starter) \cup Permutations(Renamer)
=============================================================================
