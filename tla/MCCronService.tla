--------------------------- MODULE MCCronService ---------------------------
(***************************************************************************)
(* CronService on small instances: model values for the goroutines.        *)
(***************************************************************************)
EXTENDS CronService, TLC

(* Goroutines of fired timers are interchangeable; used for safety only. *)
TaskSymmetry == Permutations(Tasks)
=============================================================================
