-------------------------- MODULE MCJobLifecycle --------------------------
(***************************************************************************)
(* JobLifecycle on one job, two workers who may also review, and the       *)
(* poster; the configurations differ in how many calls overlap and in      *)
(* whether statements may throw and the broker may restart.                *)
(***************************************************************************)
EXTENDS JobLifecycle, TLC

Same == Permutations(Requests) \cup Permutations(Workers)
=============================================================================
