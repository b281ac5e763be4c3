-------------------------- MODULE MCHookReconciler --------------------------
(* The scheduler and the reconcile command over one or two projects, whose   *)
(* order in GitLab's list does not matter.                                   *)
EXTENDS HookReconciler, TLC

CONSTANTS scheduler, command, alpha, beta

RunsAlike == Permutations({scheduler, command}) \cup Permutations({alpha, beta})
=============================================================================
