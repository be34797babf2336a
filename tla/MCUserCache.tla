----------------------------- MODULE MCUserCache -----------------------------
(* The user's token cache for TLC: processes and keys are interchangeable. *)
EXTENDS UserCache, TLC

Symmetry == Permutations(Procs) \union Permutations(Keys)
=============================================================================
