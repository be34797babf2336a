------------------------------- MODULE MCDaemon -------------------------------
(* Daemon with symmetric clients and labels. *)
EXTENDS Daemon, TLC

Symmetry == Permutations(Clients) \union Permutations(Labels)
=============================================================================
