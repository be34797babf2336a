------------------------------- MODULE MCRoutes -------------------------------
(* Routes with symmetric destinations, gateways and interfaces. *)
EXTENDS Routes, TLC

Symmetry == Permutations(Nets) \union Permutations(Gateways) \union Permutations(Interfaces)
=============================================================================
