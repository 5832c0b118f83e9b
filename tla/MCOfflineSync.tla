----------------------------- MODULE MCOfflineSync -----------------------------
(* OfflineSync for TLC: requests are interchangeable, mutations (ordered) are not. *)
EXTENDS OfflineSync, TLC

Symmetry == Permutations(Calls)
===============================================================================
