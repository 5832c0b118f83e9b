-------------------------- MODULE MCActionDispatcher --------------------------
(* Model-checking instance of ActionDispatcher. *)
EXTENDS ActionDispatcher, TLC

Symmetry == Permutations(Calls)
===============================================================================
