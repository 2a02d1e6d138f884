----------------------------- MODULE MCOwnerWatch -----------------------------
(* Instances of OwnerWatch for TLC: nodes, and callers, are alike. *)
EXTENDS OwnerWatch, TLC

Symmetric == Permutations(Nodes) \cup Permutations(Callers)
===============================================================================
