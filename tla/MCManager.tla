----------------------------- MODULE MCManager -----------------------------
(***************************************************************************)
(* Manager for a node that is created, removed and loaded again under the  *)
(* same name, and a network; objects are interchangeable.                  *)
(***************************************************************************)
EXTENDS Manager, TLC

Symmetry == Permutations(Object) \cup Permutations(NetObject) \cup Permutations(Data)
=============================================================================
