------------------------------ MODULE MCUtList ------------------------------
(* An instance of UtList for TLC.  Elements are interchangeable.            *)
EXTENDS UtList

Symmetry == Permutations(Elem)
=============================================================================
