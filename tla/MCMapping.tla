----------------------------- MODULE MCMapping -----------------------------
(***************************************************************************)
(* Mapping for TLC: the background threads are interchangeable.            *)
(***************************************************************************)
EXTENDS Mapping, TLC

Symmetry == Permutations(Workers)
=============================================================================
