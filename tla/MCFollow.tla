------------------------------ MODULE MCFollow ------------------------------
(***************************************************************************)
(* Follow for TLC: threads of either sort are interchangeable.             *)
(***************************************************************************)
EXTENDS Follow, TLC

Symmetry == Permutations(Workers) \cup Permutations(FollowThreads)
=============================================================================
