---------------------------- MODULE MCTaskState ----------------------------
(***************************************************************************)
(* TaskState for TLC: the background threads are interchangeable.          *)
(***************************************************************************)
EXTENDS TaskState, TLC

Symmetry == Permutations(Workers)

\* Threads that have not been launched are alike: the next one to be is always the same.
\* Symmetry does as much where only safety is checked.
LaunchedInOrder ==
  \A w \in Workers : worker[w].pc = "unborn" /\ worker'[w].pc # "unborn" =>
    w = CHOOSE v \in Workers : worker[v].pc = "unborn"
=============================================================================
