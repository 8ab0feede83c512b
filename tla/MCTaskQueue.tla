---------------------------- MODULE MCTaskQueue ----------------------------
(* Small instances of TaskQueue for TLC. *)
EXTENDS TaskQueue, TLC

\* Worker incarnations, callers and cancel requests are interchangeable.
Symmetry == Permutations(Workers) \cup Permutations(Callers) \cup Permutations(Cancellers)
=============================================================================
