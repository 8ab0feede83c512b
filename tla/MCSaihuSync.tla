---------------------------- MODULE MCSaihuSync ----------------------------
(* Small instances of SaihuSync for TLC. *)
EXTENDS SaihuSync, TLC

\* Executions and records are interchangeable.
Symmetry == Permutations(Runs) \cup Permutations(Records)
=============================================================================
