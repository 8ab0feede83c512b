-------------------------- MODULE MCReplenishment --------------------------
(* Small instances of Replenishment for TLC. *)
EXTENDS Replenishment, TLC

\* Engine runs and requests of one kind are interchangeable.
Symmetry == Permutations(Engines) \cup Permutations(Deleters) \cup Permutations(Togglers)
=============================================================================
