------------------------------- MODULE Inputs -------------------------------
(***************************************************************************)
(* The bound on what comes from outside: requests of users, changes at     *)
(* Saihu and faults, together.                                             *)
(***************************************************************************)
EXTENDS Integers

CONSTANT MaxInputs      \* bound: inputs

VARIABLE used           \* inputs so far

Input == used < MaxInputs /\ used' = used + 1
=============================================================================
