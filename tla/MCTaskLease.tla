---------------------------- MODULE MCTaskLease ----------------------------
(* Small instances of TaskLease for TLC. *)
EXTENDS TaskLease
=============================================================================
