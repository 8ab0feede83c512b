---------------------------- MODULE DedupeSlots ----------------------------
(***************************************************************************)
(* What task_run promises per dedupe key (models/task_run.py, core         *)
(* constraint): a place that is free, holds one waiting task or one        *)
(* running task.  A waiting task is never overtaken by another one of the  *)
(* same key, and a running one leaves the place before the next enters.    *)
(***************************************************************************)
CONSTANT Keys
VARIABLE slot

Init == slot = [k \in Keys |-> "free"]

Reserve(k) ==
    /\ slot[k] = "free"
    /\ slot' = [slot EXCEPT ![k] = "waiting"]

Begin(k) ==
    /\ slot[k] = "waiting"
    /\ slot' = [slot EXCEPT ![k] = "busy"]

\* A cancelled request.
Withdraw(k) ==
    /\ slot[k] = "waiting"
    /\ slot' = [slot EXCEPT ![k] = "free"]

\* One pass of the reaper ends several tasks at once.
Conclude(S) ==
    /\ \A k \in S : slot[k] = "busy"
    /\ slot' = [k \in Keys |-> IF k \in S THEN "free" ELSE slot[k]]

Next ==
    \/ \E k \in Keys : Reserve(k) \/ Begin(k) \/ Withdraw(k)
    \/ \E S \in SUBSET Keys : Conclude(S)

Spec == Init /\ [][Next]_slot
=============================================================================
