----------------------------- MODULE MCSettings -----------------------------
(* The target raised and set back, lead time and regions together, and two intervals. *)
EXTENDS Settings

MCFirstConfig == [target_days |-> 2, lead_time_days |-> 1, restock_regions |-> {},
                  sync_interval_minutes |-> 1, scheduler_enabled |-> TRUE]
MCPatches == {
    [f \in {"target_days"} |-> 3],
    [f \in {"target_days"} |-> 2],
    [f \in {"lead_time_days", "restock_regions"} |-> IF f = "lead_time_days" THEN 2 ELSE {"US"}],
    [f \in {"sync_interval_minutes"} |-> 2]}
=============================================================================
