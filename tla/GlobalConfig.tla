---------------------------- MODULE GlobalConfig ----------------------------
(***************************************************************************)
(* The row of global_config (models/global_config.py) as far as the        *)
(* dashboard and the scheduler read it, and the requests that may be made. *)
(***************************************************************************)
EXTENDS Inputs, FiniteSets

CONSTANTS
    FirstConfig,  \* the row at first
    Patches       \* what an administrator may submit: functions from some columns

VARIABLE cfg      \* the row, as committed

\* The columns the dashboard is computed from, of those modelled.
GLOBAL_CONFIG_SENSITIVE_FIELDS == {"target_days", "lead_time_days", "restock_regions"}

\* The columns whose change makes patch_global reload the scheduler.
SCHEDULER_FIELDS == {"sync_interval_minutes", "scheduler_enabled"}

Columns == GLOBAL_CONFIG_SENSITIVE_FIELDS \cup SCHEDULER_FIELDS

ASSUME ConfigAssumption ==
    /\ DOMAIN FirstConfig = Columns
    /\ FirstConfig.scheduler_enabled \in BOOLEAN
    /\ \A patch \in Patches :
          "scheduler_enabled" \in DOMAIN patch => patch["scheduler_enabled"] \in BOOLEAN

\* UPDATE ... SET of the submitted columns.
With(row, patch) == [f \in Columns |-> IF f \in DOMAIN patch THEN patch[f] ELSE row[f]]

\* What a dashboard shows of the row.
Shown(row) == [f \in GLOBAL_CONFIG_SENSITIVE_FIELDS |-> row[f]]
=============================================================================
