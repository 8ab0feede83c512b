------------------------------ MODULE Settings ------------------------------
(***************************************************************************)
(* Saving global settings (patch_global in api/config.py, the switch of    *)
(* the scheduler in api/sync.py), with what follows from it: the dashboard *)
(* is marked as outdated, and the scheduler of the process that has the    *)
(* request is reloaded.                                                    *)
(***************************************************************************)
EXTENDS Scheduler, Dashboard

CONSTANTS
    Admins,       \* requests that save settings, may overlap
    ApiProcs      \* processes that users' requests go to

VARIABLE req      \* requests

vars == <<cfg, used, schedulerVars, dashboardVars, req>>

NoRequest == [pc |-> "idle", patch |-> <<>>, old |-> FirstConfig]

Init ==
    /\ cfg = FirstConfig
    /\ used = 0
    /\ SchedulerInit
    /\ DashboardInit
    /\ req = [a \in Admins |-> NoRequest]

\* patch_global reads the row without a lock and checks the patch against it.
PatchRead(a) ==
    /\ req[a].pc = "idle"
    /\ a = CHOOSE free \in Admins : req[free].pc = "idle"
    /\ Input
    /\ \E patch \in Patches :
          /\ With(cfg, patch).target_days >= With(cfg, patch).lead_time_days
          /\ req' = [req EXCEPT ![a] = [pc |-> "read", patch |-> patch, old |-> cfg]]
    /\ UNCHANGED <<cfg, schedulerVars, dashboardVars>>

Differs(patch, row) ==
    \E f \in DOMAIN patch \cap GLOBAL_CONFIG_SENSITIVE_FIELDS : patch[f] # row[f]

\* Mutant: only a change of the target counts.
MarksTarget(patch, old) == "target_days" \in DOMAIN patch /\ patch.target_days # old.target_days

\* A sensitive column differs from the row as read: the dashboard is outdated.
Marks(patch, old) == Differs(patch, old)

\* What excuses an outdated dashboard without a mark, for OutdatedIsMarked.
Excuse(a) ==
    IF Marks(req[a].patch, req[a].old) \/ dash.payload = NoPayload THEN {}
    ELSE IF dash.payload = Shown(cfg') THEN {}
    ELSE IF Differs(req[a].patch, cfg) /\ cfg # req[a].old THEN {"stale read"}
    ELSE excuse

\* The UPDATEs of both tables and the commit; then the scheduler, where it is concerned.
PatchCommit(a) ==
    LET patch == req[a].patch
    IN  /\ req[a].pc = "read"
        /\ cfg' = With(cfg, patch)
        /\ dash' = [dash EXCEPT !.stale = @ \/ (dash.exists /\ Marks(patch, req[a].old))]
        /\ excuse' = Excuse(a)
        /\ req' = [req EXCEPT ![a] = NoRequest]
        /\ IF DOMAIN patch \cap SCHEDULER_FIELDS = {}
           THEN UNCHANGED schedulerVars
           ELSE \E c \in Calls, p \in ApiProcs :
                  /\ MayCall(c, p)
                  /\ call' = Called(c, p, "reload")
                  /\ UNCHANGED <<up, obj, current>>
        /\ UNCHANGED <<slot, job, view, used>>

\* POST /api/sync/scheduler.
set_scheduler_status(c, p) ==
    /\ p \in ApiProcs
    /\ MayCall(c, p)
    /\ Input
    /\ \E on \in BOOLEAN : cfg' = [cfg EXCEPT !.scheduler_enabled = on]
    /\ call' = Called(c, p, "reload")
    /\ UNCHANGED <<up, obj, current, dashboardVars, req>>

Next ==
    \/ SchedulerNext /\ UNCHANGED <<dashboardVars, req>>
    \/ DashboardNext /\ UNCHANGED <<schedulerVars, req>>
    \/ \E a \in Admins : PatchRead(a) \/ PatchCommit(a)
    \/ \E c \in Calls, p \in Procs : set_scheduler_status(c, p)

(***************************************************************************)
(* A worker and the reaper run, and the page that shows the dashboard is   *)
(* opened again and again.                                                 *)
(***************************************************************************)
Spec ==
    /\ Init
    /\ [][Next]_vars
    /\ WF_vars(Work /\ UNCHANGED <<schedulerVars, req>>)
    /\ WF_vars((\E v \in Viewers : View(v)) /\ UNCHANGED <<schedulerVars, req>>)

(***************************************************************************)
(* Properties.                                                             *)
(***************************************************************************)
\* A dashboard computed with other settings than the saved ones is marked as outdated
\* (patch_global, the stale column of DashboardSnapshot), but in two races: a refresh
\* that has read the settings before the change clears the mark after it, and a
\* request compares with a row that another request has changed since.
OutdatedIsMarked ==
    dash.payload # NoPayload /\ dash.payload # Shown(cfg) => dash.stale \/ excuse # {}

\* As long as someone looks, a mark does not stay: get_dashboard_overview enqueues a
\* refresh until one succeeds, whatever has become of earlier ones.
MarkIsCleared == dash.stale ~> ~dash.stale

\* A process has one running scheduler at most, the one its status speaks of
\* (setup_scheduler shuts down what it replaces).  One race leaves another behind: a
\* reload starts what it has built although an overlapping call has replaced it.
OneRunning ==
    \A o \in Objects : obj[o].running => current[obj[o].proc] = o \/ obj[o].shared

\* When a request that saves settings of the scheduler is answered and no other call of
\* the scheduler's functions has overlapped with it in its process, the process has a
\* scheduler for the saved interval, which runs if and only if it is switched on
\* (reload_scheduler), whatever requests have done before.
ReloadIsEffective ==
    [][\A c \in Calls :
          (/\ call[c].pc = "return" /\ call[c].kind = "reloaded" /\ call[c].alone
           /\ call'[c].pc = "none" /\ call[c].proc \in up')
             => LET o == current[call[c].proc]
                IN  /\ obj[o].running <=> cfg.scheduler_enabled
                    /\ obj[o].sync_interval_minutes = cfg.sync_interval_minutes]_vars

\* Schedulers run in the processes that are configured to have one.
OnlySchedulerEnqueues == \A o \in Objects : obj[o].running => obj[o].proc \in SchedulerProcs
=============================================================================
