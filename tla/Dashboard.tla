----------------------------- MODULE Dashboard -----------------------------
(***************************************************************************)
(* The one row of dashboard_snapshot (models/dashboard_snapshot.py), the   *)
(* job that computes it (tasks/jobs/dashboard_snapshot.py, with            *)
(* build_dashboard_payload of api/metrics.py) and the requests that show   *)
(* it.  The task table is what DedupeSlots says of it, with one key: a job *)
(* that has lost its row goes on until it ends, next to its successor.     *)
(*                                                                         *)
(* A payload is represented by the settings it was computed with; what is  *)
(* computed with them is not looked at.                                    *)
(***************************************************************************)
EXTENDS GlobalConfig

CONSTANTS
    Jobs,         \* executions of the job, may overlap
    Viewers,      \* requests that show the dashboard
    NoPayload

VARIABLES
    dash,         \* the row of dashboard_snapshot
    slot,         \* task_run, per dedupe key
    job, view,    \* executions and requests
    excuse        \* races in which a change was not marked, for OutdatedIsMarked

dashboardVars == <<dash, slot, job, view, excuse>>

Key == "refresh_dashboard_snapshot"
Tasks == INSTANCE DedupeSlots WITH Keys <- {Key}, slot <- slot

Active == slot[Key] # "free"
Idle == [pc |-> "idle", owner |-> FALSE, payload |-> NoPayload]

NoRow == [exists |-> FALSE, status |-> "empty", payload |-> NoPayload, stale |-> FALSE]

DashboardInit ==
    /\ Tasks!Init
    /\ dash \in {NoRow, [exists |-> TRUE, status |-> "ready", payload |-> Shown(FirstConfig),
                         stale |-> FALSE]}
    /\ job = [j \in Jobs |-> Idle]
    /\ view = [v \in Viewers |-> "idle"]
    /\ excuse = {}

(***************************************************************************)
(* The job.                                                                *)
(***************************************************************************)
JobStart(j) ==
    /\ job[j].pc = "idle"
    /\ j = CHOOSE free \in Jobs : job[free].pc = "idle"
    /\ Tasks!Begin(Key)
    /\ job' = [job EXCEPT ![j].pc = "begin", ![j].owner = TRUE]
    /\ UNCHANGED <<dash, view, excuse, cfg, used>>

\* Outside the try block: if it raises, the job ends without _mark_failed.
mark_refreshing(j) ==
    /\ job[j].pc = "begin"
    /\ dash' = [dash EXCEPT !.exists = TRUE, !.status = "refreshing"]
    /\ job' = [job EXCEPT ![j].pc = "marked"]
    /\ UNCHANGED <<slot, view, excuse, cfg, used>>

\* Reads the settings first, then the tables; all of it is computed with them.
build_dashboard_payload(j) ==
    /\ job[j].pc = "marked"
    /\ job' = [job EXCEPT ![j].pc = "built", ![j].payload = Shown(cfg)]
    /\ UNCHANGED <<dash, slot, view, excuse, cfg, used>>

mark_ready(j) ==
    /\ job[j].pc = "built"
    /\ dash' = [exists |-> TRUE, status |-> "ready", payload |-> job[j].payload, stale |-> FALSE]
    /\ excuse' = IF job[j].payload = Shown(cfg) THEN {} ELSE {"overtaken"}
    /\ job' = [job EXCEPT ![j] = [Idle EXCEPT !.pc = "end", !.owner = job[j].owner]]
    /\ UNCHANGED <<slot, view, cfg, used>>

\* An exception or a cancelled heartbeat; the row of the task may stay.
JobFails(j) ==
    /\ job[j].pc \in {"begin", "marked", "built"}
    /\ Input
    /\ job' = [job EXCEPT ![j] =
          [Idle EXCEPT !.pc = IF job[j].pc = "begin" THEN "end" ELSE "failing", !.owner = job[j].owner]]
    /\ UNCHANGED <<dash, slot, view, excuse, cfg>>

\* An old payload stays, and so does the flag.
mark_failed(j) ==
    /\ job[j].pc = "failing"
    /\ dash' = [dash EXCEPT !.status = IF dash.payload # NoPayload THEN "ready" ELSE "failed"]
    /\ job' = [job EXCEPT ![j].pc = "end"]
    /\ UNCHANGED <<slot, view, excuse, cfg, used>>

\* The worker writes the verdict, if the row is still its own.
JobEnd(j) ==
    /\ job[j].pc = "end"
    /\ IF job[j].owner THEN Tasks!Conclude({Key}) ELSE UNCHANGED slot
    /\ job' = [job EXCEPT ![j] = Idle]
    /\ UNCHANGED <<dash, view, excuse, cfg, used>>

\* The process dies, or its heartbeats do not get through and it works on.
JobLost(j) ==
    /\ job[j].owner
    /\ Input
    /\ job' = [job EXCEPT ![j] = Idle] \/ job' = [job EXCEPT ![j].owner = FALSE]
    /\ UNCHANGED <<dash, slot, view, excuse, cfg>>

Reap ==
    /\ \A j \in Jobs : ~job[j].owner
    /\ Tasks!Conclude({Key})
    /\ UNCHANGED <<dash, job, view, excuse, cfg, used>>

\* POST /api/tasks/{id}/cancel of a waiting task.
Cancel ==
    /\ Input
    /\ Tasks!Withdraw(Key)
    /\ UNCHANGED <<dash, job, view, excuse, cfg>>

(***************************************************************************)
(* The requests.                                                           *)
(***************************************************************************)
\* enqueue_task under the key of the job: a task that waits or runs is returned.
Enqueue == IF Active THEN UNCHANGED slot ELSE Tasks!Reserve(Key)

\* POST /api/metrics/dashboard/refresh.
refresh_dashboard_snapshot ==
    /\ Input
    /\ Enqueue
    /\ UNCHANGED <<dash, job, view, excuse, cfg>>

\* GET /api/metrics/dashboard reads the task, then the row, and enqueues if need be.  With
\* an active task it changes nothing.
ViewTask(v) ==
    /\ view[v] = "idle"
    /\ ~Active
    /\ view' = [view EXCEPT ![v] = "task"]
    /\ UNCHANGED <<dash, slot, job, excuse, cfg, used>>

\* Mutant: the row's own status decides whether a refresh is under way.
ViewByStatus(v) ==
    /\ view[v] = "task"
    /\ view' = [view EXCEPT ![v] = IF dash.stale /\ dash.status # "refreshing" THEN "enqueue" ELSE "idle"]
    /\ UNCHANGED <<dash, slot, job, excuse, cfg, used>>

ViewSnapshot(v) ==
    /\ view[v] = "task"
    /\ view' = [view EXCEPT ![v] = IF dash.stale THEN "enqueue" ELSE "idle"]
    /\ UNCHANGED <<dash, slot, job, excuse, cfg, used>>

ensure_dashboard_refresh_task(v) ==
    /\ view[v] = "enqueue"
    /\ Enqueue
    /\ view' = [view EXCEPT ![v] = "idle"]
    /\ UNCHANGED <<dash, job, excuse, cfg, used>>

\* A step of the worker or of the reaper, without faults.
Work ==
    \/ \E j \in Jobs :
          JobStart(j) \/ mark_refreshing(j) \/ build_dashboard_payload(j) \/ mark_ready(j)
             \/ mark_failed(j) \/ JobEnd(j)
    \/ Reap

View(v) == ViewTask(v) \/ ViewSnapshot(v) \/ ensure_dashboard_refresh_task(v)

DashboardNext ==
    \/ Work
    \/ \E j \in Jobs : JobFails(j) \/ JobLost(j)
    \/ \E v \in Viewers : View(v)
    \/ refresh_dashboard_snapshot \/ Cancel
=============================================================================
