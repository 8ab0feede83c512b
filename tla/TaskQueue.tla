----------------------------- MODULE TaskQueue -----------------------------
(***************************************************************************)
(* The background task queue kept in the table task_run: producers that    *)
(* enqueue under a dedupe key (tasks/queue.py), worker processes that      *)
(* claim, heartbeat, run and finish a row (tasks/worker.py), the reaper    *)
(* that fails rows whose lease ran out (tasks/reaper.py), the cancel       *)
(* endpoint (api/task.py) and the retention job that deletes finished rows *)
(* (tasks/jobs/retention.py).                                              *)
(*                                                                         *)
(* Every action is one committed database transaction, or one step of the  *)
(* event loop that touches only the memory of a process.  Time appears     *)
(* only as "this lease has run out": the module TaskLease adds the clock.  *)
(* The ORDER BY of the claim is abstracted to an arbitrary pending row,    *)
(* because created_at is the start of the inserting transaction and SKIP   *)
(* LOCKED may pass over any row that another transaction holds.            *)
(***************************************************************************)
EXTENDS Naturals, FiniteSets

CONSTANTS
    MaxTasks,     \* bound: rows ever inserted
    MaxRetryDepth,\* retries of enqueue_task after a conflict that vanished (2 in the code)
    Keys,         \* dedupe keys (a key determines its job_name)
    Registered,   \* the keys whose job_name is in JOB_REGISTRY
    Workers,      \* worker process incarnations (a restart is a new worker_id)
    Callers,      \* concurrent enqueue_task calls
    Cancellers,   \* concurrent POST /api/tasks/{id}/cancel requests
    NoKey, NoWorker

ASSUME QueueAssumption ==
    /\ MaxTasks \in Nat
    /\ MaxRetryDepth \in Nat
    /\ Registered \subseteq Keys
    /\ NoKey \notin Keys
    /\ NoWorker \notin Workers

Tasks == 1..MaxTasks

VARIABLES
    status,       \* task_run.status; "none" before the insert, "purged" after the delete
    key,          \* task_run.dedupe_key
    owner,        \* task_run.worker_id
    lease,        \* of a running row: is task_run.lease_expires_at ahead of now()?
    attempts,     \* task_run.attempt_count
    nextId,       \* the id sequence
    wstate,       \* where each worker is in _run_loop / _execute
    job,          \* the task a worker has in hand, 0 if none
    lost,         \* the asyncio.Event lease_lost of the running task
    hb,           \* is the heartbeat coroutine still alive?
    cpc, ckey, csrc, cdepth,   \* enqueue_task: program counter and arguments
    xpc, xtask    \* cancel_task: program counter and row

rows    == <<status, key, owner, lease, attempts, nextId>>
workers == <<wstate, job, lost, hb>>
callers == <<cpc, ckey, csrc, cdepth>>
cancels == <<xpc, xtask>>
vars    == <<rows, workers, callers, cancels>>

Active   == {"pending", "running"}
Terminal == {"success", "failed", "skipped", "cancelled"}
Statuses == {"none", "purged"} \cup Active \cup Terminal
Busy     == {"exec", "done", "error"}

TypeOK ==
    /\ status \in [Tasks -> Statuses]
    /\ key \in [Tasks -> Keys \cup {NoKey}]
    /\ owner \in [Tasks -> Workers \cup {NoWorker}]
    /\ lease \in [Tasks -> {"none", "live", "expired"}]
    /\ attempts \in [Tasks -> Nat]
    /\ nextId \in 1..(MaxTasks + 1)
    /\ wstate \in [Workers -> {"off", "idle", "dead"} \cup Busy]
    /\ job \in [Workers -> Tasks \cup {0}]
    /\ lost \in [Workers -> BOOLEAN]
    /\ hb \in [Workers -> BOOLEAN]
    /\ cpc \in [Callers -> {"idle", "insert", "select", "trace"}]
    /\ ckey \in [Callers -> Keys \cup {NoKey}]
    /\ csrc \in [Callers -> {"scheduler", "manual"}]
    /\ cdepth \in [Callers -> 0..MaxRetryDepth]
    /\ xpc \in [Cancellers -> {"idle", "checked"}]
    /\ xtask \in [Cancellers -> Tasks \cup {0}]

Init ==
    /\ status = [t \in Tasks |-> "none"]
    /\ key = [t \in Tasks |-> NoKey]
    /\ owner = [t \in Tasks |-> NoWorker]
    /\ lease = [t \in Tasks |-> "none"]
    /\ attempts = [t \in Tasks |-> 0]
    /\ nextId = 1
    /\ wstate = [w \in Workers |-> "off"]
    /\ job = [w \in Workers |-> 0]
    /\ lost = [w \in Workers |-> FALSE]
    /\ hb = [w \in Workers |-> FALSE]
    /\ cpc = [c \in Callers |-> "idle"]
    /\ ckey = [c \in Callers |-> NoKey]
    /\ csrc = [c \in Callers |-> "manual"]
    /\ cdepth = [c \in Callers |-> 0]
    /\ xpc = [x \in Cancellers |-> "idle"]
    /\ xtask = [x \in Cancellers |-> 0]

-----------------------------------------------------------------------------
(* enqueue_task *)

\* Mutant: the index predicate covers only pending rows.
ActiveWithPendingOnly(k) == {t \in Tasks : status[t] = "pending" /\ key[t] = k}

\* The rows the partial unique index uq_task_run_active_dedupe covers for k.
ActiveWith(k) == {t \in Tasks : status[t] \in Active /\ key[t] = k}

\* A call inserts at most one row: the bound leaves room for those under way.
Call(c) ==
    /\ cpc[c] = "idle"
    /\ nextId + Cardinality({d \in Callers : cpc[d] # "idle"}) <= MaxTasks
    /\ \E k \in Keys, s \in {"scheduler", "manual"} :
          /\ ckey' = [ckey EXCEPT ![c] = k]
          /\ csrc' = [csrc EXCEPT ![c] = s]
    /\ cpc' = [cpc EXCEPT ![c] = "insert"]
    /\ UNCHANGED <<rows, workers, cdepth, cancels>>

\* The call returns or raises; its arguments are forgotten.
Return(c) ==
    /\ cpc' = [cpc EXCEPT ![c] = "idle"]
    /\ ckey' = [ckey EXCEPT ![c] = NoKey]
    /\ csrc' = [csrc EXCEPT ![c] = "manual"]
    /\ cdepth' = [cdepth EXCEPT ![c] = 0]

\* The INSERT commits: the index holds no active row with the key.
InsertOk(c) ==
    /\ cpc[c] = "insert"
    /\ nextId <= MaxTasks
    /\ ActiveWith(ckey[c]) = {}
    /\ status' = [status EXCEPT ![nextId] = "pending"]
    /\ key' = [key EXCEPT ![nextId] = ckey[c]]
    /\ nextId' = nextId + 1
    /\ Return(c)
    /\ UNCHANGED <<owner, lease, attempts, workers, cancels>>

\* The index refuses the INSERT: IntegrityError, rollback.
InsertConflict(c) ==
    /\ cpc[c] = "insert"
    /\ ActiveWith(ckey[c]) # {}
    /\ cpc' = [cpc EXCEPT ![c] = "select"]
    /\ UNCHANGED <<rows, workers, ckey, csrc, cdepth, cancels>>

\* The SELECT that follows, in a new snapshot: the row may have finished.
SelectExisting(c) ==
    /\ cpc[c] = "select"
    /\ \/ /\ ActiveWith(ckey[c]) # {} /\ csrc[c] = "manual"
          /\ Return(c)
       \/ /\ ActiveWith(ckey[c]) # {} /\ csrc[c] = "scheduler"
          /\ cpc' = [cpc EXCEPT ![c] = "trace"]
          /\ UNCHANGED <<ckey, csrc, cdepth>>
       \/ /\ ActiveWith(ckey[c]) = {} /\ cdepth[c] < MaxRetryDepth
          /\ cpc' = [cpc EXCEPT ![c] = "insert"]
          /\ cdepth' = [cdepth EXCEPT ![c] = @ + 1]
          /\ UNCHANGED <<ckey, csrc>>
       \/ /\ ActiveWith(ckey[c]) = {} /\ cdepth[c] >= MaxRetryDepth
          /\ Return(c)                                      \* RuntimeError
    /\ UNCHANGED <<rows, workers, cancels>>

\* A scheduler trigger that found an active row leaves a 'skipped' row behind,
\* under a derived key that is none of Keys.
InsertSkipped(c) ==
    /\ cpc[c] = "trace"
    /\ nextId <= MaxTasks
    /\ status' = [status EXCEPT ![nextId] = "skipped"]
    /\ nextId' = nextId + 1
    /\ Return(c)
    /\ UNCHANGED <<key, owner, lease, attempts, workers, cancels>>

-----------------------------------------------------------------------------
(* Worker *)

\* The WHERE clause shared by the heartbeat, the progress write and the two
\* final writes: id = :id AND status = 'running' AND worker_id = :me.
Owns(w) == /\ job[w] \in Tasks
           /\ status[job[w]] = "running"
           /\ owner[job[w]] = w

Start(w) ==
    /\ wstate[w] = "off"
    /\ wstate' = [wstate EXCEPT ![w] = "idle"]
    /\ UNCHANGED <<rows, job, lost, hb, callers, cancels>>

\* _claim_one finds nothing and _run_loop sleeps.
Poll(w) ==
    /\ wstate[w] = "idle"
    /\ \A t \in Tasks : status[t] # "pending"
    /\ UNCHANGED vars

\* Mutant: the claim leaves lease_expires_at to the first heartbeat.
ClaimRowNoLease(w, t) ==
    /\ status[t] = "pending"
    /\ status' = [status EXCEPT ![t] = "running"]
    /\ owner' = [owner EXCEPT ![t] = w]
    /\ attempts' = [attempts EXCEPT ![t] = @ + 1]
    /\ UNCHANGED <<key, lease, nextId, callers, cancels>>

\* The UPDATE of _claim_one.
ClaimRow(w, t) ==
    /\ status[t] = "pending"
    /\ status' = [status EXCEPT ![t] = "running"]
    /\ owner' = [owner EXCEPT ![t] = w]
    /\ lease' = [lease EXCEPT ![t] = "live"]
    /\ attempts' = [attempts EXCEPT ![t] = @ + 1]
    /\ UNCHANGED <<key, nextId, callers, cancels>>

\* _claim_one returns a row and _execute begins: an unregistered job goes
\* straight to _mark_failed, any other gets a heartbeat and its handler.
Claim(w, t) ==
    /\ wstate[w] = "idle"
    /\ ClaimRow(w, t)
    /\ job' = [job EXCEPT ![w] = t]
    /\ lost' = [lost EXCEPT ![w] = FALSE]
    /\ IF key[t] \in Registered
       THEN /\ wstate' = [wstate EXCEPT ![w] = "exec"]
            /\ hb' = [hb EXCEPT ![w] = TRUE]
       ELSE /\ wstate' = [wstate EXCEPT ![w] = "error"]
            /\ hb' = [hb EXCEPT ![w] = FALSE]

\* The claim commits but its answer is lost with the connection: _run_loop
\* logs the error and polls again, the row stays 'running' in its name.
ClaimAnswerLost(w, t) ==
    /\ wstate[w] = "idle"
    /\ ClaimRow(w, t)
    /\ UNCHANGED workers

\* One round of _heartbeat_loop.
Heartbeat(w) ==
    /\ wstate[w] \in Busy
    /\ hb[w]
    /\ IF Owns(w)
       THEN /\ lease' = [lease EXCEPT ![job[w]] = "live"]
            /\ UNCHANGED <<lost, hb>>
       ELSE /\ lost' = [lost EXCEPT ![w] = TRUE]
            /\ hb' = [hb EXCEPT ![w] = FALSE]
            /\ UNCHANGED lease
    /\ UNCHANGED <<status, key, owner, attempts, nextId, wstate, job, callers, cancels>>

\* The database call of a round raises: only CancelledError is caught, the
\* coroutine ends and no later round runs.
HeartbeatFails(w) ==
    /\ wstate[w] \in Busy
    /\ hb[w]
    /\ hb' = [hb EXCEPT ![w] = FALSE]
    /\ UNCHANGED <<rows, wstate, job, lost, callers, cancels>>

\* The end of _execute: the heartbeat is cancelled, the loop polls again.
LetGo(w) ==
    /\ wstate' = [wstate EXCEPT ![w] = "idle"]
    /\ job' = [job EXCEPT ![w] = 0]
    /\ lost' = [lost EXCEPT ![w] = FALSE]
    /\ hb' = [hb EXCEPT ![w] = FALSE]

\* ctx.progress() in a handler whose row is gone: TaskLeaseLostError, nothing
\* is written.  (A progress write that succeeds changes no modelled state.)
ProgressLeaseLost(w) ==
    /\ wstate[w] = "exec"
    /\ lost[w] \/ ~Owns(w)
    /\ LetGo(w)
    /\ UNCHANGED <<rows, callers, cancels>>

HandlerReturns(w) ==
    /\ wstate[w] = "exec"
    /\ wstate' = [wstate EXCEPT ![w] = "done"]
    /\ UNCHANGED <<rows, job, lost, hb, callers, cancels>>

HandlerRaises(w) ==
    /\ wstate[w] = "exec"
    /\ wstate' = [wstate EXCEPT ![w] = "error"]
    /\ UNCHANGED <<rows, job, lost, hb, callers, cancels>>

\* Mutant: the final write does not ask for status = 'running'.
FinishUnguarded(w, s) ==
    /\ status' = IF job[w] \in Tasks /\ owner[job[w]] = w
                 THEN [status EXCEPT ![job[w]] = s] ELSE status
    /\ UNCHANGED <<key, owner, lease, attempts, nextId, callers, cancels>>

\* The guarded UPDATE of _mark_success and _mark_failed.
Finish(w, s) ==
    /\ IF Owns(w)
       THEN /\ status' = [status EXCEPT ![job[w]] = s]
            /\ lease' = [lease EXCEPT ![job[w]] = "none"]
       ELSE UNCHANGED <<status, lease>>
    /\ UNCHANGED <<key, owner, attempts, nextId, callers, cancels>>

MarkSuccess(w) ==
    /\ wstate[w] = "done"
    /\ Finish(w, "success")
    /\ LetGo(w)

\* _mark_success raises, with or without its commit having taken effect, and
\* _execute falls into the branch that calls _mark_failed.
MarkSuccessFails(w) ==
    /\ wstate[w] = "done"
    /\ \/ Finish(w, "success")
       \/ UNCHANGED <<rows, callers, cancels>>
    /\ wstate' = [wstate EXCEPT ![w] = "error"]
    /\ UNCHANGED <<job, lost, hb>>

MarkFailed(w) ==
    /\ wstate[w] = "error"
    /\ Finish(w, "failed")
    /\ LetGo(w)

\* _mark_failed raises before it commits: _run_loop swallows the error.
MarkFailedFails(w) ==
    /\ wstate[w] = "error"
    /\ LetGo(w)
    /\ UNCHANGED <<rows, callers, cancels>>

\* The process dies, or Worker.stop() cancels the task after ten seconds; the
\* container is restarted, so one incarnation is left (bound on crashes).
Crash(w) ==
    /\ wstate[w] \in {"idle"} \cup Busy
    /\ \E v \in Workers \ {w} : wstate[v] # "dead"
    /\ wstate' = [wstate EXCEPT ![w] = "dead"]
    /\ job' = [job EXCEPT ![w] = 0]
    /\ lost' = [lost EXCEPT ![w] = FALSE]
    /\ hb' = [hb EXCEPT ![w] = FALSE]
    /\ UNCHANGED <<rows, callers, cancels>>

-----------------------------------------------------------------------------
(* The passing of time, the reaper, the retention job *)

Expire(t) ==
    /\ status[t] = "running"
    /\ lease[t] = "live"
    /\ lease' = [lease EXCEPT ![t] = "expired"]
    /\ UNCHANGED <<status, key, owner, attempts, nextId, workers, callers, cancels>>

Overdue == {t \in Tasks : status[t] = "running" /\ lease[t] = "expired"}

\* Mutant: the reaper puts an overdue row back into the queue.
ReapRequeues ==
    /\ Overdue # {}
    /\ status' = [t \in Tasks |-> IF t \in Overdue THEN "pending" ELSE status[t]]
    /\ lease' = [t \in Tasks |-> IF t \in Overdue THEN "none" ELSE lease[t]]
    /\ UNCHANGED <<key, owner, attempts, nextId, workers, callers, cancels>>

\* _reap_once: one UPDATE over every overdue row.
Reap ==
    /\ Overdue # {}
    /\ status' = [t \in Tasks |-> IF t \in Overdue THEN "failed" ELSE status[t]]
    /\ lease' = [t \in Tasks |-> IF t \in Overdue THEN "none" ELSE lease[t]]
    /\ UNCHANGED <<key, owner, attempts, nextId, workers, callers, cancels>>

\* purge_task_run compares created_at, not finished_at, with the cutoff: a
\* row that waited long is deleted as soon as it is finished.
Purge(t) ==
    /\ status[t] \in Terminal
    /\ status' = [status EXCEPT ![t] = "purged"]
    /\ key' = [key EXCEPT ![t] = NoKey]
    /\ owner' = [owner EXCEPT ![t] = NoWorker]
    /\ attempts' = [attempts EXCEPT ![t] = 0]
    /\ UNCHANGED <<lease, nextId, workers, callers, cancels>>

-----------------------------------------------------------------------------
(* cancel_task: the check and the UPDATE are two statements, no row lock *)

CancelCheck(x) ==
    /\ xpc[x] = "idle"
    /\ \E t \in Tasks :
          /\ status[t] = "pending"
          /\ xtask' = [xtask EXCEPT ![x] = t]
    /\ xpc' = [xpc EXCEPT ![x] = "checked"]
    /\ UNCHANGED <<rows, workers, callers>>

\* UPDATE task_run SET status = 'cancelled' WHERE id = :id (no row, no effect).
CancelWrite(x) ==
    /\ xpc[x] = "checked"
    /\ IF status[xtask[x]] = "purged"
       THEN UNCHANGED <<status, lease>>
       ELSE /\ status' = [status EXCEPT ![xtask[x]] = "cancelled"]
            /\ lease' = [lease EXCEPT ![xtask[x]] = "none"]
    /\ xpc' = [xpc EXCEPT ![x] = "idle"]
    /\ xtask' = [xtask EXCEPT ![x] = 0]
    /\ UNCHANGED <<key, owner, attempts, nextId, workers, callers>>

-----------------------------------------------------------------------------
CallerStep(c) == Call(c) \/ InsertOk(c) \/ InsertConflict(c)
                 \/ SelectExisting(c) \/ InsertSkipped(c)

WorkerStep(w) ==
    \/ Start(w) \/ Poll(w)
    \/ \E t \in Tasks : Claim(w, t) \/ ClaimAnswerLost(w, t)
    \/ Heartbeat(w) \/ HeartbeatFails(w)
    \/ ProgressLeaseLost(w) \/ HandlerReturns(w) \/ HandlerRaises(w)
    \/ MarkSuccess(w) \/ MarkSuccessFails(w) \/ MarkFailed(w) \/ MarkFailedFails(w)
    \/ Crash(w)

Next ==
    \/ \E c \in Callers : CallerStep(c)
    \/ \E w \in Workers : WorkerStep(w)
    \/ \E t \in Tasks : Expire(t) \/ Purge(t)
    \/ Reap
    \/ \E x \in Cancellers : CancelCheck(x) \/ CancelWrite(x)

Spec == Init /\ [][Next]_vars

\* Time passes for a row that no live coroutine renews.
ExpireOrphan(t) ==
    /\ ~ \E w \in Workers : Owns(w) /\ job[w] = t /\ hb[w]
    /\ Expire(t)

\* What the code's scheduling guarantees: a started call runs on, the
\* container starts, an idle worker polls, a handler ends (every outgoing
\* request has a timeout), the final writes are attempted, a lease nobody
\* renews runs out, the reaper loop runs.  Nothing is assumed of crashes,
\* failures, heartbeats, cancellations or of leases that are being renewed.
Fairness ==
    /\ \A c \in Callers : WF_vars(InsertOk(c) \/ InsertConflict(c)
                                  \/ SelectExisting(c) \/ InsertSkipped(c))
    /\ \A w \in Workers :
          /\ WF_vars(Start(w))
          /\ WF_vars(\E t \in Tasks : Claim(w, t))
          /\ WF_vars(HandlerReturns(w) \/ HandlerRaises(w))
          /\ WF_vars(MarkSuccess(w) \/ MarkFailed(w))
    /\ \A t \in Tasks : WF_vars(ExpireOrphan(t))
    /\ WF_vars(Reap)

LiveSpec == Spec /\ Fairness

-----------------------------------------------------------------------------
(* Properties *)

\* The core constraint of models/task_run.py: at most one pending or running
\* row per dedupe key, whatever producers, workers, the reaper, cancellation
\* and retention do to the rows in between.
ActiveUnique ==
    \A t, u \in Tasks :
        t # u /\ status[t] \in Active /\ status[u] \in Active => key[t] # key[u]

\* The diagnostic tripwire attempt_count: a row is claimed at most once, and a
\* row that ran (also one that the reaper failed, or whose claim answer was
\* lost) was claimed exactly once.
AttemptOnce ==
    \A t \in Tasks :
        /\ attempts[t] <= 1
        /\ status[t] \in {"running", "success", "failed"} => attempts[t] = 1

\* Two workers inside _execute for the same dedupe key never both still own
\* their row: when a reaped worker and its successor overlap, the first one
\* has no row left to write to.
ExclusiveWhileOwned ==
    \A w, v \in Workers :
        w # v /\ Owns(w) /\ Owns(v) => key[job[w]] # key[job[v]]

\* A verdict stands: once a row is finished no late worker, heartbeat, reaper
\* or producer changes its status again; only retention deletes it and only
\* the unguarded UPDATE of a cancel request in flight can relabel it.
VerdictStable ==
    [][\A t \in Tasks : status[t] \in Terminal =>
          \/ status'[t] \in {status[t], "purged"}
          \/ \E x \in Cancellers : xpc[x] = "checked" /\ xtask[x] = t]_vars

\* Every task that is enqueued ends, although workers crash, heartbeats die
\* and answers get lost: the reaper collects what nobody finishes.
EveryTaskEnds ==
    \A t \in Tasks : (status[t] = "pending") ~> (status[t] \in Terminal \cup {"purged"})

\* What the table promises to its users, as one slot per dedupe key.
SlotOf == [k \in Keys |->
              IF \E t \in Tasks : key[t] = k /\ status[t] = "running" THEN "busy"
              ELSE IF \E t \in Tasks : key[t] = k /\ status[t] = "pending" THEN "waiting" ELSE "free"]

Slots == INSTANCE DedupeSlots WITH slot <- SlotOf

\* The queue implements the one-place slot per key: free, waiting, busy, free.
ImplementsSlots == Slots!Spec
=============================================================================
