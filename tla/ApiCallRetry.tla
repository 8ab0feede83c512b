---------------------------- MODULE ApiCallRetry ----------------------------
(***************************************************************************)
(* Replaying calls that Saihu has refused with 40019: the background task  *)
(* retry_failed_api_calls (tasks/jobs/api_call_retry.py) and the endpoint  *)
(* that retries one call (api/monitor.py).  The task makes its calls with  *)
(* the client the sync jobs use, while these go on.  An execution whose    *)
(* task was reaped lives on, next to its successor in another worker.      *)
(***************************************************************************)
EXTENDS SaihuClient, FiniteSets

CONSTANTS
    Replayer,     \* the caller that is the retry task; the others are sync jobs
    Elsewhere,    \* executions of the retry task in other worker processes
    Monitors,     \* requests to retry_call, may overlap
    MaxAuto,      \* MAX_AUTO_RETRY_ATTEMPTS
    BatchLimit,   \* DEFAULT_BATCH_SIZE
    MaxInputs     \* bound: calls of the sync jobs, requests, expiries, sync tasks
                  \* met as active, lost leases, failures and deaths, together

Executions == Elsewhere \cup {Replayer}

ASSUME RetryAssumption ==
    /\ MaxAuto \in Nat \ {0} /\ BatchLimit \in Nat \ {0}
    /\ IsFiniteSet(Elsewhere) /\ Replayer \notin Elsewhere /\ NoCaller \notin Executions

VARIABLES
    task,         \* the active task_run of the retry job: its call_ids, its worker
    batch,        \* the rows an execution has loaded and not handled yet
    cur,          \* the one it replays
    mon,          \* the requests to retry_call
    reopened,     \* history: rows queued by a request that another had overtaken
    outrun,       \* history: rows marked by an execution after another had marked them
    inputs        \* their number so far

retryVars == <<task, batch, cur, mon, reopened, outrun, inputs>>
apiVars == <<clientVars, retryVars>>

Ids == 1..Len(log)
NoTask == [pc |-> "none"]

RetryInit ==
    /\ ClientInit
    /\ task = NoTask
    /\ batch = [x \in Executions |-> {}] /\ cur = [x \in Executions |-> <<>>]
    /\ mon = [m \in Monitors |-> [pc |-> "idle"]]
    /\ reopened = {} /\ outrun = {}
    /\ inputs = 0

Input == inputs < MaxInputs /\ inputs' = inputs + 1

-----------------------------------------------------------------------------
(* The task *)

\* The scheduler enqueues it every five minutes, unless one is active.
Schedule ==
    /\ task = NoTask
    /\ task' = [pc |-> "pending", ids |-> {}, all |-> TRUE]
    /\ UNCHANGED <<clientVars, batch, cur, mon, reopened, outrun, inputs>>

\* The row of the task is running, and it is the worker of x that runs it.
Owns(x) == task.pc = "running" /\ task.by = x

\* The rows _load_retry_candidates selects.
Candidate(i) ==
    /\ log[i].tries < MaxAuto
    /\ log[i].status \in {"none", "queued"}
    /\ IF task.all THEN log[i].status = "queued" ELSE i \in task.ids

\* A worker that is not busy claims the task.  _load_retry_candidates: the oldest
\* first, at most BatchLimit; without any the task is over.
Load(x) ==
    /\ task.pc = "pending" /\ batch[x] = {} /\ cur[x] = <<>>
    /\ LET found == {i \in Ids : Candidate(i)}
           chosen == {i \in found : Cardinality({j \in found : j < i}) < BatchLimit}
       IN  /\ batch' = [batch EXCEPT ![x] = {[id |-> i, tries |-> log[i].tries] : i \in chosen}]
           /\ task' = IF chosen = {} THEN NoTask ELSE [pc |-> "running", by |-> x]
    /\ UNCHANGED <<clientVars, cur, mon, reopened, outrun, inputs>>

\* The loop takes the rows in the order of the query.
Oldest(x, row) == row \in batch[x] /\ \A other \in batch[x] : row.id <= other.id

\* ctx.progress after a row: an execution that has lost its task ends there.
Progress(x, left) == batch' = [batch EXCEPT ![x] = IF Owns(x) THEN left ELSE {}]

\* _has_active_related_task finds a sync task of the endpoint active: the row
\* waits for the next execution.  The bound says that this ends.
SkipBusy(x) ==
    /\ cur[x] = <<>>
    /\ Input
    /\ \E row \in batch[x] : Oldest(x, row) /\ Progress(x, batch[x] \ {row})
    /\ UNCHANGED <<clientVars, task, cur, mon, reopened, outrun>>

\* _retry_one: the original request, once more, with the client of the process.
Replay(x) ==
    /\ cur[x] = <<>>
    /\ \E row \in batch[x] :
          /\ Oldest(x, row)
          /\ IF x = Replayer THEN Post(x, row.id) ELSE UNCHANGED clientVars
          /\ cur' = [cur EXCEPT ![x] = <<row>>]
          /\ batch' = [batch EXCEPT ![x] = @ \ {row}]
    /\ UNCHANGED <<task, mon, reopened, outrun, inputs>>

\* How the call may have ended.  The client of another process is of the same kind,
\* and may end it in every way the marks tell apart.
Answers(x) ==
    IF x # Replayer THEN {"ok", "biz", "rate"}
    ELSE IF call[x].pc = "done" THEN {call[x].res} ELSE {}

CallReturns(x) == IF x = Replayer THEN PostReturns(x) ELSE UNCHANGED call

\* Mutant: the limit is compared after one attempt more.
MarkOneLate(row, res) ==
    [status |-> IF res = "ok" THEN "resolved"
                ELSE IF res \in {"rate", "network"} /\ row.tries < MaxAuto THEN "queued"
                ELSE "permanent",
     tries |-> log[row.id].tries + 1]

\* _mark_resolved, _mark_retry_transient, _mark_permanent: the counter of the
\* row is counted up, the limit is compared with the counter that was loaded.
Marked(row, res) ==
    [status |-> IF res = "ok" THEN "resolved"
                ELSE IF res \in {"rate", "network"} /\ row.tries + 1 < MaxAuto THEN "queued"
                ELSE "permanent",
     tries |-> log[row.id].tries + 1]

\* Mutant: a replay that has failed is left to the next execution.
MarkSuccessOnly(x) ==
    /\ cur[x] # <<>>
    /\ \E res \in Answers(x) :
          log' = IF res = "ok" THEN [log EXCEPT ![cur[x][1].id] = Marked(cur[x][1], res)] ELSE log
    /\ CallReturns(x)
    /\ cur' = [cur EXCEPT ![x] = <<>>]
    /\ Progress(x, batch[x])
    /\ UNCHANGED <<token, task, mon, reopened, outrun, inputs>>

\* The rest of _retry_one, and ctx.progress.
Mark(x) ==
    LET row == cur[x][1]
    IN  /\ cur[x] # <<>>
        /\ \E res \in Answers(x) : log' = [log EXCEPT ![row.id] = Marked(row, res)]
        /\ outrun' = IF log[row.id].tries = row.tries THEN outrun ELSE outrun \cup {row.id}
        /\ CallReturns(x)
        /\ cur' = [cur EXCEPT ![x] = <<>>]
        /\ Progress(x, batch[x])
        /\ UNCHANGED <<token, task, mon, reopened, inputs>>

Finish(x) ==
    /\ Owns(x) /\ cur[x] = <<>> /\ batch[x] = {}
    /\ task' = NoTask
    /\ UNCHANGED <<clientVars, batch, cur, mon, reopened, outrun, inputs>>

\* A statement of the task fails, the mark of a replay included: the task has
\* failed, or had been reaped before.
TaskFails(x) ==
    /\ Input
    /\ batch[x] # {} \/ cur[x] # <<>>
    /\ IF cur[x] = <<>> THEN UNCHANGED call ELSE Answers(x) # {} /\ CallReturns(x)
    /\ task' = IF Owns(x) THEN NoTask ELSE task
    /\ batch' = [batch EXCEPT ![x] = {}] /\ cur' = [cur EXCEPT ![x] = <<>>]
    /\ UNCHANGED <<token, log, mon, reopened, outrun>>

\* The heartbeat of the worker has ended (worker.py, _heartbeat_loop), and the
\* lease runs out: the reaper fails the task, its coroutine goes on.
LeaseLost ==
    /\ Input
    /\ task.pc = "running" /\ task.by \in Executions
    /\ task' = NoTask
    /\ UNCHANGED <<clientVars, batch, cur, mon, reopened, outrun>>

\* A worker process dies, and with it the coroutines and the token in memory.  A
\* replay that Saihu has executed is not marked.
Crash(x) ==
    /\ Input
    /\ x = Replayer \/ batch[x] # {} \/ cur[x] # <<>> \/ Owns(x)
    /\ IF x = Replayer
       THEN /\ call' = [c \in Callers |-> NoCall]
            /\ mem' = 0 /\ token_lock' = NoCaller /\ future' = 0
            /\ refresh' = [r \in Tasks |-> "none"]
       ELSE UNCHANGED <<call, mem, token_lock, future, refresh>>
    /\ task' = IF Owns(x) THEN [task EXCEPT !.by = NoCaller] ELSE task
    /\ batch' = [batch EXCEPT ![x] = {}] /\ cur' = [cur EXCEPT ![x] = <<>>]
    /\ UNCHANGED <<live, issued, aged, cache, log, mon, reopened, outrun>>

\* The lease of a worker that died runs out, and the reaper fails its task.
Reap ==
    /\ task.pc = "running" /\ task.by = NoCaller
    /\ task' = NoTask
    /\ UNCHANGED <<clientVars, batch, cur, mon, reopened, outrun, inputs>>

-----------------------------------------------------------------------------
(* retry_call *)

\* The row is read and checked.
RetryRead(m, i) ==
    /\ mon[m].pc = "idle"
    /\ m = CHOOSE free \in Monitors : mon[free].pc = "idle"
    /\ Input
    /\ log[i].status \in {"none", "queued"} /\ log[i].tries < MaxAuto
    /\ mon' = [mon EXCEPT ![m] = [pc |-> "read", id |-> i, base |-> log[i].status]]
    /\ UNCHANGED <<clientVars, task, batch, cur, reopened, outrun>>

\* The mark is written if the row was not queued when it was read, whatever it is by
\* now, and committed with the new task; when a task is active, enqueue_task rolls it
\* back.
RetryEnqueue(m) ==
    LET i == mon[m].id
    IN  /\ mon[m].pc = "read"
        /\ IF task = NoTask
           THEN /\ log' = IF mon[m].base = "queued" THEN log
                          ELSE [log EXCEPT ![i].status = "queued"]
                /\ task' = [pc |-> "pending", ids |-> {i}, all |-> FALSE]
                /\ reopened' = IF log'[i].status = log[i].status \/ log[i].status = mon[m].base
                               THEN reopened ELSE reopened \cup {i}
           ELSE UNCHANGED <<log, task, reopened>>
        /\ mon' = [mon EXCEPT ![m] = [pc |-> "idle"]]
        /\ UNCHANGED <<token, call, batch, cur, outrun, inputs>>

-----------------------------------------------------------------------------
(* The sync jobs, as far as the client sees them *)

SyncJobs == Callers \ {Replayer}

JobCall(c) ==
    /\ c \in SyncJobs /\ Post(c, 0)
    /\ Input
    /\ UNCHANGED <<task, batch, cur, mon, reopened, outrun>>

TokenExpires == Expire /\ Input /\ UNCHANGED <<task, batch, cur, mon, reopened, outrun>>

JobReturn(c) ==
    /\ c \in SyncJobs /\ call[c].pc = "done"
    /\ PostReturns(c)
    /\ UNCHANGED <<token, log, retryVars>>

Client(c) ==
    /\ GetToken(c) \/ GetTokenLoad(c) \/ GetTokenLoaded(c) \/ ForceRefresh(c) \/ Send(c)
    /\ UNCHANGED retryVars

Refresh(r) ==
    /\ RefreshIssued(r) \/ RefreshSaved(r) \/ RefreshFails(r) \/ RefreshCleared(r)
    /\ UNCHANGED retryVars

\* What an execution of the task does by itself.
Execute(x) == Load(x) \/ SkipBusy(x) \/ Replay(x) \/ Mark(x) \/ Finish(x)

RetryNext ==
    \/ TokenExpires
    \/ \E c \in Callers : Client(c) \/ JobCall(c) \/ JobReturn(c)
    \/ \E r \in Tasks : Refresh(r)
    \/ Schedule \/ LeaseLost \/ Reap
    \/ \E x \in Executions : Execute(x) \/ TaskFails(x) \/ Crash(x)
    \/ \E m \in Monitors : RetryEnqueue(m) \/ \E i \in Ids : RetryRead(m, i)

\* The event loop goes on with some coroutine, Saihu answers or the request times
\* out, and some process goes on with the task: less than the code gives.  Users
\* and the jobs need not call.
Fairness ==
    /\ WF_apiVars((\E c \in Callers : Client(c)) \/ (\E r \in Tasks : Refresh(r)))
    /\ WF_apiVars(Schedule \/ Reap \/ \E x \in Executions : Execute(x))

RetrySpec == RetryInit /\ [][RetryNext]_apiVars /\ Fairness

-----------------------------------------------------------------------------
(* Properties *)

\* At most one refresh is between its request and the end of its UPSERT, however
\* callers with an expired or refused token and the clearing of an older future
\* interleave (token.py, _get_or_start_refresh_locked and _run_refresh).
SingleFlight ==
    \A r, q \in Tasks :
        refresh[r] \in {"http", "upsert"} /\ refresh[q] \in {"http", "upsert"} => r = q

\* A logged call is replayed at most MAX_AUTO_RETRY_ATTEMPTS times, and once more
\* for every further worker whose execution has lost its task while it replays the
\* call.  A call that waits in the queue has an attempt left, or nobody would ever look
\* at it again (api_call_retry.py, the marks; monitor.py, retry_call).  Two races break
\* that: of two requests that read a call at the same time, the second queues it again
\* after the replays of the first have used up its attempts; and of two executions that
\* have loaded the same counter, both compare the limit with it and both count it up.
QueueAlive ==
    \A i \in Ids :
        /\ log[i].tries <= MaxAuto + Cardinality(Elsewhere)
        /\ log[i].status = "queued" => log[i].tries < MaxAuto \/ i \in reopened \cup outrun

\* Every call of post comes to an end: no coroutine waits for a future that
\* nobody resolves or for a lock that is not given back.
CallEnds == \A c \in Callers : call[c].pc = "token" ~> call[c].pc \in {"done", "idle"}

\* A call that is queued is resolved or given up in the end, or has no attempt left,
\* also when workers die or lose their task while they replay it and when sync tasks
\* push it to later executions.
QueuedSettles ==
    \A i \in 1..MaxRows :
        (i \in Ids /\ log[i].status = "queued")
            ~> (i \in Ids /\ (log[i].status \in {"resolved", "permanent"} \/ log[i].tries >= MaxAuto))

=============================================================================
