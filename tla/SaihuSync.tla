----------------------------- MODULE SaihuSync -----------------------------
(***************************************************************************)
(* Pulling data from the Saihu ERP (sync/locks.py, common.py, all.py,      *)
(* inventory.py, out_records.py).                                          *)
(*                                                                         *)
(* Executions of sync jobs take session level advisory locks, one for a    *)
(* job of its own, all of them for sync_all.  sync_out_records is modelled *)
(* with its data: it pulls the records in transit page by page, upserts    *)
(* what it has seen in one transaction, and then ages out the rows it has  *)
(* not seen.  sync_inventory stands for the jobs that only upsert.         *)
(***************************************************************************)
EXTENDS Naturals

CONSTANTS
    Runs,         \* executions of sync tasks that may overlap: several workers,
                  \* or an execution whose task was reaped and that lives on
    Records,      \* out records of Saihu
    MaxStarts,    \* bound: how often a job is started
    NoRun

ASSUME SyncAssumption == MaxStarts \in Nat /\ NoRun \notin Runs

SyncJobs == {"sync_inventory", "sync_out_records"}

VARIABLES
    remote,       \* the records in transit at Saihu
    rec,          \* in_transit_record: "none", "transit", "done" (is_in_transit)
    seen,         \* its last_seen_at
    clock,        \* start times handed out so far
    lock,         \* who holds the advisory lock of each job, or NoRun
    state,        \* sync_state.last_status of each job
    pc,           \* runs: idle, locking, ready, pulling, upserted, aged, ended
    want, todo,   \* runs: the locks of this execution, the jobs still to do
    doing, start, \* runs: the job being executed, and its start time
    left, pulled, \* runs: records not looked at yet, and those seen in transit
    mirror,       \* history: what the last successful sync_out_records has pulled
    died          \* history: jobs whose last execution has died in them

rows == <<rec, seen, mirror>>
run  == <<pc, want, todo, doing, start, left, pulled>>
syncVars == <<remote, rows, clock, lock, state, run, died>>

TypeOK ==
    /\ remote \subseteq Records
    /\ rec \in [Records -> {"none", "transit", "done"}]
    /\ seen \in [Records -> Nat]
    /\ clock \in 0..MaxStarts
    /\ lock \in [SyncJobs -> Runs \cup {NoRun}]
    /\ state \in [SyncJobs -> {"never", "running", "success", "failed"}]
    /\ pc \in [Runs -> {"idle", "locking", "ready", "pulling", "upserted", "aged", "ended"}]
    /\ want \in [Runs -> SUBSET SyncJobs]
    /\ todo \in [Runs -> SUBSET SyncJobs]
    /\ doing \in [Runs -> SyncJobs \cup {"none"}]
    /\ start \in [Runs -> Nat]
    /\ left \in [Runs -> SUBSET Records]
    /\ pulled \in [Runs -> SUBSET Records]
    /\ mirror \subseteq Records
    /\ died \subseteq SyncJobs

SyncInit ==
    /\ remote = {}
    /\ rec = [x \in Records |-> "none"]
    /\ seen = [x \in Records |-> 0]
    /\ clock = 0
    /\ lock = [j \in SyncJobs |-> NoRun]
    /\ state = [j \in SyncJobs |-> "never"]
    /\ pc = [r \in Runs |-> "idle"]
    /\ want = [r \in Runs |-> {}]
    /\ todo = [r \in Runs |-> {}]
    /\ doing = [r \in Runs |-> "none"]
    /\ start = [r \in Runs |-> 0]
    /\ left = [r \in Runs |-> {}]
    /\ pulled = [r \in Runs |-> {}]
    /\ mirror = {}
    /\ died = {}

Transit == {x \in Records : rec[x] = "transit"}

\* A record enters or leaves transit at Saihu.
Ship(x) ==
    /\ remote' = (remote \ {x}) \cup ({x} \ remote)
    /\ UNCHANGED <<rows, clock, lock, state, run, died>>

-----------------------------------------------------------------------------
(* sync_business_lock and sync_business_locks *)

\* The worker starts the task of one job, or sync_all.
Begin(r) ==
    /\ pc[r] = "idle" /\ clock < MaxStarts
    /\ \E J \in {{j} : j \in SyncJobs} \cup {SyncJobs} :
          /\ want' = [want EXCEPT ![r] = J]
          /\ todo' = [todo EXCEPT ![r] = J]
    /\ pc' = [pc EXCEPT ![r] = "locking"]
    /\ UNCHANGED <<remote, rows, clock, lock, state, doing, start, left, pulled, died>>

\* The order of the hashed lock keys, the same for every task.
Before(i, j) == i = "sync_out_records" /\ j = "sync_inventory"

\* The lock the execution asks for next.
Asks(r, j) ==
    /\ j \in want[r] /\ lock[j] # r
    /\ \A i \in want[r] : Before(i, j) => lock[i] = r

\* The end of an execution, however it comes: the locks are given back.
Quit(r) ==
    /\ pc' = [pc EXCEPT ![r] = "idle"]
    /\ lock' = [j \in SyncJobs |-> IF lock[j] = r THEN NoRun ELSE lock[j]]
    /\ want' = [want EXCEPT ![r] = {}]
    /\ todo' = [todo EXCEPT ![r] = {}]
    /\ doing' = [doing EXCEPT ![r] = "none"]
    /\ start' = [start EXCEPT ![r] = 0]
    /\ left' = [left EXCEPT ![r] = {}]
    /\ pulled' = [pulled EXCEPT ![r] = {}]

\* pg_try_advisory_lock answers true.
Lock(r) ==
    /\ pc[r] = "locking"
    /\ \E j \in SyncJobs : Asks(r, j) /\ lock[j] = NoRun /\ lock' = [lock EXCEPT ![j] = r]
    /\ UNCHANGED <<remote, rows, clock, state, run, died>>

\* It answers false: SyncBusinessLockConflictError, before any job is started.
LockConflict(r) ==
    /\ pc[r] = "locking"
    /\ \E j \in SyncJobs : Asks(r, j) /\ lock[j] # NoRun
    /\ Quit(r)
    /\ UNCHANGED <<remote, rows, clock, state, died>>

Locked(r) ==
    /\ pc[r] = "locking"
    /\ \A j \in want[r] : lock[j] = r
    /\ pc' = [pc EXCEPT ![r] = "ready"]
    /\ UNCHANGED <<remote, rows, clock, lock, state, want, todo, doing, start, left, pulled, died>>

-----------------------------------------------------------------------------
(* The jobs; in sync_all in the order of SYNC_ALL_STEPS *)

\* mark_sync_running, which fixes the start time.
StartJob(r) ==
    /\ pc[r] \in {"ready", "ended"} /\ clock < MaxStarts
    /\ clock' = clock + 1
    /\ \E j \in todo[r] :
          /\ j = "sync_out_records" => todo[r] = {j}
          /\ doing' = [doing EXCEPT ![r] = j]
          /\ todo' = [todo EXCEPT ![r] = @ \ {j}]
          /\ state' = [state EXCEPT ![j] = "running"]
          /\ left' = [left EXCEPT ![r] = IF j = "sync_out_records" THEN Records ELSE {}]
          /\ died' = died \ {j}
    /\ start' = [start EXCEPT ![r] = clock + 1]
    /\ pulled' = [pulled EXCEPT ![r] = {}]
    /\ pc' = [pc EXCEPT ![r] = "pulling"]
    /\ UNCHANGED <<remote, rows, lock, want>>

\* The page where x is, or would be, arrives.
Pull(r, x) ==
    /\ pc[r] = "pulling" /\ x \in left[r]
    /\ left' = [left EXCEPT ![r] = @ \ {x}]
    /\ pulled' = [pulled EXCEPT ![r] = IF x \in remote THEN @ \cup {x} ELSE @]
    /\ UNCHANGED <<remote, rows, clock, lock, state, pc, want, todo, doing, start, died>>

\* The transaction of the upserts commits; sync_inventory has nothing to age.
Upsert(r) ==
    /\ pc[r] = "pulling" /\ left[r] = {}
    /\ rec' = [x \in Records |-> IF x \in pulled[r] THEN "transit" ELSE rec[x]]
    /\ seen' = [x \in Records |-> IF x \in pulled[r] THEN start[r] ELSE seen[x]]
    /\ pc' = [pc EXCEPT ![r] = IF doing[r] = "sync_out_records" THEN "upserted" ELSE "aged"]
    /\ UNCHANGED <<remote, mirror, clock, lock, state, want, todo, doing, start, left, pulled, died>>

\* Mutant: rows last seen at the start time itself are aged out too.
AgeInclusive(r) ==
    /\ pc[r] = "upserted"
    /\ rec' = [x \in Records |->
                  IF rec[x] = "transit" /\ seen[x] <= start[r] THEN "done" ELSE rec[x]]
    /\ pc' = [pc EXCEPT ![r] = "aged"]
    /\ UNCHANGED <<remote, seen, mirror, clock, lock, state, want, todo, doing, start,
                   left, pulled, died>>

\* _age_out_records, in a transaction of its own.
Age(r) ==
    /\ pc[r] = "upserted"
    /\ rec' = [x \in Records |->
                  IF rec[x] = "transit" /\ seen[x] < start[r] THEN "done" ELSE rec[x]]
    /\ pc' = [pc EXCEPT ![r] = "aged"]
    /\ UNCHANGED <<remote, seen, mirror, clock, lock, state, want, todo, doing, start,
                   left, pulled, died>>

\* mark_sync_success.
Succeed(r) ==
    /\ pc[r] = "aged"
    /\ state' = [state EXCEPT ![doing[r]] = "success"]
    /\ mirror' = IF doing[r] = "sync_out_records" THEN pulled[r] ELSE mirror
    /\ pc' = [pc EXCEPT ![r] = "ended"]
    /\ UNCHANGED <<remote, rec, seen, clock, lock, want, todo, doing, start, left, pulled, died>>

Return(r) ==
    /\ pc[r] = "ended" /\ todo[r] = {}
    /\ Quit(r)
    /\ UNCHANGED <<remote, rows, clock, state, died>>

\* Mutant: the exception leaves the job without mark_sync_failed.
FailUnmarked(r) ==
    /\ pc[r] \in {"pulling", "upserted", "aged", "ended"}
    /\ Quit(r)
    /\ UNCHANGED <<remote, rows, clock, state, died>>

\* A call fails, the lease is lost or the database raises: mark_sync_failed,
\* even when success is on record and only the last progress report fails.
Fail(r) ==
    /\ pc[r] \in {"pulling", "upserted", "aged", "ended"}
    /\ state' = [state EXCEPT ![doing[r]] = "failed"]
    /\ Quit(r)
    /\ UNCHANGED <<remote, rows, clock, died>>

\* The process dies, or the lease is lost outside a job: the session and its
\* locks are gone, sync_state stays.
Die(r) ==
    /\ pc[r] # "idle"
    /\ died' = IF pc[r] \in {"pulling", "upserted", "aged"} THEN died \cup {doing[r]} ELSE died
    /\ Quit(r)
    /\ UNCHANGED <<remote, rows, clock, state>>

RunStep(r) ==
    \/ Begin(r) \/ Lock(r) \/ LockConflict(r) \/ Locked(r)
    \/ StartJob(r) \/ (\E x \in Records : Pull(r, x)) \/ Upsert(r) \/ Age(r) \/ Succeed(r)
    \/ Return(r) \/ Fail(r) \/ Die(r)

SyncNext == (\E x \in Records : Ship(x)) \/ (\E r \in Runs : RunStep(r))

SyncSpec == SyncInit /\ [][SyncNext]_syncVars

-----------------------------------------------------------------------------
(* Properties *)

\* At most one execution is inside a job, be it a task of its own or a step of
\* sync_all, and be it one that was reaped and lives on (sync/locks.py).
OneInJob == \A r, q \in Runs : doing[r] # "none" /\ doing[r] = doing[q] => r = q

\* Once sync_out_records has succeeded, and until it is started again, the rows
\* in transit are exactly the records its pull has seen: none of them is aged
\* out, and none it has not seen is left, whatever earlier runs that failed half
\* way have written (_upsert_out_record, _age_out_records).
SuccessMirrors == state["sync_out_records"] = "success" => Transit = mirror

\* sync_state says running only while an execution is inside the job, unless the
\* last one died there (mark_sync_running, mark_sync_failed).
RunningIsLive ==
    \A j \in SyncJobs : state[j] = "running" => j \in died \/ \E r \in Runs : doing[r] = j
=============================================================================
