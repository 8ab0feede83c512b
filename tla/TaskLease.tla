----------------------------- MODULE TaskLease -----------------------------
(***************************************************************************)
(* The clock of the task queue: one worker process and the lease of the    *)
(* row it runs, its heartbeat coroutine (tasks/worker.py) and the reaper   *)
(* loops (tasks/reaper.py), in ticks of a common clock.  The settings are  *)
(* part of the state: every combination within the bounds is tried, and    *)
(* Worker.start() decides which of them it accepts.                        *)
(*                                                                         *)
(* A heartbeat round wakes up after its sleep and completes its UPDATE     *)
(* late by up to one heartbeat interval (event loop busy, pool exhausted,  *)
(* slow database): that slack is what the check in start() leaves.         *)
(***************************************************************************)
EXTENDS Integers

CONSTANTS
    MaxLease, MaxBeat, MaxReapEvery,  \* bounds on the three settings
    MaxRaised                         \* bound: reaper passes that raise in a row

ASSUME LeaseAssumption ==
    MaxLease \in Nat /\ MaxBeat \in Nat /\ MaxReapEvery \in Nat /\ MaxRaised \in Nat

VARIABLES
    lease_seconds,  \* worker_lease_minutes
    beat,           \* worker_heartbeat_seconds
    reapEvery,      \* reaper_interval_seconds, with the pass that precedes the wait
    proc,           \* the worker process
    row,            \* the task_run row it claimed last
    left,           \* lease_expires_at - now() of a running row
    sleep,          \* ticks until the heartbeat coroutine wakes up
    late,           \* ticks by which the current round is late
    beating,        \* the heartbeat coroutine
    faults,         \* rounds of this task that raised
    reapIn,         \* ticks until the next reaper pass is due
    raised          \* reaper passes that raised since the last one that did not

config == <<lease_seconds, beat, reapEvery>>
timers == <<left, sleep, late, reapIn>>
leaseVars == <<config, proc, row, timers, beating, faults, raised>>

LeaseTypeOK ==
    /\ lease_seconds \in 1..MaxLease /\ beat \in 1..MaxBeat /\ reapEvery \in 1..MaxReapEvery
    /\ proc \in {"off", "refused", "idle", "busy", "dead"}
    /\ row \in {"none", "running", "reaped", "finished"}
    /\ left \in Int /\ sleep \in 0..beat /\ late \in 0..beat /\ reapIn \in 0..reapEvery
    /\ beating \in {"alive", "ended"} /\ faults \in 0..1 /\ raised \in 0..MaxRaised

LeaseInit ==
    /\ lease_seconds \in 1..MaxLease /\ beat \in 1..MaxBeat /\ reapEvery \in 1..MaxReapEvery
    /\ proc = "off" /\ row = "none"
    /\ left = 0 /\ sleep = 0 /\ late = 0 /\ reapIn = 0
    /\ beating = "ended" /\ faults = 0 /\ raised = 0

-----------------------------------------------------------------------------
\* Mutant: the check only asks that one heartbeat fits into the lease.
StartOneBeat ==
    /\ proc = "off"
    /\ proc' = IF beat >= lease_seconds THEN "refused" ELSE "idle"
    /\ UNCHANGED <<config, row, timers, beating, faults, raised>>

\* Worker.start(): heartbeat_seconds * 2 >= lease_seconds raises.
StartWorker ==
    /\ proc = "off"
    /\ proc' = IF beat * 2 >= lease_seconds THEN "refused" ELSE "idle"
    /\ UNCHANGED <<config, row, timers, beating, faults, raised>>

\* _claim_one and the start of _heartbeat_loop.
ClaimTask ==
    /\ proc = "idle"
    /\ proc' = "busy" /\ row' = "running"
    /\ left' = lease_seconds /\ sleep' = beat /\ late' = 0
    /\ beating' = "alive" /\ faults' = 0
    /\ UNCHANGED <<config, reapIn, raised>>

\* A round of _heartbeat_loop: it renews the lease, or finds the row gone.
Beat ==
    /\ proc = "busy" /\ beating = "alive" /\ sleep = 0
    /\ sleep' = beat /\ late' = 0
    /\ IF row = "running" THEN left' = lease_seconds /\ UNCHANGED beating
                          ELSE beating' = "ended" /\ UNCHANGED left
    /\ UNCHANGED <<config, proc, row, faults, reapIn, raised>>

\* The UPDATE of a round raises: the coroutine ends for good.
BeatRaises ==
    /\ proc = "busy" /\ beating = "alive" /\ sleep = 0
    /\ beating' = "ended" /\ faults' = faults + 1
    /\ UNCHANGED <<config, proc, row, timers, raised>>

\* The handler ends; the final write is guarded by status = 'running'.
HandlerEnds ==
    /\ proc = "busy"
    /\ proc' = "idle" /\ beating' = "ended"
    /\ row' = IF row = "running" THEN "finished" ELSE row
    /\ UNCHANGED <<config, timers, faults, raised>>

WorkerDies ==
    /\ proc \in {"idle", "busy"}
    /\ proc' = "dead" /\ beating' = "ended"
    /\ UNCHANGED <<config, row, timers, faults, raised>>

\* The row after the UPDATE of _reap_once.
Reaped == IF row = "running" /\ left < 0 THEN "reaped" ELSE row

\* Mutant: the pass grants an overdue row one more interval.
ReapPassGrace ==
    /\ row' = IF row = "running" /\ left < 0 - reapEvery THEN "reaped" ELSE row
    /\ reapIn' = reapEvery /\ raised' = 0
    /\ UNCHANGED <<config, proc, left, sleep, late, beating, faults>>

\* A pass of _run_loop in which _reap_once commits.  The worker and the scheduler
\* container each run the loop, so a pass may come at any moment; one comes at the
\* latest when it is due.
ReapPass ==
    /\ row' = Reaped
    /\ reapIn' = reapEvery /\ raised' = 0
    /\ UNCHANGED <<config, proc, left, sleep, late, beating, faults>>

\* A pass that raises, before or after its commit, is logged, and the loop waits
\* for its interval as ever.
ReapRaises ==
    /\ raised < MaxRaised
    /\ row' \in {row, Reaped}
    /\ reapIn' = reapEvery /\ raised' = raised + 1
    /\ UNCHANGED <<config, proc, left, sleep, late, beating, faults>>

\* One tick of the clock.  A round that is a whole interval late and a reaper
\* pass that is due happen first.
Tick ==
    /\ proc \in {"idle", "busy", "dead"}
    /\ reapIn > 0
    /\ beating = "alive" => sleep > 0 \/ late < beat
    /\ reapIn' = reapIn - 1
    /\ left' = IF row = "running" THEN left - 1 ELSE left
    /\ sleep' = IF beating = "alive" /\ sleep > 0 THEN sleep - 1 ELSE sleep
    /\ late' = IF beating = "alive" /\ sleep = 0 THEN late + 1 ELSE late
    /\ UNCHANGED <<config, proc, row, beating, faults, raised>>

LeaseNext ==
    \/ StartWorker \/ ClaimTask \/ Beat \/ BeatRaises \/ HandlerEnds \/ WorkerDies
    \/ ReapPass \/ ReapRaises \/ Tick

LeaseSpec == LeaseInit /\ [][LeaseNext]_leaseVars

-----------------------------------------------------------------------------
\* With the settings start() accepts, the reaper never takes the row of a
\* process whose heartbeat coroutine is alive, even when every round is late
\* by a whole interval.
ReapsOnlySilent == [][row = "running" /\ row' = "reaped" => beating = "ended"]_leaseVars

\* A row whose worker died or fell silent stays running past its lease for at
\* most one reaper interval, and one more for every pass that raised in the
\* meantime.  Without such passes this is lease plus interval; docs/runbook.md:164
\* promises the lease alone (at most WORKER_LEASE_MINUTES minutes), which even a
\* reaper that never fails does not keep.
OrphanBounded == row = "running" => left >= 0 - (raised + 1) * reapEvery

=============================================================================
