------------------------- MODULE SyncSettingsProofs -------------------------
(***************************************************************************)
(* The sync jobs (SaihuSync), for any number of runs and records: the      *)
(* locks, the rows and sync_state agree in each phase of a run.            *)
(*                                                                         *)
(* The settings, with the scheduler that starts these jobs and the         *)
(* dashboard, for any number of processes, coroutines, objects, requests   *)
(* and executions of the job: the mark on the dashboard, the one scheduler *)
(* of a process, and what a reload leaves behind.                          *)
(***************************************************************************)
EXTENDS Settings, SaihuSync, TLAPS

\* Most steps are first-order reasoning; those that need arithmetic or
\* updates of functions and records cite SMT.
USE Zenon

-----------------------------------------------------------------------------
(* The sync jobs *)

Inside == {"pulling", "upserted", "aged", "ended"}

\* Who is past the locks holds all it wants, and is only in such a job.
Holding ==
    \A r \in Runs :
       /\ pc[r] \in Inside <=> doing[r] # "none"
       /\ pc[r] \in Inside \cup {"ready"} => \A j \in want[r] : lock[j] = r
       /\ todo[r] \subseteq want[r]
       /\ doing[r] # "none" => doing[r] \in want[r]

\* Start times are fresh, and so is every last_seen_at no later than the clock.
Clocked ==
    /\ \A x \in Records : seen[x] <= clock
    /\ \A r \in Runs : start[r] <= clock

\* sync_state while an execution is in a job.
StateWritten ==
    \A r \in Runs :
       /\ pc[r] \in {"pulling", "upserted", "aged"} => state[doing[r]] = "running"
       /\ pc[r] = "ended" => state[doing[r]] = "success"

\* The rows while an execution is in sync_out_records.
Phase ==
    \A r \in Runs :
       /\ pc[r] = "pulling" /\ doing[r] = "sync_inventory" => pulled[r] = {} /\ left[r] = {}
       /\ pc[r] = "pulling" /\ doing[r] = "sync_out_records" =>
             \A x \in Records : seen[x] < start[r]
       /\ pc[r] = "upserted" =>
             /\ doing[r] = "sync_out_records"
             /\ \A x \in Records :
                   /\ x \in pulled[r] => rec[x] = "transit" /\ seen[x] = start[r]
                   /\ x \notin pulled[r] => seen[x] < start[r]
       /\ pc[r] = "aged" /\ doing[r] = "sync_out_records" => Transit = pulled[r]

SInv == TypeOK /\ Holding /\ Clocked /\ StateWritten /\ Phase /\ SuccessMirrors /\ RunningIsLive

\* Two executions are never inside the same job.
LEMMA Alone ==
    ASSUME TypeOK, Holding
    PROVE  OneInJob
BY SMT DEF TypeOK, Holding, OneInJob, Inside

\* The invariant of the execution holds at first.
LEMMA InitSInv == SyncInit => SInv
<1> SUFFICES ASSUME SyncInit PROVE SInv
  OBVIOUS
<1>1. TypeOK
  BY SMT, SyncAssumption DEF SyncInit, TypeOK, SyncJobs
<1>2. Holding /\ Clocked /\ StateWritten /\ Phase
  BY SMT DEF SyncInit, Holding, Clocked, StateWritten, Phase, Inside
<1>3. SuccessMirrors /\ RunningIsLive
  BY DEF SyncInit, SuccessMirrors, RunningIsLive, SyncJobs
<1> QED
  BY <1>1, <1>2, <1>3 DEF SInv

\* TypeOK is preserved by every step.
LEMMA TypeStep == SInv /\ [SyncNext]_syncVars => TypeOK'
<1> SUFFICES ASSUME SInv, [SyncNext]_syncVars PROVE TypeOK'
  OBVIOUS
<1> USE SyncAssumption DEF SInv, TypeOK, SyncJobs, rows, run, syncVars
<1>1. ASSUME NEW x \in Records, Ship(x) PROVE TypeOK'
  BY <1>1 DEF Ship
<1>2. ASSUME NEW r \in Runs, Begin(r) PROVE TypeOK'
  BY SMT, <1>2 DEF Begin
<1>3. ASSUME NEW r \in Runs, Lock(r) PROVE TypeOK'
  BY SMT, <1>3 DEF Lock
<1>4. ASSUME NEW r \in Runs, LockConflict(r) PROVE TypeOK'
  BY <1>4 DEF LockConflict, Quit
<1>5. ASSUME NEW r \in Runs, Locked(r) PROVE TypeOK'
  BY <1>5 DEF Locked
<1>6. ASSUME NEW r \in Runs, StartJob(r) PROVE TypeOK'
  BY SMT, <1>6 DEF StartJob
<1>7. ASSUME NEW r \in Runs, NEW x \in Records, Pull(r, x) PROVE TypeOK'
  BY SMT, <1>7 DEF Pull
<1>8. ASSUME NEW r \in Runs, Upsert(r) PROVE TypeOK'
  BY <1>8 DEF Upsert
<1>9. ASSUME NEW r \in Runs, Age(r) PROVE TypeOK'
  BY <1>9 DEF Age
<1>10. ASSUME NEW r \in Runs, Succeed(r) PROVE TypeOK'
  BY <1>10, Zenon DEF Succeed
<1>11. ASSUME NEW r \in Runs, Return(r) PROVE TypeOK'
  BY <1>11 DEF Return, Quit
<1>12. ASSUME NEW r \in Runs, Fail(r) PROVE TypeOK'
  BY <1>12, Zenon DEF Fail, Quit
<1>13. ASSUME NEW r \in Runs, Die(r) PROVE TypeOK'
  <2>1. pc[r] \in {"pulling", "upserted", "aged"} => doing[r] \in SyncJobs
    BY <1>13 DEF Holding, Inside
  <2> QED
    BY <1>13, <2>1, Zenon DEF Die, Quit
<1>14. CASE UNCHANGED syncVars
  BY <1>14
<1> QED
  BY <1>1, <1>2, <1>3, <1>4, <1>5, <1>6, <1>7, <1>8, <1>9, <1>10, <1>11, <1>12, <1>13, <1>14
     DEF SyncNext, RunStep
\* Locks are taken free, and given back by their holder only.
LEMMA HoldingStep == SInv /\ [SyncNext]_syncVars => Holding'
<1> SUFFICES ASSUME SInv, [SyncNext]_syncVars PROVE Holding'
  OBVIOUS
<1> USE SyncAssumption DEF SInv, TypeOK, SyncJobs, rows, run, syncVars, Holding, Inside
<1>1. ASSUME NEW x \in Records, Ship(x) PROVE Holding'
  BY <1>1 DEF Ship
<1>2. ASSUME NEW r \in Runs, Begin(r) PROVE Holding'
  BY SMT, <1>2 DEF Begin
<1>3. ASSUME NEW r \in Runs, Lock(r) PROVE Holding'
  BY SMT, <1>3 DEF Lock
<1>4. ASSUME NEW r \in Runs, LockConflict(r) PROVE Holding'
  BY SMT, <1>4 DEF LockConflict, Quit
<1>5. ASSUME NEW r \in Runs, Locked(r) PROVE Holding'
  BY SMT, <1>5 DEF Locked
<1>6. ASSUME NEW r \in Runs, StartJob(r) PROVE Holding'
  BY SMT, <1>6 DEF StartJob
<1>7. ASSUME NEW r \in Runs, NEW x \in Records, Pull(r, x) PROVE Holding'
  BY <1>7 DEF Pull
<1>8. ASSUME NEW r \in Runs, Upsert(r) PROVE Holding'
  BY SMT, <1>8 DEF Upsert
<1>9. ASSUME NEW r \in Runs, Age(r) PROVE Holding'
  BY SMT, <1>9 DEF Age
<1>10. ASSUME NEW r \in Runs, Succeed(r) PROVE Holding'
  BY SMT, <1>10 DEF Succeed
<1>11. ASSUME NEW r \in Runs, Return(r) PROVE Holding'
  BY SMT, <1>11 DEF Return, Quit
<1>12. ASSUME NEW r \in Runs, Fail(r) PROVE Holding'
  BY SMT, <1>12 DEF Fail, Quit
<1>13. ASSUME NEW r \in Runs, Die(r) PROVE Holding'
  BY SMT, <1>13 DEF Die, Quit
<1>14. CASE UNCHANGED syncVars
  BY <1>14
<1> QED
  BY <1>1, <1>2, <1>3, <1>4, <1>5, <1>6, <1>7, <1>8, <1>9, <1>10, <1>11, <1>12, <1>13, <1>14
     DEF SyncNext, RunStep

\* StartJob takes the next time.
LEMMA ClockedStep == SInv /\ [SyncNext]_syncVars => Clocked'
<1> SUFFICES ASSUME SInv, [SyncNext]_syncVars PROVE Clocked'
  OBVIOUS
<1> USE SyncAssumption DEF SInv, TypeOK, SyncJobs, rows, run, syncVars, Clocked
<1>1. ASSUME NEW x \in Records, Ship(x) PROVE Clocked'
  BY <1>1 DEF Ship
<1>2. ASSUME NEW r \in Runs, Begin(r) PROVE Clocked'
  BY <1>2 DEF Begin
<1>3. ASSUME NEW r \in Runs, Lock(r) PROVE Clocked'
  BY <1>3 DEF Lock
<1>4. ASSUME NEW r \in Runs, LockConflict(r) PROVE Clocked'
  BY SMT, <1>4 DEF LockConflict, Quit
<1>5. ASSUME NEW r \in Runs, Locked(r) PROVE Clocked'
  BY <1>5 DEF Locked
<1>6. ASSUME NEW r \in Runs, StartJob(r) PROVE Clocked'
  BY SMT, <1>6 DEF StartJob
<1>7. ASSUME NEW r \in Runs, NEW x \in Records, Pull(r, x) PROVE Clocked'
  BY <1>7 DEF Pull
<1>8. ASSUME NEW r \in Runs, Upsert(r) PROVE Clocked'
  BY <1>8 DEF Upsert
<1>9. ASSUME NEW r \in Runs, Age(r) PROVE Clocked'
  BY <1>9 DEF Age
<1>10. ASSUME NEW r \in Runs, Succeed(r) PROVE Clocked'
  BY <1>10 DEF Succeed
<1>11. ASSUME NEW r \in Runs, Return(r) PROVE Clocked'
  BY SMT, <1>11 DEF Return, Quit
<1>12. ASSUME NEW r \in Runs, Fail(r) PROVE Clocked'
  BY SMT, <1>12 DEF Fail, Quit
<1>13. ASSUME NEW r \in Runs, Die(r) PROVE Clocked'
  BY SMT, <1>13 DEF Die, Quit
<1>14. CASE UNCHANGED syncVars
  BY <1>14
<1> QED
  BY <1>1, <1>2, <1>3, <1>4, <1>5, <1>6, <1>7, <1>8, <1>9, <1>10, <1>11, <1>12, <1>13, <1>14
     DEF SyncNext, RunStep

\* Only the one execution inside a job writes its sync_state.
LEMMA StateWrittenStep == SInv /\ [SyncNext]_syncVars => StateWritten'
<1> SUFFICES ASSUME SInv, [SyncNext]_syncVars PROVE StateWritten'
  OBVIOUS
<1> USE SyncAssumption DEF SInv, TypeOK, SyncJobs, rows, run, syncVars, StateWritten, Holding, Inside
<1>1. ASSUME NEW x \in Records, Ship(x) PROVE StateWritten'
  BY <1>1 DEF Ship
<1>2. ASSUME NEW r \in Runs, Begin(r) PROVE StateWritten'
  BY SMT, <1>2 DEF Begin
<1>3. ASSUME NEW r \in Runs, Lock(r) PROVE StateWritten'
  BY <1>3 DEF Lock
<1>4. ASSUME NEW r \in Runs, LockConflict(r) PROVE StateWritten'
  BY SMT, <1>4 DEF LockConflict, Quit
<1>5. ASSUME NEW r \in Runs, Locked(r) PROVE StateWritten'
  BY SMT, <1>5 DEF Locked
<1>6. ASSUME NEW r \in Runs, StartJob(r) PROVE StateWritten'
  BY SMT, <1>6 DEF StartJob
<1>7. ASSUME NEW r \in Runs, NEW x \in Records, Pull(r, x) PROVE StateWritten'
  BY <1>7 DEF Pull
<1>8. ASSUME NEW r \in Runs, Upsert(r) PROVE StateWritten'
  BY SMT, <1>8 DEF Upsert
<1>9. ASSUME NEW r \in Runs, Age(r) PROVE StateWritten'
  BY SMT, <1>9 DEF Age
<1>10. ASSUME NEW r \in Runs, Succeed(r) PROVE StateWritten'
  BY SMT, <1>10 DEF Succeed
<1>11. ASSUME NEW r \in Runs, Return(r) PROVE StateWritten'
  BY SMT, <1>11 DEF Return, Quit
<1>12. ASSUME NEW r \in Runs, Fail(r) PROVE StateWritten'
  BY SMT, <1>12 DEF Fail, Quit
<1>13. ASSUME NEW r \in Runs, Die(r) PROVE StateWritten'
  BY SMT, <1>13 DEF Die, Quit
<1>14. CASE UNCHANGED syncVars
  BY <1>14
<1> QED
  BY <1>1, <1>2, <1>3, <1>4, <1>5, <1>6, <1>7, <1>8, <1>9, <1>10, <1>11, <1>12, <1>13, <1>14
     DEF SyncNext, RunStep

\* Only the one execution inside sync_out_records writes the rows.
LEMMA PhaseStep == SInv /\ [SyncNext]_syncVars => Phase'
<1> SUFFICES ASSUME SInv, [SyncNext]_syncVars PROVE Phase'
  OBVIOUS
<1> USE SyncAssumption DEF SInv, TypeOK, SyncJobs, rows, run, syncVars, Phase, Holding, Inside, Clocked, Transit
<1>1. ASSUME NEW x \in Records, Ship(x) PROVE Phase'
  BY SMT, <1>1 DEF Ship
<1>2. ASSUME NEW r \in Runs, Begin(r) PROVE Phase'
  BY SMT, <1>2 DEF Begin
<1>3. ASSUME NEW r \in Runs, Lock(r) PROVE Phase'
  BY SMT, <1>3 DEF Lock
<1>4. ASSUME NEW r \in Runs, LockConflict(r) PROVE Phase'
  BY SMT, <1>4 DEF LockConflict, Quit
<1>5. ASSUME NEW r \in Runs, Locked(r) PROVE Phase'
  BY SMT, <1>5 DEF Locked
<1>6. ASSUME NEW r \in Runs, StartJob(r) PROVE Phase'
  BY SMT, <1>6 DEF StartJob
<1>7. ASSUME NEW r \in Runs, NEW x \in Records, Pull(r, x) PROVE Phase'
  BY SMT, <1>7 DEF Pull
<1>8. ASSUME NEW r \in Runs, Upsert(r) PROVE Phase'
  BY SMT, <1>8 DEF Upsert
<1>9. ASSUME NEW r \in Runs, Age(r) PROVE Phase'
  BY SMT, <1>9 DEF Age
<1>10. ASSUME NEW r \in Runs, Succeed(r) PROVE Phase'
  BY SMT, <1>10 DEF Succeed
<1>11. ASSUME NEW r \in Runs, Return(r) PROVE Phase'
  BY SMT, <1>11 DEF Return, Quit
<1>12. ASSUME NEW r \in Runs, Fail(r) PROVE Phase'
  BY SMT, <1>12 DEF Fail, Quit
<1>13. ASSUME NEW r \in Runs, Die(r) PROVE Phase'
  BY SMT, <1>13 DEF Die, Quit
<1>14. CASE UNCHANGED syncVars
  BY SMT, <1>14
<1> QED
  BY <1>1, <1>2, <1>3, <1>4, <1>5, <1>6, <1>7, <1>8, <1>9, <1>10, <1>11, <1>12, <1>13, <1>14, Zenon
     DEF SyncNext, RunStep

\* The rows change only while sync_state says running.
LEMMA MirrorStep == SInv /\ [SyncNext]_syncVars => SuccessMirrors'
<1> SUFFICES ASSUME SInv, [SyncNext]_syncVars PROVE SuccessMirrors'
  OBVIOUS
<1> USE SyncAssumption DEF SInv, TypeOK, SyncJobs, rows, run, syncVars, SuccessMirrors, Phase, Holding, Inside, StateWritten, Transit
<1>1. ASSUME NEW x \in Records, Ship(x) PROVE SuccessMirrors'
  BY SMT, <1>1 DEF Ship
<1>2. ASSUME NEW r \in Runs, Begin(r) PROVE SuccessMirrors'
  BY SMT, <1>2 DEF Begin
<1>3. ASSUME NEW r \in Runs, Lock(r) PROVE SuccessMirrors'
  BY SMT, <1>3 DEF Lock
<1>4. ASSUME NEW r \in Runs, LockConflict(r) PROVE SuccessMirrors'
  BY SMT, <1>4 DEF LockConflict, Quit
<1>5. ASSUME NEW r \in Runs, Locked(r) PROVE SuccessMirrors'
  BY SMT, <1>5 DEF Locked
<1>6. ASSUME NEW r \in Runs, StartJob(r) PROVE SuccessMirrors'
  BY SMT, <1>6 DEF StartJob
<1>7. ASSUME NEW r \in Runs, NEW x \in Records, Pull(r, x) PROVE SuccessMirrors'
  BY SMT, <1>7 DEF Pull
<1>8. ASSUME NEW r \in Runs, Upsert(r) PROVE SuccessMirrors'
  BY SMT, <1>8 DEF Upsert
<1>9. ASSUME NEW r \in Runs, Age(r) PROVE SuccessMirrors'
  BY <1>9 DEF Age
<1>10. ASSUME NEW r \in Runs, Succeed(r) PROVE SuccessMirrors'
  BY SMT, <1>10 DEF Succeed
<1>11. ASSUME NEW r \in Runs, Return(r) PROVE SuccessMirrors'
  BY SMT, <1>11 DEF Return, Quit
<1>12. ASSUME NEW r \in Runs, Fail(r) PROVE SuccessMirrors'
  BY SMT, <1>12 DEF Fail, Quit
<1>13. ASSUME NEW r \in Runs, Die(r) PROVE SuccessMirrors'
  BY SMT, <1>13 DEF Die, Quit
<1>14. CASE UNCHANGED syncVars
  BY SMT, <1>14
<1> QED
  BY <1>1, <1>2, <1>3, <1>4, <1>5, <1>6, <1>7, <1>8, <1>9, <1>10, <1>11, <1>12, <1>13, <1>14
     DEF SyncNext, RunStep

\* An execution leaves a job with its sync_state written, or dies.
LEMMA RunningStep == SInv /\ [SyncNext]_syncVars => RunningIsLive'
<1> SUFFICES ASSUME SInv, [SyncNext]_syncVars PROVE RunningIsLive'
  OBVIOUS
<1> USE SyncAssumption DEF SInv, TypeOK, SyncJobs, rows, run, syncVars, RunningIsLive, Holding, Inside, StateWritten
<1>1. ASSUME NEW x \in Records, Ship(x) PROVE RunningIsLive'
  BY SMT, <1>1 DEF Ship
<1>2. ASSUME NEW r \in Runs, Begin(r) PROVE RunningIsLive'
  BY SMT, <1>2 DEF Begin
<1>3. ASSUME NEW r \in Runs, Lock(r) PROVE RunningIsLive'
  BY SMT, <1>3 DEF Lock
<1>4. ASSUME NEW r \in Runs, LockConflict(r) PROVE RunningIsLive'
  BY SMT, <1>4 DEF LockConflict, Quit
<1>5. ASSUME NEW r \in Runs, Locked(r) PROVE RunningIsLive'
  BY SMT, <1>5 DEF Locked
<1>6. ASSUME NEW r \in Runs, StartJob(r) PROVE RunningIsLive'
  BY SMT, <1>6 DEF StartJob
<1>7. ASSUME NEW r \in Runs, NEW x \in Records, Pull(r, x) PROVE RunningIsLive'
  BY SMT, <1>7 DEF Pull
<1>8. ASSUME NEW r \in Runs, Upsert(r) PROVE RunningIsLive'
  BY SMT, <1>8 DEF Upsert
<1>9. ASSUME NEW r \in Runs, Age(r) PROVE RunningIsLive'
  BY SMT, <1>9 DEF Age
<1>10. ASSUME NEW r \in Runs, Succeed(r) PROVE RunningIsLive'
  BY SMT, <1>10 DEF Succeed
<1>11. ASSUME NEW r \in Runs, Return(r) PROVE RunningIsLive'
  BY SMT, <1>11 DEF Return, Quit
<1>12. ASSUME NEW r \in Runs, Fail(r) PROVE RunningIsLive'
  BY SMT, <1>12 DEF Fail, Quit
<1>13. ASSUME NEW r \in Runs, Die(r) PROVE RunningIsLive'
  BY SMT, <1>13 DEF Die, Quit
<1>14. CASE UNCHANGED syncVars
  BY SMT, <1>14
<1> QED
  BY <1>1, <1>2, <1>3, <1>4, <1>5, <1>6, <1>7, <1>8, <1>9, <1>10, <1>11, <1>12, <1>13, <1>14
     DEF SyncNext, RunStep

-----------------------------------------------------------------------------
\* SInv is inductive: any number of executions and records, however they are
\* interleaved, fail and die.
THEOREM SyncInvariant == SyncSpec => []SInv
<1>1. SInv /\ [SyncNext]_syncVars => SInv'
  BY TypeStep, HoldingStep, ClockedStep, StateWrittenStep, PhaseStep, MirrorStep, RunningStep DEF SInv
<1> QED
  BY InitSInv, <1>1, PTL DEF SyncSpec

\* The advisory locks keep the executions of a job apart (sync_business_locks).
THEOREM OneInJobTheorem == SyncSpec => []OneInJob
<1>1. SInv => OneInJob
  BY Alone DEF SInv
<1> QED
  BY SyncInvariant, <1>1, PTL

\* After a success the rows in transit are what was pulled (_age_out_records).
THEOREM SuccessMirrorsTheorem == SyncSpec => []SuccessMirrors
<1>1. SInv => SuccessMirrors
  BY DEF SInv
<1> QED
  BY SyncInvariant, <1>1, PTL

\* sync_state says running only for a live execution, or after a death.
THEOREM RunningIsLiveTheorem == SyncSpec => []RunningIsLive
<1>1. SInv => RunningIsLive
  BY DEF SInv
<1> QED
  BY SyncInvariant, <1>1, PTL

-----------------------------------------------------------------------------
(* The settings, the scheduler and the dashboard *)

-----------------------------------------------------------------------------
(* The dashboard is marked as outdated. *)

MarkInv ==
    /\ DOMAIN cfg = Columns
    /\ DOMAIN dash = {"exists", "status", "payload", "stale"}
    /\ dash.payload # NoPayload => dash.exists = TRUE
    /\ OutdatedIsMarked

\* What a patch leaves of the columns it does not differ in.
LEMMA ShownKept ==
    ASSUME NEW change, ~Differs(change, cfg)
    PROVE  Shown(With(cfg, change)) = Shown(cfg)
  BY DEF Differs, Shown, With, Columns

\* The commit of a patch marks the snapshot of the dashboard when it must.
LEMMA MarkPatch ==
    ASSUME MarkInv, NEW a \in Admins, PatchCommit(a)
    PROVE  MarkInv'
  <1> DEFINE change == req[a].patch
             old == req[a].old
  <1>1. /\ cfg' = With(cfg, change) /\ excuse' = Excuse(a)
        /\ dash' = [dash EXCEPT !.stale = @ \/ (dash.exists /\ Marks(change, old))]
    BY DEF PatchCommit
  <1>2. /\ DOMAIN cfg' = Columns /\ DOMAIN dash' = {"exists", "status", "payload", "stale"}
        /\ dash'.payload = dash.payload /\ dash'.exists = dash.exists
        /\ dash'.stale = (dash.stale \/ (dash.exists /\ Marks(change, old)))
    BY <1>1 DEF MarkInv, With
  <1>3. ASSUME dash.payload # NoPayload, dash.payload # Shown(cfg')
        PROVE  dash'.stale \/ excuse' # {}
    <2>1. CASE Marks(change, old)
      BY <1>2, <1>3, <2>1 DEF MarkInv
    <2>2. CASE ~Marks(change, old) /\ Differs(change, cfg)
      <3>1. cfg # old
        BY <2>2 DEF Marks
      <3> QED
        BY <1>1, <1>3, <2>2, <3>1 DEF Excuse
    <2>3. CASE ~Marks(change, old) /\ ~Differs(change, cfg)
      <3>1. Shown(cfg') = Shown(cfg)
        BY <1>1, <2>3, ShownKept
      <3>2. excuse' = excuse
        BY <1>1, <1>3, <2>3 DEF Excuse
      <3> QED
        BY <1>2, <1>3, <3>1, <3>2 DEF MarkInv, OutdatedIsMarked
    <2> QED
      BY <2>1, <2>2, <2>3
  <1> QED
    BY <1>2, <1>3 DEF MarkInv, OutdatedIsMarked

\* Every step keeps an outdated snapshot marked, or excused.
LEMMA MarkStep == MarkInv /\ [Next]_vars => MarkInv'
  <1> SUFFICES ASSUME MarkInv, [Next]_vars
               PROVE  MarkInv'
    OBVIOUS
  <1>1. CASE UNCHANGED <<cfg, dash, excuse>>
    BY <1>1 DEF MarkInv, OutdatedIsMarked, Shown
  <1>2. CASE SchedulerNext /\ UNCHANGED <<dashboardVars, req>>
    <2>1. UNCHANGED <<cfg, dash, excuse>>
      BY <1>2 DEF SchedulerNext, dashboardVars, Step, LoadConfig, setup_scheduler, StartIfEnabled, Answer,
                  LoadFails, scheduler_status, Boot, Stop
    <2> QED
      BY <1>1, <2>1
  <1>3. ASSUME NEW j \in Jobs, mark_refreshing(j) \/ mark_failed(j)
        PROVE  MarkInv'
    <2>1. /\ UNCHANGED <<cfg, excuse>> /\ DOMAIN dash' = {"exists", "status", "payload", "stale"}
          /\ dash'.payload = dash.payload /\ dash'.stale = dash.stale
          /\ dash.exists = TRUE => dash'.exists = TRUE
      BY <1>3 DEF mark_refreshing, mark_failed, MarkInv
    <2> QED
      BY <2>1 DEF MarkInv, OutdatedIsMarked, Shown
  <1>4. ASSUME NEW j \in Jobs, mark_ready(j)
        PROVE  MarkInv'
    BY <1>4 DEF mark_ready, MarkInv, OutdatedIsMarked, Shown
  <1>5. CASE DashboardNext
    <2>1. ASSUME ~\E j \in Jobs : mark_refreshing(j) \/ mark_failed(j) \/ mark_ready(j)
          PROVE  UNCHANGED <<cfg, dash, excuse>>
      BY <1>5, <2>1 DEF DashboardNext, Work, JobStart, build_dashboard_payload, JobEnd, Reap, JobFails, JobLost,
                        View, ViewTask, ViewSnapshot, ensure_dashboard_refresh_task,
                        refresh_dashboard_snapshot, Cancel
    <2> QED
      BY <1>1, <1>3, <1>4, <2>1
  <1>6. ASSUME NEW a \in Admins, PatchRead(a)
        PROVE  MarkInv'
    BY <1>1, <1>6 DEF PatchRead, dashboardVars
  <1>7. ASSUME NEW c \in Calls, NEW p \in Procs, set_scheduler_status(c, p)
        PROVE  MarkInv'
    <2>1. PICK on : cfg' = [cfg EXCEPT !.scheduler_enabled = on]
      BY <1>7 DEF set_scheduler_status
    <2>2. DOMAIN cfg' = Columns /\ Shown(cfg') = Shown(cfg)
      BY <2>1 DEF MarkInv, Columns, Shown, GLOBAL_CONFIG_SENSITIVE_FIELDS
    <2> QED
      BY <1>7, <2>2 DEF MarkInv, OutdatedIsMarked, set_scheduler_status, dashboardVars
  <1> QED
    BY <1>1, <1>2, <1>5, <1>6, <1>7, MarkPatch DEF Next, vars, dashboardVars

\* There is no snapshot to mark at first.
LEMMA MarkInit == Init => MarkInv
  BY SMT, ConfigAssumption DEF Init, DashboardInit, NoRow, MarkInv, OutdatedIsMarked, Shown

(* However requests, refreshes and failures overlap, a dashboard computed   *)
(* with other settings than the saved ones is marked, save in the two named *)
(* races (api/config.py patch_global, jobs/dashboard_snapshot.py).          *)
THEOREM OutdatedDashboardIsMarked == Spec => []OutdatedIsMarked
  <1> QED
    BY MarkInit, MarkStep, PTL DEF Spec, MarkInv

-----------------------------------------------------------------------------
(* The schedulers of the processes. *)

ObjectOK(x) ==
    /\ DOMAIN x = {"running", "sync_interval_minutes", "proc", "shared"}
    /\ x.running \in BOOLEAN
    /\ x.running => x.proc \in Procs

CallOK(x) ==
    /\ DOMAIN x = {"pc", "proc", "kind", "read", "got", "alone"}
    /\ x.alone \in BOOLEAN
    /\ x.pc # "none" => x.proc \in Procs

\* A process refers to a scheduler of its own, and so does a coroutine that is going
\* to start one; alone, it is the current one.  What runs is current, or shared.
Consistent(objs, cur, calls) ==
    /\ objs = [o \in Objects |-> objs[o]]
    /\ cur = [p \in Procs |-> cur[p]]
    /\ calls = [c \in Calls |-> calls[c]]
    /\ \A o \in Objects : ObjectOK(objs[o])
    /\ \A c \in Calls : CallOK(calls[c])
    /\ \A p \in Procs : cur[p] \in Objects => objs[cur[p]].proc = p
    /\ \A c \in Calls : calls[c].pc \in {"enabled", "start"} =>
          /\ calls[c].got \in Objects /\ objs[calls[c].got].proc = calls[c].proc
          /\ calls[c].alone => cur[calls[c].proc] = calls[c].got
    /\ \A c, d \in Calls :
          c # d /\ calls[c].pc # "none" /\ calls[d].pc # "none" /\ calls[c].proc = calls[d].proc
             => ~calls[c].alone
    /\ \A o \in Objects : objs[o].running => cur[objs[o].proc] = o \/ objs[o].shared

SchedulerInv == up \subseteq Procs /\ Consistent(obj, current, call)

\* What is collected was not referred to.
LEMMA CollectedConsistent ==
    ASSUME NEW objs, NEW cur, NEW calls, Consistent(objs, cur, calls)
    PROVE  Consistent(Collected(objs, cur, calls), cur, calls)
  <1> DEFINE rest == Collected(objs, cur, calls)
  <1>1. /\ rest = [o \in Objects |-> rest[o]]
        /\ \A o \in Objects : rest[o] = objs[o] \/ rest[o] = Dropped
        /\ \A p \in Procs : cur[p] \in Objects => rest[cur[p]] = objs[cur[p]]
        /\ \A c \in Calls : calls[c].got \in Objects => rest[calls[c].got] = objs[calls[c].got]
    BY DEF Collected
  <1>2. ObjectOK(Dropped) /\ Dropped.running = FALSE
    BY DEF ObjectOK, Dropped
  <1> HIDE DEF rest
  <1>3. \A o \in Objects : ObjectOK(rest[o])
    BY <1>1, <1>2 DEF Consistent
  <1>4. \A o \in Objects : rest[o].running => cur[rest[o].proc] = o \/ rest[o].shared
    BY <1>1, <1>2 DEF Consistent
  <1>5. Consistent(rest, cur, calls)
    BY <1>1, <1>3, <1>4 DEF Consistent
  <1> QED
    BY <1>5 DEF rest

\* A consistent outcome of a call stays consistent when objects are collected.
LEMMA BecomesConsistent ==
    ASSUME NEW objs, NEW cur, NEW calls, Consistent(objs, cur, calls), Becomes(objs, cur, calls),
           up' \subseteq Procs
    PROVE  SchedulerInv'
  <1>1. Consistent(obj', current', call')
    BY CollectedConsistent DEF Becomes
  <1> QED
    BY <1>1 DEF SchedulerInv

\* One coroutine goes on.
LEMMA CallGoesOn ==
    ASSUME SchedulerInv, NEW c \in Calls, NEW x, CallOK(x),
           x.pc # "none" => x.proc = call[c].proc /\ call[c].pc # "none" /\ (x.alone => call[c].alone),
           x.pc \in {"enabled", "start"} =>
               /\ x.got \in Objects /\ obj[x.got].proc = x.proc
               /\ x.alone => current[x.proc] = x.got
    PROVE  Consistent(obj, current, [call EXCEPT ![c] = x])
  <1> DEFINE calls == [call EXCEPT ![c] = x]
  <1>1. /\ calls = [d \in Calls |-> calls[d]]
        /\ calls[c] = x /\ \A d \in Calls \ {c} : calls[d] = call[d]
    BY DEF SchedulerInv, Consistent
  <1> HIDE DEF calls
  <1>2. \A d \in Calls : CallOK(calls[d])
    BY <1>1 DEF SchedulerInv, Consistent
  <1>3. \A d \in Calls : calls[d].pc \in {"enabled", "start"} =>
          /\ calls[d].got \in Objects /\ obj[calls[d].got].proc = calls[d].proc
          /\ calls[d].alone => current[calls[d].proc] = calls[d].got
    BY SMT, <1>1 DEF SchedulerInv, Consistent
  <1>4. \A d, e \in Calls :
          d # e /\ calls[d].pc # "none" /\ calls[e].pc # "none" /\ calls[d].proc = calls[e].proc
             => ~calls[d].alone
    BY SMT, <1>1 DEF SchedulerInv, Consistent
  <1>5. Consistent(obj, current, calls)
    BY <1>1, <1>2, <1>3, <1>4 DEF SchedulerInv, Consistent
  <1> QED
    BY <1>5 DEF calls

\* A coroutine begins: neither it nor one it meets is alone.
LEMMA CalledConsistent ==
    ASSUME SchedulerInv, NEW c \in Calls, call[c].pc = "none", NEW p \in Procs, NEW how
    PROVE  Consistent(obj, current, Called(c, p, how))
  <1> DEFINE calls == Called(c, p, how)
  <1>1. /\ calls = [d \in Calls |-> calls[d]]
        /\ CallOK(calls[c]) /\ calls[c].pc = "setup" /\ calls[c].proc = p
        /\ calls[c].alone <=> UnderWay(p) = {}
    BY DEF Called, Returned, CallOK
  <1>2. ASSUME NEW d \in Calls \ {c}
        PROVE  /\ CallOK(calls[d])
               /\ calls[d].pc = call[d].pc /\ calls[d].proc = call[d].proc /\ calls[d].got = call[d].got
               /\ calls[d].alone <=> call[d].alone /\ call[d].proc # p
    <2>1. CallOK(call[d])
      BY DEF SchedulerInv, Consistent
    <2>2. calls[d] = [call[d] EXCEPT !.alone = call[d].alone /\ call[d].proc # p]
      BY DEF Called
    <2> HIDE DEF calls
    <2>3. /\ DOMAIN calls[d] = DOMAIN call[d]
          /\ calls[d].pc = call[d].pc /\ calls[d].proc = call[d].proc /\ calls[d].got = call[d].got
      BY <2>1, <2>2 DEF CallOK
    <2>4. calls[d].alone = (call[d].alone /\ call[d].proc # p)
      BY <2>1, <2>2 DEF CallOK
    <2> QED
      BY <2>1, <2>3, <2>4 DEF CallOK
  <1> HIDE DEF calls
  <1>3. \A d \in Calls : CallOK(calls[d])
    BY <1>1, <1>2
  <1>4. \A d \in Calls : calls[d].pc \in {"enabled", "start"} =>
          /\ calls[d].got \in Objects /\ obj[calls[d].got].proc = calls[d].proc
          /\ calls[d].alone => current[calls[d].proc] = calls[d].got
    BY SMT, <1>1, <1>2 DEF SchedulerInv, Consistent
  <1>5. ASSUME NEW d \in Calls, NEW e \in Calls, d # e,
               calls[d].pc # "none", calls[e].pc # "none", calls[d].proc = calls[e].proc
        PROVE  ~calls[d].alone
    <2>1. CASE d = c
      BY SMT, <1>1, <1>2, <1>5, <2>1 DEF UnderWay
    <2>2. CASE d # c /\ e = c
      BY SMT, <1>1, <1>2, <1>5, <2>2
    <2>3. CASE d # c /\ e # c
      BY SMT, <1>2, <1>5, <2>3 DEF SchedulerInv, Consistent
    <2> QED
      BY <2>1, <2>2, <2>3
  <1>6. Consistent(obj, current, calls)
    BY <1>1, <1>3, <1>4, <1>5 DEF SchedulerInv, Consistent
  <1> QED
    BY <1>6 DEF calls

\* A coroutine reads the settings, fails, or answers.
LEMMA SchedulerReads ==
    ASSUME SchedulerInv, NEW c \in Calls, LoadConfig(c) \/ LoadFails(c) \/ Answer(c)
    PROVE  SchedulerInv'
  <1>0. CallOK(call[c]) /\ up' = up /\ up \subseteq Procs
    BY DEF SchedulerInv, Consistent, LoadConfig, LoadFails, Answer
  <1>1. CASE LoadConfig(c)
    <2> DEFINE x == call'[c]
    <2>1. /\ call' = [call EXCEPT ![c] = x] /\ UNCHANGED <<obj, current>>
          /\ DOMAIN x = DOMAIN call[c]
          /\ x.proc = call[c].proc /\ x.alone = call[c].alone /\ x.got = call[c].got
          /\ x.pc \in {"build", "start", "return"} /\ (x.pc = "start" => call[c].pc = "enabled")
          /\ call[c].pc # "none"
      BY <1>0, <1>1 DEF LoadConfig, CallOK, SchedulerInv, Consistent
    <2> HIDE DEF x
    <2>2. CallOK(x)
      BY <1>0, <2>1 DEF CallOK
    <2>3. x.pc = "start" =>
              /\ x.got \in Objects /\ obj[x.got].proc = x.proc
              /\ x.alone => current[x.proc] = x.got
      BY SMT, <2>1 DEF SchedulerInv, Consistent
    <2>4. Consistent(obj, current, [call EXCEPT ![c] = x])
      BY <2>1, <2>2, <2>3, CallGoesOn
    <2> QED
      BY <1>0, <2>1, <2>4 DEF SchedulerInv
  <1>2. CASE LoadFails(c) \/ Answer(c)
    <2>1. CallOK(Returned) /\ Returned.pc = "none"
      BY DEF Returned, CallOK
    <2>2. Consistent(obj, current, [call EXCEPT ![c] = Returned])
      BY <2>1, CallGoesOn
    <2> QED
      BY <1>0, <1>2, <2>2, BecomesConsistent DEF LoadFails, Answer
  <1> QED
    BY <1>1, <1>2

\* reload_scheduler starts what it has built: it is current, or becomes shared.
LEMMA SchedulerStarts ==
    ASSUME SchedulerInv, NEW c \in Calls, StartIfEnabled(c)
    PROVE  SchedulerInv'
  <1> DEFINE got == call[c].got
             objs == [obj EXCEPT ![got].running = @ \/ call[c].read.scheduler_enabled,
                                 ![got].shared = ~call[c].alone]
             calls == [call EXCEPT ![c].pc = "setup", ![c].kind = "reloaded"]
             x == calls[c]
  <1>0. /\ call[c].pc = "start" /\ Becomes(objs, current, calls) /\ up' = up /\ up \subseteq Procs
        /\ CallOK(call[c]) /\ got \in Objects /\ ObjectOK(obj[got]) /\ obj[got].proc = call[c].proc
        /\ call[c].alone => current[call[c].proc] = got
    BY DEF StartIfEnabled, SchedulerInv, Consistent
  <1>1. /\ calls = [call EXCEPT ![c] = x] /\ CallOK(x)
        /\ x.pc = "setup" /\ x.proc = call[c].proc /\ x.alone = call[c].alone
    BY <1>0 DEF SchedulerInv, Consistent, CallOK
  <1> HIDE DEF x, calls
  <1>2. Consistent(obj, current, calls)
    BY <1>0, <1>1, CallGoesOn
  <1>3. /\ objs = [o \in Objects |-> objs[o]]
        /\ \A o \in Objects \ {got} : objs[o] = obj[o]
        /\ objs[got].proc = obj[got].proc
        /\ ObjectOK(objs[got])
        /\ objs[got].shared <=> ~call[c].alone
    BY <1>0 DEF SchedulerInv, Consistent, ObjectOK, CallOK
  <1> HIDE DEF objs, got
  <1>4. \A o \in Objects : objs[o].running => current[objs[o].proc] = o \/ objs[o].shared
    BY <1>0, <1>2, <1>3 DEF Consistent
  <1>5. Consistent(objs, current, calls)
    <2>1. \A o \in Objects : objs[o].proc = obj[o].proc /\ ObjectOK(objs[o])
      BY <1>2, <1>3 DEF Consistent
    <2>2. \A p \in Procs : current[p] \in Objects => objs[current[p]].proc = p
      BY <1>2, <2>1 DEF Consistent
    <2>3. \A d \in Calls : calls[d].pc \in {"enabled", "start"} =>
            /\ calls[d].got \in Objects /\ objs[calls[d].got].proc = calls[d].proc
            /\ calls[d].alone => current[calls[d].proc] = calls[d].got
      BY <1>2, <2>1 DEF Consistent
    <2> QED
      BY <1>2, <1>3, <1>4, <2>1, <2>2, <2>3 DEF Consistent
  <1> QED
    BY <1>0, <1>5, BecomesConsistent

\* setup_scheduler keeps the current scheduler, or shuts it down and puts a new one
\* in its place; no coroutine of the process that is alone holds the old one.
LEMMA SchedulerSetsUp ==
    ASSUME SchedulerInv, NEW c \in Calls, setup_scheduler(c)
    PROVE  SchedulerInv'
  <1> DEFINE p == call[c].proc
             next == IF call[c].kind = "reload" THEN "enabled" ELSE "answer"
  <1>0. /\ call[c].pc = "build" /\ p \in Procs /\ CallOK(call[c])
        /\ up' = up /\ up \subseteq Procs
    BY DEF setup_scheduler, SchedulerInv, Consistent, CallOK
  <1>1. CASE Keeps(c)
    <2> DEFINE calls == [call EXCEPT ![c].pc = next, ![c].got = current[p]]
               x == calls[c]
    <2>1. Becomes(obj, current, calls) /\ next = "answer"
      BY <1>1 DEF setup_scheduler, Keeps
    <2>2. /\ calls = [call EXCEPT ![c] = x] /\ CallOK(x)
          /\ x.pc = "answer" /\ x.proc = call[c].proc /\ x.alone = call[c].alone
      BY <1>0, <2>1 DEF SchedulerInv, Consistent, CallOK
    <2> HIDE DEF x, calls
    <2>3. Consistent(obj, current, calls)
      BY <1>0, <2>2, CallGoesOn
    <2> QED
      BY <1>0, <2>1, <2>3, BecomesConsistent
  <1>2. CASE ~Keeps(c)
    <2>1. PICK new \in Objects :
             /\ obj[new].proc = NoProc
             /\ Becomes([shutdown_scheduler(obj, current[p]) EXCEPT ![new] =
                            [running |-> FALSE, proc |-> p, shared |-> FALSE,
                             sync_interval_minutes |-> call[c].read.sync_interval_minutes]],
                        [current EXCEPT ![p] = new],
                        [call EXCEPT ![c].pc = next, ![c].got = new])
      BY <1>2 DEF setup_scheduler
    <2> DEFINE made == [running |-> FALSE, proc |-> p, shared |-> FALSE,
                        sync_interval_minutes |-> call[c].read.sync_interval_minutes]
               objs == [shutdown_scheduler(obj, current[p]) EXCEPT ![new] = made]
               cur == [current EXCEPT ![p] = new]
               calls == [call EXCEPT ![c].pc = next, ![c].got = new]
    <2>2. ObjectOK(made) /\ made.proc = p /\ made.running = FALSE
      BY DEF ObjectOK
    <2> HIDE DEF made
    <2>3. /\ objs = [o \in Objects |-> objs[o]] /\ objs[new] = made
          /\ \A o \in Objects \ {new, current[p]} : objs[o] = obj[o]
          /\ \A o \in Objects \ {new} :
                o = current[p] => ObjectOK(objs[o]) /\ objs[o].proc = obj[o].proc /\ objs[o].running = FALSE
      <3> DEFINE down == shutdown_scheduler(obj, current[p])
      <3>1. /\ obj = [o \in Objects |-> obj[o]]
            /\ \A o \in Objects : ObjectOK(obj[o])
        BY DEF SchedulerInv, Consistent
      <3>2. down = [o \in Objects |-> down[o]] /\ \A o \in Objects \ {current[p]} : down[o] = obj[o]
        BY <3>1 DEF shutdown_scheduler
      <3>3. ASSUME NEW o \in Objects, o = current[p]
            PROVE  ObjectOK(down[o]) /\ down[o].proc = obj[o].proc /\ down[o].running = FALSE
        <4>1. down[o] = [obj[o] EXCEPT !.running = FALSE]
          BY <3>1, <3>3, SchedulerAssumption DEF shutdown_scheduler
        <4>2. ObjectOK(obj[o])
          BY <3>1
        <4> QED
          BY <4>1, <4>2 DEF ObjectOK
      <3> HIDE DEF down
      <3>4. objs = [down EXCEPT ![new] = made]
        BY DEF down
      <3> QED
        BY <2>1, <3>2, <3>3, <3>4
    <2>4. cur = [q \in Procs |-> cur[q]] /\ cur[p] = new /\ \A q \in Procs \ {p} : cur[q] = current[q]
      BY <1>0 DEF SchedulerInv, Consistent
    <2>5. /\ calls = [d \in Calls |-> calls[d]]
          /\ \A d \in Calls \ {c} : calls[d] = call[d]
          /\ CallOK(calls[c]) /\ calls[c].pc = next /\ calls[c].got = new
          /\ calls[c].proc = p /\ calls[c].alone = call[c].alone
      BY <1>0 DEF SchedulerInv, Consistent, CallOK
    <2>6. next # "none"
      OBVIOUS
    <2> HIDE DEF objs, cur, calls, next
    <2>7. \A o \in Objects : ObjectOK(objs[o])
      BY <2>2, <2>3 DEF SchedulerInv, Consistent
    <2>8. \A q \in Procs : cur[q] \in Objects => objs[cur[q]].proc = q
      BY SMT, <2>1, <2>2, <2>3, <2>4, SchedulerAssumption DEF SchedulerInv, Consistent
    <2>9. ASSUME NEW d \in Calls, calls[d].pc \in {"enabled", "start"}
          PROVE  /\ calls[d].got \in Objects /\ objs[calls[d].got].proc = calls[d].proc
                 /\ calls[d].alone => cur[calls[d].proc] = calls[d].got
      <3>1. CASE d = c
        BY <2>1, <2>2, <2>3, <2>4, <2>5, <3>1
      <3>2. CASE d # c
        <4>1. calls[d] = call[d] /\ call[d].proc \in Procs /\ call[d].proc # NoProc
          BY <2>5, <2>9, <3>2, SchedulerAssumption DEF SchedulerInv, Consistent, CallOK
        <4>2. call[d].got \in Objects /\ obj[call[d].got].proc = call[d].proc
              /\ (call[d].alone => current[call[d].proc] = call[d].got)
          BY <2>9, <4>1 DEF SchedulerInv, Consistent
        <4>3. objs[call[d].got].proc = call[d].proc
          BY <2>1, <2>3, <4>1, <4>2
        <4>4. call[d].proc = p => ~call[d].alone
          BY <1>0, <2>9, <3>2, <4>1 DEF SchedulerInv, Consistent
        <4> QED
          BY SMT, <2>4, <4>1, <4>2, <4>3, <4>4
      <3> QED
        BY <3>1, <3>2
    <2>10. ASSUME NEW d \in Calls, NEW e \in Calls, d # e, calls[d].pc # "none", calls[e].pc # "none",
                  calls[d].proc = calls[e].proc
           PROVE  ~calls[d].alone
      BY SMT, <1>0, <2>5, <2>10 DEF SchedulerInv, Consistent
    <2>11. ASSUME NEW o \in Objects, objs[o].running
           PROVE  cur[objs[o].proc] = o \/ objs[o].shared
      <3>1. o # new /\ o # current[p] /\ objs[o] = obj[o]
        BY <2>2, <2>3, <2>11
      <3>2. obj[o].proc \in Procs /\ (current[obj[o].proc] = o \/ obj[o].shared)
        BY <2>11, <3>1 DEF SchedulerInv, Consistent, ObjectOK
      <3> QED
        BY <2>4, <3>1, <3>2
    <2>12. \A d \in Calls : CallOK(calls[d])
      BY <2>5 DEF SchedulerInv, Consistent
    <2>13. Consistent(objs, cur, calls)
      BY <2>3, <2>4, <2>5, <2>7, <2>8, <2>9, <2>10, <2>11, <2>12 DEF Consistent
    <2> QED
      BY <1>0, <2>1, <2>13, BecomesConsistent DEF objs, cur, calls, made
  <1> QED
    BY <1>1, <1>2

\* A process stops with all that is its own.
LEMMA SchedulerStops ==
    ASSUME SchedulerInv, NEW p \in Procs, Stop(p)
    PROVE  SchedulerInv'
  <1> DEFINE objs == [o \in Objects |-> IF obj[o].proc = p THEN Dropped ELSE obj[o]]
             cur == [current EXCEPT ![p] = NoObject]
             calls == [c \in Calls |-> IF call[c].proc = p THEN Returned ELSE call[c]]
  <1>0. Becomes(objs, cur, calls) /\ up' \subseteq Procs
    BY DEF Stop, SchedulerInv
  <1>1. /\ ObjectOK(Dropped) /\ Dropped.running = FALSE
        /\ CallOK(Returned) /\ Returned.pc = "none"
    BY DEF ObjectOK, Dropped, CallOK, Returned
  <1>2. cur[p] = NoObject /\ cur = [q \in Procs |-> cur[q]] /\ \A q \in Procs \ {p} : cur[q] = current[q]
    BY DEF SchedulerInv, Consistent
  <1>3. /\ objs = [o \in Objects |-> objs[o]]
        /\ \A o \in Objects : objs[o] = IF obj[o].proc = p THEN Dropped ELSE obj[o]
        /\ calls = [c \in Calls |-> calls[c]]
        /\ \A c \in Calls : calls[c] = IF call[c].proc = p THEN Returned ELSE call[c]
    OBVIOUS
  <1> HIDE DEF objs, cur, calls
  <1>4. \A o \in Objects : ObjectOK(objs[o])
    BY <1>1, <1>3 DEF SchedulerInv, Consistent
  <1>5. \A c \in Calls : CallOK(calls[c])
    BY <1>1, <1>3 DEF SchedulerInv, Consistent
  <1>6. \A q \in Procs : cur[q] \in Objects => objs[cur[q]].proc = q
    BY SMT, <1>2, <1>3, SchedulerAssumption DEF SchedulerInv, Consistent
  <1>7. ASSUME NEW d \in Calls, calls[d].pc \in {"enabled", "start"}
        PROVE  /\ calls[d].got \in Objects /\ objs[calls[d].got].proc = calls[d].proc
               /\ calls[d].alone => cur[calls[d].proc] = calls[d].got
    <2>1. calls[d] = call[d] /\ call[d].proc # p /\ call[d].proc \in Procs
      BY <1>1, <1>3, <1>7 DEF SchedulerInv, Consistent, CallOK
    <2>2. call[d].got \in Objects /\ obj[call[d].got].proc = call[d].proc
          /\ (call[d].alone => current[call[d].proc] = call[d].got)
      BY <1>7, <2>1 DEF SchedulerInv, Consistent
    <2> QED
      BY SMT, <1>2, <1>3, <2>1, <2>2
  <1>8. ASSUME NEW d \in Calls, NEW e \in Calls, d # e, calls[d].pc # "none", calls[e].pc # "none",
               calls[d].proc = calls[e].proc
        PROVE  ~calls[d].alone
    BY SMT, <1>1, <1>3, <1>8 DEF SchedulerInv, Consistent
  <1>9. ASSUME NEW o \in Objects, objs[o].running
        PROVE  cur[objs[o].proc] = o \/ objs[o].shared
    <2>1. objs[o] = obj[o] /\ obj[o].proc # p /\ obj[o].proc \in Procs
      BY <1>1, <1>3, <1>9 DEF SchedulerInv, Consistent, ObjectOK
    <2> QED
      BY SMT, <1>2, <1>9, <2>1 DEF SchedulerInv, Consistent
  <1>10. Consistent(objs, cur, calls)
    BY <1>2, <1>3, <1>4, <1>5, <1>6, <1>7, <1>8, <1>9 DEF Consistent
  <1> QED
    BY <1>0, <1>10, BecomesConsistent

\* Every step keeps objects, calls and processes consistent.
LEMMA SchedulerStep == SchedulerInv /\ [Next]_vars => SchedulerInv'
  <1> SUFFICES ASSUME SchedulerInv, [Next]_vars
               PROVE  SchedulerInv'
    OBVIOUS
  <1>1. CASE UNCHANGED schedulerVars
    BY <1>1 DEF SchedulerInv, schedulerVars
  <1>2. ASSUME NEW c \in Calls, NEW p \in Procs, NEW how, call[c].pc = "none",
               call' = Called(c, p, how) \/ call' = call, UNCHANGED <<obj, current>>, up' \subseteq Procs
        PROVE  SchedulerInv'
    <2>1. Consistent(obj, current, Called(c, p, how))
      BY <1>2, CalledConsistent
    <2> QED
      BY <1>2, <2>1 DEF SchedulerInv
  <1>3. CASE SchedulerNext
    <2>1. ASSUME NEW c \in Calls, Step(c) \/ LoadFails(c)
          PROVE  SchedulerInv'
      BY <2>1, SchedulerReads, SchedulerSetsUp, SchedulerStarts DEF Step
    <2>2. ASSUME NEW c \in Calls, NEW p \in Procs, scheduler_status(c, p)
          PROVE  SchedulerInv'
      BY <1>2, <2>2 DEF scheduler_status, MayCall, SchedulerInv
    <2>3. ASSUME NEW c \in Calls, NEW p \in Procs, Boot(c, p)
          PROVE  SchedulerInv'
      BY <1>2, <2>3 DEF Boot, SchedulerInv
    <2> QED
      BY <1>3, <2>1, <2>2, <2>3, SchedulerStops DEF SchedulerNext
  <1>4. ASSUME NEW a \in Admins, PatchCommit(a)
        PROVE  SchedulerInv'
    <2>1. ASSUME NEW c \in Calls, NEW p \in ApiProcs, MayCall(c, p),
                 call' = Called(c, p, "reload"), UNCHANGED <<up, obj, current>>
          PROVE  SchedulerInv'
      BY <1>2, <2>1 DEF MayCall, SchedulerInv
    <2> QED
      BY <1>1, <1>4, <2>1 DEF PatchCommit
  <1>5. ASSUME NEW c \in Calls, NEW p \in Procs, set_scheduler_status(c, p)
        PROVE  SchedulerInv'
    BY <1>2, <1>5 DEF set_scheduler_status, MayCall, SchedulerInv
  <1> QED
    BY <1>1, <1>3, <1>4, <1>5 DEF Next, vars, PatchRead

\* They are consistent at first.
LEMMA SchedulerFirst == Init => SchedulerInv
  <1> SUFFICES ASSUME Init
               PROVE  SchedulerInv
    OBVIOUS
  <1>1. /\ \A p \in Procs : current[p] = NoObject <=> p \notin SchedulerProcs
        /\ \A p, q \in SchedulerProcs : current[p] = current[q] => p = q
        /\ current = [p \in Procs |-> current[p]]
    BY DEF Init, SchedulerInit
  <1>2. ASSUME NEW o \in Objects
        PROVE  /\ ObjectOK(obj[o])
               /\ \A p \in Procs : current[p] = o => obj[o].proc = p
               /\ obj[o].running => current[obj[o].proc] = o
    <2>1. CASE \E p \in Procs : current[p] = o
      <3>1. PICK p \in SchedulerProcs : current[p] = o
        BY <1>1, <2>1, SchedulerAssumption
      <3>2. \A q \in Procs : current[q] = o => q = p
        BY <1>1, <3>1, SchedulerAssumption
      <3>3. (CHOOSE q \in SchedulerProcs : current[q] = o) = p
        BY <3>1, <3>2, SchedulerAssumption
      <3>4. obj[o] = [running |-> FirstConfig.scheduler_enabled, proc |-> p,
                      sync_interval_minutes |-> FirstConfig.sync_interval_minutes, shared |-> FALSE]
        BY <2>1, <3>3 DEF Init, SchedulerInit
      <3> QED
        <4>1. /\ obj[o].proc = p /\ obj[o].running = FirstConfig.scheduler_enabled
              /\ DOMAIN obj[o] = {"running", "sync_interval_minutes", "proc", "shared"}
          BY SMT, <3>4
        <4>2. p \in Procs
          BY <3>1, SchedulerAssumption
        <4>3. ObjectOK(obj[o])
          BY <4>1, <4>2, ConfigAssumption DEF ObjectOK
        <4> QED
          BY <3>1, <3>2, <4>1, <4>3
    <2>2. CASE ~\E p \in Procs : current[p] = o
      BY <2>2 DEF Init, SchedulerInit, ObjectOK, Dropped
    <2> QED
      BY <2>1, <2>2
  <1>3. /\ call = [c \in Calls |-> call[c]] /\ obj = [o \in Objects |-> obj[o]] /\ up = Procs
        /\ \A c \in Calls : CallOK(call[c]) /\ call[c].pc = "none"
    BY DEF Init, SchedulerInit, CallOK, Returned
  <1> QED
    BY <1>1, <1>2, <1>3 DEF SchedulerInv, Consistent

(* However many calls and processes there are, what runs in a process is    *)
(* its current scheduler, or was started by a reload that another call has  *)
(* overlapped (tasks/scheduler.py setup_scheduler, reload_scheduler).       *)
THEOREM OneSchedulerRuns == Spec => []OneRunning
  <1>1. SchedulerInv => OneRunning
    BY DEF SchedulerInv, Consistent, OneRunning
  <1> QED
    BY <1>1, SchedulerFirst, SchedulerStep, PTL DEF Spec

-----------------------------------------------------------------------------
(* A reload is effective. *)

\* The deployment with one process for all.
OneProcess == \A p, q \in Procs : p = q

\* What a scheduler is to be.
Serves(o) ==
    /\ obj[o].running = cfg.scheduler_enabled
    /\ obj[o].sync_interval_minutes = cfg.sync_interval_minutes

\* A coroutine that is alone has read the settings of now, what it has built is for
\* the saved interval and does not run yet, and what it has started serves.
ReloadOK(x) ==
    x.pc # "none" /\ x.alone =>
        /\ x.pc \in {"build", "start"} => x.read = Runtime(cfg)
        /\ x.pc \in {"enabled", "start"} =>
              obj[x.got].running = FALSE /\ obj[x.got].sync_interval_minutes = cfg.sync_interval_minutes
        /\ x.kind = "reloaded" => current[x.proc] \in Objects /\ Serves(current[x.proc])

ReloadInv ==
    /\ cfg.scheduler_enabled \in BOOLEAN
    /\ \A a \in Admins : req[a].pc = "read" => req[a].patch \in Patches
    /\ req = [a \in Admins |-> req[a]]
    /\ OneProcess => \A c \in Calls : ReloadOK(call[c])

\* While one coroutine of the process takes its steps, no other one is alone.
LEMMA OthersShare ==
    ASSUME OneProcess, SchedulerInv, NEW c \in Calls, call[c].pc # "none",
           NEW d \in Calls, d # c, call[d].pc # "none"
    PROVE  ~call[d].alone
  BY DEF OneProcess, SchedulerInv, Consistent, CallOK

\* Only the coroutine that takes a step matters.
LEMMA ReloadOne ==
    ASSUME SchedulerInv, ReloadInv, NEW c \in Calls, call[c].pc # "none",
           \A d \in Calls \ {c} : call'[d] = call[d],
           OneProcess => ReloadOK(call[c])',
           UNCHANGED <<cfg, req>>
    PROVE  ReloadInv'
  <1>1. ASSUME OneProcess, NEW d \in Calls
        PROVE  ReloadOK(call[d])'
    <2>1. CASE d = c
      BY <1>1, <2>1
    <2>2. CASE d # c
      BY <1>1, <2>2, OthersShare DEF ReloadOK
    <2> QED
      BY <2>1, <2>2
  <1> QED
    BY <1>1 DEF ReloadInv

\* What is current in a process is not collected.
LEMMA CurrentKept ==
    ASSUME NEW objs, NEW cur, NEW calls, Becomes(objs, cur, calls), NEW p \in Procs, cur[p] \in Objects
    PROVE  obj'[cur[p]] = objs[cur[p]] /\ current' = cur /\ call' = calls
  BY DEF Becomes, Collected

\* A call that reads the configuration, fails to, or answers keeps the account of
\* what reloads have put into effect.
LEMMA ReloadReads ==
    ASSUME SchedulerInv, ReloadInv, UNCHANGED req,
           NEW c \in Calls, LoadConfig(c) \/ LoadFails(c) \/ Answer(c)
    PROVE  ReloadInv'
  <1>0. CallOK(call[c]) /\ call = [d \in Calls |-> call[d]]
    BY DEF SchedulerInv, Consistent
  <1>1. CASE LoadConfig(c)
    <2>1. /\ \A d \in Calls \ {c} : call'[d] = call[d]
          /\ UNCHANGED <<obj, current, cfg>>
          /\ call[c].pc # "none"
          /\ call'[c].read = Runtime(cfg) /\ call'[c].alone = call[c].alone /\ call'[c].got = call[c].got
          /\ call'[c].kind = call[c].kind /\ call'[c].proc = call[c].proc
          /\ call'[c].pc \in {"build", "start", "return"} /\ (call'[c].pc = "start" => call[c].pc = "enabled")
      BY <1>0, <1>1 DEF LoadConfig, CallOK
    <2>2. ASSUME OneProcess
          PROVE  ReloadOK(call[c])'
      <3>1. ReloadOK(call[c])
        BY <2>2 DEF ReloadInv
      <3> QED
        BY <2>1, <3>1 DEF ReloadOK, Serves
    <2> QED
      BY <2>1, <2>2, ReloadOne
  <1>2. CASE LoadFails(c) \/ Answer(c)
    <2>1. /\ \A d \in Calls \ {c} : call'[d] = call[d]
          /\ UNCHANGED cfg
          /\ call[c].pc # "none" /\ call'[c].pc = "none"
      BY SMT, <1>0, <1>2 DEF LoadFails, Answer, Becomes, Returned
    <2>2. ReloadOK(call[c])'
      BY <2>1 DEF ReloadOK
    <2> QED
      BY <2>1, <2>2, ReloadOne
  <1> QED
    BY <1>1, <1>2

\* So does one that starts its scheduler.
LEMMA ReloadStarts ==
    ASSUME SchedulerInv, ReloadInv, UNCHANGED req, NEW c \in Calls, StartIfEnabled(c)
    PROVE  ReloadInv'
  <1> DEFINE got == call[c].got
             p == call[c].proc
             objs == [obj EXCEPT ![got].running = @ \/ call[c].read.scheduler_enabled,
                                 ![got].shared = ~call[c].alone]
             calls == [call EXCEPT ![c].pc = "setup", ![c].kind = "reloaded"]
  <1>0. /\ call[c].pc = "start" /\ Becomes(objs, current, calls) /\ UNCHANGED cfg
        /\ CallOK(call[c]) /\ p \in Procs /\ got \in Objects /\ ObjectOK(obj[got])
        /\ call[c].alone => current[p] = got
        /\ call = [d \in Calls |-> call[d]] /\ obj = [o \in Objects |-> obj[o]]
    BY DEF StartIfEnabled, SchedulerInv, Consistent, CallOK
  <1>1. /\ \A d \in Calls \ {c} : call'[d] = call[d]
        /\ call'[c].pc = "setup" /\ call'[c].alone = call[c].alone /\ call'[c].proc = p
    BY <1>0 DEF Becomes, CallOK
  <1>2. ASSUME OneProcess, call[c].alone
        PROVE  /\ current'[p] = got
               /\ obj'[got].running = cfg'.scheduler_enabled
               /\ obj'[got].sync_interval_minutes = cfg'.sync_interval_minutes
    <2>1. /\ call[c].read = Runtime(cfg) /\ obj[got].running = FALSE
          /\ obj[got].sync_interval_minutes = cfg.sync_interval_minutes
      BY <1>0, <1>2 DEF ReloadInv, ReloadOK
    <2>2. objs[got].running = (FALSE \/ cfg.scheduler_enabled)
      BY <1>0, <2>1 DEF Runtime, SCHEDULER_FIELDS, ObjectOK
    <2>3. objs[got].sync_interval_minutes = cfg.sync_interval_minutes
      BY <1>0, <2>1 DEF ObjectOK
    <2>4. objs[got].running = cfg.scheduler_enabled
      BY SMT, <2>2 DEF ReloadInv
    <2> HIDE DEF objs, calls
    <2>5. obj'[got] = objs[got] /\ current' = current
      BY SMT, <1>0, <1>2, CurrentKept
    <2> QED
      BY <1>0, <1>2, <2>3, <2>4, <2>5
  <1>3. ASSUME OneProcess
        PROVE  ReloadOK(call[c])'
    BY <1>0, <1>1, <1>2, <1>3 DEF ReloadOK, Serves
  <1> QED
    BY <1>0, <1>1, <1>3, ReloadOne

\* So does one that builds a scheduler.
LEMMA ReloadSetsUp ==
    ASSUME SchedulerInv, ReloadInv, UNCHANGED req, NEW c \in Calls, setup_scheduler(c)
    PROVE  ReloadInv'
  <1> DEFINE p == call[c].proc
             next == IF call[c].kind = "reload" THEN "enabled" ELSE "answer"
  <1>0. /\ call[c].pc = "build" /\ p \in Procs /\ CallOK(call[c]) /\ UNCHANGED cfg
        /\ call = [d \in Calls |-> call[d]] /\ obj = [o \in Objects |-> obj[o]]
        /\ current = [q \in Procs |-> current[q]]
    BY DEF setup_scheduler, SchedulerInv, Consistent, CallOK
  <1>1. ASSUME OneProcess, call[c].alone
        PROVE  /\ call[c].read = Runtime(cfg)
               /\ call[c].read.sync_interval_minutes = cfg.sync_interval_minutes
               /\ call[c].kind = "reloaded" => current[p] \in Objects /\ Serves(current[p])
    BY SMT, <1>0, <1>1 DEF ReloadInv, ReloadOK, Runtime, SCHEDULER_FIELDS
  <1>2. CASE Keeps(c)
    <2> DEFINE calls == [call EXCEPT ![c].pc = next, ![c].got = current[p]]
    <2>1. Becomes(obj, current, calls) /\ next = "answer"
      BY <1>2 DEF setup_scheduler, Keeps
    <2>2. /\ \A d \in Calls \ {c} : call'[d] = call[d]
          /\ call'[c].pc = "answer" /\ call'[c].alone = call[c].alone /\ call'[c].proc = p
          /\ call'[c].kind = call[c].kind
      BY <1>0, <2>1 DEF Becomes, CallOK
    <2>3. current' = current /\ (current[p] \in Objects => obj'[current[p]] = obj[current[p]])
      <3> HIDE DEF calls, next
      <3>1. current' = current
        BY <2>1 DEF Becomes
      <3>2. ASSUME current[p] \in Objects
            PROVE  obj'[current[p]] = obj[current[p]]
        BY SMT, <1>0, <2>1, <3>2, CurrentKept
      <3> QED
        BY <3>1, <3>2
    <2>4. ASSUME OneProcess
          PROVE  ReloadOK(call[c])'
      <3> HIDE DEF calls, next
      <3> SUFFICES ASSUME call[c].alone, call[c].kind = "reloaded"
                   PROVE  /\ current'[p] \in Objects
                          /\ obj'[current'[p]].running = cfg.scheduler_enabled
                          /\ obj'[current'[p]].sync_interval_minutes = cfg.sync_interval_minutes
        BY <1>0, <2>2 DEF ReloadOK, Serves
      <3>1. current[p] \in Objects /\ Serves(current[p])
        BY <1>1, <2>4
      <3> QED
        BY <2>3, <3>1 DEF Serves
    <2> QED
      BY <1>0, <2>2, <2>4, ReloadOne
  <1>3. CASE ~Keeps(c)
    <2>1. PICK new \in Objects :
             Becomes([shutdown_scheduler(obj, current[p]) EXCEPT ![new] =
                         [running |-> FALSE, proc |-> p, shared |-> FALSE,
                          sync_interval_minutes |-> call[c].read.sync_interval_minutes]],
                     [current EXCEPT ![p] = new],
                     [call EXCEPT ![c].pc = next, ![c].got = new])
      BY <1>3 DEF setup_scheduler
    <2> DEFINE made == [running |-> FALSE, proc |-> p, shared |-> FALSE,
                        sync_interval_minutes |-> call[c].read.sync_interval_minutes]
               objs == [shutdown_scheduler(obj, current[p]) EXCEPT ![new] = made]
               cur == [current EXCEPT ![p] = new]
               calls == [call EXCEPT ![c].pc = next, ![c].got = new]
    <2>2. objs[new] = made
      <3>1. new \in DOMAIN shutdown_scheduler(obj, current[p])
        BY <1>0 DEF shutdown_scheduler
      <3> QED
        BY <3>1
    <2>3. cur[p] = new
      BY <1>0
    <2>4. /\ \A d \in Calls \ {c} : calls[d] = call[d]
          /\ calls[c].pc = next /\ calls[c].alone = call[c].alone /\ calls[c].got = new
          /\ calls[c].kind = call[c].kind
      BY <1>0 DEF CallOK
    <2>5. made.running = FALSE /\ made.sync_interval_minutes = call[c].read.sync_interval_minutes
      OBVIOUS
    <2>6. next \in {"enabled", "answer"}
      OBVIOUS
    <2>7. Becomes(objs, cur, calls)
      BY <2>1
    <2> HIDE DEF made, objs, cur, calls, next
    <2>8. obj'[new] = made /\ call' = calls
      BY SMT, <1>0, <2>2, <2>3, <2>7, CurrentKept
    <2>9. ASSUME OneProcess, call[c].alone
          PROVE  call[c].kind # "reloaded"
      <3>1. current[p] # NoObject => obj[current[p]].sync_interval_minutes # cfg.sync_interval_minutes
               \/ call[c].kind = "reload"
        BY <1>1, <1>3, <2>9 DEF Keeps
      <3> QED
        BY <1>1, <2>9, <3>1, SchedulerAssumption DEF Serves
    <2>10. ASSUME OneProcess
           PROVE  ReloadOK(call[c])'
      BY <1>0, <1>1, <2>4, <2>5, <2>6, <2>8, <2>9, <2>10 DEF ReloadOK
    <2> QED
      BY <1>0, <2>4, <2>8, <2>10, ReloadOne
  <1> QED
    BY <1>2, <1>3

\* A process that stops takes its coroutines along.
LEMMA ReloadStops ==
    ASSUME SchedulerInv, ReloadInv, UNCHANGED <<cfg, req>>, NEW p \in Procs, Stop(p)
    PROVE  ReloadInv'
  <1>1. ASSUME OneProcess, NEW c \in Calls
        PROVE  ReloadOK(call[c])'
    <2>1. call[c].pc = "none" \/ call[c].proc = p
      BY <1>1 DEF OneProcess, SchedulerInv, Consistent, CallOK
    <2>2. call'[c] = IF call[c].proc = p THEN Returned ELSE call[c]
      BY DEF Stop, Becomes
    <2>3. call'[c].pc = "none"
      BY SMT, <2>1, <2>2 DEF Returned
    <2> QED
      BY <2>3 DEF ReloadOK
  <1> QED
    BY <1>1 DEF ReloadInv

\* A new coroutine is at its first read, and none of the others is alone any more.
LEMMA ReloadCalled ==
    ASSUME SchedulerInv, ReloadInv, NEW c \in Calls, NEW p \in Procs, NEW how, how # "reloaded",
           call[c].pc = "none", call' = Called(c, p, how),
           cfg'.scheduler_enabled \in BOOLEAN,
           \A a \in Admins : req'[a].pc = "read" => req'[a].patch \in Patches,
           req' = [a \in Admins |-> req'[a]]
    PROVE  ReloadInv'
  <1>1. ASSUME OneProcess, NEW d \in Calls
        PROVE  ReloadOK(call[d])'
    <2>1. CASE d = c
      <3>1. call'[c].pc = "setup" /\ call'[c].kind = how
        BY DEF Called, Returned
      <3> QED
        BY <2>1, <3>1 DEF ReloadOK
    <2>2. CASE d # c
      <3>1. CallOK(call[d]) /\ (call[d].pc = "none" \/ call[d].proc = p)
        BY <1>1 DEF OneProcess, SchedulerInv, Consistent, CallOK
      <3>2. call'[d] = [call[d] EXCEPT !.alone = call[d].alone /\ call[d].proc # p]
        BY <2>2 DEF Called
      <3>3. call'[d].pc = call[d].pc
        BY <3>1, <3>2 DEF CallOK
      <3>4. call'[d].alone = (call[d].alone /\ call[d].proc # p)
        BY <3>1, <3>2 DEF CallOK
      <3> QED
        BY <3>1, <3>3, <3>4 DEF ReloadOK
    <2> QED
      BY <2>1, <2>2
  <1> QED
    BY <1>1 DEF ReloadInv

\* Saving a patch: the scheduler's settings are as before, or a reload is called.
LEMMA ReloadPatch ==
    ASSUME SchedulerInv, ReloadInv, NEW a \in Admins, PatchCommit(a)
    PROVE  ReloadInv'
  <1> DEFINE change == req[a].patch
  <1>1. /\ req[a].pc = "read" /\ change \in Patches /\ cfg' = With(cfg, change)
        /\ req' = [req EXCEPT ![a] = NoRequest]
    BY DEF PatchCommit, ReloadInv
  <1>2. /\ \A b \in Admins : req'[b].pc = "read" => req'[b].patch \in Patches
        /\ req' = [b \in Admins |-> req'[b]]
    BY <1>1 DEF ReloadInv, NoRequest
  <1>3. cfg'.scheduler_enabled \in BOOLEAN
    <2>1. cfg'["scheduler_enabled"] = IF "scheduler_enabled" \in DOMAIN change
                                      THEN change["scheduler_enabled"] ELSE cfg["scheduler_enabled"]
      BY <1>1 DEF With, Columns, SCHEDULER_FIELDS
    <2> QED
      BY <1>1, <2>1, ConfigAssumption DEF ReloadInv
  <1>4. CASE DOMAIN change \cap SCHEDULER_FIELDS = {}
    <2>1. UNCHANGED <<obj, current, call>>
      BY <1>4 DEF PatchCommit, schedulerVars
    <2>2. \A f \in SCHEDULER_FIELDS : cfg'[f] = cfg[f]
      BY <1>1, <1>4 DEF With, Columns
    <2>3. Runtime(cfg') = Runtime(cfg)
      BY <2>2 DEF Runtime
    <2>4. cfg'.scheduler_enabled = cfg.scheduler_enabled /\ cfg'.sync_interval_minutes = cfg.sync_interval_minutes
      BY <2>2 DEF SCHEDULER_FIELDS
    <2>5. ASSUME OneProcess, NEW c \in Calls
          PROVE  ReloadOK(call[c])'
      <3>1. ReloadOK(call[c])
        BY <2>5 DEF ReloadInv
      <3> QED
        BY <2>1, <2>3, <2>4, <3>1 DEF ReloadOK, Serves
    <2> QED
      BY <1>2, <1>3, <2>5 DEF ReloadInv
  <1>5. CASE DOMAIN change \cap SCHEDULER_FIELDS # {}
    <2>1. PICK c \in Calls, p \in ApiProcs : MayCall(c, p) /\ call' = Called(c, p, "reload")
      BY <1>5 DEF PatchCommit
    <2>2. p \in Procs /\ call[c].pc = "none"
      BY <2>1 DEF MayCall, SchedulerInv
    <2> QED
      BY <1>2, <1>3, <2>1, <2>2, ReloadCalled
  <1> QED
    BY <1>4, <1>5
\* The switch of the scheduler changes the settings and calls a reload.
LEMMA ReloadSwitch ==
    ASSUME SchedulerInv, MarkInv, ReloadInv, NEW c \in Calls, NEW p \in Procs, set_scheduler_status(c, p)
    PROVE  ReloadInv'
  <1>1. PICK on \in BOOLEAN : cfg' = [cfg EXCEPT !.scheduler_enabled = on]
    BY DEF set_scheduler_status
  <1>2. cfg'.scheduler_enabled \in BOOLEAN
    BY <1>1 DEF MarkInv, Columns, SCHEDULER_FIELDS
  <1>3. call[c].pc = "none" /\ call' = Called(c, p, "reload") /\ UNCHANGED req
    BY DEF set_scheduler_status, MayCall
  <1> QED
    BY <1>2, <1>3, ReloadCalled DEF ReloadInv

\* Every step keeps it.
LEMMA ReloadStep == SchedulerInv /\ MarkInv /\ ReloadInv /\ [Next]_vars => ReloadInv'
  <1> SUFFICES ASSUME SchedulerInv, MarkInv, ReloadInv, [Next]_vars
               PROVE  ReloadInv'
    OBVIOUS
  <1>1. ASSUME UNCHANGED <<obj, current, call, cfg, req>>
        PROVE  ReloadInv'
    BY <1>1 DEF ReloadInv, ReloadOK, Serves
  <1>2. CASE SchedulerNext /\ UNCHANGED req
    <2>1. ASSUME NEW c \in Calls, Step(c) \/ LoadFails(c)
          PROVE  ReloadInv'
      BY <1>2, <2>1, ReloadReads, ReloadSetsUp, ReloadStarts DEF Step
    <2>2. ASSUME NEW c \in Calls, NEW p \in Procs, scheduler_status(c, p)
          PROVE  ReloadInv'
      BY <1>2, <2>2, ReloadCalled DEF scheduler_status, MayCall, ReloadInv
    <2>3. ASSUME NEW c \in Calls, NEW p \in Procs, Boot(c, p)
          PROVE  ReloadInv'
      BY <1>1, <1>2, <2>3, ReloadCalled DEF Boot, ReloadInv
    <2>4. ASSUME NEW p \in Procs, Stop(p)
          PROVE  ReloadInv'
      BY <1>2, <2>4, ReloadStops DEF Stop
    <2> QED
      BY <1>2, <2>1, <2>2, <2>3, <2>4 DEF SchedulerNext
  <1>3. ASSUME NEW a \in Admins, PatchRead(a)
        PROVE  ReloadInv'
    <2>1. PICK change \in Patches : req' = [req EXCEPT ![a] = [pc |-> "read", patch |-> change, old |-> cfg]]
      BY <1>3 DEF PatchRead
    <2>2. /\ \A b \in Admins : req'[b].pc = "read" => req'[b].patch \in Patches
          /\ req' = [b \in Admins |-> req'[b]]
      BY <2>1 DEF ReloadInv
    <2>3. UNCHANGED <<obj, current, call, cfg>>
      BY <1>3 DEF PatchRead, schedulerVars
    <2> QED
      BY <2>2, <2>3 DEF ReloadInv, ReloadOK, Serves
  <1>4. CASE DashboardNext /\ UNCHANGED <<schedulerVars, req>>
    <2>1. UNCHANGED cfg
      BY <1>4 DEF DashboardNext, Work, View, JobStart, mark_refreshing, build_dashboard_payload, mark_ready,
                  mark_failed, JobEnd, Reap, JobFails, JobLost, ViewTask, ViewSnapshot,
                  ensure_dashboard_refresh_task, refresh_dashboard_snapshot, Cancel
    <2> QED
      BY <1>1, <1>4, <2>1 DEF schedulerVars
  <1> QED
    BY <1>1, <1>2, <1>3, <1>4, ReloadPatch, ReloadSwitch DEF Next, vars, schedulerVars

(* Where one process serves the requests and runs the scheduler, for any    *)
(* number of coroutines and of requests that save settings: a reload with   *)
(* no other call beside it leaves a scheduler for the saved interval that   *)
(* runs if and only if it is switched on (tasks/scheduler.py                *)
(* reload_scheduler).  With a second process the settings may change behind *)
(* the reload, and nothing tells this process.                              *)
THEOREM ReloadTakesEffect ==
    ASSUME OneProcess
    PROVE  Spec => ReloadIsEffective
  <1>1. ASSUME Init
        PROVE  MarkInv /\ SchedulerInv /\ ReloadInv
    <2>1. \A c \in Calls : call[c].pc = "none"
      BY <1>1 DEF Init, SchedulerInit, Returned
    <2>2. cfg.scheduler_enabled \in BOOLEAN
      BY <1>1, ConfigAssumption DEF Init
    <2>3. \A a \in Admins : req[a].pc = "idle"
      BY <1>1 DEF Init, NoRequest
    <2>4. req = [a \in Admins |-> req[a]]
      BY <1>1 DEF Init
    <2> QED
      BY <1>1, <2>1, <2>2, <2>3, <2>4, MarkInit, SchedulerFirst DEF ReloadInv, ReloadOK
  <1>2. ASSUME ReloadInv
        PROVE  \A c \in Calls :
                  (/\ call[c].pc = "return" /\ call[c].kind = "reloaded" /\ call[c].alone
                   /\ call'[c].pc = "none" /\ call[c].proc \in up')
                     => LET o == current[call[c].proc]
                        IN  /\ obj[o].running <=> cfg.scheduler_enabled
                            /\ obj[o].sync_interval_minutes = cfg.sync_interval_minutes
    BY <1>2 DEF ReloadInv, ReloadOK, Serves
  <1> QED
    BY <1>1, <1>2, MarkStep, SchedulerStep, ReloadStep, PTL DEF Spec, ReloadIsEffective

=============================================================================
