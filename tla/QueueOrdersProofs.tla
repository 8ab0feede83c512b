-------------------------- MODULE QueueOrdersProofs -------------------------
(***************************************************************************)
(* The queue, for any number of rows, keys, workers, callers and cancel    *)
(* requests, with the slot per key that it implements, and its clock, for  *)
(* all values of the settings worker_lease_minutes,                        *)
(* worker_heartbeat_seconds and reaper_interval_seconds.                   *)
(*                                                                         *)
(* The orders a task of the queue pulls, for any number of packages,       *)
(* editors and administrators, and any batch size: the sync keeps manual   *)
(* edits, manual edits keep what the sync refreshed, and unedited headers  *)
(* keep their countries together.  The inductive invariant ties what the   *)
(* parties have in hand (the open batch, a header that was read earlier)   *)
(* to the headers as committed.                                            *)
(***************************************************************************)
EXTENDS TaskQueue, TaskLease, Orders, TLAPS

\* Most steps are first-order reasoning; those that need arithmetic or
\* updates of functions and records cite SMT.
USE Zenon

-----------------------------------------------------------------------------
(* The queue *)

\* The bookkeeping that makes ActiveUnique and AttemptOnce inductive: ids from
\* nextId on are unused, a row that no worker ever claimed has the count zero,
\* and a cancel request in flight names a row that exists.
Bookkeeping ==
    /\ \A t \in Tasks : t >= nextId => status[t] = "none"
    /\ \A t \in Tasks : status[t] \in {"none", "pending", "skipped", "purged"}
                           => attempts[t] = 0
    /\ \A x \in Cancellers : xpc[x] = "checked" =>
          xtask[x] \in Tasks /\ xtask[x] < nextId

IInv == TypeOK /\ Bookkeeping /\ ActiveUnique /\ AttemptOnce

\* The initial table is empty.
LEMMA InitIInv == Init => IInv
  BY SMT, QueueAssumption DEF Init, IInv, TypeOK, Bookkeeping, ActiveUnique, AttemptOnce,
     Tasks, Statuses, Active, Terminal, Busy

\* The rows a step of enqueue_task may touch: the one at nextId.
LEMMA CallerKeepsIInv ==
    ASSUME IInv, NEW c \in Callers, CallerStep(c)
    PROVE  IInv'
<1> USE QueueAssumption DEF IInv, rows, workers, callers, cancels, Tasks, Statuses, Active, Terminal, Busy
<1>1. CASE Call(c)
  BY SMT, <1>1 DEF Call, TypeOK, Bookkeeping, ActiveUnique, AttemptOnce
<1>2. CASE InsertOk(c)
  <2>1. nextId \in Tasks /\ status[nextId] = "none"
    BY SMT, <1>2 DEF InsertOk, TypeOK, Bookkeeping
  <2>2. TypeOK'
    BY SMT, <1>2, <2>1 DEF InsertOk, Return, TypeOK
  <2>3. Bookkeeping' /\ AttemptOnce'
    BY SMT, <1>2, <2>1 DEF InsertOk, TypeOK, Bookkeeping, AttemptOnce
  <2>4. ActiveUnique'
    <3>1. \A t \in Tasks : t # nextId => status'[t] = status[t] /\ key'[t] = key[t]
      BY <1>2 DEF InsertOk, TypeOK
    <3>2. key'[nextId] = ckey[c]
      BY <1>2, <2>1 DEF InsertOk, TypeOK
    <3>3. \A t \in Tasks : status[t] \in Active => key[t] # ckey[c]
      BY <1>2 DEF InsertOk, ActiveWith
    <3> QED
      BY <3>1, <3>2, <3>3 DEF ActiveUnique
  <2> QED
    BY <2>2, <2>3, <2>4
<1>3. CASE InsertConflict(c)
  BY SMT, <1>3 DEF InsertConflict, TypeOK, Bookkeeping, ActiveUnique, AttemptOnce
<1>4. CASE SelectExisting(c)
  <2>0. /\ cpc \in [Callers -> {"idle", "insert", "select", "trace"}]
        /\ ckey \in [Callers -> Keys \cup {NoKey}] /\ csrc \in [Callers -> {"scheduler", "manual"}]
        /\ cdepth \in [Callers -> 0..MaxRetryDepth]
    BY DEF TypeOK
  <2>1. /\ cpc' \in [Callers -> {"idle", "insert", "select", "trace"}]
        /\ ckey' \in [Callers -> Keys \cup {NoKey}] /\ csrc' \in [Callers -> {"scheduler", "manual"}]
    BY <1>4, <2>0 DEF SelectExisting, Return
  <2>2. cdepth' \in [Callers -> 0..MaxRetryDepth]
    BY SMT, <1>4, <2>0 DEF SelectExisting, Return
  <2> QED
    BY SMT, <1>4, <2>1, <2>2 DEF SelectExisting, TypeOK, Bookkeeping, ActiveUnique, AttemptOnce
<1>5. CASE InsertSkipped(c)
  <2>1. nextId \in Tasks /\ status[nextId] = "none"
    BY SMT, <1>5 DEF InsertSkipped, TypeOK, Bookkeeping
  <2>2. TypeOK'
    BY SMT, <1>5, <2>1 DEF InsertSkipped, Return, TypeOK
  <2>3. Bookkeeping' /\ AttemptOnce'
    BY SMT, <1>5, <2>1 DEF InsertSkipped, TypeOK, Bookkeeping, AttemptOnce
  <2>4. ActiveUnique'
    BY SMT, <1>5, <2>1 DEF InsertSkipped, TypeOK, ActiveUnique
  <2> QED
    BY <2>2, <2>3, <2>4
<1> QED
  BY <1>1, <1>2, <1>3, <1>4, <1>5 DEF CallerStep

\* The end of _execute leaves the worker's own state well typed.
LEMMA LetGoType ==
    ASSUME TypeOK, NEW w \in Workers, LetGo(w)
    PROVE  /\ wstate' \in [Workers -> {"off", "idle", "dead"} \cup Busy]
           /\ job' \in [Workers -> Tasks \cup {0}]
           /\ lost' \in [Workers -> BOOLEAN]
           /\ hb' \in [Workers -> BOOLEAN]
  BY DEF TypeOK, LetGo

\* A worker touches no row but a pending one it claims or the one it owns.
LEMMA WorkerKeepsIInv ==
    ASSUME IInv, NEW w \in Workers, WorkerStep(w)
    PROVE  IInv'
<1> USE QueueAssumption DEF IInv, rows, workers, callers, cancels, Statuses, Active, Terminal, Busy
<1>1. ASSUME Start(w) \/ Poll(w) \/ HeartbeatFails(w) \/ ProgressLeaseLost(w) \/ HandlerReturns(w)
             \/ HandlerRaises(w) \/ MarkFailedFails(w) \/ Crash(w)
      PROVE  IInv'
  <2>1. TypeOK'
    <3>1. CASE Poll(w)
      BY <3>1 DEF Poll, vars, TypeOK
    <3>2. CASE Start(w) \/ HandlerReturns(w) \/ HandlerRaises(w)
      BY SMT, <3>2 DEF Start, HandlerReturns, HandlerRaises, TypeOK
    <3>3. CASE HeartbeatFails(w)
      <4>1. hb' \in [Workers -> BOOLEAN]
        BY <3>3 DEF HeartbeatFails, TypeOK
      <4> QED
        BY <3>3, <4>1 DEF HeartbeatFails, TypeOK
    <3>4. CASE ProgressLeaseLost(w) \/ MarkFailedFails(w)
      BY SMT, <3>4, LetGoType DEF ProgressLeaseLost, MarkFailedFails, TypeOK
    <3>5. CASE Crash(w)
      BY <3>5 DEF Crash, TypeOK
    <3> QED
      BY <1>1, <3>1, <3>2, <3>3, <3>4, <3>5
  <2>2. UNCHANGED <<rows, callers, cancels>>
    BY <1>1 DEF Start, Poll, vars, HeartbeatFails, ProgressLeaseLost, HandlerReturns, HandlerRaises,
       MarkFailedFails, Crash
  <2> QED
    BY <2>1, <2>2 DEF Bookkeeping, ActiveUnique, AttemptOnce
<1>2. ASSUME NEW t \in Tasks, ClaimRow(w, t), UNCHANGED workers \/ Claim(w, t)
      PROVE  IInv'
  <2>1. TypeOK'
    <3>1. /\ status' \in [Tasks -> Statuses] /\ owner' \in [Tasks -> Workers \cup {NoWorker}]
          /\ lease' \in [Tasks -> {"none", "live", "expired"}] /\ attempts' \in [Tasks -> Nat]
      BY SMT, <1>2 DEF ClaimRow, TypeOK
    <3>0. /\ wstate \in [Workers -> {"off", "idle", "dead"} \cup Busy]
          /\ job \in [Workers -> Tasks \cup {0}]
          /\ lost \in [Workers -> BOOLEAN] /\ hb \in [Workers -> BOOLEAN]
      BY DEF TypeOK
    <3>2. wstate' \in [Workers -> {"off", "idle", "dead"} \cup Busy]
      BY SMT, <1>2, <3>0 DEF Claim
    <3>3. job' \in [Workers -> Tasks \cup {0}]
      BY <1>2, <3>0 DEF Claim
    <3>4. lost' \in [Workers -> BOOLEAN] /\ hb' \in [Workers -> BOOLEAN]
      BY <1>2, <3>0, Zenon DEF Claim
    <3> QED
      BY <1>2, <3>1, <3>2, <3>3, <3>4 DEF ClaimRow, TypeOK
  <2>2. Bookkeeping'
    BY SMT, <1>2 DEF ClaimRow, TypeOK, Bookkeeping
  <2>3. ActiveUnique'
    BY SMT, <1>2 DEF ClaimRow, TypeOK, ActiveUnique
  <2>4. AttemptOnce'
    BY SMT, <1>2 DEF ClaimRow, TypeOK, Bookkeeping, AttemptOnce
  <2> QED
    BY <2>1, <2>2, <2>3, <2>4
<1>3. CASE Heartbeat(w)
  <2>1. TypeOK'
    <3>0. /\ lease \in [Tasks -> {"none", "live", "expired"}]
          /\ lost \in [Workers -> BOOLEAN] /\ hb \in [Workers -> BOOLEAN]
      BY DEF TypeOK
    <3>1. lease' \in [Tasks -> {"none", "live", "expired"}]
      BY <1>3, <3>0, Zenon DEF Heartbeat
    <3>2. lost' \in [Workers -> BOOLEAN] /\ hb' \in [Workers -> BOOLEAN]
      BY <1>3, <3>0, Zenon DEF Heartbeat
    <3> QED
      BY <1>3, <3>1, <3>2 DEF Heartbeat, TypeOK
  <2> QED
    BY <1>3, <2>1 DEF Heartbeat, Bookkeeping, ActiveUnique, AttemptOnce
<1>4. ASSUME NEW s \in {"success", "failed"}, Finish(w, s), TypeOK'
      PROVE  IInv'
  <2>1. Bookkeeping'
    BY SMT, <1>4 DEF Finish, Owns, TypeOK, Bookkeeping
  <2>2. ActiveUnique'
    BY SMT, <1>4 DEF Finish, Owns, TypeOK, ActiveUnique
  <2>3. AttemptOnce'
    BY SMT, <1>4 DEF Finish, Owns, TypeOK, AttemptOnce
  <2> QED
    BY <1>4, <2>1, <2>2, <2>3
<1>5. ASSUME MarkSuccess(w) \/ MarkSuccessFails(w) \/ MarkFailed(w)
      PROVE  TypeOK'
  <2>1. /\ status' \in [Tasks -> Statuses] /\ lease' \in [Tasks -> {"none", "live", "expired"}]
        /\ UNCHANGED <<key, owner, attempts, nextId, callers, cancels>>
    <3>0. status \in [Tasks -> Statuses] /\ lease \in [Tasks -> {"none", "live", "expired"}]
      BY DEF TypeOK
    <3> QED
      BY <1>5, <3>0 DEF MarkSuccess, MarkSuccessFails, MarkFailed, Finish
  <2>2. /\ wstate' \in [Workers -> {"off", "idle", "dead"} \cup Busy]
        /\ job' \in [Workers -> Tasks \cup {0}] /\ lost' \in [Workers -> BOOLEAN]
        /\ hb' \in [Workers -> BOOLEAN]
    <3>0. /\ wstate \in [Workers -> {"off", "idle", "dead"} \cup Busy]
          /\ job \in [Workers -> Tasks \cup {0}]
          /\ lost \in [Workers -> BOOLEAN] /\ hb \in [Workers -> BOOLEAN]
      BY DEF TypeOK
    <3>1. CASE MarkSuccessFails(w)
      BY <3>0, <3>1 DEF MarkSuccessFails
    <3>2. CASE MarkSuccess(w) \/ MarkFailed(w)
      BY <3>2, LetGoType DEF MarkSuccess, MarkFailed
    <3> QED
      BY <1>5, <3>1, <3>2
  <2> QED
    BY <2>1, <2>2 DEF TypeOK
<1>6. CASE MarkSuccess(w)
  BY <1>4, <1>5, <1>6 DEF MarkSuccess
<1>7. CASE MarkFailed(w)
  BY <1>4, <1>5, <1>7 DEF MarkFailed
<1>8. CASE MarkSuccessFails(w)
  <2>1. CASE Finish(w, "success")
    BY <1>4, <1>5, <1>8, <2>1
  <2>2. CASE UNCHANGED <<rows, callers, cancels>>
    BY <1>5, <1>8, <2>2 DEF Bookkeeping, ActiveUnique, AttemptOnce
  <2> QED
    BY <1>8, <2>1, <2>2 DEF MarkSuccessFails
<1> QED
  BY <1>1, <1>2, <1>3, <1>6, <1>7, <1>8 DEF WorkerStep, Claim, ClaimAnswerLost

\* The remaining steps move rows out of the active statuses or leave them.
LEMMA OthersKeepIInv ==
    ASSUME IInv,
           \/ \E t \in Tasks : Expire(t) \/ Purge(t)
           \/ Reap
           \/ \E x \in Cancellers : CancelCheck(x) \/ CancelWrite(x)
    PROVE  IInv'
<1> USE QueueAssumption DEF IInv, rows, workers, callers, cancels, Statuses, Active, Terminal, Busy
<1>1. ASSUME NEW t \in Tasks, Expire(t) PROVE IInv'
  BY SMT, <1>1 DEF Expire, TypeOK, Bookkeeping, ActiveUnique, AttemptOnce
<1>2. ASSUME NEW t \in Tasks, Purge(t) PROVE IInv'
  <2>1. TypeOK'
    BY <1>2 DEF Purge, TypeOK
  <2>2. Bookkeeping' /\ AttemptOnce'
    BY SMT, <1>2 DEF Purge, TypeOK, Bookkeeping, AttemptOnce
  <2>3. ActiveUnique'
    BY SMT, <1>2 DEF Purge, TypeOK, ActiveUnique
  <2> QED
    BY <2>1, <2>2, <2>3
<1>3. CASE Reap
  <2>1. TypeOK'
    BY <1>3 DEF Reap, Overdue, TypeOK
  <2>2. Bookkeeping' /\ AttemptOnce'
    BY <1>3 DEF Reap, Overdue, TypeOK, Bookkeeping, AttemptOnce
  <2>3. ActiveUnique'
    BY <1>3 DEF Reap, Overdue, TypeOK, ActiveUnique
  <2> QED
    BY <2>1, <2>2, <2>3
<1>4. ASSUME NEW x \in Cancellers, CancelCheck(x) PROVE IInv'
  <2>1. PICK t \in Tasks : status[t] = "pending" /\ xtask' = [xtask EXCEPT ![x] = t]
    BY <1>4, Zenon DEF CancelCheck
  <2>2. t < nextId
    BY SMT, <2>1 DEF Bookkeeping, TypeOK, Tasks
  <2>3. TypeOK'
    BY <1>4, <2>1 DEF CancelCheck, TypeOK
  <2>4. Bookkeeping'
    BY SMT, <1>4, <2>1, <2>2 DEF CancelCheck, TypeOK, Bookkeeping
  <2> QED
    BY <1>4, <2>3, <2>4 DEF CancelCheck, ActiveUnique, AttemptOnce
<1>5. ASSUME NEW x \in Cancellers, CancelWrite(x) PROVE IInv'
  <2>1. xtask[x] \in Tasks /\ xtask[x] < nextId
    BY <1>5 DEF CancelWrite, Bookkeeping
  <2>2. TypeOK'
    BY SMT, <1>5, <2>1 DEF CancelWrite, TypeOK
  <2>3. Bookkeeping'
    BY SMT, <1>5, <2>1 DEF CancelWrite, TypeOK, Bookkeeping, Tasks
  <2>4. ActiveUnique'
    BY SMT, <1>5, <2>1 DEF CancelWrite, TypeOK, ActiveUnique
  <2>5. AttemptOnce'
    BY SMT, <1>5, <2>1 DEF CancelWrite, TypeOK, AttemptOnce
  <2> QED
    BY <2>2, <2>3, <2>4, <2>5
<1> QED
  BY <1>1, <1>2, <1>3, <1>4, <1>5

\* Every step of every actor keeps the inductive invariant.
LEMMA NextKeepsIInv == IInv /\ [Next]_vars => IInv'
<1> SUFFICES ASSUME IInv, [Next]_vars PROVE IInv'
  OBVIOUS
<1>1. CASE UNCHANGED vars
  BY <1>1 DEF vars, rows, workers, callers, cancels, IInv, TypeOK, Bookkeeping, ActiveUnique, AttemptOnce
<1> QED
  BY <1>1, CallerKeepsIInv, WorkerKeepsIInv, OthersKeepIInv DEF Next

\* The inductive invariant holds in every reachable state of the queue.
THEOREM QueueInvariant == Spec => []IInv
  BY InitIInv, NextKeepsIInv, PTL DEF Spec

\* The core constraint of task_run: never two active rows with one dedupe key.
THEOREM ActiveUniqueTheorem == Spec => []ActiveUnique
  BY QueueInvariant, PTL DEF IInv

\* The attempt_count tripwire never trips: no row is claimed a second time.
THEOREM AttemptOnceTheorem == Spec => []AttemptOnce
  BY QueueInvariant, PTL DEF IInv

\* Overlapping executions of one key never both own their row.
THEOREM ExclusiveTheorem == Spec => []ExclusiveWhileOwned
<1>1. IInv => ExclusiveWhileOwned
  BY DEF IInv, TypeOK, ActiveUnique, ExclusiveWhileOwned, Owns, Active
<1> QED
  BY <1>1, QueueInvariant, PTL

\* No late step of a worker, of the reaper or of a producer rewrites the status
\* of a finished row; only retention and a cancel request in flight do.
THEOREM VerdictTheorem == Spec => VerdictStable
<1> DEFINE V == \A t \in Tasks : status[t] \in Terminal =>
                  \/ status'[t] \in {status[t], "purged"}
                  \/ \E x \in Cancellers : xpc[x] = "checked" /\ xtask[x] = t
<1>1. ASSUME IInv, Next PROVE V
  <2> USE QueueAssumption DEF Terminal, rows, workers, callers, cancels
  <2>0. status \in [Tasks -> Statuses]
    BY <1>1 DEF IInv, TypeOK
  <2>1. ASSUME NEW c \in Callers, CallerStep(c) PROVE V
    <3>1. CASE InsertOk(c) \/ InsertSkipped(c)
      <4>1. \A t \in Tasks : status'[t] = status[t] \/ status[t] = "none"
        <5>1. \A t \in Tasks : t = nextId => status[t] = "none"
          BY SMT, <1>1 DEF IInv, TypeOK, Bookkeeping, Tasks
        <5>2. \/ status' = [status EXCEPT ![nextId] = "pending"]
              \/ status' = [status EXCEPT ![nextId] = "skipped"]
          BY <3>1 DEF InsertOk, InsertSkipped
        <5> QED
          BY SMT, <2>0, <5>1, <5>2
      <4> QED
        BY <4>1
    <3>2. CASE Call(c) \/ InsertConflict(c) \/ SelectExisting(c)
      BY <3>2 DEF Call, InsertConflict, SelectExisting
    <3> QED
      BY <2>1, <3>1, <3>2 DEF CallerStep
  <2>2. ASSUME NEW w \in Workers, WorkerStep(w) PROVE V
    <3>1. ASSUME NEW t \in Tasks, ClaimRow(w, t) PROVE V
      BY <2>0, <3>1 DEF ClaimRow
    <3>2. ASSUME NEW s \in {"success", "failed"}, Finish(w, s) PROVE V
      BY <2>0, <3>2 DEF Finish, Owns
    <3>3. CASE status' = status
      BY <3>3
    <3>4. \/ \E t \in Tasks : ClaimRow(w, t)
          \/ \E s \in {"success", "failed"} : Finish(w, s)
          \/ status' = status
      BY <2>2 DEF WorkerStep, Start, Poll, vars, Claim, ClaimAnswerLost, Heartbeat, HeartbeatFails,
         ProgressLeaseLost, HandlerReturns, HandlerRaises, MarkSuccess, MarkSuccessFails,
         MarkFailed, MarkFailedFails, Crash
    <3> QED
      BY <3>1, <3>2, <3>3, <3>4
  <2>3. ASSUME NEW t \in Tasks, Expire(t) \/ Purge(t) PROVE V
    BY <1>1, <2>3 DEF IInv, TypeOK, Expire, Purge
  <2>4. CASE Reap
    BY <1>1, <2>4 DEF IInv, TypeOK, Reap, Overdue
  <2>5. ASSUME NEW x \in Cancellers, CancelCheck(x) \/ CancelWrite(x) PROVE V
    BY <1>1, <2>5 DEF IInv, TypeOK, CancelCheck, CancelWrite
  <2> QED
    BY <1>1, <2>1, <2>2, <2>3, <2>4, <2>5 DEF Next
<1>2. IInv /\ [Next]_vars => [V]_vars
  BY <1>1
<1> QED
  BY <1>2, QueueInvariant, PTL DEF Spec, VerdictStable

-----------------------------------------------------------------------------
(* The queue implements one slot per dedupe key. *)

\* The slot of a key in a table with these columns.
SlotIn(st, ky, k) ==
    IF \E t \in Tasks : ky[t] = k /\ st[t] = "running" THEN "busy"
    ELSE IF \E t \in Tasks : ky[t] = k /\ st[t] = "pending" THEN "waiting" ELSE "free"

\* No two active rows with one key.
Unique(st, ky) ==
    \A t, u \in Tasks : t # u /\ st[t] \in Active /\ st[u] \in Active => ky[t] # ky[u]

\* The slot is read off the one active row with the key, if there is one.
LEMMA SlotOfRow ==
    ASSUME NEW st, NEW ky, Unique(st, ky), NEW t \in Tasks
    PROVE  /\ st[t] = "running" => SlotIn(st, ky, ky[t]) = "busy"
           /\ st[t] = "pending" => SlotIn(st, ky, ky[t]) = "waiting"
  BY DEF Unique, SlotIn, Active

\* Without an active row with the key it is free.
LEMMA SlotFree ==
    ASSUME NEW st, NEW ky, NEW k, \A t \in Tasks : st[t] \in Active => ky[t] # k
    PROVE  SlotIn(st, ky, k) = "free"
  BY DEF SlotIn, Active

\* Tables with the same active rows under a key agree on its slot.
LEMMA SlotSame ==
    ASSUME NEW st, NEW ky, NEW st2, NEW ky2, NEW k,
           \A t \in Tasks : /\ st[t] \in Active /\ ky[t] = k => st2[t] = st[t] /\ ky2[t] = k
                            /\ st2[t] \in Active /\ ky2[t] = k => st2[t] = st[t] /\ ky[t] = k
    PROVE  SlotIn(st, ky, k) = SlotIn(st2, ky2, k)
  BY DEF SlotIn, Active

\* Rows with a running task that end, and rows that are not active anyway.
LEMMA EndsConclude ==
    ASSUME IInv, key' \in [Tasks -> Keys \cup {NoKey}], NEW F \in SUBSET Tasks,
           \A t \in F : status[t] = "running" /\ status'[t] \notin Active,
           \A t \in Tasks \ F : status[t] \in Active \/ status'[t] \in Active
                                   => status'[t] = status[t] /\ key'[t] = key[t]
    PROVE  \E S \in SUBSET Keys : Slots!Conclude(S)
  <1> DEFINE S == {k \in Keys : \E t \in F : key[t] = k}
  <1>1. Unique(status, key)
    BY DEF IInv, ActiveUnique, Unique
  <1>2. \A k \in Keys : SlotOf[k] = SlotIn(status, key, k)
    BY DEF SlotOf, SlotIn
  <1>3. SlotOf' = [k \in Keys |-> SlotIn(status', key', k)]
    BY DEF SlotOf, SlotIn
  <1>4. ASSUME NEW k \in S
        PROVE  SlotOf[k] = "busy" /\ SlotIn(status', key', k) = "free"
    <2>1. PICK t \in F : key[t] = k
      OBVIOUS
    <2>2. SlotIn(status, key, k) = "busy"
      BY SMT, <1>1, <2>1, SlotOfRow
    <2>3. \A u \in Tasks : status'[u] \in Active => key'[u] # k
      BY <1>1, <2>1 DEF Unique, Active
    <2> QED
      BY SMT, <1>2, <2>2, <2>3, SlotFree
  <1>5. ASSUME NEW k \in Keys \ S
        PROVE  SlotIn(status', key', k) = SlotOf[k]
    <2>1. \A t \in Tasks : /\ status[t] \in Active /\ key[t] = k => status'[t] = status[t] /\ key'[t] = k
                           /\ status'[t] \in Active /\ key'[t] = k => status'[t] = status[t] /\ key[t] = k
      OBVIOUS
    <2> QED
      BY SMT, <1>2, <2>1, SlotSame
  <1>6. SlotOf' = [k \in Keys |-> IF k \in S THEN "free" ELSE SlotOf[k]]
    BY SMT, <1>3, <1>4, <1>5
  <1> QED
    BY <1>4, <1>6 DEF Slots!Conclude

\* One row that begins, or one that waits and is withdrawn.
LEMMA RowMoves ==
    ASSUME IInv, NEW t \in Tasks, status[t] = "pending",
           status'[t] = "running" \/ status'[t] \notin Active, key' = key,
           \A u \in Tasks \ {t} : status'[u] = status[u]
    PROVE  UNCHANGED SlotOf \/ \E k \in Keys : Slots!Begin(k) \/ Slots!Withdraw(k)
  <1>1. Unique(status, key) /\ Unique(status', key')
    BY DEF IInv, ActiveUnique, Unique, Active
  <1>2. SlotOf = [k \in Keys |-> SlotIn(status, key, k)]
    BY DEF SlotOf, SlotIn
  <1>3. SlotOf' = [k \in Keys |-> SlotIn(status', key', k)]
    BY DEF SlotOf, SlotIn
  <1>4. ASSUME NEW k \in Keys, k # key[t]
        PROVE  SlotIn(status', key', k) = SlotIn(status, key, k)
    BY SMT, <1>4, SlotSame
  <1>5. CASE key[t] \notin Keys
    BY <1>2, <1>3, <1>4, <1>5
  <1>6. CASE key[t] \in Keys
    <2>1. SlotOf[key[t]] = "waiting"
      BY <1>1, <1>2, <1>6, SlotOfRow
    <2>2. CASE status'[t] = "running"
      <3>1. SlotIn(status', key', key[t]) = "busy"
        BY <1>1, <2>2, SlotOfRow
      <3>2. SlotOf' = [SlotOf EXCEPT ![key[t]] = "busy"]
        BY <1>2, <1>3, <1>4, <1>6, <3>1
      <3> QED
        BY <1>6, <2>1, <3>2 DEF Slots!Begin
    <2>3. CASE status'[t] \notin Active
      <3>1. \A u \in Tasks : status'[u] \in Active => key'[u] # key[t]
        BY <1>1, <2>3 DEF Unique, Active
      <3>2. SlotIn(status', key', key[t]) = "free"
        BY <3>1, SlotFree
      <3>3. SlotOf' = [SlotOf EXCEPT ![key[t]] = "free"]
        BY <1>2, <1>3, <1>4, <1>6, <3>2
      <3> QED
        BY <1>6, <2>1, <3>3 DEF Slots!Withdraw
    <2> QED
      BY <2>2, <2>3
  <1> QED
    BY <1>5, <1>6

\* The row that enqueue_task inserts reserves the slot of its key.
LEMMA InsertReserves ==
    ASSUME IInv, NEW c \in Callers, InsertOk(c)
    PROVE  UNCHANGED SlotOf \/ \E k \in Keys : Slots!Reserve(k)
  <1> DEFINE new == ckey[c]
  <1>1. nextId \in Tasks /\ status[nextId] = "none"
    BY SMT, QueueAssumption DEF InsertOk, IInv, TypeOK, Bookkeeping, Tasks
  <1>2. /\ status'[nextId] = "pending" /\ key'[nextId] = new
        /\ \A t \in Tasks \ {nextId} : status'[t] = status[t] /\ key'[t] = key[t]
    BY <1>1 DEF InsertOk, IInv, TypeOK
  <1>3. \A t \in Tasks : status[t] \in Active => key[t] # new
    BY DEF InsertOk, ActiveWith
  <1>4. SlotOf = [k \in Keys |-> SlotIn(status, key, k)]
    BY DEF SlotOf, SlotIn
  <1>5. SlotOf' = [k \in Keys |-> SlotIn(status', key', k)]
    BY DEF SlotOf, SlotIn
  <1>6. ASSUME NEW k \in Keys, k # new
        PROVE  SlotIn(status', key', k) = SlotIn(status, key, k)
    <2>1. \A t \in Tasks : /\ status[t] \in Active /\ key[t] = k => status'[t] = status[t] /\ key'[t] = k
                           /\ status'[t] \in Active /\ key'[t] = k => status'[t] = status[t] /\ key[t] = k
      BY <1>1, <1>2, <1>6 DEF Active
    <2> QED
      BY SMT, <2>1, SlotSame
  <1>7. SlotIn(status, key, new) = "free"
    BY <1>3, SlotFree
  <1>8. SlotIn(status', key', new) = "waiting"
    BY <1>1, <1>2, <1>3 DEF SlotIn, Active
  <1> HIDE DEF new
  <1>9. CASE new \in Keys
    <2>1. SlotOf[new] = "free" /\ SlotOf' = [SlotOf EXCEPT ![new] = "waiting"]
      BY <1>4, <1>5, <1>6, <1>7, <1>8, <1>9
    <2> QED
      BY <1>9, <2>1 DEF Slots!Reserve
  <1>10. CASE new \notin Keys
    BY <1>4, <1>5, <1>6, <1>10
  <1> QED
    BY <1>9, <1>10

\* Every step of the queue is a step of the slots or leaves them as they are.
LEMMA SlotStep == IInv /\ IInv' /\ [Next]_vars => [Slots!Next]_SlotOf
  <1> SUFFICES ASSUME IInv, IInv', [Next]_vars
               PROVE  Slots!Next \/ UNCHANGED SlotOf
    OBVIOUS
  <1>0. /\ status \in [Tasks -> Statuses] /\ key \in [Tasks -> Keys \cup {NoKey}]
        /\ key' \in [Tasks -> Keys \cup {NoKey}]
    BY DEF IInv, TypeOK
  <1>1. ASSUME \A t \in Tasks : status[t] \in Active \/ status'[t] \in Active
                                   => status'[t] = status[t] /\ key'[t] = key[t]
        PROVE  Slots!Next
    <2>1. \E S \in SUBSET Keys : Slots!Conclude(S)
      <3> DEFINE F == {}
      <3>1. F \in SUBSET Tasks /\ \A t \in F : FALSE
        OBVIOUS
      <3> HIDE DEF F
      <3> QED
        BY <1>0, <1>1, <3>1, EndsConclude
    <2> QED
      BY <2>1 DEF Slots!Next
  <1>2. ASSUME NEW c \in Callers, CallerStep(c)
        PROVE  Slots!Next \/ UNCHANGED SlotOf
    <2>1. CASE InsertOk(c)
      BY <2>1, InsertReserves DEF Slots!Next
    <2>2. CASE InsertSkipped(c)
      <3>1. nextId \in Tasks /\ status[nextId] = "none" /\ key' = key
        <4>1. nextId \in Nat \ {0} /\ nextId <= MaxTasks /\ key' = key
          BY SMT, <2>2, QueueAssumption DEF InsertSkipped, IInv, TypeOK
        <4>2. nextId \in Tasks /\ nextId >= nextId
          BY SMT, <4>1, QueueAssumption DEF Tasks
        <4> QED
          BY <4>1, <4>2 DEF IInv, Bookkeeping
      <3>2. \A t \in Tasks : status'[t] = IF t = nextId THEN "skipped" ELSE status[t]
        BY <1>0, <2>2 DEF InsertSkipped
      <3> QED
        BY <1>1, <3>1, <3>2 DEF Active
    <2>3. CASE Call(c) \/ InsertConflict(c) \/ SelectExisting(c)
      BY <1>1, <2>3 DEF Call, InsertConflict, SelectExisting, rows
    <2> QED
      BY <1>2, <2>1, <2>2, <2>3 DEF CallerStep
  <1>3. ASSUME NEW w \in Workers, WorkerStep(w)
        PROVE  Slots!Next \/ UNCHANGED SlotOf
    <2>1. ASSUME NEW t \in Tasks, ClaimRow(w, t)
          PROVE  Slots!Next \/ UNCHANGED SlotOf
      <3>1. status[t] = "pending" /\ status'[t] = "running" /\ key' = key
            /\ \A u \in Tasks \ {t} : status'[u] = status[u]
        BY <1>0, <2>1 DEF ClaimRow
      <3> QED
        BY <3>1, RowMoves DEF Slots!Next
    <2>2. ASSUME NEW s \in {"success", "failed"}, Finish(w, s)
          PROVE  Slots!Next \/ UNCHANGED SlotOf
      <3>1. CASE Owns(w)
        <4>1. job[w] \in Tasks /\ status[job[w]] = "running" /\ status'[job[w]] \notin Active /\ key' = key
              /\ \A u \in Tasks \ {job[w]} : status'[u] = status[u]
          BY <1>0, <2>2, <3>1 DEF Finish, Owns, Active
        <4>2. \E S \in SUBSET Keys : Slots!Conclude(S)
          <5> DEFINE F == {job[w]}
          <5>1. F \in SUBSET Tasks
            BY <4>1
          <5>2. \A t \in F : status[t] = "running" /\ status'[t] \notin Active
            BY <4>1
          <5>3. \A t \in Tasks \ F : status'[t] = status[t] /\ key'[t] = key[t]
            BY <4>1
          <5> HIDE DEF F
          <5> QED
            BY <1>0, <5>1, <5>2, <5>3, EndsConclude
        <4> QED
          BY <4>2 DEF Slots!Next
      <3>2. CASE ~Owns(w)
        BY <1>1, <2>2, <3>2 DEF Finish
      <3> QED
        BY <3>1, <3>2
    <2>3. CASE UNCHANGED <<status, key>>
      BY <1>1, <2>3
    <2>4. \/ \E t \in Tasks : ClaimRow(w, t)
          \/ \E s \in {"success", "failed"} : Finish(w, s)
          \/ UNCHANGED <<status, key>>
      BY <1>3 DEF WorkerStep, Start, Poll, vars, rows, Claim, ClaimAnswerLost, Heartbeat, HeartbeatFails,
         ProgressLeaseLost, HandlerReturns, HandlerRaises, MarkSuccess, MarkSuccessFails,
         MarkFailed, MarkFailedFails, Crash
    <2> QED
      BY <2>1, <2>2, <2>3, <2>4
  <1>4. ASSUME NEW t \in Tasks, Expire(t) \/ Purge(t)
        PROVE  Slots!Next
    <2>1. \A u \in Tasks : status[u] \in Active \/ status'[u] \in Active
                              => status'[u] = status[u] /\ key'[u] = key[u]
      BY <1>0, <1>4 DEF Expire, Purge, Active, Terminal
    <2> QED
      BY <1>1, <2>1
  <1>5. CASE Reap
    <2>1. /\ Overdue \in SUBSET Tasks
          /\ \A t \in Overdue : status[t] = "running" /\ status'[t] \notin Active
          /\ \A t \in Tasks \ Overdue : status'[t] = status[t] /\ key'[t] = key[t]
      BY <1>5 DEF Reap, Overdue, Active
    <2>2. \E S \in SUBSET Keys : Slots!Conclude(S)
      BY <1>0, <2>1, EndsConclude
    <2> QED
      BY <2>2 DEF Slots!Next
  <1>6. ASSUME NEW x \in Cancellers, CancelWrite(x)
        PROVE  Slots!Next \/ UNCHANGED SlotOf
    <2> DEFINE t == xtask[x]
               F == {t}
    <2>1. t \in Tasks /\ key' = key
      BY <1>6 DEF CancelWrite, IInv, Bookkeeping
    <2>2. /\ status'[t] \in {"purged", "cancelled"}
          /\ \A u \in Tasks \ {t} : status'[u] = status[u]
      BY <1>0, <1>6, <2>1 DEF CancelWrite
    <2> HIDE DEF t
    <2>3. CASE status[t] = "running"
      <3>1. /\ F \in SUBSET Tasks
            /\ \A u \in F : status[u] = "running" /\ status'[u] \notin Active
            /\ \A u \in Tasks \ F : status'[u] = status[u] /\ key'[u] = key[u]
        BY <2>1, <2>2, <2>3 DEF Active
      <3> HIDE DEF F
      <3>2. \E S \in SUBSET Keys : Slots!Conclude(S)
        BY <1>0, <3>1, EndsConclude
      <3> QED
        BY <3>2 DEF Slots!Next
    <2>4. CASE status[t] = "pending"
      BY <2>1, <2>2, <2>4, RowMoves DEF Slots!Next, Active
    <2>5. CASE status[t] \notin Active
      BY <1>1, <2>1, <2>2, <2>5 DEF Active
    <2> QED
      BY <2>3, <2>4, <2>5 DEF Active
  <1>7. ASSUME NEW x \in Cancellers, CancelCheck(x)
        PROVE  Slots!Next
    BY <1>1, <1>7 DEF CancelCheck, rows
  <1>8. CASE UNCHANGED vars
    BY <1>1, <1>8 DEF vars, rows
  <1> QED
    BY <1>2, <1>3, <1>4, <1>5, <1>6, <1>7, <1>8 DEF Next

(* The queue implements the promise of models/task_run.py, a slot per       *)
(* dedupe key that is free, holds one waiting or one running task: for any  *)
(* number of rows, workers, calls and cancel requests, every transaction is *)
(* one move of the slots or none.                                           *)
THEOREM ImplementsSlotsTheorem == Spec => ImplementsSlots
  <1>1. Init => Slots!Init
    BY SMT DEF Init, Slots!Init, SlotOf
  <1> QED
    BY <1>1, SlotStep, QueueInvariant, PTL DEF Spec, ImplementsSlots, Slots!Spec

-----------------------------------------------------------------------------
(* The clock. *)

\* A live heartbeat belongs to a busy process whose settings start() accepted,
\* and while its row runs the lease has lost only the ticks since the last
\* renewal: those slept plus those by which the round is late.
Slack ==
    /\ proc \in {"idle", "busy", "dead"} => beat * 2 < lease_seconds
    /\ beating = "alive" => proc = "busy" /\ faults = 0
    /\ beating = "alive" /\ sleep > 0 => late = 0
    /\ beating = "alive" /\ row = "running" => left >= lease_seconds - (beat - sleep) - late

\* The intervals an overdue row may wait for: one, and one for every pass that raised.
Grace == (raised + 1) * reapEvery

\* What is left of the lease, less what is left of the current interval.
ReapedInTime ==
    row = "running" => proc \in {"busy", "dead"} /\ left - reapIn >= 0 - Grace

LInv == LeaseTypeOK /\ Slack /\ ReapedInTime

\* Each pass that raises adds an interval.
LEMMA GraceGrows ==
    ASSUME LeaseTypeOK
    PROVE  /\ Grace \in Nat /\ Grace >= reapEvery
           /\ (raised + 1 + 1) * reapEvery = Grace + reapEvery
           /\ (0 + 1) * reapEvery = reapEvery
<1>1. raised \in Nat /\ reapEvery \in Nat
  BY SMT, LeaseAssumption DEF LeaseTypeOK
<1>2. \A n, k \in Nat : /\ (n + 1) * k \in Nat /\ (n + 1) * k >= k
                       /\ (n + 1 + 1) * k = (n + 1) * k + k /\ (0 + 1) * k = k
  BY SMT
<1> QED
  BY <1>1, <1>2 DEF Grace

\* Nothing runs at first.
LEMMA InitLInv == LeaseInit => LInv
<1> SUFFICES ASSUME LeaseInit PROVE LInv
  OBVIOUS
<1>1. LeaseTypeOK
  BY SMT, LeaseAssumption DEF LeaseInit, LeaseTypeOK
<1>2. Slack /\ ReapedInTime
  BY DEF LeaseInit, Slack, ReapedInTime
<1> QED
  BY <1>1, <1>2 DEF LInv

\* Every step of the worker, its heartbeat, the reaper and the clock keeps it.
LEMMA NextKeepsLInv == LInv /\ [LeaseNext]_leaseVars => LInv'
<1> SUFFICES ASSUME LInv, [LeaseNext]_leaseVars PROVE LInv'
  OBVIOUS
<1> USE LeaseAssumption DEF LInv, leaseVars, config, timers
<1>0. /\ Grace \in Nat /\ Grace >= reapEvery
      /\ UNCHANGED <<reapEvery, raised>> => Grace' = Grace
      /\ reapEvery' = reapEvery /\ raised' = raised + 1 => Grace' = Grace + reapEvery
      /\ reapEvery' = reapEvery /\ raised' = 0 => Grace' = reapEvery
  BY GraceGrows DEF Grace
<1>1. CASE StartWorker
  BY SMT, <1>0, <1>1 DEF StartWorker, LeaseTypeOK, Slack, ReapedInTime
<1>2. CASE ClaimTask
  <2>1. LeaseTypeOK' /\ Slack'
    BY SMT, <1>2 DEF ClaimTask, LeaseTypeOK, Slack
  <2>2. ReapedInTime'
    BY SMT, <1>0, <1>2 DEF ClaimTask, LeaseTypeOK, ReapedInTime
  <2> QED
    BY <2>1, <2>2
<1>3. CASE Beat
  <2>1. LeaseTypeOK'
    BY SMT, <1>3 DEF Beat, LeaseTypeOK, Slack
  <2>2. Slack'
    BY SMT, <1>3 DEF Beat, LeaseTypeOK, Slack
  <2>3. ReapedInTime'
    BY SMT, <1>0, <1>3 DEF Beat, LeaseTypeOK, ReapedInTime
  <2> QED
    BY <2>1, <2>2, <2>3
<1>4. CASE BeatRaises
  <2>1. LeaseTypeOK'
    BY SMT, <1>4 DEF BeatRaises, LeaseTypeOK, Slack
  <2>2. Slack'
    BY <1>4 DEF BeatRaises, LeaseTypeOK, Slack
  <2>3. ReapedInTime'
    BY <1>0, <1>4 DEF BeatRaises, ReapedInTime
  <2> QED
    BY <2>1, <2>2, <2>3
<1>5. CASE HandlerEnds
  BY <1>0, <1>5 DEF HandlerEnds, LeaseTypeOK, Slack, ReapedInTime
<1>6. CASE WorkerDies
  BY <1>0, <1>6 DEF WorkerDies, LeaseTypeOK, Slack, ReapedInTime
<1>7. CASE ReapPass \/ ReapRaises
  <2>1. /\ UNCHANGED <<config, proc, left, sleep, late, beating, faults>> /\ reapIn' = reapEvery
        /\ row' \in {row, "reaped"} /\ (row' = "running" => row = "running")
        /\ \/ raised' = 0 /\ (row' = "running" => ~(left < 0))
           \/ raised' = raised + 1 /\ raised < MaxRaised
    BY SMT, <1>7 DEF ReapPass, ReapRaises, Reaped
  <2>2. LeaseTypeOK'
    BY SMT, <2>1 DEF LeaseTypeOK
  <2>3. Slack'
    BY <2>1 DEF Slack
  <2>4. ReapedInTime'
    BY SMT, <1>0, <2>1 DEF LeaseTypeOK, ReapedInTime
  <2> QED
    BY <2>2, <2>3, <2>4
<1>8. CASE Tick
  <2>1. LeaseTypeOK'
    BY SMT, <1>8 DEF Tick, LeaseTypeOK
  <2>2. Slack'
    BY SMT, <1>8 DEF Tick, LeaseTypeOK, Slack
  <2>3. ReapedInTime'
    BY SMT, <1>0, <1>8 DEF Tick, LeaseTypeOK, ReapedInTime
  <2> QED
    BY <2>1, <2>2, <2>3
<1>9. CASE UNCHANGED leaseVars
  BY <1>0, <1>9 DEF LeaseTypeOK, Slack, ReapedInTime
<1> QED
  BY <1>1, <1>2, <1>3, <1>4, <1>5, <1>6, <1>7, <1>8, <1>9 DEF LeaseNext

\* The slack and the reaper's deadline hold in every reachable state.
THEOREM LeaseInvariant == LeaseSpec => []LInv
  BY InitLInv, NextKeepsLInv, PTL DEF LeaseSpec

\* A row nobody renews outlives its lease by at most one reaper interval, and one
\* more for every pass that raised meanwhile, for every setting.
THEOREM OrphanBoundedTheorem == LeaseSpec => []OrphanBounded
<1>1. LInv => OrphanBounded
  BY SMT, GraceGrows DEF LInv, LeaseTypeOK, ReapedInTime, Grace, OrphanBounded
<1> QED
  BY <1>1, LeaseInvariant, PTL

\* For every setting start() accepts, the reaper takes no row from a process
\* whose heartbeat coroutine is alive.
THEOREM ReapsOnlySilentTheorem == LeaseSpec => ReapsOnlySilent
<1>1. ASSUME LInv, LeaseNext, row = "running", row' = "reaped"
      PROVE  beating = "ended"
  <2>1. left < 0 /\ UNCHANGED beating
    BY <1>1 DEF LeaseNext, StartWorker, ClaimTask, Beat, BeatRaises, HandlerEnds, WorkerDies, ReapPass, ReapRaises,
                Reaped, Tick
  <2> QED
    BY SMT, <1>1, <2>1, LeaseAssumption DEF LInv, LeaseTypeOK, Slack
<1>2. LInv /\ [LeaseNext]_leaseVars => [row = "running" /\ row' = "reaped" => beating = "ended"]_leaseVars
  BY <1>1
<1> QED
  BY <1>2, LeaseInvariant, PTL DEF LeaseSpec, ReapsOnlySilent

-----------------------------------------------------------------------------
(* Orders *)

\* Values a header may be given by a user.
UpdatesOK(u) ==
    /\ DOMAIN u \subseteq {"country", "original", "postal"}
    /\ "country" \in DOMAIN u => u["country"] \in Codes
    /\ "original" \in DOMAIN u => u["original"] \in Members \cup {NoValue}
    /\ "postal" \in DOMAIN u => u["postal"] \in Postals

\* A row that nobody has edited, or one whose countries go together.
MergedRow(header) == header.locked = FALSE /\ header.original # NoValue => header.country = "EU"

\* A header that was read as base, among the headers: it is still there, and
\* still locked if it was.
StillIn(headers, p, base) ==
    /\ p \in Packages /\ base \in Row /\ headers[p] \in Row
    /\ base.locked = TRUE => headers[p].locked = TRUE

\* The open batch of the sync: rows in it are locked for others, so that what it
\* has protected is what is there.
SyncOK ==
    sync.pc # "idle" =>
        /\ DOMAIN sync = {"pc", "list", "todo", "batch"}
        /\ sync.list \in SUBSET Members
        /\ sync.batch = [p \in Packages |-> sync.batch[p]]
        /\ \A p \in Packages : sync.batch[p] # NoRow =>
              /\ sync.batch[p] \in Row /\ MergedRow(sync.batch[p])
              /\ hdr[p] \in Row /\ hdr[p].locked = TRUE => Protected(sync.batch[p]) = Protected(hdr[p])

EditOK(e) ==
    edit[e].pc = "loaded" =>
        StillIn(hdr, edit[e].pkg, edit[e].base) /\ UpdatesOK(edit[e].updates)

ImportOK ==
    /\ imp.pc = "queued" => imp.book \in Workbooks
    /\ imp.pc \in {"parsed", "loaded"} => \A o \in DOMAIN imp.updates : UpdatesOK(imp.updates[o])
    /\ imp.pc = "parsed" => imp.orders = DOMAIN imp.updates
    /\ imp.pc = "loaded" => \A p \in imp.rows :
          StillIn(hdr, p, imp.base[p]) /\ OrderOf[p] \in DOMAIN imp.updates

\* The inductive invariant.
OrdersInv ==
    /\ hdr \in [Packages -> Row \cup {NoRow}]
    /\ remote \in [Packages -> Raws]
    /\ eu \in SUBSET Members
    /\ edit = [e \in Editors |-> edit[e]] /\ adm = [a \in Admins |-> adm[a]]
    /\ \A p \in Packages : hdr[p] \in Row => MergedRow(hdr[p])
    /\ SyncOK /\ ImportOK
    /\ \A e \in Editors : EditOK(e)
    /\ \A a \in Admins : adm[a].pc \in {"read", "mapping"} => adm[a].new \in SUBSET Members

-----------------------------------------------------------------------------

\* A row of the sync, inserted or updated, is well formed and its countries go
\* together; in a locked row the protected columns stay (Inserted, Updated).
LEMMA UpsertedRow ==
    ASSUME NEW raw \in Raws, NEW list \in SUBSET Members
    PROVE  /\ Inserted(raw, list) \in Row /\ MergedRow(Inserted(raw, list))
           /\ \A old \in Row :
                 /\ Updated(old, raw, list) \in Row
                 /\ MergedRow(old) => MergedRow(Updated(old, raw, list))
                 /\ old.locked = TRUE => Protected(Updated(old, raw, list)) = Protected(old)
<1>1. package_country(raw) \in Members \cup {"ZZ"}
  BY OrdersAssumption DEF package_country
<1>2. /\ apply_eu_mapping(package_country(raw), list) \in Codes
      /\ OriginalOf(package_country(raw), list) \in Members \cup {NoValue}
      /\ OriginalOf(package_country(raw), list) # NoValue
            => apply_eu_mapping(package_country(raw), list) = "EU"
  BY <1>1 DEF apply_eu_mapping, OriginalOf, Codes
<1>3. SeenItems(raw) \in SUBSET Items
  BY DEF SeenItems
<1>4. Inserted(raw, list) \in Row /\ MergedRow(Inserted(raw, list))
  BY <1>2, <1>3 DEF Inserted, Row, Postals, MergedRow
<1>5. ASSUME NEW old \in Row
      PROVE  /\ Updated(old, raw, list) \in Row
             /\ MergedRow(old) => MergedRow(Updated(old, raw, list))
             /\ old.locked = TRUE => Protected(Updated(old, raw, list)) = Protected(old)
  <2>1. ItemsAfter(old.items, raw) \in SUBSET Items
    BY <1>3 DEF ItemsAfter, Row
  <2> DEFINE new == [Inserted(raw, list) EXCEPT
                        !.postal = IF raw.postal = NoValue THEN old.postal ELSE raw.postal,
                        !.locked = old.locked, !.fields = old.fields,
                        !.items = ItemsAfter(old.items, raw)]
  <2>2. (IF raw.postal = NoValue THEN old.postal ELSE raw.postal) \in Postals
    BY DEF Row, Postals
  <2>3. new \in Row /\ new.locked = old.locked /\ new.country = Inserted(raw, list).country
           /\ new.original = Inserted(raw, list).original
    BY <2>1, <2>2, <1>4 DEF Row
  <2>4. old.locked = FALSE => MergedRow(new)
    BY <2>3, <1>2 DEF Inserted, MergedRow
  <2>5. Updated(old, raw, list) = protect_manual_edit_fields(old, new)
    BY DEF Updated
  <2> HIDE DEF new
  <2>6. CASE old.locked = TRUE
    <3>1. Updated(old, raw, list) =
             [new EXCEPT !.country = old.country, !.original = old.original, !.postal = old.postal]
      BY <2>5, <2>6 DEF protect_manual_edit_fields
    <3>2. QED
      BY <3>1, <2>3, <2>6 DEF Row, MergedRow, Protected
  <2>7. CASE old.locked = FALSE
    <3>1. Updated(old, raw, list) = new
      BY <2>5, <2>7 DEF protect_manual_edit_fields
    <3>2. QED
      BY <3>1, <2>3, <2>4, <2>7
  <2>8. QED
    BY <2>6, <2>7 DEF Row
<1>6. QED
  BY <1>4, <1>5

\* The backfill keeps a row well formed, its countries together and its lock
\* (_backfill_eu_mapping_for_columns).
LEMMA BackfilledRow ==
    ASSUME NEW header \in Row, NEW list \in SUBSET Members
    PROVE  /\ Backfilled(header, list) \in Row /\ MergedRow(Backfilled(header, list))
           /\ Backfilled(header, list).locked = header.locked
<1> DEFINE source == IF header.original # NoValue THEN header.original ELSE header.country
<1>1. source \in Codes
  BY DEF Row, Codes
<1> HIDE DEF source
<1>2. /\ apply_eu_mapping(source, list) \in Codes
      /\ OriginalOf(source, list) \in Members \cup {NoValue}
      /\ OriginalOf(source, list) # NoValue => apply_eu_mapping(source, list) = "EU"
  BY <1>1 DEF apply_eu_mapping, OriginalOf, Codes
<1>3. Backfilled(header, list) =
         [header EXCEPT !.country = apply_eu_mapping(source, list), !.original = OriginalOf(source, list)]
  BY DEF Backfilled, source
<1>4. QED
  BY <1>2, <1>3 DEF Row, MergedRow

\* What a flush does to one header.
Flushes(now, header) ==
    header \in Row /\ header.locked = TRUE /\ header.status = now.status /\ header.items = now.items

\* What an editor's session writes over a row it has loaded earlier: a locked row
\* with the status and the items that are there now (Flush).
LEMMA FlushedRow ==
    ASSUME NEW now \in Row, NEW base \in Row, NEW u, UpdatesOK(u),
           base.locked = TRUE => now.locked = TRUE
    PROVE  Flushes(now, Flush(now, base, apply_manual_updates(base, u)))
<1> DEFINE new == apply_manual_updates(base, u)
           header == Flush(now, base, new)
           Columns == {"country", "original", "postal", "status", "locked", "fields", "items"}
<1>1. DOMAIN now = Columns /\ DOMAIN base = Columns
  BY DEF Row
<1>2. new = [c \in Columns |-> IF c \in DOMAIN u THEN u[c]
                               ELSE IF c = "locked" THEN TRUE
                               ELSE IF c = "fields" THEN base.fields \cup (DOMAIN u \cap Fields)
                               ELSE base[c]]
  BY <1>1 DEF apply_manual_updates
<1>3. header = [c \in Columns |-> IF new[c] # base[c] THEN new[c] ELSE now[c]]
  BY <1>1 DEF Flush
<1>4. /\ "status" \notin DOMAIN u /\ "items" \notin DOMAIN u
      /\ "locked" \notin DOMAIN u /\ "fields" \notin DOMAIN u
  BY DEF UpdatesOK
<1> HIDE DEF new, header
<1>5. /\ new["country"] \in Codes /\ new["original"] \in Members \cup {NoValue}
      /\ new["postal"] \in Postals
  BY <1>2 DEF UpdatesOK, Row
<1>6. new["status"] = base["status"] /\ new["items"] = base["items"] /\ new["locked"] = TRUE
  BY <1>2, <1>4
<1>7. new["fields"] \in SUBSET Fields
  BY <1>2, <1>4 DEF Row
<1>8. header["country"] \in Codes /\ header["original"] \in Members \cup {NoValue}
         /\ header["postal"] \in Postals /\ header["fields"] \in SUBSET Fields
  BY <1>3, <1>5, <1>7 DEF Row
<1>9. header["status"] = now["status"] /\ header["items"] = now["items"]
  BY <1>3, <1>6
<1>10. header["locked"] = TRUE
  BY <1>3, <1>6 DEF Row
<1>11. header \in Row
  BY <1>3, <1>8, <1>9, <1>10 DEF Row
<1>12. QED
  BY <1>9, <1>10, <1>11 DEF header, new, Flushes

\* Headers move on: none is lost, none loses its lock, all stay merged.
Moves ==
    /\ hdr' \in [Packages -> Row \cup {NoRow}]
    /\ \A p \in Packages : hdr[p] \in Row =>
          hdr'[p] \in Row /\ (hdr[p].locked = TRUE => hdr'[p].locked = TRUE)
    /\ \A p \in Packages : hdr'[p] \in Row => MergedRow(hdr'[p])

\* The headers of an open batch stay what they are, and so does the batch.
BatchStays ==
    /\ sync' = sync
    /\ \A p \in Packages : sync.pc # "idle" /\ sync.batch[p] # NoRow => hdr'[p] = hdr[p]

\* A header that was read is there after any move.
LEMMA ReadStays ==
    ASSUME Moves
    PROVE  \A p, base : StillIn(hdr, p, base) => StillIn(hdr', p, base)
BY DEF Moves, StillIn

\* Requests that are not touched keep what they know of the headers.
LEMMA RequestsStay ==
    ASSUME OrdersInv, Moves
    PROVE  /\ \A e \in Editors : edit'[e] = edit[e] => EditOK(e)'
           /\ imp' = imp => ImportOK'
           /\ BatchStays => SyncOK'
<1>1. ASSUME NEW e \in Editors, edit'[e] = edit[e]
      PROVE  EditOK(e)'
  <2>1. edit[e].pc = "loaded" => StillIn(hdr', edit[e].pkg, edit[e].base) /\ UpdatesOK(edit[e].updates)
    BY ReadStays DEF OrdersInv, EditOK
  <2>2. QED
    BY <1>1, <2>1 DEF EditOK
<1>2. ASSUME imp' = imp
      PROVE  ImportOK'
  <2>1. imp.pc = "loaded" => \A p \in imp.rows :
           StillIn(hdr', p, imp.base[p]) /\ OrderOf[p] \in DOMAIN imp.updates
    BY ReadStays DEF OrdersInv, ImportOK
  <2>2. QED
    BY <1>2, <2>1 DEF OrdersInv, ImportOK
<1>3. ASSUME BatchStays
      PROVE  SyncOK'
  <2>1. SUFFICES ASSUME sync.pc # "idle" PROVE SyncOK'
    BY <1>3 DEF SyncOK, BatchStays
  <2>2. QED
    BY <1>3, <2>1 DEF SyncOK, BatchStays, OrdersInv
<1>4. QED
  BY <1>1, <1>2, <1>3

\* Where no header is written, all of them move on as they are.
LEMMA NothingMoves ==
    ASSUME OrdersInv, hdr' = hdr
    PROVE  Moves
BY DEF OrdersInv, Moves

\* A step that writes no header keeps the sync's batch in order if it keeps the
\* batch, or drops it.
LEMMA BatchKept ==
    ASSUME OrdersInv, hdr' = hdr, sync' = sync \/ sync' = Idle
    PROVE  SyncOK'
<1>1. CASE sync' = Idle
  BY <1>1 DEF SyncOK, Idle
<1>2. CASE sync' = sync
  BY <1>2, NothingMoves, RequestsStay DEF BatchStays
<1>3. QED
  BY <1>1, <1>2

\* The parts of the invariant that a step of the sync leaves alone.
LEMMA SyncLeaves ==
    ASSUME OrdersInv, Moves, SyncOK', UNCHANGED <<eu, remote, edit, imp, adm>>
    PROVE  OrdersInv'
<1>1. ImportOK' /\ \A e \in Editors : EditOK(e)'
  BY RequestsStay
<1>2. QED
  BY <1>1 DEF OrdersInv, Moves

\* A package that is pulled joins the open batch (_upsert_package_ship_order).
LEMMA UpsertOK ==
    ASSUME OrdersInv, NEW p \in Packages, SyncUpsert(p)
    PROVE  OrdersInv'
<1> DEFINE header == IF Exists(p) THEN Updated(hdr[p], remote[p], sync.list)
                               ELSE Inserted(remote[p], sync.list)
           new == IF Skipped(remote[p]) THEN NoRow ELSE header
<1>1. /\ sync.pc = "pulling" /\ UNCHANGED <<eu, hdr, remote, edit, imp, adm>>
      /\ sync' = [sync EXCEPT !.todo = @ \ {p}, !.batch[p] = new]
  BY DEF SyncUpsert
<1>2. remote[p] \in Raws /\ sync.list \in SUBSET Members /\ (Exists(p) <=> hdr[p] \in Row)
  BY <1>1, OrdersAssumption DEF OrdersInv, SyncOK, Exists
<1>3. /\ header \in Row /\ MergedRow(header)
      /\ hdr[p] \in Row /\ hdr[p].locked = TRUE => Protected(header) = Protected(hdr[p])
  BY <1>2, UpsertedRow DEF OrdersInv
<1> HIDE DEF header
<1>4. new # NoRow => /\ new \in Row /\ MergedRow(new)
                     /\ hdr[p] \in Row /\ hdr[p].locked = TRUE => Protected(new) = Protected(hdr[p])
  BY <1>3
<1> HIDE DEF new
<1>5. SyncOK /\ DOMAIN sync = {"pc", "list", "todo", "batch"}
         /\ sync.batch = [q \in Packages |-> sync.batch[q]]
  BY <1>1 DEF OrdersInv, SyncOK
<1>6. /\ DOMAIN sync' = {"pc", "list", "todo", "batch"}
      /\ sync'.pc = "pulling" /\ sync'.list = sync.list
      /\ sync'.batch = [sync.batch EXCEPT ![p] = new]
  BY <1>1, <1>5
<1>7. /\ sync'.batch = [q \in Packages |-> sync'.batch[q]]
      /\ \A q \in Packages : sync'.batch[q] = IF q = p THEN new ELSE sync.batch[q]
  BY <1>5, <1>6
<1>8. SyncOK'
  BY <1>1, <1>2, <1>4, <1>5, <1>6, <1>7 DEF SyncOK
<1>9. QED
  BY <1>1, <1>8, NothingMoves, SyncLeaves

\* A commit of a batch: locked headers keep their protected columns, and the
\* invariant holds again.
LEMMA CommitOK ==
    ASSUME OrdersInv, SyncCommit
    PROVE  /\ OrdersInv'
           /\ \A p \in Packages : Exists(p) /\ hdr[p].locked => Protected(hdr'[p]) = Protected(hdr[p])
<1>1. /\ sync.pc = "pulling" /\ UNCHANGED <<eu, remote, edit, imp, adm>>
      /\ hdr' = [p \in Packages |-> IF sync.batch[p] # NoRow THEN sync.batch[p] ELSE hdr[p]]
      /\ sync' = [sync EXCEPT !.batch = [p \in Packages |-> NoRow]]
  BY DEF SyncCommit, Batch
<1>2. /\ DOMAIN sync = {"pc", "list", "todo", "batch"} /\ sync.list \in SUBSET Members
      /\ \A p \in Packages : sync.batch[p] # NoRow =>
              /\ sync.batch[p] \in Row /\ MergedRow(sync.batch[p])
              /\ hdr[p] \in Row /\ hdr[p].locked = TRUE => Protected(sync.batch[p]) = Protected(hdr[p])
  BY <1>1 DEF OrdersInv, SyncOK
<1>3. \A p \in Packages : hdr[p] \in Row /\ hdr[p].locked = TRUE => Protected(hdr'[p]) = Protected(hdr[p])
  BY <1>1, <1>2
<1>4. hdr' \in [Packages -> Row \cup {NoRow}] /\ \A p \in Packages : hdr[p] \in Row => hdr'[p] \in Row
  BY <1>1, <1>2 DEF OrdersInv
<1>5. \A p \in Packages : hdr'[p] \in Row => MergedRow(hdr'[p])
  BY <1>1, <1>2 DEF OrdersInv
<1>6. \A p \in Packages : hdr[p] \in Row /\ hdr[p].locked = TRUE => hdr'[p].locked = TRUE
  BY <1>3 DEF Protected
<1>7. Moves
  BY <1>4, <1>5, <1>6 DEF Moves
<1>8. SyncOK'
  <2>1. /\ DOMAIN sync' = {"pc", "list", "todo", "batch"} /\ sync'.list = sync.list
        /\ sync'.batch = [p \in Packages |-> NoRow]
    BY <1>1, <1>2
  <2>2. QED
    BY <1>2, <2>1 DEF SyncOK
<1>9. \A p \in Packages : Exists(p) /\ hdr[p].locked => hdr[p] \in Row /\ hdr[p].locked = TRUE
  BY DEF OrdersInv, Exists, Row
<1>10. QED
  BY <1>1, <1>3, <1>7, <1>8, <1>9, SyncLeaves

\* What the sync refreshes stays as it is.
KeepsRefresh ==
    \A p \in Packages : Exists(p) => hdr'[p].status = hdr[p].status /\ hdr'[p].items = hdr[p].items

\* The same for a header that an editor has read.
LEMMA FlushedHeader ==
    \A p, base, u : StillIn(hdr, p, base) /\ UpdatesOK(u) =>
        Flushes(hdr[p], Flush(hdr[p], base, apply_manual_updates(base, u)))
<1> SUFFICES ASSUME NEW p, NEW base, NEW u, StillIn(hdr, p, base), UpdatesOK(u)
             PROVE  Flushes(hdr[p], Flush(hdr[p], base, apply_manual_updates(base, u)))
  OBVIOUS
<1>1. hdr[p] \in Row /\ base \in Row /\ (base.locked = TRUE => hdr[p].locked = TRUE)
  BY DEF StillIn
<1>2. QED
  BY <1>1, FlushedRow

\* Headers that are flushed, or left alone, move on, and keep what was refreshed.
LEMMA FlushesMove ==
    ASSUME OrdersInv, DOMAIN hdr' = Packages, hdr' = [p \in Packages |-> hdr'[p]],
           \A p \in Packages : hdr'[p] = hdr[p] \/ Flushes(hdr[p], hdr'[p])
    PROVE  Moves /\ KeepsRefresh
<1>1. \A p \in Packages : hdr'[p] \in Row \cup {NoRow}
  BY DEF OrdersInv, Flushes
<1>2. \A p \in Packages : hdr[p] \in Row =>
         hdr'[p] \in Row /\ (hdr[p].locked = TRUE => hdr'[p].locked = TRUE)
  BY DEF Flushes
<1>3. \A p \in Packages : hdr'[p] \in Row => MergedRow(hdr'[p])
  BY SMT DEF OrdersInv, Flushes, MergedRow
<1>4. KeepsRefresh
  BY DEF KeepsRefresh, Flushes
<1>5. QED
  BY <1>1, <1>2, <1>3, <1>4 DEF Moves

\* The commit of a patch (patch_order_header).
LEMMA PatchOK ==
    ASSUME OrdersInv, NEW e \in Editors, PatchCommit(e)
    PROVE  OrdersInv' /\ KeepsRefresh
<1> DEFINE p == edit[e].pkg
           base == edit[e].base
           header == Flush(hdr[p], base, apply_manual_updates(base, edit[e].updates))
<1>1. /\ edit[e].pc = "loaded" /\ Free(p) /\ UNCHANGED <<eu, remote, sync, imp, adm>>
      /\ hdr' = [hdr EXCEPT ![p] = header]
      /\ edit' = [edit EXCEPT ![e] = Idle]
  BY DEF PatchCommit
<1>2. StillIn(hdr, p, base) /\ UpdatesOK(edit[e].updates)
  BY <1>1 DEF OrdersInv, EditOK
<1>3. Flushes(hdr[p], header)
  BY <1>2, FlushedHeader
<1>4. p \in Packages
  BY <1>2 DEF StillIn
<1> HIDE DEF header, p, base
<1>5. /\ hdr' = [q \in Packages |-> hdr'[q]] /\ DOMAIN hdr' = Packages
      /\ \A q \in Packages : hdr'[q] = IF q = p THEN header ELSE hdr[q]
  BY <1>1, <1>4 DEF OrdersInv
<1>6. Moves /\ KeepsRefresh
  BY <1>3, <1>5, FlushesMove
<1>7. BatchStays
  BY <1>1, <1>5 DEF BatchStays, Free
<1>8. SyncOK' /\ ImportOK'
  BY <1>1, <1>6, <1>7, RequestsStay
<1>9. ASSUME NEW f \in Editors
      PROVE  EditOK(f)'
  <2>1. CASE f = e
    BY <1>1, <2>1 DEF OrdersInv, EditOK, Idle
  <2>2. CASE f # e
    <3>1. edit'[f] = edit[f]
      BY SMT, <1>1, <2>2
    <3>2. QED
      BY <3>1, <1>6, RequestsStay
  <2>3. QED
    BY <2>1, <2>2
<1>10. edit' = [f \in Editors |-> edit'[f]]
  BY <1>1 DEF OrdersInv
<1>11. QED
  BY <1>1, <1>6, <1>8, <1>9, <1>10 DEF OrdersInv, Moves

\* The commit of an import (apply_parsed_order_info_match).
LEMMA ImportCommitOK ==
    ASSUME OrdersInv, ImportCommit
    PROVE  OrdersInv' /\ KeepsRefresh
<1> DEFINE header(p) == Flush(hdr[p], imp.base[p],
                           apply_manual_updates(imp.base[p], imp.updates[OrderOf[p]]))
<1>1. /\ imp.pc = "loaded" /\ \A p \in imp.rows : Free(p)
      /\ UNCHANGED <<eu, remote, sync, edit, adm>> /\ imp' = Idle
      /\ hdr' = [p \in Packages |-> IF p \in imp.rows THEN header(p) ELSE hdr[p]]
  BY DEF ImportCommit
<1>2. ASSUME NEW p \in imp.rows
      PROVE  Flushes(hdr[p], header(p))
  <2>1. StillIn(hdr, p, imp.base[p]) /\ UpdatesOK(imp.updates[OrderOf[p]])
    BY <1>1 DEF OrdersInv, ImportOK
  <2>2. QED
    BY <2>1, FlushedHeader
<1> HIDE DEF header
<1>3. /\ hdr' = [p \in Packages |-> hdr'[p]] /\ DOMAIN hdr' = Packages
      /\ \A p \in Packages : hdr'[p] = IF p \in imp.rows THEN header(p) ELSE hdr[p]
  BY <1>1
<1>4. Moves /\ KeepsRefresh
  BY <1>2, <1>3, FlushesMove
<1>5. BatchStays
  BY <1>1, <1>3 DEF BatchStays, Free
<1>6. SyncOK' /\ \A e \in Editors : EditOK(e)'
  BY <1>1, <1>4, <1>5, RequestsStay
<1>7. ImportOK'
  BY <1>1 DEF ImportOK, Idle
<1>8. QED
  BY <1>1, <1>4, <1>6, <1>7 DEF OrdersInv, Moves

\* The commit of a new list of EU members, with its backfill (patch_global).
LEMMA EuCommitOK ==
    ASSUME OrdersInv, NEW a \in Admins, EuCommit(a)
    PROVE  OrdersInv'
<1> DEFINE list == adm[a].new
           mapped == [p \in Packages |->
                         IF p \in adm[a].found /\ Exists(p) THEN Backfilled(hdr[p], list) ELSE hdr[p]]
<1>1. /\ adm[a].pc = "mapping" /\ eu' = list /\ adm' = [adm EXCEPT ![a] = Idle]
      /\ UNCHANGED <<remote, sync, edit, imp>>
      /\ hdr' = mapped /\ \A p \in Packages : mapped[p] # hdr[p] => Free(p)
  BY DEF EuCommit
<1>2. list \in SUBSET Members
  BY <1>1 DEF OrdersInv
<1>3. ASSUME NEW p \in Packages
      PROVE  \/ hdr[p] = NoRow /\ mapped[p] = NoRow
             \/ /\ hdr[p] \in Row /\ mapped[p] \in Row /\ MergedRow(mapped[p])
                /\ mapped[p].locked = hdr[p].locked
  BY <1>2, BackfilledRow DEF OrdersInv, Exists
<1>4. mapped = [p \in Packages |-> mapped[p]]
  OBVIOUS
<1> HIDE DEF mapped
<1>5. Moves
  BY <1>1, <1>3, <1>4, OrdersAssumption DEF Moves
<1>6. BatchStays
  BY <1>1 DEF BatchStays, Free
<1>7. SyncOK' /\ ImportOK' /\ \A e \in Editors : EditOK(e)'
  BY <1>1, <1>5, <1>6, RequestsStay
<1>8. /\ adm' = [b \in Admins |-> adm'[b]]
      /\ \A b \in Admins : adm'[b].pc \in {"read", "mapping"} => adm'[b].new \in SUBSET Members
  BY <1>1 DEF OrdersInv, Idle
<1>9. QED
  BY <1>1, <1>2, <1>5, <1>7, <1>8 DEF OrdersInv, Moves

\* A parsed workbook yields updates a header can take (_normalize_update_values).
LEMMA ParseOK ==
    ASSUME OrdersInv, ImportParse
    PROVE  ImportOK'
<1> DEFINE book == imp.book
           orders == {book[i].order : i \in DOMAIN book}
           line(o) == CHOOSE i \in DOMAIN book : book[i].order = o
<1>1. /\ imp.pc = "queued" /\ ~ParseErrors(book)
      /\ imp' = [pc |-> "parsed", task |-> imp.task, orders |-> orders,
                 updates |-> [o \in orders |-> ImportUpdates(book[line(o)], eu)]]
  BY DEF ImportParse
<1>2. \A i \in DOMAIN book : book[i].country \in Codes /\ book[i].postal \in Postals
  BY SMT, <1>1, OrdersAssumption DEF OrdersInv, ImportOK, ParseErrors
<1>3. ASSUME NEW i \in DOMAIN book
      PROVE  UpdatesOK(ImportUpdates(book[i], eu))
  BY <1>2 DEF UpdatesOK, ImportUpdates, apply_eu_mapping, OriginalOf, OrdersInv, Codes
<1>4. \A o \in orders : line(o) \in DOMAIN book
  OBVIOUS
<1> HIDE DEF line, book
<1>5. /\ imp'.pc = "parsed" /\ imp'.orders = orders /\ DOMAIN imp'.updates = orders
      /\ \A o \in orders : imp'.updates[o] = ImportUpdates(book[line(o)], eu)
  BY <1>1
<1>6. \A o \in orders : UpdatesOK(imp'.updates[o])
  BY <1>3, <1>4, <1>5
<1>7. QED
  BY <1>5, <1>6 DEF ImportOK

\* The rows an import loads are there.
LEMMA LoadOK ==
    ASSUME OrdersInv, ImportLoad
    PROVE  ImportOK'
<1>1. /\ imp.pc = "parsed" /\ hdr' = hdr
      /\ imp' = [pc |-> "loaded", task |-> imp.task, updates |-> imp.updates, base |-> hdr,
                 rows |-> {p \in Packages : Exists(p) /\ OrderOf[p] \in imp.orders}]
  BY DEF ImportLoad
<1>2. imp.orders = DOMAIN imp.updates /\ \A o \in DOMAIN imp.updates : UpdatesOK(imp.updates[o])
  BY <1>1 DEF OrdersInv, ImportOK
<1>3. \A p \in Packages : Exists(p) => StillIn(hdr, p, hdr[p])
  BY DEF OrdersInv, StillIn, Exists
<1>4. QED
  BY <1>1, <1>2, <1>3 DEF ImportOK

\* The inductive invariant holds at first.
LEMMA OrdersFirst == OrdersInit => OrdersInv
<1> SUFFICES ASSUME OrdersInit PROVE OrdersInv
  OBVIOUS
<1>1. /\ hdr \in [Packages -> Row \cup {NoRow}] /\ remote \in [Packages -> Raws] /\ eu \in SUBSET Members
      /\ edit = [e \in Editors |-> edit[e]] /\ adm = [a \in Admins |-> adm[a]]
  BY OrdersAssumption DEF OrdersInit
<1>2. \A p \in Packages : hdr[p] \notin Row
  BY OrdersAssumption DEF OrdersInit
<1>3. SyncOK /\ ImportOK /\ \A e \in Editors : EditOK(e)
  BY DEF OrdersInit, SyncOK, ImportOK, EditOK, Idle
<1>4. QED
  BY <1>1, <1>2, <1>3 DEF OrdersInv, OrdersInit, Idle

\* Every step keeps it.
LEMMA OrdersStep == OrdersInv /\ [OrdersNext]_ordersVars => OrdersInv'
<1> SUFFICES ASSUME OrdersInv, [OrdersNext]_ordersVars PROVE OrdersInv'
  OBVIOUS
<1>1. ASSUME NEW p \in Packages, Ship(p) PROVE OrdersInv'
  <2>1. remote' \in [Packages -> Raws] /\ UNCHANGED <<eu, hdr, sync, edit, imp, adm>>
    BY <1>1 DEF Ship, OrdersInv
  <2>2. SyncOK' /\ ImportOK' /\ \A e \in Editors : EditOK(e)'
    BY <2>1, NothingMoves, RequestsStay DEF BatchStays
  <2>3. QED
    BY <2>1, <2>2 DEF OrdersInv
<1>2. CASE SyncStart
  <2>1. SyncOK'
    BY <1>2 DEF SyncStart, SyncOK, OrdersInv
  <2>2. QED
    BY <1>2, <2>1, NothingMoves, SyncLeaves DEF SyncStart
<1>3. CASE SyncCleanup
  <2>1. /\ sync.pc = "cleanup" /\ sync' = [sync EXCEPT !.pc = "pulling"]
        /\ UNCHANGED <<eu, hdr, remote, edit, imp, adm>>
    BY <1>3 DEF SyncCleanup
  <2>2. SyncOK'
    BY <2>1 DEF SyncOK, OrdersInv
  <2>3. QED
    BY <2>1, <2>2, NothingMoves, SyncLeaves
<1>4. CASE SyncCommit
  BY <1>4, CommitOK
<1>5. CASE SyncDone \/ SyncNoShops \/ SyncFail
  <2>1. sync' = Idle /\ UNCHANGED <<eu, hdr, remote, edit, imp, adm>>
    BY <1>5 DEF SyncDone, SyncNoShops, SyncFail
  <2>2. QED
    BY <2>1, BatchKept, NothingMoves, SyncLeaves
<1>6. ASSUME NEW p \in Packages, SyncUpsert(p) PROVE OrdersInv'
  BY <1>6, UpsertOK
<1>7. ASSUME NEW e \in Editors, NEW p \in Packages, PatchRead(e, p) PROVE OrdersInv'
  <2>1. PICK u \in Patches :
           edit' = [edit EXCEPT ![e] = [pc |-> "loaded", pkg |-> p, base |-> hdr[p], updates |-> u]]
    BY <1>7 DEF PatchRead
  <2>2. Exists(p) /\ UNCHANGED <<eu, hdr, remote, sync, imp, adm>>
    BY <1>7 DEF PatchRead
  <2>3. UpdatesOK(u)
    <3>1. /\ DOMAIN u \subseteq Fields
          /\ "country" \in DOMAIN u => u["country"] \in Codes
          /\ "postal" \in DOMAIN u => u["postal"] \in Postals
      BY OrdersAssumption
    <3>2. "original" \notin DOMAIN u /\ DOMAIN u \subseteq {"country", "original", "postal"}
      BY <3>1 DEF Fields
    <3>3. QED
      BY <3>1, <3>2 DEF UpdatesOK
  <2>4. StillIn(hdr', p, hdr[p])
    BY <2>2 DEF OrdersInv, Exists, StillIn
  <2>5. SyncOK' /\ ImportOK'
    BY <2>2, NothingMoves, RequestsStay DEF BatchStays
  <2>6. ASSUME NEW f \in Editors PROVE EditOK(f)'
    <3>1. CASE f = e
      BY <2>1, <2>3, <2>4, <3>1 DEF EditOK, OrdersInv
    <3>2. CASE f # e
      <4>1. edit'[f] = edit[f]
        BY SMT, <2>1, <3>2
      <4>2. QED
        BY <4>1, <2>2, NothingMoves, RequestsStay
    <3>3. QED
      BY <3>1, <3>2
  <2>7. edit' = [f \in Editors |-> edit'[f]]
    BY <2>1 DEF OrdersInv
  <2>8. QED
    BY <2>2, <2>5, <2>6, <2>7 DEF OrdersInv
<1>8. ASSUME NEW e \in Editors, PatchCommit(e) PROVE OrdersInv'
  BY <1>8, PatchOK
<1>9. CASE Upload \/ ImportParse \/ ImportRefused \/ ImportLoad \/ ImportFail
  <2>1. UNCHANGED <<eu, hdr, remote, sync, edit, adm>>
    BY <1>9 DEF Upload, ImportParse, ImportRefused, ImportLoad, ImportFail
  <2>2. SyncOK' /\ \A e \in Editors : EditOK(e)'
    BY <2>1, NothingMoves, RequestsStay DEF BatchStays
  <2>3. CASE ImportRefused \/ ImportFail
    <3>1. imp' = Idle
      BY <2>3 DEF ImportRefused, ImportFail
    <3>2. ImportOK'
      BY <3>1 DEF ImportOK, Idle
    <3>3. QED
      BY <2>1, <2>2, <3>2 DEF OrdersInv
  <2>4. CASE Upload
    <3>1. imp'.pc = "queued" /\ imp'.book \in Workbooks
      BY SMT, <2>4 DEF Upload
    <3>2. ImportOK'
      BY <3>1 DEF ImportOK
    <3>3. QED
      BY <2>1, <2>2, <3>2 DEF OrdersInv
  <2>5. CASE ImportParse \/ ImportLoad
    BY <2>1, <2>2, <2>5, ParseOK, LoadOK DEF OrdersInv
  <2>6. QED
    BY <1>9, <2>3, <2>4, <2>5
<1>10. CASE ImportCommit
  BY <1>10, ImportCommitOK
<1>11. ASSUME NEW a \in Admins, EuRead(a) PROVE OrdersInv'
  <2>1. UNCHANGED <<eu, hdr, remote, sync, edit, imp>>
    BY <1>11 DEF EuRead
  <2>2. PICK list \in EuLists : adm' = [adm EXCEPT ![a] = [pc |-> "read", old |-> eu, new |-> list]]
    BY <1>11 DEF EuRead
  <2>3. SyncOK' /\ ImportOK' /\ \A e \in Editors : EditOK(e)'
    BY <2>1, NothingMoves, RequestsStay DEF BatchStays
  <2>4. /\ adm' = [b \in Admins |-> adm'[b]]
        /\ \A b \in Admins : adm'[b].pc \in {"read", "mapping"} => adm'[b].new \in SUBSET Members
    BY <2>2, OrdersAssumption DEF OrdersInv
  <2>5. QED
    BY <2>1, <2>3, <2>4 DEF OrdersInv
<1>12. ASSUME NEW a \in Admins, EuUpdate(a) PROVE OrdersInv'
  <2>1. /\ UNCHANGED <<eu, hdr, remote, sync, edit, imp>> /\ adm[a].pc = "read"
        /\ \E found : adm' = [adm EXCEPT ![a] = [pc |-> "mapping", new |-> adm[a].new, found |-> found]]
    BY <1>12 DEF EuUpdate
  <2>2. PICK found : adm' = [adm EXCEPT ![a] = [pc |-> "mapping", new |-> adm[a].new, found |-> found]]
    BY <2>1
  <2>3. SyncOK' /\ ImportOK' /\ \A e \in Editors : EditOK(e)'
    BY <2>1, NothingMoves, RequestsStay DEF BatchStays
  <2>4. /\ adm' = [b \in Admins |-> adm'[b]]
        /\ \A b \in Admins : adm'[b].pc \in {"read", "mapping"} => adm'[b].new \in SUBSET Members
    BY <2>1, <2>2 DEF OrdersInv
  <2>5. QED
    BY <2>1, <2>3, <2>4 DEF OrdersInv
<1>13. ASSUME NEW a \in Admins, EuCommit(a) PROVE OrdersInv'
  BY <1>13, EuCommitOK
<1>14. CASE UNCHANGED ordersVars
  <2>1. UNCHANGED <<eu, hdr, remote, sync, edit, imp, adm>>
    BY <1>14 DEF ordersVars
  <2>2. QED
    BY <2>1, BatchKept, NothingMoves, SyncLeaves
<1>15. QED
  BY <1>1, <1>2, <1>3, <1>4, <1>5, <1>6, <1>7, <1>8, <1>9, <1>10, <1>11, <1>12, <1>13, <1>14
  DEF OrdersNext

\* The headers, the open batch of the sync and the requests fit together in every
\* state (order_list.py, order_edit.py, config.py).
THEOREM OrdersInvariant == OrdersSpec => []OrdersInv
BY OrdersFirst, OrdersStep, PTL DEF OrdersSpec

\* In a header nobody has edited, original_country_code is set only where
\* country_code is EU, whatever lists of members the sync and the backfill work
\* with (order_list.py, _backfill_eu_mapping_for_columns).
THEOREM UnlockedStaysMerged == OrdersSpec => []UnlockedMerged
<1>1. OrdersInv => UnlockedMerged
  BY DEF OrdersInv, UnlockedMerged, MergedRow, Exists, Row
<1>2. QED
  BY <1>1, OrdersInvariant, PTL

\* A commit of the sync keeps the protected columns of every header that is locked
\* at that moment (_protect_manual_edit_fields).
THEOREM SyncKeepsManualEdits == OrdersSpec => SyncKeepsEdits
<1>1. OrdersInv /\ [OrdersNext]_ordersVars =>
         [SyncCommit => \A p \in Packages :
             Exists(p) /\ hdr[p].locked => Protected(hdr'[p]) = Protected(hdr[p])]_ordersVars
  BY CommitOK
<1>2. QED
  BY <1>1, OrdersInvariant, PTL DEF OrdersSpec, SyncKeepsEdits

\* The commit of a patch or of an import brings no status and no items back that a
\* sync has replaced since the header was loaded (_apply_manual_updates).
THEOREM ManualEditsKeepRefresh == OrdersSpec => EditsKeepRefresh
<1>1. OrdersInv /\ [OrdersNext]_ordersVars =>
         [Edit => \A p \in Packages :
             Exists(p) => hdr'[p].status = hdr[p].status /\ hdr'[p].items = hdr[p].items]_ordersVars
  BY PatchOK, ImportCommitOK DEF Edit, KeepsRefresh
<1>2. QED
  BY <1>1, OrdersInvariant, PTL DEF OrdersSpec, EditsKeepRefresh
=============================================================================
