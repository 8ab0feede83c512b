----------------------------- MODULE Scheduler -----------------------------
(***************************************************************************)
(* tasks/scheduler.py: each process has a global _scheduler with the       *)
(* intervals it was built for (_scheduler_signature).  setup_scheduler,    *)
(* scheduler_status and reload_scheduler are coroutines that give way      *)
(* while they read global_config; what they do between two reads is one    *)
(* step.  An object they have got hold of may have been replaced since.    *)
(***************************************************************************)
EXTENDS GlobalConfig

CONSTANTS
    Procs,            \* processes: backend, worker, scheduler or one for all
    SchedulerProcs,   \* those with process_enable_scheduler
    Calls,            \* coroutines that may be under way
    MaxObjects,       \* bound on the schedulers in memory
    NoObject, NoProc

VARIABLES
    up,           \* processes that run
    obj,          \* AsyncIOScheduler objects
    current,      \* _scheduler of each process
    call          \* coroutines

schedulerVars == <<up, obj, current, call>>

\* SchedulerRuntimeConfig.
Runtime(row) == [f \in SCHEDULER_FIELDS |-> row[f]]

Objects == 1..MaxObjects

ASSUME SchedulerAssumption ==
    SchedulerProcs \subseteq Procs /\ NoProc \notin Procs /\ MaxObjects \in Nat /\ NoObject \notin Objects

\* History: shared is set on objects that were started while the coroutine that did so
\* was not alone, alone is reset when another coroutine of the process overlaps.
Dropped == [running |-> FALSE, sync_interval_minutes |-> 0, proc |-> NoProc, shared |-> FALSE]
Returned == [pc |-> "none", proc |-> NoProc, kind |-> "none", read |-> Runtime(FirstConfig),
             got |-> NoObject, alone |-> TRUE]

\* Objects that nothing refers to and that do not run are collected.
Collected(objs, cur, calls) ==
    [o \in Objects |->
        IF objs[o].running \/ (\E p \in Procs : cur[p] = o) \/ (\E c \in Calls : calls[c].got = o)
        THEN objs[o] ELSE Dropped]

Becomes(objs, cur, calls) ==
    /\ obj' = Collected(objs, cur, calls)
    /\ current' = cur
    /\ call' = calls

\* The processes are up, and lifespan has started the schedulers.
SchedulerInit ==
    LET started(o) == CHOOSE p \in SchedulerProcs : current[p] = o
    IN  /\ up = Procs
        /\ current \in {f \in [Procs -> 1..Cardinality(SchedulerProcs) \cup {NoObject}] :
                          /\ \A p \in Procs : f[p] = NoObject <=> p \notin SchedulerProcs
                          /\ \A p, q \in SchedulerProcs : f[p] = f[q] => p = q}
        /\ obj = [o \in Objects |->
               IF \E p \in Procs : current[p] = o
               THEN [running |-> FirstConfig.scheduler_enabled, proc |-> started(o),
                     sync_interval_minutes |-> FirstConfig.sync_interval_minutes, shared |-> FALSE]
               ELSE Dropped]
        /\ call = [c \in Calls |-> Returned]

UnderWay(p) == {c \in Calls : call[c].pc # "none" /\ call[c].proc = p}

MayCall(c, p) ==
    /\ p \in up
    /\ call[c].pc = "none" /\ c = CHOOSE free \in Calls : call[free].pc = "none"

\* A coroutine at the read of setup_scheduler.
Called(c, p, kind) ==
    [d \in Calls |->
        IF d = c THEN [Returned EXCEPT !.pc = "setup", !.kind = kind, !.proc = p,
                                       !.alone = UnderWay(p) = {}]
        ELSE [call[d] EXCEPT !.alone = @ /\ call[d].proc # p]]

\* GET /api/sync/scheduler; /readyz in the processes with a scheduler.
scheduler_status(c, p) ==
    /\ MayCall(c, p)
    /\ Input
    /\ call' = Called(c, p, "status")
    /\ UNCHANGED <<up, obj, current, cfg>>

\* _load_scheduler_config has its row, and the coroutine waits for its turn.
LoadConfig(c) ==
    /\ call[c].pc \in {"setup", "enabled", "answer"}
    /\ call' = [call EXCEPT ![c].read = Runtime(cfg),
                            ![c].pc = IF @ = "setup" THEN "build"
                                      ELSE IF @ = "enabled" THEN "start" ELSE "return"]
    /\ UNCHANGED <<up, obj, current, cfg, used>>

\* The database is not available: the exception ends the coroutine.
LoadFails(c) ==
    /\ call[c].pc \in {"setup", "enabled", "answer"}
    /\ Input
    /\ Becomes(obj, current, [call EXCEPT ![c] = Returned])
    /\ UNCHANGED <<up, cfg>>

\* Mutant: a reload keeps a scheduler built for the same intervals, too.
KeepsAlways(c) ==
    LET o == current[call[c].proc]
    IN  /\ o # NoObject
        /\ obj[o].sync_interval_minutes = call[c].read.sync_interval_minutes

\* Without force_reload a scheduler built for the same intervals is kept.
Keeps(c) ==
    LET o == current[call[c].proc]
    IN  /\ o # NoObject
        /\ call[c].kind # "reload"
        /\ obj[o].sync_interval_minutes = call[c].read.sync_interval_minutes

\* Mutant: the running scheduler is forgotten without being shut down.
ShutdownForgets(objs, o) == objs

\* shutdown_scheduler(clear=True), of the current object only.
shutdown_scheduler(objs, o) ==
    IF o = NoObject THEN objs ELSE [objs EXCEPT ![o].running = FALSE]

\* setup_scheduler: a new object, not started, takes the place of the old one.
setup_scheduler(c) ==
    LET p == call[c].proc
        next == IF call[c].kind = "reload" THEN "enabled" ELSE "answer"
    IN  /\ call[c].pc = "build"
        /\ UNCHANGED <<up, cfg, used>>
        /\ IF Keeps(c)
           THEN Becomes(obj, current, [call EXCEPT ![c].pc = next, ![c].got = current[p]])
           ELSE \E new \in {o \in Objects : obj[o].proc = NoProc} :
                  /\ \A o \in Objects : obj[o].proc = NoProc => new <= o
                  /\ Becomes([shutdown_scheduler(obj, current[p]) EXCEPT ![new] =
                                 [running |-> FALSE, proc |-> p, shared |-> FALSE,
                                  sync_interval_minutes |-> call[c].read.sync_interval_minutes]],
                             [current EXCEPT ![p] = new],
                             [call EXCEPT ![c].pc = next, ![c].got = new])

\* reload_scheduler starts the object it has built and goes on with scheduler_status.
StartIfEnabled(c) ==
    /\ call[c].pc = "start"
    /\ Becomes([obj EXCEPT ![call[c].got].running = @ \/ call[c].read.scheduler_enabled,
                           ![call[c].got].shared = ~call[c].alone],
               current,
               [call EXCEPT ![c].pc = "setup", ![c].kind = "reloaded"])
    /\ UNCHANGED <<up, cfg, used>>

\* The answer: enabled as read, running as the object is.
Answer(c) ==
    /\ call[c].pc = "return"
    /\ Becomes(obj, current, [call EXCEPT ![c] = Returned])
    /\ UNCHANGED <<up, cfg, used>>

\* A process dies with its schedulers and coroutines, or stops: shutdown(clear=True).
Stop(p) ==
    /\ p \in up
    /\ Input
    /\ up' = up \ {p}
    /\ Becomes([o \in Objects |-> IF obj[o].proc = p THEN Dropped ELSE obj[o]],
               [current EXCEPT ![p] = NoObject],
               [c \in Calls |-> IF call[c].proc = p THEN Returned ELSE call[c]])
    /\ UNCHANGED cfg

\* lifespan: only a process that is to schedule starts its scheduler.
Boot(c, p) ==
    /\ p \notin up
    /\ call[c].pc = "none" /\ c = CHOOSE free \in Calls : call[free].pc = "none"
    /\ up' = up \cup {p}
    /\ call' = IF p \in SchedulerProcs THEN Called(c, p, "reload") ELSE call
    /\ UNCHANGED <<obj, current, cfg, used>>

Step(c) == LoadConfig(c) \/ setup_scheduler(c) \/ StartIfEnabled(c) \/ Answer(c)

SchedulerNext ==
    \/ \E c \in Calls : Step(c) \/ LoadFails(c)
    \/ \E c \in Calls, p \in Procs : scheduler_status(c, p) \/ Boot(c, p)
    \/ \E p \in Procs : Stop(p)

=============================================================================
