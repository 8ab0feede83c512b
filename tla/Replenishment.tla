--------------------------- MODULE Replenishment ---------------------------
(***************************************************************************)
(* The cycle of replenishment suggestions: calc_engine generates one       *)
(* (engine/calc_engine_job.py, engine/runner.py) and closes the generation *)
(* toggle, users export it (api/snapshot.py), archive or delete it         *)
(* (api/suggestion.py), and the administrator opens the next cycle         *)
(* (api/config.py), which wants the draft exported first.                  *)
(*                                                                         *)
(* An action is one committed transaction, except where two requests can   *)
(* come between the statements of one.  Of an export only its first        *)
(* transaction matters here; the module SnapshotExport has the rest.       *)
(***************************************************************************)
EXTENDS Naturals, FiniteSets

CONSTANTS
    MaxSugs,     \* bound: suggestions ever generated
    Engines,     \* calc_engine executions (a reaped one may live on)
    Deleters,    \* concurrent DELETE /api/suggestions/{id} requests
    Togglers     \* concurrent PATCH /api/config/generation-toggle requests

ASSUME CycleAssumption == MaxSugs \in Nat

Sugs  == 1..MaxSugs
Kinds == {"procurement", "restock"}

VARIABLES
    toggle,      \* global_config.suggestion_generation_enabled: "on" or "off"
    sug,         \* suggestion.status, "none" before the insert, "deleted" after
    need,        \* the kinds whose item_count in the suggestion is positive
    snapped,     \* the kinds with at least one row in suggestion_snapshot
    nextSug,
    epc,         \* calc_engine: idle, computing and archiving (in the locked
                 \* transaction), persisted
    eseen,       \* the drafts the UPDATE of _archive_active has found
    dpc, dsug,   \* delete: idle, counted, and its suggestion
    apc,         \* toggle: idle, approved and scanned (holds the config row)
    aseen,       \* the drafts the UPDATE of the toggle request has found
    lost,        \* history: drafts that the system archived before their export
    excuse       \* history: the races and faults that can cause that

procs == <<epc, eseen, dpc, dsug, apc, aseen>>
vars  == <<toggle, sug, need, snapped, nextSug, procs, lost, excuse>>

TypeOK ==
    /\ toggle \in {"on", "off"}
    /\ sug \in [Sugs -> {"none", "draft", "archived", "deleted"}]
    /\ need \in [Sugs -> SUBSET Kinds]
    /\ snapped \in [Sugs -> SUBSET Kinds]
    /\ nextSug \in 1..(MaxSugs + 1)
    /\ epc \in [Engines -> {"idle", "computing", "archiving", "persisted"}]
    /\ eseen \in [Engines -> SUBSET Sugs]
    /\ dpc \in [Deleters -> {"idle", "counted"}]
    /\ dsug \in [Deleters -> Sugs \cup {0}]
    /\ apc \in [Togglers -> {"idle", "approved", "scanned"}]
    /\ aseen \in [Togglers -> SUBSET Sugs]
    /\ lost \subseteq Sugs
    /\ excuse \subseteq {"died", "overlap", "toggle race"}

\* A fresh database: generation is on (server default), nothing generated.
Init ==
    /\ toggle = "on"
    /\ sug = [s \in Sugs |-> "none"]
    /\ need = [s \in Sugs |-> {}]
    /\ snapped = [s \in Sugs |-> {}]
    /\ nextSug = 1
    /\ epc = [e \in Engines |-> "idle"]
    /\ eseen = [e \in Engines |-> {}]
    /\ dpc = [d \in Deleters |-> "idle"]
    /\ dsug = [d \in Deleters |-> 0]
    /\ apc = [a \in Togglers |-> "idle"]
    /\ aseen = [a \in Togglers |-> {}]
    /\ lost = {}
    /\ excuse = {}

Drafts == {s \in Sugs : sug[s] = "draft"}
Unexported == {s \in Drafts : ~ need[s] \subseteq snapped[s]}

\* Rows that an open transaction has updated: other writers wait for it.
EngineHeld == UNION {eseen[e] : e \in Engines}
Held == EngineHeld \cup UNION {aseen[a] : a \in Togglers}

-----------------------------------------------------------------------------
(* calc_engine_job / run_engine *)

\* Mutant: no advisory lock around the transaction.
EngineBeginUnlocked(e) ==
    /\ epc[e] = "idle"
    /\ toggle = "on"
    /\ nextSug + Cardinality({f \in Engines : epc[f] \in {"computing", "archiving"}}) <= MaxSugs
    /\ epc' = [epc EXCEPT ![e] = "computing"]
    /\ UNCHANGED <<toggle, sug, need, snapped, nextSug, eseen, dpc, dsug, apc, aseen, lost, excuse>>

\* pg_advisory_xact_lock is granted and the toggle read is on; with the toggle
\* off the run reports and returns, which changes nothing here.
EngineBegin(e) ==
    /\ epc[e] = "idle"
    /\ \A f \in Engines : epc[f] \notin {"computing", "archiving"}
    /\ toggle = "on"
    /\ nextSug <= MaxSugs
    /\ epc' = [epc EXCEPT ![e] = "computing"]
    /\ excuse' = IF \E f \in Engines : epc[f] = "persisted"
                 THEN excuse \cup {"overlap"} ELSE excuse
    /\ UNCHANGED <<toggle, sug, need, snapped, nextSug, eseen, dpc, dsug, apc, aseen, lost>>

\* Invalid configuration, no enabled SKU, no item, lease lost or process
\* killed before the commit: the transaction rolls back.
EngineAborts(e) ==
    /\ epc[e] \in {"computing", "archiving"}
    /\ epc' = [epc EXCEPT ![e] = "idle"]
    /\ eseen' = [eseen EXCEPT ![e] = {}]
    /\ UNCHANGED <<toggle, sug, need, snapped, nextSug, dpc, dsug, apc, aseen, lost, excuse>>

\* The UPDATE of _archive_active, which waits for rows in other hands.
EngineArchive(e) ==
    /\ epc[e] = "computing"
    /\ Drafts \cap Held = {}
    /\ eseen' = [eseen EXCEPT ![e] = Drafts]
    /\ epc' = [epc EXCEPT ![e] = "archiving"]
    /\ UNCHANGED <<toggle, sug, need, snapped, nextSug, dpc, dsug, apc, aseen, lost, excuse>>

\* _persist_suggestion inserts the new draft and commits; the advisory lock
\* ends with the transaction.
EnginePersist(e) ==
    /\ epc[e] = "archiving"
    /\ lost' = lost \cup (eseen[e] \cap Unexported)
    /\ sug' = [s \in Sugs |-> IF s = nextSug THEN "draft"
                              ELSE IF s \in eseen[e] /\ sug[s] = "draft" THEN "archived"
                              ELSE sug[s]]
    /\ \E ks \in SUBSET Kinds \ {{}} : need' = [need EXCEPT ![nextSug] = ks]
    /\ nextSug' = nextSug + 1
    /\ epc' = [epc EXCEPT ![e] = "persisted"]
    /\ eseen' = [eseen EXCEPT ![e] = {}]
    /\ excuse' = IF \E a \in Togglers : apc[a] # "idle"
                 THEN excuse \cup {"toggle race"} ELSE excuse
    /\ UNCHANGED <<toggle, snapped, dpc, dsug, apc, aseen>>

\* The second transaction of calc_engine_job; it waits for a toggle request
\* that holds the row.
EngineToggleOff(e) ==
    /\ epc[e] = "persisted"
    /\ \A a \in Togglers : apc[a] = "idle"
    /\ toggle' = "off"
    /\ epc' = [epc EXCEPT ![e] = "idle"]
    /\ UNCHANGED <<sug, need, snapped, nextSug, eseen, dpc, dsug, apc, aseen, lost, excuse>>

\* Between the two: ctx.progress() raises TaskLeaseLostError, the database is
\* gone, or the process dies.
EngineDies(e) ==
    /\ epc[e] = "persisted"
    /\ epc' = [epc EXCEPT ![e] = "idle"]
    /\ excuse' = excuse \cup {"died"}
    /\ UNCHANGED <<toggle, sug, need, snapped, nextSug, eseen, dpc, dsug, apc, aseen, lost>>

-----------------------------------------------------------------------------
(* PATCH /api/config/generation-toggle *)

\* Mutant: only the procurement view has to be exported.
CanEnableProcurement == \A s \in Drafts : "procurement" \in need[s] => "procurement" \in snapped[s]

\* _compute_can_enable looks at the latest draft (there is at most one): every
\* kind it needs has a snapshot, of any generation status.
CanEnable == \A s \in Drafts : need[s] \subseteq snapped[s]

ToggleOff(a) ==
    /\ \A b \in Togglers : apc[b] = "idle"
    /\ toggle' = "off"
    /\ UNCHANGED <<sug, need, snapped, nextSug, procs, lost, excuse>>

\* SELECT ... FOR UPDATE of the config row, then the check.
ToggleApprove(a) ==
    /\ \A b \in Togglers : apc[b] = "idle"
    /\ CanEnable
    /\ apc' = [apc EXCEPT ![a] = "approved"]
    /\ UNCHANGED <<toggle, sug, need, snapped, nextSug, epc, eseen, dpc, dsug, aseen, lost, excuse>>

\* The UPDATE begins: it will archive what is a draft by now.
ToggleScan(a) ==
    /\ apc[a] = "approved"
    /\ aseen' = [aseen EXCEPT ![a] = Drafts]
    /\ apc' = [apc EXCEPT ![a] = "scanned"]
    /\ UNCHANGED <<toggle, sug, need, snapped, nextSug, epc, eseen, dpc, dsug, lost, excuse>>

\* Mutant: the toggle is opened without archiving the drafts.
ToggleOnNoArchive(a) ==
    /\ apc[a] = "scanned"
    /\ toggle' = "on"
    /\ apc' = [apc EXCEPT ![a] = "idle"]
    /\ aseen' = [aseen EXCEPT ![a] = {}]
    /\ UNCHANGED <<sug, need, snapped, nextSug, epc, eseen, dpc, dsug, lost, excuse>>

\* It gets the rows an engine run had in hand, and commits.
ToggleOn(a) ==
    /\ apc[a] = "scanned"
    /\ aseen[a] \cap EngineHeld = {}
    /\ lost' = lost \cup (aseen[a] \cap Unexported)
    /\ sug' = [s \in Sugs |-> IF s \in aseen[a] /\ sug[s] = "draft" THEN "archived" ELSE sug[s]]
    /\ toggle' = "on"
    /\ apc' = [apc EXCEPT ![a] = "idle"]
    /\ aseen' = [aseen EXCEPT ![a] = {}]
    /\ UNCHANGED <<need, snapped, nextSug, epc, eseen, dpc, dsug, excuse>>

-----------------------------------------------------------------------------
(* Users: export, archive, delete *)

\* The first transaction of _create_snapshot, under FOR UPDATE of the draft.
Export(s, k) ==
    /\ sug[s] = "draft"
    /\ s \notin Held
    /\ k \in need[s] \ snapped[s]
    /\ snapped' = [snapped EXCEPT ![s] = @ \cup {k}]
    /\ UNCHANGED <<toggle, sug, need, nextSug, procs, lost, excuse>>

Archive(s) ==
    /\ sug[s] = "draft"
    /\ s \notin Held
    /\ sug' = [sug EXCEPT ![s] = "archived"]
    /\ UNCHANGED <<toggle, need, snapped, nextSug, procs, lost, excuse>>

\* delete_suggestion: the row exists and SELECT count(*) finds no snapshot.
DeleteCount(d) ==
    /\ dpc[d] = "idle"
    /\ \E s \in Sugs :
          /\ sug[s] \in {"draft", "archived"}
          /\ snapped[s] = {}
          /\ dsug' = [dsug EXCEPT ![d] = s]
    /\ dpc' = [dpc EXCEPT ![d] = "counted"]
    /\ UNCHANGED <<toggle, sug, need, snapped, nextSug, epc, eseen, apc, aseen, lost, excuse>>

\* The DELETE itself; items and snapshots go with the row.
DeleteRow(d) ==
    /\ dpc[d] = "counted"
    /\ dsug[d] \notin Held
    /\ sug' = [sug EXCEPT ![dsug[d]] = "deleted"]
    /\ need' = [need EXCEPT ![dsug[d]] = {}]
    /\ snapped' = [snapped EXCEPT ![dsug[d]] = {}]
    /\ dpc' = [dpc EXCEPT ![d] = "idle"]
    /\ dsug' = [dsug EXCEPT ![d] = 0]
    /\ UNCHANGED <<toggle, nextSug, epc, eseen, apc, aseen, lost, excuse>>

-----------------------------------------------------------------------------
EngineStep(e) == EngineBegin(e) \/ EngineAborts(e) \/ EngineArchive(e) \/ EnginePersist(e)
                 \/ EngineToggleOff(e) \/ EngineDies(e)

Next ==
    \/ \E e \in Engines : EngineStep(e)
    \/ \E a \in Togglers : ToggleOff(a) \/ ToggleApprove(a) \/ ToggleScan(a) \/ ToggleOn(a)
    \/ \E s \in Sugs, k \in Kinds : Export(s, k)
    \/ \E s \in Sugs : Archive(s)
    \/ \E d \in Deleters : DeleteCount(d) \/ DeleteRow(d)

Spec == Init /\ [][Next]_vars

-----------------------------------------------------------------------------
(* Properties *)

\* At most one suggestion is a draft, although several calc_engine runs (a
\* reaped one and its successor, or two demand dates), the toggle, archiving
\* and deletion interleave.
AtMostOneDraft == \A s, r \in Drafts : s = r

\* Neither the engine nor the toggle archives a draft that was not exported,
\* unless a run died between its two commits, a second run began between them,
\* or a run committed between the check and the archiving of a toggle request.
\* Those three are all the ways in which work is superseded silently.
NoSilentLoss == lost # {} => excuse # {}

\* Without such a fault the cycle is closed: once no run is between its two
\* commits, a draft and an open toggle exclude each other.
CycleClosed ==
    Drafts # {} /\ toggle = "on" => excuse # {} \/ \E e \in Engines : epc[e] = "persisted"

=============================================================================
