--------------------------- MODULE SnapshotExport ---------------------------
(***************************************************************************)
(* Exporting one suggestion.  Users edit its item (patch_item of           *)
(* api/suggestion.py) while others export it (api/snapshot.py): a first    *)
(* transaction freezes the item in a snapshot row, the workbook is written *)
(* outside any transaction, a last transaction publishes it.  Meanwhile    *)
(* the suggestion is archived or deleted, and retention_purge              *)
(* (tasks/jobs/retention.py) unlinks old files and fails stuck exports.    *)
(*                                                                         *)
(* The item stands for the rows of the suggestion: the quantity of one     *)
(* country, the sum of its warehouse split (0: no split) and the purchase  *)
(* quantity.  Age against the retention cutoffs is a free choice.          *)
(***************************************************************************)
EXTENDS Naturals

CONSTANTS
    MaxSnaps,    \* bound: snapshots ever taken
    MaxQty,      \* bound on quantities
    MaxKills,    \* bound: retention runs that are killed
    Items,       \* the items the engine may have generated
    ItemPatches, \* the edits users may send: some fields and their values
    Patchers,    \* concurrent PATCH .../items/{id} requests
    Exporters    \* concurrent POST .../snapshots/{type} requests

Snaps == 1..MaxSnaps
Kinds == {"procurement", "restock"}
Qty   == 0..MaxQty
Item  == [country : Qty, split : Qty, purchase : Qty]
Patch == [fields : SUBSET {"country", "split", "purchase"}, to : Item]

NoItem  == [country |-> 0, split |-> 0, purchase |-> 0]
NoPatch == [fields |-> {}, to |-> NoItem]

\* Every positive country's split is empty or adds up to its quantity.
ItemConsistent(i) == i.country > 0 => i.split \in {0, i.country}

ASSUME ExportAssumption ==
    /\ MaxSnaps \in Nat /\ MaxQty \in Nat /\ MaxKills \in Nat
    /\ Items \subseteq {i \in Item : ItemConsistent(i)} /\ Items # {}
    /\ ItemPatches \subseteq Patch

VARIABLES
    status,      \* suggestion.status, or "deleted"
    item,        \* the item row
    ppc, patch,  \* patchers: idle, checked, and the edit
    last,        \* the latest suggestion_snapshot.id
    kind, version, frozen,   \* the snapshot's type, version and frozen item
    gen,         \* generation_status, "none" without a row
    exportLog,   \* its excel_export_log of action generate: none, logged, purged
    file,        \* the workbook on disk: its content, NoItem for no file
    exported,    \* the item's <type>_exported_snapshot_id, 0 for pending
    epc, esnap, ectx,        \* exporters: idle, building, written; the snapshot,
                             \* and the export context built from the item
    dpc,         \* the delete request: idle, counted
    rpc,         \* retention: idle, exports, stuck
    due, done,   \* retention: the snapshots to purge, and the logs it updated
    kills        \* retention runs killed so far

edits   == <<item, ppc, patch>>
rows    == <<last, kind, version, frozen>>
exports == <<epc, esnap, ectx>>
sweep   == <<rpc, due, done, kills>>
exportVars == <<status, edits, rows, gen, exportLog, file, exported, exports, dpc, sweep>>

TypeOK ==
    /\ status \in {"draft", "archived", "deleted"}
    /\ item \in Item
    /\ ppc \in [Patchers -> {"idle", "checked"}]
    /\ patch \in [Patchers -> Patch]
    /\ last \in 0..MaxSnaps
    /\ kind \in [Snaps -> Kinds \cup {"none"}]
    /\ version \in [Snaps -> 0..MaxSnaps]
    /\ frozen \in [Snaps -> Item]
    /\ gen \in [Snaps -> {"none", "generating", "ready", "failed"}]
    /\ exportLog \in [Snaps -> {"none", "logged", "purged"}]
    /\ file \in [Snaps -> Item]
    /\ exported \in [Kinds -> 0..MaxSnaps]
    /\ epc \in [Exporters -> {"idle", "building", "written"}]
    /\ esnap \in [Exporters -> 0..MaxSnaps]
    /\ ectx \in [Exporters -> Item]
    /\ dpc \in {"idle", "counted"}
    /\ rpc \in {"idle", "exports", "stuck"}
    /\ due \subseteq Snaps
    /\ done \subseteq Snaps
    /\ kills \in 0..MaxKills

\* A draft the engine has just generated.
ExportInit ==
    /\ status = "draft"
    /\ item \in Items
    /\ ppc = [q \in Patchers |-> "idle"]
    /\ patch = [q \in Patchers |-> NoPatch]
    /\ last = 0
    /\ kind = [n \in Snaps |-> "none"]
    /\ version = [n \in Snaps |-> 0]
    /\ frozen = [n \in Snaps |-> NoItem]
    /\ gen = [n \in Snaps |-> "none"]
    /\ exportLog = [n \in Snaps |-> "none"]
    /\ file = [n \in Snaps |-> NoItem]
    /\ exported = [k \in Kinds |-> 0]
    /\ epc = [x \in Exporters |-> "idle"]
    /\ esnap = [x \in Exporters |-> 0]
    /\ ectx = [x \in Exporters |-> NoItem]
    /\ dpc = "idle"
    /\ rpc = "idle"
    /\ due = {}
    /\ done = {}
    /\ kills = 0

Rows == {n \in Snaps : gen[n] # "none"}
Generating == {n \in Snaps : gen[n] = "generating"}
Logged == {n \in Snaps : exportLog[n] = "logged"}

-----------------------------------------------------------------------------
(* Editing the item: patch_item *)

\* The item with the fields of the edit in place of its own.
Merge(i, p) ==
    [country  |-> IF "country"  \in p.fields THEN p.to.country  ELSE i.country,
     split    |-> IF "split"    \in p.fields THEN p.to.split    ELSE i.split,
     purchase |-> IF "purchase" \in p.fields THEN p.to.purchase ELSE i.purchase]

\* The parent is not archived and the effective item passes the check.
PatchCheck(q) ==
    /\ ppc[q] = "idle"
    /\ status = "draft"
    /\ \E p \in ItemPatches :
          /\ ItemConsistent(Merge(item, p))
          /\ patch' = [patch EXCEPT ![q] = p]
    /\ ppc' = [ppc EXCEPT ![q] = "checked"]
    /\ UNCHANGED <<status, item, rows, gen, exportLog, file, exported, exports, dpc, sweep>>

\* The UPDATE writes the edited fields, whatever the row has become since; a
\* row deleted since is not there to be written.
PatchWrite(q) ==
    /\ ppc[q] = "checked"
    /\ item' = IF status = "deleted" THEN item ELSE Merge(item, patch[q])
    /\ ppc' = [ppc EXCEPT ![q] = "idle"]
    /\ patch' = [patch EXCEPT ![q] = NoPatch]
    /\ UNCHANGED <<status, rows, gen, exportLog, file, exported, exports, dpc, sweep>>

-----------------------------------------------------------------------------
(* Exporting: _create_snapshot *)

\* purchase_qty > 0, or _validate_restock_snapshot_items.
Exportable(k, i) ==
    IF k = "procurement" THEN i.purchase > 0
    ELSE i.country > 0 /\ i.split \in {0, i.country}

\* coalesce(max(version), 0) + 1 over the suggestion's snapshots of the type.
NextVersion(k) ==
    LET used == {version[n] : n \in {m \in Rows : kind[m] = k}}
    IN  1 + CHOOSE v \in used \cup {0} : \A u \in used : u <= v

\* The first transaction, under FOR UPDATE of the suggestion and the item.
ExportBegin(x, k) ==
    /\ epc[x] = "idle"
    /\ status = "draft"
    /\ Exportable(k, item)
    /\ last < MaxSnaps
    /\ last' = last + 1
    /\ kind' = [kind EXCEPT ![last + 1] = k]
    /\ version' = [version EXCEPT ![last + 1] = NextVersion(k)]
    /\ frozen' = [frozen EXCEPT ![last + 1] = item]
    /\ gen' = [gen EXCEPT ![last + 1] = "generating"]
    /\ epc' = [epc EXCEPT ![x] = "building"]
    /\ esnap' = [esnap EXCEPT ![x] = last + 1]
    /\ ectx' = [ectx EXCEPT ![x] = item]
    /\ UNCHANGED <<status, edits, exportLog, file, exported, dpc, sweep>>

\* Mutant: the workbook is built from the item as it is by now.
ExportWriteLate(x) ==
    /\ epc[x] = "building"
    /\ file' = [file EXCEPT ![esnap[x]] = item]
    /\ epc' = [epc EXCEPT ![x] = "written"]
    /\ UNCHANGED <<status, edits, rows, gen, exportLog, exported, esnap, ectx, dpc, sweep>>

\* The workbook is saved under a temporary name and renamed into place.
ExportWrite(x) ==
    /\ epc[x] = "building"
    /\ file' = [file EXCEPT ![esnap[x]] = ectx[x]]
    /\ epc' = [epc EXCEPT ![x] = "written"]
    /\ UNCHANGED <<status, edits, rows, gen, exportLog, exported, esnap, ectx, dpc, sweep>>

\* The request is over.
Done(x) ==
    /\ epc' = [epc EXCEPT ![x] = "idle"]
    /\ esnap' = [esnap EXCEPT ![x] = 0]
    /\ ectx' = [ectx EXCEPT ![x] = NoItem]

\* Building or saving raises: the snapshot, if it is still there, is failed.
ExportFails(x) ==
    /\ epc[x] = "building"
    /\ gen' = [gen EXCEPT ![esnap[x]] = IF @ = "none" THEN "none" ELSE "failed"]
    /\ Done(x)
    /\ UNCHANGED <<status, edits, rows, exportLog, file, exported, dpc, sweep>>

\* The last transaction.  Nothing checks again that the suggestion is a draft.
ExportFinish(x) ==
    /\ epc[x] = "written"
    /\ gen[esnap[x]] # "none"
    /\ gen' = [gen EXCEPT ![esnap[x]] = "ready"]
    /\ exportLog' = [exportLog EXCEPT ![esnap[x]] = "logged"]
    /\ exported' = [exported EXCEPT ![kind[esnap[x]]] = esnap[x]]
    /\ Done(x)
    /\ UNCHANGED <<status, edits, rows, file, dpc, sweep>>

\* The process dies, the directory cannot be made, the last transaction fails:
\* it does when the snapshot was deleted meanwhile, as the log refers to it.
ExportDies(x) ==
    /\ epc[x] # "idle"
    /\ Done(x)
    /\ UNCHANGED <<status, edits, rows, gen, exportLog, file, exported, dpc, sweep>>

-----------------------------------------------------------------------------
(* Archiving (by a user, the engine or the toggle) and deleting *)

Archive ==
    /\ status = "draft"
    /\ status' = "archived"
    /\ UNCHANGED <<edits, rows, gen, exportLog, file, exported, exports, dpc, sweep>>

\* delete_suggestion: the suggestion is there and has no snapshot.
DeleteCount ==
    /\ dpc = "idle"
    /\ status # "deleted"
    /\ Rows = {}
    /\ dpc' = "counted"
    /\ UNCHANGED <<status, edits, rows, gen, exportLog, file, exported, exports, sweep>>

\* The DELETE takes items, snapshots and logs along (ON DELETE CASCADE).
DeleteRow ==
    /\ dpc = "counted"
    /\ dpc' = "idle"
    /\ status' = "deleted"
    /\ item' = NoItem
    /\ kind' = [n \in Snaps |-> "none"]
    /\ version' = [n \in Snaps |-> 0]
    /\ frozen' = [n \in Snaps |-> NoItem]
    /\ gen' = [n \in Snaps |-> "none"]
    /\ exportLog' = [n \in Snaps |-> "none"]
    /\ exported' = [k \in Kinds |-> 0]
    /\ UNCHANGED <<ppc, patch, last, file, exports, sweep>>

-----------------------------------------------------------------------------
(* retention_purge *)

\* purge_exports finds the old logs whose file is not marked as purged.
PurgeBegin(N) ==
    /\ rpc = "idle"
    /\ rpc' = "exports"
    /\ due' = N
    /\ done' = {}
    /\ UNCHANGED <<status, edits, rows, gen, exportLog, file, exported, exports, dpc, kills>>

\* Mutant: a file that is not there is no reason to update the log.
PurgeUnlinkIfThere(n) ==
    /\ rpc = "exports" /\ n \in due
    /\ file' = [file EXCEPT ![n] = NoItem]
    /\ due' = due \ {n}
    /\ done' = IF file[n] = NoItem THEN done ELSE done \cup {n}
    /\ UNCHANGED <<status, edits, rows, gen, exportLog, exported, exports, dpc, rpc, kills>>

\* One snapshot: the file, if there is one, is unlinked and the log updated.
PurgeUnlink(n) ==
    /\ rpc = "exports" /\ n \in due
    /\ file' = [file EXCEPT ![n] = NoItem]
    /\ due' = due \ {n}
    /\ done' = done \cup {n}
    /\ UNCHANGED <<status, edits, rows, gen, exportLog, exported, exports, dpc, rpc, kills>>

\* unlink() raises OSError: this one is left for the next run.
PurgeSkip(n) ==
    /\ rpc = "exports" /\ n \in due
    /\ file[n] # NoItem
    /\ due' = due \ {n}
    /\ UNCHANGED <<status, edits, rows, gen, exportLog, file, exported, exports, dpc, rpc, done, kills>>

\* Mutant: the job ends before it looks for stuck exports.
PurgeCommitEnds ==
    /\ rpc = "exports" /\ due = {}
    /\ exportLog' = [n \in Snaps |-> IF n \in done /\ exportLog[n] = "logged" THEN "purged" ELSE exportLog[n]]
    /\ rpc' = "idle"
    /\ done' = {}
    /\ UNCHANGED <<status, edits, rows, gen, file, exported, exports, dpc, due, kills>>

\* The updates of the logs are committed together.
PurgeCommit ==
    /\ rpc = "exports" /\ due = {}
    /\ exportLog' = [n \in Snaps |-> IF n \in done /\ exportLog[n] = "logged" THEN "purged" ELSE exportLog[n]]
    /\ rpc' = "stuck"
    /\ done' = {}
    /\ UNCHANGED <<status, edits, rows, gen, file, exported, exports, dpc, due, kills>>

\* Mutant: old snapshots are failed whatever their status.
PurgeStuckAny(N) ==
    /\ rpc = "stuck"
    /\ gen' = [n \in Snaps |-> IF n \in N \/ exportLog[n] = "purged" THEN "failed" ELSE gen[n]]
    /\ rpc' = "idle"
    /\ UNCHANGED <<status, edits, rows, exportLog, file, exported, exports, dpc, due, done, kills>>

\* purge_stuck_generating: the old ones of those still generating.
PurgeStuck(N) ==
    /\ rpc = "stuck"
    /\ gen' = [n \in Snaps |-> IF n \in N THEN "failed" ELSE gen[n]]
    /\ rpc' = "idle"
    /\ UNCHANGED <<status, edits, rows, exportLog, file, exported, exports, dpc, due, done, kills>>

\* The job dies; its open transaction is rolled back, the files stay unlinked.
PurgeDies ==
    /\ rpc # "idle"
    /\ kills < MaxKills
    /\ kills' = kills + 1
    /\ rpc' = "idle"
    /\ due' = {}
    /\ done' = {}
    /\ UNCHANGED <<status, edits, rows, gen, exportLog, file, exported, exports, dpc>>

-----------------------------------------------------------------------------
ExportStep(x) == ExportWrite(x) \/ ExportFails(x) \/ ExportFinish(x) \/ ExportDies(x)

Retention ==
    \/ \E N \in SUBSET Logged : PurgeBegin(N)
    \/ \E n \in Snaps : PurgeUnlink(n) \/ PurgeSkip(n)
    \/ PurgeCommit
    \/ \E N \in SUBSET Generating : PurgeStuck(N)
    \/ PurgeDies

ExportNext ==
    \/ \E q \in Patchers : PatchCheck(q) \/ PatchWrite(q)
    \/ \E x \in Exporters : (\E k \in Kinds : ExportBegin(x, k)) \/ ExportStep(x)
    \/ Archive \/ DeleteCount \/ DeleteRow
    \/ Retention

ExportSpec == ExportInit /\ [][ExportNext]_exportVars

\* Requests end.  The scheduler starts retention_purge every day and a run
\* that is not killed gets to its end; a row that stays in place becomes old
\* enough to be picked.
ExportFairness ==
    /\ \A x \in Exporters : WF_exportVars(ExportStep(x))
    /\ WF_exportVars(Retention)
    /\ \A n \in Snaps :
          /\ SF_exportVars(\E N \in SUBSET Logged : n \in N /\ PurgeBegin(N))
          /\ SF_exportVars(\E N \in SUBSET Generating : n \in N /\ PurgeStuck(N))

LiveSpec == ExportSpec /\ ExportFairness

-----------------------------------------------------------------------------
(* Properties *)

\* What a snapshot has frozen is exportable, whatever concurrent edits made of
\* the item: two edits that pass patch_item's check one by one can leave a
\* split that does not add up, and the export's own check must catch it.
SnapshotSound ==
    \A n \in Rows :
        /\ kind[n] = "procurement" => frozen[n].purchase > 0
        /\ kind[n] = "restock" => frozen[n].country > 0 /\ ItemConsistent(frozen[n])

\* The workbook on disk has the content of the snapshot, although it is written
\* after the transaction that froze it and the item is edited meanwhile.
FileIsSnapshot == \A n \in Rows : file[n] # NoItem => file[n] = frozen[n]

\* The versions of the snapshots of one type are 1, 2, 3, ... without gaps or
\* duplicates, whichever exports fail, die or overlap.
VersionsContiguous ==
    \A k \in Kinds : LET of == {n \in Rows : kind[n] = k} IN
        /\ \E m \in 0..MaxSnaps : {version[n] : n \in of} = 1..m
        /\ \A n, o \in of : version[n] = version[o] => n = o

\* An item marked as exported points to a snapshot of that type that is ready
\* and has its log, with exports, deletion and retention interleaving.
ExportedIsBacked ==
    \A k \in Kinds : exported[k] # 0 =>
        /\ kind[exported[k]] = k
        /\ gen[exported[k]] = "ready"
        /\ exportLog[exported[k]] # "none"

\* No snapshot is generating forever, although its request may die.
StuckIsSwept == \A n \in Snaps : gen[n] = "generating" ~> gen[n] # "generating"

\* When the file of a ready snapshot is gone, its log says so in the end (or
\* the snapshot is deleted): a retention run that died between unlinking and
\* committing is made up for by a later one.
MissingFileIsExplained ==
    \A n \in Snaps : (gen[n] = "ready" /\ file[n] = NoItem) ~> (exportLog[n] = "purged" \/ gen[n] = "none")

=============================================================================
