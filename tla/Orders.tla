------------------------------- MODULE Orders -------------------------------
(***************************************************************************)
(* The order headers and the four parties that write them:                 *)
(*   - sync_order_list pulls the packages of Saihu, with the list of EU    *)
(*     members it has read when it started (sync/order_list.py);           *)
(*   - a user patches one header (services/order_edit.py);                 *)
(*   - a user imports a workbook, directly or through a background task    *)
(*     (order_edit.py, tasks/jobs/order_info_match.py, api/data.py);       *)
(*   - an administrator changes the list of EU members, which maps all     *)
(*     rows again (api/config.py, core/country_mapping.py).                *)
(*                                                                         *)
(* A row is a record of the columns the properties tell apart: postal      *)
(* stands for the protected fields that come from Saihu as they are,       *)
(* status for the fields that every sync refreshes.                        *)
(***************************************************************************)
EXTENDS Integers, FiniteSets, Sequences

CONSTANTS
    Packages,     \* keys of order_header: shop, order and package
    OrderOf,      \* the amazon_order_id of a package
    Members,      \* country codes that may be put on the EU list
    Items,        \* order items of a package
    Raws,         \* what Saihu may answer for a package
    FirstRaw,     \* what it answers at first
    Patches,      \* what a user may submit for a header: some of its Fields
    Workbooks,    \* workbooks a user may upload, sequences of rows
    EuLists,      \* lists of EU members an administrator may save
    Editors,      \* requests that patch a header, may overlap
    Admins,       \* requests that change the EU list, may overlap
    BatchSize,    \* DEFAULT_BATCH_SIZE
    NoRow, NoValue,
    MaxInputs     \* bound: requests, changes at Saihu and faults, together

VARIABLES
    eu,           \* global_config.eu_countries
    hdr,          \* order_header with its order_item rows, as committed
    remote,       \* the packages at Saihu
    sync,         \* the execution of sync_order_list
    state,        \* its sync_state.last_status
    legacy,       \* are there rows of the sources that are no longer pulled?
    edit, imp, adm,   \* the requests of editors, the import, those of admins
    file,         \* order_info_match_import_file: none, stored, consumed
    used          \* inputs so far

ordersVars == <<eu, hdr, remote, sync, state, legacy, edit, imp, adm, file, used>>

Codes == Members \cup {"EU", "ZZ"}
Fields == {"country", "postal"}
Postals == {raw.postal : raw \in Raws} \cup {NoValue, "manual"}

\* The columns of order_header; the rows of order_item as a set of their keys.
Row == [country : Codes, original : Members \cup {NoValue},
        postal : Postals,
        status : {raw.status : raw \in Raws}, locked : BOOLEAN,
        fields : SUBSET Fields, items : SUBSET Items]

ASSUME OrdersAssumption ==
    /\ NoRow \notin Row
    /\ FirstRaw \in Raws
    /\ \A raw \in Raws : raw.marketplace \in Members \cup {NoValue}
    /\ EuLists \subseteq SUBSET Members
    /\ \A u \in Patches :
          /\ DOMAIN u \subseteq Fields
          /\ "country" \in DOMAIN u => u["country"] \in Codes
          /\ "postal" \in DOMAIN u => u["postal"] \in Postals
    /\ \A w \in Workbooks : \A i \in DOMAIN w :
          w[i].country \in Codes \cup {NoValue} /\ w[i].postal \in Postals

Exists(p) == hdr[p] # NoRow
Idle == [pc |-> "idle"]

\* A request, a change at Saihu or a fault; their number is bounded.
Input == used < MaxInputs /\ used' = used + 1

OrdersInit ==
    /\ eu \in EuLists
    /\ hdr = [p \in Packages |-> NoRow]
    /\ remote = [p \in Packages |-> FirstRaw]
    /\ sync = Idle /\ state = "never" /\ legacy = TRUE
    /\ edit = [e \in Editors |-> Idle]
    /\ imp = Idle
    /\ adm = [a \in Admins |-> Idle]
    /\ file = "none"
    /\ used = 0

\* A package changes at Saihu.
Ship(p) ==
    /\ Input
    /\ \E raw \in Raws \ {remote[p]} : remote' = [remote EXCEPT ![p] = raw]
    /\ UNCHANGED <<eu, hdr, sync, state, legacy, edit, imp, adm, file>>

-----------------------------------------------------------------------------
(* Countries *)

apply_eu_mapping(c, list) == IF c \in list THEN "EU" ELSE c

\* The country kept beside "EU": the one that was merged into it.
OriginalOf(c, list) == IF c \in list THEN c ELSE NoValue

\* Mutant: the original country is kept when it leaves the list.
BackfillKeepsOriginal(row, list) ==
    LET source == IF row.original # NoValue THEN row.original ELSE row.country
    IN  [row EXCEPT !.country = apply_eu_mapping(source, list),
                    !.original = IF source \in list THEN source ELSE row.original]

\* One row of the UPDATE of _backfill_eu_mapping_for_columns; it looks neither
\* at manual_edit_locked nor at who has written the row.
Backfilled(row, list) ==
    LET source == IF row.original # NoValue THEN row.original ELSE row.country
    IN  [row EXCEPT !.country = apply_eu_mapping(source, list),
                    !.original = OriginalOf(source, list)]

-----------------------------------------------------------------------------
(* sync_order_list *)

\* A package without shop or number, one without an order id, and one whose
\* purchase date cannot be parsed are skipped.
KeyMissing(raw) == raw.flaw = "key"
OrderMissing(raw) == raw.flaw = "order"
DateMissing(raw) == raw.flaw = "date"
Skipped(raw) == KeyMissing(raw) \/ OrderMissing(raw) \/ DateMissing(raw)

\* _resolve_package_country: only the marketplace counts, ZZ if it is no code.
package_country(raw) == IF raw.marketplace = NoValue THEN "ZZ" ELSE raw.marketplace

\* Items without a SKU or with a bad quantity are skipped.
SeenItems(raw) == {i \in Items : raw.items[i] = "ok"}

\* Upsert of the items seen, then DELETE of the others, unless none was seen.
ItemsAfter(old, raw) == IF SeenItems(raw) = {} THEN old ELSE SeenItems(raw)

Inserted(raw, list) ==
    [country |-> apply_eu_mapping(package_country(raw), list),
     original |-> OriginalOf(package_country(raw), list),
     postal |-> raw.postal, status |-> raw.status,
     locked |-> FALSE, fields |-> {}, items |-> SeenItems(raw)]

\* Mutant: the protected columns are written like the others.
ProtectNothing(old, new) == new

\* The columns of MANUAL_EDIT_PROTECTED_FIELDS keep their value in a locked row.
protect_manual_edit_fields(old, new) ==
    IF old.locked
    THEN [new EXCEPT !.country = old.country, !.original = old.original, !.postal = old.postal]
    ELSE new

\* Mutant: the country is written by the insert only.
CountryOnInsert(old, raw, list) ==
    [old EXCEPT !.status = raw.status, !.items = ItemsAfter(old.items, raw)]

\* ON CONFLICT DO UPDATE: an empty postal code does not replace one.
Updated(old, raw, list) ==
    LET new == [Inserted(raw, list) EXCEPT
                    !.postal = IF raw.postal = NoValue THEN old.postal ELSE raw.postal,
                    !.locked = old.locked, !.fields = old.fields,
                    !.items = ItemsAfter(old.items, raw)]
    IN  protect_manual_edit_fields(old, new)

\* mark_sync_running, and the list of EU members for the whole execution.
SyncStart ==
    /\ sync.pc = "idle"
    /\ sync' = [pc |-> "cleanup", list |-> eu, todo |-> Packages,
                batch |-> [p \in Packages |-> NoRow]]
    /\ state' = "running"
    /\ UNCHANGED <<eu, hdr, remote, legacy, edit, imp, adm, file, used>>

\* _cleanup_legacy_orders, in a transaction of its own.
SyncCleanup ==
    /\ sync.pc = "cleanup"
    /\ legacy' = FALSE
    /\ sync' = [sync EXCEPT !.pc = "pulling"]
    /\ UNCHANGED <<eu, hdr, remote, state, edit, imp, adm, file, used>>

Count == Cardinality(Packages \ sync.todo)
Batch == {p \in Packages : sync.batch[p] # NoRow}
Due   == Batch # {} /\ Count % BatchSize = 0

\* _upsert_package_ship_order: the row stays locked until the batch commits.
SyncUpsert(p) ==
    /\ sync.pc = "pulling" /\ ~Due
    /\ p \in sync.todo
    /\ LET raw == remote[p]
           row == IF Exists(p) THEN Updated(hdr[p], raw, sync.list)
                               ELSE Inserted(raw, sync.list)
       IN  sync' = [sync EXCEPT !.todo = @ \ {p},
                                !.batch[p] = IF Skipped(raw) THEN NoRow ELSE row]
    /\ UNCHANGED <<eu, hdr, remote, state, legacy, edit, imp, adm, file, used>>

\* db.commit after DEFAULT_BATCH_SIZE packages, and after the last one.
SyncCommit ==
    /\ sync.pc = "pulling"
    /\ Due \/ (sync.todo = {} /\ Batch # {})
    /\ hdr' = [p \in Packages |-> IF p \in Batch THEN sync.batch[p] ELSE hdr[p]]
    /\ sync' = [sync EXCEPT !.batch = [p \in Packages |-> NoRow]]
    /\ UNCHANGED <<eu, remote, state, legacy, edit, imp, adm, file, used>>

\* mark_sync_success.
SyncDone ==
    /\ sync.pc = "pulling" /\ sync.todo = {} /\ Batch = {}
    /\ sync' = Idle /\ state' = "success"
    /\ UNCHANGED <<eu, hdr, remote, legacy, edit, imp, adm, file, used>>

\* _resolve_shop_ids has found no enabled shop: a success that pulls nothing.
SyncNoShops ==
    /\ sync.pc = "pulling" /\ sync.todo = Packages
    /\ Input
    /\ sync' = Idle /\ state' = "success"
    /\ UNCHANGED <<eu, hdr, remote, legacy, edit, imp, adm, file>>

\* An exception: the open batch is rolled back.  The cleanup is outside the try,
\* so that its failure, like the death of the worker, leaves "running" behind.
SyncFail ==
    /\ sync.pc # "idle"
    /\ Input
    /\ sync' = Idle
    /\ \/ sync.pc = "pulling" /\ state' = "failed"
       \/ state' = state
    /\ UNCHANGED <<eu, hdr, remote, legacy, edit, imp, adm, file>>

-----------------------------------------------------------------------------
(* Manual edits *)

\* Rows in the open batch of the sync are locked for every other writer.
Free(p) == sync.pc # "idle" => sync.batch[p] = NoRow

\* Mutant: the object is written back as a whole.
FlushWhole(now, base, new) == new

\* What the session writes: the columns that differ from what it has loaded.
Flush(now, base, new) == [c \in DOMAIN now |-> IF new[c] # base[c] THEN new[c] ELSE now[c]]

\* _apply_manual_updates on the object as loaded.
apply_manual_updates(row, updates) ==
    [c \in DOMAIN row |->
        IF c \in DOMAIN updates THEN updates[c]
        ELSE IF c = "locked" THEN TRUE
        ELSE IF c = "fields" THEN row.fields \cup (DOMAIN updates \cap Fields)
        ELSE row[c]]

\* patch_order_header up to the SELECT.  A country is taken as it is given: not
\* mapped, and original_country_code is not among the updates.
PatchRead(e, p) ==
    /\ edit[e].pc = "idle" /\ Exists(p)
    /\ Input
    /\ \E u \in Patches :
          edit' = [edit EXCEPT ![e] = [pc |-> "loaded", pkg |-> p, base |-> hdr[p], updates |-> u]]
    /\ UNCHANGED <<eu, hdr, remote, sync, state, legacy, imp, adm, file>>

\* The flush and the commit.
PatchCommit(e) ==
    /\ edit[e].pc = "loaded" /\ Free(edit[e].pkg)
    /\ LET p == edit[e].pkg
           base == edit[e].base
       IN  hdr' = [hdr EXCEPT ![p] =
                      Flush(@, base, apply_manual_updates(base, edit[e].updates))]
    /\ edit' = [edit EXCEPT ![e] = Idle]
    /\ UNCHANGED <<eu, remote, sync, state, legacy, imp, adm, file, used>>

-----------------------------------------------------------------------------
(* The workbook import *)

\* create_order_info_match_apply_task_endpoint while no task is active, or the
\* direct endpoint, which stores no file.
Upload ==
    /\ imp.pc = "idle"
    /\ Input
    /\ \E w \in Workbooks, task \in BOOLEAN :
          /\ imp' = [pc |-> "queued", book |-> w, task |-> task]
          /\ file' = IF task THEN "stored" ELSE file
    /\ UNCHANGED <<eu, hdr, remote, sync, state, legacy, edit, adm>>

\* _parse_match_workbook: an order twice, one that is not known, or a country
\* that is blank or no code; blank postal codes are taken.
ParseErrors(w) ==
    \/ \E i, j \in DOMAIN w : i # j /\ w[i].order = w[j].order
    \/ \E i \in DOMAIN w : \A p \in Packages : ~(Exists(p) /\ OrderOf[p] = w[i].order)
    \/ \E i \in DOMAIN w : w[i].country = NoValue

\* _normalize_update_values of an import: the country is mapped by the list the
\* parser has read, and original_country_code goes with it.
ImportUpdates(row, list) ==
    [country |-> apply_eu_mapping(row.country, list),
     original |-> OriginalOf(row.country, list),
     postal |-> row.postal]

\* The job reads its file, then parses it against the database.
ImportParse ==
    /\ imp.pc = "queued" /\ ~ParseErrors(imp.book)
    /\ imp' = [pc |-> "parsed", task |-> imp.task,
               orders |-> {imp.book[i].order : i \in DOMAIN imp.book},
               updates |-> [o \in {imp.book[i].order : i \in DOMAIN imp.book} |->
                   ImportUpdates(imp.book[CHOOSE i \in DOMAIN imp.book : imp.book[i].order = o], eu)]]
    /\ UNCHANGED <<eu, hdr, remote, sync, state, legacy, edit, adm, file, used>>

\* _consume_import_file, in the finally of the job.
Consume == file' = IF imp.task THEN "consumed" ELSE file

\* A workbook with errors changes nothing.
ImportRefused ==
    /\ imp.pc = "queued" /\ ParseErrors(imp.book)
    /\ imp' = Idle /\ Consume
    /\ UNCHANGED <<eu, hdr, remote, sync, state, legacy, edit, adm, used>>

\* apply_parsed_order_info_match loads the rows of all packages of the orders.
ImportLoad ==
    /\ imp.pc = "parsed"
    /\ imp' = [pc |-> "loaded", task |-> imp.task, updates |-> imp.updates, base |-> hdr,
               rows |-> {p \in Packages : Exists(p) /\ OrderOf[p] \in imp.orders}]
    /\ UNCHANGED <<eu, hdr, remote, sync, state, legacy, edit, adm, file, used>>

\* One commit for all rows; the file is consumed.
ImportCommit ==
    /\ imp.pc = "loaded" /\ \A p \in imp.rows : Free(p)
    /\ hdr' = [p \in Packages |->
                 IF p \in imp.rows
                 THEN Flush(hdr[p], imp.base[p],
                            apply_manual_updates(imp.base[p], imp.updates[OrderOf[p]]))
                 ELSE hdr[p]]
    /\ imp' = Idle /\ Consume
    /\ UNCHANGED <<eu, remote, sync, state, legacy, edit, adm, used>>

\* A failure after the parse: nothing is written; a worker that dies leaves the
\* file as it is.
ImportFail ==
    /\ imp.pc \in {"parsed", "loaded"}
    /\ Input
    /\ imp' = Idle
    /\ Consume \/ (imp.task /\ file' = file)
    /\ UNCHANGED <<eu, hdr, remote, sync, state, legacy, edit, adm>>

-----------------------------------------------------------------------------
(* patch_global with eu_countries *)

\* The row of global_config is read without a lock.
EuRead(a) ==
    /\ adm[a].pc = "idle"
    /\ Input
    /\ \E list \in EuLists : adm' = [adm EXCEPT ![a] = [pc |-> "read", old |-> eu, new |-> list]]
    /\ UNCHANGED <<eu, hdr, remote, sync, state, legacy, edit, imp, file>>

\* The UPDATE of global_config locks its row.  If the list differs from the one
\* read, the backfill follows: its statement finds the rows to be mapped now.
EuUpdate(a) ==
    /\ adm[a].pc = "read" /\ \A b \in Admins : adm[b].pc # "mapping"
    /\ LET list == adm[a].new
           differs(p) == Exists(p) /\ Backfilled(hdr[p], list) # hdr[p]
       IN  adm' = [adm EXCEPT ![a] =
                      [pc |-> "mapping", new |-> list,
                       found |-> {p \in Packages : adm[a].old # list /\ differs(p)}]]
    /\ UNCHANGED <<eu, hdr, remote, sync, state, legacy, edit, imp, file, used>>

\* It waits for those that are locked and maps them as they are then, but not
\* the rows that have come or changed since; then the commit.
EuCommit(a) ==
    /\ adm[a].pc = "mapping" /\ \A p \in adm[a].found : Free(p)
    /\ eu' = adm[a].new
    /\ hdr' = [p \in Packages |->
                 IF p \in adm[a].found /\ Exists(p) THEN Backfilled(hdr[p], eu') ELSE hdr[p]]
    /\ adm' = [adm EXCEPT ![a] = Idle]
    /\ UNCHANGED <<remote, sync, state, legacy, edit, imp, file, used>>

-----------------------------------------------------------------------------

Sync == SyncStart \/ SyncCleanup \/ (\E p \in Packages : SyncUpsert(p)) \/ SyncCommit \/ SyncDone

Edit == (\E e \in Editors : PatchCommit(e)) \/ ImportCommit

OrdersNext ==
    \/ \E p \in Packages : Ship(p)
    \/ SyncStart \/ SyncCleanup \/ SyncCommit \/ SyncDone \/ SyncNoShops \/ SyncFail
    \/ \E p \in Packages : SyncUpsert(p)
    \/ \E e \in Editors : (\E p \in Packages : PatchRead(e, p)) \/ PatchCommit(e)
    \/ Upload \/ ImportParse \/ ImportRefused \/ ImportLoad \/ ImportCommit \/ ImportFail
    \/ \E a \in Admins : EuRead(a) \/ EuUpdate(a) \/ EuCommit(a)

\* The scheduler starts the sync again and again, and the worker executes it.
OrdersSpec == OrdersInit /\ [][OrdersNext]_ordersVars /\ WF_ordersVars(Sync)

-----------------------------------------------------------------------------
(* Properties *)

Protected(row) == <<row.country, row.original, row.postal, row.locked>>

\* A commit of sync_order_list never changes a protected column of a header that
\* is locked by a manual edit at that moment, whenever the edit has committed,
\* and never lifts the lock (order_list.py, _protect_manual_edit_fields).
SyncKeepsEdits ==
    [][SyncCommit => \A p \in Packages :
          Exists(p) /\ hdr[p].locked => Protected(hdr'[p]) = Protected(hdr[p])]_ordersVars

\* A patch or an import that has loaded a header before a sync refreshed it does
\* not bring the old status, or the old items, back with its commit
\* (order_edit.py, _apply_manual_updates and the flush of changed columns).
EditsKeepRefresh ==
    [][Edit => \A p \in Packages :
          Exists(p) => hdr'[p].status = hdr[p].status /\ hdr'[p].items = hdr[p].items]_ordersVars

\* In a header nobody has edited, original_country_code is set only where
\* country_code is EU: the sync and the backfill write the two together, even if
\* they work with different lists of members.
UnlockedMerged ==
    \A p \in Packages :
        Exists(p) /\ ~hdr[p].locked /\ hdr[p].original # NoValue => hdr[p].country = "EU"

\* In the end every header shows the status Saihu has for it, and one that nobody
\* has edited the country that follows from the saved list of EU members: a sync
\* that still writes with an old list, a backfill that did not see a row or that
\* was left out, are made good by the syncs that follow.
Converges ==
    <>[](\A p \in Packages : ~Skipped(remote[p]) =>
           /\ Exists(p) /\ hdr[p].status = remote[p].status
           /\ ~hdr[p].locked => hdr[p].country = apply_eu_mapping(package_country(remote[p]), eu))

=============================================================================
