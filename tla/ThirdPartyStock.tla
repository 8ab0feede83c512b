-------------------------- MODULE ThirdPartyStock --------------------------
(***************************************************************************)
(* Stock in overseas warehouses (services/third_party_inventory.py, the    *)
(* third-party part of api/data.py): workbooks are previewed as a batch,   *)
(* and a batch that is confirmed replaces the whole current stock; users   *)
(* also edit single rows and the warehouses.                               *)
(*                                                                         *)
(* Requests overlap; each is a transaction under READ COMMITTED.  Those    *)
(* that write what they have read before have two steps.  Available and    *)
(* reserved quantities are treated alike and are one number here; the      *)
(* country of a warehouse plays no part.                                   *)
(***************************************************************************)
EXTENDS Inputs, Sequences, FiniteSets, FiniteSetsExt

CONSTANTS
    Clients,      \* requests under way at a time
    Names,        \* names of warehouses
    Articles,     \* commodity SKUs
    Sheets,       \* workbooks: sequences of rows with name, sku, qty and ok
    Quantities,   \* what a user may enter
    FirstNames,   \* the warehouses to start with
    FirstSheets,  \* the workbooks that wait for confirmation
    FirstRow,     \* a row of stock entered by hand
    NoName       \* the place of a deleted warehouse

\* Workbooks are finite; the row to start with was entered by hand.
ASSUME ThirdPartyAssumption ==
    /\ FirstNames \in Seq(Names)
    /\ FirstSheets \in Seq(Range(FirstSheets))
    /\ \A sheet \in Sheets \cup Range(FirstSheets) :
          IsFiniteSet(DOMAIN sheet) /\ \A i \in DOMAIN sheet : sheet[i].ok \in BOOLEAN
    /\ DOMAIN FirstRow = {"id", "wh", "sku", "qty", "src"} /\ FirstRow.id = 1 /\ FirstRow.src = 0

VARIABLES
    warehouse,    \* third_party_warehouse: the name of each id
    batch,        \* third_party_inventory_import_batch with its items
    stock,        \* third_party_inventory_current
    serial,       \* ids of rows of stock given so far
    client,       \* requests
    crossed,      \* history: the last import overlapped with another
    overtaken    \* history: batches confirmed while a cancellation was under way

thirdPartyVars == <<warehouse, batch, stock, serial, client, crossed, overtaken>>

Idle == [pc |-> "idle"]

\* The requests are alike: one that is free takes the next.
Takes(c) == client[c].pc = "idle" /\ c = CHOOSE free \in Clients : client[free].pc = "idle"
Ends(c) == client' = [client EXCEPT ![c] = Idle]

Ids == {w \in DOMAIN warehouse : warehouse[w] # NoName}
IdOf(name) == IF \E w \in Ids : warehouse[w] = name
              THEN CHOOSE w \in Ids : warehouse[w] = name ELSE 0
KeyOf(r) == <<r.wh, r.sku>>

\* Rows with an error are kept in the batch and never imported.
Valid(items) == {i \in DOMAIN items : items[i].ok}
NamesOf(items) == {items[i].name : i \in Valid(items)}
Quantity(items) == [i \in DOMAIN items |-> items[i].qty]

\* The items as create_import_preview stores them.
Linked(sheet) ==
    [i \in DOMAIN sheet |->
        [name |-> sheet[i].name, sku |-> sheet[i].sku, qty |-> sheet[i].qty, ok |-> sheet[i].ok,
         wh |-> IF sheet[i].name \in NamesOf(sheet) THEN IdOf(sheet[i].name) ELSE 0]]

ThirdPartyInit ==
    /\ warehouse = FirstNames
    /\ batch = [b \in DOMAIN FirstSheets |-> [status |-> "pending", items |-> Linked(FirstSheets[b])]]
    /\ stock = {FirstRow}
    /\ serial = 1
    /\ client = [c \in Clients |-> Idle]
    /\ crossed = FALSE /\ overtaken = {}

-----------------------------------------------------------------------------
(* Imports *)

\* parse_third_party_inventory_workbook, and the warehouses known by name.
PreviewRead(c) ==
    /\ Takes(c)
    /\ Input
    /\ \E sheet \in Sheets : client' = [client EXCEPT ![c] = [pc |-> "preview", items |-> Linked(sheet)]]
    /\ UNCHANGED <<warehouse, batch, stock, serial, crossed, overtaken>>

\* The batch and its items; the foreign key refuses a warehouse that is gone.
create_import_preview(c) ==
    LET items == client[c].items
    IN  /\ client[c].pc = "preview"
        /\ batch' = IF \A i \in DOMAIN items : items[i].wh \in Ids \cup {0}
                    THEN Append(batch, [status |-> "pending", items |-> items]) ELSE batch
        /\ Ends(c)
        /\ UNCHANGED <<warehouse, stock, serial, crossed, overtaken, used>>

\* confirm_import_batch up to the warehouses it finds; nothing is locked.
ConfirmRead(c, b) ==
    /\ Takes(c)
    /\ Input
    /\ batch[b].status = "pending" /\ Valid(batch[b].items) # {}
    /\ client' = [client EXCEPT ![c] =
          [pc |-> "confirm", batch |-> b, items |-> batch[b].items, gone |-> {}, late |-> FALSE,
           found |-> [n \in NamesOf(batch[b].items) |-> IdOf(n)]]]
    /\ UNCHANGED <<warehouse, batch, stock, serial, crossed, overtaken>>

\* DELETE of the whole table: of the rows that are committed by now.
ConfirmDelete(c) ==
    /\ client[c].pc = "confirm"
    /\ client' = [client EXCEPT ![c].pc = "deleted", ![c].gone = {r.id : r \in stock}]
    /\ UNCHANGED <<warehouse, batch, stock, serial, crossed, overtaken, used>>

\* The warehouse of a name: found, or one of those to be created.
TargetOf(c, name) ==
    LET found == client[c].found
        new == {n \in DOMAIN found : found[n] = 0}
    IN  IF found[name] # 0 THEN found[name]
        ELSE Len(warehouse) + (CHOOSE f \in [new -> 1..Cardinality(new)] :
                                  \A m, n \in new : f[m] = f[n] => m = n)[name]

\* Mutant: of several rows with one key the largest counts.
TotalsOfLargest(c) ==
    LET items == batch[client[c].batch].items
        Key(i) == <<TargetOf(c, items[i].name), items[i].sku>>
    IN  [k \in {Key(i) : i \in Valid(items)} |->
            Max({items[i].qty : i \in {j \in Valid(items) : Key(j) = k}})]

\* The quantities of the valid items, added up by warehouse and SKU.
Totals(c) ==
    LET items == batch[client[c].batch].items
        Key(i) == <<TargetOf(c, items[i].name), items[i].sku>>
    IN  [k \in {Key(i) : i \in Valid(items)} |->
            SumFunctionOnSet(Quantity(items), {j \in Valid(items) : Key(j) = k})]

\* Rows of a function from keys to quantities, with ids in some order.
RowsOf(totals, b) ==
    LET number == CHOOSE f \in [DOMAIN totals -> 1..Cardinality(DOMAIN totals)] :
                      \A j, k \in DOMAIN totals : f[j] = f[k] => j = k
    IN  {[id |-> serial + number[k], wh |-> k[1], sku |-> k[2], qty |-> totals[k], src |-> b] :
            k \in DOMAIN totals}

\* What is left by the time of the INSERT: rows committed since the DELETE.
Left(c) == {r \in stock : r.id \notin client[c].gone}

\* The unique names, the foreign key and the unique key of the stock.
Imports(c) ==
    /\ \A n \in DOMAIN client[c].found :
          IF client[c].found[n] = 0 THEN IdOf(n) = 0 ELSE client[c].found[n] \in Ids
    /\ {KeyOf(r) : r \in Left(c)} \cap DOMAIN Totals(c) = {}

\* The link of an item is written if it differs from the one that was read.
Relinked(c, i) ==
    LET now == batch[client[c].batch].items[i]
        target == TargetOf(c, now.name)
    IN  IF now.ok /\ client[c].items[i].wh # target THEN [now EXCEPT !.wh = target] ELSE now

\* Confirmations past their DELETE, and others of the same batch.
Overlaps(d, b) == client[d].pc = "deleted" \/ (client[d].pc = "confirm" /\ client[d].batch = b)

\* INSERT of warehouses and stock, the links of the items, the status.  It is
\* "applied" whatever it has become since it was read.
ConfirmCommit(c) ==
    LET b == client[c].batch
        items == batch[b].items
        new == {n \in DOMAIN client[c].found : client[c].found[n] = 0}
    IN  /\ client[c].pc = "deleted" /\ Imports(c)
        /\ warehouse' = warehouse \o [k \in 1..Cardinality(new) |->
                            CHOOSE n \in new : TargetOf(c, n) = Len(warehouse) + k]
        /\ stock' = Left(c) \cup RowsOf(Totals(c), b)
        /\ serial' = serial + Cardinality(DOMAIN Totals(c))
        /\ batch' = [batch EXCEPT ![b] =
              [status |-> "applied",
               items |-> [i \in DOMAIN items |-> Relinked(c, i)]]]
        /\ client' = [d \in Clients |->
              IF d = c THEN Idle
              ELSE IF Overlaps(d, b) THEN [client[d] EXCEPT !.late = TRUE] ELSE client[d]]
        /\ crossed' = client[c].late
        /\ overtaken' = overtaken \cup
              {b2 \in {b} : \E d \in Clients : client[d].pc = "cancel" /\ client[d].batch = b2}
        /\ UNCHANGED used

\* A constraint is violated, and all of it is rolled back.
ConfirmFails(c) ==
    /\ client[c].pc = "deleted" /\ ~Imports(c)
    /\ Ends(c)
    /\ UNCHANGED <<warehouse, batch, stock, serial, crossed, overtaken, used>>

\* Mutant: the status is not looked at.
CancelAny(b) == TRUE

Cancellable(b) == batch[b].status = "pending"

CancelRead(c, b) ==
    /\ Takes(c)
    /\ Input
    /\ Cancellable(b)
    /\ client' = [client EXCEPT ![c] = [pc |-> "cancel", batch |-> b]]
    /\ UNCHANGED <<warehouse, batch, stock, serial, crossed, overtaken>>

\* Written whatever the status has become since it was read.
expire_pending_batch(c) ==
    /\ client[c].pc = "cancel"
    /\ batch' = [batch EXCEPT ![client[c].batch].status = "expired"]
    /\ Ends(c)
    /\ UNCHANGED <<warehouse, stock, serial, crossed, overtaken, used>>

-----------------------------------------------------------------------------
(* Edits of single rows *)

\* A row that an open import has deleted is locked for other writers.
Locked(r) == \E c \in Clients : client[c].pc = "deleted" /\ r.id \in client[c].gone

\* INSERT ... ON CONFLICT DO UPDATE.
upsert_current_item(w, sku, qty) ==
    LET old == {r \in stock : KeyOf(r) = <<w, sku>>}
        id == IF old = {} THEN serial + 1 ELSE (CHOOSE r \in old : TRUE).id
    IN  /\ Input
        /\ \A r \in old : ~Locked(r)
        /\ stock' = (stock \ old) \cup {[id |-> id, wh |-> w, sku |-> sku, qty |-> qty, src |-> 0]}
        /\ serial' = IF old = {} THEN serial + 1 ELSE serial
        /\ UNCHANGED <<warehouse, batch, client, crossed, overtaken>>

\* patch_current_item loads the row; it will be one entered by hand.
PatchRead(c, r) ==
    /\ Takes(c)
    /\ Input
    /\ \E w \in Ids, sku \in Articles, qty \in Quantities \cup {r.qty} :
          client' = [client EXCEPT ![c] =
              [pc |-> "patch", base |-> r,
               new |-> [id |-> r.id, wh |-> w, sku |-> sku, qty |-> qty, src |-> 0]]]
    /\ UNCHANGED <<warehouse, batch, stock, serial, crossed, overtaken>>

\* The columns that differ from the row as loaded; a row that is gone, a key that
\* is taken or a warehouse that is gone is a conflict.
patch_current_item(c) ==
    LET base == client[c].base
        new == client[c].new
        now == {r \in stock : r.id = base.id}
        Flushed(r) == [f \in DOMAIN r |-> IF new[f] # base[f] THEN new[f] ELSE r[f]]
        row == Flushed(CHOOSE r \in now : TRUE)
    IN  /\ client[c].pc = "patch"
        /\ \A r \in now : ~Locked(r)
        /\ stock' = IF now # {} /\ row.wh \in Ids /\ KeyOf(row) \notin {KeyOf(r) : r \in stock \ now}
                    THEN (stock \ now) \cup {row} ELSE stock
        /\ Ends(c)
        /\ UNCHANGED <<warehouse, batch, serial, crossed, overtaken, used>>

delete_current_item(r) ==
    /\ Input
    /\ ~Locked(r)
    /\ stock' = stock \ {r}
    /\ UNCHANGED <<warehouse, batch, serial, client, crossed, overtaken>>

-----------------------------------------------------------------------------
(* Warehouses *)

\* sync_import_items_warehouse_id: items of the name without a warehouse.
LinkedTo(w, name) ==
    [b \in DOMAIN batch |->
        LET items == batch[b].items
        IN  [batch[b] EXCEPT !.items =
                [i \in DOMAIN items |-> IF items[i].ok /\ items[i].name = name /\ items[i].wh = 0
                                        THEN [items[i] EXCEPT !.wh = w] ELSE items[i]]]]

create_third_party_warehouse(name) ==
    /\ Input
    /\ IdOf(name) = 0
    /\ warehouse' = Append(warehouse, name)
    /\ batch' = LinkedTo(Len(warehouse) + 1, name)
    /\ UNCHANGED <<stock, serial, client, crossed, overtaken>>

\* Another name, or the same one with another country: in both cases the items of the
\* name that have no warehouse are linked; rows of stock and linked items stay with the id.
patch_third_party_warehouse(w, name) ==
    /\ Input
    /\ IdOf(name) \in {0, w}
    /\ warehouse' = [warehouse EXCEPT ![w] = name]
    /\ batch' = LinkedTo(w, name)
    /\ UNCHANGED <<stock, serial, client, crossed, overtaken>>

\* Neither stock nor history; the foreign keys see to it at the DELETE.
delete_third_party_warehouse(w) ==
    /\ Input
    /\ \A r \in stock : r.wh # w
    /\ \A b \in DOMAIN batch : \A i \in DOMAIN batch[b].items : batch[b].items[i].wh # w
    /\ warehouse' = [warehouse EXCEPT ![w] = NoName]
    /\ UNCHANGED <<batch, stock, serial, client, crossed, overtaken>>

ThirdPartyNext ==
    \/ \E c \in Clients :
          \/ PreviewRead(c) \/ create_import_preview(c)
          \/ ConfirmDelete(c) \/ ConfirmCommit(c) \/ ConfirmFails(c)
          \/ expire_pending_batch(c) \/ patch_current_item(c)
          \/ \E b \in DOMAIN batch : ConfirmRead(c, b) \/ CancelRead(c, b)
          \/ \E r \in stock : PatchRead(c, r)
    \/ \E w \in Ids, sku \in Articles, qty \in Quantities : upsert_current_item(w, sku, qty)
    \/ \E r \in stock : delete_current_item(r)
    \/ \E name \in Names : create_third_party_warehouse(name)
    \/ \E w \in Ids, name \in Names : patch_third_party_warehouse(w, name)
    \/ \E w \in Ids : delete_third_party_warehouse(w)

\* This part on its own: all that Catalog says of its variables.
ThirdPartySpec == ThirdPartyInit /\ [][ThirdPartyNext]_thirdPartyVars

-----------------------------------------------------------------------------
(* Properties *)

Imported == {r \in stock : r.src # 0}

\* What the items of a batch that have the warehouse and the SKU add up to.
SumOf(items, w, sku) ==
    SumFunctionOnSet(Quantity(items), {i \in Valid(items) : items[i].wh = w /\ items[i].sku = sku})

\* The imported stock is that of one batch, each row with the total of the batch's items
\* for its warehouse and SKU, whatever was edited or renamed meanwhile
\* (confirm_import_batch).  Only confirmations that overlap mix their stock: both past
\* their DELETE, or both of one batch.
StockIsOneImport ==
    ~crossed =>
        /\ \A r \in Imported : r.qty = SumOf(batch[r.src].items, r.wh, r.sku)
        /\ \A q, r \in Imported : q.src = r.src

\* Stock in force never comes from a batch that reads as cancelled ("expired"), but for a
\* cancellation that had read "pending" before the batch was confirmed
\* (expire_pending_batch, confirm_import_batch).
CancelledIsNotStock ==
    \A r \in Imported : batch[r.src].status = "applied" \/ r.src \in overtaken
=============================================================================
