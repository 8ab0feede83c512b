---------------------------- MODULE StockCountry ----------------------------
(***************************************************************************)
(* The country that rows of stock carry.  Warehouses come from Saihu       *)
(* without one (sync/warehouse.py); a user assigns it (api/config.py);     *)
(* sync_inventory copies it, EU members merged into "EU", to the rows of   *)
(* inventory_snapshot_latest (sync/inventory.py); a change of the list of  *)
(* EU members maps the rows again (core/country_mapping.py).               *)
(*                                                                         *)
(* One row a warehouse; quantities are left out, as no one but the sync    *)
(* writes them.  Two overlapping changes of the EU list are in Orders.     *)
(***************************************************************************)
EXTENDS Inputs, FiniteSets, TLC

CONSTANTS
    Warehouses,
    Countries,      \* country codes a user may assign
    EuLists,        \* lists of EU members an administrator may save
    BatchSize,      \* rows to a commit, 500 in the code
    NoCountry, Absent

VARIABLES
    eu,             \* global_config.eu_countries
    country,        \* warehouse.country, Absent before the warehouse is known
    inv,            \* inventory_snapshot_latest
    pull           \* the execution of sync_inventory

countryVars == <<eu, country, inv, pull>>

Resting == [pc |-> "idle"]

apply_eu_mapping(c, list) == IF c \in list THEN "EU" ELSE c
RowFor(c, list) == [country |-> apply_eu_mapping(c, list),
                    original |-> IF c \in list THEN c ELSE NoCountry]

CountryInit ==
    /\ eu \in EuLists
    /\ country = [w \in Warehouses |-> Absent]
    /\ inv = [w \in Warehouses |-> Absent]
    /\ pull = Resting

\* sync_warehouse, one warehouse: a new one has no country, that of a known one stays.
upsert_warehouse(w) ==
    /\ country[w] = Absent
    /\ country' = [country EXCEPT ![w] = NoCountry]
    /\ UNCHANGED <<eu, inv, pull, used>>

-----------------------------------------------------------------------------
(* sync_inventory *)

load_warehouse_countries ==
    /\ pull.pc = "idle"
    /\ pull' = [pc |-> "countries", map |-> country]
    /\ UNCHANGED <<eu, country, inv, used>>

load_eu_countries ==
    /\ pull.pc = "countries"
    /\ pull' = [pc |-> "rows", map |-> pull.map, list |-> eu, todo |-> Warehouses,
                open |-> <<>>, count |-> 0]
    /\ UNCHANGED <<eu, country, inv, used>>

\* Mutant: a row that exists keeps its country.
UpsertNewOnly(w) ==
    IF pull.map[w] = Absent THEN pull.open
    ELSE w :> (IF inv[w] = Absent THEN RowFor(pull.map[w], pull.list) ELSE inv[w]) @@ pull.open

\* The rows of the open transaction with that of w; a warehouse that was not known is skipped.
Upserted(w) ==
    IF pull.map[w] = Absent THEN pull.open
    ELSE w :> RowFor(pull.map[w], pull.list) @@ pull.open

\* Is the batch full?  A skipped row counts.
Full == pull.count > 0 /\ pull.count % BatchSize = 0

upsert_inventory(w) ==
    /\ pull.pc = "rows" /\ w \in pull.todo
    /\ ~Full \/ pull.open = <<>>
    /\ pull' = [pull EXCEPT !.open = Upserted(w), !.todo = @ \ {w}, !.count = @ + 1]
    /\ UNCHANGED <<eu, country, inv, used>>

PullCommit ==
    /\ pull.pc = "rows"
    /\ (Full /\ pull.open # <<>>) \/ pull.todo = {}
    /\ inv' = pull.open @@ inv
    /\ pull' = IF pull.todo = {} THEN Resting ELSE [pull EXCEPT !.open = <<>>]
    /\ UNCHANGED <<eu, country, used>>

\* A page cannot be had: the open rows are lost, the committed ones stay.
PullFails ==
    /\ Input
    /\ pull.pc = "rows"
    /\ pull' = Resting
    /\ UNCHANGED <<eu, country, inv>>

-----------------------------------------------------------------------------
(* Users *)

\* Rows the open transaction has written; a row it has inserted is not visible.
Held(w) == pull.pc = "rows" /\ w \in DOMAIN pull.open /\ inv[w] # Absent

\* The warehouse and its row; the row gets the code as it is and keeps its original.
patch_warehouse_country(w, c) ==
    /\ Input
    /\ country[w] # Absent /\ ~Held(w)
    /\ country' = [country EXCEPT ![w] = c]
    /\ inv' = IF inv[w] = Absent THEN inv ELSE [inv EXCEPT ![w].country = c]
    /\ UNCHANGED <<eu, pull>>

\* coalesce(original, country) decides; rows with neither are left.
Backfilled(row, list) ==
    LET source == IF row.original # NoCountry THEN row.original ELSE row.country
    IN  IF source = NoCountry THEN row ELSE RowFor(source, list)

\* patch_global with another list of EU members.
patch_eu_countries(list) ==
    /\ Input
    /\ list # eu
    /\ \A w \in Warehouses : ~Held(w)
    /\ eu' = list
    /\ inv' = [w \in Warehouses |-> IF inv[w] = Absent THEN Absent ELSE Backfilled(inv[w], list)]
    /\ UNCHANGED <<country, pull>>

Pull ==
    \/ load_warehouse_countries \/ load_eu_countries \/ PullCommit
    \/ \E w \in Warehouses : upsert_inventory(w)

Discover == \E w \in Warehouses : upsert_warehouse(w)

CountryNext ==
    \/ Pull \/ PullFails \/ Discover
    \/ \E w \in Warehouses, c \in Countries \cup {NoCountry} : patch_warehouse_country(w, c)
    \/ \E list \in EuLists : patch_eu_countries(list)

-----------------------------------------------------------------------------

\* The row of every warehouse carries its country, merged as the list says.
Converged == \A w \in Warehouses : inv[w] # Absent /\ inv[w] = RowFor(country[w], eu)
=============================================================================
