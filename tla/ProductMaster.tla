--------------------------- MODULE ProductMaster ---------------------------
(***************************************************************************)
(* The products and their configuration (sync/product_listing.py, the SKU  *)
(* part of api/config.py).  sync_product_listing stores the commodities of *)
(* Saihu, then its listings, each in one transaction that also creates the *)
(* configurations that are missing; a user can ask for those at any time,  *)
(* and edits them.  The engine only sees SKUs that have one.               *)
(*                                                                         *)
(* Rows from before the configurations were created with them may be there.*)
(***************************************************************************)
EXTENDS Inputs, FiniteSets

CONSTANTS
    Skus,
    Listings,       \* keys of product_listing
    OldSkus,        \* commodities without a configuration, from earlier releases
    Requests,       \* requests to create what is missing
    Unpaired,       \* the commodity_sku of a listing without a commodity
    NoListing

VARIABLES
    offered,        \* commodities at Saihu
    paired,         \* listings at Saihu, with their commodity
    commodity,      \* commodity_master
    listing,        \* product_listing
    config,         \* sku_config: "none", or enabled "on" or "off"
    feed,           \* the execution of sync_product_listing
    ask            \* the requests

productVars == <<offered, paired, commodity, listing, config, feed, ask>>

Waiting == [pc |-> "idle"]
Configured == {s \in Skus : config[s] # "none"}
SkusOf(rows) == {rows[l] : l \in Listings} \cap Skus

ProductInit ==
    /\ offered = OldSkus /\ commodity = OldSkus
    /\ paired = [l \in Listings |-> NoListing]
    /\ listing = [l \in Listings |-> NoListing]
    /\ config = [s \in Skus |-> "none"]
    /\ feed = Waiting
    /\ ask = [r \in Requests |-> Waiting]

\* A product appears at Saihu, a listing appears or is paired with another product.
Launch(s) ==
    /\ Input
    /\ s \notin offered
    /\ offered' = offered \cup {s}
    /\ UNCHANGED <<paired, commodity, listing, config, feed, ask>>

Pair(l, s) ==
    /\ Input
    /\ paired[l] # s
    /\ paired' = [paired EXCEPT ![l] = s]
    /\ UNCHANGED <<offered, commodity, listing, config, feed, ask>>

-----------------------------------------------------------------------------
(* sync_product_listing *)

\* Mutant: only the SKUs of this run are looked at, and those are not compared
\* with what an earlier run has stored.
MissingOfRun(rows) == (rows \ commodity) \ Configured

\* _insert_missing_sku_configs: what is not configured at the time of the query.
Missing(rows) == rows \ Configured

\* A plain INSERT of what was found missing; the primary key refuses a SKU that was
\* configured since.
Inserts(missing) == missing \cap Configured = {}
WithConfigs(missing) == [s \in Skus |-> IF s \in missing THEN "on" ELSE config[s]]

\* Upserts of all commodities; the missing configurations are looked up.
upsert_commodities ==
    /\ feed.pc = "idle"
    /\ feed' = [pc |-> "commodities", rows |-> commodity \cup offered,
                missing |-> Missing(commodity \cup offered)]
    /\ UNCHANGED <<offered, paired, commodity, listing, config, ask, used>>

backfill_sku_configs_from_commodities ==
    /\ feed.pc = "commodities"
    /\ IF Inserts(feed.missing)
       THEN /\ commodity' = feed.rows
            /\ config' = WithConfigs(feed.missing)
            /\ feed' = [pc |-> "listings"]
       ELSE /\ feed' = Waiting
            /\ UNCHANGED <<commodity, config>>
    /\ UNCHANGED <<offered, paired, listing, ask, used>>

\* Upserts of all listings, unpaired ones with them.
upsert_listings ==
    LET rows == [l \in Listings |-> IF paired[l] = NoListing THEN listing[l] ELSE paired[l]]
    IN  /\ feed.pc = "listings"
        /\ feed' = [pc |-> "backfill", rows |-> rows, missing |-> Missing(SkusOf(rows))]
        /\ UNCHANGED <<offered, paired, commodity, listing, config, ask, used>>

backfill_sku_configs_from_synced_listings ==
    /\ feed.pc = "backfill"
    /\ IF Inserts(feed.missing)
       THEN listing' = feed.rows /\ config' = WithConfigs(feed.missing)
       ELSE UNCHANGED <<listing, config>>
    /\ feed' = Waiting
    /\ UNCHANGED <<offered, paired, commodity, ask, used>>

\* Saihu or the database fails: the open transaction is rolled back.
FeedFails ==
    /\ Input
    /\ feed.pc # "idle"
    /\ feed' = Waiting
    /\ UNCHANGED <<offered, paired, commodity, listing, config, ask>>

-----------------------------------------------------------------------------
(* Users *)

\* init_sku_configs_from_listings: the commodities, or the listings when there are none.
InitRead(r) ==
    LET codes == IF commodity # {} THEN commodity ELSE SkusOf(listing)
    IN  /\ ask[r].pc = "idle"
        /\ Input
        /\ codes \ Configured # {}
        /\ ask' = [ask EXCEPT ![r] = [pc |-> "missing", codes |-> codes \ Configured]]
        /\ UNCHANGED <<offered, paired, commodity, listing, config, feed>>

init_sku_configs_from_listings(r) ==
    /\ ask[r].pc = "missing"
    /\ config' = IF Inserts(ask[r].codes) THEN WithConfigs(ask[r].codes) ELSE config
    /\ ask' = [ask EXCEPT ![r] = Waiting]
    /\ UNCHANGED <<offered, paired, commodity, listing, feed, used>>

patch_sku_config(s) ==
    /\ Input
    /\ config[s] # "none"
    /\ config' = [config EXCEPT ![s] = IF @ = "on" THEN "off" ELSE "on"]
    /\ UNCHANGED <<offered, paired, commodity, listing, feed, ask>>

Feed ==
    \/ upsert_commodities \/ backfill_sku_configs_from_commodities
    \/ upsert_listings \/ backfill_sku_configs_from_synced_listings

ProductNext ==
    \/ Feed \/ FeedFails
    \/ \E s \in Skus : Launch(s) \/ patch_sku_config(s)
    \/ \E l \in Listings, s \in Skus \cup {Unpaired} : Pair(l, s)
    \/ \E r \in Requests : InitRead(r) \/ init_sku_configs_from_listings(r)

Stored == commodity \cup SkusOf(listing)
=============================================================================
