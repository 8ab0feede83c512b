------------------------------ MODULE Catalog ------------------------------
(***************************************************************************)
(* The tables the engine reads besides orders, with all that write them:   *)
(* overseas stock (ThirdPartyStock), the countries of stock                *)
(* (StockCountry), products and their configuration (ProductMaster), and   *)
(* mapping rules with the groups of shared stock (StockSharing).           *)
(*                                                                         *)
(* The four write different tables and read nothing of each other, so what *)
(* one does does not depend on the others, and each behaviour follows one  *)
(* of them while the rest stand still.                                     *)
(***************************************************************************)
EXTENDS ThirdPartyStock, StockCountry, ProductMaster, StockSharing

VARIABLE area       \* the part this behaviour follows

vars == <<thirdPartyVars, countryVars, productVars, sharingVars, area, used>>

Init ==
    /\ ThirdPartyInit /\ CountryInit /\ ProductInit /\ SharingInit
    /\ used = 0
    /\ area \in {"overseas", "countries", "products", "sharing"}

Overseas == area = "overseas" /\ UNCHANGED <<countryVars, productVars, sharingVars, area>>
InCountries == area = "countries" /\ UNCHANGED <<thirdPartyVars, productVars, sharingVars, area>>
Products == area = "products" /\ UNCHANGED <<thirdPartyVars, countryVars, sharingVars, area>>
Sharing == area = "sharing" /\ UNCHANGED <<thirdPartyVars, countryVars, productVars, area>>

Next ==
    \/ Overseas /\ ThirdPartyNext
    \/ InCountries /\ CountryNext
    \/ Products /\ ProductNext
    \/ Sharing /\ SharingNext

\* The scheduler enqueues the syncs again and again, and a worker runs them.
Fairness ==
    /\ WF_vars(InCountries /\ Pull) /\ WF_vars(InCountries /\ Discover)
    /\ WF_vars(Products /\ Feed)

Spec == Init /\ [][Next]_vars /\ Fairness

-----------------------------------------------------------------------------

\* Whatever countries were assigned and lists saved while a sync was under way, and
\* although an assignment writes the code unmapped and a sync writes what it read at its
\* start: in the end every row of stock carries the country of its warehouse, merged as
\* the list says (sync_inventory, patch_warehouse_country, patch_global).
CountryConverges == (area = "countries") => <>[]Converged

\* A commodity or a paired listing, once it is stored, gets a configuration and so is
\* seen by the engine: although the creation can lose a race against a user's request, on
\* which the whole transaction of the sync is rolled back, and although a sync may fail
\* between its two transactions (_insert_missing_sku_configs).
SkusConfigured ==
    (area = "products") => \A s \in Skus : (s \in Stored) ~> (s \in Configured)
=============================================================================
