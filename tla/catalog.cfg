\* The tables beside the orders, one of the four parts at a time.
SPECIFICATION Spec
CONSTANTS
    MaxInputs = 4
    Clients = {c1, c2}
    Names = {"n1", "n2"}
    Articles = {"s1"}
    Quantities = {1}
    Sheets <- MCSheets
    FirstNames <- MCFirstNames
    FirstSheets <- MCFirstSheets
    FirstRow <- MCFirstRow
    NoName = "none"
    Warehouses = {w1, w2}
    Countries = {"DE", "US"}
    EuLists = {{}, {"DE"}}
    BatchSize = 1
    NoCountry = "none"
    Absent = Absent
    Skus = {s1, s2}
    Listings = {l1}
    OldSkus = {s1}
    Requests = {r1, r2}
    Unpaired = Unpaired
    NoListing = NoListing
    Editors = {e1, e2}
    Commodities = {k1}
    Groups = {"g1", "g2"}
    Formulas <- MCFormulas
    Memberships <- MCMemberships
    NoRule = NoRule
    NoGroup = NoGroup
INVARIANTS
    StockIsOneImport CancelledIsNotStock ComponentsDistinct
PROPERTIES
    CountryConverges SkusConfigured
\* Requests stop coming; the parts without a sync then rest.
CHECK_DEADLOCK FALSE
