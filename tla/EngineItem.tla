----------------------------- MODULE EngineItem -----------------------------
(***************************************************************************)
(* How run_engine (engine/runner.py) arrives at the item of one SKU: the   *)
(* velocity of its sales (step 1), the stock overseas (step 2), what each  *)
(* country needs (step 3), what to buy (step 4), the split over warehouses *)
(* (step 5) and the urgency (step 6).                                      *)
(*                                                                         *)
(* Each step reads the tables when it runs, READ COMMITTED, so an order    *)
(* sync can commit between two of them.  Velocities are exact fractions    *)
(* here, in 1/2100 units a day; the code has floats, which can only matter *)
(* where the exact value is whole, and there they may round up one more.   *)
(***************************************************************************)
EXTENDS WarehouseSplit, StockMapping

CONSTANTS
    Countries, Allowed,     \* countries in play, and those of restock_regions
    TargetDays, SafetyDays, \* effective_target_days, safety_stock_days
    OrderLines,             \* order lines: records [country, age, qty, zip], age in days
    OrderBooks, LateOrders, \* sequences of them at the start; lines a sync may add
    Stocks,                 \* direct overseas and in-transit stock, -1: no record
    Mappings,               \* the country, mapping rules, components, rival velocities
    Locals, Leads,          \* domestic stock; lead times
    Eligible,               \* the warehouses with zipcode rules, of each country
    RuleBooks               \* zipcode rules

Sku == 1                    \* the SKU that is followed, among those of the rules

\* A mapping as the tables hold it: every group names components, of each at
\* least one unit (ck_sku_mapping_component_quantity_positive).
IsMapping(m) ==
    /\ m.country \in Countries
    /\ IsFiniteSet(DOMAIN m.rules) /\ DOMAIN m.rules \subseteq Int /\ Sku \in DOMAIN m.rules
    /\ \A s \in DOMAIN m.rules :
          /\ s # Sku => m.rivals[s] \in Nat
          /\ IsFiniteSet(m.rules[s])
          /\ \A g \in m.rules[s] : DOMAIN g # {} /\ \A c \in DOMAIN g : g[c] \in Nat \ {0}
    /\ IsFiniteSet(DOMAIN m.stock)
    /\ \A key \in DOMAIN m.stock : key = <<key[1], key[2]>> /\ m.stock[key] \in Int

ASSUME EngineAssumption ==
    /\ Allowed \subseteq Countries
    /\ TargetDays \in Nat \ {0} /\ SafetyDays \in Nat /\ Leads \subseteq Nat
    /\ \A line \in OrderLines : line.qty \in Int
    /\ OrderBooks \subseteq Seq(OrderLines) /\ LateOrders \subseteq OrderLines
    /\ Stocks \subseteq [Countries -> Int]
    /\ \A m \in Mappings : IsMapping(m)
    /\ \A c \in Countries : Len(Eligible[c]) \in Nat /\ DOMAIN Eligible[c] = 1..Len(Eligible[c])

VARIABLES
    phase,      \* what is done: start, velocity, stock, qty, purchase, item, nothing
    orders,     \* the order lines
    synced,     \* history: an order sync has committed since step 1
    velocity,   \* of each country, in 1/2100
    inventory,  \* of each country, -1: no record
    mapping,    \* the member of Mappings that step 2 has read
    mapped,     \* its assembled stock
    qty,        \* country_breakdown, 0: no entry
    purchase,   \* purchase_qty
    local,      \* domestic stock step 4 has read
    samples,    \* of each country: what step 5 made of the orders
    split,      \* of each country: mode and quantities
    rules,      \* the zipcode rules step 5 has read
    lead, urgent, warned

vars == <<phase, orders, synced, velocity, inventory, mapping, mapped, qty, purchase, local,
          samples, split, rules, lead, urgent, warned>>

Unit == 2100

\* is_in_window: the n days up to yesterday.
InWindow(line, n) == line.age \in 1..n

\* The lines both queries select: 30 days, a reportable country, and a positive
\* quantity.
Selected(c) == {i \in DOMAIN orders : orders[i].country = c /\ InWindow(orders[i], 30)
                                      /\ orders[i].qty > 0}

Sold(c, n) == Total([i \in {i \in Selected(c) : InWindow(orders[i], n)} |-> orders[i].qty])

CeilDiv(n, d) == (n + d - 1) \div d

\* math.ceil of a float: the ceiling, or one more where the value is whole.
Ceils(n) == {CeilDiv(n, Unit)} \cup (IF n % Unit = 0 THEN {n \div Unit + 1} ELSE {})

Init ==
    /\ phase = "start"
    /\ orders \in OrderBooks
    /\ synced = "no"
    /\ velocity = [c \in Countries |-> 0]
    /\ inventory = [c \in Countries |-> -1]
    /\ mapping = "none" /\ mapped = -1
    /\ qty = [c \in Countries |-> 0]
    /\ purchase = 0 /\ local = 0
    /\ samples = <<>> /\ split = <<>> /\ rules = {}
    /\ lead = 0 /\ urgent = "no" /\ warned = {}

\* A sync of the orders commits another line.
OrdersSynced ==
    /\ phase \in {"velocity", "stock", "qty", "purchase"} /\ synced = "no"
    /\ \E line \in LateOrders : orders' = Append(orders, line)
    /\ synced' = "yes"
    /\ UNCHANGED <<phase, velocity, inventory, mapping, mapped, qty, purchase, local, samples,
                   split, rules, lead, urgent, warned>>

\* compute_velocity: day7/7 * 0.5 + day14/14 * 0.3 + day30/30 * 0.2.
Step1 ==
    /\ phase = "start" /\ phase' = "velocity"
    /\ velocity' = [c \in Countries |->
                       150 * Sold(c, 7) + 45 * Sold(c, 14) + 14 * Sold(c, 30)]
    /\ UNCHANGED <<orders, synced, inventory, mapping, mapped, qty, purchase, local, samples,
                   split, rules, lead, urgent, warned>>

\* The velocities the components are shared by: this SKU's, and those of the rivals.
Weight(m) == [s \in DOMAIN m.rules |-> IF s = Sku THEN velocity[m.country] ELSE m.rivals[s]]

\* run_step2: direct stock and transit, and what can be assembled from components.
Step2 ==
    /\ phase = "velocity" /\ phase' = "stock"
    /\ \E direct \in Stocks, m \in Mappings :
          LET built == MappedStock(m.rules, m.stock, Weight(m), Sku)
          IN  /\ mapping' = m /\ mapped' = built
              /\ inventory' = [direct EXCEPT ![m.country] =
                                  IF built = -1 THEN @ ELSE IF @ = -1 THEN built ELSE @ + built]
    /\ UNCHANGED <<orders, synced, velocity, qty, purchase, local, samples, split, rules, lead,
                   urgent, warned>>

\* Stock that is short of the target, in 1/2100.
Short(c) == TargetDays * velocity[c] - Unit * inventory[c]

\* Mutant: the quantity is rounded down.
Step3Floor ==
    /\ phase = "stock" /\ phase' = "qty"
    /\ qty' = [c \in Countries |->
                  IF c \in Allowed /\ velocity[c] > 0 /\ inventory[c] # -1 /\ Short(c) > 0
                  THEN Short(c) \div Unit ELSE 0]
    /\ warned' = {c \in Allowed : velocity[c] > 0 /\ inventory[c] = -1}
    /\ UNCHANGED <<orders, synced, velocity, inventory, mapping, mapped, purchase, local, samples,
                   split, rules, lead, urgent>>

\* Mutant: a country without a stock record is dropped without a warning.
Step3Silent ==
    /\ phase = "stock" /\ phase' = "qty"
    /\ qty' = [c \in Countries |->
                  IF c \in Allowed /\ velocity[c] > 0 /\ inventory[c] # -1 /\ Short(c) > 0
                  THEN CeilDiv(Short(c), Unit) ELSE 0]
    /\ warned' = {}
    /\ UNCHANGED <<orders, synced, velocity, inventory, mapping, mapped, purchase, local, samples,
                   split, rules, lead, urgent>>

\* compute_country_qty for the allowed countries, and the countries that sell
\* without a stock record, which get a warning and no quantity.
Step3 ==
    /\ phase = "stock" /\ phase' = "qty"
    /\ \E up \in [Countries -> BOOLEAN] :
          qty' = [c \in Countries |->
                     IF c \in Allowed /\ velocity[c] > 0 /\ inventory[c] # -1 /\ Short(c) >= 0
                     THEN IF up[c] /\ Short(c) % Unit = 0 THEN Short(c) \div Unit + 1
                                                          ELSE CeilDiv(Short(c), Unit)
                     ELSE 0]
    /\ warned' = {c \in Allowed : velocity[c] > 0 /\ inventory[c] = -1}
    /\ UNCHANGED <<orders, synced, velocity, inventory, mapping, mapped, purchase, local, samples,
                   split, rules, lead, urgent>>

\* compute_total; without a purchase and a restock there is no item.
Step4 ==
    /\ phase = "qty"
    /\ \E l \in Locals, safety \in Ceils(SafetyDays * Total(velocity)) :
          LET raw == Total(qty) - l + safety
          IN  local' = l /\ purchase' = (IF raw > 0 THEN raw ELSE 0)
    /\ phase' = IF purchase' = 0 /\ Total(qty) = 0 THEN "nothing" ELSE "purchase"
    /\ UNCHANGED <<orders, synced, velocity, inventory, mapping, mapped, qty, samples, split,
                   rules, lead, urgent, warned>>

\* sale_days <= lead_time_days, for a country that is restocked.
Urgent(days, c) == qty[c] > 0 /\ Unit * inventory[c] <= days * velocity[c]

Restocked == {c \in Countries : qty[c] > 0}

\* Mutant: the sample is not limited to the 30 days.
LinesAnyDay(c) == [i \in {i \in DOMAIN orders : orders[i].country = c /\ orders[i].qty > 0} |->
                      orders[i]]

\* The order sample of a country, load_all_sku_country_orders.
Lines(c) == [i \in Selected(c) |-> orders[i]]

\* Steps 5 and 6.
Step5 ==
    /\ phase = "purchase" /\ phase' = "item"
    /\ \E book \in RuleBooks, days \in Leads :
          /\ rules' = book
          /\ samples' = [c \in Restocked |-> Sample(Lines(c), book, Eligible[c])]
          /\ split' = [c \in Restocked |-> SplitCountry(qty[c], samples'[c], Eligible[c])]
          /\ lead' = days
          /\ urgent' = IF \E c \in Countries : Urgent(days, c) THEN "yes" ELSE "no"
    /\ UNCHANGED <<orders, synced, velocity, inventory, mapping, mapped, qty, purchase, local,
                   warned>>

Done == phase \in {"item", "nothing"} /\ UNCHANGED vars

Next == Step1 \/ Step2 \/ Step3 \/ Step4 \/ Step5 \/ OrdersSynced \/ Done

Spec == Init /\ [][Next]_vars

-----------------------------------------------------------------------------
(* Properties *)

\* The split loses no unit and adds none.  When every order of the sample goes to
\* a warehouse, no other warehouse gets any, and each gets its proportional share
\* but for less than one unit.
SplitFollowsOrders ==
    phase = "item" => \A c \in Restocked :
        /\ Eligible[c] # <<>> => Total(split[c].to) = qty[c]
        /\ split[c].mode = "matched" =>
              LET W == Total(samples[c].counts)
              IN  \A k \in DOMAIN Eligible[c] :
                     /\ split[c].to[k] * W < qty[c] * samples[c].counts[k] + W
                     /\ split[c].to[k] * W > qty[c] * samples[c].counts[k] - W

\* Step 5 looks at the very units step 1 has counted ("Step 5 uses the same
\* ordered quantity and package status scope as Step 1"), unless an order sync
\* has committed in between: the velocity lies between the ones all the units
\* sold on the oldest and on the newest day would give.
SampleIsVelocity ==
    phase = "item" /\ synced = "no" => \A c \in Restocked :
        LET units == samples[c].matched + samples[c].unknown
        IN  14 * units <= velocity[c] /\ velocity[c] <= 209 * units

\* Every allowed country that sells is restocked, or is known to have stock for
\* the target days, or carries a warning (compute_country_qty,
\* _missing_inventory_countries_by_sku).
EveryCountryExplained ==
    phase = "item" => \A c \in Allowed :
        velocity[c] > 0 /\ qty[c] = 0 => c \in warned \/ (inventory[c] # -1 /\ Short(c) <= 0)

\* The stock, with the restock, reaches the target, and not by more than a unit.
RestockReachesTarget ==
    phase = "item" => \A c \in Restocked :
        Unit * (qty[c] - 1) <= Short(c) /\ Short(c) <= Unit * qty[c]

\* Components are not counted twice: what all commodities could assemble needs
\* no more than the stock, and none where the stock is negative, unless groups of
\* one commodity share a component.
ComponentsConserved ==
    phase \notin {"start", "velocity"} /\ ~Overlapping(mapping.rules) =>
        \A key \in DOMAIN mapping.stock :
            LET used == Used(mapping.rules, mapping.stock, Weight(mapping), key[1], key[2])
            IN  used <= mapping.stock[key] \/ used = 0
=============================================================================
