---------------------------- MODULE StockMapping ----------------------------
(***************************************************************************)
(* Stock of commodities assembled from components (engine/sku_mapping.py)  *)
(* as operators.                                                           *)
(*                                                                         *)
(* rules[sku] is the set of alternative groups of a commodity, a group a   *)
(* function from its components to the units of each.  stock is a function *)
(* from <<component, warehouse>> to units, weight[sku] the velocity.       *)
(***************************************************************************)
EXTENDS Integers, FiniteSets, Functions

SumOf(f) == FoldFunction(+, 0, f)

\* mapping_component_consumers; commodities are numbered by their name's place in
\* the alphabet.
Consumers(rules, component) ==
    {s \in DOMAIN rules : \E g \in rules[s] : component \in DOMAIN g}

\* Mutant: shares are rounded up instead of down.
SharesRoundedUp(total, consumers, weight) ==
    LET even == \E s \in consumers : weight[s] <= 0
        w    == [s \in consumers |-> IF even THEN 1 ELSE weight[s]]
        W    == SumOf(w)
    IN  [s \in consumers |-> IF total <= 0 THEN 0 ELSE (total * w[s] + W - 1) \div W]

\* _allocate_integer_quantity: by velocity, evenly when a consumer has none;
\* floor, and the units left over to the largest fractions, in the order of the names.
AllocateInteger(total, consumers, weight) ==
    LET even     == \E s \in consumers : weight[s] <= 0
        w        == [s \in consumers |-> IF even THEN 1 ELSE weight[s]]
        W        == SumOf(w)
        base     == [s \in consumers |-> (total * w[s]) \div W]
        rest     == [s \in consumers |-> (total * w[s]) % W]
        ahead(s) == {t \in consumers : rest[t] > rest[s] \/ (rest[t] = rest[s] /\ t < s)}
    IN  [s \in consumers |->
            IF total <= 0 THEN 0
            ELSE base[s] + IF Cardinality(ahead(s)) < total - SumOf(base) THEN 1 ELSE 0]

\* _build_component_allocation: what sku may use of a component in a warehouse.
Allocated(rules, stock, weight, sku, component, wh) ==
    AllocateInteger(stock[<<component, wh>>], Consumers(rules, component), weight)[sku]

\* How many of sku a group builds in a warehouse: its scarcest component; none
\* when a component has no stock record.
Buildable(rules, stock, weight, sku, group, wh) ==
    IF \E c \in DOMAIN group : <<c, wh>> \notin DOMAIN stock THEN 0
    ELSE LET n(c) == Allocated(rules, stock, weight, sku, c, wh) \div group[c]
         IN  CHOOSE k \in {n(c) : c \in DOMAIN group} : \A c \in DOMAIN group : k <= n(c)

\* compute_mapped_stock_by_country for the warehouses of one country: -1 when no
\* component of sku has a record there, otherwise the sum over its groups.
MappedStock(rules, stock, weight, sku) ==
    LET sites == rules[sku] \X {key[2] : key \in DOMAIN stock}
        live  == {s \in sites : \E c \in DOMAIN s[1] : <<c, s[2]>> \in DOMAIN stock}
    IN  IF live = {} THEN -1
        ELSE SumOf([s \in live |-> Buildable(rules, stock, weight, sku, s[1], s[2])])

\* Two groups of one commodity share a component (only through an inventory group
\* of equivalent SKUs, as uq_sku_mapping_component_rule_inventory forbids it).
Overlapping(rules) ==
    \E s \in DOMAIN rules : \E g, h \in rules[s] : g # h /\ DOMAIN g \cap DOMAIN h # {}

\* The units of a component in a warehouse that all the assembled stock needs.
Used(rules, stock, weight, component, wh) ==
    LET of(s) == {g \in rules[s] : component \in DOMAIN g}
        units(s) == SumOf([g \in of(s) |->
                              g[component] * Buildable(rules, stock, weight, s, g, wh)])
    IN  SumOf([s \in DOMAIN rules |-> units(s)])
=============================================================================
