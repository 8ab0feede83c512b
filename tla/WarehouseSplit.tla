--------------------------- MODULE WarehouseSplit ---------------------------
(***************************************************************************)
(* Step 5 of the engine (engine/step5_warehouse_split.py) and the matching *)
(* of postal codes (engine/zipcode_matcher.py) as operators.               *)
(*                                                                         *)
(* A zipcode rule is a record [priority, wh, hits] where hits is the set   *)
(* of postal codes its comparison accepts.  The code calculates with       *)
(* fractions; weights only matter relative to each other, so they are      *)
(* scaled by a common denominator here.                                    *)
(***************************************************************************)
EXTENDS Integers, FiniteSets, Sequences, Functions

NoZip == "none"

Total(f) == FoldFunction(+, 0, f)

\* match_warehouses: the warehouses a postal code goes to.  The rules are tried by
\* priority; those past the priority of the first hit are not looked at.
MatchWarehouses(zip, rules) ==
    LET hits == {r \in rules : zip # NoZip /\ zip \in r.hits}
    IN  {r.wh : r \in {r \in hits : \A q \in hits : r.priority <= q.priority}}

\* Mutant: the left over units are not handed out.
FloorOnly(qty, weights) ==
    IF qty <= 0 \/ weights = <<>> \/ Total(weights) <= 0
    THEN [i \in DOMAIN weights |-> 0]
    ELSE [i \in DOMAIN weights |-> (qty * weights[i]) \div Total(weights)]

\* Mutant: they all go to the first.
LeftOverToFirst(qty, weights) ==
    IF qty <= 0 \/ weights = <<>> \/ Total(weights) <= 0
    THEN [i \in DOMAIN weights |-> 0]
    ELSE LET base == FloorOnly(qty, weights)
         IN  [base EXCEPT ![1] = @ + qty - Total(base)]

\* _allocate_by_weights, by position: floor, and the units left over go to the
\* largest remainders, the earlier position first.
AllocateByWeights(qty, weights) ==
    IF qty <= 0 \/ weights = <<>> \/ Total(weights) <= 0
    THEN [i \in DOMAIN weights |-> 0]
    ELSE LET base  == [i \in DOMAIN weights |-> (qty * weights[i]) \div Total(weights)]
             rest  == [i \in DOMAIN weights |-> (qty * weights[i]) % Total(weights)]
             ahead(i) == {j \in DOMAIN weights : rest[j] > rest[i] \/ (rest[j] = rest[i] /\ j < i)}
         IN  [i \in DOMAIN weights |->
                 base[i] + IF Cardinality(ahead(i)) < qty - Total(base) THEN 1 ELSE 0]

\* _allocate_even, by position.
AllocateEven(qty, n) ==
    [i \in 1..n |-> IF qty <= 0 THEN 0
                    ELSE (qty \div n) + IF i <= qty - (qty \div n) * n THEN 1 ELSE 0]

\* What explain_country_qty_split learns from the orders, records [zip, qty] of
\* positive quantity, and the eligible warehouses in order.
Sample(orders, rules, eligible) ==
    LET goes(o)  == MatchWarehouses(o.zip, rules) \cap Range(eligible)
        known    == {i \in DOMAIN orders : goes(orders[i]) # {}}
        scale    == FoldFunction(LAMBDA a, b : a * b, 1, [k \in 1..Len(eligible) |-> k])
        share(w) == [i \in {i \in known : w \in goes(orders[i])} |->
                        orders[i].qty * (scale \div Cardinality(goes(orders[i])))]
    IN  [matched |-> Total([i \in known |-> orders[i].qty]),
         unknown |-> Total([i \in DOMAIN orders \ known |-> orders[i].qty]),
         counts  |-> [k \in DOMAIN eligible |-> Total(share(eligible[k]))]]

\* explain_country_qty_split: its mode and the quantity of each eligible warehouse.
\* Weights of zero get nothing, as the warehouses the code leaves out.
SplitCountry(qty, sample, eligible) ==
    LET n      == Len(eligible)
        bucket == AllocateByWeights(qty, <<sample.matched, sample.unknown>>)
        known  == AllocateByWeights(bucket[1], sample.counts)
        even   == AllocateEven(bucket[2], n)
    IN  IF sample.matched > 0
        THEN [mode |-> IF sample.unknown > 0 THEN "mixed_known_unknown" ELSE "matched",
              to   |-> [k \in 1..n |-> known[k] + even[k]]]
        ELSE [mode |-> IF n > 0 THEN "fallback_even" ELSE "no_warehouse",
              to   |-> AllocateEven(qty, n)]
=============================================================================
