---------------------------- MODULE MCEngineItem ----------------------------
(***************************************************************************)
(* An instance of EngineItem: US, DE and FR sell, FR is not a restock      *)
(* region, DE has no warehouse with a zipcode rule.                        *)
(***************************************************************************)
EXTENDS EngineItem, TLC

Line(c, a, q, z) == [country |-> c, age |-> a, qty |-> q, zip |-> z]

MCCountries == {"US", "DE", "FR"}
MCAllowed == {"US", "DE"}

\* A line in the US at each end of each window, and up to two more lines.
MCOrderBooks ==
    {<<Line("US", a, q, "10"), Line("US", 20, 5, z)>> : a \in {0, 1, 7, 8, 14, 15, 30, 31},
                                                        q \in {1, 40}, z \in {"20", "90", NoZip}}
    \cup {<<Line(c, 3, 7, "10"), Line("US", 9, 4, "20"), Line("FR", 2, 3, "10")>> :
             c \in {"US", "DE", "ZZ"}}
    \cup {<<Line("US", a, 105, z), Line("DE", 30, q, "10")>> : a \in {1, 8}, q \in {0, 15},
                                                               z \in {"10", "20"}}

MCLateOrders == {Line("US", 1, 9, "20"), Line("US", 30, 9, NoZip)}

MCOrderLines == MCLateOrders \cup UNION {Range(book) : book \in MCOrderBooks}

MCStocks == {[c \in MCCountries |-> IF c = "US" THEN u ELSE d] : u \in {-1, 0, 6, 20}, d \in {-1, 3}}

\* Commodities 1 and 2 share component "b"; 1 also builds from "c" alone.
Both == 1 :> {"b" :> 2, "c" :> 1} @@ 2 :> {"b" :> 1 @@ "d" :> 1}
Alone == 1 :> {"b" :> 2 @@ "c" :> 1}
Keys == {<<"b", "w1">>, <<"c", "w1">>, <<"d", "w1">>, <<"b", "w2">>}

MCMappings ==
    {[country |-> "US", rules |-> r, rivals |-> 2 :> v,
      stock |-> [k \in Keys |-> IF k[1] = "b" THEN n ELSE 3]] :
         r \in {Both, Alone}, v \in {0, 60}, n \in {-2, 0, 5}}
    \cup {[country |-> "US", rules |-> Alone, rivals |-> 2 :> 0, stock |-> <<"e", "w1">> :> 4]}

MCLocals == {0, 25}
MCLeads == {5, 20}
MCEligible == "US" :> <<"w1", "w2", "w3">> @@ "DE" :> <<>> @@ "FR" :> <<"w4">>

Rule(p, w, h) == [priority |-> p, wh |-> w, hits |-> h]

\* No rules; ties; a better rule after a worse one; a warehouse that is not
\* eligible.
MCRuleBooks ==
    {{},
     {Rule(1, "w1", {"10", "20"}), Rule(1, "w2", {"10"}), Rule(2, "w3", {"20", "90"})},
     {Rule(2, "w1", {"10", "20"}), Rule(1, "w2", {"20"}), Rule(1, "w9", {"10"})},
     {Rule(1, "w3", {"10", "20", "90"})}}
=============================================================================
