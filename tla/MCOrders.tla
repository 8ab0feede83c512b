------------------------------ MODULE MCOrders ------------------------------
(* Two packages of one order; two requests of each kind may overlap. *)
EXTENDS Orders

CONSTANTS i1, i2, p1, p2

\* DE may be on the EU list, US never is.
MCMembers == {"DE", "US"}
MCEuLists == {{}, {"DE"}}
MCOrderOf == [p \in {p1, p2} |-> "o1"]

Seen(S) == [i \in {i1, i2} |-> IF i \in S THEN "ok" ELSE "no sku"]

\* A complete answer; one without postal code and items; one that is skipped.
MCFirstRaw ==
    [flaw |-> "none", marketplace |-> "DE", postal |-> "z1", status |-> "open", items |-> Seen({i1, i2})]
MCRaws == {
    MCFirstRaw,
    [flaw |-> "none", marketplace |-> "DE", postal |-> NoValue, status |-> "void", items |-> Seen({})],
    [flaw |-> "date", marketplace |-> NoValue, postal |-> "z1", status |-> "open", items |-> Seen({i1})]}

\* Functions from the fields submitted to their values.
MCPatches == {
    [f \in {"country"} |-> "US"],
    [f \in {"country", "postal"} |-> IF f = "country" THEN "DE" ELSE NoValue],
    [f \in {"postal"} |-> "z1"]}

\* A member of the EU with a blank postal code; an order that is not known.
MCWorkbooks == {
    <<[order |-> "o1", country |-> "DE", postal |-> NoValue]>>,
    <<[order |-> "o1", country |-> "US", postal |-> "manual"],
      [order |-> "o2", country |-> "US", postal |-> "manual"]>>}

=============================================================================
