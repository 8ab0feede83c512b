----------------------------- MODULE MCCatalog -----------------------------
(***************************************************************************)
(* One warehouse with stock and two workbooks that wait: one with two rows *)
(* for the same key, one for a new warehouse and with a row in error.      *)
(***************************************************************************)
EXTENDS Catalog

Line(name, qty) == [name |-> name, sku |-> "s1", qty |-> qty, ok |-> qty > 0]
MCFirstNames == <<"n1">>
MCFirstSheets == << <<Line("n1", 1), Line("n1", 2)>>, <<Line("n2", 1), Line("n1", 0)>> >>
MCFirstRow == [id |-> 1, wh |-> 1, sku |-> "s1", qty |-> 2, src |-> 0]
MCSheets == {<<Line("n2", 2)>>}

\* Combinations of one or two components, in one or two alternatives.
MCFormulas == {("a" :> 1) @@ ("b" :> 1), ("a" :> 1) @@ ("b" :> 2), ("a" :> 1), ("b" :> 1)}
MCMemberships == {{"a", "b"}, {"b"}}
=============================================================================
