-------------------------- MODULE MCSnapshotExport --------------------------
(* A small instance of SnapshotExport for TLC. *)
EXTENDS SnapshotExport, TLC

\* One unit for one country, not split and nothing to buy: only the restock
\* list can be exported.
SmallItems == {[country |-> 1, split |-> 0, purchase |-> 0]}

\* An edit that splits the unit and buys one: it changes what a restock export
\* freezes and makes the procurement list exportable.
SmallPatches ==
    {[fields |-> {"split", "purchase"}, to |-> [NoItem EXCEPT !.split = 1, !.purchase = 1]]}
=============================================================================
