---------------------------- MODULE StockSharing ----------------------------
(***************************************************************************)
(* The mapping rules, which say of which inventory SKUs a commodity is     *)
(* assembled, and the groups of inventory SKUs that are one and the same   *)
(* stock (api/config.py, services/physical_item.py).                       *)
(*                                                                         *)
(* A save replaces all components of a rule: it checks them against the    *)
(* groups, deletes the rows, inserts the new ones and commits, and other   *)
(* requests take steps in between.  Quantities, remarks and the flag       *)
(* "enabled" of a rule play no part.                                       *)
(***************************************************************************)
EXTENDS Inputs, FiniteSets, TLC

CONSTANTS
    Editors,        \* requests under way at a time
    Commodities,    \* commodity SKUs, one rule each
    Formulas,       \* components of a rule: functions from inventory SKUs to group_no
    Groups,         \* ids of groups
    Memberships,    \* members of a group
    NoRule, NoGroup

\* The key of a group, "physical-group:" with its id, is not the code of a SKU.
ASSUME SharingAssumption == \A f \in Formulas : DOMAIN f \cap Groups = {}

VARIABLES
    rule,           \* sku_mapping_rule: its id, and as rows its components with the
                    \* number of the save that inserted them; history: the grouping the
                    \* last save was checked against, and whether it left other rows
    group,          \* physical_item_group: [enabled, rows]
    editor,         \* requests
    saves,          \* saves so far
    grouping       \* history: changes so far that put SKUs together

sharingVars == <<rule, group, editor, saves, grouping>>

AtRest == [pc |-> "idle"]
Picks(e) == editor[e].pc = "idle" /\ e = CHOOSE free \in Editors : editor[free].pc = "idle"

\* Rows of a table: a number for each SKU, with what it is assigned.
Stamped(f, n) == {[sku |-> s, at |-> f[s], by |-> n] : s \in DOMAIN f}
SkusIn(rows) == {row.sku : row \in rows}
Components(c) == IF rule[c] = NoRule THEN {} ELSE rule[c].rows
Members(g) == IF group[g] = NoGroup THEN {} ELSE group[g].rows

SharingInit ==
    /\ rule = [c \in Commodities |-> NoRule]
    /\ group = [g \in Groups |-> NoGroup]
    /\ editor = [e \in Editors |-> AtRest]
    /\ saves = 0
    /\ grouping = 0

-----------------------------------------------------------------------------
(* Mapping rules *)

\* The group a SKU belongs to, if it is enabled; else the SKU itself.
resolve_inventory_sku(s) ==
    LET of == {g \in Groups : s \in SkusIn(Members(g)) /\ group[g].enabled}
    IN  IF of = {} THEN s ELSE CHOOSE g \in of : TRUE

\* Mutant: the SKUs are compared as they are.
DistinctBySku(at) == TRUE

\* No two components of one combination resolve to the same stock.
Distinct(at) ==
    \A s, t \in DOMAIN at :
        (s # t /\ at[s] = at[t]) => resolve_inventory_sku(s) # resolve_inventory_sku(t)

\* Create, import or patch: the rule as it is now; create refuses one that exists, patch
\* needs one, the import takes either.
RuleRead(e, c) ==
    /\ Picks(e)
    /\ Input
    /\ \E f \in Formulas :
          editor' = [editor EXCEPT ![e] =
              [pc |-> "rule", on |-> c, at |-> f, gone |-> {},
               serial |-> IF rule[c] = NoRule THEN 0 ELSE rule[c].serial]]
    /\ UNCHANGED <<rule, group, saves, grouping>>

\* The check, and the DELETE of the rows that are there.
replace_mapping_components(e) ==
    /\ editor[e].pc = "rule"
    /\ editor' = [editor EXCEPT ![e] =
          IF Distinct(@.at)
          THEN [pc |-> "deleted", on |-> @.on, at |-> @.at, serial |-> @.serial,
                gone |-> Components(@.on), checked |-> grouping]
          ELSE AtRest]
    /\ UNCHANGED <<rule, group, saves, grouping, used>>

\* INSERT and commit.  The rule must still be the one that was read, and the unique keys,
\* of the commodity and of its components, must not be taken.
RuleCommit(e) ==
    LET c == editor[e].on
        left == Components(c) \ editor[e].gone
        serial == IF rule[c] = NoRule THEN 0 ELSE rule[c].serial
    IN  /\ editor[e].pc = "deleted"
        /\ saves' = saves + 1
        /\ rule' = IF serial = editor[e].serial /\ SkusIn(left) \cap DOMAIN editor[e].at = {}
                   THEN [rule EXCEPT ![c] =
                      [serial |-> IF serial = 0 THEN saves + 1 ELSE serial,
                       rows |-> left \cup Stamped(editor[e].at, saves + 1),
                       checked |-> editor[e].checked, mixed |-> left # {}]]
                   ELSE rule
        /\ editor' = [editor EXCEPT ![e] = AtRest]
        /\ UNCHANGED <<group, grouping, used>>

delete_sku_mapping_rule(c) ==
    /\ Input
    /\ rule[c] # NoRule
    /\ rule' = [rule EXCEPT ![c] = NoRule]
    /\ UNCHANGED <<group, editor, saves, grouping>>

-----------------------------------------------------------------------------
(* Groups *)

\* _validate_physical_group_unique, and the DELETE of the members of a group that exists.
GroupRead(e, g) ==
    /\ Picks(e)
    /\ Input
    /\ \E m \in Memberships, on \in BOOLEAN :
          /\ \A h \in Groups \ {g} : m \cap SkusIn(Members(h)) = {}
          /\ editor' = [editor EXCEPT ![e] =
                [pc |-> "group", on |-> g, members |-> m, enabled |-> on,
                 exists |-> group[g] # NoGroup, gone |-> Members(g)]]
    /\ UNCHANGED <<rule, group, saves, grouping>>

\* The members that are inserted, and those of another save since the DELETE.
replace_physical_members(e) ==
    (Members(editor[e].on) \ editor[e].gone)
        \cup Stamped([s \in editor[e].members |-> 1], saves + 1)

\* A SKU is a member of one group, and of it once.  The rules are not looked at.
GroupCommit(e) ==
    LET g == editor[e].on
        others == UNION {Members(h) : h \in Groups \ {g}} \cup (Members(g) \ editor[e].gone)
        ok == /\ editor[e].exists = (group[g] # NoGroup)
              /\ SkusIn(others) \cap editor[e].members = {}
    IN  /\ editor[e].pc = "group"
        /\ saves' = saves + 1
        /\ group' = IF ok THEN [group EXCEPT ![g] =
                        [enabled |-> editor[e].enabled, rows |-> replace_physical_members(e)]]
                    ELSE group
        /\ grouping' = IF ok THEN grouping + 1 ELSE grouping
        /\ editor' = [editor EXCEPT ![e] = AtRest]
        /\ UNCHANGED <<rule, used>>

\* Only the flag; a group that is disabled sets its members apart.
patch_physical_item_group(g) ==
    /\ Input
    /\ group[g] # NoGroup
    /\ group' = [group EXCEPT ![g].enabled = ~@]
    /\ grouping' = IF group[g].enabled THEN grouping ELSE grouping + 1
    /\ UNCHANGED <<rule, editor, saves>>

delete_physical_item_group(g) ==
    /\ Input
    /\ group[g] # NoGroup
    /\ group' = [group EXCEPT ![g] = NoGroup]
    /\ UNCHANGED <<rule, editor, saves, grouping>>

SharingNext ==
    \/ \E e \in Editors :
          \/ replace_mapping_components(e) \/ RuleCommit(e) \/ GroupCommit(e)
          \/ \E c \in Commodities : RuleRead(e, c)
          \/ \E g \in Groups : GroupRead(e, g)
    \/ \E c \in Commodities : delete_sku_mapping_rule(c)
    \/ \E g \in Groups : patch_physical_item_group(g) \/ delete_physical_item_group(g)

\* This part on its own: all that Catalog says of its variables.
SharingSpec == SharingInit /\ [][SharingNext]_sharingVars

-----------------------------------------------------------------------------

\* No combination of a rule counts one stock twice (_replace_mapping_components), but for
\* what the check does not see: SKUs are put together after it, or two saves of the rule
\* overlap and the rule ends with the components of both.
ComponentsDistinct ==
    \A c \in Commodities :
        \/ rule[c] = NoRule \/ rule[c].mixed \/ rule[c].checked # grouping
        \/ \A q, r \in rule[c].rows :
              (q # r /\ q.at = r.at) => resolve_inventory_sku(q.sku) # resolve_inventory_sku(r.sku)
=============================================================================
