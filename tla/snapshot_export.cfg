SPECIFICATION LiveSpec
CONSTANTS
    MaxSnaps = 2
    MaxQty = 1
    MaxKills = 1
    Items <- SmallItems
    ItemPatches <- SmallPatches
    Patchers = {p1}
    Exporters = {x1, x2}
INVARIANTS FileIsSnapshot ExportedIsBacked
PROPERTIES StuckIsSwept MissingFileIsExplained
