SPECIFICATION Spec
CONSTANTS
    MaxSugs = 2
    Engines = {e1, e2}
    Deleters = {d1}
    Togglers = {a1, a2}
SYMMETRY Symmetry
INVARIANTS AtMostOneDraft NoSilentLoss CycleClosed
