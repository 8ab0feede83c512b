SPECIFICATION LeaseSpec
CONSTANTS
    MaxLease = 8
    MaxBeat = 3
    MaxReapEvery = 3
    MaxRaised = 2
INVARIANTS OrphanBounded
PROPERTY ReapsOnlySilent
