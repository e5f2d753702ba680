SPECIFICATION Spec
CONSTANTS
    p1 = p1
    p2 = p2
    None = None
    Broken = Broken
    Partial = Partial
    Free = Free
    Stale = Stale
    Instances <- MCInstances
    LegacyCount = 2
    InitialActive <- MCInitialActive
    InitialLegacy <- MCInitialLegacy
SYMMETRY Symmetry
INVARIANTS ImportWhole ReadyComplete
PROPERTIES MigrationInOnePiece BackedUp
