CONSTANTS
    Targets <- MCTargets
SPECIFICATION Spec
CHECK_DEADLOCK FALSE
INVARIANTS
    CleanMigrationsComplete
    FinishedMarketIsOpen
PROPERTIES
    ListsAsAWhole
