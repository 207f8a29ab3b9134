SPECIFICATION Spec
CONSTANTS
    SymbolCount = 2
    MaxPolicies = 3
    MaxClock = 2
INVARIANTS PassedOver NothingSkipped
PROPERTIES FallsBackOnlyAfterPromotion StoppedIsFrozen DueIsTrained
