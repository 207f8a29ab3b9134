SPECIFICATION Spec
CONSTANTS
    Symbols = {1, 2}
    Prices = {2, 3}
    Setups <- MCSetups
    Precision <- MCPrecision
    StartCash = 10
    MaxTrade = 8
    CapTotal = 10
    CapSymbol = 9
    DrawdownPct = 20
    CanaryLossPct = 10
    TrailingPct = 30
    MaxFailures = 2
    MaxErrors = 2
    MaxTicks = 3
INVARIANTS
    TypeOK
    TickOvershootBounded
    DrawdownCaught
    SnapshotIsCurrent
PROPERTIES
    HaltsAreForever
