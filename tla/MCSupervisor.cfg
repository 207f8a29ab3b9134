SPECIFICATION Spec
CONSTANTS
    Keys = {trader, learner}
    Traders = {trader}
    Slots = {s1, s2}
    Clients = {c1, c2}
    Main = main
    None = None
SYMMETRY Symmetry
INVARIANTS
    OneLoopPerAgent
    NoOrphanLoop
    HandlersRunAlone
    RunningHasLoop
PROPERTIES
    TicksAreRegistered
    CrashClearedByStopOnly
    ImplementsLifecycle
