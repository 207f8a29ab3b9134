SPECIFICATION FairSpec
CONSTANTS
    Keys = {trader, learner}
    Traders = {trader}
    Slots = {s1}
    Clients = {c1, c2}
    Main = main
    None = None
PROPERTIES
    CallsComplete
    ShutdownReachesLoops
    ImplementsFairLifecycle
