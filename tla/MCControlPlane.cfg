SPECIFICATION Spec
CONSTANTS
    Agents = {agent}
    Clients = {c1, c2, c3}
    Users = {operator}
    Threshold = 2
    Window = 2
    Cooldown = 2
    Ttl = 1
    Count = 2
    Minute = 2
INVARIANTS
    TypeOK
    ErrorsCounted
    GaugeHidesNoLoop
PROPERTIES
    HoldsCooldown
