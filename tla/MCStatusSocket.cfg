SPECIFICATION Spec
CONSTANTS
    Sockets = {s1, s2, s3}
    None = None
    MaxTimers = 3
INVARIANTS
    NeverStranded
    SocketsMatchConsole
