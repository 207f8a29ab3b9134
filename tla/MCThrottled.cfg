SPECIFICATION Spec
CONSTANTS
    Handlers = {h1}
    Poller = poller
    Posts = {1, 2}
    Limit = 2
    MaxDays = 1
    MaxLost = 1
    MaxRestarts = 1
PROPERTY
    BacksOff
