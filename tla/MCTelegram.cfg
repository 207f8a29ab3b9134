SPECIFICATION BotSpec
CONSTANTS
    People = {"operator", "viewer"}
    Bot = "bot"
    Admins = {}
    Operators = {"operator", "bot"}
    Keys = {"trader"}
    MaxCommands = 2
    Span = 3
INVARIANTS PostsBounded
PROPERTIES BlockEnds
