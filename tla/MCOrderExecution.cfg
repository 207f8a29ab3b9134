SPECIFICATION FairSpec
CONSTANTS
    Venues = {1, 2}
    Prices = {1, 2}
    Attempts = 3
    Burst = 2
    TwapSeconds = 10
    MaxSlices = 3
INVARIANTS
    DuplicateNeedsLostAck
    RecordsMatchFills
    OneSeriesPerVenue
PROPERTIES
    BestQuoteFirst
    ImplementsOrder
    OrderEnds
\* An order ends.
CHECK_DEADLOCK FALSE
