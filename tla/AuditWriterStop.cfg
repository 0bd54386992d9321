CONSTANTS
    QueueMax = 1
    MaxEvents = 3
    MaxEnds = 0
SPECIFICATION Spec
INVARIANT CleanStopAccountsForAll
