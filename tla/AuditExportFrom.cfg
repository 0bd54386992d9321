SPECIFICATION ReviewSpec
CONSTANTS
    Reviewer = {w1, w2}
    ReviewedId = {e1, e2}
    PageLimit = 2
    ExportLimit = 1
    MaxRows = 3
    MaxClock = 2
INVARIANTS
    FromIsHonoured
CHECK_DEADLOCK FALSE
