CONSTANTS
    Request = {r1, r2}
    ReflectMax = 1
    MaxDecisions = 2
    MaxFeedback = 1
    MaxEnds = 1
SPECIFICATION Spec
SYMMETRY Interchangeable
INVARIANTS TypeOK NothingAheadOfTheRow AnsweredIsComplete
PROPERTY NothingAfterStop
CHECK_DEADLOCK TRUE
