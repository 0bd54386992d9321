CONSTANTS
    Request = {r1}
    ReflectMax = 1
    MaxDecisions = 2
    MaxFeedback = 1
    MaxEnds = 0
SPECIFICATION FairSpec
PROPERTY AnsweredEventuallySettled
CHECK_DEADLOCK TRUE
