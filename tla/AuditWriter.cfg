CONSTANTS
    QueueMax = 2
    MaxEvents = 5
    MaxEnds = 1
SPECIFICATION FairSpec
INVARIANTS TypeOK OnePlace OvertakenOnlyByOverflow StopStrandsOnlyOverflow NoLostWakeup
PROPERTIES StopEventuallyReturns EventuallySettled ImplementsTrail
CHECK_DEADLOCK TRUE
