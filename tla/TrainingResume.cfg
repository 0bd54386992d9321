SPECIFICATION TrainSpec
CONSTANTS
    Steps = 2
    KeepLast = 1
    MaxLaunches = 3
INVARIANTS
    ResumeContinues
CHECK_DEADLOCK FALSE
