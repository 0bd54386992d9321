CONSTANTS
    QueueMax = 2
    ExportBatchSize = 2
    BatchLimit = 2
    MaxDecisions = 3
    MaxBatches = 1
    MaxEnds = 1
SPECIFICATION FairSpec
INVARIANTS TypeOK OneFate InOrder StopDrains ScoresMatchCheckpoint ExportsPartition
PROPERTIES StopEventuallyReturns NoOverwriteInProcess
