SPECIFICATION EvalSpec
CONSTANTS
    MaxDecisions = 3
    QueueLimit = 2
    ExportSize = 2
    BenchCase = {}
INVARIANTS
    TrainingMovesMetrics
CHECK_DEADLOCK FALSE
