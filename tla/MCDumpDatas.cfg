CONSTANTS
    Pipelines <- MCPipelines
    Untitled = {3}
    MaxFaults = 2
    ARCHIVE_FILES = 2
    SIZE_LIMIT = 16
    FINISH = 100
SPECIFICATION LiveSpec
INVARIANTS
    LinesInOrder
    FailureIsLocal
PROPERTY DumpReturns
