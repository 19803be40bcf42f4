SPECIFICATION Spec
CONSTANTS
    AllPids <- MCAllPids
    UidOf <- MCUidOf
    DebugApps <- MCDebugApps
    HeapApps <- MCHeapApps
    MainOf <- MCMainOf
    CpuIds <- MCCpuIds
    Numerals <- MCNumerals
    TooLarge <- MCTooLarge
    Timestamps = {"now"}
    Abilities = {"SA"}
    BadStrings = {""}
    Callers <- MCCallers
    Commands <- MCCommands
    ARG_MAX_COUNT = 9
    EXIT_MAX = 1
INVARIANTS
    PipelinesClosed
    PermittedProcessesOnly
    NamedProcessDumped
CHECK_DEADLOCK FALSE
