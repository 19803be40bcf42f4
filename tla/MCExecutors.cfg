SPECIFICATION Spec
CONSTANTS
    Scenarios <- MCScenarios
    NamesWith <- MCNamesWith
    IdsWith <- MCIdsWith
    KillReason <- MCKillReason
    AppExitReason <- MCAppExitReason
    Numbers = {"1", "2"}
    PathOrder <- MCPathOrder
    FD_TOP_CNT = 2
    NEED_DUMP_FDLINK_NUMS = 1
    ORPHAN_FD_TOP_CNT = 1
    ORPHAN_FDLINKPATH_TOP_CNT = 2
    MaxChanges = 1
    Abilities <- MCAbilities
    Clusters <- MCClusters
    ITEM_SUM_LINE = 3
    MaxMoves = 2
INVARIANTS
    EventListNewest
    FaultLogsOfKills
    LogClosed
    FdReportExact
    ScansExact
    AskedOfOwner
    SectionsOwn
PROPERTIES
    ExecutorReturns
CHECK_DEADLOCK FALSE
