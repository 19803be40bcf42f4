SPECIFICATION LiveSpec
CHECK_DEADLOCK FALSE
CONSTANTS
    r1 = r1
    r2 = r2
    r3 = r3
    Requests = {r1, r2, r3}
    Scenarios <- AllScenarios
    Details <- SomeDetails
    Opts <- SomeOpts
    SourcesOf <- Files
    Pids <- TwoPids
    Sources <- TwoSources
    Smaps <- TwoSmaps
    Meminfos <- SomeMeminfos
    Usages <- SomeUsages
    HeapOpts <- SomeHeapOpts
    Answers <- SomeAnswers
    MinIndex = 2
    LastLines = 1
    Labels <- TwoLabels
    LabelOf <- LabelOfScore
    W = 8
    BYTE_TO_KB = 2
    HARDWARE_USAGE_THREAD_NUM_ = 5
    HardwareThreads = 3
    Bad = Bad
INVARIANTS DisplayExact CollectorDoneFirst PluginHeld RowsOwn  FiguresExact AnswersShown
PROPERTIES InterruptEnds DumpsReturn
