SPECIFICATION Spec
CONSTANTS
    r1 = r1
    r2 = r2
    d1 = d1
    d2 = d2
    off = off
    gone = gone
    w1 = w1
    w2 = w2
    w4 = w4
    Requests = {r1, r2}
    Ids = {d1, d2, off, gone, w1, w2, w4}
    Tasks = {d1, d2, w1, w2, w4}
    Roots = {w1, w2, w4}
    Enabled = {d1, d2, gone, w1, w2, w4}
    Mandatory = {w1}
    taskDependency <- Chain
    dataDependency <- Reads
    Produces <- Writes
    RootLists <- Lists
    MAX_FAILURE_COUNT = 1
INVARIANTS DependenciesFirst DataKept SkippedOnlyByFailure
