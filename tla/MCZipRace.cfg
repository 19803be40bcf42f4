SPECIFICATION Spec
CONSTANTS
    Threads = {t1, t2}
    MaxClock = 3
    MaxSize = 1
    LOGFILE_MAX = 2
    ZIP_MAX_SIZE = 3
    ZIP_TARGET_SIZE = 2
INVARIANTS ReportedExists
