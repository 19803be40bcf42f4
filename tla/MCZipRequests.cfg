SPECIFICATION Spec
CONSTANTS
    Threads = {t1, t2}
    MaxClock = 3
    MaxSize = 2
    LOGFILE_MAX = 1
    ZIP_MAX_SIZE = 3
    ZIP_TARGET_SIZE = 2
INVARIANTS NeverOlder CleanedExactly
SYMMETRY ThreadSymmetry
