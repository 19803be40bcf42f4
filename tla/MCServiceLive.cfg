SPECIFICATION PromptSpec
CONSTANTS
    Threads = {t1, t2}
    Nobody = Nobody
    Stale = Stale
    REQUEST_MAX = 1
    REQUESTID_MAX = 3
    STOP_WAIT = 2
PROPERTIES
    SerialAdmissionSafe
    LastRequestUnloads
