SPECIFICATION Spec
CONSTANTS
    Threads = {t1}
    Nobody = Nobody
    Stale = Stale
    REQUEST_MAX = 1
    REQUESTID_MAX = 2
    STOP_WAIT = 1
PROPERTY
    ReplyTellsResult
