SPECIFICATION Spec
CONSTANTS
    Threads = {t1, t2}
    Nobody = Nobody
    Stale = Stale
    REQUEST_MAX = 2
    REQUESTID_MAX = 3
    STOP_WAIT = 2
SYMMETRY ThreadSymmetry
INVARIANTS
    RegistryAgrees
    DescriptorClosedOnce
    FolderOwnOrWiped
PROPERTIES
    ImplementsRegistry
