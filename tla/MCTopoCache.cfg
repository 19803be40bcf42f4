SPECIFICATION Spec
CONSTANTS
    Threads = {t1, t2}
    Roots = {r1, r2, r3}
    MAX_CACHE_SIZE = 2
    MAX_PUSHES = 8
INVARIANTS IteratorsValid
PROPERTIES EvictsLeastRecent
SYMMETRY Symmetry
\* The cap on pushes ends every behaviour.
CHECK_DEADLOCK FALSE
