CONSTANTS
    Programs <- ZeroPrograms
    Ticks = {1, 2}
    Overheads = {0, 1}
    TICKS_PER_SECOND = 2
    INT_PAGES = 10
SPECIFICATION Spec
INVARIANT ZeroRunsForever
