\* A round takes one to three ticks, a second has two: a test of one second has two to
\* four rounds.
CONSTANTS
    Programs <- SomePrograms
    Ticks = {1, 2}
    Overheads = {0, 1}
    TICKS_PER_SECOND = 2
    INT_PAGES = 10
SPECIFICATION FairSpec
INVARIANT TypeOK
INVARIANT MainHasItsResources
INVARIANT NothingIsLeft
INVARIANT StatsAreOfTheRounds
INVARIANT StopsWithItsTime
INVARIANT SweepIsComplete
PROPERTY Terminates
