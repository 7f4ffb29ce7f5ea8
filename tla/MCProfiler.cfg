\* Three blocks that nest in any order and call themselves.
CONSTANTS
    Blocks <- ThreeBlocks
    Ticks = {1}
    ByteCounts = {0}
    MaxCalls = 2
SPECIFICATION Spec
INVARIANT TypeOK
INVARIANT ProfileIndexFollowsCalls
INVARIANT RecursionIsCounted
INVARIANT TicksFitTheProgram
PROPERTY MeasuresOutermostCalls
