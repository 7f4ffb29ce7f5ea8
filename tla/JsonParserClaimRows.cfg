CONSTANTS
    Documents <- CutRow
    Values <- SomeValues
    Garbage <- UninitializedValue
SPECIFICATION Spec
INVARIANT OnlyCompleteRowsAreKept
