\* Generated files, files by hand, cut files and files with a fault.
CONSTANTS
    Documents <- SomeFiles
    Values <- SomeValues
    Garbage <- UninitializedValue
SPECIFICATION FairSpec
INVARIANT TypeOK
INVARIANT ListIsComplete
PROPERTY KeepsThePoints
PROPERTY Terminates
