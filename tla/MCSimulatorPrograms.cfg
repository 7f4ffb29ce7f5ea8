\* The listings, the drawings and a program as large as the memory.
CONSTANTS
    Programs <- WholePrograms
    Spill <- SomeSpill
SPECIFICATION FairSpec
INVARIANT TypeOK
INVARIANT FinalStateMatchesListing
INVARIANT ImageIsDrawn
INVARIANT FullMemoryNeverEnds
PROPERTY Terminates
