\* Files of up to three chunks, chunks that end within an instruction, reads that fail.
CONSTANTS
    Files <- AllFiles
    Memories <- SomeMemories
    BUFFER_SIZE = 8
    MEMORY_SIZE = 11
    SIZE_T = 64
SPECIFICATION FairSpec
INVARIANT TypeOK
INVARIANT ListingIsOfTheFile
INVARIANT CutIsFatal
INVARIANT MisreadsTheseShapesOnly
PROPERTY Terminates
