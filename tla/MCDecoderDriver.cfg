\* The decoder program on every opcode with register bytes of every shape, and on every file of up to
\* four bytes over SomeBytes, with a buffer that the longest files do not fit in.
CONSTANTS
    Files <- AllFiles
    Residues <- SomeResidues
    BUFFER_SIZE = 3
SPECIFICATION FairSpec
INVARIANT TypeOK
INVARIANT ListingTilesInput
INVARIANT OverrunIsReported
INVARIANT ListingDependsOnInputOnly
INVARIANT SanityChecksUnreachable
INVARIANT LengthMatchesReference
INVARIANT OperandsMatchReference
PROPERTY Terminates
