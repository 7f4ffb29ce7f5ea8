\* The moves between registers and memory.
CONSTANTS
    Files <- RegMemFiles
    Residues <- SomeResidues
    BUFFER_SIZE = 3
SPECIFICATION Spec
INVARIANT DirectionIsDecoded
