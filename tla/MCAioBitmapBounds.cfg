CONSTANTS
    SectorsPerChunk = 2048
    SectorBits = 9
    WordBits = 64
    Sizes <- MCSizes
    Probes = {0, 1, 2}
SPECIFICATION Spec
INVARIANT
    AccessInBounds
