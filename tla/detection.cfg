SPECIFICATION Spec
CONSTANTS
    Blocks <- MCBlocks
    Extents <- MCExtents
    NamespaceBlocks = 40
    Contents <- MCContents
    ZeroContent = "zero"
    Entropy <- MCEntropy
    Parts = 2
    WindowOperations = 3
    MinimumOperations = 2
INVARIANTS
    CensusExact
PROPERTIES
    AlertNeedsRead
    SweepContained
