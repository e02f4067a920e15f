\* The three strategies; the first block follows struct heap without padding.
CONSTANTS
    SearchAlgs = {"FIRSTFIT", "NEXTFIT", "BESTFIT"}
    SbrkAddr = 4
    SbrkSize = 80
    PointerHigh = 85
    MAX_UNUSED_BYTES = 16
    WordMod = 256
    Requests = {8, 16, 248}
    Garbage = {}
    UserWords = {0, 17}
SPECIFICATION Spec
INVARIANTS TypeOK WellFormed NoFreeNeighbours LiveBlocks
PROPERTIES ImplementsAllocator MallocPlaces MallocReturns OnlyStaleNextBreaks
    FaultsExplained AverageOfFreeBlocks
\* The run ends where the behaviour is undefined.
CHECK_DEADLOCK FALSE
