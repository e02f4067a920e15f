\* A request that is no multiple of 8.
CONSTANTS
    SearchAlgs = {"FIRSTFIT"}
    SbrkAddr = 8
    SbrkSize = 76
    PointerHigh = 0
    MAX_UNUSED_BYTES = 16
    WordMod = 256
    Requests = {8, 12}
    Garbage = {0, 4, 16, 100}
    UserWords = {}
SPECIFICATION Spec
INVARIANTS LiveBlocks
