\* Merging the block h->next points to.
CONSTANTS
    SearchAlgs = {"NEXTFIT"}
    SbrkAddr = 8
    SbrkSize = 76
    PointerHigh = 0
    MAX_UNUSED_BYTES = 16
    WordMod = 256
    Requests = {8}
    Garbage = {}
    UserWords = {}
SPECIFICATION Spec
INVARIANTS NextIsABlock
