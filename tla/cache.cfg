\* Two of three sets reached by the mask; lines of a new cache hold any tag.
CONSTANTS
    num_blocks = 10
    block_size = 2
    associativity = 3
    IntMod = 64
    Addresses = {0, 3, 4, 9, 12}
    FreshTags = {0, 9}
    MaxAccesses = 7
SPECIFICATION Spec
INVARIANTS ReadsWhatWasAsked LinesConsistent ValidFoundFirst
PROPERTIES MissesAreMisses StepsLikeLRU
\* The program stops after MaxAccesses reads.
CHECK_DEADLOCK FALSE
