\* A fresh tag that equals one the program uses.
CONSTANTS
    num_blocks = 3
    block_size = 2
    associativity = 3
    IntMod = 64
    Addresses = {0, 2}
    FreshTags = {0, 9}
    MaxAccesses = 4
SPECIFICATION Spec
INVARIANTS ValidLinesFirst
\* The program stops after MaxAccesses reads.
CHECK_DEADLOCK FALSE
