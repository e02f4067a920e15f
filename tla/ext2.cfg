\* Every read of 1, 2, 3, 5 or 60 words of a file of 43 words, two a block.
CONSTANTS
    PtrsPerBlock = 2
    U32 = 1024
    U64 = 4096
    MaxCount = 16
    Sizes = {1, 2, 3, 5, 60}
    LastIndex = 21
    Orders = {"data first", "linux", "backwards", "sparse"}
    Images <- ImageSet
SPECIFICATION FairSpec
INVARIANTS TypeOK AllOrNothing ContiguousIsRight ContiguousAnswer
PROPERTY CallsReturn
