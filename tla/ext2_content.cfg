\* A file as Linux places it on an empty volume.
CONSTANTS
    PtrsPerBlock = 2
    U32 = 1024
    U64 = 4096
    MaxCount = 16
    Sizes = {2, 5}
    LastIndex = 21
    Orders = {"linux"}
    Images <- ImageSet
SPECIFICATION FairSpec
INVARIANT ContentIsTheFile
