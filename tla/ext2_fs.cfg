\* Blocks with three entries; IntMax below the largest leftover number.
CONSTANTS
    BlockBytes = 36
    NameBytes = 12
    NoFunction = NoFunction
    IntMax = 10
    LeftNumbers = {0, 2, 3, 7, 11}
    Volumes <- SmallVolumes
    LeftInodes <- SmallLeftInodes
    Paths <- SmallPaths
    Reads <- SmallReads
SPECIFICATION FsSpec
   
PROPERTIES OperationsEnd
\* A call of a null pointer ends the program.
CHECK_DEADLOCK FALSE
